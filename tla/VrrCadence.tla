------------------------------ MODULE VrrCadence ------------------------------
(***************************************************************************)
(* The cadence of the PC's pictures as a variable-refresh display needs it *)
(* (frame_pacing.hpp, VrrRepeatPolicy::observe_picture): a period fitted   *)
(* over windows of the sender's own time, from which follow the number of  *)
(* times a picture is scanned out and the interval between them.           *)
(***************************************************************************)
EXTENDS VrrPolicy

CONSTANTS
  Hosts,         \* the PCs modelled, of "steady", "quantized" and "changing"
  Paces,         \* the deltas of a changing PC's pictures
  Window,        \* sender time a window spans at least, 200000
  Confirmation   \* sender time a modest slowdown is confirmed over, 750000

\* Assumed of the constants.
CadenceAssumption ==
  /\ Hosts \subseteq {"steady", "quantized", "changing"} /\ Paces \subseteq Nat
  /\ Window \in Nat /\ Confirmation \in Nat

VARIABLES
  host,      \* the PC
  phase,     \* where the quantized PC is in its pattern
  period,    \* period_
  moving,    \* moving_period_
  fast,      \* fast_samples_, of which three are as good as more
  win,       \* [n, sum, low, high]: samples_ and the candidate of the window
  slow,      \* [fit, time]: slow_candidate_ and slow_confirmation_
  steadyFor, \* sender time since the PC was last found at its nominal cadence
  slowed     \* the last picture's window made the cadence modestly slower

vars == <<host, phase, period, moving, fast, win, slow, steadyFor, slowed>>

\* 60 FPS, and 90 FPS whose capture clock has steps of 8.3 ms: a picture is
\* then 8, 8 and 16 ms after the one before it by turns.
Nominal == IF host = "quantized" THEN 11111 ELSE 16666
Pattern == <<8333, 8333, 16666>>

-----------------------------------------------------------------------------
(* observe_picture *)

\* A bug: short bursts speed the grid up.
StableBothWays(measured) ==
  IF measured * 100 \in Nominal * 95 .. Nominal * 105 THEN Nominal ELSE measured

\* stable_period: never faster than the stream was asked for, and the nominal
\* period whenever it is near.
Stable(measured) ==
  IF measured < Nominal \/ (measured - Nominal) * 100 <= Nominal * 5 THEN Nominal ELSE measured

Fitted(sum, n) == Clamp(Stable(sum \div n), 8333, 250000)

NoWindow == [n |-> 0, sum |-> 0, low |-> 0, high |-> 0]
NoSlow == [fit |-> 0, time |-> 0]

\* A bug: one, the picture that is shown.
SentShown(frames) == 1

\* The pictures sent since the last one shown: those lost on the way or
\* dropped here do not make the PC slower.
Sent(frames) == frames

\* Three fast pictures end a sparse cadence.  Their mean is within the five
\* percent of the nominal period that make it the nominal one.
FastEnough(delta) == delta >= 6000 /\ delta <= Percent(Nominal, 105)
Recovers(run) == period > Percent(Nominal, 125) /\ run >= 3

\* The window this delta joins, or a new one when it is unlike the others.
Joined(old, delta, gap, frames) ==
  LET alike == old.n # 0 /\ delta * 21 >= old.high * 10 /\ delta * 10 <= old.low * 21
      base == IF alike THEN old ELSE [n |-> 0, sum |-> 0, low |-> delta, high |-> delta] IN
  [n |-> base.n + Sent(frames), sum |-> base.sum + gap,
   low |-> Least(base.low, delta), high |-> Most(base.high, delta)]

Complete(w) == w.n >= 8 /\ w.sum >= Window

\* 5 to 25 percent slower than asked for, when the cadence was not.
Modest(fit, p) ==
  /\ fit > Percent(Nominal, 105) /\ fit <= Percent(Nominal, 125)
  /\ p <= Percent(Nominal, 105)

\* A modest slowdown of another size starts its confirmation again.
Confirming(fit, w) ==
  LET difference == IF fit > slow.fit THEN fit - slow.fit ELSE slow.fit - fit
      again == slow.fit = 0 \/ difference * 100 > slow.fit * 3 IN
  [fit |-> fit, time |-> (IF again THEN 0 ELSE slow.time) + w.sum]

\* A bug: a window of another kind leaves the confirmation as it was.
TryingOn(fit, p, w) == IF Modest(fit, p) THEN Confirming(fit, w) ELSE slow

\* A window that is not modestly slower ends the confirmation.
Trying(fit, p, w) == IF Modest(fit, p) THEN Confirming(fit, w) ELSE NoSlow

Observe(gap, frames) ==
  LET delta == gap \div Sent(frames)
      run == IF FastEnough(delta) THEN Least(fast + 1, 3) ELSE 0
      recovers == Recovers(run)
      p == IF recovers THEN Nominal ELSE period
      w == Joined(IF recovers THEN NoWindow ELSE win, delta, gap, frames)
      fit == Fitted(w.sum, w.n)
      trying == Trying(fit, p, w)
      found == IF Modest(fit, p) /\ trying.time < Confirmation THEN p ELSE fit
      now == IF Complete(w) THEN found ELSE p IN
  /\ period' = now
  /\ moving' = IF Complete(w) /\ ~Low(now) THEN now ELSE IF recovers THEN p ELSE moving
  /\ fast' = IF recovers THEN 0 ELSE run
  /\ win' = IF Complete(w) THEN NoWindow ELSE w
  /\ slow' = IF Complete(w) THEN trying ELSE slow
  /\ slowed' = (Complete(w) /\ Modest(fit, p) /\ now # p)
  /\ steadyFor' = IF Complete(w) /\ fit = Nominal THEN 0
                  ELSE Least(steadyFor + gap, Confirmation)

\* The PC's pictures, of which up to two of three are not shown.
Steady ==
  /\ host = "steady" /\ \E frames \in 1 .. 3 : Observe(frames * Nominal, frames)
  /\ UNCHANGED <<host, phase>>

Sum(from, n) == IF n = 1 THEN Pattern[from + 1]
                ELSE Pattern[from + 1] + Pattern[((from + 1) % 3) + 1]

Quantized ==
  /\ host = "quantized"
  /\ \E frames \in 1 .. 2 : Observe(Sum(phase, frames), frames) /\ phase' = (phase + frames) % 3
  /\ UNCHANGED host

Changing ==
  /\ host = "changing"
  /\ \E pace \in Paces, frames \in 1 .. 2 : Observe(frames * pace, frames)
  /\ UNCHANGED <<host, phase>>

\* The first picture, one whose time is not after the last one's, or a second
\* after it.
Discontinuity ==
  /\ fast' = 0 /\ win' = NoWindow /\ slow' = NoSlow /\ steadyFor' = 0 /\ slowed' = FALSE
  /\ UNCHANGED <<host, phase, period, moving>>

Init ==
  /\ host \in Hosts /\ phase = 0 /\ period = Nominal /\ moving = Nominal /\ fast = 0
  /\ win = NoWindow /\ slow = NoSlow /\ steadyFor = 0 /\ slowed = FALSE

Next == Steady \/ Quantized \/ Changing \/ Discontinuity

Spec == Init /\ [][Next]_vars

-----------------------------------------------------------------------------
TypeOK ==
  /\ host \in Hosts /\ phase \in 0 .. 2 /\ fast \in 0 .. 3
  /\ period \in Nat /\ 8333 <= period /\ period <= 250000
  /\ win.n \in Nat /\ win.sum \in Nat /\ slow.time \in Nat

\* The asked-for rate is the fastest: a burst of captures never speeds the
\* scanout up (frame_pacing.hpp:757).
NeverFaster == period >= Nominal

\* A PC that keeps its rate is scanned out at its rate, whichever of its
\* pictures are lost on the way or dropped here, and however coarse the clock
\* that stamps them.
KeepsItsRate == host # "changing" => period = Nominal /\ moving = Nominal

\* A modest slowdown is believed only of a PC that was not at its rate for all
\* of the confirmation's time.
SlowsOnlyConfirmed == slowed => steadyFor >= Confirmation

\* The repeats of a picture end before the next picture is due.
FitsThePeriod == Low(period) => Copies(period) * Interval(period) <= period

\* Out of the repeat grid pictures keep the fitted distance.
MovesAtPeriod == ~Low(period) => moving = period

\* The cadence over every order of paces, losses and jumps
\* (frame_pacing.hpp:526).
CadenceOK ==
  TypeOK /\ NeverFaster /\ KeepsItsRate /\ SlowsOnlyConfirmed /\ FitsThePeriod /\ MovesAtPeriod

=============================================================================
