---------------------------- MODULE PlayoutReserve ----------------------------
(***************************************************************************)
(* What a picture of a variable-refresh stream may be held back for, so    *)
(* that the next one is not missed: the larger of what the arrivals teach  *)
(* (frame_pacing.hpp, VrrReadinessReserve) and of what the display teaches *)
(* (ps5_pacing_feedback.hpp, Ps5SpacingFeedback).  A picture is its        *)
(* distances, in microseconds, from the one before it.                     *)
(***************************************************************************)
EXTENDS Integers, Sequences, FiniteSets

CONSTANTS
  Samples,  \* pictures the arrivals are judged by, 32,
  Enough,   \* and from how many on, 12
  Cap,      \* the most either may teach: 0, 8000 or 16000 by the VRR profile,
  Percentile  \* and how many in a hundred are not as late: 90, 95 by the last profile

\* Assumed of the constants.
ASSUME PlayoutAssumption ==
  Samples \in Nat /\ Enough \in 2 .. Samples /\ Cap \in Nat /\ Percentile \in {90, 95}

VARIABLES
  begun,     \* last_pts_: a picture was observed
  window,    \* samples_, the newest last
  arrivals,  \* VrrReadinessReserve::reserve_us_
  follows,   \* continuity_ of Ps5SpacingFeedback
  misses,    \* consecutive_, of which three are as good as more
  spacing,   \* Ps5SpacingFeedback::reserve_us_
  lates,     \* pictures readied late since the arrivals last broke off,
  shownLate, \* and since what the display shows last broke off
  punctual   \* pictures readied in time in a row

reserveVars == <<begun, window, arrivals, follows, misses, spacing, lates, shownLate, punctual>>

Least(a, b) == IF a < b THEN a ELSE b
Most(a, b) == IF a > b THEN a ELSE b

Lateness == 3000    \* bound: of a late picture
Forgotten == Samples + Cap \div 40 + 1

\* What happens to a picture: the PC's pause before it, how much later than
\* that it was readied, asked for and seen on the display, whether the number
\* is the next one, and whether the output was variable.
Pictures ==
  [pace : {16666, 60000, 150000}, ready : {0, Lateness}, seen : {0, Lateness},
   asked : {-1, 0, Lateness}, next : BOOLEAN, variable : BOOLEAN]

\* The presenter always knows when it asked; "Older tests and adapters" do not.
Asked(q) == q.asked >= 0

-----------------------------------------------------------------------------
(* VrrReadinessReserve::observe *)

\* A bug: the old scene's reserve is carried into the new one.
BrokenKeeps == arrivals

Broken == 0

LateOnes(w) == Cardinality({i \in DOMAIN w : w[i] > 0})

\* What the percentile of the window is late by, less half a millisecond.
Target(w) ==
  LET rank == ((Len(w) - 1) * Percentile) \div 100 IN
  IF Len(w) - LateOnes(w) <= rank THEN Least(Cap, Lateness - 500) ELSE 0

Learn(w) ==
  IF Len(w) < Enough THEN arrivals
  ELSE IF Target(w) > arrivals THEN Least(Target(w), arrivals + 250)
  ELSE arrivals - Least(arrivals - Target(w), 50)

Arrive(q) ==
  LET usable == q.next /\ q.pace <= 50000
      w == IF Len(window) < Samples THEN Append(window, q.ready) ELSE Append(Tail(window), q.ready)
  IN
  /\ begun' = TRUE
  /\ IF ~begun THEN UNCHANGED <<window, arrivals, lates>>
     ELSE IF usable
       THEN /\ window' = w /\ arrivals' = Learn(w)
            /\ lates' = IF q.ready > 0 THEN Least(lates + 1, 3) ELSE lates
       ELSE window' = <<>> /\ arrivals' = Broken /\ lates' = 0

-----------------------------------------------------------------------------
(* Ps5SpacingFeedback::observe *)

\* A bug: late on the display is late enough.
OwedToAnyDelay(q) == q.seen > 0

\* Late on the display because it was readied late: the wait for the display
\* explains it, where the time it was asked at is known.
Owed(q) == q.ready > 0 /\ q.seen > 0 /\ (Asked(q) => q.asked > 0)

Reset == misses' = 0 /\ spacing' = 0 /\ shownLate' = 0

Displayed(q) ==
  LET usable == q.next /\ q.pace <= 100000 IN
  IF ~q.variable \/ Cap = 0
    THEN follows' = FALSE /\ (IF follows THEN Reset ELSE UNCHANGED <<misses, spacing, shownLate>>)
  ELSE
  /\ follows' = TRUE
  /\ IF ~follows THEN UNCHANGED <<misses, spacing, shownLate>>
     ELSE IF ~usable THEN Reset
     ELSE /\ shownLate' = IF q.ready > 0 THEN Least(shownLate + 1, 3) ELSE shownLate
          /\ IF Owed(q)
               THEN /\ misses' = Least(misses + 1, 3)
                    /\ spacing' = IF misses + 1 >= 3 THEN Least(Cap, spacing + 250) ELSE spacing
               ELSE misses' = 0 /\ spacing' = spacing - Least(spacing, 40)

ReservePicture(q) ==
  /\ Arrive(q) /\ Displayed(q)
  /\ punctual' = IF q.ready > 0 THEN 0 ELSE Least(punctual + 1, Forgotten)

\* A flip was overtaken before it was seen.
Overtaken ==
  /\ Reset /\ follows' = FALSE
  /\ UNCHANGED <<begun, window, arrivals, lates, punctual>>

ReserveInit ==
  /\ begun = FALSE /\ window = <<>> /\ arrivals = 0 /\ lates = 0
  /\ follows = FALSE /\ misses = 0 /\ spacing = 0 /\ shownLate = 0 /\ punctual = 0

ReserveNext == Overtaken \/ \E q \in Pictures : ReservePicture(q)

ReserveSpec == ReserveInit /\ [][ReserveNext]_reserveVars

-----------------------------------------------------------------------------
ReserveTypeOK ==
  /\ begun \in BOOLEAN /\ window \in Seq({0, Lateness}) /\ Len(window) <= Samples
  /\ arrivals \in 0 .. Cap
  /\ follows \in BOOLEAN /\ misses \in 0 .. 3 /\ spacing \in 0 .. Cap
  /\ lates \in 0 .. 3 /\ shownLate \in 0 .. 3 /\ punctual \in 0 .. Forgotten

HeldBack == Most(arrivals, spacing)

\* Latency is only added for pictures readied late, more than one of them, in
\* this very stretch of the stream: not for a PC that stutters, for a display
\* that is late itself, or for a scene before a break.
Earned == (arrivals > 0 => lates >= 2) /\ (spacing > 0 => shownLate >= 3)

\* And taken away again once pictures are readied in time.
Forgets == punctual = Forgotten => HeldBack = 0

\* What may be held back is earned, and forgotten: both learners over every
\* order of pictures (frame_pacing.hpp:411, ps5_pacing_feedback.hpp:118).
ReserveOK == ReserveTypeOK /\ Earned /\ Forgets

=============================================================================
