----------------------------- MODULE VrrTimeline ------------------------------
(***************************************************************************)
(* When a picture of a variable-refresh stream is shown, by the time the   *)
(* PC gave it rather than by its arrival (ps5_vrr_timeline.hpp,            *)
(* VrrSourceTimeline).  The PC's clock and the console's share no epoch:   *)
(* what is kept is how far the anchor puts a picture behind the PC's time, *)
(* and lateness is counted alike.  Microseconds.                           *)
(***************************************************************************)
EXTENDS Integers

CONSTANTS
  Jitter,    \* how late the pictures of a steady network are, each time anew,
  Spikes,    \* and how late a few of them may be in a row
  Delays,    \* how late those of a network are whose delay changes for good
  Reserve    \* what a picture may be held back for: 0 without a VRR profile

VARIABLES
  network,   \* "steady" or "changing"
  delay,     \* of the changing network
  anchored,  \* anchored_
  phase,     \* anchor_local_ - anchor_source_
  late,      \* of the last picture, last_ready_ - last_source_
  run,       \* late_run_, of which eight are as good as more
  held,      \* target - ready of the last picture
  shown,     \* and how far behind the PC's time that is, but for spikes
  ahead,     \* how long before its place that picture was ready
  moved,     \* how far it was moved from the picture before it, if both were kept for theirs
  pictures   \* since the delay changed

vars == <<network, delay, anchored, phase, late, run, held, shown, ahead, moved, pictures>>

Following == 8       \* late pictures in a row that move the anchor
FarAway == 100000    \* a picture this far from where it is expected rebases
Pace == 16666        \* from one picture of the PC to the next
Patience == 300      \* bound: pictures between two changes of the delay

Near == 20000        \* what the anchor gets over within the patience

Least(a, b) == IF a < b THEN a ELSE b
Most(a, b) == IF a > b THEN a ELSE b
Distance(a, b) == IF a > b THEN a - b ELSE b - a

Kept == 2000         \* the most a picture is kept for beyond the reserve

\* Assumed of the constants.  The reserve covers the jitter; what comes between
\* is later than that, and not so late that it is another network.  A delay that
\* changes for good does so by at most 20 ms, which the anchor gets over, or by
\* more than 104 ms, so that it rebases.
TimelineAssumption ==
  /\ Reserve \in Nat /\ Jitter \subseteq Nat /\ Spikes \subseteq Nat /\ Delays \subseteq Nat
  /\ \A a, b \in Jitter : a - b <= FarAway /\ (Reserve > 0 => a - b <= Reserve)
  /\ \A a \in Jitter, s \in Spikes : a <= s /\ s - a <= FarAway
  /\ Delays # {} /\ \A d, e \in Delays : Distance(d, e) <= Near \/ Distance(d, e) > FarAway + 4000

-----------------------------------------------------------------------------
\* A bug: the anchor is every picture that is not where it is expected.
TowardsAtOnce(ready, n) ==
  IF ready + 600 < phase \/ ready > phase + 3500 THEN ready ELSE phase

\* The anchor follows a picture that is early, and pictures that are late in a
\* row, by a tenth of a millisecond each.
Towards(ready, n) ==
  IF ready + 600 < phase THEN phase - Least(100, Most(1, (phase - ready - 600) \div 8))
  ELSE IF ready > phase + 3500 /\ n >= Following
         THEN phase + Least(100, (ready - phase - 3500) \div 16 + 1)
  ELSE phase

LateRun(ready) == IF ready > phase + 3500 THEN Least(run + 1, Following) ELSE 0

\* A bug: the whole reserve is waited for from the arrival.
HeldFromArrival(p, ready) == Reserve

\* target: the picture's place on the timeline, but within what the reserve
\* allows after it was ready.
Held(p, ready) ==
  IF Reserve = 0 THEN 0 ELSE Most(0, Least(p - ready, Kept) + Reserve)

\* observe and target of a picture that is this late; jump: the PC's time went
\* back, or a quarter of a second on.  No picture is ready before the one before
\* it, whatever its lateness.
Observe(ready, jump) ==
  LET p == Towards(ready, LateRun(ready))
      rebase == ~anchored \/ jump \/ Distance(ready, p) > FarAway IN
  /\ jump \/ late <= ready + Pace
  /\ anchored' = TRUE
  /\ phase' = (IF rebase THEN ready ELSE p)
  /\ run' = (IF rebase THEN 0 ELSE LateRun(ready))
  /\ late' = ready
  /\ held' = Held(phase', ready)

SteadyPicture ==
  /\ network = "steady"
  /\ \E ready \in Jitter :
        Observe(ready, FALSE) /\ shown' = ready + held' /\ ahead' = phase' - ready
  /\ moved' = (IF anchored /\ ahead <= Kept /\ ahead' <= Kept THEN shown' - shown ELSE 0)
  /\ UNCHANGED <<network, delay, pictures>>

Spike ==
  /\ network = "steady" /\ anchored /\ run < Following - 1
  /\ \E ready \in Spikes : Observe(ready, FALSE)
  /\ UNCHANGED <<network, delay, shown, ahead, moved, pictures>>

Picture ==
  /\ network = "changing"
  /\ Observe(delay, FALSE)
  /\ pictures' = Least(pictures + 1, Patience)
  /\ UNCHANGED <<network, delay, shown, ahead, moved>>

\* The next pictures have another delay; the first comes after a jump of the
\* PC's time or without one.
Change ==
  /\ network = "changing" /\ pictures = Patience
  /\ \E d \in Delays \ {delay}, jump \in BOOLEAN : delay' = d /\ Observe(d, jump)
  /\ pictures' = 0
  /\ UNCHANGED <<network, shown, ahead, moved>>

Init ==
  /\ network \in {"steady", "changing"}
  /\ delay \in IF network = "steady" THEN {0} ELSE Delays
  /\ anchored = FALSE /\ phase = 0 /\ late = 0 /\ run = 0
  /\ held = 0 /\ shown = 0 /\ ahead = 0 /\ moved = 0 /\ pictures = 0

Next == SteadyPicture \/ Spike \/ Picture \/ Change

Spec == Init /\ [][Next]_vars

-----------------------------------------------------------------------------
TypeOK ==
  /\ network \in {"steady", "changing"} /\ delay \in Nat /\ anchored \in BOOLEAN
  /\ phase \in Int /\ late \in Nat /\ run \in 0 .. Following
  /\ held \in Nat /\ shown \in Nat /\ ahead \in Int /\ moved \in Int
  /\ pictures \in 0 .. Patience

\* Jitter that the reserve covers is not seen, but for the pictures that are more
\* than 2 ms before their place, which the code does not keep for it: any other
\* two are as far apart as the PC took them, to a few tenths of a millisecond,
\* and a few late pictures among them do not shift the others.  Where the jitter
\* is at most 2 ms that is every picture (ps5_vrr_timeline.hpp:45, :78).
Even == network = "steady" /\ Reserve > 0 => Distance(moved, 0) <= 250

\* A lasting delay, longer or shorter than the one before it, is the new phase
\* after five seconds (ps5_vrr_timeline.hpp:45).
Follows == pictures = Patience => -3516 <= phase - delay /\ phase - delay <= 608

\* The timeline over every order of arrivals (ps5_vrr_timeline.hpp:29).
TimelineOK == TypeOK /\ Even /\ Follows

=============================================================================
