------------------------------- MODULE VrrGrid --------------------------------
(***************************************************************************)
(* When the presentation thread puts out the next picture, and when it     *)
(* puts out the last one again, on a variable-refresh display              *)
(* (frame_pacing.hpp, VrrRepeatPolicy; video_present_thread in             *)
(* moonlight_stream.cpp).  Microseconds, counted from the last submission: *)
(* of a picture or of a repeat.                                            *)
(***************************************************************************)
EXTENDS VrrPolicy

CONSTANTS
  Periods,    \* the cadences of the steady PCs
  Cadences,   \* and those another PC is found to have by turns
  Arrivals,   \* how long after a submission that PC's next picture is taken
  Delays,     \* how much after its target a submission happens
  Jitters,    \* how far from its cadence a picture of a steady PC comes
  Grace,      \* the grace of the VRR profile: 750, 1500 or 2500
  MostFailures, \* bound: repeats refused in a row
  Reserve     \* what the profile may hold a picture back for: 0, 8000 or 16000

VARIABLES
  pc,         \* "steady": its pictures are a period apart; or "any"
  period,     \* period_, and moving_period_ when the grid does not repeat
  next,       \* next_
  picture,    \* last_picture_at_
  isPicture,  \* last_was_picture_
  gap,        \* gap_
  failures,   \* RepeatRetryPolicy: repeats refused in a row,
  retry,      \* and when the next may be tried
  due,        \* when the steady PC's next picture is due
  held        \* how long the last picture waited behind a scanout

(* Assumed of the constants: periods as they are fitted, and of a steady PC *)
(* that its pictures come little later than the grace, and that its rate    *)
(* leaves the grid room for a thread that is late.  A little under 60 Hz    *)
(* there is none, two scanouts a picture being as fast as the display can,  *)
(* and above 60 Hz there are the two hundredths that a picture may come     *)
(* earlier than its period.                                                 *)
HasRoom(p, delay) ==
  IF Low(p) THEN /\ Floor + delay <= Interval(p)
                 /\ Percent(Interval(p), 95) + delay <= Interval(p)
  ELSE Most(Floor, Percent(p, 98)) + delay <= p

Fittable == {p \in Nat : 8333 <= p /\ p <= 250000}

GridAssumption ==
  /\ Periods \subseteq Fittable /\ Cadences \subseteq Fittable
  /\ Grace \in 750 .. 2500 /\ Reserve \in Nat /\ Arrivals \subseteq Nat
  /\ Jitters # {} /\ Jitters \subseteq 0 .. Least(Grace, 1750)
  /\ Delays["any"] \subseteq Nat
  /\ Delays["steady"] # {} /\ Delays["steady"] \subseteq Nat
  /\ \A p \in Periods, delay \in Delays["steady"] : HasRoom(p, delay)

vars == <<pc, period, next, picture, isPicture, gap, failures, retry, due, held>>

LongAgo == -300000   \* bound: a picture older than this is that old

Submitted == Delays[pc]

-----------------------------------------------------------------------------
(* advance: the clock is moved to the submission that was now. *)

\* A bug: the grid starts again at every submission.
NextRestarts(grid, p, at) == at + Interval(p)

\* The slot after this one on the grid.  A late show is not followed by a
\* short interval.
NextSlot(grid, p, at) ==
  LET slot == IF next <= at THEN next + ((at - next) \div Interval(p) + 1) * Interval(p) ELSE next
  IN IF ~grid \/ slot < at + Percent(Interval(p), 95) THEN at + Interval(p) ELSE slot

-----------------------------------------------------------------------------
(* picture_target, without what the timeline holds the picture back for *)

\* A newer picture is queued: this one makes up for its age.
Spacing(p, age) ==
  LET usual == Most(Floor, Percent(p, 98)) IN
  IF age > p THEN usual - ((usual - Floor) * Least(age - p, p)) \div p ELSE usual

\* age: of the picture, when a newer one is queued, else 0.
Slot(p, repeats, age) ==
  IF Low(p) THEN IF age > p THEN Floor ELSE Most(Floor, Most(next, Percent(Interval(p), 95)))
  ELSE IF repeats THEN Floor
  ELSE Spacing(p, age)

\* A bug: no grace for the picture that is due.
IdleWithoutGrace == next

\* idle_deadline: a picture that is due is given some grace, but a repeat waits
\* for 16 ms at most.
Idle ==
  LET expected == picture + period IN
  IF ~Low(period) /\ isPicture THEN Most(next, expected + Grace)
  ELSE IF ~Low(period) \/ next > expected + Grace \/ next + Grace < expected THEN next
  ELSE Least(Most(next, expected + Grace), Slowest)

RepeatAt == Most(Idle, retry)

\* A picture taken at this time, with back of it left to the timeline.
Show(p, repeats, at, back, age, delay) ==
  LET target == Most(at + back, Slot(p, repeats, age))
      submitted == target + delay IN
  /\ next' = NextSlot(Low(p) \/ repeats, p, submitted) - submitted
  /\ picture' = 0 /\ isPicture' = TRUE /\ period' = p
  /\ gap' = (Low(p) /\ repeats)
  /\ failures' = 0 /\ retry' = 0
  /\ held' = target - (at + back)
  /\ due' = IF pc = "steady" THEN due + p - submitted ELSE 0
  /\ UNCHANGED pc

\* How old a picture is that a newer one follows, and how much the timeline
\* holds one back.
Ages(p) == {p + 3000, 3 * p}
Backs == {0, Reserve + 2000}

\* Whatever the PC sends and its cadence is found to be.  The repeats' grid
\* ends with three fast pictures after a sparse cadence.
Picture ==
  /\ pc = "any"
  /\ \E at \in Arrivals, delay \in Submitted, p \in Cadences :
       /\ at <= RepeatAt
       /\ \/ \E age \in Ages(p) : Show(p, gap, at, 0, age, delay)
          \/ \E back \in Backs :
               \/ Show(p, gap, at, back, 0, delay)
               \/ ~Low(p) /\ Low(period) /\ Show(p, FALSE, at, back, 0, delay)

SteadyPicture ==
  /\ pc = "steady"
  /\ \E j \in Jitters, delay \in Submitted :
       /\ due + j <= RepeatAt
       /\ Show(period, gap, Most(due + j, 0), 0, 0, delay)

\* No picture came: the last one is scanned out again.
Repeat ==
  /\ pc = "steady" => \E j \in Jitters : due + j > RepeatAt
  /\ \E delay \in Submitted :
       LET submitted == RepeatAt + delay IN
       /\ next' = NextSlot(TRUE, period, submitted) - submitted
       /\ picture' = Most(picture - submitted, LongAgo)
       /\ due' = IF pc = "steady" THEN due - submitted ELSE 0
  /\ gap' = TRUE /\ isPicture' = FALSE /\ failures' = 0 /\ retry' = 0
  /\ UNCHANGED <<pc, period, held>>

\* Doubled with every refusal, up to a quarter of a second.
Backoff == <<5000, 10000, 20000, 40000, 80000, 160000, 250000>>

\* The display refuses the repeat; the picture stays on it meanwhile.
RepeatRefused ==
  /\ pc = "any"
  /\ retry' = RepeatAt + Backoff[Least(failures, 6) + 1]
  /\ failures' = Least(failures + 1, 7)
  /\ failures < MostFailures
  /\ UNCHANGED <<pc, period, next, picture, isPicture, gap, due, held>>

\* The first picture was shown.
Init ==
  /\ pc \in {"any", "steady"}
  /\ period \in IF pc = "steady" THEN Periods ELSE Cadences
  /\ next = Interval(period)
  /\ picture = 0 /\ isPicture = TRUE /\ gap = FALSE
  /\ failures = 0 /\ retry = 0 /\ held = 0
  /\ due = IF pc = "steady" THEN period ELSE 0

Next == Picture \/ SteadyPicture \/ Repeat \/ RepeatRefused

Spec == Init /\ [][Next]_vars

-----------------------------------------------------------------------------
TypeOK ==
  /\ pc \in {"any", "steady"} /\ period \in Nat /\ next \in Int /\ picture \in LongAgo .. 0
  /\ isPicture \in BOOLEAN /\ gap \in BOOLEAN /\ failures \in 0 .. 7 /\ retry \in Nat
  /\ due \in Int /\ held \in Nat

\* The display is never left at less than 51 Hz on purpose, whatever the
\* cadence changes to and however late the submissions are: after a repeat the
\* next scanout is planned within 16 ms, after a picture when the next is due.
NeverTooSlow == Idle <= IF isPicture THEN SingleScanout + Grace ELSE Slowest

\* A repeat is never planned at once after a submission.
NeverABurst == next >= Percent(Floor, 95)

\* "a fresh frame never has to wait through an extra period"
\* (frame_pacing.hpp:673): behind the last scanout for one interval at most.
NoExtraPeriod == held <= Percent(SingleScanout, 98)

\* The pictures of a PC that keeps its rate, any that leaves room for repeats,
\* wait behind them no longer than the PC and this thread themselves are late:
\* the repeats fall between its pictures (frame_pacing.hpp:768).
RepeatsStandAside ==
  pc = "steady" =>
    held <= (CHOOSE j \in Jitters : \A k \in Jitters : k <= j)
            + (CHOOSE d \in Submitted : \A e \in Submitted : e <= d)

\* The grid of pictures and repeats (frame_pacing.hpp:640).
GridOK == TypeOK /\ NeverTooSlow /\ NeverABurst /\ NoExtraPeriod /\ RepeatsStandAside

=============================================================================
