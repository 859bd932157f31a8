------------------------------ MODULE VrrPolicy -------------------------------
(***************************************************************************)
(* How often a picture is scanned out on a variable-refresh display, by    *)
(* the period of the PC's pictures (frame_pacing.hpp,                      *)
(* VrrRepeatPolicy::update_repeat_policy).  Times are microseconds, as in  *)
(* the code.                                                               *)
(***************************************************************************)
EXTENDS Integers

Floor == 8342            \* display_floor_us_: 119.88 Hz is the fastest
Slowest == 16000         \* a scanout is repeated at 60 Hz at least
SingleScanout == 16833   \* kSingleScanoutLimitUs
MostCopies == 32

Least(a, b) == IF a < b THEN a ELSE b
Most(a, b) == IF a > b THEN a ELSE b
Clamp(x, low, high) == Least(Most(x, low), high)
Percent(x, p) == (x * p) \div 100

\* As few scanouts as keep 60 Hz, then one more as long as each is slower than
\* 13.5 ms and the display can take it.
Copies(p) ==
  LET least == (p + SingleScanout - 1) \div SingleScanout
      enough(n) == n = MostCopies \/ p \div n <= 13500 \/ p \div (n + 1) < Floor
  IN IF least <= 1 THEN 1
     ELSE CHOOSE n \in least .. Most(least, MostCopies) :
            enough(n) /\ \A k \in least .. n - 1 : ~enough(k)

\* low_ and interval_
Low(p) == Copies(p) > 1
Interval(p) == IF Low(p) THEN Clamp(p \div Copies(p), Floor, Slowest) ELSE Slowest

=============================================================================
