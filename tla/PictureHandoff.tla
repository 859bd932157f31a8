---------------------------- MODULE PictureHandoff ----------------------------
(***************************************************************************)
(* What the picture pipeline promises its player, without slots, decoder   *)
(* calls or threads: pictures are published in the order their frames were *)
(* captured, at most Capacity of them wait, only the oldest is ever pushed *)
(* out, and the screen never goes back to an older frame.                  *)
(***************************************************************************)
EXTENDS Naturals, Sequences

CONSTANTS Capacity, MaxFrame

NoFrame == 0

VARIABLES
  waiting,  \* frames ready for the screen, oldest first
  showing,  \* frame being brought to the screen, or NoFrame
  shown     \* last frame that reached the screen, or NoFrame

vars == <<waiting, showing, shown>>

Init == waiting = <<>> /\ showing = NoFrame /\ shown = NoFrame

\* Every frame seen so far on its way to the screen.
Seen == {waiting[i] : i \in 1 .. Len(waiting)} \cup {showing, shown}

\* A newer frame is ready; a full queue loses its oldest.
Publish(f) ==
  /\ \A g \in Seen : g < f
  /\ waiting' = Append(IF Len(waiting) = Capacity THEN Tail(waiting) ELSE waiting, f)
  /\ UNCHANGED <<showing, shown>>

\* The oldest frame is taken; a queue of two may lose it to its successor.
Take(k) ==
  /\ k > 1 => Capacity > 1
  /\ showing = NoFrame
  /\ showing' = waiting[k]
  /\ waiting' = SubSeq(waiting, k + 1, Len(waiting))
  /\ UNCHANGED shown

\* The frame is on the screen.
Show ==
  /\ showing # NoFrame
  /\ shown' = showing
  /\ showing' = NoFrame
  /\ UNCHANGED waiting

\* The frame cannot be shown.
GiveUp ==
  /\ showing # NoFrame
  /\ showing' = NoFrame
  /\ UNCHANGED <<waiting, shown>>

Next ==
  \/ \E f \in 1 .. MaxFrame : Publish(f)
  \/ \E k \in 1 .. Len(waiting) : Take(k)
  \/ Show
  \/ GiveUp

Spec == Init /\ [][Next]_vars

=============================================================================
