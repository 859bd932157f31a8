--------------------------- MODULE VideoInvariants ---------------------------
(***************************************************************************)
(* The inductive invariants behind the slot properties of VideoPipeline.   *)
(***************************************************************************)
EXTENDS VideoPipeline

\* Control facts the types depend on.
ControlOK ==
  /\ dpc \in {"unit", "offer", "decode"} => unit \in Unit
  /\ InDecoderCall \/ dpc = "settle" => offered \in Slots
  /\ ppc \in {"choose", "deadline", "flip"} => failures < PresentFailureLimit
  /\ Holding => current \in Picture
  /\ mpc = "setup" => ppc = "none" /\ failures = 0
  /\ mpc \in {"joined", "released", "faulted"} => ppc \in {"none", "exited"}

-----------------------------------------------------------------------------
(* The screen's side of the pool.                                          *)

\* Ready slots are exactly those of the mailbox, each once.
ReadyWaits ==
  /\ \A i \in 1 .. Len(mailbox) : frames.state[mailbox[i].slot] = "Ready"
  /\ \A i, j \in 1 .. Len(mailbox) : mailbox[i].slot = mailbox[j].slot => i = j
  /\ \A s \in Slots : frames.state[s] = "Ready" => InMailbox(s)

\* The Presenting slot is the one the presentation worker took.
PresentingTaken ==
  /\ Holding => frames.state[current.slot] = "Presenting"
  /\ \A s \in Slots :
       frames.state[s] = "Presenting" => s = current.slot /\ ppc \notin {"none", "choose"}

\* The GPU reads nothing but that slot.
FlipTaken ==
  /\ flip # NoSlot =>
       flip = current.slot /\ frames.state[flip] = "Presenting" /\ ppc \in {"flip", "exited"}
  /\ ppc = "flip" => flip = current.slot

\* The slot offered to a decoder call is Free until that call is settled.
OfferedFree == InDecoderCall \/ dpc = "settle" => frames.state[offered] = "Free"

PoolInv == ReadyWaits /\ PresentingTaken /\ FlipTaken /\ OfferedFree

-----------------------------------------------------------------------------
(* The decoder's side.                                                     *)

\* The program's submissions are the units inside the decoder, in order, and
\* the slots it believes the decoder has are slots the decoder really kept.
InStep ==
  /\ submissions = decoder.units
  /\ \A s \in Slots : frames.state[s] = "Decoding" => s \in decoder.kept

\* What the decoder kept is not on its way to the screen.
KeptHidden == \A s \in decoder.kept : frames.state[s] \in {"Free", "Decoding"}

\* A decoder the worker may still use without a reset is in step.
UsableInStep ==
  /\ dpc \in {"offer", "decode", "flush", "settled", "drainFlush"} => InStep
  /\ dpc \in {"none", "top", "wait", "unit", "needIdr", "ok", "drain", "check", "exited"}
       /\ ~needsReset /\ (running \/ draining)
     => InStep
  /\ mpc = "setup" => dpc = "none" /\ InStep

\* Between a decoder call and its settlement the trusted picture is the oldest
\* unit's, and the decoder has let its slot go.
SettleInStep ==
  dpc = "settle" =>
    /\ output.slot = NoSlot => submissions = decoder.units
    /\ output.slot # NoSlot /\ TrustedOutput =>
         /\ Tail(submissions) = decoder.units
         /\ frames.picture[output.slot] = Head(submissions).frame
         /\ output.slot \notin decoder.kept
    /\ output.accepted /\ offered # output.slot => offered \in decoder.kept
    /\ \A s \in Slots \ {output.slot} : frames.state[s] = "Decoding" => s \in decoder.kept

\* Where a call of the unit's own path may end in an error, needsReset stands.
ResetStands ==
  /\ dpc \in {"offer", "decode", "flush"} => needsReset /\ ~draining
  /\ dpc \in {"settle", "settled"} /\ ~draining => needsReset
  /\ draining => dpc \in {"drain", "drainFlush", "settle", "settled", "fallback"}
  /\ dpc = "flush" => submissions # <<>>
  /\ dpc = "drainFlush" => submissions # <<>> /\ draining /\ ~needsReset
  /\ draining /\ dpc \in {"settle", "settled"} => ~needsReset

DecoderInv == KeptHidden /\ UsableInStep /\ SettleInStep /\ ResetStands

\* The slots, the decoder and the pictures in them.
PictureInv == TypeOK /\ ControlOK /\ PoolInv /\ DecoderInv /\ PictureIntact

-----------------------------------------------------------------------------
(* What the decoder must be given next.                                    *)

\* A decoder in the middle of a drain is flushed again, or reset or given up
\* before another unit: the drain still has something to flush.
DrainInv ==
  /\ draining => depth > 1
  /\ draining /\ dpc = "drain" => ~needsReset
  /\ mpc = "setup" => ~decoder.midDrain
  /\ decoder.midDrain /\ draining => dpc = "fallback" \/ decoder.units # <<>>
  /\ decoder.midDrain /\ ~draining =>
       /\ dpc \notin {"offer", "decode", "flush", "drainFlush", "settle", "settled"}
       /\ needsReset \/ ~running

\* The decoder has no reference pictures, or is about to lose them.
Bare == needsReset \/ decoder.fresh

\* A bare decoder is owed a keyframe by the host, waits for one, or has one in
\* hand.
KeyframeInv ==
  /\ mpc = "setup" => keyframeOwed
  /\ Bare /\ dpc \in {"none", "top", "wait", "ok", "drain", "check"} =>
       keyframeOwed \/ awaitKeyframe \/ ~running
  /\ Bare /\ dpc = "unit" => unit.idr \/ awaitKeyframe \/ ~running
  /\ decoder.fresh => dpc \notin {"flush", "settle", "settled"}
  /\ decoder.fresh /\ dpc \in {"offer", "decode"} => unit.idr

\* The memory is freed only after both workers.
TeardownInv ==
  /\ mpc \in {"joining", "joined", "released", "faulted"} => dpc \in {"none", "exited"}
  /\ mpc = "released" => flip = NoSlot /\ ~decoder.alive

-----------------------------------------------------------------------------
(* The order of the frames.                                                *)

\* f comes after every frame that waits, is being shown or was shown last.
AfterShown(f) ==
  /\ \A i \in 1 .. Len(mailbox) : mailbox[i].frame < f
  /\ Holding => current.frame < f
  /\ shown < f

\* f comes after every frame that arrived.
AfterAll(f) ==
  /\ AfterShown(f)
  /\ \A k \in 1 .. Len(submissions) : submissions[k].frame < f

\* Frames pass through decoder, mailbox and screen in the order they arrived.
OrderInv ==
  /\ \A k \in 1 .. Len(submissions) : AfterShown(submissions[k].frame)
  /\ \A j, k \in 1 .. Len(submissions) : j < k => submissions[j].frame < submissions[k].frame
  /\ dpc \in {"unit", "offer", "decode"} => AfterAll(unit.frame) /\ unit.frame < nextFrame
  /\ AfterAll(nextFrame)

\* Everything the proofs need of a reachable state.
VideoInv == PictureInv /\ DrainInv /\ KeyframeInv /\ TeardownInv /\ OrderInv

-----------------------------------------------------------------------------
(* Room for the next access unit.                                          *)

\* The static_assert beside FRAME_SLOT_COUNT and INPUT_SLOT_COUNT: a slot for
\* every picture the decoder may hold, for every ready one, for the one on the
\* screen and for the next call; and an input slot more than units in flight.
Roomy == SlotCount >= RequestedDepth + Capacity + 2 /\ InputSlotCount > RequestedDepth

\* The newest picture, which is never handed out, is the newest ready one.
NewestWaits == mailbox # <<>> => mailbox[Len(mailbox)].slot = frames.last

\* Outside the calls of a unit, and without a reset to come.
BetweenCalls ==
  /\ dpc \in {"none", "top", "wait", "unit", "needIdr", "ok", "drain", "check", "exited"}
  /\ ~needsReset

\* A pipeline that goes on holds at most its depth, one more inside a call, and
\* no more frame slots than units.
DepthInv ==
  /\ dpc \in {"offer", "decode"} \/ ~needsReset => Len(submissions) <= depth
  /\ dpc \in {"flush", "settle", "settled"} => Len(submissions) <= depth + 1
  /\ dpc = "settled" /\ output.slot # NoSlot => Len(submissions) <= depth
  /\ dpc = "offer" \/ BetweenCalls => Cardinality(DecodingSlots(frames)) <= Len(submissions)

\* The input slot k places before slot a, around the ring.
Behind(a, k) == IF k <= a THEN a - k ELSE a - k + InputSlotCount

\* The units in flight lie in the input slots just before inputSequence, the
\* newest nearest; during a decode call the unit in hand lies between.
InputsInRow(gap) ==
  \A i \in 1 .. Len(submissions) :
    submissions[i].input = Behind(inputSequence, Len(submissions) - i + gap)

RowInv ==
  /\ dpc \in {"offer", "flush", "settle", "settled"} \/ (dpc # "decode" /\ ~needsReset)
       => InputsInRow(1)
  /\ dpc = "decode" => InputsInRow(2)

RoomInv == NewestWaits /\ DepthInv /\ RowInv

=============================================================================
