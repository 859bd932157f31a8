----------------------------- MODULE VideoPipeline -----------------------------
(***************************************************************************)
(* The VideoDec2 picture pipeline of one stream session: the decode worker,*)
(* the presentation worker and the session thread that starts, stops and   *)
(* tears them down.  The workers share the frame-slot pool and the ready   *)
(* mailbox under one lock.                                                 *)
(*                                                                         *)
(* External and modelled from its use: the frame queue of                  *)
(* moonlight-common-c (nextFrame, keyframeOwed, wake), the Videodec2       *)
(* decoder (decoder) and the GPU flip (flip).  `decoder` is what Videodec2  *)
(* really holds, and frames.picture the frame it last wrote into a slot    *)
(* since that was released; everything else in `frames`, `submissions` and *)
(* `mailbox` is what the program believes.                                 *)
(***************************************************************************)
EXTENDS Integers, Sequences, FiniteSets

CONSTANTS
  SlotCount,            \* FRAME_SLOT_COUNT
  RequestedDepth,       \* pipeline depth the decoder was created with
  Capacity,             \* mailbox.capacity: 1 unpaced, 2 in the paced modes
  InputSlotCount,       \* INPUT_SLOT_COUNT
  QueueCapacity,        \* SUBMISSION_QUEUE_CAPACITY
  FaultLimit,           \* PIPELINE_FAULT_LIMIT
  CleanOutputs,         \* PIPELINE_CLEAN_OUTPUTS
  PresentFailureLimit,  \* PRESENT_FAILURE_LIMIT
  MaxFrame              \* bound: frames the host sends in one behaviour

ASSUME SizesAssumption ==
  /\ SlotCount \in Nat \ {0}
  /\ RequestedDepth \in Nat \ {0}
  /\ Capacity \in {1, 2}
  /\ InputSlotCount \in Nat \ {0}
  /\ QueueCapacity \in Nat \ {0}

ASSUME LimitsAssumption ==
  /\ FaultLimit \in Nat \ {0}
  /\ CleanOutputs \in Nat \ {0}
  /\ PresentFailureLimit \in Nat \ {0}
  /\ MaxFrame \in Nat

VARIABLES
  \* Shared by the workers, under the lock.
  frames,         \* SlotPool: state, age (place among the Free slots, 1 = least
                  \* recently released; 0 = not Free), last
  mailbox,        \* ReadyMailbox: oldest ready picture first
  stopPresenting,
  \* Decode worker.
  dpc,            \* where the decode worker is
  unit,           \* the access unit in hand
  offered,        \* the slot passed to the decoder call in progress
  output,         \* what the last decoder call reported
  draining,       \* a drain has started
  depth, drainEnabled, needsReset, awaitKeyframe, faults, clean,
  submissions,    \* access units in flight, oldest first
  inputSequence,  \* modulo InputSlotCount
  \* Videodec2.
  decoder,
  \* Presentation worker.
  ppc, current, failures,
  flip,           \* slot the GPU reads, or NoSlot
  shown,          \* frame number of the last completed flip
  \* Session thread, and the queue of moonlight-common-c.
  mpc, running, failed, wake, nextFrame, keyframeOwed

Slots == 0 .. SlotCount - 1
NoSlot == -1
SlotStates == {"Free", "Decoding", "Ready", "Presenting"}
Frames == 1 .. MaxFrame
NoFrame == 0

poolVars == <<frames, mailbox>>
codecVars == <<depth, drainEnabled, needsReset, awaitKeyframe, faults, clean>>
queueVars == <<submissions, inputSequence>>
callVars == <<unit, offered, output, draining>>
presentVars == <<ppc, current, failures, flip, shown>>
controlVars == <<mpc, running, stopPresenting, failed, wake>>
hostVars == <<nextFrame, keyframeOwed>>
decodeVars == <<dpc, callVars, codecVars, queueVars>>
vars == <<poolVars, decodeVars, decoder, presentVars, controlVars, hostVars>>

-----------------------------------------------------------------------------
(* SlotPool.                                                               *)

FreeSlots(pool) == {s \in Slots : pool.state[s] = "Free"}

\* Mutant: the scan ends one slot early.
Available_Short(pool) == {s \in FreeSlots(pool) : s + 1 \in Slots} \ {pool.last}

\* A slot may be handed out unless it holds the newest picture.
Available(pool) == FreeSlots(pool) \ {pool.last}

\* acquire_free: the least recently released slot that may be handed out.
Oldest(pool) ==
  {s \in Available(pool) : \A t \in Available(pool) : pool.age[s] <= pool.age[t]}

\* A slot leaves the Free ones, or changes hands.
Mark(pool, s, st) ==
  [state |-> [pool.state EXCEPT ![s] = st],
   age |-> [t \in Slots |-> IF t = s THEN 0
                            ELSE IF 0 < pool.age[s] /\ pool.age[s] < pool.age[t]
                            THEN pool.age[t] - 1 ELSE pool.age[t]],
   last |-> pool.last,
   picture |-> pool.picture]

\* The first half of publish_ready_frame.
Published(pool, s) ==
  [state |-> Mark(pool, s, "Ready").state, age |-> Mark(pool, s, "Ready").age, last |-> s,
   picture |-> pool.picture]

\* release, of the slots S in ascending order: they become Free and youngest.
Release(pool, S) ==
  [state |-> [t \in Slots |-> IF t \in S THEN "Free" ELSE pool.state[t]],
   age |-> [t \in Slots |-> IF t \in S
                            THEN Cardinality(FreeSlots(pool)) + Cardinality({u \in S : u <= t})
                            ELSE pool.age[t]],
   last |-> pool.last,
   picture |-> [t \in Slots |-> IF t \in S THEN NoFrame ELSE pool.picture[t]]]

DecodingSlots(pool) == {s \in Slots : pool.state[s] = "Decoding"}

\* Mutant: a reset also frees the slots on their way to the screen.
ReleaseEverything(pool) == Release(pool, {s \in Slots : pool.state[s] # "Free"})

\* release_decoding
ReleaseDecoding(pool) == Release(pool, DecodingSlots(pool))

-----------------------------------------------------------------------------
(* Records.                                                                *)

Unit == [frame : Frames, idr : BOOLEAN, form : {"good", "empty", "torn", "hdr"}]
Submission == [frame : Frames, input : 0 .. InputSlotCount - 1]
Picture == [slot : Slots, frame : Frames]
Output == [slot : Slots \cup {NoSlot}, good : BOOLEAN, accepted : BOOLEAN]

Pool == [state : [Slots -> SlotStates], age : [Slots -> Int], last : Slots \cup {NoSlot},
         picture : [Slots -> Frames \cup {NoFrame}]]
Decoder == [alive : BOOLEAN, units : Seq(Submission), kept : SUBSET Slots, fresh : BOOLEAN,
            midDrain : BOOLEAN]

NoUnit == [frame |-> NoFrame, idr |-> FALSE, form |-> "empty"]
NoOutput == [slot |-> NoSlot, good |-> FALSE, accepted |-> FALSE]
NoPicture == [slot |-> NoSlot, frame |-> NoFrame]

\* A decoder just created or reset: nothing inside, no reference pictures.
FreshDecoder ==
  [alive |-> TRUE, units |-> <<>>, kept |-> {}, fresh |-> TRUE, midDrain |-> FALSE]

Init ==
  /\ frames = [state |-> [s \in Slots |-> "Free"], age |-> [s \in Slots |-> s + 1], last |-> NoSlot,
               picture |-> [s \in Slots |-> NoFrame]]
  /\ mailbox = <<>>
  /\ stopPresenting = FALSE
  /\ dpc = "none"
  /\ unit = NoUnit /\ offered = NoSlot /\ output = NoOutput /\ draining = FALSE
  /\ depth = RequestedDepth /\ drainEnabled = (RequestedDepth > 1)
  /\ needsReset = FALSE /\ awaitKeyframe = FALSE /\ faults = 0 /\ clean = 0
  /\ submissions = <<>> /\ inputSequence = 0
  /\ decoder = FreshDecoder
  /\ ppc = "none" /\ current = NoPicture /\ failures = 0 /\ flip = NoSlot /\ shown = NoFrame
  /\ mpc = "setup" /\ running = FALSE /\ failed = FALSE /\ wake = FALSE
  /\ nextFrame = 1 /\ keyframeOwed = TRUE

-----------------------------------------------------------------------------
(* Decode worker: taking an access unit.                                   *)

LoopTop ==
  /\ dpc = "top"
  /\ dpc' = IF running THEN "wait" ELSE "exited"
  /\ UNCHANGED <<poolVars, callVars, codecVars, queueVars, decoder, presentVars,
                 controlVars, hostVars>>

\* LiWaitForNextVideoFrame returns a unit.  After DR_NEED_IDR moonlight-common-c
\* has dropped its queue and delivers a keyframe first.
FrameArrives ==
  /\ dpc = "wait"
  /\ nextFrame <= MaxFrame
  /\ \E idr \in BOOLEAN, form \in {"good", "empty", "torn", "hdr"} :
       /\ keyframeOwed => idr
       /\ unit' = [frame |-> nextFrame, idr |-> idr, form |-> form]
  /\ nextFrame' = nextFrame + 1
  /\ keyframeOwed' = FALSE
  /\ dpc' = "unit"
  /\ UNCHANGED <<poolVars, offered, output, draining, codecVars, queueVars, decoder,
                 presentVars, controlVars>>

\* LiWaitForNextVideoFrame returns without a unit; `running` decides.
WaitWoken ==
  /\ dpc = "wait"
  /\ wake
  /\ wake' = FALSE
  /\ dpc' = "top"
  /\ UNCHANGED <<poolVars, callVars, codecVars, queueVars, decoder, presentVars,
                 mpc, running, stopPresenting, failed, hostVars>>

-----------------------------------------------------------------------------
(* Decode worker: decode_access_unit.                                      *)

\* Leaving decode_access_unit or drain_decoder: their locals are gone.
ForgetCall == unit' = NoUnit /\ offered' = NoSlot /\ output' = NoOutput /\ draining' = FALSE

\* decode_refused: the unit failed; at depth above one it counts as a fault.
Refuse(counted) ==
  /\ faults' = IF depth > 1 THEN counted + 1 ELSE counted
  /\ clean' = IF depth > 1 THEN 0 ELSE clean
  /\ dpc' = "needIdr"

UnitWhileStopping ==
  /\ dpc = "unit"
  /\ ~running
  /\ dpc' = "ok"
  /\ UNCHANGED <<poolVars, callVars, codecVars, queueVars, decoder, presentVars,
                 controlVars, hostVars>>

SkipToKeyframe ==
  /\ dpc = "unit"
  /\ running
  /\ awaitKeyframe /\ ~unit.idr
  /\ dpc' = "needIdr"
  /\ UNCHANGED <<poolVars, callVars, codecVars, queueVars, decoder, presentVars,
                 controlVars, hostVars>>

ResetFails ==
  /\ dpc = "unit"
  /\ running
  /\ awaitKeyframe => unit.idr
  /\ needsReset
  /\ awaitKeyframe' = FALSE
  /\ Refuse(faults)
  /\ UNCHANGED <<poolVars, callVars, depth, drainEnabled, needsReset, queueVars, decoder,
                 presentVars, controlVars, hostVars>>

\* Mutant: the submissions outlive the pictures they belong to.
AbandonSlotsOnly == frames' = ReleaseDecoding(frames) /\ UNCHANGED submissions

\* abandon_decoder_pictures: after a reset the decoder holds no picture.
AbandonPictures == frames' = ReleaseDecoding(frames) /\ submissions' = <<>>

\* A pending reset is done first.
\* needsReset then stands for every error exit until the unit succeeds.
PrepareUnit ==
  /\ dpc = "unit"
  /\ running
  /\ awaitKeyframe => unit.idr
  /\ awaitKeyframe' = FALSE
  /\ IF needsReset
     THEN decoder' = FreshDecoder /\ AbandonPictures
     ELSE UNCHANGED <<decoder, frames, submissions>>
  /\ needsReset' = TRUE
  /\ dpc' = "offer"
  /\ UNCHANGED <<mailbox, callVars, depth, drainEnabled, faults, clean, inputSequence,
                 presentVars, controlVars, hostVars>>

HdrMismatch ==
  /\ dpc = "offer"
  /\ unit.form = "hdr"
  /\ running' = FALSE
  /\ failed' = TRUE
  /\ dpc' = "needIdr"
  /\ UNCHANGED <<poolVars, callVars, codecVars, queueVars, decoder, presentVars,
                 mpc, stopPresenting, wake, hostVars>>

\* -12: no data.
EmptyUnit ==
  /\ dpc = "offer"
  /\ unit.form = "empty"
  /\ Refuse(faults)
  /\ UNCHANGED <<poolVars, callVars, depth, drainEnabled, needsReset, awaitKeyframe, queueVars,
                 decoder, presentVars, controlVars, hostVars>>

NextInput == inputSequence' = (inputSequence + 1) % InputSlotCount

\* -18: no frame slot; -13, -14: fragments that do not add up.
UnitNotCopied ==
  /\ dpc = "offer"
  /\ unit.form \in {"good", "torn"}
  /\ Available(frames) = {} \/ unit.form = "torn"
  /\ NextInput
  /\ Refuse(faults)
  /\ UNCHANGED <<poolVars, callVars, depth, drainEnabled, needsReset, awaitKeyframe, submissions,
                 decoder, presentVars, controlVars, hostVars>>

\* Copies the unit into the next input slot and calls sceVideodec2Decode.
OfferUnit ==
  /\ dpc = "offer"
  /\ unit.form = "good"
  /\ Available(frames) # {}
  /\ offered' \in Oldest(frames)
  /\ NextInput
  /\ dpc' = "decode"
  /\ UNCHANGED <<poolVars, unit, output, draining, codecVars, submissions, decoder,
                 presentVars, controlVars, hostVars>>

\* The input slot the unit in hand was copied to.
UnitInput == (inputSequence + InputSlotCount - 1) % InputSlotCount
UnitSubmission == [frame |-> unit.frame, input |-> UnitInput]

-----------------------------------------------------------------------------
(* Videodec2.                                                              *)

\* The picture of the oldest unit inside, in the offered slot or in one kept before.
Honest(units, reported) ==
  /\ units # <<>>
  /\ reported.slot \in decoder.kept \cup {offered}
  /\ reported.good

\* What the decoder holds after a call that reported so: the offered slot may
\* stay inside.
DecoderAfter(units, reported) ==
  LET gone == IF Honest(units, reported) THEN {reported.slot} ELSE {}
      added == IF reported.accepted /\ offered # reported.slot THEN {offered} ELSE {}
  IN [alive |-> decoder.alive,
      units |-> IF Honest(units, reported) THEN Tail(units) ELSE units,
      kept |-> (decoder.kept \ gone) \cup added,
      fresh |-> FALSE,
      midDrain |-> draining /\ Honest(units, reported) /\ Len(units) > 1]

\* The memory of slot s now holds the picture of frame f.
Written(s, f) ==
  [state |-> frames.state, age |-> frames.age, last |-> frames.last,
   picture |-> [frames.picture EXCEPT ![s] = f]]

\* A call that succeeds: it reports no picture, an honest one, or one the
\* program must not trust.
Returns(units) ==
  \E reported \in Output :
    /\ reported.slot = NoSlot => reported.good
    /\ output' = reported
    /\ decoder' = DecoderAfter(units, reported)
    /\ frames' = IF Honest(units, reported)
                 THEN Written(reported.slot, Head(units).frame)
                 ELSE frames

\* A call that failed: the unit and the offered slot may be inside or not.
CallFails(units) ==
  /\ output' = NoOutput
  /\ \E inside \in BOOLEAN, kept \in {{}, {offered}} :
       decoder' = [alive |-> decoder.alive,
                   units |-> IF inside THEN units ELSE decoder.units,
                   kept |-> decoder.kept \cup kept,
                   fresh |-> FALSE,
                   midDrain |-> decoder.midDrain]
  /\ frames' = Written(offered, NoFrame)

\* sceVideodec2Decode returns an error, or (-16) the submission queue is full.
DecodeFails ==
  /\ dpc = "decode"
  /\ CallFails(Append(decoder.units, UnitSubmission))
  /\ Refuse(faults)
  /\ UNCHANGED <<mailbox, unit, offered, draining, depth, drainEnabled, needsReset, awaitKeyframe,
                 queueVars, presentVars, controlVars, hostVars>>

DecodeNotQueued ==
  /\ dpc = "decode"
  /\ Len(submissions) = QueueCapacity
  /\ Returns(Append(decoder.units, UnitSubmission))
  /\ Refuse(faults)
  /\ UNCHANGED <<mailbox, unit, offered, draining, depth, drainEnabled, needsReset, awaitKeyframe,
                 queueVars, presentVars, controlVars, hostVars>>

\* The unit is in flight.  At depth one a missing picture is asked for at once.
DecodeReturns ==
  /\ dpc = "decode"
  /\ Len(submissions) < QueueCapacity
  /\ Returns(Append(decoder.units, UnitSubmission))
  /\ submissions' = Append(submissions, UnitSubmission)
  /\ dpc' = IF output'.slot = NoSlot /\ depth = 1 THEN "flush" ELSE "settle"
  /\ UNCHANGED <<mailbox, unit, offered, draining, codecVars, inputSequence, presentVars,
                 controlVars, hostVars>>

\* Mutant: a flush of a drain that reports nothing is tried again.
FlushedAgain == "settle"

\* A flush of a drain must report a picture.
Flushed == IF draining /\ output'.slot = NoSlot THEN "fallback" ELSE "settle"

\* sceVideodec2Flush, of the depth-one path and of a drain.
FlushReturns ==
  /\ dpc \in {"flush", "drainFlush"}
  /\ Returns(decoder.units)
  /\ dpc' = Flushed
  /\ UNCHANGED <<mailbox, unit, offered, draining, codecVars, queueVars, presentVars,
                 controlVars, hostVars>>

FlushFails ==
  /\ dpc \in {"flush", "drainFlush"}
  /\ CallFails(decoder.units)
  /\ IF draining
     THEN dpc' = "fallback" /\ UNCHANGED <<faults, clean>>
     ELSE Refuse(faults)
  /\ UNCHANGED <<mailbox, unit, offered, draining, depth, drainEnabled, needsReset, awaitKeyframe,
                 queueVars, presentVars, controlVars, hostVars>>

-----------------------------------------------------------------------------
(* Decode worker: settle_decoder_call and publish_ready_frame.             *)

Owned(s) == s = offered \/ (s \in Slots /\ frames.state[s] = "Decoding")

TrustedOutput == Owned(output.slot) /\ submissions # <<>> /\ output.good

\* -17, -19: a picture in a slot the decoder does not own, or of another shape.
SettleRefuses ==
  /\ dpc = "settle"
  /\ output.slot # NoSlot /\ ~TrustedOutput
  /\ IF draining
     THEN dpc' = "fallback" /\ UNCHANGED <<faults, clean>>
     ELSE Refuse(faults)
  /\ UNCHANGED <<poolVars, callVars, depth, drainEnabled, needsReset, awaitKeyframe, queueVars,
                 decoder, presentVars, controlVars, hostVars>>

\* The offered slot, if the decoder accepted it without returning it.
PoolAfterAccept ==
  IF output.accepted /\ offered # output.slot THEN Mark(frames, offered, "Decoding") ELSE frames

SettleDelayed ==
  /\ dpc = "settle"
  /\ output.slot = NoSlot
  /\ frames' = PoolAfterAccept
  /\ dpc' = "settled"
  /\ UNCHANGED <<mailbox, callVars, codecVars, queueVars, decoder, presentVars, controlVars,
                 hostVars>>

\* Mutants: the mailbox grows by one; it loses its newest picture; the slot of
\* the displaced picture is not given back.
MailboxOverfull == Len(mailbox) > Capacity
KeptOldest == IF MailboxOverfull THEN SubSeq(mailbox, 1, Len(mailbox) - 1) ELSE mailbox

\* ReadyMailbox.publish: a full mailbox loses its oldest picture.
MailboxFull == Len(mailbox) >= Capacity
Waiting == IF MailboxFull THEN Tail(mailbox) ELSE mailbox

DisplacedLost(pool) == pool
Displaced(pool) == IF MailboxFull THEN Release(pool, {Head(mailbox).slot}) ELSE pool

\* The picture takes the oldest submission's number; the slot of a displaced
\* one is free again.
SettlePicture ==
  /\ dpc = "settle"
  /\ output.slot # NoSlot /\ TrustedOutput
  /\ frames' = Displaced(Published(PoolAfterAccept, output.slot))
  /\ mailbox' = Append(Waiting, [slot |-> output.slot, frame |-> Head(submissions).frame])
  /\ submissions' = Tail(submissions)
  /\ clean' = IF clean < CleanOutputs THEN clean + 1 ELSE clean
  /\ faults' = IF clean' >= CleanOutputs THEN 0 ELSE faults
  /\ dpc' = "settled"
  /\ UNCHANGED <<callVars, depth, drainEnabled, needsReset, awaitKeyframe, inputSequence,
                 decoder, presentVars, controlVars, hostVars>>

\* -21: a slot the decoder holds always belongs to a unit still in flight.
Overheld == Cardinality(DecodingSlots(frames)) > Len(submissions)

\* Mutant: one access unit too many stays in flight.
OverdueLate == output.slot = NoSlot /\ (depth = 1 \/ Len(submissions) > depth + 1)

\* -17: deeper pipelines never hold more than their depth.
Overdue == output.slot = NoSlot /\ (depth = 1 \/ Len(submissions) > depth)

UnitRefused ==
  /\ dpc = "settled" /\ ~draining
  /\ Overheld \/ Overdue
  /\ Refuse(faults)
  /\ UNCHANGED <<poolVars, callVars, depth, drainEnabled, needsReset, awaitKeyframe, queueVars,
                 decoder, presentVars, controlVars, hostVars>>

UnitDone ==
  /\ dpc = "settled" /\ ~draining
  /\ ~Overheld /\ ~Overdue
  /\ needsReset' = FALSE
  /\ dpc' = "ok"
  /\ UNCHANGED <<poolVars, callVars, depth, drainEnabled, awaitKeyframe, faults, clean, queueVars,
                 decoder, presentVars, controlVars, hostVars>>

DrainStepDone ==
  /\ dpc = "settled" /\ draining
  /\ dpc' = IF Overheld THEN "fallback" ELSE "drain"
  /\ UNCHANGED <<poolVars, callVars, codecVars, queueVars, decoder, presentVars, controlVars,
                 hostVars>>

-----------------------------------------------------------------------------
(* Decode worker: LiCompleteVideoFrame, drain_decoder, the fallback.       *)

CompleteNeedIdr ==
  /\ dpc = "needIdr"
  /\ keyframeOwed' = TRUE
  /\ ForgetCall
  /\ dpc' = "check"
  /\ UNCHANGED <<poolVars, codecVars, queueVars, decoder, presentVars, controlVars,
                 nextFrame>>

CompleteOk ==
  /\ dpc = "ok"
  /\ ForgetCall
  /\ dpc' = "drain"
  /\ UNCHANGED <<poolVars, codecVars, queueVars, decoder, presentVars, controlVars,
                 hostVars>>

\* Mutant: every flush of a drain asks again whether a new access unit waits.
DrainYields(idle) ==
  ~needsReset /\ depth > 1 /\ submissions # <<>> /\ running /\ drainEnabled /\ idle

\* While the loop of drain_decoder may go on: `idle` is LiGetPendingVideoFrames() <= 0.
DrainContinues(idle) ==
  /\ ~needsReset /\ depth > 1 /\ submissions # <<>>
  /\ draining \/ (running /\ drainEnabled /\ idle)

DrainFlush ==
  /\ dpc = "drain"
  /\ DrainContinues(TRUE)
  /\ Available(frames) # {}
  /\ offered' \in Oldest(frames)
  /\ draining' = TRUE
  /\ dpc' = "drainFlush"
  /\ UNCHANGED <<poolVars, unit, output, codecVars, queueVars, decoder, presentVars,
                 controlVars, hostVars>>

\* A drain that cannot finish leaves the decoder unable to continue.
DrainStarved ==
  /\ dpc = "drain"
  /\ DrainContinues(TRUE)
  /\ Available(frames) = {}
  /\ needsReset' = (needsReset \/ draining)
  /\ awaitKeyframe' = (awaitKeyframe \/ draining)
  /\ ForgetCall
  /\ dpc' = "check"
  /\ UNCHANGED <<poolVars, depth, drainEnabled, faults, clean, queueVars,
                 decoder, presentVars, controlVars, hostVars>>

DrainEnds ==
  /\ dpc = "drain"
  /\ \E idle \in BOOLEAN : ~DrainContinues(idle)
  /\ ForgetCall
  /\ dpc' = "check"
  /\ UNCHANGED <<poolVars, codecVars, queueVars, decoder, presentVars,
                 controlVars, hostVars>>

FaultCheck ==
  /\ dpc = "check"
  /\ dpc' = IF depth > 1 /\ faults >= FaultLimit THEN "fallback" ELSE "top"
  /\ UNCHANGED <<poolVars, callVars, codecVars, queueVars, decoder, presentVars, controlVars,
                 hostVars>>

\* Mutant: the rebuilt decoder is not told to wait for a keyframe.
AbandonUnguarded ==
  /\ AbandonPictures
  /\ drainEnabled' = FALSE
  /\ faults' = 0
  /\ UNCHANGED awaitKeyframe
  /\ ForgetCall
  /\ dpc' = "check"

\* Both outcomes of fallback_to_classic_decoder abandon what was in flight.
Abandon ==
  /\ AbandonPictures
  /\ drainEnabled' = FALSE
  /\ faults' = 0
  /\ awaitKeyframe' = TRUE
  /\ ForgetCall
  /\ dpc' = "check"

FallbackSucceeds ==
  /\ dpc = "fallback"
  /\ Abandon
  /\ decoder' = FreshDecoder
  /\ depth' = 1
  /\ needsReset' = FALSE
  /\ UNCHANGED <<mailbox, clean, inputSequence, presentVars,
                 controlVars, hostVars>>

\* The delete fails and the decoder lives on; the create fails and it is gone;
\* or the reset of the new one fails.
FallbackFails ==
  /\ dpc = "fallback"
  /\ Abandon
  /\ decoder' \in {decoder, [FreshDecoder EXCEPT !.alive = FALSE], FreshDecoder}
  /\ running' = FALSE
  /\ failed' = TRUE
  /\ UNCHANGED <<mailbox, depth, needsReset, clean, inputSequence,
                 presentVars, mpc, stopPresenting, wake, hostVars>>

-----------------------------------------------------------------------------
(* Presentation worker.                                                    *)

\* Mutant: the presenter waits until the mailbox is full.
TakeableWhenFull ==
  {k \in 1 .. Len(mailbox) : Len(mailbox) = Capacity /\ (k > 1 => Capacity = 2)}

\* ReadyMailbox.take, of the oldest picture; a paced mode may skip one that is
\* too old for its successor.
Takeable == {k \in 1 .. Len(mailbox) : k > 1 => Capacity = 2}

TakePicture ==
  /\ ppc = "choose"
  /\ ~stopPresenting
  /\ \E k \in Takeable :
       /\ current' = mailbox[k]
       /\ mailbox' = SubSeq(mailbox, k + 1, Len(mailbox))
       /\ frames' = Mark(Release(frames, {mailbox[i].slot : i \in 1 .. k - 1}),
                         mailbox[k].slot, "Presenting")
  /\ ppc' = "deadline"
  /\ UNCHANGED <<decodeVars, decoder, failures, flip, shown, controlVars, hostVars>>

StopWhileChoosing ==
  /\ ppc = "choose"
  /\ stopPresenting
  /\ ppc' = "exited"
  /\ UNCHANGED <<poolVars, decodeVars, decoder, current, failures, flip, shown, controlVars,
                 hostVars>>

\* Only a paced mode waits for a deadline, and only that wait sees the stop.
StopWhileWaiting ==
  /\ ppc = "deadline"
  /\ Capacity = 2
  /\ stopPresenting
  /\ frames' = Release(frames, {current.slot})
  /\ current' = NoPicture
  /\ ppc' = "exited"
  /\ UNCHANGED <<mailbox, decodeVars, decoder, failures, flip, shown, controlVars,
                 hostVars>>

SubmitPicture ==
  /\ ppc = "deadline"
  /\ flip' = current.slot
  /\ ppc' = "flip"
  /\ UNCHANGED <<poolVars, decodeVars, decoder, current, failures, shown, controlVars,
                 hostVars>>

\* Nothing reads the picture: its slot goes back.  Too many failures in a row
\* end the stream.
SubmitFails ==
  /\ ppc = "deadline"
  /\ frames' = Release(frames, {current.slot})
  /\ current' = NoPicture
  /\ failures' = failures + 1
  /\ ppc' = IF failures' < PresentFailureLimit THEN "choose" ELSE "exited"
  /\ failed' = (failed \/ failures' >= PresentFailureLimit)
  /\ UNCHANGED <<mailbox, decodeVars, decoder, flip, shown, mpc, running,
                 stopPresenting, wake, hostVars>>

\* The GPU has finished with the slot.
FlipCompletes ==
  /\ ppc = "flip"
  /\ frames' = Release(frames, {current.slot})
  /\ current' = NoPicture
  /\ flip' = NoSlot
  /\ shown' = current.frame
  /\ failures' = 0
  /\ ppc' = "choose"
  /\ UNCHANGED <<mailbox, decodeVars, decoder, controlVars, hostVars>>

FlipTimesOut ==
  /\ ppc = "flip"
  /\ failures' = failures + 1
  /\ ppc' = IF ~stopPresenting /\ failures' < PresentFailureLimit THEN "flip" ELSE "exited"
  /\ failed' = (failed \/ (~stopPresenting /\ failures' >= PresentFailureLimit))
  /\ UNCHANGED <<poolVars, decodeVars, decoder, current, flip, shown, mpc, running,
                 stopPresenting, wake, hostVars>>

-----------------------------------------------------------------------------
(* Session thread.                                                         *)

\* moonlight_renderer_start: either thread may fail to start.
StartWorkers ==
  /\ mpc = "setup"
  /\ running' = TRUE
  /\ \E present \in BOOLEAN, decode \in BOOLEAN :
       /\ decode => present
       /\ ppc' = IF present THEN "choose" ELSE "none"
       /\ dpc' = IF decode THEN "top" ELSE "none"
       /\ failed' = ~decode
  /\ mpc' = "streaming"
  /\ UNCHANGED <<poolVars, callVars, codecVars, queueVars, decoder, current, failures, flip,
                 shown, stopPresenting, wake, hostVars>>

\* moonlight_renderer_stop: the player stops, or the stream failed.
StopRenderer ==
  /\ mpc = "streaming"
  /\ running' = FALSE
  /\ wake' = (dpc # "none")
  /\ mpc' = "stopping"
  /\ UNCHANGED <<poolVars, decodeVars, decoder, presentVars, stopPresenting, failed, hostVars>>

\* join_video_workers: the decode worker first, so that it never publishes to a
\* presenter that is gone.
JoinDecode ==
  /\ mpc = "stopping"
  /\ dpc \in {"none", "exited"}
  /\ stopPresenting' = (ppc # "none")
  /\ mpc' = "joining"
  /\ UNCHANGED <<poolVars, decodeVars, decoder, presentVars, running, failed, wake, hostVars>>

JoinPresent ==
  /\ mpc = "joining"
  /\ ppc \in {"none", "exited"}
  /\ mpc' = "joined"
  /\ UNCHANGED <<poolVars, decodeVars, decoder, presentVars, running, stopPresenting, failed,
                 wake, hostVars>>

\* Mutant: the memory is freed whether or not the last flip was retired.
MayReleaseUnretired(retired, deleted) == deleted

MayRelease(retired, deleted) == retired /\ deleted

\* Retires the last flip, deletes the decoder and frees the frame memory only
\* if both worked; otherwise the memory is kept until the process ends.
TearDown ==
  /\ mpc = "joined"
  /\ \E retired \in BOOLEAN, deleted \in BOOLEAN :
       /\ flip = NoSlot => retired
       /\ ~decoder.alive => deleted
       /\ flip' = IF retired THEN NoSlot ELSE flip
       /\ decoder' = IF retired /\ deleted THEN [decoder EXCEPT !.alive = FALSE] ELSE decoder
       /\ mpc' = IF MayRelease(retired, deleted) THEN "released" ELSE "faulted"
  /\ UNCHANGED <<poolVars, decodeVars, ppc, current, failures, shown, running,
                 stopPresenting, failed, wake, hostVars>>

-----------------------------------------------------------------------------

DecodeStep ==
  \/ LoopTop \/ WaitWoken
  \/ UnitWhileStopping \/ SkipToKeyframe \/ ResetFails \/ PrepareUnit
  \/ HdrMismatch \/ EmptyUnit \/ UnitNotCopied \/ OfferUnit
  \/ DecodeFails \/ DecodeNotQueued \/ DecodeReturns \/ FlushReturns \/ FlushFails
  \/ SettleRefuses \/ SettleDelayed \/ SettlePicture
  \/ UnitRefused \/ UnitDone \/ DrainStepDone
  \/ CompleteNeedIdr \/ CompleteOk \/ DrainFlush \/ DrainStarved \/ DrainEnds
  \/ FaultCheck \/ FallbackSucceeds \/ FallbackFails

PresentStep ==
  \/ TakePicture \/ StopWhileChoosing \/ StopWhileWaiting
  \/ SubmitPicture \/ SubmitFails \/ FlipCompletes \/ FlipTimesOut

JoinStep == StartWorkers \/ JoinDecode \/ JoinPresent \/ TearDown

\* The session is over: nothing more happens to it.
SessionOver == mpc \in {"released", "faulted"} /\ UNCHANGED vars

Next == DecodeStep \/ FrameArrives \/ PresentStep \/ JoinStep \/ StopRenderer \/ SessionOver

\* Threads are scheduled and every Videodec2 and VideoOut call returns; the
\* session thread reacts to a failed stream.  The host owes no frames and the
\* player never has to stop.
Fairness ==
  /\ WF_vars(DecodeStep)
  /\ WF_vars(PresentStep)
  /\ WF_vars(JoinStep)
  /\ WF_vars(failed /\ StopRenderer)

Spec == Init /\ [][Next]_vars /\ Fairness

-----------------------------------------------------------------------------
(* Properties.                                                             *)

DecodePcs == {"none", "top", "wait", "unit", "offer", "decode", "flush", "drainFlush", "settle",
              "settled", "needIdr", "ok", "drain", "check", "fallback", "exited"}
PresentPcs == {"none", "choose", "deadline", "flip", "exited"}
SessionPcs == {"setup", "streaming", "stopping", "joining", "joined", "released", "faulted"}

PoolOK ==
  /\ frames \in Pool
  /\ mailbox \in Seq(Picture)
  /\ Len(mailbox) <= Capacity

FlagsOK ==
  /\ stopPresenting \in BOOLEAN /\ draining \in BOOLEAN
  /\ drainEnabled \in BOOLEAN /\ needsReset \in BOOLEAN /\ awaitKeyframe \in BOOLEAN
  /\ running \in BOOLEAN /\ failed \in BOOLEAN /\ wake \in BOOLEAN /\ keyframeOwed \in BOOLEAN

PlacesOK == dpc \in DecodePcs /\ ppc \in PresentPcs /\ mpc \in SessionPcs

CallOK ==
  /\ unit \in Unit \cup {NoUnit}
  /\ offered \in Slots \cup {NoSlot}
  /\ output \in Output
  /\ nextFrame \in 1 .. MaxFrame + 1

CodecOK ==
  /\ depth \in 1 .. RequestedDepth
  /\ faults \in Nat
  /\ clean \in 0 .. CleanOutputs
  /\ submissions \in Seq(Submission)
  /\ inputSequence \in 0 .. InputSlotCount - 1
  /\ decoder \in Decoder

ScreenOK ==
  /\ current \in Picture \cup {NoPicture}
  /\ failures \in 0 .. PresentFailureLimit
  /\ flip \in Slots \cup {NoSlot}
  /\ shown \in Frames \cup {NoFrame}

\* Every variable keeps its type, and the mailbox its capacity.
TypeOK == PoolOK /\ FlagsOK /\ PlacesOK /\ CallOK /\ CodecOK /\ ScreenOK

InMailbox(s) == \E i \in 1 .. Len(mailbox) : mailbox[i].slot = s

\* The presentation worker has taken `current` and not given its slot back.
Holding == ppc \in {"deadline", "flip"}

InDecoderCall == dpc \in {"decode", "flush", "drainFlush"}

\* Slots the decoder may be writing: those it kept and the one offered to the
\* call in progress.
DecoderWrites == decoder.kept \cup (IF InDecoderCall THEN {offered} ELSE {})

\* Slots whose picture is waiting, chosen, or read by the GPU.
DisplayReads ==
  {s \in Slots : InMailbox(s) \/ (Holding /\ current.slot = s) \/ flip = s}

\* The decoder never writes a slot that waits for the screen or that the GPU
\* reads: slot ownership of SlotPool, across the decoder's error paths.
NoSharedSlot == DecoderWrites \cap DisplayReads = {}

\* A picture waiting or on its way to the screen is the one decoded from the
\* access unit whose number, time and trace it carries: submissions and the
\* decoder stay in step through resets, refusals and fallbacks.
PictureIntact ==
  /\ \A i \in 1 .. Len(mailbox) : frames.picture[mailbox[i].slot] = mailbox[i].frame
  /\ Holding => frames.picture[current.slot] = current.frame

\* No slot is lost: a Ready slot is in the mailbox, a Presenting one is held by
\* the presentation worker (or was, when it ended with a flip outstanding).
NoSlotLost ==
  \A s \in Slots :
    /\ frames.state[s] = "Ready" => InMailbox(s)
    /\ frames.state[s] = "Presenting" => s = current.slot /\ ppc # "choose"

\* FRAME_SLOT_COUNT covers the deepest pipeline: acquire_free always finds a
\* slot for the next access unit and for every flush of a drain.
SlotForEveryCall ==
  dpc = "offer" \/ (dpc = "drain" /\ DrainContinues(TRUE)) => Available(frames) # {}

\* In-flight access units never exceed the pipeline depth, so the round-robin
\* input slot about to be filled is one the decoder has finished reading.
InputSlotIdle ==
  dpc = "offer" => \A i \in 1 .. Len(decoder.units) : decoder.units[i].input # inputSequence

\* An access unit is never refused or overwritten for want of room: a frame slot
\* for every call and an idle input slot for every copy.
InputsOK == SlotForEveryCall /\ InputSlotIdle

\* Videodec2 refuses a decode between two flushes of one drain: a drain that
\* has started runs until the pipeline is empty or the decoder is reset.
NoDecodeInsideDrain == dpc = "decode" => ~decoder.midDrain

\* A decoder that was reset or rebuilt is given a keyframe first.
KeyframeAfterReset == dpc = "decode" /\ decoder.fresh => unit.idr

\* Every slot has one owner and none is lost, through every error path of the
\* two workers: SlotPool and ReadyMailbox of moonlight_pipeline.hpp.
SlotsOK == NoSlotLost /\ NoSharedSlot

\* What the player sees of the pipeline.
FramesOf(pictures) == [i \in 1 .. Len(pictures) |-> pictures[i].frame]
FrameHeld == IF Holding THEN current.frame ELSE NoFrame

\* The pipeline does what PictureHandoff promises the player: frames reach the
\* screen in capture order, and only the oldest waiting one is pushed out.
Handoff ==
  INSTANCE PictureHandoff WITH waiting <- FramesOf(mailbox), showing <- FrameHeld, shown <- shown

HandsPicturesOff == Handoff!Spec

\* Frame memory is freed only when neither the GPU nor the decoder uses it.
ReleasedMemoryIdle ==
  mpc = "released" => flip = NoSlot /\ ~decoder.alive /\ ~InDecoderCall /\ ~Holding

Ended == mpc \in {"released", "faulted"}

\* A failed or stopped session joins both workers and finishes its teardown.
SessionEnds == (failed \/ mpc = "stopping") ~> Ended

\* A ready picture does not wait forever: it is shown, replaced or discarded,
\* or the session ends.
ReadyPictureLeaves ==
  \A f \in Frames :
    (\E i \in 1 .. Len(mailbox) : mailbox[i].frame = f)
      ~> (Ended \/ \A i \in 1 .. Len(mailbox) : mailbox[i].frame # f)

\* Both: no wait of the decode worker, the presenter or the teardown is for ever.
PipelineMoves == SessionEnds /\ ReadyPictureLeaves

=============================================================================
