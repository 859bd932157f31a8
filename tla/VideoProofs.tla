---------------------------- MODULE VideoProofs -----------------------------
(***************************************************************************)
(* Every variable of VideoPipeline keeps its type, and every slot that is  *)
(* not Free has an owner (flags are left to Zenon, the other types to      *)
(* SMT).  The decoder never writes a slot on its way to the screen, and a  *)
(* picture shown is the one its frame number says; what the decoder is     *)
(* given: no unit inside a drain, a keyframe first after every reset, and  *)
(* always a frame slot and an idle input slot; and what the teardown takes *)
(* from it.                                                                *)
(***************************************************************************)
EXTENDS VideoInvariants, FiniteSetTheorems, SequenceTheorems, TLAPS

-----------------------------------------------------------------------------
(* Types, control and slots *)

LEMMA SlotsFinite == ASSUME NEW S, S \subseteq Slots PROVE IsFiniteSet(S) /\ Cardinality(S) \in Nat
<1>1. IsFiniteSet(Slots)
  BY FS_Interval, SizesAssumption DEF Slots
<1> QED
  BY <1>1, FS_Subset, FS_CardinalityType

LEMMA MarkType ==
  ASSUME NEW pool \in Pool, NEW s \in Slots, NEW st \in SlotStates
  PROVE  Mark(pool, s, st) \in Pool
<1>1. pool.state \in [Slots -> SlotStates] /\ pool.age \in [Slots -> Int]
  BY DEF Pool
<1>2. Mark(pool, s, st).state \in [Slots -> SlotStates]
  BY <1>1 DEF Mark
<1>3. Mark(pool, s, st).age \in [Slots -> Int]
  BY <1>1 DEF Mark
<1> QED
  BY <1>2, <1>3 DEF Mark, Pool

LEMMA ReleaseType ==
  ASSUME NEW pool \in Pool, NEW S, S \subseteq Slots
  PROVE  Release(pool, S) \in Pool
<1> DEFINE free == FreeSlots(pool)
           below(t) == {u \in S : u <= t}
<1>1. Cardinality(free) \in Nat
  BY SlotsFinite DEF FreeSlots
<1>2. ASSUME NEW t \in Slots PROVE Cardinality(below(t)) \in Nat
  BY SlotsFinite
<1>3. ASSUME NEW t \in Slots
      PROVE (IF t \in S THEN Cardinality(free) + Cardinality(below(t)) ELSE pool.age[t]) \in Int
  <2> HIDE DEF free, below
  <2> QED BY <1>1, <1>2 DEF Pool
<1> HIDE DEF free, below
<1> QED
  BY <1>3 DEF Release, Pool, SlotStates, free, below

LEMMA DecodingType == ASSUME NEW pool PROVE DecodingSlots(pool) \subseteq Slots
BY DEF DecodingSlots

LEMMA ReleaseDecodingType == ASSUME NEW pool \in Pool PROVE ReleaseDecoding(pool) \in Pool
BY ReleaseType, DecodingType DEF ReleaseDecoding

LEMMA FreshDecoderType == FreshDecoder \in Decoder
BY DEF FreshDecoder, Decoder


LEMMA PublishedType ==
  ASSUME NEW pool \in Pool, NEW s \in Slots
  PROVE  Published(pool, s) \in Pool
<1>1. Mark(pool, s, "Ready") \in Pool
  BY MarkType DEF SlotStates
<1> QED
  BY <1>1 DEF Published, Pool

\* The types that are not Boolean.
ShapeOK == PoolOK /\ PlacesOK /\ CallOK /\ CodecOK /\ ScreenOK /\ ControlOK

LEMMA WrittenType ==
  ASSUME frames \in Pool, NEW s \in Slots, NEW f \in Frames \cup {NoFrame}
  PROVE  Written(s, f) \in Pool
BY DEF Written, Pool

LEMMA UnitSubmissionType ==
  ASSUME unit \in Unit, CodecOK
  PROVE  UnitSubmission \in Submission /\ Append(decoder.units, UnitSubmission) \in Seq(Submission)
<1>1. UnitInput \in 0 .. InputSlotCount - 1
  BY SizesAssumption DEF UnitInput, CodecOK
<1>2. UnitSubmission \in Submission
  BY <1>1 DEF UnitSubmission, Submission, Unit
<1>3. decoder.units \in Seq(Submission)
  BY DEF CodecOK, Decoder
<1> QED
  BY <1>2, <1>3, AppendProperties

LEMMA ReturnsType ==
  ASSUME frames \in Pool, decoder \in Decoder, offered \in Slots, draining \in BOOLEAN,
         NEW units \in Seq(Submission), Returns(units)
  PROVE  output' \in Output /\ decoder' \in Decoder /\ frames' \in Pool
<1>1. PICK reported \in Output :
        /\ output' = reported
        /\ decoder' = DecoderAfter(units, reported)
        /\ frames' = IF Honest(units, reported)
                     THEN Written(reported.slot, Head(units).frame)
                     ELSE frames
  BY DEF Returns
<1>2. decoder.kept \subseteq Slots /\ decoder.alive \in BOOLEAN
  BY DEF Decoder
<1>3. (IF Honest(units, reported) THEN Tail(units) ELSE units) \in Seq(Submission)
  BY HeadTailProperties DEF Honest
<1>4. DecoderAfter(units, reported).kept \subseteq Slots
  BY <1>2 DEF DecoderAfter
<1>5. DecoderAfter(units, reported).midDrain \in BOOLEAN
  BY Zenon DEF DecoderAfter
<1>6. DecoderAfter(units, reported) \in Decoder
  BY <1>2, <1>3, <1>4, <1>5 DEF DecoderAfter, Decoder
<1>7. ASSUME Honest(units, reported) PROVE reported.slot \in Slots /\ Head(units).frame \in Frames
  <2>1. Head(units) \in Submission
    BY <1>7, HeadTailProperties DEF Honest
  <2> QED
    BY <1>2, <1>7, <2>1 DEF Honest, Submission
<1> QED
  BY <1>1, <1>6, <1>7, WrittenType

LEMMA CallFailsType ==
  ASSUME frames \in Pool, decoder \in Decoder, offered \in Slots,
         NEW units \in Seq(Submission), CallFails(units)
  PROVE  output' \in Output /\ decoder' \in Decoder /\ frames' \in Pool
<1>1. NoOutput \in Output
  BY DEF NoOutput, Output
<1>2. PICK inside \in BOOLEAN, kept \in {{}, {offered}} :
        decoder' = [alive |-> decoder.alive,
                    units |-> IF inside THEN units ELSE decoder.units,
                    kept |-> decoder.kept \cup kept,
                    fresh |-> FALSE,
                    midDrain |-> decoder.midDrain]
  BY DEF CallFails
<1>3. decoder.kept \cup kept \subseteq Slots
  BY DEF Decoder
<1>4. decoder' \in Decoder
  BY <1>2, <1>3 DEF Decoder
<1> QED
  BY <1>1, <1>4, WrittenType DEF CallFails

-----------------------------------------------------------------------------

LEMMA FlagsStep == FlagsOK /\ [Next]_vars => FlagsOK'
<1> SUFFICES ASSUME FlagsOK, [Next]_vars PROVE FlagsOK'
  OBVIOUS
<1> USE DEF FlagsOK, vars, poolVars, decodeVars, callVars, codecVars, queueVars, presentVars,
    controlVars, hostVars
<1>1. CASE LoopTop
  BY <1>1, Zenon DEF LoopTop
<1>2. CASE FrameArrives
  BY <1>2, Zenon DEF FrameArrives
<1>3. CASE WaitWoken
  BY <1>3, Zenon DEF WaitWoken
<1>4. CASE UnitWhileStopping
  BY <1>4, Zenon DEF UnitWhileStopping
<1>5. CASE SkipToKeyframe
  BY <1>5, Zenon DEF SkipToKeyframe
<1>6. CASE ResetFails
  BY <1>6, Zenon DEF ResetFails
<1>7. CASE PrepareUnit
  BY <1>7, Zenon DEF PrepareUnit
<1>8. CASE HdrMismatch
  BY <1>8, Zenon DEF HdrMismatch
<1>9. CASE EmptyUnit
  BY <1>9, Zenon DEF EmptyUnit
<1>10. CASE UnitNotCopied
  BY <1>10, Zenon DEF UnitNotCopied
<1>11. CASE OfferUnit
  BY <1>11, Zenon DEF OfferUnit
<1>12. CASE DecodeFails
  BY <1>12, Zenon DEF DecodeFails
<1>13. CASE DecodeNotQueued
  BY <1>13, Zenon DEF DecodeNotQueued
<1>14. CASE DecodeReturns
  BY <1>14, Zenon DEF DecodeReturns
<1>15. CASE FlushReturns
  BY <1>15, Zenon DEF FlushReturns
<1>16. CASE FlushFails
  BY <1>16, Zenon DEF FlushFails
<1>17. CASE SettleRefuses
  BY <1>17, Zenon DEF SettleRefuses
<1>18. CASE SettleDelayed
  BY <1>18, Zenon DEF SettleDelayed
<1>19. CASE SettlePicture
  BY <1>19, Zenon DEF SettlePicture
<1>20. CASE UnitRefused
  BY <1>20, Zenon DEF UnitRefused
<1>21. CASE UnitDone
  BY <1>21, Zenon DEF UnitDone
<1>22. CASE DrainStepDone
  BY <1>22, Zenon DEF DrainStepDone
<1>23. CASE CompleteNeedIdr
  BY <1>23, Zenon DEF CompleteNeedIdr, ForgetCall
<1>24. CASE CompleteOk
  BY <1>24, Zenon DEF CompleteOk, ForgetCall
<1>25. CASE DrainFlush
  BY <1>25, Zenon DEF DrainFlush
<1>26. CASE DrainStarved
  BY <1>26, Zenon DEF DrainStarved, ForgetCall
<1>27. CASE DrainEnds
  BY <1>27, Zenon DEF DrainEnds, ForgetCall
<1>28. CASE FaultCheck
  BY <1>28, Zenon DEF FaultCheck
<1>29. CASE FallbackSucceeds
  BY <1>29, Zenon DEF FallbackSucceeds, ForgetCall, Abandon
<1>30. CASE FallbackFails
  BY <1>30, Zenon DEF FallbackFails, ForgetCall, Abandon
<1>31. CASE TakePicture
  BY <1>31, Zenon DEF TakePicture
<1>32. CASE StopWhileChoosing
  BY <1>32, Zenon DEF StopWhileChoosing
<1>33. CASE StopWhileWaiting
  BY <1>33, Zenon DEF StopWhileWaiting
<1>34. CASE SubmitPicture
  BY <1>34, Zenon DEF SubmitPicture
<1>35. CASE SubmitFails
  BY <1>35, Zenon DEF SubmitFails
<1>36. CASE FlipCompletes
  BY <1>36, Zenon DEF FlipCompletes
<1>37. CASE FlipTimesOut
  BY <1>37, Zenon DEF FlipTimesOut
<1>38. CASE StartWorkers
  BY <1>38, Zenon DEF StartWorkers
<1>39. CASE StopRenderer
  BY <1>39, Zenon DEF StopRenderer
<1>40. CASE JoinDecode
  BY <1>40, Zenon DEF JoinDecode
<1>41. CASE JoinPresent
  BY <1>41, Zenon DEF JoinPresent
<1>42. CASE TearDown
  BY <1>42, Zenon DEF TearDown
<1>43. CASE SessionOver
  BY <1>43, Zenon DEF SessionOver
<1>44. CASE UNCHANGED vars
  BY <1>44
<1> QED
  BY <1>1, <1>2, <1>3, <1>4, <1>5, <1>6, <1>7, <1>8, <1>9, <1>10, <1>11, <1>12, <1>13, <1>14,
     <1>15, <1>16, <1>17, <1>18, <1>19, <1>20, <1>21, <1>22, <1>23, <1>24, <1>25, <1>26, <1>27,
     <1>28, <1>29, <1>30, <1>31, <1>32, <1>33, <1>34, <1>35, <1>36, <1>37, <1>38, <1>39, <1>40,
     <1>41, <1>42, <1>43, <1>44 DEF Next, DecodeStep, PresentStep, JoinStep

LEMMA AcceptType ==
  ASSUME frames \in Pool, offered \in Slots
  PROVE  PoolAfterAccept \in Pool
BY MarkType DEF PoolAfterAccept, SlotStates

LEMMA CurrentReleasedType ==
  ASSUME frames \in Pool, current \in Picture
  PROVE  Release(frames, {current.slot}) \in Pool
<1>1. {current.slot} \subseteq Slots
  BY DEF Picture
<1> QED
  BY <1>1, ReleaseType

LEMMA ShapeStep == ShapeOK /\ FlagsOK /\ [Next]_vars => ShapeOK'
<1> SUFFICES ASSUME ShapeOK, FlagsOK, [Next]_vars PROVE ShapeOK'
  OBVIOUS
<1> USE SizesAssumption, LimitsAssumption
<1> USE DEF ShapeOK, PoolOK, PlacesOK, CallOK, CodecOK, ScreenOK, ControlOK, vars, poolVars, decodeVars,
    callVars, codecVars, queueVars, presentVars, controlVars, hostVars, Holding, InDecoderCall,
    DecodePcs, PresentPcs, SessionPcs
<1>1. CASE LoopTop
  BY <1>1 DEF LoopTop
<1>2. CASE FrameArrives
  BY <1>2 DEF FrameArrives, Unit, Frames
<1>3. CASE WaitWoken
  BY <1>3 DEF WaitWoken
<1>4. CASE UnitWhileStopping
  BY <1>4 DEF UnitWhileStopping
<1>5. CASE SkipToKeyframe
  BY <1>5 DEF SkipToKeyframe
<1>6. CASE ResetFails
  BY <1>6 DEF ResetFails, Refuse
<1>7. CASE PrepareUnit
  <2>1. frames' \in Pool /\ decoder' \in Decoder /\ submissions' \in Seq(Submission)
    <3>1. CASE needsReset
      BY <1>7, <3>1, ReleaseDecodingType, FreshDecoderType DEF PrepareUnit, AbandonPictures
    <3>2. CASE ~needsReset
      BY <1>7, <3>2 DEF PrepareUnit
    <3> QED
      BY <3>1, <3>2
  <2> QED
    BY <1>7, <2>1 DEF PrepareUnit
<1>8. CASE HdrMismatch
  BY <1>8 DEF HdrMismatch
<1>9. CASE EmptyUnit
  BY <1>9 DEF EmptyUnit, Refuse
<1>10. CASE UnitNotCopied
  BY <1>10 DEF UnitNotCopied, Refuse, NextInput
<1>11. CASE OfferUnit
  BY <1>11 DEF OfferUnit, NextInput, Oldest, Available, FreeSlots
<1>12. CASE DecodeFails
  <2>1. output' \in Output /\ decoder' \in Decoder /\ frames' \in Pool
    BY <1>12, UnitSubmissionType, CallFailsType DEF DecodeFails
  <2> QED
    BY <1>12, <2>1 DEF DecodeFails, Refuse
<1>13. CASE DecodeNotQueued
  <2>1. output' \in Output /\ decoder' \in Decoder /\ frames' \in Pool
    BY <1>13, UnitSubmissionType, ReturnsType DEF DecodeNotQueued, FlagsOK
  <2> QED
    BY <1>13, <2>1 DEF DecodeNotQueued, Refuse
<1>14. CASE DecodeReturns
  <2>1. output' \in Output /\ decoder' \in Decoder /\ frames' \in Pool
    BY <1>14, UnitSubmissionType, ReturnsType DEF DecodeReturns, FlagsOK
  <2>2. submissions' \in Seq(Submission)
    BY <1>14, UnitSubmissionType, AppendProperties DEF DecodeReturns
  <2> QED
    BY <1>14, <2>1, <2>2 DEF DecodeReturns
<1>15. CASE FlushReturns
  <2>1. output' \in Output /\ decoder' \in Decoder /\ frames' \in Pool
    BY <1>15, ReturnsType DEF FlushReturns, FlagsOK, Decoder
  <2> QED
    BY <1>15, <2>1 DEF FlushReturns, Flushed
<1>16. CASE FlushFails
  <2>1. output' \in Output /\ decoder' \in Decoder /\ frames' \in Pool
    BY <1>16, CallFailsType DEF FlushFails, Decoder
  <2> QED
    BY <1>16, <2>1 DEF FlushFails, Refuse
<1>17. CASE SettleRefuses
  BY <1>17 DEF SettleRefuses, Refuse
<1>18. CASE SettleDelayed
  <2>1. PoolAfterAccept \in Pool
    BY <1>18, AcceptType DEF SettleDelayed
  <2> QED
    BY <1>18, <2>1 DEF SettleDelayed
<1>19. CASE SettlePicture
  <2>1. output.slot \in Slots /\ Head(submissions).frame \in Frames /\ submissions' \in Seq(Submission)
    <3>1. submissions # <<>> /\ output.slot \in Slots
      BY <1>19 DEF SettlePicture, TrustedOutput, Owned, Output
    <3>2. Head(submissions) \in Submission /\ Tail(submissions) \in Seq(Submission)
      BY <3>1, HeadTailProperties
    <3> QED
      BY <1>19, <3>1, <3>2 DEF SettlePicture, Submission
  <2>2. Waiting \in Seq(Picture) /\ Len(Waiting) < Capacity
    <3>1. CASE mailbox = <<>>
      BY <3>1 DEF Waiting, MailboxFull
    <3>2. CASE mailbox # <<>>
      BY <3>2, HeadTailProperties DEF Waiting, MailboxFull
    <3> QED
      BY <3>1, <3>2
  <2>3. mailbox' \in Seq(Picture) /\ Len(mailbox') <= Capacity
    <3>1. [slot |-> output.slot, frame |-> Head(submissions).frame] \in Picture
      BY <2>1 DEF Picture
    <3> QED
      BY <1>19, <2>2, <3>1, AppendProperties DEF SettlePicture
  <2>4. Published(PoolAfterAccept, output.slot) \in Pool
    BY <1>19, <2>1, AcceptType, PublishedType DEF SettlePicture
  <2>5. frames' \in Pool
    <3>1. CASE ~MailboxFull
      BY <1>19, <2>4, <3>1 DEF SettlePicture, Displaced
    <3>2. CASE MailboxFull
      <4>1. mailbox # <<>>
        BY <3>2 DEF MailboxFull
      <4>2. Head(mailbox) \in Picture
        BY <4>1, HeadTailProperties
      <4>3. {Head(mailbox).slot} \subseteq Slots
        BY <4>2 DEF Picture
      <4> QED
        BY <1>19, <2>4, <3>2, <4>3, ReleaseType DEF SettlePicture, Displaced
    <3> QED
      BY <3>1, <3>2
  <2>6. clean' \in 0 .. CleanOutputs /\ faults' \in Nat
    BY <1>19 DEF SettlePicture
  <2> QED
    BY <1>19, <2>1, <2>3, <2>5, <2>6 DEF SettlePicture
<1>20. CASE UnitRefused
  BY <1>20 DEF UnitRefused, Refuse
<1>21. CASE UnitDone
  BY <1>21 DEF UnitDone
<1>22. CASE DrainStepDone
  BY <1>22 DEF DrainStepDone
<1>23. CASE CompleteNeedIdr
  BY <1>23 DEF CompleteNeedIdr, ForgetCall, NoOutput, Output
<1>24. CASE CompleteOk
  BY <1>24 DEF CompleteOk, ForgetCall, NoOutput, Output
<1>25. CASE DrainFlush
  BY <1>25 DEF DrainFlush, Oldest, Available, FreeSlots
<1>26. CASE DrainStarved
  BY <1>26 DEF DrainStarved, ForgetCall, NoOutput, Output
<1>27. CASE DrainEnds
  BY <1>27 DEF DrainEnds, ForgetCall, NoOutput, Output
<1>28. CASE FaultCheck
  BY <1>28 DEF FaultCheck
<1>29. CASE FallbackSucceeds
  <2>1. frames' \in Pool /\ decoder' \in Decoder /\ submissions' \in Seq(Submission)
    BY <1>29, ReleaseDecodingType, FreshDecoderType DEF FallbackSucceeds, Abandon, AbandonPictures
  <2>2. unit' = NoUnit /\ offered' = NoSlot /\ output' \in Output
    BY <1>29 DEF FallbackSucceeds, Abandon, ForgetCall, NoOutput, Output
  <2> QED
    BY <1>29, <2>1, <2>2 DEF FallbackSucceeds, Abandon
<1>30. CASE FallbackFails
  <2>1. frames' \in Pool /\ submissions' \in Seq(Submission)
    BY <1>30, ReleaseDecodingType DEF FallbackFails, Abandon, AbandonPictures
  <2>2. [FreshDecoder EXCEPT !.alive = FALSE] \in Decoder
    BY FreshDecoderType DEF Decoder
  <2>3. decoder' \in Decoder
    BY <1>30, <2>2, FreshDecoderType DEF FallbackFails
  <2>4. unit' = NoUnit /\ offered' = NoSlot /\ output' \in Output
    BY <1>30 DEF FallbackFails, Abandon, ForgetCall, NoOutput, Output
  <2> QED
    BY <1>30, <2>1, <2>3, <2>4 DEF FallbackFails, Abandon
<1>31. CASE TakePicture
  <2>1. PICK k \in 1 .. Len(mailbox) :
          /\ current' = mailbox[k]
          /\ mailbox' = SubSeq(mailbox, k + 1, Len(mailbox))
          /\ frames' = Mark(Release(frames, {mailbox[i].slot : i \in 1 .. k - 1}),
                            mailbox[k].slot, "Presenting")
    BY <1>31 DEF TakePicture, Takeable
  <2>2. \A i \in 1 .. Len(mailbox) : mailbox[i] \in Picture /\ mailbox[i].slot \in Slots
    <3>1. ASSUME NEW i \in 1 .. Len(mailbox) PROVE mailbox[i] \in Picture
      BY ElementOfSeq
    <3> QED
      BY <3>1 DEF Picture
  <2>3. mailbox' \in Seq(Picture) /\ Len(mailbox') <= Capacity
    BY <2>1, SubSeqProperties
  <2>4. {mailbox[i].slot : i \in 1 .. k - 1} \subseteq Slots
    BY <2>2
  <2>5. frames' \in Pool
    BY <2>1, <2>2, <2>4, ReleaseType, MarkType DEF SlotStates
  <2> QED
    BY <1>31, <2>1, <2>2, <2>3, <2>5 DEF TakePicture
<1>32. CASE StopWhileChoosing
  BY <1>32 DEF StopWhileChoosing
<1>33. CASE StopWhileWaiting
  <2>1. frames' \in Pool
    BY <1>33, CurrentReleasedType DEF StopWhileWaiting
  <2> QED
    BY <1>33, <2>1 DEF StopWhileWaiting
<1>34. CASE SubmitPicture
  <2>1. flip' \in Slots
    BY <1>34 DEF SubmitPicture, Picture
  <2> QED
    BY <1>34, <2>1 DEF SubmitPicture
<1>35. CASE SubmitFails
  <2>1. frames' \in Pool
    BY <1>35, CurrentReleasedType DEF SubmitFails
  <2>2. failures' \in 0 .. PresentFailureLimit
    BY <1>35 DEF SubmitFails
  <2> QED
    BY <1>35, <2>1, <2>2 DEF SubmitFails
<1>36. CASE FlipCompletes
  <2>1. frames' \in Pool /\ current.frame \in Frames
    BY <1>36, CurrentReleasedType DEF FlipCompletes, Picture
  <2> QED
    BY <1>36, <2>1 DEF FlipCompletes
<1>37. CASE FlipTimesOut
  BY <1>37 DEF FlipTimesOut
<1>38. CASE StartWorkers
  <2>1. PICK present \in BOOLEAN, decode \in BOOLEAN :
          /\ ppc' = IF present THEN "choose" ELSE "none"
          /\ dpc' = IF decode THEN "top" ELSE "none"
    BY <1>38 DEF StartWorkers
  <2> QED
    BY <1>38, <2>1 DEF StartWorkers
<1>39. CASE StopRenderer
  BY <1>39 DEF StopRenderer
<1>40. CASE JoinDecode
  BY <1>40 DEF JoinDecode
<1>41. CASE JoinPresent
  BY <1>41 DEF JoinPresent
<1>42. CASE TearDown
  <2>1. PICK retired \in BOOLEAN, deleted \in BOOLEAN :
          /\ flip' = IF retired THEN NoSlot ELSE flip
          /\ decoder' = IF retired /\ deleted THEN [decoder EXCEPT !.alive = FALSE] ELSE decoder
          /\ mpc' = IF MayRelease(retired, deleted) THEN "released" ELSE "faulted"
    BY <1>42 DEF TearDown
  <2>2. decoder' \in Decoder
    BY <2>1 DEF Decoder
  <2> QED
    BY <1>42, <2>1, <2>2 DEF TearDown
<1>43. CASE SessionOver
  BY <1>43 DEF SessionOver
<1>44. CASE UNCHANGED vars
  BY <1>44
<1> QED
  BY <1>1, <1>2, <1>3, <1>4, <1>5, <1>6, <1>7, <1>8, <1>9, <1>10, <1>11, <1>12, <1>13, <1>14,
     <1>15, <1>16, <1>17, <1>18, <1>19, <1>20, <1>21, <1>22, <1>23, <1>24, <1>25, <1>26, <1>27,
     <1>28, <1>29, <1>30, <1>31, <1>32, <1>33, <1>34, <1>35, <1>36, <1>37, <1>38, <1>39, <1>40,
     <1>41, <1>42, <1>43, <1>44 DEF Next, DecodeStep, PresentStep, JoinStep

LEMMA InitType == Init => TypeOK /\ ControlOK
<1> SUFFICES ASSUME Init PROVE TypeOK /\ ControlOK
  OBVIOUS
<1> USE SizesAssumption, LimitsAssumption DEF Init
<1>1. PoolOK
  <2>1. frames \in Pool
    BY DEF Pool, SlotStates, Slots
  <2> QED
    BY <2>1 DEF PoolOK
<1>2. FlagsOK
  <2>1. drainEnabled \in BOOLEAN
    OBVIOUS
  <2> QED
    BY <2>1 DEF FlagsOK
<1>3. PlacesOK /\ ScreenOK /\ ControlOK
  BY DEF PlacesOK, ScreenOK, ControlOK, DecodePcs, PresentPcs, SessionPcs, InDecoderCall, Holding
<1>4. CallOK
  BY DEF CallOK, NoOutput, Output
<1>5. CodecOK
  BY FreshDecoderType DEF CodecOK
<1> QED
  BY <1>1, <1>2, <1>3, <1>4, <1>5 DEF TypeOK

LEMMA TypeInvariant == Spec => [](TypeOK /\ ControlOK)
<1>1. Init => TypeOK /\ ControlOK
  BY InitType
<1>2. (TypeOK /\ ControlOK) /\ [Next]_vars => (TypeOK /\ ControlOK)'
  BY FlagsStep, ShapeStep DEF TypeOK, ShapeOK
<1> QED
  BY <1>1, <1>2, PTL DEF Spec

\* Every variable keeps its type whatever the sizes: in particular the mailbox
\* never holds more pictures than its capacity and the fault and failure
\* counters stay within their limits.
THEOREM TypeCorrect == Spec => []TypeOK
BY TypeInvariant, PTL

-----------------------------------------------------------------------------
(* Slot ownership: a slot on its way to the screen stays there, and every  *)
(* slot that is not Free has an owner.                                     *)

\* A step of the decode worker leaves the slots of the screen alone.
ScreenKept ==
  \A s \in Slots :
    frames.state[s] \in {"Ready", "Presenting"} \/ frames'.state[s] \in {"Ready", "Presenting"}
      => frames'.state[s] = frames.state[s]

LEMMA MarkedState ==
  ASSUME NEW pool \in Pool, NEW s \in Slots, NEW st
  PROVE  /\ Mark(pool, s, st).state = [pool.state EXCEPT ![s] = st]
         /\ Mark(pool, s, st).picture = pool.picture
BY DEF Mark

LEMMA ReleasedState ==
  ASSUME NEW pool \in Pool, NEW S, NEW t \in Slots
  PROVE  /\ Release(pool, S).state[t] = IF t \in S THEN "Free" ELSE pool.state[t]
         /\ Release(pool, S).picture[t] = IF t \in S THEN NoFrame ELSE pool.picture[t]
BY DEF Release

LEMMA PoolState == ASSUME NEW pool \in Pool PROVE pool.state \in [Slots -> SlotStates]
BY DEF Pool

LEMMA ReleaseDecodingKeepsScreen ==
  ASSUME frames \in Pool, frames' = ReleaseDecoding(frames)
  PROVE  ScreenKept
BY ReleasedState DEF ScreenKept, ReleaseDecoding, DecodingSlots

LEMMA MailboxSlots ==
  ASSUME mailbox \in Seq(Picture)
  PROVE  \A i \in 1 .. Len(mailbox) : mailbox[i] \in Picture /\ mailbox[i].slot \in Slots
<1>1. ASSUME NEW i \in 1 .. Len(mailbox) PROVE mailbox[i] \in Picture
  BY ElementOfSeq
<1> QED
  BY <1>1 DEF Picture

LEMMA ScreenUntouched ==
  ASSUME TypeOK, ControlOK, PoolInv, ScreenKept, UNCHANGED <<mailbox, presentVars>>
  PROVE  ReadyWaits' /\ PresentingTaken' /\ FlipTaken'
<1> USE DEF PoolInv, presentVars
<1>1. \A i \in 1 .. Len(mailbox) : mailbox[i].slot \in Slots
  BY MailboxSlots DEF TypeOK, PoolOK
<1>2. ReadyWaits'
  BY <1>1 DEF ReadyWaits, ScreenKept, InMailbox
<1>3. PresentingTaken'
  <2>1. Holding => current.slot \in Slots
    BY DEF ControlOK, Picture
  <2> QED
    BY <2>1 DEF PresentingTaken, ScreenKept, Holding
<1>4. FlipTaken'
  BY DEF FlipTaken, ScreenKept, TypeOK, ScreenOK
<1> QED
  BY <1>2, <1>3, <1>4
\* A decode step keeps PoolInv when it leaves the screen alone and the slot in
\* a call stays Free.
DecodeQuiet == ScreenKept /\ UNCHANGED <<mailbox, presentVars>> /\ OfferedFree'

LEMMA ReturnsKeepsState ==
  ASSUME NEW units, Returns(units) \/ CallFails(units)
  PROVE  frames'.state = frames.state
BY DEF Returns, CallFails, Written

LEMMA AcceptedState ==
  ASSUME TypeOK, ControlOK, PoolInv, dpc = "settle"
  PROVE  /\ PoolAfterAccept \in Pool
         /\ \A s \in Slots : PoolAfterAccept.state[s] = frames.state[s]
                             \/ (frames.state[s] = "Free" /\ PoolAfterAccept.state[s] = "Decoding")
         /\ PoolAfterAccept.picture = frames.picture
<1>1. frames \in Pool /\ offered \in Slots /\ frames.state[offered] = "Free"
  BY DEF TypeOK, PoolOK, ControlOK, PoolInv, OfferedFree
<1>2. frames.state \in [Slots -> SlotStates]
  BY <1>1, PoolState
<1>3. CASE output.accepted /\ offered # output.slot
  <2>1. PoolAfterAccept = Mark(frames, offered, "Decoding")
    BY <1>3 DEF PoolAfterAccept
  <2>2. PoolAfterAccept.state = [frames.state EXCEPT ![offered] = "Decoding"]
    BY <1>1, <2>1, MarkedState
  <2> QED
    <3>1. PoolAfterAccept \in Pool
      BY <1>1, AcceptType
    <3>2. PoolAfterAccept.picture = frames.picture
      BY <1>1, <2>1, MarkedState
    <3> QED
      BY <1>1, <1>2, <2>2, <3>1, <3>2
<1>4. CASE ~(output.accepted /\ offered # output.slot)
  <2>1. PoolAfterAccept = frames
    BY <1>4, Zenon DEF PoolAfterAccept
  <2> QED
    BY <1>1, <2>1
<1> QED
  BY <1>3, <1>4

LEMMA DecodeQuietStep ==
  ASSUME TypeOK, ControlOK, PoolInv, DecodeStep \/ FrameArrives, ~SettlePicture
  PROVE  DecodeQuiet
<1> USE DEF DecodeQuiet, ScreenKept, OfferedFree, InDecoderCall, poolVars, decodeVars, callVars, codecVars, queueVars,
    presentVars, controlVars, hostVars
<1>t. frames \in Pool
  BY DEF TypeOK, PoolOK
<1>1. CASE LoopTop
  BY <1>1 DEF LoopTop
<1>2. CASE FrameArrives
  BY <1>2 DEF FrameArrives
<1>3. CASE WaitWoken
  BY <1>3 DEF WaitWoken
<1>4. CASE UnitWhileStopping
  BY <1>4 DEF UnitWhileStopping
<1>5. CASE SkipToKeyframe
  BY <1>5 DEF SkipToKeyframe
<1>6. CASE ResetFails
  BY <1>6 DEF ResetFails, Refuse
<1>7. CASE PrepareUnit
  BY <1>7, <1>t, ReleaseDecodingKeepsScreen DEF PrepareUnit, AbandonPictures
<1>8. CASE HdrMismatch
  BY <1>8 DEF HdrMismatch
<1>9. CASE EmptyUnit
  BY <1>9 DEF EmptyUnit, Refuse
<1>10. CASE UnitNotCopied
  BY <1>10 DEF UnitNotCopied, Refuse
<1>11. CASE SettleRefuses
  BY <1>11 DEF SettleRefuses, Refuse
<1>12. CASE UnitRefused
  BY <1>12 DEF UnitRefused, Refuse
<1>13. CASE UnitDone
  BY <1>13 DEF UnitDone
<1>14. CASE DrainStepDone
  BY <1>14 DEF DrainStepDone
<1>15. CASE CompleteNeedIdr
  BY <1>15 DEF CompleteNeedIdr
<1>16. CASE CompleteOk
  BY <1>16 DEF CompleteOk
<1>17. CASE DrainStarved
  BY <1>17 DEF DrainStarved
<1>18. CASE DrainEnds
  BY <1>18 DEF DrainEnds
<1>19. CASE FaultCheck
  BY <1>19 DEF FaultCheck
<1>20. CASE FallbackSucceeds
  BY <1>20, <1>t, ReleaseDecodingKeepsScreen DEF FallbackSucceeds, Abandon, AbandonPictures
<1>21. CASE FallbackFails
  BY <1>21, <1>t, ReleaseDecodingKeepsScreen DEF FallbackFails, Abandon, AbandonPictures
<1>22. CASE OfferUnit
  BY <1>22 DEF OfferUnit, Oldest, Available, FreeSlots
<1>23. CASE DrainFlush
  BY <1>23 DEF DrainFlush, Oldest, Available, FreeSlots
<1>24. CASE DecodeFails
  BY <1>24, ReturnsKeepsState DEF DecodeFails, Refuse, PoolInv
<1>25. CASE DecodeNotQueued
  BY <1>25, ReturnsKeepsState DEF DecodeNotQueued, Refuse, PoolInv
<1>26. CASE DecodeReturns
  BY <1>26, ReturnsKeepsState DEF DecodeReturns, PoolInv
<1>27. CASE FlushReturns
  BY <1>27, ReturnsKeepsState DEF FlushReturns, Flushed, PoolInv
<1>28. CASE FlushFails
  BY <1>28, ReturnsKeepsState DEF FlushFails, Refuse, PoolInv
<1>29. CASE SettleDelayed
  <2> QED
    BY <1>29, AcceptedState DEF SettleDelayed
<1> QED
  BY <1>1, <1>2, <1>3, <1>4, <1>5, <1>6, <1>7, <1>8, <1>9, <1>10, <1>11, <1>12, <1>13, <1>14,
     <1>15, <1>16, <1>17, <1>18, <1>19, <1>20, <1>21, <1>22, <1>23, <1>24, <1>25, <1>26, <1>27,
     <1>28, <1>29 DEF DecodeStep

LEMMA PublishedState ==
  ASSUME NEW pool \in Pool, NEW s \in Slots
  PROVE  /\ Published(pool, s).state = [pool.state EXCEPT ![s] = "Ready"]
         /\ Published(pool, s).picture = pool.picture
BY MarkedState DEF Published

Front == Head(mailbox).slot

\* What settling a picture does to the pool, and the mailbox it leaves behind.
LEMMA SettlePictureFacts ==
  ASSUME TypeOK, ControlOK, PoolInv, SettlePicture
  PROVE  /\ output.slot \in Slots /\ dpc = "settle" /\ dpc' = "settled"
         /\ frames.state[output.slot] \in {"Free", "Decoding"}
         /\ \A s \in Slots :
              /\ frames'.state[s] = IF s = output.slot THEN "Ready"
                                    ELSE IF MailboxFull /\ s = Front THEN "Free"
                                    ELSE PoolAfterAccept.state[s]
              /\ frames'.picture[s] = IF MailboxFull /\ s = Front THEN NoFrame ELSE frames.picture[s]
         /\ MailboxFull => Front \in Slots /\ frames.state[Front] = "Ready" /\ Front # output.slot
         /\ Len(Waiting) \in Nat
         /\ Len(mailbox') = Len(Waiting) + 1
         /\ \A i \in 1 .. Len(Waiting) : mailbox'[i] = Waiting[i]
         /\ mailbox'[Len(Waiting) + 1] = [slot |-> output.slot, frame |-> Head(submissions).frame]
         /\ \A i \in 1 .. Len(Waiting) :
              /\ Waiting[i].slot \in Slots
              /\ frames.state[Waiting[i].slot] = "Ready"
              /\ MailboxFull => Waiting[i].slot # Front
              /\ \E j \in 1 .. Len(mailbox) : Waiting[i] = mailbox[j]
         /\ \A i, j \in 1 .. Len(Waiting) : Waiting[i].slot = Waiting[j].slot => i = j
         /\ \A s \in Slots : frames.state[s] = "Ready" /\ ~(MailboxFull /\ s = Front)
                               => \E i \in 1 .. Len(Waiting) : Waiting[i].slot = s
<1> DEFINE o == output.slot
           front == Front
<1> USE DEF Front
<1>1. /\ o \in Slots /\ dpc = "settle" /\ dpc' = "settled"
      /\ frames.state[o] \in {"Free", "Decoding"}
  <2>1. dpc = "settle" /\ dpc' = "settled" /\ o # NoSlot /\ Owned(o)
    BY DEF SettlePicture, TrustedOutput
  <2>2. o \in Slots
    BY <2>1 DEF TypeOK, CallOK, Output
  <2> QED
    BY <2>1, <2>2 DEF Owned, PoolInv, OfferedFree
<1>2. mailbox \in Seq(Picture) /\ \A i \in 1 .. Len(mailbox) : mailbox[i].slot \in Slots
  BY MailboxSlots DEF TypeOK, PoolOK
<1>3. \A i \in 1 .. Len(mailbox) : mailbox[i].slot # o
  BY <1>1 DEF PoolInv, ReadyWaits
<1>4. /\ \A s \in Slots :
           frames'.state[s] = IF s = o THEN "Ready"
                              ELSE IF MailboxFull /\ s = front THEN "Free"
                              ELSE PoolAfterAccept.state[s]
      /\ \A s \in Slots : frames'.picture[s] = IF MailboxFull /\ s = front THEN NoFrame ELSE frames.picture[s]
  <2>1. Published(PoolAfterAccept, o) \in Pool
    BY <1>1, AcceptedState, PublishedType
  <2>2. \A s \in Slots : Published(PoolAfterAccept, o).state[s]
                           = IF s = o THEN "Ready" ELSE PoolAfterAccept.state[s]
    <3>1. PoolAfterAccept.state \in [Slots -> SlotStates]
      BY <1>1, AcceptedState, PoolState
    <3>2. Published(PoolAfterAccept, o).state = [PoolAfterAccept.state EXCEPT ![o] = "Ready"]
      BY <1>1, AcceptedState, PublishedState
    <3> QED
      BY <1>1, <3>1, <3>2
  <2>3. MailboxFull => front # o
    BY <1>2, <1>3, SizesAssumption DEF MailboxFull
  <2>4. Published(PoolAfterAccept, o).picture = frames.picture
    BY <1>1, AcceptedState, PublishedState
  <2> QED
    BY <2>1, <2>2, <2>3, <2>4, ReleasedState DEF SettlePicture, Displaced
<1>5. /\ Len(mailbox') = Len(Waiting) + 1
      /\ \A i \in 1 .. Len(Waiting) : mailbox'[i] = Waiting[i]
      /\ mailbox'[Len(Waiting) + 1] = [slot |-> o, frame |-> Head(submissions).frame]
  <2>1. Waiting \in Seq(Picture)
    <3>1. MailboxFull => mailbox # <<>>
      BY <1>2, SizesAssumption DEF MailboxFull
    <3> QED
      BY <1>2, <3>1, HeadTailProperties DEF Waiting
  <2> QED
    BY <2>1, AppendProperties DEF SettlePicture
<1>6. /\ \A i \in 1 .. Len(Waiting) :
           /\ Waiting[i].slot \in Slots
           /\ frames.state[Waiting[i].slot] = "Ready"
           /\ MailboxFull => Waiting[i].slot # front
           /\ \E j \in 1 .. Len(mailbox) : Waiting[i] = mailbox[j]
      /\ \A i, j \in 1 .. Len(Waiting) : Waiting[i].slot = Waiting[j].slot => i = j
      /\ \A s \in Slots : frames.state[s] = "Ready" /\ ~(MailboxFull /\ s = front)
                            => \E i \in 1 .. Len(Waiting) : Waiting[i].slot = s
  <2>1. CASE ~MailboxFull
    <3>1. Waiting = mailbox
      BY <2>1 DEF Waiting
    <3> QED
      BY <1>2, <2>1, <3>1 DEF PoolInv, ReadyWaits, InMailbox
  <2>2. CASE MailboxFull
    <3>1. mailbox # <<>>
      BY <1>2, <2>2, SizesAssumption DEF MailboxFull
    <3>2. /\ Len(Waiting) = Len(mailbox) - 1 /\ Len(mailbox) \in Nat
          /\ \A i \in 1 .. Len(Waiting) : Waiting[i] = mailbox[i + 1]
          /\ front = mailbox[1].slot
      BY <1>2, <2>2, <3>1, HeadTailProperties DEF Waiting
    <3>3. \A i \in 1 .. Len(Waiting) : i + 1 \in 1 .. Len(mailbox) /\ i + 1 # 1
      BY <3>2
    <3>4. ASSUME NEW i \in 1 .. Len(Waiting)
          PROVE  /\ Waiting[i].slot \in Slots /\ frames.state[Waiting[i].slot] = "Ready"
                 /\ Waiting[i].slot # front
                 /\ \E j \in 1 .. Len(mailbox) : Waiting[i] = mailbox[j]
      <4>1. i + 1 \in 1 .. Len(mailbox) /\ 1 \in 1 .. Len(mailbox)
        BY <3>2, <3>3
      <4> QED
        BY <1>2, <3>2, <4>1 DEF PoolInv, ReadyWaits
    <3>5. ASSUME NEW i \in 1 .. Len(Waiting), NEW j \in 1 .. Len(Waiting), Waiting[i].slot = Waiting[j].slot
          PROVE  i = j
      <4>1. i + 1 \in 1 .. Len(mailbox) /\ j + 1 \in 1 .. Len(mailbox)
        BY <3>3
      <4>2. i + 1 = j + 1
        BY <3>2, <3>5, <4>1 DEF PoolInv, ReadyWaits
      <4> QED
        BY <4>2
    <3>6. ASSUME NEW s \in Slots, frames.state[s] = "Ready", s # front
          PROVE  \E i \in 1 .. Len(Waiting) : Waiting[i].slot = s
      <4>1. PICK k \in 1 .. Len(mailbox) : mailbox[k].slot = s
        BY <3>6 DEF PoolInv, ReadyWaits, InMailbox
      <4>2. k # 1 /\ k - 1 \in 1 .. Len(Waiting) /\ (k - 1) + 1 = k
        BY <3>2, <3>6, <4>1
      <4> QED
        BY <3>2, <4>1, <4>2
    <3> QED
      BY <2>2, <3>4, <3>5, <3>6
  <2> QED
    BY <2>1, <2>2
<1>7. Len(Waiting) \in Nat
  <2>1. Waiting \in Seq(Picture)
    BY <1>2, HeadTailProperties, SizesAssumption DEF Waiting, MailboxFull
  <2> QED
    BY <2>1, LenProperties
<1>8. MailboxFull => front \in Slots /\ frames.state[front] = "Ready" /\ front # o
  <2>1. MailboxFull => mailbox # <<>>
    BY <1>2, SizesAssumption DEF MailboxFull
  <2>2. MailboxFull => front = mailbox[1].slot /\ 1 \in 1 .. Len(mailbox)
    BY <1>2, <2>1, HeadTailProperties
  <2> QED
    BY <1>2, <1>3, <2>2 DEF PoolInv, ReadyWaits
<1> QED
  BY <1>1, <1>4, <1>5, <1>6, <1>7, <1>8

LEMMA SettlePictureStep ==
  ASSUME TypeOK, ControlOK, PoolInv, SettlePicture
  PROVE  PoolInv'
<1> DEFINE o == output.slot
<1>1. \A s \in Slots :
        /\ frames'.state[s] = "Ready"
             <=> s = o \/ (frames.state[s] = "Ready" /\ ~(MailboxFull /\ s = Front))
        /\ frames'.state[s] = "Presenting" <=> frames.state[s] = "Presenting"
  BY SettlePictureFacts, AcceptedState
<1>2. ReadyWaits'
  <2>1. \A i \in 1 .. Len(mailbox') : frames'.state[mailbox'[i].slot] = "Ready"
    <3>1. ASSUME NEW i \in 1 .. Len(Waiting) PROVE frames'.state[mailbox'[i].slot] = "Ready"
      <4>1. mailbox'[i] = Waiting[i] /\ Waiting[i].slot \in Slots
        BY SettlePictureFacts
      <4>2. frames.state[Waiting[i].slot] = "Ready" /\ (MailboxFull => Waiting[i].slot # Front)
        BY SettlePictureFacts
      <4> QED
        BY <1>1, <4>1, <4>2
    <3>2. mailbox'[Len(Waiting) + 1].slot = o /\ frames'.state[o] = "Ready"
      BY <1>1, SettlePictureFacts
    <3> QED
      BY <3>1, <3>2, SettlePictureFacts
  <2>2. \A i, j \in 1 .. Len(mailbox') : mailbox'[i].slot = mailbox'[j].slot => i = j
    <3>1. \A i \in 1 .. Len(Waiting) : Waiting[i].slot # o
      BY SettlePictureFacts
    <3> QED
      BY <3>1, SettlePictureFacts
  <2>3. \A s \in Slots : frames'.state[s] = "Ready" => \E i \in 1 .. Len(mailbox') : mailbox'[i].slot = s
    BY <1>1, SettlePictureFacts
  <2> QED
    BY <2>1, <2>2, <2>3 DEF ReadyWaits, InMailbox
<1>3. PresentingTaken' /\ FlipTaken'
  <2>1. UNCHANGED presentVars /\ (Holding => current.slot \in Slots)
    BY DEF SettlePicture, ControlOK, Picture
  <2> QED
    BY <1>1, <2>1 DEF PoolInv, PresentingTaken, FlipTaken, presentVars, Holding, TypeOK, ScreenOK
<1>4. OfferedFree'
  BY SettlePictureFacts DEF OfferedFree, InDecoderCall
<1> QED
  BY <1>2, <1>3, <1>4 DEF PoolInv

-----------------------------------------------------------------------------
(* The presentation worker and the session.                                *)

LEMMA CurrentReleasedStep ==
  ASSUME TypeOK, ControlOK, PoolInv, Holding,
         frames' = Release(frames, {current.slot}), mailbox' = mailbox,
         ppc' \notin {"deadline", "flip"}, flip' = NoSlot, UNCHANGED <<dpc, offered>>
  PROVE  PoolInv'
<1>1. frames \in Pool /\ current.slot \in Slots
  BY DEF TypeOK, PoolOK, ControlOK, Picture
<1>2. \A s \in Slots : frames'.state[s] = IF s = current.slot THEN "Free" ELSE frames.state[s]
  BY <1>1, ReleasedState
<1>3. frames.state[current.slot] = "Presenting"
  BY DEF PoolInv, PresentingTaken
<1>4. \A i \in 1 .. Len(mailbox) : mailbox[i].slot \in Slots
  BY MailboxSlots DEF TypeOK, PoolOK
<1>5. ReadyWaits'
  BY <1>2, <1>3, <1>4 DEF PoolInv, ReadyWaits, InMailbox
<1>6. PresentingTaken' /\ FlipTaken'
  BY <1>2 DEF PoolInv, PresentingTaken, FlipTaken, Holding
<1>7. OfferedFree'
  BY <1>2, <1>3 DEF PoolInv, OfferedFree, InDecoderCall, ControlOK
<1> QED
  BY <1>5, <1>6, <1>7 DEF PoolInv

\* Taking the k-th picture gives the slots of the older ones back.
LEMMA TakenPool ==
  ASSUME frames \in Pool, mailbox \in Seq(Picture), NEW k \in 1 .. Len(mailbox),
         frames' = Mark(Release(frames, {mailbox[i].slot : i \in 1 .. k - 1}),
                        mailbox[k].slot, "Presenting")
  PROVE  /\ mailbox[k].slot \in Slots
         /\ \A s \in Slots :
              LET skipped == s \in {mailbox[i].slot : i \in 1 .. k - 1}
              IN /\ frames'.state[s] = IF s = mailbox[k].slot THEN "Presenting"
                                       ELSE IF skipped THEN "Free" ELSE frames.state[s]
                 /\ frames'.picture[s] = IF skipped THEN NoFrame ELSE frames.picture[s]
<1> DEFINE S == {mailbox[i].slot : i \in 1 .. k - 1}
           t == mailbox[k].slot
<1>1. Len(mailbox) \in Nat /\ \A i \in 1 .. Len(mailbox) : mailbox[i].slot \in Slots
  BY MailboxSlots, LenProperties
<1>2. S \subseteq Slots /\ t \in Slots
  BY <1>1
<1>3. Release(frames, S) \in Pool
  BY <1>2, ReleaseType
<1>4. Release(frames, S).state \in [Slots -> SlotStates]
  BY <1>3, PoolState
<1>5. /\ frames'.state = [Release(frames, S).state EXCEPT ![t] = "Presenting"]
      /\ frames'.picture = Release(frames, S).picture
  BY <1>2, <1>3, MarkedState
<1>6. \A s \in Slots : /\ Release(frames, S).state[s] = IF s \in S THEN "Free" ELSE frames.state[s]
                       /\ Release(frames, S).picture[s] = IF s \in S THEN NoFrame ELSE frames.picture[s]
  BY ReleasedState
<1> HIDE DEF S, t
<1>7. \A s \in Slots : frames'.state[s] = IF s = t THEN "Presenting"
                                          ELSE IF s \in S THEN "Free" ELSE frames.state[s]
  BY <1>4, <1>5, <1>6
<1>8. \A s \in Slots : frames'.picture[s] = IF s \in S THEN NoFrame ELSE frames.picture[s]
  BY <1>5, <1>6
<1> USE DEF S, t
<1> QED
  BY <1>2, <1>7, <1>8

LEMMA TakePictureStep ==
  ASSUME TypeOK, ControlOK, PoolInv, TakePicture
  PROVE  PoolInv'
<1>1. PICK k \in 1 .. Len(mailbox) :
        /\ current' = mailbox[k]
        /\ mailbox' = SubSeq(mailbox, k + 1, Len(mailbox))
        /\ frames' = Mark(Release(frames, {mailbox[i].slot : i \in 1 .. k - 1}),
                          mailbox[k].slot, "Presenting")
  BY DEF TakePicture, Takeable
<1> DEFINE S == {mailbox[i].slot : i \in 1 .. k - 1}
           t == mailbox[k].slot
<1>2. /\ frames \in Pool /\ mailbox \in Seq(Picture) /\ Len(mailbox) \in Nat
      /\ \A i \in 1 .. Len(mailbox) : mailbox[i].slot \in Slots
  BY MailboxSlots, LenProperties DEF TypeOK, PoolOK
<1>3. /\ t \in Slots
      /\ \A s \in Slots : frames'.state[s] = IF s = t THEN "Presenting"
                                             ELSE IF s \in S THEN "Free" ELSE frames.state[s]
  BY <1>1, <1>2, TakenPool
<1>4. /\ Len(mailbox') = Len(mailbox) - k
      /\ \A i \in 1 .. Len(mailbox') : i + k \in k + 1 .. Len(mailbox) /\ mailbox'[i] = mailbox[i + k]
  BY <1>1, <1>2, SubSeqProperties
<1>5. /\ \A i \in 1 .. Len(mailbox) : frames.state[mailbox[i].slot] = "Ready"
      /\ \A i, j \in 1 .. Len(mailbox) : mailbox[i].slot = mailbox[j].slot => i = j
      /\ \A s \in Slots : frames.state[s] = "Ready" => \E i \in 1 .. Len(mailbox) : mailbox[i].slot = s
      /\ ~\E s \in Slots : frames.state[s] = "Presenting"
      /\ ppc = "choose" /\ ppc' = "deadline" /\ flip = NoSlot /\ flip' = NoSlot
  BY DEF PoolInv, ReadyWaits, InMailbox, PresentingTaken, FlipTaken, TakePicture
<1>6. \A i \in k + 1 .. Len(mailbox) : mailbox[i].slot # t /\ mailbox[i].slot \notin S
  BY <1>2, <1>5
<1>7. ReadyWaits'
  <2>1. \A i \in 1 .. Len(mailbox') : frames'.state[mailbox'[i].slot] = "Ready"
    <3>1. ASSUME NEW i \in 1 .. Len(mailbox') PROVE frames'.state[mailbox'[i].slot] = "Ready"
      <4>1. i + k \in k + 1 .. Len(mailbox) /\ i + k \in 1 .. Len(mailbox) /\ mailbox'[i] = mailbox[i + k]
        BY <1>2, <1>4
      <4>2. mailbox[i + k].slot \in Slots /\ frames.state[mailbox[i + k].slot] = "Ready"
        BY <1>2, <1>5, <4>1
      <4>3. mailbox[i + k].slot # t /\ mailbox[i + k].slot \notin S
        BY <1>6, <4>1
      <4> HIDE DEF S, t
      <4> QED
        BY <1>3, <4>1, <4>2, <4>3
    <3> QED
      BY <3>1
  <2>2. \A i, j \in 1 .. Len(mailbox') : mailbox'[i].slot = mailbox'[j].slot => i = j
    <3>1. ASSUME NEW i \in 1 .. Len(mailbox'), NEW j \in 1 .. Len(mailbox'),
                 mailbox'[i].slot = mailbox'[j].slot
          PROVE  i = j
      <4>1. i + k \in 1 .. Len(mailbox) /\ j + k \in 1 .. Len(mailbox)
        BY <1>2, <1>4
      <4>2. i + k = j + k
        <5>1. mailbox[i + k].slot = mailbox[j + k].slot
          BY <1>4, <3>1
        <5> QED
          BY <1>5, <4>1, <5>1
      <4> QED
        BY <1>2, <1>4, <4>2
    <3> QED
      BY <3>1
  <2>3. ASSUME NEW s \in Slots, frames'.state[s] = "Ready"
        PROVE  \E i \in 1 .. Len(mailbox') : mailbox'[i].slot = s
    <3>1. s # t /\ s \notin S /\ frames.state[s] = "Ready"
      BY <1>3, <2>3
    <3>2. PICK j \in 1 .. Len(mailbox) : mailbox[j].slot = s
      BY <1>5, <3>1
    <3>3. j > k /\ j - k \in 1 .. Len(mailbox') /\ (j - k) + k = j
      BY <1>2, <1>4, <3>1, <3>2
    <3> QED
      BY <1>4, <3>2, <3>3
  <2> QED
    BY <2>1, <2>2, <2>3 DEF ReadyWaits, InMailbox
<1>8. PresentingTaken' /\ FlipTaken'
  BY <1>1, <1>3, <1>5 DEF PresentingTaken, FlipTaken, Holding
<1>9. OfferedFree'
  <2>1. UNCHANGED <<dpc, offered>>
    BY DEF TakePicture, decodeVars, callVars
  <2> QED
    BY <1>2, <1>3, <1>5, <2>1 DEF PoolInv, OfferedFree, InDecoderCall, ControlOK
<1> QED
  BY <1>7, <1>8, <1>9 DEF PoolInv

LEMMA OtherPoolStep ==
  ASSUME TypeOK, ControlOK, PoolInv, PresentStep \/ JoinStep \/ StopRenderer \/ UNCHANGED vars
  PROVE  PoolInv'
<1> USE DEF poolVars, decodeVars, callVars, codecVars, queueVars, presentVars, controlVars, hostVars, vars
<1>1. CASE TakePicture
  BY <1>1, TakePictureStep
<1>2. CASE StopWhileChoosing
  BY <1>2 DEF StopWhileChoosing, PoolInv, ReadyWaits, PresentingTaken, FlipTaken, OfferedFree,
              InMailbox, Holding, InDecoderCall
<1>3. CASE StopWhileWaiting
  BY <1>3, CurrentReleasedStep DEF StopWhileWaiting, Holding, PoolInv, FlipTaken
<1>4. CASE SubmitPicture
  BY <1>4 DEF SubmitPicture, PoolInv, ReadyWaits, PresentingTaken, FlipTaken, OfferedFree,
              InMailbox, Holding, InDecoderCall
<1>5. CASE SubmitFails
  BY <1>5, CurrentReleasedStep DEF SubmitFails, Holding, PoolInv, FlipTaken
<1>6. CASE FlipCompletes
  BY <1>6, CurrentReleasedStep DEF FlipCompletes, Holding
<1>7. CASE FlipTimesOut
  BY <1>7 DEF FlipTimesOut, PoolInv, ReadyWaits, PresentingTaken, FlipTaken, OfferedFree,
              InMailbox, Holding, InDecoderCall
<1>8. CASE StartWorkers
  <2>1. ppc = "none" /\ ppc' \in {"none", "choose"} /\ UNCHANGED <<frames, mailbox, offered, current, flip>>
        /\ dpc' \in {"none", "top"}
    BY <1>8 DEF StartWorkers, ControlOK
  <2> QED
    BY <2>1 DEF PoolInv, ReadyWaits, PresentingTaken, FlipTaken, OfferedFree, InMailbox, Holding,
                InDecoderCall
<1>9. CASE TearDown
  <2>1. flip' \in {flip, NoSlot} /\ UNCHANGED <<frames, mailbox, offered, dpc, ppc, current>>
    BY <1>9 DEF TearDown
  <2>2. ppc # "flip"
    BY <1>9 DEF TearDown, ControlOK
  <2> QED
    BY <2>1, <2>2 DEF PoolInv, ReadyWaits, PresentingTaken, FlipTaken, OfferedFree, InMailbox,
       Holding,
                InDecoderCall
<1>10. CASE JoinDecode \/ JoinPresent \/ StopRenderer \/ UNCHANGED vars
  BY <1>10 DEF JoinDecode, JoinPresent, StopRenderer, PoolInv, ReadyWaits, PresentingTaken,
     FlipTaken,
               OfferedFree, InMailbox, Holding, InDecoderCall
<1> QED
  BY <1>1, <1>2, <1>3, <1>4, <1>5, <1>6, <1>7, <1>8, <1>9, <1>10 DEF PresentStep, JoinStep

LEMMA PoolInvStep == TypeOK /\ ControlOK /\ PoolInv /\ [Next]_vars => PoolInv'
<1> SUFFICES ASSUME TypeOK, ControlOK, PoolInv, [Next]_vars PROVE PoolInv'
  OBVIOUS
<1>1. CASE SettlePicture
  BY <1>1, SettlePictureStep
<1>2. CASE (DecodeStep \/ FrameArrives) /\ ~SettlePicture
  BY <1>2, DecodeQuietStep, ScreenUntouched DEF DecodeQuiet, PoolInv
<1>3. CASE PresentStep \/ JoinStep \/ StopRenderer \/ UNCHANGED vars
  BY <1>3, OtherPoolStep
<1> QED
  BY <1>1, <1>2, <1>3 DEF Next, SessionOver

LEMMA PoolInvInit == Init => PoolInv
BY DEF Init, PoolInv, ReadyWaits, PresentingTaken, FlipTaken, OfferedFree, InMailbox, Holding,
       InDecoderCall, Slots

\* No slot is ever lost, whatever the sizes, and through every error path of
\* the decoder and the presenter: a Ready slot waits in the mailbox and a
\* Presenting one is in the hands of the presentation worker.
THEOREM SlotsAccounted == Spec => []NoSlotLost
<1>1. Init => PoolInv
  BY PoolInvInit
<1>2. TypeOK /\ ControlOK /\ PoolInv /\ [Next]_vars => PoolInv'
  BY PoolInvStep
<1>3. PoolInv => NoSlotLost
  BY DEF PoolInv, ReadyWaits, PresentingTaken, NoSlotLost
<1> QED
  BY <1>1, <1>2, <1>3, TypeInvariant, PTL DEF Spec

-----------------------------------------------------------------------------
(* Pictures and the decoder *)

Typed == TypeOK /\ ControlOK /\ PoolInv

\* Steps that leave the pool, the decoder and the submissions alone.
Untouched == UNCHANGED <<frames, decoder, submissions>>

LEMMA UntouchedInStep ==
  ASSUME Untouched
  PROVE  (InStep' <=> InStep) /\ (KeptHidden' <=> KeptHidden)
BY DEF Untouched, InStep, KeptHidden

LEMMA QuietDecoderStep ==
  ASSUME Typed, DecoderInv,
         \/ LoopTop \/ FrameArrives \/ WaitWoken \/ UnitWhileStopping \/ SkipToKeyframe
         \/ ResetFails \/ HdrMismatch \/ EmptyUnit \/ UnitNotCopied \/ OfferUnit
         \/ SettleRefuses \/ UnitRefused \/ UnitDone \/ DrainStepDone \/ CompleteNeedIdr
         \/ CompleteOk \/ DrainFlush \/ DrainStarved \/ DrainEnds \/ FaultCheck
  PROVE  DecoderInv' /\ Untouched /\ dpc' # "settle"
<1> USE DEF Untouched, Typed, DecoderInv, UsableInStep, ResetStands, poolVars, decodeVars, callVars, codecVars,
    queueVars, presentVars, controlVars, hostVars
<1>1. CASE LoopTop
  <2>1. Untouched /\ dpc' # "settle"
    BY <1>1 DEF LoopTop
  <2>2. UsableInStep' /\ ResetStands'
    BY <1>1, <2>1, UntouchedInStep DEF LoopTop
  <2> QED
    BY <2>1, <2>2, UntouchedInStep DEF SettleInStep
<1>2. CASE FrameArrives
  <2>1. Untouched /\ dpc' # "settle"
    BY <1>2 DEF FrameArrives
  <2>2. UsableInStep' /\ ResetStands'
    BY <1>2, <2>1, UntouchedInStep DEF FrameArrives
  <2> QED
    BY <2>1, <2>2, UntouchedInStep DEF SettleInStep
<1>3. CASE WaitWoken
  <2>1. Untouched /\ dpc' # "settle"
    BY <1>3 DEF WaitWoken
  <2>2. UsableInStep' /\ ResetStands'
    BY <1>3, <2>1, UntouchedInStep DEF WaitWoken
  <2> QED
    BY <2>1, <2>2, UntouchedInStep DEF SettleInStep
<1>4. CASE UnitWhileStopping
  <2>1. Untouched /\ dpc' # "settle"
    BY <1>4 DEF UnitWhileStopping
  <2>2. UsableInStep' /\ ResetStands'
    BY <1>4, <2>1, UntouchedInStep DEF UnitWhileStopping
  <2> QED
    BY <2>1, <2>2, UntouchedInStep DEF SettleInStep
<1>5. CASE SkipToKeyframe
  <2>1. Untouched /\ dpc' # "settle"
    BY <1>5 DEF SkipToKeyframe
  <2>2. UsableInStep' /\ ResetStands'
    BY <1>5, <2>1, UntouchedInStep DEF SkipToKeyframe
  <2> QED
    BY <2>1, <2>2, UntouchedInStep DEF SettleInStep
<1>6. CASE ResetFails
  <2>1. Untouched /\ dpc' # "settle"
    BY <1>6 DEF ResetFails, Refuse
  <2>2. UsableInStep' /\ ResetStands'
    BY <1>6, <2>1, UntouchedInStep DEF ResetFails, Refuse
  <2> QED
    BY <2>1, <2>2, UntouchedInStep DEF SettleInStep
<1>7. CASE HdrMismatch
  <2>1. Untouched /\ dpc' # "settle"
    BY <1>7 DEF HdrMismatch
  <2>2. UsableInStep' /\ ResetStands'
    BY <1>7, <2>1, UntouchedInStep DEF HdrMismatch
  <2> QED
    BY <2>1, <2>2, UntouchedInStep DEF SettleInStep
<1>8. CASE EmptyUnit
  <2>1. Untouched /\ dpc' # "settle"
    BY <1>8 DEF EmptyUnit, Refuse
  <2>2. UsableInStep' /\ ResetStands'
    BY <1>8, <2>1, UntouchedInStep DEF EmptyUnit, Refuse
  <2> QED
    BY <2>1, <2>2, UntouchedInStep DEF SettleInStep
<1>9. CASE UnitNotCopied
  <2>1. Untouched /\ dpc' # "settle"
    BY <1>9 DEF UnitNotCopied, Refuse
  <2>2. UsableInStep' /\ ResetStands'
    BY <1>9, <2>1, UntouchedInStep DEF UnitNotCopied, Refuse
  <2> QED
    BY <2>1, <2>2, UntouchedInStep DEF SettleInStep
<1>10. CASE OfferUnit
  <2>1. Untouched /\ dpc' # "settle"
    BY <1>10 DEF OfferUnit
  <2>2. UsableInStep' /\ ResetStands'
    BY <1>10, <2>1, UntouchedInStep DEF OfferUnit
  <2> QED
    BY <2>1, <2>2, UntouchedInStep DEF SettleInStep
<1>11. CASE SettleRefuses
  <2>1. Untouched /\ dpc' # "settle"
    BY <1>11 DEF SettleRefuses, Refuse
  <2>2. UsableInStep' /\ ResetStands'
    BY <1>11, <2>1, UntouchedInStep DEF SettleRefuses, Refuse
  <2> QED
    BY <2>1, <2>2, UntouchedInStep DEF SettleInStep
<1>12. CASE UnitRefused
  <2>1. Untouched /\ dpc' # "settle"
    BY <1>12 DEF UnitRefused, Refuse
  <2>2. UsableInStep' /\ ResetStands'
    BY <1>12, <2>1, UntouchedInStep DEF UnitRefused, Refuse
  <2> QED
    BY <2>1, <2>2, UntouchedInStep DEF SettleInStep
<1>13. CASE UnitDone
  <2>1. Untouched /\ dpc' # "settle"
    BY <1>13 DEF UnitDone
  <2>2. UsableInStep' /\ ResetStands'
    BY <1>13, <2>1, UntouchedInStep DEF UnitDone
  <2> QED
    BY <2>1, <2>2, UntouchedInStep DEF SettleInStep
<1>14. CASE DrainStepDone
  <2>1. Untouched /\ dpc' # "settle"
    BY <1>14 DEF DrainStepDone
  <2>2. UsableInStep' /\ ResetStands'
    BY <1>14, <2>1, UntouchedInStep DEF DrainStepDone
  <2> QED
    BY <2>1, <2>2, UntouchedInStep DEF SettleInStep
<1>15. CASE CompleteNeedIdr
  <2>1. Untouched /\ dpc' # "settle"
    BY <1>15 DEF CompleteNeedIdr, ForgetCall
  <2>2. UsableInStep' /\ ResetStands'
    BY <1>15, <2>1, UntouchedInStep DEF CompleteNeedIdr, ForgetCall
  <2> QED
    BY <2>1, <2>2, UntouchedInStep DEF SettleInStep
<1>16. CASE CompleteOk
  <2>1. Untouched /\ dpc' # "settle"
    BY <1>16 DEF CompleteOk, ForgetCall
  <2>2. UsableInStep' /\ ResetStands'
    BY <1>16, <2>1, UntouchedInStep DEF CompleteOk, ForgetCall
  <2> QED
    BY <2>1, <2>2, UntouchedInStep DEF SettleInStep
<1>17. CASE DrainFlush
  <2>1. Untouched /\ dpc' # "settle"
    BY <1>17 DEF DrainFlush, DrainContinues
  <2>2. UsableInStep' /\ ResetStands'
    BY <1>17, <2>1, UntouchedInStep DEF DrainFlush, DrainContinues
  <2> QED
    BY <2>1, <2>2, UntouchedInStep DEF SettleInStep
<1>18. CASE DrainStarved
  <2>1. Untouched /\ dpc' # "settle"
    BY <1>18 DEF DrainStarved, ForgetCall, DrainContinues
  <2>2. UsableInStep' /\ ResetStands'
    BY <1>18, <2>1, UntouchedInStep DEF DrainStarved, ForgetCall, DrainContinues
  <2> QED
    BY <2>1, <2>2, UntouchedInStep DEF SettleInStep
<1>19. CASE DrainEnds
  <2>1. Untouched /\ dpc' # "settle"
    BY <1>19 DEF DrainEnds, ForgetCall
  <2>2. UsableInStep' /\ ResetStands'
    BY <1>19, <2>1, UntouchedInStep DEF DrainEnds, ForgetCall
  <2> QED
    BY <2>1, <2>2, UntouchedInStep DEF SettleInStep
<1>20. CASE FaultCheck
  <2>1. Untouched /\ dpc' # "settle"
    BY <1>20 DEF FaultCheck
  <2>2. UsableInStep' /\ ResetStands'
    BY <1>20, <2>1, UntouchedInStep DEF FaultCheck
  <2> QED
    BY <2>1, <2>2, UntouchedInStep DEF SettleInStep
<1> QED
  BY <1>1, <1>2, <1>3, <1>4, <1>5, <1>6, <1>7, <1>8, <1>9, <1>10, <1>11, <1>12, <1>13, <1>14,
     <1>15, <1>16, <1>17, <1>18, <1>19, <1>20

-----------------------------------------------------------------------------
(* The decode steps that do change the pool, the decoder or the            *)
(* submissions.                                                            *)

LEMMA AbandonedState ==
  ASSUME frames \in Pool, frames' = ReleaseDecoding(frames)
  PROVE  \A s \in Slots :
           /\ frames'.state[s] = IF frames.state[s] = "Decoding" THEN "Free" ELSE frames.state[s]
           /\ frames'.picture[s] = IF frames.state[s] = "Decoding" THEN NoFrame ELSE frames.picture[s]
BY ReleasedState DEF ReleaseDecoding, DecodingSlots

LEMMA PrepareUnitStep ==
  ASSUME Typed, DecoderInv, PrepareUnit
  PROVE  DecoderInv'
<1> USE DEF DecoderInv, UsableInStep, ResetStands, callVars, controlVars
<1>t. frames \in Pool /\ decoder \in Decoder
  BY DEF Typed, TypeOK, PoolOK, CodecOK
<1>1. dpc = "unit" /\ dpc' = "offer" /\ running /\ needsReset' = TRUE /\ UNCHANGED <<draining, running, mpc>>
  BY DEF PrepareUnit
<1>2. InStep' /\ KeptHidden'
  <2>1. CASE needsReset
    <3>1. frames' = ReleaseDecoding(frames) /\ decoder' = FreshDecoder /\ submissions' = <<>>
      BY <2>1 DEF PrepareUnit, AbandonPictures
    <3> QED
      BY <1>t, <3>1, AbandonedState DEF InStep, KeptHidden, FreshDecoder
  <2>2. CASE ~needsReset
    <3>1. Untouched
      BY <2>2 DEF PrepareUnit, Untouched
    <3> QED
      BY <1>1, <2>2, <3>1, UntouchedInStep
  <2> QED
    BY <2>1, <2>2
<1> QED
  BY <1>1, <1>2 DEF SettleInStep

LEMMA FallbackStep ==
  ASSUME Typed, DecoderInv, FallbackSucceeds \/ FallbackFails
  PROVE  DecoderInv'
<1> USE DEF DecoderInv, UsableInStep, ResetStands
<1>t. frames \in Pool /\ decoder \in Decoder
  BY DEF Typed, TypeOK, PoolOK, CodecOK
<1>1. /\ dpc = "fallback" /\ dpc' = "check" /\ ~draining' /\ UNCHANGED mpc
      /\ frames' = ReleaseDecoding(frames) /\ submissions' = <<>>
  BY DEF FallbackSucceeds, FallbackFails, Abandon, AbandonPictures, ForgetCall, controlVars
<1>2. decoder'.kept \in {decoder.kept, {}}
  BY <1>t DEF FallbackSucceeds, FallbackFails, FreshDecoder
<1>3. KeptHidden'
  <2>1. decoder.kept \subseteq Slots
    BY <1>t DEF Decoder
  <2> QED
    BY <1>t, <1>1, <1>2, <2>1, AbandonedState DEF KeptHidden
<1>4. CASE FallbackSucceeds
  <2>1. InStep'
    BY <1>t, <1>1, <1>4, AbandonedState DEF InStep, FallbackSucceeds, FreshDecoder
  <2> QED
    BY <1>1, <1>3, <2>1 DEF SettleInStep
<1>5. CASE FallbackFails
  <2>1. ~running'
    BY <1>5 DEF FallbackFails
  <2> QED
    BY <1>1, <1>3, <2>1 DEF SettleInStep
<1> QED
  BY <1>4, <1>5

LEMMA CallKeepsHidden ==
  ASSUME Typed, KeptHidden, InDecoderCall, NEW units, Returns(units) \/ CallFails(units)
  PROVE  /\ KeptHidden'
         /\ frames'.state = frames.state
         /\ \A s \in Slots : frames.state[s] \in {"Ready", "Presenting"}
                             => frames'.picture[s] = frames.picture[s]
<1>1. /\ offered \in Slots /\ frames.state[offered] = "Free"
      /\ frames \in Pool /\ decoder.kept \subseteq Slots
  BY DEF Typed, ControlOK, PoolInv, OfferedFree, TypeOK, PoolOK, CodecOK, Decoder
<1>2. frames'.state = frames.state
  BY ReturnsKeepsState
<1>3. decoder'.kept \subseteq decoder.kept \cup {offered}
  BY DEF Returns, CallFails, DecoderAfter
<1>4. KeptHidden'
  BY <1>1, <1>2, <1>3 DEF KeptHidden
<1>5. frames' = frames \/ \E s \in decoder.kept \cup {offered} : \E f : frames' = Written(s, f)
  BY DEF Returns, CallFails, Honest
<1>6. ASSUME NEW s \in Slots, frames.state[s] \in {"Ready", "Presenting"}
      PROVE  frames'.picture[s] = frames.picture[s]
  <2>1. s \notin decoder.kept \cup {offered}
    BY <1>1, <1>6 DEF KeptHidden
  <2>2. frames.picture \in [Slots -> Frames \cup {NoFrame}]
    BY <1>1 DEF Pool
  <2> QED
    BY <1>5, <2>1, <2>2 DEF Written
<1> QED
  BY <1>2, <1>4, <1>6

LEMMA CallFailsStep ==
  ASSUME Typed, DecoderInv, DecodeFails \/ DecodeNotQueued \/ FlushFails
  PROVE  DecoderInv'
<1> USE DEF DecoderInv, UsableInStep, ResetStands, controlVars
<1>1. InDecoderCall /\ UNCHANGED <<needsReset, draining, mpc>>
  BY DEF DecodeFails, DecodeNotQueued, FlushFails, InDecoderCall
<1>2. (dpc' = "needIdr" /\ needsReset /\ ~draining) \/ dpc' = "fallback"
  BY DEF DecodeFails, DecodeNotQueued, FlushFails, Refuse
<1>3. KeptHidden'
  BY <1>1, CallKeepsHidden DEF DecodeFails, DecodeNotQueued, FlushFails
<1>4. mpc # "setup"
  BY <1>1 DEF InDecoderCall
<1> QED
  BY <1>1, <1>2, <1>3, <1>4 DEF SettleInStep

\* A call that returns to a program in step with the decoder.
LEMMA CallSettles ==
  ASSUME Typed, DecoderInv, InDecoderCall, NEW units \in Seq(Submission), units # <<>>,
         Returns(units), submissions' = units, UNCHANGED offered,
         \A s \in Slots : frames.state[s] = "Decoding" => s \in decoder.kept
  PROVE  /\ output'.slot = NoSlot => InStep'
         /\ dpc' = "settle" => SettleInStep'
<1>1. PICK r \in Output :
        /\ output' = r
        /\ decoder' = DecoderAfter(units, r)
        /\ frames' = IF Honest(units, r) THEN Written(r.slot, Head(units).frame) ELSE frames
  BY DEF Returns
<1>2. /\ offered \in Slots /\ frames.state[offered] = "Free" /\ frames \in Pool
      /\ decoder.kept \subseteq Slots /\ frames.picture \in [Slots -> Frames \cup {NoFrame}]
  BY DEF Typed, ControlOK, PoolInv, OfferedFree, TypeOK, PoolOK, CodecOK, Decoder, Pool
<1>3. frames'.state = frames.state
  BY ReturnsKeepsState
<1>4. /\ decoder'.units = IF Honest(units, r) THEN Tail(units) ELSE units
      /\ decoder'.kept = (decoder.kept \ (IF Honest(units, r) THEN {r.slot} ELSE {}))
                           \cup (IF r.accepted /\ offered # r.slot THEN {offered} ELSE {})
  BY <1>1 DEF DecoderAfter
<1>5. ASSUME r.slot = NoSlot PROVE ~Honest(units, r)
  BY <1>2, <1>5 DEF Honest, Slots, NoSlot
<1>6. output'.slot = NoSlot => InStep'
  BY <1>1, <1>3, <1>4, <1>5 DEF InStep
<1>7. ASSUME r.slot # NoSlot, TrustedOutput' PROVE Honest(units, r)
  <2>1. r.slot \in Slots /\ r.good
    BY <1>1, <1>7 DEF Output, TrustedOutput
  <2>2. r.slot = offered \/ frames.state[r.slot] = "Decoding"
    BY <1>1, <1>3, <1>7 DEF TrustedOutput, Owned
  <2> QED
    BY <2>1, <2>2 DEF Honest
<1>8. SettleInStep'
  <2>1. output'.slot = NoSlot => submissions' = decoder'.units
    BY <1>1, <1>4, <1>5
  <2>2. ASSUME r.slot # NoSlot, TrustedOutput'
        PROVE  /\ Tail(submissions') = decoder'.units
               /\ frames'.picture[r.slot] = Head(submissions').frame
               /\ r.slot \notin decoder'.kept
    <3>1. Honest(units, r)
      BY <1>7, <2>2
    <3>2. frames'.picture = [frames.picture EXCEPT ![r.slot] = Head(units).frame]
      BY <1>1, <3>1 DEF Written
    <3>3. r.slot \in Slots
      BY <1>2, <3>1 DEF Honest
    <3> QED
      BY <1>2, <1>4, <3>1, <3>2, <3>3
  <2>3. r.accepted /\ offered # r.slot => offered \in decoder'.kept
    BY <1>4
  <2>4. \A s \in Slots \ {r.slot} : frames'.state[s] = "Decoding" => s \in decoder'.kept
    BY <1>3, <1>4
  <2> QED
    BY <1>1, <2>1, <2>2, <2>3, <2>4 DEF SettleInStep
<1> QED
  BY <1>6, <1>8

LEMMA CallReturnsStep ==
  ASSUME Typed, DecoderInv, FlagsOK, DecodeReturns \/ FlushReturns
  PROVE  DecoderInv'
<1>t. submissions \in Seq(Submission) /\ decoder.units \in Seq(Submission)
  BY DEF Typed, TypeOK, CodecOK, Decoder
<1>1. /\ InDecoderCall /\ mpc # "setup" /\ UNCHANGED <<needsReset, draining, mpc, offered>>
      /\ InStep
  BY DEF DecodeReturns, FlushReturns, InDecoderCall, DecoderInv, UsableInStep, codecVars,
     controlVars
<1>2. PICK units \in Seq(Submission) : units # <<>> /\ Returns(units) /\ submissions' = units
  <2>1. CASE DecodeReturns
    <3>1. unit \in Unit /\ CodecOK
      BY <2>1 DEF DecodeReturns, Typed, TypeOK, ControlOK
    <3>2. Append(decoder.units, UnitSubmission) \in Seq(Submission)
          /\ Append(decoder.units, UnitSubmission) # <<>>
      BY <1>t, <3>1, UnitSubmissionType, AppendProperties
    <3>3. submissions' = Append(decoder.units, UnitSubmission)
      BY <1>1, <2>1 DEF DecodeReturns, InStep
    <3> QED
      BY <2>1, <3>2, <3>3 DEF DecodeReturns
  <2>2. CASE FlushReturns
    <3>1. submissions # <<>>
      BY <2>2 DEF FlushReturns, DecoderInv, ResetStands
    <3>2. submissions' = submissions
      BY <2>2 DEF FlushReturns, queueVars
    <3> QED
      BY <1>t, <1>1, <2>2, <3>1, <3>2 DEF FlushReturns, InStep
  <2> QED
    BY <2>1, <2>2
<1>3. (output'.slot = NoSlot => InStep') /\ (dpc' = "settle" => SettleInStep')
  BY <1>1, <1>2, CallSettles DEF InStep
<1>4. KeptHidden'
  BY <1>1, <1>2, CallKeepsHidden DEF DecoderInv
<1>5. UsableInStep' /\ ResetStands'
  <2>1. CASE DecodeReturns
    <3>1. dpc = "decode" /\ dpc' = IF output'.slot = NoSlot /\ depth = 1 THEN "flush" ELSE "settle"
      BY <2>1 DEF DecodeReturns
    <3> QED
      BY <1>1, <1>2, <1>3, <3>1 DEF DecoderInv, UsableInStep, ResetStands
  <2>2. CASE FlushReturns
    <3>1. dpc \in {"flush", "drainFlush"} /\ dpc' \in {"settle", "fallback"} /\ (dpc' = "fallback" => draining)
      BY <2>2 DEF FlushReturns, Flushed
    <3> QED
      BY <1>1, <1>2, <1>3, <3>1 DEF DecoderInv, UsableInStep, ResetStands
  <2> QED
    BY <2>1, <2>2
<1>6. SettleInStep'
  BY <1>3 DEF SettleInStep
<1> QED
  BY <1>4, <1>5, <1>6 DEF DecoderInv

LEMMA AcceptedDecoding ==
  ASSUME Typed, DecoderInv, dpc = "settle"
  PROVE  \A s \in Slots \ {output.slot} : PoolAfterAccept.state[s] = "Decoding" => s \in decoder.kept
<1>1. frames \in Pool /\ offered \in Slots /\ frames.state \in [Slots -> SlotStates]
  BY PoolState DEF Typed, TypeOK, PoolOK, ControlOK
<1>2. CASE output.accepted /\ offered # output.slot
  <2>1. PoolAfterAccept = Mark(frames, offered, "Decoding")
    BY <1>2 DEF PoolAfterAccept
  <2>2. PoolAfterAccept.state = [frames.state EXCEPT ![offered] = "Decoding"]
    BY <1>1, <2>1, MarkedState
  <2> QED
    BY <1>1, <1>2, <2>2 DEF DecoderInv, SettleInStep
<1>3. CASE ~(output.accepted /\ offered # output.slot)
  <2>1. PoolAfterAccept = frames
    BY <1>3, Zenon DEF PoolAfterAccept
  <2> QED
    BY <2>1 DEF DecoderInv, SettleInStep
<1> QED
  BY <1>2, <1>3

LEMMA SettleStep ==
  ASSUME Typed, DecoderInv, SettleDelayed \/ SettlePicture
  PROVE  DecoderInv'
<1>1. /\ dpc = "settle" /\ dpc' = "settled" /\ mpc # "setup"
      /\ UNCHANGED <<needsReset, draining, mpc, decoder>>
  BY DEF SettleDelayed, SettlePicture, DecoderInv, UsableInStep, callVars, codecVars, controlVars
<1>2. decoder.kept \subseteq Slots
  BY DEF Typed, TypeOK, CodecOK, Decoder
<1>3. InStep' /\ KeptHidden'
  <2>1. CASE SettleDelayed
    <3>1. frames' = PoolAfterAccept /\ output.slot = NoSlot /\ submissions' = submissions
      BY <2>1 DEF SettleDelayed, queueVars
    <3>2. NoSlot \notin Slots
      BY DEF NoSlot, Slots
    <3>3. \A s \in Slots : frames'.state[s] = "Decoding" => s \in decoder.kept
      BY <1>1, <3>1, <3>2, AcceptedDecoding
    <3>4. KeptHidden'
      BY <1>1, <1>2, <3>1, AcceptedState DEF Typed, DecoderInv, KeptHidden
    <3> QED
      BY <1>1, <3>1, <3>3, <3>4 DEF InStep, DecoderInv, SettleInStep
  <2>2. CASE SettlePicture
    <3>1. /\ output.slot \notin decoder.kept
          /\ submissions' = decoder.units
      BY <1>1, <2>2 DEF SettlePicture, DecoderInv, SettleInStep
    <3>2. \A s \in Slots : frames'.state[s] = IF s = output.slot THEN "Ready"
                                              ELSE IF MailboxFull /\ s = Front THEN "Free"
                                              ELSE PoolAfterAccept.state[s]
      BY <2>2, SettlePictureFacts DEF Typed
    <3>3. \A s \in Slots : frames'.state[s] = "Decoding" => s \in decoder.kept
      BY <1>1, <3>2, AcceptedDecoding
    <3>4. KeptHidden'
      BY <1>1, <1>2, <3>1, <3>2, AcceptedState DEF Typed, DecoderInv, KeptHidden
    <3> QED
      BY <1>1, <3>1, <3>3, <3>4 DEF InStep
  <2> QED
    BY <2>1, <2>2
<1> QED
  BY <1>1, <1>3 DEF DecoderInv, UsableInStep, ResetStands, SettleInStep

-----------------------------------------------------------------------------
(* The presentation worker and the session, seen from the decoder.         *)

\* A step that leaves the decode worker, the decoder and their slots alone.
DecoderUndisturbed ==
  /\ UNCHANGED <<dpc, needsReset, draining, running, mpc, offered, output, submissions, decoder>>
  /\ \A s \in Slots :
       /\ frames'.state[s] = "Decoding" => frames.state[s] = "Decoding"
       /\ frames.state[s] \in {"Free", "Decoding"}
            => frames'.state[s] = frames.state[s] /\ frames'.picture[s] = frames.picture[s]

LEMMA PresentStepUndisturbed ==
  ASSUME Typed, PresentStep
  PROVE  DecoderUndisturbed
<1>1. UNCHANGED <<dpc, needsReset, draining, running, mpc, offered, output, submissions, decoder>>
  BY DEF PresentStep, TakePicture, StopWhileChoosing, StopWhileWaiting, SubmitPicture, SubmitFails,
         FlipCompletes, FlipTimesOut, decodeVars, callVars, codecVars, queueVars, controlVars
<1>2. frames \in Pool /\ mailbox \in Seq(Picture)
  BY DEF Typed, TypeOK, PoolOK
<1>3. CASE TakePicture
  <2>1. PICK k \in 1 .. Len(mailbox) :
          frames' = Mark(Release(frames, {mailbox[i].slot : i \in 1 .. k - 1}),
                         mailbox[k].slot, "Presenting")
    BY <1>3 DEF TakePicture, Takeable
  <2>2. \A i \in 1 .. Len(mailbox) : mailbox[i].slot \in Slots /\ frames.state[mailbox[i].slot] = "Ready"
    BY <1>2, MailboxSlots DEF Typed, PoolInv, ReadyWaits
  <2>3. \A i \in 1 .. k - 1 : i \in 1 .. Len(mailbox)
    BY <1>2, LenProperties
  <2> QED
    BY <1>1, <1>2, <2>1, <2>2, <2>3, TakenPool DEF DecoderUndisturbed
<1>4. CASE Holding /\ frames' = Release(frames, {current.slot})
  <2>1. current.slot \in Slots /\ frames.state[current.slot] = "Presenting"
    BY <1>4 DEF Typed, ControlOK, Picture, PoolInv, PresentingTaken
  <2> QED
    BY <1>1, <1>2, <1>4, <2>1, ReleasedState DEF DecoderUndisturbed
<1>5. CASE UNCHANGED frames
  BY <1>1, <1>5 DEF DecoderUndisturbed
<1> QED
  BY <1>3, <1>4, <1>5 DEF PresentStep, StopWhileChoosing, StopWhileWaiting, SubmitPicture,
     SubmitFails,
                          FlipCompletes, FlipTimesOut, Holding, poolVars

LEMMA UndisturbedStep ==
  ASSUME Typed, DecoderInv, DecoderUndisturbed
  PROVE  DecoderInv'
<1> USE DEF DecoderInv, DecoderUndisturbed
<1>1. decoder.kept \subseteq Slots
  BY DEF Typed, TypeOK, CodecOK, Decoder
<1>2. InStep => InStep'
  BY DEF InStep
<1>3. KeptHidden'
  BY <1>1 DEF KeptHidden
<1>4. UsableInStep' /\ ResetStands'
  BY <1>2 DEF UsableInStep, ResetStands
<1>5. SettleInStep'
  <2> SUFFICES ASSUME dpc = "settle" PROVE SettleInStep'
    BY DEF SettleInStep
  <2>1. offered \in Slots /\ frames.state[offered] = "Free" /\ output \in Output
    BY DEF Typed, TypeOK, CallOK, ControlOK, PoolInv, OfferedFree
  <2>2. output.slot \in Slots \/ output.slot = NoSlot
    BY <2>1 DEF Output
  <2>3. TrustedOutput' => TrustedOutput
    BY <2>1 DEF TrustedOutput, Owned
  <2>4. output.slot # NoSlot /\ TrustedOutput => frames'.picture[output.slot] = frames.picture[output.slot]
    BY <2>1, <2>2 DEF TrustedOutput, Owned
  <2> QED
    BY <2>3, <2>4 DEF SettleInStep
<1> QED
  BY <1>3, <1>4, <1>5

LEMMA SessionStepDecoder ==
  ASSUME Typed, DecoderInv, JoinStep \/ StopRenderer
  PROVE  DecoderInv'
<1> USE DEF DecoderInv, UsableInStep, ResetStands, SettleInStep, decodeVars, callVars, codecVars,
            queueVars, poolVars
<1>1. CASE StartWorkers
  <2>1. Untouched /\ mpc = "setup" /\ mpc' # "setup" /\ dpc' \in {"none", "top"} /\ UNCHANGED draining
    BY <1>1 DEF StartWorkers, Untouched
  <2> QED
    BY <2>1, UntouchedInStep
<1>2. CASE StopRenderer
  <2>1. /\ Untouched /\ mpc' # "setup"
        /\ UNCHANGED <<dpc, draining, needsReset, output, offered, frames, submissions, decoder>>
        /\ ~running'
    BY <1>2 DEF StopRenderer, Untouched
  <2> QED
    BY <2>1, UntouchedInStep DEF TrustedOutput, Owned
<1>3. CASE JoinDecode \/ JoinPresent
  <2>1. /\ Untouched /\ mpc' # "setup"
        /\ UNCHANGED <<dpc, draining, needsReset, output, offered, frames, submissions, decoder, running>>
    BY <1>3 DEF JoinDecode, JoinPresent, Untouched
  <2> QED
    BY <2>1, UntouchedInStep DEF TrustedOutput, Owned
<1>4. CASE TearDown
  <2>1. /\ mpc' # "setup" /\ decoder'.units = decoder.units /\ decoder'.kept = decoder.kept
        /\ UNCHANGED <<dpc, draining, needsReset, output, offered, frames, submissions, running>>
    <3>1. decoder \in Decoder
      BY DEF Typed, TypeOK, CodecOK
    <3> QED
      BY <1>4, <3>1 DEF TearDown, Decoder
  <2>2. (InStep' <=> InStep) /\ (KeptHidden' <=> KeptHidden)
    BY <2>1 DEF InStep, KeptHidden
  <2> QED
    BY <2>1, <2>2 DEF TrustedOutput, Owned
<1> QED
  BY <1>1, <1>2, <1>3, <1>4 DEF JoinStep

LEMMA DecoderInvStep == Typed /\ DecoderInv /\ [Next]_vars => DecoderInv'
<1> SUFFICES ASSUME Typed, DecoderInv, [Next]_vars PROVE DecoderInv'
  OBVIOUS
<1>1. CASE DecodeStep \/ FrameArrives
  <2>1. FlagsOK
    BY DEF Typed, TypeOK
  <2> QED
    BY <1>1, <2>1, QuietDecoderStep, PrepareUnitStep, FallbackStep, CallFailsStep, CallReturnsStep,
       SettleStep DEF DecodeStep
<1>2. CASE PresentStep
  BY <1>2, PresentStepUndisturbed, UndisturbedStep
<1>3. CASE JoinStep \/ StopRenderer
  BY <1>3, SessionStepDecoder
<1>4. CASE UNCHANGED vars
  <2>1. DecoderUndisturbed
    BY <1>4 DEF DecoderUndisturbed, vars, poolVars, decodeVars, callVars, codecVars, queueVars,
       controlVars
  <2> QED
    BY <2>1, UndisturbedStep
<1> QED
  BY <1>1, <1>2, <1>3, <1>4 DEF Next, SessionOver

LEMMA DecoderInvInit == Init => DecoderInv
BY DEF Init, DecoderInv, KeptHidden, UsableInStep, SettleInStep, ResetStands, InStep, FreshDecoder

-----------------------------------------------------------------------------
(* Every picture on its way to the screen is its own.                      *)

\* A step that changes nothing of what waits or is shown.
PicturesKept ==
  /\ UNCHANGED <<mailbox, presentVars>>
  /\ \A s \in Slots :
       frames.state[s] \in {"Ready", "Presenting"} => frames'.picture[s] = frames.picture[s]

LEMMA KeptIntact ==
  ASSUME Typed, PictureIntact, PicturesKept
  PROVE  PictureIntact'
<1>1. \A i \in 1 .. Len(mailbox) : mailbox[i].slot \in Slots /\ frames.state[mailbox[i].slot] = "Ready"
  BY MailboxSlots DEF Typed, TypeOK, PoolOK, PoolInv, ReadyWaits
<1>2. Holding => current.slot \in Slots /\ frames.state[current.slot] = "Presenting"
  BY DEF Typed, ControlOK, Picture, PoolInv, PresentingTaken
<1> QED
  BY <1>1, <1>2 DEF PicturesKept, PictureIntact, Holding, presentVars

LEMMA DecodePicturesKept ==
  ASSUME Typed, DecoderInv, DecodeStep \/ FrameArrives, ~SettlePicture
  PROVE  PicturesKept
<1>1. UNCHANGED <<mailbox, presentVars>>
  BY DecodeQuietStep DEF Typed, DecodeQuiet
<1>2. frames \in Pool
  BY DEF Typed, TypeOK, PoolOK
<1>3. CASE frames' = frames
  BY <1>1, <1>3 DEF PicturesKept
<1>4. CASE frames' = ReleaseDecoding(frames)
  BY <1>1, <1>2, <1>4, AbandonedState DEF PicturesKept
<1>5. CASE \E units : InDecoderCall /\ (Returns(units) \/ CallFails(units))
  BY <1>1, <1>5, CallKeepsHidden DEF PicturesKept, DecoderInv
<1>6. CASE dpc = "settle" /\ frames' = PoolAfterAccept
  BY <1>1, <1>6, AcceptedState DEF PicturesKept, Typed
<1>7. CASE \/ LoopTop \/ FrameArrives \/ WaitWoken \/ UnitWhileStopping \/ SkipToKeyframe
           \/ ResetFails \/ HdrMismatch \/ EmptyUnit \/ UnitNotCopied \/ OfferUnit
           \/ SettleRefuses \/ UnitRefused \/ UnitDone \/ DrainStepDone \/ CompleteNeedIdr
           \/ CompleteOk \/ DrainFlush \/ DrainStarved \/ DrainEnds \/ FaultCheck
  BY <1>3, <1>7, QuietDecoderStep DEF Untouched
<1>8. CASE PrepareUnit \/ FallbackSucceeds \/ FallbackFails
  BY <1>3, <1>4, <1>8 DEF PrepareUnit, FallbackSucceeds, FallbackFails, Abandon, AbandonPictures
<1>9. CASE DecodeReturns \/ FlushReturns \/ DecodeFails \/ DecodeNotQueued \/ FlushFails
  BY <1>5, <1>9 DEF DecodeReturns, FlushReturns, DecodeFails, DecodeNotQueued, FlushFails,
     InDecoderCall
<1>10. CASE SettleDelayed
  BY <1>6, <1>10 DEF SettleDelayed
<1> QED
  BY <1>7, <1>8, <1>9, <1>10 DEF DecodeStep

LEMMA SettlePictureIntact ==
  ASSUME Typed, DecoderInv, PictureIntact, SettlePicture
  PROVE  PictureIntact'
<1>f. TypeOK /\ ControlOK /\ PoolInv
  BY DEF Typed
<1>1. frames.picture[output.slot] = Head(submissions).frame
  BY DEF SettlePicture, DecoderInv, SettleInStep
<1>2. ASSUME NEW i \in 1 .. Len(Waiting)
      PROVE  frames'.picture[mailbox'[i].slot] = mailbox'[i].frame
  <2>1. /\ mailbox'[i] = Waiting[i] /\ Waiting[i].slot \in Slots
        /\ (MailboxFull => Waiting[i].slot # Front)
        /\ \E j \in 1 .. Len(mailbox) : Waiting[i] = mailbox[j]
    BY <1>f, SettlePictureFacts
  <2>2. frames'.picture[Waiting[i].slot] = frames.picture[Waiting[i].slot]
    BY <1>f, <2>1, SettlePictureFacts
  <2> QED
    BY <2>1, <2>2 DEF PictureIntact
<1>3. /\ mailbox'[Len(Waiting) + 1] = [slot |-> output.slot, frame |-> Head(submissions).frame]
      /\ output.slot \in Slots /\ Len(Waiting) \in Nat /\ Len(mailbox') = Len(Waiting) + 1
      /\ (MailboxFull => Front # output.slot)
      /\ frames'.picture[output.slot] = frames.picture[output.slot]
  BY <1>f, SettlePictureFacts
<1>4. \A i \in 1 .. Len(mailbox') : frames'.picture[mailbox'[i].slot] = mailbox'[i].frame
  BY <1>1, <1>2, <1>3
<1>5. Holding' => frames'.picture[current'.slot] = current'.frame
  <2>1. UNCHANGED <<ppc, current>>
    BY DEF SettlePicture, presentVars
  <2>2. ASSUME Holding PROVE frames'.picture[current.slot] = current.frame
    <3>1. current.slot \in Slots /\ frames.state[current.slot] = "Presenting"
      BY <1>f, <2>2 DEF ControlOK, Picture, PoolInv, PresentingTaken
    <3>2. ~(MailboxFull /\ current.slot = Front)
      BY <1>f, <3>1, SettlePictureFacts
    <3>3. frames'.picture[current.slot] = frames.picture[current.slot]
      BY <1>f, <3>1, <3>2, SettlePictureFacts
    <3> QED
      BY <2>2, <3>3 DEF PictureIntact
  <2> QED
    BY <2>1, <2>2 DEF Holding
<1> QED
  BY <1>4, <1>5 DEF PictureIntact

LEMMA PresentIntact ==
  ASSUME Typed, PictureIntact, PresentStep
  PROVE  PictureIntact'
<1>1. frames \in Pool /\ mailbox \in Seq(Picture) /\ Len(mailbox) \in Nat
  BY LenProperties DEF Typed, TypeOK, PoolOK
<1>2. /\ \A i \in 1 .. Len(mailbox) : mailbox[i].slot \in Slots /\ frames.state[mailbox[i].slot] = "Ready"
      /\ \A i, j \in 1 .. Len(mailbox) : mailbox[i].slot = mailbox[j].slot => i = j
  BY <1>1, MailboxSlots DEF Typed, PoolInv, ReadyWaits
<1>3. CASE TakePicture
  <2>1. PICK k \in 1 .. Len(mailbox) :
          /\ current' = mailbox[k]
          /\ mailbox' = SubSeq(mailbox, k + 1, Len(mailbox))
          /\ frames' = Mark(Release(frames, {mailbox[i].slot : i \in 1 .. k - 1}),
                            mailbox[k].slot, "Presenting")
    BY <1>3 DEF TakePicture, Takeable
  <2>2. ASSUME NEW j \in k .. Len(mailbox)
        PROVE  frames'.picture[mailbox[j].slot] = mailbox[j].frame
    <3>1. j \in 1 .. Len(mailbox) /\ mailbox[j].slot \in Slots
      BY <1>1, <1>2
    <3>2. mailbox[j].slot \notin {mailbox[i].slot : i \in 1 .. k - 1}
      BY <1>1, <1>2, <3>1
    <3>3. frames'.picture[mailbox[j].slot] = frames.picture[mailbox[j].slot]
      BY <1>1, <2>1, <3>1, <3>2, TakenPool
    <3> QED
      BY <3>1, <3>3 DEF PictureIntact
  <2>3. /\ Len(mailbox') = Len(mailbox) - k
        /\ \A i \in 1 .. Len(mailbox') : i + k \in k .. Len(mailbox) /\ mailbox'[i] = mailbox[i + k]
    BY <1>1, <2>1, SubSeqProperties
  <2>4. \A i \in 1 .. Len(mailbox') : frames'.picture[mailbox'[i].slot] = mailbox'[i].frame
    BY <2>2, <2>3
  <2>5. frames'.picture[current'.slot] = current'.frame
    BY <1>1, <2>1, <2>2
  <2> QED
    BY <2>4, <2>5 DEF PictureIntact
<1>4. CASE Holding /\ frames' = Release(frames, {current.slot}) /\ mailbox' = mailbox /\ ~Holding'
  <2>1. current.slot \in Slots /\ frames.state[current.slot] = "Presenting"
    BY <1>4 DEF Typed, ControlOK, Picture, PoolInv, PresentingTaken
  <2> QED
    BY <1>1, <1>2, <1>4, <2>1, ReleasedState DEF PictureIntact
<1>5. CASE UNCHANGED <<frames, mailbox, current>> /\ (Holding' => Holding)
  BY <1>5 DEF PictureIntact
<1> QED
  BY <1>3, <1>4, <1>5 DEF PresentStep, StopWhileChoosing, StopWhileWaiting, SubmitPicture,
     SubmitFails,
                          FlipCompletes, FlipTimesOut, Holding, poolVars

LEMMA SessionIntact ==
  ASSUME Typed, PictureIntact, JoinStep \/ StopRenderer \/ UNCHANGED vars
  PROVE  PictureIntact'
<1>1. UNCHANGED <<frames, mailbox, current>> /\ (Holding' => Holding)
  BY DEF JoinStep, StartWorkers, JoinDecode, JoinPresent, TearDown, StopRenderer, Holding, vars,
         poolVars, presentVars
<1> QED
  BY <1>1 DEF PictureIntact

LEMMA PictureIntactStep == Typed /\ DecoderInv /\ PictureIntact /\ [Next]_vars => PictureIntact'
<1> SUFFICES ASSUME Typed, DecoderInv, PictureIntact, [Next]_vars PROVE PictureIntact'
  OBVIOUS
<1>1. CASE SettlePicture
  BY <1>1, SettlePictureIntact
<1>2. CASE (DecodeStep \/ FrameArrives) /\ ~SettlePicture
  BY <1>2, DecodePicturesKept, KeptIntact
<1>3. CASE PresentStep
  BY <1>3, PresentIntact
<1>4. CASE JoinStep \/ StopRenderer \/ UNCHANGED vars
  BY <1>4, SessionIntact
<1> QED
  BY <1>1, <1>2, <1>3, <1>4 DEF Next, SessionOver

\* Everything the workers rely on holds in every reachable state: the types,
\* the owners of the slots and the step of the program with the decoder.
THEOREM PictureInvariant == Spec => []PictureInv
<1>1. Init => PoolInv /\ DecoderInv /\ PictureIntact
  BY PoolInvInit, DecoderInvInit DEF Init, PictureIntact, Holding
<1>2. TypeOK /\ ControlOK /\ PoolInv /\ DecoderInv /\ PictureIntact /\ [Next]_vars
        => PoolInv' /\ DecoderInv' /\ PictureIntact'
  BY PoolInvStep, DecoderInvStep, PictureIntactStep DEF Typed
<1>3. TypeOK /\ ControlOK /\ PoolInv /\ DecoderInv /\ PictureIntact => PictureInv
  BY DEF PictureInv
<1> QED
  BY <1>1, <1>2, <1>3, TypeInvariant, PTL DEF Spec

\* A picture that waits for the screen or is chosen for it is the one decoded
\* from the access unit whose number it carries, through refused units,
\* resets, drains and the fallback: submissions and decoder never lose step.
THEOREM PicturesIntact == Spec => []PictureIntact
<1>1. PictureInv => PictureIntact
  BY DEF PictureInv
<1> QED
  BY <1>1, PictureInvariant, PTL

\* The decoder never writes a slot that waits for the screen, is chosen for it
\* or is read by the GPU: through settle_decoder_call, every error path of
\* decode_access_unit, the drain, the reset and the fallback to depth one.
THEOREM SlotsNotShared == Spec => []NoSharedSlot
<1>1. PictureInv => NoSharedSlot
  <2> SUFFICES ASSUME PictureInv, NEW s \in DecoderWrites, s \in DisplayReads
               PROVE  FALSE
    BY DEF NoSharedSlot
  <2>1. frames.state[s] \in {"Free", "Decoding"}
    BY DEF PictureInv, DecoderWrites, DecoderInv, KeptHidden, PoolInv, OfferedFree
  <2>2. frames.state[s] \in {"Ready", "Presenting"}
    BY DEF PictureInv, DisplayReads, InMailbox, PoolInv, ReadyWaits, PresentingTaken, FlipTaken,
       Slots, NoSlot
  <2> QED
    BY <2>1, <2>2
<1> QED
  BY <1>1, PictureInvariant, PTL

\* Every slot has one owner and none is lost: SlotPool as both workers use it.
THEOREM SlotsSafe == Spec => []SlotsOK
<1>1. NoSlotLost /\ NoSharedSlot => SlotsOK
  BY DEF SlotsOK
<1> QED
  BY <1>1, SlotsAccounted, SlotsNotShared, PTL

-----------------------------------------------------------------------------
(* Drains, keyframes and the teardown.                                     *)

LEMMA DrainInit == Init => DrainInv
BY DEF Init, DrainInv, FreshDecoder

LEMMA LongTail ==
  ASSUME NEW S, NEW u \in Seq(S), Len(u) > 1
  PROVE  Tail(u) # <<>>
<1>1. u # <<>> /\ Len(u) \in Nat
  BY EmptySeq, LenProperties
<1>2. Tail(u) \in Seq(S) /\ Len(Tail(u)) = Len(u) - 1
  BY <1>1, HeadTailProperties
<1>3. Len(Tail(u)) # 0
  BY <1>1, <1>2
<1> QED
  BY <1>3, EmptySeq, Zenon

LEMMA DrainStep == PictureInv /\ DrainInv /\ [Next]_vars => DrainInv'
<1> SUFFICES ASSUME PictureInv, DrainInv, [Next]_vars PROVE DrainInv'
  OBVIOUS
<1> USE DEF DrainInv, vars, poolVars, decodeVars, callVars, codecVars, queueVars, presentVars,
    controlVars, hostVars
<1>f. FlagsOK /\ ResetStands /\ (mpc = "setup" => dpc = "none")
  BY DEF PictureInv, TypeOK, DecoderInv, UsableInStep
<1>1. CASE LoopTop
  BY <1>1 DEF LoopTop
<1>2. CASE FrameArrives
  BY <1>2 DEF FrameArrives
<1>3. CASE WaitWoken
  BY <1>3 DEF WaitWoken
<1>4. CASE UnitWhileStopping
  BY <1>4 DEF UnitWhileStopping
<1>5. CASE SkipToKeyframe
  BY <1>5 DEF SkipToKeyframe
<1>6. CASE ResetFails
  BY <1>6 DEF ResetFails, Refuse
<1>7. CASE PrepareUnit
  BY <1>7 DEF PrepareUnit, FreshDecoder, AbandonPictures
<1>8. CASE HdrMismatch
  BY <1>8 DEF HdrMismatch
<1>9. CASE EmptyUnit
  BY <1>9 DEF EmptyUnit, Refuse
<1>10. CASE UnitNotCopied
  BY <1>10 DEF UnitNotCopied, Refuse
<1>11. CASE OfferUnit
  BY <1>11 DEF OfferUnit
<1>12. CASE DecodeFails
  BY <1>12, <1>f DEF FlagsOK, ResetStands, DecodeFails, Refuse, CallFails
<1>13. CASE DecodeNotQueued
  BY <1>13, <1>f DEF FlagsOK, ResetStands, DecodeNotQueued, Refuse, Returns, DecoderAfter
<1>14. CASE DecodeReturns
  BY <1>14, <1>f DEF FlagsOK, ResetStands, DecodeReturns, Returns, DecoderAfter
<1>15. CASE FlushReturns
  <2>1. PICK r \in Output : decoder' = DecoderAfter(decoder.units, r)
    BY <1>15 DEF FlushReturns, Returns
  <2>2. decoder.units \in Seq(Submission)
    BY DEF PictureInv, TypeOK, CodecOK, Decoder
  <2>3. decoder'.midDrain => draining /\ decoder'.units # <<>>
    <3>1. decoder'.midDrain <=> draining /\ Honest(decoder.units, r) /\ Len(decoder.units) > 1
      BY <2>1, <1>f, Zenon DEF DecoderAfter
    <3>2. Honest(decoder.units, r) => decoder'.units = Tail(decoder.units)
      BY <2>1 DEF DecoderAfter
    <3>3. Len(decoder.units) > 1 => Tail(decoder.units) # <<>>
      BY <2>2, LongTail
    <3> QED
      BY <3>1, <3>2, <3>3
  <2> QED
    BY <1>15, <1>f, <2>3 DEF FlushReturns, Flushed, FlagsOK, ResetStands
<1>16. CASE FlushFails
  BY <1>16 DEF FlushFails, Refuse, CallFails
<1>17. CASE SettleRefuses
  BY <1>17 DEF SettleRefuses, Refuse
<1>18. CASE SettleDelayed
  BY <1>18 DEF SettleDelayed
<1>19. CASE SettlePicture
  BY <1>19 DEF SettlePicture
<1>20. CASE UnitRefused
  BY <1>20 DEF UnitRefused, Refuse
<1>21. CASE UnitDone
  BY <1>21 DEF UnitDone
<1>22. CASE DrainStepDone
  BY <1>22, <1>f DEF FlagsOK, ResetStands, DrainStepDone
<1>23. CASE CompleteNeedIdr
  BY <1>23, <1>f DEF FlagsOK, ResetStands, CompleteNeedIdr, ForgetCall
<1>24. CASE CompleteOk
  BY <1>24, <1>f DEF FlagsOK, ResetStands, CompleteOk, ForgetCall
<1>25. CASE DrainFlush
  BY <1>25 DEF DrainFlush, DrainContinues
<1>26. CASE DrainStarved
  BY <1>26 DEF DrainStarved, DrainContinues, ForgetCall
<1>27. CASE DrainEnds
  <2>1. draining => submissions = decoder.units
    BY <1>27, <1>f DEF DrainEnds, PictureInv, DecoderInv, UsableInStep, InStep, FlagsOK
  <2> QED
    BY <1>27, <1>f, <2>1 DEF DrainEnds, DrainContinues, ForgetCall, FlagsOK
<1>28. CASE FaultCheck
  BY <1>28 DEF FaultCheck
<1>29. CASE FallbackSucceeds
  BY <1>29 DEF FallbackSucceeds, Abandon, AbandonPictures, ForgetCall, FreshDecoder
<1>30. CASE FallbackFails
  BY <1>30 DEF FallbackFails, Abandon, AbandonPictures, ForgetCall, FreshDecoder
<1>31. CASE StartWorkers
  BY <1>31 DEF StartWorkers
<1>32. CASE StopRenderer
  BY <1>32 DEF StopRenderer
<1>33. CASE JoinDecode
  BY <1>33 DEF JoinDecode
<1>34. CASE JoinPresent
  BY <1>34 DEF JoinPresent
<1>35. CASE TearDown
  BY <1>35 DEF TearDown, MayRelease
<1>36. CASE PresentStep
  BY <1>36 DEF PresentStep, TakePicture, StopWhileChoosing, StopWhileWaiting, SubmitPicture,
              SubmitFails, FlipCompletes, FlipTimesOut
<1>37. CASE UNCHANGED vars
  BY <1>37
<1> QED
  BY <1>1, <1>2, <1>3, <1>4, <1>5, <1>6, <1>7, <1>8, <1>9, <1>10, <1>11, <1>12, <1>13, <1>14,
     <1>15, <1>16, <1>17, <1>18, <1>19, <1>20, <1>21, <1>22, <1>23, <1>24, <1>25, <1>26, <1>27,
     <1>28, <1>29, <1>30, <1>31, <1>32, <1>33, <1>34, <1>35, <1>36, <1>37
     DEF Next, DecodeStep, JoinStep, SessionOver

LEMMA KeyframeStep == PictureInv /\ KeyframeInv /\ [Next]_vars => KeyframeInv'
<1> SUFFICES ASSUME PictureInv, KeyframeInv, [Next]_vars PROVE KeyframeInv'
  OBVIOUS
<1> USE DEF KeyframeInv, vars, poolVars, decodeVars, callVars, codecVars, queueVars, presentVars,
    controlVars, hostVars, Bare
<1>f. FlagsOK /\ ResetStands /\ (mpc = "setup" => dpc = "none")
  BY DEF PictureInv, TypeOK, DecoderInv, UsableInStep
<1>1. CASE LoopTop
  BY <1>1 DEF LoopTop
<1>2. CASE FrameArrives
  <2>1. PICK idr \in BOOLEAN, form \in {"good", "empty", "torn", "hdr"} :
          /\ keyframeOwed => idr
          /\ unit' = [frame |-> nextFrame, idr |-> idr, form |-> form]
    BY <1>2 DEF FrameArrives
  <2>2. unit'.idr = idr
    BY <2>1
  <2> QED
    BY <1>2, <1>f, <2>1, <2>2 DEF FrameArrives, FlagsOK
<1>3. CASE WaitWoken
  BY <1>3 DEF WaitWoken
<1>4. CASE UnitWhileStopping
  BY <1>4 DEF UnitWhileStopping
<1>5. CASE SkipToKeyframe
  BY <1>5 DEF SkipToKeyframe
<1>6. CASE ResetFails
  BY <1>6 DEF ResetFails, Refuse
<1>7. CASE PrepareUnit
  BY <1>7 DEF PrepareUnit, FreshDecoder, AbandonPictures
<1>8. CASE HdrMismatch
  BY <1>8 DEF HdrMismatch
<1>9. CASE EmptyUnit
  BY <1>9 DEF EmptyUnit, Refuse
<1>10. CASE UnitNotCopied
  BY <1>10 DEF UnitNotCopied, Refuse
<1>11. CASE OfferUnit
  BY <1>11 DEF OfferUnit
<1>12. CASE DecodeFails
  BY <1>12 DEF DecodeFails, Refuse, CallFails
<1>13. CASE DecodeNotQueued
  BY <1>13 DEF DecodeNotQueued, Refuse, Returns, DecoderAfter
<1>14. CASE DecodeReturns
  BY <1>14 DEF DecodeReturns, Returns, DecoderAfter
<1>15. CASE FlushReturns
  BY <1>15 DEF FlushReturns, Returns, DecoderAfter, Honest, Flushed
<1>16. CASE FlushFails
  BY <1>16 DEF FlushFails, Refuse, CallFails
<1>17. CASE SettleRefuses
  BY <1>17 DEF SettleRefuses, Refuse
<1>18. CASE SettleDelayed
  BY <1>18 DEF SettleDelayed
<1>19. CASE SettlePicture
  BY <1>19 DEF SettlePicture
<1>20. CASE UnitRefused
  BY <1>20 DEF UnitRefused, Refuse
<1>21. CASE UnitDone
  BY <1>21 DEF UnitDone
<1>22. CASE DrainStepDone
  BY <1>22, <1>f DEF FlagsOK, ResetStands, DrainStepDone
<1>23. CASE CompleteNeedIdr
  BY <1>23 DEF CompleteNeedIdr, ForgetCall
<1>24. CASE CompleteOk
  BY <1>24 DEF CompleteOk, ForgetCall
<1>25. CASE DrainFlush
  BY <1>25 DEF DrainFlush, DrainContinues
<1>26. CASE DrainStarved
  BY <1>26 DEF DrainStarved, DrainContinues, ForgetCall
<1>27. CASE DrainEnds
  BY <1>27 DEF DrainEnds, DrainContinues, ForgetCall
<1>28. CASE FaultCheck
  BY <1>28 DEF FaultCheck
<1>29. CASE FallbackSucceeds
  BY <1>29 DEF FallbackSucceeds, Abandon, AbandonPictures, ForgetCall, FreshDecoder
<1>30. CASE FallbackFails
  BY <1>30 DEF FallbackFails, Abandon, AbandonPictures, ForgetCall, FreshDecoder
<1>31. CASE StartWorkers
  BY <1>31 DEF StartWorkers
<1>32. CASE StopRenderer
  BY <1>32 DEF StopRenderer
<1>33. CASE JoinDecode
  BY <1>33 DEF JoinDecode
<1>34. CASE JoinPresent
  BY <1>34 DEF JoinPresent
<1>35. CASE TearDown
  BY <1>35 DEF TearDown, MayRelease
<1>36. CASE PresentStep
  BY <1>36 DEF PresentStep, TakePicture, StopWhileChoosing, StopWhileWaiting, SubmitPicture,
              SubmitFails, FlipCompletes, FlipTimesOut
<1>37. CASE UNCHANGED vars
  BY <1>37
<1> QED
  BY <1>1, <1>2, <1>3, <1>4, <1>5, <1>6, <1>7, <1>8, <1>9, <1>10, <1>11, <1>12, <1>13, <1>14,
     <1>15, <1>16, <1>17, <1>18, <1>19, <1>20, <1>21, <1>22, <1>23, <1>24, <1>25, <1>26, <1>27,
     <1>28, <1>29, <1>30, <1>31, <1>32, <1>33, <1>34, <1>35, <1>36, <1>37
     DEF Next, DecodeStep, JoinStep, SessionOver

LEMMA TeardownStep == PictureInv /\ TeardownInv /\ [Next]_vars => TeardownInv'
<1> SUFFICES ASSUME PictureInv, TeardownInv, [Next]_vars PROVE TeardownInv'
  OBVIOUS
<1> USE DEF TeardownInv, vars, poolVars, decodeVars, callVars, codecVars, queueVars, presentVars,
    controlVars, hostVars
<1>1. CASE LoopTop
  BY <1>1 DEF LoopTop
<1>2. CASE FrameArrives
  BY <1>2 DEF FrameArrives
<1>3. CASE WaitWoken
  BY <1>3 DEF WaitWoken
<1>4. CASE UnitWhileStopping
  BY <1>4 DEF UnitWhileStopping
<1>5. CASE SkipToKeyframe
  BY <1>5 DEF SkipToKeyframe
<1>6. CASE ResetFails
  BY <1>6 DEF ResetFails, Refuse
<1>7. CASE PrepareUnit
  BY <1>7 DEF PrepareUnit, FreshDecoder, AbandonPictures
<1>8. CASE HdrMismatch
  BY <1>8 DEF HdrMismatch
<1>9. CASE EmptyUnit
  BY <1>9 DEF EmptyUnit, Refuse
<1>10. CASE UnitNotCopied
  BY <1>10 DEF UnitNotCopied, Refuse
<1>11. CASE OfferUnit
  BY <1>11 DEF OfferUnit
<1>12. CASE DecodeFails
  BY <1>12 DEF DecodeFails, Refuse, CallFails
<1>13. CASE DecodeNotQueued
  BY <1>13 DEF DecodeNotQueued, Refuse, Returns, DecoderAfter
<1>14. CASE DecodeReturns
  BY <1>14 DEF DecodeReturns, Returns, DecoderAfter
<1>15. CASE FlushReturns
  BY <1>15 DEF FlushReturns, Returns, DecoderAfter, Honest, Flushed
<1>16. CASE FlushFails
  BY <1>16 DEF FlushFails, Refuse, CallFails
<1>17. CASE SettleRefuses
  BY <1>17 DEF SettleRefuses, Refuse
<1>18. CASE SettleDelayed
  BY <1>18 DEF SettleDelayed
<1>19. CASE SettlePicture
  BY <1>19 DEF SettlePicture
<1>20. CASE UnitRefused
  BY <1>20 DEF UnitRefused, Refuse
<1>21. CASE UnitDone
  BY <1>21 DEF UnitDone
<1>22. CASE DrainStepDone
  BY <1>22 DEF DrainStepDone
<1>23. CASE CompleteNeedIdr
  BY <1>23 DEF CompleteNeedIdr, ForgetCall
<1>24. CASE CompleteOk
  BY <1>24 DEF CompleteOk, ForgetCall
<1>25. CASE DrainFlush
  BY <1>25 DEF DrainFlush, DrainContinues
<1>26. CASE DrainStarved
  BY <1>26 DEF DrainStarved, DrainContinues, ForgetCall
<1>27. CASE DrainEnds
  BY <1>27 DEF DrainEnds, DrainContinues, ForgetCall
<1>28. CASE FaultCheck
  BY <1>28 DEF FaultCheck
<1>29. CASE FallbackSucceeds
  BY <1>29 DEF FallbackSucceeds, Abandon, AbandonPictures, ForgetCall, FreshDecoder
<1>30. CASE FallbackFails
  BY <1>30 DEF FallbackFails, Abandon, AbandonPictures, ForgetCall, FreshDecoder
<1>31. CASE StartWorkers
  BY <1>31 DEF StartWorkers
<1>32. CASE StopRenderer
  BY <1>32 DEF StopRenderer
<1>33. CASE JoinDecode
  BY <1>33 DEF JoinDecode
<1>34. CASE JoinPresent
  BY <1>34 DEF JoinPresent
<1>35. CASE TearDown
  BY <1>35 DEF TearDown, MayRelease
<1>36. CASE PresentStep
  <2>1. ppc \in {"none", "exited"} \/ mpc # "released"
    BY DEF PictureInv, ControlOK
  <2> QED
    BY <1>36, <2>1 DEF PresentStep, TakePicture, StopWhileChoosing, StopWhileWaiting, SubmitPicture,
                     SubmitFails, FlipCompletes, FlipTimesOut
<1>37. CASE UNCHANGED vars
  BY <1>37
<1> QED
  BY <1>1, <1>2, <1>3, <1>4, <1>5, <1>6, <1>7, <1>8, <1>9, <1>10, <1>11, <1>12, <1>13, <1>14,
     <1>15, <1>16, <1>17, <1>18, <1>19, <1>20, <1>21, <1>22, <1>23, <1>24, <1>25, <1>26, <1>27,
     <1>28, <1>29, <1>30, <1>31, <1>32, <1>33, <1>34, <1>35, <1>36, <1>37
     DEF Next, DecodeStep, JoinStep, SessionOver

LEMMA KeyframeInit == Init => KeyframeInv
BY DEF Init, KeyframeInv

LEMMA TeardownInit == Init => TeardownInv
BY DEF Init, TeardownInv

\* Videodec2 is never given a unit between two flushes of one drain: not by a
\* unit that arrives, a stop, a starved pool, an error or the fallback.
THEOREM DrainsWhole == Spec => []NoDecodeInsideDrain
<1>1. PictureInv /\ DrainInv => NoDecodeInsideDrain
  BY DEF PictureInv, TypeOK, DecoderInv, ResetStands, FlagsOK, DrainInv, NoDecodeInsideDrain
<1> QED
  BY <1>1, DrainInit, DrainStep, PictureInvariant, PTL DEF Spec

\* A decoder that was created, reset or rebuilt is given a keyframe first,
\* whatever was refused, dropped or abandoned before.
THEOREM KeyframeFirst == Spec => []KeyframeAfterReset
<1>1. KeyframeInv => KeyframeAfterReset
  BY DEF KeyframeInv, KeyframeAfterReset
<1> QED
  BY <1>1, KeyframeInit, KeyframeStep, PictureInvariant, PTL DEF Spec

\* Frame memory is freed only when the last flip was retired, the decoder is
\* gone and neither worker runs.
THEOREM ReleasedIdle == Spec => []ReleasedMemoryIdle
<1>1. PictureInv /\ TeardownInv => ReleasedMemoryIdle
  BY DEF PictureInv, ControlOK, TeardownInv, ReleasedMemoryIdle, InDecoderCall, Holding
<1> QED
  BY <1>1, TeardownInit, TeardownStep, PictureInvariant, PTL DEF Spec

-----------------------------------------------------------------------------
(* A frame slot for every call and an idle input slot for every copy.      *)

\* How many elements at most a set of so many named ones has.
LEMMA FewElements ==
  ASSUME NEW S, IsFiniteSet(S), Cardinality(S) \in Nat, NEW x
  PROVE  /\ IsFiniteSet(S \cup {x}) /\ Cardinality(S \cup {x}) \in Nat
         /\ Cardinality(S \cup {x}) <= Cardinality(S) + 1
BY FS_AddElement, FS_CardinalityType

\* Counting the slots that may not be handed out: those of the decoder, the
\* ready ones, the one on the screen, and the newest picture's.
LEMMA RoomLeft ==
  ASSUME Typed, Roomy, NewestWaits, Len(submissions) <= depth,
         Cardinality(DecodingSlots(frames)) <= Len(submissions)
  PROVE  Available(frames) # {}
<1> DEFINE inside == DecodingSlots(frames)
           newest == IF mailbox = <<>> THEN frames.last ELSE mailbox[Len(mailbox)].slot
           oldest == mailbox[1].slot
<1>t. /\ frames \in Pool /\ mailbox \in Seq(Picture) /\ Len(mailbox) \in Nat
      /\ Len(mailbox) <= Capacity /\ Capacity \in {1, 2} /\ SlotCount \in Nat
      /\ depth \in Nat /\ RequestedDepth \in Nat /\ depth <= RequestedDepth
      /\ submissions \in Seq(Submission) /\ Len(submissions) \in Nat
  BY SizesAssumption, LenProperties DEF Typed, TypeOK, PoolOK, CodecOK
<1>1. SUFFICES ASSUME Available(frames) = {} PROVE FALSE
  OBVIOUS
<1>2. \A s \in Slots : frames.state[s] = "Free" => s = newest
  BY <1>1 DEF Available, FreeSlots, NewestWaits
<1>3. \A s \in Slots : frames.state[s] = "Ready" => s = newest \/ (Capacity = 2 /\ s = oldest)
  <2>1. ASSUME NEW s \in Slots, frames.state[s] = "Ready"
        PROVE  s = newest \/ (Capacity = 2 /\ s = oldest)
    <3>1. PICK i \in 1 .. Len(mailbox) : mailbox[i].slot = s
      BY <2>1 DEF Typed, PoolInv, ReadyWaits, InMailbox
    <3>2. mailbox # <<>>
      BY <1>t, <3>1, EmptySeq
    <3>3. i = Len(mailbox) \/ (Capacity = 2 /\ i = 1)
      BY <1>t, <3>1
    <3> QED
      BY <3>1, <3>2, <3>3
  <2> QED
    BY <2>1
<1>4. \A s \in Slots : frames.state[s] = "Presenting" => s = current.slot
  BY DEF Typed, PoolInv, PresentingTaken
<1>5. \A s \in Slots : frames.state[s] \in SlotStates
  BY <1>t, PoolState
<1> DEFINE taken == (inside \cup {current.slot}) \cup {newest}
<1>6. IsFiniteSet(inside) /\ Cardinality(inside) \in Nat /\ inside \subseteq Slots
  BY SlotsFinite, DecodingType
<1>7. /\ IsFiniteSet(taken) /\ Cardinality(taken) \in Nat
      /\ Cardinality(taken) <= Cardinality(inside) + 2
  <2> HIDE DEF inside, newest
  <2>1. /\ IsFiniteSet(inside \cup {current.slot}) /\ Cardinality(inside \cup {current.slot}) \in Nat
        /\ Cardinality(inside \cup {current.slot}) <= Cardinality(inside) + 1
    BY <1>6, FewElements
  <2>2. /\ IsFiniteSet(taken) /\ Cardinality(taken) \in Nat
        /\ Cardinality(taken) <= Cardinality(inside \cup {current.slot}) + 1
    BY <2>1, FewElements
  <2> QED
    BY <1>6, <2>1, <2>2
<1>8. IsFiniteSet(Slots) /\ Cardinality(Slots) = SlotCount
  <2>1. SlotCount \in Nat \ {0} /\ 0 \in Int /\ SlotCount - 1 \in Int
    BY SizesAssumption
  <2>2. /\ IsFiniteSet(0 .. SlotCount - 1)
        /\ Cardinality(0 .. SlotCount - 1) = IF 0 > SlotCount - 1 THEN 0 ELSE SlotCount - 1 - 0 + 1
    BY <2>1, FS_Interval
  <2> QED
    BY <2>1, <2>2 DEF Slots
<1>9. CASE Capacity = 1
  <2>1. Slots \subseteq taken
    BY <1>2, <1>3, <1>4, <1>5, <1>9 DEF DecodingSlots, SlotStates
  <2>2. Cardinality(Slots) <= Cardinality(taken)
    BY <1>7, <2>1, FS_Subset
  <2> HIDE DEF taken, inside
  <2>3. Cardinality(taken) <= depth + 2
    BY <1>t, <1>6, <1>7 DEF inside
  <2> QED
    BY <1>t, <1>7, <1>8, <1>9, <2>2, <2>3 DEF Roomy
<1>10. CASE Capacity = 2
  <2>1. Slots \subseteq taken \cup {oldest}
    BY <1>2, <1>3, <1>4, <1>5 DEF DecodingSlots, SlotStates
  <2> HIDE DEF taken, inside, oldest
  <2>2. /\ IsFiniteSet(taken \cup {oldest}) /\ Cardinality(taken \cup {oldest}) \in Nat
        /\ Cardinality(taken \cup {oldest}) <= Cardinality(taken) + 1
    BY <1>7, FewElements
  <2>3. Cardinality(Slots) <= Cardinality(taken \cup {oldest})
    BY <2>1, <2>2, FS_Subset
  <2>4. Cardinality(taken) <= depth + 2
    BY <1>t, <1>6, <1>7 DEF inside
  <2> QED
    BY <1>t, <1>7, <1>8, <1>10, <2>2, <2>3, <2>4 DEF Roomy
<1> QED
  BY <1>t, <1>9, <1>10

\* One step around the ring of input slots.
LEMMA NextBehind ==
  ASSUME InputSlotCount \in Nat \ {0}, NEW a \in 0 .. InputSlotCount - 1,
         NEW k \in Nat, k < InputSlotCount
  PROVE  Behind((a + 1) % InputSlotCount, k + 1) = Behind(a, k)
<1>1. (a + 1) % InputSlotCount = IF a + 1 = InputSlotCount THEN 0 ELSE a + 1
  OBVIOUS
<1>2. CASE a + 1 = InputSlotCount
  <2>1. (a + 1) % InputSlotCount = 0
    BY <1>1, <1>2
  <2> QED
    BY <1>2, <2>1 DEF Behind
<1>3. CASE a + 1 # InputSlotCount
  <2>1. (a + 1) % InputSlotCount = a + 1
    BY <1>1, <1>3
  <2> QED
    BY <1>3, <2>1 DEF Behind
<1> QED
  BY <1>2, <1>3

LEMMA BehindOne ==
  ASSUME InputSlotCount \in Nat \ {0}, NEW a \in 0 .. InputSlotCount - 1
  PROVE  Behind(a, 1) = (a + InputSlotCount - 1) % InputSlotCount
<1>1. (a + InputSlotCount - 1) % InputSlotCount = IF a = 0 THEN InputSlotCount - 1 ELSE a - 1
  OBVIOUS
<1> QED
  BY <1>1 DEF Behind

LEMMA BehindElsewhere ==
  ASSUME InputSlotCount \in Nat \ {0}, NEW a \in 0 .. InputSlotCount - 1,
         NEW k \in Nat \ {0}, k < InputSlotCount
  PROVE  Behind(a, k) # a
BY DEF Behind

-----------------------------------------------------------------------------

LEMMA NewestStep == Typed /\ NewestWaits /\ [Next]_vars => NewestWaits'
<1> SUFFICES ASSUME Typed, NewestWaits, [Next]_vars PROVE NewestWaits'
  OBVIOUS
<1>t. /\ frames \in Pool /\ mailbox \in Seq(Picture) /\ Len(mailbox) \in Nat
  BY LenProperties DEF Typed, TypeOK, PoolOK
<1>1. CASE SettlePicture
  <2>1. /\ mailbox'[Len(mailbox')].slot = output.slot
    <3>1. /\ Len(mailbox') = Len(Waiting) + 1
          /\ mailbox'[Len(Waiting) + 1] = [slot |-> output.slot, frame |-> Head(submissions).frame]
      BY <1>1, SettlePictureFacts DEF Typed
    <3> QED
      BY <3>1
  <2>2. frames'.last = output.slot
    BY <1>1 DEF SettlePicture, Displaced, Published, Release
  <2> QED
    BY <2>1, <2>2 DEF NewestWaits
<1>2. CASE TakePicture
  <2>1. PICK k \in 1 .. Len(mailbox) :
          /\ mailbox' = SubSeq(mailbox, k + 1, Len(mailbox))
          /\ frames' = Mark(Release(frames, {mailbox[i].slot : i \in 1 .. k - 1}),
                            mailbox[k].slot, "Presenting")
    BY <1>2 DEF TakePicture, Takeable
  <2>2. frames'.last = frames.last
    BY <2>1 DEF Mark, Release
  <2>3. /\ Len(mailbox') = Len(mailbox) - k
        /\ \A i \in 1 .. Len(mailbox') : mailbox'[i] = mailbox[i + k]
    BY <1>t, <2>1, SubSeqProperties
  <2>4. mailbox' # <<>> => Len(mailbox') \in 1 .. Len(mailbox')
    <3>1. mailbox' \in Seq(Picture)
      BY <1>t, <2>1, SubSeqProperties
    <3> QED
      BY <3>1, EmptySeq, LenProperties
  <2>5. ASSUME mailbox' # <<>> PROVE mailbox'[Len(mailbox')].slot = frames.last
    <3>1. mailbox'[Len(mailbox')] = mailbox[Len(mailbox)]
      BY <1>t, <2>3, <2>4, <2>5
    <3>2. mailbox # <<>>
      BY <1>t, <2>1, EmptySeq
    <3> QED
      BY <3>1, <3>2 DEF NewestWaits
  <2> QED
    BY <2>2, <2>5 DEF NewestWaits
<1>3. CASE UNCHANGED mailbox /\ frames'.last = frames.last
  BY <1>3 DEF NewestWaits
<1>4. ASSUME DecodeStep, ~SettlePicture PROVE UNCHANGED mailbox /\ frames'.last = frames.last
  <2>1. UNCHANGED mailbox
    BY <1>4 DEF DecodeStep, LoopTop, WaitWoken, UnitWhileStopping, SkipToKeyframe, ResetFails,
       PrepareUnit,
       HdrMismatch, EmptyUnit, UnitNotCopied, OfferUnit, DecodeFails, DecodeNotQueued, DecodeReturns,
       FlushReturns, FlushFails, SettleRefuses, SettleDelayed, UnitRefused, UnitDone, DrainStepDone,
       CompleteNeedIdr, CompleteOk, DrainFlush, DrainStarved, DrainEnds, FaultCheck, FallbackSucceeds,
       FallbackFails, poolVars
  <2>2. CASE UNCHANGED frames
    BY <2>1, <2>2
  <2>3. CASE frames' = ReleaseDecoding(frames)
    BY <2>1, <2>3 DEF ReleaseDecoding, Release
  <2>4. CASE \E units : Returns(units) \/ CallFails(units)
    BY <2>1, <2>4 DEF Returns, CallFails, Written
  <2>5. CASE frames' = PoolAfterAccept
    <3>1. PoolAfterAccept.last = frames.last
      BY DEF PoolAfterAccept, Mark
    <3> QED
      BY <2>1, <2>5, <3>1
  <2> QED
    BY <1>4, <2>2, <2>3, <2>4, <2>5 DEF DecodeStep, LoopTop, WaitWoken, UnitWhileStopping,
       SkipToKeyframe, ResetFails, PrepareUnit,
       HdrMismatch, EmptyUnit, UnitNotCopied, OfferUnit, DecodeFails, DecodeNotQueued, DecodeReturns,
       FlushReturns, FlushFails, SettleRefuses, SettleDelayed, UnitRefused, UnitDone, DrainStepDone,
       CompleteNeedIdr, CompleteOk, DrainFlush, DrainStarved, DrainEnds, FaultCheck, FallbackSucceeds,
       FallbackFails, poolVars, Abandon, AbandonPictures
<1>5. ASSUME PresentStep, ~TakePicture PROVE UNCHANGED mailbox /\ frames'.last = frames.last
  <2>1. UNCHANGED mailbox /\ (UNCHANGED frames \/ frames' = Release(frames, {current.slot}))
    BY <1>5 DEF PresentStep, StopWhileChoosing, StopWhileWaiting, SubmitPicture, SubmitFails,
                FlipCompletes, FlipTimesOut, poolVars
  <2> QED
    BY <2>1 DEF Release
<1>6. ASSUME FrameArrives \/ JoinStep \/ StopRenderer \/ UNCHANGED vars PROVE UNCHANGED <<mailbox, frames>>
  BY <1>6 DEF FrameArrives, JoinStep, StartWorkers, JoinDecode, JoinPresent, TearDown,
     StopRenderer, vars,
              poolVars
<1> QED
  BY <1>1, <1>2, <1>3, <1>4, <1>5, <1>6 DEF Next, SessionOver

-----------------------------------------------------------------------------

\* Nothing the room is counted in changes.
RoomUnchanged ==
  /\ UNCHANGED <<submissions, inputSequence, depth>>
  /\ DecodingSlots(frames)' = DecodingSlots(frames)

LEMMA SameDecoding ==
  ASSUME \A s \in Slots : frames'.state[s] = "Decoding" <=> frames.state[s] = "Decoding"
  PROVE  DecodingSlots(frames)' = DecodingSlots(frames)
BY DEF DecodingSlots

LEMMA PresentDecoding ==
  ASSUME Typed, PresentStep
  PROVE  DecodingSlots(frames)' = DecodingSlots(frames)
BY PresentStepUndisturbed, SameDecoding DEF DecoderUndisturbed

\* The steps that change neither, by what they do to the place of the decode
\* worker and to needsReset.
LEMMA QuietRoomStep ==
  ASSUME PictureInv, DepthInv, RowInv,
         LoopTop \/ FrameArrives \/ WaitWoken \/ UnitWhileStopping \/ SkipToKeyframe
         \/ ResetFails \/ HdrMismatch \/ EmptyUnit \/ DecodeFails \/ DecodeNotQueued
         \/ FlushReturns \/ FlushFails \/ SettleRefuses \/ UnitRefused \/ UnitDone
         \/ DrainStepDone \/ CompleteNeedIdr \/ CompleteOk \/ DrainFlush \/ DrainStarved
         \/ DrainEnds \/ FaultCheck \/ StartWorkers \/ StopRenderer \/ JoinDecode
         \/ JoinPresent \/ TearDown \/ PresentStep \/ UNCHANGED vars
  PROVE  DepthInv' /\ RowInv'
<1> DEFINE c == Cardinality(DecodingSlots(frames))
           n == Len(submissions)
           row == InputsInRow(1)
           gap == InputsInRow(2)
<1>t. /\ n \in Nat /\ depth \in Nat /\ c \in Nat
      /\ FlagsOK /\ ResetStands /\ dpc \in DecodePcs /\ depth \in 1 .. RequestedDepth /\ output \in Output
      /\ (mpc = "setup" => dpc = "none")
  <2>1. c \in Nat
    BY SlotsFinite, DecodingType
  <2> QED
    BY <2>1, SizesAssumption, LenProperties DEF PictureInv, TypeOK, PlacesOK, CallOK, CodecOK,
       DecoderInv, UsableInStep
<1>k. /\ dpc \in {"offer", "decode"} \/ ~needsReset => n <= depth
      /\ dpc \in {"flush", "settle", "settled"} => n <= depth + 1
      /\ dpc = "settled" /\ output.slot # NoSlot => n <= depth
      /\ dpc = "offer" \/ BetweenCalls => c <= n
      /\ dpc \in {"offer", "flush", "settle", "settled"} \/ (dpc # "decode" /\ ~needsReset) => row
      /\ dpc = "decode" => gap
  BY DEF DepthInv, RowInv
<1>s. RoomUnchanged
  <2> USE DEF vars, decodeVars, callVars, codecVars, queueVars, poolVars
  <2>1. CASE LoopTop
    BY <2>1, SameDecoding DEF RoomUnchanged, LoopTop
  <2>2. CASE FrameArrives
    BY <2>2, SameDecoding DEF RoomUnchanged, FrameArrives
  <2>3. CASE WaitWoken
    BY <2>3, SameDecoding DEF RoomUnchanged, WaitWoken
  <2>4. CASE UnitWhileStopping
    BY <2>4, SameDecoding DEF RoomUnchanged, UnitWhileStopping
  <2>5. CASE SkipToKeyframe
    BY <2>5, SameDecoding DEF RoomUnchanged, SkipToKeyframe
  <2>6. CASE ResetFails
    BY <2>6, SameDecoding DEF RoomUnchanged, ResetFails, Refuse
  <2>7. CASE HdrMismatch
    BY <2>7, SameDecoding DEF RoomUnchanged, HdrMismatch
  <2>8. CASE EmptyUnit
    BY <2>8, SameDecoding DEF RoomUnchanged, EmptyUnit, Refuse
  <2>9. CASE DecodeFails
    <3>1. frames'.state = frames.state /\ UNCHANGED <<submissions, inputSequence, depth>>
      BY <2>9, ReturnsKeepsState DEF DecodeFails, Refuse
    <3> QED
      BY <3>1, SameDecoding DEF RoomUnchanged
  <2>10. CASE DecodeNotQueued
    <3>1. frames'.state = frames.state /\ UNCHANGED <<submissions, inputSequence, depth>>
      BY <2>10, ReturnsKeepsState DEF DecodeNotQueued, Refuse
    <3> QED
      BY <3>1, SameDecoding DEF RoomUnchanged
  <2>11. CASE FlushReturns
    <3>1. frames'.state = frames.state /\ UNCHANGED <<submissions, inputSequence, depth>>
      BY <2>11, ReturnsKeepsState DEF FlushReturns, Flushed
    <3> QED
      BY <3>1, SameDecoding DEF RoomUnchanged
  <2>12. CASE FlushFails
    <3>1. frames'.state = frames.state /\ UNCHANGED <<submissions, inputSequence, depth>>
      BY <2>12, ReturnsKeepsState DEF FlushFails, Refuse
    <3> QED
      BY <3>1, SameDecoding DEF RoomUnchanged
  <2>13. CASE SettleRefuses
    BY <2>13, SameDecoding DEF RoomUnchanged, SettleRefuses, Refuse
  <2>14. CASE UnitRefused
    BY <2>14, SameDecoding DEF RoomUnchanged, UnitRefused, Refuse
  <2>15. CASE UnitDone
    BY <2>15, SameDecoding DEF RoomUnchanged, UnitDone, Overheld, Overdue
  <2>16. CASE DrainStepDone
    BY <2>16, SameDecoding DEF RoomUnchanged, DrainStepDone, Overheld
  <2>17. CASE CompleteNeedIdr
    BY <2>17, SameDecoding DEF RoomUnchanged, CompleteNeedIdr, ForgetCall
  <2>18. CASE CompleteOk
    BY <2>18, SameDecoding DEF RoomUnchanged, CompleteOk, ForgetCall
  <2>19. CASE DrainFlush
    BY <2>19, SameDecoding DEF RoomUnchanged, DrainFlush, DrainContinues
  <2>20. CASE DrainStarved
    BY <2>20, SameDecoding DEF RoomUnchanged, DrainStarved, ForgetCall, DrainContinues
  <2>21. CASE DrainEnds
    BY <2>21, SameDecoding DEF RoomUnchanged, DrainEnds, ForgetCall
  <2>22. CASE FaultCheck
    BY <2>22, SameDecoding DEF RoomUnchanged, FaultCheck
  <2>23. CASE StartWorkers
    BY <2>23, SameDecoding DEF RoomUnchanged, StartWorkers
  <2>24. CASE StopRenderer
    BY <2>24, SameDecoding DEF RoomUnchanged, StopRenderer
  <2>25. CASE JoinDecode
    BY <2>25, SameDecoding DEF RoomUnchanged, JoinDecode
  <2>26. CASE JoinPresent
    BY <2>26, SameDecoding DEF RoomUnchanged, JoinPresent
  <2>27. CASE TearDown
    BY <2>27, SameDecoding DEF RoomUnchanged, TearDown
  <2>28. CASE PresentStep
    <3>1. UNCHANGED <<submissions, inputSequence, depth>>
      BY <2>28 DEF PresentStep, TakePicture, StopWhileChoosing, StopWhileWaiting, SubmitPicture,
         SubmitFails, FlipCompletes, FlipTimesOut
    <3> QED
      BY <2>28, <3>1, PresentDecoding DEF RoomUnchanged, PictureInv, Typed
  <2>29. CASE UNCHANGED vars
    BY <2>29, SameDecoding DEF RoomUnchanged
  <2> QED
    BY <2>1, <2>2, <2>3, <2>4, <2>5, <2>6, <2>7, <2>8, <2>9, <2>10, <2>11, <2>12, <2>13, <2>14,
       <2>15, <2>16, <2>17, <2>18, <2>19, <2>20, <2>21, <2>22, <2>23, <2>24, <2>25, <2>26, <2>27,
       <2>28, <2>29
<1>n. /\ c' = c /\ n' = n /\ depth' = depth
      /\ row' <=> row
      /\ gap' <=> gap
  <2>1. c' = c /\ n' = n /\ depth' = depth
    BY <1>s DEF RoomUnchanged
  <2>2. UNCHANGED <<submissions, inputSequence>>
    BY <1>s DEF RoomUnchanged
  <2> QED
    BY <2>1, <2>2 DEF InputsInRow, Behind
<1>g. /\ (dpc' \in {"offer", "decode"} \/ ~needsReset') => n <= depth
      /\ dpc' \in {"flush", "settle", "settled"} => n <= depth + 1
      /\ (dpc' = "settled" /\ output'.slot # NoSlot) => n <= depth
      /\ (dpc' = "offer" \/ BetweenCalls') => c <= n
      /\ (dpc' \in {"offer", "flush", "settle", "settled"} \/ (dpc' # "decode" /\ ~needsReset')) => row
      /\ dpc' = "decode" => gap
  <2> USE DEF vars, decodeVars, callVars, codecVars, queueVars, BetweenCalls
  <2>h. c = Cardinality(DecodingSlots(frames)) /\ n = Len(submissions)
    OBVIOUS
  <2> HIDE DEF c, n, row, gap
  <2>1. CASE LoopTop
    BY <2>1, <2>h, <1>t, <1>k DEF FlagsOK, ResetStands, LoopTop
  <2>2. CASE FrameArrives
    BY <2>2, <2>h, <1>t, <1>k DEF FlagsOK, ResetStands, FrameArrives
  <2>3. CASE WaitWoken
    BY <2>3, <2>h, <1>t, <1>k DEF FlagsOK, ResetStands, WaitWoken
  <2>4. CASE UnitWhileStopping
    BY <2>4, <2>h, <1>t, <1>k DEF FlagsOK, ResetStands, UnitWhileStopping
  <2>5. CASE SkipToKeyframe
    BY <2>5, <2>h, <1>t, <1>k DEF FlagsOK, ResetStands, SkipToKeyframe
  <2>6. CASE ResetFails
    BY <2>6, <2>h, <1>t, <1>k DEF FlagsOK, ResetStands, ResetFails, Refuse
  <2>7. CASE HdrMismatch
    BY <2>7, <2>h, <1>t, <1>k DEF FlagsOK, ResetStands, HdrMismatch
  <2>8. CASE EmptyUnit
    BY <2>8, <2>h, <1>t, <1>k DEF FlagsOK, ResetStands, EmptyUnit, Refuse
  <2>9. CASE DecodeFails
    BY <2>9, <2>h, <1>t, <1>k DEF FlagsOK, ResetStands, DecodeFails, Refuse
  <2>10. CASE DecodeNotQueued
    BY <2>10, <2>h, <1>t, <1>k DEF FlagsOK, ResetStands, DecodeNotQueued, Refuse
  <2>11. CASE FlushReturns
    BY <2>11, <2>h, <1>t, <1>k DEF FlagsOK, ResetStands, FlushReturns, Flushed
  <2>12. CASE FlushFails
    BY <2>12, <2>h, <1>t, <1>k DEF FlagsOK, ResetStands, FlushFails, Refuse
  <2>13. CASE SettleRefuses
    BY <2>13, <2>h, <1>t, <1>k DEF FlagsOK, ResetStands, SettleRefuses, Refuse
  <2>14. CASE UnitRefused
    BY <2>14, <2>h, <1>t, <1>k DEF FlagsOK, ResetStands, UnitRefused, Refuse
  <2>15. CASE UnitDone
    BY <2>15, <2>h, <1>t, <1>k DEF FlagsOK, ResetStands, UnitDone, Overheld, Overdue
  <2>16. CASE DrainStepDone
    BY <2>16, <2>h, <1>t, <1>k DEF FlagsOK, ResetStands, DrainStepDone, Overheld
  <2>17. CASE CompleteNeedIdr
    BY <2>17, <2>h, <1>t, <1>k DEF FlagsOK, ResetStands, CompleteNeedIdr, ForgetCall
  <2>18. CASE CompleteOk
    BY <2>18, <2>h, <1>t, <1>k DEF FlagsOK, ResetStands, CompleteOk, ForgetCall
  <2>19. CASE DrainFlush
    BY <2>19, <2>h, <1>t, <1>k DEF FlagsOK, ResetStands, DrainFlush, DrainContinues
  <2>20. CASE DrainStarved
    BY <2>20, <2>h, <1>t, <1>k DEF FlagsOK, ResetStands, DrainStarved, ForgetCall, DrainContinues
  <2>21. CASE DrainEnds
    BY <2>21, <2>h, <1>t, <1>k DEF FlagsOK, ResetStands, DrainEnds, ForgetCall
  <2>22. CASE FaultCheck
    BY <2>22, <2>h, <1>t, <1>k DEF FlagsOK, ResetStands, FaultCheck
  <2>23. CASE StartWorkers
    BY <2>23, <2>h, <1>t, <1>k DEF FlagsOK, ResetStands, StartWorkers
  <2>24. CASE StopRenderer
    BY <2>24, <2>h, <1>t, <1>k DEF FlagsOK, ResetStands, StopRenderer
  <2>25. CASE JoinDecode
    BY <2>25, <2>h, <1>t, <1>k DEF FlagsOK, ResetStands, JoinDecode
  <2>26. CASE JoinPresent
    BY <2>26, <2>h, <1>t, <1>k DEF FlagsOK, ResetStands, JoinPresent
  <2>27. CASE TearDown
    BY <2>27, <2>h, <1>t, <1>k DEF FlagsOK, ResetStands, TearDown
  <2>28. CASE PresentStep
    BY <2>28, <2>h, <1>t, <1>k DEF FlagsOK, ResetStands, PresentStep, TakePicture,
       StopWhileChoosing, StopWhileWaiting, SubmitPicture, SubmitFails, FlipCompletes, FlipTimesOut
  <2>29. CASE UNCHANGED vars
    BY <2>29, <1>k
  <2> QED
    BY <2>1, <2>2, <2>3, <2>4, <2>5, <2>6, <2>7, <2>8, <2>9, <2>10, <2>11, <2>12, <2>13, <2>14,
       <2>15, <2>16, <2>17, <2>18, <2>19, <2>20, <2>21, <2>22, <2>23, <2>24, <2>25, <2>26, <2>27,
       <2>28, <2>29
<1> QED
  BY <1>n, <1>g DEF DepthInv, RowInv

-----------------------------------------------------------------------------
(* The steps that change what is in flight.                                *)

LEMMA NoneInFlight ==
  ASSUME frames \in Pool, frames' = ReleaseDecoding(frames), submissions' = <<>>, depth' \in Nat
  PROVE  DepthInv' /\ RowInv'
<1>1. DecodingSlots(frames)' = {}
  BY AbandonedState DEF DecodingSlots
<1>2. Cardinality(DecodingSlots(frames))' = 0
  BY <1>1, FS_EmptySet
<1>3. Len(submissions)' = 0
  BY EmptySeq
<1>4. /\ Len(submissions)' <= depth' /\ Len(submissions)' <= depth' + 1
      /\ Cardinality(DecodingSlots(frames))' <= Len(submissions)'
  <2>1. 0 <= 0 /\ \A d \in Nat : 0 <= d /\ 0 <= d + 1
    OBVIOUS
  <2> QED
    BY <1>2, <1>3, <2>1, Zenon
<1>5. DepthInv'
  BY <1>4, Zenon DEF DepthInv
<1> QED
  BY <1>3, <1>5 DEF RowInv, InputsInRow

LEMMA PrepareUnitRoom ==
  ASSUME PictureInv, DepthInv, RowInv, PrepareUnit
  PROVE  DepthInv' /\ RowInv'
<1> USE DEF callVars
<1>t. frames \in Pool /\ depth \in Nat /\ UNCHANGED depth
  BY DEF PictureInv, TypeOK, PoolOK, CodecOK, PrepareUnit
<1>1. CASE needsReset
  <2>1. frames' = ReleaseDecoding(frames) /\ submissions' = <<>>
    BY <1>1 DEF PrepareUnit, AbandonPictures
  <2> QED
    BY <1>t, <2>1, NoneInFlight
<1>2. CASE ~needsReset
  <2>1. /\ dpc = "unit" /\ dpc' = "offer" /\ needsReset' = TRUE
        /\ UNCHANGED <<frames, submissions, inputSequence>>
    BY <1>2 DEF PrepareUnit
  <2>2. /\ Len(submissions) <= depth /\ InputsInRow(1)
        /\ Cardinality(DecodingSlots(frames)) <= Len(submissions)
    BY <1>2, <2>1 DEF DepthInv, RowInv, BetweenCalls
  <2>3. DecodingSlots(frames)' = DecodingSlots(frames) /\ (InputsInRow(1)' <=> InputsInRow(1))
    BY <2>1 DEF DecodingSlots, InputsInRow, Behind
  <2>4. DepthInv'
    BY <1>t, <2>1, <2>2, <2>3 DEF DepthInv, BetweenCalls
  <2>5. RowInv'
    BY <2>1, <2>2, <2>3 DEF RowInv
  <2> QED
    BY <2>4, <2>5
<1> QED
  BY <1>1, <1>2

LEMMA FallbackRoom ==
  ASSUME PictureInv, FallbackSucceeds \/ FallbackFails
  PROVE  DepthInv' /\ RowInv'
<1>1. frames \in Pool /\ depth \in Nat
  BY DEF PictureInv, TypeOK, PoolOK, CodecOK
<1>2. frames' = ReleaseDecoding(frames) /\ submissions' = <<>> /\ depth' \in {1, depth}
  BY DEF FallbackSucceeds, FallbackFails, Abandon, AbandonPictures
<1> QED
  BY <1>1, <1>2, NoneInFlight

\* The next input slot is taken: the units in flight fall one place behind.
LEMMA OfferUnitRoom ==
  ASSUME PictureInv, DepthInv, RowInv, Roomy, OfferUnit
  PROVE  DepthInv' /\ RowInv'
<1> USE DEF poolVars, codecVars
<1>t. /\ InputSlotCount \in Nat \ {0} /\ inputSequence \in 0 .. InputSlotCount - 1
      /\ depth \in 1 .. RequestedDepth /\ RequestedDepth \in Nat /\ Len(submissions) \in Nat
      /\ needsReset
  BY SizesAssumption, LenProperties DEF PictureInv, TypeOK, CodecOK, DecoderInv, ResetStands,
     OfferUnit
<1>1. /\ dpc = "offer" /\ dpc' = "decode"
      /\ UNCHANGED <<submissions, depth, needsReset, frames>>
      /\ inputSequence' = (inputSequence + 1) % InputSlotCount
  BY DEF OfferUnit, NextInput
<1>2. Len(submissions) <= depth /\ InputsInRow(1)
  BY <1>1 DEF DepthInv, RowInv
<1>3. DepthInv'
  BY <1>t, <1>1, <1>2 DEF DepthInv, BetweenCalls
<1>4. InputsInRow(2)'
  <2>1. ASSUME NEW i \in 1 .. Len(submissions)
        PROVE  submissions[i].input = Behind(inputSequence', Len(submissions) - i + 2)
    <3> DEFINE k == Len(submissions) - i + 1
    <3>1. k \in Nat /\ k < InputSlotCount /\ Len(submissions) - i + 2 = k + 1
      BY <1>t, <1>2 DEF Roomy
    <3>2. submissions[i].input = Behind(inputSequence, k)
      BY <1>2 DEF InputsInRow
    <3> HIDE DEF k
    <3> QED
      BY <1>t, <1>1, <3>1, <3>2, NextBehind
  <2> QED
    BY <1>1, <2>1 DEF InputsInRow, Behind
<1> QED
  BY <1>1, <1>3, <1>4 DEF RowInv

LEMMA UnitNotCopiedRoom ==
  ASSUME PictureInv, DepthInv, RowInv, UnitNotCopied
  PROVE  DepthInv' /\ RowInv'
<1>1. dpc' = "needIdr" /\ needsReset'
  BY DEF UnitNotCopied, Refuse, PictureInv, DecoderInv, ResetStands
<1> QED
  BY <1>1 DEF DepthInv, RowInv, BetweenCalls

LEMMA DecodeReturnsRoom ==
  ASSUME PictureInv, DepthInv, RowInv, DecodeReturns
  PROVE  DepthInv' /\ RowInv'
<1> USE DEF codecVars, callVars
<1>t. /\ InputSlotCount \in Nat \ {0} /\ inputSequence \in 0 .. InputSlotCount - 1
      /\ depth \in Nat /\ submissions \in Seq(Submission) /\ Len(submissions) \in Nat
      /\ needsReset /\ UnitSubmission \in Submission
  BY UnitSubmissionType, SizesAssumption, LenProperties
     DEF PictureInv, TypeOK, PoolOK, CodecOK, DecoderInv, ResetStands, DecodeReturns, ControlOK
<1>1. /\ dpc = "decode" /\ dpc' \in {"flush", "settle"}
      /\ submissions' = Append(submissions, UnitSubmission)
      /\ UNCHANGED <<depth, needsReset, inputSequence>>
  BY DEF DecodeReturns
<1>2. Len(submissions) <= depth /\ InputsInRow(2)
  BY <1>1 DEF DepthInv, RowInv
<1>3. /\ Len(submissions') = Len(submissions) + 1
      /\ \A i \in 1 .. Len(submissions) : submissions'[i] = submissions[i]
      /\ submissions'[Len(submissions) + 1] = UnitSubmission
  BY <1>t, <1>1, AppendProperties
<1>4. DepthInv'
  BY <1>t, <1>1, <1>2, <1>3 DEF DepthInv, BetweenCalls
<1>5. InputsInRow(1)'
  <2>1. ASSUME NEW i \in 1 .. Len(submissions')
        PROVE  submissions'[i].input = Behind(inputSequence, Len(submissions') - i + 1)
    <3>1. CASE i = Len(submissions) + 1
      <4>1. submissions'[i].input = (inputSequence + InputSlotCount - 1) % InputSlotCount
        BY <1>3, <3>1 DEF UnitSubmission, UnitInput
      <4>2. Len(submissions') - i + 1 = 1
        BY <1>t, <1>3, <3>1
      <4> QED
        BY <1>t, <4>1, <4>2, BehindOne
    <3>2. CASE i # Len(submissions) + 1
      <4>1. i \in 1 .. Len(submissions) /\ Len(submissions') - i + 1 = Len(submissions) - i + 2
        BY <1>t, <1>3, <3>2
      <4> QED
        BY <1>2, <1>3, <4>1 DEF InputsInRow
    <3> QED
      BY <3>1, <3>2
  <2> QED
    BY <1>1, <2>1 DEF InputsInRow, Behind
<1> QED
  BY <1>1, <1>5, <1>4 DEF RowInv

LEMMA SettleDelayedRoom ==
  ASSUME PictureInv, DepthInv, RowInv, SettleDelayed
  PROVE  DepthInv' /\ RowInv'
<1>1. /\ dpc = "settle" /\ dpc' = "settled" /\ output.slot = NoSlot
      /\ UNCHANGED <<submissions, depth, needsReset, inputSequence, output>>
  BY DEF SettleDelayed, codecVars, queueVars, callVars
<1>2. DepthInv'
  BY <1>1 DEF DepthInv, BetweenCalls
<1>3. InputsInRow(1)' <=> InputsInRow(1)
  BY <1>1 DEF InputsInRow, Behind
<1> QED
  BY <1>1, <1>2, <1>3 DEF RowInv

LEMMA SettlePictureRoom ==
  ASSUME PictureInv, DepthInv, RowInv, SettlePicture
  PROVE  DepthInv' /\ RowInv'
<1>t. /\ depth \in Nat /\ submissions \in Seq(Submission) /\ Len(submissions) \in Nat
  BY LenProperties DEF PictureInv, TypeOK, CodecOK
<1>1. /\ dpc = "settle" /\ dpc' = "settled" /\ submissions # <<>> /\ submissions' = Tail(submissions)
      /\ UNCHANGED <<depth, needsReset, inputSequence, output>>
  BY DEF SettlePicture, TrustedOutput, callVars
<1>2. Len(submissions) <= depth + 1 /\ InputsInRow(1)
  BY <1>1 DEF DepthInv, RowInv
<1>3. /\ Len(submissions') = Len(submissions) - 1
      /\ \A i \in 1 .. Len(submissions') : submissions'[i] = submissions[i + 1]
  BY <1>t, <1>1, HeadTailProperties
<1>4. DepthInv'
  BY <1>t, <1>1, <1>2, <1>3 DEF DepthInv, BetweenCalls
<1>5. InputsInRow(1)'
  <2>1. ASSUME NEW i \in 1 .. Len(submissions')
        PROVE  submissions'[i].input = Behind(inputSequence, Len(submissions') - i + 1)
    <3>1. i + 1 \in 1 .. Len(submissions) /\ Len(submissions') - i + 1 = Len(submissions) - (i + 1) + 1
      BY <1>t, <1>3
    <3> QED
      BY <1>2, <1>3, <3>1 DEF InputsInRow
  <2> QED
    BY <1>1, <2>1 DEF InputsInRow, Behind
<1> QED
  BY <1>1, <1>4, <1>5 DEF RowInv

-----------------------------------------------------------------------------

LEMMA RoomInit == Init => RoomInv
<1> SUFFICES ASSUME Init PROVE RoomInv
  OBVIOUS
<1>1. submissions = <<>> /\ mailbox = <<>> /\ depth = RequestedDepth
  BY DEF Init
<1>2. DecodingSlots(frames) = {}
  BY DEF Init, DecodingSlots
<1>3. Len(submissions) = 0 /\ Cardinality(DecodingSlots(frames)) = 0 /\ depth \in Nat
  BY <1>1, <1>2, EmptySeq, FS_EmptySet, SizesAssumption
<1>4. DepthInv
  BY <1>3 DEF DepthInv
<1> QED
  BY <1>1, <1>3, <1>4 DEF RoomInv, NewestWaits, RowInv, InputsInRow

LEMMA RoomStep == ASSUME Roomy PROVE PictureInv /\ RoomInv /\ [Next]_vars => RoomInv'
<1> SUFFICES ASSUME PictureInv, RoomInv, [Next]_vars PROVE RoomInv'
  OBVIOUS
<1>1. Typed /\ NewestWaits /\ DepthInv /\ RowInv
  BY DEF PictureInv, Typed, RoomInv
<1>2. NewestWaits'
  BY <1>1, NewestStep
<1>3. DepthInv' /\ RowInv'
  BY <1>1, QuietRoomStep, PrepareUnitRoom, FallbackRoom, OfferUnitRoom, UnitNotCopiedRoom,
     DecodeReturnsRoom, SettleDelayedRoom, SettlePictureRoom
     DEF Next, DecodeStep, JoinStep, SessionOver
<1> QED
  BY <1>2, <1>3 DEF RoomInv

\* With the slots the static_assert asks for, an access unit always finds a
\* frame slot and every flush of a drain does, and the unit is copied to an
\* input slot that no unit still inside the decoder occupies.
THEOREM RoomForEveryUnit == ASSUME Roomy PROVE Spec => []InputsOK
<1>1. PictureInv /\ RoomInv => InputsOK
  <2> SUFFICES ASSUME PictureInv, RoomInv PROVE InputsOK
    OBVIOUS
  <2>1. Typed /\ NewestWaits /\ DepthInv /\ RowInv
    BY DEF PictureInv, Typed, RoomInv
  <2>2. SlotForEveryCall
    <3>1. dpc = "offer" \/ (dpc = "drain" /\ DrainContinues(TRUE)) =>
            Len(submissions) <= depth /\ Cardinality(DecodingSlots(frames)) <= Len(submissions)
      BY <2>1 DEF DepthInv, BetweenCalls, DrainContinues
    <3> QED
      BY <2>1, <3>1, RoomLeft DEF SlotForEveryCall
  <2>3. InputSlotIdle
    <3>1. SUFFICES ASSUME dpc = "offer", NEW i \in 1 .. Len(submissions)
                   PROVE  submissions[i].input # inputSequence
      BY DEF InputSlotIdle, PictureInv, DecoderInv, UsableInStep, InStep
    <3> DEFINE k == Len(submissions) - i + 1
    <3>t. /\ InputSlotCount \in Nat \ {0} /\ inputSequence \in 0 .. InputSlotCount - 1
          /\ depth \in 1 .. RequestedDepth /\ RequestedDepth \in Nat /\ Len(submissions) \in Nat
      BY SizesAssumption, LenProperties DEF PictureInv, TypeOK, CodecOK
    <3>2. Len(submissions) <= depth /\ submissions[i].input = Behind(inputSequence, k)
      BY <2>1, <3>1 DEF DepthInv, RowInv, InputsInRow
    <3>3. k \in Nat \ {0} /\ k < InputSlotCount
      BY <3>t, <3>2 DEF Roomy
    <3> HIDE DEF k
    <3> QED
      BY <3>t, <3>2, <3>3, BehindElsewhere
  <2> QED
    BY <2>2, <2>3 DEF InputsOK
<1> QED
  BY <1>1, RoomInit, RoomStep, PictureInvariant, PTL DEF Spec

-----------------------------------------------------------------------------
(* Frames keep their order.                                                *)

\* AfterShown(f) in the next state, of a frame of this one.
StaysAfter(f) ==
  /\ \A i \in 1 .. Len(mailbox') : mailbox'[i].frame < f
  /\ Holding' => current'.frame < f
  /\ shown' < f

\* A step of anyone that brings no new frame into the pipeline.
LEMMA OrderKept ==
  ASSUME OrderInv, submissions' = submissions \/ submissions' = <<>>,
         nextFrame' = nextFrame,
         dpc' \in {"unit", "offer", "decode"}
           => dpc \in {"unit", "offer", "decode"} /\ unit' = unit,
         \A f : AfterShown(f) => StaysAfter(f)
  PROVE  OrderInv'
<1>1. (\A k \in 1 .. Len(submissions) : AfterShown(submissions[k].frame))'
  <2>1. CASE submissions' = submissions
    BY <2>1 DEF OrderInv, StaysAfter, AfterShown
  <2>2. CASE submissions' = <<>>
    BY <2>2
  <2> QED
    BY <2>1, <2>2
<1>2. (\A j, k \in 1 .. Len(submissions) : j < k => submissions[j].frame < submissions[k].frame)'
  BY DEF OrderInv
<1>3. (\A f : AfterShown(f) => StaysAfter(f)) /\ (\A f : AfterAll(f) => AfterAll(f)')
  BY DEF AfterAll, AfterShown, StaysAfter
<1>4. (dpc \in {"unit", "offer", "decode"} => AfterAll(unit.frame) /\ unit.frame < nextFrame)'
  BY <1>3 DEF OrderInv, AfterAll, AfterShown, StaysAfter
<1>5. AfterAll(nextFrame)'
  BY <1>3 DEF OrderInv, AfterAll, AfterShown, StaysAfter
<1> QED
  BY <1>1, <1>2, <1>4, <1>5 DEF OrderInv

LEMMA FrameArrivesOrder == PictureInv /\ OrderInv /\ FrameArrives => OrderInv'
<1> SUFFICES ASSUME PictureInv, OrderInv, FrameArrives PROVE OrderInv'
  OBVIOUS
<1>1. /\ unit'.frame = nextFrame /\ nextFrame' = nextFrame + 1
      /\ UNCHANGED <<mailbox, submissions, ppc, current, shown>>
  BY DEF FrameArrives, poolVars, queueVars, presentVars
<1>2. /\ nextFrame \in Int /\ shown \in Int
      /\ Holding => current.frame \in Int
      /\ \A i \in 1 .. Len(mailbox) : mailbox[i].frame \in Int
      /\ \A i \in 1 .. Len(submissions) : submissions[i].frame \in Int
  <2>1. \A i \in 1 .. Len(mailbox) : mailbox[i].frame \in Int
    BY MailboxSlots DEF PictureInv, TypeOK, PoolOK, Picture, Frames
  <2>2. ASSUME NEW i \in 1 .. Len(submissions) PROVE submissions[i].frame \in Int
    <3>1. submissions[i] \in Submission
      BY ElementOfSeq DEF PictureInv, TypeOK, CodecOK
    <3> QED
      BY <3>1 DEF Submission, Frames
  <2>3. nextFrame \in Int /\ shown \in Int
    BY LimitsAssumption DEF PictureInv, TypeOK, CallOK, ScreenOK, Frames, NoFrame
  <2>4. Holding => current.frame \in Int
    BY DEF PictureInv, ControlOK, Picture, Frames
  <2> QED
    BY <2>1, <2>2, <2>3, <2>4
<1>3. AfterAll(nextFrame) /\ AfterAll(nextFrame + 1)
  BY <1>2 DEF OrderInv, AfterAll, AfterShown
<1> QED
  BY <1>1, <1>2, <1>3 DEF OrderInv, AfterAll, AfterShown, Holding

LEMMA DecodeReturnsOrder == PictureInv /\ OrderInv /\ DecodeReturns => OrderInv'
<1> SUFFICES ASSUME PictureInv, OrderInv, DecodeReturns PROVE OrderInv'
  OBVIOUS
<1>1. /\ dpc = "decode" /\ dpc' \in {"flush", "settle"}
      /\ UNCHANGED <<mailbox, nextFrame, ppc, current, shown>>
  BY DEF DecodeReturns, presentVars, hostVars
<1>2. AfterAll(unit.frame) /\ unit.frame < nextFrame /\ AfterAll(nextFrame)
  BY <1>1 DEF OrderInv
<1>3. submissions \in Seq(Submission) /\ UnitSubmission \in Submission
      /\ submissions' = Append(submissions, UnitSubmission) /\ UnitSubmission.frame = unit.frame
  <2>1. unit \in Unit /\ CodecOK /\ submissions \in Seq(Submission)
    BY <1>1 DEF PictureInv, ControlOK, TypeOK, CodecOK
  <2> QED
    BY <2>1, UnitSubmissionType DEF DecodeReturns, UnitSubmission
<1>4. /\ Len(submissions) \in Nat /\ Len(submissions') = Len(submissions) + 1
      /\ \A k \in 1 .. Len(submissions) : submissions'[k] = submissions[k]
      /\ submissions'[Len(submissions) + 1] = UnitSubmission
  BY <1>3, LenProperties, AppendProperties
<1>5. \A k \in 1 .. Len(submissions') :
        \/ k \in 1 .. Len(submissions) /\ submissions'[k].frame = submissions[k].frame
        \/ k = Len(submissions) + 1 /\ submissions'[k].frame = unit.frame
  BY <1>3, <1>4
<1>6. (\A k \in 1 .. Len(submissions) : AfterShown(submissions[k].frame))'
  BY <1>1, <1>2, <1>5 DEF OrderInv, AfterAll, AfterShown, Holding
<1>7. (\A j, k \in 1 .. Len(submissions) : j < k => submissions[j].frame < submissions[k].frame)'
  <2> SUFFICES ASSUME NEW j \in 1 .. Len(submissions'), NEW k \in 1 .. Len(submissions'), j < k
               PROVE  submissions'[j].frame < submissions'[k].frame
    OBVIOUS
  <2>1. j \in 1 .. Len(submissions)
    BY <1>4
  <2>2. CASE k \in 1 .. Len(submissions)
    BY <1>4, <2>1, <2>2 DEF OrderInv
  <2>3. CASE k = Len(submissions) + 1
    BY <1>2, <1>3, <1>4, <2>1, <2>3 DEF AfterAll
  <2> QED
    BY <1>4, <2>2, <2>3
<1>8. AfterAll(nextFrame)'
  BY <1>1, <1>2, <1>5 DEF AfterAll, AfterShown, Holding
<1> QED
  BY <1>1, <1>6, <1>7, <1>8 DEF OrderInv

LEMMA SettlePictureOrder == PictureInv /\ OrderInv /\ SettlePicture => OrderInv'
<1> SUFFICES ASSUME PictureInv, OrderInv, SettlePicture PROVE OrderInv'
  OBVIOUS
<1> DEFINE first == Head(submissions).frame
<1>1. /\ dpc' = "settled" /\ submissions # <<>> /\ submissions' = Tail(submissions)
      /\ UNCHANGED <<nextFrame, ppc, current, shown>>
  BY DEF SettlePicture, TrustedOutput, presentVars, hostVars
<1>2. /\ Len(submissions) \in Nat \ {0} /\ Len(submissions') = Len(submissions) - 1
      /\ \A k \in 1 .. Len(submissions') : submissions'[k] = submissions[k + 1]
      /\ first = submissions[1].frame
  <2>1. submissions \in Seq(Submission)
    BY DEF PictureInv, TypeOK, CodecOK
  <2> QED
    BY <1>1, <2>1, EmptySeq, HeadTailProperties
<1>3. \A i \in 1 .. Len(mailbox') :
        \/ mailbox'[i].frame = first
        \/ \E j \in 1 .. Len(mailbox) : mailbox'[i] = mailbox[j]
  <2>1. /\ Len(Waiting) \in Nat /\ Len(mailbox') = Len(Waiting) + 1
        /\ \A i \in 1 .. Len(Waiting) : mailbox'[i] = Waiting[i]
        /\ mailbox'[Len(Waiting) + 1] = [slot |-> output.slot, frame |-> first]
        /\ \A i \in 1 .. Len(Waiting) : \E j \in 1 .. Len(mailbox) : Waiting[i] = mailbox[j]
    BY SettlePictureFacts DEF PictureInv
  <2> QED
    BY <2>1
<1>4. ASSUME NEW f, AfterShown(f), first < f PROVE StaysAfter(f)
  <2>1. \A i \in 1 .. Len(mailbox') : mailbox'[i].frame < f
    BY <1>3, <1>4 DEF AfterShown
  <2> QED
    BY <1>1, <1>4, <2>1 DEF AfterShown, StaysAfter, Holding
<1>5. \A k \in 1 .. Len(submissions') : StaysAfter(submissions'[k].frame)
  <2> SUFFICES ASSUME NEW k \in 1 .. Len(submissions') PROVE StaysAfter(submissions'[k].frame)
    OBVIOUS
  <2>1. submissions'[k] = submissions[k + 1] /\ k + 1 \in 1 .. Len(submissions) /\ 1 < k + 1
    BY <1>2
  <2>2. AfterShown(submissions[k + 1].frame) /\ first < submissions[k + 1].frame
    BY <1>2, <2>1 DEF OrderInv
  <2> QED
    BY <1>4, <2>1, <2>2
<1>6. (\A j, k \in 1 .. Len(submissions) : j < k => submissions[j].frame < submissions[k].frame)'
  <2> SUFFICES ASSUME NEW j \in 1 .. Len(submissions'), NEW k \in 1 .. Len(submissions'), j < k
               PROVE  submissions'[j].frame < submissions'[k].frame
    OBVIOUS
  <2>1. /\ submissions'[j] = submissions[j + 1] /\ submissions'[k] = submissions[k + 1]
        /\ j + 1 \in 1 .. Len(submissions) /\ k + 1 \in 1 .. Len(submissions) /\ j + 1 < k + 1
    BY <1>2
  <2> QED
    BY <2>1 DEF OrderInv
<1>7. StaysAfter(nextFrame) /\ \A k \in 1 .. Len(submissions') : submissions'[k].frame < nextFrame
  <2>1. AfterShown(nextFrame) /\ first < nextFrame
    BY <1>2 DEF OrderInv, AfterAll
  <2>2. StaysAfter(nextFrame)
    BY <1>4, <2>1
  <2> QED
    BY <1>2, <2>2 DEF OrderInv, AfterAll
<1> QED
  BY <1>1, <1>5, <1>6, <1>7 DEF OrderInv, AfterAll, AfterShown, StaysAfter

LEMMA PresentOrder == PictureInv /\ OrderInv /\ PresentStep => OrderInv'
<1> SUFFICES ASSUME PictureInv, OrderInv, PresentStep PROVE OrderInv'
  OBVIOUS
<1>1. UNCHANGED <<submissions, nextFrame, dpc, unit>>
  BY DEF PresentStep, TakePicture, StopWhileChoosing, StopWhileWaiting, SubmitPicture, SubmitFails,
         FlipCompletes, FlipTimesOut, decodeVars, callVars, queueVars, hostVars
<1>2. ASSUME NEW f, AfterShown(f) PROVE StaysAfter(f)
  <2> USE DEF AfterShown, StaysAfter, Holding
  <2>1. CASE TakePicture
    <3>1. PICK k \in 1 .. Len(mailbox) :
            current' = mailbox[k] /\ mailbox' = SubSeq(mailbox, k + 1, Len(mailbox))
      BY <2>1 DEF TakePicture, Takeable
    <3>2. mailbox \in Seq(Picture) /\ Len(mailbox) \in Nat
          /\ \A i \in 1 .. Len(mailbox) : mailbox[i] \in Picture
      <4>1. mailbox \in Seq(Picture)
        BY DEF PictureInv, TypeOK, PoolOK
      <4> QED
        BY <4>1, LenProperties, MailboxSlots
    <3>3. \A i \in 1 .. Len(mailbox') : \E j \in 1 .. Len(mailbox) : mailbox'[i] = mailbox[j]
      BY <3>1, <3>2, SubSeqProperties
    <3> QED
      BY <1>2, <2>1, <3>1, <3>3 DEF TakePicture
  <2>2. CASE StopWhileChoosing
    BY <1>2, <2>2 DEF StopWhileChoosing, poolVars
  <2>3. CASE StopWhileWaiting
    BY <1>2, <2>3 DEF StopWhileWaiting
  <2>4. CASE SubmitPicture
    BY <1>2, <2>4 DEF SubmitPicture, poolVars
  <2>5. CASE SubmitFails
    BY <1>2, <2>5 DEF SubmitFails
  <2>6. CASE FlipCompletes
    BY <1>2, <2>6 DEF FlipCompletes
  <2>7. CASE FlipTimesOut
    BY <1>2, <2>7 DEF FlipTimesOut, poolVars
  <2> QED
    BY <2>1, <2>2, <2>3, <2>4, <2>5, <2>6, <2>7 DEF PresentStep
<1> QED
  BY <1>1, <1>2, OrderKept

\* Every other step of the decode worker and of the session thread.
LEMMA QuietOrder ==
  ASSUME PictureInv, OrderInv, [Next]_vars,
         ~FrameArrives, ~DecodeReturns, ~SettlePicture, ~PresentStep
  PROVE  OrderInv'
<1>1. UNCHANGED <<mailbox, current, shown, nextFrame>> /\ (Holding' => Holding)
      /\ submissions' \in {submissions, <<>>}
      /\ (dpc' \in {"unit", "offer", "decode"}
            => dpc \in {"unit", "offer", "decode"} /\ unit' = unit)
  <2> USE DEF vars, poolVars, decodeVars, callVars, codecVars, queueVars, presentVars, controlVars,
              hostVars, Holding
  <2>1. CASE LoopTop \/ WaitWoken \/ UnitWhileStopping \/ SkipToKeyframe \/ ResetFails
    BY <2>1 DEF LoopTop, WaitWoken, UnitWhileStopping, SkipToKeyframe, ResetFails, Refuse
  <2>2. CASE PrepareUnit
    BY <2>2 DEF PrepareUnit, AbandonPictures
  <2>3. CASE HdrMismatch \/ EmptyUnit \/ UnitNotCopied \/ OfferUnit
    BY <2>3 DEF HdrMismatch, EmptyUnit, UnitNotCopied, OfferUnit, Refuse
  <2>4. CASE DecodeFails \/ DecodeNotQueued \/ FlushReturns \/ FlushFails
    BY <2>4 DEF DecodeFails, DecodeNotQueued, FlushReturns, Flushed, FlushFails, Refuse
  <2>5. CASE SettleRefuses \/ SettleDelayed \/ UnitRefused \/ UnitDone \/ DrainStepDone
    BY <2>5 DEF SettleRefuses, SettleDelayed, UnitRefused, UnitDone, DrainStepDone, Refuse
  <2>6. CASE CompleteNeedIdr \/ CompleteOk \/ DrainFlush \/ DrainStarved \/ DrainEnds \/ FaultCheck
    BY <2>6 DEF CompleteNeedIdr, CompleteOk, DrainFlush, DrainStarved, DrainEnds, FaultCheck
  <2>7. CASE FallbackSucceeds \/ FallbackFails
    BY <2>7 DEF FallbackSucceeds, FallbackFails, Abandon, AbandonPictures
  <2>8. CASE JoinStep \/ StopRenderer \/ UNCHANGED vars
    BY <2>8 DEF JoinStep, StartWorkers, JoinDecode, JoinPresent, TearDown, StopRenderer
  <2> QED
    BY <2>1, <2>2, <2>3, <2>4, <2>5, <2>6, <2>7, <2>8 DEF Next, DecodeStep, SessionOver
<1>2. \A f : AfterShown(f) => StaysAfter(f)
  BY <1>1 DEF AfterShown, StaysAfter
<1> QED
  BY <1>1, <1>2, OrderKept

LEMMA OrderInit == Init => OrderInv
BY DEF Init, OrderInv, AfterAll, AfterShown, Holding, NoFrame

\* The whole of what the workers rely on: frames keep their order too.
THEOREM VideoInvariant == Spec => []VideoInv
<1>1. Init => DrainInv /\ KeyframeInv /\ TeardownInv /\ OrderInv
  BY DrainInit, KeyframeInit, TeardownInit, OrderInit
<1>2. PictureInv /\ DrainInv /\ KeyframeInv /\ TeardownInv /\ OrderInv /\ [Next]_vars
        => DrainInv' /\ KeyframeInv' /\ TeardownInv' /\ OrderInv'
  BY DrainStep, KeyframeStep, TeardownStep, FrameArrivesOrder, DecodeReturnsOrder,
     SettlePictureOrder, PresentOrder, QuietOrder
<1>3. PictureInv /\ DrainInv /\ KeyframeInv /\ TeardownInv /\ OrderInv => VideoInv
  BY DEF VideoInv
<1> QED
  BY <1>1, <1>2, <1>3, PictureInvariant, PTL DEF Spec

-----------------------------------------------------------------------------
(* The refinement.                                                         *)

LEMMA FramesOfSeq ==
  ASSUME NEW m \in Seq(Picture)
  PROVE  /\ FramesOf(m) \in Seq(Frames)
         /\ Len(FramesOf(m)) = Len(m)
         /\ \A i \in 1 .. Len(m) : FramesOf(m)[i] = m[i].frame
<1>1. Len(m) \in Nat /\ \A i \in 1 .. Len(m) : m[i].frame \in Frames
  <2>1. ASSUME NEW i \in 1 .. Len(m) PROVE m[i] \in Picture
    BY ElementOfSeq
  <2> QED
    BY <2>1, LenProperties DEF Picture
<1>2. FramesOf(m) \in [1 .. Len(m) -> Frames] /\ DOMAIN FramesOf(m) = 1 .. Len(m)
  BY <1>1 DEF FramesOf
<1>3. FramesOf(m) \in Seq(Frames)
  BY <1>1, <1>2, SeqDef
<1>4. 1 .. Len(FramesOf(m)) = 1 .. Len(m) /\ Len(FramesOf(m)) \in Nat
  BY <1>2, <1>3, LenProperties
<1>5. Len(FramesOf(m)) = Len(m)
  BY <1>1, <1>4
<1>6. \A i \in 1 .. Len(m) : FramesOf(m)[i] = m[i].frame
  BY DEF FramesOf
<1> QED
  BY <1>3, <1>5, <1>6

LEMMA FramesOfAppend ==
  ASSUME NEW m \in Seq(Picture), NEW p \in Picture
  PROVE  FramesOf(Append(m, p)) = Append(FramesOf(m), p.frame)
<1>1. Append(m, p) \in Seq(Picture) /\ p.frame \in Frames /\ Len(m) \in Nat
  BY AppendProperties, LenProperties DEF Picture
<1>2. /\ Len(Append(m, p)) = Len(m) + 1
      /\ \A i \in 1 .. Len(m) : Append(m, p)[i] = m[i]
      /\ Append(m, p)[Len(m) + 1] = p
  BY AppendProperties
<1>3. /\ FramesOf(Append(m, p)) \in Seq(Frames)
      /\ Len(FramesOf(Append(m, p))) = Len(m) + 1
      /\ \A i \in 1 .. Len(m) + 1 : FramesOf(Append(m, p))[i] = Append(m, p)[i].frame
  BY <1>1, <1>2, FramesOfSeq
<1>4. /\ FramesOf(m) \in Seq(Frames) /\ Len(FramesOf(m)) = Len(m)
      /\ \A i \in 1 .. Len(m) : FramesOf(m)[i] = m[i].frame
  BY FramesOfSeq
<1>5. /\ Append(FramesOf(m), p.frame) \in Seq(Frames)
      /\ Len(Append(FramesOf(m), p.frame)) = Len(m) + 1
      /\ \A i \in 1 .. Len(m) : Append(FramesOf(m), p.frame)[i] = m[i].frame
      /\ Append(FramesOf(m), p.frame)[Len(m) + 1] = p.frame
  BY <1>1, <1>4, AppendProperties
<1>6. \A i \in 1 .. Len(m) + 1 : FramesOf(Append(m, p))[i] = Append(FramesOf(m), p.frame)[i]
  BY <1>1, <1>2, <1>3, <1>5
<1> QED
  BY <1>3, <1>5, <1>6, SeqEqual

LEMMA FramesOfTail ==
  ASSUME NEW m \in Seq(Picture), m # <<>>
  PROVE  FramesOf(Tail(m)) = Tail(FramesOf(m))
<1>1. /\ Tail(m) \in Seq(Picture) /\ Len(Tail(m)) = Len(m) - 1 /\ Len(m) \in Nat \ {0}
      /\ \A i \in 1 .. Len(m) - 1 : Tail(m)[i] = m[i + 1]
  BY HeadTailProperties, EmptySeq
<1>2. /\ FramesOf(m) \in Seq(Frames) /\ Len(FramesOf(m)) = Len(m)
      /\ \A i \in 1 .. Len(m) : FramesOf(m)[i] = m[i].frame
  BY FramesOfSeq
<1>3. Len(FramesOf(m)) # 0
  BY <1>1, <1>2
<1>4. FramesOf(m) # <<>>
  BY <1>3, EmptySeq, Zenon
<1>5. /\ Tail(FramesOf(m)) \in Seq(Frames) /\ Len(Tail(FramesOf(m))) = Len(m) - 1
      /\ \A i \in 1 .. Len(m) - 1 : Tail(FramesOf(m))[i] = FramesOf(m)[i + 1]
  BY <1>2, <1>4, HeadTailProperties
<1>6. /\ FramesOf(Tail(m)) \in Seq(Frames) /\ Len(FramesOf(Tail(m))) = Len(m) - 1
      /\ \A i \in 1 .. Len(m) - 1 : FramesOf(Tail(m))[i] = Tail(m)[i].frame
  BY <1>1, FramesOfSeq
<1>7. \A i \in 1 .. Len(m) - 1 : FramesOf(Tail(m))[i] = Tail(FramesOf(m))[i]
  BY <1>1, <1>2, <1>5, <1>6
<1> QED
  BY <1>5, <1>6, <1>7, SeqEqual

LEMMA FramesOfSubSeq ==
  ASSUME NEW m \in Seq(Picture), NEW k \in 1 .. Len(m)
  PROVE  FramesOf(SubSeq(m, k + 1, Len(m))) = SubSeq(FramesOf(m), k + 1, Len(FramesOf(m)))
<1> DEFINE n == Len(m)
           rest == SubSeq(m, k + 1, n)
<1>1. n \in Nat /\ k \in Nat /\ k <= n
  BY LenProperties
<1>2. \A i \in k + 1 .. n : m[i] \in Picture
  <2>1. ASSUME NEW i \in 1 .. n PROVE m[i] \in Picture
    BY ElementOfSeq
  <2> QED
    BY <1>1, <2>1
<1>3. /\ rest \in Seq(Picture) /\ Len(rest) = n - k
      /\ \A i \in 1 .. n - k : rest[i] = m[k + i]
  <2>1. k + 1 \in Int /\ n \in Int
    BY <1>1
  <2> HIDE DEF n
  <2>2. /\ SubSeq(m, k + 1, n) \in Seq(Picture)
        /\ Len(SubSeq(m, k + 1, n)) = IF k + 1 <= n THEN n - (k + 1) + 1 ELSE 0
        /\ \A i \in 1 .. n - (k + 1) + 1 : SubSeq(m, k + 1, n)[i] = m[k + 1 + i - 1]
    BY <1>2, <2>1, SubSeqProperties
  <2> QED
    BY <1>1, <2>2
<1>4. /\ FramesOf(m) \in Seq(Frames) /\ Len(FramesOf(m)) = n
      /\ \A i \in 1 .. n : FramesOf(m)[i] = m[i].frame /\ m[i].frame \in Frames
  <2>1. ASSUME NEW i \in 1 .. n PROVE m[i] \in Picture
    BY ElementOfSeq
  <2> QED
    BY <2>1, FramesOfSeq DEF Picture
<1>5. /\ FramesOf(rest) \in Seq(Frames) /\ Len(FramesOf(rest)) = n - k
      /\ \A i \in 1 .. n - k : FramesOf(rest)[i] = rest[i].frame
  <2> HIDE DEF rest
  <2> QED
    BY <1>3, FramesOfSeq
<1>6. /\ SubSeq(FramesOf(m), k + 1, n) \in Seq(Frames)
      /\ Len(SubSeq(FramesOf(m), k + 1, n)) = n - k
      /\ \A i \in 1 .. n - k : SubSeq(FramesOf(m), k + 1, n)[i] = FramesOf(m)[k + i]
  <2>1. k + 1 \in Int /\ n \in Int /\ \A i \in k + 1 .. n : FramesOf(m)[i] \in Frames
    BY <1>1, <1>4
  <2> HIDE DEF n
  <2>2. /\ SubSeq(FramesOf(m), k + 1, n) \in Seq(Frames)
        /\ Len(SubSeq(FramesOf(m), k + 1, n)) = IF k + 1 <= n THEN n - (k + 1) + 1 ELSE 0
        /\ \A i \in 1 .. n - (k + 1) + 1 :
             SubSeq(FramesOf(m), k + 1, n)[i] = FramesOf(m)[k + 1 + i - 1]
    BY <2>1, SubSeqProperties
  <2> QED
    BY <1>1, <2>2
<1>7. \A i \in 1 .. n - k : FramesOf(rest)[i] = SubSeq(FramesOf(m), k + 1, n)[i]
  BY <1>1, <1>3, <1>4, <1>5, <1>6
<1>8. FramesOf(rest) = SubSeq(FramesOf(m), k + 1, n)
  <2> HIDE DEF rest, n
  <2> QED
    BY <1>5, <1>6, <1>7, SeqEqual
<1> QED
  BY <1>4, <1>8

LEMMA HandoffInit == Init => Handoff!Init
<1> SUFFICES ASSUME Init PROVE Handoff!Init
  OBVIOUS
<1>1. mailbox = <<>> /\ ~Holding /\ shown = NoFrame
  BY DEF Init, Holding
<1>2. mailbox \in Seq(Picture) /\ Len(mailbox) = 0
  BY <1>1, EmptySeq
<1>3. FramesOf(mailbox) \in Seq(Frames) /\ Len(FramesOf(mailbox)) = 0
  BY <1>2, FramesOfSeq
<1>4. FramesOf(mailbox) = <<>>
  BY <1>3, EmptySeq
<1> QED
  BY <1>1, <1>4 DEF Handoff!Init, Handoff!NoFrame, FrameHeld, NoFrame

LEMMA HandoffPublish == PictureInv /\ OrderInv /\ SettlePicture => Handoff!Next
<1> SUFFICES ASSUME PictureInv, OrderInv, SettlePicture PROVE Handoff!Next
  OBVIOUS
<1> DEFINE first == Head(submissions).frame
           picture == [slot |-> output.slot, frame |-> first]
<1>1. /\ mailbox' = Append(Waiting, picture) /\ submissions # <<>>
      /\ UNCHANGED <<ppc, current, shown>>
  BY DEF SettlePicture, TrustedOutput, presentVars
<1>2. submissions \in Seq(Submission) /\ mailbox \in Seq(Picture) /\ Len(mailbox) <= Capacity
      /\ Len(mailbox) \in Nat
  BY LenProperties DEF PictureInv, TypeOK, CodecOK, PoolOK
<1>3. /\ first = submissions[1].frame /\ 1 \in 1 .. Len(submissions) /\ first \in Frames
      /\ picture \in Picture
  <2>1. /\ Head(submissions) \in Submission /\ Head(submissions) = submissions[1]
        /\ 1 \in 1 .. Len(submissions)
    BY <1>1, <1>2, HeadTailProperties, EmptySeq
  <2>2. output.slot \in Slots
    BY SettlePictureFacts DEF PictureInv
  <2> QED
    BY <2>1, <2>2 DEF Submission, Picture
<1>4. AfterShown(first)
  BY <1>3 DEF OrderInv
<1>5. Waiting \in Seq(Picture) /\ FramesOf(Waiting) = IF Len(FramesOf(mailbox)) = Capacity
                                                     THEN Tail(FramesOf(mailbox))
                                                     ELSE FramesOf(mailbox)
  <2>1. Len(FramesOf(mailbox)) = Len(mailbox)
    BY <1>2, FramesOfSeq
  <2>2. CASE MailboxFull
    <3>1. mailbox # <<>> /\ Len(mailbox) = Capacity
      BY <1>2, <2>2, SizesAssumption DEF MailboxFull
    <3>2. Tail(mailbox) \in Seq(Picture)
      BY <1>2, <3>1, HeadTailProperties
    <3> QED
      BY <1>2, <2>1, <2>2, <3>1, <3>2, FramesOfTail DEF Waiting
  <2>3. CASE ~MailboxFull
    BY <1>2, <2>1, <2>3, SizesAssumption DEF Waiting, MailboxFull
  <2> QED
    BY <2>2, <2>3
<1>6. FramesOf(mailbox') = Append(FramesOf(Waiting), first)
  <2>1. picture.frame = first
    OBVIOUS
  <2> HIDE DEF picture, first
  <2> QED
    BY <1>1, <1>3, <1>5, <2>1, FramesOfAppend
<1>7. ASSUME NEW g \in Handoff!Seen PROVE g < first
  <2>1. /\ Len(FramesOf(mailbox)) = Len(mailbox)
        /\ \A i \in 1 .. Len(mailbox) : FramesOf(mailbox)[i] = mailbox[i].frame
    BY <1>2, FramesOfSeq
  <2>2. CASE g \in {FramesOf(mailbox)[i] : i \in 1 .. Len(FramesOf(mailbox))}
    BY <1>4, <2>1, <2>2 DEF AfterShown
  <2>3. CASE g = FrameHeld
    BY <1>3, <1>4, <2>3 DEF AfterShown, FrameHeld, NoFrame, Frames
  <2>4. CASE g = shown
    BY <1>4, <2>4 DEF AfterShown
  <2> QED
    BY <1>7, <2>2, <2>3, <2>4 DEF Handoff!Seen
<1>8. Handoff!Publish(first)
  <2>1. FrameHeld' = FrameHeld
    BY <1>1 DEF FrameHeld, Holding
  <2>2. FramesOf(mailbox)' = Append(IF Len(FramesOf(mailbox)) = Capacity
                                    THEN Tail(FramesOf(mailbox)) ELSE FramesOf(mailbox), first)
    BY <1>5, <1>6
  <2> HIDE DEF first
  <2> QED
    BY <1>1, <1>7, <2>1, <2>2 DEF Handoff!Publish
<1> QED
  BY <1>3, <1>8 DEF Handoff!Next, Frames

LEMMA HandoffTake == PictureInv /\ TakePicture => Handoff!Next
<1> SUFFICES ASSUME PictureInv, TakePicture PROVE Handoff!Next
  OBVIOUS
<1>1. PICK k \in 1 .. Len(mailbox) :
        /\ k > 1 => Capacity = 2
        /\ current' = mailbox[k] /\ mailbox' = SubSeq(mailbox, k + 1, Len(mailbox))
  BY DEF TakePicture, Takeable
<1>2. ppc = "choose" /\ ppc' = "deadline" /\ shown' = shown
  BY DEF TakePicture
<1>3. mailbox \in Seq(Picture)
  BY DEF PictureInv, TypeOK, PoolOK
<1>4. /\ Len(FramesOf(mailbox)) = Len(mailbox) /\ FramesOf(mailbox)[k] = mailbox[k].frame
      /\ FramesOf(mailbox)' = SubSeq(FramesOf(mailbox), k + 1, Len(FramesOf(mailbox)))
  BY <1>1, <1>3, FramesOfSeq, FramesOfSubSeq
<1>5. FrameHeld = NoFrame /\ FrameHeld' = mailbox[k].frame
  BY <1>1, <1>2 DEF FrameHeld, Holding
<1>6. Handoff!Take(k)
  BY <1>1, <1>2, <1>4, <1>5 DEF Handoff!Take, Handoff!NoFrame, NoFrame
<1> QED
  BY <1>1, <1>4, <1>6 DEF Handoff!Next

\* The presentation worker shows its picture or gives it up.
LEMMA HandoffPresent ==
  ASSUME PictureInv, PresentStep, ~TakePicture
  PROVE  Handoff!Next \/ UNCHANGED Handoff!vars
<1>1. UNCHANGED mailbox
  BY DEF PresentStep, StopWhileChoosing, StopWhileWaiting, SubmitPicture, SubmitFails,
         FlipCompletes, FlipTimesOut, poolVars
<1>2. FramesOf(mailbox)' = FramesOf(mailbox)
  BY <1>1
<1>3. Holding => FrameHeld # NoFrame /\ FrameHeld = current.frame
  BY DEF PictureInv, ControlOK, Picture, Frames, FrameHeld, NoFrame
<1>4. CASE Holding /\ ~Holding' /\ shown' = shown
  <2>1. FrameHeld' = NoFrame
    BY <1>4 DEF FrameHeld
  <2> QED
    BY <1>2, <1>3, <1>4, <2>1 DEF Handoff!Next, Handoff!GiveUp, Handoff!NoFrame, NoFrame
<1>5. CASE FlipCompletes
  <2>1. Holding /\ FrameHeld' = NoFrame /\ shown' = FrameHeld
    BY <1>3, <1>5 DEF FlipCompletes, FrameHeld, Holding
  <2> QED
    BY <1>2, <1>3, <2>1 DEF Handoff!Next, Handoff!Show, Handoff!NoFrame, NoFrame
<1>6. CASE Holding' = Holding /\ UNCHANGED <<current, shown>>
  BY <1>2, <1>6 DEF FrameHeld, Handoff!vars
<1>7. FlipCompletes
      \/ (Holding /\ ~Holding' /\ shown' = shown)
      \/ (Holding' = Holding /\ UNCHANGED <<current, shown>>)
  BY DEF PresentStep, StopWhileChoosing, StopWhileWaiting, SubmitPicture, SubmitFails,
         FlipTimesOut, Holding
<1> QED
  BY <1>4, <1>5, <1>6, <1>7

\* No other step of the pipeline is seen by the player.
LEMMA HandoffQuiet ==
  ASSUME PictureInv, [Next]_vars, ~SettlePicture, ~PresentStep
  PROVE  UNCHANGED Handoff!vars
<1>1. UNCHANGED <<mailbox, shown, FrameHeld>>
  <2> USE DEF vars, poolVars, decodeVars, callVars, codecVars, queueVars, presentVars, controlVars,
              hostVars, FrameHeld, Holding
  <2>1. CASE LoopTop \/ FrameArrives \/ WaitWoken \/ UnitWhileStopping \/ SkipToKeyframe
    BY <2>1 DEF LoopTop, FrameArrives, WaitWoken, UnitWhileStopping, SkipToKeyframe
  <2>2. CASE ResetFails \/ PrepareUnit \/ HdrMismatch \/ EmptyUnit \/ UnitNotCopied \/ OfferUnit
    BY <2>2 DEF ResetFails, PrepareUnit, HdrMismatch, EmptyUnit, UnitNotCopied, OfferUnit
  <2>3. CASE DecodeFails \/ DecodeNotQueued \/ DecodeReturns \/ FlushReturns \/ FlushFails
    BY <2>3 DEF DecodeFails, DecodeNotQueued, DecodeReturns, FlushReturns, FlushFails
  <2>4. CASE SettleRefuses \/ SettleDelayed \/ UnitRefused \/ UnitDone \/ DrainStepDone
    BY <2>4 DEF SettleRefuses, SettleDelayed, UnitRefused, UnitDone, DrainStepDone
  <2>5. CASE CompleteNeedIdr \/ CompleteOk \/ DrainFlush \/ DrainStarved \/ DrainEnds \/ FaultCheck
    BY <2>5 DEF CompleteNeedIdr, CompleteOk, DrainFlush, DrainStarved, DrainEnds, FaultCheck
  <2>6. CASE FallbackSucceeds \/ FallbackFails
    BY <2>6 DEF FallbackSucceeds, FallbackFails
  <2>7. CASE JoinDecode \/ JoinPresent \/ TearDown \/ StopRenderer \/ UNCHANGED vars
    BY <2>7 DEF JoinDecode, JoinPresent, TearDown, StopRenderer
  <2>8. CASE StartWorkers
    BY <2>8 DEF StartWorkers, PictureInv, ControlOK
  <2> QED
    BY <2>1, <2>2, <2>3, <2>4, <2>5, <2>6, <2>7, <2>8 DEF Next, DecodeStep, JoinStep, SessionOver
<1> QED
  BY <1>1 DEF Handoff!vars

\* The pipeline hands pictures off as PictureHandoff says: frames reach the
\* screen in the order they arrived, only the oldest waiting one is pushed out,
\* and the screen never goes back; whatever the decoder reports and however the
\* workers are stopped.
THEOREM HandsOff == Spec => HandsPicturesOff
<1>1. PictureInv /\ OrderInv /\ [Next]_vars => [Handoff!Next]_(Handoff!vars)
  BY HandoffPublish, HandoffTake, HandoffPresent, HandoffQuiet
<1>2. VideoInv => PictureInv /\ OrderInv
  BY DEF VideoInv
<1> QED
  BY <1>1, <1>2, HandoffInit, VideoInvariant, PTL DEF Spec, HandsPicturesOff, Handoff!Spec
=============================================================================
