--------------------------- MODULE PyroWaveProofs ---------------------------
(***************************************************************************)
(* Proofs about the PyroWave backend, for any number of frames, sessions   *)
(* and images: every frame is counted once, no picture gives way to an     *)
(* older one, no image is kept, and the worker has VideoOut.  And about    *)
(* the walk over a frame that lost packets, for frames and packets of any  *)
(* size: what reaches the decoder is whole records that arrived.           *)
(***************************************************************************)
EXTENDS MCPyroWave, TLAPS, SequenceTheorems, WellFoundedInduction

-----------------------------------------------------------------------------
(* The inductive invariant *)

Libs == [at : {"off", "prepared", "ready", "started", "stopping", "joining", "stopped"},
         sessions : 0..MaxSession]
Confs == [pace : Paces, hdr : BOOLEAN]
Sessions == [is : BOOLEAN, running : BOOLEAN, started : BOOLEAN, queue : Seq(1..MaxFrame)]
Workers == [pc : Steps, frame : Numbers, again : BOOLEAN, cancelled : BOOLEAN,
            wait : {"none", "done", "abandoned"}, shows : BOOLEAN]
Chains == [acquired : BOOLEAN, pending : Seq(1..MaxFrame), panel : Numbers, planes : Numbers]
Tallies == [last : Numbers, incoming : Nat, stale : Nat, rejected : Nat, decoded : Nat,
            unique : Nat, cleared : Nat]

Typed ==
    /\ lib \in Libs /\ conf \in Confs /\ hostHdr \in {"unknown", "on", "off"}
    /\ recv \in Numbers /\ sess \in Sessions /\ wk \in Workers /\ gpu \in Chains
    /\ owner \in {"nobody", "agc", "vulkan"} /\ tally \in Tallies /\ failed \in BOOLEAN

\* The worker lives between start and the join of stop, the receiving thread
\* between start and cleanup, and nothing is left on the GPU outside.
LivesInv ==
    /\ wk.pc # "ended" => lib.at \in {"started", "stopping", "joining"} /\ sess.started
    /\ lib.at \in {"ready", "started", "stopping", "joining", "stopped"} =>
           sess.is /\ owner = "vulkan"
    /\ recv # 0 => lib.at \in {"started", "stopping", "joining", "stopped"}
    /\ lib.at \in {"off", "prepared", "ready"} => gpu = EmptyChain

\* What the worker holds at each of its steps: a frame, or the last picture
\* again, which was shown before.
StepsInv ==
    /\ wk.pc \in {"idle", "asleep"} => wk.frame = 0 /\ ~wk.again /\ ~wk.cancelled
    /\ wk.pc = "admit" => wk.frame = 0 /\ wk.again
    /\ wk.pc \in {"taken", "checked"} => wk.frame # 0 /\ ~wk.again
    /\ wk.pc \in {"acquire", "prepared", "scanout", "deadline", "present", "after"} =>
           (wk.again <=> wk.frame = 0)
    /\ wk.pc # "ended" /\ (wk.shows \/ wk.again) => gpu.planes # 0
    /\ wk.pc = "after" => gpu.planes # 0

\* An image is acquired while there is a place for its picture to wait in.
ImagesInv ==
    /\ Len(gpu.pending) <= Images
    /\ wk.pc \in {"prepared", "scanout", "deadline", "present"} =>
           gpu.planes # 0 /\ Len(gpu.pending) < Images
    /\ gpu.acquired =>
           \/ wk.pc \in {"prepared", "scanout", "deadline", "present"}
           \/ wk.pc = "ended" /\ failed

\* From the panel to the thread that receives, the pictures are in the order of
\* their frames; only a repeated picture stands there twice.
ShownInv ==
    /\ gpu.panel <= gpu.planes
    /\ \A i \in 1..Len(gpu.pending) :
           gpu.panel <= gpu.pending[i] /\ gpu.pending[i] <= gpu.planes
    /\ \A i, j \in 1..Len(gpu.pending) : i <= j => gpu.pending[i] <= gpu.pending[j]

ComingInv ==
    /\ Len(sess.queue) <= Capacity
    /\ \A i, j \in 1..Len(sess.queue) : i < j => sess.queue[i] < sess.queue[j]
    /\ \A i \in 1..Len(sess.queue) :
           /\ gpu.planes < sess.queue[i] /\ sess.queue[i] <= tally.last
           /\ wk.pc # "ended" => wk.frame < sess.queue[i]
           /\ recv # 0 => sess.queue[i] < recv
    /\ recv # 0 => recv = tally.last /\ gpu.planes < recv /\ (wk.pc # "ended" => wk.frame < recv)
    /\ gpu.planes <= tally.last
    /\ wk.pc # "ended" => wk.frame <= tally.last
    /\ wk.pc \in {"taken", "checked", "acquire"} /\ wk.frame # 0 => gpu.planes < wk.frame

PyroInv ==
    /\ Typed /\ LivesInv /\ StepsInv /\ ImagesInv /\ ShownInv /\ ComingInv /\ Accounted

LEMMA PyroStart == Init => PyroInv
<1> SUFFICES ASSUME Init PROVE PyroInv
  OBVIOUS
<1>1. lib \in Libs /\ conf \in Confs
  BY PyroWaveAssumption DEF Init, Libs, Confs, Paces
<1>2. <<>> \in Seq(1..MaxFrame) /\ Len(<<>>) = 0
  BY EmptySeq
<1>3. sess \in Sessions /\ gpu \in Chains
  BY <1>2, PyroWaveAssumption DEF Init, NoSession, EmptyChain, Sessions, Chains, Numbers
<1>4. wk \in Workers
  BY PyroWaveAssumption DEF Init, NoWorker, Workers, Steps, Numbers
<1>5. tally \in Tallies
  BY PyroWaveAssumption DEF Init, NoTally, Tallies, Numbers
<1>6. Typed
  <2>1. hostHdr = "unknown" /\ owner = "nobody" /\ failed = FALSE /\ recv = 0
    BY DEF Init
  <2>2. 0 \in Numbers
    BY PyroWaveAssumption DEF Numbers
  <2>3. failed \in BOOLEAN
    BY <2>1
  <2> QED
    BY <1>1, <1>3, <1>4, <1>5, <2>1, <2>2, <2>3 DEF Typed
<1>7. /\ lib.at = "off" /\ recv = 0 /\ sess.queue = <<>> /\ ~sess.is
      /\ wk.pc = "ended" /\ gpu = EmptyChain
  BY DEF Init, NoSession, NoWorker
<1>8. /\ gpu.pending = <<>> /\ gpu.panel = 0 /\ gpu.planes = 0 /\ ~gpu.acquired
      /\ tally.last = 0
  BY DEF Init, EmptyChain, NoTally
<1>9. LivesInv /\ StepsInv
  BY <1>7 DEF LivesInv, StepsInv
<1>10. ImagesInv /\ ShownInv
  BY <1>2, <1>7, <1>8, PyroWaveAssumption DEF ImagesInv, ShownInv
<1>11. ComingInv /\ Accounted
  BY <1>2, <1>7, <1>8 DEF ComingInv, Accounted, Capacity
<1> QED
  BY <1>6, <1>9, <1>10, <1>11 DEF PyroInv

-----------------------------------------------------------------------------
(* Types *)

LEMMA IdleFields ==
  ASSUME wk \in Workers
  PROVE  /\ Idle \in Workers
         /\ Idle.pc = "idle" /\ Idle.frame = 0 /\ ~Idle.again /\ ~Idle.cancelled
         /\ Idle.shows = wk.shows
<1>1. PICK b \in BOOLEAN : b = wk.shows
  BY DEF Workers
<1>2. PICK c \in Steps : c = "idle"
  BY DEF Steps
<1>3. NoWorker \in Workers /\ NoWorker.frame = 0 /\ ~NoWorker.again /\ ~NoWorker.cancelled
  BY PyroWaveAssumption DEF NoWorker, Workers, Steps, Numbers
<1>4. Idle = [NoWorker EXCEPT !.pc = c, !.shows = b]
  BY <1>1, <1>2 DEF Idle
<1> QED
  BY <1>1, <1>2, <1>3, <1>4 DEF Workers

LEMMA AwakeFields ==
  ASSUME NEW w \in Workers
  PROVE  /\ Awake(w) \in Workers
         /\ Awake(w).pc = IF w.pc = "asleep" THEN "idle" ELSE w.pc
         /\ Awake(w).frame = w.frame /\ Awake(w).again = w.again
         /\ Awake(w).cancelled = w.cancelled /\ Awake(w).shows = w.shows
BY DEF Awake, Workers, Steps

LEMMA EmptyTypes ==
  /\ EmptyChain \in Chains /\ NoSession \in Sessions /\ NoTally \in Tallies
  /\ NoWorker \in Workers
  /\ EmptyChain.pending = <<>> /\ Len(EmptyChain.pending) = 0 /\ EmptyChain.panel = 0
  /\ EmptyChain.planes = 0 /\ ~EmptyChain.acquired
  /\ NoSession.queue = <<>> /\ Len(NoSession.queue) = 0 /\ ~NoSession.is
  /\ NoWorker.pc = "ended"
<1>1. <<>> \in Seq(1..MaxFrame) /\ Len(<<>>) = 0
  BY EmptySeq
<1>2. EmptyChain \in Chains /\ NoSession \in Sessions
  BY <1>1, PyroWaveAssumption DEF EmptyChain, NoSession, Chains, Sessions, Numbers
<1>3. NoTally \in Tallies
  BY PyroWaveAssumption DEF NoTally, Tallies, Numbers
<1>4. NoWorker \in Workers
  BY PyroWaveAssumption DEF NoWorker, Workers, Steps, Numbers
<1> QED
  BY <1>1, <1>2, <1>3, <1>4 DEF EmptyChain, NoSession, NoWorker

\* What is left of a sequence once its first elements are dropped.
LEMMA Dropped ==
  ASSUME NEW S, NEW s \in Seq(S), NEW i \in 1..Len(s)
  PROVE  /\ SubSeq(s, i + 1, Len(s)) \in Seq(S)
         /\ Len(SubSeq(s, i + 1, Len(s))) = Len(s) - i
         /\ \A j \in 1..Len(s) - i : SubSeq(s, i + 1, Len(s))[j] = s[i + j]
<1>1. Len(s) \in Nat /\ i + 1 \in Int /\ Len(s) \in Int
  BY LenProperties
<1>2. \A j \in i + 1..Len(s) : s[j] \in S
  BY <1>1, ElementOfSeq
<1>3. /\ SubSeq(s, i + 1, Len(s)) \in Seq(S)
      /\ Len(SubSeq(s, i + 1, Len(s))) = IF i + 1 <= Len(s) THEN Len(s) - (i + 1) + 1 ELSE 0
      /\ \A j \in 1..Len(s) - (i + 1) + 1 : SubSeq(s, i + 1, Len(s))[j] = s[i + 1 + j - 1]
  BY <1>1, <1>2, SubSeqProperties
<1> QED
  BY <1>1, <1>3

LEMMA LibraryType ==
  ASSUME Typed,
         Prepare \/ Setup \/ SetupFails \/ Start \/ StopFlags \/ Stop \/ Cleanup \/ SetHdr
  PROVE  Typed'
<1>1. /\ lib \in Libs /\ conf \in Confs /\ recv \in Numbers /\ sess \in Sessions
      /\ wk \in Workers /\ gpu \in Chains /\ tally \in Tallies
  BY DEF Typed
<1>2. CASE Prepare
  <2>1. lib' \in Libs
    <3>1. PICK n \in 0..MaxSession : n = lib.sessions + 1
      BY <1>1, <1>2, PyroWaveAssumption DEF Prepare, Libs
    <3>2. lib' = [lib EXCEPT !.at = "prepared", !.sessions = n]
      BY <1>1, <1>2, <3>1 DEF Prepare, Libs
    <3> QED
      BY <1>1, <3>2 DEF Libs
  <2> QED
    BY <1>2, <2>1 DEF Prepare, Typed, Confs
<1>3. CASE Setup
  <2>1. lib' \in Libs
    BY <1>1, <1>3 DEF Setup, Libs
  <2>2. sess' \in Sessions
    BY <1>3, EmptyTypes DEF Setup, Sessions
  <2> QED
    BY <1>3, <2>1, <2>2, EmptyTypes DEF Setup, Typed
<1>4. CASE SetupFails
  <2>1. lib' \in Libs
    BY <1>1, <1>4 DEF SetupFails, Libs
  <2> QED
    BY <1>4, <2>1, EmptyTypes DEF SetupFails, Typed
<1>5. CASE Start
  <2>1. lib' \in Libs
    BY <1>1, <1>5 DEF Start, Libs
  <2>2. sess' \in Sessions
    <3>1. PICK b \in BOOLEAN : b = TRUE
      OBVIOUS
    <3>2. sess' = [sess EXCEPT !.running = b, !.started = b] \/ sess' = [sess EXCEPT !.running = b]
      BY <1>5, <3>1 DEF Start
    <3> QED
      BY <1>1, <3>2 DEF Sessions
  <2>3. wk' \in Workers
    BY <1>1, <1>5, EmptyTypes DEF Start, Workers, Steps
  <2> QED
    BY <1>5, <2>1, <2>2, <2>3 DEF Start, Typed
<1>6. CASE StopFlags
  <2>1. lib' \in Libs
    BY <1>1, <1>6 DEF StopFlags, Libs
  <2>2. sess' \in Sessions
    <3>1. PICK b \in BOOLEAN : b = FALSE
      OBVIOUS
    <3>2. PICK q \in Seq(1..MaxFrame) : q = <<>>
      BY EmptySeq
    <3>3. sess' = [sess EXCEPT !.running = b, !.queue = q]
      BY <1>6, <3>1, <3>2 DEF StopFlags
    <3> QED
      BY <1>1, <3>3 DEF Sessions
  <2>3. tally' \in Tallies
    <3>1. PICK n \in Nat : n = tally.cleared + Len(sess.queue)
      BY <1>1, LenProperties DEF Tallies, Sessions
    <3>2. tally' = [tally EXCEPT !.cleared = n]
      BY <1>1, <1>6, <3>1 DEF StopFlags, Tallies
    <3> QED
      BY <1>1, <3>2 DEF Tallies
  <2> QED
    BY <1>6, <2>1, <2>2, <2>3 DEF StopFlags, Typed
<1>7. CASE StopNotifies
  <2>1. lib' \in Libs
    BY <1>1, <1>7 DEF StopNotifies, Libs
  <2> QED
    BY <1>1, <1>7, <2>1, AwakeFields DEF StopNotifies, Typed
<1>8. CASE StopJoins
  <2>1. lib' \in Libs
    BY <1>1, <1>8 DEF StopJoins, Libs
  <2>2. sess' \in Sessions
    BY <1>1, <1>8 DEF StopJoins, Sessions
  <2> QED
    BY <1>8, <2>1, <2>2 DEF StopJoins, Typed
<1>9. CASE Cleanup
  <2>1. lib' \in Libs
    BY <1>1, <1>9 DEF Cleanup, Libs
  <2> QED
    BY <1>9, <2>1, EmptyTypes DEF Cleanup, Typed
<1>10. CASE SetHdr
  BY <1>10 DEF SetHdr, Typed
<1> QED
  BY <1>2, <1>3, <1>4, <1>5, <1>6, <1>7, <1>8, <1>9, <1>10 DEF Stop

LEMMA SubmitType ==
  ASSUME Typed, SubmitBegins \/ SubmitQueues
  PROVE  Typed'
<1>1. /\ recv \in Numbers /\ sess \in Sessions /\ wk \in Workers /\ tally \in Tallies
  BY DEF Typed
<1>2. CASE SubmitBegins
  <2>1. recv' \in Numbers /\ tally' \in Tallies /\ failed' \in BOOLEAN
    <3>1. CASE UNCHANGED <<recv, tally>>
      BY <1>2, <3>1 DEF SubmitBegins, Typed
    <3>2. CASE ~UNCHANGED <<recv, tally>>
      <4>1. PICK n \in Numbers : recv' = n /\ tally' = [tally EXCEPT !.last = n]
        BY <1>1, <1>2, <3>2, PyroWaveAssumption DEF SubmitBegins, Tallies, Numbers
      <4>2. tally' \in Tallies
        BY <1>1, <4>1 DEF Tallies
      <4> QED
        BY <1>2, <4>1, <4>2 DEF SubmitBegins, Typed
    <3> QED
      BY <3>1, <3>2
  <2> QED
    BY <1>2, <2>1 DEF SubmitBegins, Typed
<1>3. CASE SubmitQueues
  <2>1. CASE ~sess.running
    BY <1>3, <2>1, PyroWaveAssumption DEF SubmitQueues, Typed, Numbers
  <2>2. CASE sess.running
    <3>1. PICK b \in {0, 1} : b = IF Len(sess.queue) = Capacity THEN 1 ELSE 0
      OBVIOUS
    <3>2. PICK kept : kept = IF Len(sess.queue) = Capacity THEN Tail(sess.queue) ELSE sess.queue
      OBVIOUS
    <3>3. sess.queue \in Seq(1..MaxFrame) /\ recv \in 1..MaxFrame
      BY <1>1, <1>3, PyroWaveAssumption DEF SubmitQueues, Sessions, Numbers
    <3>4. kept \in Seq(1..MaxFrame)
      <4>1. CASE Len(sess.queue) = Capacity
        <5>1. sess.queue # <<>>
          BY <4>1, EmptySeq DEF Capacity
        <5> QED
          BY <3>2, <3>3, <4>1, <5>1, HeadTailProperties
      <4>2. CASE Len(sess.queue) # Capacity
        BY <3>2, <3>3, <4>2
      <4> QED
        BY <4>1, <4>2
    <3>5. PICK q \in Seq(1..MaxFrame) : q = Append(kept, recv)
      BY <3>3, <3>4, AppendProperties
    <3>6. sess' = [sess EXCEPT !.queue = q]
      BY <1>3, <2>2, <3>2, <3>5 DEF SubmitQueues
    <3>7. PICK n \in Nat, m \in Nat : n = tally.incoming + 1 /\ m = tally.stale + b
      BY <1>1 DEF Tallies
    <3>8. tally' = [tally EXCEPT !.incoming = n, !.stale = m]
      BY <1>1, <1>3, <2>2, <3>1, <3>7 DEF SubmitQueues, Tallies
    <3>9. sess' \in Sessions /\ tally' \in Tallies
      BY <1>1, <3>6, <3>8 DEF Sessions, Tallies
    <3>10. wk' \in Workers
      BY <1>1, <1>3, <2>2, AwakeFields DEF SubmitQueues
    <3>11. recv' \in Numbers
      BY <1>3, PyroWaveAssumption DEF SubmitQueues, Numbers
    <3> QED
      BY <1>3, <3>9, <3>10, <3>11 DEF SubmitQueues, Typed
  <2> QED
    BY <2>1, <2>2
<1> QED
  BY <1>2, <1>3

LEMMA WorkerType ==
  ASSUME Typed, ImagesInv, Worker \/ DisplayShows
  PROVE  Typed'
<1>1. /\ recv \in Numbers /\ sess \in Sessions /\ wk \in Workers /\ tally \in Tallies
      /\ gpu \in Chains /\ Idle \in Workers
  BY IdleFields DEF Typed
<1>2. CASE WorkerEnds \/ Sleeps \/ WaitScanout \/ WaitDeadline \/ WaitPrepared \/ RepeatDue
           \/ AdmitRepeat
  <2>1. PICK c \in Steps, v \in {"none", "done", "abandoned"}, on \in BOOLEAN :
          on = TRUE /\ wk' \in {Idle, [wk EXCEPT !.pc = c], [wk EXCEPT !.pc = c, !.again = on],
                              [wk EXCEPT !.pc = c, !.wait = v],
                              [wk EXCEPT !.pc = c, !.wait = v, !.cancelled = on]}
    <3>1. /\ {"ended", "asleep", "admit", "acquire", "present", "scanout", "deadline"} \subseteq Steps
          /\ TRUE \in BOOLEAN
      BY DEF Steps
    <3>2. CASE WorkerEnds \/ Sleeps \/ RepeatDue \/ AdmitRepeat
      BY <3>1, <3>2 DEF WorkerEnds, Sleeps, RepeatDue, AdmitRepeat
    <3>3. CASE WaitScanout \/ WaitDeadline \/ WaitPrepared
      BY <3>1, <3>3 DEF WaitScanout, WaitDeadline, WaitPrepared
    <3> QED
      BY <1>2, <3>2, <3>3
  <2>2. wk' \in Workers
    BY <1>1, <2>1 DEF Workers
  <2>3. UNCHANGED <<lents, sess, gpu, tally, failed>>
    BY <1>2 DEF WorkerEnds, Sleeps, WaitScanout, WaitDeadline, WaitPrepared, RepeatDue, AdmitRepeat
  <2> QED
    BY <2>2, <2>3 DEF lents, Typed
<1>3. CASE Take
  <2>1. PICK i \in 1..Len(sess.queue) :
          /\ wk' = [wk EXCEPT !.pc = "taken", !.frame = sess.queue[i]]
          /\ sess' = [sess EXCEPT !.queue = SubSeq(@, i + 1, Len(@))]
          /\ tally' = [tally EXCEPT !.stale = @ + i - 1]
    <3>1. sess.queue \in Seq(1..MaxFrame) /\ sess.queue # <<>>
      BY <1>1, <1>3 DEF Take, Sessions
    <3>2. Len(sess.queue) \in 1..Len(sess.queue)
      BY <3>1, EmptySeq, LenProperties
    <3> QED
      BY <1>3, <3>2 DEF Take
  <2>2. sess.queue \in Seq(1..MaxFrame)
    BY <1>1 DEF Sessions
  <2>3. sess.queue[i] \in 1..MaxFrame /\ SubSeq(sess.queue, i + 1, Len(sess.queue)) \in Seq(1..MaxFrame)
    BY <2>2, ElementOfSeq, Dropped
  <2>4. wk' \in Workers
    <3>1. PICK c \in Steps, n \in Numbers : c = "taken" /\ n = sess.queue[i]
      BY <2>3, PyroWaveAssumption DEF Steps, Numbers
    <3>2. wk' = [wk EXCEPT !.pc = c, !.frame = n]
      BY <2>1, <3>1
    <3> QED
      BY <1>1, <3>2 DEF Workers
  <2>5. sess' \in Sessions
    BY <1>1, <2>1, <2>3 DEF Sessions
  <2>6. tally' \in Tallies
    <3>1. PICK n \in Nat : n = tally.stale + i - 1
      BY <1>1, <2>1 DEF Tallies
    <3> QED
      BY <1>1, <2>1, <3>1 DEF Tallies
  <2> QED
    BY <1>3, <2>4, <2>5, <2>6 DEF Take, lents, Typed
<1>4. CASE Superseded \/ Ingest
  <2>1. wk' \in Workers
    BY <1>1, <1>4 DEF Superseded, Ingest, Workers, Steps
  <2>2. tally' \in Tallies
    <3>1. PICK n \in Nat, m \in Nat, k \in Nat :
            n = tally.stale + 1 /\ m = tally.rejected + 1 /\ k = tally.decoded + 1
      BY <1>1 DEF Tallies
    <3>2. tally' \in {tally, [tally EXCEPT !.stale = n], [tally EXCEPT !.rejected = m],
                      [tally EXCEPT !.decoded = k]}
      BY <1>1, <1>4, <3>1 DEF Superseded, Ingest, Tallies
    <3> QED
      BY <1>1, <3>2 DEF Tallies
  <2> QED
    BY <1>4, <2>1, <2>2 DEF Superseded, Ingest, lents, Typed
<1>5. CASE Acquire
  <2>1. wk' \in Workers
    BY <1>1, <1>5 DEF Acquire, Workers, Steps
  <2>2. gpu' \in Chains
    <3>1. PICK b \in BOOLEAN, n \in Numbers :
            b = TRUE /\ n = IF wk.again THEN gpu.planes ELSE wk.frame
      BY <1>1 DEF Workers, Chains
    <3>2. gpu' = gpu \/ gpu' = [gpu EXCEPT !.acquired = b, !.planes = n]
      BY <1>1, <1>5, <3>1 DEF Acquire, Chains
    <3> QED
      BY <1>1, <3>2 DEF Chains
  <2> QED
    BY <1>5, <2>1, <2>2 DEF Acquire, lents, Typed
<1>6. CASE Present
  <2>1. wk' \in Workers
    BY <1>1, <1>6 DEF Present, Workers, Steps
  <2>2. gpu' \in Chains
    <3>1. gpu.planes \in 1..MaxFrame
      BY <1>1, <1>6, PyroWaveAssumption DEF Present, ImagesInv, Chains, Numbers
    <3>2. PICK s \in Seq(1..MaxFrame), b \in BOOLEAN :
            s = Append(gpu.pending, gpu.planes) /\ b = FALSE
      BY <1>1, <3>1, AppendProperties DEF Chains
    <3>3. gpu' = [gpu EXCEPT !.acquired = b, !.pending = s]
      BY <1>1, <1>6, <3>2 DEF Present, Chains
    <3> QED
      BY <1>1, <3>3 DEF Chains
  <2> QED
    BY <1>6, <2>1, <2>2 DEF Present, lents, Typed
<1>7. CASE AfterPresent
  <2>1. wk' \in Workers
    BY <1>1, <1>7 DEF AfterPresent, Workers, Steps
  <2>2. tally' \in Tallies
    BY <1>1, <1>7 DEF AfterPresent, Tallies
  <2>3. failed' \in BOOLEAN
    BY <1>7 DEF AfterPresent, Typed
  <2> QED
    BY <1>7, <2>1, <2>2, <2>3 DEF AfterPresent, lents, Typed
<1>8. CASE Throws
  <2>1. wk' \in Workers
    BY <1>1, <1>8 DEF Throws, Workers, Steps
  <2> QED
    BY <1>8, <2>1 DEF Throws, lents, Typed
<1>9. CASE DisplayShows
  <2>1. /\ Head(gpu.pending) \in 1..MaxFrame /\ Tail(gpu.pending) \in Seq(1..MaxFrame)
    BY <1>1, <1>9, HeadTailProperties DEF DisplayShows, Chains
  <2>2. PICK n \in Numbers : n = Head(gpu.pending)
    BY <2>1, PyroWaveAssumption DEF Numbers
  <2>3. PICK s \in Seq(1..MaxFrame) : s = Tail(gpu.pending)
    BY <2>1
  <2>4. gpu' = [gpu EXCEPT !.panel = n, !.pending = s]
    BY <1>1, <1>9, <2>2, <2>3 DEF DisplayShows, Chains
  <2>5. gpu' \in Chains
    BY <1>1, <2>4 DEF Chains
  <2> QED
    BY <1>9, <2>5 DEF DisplayShows, lents, Typed
<1> QED
  BY <1>2, <1>3, <1>4, <1>5, <1>6, <1>7, <1>8, <1>9 DEF Worker

LEMMA TypeStep == PyroInv /\ [Next]_pyroVars => Typed'
<1> SUFFICES ASSUME PyroInv, [Next]_pyroVars PROVE Typed'
  OBVIOUS
<1>1. Typed /\ ImagesInv
  BY DEF PyroInv
<1>2. CASE UNCHANGED pyroVars
  BY <1>1, <1>2 DEF pyroVars, Typed
<1> QED
  BY <1>1, <1>2, LibraryType, SubmitType, WorkerType DEF Next

-----------------------------------------------------------------------------
(* The steps keep each part *)

\* A step of the worker is the worker's: it lived before, and what it lives on
\* stays.
LEMMA WorkerFields ==
  ASSUME Typed, Worker
  PROVE  /\ wk.pc # "ended"
         /\ UNCHANGED <<lib, owner, recv>>
         /\ sess'.is = sess.is /\ sess'.started = sess.started
         /\ Take \/ sess' = sess
         /\ Acquire \/ Present \/ gpu' = gpu
<1>1. CASE Take
  BY <1>1 DEF Take, Typed, Sessions, lents
<1>2. CASE Worker /\ ~Take
  <2>1. CASE WorkerEnds \/ Sleeps \/ RepeatDue \/ AdmitRepeat \/ Superseded \/ Ingest
    BY <2>1 DEF WorkerEnds, Sleeps, RepeatDue, AdmitRepeat, Superseded, Ingest, lents
  <2>2. CASE Acquire \/ WaitPrepared \/ WaitScanout \/ WaitDeadline \/ Present \/ AfterPresent
             \/ Throws
    BY <2>2 DEF Acquire, WaitPrepared, WaitScanout, WaitDeadline, Present, AfterPresent, Throws,
       lents
  <2> QED
    BY <1>2, <2>1, <2>2 DEF Worker
<1> QED
  BY <1>1, <1>2

LEMMA LivesStep == PyroInv /\ [Next]_pyroVars => LivesInv'
<1> SUFFICES ASSUME PyroInv, [Next]_pyroVars PROVE LivesInv'
  OBVIOUS
<1>1. /\ Typed /\ LivesInv /\ ImagesInv
      /\ lib \in Libs /\ sess \in Sessions /\ wk \in Workers /\ gpu \in Chains
  BY DEF PyroInv, Typed
<1>2. CASE UNCHANGED <<lib, recv, sess, wk, gpu, owner>>
  BY <1>1, <1>2 DEF LivesInv
<1>3. CASE Prepare
  <2>1. lib.at = "off" /\ lib'.at = "prepared"
    BY <1>1, <1>3 DEF Prepare, Libs
  <2> QED
    BY <1>1, <1>3, <2>1 DEF Prepare, LivesInv
<1>4. CASE Setup
  <2>1. lib.at = "prepared" /\ lib'.at = "ready" /\ sess'.is
    BY <1>1, <1>4 DEF Setup, Libs, NoSession
  <2> QED
    BY <1>1, <1>4, <2>1 DEF Setup, LivesInv
<1>5. CASE SetupFails
  <2>1. lib.at = "prepared" /\ lib'.at = "off"
    BY <1>1, <1>5 DEF SetupFails, Libs
  <2> QED
    BY <1>1, <1>5, <2>1 DEF SetupFails, LivesInv
<1>6. CASE Start
  <2>1. /\ lib.at = "ready" /\ lib'.at = "started" /\ sess'.is = sess.is
        /\ wk'.pc = wk.pc \/ sess'.started
    BY <1>1, <1>6 DEF Start, Libs, Sessions
  <2> QED
    BY <1>1, <1>6, <2>1 DEF Start, LivesInv
<1>7. CASE StopFlags
  <2>1. /\ lib.at = "started" /\ lib'.at = "stopping" /\ sess'.is = sess.is
        /\ sess'.started = sess.started
    BY <1>1, <1>7 DEF StopFlags, Libs, Sessions
  <2> QED
    BY <1>1, <1>7, <2>1 DEF StopFlags, LivesInv
<1>8. CASE StopNotifies
  <2>1. /\ lib.at = "stopping" /\ lib'.at = "joining"
        /\ wk'.pc # "ended" => wk.pc # "ended"
    BY <1>1, <1>8, AwakeFields DEF StopNotifies, Libs
  <2> QED
    BY <1>1, <1>8, <2>1 DEF StopNotifies, LivesInv
<1>9. CASE StopJoins
  <2>1. /\ lib.at = "joining" /\ lib'.at = "stopped" /\ sess'.is = sess.is
        /\ wk.pc = "ended"
    BY <1>1, <1>9 DEF StopJoins, Libs, Sessions, LivesInv
  <2> QED
    BY <1>1, <1>9, <2>1 DEF StopJoins, LivesInv
<1>10. CASE Cleanup
  <2>1. lib.at \in {"ready", "stopped"} /\ lib'.at = "off" /\ recv = 0
    BY <1>1, <1>10 DEF Cleanup, Libs
  <2> QED
    BY <1>1, <1>10, <2>1 DEF Cleanup, LivesInv
<1>11. CASE SetHdr \/ UNCHANGED pyroVars
  BY <1>2, <1>11 DEF SetHdr, pyroVars
<1>12. CASE SubmitBegins
  BY <1>1, <1>12 DEF SubmitBegins, LivesInv
<1>13. CASE SubmitQueues
  <2>1. /\ sess'.is = sess.is /\ sess'.started = sess.started
        /\ wk'.pc # "ended" => wk.pc # "ended"
    BY <1>1, <1>13, AwakeFields DEF SubmitQueues, Sessions
  <2> QED
    BY <1>1, <1>13, <2>1 DEF SubmitQueues, LivesInv
<1>14. CASE Worker
  <2>1. lib.at \in {"started", "stopping", "joining"} /\ lib' = lib
    BY <1>1, <1>14, WorkerFields DEF LivesInv
  <2> QED
    BY <1>1, <1>14, <2>1, WorkerFields DEF LivesInv
<1>15. CASE DisplayShows
  <2>1. gpu # EmptyChain
    BY <1>15 DEF DisplayShows, EmptyChain
  <2> QED
    BY <1>1, <1>15, <2>1 DEF DisplayShows, lents, LivesInv
<1> QED
  BY <1>3, <1>4, <1>5, <1>6, <1>7, <1>8, <1>9, <1>10, <1>11, <1>12, <1>13, <1>14, <1>15 DEF Next,
     Stop

\* What the others do to the worker and its images.
LEMMA OthersFields ==
  ASSUME PyroInv,
         Prepare \/ Setup \/ SetupFails \/ Start \/ StopFlags \/ Stop \/ Cleanup \/ SetHdr
         \/ SubmitBegins \/ SubmitQueues \/ UNCHANGED pyroVars
  PROVE  \/ /\ wk'.pc = wk.pc \/ (wk.pc = "asleep" /\ wk'.pc = "idle")
            /\ wk'.frame = wk.frame /\ wk'.again = wk.again
            /\ wk'.cancelled = wk.cancelled /\ wk'.shows = wk.shows
            /\ gpu' = gpu
            /\ Prepare \/ (failed => failed')
         \/ /\ wk'.pc = "idle" /\ wk'.frame = 0 /\ ~wk'.again /\ ~wk'.cancelled /\ ~wk'.shows
            /\ gpu = EmptyChain /\ gpu' = gpu /\ sess' = [sess EXCEPT !.running = TRUE, !.started = TRUE]
            /\ wk.pc = "ended" /\ UNCHANGED <<recv, tally>>
         \/ gpu' = EmptyChain /\ wk' = wk /\ wk.pc = "ended"
<1>1. /\ Typed /\ LivesInv /\ lib \in Libs /\ sess \in Sessions /\ wk \in Workers
  BY DEF PyroInv, Typed
<1>2. CASE Prepare \/ SetupFails \/ StopFlags \/ SetHdr \/ SubmitBegins \/ UNCHANGED pyroVars
  BY <1>2 DEF Prepare, SetupFails, StopFlags, SetHdr, SubmitBegins, pyroVars
<1>3. CASE Setup
  BY <1>1, <1>3 DEF Setup, LivesInv
<1>4. CASE Start
  <2>1. CASE wk' = wk /\ failed'
    BY <1>4, <2>1 DEF Start
  <2>2. CASE wk' = [NoWorker EXCEPT !.pc = "idle"]
            /\ sess' = [sess EXCEPT !.running = TRUE, !.started = TRUE]
    <3>1. wk'.pc = "idle" /\ wk'.frame = 0 /\ ~wk'.again /\ ~wk'.cancelled /\ ~wk'.shows
      BY <2>2 DEF NoWorker
    <3>2. gpu = EmptyChain /\ gpu' = gpu /\ wk.pc = "ended" /\ UNCHANGED <<recv, tally>>
      BY <1>1, <1>4 DEF Start, LivesInv
    <3> QED
      BY <2>2, <3>1, <3>2
  <2> QED
    BY <1>4, <2>1, <2>2 DEF Start
<1>5. CASE Stop
  BY <1>1, <1>5, AwakeFields DEF Stop, StopNotifies, StopJoins
<1>6. CASE Cleanup
  BY <1>1, <1>6 DEF Cleanup, LivesInv
<1>7. CASE SubmitQueues
  BY <1>1, <1>7, AwakeFields DEF SubmitQueues
<1> QED
  BY <1>2, <1>3, <1>4, <1>5, <1>6, <1>7

LEMMA StepsStep == PyroInv /\ [Next]_pyroVars => StepsInv'
<1> SUFFICES ASSUME PyroInv, [Next]_pyroVars PROVE StepsInv'
  OBVIOUS
<1>1. /\ Typed /\ StepsInv /\ ImagesInv /\ ComingInv
      /\ sess \in Sessions /\ wk \in Workers /\ gpu \in Chains
      /\ Idle.pc = "idle" /\ Idle.frame = 0 /\ ~Idle.again /\ ~Idle.cancelled
      /\ Idle.shows = wk.shows /\ Idle \in Workers
  BY IdleFields DEF PyroInv, Typed
<1>2. CASE Prepare \/ Setup \/ SetupFails \/ Start \/ StopFlags \/ Stop \/ Cleanup \/ SetHdr
           \/ SubmitBegins \/ SubmitQueues \/ UNCHANGED pyroVars
  <2>1. CASE /\ wk'.pc = "idle" /\ wk'.frame = 0 /\ ~wk'.again /\ ~wk'.cancelled /\ ~wk'.shows
    BY <2>1 DEF StepsInv
  <2>2. CASE gpu' = EmptyChain /\ wk' = wk /\ wk.pc = "ended"
    BY <2>2 DEF StepsInv
  <2>3. CASE /\ wk'.pc = wk.pc \/ (wk.pc = "asleep" /\ wk'.pc = "idle")
             /\ wk'.frame = wk.frame /\ wk'.again = wk.again
             /\ wk'.cancelled = wk.cancelled /\ wk'.shows = wk.shows
             /\ gpu' = gpu
    BY <1>1, <2>3 DEF StepsInv
  <2> QED
    BY <1>2, <2>1, <2>2, <2>3, OthersFields
<1>3. CASE wk'.pc = "ended"
  BY <1>3 DEF StepsInv
<1>4. CASE wk' = Idle /\ gpu' = gpu /\ wk.pc # "ended"
  BY <1>1, <1>4 DEF StepsInv
<1>5. CASE WorkerEnds \/ Throws
  BY <1>1, <1>3, <1>5 DEF WorkerEnds, Throws, Workers
<1>6. CASE Sleeps
  BY <1>1, <1>6 DEF Sleeps, Workers, StepsInv
<1>7. CASE RepeatDue
  BY <1>1, <1>7 DEF RepeatDue, Workers, StepsInv
<1>8. CASE AdmitRepeat
  BY <1>1, <1>4, <1>8 DEF AdmitRepeat, Workers, StepsInv
<1>9. CASE Take
  <2>1. PICK i \in 1..Len(sess.queue) :
          wk' = [wk EXCEPT !.pc = "taken", !.frame = sess.queue[i]] /\ gpu' = gpu
    <3>1. sess.queue \in Seq(1..MaxFrame) /\ sess.queue # <<>>
      BY <1>1, <1>9 DEF Take, Sessions
    <3>2. Len(sess.queue) \in 1..Len(sess.queue)
      BY <3>1, EmptySeq, LenProperties
    <3> QED
      BY <1>9, <3>2 DEF Take
  <2>2. sess.queue[i] \in 1..MaxFrame
    BY <1>1, <2>1, ElementOfSeq DEF Sessions
  <2>3. /\ wk'.pc = "taken" /\ wk'.frame # 0 /\ wk'.again = wk.again /\ wk'.shows = wk.shows
    BY <1>1, <2>1, <2>2, PyroWaveAssumption DEF Workers
  <2> QED
    BY <1>1, <1>9, <2>1, <2>3 DEF Take, StepsInv
<1>10. CASE Superseded
  BY <1>1, <1>4, <1>10 DEF Superseded, Workers, StepsInv
<1>11. CASE Ingest
  BY <1>1, <1>4, <1>11 DEF Ingest, Workers, StepsInv
<1>12. CASE Acquire
  <2>1. CASE wk' = Idle /\ gpu' = gpu
    BY <1>4, <1>12, <2>1 DEF Acquire
  <2>2. CASE /\ gpu' = [gpu EXCEPT !.acquired = TRUE,
                                   !.planes = IF wk.again THEN @ ELSE wk.frame]
             /\ wk' = [wk EXCEPT !.pc = "prepared"]
    <3>1. gpu'.planes = IF wk.again THEN gpu.planes ELSE wk.frame
      BY <1>1, <2>2 DEF Chains
    <3>2. /\ wk'.pc = "prepared" /\ wk'.frame = wk.frame /\ wk'.again = wk.again
          /\ wk'.shows = wk.shows
      BY <1>1, <2>2 DEF Workers
    <3> QED
      BY <1>1, <1>12, <3>1, <3>2 DEF Acquire, StepsInv
  <2> QED
    BY <1>12, <2>1, <2>2 DEF Acquire
<1>13. CASE WaitPrepared \/ WaitScanout \/ WaitDeadline
  <2>1. /\ wk'.frame = wk.frame /\ wk'.again = wk.again /\ wk'.shows = wk.shows /\ gpu' = gpu
        /\ wk'.pc \in {"present", "scanout", "deadline"}
        /\ wk.pc \in {"prepared", "scanout", "deadline"}
    BY <1>1, <1>13 DEF WaitPrepared, WaitScanout, WaitDeadline, Workers
  <2> QED
    BY <1>1, <2>1 DEF StepsInv
<1>14. CASE Present
  <2>1. /\ wk'.frame = wk.frame /\ wk'.again = wk.again /\ wk'.shows = wk.shows
        /\ wk'.pc = "after" /\ wk.pc = "present" /\ gpu'.planes = gpu.planes
    BY <1>1, <1>14 DEF Present, Workers, Chains
  <2> QED
    BY <1>1, <2>1 DEF StepsInv, ImagesInv
<1>15. CASE AfterPresent
  <2>1. CASE wk' = [Idle EXCEPT !.shows = TRUE] /\ ~wk.again
    <3>1. wk'.pc = "idle" /\ wk'.frame = 0 /\ ~wk'.again /\ ~wk'.cancelled
      BY <1>1, <2>1 DEF Workers
    <3>2. gpu'.planes # 0
      BY <1>1, <1>15, <2>1 DEF AfterPresent, StepsInv
    <3> QED
      BY <3>1, <3>2 DEF StepsInv
  <2>2. CASE wk' = Idle
    BY <1>4, <1>15, <2>2 DEF AfterPresent
  <2>3. CASE wk' = [wk EXCEPT !.pc = "ended"]
    BY <1>1, <1>3, <2>3 DEF Workers
  <2> QED
    BY <1>15, <2>1, <2>2, <2>3 DEF AfterPresent
<1>16. CASE DisplayShows
  <2>1. gpu'.planes = gpu.planes /\ wk' = wk
    BY <1>1, <1>16 DEF DisplayShows, Chains
  <2> QED
    BY <1>1, <2>1 DEF StepsInv
<1> QED
  BY <1>2, <1>5, <1>6, <1>7, <1>8, <1>9, <1>10, <1>11, <1>12, <1>13, <1>14, <1>15, <1>16
     DEF Next, Worker

LEMMA ImagesStep == PyroInv /\ [Next]_pyroVars => ImagesInv'
<1> SUFFICES ASSUME PyroInv, [Next]_pyroVars PROVE ImagesInv'
  OBVIOUS
<1>1. /\ Typed /\ StepsInv /\ ImagesInv /\ LivesInv
      /\ wk \in Workers /\ gpu \in Chains /\ Len(gpu.pending) \in Nat
      /\ Idle.pc = "idle" /\ Idle \in Workers
      /\ Images \in Nat \ {0}
  BY IdleFields, LenProperties, PyroWaveAssumption DEF PyroInv, Typed, Chains
<1>2. CASE Prepare \/ Setup \/ SetupFails \/ Start \/ StopFlags \/ Stop \/ Cleanup \/ SetHdr
           \/ SubmitBegins \/ SubmitQueues \/ UNCHANGED pyroVars
  <2>1. CASE gpu' = gpu /\ gpu = EmptyChain /\ wk'.pc = "idle"
    <3>1. Len(gpu'.pending) = 0 /\ ~gpu'.acquired
      BY <2>1, EmptyTypes
    <3> QED
      BY <1>1, <2>1, <3>1 DEF ImagesInv
  <2>2. CASE gpu' = EmptyChain /\ wk' = wk /\ wk.pc = "ended"
    <3>1. Len(gpu'.pending) = 0 /\ ~gpu'.acquired
      BY <2>2, EmptyTypes
    <3> QED
      BY <1>1, <2>2, <3>1 DEF ImagesInv
  <2>3. CASE /\ wk'.pc = wk.pc \/ (wk.pc = "asleep" /\ wk'.pc = "idle")
             /\ gpu' = gpu /\ Prepare
    <3>1. gpu = EmptyChain /\ wk' = wk
      BY <1>1, <2>3 DEF Prepare, LivesInv
    <3>2. ~gpu'.acquired
      BY <2>3, <3>1, EmptyTypes
    <3> QED
      BY <1>1, <2>3, <3>1, <3>2 DEF ImagesInv
  <2>4. CASE /\ wk'.pc = wk.pc \/ (wk.pc = "asleep" /\ wk'.pc = "idle")
             /\ gpu' = gpu /\ (failed => failed')
    BY <1>1, <2>4 DEF ImagesInv
  <2> QED
    BY <1>2, <2>1, <2>2, <2>3, <2>4, OthersFields
<1>3. CASE /\ wk.pc \notin {"prepared", "scanout", "deadline", "present", "ended"} /\ gpu' = gpu
           /\ wk'.pc \notin {"prepared", "scanout", "deadline", "present"}
  BY <1>1, <1>3 DEF ImagesInv
<1>4. CASE WorkerEnds \/ Sleeps \/ RepeatDue \/ AdmitRepeat \/ Superseded \/ Ingest \/ AfterPresent
  <2>1. CASE WorkerEnds \/ Sleeps \/ RepeatDue \/ AdmitRepeat
    BY <1>1, <1>3, <2>1 DEF WorkerEnds, Sleeps, RepeatDue, AdmitRepeat, Workers
  <2>2. CASE Superseded \/ Ingest
    BY <1>1, <1>3, <2>2 DEF Superseded, Ingest, Workers
  <2>3. CASE AfterPresent
    <3>1. wk.pc = "after" /\ gpu' = gpu
      BY <2>3 DEF AfterPresent
    <3>2. wk'.pc \in {"ended", "idle"}
      BY <1>1, <2>3 DEF AfterPresent, Workers
    <3> QED
      BY <1>3, <3>1, <3>2
  <2> QED
    BY <1>4, <2>1, <2>2, <2>3
<1>5. CASE Take
  BY <1>1, <1>3, <1>5 DEF Take, Workers
<1>6. CASE Acquire
  <2>1. CASE wk' = Idle /\ gpu' = gpu
    BY <1>1, <1>3, <1>6, <2>1 DEF Acquire
  <2>2. CASE /\ Len(gpu.pending) < Images - 1
             /\ gpu' = [gpu EXCEPT !.acquired = TRUE,
                                   !.planes = IF wk.again THEN @ ELSE wk.frame]
             /\ wk' = [wk EXCEPT !.pc = "prepared"]
    <3>1. gpu'.pending = gpu.pending /\ gpu'.planes = IF wk.again THEN gpu.planes ELSE wk.frame
      BY <1>1, <2>2 DEF Chains
    <3>2. wk'.pc = "prepared"
      BY <1>1, <2>2 DEF Workers
    <3> QED
      BY <1>1, <1>6, <2>2, <3>1, <3>2 DEF Acquire, StepsInv, ImagesInv
  <2> QED
    BY <1>6, <2>1, <2>2 DEF Acquire
<1>7. CASE WaitPrepared \/ WaitScanout \/ WaitDeadline
  <2>1. /\ gpu' = gpu /\ wk'.pc \in {"present", "scanout", "deadline"}
        /\ wk.pc \in {"prepared", "scanout", "deadline"}
    BY <1>1, <1>7 DEF WaitPrepared, WaitScanout, WaitDeadline, Workers
  <2> QED
    BY <1>1, <2>1 DEF ImagesInv
<1>8. CASE Present
  <2>1. wk'.pc = "after" /\ wk.pc = "present" /\ ~gpu'.acquired
    BY <1>1, <1>8 DEF Present, Workers, Chains
  <2>2. gpu.planes \in 1..MaxFrame
    BY <1>1, <2>1, PyroWaveAssumption DEF ImagesInv, Chains, Numbers
  <2>3. gpu'.pending = Append(gpu.pending, gpu.planes)
    BY <1>1, <1>8 DEF Present, Chains
  <2>4. Len(gpu'.pending) = Len(gpu.pending) + 1
    BY <1>1, <2>2, <2>3, AppendProperties DEF Chains
  <2> QED
    BY <1>1, <2>1, <2>4 DEF ImagesInv
<1>9. CASE Throws
  BY <1>1, <1>9 DEF Throws, Workers, ImagesInv
<1>10. CASE DisplayShows
  <2>1. gpu'.pending = Tail(gpu.pending) /\ gpu'.planes = gpu.planes /\ gpu'.acquired = gpu.acquired
    BY <1>1, <1>10 DEF DisplayShows, Chains
  <2>2. Len(gpu'.pending) = Len(gpu.pending) - 1
    BY <1>1, <1>10, <2>1, HeadTailProperties DEF DisplayShows, Chains
  <2> QED
    BY <1>1, <1>10, <2>1, <2>2 DEF DisplayShows, ImagesInv
<1> QED
  BY <1>2, <1>4, <1>5, <1>6, <1>7, <1>8, <1>9, <1>10 DEF Next, Worker

LEMMA ShownStep == PyroInv /\ [Next]_pyroVars => ShownInv'
<1> SUFFICES ASSUME PyroInv, [Next]_pyroVars PROVE ShownInv'
  OBVIOUS
<1>1. /\ Typed /\ StepsInv /\ ImagesInv /\ ShownInv /\ ComingInv /\ gpu \in Chains
      /\ gpu.pending \in Seq(1..MaxFrame) /\ Len(gpu.pending) \in Nat
      /\ gpu.panel \in Nat /\ gpu.planes \in Nat /\ wk.frame \in Nat
      /\ \A i \in 1..Len(gpu.pending) : gpu.pending[i] \in Nat
  BY LenProperties, ElementOfSeq, PyroWaveAssumption DEF PyroInv, Typed, Chains, Workers, Numbers
<1>2. CASE gpu' = gpu
  BY <1>1, <1>2 DEF ShownInv
<1>3. CASE gpu' = EmptyChain
  <2>1. Len(gpu'.pending) = 0 /\ gpu'.panel = 0 /\ gpu'.planes = 0
    BY <1>3, EmptyTypes
  <2> QED
    BY <2>1 DEF ShownInv
<1>4. CASE Acquire
  <2>1. CASE gpu' = gpu
    BY <1>2, <2>1
  <2>2. CASE gpu' = [gpu EXCEPT !.acquired = TRUE, !.planes = IF wk.again THEN @ ELSE wk.frame]
    <3>1. /\ gpu'.pending = gpu.pending /\ gpu'.panel = gpu.panel
          /\ gpu'.planes = IF wk.again THEN gpu.planes ELSE wk.frame
      BY <1>1, <2>2 DEF Chains
    <3>2. gpu.planes <= gpu'.planes /\ gpu'.planes \in Nat
      BY <1>1, <1>4, <3>1 DEF Acquire, StepsInv, ComingInv
    <3> QED
      BY <1>1, <3>1, <3>2 DEF ShownInv
  <2> QED
    BY <1>4, <2>1, <2>2 DEF Acquire
<1>5. CASE Present
  <2>1. gpu.planes \in 1..MaxFrame
    BY <1>1, <1>5, PyroWaveAssumption DEF Present, ImagesInv, Chains, Numbers
  <2>2. /\ gpu'.pending = Append(gpu.pending, gpu.planes) /\ gpu'.panel = gpu.panel
        /\ gpu'.planes = gpu.planes
    BY <1>1, <1>5 DEF Present, Chains
  <2>3. /\ Len(gpu'.pending) = Len(gpu.pending) + 1
        /\ \A i \in 1..Len(gpu.pending) : gpu'.pending[i] = gpu.pending[i]
        /\ gpu'.pending[Len(gpu.pending) + 1] = gpu.planes
    BY <1>1, <2>1, <2>2, AppendProperties
  <2> QED
    BY <1>1, <2>2, <2>3 DEF ShownInv
<1>6. CASE DisplayShows
  <2>1. /\ gpu'.pending = Tail(gpu.pending) /\ gpu'.panel = Head(gpu.pending)
        /\ gpu'.planes = gpu.planes
    BY <1>1, <1>6 DEF DisplayShows, Chains
  <2>2. /\ Len(gpu'.pending) = Len(gpu.pending) - 1
        /\ \A i \in 1..Len(gpu'.pending) : gpu'.pending[i] = gpu.pending[i + 1]
    BY <1>1, <1>6, <2>1, HeadTailProperties DEF DisplayShows
  <2>3. gpu'.panel = gpu.pending[1] /\ 1 <= Len(gpu.pending)
    BY <1>1, <1>6, <2>1, EmptySeq DEF DisplayShows
  <2> QED
    BY <1>1, <2>1, <2>2, <2>3 DEF ShownInv
<1>7. CASE Worker /\ ~Acquire /\ ~Present
  BY <1>1, <1>2, <1>7, WorkerFields
<1> QED
  BY <1>2, <1>3, <1>4, <1>5, <1>6, <1>7, OthersFields DEF Next

\* What Take takes: one frame, and those before it are dropped.
LEMMA TakeFields ==
  ASSUME Typed, Take
  PROVE  \E i \in 1..Len(sess.queue) :
             /\ wk'.pc = "taken" /\ wk'.frame = sess.queue[i]
             /\ Len(sess'.queue) = Len(sess.queue) - i
             /\ \A j \in 1..Len(sess'.queue) : sess'.queue[j] = sess.queue[i + j]
             /\ tally'.last = tally.last /\ tally'.incoming = tally.incoming
             /\ tally'.stale = tally.stale + i - 1 /\ tally'.rejected = tally.rejected
             /\ tally'.decoded = tally.decoded /\ tally'.cleared = tally.cleared
<1>1. sess \in Sessions /\ wk \in Workers /\ tally \in Tallies
  BY DEF Typed
<1>2. sess.queue \in Seq(1..MaxFrame) /\ sess.queue # <<>>
  BY <1>1 DEF Take, Sessions
<1>3. Len(sess.queue) \in 1..Len(sess.queue)
  BY <1>2, EmptySeq, LenProperties
<1>4. PICK i \in 1..Len(sess.queue) :
        /\ wk' = [wk EXCEPT !.pc = "taken", !.frame = sess.queue[i]]
        /\ sess' = [sess EXCEPT !.queue = SubSeq(@, i + 1, Len(@))]
        /\ tally' = [tally EXCEPT !.stale = @ + i - 1]
  BY <1>3 DEF Take
<1>5. sess'.queue = SubSeq(sess.queue, i + 1, Len(sess.queue))
  BY <1>1, <1>4 DEF Sessions
<1>6. /\ Len(sess'.queue) = Len(sess.queue) - i
      /\ \A j \in 1..Len(sess'.queue) : sess'.queue[j] = sess.queue[i + j]
  BY <1>2, <1>5, Dropped
<1>7. wk'.pc = "taken" /\ wk'.frame = sess.queue[i]
  BY <1>1, <1>4 DEF Workers
<1>8. /\ tally'.last = tally.last /\ tally'.incoming = tally.incoming
      /\ tally'.stale = tally.stale + i - 1 /\ tally'.rejected = tally.rejected
      /\ tally'.decoded = tally.decoded /\ tally'.cleared = tally.cleared
  BY <1>1, <1>4 DEF Tallies
<1> QED
  BY <1>6, <1>7, <1>8

\* What submit does to the queue of a session that runs: the frame is the last,
\* and the first is gone where there were two.
LEMMA QueueFields ==
  ASSUME Typed, Len(sess.queue) <= Capacity, SubmitQueues, sess.running
  PROVE  \E b \in 0..1 :
             /\ b <= Len(sess.queue) /\ Len(sess'.queue) = Len(sess.queue) - b + 1
             /\ Len(sess'.queue) <= Capacity
             /\ \A j \in 1..Len(sess.queue) - b : sess'.queue[j] = sess.queue[b + j]
             /\ sess'.queue[Len(sess.queue) - b + 1] = recv
             /\ sess'.is = sess.is
             /\ tally'.last = tally.last /\ tally'.incoming = tally.incoming + 1
             /\ tally'.stale = tally.stale + b /\ tally'.rejected = tally.rejected
             /\ tally'.decoded = tally.decoded /\ tally'.cleared = tally.cleared
<1>1. /\ sess \in Sessions /\ tally \in Tallies /\ sess.queue \in Seq(1..MaxFrame)
      /\ recv \in 1..MaxFrame /\ Len(sess.queue) \in Nat
  BY LenProperties, PyroWaveAssumption DEF Typed, Sessions, SubmitQueues, Numbers
<1>2. PICK b \in 0..1 : b = IF Len(sess.queue) = Capacity THEN 1 ELSE 0
  OBVIOUS
<1>3. PICK kept : kept = IF Len(sess.queue) = Capacity THEN Tail(sess.queue) ELSE sess.queue
  OBVIOUS
<1>4. /\ kept \in Seq(1..MaxFrame) /\ Len(kept) = Len(sess.queue) - b
      /\ \A j \in 1..Len(kept) : kept[j] = sess.queue[b + j]
  <2>1. CASE Len(sess.queue) = Capacity
    <3>1. Len(<<>>) = 0
      BY EmptySeq
    <3>2. sess.queue # <<>>
      BY <2>1, <3>1 DEF Capacity
    <3>3. b = 1 /\ kept = Tail(sess.queue)
      BY <1>2, <1>3, <2>1
    <3>4. /\ Tail(sess.queue) \in Seq(1..MaxFrame) /\ Len(Tail(sess.queue)) = Len(sess.queue) - 1
          /\ \A j \in 1..Len(Tail(sess.queue)) : Tail(sess.queue)[j] = sess.queue[j + 1]
      BY <1>1, <3>2, HeadTailProperties
    <3> QED
      BY <1>1, <3>3, <3>4
  <2>2. CASE Len(sess.queue) # Capacity
    BY <1>1, <1>2, <1>3, <2>2
  <2> QED
    BY <2>1, <2>2
<1>5. sess'.queue = Append(kept, recv) /\ sess'.is = sess.is
  BY <1>1, <1>3 DEF SubmitQueues, Sessions
<1>6. /\ Len(sess'.queue) = Len(kept) + 1
      /\ \A j \in 1..Len(kept) : sess'.queue[j] = kept[j]
      /\ sess'.queue[Len(kept) + 1] = recv
  BY <1>1, <1>4, <1>5, AppendProperties
<1>7. /\ tally'.last = tally.last /\ tally'.incoming = tally.incoming + 1
      /\ tally'.stale = tally.stale + b /\ tally'.rejected = tally.rejected
      /\ tally'.decoded = tally.decoded /\ tally'.cleared = tally.cleared
  BY <1>1, <1>2 DEF SubmitQueues, Tallies
<1>8. Len(sess'.queue) <= Capacity
  <2>1. Len(sess'.queue) = Len(sess.queue) - b + 1
    BY <1>4, <1>6
  <2>2. CASE Len(sess.queue) = Capacity
    BY <1>2, <2>1, <2>2 DEF Capacity
  <2>3. CASE Len(sess.queue) # Capacity
    <3>1. PICK n \in Nat : n = Len(sess.queue)
      BY <1>1
    <3>2. Len(sess'.queue) = n + 1
      BY <1>2, <2>1, <2>3, <3>1
    <3>3. n <= 2 /\ n # 2
      BY <2>3, <3>1 DEF Capacity
    <3>4. n + 1 <= 2
      BY <3>3
    <3> QED
      BY <3>2, <3>4 DEF Capacity
  <2> QED
    BY <2>2, <2>3
<1>9. b <= Len(sess.queue)
  <2>1. PICK n \in Nat : n = Len(sess.queue)
    BY <1>1
  <2>2. CASE n = 2
    BY <2>1, <2>2
  <2>3. CASE n # 2
    <3>1. b = 0
      BY <1>2, <2>1, <2>3 DEF Capacity
    <3> QED
      BY <2>1, <3>1
  <2> QED
    BY <2>2, <2>3
<1> QED
  BY <1>4, <1>5, <1>6, <1>7, <1>8, <1>9

LEMMA ComingStep == PyroInv /\ [Next]_pyroVars => ComingInv'
<1> SUFFICES ASSUME PyroInv, [Next]_pyroVars PROVE ComingInv'
  OBVIOUS
<1>1. /\ Typed /\ StepsInv /\ ImagesInv /\ ShownInv /\ ComingInv /\ LivesInv
      /\ sess \in Sessions /\ wk \in Workers /\ gpu \in Chains /\ tally \in Tallies
      /\ sess.queue \in Seq(1..MaxFrame) /\ Len(sess.queue) \in Nat
      /\ gpu.planes \in Nat /\ wk.frame \in Nat /\ recv \in Nat /\ tally.last \in Nat
      /\ \A i \in 1..Len(sess.queue) : sess.queue[i] \in Nat /\ sess.queue[i] # 0
  <2>1. /\ Typed /\ StepsInv /\ ImagesInv /\ ShownInv /\ ComingInv /\ LivesInv
        /\ sess \in Sessions /\ wk \in Workers /\ gpu \in Chains /\ tally \in Tallies
        /\ recv \in Numbers
    BY DEF PyroInv, Typed
  <2>2. sess.queue \in Seq(1..MaxFrame)
    BY <2>1 DEF Sessions
  <2>3. gpu.planes \in Nat /\ wk.frame \in Nat /\ recv \in Nat /\ tally.last \in Nat
    BY <2>1, PyroWaveAssumption DEF Chains, Workers, Tallies, Numbers
  <2>4. \A i \in 1..Len(sess.queue) : sess.queue[i] \in 1..MaxFrame
    BY <2>2, ElementOfSeq
  <2>5. \A i \in 1..Len(sess.queue) : sess.queue[i] \in Nat /\ sess.queue[i] # 0
    BY <2>4
  <2>6. Len(sess.queue) \in Nat
    BY <2>2, LenProperties
  <2> QED
    BY <2>1, <2>2, <2>3, <2>5, <2>6
\* The steps that leave the frames where they are.
<1>2. CASE /\ sess'.queue = sess.queue /\ gpu'.planes = gpu.planes /\ recv' = recv
           /\ tally'.last = tally.last
           /\ wk'.frame \in {0, wk.frame} /\ (wk'.pc # "ended" => wk.pc # "ended")
           /\ \/ wk'.pc \notin {"taken", "checked", "acquire"}
              \/ wk'.frame = 0
              \/ wk.pc \in {"taken", "checked", "acquire"}
  BY <1>1, <1>2 DEF ComingInv
<1>3. CASE sess'.queue = <<>> /\ recv = 0 /\ UNCHANGED <<recv, wk>> /\ gpu' = EmptyChain
           /\ tally' = NoTally /\ wk.pc = "ended"
  <2>1. Len(sess'.queue) = 0 /\ gpu'.planes = 0 /\ tally'.last = 0 /\ Len(<<>>) = 0
    BY <1>3, EmptySeq, EmptyTypes DEF NoTally
  <2> QED
    BY <1>3, <2>1 DEF ComingInv, Capacity
<1>4. CASE Prepare \/ SetHdr \/ UNCHANGED pyroVars
  BY <1>2, <1>4 DEF Prepare, SetHdr, pyroVars
<1>5. CASE Setup
  <2>1. sess'.queue = <<>>
    BY <1>5 DEF Setup, NoSession
  <2> QED
    BY <1>1, <1>3, <1>5, <2>1 DEF Setup, LivesInv
<1>6. CASE SetupFails
  <2>1. sess'.queue = <<>> /\ Len(<<>>) = 0
    BY <1>6, EmptySeq DEF SetupFails, NoSession
  <2> QED
    BY <1>1, <1>6, <2>1 DEF SetupFails, ComingInv, Capacity
<1>7. CASE Start
  <2>1. sess'.queue = sess.queue
    BY <1>1, <1>7 DEF Start, Sessions
  <2>2. wk' = wk \/ (wk'.pc = "idle" /\ wk'.frame = 0)
    BY <1>7 DEF Start, NoWorker
  <2>3. UNCHANGED <<gpu, recv, tally>>
    BY <1>7 DEF Start
  <2> QED
    BY <1>1, <2>1, <2>2, <2>3 DEF ComingInv
<1>8. CASE StopFlags
  <2>1. sess'.queue = <<>> /\ Len(<<>>) = 0 /\ tally'.last = tally.last
    BY <1>1, <1>8, EmptySeq DEF StopFlags, Sessions, Tallies
  <2> QED
    BY <1>1, <1>8, <2>1 DEF StopFlags, ComingInv, Capacity
<1>9. CASE StopNotifies
  <2>1. /\ wk'.frame = wk.frame /\ (wk'.pc = wk.pc \/ (wk'.pc = "idle" /\ wk.pc = "asleep"))
    BY <1>1, <1>9, AwakeFields DEF StopNotifies
  <2>2. UNCHANGED <<sess, gpu, recv, tally>>
    BY <1>9 DEF StopNotifies
  <2> QED
    BY <1>1, <1>2, <2>1, <2>2
<1>10. CASE StopJoins
  <2>1. sess'.queue = sess.queue
    BY <1>1, <1>10 DEF StopJoins, Sessions
  <2> QED
    BY <1>2, <1>10, <2>1 DEF StopJoins
<1>11. CASE Cleanup
  <2>1. wk.pc = "ended"
    BY <1>1, <1>11 DEF Cleanup, LivesInv
  <2>2. sess'.queue = <<>>
    BY <1>11 DEF Cleanup, NoSession
  <2> QED
    BY <1>3, <1>11, <2>1, <2>2 DEF Cleanup
<1>12. CASE SubmitBegins
  <2>1. CASE UNCHANGED <<recv, tally>>
    BY <1>2, <1>12, <2>1 DEF SubmitBegins
  <2>2. CASE ~UNCHANGED <<recv, tally>>
    <3>1. recv' \in Nat /\ recv' > tally.last /\ tally'.last = recv' /\ UNCHANGED <<sess, wk, gpu>>
      BY <1>1, <1>12, <2>2, PyroWaveAssumption DEF SubmitBegins, Tallies
    <3> QED
      BY <1>1, <3>1 DEF ComingInv
  <2> QED
    BY <2>1, <2>2
<1>13. CASE SubmitQueues
  <2>1. recv' = 0 /\ recv # 0 /\ gpu' = gpu
    BY <1>13 DEF SubmitQueues
  <2>2. CASE ~sess.running
    BY <1>1, <1>13, <2>1, <2>2 DEF SubmitQueues, ComingInv
  <2>3. CASE sess.running
    <3>1. PICK b \in 0..1 :
            /\ b <= Len(sess.queue) /\ Len(sess'.queue) = Len(sess.queue) - b + 1
            /\ Len(sess'.queue) <= Capacity
            /\ \A j \in 1..Len(sess.queue) - b : sess'.queue[j] = sess.queue[b + j]
            /\ sess'.queue[Len(sess.queue) - b + 1] = recv
            /\ tally'.last = tally.last
      BY <1>1, <1>13, <2>3, QueueFields DEF ComingInv
    <3>2. /\ wk'.frame = wk.frame /\ (wk'.pc = wk.pc \/ (wk'.pc = "idle" /\ wk.pc = "asleep"))
      BY <1>1, <1>13, <2>3, AwakeFields DEF SubmitQueues
    <3>3. PICK n \in Nat : n = Len(sess.queue) - b
      <4>1. Len(sess.queue) \in Nat
        BY <1>1 DEF Sessions
      <4>2. Len(sess.queue) - b \in Nat
        BY SMT, <3>1, <4>1
      <4> QED
        BY <4>2
    <3>4. /\ gpu.planes < recv /\ recv = tally.last /\ (wk.pc # "ended" => wk.frame < recv)
          /\ \A i \in 1..Len(sess.queue) : sess.queue[i] < recv
      BY <1>1, <2>1 DEF ComingInv
    <3>5. \A i, j \in 1..Len(sess'.queue) : i < j => sess'.queue[i] < sess'.queue[j]
      <4>1. SUFFICES ASSUME NEW i \in 1..n + 1, NEW j \in 1..n + 1, i < j
                     PROVE  sess'.queue[i] < sess'.queue[j]
        BY <3>1, <3>3
      <4>2. i \in 1..n /\ b + i \in 1..Len(sess.queue) /\ b + i \in Nat
        BY <1>1, <3>1, <3>3, <4>1
      <4>3. sess'.queue[i] = sess.queue[b + i]
        BY <3>1, <3>3, <4>2
      <4>4. CASE j = n + 1
        <5>1. sess'.queue[j] = recv /\ sess.queue[b + i] < recv
          BY <3>1, <3>4, <3>3, <4>2, <4>4
        <5> QED
          BY <4>3, <5>1
      <4>5. CASE j \in 1..n
        <5>1. b + j \in 1..Len(sess.queue) /\ b + i < b + j /\ sess'.queue[j] = sess.queue[b + j]
          BY <1>1, <3>1, <3>3, <4>1, <4>5
        <5> QED
          BY <1>1, <4>2, <4>3, <5>1 DEF ComingInv
      <4> QED
        BY <3>3, <4>1, <4>4, <4>5
    <3>6. \A i \in 1..Len(sess'.queue) :
             /\ gpu.planes < sess'.queue[i] /\ sess'.queue[i] <= tally.last
             /\ wk.pc # "ended" => wk.frame < sess'.queue[i]
      <4>1. SUFFICES ASSUME NEW i \in 1..n + 1
                     PROVE  /\ gpu.planes < sess'.queue[i] /\ sess'.queue[i] <= tally.last
                            /\ wk.pc # "ended" => wk.frame < sess'.queue[i]
        BY <3>1, <3>3
      <4>2. CASE i = n + 1
        <5>1. sess'.queue[i] = recv
          BY <3>1, <3>3, <4>2
        <5> QED
          BY <1>1, <3>4, <5>1
      <4>3. CASE i \in 1..n
        <5>1. b + i \in 1..Len(sess.queue) /\ sess'.queue[i] = sess.queue[b + i]
          BY <1>1, <3>1, <3>3, <4>3
        <5> QED
          BY <1>1, <5>1 DEF ComingInv
      <4> QED
        BY <3>3, <4>1, <4>2, <4>3
    <3> QED
      BY <1>1, <2>1, <3>1, <3>2, <3>5, <3>6 DEF ComingInv
  <2> QED
    BY <2>2, <2>3
<1>14. CASE Take
  <2>1. recv' = recv /\ gpu' = gpu /\ wk.pc = "idle"
    BY <1>14 DEF Take, lents
  <2>2. PICK i \in 1..Len(sess.queue) :
          /\ wk'.pc = "taken" /\ wk'.frame = sess.queue[i]
          /\ Len(sess'.queue) = Len(sess.queue) - i
          /\ \A j \in 1..Len(sess'.queue) : sess'.queue[j] = sess.queue[i + j]
          /\ tally'.last = tally.last
    BY <1>1, <1>14, TakeFields
  <2>3. ASSUME NEW j \in 1..Len(sess'.queue)
        PROVE  /\ i + j \in 1..Len(sess.queue) /\ i < i + j
               /\ sess'.queue[j] = sess.queue[i + j]
    BY <1>1, <2>2
  <2>4. /\ \A j, k \in 1..Len(sess'.queue) : j < k => sess'.queue[j] < sess'.queue[k]
        /\ Len(sess'.queue) <= Capacity
    <3>1. ASSUME NEW j \in 1..Len(sess'.queue), NEW k \in 1..Len(sess'.queue), j < k
          PROVE  sess'.queue[j] < sess'.queue[k]
      <4>1. i + j < i + k
        BY <1>1, <2>2, <3>1
      <4>2. /\ i + j \in 1..Len(sess.queue) /\ sess'.queue[j] = sess.queue[i + j]
            /\ i + k \in 1..Len(sess.queue) /\ sess'.queue[k] = sess.queue[i + k]
        BY <2>3
      <4>3. sess.queue[i + j] < sess.queue[i + k]
        BY <1>1, <4>1, <4>2 DEF ComingInv
      <4> QED
        BY <4>2, <4>3
    <3>2. Len(sess'.queue) <= Capacity
      BY <1>1, <2>2 DEF ComingInv, Capacity
    <3> QED
      BY <3>1, <3>2
  <2>5. \A j \in 1..Len(sess'.queue) :
           /\ gpu.planes < sess'.queue[j] /\ sess'.queue[j] <= tally.last
           /\ wk'.frame < sess'.queue[j]
           /\ recv # 0 => sess'.queue[j] < recv
    <3>1. ASSUME NEW j \in 1..Len(sess'.queue)
          PROVE  /\ gpu.planes < sess'.queue[j] /\ sess'.queue[j] <= tally.last
                 /\ wk'.frame < sess'.queue[j]
                 /\ recv # 0 => sess'.queue[j] < recv
      <4>1. /\ i + j \in 1..Len(sess.queue) /\ i < i + j /\ sess'.queue[j] = sess.queue[i + j]
        BY <2>3
      <4>2. sess.queue[i] < sess.queue[i + j]
        BY <1>1, <4>1 DEF ComingInv
      <4>3. /\ gpu.planes < sess.queue[i + j] /\ sess.queue[i + j] <= tally.last
            /\ recv # 0 => sess.queue[i + j] < recv
        BY <1>1, <4>1 DEF ComingInv
      <4> QED
        BY <2>2, <4>1, <4>2, <4>3
    <3> QED
      BY <3>1
  <2>6. /\ gpu.planes < wk'.frame /\ wk'.frame <= tally.last
        /\ recv # 0 => wk'.frame < recv
    BY <1>1, <2>2 DEF ComingInv
  <2> QED
    BY <1>1, <2>1, <2>2, <2>4, <2>5, <2>6 DEF ComingInv
<1>15. CASE Acquire
  <2>1. UNCHANGED <<sess, recv, tally>> /\ wk.pc = "acquire"
    BY <1>15 DEF Acquire, lents
  <2>2. CASE wk' = Idle /\ gpu' = gpu
    BY <1>1, <1>2, <2>1, <2>2, IdleFields
  <2>3. CASE /\ gpu' = [gpu EXCEPT !.acquired = TRUE,
                                   !.planes = IF wk.again THEN @ ELSE wk.frame]
             /\ wk' = [wk EXCEPT !.pc = "prepared"]
    <3>1. gpu'.planes = IF wk.again THEN gpu.planes ELSE wk.frame
      BY <1>1, <2>3 DEF Chains
    <3>2. wk'.pc = "prepared" /\ wk'.frame = wk.frame
      BY <1>1, <2>3 DEF Workers
    <3> QED
      BY <1>1, <2>1, <3>1, <3>2 DEF ComingInv
  <2> QED
    BY <1>15, <2>2, <2>3 DEF Acquire
<1>16. CASE Worker /\ ~Take /\ ~Acquire
  <2>1. /\ sess' = sess /\ recv' = recv /\ wk.pc # "ended"
    BY <1>1, <1>16, WorkerFields
  <2>2. gpu'.planes = gpu.planes
    <3>1. CASE Present
      BY <1>1, <3>1 DEF Present, Chains
    <3> QED
      BY <1>1, <1>16, <3>1, WorkerFields
  <2>3. tally'.last = tally.last
    BY <1>1, <1>16 DEF Worker, WorkerEnds, Sleeps, RepeatDue, AdmitRepeat, Superseded, Ingest,
       WaitPrepared, WaitScanout, WaitDeadline, Present, AfterPresent, Throws, Tallies
  <2>4. /\ wk'.frame \in {0, wk.frame}
        /\ \/ wk'.pc \notin {"taken", "checked", "acquire"}
           \/ wk'.frame = 0
           \/ wk.pc \in {"taken", "checked", "acquire"}
    <3>1. Idle.frame = 0 /\ Idle \in Workers
      BY <1>1, IdleFields
    <3>2. CASE WorkerEnds \/ Sleeps \/ RepeatDue
      BY <1>1, <3>2 DEF WorkerEnds, Sleeps, RepeatDue, Workers
    <3>3. CASE AdmitRepeat
      BY <1>1, <3>1, <3>3 DEF AdmitRepeat, StepsInv, Workers
    <3>4. CASE Superseded \/ Ingest
      BY <1>1, <3>1, <3>4 DEF Superseded, Ingest, Workers
    <3>5. CASE WaitPrepared \/ WaitScanout \/ WaitDeadline \/ Present \/ Throws
      BY <1>1, <3>5 DEF WaitPrepared, WaitScanout, WaitDeadline, Present, Throws, Workers
    <3>6. CASE AfterPresent
      BY <1>1, <3>1, <3>6 DEF AfterPresent, Workers
    <3> QED
      BY <1>16, <3>2, <3>3, <3>4, <3>5, <3>6 DEF Worker
  <2> QED
    BY <1>2, <2>1, <2>2, <2>3, <2>4
<1>17. CASE DisplayShows
  <2>1. gpu'.planes = gpu.planes
    BY <1>1, <1>17 DEF DisplayShows, Chains
  <2> QED
    BY <1>2, <1>17, <2>1 DEF DisplayShows, lents
<1> QED
  BY <1>4, <1>5, <1>6, <1>7, <1>8, <1>9, <1>10, <1>11, <1>12, <1>13, <1>14, <1>15, <1>16, <1>17
     DEF Next, Stop

\* A frame that arrives, with or without the oldest making room, one that is
\* taken before i - 1 others, and one that is decided, keep the balance.
LEMMA Balance ==
  ASSUME NEW s \in Nat, NEW r \in Nat, NEW d \in Nat, NEW c \in Nat, NEW q \in Nat,
         NEW h \in Nat, NEW i \in Nat
  PROVE  /\ s + r + d + c + (q + 1) + h = s + r + d + c + q + h + 1
         /\ (s + 1) + r + d + c + q + h = s + r + d + c + q + h + 1
         /\ (s + i - 1) + r + d + c + (q - i) + 1 = s + r + d + c + q + 0
         /\ s + (r + d + 1) + c + q + 0 = s + r + d + c + q + 1
OBVIOUS

LEMMA AccountedStep == PyroInv /\ [Next]_pyroVars => Accounted'
<1> SUFFICES ASSUME PyroInv, [Next]_pyroVars PROVE Accounted'
  OBVIOUS
<1>1. /\ Typed /\ LivesInv /\ ComingInv /\ Accounted
      /\ sess \in Sessions /\ wk \in Workers /\ tally \in Tallies
      /\ Len(sess.queue) \in Nat
      /\ tally.incoming \in Nat /\ tally.stale \in Nat /\ tally.rejected \in Nat
      /\ tally.decoded \in Nat /\ tally.cleared \in Nat
  BY LenProperties DEF PyroInv, Typed, Sessions, Tallies
<1>2. sess.is => tally.incoming = tally.stale + tally.rejected + tally.decoded
                                 + tally.cleared + Len(sess.queue) + InHand
  BY <1>1 DEF Accounted
\* The steps that leave the counters and the queue alone.
<1>3. CASE /\ sess'.queue = sess.queue /\ sess'.is = sess.is
           /\ tally'.incoming = tally.incoming /\ tally'.stale = tally.stale
           /\ tally'.rejected = tally.rejected /\ tally'.decoded = tally.decoded
           /\ tally'.cleared = tally.cleared
           /\ wk'.pc \in {"taken", "checked"} <=> wk.pc \in {"taken", "checked"}
  BY <1>1, <1>3 DEF Accounted, InHand
<1>4. CASE Prepare \/ SetHdr \/ UNCHANGED pyroVars
  BY <1>3, <1>4 DEF Prepare, SetHdr, pyroVars
<1>5. CASE Setup
  <2>1. wk' = wk /\ wk.pc = "ended"
    BY <1>1, <1>5 DEF Setup, LivesInv
  <2>2. sess'.queue = <<>> /\ Len(<<>>) = 0
    BY <1>5, EmptySeq DEF Setup, NoSession
  <2>3. /\ tally'.incoming = 0 /\ tally'.stale = 0 /\ tally'.rejected = 0
        /\ tally'.decoded = 0 /\ tally'.cleared = 0
    BY <1>5 DEF Setup, NoTally
  <2> QED
    BY <2>1, <2>2, <2>3 DEF Accounted, InHand
<1>6. CASE SetupFails \/ Cleanup
  BY <1>6 DEF SetupFails, Cleanup, NoSession, Accounted
<1>7. CASE Start
  <2>1. sess'.queue = sess.queue /\ sess'.is = sess.is
    BY <1>1, <1>7 DEF Start, Sessions
  <2>2. wk.pc = "ended" /\ wk'.pc \in {"ended", "idle"} /\ tally' = tally
    BY <1>1, <1>7 DEF Start, NoWorker, LivesInv
  <2> QED
    BY <1>3, <2>1, <2>2
<1>8. CASE StopFlags
  <2>1. sess'.queue = <<>> /\ Len(<<>>) = 0 /\ sess'.is = sess.is /\ wk' = wk
    BY <1>1, <1>8, EmptySeq DEF StopFlags, Sessions
  <2>2. /\ tally'.incoming = tally.incoming /\ tally'.stale = tally.stale
        /\ tally'.rejected = tally.rejected /\ tally'.decoded = tally.decoded
        /\ tally'.cleared = tally.cleared + Len(sess.queue)
    BY <1>1, <1>8 DEF StopFlags, Tallies
  <2> QED
    BY <1>1, <2>1, <2>2 DEF Accounted, InHand
<1>9. CASE StopNotifies
  <2>1. wk'.pc = wk.pc \/ (wk'.pc = "idle" /\ wk.pc = "asleep")
    BY <1>1, <1>9, AwakeFields DEF StopNotifies
  <2>2. UNCHANGED <<sess, tally>>
    BY <1>9 DEF StopNotifies
  <2> QED
    BY <1>3, <2>1, <2>2
<1>10. CASE StopJoins
  <2>1. sess'.queue = sess.queue /\ sess'.is = sess.is
    BY <1>1, <1>10 DEF StopJoins, Sessions
  <2> QED
    BY <1>3, <1>10, <2>1 DEF StopJoins
<1>11. CASE SubmitBegins
  <2>1. UNCHANGED <<sess, wk>>
    BY <1>11 DEF SubmitBegins
  <2>2. /\ tally'.incoming = tally.incoming /\ tally'.stale = tally.stale
        /\ tally'.rejected = tally.rejected /\ tally'.decoded = tally.decoded
        /\ tally'.cleared = tally.cleared
    BY <1>1, <1>11 DEF SubmitBegins, Tallies
  <2> QED
    BY <1>3, <2>1, <2>2
<1>12. CASE SubmitQueues
  <2>1. CASE ~sess.running
    BY <1>3, <1>12, <2>1 DEF SubmitQueues
  <2>2. CASE sess.running
    <3>1. PICK b \in 0..1 :
            /\ Len(sess'.queue) = Len(sess.queue) - b + 1 /\ sess'.is = sess.is
            /\ tally'.incoming = tally.incoming + 1 /\ tally'.stale = tally.stale + b
            /\ tally'.rejected = tally.rejected /\ tally'.decoded = tally.decoded
            /\ tally'.cleared = tally.cleared
      BY <1>1, <1>12, <2>2, QueueFields DEF ComingInv
    <3>2. wk'.pc = wk.pc \/ (wk'.pc = "idle" /\ wk.pc = "asleep")
      BY <1>1, <1>12, <2>2, AwakeFields DEF SubmitQueues
    <3>3. InHand' = InHand /\ InHand \in Nat
      BY <3>2 DEF InHand
    <3>4. sess'.is => tally'.incoming = tally'.stale + tally'.rejected + tally'.decoded
                                        + tally'.cleared + Len(sess'.queue) + InHand'
      <4>1. /\ InHand \in Nat /\ Len(sess.queue) \in Nat
            /\ tally.stale \in Nat /\ tally.rejected \in Nat
            /\ tally.decoded \in Nat /\ tally.cleared \in Nat
        BY <1>1, <3>3
      <4>2. CASE Len(sess'.queue) = Len(sess.queue) + 1 /\ tally'.stale = tally.stale
        <5>1. tally.stale + tally.rejected + tally.decoded + tally.cleared
              + (Len(sess.queue) + 1) + InHand
              = tally.stale + tally.rejected + tally.decoded + tally.cleared
                + Len(sess.queue) + InHand + 1
          BY <4>1, Balance, SMTT(60)
        <5> QED
          BY <1>2, <3>1, <3>3, <4>2, <5>1
      <4>3. CASE Len(sess'.queue) = Len(sess.queue) /\ tally'.stale = tally.stale + 1
        <5>1. (tally.stale + 1) + tally.rejected + tally.decoded + tally.cleared
              + Len(sess.queue) + InHand
              = tally.stale + tally.rejected + tally.decoded + tally.cleared
                + Len(sess.queue) + InHand + 1
          BY <4>1, Balance, SMTT(60)
        <5> QED
          BY <1>2, <3>1, <3>3, <4>3, <5>1
      <4> QED
        BY <1>1, <3>1, <4>2, <4>3
    <3> QED
      BY <3>4 DEF Accounted
  <2> QED
    BY <2>1, <2>2
<1>13. CASE Take
  <2>1. PICK i \in 1..Len(sess.queue) :
          /\ wk'.pc = "taken"
          /\ Len(sess'.queue) = Len(sess.queue) - i
          /\ tally'.incoming = tally.incoming
          /\ tally'.stale = tally.stale + i - 1 /\ tally'.rejected = tally.rejected
          /\ tally'.decoded = tally.decoded /\ tally'.cleared = tally.cleared
    BY <1>1, <1>13, TakeFields
  <2>2. wk.pc = "idle" /\ sess'.is = sess.is
    BY <1>1, <1>13 DEF Take, Sessions
  <2>3. InHand = 0 /\ InHand' = 1
    BY <2>1, <2>2 DEF InHand
  <2>4. i \in Nat
    BY <2>1
  <2>5. sess'.is => tally'.incoming = tally'.stale + tally'.rejected + tally'.decoded
                                      + tally'.cleared + Len(sess'.queue) + InHand'
    <3>1. (tally.stale + i - 1) + tally.rejected + tally.decoded + tally.cleared
          + (Len(sess.queue) - i) + 1
          = tally.stale + tally.rejected + tally.decoded + tally.cleared + Len(sess.queue) + 0
      <4>1. /\ i \in Nat /\ Len(sess.queue) \in Nat
            /\ tally.stale \in Nat /\ tally.rejected \in Nat
            /\ tally.decoded \in Nat /\ tally.cleared \in Nat
        BY <1>1, <2>4
      <4> QED
        BY <4>1, Balance, SMTT(60)
    <3> QED
      BY <1>2, <2>1, <2>2, <2>3, <3>1, SMTT(30)
  <2> QED
    BY <2>5 DEF Accounted
<1>14. CASE Superseded
  <2>1. Idle.pc = "idle" /\ sess' = sess
    BY <1>1, <1>14, IdleFields DEF Superseded
  <2>2. CASE wk' = [wk EXCEPT !.pc = "checked"] /\ tally' = tally
    BY <1>1, <1>3, <1>14, <2>1, <2>2 DEF Superseded, Workers
  <2>3. CASE wk' = Idle /\ tally' = [tally EXCEPT !.stale = @ + 1]
    <3>1. /\ tally'.incoming = tally.incoming /\ tally'.stale = tally.stale + 1
          /\ tally'.rejected = tally.rejected /\ tally'.decoded = tally.decoded
          /\ tally'.cleared = tally.cleared
      BY <1>1, <2>3 DEF Tallies
    <3>2. InHand = 1 /\ InHand' = 0
      BY <1>14, <2>1, <2>3 DEF Superseded, InHand
    <3> QED
      BY <1>1, <2>1, <3>1, <3>2 DEF Accounted
  <2> QED
    BY <1>14, <2>2, <2>3 DEF Superseded
<1>15. CASE Ingest
  <2>1. /\ tally'.incoming = tally.incoming /\ tally'.stale = tally.stale
        /\ tally'.rejected + tally'.decoded = tally.rejected + tally.decoded + 1
        /\ tally'.rejected \in Nat /\ tally'.decoded \in Nat
        /\ tally'.cleared = tally.cleared
    BY <1>1, <1>15 DEF Ingest, Tallies
  <2>2. Idle.pc = "idle" /\ sess' = sess
    BY <1>1, <1>15, IdleFields DEF Ingest
  <2>3. wk.pc = "checked" /\ wk'.pc \in {"idle", "acquire"}
    BY <1>1, <1>15, <2>2 DEF Ingest, Workers
  <2>4. InHand = 1 /\ InHand' = 0
    BY <2>3 DEF InHand
  <2>5. sess'.is => tally'.incoming = tally'.stale + (tally'.rejected + tally'.decoded)
                                      + tally'.cleared + Len(sess'.queue) + InHand'
    <3>1. tally.stale + (tally.rejected + tally.decoded + 1) + tally.cleared
          + Len(sess.queue) + 0
          = tally.stale + tally.rejected + tally.decoded + tally.cleared + Len(sess.queue) + 1
      BY <1>1, Balance, SMTT(60)
    <3> QED
      BY <1>2, <2>1, <2>2, <2>4, <3>1
  <2>6. tally'.stale \in Nat /\ tally'.cleared \in Nat
    BY <1>1, <2>1
  <2>7. tally'.stale + (tally'.rejected + tally'.decoded)
        = tally'.stale + tally'.rejected + tally'.decoded
    BY <2>1, <2>6
  <2> QED
    BY <2>5, <2>7 DEF Accounted
<1>16. CASE Worker /\ ~Take /\ ~Superseded /\ ~Ingest
  <2>1. Idle.pc = "idle" /\ Idle \in Workers
    BY <1>1, IdleFields
  <2>2. wk.pc \notin {"taken", "checked"} /\ wk'.pc \notin {"taken", "checked"}
    <3>1. CASE WorkerEnds \/ Sleeps \/ RepeatDue \/ AdmitRepeat
      BY <1>1, <2>1, <3>1 DEF WorkerEnds, Sleeps, RepeatDue, AdmitRepeat, Workers
    <3>2. CASE WaitPrepared \/ WaitScanout \/ WaitDeadline \/ Present \/ Throws
      BY <1>1, <3>2 DEF WaitPrepared, WaitScanout, WaitDeadline, Present, Throws, Workers
    <3>3. CASE Acquire \/ AfterPresent
      BY <1>1, <2>1, <3>3 DEF Acquire, AfterPresent, Workers
    <3> QED
      BY <1>16, <3>1, <3>2, <3>3 DEF Worker
  <2>3. /\ tally'.incoming = tally.incoming /\ tally'.stale = tally.stale
        /\ tally'.rejected = tally.rejected /\ tally'.decoded = tally.decoded
        /\ tally'.cleared = tally.cleared
    <3>1. CASE AfterPresent
      BY <1>1, <3>1 DEF AfterPresent, Tallies
    <3>2. CASE ~AfterPresent
      BY <1>16, <3>2 DEF Worker, WorkerEnds, Sleeps, RepeatDue, AdmitRepeat, Acquire, WaitPrepared,
         WaitScanout, WaitDeadline, Present, Throws
    <3> QED
      BY <3>1, <3>2
  <2>4. sess' = sess
    BY <1>1, <1>16, WorkerFields
  <2> QED
    BY <1>3, <2>2, <2>3, <2>4
<1>17. CASE DisplayShows
  BY <1>3, <1>17 DEF DisplayShows, lents
<1> QED
  BY <1>4, <1>5, <1>6, <1>7, <1>8, <1>9, <1>10, <1>11, <1>12, <1>13, <1>14, <1>15, <1>16, <1>17
     DEF Next, Stop

-----------------------------------------------------------------------------
(* What follows from the invariant *)

\* Two ordered sequences that meet in order are one.
LEMMA OrderedConcat ==
  ASSUME NEW s \in Seq(Nat), NEW t \in Seq(Nat), Ordered(s), Ordered(t),
         Len(s) # 0 /\ Len(t) # 0 => s[Len(s)] <= t[1]
  PROVE  Ordered(s \o t)
<1>1. PICK m \in Nat, n \in Nat : m = Len(s) /\ n = Len(t)
  BY LenProperties
<1>2. /\ Len(s \o t) = m + n
      /\ \A i \in 1..m + n : (s \o t)[i] = IF i <= m THEN s[i] ELSE t[i - m]
  BY <1>1, ConcatProperties
<1>3. /\ \A k \in 1..m - 1 : s[k] <= s[k + 1]
      /\ \A k \in 1..n - 1 : t[k] <= t[k + 1]
      /\ m # 0 /\ n # 0 => s[m] <= t[1]
  BY <1>1 DEF Ordered
<1>4. SUFFICES \A i \in 1..m + n - 1 : (s \o t)[i] <= (s \o t)[i + 1]
  BY <1>2 DEF Ordered
<1> TAKE i \in 1..m + n - 1
<1>5. CASE i < m
  <2>1. (s \o t)[i] = s[i] /\ (s \o t)[i + 1] = s[i + 1]
    BY <1>1, <1>2, <1>5
  <2> QED
    BY <1>1, <1>3, <1>5, <2>1
<1>6. CASE i = m
  <2>1. (s \o t)[i] = s[m] /\ (s \o t)[i + 1] = t[1] /\ m # 0 /\ n # 0
    BY <1>1, <1>2, <1>6
  <2> QED
    BY <1>3, <2>1
<1>7. CASE i > m
  <2>1. i - m \in 1..n - 1 /\ i + 1 - m = i - m + 1
    BY <1>1, <1>7
  <2>2. t[i - m] <= t[i - m + 1]
    BY <1>3, <2>1
  <2>3. (s \o t)[i] = t[i - m] /\ (s \o t)[i + 1] = t[i - m + 1]
    <3>1. /\ i \in 1..m + n /\ i + 1 \in 1..m + n
          /\ ~(i <= m) /\ ~(i + 1 <= m)
      BY <1>1, <1>7
    <3>2. (s \o t)[i] = t[i - m] /\ (s \o t)[i + 1] = t[i + 1 - m]
      BY <1>1, <1>2, <3>1
    <3> QED
      BY <2>1, <3>2
  <2> QED
    BY <2>2, <2>3
<1> QED
  BY <1>1, <1>5, <1>6, <1>7

LEMMA FramesInOrder ==
  ASSUME PyroInv
  PROVE  Ordered(<<gpu.panel>> \o gpu.pending \o <<gpu.planes>> \o sess.queue)
<1>1. /\ ShownInv /\ ComingInv
      /\ gpu.pending \in Seq(Nat) /\ sess.queue \in Seq(Nat)
      /\ Len(gpu.pending) \in Nat /\ Len(sess.queue) \in Nat
      /\ gpu.panel \in Nat /\ gpu.planes \in Nat
      /\ \A i \in 1..Len(gpu.pending) : gpu.pending[i] \in Nat
      /\ \A i \in 1..Len(sess.queue) : sess.queue[i] \in Nat
  <2>1. gpu.pending \in Seq(1..MaxFrame) /\ sess.queue \in Seq(1..MaxFrame)
    BY DEF PyroInv, Typed, Chains, Sessions
  <2>2. gpu.pending \in Seq(Nat) /\ sess.queue \in Seq(Nat)
    <3>1. 1..MaxFrame \subseteq Nat
      BY PyroWaveAssumption
    <3> QED
      BY <2>1, <3>1, SeqMonotonic
  <2>3. /\ Len(gpu.pending) \in Nat /\ Len(sess.queue) \in Nat
        /\ \A i \in 1..Len(gpu.pending) : gpu.pending[i] \in Nat
        /\ \A i \in 1..Len(sess.queue) : sess.queue[i] \in Nat
    BY <2>2, LenProperties, ElementOfSeq
  <2>4. gpu.panel \in Nat /\ gpu.planes \in Nat
    BY PyroWaveAssumption DEF PyroInv, Typed, Chains, Numbers
  <2>5. ShownInv /\ ComingInv
    BY DEF PyroInv
  <2> QED
    BY <2>3, <2>2, <2>4, <2>5
<1> DEFINE a == <<gpu.panel>>
           b == a \o gpu.pending
           c == <<gpu.planes>>
           d == b \o c
<1>2. /\ a \in Seq(Nat) /\ Len(a) = 1 /\ a[1] = gpu.panel /\ Ordered(a)
      /\ c \in Seq(Nat) /\ Len(c) = 1 /\ c[1] = gpu.planes /\ Ordered(c)
  BY <1>1 DEF Ordered
<1>3. Ordered(gpu.pending)
  <2>1. \A i \in 1..Len(gpu.pending) - 1 :
            i \in 1..Len(gpu.pending) /\ i + 1 \in 1..Len(gpu.pending) /\ i <= i + 1
    BY <1>1
  <2> QED
    BY <1>1, <2>1 DEF Ordered, ShownInv
<1>4. Ordered(sess.queue)
  <2>1. \A i \in 1..Len(sess.queue) - 1 :
            i \in 1..Len(sess.queue) /\ i + 1 \in 1..Len(sess.queue) /\ i < i + 1
    BY <1>1
  <2>2. \A i, j \in 1..Len(sess.queue) :
            i < j => sess.queue[i] < sess.queue[j] /\ sess.queue[i] \in Nat /\ sess.queue[j] \in Nat
    BY <1>1 DEF ComingInv
  <2>3. \A i \in 1..Len(sess.queue) - 1 :
            /\ sess.queue[i] < sess.queue[i + 1]
            /\ sess.queue[i] \in Nat /\ sess.queue[i + 1] \in Nat
    BY <2>1, <2>2
  <2>4. \A i \in 1..Len(sess.queue) - 1 : sess.queue[i] <= sess.queue[i + 1]
    BY <2>3
  <2> QED
    BY <2>4 DEF Ordered
<1>5. /\ b \in Seq(Nat) /\ Len(b) = 1 + Len(gpu.pending) /\ Ordered(b)
      /\ b[Len(b)] <= gpu.planes
  <2>1. Len(gpu.pending) # 0 => a[Len(a)] <= gpu.pending[1]
    <3>1. Len(gpu.pending) # 0 => 1 \in 1..Len(gpu.pending)
      BY <1>1
    <3>2. Len(gpu.pending) # 0 => gpu.panel <= gpu.pending[1]
      BY <1>1, <3>1 DEF ShownInv
    <3>3. a[Len(a)] = gpu.panel
      BY <1>2
    <3> QED
      BY <3>2, <3>3
  <2>2. /\ b \in Seq(Nat) /\ Len(b) = 1 + Len(gpu.pending)
        /\ \A i \in 1..1 + Len(gpu.pending) : b[i] = IF i <= 1 THEN a[i] ELSE gpu.pending[i - 1]
    BY <1>1, <1>2, ConcatProperties
  <2>3. Ordered(b)
    BY <1>1, <1>2, <1>3, <2>1, OrderedConcat
  <2>4. b[Len(b)] <= gpu.planes
    <3>1. PICK k \in Nat : k = Len(gpu.pending)
      BY <1>1
    <3>2. CASE k = 0
      <4>1. Len(b) = 1 /\ b[1] = a[1]
        BY <2>2, <3>1, <3>2
      <4> QED
        BY <1>1, <1>2, <4>1 DEF ShownInv
    <3>3. CASE k # 0
      <4>1. Len(b) = 1 + k /\ b[1 + k] = gpu.pending[k] /\ k \in 1..Len(gpu.pending)
        BY <2>2, <3>1, <3>3
      <4> QED
        BY <1>1, <4>1 DEF ShownInv
    <3> QED
      BY <3>2, <3>3
  <2> QED
    BY <2>2, <2>3, <2>4
<1>6. d \in Seq(Nat) /\ Len(d) = Len(b) + 1 /\ Ordered(d) /\ d[Len(d)] = gpu.planes
  <2>1. /\ d \in Seq(Nat) /\ Len(d) = Len(b) + 1
        /\ \A i \in 1..Len(b) + 1 : d[i] = IF i <= Len(b) THEN b[i] ELSE c[i - Len(b)]
    BY <1>2, <1>5, ConcatProperties
  <2>2. Ordered(d)
    BY <1>2, <1>5, OrderedConcat
  <2>3. d[Len(d)] = gpu.planes
    BY <1>1, <1>2, <1>5, <2>1
  <2> QED
    BY <2>1, <2>2, <2>3
<1>7. Len(sess.queue) # 0 => d[Len(d)] <= sess.queue[1]
  BY <1>1, <1>6 DEF ComingInv
<1>8. Ordered(d \o sess.queue)
  BY <1>1, <1>4, <1>6, <1>7, OrderedConcat
<1> QED
  BY <1>8

-----------------------------------------------------------------------------
(* Every frame is counted once, no picture gives way to an older one, an   *)
(* acquired image is presented, and the worker has VideoOut: whatever      *)
(* arrives and is lost, and wherever a stop interrupts.                    *)

LEMMA PyroSafe == PyroInv => PyroWaveOK
<1> SUFFICES ASSUME PyroInv PROVE PyroWaveOK
  OBVIOUS
<1>1. /\ Typed /\ LivesInv /\ StepsInv /\ ImagesInv /\ ShownInv /\ ComingInv /\ Accounted
      /\ gpu \in Chains /\ sess \in Sessions
  BY DEF PyroInv, Typed
<1>2. TypeOK
  <2>1. sess.queue \in Seq(1..MaxFrame) /\ Len(sess.queue) <= Capacity
    BY <1>1 DEF Sessions, ComingInv
  <2>2. gpu.pending \in Seq(1..MaxFrame) /\ Len(gpu.pending) <= Images
    BY <1>1 DEF Chains, ImagesInv
  <2> QED
    BY <1>1, <2>1, <2>2 DEF Typed, TypeOK, Libs, Confs, Workers
<1>3. NeverBack
  BY <1>1, FramesInOrder DEF NeverBack, ComingInv
<1>4. ImageReturned
  BY <1>1 DEF ImageReturned, ImagesInv
<1>5. WorkerOwns
  BY <1>1 DEF WorkerOwns, LivesInv
<1> QED
  BY <1>1, <1>2, <1>3, <1>4, <1>5 DEF PyroWaveOK

THEOREM PyroWaveSafe == Spec => []PyroWaveOK
<1>1. Init => PyroInv
  BY PyroStart
<1>2. PyroInv /\ [Next]_pyroVars => PyroInv'
  BY TypeStep, LivesStep, StepsStep, ImagesStep, ShownStep, ComingStep, AccountedStep DEF PyroInv
<1>3. PyroInv => PyroWaveOK
  BY PyroSafe
<1> QED
  BY <1>1, <1>2, <1>3, PTL DEF Spec

-----------------------------------------------------------------------------
(* The packets of a frame                                                  *)

LEMMA PacketSizes ==
    /\ Payload \in Nat /\ Payload > 4 /\ MaxWords \in Nat
    /\ Hosts \subseteq {"flags", "packs", "straddles"}
    /\ Walk!Header = 2 /\ Walk!First = Payload - 2
BY FramesAssumption DEF Walk!FramingAssumption, Walk!Header, Walk!First

LEMMA Quotient ==
    ASSUME NEW w \in Nat, NEW b \in Nat, b > 0
    PROVE  w \div b \in Nat /\ (w \div b) * b <= w /\ w < (w \div b) * b + b
BY SMT

LEMMA PacketStarts ==
    ASSUME NEW p \in Nat, p >= 1
    PROVE  /\ Walk!PacketStart(p) \in Nat
           /\ p = 1 => Walk!PacketStart(p) = 0
           /\ p > 1 => Walk!PacketStart(p) > 0
           /\ \A q \in Nat : q > p => Walk!PacketStart(q) > Walk!PacketStart(p)
<1>1. ASSUME NEW q \in Nat, q >= 2
      PROVE  Walk!PacketStart(q) = Payload - 2 + (q - 2) * Payload /\ (q - 2) * Payload \in Nat
  BY SMT, <1>1, PacketSizes DEF Walk!PacketStart
<1>2. Walk!PacketStart(1) = 0
  BY SMT DEF Walk!PacketStart
<1>3. ASSUME NEW q \in Nat, q > p PROVE Walk!PacketStart(q) > Walk!PacketStart(p)
  <2>1. CASE p = 1
    BY SMT, <1>1, <1>2, <1>3, <2>1, PacketSizes
  <2>2. CASE p >= 2
    <3>1. (q - 2) * Payload = (p - 2) * Payload + (q - p) * Payload
      BY SMT, <1>3, PacketSizes
    <3>2. (q - p) * Payload >= Payload
      BY SMT, <1>3, PacketSizes
    <3> QED
      BY SMT, <1>1, <1>3, <2>2, <3>1, <3>2, PacketSizes
  <2> QED
    BY SMT, <2>1, <2>2
<1> QED
  BY SMT, <1>1, <1>2, <1>3, PacketSizes

LEMMA PacketIs ==
    ASSUME NEW w \in Nat
    PROVE  /\ Walk!PacketOf(w) \in Nat /\ Walk!PacketOf(w) >= 1
           /\ Walk!PacketStart(Walk!PacketOf(w)) <= w
           /\ w < Walk!PacketStart(Walk!PacketOf(w) + 1)
<1>1. CASE w < Payload - 2
  BY SMT, <1>1, PacketSizes DEF Walk!PacketOf, Walk!PacketStart
<1>2. CASE w >= Payload - 2
  <2>1. PICK d : d = (w - (Payload - 2)) \div Payload
    OBVIOUS
  <2>2. /\ d \in Nat /\ d * Payload <= w - (Payload - 2)
        /\ w - (Payload - 2) < d * Payload + Payload
    BY SMT, <1>2, <2>1, PacketSizes, Quotient
  <2>3. Walk!PacketOf(w) = 2 + d
    BY SMT, <1>2, <2>1, PacketSizes DEF Walk!PacketOf
  <2>4. Walk!PacketStart(2 + d) = Payload - 2 + d * Payload
    BY SMT, <2>2, PacketSizes DEF Walk!PacketStart
  <2>5. Walk!PacketStart(2 + d + 1) = Payload - 2 + (d + 1) * Payload
    BY SMT, <2>2, PacketSizes DEF Walk!PacketStart
  <2>6. (d + 1) * Payload = d * Payload + Payload
    BY SMT, <2>2, PacketSizes
  <2> QED
    BY SMT, <2>2, <2>3, <2>4, <2>5, <2>6, PacketSizes
<1> QED
  BY SMT, <1>1, <1>2, PacketSizes

\* A word is in the packet between whose start and the next one's it is.
LEMMA InPacket ==
    ASSUME NEW w \in Nat, NEW p \in Nat, p >= 1,
           Walk!PacketStart(p) <= w, w < Walk!PacketStart(p + 1)
    PROVE  Walk!PacketOf(w) = p
<1>1. PICK q \in Nat : q = Walk!PacketOf(w) /\ q >= 1
  BY PacketIs
<1>2. Walk!PacketStart(q) <= w /\ w < Walk!PacketStart(q + 1)
  BY <1>1, PacketIs
<1>3. Walk!PacketStart(q) \in Nat /\ Walk!PacketStart(q + 1) \in Nat
      /\ Walk!PacketStart(p) \in Nat /\ Walk!PacketStart(p + 1) \in Nat
  BY SMT, <1>1, PacketStarts
<1>4. ~(q > p)
  <2>1. q > p => Walk!PacketStart(q) >= Walk!PacketStart(p + 1)
    BY SMT, <1>1, <1>3, PacketStarts
  <2> QED
    BY SMT, <1>2, <1>3, <2>1
<1>5. ~(q < p)
  <2>1. q < p => Walk!PacketStart(p) >= Walk!PacketStart(q + 1)
    BY SMT, <1>1, <1>3, PacketStarts
  <2> QED
    BY SMT, <1>2, <1>3, <2>1
<1> QED
  BY SMT, <1>1, <1>4, <1>5

LEMMA PacketsAscend ==
    ASSUME NEW v \in Nat, NEW w \in Nat, v <= w
    PROVE  Walk!PacketOf(v) <= Walk!PacketOf(w)
<1>1. PICK p \in Nat : p = Walk!PacketOf(v) /\ p >= 1
  BY PacketIs
<1>2. PICK q \in Nat : q = Walk!PacketOf(w) /\ q >= 1
  BY PacketIs
<1>3. Walk!PacketStart(p) <= v /\ w < Walk!PacketStart(q + 1)
  BY <1>1, <1>2, PacketIs
<1>4. Walk!PacketStart(p) \in Nat /\ Walk!PacketStart(q + 1) \in Nat
  BY SMT, <1>1, <1>2, PacketStarts
<1>5. p > q => Walk!PacketStart(p) >= Walk!PacketStart(q + 1)
  BY SMT, <1>1, <1>2, <1>4, PacketStarts
<1> QED
  BY SMT, <1>1, <1>2, <1>3, <1>4, <1>5

\* The next word is in the same packet or in the next one.
LEMMA PacketNext ==
    ASSUME NEW w \in Nat
    PROVE  Walk!PacketOf(w + 1) <= Walk!PacketOf(w) + 1
<1>1. PICK p \in Nat : p = Walk!PacketOf(w) /\ p >= 1
  BY PacketIs
<1>2. PICK q \in Nat : q = Walk!PacketOf(w + 1) /\ q >= 1
  BY PacketIs
<1>3. Walk!PacketStart(q) <= w + 1 /\ w < Walk!PacketStart(p + 1)
  BY <1>1, <1>2, PacketIs
<1>4. Walk!PacketStart(q) \in Nat /\ Walk!PacketStart(p + 1) \in Nat
  BY SMT, <1>1, <1>2, PacketStarts
<1>5. q > p + 1 => Walk!PacketStart(q) > Walk!PacketStart(p + 1)
  BY SMT, <1>1, <1>2, <1>4, PacketStarts
<1> QED
  BY SMT, <1>1, <1>2, <1>3, <1>4, <1>5

\* A packet but the first begins right after the one before it.
LEMMA PacketBegins ==
    ASSUME NEW p \in Nat, p >= 2
    PROVE  /\ Walk!PacketStart(p) \in Nat /\ Walk!PacketStart(p) >= 1
           /\ Walk!PacketOf(Walk!PacketStart(p)) = p
           /\ Walk!PacketOf(Walk!PacketStart(p) - 1) = p - 1
<1>1. PICK s \in Nat : s = Walk!PacketStart(p) /\ s > 0
  BY SMT, PacketStarts
<1>2. Walk!PacketStart(p - 1) \in Nat /\ Walk!PacketStart(p + 1) \in Nat
      /\ Walk!PacketStart(p - 1) < s /\ s < Walk!PacketStart(p + 1)
  BY SMT, <1>1, PacketStarts
<1>3. Walk!PacketOf(s) = p
  BY SMT, <1>1, <1>2, InPacket
<1>4. Walk!PacketOf(s - 1) = p - 1
  <2>1. PICK o : o = p - 1
    OBVIOUS
  <2>2. o \in Nat /\ o >= 1 /\ o + 1 = p /\ s - 1 \in Nat
    BY SMT, <1>1, <2>1
  <2>3. Walk!PacketStart(o) <= s - 1 /\ s - 1 < Walk!PacketStart(o + 1)
    BY SMT, <1>1, <1>2, <2>1, <2>2
  <2>4. Walk!PacketOf(s - 1) = o
    BY <2>2, <2>3, InPacket
  <2> QED
    BY <2>1, <2>4
<1> QED
  BY SMT, <1>1, <1>3, <1>4

-----------------------------------------------------------------------------
(* The frame as the host sends it                                          *)

RecordKinds == {"sequence", "coarse", "oversized", "ordinary", "padding"}
Recs == [kind : RecordKinds, start : Nat, end : Nat]

FrameTyped == sent \in [host : Hosts, records : Seq(Recs), lost : SUBSET Nat, known : BOOLEAN]

\* The records tile the frame.
Laid(R, size) ==
    /\ R \subseteq Recs /\ size \in Nat
    /\ \A r \in R : r.start + 2 <= r.end /\ r.end <= size /\ r.end <= MaxWords
    /\ \A w \in Nat : w < size => \E r \in R : r.start <= w /\ w < r.end
    /\ \A r, q \in R : r = q \/ r.end <= q.start \/ q.end <= r.start

\* The coarse ones come before the finer ones, the ordinary ones last.
Ranked(R) ==
    \A r, q \in R :
        /\ r.kind = "coarse" /\ q.kind \in {"oversized", "ordinary"} => r.end <= q.start
        /\ r.kind \in {"sequence", "coarse", "oversized"} /\ q.kind = "ordinary" => r.end <= q.start

Shaped(R) ==
    \A r \in R :
        /\ r.kind = "sequence" => r.start = 0 /\ r.end = 2
        /\ r.kind = "oversized" => r.end - r.start + 2 > Payload
        /\ sent.host = "packs" /\ r.kind \in {"ordinary", "padding"} => Walk!Fits(r.start, r.end)

FrameInv ==
    /\ FrameTyped
    /\ Laid(Walk!Records, Walk!Size) /\ Ranked(Walk!Records) /\ Shaped(Walk!Records)

LEMMA Ranks ==
    /\ Walk!Rank("sequence") = 1 /\ Walk!Rank("coarse") = 2
    /\ Walk!Rank("oversized") = 3 /\ Walk!Rank("ordinary") = 4
<1>1. /\ DOMAIN Walk!Kinds = 1..4
      /\ Walk!Kinds[1] = "sequence" /\ Walk!Kinds[2] = "coarse"
      /\ Walk!Kinds[3] = "oversized" /\ Walk!Kinds[4] = "ordinary"
  BY SMT DEF Walk!Kinds
<1>2. Walk!Rank("sequence") = 1
  BY SMT, <1>1 DEF Walk!Rank
<1>3. Walk!Rank("coarse") = 2
  BY SMT, <1>1 DEF Walk!Rank
<1>4. Walk!Rank("oversized") = 3
  BY SMT, <1>1 DEF Walk!Rank
<1>5. Walk!Rank("ordinary") = 4
  BY SMT, <1>1 DEF Walk!Rank
<1> QED
  BY <1>2, <1>3, <1>4, <1>5

LEMMA LatestIs ==
    ASSUME FrameInv, NEW r \in Walk!Records, r.kind # "padding"
    PROVE  Walk!Rank(r.kind) <= Walk!Latest /\ Walk!Rank(r.kind) \in 1..4 /\ Walk!Latest \in 1..4
<1> DEFINE ranks == {Walk!Rank(q.kind) : q \in {p \in Walk!Records : p.kind # "padding"}}
<1>1. sent.records # <<>>
  <2>1. PICK i \in DOMAIN sent.records : r = sent.records[i]
    BY DEF Walk!Records
  <2>2. sent.records \in Seq(Recs)
    BY DEF FrameInv, FrameTyped
  <2> QED
    BY <2>1, <2>2, EmptySeq
<1>2. \A q \in Walk!Records : q.kind \in RecordKinds
  BY DEF FrameInv, Laid, Recs
<1>3. ranks \subseteq 1..4
  <2>1. ASSUME NEW q \in Walk!Records, q.kind # "padding" PROVE Walk!Rank(q.kind) \in 1..4
    BY <1>2, <2>1, Ranks DEF RecordKinds
  <2> QED
    BY <2>1
<1>4. Walk!Rank(r.kind) \in ranks
  OBVIOUS
<1>5. Walk!Latest = CHOOSE k \in ranks : \A j \in ranks : j <= k
  BY <1>1 DEF Walk!Latest
<1> HIDE DEF ranks
<1>6. \E k \in ranks : \A j \in ranks : j <= k
  <2>1. CASE 4 \in ranks
    BY SMT, <1>3, <2>1
  <2>2. CASE 4 \notin ranks /\ 3 \in ranks
    BY SMT, <1>3, <2>2
  <2>3. CASE 4 \notin ranks /\ 3 \notin ranks /\ 2 \in ranks
    BY SMT, <1>3, <2>3
  <2>4. CASE 4 \notin ranks /\ 3 \notin ranks /\ 2 \notin ranks
    <3>1. \A j \in ranks : j = 1
      BY <1>3, <2>4
    <3> QED
      BY <1>4, <3>1
  <2> QED
    BY <2>1, <2>2, <2>3, <2>4
<1>7. Walk!Latest \in ranks /\ \A j \in ranks : j <= Walk!Latest
  BY <1>5, <1>6
<1> QED
  BY <1>3, <1>4, <1>7

LEMMA AppendFrame ==
    ASSUME sent.records \in Seq(Recs), NEW new \in Recs, sent'.records = Append(sent.records, new)
    PROVE  Walk!Records' = Walk!Records \cup {new} /\ Walk!Size' = new.end
<1>1. /\ Len(sent'.records) = Len(sent.records) + 1 /\ Len(sent.records) \in Nat
      /\ sent'.records[Len(sent.records) + 1] = new
      /\ \A i \in 1..Len(sent.records) : sent'.records[i] = sent.records[i]
      /\ DOMAIN sent.records = 1..Len(sent.records)
      /\ DOMAIN sent'.records = 1..(Len(sent.records) + 1)
      /\ sent'.records # <<>>
  BY SMT
<1>2. Walk!Records' = Walk!Records \cup {new}
  BY SMT, <1>1 DEF Walk!Records
<1>3. Walk!Size' = new.end
  BY SMT, <1>1 DEF Walk!Size
<1> QED
  BY <1>2, <1>3

LEMMA EmptyFrame ==
    ASSUME sent.records = <<>>
    PROVE  Walk!Records = {} /\ Walk!Size = 0
BY SMT DEF Walk!Records, Walk!Size

LEMMA SendLays ==
    ASSUME FrameInv, NEW new \in Recs, new.start = Walk!Size, new.start + 2 <= new.end,
           new.end <= MaxWords
    PROVE  Laid(Walk!Records \cup {new}, new.end)
<1>1. /\ Walk!Records \subseteq Recs /\ Walk!Size \in Nat
      /\ \A r \in Walk!Records : r.start + 2 <= r.end /\ r.end <= Walk!Size /\ r.end <= MaxWords
      /\ \A w \in Nat : w < Walk!Size => \E r \in Walk!Records : r.start <= w /\ w < r.end
      /\ \A r, q \in Walk!Records : r = q \/ r.end <= q.start \/ q.end <= r.start
  BY DEF FrameInv, Laid
<1>2. /\ \A r \in Walk!Records : r.start \in Nat /\ r.end \in Nat
      /\ new.start \in Nat /\ new.end \in Nat
  BY SMT, <1>1 DEF Recs
<1>3. \A r \in Walk!Records \cup {new} : r.start + 2 <= r.end /\ r.end <= new.end /\ r.end <= MaxWords
  BY SMT, <1>1, <1>2, PacketSizes
<1>4. ASSUME NEW w \in Nat, w < new.end
      PROVE  \E r \in Walk!Records \cup {new} : r.start <= w /\ w < r.end
  <2>1. CASE w < Walk!Size
    BY SMT, <1>1, <2>1
  <2>2. CASE ~(w < Walk!Size)
    BY SMT, <1>1, <1>4, <2>2
  <2> QED
    BY <2>1, <2>2
<1>5. ASSUME NEW r \in Walk!Records \cup {new}, NEW q \in Walk!Records \cup {new}
      PROVE  r = q \/ r.end <= q.start \/ q.end <= r.start
  BY SMT, <1>1, <1>5
<1> QED
  BY <1>1, <1>2, <1>3, <1>4, <1>5 DEF Laid

LEMMA SendKeeps == ASSUME FrameInv, Walk!Send PROVE FrameInv'
<1>1. PICK kind \in RecordKinds, end \in (Walk!Size + Walk!Header)..MaxWords :
          /\ Walk!MaySend(kind, Walk!Size, end)
          /\ sent' = [sent EXCEPT !.records =
                          Append(@, [kind |-> kind, start |-> Walk!Size, end |-> end])]
  BY Zenon DEF Walk!Send, RecordKinds
<1> DEFINE new == [kind |-> kind, start |-> Walk!Size, end |-> end]
<1>2. Walk!Size \in Nat /\ sent.records \in Seq(Recs)
  BY DEF FrameInv, Laid, FrameTyped
<1>3. /\ new \in Recs /\ new.kind = kind /\ new.start = Walk!Size /\ new.end = end
      /\ new.start + 2 <= new.end /\ new.end <= MaxWords /\ end \in Nat
  BY SMT, <1>1, <1>2, PacketSizes DEF Recs
<1>4. sent' = [sent EXCEPT !.records = Append(sent.records, new)]
  BY <1>1
<1> HIDE DEF new
<1>5. /\ FrameTyped' /\ sent'.records = Append(sent.records, new)
      /\ sent'.host = sent.host /\ sent'.lost = sent.lost /\ sent'.known = sent.known
  <2>1. Append(sent.records, new) \in Seq(Recs)
    BY <1>2, <1>3
  <2>2. sent \in [host : Hosts, records : Seq(Recs), lost : SUBSET Nat, known : BOOLEAN]
    BY DEF FrameInv, FrameTyped
  <2> QED
    BY <1>4, <2>1, <2>2 DEF FrameTyped
<1>6. Walk!Records' = Walk!Records \cup {new} /\ Walk!Size' = new.end
  BY <1>2, <1>3, <1>5, AppendFrame
<1>7. Laid(Walk!Records, Walk!Size)'
  <2>1. Laid(Walk!Records \cup {new}, new.end)
    BY <1>3, SendLays
  <2> QED
    BY <1>6, <2>1
<1>8. ASSUME NEW r \in Walk!Records, r.kind # "padding"
      PROVE  /\ kind = "coarse" => r.kind \in {"sequence", "coarse"}
             /\ kind = "oversized" => r.kind \in {"sequence", "coarse", "oversized"}
             /\ kind # "sequence"
  <2>1. Walk!Rank(r.kind) <= Walk!Latest /\ r.kind \in RecordKinds
    BY <1>8, LatestIs DEF FrameInv, Laid, Recs
  <2>2. r.start + 2 <= r.end /\ r.end <= Walk!Size /\ r.start \in Nat /\ r.end \in Nat
    BY SMT, <1>8 DEF FrameInv, Laid, Recs
  <2>3. kind # "sequence"
    <3>1. ASSUME kind = "sequence" PROVE Walk!Size = 0
      BY <1>1, <3>1 DEF Walk!MaySend
    <3> QED
      BY <1>2, <2>2, <3>1
  <2>4. ASSUME kind = "coarse" PROVE r.kind \in {"sequence", "coarse"}
    <3>1. Walk!Latest \in {1, 2}
      BY <1>1, <2>4 DEF Walk!MaySend
    <3> QED
      BY <1>8, <2>1, <3>1, Ranks DEF RecordKinds
  <2>5. ASSUME kind = "oversized" PROVE r.kind \in {"sequence", "coarse", "oversized"}
    <3>1. Walk!Latest \in {1, 2, 3}
      BY <1>1, <2>5 DEF Walk!MaySend
    <3> QED
      BY <1>8, <2>1, <3>1, Ranks DEF RecordKinds
  <2> QED
    BY <2>3, <2>4, <2>5
<1>9. \A r \in Walk!Records : r.end <= new.start /\ r.kind \in RecordKinds
  BY <1>3 DEF FrameInv, Laid, Recs
<1>10. Ranked(Walk!Records \cup {new})
  <2> SUFFICES ASSUME NEW r \in Walk!Records \cup {new}, NEW q \in Walk!Records \cup {new}
               PROVE  /\ r.kind = "coarse" /\ q.kind \in {"oversized", "ordinary"} => r.end <= q.start
                      /\ r.kind \in {"sequence", "coarse", "oversized"} /\ q.kind = "ordinary"
                            => r.end <= q.start
    BY DEF Ranked
  <2>1. CASE r \in Walk!Records /\ q \in Walk!Records
    BY <2>1 DEF FrameInv, Ranked
  <2>2. CASE r \in Walk!Records /\ q = new
    BY <1>9, <2>2
  <2>3. CASE r = new /\ q = new
    BY <2>3
  <2>4. CASE r = new /\ q \in Walk!Records
    BY <1>3, <1>8, <2>4
  <2> QED
    BY <2>1, <2>2, <2>3, <2>4
<1>11. ASSUME NEW r \in Walk!Records \cup {new}
       PROVE  /\ r.kind = "sequence" => r.start = 0 /\ r.end = 2
              /\ r.kind = "oversized" => r.end - r.start + 2 > Payload
              /\ sent.host = "packs" /\ r.kind \in {"ordinary", "padding"} => Walk!Fits(r.start, r.end)
  <2>1. CASE r \in Walk!Records
    BY <2>1 DEF FrameInv, Shaped
  <2>2. CASE r = new
    BY <1>1, <1>3, <2>2, PacketSizes DEF Walk!MaySend
  <2> QED
    BY <2>1, <2>2
<1>12. Shaped(Walk!Records)'
  <2>1. \A r \in Walk!Records' : sent'.host = "packs" /\ r.kind \in {"ordinary", "padding"} =>
            (Walk!Fits(r.start, r.end))'
    BY <1>5, <1>6, <1>11 DEF Walk!Fits, Walk!PacketOf, Walk!First, Walk!Header
  <2> QED
    BY <1>6, <1>11, <2>1 DEF Shaped
<1> QED
  BY <1>5, <1>6, <1>7, <1>10, <1>12 DEF FrameInv, Ranked

-----------------------------------------------------------------------------
(* The walk                                                                *)

Walks == [at : Nat, from : Nat, aligned : BOOLEAN, past : BOOLEAN, partial : BOOLEAN,
          intact : BOOLEAN, spans : SUBSET (Nat \X Nat),
          state : {"sending", "walking", "parsed", "refused", "misread"}]

\* These words arrived and are whole records, no padding among them.
Good(a, b) ==
    /\ ~Walk!Lost(a, b)
    /\ \A r \in Walk!Records :
          r.start < b /\ a < r.end => r.kind # "padding" /\ a <= r.start /\ r.end <= b

\* The record is in a span, or in the one that is being walked.
Kept(w, r) ==
    \/ \E s \in w.spans : s[1] <= r.start /\ r.start < s[2]
    \/ w.from <= r.start /\ r.start < w.at

Boundary(word) == word = Walk!Size \/ \E r \in Walk!Records : r.start = word

PacketsBegin(word) ==
    \A p \in 1..Walk!Packets : Walk!PacketStart(p) > word => Walk!RecordStart(p)

\* Where a walk may be, and what it may say of what is behind it.
Spans(w) ==
    /\ w.from <= w.at
    /\ \A s \in w.spans : Good(s[1], s[2])
    /\ w.at > w.from => Good(w.from, w.at)

Place(w) ==
    /\ Boundary(w.at) \/ (w.past /\ sent.host = "straddles")
    /\ w.aligned => w.past /\ (sent.host = "packs" => PacketsBegin(w.at))
    /\ w.past => \A r \in Walk!Records : r.kind = "coarse" => r.end <= w.at

Behind(w) ==
    /\ ~w.partial => \A r \in Walk!Records : r.kind # "padding" /\ r.end <= w.at => Kept(w, r)
    /\ w.intact => \A r \in Walk!Records : r.kind = "coarse" /\ r.end <= w.at => Kept(w, r)
    /\ w.intact /\ sent.known => Walk!CoarsePackets \cap sent.lost = {}

Walker(w) == w \in Walks /\ Spans(w) /\ Place(w) /\ Behind(w)

LEMMA RecordFields ==
    ASSUME FrameInv
    PROVE  /\ Walk!Size \in Nat
           /\ \A r \in Walk!Records :
                 /\ r.start \in Nat /\ r.end \in Nat /\ r.kind \in RecordKinds
                 /\ r.start + 2 <= r.end /\ r.end <= Walk!Size
BY DEF FrameInv, Laid, Recs

LEMMA SkipFields ==
    ASSUME NEW w \in Walks, NEW next \in Nat
    PROVE  LET v == Walk!SkipTo(w, next)
           IN  /\ v \in Walks /\ v.at = next /\ v.from = next
               /\ v.aligned = w.aligned /\ v.past = w.past /\ v.partial = w.partial
               /\ v.intact = w.intact /\ v.state = w.state
               /\ w.at > w.from => v.spans = w.spans \cup {<<w.from, w.at>>}
               /\ ~(w.at > w.from) => v.spans = w.spans
<1> DEFINE T == IF w.at > w.from THEN w.spans \cup {<<w.from, w.at>>} ELSE w.spans
<1>1. Walk!SkipTo(w, next) = [w EXCEPT !.at = next, !.from = next, !.spans = T]
  BY DEF Walk!SkipTo
<1>2. /\ w.at \in Nat /\ w.from \in Nat /\ w.spans \in SUBSET (Nat \X Nat)
      /\ w.at > w.from => T = w.spans \cup {<<w.from, w.at>>}
      /\ ~(w.at > w.from) => T = w.spans
  BY DEF Walks
<1>3. T \in SUBSET (Nat \X Nat)
  BY <1>2
<1> HIDE DEF T
<1> QED
  BY <1>1, <1>2, <1>3 DEF Walks

LEMMA SkipSpans ==
    ASSUME NEW w \in Walks, NEW v \in Walks, NEW r, r.start \in Nat,
           v.from = v.at,
           w.at > w.from => v.spans = w.spans \cup {<<w.from, w.at>>},
           ~(w.at > w.from) => v.spans = w.spans
    PROVE  /\ Kept(w, r) => Kept(v, r)
           /\ Spans(w) => Spans(v)
<1>1. w.at \in Nat /\ w.from \in Nat /\ v.at \in Nat /\ v.from \in Nat
  BY DEF Walks
<1>2. Kept(w, r) => Kept(v, r)
  <2>1. CASE w.at > w.from
    <3>1. <<w.from, w.at>> \in v.spans /\ <<w.from, w.at>>[1] = w.from /\ <<w.from, w.at>>[2] = w.at
      BY <2>1
    <3>2. \A s \in w.spans : s \in v.spans
      BY <2>1
    <3> QED
      BY <3>1, <3>2, Zenon DEF Kept
  <2>2. CASE ~(w.at > w.from)
    BY SMT, <1>1, <2>2 DEF Kept
  <2> QED
    BY <2>1, <2>2
<1>3. Spans(w) => Spans(v)
  <2>1. CASE w.at > w.from
    BY SMT, <1>1, <2>1 DEF Spans
  <2>2. CASE ~(w.at > w.from)
    BY SMT, <1>1, <2>2 DEF Spans
  <2> QED
    BY <2>1, <2>2
<1> QED
  BY <1>2, <1>3

LEMMA SkipWalks ==
    ASSUME FrameInv, NEW w, Walker(w), NEW next \in Nat, next >= w.at,
           Boundary(next) \/ (w.past /\ sent.host = "straddles"),
           ~w.partial => \A r \in Walk!Records : r.kind # "padding" /\ r.end <= next => r.end <= w.at,
           w.intact => \A r \in Walk!Records : r.kind = "coarse" /\ r.end <= next => r.end <= w.at
    PROVE  Walker(Walk!SkipTo(w, next))
<1>1. w \in Walks /\ Spans(w) /\ Place(w) /\ Behind(w) /\ w.at \in Nat
  BY DEF Walker, Walks
<1>2. PICK v : v = Walk!SkipTo(w, next)
  OBVIOUS
<1>3. /\ v \in Walks /\ v.at = next /\ v.from = next
      /\ v.aligned = w.aligned /\ v.past = w.past /\ v.partial = w.partial
      /\ v.intact = w.intact /\ v.state = w.state
      /\ w.at > w.from => v.spans = w.spans \cup {<<w.from, w.at>>}
      /\ ~(w.at > w.from) => v.spans = w.spans
  BY <1>1, <1>2, SkipFields
<1>4. Spans(v)
  <2>1. [start |-> 0].start \in Nat
    OBVIOUS
  <2> QED
    BY <1>1, <1>3, <2>1, SkipSpans
<1>5. Place(v)
  <2>1. PacketsBegin(w.at) => PacketsBegin(next)
    <3>1. \A p \in 1..Walk!Packets : Walk!PacketStart(p) \in Nat
      BY SMT, PacketStarts
    <3> QED
      BY SMT, <1>1, <3>1 DEF PacketsBegin
  <2>2. (\A r \in Walk!Records : r.kind = "coarse" => r.end <= w.at) =>
            \A r \in Walk!Records : r.kind = "coarse" => r.end <= next
    BY SMT, <1>1, RecordFields
  <2> QED
    BY <1>1, <1>3, <2>1, <2>2 DEF Place
<1>6. Behind(v)
  <2>1. \A r \in Walk!Records : Kept(w, r) => Kept(v, r)
    BY <1>1, <1>3, SkipSpans, RecordFields
  <2> QED
    BY <1>1, <1>3, <2>1 DEF Behind
<1> QED
  BY <1>2, <1>3, <1>4, <1>5, <1>6 DEF Walker

\* A record that was not lost joins the span that is being walked.
LEMMA Joins ==
    ASSUME FrameInv, NEW w, Spans(w), w.at \in Nat, w.from \in Nat,
           NEW r \in Walk!Records, r.start = w.at,
           r.kind # "padding", ~Walk!Lost(r.start, r.end)
    PROVE  Good(w.from, r.end)
<1>1. /\ \A q \in Walk!Records : q.start \in Nat /\ q.end \in Nat /\ q.start + 2 <= q.end
      /\ \A q, p \in Walk!Records : q = p \/ q.end <= p.start \/ p.end <= q.start
      /\ sent.lost \subseteq Nat
  BY RecordFields DEF FrameInv, Laid, FrameTyped
<1>2. ~Walk!Lost(w.from, r.end)
  <2> SUFFICES ASSUME NEW p \in sent.lost, Walk!PacketOf(w.from) <= p, p <= Walk!PacketOf(r.end - 1)
               PROVE  FALSE
    BY DEF Walk!Lost
  <2>1. p \in Nat /\ p < Walk!PacketOf(w.at)
    <3>1. ~(Walk!PacketOf(w.at) <= p)
      BY DEF Walk!Lost
    <3>2. Walk!PacketOf(w.at) \in Nat
      BY PacketIs
    <3> QED
      BY SMT, <1>1, <3>1, <3>2
  <2>2. CASE w.at > w.from
    <3>1. ~(p <= Walk!PacketOf(w.at - 1))
      BY <2>2 DEF Spans, Good, Walk!Lost
    <3>2. PICK v \in Nat : v + 1 = w.at /\ v = w.at - 1
      BY SMT, <2>2
    <3>3. Walk!PacketOf(v + 1) <= Walk!PacketOf(v) + 1 /\ Walk!PacketOf(v) \in Nat
      BY PacketNext, PacketIs
    <3>4. Walk!PacketOf(v + 1) = Walk!PacketOf(w.at) /\ Walk!PacketOf(v) = Walk!PacketOf(w.at - 1)
      BY <3>2
    <3>5. PICK i, j : i = Walk!PacketOf(w.at) /\ j = Walk!PacketOf(w.at - 1)
      OBVIOUS
    <3>6. i \in Nat /\ j \in Nat /\ i <= j + 1 /\ p < i /\ ~(p <= j)
      BY <2>1, <3>1, <3>3, <3>4, <3>5, PacketIs
    <3> QED
      BY SMT, <2>1, <3>6
  <2>3. CASE w.at = w.from
    BY SMT, <2>1, <2>3, PacketIs
  <2> QED
    BY SMT, <2>2, <2>3 DEF Spans
<1>3. w.from <= w.at
  BY DEF Spans
<1>4. ASSUME NEW q \in Walk!Records, q.start < r.end, w.from < q.end
      PROVE  q.kind # "padding" /\ w.from <= q.start /\ q.end <= r.end
  <2>1. CASE q = r
    BY SMT, <1>1, <1>3, <2>1
  <2>2. CASE q # r
    <3>1. q.end <= w.at
      BY SMT, <1>1, <1>4, <2>2
    <3>2. w.at > w.from /\ q.start < w.at
      BY SMT, <1>1, <1>4, <3>1
    <3> QED
      BY SMT, <1>1, <1>4, <3>1, <3>2 DEF Spans, Good
  <2> QED
    BY <2>1, <2>2
<1> QED
  BY <1>2, <1>4 DEF Good

LEMMA AfterRecord ==
    ASSUME FrameInv, NEW r \in Walk!Records
    PROVE  /\ Boundary(r.end)
           /\ \A q \in Walk!Records : q.end <= r.end => q = r \/ q.end <= r.start
<1>1. /\ Walk!Size \in Nat
      /\ \A q \in Walk!Records : q.start \in Nat /\ q.end \in Nat /\ q.start + 2 <= q.end
                                 /\ q.end <= Walk!Size
      /\ \A w \in Nat : w < Walk!Size => \E q \in Walk!Records : q.start <= w /\ w < q.end
      /\ \A q, p \in Walk!Records : q = p \/ q.end <= p.start \/ p.end <= q.start
  BY RecordFields DEF FrameInv, Laid
<1>2. Boundary(r.end)
  <2>1. CASE r.end = Walk!Size
    BY <2>1 DEF Boundary
  <2>2. CASE r.end # Walk!Size
    <3>1. r.end \in Nat /\ r.end < Walk!Size
      BY SMT, <1>1, <2>2
    <3>2. PICK q \in Walk!Records : q.start <= r.end /\ r.end < q.end
      BY <1>1, <3>1
    <3>3. q.start = r.end
      BY SMT, <1>1, <3>2
    <3> QED
      BY <3>3 DEF Boundary
  <2> QED
    BY <2>1, <2>2
<1>3. ASSUME NEW q \in Walk!Records, q.end <= r.end PROVE q = r \/ q.end <= r.start
  BY SMT, <1>1, <1>3
<1> QED
  BY <1>2, <1>3

LEMMA PacketsBeginOn ==
    ASSUME NEW v \in Nat, NEW w \in Nat, v <= w, PacketsBegin(v)
    PROVE  PacketsBegin(w)
<1>1. \A p \in 1..Walk!Packets : Walk!PacketStart(p) \in Nat
  BY SMT, PacketStarts
<1> QED
  BY SMT, <1>1 DEF PacketsBegin

LEMMA ExtendWalks ==
    ASSUME FrameInv, NEW w, Walker(w), NEW r \in Walk!Records, r.start = w.at,
           r.kind # "padding", ~Walk!Lost(r.start, r.end),
           NEW v \in Walks, v.at = r.end, v.from = w.from, v.spans = w.spans,
           v.partial = w.partial, v.intact = w.intact, v.past <=> w.past \/ Walk!Fine(r),
           v.aligned => v.past /\ (sent.host = "packs" => PacketsBegin(r.end))
    PROVE  Walker(v)
<1>1. w \in Walks /\ Spans(w) /\ Place(w) /\ Behind(w) /\ w.at \in Nat /\ w.from \in Nat
  BY DEF Walker, Walks
<1>2. /\ r.start \in Nat /\ r.end \in Nat /\ r.start + 2 <= r.end /\ w.from <= w.at
      /\ \A q \in Walk!Records : q.start \in Nat /\ q.end \in Nat
  BY <1>1, RecordFields DEF Spans
<1>3. Spans(v)
  <2>1. Good(w.from, r.end)
    BY <1>1, Joins
  <2> QED
    BY SMT, <1>1, <1>2, <2>1 DEF Spans
<1>4. Place(v)
  <2>1. Boundary(v.at)
    BY AfterRecord
  <2>2. ASSUME v.past, NEW q \in Walk!Records, q.kind = "coarse" PROVE q.end <= r.end
    <3>1. CASE w.past
      BY SMT, <1>1, <1>2, <2>2, <3>1 DEF Place
    <3>2. CASE Walk!Fine(r)
      <4>1. q.end <= r.start
        BY <2>2, <3>2 DEF FrameInv, Ranked, Walk!Fine
      <4> QED
        BY SMT, <1>2, <4>1
    <3> QED
      BY <2>2, <3>1, <3>2
  <2> QED
    BY <2>1, <2>2 DEF Place
<1>5. ASSUME NEW q \in Walk!Records, q.end <= r.end, q.end <= w.at => Kept(w, q) PROVE Kept(v, q)
  <2>1. CASE q = r
    BY SMT, <1>1, <1>2, <2>1 DEF Kept
  <2>2. CASE q # r
    <3>1. q.end <= w.at
      BY <1>5, <2>2, AfterRecord
    <3> QED
      BY SMT, <1>1, <1>2, <1>5, <3>1 DEF Kept
  <2> QED
    BY <2>1, <2>2
<1>6. Behind(v)
  BY <1>1, <1>5 DEF Behind
<1> QED
  BY <1>3, <1>4, <1>6 DEF Walker

LEMMA NoteLossWalks ==
    ASSUME NEW w, Walker(w), NEW v \in Walks,
           v.at = w.at, v.from = w.from, v.spans = w.spans, v.partial,
           v.intact => w.intact, v.past <=> w.past, v.aligned => w.aligned
    PROVE  Walker(v)
<1>1. Spans(v)
  BY DEF Walker, Spans
<1>2. Place(v)
  BY DEF Walker, Place
<1>3. Behind(v)
  BY Zenon DEF Walker, Behind, Kept
<1> QED
  BY <1>1, <1>2, <1>3 DEF Walker

LEMMA NoteLossFields ==
    ASSUME NEW w \in Walks, sent.known \in BOOLEAN
    PROVE  LET v == Walk!NoteLoss(w)
           IN  /\ v \in Walks /\ v.at = w.at /\ v.from = w.from /\ v.spans = w.spans
               /\ v.past = w.past /\ v.aligned = w.aligned /\ v.partial = TRUE /\ v.state = w.state
               /\ v.intact <=> w.intact /\ (w.past \/ sent.known)
BY DEF Walk!NoteLoss, Walks

LEMMA LeastElement ==
    ASSUME NEW T, T \subseteq Nat, T # {}
    PROVE  \E x \in T : \A y \in T : x <= y
<1>1. IsWellFoundedOn(OpToRel(<, Nat), Nat)
  BY NatLessThanWellFounded
<1>2. PICK x \in T : \A y \in T : ~(<<y, x>> \in OpToRel(<, Nat))
  BY <1>1, WFMin
<1>3. ASSUME NEW y \in T PROVE x <= y
  <2>1. x \in Nat /\ y \in Nat
    OBVIOUS
  <2>2. ~(y < x)
    BY <1>2, <2>1 DEF OpToRel
  <2> QED
    BY <2>1, <2>2
<1> QED
  BY <1>3

\* Where a walk that lost a header may go on.
LEMMA NextStarts ==
    ASSUME FrameInv, NEW w, Walker(w), w.at < Walk!Size, Walk!Flagged \/ w.aligned
    PROVE  /\ Walk!NextReceivedStart(w.at) \in Nat /\ Walk!NextReceivedStart(w.at) >= w.at
           /\ Boundary(Walk!NextReceivedStart(w.at)) \/ (w.past /\ sent.host = "straddles")
<1> DEFINE next == {p \in (Walk!PacketOf(w.at) + 1)..Walk!Packets :
                       p \notin sent.lost /\ (Walk!Flagged => Walk!RecordStart(p))}
<1>1. w.at \in Nat /\ Walk!Size \in Nat /\ Place(w) /\ sent.host \in {"flags", "packs", "straddles"}
  BY RecordFields, PacketSizes DEF Walker, Walks, FrameInv, FrameTyped
<1>2. Walk!NextReceivedStart(w.at) =
          IF next = {} THEN Walk!Size
          ELSE Walk!PacketStart(CHOOSE p \in next : \A q \in next : p <= q)
  BY DEF Walk!NextReceivedStart
<1>3. Walk!PacketOf(w.at) \in Nat /\ Walk!PacketOf(w.at) >= 1 /\ Walk!Packets \in Nat
  BY SMT, <1>1, PacketIs DEF Walk!Packets
<1>4. CASE next = {}
  BY <1>1, <1>2, <1>4 DEF Boundary
<1>5. CASE next # {}
  <2>1. next \subseteq Nat
    BY <1>3
  <2>2. \E p \in next : \A q \in next : p <= q
    <3> HIDE DEF next
    <3> QED
      BY <1>5, <2>1, LeastElement
  <2>3. PICK p \in next : p = CHOOSE o \in next : \A q \in next : o <= q
    <3> HIDE DEF next
    <3> QED
      BY <2>2
  <2>4. Walk!NextReceivedStart(w.at) = Walk!PacketStart(p)
    BY <1>2, <1>5, <2>3
  <2>5. /\ p \in Nat /\ p >= Walk!PacketOf(w.at) + 1 /\ p <= Walk!Packets /\ p >= 1
        /\ Walk!Flagged => Walk!RecordStart(p)
    BY <1>3
  <2>6. Walk!PacketStart(p) \in Nat /\ Walk!PacketStart(p) > w.at
    <3>1. PICK o : o = Walk!PacketOf(w.at) + 1
      OBVIOUS
    <3>2. o \in Nat /\ o >= 1 /\ w.at < Walk!PacketStart(o) /\ o <= p
      BY SMT, <1>1, <1>3, <2>5, <3>1, PacketIs
    <3>3. Walk!PacketStart(o) \in Nat /\ Walk!PacketStart(p) \in Nat
      BY <2>5, <3>2, PacketStarts
    <3>4. p > o => Walk!PacketStart(p) > Walk!PacketStart(o)
      BY <2>5, <3>2, PacketStarts
    <3> QED
      BY SMT, <1>1, <2>5, <3>2, <3>3, <3>4
  <2>7. Walk!RecordStart(p) \/ (w.past /\ sent.host = "straddles")
    <3>1. CASE Walk!Flagged
      BY <2>5, <3>1
    <3>2. CASE ~Walk!Flagged /\ sent.host = "packs"
      <4>1. PacketsBegin(w.at)
        BY <1>1, <3>2 DEF Place
      <4> QED
        BY <1>3, <2>5, <2>6, <4>1 DEF PacketsBegin
    <3>3. CASE ~Walk!Flagged /\ sent.host = "straddles"
      BY <1>1, <3>3 DEF Place
    <3> QED
      BY <1>1, <3>1, <3>2, <3>3 DEF Walk!Flagged
  <2>8. Walk!RecordStart(p) => Boundary(Walk!PacketStart(p))
    BY DEF Walk!RecordStart, Boundary
  <2> QED
    BY SMT, <1>1, <2>4, <2>6, <2>7, <2>8
<1> QED
  BY <1>4, <1>5

\* Behind an ordinary record of a host that packs, every packet begins with one.
LEMMA OrdinaryAligns ==
    ASSUME FrameInv, NEW r \in Walk!Records, Walk!Fine(r), sent.host = "packs",
           r.end - r.start + Walk!Header <= Walk!PayloadSize
    PROVE  PacketsBegin(r.end)
<1>1. /\ Walk!Size \in Nat /\ r.start \in Nat /\ r.end \in Nat /\ r.start + 2 <= r.end
      /\ r.end <= Walk!Size /\ r.kind \in {"oversized", "ordinary"}
      /\ \A q \in Walk!Records : q.start \in Nat /\ q.end \in Nat /\ q.start + 2 <= q.end
                                 /\ q.kind \in RecordKinds
      /\ \A w \in Nat : w < Walk!Size => \E q \in Walk!Records : q.start <= w /\ w < q.end
      /\ \A q, p \in Walk!Records : q = p \/ q.end <= p.start \/ p.end <= q.start
  BY RecordFields DEF FrameInv, Laid, Walk!Fine
<1> SUFFICES ASSUME NEW p \in 1..Walk!Packets, Walk!PacketStart(p) > r.end
             PROVE  Walk!RecordStart(p)
  BY DEF PacketsBegin
<1>2. Walk!Packets \in Nat /\ (Walk!Size # 0 => Walk!Packets = Walk!PacketOf(Walk!Size - 1))
  BY SMT, <1>1, PacketIs DEF Walk!Packets
<1>3. p \in Nat /\ p >= 2 /\ Walk!Packets >= 2
  BY SMT, <1>1, <1>2, PacketStarts
<1>4. r.kind = "ordinary"
  <2>1. Walk!PayloadSize = Payload
    BY <1>3 DEF Walk!PayloadSize
  <2>2. r.kind = "oversized" => r.end - r.start + 2 > Payload
    BY DEF FrameInv, Shaped
  <2> QED
    BY SMT, <1>1, <2>1, <2>2, PacketSizes
<1>5. PICK s : s = Walk!PacketStart(p)
  OBVIOUS
<1>6. /\ s \in Nat /\ s >= 1 /\ s > r.end
      /\ Walk!PacketOf(s) = p /\ Walk!PacketOf(s - 1) = p - 1
  BY <1>3, <1>5, PacketBegins
<1>7. s < Walk!Size
  <2>1. PICK z \in Nat : z = Walk!Size - 1 /\ Walk!Packets = Walk!PacketOf(z)
    BY SMT, <1>1, <1>2
  <2>2. Walk!PacketStart(Walk!Packets) <= z /\ Walk!PacketStart(Walk!Packets) \in Nat
    BY SMT, <1>2, <1>3, <2>1, PacketIs, PacketStarts
  <2>3. Walk!Packets > p => Walk!PacketStart(Walk!Packets) > Walk!PacketStart(p)
    BY SMT, <1>2, <1>3, PacketStarts
  <2>4. Walk!PacketStart(Walk!Packets) >= s
    BY SMT, <1>2, <1>3, <1>5, <1>6, <2>2, <2>3
  <2> QED
    BY SMT, <1>1, <1>6, <2>1, <2>2, <2>4
<1>8. PICK q \in Walk!Records : q.start <= s /\ s < q.end
  BY <1>1, <1>6, <1>7
<1>9. q.start >= r.end
  BY SMT, <1>1, <1>6, <1>8
<1>10. q.kind \in {"ordinary", "padding"}
  <2>1. q.kind \in {"sequence", "coarse", "oversized"} => q.end <= r.start
    BY <1>4 DEF FrameInv, Ranked
  <2>2. ~(q.end <= r.start)
    BY SMT, <1>1, <1>9
  <2> QED
    BY <1>1, <2>1, <2>2 DEF RecordKinds
<1>11. Walk!PacketOf(q.start) = Walk!PacketOf(q.end - 1)
  BY <1>10 DEF FrameInv, Shaped, Walk!Fits
<1>12. CASE q.start = s
  BY <1>5, <1>12 DEF Walk!RecordStart
<1>13. CASE q.start # s
  <2>1. q.start <= s - 1 /\ s - 1 \in Nat /\ s <= q.end - 1 /\ q.end - 1 \in Nat /\ q.start \in Nat
    BY SMT, <1>1, <1>6, <1>8, <1>13
  <2>2. Walk!PacketOf(q.start) <= p - 1
    BY <1>6, <2>1, PacketsAscend
  <2>3. p <= Walk!PacketOf(q.end - 1)
    BY <1>6, <2>1, PacketsAscend
  <2>4. Walk!PacketOf(q.start) \in Nat
    BY <2>1, PacketIs
  <2> QED
    BY SMT, <1>3, <1>11, <2>2, <2>3, <2>4
<1> QED
  BY <1>12, <1>13

LEMMA PaddingWalks ==
    ASSUME FrameInv, NEW w, Walker(w), NEW r \in Walk!Records, r.start = w.at, r.kind = "padding"
    PROVE  Walker(Walk!SkipTo(w, r.end))
<1>1. r.end \in Nat /\ r.start \in Nat /\ r.end >= w.at
  BY SMT, RecordFields
<1>2. \A q \in Walk!Records : q.kind # "padding" /\ q.end <= r.end => q.end <= w.at
  BY AfterRecord
<1>3. Boundary(r.end)
  BY AfterRecord
<1> QED
  BY <1>1, <1>2, <1>3, SkipWalks

LEMMA SequenceWalks ==
    ASSUME FrameInv, NEW w, Walker(w), NEW r \in Walk!Records, r.start = w.at,
           r.kind = "sequence", ~Walk!HeaderLost(w)
    PROVE  Walker([w EXCEPT !.at = r.end])
<1>1. PICK v : v = [w EXCEPT !.at = r.end]
  OBVIOUS
<1>2. w \in Walks /\ w.at \in Nat /\ r.end \in Nat /\ r.start = 0 /\ r.end = 2 /\ r.end <= Walk!Size
      /\ Walk!Size \in Nat
  BY RecordFields DEF Walker, Walks, FrameInv, Shaped
<1>3. /\ v \in Walks /\ v.at = r.end /\ v.from = w.from /\ v.spans = w.spans
      /\ v.partial = w.partial /\ v.intact = w.intact /\ v.past = w.past /\ v.aligned = w.aligned
  BY <1>1, <1>2 DEF Walks
<1>4. ~Walk!Lost(r.start, r.end)
  <2>1. w.at = 0 /\ w.at + Walk!Header = 2 /\ ~(w.at + Walk!Header > Walk!Size)
    BY SMT, <1>2, PacketSizes
  <2> QED
    BY <1>2, <2>1 DEF Walk!HeaderLost
<1>5. ~Walk!Fine(r)
  BY DEF Walk!Fine
<1>6. v.aligned => v.past /\ (sent.host = "packs" => PacketsBegin(r.end))
  BY <1>2, <1>3, PacketsBeginOn DEF Walker, Place
<1> QED
  BY <1>1, <1>3, <1>4, <1>5, <1>6, ExtendWalks

LEMMA BlockWalks ==
    ASSUME FrameInv, NEW w, Walker(w), NEW r \in Walk!Records, r.start = w.at,
           r.kind \notin {"padding", "sequence"}
    PROVE  Walker(Walk!Block(w, r))
<1> DEFINE here == [w EXCEPT !.past = w.past \/ Walk!Fine(r)]
<1>1. w \in Walks /\ w.at \in Nat /\ sent.known \in BOOLEAN /\ Walk!Fine(r) \in BOOLEAN
  BY DEF Walker, Walks, FrameInv, FrameTyped, Walk!Fine
<1>2. /\ r.start \in Nat /\ r.end \in Nat /\ r.start + 2 <= r.end /\ r.end <= Walk!Size
      /\ r.kind \in RecordKinds /\ Walk!Size \in Nat
  BY RecordFields
<1>3. /\ here \in Walks /\ here.at = w.at /\ here.from = w.from /\ here.spans = w.spans
      /\ here.partial = w.partial /\ here.intact = w.intact /\ here.aligned = w.aligned
      /\ here.past = (w.past \/ Walk!Fine(r)) /\ here.state = w.state
  BY <1>1 DEF Walks
<1>4. Walk!Block(w, r) =
        IF Walk!Lost(r.start, r.end)
        THEN Walk!SkipTo([Walk!NoteLoss(here) EXCEPT !.aligned = FALSE], r.end)
        ELSE [here EXCEPT !.at = r.end,
                !.aligned = /\ r.end - r.start + Walk!Header <= Walk!PayloadSize
                            /\ Walk!Fine(r) /\ Walk!WithinOnePacket(r.start, r.end)]
  BY DEF Walk!Block
<1> HIDE DEF here
<1>5. ASSUME NEW q \in Walk!Records, q.kind = "coarse", here.past PROVE q.end <= w.at
  BY <1>3, <1>5 DEF Walker, Place, FrameInv, Ranked, Walk!Fine
<1>6. CASE Walk!Lost(r.start, r.end)
  <2>1. PICK u : u = Walk!NoteLoss(here)
    OBVIOUS
  <2>2. /\ u \in Walks /\ u.at = w.at /\ u.from = w.from /\ u.spans = w.spans
        /\ u.past = here.past /\ u.partial = TRUE
        /\ u.intact <=> w.intact /\ (here.past \/ sent.known)
    BY <1>1, <1>3, <2>1, NoteLossFields
  <2>3. PICK v : v = [u EXCEPT !.aligned = FALSE]
    OBVIOUS
  <2>4. /\ v \in Walks /\ v.at = w.at /\ v.from = w.from /\ v.spans = w.spans
        /\ v.past = here.past /\ v.partial = TRUE /\ v.aligned = FALSE
        /\ v.intact <=> w.intact /\ (here.past \/ sent.known)
    BY <2>2, <2>3 DEF Walks
  <2>5. Walker(v)
    <3>1. Spans(v)
      BY <2>4 DEF Walker, Spans
    <3>2. Place(v)
      BY <1>5, <1>3, <2>4 DEF Walker, Place
    <3>3. Behind(v)
      BY <2>4, Zenon DEF Walker, Behind, Kept
    <3> QED
      BY <2>4, <3>1, <3>2, <3>3 DEF Walker
  <2>6. ASSUME v.intact, NEW q \in Walk!Records, q.kind = "coarse", q.end <= r.end
        PROVE  q.end <= v.at
    <3>1. CASE here.past
      BY <1>5, <2>4, <2>6, <3>1
    <3>2. CASE sent.known
      <4>1. Walk!CoarsePackets \cap sent.lost = {}
        BY <2>4, <2>6, <3>2 DEF Walker, Behind
      <4>2. q # r
        <5> SUFFICES ASSUME q = r PROVE FALSE
          OBVIOUS
        <5>1. PICK p \in sent.lost : Walk!PacketOf(r.start) <= p /\ p <= Walk!PacketOf(r.end - 1)
          BY <1>6 DEF Walk!Lost
        <5>2. /\ r.end - 1 \in Nat /\ Walk!Size - 1 \in Nat /\ r.end - 1 <= Walk!Size - 1
              /\ Walk!Size # 0
          BY SMT, <1>2
        <5>3. /\ Walk!PacketOf(r.start) \in Nat /\ Walk!PacketOf(r.start) >= 1
              /\ Walk!PacketOf(r.end - 1) \in Nat /\ Walk!PacketOf(Walk!Size - 1) \in Nat
              /\ Walk!PacketOf(r.end - 1) <= Walk!PacketOf(Walk!Size - 1)
          BY <1>2, <5>2, PacketIs, PacketsAscend
        <5>4. p \in Nat
          BY DEF FrameInv, FrameTyped
        <5>5. p \in 1..Walk!Packets
          BY SMT, <5>1, <5>2, <5>3, <5>4 DEF Walk!Packets
        <5>6. p \in Walk!CoarsePackets
          BY <2>6, <5>1, <5>5 DEF Walk!CoarsePackets
        <5> QED
          BY <4>1, <5>6
      <4> QED
        BY <2>4, <2>6, <4>2, AfterRecord
    <3> QED
      BY <2>4, <2>6, <3>1, <3>2
  <2>7. r.end >= v.at /\ Boundary(r.end)
    BY <1>2, <2>4, AfterRecord
  <2>8. Walker(Walk!SkipTo(v, r.end))
    BY <1>2, <2>4, <2>5, <2>6, <2>7, SkipWalks
  <2> QED
    BY <1>4, <1>6, <2>1, <2>3, <2>8
<1>7. CASE ~Walk!Lost(r.start, r.end)
  <2>1. PICK v : v = Walk!Block(w, r)
    OBVIOUS
  <2>2. /\ v \in Walks /\ v.at = r.end /\ v.from = w.from /\ v.spans = w.spans
        /\ v.partial = w.partial /\ v.intact = w.intact /\ v.past = (w.past \/ Walk!Fine(r))
        /\ v.aligned => Walk!Fine(r) /\ r.end - r.start + Walk!Header <= Walk!PayloadSize
    <3>1. PICK a \in BOOLEAN : a <=> /\ r.end - r.start + Walk!Header <= Walk!PayloadSize
                                     /\ Walk!Fine(r) /\ Walk!WithinOnePacket(r.start, r.end)
      OBVIOUS
    <3>2. v = [here EXCEPT !.at = r.end, !.aligned = a]
      BY <1>4, <1>7, <2>1, <3>1
    <3> QED
      BY <1>2, <1>3, <3>1, <3>2 DEF Walks
  <2>3. v.aligned => v.past /\ (sent.host = "packs" => PacketsBegin(r.end))
    BY <2>2, OrdinaryAligns
  <2> QED
    BY <1>7, <2>1, <2>2, <2>3, ExtendWalks
<1> QED
  BY <1>6, <1>7

LEMMA HeaderWalks ==
    ASSUME FrameInv, NEW w, Walker(w), w.at < Walk!Size, Walk!HeaderLost(w)
    PROVE  Walker(Walk!SkipTo(Walk!NoteLoss(w),
               IF Walk!Flagged \/ w.aligned THEN Walk!NextReceivedStart(w.at) ELSE Walk!Size))
<1>1. w \in Walks /\ w.at \in Nat /\ sent.known \in BOOLEAN /\ Walk!Size \in Nat
  BY RecordFields DEF Walker, Walks, FrameInv, FrameTyped
<1>2. PICK next : next = IF Walk!Flagged \/ w.aligned THEN Walk!NextReceivedStart(w.at) ELSE Walk!Size
  OBVIOUS
<1>3. /\ next \in Nat /\ next >= w.at
      /\ Boundary(next) \/ (w.past /\ sent.host = "straddles")
  <2>1. CASE Walk!Flagged \/ w.aligned
    BY <1>2, <2>1, NextStarts
  <2>2. CASE ~(Walk!Flagged \/ w.aligned)
    <3>1. next = Walk!Size
      BY <1>2, <2>2
    <3>2. Walk!Size >= w.at
      BY SMT, <1>1
    <3> QED
      BY <1>1, <3>1, <3>2 DEF Boundary
  <2> QED
    BY <2>1, <2>2
<1>4. PICK v : v = Walk!NoteLoss(w)
  OBVIOUS
<1>5. /\ v \in Walks /\ v.at = w.at /\ v.from = w.from /\ v.spans = w.spans
      /\ v.past = w.past /\ v.aligned = w.aligned /\ v.partial = TRUE
      /\ v.intact <=> w.intact /\ (w.past \/ sent.known)
  BY <1>1, <1>4, NoteLossFields
<1>6. Walker(v)
  BY <1>5, NoteLossWalks
<1>7. ASSUME v.intact, NEW q \in Walk!Records, q.kind = "coarse" PROVE q.end <= v.at
  <2>1. CASE w.past
    BY <1>5, <1>7, <2>1 DEF Walker, Place
  <2>2. CASE ~w.past
    <3> SUFFICES ASSUME ~(q.end <= w.at) PROVE FALSE
      BY <1>5
    <3>1. Walk!CoarsePackets \cap sent.lost = {}
      BY <1>5, <1>7, <2>2 DEF Walker, Behind
    <3>2. PICK r \in Walk!Records : r.start = w.at
      BY <1>1, <2>2 DEF Walker, Place, Boundary
    <3>3. q.start >= w.at /\ q.start + 2 <= q.end /\ q.end <= Walk!Size /\ q.start \in Nat /\ q.end \in Nat
      <4>1. q = r \/ q.end <= r.start \/ r.end <= q.start
        BY DEF FrameInv, Laid
      <4>2. /\ q.start \in Nat /\ q.end \in Nat /\ q.start + 2 <= q.end /\ q.end <= Walk!Size
            /\ r.start \in Nat /\ r.end \in Nat /\ r.start + 2 <= r.end
        BY RecordFields
      <4> QED
        BY SMT, <1>1, <3>2, <4>1, <4>2
    <3>4. w.at + Walk!Header = w.at + 2 /\ ~(w.at + Walk!Header > Walk!Size)
      BY SMT, <1>1, <3>3, PacketSizes
    <3>5. PICK e \in Nat : e = w.at + 2
      BY <1>1
    <3>6. Walk!Lost(w.at, e)
      BY <3>4, <3>5, Zenon DEF Walk!HeaderLost
    <3>7. PICK p \in sent.lost : Walk!PacketOf(w.at) <= p /\ p <= Walk!PacketOf(e - 1)
      BY <3>6 DEF Walk!Lost
    <3>8. /\ e - 1 \in Nat /\ q.end - 1 \in Nat /\ Walk!Size - 1 \in Nat
          /\ e - 1 <= q.end - 1 /\ q.end - 1 <= Walk!Size - 1 /\ Walk!Size # 0
      BY SMT, <1>1, <3>3, <3>5
    <3>9. /\ Walk!PacketOf(w.at) \in Nat /\ Walk!PacketOf(w.at) >= 1
          /\ Walk!PacketOf(e - 1) \in Nat
          /\ Walk!PacketOf(q.end - 1) \in Nat /\ Walk!PacketOf(Walk!Size - 1) \in Nat
          /\ Walk!PacketOf(e - 1) <= Walk!PacketOf(q.end - 1)
          /\ Walk!PacketOf(q.end - 1) <= Walk!PacketOf(Walk!Size - 1)
      BY <1>1, <3>8, PacketIs, PacketsAscend
    <3>10. p \in Nat
      BY DEF FrameInv, FrameTyped
    <3>11. p \in 1..Walk!Packets /\ p <= Walk!PacketOf(q.end - 1)
      BY SMT, <3>7, <3>8, <3>9, <3>10 DEF Walk!Packets
    <3>12. p \in Walk!CoarsePackets
      BY <1>7, <3>11 DEF Walk!CoarsePackets
    <3> QED
      BY <3>1, <3>12
  <2> QED
    BY <2>1, <2>2
<1>8. Walker(Walk!SkipTo(v, next))
  BY <1>3, <1>5, <1>6, <1>7, SkipWalks
<1> QED
  BY <1>2, <1>4, <1>8

\* A walk that is at the end of the frame has parsed it.
LEMMA ParsedFits ==
    ASSUME FrameInv, Walker(walk), walk.from = walk.at, walk.at >= Walk!Size
    PROVE  Walk!IntactIsTrue
<1>1. walk.at \in Nat /\ walk.spans \in SUBSET (Nat \X Nat) /\ Walk!Size \in Nat
  BY RecordFields DEF Walker, Walks
<1>2. ASSUME NEW r \in Walk!Records, Kept(walk, r) PROVE Walk!Passed(r)
  <2>1. r.start \in Nat
    BY RecordFields
  <2>2. PICK s \in walk.spans : s[1] <= r.start /\ r.start < s[2]
    BY SMT, <1>1, <1>2, <2>1 DEF Kept
  <2>3. s[1] \in Nat /\ s[2] \in Nat
    BY <1>1
  <2> QED
    BY SMT, <2>1, <2>2, <2>3 DEF Walk!Passed, Walk!Words
<1>3. \A r \in Walk!Records : r.end <= walk.at
  BY SMT, <1>1, RecordFields
<1> QED
  BY <1>2, <1>3 DEF Walk!IntactIsTrue, Walker, Behind

LEMMA SpansFit ==
    ASSUME FrameInv, walk \in Walks, \A s \in walk.spans : Good(s[1], s[2])
    PROVE  Walk!OnlyWhole
<1> SUFFICES ASSUME NEW s \in walk.spans
             PROVE  /\ ~Walk!Lost(s[1], s[2])
                    /\ \A r \in Walk!Records :
                          Walk!Words(s) \cap (r.start..(r.end - 1)) # {} =>
                              r.kind # "padding" /\ s[1] <= r.start /\ r.end <= s[2]
  BY DEF Walk!OnlyWhole
<1>1. Good(s[1], s[2]) /\ s[1] \in Nat /\ s[2] \in Nat
  BY DEF Walks
<1>2. ASSUME NEW r \in Walk!Records, Walk!Words(s) \cap (r.start..(r.end - 1)) # {}
      PROVE  r.start < s[2] /\ s[1] < r.end
  <2>1. PICK w : w \in s[1]..(s[2] - 1) /\ w \in r.start..(r.end - 1)
    BY <1>2 DEF Walk!Words
  <2>2. r.start \in Nat /\ r.end \in Nat
    BY RecordFields
  <2> QED
    BY SMT, <1>1, <2>1, <2>2
<1> QED
  BY <1>1, <1>2 DEF Good

\* The invariant of frames, those on their way and those walked.
WalkInv ==
    /\ FrameInv /\ walk \in Walks
    /\ walk.state \in {"sending", "refused"} => walk.spans = {}
    /\ walk.state = "walking" => Walker(walk)
    /\ walk.state = "parsed" => Walker(walk) /\ walk.from = walk.at /\ walk.at >= Walk!Size
    /\ walk.state = "misread" => Spans(walk) /\ sent.host = "straddles"

LEMMA WalkFits == ASSUME WalkInv PROVE Walk!FramingOK
<1>1. \A s \in walk.spans : Good(s[1], s[2])
  BY DEF WalkInv, Walks, Walker, Spans
<1>2. Walk!OnlyWhole
  BY <1>1, SpansFit DEF WalkInv
<1>3. Walk!IntactIsTrue
  BY ParsedFits DEF WalkInv, Walk!IntactIsTrue
<1>4. Walk!NoMisread
  BY DEF WalkInv, Walk!NoMisread
<1> QED
  BY <1>2, <1>3, <1>4 DEF Walk!FramingOK

\* What is said of the frame stays while it is walked.
LEMMA FrameStays ==
    ASSUME UNCHANGED sent
    PROVE  /\ FrameInv' <=> FrameInv
           /\ Walk!Size' = Walk!Size
           /\ Walker(walk)' <=> Walker(walk')
           /\ Spans(walk)' <=> Spans(walk')
<1>1. Walk!Records' = Walk!Records /\ Walk!Size' = Walk!Size
  BY DEF Walk!Records, Walk!Size
<1>2. Walk!Packets' = Walk!Packets
  BY <1>1 DEF Walk!Packets, Walk!PacketOf, Walk!First, Walk!Header
<1>3. \A a, b : Walk!Lost(a, b)' <=> Walk!Lost(a, b)
  BY DEF Walk!Lost, Walk!PacketOf, Walk!First, Walk!Header
<1>4. \A a, b : Walk!Fits(a, b)' <=> Walk!Fits(a, b)
  BY DEF Walk!Fits, Walk!PacketOf, Walk!First, Walk!Header
<1>5. \A p : Walk!RecordStart(p)' <=> Walk!RecordStart(p)
  BY <1>1 DEF Walk!RecordStart, Walk!PacketStart, Walk!First, Walk!Header
<1>6. Walk!CoarsePackets' = Walk!CoarsePackets
  BY <1>1, <1>2 DEF Walk!CoarsePackets, Walk!PacketOf, Walk!First, Walk!Header
<1>7. FrameInv' <=> FrameInv
  BY <1>1, <1>4 DEF FrameInv, FrameTyped, Laid, Ranked, Shaped
<1>8. Spans(walk)' <=> Spans(walk')
  BY <1>1, <1>3 DEF Spans, Good
<1>9. Place(walk)' <=> Place(walk')
  BY <1>1, <1>2, <1>5 DEF Place, Boundary, PacketsBegin, Walk!PacketStart, Walk!First, Walk!Header
<1>10. Behind(walk)' <=> Behind(walk')
  BY <1>1, <1>6 DEF Behind, Kept
<1> QED
  BY <1>1, <1>7, <1>8, <1>9, <1>10 DEF Walker

LEMMA ReceiveKeeps == ASSUME WalkInv, Walk!Receive PROVE WalkInv'
<1>1. PICK gone \in SUBSET (1..Walk!Packets), known \in BOOLEAN :
         /\ sent' = [sent EXCEPT !.lost = gone, !.known = known]
         /\ walk' = IF 1 \in gone THEN [Walk!Walking EXCEPT !.state = "refused"]
                    ELSE [Walk!Walking EXCEPT
                            !.intact = ~known \/ Walk!CoarsePackets \cap gone = {}]
  BY Zenon DEF Walk!Receive
<1>2. FrameInv /\ Walk!Size > 0 /\ Walk!Packets \in Nat
  <2>1. Walk!Size \in Nat /\ Walk!Size > 0
    BY RecordFields DEF WalkInv, Walk!Receive
  <2>2. Walk!Size - 1 \in Nat /\ Walk!Size # 0
    BY SMT, <2>1
  <2> QED
    BY <2>1, <2>2, PacketIs DEF WalkInv, Walk!Packets
<1>3. /\ FrameTyped' /\ sent'.records = sent.records /\ sent'.host = sent.host
      /\ sent'.lost = gone /\ sent'.known = known
  <2>1. gone \in SUBSET Nat
    BY <1>2
  <2> QED
    BY <1>1, <1>2, <2>1 DEF FrameInv, FrameTyped
<1>4. Walk!Records' = Walk!Records /\ Walk!Size' = Walk!Size
  BY <1>3 DEF Walk!Records, Walk!Size
<1>5. Walk!CoarsePackets' = Walk!CoarsePackets
  <2>1. Walk!Packets' = Walk!Packets
    BY <1>4 DEF Walk!Packets, Walk!PacketOf, Walk!First, Walk!Header
  <2> QED
    BY <1>4, <2>1 DEF Walk!CoarsePackets, Walk!PacketOf, Walk!First, Walk!Header
<1>6. FrameInv'
  <2>1. \A a, b : Walk!Fits(a, b)' <=> Walk!Fits(a, b)
    BY DEF Walk!Fits, Walk!PacketOf, Walk!First, Walk!Header
  <2> QED
    BY <1>2, <1>3, <1>4, <2>1 DEF FrameInv, Laid, Ranked, Shaped
<1>7. CASE 1 \in gone
  <2>1. walk' \in Walks /\ walk'.state = "refused" /\ walk'.spans = {}
    BY <1>1, <1>7 DEF Walk!Walking, Walks
  <2> QED
    BY <1>6, <2>1 DEF WalkInv
<1>8. CASE 1 \notin gone
  <2>1. PICK whole \in BOOLEAN : whole <=> (~known \/ Walk!CoarsePackets \cap gone = {})
    OBVIOUS
  <2>2. walk' = [Walk!Walking EXCEPT !.intact = whole]
    BY <1>1, <1>8, <2>1
  <2>3. /\ walk' \in Walks /\ walk'.state = "walking" /\ walk'.spans = {}
        /\ walk'.at = 0 /\ walk'.from = 0 /\ walk'.past = FALSE /\ walk'.aligned = FALSE
        /\ walk'.intact = whole
    BY <2>2 DEF Walk!Walking, Walks
  <2>4. walk'.intact /\ sent'.known => Walk!CoarsePackets' \cap sent'.lost = {}
    BY <1>3, <1>5, <2>1, <2>3
  <2>5. Walker(walk)'
    <3>1. Walk!Size' > 0
      BY <1>2, <1>4
    <3>2. \A r \in Walk!Records' : r.end \in Nat /\ ~(r.end <= 0)
      BY <1>2, <1>4, RecordFields
    <3>3. Boundary(0)'
      <4>1. PICK r \in Walk!Records : r.start <= 0
        BY <1>2 DEF FrameInv, Laid
      <4>2. r.start = 0
        BY SMT, <1>2, <4>1, RecordFields
      <4> QED
        BY <1>4, <4>2 DEF Boundary
    <3>4. Spans(walk)'
      BY <2>3 DEF Spans
    <3>5. Place(walk)'
      BY <2>3, <3>3 DEF Place, Boundary
    <3>6. Behind(walk)'
      BY <2>3, <2>4, <3>2 DEF Behind
    <3> QED
      BY <2>3, <3>4, <3>5, <3>6 DEF Walker
  <2> QED
    BY <1>6, <2>3, <2>5 DEF WalkInv
<1> QED
  BY <1>7, <1>8

LEMMA SkipState == \A w, next : w \in Walks => Walk!SkipTo(w, next).state = w.state
BY DEF Walk!SkipTo, Walks

LEMMA BlockState ==
    ASSUME NEW w \in Walks, NEW r \in Walk!Records, FrameInv, w.state = "walking"
    PROVE  Walk!Block(w, r).state = "walking"
<1> DEFINE here == [w EXCEPT !.past = w.past \/ Walk!Fine(r)]
<1>1. here \in Walks /\ here.state = w.state /\ sent.known \in BOOLEAN
  BY DEF Walks, Walk!Fine, FrameInv, FrameTyped
<1>2. CASE Walk!Lost(r.start, r.end)
  <2>1. Walk!Block(w, r) = Walk!SkipTo([Walk!NoteLoss(here) EXCEPT !.aligned = FALSE], r.end)
    BY <1>2 DEF Walk!Block
  <2> HIDE DEF here
  <2>2. Walk!NoteLoss(here) \in Walks /\ Walk!NoteLoss(here).state = w.state
    BY <1>1, NoteLossFields
  <2>3. PICK v : v = [Walk!NoteLoss(here) EXCEPT !.aligned = FALSE]
    OBVIOUS
  <2>4. v \in Walks /\ v.state = w.state
    BY <2>2, <2>3 DEF Walks
  <2> QED
    BY <2>1, <2>3, <2>4, SkipState
<1>3. CASE ~Walk!Lost(r.start, r.end)
  BY <1>3 DEF Walk!Block, Walks
<1> QED
  BY <1>2, <1>3

LEMMA WalkGoesOn ==
    ASSUME WalkInv, UNCHANGED sent, walk'.state = "walking", Walker(walk')
    PROVE  WalkInv'
BY FrameStays DEF WalkInv, Walker

LEMMA StepKeeps == ASSUME WalkInv, Walk!Step PROVE WalkInv'
<1>1. /\ walk.state = "walking" /\ walk.at < Walk!Size /\ ~Walk!HeaderLost(walk)
      /\ sent' = sent /\ FrameInv /\ Walker(walk) /\ walk \in Walks /\ walk.at \in Nat
      /\ Walk!Size \in Nat
  BY RecordFields DEF WalkInv, Walk!Step, Walks
<1> DEFINE here == {r \in Walk!Records : r.start = walk.at}
<1>2. CASE here = {}
  <2>1. walk' = [walk EXCEPT !.state = "misread"]
    BY <1>2 DEF Walk!Step
  <2>2. /\ walk' \in Walks /\ walk'.state = "misread" /\ walk'.at = walk.at /\ walk'.from = walk.from
        /\ walk'.spans = walk.spans
    BY <1>1, <2>1 DEF Walks
  <2>3. Spans(walk')
    BY <1>1, <2>2 DEF Walker, Spans
  <2>4. sent.host = "straddles"
    <3>1. ~Boundary(walk.at)
      BY SMT, <1>1, <1>2 DEF Boundary
    <3> QED
      BY <1>1, <3>1 DEF Walker, Place
  <2> QED
    BY <1>1, <2>2, <2>3, <2>4, FrameStays DEF WalkInv
<1>3. CASE here # {}
  <2>1. PICK r : r = CHOOSE q \in here : TRUE
    OBVIOUS
  <2>2. r \in Walk!Records /\ r.start = walk.at /\ r.kind \in RecordKinds /\ r.end \in Nat
    BY <1>1, <1>3, <2>1, RecordFields
  <2>3. walk' = CASE r.kind = "padding" -> Walk!SkipTo(walk, r.end)
                  [] r.kind = "sequence" -> [walk EXCEPT !.at = r.end]
                  [] OTHER -> Walk!Block(walk, r)
    BY <1>3, <2>1, Zenon DEF Walk!Step
  <2> HIDE DEF here
  <2>4. CASE r.kind = "padding"
    <3>1. walk' = Walk!SkipTo(walk, r.end)
      BY <2>3, <2>4
    <3>2. Walker(walk')
      BY <1>1, <2>2, <2>4, <3>1, PaddingWalks
    <3>3. walk'.state = "walking"
      BY <1>1, <3>1, SkipState
    <3> QED
      BY <1>1, <3>2, <3>3, WalkGoesOn
  <2>5. CASE r.kind = "sequence"
    <3>1. walk' = [walk EXCEPT !.at = r.end]
      BY <2>3, <2>5
    <3>2. Walker(walk')
      BY <1>1, <2>2, <2>5, <3>1, SequenceWalks
    <3>3. walk'.state = "walking"
      BY <1>1, <3>1 DEF Walks
    <3> QED
      BY <1>1, <3>2, <3>3, WalkGoesOn
  <2>6. CASE r.kind \notin {"padding", "sequence"}
    <3>1. walk' = Walk!Block(walk, r)
      BY <2>3, <2>6
    <3>2. Walker(walk')
      BY <1>1, <2>2, <2>6, <3>1, BlockWalks
    <3>3. walk'.state = "walking"
      BY <1>1, <2>2, <3>1, BlockState
    <3> QED
      BY <1>1, <3>2, <3>3, WalkGoesOn
  <2> QED
    BY <2>4, <2>5, <2>6
<1> QED
  BY <1>2, <1>3

LEMMA LoseHeaderKeeps == ASSUME WalkInv, Walk!LoseHeader PROVE WalkInv'
<1>1. /\ walk.state = "walking" /\ walk.at < Walk!Size /\ Walk!HeaderLost(walk)
      /\ sent' = sent /\ FrameInv /\ Walker(walk) /\ walk \in Walks /\ sent.known \in BOOLEAN
  BY DEF WalkInv, Walk!LoseHeader, FrameInv, FrameTyped
<1>2. walk' = Walk!SkipTo(Walk!NoteLoss(walk),
                 IF Walk!Flagged \/ walk.aligned THEN Walk!NextReceivedStart(walk.at) ELSE Walk!Size)
  BY Zenon DEF Walk!LoseHeader
<1>3. Walker(walk')
  BY <1>1, <1>2, HeaderWalks
<1>4. Walk!NoteLoss(walk) \in Walks /\ Walk!NoteLoss(walk).state = walk.state
  BY <1>1, NoteLossFields
<1>5. walk'.state = "walking"
  BY <1>1, <1>2, <1>4, SkipState
<1> QED
  BY <1>1, <1>3, <1>5, WalkGoesOn

LEMMA FinishKeeps == ASSUME WalkInv, Walk!Finish PROVE WalkInv'
<1>1. /\ walk.state = "walking" /\ walk.at >= Walk!Size /\ sent' = sent
      /\ FrameInv /\ Walker(walk) /\ walk \in Walks /\ walk.at \in Nat
  BY DEF WalkInv, Walk!Finish, Walks
<1>2. PICK v : v = Walk!SkipTo(walk, walk.at)
  OBVIOUS
<1>3. v \in Walks /\ v.at = walk.at /\ v.from = walk.at
  BY <1>1, <1>2, SkipFields
<1>4. Walker(v)
  <2>1. walk.at >= walk.at
    BY <1>1
  <2>2. Boundary(walk.at) \/ (walk.past /\ sent.host = "straddles")
    BY <1>1 DEF Walker, Place
  <2> QED
    BY <1>1, <1>2, <2>1, <2>2, SkipWalks
<1>5. walk' = [v EXCEPT !.state = "parsed"]
  BY <1>2 DEF Walk!Finish
<1>6. /\ walk' \in Walks /\ walk'.state = "parsed" /\ walk'.at = v.at /\ walk'.from = v.from
      /\ walk'.aligned = v.aligned /\ walk'.past = v.past /\ walk'.partial = v.partial
      /\ walk'.intact = v.intact /\ walk'.spans = v.spans
  BY <1>3, <1>5 DEF Walks
<1>7. Walker(walk')
  <2>1. Spans(walk') /\ Place(walk')
    BY <1>4, <1>6 DEF Walker, Spans, Place
  <2>2. Behind(walk')
    BY <1>4, <1>6, Zenon DEF Walker, Behind, Kept
  <2> QED
    BY <1>6, <2>1, <2>2 DEF Walker
<1> QED
  BY <1>1, <1>3, <1>6, <1>7, FrameStays DEF WalkInv

LEMMA EmptyInv ==
    ASSUME sent.records = <<>>, FrameTyped
    PROVE  FrameInv
BY EmptyFrame, PacketSizes DEF FrameInv, Laid, Ranked, Shaped

LEMMA NotWalkedIs == Walk!NotWalked \in Walks /\ Walk!NotWalked.state = "sending"
                     /\ Walk!NotWalked.spans = {}
BY DEF Walk!NotWalked, Walk!Walking, Walks

LEMMA NextFrameKeeps == ASSUME WalkInv, Walk!NextFrame PROVE WalkInv'
<1>1. sent' = [sent EXCEPT !.records = <<>>, !.lost = {}] /\ walk' = Walk!NotWalked
  BY DEF Walk!NextFrame
<1>2. FrameTyped' /\ sent'.records = <<>>
  <2>1. <<>> \in Seq(Recs)
    BY EmptySeq
  <2> QED
    BY <1>1, <2>1 DEF WalkInv, FrameInv, FrameTyped
<1>3. Walk!Records' = {} /\ Walk!Size' = 0
  BY <1>2 DEF Walk!Records, Walk!Size
<1>4. FrameInv'
  BY <1>2, <1>3 DEF FrameInv, Laid, Ranked, Shaped
<1> QED
  BY <1>1, <1>4, NotWalkedIs DEF WalkInv

LEMMA SendWalk == ASSUME WalkInv, Walk!Send PROVE WalkInv'
<1>1. walk.state = "sending" /\ walk' = walk
  BY Zenon DEF Walk!Send
<1> QED
  BY <1>1, SendKeeps DEF WalkInv

LEMMA WalkStep == ASSUME WalkInv, Walk!Next \/ UNCHANGED <<sent, walk>> PROVE WalkInv'
<1>1. CASE UNCHANGED <<sent, walk>>
  BY <1>1, FrameStays DEF WalkInv
<1> QED
  BY <1>1, SendWalk, ReceiveKeeps, LoseHeaderKeeps, StepKeeps, FinishKeeps, NextFrameKeeps
     DEF Walk!Next

LEMMA WalkStart == ASSUME Walk!Init PROVE WalkInv
<1>1. sent.records = <<>> /\ FrameTyped /\ walk = Walk!NotWalked
  <2>1. <<>> \in Seq(Recs)
    BY EmptySeq
  <2> QED
    BY <2>1 DEF Walk!Init, FrameTyped
<1> QED
  BY <1>1, EmptyInv, NotWalkedIs DEF WalkInv

\* Only whole records that arrived reach the decoder, a frame is called whole and
\* its coarsest level intact only when they are, and no walk over a frame of a host
\* it is made for reads a header where none is, for packets and frames of any size
\* and whatever packets are lost (pyrowaveframing.cpp, walkRecordFrame).
THEOREM FramesParsed == PyroSpec => []ParsedOK
<1>1. PyroInit => WalkInv
  BY WalkStart DEF PyroInit
<1>2. WalkInv /\ [PyroNext]_all => WalkInv'
  <2> SUFFICES ASSUME WalkInv, [PyroNext]_all PROVE WalkInv'
    OBVIOUS
  <2>1. Walk!Next \/ UNCHANGED <<sent, walk>>
    BY Zenon DEF PyroNext, all, frames
  <2> QED
    BY <2>1, WalkStep
<1>3. WalkInv => ParsedOK
  BY WalkFits DEF ParsedOK
<1> QED
  BY <1>1, <1>2, <1>3, PTL DEF PyroSpec
=============================================================================
