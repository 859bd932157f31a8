------------------------------ MODULE PyroWave ------------------------------
(***************************************************************************)
(* The PyroWave backend of a stream (src/pyrowave/stream_backend.cpp, and  *)
(* present of video/pyrowave_video_backend.cpp): the streaming library     *)
(* sets it up, starts, stops and cleans it, its receiving thread submits   *)
(* frames to a queue of two, and one worker takes them from there, has the *)
(* GPU decode them and presents them, or presents the last picture again.  *)
(*                                                                         *)
(* Time is abstract: a deadline comes when it comes, the display shows a   *)
(* presented picture some time later, and each may be long after a stop.   *)
(* Pictures are known by the number of their frame.                        *)
(***************************************************************************)
EXTENDS Naturals, Sequences

CONSTANTS MaxFrame,    \* bound on the frames of a session
          MaxSession,  \* bound on the sessions
          Images       \* images of the swapchain

ASSUME PyroWaveAssumption == MaxFrame \in Nat /\ MaxSession \in Nat /\ Images \in Nat \ {0}

VARIABLES
    lib,      \* what the library does with the backend, and the sessions so far
    conf,     \* the pacing and colours selected
    hostHdr,  \* what the host says of its colours
    recv,     \* the frame the receiving thread is about to queue, 0 for none
    sess,     \* Session: running, started, its queue
    wk,       \* the worker
    gpu,      \* the swapchain and the planes
    owner,    \* who holds VideoOut
    tally,    \* the session's counters
    failed    \* the error callback was called in this session

pyroVars == <<lib, conf, hostHdr, recv, sess, wk, gpu, owner, tally, failed>>

Paces == {"unpaced", "unpaced released", "fixed", "fractional", "variable"}
Paced == conf.pace \notin {"unpaced", "unpaced released"}
Variable == conf.pace \in {"unpaced released", "variable"}   \* ps5_vrr_output_active
ScansOut == conf.pace \in {"fractional", "variable"}

Capacity == 2
NoSession == [is |-> FALSE, running |-> FALSE, started |-> FALSE, queue |-> <<>>]
NoWorker == [pc |-> "ended", frame |-> 0, again |-> FALSE, wait |-> "none",
             cancelled |-> FALSE, shows |-> FALSE]
EmptyChain == [acquired |-> FALSE, pending |-> <<>>, panel |-> 0, planes |-> 0]
NoTally == [last |-> 0, incoming |-> 0, stale |-> 0, rejected |-> 0, decoded |-> 0,
            unique |-> 0, cleared |-> 0]

Idle == [NoWorker EXCEPT !.pc = "idle", !.shows = wk.shows]
Awake(w) == IF w.pc = "asleep" THEN [w EXCEPT !.pc = "idle"] ELSE w

Numbers == 0..MaxFrame
Steps == {"idle", "asleep", "taken", "checked", "admit", "acquire", "prepared",
          "scanout", "deadline", "present", "after", "ended"}

TypeOK ==
    /\ lib \in [at : {"off", "prepared", "ready", "started", "stopping", "joining", "stopped"},
                sessions : 0..MaxSession]
    /\ conf \in [pace : Paces, hdr : BOOLEAN]
    /\ hostHdr \in {"unknown", "on", "off"}
    /\ recv \in Numbers
    /\ sess.queue \in Seq(1..MaxFrame) /\ Len(sess.queue) <= Capacity
    /\ wk \in [pc : Steps, frame : Numbers, again : BOOLEAN, cancelled : BOOLEAN,
               wait : {"none", "done", "abandoned"}, shows : BOOLEAN]
    /\ gpu.pending \in Seq(1..MaxFrame) /\ Len(gpu.pending) <= Images
    /\ owner \in {"nobody", "agc", "vulkan"}

-----------------------------------------------------------------------------
(* The library. *)

Prepare ==      \* prepare_callbacks, before LiStartConnection
    /\ lib.at = "off" /\ lib.sessions < MaxSession
    /\ lib' = [lib EXCEPT !.at = "prepared", !.sessions = @ + 1]
    /\ conf' \in [pace : Paces, hdr : BOOLEAN]
    /\ hostHdr' = "unknown" /\ failed' = FALSE
    /\ owner' = IF owner = "nobody" THEN "agc" ELSE owner   \* the connecting animation
    /\ UNCHANGED <<recv, sess, wk, gpu, tally>>

(* setup: whatever was there is cleaned, AGC gives VideoOut up, Vulkan     *)
(* takes it, unless a session before could not release it.                 *)
Setup ==
    /\ lib.at = "prepared"
    /\ lib' = [lib EXCEPT !.at = "ready"]
    /\ owner # "vulkan"
    /\ owner' = "vulkan"
    /\ sess' = [NoSession EXCEPT !.is = TRUE]
    /\ gpu' = EmptyChain /\ tally' = NoTally
    /\ UNCHANGED <<conf, hostHdr, recv, wk, failed>>

(* setup fails: AGC keeps VideoOut, or nobody has it, or it is stuck. *)
SetupFails ==
    /\ lib.at = "prepared"
    /\ lib' = [lib EXCEPT !.at = "off"]
    /\ owner' \in {owner, "nobody"}
    /\ sess' = NoSession
    /\ UNCHANGED <<conf, hostHdr, recv, wk, gpu, tally, failed>>

Start ==        \* start, and pthread_create failing
    /\ lib.at = "ready"
    /\ lib' = [lib EXCEPT !.at = "started"]
    /\ \/ /\ sess' = [sess EXCEPT !.running = TRUE, !.started = TRUE]
          /\ wk' = [NoWorker EXCEPT !.pc = "idle"]
          /\ UNCHANGED failed
       \/ /\ sess' = [sess EXCEPT !.running = TRUE]
          /\ failed' = TRUE
          /\ UNCHANGED wk
    /\ UNCHANGED <<conf, hostHdr, recv, gpu, owner, tally>>

(* stop: the flag and the queue under the lock, then the notification,     *)
(* then the worker's end.                                                  *)
StopFlags ==
    /\ lib.at = "started"
    /\ lib' = [lib EXCEPT !.at = "stopping"]
    /\ sess' = [sess EXCEPT !.running = FALSE, !.queue = <<>>]
    /\ tally' = [tally EXCEPT !.cleared = @ + Len(sess.queue)]
    /\ UNCHANGED <<conf, hostHdr, recv, wk, gpu, owner, failed>>

(* stop that notifies nobody. *)
StopSilently ==
    /\ lib.at = "stopping"
    /\ lib' = [lib EXCEPT !.at = "joining"]
    /\ UNCHANGED <<conf, hostHdr, recv, sess, wk, gpu, owner, tally, failed>>

StopNotifies ==
    /\ lib.at = "stopping"
    /\ lib' = [lib EXCEPT !.at = "joining"]
    /\ wk' = Awake(wk)
    /\ UNCHANGED <<conf, hostHdr, recv, sess, gpu, owner, tally, failed>>

StopJoins ==
    /\ lib.at = "joining"
    /\ sess.started => wk.pc = "ended"
    /\ lib' = [lib EXCEPT !.at = "stopped"]
    /\ sess' = [sess EXCEPT !.started = FALSE]
    /\ UNCHANGED <<conf, hostHdr, recv, wk, gpu, owner, tally, failed>>

(* cleanup, once the library has joined its receiving thread; also of a    *)
(* session that was set up and never started.                              *)
Cleanup ==
    /\ lib.at \in {"ready", "stopped"} /\ recv = 0
    /\ lib' = [lib EXCEPT !.at = "off"]
    /\ sess' = NoSession
    /\ gpu' = EmptyChain
    /\ owner' \in {"nobody", "vulkan"}          \* wsi_ps5_release_videoout may fail
    /\ tally' = NoTally
    /\ UNCHANGED <<conf, hostHdr, recv, wk, failed>>

SetHdr ==       \* set_hdr_mode, on the library's control thread
    /\ lib.at \notin {"off", "prepared"} /\ conf.hdr
    /\ hostHdr' \in {"on", "off"} \ {hostHdr}
    /\ UNCHANGED <<lib, conf, recv, sess, wk, gpu, owner, tally, failed>>

-----------------------------------------------------------------------------
(* The receiving thread, which outlives stop. *)

(* submit builds the frame, or refuses its colours; frames may be lost. *)
SubmitBegins ==
    /\ lib.at \in {"started", "stopping", "joining", "stopped"}
    /\ recv = 0
    /\ \/ /\ conf.hdr                           \* or the frame's colour space is wrong
          /\ ~failed /\ failed' = TRUE
          /\ UNCHANGED <<recv, tally>>
       \/ /\ ~(conf.hdr /\ hostHdr = "off")
          /\ \E n \in (tally.last + 1)..MaxFrame :
                 recv' = n /\ tally' = [tally EXCEPT !.last = n]
          /\ UNCHANGED failed
    /\ UNCHANGED <<lib, conf, hostHdr, sess, wk, gpu, owner>>

(* submit queues it, unless stopped by then; the oldest makes room. *)
SubmitQueues ==
    /\ recv # 0
    /\ recv' = 0
    /\ IF ~sess.running THEN UNCHANGED <<sess, tally, wk>>
       ELSE LET full == Len(sess.queue) = Capacity
                kept == IF full THEN Tail(sess.queue) ELSE sess.queue
            IN  /\ sess' = [sess EXCEPT !.queue = Append(kept, recv)]
                /\ tally' = [tally EXCEPT !.incoming = @ + 1,
                                          !.stale = @ + IF full THEN 1 ELSE 0]
                /\ wk' = Awake(wk)
    /\ UNCHANGED <<lib, conf, hostHdr, gpu, owner, failed>>

-----------------------------------------------------------------------------
(* The worker: its wait for a frame. *)

lents == <<lib, conf, hostHdr, recv, owner>>

WorkerEnds ==
    /\ wk.pc = "idle" /\ ~sess.running
    /\ wk' = [wk EXCEPT !.pc = "ended"]
    /\ UNCHANGED <<lents, sess, gpu, tally, failed>>

(* A display that holds its picture by itself: until notified. *)
Sleeps ==
    /\ wk.pc = "idle" /\ sess.running /\ sess.queue = <<>>
    /\ ~(wk.shows /\ Variable)
    /\ wk' = [wk EXCEPT !.pc = "asleep"]
    /\ UNCHANGED <<lents, sess, gpu, tally, failed>>

(* The last picture was scanned out and its time is over. *)
RepeatDue ==
    /\ wk.pc = "idle" /\ sess.running /\ sess.queue = <<>>
    /\ wk.shows /\ Variable /\ gpu.pending = <<>>
    /\ wk' = [wk EXCEPT !.pc = "admit", !.again = TRUE]
    /\ UNCHANGED <<lents, sess, gpu, tally, failed>>

AdmitRepeat ==      \* admit_idle_repeat
    /\ wk.pc = "admit"
    /\ wk' = IF sess.running /\ sess.queue = <<>> THEN [wk EXCEPT !.pc = "acquire"] ELSE Idle
    /\ UNCHANGED <<lents, sess, gpu, tally, failed>>

(* Paced: the oldest, but those too old that have a successor. Otherwise   *)
(* the newest.                                                             *)
Take ==
    /\ wk.pc = "idle" /\ sess.running /\ sess.queue # <<>>
    /\ \E i \in IF Paced THEN 1..Len(sess.queue) ELSE {Len(sess.queue)} :
          /\ wk' = [wk EXCEPT !.pc = "taken", !.frame = sess.queue[i]]
          /\ sess' = [sess EXCEPT !.queue = SubSeq(@, i + 1, Len(@))]
          /\ tally' = [tally EXCEPT !.stale = @ + i - 1]
    /\ UNCHANGED <<lents, gpu, failed>>

Superseded ==
    /\ wk.pc = "taken"
    /\ IF ~Paced /\ sess.queue # <<>>
       THEN wk' = Idle /\ tally' = [tally EXCEPT !.stale = @ + 1]
       ELSE wk' = [wk EXCEPT !.pc = "checked"] /\ UNCHANGED tally
    /\ UNCHANGED <<lents, sess, gpu, failed>>

(* PyroWaveFraming::parse and ingest: a frame they refuse is skipped. *)
Ingest ==
    /\ wk.pc = "checked"
    /\ \/ wk' = Idle /\ tally' = [tally EXCEPT !.rejected = @ + 1]
       \/ /\ wk' = [wk EXCEPT !.pc = "acquire"]
          /\ tally' = [tally EXCEPT !.decoded = @ + 1]
    /\ UNCHANGED <<lents, sess, gpu, failed>>

-----------------------------------------------------------------------------
(* The worker in PyroWaveVideoBackend::present. *)

(* One image is on the panel; a repeat does not wait long for another. *)
Acquire ==
    /\ wk.pc = "acquire"
    /\ \/ /\ Len(gpu.pending) < Images - 1
          /\ gpu' = [gpu EXCEPT !.acquired = TRUE,
                                !.planes = IF wk.again THEN @ ELSE wk.frame]
          /\ wk' = [wk EXCEPT !.pc = "prepared"]
       \/ wk.again /\ wk' = Idle /\ UNCHANGED gpu
    /\ UNCHANGED <<lents, sess, tally, failed>>

WaitPrepared ==     \* wait_prepared_frame begins
    /\ wk.pc = "prepared"
    /\ wk' = IF ~Paced THEN [wk EXCEPT !.pc = "present", !.wait = "done"]
             ELSE [wk EXCEPT !.pc = IF ScansOut THEN "scanout" ELSE "deadline"]
    /\ UNCHANGED <<lents, sess, gpu, tally, failed>>

(* The picture before must have left; a stop is noticed there too. *)
WaitScanout ==
    /\ wk.pc = "scanout"
    /\ \/ gpu.pending = <<>> /\ wk' = [wk EXCEPT !.pc = "deadline"]
       \/ /\ gpu.pending # <<>> /\ ~sess.running
          /\ wk' = [wk EXCEPT !.pc = "present", !.wait = "abandoned"]
    /\ UNCHANGED <<lents, sess, gpu, tally, failed>>

(* WaitDeadline that keeps an acquired image when it is cancelled. *)
WaitDeadlineLeaves ==
    /\ wk.pc = "deadline"
    /\ wk' = IF sess.running THEN [wk EXCEPT !.pc = "present", !.wait = "done"]
             ELSE [wk EXCEPT !.pc = "ended"]
    /\ UNCHANGED <<lents, sess, gpu, tally, failed>>

WaitDeadline ==
    /\ wk.pc = "deadline"
    /\ wk' = IF sess.running THEN [wk EXCEPT !.pc = "present", !.wait = "done"]
             ELSE [wk EXCEPT !.pc = "present", !.wait = "abandoned", !.cancelled = TRUE]
    /\ UNCHANGED <<lents, sess, gpu, tally, failed>>

Present ==          \* vkQueuePresentKHR
    /\ wk.pc = "present"
    /\ gpu' = [gpu EXCEPT !.acquired = FALSE, !.pending = Append(@, gpu.planes)]
    /\ wk' = [wk EXCEPT !.pc = "after"]
    /\ UNCHANGED <<lents, sess, tally, failed>>

(* A cancelled wait ends the worker, a repeat is not counted; after a      *)
(* fresh picture VideoOut is asked whether it still presents, and in HDR.  *)
AfterPresent ==
    /\ wk.pc = "after"
    /\ IF wk.cancelled
       THEN wk' = [wk EXCEPT !.pc = "ended"] /\ UNCHANGED <<tally, failed>>
       ELSE IF wk.again THEN wk' = Idle /\ UNCHANGED <<tally, failed>>
       ELSE /\ tally' = [tally EXCEPT !.unique = @ + 1]
            /\ \/ wk' = [Idle EXCEPT !.shows = TRUE] /\ UNCHANGED failed
               \/ wk' = [wk EXCEPT !.pc = "ended"] /\ failed' = TRUE
    /\ UNCHANGED <<lents, sess, gpu>>

(* The GPU, VideoOut's counters or the scanout fail: the worker ends, and  *)
(* an image it had acquired stays acquired.                                *)
Throws ==
    /\ wk.pc \in {"acquire", "prepared", "scanout", "present", "after"}
    /\ wk' = [wk EXCEPT !.pc = "ended"]
    /\ failed' = TRUE
    /\ UNCHANGED <<lents, sess, gpu, tally>>

DisplayShows ==
    /\ gpu.pending # <<>>
    /\ gpu' = [gpu EXCEPT !.panel = Head(gpu.pending), !.pending = Tail(@)]
    /\ UNCHANGED <<lents, sess, wk, tally, failed>>

-----------------------------------------------------------------------------
Init ==
    /\ lib = [at |-> "off", sessions |-> 0]
    /\ conf = [pace |-> "unpaced", hdr |-> FALSE] /\ hostHdr = "unknown"
    /\ recv = 0 /\ sess = NoSession /\ wk = NoWorker /\ gpu = EmptyChain
    /\ owner = "nobody" /\ tally = NoTally /\ failed = FALSE

Worker ==
    \/ WorkerEnds \/ Sleeps \/ RepeatDue \/ AdmitRepeat \/ Take \/ Superseded \/ Ingest
    \/ Acquire \/ WaitPrepared \/ WaitScanout \/ WaitDeadline \/ Present \/ AfterPresent
    \/ Throws

Stop == StopNotifies \/ StopJoins

Next ==
    \/ Prepare \/ Setup \/ SetupFails \/ Start \/ StopFlags \/ Stop \/ Cleanup \/ SetHdr
    \/ SubmitBegins \/ SubmitQueues \/ Worker \/ DisplayShows

(* The threads run, the display goes on showing what it was given, a stop  *)
(* that has begun goes on. Nothing forces the library to begin one.        *)
Fairness ==
    /\ WF_pyroVars(Worker) /\ WF_pyroVars(DisplayShows)
    /\ WF_pyroVars(Stop) /\ WF_pyroVars(SubmitQueues)

Spec == Init /\ [][Next]_pyroVars /\ Fairness

-----------------------------------------------------------------------------
(* Properties *)

InHand == IF wk.pc \in {"taken", "checked"} THEN 1 ELSE 0

(* The counters the display of statistics divides by each other tell every *)
(* frame once: submit, Take and Ingest, and stop's clearing.               *)
Accounted ==
    sess.is => tally.incoming = tally.stale + tally.rejected + tally.decoded
                                + tally.cleared + Len(sess.queue) + InHand

(* A picture never gives way to an older one, through the queue's dropping *)
(* ends, repeats of the retained planes, and stops.                        *)
Ordered(s) == \A i \in 1..Len(s) - 1 : s[i] <= s[i + 1]
NeverBack ==
    /\ Ordered(<<gpu.panel>> \o gpu.pending \o <<gpu.planes>> \o sess.queue)
    /\ wk.frame # 0 /\ ~gpu.acquired /\ wk.pc \in {"taken", "checked", "acquire"} =>
           wk.frame > gpu.planes
    /\ recv # 0 => \A i \in 1..Len(sess.queue) : sess.queue[i] < recv

(* An acquired image is presented, whatever a stop interrupts; only an     *)
(* error leaves one behind.                                                *)
ImageReturned == gpu.acquired => wk.pc \in {"prepared", "scanout", "deadline", "present"} \/ failed

(* The worker runs only while its session lives and Vulkan has VideoOut;   *)
(* AGC and Vulkan never both present.                                      *)
WorkerOwns == wk.pc # "ended" => sess.is /\ sess.started /\ owner = "vulkan"

PyroWaveOK == TypeOK /\ Accounted /\ NeverBack /\ ImageReturned /\ WorkerOwns

(* A stop that has begun ends, wherever the worker waits; and the queue    *)
(* moves on until then, or until an error ended the worker.                *)
PyroWaveMoves ==
    /\ lib.at = "stopping" ~> lib.at = "stopped"
    /\ sess.queue # <<>> ~> sess.queue = <<>> \/ failed

(* stream_backend.cpp:333, of a wait that a stop ended: do not report that *)
(* abandoned deadline as a successful unique frame.                        *)
AbandonedNotCounted == [][tally'.unique > tally.unique => wk.wait # "abandoned"]_pyroVars

=============================================================================
