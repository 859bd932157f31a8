------------------------------- MODULE Launcher --------------------------------
(***************************************************************************)
(* The launcher's model (launcher_model.cpp) with its two background       *)
(* threads: the worker, which asks the PCs, and the pairing thread of      *)
(* moonlight_backend.cpp.  The main thread takes the player's orders, and  *)
(* once a frame runs Poll, whose parts are separate steps here because the *)
(* threads run between them.  `pc` says where the main thread is.          *)
(*                                                                         *)
(* What a PC says is chosen when its answer is applied; nothing reads it   *)
(* earlier.  Names, notices, pictures, settings and the status list are    *)
(* left out, and so are the catalog's jobs, which queue as box art does.   *)
(***************************************************************************)
EXTENDS HostList

CONSTANTS
  Identity,          \* the Sunshine instance behind each endpoint
  SavedLists,        \* the lists the configuration file may hold at the start
  FailureThreshold,  \* offline_failure_threshold
  Reports,           \* bound: what PCs say of themselves when they are asked
  SaveMayFail,       \* bound: whether the console may refuse the file
  MaxFound,          \* bound: PCs one discovery reports
  MaxRequests        \* bound: jobs in `requests` when the player adds one

ASSUME LauncherAssumption ==
  /\ Addresses # {}
  /\ Identity \in [Endpoints -> Ids]
  /\ FailureThreshold \in Nat \ {0}
  /\ Reports \subseteq [ok : BOOLEAN, online : BOOLEAN, paired : BOOLEAN, apps : BOOLEAN,
                        running : BOOLEAN]
  /\ SaveMayFail \in BOOLEAN
  /\ MaxFound \in Nat
  /\ MaxRequests \in Nat

VARIABLES
  \* The saved PCs.
  config,         \* config_
  saved,          \* what the file holds
  savePending,    \* save_pending_
  saveRefused,    \* the last save failed, and the player was told
  \* The selected PC.
  backend,        \* backend_
  valid,          \* backend_valid_
  failures,       \* health_.consecutive_failures
  due,            \* now_ms_ >= health_due_ms_
  art,            \* artwork_wanted_ is not empty
  \* Work for the network.
  requests,       \* requests_: what the player waits for
  sweeps,         \* sweeps_: endpoints of the other PCs, to ask once
  worker,         \* the worker thread
  job,            \* job_
  \* Pairing.
  pairRequested, pairActive,
  pairing,        \* pairing_job, written by the pairing thread
  \* The main thread.
  launching,      \* a start was accepted; its screen is fading
  pc

configVars == <<config, saved, savePending, saveRefused>>
selectedVars == <<backend, valid, failures, due, art>>
queueVars == <<requests, sweeps>>
workerVars == <<worker, job>>
pairingVars == <<pairRequested, pairActive, pairing>>
vars == <<config, saved, savePending, saveRefused, backend, valid, failures, due, art, requests,
          sweeps, worker, job, pairRequested, pairActive, pairing, launching, pc>>

-----------------------------------------------------------------------------
(* What the network answers. *)

Kinds == {"none", "discover", "refresh", "health", "sweep", "unpair", "stop", "artwork"}
Job(kind, ep) == [kind |-> kind, ep |-> ep]
Nowhere == CHOOSE ep \in Endpoints : TRUE   \* the endpoint of a job that has none
NoJob == Job("none", Nowhere)

Snapshots == [ok : BOOLEAN, online : BOOLEAN, paired : BOOLEAN, apps : BOOLEAN, running : BOOLEAN]
Silence == [ok |-> FALSE, online |-> FALSE, paired |-> FALSE, apps |-> FALSE, running |-> FALSE]

\* moonlight_backend_refresh: no answer; an answer whose list of apps did not
\* come; an unpaired PC, which lists no apps; a paired one.
RefreshAnswers ==
  {s \in Reports :
     /\ ~s.online => s = Silence
     /\ s.online /\ ~s.paired => s.ok
     /\ s.apps => s.paired /\ s.ok}

\* run_paired_action: a refused action still reports the refresh that follows.
ActionAnswers == RefreshAnswers \cup {[s EXCEPT !.ok = FALSE] : s \in RefreshAnswers}

Answers(kind) == IF kind \in {"unpair", "stop"} THEN ActionAnswers ELSE RefreshAnswers

Found == UNION {[1..n -> Endpoints] : n \in 0..MaxFound}

-----------------------------------------------------------------------------
(* Saving. *)

\* Save, with `list` in memory afterwards.
Save(list) ==
  /\ savePending' = FALSE
  /\ \/ saved' = list /\ saveRefused' = FALSE
     \/ SaveMayFail /\ saved' = saved /\ saveRefused' = TRUE

\* Mutant: what an answer changed is not saved.
SaveIfChanged_Not(list) == UNCHANGED <<saved, savePending, saveRefused>>

SaveIfChanged(list) ==
  IF list = config THEN UNCHANGED <<saved, savePending, saveRefused>> ELSE Save(list)

-----------------------------------------------------------------------------
(* The selected PC and the queues. *)

NoBackend(list) ==
  [of |-> IF HasSelected(list) THEN SelectedHost(list).ep ELSE Nowhere,
   online |-> FALSE, paired |-> FALSE, apps |-> FALSE, running |-> FALSE]

BackendOf(s, ep) ==
  [of |-> ep, online |-> s.online, paired |-> s.paired, apps |-> s.apps, running |-> s.running]

\* ResetSelected, once `list` is the list.
ResetSelected(list) ==
  /\ backend' = NoBackend(list)
  /\ valid' = FALSE
  /\ failures' = 0
  /\ due' = TRUE
  /\ art' = FALSE

Queued(queue, kind) == \E i \in 1..Len(queue) : queue[i].kind = kind

WithRefresh(queue, list) ==
  IF ~HasSelected(list) \/ Queued(queue, "refresh") THEN queue
  ELSE Append(queue, Job("refresh", SelectedHost(list).ep))

\* DropSelectedRequests.
OnlyDiscover(queue) == Picked(queue, {i \in 1..Len(queue) : queue[i].kind = "discover"})

\* QueueSweep: every PC but the selected one, in the order of the list.
SweepOf(list) ==
  LET others == Picked(list.hosts, Places(list) \ {list.selected})
  IN  [k \in 1..Len(others) |-> others[k].ep]

\* Another PC is the selected one, by the player's order.
Reselect(list) ==
  /\ config' = list
  /\ requests' = WithRefresh(OnlyDiscover(requests), list)
  /\ ResetSelected(list)
  /\ UNCHANGED <<sweeps, workerVars, pairingVars, launching, pc>>

-----------------------------------------------------------------------------
(* What the player orders.  The view passes nothing on while pairing or    *)
(* while a stream is being started.                                        *)

Pairing == pairRequested \/ pairActive
Listening == pc = "idle" /\ ~launching /\ ~Pairing

SelectHost ==
  /\ Listening
  /\ \E i \in Places(config) \ {config.selected} : Reselect([config EXCEPT !.selected = i])
  /\ savePending' = TRUE
  /\ UNCHANGED <<saved, saveRefused>>

RemoveHost ==
  /\ Listening
  /\ HasSelected(config)
  /\ LET left == RemoveHostAt(config, config.selected)
     IN  \/ /\ saved' = left /\ savePending' = FALSE /\ saveRefused' = FALSE
            /\ Reselect(left)
         \/ /\ SaveMayFail
            /\ saveRefused' = TRUE
            /\ UNCHANGED <<config, saved, savePending, selectedVars, queueVars, workerVars,
                           pairingVars, launching, pc>>

AddHost ==
  /\ Listening
  /\ \E addr \in Addresses, port \in Ports \cup {0} :
       LET entered == UpsertHost(config, addr, port, NoId)
           list == [entered.list EXCEPT !.selected = entered.place]
       IN  /\ entered.place # 0
           /\ Save(list)
           /\ Reselect(list)

SetPort ==
  /\ Listening
  /\ HasSelected(config)
  /\ \E port \in Ports :
       LET moved == SetHostPort(config, config.selected, port)
           list == [moved.list EXCEPT !.selected = moved.place]
       IN  /\ Save(list)
           /\ Reselect(list)

Ask(queue) ==
  /\ Len(requests) <= MaxRequests
  /\ requests' = queue
  /\ UNCHANGED <<configVars, selectedVars, sweeps, workerVars, pairingVars, launching, pc>>

Refresh == Listening /\ Ask(WithRefresh(requests, config))

Discover ==
  /\ Listening
  /\ ~Queued(requests, "discover")
  /\ Ask(Append(requests, Job("discover", Nowhere)))

Unpair ==
  /\ Listening
  /\ HasSelected(config)
  /\ backend.online /\ ~backend.running
  /\ Ask(Append(requests, Job("unpair", SelectedHost(config).ep)))

StopApp ==
  /\ Listening
  /\ HasSelected(config)
  /\ backend.running /\ backend.paired
  /\ ~Queued(requests, "stop")
  /\ ~(worker \in {"running", "done"} /\ job.kind = "stop")
  /\ Ask(Append(requests, Job("stop", SelectedHost(config).ep)))

StartPairing ==
  /\ Listening
  /\ HasSelected(config)
  /\ backend.online /\ ~backend.paired /\ ~backend.running
  /\ pairRequested' = TRUE
  /\ UNCHANGED <<configVars, selectedVars, queueVars, workerVars, pairActive, pairing, launching,
                 pc>>

RequestArtwork ==
  /\ Listening
  /\ backend.online /\ backend.paired /\ backend.apps
  /\ ~art
  /\ art' = TRUE
  /\ UNCHANGED <<configVars, backend, valid, failures, due, queueVars, workerVars, pairingVars,
                 launching, pc>>

RequestStream ==
  /\ Listening
  /\ backend.apps /\ backend.online
  /\ launching' = TRUE
  /\ UNCHANGED <<configVars, selectedVars, queueVars, workerVars, pairingVars, pc>>

\* The next health check is due: between two polls only, for a poll has one
\* time.
TimePasses ==
  /\ pc = "idle"
  /\ ~due
  /\ due' = TRUE
  /\ UNCHANGED <<configVars, backend, valid, failures, art, queueVars, workerVars, pairingVars,
                 launching, pc>>

-----------------------------------------------------------------------------
(* What the answers change. *)

\* Model::Upsert: what the PC at ep said of itself; the selection follows its
\* PC.
Learned(ep) ==
  LET entered == UpsertHost(config, ep.addr, ep.port, Identity[ep])
      list == entered.list
      before == {i \in Places(list) :
                   HasSelected(config) /\ list.hosts[i].ep = SelectedHost(config).ep}
  IN  IF entered.place = 0 THEN config
      ELSE IF IsSelected(config, ep) THEN [list EXCEPT !.selected = entered.place]
      ELSE IF before # {}
      THEN [list EXCEPT !.selected = CHOOSE i \in before : \A j \in before : j <= i]
      ELSE list

\* Mutant: the count goes past the threshold.
Recorded_Uncapped(success) == IF success THEN 0 ELSE failures + 1

\* MoonlightHealthState::Record
Recorded(success) ==
  IF success THEN 0
  ELSE IF failures < FailureThreshold THEN failures + 1 ELSE failures

Reconnecting == failures > 0 /\ failures < FailureThreshold

ApplySelected(kind, s, ep) ==
  LET success == s.ok /\ s.online
      told == success \/ (kind # "health" /\ s.apps)
  IN  /\ failures' = Recorded(success)
      /\ due' = FALSE
      /\ valid' = TRUE
      /\ backend' = IF told THEN BackendOf(s, ep) ELSE [backend EXCEPT !.online = FALSE]
      /\ config' = IF told THEN Learned(ep) ELSE config
      /\ SaveIfChanged(config')
      /\ UNCHANGED <<art, queueVars>>

\* The config after every PC of `found` is entered.
AfterDiscovery(found) ==
  LET entered[n \in 0..Len(found)] ==
        IF n = 0 THEN config
        ELSE UpsertHost(entered[n - 1], found[n].addr, found[n].port, NoId).list
  IN  entered[Len(found)]

ApplyDiscovery ==
  \E found \in Found :
    /\ config' = AfterDiscovery(found)
    /\ SaveIfChanged(config')
    /\ IF ~HasSelected(config) /\ HasSelected(config')
       THEN ResetSelected(config')
       ELSE UNCHANGED selectedVars
    /\ requests' = WithRefresh(requests, config')
    /\ sweeps' = SweepOf(config')

ApplySweep(s, ep) ==
  /\ config' = IF s.ok /\ s.online THEN Learned(ep) ELSE config
  /\ SaveIfChanged(config')
  /\ UNCHANGED <<selectedVars, queueVars>>

\* Mutant: an answer counts for whatever PC is selected by now.
Apply_AnyPC ==
  CASE job.kind = "discover" -> ApplyDiscovery
    [] job.kind = "sweep" -> \E s \in RefreshAnswers : ApplySweep(s, job.ep)
    [] job.kind \in {"refresh", "health", "unpair", "stop"} ->
         \E s \in Answers(job.kind) : ApplySelected(job.kind, s, job.ep)
    [] OTHER -> UNCHANGED <<configVars, selectedVars, queueVars>>

\* Model::Apply.  An answer of a PC that is no longer the selected one goes to
\* the status list alone, and so does box art to nothing here.
Apply ==
  CASE job.kind = "discover" -> ApplyDiscovery
    [] job.kind = "sweep" -> \E s \in RefreshAnswers : ApplySweep(s, job.ep)
    [] job.kind \in {"refresh", "health", "unpair", "stop"} /\ IsSelected(config, job.ep) ->
         \E s \in Answers(job.kind) : ApplySelected(job.kind, s, job.ep)
    [] OTHER -> UNCHANGED <<configVars, selectedVars, queueVars>>

-----------------------------------------------------------------------------
(* Poll, part by part. *)

\* job_ is read only while the worker is active, so it is NoJob otherwise.
TakeAnswer ==
  /\ pc = "idle"
  /\ IF worker = "done"
     THEN worker' = "none" /\ job' = NoJob /\ Apply
     ELSE UNCHANGED <<workerVars, configVars, selectedVars, queueVars>>
  /\ pc' = "pair"
  /\ UNCHANGED <<pairingVars, launching>>

NoPairing == [state |-> "idle", ep |-> Nowhere, result |-> "none", said |-> Silence]
PairThread == pairing.state \in {"preparing", "waiting"}

\* Mutant: pairing lets everything already queued go first.
MayPair_Last == pairRequested /\ worker = "none" /\ requests = <<>>

MayPair == pairRequested /\ worker = "none"

\* moonlight_backend_pair_start refuses while its thread runs, and fails when
\* no thread can be made.  The thread just started is polled a frame later here.
PairStart ==
  /\ pc = "pair"
  /\ MayPair
  /\ pairRequested' = FALSE
  /\ \/ /\ HasSelected(config) /\ ~PairThread
        /\ pairing' = [NoPairing EXCEPT !.state = "preparing", !.ep = SelectedHost(config).ep]
        /\ pairActive' = TRUE
     \/ UNCHANGED <<pairing, pairActive>>
  /\ pc' = "start"
  /\ UNCHANGED <<configVars, selectedVars, queueVars, workerVars, launching>>

\* Mutant: how the attempt went is not counted as an answer or a failure.
PairingOver_Uncounted ==
  /\ pc = "pair"
  /\ pairActive /\ ~PairThread
  /\ pairActive' = FALSE
  /\ pairing' = NoPairing
  /\ IF IsSelected(config, pairing.ep)
     THEN backend' = BackendOf(pairing.said, pairing.ep) /\ valid' = TRUE
     ELSE UNCHANGED <<backend, valid>>
  /\ pc' = "start"
  /\ UNCHANGED <<configVars, failures, due, art, queueVars, workerVars, pairRequested, launching>>

\* Mutant: the outcome is polled for ever.
PairingOver_Kept ==
  /\ pc = "pair"
  /\ pairActive /\ ~PairThread
  /\ pc' = "start"
  /\ UNCHANGED <<configVars, selectedVars, queueVars, workerVars, pairingVars, launching>>

\* The snapshot is copied out and never read again: NoPairing stands for it.
PairingOver ==
  /\ pc = "pair"
  /\ pairActive /\ ~PairThread
  /\ pairActive' = FALSE
  /\ pairing' = NoPairing
  /\ IF IsSelected(config, pairing.ep)
     THEN /\ backend' = BackendOf(pairing.said, pairing.ep)
          /\ valid' = TRUE
          /\ failures' = Recorded(pairing.said.online)
          /\ due' = FALSE
     ELSE UNCHANGED <<backend, valid, failures, due>>
  /\ pc' = "start"
  /\ UNCHANGED <<configVars, art, queueVars, workerVars, pairRequested, launching>>

NoPairingStep ==
  /\ pc = "pair"
  /\ ~MayPair
  /\ ~(pairActive /\ ~PairThread)
  /\ pc' = "start"
  /\ UNCHANGED <<configVars, selectedVars, queueVars, workerVars, pairingVars, launching>>

\* What StartNext would run, in its order of preference.
NextJob ==
  IF requests # <<>> THEN Head(requests)
  ELSE IF HasSelected(config) /\ due /\ valid THEN Job("health", SelectedHost(config).ep)
  ELSE IF sweeps # <<>> THEN Job("sweep", Head(sweeps))
  ELSE Job("artwork", SelectedHost(config).ep)

HasWork ==
  \/ requests # <<>>
  \/ HasSelected(config) /\ due /\ valid
  \/ sweeps # <<>>
  \/ art /\ HasSelected(config) /\ backend.online /\ backend.paired

\* Mutant: the worker does not wait for pairing.
MayStart_WhilePairing == worker = "none"

MayStart == worker = "none" /\ ~Pairing

\* Without a thread the job runs on the main thread.
StartNext ==
  /\ pc = "start"
  /\ IF MayStart /\ HasWork
     THEN /\ job' = NextJob
          /\ requests' = IF requests # <<>> THEN Tail(requests) ELSE requests
          /\ sweeps' = IF NextJob.kind = "sweep" THEN Tail(sweeps) ELSE sweeps
          /\ art' = (art /\ NextJob.kind # "artwork")
          /\ \/ worker' = "running" /\ pc' = "idle"
             \/ worker' = "inline" /\ pc' = "inline"
     ELSE /\ pc' = "idle"
          /\ UNCHANGED <<job, requests, sweeps, art, worker>>
  /\ UNCHANGED <<configVars, backend, valid, failures, due, pairingVars, launching>>

RunInline ==
  /\ pc = "inline"
  /\ Apply
  /\ worker' = "none"
  /\ job' = NoJob
  /\ pc' = "idle"
  /\ UNCHANGED <<pairingVars, launching>>

\* At the end of a poll kSaveDelayMs or more after the change.
PollSave ==
  /\ pc = "idle"
  /\ savePending
  /\ Save(config)
  /\ UNCHANGED <<config, selectedVars, queueVars, workerVars, pairingVars, launching, pc>>

-----------------------------------------------------------------------------
(* The threads. *)

WorkerEnds ==
  /\ worker = "running"
  /\ worker' = "done"
  /\ UNCHANGED <<configVars, selectedVars, queueVars, job, pairingVars, launching, pc>>

PairEnds(state, result, said) ==
  /\ pairing' = [pairing EXCEPT !.state = state, !.result = result, !.said = said]
  /\ UNCHANGED <<configVars, selectedVars, queueVars, workerVars, pairRequested, pairActive,
                 launching, pc>>

\* The PC answered and is not paired: a PIN is shown.
PairWaits ==
  /\ pairing.state = "preparing"
  /\ PairEnds("waiting", "none", Silence)

\* No answer to serverinfo, or none to the handshake in time.
PairLost ==
  /\ PairThread
  /\ PairEnds("failed", "io", Silence)

\* Sunshine answered the handshake with a refusal: a wrong PIN, for one.
PairRefused ==
  /\ pairing.state = "waiting"
  /\ PairEnds("failed", "refused", Silence)

\* The PC is paired, by the PIN or already, and is asked what it offers.
PairAnswered ==
  /\ PairThread
  /\ \E s \in RefreshAnswers :
       PairEnds(IF s.ok /\ s.paired THEN "succeeded" ELSE "failed",
                IF s.ok THEN "ok" ELSE "io", s)

PairStep == PairWaits \/ PairLost \/ PairRefused \/ PairAnswered

-----------------------------------------------------------------------------
(* The launcher's life: it opens on what the file holds and closes for a   *)
(* stream or for the home screen.                                          *)

Initialize ==
  /\ pc = "closed"
  /\ config' = saved
  /\ savePending' = FALSE
  /\ saveRefused' = FALSE
  /\ ResetSelected(saved)
  /\ IF HasSelected(saved)
     THEN requests' = WithRefresh(<<>>, saved) /\ sweeps' = SweepOf(saved)
     ELSE requests' = <<Job("discover", Nowhere)>> /\ sweeps' = <<>>
  /\ launching' = FALSE
  /\ pc' = "idle"
  /\ UNCHANGED <<saved, workerVars, pairingVars>>

Close ==
  /\ pc = "idle"
  /\ ~Pairing
  /\ pc' = "closing"
  /\ UNCHANGED <<configVars, selectedVars, queueVars, workerVars, pairingVars, launching>>

\* The fade is over and FillSelection finds the app; it is asked every frame,
\* and the launching screen stays until it does.
StartStream == launching /\ HasSelected(config) /\ backend.apps /\ Close

\* The player held the button that leaves.
ExitHeld == ~launching /\ Close

\* Mutants: the worker is not joined; a change still waiting is not saved.
Shutdown_NoJoin ==
  /\ pc = "closing"
  /\ requests' = <<>>
  /\ sweeps' = <<>>
  /\ art' = FALSE
  /\ IF savePending THEN Save(config) ELSE UNCHANGED <<saved, savePending, saveRefused>>
  /\ pc' = "closed"
  /\ UNCHANGED <<config, backend, valid, failures, due, workerVars, pairingVars, launching>>
Shutdown_NoSave ==
  /\ pc = "closing"
  /\ worker # "running"
  /\ worker' = "none"
  /\ job' = NoJob
  /\ requests' = <<>>
  /\ sweeps' = <<>>
  /\ art' = FALSE
  /\ pc' = "closed"
  /\ UNCHANGED <<configVars, backend, valid, failures, due, pairingVars, launching>>

\* Shutdown: joins the worker and drops its answer.
Shutdown ==
  /\ pc = "closing"
  /\ worker # "running"
  /\ worker' = "none"
  /\ job' = NoJob
  /\ requests' = <<>>
  /\ sweeps' = <<>>
  /\ art' = FALSE
  /\ IF savePending THEN Save(config) ELSE UNCHANGED <<saved, savePending, saveRefused>>
  /\ pc' = "closed"
  /\ UNCHANGED <<config, backend, valid, failures, due, pairingVars, launching>>

-----------------------------------------------------------------------------
(* What the file may hold, as the theorems suppose it.  Loading it sees to *)
(* the first; the others hold of a list the launcher saved itself.         *)

SavesGood == \A list \in SavedLists : GoodList(list)
SavesUntwinned == \A list \in SavedLists : NoTwinsIn(list)

\* A PC of the list is called what answers behind its endpoint.
Truthful(list) == \A i \in Places(list) : list.hosts[i].uid \in {NoId, Identity[list.hosts[i].ep]}
SavesTruthful == \A list \in SavedLists : Truthful(list)

-----------------------------------------------------------------------------
Init ==
  /\ saved \in SavedLists
  /\ config = saved
  /\ savePending = FALSE
  /\ saveRefused = FALSE
  /\ backend = NoBackend(EmptyList)
  /\ valid = FALSE
  /\ failures = 0
  /\ due = TRUE
  /\ art = FALSE
  /\ requests = <<>>
  /\ sweeps = <<>>
  /\ worker = "none"
  /\ job = NoJob
  /\ pairRequested = FALSE
  /\ pairActive = FALSE
  /\ pairing = NoPairing
  /\ launching = FALSE
  /\ pc = "closed"

Order ==
  \/ SelectHost \/ RemoveHost \/ AddHost \/ SetPort \/ Refresh \/ Discover \/ Unpair \/ StopApp
  \/ StartPairing \/ RequestArtwork \/ RequestStream

PollStep ==
  \/ TakeAnswer \/ PairStart \/ PairingOver \/ NoPairingStep \/ StartNext \/ RunInline

Next ==
  \/ Order \/ TimePasses \/ PollStep \/ PollSave \/ WorkerEnds \/ PairStep
  \/ Initialize \/ StartStream \/ ExitHeld \/ Shutdown

Spec == Init /\ [][Next]_vars

\* The frame loop polls until the launcher closes, every request of the network
\* has a timeout, and so has the wait for a PIN.  Once the launching screen has
\* faded every frame tries to hand over.
FairSpec ==
  /\ Spec
  /\ WF_vars(PollStep)
  /\ WF_vars(WorkerEnds)
  /\ WF_vars(PairStep)
  /\ WF_vars(Shutdown)
  /\ SF_vars(StartStream)

-----------------------------------------------------------------------------
(* Properties. *)

BackendType == [of : Endpoints, online : BOOLEAN, paired : BOOLEAN, apps : BOOLEAN,
                running : BOOLEAN]

TypeOK ==
  /\ GoodList(config) /\ GoodList(saved)
  /\ savePending \in BOOLEAN /\ saveRefused \in BOOLEAN
  /\ backend \in BackendType
  /\ valid \in BOOLEAN /\ due \in BOOLEAN /\ art \in BOOLEAN
  /\ failures \in 0..FailureThreshold
  /\ requests \in Seq([kind : Kinds, ep : Endpoints])
  /\ sweeps \in Seq(Endpoints)
  /\ worker \in {"none", "running", "done", "inline"}
  /\ job \in [kind : Kinds, ep : Endpoints]
  /\ pairRequested \in BOOLEAN /\ pairActive \in BOOLEAN
  /\ pairing.state \in {"idle", "preparing", "waiting", "succeeded", "failed"}
  /\ pairing.said \in Snapshots
  /\ launching \in BOOLEAN
  /\ pc \in {"closed", "idle", "pair", "start", "inline", "closing"}

\* Requests and pairing use one NVHTTP transport whose timeout and error are
\* global to the process, so they never talk at the same time (Poll: "one at a
\* time"), whatever thread runs the request.
OneConversation == PairThread => worker \notin {"running", "inline"}

\* The stream has the network for itself: the launcher closes only after its
\* worker is joined and never in the middle of a pairing.
NetworkLeftToStream == pc = "closed" => worker = "none" /\ ~PairThread

\* Orders, answers and discoveries never leave two entries for one PC, by its
\* endpoint or by its identity.
NoTwins == NoTwinsIn(config)

\* What is shown of the selected PC, and the apps a start takes from it, were
\* said by the Sunshine instance that is selected now.
AnswerIsSelected ==
  valid /\ (backend.online \/ backend.paired \/ backend.apps \/ backend.running) =>
    HasSelected(config) /\ Identity[backend.of] = Identity[SelectedHost(config).ep]

\* The selected PC is shown as not answering only after three failures in a
\* row; before that it is shown as reconnecting.
OfflineAfterThree == valid /\ ~backend.online /\ ~Reconnecting => failures = FailureThreshold

\* What the player is shown of a PC is what that PC said last.
ShownIsTrue == TypeOK /\ AnswerIsSelected /\ OfflineAfterThree

\* A change of the list is in the file, or will be, or the player was told that
\* it is not.
SavedOrPending == pc # "closed" => config = saved \/ savePending \/ saveRefused

\* A start or the home screen does not take a change of the list with it.
NothingLost == pc = "closed" => config = saved \/ saveRefused

\* Closing leaves nothing behind: no thread on the network, no change unsaved.
ClosedClean == NetworkLeftToStream /\ NothingLost

\* An answer never moves the selection to another Sunshine instance, even when
\* it folds entries into one: only the player's orders, and the first PC of an
\* empty list, do.
SelectionFollows ==
  [][worker' # worker /\ HasSelected(config) =>
       /\ HasSelected(config')
       /\ Identity[SelectedHost(config').ep] = Identity[SelectedHost(config).ep]]_vars

\* A search and a stop the player ordered are started or dropped: health checks,
\* sweeps and pairing do not keep them from the worker for ever.  (A refresh can
\* be put off for as long as the player goes on choosing PCs.)
RequestsLeave ==
  \A kind \in {"discover", "stop"} : Queued(requests, kind) ~> ~Queued(requests, kind)

\* An accepted pairing starts, and ends.
PairingEnds == Pairing ~> ~Pairing

\* No order waits for ever for the worker.
OrdersLeave == RequestsLeave /\ PairingEnds

\* Poll (launcher_model.cpp:819): a failed attempt to pair still tells whether
\* the PC is online, as one that Sunshine itself refused does.
RefusalShowsOnline ==
  [][pairActive /\ ~pairActive' /\ pairing.result = "refused" /\ IsSelected(config, pairing.ep)
       => backend'.online]_vars

\* A PC enters the list when the player adds it or a discovery finds it
\* (USER_GUIDE: a removed one may appear again after a new discovery scan).
EntersBySearchOrOrder ==
  [][Len(config'.hosts) > Len(config.hosts) =>
       pc = "closed" \/ (pc = "idle" /\ worker' = worker) \/ job.kind = "discover"]_vars

\* launcher_view.hpp: once Start is accepted the launcher fades and hands over.
StartHandsOver == launching /\ pc = "idle" ~> pc = "closing"
=============================================================================
