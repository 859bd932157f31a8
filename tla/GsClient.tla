------------------------------ MODULE GsClient ------------------------------
(***************************************************************************)
(* What the client asks of a PC: the identity, serverinfo, the list of     *)
(* apps, the five exchanges of a pairing, unpair, stop, launch and resume  *)
(* (gamestream/client.c), and the operations made of them                  *)
(* (moonlight_backend.cpp; prepare_native_session of moonlight_stream.cpp).*)
(* One operation runs at a time: the launcher's worker and the pairing     *)
(* thread wait for each other (Launcher), and a stream has no launcher.    *)
(*                                                                         *)
(* A request may be lost, its answer may be lost, the PC may refuse it,    *)
(* and people at the PC start and close apps and remove clients.  Modern   *)
(* PCs have no route to unpair.                                            *)
(***************************************************************************)
EXTENDS Integers

CONSTANT MaxId    \* bound: identities made

ASSUME ClientAssumption == MaxId \in Nat

VARIABLES
  server,    \* the PC: [unpairs, holds: the identities it accepts, game, phase]
  stored,    \* the identity in the files, 0: none
  made,      \* identities made so far
  op,        \* the operation that runs
  told,      \* the snapshot of the last one
  job        \* pairing_job.state

clientVars == <<server, stored, made, op, told, job>>

Asked == 1          \* the app a stream asks for
Games == {0, Asked, 2}

Kinds == {"refresh", "pair", "unpair", "stop", "start"}
Results == {"ok", "io", "failed", "wrong state", "unsupported"}

NoOp == [kind |-> "none", at |-> "none", id |-> 0, paired |-> FALSE, game |-> 0, kept |-> "ok",
         looking |-> FALSE, online |-> FALSE, answered |-> FALSE, apps |-> FALSE, meddled |-> FALSE,
         began |-> FALSE]
Nothing == [kind |-> "none", result |-> "ok", online |-> FALSE, paired |-> FALSE, apps |-> FALSE,
            game |-> 0, meddled |-> FALSE, began |-> FALSE, unheard |-> FALSE, answered |-> FALSE]

ClientInit ==
  /\ server \in [unpairs : BOOLEAN, holds : {{}}, game : {0}, phase : {0}]
  /\ stored = 0 /\ made = 0 /\ op = NoOp /\ told = Nothing /\ job = "idle"

Idle == op.kind = "none"
Pairing == job \in {"preparing", "waiting"}

-----------------------------------------------------------------------------
(* The PC *)

Holds == op.id \in server.holds

\* A request arrives and is answered, arrives and the answer is lost, or is lost.
Reaches(effect) == server' = effect
Lost(effect) == server' \in {server, effect}

GoTo(at) == op' = [op EXCEPT !.at = at]

UserRemovesClients ==
  /\ server.holds # {} /\ server' = [server EXCEPT !.holds = {}, !.phase = 0]
  /\ op' = [op EXCEPT !.meddled = TRUE]
  /\ told' = [told EXCEPT !.meddled = TRUE]
  /\ UNCHANGED <<stored, made, job>>

UserPlays ==
  /\ \E g \in Games \ {server.game} : server' = [server EXCEPT !.game = g]
  /\ op' = [op EXCEPT !.meddled = TRUE] /\ told' = [told EXCEPT !.meddled = TRUE]
  /\ UNCHANGED <<stored, made, job>>

-----------------------------------------------------------------------------
(* How an operation begins and ends *)

Begins(kind) ==
  /\ Idle /\ ~Pairing /\ made < MaxId
  /\ op' = [NoOp EXCEPT !.kind = kind, !.at = "identity", !.looking = kind = "refresh"]
  /\ told' = Nothing
  /\ job' = IF kind = "pair" THEN "preparing" ELSE job
  /\ UNCHANGED <<server, stored, made>>

\* The thread of the pairing cannot be created.
PairNotStarted ==
  /\ Idle /\ ~Pairing /\ job' = "failed"
  /\ told' = [Nothing EXCEPT !.kind = "pair", !.result = "failed"]
  /\ UNCHANGED <<server, stored, made, op>>

Report(result, online) ==
  /\ told' = [kind |-> op.kind, result |-> result, online |-> online, answered |-> op.answered,
              paired |-> online /\ op.paired, apps |-> op.apps, game |-> IF online THEN op.game ELSE 0,
              meddled |-> op.meddled, began |-> op.began, unheard |-> FALSE]
  /\ op' = NoOp
  /\ job' = IF op.kind # "pair" THEN job
            ELSE IF result = "ok" /\ online /\ op.paired THEN "succeeded" ELSE "failed"

\* run_paired_action and pairing_thread: a refresh follows, after a pairing
\* only when it went well.
Look(kept) ==
  /\ op' = [op EXCEPT !.at = "identity", !.looking = TRUE, !.kept = kept, !.paired = FALSE,
                      !.game = 0, !.apps = FALSE, !.began = FALSE]
  /\ UNCHANGED <<told, job>>

ActionEnds(result) ==
  IF op.kind = "start" \/ (op.kind = "pair" /\ result # "ok") THEN Report(result, FALSE)
  ELSE Look(result)

\* moonlight_backend_refresh's end.  The action's failure is what is reported;
\* a PC without the unpair route has the identity forgotten instead.
LookEnds(result, online) ==
  IF op.kind = "unpair" /\ op.kept = "unsupported"
  THEN op' = [op EXCEPT !.at = "forget", !.online = online] /\ UNCHANGED <<told, job>>
  ELSE Report(IF op.kept = "ok" THEN result ELSE op.kept, online)

OpEnds(result, online) == IF op.looking THEN LookEnds(result, online) ELSE ActionEnds(result)

-----------------------------------------------------------------------------
(* identity_init, gs_init and gs_applist *)

Identity ==
  /\ op.at = "identity"
  /\ \/ /\ stored # 0 /\ op' = [op EXCEPT !.at = "info", !.id = stored]
        /\ UNCHANGED <<stored, made, told, job>>
     \/ /\ stored = 0 /\ made' = made + 1 /\ stored' = made'
        /\ op' = [op EXCEPT !.at = "info", !.id = made']
        /\ UNCHANGED <<told, job>>
     \/ /\ stored = 0 /\ UNCHANGED <<stored, made>>
        /\ IF op.looking THEN LookEnds("failed", FALSE) ELSE Report("failed", FALSE)
  /\ UNCHANGED server

\* Without TLS the PC may not say that it knows the client.
Info ==
  /\ op.at = "info"
  /\ \/ \E known \in {FALSE, Holds} :
          op' = [op EXCEPT !.at = "infos", !.paired = known, !.game = server.game, !.answered = TRUE]
        /\ UNCHANGED <<told, job>>
     \/ OpEnds("io", FALSE)
  /\ UNCHANGED <<server, stored, made>>

\* What follows gs_init, by operation.
InitEnds(paired, game) ==
  LET Goes(at) == op' = [op EXCEPT !.paired = paired, !.game = game, !.at = at] IN
  \/ op.looking /\ Goes(IF paired THEN "apps" ELSE "end") /\ UNCHANGED <<told, job>>
  \/ ~op.looking /\ op.kind = "pair" /\ paired /\ Look("ok")
  \/ ~op.looking /\ op.kind = "pair" /\ ~paired /\ Goes("pin") /\ job' = "waiting" /\ UNCHANGED told
  \/ ~op.looking /\ op.kind = "start" /\ paired /\ Goes("list") /\ UNCHANGED <<told, job>>
  \/ /\ ~op.looking /\ op.kind \in {"unpair", "stop"} /\ paired /\ Goes(op.kind)
     /\ UNCHANGED <<told, job>>
  \/ ~op.looking /\ op.kind # "pair" /\ ~paired /\ ActionEnds("wrong state")

\* Over TLS only a client the PC accepts is answered; no answer is "unpaired".
Infos ==
  /\ op.at = "infos"
  /\ \/ Holds /\ InitEnds(TRUE, server.game)
     \/ InitEnds(FALSE, op.game)
  /\ UNCHANGED <<server, stored, made>>

LookUnpaired == op.at = "end" /\ LookEnds("ok", TRUE) /\ UNCHANGED <<server, stored, made>>

Apps ==
  /\ op.at = "apps"
  /\ \/ Holds /\ op' = [op EXCEPT !.apps = TRUE, !.at = "listed"] /\ UNCHANGED <<told, job>>
     \/ LookEnds("io", TRUE)
  /\ UNCHANGED <<server, stored, made>>

Listed == op.at = "listed" /\ LookEnds("ok", TRUE) /\ UNCHANGED <<server, stored, made>>

-----------------------------------------------------------------------------
(* gs_pair *)

Phases == <<"phase 1", "phase 2", "phase 3", "phase 4">>

PairBegins ==
  /\ op.at = "pin"
  /\ IF op.game # 0 THEN ActionEnds("wrong state") ELSE GoTo("phase 1") /\ UNCHANGED <<told, job>>
  /\ UNCHANGED <<server, stored, made>>

\* The fourth exchange is the one after which the PC accepts the client.
Taken(k) == [server EXCEPT !.phase = IF k = 4 THEN 0 ELSE k,
                       !.holds = IF k = 4 THEN @ \cup {op.id} ELSE @]
Accepts(k) == server.phase = k - 1 \/ k = 1
Onward(k) == op' = [op EXCEPT !.at = IF k = 4 THEN "confirm" ELSE Phases[k + 1], !.began = TRUE]

\* A bug: a lost fourth answer ends the pairing as a lost first one does.
PhaseForgets(k) ==
  /\ op.at = Phases[k]
  /\ \/ Accepts(k) /\ Reaches(Taken(k)) /\ Onward(k) /\ UNCHANGED <<told, job>>
     \/ server' = [server EXCEPT !.phase = 0] /\ GoTo("undo") /\ UNCHANGED <<told, job>>
     \/ /\ Lost(IF Accepts(k) THEN Taken(k) ELSE server)
        /\ IF k \in {1, 4} THEN ActionEnds("io") ELSE GoTo("undo") /\ UNCHANGED <<told, job>>
  /\ UNCHANGED <<stored, made>>

\* Answered, refused (a wrong PIN, a signature that does not verify), or lost:
\* after the first exchange all of these ask the PC to forget the client, as
\* does a refusal of the first.
Phase(k) ==
  /\ op.at = Phases[k]
  /\ \/ Accepts(k) /\ Reaches(Taken(k)) /\ Onward(k) /\ UNCHANGED <<told, job>>
     \/ server' = [server EXCEPT !.phase = 0] /\ GoTo("undo") /\ UNCHANGED <<told, job>>
     \/ /\ Lost(IF Accepts(k) THEN Taken(k) ELSE server)
        /\ IF k = 1 THEN ActionEnds("io") ELSE GoTo("undo") /\ UNCHANGED <<told, job>>
  /\ UNCHANGED <<stored, made>>

\* pairchallenge, over TLS.
Confirm ==
  /\ op.at = "confirm"
  /\ \/ Holds /\ ActionEnds("ok")
     \/ GoTo("undo") /\ UNCHANGED <<told, job>>
  /\ UNCHANGED <<server, stored, made>>

Removed == [server EXCEPT !.holds = IF server.unpairs THEN @ \ {op.id} ELSE @, !.phase = 0]

\* A bug: the pairing's state is left to the next poll.
UndoSilently ==
  /\ op.at = "undo"
  /\ server' \in {server, Removed} /\ op' = NoOp
  /\ UNCHANGED <<stored, made, told, job>>

\* gs_unpair after a failed pairing: whatever it answers, the pairing failed.
Undo ==
  /\ op.at = "undo"
  /\ \E arrived \in BOOLEAN :
       /\ server' = IF arrived THEN Removed ELSE server
       /\ told' = [kind |-> "pair", result |-> "failed", online |-> FALSE, paired |-> FALSE,
                   apps |-> FALSE, game |-> 0, meddled |-> op.meddled, answered |-> op.answered,
                   began |-> TRUE, unheard |-> ~arrived]
  /\ op' = NoOp /\ job' = "failed"
  /\ UNCHANGED <<stored, made>>

-----------------------------------------------------------------------------
(* gs_unpair, identity_forget, gs_quit_app *)

Unpair ==
  /\ op.at = "unpair"
  /\ \/ Reaches(Removed) /\ ActionEnds(IF server.unpairs THEN "ok" ELSE "unsupported")
     \/ Lost(Removed) /\ ActionEnds("io")
     \/ UNCHANGED server /\ ActionEnds("failed")
  /\ UNCHANGED <<stored, made>>

\* A bug: the answer alone is taken for it.
KeepIdentity ==
  /\ op.at = "forget" /\ UNCHANGED stored /\ Look("ok")
  /\ UNCHANGED <<server, made>>

ForgetIdentity ==
  /\ op.at = "forget"
  /\ \/ stored' = 0 /\ Look("ok")
     \/ Report("failed", op.online) /\ UNCHANGED stored
  /\ UNCHANGED <<server, made>>

Stopped == [server EXCEPT !.game = 0]

Stop ==
  /\ op.at = "stop"
  /\ \/ Holds /\ Reaches(Stopped) /\ ActionEnds("ok")
     \/ Holds /\ Lost(Stopped) /\ ActionEnds("io")
     \/ UNCHANGED server /\ ActionEnds("failed")
  /\ UNCHANGED <<stored, made>>

-----------------------------------------------------------------------------
(* prepare_native_session *)

List ==
  /\ op.at = "list"
  /\ \/ Holds /\ GoTo(IF op.game \in {0, Asked} THEN "launch" ELSE "quit") /\ UNCHANGED <<told, job>>
     \/ ActionEnds("io")
  /\ UNCHANGED <<server, stored, made>>

\* Another app runs: it is closed first.
Quit ==
  /\ op.at = "quit"
  /\ \/ Holds /\ Reaches(Stopped) /\ GoTo("look again") /\ UNCHANGED <<told, job>>
     \/ Holds /\ UNCHANGED server /\ GoTo("look again") /\ UNCHANGED <<told, job>>
     \/ (server' = server \/ (Holds /\ server' = Stopped)) /\ ActionEnds("io")
  /\ UNCHANGED <<stored, made>>

\* gs_refresh_status; a PC that does not answer is taken to run nothing.
LookAgain ==
  /\ op.at = "look again"
  /\ \/ server.game # 0 /\ ActionEnds("failed")
     \/ op' = [op EXCEPT !.game = 0, !.at = "launch"] /\ UNCHANGED <<told, job>>
  /\ UNCHANGED <<server, stored, made>>

\* A bug: whatever runs is resumed.
LaunchAny ==
  /\ op.at = "launch"
  /\ LET resume == server.game # 0
         started == [server EXCEPT !.game = IF resume THEN @ ELSE Asked] IN
     \/ Holds /\ Reaches(started) /\ ActionEnds("ok")
     \/ Lost(IF Holds THEN started ELSE server) /\ ActionEnds("io")
     \/ UNCHANGED server /\ ActionEnds("failed")
  /\ UNCHANGED <<stored, made>>

\* gs_start_app: resumed when the app ran, launched otherwise.  The PC resumes
\* whatever it runs, and launches only when it runs nothing.
Launch ==
  /\ op.at = "launch"
  /\ LET resume == op.game # 0
         started == [server EXCEPT !.game = IF resume THEN @ ELSE Asked]
         able == Holds /\ (resume <=> server.game # 0) IN
     \/ able /\ Reaches(started) /\ ActionEnds("ok")
     \/ Lost(IF able THEN started ELSE server) /\ ActionEnds("io")
     \/ UNCHANGED server /\ ActionEnds("failed")
  /\ UNCHANGED <<stored, made>>

-----------------------------------------------------------------------------
Steps ==
  \/ Identity \/ Info \/ Infos \/ LookUnpaired \/ Apps \/ Listed
  \/ PairBegins \/ Phase(1) \/ Phase(2) \/ Phase(3) \/ Phase(4) \/ Confirm \/ Undo
  \/ Unpair \/ ForgetIdentity \/ Stop \/ List \/ Quit \/ LookAgain \/ Launch

ClientNext ==
  \/ \E kind \in Kinds : Begins(kind)
  \/ PairNotStarted \/ Steps \/ UserRemovesClients \/ UserPlays

\* A request ends, answered or after its timeout.
ClientFairness == WF_clientVars(Steps)

ClientSpec == ClientInit /\ [][ClientNext]_clientVars /\ ClientFairness

-----------------------------------------------------------------------------
ClientTypeOK ==
  /\ server \in [unpairs : BOOLEAN, holds : SUBSET (1 .. MaxId), game : Games, phase : 0 .. 4]
  /\ stored \in 0 .. MaxId /\ made \in 0 .. MaxId
  /\ op.kind \in Kinds \cup {"none"} /\ told.result \in Results
  /\ job \in {"idle", "preparing", "waiting", "succeeded", "failed"}

\* A pairing that succeeded is with the identity in the files, and the PC
\* accepts it, unless someone there has removed it since.
PairedForReal ==
  Idle /\ told.kind = "pair" /\ job = "succeeded" /\ ~told.meddled => stored \in server.holds

\* A pairing that failed after its first exchange leaves nothing on a PC that
\* can unpair, wherever it failed, unless the request to unpair was lost too.
\* (A pairing the PC confirmed is told as failed when the refresh after it is.)
FailedLeavesNothing ==
  Idle /\ told.kind = "pair" /\ job = "failed" /\ told.began /\ ~told.unheard /\ server.unpairs =>
    stored \notin server.holds

\* An unpair that is reported done means a PIN the next time: the PC does not
\* accept the identity the next connection uses.
UnpairedAsksAgain ==
  Idle /\ told.kind = "unpair" /\ told.result = "ok" => stored \notin server.holds

\* A stream that starts shows the app asked for, unless people at the PC
\* changed what runs in the meantime.
StreamsTheAsked ==
  Idle /\ told.kind = "start" /\ told.result = "ok" /\ ~told.meddled => server.game = Asked

\* What a snapshot can be, as Launcher takes it: apps from a paired PC that
\* answered, and an unpaired PC's answer is whole.
SnapshotWhole ==
  Idle /\ told.kind \in {"refresh", "stop", "unpair"} =>
    /\ told.apps => told.paired
    /\ told.kind = "refresh" /\ told.apps => told.result = "ok"
    /\ told.kind = "refresh" /\ told.online /\ ~told.paired => told.result = "ok"

\* Requests and answers lost anywhere in a pairing, an unpair or a start
\* (client.c, moonlight_backend.cpp, prepare_native_session).
ClientOK ==
  /\ ClientTypeOK /\ PairedForReal /\ FailedLeavesNothing /\ UnpairedAsksAgain /\ StreamsTheAsked
  /\ SnapshotWhole

\* A pairing always ends for the player (launcher_model.cpp PollPairing).
PairingEnds == Pairing ~> ~Pairing

\* launcher_model.cpp:819: a failed attempt still tells whether the PC is
\* online.
FailureTellsOnline == Idle /\ told.kind = "pair" /\ told.answered => told.online

=============================================================================
