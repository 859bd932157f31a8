----------------------------- MODULE MCServices -----------------------------
(* What the launcher and the stream stand on: the saved settings, the list of *)
(* PCs among them and the files they are in, the life of the process, the     *)
(* requests to a PC, the sockets under them and the search for PCs.  These    *)
(* components meet only through calls that their modules have as choices, so  *)
(* a behaviour runs one of them.                                              *)
EXTENDS Storage, GsClient, AppLife, HttpClient, MergeLoop

CONSTANTS Socks, Inline,                                                \* Sockets
          Instances, MaxServices                                        \* Discovery

VARIABLES
    part,                                                               \* the one that runs
    file, firstLoad, again, step,                                       \* Config
    call, callAt, sets, asked, added, ready, callHeld, callAnswer,      \* Sockets
    stage, searchHeld, source, services, found, heard                   \* Discovery

Settings == INSTANCE Config WITH first <- firstLoad
Calls == INSTANCE Sockets WITH at <- callAt, given <- sets, held <- callHeld, answer <- callAnswer
Search == INSTANCE Discovery WITH held <- searchHeld, hosts <- found

ASSUME SettingsAssumption == Settings!ConfigAssumption
ASSUME CallsAssumption == Calls!SocketsAssumption
ASSUME SearchAssumption == Search!DiscoveryAssumption

settings == <<file, firstLoad, again, step>>
calls == <<call, callAt, sets, asked, added, ready, callHeld, callAnswer>>
search == <<stage, searchHeld, source, services, found, heard>>
all == <<part, vars, settings, filesVars, appVars, clientVars, httpVars, calls, search>>

\* The components that do not run have one initial state, in which nothing is
\* owed.
ServicesInit ==
    /\ part \in {"list", "settings", "files", "app", "client", "http", "calls", "search"}
    /\ IF part = "list" THEN Init
       ELSE /\ list = EmptyList /\ index = 1 /\ duplicate = 1
            /\ given = [list |-> list, index |-> 1]
    /\ IF part = "settings" THEN Settings!Init
       ELSE file = Settings!NoFile /\ firstLoad = Settings!Defaults
            /\ again = Settings!Defaults /\ step = "load"
    /\ FilesInit /\ (part = "files" \/ disk["sandbox"] = disk["data"])
    /\ IF part = "app" THEN AppInit
       ELSE /\ main = "waiting" /\ screen = "closed" /\ has = {} /\ first = TRUE
            /\ pending = "none" /\ fwd = "idle" /\ exits = FALSE /\ forwarded = FALSE
            /\ byFwd = FALSE /\ answer = "none" /\ failures = 3 /\ handoff = FALSE
            /\ error = FALSE /\ owed = FALSE /\ streams = 0
    /\ ClientInit /\ (part = "client" \/ server.unpairs)
    /\ HttpInit /\ Calls!Init /\ Search!Init

\* The one that runs takes a step of its own, the others none.
ServicesNext ==
    /\ UNCHANGED part
    /\ IF part = "list" THEN Next ELSE UNCHANGED vars
    /\ IF part = "settings" THEN Settings!Next ELSE UNCHANGED settings
    /\ IF part = "files" THEN FilesNext ELSE UNCHANGED filesVars
    /\ IF part = "app" THEN AppNext ELSE UNCHANGED appVars
    /\ IF part = "client" THEN ClientNext ELSE UNCHANGED clientVars
    /\ IF part = "http" THEN HttpNext ELSE UNCHANGED httpVars
    /\ IF part = "calls" THEN Calls!Next ELSE UNCHANGED calls
    /\ IF part = "search" THEN Search!Next ELSE UNCHANGED search

\* No fair action is enabled in the initial state of a component that does not
\* run.
ServicesSpec ==
    ServicesInit /\ [][ServicesNext]_all /\ AppFairness /\ ClientFairness /\ HttpFairness

(* The loop of merge_duplicates computes the fold the launcher's model uses,  *)
(* and whichever layout was found the settings are ones the stream can use:   *)
(* moonlight_config.cpp.                                                      *)
SettingsOK ==
    /\ part = "list" => LoopMerges
    /\ part = "settings" => Settings!ConfigOK

(* A request that was interrupted is never answered and leaves no socket, no  *)
(* call keeps anything and select counts what it sets, and every service      *)
(* heard of is listed once: gs_http.c, ps5_sockets.c and add_host.            *)
NetworkOK ==
    /\ part = "http" => HttpOK
    /\ part = "calls" => Calls!SocketsOK
    /\ part = "search" => Search!DiscoveryOK

(* After a start, a stream or a failure there is a launcher or an end, a      *)
(* pairing ends for the player, and an interrupted request ends: main,        *)
(* pairing_thread and http_interrupt.                                         *)
ServicesMove == AppMoves /\ PairingEnds /\ InterruptEnds
=============================================================================
