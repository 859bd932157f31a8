------------------------------ MODULE AppLife -------------------------------
(***************************************************************************)
(* The life of the process: main (main.cpp:261) opens launchers and        *)
(* streams by turns, retries a launcher the display refuses, and closes;   *)
(* a launcher (launcher_ps5.cpp Run) takes the display, the controller,    *)
(* the audio port and its worker and gives them all back; a forwarder's    *)
(* arguments (forwarded_launch.hpp, forwarded_start.hpp) start one stream  *)
(* by themselves.  What the launcher's screens do in between is Launcher,  *)
(* what a stream does is Session; here a stream is how it ended.           *)
(***************************************************************************)
EXTENDS Integers

CONSTANT MaxStreams    \* bound: streams started

ASSUME StreamsAssumption == MaxStreams \in Nat

VARIABLES
  main,      \* where main is
  screen,    \* the launcher: "closed", "open", "shown", "launching"
  has,       \* what the launcher holds
  first,     \* first_start
  pending,   \* pending_forwarded_launch: "none", "stay" or "exit" (--exit-after-stream)
  fwd,       \* ForwardedStart: "idle", "select", "wait", "over"
  exits,     \* its exit_after_stream
  forwarded, \* forwarded_stream
  byFwd,     \* the stream being started is the forwarder's own
  answer,    \* the selected PC's last answer
  failures,  \* launcher_failures
  handoff,   \* awaiting_display_handoff
  error,     \* stream_error: a stream failed and no launcher was told
  owed,      \* a stream failed and no launcher that was shown has said why
  streams    \* streams started

launcherVars == <<screen, has, fwd, exits, forwarded, answer>>
appVars == <<main, launcherVars, first, pending, byFwd, failures, handoff, error, owed, streams>>

Answers == {"none", "offline", "unpaired", "no app", "cannot encode", "ready"}
Ended == {"exited", "waiting"}

\* parse_forwarded_launch: an app may have been named, to leave after it or not.
AppInit ==
  /\ main = "start" /\ screen = "closed" /\ has = {} /\ first = TRUE
  /\ pending \in {"none", "stay", "exit"} /\ fwd = "idle" /\ exits = FALSE /\ forwarded = FALSE
  /\ byFwd = FALSE /\ answer = "none" /\ failures = 0 /\ handoff = FALSE
  /\ error = FALSE /\ owed = FALSE /\ streams = 0

\* The modules are resolved before storage asks for access, the crash report
\* is installed, and the arguments are read.
StartUp ==
  /\ main = "start" /\ main' = "launcher"
  /\ UNCHANGED <<launcherVars, first, pending, byFwd, failures, handoff, error, owed, streams>>

-----------------------------------------------------------------------------
(* launcher::Run *)

OpenDisplay ==
  /\ main = "launcher" /\ screen = "closed"
  /\ screen' = "open" /\ has' = {"display"}
  /\ UNCHANGED <<main, first, pending, fwd, exits, forwarded, byFwd, answer, failures, handoff,
                 error, owed, streams>>

DisplayRefused ==
  /\ main = "launcher" /\ screen = "closed" /\ main' = "failed"
  /\ UNCHANGED <<launcherVars, first, pending, byFwd, failures, handoff, error, owed, streams>>

\* The renderer or a font fails: only the display was taken.
NotReady ==
  /\ screen = "open" /\ screen' = "closed" /\ has' = {} /\ main' = "failed"
  /\ UNCHANGED <<first, pending, fwd, exits, forwarded, byFwd, answer, failures, handoff,
                 error, owed, streams>>

\* The first launcher takes the arguments; the error is shown with its pages.
Show ==
  /\ screen = "open" /\ screen' = "shown"
  /\ has' = has \cup {"pad", "audio", "worker"} /\ answer' = "none" /\ forwarded' = FALSE
  /\ owed' = (owed /\ ~error)
  /\ IF first
       THEN /\ fwd' = IF pending = "none" THEN "over" ELSE "select"
            /\ exits' = (pending = "exit") /\ pending' = "none"
       ELSE fwd' = "over" /\ exits' = FALSE /\ UNCHANGED pending
  /\ UNCHANGED <<main, first, byFwd, failures, handoff, error, streams>>

\* The selected PC answers, or the player selects another one.
Poll ==
  /\ screen \in {"shown", "launching"} /\ answer' \in Answers
  /\ UNCHANGED <<main, screen, has, first, pending, fwd, exits, forwarded, byFwd, failures,
                 handoff, error, owed, streams>>

\* ForwardedStart::Advance: the PC is looked for among the saved ones.
FindPc ==
  /\ screen = "shown" /\ fwd = "select" /\ fwd' \in {"wait", "over"} /\ answer' = "none"
  /\ UNCHANGED <<main, screen, has, first, pending, exits, forwarded, byFwd, failures, handoff,
                 error, owed, streams>>

\* It answered for good, or never did for fifteen seconds: a notice.
ForwardFails ==
  /\ screen = "shown" /\ fwd = "wait" /\ fwd' = "over"
  /\ answer \in {"unpaired", "no app", "none", "offline"}
  /\ UNCHANGED <<main, screen, has, first, pending, exits, forwarded, byFwd, answer, failures,
                 handoff, error, owed, streams>>

\* The start is the one a press makes, which the settings may refuse.
ForwardStarts ==
  /\ screen = "shown" /\ fwd = "wait" /\ answer \in {"cannot encode", "ready"}
  /\ forwarded' = TRUE /\ fwd' = "over"
  /\ screen' = (IF answer = "ready" THEN "launching" ELSE "shown") /\ byFwd' = (answer = "ready")
  /\ UNCHANGED <<main, has, first, pending, exits, answer, failures, handoff, error, owed, streams>>

\* Input is dropped while the connecting screen of a forwarder covers the pages.
PlayerStarts ==
  /\ screen = "shown" /\ fwd = "over" /\ answer = "ready"
  /\ screen' = "launching" /\ byFwd' = FALSE
  /\ UNCHANGED <<main, has, first, pending, fwd, exits, forwarded, answer, failures, handoff,
                 error, owed, streams>>

\* model.Shutdown, the audio port, the controller, the display.
Closes == screen' = "closed" /\ has' = {} /\ first' = FALSE /\ fwd' = "idle"

\* A bug: the stream is started before the display is given back.
HandOverLate ==
  /\ screen = "launching" /\ answer \in {"ready", "cannot encode"} /\ streams < MaxStreams
  /\ screen' = "closed" /\ has' = {"display"} /\ first' = FALSE /\ fwd' = "idle"
  /\ main' = "stream" /\ streams' = streams + 1
  /\ failures' = 0 /\ handoff' = FALSE /\ error' = FALSE
  /\ exits' = (exits /\ forwarded)
  /\ UNCHANGED <<pending, forwarded, byFwd, answer, owed>>

\* FillSelection needs the app to be there still; then the launcher closes.
HandOver ==
  /\ screen = "launching" /\ answer \in {"ready", "cannot encode"} /\ streams < MaxStreams
  /\ Closes /\ main' = "stream" /\ streams' = streams + 1
  /\ failures' = 0 /\ handoff' = FALSE /\ error' = FALSE
  /\ exits' = (exits /\ forwarded)
  /\ UNCHANGED <<pending, forwarded, byFwd, answer, owed>>

\* Circle held for two seconds, or an update that was taken.
Leave ==
  /\ screen = "shown" /\ Closes /\ main' = "exited"
  /\ UNCHANGED <<pending, exits, forwarded, byFwd, answer, failures, handoff, error, owed, streams>>

SwapFails ==
  /\ screen \in {"shown", "launching"} /\ Closes /\ main' = "failed"
  /\ UNCHANGED <<pending, exits, forwarded, byFwd, answer, failures, handoff, error, owed, streams>>

-----------------------------------------------------------------------------
(* main's loop *)

RetryLimit == IF handoff THEN 4 ELSE 3

\* A bug: launchers that fail are not counted.
RetryForever ==
  /\ main = "failed" /\ first' = FALSE /\ error' = FALSE
  /\ main' = IF failures + 1 < RetryLimit THEN "launcher" ELSE "waiting"
  /\ UNCHANGED <<launcherVars, pending, byFwd, failures, handoff, owed, streams>>

\* The message belongs to the launcher just tried, shown or not.
LauncherFailed ==
  /\ main = "failed" /\ failures' = failures + 1 /\ first' = FALSE /\ error' = FALSE
  /\ main' = IF failures + 1 < RetryLimit THEN "launcher" ELSE "waiting"
  /\ UNCHANGED <<launcherVars, pending, byFwd, handoff, owed, streams>>

\* moonlight_stream_run, from the display to its result.  The display is not
\* the launcher's meanwhile; a mode was changed or not.
StreamEnds ==
  /\ main = "stream" /\ handoff' \in BOOLEAN
  /\ \E ok \in BOOLEAN :
       /\ main' = IF ok /\ exits THEN "exited" ELSE "launcher"
       /\ error' = ~ok /\ owed' = ~ok
  /\ UNCHANGED <<launcherVars, first, pending, byFwd, failures, streams>>

AppNext ==
  \/ StartUp \/ OpenDisplay \/ DisplayRefused \/ NotReady \/ Show \/ Poll \/ FindPc
  \/ ForwardFails \/ ForwardStarts \/ PlayerStarts \/ HandOver \/ Leave \/ SwapFails
  \/ LauncherFailed \/ StreamEnds

\* The main thread runs; a stream ends (Session); the player and the PC owe
\* nothing, but a forwarder's launch gives up after its fifteen seconds.
AppFairness ==
  /\ WF_appVars(StartUp) /\ WF_appVars(OpenDisplay \/ DisplayRefused) /\ WF_appVars(Show \/ NotReady)
  /\ WF_appVars(FindPc) /\ WF_appVars(LauncherFailed) /\ WF_appVars(StreamEnds)
  /\ SF_appVars(ForwardFails \/ ForwardStarts)

AppSpec == AppInit /\ [][AppNext]_appVars /\ AppFairness

-----------------------------------------------------------------------------
AppTypeOK ==
  /\ main \in {"start", "launcher", "failed", "stream"} \cup Ended
  /\ screen \in {"closed", "open", "shown", "launching"}
  /\ has \subseteq {"display", "pad", "audio", "worker"}
  /\ pending \in {"none", "stay", "exit"} /\ fwd \in {"idle", "select", "wait", "over"}
  /\ {first, exits, forwarded, byFwd, handoff, error, owed} \subseteq BOOLEAN
  /\ answer \in Answers /\ failures \in 0 .. 4 /\ streams \in 0 .. MaxStreams

\* A stream, a retry and the end find nothing of the launcher's still held.
HandsBack == main # "launcher" => has = {} /\ screen = "closed"

\* A launcher is on screen with all it needs, the display first.
Equipped == screen \in {"shown", "launching"} => has = {"display", "pad", "audio", "worker"}

\* main gives up after just three failed launchers in a row, of whatever kinds,
\* and after four where the last stream changed the display's mode.
PatientEnough == main = "waiting" => failures = IF handoff THEN 4 ELSE 3

\* The forwarder starts one stream at most, the first.
ForwardOnce == byFwd /\ main = "stream" => streams = 1

\* main.cpp's loop and Run over displays, renderers and swaps that fail
\* anywhere, streams that fail, and a forwarder's launch.
AppOK == AppTypeOK /\ HandsBack /\ Equipped /\ PatientEnough /\ ForwardOnce

\* The player gets a launcher or an end after every stream and at the start:
\* the loop never spins without either (docs/ARCHITECTURE.md, one at a time).
AppMoves == main \in {"start", "stream", "failed"} ~> screen = "shown" \/ main \in Ended

\* docs/FORWARDER.md:46: a stream that fails opens the launcher with the
\* reason: the launcher that is shown has been given it.
ReasonShown == screen \in {"shown", "launching"} => ~owed

\* docs/FORWARDER.md:89: the forwarded stream is started once, and after it
\* ProsperoLight behaves as if opened from its own tile: only the forwarder's
\* own stream closes the app when it ends.
OnlyForwardedCloses == main = "stream" /\ exits => byFwd

=============================================================================
