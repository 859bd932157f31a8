------------------------------- MODULE Session --------------------------------
(***************************************************************************)
(* One call of moonlight_stream_run after another: the main thread that    *)
(* sets a stream up and takes it down again, the loading watcher that      *)
(* looks at the controller and the clock meanwhile, the thread that keeps  *)
(* the connecting picture's bar moving, and the worker that presents.      *)
(* VideoPipeline models what goes on between the workers of the stream;    *)
(* here they are one thread, which may fail at any time.                   *)
(***************************************************************************)
CONSTANT Backends   \* decoder backends of the profiles a player may choose

ASSUME SessionAssumption == Backends \subseteq {"native", "pyrowave"}

VARIABLES
  pc,           \* where the main thread is; "idle": in the launcher
  backend, bar, \* this session's decoder backend; its connecting picture has a bar
  stop,         \* controller.requested_stop
  pad,          \* the controller is the session's
  loading,      \* connection_loading_state_t: active, cancel, timedOut, pending
  watcher,      \* connection_loading_thread; "none" once joined
  http,         \* http_interrupted
  interrupted,  \* moonlight-common-c was told to give up
  screen,       \* connecting_screen_thread; "none" once joined
  active, finish,   \* what connecting_screen tells that thread
  worker,       \* the presentation worker; "none" once joined
  presented,    \* renderer.presented # 0
  surface,      \* the memory of the connecting picture is held
  frames,       \* the decoder's and the pictures' memory is held
  display,      \* the AGC presenter has the display open
  flip,         \* what the GPU or the display may still read
  terminated, error,    \* connection_terminated; connection_error # 0
  connected,    \* LiStartConnection returned 0
  started, streamed, noVideo,   \* session_started, stream_started, first_frame_timed_out
  quitHost,     \* session_preferences.quit_host
  app,          \* the app the PC runs
  failed,       \* result # 0
  report,       \* what the notification says went wrong
  faulted       \* presentation_faulted

padVars == <<stop, pad>>
loadVars == <<loading, watcher, http, interrupted>>
screenVars == <<screen, active, finish>>
workerVars == <<worker, presented>>
memVars == <<surface, frames, display, flip>>
linkVars == <<terminated, error, connected>>
hostVars == <<started, quitHost, app>>
endVars == <<streamed, noVideo, failed, report, faulted>>
choiceVars == <<backend, bar>>
vars == <<pc, choiceVars, padVars, loadVars, screenVars, workerVars, memVars, linkVars,
          hostVars, endVars>>

NotWatching == [active |-> FALSE, cancel |-> FALSE, timedOut |-> FALSE, pending |-> FALSE]

\* The picture or the bar is moving on the display.
ScreenPresents == screen \in {"bar", "fade"} /\ bar

\* The connection's stop callbacks have told the worker to end.
Stopping == pc \in {"unwind", "leaving"}

-----------------------------------------------------------------------------
(* The main thread: the connecting screen and the decoder.                  *)

\* moonlight_stream_run: after a fault it returns at once, changing nothing.
StartSession ==
  /\ pc = "idle"
  /\ ~faulted
  /\ backend' \in Backends
  /\ bar' \in BOOLEAN
  /\ stop' = FALSE
  /\ loading' = NotWatching
  /\ active' = FALSE
  /\ finish' = FALSE
  /\ presented' = FALSE
  /\ started' = FALSE /\ quitHost' = FALSE
  /\ streamed' = FALSE /\ noVideo' = FALSE /\ failed' = FALSE /\ report' = "none"
  /\ connected' = FALSE
  /\ pc' = "begin"
  /\ UNCHANGED <<pad, watcher, http, interrupted, screen, worker, memVars, terminated, error,
                 app, faulted>>

\* connecting_screen_begin gets no memory for the picture (or cannot map it).
ScreenFails ==
  /\ pc = "begin"
  /\ surface' \in BOOLEAN
  /\ failed' = TRUE
  /\ pc' = "done"
  /\ UNCHANGED <<choiceVars, padVars, loadVars, screenVars, workerVars, frames, display, flip,
                 linkVars, hostVars, streamed, noVideo, report, faulted>>

\* connecting_screen_begin cannot show it, and closes the presenter unless a
\* flip is still outstanding.
FirstShowFails ==
  /\ pc = "begin"
  /\ surface' = TRUE
  /\ flip' \in {"none", "surface"}
  /\ display' = (flip' # "none")
  /\ failed' = TRUE
  /\ pc' = "done"
  /\ UNCHANGED <<choiceVars, padVars, loadVars, screenVars, workerVars, frames, linkVars,
                 hostVars, streamed, noVideo, report, faulted>>

\* connecting_screen_begin: the picture is on the display.  Without its thread
\* the bar stands still.
ShowScreen ==
  /\ pc = "begin"
  /\ surface' = TRUE
  /\ display' = TRUE
  /\ flip' = "surface"
  /\ screen' \in {"none", "bar"}
  /\ active' = (screen' = "bar")
  /\ pc' = "watch"
  /\ UNCHANGED <<choiceVars, padVars, loadVars, finish, workerVars, frames, linkVars, hostVars,
                 endVars>>

\* start_connection_loading, before the setup of the decoder and again, with
\* the controller, before the PC is asked for anything.
StartLoading ==
  /\ pc \in {"watch", "watchPad"}
  /\ \/ /\ loading' = [NotWatching EXCEPT !.active = TRUE]
        /\ watcher' = "poll"
        /\ pc' = IF pc = "watch" THEN "setup" ELSE "identity"
        /\ UNCHANGED failed
     \/ /\ loading' = NotWatching
        /\ failed' = TRUE
        /\ pc' = "done"
        /\ UNCHANGED watcher
  /\ UNCHANGED <<choiceVars, padVars, http, interrupted, screenVars, workerVars, memVars,
                 linkVars, hostVars, streamed, noVideo, report, faulted>>

\* The decoder, its queue or a pool is refused.
SetupFails ==
  /\ pc = "setup"
  /\ backend = "native"
  /\ frames' \in BOOLEAN
  /\ failed' = TRUE
  /\ pc' = "done"
  /\ UNCHANGED <<choiceVars, padVars, loadVars, screenVars, workerVars, surface, display, flip,
                 linkVars, hostVars, streamed, noVideo, report, faulted>>

\* Mutant: the pools are allocated for PyroWave too.
SetupDone_Both ==
  /\ pc = "setup"
  /\ frames' = TRUE
  /\ pc' = IF backend = "native" THEN "checkSetup" ELSE "stopSetup"
  /\ UNCHANGED <<choiceVars, padVars, loadVars, screenVars, workerVars, surface, display, flip,
                 linkVars, hostVars, endVars>>

\* PyroWave sets its decoder up when the connection does, and is not asked
\* whether the time is over.
SetupDone ==
  /\ pc = "setup"
  /\ frames' = (backend = "native")
  /\ pc' = IF backend = "native" THEN "checkSetup" ELSE "stopSetup"
  /\ UNCHANGED <<choiceVars, padVars, loadVars, screenVars, workerVars, surface, display, flip,
                 linkVars, hostVars, endVars>>

\* The main thread looks at what the watcher found, once per phase.
Check(at, next) ==
  /\ pc = at
  /\ failed' = (loading.cancel /\ loading.timedOut)
  /\ pc' = IF loading.cancel THEN "done" ELSE next
  /\ UNCHANGED <<choiceVars, padVars, loadVars, screenVars, workerVars, memVars, linkVars,
                 hostVars, streamed, noVideo, report, faulted>>

\* Mutant: the watcher is joined without having been told to end.
TellWatcher_Not(at, next) ==
  /\ pc = at
  /\ pc' = next
  /\ UNCHANGED <<choiceVars, padVars, loadVars, screenVars, workerVars, memVars, linkVars,
                 hostVars, endVars>>

\* stop_connection_loading, in two steps: the flag, then the join.
TellWatcher(at, next) ==
  /\ pc = at
  /\ loading' = [loading EXCEPT !.active = FALSE]
  /\ pc' = next
  /\ UNCHANGED <<choiceVars, padVars, watcher, http, interrupted, screenVars, workerVars,
                 memVars, linkVars, hostVars, endVars>>

\* Mutant: the watcher is told to end but not waited for.
JoinWatcher_Not(at, next) ==
  /\ pc = at
  /\ pc' = next
  /\ UNCHANGED <<choiceVars, padVars, loadVars, screenVars, workerVars, memVars, linkVars,
                 hostVars, endVars>>

JoinWatcher(at, next) ==
  /\ pc = at
  /\ watcher \in {"none", "ended"}
  /\ watcher' = "none"
  /\ pc' = next
  /\ UNCHANGED <<choiceVars, padVars, loading, http, interrupted, screenVars, workerVars,
                 memVars, linkVars, hostVars, endVars>>

\* ps5_controller_init
TakePad ==
  /\ pc = "input"
  /\ \/ pad' = TRUE /\ pc' = "watchPad" /\ UNCHANGED failed
     \/ failed' = TRUE /\ pc' = "done" /\ UNCHANGED pad
  /\ UNCHANGED <<choiceVars, stop, loadVars, screenVars, workerVars, memVars, linkVars,
                 hostVars, streamed, noVideo, report, faulted>>

-----------------------------------------------------------------------------
(* The main thread: the PC.                                                 *)

\* http_init, once the identity is loaded: it forgets an interrupt.
InitHttp ==
  /\ pc = "identity"
  /\ http' = FALSE
  /\ pc' = "request"
  /\ UNCHANGED <<choiceVars, padVars, loading, watcher, interrupted, screenVars, workerVars,
                 memVars, linkVars, hostVars, endVars>>

\* prepare_native_session gives up: no identity, no answer, a refusal, an
\* interrupt.  A start may have reached the PC though its answer did not come
\* back, or came back without the session's address.
PrepareFails ==
  /\ pc \in {"identity", "request"}
  /\ app' \in {app} \union (IF pc = "request" /\ app # "other" THEN {"ours"} ELSE {})
  /\ failed' = TRUE
  /\ pc' = "done"
  /\ UNCHANGED <<choiceVars, padVars, loadVars, screenVars, workerVars, memVars, linkVars,
                 started, quitHost, streamed, noVideo, report, faulted>>

\* prepare_native_session: another app is closed before this one is started.
QuitOther ==
  /\ pc = "request"
  /\ ~http
  /\ app = "other"
  /\ app' = "none"
  /\ UNCHANGED <<pc, choiceVars, padVars, loadVars, screenVars, workerVars, memVars, linkVars,
                 started, quitHost, endVars>>

\* prepare_native_session: the app is started or resumed.
Launch ==
  /\ pc = "request"
  /\ ~http
  /\ app # "other"
  /\ app' = "ours"
  /\ started' = TRUE
  /\ quitHost' \in BOOLEAN
  /\ pc' = "checkLaunch"
  /\ UNCHANGED <<choiceVars, padVars, loadVars, screenVars, workerVars, memVars, linkVars,
                 endVars>>

\* connection_pending: from here the watcher may interrupt the connection.
Pend ==
  /\ pc = "pend"
  /\ terminated' = FALSE
  /\ error' = FALSE
  /\ loading' = [loading EXCEPT !.pending = TRUE]
  /\ pc' = IF backend = "pyrowave" THEN "tellScreenHand" ELSE "connect"
  /\ UNCHANGED <<choiceVars, padVars, watcher, http, interrupted, screenVars, workerVars,
                 memVars, connected, hostVars, endVars>>

\* connecting_screen_stop, in two steps.
TellScreen(at, next) ==
  /\ pc = at
  /\ active' = FALSE
  /\ pc' = next
  /\ UNCHANGED <<choiceVars, padVars, loadVars, screen, finish, workerVars, memVars, linkVars,
                 hostVars, endVars>>

\* Mutant: the connecting screen's thread is not waited for.
JoinScreen_Not(at, next) ==
  /\ pc = at
  /\ pc' = next
  /\ UNCHANGED <<choiceVars, padVars, loadVars, screenVars, workerVars, memVars, linkVars,
                 hostVars, endVars>>

JoinScreen(at, next) ==
  /\ pc = at
  /\ screen \in {"none", "ended"}
  /\ screen' = "none"
  /\ pc' = next
  /\ UNCHANGED <<choiceVars, padVars, loadVars, active, finish, workerVars, memVars, linkVars,
                 hostVars, endVars>>

\* PyroWave takes the display: native_agc_present_shutdown, and only when that
\* succeeds connecting_screen_release.
HandOver ==
  /\ pc = "handOver"
  /\ \/ /\ flip' = "none"
        /\ display' = FALSE
        /\ surface' = FALSE
        /\ pc' = "connect"
        /\ UNCHANGED failed
     \/ /\ flip' \in {"none", flip}
        /\ display' = (flip' # "none")
        /\ failed' = TRUE
        /\ pc' = "done"
        /\ UNCHANGED surface
  /\ UNCHANGED <<choiceVars, padVars, loadVars, screenVars, workerVars, frames, linkVars,
                 hostVars, streamed, noVideo, report, faulted>>

-----------------------------------------------------------------------------
(* LiStartConnection.                                                       *)

\* It forgets an interrupt that came before it.
ConnectBegins ==
  /\ pc = "connect"
  /\ interrupted' = FALSE
  /\ pc' = "stages"
  /\ UNCHANGED <<choiceVars, padVars, loading, watcher, http, screenVars, workerVars, memVars,
                 linkVars, hostVars, endVars>>

\* moonlight_renderer_start; a thread that cannot be created fails the stream.
RendererStarts ==
  /\ pc = "stages"
  /\ \/ worker' = "waiting" /\ UNCHANGED <<terminated, error>>
     \/ terminated' = TRUE /\ error' = TRUE /\ UNCHANGED worker
  /\ pc' = "started"
  /\ UNCHANGED <<choiceVars, padVars, loadVars, screenVars, presented, memVars, connected,
                 hostVars, endVars>>

\* A stage fails, or the interrupt is noticed between two of them; what was
\* started is stopped.
ConnectFails ==
  /\ pc \in {"stages", "started"}
  /\ terminated' = TRUE
  /\ error' = TRUE
  /\ pc' = "unwind"
  /\ UNCHANGED <<choiceVars, padVars, loadVars, screenVars, workerVars, memVars, connected,
                 hostVars, endVars>>

\* It returns, with the workers joined if it failed.
ConnectReturns ==
  /\ \/ pc = "started" /\ connected' = TRUE /\ UNCHANGED worker
     \/ /\ pc = "unwind" /\ worker \in {"none", "ended"}
        /\ worker' = "none"
        /\ UNCHANGED connected
  /\ loading' = [loading EXCEPT !.pending = FALSE]
  /\ pc' = "stopConnect"
  /\ UNCHANGED <<choiceVars, padVars, watcher, http, interrupted, screenVars, presented, memVars,
                 terminated, error, hostVars, endVars>>

\* moonlight_stream_run once the watcher is joined.
Connected ==
  /\ pc = "connected"
  /\ streamed' = connected
  /\ failed' = (~connected /\ ~stop)
  /\ pc' = IF connected THEN "live" ELSE "done"
  /\ UNCHANGED <<choiceVars, padVars, loadVars, screenVars, workerVars, memVars, linkVars,
                 hostVars, noVideo, report, faulted>>

\* connection_ended, from moonlight-common-c's threads.
ConnectionEnds ==
  /\ connected
  /\ pc \in {"stopConnect", "joinConnect", "connected", "live"}
  /\ ~terminated
  /\ terminated' = TRUE
  /\ error' \in BOOLEAN
  /\ UNCHANGED <<pc, choiceVars, padVars, loadVars, screenVars, workerVars, memVars, connected,
                 hostVars, endVars>>

-----------------------------------------------------------------------------
(* The main thread: the stream and its end.                                 *)

\* ps5_controller_poll, dualsense::TakeLocalActions
PlayerStops ==
  /\ pc = "live"
  /\ ~stop /\ ~terminated
  /\ stop' = TRUE
  /\ UNCHANGED <<pc, choiceVars, pad, loadVars, screenVars, workerVars, memVars, linkVars,
                 hostVars, endVars>>

\* FIRST_VIDEO_FRAME_TIMEOUT_US
NoFirstPicture ==
  /\ pc = "live"
  /\ ~stop /\ ~terminated /\ ~presented
  /\ noVideo' = TRUE
  /\ failed' = TRUE
  /\ pc' = "leaving"
  /\ UNCHANGED <<choiceVars, padVars, loadVars, screenVars, workerVars, memVars, linkVars,
                 hostVars, streamed, report, faulted>>

LeaveStream ==
  /\ pc = "live"
  /\ stop \/ terminated
  /\ failed' = (terminated /\ error)
  /\ pc' = "leaving"
  /\ UNCHANGED <<choiceVars, padVars, loadVars, screenVars, workerVars, memVars, linkVars,
                 hostVars, streamed, noVideo, report, faulted>>

\* LiStopConnection: the workers are joined.
StopConnection ==
  /\ pc = "leaving"
  /\ worker \in {"none", "ended"}
  /\ worker' = "none"
  /\ pc' = "done"
  /\ UNCHANGED <<choiceVars, padVars, loadVars, screenVars, presented, memVars, linkVars,
                 hostVars, endVars>>

\* The notification: why the session failed, unless the player ended it.
Report ==
  /\ pc = "done"
  /\ report' = IF ~failed \/ stop THEN "none"
               ELSE IF loading.timedOut THEN "timedOut"
               ELSE IF noVideo THEN "noVideo"
               ELSE IF streamed THEN "lost"
               ELSE "notConnected"
  /\ pc' = "stopLoading"
  /\ UNCHANGED <<choiceVars, padVars, loadVars, screenVars, workerVars, memVars, linkVars,
                 hostVars, streamed, noVideo, failed, faulted>>

\* Mutant: the interrupt is not cleared.
ClearInterrupt_Not ==
  /\ pc = "clear"
  /\ pc' = "padDown"
  /\ UNCHANGED <<choiceVars, padVars, loadVars, screenVars, workerVars, memVars, linkVars,
                 hostVars, endVars>>

\* http_clear_interrupt, then the controller is closed.
ClearInterrupt ==
  /\ pc = "clear"
  /\ http' = FALSE
  /\ pc' = "padDown"
  /\ UNCHANGED <<choiceVars, padVars, loading, watcher, interrupted, screenVars, workerVars,
                 memVars, linkVars, hostVars, endVars>>

ClosePad ==
  /\ pc = "padDown"
  /\ pad' = FALSE
  /\ pc' = "quit"
  /\ UNCHANGED <<choiceVars, stop, loadVars, screenVars, workerVars, memVars, linkVars,
                 hostVars, endVars>>

\* gs_quit_app, which the PC may not answer.
QuitApp ==
  /\ pc = "quit"
  /\ app' \in {app} \union (IF started /\ (~stop \/ quitHost) THEN {"none"} ELSE {})
  /\ pc' = "retire"
  /\ UNCHANGED <<choiceVars, padVars, loadVars, screenVars, workerVars, memVars, linkVars,
                 started, quitHost, endVars>>

\* Mutant: the memory is released whether or not the flip was retired.
Retire_Anyway ==
  /\ pc = "retire"
  /\ flip' \in {"none", flip}
  /\ display' = (flip' # "none")
  /\ pc' = "release"
  /\ UNCHANGED <<choiceVars, padVars, loadVars, screenVars, workerVars, surface, frames,
                 linkVars, hostVars, endVars>>

\* native_agc_finish_frame waits for the last flip and native_agc_present_shutdown
\* closes the display; neither touches anything while a flip is outstanding.
Retire ==
  /\ pc = "retire"
  /\ \/ flip' = "none" /\ pc' = "release"
     \/ flip # "none" /\ flip' \in {"none", flip} /\ pc' = "fault"
  /\ display' = (flip' # "none")
  /\ UNCHANGED <<choiceVars, padVars, loadVars, screenVars, workerVars, surface, frames,
                 linkVars, hostVars, endVars>>

\* Mutant: the connecting picture is left to the session it belongs to.
ReleaseMemory_Frames ==
  /\ pc = "release"
  /\ \/ frames' = FALSE /\ pc' = "idle"
     \/ frames /\ pc' = "fault" /\ UNCHANGED frames
  /\ UNCHANGED <<choiceVars, padVars, loadVars, screenVars, workerVars, surface, display, flip,
                 linkVars, hostVars, endVars>>

\* sceVideodec2DeleteDecoder, and then all memory.
ReleaseMemory ==
  /\ pc = "release"
  /\ \/ surface' = FALSE /\ frames' = FALSE /\ pc' = "idle"
     \/ frames /\ pc' = "fault" /\ UNCHANGED <<surface, frames>>
  /\ UNCHANGED <<choiceVars, padVars, loadVars, screenVars, workerVars, display, flip, linkVars,
                 hostVars, endVars>>

\* The memory stays with the process, which streams no more.
Fault ==
  /\ pc = "fault"
  /\ faulted' = TRUE
  /\ failed' = TRUE
  /\ pc' = "idle"
  /\ UNCHANGED <<choiceVars, padVars, loadVars, screenVars, workerVars, memVars, linkVars,
                 hostVars, streamed, noVideo, report>>

\* Between two sessions the PC may start or end apps.
AppChanges ==
  /\ pc = "idle"
  /\ app' \in {"none", "other", "ours"} \ {app}
  /\ UNCHANGED <<pc, choiceVars, padVars, loadVars, screenVars, workerVars, memVars, linkVars,
                 started, quitHost, endVars>>

-----------------------------------------------------------------------------
(* connection_loading_thread, once every ten milliseconds.                  *)

\* The chord on the controller, if there is one, and the time limit.
WatcherPolls ==
  /\ watcher = "poll"
  /\ loading.active
  /\ \E chord \in {FALSE, pad}, late \in BOOLEAN :
       LET ends == loading.cancel \/ stop \/ chord \/ late
       IN  /\ stop' = (stop \/ chord)
           /\ loading' = [loading EXCEPT !.cancel = ends, !.timedOut = @ \/ late]
           /\ watcher' = IF ends THEN "interrupt" ELSE "poll"
  /\ UNCHANGED <<pc, choiceVars, pad, http, interrupted, screenVars, workerVars, memVars,
                 linkVars, hostVars, endVars>>

\* http_interrupt
WatcherInterrupts ==
  /\ watcher = "interrupt"
  /\ http' = TRUE
  /\ watcher' = IF loading.pending THEN "tell" ELSE "poll"
  /\ UNCHANGED <<pc, choiceVars, padVars, loading, interrupted, screenVars, workerVars, memVars,
                 linkVars, hostVars, endVars>>

\* LiInterruptConnection
WatcherTells ==
  /\ watcher = "tell"
  /\ interrupted' = TRUE
  /\ loading' = [loading EXCEPT !.active = FALSE]
  /\ watcher' = "ended"
  /\ UNCHANGED <<pc, choiceVars, padVars, http, screenVars, workerVars, memVars, linkVars,
                 hostVars, endVars>>

WatcherEnds ==
  /\ watcher = "poll"
  /\ ~loading.active
  /\ watcher' = "ended"
  /\ UNCHANGED <<pc, choiceVars, padVars, loading, http, interrupted, screenVars, workerVars,
                 memVars, linkVars, hostVars, endVars>>

-----------------------------------------------------------------------------
(* connecting_screen_thread.                                                *)

\* Mutant: a black screen goes on sleeping when the first picture is ready.
BarEnds_Bar == ~active \/ (finish /\ bar)

\* The loop that keeps the bar moving is over.
BarEnds == ~active \/ finish

\* connecting_screen_show_bar, connecting_screen_show
ScreenShows ==
  /\ ScreenPresents
  /\ \/ screen = "bar" /\ ~BarEnds /\ UNCHANGED screen
     \/ screen = "fade" /\ screen' = "ended"
  /\ flip' = "surface"
  /\ UNCHANGED <<pc, choiceVars, padVars, loadVars, active, finish, workerVars, surface, frames,
                 display, linkVars, hostVars, endVars>>

\* Without a bar there is nothing to move.
ScreenSleeps ==
  /\ screen = "bar"
  /\ ~bar
  /\ ~BarEnds
  /\ UNCHANGED vars

ScreenShowFails ==
  /\ ScreenPresents
  /\ screen' = "ended"
  /\ UNCHANGED <<pc, choiceVars, padVars, loadVars, active, finish, workerVars, memVars,
                 linkVars, hostVars, endVars>>

\* Told to stop, or that the first picture is ready: then the bar runs to its
\* end and the screen fades.
ScreenLeaves ==
  /\ screen = "bar"
  /\ BarEnds
  /\ screen' = IF bar /\ active THEN "fade" ELSE "ended"
  /\ UNCHANGED <<pc, choiceVars, padVars, loadVars, active, finish, workerVars, memVars,
                 linkVars, hostVars, endVars>>

-----------------------------------------------------------------------------
(* The presentation worker.                                                 *)

\* video_present_thread takes its first picture: connecting_screen_finish.
FirstPicture ==
  /\ worker = "waiting"
  /\ ~Stopping
  /\ finish' = (finish \/ screen # "none")
  /\ worker' = "finishing"
  /\ UNCHANGED <<pc, choiceVars, padVars, loadVars, screen, active, presented, memVars, linkVars,
                 hostVars, endVars>>

WorkerJoinsScreen ==
  /\ worker = "finishing"
  /\ screen \in {"none", "ended"}
  /\ screen' = "none"
  /\ worker' = "showing"
  /\ UNCHANGED <<pc, choiceVars, padVars, loadVars, active, finish, presented, memVars, linkVars,
                 hostVars, endVars>>

\* PyroWave's worker presents through its own swapchain.
WorkerShows ==
  /\ worker = "showing"
  /\ presented' = TRUE
  /\ flip' = IF backend = "native" THEN "frame" ELSE flip
  /\ UNCHANGED <<pc, choiceVars, padVars, loadVars, screenVars, worker, surface, frames, display,
                 linkVars, hostVars, endVars>>

\* fail_stream: decoding or presenting cannot go on.
WorkerFails ==
  /\ worker \in {"waiting", "showing"}
  /\ terminated' = TRUE
  /\ error' = TRUE
  /\ worker' = "ended"
  /\ UNCHANGED <<pc, choiceVars, padVars, loadVars, screenVars, presented, memVars, connected,
                 hostVars, endVars>>

WorkerEnds ==
  /\ worker \in {"waiting", "showing"}
  /\ Stopping
  /\ worker' = "ended"
  /\ UNCHANGED <<pc, choiceVars, padVars, loadVars, screenVars, presented, memVars, linkVars,
                 hostVars, endVars>>

-----------------------------------------------------------------------------
Init ==
  /\ pc = "idle"
  /\ backend \in Backends
  /\ bar = FALSE
  /\ stop = FALSE /\ pad = FALSE
  /\ loading = NotWatching /\ watcher = "none" /\ http = FALSE /\ interrupted = FALSE
  /\ screen = "none" /\ active = FALSE /\ finish = FALSE
  /\ worker = "none" /\ presented = FALSE
  /\ surface = FALSE /\ frames = FALSE /\ display = FALSE /\ flip = "none"
  /\ terminated = FALSE /\ error = FALSE /\ connected = FALSE
  /\ started = FALSE /\ quitHost = FALSE /\ app = "none"
  /\ streamed = FALSE /\ noVideo = FALSE /\ failed = FALSE /\ report = "none"
  /\ faulted = FALSE

StopLoading ==
  \/ TellWatcher("stopSetup", "joinSetup") \/ JoinWatcher("joinSetup", "input")
  \/ TellWatcher("stopConnect", "joinConnect") \/ JoinWatcher("joinConnect", "connected")
  \/ TellWatcher("stopLoading", "joinLoading") \/ JoinWatcher("joinLoading", "tellScreen")

StopScreen ==
  \/ TellScreen("tellScreenHand", "joinScreenHand") \/ JoinScreen("joinScreenHand", "handOver")
  \/ TellScreen("tellScreen", "joinScreen") \/ JoinScreen("joinScreen", "clear")

\* What the main thread does without waiting for the player or the launcher.
MainStep ==
  \/ ScreenFails \/ FirstShowFails \/ ShowScreen \/ StartLoading
  \/ SetupFails \/ SetupDone \/ Check("checkSetup", "stopSetup") \/ StopLoading \/ TakePad
  \/ InitHttp \/ PrepareFails \/ QuitOther \/ Launch \/ Check("checkLaunch", "pend")
  \/ Pend \/ StopScreen \/ HandOver
  \/ ConnectBegins \/ RendererStarts \/ ConnectFails \/ ConnectReturns \/ Connected
  \/ LeaveStream \/ StopConnection \/ Report \/ ClearInterrupt \/ ClosePad \/ QuitApp
  \/ Retire \/ ReleaseMemory \/ Fault

WatcherStep == WatcherPolls \/ WatcherInterrupts \/ WatcherTells \/ WatcherEnds
ScreenStep == ScreenShows \/ ScreenSleeps \/ ScreenShowFails \/ ScreenLeaves
WorkerStep ==
  FirstPicture \/ WorkerJoinsScreen \/ WorkerShows \/ WorkerFails \/ WorkerEnds

Next ==
  \/ StartSession \/ MainStep \/ ConnectionEnds \/ PlayerStops \/ NoFirstPicture \/ AppChanges
  \/ WatcherStep \/ ScreenStep \/ WorkerStep

\* Every call the threads make returns; when a fade is due it comes to its end.
\* Nothing else has to happen: a picture need never come, nor the connection end.
Fairness ==
  /\ WF_vars(MainStep)
  /\ WF_vars(WatcherInterrupts \/ WatcherTells \/ WatcherEnds)
  /\ WF_vars(ScreenLeaves)
  /\ WF_vars(screen = "fade" /\ (ScreenShows \/ ScreenShowFails))
  /\ WF_vars(WorkerJoinsScreen)
  /\ WF_vars(WorkerEnds)

Spec == Init /\ [][Next]_vars /\ Fairness

-----------------------------------------------------------------------------
TypeOK ==
  /\ backend \in Backends
  /\ frames => backend = "native"
  /\ loading \in [active : BOOLEAN, cancel : BOOLEAN, timedOut : BOOLEAN, pending : BOOLEAN]
  /\ watcher \in {"none", "poll", "interrupt", "tell", "ended"}
  /\ screen \in {"none", "bar", "fade", "ended"}
  /\ worker \in {"none", "waiting", "finishing", "showing", "ended"}
  /\ flip \in {"none", "surface", "frame"}
  /\ app \in {"none", "other", "ours"}
  /\ report \in {"none", "timedOut", "noVideo", "lost", "notConnected"}
  /\ {bar, stop, pad, http, interrupted, active, finish, presented, surface, frames, display,
      terminated, error, connected, started, streamed, noVideo, quitHost, failed, faulted}
       \subseteq BOOLEAN

\* The AGC presenter has no lock: the main thread, the connecting screen and
\* the stream's worker present one after the other, never two at a time, and
\* PyroWave only once the display is closed.
OnePresenter ==
  /\ ~(ScreenPresents /\ worker = "showing")
  /\ ScreenPresents \/ worker = "showing" => pc \notin {"begin", "handOver", "retire"}
  /\ backend = "pyrowave" /\ worker # "none" => screen = "none" /\ ~display

\* Memory the GPU, the display or a thread may still read is held, in this
\* session and after it.
MemoryHeld ==
  /\ flip = "surface" \/ ScreenPresents => surface
  /\ flip = "frame" \/ (backend = "native" /\ worker # "none") => frames

\* A session returns with its threads joined, its controller closed and HTTP
\* usable, and its memory released unless the process streams no more.
ReturnsClean ==
  pc = "idle" =>
    /\ watcher = "none" /\ screen = "none" /\ worker = "none"
    /\ ~pad /\ ~http
    /\ faulted \/ (~surface /\ ~frames /\ ~display /\ flip = "none")

\* The request that quits the app is not cut off by the interrupt that ended
\* the setup.
QuitHeard == pc = "quit" => ~http

\* The controller's samples have one reader: the watcher has gone before the
\* stream reads them, and before the controller is closed.
PadReadByOne ==
  pad /\ watcher \notin {"none", "ended"} => pc \notin {"live", "leaving", "padDown"}

\* What a session may do with the display, its memory and its threads.
SessionOK == TypeOK /\ OnePresenter /\ MemoryHeld /\ ReturnsClean

\* The setup's watcher neither cuts off the request after it nor reads the pad
\* beside the stream.
WatcherOK == QuitHeard /\ PadReadByOne

\* Setting up and taking down come to an end, and so does a stream that the
\* player or the connection has ended: no thread waits for another for ever.
EndsWhenTold ==
  /\ pc \notin {"idle", "live"} ~> pc \in {"idle", "live"}
  /\ stop \/ (pc = "live" /\ terminated) ~> pc = "idle"

\* A first picture is not kept waiting for a connecting screen that stays.
FirstPictureShown == worker = "finishing" ~> worker # "finishing"

\* No thread of a session waits for another for ever.
SessionMoves == EndsWhenTold /\ FirstPictureShown

\* CONFIGURATION: the app is quit only when the player's setting says so.
QuitOnlyIfSet == [][pc = "quit" /\ app' # app => quitHost]_vars

\* moonlight_stream_run: a stream that ran and then lost its host is not
\* reported as a connection that never came about.
ReportTrue == report = "timedOut" => ~streamed
=============================================================================
