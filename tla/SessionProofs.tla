---------------------------- MODULE SessionProofs ----------------------------
(***************************************************************************)
(* One session after another presents with one thread at a time, holds     *)
(* what may still be read, and returns with its threads joined and its     *)
(* memory released, whichever of its exits it takes: moonlight_stream_run. *)
(* No step needs to know more than where the main thread is.               *)
(***************************************************************************)
EXTENDS Session, TLAPS

-----------------------------------------------------------------------------
(* Where the main thread is. *)

Looking == {"setup", "checkSetup", "stopSetup", "joinSetup"}
Asking == {"identity", "request", "checkLaunch", "pend"}
Handing == {"tellScreenHand", "joinScreenHand", "handOver"}
Linking == {"connect", "stages", "started", "unwind"}
Leading == {"stopConnect", "joinConnect", "connected"}
Streaming == {"live", "leaving"}
Ending == {"done", "stopLoading", "joinLoading", "tellScreen", "joinScreen"}
Quitting == {"clear", "padDown", "quit", "retire", "release", "fault"}

\* The watcher may run, the screen may, and the worker may.
Watched ==
  Looking \cup Asking \cup Handing \cup Linking
    \cup {"stopConnect", "joinConnect", "done", "stopLoading", "joinLoading"}
Shown ==
  {"watch", "input", "watchPad"} \cup Looking \cup Asking \cup {"tellScreenHand", "joinScreenHand"}
    \cup Linking \cup Leading \cup Streaming \cup Ending
Worked == {"started", "unwind"} \cup Leading \cup Streaming

\* The decoder's memory is there from the setup to the end of the stream.
Decoding ==
  {"checkSetup", "stopSetup", "joinSetup", "input", "watchPad"} \cup Asking \cup Linking
    \cup Leading \cup Streaming

PlaceInv ==
  /\ pc \in {"idle", "begin", "watch", "input", "watchPad"}
              \cup Looking \cup Asking \cup Handing \cup Linking \cup Leading \cup Streaming
              \cup Ending \cup Quitting
  /\ pc \in Handing => backend = "pyrowave"
  /\ pc = "checkSetup" => backend = "native"
  /\ pc = "leaving" => connected
  /\ pc = "live" => connected
  /\ faulted => pc = "idle"

\* A thread runs only between its start and its join.
ThreadsInv ==
  /\ watcher # "none" => pc \in Watched
  /\ screen # "none" => pc \in Shown
  /\ worker # "none" => pc \in Worked
  /\ worker = "showing" => screen = "none"
  /\ pc \in Leading /\ ~connected => worker = "none"
  /\ connected => pc \notin {"begin", "watch", "input", "watchPad"} \cup Looking \cup Asking
                             \cup Handing \cup Linking

\* PyroWave has the display to itself from the hand-over to the end.
PyroInv ==
  backend = "pyrowave" /\ pc \in Linking \cup Leading \cup Streaming =>
    screen = "none" /\ ~display /\ flip = "none"

\* Memory is taken before what reads it starts, and kept until that has ended.
MemoryInv ==
  /\ screen # "none" \/ flip = "surface" => surface
  /\ flip = "frame" => frames /\ pc \notin {"watch", "setup"}
  /\ backend = "native" /\ pc \in Decoding => frames
  /\ pc = "release" => flip = "none" /\ ~display
  /\ pc \in {"idle", "begin"} /\ ~faulted => ~surface /\ ~frames /\ ~display /\ flip = "none"

\* The controller and HTTP are as the session found them once it has let go.
LeftInv ==
  /\ pc \in {"padDown", "quit", "retire", "release", "fault", "idle", "begin"} => ~http
  /\ pc \in {"quit", "retire", "release", "fault", "idle", "begin"} => ~pad

ControlInv == PlaceInv /\ ThreadsInv /\ PyroInv /\ MemoryInv /\ LeftInv

\* TypeOK, switch by switch.
Loadings == [active : BOOLEAN, cancel : BOOLEAN, timedOut : BOOLEAN, pending : BOOLEAN]
SwitchesInv ==
  /\ bar \in BOOLEAN /\ stop \in BOOLEAN /\ pad \in BOOLEAN /\ http \in BOOLEAN
  /\ interrupted \in BOOLEAN /\ active \in BOOLEAN /\ finish \in BOOLEAN /\ presented \in BOOLEAN
  /\ surface \in BOOLEAN /\ frames \in BOOLEAN /\ display \in BOOLEAN /\ terminated \in BOOLEAN
  /\ error \in BOOLEAN /\ connected \in BOOLEAN /\ started \in BOOLEAN /\ streamed \in BOOLEAN
  /\ noVideo \in BOOLEAN /\ quitHost \in BOOLEAN /\ failed \in BOOLEAN /\ faulted \in BOOLEAN
KindsInv ==
  /\ backend \in Backends
  /\ frames => backend = "native"
  /\ watcher \in {"none", "poll", "interrupt", "tell", "ended"}
  /\ screen \in {"none", "bar", "fade", "ended"}
  /\ worker \in {"none", "waiting", "finishing", "showing", "ended"}
  /\ flip \in {"none", "surface", "frame"}
  /\ app \in {"none", "other", "ours"}
  /\ report \in {"none", "timedOut", "noVideo", "lost", "notConnected"}
TypesInv == SwitchesInv /\ KindsInv /\ loading \in Loadings

SessionInv == TypesInv /\ ControlInv

LEMMA Typed == TypesInv => TypeOK
  BY DEF TypesInv, SwitchesInv, KindsInv, Loadings, TypeOK

-----------------------------------------------------------------------------
(* The types. *)

LEMMA LoadingFits ==
  ASSUME NEW l \in Loadings, NEW b \in BOOLEAN, NEW c \in BOOLEAN
  PROVE  /\ [l EXCEPT !.active = b] \in Loadings /\ [l EXCEPT !.pending = b] \in Loadings
         /\ [l EXCEPT !.cancel = b, !.timedOut = c] \in Loadings
         /\ l.cancel \in BOOLEAN /\ l.timedOut \in BOOLEAN
  BY DEF Loadings

\* A switch is set, cleared or left alone.
LEMMA SwitchesKept == ASSUME TypesInv, [Next]_vars PROVE SwitchesInv'
<1> USE DEF vars, choiceVars, padVars, loadVars, screenVars, workerVars, memVars,
           linkVars, hostVars, endVars
<1> USE DEF TypesInv, SwitchesInv
<1>1. CASE StartLoading
  <2>1. failed' \in BOOLEAN
    BY <1>1 DEF StartLoading
  <2> QED
    BY <1>1, <2>1 DEF StartLoading
<1>2. CASE TakePad
  <2>1. pad' \in BOOLEAN /\ failed' \in BOOLEAN
    BY <1>2 DEF TakePad
  <2> QED
    BY <1>2, <2>1 DEF TakePad
<1>3. CASE InitHttp
  <2>1. http' \in BOOLEAN
    BY <1>3 DEF InitHttp
  <2> QED
    BY <1>3, <2>1 DEF InitHttp
<1>4. CASE Pend
  <2>1. terminated' \in BOOLEAN /\ error' \in BOOLEAN
    BY <1>4 DEF Pend
  <2> QED
    BY <1>4, <2>1 DEF Pend
<1>5. CASE TellScreen("tellScreenHand", "joinScreenHand") \/ TellScreen("tellScreen", "joinScreen")
  <2>1. active' \in BOOLEAN
    BY <1>5 DEF TellScreen
  <2> QED
    BY <1>5, <2>1 DEF TellScreen
<1>6. CASE HandOver
  <2>1. display' \in BOOLEAN /\ surface' \in BOOLEAN /\ failed' \in BOOLEAN
    BY <1>6 DEF HandOver
  <2> QED
    BY <1>6, <2>1 DEF HandOver
<1>7. CASE ConnectBegins
  <2>1. interrupted' \in BOOLEAN
    BY <1>7 DEF ConnectBegins
  <2> QED
    BY <1>7, <2>1 DEF ConnectBegins
<1>8. CASE RendererStarts
  <2>1. terminated' \in BOOLEAN /\ error' \in BOOLEAN
    BY <1>8 DEF RendererStarts
  <2> QED
    BY <1>8, <2>1 DEF RendererStarts
<1>9. CASE ConnectReturns
  <2>1. connected' \in BOOLEAN
    BY <1>9 DEF ConnectReturns
  <2> QED
    BY <1>9, <2>1 DEF ConnectReturns
<1>10. CASE ClearInterrupt
  <2>1. http' \in BOOLEAN
    BY <1>10 DEF ClearInterrupt
  <2> QED
    BY <1>10, <2>1 DEF ClearInterrupt
<1>11. CASE ClosePad
  <2>1. pad' \in BOOLEAN
    BY <1>11 DEF ClosePad
  <2> QED
    BY <1>11, <2>1 DEF ClosePad
<1>12. CASE ReleaseMemory
  <2>1. surface' \in BOOLEAN /\ frames' \in BOOLEAN
    BY <1>12 DEF ReleaseMemory
  <2> QED
    BY <1>12, <2>1 DEF ReleaseMemory
<1>13. CASE WatcherPolls
  <2>1. stop' \in BOOLEAN
    BY <1>13 DEF WatcherPolls
  <2> QED
    BY <1>13, <2>1 DEF WatcherPolls
<1>14. CASE Check("checkSetup", "stopSetup") \/ Check("checkLaunch", "pend")
  <2>1. failed' \in BOOLEAN
    BY <1>14 DEF Check
  <2> QED
    BY <1>14, <2>1 DEF Check
<1>15. CASE StartSession
  BY <1>15 DEF StartSession
<1>16. CASE ScreenFails
  BY <1>16 DEF ScreenFails
<1>17. CASE FirstShowFails
  BY <1>17 DEF FirstShowFails
<1>18. CASE ShowScreen
  BY <1>18 DEF ShowScreen
<1>19. CASE SetupFails
  BY <1>19 DEF SetupFails
<1>20. CASE SetupDone
  BY <1>20 DEF SetupDone
<1>21. CASE \/ TellWatcher("stopSetup", "joinSetup")
           \/ TellWatcher("stopConnect", "joinConnect")
           \/ TellWatcher("stopLoading", "joinLoading")
  BY <1>21 DEF TellWatcher
<1>22. CASE \/ JoinWatcher("joinSetup", "input") \/ JoinWatcher("joinConnect", "connected")
           \/ JoinWatcher("joinLoading", "tellScreen")
  BY <1>22 DEF JoinWatcher
<1>23. CASE JoinScreen("joinScreenHand", "handOver") \/ JoinScreen("joinScreen", "clear")
  BY <1>23 DEF JoinScreen
<1>24. CASE PrepareFails
  BY <1>24 DEF PrepareFails
<1>25. CASE QuitOther
  BY <1>25 DEF QuitOther
<1>26. CASE Launch
  BY <1>26 DEF Launch
<1>27. CASE ConnectFails
  BY <1>27 DEF ConnectFails
<1>28. CASE Connected
  BY <1>28 DEF Connected
<1>29. CASE ConnectionEnds
  BY <1>29 DEF ConnectionEnds
<1>30. CASE PlayerStops
  BY <1>30 DEF PlayerStops
<1>31. CASE NoFirstPicture
  BY <1>31 DEF NoFirstPicture
<1>32. CASE LeaveStream
  BY <1>32 DEF LeaveStream
<1>33. CASE StopConnection
  BY <1>33 DEF StopConnection
<1>34. CASE Report
  BY <1>34 DEF Report
<1>35. CASE QuitApp
  BY <1>35 DEF QuitApp
<1>36. CASE Retire
  BY <1>36 DEF Retire
<1>37. CASE Fault
  BY <1>37 DEF Fault
<1>38. CASE AppChanges
  BY <1>38 DEF AppChanges
<1>39. CASE WatcherInterrupts
  BY <1>39 DEF WatcherInterrupts
<1>40. CASE WatcherTells
  BY <1>40 DEF WatcherTells
<1>41. CASE WatcherEnds
  BY <1>41 DEF WatcherEnds
<1>42. CASE ScreenShows \/ ScreenSleeps \/ ScreenShowFails \/ ScreenLeaves
  BY <1>42 DEF ScreenShows, ScreenSleeps, ScreenShowFails, ScreenLeaves, ScreenPresents
<1>43. CASE FirstPicture
  BY <1>43 DEF FirstPicture
<1>44. CASE WorkerJoinsScreen
  BY <1>44 DEF WorkerJoinsScreen
<1>45. CASE WorkerShows
  BY <1>45 DEF WorkerShows
<1>46. CASE WorkerFails
  BY <1>46 DEF WorkerFails
<1>47. CASE WorkerEnds
  BY <1>47 DEF WorkerEnds
<1>48. CASE UNCHANGED vars
  BY <1>48
<1> QED
  BY <1>1, <1>2, <1>3, <1>4, <1>5, <1>6, <1>7, <1>8, <1>9, <1>10, <1>11, <1>12, <1>13,
    <1>14, <1>15, <1>16, <1>17, <1>18, <1>19, <1>20, <1>21, <1>22, <1>23, <1>24, <1>25, <1>26,
    <1>27, <1>28, <1>29, <1>30, <1>31, <1>32, <1>33, <1>34, <1>35, <1>36, <1>37, <1>38, <1>39,
    <1>40, <1>41, <1>42, <1>43, <1>44, <1>45, <1>46, <1>47, <1>48 DEF Next, MainStep,
      StopLoading, StopScreen, WatcherStep, ScreenStep,
    WorkerStep

\* So do the kinds.
LEMMA KindsKept == ASSUME SessionInv, [Next]_vars PROVE KindsInv'
<1> USE DEF vars, choiceVars, padVars, loadVars, screenVars, workerVars, memVars,
           linkVars, hostVars, endVars
<1> USE DEF SessionInv, TypesInv, SwitchesInv, KindsInv
<1>1. CASE StartSession
  <2>1. ~frames
    BY <1>1 DEF StartSession, ControlInv, MemoryInv
  <2> QED
    BY <1>1, <2>1 DEF StartSession
<1>2. CASE ScreenFails \/ FirstShowFails \/ ShowScreen
  BY <1>2 DEF ScreenFails, FirstShowFails, ShowScreen
<1>3. CASE StartLoading \/ TakePad
  BY <1>3 DEF StartLoading, TakePad
<1>4. CASE SetupFails \/ SetupDone
  BY <1>4 DEF SetupFails, SetupDone
<1>5. CASE Check("checkSetup", "stopSetup")
  BY <1>5 DEF Check
<1>6. CASE \/ InitHttp \/ PrepareFails \/ QuitOther \/ Launch \/ Check("checkLaunch", "pend")
           \/ Pend
  BY <1>6 DEF InitHttp, PrepareFails, QuitOther, Launch, Check, Pend
<1>7. CASE \/ TellWatcher("stopSetup", "joinSetup") \/ JoinWatcher("joinSetup", "input")
           \/ TellWatcher("stopConnect", "joinConnect")
           \/ JoinWatcher("joinConnect", "connected")
           \/ TellWatcher("stopLoading", "joinLoading")
           \/ JoinWatcher("joinLoading", "tellScreen")
  BY <1>7 DEF TellWatcher, JoinWatcher
<1>8. CASE \/ TellScreen("tellScreenHand", "joinScreenHand")
           \/ JoinScreen("joinScreenHand", "handOver")
           \/ TellScreen("tellScreen", "joinScreen") \/ JoinScreen("joinScreen", "clear")
  BY <1>8 DEF TellScreen, JoinScreen
<1>9. CASE \/ HandOver \/ ConnectBegins \/ RendererStarts \/ ConnectFails \/ ConnectReturns
           \/ Connected \/ ConnectionEnds
  BY <1>9 DEF HandOver, ConnectBegins, RendererStarts, ConnectFails, ConnectReturns,
    Connected, ConnectionEnds
<1>10. CASE PlayerStops \/ NoFirstPicture \/ LeaveStream \/ StopConnection
  BY <1>10 DEF PlayerStops, NoFirstPicture, LeaveStream, StopConnection
<1>11. CASE \/ Report \/ ClearInterrupt \/ ClosePad \/ QuitApp \/ Retire \/ ReleaseMemory
           \/ Fault \/ AppChanges
  BY <1>11 DEF Report, ClearInterrupt, ClosePad, QuitApp, Retire, ReleaseMemory, Fault,
    AppChanges
<1>12. CASE WatcherPolls
  <2>1. watcher' \in {"interrupt", "poll"}
    BY <1>12 DEF WatcherPolls
  <2> QED
    BY <1>12, <2>1 DEF WatcherPolls
<1>13. CASE WatcherInterrupts \/ WatcherTells \/ WatcherEnds
  BY <1>13 DEF WatcherInterrupts, WatcherTells, WatcherEnds
<1>14. CASE ScreenShows \/ ScreenSleeps \/ ScreenShowFails \/ ScreenLeaves
  BY <1>14 DEF ScreenShows, ScreenSleeps, ScreenShowFails, ScreenLeaves
<1>15. CASE FirstPicture \/ WorkerJoinsScreen \/ WorkerShows \/ WorkerFails \/ WorkerEnds
  BY <1>15 DEF FirstPicture, WorkerJoinsScreen, WorkerShows, WorkerFails, WorkerEnds
<1>16. CASE UNCHANGED vars
  BY <1>16
<1> QED
  BY <1>1, <1>2, <1>3, <1>4, <1>5, <1>6, <1>7, <1>8, <1>9, <1>10, <1>11, <1>12, <1>13,
    <1>14, <1>15, <1>16 DEF Next, MainStep, StopLoading, StopScreen, WatcherStep, ScreenStep,
    WorkerStep

\* Nothing but the watcher and the main thread that starts, joins and asks it
\* changes what the two share.
LEMMA LoadingKept == ASSUME TypesInv, [Next]_vars PROVE loading' \in Loadings
<1> USE DEF vars, loadVars, TypesInv, SwitchesInv
<1>1. NotWatching \in Loadings
  BY DEF NotWatching, Loadings
<1>2. CASE StartSession \/ StartLoading
  <2>1. loading' \in {NotWatching, [NotWatching EXCEPT !.active = TRUE]}
    BY <1>2 DEF StartSession, StartLoading
  <2> QED
    BY <1>1, <2>1, LoadingFits
<1>3. CASE \/ TellWatcher("stopSetup", "joinSetup") \/ TellWatcher("stopConnect", "joinConnect")
           \/ TellWatcher("stopLoading", "joinLoading") \/ WatcherTells
  <2>1. loading' = [loading EXCEPT !.active = FALSE]
    BY <1>3 DEF TellWatcher, WatcherTells
  <2> QED
    BY <2>1, LoadingFits
<1>4. CASE Pend \/ ConnectReturns
  <2>1. \E b \in BOOLEAN : loading' = [loading EXCEPT !.pending = b]
    BY <1>4 DEF Pend, ConnectReturns
  <2> QED
    BY <2>1, LoadingFits
<1>5. CASE WatcherPolls
  <2>1. PICK chord \in {FALSE, pad}, late \in BOOLEAN :
          loading' = [loading EXCEPT !.cancel = (loading.cancel \/ stop \/ chord \/ late),
                                     !.timedOut = @ \/ late]
    BY <1>5 DEF WatcherPolls
  <2>2. loading' = [loading EXCEPT !.cancel = (loading.cancel \/ stop \/ chord \/ late),
                                   !.timedOut = (loading.timedOut \/ late)]
    BY <2>1
  <2> QED
    BY <2>2, LoadingFits
<1>6. CASE \/ ScreenFails \/ FirstShowFails \/ ShowScreen \/ SetupFails \/ SetupDone
           \/ Check("checkSetup", "stopSetup") \/ TakePad
  BY <1>6 DEF ScreenFails, FirstShowFails, ShowScreen, SetupFails, SetupDone, Check, TakePad
<1>7. CASE InitHttp \/ PrepareFails \/ QuitOther \/ Launch \/ Check("checkLaunch", "pend")
  BY <1>7 DEF InitHttp, PrepareFails, QuitOther, Launch, Check
<1>8. CASE \/ JoinWatcher("joinSetup", "input") \/ JoinWatcher("joinConnect", "connected")
           \/ JoinWatcher("joinLoading", "tellScreen")
  BY <1>8 DEF JoinWatcher
<1>9. CASE \/ TellScreen("tellScreenHand", "joinScreenHand")
           \/ JoinScreen("joinScreenHand", "handOver")
           \/ TellScreen("tellScreen", "joinScreen") \/ JoinScreen("joinScreen", "clear")
  BY <1>9 DEF TellScreen, JoinScreen
<1>10. CASE \/ HandOver \/ ConnectBegins \/ RendererStarts \/ ConnectFails \/ Connected
           \/ ConnectionEnds
  BY <1>10 DEF HandOver, ConnectBegins, RendererStarts, ConnectFails, Connected, ConnectionEnds
<1>11. CASE PlayerStops \/ NoFirstPicture \/ LeaveStream \/ StopConnection
  BY <1>11 DEF PlayerStops, NoFirstPicture, LeaveStream, StopConnection
<1>12. CASE \/ Report \/ ClearInterrupt \/ ClosePad \/ QuitApp \/ Retire \/ ReleaseMemory
           \/ Fault \/ AppChanges
  BY <1>12 DEF Report, ClearInterrupt, ClosePad, QuitApp, Retire, ReleaseMemory, Fault,
    AppChanges
<1>13. CASE WatcherInterrupts \/ WatcherEnds
  BY <1>13 DEF WatcherInterrupts, WatcherEnds
<1>14. CASE ScreenShows \/ ScreenSleeps \/ ScreenShowFails \/ ScreenLeaves
  BY <1>14 DEF ScreenShows, ScreenSleeps, ScreenShowFails, ScreenLeaves
<1>15. CASE FirstPicture \/ WorkerJoinsScreen \/ WorkerShows \/ WorkerFails \/ WorkerEnds
  BY <1>15 DEF FirstPicture, WorkerJoinsScreen, WorkerShows, WorkerFails, WorkerEnds
<1>16. CASE UNCHANGED vars
  BY <1>16
<1> QED
  BY <1>2, <1>3, <1>4, <1>5, <1>6, <1>7, <1>8, <1>9, <1>10, <1>11, <1>12, <1>13, <1>14,
    <1>15, <1>16 DEF Next, MainStep, StopLoading, StopScreen, WatcherStep, ScreenStep,
    WorkerStep

-----------------------------------------------------------------------------
(* The control, by what the threads do. *)

\* The connecting screen, the watcher's start, the decoder and the controller.
LEMMA SetUpSteps ==
  ASSUME SessionInv,
         \/ StartSession \/ ScreenFails \/ FirstShowFails \/ ShowScreen \/ StartLoading
         \/ SetupFails \/ SetupDone \/ Check("checkSetup", "stopSetup") \/ TakePad
  PROVE  ControlInv'
<1> USE DEF vars, choiceVars, padVars, loadVars, screenVars, workerVars, memVars,
           linkVars, hostVars, endVars
<1> USE DEF SessionInv, ControlInv, TypesInv, KindsInv, PlaceInv, ThreadsInv, PyroInv,
           MemoryInv, LeftInv, Looking, Asking, Handing, Linking, Leading, Streaming, Ending,
           Quitting, Watched, Shown, Worked, Decoding
<1>1. CASE StartSession
  BY <1>1 DEF StartSession
<1>2. CASE ScreenFails
  BY <1>2 DEF ScreenFails
<1>3. CASE FirstShowFails
  BY <1>3 DEF FirstShowFails
<1>4. CASE ShowScreen
  BY <1>4 DEF ShowScreen
<1>5. CASE StartLoading
  BY <1>5 DEF StartLoading
<1>6. CASE SetupFails
  BY <1>6 DEF SetupFails
<1>7. CASE SetupDone
  BY <1>7 DEF SetupDone
<1>8. CASE Check("checkSetup", "stopSetup")
  BY <1>8 DEF Check
<1>9. CASE TakePad
  BY <1>9 DEF TakePad
<1> QED
  BY <1>1, <1>2, <1>3, <1>4, <1>5, <1>6, <1>7, <1>8, <1>9

\* The PC is asked.
LEMMA AskSteps ==
  ASSUME SessionInv,
         \/ InitHttp \/ PrepareFails \/ QuitOther \/ Launch
         \/ Check("checkLaunch", "pend") \/ Pend
  PROVE  ControlInv'
<1> USE DEF vars, choiceVars, padVars, loadVars, screenVars, workerVars, memVars,
           linkVars, hostVars, endVars
<1> USE DEF SessionInv, ControlInv, TypesInv, KindsInv, PlaceInv, ThreadsInv, PyroInv,
           MemoryInv, LeftInv, Looking, Asking, Handing, Linking, Leading, Streaming, Ending,
           Quitting, Watched, Shown, Worked, Decoding
<1>1. CASE InitHttp
  BY <1>1 DEF InitHttp
<1>2. CASE PrepareFails
  BY <1>2 DEF PrepareFails
<1>3. CASE QuitOther
  BY <1>3 DEF QuitOther
<1>4. CASE Launch
  BY <1>4 DEF Launch
<1>5. CASE Check("checkLaunch", "pend")
  BY <1>5 DEF Check
<1>6. CASE Pend
  BY <1>6 DEF Pend
<1> QED
  BY <1>1, <1>2, <1>3, <1>4, <1>5, <1>6

\* The watcher is told to end and joined, from each of the three places.
LEMMA WatcherJoins ==
  ASSUME SessionInv,
         \/ TellWatcher("stopSetup", "joinSetup") \/ JoinWatcher("joinSetup", "input")
         \/ TellWatcher("stopConnect", "joinConnect")
         \/ JoinWatcher("joinConnect", "connected")
         \/ TellWatcher("stopLoading", "joinLoading")
         \/ JoinWatcher("joinLoading", "tellScreen")
  PROVE  ControlInv'
<1> USE DEF vars, choiceVars, padVars, loadVars, screenVars, workerVars, memVars,
           linkVars, hostVars, endVars
<1> USE DEF SessionInv, ControlInv, TypesInv, KindsInv, PlaceInv, ThreadsInv, PyroInv,
           MemoryInv, LeftInv, Looking, Asking, Handing, Linking, Leading, Streaming, Ending,
           Quitting, Watched, Shown, Worked, Decoding
<1>1. CASE TellWatcher("stopSetup", "joinSetup")
  BY <1>1 DEF TellWatcher
<1>2. CASE JoinWatcher("joinSetup", "input")
  BY <1>2 DEF JoinWatcher
<1>3. CASE TellWatcher("stopConnect", "joinConnect")
  BY <1>3 DEF TellWatcher
<1>4. CASE JoinWatcher("joinConnect", "connected")
  BY <1>4 DEF JoinWatcher
<1>5. CASE TellWatcher("stopLoading", "joinLoading")
  BY <1>5 DEF TellWatcher
<1>6. CASE JoinWatcher("joinLoading", "tellScreen")
  BY <1>6 DEF JoinWatcher
<1> QED
  BY <1>1, <1>2, <1>3, <1>4, <1>5, <1>6

\* The connecting screen is, from each of the two.
LEMMA ScreenJoins ==
  ASSUME SessionInv,
         \/ TellScreen("tellScreenHand", "joinScreenHand")
         \/ JoinScreen("joinScreenHand", "handOver")
         \/ TellScreen("tellScreen", "joinScreen") \/ JoinScreen("joinScreen", "clear")
  PROVE  ControlInv'
<1> USE DEF vars, choiceVars, padVars, loadVars, screenVars, workerVars, memVars,
           linkVars, hostVars, endVars
<1> USE DEF SessionInv, ControlInv, TypesInv, KindsInv, PlaceInv, ThreadsInv, PyroInv,
           MemoryInv, LeftInv, Looking, Asking, Handing, Linking, Leading, Streaming, Ending,
           Quitting, Watched, Shown, Worked, Decoding
<1>1. CASE TellScreen("tellScreenHand", "joinScreenHand")
  BY <1>1 DEF TellScreen
<1>2. CASE JoinScreen("joinScreenHand", "handOver")
  BY <1>2 DEF JoinScreen
<1>3. CASE TellScreen("tellScreen", "joinScreen")
  BY <1>3 DEF TellScreen
<1>4. CASE JoinScreen("joinScreen", "clear")
  BY <1>4 DEF JoinScreen
<1> QED
  BY <1>1, <1>2, <1>3, <1>4

\* The hand-over to PyroWave and LiStartConnection.
LEMMA LinkSteps ==
  ASSUME SessionInv,
         \/ HandOver \/ ConnectBegins \/ RendererStarts \/ ConnectFails \/ ConnectReturns
         \/ Connected \/ ConnectionEnds
  PROVE  ControlInv'
<1> USE DEF vars, choiceVars, padVars, loadVars, screenVars, workerVars, memVars,
           linkVars, hostVars, endVars
<1> USE DEF SessionInv, ControlInv, TypesInv, KindsInv, PlaceInv, ThreadsInv, PyroInv,
           MemoryInv, LeftInv, Looking, Asking, Handing, Linking, Leading, Streaming, Ending,
           Quitting, Watched, Shown, Worked, Decoding
<1>1. CASE HandOver
  BY <1>1 DEF HandOver
<1>2. CASE ConnectBegins
  BY <1>2 DEF ConnectBegins
<1>3. CASE RendererStarts
  BY <1>3 DEF RendererStarts
<1>4. CASE ConnectFails
  BY <1>4 DEF ConnectFails
<1>5. CASE ConnectReturns
  BY <1>5 DEF ConnectReturns
<1>6. CASE Connected
  BY <1>6 DEF Connected
<1>7. CASE ConnectionEnds
  BY <1>7 DEF ConnectionEnds
<1> QED
  BY <1>1, <1>2, <1>3, <1>4, <1>5, <1>6, <1>7

\* The stream.
LEMMA StreamSteps ==
  ASSUME SessionInv,
         \/ PlayerStops \/ NoFirstPicture \/ LeaveStream \/ StopConnection
  PROVE  ControlInv'
<1> USE DEF vars, choiceVars, padVars, loadVars, screenVars, workerVars, memVars,
           linkVars, hostVars, endVars
<1> USE DEF SessionInv, ControlInv, TypesInv, KindsInv, PlaceInv, ThreadsInv, PyroInv,
           MemoryInv, LeftInv, Looking, Asking, Handing, Linking, Leading, Streaming, Ending,
           Quitting, Watched, Shown, Worked, Decoding
<1>1. CASE PlayerStops
  BY <1>1 DEF PlayerStops
<1>2. CASE NoFirstPicture
  BY <1>2 DEF NoFirstPicture
<1>3. CASE LeaveStream
  BY <1>3 DEF LeaveStream
<1>4. CASE StopConnection
  BY <1>4 DEF StopConnection
<1> QED
  BY <1>1, <1>2, <1>3, <1>4

\* The end, and between two sessions.
LEMMA EndSteps ==
  ASSUME SessionInv,
         \/ Report \/ ClearInterrupt \/ ClosePad \/ QuitApp \/ Retire \/ ReleaseMemory
         \/ Fault \/ AppChanges
  PROVE  ControlInv'
<1> USE DEF vars, choiceVars, padVars, loadVars, screenVars, workerVars, memVars,
           linkVars, hostVars, endVars
<1> USE DEF SessionInv, ControlInv, TypesInv, KindsInv, PlaceInv, ThreadsInv, PyroInv,
           MemoryInv, LeftInv, Looking, Asking, Handing, Linking, Leading, Streaming, Ending,
           Quitting, Watched, Shown, Worked, Decoding
<1>1. CASE Report
  BY <1>1 DEF Report
<1>2. CASE ClearInterrupt
  BY <1>2 DEF ClearInterrupt
<1>3. CASE ClosePad
  BY <1>3 DEF ClosePad
<1>4. CASE QuitApp
  BY <1>4 DEF QuitApp
<1>5. CASE Retire
  BY <1>5 DEF Retire
<1>6. CASE ReleaseMemory
  BY <1>6 DEF ReleaseMemory
<1>7. CASE Fault
  BY <1>7 DEF Fault
<1>8. CASE AppChanges
  BY <1>8 DEF AppChanges
<1> QED
  BY <1>1, <1>2, <1>3, <1>4, <1>5, <1>6, <1>7, <1>8

\* The watcher.
LEMMA WatcherSteps ==
  ASSUME SessionInv,
         \/ WatcherPolls \/ WatcherInterrupts \/ WatcherTells \/ WatcherEnds
  PROVE  ControlInv'
<1> USE DEF vars, choiceVars, padVars, loadVars, screenVars, workerVars, memVars,
           linkVars, hostVars, endVars
<1> USE DEF SessionInv, ControlInv, TypesInv, KindsInv, PlaceInv, ThreadsInv, PyroInv,
           MemoryInv, LeftInv, Looking, Asking, Handing, Linking, Leading, Streaming, Ending,
           Quitting, Watched, Shown, Worked, Decoding
<1>1. CASE WatcherPolls
  <2>1. watcher # "none" /\ UNCHANGED <<pc, backend, connected, faulted, screen, worker>>
    BY <1>1 DEF WatcherPolls
  <2>2. UNCHANGED <<http, pad, surface, frames, display, flip>>
    BY <1>1 DEF WatcherPolls
  <2> QED
    BY <2>1, <2>2
<1>2. CASE WatcherInterrupts
  BY <1>2 DEF WatcherInterrupts
<1>3. CASE WatcherTells
  BY <1>3 DEF WatcherTells
<1>4. CASE WatcherEnds
  BY <1>4 DEF WatcherEnds
<1> QED
  BY <1>1, <1>2, <1>3, <1>4

\* The connecting screen's thread.
LEMMA ScreenSteps ==
  ASSUME SessionInv,
         \/ ScreenShows \/ ScreenSleeps \/ ScreenShowFails \/ ScreenLeaves
  PROVE  ControlInv'
<1> USE DEF vars, choiceVars, padVars, loadVars, screenVars, workerVars, memVars,
           linkVars, hostVars, endVars
<1> USE DEF SessionInv, ControlInv, TypesInv, KindsInv, PlaceInv, ThreadsInv, PyroInv,
           MemoryInv, LeftInv, Looking, Asking, Handing, Linking, Leading, Streaming, Ending,
           Quitting, Watched, Shown, Worked, Decoding
<1>1. CASE ScreenShows
  BY <1>1 DEF ScreenShows, ScreenPresents, BarEnds
<1>2. CASE ScreenSleeps
  BY <1>2 DEF ScreenSleeps
<1>3. CASE ScreenShowFails
  BY <1>3 DEF ScreenShowFails, ScreenPresents
<1>4. CASE ScreenLeaves
  BY <1>4 DEF ScreenLeaves, BarEnds
<1> QED
  BY <1>1, <1>2, <1>3, <1>4

\* The presentation worker.
LEMMA WorkerSteps ==
  ASSUME SessionInv,
         \/ FirstPicture \/ WorkerJoinsScreen \/ WorkerShows \/ WorkerFails \/ WorkerEnds
  PROVE  ControlInv'
<1> USE DEF vars, choiceVars, padVars, loadVars, screenVars, workerVars, memVars,
           linkVars, hostVars, endVars
<1> USE DEF SessionInv, ControlInv, TypesInv, KindsInv, PlaceInv, ThreadsInv, PyroInv,
           MemoryInv, LeftInv, Looking, Asking, Handing, Linking, Leading, Streaming, Ending,
           Quitting, Watched, Shown, Worked, Decoding
<1>1. CASE FirstPicture
  BY <1>1 DEF FirstPicture, Stopping
<1>2. CASE WorkerJoinsScreen
  BY <1>2 DEF WorkerJoinsScreen
<1>3. CASE WorkerShows
  BY <1>3 DEF WorkerShows
<1>4. CASE WorkerFails
  BY <1>4 DEF WorkerFails
<1>5. CASE WorkerEnds
  BY <1>5 DEF WorkerEnds, Stopping
<1> QED
  BY <1>1, <1>2, <1>3, <1>4, <1>5

-----------------------------------------------------------------------------
(* The theorems. *)

LEMMA SessionInvInit == Init => SessionInv
<1> SUFFICES ASSUME Init PROVE SessionInv
  OBVIOUS
<1>1. TypesInv
  BY DEF Init, TypesInv, SwitchesInv, KindsInv, Loadings, NotWatching
<1>2. ControlInv
  BY DEF Init, ControlInv, PlaceInv, ThreadsInv, PyroInv, MemoryInv, LeftInv, Looking, Asking,
    Handing, Linking, Leading, Streaming, Ending, Quitting, Decoding
<1> QED
  BY <1>1, <1>2 DEF SessionInv

LEMMA SessionInvStep == SessionInv /\ [Next]_vars => SessionInv'
<1> SUFFICES ASSUME SessionInv, [Next]_vars PROVE SessionInv'
  OBVIOUS
<1>1. TypesInv'
  BY SwitchesKept, KindsKept, LoadingKept DEF SessionInv, TypesInv
<1>2. ControlInv'
  <2>1. CASE UNCHANGED vars
    BY <2>1 DEF vars, choiceVars, padVars, loadVars, screenVars, workerVars, memVars, linkVars,
      hostVars, endVars, SessionInv, ControlInv, PlaceInv, ThreadsInv, PyroInv, MemoryInv, LeftInv
  <2>2. CASE Next
    BY <2>2, SetUpSteps, AskSteps, WatcherJoins, ScreenJoins, LinkSteps, StreamSteps, EndSteps,
      WatcherSteps, ScreenSteps, WorkerSteps
      DEF Next, MainStep, StopLoading, StopScreen, WatcherStep, ScreenStep, WorkerStep
  <2> QED
    BY <2>1, <2>2
<1> QED
  BY <1>1, <1>2 DEF SessionInv

\* One thread at a time presents; what the GPU, the display or a thread may
\* still read is held; and a session returns with its threads joined and its
\* memory released, by every exit and on every failure of moonlight_stream_run.
THEOREM SessionSafe == Spec => []SessionOK
<1>1. SessionInv => SessionOK
  <2> SUFFICES ASSUME SessionInv PROVE SessionOK
    OBVIOUS
  <2>1. TypeOK
    BY Typed DEF SessionInv
  <2>2. OnePresenter /\ MemoryHeld /\ ReturnsClean
    BY DEF SessionInv, TypesInv, KindsInv, ControlInv, PlaceInv, ThreadsInv, PyroInv, MemoryInv,
      LeftInv, OnePresenter, MemoryHeld, ReturnsClean, ScreenPresents, Looking, Asking, Handing,
      Linking, Leading, Streaming, Ending, Watched, Shown, Worked, Decoding
  <2> QED
    BY <2>1, <2>2 DEF SessionOK
<1> QED
  BY <1>1, SessionInvInit, SessionInvStep, PTL DEF Spec

\* The watcher of the setup has ended, and its interrupt is taken back, before
\* the PC is asked to quit the app and before another thread reads the
\* controller: stop_connection_loading and http_clear_interrupt.
THEOREM WatcherGone == Spec => []WatcherOK
<1>1. SessionInv => WatcherOK
  BY DEF SessionInv, ControlInv, ThreadsInv, LeftInv, WatcherOK, QuitHeard, PadReadByOne,
    Watched, Looking, Asking, Handing, Linking
<1> QED
  BY <1>1, SessionInvInit, SessionInvStep, PTL DEF Spec
==============================================================================
