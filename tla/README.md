# ProsperoLight in TLA+

ProsperoLight is a Moonlight game-streaming client for the PS5. This directory
holds TLA+ models of the parts of it where threads, retries, failures and the
order of events decide whether it works, the TLC configurations that check them
on small instances, and TLAPS proofs, for every size, of the most important
properties of the picture pipeline, the stream session, the launcher, the pads,
the PyroWave back end, what the player hears and sees, the settings and files
that outlive the program, what its GameStream client tells and its search for
PCs.

Paths below are relative to the program's code (`src/main.cpp` is its main
file); in `PROJECT.json` every path starts with `src/` for the repository
itself, so the same file is `src/src/main.cpp` there. MS stands for
`src/moonlight_stream.cpp`, LM for `src/launcher/launcher_model.cpp`, AGC for
`src/native_agc_present.cpp`.

Contents: 1 the system, 2 the modules, 3 the runs with their bounds and their
fairness, 4 the findings, 5 the proofs, 6 what is not modelled, 7 what comes
next, 8 how to run it.

## 1. The system

    launcher (view + model) ──── configuration file, identity files
       │  one worker thread, one pairing thread ──── GameStream HTTP client ── PCs
       │  Start                                       (socket calls of the console)
    main.cpp: launcher and stream take turns with the display; forwarded starts
       │
    stream session (moonlight_stream_run)
       ├── loading watcher, connecting-screen thread
       ├── moonlight-common-c ──▶ decode worker ──▶ ready mailbox ──▶ presentation worker ──▶ AGC
       │                      └─▶ PyroWave queue ──▶ PyroWave worker ──▶ Vulkan
       ├── audio callback ──▶ ring ──▶ AudioOut
       └── 4 ms input loop: primary pad, three more pads, USB keyboards and mice
              └── waveform sinks (haptics), one thread a pad

| Component | State it keeps | Operations | What makes it hard |
|---|---|---|---|
| Video picture pipeline (MS 1700–2770, `moonlight_pipeline.hpp`, AGC) | frame slots, ready mailbox, submissions, reset and fault flags | decode, flush, drain, settle, publish, take, flip, stop, tear down | two workers and a session thread; a decoder that delays, drops or fails; late flips |
| Stream session (MS 1090–1500, 3850–5169) | the watcher's flags, the screen's flags, what is started, memory held | start, launch, connect, first picture, end, quit the host's app | four threads, a dozen early exits, cancel and timeouts at any point |
| Launcher model (LM, `moonlight_backend.cpp`) | selected PC, its snapshot and failures, request and sweep queues, pairing job | the player's orders, poll, answers, pairing, start, close | one transport with global state for two threads; answers that come after their question lost its meaning |
| Saved PCs (`moonlight_config.cpp` 560–690, LM) | list of endpoints and identities, selection, pending save | add, fold duplicates, remove, find, save | folding moves every later place; the console may refuse the file |
| Configuration store (`moonlight_config.cpp` 1–560) | the file, a temporary file | load (nine layouts), correct, replace | old consoles' files; a crash between any two steps of a save |
| Application storage and identity (`app_storage.cpp`, `gamestream/certgen.c`) | data directory, certificate and key | bring out of the sandbox, make, use, forget | both or neither of a pair of files; a start without filesystem access after one with it |
| Input forwarding (MS 3103–3848) | what is held, mouse and keyboard mode, last packet sent | sample, chords, mode change, release all | a refused send, a mode change in mid-press, devices that come and go |
| DualSense slots (`ps5_dualsense.cpp`) | four slots: announced, last sent, rumble, touches | discover, announce, disconnect, poll, keepalive | the mask alone adds and removes controllers on the host |
| Waveform output (`ps5_waveform*.cpp`) | per pad: epoch, tokens, inbox, playout | configure, push, allow, render | lock-free inbox, epochs instead of joins; motors and waveform share one pad |
| Audio output (MS 2773–3047) | ring, port, decoder | set up, decode, output, catch up, clean up | wrap-around, overrun, a packet longer than the ring |
| AGC presenter (AGC) | command buffers, display buffers, frame numbers | open, present, wait, repeat, close | GPU and display finish on their own time; waits that end before |
| Frame pacing (`frame_pacing.hpp`, `ps5_vrr_timeline.hpp`, `ps5_pacing_feedback.hpp`) | fitted cadence, scanout grid, timeline, reserves | observe, target, repeat | arithmetic on clocks of two machines |
| PyroWave backend (`pyrowave/stream_backend.cpp`) | queue of two, session, worker | set up, submit, take, wait, present, stop | drop while taking, a stop at any of three waits |
| PyroWave framing (`pyrowave/pyrowaveframing.cpp`) | none (a walk over one frame) | parse | what a loss hides |
| PyroWave GPU objects (`pyrowave/vulkan`, `pyrowave/video`) | Vulkan objects | initialise, shut down | any creation may fail |
| Application life cycle (`main.cpp`, `launcher/launcher_ps5.cpp`) | failures, hand-over flags | launcher, stream, retry, leave | the display refuses while the television changes mode; forwarded starts |
| GameStream client (`gamestream/*`, `moonlight_backend.cpp`) | identity, active socket, interrupt | requests, pairing, launch, resume, quit | an answer lost after the PC acted; an interrupt from another thread |
| Discovery (`moonlight_discovery.cpp`) | list of services found | ask, hear, stop | replies in any order, repeated, cut short |
| Socket calls (`platform/ps5/ps5_sockets.c`) | what one call has made | poll, select, getaddrinfo | any step of a call refused |
| Launcher view, connecting screen | focus, dialogs, fade | frame | offers only orders the model can take |
| Artwork, test lab, diagnostics, runtime heap, file system access, translations, update, UI library | see section 6 | | |

Every component is in `PROJECT.json` under `components` with its status and the
reason for what is left out; the hazards are there under `hazards`, each at its
line with the properties that would catch it.

What makes each component correct:

* **Pipeline**: a picture on its way to the screen is the one decoded from the
  access unit whose number it carries; nothing writes a slot that is shown or
  waiting; no slot is lost on any error path; there is a slot for every call;
  no decode inside a drain, a keyframe after every reset; pictures never go
  backwards; frame memory is released only when neither decoder nor GPU reads it.
* **Session**: one thread presents at a time; everything is joined, closed and
  released whichever exit is taken; a session told to end does; the host's app
  is asked to quit with a transport that listens.
* **Launcher**: one conversation at a time on the shared transport; what is
  shown belongs to the selected PC; one entry for one PC; every change of the
  list is saved or its refusal told; what the player waits for is got round to.
* **Controllers, pad, USB**: at rest the host's controllers are what the pads
  show; nothing is down at the host that nobody holds or that the program has
  forgotten; no touch stays down.
* **Waveform**: motors and waveform never drive one pad together, no sound of
  one owner is played on the next one's pad, and the motors come back.
* **PyroWave**: every frame is accounted for once; pictures never go backwards;
  every image goes back; a stop ends whatever the worker waits for; only whole
  records that arrived reach the decoder; GPU objects go in the right order.
* **Storage**: a start finds the last reported save or a newer one, never half
  of one, or none where the console refused to rename over the old file, and a whole pairing is never lost to anything but being forgotten.
* **Life cycle**: launcher and stream hold nothing of each other's; a forwarder
  starts one stream; there is always a launcher or an end.
* **Client**: what was told as paired is paired; a failed pairing leaves
  nothing; a stream is of the app that was asked for; an interrupted request is
  never answered, and ends.
* **Outputs**: whole grains of samples in order; a cadence never faster than the
  PC's; a variable display never below its lowest rate; latency only where
  lateness was seen; never a draw into a buffer shown or queued while every
  submission is counted.

## 2. Modules

| Module | Models |
|---|---|
| `VideoPipeline` | decode worker, presentation worker, session thread around them; the decoder as a nondeterministic environment |
| `PictureHandoff` | the pipeline's promise: an abstract queue of frame numbers and a screen |
| `VideoInvariants` | the inductive invariant `VideoInv` of `VideoPipeline`, in named parts |
| `VideoProofs` | proofs about them: types, control and slot accounting; picture identity, drains, keyframes, teardown, room in the decoder, order and refinement |
| `HostList`, `HostListProofs` | the saved PCs as pure operators; lemmas about them |
| `MergeLoop` | the loop of `merge_duplicates`, step by step, against its definition in `HostList` |
| `Launcher`, `MCLauncher`, `LauncherProofs` | the launcher's model, its worker, pairing, start and close; small networks for it; proofs |
| `Session`, `SessionProofs` | `moonlight_stream_run` and its threads; proofs |
| `Controllers` | the four DualSense slots against the host's mask |
| `Haptics` | one pad's waveform sink, worker and port, beside its motors |
| `PadInput` | the primary pad as gamepad, mouse and keyboard |
| `UsbInput` | USB keyboards and mice |
| `PadsProofs` | proofs about `Controllers`, `Haptics`, `PadInput` and `UsbInput` |
| `PyroWave`, `PyroWaveProofs` | library calls, queue and worker of the PyroWave backend; proofs about it and about `Framing` |
| `Framing` | the walk over the records of one PyroWave frame that lost packets |
| `GpuObjects` | the Vulkan objects of a PyroWave session |
| `Config` | the layouts of the saved configuration and their corrections |
| `Storage` | the files that outlive the process, with the process killed between any two steps |
| `AppLife` | `main`, the launcher's resources and forwarded starts |
| `GsClient` | requests to a PC and the operations made of them |
| `HttpClient` | one request after another and the thread that interrupts them |
| `Sockets` | `poll`, `select`, `getaddrinfo` over the console's calls |
| `Discovery` | a search for PCs |
| `ServicesProofs` | proofs about all of these and `MergeLoop`, by themselves and side by side |
| `AudioRing` | set-up, ring and output of the sound |
| `VrrPolicy`, `VrrCadence`, `VrrGrid`, `VrrTimeline`, `PlayoutReserve` | a variable-refresh output: scanouts per picture, fitted cadence, when to scan out, when to show, what to hold back |
| `Presenter` | the AGC presenter and the two threads that use it by turns |
| `OutputsProofs` | proofs about `Presenter`, `AudioRing`, `PlayoutReserve`, `VrrCadence`, `VrrGrid` and `VrrTimeline` |
| `MCPads`, `MCPyroWave`, `MCServices`, `MCOutputs` | the components that meet only through values, side by side in one run |

**Runs of several components.** Where components share no state that a module
does not already have as its surroundings (the HTTP client and the search for
PCs, say), an `MC…` module instantiates them side by side and a variable `part`
chooses one at the start: a behaviour runs that one, and the others stay in one
initial state in which no fair action of theirs is enabled. Their states add up
instead of multiplying. An `MC…` module EXTENDS the components whose theorems
are proved, so that TLC checks the very definitions the proofs are about and
evaluates their assumptions (`MCPads`: `Haptics`, `PadInput`, `UsbInput`, `Controllers`;
`MCPyroWave`: `PyroWave`; `MCServices`: `Storage`, `AppLife`, `GsClient`,
`HttpClient`; `MCOutputs`: `Presenter`, `AudioRing`, `PlayoutReserve`), and INSTANCEs the others; a property of an INSTANCEd one names
its part. Components that do
interact are in one module with all the threads concerned: `Session`,
`VideoPipeline`, `Launcher` (which EXTENDS `HostList`), `Haptics`, `Presenter`,
`PyroWave`, `AppLife`.

### VideoPipeline

`dpc`, `ppc` and `mpc` say where the decode worker, the presentation worker and
the session thread are; `frames` is the pool (`state`, LRU `age`, `last_output`,
and which frame each slot's memory holds); `mailbox`, `submissions`,
`needsReset`, `draining`, `running`, `failed` are the program's variables.
`decoder` is Videodec2 as its API allows: it keeps units and slots, returns
pictures late, drops units when it fails, refuses a decode inside a drain.
Each action is one stretch of code between two points where the other thread
can run: a lock held, or an external call. `settle`'s locked sections are
merged, which loses no interleaving because nothing it does between them is
visible to the presenter. The LRU order of free slots is modelled exactly.

External: Videodec2 (`Returns`, `CallFails`, `DecoderAfter`), the AGC flip and
moonlight-common-c's queue of units. Idle repeats under VRR (they are in
`VrrGrid` and `Presenter`), the catch-up refresh (off unless
PROSPEROLIGHT_CATCHUP_QUEUE_FRAMES, MS 1928–1936), pacing deadlines, HUD and
traces are left out: they choose *when* a picture is taken or shown again, and
the model lets any time happen. A flip whose hsync is never reported counts as
complete, as the code treats it.

`PictureHandoff` is implemented under the mapping `waiting` = the mailbox's
frame numbers (`FramesOf`), `showing` = the current picture's frame while the
presenter holds one (`FrameHeld`), `shown` = the last one flipped: checked in
`video_paced`, proved in `VideoProofs`.

### Launcher and HostList

`pc` says where the main thread is. `Poll` is split where the threads can act
between its parts: pairing's result, the finished job, the next job, the save.
The player's orders are actions enabled only where the view accepts them
(`launcher/launcher_view.cpp` 1389–1447: not while pairing, not while a start
fades). An answer is chosen when it is applied; nothing reads it earlier. Time
is abstract: `due` falls when a health check is recorded and rises by
`TimePasses`. `Kept` and `Merged` in `HostList` define what the loop of
`merge_duplicates` computes; `MergeLoop` is the loop.

Left out: names, notices, the manual flag, the status list, pictures, catalog
and update check, settings values, codec and HDR checks of `RequestStream`.
`Identity` is constant: a PC does not move to another address while the model
runs.

### Session

Four threads: `pc` (main), `watcher`, `screen`, `worker`. `memVars` say which
memory is held and what the GPU or display may still read (`flip`). Steps of the
watcher that touch only its own atomics are one step; the decode worker is part
of `worker`, `VideoPipeline` shows it in detail. `CONSTANT Backends` chooses the
native decoder, PyroWave or both. Left out: the test lab, error texts, metrics.
`LiStartConnection` forgets an interrupt made before it is entered (external:
moonlight-common-c), so a cancel in that window is heard only when it returns.

### Controllers, Haptics, PadInput, UsbInput

`Controllers`: `slot` is the module's table, `padHost` what the host made of the
packets (it adds and removes controllers from a packet's mask alone, so each
packet is applied to all slots), `padStill` each user's pad as it is
(`Unsettled` until inputs come to rest). An action is one stretch under the module's mutex.
`Haptics` splits at the atomics and at the driver calls made without the mutex:
`ppc` is the input loop, `push` the control stream, `work` the slot's worker;
`sink` holds epoch, tokens and permissions, `play` the effect in the worker's
hands. `PadInput`: one action is a whole poll, its sample, chords, mode changes
and every event it sends, each of which may be refused; of `ps5_dualsense.cpp` it
has what decides whether the host has the pad: the first slot's arrival and
removal, the user who logs out, and another pad's packet, whose mask removes it.
`UsbInput`: one action is one sample of one device and the difference sent for
it; several keys may mean one key to the host.

### PyroWave, Framing, GpuObjects

`PyroWave`: `lib` is where the streaming library's calls are, `recv` its
receiving thread, `wk` the worker, `sess` what a session keeps, and pictures
are numbers of frames. `StopFlags` and `Stop` are separate because the worker
runs between the flags and the join. `Framing`: the host builds a frame record
by record in 4-byte words as `pyrowaveframing.h:14-33` describes it, packets are
lost, and the walk takes one record a step; the three kinds of host are one that
flags aligned packets, one that packs records into packets and one that lets
ordinary records straddle. `GpuObjects`: objects in the order of their creation,
any of which fails, and what the C++ scopes then unwind.

### Config, Storage, AppLife

`Config`: a file is a layout with the settings that layout carries; `Load` is
the whole of the readers, defaults and corrections, then a save and a reload.
`Storage`: a file is the number of its contents, Absent or Torn; each system
call is an action; `Killed` happens between any two and the next `Start` may or
may not get filesystem access. Power loss is not modelled: a file closed before
a rename is whole. `AppLife`: `main` alternates launcher and stream; `has` the
launcher's resources; `fwd` the forwarded start.

### GsClient, HttpClient, Sockets, Discovery

`GsClient`: `pc` (the PC, external) holds identities, the game and the phase of
a pairing; `op` is the operation under way and its next exchange; an exchange is
answered, refused, lost, or acted on with its answer lost. `HttpClient` looks
inside one exchange: every step between two looks of the request at the
interrupt flag, and the interrupter's three steps (flag, look, shutdown), with a
third party opening and closing sockets. `Sockets`: each system call of a call
may be refused. `Discovery`: a reply's PTR and SRV records are read one at a time
and its services entered one at a time; it may end after any of them.

### AudioRing, Vrr…, PlayoutReserve, Presenter

`AudioRing`: a sample is its number in decoding order, so that order, repetition
and loss are visible in the ring. The VRR modules calculate in microseconds with
the code's own constants and keep differences of clocks only, which makes their
state finite: `VrrCadence` the fitted period over windows of the sender's time,
`VrrGrid` what is scanned out next and when a picture is repeated, `VrrTimeline`
the anchor of the PC's clock, `PlayoutReserve` the two learnt reserves.
`Presenter`: `gpu` and `flips` are what the GPU and the display have not finished,
`screen` what is shown; a wait may end before them, as on the console.

## 3. Runs

| Run | Instance | Distinct states | Shows |
|---|---|---|---|
| `video_unpaced` | 5 slots, depth 2, mailbox 1, 3 input slots, frames 1–4 | 1 343 119 | a slot and an idle input slot for every call; drains; keyframes after resets |
| `video_paced` | 3 slots, depth 2, mailbox 2, 4 input slots, frames 1–3 | 237 951 | `VideoInv`, identity, ownership, teardown; the abstract hand-off; liveness |
| `launcher` | 2 places, three ports of one address with two Sunshine instances, PCs that are silent or not paired, threshold 3 | 681 311 | one conversation, answers of the selected PC, no twins, a selection that follows, a clean close |
| `launcher_live` | 1 place, 2 addresses, all kinds of answers, refused saves, a queue of 1 | 349 588 | no change lost without a notice; orders and pairing end; streams start |
| `launcher_handover` | 1 place, 2 addresses | violation | see Findings |
| `session` | no bound: the complete state space | 103 738 | all session properties, both back ends, sessions one after another |
| `pads` | 2 slots and 2 users; 1 waveform; 1 pad; 2 keyboards and a mouse | 551 422 | the host at rest agrees with the pads; nothing stays down; motors against waveform |
| `pyrowave` | 3 frames, 2 sessions, 3 images; frames of 15 words in packets of 5 | 653 703 | frames accounted for, stops end, walk over every loss, GPU objects |
| `framing_straddles`, `presenter_late` | one component each | violations | see Findings |
| `services` | see bounds | 284 718 | settings, files, life cycle, client, transport, sockets, search |
| `outputs` | see bounds | 627 924 | sound, cadence, grid, timeline and reserve, presenter |

**Bounds, and why they are enough.** `video_unpaced`: the slot property is about
numbers, so the instance is the tightest one that satisfies the general formula
SlotCount ≥ depth + mailbox + 2 (decoder's, waiting, on screen, and the one
protected or being offered); with four slots the run fails, so the bound is not
slack. The program's numbers are 7 ≥ 3 + 2 + 2, pinned by the static_assert at
MS 136. `video_paced` uses a pool *too small* for the depth on purpose: starved
slots, overheld slots and stopping while waiting then really occur. Frame
numbers up to 3 or 4 give one picture shown, two waiting and one in the decoder.
`launcher`: two entries are enough for a twin, a moved selection and a stale
answer; three ports give one PC two ways and a second PC beside it; what a PC
that can start an app adds is in `launcher_live`. `MergeLoop` (in `services`)
covers all lists of up to three PCs. `MaxFound` and `MaxRequests` bound how much
one discovery reports and how long the queue is when the player adds to it; the
queue still grows by the program's own jobs. `launcher_live` uses one place
because liveness there is about the queue, not the list.

`pads`: two slots, because the hazard is one slot's packet speaking for the
other; each owner that comes or goes takes an epoch, so four of them (`MaxEpoch`)
give two owners of a port one after the other, the first one's effects and
permissions meeting the second, and a `Resume` after an effect; two effects, an
inbox of one. `pyrowave`: three
frames overflow the queue of two; two sessions show what one leaves the next;
15 words of 5-word packets hold a first record, a loss and two records after it.

`services`: two endpoints in two ports and up to three PCs for the list; four
starts' worth of `Storage` (`MaxBoots` 3, `MaxConfig` 3, `MaxIdentity` 2, and
at most `MaxEvents` 4 of them together); two identities beyond the first in
`GsClient` (`MaxId` 3); three streams in `AppLife`; two descriptors, two
addresses of a name and two slices of a wait in `HttpClient`; two sockets in
`Sockets`; in `Discovery` three entries, two addresses and two ports, three names
of services of which two fit (`MaxServices` 2), and any number of records.

`outputs` scales the code's sizes where only their relations matter: a ring of 6
samples in grains of 2 with packets up to 9 (more than the ring, as the code
must survive); a fitting window of 0.1 s and a confirmation of 0.3 s for the
code's 0.2 s and 0.75 s; 4 samples of which 3 must be early, at most 0.5 ms, for
`PlayoutReserve`'s 32, 12 and 8 ms, judged by the 95th percentile, the 90th of
the other profiles being left to the proof; jitter of 2 and 5 ms under a reserve
of 8 ms, so that there are pictures `target` keeps for their place and pictures
too far before it; three submissions in two presenter sessions
with two failures in a row (the code: three). Times, rates and graces are the
code's.

Deadlock is checked in the runs of the pipeline, the launcher, the session and
the pads (where an end is an explicit stuttering action: `SessionOver`,
`SlotsOver`, `Over`, `Rests`). It is not in `pyrowave`, `services`, `outputs` and the two
violations of single components, because components there do end: a search is
over, a process has closed, the last counted frame was shown.

**Fairness.** Weak fairness for each thread's steps, which is what a scheduler
gives a runnable thread: `DecodeStep`, `PresentStep`, `JoinStep`; the session
thread stops a failed renderer because its loop tests the flag every 4 ms. In
`Launcher`: polls happen every frame, the worker's requests end by their 3 s
network timeout, pairing ends by its PIN timeout, a closing launcher shuts down;
`StartStream` is strongly fair because it competes with the poll for `idle` and
the view calls it every frame of the fade. A refresh can be put off for ever by a
player who keeps choosing PCs, so `RequestsLeave` speaks of searches and stops.
In `Session`: the main thread, the watcher once it has decided, the screen's
fade and end, the worker's end. In `pads`: the input loop polls every 4 ms and
threads run, asked for only once inputs have come to rest (`quiet`, `calm`, `settled`), as
only what follows needs it. In `PyroWave`: the worker runs, the display shows
what it was given, a stop that was begun and a submission that was begun go on.
In `AppLife`: the main thread's own steps; a stream ends (`Session` shows when);
a forwarded start fails or starts (strong: the display may refuse between two
tries, and the launch gives up after fifteen seconds). In `GsClient` and
`HttpClient`: a request ends, answered or after its timeout. Nothing is assumed
of the player, of frames arriving, of the network answering well, or of the file
being accepted.

**Mutants.** For every property of every passing run `PROJECT.json` names a
plausible bug, an operator next to the definition it replaces, with which the
property fails. Properties that are conjunctions have a mutant for each deeper
part in the modules (operators marked *Mutant* or *A bug*); `PROJECT.json` lists
one of them, the others can be put in by hand.

## 4. Findings

* `launcher_handover`: a start whose PC stops listing its apps during the fade
  never hands over, and the launching screen takes no input
  (`launcher/launcher_view.cpp:1823`, against `launcher_view.hpp:313`).
* `framing_straddles`: after a loss the walk may resume in the middle of a
  record when a record happened to end where its packet ends
  (`pyrowave/pyrowaveframing.cpp:287`, against the comment at 154–155).
* `presenter_late`: when the connecting screen's wait for its flip fails and the
  flip comes after all, the stream's first picture has the same frame number; it
  is drawn into the buffer on screen and completes while the GPU still reads its
  slot (AGC 1555, against the comment at MS 2356).

Seen while modelling and not given a run (some have their property in the
modules, named in brackets):

* Session: the host's app is quit with the option off when a session ends other
  than by the player (MS 5050, `docs/CONFIGURATION.md:240`; `QuitOnlyIfSet`); a
  stream that ran may be reported as one that never connected (MS 4886, comment
  4897; `ReportTrue`); a cancel between the end of the watcher and
  `LiStartConnection` is heard only when that returns (MS 1160).
* Launcher: a removed PC returns by a sweep queued before its removal (LM 1025,
  `docs/USER_GUIDE.md:41`; `EntersBySearchOrOrder`); a pairing that Sunshine
  refuses leaves the PC shown as offline (LM 819; `RefusalShowsOnline`,
  `FailureTellsOnline`); a PC that a sweep enters into an empty list is not
  polled (LM 640, `docs/ARCHITECTURE.md:63`). The comment at `FRAME_SLOT_COUNT`
  counts one waiting picture where the paced modes keep two; the number suffices.
* Pads: `Disconnect` does not clear a slot's rumble (`docs/DUALSENSE.md:159`); a
  failed `pthread_create` leaves `open_result` 0; `OpenPort` notes its result for
  whoever owns the slot then; the keepalive (`ps5_dualsense.cpp:796`) is not
  noted as sent, against the comment at 79; a release the host refuses stays
  down there, against `docs/ARCHITECTURE.md:25-27`. A removal the host refuses is
  only counted (`ps5_dualsense.cpp:186-192`); the neutral state after it goes
  nowhere and is noted as sent (641-643, MS 3455-3459), so the host keeps what was
  pressed until this pad comes back or another pad's packet names the mask without
  it. `RemembersGamepad` and `PadFollows` say so of `host.gone`.
* PyroWave: a picture whose wait a stop ended is counted as presented
  (`pyrowave/stream_backend.cpp:271`, comment 331–333; `AbandonedNotCounted`);
  `stop` clears the receive deadline before the join; an `Output` whose
  construction fails leaves planes, a pipeline's failure shader modules.
* Life cycle: a forwarded start is lost when the display refuses the first
  launcher; the count of the display's refusals is only reset by a start; the
  reason of a failed forwarded stream is not always told (`main.cpp:384-386`,
  `docs/FORWARDER.md:46`; `ReasonShown`); a forwarded stream's exit closes the
  program also for a later stream of the player's
  (`launcher/launcher_ps5.cpp:877-878`, `docs/FORWARDER.md:89`;
  `OnlyForwardedCloses`).
* Storage: a rename refused twice, or refused once with the process killed
  before the second, loses both the old and the new configuration
  (`moonlight_config.cpp:251-261`); `FindsLastSaved` allows that and nothing else;
  unpairing one PC forgets the identity of all; one of certificate and key may
  stay behind a failed copy (`app_storage.cpp:312-320`; `BothOrNeither`).
* Network: a pairing the PC confirmed is told as failed when the refresh after it
  fails, and its error text is overwritten by the unpair; a lost HTTPS answer
  shows a paired PC as unpaired; the interrupter may shut down a descriptor
  another thread has got since; a body without a length that is cut short is
  taken as whole; `select` shows an errored socket as a timeout and sets sockets
  in sets they were not asked in (`platform/ps5/ps5_sockets.c:456-470`);
  discovery gives a service without a port the port of another service of the
  same PC, and drops it when that PC is listed already.
* What the proofs brought to light. Motors: "the motors are off while a grain
  plays" holds until a mode change is refused. `YieldToWaveform`'s motor-off may
  be refused, `Suppress`'s after it too (its result is not looked at,
  `ps5_dualsense.cpp` 369), and a new owner's `Resume` sets the native mode; the
  effect that begins before the next poll is then permitted by `ApplyOutput`
  (285–308) with the motor still running, against `docs/DUALSENSE.md:75-76`.
  `WaveformAlone` therefore excepts a pad that `defies` the program. Decoder:
  a unit skipped because of a stop, with a reset pending after refused units, enters
  the drain with every slot taken; no call is made there, and `SlotForEveryCall`
  says so. Saved PCs: loading checks
  entries one by one and folds nothing, so a file may hold twins, and one whose
  stored identity is stale may move the selection to another PC when the
  identities are learned.
* Outputs: `FramePacing`'s slot ahead of a ready picture never re-anchors
  (`frame_pacing.hpp:185`); a single picture more than 100 ms late moves the VRR
  timeline; `configure_high_refresh_output` returns before
  `settle_refresh_policy` when 120 Hz is not supported (AGC 1105–1109, comment
  1065–1071); an immediate flip whose wait ended is given up without asking the
  GPU or VideoOut whether it is done (AGC 974–986), so that the next submission
  may be made beside it: `PresenterOK` speaks of one submission at a time, whole
  pictures and no step back until that has happened; the shutdown unmaps after 120 vertical blanks with a flip still
  pending; a picture ready more than 2 ms before its place is shown at most 2 ms
  and the reserve after it was ready, so that jitter of 4 ms is seen though the
  reserve is 8 ms (`ps5_vrr_timeline.hpp:78-87`); repeats of a grid below about 8.8 ms may come 30 µs early; at rates
  a little under 60 Hz repeats may hold a picture back (section 5, **Grid**).

## 5. Proofs

All theorems hold for every value of the constants that satisfies the named
assumptions of their modules: `SizesAssumption`, `LimitsAssumption`
(`VideoPipeline`), `HostListAssumption`, `LauncherAssumption` (there is an
address to search), `HapticsAssumption`, `PadAssumption`, `SlotsAssumption` (a
slot for the primary pad), `UsbAssumption` (a key is not a mouse button), `PyroWaveAssumption`,
`FramingAssumption` (a packet is longer than four words, hosts are of the three
kinds), `PresenterAssumption`,
`AudioAssumption` (a grain fits in the ring), `PlayoutAssumption`,
`FilesAssumption`, `StreamsAssumption`, `ClientAssumption`, `HttpAssumption`
(0 is no descriptor), `ConfigAssumption` (room for a PC), `SocketsAssumption`
(finitely many sockets, as in any `fd_set`), `DiscoveryAssumption` (room for an
entry and a service, 0 is no port), `CadenceAssumption` and `TimelineAssumption`
(what the network does, see **Pace**), `GridAssumption` (see **Grid**). Four theorems have hypotheses besides, named below. TLC checked each invariant, the
strengthening included, before it was proved. The bounds of section 3 are among
the constants, so a theorem also speaks of runs of any length.

**Types and control** (`VideoProofs.TypeCorrect`). `TypeOK` is not
inductive: a unit must be a real one where it is read, the offered slot a slot
where a decoder call returns. `ControlOK` adds that, and the two are inductive
together.

**Slots** (`VideoProofs.SlotsAccounted`). `NoSlotLost` says each Ready
slot is in the mailbox and each Presenting slot is the worker's. `PoolInv` adds
the converse, that the mailbox has no slot twice, that the GPU reads only the
slot taken, and that the slot offered to the decoder stays Free until its call is
settled. The last is what lets the decode worker act without the lock.

**Pictures** (`VideoProofs`: `PicturesIntact`, `SlotsSafe`). Whenever the
decoder may be used without a reset, `submissions` equals the units really
inside it and every Decoding slot is one it keeps (`InStep`);
`decoder_needs_reset` is up wherever that may fail (`ResetStands`); so the label
of a returned picture is its unit's number (`SettleInStep`); and what the
decoder keeps is never Ready or Presenting (`KeptHidden`), so nothing shown is
overwritten.

**Decoder** (`VideoProofs`). `DrainsWhole`: a decoder in the middle of a
drain has units left, and whoever leaves the drain has ordered a reset or a
rebuild first (`DrainInv`); it rests on `InStep`, since the loop ends on the
program's own queue being empty. `KeyframeFirst`: a decoder without reference
pictures, or about to lose them, is owed a keyframe by the host, waits for one
or has one in hand (`KeyframeInv`). `ReleasedIdle`: both workers are gone before
the memory is (`TeardownInv`, and `ControlOK` for the presenter).

**Room for every unit** (`VideoProofs.RoomForEveryUnit`). There is a slot
and an idle input buffer for every call, provided the sizes are `Roomy`: as many
slots as the depth, the mailbox and two more, as many inputs as the depth and one
more. That is the static_assert at MS 136–140; `video_unpaced` is tight and
`video_paced` breaks it on purpose, so the hypothesis is no assumption. The proof
counts: slots are Free, Decoding, Ready or Presenting; `DepthInv` bounds the
Decoding ones by the submissions and those by the depth, the mailbox bounds the
Ready ones, the worker has one; and the busy inputs are the ones behind the next
in the ring (`RowInv`). The lemmas say by how much each action changes each count.

**Order and refinement** (`VideoProofs`: `VideoInvariant`, `HandsOff`).
Frames wait in the decoder in ascending order, each after every frame in the
mailbox, on its way to the screen or shown last (`OrderInv`). With it every step
of the pipeline is a step of `PictureHandoff` or invisible to the player:
`SettlePicture` publishes, `TakePicture` takes, a completed flip shows, every
other way out of the presenter's hands gives up. The lemmas on `FramesOf` say
that taking frame numbers commutes with `Append`, `Tail` and `SubSeq`.

**Session** (`SessionProofs`: `SessionSafe`, `WatcherGone`). One session after
another presents with one thread at a time, holds what may still be read and
returns with its threads joined and its memory released, by each of its exits.
The invariant says what may be at each place of the main thread: `ThreadsInv`,
that a thread runs only between its start and its join; `PyroInv`, that PyroWave
has the display to itself from the hand-over on; `MemoryInv`, which memory is
there for whom; `LeftInv`, what
has ended once the main thread is past it. `MemoryInv` also excludes a flip of a
frame before the decoder's memory is asked for, which `MemoryHeld` does not say and
its proof needs.

**Launcher, conversations and changes** (`LauncherProofs`). `TalkInv`: while the
pairing thread runs the model knows of it and has no worker; a closing launcher
pairs no more, and a closed one has joined its worker. It gives `OneAtATime` and
`StreamAlone`. `SaveInv`: the list equals the file, a save is pending, or a
refusal was told, and once closed nothing is pending any more; it gives
`ChangesKept`. Together they give `ClosedCleanly`.

**Launcher, the list** (`LauncherProofs`: `EachPCOnce`, `WhatIsShown`,
`SelectionStays`). `TypeInv` says where the selection may point and that each
order in the queue is of an endpoint; `TwinsInv` that neither the list nor the
file has two entries for one PC; `TrueInv` that both are truthful, every identity
in them being the one its endpoint has, and that what is shown is of the selected
PC: entries folded together are then one PC, and a selection that follows the
fold stays with it. That each step keeps them is one lemma on what a step may do
to the list (`StepIsGood`). Hypotheses: `SavesGood` is what loading guarantees of any
file (`moonlight_config.cpp` 444–454); `SavesUntwinned` and `SavesTruthful` hold of
the files the launcher saved itself. A file written otherwise may break both
(section 4). `HostListProofs` has what `Kept`, `Merged` and removal do to an
entry, a place and the selection.

**The loop of `merge_duplicates`** (`ServicesProofs.LoopIsMerged`). Started on
any list, the loop ends with what `HostList` defines `Merged` to be. `LoopInv`:
what is left of the places looked at so far is the kept ones of them, the
selection is where the kept one of its PC went, and the place looked at next
has moved by as many as were dropped.

**Pads** (`PadsProofs`). `WaveformsApart`: motors and waveform do not drive one
pad together, and nothing of one owner is played on the next one's, for any
number of owners and any inbox; a permission carries the epoch it was given in
and the worker looks again after its last wait. `PadRemembers` and `UsbReleased`:
nothing is down at the host that neither the player holds, nor the program
remembers, nor the host refused to release or to let go with its pad; one input
mode at a time. `RemembersGamepad` has three cases by what the host heard last: of
the pad, of its removal, or of a removal it refused. A poll sends several events, each perhaps refused, so their lemmas say what each piece of
a poll keeps (`Sound`, `Strong`) and the theorem puts them together.

**Slots** (`PadsProofs`: `ControllersSafe`, `StopLeavesNone`). The host knows
just the controllers it was told of, and no finger outlives its touch unless the
host refused to hear of its lifting, for any number of slots and users. A stretch
under the mutex is several calls in a row, so the lemmas are about the world a
call works on: each call of `ps5_dualsense.cpp` maps good worlds to good worlds
(`GoodWorlds`: the mask is what arrived, and only an announced pad has fingers,
which `ControllersOK` does not say and a lost pad's packet needs), and a step of
`SlotsNext` is a row of them. Search and stop go over all slots with a recursive
function: `WalkExists` shows by a least counterexample that there is such a
function, `WalkGoes` carries an invariant along it. For the stop that invariant is
`StoppedUpTo`: the slots before the one reached are off the mask, and a host that
refuses nothing was told so with the last of them.

**PyroWave** (`PyroWaveProofs.PyroWaveSafe`). Every frame is accounted for once,
pictures do not go backwards and every image goes back, for any number of frames,
sessions and images. Frames in the queue, with the worker and on the display
ascend, and the tallies are of disjoint sets of frames.

**Framing** (`PyroWaveProofs.FramesParsed`). Only whole records that arrived reach
the decoder, a frame is called whole, and its coarsest level intact, only when they
are, and no walk over a frame of the hosts it is made for takes the middle of a
record for its beginning; for packets and frames of any size, whichever packets
are lost. `FrameInv` is of the host: the records tile the frame (`Laid`), coarse ones
before finer ones and ordinary ones last (`Ranked`). `Walker` is of the walk: it is
where a record begins, or has passed the coarse level of a frame whose host lets
records straddle packets (`Place`); the span it is in is of whole records (`Spans`);
what it has not given up for lost it has kept (`Behind`). Two lemmas carry it.
`OrdinaryAligns`: behind an ordinary record of a host that packs, every packet
begins with a record, so going on at one is going on at a record. `Joins`: a
record that arrived joins what arrived before it. The arithmetic of packets is in
`PacketStarts` and `PacketIs`; nothing else divides.

**Presenter** (`OutputsProofs.PresenterSafe`). Until a submission is left out of
the count (`uncounted`: its call failed after it, its blocking wait on the
connecting screen failed, or it was an immediate flip given up while it was out)
one submission is with the GPU, none goes into a buffer shown or queued, and the
screen never goes back; whatever happens, the presenter is given back whole, or
kept whole for a flip that is still awaited. The invariant follows
the numbers of the frames: the display's queue ascends, and two flips apart means
two buffers apart.

**Sound** (`OutputsProofs.SoundKept`). The ring holds the newest samples in order,
whatever its length, the grain, the packets' lengths and the number of samples,
which are naturals. `HoldsNewest` is inductive by itself; the
work is in the wrap: the lemmas `GoesOn`, `Apart` and `GoesDown` say that places
in the ring and numbers of samples run in step modulo different lengths.
`SetUpInv` adds which steps of the set-up have what open.

**Reserve** (`OutputsProofs.ReserveEarned`). A delay is held back only after two
late arrivals, or three pictures late on the display, in this stretch of the
stream, and is gone after a punctual run. `ArrivalsInv`: what is held comes with a
window that has a late picture, or falls by 50 with each punctual one.

**Pace** (`OutputsProofs.PaceKept`). A PC is scanned out at its rate, however
coarse its clock and whichever pictures are lost, and a slowdown is believed only
after its time; the reserve hides the jitter it covers between any two pictures
that were not ready more than 2 ms before their place (all of them, where the
jitter is at most 2 ms), and a delay that stays is the anchor's within five
seconds. For any paces, window, confirmation, reserve and jitter within it.
`CadenceInv`: of a PC that keeps its rate, a window has whole rounds of the pattern
and a beginning and an end of one (`Rated`), which fits the nominal period
(`RateFits`); and the time confirmed is at most the time away from the rate
(`Waited`). `TimelineInv`: on a steady network the anchor is within the jitter;
after a change, `Descends` and `Ascends` bound its distance by the pictures passed,
in pieces on which its step is at least a constant, and the run of late pictures
by them too. Assumed of the network (`TimelineAssumption`): the jitter is within the
reserve and at most the 100 ms that rebase, spikes are later than it but not another network, and
two lasting delays are at most 20 ms apart, which takes the anchor no more than
256 pictures, or more than 104 ms, which rebases. What is in between (from about
25 ms on, at 100 us for each picture) takes it longer than the 300 pictures that
`Follows` gives it.

**Grid** (`OutputsProofs.GridKept`). The display is never left below its lowest
rate on purpose and gets no scanout at once after another, and no picture waits
behind a scanout for more than an interval, whatever a PC sends and however late
the thread is; and the pictures of a PC that keeps its rate wait for repeats no
longer than the PC and the thread are late. The ranges of the state
(`GridTyped`) give all but the last. That one needs `Row`: so many repeats come
before the next picture, their intervals end at its slot, which is after neither
the picture nor the lateness allowed, and not much before it is expected; then
no repeat is tried in that slot (`IdleOnRow`), a repeat moves the row on by one
(`RepeatKeeps`), and a picture begins a new one, from its slot or, when it comes
too long after, from itself (`LowPictureKeeps`). `CopiesAre` has the arithmetic
of rates: 2 to 29 scanouts a picture, 8342 to 13500 us apart, which fill its
period but for the rounding. Assumed (`GridAssumption`): the steady PC comes at
most the grace and 1750 us late, and its rate leaves the thread room
(`HasRoom`): with repeats an interval is longer than the display's shortest, and
than the 95 % of it a slot may shrink to, by as much as the thread is late;
without, 98 % of the period and the thread's lateness are no more than the
period. The proof asked for that. For a thread 250 us late it is so from 80 Hz
down to 59.4 Hz and below 58.2 Hz; for one 100 us late, from 118 Hz down to 59.4
Hz and below 59.2 Hz. In between (periods of 16834 to 17183 us, in a stream of
more than 60 Hz) there are two scanouts a picture, hardly slower than the
display's shortest: a thread always late pushes the grid back until a repeat
stands in a picture's slot, and the picture waits for one interval.

**Files** (`ServicesProofs`: `FilesKept`, `PairingsStay`). Wherever the process was
ended, a start finds the last reported save or the newer one under way, never half
of one or an older one, and none only where the console refused to rename over the
old file; a connection finds the identity in the files, and a whole pairing stays until it is forgotten, for any number of starts,
saves and identities. `StorageOK` says nothing of a save under way, so `ConfigInv`
follows the contents: the temporary file has the newest between its last write
and the rename, and only a place whose first rename took the old file away (`lost`)
may be without a file. `PairInv`: whoever is between the two files of a pair knows
what the other one is.

**Life cycle** (`ServicesProofs.LauncherOrStream`). One of the launcher and a
stream has the display, a launcher shown has all it needs, main gives up after
three failures in a row, four after a mode change, a forwarder starts one stream, the first. `HoldsByScreen`
says what each screen of the launcher holds, `ForwardFirst` that a forwarded
start is only ever under way before the first stream.

**Client** (`ServicesProofs.ToldIsSo`). What a pairing, an unpair and a start tell
is so on the PC, wherever a request or its answer is lost, for any number of
identities. `IdsInv`: the PC knows only identities that were made; `WhereInv` and
`IdInv`: which operation has which exchange next, and with which identity it
asks; `HeardInv`: what an answer said still holds while the operation goes on, but for
what people at the PC did since.
The lemmas `ReportFits`, `LookFits`, `ActionEndsFits` and `LookEndsFits` say how
operations end, and each group of actions has one that rests on them.

**Interrupts** (`ServicesProofs.InterruptedFails`). An interrupted request is never
answered, and a request leaves no socket, session or body of a failure, for any
number of descriptors, addresses and slices of a wait. `SocketInv`: what the
request has published is what it holds; `AnswerInv`: there is an answer only where
the flag was looked at after the last read.

**Settings** (`ServicesProofs.SettingsSafe`). Every configuration that is loaded is
usable, whatever layout the file has and whichever PCs it names, and a save brings
the file to the present layout, from which the next start loads the same. The
lemmas go through the corrections: what `Loaded` makes of a file is `Usable`, and a
usable configuration `Written` is loaded as itself (`WrittenIsLoaded`).
`SettingsInv` says that the file has what was written of the first load from the
save on.

**Network** (`ServicesProofs.NetworkSafe`). The client, the transport, the socket
calls and the search together, whatever the numbers of sockets, PCs, ports,
services and entries. `CallsInv`: a call reports sockets only in the sets it was
given, `select` counts each socket once, and what a call holds it gives back before
it returns. `SearchInv`: no service of a PC is listed twice and an entry without a
port is its PC's only one (`EnterFits`, which rests on `AddShape`), and while a
reply's services are entered, a port heard of is listed, still to be entered, or
found no room. `ServicesHeard`: a service's port was heard from its own PC, so no
entry has another's.

**Only model-checked**, and why:

* liveness (`PipelineMoves`, `SessionMoves`, `OrdersLeave`, `PadsSettle`,
  `PyroWaveMoves`, `ServicesMove`): fairness and ENABLED are out of the prover's
  reach;
* `GpuObjectsOK`: its module has no sizes, TLC visits every state there is.

The library's induction theorems take an operator as parameter, which no installed
prover instantiates. Where a function over the naturals is recursive
(`HostList.Kept`), the proofs use a least counterexample instead
(`HostListProofs.LeastElement`).

## 6. Not modelled

* `FramePacing` (a fixed-rate output), `Ps5ReceiveDeadline` and
  `VrrPreparationLead`: they choose times, and the pipeline's model allows any.
* GPU command buffers, shaders, decoder passes: calls whose effect is on the GPU.
* Parsers (XML, mDNS names, SDP), cryptography and certificates: pure functions
  of bytes; a request's answer is a choice where the parsers are used.
* Mixing of waveform samples, surround layouts, pointer distances, motion and
  lights: data no property tells apart.
* Artwork, translations, settings tables, the UI library, diagnostics: no state
  the stream depends on. The runtime heap and file system access are wrappers.
* The test lab (opt-in sessions of its own) and the update check (a library
  asked once), with the tools under `tools/` and `tooling/`, which run on a PC.

## 7. What comes next

1. `FramePacing` for a fixed output, and its slot ahead of a ready picture.
2. The test lab's life cycle beside `Session`, and the updater's replacement of
   the program's own files.
3. Rates a little under 60 Hz, where the grid of repeats has no room (section 5,
   **Grid**): how long a picture waits there, and how often.

## 8. Running

    tlc -workers 2 -config video_paced.cfg VideoInvariants
    tlc -workers 2 -config services.cfg MCServices
    tlapm VideoProofs.tla

`PROJECT.json` lists each run with its module, configuration and properties,
for each property a mutant, the source lines of each definition, the findings,
hazards and theorems.
