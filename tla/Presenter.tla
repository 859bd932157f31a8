------------------------------ MODULE Presenter -----------------------------
(***************************************************************************)
(* The AGC presenter (src/native_agc_present.cpp) and the threads that use *)
(* it one after another: the connecting screen, which waits for each flip, *)
(* and the stream's presentation thread, which retires a flip before the   *)
(* next picture and repeats the last one on a variable output.             *)
(*                                                                         *)
(* A picture is rendered by the GPU into one of two buffers, then VideoOut *)
(* shows it and reports its marker.  Both take their time, and a wait for  *)
(* a marker may end before them.  A picture, and the memory it is read     *)
(* from, is known by the number of its submission.                         *)
(***************************************************************************)
EXTENDS Naturals, Sequences

CONSTANTS MaxSent,        \* bound on the submissions of the process
          MaxSession,     \* bound on the sessions
          FailureLimit,   \* PRESENT_FAILURE_LIMIT
          SuspendFails    \* sceAgcSuspendPoint may fail after an accepted submission

ASSUME PresenterAssumption == MaxSent \in Nat /\ FailureLimit \in Nat

VARIABLES
    user,       \* the session, its thread, and the pictures whose memory it keeps
    asks,       \* native_agc_set_vrr, set_vsync, and the mode of the pictures
    pr,         \* presenter: ready, frame_number, pending_marker, pending_flip_mode
    held,       \* what the presenter acquired and has not given back
    rejected,   \* hsync_rejected
    output,     \* variable; believed variable (vrr_active); the peg refused
    gpu,        \* submissions the GPU has not finished
    flips,      \* flips VideoOut has not done
    screen,     \* the buffer shown, the marker reported
    image,      \* the picture in each buffer
    sent,       \* submissions that reached the GPU
    uncounted   \* one of them belongs to a call that failed, or was given up

agcVars == <<user, asks, pr, held, rejected, output, gpu, flips, screen, image, sent, uncounted>>

Modes == {"sdr60", "hdr120"}
Fast == asks.mode = "hdr120"            \* requested_fps > 60

NoPresenter == [ready |-> FALSE, frame |-> 0, marker |-> 0, immediate |-> FALSE, mode |-> "none"]
NoImages == [b \in {0, 1} |-> 0]
Black == [buffer |-> 2, marker |-> 0]   \* nothing shown

(* In the order initialize_presenter acquires them. *)
Stages == <<"shader memory", "shader mapping", "video", "flip queue", "buffer memory",
            "buffer mapping", "registered">>
Acquired(k) == {Stages[i] : i \in 1..k}

TypeOK ==
    /\ user.at \in {"off", "first", "undo", "connecting", "still", "stream",
                "ending", "closing"}
    /\ user.keeps \subseteq 1..MaxSent /\ user.waits \in BOOLEAN
    /\ user.failures \in 0..FailureLimit
    /\ asks \in [vrr : BOOLEAN, vsync : BOOLEAN, mode : Modes]
    /\ pr.frame \in 0..MaxSent /\ pr.marker \in 0..MaxSent
    /\ held \subseteq Acquired(7) /\ sent \in 0..MaxSent
    /\ output \in [free : BOOLEAN, active : BOOLEAN, refused : BOOLEAN]
    /\ screen.buffer \in 0..2

display == <<flips, screen, image>>

-----------------------------------------------------------------------------
(* Opening *)

(* settle_refresh_policy: only a released output can be pegged, and a      *)
(* system process is refused the peg.                                      *)
Settle ==
    \E unpegs \in BOOLEAN :
       LET free == output.free \/ unpegs
           kept == free /\ (asks.vrr \/ output.refused)
       IN  output' = [output EXCEPT !.free = kept, !.active = kept]

(* configure_high_refresh_output, which settles nothing when the display   *)
(* has no such mode; and the settling of a plain output.                   *)
Configure ==
    \/ Settle
    \/ (Fast \/ asks.vrr) /\ output' = [output EXCEPT !.active = FALSE]

(* initialize_presenter to stage k: any call may fail and leaves what it   *)
(* has; without a flip queue the presenter polls.                          *)
Initialize(k) ==
    /\ held' \in {Acquired(k), Acquired(k) \ {"flip queue"}}
    /\ IF "video" \in held' THEN Configure ELSE UNCHANGED output

-----------------------------------------------------------------------------
(* Retiring a flip: native_agc_finish_frame and wait_for_marker. *)

Reported == screen.marker >= pr.marker

(* An immediate flip whose wait ended is given up, and with it immediate   *)
(* flips; neither the GPU nor VideoOut is asked whether it is done.        *)
Unreported == pr.immediate /\ ~Reported
Retires == (Reported \/ Unreported) /\ rejected' = (rejected \/ Unreported)
TimesOut == ~Reported /\ ~pr.immediate /\ UNCHANGED rejected

(* One that was not done goes on without the presenter.                    *)
Loses == Unreported /\ gpu \o flips # <<>>
Counted == uncounted' = (uncounted \/ Loses)

Retired == [pr EXCEPT !.marker = 0]

(* native_agc_present_shutdown: keeps everything while its flip is out;    *)
(* the system releases an output at the next opening or leaves it.         *)
Shutdown ==
    \/ /\ Retires
       /\ held' = {} /\ pr' = NoPresenter
       /\ flips' = <<>> /\ screen' = Black /\ image' = NoImages
       /\ \E free \in {output.free, TRUE} : output' = [output EXCEPT !.free = free]
    \/ /\ TimesOut
       /\ UNCHANGED <<held, pr, flips, screen, image, output>>

-----------------------------------------------------------------------------
(* present_frame retires the flip before, sets the presenter up, and has   *)
(* render_frame submit into the buffer of the frame's number.              *)

Fits == pr.ready => pr.mode = asks.mode     \* -6, -7, -8: set up for other pictures
SetUp == IF pr.ready THEN UNCHANGED <<held, output>> ELSE Initialize(7)

Submits(immediate) ==
    /\ sent < MaxSent
    /\ sent' = sent + 1
    /\ gpu' = Append(gpu, [buffer |-> pr.frame % 2, marker |-> pr.frame + 1,
                           immediate |-> immediate, picture |-> sent + 1])

Ready == [Retired EXCEPT !.ready = TRUE, !.mode = asks.mode]
Pending(immediate) == [Ready EXCEPT !.marker = pr.frame + 1, !.immediate = immediate]

(* A call that fails: the driver refuses the submission, or accepts it and *)
(* the suspend point after it fails.                                       *)
Refusal ==
    /\ pr' = Ready
    /\ \/ UNCHANGED <<gpu, sent>> /\ Counted
       \/ SuspendFails /\ Submits(FALSE) /\ uncounted' = TRUE

-----------------------------------------------------------------------------
(* The connecting screen, whose calls wait for their flip. *)

Begin ==
    /\ user.at = "off" /\ user.sessions < MaxSession
    /\ user' = [user EXCEPT !.at = "first", !.sessions = @ + 1, !.failures = 0, !.shown = FALSE]
    /\ asks' \in [vrr : BOOLEAN, vsync : BOOLEAN, mode : Modes]
    /\ output' = [output EXCEPT !.active = FALSE]
    /\ UNCHANGED <<pr, held, rejected, gpu, display, sent, uncounted>>

Show ==
    /\ user.at \in {"first", "connecting"} /\ ~user.waits
    /\ Fits /\ Retires
    /\ SetUp /\ Submits(FALSE) /\ pr' = Pending(FALSE) /\ Counted
    /\ user' = [user EXCEPT !.waits = TRUE, !.keeps = @ \union {sent + 1}]
    /\ UNCHANGED <<asks, display>>

(* The frame number counts a call that returns 0. *)
ShowReturns ==
    /\ user.at \in {"first", "connecting"} /\ user.waits /\ Reported
    /\ pr' = [Retired EXCEPT !.frame = @ + 1]
    /\ user' = [user EXCEPT !.at = "connecting", !.waits = FALSE, !.keeps = @ \ {sent}]
    /\ UNCHANGED <<asks, held, rejected, output, gpu, display, sent, uncounted>>

(* The call before did not let go of its flip, the picture does not fit,   *)
(* the set-up fails on its way, or the submission does.                    *)
ShowFails ==
    /\ user.at \in {"first", "connecting"} /\ ~user.waits
    /\ \/ TimesOut /\ UNCHANGED <<pr, held, output, gpu, sent, uncounted>>
       \/ ~Fits /\ Retires /\ pr' = Retired /\ Counted /\ UNCHANGED <<held, output, gpu, sent>>
       \/ /\ ~pr.ready /\ \E k \in 0..6 : Initialize(k)
          /\ UNCHANGED <<pr, rejected, gpu, sent, uncounted>>
       \/ Fits /\ Retires /\ SetUp /\ Refusal
    /\ user' = [user EXCEPT !.at = IF @ = "first" THEN "undo" ELSE "still",
                            !.keeps = IF sent' > sent THEN @ \union {sent'} ELSE @]
    /\ UNCHANGED <<asks, display>>

(* The wait ends before the flip, whose marker stays pending.              *)
ShowLate ==
    /\ user.at \in {"first", "connecting"} /\ user.waits /\ TimesOut
    /\ user' = [user EXCEPT !.at = IF @ = "first" THEN "undo" ELSE "still", !.waits = FALSE]
    /\ uncounted' = TRUE
    /\ UNCHANGED <<asks, pr, held, output, gpu, display, sent>>

(* connecting_screen_begin gives up; a later failure only ends the bar.    *)
Undo ==
    /\ user.at = "undo"
    /\ Shutdown /\ Counted
    /\ user' = [user EXCEPT !.at = "ending"]
    /\ UNCHANGED <<asks, gpu, sent>>

-----------------------------------------------------------------------------
(* The stream's presentation thread, video_present_thread. *)

FirstPicture ==         \* connecting_screen_finish
    /\ user.at \in {"connecting", "still"} /\ ~user.waits
    /\ user' = [user EXCEPT !.at = "stream"]
    /\ UNCHANGED <<asks, pr, held, rejected, output, gpu, display, sent, uncounted>>

Running == user.at = "stream" /\ user.failures < FailureLimit
Immediate == ~(asks.vsync \/ asks.vrr \/ rejected)      \* effective_flip_mode

(* submit_presentation: the call leaves the wait to its caller.  When an   *)
(* immediate flip is refused, V-Sync takes over for the process.           *)
Picture ==
    /\ Running /\ ~user.waits
    /\ Reported
    /\ \/ UNCHANGED rejected /\ Submits(Immediate)
          /\ pr' = [Pending(Immediate) EXCEPT !.frame = @ + 1]
       \/ Immediate /\ rejected' = TRUE /\ Submits(FALSE)
          /\ pr' = [Pending(FALSE) EXCEPT !.frame = @ + 1]
    /\ user' = [user EXCEPT !.waits = TRUE, !.keeps = @ \union {sent'}]
    /\ UNCHANGED <<asks, held, output, display, uncounted>>

(* Nothing is thought to read the picture: its slot is returned.           *)
PictureFails ==
    /\ Running /\ ~user.waits
    /\ \/ Reported /\ rejected' \in {rejected, rejected \/ Immediate} /\ Refusal
       \/ TimesOut /\ UNCHANGED <<pr, gpu, sent, uncounted>>
    /\ user' = [user EXCEPT !.failures = @ + 1]
    /\ UNCHANGED <<asks, held, output, display>>

Complete ==             \* complete_presentation
    /\ Running /\ user.waits
    /\ \/ /\ Retires /\ pr' = Retired
          /\ user' = [user EXCEPT !.waits = FALSE, !.keeps = @ \ {sent}, !.failures = 0,
                                  !.shown = TRUE]
       \/ /\ TimesOut /\ UNCHANGED pr
          /\ user' = [user EXCEPT !.failures = @ + 1]
    /\ Counted
    /\ UNCHANGED <<asks, held, output, gpu, display, sent>>

(* Repeat of the other buffer. *)
RepeatOther ==
    /\ Running /\ ~user.waits /\ user.shown /\ output.active
    /\ pr.ready /\ pr.frame > 0 /\ pr.marker = 0 /\ flips = <<>>
    /\ flips' = <<[buffer |-> pr.frame % 2, marker |-> screen.marker, immediate |-> FALSE]>>
    /\ UNCHANGED <<user, asks, pr, held, rejected, output, gpu, screen, image, sent, uncounted>>

(* native_agc_repeat_frame: refused while a flip is out.  Its own wait may *)
(* end with the repeat still queued.                                       *)
Repeat ==
    /\ Running /\ ~user.waits /\ user.shown /\ output.active
    /\ pr.ready /\ pr.frame > 0 /\ pr.marker = 0 /\ flips = <<>>
    /\ flips' = <<[buffer |-> (pr.frame - 1) % 2, marker |-> screen.marker, immediate |-> FALSE]>>
    /\ UNCHANGED <<user, asks, pr, held, rejected, output, gpu, screen, image, sent, uncounted>>

-----------------------------------------------------------------------------
(* The end of the session, from any state; the memory the pictures are     *)
(* read from is released when the last flip was retired, else kept.        *)
End ==
    /\ user.at \in {"connecting", "still", "stream"}
    /\ user.at = "connecting" => ~user.waits
    /\ user' = [user EXCEPT !.at = "ending", !.waits = FALSE]
    /\ UNCHANGED <<asks, pr, held, rejected, output, gpu, display, sent, uncounted>>

EndFinish ==
    /\ user.at = "ending"
    /\ \/ Retires /\ pr' = Retired /\ user' = [user EXCEPT !.at = "closing", !.keeps = {}]
       \/ TimesOut /\ UNCHANGED pr /\ user' = [user EXCEPT !.at = "closing"]
    /\ Counted
    /\ UNCHANGED <<asks, held, output, gpu, display, sent>>

EndShutdown ==
    /\ user.at = "closing"
    /\ Shutdown /\ Counted
    /\ user' = [user EXCEPT !.at = "off"]
    /\ UNCHANGED <<asks, gpu, sent>>

-----------------------------------------------------------------------------
(* The GPU renders and queues the flip; VideoOut does it, and may leave an *)
(* immediate one unreported.                                               *)
GpuFinishes ==
    /\ gpu # <<>>
    /\ gpu' = Tail(gpu)
    /\ LET g == Head(gpu)
       IN  IF "registered" \in held
           THEN /\ image' = [image EXCEPT ![g.buffer] = g.picture]
                /\ flips' = Append(flips, [buffer |-> g.buffer, marker |-> g.marker,
                                           immediate |-> g.immediate])
           ELSE UNCHANGED <<image, flips>>
    /\ UNCHANGED <<user, asks, pr, held, rejected, output, screen, sent, uncounted>>

DisplayShows ==
    /\ flips # <<>>
    /\ flips' = Tail(flips)
    /\ LET f == Head(flips)
       IN  screen' \in {[buffer |-> f.buffer, marker |-> f.marker],
                        [buffer |-> f.buffer,
                         marker |-> IF f.immediate THEN screen.marker ELSE f.marker]}
    /\ UNCHANGED <<user, asks, pr, held, rejected, output, gpu, image, sent, uncounted>>

Init ==
    /\ user = [at |-> "off", sessions |-> 0, waits |-> FALSE, keeps |-> {}, failures |-> 0,
               shown |-> FALSE]
    /\ asks = [vrr |-> FALSE, vsync |-> FALSE, mode |-> "sdr60"]
    /\ pr = NoPresenter /\ held = {} /\ rejected = FALSE
    /\ output \in [free : BOOLEAN, active : {FALSE}, refused : BOOLEAN]
    /\ gpu = <<>> /\ flips = <<>> /\ screen = Black /\ image = NoImages
    /\ sent = 0 /\ uncounted = FALSE

Next ==
    \/ Begin \/ Show \/ ShowReturns \/ ShowFails \/ ShowLate \/ Undo
    \/ FirstPicture \/ Picture \/ PictureFails \/ Complete \/ Repeat
    \/ End \/ EndFinish \/ EndShutdown \/ GpuFinishes \/ DisplayShows

Spec == Init /\ [][Next]_agcVars

-----------------------------------------------------------------------------
(* Properties *)

(* A buffer is drawn only while it is neither shown nor about to be: the   *)
(* two buffers of initialize_presenter and the repeats that time out.      *)
Untorn ==
    \A i \in 1..Len(gpu) :
        /\ gpu[i].buffer # screen.buffer
        /\ \A j \in 1..Len(flips) : flips[j].buffer # gpu[i].buffer

(* present_frame, "At most ONE native submission is outstanding"; its      *)
(* memory is kept by the one who presents, and everything it uses held.    *)
Exclusive ==
    /\ Len(gpu) <= 1
    /\ \A i \in 1..Len(gpu) :
          /\ gpu[i].marker = pr.marker /\ gpu[i].picture \in user.keeps
          /\ Acquired(7) \ {"flip queue"} \subseteq held

(* The screen never goes back to an older picture, repeats included.       *)
Shown(b) == IF b \in {0, 1} THEN image[b] ELSE 0
Forward ==
    \A i \in 1..Len(flips) :
        /\ Shown(screen.buffer) <= Shown(flips[i].buffer)
        /\ \A j \in 1..i : Shown(flips[j].buffer) <= Shown(flips[i].buffer)

(* A session leaves nothing of the presenter behind, however far its       *)
(* set-up came, unless its last flip is still out; and no picture is sent  *)
(* to a half made presenter.                                               *)
Ledger ==
    /\ user.at = "off" => held = {} \/ pr.marker > 0
    /\ user.at \in {"connecting", "still", "stream"} => pr.ready
    /\ pr.ready => Acquired(7) \ {"flip queue"} \subseteq held

(* A fixed output is never driven as a variable one: the repeats of the    *)
(* presentation thread go by vrr_active.                                   *)
NeverTakenForVariable == output.active => output.free

(* The presenter is kept and given back as a whole, and, until a           *)
(* submission is left out of its count, by a failed call or by an immediate*)
(* flip that is given up while it is out, pictures neither tear nor go     *)
(* back and one is drawn at a time.                                        *)
PresenterOK ==
    /\ TypeOK /\ Ledger /\ NeverTakenForVariable
    /\ ~uncounted => Untorn /\ Exclusive /\ Forward

(* moonlight_stream.cpp:2356, of a presentation that completed: "Waits for *)
(* the submitted flip; afterwards the GPU no longer reads the slot."  Here *)
(* of one whose marker was reported, leaving out those that are given up.  *)
CompletedIsIdle ==
    [][user.waits /\ Reported /\ ~user'.waits /\ user'.shown =>
           \A i \in 1..Len(gpu') : gpu'[i].picture \in user'.keeps]_agcVars

=============================================================================
