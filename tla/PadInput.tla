----------------------------- MODULE PadInput ------------------------------
(***************************************************************************)
(* The primary pad as a gamepad, a mouse and a keyboard (ps5_controller_*  *)
(* in src/moonlight_stream.cpp, moonlight_stream_input.hpp).               *)
(*                                                                         *)
(* One action is one poll of the input loop: the pad's newest sample, the  *)
(* chords of its touchpad button, the changes of mode they bring, and the  *)
(* events the host is sent of it, each of which may be refused.  What is   *)
(* sent is remembered, so that nothing is said twice within the keepalive  *)
(* interval: the hazard is what the host still holds that the program no   *)
(* longer knows of.  Of src/ps5_dualsense.cpp, which sends what is said of *)
(* the pad, the first slot's part is here: its arrival and its removal.    *)
(***************************************************************************)
EXTENDS Naturals, FiniteSets

CONSTANTS Samples,  \* what the pad's newest sample shows: [on, menu, held]
          Moving

ASSUME PadAssumption == \A s \in Samples : s.on \in BOOLEAN

VARIABLES
    in,     \* ps5_controller_state_t
    host,   \* what is down at the host, and what it refused to let go
    link,   \* whether it is there, how often it was connected, which wraps, and
            \* whether slots[0] has it and the host was told of its arrival
    still   \* Moving, or what the pad shows from now on over a working network

padVars == <<in, host, link, still>>

calm == still # Moving

Touch == "touchpad"
MouseButtons == {"cross", "square", "left1"}
Held == UNION {s.held : s \in Samples}

(* The taps of the on-screen keyboard: the selected key, space and          *)
(* backspace too, or one that has a button of its own.                      *)
Taps == {"key", "backspace", "enter"}

FreshInput ==
    [open |-> FALSE, mouse |-> FALSE, keyboard |-> FALSE, shown |-> FALSE,
     last |-> {}, down |-> {}, lastMouse |-> {}, event |-> {}, due |-> TRUE,
     count |-> 2, stop |-> FALSE]

(* gone: whether the host heard of the controller's removal, or refused to, *)
(* since it was last sent a state of it.                                    *)
FreshHost == [pad |-> {}, gone |-> "heard", mouse |-> {}, keys |-> {}, stuck |-> {}]

PadTypeOK ==
    /\ in \in [open : BOOLEAN, mouse : BOOLEAN, keyboard : BOOLEAN, shown : BOOLEAN,
               last : SUBSET Held, down : SUBSET MouseButtons, lastMouse : SUBSET Held,
               event : SUBSET Held, due : BOOLEAN, count : 0..2, stop : BOOLEAN]
    /\ host \in [pad : SUBSET Held, gone : {"no", "heard", "refused"},
                 mouse : SUBSET MouseButtons, keys : SUBSET Taps,
                 stuck : SUBSET (MouseButtons \cup Taps)]
    /\ link \in [on : BOOLEAN, count : 0..1, connected : BOOLEAN, announced : BOOLEAN]
    /\ still \in Samples \cup {Moving}

World == [in |-> in, host |-> host, link |-> link]
Becomes(w) == in' = w.in /\ host' = w.host /\ link' = w.link

(* The connection may refuse nothing, everything, or events of a kind; a    *)
(* press that is refused leaves nothing behind.                             *)
Kinds == {"arrival", "removal", "pad", "press", "release", "keydown", "keyup"}
PadRefusals ==
    IF calm THEN {{}}
    ELSE {{}, Kinds, {"arrival"}, {"removal"}, {"pad"}, {"release", "keyup"}}

Chord(held, b) == {Touch, b} \subseteq held

(* The chords for the keyboard, the mouse and the statistics, of which the  *)
(* host hears nothing.                                                      *)
Stripped == {"triangle", "square", "right1"}

-----------------------------------------------------------------------------
(* What the host is sent *)

(* Disconnect: a removal that is refused is counted and no more. *)
PadLeaves(w, refused) ==
    LET left == [w EXCEPT !.link.connected = FALSE, !.link.announced = FALSE]
    IN  IF ~w.link.announced THEN left
        ELSE IF "removal" \in refused THEN [left EXCEPT !.host.gone = "refused"]
        ELSE [left EXCEPT !.host.pad = {}, !.host.gone = "heard"]

(* Announce, which may also put it off while the haptics port opens. *)
PadArrives(w, refused) ==
    IF w.link.connected /\ "arrival" \notin refused
    THEN [w EXCEPT !.link.announced = TRUE] ELSE w

Recorded(w, event) == [w EXCEPT !.in.event = event, !.in.due = FALSE]

(* ps5_controller_send: unchanged state waits for the keepalive.  Without a *)
(* pad SendPrimary sends nothing and calls that sent.                       *)
Send(w, event, refused) ==
    LET there == PadArrives(w, refused)
    IN  IF ~w.in.due /\ w.in.event = event THEN w
        ELSE IF ~w.link.connected THEN Recorded(w, event)
        ELSE IF ~there.link.announced \/ "pad" \in refused THEN there
        ELSE [Recorded(there, event) EXCEPT !.host.pad = event, !.host.gone = "no"]

(* ps5_controller_mouse_buttons: tracked whether the host took them or not. *)
MoveButtons(w, previous, current, refused) ==
    LET pressed  == (current \ previous) \cap MouseButtons
        released == (previous \ current) \cap MouseButtons
        goes     == IF "release" \in refused THEN {} ELSE released
        comes    == IF "press" \in refused THEN {} ELSE pressed
    IN  [w EXCEPT !.in.down = (@ \cup pressed) \ released,
                  !.host.mouse = (@ \ goes) \cup comes,
                  !.host.stuck = (@ \ (goes \cup comes)) \cup (released \ goes)]

(* ps5_controller_release_mouse_buttons that only forgets them. *)
ReleaseForgets(w, refused) == [w EXCEPT !.in.lastMouse = {}, !.in.down = {}]

ReleaseButtons(w, refused) ==
    [MoveButtons(w, w.in.down, {}, refused) EXCEPT !.in.lastMouse = {}]

(* ps5_send_windows_key: down and up again, unless the host refuses one. *)
Tap(w, key, refused) ==
    IF "keydown" \in refused THEN w
    ELSE IF "keyup" \in refused
    THEN [w EXCEPT !.host.keys = @ \cup {key}, !.host.stuck = @ \cup {key}]
    ELSE [w EXCEPT !.host.keys = @ \ {key}, !.host.stuck = @ \ {key}]

-----------------------------------------------------------------------------
(* Modes *)

SetMouse(w, enabled, refused) ==
    IF enabled
    THEN [Send([w EXCEPT !.in.mouse = TRUE], {}, refused) EXCEPT !.in.down = {}]
    ELSE [ReleaseButtons([w EXCEPT !.in.mouse = FALSE], refused) EXCEPT !.in.due = TRUE]

SetKeyboard(w, enabled, refused) ==
    LET set == [w EXCEPT !.in.keyboard = enabled, !.in.shown = enabled]
    IN  IF enabled
        THEN Send(IF set.in.mouse THEN SetMouse(set, FALSE, refused) ELSE set, {}, refused)
        ELSE [set EXCEPT !.in.due = TRUE]

(* ps5_controller_keyboard_input: one edge counts, in the code's order.    *)
(* chosen: the action of the selected key, which the moves choose; they    *)
(* and the shift change nothing else.                                      *)
Chosen == {"shift", "key", "enter", "close"}

KeyboardInput(w, current, chosen, refused) ==
    LET edges == current \ w.in.last
        does  == IF Touch \in current THEN "nothing"
                 ELSE IF "cross" \in edges THEN chosen
                 ELSE IF "square" \in edges THEN "backspace"
                 ELSE IF "triangle" \in edges THEN "shift"
                 ELSE IF "options" \in edges THEN "enter"
                 ELSE IF "circle" \in edges THEN "close" ELSE "nothing"
        tapped == IF does \in Taps THEN Tap(w, does, refused) ELSE w
    IN  IF does \in {"enter", "close"} THEN SetKeyboard(tapped, FALSE, refused) ELSE tapped

-----------------------------------------------------------------------------
(* ps5_controller_poll *)

(* A pad that was connected anew: its next state is sent whatever it is. *)
Recounted(w, n, refused) ==
    IF w.in.count = n THEN w
    ELSE ReleaseButtons([w EXCEPT !.in.count = n, !.in.last = {}, !.in.due = TRUE], refused)

(* PrimarySample: the controller goes with a pad that is off or was        *)
(* connected anew, and comes with one that says something to the host.     *)
PrimaryShows(w, s, n, refused) ==
    LET left == IF w.link.connected /\ (~s.on \/ n # w.link.count)
                THEN PadLeaves(w, refused) ELSE w
        here == [left EXCEPT !.link.on = s.on, !.link.count = n, !.link.connected = s.on]
        suppressed == ~s.on \/ s.menu \/ w.in.mouse \/ w.in.keyboard
                        \/ \E b \in Stripped : Chord(s.held, b)
    IN  IF suppressed THEN here ELSE PadArrives(here, refused)

(* In mouse mode, and when it is left. *)
AsMouse(w, toggled, event, buttons, refused) ==
    IF toggled THEN Send(SetMouse(w, FALSE, refused), event, refused)
    ELSE LET moved == MoveButtons(w, w.in.lastMouse, buttons, refused)
         IN  Send([moved EXCEPT !.in.lastMouse = buttons], {}, refused)

AsGamepad(w, toggled, event, buttons, refused) ==
    LET sent == Send(w, event, refused)
    IN  IF ~toggled THEN sent
        ELSE SetMouse([sent EXCEPT !.in.lastMouse = buttons], TRUE, refused)

(* The chords' own buttons are taken out of the sample before it is used.  *)
Sampled(w, s, chosen, refused) ==
    LET neutral == ~s.on \/ s.menu
        raw     == IF neutral THEN {} ELSE s.held
        was     == w.in.last
        mouseToggle == Chord(raw, "square") /\ ~Chord(was, "square")
        keyToggle   == Chord(raw, "triangle") /\ ~Chord(was, "triangle")
        kept == raw \ UNION {IF Chord(raw, b) THEN {Touch, b} ELSE {} : b \in Stripped}
        keyed == IF keyToggle THEN SetKeyboard(w, ~w.in.keyboard, refused) ELSE w
        noted == [keyed EXCEPT !.in.last = raw]
    IN  IF Chord(raw, "left1") THEN [w EXCEPT !.in.stop = TRUE]
        ELSE IF keyed.in.keyboard
        THEN LET typed == IF keyToggle THEN keyed ELSE KeyboardInput(keyed, raw, chosen, refused)
             IN  Send([typed EXCEPT !.in.last = raw], {}, refused)
        ELSE IF noted.in.mouse THEN AsMouse(noted, mouseToggle, kept, kept, refused)
        ELSE AsGamepad(noted, mouseToggle, kept, kept, refused)

(* A pad that comes back has another count. *)
Counts(s) == IF calm THEN {link.count}
             ELSE {n \in 0..1 : s.on /\ ~link.on => n # link.count}

PadPoll(s, n, chosen, refused) ==
    \E u \in {Recounted(World, n, refused)} :
    \E v \in {PrimaryShows(u, s, n, refused)} :
    \E w \in {Sampled(v, s, chosen, refused)} : Becomes(w)

PollSampled ==
    /\ in.open /\ ~in.stop
    /\ \E s \in IF calm THEN {still} ELSE Samples :
       \E n \in Counts(s), refused \in PadRefusals,
          chosen \in IF in.keyboard /\ "cross" \in s.held THEN Chosen ELSE {"key"} :
           PadPoll(s, n, chosen, refused)
    /\ UNCHANGED still

(* No sample came: what was sent last again, once it is due. *)
PollIdle ==
    /\ in.open /\ ~in.stop
    /\ \E refused \in PadRefusals :
           Becomes(Send(World, IF in.mouse THEN {} ELSE in.event, refused))
    /\ UNCHANGED still

(* Discover: the user it belongs to is not logged in, which no sample says. *)
PrimaryLogsOut ==
    /\ in.open /\ ~calm /\ link.connected
    /\ \E refused \in PadRefusals : Becomes(PadLeaves(World, refused))
    /\ UNCHANGED still

(* Another pad's packet names the controllers the host may have: without    *)
(* this one it is removed, whatever the host refused before.                *)
OthersSend ==
    /\ in.open /\ ~link.announced
    /\ host' = [host EXCEPT !.pad = {}, !.gone = "heard"]
    /\ UNCHANGED <<in, link, still>>

(* The idle interval is over. *)
KeepaliveDue ==
    /\ in.open /\ ~in.due
    /\ in' = [in EXCEPT !.due = TRUE]
    /\ UNCHANGED <<host, link, still>>

(* ps5_controller_init and dualsense::Init for a new stream, with a host    *)
(* that knows nothing; the pad is read once.                                *)
Open ==
    /\ ~in.open /\ ~calm
    /\ in' = [FreshInput EXCEPT !.open = TRUE]
    /\ host' = FreshHost
    /\ \E on \in BOOLEAN, n \in 0..1 :
           link' = [on |-> on, count |-> n, connected |-> on, announced |-> FALSE]
    /\ UNCHANGED still

(* ps5_controller_stop, after the loop has ended for whatever reason. *)
Stop ==
    /\ in.open
    /\ \E refused \in PadRefusals :
       LET w == PadLeaves(ReleaseButtons(World, refused), refused)
       IN  Becomes([w EXCEPT !.in.open = FALSE])
    /\ UNCHANGED still

(* Hands and network come to rest, no chord held and no menu open. *)
PadRests ==
    /\ ~calm /\ in.open
    /\ \E s \in Samples :
           /\ s.on = link.on
           /\ Touch \notin s.held /\ ~s.menu
           /\ still' = s
    /\ UNCHANGED <<in, host, link>>

Over == calm /\ UNCHANGED padVars

PadInit ==
    /\ in = FreshInput /\ host = FreshHost
    /\ link = [on |-> FALSE, count |-> 0, connected |-> FALSE, announced |-> FALSE]
    /\ still = Moving

PadNext ==
    \/ Open \/ PollSampled \/ PollIdle \/ KeepaliveDue \/ Stop
    \/ PrimaryLogsOut \/ OthersSend \/ PadRests \/ Over

(* What the host's gamepad comes to show of a pad at rest. *)
Shown == IF ~calm \/ in.mouse \/ in.keyboard THEN {}
         ELSE IF still.on THEN still.held ELSE {}

(* The input loop polls every 4 ms, a pad reports all the time, and time    *)
(* passes.  Only what happens after the rest needs it, and that only where  *)
(* there is something left to do.                                           *)
PadFairness ==
    /\ WF_padVars(calm /\ host.pad # Shown /\ PollSampled)
    /\ WF_padVars(calm /\ host.pad # Shown /\ KeepaliveDue)

PadSpec == PadInit /\ [][PadNext]_padVars /\ PadFairness

-----------------------------------------------------------------------------
(* Properties *)

(* What the host holds of the gamepad is what the program remembers having *)
(* sent, and nothing once it heard of the removal: no press is forgotten,  *)
(* nor its release.  A host that refused the removal may hold what it held *)
(* until it hears of this pad or of another one again.                     *)
RemembersGamepad ==
    /\ host.gone = "no" => link.announced /\ host.pad = in.event
    /\ host.gone = "heard" => host.pad = {}
    /\ link.announced => link.connected

(* While the pad is a mouse or a keyboard the host's gamepad is at rest,   *)
(* or the next poll will put it to rest: what was held over the change is  *)
(* not forgotten, unless the host refused to let the controller go.        *)
OneDeviceAtATime ==
    /\ ~(in.mouse /\ in.keyboard)
    /\ in.shown = in.keyboard
    /\ in.open /\ (in.mouse \/ in.keyboard) /\ host.pad # {}
           => in.event # {} \/ host.gone = "refused"

(* No mouse button and no key stays down at the host that the program does *)
(* not count as down, but for those whose release the host refused; after  *)
(* the end, and outside the mouse mode, it counts none.                    *)
NothingLeftDown ==
    /\ host.mouse \subseteq in.down \cup host.stuck
    /\ host.keys \subseteq host.stuck
    /\ in.mouse \/ in.down = {}

(* Where it ends once hands and network rest: the gamepad is what the pad  *)
(* shows, or at rest where the pad is something else; a pad that is off    *)
(* and whose removal the host refused stays as it was.                     *)
PadFollows ==
    calm /\ in.open /\ ~in.stop
        => host.pad = Shown \/ (~link.on /\ host.gone = "refused")

PadInputOK == PadTypeOK /\ RemembersGamepad /\ OneDeviceAtATime /\ NothingLeftDown

=============================================================================
