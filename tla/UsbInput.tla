----------------------------- MODULE UsbInput ------------------------------
(***************************************************************************)
(* USB keyboards and mice (ps5_physical_* in src/moonlight_stream.cpp,     *)
(* moonlight_physical_input.hpp).  One action is one sample of one device: *)
(* the difference to the sample before is sent, the sample is kept.        *)
(*                                                                         *)
(* Several keyboards, and several keys of one, may mean the same key to    *)
(* the host, a device may go in the middle of a press, and every event may *)
(* be refused: what the host still holds must have somebody holding it.    *)
(***************************************************************************)
EXTENDS Naturals, FiniteSets

CONSTANTS Keyboards, Mice,
          Usages,        \* key usages of a USB keyboard, its modifiers included
          VirtualKey,    \* MapKey and ModifierUsage, NoKey where they have none
          NoKey,
          Clicks         \* buttons of a mouse

VARIABLES
    open,    \* the devices of this stream are read
    usb,     \* the handles, and the samples before
    down     \* what is down at the host, and what it refused to let go

usbVars == <<open, usb, down>>

Keys == {VirtualKey[u] : u \in Usages} \ {NoKey}

(* The buttons of a mouse are no keys of a keyboard. *)
ASSUME UsbAssumption == Keys \cap Clicks = {}

Sent(usages) == {VirtualKey[u] : u \in usages} \ {NoKey}

Closed == [boards |-> {}, mice |-> {}, held |-> [k \in Keyboards |-> {}],
           clicked |-> [m \in Mice |-> {}]]
Nothing == [keys |-> {}, clicks |-> {}, stuck |-> {}]

UsbTypeOK ==
    /\ open \in BOOLEAN
    /\ usb \in [boards : SUBSET Keyboards, mice : SUBSET Mice,
                held : [Keyboards -> SUBSET Usages], clicked : [Mice -> SUBSET Clicks]]
    /\ down \in [keys : SUBSET Keys, clicks : SUBSET Clicks, stuck : SUBSET (Keys \cup Clicks)]

(* The connection refuses nothing, the releases or the presses. *)
UsbRefusals == SUBSET {"down", "up"}

(* The releases, then the presses, of one device: field is what it holds   *)
(* down at the host.                                                       *)
After(held, released, pressed, refused) ==
    (held \ (IF "up" \in refused THEN {} ELSE released)) \cup
    (IF "down" \in refused THEN {} ELSE pressed)

StuckAfter(stuck, released, pressed, refused) ==
    IF "up" \in refused THEN stuck \cup released
    ELSE stuck \ (released \cup (IF "down" \in refused THEN {} ELSE pressed))

(* ps5_physical_process_keyboard that waits for the key itself to be let   *)
(* go, and forgets it when the keyboard is gone.                           *)
TypedWhilePresent(k, sample, refused) ==
    LET current == IF sample.usable THEN sample.held ELSE {}
        gone    == IF sample.usable THEN Sent(usb.held[k] \ current) ELSE {}
        come    == Sent(current \ usb.held[k])
    IN  /\ usb' = [usb EXCEPT !.held[k] = current]
        /\ down' = [down EXCEPT !.keys = After(@, gone, come, refused),
                                !.stuck = StuckAfter(@, gone, come, refused)]

(* ps5_physical_process_keyboard: a keyboard that is gone, or whose keys   *)
(* the system takes, holds nothing.                                        *)
Typed(k, sample, refused) ==
    LET current == IF sample.usable THEN sample.held ELSE {}
        gone    == Sent(usb.held[k] \ current)
        come    == Sent(current \ usb.held[k])
    IN  /\ usb' = [usb EXCEPT !.held[k] = current]
        /\ down' = [down EXCEPT !.keys = After(@, gone, come, refused),
                                !.stuck = StuckAfter(@, gone, come, refused)]

(* ps5_physical_process_mouse; motion and wheels hold nothing. *)
Clicked(m, sample, refused) ==
    LET current == IF sample.usable THEN sample.held ELSE {}
        gone    == usb.clicked[m] \ current
        come    == current \ usb.clicked[m]
    IN  /\ usb' = [usb EXCEPT !.clicked[m] = current]
        /\ down' = [down EXCEPT !.clicks = After(@, gone, come, refused),
                                !.stuck = StuckAfter(@, gone, come, refused)]

Sample(things) == [usable : BOOLEAN, held : SUBSET things]

(* ps5_physical_input_init: whatever can be opened is read. *)
OpenUsb ==
    /\ ~open
    /\ open' = TRUE
    /\ \E boards \in SUBSET Keyboards, mice \in SUBSET Mice :
           usb' = [Closed EXCEPT !.boards = boards, !.mice = mice]
    /\ down' = Nothing

(* ps5_physical_input_poll, one sample of its batches at a time. *)
PollKeyboard(k) ==
    /\ open /\ k \in usb.boards
    /\ \E sample \in Sample(Usages), refused \in UsbRefusals : Typed(k, sample, refused)
    /\ UNCHANGED open

PollMouse(m) ==
    /\ open /\ m \in usb.mice
    /\ \E sample \in Sample(Clicks), refused \in UsbRefusals : Clicked(m, sample, refused)
    /\ UNCHANGED open

(* ps5_physical_input_stop and shutdown: every device as if it were gone.  *)
(* What two devices hold is released once for each.                        *)
StopUsb ==
    /\ open
    /\ open' = FALSE
    /\ usb' = Closed
    /\ \E refused \in UsbRefusals :
       LET keys   == UNION {Sent(usb.held[k]) : k \in Keyboards}
           clicks == UNION {usb.clicked[m] : m \in Mice}
       IN  down' = [keys |-> After(down.keys, keys, {}, refused),
                    clicks |-> After(down.clicks, clicks, {}, refused),
                    stuck |-> StuckAfter(down.stuck, keys \cup clicks, {}, refused)]

UsbInit == open = FALSE /\ usb = Closed /\ down = Nothing

UsbNext ==
    \/ OpenUsb \/ StopUsb
    \/ \E k \in Keyboards : PollKeyboard(k)
    \/ \E m \in Mice : PollMouse(m)

UsbSpec == UsbInit /\ [][UsbNext]_usbVars

-----------------------------------------------------------------------------
(* Properties *)

(* What is down at the host is down on a device that is still read, or its *)
(* release was refused: unplugging, the system's menu and the end of the   *)
(* stream leave nothing else behind, however keys share a meaning.         *)
SomebodyHolds ==
    /\ down.keys \subseteq (UNION {Sent(usb.held[k]) : k \in Keyboards}) \cup down.stuck
    /\ down.clicks \subseteq (UNION {usb.clicked[m] : m \in Mice}) \cup down.stuck

UsbInputOK == UsbTypeOK /\ SomebodyHolds

=============================================================================
