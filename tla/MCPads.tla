------------------------------- MODULE MCPads -------------------------------
(* What players hold: one slot's waveform output, the primary pad's modes,    *)
(* USB keyboards and mice, the four slots.  They share no state but what is   *)
(* modelled in each as its surroundings, so a behaviour runs one of them.     *)
EXTENDS Haptics, PadInput, UsbInput, Controllers

CONSTANTS owner, guest, k1, k2, m1

VARIABLE part    \* the one that runs

all == <<part, vars, padVars, usbVars, ctlVars>>

\* A button and a finger down, a finger and the remote chord, a button under the
\* system's menu.
TheSlotSamples ==
    {[button |-> "down", touches |-> {1}, chord |-> FALSE, menu |-> FALSE],
     [button |-> Rest, touches |-> {1}, chord |-> TRUE, menu |-> FALSE],
     [button |-> "down", touches |-> {}, chord |-> FALSE, menu |-> TRUE]}

Shows(held) == [on |-> TRUE, menu |-> FALSE, held |-> held]
PadSamples ==
    {Shows({}), Shows({"cross"}),
     Shows({"touchpad", "square", "cross"}),
     Shows({"touchpad", "triangle"}), Shows({"touchpad", "left1"}),
     [Shows({"cross"}) EXCEPT !.menu = TRUE], [Shows({}) EXCEPT !.on = FALSE]}

TheUsages == {"enter", "keypad enter", "power"}
TheKeys == [u \in TheUsages |-> IF u = "power" THEN NoKey ELSE "return"]

PadsInit ==
    /\ part \in {"slots", "waves", "primary", "devices"}
    /\ Init /\ PadInit /\ UsbInit /\ SlotsInit

PadsNext ==
    \/ part = "slots" /\ SlotsNext /\ UNCHANGED <<part, vars, padVars, usbVars>>
    \/ part = "waves" /\ Next /\ UNCHANGED <<part, ctlVars, padVars, usbVars>>
    \/ part = "primary" /\ PadNext /\ UNCHANGED <<part, ctlVars, vars, usbVars>>
    \/ part = "devices" /\ UsbNext /\ UNCHANGED <<part, ctlVars, vars, padVars>>

\* No action that is fair is enabled in a part's initial state.
PadsSpec == PadsInit /\ [][PadsNext]_all /\ Fairness /\ PadFairness /\ SlotsFairness

(* Once players and network rest, for ever after some point the host's        *)
(* controllers are what the pads show and the motors do again what the host   *)
(* asked for; and a stop then leaves no controller: ps5_dualsense.cpp's Poll, *)
(* ApplyOutput and Stop, and ps5_controller_poll.                             *)
AtRest == settled \/ quiet \/ still # Moving
PadsSettle ==
    /\ StopClears
    /\ AtRest ~> [](HostFollows /\ RumbleReturns /\ PadFollows)
=============================================================================
