---------------------------- MODULE Controllers ----------------------------
(***************************************************************************)
(* The four DualSense slots (src/ps5_dualsense.cpp): which pad is in which *)
(* slot, what the host was told of it and what the host makes of it.       *)
(*                                                                         *)
(* The host adds and removes controllers from the mask of a packet alone,  *)
(* so every packet speaks for all pads, not only for its own.  One action  *)
(* is one stretch under the module's mutex: the primary pad's sample, its  *)
(* packet, the search for users, one slot's turn in Poll.                  *)
(***************************************************************************)
EXTENDS Naturals, FiniteSets

CONSTANTS SlotCount,    \* slots, the first of them the primary pad's
          Users,        \* users who may log in with a pad
          Primary,      \* the user who started the stream
          SlotSamples,  \* what a pad can show: [button, touches, chord, menu]
          Rest,         \* the button state of a pad nobody touches
          NoUser, NoButton, Unsettled

Slots == 0..(SlotCount - 1)

ASSUME SlotsAssumption ==
    /\ SlotCount \in Nat \ {0}
    /\ Primary \in Users /\ NoUser \notin Users
    /\ \E s \in SlotSamples : ~s.menu /\ ~s.chord
    /\ \A s \in SlotSamples : s.menu \in BOOLEAN /\ s.chord \in BOOLEAN /\ s.button # NoButton

VARIABLES
    phase,      \* "off", "live" between Init and Stop, "stopped" until Shutdown
    slot,       \* slots[]
    padHost,    \* what the host makes of the packets it received
    padStill    \* Unsettled, or what each user's pad shows from now on

ctlVars == <<phase, slot, padHost, padStill>>

PadButtons == {s.button : s \in SlotSamples} \cup {Rest}
Touches == UNION {s.touches : s \in SlotSamples}

(* What a pad may show: nothing as it is off, or a sample, with the number *)
(* of times it was connected, which wraps.                                 *)
PadPressed == [on |-> TRUE, count |-> 0, shows |-> CHOOSE s \in SlotSamples : ~s.menu /\ ~s.chord]
PadOff == [on |-> FALSE, count |-> 0, shows |-> PadPressed.shows]
Pads == {PadOff} \cup [on : {TRUE}, count : 0..1, shows : SlotSamples]

(* Until players and network come to rest anything may be seen at any time. *)
settled == padStill # Unsettled
PadOf(u) == IF settled THEN {padStill[u]} ELSE Pads
LoggedIn == IF settled THEN {{u \in Users : padStill[u].on}}
            ELSE {l \in SUBSET Users : Cardinality(l) <= SlotCount}

(* The connection may refuse no event of a call, those of touches, or all. *)
Events == {"cancel", "remove", "arrive", "touch", "send"}
Refusals == IF settled THEN {{}} ELSE {{}, {"cancel", "touch"}, Events}

SlotStates ==
    [user : Users \cup {NoUser}, connected : BOOLEAN, announced : BOOLEAN,
     intercepted : BOOLEAN, generation : 0..1, button : PadButtons, touches : SUBSET Touches,
     sent : PadButtons \cup {NoButton}, due : BOOLEAN, waiting : BOOLEAN]

PadHosts ==
    [present : SUBSET Slots, arrived : SUBSET Slots, holds : [Slots -> PadButtons],
     touched : [Slots -> SUBSET Touches], stuck : [Slots -> SUBSET Touches]]

EmptySlot ==
    [user |-> NoUser, connected |-> FALSE, announced |-> FALSE, intercepted |-> FALSE,
     generation |-> 0, button |-> Rest, touches |-> {}, sent |-> NoButton,
     due |-> TRUE, waiting |-> FALSE]

EmptyHost ==
    [present |-> {}, arrived |-> {}, holds |-> [i \in Slots |-> Rest],
     touched |-> [i \in Slots |-> {}], stuck |-> [i \in Slots |-> {}]]

SlotsTypeOK ==
    /\ phase \in {"off", "live", "stopped"}
    /\ slot \in [Slots -> SlotStates]
    /\ padHost \in PadHosts
    /\ padStill \in {Unsettled} \cup [Users -> Pads]

-----------------------------------------------------------------------------
(* The world an operation works on: the slots, and the host at the other   *)
(* end of an ordered connection.                                           *)

SlotWorld == [slot |-> slot, host |-> padHost]

(* WireMask as it would be from the pads in use, told of or not. *)
WireMaskOfActive(w) == {i \in Slots : w.slot[i].connected}

WireMask(w) == {i \in Slots : w.slot[i].announced}

(* A packet reached the host: controllers out of its mask are gone, those  *)
(* new in it are at rest.                                                  *)
Hears(h, mask, new) ==
    LET stays == h.present \cap mask
    IN  [present |-> mask,
         arrived |-> (h.arrived \cup new) \cap mask,
         holds   |-> [i \in Slots |-> IF i \in stays THEN h.holds[i] ELSE Rest],
         touched |-> [i \in Slots |-> IF i \in stays THEN h.touched[i] ELSE {}],
         stuck   |-> [i \in Slots |-> IF i \in stays THEN h.stuck[i] ELSE {}]]

(* LiSendMultiControllerEvent for slot i, with a mask and a button state. *)
Packet(h, i, mask, button) ==
    LET heard == Hears(h, mask, {})
    IN  [heard EXCEPT !.holds[i] = IF i \in mask THEN button ELSE Rest]

CancelTouches(w, i, refused) ==
    LET t == w.slot[i].touches
    IN  [slot |-> [w.slot EXCEPT ![i].touches = {}],
         host |-> IF ~w.slot[i].announced \/ t = {} THEN w.host
                  ELSE IF "cancel" \in refused THEN [w.host EXCEPT !.stuck[i] = @ \cup t]
                  ELSE [w.host EXCEPT !.touched[i] = {}, !.stuck[i] = {}]]

(* live is set by the first sample and stays until Stop, and every caller   *)
(* but Init has set it.                                                    *)
DisconnectSlot(w, i, refused) ==
    LET c    == CancelTouches(w, i, refused)
        told == IF c.slot[i].announced /\ "remove" \notin refused
                THEN Packet(c.host, i, WireMask(c) \ {i}, Rest)
                ELSE c.host
    IN  [slot |-> [c.slot EXCEPT ![i].connected = FALSE, ![i].announced = FALSE,
                                 ![i].sent = NoButton, ![i].due = TRUE,
                                 ![i].waiting = FALSE],
         host |-> told]

(* A new pad's waveform port is opened in the background. *)
SetConnection(w, i, p, refused) ==
    IF ~p.on
    THEN IF w.slot[i].connected THEN DisconnectSlot(w, i, refused) ELSE w
    ELSE LET d == IF w.slot[i].connected /\ w.slot[i].generation # p.count
                  THEN DisconnectSlot(w, i, refused) ELSE w
             g == [d EXCEPT !.slot[i].generation = p.count]
         IN  IF g.slot[i].connected THEN g
             ELSE [g EXCEPT !.slot[i] = [@ EXCEPT !.connected = TRUE, !.waiting = TRUE]]

Announce(w, i, refused) ==
    LET s == w.slot[i]
    IN  IF ~s.connected \/ s.announced \/ s.waiting \/ "arrive" \in refused THEN w
        ELSE [slot |-> [w.slot EXCEPT ![i].announced = TRUE],
              host |-> Hears(w.host, WireMask(w) \cup {i}, {i})]

(* ExtendedInput after Announce: the fingers that left and came, and the   *)
(* sample kept for the keepalive, which the primary pad has none of here.  *)
Fingers(w, i, s, refused) ==
    LET now  == IF s.chord THEN {} ELSE s.touches
        gone == w.slot[i].touches \ now
        new  == now \ w.slot[i].touches
    IN  [slot |-> [w.slot EXCEPT ![i].touches = now,
                                 ![i].button = IF i = 0 THEN Rest ELSE s.button],
         host |-> IF "touch" \in refused THEN [w.host EXCEPT !.stuck[i] = @ \cup gone]
                  ELSE [w.host EXCEPT !.touched[i] = (@ \ gone) \cup new,
                                      !.stuck[i] = @ \ (gone \cup new)]]

(* ExtendedInput, with c the world after SetConnection and a that after    *)
(* Announce.  suppressed: the system menu is over the game, or the pad is  *)
(* used as a mouse or a keyboard.                                          *)
ExtendedInput(c, a, i, p, suppressed, refused) ==
    IF ~c.slot[i].connected THEN c
    ELSE IF suppressed
    THEN [CancelTouches(c, i, refused) EXCEPT !.slot[i].intercepted = TRUE]
    ELSE IF ~a.slot[i].announced THEN a
    ELSE Fingers(a, i, p.shows, refused)

Resumed(c, i) == [c EXCEPT !.slot[i].intercepted = FALSE]

SlotsBecome(w) == slot' = w.slot /\ padHost' = w.host

-----------------------------------------------------------------------------
(* The input loop *)

(* Discover: the pads of users who left are let go, the users who came get *)
(* the first free slot.  At most four users log in, so there is one.       *)
LetGo(w, i, login, refused) ==
    LET left == w.slot[i].user \notin login
    IN  IF i = 0
        THEN IF w.slot[0].connected /\ left THEN DisconnectSlot(w, 0, refused) ELSE w
        ELSE IF w.slot[i].user = NoUser \/ ~left THEN w
        ELSE [DisconnectSlot(w, i, refused) EXCEPT !.slot[i] = EmptySlot]

TakeIn(w, u, p, refused) ==
    LET free == {i \in Slots \ {0} : w.slot[i].user = NoUser}
        i    == CHOOSE j \in free : \A k \in free : j <= k
    IN  IF (\E j \in Slots : w.slot[j].user = u) \/ free = {} THEN w
        ELSE SetConnection([w EXCEPT !.slot[i].user = u], i, p, refused)

(* ... for every slot in turn. *)
AllLetGo(w, login, refused) ==
    LET upTo[n \in 0..SlotCount] ==
            IF n = 0 THEN w ELSE LetGo(upTo[n - 1], n - 1, login, refused)
    IN  upTo[SlotCount]

(* Of the users who came, at most one has a pad that opens between two     *)
(* searches; only whether it is on is read.                                *)
Opened(login) ==
    {<<NoUser, PadOff>>} \cup
    (IF settled THEN {<<u, padStill[u]>> : u \in login} ELSE login \X {PadOff, PadPressed})

TakenIn(w, came, refused) ==
    IF came[1] = NoUser THEN w ELSE TakeIn(w, came[1], came[2], refused)

(* Poll's search for users, once a second. *)
Discover ==
    /\ phase = "live"
    /\ \E login \in LoggedIn, refused \in Refusals :
       \E came \in Opened(login) :
       \E v \in {AllLetGo(SlotWorld, login, refused)} :
       \E w \in {TakenIn(v, came, refused)} : SlotsBecome(w)
    /\ UNCHANGED <<phase, padStill>>

(* PrimarySample: the input loop read the primary pad.  It suppresses a pad *)
(* it uses as a mouse or a keyboard, as if the menu were open.  Its         *)
(* fingers take the same way as those of the other pads, and are left out. *)
Fingerless(p) ==
    [on |-> p.on, count |-> p.count,
     shows |-> [button |-> p.shows.button, touches |-> {}, chord |-> FALSE, menu |-> p.shows.menu]]

PrimarySample ==
    /\ phase = "live"
    /\ \E p \in {Fingerless(p) : p \in PadOf(Primary)}, refused \in Refusals :
       \E c \in {SetConnection(SlotWorld, 0, p, refused)} :
       \E a \in {Announce(Resumed(c, 0), 0, refused)} :
       \E w \in {ExtendedInput(c, a, 0, p, p.shows.menu \/ ~p.on, refused)} :
           SlotsBecome(w)
    /\ UNCHANGED <<phase, padStill>>

(* SendPrimary: what the input loop makes of the sample, or a keepalive.   *)
(* Which buttons it holds is the input loop's matter.                      *)
SendPrimary ==
    /\ phase = "live"
    /\ slot[0].connected
    /\ \E refused \in Refusals :
       \E a \in {Announce(SlotWorld, 0, refused)} :
           SlotsBecome(IF ~a.slot[0].announced \/ "send" \in refused THEN a
                   ELSE [a EXCEPT !.host = Packet(@, 0, WireMask(a), Rest)])
    /\ UNCHANGED <<phase, padStill>>

Suppressed(i, button) == IF slot[i].intercepted THEN Rest ELSE button

(* SendSample that repeats nothing at the idle interval. *)
SendSampleOnce(a, i, p, refused) ==
    LET s == a.slot[i]
        button == IF p.shows.menu THEN Rest ELSE p.shows.button
    IN  IF ~s.connected \/ ~s.announced \/ s.sent = button \/ "send" \in refused
        THEN a
        ELSE [slot |-> [a.slot EXCEPT ![i].sent = button, ![i].due = FALSE],
              host |-> Packet(a.host, i, WireMask(a), button)]

(* One slot's turn in Poll when its pad had samples; the newest counts. *)
SendSample(a, i, p, refused) ==
    LET s == a.slot[i]
        button == IF p.shows.menu THEN Rest ELSE p.shows.button
    IN  IF ~s.connected \/ ~s.announced \/ (s.sent = button /\ ~s.due) \/ "send" \in refused
        THEN a
        ELSE [slot |-> [a.slot EXCEPT ![i].sent = button, ![i].due = FALSE],
              host |-> Packet(a.host, i, WireMask(a), button)]

PollSlot(i) ==
    /\ phase = "live"
    /\ slot[i].user # NoUser
    /\ \E p \in PadOf(slot[i].user), refused \in Refusals :
       \E c \in {SetConnection(SlotWorld, i, p, refused)} :
       \E a \in {Announce(Resumed(c, i), i, refused)} :
       \E x \in {ExtendedInput(c, a, i, p, p.shows.menu, refused)} :
       \E b \in {Announce(x, i, refused)} :
       \E w \in {SendSample(b, i, p, refused)} : SlotsBecome(w)
    /\ UNCHANGED <<phase, padStill>>

(* ... and when it had none: the newest sample again, at the idle interval. *)
KeepAlive(i) ==
    /\ phase = "live"
    /\ slot[i].connected /\ slot[i].due /\ slot[i].announced
    /\ slot' = [slot EXCEPT ![i].due = FALSE]
    /\ \E refused \in Refusals :
           padHost' = IF "send" \in refused THEN padHost
                      ELSE Packet(padHost, i, WireMask(SlotWorld), Suppressed(i, slot[i].button))
    /\ UNCHANGED <<phase, padStill>>

(* Stop: every pad is taken off the host, slot by slot. *)
Stopped(w, refusing) ==
    LET upTo[n \in 0..SlotCount] ==
            IF n = 0 THEN w
            ELSE DisconnectSlot(upTo[n - 1], n - 1, IF n - 1 \in refusing THEN Events ELSE {})
    IN  upTo[SlotCount]

StopSlots ==
    /\ phase = "live"
    /\ phase' = "stopped"
    /\ \E refusing \in IF settled THEN {{}} ELSE SUBSET Slots :
           SlotsBecome(Stopped(SlotWorld, refusing))
    /\ UNCHANGED padStill

(* Shutdown, after which the connection to the host is closed. *)
ShutdownSlots ==
    /\ phase = "stopped"
    /\ phase' = "off"
    /\ slot' = [i \in Slots |-> EmptySlot]
    /\ padHost' = EmptyHost
    /\ UNCHANGED padStill

(* The program's Init: the slots before the connection is made.  Nothing  *)
(* is announced yet, so nothing is sent.                                   *)
Start ==
    /\ phase = "off" /\ ~settled
    /\ phase' = "live"
    /\ \E login \in LoggedIn, p \in PadOf(Primary) :
           LET fresh == [slot |-> [i \in Slots |-> IF i = 0 THEN [EmptySlot EXCEPT !.user = Primary]
                                                            ELSE EmptySlot],
                         host |-> EmptyHost]
           IN  \E came \in Opened(login) :
               \E w \in {TakenIn(SetConnection(fresh, 0, p, {}), came, {})} : SlotsBecome(w)
    /\ UNCHANGED padStill

-----------------------------------------------------------------------------
(* Time, the players, the network *)

(* The idle interval of slot i is over. *)
IdlePasses(i) ==
    /\ ~slot[i].due
    /\ slot' = [slot EXCEPT ![i].due = TRUE]
    /\ UNCHANGED <<phase, padHost, padStill>>

(* The waveform port opened, failed to, or 50 ms are over. *)
PortSettles(i) ==
    /\ slot[i].waiting
    /\ slot' = [slot EXCEPT ![i].waiting = FALSE]
    /\ UNCHANGED <<phase, padHost, padStill>>

(* From here on nothing changes around the program.  The primary pad is    *)
(* there: its keepalives carry the mask.                                   *)
SlotsRest ==
    /\ ~settled /\ phase = "live"
    /\ \E on \in SUBSET Users :
           /\ Primary \in on
           /\ padStill' = [u \in Users |-> IF u \in on THEN PadPressed ELSE PadOff]
    /\ UNCHANGED <<phase, slot, padHost>>

SlotsOver == phase = "off" /\ settled /\ UNCHANGED ctlVars

SlotsInit ==
    /\ phase = "off"
    /\ slot = [i \in Slots |-> EmptySlot]
    /\ padHost = EmptyHost
    /\ padStill = Unsettled

SlotsNext ==
    \/ Start \/ Discover \/ PrimarySample \/ SendPrimary \/ StopSlots \/ ShutdownSlots
    \/ \E i \in Slots \ {0} : PollSlot(i) \/ KeepAlive(i) \/ IdlePasses(i)
    \/ \E i \in Slots : PortSettles(i)
    \/ SlotsRest \/ SlotsOver

(* The input loop runs every 4 ms, a pad reports hundreds of samples a      *)
(* second, time passes.  Only what happens after the rest needs it, and that *)
(* only where there is something left to do.                               *)
SearchDue ==
    LET taken == {slot[i].user : i \in Slots}
    IN  settled /\ (\E u \in Users : padStill[u].on # (u \in taken))

SlotsFairness ==
    /\ WF_ctlVars(SearchDue /\ Discover)
    /\ WF_ctlVars(settled /\ ~slot[0].announced /\ PrimarySample)
    /\ WF_ctlVars(settled /\ padHost.present # WireMask(SlotWorld) /\ SendPrimary)
    /\ \A i \in Slots \ {0} : /\ WF_ctlVars(settled /\ PollSlot(i))
                              /\ WF_ctlVars(settled /\ IdlePasses(i))
    /\ WF_ctlVars(settled /\ \E i \in Slots : PortSettles(i))

SlotsSpec == SlotsInit /\ [][SlotsNext]_ctlVars /\ SlotsFairness

-----------------------------------------------------------------------------
(* Properties *)

(* The host has every controller it was told of, and none it was not: no   *)
(* packet of one pad removes another, or makes one up before its arrival,  *)
(* with its type and capabilities, has been received.                      *)
HostAgrees == WireMask(SlotWorld) \subseteq padHost.present /\ padHost.present \subseteq padHost.arrived

(* A finger the host still sees is on the pad, or was there when the host   *)
(* refused to hear of its lifting: no touch outlives the menu, the remote   *)
(* chord, a lost pad or a new user in the slot.                            *)
TouchesLift ==
    \A i \in Slots : padHost.touched[i] \subseteq slot[i].touches \cup padHost.stuck[i]

(* Stop leaves the host without controllers when it refuses nothing, even  *)
(* those whose removal it refused before: the last packets name none.      *)
StopClears ==
    [][phase = "live" /\ phase' = "stopped" /\ settled /\ WireMask(SlotWorld) # {} =>
           padHost'.present = {}]_ctlVars

(* Where it ends once players and network rest: the host has just the pads *)
(* that are on, and holds what those of the further players show, however  *)
(* many changes and refused packets there were before.                     *)
HostFollows == settled /\ phase = "live" =>
    /\ padHost.present = {i \in Slots : slot[i].user # NoUser /\ padStill[slot[i].user].on}
    /\ \A i \in padHost.present \ {0} :
           LET s == padStill[slot[i].user].shows
           IN  padHost.holds[i] = IF s.menu THEN Rest ELSE s.button

ControllersOK == SlotsTypeOK /\ HostAgrees /\ TouchesLift

=============================================================================
