------------------------------ MODULE Haptics ------------------------------
(***************************************************************************)
(* One controller's waveform output (src/ps5_waveform.cpp) beside its      *)
(* ordinary rumble (ApplyOutput in src/ps5_dualsense.cpp).                 *)
(*                                                                         *)
(* Three threads: the input loop, which owns the pad's motors and its      *)
(* vibration mode and decides whose port it is; the control stream, which  *)
(* pushes packets; and the slot's worker, which owns the audio port.  They *)
(* share one mutex, which the driver calls and the input loop's pad calls  *)
(* are made without, and four atomics: ready, active, permitted and the    *)
(* inbox's indices.  One action is one stretch between two of those.       *)
(***************************************************************************)
EXTENDS Naturals, Sequences

CONSTANTS MaxEpoch,   \* bound: changes of a port's owner
          MaxToken,   \* bound: effects after which no more sound comes
          InboxSize

ASSUME HapticsAssumption == MaxEpoch \in Nat /\ InboxSize \in Nat

VARIABLES
    pad,     \* the slot's output state, and the motors' own
    ppc,     \* where ApplyOutput is: "poll", "allow", "store", "legacy"
    seen,    \* the token ApplyOutput read
    sink,    \* sinks[slot]: what is shared
    play,    \* its Playout
    inbox,   \* its packets, oldest first
    push,    \* the packet being copied in, or NoPacket
    work,    \* the worker's locals and its place
    quiet    \* nothing changes around the program any more

vars == <<pad, ppc, seen, sink, play, inbox, push, work, quiet>>

Modes == {"Unknown", "Native", "Legacy"}

(* of: the epoch a packet was pushed for; loud: it has a nonzero sample;   *)
(* fresh: no stall has been recorded since its arrival.                    *)
Packets == [of : 1..MaxEpoch, loud : BOOLEAN, fresh : BOOLEAN]
NoPacket == [of |-> 0, loud |-> FALSE, fresh |-> FALSE]

(* defies: the motors turned on although they were told to stop for the    *)
(* menu; the driver refused that call, which the code does not look at.    *)
Outputs ==
    [connected : BOOLEAN, intercepted : BOOLEAN, mode : Modes, rumble : 0..1, motor : 0..1,
     dirty : BOOLEAN, native : BOOLEAN, asked : BOOLEAN, defies : BOOLEAN]

(* opened: statistics.open_result is not 0.  started: the worker runs.     *)
Sinks ==
    [epoch : Nat, user : BOOLEAN, opened : BOOLEAN, next : Nat, ready : Nat, active : Nat,
     permitted : Nat, started : BOOLEAN]

Playouts == [effect : BOOLEAN, primed : BOOLEAN, loud : BOOLEAN, of : Nat]

Workers ==
    [pc : {"top", "retire", "open", "mix", "out"}, epoch : Nat, user : BOOLEAN, owned : Nat,
     port : Nat, failed : BOOLEAN, grain : {"none", "effect", "ending"}, of : Nat]

TypeOK ==
    /\ pad \in Outputs /\ ppc \in {"poll", "allow", "store", "legacy"} /\ seen \in Nat
    /\ sink \in Sinks /\ play \in Playouts
    /\ inbox \in Seq(Packets) /\ Len(inbox) <= InboxSize
    /\ push \in Packets \cup {NoPacket}
    /\ work \in Workers /\ quiet \in BOOLEAN

EmptyPad ==
    [connected |-> FALSE, intercepted |-> FALSE, mode |-> "Unknown", rumble |-> 0,
     motor |-> 0, dirty |-> FALSE, native |-> FALSE, asked |-> FALSE, defies |-> FALSE]

NoEffect == [effect |-> FALSE, primed |-> FALSE, loud |-> FALSE, of |-> 0]

(* Pad calls and the driver's may fail until all is at rest. *)
Outcomes == IF quiet THEN {TRUE} ELSE BOOLEAN

-----------------------------------------------------------------------------
(* The input loop *)

(* Configure, and Disable, which is Configure for nobody.  A worker that   *)
(* cannot be started is tried again by the next call.                      *)
Configure(user, starts) ==
    /\ sink.epoch < MaxEpoch
    /\ sink' = [sink EXCEPT !.epoch = @ + 1, !.user = user, !.opened = ~user, !.ready = 0,
                            !.permitted = 0, !.started = @ \/ (user /\ starts)]
    /\ play' = NoEffect

(* A mode switch to native that succeeded, or did not. *)
GoNative(p, ok, starts) ==
    /\ pad' = [p EXCEPT !.mode = IF ok THEN "Native" ELSE "Unknown"]
    /\ Configure(ok, starts)

(* A pad that was off has its motors at rest. *)
Connect ==
    /\ ~quiet /\ ppc = "poll" /\ ~pad.connected
    /\ \E ok, starts \in BOOLEAN :
           GoNative([pad EXCEPT !.connected = TRUE, !.motor = 0, !.asked = FALSE,
                                !.defies = FALSE], ok, starts)
    /\ UNCHANGED <<ppc, seen, inbox, push, work, quiet>>

(* ResetOutput whatever plays. *)
ResetOutputAlways(p, moded, stopped) ==
    [p EXCEPT !.dirty = FALSE, !.native = FALSE, !.mode = IF moded THEN "Legacy" ELSE "Unknown",
              !.motor = IF stopped THEN 0 ELSE @]

(* ResetOutput: the mode and the motors are left alone under an effect. *)
ResetOutput(p, moded, stopped) ==
    LET q == [p EXCEPT !.dirty = FALSE, !.native = FALSE]
    IN  IF sink.active # 0 THEN q
        ELSE [q EXCEPT !.mode = IF moded THEN "Legacy" ELSE "Unknown",
                       !.motor = IF stopped THEN 0 ELSE @]

Disconnect ==
    /\ ~quiet /\ ppc = "poll" /\ pad.connected
    /\ Configure(FALSE, FALSE)
    /\ \E moded, stopped \in BOOLEAN :
           pad' = [ResetOutput(pad, moded, stopped) EXCEPT !.connected = FALSE]
    /\ UNCHANGED <<ppc, seen, inbox, push, work, quiet>>

(* The end of the stream, and the start of the next. *)
Shutdown ==
    /\ ~quiet /\ ppc = "poll"
    /\ Configure(FALSE, FALSE)
    /\ \E moded, stopped \in BOOLEAN :
           pad' = [EmptyPad EXCEPT !.motor = ResetOutput(pad, moded, stopped).motor,
                                   !.defies = pad.defies]
    /\ UNCHANGED <<ppc, seen, inbox, push, work, quiet>>

(* The system menu came over the game, or the pad became a mouse. *)
Suppress ==
    /\ ~quiet /\ ppc = "poll" /\ pad.connected /\ ~pad.intercepted
    /\ Configure(FALSE, FALSE)
    /\ \E stopped \in BOOLEAN :
           pad' = [pad EXCEPT !.intercepted = TRUE, !.motor = IF stopped THEN 0 ELSE @,
                              !.defies = ~stopped /\ pad.motor # 0]
    /\ UNCHANGED <<ppc, seen, inbox, push, work, quiet>>

Resume ==
    /\ ~quiet /\ ppc = "poll" /\ pad.connected /\ pad.intercepted
    /\ \E ok, starts \in BOOLEAN :
           GoNative([pad EXCEPT !.intercepted = FALSE, !.dirty = TRUE], ok, starts)
    /\ UNCHANGED <<ppc, seen, inbox, push, work, quiet>>

(* The host asks for ordinary rumble; the poll holds the same lock. *)
Rumble ==
    /\ ~quiet /\ ppc = "poll" /\ pad.connected
    /\ \E v \in 0..1 : pad' = [pad EXCEPT !.rumble = v, !.dirty = TRUE, !.asked = TRUE]
    /\ UNCHANGED <<ppc, seen, sink, play, inbox, push, work, quiet>>

(* ApplyOutput from the token's read to the acknowledgement. *)
YieldToWaveform ==
    LET p == [pad EXCEPT !.native = TRUE, !.dirty = TRUE]
    IN  \/ /\ pad' = [p EXCEPT !.motor = 0, !.mode = "Native", !.defies = FALSE]
           /\ ppc' = "allow"
           /\ UNCHANGED <<sink, play>>
        \/ /\ FALSE \in Outcomes
           /\ \E off \in BOOLEAN :
                  pad' = [p EXCEPT !.mode = "Unknown", !.motor = IF off THEN 0 ELSE @,
                                   !.defies = @ /\ ~off]
           /\ Configure(FALSE, FALSE)
           /\ ppc' = "poll"

Observe ==
    /\ ppc = "poll" /\ pad.connected /\ ~pad.intercepted
    /\ seen' = sink.active
    /\ LET native == sink.active # 0
       IN  \/ native /\ ~pad.native /\ YieldToWaveform
           \/ /\ ~(native /\ ~pad.native)
              /\ pad' = [pad EXCEPT !.native = native, !.dirty = @ \/ pad.native # native]
              /\ ppc' = IF native THEN IF pad.mode = "Native" THEN "allow" ELSE "poll"
                        ELSE IF pad'.dirty THEN "legacy" ELSE "poll"
              /\ UNCHANGED <<sink, play>>
    /\ UNCHANGED <<inbox, push, work, quiet>>

(* Allow: its two loads, and the store that may come too late. *)
AllowChecks ==
    /\ ppc = "allow"
    /\ ppc' = IF sink.ready # 0 /\ sink.active = seen THEN "store" ELSE "poll"
    /\ UNCHANGED <<pad, seen, sink, play, inbox, push, work, quiet>>

AllowStores ==
    /\ ppc = "store"
    /\ ppc' = "poll"
    /\ sink' = [sink EXCEPT !.permitted = seen]
    /\ UNCHANGED <<pad, seen, play, inbox, push, work, quiet>>

(* WriteRumble that forgets what it could not write. *)
WriteRumbleOnce ==
    /\ ppc = "legacy"
    /\ ppc' = "poll"
    /\ \E written \in Outcomes :
           pad' = [pad EXCEPT !.mode = "Legacy", !.dirty = FALSE,
                              !.motor = IF written THEN pad.rumble ELSE @]
    /\ UNCHANGED <<seen, sink, play, inbox, push, work, quiet>>

(* The rest of ApplyOutput: rumble waits until the port is open or is not  *)
(* going to be; what cannot be written is tried at the next poll.          *)
WriteRumble ==
    /\ ppc = "legacy"
    /\ ppc' = "poll"
    /\ IF sink.ready = 0 /\ ~sink.opened THEN UNCHANGED pad
       ELSE \E moded, written \in Outcomes :
            LET legacy == pad.mode = "Legacy" \/ moded
            IN  pad' = [pad EXCEPT !.mode = IF legacy THEN "Legacy" ELSE "Unknown",
                                   !.dirty = ~(legacy /\ written),
                                   !.defies = @ /\ ~(legacy /\ written),
                                   !.motor = IF legacy /\ written THEN pad.rumble ELSE @]
    /\ UNCHANGED <<seen, sink, play, inbox, push, work, quiet>>

-----------------------------------------------------------------------------
(* The control stream *)

(* Push from the load of ready to the copy.  The last sounds are bounded   *)
(* by the effects there were.                                              *)
PushBegins ==
    /\ ~quiet /\ push = NoPacket /\ sink.ready # 0
    /\ Len(inbox) < InboxSize
    /\ \E loud \in IF sink.next < MaxToken THEN BOOLEAN ELSE {FALSE} :
           push' = [of |-> sink.ready, loud |-> loud, fresh |-> TRUE]
    /\ UNCHANGED <<pad, ppc, seen, sink, play, inbox, work, quiet>>

PushPublishes ==
    /\ push # NoPacket
    /\ inbox' = Append(inbox, push)
    /\ push' = NoPacket
    /\ UNCHANGED <<pad, ppc, seen, sink, play, work, quiet>>

-----------------------------------------------------------------------------
(* The worker *)

AtTop(w) == [w EXCEPT !.pc = "top", !.grain = "none", !.of = 0]

(* The lock's read of epoch and user, and ready withdrawn. *)
Notice ==
    /\ work.pc = "top" /\ sink.started
    /\ work.owned # sink.epoch
    /\ work' = [work EXCEPT !.pc = "retire", !.epoch = sink.epoch, !.user = sink.user]
    /\ sink' = [sink EXCEPT !.ready = 0]
    /\ UNCHANGED <<pad, ppc, seen, play, inbox, push, quiet>>

(* A silent grain, the port closed, the effect over. *)
Retire ==
    /\ work.pc = "retire"
    /\ work' = [work EXCEPT !.pc = IF work.user THEN "open" ELSE "top", !.owned = work.epoch,
                            !.port = 0, !.failed = FALSE]
    /\ sink' = [sink EXCEPT !.active = 0]
    /\ UNCHANGED <<pad, ppc, seen, play, inbox, push, quiet>>

(* The port opened for the user read above, and published if it is still   *)
(* theirs.  open_result is noted whoever it is by now.  ready is never 0   *)
(* for a port in use.                                                      *)
OpenPort ==
    /\ work.pc = "open"
    /\ \E opens, stereo \in Outcomes :
       LET usable == opens /\ stereo
           theirs == usable /\ sink.epoch = work.epoch
       IN  /\ sink' = [sink EXCEPT !.opened = TRUE, !.ready = IF theirs THEN work.epoch ELSE @]
           /\ work' = [AtTop(work) EXCEPT !.port = IF usable THEN work.epoch ELSE 0,
                                          !.failed = ~theirs]
    /\ UNCHANGED <<pad, ppc, seen, play, inbox, push, quiet>>

(* Nothing changed: wait for the next grain's time. *)
Paces ==
    /\ work.pc = "top" /\ work.owned = sink.epoch
    /\ work.port # 0 /\ ~work.failed /\ sink.ready = sink.epoch
    /\ work' = [work EXCEPT !.pc = "mix"]
    /\ UNCHANGED <<pad, ppc, seen, sink, play, inbox, push, quiet>>

(* Playout's Receive and WantsOutput.  old: how many packets waited 60 ms. *)
Received(p, packets) ==
    LET loud == \E i \in 1..Len(packets) : packets[i].loud
        got  == \E i \in 1..Len(packets) : packets[i].loud \/ p.effect
    IN  [p EXCEPT !.effect = @ \/ loud, !.loud = @ \/ loud,
                  !.of = IF got THEN work.owned ELSE @]

(* Only packets of this epoch, younger than the last stall. *)
Accepted(old) ==
    SelectSeq(SubSeq(inbox, old + 1, Len(inbox)),
              LAMBDA m : m.of = work.owned /\ m.fresh)

(* The effect goes on: over says 60 ms passed since the last sound came,   *)
(* which cannot be while some is queued; filled that enough is queued.     *)
Wants(p, over, filled) ==
    IF ~p.effect \/ (over /\ ~p.loud) THEN NoEffect
    ELSE [p EXCEPT !.primed = @ \/ filled]

Popped(p, drained) == [p EXCEPT !.loud = @ /\ ~drained]

(* Starts an effect, plays a grain of a permitted one, or ends one. *)
Mixed(p, drained) ==
    LET token == IF sink.active = 0 THEN sink.next + 1 ELSE sink.active
        plays == p.primed /\ sink.permitted = token
    IN  /\ play' = IF plays THEN Popped(p, drained) ELSE p
        /\ sink' = IF p.primed /\ sink.active = 0
                   THEN [sink EXCEPT !.active = token, !.next = token] ELSE sink
        /\ work' = IF plays THEN [work EXCEPT !.pc = "out", !.grain = "effect", !.of = p.of]
                   ELSE IF ~p.primed /\ sink.active # 0
                   THEN [work EXCEPT !.pc = "out", !.grain = "ending"]
                   ELSE AtTop(work)

Mix ==
    /\ work.pc = "mix"
    /\ IF sink.epoch # work.owned
       THEN work' = AtTop(work) /\ UNCHANGED <<sink, play, inbox>>
       ELSE /\ inbox' = <<>>
            /\ \E old \in IF quiet THEN {0} ELSE 0..Len(inbox),
                  over, filled, drained \in Outcomes :
                  Mixed(Wants(Received(play, Accepted(old)), over, filled), drained)
    /\ UNCHANGED <<pad, ppc, seen, push, quiet>>

Stale(m) == [m EXCEPT !.fresh = FALSE]

(* The driver call returns; what is recorded concerns only the epoch it    *)
(* was made for.  A failure closes the port, a stall forgets the backlog,  *)
(* the packet being copied included.                                       *)
OutputReturns(ok, stalled) ==
    LET ours == sink.epoch = work.owned
        ends == ours /\ (work.grain = "ending" \/ ~ok \/ stalled)
        lost == ours /\ (~ok \/ stalled)
    IN  /\ sink' = [sink EXCEPT !.active = IF ends THEN 0 ELSE @,
                                !.permitted = IF ends THEN 0 ELSE @,
                                !.ready = IF ours /\ ~ok THEN 0 ELSE @]
        /\ play' = IF lost THEN NoEffect ELSE play
        /\ inbox' = IF ours /\ stalled THEN <<>> ELSE inbox
        /\ push' = IF ours /\ stalled /\ push # NoPacket THEN Stale(push) ELSE push
        /\ work' = [AtTop(work) EXCEPT !.port = IF ok THEN @ ELSE 0, !.failed = @ \/ ~ok]

Output ==
    /\ work.pc = "out"
    /\ \E ok \in Outcomes, stalled \in IF quiet THEN {FALSE} ELSE BOOLEAN :
           OutputReturns(ok, stalled)
    /\ UNCHANGED <<pad, ppc, seen, quiet>>

-----------------------------------------------------------------------------
(* From here on no call fails and nobody asks for anything.  A worker that *)
(* could not be started is out of this: its rumble waits for ever.         *)
ComesToRest ==
    /\ ~quiet /\ sink.started
    /\ quiet' = TRUE
    /\ UNCHANGED <<pad, ppc, seen, sink, play, inbox, push, work>>

(* Nobody comes, or the bound is reached. *)
Rests == (quiet \/ sink.epoch = MaxEpoch) /\ ppc = "poll" /\ UNCHANGED vars

Init ==
    /\ pad = EmptyPad /\ ppc = "poll" /\ seen = 0
    /\ sink = [epoch |-> 0, user |-> FALSE, opened |-> FALSE, next |-> 0, ready |-> 0,
               active |-> 0, permitted |-> 0, started |-> FALSE]
    /\ play = NoEffect /\ inbox = <<>> /\ push = NoPacket
    /\ work = [pc |-> "top", epoch |-> 0, user |-> FALSE, owned |-> 0, port |-> 0,
               failed |-> FALSE, grain |-> "none", of |-> 0]
    /\ quiet = FALSE

Poll == Observe \/ AllowChecks \/ AllowStores \/ WriteRumble
Worker == Notice \/ Retire \/ OpenPort \/ Paces \/ Mix \/ Output

Next ==
    \/ Connect \/ Disconnect \/ Shutdown \/ Suppress \/ Resume \/ Rumble \/ Poll
    \/ PushBegins \/ PushPublishes
    \/ Worker
    \/ ComesToRest \/ Rests

(* The input loop polls, the thread that pushes returns, the worker runs.  *)
(* Only what comes after the rest needs it.                                *)
Fairness ==
    /\ WF_vars(quiet /\ Poll)
    /\ WF_vars(quiet /\ PushPublishes)
    /\ WF_vars(quiet /\ Worker)

Spec == Init /\ [][Next]_vars /\ Fairness

-----------------------------------------------------------------------------
(* Properties *)

Playing == work.pc = "out" /\ work.grain = "effect"

(* The waveform and the motors never drive the pad together: while a grain *)
(* of an effect is in the driver the motors are not in their mode, and off *)
(* but where the driver refused to stop them for the menu, whatever the    *)
(* poll, the host and the worker did since the permission.                 *)
Alone == pad.mode # "Legacy" /\ (pad.motor = 0 \/ pad.defies)
WaveformAlone == Playing => Alone

(* A grain goes to the port of the owner it was received for, and a port   *)
(* the program calls ready is the present owner's.                         *)
EpochsApart ==
    /\ Playing => work.port = work.of /\ work.of # 0
    /\ play.of \in {0, sink.epoch}
    /\ sink.ready # 0 => sink.ready = sink.epoch /\ work.port = sink.epoch

(* Where it ends once all is at rest: the worker has given up the effect,  *)
(* and the motors do what the host asked for last, whatever was refused or *)
(* lost before.                                                            *)
RumbleReturns ==
    quiet /\ pad.connected /\ ~pad.intercepted =>
        /\ sink.active = 0
        /\ pad.asked => pad.motor = pad.rumble

HapticsOK == TypeOK /\ WaveformAlone /\ EpochsApart

=============================================================================
