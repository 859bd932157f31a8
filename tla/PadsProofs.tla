------------------------------ MODULE PadsProofs ------------------------------
(***************************************************************************)
(* Proofs about what the players hold in their hands.  The waveform output *)
(* (Haptics), for any number of owners and effects and any size of the     *)
(* inbox: whose port is played to, and that the motors rest while it is.   *)
(* USB devices (UsbInput: ps5_physical_* in src/moonlight_stream.cpp), the *)
(* primary pad (PadInput: its ps5_controller_ calls) and the slots of all  *)
(* pads (Controllers: ps5_dualsense.cpp), for any sets of pads, keys,      *)
(* buttons and users and any number of slots.  The four share no state.    *)
(***************************************************************************)
EXTENDS Haptics, PadInput, UsbInput, Controllers, SequenceTheorems, WellFoundedInduction, TLAPS

-----------------------------------------------------------------------------
(* The inductive invariant *)

\* The packet being copied still has its place in the inbox, and one that
\* nobody pushes is none.
InboxInv == push # NoPacket => Len(inbox) < InboxSize

\* The worker has a port only for the owner it serves, and calls it ready only
\* while that owner is the present one: ready is withdrawn before the worker
\* looks at another.
PortInv ==
    /\ sink.epoch <= MaxEpoch
    /\ work.port \in {0, work.owned}
    /\ sink.ready # 0 => sink.ready = sink.epoch /\ work.port = sink.epoch
    /\ work.pc \in {"retire", "open"} => sink.ready = 0
    /\ work.pc = "open" => work.owned = work.epoch
    /\ work.pc \in {"mix", "out"} => work.port # 0

\* What plays is the present owner's, or it was when its grain went out.
EffectInv ==
    /\ play.of \in {0, sink.epoch}
    /\ play.effect => play.of # 0
    /\ play.primed => play.effect
    /\ Playing => work.of = work.port

\* Tokens only grow, so what the pad saw and what it permitted can be told from
\* an effect that began later.
TokenInv ==
    /\ sink.active <= sink.next
    /\ seen <= sink.next
    /\ sink.permitted <= sink.next
    /\ ppc \in {"allow", "store"} => seen # 0

\* Whoever may play, or is about to be told so, finds the motors at rest, and
\* the poll not on its way to them.
MotorInv ==
    /\ pad.intercepted => ppc = "poll" /\ (pad.motor = 0 \/ pad.defies)
    /\ pad.native /\ pad.mode = "Native" => pad.motor = 0 \/ pad.defies
    /\ ppc \in {"allow", "store"} /\ seen = sink.active => Alone
    /\ sink.active # 0 /\ sink.permitted = sink.active => Alone /\ ppc # "legacy"
    /\ Playing => sink.active # 0 /\ Alone /\ ppc # "legacy"

HapticsInv == TypeOK /\ InboxInv /\ PortInv /\ EffectInv /\ TokenInv /\ MotorInv

LEMMA HapticsInit == Init => HapticsInv
<1> SUFFICES ASSUME Init PROVE HapticsInv
  OBVIOUS
<1>1. pad \in Outputs
  BY DEF Init, EmptyPad, Modes, Outputs
<1>2. sink \in Sinks /\ play \in Playouts /\ work \in Workers
  BY DEF Init, NoEffect, Sinks, Playouts, Workers
<1>3. inbox \in Seq(Packets) /\ Len(inbox) = 0
  BY EmptySeq DEF Init
<1>4. /\ ppc \in {"poll", "allow", "store", "legacy"} /\ seen \in Nat
      /\ push \in Packets \cup {NoPacket} /\ quiet \in BOOLEAN
  BY DEF Init
<1>5. TypeOK
  BY <1>1, <1>2, <1>3, <1>4, HapticsAssumption DEF TypeOK
<1> QED
  BY <1>5, HapticsAssumption DEF Init, HapticsInv, InboxInv, PortInv, EffectInv, TokenInv, MotorInv,
     EmptyPad, NoEffect, Playing

-----------------------------------------------------------------------------
(* Types *)

\* Every field of a pad's output state may change.
LEMMA OutputsType ==
  ASSUME NEW p \in Outputs, NEW m \in Modes, NEW v \in 0..1, NEW d \in BOOLEAN,
         NEW n \in BOOLEAN, NEW y \in BOOLEAN
  PROVE  [p EXCEPT !.mode = m, !.motor = v, !.dirty = d, !.native = n, !.defies = y] \in Outputs
BY DEF Outputs

LEMMA ConfigureType ==
  ASSUME TypeOK, NEW user \in BOOLEAN, NEW starts \in BOOLEAN, Configure(user, starts)
  PROVE  sink' \in Sinks /\ play' \in Playouts
<1>1. sink \in Sinks
  BY DEF TypeOK
<1>2. sink' = [epoch |-> sink.epoch + 1, user |-> user, opened |-> ~user, ready |-> 0,
               permitted |-> 0, next |-> sink.next, active |-> sink.active,
               started |-> sink.started \/ (user /\ starts)]
  BY <1>1 DEF Configure, Sinks
<1>3. play' \in Playouts
  BY DEF Configure, Playouts, NoEffect
<1> QED
  BY <1>1, <1>2, <1>3 DEF Sinks

LEMMA GoNativeType ==
  ASSUME TypeOK, NEW p \in Outputs, NEW ok \in BOOLEAN, NEW starts \in BOOLEAN,
         GoNative(p, ok, starts)
  PROVE  pad' \in Outputs /\ sink' \in Sinks /\ play' \in Playouts
<1>1. PICK m \in Modes : m = IF ok THEN "Native" ELSE "Unknown"
  BY DEF Modes
<1>2. pad' \in Outputs
  BY <1>1 DEF GoNative, Outputs
<1> QED
  BY <1>2, ConfigureType DEF GoNative

LEMMA ResetOutputType ==
  ASSUME NEW p \in Outputs, NEW moded \in BOOLEAN, NEW stopped \in BOOLEAN
  PROVE  /\ ResetOutput(p, moded, stopped) \in Outputs
         /\ ResetOutput(p, moded, stopped).motor \in 0..1
<1>1. CASE sink.active # 0
  BY <1>1 DEF ResetOutput, Outputs
<1>2. CASE sink.active = 0
  <2>1. PICK m \in Modes : m = IF moded THEN "Legacy" ELSE "Unknown"
    BY DEF Modes
  <2>2. PICK v \in 0..1 : v = IF stopped THEN 0 ELSE p.motor
    BY DEF Outputs
  <2>3. ResetOutput(p, moded, stopped)
          = [p EXCEPT !.dirty = FALSE, !.native = FALSE, !.mode = m, !.motor = v]
    BY <1>2, <2>1, <2>2 DEF ResetOutput, Outputs
  <2> QED
    BY <2>3 DEF Outputs
<1> QED
  BY <1>1, <1>2

LEMMA PlayerType ==
  TypeOK /\ (Connect \/ Disconnect \/ Shutdown \/ Suppress \/ Resume \/ Rumble) => TypeOK'
<1> SUFFICES ASSUME TypeOK, Connect \/ Disconnect \/ Shutdown \/ Suppress \/ Resume \/ Rumble
             PROVE  TypeOK'
  OBVIOUS
<1>0. pad \in Outputs
  BY DEF TypeOK
<1>1. CASE Connect
  <2>1. PICK on \in BOOLEAN : on = TRUE
    OBVIOUS
  <2>2. PICK off \in BOOLEAN : off = FALSE
    OBVIOUS
  <2>3. PICK none \in 0..1 : none = 0
    OBVIOUS
  <2>4. [pad EXCEPT !.connected = on, !.motor = none, !.asked = off, !.defies = off] \in Outputs
    BY <1>0 DEF Outputs
  <2>5. [pad EXCEPT !.connected = TRUE, !.motor = 0, !.asked = FALSE, !.defies = FALSE] \in Outputs
    BY <2>1, <2>2, <2>3, <2>4
  <2> QED
    BY <1>1, <2>5, GoNativeType DEF Connect, TypeOK
<1>2. CASE Disconnect
  <2>1. sink' \in Sinks /\ play' \in Playouts
    BY <1>2, ConfigureType DEF Disconnect
  <2>2. PICK moded \in BOOLEAN, stopped \in BOOLEAN :
          pad' = [ResetOutput(pad, moded, stopped) EXCEPT !.connected = FALSE]
    BY <1>2 DEF Disconnect
  <2>3. PICK q \in Outputs : q = ResetOutput(pad, moded, stopped)
    BY <1>0, ResetOutputType
  <2>4. pad' \in Outputs
    BY <2>2, <2>3 DEF Outputs
  <2> QED
    BY <1>2, <2>1, <2>4 DEF Disconnect, TypeOK
<1>3. CASE Shutdown
  <2>1. sink' \in Sinks /\ play' \in Playouts
    BY <1>3, ConfigureType DEF Shutdown
  <2>2. PICK moded \in BOOLEAN, stopped \in BOOLEAN :
          pad' = [EmptyPad EXCEPT !.motor = ResetOutput(pad, moded, stopped).motor,
                                  !.defies = pad.defies]
    BY <1>3 DEF Shutdown
  <2>3. EmptyPad \in Outputs
    BY DEF EmptyPad, Outputs, Modes
  <2>4. pad' \in Outputs
    <3>1. PICK v \in 0..1, y \in BOOLEAN :
            v = ResetOutput(pad, moded, stopped).motor /\ y = pad.defies
      BY <1>0, ResetOutputType DEF Outputs
    <3> QED
      BY <2>2, <2>3, <3>1 DEF Outputs
  <2> QED
    BY <1>3, <2>1, <2>4 DEF Shutdown, TypeOK
<1>4. CASE Suppress
  <2>1. sink' \in Sinks /\ play' \in Playouts
    BY <1>4, ConfigureType DEF Suppress
  <2>2. PICK stopped \in BOOLEAN :
          pad' = [pad EXCEPT !.intercepted = TRUE, !.motor = IF stopped THEN 0 ELSE @,
                             !.defies = ~stopped /\ pad.motor # 0]
    BY <1>4 DEF Suppress
  <2>3. PICK v \in 0..1 : v = IF stopped THEN 0 ELSE pad.motor
    BY <1>0 DEF Outputs
  <2>4. PICK y \in BOOLEAN : y = (~stopped /\ pad.motor # 0)
    OBVIOUS
  <2>5. PICK on \in BOOLEAN : on = TRUE
    OBVIOUS
  <2>6. pad' = [pad EXCEPT !.intercepted = on, !.motor = v, !.defies = y]
    BY <1>0, <2>2, <2>3, <2>4, <2>5 DEF Outputs
  <2>7. pad' \in Outputs
    BY <1>0, <2>6 DEF Outputs
  <2> QED
    BY <1>4, <2>1, <2>7 DEF Suppress, TypeOK
<1>5. CASE Resume
  <2>1. [pad EXCEPT !.intercepted = FALSE, !.dirty = TRUE] \in Outputs
    BY <1>0 DEF Outputs
  <2> QED
    BY <1>5, <2>1, GoNativeType DEF Resume, TypeOK
<1>6. CASE Rumble
  <2>1. pad' \in Outputs
    BY <1>0, <1>6 DEF Rumble, Outputs
  <2> QED
    BY <1>6, <2>1 DEF Rumble, TypeOK
<1> QED
  BY <1>1, <1>2, <1>3, <1>4, <1>5, <1>6

LEMMA PollType == TypeOK /\ Poll => TypeOK'
<1> SUFFICES ASSUME TypeOK, Poll PROVE TypeOK'
  OBVIOUS
<1>0. pad \in Outputs /\ sink \in Sinks /\ seen \in Nat
  BY DEF TypeOK
<1>1. CASE Observe
  <2>0. seen' \in Nat /\ UNCHANGED <<inbox, push, work, quiet>>
    BY <1>0, <1>1 DEF Observe, Sinks
  <2>1. CASE sink.active # 0 /\ ~pad.native /\ YieldToWaveform
    <3>1. PICK on \in BOOLEAN : on = TRUE
      OBVIOUS
    <3>2. pad' \in Outputs
      <4>1. CASE pad' = [pad EXCEPT !.native = TRUE, !.dirty = TRUE, !.motor = 0, !.mode = "Native",
                                    !.defies = FALSE]
        <5>1. PICK m \in Modes, none \in 0..1 : m = "Native" /\ none = 0
          BY DEF Modes
        <5>2. PICK y \in BOOLEAN : y = FALSE
          OBVIOUS
        <5>3. pad' = [pad EXCEPT !.native = on, !.dirty = on, !.motor = none, !.mode = m, !.defies = y]
          BY <3>1, <4>1, <5>1, <5>2
        <5> QED
          BY <1>0, <5>3 DEF Outputs
      <4>2. ASSUME NEW off \in BOOLEAN,
                   pad' = [pad EXCEPT !.native = TRUE, !.dirty = TRUE, !.mode = "Unknown",
                                      !.motor = IF off THEN 0 ELSE pad.motor,
                                      !.defies = pad.defies /\ ~off]
            PROVE  pad' \in Outputs
        <5>1. PICK v \in 0..1 : v = IF off THEN 0 ELSE pad.motor
          BY <1>0 DEF Outputs
        <5>2. PICK y \in BOOLEAN : y = (pad.defies /\ ~off)
          OBVIOUS
        <5>3. PICK m \in Modes : m = "Unknown"
          BY DEF Modes
        <5>4. pad' = [pad EXCEPT !.native = on, !.dirty = on, !.mode = m, !.motor = v, !.defies = y]
          BY <3>1, <4>2, <5>1, <5>2, <5>3
        <5> QED
          BY <1>0, <5>4 DEF Outputs
      <4> QED
        BY <1>0, <2>1, <4>1, <4>2 DEF YieldToWaveform, Outputs
    <3>3. sink' \in Sinks /\ play' \in Playouts
      BY <2>1, ConfigureType DEF YieldToWaveform, TypeOK
    <3> QED
      BY <2>0, <2>1, <3>2, <3>3 DEF YieldToWaveform, TypeOK
  <2>2. CASE ~(sink.active # 0 /\ ~pad.native)
    <3>1. PICK n \in BOOLEAN, d \in BOOLEAN : pad' = [pad EXCEPT !.native = n, !.dirty = d]
      BY <1>0, <1>1, <2>2 DEF Observe, Outputs
    <3>2. pad' \in Outputs
      BY <1>0, <3>1 DEF Outputs
    <3> QED
      BY <1>1, <2>0, <2>2, <3>2 DEF Observe, TypeOK
  <2> QED
    BY <1>1, <2>1, <2>2 DEF Observe
<1>2. CASE AllowChecks
  BY <1>2 DEF AllowChecks, TypeOK
<1>3. CASE AllowStores
  <2>1. sink' \in Sinks
    BY <1>0, <1>3 DEF AllowStores, Sinks
  <2> QED
    BY <1>3, <2>1 DEF AllowStores, TypeOK
<1>4. CASE WriteRumble
  <2>1. CASE sink.ready = 0 /\ ~sink.opened
    BY <1>4, <2>1 DEF WriteRumble, TypeOK
  <2>2. CASE ~(sink.ready = 0 /\ ~sink.opened)
    <3>1. PICK moded \in Outcomes, written \in Outcomes :
            LET legacy == pad.mode = "Legacy" \/ moded
            IN  pad' = [pad EXCEPT !.mode = IF legacy THEN "Legacy" ELSE "Unknown",
                                   !.dirty = ~(legacy /\ written),
                                   !.defies = @ /\ ~(legacy /\ written),
                                   !.motor = IF legacy /\ written THEN pad.rumble ELSE @]
      BY <1>4, <2>2 DEF WriteRumble
    <3>2. PICK l \in BOOLEAN, d \in BOOLEAN : l = (pad.mode = "Legacy" \/ moded) /\ d = ~(l /\ written)
      OBVIOUS
    <3>3. /\ \E m \in Modes : m = IF l THEN "Legacy" ELSE "Unknown"
          /\ \E v \in 0..1 : v = IF l /\ written THEN pad.rumble ELSE pad.motor
          /\ \E y \in BOOLEAN : y = (pad.defies /\ d)
      BY <1>0 DEF Outputs, Modes
    <3>4. PICK m \in Modes, v \in 0..1, y \in BOOLEAN :
            /\ m = IF l THEN "Legacy" ELSE "Unknown"
            /\ v = IF l /\ written THEN pad.rumble ELSE pad.motor
            /\ y = (pad.defies /\ d)
      BY <3>3
    <3>5. pad' = [pad EXCEPT !.mode = m, !.dirty = d, !.defies = y, !.motor = v]
      BY <1>0, <3>1, <3>2, <3>4 DEF Outputs
    <3>6. pad' \in Outputs
      BY <1>0, <3>5 DEF Outputs
    <3> QED
      BY <1>4, <3>6 DEF WriteRumble, TypeOK
  <2> QED
    BY <2>1, <2>2
<1> QED
  BY <1>1, <1>2, <1>3, <1>4 DEF Poll

LEMMA OutcomesType == Outcomes \subseteq BOOLEAN
BY DEF Outcomes

LEMMA PushType ==
  TypeOK /\ InboxInv /\ PortInv /\ (PushBegins \/ PushPublishes) => TypeOK'
<1> SUFFICES ASSUME TypeOK, InboxInv, PortInv, PushBegins \/ PushPublishes PROVE TypeOK'
  OBVIOUS
<1>1. CASE PushBegins
  <2>1. PICK loud \in BOOLEAN : push' = [of |-> sink.ready, loud |-> loud, fresh |-> TRUE]
    BY <1>1 DEF PushBegins
  <2>2. sink.ready \in 1..MaxEpoch
    BY <1>1 DEF PushBegins, PortInv, TypeOK, Sinks
  <2>3. push' \in Packets
    BY <2>1, <2>2 DEF Packets
  <2> QED
    BY <1>1, <2>3 DEF PushBegins, TypeOK
<1>2. CASE PushPublishes
  <2>1. push \in Packets /\ inbox \in Seq(Packets) /\ Len(inbox) < InboxSize
    BY <1>2 DEF PushPublishes, TypeOK, InboxInv
  <2>2. inbox' \in Seq(Packets) /\ Len(inbox') = Len(inbox) + 1
    BY <1>2, <2>1, AppendProperties DEF PushPublishes
  <2>3. Len(inbox') <= InboxSize
    BY <2>1, <2>2, LenProperties, HapticsAssumption
  <2> QED
    BY <1>2, <2>2, <2>3 DEF PushPublishes, TypeOK
<1> QED
  BY <1>1, <1>2

LEMMA AtTopType ==
  ASSUME NEW w \in Workers
  PROVE  AtTop(w) \in Workers
<1>1. PICK c \in {"top", "retire", "open", "mix", "out"}, g \in {"none", "effect", "ending"},
           n \in Nat : c = "top" /\ g = "none" /\ n = 0
  OBVIOUS
<1>2. AtTop(w) = [w EXCEPT !.pc = c, !.grain = g, !.of = n]
  BY <1>1 DEF AtTop
<1> QED
  BY <1>2 DEF Workers

LEMMA ReceivedType ==
  ASSUME NEW p \in Playouts, work \in Workers, NEW packets
  PROVE  Received(p, packets) \in Playouts
<1>1. PICK e \in BOOLEAN : e = (p.effect \/ \E i \in 1..Len(packets) : packets[i].loud)
  OBVIOUS
<1>2. PICK l \in BOOLEAN : l = (p.loud \/ \E i \in 1..Len(packets) : packets[i].loud)
  OBVIOUS
<1>3. PICK n \in Nat :
        n = IF \E i \in 1..Len(packets) : packets[i].loud \/ p.effect THEN work.owned ELSE p.of
  BY DEF Playouts, Workers
<1>4. Received(p, packets) = [p EXCEPT !.effect = e, !.loud = l, !.of = n]
  BY <1>1, <1>2, <1>3 DEF Received
<1> QED
  BY <1>4 DEF Playouts

LEMMA WantsType ==
  ASSUME NEW p \in Playouts, NEW over \in BOOLEAN, NEW filled \in BOOLEAN
  PROVE  Wants(p, over, filled) \in Playouts
<1>1. NoEffect \in Playouts
  BY DEF NoEffect, Playouts
<1>2. PICK b \in BOOLEAN : b = (p.primed \/ filled)
  OBVIOUS
<1>3. [p EXCEPT !.primed = b] \in Playouts
  BY DEF Playouts
<1> QED
  BY <1>1, <1>2, <1>3 DEF Wants

LEMMA PoppedType ==
  ASSUME NEW p \in Playouts, NEW drained \in BOOLEAN
  PROVE  Popped(p, drained) \in Playouts
<1>1. PICK b \in BOOLEAN : b = (p.loud /\ ~drained)
  OBVIOUS
<1>2. [p EXCEPT !.loud = b] \in Playouts
  BY DEF Playouts
<1> QED
  BY <1>1, <1>2 DEF Popped

LEMMA MixedType ==
  ASSUME TypeOK, NEW p \in Playouts, NEW drained \in BOOLEAN, Mixed(p, drained)
  PROVE  sink' \in Sinks /\ play' \in Playouts /\ work' \in Workers
<1>0. sink \in Sinks /\ work \in Workers
  BY DEF TypeOK
<1>1. play' \in Playouts
  BY PoppedType DEF Mixed
<1>2. sink' \in Sinks
  <2>1. PICK n \in Nat : n = IF sink.active = 0 THEN sink.next + 1 ELSE sink.active
    BY <1>0 DEF Sinks
  <2>2. [sink EXCEPT !.active = n, !.next = n] \in Sinks
    BY <1>0 DEF Sinks
  <2> QED
    BY <1>0, <2>1, <2>2 DEF Mixed
<1>3. work' \in Workers
  <2>1. PICK c \in {"top", "retire", "open", "mix", "out"}, g \in {"none", "effect", "ending"},
             h \in {"none", "effect", "ending"} : c = "out" /\ g = "effect" /\ h = "ending"
    OBVIOUS
  <2>2. p.of \in Nat
    BY DEF Playouts
  <2>3. [work EXCEPT !.pc = c, !.grain = g, !.of = p.of] \in Workers
    BY <1>0, <2>2 DEF Workers
  <2>4. [work EXCEPT !.pc = c, !.grain = h] \in Workers
    BY <1>0 DEF Workers
  <2> QED
    BY <1>0, <2>1, <2>3, <2>4, AtTopType DEF Mixed
<1> QED
  BY <1>1, <1>2, <1>3

LEMMA OutputType ==
  ASSUME TypeOK, NEW ok \in BOOLEAN, NEW stalled \in BOOLEAN, OutputReturns(ok, stalled)
  PROVE  /\ sink' \in Sinks /\ play' \in Playouts /\ work' \in Workers
         /\ push' \in Packets \cup {NoPacket}
         /\ inbox' = inbox \/ inbox' = <<>>
<1>0. sink \in Sinks /\ work \in Workers /\ play \in Playouts
  BY DEF TypeOK
<1>1. play' \in Playouts
  BY <1>0 DEF OutputReturns, NoEffect, Playouts
<1>2. sink' \in Sinks
  <2>1. PICK a \in Nat, q \in Nat, n \in Nat :
          sink' = [sink EXCEPT !.active = a, !.permitted = q, !.ready = n]
    BY <1>0 DEF OutputReturns, Sinks
  <2> QED
    BY <1>0, <2>1 DEF Sinks
<1>3. work' \in Workers
  <2>1. PICK w \in Workers : w = AtTop(work)
    BY <1>0, AtTopType
  <2>2. PICK n \in Nat : n = IF ok THEN w.port ELSE 0
    BY DEF Workers
  <2>3. PICK f \in BOOLEAN : f = (w.failed \/ ~ok)
    OBVIOUS
  <2>4. work' = [w EXCEPT !.port = n, !.failed = f]
    BY <2>1, <2>2, <2>3 DEF OutputReturns
  <2> QED
    BY <2>4 DEF Workers
<1>4. push' \in Packets \cup {NoPacket}
  <2>1. CASE push' = Stale(push) /\ push # NoPacket
    <3>1. push \in Packets
      BY <2>1 DEF TypeOK
    <3>2. PICK f \in BOOLEAN : f = FALSE
      OBVIOUS
    <3>3. [push EXCEPT !.fresh = f] \in Packets
      BY <3>1 DEF Packets
    <3> QED
      BY <2>1, <3>2, <3>3 DEF Stale
  <2>2. CASE push' = push
    BY <2>2 DEF TypeOK
  <2> QED
    BY <2>1, <2>2 DEF OutputReturns
<1> QED
  BY <1>1, <1>2, <1>3, <1>4 DEF OutputReturns

LEMMA WorkerType == TypeOK /\ Worker => TypeOK'
<1> SUFFICES ASSUME TypeOK, Worker PROVE TypeOK'
  OBVIOUS
<1>0. sink \in Sinks /\ work \in Workers /\ play \in Playouts
  BY DEF TypeOK
<1>1. CASE Notice
  <2>1. PICK c \in {"top", "retire", "open", "mix", "out"} : c = "retire"
    OBVIOUS
  <2>2. sink.epoch \in Nat /\ sink.user \in BOOLEAN
    BY <1>0 DEF Sinks
  <2>3. work' \in Workers
    <3>1. work' = [work EXCEPT !.pc = c, !.epoch = sink.epoch, !.user = sink.user]
      BY <1>1, <2>1 DEF Notice
    <3> QED
      BY <1>0, <2>2, <3>1 DEF Workers
  <2>4. sink' \in Sinks
    BY <1>0, <1>1 DEF Notice, Sinks
  <2> QED
    BY <1>1, <2>3, <2>4 DEF Notice, TypeOK
<1>2. CASE Retire
  <2>1. PICK c \in {"top", "retire", "open", "mix", "out"} : c = IF work.user THEN "open" ELSE "top"
    OBVIOUS
  <2>2. PICK n \in Nat, o \in Nat : n = 0 /\ o = work.epoch
    BY <1>0 DEF Workers
  <2>3. PICK f \in BOOLEAN : f = FALSE
    OBVIOUS
  <2>4. work' = [work EXCEPT !.pc = c, !.owned = o, !.port = n, !.failed = f]
    BY <1>2, <2>1, <2>2, <2>3 DEF Retire
  <2>5. work' \in Workers
    BY <1>0, <2>4 DEF Workers
  <2>6. sink' \in Sinks
    BY <1>0, <1>2 DEF Retire, Sinks
  <2> QED
    BY <1>2, <2>5, <2>6 DEF Retire, TypeOK
<1>3. CASE OpenPort
  <2>1. PICK opens \in BOOLEAN, stereo \in BOOLEAN :
          LET usable == opens /\ stereo
              theirs == usable /\ sink.epoch = work.epoch
          IN  /\ sink' = [sink EXCEPT !.opened = TRUE, !.ready = IF theirs THEN work.epoch ELSE @]
              /\ work' = [AtTop(work) EXCEPT !.port = IF usable THEN work.epoch ELSE 0,
                                             !.failed = ~theirs]
    BY <1>3, OutcomesType DEF OpenPort
  <2>2. PICK on \in BOOLEAN : on = TRUE
    OBVIOUS
  <2>3. PICK u \in BOOLEAN : u = (opens /\ stereo)
    OBVIOUS
  <2>4. PICK f \in BOOLEAN : f = ~(u /\ sink.epoch = work.epoch)
    OBVIOUS
  <2>5. PICK n \in Nat, r \in Nat :
          n = (IF u THEN work.epoch ELSE 0) /\ r = (IF f THEN sink.ready ELSE work.epoch)
    BY <1>0 DEF Workers, Sinks
  <2>6. PICK w \in Workers : w = AtTop(work)
    BY <1>0, AtTopType
  <2>7. work' = [w EXCEPT !.port = n, !.failed = f]
    BY <2>1, <2>3, <2>4, <2>5, <2>6
  <2>8. sink' = [sink EXCEPT !.opened = on, !.ready = r]
    BY <2>1, <2>2, <2>3, <2>4, <2>5
  <2>9. work' \in Workers /\ sink' \in Sinks
    BY <1>0, <2>7, <2>8 DEF Workers, Sinks
  <2> QED
    BY <1>3, <2>9 DEF OpenPort, TypeOK
<1>4. CASE Paces
  <2>1. work' \in Workers
    BY <1>0, <1>4 DEF Paces, Workers
  <2> QED
    BY <1>4, <2>1 DEF Paces, TypeOK
<1>5. CASE Mix
  <2>1. CASE sink.epoch # work.owned
    <3>1. work' \in Workers
      BY <1>0, <1>5, <2>1, AtTopType DEF Mix
    <3> QED
      BY <1>5, <2>1, <3>1 DEF Mix, TypeOK
  <2>2. CASE sink.epoch = work.owned
    <3>1. PICK old \in 0..Len(inbox), over \in BOOLEAN, filled \in BOOLEAN, drained \in BOOLEAN :
            Mixed(Wants(Received(play, Accepted(old)), over, filled), drained)
      BY <1>5, <2>2, OutcomesType, LenProperties DEF Mix, TypeOK
    <3>2. Wants(Received(play, Accepted(old)), over, filled) \in Playouts
      BY <1>0, ReceivedType, WantsType
    <3>3. sink' \in Sinks /\ play' \in Playouts /\ work' \in Workers
      BY <3>1, <3>2, MixedType
    <3>4. inbox' \in Seq(Packets) /\ Len(inbox') <= InboxSize
      BY <1>5, <2>2, EmptySeq, HapticsAssumption DEF Mix
    <3> QED
      BY <1>5, <3>3, <3>4 DEF Mix, TypeOK
  <2> QED
    BY <2>1, <2>2
<1>6. CASE Output
  <2>1. PICK ok \in BOOLEAN, stalled \in BOOLEAN : OutputReturns(ok, stalled)
    BY <1>6, OutcomesType DEF Output
  <2>2. /\ sink' \in Sinks /\ play' \in Playouts /\ work' \in Workers
        /\ push' \in Packets \cup {NoPacket}
        /\ inbox' = inbox \/ inbox' = <<>>
    BY <2>1, OutputType
  <2>3. inbox \in Seq(Packets) /\ Len(inbox) <= InboxSize
    BY DEF TypeOK
  <2>4. <<>> \in Seq(Packets) /\ Len(<<>>) = 0 /\ InboxSize \in Nat
    BY EmptySeq, HapticsAssumption
  <2>5. inbox' \in Seq(Packets) /\ Len(inbox') <= InboxSize
    <3>1. CASE inbox' = inbox
      BY <2>3, <3>1
    <3>2. CASE inbox' = <<>>
      BY <2>4, <3>2
    <3> QED
      BY <2>2, <3>1, <3>2
  <2> QED
    BY <1>6, <2>2, <2>5 DEF Output, TypeOK
<1> QED
  BY <1>1, <1>2, <1>3, <1>4, <1>5, <1>6 DEF Worker

LEMMA TypeStep == HapticsInv /\ [Next]_vars => TypeOK'
<1> SUFFICES ASSUME HapticsInv, [Next]_vars PROVE TypeOK'
  OBVIOUS
<1>0. TypeOK /\ InboxInv /\ PortInv
  BY DEF HapticsInv
<1>1. CASE ComesToRest \/ Rests \/ UNCHANGED vars
  BY <1>0, <1>1 DEF ComesToRest, Rests, vars, TypeOK
<1> QED
  BY <1>0, <1>1, PlayerType, PollType, PushType, WorkerType DEF Next

-----------------------------------------------------------------------------
(* What the steps do to the shared state, field by field *)

LEMMA ConfigureFields ==
  ASSUME TypeOK, NEW user, NEW starts, Configure(user, starts)
  PROVE  /\ sink.epoch < MaxEpoch /\ sink'.epoch = sink.epoch + 1
         /\ sink'.ready = 0 /\ sink'.permitted = 0
         /\ sink'.active = sink.active /\ sink'.next = sink.next
         /\ play'.of = 0 /\ ~play'.effect /\ ~play'.primed
BY DEF Configure, NoEffect, TypeOK, Sinks

\* The input loop's own operations come between two polls and either pass the
\* port to another owner, or to nobody, or are a rumble.
LEMMA PlayerFields ==
  ASSUME TypeOK, Connect \/ Disconnect \/ Shutdown \/ Suppress \/ Resume \/ Rumble
  PROVE  /\ ppc = "poll" /\ UNCHANGED <<ppc, seen, inbox, push, work, quiet>>
         /\ \/ UNCHANGED <<sink, play>> /\ Rumble
            \/ \E user, starts : Configure(user, starts)
BY DEF Connect, Disconnect, Shutdown, Suppress, Resume, Rumble, GoNative

LEMMA AtTopFields ==
  ASSUME NEW w \in Workers
  PROVE  LET v == AtTop(w)
         IN  /\ v.pc = "top" /\ v.grain = "none"
             /\ v.owned = w.owned /\ v.epoch = w.epoch /\ v.port = w.port
BY DEF AtTop, Workers

LEMMA MixedFields ==
  ASSUME TypeOK, NEW p \in Playouts, NEW drained, Mixed(p, drained)
  PROVE  /\ sink'.epoch = sink.epoch /\ sink'.ready = sink.ready
         /\ sink'.permitted = sink.permitted
         /\ \/ sink.active = 0 /\ sink'.active = sink.next + 1 /\ sink'.next = sink.next + 1
            \/ sink'.active = sink.active /\ sink'.next = sink.next
         /\ work'.owned = work.owned /\ work'.port = work.port /\ work'.epoch = work.epoch
         /\ work'.pc \in {"top", "out"}
         /\ Playing' => /\ p.primed /\ work'.of = p.of
                        /\ sink.permitted = IF sink.active = 0 THEN sink.next + 1 ELSE sink.active
                        /\ sink.active # 0 => sink' = sink
         /\ play'.of = p.of /\ play'.effect = p.effect /\ play'.primed = p.primed
<1>0. sink \in Sinks /\ work \in Workers
  BY DEF TypeOK
<1>1. play'.of = p.of /\ play'.effect = p.effect /\ play'.primed = p.primed
  BY DEF Mixed, Popped, Playouts
<1>2. /\ sink'.epoch = sink.epoch /\ sink'.ready = sink.ready /\ sink'.permitted = sink.permitted
      /\ \/ sink.active = 0 /\ sink'.active = sink.next + 1 /\ sink'.next = sink.next + 1
         \/ sink'.active = sink.active /\ sink'.next = sink.next
      /\ sink.active # 0 => sink' = sink
  BY <1>0 DEF Mixed, Sinks
<1>3. CASE work' = AtTop(work)
  BY <1>0, <1>1, <1>2, <1>3, AtTopFields DEF Playing
<1>4. CASE work' = [work EXCEPT !.pc = "out", !.grain = "ending"]
  <2>1. /\ work'.owned = work.owned /\ work'.port = work.port /\ work'.epoch = work.epoch
        /\ work'.pc = "out" /\ work'.grain = "ending"
    BY <1>0, <1>4 DEF Workers
  <2> QED
    BY <1>1, <1>2, <2>1 DEF Playing
<1>5. CASE /\ work' = [work EXCEPT !.pc = "out", !.grain = "effect", !.of = p.of] /\ p.primed
           /\ sink.permitted = IF sink.active = 0 THEN sink.next + 1 ELSE sink.active
  <2>1. /\ work'.owned = work.owned /\ work'.port = work.port /\ work'.epoch = work.epoch
        /\ work'.pc = "out" /\ work'.grain = "effect" /\ work'.of = p.of
    BY <1>0, <1>5 DEF Workers
  <2> QED
    BY <1>1, <1>2, <1>5, <2>1 DEF Playing
<1> QED
  BY <1>3, <1>4, <1>5 DEF Mixed

\* What a grain's mixing takes over from the packets is of the present owner.
LEMMA MixFields ==
  ASSUME TypeOK, PortInv, EffectInv, Mix, sink.epoch = work.owned
  PROVE  \E p \in Playouts, drained \in BOOLEAN :
             /\ Mixed(p, drained)
             /\ p.of \in {0, sink.epoch}
             /\ p.effect => p.of # 0
             /\ p.primed => p.effect
<1>0. play \in Playouts /\ work \in Workers /\ sink \in Sinks
  BY DEF TypeOK
<1>1. PICK old \in 0..Len(inbox), over \in BOOLEAN, filled \in BOOLEAN, drained \in BOOLEAN :
        Mixed(Wants(Received(play, Accepted(old)), over, filled), drained)
  BY OutcomesType, LenProperties DEF Mix, TypeOK
<1>2. work.owned # 0
  BY DEF Mix, PortInv
<1>3. PICK r \in Playouts : r = Received(play, Accepted(old))
  BY <1>0, ReceivedType
<1>4. /\ r.of \in {0, sink.epoch}
      /\ r.effect => r.of # 0
      /\ r.primed => r.effect
  <2>1. PICK loud \in BOOLEAN, got \in BOOLEAN :
          /\ r = [play EXCEPT !.effect = @ \/ loud, !.loud = @ \/ loud,
                              !.of = IF got THEN work.owned ELSE @]
          /\ loud => got
    <3>1. PICK loud \in BOOLEAN : loud = \E i \in 1..Len(Accepted(old)) : Accepted(old)[i].loud
      OBVIOUS
    <3>2. PICK got \in BOOLEAN :
            got = \E i \in 1..Len(Accepted(old)) : Accepted(old)[i].loud \/ play.effect
      OBVIOUS
    <3> QED
      BY <1>3, <3>1, <3>2 DEF Received
  <2> QED
    BY <1>0, <1>2, <2>1 DEF EffectInv, Playouts
<1>5. PICK p \in Playouts : p = Wants(r, over, filled)
  BY WantsType
<1>6. /\ p.of \in {0, sink.epoch}
      /\ p.effect => p.of # 0
      /\ p.primed => p.effect
  BY <1>4, <1>5 DEF Wants, NoEffect, Playouts
<1>7. Mixed(p, drained)
  BY <1>1, <1>3, <1>5
<1> QED
  BY <1>6, <1>7

LEMMA OutputFields ==
  ASSUME TypeOK, Output
  PROVE  /\ sink'.epoch = sink.epoch /\ sink'.next = sink.next
         /\ \/ sink'.active = sink.active /\ sink'.permitted = sink.permitted
            \/ sink'.active = 0 /\ sink'.permitted = 0
         /\ sink'.ready \in {0, sink.ready}
         /\ work'.port \in {0, work.port} /\ work'.owned = work.owned
         /\ work'.port # work.port /\ sink.epoch = work.owned => sink'.ready = 0
         /\ work'.pc = "top"
         /\ play' = play \/ play' = NoEffect
         /\ push = NoPacket => push' = push
         /\ inbox' = inbox \/ inbox' = <<>>
         /\ UNCHANGED <<pad, ppc, seen, quiet>>
<1>0. sink \in Sinks /\ work \in Workers
  BY DEF TypeOK
<1>1. PICK ok \in BOOLEAN, stalled \in BOOLEAN : OutputReturns(ok, stalled)
  BY OutcomesType DEF Output
<1>2. PICK w \in Workers : w = AtTop(work)
  BY <1>0, AtTopType
<1>3. w.pc = "top" /\ w.owned = work.owned /\ w.port = work.port
  BY <1>0, <1>2, AtTopFields
<1>4. /\ work'.pc = "top" /\ work'.owned = work.owned
      /\ work'.port = IF ok THEN work.port ELSE 0
  BY <1>1, <1>2, <1>3 DEF OutputReturns, Workers
<1>5. /\ sink'.epoch = sink.epoch /\ sink'.next = sink.next
      /\ \/ sink'.active = sink.active /\ sink'.permitted = sink.permitted
         \/ sink'.active = 0 /\ sink'.permitted = 0
      /\ sink'.ready = IF sink.epoch = work.owned /\ ~ok THEN 0 ELSE sink.ready
  BY <1>0, <1>1 DEF OutputReturns, Sinks
<1> QED
  BY <1>1, <1>4, <1>5 DEF OutputReturns, Output

-----------------------------------------------------------------------------
(* The steps keep each part *)

LEMMA InboxStep == HapticsInv /\ [Next]_vars => InboxInv'
<1> SUFFICES ASSUME HapticsInv, [Next]_vars PROVE InboxInv'
  OBVIOUS
<1>0. TypeOK /\ InboxInv /\ inbox \in Seq(Packets)
  BY DEF HapticsInv, TypeOK
<1>1. CASE UNCHANGED <<inbox, push>>
  BY <1>0, <1>1 DEF InboxInv
<1>2. CASE PushBegins
  BY <1>0, <1>2 DEF PushBegins, InboxInv
<1>3. CASE PushPublishes
  BY <1>3 DEF PushPublishes, InboxInv
<1>4. CASE (inbox' = inbox \/ inbox' = <<>>) /\ (push = NoPacket => push' = push)
  <2> SUFFICES ASSUME push' # NoPacket PROVE Len(inbox') < InboxSize
    BY DEF InboxInv
  <2>1. Len(inbox) < InboxSize
    BY <1>0, <1>4 DEF InboxInv
  <2>2. Len(inbox) \in Nat /\ Len(<<>>) = 0
    BY <1>0, EmptySeq, LenProperties
  <2>3. CASE inbox' = inbox
    BY <2>1, <2>3
  <2>4. CASE inbox' = <<>>
    BY <2>1, <2>2, <2>4, HapticsAssumption
  <2> QED
    BY <1>4, <2>3, <2>4
<1>5. CASE Connect \/ Disconnect \/ Shutdown \/ Suppress \/ Resume \/ Rumble
  BY <1>0, <1>1, <1>5, PlayerFields
<1>6. CASE Poll
  BY <1>1, <1>6 DEF Poll, Observe, AllowChecks, AllowStores, WriteRumble
<1>7. CASE Worker
  <2>1. CASE Notice \/ Retire \/ OpenPort \/ Paces
    BY <1>1, <2>1 DEF Notice, Retire, OpenPort, Paces
  <2>2. CASE Mix
    BY <1>4, <2>2 DEF Mix
  <2>3. CASE Output
    BY <1>0, <1>4, <2>3, OutputFields
  <2> QED
    BY <1>7, <2>1, <2>2, <2>3 DEF Worker
<1>8. CASE ComesToRest \/ Rests \/ UNCHANGED vars
  BY <1>1, <1>8 DEF ComesToRest, Rests, vars
<1> QED
  BY <1>2, <1>3, <1>5, <1>6, <1>7, <1>8 DEF Next

LEMMA PortStep == HapticsInv /\ [Next]_vars => PortInv'
<1> SUFFICES ASSUME HapticsInv, [Next]_vars PROVE PortInv'
  OBVIOUS
<1>0. TypeOK /\ PortInv /\ sink \in Sinks /\ work \in Workers
  BY DEF HapticsInv, TypeOK
<1>1. CASE UNCHANGED <<sink, work>>
  BY <1>0, <1>1 DEF PortInv
<1>2. ASSUME NEW user, NEW starts, Configure(user, starts), UNCHANGED work
      PROVE  PortInv'
  <2>1. /\ sink.epoch < MaxEpoch /\ sink'.epoch = sink.epoch + 1 /\ sink'.ready = 0
    BY <1>0, <1>2, ConfigureFields
  <2> QED
    BY <1>0, <1>2, <2>1, HapticsAssumption DEF PortInv, Sinks
<1>3. CASE Connect \/ Disconnect \/ Shutdown \/ Suppress \/ Resume \/ Rumble
  BY <1>0, <1>1, <1>2, <1>3, PlayerFields
<1>4. CASE Poll
  <2>1. CASE Observe
    BY <1>1, <1>2, <2>1 DEF Observe, YieldToWaveform
  <2>2. CASE AllowChecks \/ WriteRumble
    BY <1>1, <2>2 DEF AllowChecks, WriteRumble
  <2>3. CASE AllowStores
    <3>1. sink'.epoch = sink.epoch /\ sink'.ready = sink.ready /\ work' = work
      BY <1>0, <2>3 DEF AllowStores, Sinks
    <3> QED
      BY <1>0, <3>1 DEF PortInv
  <2> QED
    BY <1>4, <2>1, <2>2, <2>3 DEF Poll
<1>5. CASE PushBegins \/ PushPublishes \/ ComesToRest \/ Rests \/ UNCHANGED vars
  BY <1>1, <1>5 DEF PushBegins, PushPublishes, ComesToRest, Rests, vars
<1>6. CASE Worker
  <2>1. CASE Notice
    <3>1. /\ sink'.epoch = sink.epoch /\ sink'.ready = 0
          /\ work'.pc = "retire" /\ work'.port = work.port /\ work'.owned = work.owned
      BY <1>0, <2>1 DEF Notice, Sinks, Workers
    <3> QED
      BY <1>0, <3>1 DEF PortInv
  <2>2. CASE Retire
    <3>1. /\ sink'.epoch = sink.epoch /\ sink'.ready = sink.ready
          /\ work'.pc \in {"open", "top"} /\ work'.port = 0
          /\ work'.owned = work.epoch /\ work'.epoch = work.epoch
      BY <1>0, <2>2 DEF Retire, Sinks, Workers
    <3> QED
      BY <1>0, <2>2, <3>1 DEF PortInv, Retire
  <2>3. CASE OpenPort
    <3>1. PICK usable \in BOOLEAN :
            /\ sink' = [sink EXCEPT !.opened = TRUE,
                          !.ready = IF usable /\ sink.epoch = work.epoch THEN work.epoch ELSE @]
            /\ work' = [AtTop(work) EXCEPT !.port = IF usable THEN work.epoch ELSE 0,
                          !.failed = ~(usable /\ sink.epoch = work.epoch)]
      <4>1. PICK opens, stereo \in Outcomes :
              LET usable == opens /\ stereo
                  theirs == usable /\ sink.epoch = work.epoch
              IN  /\ sink' = [sink EXCEPT !.opened = TRUE, !.ready = IF theirs THEN work.epoch ELSE @]
                  /\ work' = [AtTop(work) EXCEPT !.port = IF usable THEN work.epoch ELSE 0,
                                                 !.failed = ~theirs]
        BY <2>3 DEF OpenPort
      <4>2. PICK usable \in BOOLEAN : usable = (opens /\ stereo)
        OBVIOUS
      <4> QED
        BY <4>1, <4>2
    <3>2. sink'.epoch = sink.epoch
          /\ sink'.ready = IF usable /\ sink.epoch = work.epoch THEN work.epoch ELSE sink.ready
      BY <1>0, <3>1 DEF Sinks
    <3>3. PICK w \in Workers : w = AtTop(work)
      BY <1>0, AtTopType
    <3>4. w.pc = "top" /\ w.owned = work.owned
      BY <1>0, <3>3, AtTopFields
    <3>5. /\ work'.pc = "top" /\ work'.owned = work.owned
          /\ work'.port = IF usable THEN work.epoch ELSE 0
      BY <3>1, <3>3, <3>4 DEF Workers
    <3> QED
      BY <1>0, <2>3, <3>2, <3>5 DEF PortInv, OpenPort
  <2>4. CASE Paces
    <3>1. /\ sink' = sink /\ work'.pc = "mix" /\ work'.port = work.port /\ work'.owned = work.owned
          /\ work.port # 0
      BY <1>0, <2>4 DEF Paces, Workers
    <3> QED
      BY <1>0, <3>1 DEF PortInv
  <2>5. CASE Mix
    <3>1. CASE sink.epoch # work.owned
      <4>1. /\ sink' = sink /\ work'.pc = "top" /\ work'.port = work.port
            /\ work'.owned = work.owned
        BY <1>0, <2>5, <3>1, AtTopFields DEF Mix
      <4> QED
        BY <1>0, <4>1 DEF PortInv
    <3>2. CASE sink.epoch = work.owned
      <4>1. /\ sink'.epoch = sink.epoch /\ sink'.ready = sink.ready
            /\ work'.pc \in {"top", "out"} /\ work'.port = work.port /\ work'.owned = work.owned
        BY <1>0, <2>5, <3>2, MixFields, MixedFields DEF HapticsInv
      <4> QED
        BY <1>0, <2>5, <4>1 DEF PortInv, Mix
    <3> QED
      BY <3>1, <3>2
  <2>6. CASE Output
    <3>1. /\ sink'.epoch = sink.epoch /\ sink'.ready \in {0, sink.ready}
          /\ work'.port \in {0, work.port} /\ work'.owned = work.owned
          /\ work'.port # work.port /\ sink.epoch = work.owned => sink'.ready = 0
          /\ work'.pc = "top"
      BY <1>0, <2>6, OutputFields
    <3> QED
      BY <1>0, <3>1 DEF PortInv
  <2> QED
    BY <1>6, <2>1, <2>2, <2>3, <2>4, <2>5, <2>6 DEF Worker
<1> QED
  BY <1>3, <1>4, <1>5, <1>6 DEF Next

LEMMA EffectStep == HapticsInv /\ [Next]_vars => EffectInv'
<1> SUFFICES ASSUME HapticsInv, [Next]_vars PROVE EffectInv'
  OBVIOUS
<1>0. TypeOK /\ PortInv /\ EffectInv /\ sink \in Sinks /\ work \in Workers
  BY DEF HapticsInv, TypeOK
<1>1. CASE UNCHANGED <<play, work>> /\ sink'.epoch = sink.epoch
  BY <1>0, <1>1 DEF EffectInv, Playing
<1>2. ASSUME NEW user, NEW starts, Configure(user, starts), UNCHANGED work
      PROVE  EffectInv'
  <2>1. play'.of = 0 /\ ~play'.effect /\ ~play'.primed
    BY <1>0, <1>2, ConfigureFields
  <2> QED
    BY <1>0, <1>2, <2>1 DEF EffectInv, Playing
<1>3. CASE UNCHANGED play /\ sink'.epoch = sink.epoch /\ work'.pc # "out"
  BY <1>0, <1>3 DEF EffectInv, Playing
<1>4. CASE Connect \/ Disconnect \/ Shutdown \/ Suppress \/ Resume \/ Rumble
  BY <1>0, <1>1, <1>2, <1>4, PlayerFields
<1>5. CASE Poll
  <2>1. CASE Observe
    BY <1>1, <1>2, <2>1 DEF Observe, YieldToWaveform
  <2>2. CASE AllowChecks \/ WriteRumble
    BY <1>1, <2>2 DEF AllowChecks, WriteRumble
  <2>3. CASE AllowStores
    BY <1>0, <1>1, <2>3 DEF AllowStores, Sinks
  <2> QED
    BY <1>5, <2>1, <2>2, <2>3 DEF Poll
<1>6. CASE PushBegins \/ PushPublishes \/ ComesToRest \/ Rests \/ UNCHANGED vars
  BY <1>1, <1>6 DEF PushBegins, PushPublishes, ComesToRest, Rests, vars
<1>7. CASE Worker
  <2>1. CASE Notice
    BY <1>0, <1>3, <2>1 DEF Notice, Sinks, Workers
  <2>2. CASE Retire
    BY <1>0, <1>3, <2>2 DEF Retire, Sinks, Workers
  <2>3. CASE OpenPort
    <3>1. UNCHANGED play /\ sink'.epoch = sink.epoch
      BY <1>0, <2>3 DEF OpenPort, Sinks
    <3>2. PICK w \in Workers : w = AtTop(work)
      BY <1>0, AtTopType
    <3>3. w.pc = "top"
      BY <1>0, <3>2, AtTopFields
    <3>4. work'.pc = "top"
      BY <2>3, <3>2, <3>3 DEF OpenPort, Workers
    <3> QED
      BY <1>3, <3>1, <3>4
  <2>4. CASE Paces
    BY <1>0, <1>3, <2>4 DEF Paces, Workers
  <2>5. CASE Mix
    <3>1. CASE sink.epoch # work.owned
      <4>1. UNCHANGED <<play, sink>> /\ work'.pc = "top"
        BY <1>0, <2>5, <3>1, AtTopFields DEF Mix
      <4> QED
        BY <1>3, <4>1
    <3>2. CASE sink.epoch = work.owned
      <4>1. PICK p \in Playouts, drained \in BOOLEAN :
              /\ Mixed(p, drained)
              /\ p.of \in {0, sink.epoch}
              /\ p.effect => p.of # 0
              /\ p.primed => p.effect
        BY <1>0, <2>5, <3>2, MixFields
      <4>2. /\ sink'.epoch = sink.epoch /\ work'.port = work.port
            /\ play'.of = p.of /\ play'.effect = p.effect /\ play'.primed = p.primed
            /\ Playing' => p.primed /\ work'.of = p.of
        BY <1>0, <4>1, MixedFields
      <4>3. work.port = work.owned
        BY <1>0, <2>5 DEF PortInv, Mix
      <4> QED
        BY <3>2, <4>1, <4>2, <4>3 DEF EffectInv
    <3> QED
      BY <3>1, <3>2
  <2>6. CASE Output
    <3>1. /\ sink'.epoch = sink.epoch /\ work'.pc = "top"
          /\ play' = play \/ play' = NoEffect
      BY <1>0, <2>6, OutputFields
    <3>2. CASE play' = NoEffect
      <4>1. play'.of = 0 /\ ~play'.effect /\ ~play'.primed
        BY <3>2 DEF NoEffect
      <4> QED
        BY <3>1, <4>1 DEF EffectInv, Playing
    <3> QED
      BY <1>3, <3>1, <3>2
  <2> QED
    BY <1>7, <2>1, <2>2, <2>3, <2>4, <2>5, <2>6 DEF Worker
<1> QED
  BY <1>4, <1>5, <1>6, <1>7 DEF Next

\* What the effects' tokens do in one step: an effect begins under a token that
\* nobody has seen, or is over, or stays; its permission is given by the poll
\* alone, and withdrawn by whoever ends it or takes the port away.
LEMMA TokenFields ==
  ASSUME HapticsInv, [Next]_vars
  PROVE  \/ sink'.active = sink.active /\ sink'.next = sink.next
            /\ \/ sink'.permitted \in {0, sink.permitted}
               \/ AllowStores /\ sink'.permitted = seen
         \/ sink'.active = 0 /\ sink'.next = sink.next /\ sink'.permitted \in {0, sink.permitted}
         \/ /\ sink'.active = sink.next + 1 /\ sink'.next = sink.next + 1
            /\ sink'.permitted = sink.permitted
            /\ UNCHANGED <<pad, ppc, seen>> /\ Mix
<1>0. TypeOK /\ PortInv /\ EffectInv /\ sink \in Sinks /\ work \in Workers
  BY DEF HapticsInv, TypeOK
<1>1. ASSUME NEW user, NEW starts, Configure(user, starts)
      PROVE  sink'.active = sink.active /\ sink'.next = sink.next /\ sink'.permitted = 0
  BY <1>0, <1>1, ConfigureFields
<1>2. CASE Connect \/ Disconnect \/ Shutdown \/ Suppress \/ Resume \/ Rumble
  BY <1>0, <1>1, <1>2, PlayerFields
<1>3. CASE Poll
  <2>1. CASE Observe
    BY <1>1, <2>1 DEF Observe, YieldToWaveform
  <2>2. CASE AllowChecks \/ WriteRumble
    BY <2>2 DEF AllowChecks, WriteRumble
  <2>3. CASE AllowStores
    BY <1>0, <2>3 DEF AllowStores, Sinks
  <2> QED
    BY <1>3, <2>1, <2>2, <2>3 DEF Poll
<1>4. CASE PushBegins \/ PushPublishes \/ ComesToRest \/ Rests \/ UNCHANGED vars
  BY <1>4 DEF PushBegins, PushPublishes, ComesToRest, Rests, vars
<1>5. CASE Worker
  <2>1. CASE Notice
    BY <1>0, <2>1 DEF Notice, Sinks
  <2>2. CASE Retire
    BY <1>0, <2>2 DEF Retire, Sinks
  <2>3. CASE OpenPort
    BY <1>0, <2>3 DEF OpenPort, Sinks
  <2>4. CASE Paces
    BY <2>4 DEF Paces
  <2>5. CASE Mix
    <3>1. CASE sink.epoch # work.owned
      BY <2>5, <3>1 DEF Mix
    <3>2. CASE sink.epoch = work.owned
      <4>1. UNCHANGED <<pad, ppc, seen>>
        BY <2>5 DEF Mix
      <4> QED
        BY <1>0, <2>5, <3>2, <4>1, MixFields, MixedFields
    <3> QED
      BY <3>1, <3>2
  <2>6. CASE Output
    BY <1>0, <2>6, OutputFields
  <2> QED
    BY <1>5, <2>1, <2>2, <2>3, <2>4, <2>5, <2>6 DEF Worker
<1> QED
  BY <1>2, <1>3, <1>4, <1>5 DEF Next

LEMMA TokenStep == HapticsInv /\ [Next]_vars => TokenInv'
<1> SUFFICES ASSUME HapticsInv, [Next]_vars PROVE TokenInv'
  OBVIOUS
<1>0. TypeOK /\ TokenInv /\ sink \in Sinks /\ seen \in Nat
  BY DEF HapticsInv, TypeOK
<1>1. /\ sink.active \in Nat /\ sink.next \in Nat /\ sink.permitted \in Nat
      /\ seen \in Nat
  BY <1>0 DEF Sinks
<1>2. \/ seen' = seen /\ (ppc' \in {"allow", "store"} => ppc \in {"allow", "store"})
      \/ seen' = sink.active /\ (ppc' \in {"allow", "store"} => sink.active # 0) /\ Observe
  BY PlayerFields, <1>0 DEF Next, Poll, Observe, YieldToWaveform, AllowChecks, AllowStores,
     WriteRumble, PushBegins, PushPublishes, ComesToRest, Rests, vars, Worker, Notice, Retire,
     OpenPort, Paces, Mix, Output
<1>3. /\ sink'.next = sink.next \/ sink'.next = sink.next + 1
      /\ sink'.active \in {0, sink.active, sink'.next}
      /\ sink'.permitted \in {0, sink.permitted, seen}
  BY TokenFields
<1> QED
  BY <1>0, <1>1, <1>2, <1>3 DEF TokenInv

\* The motors are nobody's while the worker may play: how each operation of the
\* input loop leaves them.
LEMMA PadStaysAlone ==
  ASSUME TypeOK, MotorInv, Connect \/ Disconnect \/ Shutdown \/ Suppress \/ Resume \/ Rumble,
         sink.active # 0, Alone
  PROVE  Alone'
<1>0. pad \in Outputs
  BY DEF TypeOK
<1>1. CASE Connect
  BY <1>0, <1>1 DEF Connect, GoNative, Alone, Outputs
<1>2. CASE Disconnect
  BY <1>0, <1>2 DEF Disconnect, ResetOutput, Alone, Outputs
<1>3. CASE Shutdown
  BY <1>0, <1>3 DEF Shutdown, ResetOutput, EmptyPad, Alone, Outputs
<1>4. CASE Suppress
  BY <1>0, <1>4 DEF Suppress, Alone, Outputs
<1>5. CASE Resume
  BY <1>0, <1>5 DEF Resume, GoNative, Alone, Outputs
<1>6. CASE Rumble
  BY <1>0, <1>6 DEF Rumble, Alone, Outputs
<1> QED
  BY <1>1, <1>2, <1>3, <1>4, <1>5, <1>6

\* How they leave a pad that is the menu's, and one whose motors rest.
LEMMA PadStaysAtRest ==
  ASSUME TypeOK, MotorInv, Connect \/ Disconnect \/ Shutdown \/ Suppress \/ Resume \/ Rumble
  PROVE  /\ pad'.intercepted => pad'.motor = 0 \/ pad'.defies
         /\ pad'.native /\ pad'.mode = "Native" => pad'.motor = 0 \/ pad'.defies
<1>0. pad \in Outputs
  BY DEF TypeOK
<1>1. CASE Connect
  BY <1>0, <1>1 DEF Connect, GoNative, Outputs
<1>2. CASE Disconnect
  BY <1>0, <1>2 DEF Disconnect, ResetOutput, Outputs, MotorInv
<1>3. CASE Shutdown
  BY <1>0, <1>3 DEF Shutdown, EmptyPad
<1>4. CASE Suppress
  BY <1>0, <1>4 DEF Suppress, Outputs
<1>5. CASE Resume
  BY <1>0, <1>5 DEF Resume, GoNative, Outputs, MotorInv
<1>6. CASE Rumble
  BY <1>0, <1>6 DEF Rumble, Outputs, MotorInv
<1> QED
  BY <1>1, <1>2, <1>3, <1>4, <1>5, <1>6

LEMMA MotorStep == HapticsInv /\ [Next]_vars => MotorInv'
<1> SUFFICES ASSUME HapticsInv, [Next]_vars PROVE MotorInv'
  OBVIOUS
<1>0. /\ TypeOK /\ TokenInv /\ MotorInv /\ PortInv /\ EffectInv
      /\ pad \in Outputs /\ sink \in Sinks /\ work \in Workers /\ seen \in Nat
  BY DEF HapticsInv, TypeOK
<1>1. CASE UNCHANGED <<pad, ppc, seen, sink, work>>
  BY <1>0, <1>1 DEF MotorInv, Playing, Alone
<1>2. CASE Connect \/ Disconnect \/ Shutdown \/ Suppress \/ Resume \/ Rumble
  <2>1. ppc = "poll" /\ ppc' = ppc /\ seen' = seen /\ work' = work
    BY <1>0, <1>2, PlayerFields
  <2>2. sink'.active = sink.active /\ (sink'.permitted = 0 \/ sink'.permitted = sink.permitted)
    BY <1>0, <1>2, PlayerFields, ConfigureFields
  <2>3. /\ pad'.intercepted => pad'.motor = 0 \/ pad'.defies
        /\ pad'.native /\ pad'.mode = "Native" => pad'.motor = 0 \/ pad'.defies
    BY <1>0, <1>2, PadStaysAtRest
  <2>4. sink.active # 0 /\ Alone => Alone'
    BY <1>0, <1>2, PadStaysAlone
  <2> QED
    BY <1>0, <2>1, <2>2, <2>3, <2>4 DEF MotorInv, Playing
<1>3. CASE Poll
  <2>1. CASE Observe
    <3>0. ~pad.intercepted /\ ppc = "poll" /\ seen' = sink.active /\ work' = work
      BY <2>1 DEF Observe
    <3>1. ASSUME sink.active # 0,
                 pad' = [pad EXCEPT !.native = TRUE, !.dirty = TRUE, !.motor = 0,
                                    !.mode = "Native", !.defies = FALSE],
                 ppc' = "allow", sink' = sink
          PROVE  MotorInv'
      <4>1. /\ pad'.motor = 0 /\ pad'.mode = "Native" /\ ~pad'.intercepted
        BY <1>0, <3>0, <3>1 DEF Outputs
      <4> QED
        BY <1>0, <3>0, <3>1, <4>1 DEF MotorInv, Playing, Alone
    <3>2. ASSUME NEW off \in BOOLEAN,
                 pad' = [pad EXCEPT !.native = TRUE, !.dirty = TRUE, !.mode = "Unknown",
                                    !.motor = IF off THEN 0 ELSE @, !.defies = @ /\ ~off],
                 Configure(FALSE, FALSE), ppc' = "poll"
          PROVE  MotorInv'
      <4>1. /\ pad'.mode = "Unknown" /\ ~pad'.intercepted
            /\ pad.motor = 0 \/ pad.defies => pad'.motor = 0 \/ pad'.defies
        BY <1>0, <3>0, <3>2 DEF Outputs
      <4>2. sink'.active = sink.active /\ sink'.permitted = 0
        BY <1>0, <3>2, ConfigureFields
      <4> QED
        BY <1>0, <3>0, <3>2, <4>1, <4>2 DEF MotorInv, Playing, Alone
    <3>3. ASSUME ~(sink.active # 0 /\ ~pad.native),
                 pad' = [pad EXCEPT !.native = (sink.active # 0),
                                    !.dirty = @ \/ pad.native # (sink.active # 0)],
                 ppc' = IF sink.active # 0 THEN IF pad.mode = "Native" THEN "allow" ELSE "poll"
                        ELSE IF pad'.dirty THEN "legacy" ELSE "poll",
                 sink' = sink
          PROVE  MotorInv'
      <4>1. /\ pad'.mode = pad.mode /\ pad'.motor = pad.motor /\ pad'.defies = pad.defies
            /\ ~pad'.intercepted /\ pad'.native = (sink.active # 0)
        BY <1>0, <3>0, <3>3 DEF Outputs
      <4> QED
        BY <1>0, <3>0, <3>3, <4>1 DEF MotorInv, Playing, Alone
    <3> QED
      BY <2>1, <3>1, <3>2, <3>3 DEF Observe, YieldToWaveform
  <2>2. CASE AllowChecks
    BY <1>0, <2>2 DEF AllowChecks, MotorInv, Playing, Alone
  <2>3. CASE AllowStores
    <3>1. sink'.active = sink.active /\ sink'.permitted = seen
      BY <1>0, <2>3 DEF AllowStores, Sinks
    <3> QED
      BY <1>0, <2>3, <3>1 DEF AllowStores, MotorInv, Playing, Alone
  <2>4. CASE WriteRumble
    <3>1. /\ ppc = "legacy" /\ ppc' = "poll" /\ UNCHANGED <<seen, sink, work>>
      BY <2>4 DEF WriteRumble
    <3>2. pad' = pad \/ (pad'.mode # "Native" /\ pad'.intercepted = pad.intercepted)
      BY <1>0, <2>4 DEF WriteRumble, Outputs
    <3> QED
      BY <1>0, <3>1, <3>2 DEF MotorInv, Playing, Alone
  <2> QED
    BY <1>3, <2>1, <2>2, <2>3, <2>4 DEF Poll
<1>4. CASE PushBegins \/ PushPublishes \/ ComesToRest \/ Rests \/ UNCHANGED vars
  BY <1>1, <1>4 DEF PushBegins, PushPublishes, ComesToRest, Rests, vars
<1>5. CASE Worker
  <2>0. UNCHANGED <<pad, ppc, seen>>
    BY <1>5 DEF Worker, Notice, Retire, OpenPort, Paces, Mix, Output
  <2>1. /\ sink.active \in Nat /\ sink.next \in Nat /\ sink.permitted \in Nat
    BY <1>0 DEF Sinks
  <2>2. \/ sink'.active = sink.active /\ sink'.permitted \in {0, sink.permitted}
        \/ sink'.active = 0
        \/ sink'.active = sink.next + 1 /\ sink'.permitted = sink.permitted
    BY <1>5, TokenFields DEF Next, AllowStores, Worker, Notice, Retire, OpenPort, Paces, Mix, Output
  <2>3. Playing' => /\ sink.active # 0 /\ sink.permitted = sink.active
                    /\ sink'.active = sink.active
    <3>1. CASE Notice
      BY <1>0, <3>1 DEF Notice, Workers, Playing
    <3>2. CASE Retire
      BY <1>0, <3>2 DEF Retire, Workers, Playing
    <3>3. CASE OpenPort
      <4>1. PICK w \in Workers : w = AtTop(work)
        BY <1>0, AtTopType
      <4>2. w.pc = "top"
        BY <1>0, <4>1, AtTopFields
      <4>3. work'.pc = "top"
        BY <3>3, <4>1, <4>2 DEF OpenPort, Workers
      <4> QED
        BY <4>3 DEF Playing
    <3>4. CASE Paces
      BY <1>0, <3>4 DEF Paces, Workers, Playing
    <3>5. CASE Mix
      <4>1. CASE sink.epoch # work.owned
        BY <1>0, <3>5, <4>1, AtTopFields DEF Mix, Playing
      <4>2. CASE sink.epoch = work.owned
        <5>1. Playing' =>
                /\ sink.permitted = IF sink.active = 0 THEN sink.next + 1 ELSE sink.active
                /\ sink.active # 0 => sink' = sink
          BY <1>0, <3>5, <4>2, MixFields, MixedFields
        <5>2. sink.permitted <= sink.next
          BY <1>0 DEF TokenInv
        <5> QED
          BY <2>1, <5>1, <5>2
      <4> QED
        BY <4>1, <4>2
    <3>6. CASE Output
      BY <1>0, <3>6, OutputFields DEF Playing
    <3> QED
      BY <1>5, <3>1, <3>2, <3>3, <3>4, <3>5, <3>6 DEF Worker
  <2>4. Alone' <=> Alone
    BY <2>0 DEF Alone
  <2> QED
    BY <1>0, <2>0, <2>1, <2>2, <2>3, <2>4 DEF MotorInv, TokenInv
<1> QED
  BY <1>2, <1>3, <1>4, <1>5 DEF Next

-----------------------------------------------------------------------------
(* The waveform and the motors never drive the pad together, a grain goes  *)
(* to the owner it came for, and ready names nobody but the present owner. *)

\* What the sampled runs check of the waveform output, whoever owns the port and
\* however often it changes hands.
THEOREM WaveformsApart == Spec => []HapticsOK
<1>1. Init => HapticsInv
  BY HapticsInit
<1>2. HapticsInv /\ [Next]_vars => HapticsInv'
  BY TypeStep, InboxStep, PortStep, EffectStep, TokenStep, MotorStep DEF HapticsInv
<1>3. HapticsInv => HapticsOK
  BY DEF HapticsInv, HapticsOK, WaveformAlone, EpochsApart, PortInv, EffectInv, MotorInv, Playing
<1> QED
  BY <1>1, <1>2, <1>3, PTL DEF Spec

-----------------------------------------------------------------------------
(* USB keyboards and mice                                                  *)

Boards == UNION {Sent(usb.held[k]) : k \in Keyboards}
Buttons == UNION {usb.clicked[m] : m \in Mice}

(* Keys that are held mean keys of the host. *)
LEMMA SentKeys == ASSUME NEW s, s \subseteq Usages PROVE Sent(s) \subseteq Keys
BY DEF Sent, Keys

(* What changes hands: whoever held what the host still holds still does,  *)
(* or let it go; what comes is held by somebody.                           *)
LEMMA Passed ==
  ASSUME NEW before, NEW after, NEW held, NEW stuck, NEW gone, NEW come, NEW refused,
         NEW all, gone \subseteq all, held \cap all \subseteq gone,
         held \subseteq before \cup stuck, before \ gone \subseteq after, come \subseteq after
  PROVE  After(held, gone, come, refused)
             \subseteq after \cup StuckAfter(stuck, all, come, refused)
<1> SUFFICES ASSUME NEW x \in After(held, gone, come, refused)
             PROVE  x \in after \cup StuckAfter(stuck, all, come, refused)
  OBVIOUS
<1>1. CASE x \in come
  BY <1>1
<1>2. CASE x \notin come
  <2>1. x \in held /\ ("up" \in refused \/ x \notin gone)
    BY <1>2 DEF After
  <2>2. CASE "up" \in refused
    BY <2>1, <2>2 DEF StuckAfter
  <2>3. CASE "up" \notin refused
    BY <1>2, <2>1, <2>3 DEF StuckAfter
  <2> QED
    BY <2>2, <2>3
<1> QED
  BY <1>1, <1>2

(* What another kind of device holds is not touched. *)
LEMMA Untouched ==
  ASSUME NEW before, NEW held, NEW stuck, NEW gone, NEW come, NEW refused,
         held \cap (gone \cup come) = {}, held \subseteq before \cup stuck
  PROVE  held \subseteq before \cup StuckAfter(stuck, gone, come, refused)
BY DEF StuckAfter

LEMMA UsbFields ==
  ASSUME UsbTypeOK
  PROVE  /\ usb.held \in [Keyboards -> SUBSET Usages] /\ usb.clicked \in [Mice -> SUBSET Clicks]
         /\ usb.boards \subseteq Keyboards /\ usb.mice \subseteq Mice
         /\ down.keys \subseteq Keys /\ down.clicks \subseteq Clicks
         /\ down.stuck \subseteq Keys \cup Clicks
BY DEF UsbTypeOK

LEMMA AfterWithin ==
  ASSUME NEW S, NEW held, held \subseteq S, NEW gone, gone \subseteq S,
         NEW come, come \subseteq S, NEW refused
  PROVE  /\ After(held, gone, come, refused) \subseteq S
         /\ StuckAfter(held, gone, come, refused) \subseteq S
BY DEF After, StuckAfter

(* A sample of a keyboard. *)
LEMMA TypedHolds ==
  ASSUME UsbInputOK, NEW k \in Keyboards,
         NEW sample \in Sample(Usages), NEW refused \in UsbRefusals,
         Typed(k, sample, refused), UNCHANGED open
  PROVE  UsbInputOK'
<1> USE DEF UsbInputOK
<1> DEFINE current == IF sample.usable THEN sample.held ELSE {}
           gone == Sent(usb.held[k] \ current)
           come == Sent(current \ usb.held[k])
<1>1. current \subseteq Usages
  BY DEF Sample
<1>2. gone \subseteq Keys /\ come \subseteq Keys
  BY <1>1, UsbFields, SentKeys
<1>3. /\ usb'.held = [usb.held EXCEPT ![k] = current] /\ usb'.clicked = usb.clicked
      /\ usb' \in [boards : SUBSET Keyboards, mice : SUBSET Mice,
                   held : [Keyboards -> SUBSET Usages], clicked : [Mice -> SUBSET Clicks]]
  BY <1>1 DEF Typed, UsbTypeOK
<1>4. /\ down'.keys = After(down.keys, gone, come, refused)
      /\ down'.stuck = StuckAfter(down.stuck, gone, come, refused)
      /\ down'.clicks = down.clicks
      /\ down' = [down EXCEPT !.keys = After(@, gone, come, refused),
                              !.stuck = StuckAfter(@, gone, come, refused)]
  BY DEF Typed, UsbTypeOK
<1> HIDE DEF current
<1>5. Boards \ gone \subseteq Boards' /\ come \subseteq Boards'
  <2>1. \A j \in Keyboards : Sent(usb'.held[j]) \subseteq Boards'
    BY DEF Boards
  <2>2. usb'.held[k] = current /\ \A j \in Keyboards \ {k} : usb'.held[j] = usb.held[j]
    BY <1>3, UsbFields
  <2>3. Sent(usb.held[k]) \ gone \subseteq Sent(current)
    BY DEF Sent
  <2>4. come \subseteq Sent(current)
    BY DEF Sent
  <2> HIDE DEF gone, come
  <2>5. ASSUME NEW x \in Boards \ gone PROVE x \in Boards'
    <3>1. PICK j \in Keyboards : x \in Sent(usb.held[j])
      BY DEF Boards
    <3>2. x \in Sent(usb'.held[j])
      BY <2>2, <2>3, <3>1
    <3> QED
      BY <2>1, <3>2
  <2>6. come \subseteq Boards'
    BY <2>1, <2>2, <2>4
  <2> QED
    BY <2>5, <2>6
<1> HIDE DEF gone, come
<1>6. down.keys \subseteq Boards \cup down.stuck /\ down.clicks \subseteq Buttons \cup down.stuck
  BY DEF SomebodyHolds, Boards, Buttons
<1>7. down'.keys \subseteq Boards' \cup down'.stuck
  <2>1. gone \subseteq gone /\ down.keys \cap gone \subseteq gone
    OBVIOUS
  <2>2. After(down.keys, gone, come, refused)
            \subseteq Boards' \cup StuckAfter(down.stuck, gone, come, refused)
    BY <1>5, <1>6, <2>1, Passed
  <2> QED
    BY <1>4, <2>2
<1>8. down.clicks \cap (gone \cup come) = {}
  BY <1>2, UsbFields, UsbAssumption
<1>9. down'.clicks \subseteq Buttons \cup down'.stuck
  BY <1>4, <1>6, <1>8, Untouched
<1>10. Buttons' = Buttons
  BY <1>3 DEF Buttons
<1>11. SomebodyHolds'
  BY <1>7, <1>9, <1>10 DEF SomebodyHolds, Boards, Buttons
<1>12. /\ After(down.keys, gone, come, refused) \subseteq Keys
       /\ StuckAfter(down.stuck, gone, come, refused) \subseteq Keys \cup Clicks
  BY <1>2, UsbFields, AfterWithin
<1>13. UsbTypeOK'
  BY <1>3, <1>4, <1>12 DEF UsbTypeOK
<1> QED
  BY <1>11, <1>13

(* A sample of a mouse. *)
LEMMA ClickedHolds ==
  ASSUME UsbInputOK, NEW m \in Mice,
         NEW sample \in Sample(Clicks), NEW refused \in UsbRefusals,
         Clicked(m, sample, refused), UNCHANGED open
  PROVE  UsbInputOK'
<1> USE DEF UsbInputOK
<1> DEFINE current == IF sample.usable THEN sample.held ELSE {}
           gone == usb.clicked[m] \ current
           come == current \ usb.clicked[m]
<1>1. current \subseteq Clicks
  BY DEF Sample
<1>2. gone \subseteq Clicks /\ come \subseteq Clicks
  BY <1>1, UsbFields
<1>3. /\ usb'.clicked = [usb.clicked EXCEPT ![m] = current] /\ usb'.held = usb.held
      /\ usb' \in [boards : SUBSET Keyboards, mice : SUBSET Mice,
                   held : [Keyboards -> SUBSET Usages], clicked : [Mice -> SUBSET Clicks]]
  BY <1>1 DEF Clicked, UsbTypeOK
<1>4. /\ down'.clicks = After(down.clicks, gone, come, refused)
      /\ down'.stuck = StuckAfter(down.stuck, gone, come, refused)
      /\ down'.keys = down.keys
      /\ down' = [down EXCEPT !.clicks = After(@, gone, come, refused),
                              !.stuck = StuckAfter(@, gone, come, refused)]
  BY DEF Clicked, UsbTypeOK
<1>5. Buttons \ gone \subseteq Buttons' /\ come \subseteq Buttons'
  <2>1. usb'.clicked[m] = current /\ \A j \in Mice \ {m} : usb'.clicked[j] = usb.clicked[j]
    BY <1>3, UsbFields
  <2>2. \A j \in Mice : usb'.clicked[j] \subseteq Buttons'
    BY DEF Buttons
  <2> HIDE DEF current
  <2>3. ASSUME NEW x \in Buttons \ gone PROVE x \in Buttons'
    <3>1. PICK j \in Mice : x \in usb.clicked[j]
      BY DEF Buttons
    <3>2. x \in usb'.clicked[j]
      BY <2>1, <3>1
    <3> QED
      BY <2>2, <3>2
  <2>4. come \subseteq Buttons'
    BY <2>1, <2>2
  <2> QED
    BY <2>3, <2>4
<1> HIDE DEF gone, come, current
<1>6. down.keys \subseteq Boards \cup down.stuck /\ down.clicks \subseteq Buttons \cup down.stuck
  BY DEF SomebodyHolds, Boards, Buttons
<1>7. down'.clicks \subseteq Buttons' \cup down'.stuck
  <2>1. gone \subseteq gone /\ down.clicks \cap gone \subseteq gone
    OBVIOUS
  <2>2. After(down.clicks, gone, come, refused)
            \subseteq Buttons' \cup StuckAfter(down.stuck, gone, come, refused)
    BY <1>5, <1>6, <2>1, Passed
  <2> QED
    BY <1>4, <2>2
<1>8. down.keys \cap (gone \cup come) = {}
  BY <1>2, UsbFields, UsbAssumption
<1>9. down'.keys \subseteq Boards \cup down'.stuck
  BY <1>4, <1>6, <1>8, Untouched
<1>10. Boards' = Boards
  BY <1>3 DEF Boards
<1>11. SomebodyHolds'
  BY <1>7, <1>9, <1>10 DEF SomebodyHolds, Boards, Buttons
<1>12. /\ After(down.clicks, gone, come, refused) \subseteq Clicks
       /\ StuckAfter(down.stuck, gone, come, refused) \subseteq Keys \cup Clicks
  BY <1>2, UsbFields, AfterWithin
<1>13. UsbTypeOK'
  BY <1>3, <1>4, <1>12 DEF UsbTypeOK
<1> QED
  BY <1>11, <1>13

LEMMA ClosedTyped ==
  ASSUME NEW boards \in SUBSET Keyboards, NEW mice \in SUBSET Mice
  PROVE  /\ Closed \in [boards : SUBSET Keyboards, mice : SUBSET Mice,
                            held : [Keyboards -> SUBSET Usages], clicked : [Mice -> SUBSET Clicks]]
         /\ [Closed EXCEPT !.boards = boards, !.mice = mice]
                 \in [boards : SUBSET Keyboards, mice : SUBSET Mice,
                      held : [Keyboards -> SUBSET Usages], clicked : [Mice -> SUBSET Clicks]]
BY DEF Closed

(* The end of the stream: as if every device were gone. *)
LEMMA StopHolds ==
  ASSUME UsbInputOK, StopUsb
  PROVE  UsbInputOK'
<1> USE DEF UsbInputOK
<1>1. PICK refused \in UsbRefusals :
        down' = [keys |-> After(down.keys, Boards, {}, refused),
                 clicks |-> After(down.clicks, Buttons, {}, refused),
                 stuck |-> StuckAfter(down.stuck, Boards \cup Buttons, {}, refused)]
  BY DEF StopUsb, Boards, Buttons
<1>2. down.keys \subseteq Boards \cup down.stuck /\ down.clicks \subseteq Buttons \cup down.stuck
  BY DEF SomebodyHolds, Boards, Buttons
<1>3. Boards \subseteq Keys /\ Buttons \subseteq Clicks
  <2>1. \A k \in Keyboards : Sent(usb.held[k]) \subseteq Keys
    BY UsbFields, SentKeys
  <2>2. \A m \in Mice : usb.clicked[m] \subseteq Clicks
    BY UsbFields
  <2> QED
    BY <2>1, <2>2 DEF Boards, Buttons
<1>4. /\ down.keys \cap (Boards \cup Buttons) \subseteq Boards
      /\ down.clicks \cap (Boards \cup Buttons) \subseteq Buttons
  BY <1>3, UsbFields, UsbAssumption
<1>5. down'.keys \subseteq {} \cup down'.stuck
  BY <1>1, <1>2, <1>4, Passed
<1>6. down'.clicks \subseteq {} \cup down'.stuck
  BY <1>1, <1>2, <1>4, Passed
<1>7. /\ After(down.keys, Boards, {}, refused) \subseteq Keys
      /\ After(down.clicks, Buttons, {}, refused) \subseteq Clicks
      /\ StuckAfter(down.stuck, Boards \cup Buttons, {}, refused) \subseteq Keys \cup Clicks
  BY <1>3, UsbFields, AfterWithin
<1>8. UsbTypeOK'
  BY <1>1, <1>7, ClosedTyped DEF UsbTypeOK, StopUsb
<1> QED
  BY <1>5, <1>6, <1>8 DEF SomebodyHolds

(* UsbReleased: for any keyboards and mice, whatever keys share a meaning  *)
(* and whichever events the connection refuses, nothing is down at the     *)
(* host that no device holds, but for what the host refused to let go:     *)
(* ps5_physical_process_keyboard, _process_mouse and _input_stop.          *)
THEOREM UsbReleased == UsbSpec => []UsbInputOK
<1>1. UsbInit => UsbInputOK
  <2> SUFFICES ASSUME UsbInit PROVE UsbInputOK
    OBVIOUS
  <2>1. open = FALSE /\ usb = Closed /\ down = Nothing
    BY DEF UsbInit
  <2>2. usb \in [boards : SUBSET Keyboards, mice : SUBSET Mice,
                 held : [Keyboards -> SUBSET Usages], clicked : [Mice -> SUBSET Clicks]]
    BY <2>1, ClosedTyped
  <2> QED
    BY <2>1, <2>2 DEF UsbInputOK, UsbTypeOK, SomebodyHolds, Nothing
<1>2. UsbInputOK /\ [UsbNext]_<<open, usb, down>> => UsbInputOK'
  <2> SUFFICES ASSUME UsbInputOK, [UsbNext]_<<open, usb, down>> PROVE UsbInputOK'
    OBVIOUS
  <2>1. CASE OpenUsb
    <3>1. PICK boards \in SUBSET Keyboards, mice \in SUBSET Mice :
            usb' = [Closed EXCEPT !.boards = boards, !.mice = mice]
      BY <2>1 DEF OpenUsb
    <3>2. open' = TRUE /\ down' = Nothing
      BY <2>1 DEF OpenUsb
    <3> QED
      BY <3>1, <3>2, ClosedTyped
      DEF UsbInputOK, UsbTypeOK, SomebodyHolds, Nothing
  <2>2. CASE StopUsb
    BY <2>2, StopHolds
  <2>3. CASE \E k \in Keyboards : PollKeyboard(k)
    BY <2>3, TypedHolds DEF PollKeyboard
  <2>4. CASE \E m \in Mice : PollMouse(m)
    BY <2>4, ClickedHolds DEF PollMouse
  <2>5. CASE UNCHANGED <<open, usb, down>>
    BY <2>5 DEF UsbInputOK, UsbTypeOK, SomebodyHolds
  <2> QED
    BY <2>1, <2>2, <2>3, <2>4, <2>5 DEF UsbNext
<1> QED
  BY <1>1, <1>2, PTL DEF UsbSpec, usbVars

-----------------------------------------------------------------------------
(* The primary pad                                                         *)

Ins == [open : BOOLEAN, mouse : BOOLEAN, keyboard : BOOLEAN, shown : BOOLEAN,
        last : SUBSET Held, down : SUBSET MouseButtons, lastMouse : SUBSET Held,
        event : SUBSET Held, due : BOOLEAN, count : 0..2, stop : BOOLEAN]
Hosts == [pad : SUBSET Held, gone : {"no", "heard", "refused"},
          mouse : SUBSET MouseButtons, keys : SUBSET Taps,
          stuck : SUBSET (MouseButtons \cup Taps)]
Links == [on : BOOLEAN, count : 0..1, connected : BOOLEAN, announced : BOOLEAN]
Worlds == [in : Ins, host : Hosts, link : Links]

(* What the host holds of the gamepad is what was sent last, nothing once  *)
(* it heard of the removal, and anything once it refused to.               *)
Remembered(w) ==
    /\ w.host.gone = "no" => w.link.announced /\ w.host.pad = w.in.event
    /\ w.host.gone = "heard" => w.host.pad = {}
    /\ w.link.announced => w.link.connected

(* What is left down, and the modes, of which one is on at most. *)
Left(w) ==
    /\ w.host.mouse \subseteq w.in.down \cup w.host.stuck
    /\ w.host.keys \subseteq w.host.stuck
Counted(w) == w.in.mouse \/ w.in.down = {}
ModesApart(w) ==
    /\ ~(w.in.mouse /\ w.in.keyboard)
    /\ w.in.shown = w.in.keyboard

Sound(w) == w \in Worlds /\ Remembered(w) /\ Left(w)

SameModes(v, w) ==
    /\ v.in.mouse = w.in.mouse /\ v.in.keyboard = w.in.keyboard
    /\ v.in.shown = w.in.shown

(* A world whose host and link are others, of the same devices but the pad. *)
With(w, h, l) == [w EXCEPT !.host = h, !.link = l]

LEMMA Rewritten ==
  ASSUME NEW w, Sound(w), NEW h \in Hosts, NEW l \in Links,
         h.mouse = w.host.mouse, h.keys = w.host.keys, h.stuck = w.host.stuck,
         h.gone = "no" => l.announced /\ h.pad = w.in.event,
         h.gone = "heard" => h.pad = {}, l.announced => l.connected,
         NEW v, v = With(w, h, l)
  PROVE  Sound(v) /\ v.in = w.in /\ v.host = h /\ v.link = l
<1>1. v \in Worlds /\ v.in = w.in /\ v.host = h /\ v.link = l
  BY DEF Sound, Worlds, With
<1>2. Sound(v)
  BY <1>1 DEF Sound, Remembered, Left
<1> QED
  BY <1>1, <1>2

(* Disconnect *)
LEMMA LeavesSound ==
  ASSUME NEW w, Sound(w), NEW refused
  PROVE  LET v == PadLeaves(w, refused)
         IN  /\ Sound(v) /\ v.in = w.in /\ v.link.connected = FALSE
             /\ v.link.on = w.link.on /\ v.link.count = w.link.count
<1> DEFINE l == [w.link EXCEPT !.connected = FALSE, !.announced = FALSE]
           h == [w.host EXCEPT !.gone = "refused"]
           g == [w.host EXCEPT !.pad = {}, !.gone = "heard"]
           v == PadLeaves(w, refused)
<1>1. w \in Worlds /\ w.host \in Hosts /\ w.link \in Links
  BY DEF Sound, Worlds
<1>2. /\ l \in Links /\ l.connected = FALSE /\ l.announced = FALSE /\ l.on = w.link.on
      /\ l.count = w.link.count
  BY <1>1 DEF Links
<1>3. /\ h \in Hosts /\ h.gone = "refused" /\ h.mouse = w.host.mouse
      /\ h.keys = w.host.keys /\ h.stuck = w.host.stuck
  BY <1>1 DEF Hosts
<1>4. /\ g \in Hosts /\ g.gone = "heard" /\ g.pad = {} /\ g.mouse = w.host.mouse
      /\ g.keys = w.host.keys /\ g.stuck = w.host.stuck
  BY <1>1 DEF Hosts
<1>5. v = IF ~w.link.announced THEN With(w, w.host, l)
          ELSE IF "removal" \in refused THEN With(w, h, l)
          ELSE With(w, g, l)
  BY <1>1 DEF PadLeaves, With, Worlds, Hosts, Links
<1> HIDE DEF l, h, g
<1>6. Remembered(w)
  BY DEF Sound
<1>7. CASE ~w.link.announced
  <2>1. v = With(w, w.host, l)
    BY <1>5, <1>7
  <2>2. /\ w.host.gone = "no" => l.announced /\ w.host.pad = w.in.event
        /\ w.host.gone = "heard" => w.host.pad = {}
        /\ l.announced => l.connected
    BY <1>2, <1>6, <1>7 DEF Remembered
  <2> HIDE DEF v
  <2>3. Sound(v) /\ v.in = w.in /\ v.link = l
    BY <1>1, <1>2, <2>1, <2>2, Rewritten
  <2> QED
    BY <1>2, <2>1, <2>3 DEF v
<1>8. CASE w.link.announced /\ "removal" \in refused
  <2>1. v = With(w, h, l)
    BY <1>5, <1>8
  <2> HIDE DEF v
  <2>2. Sound(v) /\ v.in = w.in /\ v.link = l
    BY <1>2, <1>3, <2>1, Rewritten
  <2> QED
    BY <1>2, <2>2 DEF v
<1>9. CASE w.link.announced /\ "removal" \notin refused
  <2>1. v = With(w, g, l)
    BY <1>5, <1>9
  <2> HIDE DEF v
  <2>2. Sound(v) /\ v.in = w.in /\ v.link = l
    BY <1>2, <1>4, <2>1, Rewritten
  <2> QED
    BY <1>2, <2>2 DEF v
<1> QED
  BY <1>7, <1>8, <1>9

(* Announce *)
LEMMA ArrivesSound ==
  ASSUME NEW w, Sound(w), NEW refused
  PROVE  LET v == PadArrives(w, refused)
         IN  /\ Sound(v) /\ v.in = w.in /\ v.host = w.host
             /\ v.link.connected = w.link.connected
<1> DEFINE l == [w.link EXCEPT !.announced = TRUE]
           v == PadArrives(w, refused)
<1>1. w \in Worlds /\ w.host \in Hosts /\ w.link \in Links /\ Remembered(w)
  BY DEF Sound, Worlds
<1>2. l \in Links /\ l.announced = TRUE /\ l.connected = w.link.connected
  BY <1>1 DEF Links
<1>3. v = IF w.link.connected /\ "arrival" \notin refused
          THEN With(w, w.host, l) ELSE w
  BY <1>1 DEF PadArrives, With, Worlds
<1> HIDE DEF l
<1>4. CASE w.link.connected /\ "arrival" \notin refused
  <2>1. v = With(w, w.host, l)
    BY <1>3, <1>4
  <2>2. /\ w.host.gone = "no" => l.announced /\ w.host.pad = w.in.event
        /\ w.host.gone = "heard" => w.host.pad = {}
        /\ l.announced => l.connected
    BY <1>1, <1>2, <1>4 DEF Remembered
  <2> HIDE DEF v
  <2>3. Sound(v) /\ v.in = w.in /\ v.host = w.host /\ v.link = l
    BY <1>1, <1>2, <2>1, <2>2, Rewritten
  <2> QED
    BY <1>2, <2>3 DEF v
<1>5. CASE ~(w.link.connected /\ "arrival" \notin refused)
  BY <1>3, <1>5
<1> QED
  BY <1>4, <1>5

(* ps5_controller_send *)
LEMMA SendSound ==
  ASSUME NEW w, Sound(w), NEW event \in SUBSET Held, NEW refused
  PROVE  LET v == Send(w, event, refused)
         IN  /\ Sound(v) /\ SameModes(v, w) /\ v.in.down = w.in.down
             /\ v.in.last = w.in.last
<1> DEFINE i == [w.in EXCEPT !.event = event, !.due = FALSE]
           a == PadArrives(w, refused)
           h == [w.host EXCEPT !.pad = event, !.gone = "no"]
           b == [w EXCEPT !.in = i]
           c == [a EXCEPT !.in = i, !.host = h]
           v == Send(w, event, refused)
<1>1. w \in Worlds /\ w.in \in Ins /\ w.host \in Hosts /\ w.link \in Links
  BY DEF Sound, Worlds
<1>2. Sound(a) /\ a.in = w.in /\ a.host = w.host /\ a.link.connected = w.link.connected
  BY ArrivesSound
<1>3. \/ v = w \/ v = a
      \/ v = b /\ ~w.link.connected
      \/ v = c /\ a.link.announced
  <2>1. Recorded(w, event) = b
    BY <1>1 DEF Recorded, Worlds, Ins
  <2> HIDE DEF a
  <2>2. a \in Worlds
    BY <1>2 DEF Sound
  <2>3. [Recorded(a, event) EXCEPT !.host.pad = event, !.host.gone = "no"] = c
    BY <1>2, <2>2 DEF Recorded, Worlds, Ins, Hosts
  <2>4. v = IF ~w.in.due /\ w.in.event = event THEN w
            ELSE IF ~w.link.connected THEN b
            ELSE IF ~a.link.announced \/ "pad" \in refused THEN a ELSE c
    BY <2>1, <2>3 DEF Send, a
  <2> HIDE DEF b, c, v
  <2> QED
    BY <2>4
<1>4. /\ i \in Ins /\ i.event = event /\ i.mouse = w.in.mouse
      /\ i.keyboard = w.in.keyboard /\ i.shown = w.in.shown /\ i.down = w.in.down
      /\ i.last = w.in.last
  BY <1>1 DEF Ins
<1>5. /\ h \in Hosts /\ h.pad = event /\ h.gone = "no" /\ h.mouse = w.host.mouse
      /\ h.keys = w.host.keys /\ h.stuck = w.host.stuck
  BY <1>1 DEF Hosts
<1>6. b \in Worlds /\ b.in = i /\ b.host = w.host /\ b.link = w.link
  BY <1>1, <1>4 DEF Worlds
<1> HIDE DEF a, i, h
<1>7. a \in Worlds /\ Remembered(w) /\ Left(w)
  BY <1>2 DEF Sound
<1>8. c \in Worlds /\ c.in = i /\ c.host = h /\ c.link = a.link
  BY <1>4, <1>5, <1>7 DEF Worlds
<1> HIDE DEF b, c
<1>9. ~w.link.connected => Sound(b)
  BY <1>4, <1>6, <1>7 DEF Sound, Remembered, Left
<1>10. a.link.announced => Sound(c)
  <2>1. Remembered(a)
    BY <1>2 DEF Sound
  <2> QED
    BY <1>4, <1>5, <1>7, <1>8, <2>1 DEF Sound, Remembered, Left
<1> HIDE DEF v
<1>11. Sound(v)
  BY <1>2, <1>3, <1>9, <1>10
<1>12. v.in \in {w.in, i}
  BY <1>2, <1>3, <1>6, <1>8
<1>13. SameModes(v, w) /\ v.in.down = w.in.down /\ v.in.last = w.in.last
  BY <1>4, <1>12 DEF SameModes
<1> QED
  BY <1>11, <1>13 DEF v

(* ps5_controller_mouse_buttons *)
LEMMA MoveSound ==
  ASSUME NEW w, Sound(w), NEW previous, NEW current, NEW refused
  PROVE  LET v == MoveButtons(w, previous, current, refused)
         IN  /\ Sound(v) /\ SameModes(v, w)
             /\ v.in.last = w.in.last /\ v.link = w.link
             /\ v.in.down = (w.in.down \cup ((current \ previous) \cap MouseButtons))
                                \ ((previous \ current) \cap MouseButtons)
<1> DEFINE pressed == (current \ previous) \cap MouseButtons
           released == (previous \ current) \cap MouseButtons
           goes == IF "release" \in refused THEN {} ELSE released
           comes == IF "press" \in refused THEN {} ELSE pressed
           i == [w.in EXCEPT !.down = (w.in.down \cup pressed) \ released]
           h == [w.host EXCEPT !.mouse = (w.host.mouse \ goes) \cup comes,
                               !.stuck = (w.host.stuck \ (goes \cup comes)) \cup (released \ goes)]
           v == MoveButtons(w, previous, current, refused)
<1>1. w.in \in Ins /\ w.host \in Hosts /\ w \in Worlds
  BY DEF Sound, Worlds
<1>2. v = [w EXCEPT !.in = i, !.host = h]
  BY <1>1 DEF MoveButtons, Worlds, Ins, Hosts
<1>3. /\ pressed \subseteq MouseButtons /\ released \subseteq MouseButtons
      /\ pressed \cap released = {}
  OBVIOUS
<1>4. goes \subseteq released /\ comes \subseteq pressed
  OBVIOUS
<1> HIDE DEF v, pressed, released, goes, comes
<1>5. w.in.down \subseteq MouseButtons /\ w.host.mouse \subseteq MouseButtons
      /\ w.host.keys \subseteq Taps /\ w.host.stuck \subseteq MouseButtons \cup Taps
  BY <1>1 DEF Ins, Hosts
<1>6. i \in Ins
  <2>1. (w.in.down \cup pressed) \ released \subseteq MouseButtons
    BY <1>3, <1>5
  <2> QED
    BY <1>1, <2>1 DEF Ins
<1>7. h \in Hosts
  <2>1. /\ (w.host.mouse \ goes) \cup comes \subseteq MouseButtons
        /\ (w.host.stuck \ (goes \cup comes)) \cup (released \ goes)
               \subseteq MouseButtons \cup Taps
    BY <1>3, <1>4, <1>5
  <2> QED
    BY <1>1, <2>1 DEF Hosts
<1>8. /\ i.event = w.in.event /\ i.due = w.in.due /\ i.mouse = w.in.mouse
      /\ i.keyboard = w.in.keyboard /\ i.shown = w.in.shown /\ i.last = w.in.last
      /\ i.down = (w.in.down \cup pressed) \ released
      /\ h.pad = w.host.pad /\ h.gone = w.host.gone /\ h.keys = w.host.keys
      /\ h.mouse = (w.host.mouse \ goes) \cup comes
      /\ h.stuck = (w.host.stuck \ (goes \cup comes)) \cup (released \ goes)
  BY <1>1 DEF Ins, Hosts
<1> HIDE DEF i, h
<1>9. MouseButtons \cap Taps = {}
  BY DEF MouseButtons, Taps
<1>10. w.host.mouse \subseteq w.in.down \cup w.host.stuck /\ w.host.keys \subseteq w.host.stuck
  BY DEF Sound, Left
<1>11. h.mouse \subseteq i.down \cup h.stuck
  BY <1>3, <1>4, <1>8, <1>10
<1>12. h.keys \subseteq h.stuck
  BY <1>3, <1>4, <1>5, <1>8, <1>9, <1>10
<1>13. v \in Worlds /\ v.in = i /\ v.host = h /\ v.link = w.link
  BY <1>1, <1>2, <1>6, <1>7 DEF Worlds
<1>14. Sound(v)
  BY <1>8, <1>11, <1>12, <1>13 DEF Sound, Remembered, Left
<1>15. SameModes(v, w)
  BY <1>8, <1>13 DEF SameModes
<1>16. v.in.down = (w.in.down \cup ((current \ previous) \cap MouseButtons))
                                \ ((previous \ current) \cap MouseButtons)
  BY <1>8, <1>13 DEF pressed, released
<1> QED
  BY <1>8, <1>13, <1>14, <1>15, <1>16 DEF v

(* What the program notes of itself says nothing to the host. *)
LEMMA Noted ==
  ASSUME NEW w, Sound(w), NEW i \in Ins, i.event = w.in.event, i.down = w.in.down
  PROVE  LET v == [w EXCEPT !.in = i]
         IN  Sound(v) /\ v.in = i /\ v.host = w.host /\ v.link = w.link
<1> DEFINE v == [w EXCEPT !.in = i]
<1>1. v \in Worlds /\ v.in = i /\ v.host = w.host /\ v.link = w.link
  BY DEF Sound, Worlds
<1> HIDE DEF v
<1>2. Sound(v)
  BY <1>1 DEF Sound, Remembered, Left
<1> QED
  BY <1>1, <1>2 DEF v

LEMMA MouseNoted ==
  ASSUME NEW w, Sound(w), NEW b \in BOOLEAN
  PROVE  LET v == [w EXCEPT !.in.mouse = b]
         IN  /\ Sound(v) /\ v.in.mouse = b
             /\ v.in.keyboard = w.in.keyboard /\ v.in.shown = w.in.shown
             /\ v.in.down = w.in.down /\ v.in.last = w.in.last /\ v.host = w.host
<1> DEFINE i == [w.in EXCEPT !.mouse = b]
           v == [w EXCEPT !.in = i]
<1>1. w.in \in Ins
  BY DEF Sound, Worlds
<1>2. /\ i \in Ins /\ i.mouse = b /\ i.event = w.in.event /\ i.due = w.in.due
      /\ i.keyboard = w.in.keyboard /\ i.shown = w.in.shown /\ i.down = w.in.down
      /\ i.last = w.in.last
  BY <1>1 DEF Ins
<1>3. v = [w EXCEPT !.in.mouse = b]
  OBVIOUS
<1> HIDE DEF i
<1>4. Sound(v) /\ v.in = i /\ v.host = w.host
  BY <1>2, Noted
<1> HIDE DEF v
<1>5. /\ Sound(v) /\ v.in.mouse = b
      /\ v.in.keyboard = w.in.keyboard /\ v.in.shown = w.in.shown
      /\ v.in.down = w.in.down /\ v.in.last = w.in.last /\ v.host = w.host
  BY <1>2, <1>4
<1> QED
  BY <1>3, <1>5

KeyboardAs(w, b) == [w EXCEPT !.in.keyboard = b, !.in.shown = b]

LEMMA KeyboardNoted ==
  ASSUME NEW w, Sound(w), NEW b \in BOOLEAN
  PROVE  LET v == KeyboardAs(w, b)
         IN  /\ Sound(v) /\ v.in.mouse = w.in.mouse
             /\ v.in.keyboard = b /\ v.in.shown = b
             /\ v.in.down = w.in.down /\ v.in.last = w.in.last /\ v.host = w.host
<1> DEFINE i == [w.in EXCEPT !.keyboard = b, !.shown = b]
           v == [w EXCEPT !.in = i]
<1>1. w.in \in Ins /\ w \in Worlds
  BY DEF Sound, Worlds
<1>2. /\ i \in Ins /\ i.mouse = w.in.mouse /\ i.event = w.in.event /\ i.due = w.in.due
      /\ i.keyboard = b /\ i.shown = b /\ i.down = w.in.down /\ i.last = w.in.last
  BY <1>1 DEF Ins
<1>3. v = KeyboardAs(w, b)
  BY <1>1 DEF Worlds, Ins, KeyboardAs
<1> HIDE DEF i
<1>4. Sound(v) /\ v.in = i /\ v.host = w.host
  BY <1>2, Noted
<1> HIDE DEF v
<1>5. /\ Sound(v) /\ v.in.mouse = w.in.mouse
      /\ v.in.keyboard = b /\ v.in.shown = b
      /\ v.in.down = w.in.down /\ v.in.last = w.in.last /\ v.host = w.host
  BY <1>2, <1>4
<1> QED
  BY <1>3, <1>5

LEMMA LastNoted ==
  ASSUME NEW w, Sound(w), NEW x \in SUBSET Held
  PROVE  LET v == [w EXCEPT !.in.last = x]
         IN  /\ Sound(v) /\ SameModes(v, w)
             /\ v.in.down = w.in.down /\ v.host = w.host
<1> DEFINE i == [w.in EXCEPT !.last = x]
           v == [w EXCEPT !.in = i]
<1>1. w.in \in Ins
  BY DEF Sound, Worlds
<1>2. /\ i \in Ins /\ i.mouse = w.in.mouse /\ i.event = w.in.event /\ i.due = w.in.due
      /\ i.keyboard = w.in.keyboard /\ i.shown = w.in.shown /\ i.down = w.in.down
  BY <1>1 DEF Ins
<1>3. v = [w EXCEPT !.in.last = x]
  OBVIOUS
<1> HIDE DEF i
<1>4. Sound(v) /\ v.in = i /\ v.host = w.host
  BY <1>2, Noted
<1> HIDE DEF v
<1>5. /\ Sound(v) /\ SameModes(v, w)
      /\ v.in.down = w.in.down /\ v.host = w.host
  BY <1>2, <1>4 DEF SameModes
<1> QED
  BY <1>3, <1>5

LEMMA LastMouseNoted ==
  ASSUME NEW w, Sound(w), NEW x \in SUBSET Held
  PROVE  LET v == [w EXCEPT !.in.lastMouse = x]
         IN  /\ Sound(v) /\ SameModes(v, w)
             /\ v.in.down = w.in.down /\ v.in.last = w.in.last /\ v.host = w.host
<1> DEFINE i == [w.in EXCEPT !.lastMouse = x]
           v == [w EXCEPT !.in = i]
<1>1. w.in \in Ins
  BY DEF Sound, Worlds
<1>2. /\ i \in Ins /\ i.mouse = w.in.mouse /\ i.event = w.in.event /\ i.due = w.in.due
      /\ i.keyboard = w.in.keyboard /\ i.shown = w.in.shown /\ i.down = w.in.down
      /\ i.last = w.in.last
  BY <1>1 DEF Ins
<1>3. v = [w EXCEPT !.in.lastMouse = x]
  OBVIOUS
<1> HIDE DEF i
<1>4. Sound(v) /\ v.in = i /\ v.host = w.host
  BY <1>2, Noted
<1> HIDE DEF v
<1>5. /\ Sound(v) /\ SameModes(v, w)
      /\ v.in.down = w.in.down /\ v.in.last = w.in.last /\ v.host = w.host
  BY <1>2, <1>4 DEF SameModes
<1> QED
  BY <1>3, <1>5

LEMMA DueNoted ==
  ASSUME NEW w, Sound(w)
  PROVE  LET v == [w EXCEPT !.in.due = TRUE]
         IN  /\ Sound(v) /\ SameModes(v, w)
             /\ v.in.down = w.in.down /\ v.in.last = w.in.last /\ v.host = w.host
<1> DEFINE i == [w.in EXCEPT !.due = TRUE]
           v == [w EXCEPT !.in = i]
<1>1. w.in \in Ins
  BY DEF Sound, Worlds
<1>2. /\ i \in Ins /\ i.mouse = w.in.mouse /\ i.event = w.in.event /\ i.due = TRUE
      /\ i.keyboard = w.in.keyboard /\ i.shown = w.in.shown /\ i.down = w.in.down
      /\ i.last = w.in.last
  BY <1>1 DEF Ins
<1>3. v = [w EXCEPT !.in.due = TRUE]
  OBVIOUS
<1> HIDE DEF i
<1>4. Sound(v) /\ v.in = i /\ v.host = w.host
  BY <1>2, Noted
<1> HIDE DEF v
<1>5. /\ Sound(v) /\ SameModes(v, w)
      /\ v.in.down = w.in.down /\ v.in.last = w.in.last /\ v.host = w.host
  BY <1>2, <1>4 DEF SameModes
<1> QED
  BY <1>3, <1>5

LEMMA NoneDownNoted ==
  ASSUME NEW w, Sound(w), w.in.down = {}
  PROVE  [w EXCEPT !.in.down = {}] = w
BY DEF Sound, Worlds, Ins

(* ps5_controller_release_mouse_buttons *)
LEMMA ReleaseSound ==
  ASSUME NEW w, Sound(w), NEW refused
  PROVE  LET v == ReleaseButtons(w, refused)
         IN  /\ Sound(v) /\ SameModes(v, w)
             /\ v.in.down = {} /\ v.in.last = w.in.last
<1> DEFINE m == MoveButtons(w, w.in.down, {}, refused)
           v == [m EXCEPT !.in.lastMouse = {}]
<1>1. w.in.down \subseteq MouseButtons
  BY DEF Sound, Worlds, Ins
<1>2. /\ Sound(m) /\ SameModes(m, w)
      /\ m.in.last = w.in.last
      /\ m.in.down = (w.in.down \cup (({} \ w.in.down) \cap MouseButtons))
                         \ ((w.in.down \ {}) \cap MouseButtons)
  BY MoveSound
<1>3. m.in.down = {}
  BY <1>1, <1>2
<1>4. v = ReleaseButtons(w, refused)
  BY DEF ReleaseButtons
<1> HIDE DEF m
<1>5. /\ Sound(v) /\ SameModes(v, m)
      /\ v.in.down = m.in.down /\ v.in.last = m.in.last /\ v.host = m.host
  BY <1>2, LastMouseNoted
<1> HIDE DEF v
<1>6. /\ Sound(v) /\ SameModes(v, w)
      /\ v.in.down = {} /\ v.in.last = w.in.last
  BY <1>2, <1>3, <1>5 DEF SameModes
<1> QED
  BY <1>4, <1>6

(* ps5_controller_set_mouse *)
LEMMA MouseOn ==
  ASSUME NEW w, Sound(w), w.in.down = {}, NEW refused
  PROVE  LET v == SetMouse(w, TRUE, refused)
         IN  /\ Sound(v)
             /\ v.in.mouse = TRUE /\ v.in.keyboard = w.in.keyboard
             /\ v.in.shown = w.in.shown /\ v.in.last = w.in.last
<1> DEFINE a == [w EXCEPT !.in.mouse = TRUE]
           b == Send(a, {}, refused)
           v == [b EXCEPT !.in.down = {}]
<1>1. /\ Sound(a) /\ a.in.mouse = TRUE
      /\ a.in.keyboard = w.in.keyboard /\ a.in.shown = w.in.shown
      /\ a.in.down = w.in.down /\ a.in.last = w.in.last
  BY MouseNoted
<1>2. v = SetMouse(w, TRUE, refused)
  BY DEF SetMouse
<1> HIDE DEF a
<1>3. {} \in SUBSET Held
  OBVIOUS
<1>4. /\ Sound(b) /\ SameModes(b, a) /\ b.in.down = a.in.down /\ b.in.last = a.in.last
  BY <1>1, <1>3, SendSound
<1> HIDE DEF b
<1>5. v = b
  BY <1>1, <1>4, NoneDownNoted
<1> HIDE DEF v
<1>6. /\ Sound(v)
      /\ v.in.mouse = TRUE /\ v.in.keyboard = w.in.keyboard
      /\ v.in.shown = w.in.shown /\ v.in.last = w.in.last
  BY <1>1, <1>4, <1>5 DEF SameModes
<1> QED
  BY <1>2, <1>6

LEMMA MouseOff ==
  ASSUME NEW w, Sound(w), NEW refused
  PROVE  LET v == SetMouse(w, FALSE, refused)
         IN  /\ Sound(v) /\ v.in.down = {}
             /\ v.in.mouse = FALSE /\ v.in.keyboard = w.in.keyboard
             /\ v.in.shown = w.in.shown /\ v.in.last = w.in.last
<1> DEFINE a == [w EXCEPT !.in.mouse = FALSE]
           b == ReleaseButtons(a, refused)
           v == [b EXCEPT !.in.due = TRUE]
<1>1. /\ Sound(a) /\ a.in.mouse = FALSE
      /\ a.in.keyboard = w.in.keyboard /\ a.in.shown = w.in.shown
      /\ a.in.last = w.in.last
  BY MouseNoted
<1>2. v = SetMouse(w, FALSE, refused)
  BY DEF SetMouse
<1> HIDE DEF a
<1>3. Sound(b) /\ SameModes(b, a) /\ b.in.down = {} /\ b.in.last = a.in.last
  BY <1>1, ReleaseSound
<1> HIDE DEF b
<1>4. /\ Sound(v) /\ SameModes(v, b)
      /\ v.in.down = b.in.down /\ v.in.last = b.in.last
  BY <1>3, DueNoted
<1> HIDE DEF v
<1>5. /\ Sound(v) /\ v.in.down = {}
      /\ v.in.mouse = FALSE /\ v.in.keyboard = w.in.keyboard
      /\ v.in.shown = w.in.shown /\ v.in.last = w.in.last
  BY <1>1, <1>3, <1>4 DEF SameModes
<1> QED
  BY <1>2, <1>5

(* ps5_controller_set_keyboard: whatever was on before, the host is left   *)
(* with one device.                                                        *)
LEMMA KeyboardSet ==
  ASSUME NEW w, Sound(w), ModesApart(w), Counted(w), NEW enabled \in BOOLEAN, NEW refused,
         ~enabled => w.in.keyboard
  PROVE  LET v == SetKeyboard(w, enabled, refused)
         IN  /\ Sound(v) /\ ModesApart(v) /\ Counted(v)
             /\ v.in.mouse = FALSE /\ v.in.keyboard = enabled /\ v.in.last = w.in.last
<1> DEFINE a == KeyboardAs(w, enabled)
           b == IF a.in.mouse THEN SetMouse(a, FALSE, refused) ELSE a
<1>1. /\ Sound(a) /\ a.in.mouse = w.in.mouse
      /\ a.in.keyboard = enabled /\ a.in.shown = enabled
      /\ a.in.down = w.in.down /\ a.in.last = w.in.last
  <2>1. ASSUME NEW e \in BOOLEAN
        PROVE  LET u == KeyboardAs(w, e)
               IN  /\ Sound(u) /\ u.in.mouse = w.in.mouse
                   /\ u.in.keyboard = e /\ u.in.shown = e
                   /\ u.in.down = w.in.down /\ u.in.last = w.in.last /\ u.host = w.host
    BY KeyboardNoted
  <2>2. CASE enabled = TRUE
    BY <2>1, <2>2
  <2>3. CASE enabled = FALSE
    BY <2>1, <2>3
  <2> QED
    BY <2>2, <2>3
<1>2. SetKeyboard(w, enabled, refused)
        = IF enabled THEN Send(b, {}, refused) ELSE [a EXCEPT !.in.due = TRUE]
  BY DEF SetKeyboard, KeyboardAs
<1> HIDE DEF a
<1>3. CASE enabled
  <2>1. /\ Sound(b) /\ b.in.mouse = FALSE /\ b.in.down = {}
        /\ b.in.keyboard = enabled /\ b.in.shown = enabled /\ b.in.last = w.in.last
    <3>1. CASE a.in.mouse
      BY <1>1, <3>1, MouseOff
    <3>2. CASE ~a.in.mouse
      <4>1. a.in.mouse = FALSE
        BY <1>1, <3>2 DEF Sound, Worlds, Ins
      <4> QED
        BY <1>1, <3>2, <4>1 DEF Counted
    <3> QED
      BY <3>1, <3>2
  <2> DEFINE v == Send(b, {}, refused)
  <2>2. {} \in SUBSET Held
    OBVIOUS
  <2> HIDE DEF b
  <2>3. /\ Sound(v) /\ SameModes(v, b) /\ v.in.down = b.in.down /\ v.in.last = b.in.last
    BY <2>1, <2>2, SendSound
  <2>4. v = SetKeyboard(w, enabled, refused)
    BY <1>2, <1>3
  <2> HIDE DEF v
  <2>5. /\ Sound(v) /\ ModesApart(v) /\ Counted(v)
        /\ v.in.mouse = FALSE /\ v.in.keyboard = enabled /\ v.in.last = w.in.last
    BY <1>1, <2>1, <2>3 DEF SameModes, ModesApart, Counted
  <2> QED
    BY <2>4, <2>5
<1>4. CASE ~enabled
  <2> DEFINE v == [a EXCEPT !.in.due = TRUE]
  <2>1. /\ Sound(v) /\ SameModes(v, a)
        /\ v.in.down = a.in.down /\ v.in.last = a.in.last
    BY <1>1, DueNoted
  <2>2. v = SetKeyboard(w, enabled, refused)
    BY <1>2, <1>4
  <2> HIDE DEF v
  <2>3. w.in.mouse = FALSE /\ w.in.down = {}
    BY <1>4 DEF ModesApart, Counted, Sound, Worlds, Ins
  <2>4. /\ Sound(v) /\ ModesApart(v) /\ Counted(v)
        /\ v.in.mouse = FALSE /\ v.in.keyboard = enabled /\ v.in.last = w.in.last
    BY <1>1, <2>1, <2>3 DEF SameModes, ModesApart, Counted
  <2> QED
    BY <2>2, <2>4
<1> QED
  BY <1>3, <1>4

(* ps5_send_windows_key *)
LEMMA TapSound ==
  ASSUME NEW w, Sound(w), NEW key \in Taps, NEW refused
  PROVE  LET v == Tap(w, key, refused)
         IN  Sound(v) /\ v.in = w.in
<1> DEFINE h == [w.host EXCEPT !.keys = @ \cup {key}, !.stuck = @ \cup {key}]
           g == [w.host EXCEPT !.keys = @ \ {key}, !.stuck = @ \ {key}]
           v == Tap(w, key, refused)
<1>1. w.in \in Ins /\ w.host \in Hosts /\ w \in Worlds
  BY DEF Sound, Worlds
<1>2. w.host.keys \subseteq Taps /\ w.host.stuck \subseteq MouseButtons \cup Taps
      /\ w.host.mouse \subseteq MouseButtons
  BY <1>1 DEF Hosts
<1>3. h \in Hosts /\ g \in Hosts
  <2>1. /\ w.host.keys \cup {key} \subseteq Taps
        /\ w.host.stuck \cup {key} \subseteq MouseButtons \cup Taps
        /\ w.host.keys \ {key} \subseteq Taps
        /\ w.host.stuck \ {key} \subseteq MouseButtons \cup Taps
    BY <1>2
  <2> QED
    BY <1>1, <2>1 DEF Hosts
<1>4. /\ h.pad = w.host.pad /\ h.mouse = w.host.mouse
      /\ h.keys = w.host.keys \cup {key} /\ h.stuck = w.host.stuck \cup {key}
      /\ h.gone = w.host.gone /\ g.gone = w.host.gone
      /\ g.pad = w.host.pad /\ g.mouse = w.host.mouse
      /\ g.keys = w.host.keys \ {key} /\ g.stuck = w.host.stuck \ {key}
  BY <1>1 DEF Hosts
<1>5. \/ v = w
      \/ v = [w EXCEPT !.host = h]
      \/ v = [w EXCEPT !.host = g]
  BY <1>1 DEF Tap, Worlds, Hosts
<1> HIDE DEF h, g, v
<1>6. /\ v \in Worlds /\ v.in = w.in /\ v.link = w.link
      /\ v.host = w.host \/ v.host = h \/ v.host = g
  BY <1>1, <1>3, <1>5 DEF Worlds
<1>7. key \notin MouseButtons
  BY DEF MouseButtons, Taps
<1>8. /\ w.host.mouse \subseteq w.in.down \cup w.host.stuck
      /\ w.host.keys \subseteq w.host.stuck
  BY DEF Sound, Left
<1>9. /\ h.mouse \subseteq w.in.down \cup h.stuck /\ h.keys \subseteq h.stuck
      /\ g.mouse \subseteq w.in.down \cup g.stuck /\ g.keys \subseteq g.stuck
  BY <1>2, <1>4, <1>7, <1>8
<1>10. Sound(v)
  BY <1>4, <1>6, <1>8, <1>9 DEF Sound, Remembered, Left
<1> QED
  BY <1>6, <1>10 DEF v

(* A sound world whose modes and what is counted down agree.               *)
Good(w) == Sound(w) /\ ModesApart(w) /\ Counted(w)

(* ps5_controller_keyboard_input *)
LEMMA KeyboardInputGood ==
  ASSUME NEW w, Good(w), w.in.keyboard, NEW current, NEW chosen \in Chosen, NEW refused
  PROVE  LET v == KeyboardInput(w, current, chosen, refused)
         IN  /\ Good(v) /\ v.in.mouse = FALSE
             /\ current = {} => v = w
<1> DEFINE edges == current \ w.in.last
           does == IF Touch \in current THEN "nothing"
                   ELSE IF "cross" \in edges THEN chosen
                   ELSE IF "square" \in edges THEN "backspace"
                   ELSE IF "triangle" \in edges THEN "shift"
                   ELSE IF "options" \in edges THEN "enter"
                   ELSE IF "circle" \in edges THEN "close" ELSE "nothing"
           tapped == IF does \in Taps THEN Tap(w, does, refused) ELSE w
           v == KeyboardInput(w, current, chosen, refused)
<1>1. v = IF does \in {"enter", "close"} THEN SetKeyboard(tapped, FALSE, refused) ELSE tapped
  BY DEF KeyboardInput
<1>2. current = {} => does = "nothing"
  OBVIOUS
<1> HIDE DEF does, v
<1>3. Sound(tapped) /\ tapped.in = w.in
  BY TapSound DEF Good
<1>4. current = {} => v = w
  BY <1>1, <1>2 DEF Taps
<1> HIDE DEF tapped
<1>5. w.in.mouse = FALSE
  BY DEF Good, ModesApart, Sound, Worlds, Ins
<1>6. ModesApart(tapped) /\ Counted(tapped) /\ tapped.in.keyboard
  BY <1>3 DEF Good, ModesApart, Counted
<1>7. CASE does \in {"enter", "close"}
  <2> DEFINE u == SetKeyboard(tapped, FALSE, refused)
  <2>1. Sound(u) /\ ModesApart(u) /\ Counted(u) /\ u.in.mouse = FALSE
    BY <1>3, <1>6, KeyboardSet
  <2>2. v = u
    BY <1>1, <1>7
  <2> QED
    BY <1>4, <1>6, <2>1, <2>2 DEF Good, v
<1>8. CASE does \notin {"enter", "close"}
  <2>1. v = tapped
    BY <1>1, <1>8
  <2> QED
    BY <1>3, <1>4, <1>5, <1>6, <2>1 DEF Good, v
<1> QED
  BY <1>7, <1>8

(* A pad that was connected anew. *)
LEMMA RecountedGood ==
  ASSUME NEW w, Good(w), NEW n \in 0..1, NEW refused
  PROVE  Good(Recounted(w, n, refused))
<1> DEFINE i == [w.in EXCEPT !.count = n, !.last = {}, !.due = TRUE]
           a == [w EXCEPT !.in = i]
           u == ReleaseButtons(a, refused)
           v == Recounted(w, n, refused)
<1>1. w.in \in Ins /\ w \in Worlds /\ Sound(w)
  BY DEF Good, Sound, Worlds
<1>2. i \in Ins
  <2>1. PICK t \in BOOLEAN, l \in SUBSET Held : t = TRUE /\ l = {}
    OBVIOUS
  <2>2. i = [w.in EXCEPT !.count = n, !.last = l, !.due = t]
    BY <2>1
  <2>3. n \in 0..2
    OBVIOUS
  <2>4. [w.in EXCEPT !.count = n, !.last = l, !.due = t] \in Ins
    BY <1>1, <2>1, <2>3 DEF Ins
  <2> QED
    BY <2>2, <2>4
<1>3. /\ i.mouse = w.in.mouse /\ i.keyboard = w.in.keyboard /\ i.shown = w.in.shown
      /\ i.down = w.in.down /\ i.event = w.in.event
  BY <1>1 DEF Ins
<1>4. v = IF w.in.count = n THEN w ELSE u
  <2>1. a = [w EXCEPT !.in.count = n, !.in.last = {}, !.in.due = TRUE]
    BY <1>1 DEF Worlds, Ins
  <2> QED
    BY <2>1 DEF Recounted
<1> HIDE DEF i, v
<1>5. Sound(a) /\ a.in = i
  BY <1>1, <1>2, <1>3, Noted
<1> HIDE DEF a
<1>6. Sound(u) /\ SameModes(u, a) /\ u.in.down = {}
  BY <1>5, ReleaseSound
<1> HIDE DEF u
<1>7. Good(u)
  BY <1>3, <1>5, <1>6 DEF Good, ModesApart, Counted, SameModes
<1> QED
  BY <1>4, <1>7 DEF v

(* What slots[0] makes of a sample says nothing of the modes. *)
LEMMA SameInGood ==
  ASSUME NEW w, Good(w), NEW v, Sound(v), v.in = w.in
  PROVE  Good(v)
BY DEF Good, ModesApart, Counted

(* PrimarySample *)
LEMMA PrimaryShowsGood ==
  ASSUME NEW w, Good(w), NEW s, s.on \in BOOLEAN, NEW n \in 0..1, NEW refused
  PROVE  Good(PrimaryShows(w, s, n, refused))
<1> DEFINE out == w.link.connected /\ (~s.on \/ n # w.link.count)
           left == IF out THEN PadLeaves(w, refused) ELSE w
           l == [left.link EXCEPT !.on = s.on, !.count = n, !.connected = s.on]
           here == With(left, left.host, l)
           v == PrimaryShows(w, s, n, refused)
<1>1. Sound(w) /\ w.link \in Links /\ Remembered(w)
  BY DEF Good, Sound, Worlds
<1>2. /\ Sound(left) /\ left.in = w.in
      /\ out => left.link.connected = FALSE
      /\ ~out => left.link = w.link
  <2>1. CASE out
    BY <1>1, <2>1, LeavesSound
  <2>2. CASE ~out
    BY <1>1, <2>2
  <2> QED
    BY <2>1, <2>2
<1>3. left \in Worlds /\ left.link \in Links /\ left.host \in Hosts /\ Remembered(left)
  <2> HIDE DEF left
  <2> QED
    BY <1>2 DEF Sound, Worlds
<1>4. v \in {here, PadArrives(here, refused)}
  <2> HIDE DEF out
  <2>1. here = [left EXCEPT !.link.on = s.on, !.link.count = n, !.link.connected = s.on]
    <3> HIDE DEF left
    <3> QED
      BY <1>3 DEF With, Worlds, Links
  <2> QED
    BY <2>1 DEF PrimaryShows, out
<1>5. left.link.announced => s.on
  <2>1. CASE out
    BY <1>2, <1>3, <2>1 DEF Remembered
  <2>2. CASE ~out
    BY <1>1, <1>2, <2>2 DEF Remembered
  <2> QED
    BY <2>1, <2>2
<1> HIDE DEF left, out
<1>6. l \in Links /\ l.announced = left.link.announced /\ l.connected = s.on
  BY <1>3 DEF Links
<1> HIDE DEF l
<1>7. Sound(here) /\ here.in = w.in
  <2>1. /\ left.host.gone = "no" => l.announced /\ left.host.pad = left.in.event
        /\ left.host.gone = "heard" => left.host.pad = {}
        /\ l.announced => l.connected
    BY <1>3, <1>5, <1>6 DEF Remembered
  <2> QED
    BY <1>2, <1>3, <1>6, <2>1, Rewritten
<1> HIDE DEF here, v
<1>8. Sound(PadArrives(here, refused)) /\ PadArrives(here, refused).in = w.in
  BY <1>7, ArrivesSound
<1>9. Sound(v) /\ v.in = w.in
  BY <1>4, <1>7, <1>8
<1> QED
  BY <1>9, SameInGood DEF v

(* In mouse mode, and when it is left. *)
LEMMA AsMouseGood ==
  ASSUME NEW w, Good(w), w.in.mouse, NEW toggled \in BOOLEAN, NEW event \in SUBSET Held,
         NEW buttons \in SUBSET Held, NEW refused
  PROVE  Good(AsMouse(w, toggled, event, buttons, refused))
<1> USE DEF Good
<1> DEFINE v == AsMouse(w, toggled, event, buttons, refused)
<1>1. CASE toggled
  <2> DEFINE a == SetMouse(w, FALSE, refused)
             b == Send(a, event, refused)
  <2>1. /\ Sound(a) /\ a.in.down = {} /\ a.in.mouse = FALSE
        /\ a.in.keyboard = w.in.keyboard /\ a.in.shown = w.in.shown
    BY MouseOff
  <2>2. v = b
    BY <1>1 DEF AsMouse
  <2> HIDE DEF a
  <2>3. Sound(b) /\ SameModes(b, a) /\ b.in.down = a.in.down
    BY <2>1, SendSound
  <2> HIDE DEF b, v
  <2>4. ModesApart(b) /\ Counted(b)
    BY <2>1, <2>3 DEF ModesApart, Counted, SameModes
  <2> QED
    BY <2>2, <2>3, <2>4 DEF v
<1>2. CASE ~toggled
  <2> DEFINE m == MoveButtons(w, w.in.lastMouse, buttons, refused)
             a == [m EXCEPT !.in.lastMouse = buttons]
             b == Send(a, {}, refused)
  <2>1. Sound(m) /\ SameModes(m, w)
    BY MoveSound
  <2>2. v = b
    BY <1>2 DEF AsMouse
  <2> HIDE DEF m
  <2>3. Sound(a) /\ SameModes(a, m)
    BY <2>1, LastMouseNoted
  <2> HIDE DEF a
  <2>4. {} \in SUBSET Held
    OBVIOUS
  <2>5. Sound(b) /\ SameModes(b, a)
    BY <2>3, <2>4, SendSound
  <2> HIDE DEF b, v
  <2>6. ModesApart(b) /\ Counted(b)
    BY <2>1, <2>3, <2>5 DEF ModesApart, Counted, SameModes
  <2> QED
    BY <2>2, <2>5, <2>6 DEF v
<1> QED
  BY <1>1, <1>2

LEMMA AsGamepadGood ==
  ASSUME NEW w, Good(w), w.in.mouse = FALSE, w.in.keyboard = FALSE, NEW toggled \in BOOLEAN,
         NEW event \in SUBSET Held, NEW buttons \in SUBSET Held, NEW refused
  PROVE  Good(AsGamepad(w, toggled, event, buttons, refused))
<1> USE DEF Good
<1> DEFINE v == AsGamepad(w, toggled, event, buttons, refused)
           a == Send(w, event, refused)
<1>1. Sound(a) /\ SameModes(a, w) /\ a.in.down = w.in.down
  BY SendSound
<1>2. w.in.down = {}
  BY DEF Counted
<1>3. v = IF ~toggled THEN a
          ELSE SetMouse([a EXCEPT !.in.lastMouse = buttons], TRUE, refused)
  BY DEF AsGamepad
<1> HIDE DEF a, v
<1>4. CASE ~toggled
  <2>1. ModesApart(a) /\ Counted(a)
    BY <1>1 DEF ModesApart, Counted, SameModes
  <2> QED
    BY <1>1, <1>3, <1>4, <2>1 DEF v
<1>5. CASE toggled
  <2> DEFINE b == [a EXCEPT !.in.lastMouse = buttons]
             c == SetMouse(b, TRUE, refused)
  <2>1. /\ Sound(b) /\ SameModes(b, a) /\ b.in.down = a.in.down
    BY <1>1, LastMouseNoted
  <2>2. v = c
    BY <1>3, <1>5
  <2> HIDE DEF b
  <2>3. /\ Sound(c) /\ c.in.mouse = TRUE
        /\ c.in.keyboard = b.in.keyboard /\ c.in.shown = b.in.shown
    BY <1>1, <1>2, <2>1, MouseOn
  <2> HIDE DEF c
  <2>4. ModesApart(c) /\ Counted(c)
    BY <1>1, <2>1, <2>3 DEF ModesApart, Counted, SameModes
  <2> QED
    BY <2>2, <2>3, <2>4 DEF v
<1> QED
  BY <1>4, <1>5

LEMMA StopNoted ==
  ASSUME NEW w, Good(w)
  PROVE  Good([w EXCEPT !.in.stop = TRUE])
<1> DEFINE i == [w.in EXCEPT !.stop = TRUE]
           v == [w EXCEPT !.in = i]
<1>1. w.in \in Ins /\ Sound(w)
  BY DEF Good, Sound, Worlds
<1>2. /\ i \in Ins /\ i.mouse = w.in.mouse /\ i.event = w.in.event
      /\ i.keyboard = w.in.keyboard /\ i.shown = w.in.shown /\ i.down = w.in.down
  BY <1>1 DEF Ins
<1>3. v = [w EXCEPT !.in.stop = TRUE]
  OBVIOUS
<1> HIDE DEF i
<1>4. Sound(v) /\ v.in = i
  BY <1>1, <1>2, Noted
<1> HIDE DEF v
<1>5. Good(v)
  BY <1>2, <1>4 DEF Good, ModesApart, Counted
<1> QED
  BY <1>3, <1>5

(* What a sample shows once the chords' own buttons are taken out of it.   *)
Raw(s) == IF ~s.on \/ s.menu THEN {} ELSE s.held
Kept(raw) == raw \ UNION {IF Chord(raw, b) THEN {Touch, b} ELSE {} : b \in Stripped}

(* The body of ps5_controller_poll. *)
LEMMA SampledGood ==
  ASSUME NEW w, Good(w), NEW s \in Samples, NEW chosen \in Chosen, NEW refused
  PROVE  Good(Sampled(w, s, chosen, refused))
<1> DEFINE raw == Raw(s)
           kept == Kept(raw)
           mouseToggle == Chord(raw, "square") /\ ~Chord(w.in.last, "square")
           keyToggle == Chord(raw, "triangle") /\ ~Chord(w.in.last, "triangle")
           keyed == IF keyToggle THEN SetKeyboard(w, ~w.in.keyboard, refused) ELSE w
           noted == [keyed EXCEPT !.in.last = raw]
           typed == IF keyToggle THEN keyed ELSE KeyboardInput(keyed, raw, chosen, refused)
           last == [typed EXCEPT !.in.last = raw]
           v == Sampled(w, s, chosen, refused)
<1>1. v = IF Chord(raw, "left1") THEN [w EXCEPT !.in.stop = TRUE]
          ELSE IF keyed.in.keyboard THEN Send(last, {}, refused)
          ELSE IF noted.in.mouse THEN AsMouse(noted, mouseToggle, kept, kept, refused)
          ELSE AsGamepad(noted, mouseToggle, kept, kept, refused)
  BY DEF Sampled, Raw, Kept
<1>2. s.held \subseteq Held /\ raw \in SUBSET Held /\ kept \in SUBSET Held
  BY DEF Held, Raw, Kept
<1>3. Sound(w) /\ ModesApart(w) /\ Counted(w)
  BY DEF Good
<1>4. w.in.keyboard \in BOOLEAN /\ w.in.mouse \in BOOLEAN
  BY <1>3 DEF Sound, Worlds, Ins
<1>5. mouseToggle \in BOOLEAN
  OBVIOUS
<1> HIDE DEF raw, kept, mouseToggle, keyToggle, v
<1>6. Good(keyed)
  <2>1. CASE keyToggle
    <3> DEFINE e == ~w.in.keyboard
               k == SetKeyboard(w, e, refused)
    <3>1. e \in BOOLEAN /\ (~e => w.in.keyboard)
      OBVIOUS
    <3> HIDE DEF e
    <3>2. Sound(k) /\ ModesApart(k) /\ Counted(k)
      <4>1. CASE e = TRUE
        BY <1>3, <3>1, <4>1, KeyboardSet
      <4>2. CASE e = FALSE
        BY <1>3, <3>1, <4>2, KeyboardSet
      <4> QED
        BY <3>1, <4>1, <4>2
    <3>3. keyed = k
      BY <2>1 DEF e
    <3> HIDE DEF k
    <3> QED
      BY <3>2, <3>3 DEF Good
  <2>2. CASE ~keyToggle
    BY <2>2
  <2> QED
    BY <2>1, <2>2
<1> HIDE DEF keyed
<1>7. keyed.in.keyboard \in BOOLEAN /\ keyed.in.mouse \in BOOLEAN
  BY <1>6 DEF Good, Sound, Worlds, Ins
<1>8. CASE Chord(raw, "left1")
  BY <1>1, <1>8, StopNoted DEF v
<1>9. CASE ~Chord(raw, "left1") /\ keyed.in.keyboard
  <2>1. Good(typed)
    <3>1. CASE keyToggle
      BY <1>6, <3>1
    <3>2. CASE ~keyToggle
      BY <1>6, <1>9, <3>2, KeyboardInputGood
    <3> QED
      BY <3>1, <3>2
  <2> HIDE DEF typed
  <2>2. Sound(last) /\ SameModes(last, typed) /\ last.in.down = typed.in.down
    BY <1>2, <2>1, LastNoted DEF Good
  <2> HIDE DEF last
  <2> DEFINE z == Send(last, {}, refused)
  <2>3. {} \in SUBSET Held
    OBVIOUS
  <2>4. Sound(z) /\ SameModes(z, last) /\ z.in.down = last.in.down
    BY <2>2, <2>3, SendSound
  <2>5. v = z
    BY <1>1, <1>9
  <2> HIDE DEF z
  <2> QED
    BY <2>1, <2>2, <2>4, <2>5 DEF v, Good, ModesApart, Counted, SameModes
<1>10. CASE ~Chord(raw, "left1") /\ ~keyed.in.keyboard
  <2>1. Sound(noted) /\ SameModes(noted, keyed) /\ noted.in.down = keyed.in.down
    BY <1>2, <1>6, LastNoted DEF Good
  <2> HIDE DEF noted
  <2>2. Good(noted)
    BY <1>6, <2>1 DEF Good, ModesApart, Counted, SameModes
  <2>3. CASE noted.in.mouse
    <3>1. v = AsMouse(noted, mouseToggle, kept, kept, refused)
      BY <1>1, <1>10, <2>3
    <3> QED
      BY <1>2, <1>5, <2>2, <2>3, <3>1, AsMouseGood DEF v
  <2>4. CASE ~noted.in.mouse
    <3>1. noted.in.mouse = FALSE /\ noted.in.keyboard = FALSE
      BY <1>7, <1>10, <2>1, <2>4 DEF SameModes
    <3>2. v = AsGamepad(noted, mouseToggle, kept, kept, refused)
      BY <1>1, <1>10, <2>4
    <3>3. ASSUME NEW t \in BOOLEAN
          PROVE  Good(AsGamepad(noted, t, kept, kept, refused))
      BY <1>2, <2>2, <3>1, AsGamepadGood
    <3> QED
      BY <1>5, <3>2, <3>3 DEF v
  <2> QED
    BY <2>3, <2>4
<1> QED
  BY <1>8, <1>9, <1>10

(* The inductive invariant. *)
InputInv ==
    /\ PadTypeOK /\ Left(World) /\ Counted(World) /\ ModesApart(World)
    /\ Remembered(World)

LEMMA WorldGood ==
  ASSUME InputInv PROVE Good(World)
BY DEF InputInv, Good, Sound, Worlds, Ins, Hosts, Links, World, PadTypeOK, Left, Counted,
   ModesApart, Remembered

LEMMA GoodBecomes ==
  ASSUME NEW w, Good(w), Becomes(w), still' \in Samples \cup {Moving}
  PROVE  InputInv'
<1>1. in' = w.in /\ host' = w.host /\ link' = w.link
  BY DEF Becomes
<1>2. w.in \in Ins /\ w.host \in Hosts /\ w.link \in Links
  BY DEF Good, Sound, Worlds
<1>3. PadTypeOK'
  BY <1>1, <1>2 DEF PadTypeOK, Ins, Hosts, Links
<1> QED
  BY <1>1, <1>3 DEF InputInv, World, Good, Sound, Left, Counted, ModesApart, Remembered

LEMMA PollSound == ASSUME InputInv, PollSampled PROVE InputInv'
<1>1. PICK s \in IF calm THEN {still} ELSE Samples :
        \E n \in Counts(s), refused \in PadRefusals,
           chosen \in IF in.keyboard /\ "cross" \in s.held THEN Chosen ELSE {"key"} :
            PadPoll(s, n, chosen, refused)
  BY DEF PollSampled
<1>2. PICK n \in Counts(s), refused \in PadRefusals,
           chosen \in IF in.keyboard /\ "cross" \in s.held THEN Chosen ELSE {"key"} :
        PadPoll(s, n, chosen, refused)
  BY <1>1
<1>3. UNCHANGED still
  BY DEF PollSampled
<1>4. s \in Samples /\ s.on \in BOOLEAN
  BY PadAssumption DEF InputInv, PadTypeOK, calm
<1>5. n \in 0..1
  BY DEF Counts, InputInv, PadTypeOK
<1>6. chosen \in Chosen
  BY DEF Chosen
<1> DEFINE a == Recounted(World, n, refused)
           b == PrimaryShows(a, s, n, refused)
           c == Sampled(b, s, chosen, refused)
<1>7. Becomes(c)
  BY <1>2 DEF PadPoll
<1>8. Good(a)
  BY <1>5, WorldGood, RecountedGood
<1> HIDE DEF a
<1>9. Good(b)
  BY <1>4, <1>5, <1>8, PrimaryShowsGood
<1> HIDE DEF b
<1>10. Good(c)
  BY <1>4, <1>6, <1>9, SampledGood
<1> HIDE DEF c
<1>11. still' \in Samples \cup {Moving}
  BY <1>3 DEF InputInv, PadTypeOK
<1> QED
  BY <1>7, <1>10, <1>11, GoodBecomes

LEMMA IdleSound == ASSUME InputInv, PollIdle PROVE InputInv'
<1>1. PICK refused \in PadRefusals :
        Becomes(Send(World, IF in.mouse THEN {} ELSE in.event, refused))
  BY DEF PollIdle
<1>2. UNCHANGED still /\ Good(World)
  BY WorldGood DEF PollIdle
<1> DEFINE event == IF in.mouse THEN {} ELSE in.event
           w == Send(World, event, refused)
<1>3. event \in SUBSET Held
  BY DEF InputInv, PadTypeOK
<1> HIDE DEF event
<1>4. Sound(w) /\ SameModes(w, World) /\ w.in.down = World.in.down
  BY <1>2, <1>3, SendSound DEF Good
<1>5. Becomes(w)
  BY <1>1 DEF event
<1> HIDE DEF w
<1>6. Good(w)
  BY <1>2, <1>4 DEF Good, ModesApart, Counted, SameModes
<1> QED
  BY <1>2, <1>5, <1>6, GoodBecomes DEF InputInv, PadTypeOK

LEMMA DueSound == ASSUME InputInv, KeepaliveDue PROVE InputInv'
<1> DEFINE w == [World EXCEPT !.in.due = TRUE]
<1>1. UNCHANGED still /\ Becomes(w) /\ Good(World)
  BY WorldGood DEF KeepaliveDue, Becomes, World
<1>2. Sound(w) /\ SameModes(w, World) /\ w.in.down = World.in.down
  BY <1>1, DueNoted DEF Good
<1> HIDE DEF w
<1>3. Good(w)
  BY <1>1, <1>2 DEF Good, ModesApart, Counted, SameModes
<1> QED
  BY <1>1, <1>3, GoodBecomes DEF InputInv, PadTypeOK

LEMMA LogOutSound == ASSUME InputInv, PrimaryLogsOut PROVE InputInv'
<1>1. PICK refused \in PadRefusals : Becomes(PadLeaves(World, refused))
  BY DEF PrimaryLogsOut
<1> DEFINE w == PadLeaves(World, refused)
<1>2. UNCHANGED still /\ Good(World)
  BY WorldGood DEF PrimaryLogsOut
<1>3. Sound(w) /\ w.in = World.in
  BY <1>2, LeavesSound DEF Good
<1>4. Becomes(w)
  BY <1>1
<1> HIDE DEF w
<1>5. Good(w)
  BY <1>2, <1>3, SameInGood
<1> QED
  BY <1>2, <1>4, <1>5, GoodBecomes DEF InputInv, PadTypeOK

LEMMA OthersSound == ASSUME InputInv, OthersSend PROVE InputInv'
<1> DEFINE h == [host EXCEPT !.pad = {}, !.gone = "heard"]
           w == With(World, h, link)
<1>1. /\ UNCHANGED still /\ Good(World) /\ Becomes(w) /\ ~link.announced
  BY WorldGood DEF OthersSend, Becomes, World, With
<1>2. /\ h \in Hosts /\ h.gone = "heard" /\ h.pad = {} /\ h.mouse = host.mouse
      /\ h.keys = host.keys /\ h.stuck = host.stuck /\ link \in Links
  BY DEF InputInv, PadTypeOK, Hosts, Links
<1> HIDE DEF h
<1>3. World.host = host /\ World.link = link /\ Sound(World)
  BY <1>1 DEF World, Good
<1>4. Sound(w) /\ w.in = World.in
  BY <1>1, <1>2, <1>3, Rewritten
<1> HIDE DEF w
<1>5. Good(w)
  BY <1>1, <1>4, SameInGood
<1> QED
  BY <1>1, <1>5, GoodBecomes DEF InputInv, PadTypeOK

LEMMA FreshTyped ==
  /\ FreshInput \in Ins /\ [FreshInput EXCEPT !.open = TRUE] \in Ins /\ FreshHost \in Hosts
<1>1. PICK f \in BOOLEAN, t \in BOOLEAN : f = FALSE /\ t = TRUE
  OBVIOUS
<1>2. FreshInput = [open |-> f, mouse |-> f, keyboard |-> f, shown |-> f,
                    last |-> {}, down |-> {}, lastMouse |-> {}, event |-> {}, due |-> t,
                    count |-> 2, stop |-> f]
  BY <1>1 DEF FreshInput
<1>3. FreshInput \in Ins
  BY <1>2 DEF Ins
<1>4. [FreshInput EXCEPT !.open = TRUE] \in Ins
  BY <1>3 DEF Ins
<1> QED
  BY <1>3, <1>4 DEF FreshHost, Hosts

LEMMA FreshSound ==
  ASSUME in' = [FreshInput EXCEPT !.open = TRUE], host' = FreshHost,
         link' \in Links, ~link'.announced, still' \in Samples \cup {Moving}
  PROVE  InputInv'
<1>1. PadTypeOK'
  BY FreshTyped DEF PadTypeOK, Ins, Hosts, Links
<1>2. /\ in'.mouse = FALSE /\ in'.keyboard = FALSE /\ in'.shown = FALSE /\ in'.down = {}
      /\ host'.pad = {} /\ host'.gone = "heard" /\ host'.mouse = {} /\ host'.keys = {}
  BY DEF FreshInput, FreshHost
<1> QED
  BY <1>1, <1>2 DEF InputInv, World, Left, Counted, ModesApart, Remembered

LEMMA OpenSound == ASSUME InputInv, Open PROVE InputInv'
<1>1. PICK on \in BOOLEAN, n \in 0..1 :
        link' = [on |-> on, count |-> n, connected |-> on, announced |-> FALSE]
  BY DEF Open
<1>2. link' \in Links /\ ~link'.announced
  <2>1. PICK f \in BOOLEAN : f = FALSE
    OBVIOUS
  <2>2. link' = [on |-> on, count |-> n, connected |-> on, announced |-> f]
    BY <1>1, <2>1
  <2> QED
    BY <2>1, <2>2 DEF Links
<1> QED
  BY <1>2, FreshSound DEF Open, InputInv, PadTypeOK

LEMMA StopSound == ASSUME InputInv, Stop PROVE InputInv'
<1>1. PICK refused \in PadRefusals :
        Becomes([PadLeaves(ReleaseButtons(World, refused), refused) EXCEPT !.in.open = FALSE])
  BY DEF Stop
<1>2. UNCHANGED still /\ Good(World)
  BY WorldGood DEF Stop
<1> DEFINE u == ReleaseButtons(World, refused)
           v == PadLeaves(u, refused)
           i == [v.in EXCEPT !.open = FALSE]
           w == [v EXCEPT !.in = i]
<1>3. Sound(u) /\ SameModes(u, World) /\ u.in.down = {}
  BY <1>2, ReleaseSound DEF Good
<1>4. Becomes(w)
  BY <1>1
<1> HIDE DEF u
<1>5. Sound(v) /\ v.in = u.in
  BY <1>3, LeavesSound
<1> HIDE DEF v
<1>6. v.in \in Ins
  BY <1>5 DEF Sound, Worlds
<1>7. /\ i \in Ins /\ i.mouse = v.in.mouse /\ i.event = v.in.event
      /\ i.keyboard = v.in.keyboard /\ i.shown = v.in.shown /\ i.down = v.in.down
  BY <1>6 DEF Ins
<1> HIDE DEF i
<1>8. Sound(w) /\ w.in = i
  BY <1>5, <1>7, Noted
<1> HIDE DEF w
<1>9. Good(w)
  BY <1>2, <1>3, <1>5, <1>7, <1>8 DEF Good, ModesApart, Counted, SameModes
<1> QED
  BY <1>2, <1>4, <1>9, GoodBecomes DEF InputInv, PadTypeOK

(* PadRemembers: for any samples a pad may show, whatever the connection   *)
(* refuses, the host holds of the gamepad what was sent last, nothing once *)
(* it heard of its removal, and what it held only where it refused the     *)
(* removal and heard of no pad since; one device acts at a time, and       *)
(* nothing but what the host refused to let go stays down uncounted:       *)
(* ps5_controller_poll, _send, _mouse_buttons, _set_mouse_mode,            *)
(* _set_keyboard_mode and _stop, SendPrimary, SetConnection, Disconnect.   *)
THEOREM PadRemembers == PadSpec => []PadInputOK
<1>1. PadInit => InputInv
  <2> SUFFICES ASSUME PadInit PROVE InputInv
    OBVIOUS
  <2>1. PICK f \in BOOLEAN : f = FALSE
    OBVIOUS
  <2>2. link = [on |-> f, count |-> 0, connected |-> f, announced |-> f]
    BY <2>1 DEF PadInit
  <2>3. link \in Links
    BY <2>2 DEF Links
  <2>4. PadTypeOK
    BY <2>3, FreshTyped DEF PadInit, PadTypeOK, Ins, Hosts, Links
  <2>5. /\ in.mouse = FALSE /\ in.keyboard = FALSE /\ in.shown = FALSE /\ in.down = {}
        /\ host.pad = {} /\ host.gone = "heard" /\ host.mouse = {} /\ host.keys = {}
        /\ ~link.announced
    BY <2>1, <2>2 DEF PadInit, FreshInput, FreshHost
  <2> QED
    BY <2>4, <2>5 DEF InputInv, World, Left, Counted, ModesApart, Remembered
<1>2. InputInv /\ [PadNext]_padVars => InputInv'
  <2> SUFFICES ASSUME InputInv, [PadNext]_padVars PROVE InputInv'
    OBVIOUS
  <2>1. CASE Open
    BY <2>1, OpenSound
  <2>2. CASE PollSampled
    BY <2>2, PollSound
  <2>3. CASE PollIdle
    BY <2>3, IdleSound
  <2>4. CASE KeepaliveDue
    BY <2>4, DueSound
  <2>5. CASE Stop
    BY <2>5, StopSound
  <2>6. CASE PrimaryLogsOut
    BY <2>6, LogOutSound
  <2>7. CASE OthersSend
    BY <2>7, OthersSound
  <2>8. CASE PadRests
    <3>1. PICK s \in Samples : still' = s
      BY <2>8 DEF PadRests
    <3>2. UNCHANGED <<in, host, link>>
      BY <2>8 DEF PadRests
    <3> QED
      BY <3>1, <3>2 DEF InputInv, PadTypeOK, World, Left, Counted, ModesApart, Remembered
  <2>9. CASE UNCHANGED padVars
    BY <2>9 DEF padVars, InputInv, PadTypeOK, World, Left, Counted, ModesApart, Remembered
  <2> QED
    BY <2>1, <2>2, <2>3, <2>4, <2>5, <2>6, <2>7, <2>8, <2>9 DEF PadNext, Over
<1>3. InputInv => PadInputOK
  <2> SUFFICES ASSUME InputInv PROVE PadInputOK
    OBVIOUS
  <2>1. PadTypeOK /\ NothingLeftDown
    BY DEF InputInv, World, Left, Counted, NothingLeftDown
  <2>2. RemembersGamepad
    BY DEF InputInv, World, Remembered, RemembersGamepad
  <2>3. OneDeviceAtATime
    <3>1. host.gone \in {"no", "heard", "refused"}
      BY DEF InputInv, PadTypeOK
    <3> QED
      BY <3>1 DEF InputInv, World, ModesApart, Remembered, OneDeviceAtATime
  <2> QED
    BY <2>1, <2>2, <2>3 DEF PadInputOK
<1> QED
  BY <1>1, <1>2, <1>3, PTL DEF PadSpec

-----------------------------------------------------------------------------
(* Controllers: what every stretch under the mutex leaves to the next *)

\* The controllers in the mask have arrived at the host; a finger the host still
\* sees is known, or its lifting was refused; and only an announced pad has
\* fingers.
Told(w) == WireMask(w) \subseteq w.host.present /\ w.host.present \subseteq w.host.arrived
Lifted(w) == \A i \in Slots : w.host.touched[i] \subseteq w.slot[i].touches \cup w.host.stuck[i]
Reported(w) == \A i \in Slots : w.slot[i].touches # {} => w.slot[i].announced

SlotWorlds == [slot : [Slots -> SlotStates], host : PadHosts]
GoodWorlds == {w \in SlotWorlds : Told(w) /\ Lifted(w) /\ Reported(w)}

SlotsInv == SlotsTypeOK /\ SlotWorld \in GoodWorlds

LEMMA SlotZero == SlotCount \in Nat /\ 0 \in Slots /\ Slots \subseteq Nat
  BY SlotsAssumption DEF Slots

\* A world after one slot and what the host made of its packets have changed.
HostFits(w, i, s, h) ==
  /\ s \in SlotStates /\ h \in PadHosts /\ h.present \subseteq h.arrived
  /\ \A j \in Slots \ {i} : /\ w.slot[j].announced => j \in h.present
                            /\ h.touched[j] \subseteq w.slot[j].touches \cup h.stuck[j]
  /\ s.announced => i \in h.present
  /\ h.touched[i] \subseteq s.touches \cup h.stuck[i]
  /\ s.touches # {} => s.announced

LEMMA StaysGood ==
  ASSUME NEW w \in GoodWorlds, NEW i \in Slots, NEW s, NEW h, HostFits(w, i, s, h)
  PROVE  [slot |-> [w.slot EXCEPT ![i] = s], host |-> h] \in GoodWorlds
<1> DEFINE v == [slot |-> [w.slot EXCEPT ![i] = s], host |-> h]
<1>1. w.slot \in [Slots -> SlotStates]
  BY DEF GoodWorlds, SlotWorlds
<1>2. v \in SlotWorlds
  BY <1>1 DEF SlotWorlds, HostFits
<1>3. v.slot[i] = s /\ v.host = h /\ \A j \in Slots \ {i} : v.slot[j] = w.slot[j]
  BY <1>1
<1>4. Reported(w)
  BY DEF GoodWorlds
<1> HIDE DEF v
<1>5. Told(v)
  BY <1>3 DEF Told, WireMask, HostFits
<1>6. Lifted(v) /\ Reported(v)
  BY <1>3, <1>4 DEF Lifted, Reported, HostFits
<1>7. v \in GoodWorlds
  BY <1>2, <1>5, <1>6 DEF GoodWorlds
<1> QED
  BY <1>7 DEF v

LEMMA GoodFits ==
  ASSUME NEW w \in GoodWorlds, NEW i \in Slots
  PROVE  /\ w.slot \in [Slots -> SlotStates] /\ w.slot[i] \in SlotStates
         /\ HostFits(w, i, w.slot[i], w.host)
         /\ w = [slot |-> w.slot, host |-> w.host]
<1>1. w \in SlotWorlds /\ Told(w) /\ Lifted(w) /\ Reported(w)
  BY DEF GoodWorlds
<1>2. /\ w.slot \in [Slots -> SlotStates] /\ w.host \in PadHosts
      /\ w = [slot |-> w.slot, host |-> w.host]
  BY <1>1 DEF SlotWorlds
<1>3. HostFits(w, i, w.slot[i], w.host)
  BY <1>1, <1>2 DEF Told, Lifted, Reported, WireMask, HostFits
<1> QED
  BY <1>2, <1>3

\* What the host makes of a packet that names only controllers it knows or that
\* arrive with it.
LEMMA HeardRight ==
  ASSUME NEW w \in GoodWorlds, NEW mask, NEW new, mask \subseteq w.host.arrived \cup new,
         new \subseteq mask, mask \subseteq Slots
  PROVE  LET h == Hears(w.host, mask, new)
         IN  /\ h \in PadHosts /\ h.present = mask /\ h.present \subseteq h.arrived
             /\ \A j \in Slots : h.touched[j] \subseteq w.slot[j].touches \cup h.stuck[j]
<1> DEFINE h == Hears(w.host, mask, new)
<1>1. w.host \in PadHosts /\ Lifted(w)
  BY DEF GoodWorlds, SlotWorlds
<1>2. h \in PadHosts
  BY <1>1 DEF Hears, PadHosts, PadButtons
<1>3. h.present = mask /\ h.present \subseteq h.arrived
  BY DEF Hears
<1>4. \A j \in Slots : h.touched[j] \subseteq w.slot[j].touches \cup h.stuck[j]
  BY <1>1 DEF Hears, Lifted
<1> QED
  BY <1>2, <1>3, <1>4

LEMMA PacketRight ==
  ASSUME NEW w \in GoodWorlds, NEW i \in Slots, NEW mask, mask \subseteq WireMask(w),
         NEW button \in PadButtons
  PROVE  LET h == Packet(w.host, i, mask, button)
         IN  /\ h \in PadHosts /\ h.present = mask /\ h.present \subseteq h.arrived
             /\ \A j \in Slots : h.touched[j] \subseteq w.slot[j].touches \cup h.stuck[j]
<1> DEFINE g == Hears(w.host, mask, {})
           h == Packet(w.host, i, mask, button)
<1>1. mask \subseteq w.host.arrived \cup {} /\ mask \subseteq Slots
  BY DEF GoodWorlds, Told, WireMask
<1>2. /\ g \in PadHosts /\ g.present = mask /\ g.present \subseteq g.arrived
      /\ \A j \in Slots : g.touched[j] \subseteq w.slot[j].touches \cup g.stuck[j]
  BY <1>1, HeardRight
<1> HIDE DEF g
<1>3. h = [g EXCEPT !.holds[i] = IF i \in mask THEN button ELSE Rest]
  BY DEF Packet, g
<1>4. h \in PadHosts /\ h.present = g.present /\ h.arrived = g.arrived /\ h.touched = g.touched
        /\ h.stuck = g.stuck
  BY <1>2, <1>3 DEF PadHosts, PadButtons
<1> QED
  BY <1>2, <1>4

-----------------------------------------------------------------------------
(* Controllers: the calls of ps5_dualsense.cpp *)

LEMMA TouchesCancelled ==
  ASSUME NEW w \in GoodWorlds, NEW i \in Slots, NEW refused
  PROVE  LET c == CancelTouches(w, i, refused)
         IN  /\ c \in GoodWorlds
             /\ c.slot = [w.slot EXCEPT ![i] = [w.slot[i] EXCEPT !.touches = {}]]
             /\ c.host.present = w.host.present
<1> DEFINE t == w.slot[i].touches
           s == [w.slot[i] EXCEPT !.touches = {}]
           stuck == [w.host EXCEPT !.stuck[i] = @ \cup t]
           free == [w.host EXCEPT !.touched[i] = {}, !.stuck[i] = {}]
           Cancelled(h) == [slot |-> [w.slot EXCEPT ![i] = s], host |-> h]
<1>1. /\ w.slot \in [Slots -> SlotStates] /\ w.slot[i] \in SlotStates
      /\ HostFits(w, i, w.slot[i], w.host) /\ w = [slot |-> w.slot, host |-> w.host]
  BY GoodFits
<1>2. s \in SlotStates /\ s.touches = {} /\ t \subseteq Touches
  BY <1>1 DEF SlotStates
<1>3. s.announced = w.slot[i].announced
  BY <1>1 DEF SlotStates
<1>4. CancelTouches(w, i, refused)
        = Cancelled(IF ~w.slot[i].announced \/ t = {} THEN w.host
                     ELSE IF "cancel" \in refused THEN stuck ELSE free)
  BY DEF CancelTouches
<1>5. w.host \in PadHosts
  BY <1>1 DEF HostFits
<1>6. stuck \in PadHosts /\ stuck.present = w.host.present /\ stuck.arrived = w.host.arrived
        /\ stuck.touched = w.host.touched /\ stuck.stuck = [w.host.stuck EXCEPT ![i] = @ \cup t]
  BY <1>2, <1>5 DEF PadHosts
<1>7. free \in PadHosts /\ free.present = w.host.present /\ free.arrived = w.host.arrived
        /\ free.touched = [w.host.touched EXCEPT ![i] = {}]
        /\ free.stuck = [w.host.stuck EXCEPT ![i] = {}]
  BY <1>5 DEF PadHosts
<1>8. w.host.touched \in [Slots -> SUBSET Touches] /\ w.host.stuck \in [Slots -> SUBSET Touches]
  BY <1>5 DEF PadHosts
<1> HIDE DEF s, stuck, free
<1>9. HostFits(w, i, s, stuck)
  BY <1>1, <1>2, <1>3, <1>6, <1>8 DEF HostFits
<1>10. HostFits(w, i, s, free)
  BY <1>1, <1>2, <1>3, <1>7, <1>8 DEF HostFits
<1>11. ~w.slot[i].announced \/ t = {} => HostFits(w, i, s, w.host)
  BY <1>1, <1>2, <1>3 DEF HostFits
<1> DEFINE h == IF ~w.slot[i].announced \/ t = {} THEN w.host
                ELSE IF "cancel" \in refused THEN stuck ELSE free
<1>12. HostFits(w, i, s, h) /\ h.present = w.host.present
  BY <1>6, <1>7, <1>9, <1>10, <1>11
<1>13. CancelTouches(w, i, refused) = Cancelled(h)
  BY <1>4
<1> HIDE DEF h
<1>14. Cancelled(h) \in GoodWorlds
  BY <1>12, StaysGood
<1> QED
  BY <1>12, <1>13, <1>14 DEF s

\* What Disconnect leaves of a slot.
Unplugged(s) ==
  [s EXCEPT !.touches = {}, !.connected = FALSE, !.announced = FALSE, !.sent = NoButton,
            !.due = TRUE, !.waiting = FALSE]

LEMMA Disconnected ==
  ASSUME NEW w \in GoodWorlds, NEW i \in Slots, NEW refused
  PROVE  LET d == DisconnectSlot(w, i, refused)
         IN  /\ d \in GoodWorlds
             /\ d.slot = [w.slot EXCEPT ![i] = Unplugged(w.slot[i])]
             /\ w.slot[i].announced /\ "remove" \notin refused
                  => d.host.present = WireMask(w) \ {i}
             /\ ~w.slot[i].announced => d.host.present = w.host.present
<1> DEFINE c == CancelTouches(w, i, refused)
           told == IF c.slot[i].announced /\ "remove" \notin refused
                   THEN Packet(c.host, i, WireMask(c) \ {i}, Rest) ELSE c.host
           s == Unplugged(w.slot[i])
<1>1. /\ c \in GoodWorlds
      /\ c.slot = [w.slot EXCEPT ![i] = [w.slot[i] EXCEPT !.touches = {}]]
      /\ c.host.present = w.host.present
  BY TouchesCancelled
<1>2. w.slot \in [Slots -> SlotStates] /\ w.slot[i] \in SlotStates
  BY GoodFits
<1>3. /\ HostFits(c, i, c.slot[i], c.host)
  BY <1>1, GoodFits
<1>4. /\ s \in SlotStates /\ s.touches = {} /\ ~s.announced
  BY <1>2 DEF Unplugged, SlotStates
<1>5. /\ c.slot[i].announced = w.slot[i].announced /\ c.slot[i].touches = {}
      /\ WireMask(c) = WireMask(w)
  BY <1>1, <1>2 DEF SlotStates, WireMask
<1>6. Rest \in PadButtons
  BY DEF PadButtons
<1>7. LET h == Packet(c.host, i, WireMask(c) \ {i}, Rest)
      IN  /\ h \in PadHosts /\ h.present = WireMask(c) \ {i} /\ h.present \subseteq h.arrived
          /\ \A j \in Slots : h.touched[j] \subseteq c.slot[j].touches \cup h.stuck[j]
  BY <1>1, <1>6, PacketRight
<1> HIDE DEF c
<1>8. HostFits(c, i, s, told)
  BY <1>3, <1>4, <1>5, <1>7 DEF HostFits, WireMask
<1> DEFINE d == [slot |-> [c.slot EXCEPT ![i] = s], host |-> told]
<1>9. d \in GoodWorlds
  BY <1>1, <1>8, StaysGood
<1>10. DisconnectSlot(w, i, refused)
         = [slot |-> [c.slot EXCEPT ![i].connected = FALSE, ![i].announced = FALSE,
                                    ![i].sent = NoButton, ![i].due = TRUE, ![i].waiting = FALSE],
            host |-> told]
  BY DEF DisconnectSlot, c
<1>11. [c.slot EXCEPT ![i].connected = FALSE, ![i].announced = FALSE, ![i].sent = NoButton,
                      ![i].due = TRUE, ![i].waiting = FALSE] = [c.slot EXCEPT ![i] = s]
  BY <1>1, <1>2 DEF Unplugged, SlotStates
<1>12. [c.slot EXCEPT ![i] = s] = [w.slot EXCEPT ![i] = s]
  BY <1>1, <1>2
<1>13. told.present = IF w.slot[i].announced /\ "remove" \notin refused THEN WireMask(w) \ {i}
                      ELSE w.host.present
  BY <1>1, <1>5, <1>7
<1>14. DisconnectSlot(w, i, refused) = d
  BY <1>10, <1>11
<1>15. d.slot = [w.slot EXCEPT ![i] = s] /\ d.host = told
  BY <1>12
<1> HIDE DEF told, s, d
<1> QED
  BY <1>9, <1>13, <1>14, <1>15 DEF s

\* A pad as scePadRead or a search shows it, as far as the slots keep it.
PadFits(p) ==
  p.count \in 0..1 /\ p.shows.button \in PadButtons /\ p.shows.touches \subseteq Touches

LEMMA SlotFits ==
  ASSUME NEW s \in SlotStates
  PROVE  /\ \A n \in 0..1 : [s EXCEPT !.generation = n] \in SlotStates
         /\ \A b \in BOOLEAN : [s EXCEPT !.intercepted = b] \in SlotStates
         /\ \A b \in BOOLEAN : [s EXCEPT !.waiting = b] \in SlotStates
         /\ \A b \in BOOLEAN : [s EXCEPT !.due = b] \in SlotStates
         /\ \A u \in Users \cup {NoUser} : [s EXCEPT !.user = u] \in SlotStates
         /\ [s EXCEPT !.connected = TRUE, !.waiting = TRUE] \in SlotStates
         /\ [s EXCEPT !.announced = TRUE] \in SlotStates
  BY DEF SlotStates

\* What no host can see of a slot may change alone.
LEMMA SlotChanged ==
  ASSUME NEW w \in GoodWorlds, NEW i \in Slots, NEW s \in SlotStates,
         s.announced = w.slot[i].announced, s.touches = w.slot[i].touches
  PROVE  [slot |-> [w.slot EXCEPT ![i] = s], host |-> w.host] \in GoodWorlds
<1>1. HostFits(w, i, w.slot[i], w.host)
  BY GoodFits
<1>2. HostFits(w, i, s, w.host)
  BY <1>1 DEF HostFits
<1> QED
  BY <1>2, StaysGood

LEMMA GenerationTaken ==
  ASSUME NEW w \in GoodWorlds, NEW i \in Slots, NEW n \in 0..1
  PROVE  [w EXCEPT !.slot[i].generation = n] \in GoodWorlds
<1> DEFINE s == [w.slot[i] EXCEPT !.generation = n]
<1>1. w.slot[i] \in SlotStates /\ w = [slot |-> w.slot, host |-> w.host]
  BY GoodFits
<1>2. s \in SlotStates
  BY <1>1, SlotFits
<1>3. s.announced = w.slot[i].announced /\ s.touches = w.slot[i].touches
  BY <1>1 DEF SlotStates
<1>4. [w EXCEPT !.slot[i].generation = n] = [slot |-> [w.slot EXCEPT ![i] = s], host |-> w.host]
  BY <1>1
<1> HIDE DEF s
<1>5. [slot |-> [w.slot EXCEPT ![i] = s], host |-> w.host] \in GoodWorlds
  BY <1>2, <1>3, SlotChanged
<1> QED
  BY <1>4, <1>5

LEMMA Interception ==
  ASSUME NEW w \in GoodWorlds, NEW i \in Slots, NEW b \in BOOLEAN
  PROVE  [w EXCEPT !.slot[i].intercepted = b] \in GoodWorlds
<1> DEFINE s == [w.slot[i] EXCEPT !.intercepted = b]
<1>1. w.slot[i] \in SlotStates /\ w = [slot |-> w.slot, host |-> w.host]
  BY GoodFits
<1>2. s \in SlotStates
  BY <1>1, SlotFits
<1>3. s.announced = w.slot[i].announced /\ s.touches = w.slot[i].touches
  BY <1>1 DEF SlotStates
<1>4. [w EXCEPT !.slot[i].intercepted = b] = [slot |-> [w.slot EXCEPT ![i] = s], host |-> w.host]
  BY <1>1
<1> HIDE DEF s
<1>5. [slot |-> [w.slot EXCEPT ![i] = s], host |-> w.host] \in GoodWorlds
  BY <1>2, <1>3, SlotChanged
<1> QED
  BY <1>4, <1>5

LEMMA UserTaken ==
  ASSUME NEW w \in GoodWorlds, NEW i \in Slots, NEW u \in Users
  PROVE  [w EXCEPT !.slot[i].user = u] \in GoodWorlds
<1> DEFINE s == [w.slot[i] EXCEPT !.user = u]
<1>1. w.slot[i] \in SlotStates /\ w = [slot |-> w.slot, host |-> w.host]
  BY GoodFits
<1>2. s \in SlotStates
  BY <1>1, SlotFits
<1>3. s.announced = w.slot[i].announced /\ s.touches = w.slot[i].touches
  BY <1>1 DEF SlotStates
<1>4. [w EXCEPT !.slot[i].user = u] = [slot |-> [w.slot EXCEPT ![i] = s], host |-> w.host]
  BY <1>1
<1> HIDE DEF s
<1>5. [slot |-> [w.slot EXCEPT ![i] = s], host |-> w.host] \in GoodWorlds
  BY <1>2, <1>3, SlotChanged
<1> QED
  BY <1>4, <1>5

LEMMA ConnectionSet ==
  ASSUME NEW w \in GoodWorlds, NEW i \in Slots, NEW p, PadFits(p), NEW refused
  PROVE  SetConnection(w, i, p, refused) \in GoodWorlds
<1>1. DisconnectSlot(w, i, refused) \in GoodWorlds
  BY Disconnected
<1>2. ASSUME NEW d \in GoodWorlds
      PROVE  LET g == [d EXCEPT !.slot[i].generation = p.count]
             IN  /\ g \in GoodWorlds
                 /\ [g EXCEPT !.slot[i] = [@ EXCEPT !.connected = TRUE, !.waiting = TRUE]]
                      \in GoodWorlds
  <2> DEFINE g == [d EXCEPT !.slot[i].generation = p.count]
             s == [g.slot[i] EXCEPT !.connected = TRUE, !.waiting = TRUE]
  <2>1. g \in GoodWorlds
    BY GenerationTaken DEF PadFits
  <2> HIDE DEF g
  <2>2. g.slot[i] \in SlotStates /\ g = [slot |-> g.slot, host |-> g.host]
    BY <2>1, GoodFits
  <2>3. s \in SlotStates
    BY <2>2, SlotFits
  <2>4. s.announced = g.slot[i].announced /\ s.touches = g.slot[i].touches
    BY <2>2 DEF SlotStates
  <2>5. [g EXCEPT !.slot[i] = s] = [slot |-> [g.slot EXCEPT ![i] = s], host |-> g.host]
    BY <2>2
  <2> HIDE DEF s
  <2>6. [slot |-> [g.slot EXCEPT ![i] = s], host |-> g.host] \in GoodWorlds
    BY <2>1, <2>3, <2>4, SlotChanged
  <2>7. [g EXCEPT !.slot[i] = s] \in GoodWorlds
    BY <2>5, <2>6
  <2> QED
    BY <2>1, <2>7 DEF g, s
<1> DEFINE d == IF w.slot[i].connected /\ w.slot[i].generation # p.count
                THEN DisconnectSlot(w, i, refused) ELSE w
<1>3. d \in GoodWorlds
  BY <1>1
<1>4. SetConnection(w, i, p, refused)
        = IF ~p.on THEN IF w.slot[i].connected THEN DisconnectSlot(w, i, refused) ELSE w
          ELSE LET g == [d EXCEPT !.slot[i].generation = p.count]
               IN  IF g.slot[i].connected THEN g
                   ELSE [g EXCEPT !.slot[i] = [@ EXCEPT !.connected = TRUE, !.waiting = TRUE]]
  BY DEF SetConnection
<1> HIDE DEF d
<1> QED
  BY <1>1, <1>2, <1>3, <1>4

LEMMA Announced ==
  ASSUME NEW w \in GoodWorlds, NEW i \in Slots, NEW refused
  PROVE  Announce(w, i, refused) \in GoodWorlds
<1> DEFINE s == [w.slot[i] EXCEPT !.announced = TRUE]
           mask == WireMask(w) \cup {i}
           h == Hears(w.host, mask, {i})
<1>1. /\ w.slot \in [Slots -> SlotStates] /\ w.slot[i] \in SlotStates
      /\ HostFits(w, i, w.slot[i], w.host)
  BY GoodFits
<1>2. s \in SlotStates /\ s.announced /\ s.touches = w.slot[i].touches
  BY <1>1, SlotFits DEF SlotStates
<1>3. mask \subseteq w.host.arrived \cup {i} /\ mask \subseteq Slots
  BY DEF GoodWorlds, Told, WireMask
<1>4. /\ h \in PadHosts /\ h.present = mask /\ h.present \subseteq h.arrived
      /\ \A j \in Slots : h.touched[j] \subseteq w.slot[j].touches \cup h.stuck[j]
  BY <1>3, HeardRight
<1> HIDE DEF h, s
<1>5. HostFits(w, i, s, h)
  BY <1>2, <1>4 DEF HostFits, WireMask
<1>6. [slot |-> [w.slot EXCEPT ![i] = s], host |-> h] \in GoodWorlds
  BY <1>5, StaysGood
<1> QED
  BY <1>6 DEF Announce, s, h

LEMMA Fingered ==
  ASSUME NEW w \in GoodWorlds, NEW i \in Slots, NEW s, s.button \in PadButtons,
         s.touches \subseteq Touches, w.slot[i].announced, NEW refused
  PROVE  Fingers(w, i, s, refused) \in GoodWorlds
<1> DEFINE now == IF s.chord THEN {} ELSE s.touches
           gone == w.slot[i].touches \ now
           new == now \ w.slot[i].touches
           x == [w.slot[i] EXCEPT !.touches = now, !.button = IF i = 0 THEN Rest ELSE s.button]
           stuck == [w.host EXCEPT !.stuck[i] = @ \cup gone]
           moved == [w.host EXCEPT !.touched[i] = (@ \ gone) \cup new,
                                   !.stuck[i] = @ \ (gone \cup new)]
           h == IF "touch" \in refused THEN stuck ELSE moved
<1>1. /\ w.slot \in [Slots -> SlotStates] /\ w.slot[i] \in SlotStates
      /\ HostFits(w, i, w.slot[i], w.host)
  BY GoodFits
<1>2. x \in SlotStates /\ x.announced /\ x.touches = now
  BY <1>1 DEF SlotStates, PadButtons
<1>3. now \subseteq Touches /\ gone \subseteq Touches /\ new \subseteq Touches
  BY <1>1 DEF SlotStates
<1>4. /\ w.host \in PadHosts /\ w.host.touched \in [Slots -> SUBSET Touches]
      /\ w.host.stuck \in [Slots -> SUBSET Touches]
  BY <1>1 DEF HostFits, PadHosts
<1>5. stuck \in PadHosts /\ stuck.present = w.host.present /\ stuck.arrived = w.host.arrived
        /\ stuck.touched = w.host.touched
        /\ stuck.stuck = [w.host.stuck EXCEPT ![i] = w.host.stuck[i] \cup gone]
  BY <1>3, <1>4 DEF PadHosts
<1>6. moved \in PadHosts /\ moved.present = w.host.present /\ moved.arrived = w.host.arrived
        /\ moved.touched = [w.host.touched EXCEPT ![i] = (w.host.touched[i] \ gone) \cup new]
        /\ moved.stuck = [w.host.stuck EXCEPT ![i] = w.host.stuck[i] \ (gone \cup new)]
  BY <1>3, <1>4 DEF PadHosts
<1> HIDE DEF x, stuck, moved
<1>7. HostFits(w, i, x, stuck)
  BY <1>1, <1>2, <1>4, <1>5 DEF HostFits
<1>8. HostFits(w, i, x, moved)
  BY <1>1, <1>2, <1>4, <1>6 DEF HostFits
<1>9. HostFits(w, i, x, h)
  BY <1>7, <1>8
<1>10. Fingers(w, i, s, refused) = [slot |-> [w.slot EXCEPT ![i] = x], host |-> h]
  BY DEF Fingers, x, stuck, moved
<1> HIDE DEF h
<1> QED
  BY <1>9, <1>10, StaysGood

LEMMA InputExtended ==
  ASSUME NEW c \in GoodWorlds, NEW a \in GoodWorlds, NEW i \in Slots, NEW p, PadFits(p),
         NEW suppressed, NEW refused
  PROVE  ExtendedInput(c, a, i, p, suppressed, refused) \in GoodWorlds
<1>1. [CancelTouches(c, i, refused) EXCEPT !.slot[i].intercepted = TRUE] \in GoodWorlds
  <2> DEFINE t == CancelTouches(c, i, refused)
  <2>1. t \in GoodWorlds
    BY TouchesCancelled
  <2> HIDE DEF t
  <2>2. [t EXCEPT !.slot[i].intercepted = TRUE] \in GoodWorlds
    BY <2>1, Interception
  <2> QED
    BY <2>2 DEF t
<1>2. a.slot[i].announced => Fingers(a, i, p.shows, refused) \in GoodWorlds
  BY Fingered DEF PadFits
<1> QED
  BY <1>1, <1>2 DEF ExtendedInput

LEMMA SampleSent ==
  ASSUME NEW a \in GoodWorlds, NEW i \in Slots, NEW p, PadFits(p), NEW refused
  PROVE  SendSample(a, i, p, refused) \in GoodWorlds
<1> DEFINE button == IF p.shows.menu THEN Rest ELSE p.shows.button
           s == [a.slot[i] EXCEPT !.sent = button, !.due = FALSE]
           h == Packet(a.host, i, WireMask(a), button)
<1>1. /\ a.slot \in [Slots -> SlotStates] /\ a.slot[i] \in SlotStates
      /\ HostFits(a, i, a.slot[i], a.host)
  BY GoodFits
<1>2. button \in PadButtons
  BY DEF PadFits, PadButtons
<1>3. s \in SlotStates /\ s.announced = a.slot[i].announced /\ s.touches = a.slot[i].touches
  BY <1>1, <1>2 DEF SlotStates
<1> HIDE DEF button
<1>4. /\ h \in PadHosts /\ h.present = WireMask(a) /\ h.present \subseteq h.arrived
      /\ \A j \in Slots : h.touched[j] \subseteq a.slot[j].touches \cup h.stuck[j]
  BY <1>2, PacketRight
<1> HIDE DEF h, s
<1>5. HostFits(a, i, s, h)
  BY <1>1, <1>3, <1>4 DEF HostFits, WireMask
<1>6. [slot |-> [a.slot EXCEPT ![i] = s], host |-> h] \in GoodWorlds
  BY <1>5, StaysGood
<1>7. [a.slot EXCEPT ![i].sent = button, ![i].due = FALSE] = [a.slot EXCEPT ![i] = s]
  BY <1>1 DEF s
<1> QED
  BY <1>6, <1>7 DEF SendSample, h, button

LEMMA LetGoGood ==
  ASSUME NEW w \in GoodWorlds, NEW i \in Slots, NEW login, NEW refused
  PROVE  LetGo(w, i, login, refused) \in GoodWorlds
<1> DEFINE d == DisconnectSlot(w, i, refused)
<1>1. d \in GoodWorlds
  BY Disconnected
<1> HIDE DEF d
<1>2. HostFits(d, i, d.slot[i], d.host) /\ d = [slot |-> d.slot, host |-> d.host]
  BY <1>1, GoodFits
<1>3. w.slot \in [Slots -> SlotStates] /\ w.slot[i] \in SlotStates
  BY GoodFits
<1>4. d.slot = [w.slot EXCEPT ![i] = Unplugged(w.slot[i])]
  BY Disconnected DEF d
<1>5. d.slot[i] = Unplugged(w.slot[i])
  BY <1>3, <1>4
<1>6. d.slot[i].touches = {}
  BY <1>5, <1>3 DEF Unplugged, SlotStates
<1>7. EmptySlot \in SlotStates /\ EmptySlot.touches = {} /\ ~EmptySlot.announced
  BY DEF EmptySlot, SlotStates, PadButtons
<1>8. HostFits(d, i, EmptySlot, d.host)
  BY <1>2, <1>6, <1>7 DEF HostFits
<1>9. [slot |-> [d.slot EXCEPT ![i] = EmptySlot], host |-> d.host] \in GoodWorlds
  BY <1>1, <1>8, StaysGood
<1>10. [d EXCEPT !.slot[i] = EmptySlot] \in GoodWorlds
  <2> DEFINE slots == d.slot
             h == d.host
  <2>1. /\ d = [slot |-> slots, host |-> h]
        /\ [slot |-> [slots EXCEPT ![i] = EmptySlot], host |-> h] \in GoodWorlds
    BY <1>2, <1>9
  <2> HIDE DEF slots, h
  <2> QED
    BY <2>1
<1> QED
  BY <1>1, <1>10 DEF LetGo, d

LEMMA LeastSlot ==
  ASSUME NEW T, T \subseteq Nat, T # {}
  PROVE  \E x \in T : \A y \in T : x <= y
<1>1. IsWellFoundedOn(OpToRel(<, Nat), Nat)
  BY NatLessThanWellFounded
<1>2. PICK x \in T : \A y \in T : ~(<<y, x>> \in OpToRel(<, Nat))
  BY <1>1, WFMin
<1>3. ASSUME NEW y \in T PROVE x <= y
  <2>1. x \in Nat /\ y \in Nat
    OBVIOUS
  <2>2. ~(y < x)
    BY <1>2, <2>1 DEF OpToRel
  <2> QED
    BY <2>1, <2>2
<1> QED
  BY <1>3

LEMMA TakenInGood ==
  ASSUME NEW w \in GoodWorlds, NEW came, came[1] \in Users \cup {NoUser}, PadFits(came[2]),
         NEW refused
  PROVE  TakenIn(w, came, refused) \in GoodWorlds
<1> DEFINE u == came[1]
           free == {i \in Slots \ {0} : w.slot[i].user = NoUser}
           i == CHOOSE j \in free : \A k \in free : j <= k
<1>1. ASSUME u # NoUser, free # {}
      PROVE  SetConnection([w EXCEPT !.slot[i].user = u], i, came[2], refused) \in GoodWorlds
  <2>1. \E j \in free : \A k \in free : j <= k
    BY <1>1, SlotZero, LeastSlot
  <2>2. i \in Slots
    BY <2>1
  <2> HIDE DEF i
  <2>3. [w EXCEPT !.slot[i].user = u] \in GoodWorlds
    BY <1>1, <2>2, UserTaken
  <2> QED
    BY <2>2, <2>3, ConnectionSet
<1> QED
  BY <1>1 DEF TakenIn, TakeIn

-----------------------------------------------------------------------------
(* Controllers: the loops over the slots *)

StepsOn(U) == [Nat -> [U -> U]]

Walks(k, U, w, step) ==
  {f \in [0..k -> U] : f[0] = w /\ \A n \in 0..(k - 1) : f[n + 1] = step[n][f[n]]}

LEMMA WalkExtends ==
  ASSUME NEW k \in Nat, NEW U, NEW w, NEW step \in StepsOn(U),
         NEW f \in Walks(k, U, w, step)
  PROVE  Walks(k + 1, U, w, step) # {}
<1>1. /\ f \in [0..k -> U] /\ f[0] = w
      /\ \A n \in 0..(k - 1) : f[n + 1] = step[n][f[n]]
  BY DEF Walks
<1>2. k \in 0..k /\ 0 \in 0..(k + 1) /\ k + 1 \in 0..(k + 1) /\ 0 # k + 1 /\ (k + 1) - 1 = k
  OBVIOUS
<1> DEFINE last == step[k][f[k]]
           g == [n \in 0..(k + 1) |-> IF n = k + 1 THEN last ELSE f[n]]
<1>3. last \in U
  BY <1>1, <1>2 DEF StepsOn
<1> HIDE DEF last
<1>4. \A n \in 0..(k + 1) : n # k + 1 => n \in 0..k
  OBVIOUS
<1>5. g \in [0..(k + 1) -> U] /\ g[0] = w /\ g[k + 1] = last
  BY <1>1, <1>2, <1>3, <1>4
<1>6. ASSUME NEW n \in 0..k PROVE g[n + 1] = step[n][g[n]]
  <2>1. n \in 0..(k + 1) /\ n + 1 \in 0..(k + 1) /\ n # k + 1
    OBVIOUS
  <2>2. g[n] = f[n]
    BY <2>1
  <2>3. CASE n = k
    BY <1>5, <2>2, <2>3 DEF last
  <2>4. CASE n # k
    <3>1. n + 1 # k + 1 /\ n \in 0..(k - 1)
      BY <2>4
    <3>2. g[n + 1] = f[n + 1]
      BY <2>1, <3>1
    <3> QED
      BY <1>1, <2>2, <3>1, <3>2
  <2> QED
    BY <2>3, <2>4
<1> HIDE DEF g
<1>7. g \in Walks(k + 1, U, w, step)
  BY <1>2, <1>5, <1>6 DEF Walks
<1> QED
  BY <1>7

LEMMA WalkExists ==
  ASSUME NEW N \in Nat, NEW U, NEW w \in U, NEW step \in StepsOn(U)
  PROVE  Walks(N, U, w, step) # {}
<1> DEFINE Failing == {k \in Nat : Walks(k, U, w, step) = {}}
<1>1. 0 \notin Failing
  <2> DEFINE f == [n \in 0..0 |-> w]
  <2>1. f \in [0..0 -> U] /\ f[0] = w
    OBVIOUS
  <2>2. \A n \in 0..(0 - 1) : f[n + 1] = step[n][f[n]]
    OBVIOUS
  <2> HIDE DEF f
  <2>3. f \in Walks(0, U, w, step)
    BY <2>1, <2>2 DEF Walks
  <2> QED
    BY <2>3
<1>2. ASSUME NEW k \in Failing, \A y \in Failing : k <= y PROVE FALSE
  <2>1. k \in Nat
    OBVIOUS
  <2>2. Walks(k, U, w, step) = {}
    OBVIOUS
  <2>3. k # 0
    BY <1>1
  <2>4. k - 1 \in Nat /\ ~(k <= k - 1) /\ k - 1 + 1 = k
    BY <2>1, <2>3
  <2>5. k - 1 \notin Failing
    BY <1>2, <2>4
  <2>6. PICK f : f \in Walks(k - 1, U, w, step)
    BY <2>4, <2>5
  <2>7. Walks(k - 1 + 1, U, w, step) # {}
    BY <2>4, <2>6, WalkExtends
  <2> QED
    BY <2>2, <2>4, <2>7
<1>3. Failing \subseteq Nat
  OBVIOUS
<1>4. Failing = {}
  <2> HIDE DEF Failing
  <2> QED
    BY <1>2, <1>3, LeastSlot
<1> QED
  BY <1>4

LEMMA WalkGoes ==
  ASSUME NEW N \in Nat, NEW good, NEW f, f[0] \in good[0],
         \A n \in 0..(N - 1) : f[n] \in good[n] => f[n + 1] \in good[n + 1]
  PROVE  f[N] \in good[N]
<1> DEFINE Failing == {k \in 0..N : f[k] \notin good[k]}
<1>1. ASSUME NEW k \in Failing, \A y \in Failing : k <= y PROVE FALSE
  <2>1. k \in 0..N /\ k # 0
    OBVIOUS
  <2>2. k - 1 \in 0..(N - 1) /\ k - 1 \notin Failing /\ k - 1 + 1 = k
    BY <1>1, <2>1
  <2>3. f[k - 1] \in good[k - 1]
    BY <2>2
  <2> QED
    BY <2>2, <2>3
<1>2. Failing \subseteq Nat
  OBVIOUS
<1>3. N \in 0..N
  OBVIOUS
<1>4. Failing = {}
  <2> HIDE DEF Failing
  <2> QED
    BY <1>1, <1>2, LeastSlot
<1> QED
  BY <1>3, <1>4

LEMMA AllLetGoGood ==
  ASSUME NEW w \in GoodWorlds, NEW login, NEW refused
  PROVE  AllLetGo(w, login, refused) \in GoodWorlds
<1> DEFINE step == [n \in Nat |-> [v \in GoodWorlds |->
                      IF n \in Slots THEN LetGo(v, n, login, refused) ELSE v]]
           Body(f) == [n \in 0..SlotCount |->
                         IF n = 0 THEN w ELSE LetGo(f[n - 1], n - 1, login, refused)]
           upTo == CHOOSE f : f = Body(f)
           good == [n \in 0..SlotCount |-> GoodWorlds]
<1>1. SlotCount \in Nat
  BY SlotZero
<1>2. step \in StepsOn(GoodWorlds)
  BY LetGoGood DEF StepsOn
<1>3. \A v \in GoodWorlds, n \in 0..(SlotCount - 1) : step[n][v] = LetGo(v, n, login, refused)
  BY SlotZero DEF Slots
<1> HIDE DEF step
<1>4. Walks(SlotCount, GoodWorlds, w, step) # {}
  BY <1>1, <1>2, WalkExists
<1>5. PICK f \in [0..SlotCount -> GoodWorlds] :
         f[0] = w /\ \A n \in 0..(SlotCount - 1) : f[n + 1] = step[n][f[n]]
  BY <1>4 DEF Walks
<1>6. f = Body(f)
  <2>1. ASSUME NEW n \in 0..SlotCount, n # 0 PROVE f[n] = LetGo(f[n - 1], n - 1, login, refused)
    <3>1. n - 1 \in 0..(SlotCount - 1) /\ n - 1 + 1 = n /\ n - 1 \in 0..SlotCount
      BY <1>1, <2>1
    <3>2. f[n] = step[n - 1][f[n - 1]] /\ f[n - 1] \in GoodWorlds
      BY <1>5, <3>1
    <3> QED
      BY <1>3, <3>1, <3>2
  <2> QED
    BY <1>5, <2>1
<1>7. upTo = Body(upTo)
  BY <1>6
<1>8. AllLetGo(w, login, refused) = upTo[SlotCount]
  BY DEF AllLetGo
<1> HIDE DEF upTo
<1>9. 0 \in 0..SlotCount /\ upTo[0] = w
  BY <1>1, <1>7
<1>10. ASSUME NEW n \in 0..(SlotCount - 1) PROVE upTo[n + 1] = LetGo(upTo[n], n, login, refused)
  <2>1. n + 1 \in 0..SlotCount /\ n + 1 # 0 /\ n + 1 - 1 = n /\ n \in 0..SlotCount
    BY <1>1, <1>10
  <2> QED
    BY <1>7, <2>1
<1>11. \A n \in 0..(SlotCount - 1) : upTo[n] \in GoodWorlds => upTo[n + 1] \in GoodWorlds
  BY <1>10, LetGoGood DEF Slots
<1>12. upTo[0] \in good[0] /\ good[SlotCount] = GoodWorlds
  BY <1>1, <1>9
<1>13. \A n \in 0..(SlotCount - 1) : upTo[n] \in good[n] => upTo[n + 1] \in good[n + 1]
  BY <1>1, <1>11
<1> HIDE DEF good
<1>14. upTo[SlotCount] \in good[SlotCount]
  BY <1>1, <1>12, <1>13, WalkGoes
<1> QED
  BY <1>8, <1>12, <1>14

\* What Stop has done once it has reached slot n: the slots before it are off the
\* mask, and a host that refuses nothing has been told so with the last of them.
StoppedUpTo(w, refusing, n) ==
  {v \in GoodWorlds :
     /\ WireMask(v) = WireMask(w) \ 0..(n - 1)
     /\ refusing = {} /\ WireMask(v) # WireMask(w) => v.host.present = WireMask(v)}

StopRefuses(n, refusing) == IF n \in refusing THEN Events ELSE {}

LEMMA OneStopped ==
  ASSUME NEW w \in GoodWorlds, NEW refusing, NEW n \in Slots,
         NEW v \in StoppedUpTo(w, refusing, n)
  PROVE  DisconnectSlot(v, n, StopRefuses(n, refusing)) \in StoppedUpTo(w, refusing, n + 1)
<1> DEFINE d == DisconnectSlot(v, n, StopRefuses(n, refusing))
<1>1. /\ v \in GoodWorlds /\ WireMask(v) = WireMask(w) \ 0..(n - 1)
      /\ refusing = {} /\ WireMask(v) # WireMask(w) => v.host.present = WireMask(v)
  BY DEF StoppedUpTo
<1>2. /\ d \in GoodWorlds /\ d.slot = [v.slot EXCEPT ![n] = Unplugged(v.slot[n])]
      /\ v.slot[n].announced /\ "remove" \notin StopRefuses(n, refusing)
           => d.host.present = WireMask(v) \ {n}
      /\ ~v.slot[n].announced => d.host.present = v.host.present
  BY <1>1, Disconnected
<1> HIDE DEF d
<1>3. v.slot \in [Slots -> SlotStates] /\ v.slot[n] \in SlotStates
  BY <1>1, GoodFits
<1>4. ~Unplugged(v.slot[n]).announced
  BY <1>3 DEF Unplugged, SlotStates
<1>5. WireMask(d) = WireMask(v) \ {n}
  BY <1>2, <1>3, <1>4 DEF WireMask
<1>6. n \in Nat /\ WireMask(w) \subseteq Nat
  BY SlotZero DEF WireMask
<1>7. 0..(n + 1 - 1) = 0..(n - 1) \cup {n}
  BY <1>6
<1>8. ASSUME refusing = {}, WireMask(d) # WireMask(w) PROVE d.host.present = WireMask(d)
  <2>1. CASE v.slot[n].announced
    BY <1>2, <1>5, <1>8, <2>1 DEF StopRefuses
  <2>2. CASE ~v.slot[n].announced
    <3>1. WireMask(d) = WireMask(v)
      BY <1>5, <2>2 DEF WireMask
    <3> QED
      BY <1>1, <1>2, <1>8, <2>2, <3>1
  <2> QED
    BY <2>1, <2>2
<1>9. d \in StoppedUpTo(w, refusing, n + 1)
  <2> DEFINE m == n + 1
  <2>1. 0..(m - 1) = 0..(n - 1) \cup {n}
    BY <1>7
  <2>2. d \in GoodWorlds /\ WireMask(d) = WireMask(w) \ (0..(n - 1) \cup {n})
    BY <1>1, <1>2, <1>5
  <2>3. refusing = {} /\ WireMask(d) # WireMask(w) => d.host.present = WireMask(d)
    BY <1>8
  <2> HIDE DEF m
  <2>4. d \in StoppedUpTo(w, refusing, m)
    BY <2>1, <2>2, <2>3 DEF StoppedUpTo
  <2> QED
    BY <2>4 DEF m
<1> QED
  BY <1>9 DEF d

LEMMA AllStopped ==
  ASSUME NEW w \in GoodWorlds, NEW refusing
  PROVE  Stopped(w, refusing) \in StoppedUpTo(w, refusing, SlotCount)
<1> DEFINE Turn(v, n) == DisconnectSlot(v, n, StopRefuses(n, refusing))
           step == [n \in Nat |-> [v \in GoodWorlds |-> IF n \in Slots THEN Turn(v, n) ELSE v]]
           Body(f) == [n \in 0..SlotCount |-> IF n = 0 THEN w ELSE Turn(f[n - 1], n - 1)]
           upTo == CHOOSE f : f = Body(f)
           good == [n \in 0..SlotCount |-> StoppedUpTo(w, refusing, n)]
<1>1. SlotCount \in Nat
  BY SlotZero
<1>2. step \in StepsOn(GoodWorlds)
  BY Disconnected DEF StepsOn
<1>3. \A v \in GoodWorlds, n \in 0..(SlotCount - 1) : step[n][v] = Turn(v, n)
  BY SlotZero DEF Slots
<1> HIDE DEF step
<1>4. Walks(SlotCount, GoodWorlds, w, step) # {}
  BY <1>1, <1>2, WalkExists
<1>5. PICK f \in [0..SlotCount -> GoodWorlds] :
         f[0] = w /\ \A n \in 0..(SlotCount - 1) : f[n + 1] = step[n][f[n]]
  BY <1>4 DEF Walks
<1>6. f = Body(f)
  <2>1. ASSUME NEW n \in 0..SlotCount, n # 0 PROVE f[n] = Turn(f[n - 1], n - 1)
    <3>1. n - 1 \in 0..(SlotCount - 1) /\ n - 1 + 1 = n /\ n - 1 \in 0..SlotCount
      BY <1>1, <2>1
    <3>2. f[n] = step[n - 1][f[n - 1]] /\ f[n - 1] \in GoodWorlds
      BY <1>5, <3>1
    <3> QED
      BY <1>3, <3>1, <3>2
  <2> HIDE DEF Turn
  <2> QED
    BY <1>5, <2>1
<1>7. upTo = Body(upTo)
  BY <1>6
<1>8. Stopped(w, refusing) = upTo[SlotCount]
  BY DEF Stopped, StopRefuses
<1> HIDE DEF upTo
<1>9. 0 \in 0..SlotCount /\ SlotCount \in 0..SlotCount /\ upTo[0] = w
  BY <1>1, <1>7
<1>10. ASSUME NEW n \in 0..(SlotCount - 1) PROVE upTo[n + 1] = Turn(upTo[n], n)
  <2>1. n + 1 \in 0..SlotCount /\ n + 1 # 0 /\ n + 1 - 1 = n /\ n \in 0..SlotCount
    BY <1>1, <1>10
  <2> HIDE DEF Turn
  <2> QED
    BY <1>7, <2>1
<1>11. upTo[0] \in good[0]
  <2>1. WireMask(w) \ 0..(0 - 1) = WireMask(w)
    OBVIOUS
  <2>2. w \in StoppedUpTo(w, refusing, 0)
    BY <2>1 DEF StoppedUpTo
  <2> QED
    BY <1>9, <2>2
<1>12. ASSUME NEW n \in 0..(SlotCount - 1), upTo[n] \in good[n] PROVE upTo[n + 1] \in good[n + 1]
  <2>1. n \in Slots /\ n \in 0..SlotCount /\ n + 1 \in 0..SlotCount
    BY <1>1 DEF Slots
  <2>2. upTo[n] \in StoppedUpTo(w, refusing, n)
    BY <1>12, <2>1
  <2>3. Turn(upTo[n], n) \in StoppedUpTo(w, refusing, n + 1)
    BY <2>1, <2>2, OneStopped
  <2> QED
    BY <1>10, <2>1, <2>3
<1>13. good[SlotCount] = StoppedUpTo(w, refusing, SlotCount)
  BY <1>9
<1> HIDE DEF good
<1>14. upTo[SlotCount] \in good[SlotCount]
  BY <1>1, <1>11, <1>12, WalkGoes
<1> QED
  BY <1>8, <1>13, <1>14

\* No controller is left in the mask, and none at a host that was told of any and
\* refused nothing.
LEMMA StoppedGood ==
  ASSUME NEW w \in GoodWorlds, NEW refusing
  PROVE  LET v == Stopped(w, refusing)
         IN  /\ v \in GoodWorlds /\ WireMask(v) = {}
             /\ refusing = {} /\ WireMask(w) # {} => v.host.present = {}
<1>1. WireMask(w) \subseteq 0..(SlotCount - 1)
  BY DEF WireMask, Slots
<1> QED
  BY <1>1, AllStopped DEF StoppedUpTo

-----------------------------------------------------------------------------
(* Controllers: the steps *)

LEMMA PadsFit ==
  /\ \A p \in Pads : PadFits(p) /\ PadFits(Fingerless(p))
  /\ PadOff \in Pads /\ PadPressed \in Pads
<1>1. PICK plain \in SlotSamples : ~plain.menu /\ ~plain.chord
  BY SlotsAssumption
<1> DEFINE c == CHOOSE s \in SlotSamples : ~s.menu /\ ~s.chord
<1>2. c \in SlotSamples
  BY <1>1
<1> HIDE DEF c
<1>3. PadPressed = [on |-> TRUE, count |-> 0, shows |-> c]
  BY DEF PadPressed, c
<1>4. PadOff = [on |-> FALSE, count |-> 0, shows |-> c]
  BY <1>3 DEF PadOff
<1>5. PadOff \in Pads /\ PadPressed \in Pads
  <2>1. PadPressed \in [on : {TRUE}, count : 0..1, shows : SlotSamples]
    BY <1>2, <1>3
  <2> QED
    BY <2>1 DEF Pads
<1>6. ASSUME NEW p \in Pads PROVE p.count \in 0..1 /\ p.shows \in SlotSamples
  <2>1. CASE p = PadOff
    <3>1. PadOff.count = 0 /\ PadOff.shows = c
      BY <1>4
    <3> QED
      BY <1>2, <2>1, <3>1
  <2>2. CASE p \in [on : {TRUE}, count : 0..1, shows : SlotSamples]
    BY <2>2
  <2> QED
    BY <2>1, <2>2 DEF Pads
<1>7. ASSUME NEW p \in Pads PROVE PadFits(p)
  BY <1>6 DEF PadFits, PadButtons, Touches
<1>8. ASSUME NEW p \in Pads PROVE PadFits(Fingerless(p))
  BY <1>6 DEF PadFits, Fingerless, PadButtons
<1> QED
  BY <1>5, <1>7, <1>8

LEMMA NothingTold ==
  ASSUME NEW f \in [Slots -> SlotStates],
         \A i \in Slots : ~f[i].announced /\ f[i].touches = {}
  PROVE  [slot |-> f, host |-> EmptyHost] \in GoodWorlds
<1> DEFINE w == [slot |-> f, host |-> EmptyHost]
<1>1. EmptyHost \in PadHosts
  BY DEF EmptyHost, PadHosts, PadButtons
<1>2. w \in SlotWorlds
  BY <1>1 DEF SlotWorlds
<1>3. WireMask(w) = {}
  BY DEF WireMask
<1>4. Told(w) /\ Lifted(w) /\ Reported(w)
  BY <1>3 DEF Told, Lifted, Reported, EmptyHost
<1> QED
  BY <1>2, <1>4 DEF GoodWorlds

LEMMA BecomesGood ==
  ASSUME NEW w \in GoodWorlds, SlotsBecome(w), phase' \in {"off", "live", "stopped"},
         padStill' \in {Unsettled} \cup [Users -> Pads]
  PROVE  SlotsInv'
<1>1. /\ w.slot \in [Slots -> SlotStates] /\ w.host \in PadHosts
      /\ w = [slot |-> w.slot, host |-> w.host]
  BY DEF GoodWorlds, SlotWorlds
<1>2. slot' = w.slot /\ padHost' = w.host
  BY DEF SlotsBecome
<1>3. SlotWorld' = w
  BY <1>1, <1>2 DEF SlotWorld
<1> QED
  BY <1>1, <1>2, <1>3 DEF SlotsInv, SlotsTypeOK

LEMMA EmptyFits == EmptySlot \in SlotStates /\ EmptySlot.touches = {} /\ ~EmptySlot.announced
  BY DEF EmptySlot, SlotStates, PadButtons

LEMMA SlotsInvInit == SlotsInit => SlotsInv
<1> SUFFICES ASSUME SlotsInit PROVE SlotsInv
  OBVIOUS
<1>1. slot \in [Slots -> SlotStates] /\ padHost \in PadHosts
  BY EmptyFits DEF SlotsInit, EmptyHost, PadHosts, PadButtons
<1>2. SlotWorld \in GoodWorlds
  BY <1>1, NothingTold, EmptyFits DEF SlotsInit, SlotWorld
<1> QED
  BY <1>1, <1>2 DEF SlotsInit, SlotsInv, SlotsTypeOK

LEMMA SlotsInvStep == ASSUME SlotsInv, [SlotsNext]_ctlVars PROVE SlotsInv'
<1>1. /\ SlotWorld \in GoodWorlds /\ phase \in {"off", "live", "stopped"}
      /\ padStill \in {Unsettled} \cup [Users -> Pads]
      /\ slot \in [Slots -> SlotStates] /\ padHost \in PadHosts
  BY DEF SlotsInv, SlotsTypeOK
<1>2. /\ \A u \in Users : \A p \in PadOf(u) : p \in Pads
      /\ \A login \in LoggedIn : login \subseteq Users
  BY <1>1 DEF PadOf, LoggedIn, settled
<1>3. ASSUME NEW login \in LoggedIn, NEW came \in Opened(login)
      PROVE  came[1] \in Users \cup {NoUser} /\ PadFits(came[2])
  BY <1>1, <1>2, PadsFit DEF Opened, settled
<1>4. CASE Start
  <2> DEFINE first == [EmptySlot EXCEPT !.user = Primary]
             slots == [i \in Slots |-> IF i = 0 THEN first ELSE EmptySlot]
             fresh == [slot |-> slots, host |-> EmptyHost]
  <2>1. PICK login \in LoggedIn, p \in PadOf(Primary) :
          \E came \in Opened(login) :
            SlotsBecome(TakenIn(SetConnection(fresh, 0, p, {}), came, {}))
    BY <1>4 DEF Start
  <2>2. PICK came \in Opened(login) : SlotsBecome(TakenIn(SetConnection(fresh, 0, p, {}), came, {}))
    BY <2>1
  <2>3. first \in SlotStates
    BY EmptyFits, SlotFits, SlotsAssumption
  <2>4. ~first.announced /\ first.touches = {}
    BY DEF EmptySlot
  <2> HIDE DEF first
  <2>5. /\ slots \in [Slots -> SlotStates]
        /\ \A i \in Slots : ~slots[i].announced /\ slots[i].touches = {}
    BY <2>3, <2>4, EmptyFits
  <2> HIDE DEF slots
  <2>6. fresh \in GoodWorlds
    BY <2>5, NothingTold
  <2>7. PadFits(p)
    BY <1>2, PadsFit, SlotsAssumption
  <2> HIDE DEF fresh
  <2>8. SetConnection(fresh, 0, p, {}) \in GoodWorlds
    BY <2>6, <2>7, SlotZero, ConnectionSet
  <2>9. TakenIn(SetConnection(fresh, 0, p, {}), came, {}) \in GoodWorlds
    BY <1>3, <2>8, TakenInGood
  <2>10. SlotsBecome(TakenIn(SetConnection(fresh, 0, p, {}), came, {}))
    BY <2>2 DEF fresh, slots, first
  <2> QED
    BY <1>1, <1>4, <2>9, <2>10, BecomesGood DEF Start
<1>5. CASE Discover
  <2>1. PICK login \in LoggedIn, refused \in Refusals :
          \E came \in Opened(login) :
            SlotsBecome(TakenIn(AllLetGo(SlotWorld, login, refused), came, refused))
    BY <1>5 DEF Discover
  <2>2. PICK came \in Opened(login) :
          SlotsBecome(TakenIn(AllLetGo(SlotWorld, login, refused), came, refused))
    BY <2>1
  <2>3. AllLetGo(SlotWorld, login, refused) \in GoodWorlds
    BY <1>1, AllLetGoGood
  <2>4. TakenIn(AllLetGo(SlotWorld, login, refused), came, refused) \in GoodWorlds
    BY <1>3, <2>3, TakenInGood
  <2> QED
    BY <1>1, <1>5, <2>2, <2>4, BecomesGood DEF Discover
<1>6. CASE PrimarySample
  <2>1. PICK q \in PadOf(Primary), refused \in Refusals :
          LET p == Fingerless(q)
              c == SetConnection(SlotWorld, 0, p, refused)
              a == Announce(Resumed(c, 0), 0, refused)
          IN  SlotsBecome(ExtendedInput(c, a, 0, p, p.shows.menu \/ ~p.on, refused))
    BY <1>6 DEF PrimarySample
  <2> DEFINE p == Fingerless(q)
             c == SetConnection(SlotWorld, 0, p, refused)
             a == Announce(Resumed(c, 0), 0, refused)
             w == ExtendedInput(c, a, 0, p, p.shows.menu \/ ~p.on, refused)
  <2>2. PadFits(p)
    BY <1>2, PadsFit, SlotsAssumption
  <2>3. c \in GoodWorlds
    BY <1>1, <2>2, SlotZero, ConnectionSet
  <2> HIDE DEF p, c
  <2>4. Resumed(c, 0) \in GoodWorlds
    BY <2>3, SlotZero, Interception DEF Resumed
  <2>5. a \in GoodWorlds
    BY <2>4, SlotZero, Announced
  <2> HIDE DEF a
  <2>6. w \in GoodWorlds
    BY <2>2, <2>3, <2>5, SlotZero, InputExtended
  <2>7. SlotsBecome(w)
    BY <2>1 DEF p, c, a
  <2> HIDE DEF w
  <2> QED
    BY <1>1, <1>6, <2>6, <2>7, BecomesGood DEF PrimarySample
<1>7. CASE SendPrimary
  <2>1. PICK refused \in Refusals :
          LET a == Announce(SlotWorld, 0, refused)
          IN  SlotsBecome(IF ~a.slot[0].announced \/ "send" \in refused THEN a
                          ELSE [a EXCEPT !.host = Packet(@, 0, WireMask(a), Rest)])
    BY <1>7 DEF SendPrimary
  <2> DEFINE a == Announce(SlotWorld, 0, refused)
             h == Packet(a.host, 0, WireMask(a), Rest)
             w == IF ~a.slot[0].announced \/ "send" \in refused THEN a ELSE [a EXCEPT !.host = h]
  <2>2. a \in GoodWorlds
    BY <1>1, SlotZero, Announced
  <2>3. SlotsBecome(w)
    BY <2>1
  <2> HIDE DEF a
  <2>4. /\ a.slot \in [Slots -> SlotStates] /\ HostFits(a, 0, a.slot[0], a.host)
        /\ a = [slot |-> a.slot, host |-> a.host]
    BY <2>2, SlotZero, GoodFits
  <2>5. /\ h \in PadHosts /\ h.present = WireMask(a) /\ h.present \subseteq h.arrived
        /\ \A j \in Slots : h.touched[j] \subseteq a.slot[j].touches \cup h.stuck[j]
    BY <2>2, SlotZero, PacketRight DEF PadButtons
  <2> HIDE DEF h
  <2>6. HostFits(a, 0, a.slot[0], h)
    BY <2>4, <2>5, SlotZero DEF HostFits, WireMask
  <2>7. [slot |-> [a.slot EXCEPT ![0] = a.slot[0]], host |-> h] \in GoodWorlds
    BY <2>2, <2>6, SlotZero, StaysGood
  <2>8. [a.slot EXCEPT ![0] = a.slot[0]] = a.slot
    BY <2>4
  <2>9. [a EXCEPT !.host = h] = [slot |-> a.slot, host |-> h]
    BY <2>4
  <2>10. w \in GoodWorlds
    BY <2>2, <2>7, <2>8, <2>9
  <2> HIDE DEF w
  <2> QED
    BY <1>1, <1>7, <2>3, <2>10, BecomesGood DEF SendPrimary
<1>8. CASE StopSlots
  <2>1. PICK refusing : SlotsBecome(Stopped(SlotWorld, refusing))
    BY <1>8 DEF StopSlots
  <2>2. Stopped(SlotWorld, refusing) \in GoodWorlds
    BY <1>1, StoppedGood
  <2> QED
    BY <1>1, <1>8, <2>1, <2>2, BecomesGood DEF StopSlots
<1>9. CASE ShutdownSlots
  <2> DEFINE w == [slot |-> [i \in Slots |-> EmptySlot], host |-> EmptyHost]
  <2>1. w \in GoodWorlds
    BY EmptyFits, NothingTold
  <2>2. SlotsBecome(w)
    BY <1>9 DEF ShutdownSlots, SlotsBecome
  <2> HIDE DEF w
  <2> QED
    BY <1>1, <1>9, <2>1, <2>2, BecomesGood DEF ShutdownSlots
<1>10. ASSUME NEW i \in Slots \ {0}, PollSlot(i) PROVE SlotsInv'
  <2>1. PICK p \in PadOf(slot[i].user), refused \in Refusals :
          LET c == SetConnection(SlotWorld, i, p, refused)
              a == Announce(Resumed(c, i), i, refused)
              x == ExtendedInput(c, a, i, p, p.shows.menu, refused)
              b == Announce(x, i, refused)
          IN  SlotsBecome(SendSample(b, i, p, refused))
    BY <1>10 DEF PollSlot
  <2> DEFINE c == SetConnection(SlotWorld, i, p, refused)
             a == Announce(Resumed(c, i), i, refused)
             x == ExtendedInput(c, a, i, p, p.shows.menu, refused)
             b == Announce(x, i, refused)
             w == SendSample(b, i, p, refused)
  <2>2. PadFits(p)
    <3>1. slot[i].user \in Users
      BY <1>1, <1>10 DEF SlotStates, PollSlot
    <3> QED
      BY <1>2, <3>1, PadsFit
  <2>3. c \in GoodWorlds
    BY <1>1, <2>2, ConnectionSet
  <2> HIDE DEF c
  <2>4. Resumed(c, i) \in GoodWorlds
    BY <2>3, Interception DEF Resumed
  <2>5. a \in GoodWorlds
    BY <2>4, Announced
  <2> HIDE DEF a
  <2>6. x \in GoodWorlds
    BY <2>2, <2>3, <2>5, InputExtended
  <2> HIDE DEF x
  <2>7. b \in GoodWorlds
    BY <2>6, Announced
  <2> HIDE DEF b
  <2>8. w \in GoodWorlds
    BY <2>2, <2>7, SampleSent
  <2>9. SlotsBecome(w)
    BY <2>1 DEF c, a, x, b
  <2> HIDE DEF w
  <2> QED
    BY <1>1, <1>10, <2>8, <2>9, BecomesGood DEF PollSlot
<1>11. ASSUME NEW i \in Slots \ {0}, KeepAlive(i) PROVE SlotsInv'
  <2>1. PICK refused \in Refusals :
          padHost' = IF "send" \in refused THEN padHost
                     ELSE Packet(padHost, i, WireMask(SlotWorld), Suppressed(i, slot[i].button))
    BY <1>11 DEF KeepAlive
  <2> DEFINE s == [slot[i] EXCEPT !.due = FALSE]
             h == Packet(SlotWorld.host, i, WireMask(SlotWorld), Suppressed(i, slot[i].button))
             w == [slot |-> [SlotWorld.slot EXCEPT ![i] = s], host |-> padHost']
  <2>2. SlotWorld.slot = slot /\ SlotWorld.host = padHost
    BY DEF SlotWorld
  <2>3. slot[i] \in SlotStates
    BY <1>1
  <2>4. s \in SlotStates
    BY <2>3, SlotFits
  <2>5. s.announced = slot[i].announced /\ s.touches = slot[i].touches
    BY <2>3 DEF SlotStates
  <2>6. Suppressed(i, slot[i].button) \in PadButtons
    BY <2>3 DEF Suppressed, SlotStates, PadButtons
  <2>7. /\ h \in PadHosts /\ h.present = WireMask(SlotWorld) /\ h.present \subseteq h.arrived
        /\ \A j \in Slots : h.touched[j] \subseteq SlotWorld.slot[j].touches \cup h.stuck[j]
    BY <1>1, <2>6, PacketRight
  <2> HIDE DEF s, h
  <2>8. HostFits(SlotWorld, i, SlotWorld.slot[i], SlotWorld.host)
    BY <1>1, GoodFits
  <2>9. HostFits(SlotWorld, i, s, h) /\ HostFits(SlotWorld, i, s, padHost)
    BY <2>2, <2>4, <2>5, <2>7, <2>8 DEF HostFits, WireMask
  <2>10. padHost' = h \/ padHost' = padHost
    BY <2>1, <2>2 DEF h
  <2>11. w \in GoodWorlds
    BY <1>1, <2>9, <2>10, StaysGood
  <2>12. SlotsBecome(w)
    BY <1>11, <2>2 DEF KeepAlive, SlotsBecome, s
  <2> HIDE DEF w
  <2> QED
    BY <1>1, <1>11, <2>11, <2>12, BecomesGood DEF KeepAlive
<1>12. ASSUME NEW i \in Slots, IdlePasses(i) \/ PortSettles(i) PROVE SlotsInv'
  <2> DEFINE s == IF slot' = [slot EXCEPT ![i].due = TRUE] THEN [slot[i] EXCEPT !.due = TRUE]
                  ELSE [slot[i] EXCEPT !.waiting = FALSE]
             w == [slot |-> [SlotWorld.slot EXCEPT ![i] = s], host |-> SlotWorld.host]
  <2>1. SlotWorld.slot = slot /\ SlotWorld.host = padHost
    BY DEF SlotWorld
  <2>2. slot[i] \in SlotStates
    BY <1>1
  <2>3. s \in SlotStates
    BY <2>2, SlotFits
  <2>4. s.announced = slot[i].announced /\ s.touches = slot[i].touches
    BY <2>2 DEF SlotStates
  <2>5. slot' = [slot EXCEPT ![i] = s] /\ UNCHANGED <<phase, padHost, padStill>>
    BY <1>12 DEF IdlePasses, PortSettles
  <2> HIDE DEF s
  <2>6. w \in GoodWorlds
    BY <1>1, <2>1, <2>3, <2>4, SlotChanged
  <2>7. SlotsBecome(w)
    BY <2>1, <2>5 DEF SlotsBecome
  <2> HIDE DEF w
  <2> QED
    BY <1>1, <2>5, <2>6, <2>7, BecomesGood
<1>13. CASE SlotsRest
  <2>1. padStill' \in [Users -> Pads]
    BY <1>13, PadsFit DEF SlotsRest
  <2>2. SlotsBecome(SlotWorld)
    BY <1>13 DEF SlotsRest, SlotsBecome, SlotWorld
  <2> QED
    BY <1>1, <1>13, <2>1, <2>2, BecomesGood DEF SlotsRest
<1>14. CASE UNCHANGED ctlVars
  BY <1>1, <1>14 DEF ctlVars, SlotsInv, SlotsTypeOK, SlotWorld
<1> QED
  BY <1>4, <1>5, <1>6, <1>7, <1>8, <1>9, <1>10, <1>11, <1>12, <1>13, <1>14 DEF SlotsNext, SlotsOver

\* The host has every controller it was told of and none before its arrival, and
\* no finger stays on a touchpad that left it but where the host refused to hear
\* of it, for any number of slots, users and samples: Discover, ExtendedInput,
\* Poll and Stop in ps5_dualsense.cpp.
THEOREM ControllersSafe == SlotsSpec => []ControllersOK
<1>1. SlotsInv => ControllersOK
  <2> SUFFICES ASSUME SlotsInv PROVE ControllersOK
    OBVIOUS
  <2>1. Told(SlotWorld) /\ Lifted(SlotWorld)
    BY DEF SlotsInv, GoodWorlds
  <2> QED
    BY <2>1 DEF SlotsInv, ControllersOK, HostAgrees, TouchesLift, Told, Lifted, SlotWorld
<1> QED
  BY <1>1, SlotsInvInit, SlotsInvStep, PTL DEF SlotsSpec

\* Stop leaves a host that refuses nothing without controllers, those included
\* whose removal it refused before: the removals of Stop in ps5_dualsense.cpp.
THEOREM StopLeavesNone == SlotsSpec => StopClears
<1>1. ASSUME SlotsInv, [SlotsNext]_ctlVars, phase = "live", phase' = "stopped", settled,
             WireMask(SlotWorld) # {}
      PROVE  padHost'.present = {}
  <2>1. StopSlots
    BY <1>1 DEF SlotsNext, ctlVars, Start, Discover, PrimarySample, SendPrimary, ShutdownSlots,
       PollSlot, KeepAlive, IdlePasses, PortSettles, SlotsRest, SlotsOver
  <2>2. SlotsBecome(Stopped(SlotWorld, {}))
    BY <1>1, <2>1 DEF StopSlots
  <2>3. Stopped(SlotWorld, {}).host.present = {}
    BY <1>1, StoppedGood DEF SlotsInv
  <2> QED
    BY <2>2, <2>3 DEF SlotsBecome
<1> QED
  BY <1>1, SlotsInvInit, SlotsInvStep, PTL DEF SlotsSpec, StopClears
=============================================================================
