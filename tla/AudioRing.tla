------------------------------ MODULE AudioRing -------------------------------
(***************************************************************************)
(* The sound of a stream (moonlight_stream.cpp:2770): the audio thread     *)
(* decodes a packet, or what replaces a lost one, into a ring that drops   *)
(* its oldest samples, and gives the console whole grains of it.  Set-up   *)
(* fails at any of its steps; a decode or an output fails; a backlog in    *)
(* front of the decoder empties the ring.                                  *)
(*                                                                         *)
(* A sample is its number in the order it was decoded; a slot whose sample *)
(* was heard or given up is Free.                                          *)
(***************************************************************************)
EXTENDS Integers

CONSTANTS
  Ring,      \* AUDIO_RING_FRAMES, six grains of 256 in the code
  Grain,     \* AUDIO_GRAIN_FRAMES
  Longest,   \* AUDIO_DECODE_MAX_FRAMES, 5760: more than the ring holds
  MaxDecoded \* bound on the samples of a stream

ASSUME AudioAssumption ==
  /\ Ring \in Nat \ {0} /\ Grain \in 1 .. Ring /\ Longest \in Nat \ {0} /\ MaxDecoded \in Nat

VARIABLES
  stage,     \* "off", "decoder", "port", "ready", "drain"
  decoder, port,  \* held
  ring,      \* the samples
  head, tail, count,
  decoded,   \* the number of the next sample to be decoded
  heard      \* the number of the next sample that is neither heard nor given up

soundVars == <<stage, decoder, port, ring, head, tail, count, decoded, heard>>

Free == -1

SoundInit ==
  /\ stage = "off" /\ decoder = FALSE /\ port = FALSE
  /\ ring = [i \in 0 .. Ring - 1 |-> Free] /\ head = 0 /\ tail = 0 /\ count = 0
  /\ decoded = 0 /\ heard = 0

samples == <<ring, head, tail, count, decoded, heard>>

-----------------------------------------------------------------------------
(* ps5_audio_init and ps5_audio_cleanup *)

\* The state is cleared; a stream the console cannot play is refused.
SoundBegin ==
  /\ stage = "off" /\ stage' \in {"off", "decoder"}
  /\ ring' = [i \in 0 .. Ring - 1 |-> Free] /\ head' = 0 /\ tail' = 0 /\ count' = 0
  /\ decoded' = 0 /\ heard' = 0
  /\ UNCHANGED <<decoder, port>>

CreateDecoder ==
  /\ stage = "decoder"
  /\ \/ decoder' = TRUE /\ stage' = "port"
     \/ stage' = "off" /\ UNCHANGED decoder
  /\ UNCHANGED <<port, samples>>

\* A bug: only the port is given up.
OpenPortKeeps ==
  /\ stage = "port"
  /\ \/ port' = TRUE /\ stage' = "ready" /\ UNCHANGED decoder
     \/ stage' = "off" /\ UNCHANGED <<decoder, port>>
  /\ UNCHANGED samples

\* sceAudioOutInit or sceAudioOutOpen fails: the decoder goes.
OpenPort ==
  /\ stage = "port"
  /\ \/ port' = TRUE /\ stage' = "ready" /\ UNCHANGED decoder
     \/ stage' = "off" /\ decoder' = FALSE /\ UNCHANGED port
  /\ UNCHANGED samples

Cleanup ==
  /\ stage = "ready" /\ stage' = "off" /\ port' = FALSE /\ decoder' = FALSE
  /\ UNCHANGED samples

-----------------------------------------------------------------------------
(* ps5_audio_sample *)

\* The place of a slot after another, and a ring with some slots given up.
After(slot, from) == (slot - from + Ring) % Ring
Freed(slots) == [i \in DOMAIN ring |-> IF i \in slots THEN Free ELSE ring[i]]

\* audio_ring_push, from a slot on: of a burst longer than the ring only its
\* end is kept; otherwise the oldest samples make room.
PushAt(n, from) ==
  LET long == n > Ring
      frames == IF long THEN Ring ELSE n
      gone == IF long THEN count + (n - Ring)
              ELSE IF count + n > Ring THEN count + n - Ring ELSE 0 IN
  /\ heard' = heard + gone /\ decoded' = decoded + n
  /\ head' = IF long THEN 0 ELSE (head + gone) % Ring
  /\ tail' = (from + frames) % Ring
  /\ count' = IF long THEN Ring ELSE count - gone + n
  /\ ring' = [i \in DOMAIN ring |->
                IF After(i, from) < frames THEN decoded + (n - frames) + After(i, from)
                ELSE IF After(i, head) < gone THEN Free ELSE ring[i]]

\* A bug: the place in the ring is not set back with the rest.
PushFromTail(n) == PushAt(n, tail)

Push(n) == PushAt(n, IF n > Ring THEN 0 ELSE tail)

\* The packet is decoded and kept.
Buffer ==
  /\ stage = "ready" /\ \E n \in 1 .. Longest : decoded + n <= MaxDecoded /\ Push(n)
  /\ stage' = "drain" /\ UNCHANGED <<decoder, port>>

\* The queue before the decoder is too long: this packet and the ring go.
CatchUp ==
  /\ stage = "ready"
  /\ \E n \in 1 .. Longest : decoded + n <= MaxDecoded /\ decoded' = decoded + n
  /\ heard' = decoded'
  /\ head' = 0 /\ tail' = 0 /\ count' = 0 /\ ring' = Freed(DOMAIN ring)
  /\ UNCHANGED <<stage, decoder, port>>

\* audio_ring_pop and sceAudioOutOutput: a grain that fails is lost and ends
\* the drain, whatever is left.
Output ==
  /\ stage = "drain" /\ count >= Grain
  /\ head' = (head + Grain) % Ring /\ count' = count - Grain /\ heard' = heard + Grain
  /\ ring' = Freed({i \in DOMAIN ring : After(i, head) < Grain})
  /\ stage' \in {"drain", "ready"}
  /\ UNCHANGED <<decoder, port, tail, decoded>>

Drained ==
  /\ stage = "drain" /\ count < Grain /\ stage' = "ready"
  /\ UNCHANGED <<decoder, port, samples>>

SoundNext ==
  \/ SoundBegin \/ CreateDecoder \/ OpenPort \/ Cleanup
  \/ Buffer \/ CatchUp \/ Output \/ Drained

SoundSpec == SoundInit /\ [][SoundNext]_soundVars

-----------------------------------------------------------------------------
SoundTypeOK ==
  /\ stage \in {"off", "decoder", "port", "ready", "drain"}
  /\ decoder \in BOOLEAN /\ port \in BOOLEAN
  /\ ring \in [0 .. Ring - 1 -> Free .. MaxDecoded - 1]
  /\ head \in 0 .. Ring - 1 /\ tail \in 0 .. Ring - 1 /\ count \in 0 .. Ring
  /\ decoded \in 0 .. MaxDecoded /\ heard \in 0 .. decoded

\* The ring holds the newest samples, in order and none twice: what the console
\* gets next is the first one that was neither heard nor given up, whatever
\* bursts, drops, catch-ups and failed outputs came before.
HoldsNewest ==
  /\ tail = (head + count) % Ring
  /\ heard = decoded - count
  /\ \A i \in 0 .. count - 1 : ring[(head + i) % Ring] = heard + i

\* A stream without sound keeps neither a decoder nor a port, whichever step
\* of the set-up failed.
NothingKept == stage = "off" => ~decoder /\ ~port

\* The console gets whole grains of samples, in their order and none twice, and
\* set-up leaves nothing behind: the audio ring and ps5_audio_init
\* (moonlight_stream.cpp:2770).
SoundOK == SoundTypeOK /\ HoldsNewest /\ NothingKept

=============================================================================
