------------------------------ MODULE Framing ------------------------------
(***************************************************************************)
(* PyroWaveFraming::parse (src/pyrowave/pyrowaveframing.cpp): how a frame  *)
(* of concatenated records is walked when packets of it were lost.         *)
(*                                                                         *)
(* The host is modelled as pyrowaveframing.h:14-33 describes it; its frame *)
(* grows record by record, some packets are lost, and the walk goes from   *)
(* one record to the next.  Positions are 4-byte words, a header has two.  *)
(* What the walk reads where no record starts is not a header: it misread. *)
(***************************************************************************)
EXTENDS Naturals, Sequences, FiniteSets

CONSTANTS Payload,      \* words of a full packet, the frame header's included
          MaxWords,     \* bound on a frame
          Hosts         \* of "flags", "packs", "straddles"

(* Assumed of the constants. *)
FramingAssumption ==
    /\ Payload \in Nat /\ Payload > 4 /\ MaxWords \in Nat
    /\ Hosts \subseteq {"flags", "packs", "straddles"}

VARIABLES
    sent,    \* the host, its records, and the packets lost
    walk     \* walkRecordFrame

framingVars == <<sent, walk>>

Header == 2
First == Payload - Header           \* the first packet carries the frame header

-----------------------------------------------------------------------------
(* The frame: records in order, each with its kind, start and end. *)

Size == IF sent.records = <<>> THEN 0 ELSE sent.records[Len(sent.records)].end
Records == {sent.records[i] : i \in DOMAIN sent.records}

PacketOf(word) == IF word < First THEN 1 ELSE 2 + (word - First) \div Payload
PacketStart(p) == IF p = 1 THEN 0 ELSE First + (p - 2) * Payload
Packets == IF Size = 0 THEN 0 ELSE PacketOf(Size - 1)

Kinds == <<"sequence", "coarse", "oversized", "ordinary">>
Rank(kind) == CHOOSE i \in DOMAIN Kinds : Kinds[i] = kind
Fine(r) == r.kind \in {"oversized", "ordinary"}

Fits(start, end) == PacketOf(start) = PacketOf(end - 1)
Latest == IF sent.records = <<>> THEN 0
          ELSE LET ranks == {Rank(r.kind) : r \in {q \in Records : q.kind # "padding"}}
               IN  CHOOSE k \in ranks : \A j \in ranks : j <= k

(* Records are sent by kind; oversized ones are too large to share a       *)
(* packet with padding; the ordinary ones of a packing host, and padding,  *)
(* cross no packet.  A host that packs fills up its packets by padding.    *)
MaySend(kind, start, end) ==
    CASE kind = "sequence"  -> start = 0 /\ end = Header
      [] kind = "coarse"    -> Latest \in {1, 2}
      [] kind = "oversized" -> Latest \in {1, 2, 3} /\ end - start + Header > Payload
      [] kind = "ordinary"  -> /\ Latest >= 1
                               /\ end - start + Header <= Payload
                               /\ sent.host = "packs" => Fits(start, end)
      [] kind = "padding"   -> /\ Latest >= 1 /\ sent.host = "packs"
                               /\ Fits(start, end) /\ PacketOf(end) # PacketOf(start)

Walking == [at |-> 0, from |-> 0, aligned |-> FALSE, past |-> FALSE, partial |-> FALSE,
            intact |-> TRUE, spans |-> {}, state |-> "walking"]
NotWalked == [Walking EXCEPT !.state = "sending"]

Send ==
    /\ walk.state = "sending"
    /\ \E kind \in {"sequence", "coarse", "oversized", "ordinary", "padding"},
          end \in (Size + Header)..MaxWords :
          /\ MaySend(kind, Size, end)
          /\ sent' = [sent EXCEPT !.records =
                                 Append(@, [kind |-> kind, start |-> Size, end |-> end])]
    /\ UNCHANGED walk

(* parse begins; without its first packet a frame is refused.  The host    *)
(* may say how many packets hold the coarsest level.                       *)
CoarsePackets ==
    {p \in 1..Packets : \E r \in Records : r.kind = "coarse" /\ p <= PacketOf(r.end - 1)}

Receive ==
    /\ walk.state = "sending" /\ Size > 0
    /\ \E lost \in SUBSET (1..Packets), known \in BOOLEAN :
          /\ sent' = [sent EXCEPT !.lost = lost, !.known = known]
          /\ walk' = IF 1 \in lost THEN [Walking EXCEPT !.state = "refused"]
                     ELSE [Walking EXCEPT !.intact = ~known \/ CoarsePackets \cap lost = {}]

-----------------------------------------------------------------------------
(* SegmentMap *)

Lost(start, end) == \E p \in sent.lost : PacketOf(start) <= p /\ p <= PacketOf(end - 1)
WithinOnePacket(start, end) == Fits(start, end)
PayloadSize == IF Packets >= 2 THEN Payload ELSE MaxWords + Header
RecordStart(p) == \E r \in Records : r.start = PacketStart(p)
Flagged == sent.host = "flags"
NextReceivedStart(pos) ==
    LET next == {p \in (PacketOf(pos) + 1)..Packets :
                    p \notin sent.lost /\ (Flagged => RecordStart(p))}
    IN  IF next = {} THEN Size
        ELSE PacketStart(CHOOSE p \in next : \A q \in next : p <= q)

-----------------------------------------------------------------------------
(* walkRecordFrame *)

SkipTo(w, next) ==
    [w EXCEPT !.at = next, !.from = next,
              !.spans = IF w.at > w.from THEN @ \cup {<<w.from, w.at>>} ELSE @]

NoteLoss(w) ==
    [w EXCEPT !.partial = TRUE, !.intact = @ /\ (w.past \/ sent.known)]

HeaderLost(w) == Lost(w.at, IF w.at + Header > Size THEN Size ELSE w.at + Header)

(* A lost header: go on at the next packet that begins with a record, if   *)
(* one can be told.                                                        *)
LoseHeader ==
    /\ walk.state = "walking" /\ walk.at < Size /\ HeaderLost(walk)
    /\ walk' = SkipTo(NoteLoss(walk),
                      IF Flagged \/ walk.aligned THEN NextReceivedStart(walk.at) ELSE Size)
    /\ UNCHANGED sent

(* Block that takes any finer record for one of ordinary size. *)
BlockAnyFine(w, r) ==
    LET here == [w EXCEPT !.past = @ \/ Fine(r)]
    IN  IF Lost(r.start, r.end)
        THEN SkipTo([NoteLoss(here) EXCEPT !.aligned = FALSE], r.end)
        ELSE [here EXCEPT !.at = r.end,
                          !.aligned = Fine(r) /\ WithinOnePacket(r.start, r.end)]

(* A block record: skipped when its payload lost bytes; aligned says that  *)
(* every later packet starts with a record.                                *)
Block(w, r) ==
    LET here == [w EXCEPT !.past = @ \/ Fine(r)]
        ordinary == r.end - r.start + Header <= PayloadSize
    IN  IF Lost(r.start, r.end)
        THEN SkipTo([NoteLoss(here) EXCEPT !.aligned = FALSE], r.end)
        ELSE [here EXCEPT !.at = r.end,
                          !.aligned = ordinary /\ Fine(r) /\ WithinOnePacket(r.start, r.end)]

Step ==
    /\ walk.state = "walking" /\ walk.at < Size /\ ~HeaderLost(walk)
    /\ LET here == {r \in Records : r.start = walk.at}
       IN  walk' = IF here = {} THEN [walk EXCEPT !.state = "misread"]
                   ELSE LET r == CHOOSE q \in here : TRUE
                        IN  CASE r.kind = "padding" -> SkipTo(walk, r.end)
                              [] r.kind = "sequence" -> [walk EXCEPT !.at = r.end]
                              [] OTHER -> Block(walk, r)
    /\ UNCHANGED sent

Finish ==
    /\ walk.state = "walking" /\ walk.at >= Size
    /\ walk' = [SkipTo(walk, walk.at) EXCEPT !.state = "parsed"]
    /\ UNCHANGED sent

NextFrame ==
    /\ walk.state \in {"parsed", "refused", "misread"}
    /\ sent' = [sent EXCEPT !.records = <<>>, !.lost = {}]
    /\ walk' = NotWalked

Init ==
    /\ sent \in [host : Hosts, records : {<<>>}, lost : {{}}, known : {FALSE}]
    /\ walk = NotWalked

Next == Send \/ Receive \/ LoseHeader \/ Step \/ Finish \/ NextFrame

Spec == Init /\ [][Next]_framingVars

-----------------------------------------------------------------------------
(* Properties *)

Words(span) == span[1]..(span[2] - 1)
Passed(r) == \E span \in walk.spans : r.start \in Words(span)

(* What is passed to the decoder is whole records that arrived, no padding *)
(* among them: a record is in a span entirely or not at all.               *)
OnlyWhole ==
    \A span \in walk.spans :
        /\ ~Lost(span[1], span[2])
        /\ \A r \in Records :
              Words(span) \cap (r.start..(r.end - 1)) # {} =>
                  r.kind # "padding" /\ span[1] <= r.start /\ r.end <= span[2]

(* The coarsest level is called intact only when every record of it is     *)
(* passed on, and a frame is called whole only when every record is.       *)
IntactIsTrue ==
    walk.state = "parsed" =>
        /\ walk.intact => \A r \in Records : r.kind = "coarse" => Passed(r)
        /\ ~walk.partial => \A r \in Records : r.kind # "padding" => Passed(r)

(* Recovery after a lost header never takes the middle of a record for its *)
(* beginning, from the hosts it is made for: walkRecordFrame.              *)
NoMisread == sent.host # "straddles" => walk.state # "misread"

(* pyrowaveframing.cpp:154 of a lost record header: for hosts that let     *)
(* ordinary records straddle packets, the rest of the frame is lost.       *)
StraddlersLoseTheRest == sent.host = "straddles" => walk.state # "misread"

FramingOK == OnlyWhole /\ IntactIsTrue /\ NoMisread

=============================================================================
