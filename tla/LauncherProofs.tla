---------------------------- MODULE LauncherProofs -----------------------------
(***************************************************************************)
(* Proofs about the launcher for any list of PCs, network, threshold and   *)
(* bound: who talks to the network, what becomes of a changed list, that   *)
(* the list holds a PC once, and that what is shown is of the PC selected. *)
(***************************************************************************)
EXTENDS Launcher, HostListProofs

\* While the pairing thread runs the model knows it, and has no worker at all:
\* the worker starts only when nobody pairs, pairing only when it is joined.
TalkInv ==
  /\ PairThread => pairActive /\ worker = "none"
  /\ pc \in {"closing", "closed"} => ~pairActive /\ ~pairRequested
  /\ pc = "closed" => worker = "none"

LEMMA TalkInit == Init => TalkInv
  BY DEF Init, TalkInv, PairThread, NoPairing

LEMMA TalkOrder == TalkInv /\ Order => TalkInv'
<1> SUFFICES ASSUME TalkInv, Order PROVE TalkInv'
  OBVIOUS
<1>1. Listening /\ UNCHANGED <<workerVars, pairActive, pairing, pc>>
  BY DEF Order, SelectHost, RemoveHost, AddHost, SetPort, Refresh, Discover, Unpair, StopApp,
         StartPairing, RequestArtwork, RequestStream, Reselect, Ask, pairingVars
<1> QED
  BY <1>1 DEF TalkInv, PairThread, Listening, workerVars

LEMMA TalkPoll == TalkInv /\ PollStep => TalkInv'
<1> SUFFICES ASSUME TalkInv, PollStep PROVE TalkInv'
  OBVIOUS
<1>1. CASE TakeAnswer
  BY <1>1 DEF TalkInv, PairThread, TakeAnswer, pairingVars, workerVars
<1>2. CASE PairStart
  BY <1>2 DEF TalkInv, PairThread, PairStart, MayPair, Pairing, NoPairing, workerVars
<1>3. CASE PairingOver
  BY <1>3 DEF TalkInv, PairThread, PairingOver, NoPairing, workerVars
<1>4. CASE NoPairingStep
  BY <1>4 DEF TalkInv, PairThread, NoPairingStep, pairingVars, workerVars
<1>5. CASE StartNext
  BY <1>5 DEF TalkInv, PairThread, StartNext, MayStart, Pairing, pairingVars
<1>6. CASE RunInline
  BY <1>6 DEF TalkInv, PairThread, RunInline, pairingVars
<1> QED
  BY <1>1, <1>2, <1>3, <1>4, <1>5, <1>6 DEF PollStep

LEMMA TalkStep == TalkInv /\ [Next]_vars => TalkInv'
<1> SUFFICES ASSUME TalkInv, [Next]_vars PROVE TalkInv'
  OBVIOUS
<1>1. CASE Order
  BY <1>1, TalkOrder
<1>2. CASE PollStep
  BY <1>2, TalkPoll
<1>3. CASE TimePasses \/ PollSave
  BY <1>3 DEF TalkInv, PairThread, TimePasses, PollSave, pairingVars, workerVars
<1>4. CASE WorkerEnds
  BY <1>4 DEF TalkInv, PairThread, WorkerEnds, pairingVars
<1>5. CASE PairStep
  <2>1. PairThread /\ UNCHANGED <<workerVars, pairRequested, pairActive, pc>>
    BY <1>5 DEF PairStep, PairWaits, PairLost, PairRefused, PairAnswered, PairEnds, PairThread
  <2> QED
    BY <2>1 DEF TalkInv, workerVars
<1>6. CASE Initialize
  BY <1>6 DEF TalkInv, PairThread, Initialize, pairingVars, workerVars
<1>7. CASE StartStream \/ ExitHeld
  BY <1>7 DEF TalkInv, PairThread, StartStream, ExitHeld, Close, Pairing, pairingVars, workerVars
<1>8. CASE Shutdown
  BY <1>8 DEF TalkInv, PairThread, Shutdown, pairingVars
<1>9. CASE UNCHANGED vars
  BY <1>9 DEF TalkInv, PairThread, vars
<1> QED
  BY <1>1, <1>2, <1>3, <1>4, <1>5, <1>6, <1>7, <1>8, <1>9 DEF Next

\* Requests and pairing never use the NVHTTP transport of the process together,
\* however the player, the two threads and the frame loop interleave.
THEOREM OneAtATime == Spec => []OneConversation
<1>1. TalkInv => OneConversation
  BY DEF TalkInv, OneConversation
<1> QED
  BY TalkInit, TalkStep, <1>1, PTL DEF Spec

\* When the launcher has closed for a stream, its worker is joined and nothing
\* is being paired.
THEOREM StreamAlone == Spec => []NetworkLeftToStream
<1>1. TalkInv => NetworkLeftToStream
  BY DEF TalkInv, NetworkLeftToStream
<1> QED
  BY TalkInit, TalkStep, <1>1, PTL DEF Spec

-----------------------------------------------------------------------------
\* A change of the list is in the file, is due to be, or was refused with a
\* notice; and when the launcher has closed none is still due.
SaveInv ==
  /\ config = saved \/ savePending \/ saveRefused
  /\ pc = "closed" => config = saved \/ saveRefused

LEMMA SaveInit == Init => SaveInv
  BY DEF Init, SaveInv

\* Save and SaveIfChanged leave `list` saved or refused, whatever was before.
LEMMA SaveDone ==
  ASSUME NEW list, Save(list), config' = list
  PROVE  config' = saved' \/ saveRefused'
  BY DEF Save

LEMMA SaveIfChangedDone ==
  ASSUME SaveInv, SaveIfChanged(config')
  PROVE  config' = saved' \/ savePending' \/ saveRefused'
  BY DEF SaveInv, SaveIfChanged, Save

LEMMA SaveApply ==
  ASSUME SaveInv, Apply
  PROVE  config' = saved' \/ savePending' \/ saveRefused'
<1>1. SaveIfChanged(config') \/ UNCHANGED configVars
  BY DEF Apply, ApplyDiscovery, ApplySweep, ApplySelected
<1> QED
  BY <1>1, SaveIfChangedDone DEF SaveInv, configVars

LEMMA SaveOrder == SaveInv /\ Order => SaveInv'
<1> SUFFICES ASSUME SaveInv, Order PROVE SaveInv'
  OBVIOUS
<1>1. pc' = "idle"
  BY DEF Order, SelectHost, RemoveHost, AddHost, SetPort, Refresh, Discover, Unpair, StopApp,
         StartPairing, RequestArtwork, RequestStream, Reselect, Ask, Listening
<1>2. config' = saved' \/ savePending' \/ saveRefused'
  <2>1. CASE SelectHost
    BY <2>1 DEF SelectHost
  <2>2. CASE RemoveHost
    BY <2>2 DEF RemoveHost, Reselect
  <2>3. CASE AddHost
    BY <2>3, SaveDone DEF AddHost, Reselect
  <2>4. CASE SetPort
    BY <2>4, SaveDone DEF SetPort, Reselect
  <2>5. CASE Refresh \/ Discover \/ Unpair \/ StopApp \/ StartPairing \/ RequestArtwork
             \/ RequestStream
    BY <2>5 DEF Refresh, Discover, Unpair, StopApp, StartPairing, RequestArtwork, RequestStream,
                Ask, SaveInv, configVars
  <2> QED
    BY <2>1, <2>2, <2>3, <2>4, <2>5 DEF Order
<1> QED
  BY <1>1, <1>2 DEF SaveInv

LEMMA SaveStep == SaveInv /\ [Next]_vars => SaveInv'
<1> SUFFICES ASSUME SaveInv, [Next]_vars PROVE SaveInv'
  OBVIOUS
<1>1. CASE Order
  BY <1>1, SaveOrder
<1>2. CASE TakeAnswer
  <2>1. Apply \/ UNCHANGED configVars
    BY <1>2 DEF TakeAnswer, configVars
  <2>2. pc' = "pair"
    BY <1>2 DEF TakeAnswer
  <2> QED
    BY <2>1, <2>2, SaveApply DEF SaveInv, configVars
<1>3. CASE RunInline
  BY <1>3, SaveApply DEF SaveInv, RunInline
<1>4. CASE PollSave
  BY <1>4, SaveDone DEF SaveInv, PollSave
<1>5. CASE TimePasses \/ WorkerEnds \/ PairStep \/ PairStart \/ PairingOver \/ NoPairingStep
           \/ StartNext \/ StartStream \/ ExitHeld
  <2>1. UNCHANGED configVars
    BY <1>5 DEF TimePasses, WorkerEnds, PairStep, PairWaits, PairLost, PairRefused, PairAnswered,
                PairEnds, PairStart, PairingOver, NoPairingStep, StartNext, StartStream, ExitHeld,
                Close
  <2>2. pc' = "closed" => pc = "closed"
    BY <1>5 DEF TimePasses, WorkerEnds, PairStep, PairWaits, PairLost, PairRefused, PairAnswered,
                PairEnds, PairStart, PairingOver, NoPairingStep, StartNext, StartStream, ExitHeld,
                Close
  <2> QED
    BY <2>1, <2>2 DEF SaveInv, configVars
<1>6. CASE Initialize
  BY <1>6 DEF SaveInv, Initialize
<1>7. CASE Shutdown
  BY <1>7 DEF SaveInv, Shutdown, Save
<1>8. CASE UNCHANGED vars
  BY <1>8 DEF SaveInv, vars
<1> QED
  BY <1>1, <1>2, <1>3, <1>4, <1>5, <1>6, <1>7, <1>8 DEF Next, PollStep

\* A change of the list is in the file, will be, or the player was told it is not.
THEOREM ChangesKept == Spec => []SavedOrPending
<1>1. SaveInv => SavedOrPending
  BY DEF SaveInv, SavedOrPending
<1> QED
  BY SaveInit, SaveStep, <1>1, PTL DEF Spec

\* Closing the launcher loses no change that the console accepts.
THEOREM ClosingKeepsChanges == Spec => []NothingLost
<1>1. SaveInv => NothingLost
  BY DEF SaveInv, NothingLost
<1> QED
  BY SaveInit, SaveStep, <1>1, PTL DEF Spec

\* The launcher leaves nothing behind when it closes: no thread, no conversation
\* and no unsaved change, whatever ran when the player chose Start.
THEOREM ClosedCleanly == Spec => []ClosedClean
<1>1. NetworkLeftToStream /\ NothingLost => ClosedClean
  BY DEF ClosedClean
<1> QED
  BY <1>1, StreamAlone, ClosingKeepsChanges, PTL

-----------------------------------------------------------------------------
(* What the PCs of the list are called. *)

LEMMA MergedTruthful ==
  ASSUME NEW list \in ListType, NEW index \in Places(list), HasSelected(list), Truthful(list)
  PROVE  /\ Truthful(Merged(list, index))
         /\ Identity[SelectedHost(Merged(list, index)).ep] = Identity[SelectedHost(list).ep]
<1> DEFINE m == Merged(list, index)
<1>1. /\ \A k \in Places(m) : \E i \in Kept(list, index) : m.hosts[k] = list.hosts[i]
      /\ \/ SelectedHost(m) = SelectedHost(list)
         \/ /\ SelectedHost(m) = list.hosts[index]
            /\ SameHost(SelectedHost(list), list.hosts[index])
  BY MergedFacts
<1>2. Kept(list, index) \subseteq Places(list)
  BY DEF Kept
<1> HIDE DEF m
<1>3. Truthful(m)
  BY <1>1, <1>2 DEF Truthful
<1>4. ASSUME NEW i \in Places(list), NEW j \in Places(list), SameHost(list.hosts[i], list.hosts[j])
      PROVE  Identity[list.hosts[i].ep] = Identity[list.hosts[j].ep]
  BY <1>4 DEF SameHost, Truthful
<1>5. Identity[SelectedHost(m).ep] = Identity[SelectedHost(list).ep]
  BY <1>1, <1>4 DEF HasSelected, SelectedHost
<1> QED
  BY <1>3, <1>5 DEF m

\* What UpsertHost leaves of a list: a list as good, which holds the PC (unless
\* it is full), without twins if it had none, and truthful if it was and is told
\* the truth, the selection then being of the same PC.
ToldTruly(addr, port, uid) ==
  uid # NoId => port # 0 /\ uid = Identity[[addr |-> addr, port |-> port]]
Upserted(list, addr, port, uid) ==
  LET u == UpsertHost(list, addr, port, uid)
  IN  /\ GoodList(u.list)
      /\ u.place = 0 => u.list = list
      /\ u.place # 0 => /\ u.place \in Places(u.list) /\ HasSelected(u.list)
                        /\ port # 0 => u.list.hosts[u.place].ep = [addr |-> addr, port |-> port]
      /\ NoTwinsIn(list) => NoTwinsIn(u.list)
      /\ HasSelected(list) => HasSelected(u.list)
      /\ Truthful(list) /\ ToldTruly(addr, port, uid)
           => /\ Truthful(u.list)
              /\ HasSelected(list) =>
                   Identity[SelectedHost(u.list).ep] = Identity[SelectedHost(list).ep]

LEMMA UpsertFacts ==
  ASSUME NEW list, GoodList(list), NEW addr \in Addresses, NEW port \in Ports \cup {0},
         NEW uid \in Ids \cup {NoId}
  PROVE  Upserted(list, addr, port, uid)
<1> DEFINE i == UpsertTarget(list, addr, port, uid)
           h == UpsertedHost(list, i, addr, port, uid)
           n == Len(list.hosts)
           m == IF i > n THEN i ELSE n
           hosts == [j \in 1..m |-> IF j = i THEN h ELSE list.hosts[j]]
           entered == [list EXCEPT !.hosts = hosts]
           u == UpsertHost(list, addr, port, uid)
<1>1. /\ list \in ListType /\ n \in Nat /\ n <= MaxHosts /\ list.selected \in Nat
      /\ \A j \in 1..n : list.hosts[j] \in Hosts
      /\ Places(list) = 1..n
      /\ list.selected \in 1..n \/ list = EmptyList
      /\ MaxHosts \in Nat
  BY HostsOf, HostListAssumption DEF GoodList, Places, HasSelected
<1>2. /\ i \in 1..n + 1
      /\ i \in Places(list) => Describes(list.hosts[i], addr, port, uid)
      /\ h \in Hosts
      /\ port # 0 => h.ep = [addr |-> addr, port |-> port]
      /\ uid # NoId => h.uid = uid
      /\ uid = NoId /\ i \in Places(list) => h = list.hosts[i]
      /\ uid = NoId /\ i \notin Places(list) => h.uid = NoId
  <2>1. Targeted(list, addr, port, uid)
    BY <1>1, UpsertTargetFacts
  <2> QED
    BY <2>1 DEF Targeted
<1>3. u = IF i > MaxHosts THEN [list |-> list, place |-> 0]
          ELSE [list |-> Merged(entered, i), place |-> MergedPlace(entered, i)]
  BY DEF UpsertHost
<1>4. CASE i > MaxHosts
  BY <1>3, <1>4 DEF Upserted
<1>5. CASE i <= MaxHosts
  <2> HIDE DEF i, h, n, u
  <2>0. m \in Nat /\ m <= MaxHosts /\ i \in 1..m /\ n <= m /\ m \in {n, n + 1}
        /\ (m # n => i = m /\ i \notin 1..n)
    BY <1>1, <1>2, <1>5
  <2> HIDE DEF m
  <2>1. /\ entered.hosts \in Seq(Hosts) /\ Len(entered.hosts) = m
        /\ Places(entered) = 1..m /\ entered.selected = list.selected
        /\ entered \in ListType
        /\ \A j \in 1..m : entered.hosts[j] = IF j = i THEN h ELSE list.hosts[j]
    <3>0. \A j \in 1..m : j # i => j \in 1..n
      BY <1>1, <1>2, <2>0
    <3>1. hosts \in [1..m -> Hosts]
      BY <1>1, <1>2, <3>0
    <3>a. entered = [hosts |-> hosts, selected |-> list.selected]
      <4>1. PICK l1 \in Seq(Hosts), l2 \in Nat : list = [hosts |-> l1, selected |-> l2]
        BY <1>1 DEF ListType
      <4> HIDE DEF hosts
      <4> QED
        BY <4>1
    <3>b. \A j \in 1..m : hosts[j] = IF j = i THEN h ELSE list.hosts[j]
      OBVIOUS
    <3> HIDE DEF hosts, entered
    <3>2. hosts \in Seq(Hosts) /\ Len(hosts) = m
      <4>1. hosts \in Seq(Hosts)
        BY <2>0, <3>1, IsASeq
      <4> QED
        BY <2>0, <3>1, <4>1, LenProperties
    <3> QED
      BY <1>1, <3>a, <3>b, <3>2 DEF ListType, Places
  <2> HIDE DEF entered
  <2>2. list.selected \in 1..m /\ HasSelected(entered)
    <3>1. CASE list = EmptyList
      <4>1. list.selected = 1
        BY <3>1 DEF EmptyList
      <4> QED
        BY <2>0, <2>1, <4>1 DEF HasSelected
    <3>2. CASE list.selected \in 1..n
      BY <1>1, <2>0, <2>1, <3>2 DEF HasSelected
    <3> QED
      BY <1>1, <3>1, <3>2
  <2>3. /\ u.list = Merged(entered, i) /\ u.place = MergedPlace(entered, i)
        /\ i \in Places(entered)
    BY <1>1, <1>2, <1>3, <1>5, <2>0, <2>1
  <2>4. /\ u.list \in ListType /\ Len(u.list.hosts) <= m
        /\ u.place \in Places(u.list) /\ u.list.hosts[u.place] = h /\ HasSelected(u.list)
    BY <2>0, <2>1, <2>2, <2>3, MergedFacts
  <2>5. GoodList(u.list)
    <3>1. Len(u.list.hosts) \in Nat
      BY <2>4, HostsOf
    <3>2. Len(u.list.hosts) <= MaxHosts
      BY <1>1, <2>0, <2>4, <3>1
    <3> QED
      BY <2>4, <3>2 DEF GoodList
  <2>6. u.place # 0
    <3>1. \A k \in Places(u.list) : k # 0
      BY DEF Places
    <3> QED
      BY <2>4, <3>1
  <2>7. ASSUME NoTwinsIn(list) PROVE NoTwinsIn(u.list)
    <3>1. \A j, k \in Places(entered) \ {i} : j # k => ~SameHost(entered.hosts[j], entered.hosts[k])
      <4>1. \A j \in 1..m : j # i => j \in 1..n
        BY <1>1, <1>2, <2>0
      <4> QED
        BY <1>1, <2>1, <2>7, <4>1 DEF NoTwinsIn
    <3> QED
      BY <2>1, <2>2, <2>3, <3>1, MergedNoTwins
  <2>8. ASSUME Truthful(list), ToldTruly(addr, port, uid)
        PROVE  /\ Truthful(u.list)
               /\ HasSelected(list) =>
                    Identity[SelectedHost(u.list).ep] = Identity[SelectedHost(list).ep]
    <3>1. h.uid \in {NoId, Identity[h.ep]}
      <4>1. CASE uid # NoId
        BY <1>2, <2>8, <4>1 DEF ToldTruly
      <4>2. CASE uid = NoId /\ i \in Places(list)
        BY <1>2, <2>8, <4>2 DEF Truthful
      <4>3. CASE uid = NoId /\ i \notin Places(list)
        BY <1>2, <4>3
      <4> QED
        BY <4>1, <4>2, <4>3
    <3>2. Truthful(entered)
      <4>1. \A j \in 1..m : j # i => j \in 1..n
        BY <1>1, <1>2, <2>0
      <4>2. \A j \in 1..m : j # i => list.hosts[j].uid \in {NoId, Identity[list.hosts[j].ep]}
        BY <1>1, <2>8, <4>1 DEF Truthful
      <4> QED
        BY <2>1, <3>1, <4>2 DEF Truthful
    <3>3. /\ Truthful(u.list)
          /\ Identity[SelectedHost(u.list).ep] = Identity[SelectedHost(entered).ep]
      BY <2>1, <2>2, <2>3, <3>2, MergedTruthful
    <3>4. ASSUME HasSelected(list)
          PROVE  Identity[SelectedHost(entered).ep] = Identity[SelectedHost(list).ep]
      <4>1. CASE list.selected # i
        BY <2>1, <2>2, <4>1 DEF SelectedHost
      <4>2. CASE list.selected = i
        <5>1. i \in Places(list) /\ SelectedHost(entered) = h /\ SelectedHost(list) = list.hosts[i]
          BY <2>1, <2>2, <3>4, <4>2 DEF SelectedHost, HasSelected
        <5>2. CASE uid = NoId
          BY <1>2, <5>1, <5>2
        <5>3. CASE uid # NoId
          <6>1. h.ep = [addr |-> addr, port |-> port] /\ uid = Identity[h.ep]
            BY <1>2, <2>8, <5>3 DEF ToldTruly
          <6>2. CASE list.hosts[i].uid = uid
            BY <2>8, <5>1, <5>3, <6>1, <6>2 DEF Truthful
          <6>3. CASE list.hosts[i].ep.addr = addr /\ port \in {0, list.hosts[i].ep.port}
            <7>1. list.hosts[i].ep \in Endpoints
              BY <1>1, <5>1 DEF Hosts
            <7>2. list.hosts[i].ep = h.ep
              BY <2>8, <5>3, <6>1, <6>3, <7>1 DEF Endpoints, ToldTruly
            <7> QED
              BY <5>1, <7>2
          <6> QED
            BY <1>2, <5>1, <6>2, <6>3 DEF Describes
        <5> QED
          BY <5>2, <5>3
      <4> QED
        BY <4>1, <4>2
    <3> QED
      BY <3>3, <3>4
  <2> QED
    <3>1. port # 0 => u.list.hosts[u.place].ep = [addr |-> addr, port |-> port]
      BY <1>2, <2>4
    <3> QED
      BY <2>4, <2>5, <2>6, <2>7, <2>8, <3>1 DEF Upserted, u
<1> QED
  BY <1>1, <1>2, <1>4, <1>5

\* Choosing another PC changes nothing else.
LEMMA Reselected ==
  ASSUME NEW list, GoodList(list), NEW p \in Places(list)
  PROVE  LET l == [list EXCEPT !.selected = p]
         IN  /\ GoodList(l) /\ HasSelected(l) /\ SelectedHost(l) = list.hosts[p]
             /\ NoTwinsIn(list) => NoTwinsIn(l)
             /\ Truthful(list) => Truthful(l)
<1> DEFINE l == [list EXCEPT !.selected = p]
<1>1. PICK hs \in Seq(Hosts), sel \in Nat : list = [hosts |-> hs, selected |-> sel]
  BY DEF GoodList, ListType
<1>2. l = [hosts |-> hs, selected |-> p] /\ list.hosts = hs
  BY <1>1
<1> HIDE DEF l
<1>3. l.hosts = list.hosts /\ l.selected = p /\ Places(l) = Places(list)
  BY <1>2 DEF Places
<1>4. p \in Nat
  BY <1>1, LenProperties DEF Places
<1>5. GoodList(l) /\ HasSelected(l) /\ SelectedHost(l) = list.hosts[p]
  <2>1. Len(list.hosts) <= MaxHosts
    BY DEF GoodList
  <2>2. l \in ListType
    BY <1>2, <1>4 DEF ListType
  <2> QED
    BY <1>3, <2>1, <2>2 DEF GoodList, HasSelected, SelectedHost
<1> QED
  BY <1>3, <1>5 DEF l, NoTwinsIn, Truthful

\* Another port: no twins, no lies, and the PC is where the result says.
PortSet(list, index, port) ==
  LET r == SetHostPort(list, index, port)
  IN  /\ GoodList(r.list) /\ r.place \in Places(r.list)
      /\ NoTwinsIn(list) => NoTwinsIn(r.list)
      /\ Truthful(list) => Truthful(r.list)

LEMMA SetHostPortFacts ==
  ASSUME NEW list, GoodList(list), HasSelected(list), NEW index \in Places(list), NEW port \in Ports
  PROVE  PortSet(list, index, port)
<1> DEFINE h == list.hosts[index]
           g == [ep |-> [h.ep EXCEPT !.port = port], uid |-> NoId]
           moved == IF h.ep.port = port THEN list ELSE [list EXCEPT !.hosts[index] = g]
           r == SetHostPort(list, index, port)
<1>1. PICK hs \in Seq(Hosts), sel \in Nat : list = [hosts |-> hs, selected |-> sel]
  BY DEF GoodList, ListType
<1>2. /\ list.hosts = hs /\ list.selected = sel /\ Len(hs) \in Nat /\ Places(list) = 1..Len(hs)
      /\ \A j \in 1..Len(hs) : hs[j] \in Hosts
      /\ sel \in 1..Len(hs) /\ Len(hs) <= MaxHosts
  BY <1>1, LenProperties, ElementOfSeq DEF Places, HasSelected, GoodList
<1>3. g \in Hosts /\ g.uid = NoId
  <2>1. h \in Hosts
    BY <1>2
  <2>2. h.ep \in [addr : Addresses, port : Ports]
    BY <2>1 DEF Hosts, Endpoints
  <2>3. [h.ep EXCEPT !.port = port] \in [addr : Addresses, port : Ports]
    BY <2>2
  <2> QED
    BY <2>3 DEF Hosts, Endpoints
<1>4. r = [list |-> Merged(moved, index), place |-> MergedPlace(moved, index)]
  BY DEF SetHostPort
<1>5. /\ moved \in ListType /\ Len(moved.hosts) = Len(hs) /\ moved.selected = sel
      /\ \A j \in 1..Len(hs) : j # index => moved.hosts[j] = hs[j]
      /\ moved.hosts[index] \in {h, g}
  <2>1. CASE h.ep.port = port
    BY <1>1, <1>2, <2>1 DEF ListType
  <2>2. CASE h.ep.port # port
    <3>1. moved = [hosts |-> [hs EXCEPT ![index] = g], selected |-> sel]
      <4> HIDE DEF g
      <4> QED
        BY <1>1, <2>2
    <3>2. [hs EXCEPT ![index] = g] \in Seq(Hosts) /\ Len([hs EXCEPT ![index] = g]) = Len(hs)
      <4> HIDE DEF g
      <4> QED
        BY <1>2, <1>3, ExceptSeq
    <3> HIDE DEF g, moved
    <3>3. \A j \in 1..Len(hs) :
            [hs EXCEPT ![index] = g][j] = IF j = index THEN g ELSE hs[j]
      BY <1>2, <3>2
    <3>4. /\ moved.hosts = [hs EXCEPT ![index] = g] /\ moved.selected = sel
          /\ moved \in ListType
      BY <3>1, <3>2 DEF ListType
    <3> QED
      BY <1>2, <3>2, <3>3, <3>4
  <2> QED
    BY <2>1, <2>2
<1> HIDE DEF moved, r, g, h
<1>6. Places(moved) = 1..Len(hs) /\ HasSelected(moved)
  BY <1>2, <1>5 DEF Places, HasSelected
<1>7. /\ r.list = Merged(moved, index) /\ r.place = MergedPlace(moved, index)
      /\ index \in Places(moved)
  BY <1>2, <1>4, <1>6
<1>8. /\ r.list \in ListType /\ Len(r.list.hosts) <= Len(hs) /\ r.place \in Places(r.list)
      /\ HasSelected(r.list)
  BY <1>5, <1>6, <1>7, MergedFacts
<1>9. GoodList(r.list)
  <2>1. Len(r.list.hosts) \in Nat /\ MaxHosts \in Nat
    BY <1>8, HostsOf, HostListAssumption
  <2>2. Len(r.list.hosts) <= MaxHosts
    BY <1>2, <1>8, <2>1
  <2> QED
    BY <1>8, <2>2 DEF GoodList
<1>10. ASSUME NoTwinsIn(list) PROVE NoTwinsIn(r.list)
  <2>1. \A j, k \in Places(moved) \ {index} : j # k => ~SameHost(moved.hosts[j], moved.hosts[k])
    BY <1>2, <1>5, <1>6, <1>10 DEF NoTwinsIn
  <2> QED
    BY <1>5, <1>6, <1>7, <2>1, MergedNoTwins
<1>11. ASSUME Truthful(list) PROVE Truthful(r.list)
  <2>1. Truthful(moved)
    <3>1. \A j \in 1..Len(hs) : hs[j].uid \in {NoId, Identity[hs[j].ep]}
      BY <1>2, <1>11 DEF Truthful
    <3>2. moved.hosts[index].uid \in {NoId, Identity[moved.hosts[index].ep]}
      BY <1>2, <1>3, <1>5, <3>1 DEF h
    <3> QED
      BY <1>5, <1>6, <3>1, <3>2 DEF Truthful
  <2> QED
    BY <1>5, <1>6, <1>7, <2>1, MergedTruthful
<1> QED
  BY <1>8, <1>9, <1>10, <1>11 DEF PortSet, r

\* What is left when a PC is removed.
LEMMA RemoveHostFacts ==
  ASSUME NEW list, GoodList(list), NEW index \in Places(list)
  PROVE  LET l == RemoveHostAt(list, index)
         IN  /\ GoodList(l)
             /\ NoTwinsIn(list) => NoTwinsIn(l)
             /\ Truthful(list) => Truthful(l)
<1> DEFINE l == RemoveHostAt(list, index)
           s == list.hosts
           n == Len(s)
           left == SubSeq(s, 1, index - 1) \o SubSeq(s, index + 1, n)
           old(k) == IF k < index THEN k ELSE k + 1
<1>1. /\ s \in Seq(Hosts) /\ n \in Nat /\ list.selected \in Nat /\ index \in 1..n
      /\ Places(list) = 1..n /\ n <= MaxHosts /\ MaxHosts \in Nat
      /\ list.selected \in 1..n
  <2>1. HasSelected(list)
    <3>1. Len(<<>>) = 0
      BY EmptySeq
    <3> QED
      BY <3>1 DEF GoodList, EmptyList, Places
  <2> QED
    BY <2>1, HostsOf, HostListAssumption DEF GoodList, Places, HasSelected
<1>2. /\ left \in Seq(Hosts) /\ Len(left) = n - 1
      /\ \A k \in 1..n - 1 : left[k] = s[old(k)] /\ old(k) \in 1..n
  <2>1. /\ SubSeq(s, 1, index - 1) \in Seq(Hosts) /\ Len(SubSeq(s, 1, index - 1)) = index - 1
        /\ \A k \in 1..index - 1 : SubSeq(s, 1, index - 1)[k] = s[k]
    BY <1>1, SubSeqProperties
  <2>2. /\ SubSeq(s, index + 1, n) \in Seq(Hosts) /\ Len(SubSeq(s, index + 1, n)) = n - index
        /\ \A k \in 1..n - index : SubSeq(s, index + 1, n)[k] = s[index + k]
    BY <1>1, SubSeqProperties
  <2> DEFINE p == SubSeq(s, 1, index - 1)
             q == SubSeq(s, index + 1, n)
  <2> HIDE DEF p, q, s, n
  <2>3. left \in Seq(Hosts) /\ Len(left) = n - 1
    BY <1>1, <2>1, <2>2, ConcatProperties DEF p, q
  <2>4. ASSUME NEW k \in 1..n - 1 PROVE left[k] = s[old(k)] /\ old(k) \in 1..n
    <3>1. CASE k < index
      BY <1>1, <2>1, <2>2, <3>1, ConcatProperties
    <3>2. CASE k >= index
      <4>1. left[k] = SubSeq(s, index + 1, n)[k - (index - 1)]
        BY <1>1, <2>1, <2>2, <3>2, ConcatProperties
      <4>2. k - (index - 1) \in 1..n - index /\ index + (k - (index - 1)) = k + 1
        BY <1>1, <3>2
      <4> QED
        BY <1>1, <2>2, <3>2, <4>1, <4>2
    <3> QED
      BY <1>1, <3>1, <3>2
  <2> QED
    BY <2>3, <2>4
<1>3. l = [hosts |-> left,
           selected |-> IF left = <<>> THEN 1
                        ELSE IF list.selected > index \/ list.selected > Len(left)
                        THEN list.selected - 1 ELSE list.selected]
  BY DEF RemoveHostAt
<1> HIDE DEF l, s, n, left
<1>4. l.hosts = left /\ Places(l) = 1..n - 1
  BY <1>2, <1>3 DEF Places
<1>5. GoodList(l)
  <2>1. CASE left = <<>>
    <3>1. l = EmptyList
      BY <1>3, <2>1 DEF EmptyList
    <3>2. l \in ListType
      BY <1>2, <1>3, <2>1 DEF ListType
    <3>3. Len(l.hosts) <= MaxHosts
      BY <1>1, <1>2, <1>4
    <3> QED
      BY <3>1, <3>2, <3>3 DEF GoodList
  <2>2. CASE left # <<>>
    <3>1. n - 1 # 0
      BY <1>2, <2>2, EmptySeq
    <3>2. l.selected = IF list.selected > index \/ list.selected > n - 1
                       THEN list.selected - 1 ELSE list.selected
      BY <1>2, <1>3, <2>2
    <3>3. l.selected \in 1..n - 1
      BY <1>1, <3>1, <3>2
    <3>4. l = [hosts |-> left, selected |-> l.selected]
      BY <1>3
    <3>5. l \in ListType
      <4>1. l.selected \in Nat
        BY <1>1, <3>3
      <4> QED
        BY <1>2, <3>4, <4>1 DEF ListType
    <3>6. Len(l.hosts) <= MaxHosts
      BY <1>1, <1>2, <1>4
    <3> QED
      BY <1>4, <3>3, <3>5, <3>6 DEF GoodList, HasSelected
  <2> QED
    BY <2>1, <2>2
<1>6. \A k \in Places(l) : old(k) \in Places(list) /\ l.hosts[k] = list.hosts[old(k)]
  BY <1>1, <1>2, <1>4 DEF s
<1>7. \A j, k \in Places(l) : j # k => old(j) # old(k)
  BY <1>1, <1>4
<1> HIDE DEF old
<1>8. NoTwinsIn(list) => NoTwinsIn(l)
  BY <1>6, <1>7 DEF NoTwinsIn
<1>9. Truthful(list) => Truthful(l)
  BY <1>6 DEF Truthful
<1> QED
  BY <1>5, <1>8, <1>9 DEF l

-----------------------------------------------------------------------------
(* The queues, and what an answer or a discovery makes of the list. *)

Jobs == [kind : Kinds, ep : Endpoints]
Ordered == {"discover", "refresh", "unpair", "stop"}
Orders == [kind : Ordered, ep : Endpoints]

LEMMA NowhereTyped == Nowhere \in Endpoints
<1>1. PICK addr \in Addresses : TRUE
  BY LauncherAssumption
<1>2. [addr |-> addr, port |-> DefaultPort] \in Endpoints
  BY <1>1, HostListAssumption DEF Endpoints
<1> QED
  BY <1>2 DEF Nowhere

LEMMA JobTyped ==
  ASSUME NEW kind, NEW ep \in Endpoints
  PROVE  /\ kind \in Kinds => Job(kind, ep) \in Jobs
         /\ kind \in Ordered => Job(kind, ep) \in Orders
  BY DEF Job, Jobs, Orders

LEMMA SelectedTyped ==
  ASSUME NEW list, GoodList(list), HasSelected(list)
  PROVE  SelectedHost(list) \in Hosts /\ SelectedHost(list).ep \in Endpoints
<1>1. SelectedHost(list) \in Hosts
  BY HostsOf DEF GoodList, HasSelected, SelectedHost
<1> QED
  BY <1>1 DEF Hosts

LEMMA NoBackendTyped == ASSUME NEW list, GoodList(list) PROVE NoBackend(list) \in BackendType
<1> DEFINE of == IF HasSelected(list) THEN SelectedHost(list).ep ELSE Nowhere
<1>1. of \in Endpoints
  BY SelectedTyped, NowhereTyped
<1>2. NoBackend(list) = [of |-> of, online |-> FALSE, paired |-> FALSE, apps |-> FALSE,
                         running |-> FALSE]
  BY DEF NoBackend
<1> HIDE DEF of
<1> QED
  BY <1>1, <1>2 DEF BackendType

\* The queues hold jobs for endpoints, whatever is dropped from them.
LEMMA OnlyDiscoverTyped ==
  ASSUME NEW queue \in Seq(Orders) PROVE OnlyDiscover(queue) \in Seq(Orders)
<1> DEFINE kept == {i \in 1..Len(queue) : queue[i].kind = "discover"}
<1>1. kept \subseteq 1..Len(queue)
  OBVIOUS
<1> HIDE DEF kept
<1>2. PickedWell(Orders, queue, kept)
  BY <1>1, PickedFacts
<1> QED
  BY <1>2 DEF PickedWell, OnlyDiscover, kept

LEMMA WithRefreshTyped ==
  ASSUME NEW queue \in Seq(Orders), NEW list, GoodList(list)
  PROVE  WithRefresh(queue, list) \in Seq(Orders)
<1>1. CASE ~HasSelected(list) \/ Queued(queue, "refresh")
  BY <1>1 DEF WithRefresh
<1>2. CASE ~(~HasSelected(list) \/ Queued(queue, "refresh"))
  <2> DEFINE fresh == Job("refresh", SelectedHost(list).ep)
  <2>1. fresh \in Orders
    BY <1>2, SelectedTyped, JobTyped DEF Ordered
  <2>2. WithRefresh(queue, list) = Append(queue, fresh)
    BY <1>2 DEF WithRefresh
  <2> HIDE DEF fresh
  <2> QED
    BY <2>1, <2>2, AppendProperties
<1> QED
  BY <1>1, <1>2

LEMMA SweepOfTyped ==
  ASSUME NEW list, GoodList(list) PROVE SweepOf(list) \in Seq(Endpoints)
<1> DEFINE kept == Places(list) \ {list.selected}
           others == Picked(list.hosts, kept)
<1>1. list.hosts \in Seq(Hosts) /\ kept \subseteq 1..Len(list.hosts)
  BY DEF GoodList, ListType, Places
<1> HIDE DEF kept
<1>2. PickedWell(Hosts, list.hosts, kept)
  BY <1>1, PickedFacts
<1>3. others \in Seq(Hosts) /\ Len(others) \in Nat
  BY <1>2 DEF PickedWell
<1>4. SweepOf(list) = [k \in 1..Len(others) |-> others[k].ep]
  BY DEF SweepOf, kept
<1> HIDE DEF others
<1>5. \A k \in 1..Len(others) : others[k].ep \in Endpoints
  <2>1. \A k \in 1..Len(others) : others[k] \in Hosts
    BY <1>3, ElementOfSeq
  <2> QED
    BY <2>1 DEF Hosts
<1> QED
  BY <1>3, <1>4, <1>5, IsASeq

\* What an answer or a discovery makes of the list.
Followed(list) ==
  /\ GoodList(list)
  /\ NoTwinsIn(config) => NoTwinsIn(list)
  /\ HasSelected(config) => HasSelected(list)
  /\ Truthful(config) =>
       /\ Truthful(list)
       /\ HasSelected(config) =>
            Identity[SelectedHost(list).ep] = Identity[SelectedHost(config).ep]

LEMMA LearnedFacts ==
  ASSUME GoodList(config), NEW ep \in Endpoints
  PROVE  Followed(Learned(ep))
<1> DEFINE u == UpsertHost(config, ep.addr, ep.port, Identity[ep])
           list == u.list
           before == {i \in Places(list) :
                        HasSelected(config) /\ list.hosts[i].ep = SelectedHost(config).ep}
           last == CHOOSE i \in before : \A j \in before : j <= i
<1>1. /\ ep.addr \in Addresses /\ ep.port \in Ports \cup {0} /\ ep.port # 0
      /\ ep = [addr |-> ep.addr, port |-> ep.port]
      /\ Identity[ep] \in Ids \cup {NoId}
  BY HostListAssumption, LauncherAssumption DEF Endpoints
<1>2. Upserted(config, ep.addr, ep.port, Identity[ep])
  BY <1>1, UpsertFacts
<1>3. /\ GoodList(list)
      /\ u.place = 0 => list = config
      /\ u.place # 0 => u.place \in Places(list) /\ list.hosts[u.place].ep = ep
      /\ NoTwinsIn(config) => NoTwinsIn(list)
      /\ HasSelected(config) => HasSelected(list)
      /\ Truthful(config) =>
           /\ Truthful(list)
           /\ HasSelected(config) =>
                Identity[SelectedHost(list).ep] = Identity[SelectedHost(config).ep]
  BY <1>1, <1>2 DEF Upserted, ToldTruly
<1>4. Learned(ep) =
        IF u.place = 0 THEN config
        ELSE IF IsSelected(config, ep) THEN [list EXCEPT !.selected = u.place]
        ELSE IF before # {} THEN [list EXCEPT !.selected = last]
        ELSE list
  BY DEF Learned
<1>5. CASE u.place = 0
  BY <1>4, <1>5 DEF Followed
<1>6. CASE u.place # 0 /\ IsSelected(config, ep)
  <2> HIDE DEF u, before, last
  <2>1. Learned(ep) = [list EXCEPT !.selected = u.place]
    BY <1>4, <1>6
  <2> HIDE DEF list
  <2>2. /\ GoodList(Learned(ep)) /\ HasSelected(Learned(ep))
        /\ SelectedHost(Learned(ep)) = list.hosts[u.place]
        /\ NoTwinsIn(list) => NoTwinsIn(Learned(ep))
        /\ Truthful(list) => Truthful(Learned(ep))
    BY <1>3, <1>6, <2>1, Reselected
  <2>3. SelectedHost(config).ep = ep
    BY <1>6 DEF IsSelected
  <2>4. SelectedHost(Learned(ep)).ep = ep
    BY <1>3, <1>6, <2>2
  <2> QED
    BY <1>3, <2>2, <2>3, <2>4 DEF Followed
<1>7. CASE u.place # 0 /\ ~IsSelected(config, ep) /\ before # {}
  <2>1. Len(list.hosts) \in Nat /\ before \subseteq 1..Len(list.hosts)
    BY <1>3, HostsOf DEF GoodList, Places
  <2>a. \A i \in before : i \in Places(list) /\ HasSelected(config)
                          /\ list.hosts[i].ep = SelectedHost(config).ep
    OBVIOUS
  <2>b. Learned(ep) = [list EXCEPT !.selected = last]
    BY <1>4, <1>7
  <2> HIDE DEF u, list, before
  <2>2. \E i \in before : \A j \in before : j <= i
    BY <1>7, <2>1, GreatestElement
  <2>3. last \in before
    BY <2>2
  <2> HIDE DEF last
  <2>4. /\ GoodList(Learned(ep)) /\ HasSelected(Learned(ep))
        /\ SelectedHost(Learned(ep)) = list.hosts[last]
        /\ NoTwinsIn(list) => NoTwinsIn(Learned(ep))
        /\ Truthful(list) => Truthful(Learned(ep))
    BY <1>3, <2>a, <2>b, <2>3, Reselected
  <2>5. SelectedHost(Learned(ep)).ep = SelectedHost(config).ep
    BY <2>a, <2>3, <2>4
  <2> QED
    BY <1>3, <2>4, <2>5 DEF Followed
<1>8. CASE u.place # 0 /\ ~IsSelected(config, ep) /\ before = {}
  <2>1. Learned(ep) = list
    BY <1>4, <1>8
  <2> HIDE DEF u, list, before
  <2> QED
    BY <1>3, <2>1 DEF Followed
<1> QED
  BY <1>5, <1>6, <1>7, <1>8

\* The PCs of a discovery enter one after the other: after every one of them the
\* list is as good as it was.
LEMMA DiscoveredFacts ==
  ASSUME GoodList(config), NEW found \in Found
  PROVE  Followed(AfterDiscovery(found))
<1> DEFINE N == Len(found)
           With(list, n) == UpsertHost(list, found[n].addr, found[n].port, NoId).list
           Enters(m, e) == e = [n \in 0..m |-> IF n = 0 THEN config ELSE With(e[n - 1], n)]
           Bad == {m \in 0..N : ~\E e : Enters(m, e)}
<1>1. N \in Nat /\ \A n \in 1..N : found[n] \in Endpoints
  <2>1. PICK k \in 0..MaxFound : found \in [1..k -> Endpoints]
    BY DEF Found
  <2>2. k \in Nat
    BY <2>1, LauncherAssumption
  <2>3. found \in Seq(Endpoints)
    BY <2>1, <2>2, IsASeq
  <2> QED
    BY <2>3, LenProperties, ElementOfSeq
<1>2. ASSUME NEW list, Followed(list), NEW n \in 1..N PROVE Followed(With(list, n))
  <2> DEFINE ep == found[n]
  <2>1. /\ ep.addr \in Addresses /\ ep.port \in Ports \cup {0}
    BY <1>1 DEF Endpoints
  <2>2. GoodList(list)
    BY <1>2 DEF Followed
  <2> HIDE DEF ep
  <2>3. Upserted(list, ep.addr, ep.port, NoId)
    BY <2>1, <2>2, UpsertFacts
  <2>4. With(list, n) = UpsertHost(list, ep.addr, ep.port, NoId).list
    BY DEF ep
  <2> HIDE DEF With
  <2> QED
    BY <1>2, <2>3, <2>4 DEF Followed, Upserted, ToldTruly
<1>3. Followed(config)
  BY DEF Followed
<1> HIDE DEF With, N
<1>4. Bad = {}
  <2>1. SUFFICES ASSUME Bad # {} PROVE FALSE
    OBVIOUS
  <2>2. PICK m \in Bad : \A y \in Bad : m <= y
    <3>1. Bad \subseteq Nat
      BY <1>1
    <3> HIDE DEF Bad
    <3> QED
      BY <2>1, <3>1, LeastElement
  <2>3. CASE m = 0
    <3> DEFINE g == [n \in 0..0 |-> config]
    <3>1. Enters(0, g)
      OBVIOUS
    <3> HIDE DEF g, Enters
    <3> QED
      BY <2>3, <3>1
  <2>4. CASE m # 0
    <3>1. m \in 0..N /\ m - 1 \in 0..N /\ m \in 1..N /\ m - 1 \notin Bad
      <4>1. m \in 0..N /\ m - 1 \in 0..N /\ m \in 1..N /\ ~(m <= m - 1)
        BY <1>1, <2>4
      <4> QED
        BY <2>2, <4>1
    <3>2. PICK e : Enters(m - 1, e)
      BY <3>1
    <3>a. 0..m - 1 = (0..m) \ {m} /\ m - 1 \in 0..m - 1
      BY <1>1, <3>1
    <3> DEFINE g == [n \in 0..m |-> IF n = m THEN With(e[m - 1], m) ELSE e[n]]
    <3>3. ASSUME NEW n \in 0..m PROVE g[n] = IF n = 0 THEN config ELSE With(g[n - 1], n)
      <4>1. CASE n = m
        <5>1. g[n] = With(e[m - 1], m) /\ g[n - 1] = e[m - 1]
          BY <1>1, <2>4, <3>1, <4>1
        <5> QED
          BY <5>1, <4>1, <2>4
      <4>2. CASE n # m
        <5>1. n \in 0..m - 1
          BY <3>a, <4>2
        <5>2. e[n] = IF n = 0 THEN config ELSE With(e[n - 1], n)
          BY <3>2, <5>1
        <5>3. g[n] = e[n]
          BY <4>2
        <5>4. n # 0 => g[n - 1] = e[n - 1]
          BY <1>1, <3>1, <4>2, <5>1
        <5> QED
          BY <5>2, <5>3, <5>4
      <4> QED
        BY <4>1, <4>2
    <3>4. Enters(m, g)
      BY <3>3
    <3> HIDE DEF g, Enters
    <3> QED
      BY <3>1, <3>4
  <2> QED
    BY <2>3, <2>4
<1>5. \E e : Enters(N, e)
  <2>1. N \in 0..N
    BY <1>1
  <2> QED
    BY <1>4, <2>1
<1> DEFINE entered[n \in 0..N] == IF n = 0 THEN config ELSE With(entered[n - 1], n)
           Worse == {n \in 0..N : ~Followed(entered[n])}
<1>6. Enters(N, entered)
  BY <1>5
<1>7. \A n \in 0..N : entered[n] = IF n = 0 THEN config ELSE With(entered[n - 1], n)
  BY <1>6
<1>8. AfterDiscovery(found) = entered[N]
  BY DEF AfterDiscovery, With, N
<1> HIDE DEF entered
<1>9. Worse = {}
  <2>1. SUFFICES ASSUME Worse # {} PROVE FALSE
    OBVIOUS
  <2>2. PICK m \in Worse : \A y \in Worse : m <= y
    <3>1. Worse \subseteq Nat
      BY <1>1
    <3> HIDE DEF Worse
    <3> QED
      BY <2>1, <3>1, LeastElement
  <2>3. m # 0
    BY <1>3, <1>7
  <2>4. m \in 1..N /\ m - 1 \in 0..N /\ ~(m <= m - 1)
    BY <1>1, <2>3
  <2>5. Followed(entered[m - 1])
    BY <2>2, <2>4
  <2>6. entered[m] = With(entered[m - 1], m)
    BY <1>7, <2>3
  <2> QED
    BY <1>2, <2>4, <2>5, <2>6
<1>10. N \in 0..N
  BY <1>1
<1> QED
  BY <1>8, <1>9, <1>10

-----------------------------------------------------------------------------
(* Types, and the lists and the selected PC after an answer. *)

PairingType ==
  [state : {"idle", "preparing", "waiting", "succeeded", "failed"}, ep : Endpoints,
   result : {"none", "io", "refused", "ok"}, said : Snapshots]

ConfigType ==
  GoodList(config) /\ GoodList(saved) /\ savePending \in BOOLEAN /\ saveRefused \in BOOLEAN
SelectedType ==
  /\ backend \in BackendType /\ failures \in 0..FailureThreshold
  /\ valid \in BOOLEAN /\ due \in BOOLEAN /\ art \in BOOLEAN
QueueType == requests \in Seq(Orders) /\ sweeps \in Seq(Endpoints)
WorkerType == worker \in {"none", "running", "done", "inline"} /\ job \in Jobs
PairType == pairRequested \in BOOLEAN /\ pairActive \in BOOLEAN /\ pairing \in PairingType
MainType ==
  launching \in BOOLEAN /\ pc \in {"closed", "idle", "pair", "start", "inline", "closing"}

TypeInv == ConfigType /\ SelectedType /\ QueueType /\ WorkerType /\ PairType /\ MainType

LEMMA TypeInvOK == TypeInv => TypeOK
<1> SUFFICES ASSUME TypeInv PROVE TypeOK
  OBVIOUS
<1>1. requests \in Seq(Jobs)
  <2>1. requests \in Seq(Orders)
    BY DEF TypeInv, QueueType
  <2>2. Orders \subseteq Jobs
    BY DEF Orders, Ordered, Jobs, Kinds
  <2>3. /\ requests = [i \in 1..Len(requests) |-> requests[i]] /\ Len(requests) \in Nat
        /\ \A i \in 1..Len(requests) : requests[i] \in Orders
    BY <2>1, LenProperties, ElementOfSeq
  <2> QED
    BY <2>2, <2>3, IsASeq
<1>2. pairing.state \in {"idle", "preparing", "waiting", "succeeded", "failed"}
      /\ pairing.said \in Snapshots
  BY DEF TypeInv, PairType, PairingType
<1> QED
  BY <1>1, <1>2 DEF TypeInv, ConfigType, SelectedType, QueueType, WorkerType, PairType,
                          MainType, Jobs, TypeOK

\* A list the program may have next: good, and without twins, or truthful, if the
\* lists it has are.
Sound(list) ==
  /\ GoodList(list)
  /\ NoTwinsIn(config) /\ NoTwinsIn(saved) => NoTwinsIn(list)
  /\ Truthful(config) /\ Truthful(saved) => Truthful(list)

ConfigNext ==
  Sound(config') /\ Sound(saved') /\ savePending' \in BOOLEAN /\ saveRefused' \in BOOLEAN

LEMMA SameConfig ==
  ASSUME ConfigType, UNCHANGED configVars PROVE ConfigNext
  BY DEF ConfigType, ConfigNext, configVars, Sound

LEMMA SaveConfig ==
  ASSUME ConfigType, NEW list, Sound(list), config' = list, Save(list) PROVE ConfigNext
  BY DEF ConfigType, ConfigNext, Save, Sound

LEMMA SaveIfConfig ==
  ASSUME ConfigType, NEW list, Sound(list), config' = list, SaveIfChanged(list) PROVE ConfigNext
  BY SaveConfig DEF ConfigType, ConfigNext, SaveIfChanged, Sound

LEMMA FollowedSound == ASSUME NEW list, Followed(list) PROVE Sound(list)
  BY DEF Followed, Sound

LEMMA ResetTyped ==
  ASSUME NEW list, GoodList(list), ResetSelected(list) PROVE SelectedType'
<1>1. NoBackend(list) \in BackendType
  BY NoBackendTyped
<1>2. 0 \in 0..FailureThreshold
  BY LauncherAssumption
<1> QED
  BY <1>1, <1>2 DEF ResetSelected, SelectedType

LEMMA RecordedTyped ==
  ASSUME failures \in 0..FailureThreshold, NEW success \in BOOLEAN
  PROVE  /\ Recorded(success) \in 0..FailureThreshold
         /\ ~success => Recorded(success) > 0
<1>1. FailureThreshold \in Nat \ {0}
  BY LauncherAssumption
<1>2. CASE success
  <2>1. Recorded(success) = 0
    BY <1>2 DEF Recorded
  <2>2. 0 \in 0..FailureThreshold
    BY <1>1
  <2> QED
    BY <1>2, <2>1, <2>2, Zenon
<1>3. CASE ~success
  <2>1. Recorded(success) = IF failures < FailureThreshold THEN failures + 1 ELSE failures
    BY <1>3 DEF Recorded
  <2> QED
    BY <1>1, <1>3, <2>1
<1> QED
  BY <1>2, <1>3

LEMMA AnswersTyped ==
  /\ RefreshAnswers \subseteq Snapshots
  /\ \A kind : Answers(kind) \subseteq Snapshots
<1>1. RefreshAnswers \subseteq Snapshots
  BY LauncherAssumption DEF RefreshAnswers, Snapshots
<1>2. \A s \in Snapshots : [s EXCEPT !.ok = FALSE] \in Snapshots
  BY DEF Snapshots
<1>3. ActionAnswers \subseteq Snapshots
  BY <1>1, <1>2 DEF ActionAnswers
<1> QED
  BY <1>1, <1>3 DEF Answers

LEMMA BackendTyped ==
  ASSUME NEW s \in Snapshots, NEW ep \in Endpoints
  PROVE  /\ BackendOf(s, ep) \in BackendType
         /\ BackendOf(s, ep).of = ep /\ BackendOf(s, ep).online = s.online
<1>1. /\ s.online \in BOOLEAN /\ s.paired \in BOOLEAN /\ s.apps \in BOOLEAN
      /\ s.running \in BOOLEAN
  BY DEF Snapshots
<1> QED
  BY <1>1 DEF BackendOf, BackendType

\* What Apply may be.
LEMMA ApplyForms ==
  ASSUME Apply
  PROVE  \/ ApplyDiscovery
         \/ \E s \in RefreshAnswers : ApplySweep(s, job.ep)
         \/ /\ IsSelected(config, job.ep)
            /\ \E s \in Answers(job.kind) : ApplySelected(job.kind, s, job.ep)
         \/ UNCHANGED <<configVars, selectedVars, queueVars>>
  BY DEF Apply

-----------------------------------------------------------------------------
\* What is shown of the selected PC.
Lit == backend.online \/ backend.paired \/ backend.apps \/ backend.running

Shown ==
  /\ Lit => HasSelected(config) /\ Identity[backend.of] = Identity[SelectedHost(config).ep]
  /\ valid /\ ~backend.online => failures > 0

LEMMA ResetShown == ASSUME NEW list, ResetSelected(list) PROVE Shown'
<1>1. /\ NoBackend(list).online = FALSE /\ NoBackend(list).paired = FALSE
      /\ NoBackend(list).apps = FALSE /\ NoBackend(list).running = FALSE
  BY DEF NoBackend
<1> QED
  BY <1>1 DEF ResetSelected, Shown, Lit

\* Nothing of the selected PC changes, and the list still has it.
LEMMA SameShown ==
  ASSUME Shown, UNCHANGED <<backend, valid, failures>>,
         HasSelected(config) => HasSelected(config')
           /\ Identity[SelectedHost(config').ep] = Identity[SelectedHost(config).ep]
  PROVE  Shown'
  BY DEF Shown, Lit

\* The selection after an answer or a discovery.
SelectionKept ==
  HasSelected(config) =>
    /\ HasSelected(config')
    /\ Identity[SelectedHost(config').ep] = Identity[SelectedHost(config).ep]

ApplyGood ==
  /\ ConfigNext /\ SelectedType' /\ QueueType'
  /\ Truthful(config) => SelectionKept /\ (Shown => Shown')

LEMMA ApplySelectedGood ==
  ASSUME TypeInv, IsSelected(config, job.ep), NEW s \in Answers(job.kind),
         ApplySelected(job.kind, s, job.ep)
  PROVE  ApplyGood
<1> DEFINE ep == job.ep
           success == s.ok /\ s.online
           told == success \/ (job.kind # "health" /\ s.apps)
<1>1. /\ s \in Snapshots /\ ep \in Endpoints
      /\ success \in BOOLEAN /\ s.online \in BOOLEAN
  BY AnswersTyped DEF TypeInv, WorkerType, Jobs, Snapshots
<1>2. /\ failures' = Recorded(success) /\ due' = FALSE /\ valid' = TRUE /\ art' = art
      /\ backend' = IF told THEN BackendOf(s, ep) ELSE [backend EXCEPT !.online = FALSE]
      /\ config' = IF told THEN Learned(ep) ELSE config
      /\ SaveIfChanged(config')
      /\ UNCHANGED <<requests, sweeps>>
  BY DEF ApplySelected, queueVars
<1> HIDE DEF told, success, ep
<1>3. Followed(config')
  <2>1. Followed(Learned(ep))
    BY <1>1, LearnedFacts DEF TypeInv, ConfigType
  <2>2. Followed(config)
    BY DEF TypeInv, ConfigType, Followed
  <2> QED
    BY <1>2, <2>1, <2>2
<1>4. ConfigNext
  BY <1>2, <1>3, FollowedSound, SaveIfConfig DEF TypeInv
<1>5. /\ failures' \in 0..FailureThreshold /\ (~success => failures' > 0)
  BY <1>1, <1>2, RecordedTyped DEF TypeInv, SelectedType
<1>6. /\ BackendOf(s, ep) \in BackendType
      /\ BackendOf(s, ep).of = ep /\ BackendOf(s, ep).online = s.online
  BY <1>1, BackendTyped
<1>7. PICK of \in Endpoints, online \in BOOLEAN, paired \in BOOLEAN, apps \in BOOLEAN,
           running \in BOOLEAN :
        backend = [of |-> of, online |-> online, paired |-> paired, apps |-> apps,
                   running |-> running]
  BY DEF TypeInv, SelectedType, BackendType
<1>8. ~told => backend' = [of |-> of, online |-> FALSE, paired |-> paired, apps |-> apps,
                           running |-> running]
  BY <1>2, <1>7
<1>9. SelectedType'
  <2>1. backend' \in BackendType
    <3>1. CASE told
      BY <1>2, <1>6, <3>1
    <3>2. CASE ~told
      <4>1. [of |-> of, online |-> FALSE, paired |-> paired, apps |-> apps, running |-> running]
              \in BackendType
        BY <1>7 DEF BackendType
      <4> QED
        BY <1>8, <3>2, <4>1, Zenon
    <3> QED
      BY <3>1, <3>2
  <2> QED
    BY <1>2, <1>5, <2>1 DEF TypeInv, SelectedType
<1>10. QueueType'
  BY <1>2 DEF TypeInv, QueueType
<1>11. ASSUME Truthful(config) PROVE SelectionKept /\ (Shown => Shown')
  <2>1. SelectionKept
    BY <1>3, <1>11 DEF Followed, SelectionKept
  <2>2. HasSelected(config) /\ SelectedHost(config).ep = ep
    BY DEF IsSelected, ep
  <2>3. ASSUME Shown PROVE Shown'
    <3>1. CASE told
      <4>1. backend'.of = ep /\ backend'.online = s.online
        BY <1>2, <1>6, <3>1
      <4>2. success => s.online
        BY DEF success
      <4> QED
        BY <1>5, <2>1, <2>2, <4>1, <4>2 DEF Shown, SelectionKept
    <3>2. CASE ~told
      <4>1. /\ backend'.of = backend.of /\ backend'.online = FALSE
            /\ backend'.paired = backend.paired /\ backend'.apps = backend.apps
            /\ backend'.running = backend.running
        BY <1>7, <1>8, <3>2
      <4>2. ~success
        BY <3>2 DEF told
      <4>3. Lit' => Lit
        BY <4>1 DEF Lit
      <4>4. config' = config
        BY <1>2, <3>2
      <4> QED
        BY <1>5, <2>3, <4>1, <4>2, <4>3, <4>4 DEF Shown
    <3> QED
      BY <3>1, <3>2
  <2> QED
    BY <2>1, <2>3
<1> QED
  BY <1>4, <1>9, <1>10, <1>11 DEF ApplyGood

LEMMA ApplySweepGood ==
  ASSUME TypeInv, NEW s \in RefreshAnswers, ApplySweep(s, job.ep)
  PROVE  ApplyGood
<1>1. job.ep \in Endpoints /\ GoodList(config)
  BY DEF TypeInv, WorkerType, Jobs, ConfigType
<1>2. Followed(Learned(job.ep)) /\ Followed(config)
  BY <1>1, LearnedFacts DEF Followed
<1>3. Followed(config')
  BY <1>2 DEF ApplySweep
<1>4. ConfigNext
  BY <1>3, FollowedSound, SaveIfConfig DEF TypeInv, ApplySweep
<1>5. UNCHANGED <<backend, valid, failures, due, art, requests, sweeps>>
  BY DEF ApplySweep, selectedVars, queueVars
<1>6. SelectedType' /\ QueueType'
  BY <1>5 DEF TypeInv, SelectedType, QueueType
<1>7. ASSUME Truthful(config) PROVE SelectionKept /\ (Shown => Shown')
  <2>1. SelectionKept
    BY <1>3, <1>7 DEF Followed, SelectionKept
  <2> QED
    BY <1>5, <2>1, SameShown DEF SelectionKept
<1> QED
  BY <1>4, <1>6, <1>7 DEF ApplyGood

LEMMA ApplyDiscoveryGood ==
  ASSUME TypeInv, ApplyDiscovery
  PROVE  ApplyGood
<1>1. PICK found \in Found :
        /\ config' = AfterDiscovery(found)
        /\ SaveIfChanged(config')
        /\ IF ~HasSelected(config) /\ HasSelected(config')
           THEN ResetSelected(config')
           ELSE UNCHANGED selectedVars
        /\ requests' = WithRefresh(requests, config')
        /\ sweeps' = SweepOf(config')
  BY DEF ApplyDiscovery
<1>2. Followed(config')
  BY <1>1, DiscoveredFacts DEF TypeInv, ConfigType
<1>3. ConfigNext
  BY <1>1, <1>2, FollowedSound, SaveIfConfig DEF TypeInv
<1>4. GoodList(config')
  BY <1>2 DEF Followed
<1>5. SelectedType'
  <2>1. CASE ResetSelected(config')
    BY <1>4, <2>1, ResetTyped
  <2>2. CASE UNCHANGED selectedVars
    BY <2>2 DEF TypeInv, SelectedType, selectedVars
  <2> QED
    BY <1>1, <2>1, <2>2
<1>6. QueueType'
  BY <1>1, <1>4, WithRefreshTyped, SweepOfTyped DEF TypeInv, QueueType
<1>7. ASSUME Truthful(config) PROVE SelectionKept /\ (Shown => Shown')
  <2>1. SelectionKept
    BY <1>2, <1>7 DEF Followed, SelectionKept
  <2>2. CASE ResetSelected(config')
    BY <2>1, <2>2, ResetShown
  <2>3. CASE UNCHANGED selectedVars
    BY <2>1, <2>3, SameShown DEF SelectionKept, selectedVars
  <2> QED
    BY <1>1, <2>2, <2>3
<1> QED
  BY <1>3, <1>5, <1>6, <1>7 DEF ApplyGood

LEMMA ApplySame ==
  ASSUME TypeInv, UNCHANGED <<configVars, selectedVars, queueVars>>
  PROVE  ApplyGood
<1>1. ConfigNext
  BY SameConfig DEF TypeInv
<1>2. SelectedType' /\ QueueType'
  BY DEF TypeInv, SelectedType, QueueType, selectedVars, queueVars
<1>3. SelectionKept
  BY DEF SelectionKept, configVars
<1>4. Shown => Shown'
  BY <1>3, SameShown DEF SelectionKept, selectedVars
<1> QED
  BY <1>1, <1>2, <1>3, <1>4 DEF ApplyGood

LEMMA ApplyIsGood == ASSUME TypeInv, Apply PROVE ApplyGood
  BY ApplyForms, ApplySelectedGood, ApplySweepGood, ApplyDiscoveryGood, ApplySame

-----------------------------------------------------------------------------
(* The actions, one by one. *)

\* What every step must show.
RestType == SelectedType /\ QueueType /\ WorkerType /\ PairType /\ MainType
StepGood == ConfigNext /\ RestType' /\ (Truthful(config) /\ Shown => Shown')

\* The player's order makes `list` the list.
LEMMA ReselectGood ==
  ASSUME TypeInv, NEW list, GoodList(list), Reselect(list)
  PROVE  config' = list /\ RestType' /\ Shown'
<1>1. /\ config' = list
      /\ requests' = WithRefresh(OnlyDiscover(requests), list)
      /\ ResetSelected(list)
      /\ UNCHANGED <<sweeps, workerVars, pairingVars, launching, pc>>
  BY DEF Reselect
<1>2. SelectedType' /\ Shown'
  BY <1>1, ResetTyped, ResetShown
<1>3. QueueType'
  BY <1>1, OnlyDiscoverTyped, WithRefreshTyped DEF TypeInv, QueueType
<1>4. WorkerType' /\ PairType' /\ MainType'
  BY <1>1 DEF TypeInv, WorkerType, PairType, MainType, workerVars, pairingVars
<1> QED
  BY <1>1, <1>2, <1>3, <1>4 DEF RestType

LEMMA SoundReselected ==
  ASSUME NEW list, Sound(list), NEW p \in Places(list)
  PROVE  Sound([list EXCEPT !.selected = p])
<1> DEFINE l == [list EXCEPT !.selected = p]
<1>1. /\ GoodList(l)
      /\ NoTwinsIn(list) => NoTwinsIn(l)
      /\ Truthful(list) => Truthful(l)
  BY Reselected DEF Sound
<1> HIDE DEF l
<1>2. Sound(l)
  BY <1>1 DEF Sound
<1> QED
  BY <1>2 DEF l

LEMMA SoundConfig == TypeInv => Sound(config) /\ Sound(saved)
  BY DEF TypeInv, ConfigType, Sound

LEMMA SelectHostGood == ASSUME TypeInv, SelectHost PROVE StepGood
<1>1. PICK i \in Places(config) \ {config.selected} : Reselect([config EXCEPT !.selected = i])
  BY DEF SelectHost
<1> DEFINE list == [config EXCEPT !.selected = i]
<1>2. Sound(list)
  BY SoundConfig, SoundReselected
<1>3. Reselect(list)
  BY <1>1
<1> HIDE DEF list
<1>4. config' = list /\ RestType' /\ Shown'
  BY <1>2, <1>3, ReselectGood DEF Sound
<1>5. savePending' \in BOOLEAN /\ saved' = saved /\ saveRefused' = saveRefused
  BY DEF SelectHost
<1>6. ConfigNext
  BY <1>2, <1>4, <1>5, SoundConfig DEF ConfigNext, TypeInv, ConfigType
<1> QED
  BY <1>4, <1>6 DEF StepGood

LEMMA UnchangedGood ==
  ASSUME TypeInv, UNCHANGED configVars, RestType', UNCHANGED <<backend, valid, failures>>
  PROVE  StepGood
<1>1. ConfigNext
  BY SameConfig DEF TypeInv
<1>2. Shown => Shown'
  BY SameShown DEF configVars
<1> QED
  BY <1>1, <1>2 DEF StepGood

LEMMA RemoveHostGood == ASSUME TypeInv, RemoveHost PROVE StepGood
<1> DEFINE left == RemoveHostAt(config, config.selected)
<1>1. config.selected \in Places(config) /\ GoodList(config)
  BY DEF RemoveHost, HasSelected, TypeInv, ConfigType
<1>2. Sound(left)
  BY <1>1, RemoveHostFacts DEF Sound
<1>3. \/ /\ saved' = left /\ savePending' = FALSE /\ saveRefused' = FALSE
         /\ Reselect(left)
      \/ /\ saveRefused' = TRUE
         /\ UNCHANGED <<config, saved, savePending, selectedVars, queueVars, workerVars,
                        pairingVars, launching, pc>>
  BY DEF RemoveHost
<1> HIDE DEF left
<1>4. CASE /\ saved' = left /\ savePending' = FALSE /\ saveRefused' = FALSE
           /\ Reselect(left)
  <2>1. config' = left /\ RestType' /\ Shown'
    BY <1>2, <1>4, ReselectGood DEF Sound
  <2> QED
    BY <1>2, <1>4, <2>1 DEF StepGood, ConfigNext
<1>5. CASE /\ saveRefused' = TRUE
           /\ UNCHANGED <<config, saved, savePending, selectedVars, queueVars, workerVars,
                          pairingVars, launching, pc>>
  <2>1. RestType'
    BY <1>5 DEF TypeInv, RestType, SelectedType, QueueType, WorkerType, PairType, MainType,
                selectedVars, queueVars, workerVars, pairingVars
  <2>2. ConfigNext
    BY <1>5, SoundConfig DEF ConfigNext, TypeInv, ConfigType
  <2>3. Shown => Shown'
    BY <1>5, SameShown DEF selectedVars
  <2> QED
    BY <2>1, <2>2, <2>3 DEF StepGood
<1> QED
  BY <1>3, <1>4, <1>5

LEMMA AddHostGood == ASSUME TypeInv, AddHost PROVE StepGood
<1>1. PICK addr \in Addresses, port \in Ports \cup {0} :
        LET entered == UpsertHost(config, addr, port, NoId)
            list == [entered.list EXCEPT !.selected = entered.place]
        IN  entered.place # 0 /\ Save(list) /\ Reselect(list)
  BY DEF AddHost
<1> DEFINE entered == UpsertHost(config, addr, port, NoId)
           list == [entered.list EXCEPT !.selected = entered.place]
<1>2. Upserted(config, addr, port, NoId)
  BY UpsertFacts DEF TypeInv, ConfigType
<1>3. entered.place # 0 /\ Save(list) /\ Reselect(list)
  BY <1>1
<1>4. entered.place \in Places(entered.list) /\ Sound(entered.list)
  BY <1>2, <1>3 DEF Upserted, Sound, ToldTruly
<1> HIDE DEF entered
<1>5. Sound(list)
  BY <1>4, SoundReselected
<1> HIDE DEF list
<1>6. config' = list /\ RestType' /\ Shown'
  BY <1>3, <1>5, ReselectGood DEF Sound
<1>7. ConfigNext
  BY <1>3, <1>5, <1>6, SaveConfig DEF TypeInv
<1> QED
  BY <1>6, <1>7 DEF StepGood

LEMMA SetPortGood == ASSUME TypeInv, SetPort PROVE StepGood
<1>1. PICK port \in Ports :
        LET moved == SetHostPort(config, config.selected, port)
            list == [moved.list EXCEPT !.selected = moved.place]
        IN  Save(list) /\ Reselect(list)
  BY DEF SetPort
<1> DEFINE moved == SetHostPort(config, config.selected, port)
           list == [moved.list EXCEPT !.selected = moved.place]
<1>2. PortSet(config, config.selected, port)
  <2>1. HasSelected(config) /\ config.selected \in Places(config) /\ GoodList(config)
    BY DEF SetPort, HasSelected, TypeInv, ConfigType
  <2> QED
    BY <2>1, SetHostPortFacts
<1>3. Save(list) /\ Reselect(list)
  BY <1>1
<1>4. moved.place \in Places(moved.list) /\ Sound(moved.list)
  BY <1>2 DEF PortSet, Sound
<1> HIDE DEF moved
<1>5. Sound(list)
  BY <1>4, SoundReselected
<1> HIDE DEF list
<1>6. config' = list /\ RestType' /\ Shown'
  BY <1>3, <1>5, ReselectGood DEF Sound
<1>7. ConfigNext
  BY <1>3, <1>5, <1>6, SaveConfig DEF TypeInv
<1> QED
  BY <1>6, <1>7 DEF StepGood

LEMMA AskGood ==
  ASSUME TypeInv, NEW queue \in Seq(Orders), Ask(queue) PROVE StepGood
<1>1. /\ requests' = queue
      /\ UNCHANGED <<configVars, selectedVars, sweeps, workerVars, pairingVars, launching, pc>>
  BY DEF Ask
<1>2. RestType'
  BY <1>1 DEF TypeInv, RestType, SelectedType, QueueType, WorkerType, PairType, MainType,
              selectedVars, workerVars, pairingVars
<1> QED
  BY <1>1, <1>2, UnchangedGood DEF selectedVars

LEMMA AppendedJob ==
  ASSUME TypeInv, NEW kind \in Ordered, NEW ep \in Endpoints
  PROVE  Append(requests, Job(kind, ep)) \in Seq(Orders)
  BY JobTyped, AppendProperties DEF TypeInv, QueueType

LEMMA QueueOrdersGood ==
  ASSUME TypeInv, Refresh \/ Discover \/ Unpair \/ StopApp PROVE StepGood
<1>0. requests \in Seq(Orders) /\ GoodList(config)
  BY DEF TypeInv, QueueType, ConfigType
<1>1. CASE Refresh
  BY <1>0, <1>1, WithRefreshTyped, AskGood DEF Refresh
<1>2. CASE Discover
  <2>1. "discover" \in Ordered
    BY DEF Ordered
  <2> QED
    BY <1>2, <2>1, NowhereTyped, AppendedJob, AskGood DEF Discover
<1>3. CASE Unpair
  <2>1. "unpair" \in Ordered /\ SelectedHost(config).ep \in Endpoints
    BY <1>0, <1>3, SelectedTyped DEF Ordered, Unpair
  <2> QED
    BY <1>3, <2>1, AppendedJob, AskGood DEF Unpair
<1>4. CASE StopApp
  <2>1. "stop" \in Ordered /\ SelectedHost(config).ep \in Endpoints
    BY <1>0, <1>4, SelectedTyped DEF Ordered, StopApp
  <2> QED
    BY <1>4, <2>1, AppendedJob, AskGood DEF StopApp
<1> QED
  BY <1>1, <1>2, <1>3, <1>4

LEMMA OtherOrdersGood ==
  ASSUME TypeInv, StartPairing \/ RequestArtwork \/ RequestStream \/ TimePasses PROVE StepGood
<1>1. UNCHANGED <<configVars, backend, valid, failures, queueVars, workerVars, pairActive, pairing,
                  pc>>
  BY DEF StartPairing, RequestArtwork, RequestStream, TimePasses, selectedVars, pairingVars
<1>2. /\ pairRequested' \in {pairRequested, TRUE} /\ art' \in {art, TRUE}
      /\ due' \in {due, TRUE} /\ launching' \in {launching, TRUE}
  BY DEF StartPairing, RequestArtwork, RequestStream, TimePasses, selectedVars, pairingVars
<1>3. SelectedType'
  BY <1>1, <1>2 DEF TypeInv, SelectedType
<1>4. QueueType' /\ WorkerType'
  BY <1>1 DEF TypeInv, QueueType, WorkerType, queueVars, workerVars
<1>5. PairType' /\ MainType'
  BY <1>1, <1>2 DEF TypeInv, PairType, MainType
<1> QED
  BY <1>1, <1>3, <1>4, <1>5, UnchangedGood DEF RestType

LEMMA OrderGood == ASSUME TypeInv, Order PROVE StepGood
  BY SelectHostGood, RemoveHostGood, AddHostGood, SetPortGood, QueueOrdersGood, OtherOrdersGood
     DEF Order

-----------------------------------------------------------------------------
LEMMA NoJobTyped == NoJob \in Jobs
  BY NowhereTyped, JobTyped DEF NoJob, Kinds

\* An answer is taken by a poll, or by the step that ran the job itself.
LEMMA AnswerGood ==
  ASSUME TypeInv, Apply \/ UNCHANGED <<configVars, selectedVars, queueVars>>,
         worker' \in {"none", worker}, job' \in {job, NoJob}, pc' \in {"pair", "idle"},
         UNCHANGED <<pairingVars, launching>>
  PROVE  StepGood
<1>1. ApplyGood
  BY ApplyIsGood, ApplySame
<1>2. WorkerType' /\ PairType' /\ MainType'
  BY NoJobTyped DEF TypeInv, WorkerType, PairType, MainType, pairingVars
<1> QED
  BY <1>1, <1>2 DEF ApplyGood, StepGood, RestType

LEMMA NoPairingTyped ==
  /\ NoPairing \in PairingType
  /\ \A ep \in Endpoints :
       [NoPairing EXCEPT !.state = "preparing", !.ep = ep] \in PairingType
<1>1. Silence \in Snapshots
  BY DEF Silence, Snapshots
<1>2. NoPairing \in PairingType
  BY <1>1, NowhereTyped DEF NoPairing, PairingType
<1>3. ASSUME NEW ep \in Endpoints
      PROVE  [NoPairing EXCEPT !.state = "preparing", !.ep = ep] \in PairingType
  <2>1. "preparing" \in {"idle", "preparing", "waiting", "succeeded", "failed"}
    OBVIOUS
  <2> QED
    BY <1>2, <2>1 DEF PairingType
<1> QED
  BY <1>2, <1>3

LEMMA PairStartGood == ASSUME TypeInv, PairStart PROVE StepGood
<1>1. /\ pairRequested' = FALSE /\ pc' = "start"
      /\ UNCHANGED <<configVars, selectedVars, queueVars, workerVars, launching>>
  BY DEF PairStart
<1>2. pairing' \in PairingType /\ pairActive' \in BOOLEAN
  <2>1. CASE /\ HasSelected(config)
             /\ pairing' = [NoPairing EXCEPT !.state = "preparing", !.ep = SelectedHost(config).ep]
             /\ pairActive' = TRUE
    <3>1. SelectedHost(config).ep \in Endpoints
      BY <2>1, SelectedTyped DEF TypeInv, ConfigType
    <3> QED
      BY <2>1, <3>1, NoPairingTyped
  <2>2. CASE UNCHANGED <<pairing, pairActive>>
    BY <2>2 DEF TypeInv, PairType
  <2> QED
    BY <2>1, <2>2 DEF PairStart
<1>3. RestType'
  BY <1>1, <1>2 DEF TypeInv, RestType, SelectedType, QueueType, WorkerType, PairType, MainType,
                    selectedVars, queueVars, workerVars
<1> QED
  BY <1>1, <1>3, UnchangedGood DEF selectedVars

LEMMA PairingOverGood == ASSUME TypeInv, PairingOver PROVE StepGood
<1>1. /\ pairActive' = FALSE /\ pairing' = NoPairing /\ pc' = "start"
      /\ UNCHANGED <<configVars, art, queueVars, workerVars, pairRequested, launching>>
  BY DEF PairingOver
<1>2. WorkerType' /\ PairType' /\ MainType' /\ QueueType' /\ art' \in BOOLEAN
  BY <1>1, NoPairingTyped DEF TypeInv, SelectedType, QueueType, WorkerType, PairType, MainType,
                              queueVars, workerVars
<1>3. ConfigNext
  BY <1>1, SameConfig DEF TypeInv
<1>4. CASE IsSelected(config, pairing.ep)
  <2> DEFINE said == pairing.said
             ep == pairing.ep
  <2>1. /\ backend' = BackendOf(said, ep) /\ valid' = TRUE
        /\ failures' = Recorded(said.online) /\ due' = FALSE
    BY <1>4 DEF PairingOver
  <2>2. ep \in Endpoints /\ said \in Snapshots /\ said.online \in BOOLEAN
    BY DEF TypeInv, PairType, PairingType, Snapshots
  <2> HIDE DEF said, ep
  <2>3. /\ BackendOf(said, ep) \in BackendType
        /\ BackendOf(said, ep).of = ep /\ BackendOf(said, ep).online = said.online
    BY <2>2, BackendTyped
  <2>4. /\ Recorded(said.online) \in 0..FailureThreshold
        /\ ~said.online => Recorded(said.online) > 0
    BY <2>2, RecordedTyped DEF TypeInv, SelectedType
  <2>5. SelectedType'
    BY <1>2, <2>1, <2>3, <2>4 DEF SelectedType
  <2>6. Shown'
    <3>1. HasSelected(config) /\ SelectedHost(config).ep = ep /\ config' = config
      BY <1>1, <1>4 DEF IsSelected, ep, configVars
    <3>2. backend'.of = ep /\ backend'.online = said.online /\ failures' = Recorded(said.online)
      BY <2>1, <2>3
    <3> QED
      BY <2>4, <3>1, <3>2 DEF Shown
  <2> QED
    BY <1>2, <1>3, <2>5, <2>6 DEF StepGood, RestType
<1>5. CASE ~IsSelected(config, pairing.ep)
  <2>1. UNCHANGED <<backend, valid, failures, due>>
    BY <1>5 DEF PairingOver
  <2>2. RestType'
    BY <1>2, <2>1 DEF TypeInv, SelectedType, RestType
  <2> QED
    BY <1>1, <2>1, <2>2, UnchangedGood
<1> QED
  BY <1>4, <1>5

\* The job a poll starts; a sweep only when there is one.
LEMMA NextJobTyped ==
  ASSUME TypeInv, HasWork PROVE NextJob \in Jobs /\ (NextJob.kind = "sweep" => sweeps # <<>>)
<1>0. /\ requests \in Seq(Orders) /\ sweeps \in Seq(Endpoints) /\ GoodList(config)
  BY DEF TypeInv, QueueType, ConfigType
<1>1. CASE requests # <<>>
  <2>1. Head(requests) \in Orders /\ NextJob = Head(requests)
    BY <1>0, <1>1, HeadTailProperties DEF NextJob
  <2>2. \A order \in Orders : order \in Jobs /\ order.kind # "sweep"
    BY DEF Orders, Ordered, Jobs, Kinds
  <2> QED
    BY <2>1, <2>2
<1>2. CASE requests = <<>> /\ HasSelected(config) /\ due /\ valid
  <2> DEFINE health == Job("health", SelectedHost(config).ep)
  <2>1. health \in Jobs
    BY <1>0, <1>2, SelectedTyped, JobTyped DEF Kinds
  <2>2. health.kind # "sweep"
    BY DEF Job
  <2> HIDE DEF health
  <2>3. NextJob = health
    BY <1>2 DEF NextJob, health
  <2> QED
    BY <2>1, <2>2, <2>3
<1>3. CASE requests = <<>> /\ ~(HasSelected(config) /\ due /\ valid) /\ sweeps # <<>>
  <2>1. Head(sweeps) \in Endpoints
    BY <1>0, <1>3, HeadTailProperties
  <2>2. Job("sweep", Head(sweeps)) \in Jobs
    BY <2>1, JobTyped DEF Kinds
  <2> QED
    BY <1>3, <2>2 DEF NextJob
<1>4. CASE requests = <<>> /\ ~(HasSelected(config) /\ due /\ valid) /\ sweeps = <<>>
  <2> DEFINE artwork == Job("artwork", SelectedHost(config).ep)
  <2>1. HasSelected(config)
    BY <1>4 DEF HasWork
  <2>2. artwork \in Jobs
    BY <1>0, <2>1, SelectedTyped, JobTyped DEF Kinds
  <2>3. artwork.kind # "sweep"
    BY DEF Job
  <2> HIDE DEF artwork
  <2>4. NextJob = artwork
    BY <1>4 DEF NextJob, artwork
  <2> QED
    BY <2>2, <2>3, <2>4
<1> QED
  BY <1>1, <1>2, <1>3, <1>4

LEMMA StartNextGood == ASSUME TypeInv, StartNext PROVE StepGood
<1>0. requests \in Seq(Orders) /\ sweeps \in Seq(Endpoints)
  BY DEF TypeInv, QueueType
<1>1. UNCHANGED <<configVars, backend, valid, failures, due, pairingVars, launching>>
  BY DEF StartNext
<1>2. CASE MayStart /\ HasWork
  <2>1. /\ job' = NextJob
        /\ requests' = IF requests # <<>> THEN Tail(requests) ELSE requests
        /\ sweeps' = IF NextJob.kind = "sweep" THEN Tail(sweeps) ELSE sweeps
        /\ art' = (art /\ NextJob.kind # "artwork")
        /\ worker' \in {"running", "inline"} /\ pc' \in {"idle", "inline"}
    BY <1>2 DEF StartNext
  <2>2. job' \in Jobs /\ (NextJob.kind = "sweep" => sweeps # <<>>)
    BY <1>2, <2>1, NextJobTyped
  <2>3. requests' \in Seq(Orders)
    BY <1>0, <2>1, HeadTailProperties
  <2>4. sweeps' \in Seq(Endpoints)
    BY <1>0, <2>1, <2>2, HeadTailProperties
  <2>5. art' \in BOOLEAN
    BY <2>1
  <2>6. RestType'
    BY <1>1, <2>1, <2>2, <2>3, <2>4, <2>5 DEF TypeInv, RestType, SelectedType, QueueType,
       WorkerType, PairType, MainType, pairingVars
  <2> QED
    BY <1>1, <2>6, UnchangedGood
<1>3. CASE ~(MayStart /\ HasWork)
  <2>1. pc' = "idle" /\ UNCHANGED <<job, requests, sweeps, art, worker>>
    BY <1>3 DEF StartNext
  <2>2. RestType'
    BY <1>1, <2>1 DEF TypeInv, RestType, SelectedType, QueueType, WorkerType, PairType, MainType,
       pairingVars
  <2> QED
    BY <1>1, <2>2, UnchangedGood
<1> QED
  BY <1>2, <1>3

\* A step that changes only where the threads stand.
LEMMA ThreadsGood ==
  ASSUME TypeInv, UNCHANGED <<configVars, selectedVars, queueVars>>, RestType'
  PROVE  StepGood
  BY UnchangedGood DEF selectedVars

LEMMA PollGood == ASSUME TypeInv, PollStep PROVE StepGood
<1>1. CASE TakeAnswer
  <2>1. /\ Apply \/ UNCHANGED <<configVars, selectedVars, queueVars>>
        /\ worker' \in {"none", worker} /\ job' \in {job, NoJob} /\ pc' \in {"pair", "idle"}
        /\ UNCHANGED <<pairingVars, launching>>
    BY <1>1 DEF TakeAnswer, workerVars
  <2> QED
    BY <2>1, AnswerGood
<1>2. CASE RunInline
  <2>1. /\ Apply
        /\ worker' \in {"none", worker} /\ job' \in {job, NoJob} /\ pc' \in {"pair", "idle"}
        /\ UNCHANGED <<pairingVars, launching>>
    BY <1>2 DEF RunInline
  <2> QED
    BY <2>1, AnswerGood
<1>3. CASE NoPairingStep
  <2>1. RestType'
    BY <1>3 DEF NoPairingStep, TypeInv, RestType, SelectedType, QueueType, WorkerType, PairType,
       MainType, selectedVars, queueVars, workerVars, pairingVars
  <2> QED
    BY <1>3, <2>1, ThreadsGood DEF NoPairingStep
<1> QED
  BY <1>1, <1>2, <1>3, PairStartGood, PairingOverGood, StartNextGood DEF PollStep

LEMMA PollSaveGood == ASSUME TypeInv, PollSave PROVE StepGood
<1>1. /\ Save(config) /\ config' = config
      /\ UNCHANGED <<selectedVars, queueVars, workerVars, pairingVars, launching, pc>>
  BY DEF PollSave
<1>2. ConfigNext
  BY <1>1, SoundConfig, SaveConfig DEF TypeInv
<1>3. RestType'
  BY <1>1 DEF TypeInv, RestType, SelectedType, QueueType, WorkerType, PairType,
     MainType, selectedVars, queueVars, workerVars, pairingVars
<1>4. Shown => Shown'
  BY <1>1, SameShown DEF selectedVars
<1> QED
  BY <1>2, <1>3, <1>4 DEF StepGood

LEMMA PairEndsGood ==
  ASSUME TypeInv, NEW state \in {"waiting", "succeeded", "failed"},
         NEW result \in {"none", "io", "refused", "ok"}, NEW said \in Snapshots,
         PairEnds(state, result, said)
  PROVE  StepGood
<1>1. PICK p \in {"idle", "preparing", "waiting", "succeeded", "failed"}, ep \in Endpoints,
           q \in {"none", "io", "refused", "ok"}, t \in Snapshots :
        pairing = [state |-> p, ep |-> ep, result |-> q, said |-> t]
  BY DEF TypeInv, PairType, PairingType
<1>2. pairing' = [state |-> state, ep |-> ep, result |-> result, said |-> said]
  BY <1>1 DEF PairEnds
<1>3. pairing' \in PairingType
  BY <1>2 DEF PairingType
<1>4. UNCHANGED <<configVars, selectedVars, queueVars, workerVars, pairRequested, pairActive,
                  launching, pc>>
  BY DEF PairEnds
<1>5. RestType'
  BY <1>3, <1>4 DEF TypeInv, RestType, SelectedType, QueueType, WorkerType, PairType,
     MainType, selectedVars, queueVars, workerVars
<1> QED
  BY <1>4, <1>5, ThreadsGood

LEMMA PairStepGood == ASSUME TypeInv, PairStep PROVE StepGood
<1>1. Silence \in Snapshots
  BY DEF Silence, Snapshots
<1>2. CASE PairWaits \/ PairLost \/ PairRefused
  BY <1>1, <1>2, PairEndsGood DEF PairWaits, PairLost, PairRefused
<1>3. CASE PairAnswered
  <2>1. PICK s \in RefreshAnswers :
          PairEnds(IF s.ok /\ s.paired THEN "succeeded" ELSE "failed",
                   IF s.ok THEN "ok" ELSE "io", s)
    BY <1>3 DEF PairAnswered
  <2> DEFINE state == IF s.ok /\ s.paired THEN "succeeded" ELSE "failed"
             result == IF s.ok THEN "ok" ELSE "io"
  <2>2. s \in Snapshots
    BY AnswersTyped
  <2>3. state \in {"waiting", "succeeded", "failed"} /\ result \in {"none", "io", "refused", "ok"}
    OBVIOUS
  <2>4. PairEnds(state, result, s)
    BY <2>1
  <2> HIDE DEF state, result
  <2> QED
    BY <2>2, <2>3, <2>4, PairEndsGood
<1> QED
  BY <1>2, <1>3 DEF PairStep

LEMMA InitializeGood == ASSUME TypeInv, Initialize PROVE StepGood
<1>1. /\ config' = saved /\ saved' = saved /\ savePending' = FALSE /\ saveRefused' = FALSE
      /\ ResetSelected(saved) /\ launching' = FALSE /\ pc' = "idle"
      /\ UNCHANGED <<workerVars, pairingVars>>
  BY DEF Initialize
<1>2. GoodList(saved)
  BY DEF TypeInv, ConfigType
<1>3. ConfigNext
  BY <1>1, SoundConfig DEF ConfigNext
<1>4. SelectedType' /\ Shown'
  BY <1>1, <1>2, ResetTyped, ResetShown
<1>5. QueueType'
  <2>1. <<>> \in Seq(Orders) /\ <<>> \in Seq(Endpoints)
    BY EmptySeq
  <2>2. CASE HasSelected(saved)
    <3>1. requests' = WithRefresh(<<>>, saved) /\ sweeps' = SweepOf(saved)
      BY <2>2 DEF Initialize
    <3> QED
      BY <1>2, <2>1, <3>1, WithRefreshTyped, SweepOfTyped DEF QueueType
  <2>3. CASE ~HasSelected(saved)
    <3> DEFINE discover == Job("discover", Nowhere)
    <3>1. requests' = <<discover>> /\ sweeps' = <<>>
      BY <2>3 DEF Initialize
    <3>2. discover \in Orders
      BY NowhereTyped, JobTyped DEF Ordered
    <3> HIDE DEF discover
    <3>3. <<discover>> \in Seq(Orders)
      BY <3>2
    <3> QED
      BY <2>1, <3>1, <3>3 DEF QueueType
  <2> QED
    BY <2>2, <2>3
<1>6. WorkerType' /\ PairType' /\ MainType'
  BY <1>1 DEF TypeInv, WorkerType, PairType, MainType, workerVars, pairingVars
<1> QED
  BY <1>3, <1>4, <1>5, <1>6 DEF StepGood, RestType

LEMMA ShutdownGood == ASSUME TypeInv, Shutdown PROVE StepGood
<1>1. /\ worker' = "none" /\ job' = NoJob /\ requests' = <<>> /\ sweeps' = <<>>
      /\ art' = FALSE /\ pc' = "closed"
      /\ UNCHANGED <<config, backend, valid, failures, due, pairingVars, launching>>
      /\ IF savePending THEN Save(config) ELSE UNCHANGED <<saved, savePending, saveRefused>>
  BY DEF Shutdown
<1>2. ConfigNext
  <2>1. CASE savePending
    BY <1>1, <2>1, SoundConfig, SaveConfig DEF TypeInv
  <2>2. CASE ~savePending
    BY <1>1, <2>2, SameConfig DEF TypeInv, configVars
  <2> QED
    BY <2>1, <2>2
<1>3. <<>> \in Seq(Orders) /\ <<>> \in Seq(Endpoints)
  BY EmptySeq
<1>4. RestType'
  BY <1>1, <1>3, NoJobTyped DEF TypeInv, RestType, SelectedType, QueueType, WorkerType, PairType,
     MainType, pairingVars
<1>5. Shown => Shown'
  BY <1>1, SameShown
<1> QED
  BY <1>2, <1>4, <1>5 DEF StepGood

LEMMA LifeGood ==
  ASSUME TypeInv, WorkerEnds \/ StartStream \/ ExitHeld \/ UNCHANGED vars PROVE StepGood
<1>1. /\ UNCHANGED <<configVars, selectedVars, queueVars, job, pairingVars, launching>>
      /\ worker' \in {worker, "done"} /\ pc' \in {pc, "closing"}
  BY DEF WorkerEnds, StartStream, ExitHeld, Close, vars, configVars, selectedVars, queueVars,
         workerVars, pairingVars
<1>2. RestType'
  BY <1>1 DEF TypeInv, RestType, SelectedType, QueueType, WorkerType, PairType, MainType,
     selectedVars, queueVars, pairingVars
<1> QED
  BY <1>1, <1>2, ThreadsGood

LEMMA StepIsGood == ASSUME TypeInv, [Next]_vars PROVE StepGood
  BY OrderGood, OtherOrdersGood, PollGood, PollSaveGood, PairStepGood, InitializeGood, ShutdownGood,
     LifeGood DEF Next

-----------------------------------------------------------------------------
(* The theorems. *)

LEMMA TypeInit == ASSUME SavesGood, Init PROVE TypeInv
<1>1. ConfigType
  BY DEF SavesGood, Init, ConfigType
<1>2. SelectedType
  <2>1. EmptyList \in ListType /\ Len(EmptyList.hosts) = 0
    BY EmptySeq DEF EmptyList, ListType
  <2>2. GoodList(EmptyList)
    BY <2>1, HostListAssumption DEF GoodList
  <2>3. 0 \in 0..FailureThreshold
    BY LauncherAssumption
  <2> QED
    BY <2>2, <2>3, NoBackendTyped DEF Init, SelectedType
<1>3. QueueType
  <2>1. <<>> \in Seq(Orders) /\ <<>> \in Seq(Endpoints)
    BY EmptySeq
  <2> QED
    BY <2>1 DEF Init, QueueType
<1>4. WorkerType /\ PairType /\ MainType
  BY NoJobTyped, NoPairingTyped DEF Init, WorkerType, PairType, MainType
<1> QED
  BY <1>1, <1>2, <1>3, <1>4 DEF TypeInv

LEMMA TypeNext == TypeInv /\ [Next]_vars => TypeInv'
  BY StepIsGood DEF StepGood, ConfigNext, Sound, RestType, TypeInv, ConfigType

LEMMA TypeForever == ASSUME SavesGood PROVE Spec => []TypeInv
  BY TypeInit, TypeNext, PTL DEF Spec

TwinsInv == NoTwinsIn(config) /\ NoTwinsIn(saved)

LEMMA TwinsNext == TypeInv /\ TwinsInv /\ [Next]_vars => TwinsInv'
  BY StepIsGood DEF StepGood, ConfigNext, Sound, TwinsInv, NoTwinsIn, Places

\* Orders, answers and discoveries never leave two entries for one PC.
THEOREM EachPCOnce == ASSUME SavesGood, SavesUntwinned PROVE Spec => []NoTwins
<1>1. Init => TwinsInv
  BY DEF SavesUntwinned, Init, TwinsInv
<1>2. TwinsInv => NoTwins
  BY DEF TwinsInv, NoTwins
<1> QED
  BY <1>1, <1>2, TypeForever, TwinsNext, PTL DEF Spec

TrueInv == Truthful(config) /\ Truthful(saved) /\ Shown

LEMMA TrueInit == ASSUME SavesTruthful, Init PROVE TrueInv
<1>1. Truthful(config) /\ Truthful(saved)
  BY DEF SavesTruthful, Init
<1>2. Shown
  BY DEF Init, Shown, Lit, NoBackend
<1> QED
  BY <1>1, <1>2 DEF TrueInv

LEMMA TrueNext == TypeInv /\ TrueInv /\ [Next]_vars => TrueInv'
<1>1. Truthful(config)' = Truthful(config') /\ Truthful(saved)' = Truthful(saved')
  BY DEF Truthful, Places
<1> QED
  BY <1>1, StepIsGood DEF StepGood, ConfigNext, Sound, TrueInv

LEMMA TrueForever == ASSUME SavesGood, SavesTruthful PROVE Spec => [](TypeInv /\ TrueInv)
  BY TrueInit, TrueNext, TypeForever, PTL DEF Spec

LEMMA InvShownIsTrue == TypeInv /\ TrueInv => ShownIsTrue
<1> SUFFICES ASSUME TypeInv, TrueInv PROVE ShownIsTrue
  OBVIOUS
<1>1. AnswerIsSelected
  BY DEF AnswerIsSelected, TrueInv, Shown, Lit
<1>2. OfflineAfterThree
  <2>1. failures \in 0..FailureThreshold /\ FailureThreshold \in Nat
    BY LauncherAssumption DEF TypeInv, SelectedType
  <2> QED
    BY <2>1 DEF OfflineAfterThree, Reconnecting, TrueInv, Shown
<1> QED
  BY <1>1, <1>2, TypeInvOK DEF ShownIsTrue

\* What the player is shown of a PC is what that PC said last.
THEOREM WhatIsShown == ASSUME SavesGood, SavesTruthful PROVE Spec => []ShownIsTrue
  BY TrueForever, InvShownIsTrue, PTL

\* An answer never moves the selection to another Sunshine instance.
THEOREM SelectionStays == ASSUME SavesGood, SavesTruthful PROVE Spec => SelectionFollows
<1>1. TypeInv /\ TrueInv /\ [Next]_vars =>
        (worker' # worker /\ HasSelected(config) =>
           /\ HasSelected(config')
           /\ Identity[SelectedHost(config').ep] = Identity[SelectedHost(config).ep])
  <2> SUFFICES ASSUME TypeInv, TrueInv, [Next]_vars, worker' # worker PROVE SelectionKept
    BY DEF SelectionKept
  <2>1. \/ Apply \/ config' = config
    BY DEF Next, Order, SelectHost, RemoveHost, AddHost, SetPort, Refresh, Discover, Unpair,
           StopApp, StartPairing, RequestArtwork, RequestStream, Reselect, Ask, TimePasses,
           PollStep, TakeAnswer, PairStart, PairingOver, NoPairingStep, StartNext, RunInline,
           PollSave, WorkerEnds, PairStep, PairWaits, PairLost, PairRefused, PairAnswered,
           PairEnds, Initialize, StartStream, ExitHeld, Close, Shutdown, vars, workerVars,
           configVars
  <2>2. CASE Apply
    BY <2>2, ApplyIsGood DEF ApplyGood, TrueInv
  <2>3. CASE config' = config
    BY <2>3 DEF SelectionKept
  <2> QED
    BY <2>1, <2>2, <2>3
<1> QED
  BY <1>1, TrueForever, PTL DEF Spec, SelectionFollows
=============================================================================
