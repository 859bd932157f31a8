------------------------------- MODULE HostList --------------------------------
(***************************************************************************)
(* The list of saved PCs (moonlight_config.cpp) as operators on a value    *)
(*   [hosts |-> sequence of saved PCs, selected |-> place of the selected].*)
(* A saved PC is [ep, uid]: the endpoint (address and HTTP port) and the   *)
(* Sunshine identity, NoId until the PC has answered.  The code counts     *)
(* from 0; here the first PC is 1, and `selected` of an empty list is 1.   *)
(* Names and the `manual` mark, which nothing reads back, are left out.    *)
(***************************************************************************)
EXTENDS Integers, Sequences, FiniteSets

CONSTANTS
  Addresses,     \* addresses PCs may have
  Ports,         \* HTTP ports in use
  DefaultPort,   \* MOONLIGHT_CONFIG_DEFAULT_HTTP_PORT
  Ids,           \* identities Sunshine instances report
  NoId,          \* unique_id of a PC that never answered
  MaxHosts       \* MOONLIGHT_CONFIG_MAX_HOSTS

ASSUME HostListAssumption ==
  /\ DefaultPort \in Ports
  /\ 0 \notin Ports
  /\ NoId \notin Ids
  /\ MaxHosts \in Nat \ {0}

Endpoints == [addr : Addresses, port : Ports]
Hosts == [ep : Endpoints, uid : Ids \cup {NoId}]
Places(list) == 1..Len(list.hosts)
EmptyList == [hosts |-> <<>>, selected |-> 1]

HasSelected(list) == list.selected \in Places(list)
SelectedHost(list) == list.hosts[list.selected]
IsSelected(list, ep) == HasSelected(list) /\ SelectedHost(list).ep = ep

SameHost(h, other) ==
  \/ h.ep = other.ep
  \/ h.uid # NoId /\ h.uid = other.uid

(***************************************************************************)
(* merge_duplicates: the PC at `index` stays, every other entry of the same*)
(* PC goes, and a selection of one of them moves to it.  MergeLoop checks  *)
(* that the loop of the code does this.                                    *)
(***************************************************************************)
\* Mutant: only the endpoint tells PCs apart.
Kept_ByEndpoint(list, index) ==
  {i \in Places(list) : i = index \/ list.hosts[i].ep # list.hosts[index].ep}

Kept(list, index) ==
  {i \in Places(list) : i = index \/ ~SameHost(list.hosts[i], list.hosts[index])}

\* What is left of a sequence when only the places in `kept` stay, in their order.
NewPlace(kept, i) == Cardinality({j \in kept : j <= i})
Picked(seq, kept) ==
  [k \in 1..Cardinality(kept) |-> seq[CHOOSE i \in kept : NewPlace(kept, i) = k]]

\* Mutant: the selection keeps its place in the list.
Merged_SamePlace(list, index) ==
  [hosts |-> Picked(list.hosts, Kept(list, index)), selected |-> list.selected]

Merged(list, index) ==
  LET kept == Kept(list, index)
      heir == IF list.selected \in kept THEN list.selected ELSE index
  IN  [hosts |-> Picked(list.hosts, kept),
       selected |-> IF HasSelected(list) THEN NewPlace(kept, heir) ELSE list.selected]

MergedPlace(list, index) == NewPlace(Kept(list, index), index)

(***************************************************************************)
(* moonlight_config_upsert_host.  Port 0 is "no port given".  The result's *)
(* place is 0 when the list is full.                                       *)
(***************************************************************************)
Describes(h, addr, port, uid) ==
  \/ uid # NoId /\ h.uid = uid
  \/ h.ep.addr = addr /\ port \in {0, h.ep.port}

UpsertTarget(list, addr, port, uid) ==
  LET known == {i \in Places(list) : Describes(list.hosts[i], addr, port, uid)}
  IN  IF known # {} THEN CHOOSE i \in known : \A j \in known : i <= j
                    ELSE Len(list.hosts) + 1

UpsertedHost(list, i, addr, port, uid) ==
  LET old == IF i \in Places(list) THEN list.hosts[i]
             ELSE [ep |-> [addr |-> addr, port |-> DefaultPort], uid |-> NoId]
  IN  [ep |-> [addr |-> addr, port |-> IF port = 0 THEN old.ep.port ELSE port],
       uid |-> IF uid = NoId THEN old.uid ELSE uid]

UpsertHost(list, addr, port, uid) ==
  LET i == UpsertTarget(list, addr, port, uid)
      entered == [list EXCEPT !.hosts =
                    [j \in 1..(IF i > Len(@) THEN i ELSE Len(@)) |->
                       IF j = i THEN UpsertedHost(list, i, addr, port, uid) ELSE @[j]]]
  IN  IF i > MaxHosts THEN [list |-> list, place |-> 0]
      ELSE [list |-> Merged(entered, i), place |-> MergedPlace(entered, i)]

\* Mutant: a PC moved onto the endpoint of another stays beside it.
SetHostPort_Unmerged(list, index, port) ==
  [list |-> [list EXCEPT !.hosts[index].ep.port = port], place |-> index]

\* moonlight_config_set_host_port: another port is another Sunshine instance.
SetHostPort(list, index, port) ==
  LET h == list.hosts[index]
      moved == IF h.ep.port = port THEN list
               ELSE [list EXCEPT !.hosts[index] =
                       [ep |-> [h.ep EXCEPT !.port = port], uid |-> NoId]]
  IN  [list |-> Merged(moved, index), place |-> MergedPlace(moved, index)]

\* moonlight_config_remove_host.
RemoveHostAt(list, index) ==
  LET left == SubSeq(list.hosts, 1, index - 1) \o SubSeq(list.hosts, index + 1, Len(list.hosts))
  IN  [hosts |-> left,
       selected |-> IF left = <<>> THEN 1
                    ELSE IF list.selected > index \/ list.selected > Len(left)
                    THEN list.selected - 1 ELSE list.selected]

\* A list the program may hold: not too long, and a PC selected unless empty.
ListType == [hosts : Seq(Hosts), selected : Nat]
GoodList(list) ==
  /\ list \in ListType
  /\ Len(list.hosts) <= MaxHosts
  /\ HasSelected(list) \/ list = EmptyList

\* No two entries are the same PC.
NoTwinsIn(list) ==
  \A i, j \in Places(list) : i # j => ~SameHost(list.hosts[i], list.hosts[j])
=============================================================================
