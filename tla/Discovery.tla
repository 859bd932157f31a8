----------------------------- MODULE Discovery ------------------------------
(***************************************************************************)
(* A search for PCs (moonlight_discovery.cpp): one question is sent, and   *)
(* for a number of rounds every reply's services become entries of a list. *)
(* A reply has records that count here: a PTR names a service, an SRV      *)
(* names it and its port, in any order, and ends after any of them, as one *)
(* cut off or broken in the middle does.  Every packet may be lost,        *)
(* repeated, and answered by a PC with several services.                   *)
(***************************************************************************)
EXTENDS Integers, Sequences

CONSTANTS
  Addresses,    \* of PCs
  Ports,        \* they say they listen on
  Instances,    \* names of their services
  MaxServices,  \* MOONLIGHT_DISCOVERY_MAX_SERVICES
  MaxHosts      \* capacity: entries of the caller's list

\* Assumed of the constants.
DiscoveryAssumption ==
  Addresses # {} /\ Ports \subseteq Nat \ {0} /\ MaxServices \in Nat \ {0} /\ MaxHosts \in Nat \ {0}

VARIABLES
  stage,     \* "socket", "epoll", "ask", "listen", "records", "services", "over"
  held,      \* the socket and the epoll of the search
  source,    \* who sent the reply
  services,  \* [instance, port] of the reply's services, not yet entered
  hosts,     \* the entries found: [address, port], port 0: not known
  heard      \* the services with a port that replies carried: [address, port]

vars == <<stage, held, source, services, hosts, heard>>

Records ==
  [type : {"PTR"}, instance : Instances, port : {0}]
    \cup [type : {"SRV"}, instance : Instances, port : Ports \cup {0}]

Init ==
  /\ stage = "socket" /\ held = {} /\ hosts = <<>> /\ heard = {}
  /\ source = (CHOOSE a \in Addresses : TRUE) /\ services = <<>>

-----------------------------------------------------------------------------
(* moonlight_discovery_parse_response *)

\* find_service: the one of that instance, or one more while there is room; an
\* SRV writes its port there.
Noted(list, record) ==
  LET known == \E i \in DOMAIN list : list[i].instance = record.instance
      fresh == [instance |-> record.instance, port |-> record.port]
  IN  IF known
      THEN [i \in DOMAIN list |-> IF list[i].instance = record.instance /\ record.type = "SRV"
                                  THEN fresh ELSE list[i]]
      ELSE IF Len(list) < MaxServices THEN Append(list, fresh)
      ELSE list

-----------------------------------------------------------------------------
(* add_host *)

\* A new entry; its name, which is the service's, is left out.
Entry(address, service) == [address |-> address, port |-> service.port]

\* A bug: the port of a reply is another entry whatever the list has.
AddAnother(address, list, service) ==
  IF \E i \in DOMAIN list : list[i].address = address /\ list[i].port = service.port THEN list
  ELSE IF Len(list) = MaxHosts THEN list
  ELSE Append(list, Entry(address, service))

\* A bug: whichever entry has no port takes this one's.
AddAnywhere(address, list, service) ==
  IF \E i \in DOMAIN list : list[i].port = 0
  THEN [i \in DOMAIN list |-> IF list[i].port = 0 THEN [list[i] EXCEPT !.port = service.port]
                              ELSE list[i]]
  ELSE AddAnother(address, list, service)

\* The entries of the address are gone through in order: one without a port
\* takes this one's, and the first that then has it, or any when there is no
\* port to look for, is this service.
Add(address, list, service) ==
  LET ours == {i \in DOMAIN list : list[i].address = address}
      same == {i \in ours : service.port = 0 \/ list[i].port \in {0, service.port}}
      passed(i) == i \in ours /\ list[i].port = 0 /\ \A j \in same : i <= j
      noted == [i \in DOMAIN list |->
                  [address |-> list[i].address,
                   port |-> IF passed(i) THEN service.port ELSE list[i].port]]
  IN IF same # {} \/ Len(list) = MaxHosts THEN noted
     ELSE Append(noted, Entry(address, service))

-----------------------------------------------------------------------------
(* moonlight_discover_hosts *)

OpenSocket ==
  /\ stage = "socket"
  /\ \/ stage' = "epoll" /\ held' = {"socket"}
     \/ stage' = "over" /\ UNCHANGED held
  /\ UNCHANGED <<source, services, hosts, heard>>

OpenEpoll ==
  /\ stage = "epoll"
  /\ \/ stage' = "ask" /\ held' = held \cup {"epoll"}
     \/ stage' = "over" /\ held' = {}
  /\ UNCHANGED <<source, services, hosts, heard>>

\* The socket is added to the epoll and the question sent.
Ask ==
  /\ stage = "ask"
  /\ \/ stage' = "listen" /\ UNCHANGED held
     \/ stage' = "over" /\ held' = {}
  /\ UNCHANGED <<source, services, hosts, heard>>

\* A reply is there.
Hear ==
  /\ stage = "listen" /\ stage' = "records"
  /\ source' \in Addresses /\ services' = <<>>
  /\ UNCHANGED <<held, hosts, heard>>

\* The next record of it.
Read ==
  /\ stage = "records"
  /\ \E record \in Records : services' = Noted(services, record)
  /\ UNCHANGED <<stage, held, source, hosts, heard>>

\* Its last record was read, or one that is broken or cut off.
ReadAll ==
  /\ stage = "records" /\ stage' = "services"
  /\ heard' = heard \cup {[address |-> source, port |-> services[i].port] :
                             i \in {j \in DOMAIN services : services[j].port # 0}}
  /\ UNCHANGED <<held, source, services, hosts>>

\* The next of its services is entered.
Enter ==
  /\ stage = "services" /\ services # <<>>
  /\ hosts' = Add(source, hosts, Head(services)) /\ services' = Tail(services)
  /\ UNCHANGED <<stage, held, source, heard>>

Entered ==
  /\ stage = "services" /\ services = <<>> /\ stage' = "listen"
  /\ UNCHANGED <<held, source, services, hosts, heard>>

\* The rounds are over.
Stop ==
  /\ stage = "listen" /\ stage' = "over" /\ held' = {}
  /\ UNCHANGED <<source, services, hosts, heard>>

Next ==
  OpenSocket \/ OpenEpoll \/ Ask \/ Hear \/ Read \/ ReadAll \/ Enter \/ Entered \/ Stop

Spec == Init /\ [][Next]_vars

-----------------------------------------------------------------------------
TypeOK ==
  /\ stage \in {"socket", "epoll", "ask", "listen", "records", "services", "over"}
  /\ held \subseteq {"socket", "epoll"} /\ source \in Addresses
  /\ services \in Seq([instance : Instances, port : Ports \cup {0}]) /\ Len(services) <= MaxServices
  /\ hosts \in Seq([address : Addresses, port : Ports \cup {0}])
  /\ Len(hosts) <= MaxHosts
  /\ heard \subseteq [address : Addresses, port : Ports]

\* No two entries are the same PC's service, and an entry whose port is not
\* known is the only one of its PC.
NoTwins ==
  \A i, j \in DOMAIN hosts :
    i # j /\ hosts[i].address = hosts[j].address =>
      hosts[i].port # hosts[j].port /\ hosts[i].port # 0

\* Every service whose port arrived is listed once its reply was gone through,
\* whatever arrived before it, as long as there is room.
EveryPortListed ==
  stage # "services" /\ Len(hosts) < MaxHosts =>
    \A h \in heard : \E i \in DOMAIN hosts : hosts[i].address = h.address /\ hosts[i].port = h.port

\* What is listed has a port once a reply of its PC carried one.
PortsArrive ==
  stage # "services" =>
    \A i \in DOMAIN hosts : hosts[i].port = 0 => \A h \in heard : h.address # hosts[i].address

\* A port comes from its own PC: a reply changes the entries of no other, and no
\* port is listed that the PC did not send.
PortsTheirOwn == \A i \in DOMAIN hosts : hosts[i].port # 0 => hosts[i] \in heard

ClosesBoth == stage = "over" => held = {}

\* Replies in any order, repeated, partial and of several services
\* (find_service and add_host).
DiscoveryOK == TypeOK /\ NoTwins /\ EveryPortListed /\ PortsArrive /\ PortsTheirOwn /\ ClosesBoth

=============================================================================
