------------------------------ MODULE MCLauncher -------------------------------
(* Small networks for Launcher: every endpoint another PC, or instances of     *)
(* Sunshine on one PC's ports, of which one answers on two.                    *)
EXTENDS Launcher

Ep(addr, port) == [addr |-> addr, port |-> port]
Host(addr, port, uid) == [ep |-> Ep(addr, port), uid |-> uid]
List(hosts) == [hosts |-> hosts, selected |-> 1]

CONSTANTS a1, a2, a3, u1, u2

EachItsOwn == [ep \in Endpoints |-> IF ep = Ep(a1, 1) THEN u1 ELSE u2]
TwoWays == [ep \in Endpoints |-> IF ep.port = 2 THEN u2 ELSE u1]

\* No answer; the PC is not paired; its app can be started; it runs already; its
\* list of apps did not come.
Unpaired == [Silence EXCEPT !.ok = TRUE, !.online = TRUE]
Ready == [Unpaired EXCEPT !.paired = TRUE, !.apps = TRUE]
Running == [Ready EXCEPT !.running = TRUE]
NoList == [Unpaired EXCEPT !.ok = FALSE, !.paired = TRUE]
MostReports == {Silence, Unpaired, Ready, Running, NoList}
FewReports == {Silence, Unpaired, Ready}
NoneReady == {Silence, Unpaired}

OneUnnamed == {List(<<Host(a1, 1, NoId)>>)}
OneSaved == {List(<<Host(a1, 1, u1)>>)}
\* Only the first has answered before.
TwoSaved == {List(<<Host(a1, 1, u1), Host(a2, 1, NoId)>>)}
TwoPorts == {List(<<Host(a1, 1, u1), Host(a1, 2, NoId)>>)}

\* The networks here are ones the theorems speak of.
ASSUME SavesAssumption == SavesGood /\ SavesUntwinned /\ SavesTruthful
=============================================================================
