------------------------------- MODULE Sockets -------------------------------
(***************************************************************************)
(* The sockets calls the program and its libraries make, over the          *)
(* console's own (platform/ps5/ps5_sockets.c): select and poll by an epoll *)
(* made for each call, getaddrinfo by a memory pool and a resolver made    *)
(* for each name, non-blocking mode by a socket option.                    *)
(*                                                                         *)
(* The console may refuse every call it gets, wait in vain, or find any of *)
(* the sockets ready in any of its four ways, of which only those asked    *)
(* for and the last two are told.                                          *)
(***************************************************************************)
EXTENDS Integers, FiniteSets

CONSTANTS
  Socks,     \* the sockets a call may ask about
  Inline     \* events kept on the stack: 8 of them there

\* Assumed of the constants.
SocketsAssumption == IsFiniteSet(Socks) /\ Inline \in Nat

VARIABLES
  call,      \* "none", "poll", "select" or "resolve"
  at,        \* where it is
  given,     \* the sets select was given, the others are null
  asked,     \* [read, write, error]: sets of sockets
  added,     \* sockets the epoll has
  ready,     \* what the epoll told: a set of [socket, way]
  held,      \* what the call holds
  answer     \* [of, result, read, write, error] of the last call; -1 is a failure

vars == <<call, at, given, asked, added, ready, held, answer>>

Ways == {"in", "out", "err", "hup"}

Nobody == [read |-> {}, write |-> {}, error |-> {}]
NoAnswer == [of |-> "none", result |-> 0, read |-> {}, write |-> {}, error |-> {}]

Init ==
  /\ call = "none" /\ at = "none" /\ given = {} /\ asked = Nobody /\ added = {} /\ ready = {} /\ held = {}
  /\ answer = NoAnswer

\* The sockets of a call, which its three sets name.
Used == asked.read \cup asked.write \cup asked.error

\* select asks for both ways of a socket in the error set.
Ask(s) ==
  (IF s \in asked.read \cup asked.error THEN {"in"} ELSE {})
    \cup (IF s \in asked.write \cup asked.error THEN {"out"} ELSE {})

Return(result) ==
  /\ call' = "none" /\ at' = "none" /\ added' = {} /\ ready' = {} /\ answer' = result
  /\ UNCHANGED <<given, asked>>

Failure == [NoAnswer EXCEPT !.result = -1]
Go(place) == at' = place /\ UNCHANGED <<call, given, asked, answer>>

-----------------------------------------------------------------------------
(* ps5_socket_select and ps5_socket_poll *)

\* The array of descriptors; no memory for it is a failure.
Select ==
  /\ call = "none" /\ call' = "select"
  /\ given' \in SUBSET {"read", "write", "error"}
  /\ asked' \in [{"read", "write", "error"} -> SUBSET Socks]
  /\ \A set \in {"read", "write", "error"} \ given' : asked'[set] = {}
  /\ at' = "events" /\ held' = {"descriptors"} /\ added' = {} /\ ready' = {}
  /\ answer' = NoAnswer

Poll ==
  /\ call = "none" /\ call' = "poll"
  /\ \E r, w \in SUBSET Socks : asked' = [read |-> r, write |-> w, error |-> {}]
  /\ given' = {}
  /\ at' = "events" /\ held' = {} /\ added' = {} /\ ready' = {}
  /\ answer' = NoAnswer

\* Nothing to wait for but the time; a longer list of events than fits.
Events ==
  /\ at = "events"
  /\ \/ Used = {} /\ held' = {} /\ Return(NoAnswer)
     \/ Used # {} /\ held' = held \cup (IF Cardinality(Used) > Inline THEN {"events"} ELSE {})
        /\ Go("create") /\ UNCHANGED <<added, ready>>
     \/ Cardinality(Used) > Inline /\ held' = {} /\ Return(Failure)

Create ==
  /\ at = "create"
  /\ \/ held' = held \cup {"epoll"} /\ Go("add") /\ UNCHANGED <<added, ready>>
     \/ held' = {} /\ Return(Failure)

\* A bug: the epoll of a socket that is refused is left.
AddLeaks ==
  /\ at = "add"
  /\ \/ added = Used /\ Go("wait") /\ UNCHANGED <<added, ready, held>>
     \/ \E s \in Used \ added : added' = added \cup {s} /\ Go("add") /\ UNCHANGED <<ready, held>>
     \/ added # Used /\ held' = held \cap {"epoll"} /\ Return(Failure)

\* One socket the console refuses fails the whole call.
Add ==
  /\ at = "add"
  /\ \/ added = Used /\ Go("wait") /\ UNCHANGED <<added, ready, held>>
     \/ \E s \in Used \ added : added' = added \cup {s} /\ Go("add") /\ UNCHANGED <<ready, held>>
     \/ added # Used /\ held' = {} /\ Return(Failure)

\* The console tells the ways asked for, errors and the other end's closing.
Wait ==
  /\ at = "wait"
  /\ \/ \E told \in SUBSET (added \X Ways) :
          /\ \A t \in told : t[2] \in Ask(t[1]) \cup {"err", "hup"}
          /\ ready' = told
        /\ Go("told") /\ UNCHANGED <<added, held>>
     \/ held' = {} /\ Return(Failure)

Told(s, ways) == \E way \in ways : <<s, way>> \in ready

\* select goes through the sockets it asked for: each is set in every set it
\* was given, whichever set the socket was in, and counted once.
Set(set, ways) == IF set \in given THEN {s \in Used : Told(s, ways)} ELSE {}

Reported ==
  [read |-> Set("read", {"in", "hup"}), write |-> Set("write", {"out"}), error |-> Set("error", {"err"})]

\* The count of poll is the console's.
Counted ==
  IF call = "select" THEN Cardinality(Reported.read \cup Reported.write \cup Reported.error)
  ELSE Cardinality({t[1] : t \in ready})

With(count) ==
  [of |-> call, result |-> count, read |-> Reported.read, write |-> Reported.write, error |-> Reported.error]

\* A bug: what the console counted is told.
ReportAll ==
  /\ at = "told" /\ held' = {}
  /\ Return(With(Cardinality({t[1] : t \in ready})))

Report ==
  /\ at = "told" /\ held' = {}
  /\ Return(With(Counted))

-----------------------------------------------------------------------------
(* getaddrinfo, freeaddrinfo *)

\* An address in digits needs no resolver.
Resolve ==
  /\ call = "none" /\ call' = "resolve" /\ given' = {} /\ asked' = Nobody /\ answer' = NoAnswer
  /\ at' \in {"pool", "info"}
  /\ UNCHANGED <<added, ready, held>>

Pool ==
  /\ at = "pool"
  /\ \/ held' = {"pool"} /\ Go("resolver") /\ UNCHANGED <<added, ready>>
     \/ held' = {} /\ Return(Failure)

Resolver ==
  /\ at = "resolver"
  /\ \/ held' = held \cup {"resolver"} /\ Go("name") /\ UNCHANGED <<added, ready>>
     \/ held' = {} /\ Return(Failure)

\* Both are given back before the answer is looked at.
Name ==
  /\ at = "name" /\ held' = {}
  /\ \/ Go("info") /\ UNCHANGED <<added, ready>>
     \/ Return(Failure)

Info ==
  /\ at = "info" /\ UNCHANGED held
  /\ \/ Return(NoAnswer)
     \/ Return(Failure)

-----------------------------------------------------------------------------
Next ==
  \/ Select \/ Poll \/ Events \/ Create \/ Add \/ Wait \/ Report
  \/ Resolve \/ Pool \/ Resolver \/ Name \/ Info

Spec == Init /\ [][Next]_vars

-----------------------------------------------------------------------------
TypeOK ==
  /\ call \in {"none", "poll", "select", "resolve"}
  /\ added \subseteq Socks /\ ready \subseteq Socks \X Ways
  /\ held \subseteq {"descriptors", "events", "epoll", "pool", "resolver"}
  /\ answer.result \in -1 .. Cardinality(Socks)

\* No call keeps anything, at whichever of its steps the console refused.
KeepsNothing == call = "none" => held = {}

\* A caller can go by the sets: something is set exactly when select says how
\* many sockets are.
CountsSets ==
  answer.of = "select" =>
    answer.result = Cardinality(answer.read \cup answer.write \cup answer.error)

\* A caller that gives one set, as gs_http.c does, gets back only sockets of it.
OneSetNamesAsked ==
  call = "none" /\ Cardinality(given) = 1 =>
    \A set \in given : answer[set] \subseteq asked[set]

\* Calls refused at any step, ps5_sockets.c.
SocketsOK == TypeOK /\ KeepsNothing /\ CountsSets /\ OneSetNamesAsked

=============================================================================
