----------------------------- MODULE HttpClient -----------------------------
(***************************************************************************)
(* One request after another over the two sockets calls gs_http.c makes of *)
(* the console, and a thread that interrupts them (http_interrupt): the    *)
(* flag, the descriptor it finds published and the shutdown are steps of   *)
(* their own, and so is everything between two looks of the request at the *)
(* flag.  A peer may refuse, keep silent, close at any point, or go on     *)
(* answering without an end.  Descriptors are numbers, a thread that has   *)
(* nothing to do with requests opens and closes sockets too.               *)
(***************************************************************************)
EXTENDS Integers

CONSTANTS
  Descriptors,   \* of sockets
  Slices,        \* of 50 ms, in a wait
  MaxAddresses   \* bound: addresses of a name

ASSUME HttpAssumption ==
  Descriptors \subseteq Nat \ {0} /\ Slices \in Nat /\ MaxAddresses \in Nat

VARIABLES
  at,        \* where the request is
  tls,       \* it uses TLS
  left,      \* addresses not tried yet
  fd,        \* its socket, 0: none
  session,   \* tls_initialized
  body,      \* response->body: "none", "part", "whole"
  result,    \* "ok" or "io", of the last request
  slices,    \* 50 ms slices before the wait times out
  turn,      \* flips with everything that arrives: a peer may never stop
  flag,      \* http_interrupted
  active,    \* http_active_socket, 0: none
  caller,    \* http_interrupt: "idle", "flagged" or "shutting"
  loaded,    \* the descriptor it found
  open,      \* the open descriptors of the process
  down,      \* those shut down
  cancelled  \* the interrupt came while the request still had something to read

requestVars == <<at, tls, left, fd, session, body, result, slices, turn>>
httpVars == <<requestVars, flag, active, caller, loaded, open, down, cancelled>>

Reads == {"handshake", "status", "headers", "body"}

HttpInit ==
  /\ at = "idle" /\ tls = FALSE /\ left = 0 /\ fd = 0 /\ session = FALSE /\ body = "none"
  /\ result = "io" /\ slices = 0 /\ turn = 0
  /\ flag = FALSE /\ active = 0 /\ caller = "idle" /\ loaded = 0
  /\ open = {} /\ down = {} /\ cancelled = FALSE

Go(place) == at' = place /\ slices' = Slices
Same == UNCHANGED <<flag, caller, loaded, cancelled>>

\* Where a request that ends goes: what it holds is given back there.
Fail == Go("fail") /\ result' = "io"

-----------------------------------------------------------------------------
(* http_get, open_tcp_socket *)

\* http_init clears what was left of an interrupt.
RequestBegins ==
  /\ at = "idle" /\ caller = "idle"
  /\ at' = "address" /\ \E t \in BOOLEAN : tls' = t
  /\ \E n \in 0 .. MaxAddresses : left' = n
  /\ body' = "none" /\ result' = "io" /\ slices' = Slices
  /\ flag' \in {flag, FALSE} /\ cancelled' = FALSE
  /\ UNCHANGED <<fd, session, turn, active, caller, loaded, open, down>>

\* The next address, unless interrupted.
NextAddress ==
  /\ at = "address"
  /\ IF left = 0 \/ flag THEN Go("closed") /\ UNCHANGED <<left, fd, open>>
     ELSE /\ left' = left - 1
          /\ \/ \E d \in Descriptors \ open :
                  /\ \A e \in Descriptors \ open : d <= e
                  /\ fd' = d /\ open' = open \cup {d} /\ Go("publish")
             \/ fd' = 0 /\ UNCHANGED open /\ Go("address")
  /\ UNCHANGED <<tls, session, body, result, turn, active, down>> /\ Same

Publish ==
  /\ at = "publish" /\ active' = fd /\ Go("connect")
  /\ UNCHANGED <<tls, left, fd, session, body, result, turn, open, down>> /\ Same

\* connect: at once, in progress, or refused; then the socket blocks again.
Connect ==
  /\ at = "connect"
  /\ \E next \in {"connected", "connecting", "refused"} : Go(next)
  /\ UNCHANGED <<tls, left, fd, session, body, result, turn, active, open, down>> /\ Same

\* wait_socket looks at the flag before every slice.
Connecting ==
  /\ at = "connecting"
  /\ IF flag \/ slices = 0 THEN Go("refused")
     ELSE \/ Go("connected") \/ Go("refused")
          \/ slices' = slices - 1 /\ UNCHANGED at
  /\ UNCHANGED <<tls, left, fd, session, body, result, turn, active, open, down>> /\ Same

\* Closed first, taken back from http_interrupt after.
Refused ==
  /\ at = "refused" /\ open' = open \ {fd} /\ down' = down \ {fd} /\ Go("withdraw")
  /\ UNCHANGED <<tls, left, fd, session, body, result, turn, active>> /\ Same

Withdraw ==
  /\ at = "withdraw" /\ active' = 0 /\ fd' = 0 /\ Go("address")
  /\ UNCHANGED <<tls, left, session, body, result, turn, open, down>> /\ Same

\* connection_open gave no connection: nothing to close.
Closed ==
  /\ at = "closed" /\ at' = "idle" /\ result' = "io"
  /\ UNCHANGED <<tls, left, fd, session, body, slices, turn, active, open, down>> /\ Same

-----------------------------------------------------------------------------
(* connection_open, connection_write_all, http_get *)

Connected ==
  /\ at = "connected"
  /\ IF tls THEN session' = TRUE /\ Go("handshake") ELSE Go("write") /\ UNCHANGED session
  /\ UNCHANGED <<tls, left, fd, body, result, turn, active, open, down>> /\ Same

Write ==
  /\ at = "write"
  /\ IF fd \in down THEN Fail ELSE Fail \/ (Go("status") /\ UNCHANGED result)
  /\ UNCHANGED <<tls, left, fd, session, body, turn, active, open, down>> /\ Same

After == [handshake |-> "write", status |-> "headers", headers |-> "body", body |-> "check"]

\* Something arrives: more of the same, or the last of it.  A body that ends
\* with the connection ends wherever the connection does.
Arrives ==
  \/ turn' = 1 - turn /\ slices' = Slices /\ UNCHANGED <<at, result>>
     /\ body' = IF at = "body" THEN "part" ELSE body
  \/ /\ Go(After[at]) /\ UNCHANGED <<turn, result>>
     /\ body' = IF at = "body" THEN "whole" ELSE body

Ends ==
  \/ Fail /\ UNCHANGED <<turn, body>>
  \/ at = "body" /\ body = "part" /\ Go("check") /\ UNCHANGED <<turn, body, result>>

\* A bug: the flag is looked at once, before the first slice.
ReadBlind ==
  /\ at \in Reads
  /\ IF slices = 0 THEN Ends
     ELSE \/ fd \notin down /\ Arrives
          \/ Ends
          \/ fd \notin down /\ turn' = 1 - turn /\ UNCHANGED <<at, result, body, slices>>
  /\ UNCHANGED <<tls, left, fd, session, active, open, down>> /\ Same

\* transport_receive_timeout: an interrupt ends the wait as a timeout does.
Read ==
  /\ at \in Reads
  /\ IF flag \/ slices = 0 THEN Ends
     ELSE \/ fd \notin down /\ Arrives
          \/ Ends
          \/ fd \notin down /\ slices' = slices - 1 /\ UNCHANGED <<at, result, body, turn>>
  /\ UNCHANGED <<tls, left, fd, session, active, open, down>> /\ Same

\* A bug: what was read is the answer.
CheckStatus ==
  /\ at = "check" /\ (Fail \/ (Go("close") /\ result' = "ok"))
  /\ UNCHANGED <<tls, left, fd, session, body, turn, active, open, down>> /\ Same

\* The status, and the last look at the flag.
Check ==
  /\ at = "check"
  /\ IF flag THEN Fail ELSE Fail \/ (Go("close") /\ result' = "ok")
  /\ UNCHANGED <<tls, left, fd, session, body, turn, active, open, down>> /\ Same

\* The body goes with a failure.
Failed ==
  /\ at = "fail" /\ Go("close") /\ body' = "none"
  /\ UNCHANGED <<tls, left, fd, session, result, turn, active, open, down>> /\ Same

\* connection_close: taken back first, closed after.
Close ==
  /\ at = "close" /\ active' = 0 /\ session' = FALSE /\ Go("shut")
  /\ UNCHANGED <<tls, left, fd, body, result, turn, open, down>> /\ Same

Shut ==
  /\ at = "shut" /\ open' = open \ {fd} /\ down' = down \ {fd} /\ fd' = 0 /\ at' = "idle"
  /\ UNCHANGED <<tls, left, session, body, result, slices, turn, active>> /\ Same

-----------------------------------------------------------------------------
(* http_interrupt, on another thread *)

Interrupt ==
  /\ caller = "idle" /\ caller' = "flagged" /\ flag' = TRUE
  /\ cancelled' = (cancelled \/ at \notin {"idle", "closed", "close", "shut", "fail"})
  /\ UNCHANGED <<requestVars, active, loaded, open, down>>

Loads ==
  /\ caller = "flagged" /\ loaded' = active
  /\ caller' = IF active = 0 THEN "idle" ELSE "shutting"
  /\ UNCHANGED <<requestVars, flag, active, open, down, cancelled>>

ShutsDown ==
  /\ caller = "shutting" /\ caller' = "idle" /\ loaded' = 0
  /\ down' = down \cup ({loaded} \cap open)
  /\ UNCHANGED <<requestVars, flag, active, open, cancelled>>

\* Some other thread of the process.
Other ==
  /\ \E d \in Descriptors \ {fd} :
       IF d \in open THEN open' = open \ {d} /\ down' = down \ {d}
       ELSE open' = open \cup {d} /\ UNCHANGED down
  /\ UNCHANGED <<requestVars, flag, active, caller, loaded, cancelled>>

-----------------------------------------------------------------------------
Request ==
  \/ NextAddress \/ Publish \/ Connect \/ Connecting \/ Refused \/ Withdraw \/ Closed
  \/ Connected \/ Write \/ Read \/ Check \/ Failed \/ Close \/ Shut

HttpNext == RequestBegins \/ Request \/ Interrupt \/ Loads \/ ShutsDown \/ Other

\* The console runs the request's thread; every wait has a timeout.
HttpFairness == WF_httpVars(Request)

HttpSpec == HttpInit /\ [][HttpNext]_httpVars /\ HttpFairness

-----------------------------------------------------------------------------
HttpTypeOK ==
  /\ left \in 0 .. MaxAddresses /\ fd \in Descriptors \cup {0} /\ active \in Descriptors \cup {0}
  /\ body \in {"none", "part", "whole"} /\ result \in {"ok", "io"} /\ slices \in 0 .. Slices
  /\ {tls, session, flag, cancelled} \subseteq BOOLEAN /\ open \subseteq Descriptors
  /\ down \subseteq open

\* Between requests nothing of the last one is left: no socket, no session,
\* nothing to interrupt, no body of a failure.
GivesBack ==
  at = "idle" => fd = 0 /\ active = 0 /\ ~session /\ (result = "io" => body = "none")

\* A request interrupted while it had anything left to read is never answered,
\* whatever had arrived.
CancelledFails == at = "idle" /\ cancelled => result = "io"

\* What an interrupt finds published is the request's own socket, or nothing.
PublishesOwn == active # 0 => active = fd

\* An interrupt at any point of a request, gs_http.c.
HttpOK == HttpTypeOK /\ GivesBack /\ CancelledFails /\ PublishesOwn

\* An interrupted request ends, also one whose peer never stops answering and
\* one whose socket was not published yet when the interrupt looked.
InterruptEnds == flag /\ at # "idle" ~> at = "idle"

=============================================================================
