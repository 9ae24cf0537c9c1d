---------------------------- MODULE LoadBalancer ----------------------------
(***************************************************************************)
(* Crate B: handle_connection for many connections at once, around the     *)
(* round-robin balancer they share and the rewriting of the head (module   *)
(* Rewrite).  The bytes of a request are RequestStream's: here its head is *)
(* read or refused in one step.                                            *)
(*                                                                         *)
(* There are no health checks: an upstream that does not work keeps its    *)
(* turn.  The counter is as wide as the build's usize: it wraps at Width.  *)
(***************************************************************************)
EXTENDS Rewrite

CONSTANTS Conns,
          N,           \* number of upstreams, 0 .. N-1
          Width,       \* values of the counter (2^w)
          Requests,    \* the requests each connection may send
          MaxPicks     \* bound on the picks of a behaviour

ASSUME BalancerAssumption == N \in Nat \ {0} /\ Width \in Nat \ {0}

ASSUME RequestsAssumption == \A c \in Conns : Requests[c] \subseteq Request

Upstreams == 0..(N - 1)

VARIABLES ok,         \* does each upstream work?
          counter,    \* AtomicUsize of the balancer
          picks,      \* history: how often each upstream was picked
          wraps,      \* history: how often the counter wrapped
          phase,      \* where handle_connection is
          request,    \* the request read, then the one to be written
          chosen,     \* the upstream picked
          resp,       \* what the client has received
          forwarded,  \* has a byte of the request left for the upstream?
          sick        \* has the upstream been failing since the connect?

balancer == <<counter, picks, wraps>>
connState == <<phase, request, chosen, resp, forwarded, sick>>
vars == <<ok, balancer, connState>>

NoRequest == [target |-> "origin", head |-> [n \in Names |-> <<>>]]
ProxyErrors == {"400", "431", "502"}

Init ==
  /\ ok = [u \in Upstreams |-> TRUE]
  /\ counter = 0
  /\ picks = [u \in Upstreams |-> 0]
  /\ wraps = 0
  /\ phase = [c \in Conns |-> "closed"]
  /\ request = [c \in Conns |-> NoRequest]
  /\ chosen = [c \in Conns |-> 0]
  /\ resp = [c \in Conns |-> "none"]
  /\ forwarded = [c \in Conns |-> FALSE]
  /\ sick = [c \in Conns |-> FALSE]

(* An upstream fails or recovers, and its connections notice. *)
Flip(u) ==
  /\ ok' = [ok EXCEPT ![u] = ~@]
  /\ sick' = [c \in Conns |->
        sick[c] \/ (phase[c] \in {"connecting", "sending", "piping"} /\ chosen[c] = u /\ ok[u])]
  /\ UNCHANGED <<balancer, phase, request, chosen, resp, forwarded>>

-----------------------------------------------------------------------------
(* Steps of handle_connection. *)

Goto(c, p) == phase' = [phase EXCEPT ![c] = p]

(* The task ends; what it knew is gone, except what it sent to the client. *)
Close(c, status) ==
  /\ Goto(c, "closed")
  /\ resp' = [resp EXCEPT ![c] = IF status = "keep" THEN @ ELSE status]
  /\ request' = [request EXCEPT ![c] = NoRequest]
  /\ chosen' = [chosen EXCEPT ![c] = 0]
  /\ sick' = [sick EXCEPT ![c] = FALSE]
  /\ UNCHANGED <<ok, balancer>>

Open(c) ==
  /\ phase[c] = "closed"
  /\ Goto(c, "reading")
  /\ resp' = [resp EXCEPT ![c] = "none"]
  /\ forwarded' = [forwarded EXCEPT ![c] = FALSE]
  /\ UNCHANGED <<ok, balancer, request, chosen, sick>>

(* Step 1.  The head is complete ... *)
HeadRead(c, r) ==
  /\ phase[c] = "reading"
  /\ Goto(c, "picking")
  /\ request' = [request EXCEPT ![c] = r]
  /\ UNCHANGED <<ok, balancer, chosen, resp, forwarded, sick>>

(* ... or does not fit, or the client closed. *)
HeadRefused(c) ==
  /\ phase[c] = "reading"
  /\ Close(c, "431")
  /\ UNCHANGED forwarded

(* Mutant: the modulus is one short. *)
NextIndexShort(ticket) == ticket % (IF N > 1 THEN N - 1 ELSE N)

NextIndex(ticket) == ticket % N

(* Step 2.  Balancer::next: fetch_add wraps, and so does the rotation. *)
Pick(c) ==
  /\ phase[c] = "picking"
  /\ wraps * Width + counter < MaxPicks
  /\ Goto(c, "parsing")
  /\ LET u == NextIndex(counter)
     IN  chosen' = [chosen EXCEPT ![c] = u] /\ picks' = [picks EXCEPT ![u] = @ + 1]
  /\ counter' = (counter + 1) % Width
  /\ wraps' = IF counter' = 0 THEN wraps + 1 ELSE wraps
  /\ UNCHANGED <<ok, request, resp, forwarded, sick>>

(* Step 3.  The head is parsed and rewritten ... *)
Parsed(c) ==
  /\ phase[c] = "parsing" /\ ~TooManyHeaders(request[c])
  /\ Goto(c, "connecting")
  /\ request' = [request EXCEPT ![c] = ForwardB(@, chosen[c])]
  /\ sick' = [sick EXCEPT ![c] = ~ok[chosen[c]]]
  /\ UNCHANGED <<ok, balancer, chosen, resp, forwarded>>

(* ... or it is no HTTP, or has too many fields; the ticket is spent. *)
ParseFails(c) ==
  /\ phase[c] = "parsing"
  /\ Close(c, "400")
  /\ UNCHANGED forwarded

(* Step 4.  A failing upstream may still accept. *)
Connected(c) ==
  /\ phase[c] = "connecting"
  /\ Goto(c, "sending")
  /\ UNCHANGED <<ok, balancer, request, chosen, resp, forwarded, sick>>

ConnectFails(c) ==
  /\ phase[c] = "connecting" /\ sick[c]
  /\ Close(c, "502")
  /\ UNCHANGED forwarded

(* Step 5.  The rewritten head is written. *)
HeadSent(c) ==
  /\ phase[c] = "sending"
  /\ Goto(c, "piping")
  /\ forwarded' = [forwarded EXCEPT ![c] = TRUE]
  /\ request' = [request EXCEPT ![c] = NoRequest]
  /\ UNCHANGED <<ok, balancer, chosen, resp, sick>>

(* Mutant: a failed write is answered like a failed connect. *)
SendFails502(c) ==
  /\ phase[c] = "sending" /\ sick[c]
  /\ Close(c, "502")
  /\ forwarded' \in {forwarded, [forwarded EXCEPT ![c] = TRUE]}

(* Perhaps some bytes were written; the client is dropped (`?`). *)
SendFails(c) ==
  /\ phase[c] = "sending" /\ sick[c]
  /\ Close(c, "keep")
  /\ forwarded' \in {forwarded, [forwarded EXCEPT ![c] = TRUE]}

(* Step 6.  The answer reaches the client ... *)
Answered(c) ==
  /\ phase[c] = "piping" /\ resp[c] = "none"
  /\ resp' = [resp EXCEPT ![c] = "answer"]
  /\ UNCHANGED <<ok, balancer, phase, request, chosen, forwarded, sick>>

(* ... and the copy is over, failed, or cut off by transfer_timeout. *)
TransferEnds(c) ==
  /\ phase[c] = "piping"
  /\ Close(c, "keep")
  /\ UNCHANGED forwarded

-----------------------------------------------------------------------------
Proceed(c) ==
  \/ Pick(c) \/ Parsed(c) \/ ParseFails(c) \/ Connected(c) \/ ConnectFails(c)
  \/ HeadSent(c) \/ SendFails(c) \/ TransferEnds(c)

Next ==
  \/ \E u \in Upstreams : Flip(u)
  \/ \E c \in Conns :
       \/ Open(c) \/ HeadRefused(c) \/ Proceed(c) \/ Answered(c)
       \/ \E r \in Requests[c] : HeadRead(c, r)

(* Safety alone: that requests end is shown for crate C's handler, which   *)
(* has the same timeouts (RequestsEnd of Connection).                      *)
Spec == Init /\ [][Next]_vars

-----------------------------------------------------------------------------
TypeOK ==
  /\ ok \in [Upstreams -> BOOLEAN]
  /\ counter \in 0..(Width - 1) /\ wraps \in Nat
  /\ picks \in [Upstreams -> Nat]
  /\ phase \in [Conns -> {"closed", "reading", "picking", "parsing",
                          "connecting", "sending", "piping"}]
  /\ chosen \in [Conns -> Upstreams]
  /\ resp \in [Conns -> ProxyErrors \cup {"none", "answer"}]
  /\ forwarded \in [Conns -> BOOLEAN] /\ sick \in [Conns -> BOOLEAN]

(***************************************************************************)
(* The tickets are shared out evenly, whatever the tasks' interleaving and *)
(* however their requests end.  Where N does not divide 2^w, a wrap cuts a *)
(* round short and the first Width % N upstreams have had one turn more;   *)
(* but for these turns the picks of two upstreams differ by one at most.   *)
(***************************************************************************)
Extra(u) == IF u < Width % N THEN wraps ELSE 0

PicksAreEven ==
  \A u, v \in Upstreams : (picks[u] - Extra(u)) - (picks[v] - Extra(v)) <= 1

(***************************************************************************)
(* What an upstream is sent.  The head written in crate B is free of the   *)
(* client's versions of the fields the proxy speaks for, and names the     *)
(* upstream the connection goes to; the rest is the client's; and a request*)
(* with more than MAX_HEADERS fields never gets that far.  The same head   *)
(* would be rewritten as well by C and D (OursAlone).                      *)
(***************************************************************************)
HeadIsOurs ==
  \A c \in Conns :
    /\ phase[c] \in {"connecting", "sending"} =>
         /\ ValuesOf(request[c].head["host"]) = <<chosen[c]>>
         /\ \A n \in StripB \ {"host"} : ValuesOf(request[c].head[n]) = <<"ours">>
    /\ phase[c] = "picking" => \A k \in Crates : OursAlone(k, request[c], chosen[c])

UpstreamSeesOurs ==
  /\ HeadIsOurs
  /\ \A c \in Conns :
       phase[c] \in {"connecting", "sending"} =>
         Count(request[c].head) <= MaxHeaders + Cardinality(StripB)

(***************************************************************************)
(* The client's other fields arrive as it sent them, in B, C and D: two    *)
(* cookies remain two, in their order, whatever the case of their names.   *)
(***************************************************************************)
ClientFieldsArrive ==
  \A c \in Conns :
    phase[c] = "picking" => \A k \in Crates : RestUntouched(k, request[c], chosen[c])

(***************************************************************************)
(* A request answered by the proxy itself (400, 431, 502) has not reached  *)
(* an upstream, not even in part: the client may send it again.            *)
(***************************************************************************)
ErrorsAreRetrySafe == \A c \in Conns : resp[c] \in ProxyErrors => ~forwarded[c]
=============================================================================
