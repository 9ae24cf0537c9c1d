----------------------------- MODULE Connection -----------------------------
(***************************************************************************)
(* handle_connection of crate C (proxy.rs): the life of a client           *)
(* connection from the TLS handshake to the end of the transfer, many at a *)
(* time, against upstreams that fail and recover.                          *)
(*                                                                         *)
(* It is composed of its neighbours' specifications: a pick is a pick of   *)
(* PickSpec, the flags are stored as CheckerSpec allows.  CrateC puts the  *)
(* neighbours themselves in their places.  A connection is a task; a step  *)
(* is what it does between two of its awaits, or one outcome of an await.  *)
(***************************************************************************)

CONSTANTS Conns,      \* connections open at the same time
          Upstreams,
          None

VARIABLES ok,         \* does each upstream work?  (CheckerSpec)
          flags,      \* HealthFlags
          seen,       \* CheckerSpec's history
          picking,    \* PickSpec: is the connection in next_healthy?
          result,     \* PickSpec: the upstream it was given
          steady,     \* PickSpec's history
          phase,      \* where handle_connection is
          resp,       \* what the client has received
          forwarded,  \* has any byte of the request been sent to an upstream?
          sick,       \* has the chosen upstream been seen failing by this connection?
          asked,      \* history: the proxy received a complete request head
          gone,       \* the client has gone away
          everFailed  \* history: upstreams that have ever not worked

pickState  == <<picking, result, steady>>
checkState == <<ok, flags, seen>>
connState  == <<phase, resp, forwarded, sick, asked, gone>>
vars == <<checkState, pickState, connState, everFailed>>

Pick  == INSTANCE PickSpec WITH Callers <- Conns
Check == INSTANCE CheckerSpec

Phases == {"closed", "handshake", "reading", "picking", "parsing",
           "connecting", "sending", "piping"}
ProxyErrors == {"400", "431", "502", "503"}

TasksInit ==
  /\ phase = [c \in Conns |-> "closed"]
  /\ resp = [c \in Conns |-> "none"]
  /\ forwarded = [c \in Conns |-> FALSE]
  /\ sick = [c \in Conns |-> FALSE]
  /\ asked = [c \in Conns |-> FALSE]
  /\ gone = [c \in Conns |-> FALSE]
  /\ everFailed = {u \in Upstreams : ~ok[u]}

Init == Check!Init /\ Pick!Init /\ TasksInit

-----------------------------------------------------------------------------
(* The upstreams and their checkers.                                       *)

(* Connections that are using upstream u will notice that it fails. *)
Notice(u) ==
  /\ sick' = [c \in Conns |->
        sick[c] \/ (phase[c] \in {"connecting", "sending", "piping"} /\ result[c] = u /\ ok[u])]
  /\ everFailed' = IF ok[u] THEN everFailed \cup {u} ELSE everFailed
  /\ UNCHANGED <<phase, resp, forwarded, asked, gone>>

Flip(u) == Check!Flip(u) /\ Notice(u) /\ UNCHANGED pickState

Store(u, b) ==
  /\ Check!StoreFlag(u, b)
  /\ Pick!SetFlag(u, b)
  /\ UNCHANGED <<connState, everFailed>>

-----------------------------------------------------------------------------
(* Steps of handle_connection.                                             *)

Goto(c, p) == phase' = [phase EXCEPT ![c] = p]

(* The task moves on and nothing else happens. *)
Advance(c, from, to) ==
  /\ phase[c] = from
  /\ Goto(c, to)
  /\ UNCHANGED <<checkState, pickState, resp, forwarded, sick, asked, gone, everFailed>>

(* `let _ = client.write_all(RESPONSE_..)`, return Ok; a lost client is ignored.*)
Respond(c, status) ==
  /\ Goto(c, "closed")
  /\ resp' = [resp EXCEPT ![c] = IF gone[c] THEN @ ELSE status]
  /\ UNCHANGED <<forwarded, sick, asked, gone, everFailed>>

(* A client connects: a new task, in the place of one that ended. *)
Open(c) ==
  /\ phase[c] = "closed"
  /\ Goto(c, "handshake")
  /\ resp' = [resp EXCEPT ![c] = "none"]
  /\ forwarded' = [forwarded EXCEPT ![c] = FALSE]
  /\ sick' = [sick EXCEPT ![c] = FALSE]
  /\ asked' = [asked EXCEPT ![c] = FALSE]
  /\ gone' = [gone EXCEPT ![c] = FALSE]
  /\ UNCHANGED <<checkState, pickState, everFailed>>

(* The client may leave at any time. *)
Leave(c) ==
  /\ phase[c] # "closed" /\ ~gone[c]
  /\ gone' = [gone EXCEPT ![c] = TRUE]
  /\ UNCHANGED <<checkState, pickState, phase, resp, forwarded, sick, asked, everFailed>>

(* Step 1.  The handshake succeeds, or fails or times out without an answer.*)
Handshake(c) == ~gone[c] /\ Advance(c, "handshake", "reading")

HandshakeFails(c) == Advance(c, "handshake", "closed")

(* Step 2.  The head is complete ... *)
EndHead(c) ==
  /\ phase[c] = "reading" /\ ~gone[c]
  /\ Goto(c, "picking")
  /\ asked' = [asked EXCEPT ![c] = TRUE]
  /\ UNCHANGED <<resp, forwarded, sick, gone, everFailed>>

HeadRead(c) == EndHead(c) /\ Pick!Begin(c) /\ UNCHANGED <<ok, seen>>

(* ... or it is too large, or the client closed or failed: 431 for all three.*)
HeadRefused(c) ==
  /\ phase[c] = "reading"
  /\ Respond(c, "431")
  /\ UNCHANGED <<checkState, pickState>>

(* Step 3.  next_healthy returns an upstream ... *)
TakeUpstream(c) ==
  /\ phase[c] = "picking"
  /\ Goto(c, "parsing")
  /\ UNCHANGED <<resp, forwarded, sick, asked, gone, everFailed>>

Picked(c, u) == TakeUpstream(c) /\ Pick!EndWith(c, u) /\ UNCHANGED <<ok, seen>>

(* ... or None. *)
TakeNone(c) == phase[c] = "picking" /\ Respond(c, "503")

NonePicked(c) == TakeNone(c) /\ Pick!EndWithNone(c) /\ UNCHANGED <<ok, seen>>

(* Step 4.  build_forwarded_request; the connect attempt begins. *)
Parsed(c) ==
  /\ phase[c] = "parsing"
  /\ Goto(c, "connecting")
  /\ sick' = [sick EXCEPT ![c] = ~ok[result[c]]]
  /\ UNCHANGED <<checkState, pickState, resp, forwarded, asked, gone, everFailed>>

ParseFails(c) ==
  /\ phase[c] = "parsing"
  /\ Respond(c, "400")
  /\ UNCHANGED <<checkState, pickState>>

(* Step 5.  The connect succeeds (a failing upstream may still accept) ... *)
Connected(c) == Advance(c, "connecting", "sending")

(* ... or is refused or times out: only by an upstream that failed meanwhile.*)
ConnectFails(c) ==
  /\ phase[c] = "connecting" /\ sick[c]
  /\ Respond(c, "502")
  /\ UNCHANGED <<checkState, pickState>>

(* Step 6.  `upstream.write_all(&rewritten)`: bytes leave ... *)
HeadSent(c) ==
  /\ phase[c] = "sending"
  /\ Goto(c, "piping")
  /\ forwarded' = [forwarded EXCEPT ![c] = TRUE]
  /\ UNCHANGED <<checkState, pickState, resp, sick, asked, gone, everFailed>>

(* Mutant: the failed write is answered like a failed connect. *)
SendFails502(c) ==
  /\ phase[c] = "sending" /\ sick[c]
  /\ Goto(c, "closed")
  /\ forwarded' = [forwarded EXCEPT ![c] = TRUE]
  /\ resp' = [resp EXCEPT ![c] = "502"]
  /\ UNCHANGED <<checkState, pickState, sick, asked, gone, everFailed>>

(* ... some of them, perhaps, before it fails: `?`, and the client is dropped.*)
SendFails(c) ==
  /\ phase[c] = "sending" /\ sick[c]
  /\ Goto(c, "closed")
  /\ forwarded' \in {forwarded, [forwarded EXCEPT ![c] = TRUE]}
  /\ UNCHANGED <<checkState, pickState, resp, sick, asked, gone, everFailed>>

(* Step 7.  The upstream's answer reaches the client. *)
Answered(c) ==
  /\ phase[c] = "piping" /\ ~gone[c]
  /\ resp[c] = "none"
  /\ resp' = [resp EXCEPT ![c] = "answer"]
  /\ UNCHANGED <<checkState, pickState, phase, forwarded, sick, asked, gone, everFailed>>

(* Mutant: copy_bidirectional without its timeout. *)
TransferEndsByItself(c) ==
  /\ phase[c] = "piping" /\ ok[result[c]]
  /\ Advance(c, "piping", "closed")

(* Both sides are done, one of them failed, or transfer_timeout expired. *)
TransferEnds(c) == Advance(c, "piping", "closed")

-----------------------------------------------------------------------------
(* What the task does without waiting for the client. *)
Proceed(c) ==
  \/ \E u \in Upstreams : Picked(c, u)
  \/ NonePicked(c) \/ Parsed(c) \/ ParseFails(c)
  \/ Connected(c) \/ ConnectFails(c)
  \/ HeadSent(c) \/ SendFails(c) \/ TransferEnds(c)

Next ==
  \/ \E c \in Conns :
       \/ Open(c) \/ Leave(c)
       \/ Handshake(c) \/ HandshakeFails(c)
       \/ HeadRead(c) \/ HeadRefused(c)
       \/ Proceed(c) \/ Answered(c)
  \/ \E u \in Upstreams : Flip(u) \/ \E b \in BOOLEAN : Store(u, b)

(* The handshake has a timeout; reading the head has none, so it ends only *)
(* if the client sends or leaves (a read on a dead connection fails).      *)
ReadAfterLeave(c) == gone[c] /\ HeadRefused(c)

Spec ==
  /\ Init /\ [][Next]_vars
  /\ \A c \in Conns :
       WF_vars(HandshakeFails(c)) /\ WF_vars(ReadAfterLeave(c)) /\ WF_vars(Proceed(c))
  /\ \A u \in Upstreams : WF_vars(\E b \in BOOLEAN : Store(u, b))

Safe == Init /\ [][Next]_vars

-----------------------------------------------------------------------------
TypeOK ==
  /\ ok \in [Upstreams -> BOOLEAN] /\ flags \in [Upstreams -> BOOLEAN]
  /\ seen \in [Upstreams -> SUBSET BOOLEAN]
  /\ picking = [c \in Conns |-> phase[c] = "picking"]
  /\ result \in [Conns -> Upstreams \cup {None}]
  /\ steady \in [Conns -> SUBSET Upstreams]
  /\ phase \in [Conns -> Phases]
  /\ resp \in [Conns -> ProxyErrors \cup {"none", "answer"}]
  /\ forwarded \in [Conns -> BOOLEAN] /\ sick \in [Conns -> BOOLEAN]
  /\ asked \in [Conns -> BOOLEAN] /\ gone \in [Conns -> BOOLEAN]
  /\ everFailed \subseteq Upstreams
  /\ \A c \in Conns : phase[c] \in {"parsing", "connecting", "sending", "piping"} =>
       result[c] \in Upstreams

(***************************************************************************)
(* A request the proxy answers with an error of its own (400, 431, 502 or  *)
(* 503) has not reached any upstream, not even in part: the client may     *)
(* retry it, whatever its method.                                          *)
(***************************************************************************)
ProxyErrorsAreRetrySafe ==
  \A c \in Conns : resp[c] \in ProxyErrors => ~forwarded[c]

(***************************************************************************)
(* End to end, through checker, balancer and connection: a 503 is sent     *)
(* only if every upstream has failed at some time, a 502 only if the one   *)
(* chosen has; upstreams that always work never cost a client an error.    *)
(***************************************************************************)
WorkingUpstreamsNeverBlamed ==
  \A c \in Conns :
    /\ resp[c] = "503" => everFailed = Upstreams
    /\ resp[c] = "502" => result[c] \in everFailed

(***************************************************************************)
(* "HTTP error responses (no TCP resets)": a client that sent a complete   *)
(* request and waits gets some response before the connection closes.  The *)
(* code does not do this (SendFails, TransferEnds before Answered); no run *)
(* claims it.                                                              *)
(***************************************************************************)
NoSilentClose ==
  \A c \in Conns :
    phase[c] = "closed" /\ asked[c] /\ ~gone[c] => resp[c] # "none"

(***************************************************************************)
(* "Dead backends are automatically removed from rotation": one that stays *)
(* dead is, from some point on, not chosen any more, by any connection.    *)
(***************************************************************************)
DeadBackendIsAvoided ==
  \A u \in Upstreams :
    <>[](~ok[u]) => <>[](\A c \in Conns : phase[c] = "connecting" => result[c] # u)

(***************************************************************************)
(* Nothing an upstream does or fails to do keeps a connection for ever:    *)
(* once its request was read it closes.                                    *)
(***************************************************************************)
RequestsEnd ==
  \A c \in Conns :
    phase[c] \notin {"closed", "reading"} ~> phase[c] \in {"closed", "reading"}
=============================================================================
