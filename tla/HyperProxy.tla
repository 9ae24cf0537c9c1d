----------------------------- MODULE HyperProxy -----------------------------
(***************************************************************************)
(* Crate D's proxy.rs: a client connection carries several requests, each  *)
(* handled by its own run of ProxyService::handle - at the same time over  *)
(* HTTP/2, one after the other over HTTP/1.1.  A request gets an upstream  *)
(* connection of its own, driven by a spawned task, the link.              *)
(*                                                                         *)
(* hyper, which is external, calls handle, sends what it returns, and drops*)
(* it at an await when the client gives up.  Composed, like Connection,    *)
(* with PickSpec (next_healthy) and CheckerSpec (the health checkers).     *)
(***************************************************************************)
EXTENDS Integers, FiniteSets

CONSTANTS Conns,      \* client connections open at the same time
          Slots,      \* bound: requests in flight on one connection
          Upstreams,
          None

ASSUME NoneAssumption == None \notin Upstreams

Streams == Conns \X Slots
ConnOf(s) == s[1]
On(c) == {s \in Streams : ConnOf(s) = c}

VARIABLES ok, flags, seen,          \* CheckerSpec
          picking, result, steady,  \* PickSpec
          conn,       \* state of each client connection
          phase,      \* where handle is, for each request
          resp,       \* what the client has been sent for the request
          link,       \* is the request's upstream connection open?
          forwarded,  \* has any byte of the request left for an upstream?
          sick,       \* has the chosen upstream been failing meanwhile?
          flow,       \* what is wrong with the bodies on the client's side
          everFailed  \* history: upstreams that have ever not worked

checkState == <<ok, flags, seen>>
pickState  == <<picking, result, steady>>
reqState   == <<phase, resp, link, forwarded, sick, flow>>
vars == <<checkState, pickState, reqState, conn, everFailed>>

Pick  == INSTANCE PickSpec WITH Callers <- Streams
Check == INSTANCE CheckerSpec

Phases == {"free", "queued", "picking", "building", "connecting",
           "handshaking", "sending", "body"}
(* The awaits of handle and of the response: hyper can drop it there. *)
Awaits == {"queued", "connecting", "handshaking", "sending", "body"}
Handled == Phases \ {"free", "queued"}

(* server_config.alpn_protocols, and what rustls makes of a client's list. *)
Alpn == {"h2", "http/1.1"}

Negotiated(offer) ==
  CASE offer = {} -> "h1"                       \* no ALPN: not b"h2"
    [] "h2" \in offer -> "h2"
    [] "h2" \notin offer /\ offer \cap Alpn # {} -> "h1"
    [] offer # {} /\ offer \cap Alpn = {} -> "closed"   \* alert

TasksInit ==
  /\ conn = [c \in Conns |-> "closed"]
  /\ phase = [s \in Streams |-> "free"]
  /\ resp = [s \in Streams |-> "none"]
  /\ link = [s \in Streams |-> FALSE]
  /\ forwarded = [s \in Streams |-> FALSE]
  /\ sick = [s \in Streams |-> FALSE]
  /\ flow = [s \in Streams |-> {}]
  /\ everFailed = {u \in Upstreams : ~ok[u]}

Init == Check!Init /\ Pick!Init /\ TasksInit

-----------------------------------------------------------------------------
(* The upstreams and their checkers; requests that use u notice. *)
Notice(u) ==
  /\ sick' = [s \in Streams |->
        sick[s] \/ (phase[s] \in {"connecting", "handshaking", "sending", "body"}
                    /\ result[s] = u /\ ok[u])]
  /\ everFailed' = IF ok[u] THEN everFailed \cup {u} ELSE everFailed
  /\ UNCHANGED <<conn, phase, resp, link, forwarded, flow>>

Flip(u) == Check!Flip(u) /\ Notice(u) /\ UNCHANGED pickState

Store(u, b) ==
  /\ Check!StoreFlag(u, b) /\ Pick!SetFlag(u, b)
  /\ UNCHANGED <<reqState, conn, everFailed>>

-----------------------------------------------------------------------------
(* Client connections: handle_connection.                                  *)

ConnStep(c, from, to) ==
  /\ conn[c] \in from
  /\ conn' = [conn EXCEPT ![c] = to]
  /\ UNCHANGED <<checkState, pickState, reqState, everFailed>>

Open(c) ==
  /\ \A s \in On(c) : phase[s] = "free" /\ ~link[s]
  /\ ConnStep(c, {"closed"}, "handshake")

(* `timeout(handshake_dur, acceptor.accept(tcp))`, then the ALPN choice. *)
Handshake(c) ==
  \E offer \in SUBSET {"h2", "http/1.1", "other"} :
    ConnStep(c, {"handshake"}, Negotiated(offer))

HandshakeFails(c) == ConnStep(c, {"handshake"}, "closed")

(* The client goes away, or breaks the protocol: serve_connection returns. *)
Leave(c) == ConnStep(c, {"handshake", "h1", "h2"}, "closed")

(* The client sends a request, on a slot whose previous one is over. *)
Request(s) ==
  /\ conn[ConnOf(s)] \in {"h1", "h2"} /\ phase[s] = "free" /\ ~link[s]
  /\ phase' = [phase EXCEPT ![s] = "queued"]
  /\ resp' = [resp EXCEPT ![s] = "none"]
  /\ UNCHANGED <<checkState, pickState, link, forwarded, sick, flow, conn, everFailed>>

(* What can be wrong with a request's bodies on the client's side: "stalled"*)
(* (for now nothing more of the request comes, or nothing of the answer is *)
(* read; over HTTP/2 also because other streams have used up the window of *)
(* the connection) and "broken" (the request's body is malformed, short or *)
(* reset: reading it fails).                                               *)
Faults == {"stalled", "broken"}

ClientFlow(s) ==
  /\ phase[s] \in {"sending", "body"} /\ conn[ConnOf(s)] # "closed"
  /\ \E f \in (SUBSET Faults) \ {flow[s]} :
       /\ "broken" \in flow[s] => "broken" \in f
       /\ flow' = [flow EXCEPT ![s] = f]
  /\ UNCHANGED <<checkState, pickState, phase, resp, link, forwarded, sick, conn, everFailed>>

-----------------------------------------------------------------------------
(* ProxyService::handle.                                                   *)

Goto(s, p) == phase' = [phase EXCEPT ![s] = p]

Advance(s, from, to) ==
  /\ phase[s] = from
  /\ Goto(s, to)
  /\ UNCHANGED <<checkState, pickState, resp, link, forwarded, sick, flow, conn, everFailed>>

(* handle is over; what it knew is gone. *)
End(s) ==
  /\ Goto(s, "free")
  /\ forwarded' = [forwarded EXCEPT ![s] = FALSE]
  /\ sick' = [sick EXCEPT ![s] = FALSE]
  /\ flow' = [flow EXCEPT ![s] = {}]

(* error_response, with its `connection: close`: hyper heeds it over       *)
(* HTTP/1.1 and drops the header over HTTP/2.                              *)
ErrorResponse(s, status) ==
  /\ End(s)
  /\ resp' = [resp EXCEPT ![s] = IF conn[ConnOf(s)] = "closed" THEN @ ELSE status]
  /\ conn' = [conn EXCEPT ![ConnOf(s)] = IF @ = "h1" THEN "closed" ELSE @]

(* Service::call: at once over HTTP/2, in turn over HTTP/1.1. *)
BeginHandle(s) ==
  /\ phase[s] = "queued" /\ conn[ConnOf(s)] \in {"h1", "h2"}
  /\ conn[ConnOf(s)] = "h1" => \A t \in On(ConnOf(s)) : phase[t] \notin Handled
  /\ Goto(s, "picking")
  /\ UNCHANGED <<resp, link, forwarded, sick, flow, conn, everFailed>>

Call(s) == BeginHandle(s) /\ Pick!Begin(s) /\ UNCHANGED <<ok, seen>>

TakeUpstream(s) ==
  /\ phase[s] = "picking"
  /\ Goto(s, "building")
  /\ UNCHANGED <<resp, link, forwarded, sick, flow, conn, everFailed>>

Picked(s, u) == TakeUpstream(s) /\ Pick!EndWith(s, u) /\ UNCHANGED <<ok, seen>>

TakeNone(s) ==
  /\ phase[s] = "picking"
  /\ ErrorResponse(s, "503")
  /\ UNCHANGED <<link, everFailed>>

NonePicked(s) == TakeNone(s) /\ Pick!EndWithNone(s) /\ UNCHANGED <<ok, seen>>

Built(s) ==
  /\ phase[s] = "building"
  /\ Goto(s, "connecting")
  /\ sick' = [sick EXCEPT ![s] = ~ok[result[s]]]
  /\ UNCHANGED <<checkState, pickState, resp, link, forwarded, flow, conn, everFailed>>

BuildFails(s) ==
  /\ phase[s] = "building"
  /\ ErrorResponse(s, "502")
  /\ UNCHANGED <<checkState, pickState, link, everFailed>>

Connected(s) == Advance(s, "connecting", "handshaking")

(* Refused, or timed out: by an upstream that has been failing. *)
ConnectFails(s) ==
  /\ phase[s] = "connecting" /\ sick[s]
  /\ ErrorResponse(s, "502")
  /\ UNCHANGED <<checkState, pickState, link, everFailed>>

(* http1::handshake, `tokio::spawn(conn)`, and send_request begins: from   *)
(* here on bytes of the request may have left.                             *)
Spawned(s) ==
  /\ phase[s] = "handshaking"
  /\ Goto(s, "sending")
  /\ link' = [link EXCEPT ![s] = TRUE]
  /\ forwarded' \in {forwarded, [forwarded EXCEPT ![s] = TRUE]}
  /\ UNCHANGED <<checkState, pickState, resp, sick, flow, conn, everFailed>>

ClientHandshakeFails(s) ==
  /\ phase[s] = "handshaking" /\ sick[s]
  /\ ErrorResponse(s, "502")
  /\ UNCHANGED <<checkState, pickState, link, everFailed>>

(* send_request returns the head of the answer; the body is streamed. *)
Answered(s) ==
  /\ phase[s] = "sending" /\ link[s]
  /\ Goto(s, "body")
  /\ resp' = [resp EXCEPT ![s] = IF conn[ConnOf(s)] = "closed" THEN @ ELSE "answer"]
  /\ forwarded' = [forwarded EXCEPT ![s] = TRUE]
  /\ UNCHANGED <<checkState, pickState, link, sick, flow, conn, everFailed>>

(* Mutant: a failed send is answered with 503. *)
SendFails503(s) ==
  /\ phase[s] = "sending" /\ ~link[s]
  /\ ErrorResponse(s, "503")
  /\ UNCHANGED <<checkState, pickState, link, everFailed>>

(* send_request fails when its link has ended. *)
SendFails(s) ==
  /\ phase[s] = "sending" /\ ~link[s]
  /\ ErrorResponse(s, "502")
  /\ UNCHANGED <<checkState, pickState, link, everFailed>>

(* Mutant: the body is taken to last until the upstream closes. *)
BodyEndsByClose(s) ==
  /\ phase[s] = "body" /\ ~link[s]
  /\ End(s)
  /\ UNCHANGED <<checkState, pickState, resp, link, conn, everFailed>>

(* The body has been streamed; over HTTP/1.1 nothing can follow a request  *)
(* whose own body broke ...                                                *)
BodyEnds(s) ==
  /\ phase[s] = "body" /\ link[s]
  /\ IF "broken" \in flow[s] THEN ErrorResponse(s, resp[s]) ELSE End(s) /\ UNCHANGED <<resp, conn>>
  /\ UNCHANGED <<checkState, pickState, link, everFailed>>

(* ... or breaks off: a reset over HTTP/2, the end of an HTTP/1.1 connection.*)
BodyBreaks(s) ==
  /\ phase[s] = "body" /\ ~link[s]
  /\ ErrorResponse(s, resp[s])
  /\ UNCHANGED <<checkState, pickState, link, everFailed>>

(* hyper drops the future: the client is gone, or has reset the stream. *)
Cancel(s) ==
  /\ phase[s] \in Awaits /\ conn[ConnOf(s)] \in {"h2", "closed"}
  /\ End(s)
  /\ UNCHANGED <<checkState, pickState, resp, link, conn, everFailed>>

(* Mutant: the link waits for the answer to a request nobody awaits. *)
LinkEndsLate(s) ==
  /\ link[s] /\ phase[s] \notin {"sending", "body"} /\ ok[result[s]]
  /\ link' = [link EXCEPT ![s] = FALSE]
  /\ UNCHANGED <<checkState, pickState, phase, resp, forwarded, sick, flow, conn, everFailed>>

(* The spawned connection task ends once its sender and body are dropped ... *)
LinkEnds(s) ==
  /\ link[s] /\ phase[s] \notin {"sending", "body"}
  /\ link' = [link EXCEPT ![s] = FALSE]
  /\ UNCHANGED <<checkState, pickState, phase, resp, forwarded, sick, flow, conn, everFailed>>

(* ... or when the upstream, failing, closes or resets the connection, or  *)
(* when the client's body, which the task reads as it sends it, breaks.    *)
LinkBreaks(s) ==
  /\ link[s] /\ phase[s] \in {"sending", "body"}
  /\ sick[s] \/ "broken" \in flow[s]
  /\ link' = [link EXCEPT ![s] = FALSE]
  /\ UNCHANGED <<checkState, pickState, phase, resp, forwarded, sick, flow, conn, everFailed>>

-----------------------------------------------------------------------------
(* What handle and its link do by themselves, within the connect timeout. *)
Proceed(s) ==
  \/ Call(s) \/ (\E u \in Upstreams : Picked(s, u)) \/ NonePicked(s)
  \/ Built(s) \/ BuildFails(s) \/ Connected(s) \/ ConnectFails(s)
  \/ Spawned(s) \/ ClientHandshakeFails(s) \/ SendFails(s)

(* What waits for the upstream, with no timeout in handle. *)
Upstream(s) == Answered(s) \/ BodyEnds(s)

Next ==
  \/ \E c \in Conns : Open(c) \/ Handshake(c) \/ HandshakeFails(c) \/ Leave(c)
  \/ \E s \in Streams :
       \/ Request(s) \/ ClientFlow(s) \/ Proceed(s) \/ Upstream(s) \/ BodyBreaks(s)
       \/ Cancel(s) \/ LinkEnds(s) \/ LinkBreaks(s)
  \/ \E u \in Upstreams : Flip(u) \/ \E b \in BOOLEAN : Store(u, b)

(* An upstream that works takes the request and answers, if the client lets*)
(* it: one that fails, and a client that stalls, owe nothing.  A body that *)
(* broke is noticed when the upstream takes more of it.                    *)
Exchange(s) ==
  \/ Upstream(s) /\ ok[result[s]] /\ flow[s] = {}
  \/ LinkBreaks(s) /\ ok[result[s]] /\ flow[s] = {"broken"}
  \/ BodyBreaks(s) /\ "stalled" \notin flow[s]

(* A client that has gone is noticed; one that is there may wait for ever. *)
RunsOn(s) ==
  \/ Proceed(s) \/ Exchange(s) \/ LinkEnds(s)
  \/ conn[ConnOf(s)] = "closed" /\ Cancel(s)

Spec == Init /\ [][Next]_vars /\ \A s \in Streams : WF_vars(RunsOn(s))

Safe == Init /\ [][Next]_vars

-----------------------------------------------------------------------------
TypeOK ==
  /\ ok \in [Upstreams -> BOOLEAN] /\ flags \in [Upstreams -> BOOLEAN]
  /\ seen \in [Upstreams -> SUBSET BOOLEAN]
  /\ picking = [s \in Streams |-> phase[s] = "picking"]
  /\ result \in [Streams -> Upstreams \cup {None}]
  /\ steady \in [Streams -> SUBSET Upstreams]
  /\ conn \in [Conns -> {"closed", "handshake", "h1", "h2"}]
  /\ phase \in [Streams -> Phases]
  /\ resp \in [Streams -> {"none", "502", "503", "answer"}]
  /\ link \in [Streams -> BOOLEAN] /\ forwarded \in [Streams -> BOOLEAN]
  /\ sick \in [Streams -> BOOLEAN]
  /\ flow \in [Streams -> SUBSET Faults]
  /\ everFailed \subseteq Upstreams
  /\ \A s \in Streams : phase[s] \in Handled \ {"picking"} => result[s] # None

(***************************************************************************)
(* What a client may conclude from an error of the proxy.  After a 503 no  *)
(* upstream has seen the request and all had failed at some time; after a  *)
(* 502 the chosen upstream had failed, or the request could not be built   *)
(* and has not left, or its own body broke while it was sent: no failure   *)
(* of another request, another upstream or the proxy comes out as a 502.   *)
(* Unlike crate C's, a 502 of crate D is not always safe to retry          *)
(* (send_request's error is answered like a failed connect).               *)
(***************************************************************************)
ErrorsAreEarned ==
  [][\A s \in Streams :
       resp[s] = "none" =>
         /\ resp'[s] = "503" => ~forwarded[s] /\ everFailed = Upstreams
         /\ resp'[s] = "502" =>
              \/ phase[s] = "building" /\ ~forwarded[s]
              \/ phase[s] = "sending" /\ "broken" \in flow[s]
              \/ phase[s] # "building" /\ result[s] \in everFailed]_vars

(***************************************************************************)
(* send_request and the streaming of the answer have no timeout.  What     *)
(* remains true: a request is over in the end, unless the upstream that    *)
(* accepted it fails or its own bodies stall on the client's side.  A body *)
(* that breaks does not hold it; neither does, over HTTP/2, another request*)
(* of the connection, be it held itself.                                   *)
(***************************************************************************)
OnlyFailuresAndStallsHold ==
  \A s \in Streams :
    phase[s] \in Handled \/ (phase[s] = "queued" /\ conn[ConnOf(s)] = "h2")
      ~> \/ phase[s] = "free"
         \/ phase[s] \in {"sending", "body"} /\ (~ok[result[s]] \/ "stalled" \in flow[s])

(***************************************************************************)
(* No link leaks.  When a client leaves, or gives up one request of a      *)
(* connection that stays, even one held by a hung upstream, the upstream   *)
(* connection made for the request is closed.                              *)
(***************************************************************************)
AbandonedLinksEnd ==
  \A s \in Streams : conn[ConnOf(s)] = "closed" \/ phase[s] = "free" ~> ~link[s]
=============================================================================
