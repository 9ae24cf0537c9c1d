------------------------------- MODULE Tunnel -------------------------------
(***************************************************************************)
(* handle_connection of crate A (proxy.rs): connect to the upstream under  *)
(* a timeout, then copy bytes both ways under another one until both sides *)
(* have ended.  One connection; time is counted in ticks.                  *)
(*                                                                         *)
(* copy_bidirectional is tokio's.  In each direction it reads what the     *)
(* source sent, writes it to the destination, and shuts the destination's  *)
(* side down after the source's end of stream; it returns when both        *)
(* directions have got there, or at the first error.                       *)
(***************************************************************************)
EXTENDS Integers

CONSTANTS ConnectTimeout,   \* connect_timeout_secs
          TransferTimeouts, \* what transfer_timeout_secs may be
          MaxBytes,         \* bound: what a side sends
          BufSize           \* copy_bidirectional's buffer, per direction

(* Config::validate demands the first, and nothing of the second: 0 passes. *)
ASSUME ConnectTimeoutAssumption == ConnectTimeout \in Nat /\ ConnectTimeout > 0
ASSUME TransferTimeoutsAssumption == TransferTimeouts \subseteq Nat
ASSUME BoundsAssumption == MaxBytes \in Nat /\ BufSize \in Nat \ {0}

Dirs == {"up", "down"}   \* client to upstream, upstream to client

VARIABLES limit,      \* transfer_timeout_secs
          phase,      \* "connecting", "copying", "ok" or "err": what it returned
          timer,      \* ticks left of the timeout in force
          sent,       \* bytes each source has sent
          ended,      \* has the source ended its stream?
          broken,     \* did one of the two sides reset the connection?
          buffered,   \* bytes read and not yet written
          delivered,  \* bytes written to the destination
          shut,       \* has the destination been told of the end?
          age         \* history: ticks since the connection was accepted

vars == <<limit, phase, timer, sent, ended, broken, buffered, delivered, shut, age>>

Init ==
  /\ limit \in TransferTimeouts
  /\ phase = "connecting"
  /\ timer = ConnectTimeout
  /\ sent = [d \in Dirs |-> 0]
  /\ ended = [d \in Dirs |-> FALSE]
  /\ broken = FALSE
  /\ buffered = [d \in Dirs |-> 0]
  /\ delivered = [d \in Dirs |-> 0]
  /\ shut = [d \in Dirs |-> FALSE]
  /\ age = 0

Over == phase \in {"ok", "err"}

-----------------------------------------------------------------------------
(* The two sides.  The upstream can act once it is connected.              *)

Present(d) == phase = "copying" \/ (phase = "connecting" /\ d = "up")

Send(d) ==
  /\ Present(d) /\ ~ended[d] /\ ~broken /\ sent[d] < MaxBytes
  /\ sent' = [sent EXCEPT ![d] = @ + 1]
  /\ UNCHANGED <<limit, phase, timer, ended, broken, buffered, delivered, shut, age>>

EndStream(d) ==
  /\ Present(d) /\ ~ended[d] /\ ~broken
  /\ ended' = [ended EXCEPT ![d] = TRUE]
  /\ UNCHANGED <<limit, phase, timer, sent, broken, buffered, delivered, shut, age>>

Reset ==
  /\ ~Over /\ ~broken
  /\ broken' = TRUE
  /\ UNCHANGED <<limit, phase, timer, sent, ended, buffered, delivered, shut, age>>

-----------------------------------------------------------------------------
(* handle_connection                                                       *)

Connected ==
  /\ phase = "connecting"
  /\ phase' = "copying"
  /\ timer' = limit
  /\ UNCHANGED <<limit, sent, ended, broken, buffered, delivered, shut, age>>

(* Both `?` of the connect: refused, or the timeout expired. *)
ConnectFails ==
  /\ phase = "connecting"
  /\ phase' = "err"
  /\ UNCHANGED <<limit, timer, sent, ended, broken, buffered, delivered, shut, age>>

CopyRead(d) ==
  /\ phase = "copying" /\ ~broken
  /\ buffered[d] < BufSize /\ delivered[d] + buffered[d] < sent[d]
  /\ buffered' = [buffered EXCEPT ![d] = @ + 1]
  /\ UNCHANGED <<limit, phase, timer, sent, ended, broken, delivered, shut, age>>

(* Mutant: the timeout starts anew whenever a byte has moved. *)
CopyWriteRestarts(d) ==
  /\ phase = "copying" /\ ~broken
  /\ buffered[d] > 0
  /\ buffered' = [buffered EXCEPT ![d] = @ - 1]
  /\ delivered' = [delivered EXCEPT ![d] = @ + 1]
  /\ timer' = limit
  /\ UNCHANGED <<limit, phase, sent, ended, broken, shut, age>>

CopyWrite(d) ==
  /\ phase = "copying" /\ ~broken
  /\ buffered[d] > 0
  /\ buffered' = [buffered EXCEPT ![d] = @ - 1]
  /\ delivered' = [delivered EXCEPT ![d] = @ + 1]
  /\ UNCHANGED <<limit, phase, timer, sent, ended, broken, shut, age>>

CopyShut(d) ==
  /\ phase = "copying" /\ ~broken /\ ~shut[d]
  /\ ended[d] /\ delivered[d] = sent[d]
  /\ shut' = [shut EXCEPT ![d] = TRUE]
  /\ UNCHANGED <<limit, phase, timer, sent, ended, broken, buffered, delivered, age>>

(* Mutant: the first direction to end ends the connection. *)
CopyDoneEither ==
  /\ phase = "copying" /\ \E d \in Dirs : shut[d]
  /\ phase' = "ok"
  /\ UNCHANGED <<limit, timer, sent, ended, broken, buffered, delivered, shut, age>>

(* Both directions have ended: Ok(()). *)
CopyDone ==
  /\ phase = "copying" /\ \A d \in Dirs : shut[d]
  /\ phase' = "ok"
  /\ UNCHANGED <<limit, timer, sent, ended, broken, buffered, delivered, shut, age>>

(* "error during bidirectional copy" *)
CopyError ==
  /\ phase = "copying" /\ broken
  /\ phase' = "err"
  /\ UNCHANGED <<limit, timer, sent, ended, broken, buffered, delivered, shut, age>>

(* Mutant: copy_bidirectional without the timeout around it. *)
TransferNeverTimesOut == FALSE /\ UNCHANGED vars

(* "transfer timed out": the copy is dropped, and the two sockets with it. *)
TransferTimesOut ==
  /\ phase = "copying" /\ timer = 0
  /\ phase' = "err"
  /\ UNCHANGED <<limit, timer, sent, ended, broken, buffered, delivered, shut, age>>

Tick ==
  /\ ~Over /\ timer > 0
  /\ timer' = timer - 1
  /\ age' = age + 1
  /\ UNCHANGED <<limit, phase, sent, ended, broken, buffered, delivered, shut>>

-----------------------------------------------------------------------------
Copy == \/ \E d \in Dirs : CopyRead(d) \/ CopyWrite(d) \/ CopyShut(d)
        \/ CopyDone \/ CopyError

(* timeout() gives up a connect at the latest when its timer is at 0. *)
ConnectTimesOut == timer = 0 /\ ConnectFails

Next ==
  \/ \E d \in Dirs : Send(d) \/ EndStream(d)
  \/ Reset \/ Connected \/ ConnectFails
  \/ Copy \/ TransferTimesOut \/ Tick

(* Time passes and timers fire.  The copy may stop anywhere: it waits for  *)
(* the sides to send, and to read what is written to them.                 *)
Spec ==
  /\ Init /\ [][Next]_vars
  /\ WF_vars(Tick) /\ WF_vars(ConnectTimesOut) /\ WF_vars(TransferTimesOut)

-----------------------------------------------------------------------------
TypeOK ==
  /\ limit \in TransferTimeouts
  /\ phase \in {"connecting", "copying", "ok", "err"}
  /\ timer \in Nat /\ age \in Nat
  /\ broken \in BOOLEAN
  /\ ended \in [Dirs -> BOOLEAN] /\ shut \in [Dirs -> BOOLEAN]
  /\ \A d \in Dirs : /\ sent[d] \in 0 .. MaxBytes
                     /\ buffered[d] \in 0 .. BufSize
                     /\ delivered[d] \in 0 .. sent[d] - buffered[d]

(***************************************************************************)
(* handle_connection returns Ok only for a connection that lost nothing:   *)
(* both streams ended and both arrived in full.  A half-closed client gets *)
(* its answer.                                                             *)
(***************************************************************************)
OkMeansComplete ==
  phase = "ok" => \A d \in Dirs : ended[d] /\ delivered[d] = sent[d]

(***************************************************************************)
(* No connection holds its task and its two sockets for ever, whatever the *)
(* two sides do or fail to do.                                             *)
(***************************************************************************)
ConnectionEnds == <>Over

(***************************************************************************)
(* The two timeouts together bound a connection's life, whether or not its *)
(* bytes still flow: the second is of the whole transfer, not of an idle   *)
(* time ("kill connections that are idle/hung too long"), and where it is 0*)
(* no connection outlives its connect.                                     *)
(***************************************************************************)
LifeIsBounded == age <= ConnectTimeout + limit
=============================================================================
