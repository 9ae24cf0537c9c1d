---------------------------- MODULE TunnelProofs ----------------------------
(***************************************************************************)
(* Proofs about Tunnel, for all timeouts, buffers and lengths of streams.  *)
(***************************************************************************)
EXTENDS Tunnel, TLAPS

(* The counters are functions on the directions. *)
Counters ==
  /\ sent \in [Dirs -> Nat] /\ buffered \in [Dirs -> Nat] /\ delivered \in [Dirs -> Nat]

(* A side that is shut: its source ended, and nothing of it is left. *)
ShutIsDone ==
  /\ \A d \in Dirs : shut[d] => ended[d] /\ delivered[d] = sent[d]
  /\ phase = "ok" => \A d \in Dirs : shut[d]

(* What a connection may still live, added to what it has lived. *)
AgeAndTimer ==
  /\ phase = "connecting" => age + timer <= ConnectTimeout
  /\ phase # "connecting" => age + (IF Over THEN 0 ELSE timer) <= ConnectTimeout + limit

(***************************************************************************)
(* A direction keeps what it has read: delivered and buffered bytes never  *)
(* exceed those sent (TypeOK), so a side that is shut has an empty buffer, *)
(* and only a connection with both sides shut is "ok".  Each tick takes    *)
(* from the timer in force what it adds to the age, and the timer is set   *)
(* once, when the connect is over.                                         *)
(***************************************************************************)
IInv == Counters /\ TypeOK /\ ShutIsDone /\ AgeAndTimer

LEMMA InitIInv == Init => IInv
<1> SUFFICES ASSUME Init PROVE IInv
  OBVIOUS
<1> USE ConnectTimeoutAssumption, TransferTimeoutsAssumption, BoundsAssumption
<1>1. Counters /\ ShutIsDone /\ AgeAndTimer
  BY DEF Init, Counters, ShutIsDone, AgeAndTimer
<1>2. TypeOK
  <2>1. ended \in [Dirs -> BOOLEAN] /\ shut \in [Dirs -> BOOLEAN] /\ broken \in BOOLEAN
    BY Zenon DEF Init
  <2> QED  BY <2>1 DEF Init, TypeOK
<1> QED  BY <1>1, <1>2 DEF Init, IInv

(* What the two sides do. *)
LEMMA SidesKeepIInv ==
  ASSUME IInv, NEW d \in Dirs, Send(d) \/ EndStream(d) \/ Reset
  PROVE  IInv'
<1> USE BoundsAssumption DEF IInv, Counters, TypeOK, ShutIsDone, AgeAndTimer, Over, Present
<1>1. CASE Send(d)
  BY <1>1 DEF Send
<1>2. CASE EndStream(d)
  BY <1>2 DEF EndStream
<1>3. CASE Reset
  BY <1>3 DEF Reset
<1> QED  BY <1>1, <1>2, <1>3

(* What changes the phase or the time. *)
LEMMA PhasesKeepIInv ==
  ASSUME IInv,
         Connected \/ ConnectFails \/ CopyDone \/ CopyError \/ TransferTimesOut \/ Tick
  PROVE  IInv'
<1> USE ConnectTimeoutAssumption, TransferTimeoutsAssumption
    DEF IInv, Counters, TypeOK, ShutIsDone, AgeAndTimer, Over
<1>1. CASE Connected
  BY <1>1 DEF Connected
<1>2. CASE ConnectFails \/ CopyError \/ TransferTimesOut
  BY <1>2 DEF ConnectFails, CopyError, TransferTimesOut
<1>3. CASE CopyDone
  BY <1>3 DEF CopyDone
<1>4. CASE Tick
  BY <1>4 DEF Tick
<1> QED  BY <1>1, <1>2, <1>3, <1>4

(* What the copy does in one direction. *)
LEMMA CopyKeepsIInv ==
  ASSUME IInv, NEW d \in Dirs, CopyRead(d) \/ CopyWrite(d) \/ CopyShut(d)
  PROVE  IInv'
<1> USE BoundsAssumption DEF IInv, Counters, TypeOK, ShutIsDone, AgeAndTimer, Over
<1>1. CASE CopyRead(d)
  BY <1>1 DEF CopyRead
<1>2. CASE CopyWrite(d)
  BY <1>2 DEF CopyWrite
<1>3. CASE CopyShut(d)
  BY <1>3 DEF CopyShut
<1> QED  BY <1>1, <1>2, <1>3

LEMMA StepIInv == IInv /\ [Next]_vars => IInv'
<1> SUFFICES ASSUME IInv, [Next]_vars PROVE IInv'
  OBVIOUS
<1>1. CASE UNCHANGED vars
  BY <1>1 DEF vars, IInv, Counters, TypeOK, ShutIsDone, AgeAndTimer, Over
<1> QED
  BY <1>1, SidesKeepIInv, PhasesKeepIInv, CopyKeepsIInv DEF Next, Copy, Dirs

LEMMA Invariance == Spec => []IInv
  BY InitIInv, StepIInv, PTL DEF Spec

(***************************************************************************)
(* A direction's buffer never overflows and no byte is written twice or    *)
(* made up, for streams of any length, any buffer and any timeouts.        *)
(***************************************************************************)
THEOREM TypeCorrect == Spec => []TypeOK
<1>1. IInv => TypeOK
  BY DEF IInv
<1> QED  BY <1>1, Invariance, PTL

(***************************************************************************)
(* handle_connection returns Ok only when both streams ended and arrived.  *)
(***************************************************************************)
THEOREM OkIsComplete == Spec => []OkMeansComplete
<1>1. IInv => OkMeansComplete
  BY DEF IInv, ShutIsDone, OkMeansComplete
<1> QED  BY <1>1, Invariance, PTL

(***************************************************************************)
(* Whatever the two timeouts and whatever flows, no connection is older    *)
(* than both together; with a transfer timeout of 0, than the first.       *)
(***************************************************************************)
THEOREM BoundedLife == Spec => []LifeIsBounded
<1>1. IInv => LifeIsBounded
  <2> SUFFICES ASSUME IInv PROVE age <= ConnectTimeout + limit
    BY DEF LifeIsBounded
  <2>1. limit \in Nat /\ timer \in Nat /\ age \in Nat
    BY TransferTimeoutsAssumption DEF IInv, TypeOK
  <2> QED  BY <2>1, ConnectTimeoutAssumption DEF IInv, AgeAndTimer
<1> QED  BY <1>1, Invariance, PTL
=============================================================================
