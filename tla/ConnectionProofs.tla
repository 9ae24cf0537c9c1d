-------------------------- MODULE ConnectionProofs ---------------------------
(***************************************************************************)
(* Proofs about Connection, for any number of connections and upstreams,   *)
(* and about CrateC, which puts the balancer and the checkers themselves   *)
(* in the places Connection leaves for them.                               *)
(***************************************************************************)
EXTENDS CrateC, TLAPS

(* What is known of an upstream that has always worked: its flag is up and *)
(* no checker can lower it ...                                             *)
WorkingIsUp ==
  \A u \in Upstreams \ everFailed : ok[u] /\ flags[u] /\ seen[u] = {TRUE}

(* ... and so no pick can end with None while there is one. *)
PicksSeeWorking ==
  \A c \in Conns : phase[c] = "picking" => Upstreams \ everFailed \subseteq steady[c]

(* A connection that can be failed by its upstream has a failed upstream. *)
SickIsEarned ==
  \A c \in Conns :
    phase[c] \in {"connecting", "sending", "piping"} /\ sick[c] => result[c] \in everFailed

(* Until the head is written nothing was sent, to either side. *)
Untouched ==
  \A c \in Conns :
    /\ phase[c] \notin {"closed", "piping"} => resp[c] = "none" /\ ~forwarded[c]
    /\ phase[c] = "piping" => resp[c] \in {"none", "answer"}

IInv ==
  /\ TypeOK /\ WorkingIsUp /\ PicksSeeWorking /\ SickIsEarned /\ Untouched
  /\ ProxyErrorsAreRetrySafe /\ WorkingUpstreamsNeverBlamed

LEMMA InitIInv == Init => IInv
<1> SUFFICES ASSUME Init PROVE IInv
  OBVIOUS
<1>1. ok \in [Upstreams -> BOOLEAN] /\ flags = [u \in Upstreams |-> TRUE]
      /\ seen = [u \in Upstreams |-> {ok[u]}]
  BY DEF Init, Check!Init
<1>2. TypeOK
  BY <1>1 DEF Init, TasksInit, Pick!Init, TypeOK, Phases
<1>3. WorkingIsUp
  BY <1>1 DEF Init, TasksInit, WorkingIsUp
<1> QED
  BY <1>2, <1>3 DEF Init, TasksInit, IInv, PicksSeeWorking, SickIsEarned, Untouched,
     ProxyErrors, ProxyErrorsAreRetrySafe, WorkingUpstreamsNeverBlamed


-----------------------------------------------------------------------------
(* The upstreams and their checkers.                                       *)

LEMMA FlipKeepsIInv ==
  ASSUME IInv, NEW u \in Upstreams, Flip(u)
  PROVE  IInv'
<1> USE DEF IInv
<1>1. TypeOK'
  BY DEF Flip, Notice, Check!Flip, pickState, TypeOK
<1>2. WorkingIsUp'
  BY DEF Flip, Notice, Check!Flip, pickState, TypeOK, WorkingIsUp
<1>3. everFailed \subseteq everFailed'
  BY DEF Flip, Notice
<1>4. PicksSeeWorking'
  BY <1>3 DEF Flip, Notice, pickState, PicksSeeWorking
<1>5. SickIsEarned'
  BY DEF Flip, Notice, pickState, TypeOK, SickIsEarned
<1>6. Untouched' /\ ProxyErrorsAreRetrySafe'
  BY DEF Flip, Notice, Untouched, ProxyErrorsAreRetrySafe
<1>7. WorkingUpstreamsNeverBlamed'
  BY <1>3 DEF Flip, Notice, pickState, TypeOK, WorkingUpstreamsNeverBlamed
<1> QED  BY <1>1, <1>2, <1>4, <1>5, <1>6, <1>7

LEMMA StoreKeepsIInv ==
  ASSUME IInv, NEW u \in Upstreams, NEW b \in BOOLEAN, Store(u, b)
  PROVE  IInv'
<1> USE DEF IInv
<1>1. TypeOK'
  BY DEF Store, Check!StoreFlag, Pick!SetFlag, connState, TypeOK
<1>2. u \notin everFailed => b
  BY DEF Store, Check!StoreFlag, WorkingIsUp
<1>3. WorkingIsUp'
  BY <1>2 DEF Store, Check!StoreFlag, TypeOK, WorkingIsUp
<1>4. PicksSeeWorking'
  BY <1>2 DEF Store, Pick!SetFlag, connState, TypeOK, PicksSeeWorking
<1>5. SickIsEarned' /\ Untouched' /\ ProxyErrorsAreRetrySafe' /\ WorkingUpstreamsNeverBlamed'
  BY DEF Store, Pick!SetFlag, connState, SickIsEarned, Untouched, ProxyErrorsAreRetrySafe,
     WorkingUpstreamsNeverBlamed
<1> QED  BY <1>1, <1>3, <1>4, <1>5

-----------------------------------------------------------------------------
(* The connections: steps that do not touch the balancer.                  *)

LEMMA QuietIsQuiet ==
  ASSUME NEW c \in Conns, Quiet(c)
  PROVE  UNCHANGED <<checkState, pickState, everFailed>>
  BY DEF Quiet, Open, Leave, Handshake, HandshakeFails, HeadRefused, Parsed, ParseFails,
     Connected, ConnectFails, HeadSent, SendFails, Answered, TransferEnds, Advance, Respond

LEMMA QuietKeepsIInv ==
  ASSUME IInv, NEW c \in Conns, Quiet(c)
  PROVE  IInv'
<1> USE DEF IInv, checkState, pickState, Advance, Goto, Respond, Phases, ProxyErrors
<1>1. UNCHANGED <<checkState, pickState, everFailed>>
  BY QuietIsQuiet
<1>2. WorkingIsUp'
  BY <1>1 DEF WorkingIsUp
<1>3. ASSUME NEW d \in Conns, d # c
      PROVE  /\ phase'[d] = phase[d] /\ resp'[d] = resp[d]
             /\ forwarded'[d] = forwarded[d] /\ sick'[d] = sick[d]
  BY <1>3 DEF TypeOK, Quiet, Open, Leave, Handshake, HandshakeFails, HeadRefused, Parsed,
     ParseFails, Connected, ConnectFails, HeadSent, SendFails, Answered, TransferEnds
<1>4. CASE Open(c) \/ Leave(c) \/ Handshake(c) \/ HandshakeFails(c) \/ HeadRefused(c)
  <2> USE <1>4 DEF Open, Leave, Handshake, HandshakeFails, HeadRefused
  <2>1. TypeOK'
    BY ZenonT(60), <1>1 DEF TypeOK
  <2>2. PicksSeeWorking' /\ SickIsEarned'
    BY <1>1, <1>3 DEF TypeOK, PicksSeeWorking, SickIsEarned
  <2>3. Untouched' /\ ProxyErrorsAreRetrySafe'
    BY <1>3 DEF TypeOK, Untouched, ProxyErrorsAreRetrySafe
  <2>4. WorkingUpstreamsNeverBlamed'
    BY <1>1, <1>3 DEF TypeOK, WorkingUpstreamsNeverBlamed
  <2> QED  BY <1>2, <2>1, <2>2, <2>3, <2>4
<1>5. CASE Parsed(c) \/ ParseFails(c) \/ Connected(c) \/ ConnectFails(c)
  <2> USE <1>5 DEF Parsed, ParseFails, Connected, ConnectFails
  <2>1. TypeOK'
    BY ZenonT(60), <1>1 DEF TypeOK
  <2>2. PicksSeeWorking'
    BY <1>1, <1>3 DEF TypeOK, PicksSeeWorking
  <2>3. Parsed(c) => sick'[c] = ~ok[result[c]] /\ result[c] \in Upstreams
    BY DEF TypeOK
  <2>4. phase'[c] \in {"connecting", "sending", "piping"} /\ sick'[c] => result'[c] \in everFailed'
    BY ZenonT(60), <1>1, <2>3 DEF TypeOK, SickIsEarned, WorkingIsUp
  <2>5. SickIsEarned'
    BY <1>1, <1>3, <2>4 DEF SickIsEarned
  <2>6. Untouched' /\ ProxyErrorsAreRetrySafe'
    BY <1>3 DEF TypeOK, Untouched, ProxyErrorsAreRetrySafe
  <2>7. WorkingUpstreamsNeverBlamed'
    BY <1>1, <1>3 DEF TypeOK, SickIsEarned, WorkingUpstreamsNeverBlamed
  <2> QED  BY <1>2, <2>1, <2>2, <2>5, <2>6, <2>7
<1>6. CASE HeadSent(c) \/ SendFails(c) \/ Answered(c) \/ TransferEnds(c)
  <2> USE <1>6 DEF HeadSent, SendFails, Answered, TransferEnds
  <2>1. TypeOK'
    BY ZenonT(60), <1>1 DEF TypeOK
  <2>2. PicksSeeWorking' /\ SickIsEarned'
    BY <1>1, <1>3 DEF TypeOK, PicksSeeWorking, SickIsEarned
  <2>3. Untouched' /\ ProxyErrorsAreRetrySafe'
    BY <1>3 DEF TypeOK, Untouched, ProxyErrorsAreRetrySafe
  <2>4. WorkingUpstreamsNeverBlamed'
    BY <1>1, <1>3 DEF TypeOK, Untouched, WorkingUpstreamsNeverBlamed
  <2> QED  BY <1>2, <2>1, <2>2, <2>3, <2>4
<1> QED  BY <1>4, <1>5, <1>6 DEF Quiet

-----------------------------------------------------------------------------
(* The connections: the pick.                                              *)

LEMMA PickKeepsIInv ==
  ASSUME IInv, NEW c \in Conns,
         HeadRead(c) \/ NonePicked(c) \/ \E u \in Upstreams : Picked(c, u)
  PROVE  IInv'
<1> USE DEF IInv, Goto, Respond, Phases, ProxyErrors
<1>1. CASE HeadRead(c)
  <2> USE <1>1 DEF HeadRead, EndHead, Pick!Begin
  <2>1. TypeOK'
    BY DEF TypeOK
  <2>2. WorkingIsUp' /\ PicksSeeWorking' /\ SickIsEarned'
    BY DEF TypeOK, WorkingIsUp, PicksSeeWorking, SickIsEarned
  <2>3. Untouched' /\ ProxyErrorsAreRetrySafe' /\ WorkingUpstreamsNeverBlamed'
    BY DEF TypeOK, Untouched, ProxyErrorsAreRetrySafe, WorkingUpstreamsNeverBlamed
  <2> QED  BY <2>1, <2>2, <2>3
<1>2. CASE NonePicked(c)
  <2> USE <1>2 DEF NonePicked, TakeNone, Pick!EndWithNone
  <2>1. TypeOK'
    BY DEF TypeOK
  <2>2. WorkingIsUp' /\ PicksSeeWorking' /\ SickIsEarned'
    BY DEF TypeOK, WorkingIsUp, PicksSeeWorking, SickIsEarned
  <2>3. everFailed = Upstreams
    BY DEF TypeOK, PicksSeeWorking
  <2>4. Untouched' /\ ProxyErrorsAreRetrySafe' /\ WorkingUpstreamsNeverBlamed'
    BY <2>3 DEF TypeOK, Untouched, ProxyErrorsAreRetrySafe, WorkingUpstreamsNeverBlamed
  <2> QED  BY <2>1, <2>2, <2>4
<1>3. ASSUME NEW u \in Upstreams, Picked(c, u) PROVE IInv'
  <2> USE <1>3 DEF Picked, TakeUpstream, Pick!EndWith
  <2>1. TypeOK'
    BY DEF TypeOK
  <2>2. WorkingIsUp'
    BY DEF WorkingIsUp
  <2>3. \A d \in Conns : phase'[d] \in {"picking", "connecting", "sending", "piping"} =>
          phase'[d] = phase[d] /\ result'[d] = result[d]
    BY DEF TypeOK
  <2>4. PicksSeeWorking'
    BY <2>3 DEF PicksSeeWorking
  <2>5. SickIsEarned'
    BY <2>3 DEF SickIsEarned
  <2>6. Untouched' /\ ProxyErrorsAreRetrySafe' /\ WorkingUpstreamsNeverBlamed'
    BY DEF TypeOK, Untouched, ProxyErrorsAreRetrySafe, WorkingUpstreamsNeverBlamed
  <2> QED  BY <2>1, <2>2, <2>4, <2>5, <2>6
<1> QED  BY <1>1, <1>2, <1>3

-----------------------------------------------------------------------------
LEMMA StepIInv == IInv /\ [Next]_vars => IInv'
<1> SUFFICES ASSUME IInv, [Next]_vars PROVE IInv'
  OBVIOUS
<1>1. CASE UNCHANGED vars
  BY <1>1 DEF vars, checkState, pickState, connState, IInv, TypeOK, WorkingIsUp,
     PicksSeeWorking, SickIsEarned, Untouched, ProxyErrorsAreRetrySafe,
     WorkingUpstreamsNeverBlamed
<1> QED
  BY <1>1, FlipKeepsIInv, StoreKeepsIInv, QuietKeepsIInv, PickKeepsIInv
     DEF Next, Proceed, Quiet

(* Fairness is not needed for it. *)
LEMMA SafeInvariance == Safe => []IInv
  BY InitIInv, StepIInv, PTL DEF Safe

LEMMA Invariance == Spec => []IInv
  BY InitIInv, StepIInv, PTL DEF Spec

(***************************************************************************)
(* The connections are well typed; in particular none goes on to build or  *)
(* to connect from a None.                                                 *)
(***************************************************************************)
THEOREM TypeCorrect == Spec => []TypeOK
<1>1. IInv => TypeOK
  BY DEF IInv
<1> QED  BY <1>1, Invariance, PTL

(***************************************************************************)
(* Whatever fails and in whatever order, a request that the proxy answers  *)
(* itself has sent no byte to an upstream.                                 *)
(***************************************************************************)
THEOREM RetrySafety == Spec => []ProxyErrorsAreRetrySafe
<1>1. IInv => ProxyErrorsAreRetrySafe
  BY DEF IInv
<1> QED  BY <1>1, Invariance, PTL

(***************************************************************************)
(* Through checker, balancer and connection: only upstreams that failed    *)
(* cost clients an error.                                                  *)
(***************************************************************************)
THEOREM BlameIsEarned == Spec => []WorkingUpstreamsNeverBlamed
<1>1. IInv => WorkingUpstreamsNeverBlamed
  BY DEF IInv
<1> QED  BY <1>1, Invariance, PTL

-----------------------------------------------------------------------------
(***************************************************************************)
(* CrateC.  What was proved of a step of Backends is used for the Backends *)
(* inside it: P and B are the same.                                        *)
(***************************************************************************)
P == INSTANCE BackendsProofs WITH Callers <- Conns

LEMMA SameConfigured == CrateConfigured => P!Configured /\ Upstreams = P!Upstreams
  BY DEF CrateConfigured, B!Configured, B!Upstreams, B!Checks!AllModes, P!Configured,
     P!Upstreams, P!Checks!AllModes

LEMMA SameInit == B!BackInit => P!BackInit
  BY DEF B!BackInit, B!Init, B!NewFlags, B!Upstreams, B!Checks!Init, B!Checks!NewFlags,
     P!BackInit, P!Init, P!NewFlags, P!Upstreams, P!Checks!Init, P!Checks!NewFlags

LEMMA SameScan ==
  ASSUME NEW c \in Conns
  PROVE  /\ B!Picking(c) = P!Picking(c) /\ B!Picking(c)' = P!Picking(c)'
         /\ B!Ask(c) => P!Ask(c)
         /\ B!Look(c) => P!Look(c)
         /\ B!Hand(c) => P!Hand(c)
         /\ B!HandNone(c) => P!HandNone(c)
         /\ B!Crash(c) => P!Crash(c)
  BY DEF B!Picking, B!Ask, B!Call, B!NextTicket, B!Up, B!Upstreams, B!Look, B!LoadUnhealthy,
     B!Panic, B!SumOverflows, B!Idx, B!Hand, B!LoadHealthy, B!HandNone, B!GiveUp, B!Crash, B!checkVars,
     P!Picking, P!Ask, P!Call, P!NextTicket, P!Up, P!Upstreams, P!Look, P!LoadUnhealthy,
     P!Panic, P!SumOverflows, P!Idx, P!Hand, P!LoadHealthy, P!HandNone, P!GiveUp, P!Crash, P!checkVars

LEMMA SameStore ==
  ASSUME NEW u, B!StoreVerdict(u)
  PROVE  P!StoreVerdict(u)
  BY DEF B!StoreVerdict, B!Store, B!Up, B!Upstreams, B!Picking, B!Checks!Store, B!Checks!Goto,
     P!StoreVerdict, P!Store, P!Up, P!Upstreams, P!Picking, P!Checks!Store, P!Checks!Goto

LEMMA SameChange ==
  ASSUME NEW u, NEW m, B!Change(u, m)
  PROVE  P!Change(u, m)
  BY DEF B!Change, B!Checks!ChangeMode, B!pickVars, P!Change, P!Checks!ChangeMode, P!pickVars

LEMMA SameRemember == B!Remember => P!Remember
  BY DEF B!Remember, B!Settled, B!Works, B!Lag, B!Upstreams,
     P!Remember, P!Settled, P!Works, P!Lag, P!Upstreams

LEMMA SameCover == B!ScansCover => P!ScansCover
  BY DEF B!ScansCover, B!WrapIsEven, B!NoWrap, P!ScansCover, P!WrapIsEven, P!NoWrap

LEMMA SameBehind == B!Behind => P!Behind
  BY DEF B!Behind, B!Probe, B!Wire, B!Upstreams, B!Checks!Wake, B!Checks!Connect,
     B!Checks!Write, B!Checks!Read, B!Checks!Timeout, B!Checks!Return, B!Checks!Goto,
     B!Checks!Probing, B!Checks!Answer, B!Checks!Answers, B!Checks!LoseRequest,
     B!Checks!Tick, B!Checks!Waiting, B!pickVars,
     P!Behind, P!Probe, P!Wire, P!Upstreams, P!Checks!Wake, P!Checks!Connect,
     P!Checks!Write, P!Checks!Read, P!Checks!Timeout, P!Checks!Return, P!Checks!Goto,
     P!Checks!Probing, P!Checks!Answer, P!Checks!Answers, P!Checks!LoseRequest,
     P!Checks!Tick, P!Checks!Waiting, P!pickVars

(* Some step of the crate is taken: which of the backends' is it? *)
LEMMA StepsOfBackends ==
  ASSUME CrateConfigured, [CrateNext]_crateVars
  PROVE  [P!BackNext]_(P!backVars)
<1>1. Upstreams = P!Upstreams
  BY SameConfigured
<1>2. UNCHANGED <<vars, inside>> => UNCHANGED P!backVars
  BY DEF vars, checkState, pickState, inside, P!backVars, P!pickVars, P!checkVars
<1>3. ASSUME NEW c \in Conns, Quiet(c) /\ UNCHANGED inside PROVE UNCHANGED P!backVars
  BY <1>3, QuietIsQuiet DEF checkState, pickState, inside, P!backVars, P!pickVars, P!checkVars
<1>4. ASSUME NEW c \in Conns, BeginPick(c) \/ ScanOn(c), B!Remember
      PROVE  P!BackNext
  BY <1>4, SameScan, SameRemember DEF BeginPick, ScanOn, P!BackNext
<1>5. ASSUME NEW u \in Upstreams, StoreVerdict(u), B!Remember
      PROVE  P!BackNext
  BY <1>1, <1>5, SameStore, SameRemember DEF StoreVerdict, P!BackNext
<1>6. ASSUME NEW u \in Upstreams, NEW m \in Modes, Change(u, m), B!Remember
      PROVE  P!BackNext
  BY <1>1, <1>6, SameChange, SameRemember DEF Change, P!BackNext
<1>7. B!Behind /\ B!Remember => P!BackNext
  BY SameBehind, SameRemember DEF P!BackNext
<1> QED  BY <1>2, <1>3, <1>4, <1>5, <1>6, <1>7 DEF CrateNext, crateVars

(* The invariant of the whole that needs nothing of the tasks. *)
Joined == P!BackInv /\ Tied

LEMMA InitJoined ==
  ASSUME CrateConfigured, CrateInit
  PROVE  Joined
  BY SameConfigured, SameInit, P!InitBackInv DEF CrateInit, Joined, P!Configured

LEMMA StepTied ==
  ASSUME CrateConfigured, Joined, [CrateNext]_crateVars
  PROVE  Tied'
<1> USE DEF Joined
<1>1. StayTied => Tied'
  BY DEF StayTied, Tied
<1>2. UNCHANGED <<ok, picking, mode, pc>> => Tied'
  BY DEF Tied, B!Works, B!Picking
<1>3. ASSUME NEW c \in Conns, Quiet(c) /\ UNCHANGED inside PROVE Tied'
  BY <1>2, <1>3, QuietIsQuiet DEF checkState, pickState, inside
<1>4. ASSUME NEW c \in Conns, B!Look(c) \/ B!Crash(c), UNCHANGED vars PROVE Tied'
  <2>1. \A d \in Conns : B!Picking(d)' = B!Picking(d)
    BY <1>4 DEF B!Look, B!LoadUnhealthy, B!Crash, B!Panic, B!Picking, P!BackInv, P!IInv, P!TypeOK
  <2> QED  BY <1>4, <2>1 DEF Tied, B!Look, B!Crash, B!checkVars, B!Works, vars, checkState, pickState
<1>5. ASSUME B!Behind, UNCHANGED vars PROVE Tied'
  <2>1. UNCHANGED <<mode, pc>>
    BY <1>5, SameConfigured, SameBehind, P!BehindIsBehind DEF P!Configured, P!pickVars
  <2> QED  BY <1>2, <1>5, <2>1 DEF vars, checkState, pickState
<1> QED
  BY <1>1, <1>2, <1>3, <1>4, <1>5 DEF CrateNext, BeginPick, ScanOn, StoreVerdict, Change,
     crateVars, vars, checkState, pickState, inside

LEMMA StepJoined ==
  ASSUME CrateConfigured, Joined, [CrateNext]_crateVars
  PROVE  Joined'
<1>1. P!BackInv'
  BY SameConfigured, StepsOfBackends, P!StepBackInv DEF Joined, P!Configured
<1> QED  BY <1>1, StepTied DEF Joined

-----------------------------------------------------------------------------
(* A step of the crate is one of Connection's, or hidden from it.          *)

(* The mapped variables are the ones PickSpec and CheckerSpec are given. *)
LEMMA TiesHold ==
  ASSUME CrateConfigured, Joined, [CrateNext]_crateVars
  PROVE  /\ Upstreams = P!Upstreams
         /\ ok = [u \in P!Upstreams |-> P!Works(u)]
         /\ ok' = [u \in P!Upstreams |-> P!Works(u)]'
         /\ picking = [c \in Conns |-> P!Picking(c)]
         /\ picking' = [c \in Conns |-> P!Picking(c)]'
<1>1. Upstreams = P!Upstreams
  BY SameConfigured
<1>2. Tied /\ Tied'
  BY StepTied DEF Joined
<1> QED  BY <1>1, <1>2 DEF Tied, B!Works, B!Picking, P!Works, P!Picking

LEMMA BeginIsHeadRead ==
  ASSUME CrateConfigured, Joined, B!Remember, NEW c \in Conns, BeginPick(c)
  PROVE  HeadRead(c)
<1>1. [CrateNext]_crateVars
  BY DEF CrateNext
<1>2. P!Ask(c)
  BY SameScan DEF BeginPick
<1>3. P!Pick!Begin(c)
  BY <1>2, SameConfigured, P!CallIsBegin DEF P!Ask, P!Configured, Joined, P!BackInv
<1>4. Pick!Begin(c)
  BY <1>1, <1>3, TiesHold DEF P!Pick!Begin, Pick!Begin
<1>5. UNCHANGED <<ok, seen>>
  BY <1>1, <1>2, SameConfigured, TiesHold, P!ScanTellsNothing DEF P!Configured
<1> QED  BY <1>4, <1>5 DEF BeginPick, HeadRead

LEMMA ScanIsPick ==
  ASSUME CrateConfigured, Joined, B!ScansCover, B!Remember, NEW c \in Conns, ScanOn(c)
  PROVE  NonePicked(c) \/ (\E u \in Upstreams : Picked(c, u)) \/ UNCHANGED vars
<1> USE DEF P!Configured, Joined, P!BackInv
<1>1. [CrateNext]_crateVars
  BY DEF CrateNext
<1>2. CASE P!Hand(c) /\ TakeUpstream(c)
  <2>1. UNCHANGED <<ok, seen>>
    BY <1>1, <1>2, SameConfigured, TiesHold, P!ScanTellsNothing
  <2>2. \E u \in P!Upstreams : P!Pick!EndWith(c, u)
    BY <1>2, SameConfigured, P!LoadHealthyIsEndWith DEF P!Hand
  <2>3. \E u \in Upstreams : Pick!EndWith(c, u)
    BY <1>1, <2>2, TiesHold DEF P!Pick!EndWith, Pick!EndWith
  <2> QED  BY <1>2, <2>1, <2>3 DEF Picked
<1>3. CASE P!HandNone(c) /\ TakeNone(c)
  <2>1. UNCHANGED <<ok, seen>>
    BY <1>1, <1>3, SameConfigured, TiesHold, P!ScanTellsNothing
  <2>2. P!ScansCover
    BY SameCover
  <2>3. P!Pick!EndWithNone(c)
    BY <1>3, <2>2, SameConfigured, P!GiveUpIsEndWithNone DEF P!HandNone
  <2>4. Pick!EndWithNone(c)
    BY <1>1, <2>3, TiesHold DEF P!Pick!EndWithNone, Pick!EndWithNone
  <2> QED  BY <1>3, <2>1, <2>4 DEF NonePicked
<1> QED  BY <1>2, <1>3, SameScan DEF ScanOn

LEMMA VerdictIsStore ==
  ASSUME CrateConfigured, Joined, B!Remember, NEW u \in Upstreams, StoreVerdict(u)
  PROVE  \E b \in BOOLEAN : Store(u, b)
<1>1. [CrateNext]_crateVars
  BY DEF CrateNext
<1>2. P!StoreVerdict(u)
  BY SameStore DEF StoreVerdict
<1>3. verdict[u] \in BOOLEAN /\ P!Word!StoreFlag(u, verdict[u]) /\ P!Pick!SetFlag(u, verdict[u])
  BY <1>2, SameConfigured, P!VerdictIsJustified DEF P!Configured, Joined
<1>4. Check!StoreFlag(u, verdict[u]) /\ Pick!SetFlag(u, verdict[u])
  BY <1>1, <1>3, TiesHold DEF P!Word!StoreFlag, P!Pick!SetFlag, Check!StoreFlag, Pick!SetFlag
<1> QED  BY <1>3, <1>4 DEF StoreVerdict, Store

LEMMA ChangeIsFlip ==
  ASSUME CrateConfigured, Joined, B!Remember, NEW u \in Upstreams, NEW m \in Modes,
         Change(u, m)
  PROVE  Flip(u) \/ UNCHANGED vars
<1>1. [CrateNext]_crateVars
  BY DEF CrateNext
<1>2. P!Change(u, m)
  BY SameChange DEF Change
<1>3. /\ UNCHANGED P!Pick!pickVars
      /\ IF P!Works(u) = (m = "ok") THEN UNCHANGED P!Word!checkerVars ELSE P!Word!Flip(u)
  BY <1>2, SameConfigured, P!ChangeIsFlipOrNothing DEF P!Configured, Joined
<1>4. UNCHANGED pickState /\ ok[u] = P!Works(u)
  BY <1>1, <1>3, TiesHold DEF P!Pick!pickVars, pickState
<1>5. CASE ok[u] = (m = "ok")
  <2>1. UNCHANGED checkState
    BY <1>1, <1>3, <1>4, <1>5, TiesHold DEF P!Word!checkerVars, checkState
  <2> QED  BY <1>4, <1>5, <2>1 DEF Change, vars
<1>6. CASE ok[u] # (m = "ok")
  <2>1. Check!Flip(u)
    BY <1>1, <1>3, <1>4, <1>6, TiesHold DEF P!Word!Flip, Check!Flip
  <2> QED  BY <1>4, <1>6, <2>1 DEF Change, Flip
<1> QED  BY <1>5, <1>6

LEMMA StepsOfConnection ==
  ASSUME CrateConfigured, Joined, B!ScansCover, [CrateNext]_crateVars
  PROVE  [Next]_vars
<1>1. ASSUME NEW c \in Conns, Quiet(c) \/ ((BeginPick(c) \/ ScanOn(c)) /\ B!Remember)
      PROVE  [Next]_vars
  BY <1>1, BeginIsHeadRead, ScanIsPick DEF Next, Proceed, Quiet
<1>2. ASSUME NEW u \in Upstreams, StoreVerdict(u), B!Remember PROVE Next
  BY <1>2, VerdictIsStore DEF Next
<1>3. ASSUME NEW u \in Upstreams, NEW m \in Modes, Change(u, m), B!Remember
      PROVE  [Next]_vars
  BY <1>3, ChangeIsFlip DEF Next
<1> QED  BY <1>1, <1>2, <1>3 DEF CrateNext, crateVars

(***************************************************************************)
(* Crate C's balancer and checkers may stand where Connection has PickSpec *)
(* and CheckerSpec: where scans cover all upstreams, every step of the     *)
(* crate is one of Connection's or changes nothing Connection knows of.    *)
(***************************************************************************)
THEOREM ConnectionRefinement ==
  ASSUME CrateConfigured
  PROVE  CrateSpec /\ []B!ScansCover => ImplementsConnection
<1>1. ASSUME CrateInit PROVE Init
  <2>1. P!Word!Init /\ P!Pick!Init
    BY <1>1, SameConfigured, SameInit, P!InitIsWord DEF CrateInit, P!Configured
  <2>2. /\ Upstreams = P!Upstreams /\ ok = [u \in P!Upstreams |-> P!Works(u)]
        /\ picking = [c \in Conns |-> P!Picking(c)]
    BY <1>1, SameConfigured DEF CrateInit, Tied, B!Works, B!Picking, P!Works, P!Picking
  <2>3. Check!Init /\ Pick!Init
    BY <2>1, <2>2 DEF P!Word!Init, P!Pick!Init, Check!Init, Pick!Init
  <2> QED  BY <1>1, <2>3 DEF CrateInit, Init
<1>2. CrateInit => Joined
  BY InitJoined
<1>3. Joined /\ [CrateNext]_crateVars => Joined'
  BY StepJoined
<1>4. Joined /\ B!ScansCover /\ [CrateNext]_crateVars => [Next]_vars
  BY StepsOfConnection
<1> QED  BY <1>1, <1>2, <1>3, <1>4, PTL DEF CrateSpec, ImplementsConnection, Safe

(***************************************************************************)
(* What was proved of Connection holds of crate C: its own errors are safe *)
(* to retry, and only upstreams that failed cost clients an error.         *)
(***************************************************************************)
THEOREM CrateKeepsItsWord ==
  ASSUME CrateConfigured
  PROVE  CrateSpec /\ []B!ScansCover
           => [](ProxyErrorsAreRetrySafe /\ WorkingUpstreamsNeverBlamed)
<1>1. IInv => ProxyErrorsAreRetrySafe /\ WorkingUpstreamsNeverBlamed
  BY DEF IInv
<1> QED  BY <1>1, ConnectionRefinement, SafeInvariance, PTL DEF ImplementsConnection

-----------------------------------------------------------------------------
(* Where the tasks are, whether or not sums wrap. *)
Placed == phase \in [Conns -> Phases]

LEMMA StepPlaced == Placed /\ [CrateNext]_crateVars => Placed'
<1> SUFFICES ASSUME Placed, [CrateNext]_crateVars PROVE Placed'
  OBVIOUS
<1> USE DEF Placed, Phases, Goto, Advance, Respond
<1>1. phase' = phase => Placed'
  OBVIOUS
<1>2. ASSUME NEW c \in Conns, BeginPick(c) \/ ScanOn(c) PROVE Placed'
  BY <1>1, <1>2 DEF BeginPick, ScanOn, EndHead, TakeUpstream, TakeNone, vars, connState
<1>3. ASSUME NEW c \in Conns, Quiet(c) PROVE Placed'
  BY <1>3 DEF Quiet, Open, Leave, Handshake, HandshakeFails, HeadRefused, Parsed, ParseFails,
     Connected, ConnectFails, HeadSent, SendFails, Answered, TransferEnds
<1> QED
  BY <1>1, <1>2, <1>3 DEF CrateNext, StoreVerdict, Change, Notice, crateVars, vars, connState

(* Only a TRUE flag takes a task on from next_healthy. *)
LEMMA OnlyWithAFlag ==
  ASSUME Placed, CrateNext, NEW c \in Conns, phase[c] = "picking", phase'[c] = "parsing"
  PROVE  B!Hand(c)
<1> USE DEF Placed, Phases, Goto, Advance, Respond
<1>1. phase' # phase
  OBVIOUS
<1>2. ASSUME NEW d \in Conns, BeginPick(d) PROVE FALSE
  BY <1>2 DEF BeginPick, EndHead
<1>3. ASSUME NEW d \in Conns, ScanOn(d) PROVE B!Hand(c)
  BY <1>1, <1>3 DEF ScanOn, TakeUpstream, TakeNone, vars, connState
<1>4. ASSUME NEW d \in Conns, Quiet(d) PROVE FALSE
  BY <1>4 DEF Quiet, Open, Leave, Handshake, HandshakeFails, HeadRefused, Parsed, ParseFails,
     Connected, ConnectFails, HeadSent, SendFails, Answered, TransferEnds
<1> QED
  BY <1>1, <1>2, <1>3, <1>4 DEF CrateNext, StoreVerdict, Change, Notice, vars, connState

(***************************************************************************)
(* No task is sent to an upstream that has been failing for longer than one*)
(* sleep and one probe timeout, whatever is stored while it scans, also    *)
(* when the sums wrap.                                                     *)
(***************************************************************************)
THEOREM FreshPicks ==
  ASSUME CrateConfigured
  PROVE  CrateSpec => PicksAreFresh
<1>1. CrateInit => Joined /\ Placed
  BY InitJoined DEF CrateInit, TasksInit, Placed, Phases
<1>2. Joined /\ Placed /\ [CrateNext]_crateVars => Joined' /\ Placed'
  BY StepJoined, StepPlaced
<1>3. ASSUME Joined, Placed, CrateNext, NEW c \in Conns,
             phase[c] = "picking", phase'[c] = "parsing"
      PROVE  B!Fresh(result'[c])
  <2>1. P!Hand(c)
    BY <1>3, OnlyWithAFlag, SameScan
  <2>2. P!Fresh(result'[c])
    BY <1>3, <2>1, SameConfigured, P!HandIsFresh DEF P!Configured, Joined
  <2> QED  BY <2>2 DEF P!Fresh, P!Works, P!Lag, B!Fresh, B!Works, B!Lag
<1>4. Joined /\ Placed /\ [CrateNext]_crateVars
        => [\A c \in Conns :
              phase[c] = "picking" /\ phase'[c] = "parsing" => B!Fresh(result'[c])]_crateVars
  BY <1>3
<1> QED  BY <1>1, <1>2, <1>4, PTL DEF CrateSpec, PicksAreFresh

(* Only a scan that found nothing closes a connection from next_healthy. *)
LEMMA OnlyWithoutAFlag ==
  ASSUME Placed, CrateNext, NEW c \in Conns, phase[c] = "picking", phase'[c] = "closed"
  PROVE  B!HandNone(c)
<1> USE DEF Placed, Phases, Goto, Advance, Respond
<1>1. phase' # phase
  OBVIOUS
<1>2. ASSUME NEW d \in Conns, BeginPick(d) PROVE FALSE
  BY <1>2 DEF BeginPick, EndHead
<1>3. ASSUME NEW d \in Conns, ScanOn(d) PROVE B!HandNone(c)
  BY <1>1, <1>3 DEF ScanOn, TakeUpstream, TakeNone, vars, connState
<1>4. ASSUME NEW d \in Conns, Quiet(d) PROVE FALSE
  BY <1>4 DEF Quiet, Open, Leave, Handshake, HandshakeFails, HeadRefused, Parsed, ParseFails,
     Connected, ConnectFails, HeadSent, SendFails, Answered, TransferEnds
<1> QED
  BY <1>1, <1>2, <1>3, <1>4 DEF CrateNext, StoreVerdict, Change, Notice, vars, connState

(***************************************************************************)
(* Where scans cover all upstreams, no connection is sent a 503 when some *)
(* upstream had been working for longer than one sleep and one probe       *)
(* timeout at every instant of its pick.                                   *)
(***************************************************************************)
THEOREM UnavailableNeedsTrouble ==
  ASSUME CrateConfigured
  PROVE  CrateSpec /\ []B!ScansCover => UnavailableIsEarned
<1>1. CrateInit => Joined /\ Placed
  BY InitJoined DEF CrateInit, TasksInit, Placed, Phases
<1>2. Joined /\ Placed /\ [CrateNext]_crateVars => Joined' /\ Placed'
  BY StepJoined, StepPlaced
<1>3. ASSUME Joined, Placed, B!ScansCover, CrateNext, NEW c \in Conns,
             phase[c] = "picking", phase'[c] = "closed"
      PROVE  settled[c] = {}
  <2>1. P!HandNone(c)
    BY <1>3, OnlyWithoutAFlag, SameScan
  <2> QED
    BY <1>3, <2>1, SameConfigured, SameCover, P!HandNoneIsEarned DEF P!Configured, Joined
<1>4. Joined /\ Placed /\ B!ScansCover /\ [CrateNext]_crateVars
        => [\A c \in Conns :
              phase[c] = "picking" /\ phase'[c] = "closed" => settled[c] = {}]_crateVars
  BY <1>3
<1> QED  BY <1>1, <1>2, <1>4, PTL DEF CrateSpec, UnavailableIsEarned
=============================================================================
