---------------------------- MODULE HyperProofs -----------------------------
(***************************************************************************)
(* Proofs about HyperProxy, for any number of connections, of requests in  *)
(* flight on each, and of upstreams, and about CrateD, which puts the      *)
(* balancer and the checkers themselves in the places it leaves for them.  *)
(***************************************************************************)
EXTENDS CrateD, TLAPS

(* As in ConnectionProofs: what is known of upstreams that always worked,  *)
(* of the picks, and of requests that their upstream may fail.             *)
WorkingIsUp ==
  \A u \in Upstreams \ everFailed : ok[u] /\ flags[u] /\ seen[u] = {TRUE}

PicksSeeWorking ==
  \A s \in Streams : phase[s] = "picking" => Upstreams \ everFailed \subseteq steady[s]

Using == {"connecting", "handshaking", "sending", "body"}

SickIsEarned ==
  \A s \in Streams : phase[s] \in Using /\ sick[s] => result[s] \in everFailed

(* A link that is gone while it is needed was broken by its upstream, or by*)
(* the client's own body.                                                  *)
BrokenIsEarned ==
  \A s \in Streams :
    phase[s] \in {"sending", "body"} /\ ~link[s] =>
      result[s] \in everFailed \/ "broken" \in flow[s]

(* Nothing is forwarded before there is a link to forward it on. *)
Unsent ==
  \A s \in Streams : phase[s] \notin {"sending", "body"} => ~forwarded[s]

IInv ==
  /\ TypeOK /\ WorkingIsUp /\ PicksSeeWorking /\ SickIsEarned /\ BrokenIsEarned
  /\ Unsent

LEMMA OwnConn ==
  /\ \A s \in Streams : ConnOf(s) \in Conns
  /\ \A c \in Conns : \A s \in On(c) : s \in Streams /\ ConnOf(s) = c
  /\ \A s \in Streams : s \in On(ConnOf(s))
  BY DEF Streams, ConnOf, On

LEMMA InitIInv == Init => IInv
<1> SUFFICES ASSUME Init PROVE IInv
  OBVIOUS
<1>1. ok \in [Upstreams -> BOOLEAN] /\ flags = [u \in Upstreams |-> TRUE]
      /\ seen = [u \in Upstreams |-> {ok[u]}]
  BY DEF Init, Check!Init
<1>2. TypeOK
  BY <1>1 DEF Init, TasksInit, Pick!Init, TypeOK, Phases, Handled
<1>3. WorkingIsUp
  BY <1>1 DEF Init, TasksInit, WorkingIsUp
<1> QED
  BY <1>2, <1>3 DEF Init, TasksInit, IInv, PicksSeeWorking, SickIsEarned,
     BrokenIsEarned, Unsent, Using

-----------------------------------------------------------------------------
(* The upstreams and their checkers.                                       *)

LEMMA FlipKeepsIInv ==
  ASSUME IInv, NEW u \in Upstreams, Flip(u)
  PROVE  IInv'
<1> USE DEF IInv
<1>1. TypeOK'
  BY DEF Flip, Notice, Check!Flip, pickState, TypeOK
<1>2. WorkingIsUp'
  BY DEF Flip, Notice, Check!Flip, pickState, TypeOK, WorkingIsUp
<1>3. everFailed \subseteq everFailed'
  BY DEF Flip, Notice
<1>4. PicksSeeWorking' /\ BrokenIsEarned'
  BY <1>3 DEF Flip, Notice, pickState, PicksSeeWorking, BrokenIsEarned
<1>5. SickIsEarned'
  BY DEF Flip, Notice, pickState, TypeOK, SickIsEarned, Using
<1>6. Unsent'
  BY DEF Flip, Notice, Unsent
<1> QED  BY <1>1, <1>2, <1>4, <1>5, <1>6

LEMMA StoreKeepsIInv ==
  ASSUME IInv, NEW u \in Upstreams, NEW b \in BOOLEAN, Store(u, b)
  PROVE  IInv'
<1> USE DEF IInv
<1>1. TypeOK'
  BY DEF Store, Check!StoreFlag, Pick!SetFlag, reqState, TypeOK
<1>2. u \notin everFailed => b
  BY DEF Store, Check!StoreFlag, WorkingIsUp
<1>3. WorkingIsUp'
  BY ZenonT(60), <1>2 DEF Store, Check!StoreFlag, TypeOK, WorkingIsUp
<1>4. PicksSeeWorking'
  BY <1>2 DEF Store, Pick!SetFlag, reqState, TypeOK, PicksSeeWorking
<1>5. SickIsEarned' /\ BrokenIsEarned' /\ Unsent'
  BY DEF Store, Pick!SetFlag, reqState, SickIsEarned, BrokenIsEarned, Unsent
<1> QED  BY <1>1, <1>3, <1>4, <1>5

-----------------------------------------------------------------------------
(* The client connections.                                                 *)

LEMMA ConnKeepsIInv ==
  ASSUME IInv, NEW c \in Conns, Open(c) \/ Handshake(c) \/ HandshakeFails(c) \/ Leave(c)
  PROVE  IInv'
<1> USE DEF IInv, ConnStep
<1>1. UNCHANGED <<checkState, pickState, reqState, everFailed>>
  BY DEF Open, Handshake, HandshakeFails, Leave
<1>2. \/ conn[c] = "closed" /\ conn' = [conn EXCEPT ![c] = "handshake"]
         /\ \A s \in On(c) : phase[s] = "free"
      \/ conn[c] = "handshake" /\ \E p \in {"h1", "h2", "closed"} : conn' = [conn EXCEPT ![c] = p]
      \/ conn' = [conn EXCEPT ![c] = "closed"]
  <2>1. ASSUME NEW offer \in SUBSET {"h2", "http/1.1", "other"}
        PROVE  Negotiated(offer) \in {"h1", "h2", "closed"}
    BY DEF Negotiated, Alpn
  <2> QED  BY <2>1 DEF Open, Handshake, HandshakeFails, Leave
<1>3. TypeOK'
  BY <1>1, <1>2 DEF checkState, pickState, reqState, TypeOK
<1>4. WorkingIsUp' /\ PicksSeeWorking' /\ SickIsEarned' /\ BrokenIsEarned' /\ Unsent'
  BY <1>1 DEF checkState, pickState, reqState, WorkingIsUp, PicksSeeWorking, SickIsEarned,
     BrokenIsEarned, Unsent
<1> QED  BY <1>3, <1>4

-----------------------------------------------------------------------------
(* A request: the pick.                                                    *)

LEMMA PickKeepsIInv ==
  ASSUME IInv, NEW s \in Streams,
         Call(s) \/ NonePicked(s) \/ \E u \in Upstreams : Picked(s, u)
  PROVE  IInv'
<1> USE NoneAssumption, OwnConn DEF IInv, Goto, End, ErrorResponse, Phases, Handled, Using
<1>1. CASE Call(s)
  <2> USE <1>1 DEF Call, BeginHandle, Pick!Begin
  <2>1. TypeOK'
    BY DEF TypeOK
  <2>2. \A t \in Streams : phase'[t] \in Using => phase'[t] = phase[t] /\ result'[t] = result[t]
    BY DEF TypeOK
  <2>3. WorkingIsUp'
    BY DEF WorkingIsUp
  <2>4. PicksSeeWorking'
    <3>1. steady'[s] = {u \in Upstreams : flags[u]}
      BY DEF TypeOK
    <3>2. Upstreams \ everFailed \subseteq steady'[s]
      BY <3>1 DEF WorkingIsUp
    <3>3. \A t \in Streams \ {s} : phase'[t] = phase[t] /\ steady'[t] = steady[t]
      BY DEF TypeOK
    <3> QED  BY <3>2, <3>3 DEF PicksSeeWorking
  <2>5. SickIsEarned' /\ BrokenIsEarned'
    BY <2>2 DEF SickIsEarned, BrokenIsEarned
  <2>6. Unsent'
    BY DEF TypeOK, Unsent
  <2> QED  BY <2>1, <2>3, <2>4, <2>5, <2>6
<1>2. CASE NonePicked(s)
  <2> USE <1>2 DEF NonePicked, TakeNone, Pick!EndWithNone
  <2>1. TypeOK'
    BY DEF TypeOK
  <2>2. WorkingIsUp' /\ PicksSeeWorking' /\ SickIsEarned' /\ BrokenIsEarned' /\ Unsent'
    BY DEF TypeOK, WorkingIsUp, PicksSeeWorking, SickIsEarned, BrokenIsEarned, Unsent
  <2> QED  BY <2>1, <2>2
<1>3. ASSUME NEW u \in Upstreams, Picked(s, u) PROVE IInv'
  <2> USE <1>3 DEF Picked, TakeUpstream, Pick!EndWith
  <2>1. TypeOK'
    <3>1. phase' \in [Streams -> Phases] /\ result' \in [Streams -> Upstreams \cup {None}]
      BY DEF TypeOK
    <3>2. picking' = [t \in Streams |-> phase'[t] = "picking"]
      BY DEF TypeOK
    <3>3. \A t \in Streams : phase'[t] \in Handled \ {"picking"} => result'[t] # None
      BY DEF TypeOK
    <3> QED  BY <3>1, <3>2, <3>3 DEF TypeOK
  <2>2. \A t \in Streams : phase'[t] \in {"picking"} \cup Using =>
          phase'[t] = phase[t] /\ result'[t] = result[t]
    BY DEF TypeOK
  <2>3. WorkingIsUp'
    BY DEF WorkingIsUp
  <2>4. PicksSeeWorking' /\ SickIsEarned' /\ BrokenIsEarned' /\ Unsent'
    BY <2>2 DEF TypeOK, PicksSeeWorking, SickIsEarned, BrokenIsEarned, Unsent
  <2> QED  BY <2>1, <2>3, <2>4
<1> QED  BY <1>1, <1>2, <1>3

-----------------------------------------------------------------------------
(* A request: everything but the pick.                                     *)

LEMMA OnlyItsStream ==
  ASSUME TypeOK, NEW s \in Streams, Early(s) \/ Late(s)
  PROVE  /\ UNCHANGED <<checkState, pickState, everFailed>>
         /\ \A t \in Streams \ {s} :
              /\ phase'[t] = phase[t] /\ resp'[t] = resp[t] /\ link'[t] = link[t]
              /\ forwarded'[t] = forwarded[t] /\ sick'[t] = sick[t] /\ flow'[t] = flow[t]
         /\ \/ conn' = conn
            \/ conn' = [conn EXCEPT ![ConnOf(s)] = IF @ = "h1" THEN "closed" ELSE @]
<1> USE DEF TypeOK, Advance, Goto, End, ErrorResponse
<1>1. CASE Early(s)
  BY <1>1 DEF Early, Request, Built, BuildFails, Connected, ConnectFails, ClientHandshakeFails
<1>2. CASE Late(s)
  BY <1>2 DEF Late, Spawned, Answered, SendFails, BodyEnds, BodyBreaks, Cancel, LinkEnds,
     LinkBreaks, ClientFlow
<1> QED  BY <1>1, <1>2

LEMMA StaysTyped ==
  ASSUME TypeOK, NEW s \in Streams, Early(s) \/ Late(s)
  PROVE  TypeOK'
<1> USE OwnConn
<1>1. UNCHANGED <<checkState, pickState, everFailed>>
  BY OnlyItsStream
<1>2. /\ phase' \in [Streams -> Phases] /\ resp' \in [Streams -> {"none", "502", "503", "answer"}]
      /\ link' \in [Streams -> BOOLEAN] /\ forwarded' \in [Streams -> BOOLEAN]
      /\ sick' \in [Streams -> BOOLEAN] /\ flow' \in [Streams -> SUBSET Faults]
  <2> USE DEF TypeOK, Phases, Advance, Goto, End, ErrorResponse
  <2>1. CASE Early(s)
    BY ZenonT(60), <2>1 DEF Early, Request, Built, BuildFails, Connected, ConnectFails,
       ClientHandshakeFails
  <2>2. CASE Late(s)
    BY ZenonT(60), <2>2 DEF Late, Spawned, Answered, SendFails, BodyEnds, BodyBreaks, Cancel,
       LinkEnds, LinkBreaks, ClientFlow
  <2> QED  BY <2>1, <2>2
<1>3. conn' \in [Conns -> {"closed", "handshake", "h1", "h2"}]
  BY OnlyItsStream DEF TypeOK
<1>4. /\ (phase'[s] = "picking") = (phase[s] = "picking")
      /\ phase'[s] \in Handled => phase[s] \in Handled
  <2> USE DEF TypeOK, Phases, Handled, Awaits, Advance, Goto, End, ErrorResponse
  <2>1. CASE Early(s)
    BY <2>1 DEF Early, Request, Built, BuildFails, Connected, ConnectFails, ClientHandshakeFails
  <2>2. CASE Late(s)
    BY <2>2 DEF Late, Spawned, Answered, SendFails, BodyEnds, BodyBreaks, Cancel,
       LinkEnds, LinkBreaks, ClientFlow
  <2> QED  BY <2>1, <2>2
<1>5. \A t \in Streams : (phase'[t] = "picking") = (phase[t] = "picking")
  BY <1>4, OnlyItsStream
<1>6. picking' = [t \in Streams |-> phase'[t] = "picking"]
  BY <1>1, <1>5 DEF TypeOK, pickState
<1>7. \A t \in Streams : phase'[t] \in Handled \ {"picking"} => result'[t] # None
  BY <1>1, <1>4, OnlyItsStream DEF TypeOK, pickState
<1> QED
  BY <1>1, <1>2, <1>3, <1>6, <1>7 DEF TypeOK, checkState, pickState

LEMMA EarlyKeepsIInv ==
  ASSUME IInv, NEW s \in Streams, Early(s)
  PROVE  IInv'
<1> USE OwnConn DEF IInv, checkState, pickState, Advance, Goto, End, ErrorResponse, Phases,
      Handled, Using, Early, Request, Built, BuildFails, Connected, ConnectFails,
      ClientHandshakeFails
<1>1. /\ UNCHANGED <<checkState, pickState, everFailed>>
      /\ \A t \in Streams \ {s} :
           /\ phase'[t] = phase[t] /\ resp'[t] = resp[t] /\ link'[t] = link[t]
           /\ forwarded'[t] = forwarded[t] /\ sick'[t] = sick[t] /\ flow'[t] = flow[t]
  BY OnlyItsStream
<1>2. TypeOK'
  BY StaysTyped
<1>3. WorkingIsUp' /\ PicksSeeWorking'
  BY ZenonT(60), <1>1 DEF TypeOK, WorkingIsUp, PicksSeeWorking
<1>4. Built(s) => sick'[s] = ~ok[result[s]] /\ result[s] \in Upstreams
  BY DEF TypeOK
<1>5. phase'[s] \in Using /\ sick'[s] => result'[s] \in everFailed'
  <2>1. CASE Built(s)
    BY <1>1, <1>4, <2>1 DEF WorkingIsUp
  <2>2. CASE ~Built(s)
    <3>1. phase'[s] \in Using /\ sick'[s] => phase[s] \in Using /\ sick[s]
      BY <2>2 DEF TypeOK
    <3> QED  BY <1>1, <3>1 DEF SickIsEarned
  <2> QED  BY <2>1, <2>2
<1>6. SickIsEarned'
  BY <1>1, <1>5 DEF SickIsEarned
<1>7. BrokenIsEarned'
  BY <1>1 DEF TypeOK, BrokenIsEarned
<1>8. Unsent'
  BY <1>1 DEF TypeOK, Unsent
<1> QED  BY <1>2, <1>3, <1>6, <1>7, <1>8

LEMMA LateKeepsIInv ==
  ASSUME IInv, NEW s \in Streams, Late(s)
  PROVE  IInv'
<1> USE OwnConn DEF IInv, checkState, pickState, Goto, End, ErrorResponse, Phases,
      Handled, Using, Late, Spawned, Answered, SendFails, BodyEnds, BodyBreaks, Cancel,
      LinkEnds, LinkBreaks, ClientFlow
<1>1. /\ UNCHANGED <<checkState, pickState, everFailed>>
      /\ \A t \in Streams \ {s} :
           /\ phase'[t] = phase[t] /\ resp'[t] = resp[t] /\ link'[t] = link[t]
           /\ forwarded'[t] = forwarded[t] /\ sick'[t] = sick[t] /\ flow'[t] = flow[t]
  BY OnlyItsStream
<1>2. TypeOK'
  BY StaysTyped
<1>3. WorkingIsUp' /\ PicksSeeWorking'
  BY ZenonT(60), <1>1 DEF TypeOK, WorkingIsUp, PicksSeeWorking
<1>4. phase'[s] \in Using /\ sick'[s] => phase[s] \in Using /\ sick[s]
  BY DEF TypeOK
<1>5. SickIsEarned'
  BY <1>1, <1>4 DEF SickIsEarned
<1>6. phase'[s] \in {"sending", "body"} /\ ~link'[s] =>
        result[s] \in everFailed \/ "broken" \in flow'[s]
  BY DEF TypeOK, SickIsEarned, BrokenIsEarned
<1>7. BrokenIsEarned'
  BY <1>1, <1>6 DEF BrokenIsEarned
<1>8. phase'[s] \notin {"sending", "body"} => ~forwarded'[s]
  BY DEF TypeOK, Unsent
<1>9. Unsent'
  BY <1>1, <1>8 DEF Unsent
<1> QED  BY <1>2, <1>3, <1>5, <1>7, <1>9

-----------------------------------------------------------------------------
LEMMA StepIInv == IInv /\ [Next]_vars => IInv'
<1> SUFFICES ASSUME IInv, [Next]_vars PROVE IInv'
  OBVIOUS
<1>1. CASE UNCHANGED vars
  BY <1>1 DEF vars, checkState, pickState, reqState, IInv, TypeOK, WorkingIsUp,
     PicksSeeWorking, SickIsEarned, BrokenIsEarned, Unsent
<1>2. CASE Next
  BY <1>2, FlipKeepsIInv, StoreKeepsIInv, ConnKeepsIInv, PickKeepsIInv, EarlyKeepsIInv,
     LateKeepsIInv DEF Next, Proceed, Upstream, Early, Late
<1> QED  BY <1>1, <1>2

(* Fairness is not needed for what follows: Safe is enough, of which crate *)
(* D's specification is a refinement.                                      *)
LEMMA SpecIsSafe == Spec => Safe
  BY PTL DEF Spec, Safe

LEMMA Invariance == Safe => []IInv
  BY InitIInv, StepIInv, PTL DEF Safe

(***************************************************************************)
(* Requests and connections are well typed; none goes on to build, connect *)
(* or send with a None.                                                    *)
(***************************************************************************)
THEOREM TypeCorrect == Spec => []TypeOK
<1>1. IInv => TypeOK
  BY DEF IInv
<1> QED  BY <1>1, Invariance, SpecIsSafe, PTL

LEMMA StepErrors ==
  ASSUME IInv, Next, NEW s \in Streams, resp[s] = "none"
  PROVE  /\ resp'[s] = "503" => ~forwarded[s] /\ everFailed = Upstreams
         /\ resp'[s] = "502" =>
              \/ phase[s] = "building" /\ ~forwarded[s]
              \/ phase[s] = "sending" /\ "broken" \in flow[s]
              \/ phase[s] # "building" /\ result[s] \in everFailed
<1> USE DEF IInv, Goto, End, ErrorResponse
<1>1. CASE NonePicked(s)
  <2>1. everFailed = Upstreams
    BY <1>1 DEF NonePicked, TakeNone, Pick!EndWithNone, TypeOK, PicksSeeWorking
  <2> QED  BY <1>1, <2>1 DEF NonePicked, TakeNone, TypeOK, Unsent
<1>2. CASE BuildFails(s)
  BY <1>2 DEF BuildFails, TypeOK, Unsent
<1>3. CASE ConnectFails(s) \/ ClientHandshakeFails(s) \/ SendFails(s)
  BY <1>3 DEF ConnectFails, ClientHandshakeFails, SendFails, TypeOK, SickIsEarned,
     BrokenIsEarned, Using
<1>4. ASSUME ~(NonePicked(s) \/ BuildFails(s) \/ ConnectFails(s) \/ ClientHandshakeFails(s)
               \/ SendFails(s))
      PROVE  resp'[s] \in {"none", "answer"}
  <2>1. ASSUME NEW t \in Streams, t # s,
               Call(t) \/ NonePicked(t) \/ \E u \in Upstreams : Picked(t, u)
        PROVE  resp'[s] = resp[s]
    BY <2>1 DEF Call, BeginHandle, NonePicked, TakeNone, Picked, TakeUpstream, TypeOK
  <2>2. ASSUME NEW t \in Streams, t # s, Early(t) \/ Late(t) PROVE resp'[s] = resp[s]
    BY <2>2, OnlyItsStream
  <2>3. CASE \/ Request(s) \/ Call(s) \/ (\E u \in Upstreams : Picked(s, u)) \/ Built(s)
             \/ Connected(s) \/ Spawned(s) \/ Answered(s) \/ BodyEnds(s) \/ BodyBreaks(s)
             \/ Cancel(s) \/ LinkEnds(s) \/ LinkBreaks(s) \/ ClientFlow(s)
    BY <2>3 DEF Request, Call, BeginHandle, Picked, TakeUpstream, Built, Advance,
       Connected, Spawned, Answered, BodyEnds, BodyBreaks, Cancel, LinkEnds, LinkBreaks,
       ClientFlow, TypeOK
  <2>4. CASE \/ \E c \in Conns : Open(c) \/ Handshake(c) \/ HandshakeFails(c) \/ Leave(c)
             \/ \E u \in Upstreams : Flip(u) \/ \E b \in BOOLEAN : Store(u, b)
    BY <2>4 DEF Open, Handshake, HandshakeFails, Leave, ConnStep, reqState, Flip, Notice, Store
  <2> QED
    BY <1>4, <2>1, <2>2, <2>3, <2>4 DEF Next, Proceed, Upstream, Early, Late
<1> QED  BY <1>1, <1>2, <1>3, <1>4

LEMMA SafeErrorsAreEarned == Safe => ErrorsAreEarned
<1>1. IInv /\ [Next]_vars =>
        [\A s \in Streams :
           resp[s] = "none" =>
             /\ resp'[s] = "503" => ~forwarded[s] /\ everFailed = Upstreams
             /\ resp'[s] = "502" =>
                  \/ phase[s] = "building" /\ ~forwarded[s]
                  \/ phase[s] = "sending" /\ "broken" \in flow[s]
                  \/ phase[s] # "building" /\ result[s] \in everFailed]_vars
  BY StepErrors
<1> QED  BY <1>1, Invariance, PTL DEF Safe, ErrorsAreEarned

(***************************************************************************)
(* The proxy's own errors blame nobody who always worked: a 503 means that *)
(* nothing was sent and every upstream has failed, a 502 that the chosen   *)
(* one has, that the request could not be built and was not sent, or that  *)
(* the client's own body broke while it was being sent.                    *)
(***************************************************************************)
THEOREM ErrorsBlameFailures == Spec => ErrorsAreEarned
  BY SafeErrorsAreEarned, SpecIsSafe, PTL

-----------------------------------------------------------------------------
(***************************************************************************)
(* CrateD.  What was proved of a step of Backends is used for the Backends *)
(* inside it: P and B are the same.                                        *)
(***************************************************************************)
P == INSTANCE BackendsProofs WITH Callers <- Streams

LEMMA SameConfigured == CrateConfigured => P!Configured /\ Upstreams = P!Upstreams
  BY DEF CrateConfigured, B!Configured, B!Upstreams, B!Checks!AllModes, P!Configured,
     P!Upstreams, P!Checks!AllModes

LEMMA SameInit == B!BackInit => P!BackInit
  BY DEF B!BackInit, B!Init, B!NewFlags, B!Upstreams, B!Checks!Init, B!Checks!NewFlags,
     P!BackInit, P!Init, P!NewFlags, P!Upstreams, P!Checks!Init, P!Checks!NewFlags

LEMMA SameScan ==
  ASSUME NEW s \in Streams
  PROVE  /\ B!Picking(s) = P!Picking(s) /\ B!Picking(s)' = P!Picking(s)'
         /\ B!Ask(s) => P!Ask(s)
         /\ B!Look(s) => P!Look(s)
         /\ B!Hand(s) => P!Hand(s)
         /\ B!HandNone(s) => P!HandNone(s)
         /\ B!Crash(s) => P!Crash(s)
  BY DEF B!Picking, B!Ask, B!Call, B!NextTicket, B!Up, B!Upstreams, B!Look, B!LoadUnhealthy,
     B!Panic, B!SumOverflows, B!Idx, B!Hand, B!LoadHealthy, B!HandNone, B!GiveUp, B!Crash, B!checkVars,
     P!Picking, P!Ask, P!Call, P!NextTicket, P!Up, P!Upstreams, P!Look, P!LoadUnhealthy,
     P!Panic, P!SumOverflows, P!Idx, P!Hand, P!LoadHealthy, P!HandNone, P!GiveUp, P!Crash, P!checkVars

LEMMA SameStore ==
  ASSUME NEW u, B!StoreVerdict(u)
  PROVE  P!StoreVerdict(u)
  BY DEF B!StoreVerdict, B!Store, B!Up, B!Upstreams, B!Picking, B!Checks!Store, B!Checks!Goto,
     P!StoreVerdict, P!Store, P!Up, P!Upstreams, P!Picking, P!Checks!Store, P!Checks!Goto

LEMMA SameChange ==
  ASSUME NEW u, NEW m, B!Change(u, m)
  PROVE  P!Change(u, m)
  BY DEF B!Change, B!Checks!ChangeMode, B!pickVars, P!Change, P!Checks!ChangeMode, P!pickVars

LEMMA SameRemember == B!Remember => P!Remember
  BY DEF B!Remember, B!Settled, B!Works, B!Lag, B!Upstreams,
     P!Remember, P!Settled, P!Works, P!Lag, P!Upstreams

LEMMA SameCover == B!ScansCover => P!ScansCover
  BY DEF B!ScansCover, B!WrapIsEven, B!NoWrap, P!ScansCover, P!WrapIsEven, P!NoWrap

LEMMA SameBehind == B!Behind => P!Behind
  BY DEF B!Behind, B!Probe, B!Wire, B!Upstreams, B!Checks!Wake, B!Checks!Connect,
     B!Checks!Write, B!Checks!Read, B!Checks!Timeout, B!Checks!Return, B!Checks!Goto,
     B!Checks!Probing, B!Checks!Answer, B!Checks!Answers, B!Checks!LoseRequest,
     B!Checks!Tick, B!Checks!Waiting, B!pickVars,
     P!Behind, P!Probe, P!Wire, P!Upstreams, P!Checks!Wake, P!Checks!Connect,
     P!Checks!Write, P!Checks!Read, P!Checks!Timeout, P!Checks!Return, P!Checks!Goto,
     P!Checks!Probing, P!Checks!Answer, P!Checks!Answers, P!Checks!LoseRequest,
     P!Checks!Tick, P!Checks!Waiting, P!pickVars

(* What tasks do beside picking. *)
Alone == (\E s \in Streams : Early(s) \/ Late(s)) \/ \E c \in Conns : OnConn(c)

LEMMA AloneIsQuiet == Alone => UNCHANGED <<checkState, pickState, everFailed>>
<1> USE DEF Advance, ErrorResponse, ConnStep
<1>1. ASSUME NEW s \in Streams, Early(s)
      PROVE  UNCHANGED <<checkState, pickState, everFailed>>
  BY <1>1 DEF Early, Request, Built, BuildFails, Connected, ConnectFails, ClientHandshakeFails
<1>2. ASSUME NEW s \in Streams, Late(s)
      PROVE  UNCHANGED <<checkState, pickState, everFailed>>
  BY <1>2 DEF Late, Spawned, Answered, SendFails, BodyEnds, BodyBreaks, Cancel, LinkEnds,
     LinkBreaks, ClientFlow
<1>3. ASSUME NEW c \in Conns, OnConn(c)
      PROVE  UNCHANGED <<checkState, pickState, everFailed>>
  BY <1>3 DEF OnConn, Open, Handshake, HandshakeFails, Leave
<1> QED  BY <1>1, <1>2, <1>3 DEF Alone

(* A panic breaks its HTTP/1.1 connection, and no more. *)
LEMMA CrashIsLeave ==
  ASSUME NEW s \in Streams,
         IF conn[ConnOf(s)] = "h1" THEN Leave(ConnOf(s)) ELSE UNCHANGED vars
  PROVE  /\ [Next]_vars
         /\ UNCHANGED <<checkState, pickState, reqState, everFailed>>
  BY OwnConn DEF Next, Leave, ConnStep, vars

(* Some step of the crate is taken: which of the backends' is it? *)
LEMMA StepsOfBackends ==
  ASSUME CrateConfigured, [CrateNext]_crateVars
  PROVE  [P!BackNext]_(P!backVars)
<1>1. Upstreams = P!Upstreams
  BY SameConfigured
<1>2. UNCHANGED <<vars, inside>> => UNCHANGED P!backVars
  BY DEF vars, checkState, pickState, inside, P!backVars, P!pickVars, P!checkVars
<1>3. ASSUME Alone, UNCHANGED inside PROVE UNCHANGED P!backVars
  BY <1>3, AloneIsQuiet DEF checkState, pickState, inside, P!backVars, P!pickVars, P!checkVars
<1>4. ASSUME NEW s \in Streams, BeginPick(s) \/ ScanOn(s), B!Remember
      PROVE  P!BackNext
  BY <1>4, SameScan, SameRemember DEF BeginPick, ScanOn, P!BackNext
<1>5. ASSUME NEW u \in Upstreams, StoreVerdict(u), B!Remember
      PROVE  P!BackNext
  BY <1>1, <1>5, SameStore, SameRemember DEF StoreVerdict, P!BackNext
<1>6. ASSUME NEW u \in Upstreams, NEW m \in Modes, Change(u, m), B!Remember
      PROVE  P!BackNext
  BY <1>1, <1>6, SameChange, SameRemember DEF Change, P!BackNext
<1>7. B!Behind /\ B!Remember => P!BackNext
  BY SameBehind, SameRemember DEF P!BackNext
<1> QED  BY <1>2, <1>3, <1>4, <1>5, <1>6, <1>7 DEF CrateNext, Alone, crateVars

(* The invariant of the whole that needs nothing of the tasks. *)
Joined == P!BackInv /\ Tied

LEMMA InitJoined ==
  ASSUME CrateConfigured, CrateInit
  PROVE  Joined
  BY SameConfigured, SameInit, P!InitBackInv DEF CrateInit, Joined, P!Configured

LEMMA StepTied ==
  ASSUME CrateConfigured, Joined, [CrateNext]_crateVars
  PROVE  Tied'
<1> USE DEF Joined
<1>1. StayTied => Tied'
  BY DEF StayTied, Tied
<1>2. UNCHANGED <<ok, picking, mode, pc>> => Tied'
  BY DEF Tied, B!Works, B!Picking
<1>3. ASSUME Alone, UNCHANGED inside PROVE Tied'
  BY <1>2, <1>3, AloneIsQuiet DEF checkState, pickState, inside
<1>4. ASSUME NEW s \in Streams, B!Look(s) \/ B!Crash(s), UNCHANGED <<ok, picking>>
      PROVE  Tied'
  <2>1. \A d \in Streams : B!Picking(d)' = B!Picking(d)
    BY <1>4 DEF B!Look, B!LoadUnhealthy, B!Crash, B!Panic, B!Picking, P!BackInv, P!IInv, P!TypeOK
  <2> QED  BY <1>4, <2>1 DEF Tied, B!Look, B!Crash, B!checkVars, B!Works
<1>5. ASSUME B!Behind, UNCHANGED vars PROVE Tied'
  <2>1. UNCHANGED <<mode, pc>>
    BY <1>5, SameConfigured, SameBehind, P!BehindIsBehind DEF P!Configured, P!pickVars
  <2> QED  BY <1>2, <1>5, <2>1 DEF vars, checkState, pickState
<1>6. ASSUME NEW s \in Streams, ScanOn(s) PROVE Tied'
  BY <1>1, <1>4, <1>6, CrashIsLeave DEF ScanOn, vars, checkState, pickState
<1> QED
  BY <1>1, <1>2, <1>3, <1>5, <1>6 DEF CrateNext, Alone, BeginPick, StoreVerdict, Change,
     crateVars, vars, checkState, pickState, inside

LEMMA StepJoined ==
  ASSUME CrateConfigured, Joined, [CrateNext]_crateVars
  PROVE  Joined'
<1>1. P!BackInv'
  BY SameConfigured, StepsOfBackends, P!StepBackInv DEF Joined, P!Configured
<1> QED  BY <1>1, StepTied DEF Joined

-----------------------------------------------------------------------------
(* A request's steps in the crate, and the upstreams', as HyperProxy's.    *)

(* The mapped variables are the ones PickSpec and CheckerSpec are given. *)
LEMMA TiesHold ==
  ASSUME CrateConfigured, Joined, [CrateNext]_crateVars
  PROVE  /\ Upstreams = P!Upstreams
         /\ ok = [u \in P!Upstreams |-> P!Works(u)]
         /\ ok' = [u \in P!Upstreams |-> P!Works(u)]'
         /\ picking = [s \in Streams |-> P!Picking(s)]
         /\ picking' = [s \in Streams |-> P!Picking(s)]'
<1>1. Upstreams = P!Upstreams
  BY SameConfigured
<1>2. Tied /\ Tied'
  BY StepTied DEF Joined
<1> QED  BY <1>1, <1>2 DEF Tied, B!Works, B!Picking, P!Works, P!Picking

LEMMA BeginIsCall ==
  ASSUME CrateConfigured, Joined, B!Remember, NEW s \in Streams, BeginPick(s)
  PROVE  Call(s)
<1>1. [CrateNext]_crateVars
  BY DEF CrateNext
<1>2. P!Ask(s)
  BY SameScan DEF BeginPick
<1>3. P!Pick!Begin(s)
  BY <1>2, SameConfigured, P!CallIsBegin DEF P!Ask, P!Configured, Joined, P!BackInv
<1>4. Pick!Begin(s)
  BY <1>1, <1>3, TiesHold DEF P!Pick!Begin, Pick!Begin
<1>5. UNCHANGED <<ok, seen>>
  BY <1>1, <1>2, SameConfigured, TiesHold, P!ScanTellsNothing DEF P!Configured
<1> QED  BY <1>4, <1>5 DEF BeginPick, Call

LEMMA ScanIsPick ==
  ASSUME CrateConfigured, Joined, B!ScansCover, B!Remember, NEW s \in Streams, ScanOn(s)
  PROVE  NonePicked(s) \/ (\E u \in Upstreams : Picked(s, u)) \/ [Next]_vars
<1> USE DEF P!Configured, Joined, P!BackInv
<1>1. [CrateNext]_crateVars
  BY DEF CrateNext
<1>2. CASE P!Hand(s) /\ TakeUpstream(s)
  <2>1. UNCHANGED <<ok, seen>>
    BY <1>1, <1>2, SameConfigured, TiesHold, P!ScanTellsNothing
  <2>2. \E u \in P!Upstreams : P!Pick!EndWith(s, u)
    BY <1>2, SameConfigured, P!LoadHealthyIsEndWith DEF P!Hand
  <2>3. \E u \in Upstreams : Pick!EndWith(s, u)
    BY <1>1, <2>2, TiesHold DEF P!Pick!EndWith, Pick!EndWith
  <2> QED  BY <1>2, <2>1, <2>3 DEF Picked
<1>3. CASE P!HandNone(s) /\ TakeNone(s)
  <2>1. UNCHANGED <<ok, seen>>
    BY <1>1, <1>3, SameConfigured, TiesHold, P!ScanTellsNothing
  <2>2. P!ScansCover
    BY SameCover
  <2>3. P!Pick!EndWithNone(s)
    BY <1>3, <2>2, SameConfigured, P!GiveUpIsEndWithNone DEF P!HandNone
  <2>4. Pick!EndWithNone(s)
    BY <1>1, <2>3, TiesHold DEF P!Pick!EndWithNone, Pick!EndWithNone
  <2> QED  BY <1>3, <2>1, <2>4 DEF NonePicked
<1> QED  BY <1>2, <1>3, SameScan, CrashIsLeave DEF ScanOn

LEMMA VerdictIsStore ==
  ASSUME CrateConfigured, Joined, B!Remember, NEW u \in Upstreams, StoreVerdict(u)
  PROVE  \E b \in BOOLEAN : Store(u, b)
<1>1. [CrateNext]_crateVars
  BY DEF CrateNext
<1>2. P!StoreVerdict(u)
  BY SameStore DEF StoreVerdict
<1>3. verdict[u] \in BOOLEAN /\ P!Word!StoreFlag(u, verdict[u]) /\ P!Pick!SetFlag(u, verdict[u])
  BY <1>2, SameConfigured, P!VerdictIsJustified DEF P!Configured, Joined
<1>4. Check!StoreFlag(u, verdict[u]) /\ Pick!SetFlag(u, verdict[u])
  BY <1>1, <1>3, TiesHold DEF P!Word!StoreFlag, P!Pick!SetFlag, Check!StoreFlag, Pick!SetFlag
<1> QED  BY <1>3, <1>4 DEF StoreVerdict, Store

LEMMA ChangeIsFlip ==
  ASSUME CrateConfigured, Joined, B!Remember, NEW u \in Upstreams, NEW m \in Modes,
         Change(u, m)
  PROVE  Flip(u) \/ UNCHANGED vars
<1>1. [CrateNext]_crateVars
  BY DEF CrateNext
<1>2. P!Change(u, m)
  BY SameChange DEF Change
<1>3. /\ UNCHANGED P!Pick!pickVars
      /\ IF P!Works(u) = (m = "ok") THEN UNCHANGED P!Word!checkerVars ELSE P!Word!Flip(u)
  BY <1>2, SameConfigured, P!ChangeIsFlipOrNothing DEF P!Configured, Joined
<1>4. UNCHANGED pickState /\ ok[u] = P!Works(u)
  BY <1>1, <1>3, TiesHold DEF P!Pick!pickVars, pickState
<1>5. CASE ok[u] = (m = "ok")
  <2>1. UNCHANGED checkState
    BY <1>1, <1>3, <1>4, <1>5, TiesHold DEF P!Word!checkerVars, checkState
  <2> QED  BY <1>4, <1>5, <2>1 DEF Change, vars
<1>6. CASE ok[u] # (m = "ok")
  <2>1. Check!Flip(u)
    BY <1>1, <1>3, <1>4, <1>6, TiesHold DEF P!Word!Flip, Check!Flip
  <2> QED  BY <1>4, <1>6, <2>1 DEF Change, Flip
<1> QED  BY <1>5, <1>6

(* A step of the crate is one of HyperProxy's, or hidden from it. *)
LEMMA StepsOfHyperProxy ==
  ASSUME CrateConfigured, Joined, B!ScansCover, [CrateNext]_crateVars
  PROVE  [Next]_vars
<1>1. ASSUME NEW s \in Streams, BeginPick(s) \/ ScanOn(s), B!Remember
      PROVE  [Next]_vars
  BY <1>1, BeginIsCall, ScanIsPick DEF Next, Proceed
<1>4. Alone => Next
  BY DEF Alone, Early, Late, OnConn, Next, Proceed, Upstream
<1>2. ASSUME NEW u \in Upstreams, StoreVerdict(u), B!Remember PROVE Next
  BY <1>2, VerdictIsStore DEF Next
<1>3. ASSUME NEW u \in Upstreams, NEW m \in Modes, Change(u, m), B!Remember
      PROVE  [Next]_vars
  BY <1>3, ChangeIsFlip DEF Next
<1> QED  BY <1>1, <1>2, <1>3, <1>4 DEF CrateNext, Alone, crateVars

(***************************************************************************)
(* Crate D's balancer and checkers may stand where HyperProxy has PickSpec *)
(* and CheckerSpec: where scans cover all upstreams, every step of the     *)
(* crate is one of HyperProxy's or changes nothing HyperProxy knows of.    *)
(***************************************************************************)
THEOREM HyperRefinement ==
  ASSUME CrateConfigured
  PROVE  CrateSpec /\ []B!ScansCover => ImplementsHyperProxy
<1>1. ASSUME CrateInit PROVE Init
  <2>1. P!Word!Init /\ P!Pick!Init
    BY <1>1, SameConfigured, SameInit, P!InitIsWord DEF CrateInit, P!Configured
  <2>2. /\ Upstreams = P!Upstreams /\ ok = [u \in P!Upstreams |-> P!Works(u)]
        /\ picking = [s \in Streams |-> P!Picking(s)]
    BY <1>1, SameConfigured DEF CrateInit, Tied, B!Works, B!Picking, P!Works, P!Picking
  <2>3. Check!Init /\ Pick!Init
    BY <2>1, <2>2 DEF P!Word!Init, P!Pick!Init, Check!Init, Pick!Init
  <2> QED  BY <1>1, <2>3 DEF CrateInit, Init
<1>2. CrateInit => Joined
  BY InitJoined
<1>3. Joined /\ [CrateNext]_crateVars => Joined'
  BY StepJoined
<1>4. Joined /\ B!ScansCover /\ [CrateNext]_crateVars => [Next]_vars
  BY StepsOfHyperProxy
<1> QED  BY <1>1, <1>2, <1>3, <1>4, PTL DEF CrateSpec, ImplementsHyperProxy, Safe

(***************************************************************************)
(* What was proved of HyperProxy holds of crate D with its own balancer and*)
(* checkers: its errors blame only upstreams that failed, or a request that*)
(* could not be built or whose body broke.                                 *)
(***************************************************************************)
THEOREM CrateKeepsItsWord ==
  ASSUME CrateConfigured
  PROVE  CrateSpec /\ []B!ScansCover => ErrorsAreEarned
  BY HyperRefinement, SafeErrorsAreEarned, PTL DEF ImplementsHyperProxy

-----------------------------------------------------------------------------
(* Where the requests are, whether or not sums wrap. *)
Placed == phase \in [Streams -> Phases]

LEMMA StepPlaced == Placed /\ [CrateNext]_crateVars => Placed'
<1> SUFFICES ASSUME Placed, [CrateNext]_crateVars PROVE Placed'
  OBVIOUS
<1> USE DEF Placed, Phases, Goto, Advance, End, ErrorResponse
<1>1. phase' = phase => Placed'
  OBVIOUS
<1>2. ASSUME NEW s \in Streams, BeginPick(s) \/ ScanOn(s) PROVE Placed'
  BY <1>1, <1>2, CrashIsLeave DEF BeginPick, ScanOn, BeginHandle, TakeUpstream, TakeNone,
     vars, reqState
<1>3. ASSUME NEW s \in Streams, Early(s) PROVE Placed'
  BY <1>3 DEF Early, Request, Built, BuildFails, Connected, ConnectFails, ClientHandshakeFails
<1>4. ASSUME NEW s \in Streams, Late(s) PROVE Placed'
  BY <1>4 DEF Late, Spawned, Answered, SendFails, BodyEnds, BodyBreaks, Cancel, LinkEnds,
     LinkBreaks, ClientFlow
<1>5. ASSUME NEW c \in Conns, OnConn(c) PROVE Placed'
  BY <1>5 DEF OnConn, Open, Handshake, HandshakeFails, Leave, ConnStep, reqState
<1> QED
  BY <1>1, <1>2, <1>3, <1>4, <1>5 DEF CrateNext, StoreVerdict, Change, Notice, crateVars,
     vars, reqState

(* Only a TRUE flag takes a request on from next_healthy. *)
LEMMA OnlyWithAFlag ==
  ASSUME Placed, CrateNext, NEW s \in Streams, phase[s] = "picking", phase'[s] = "building"
  PROVE  B!Hand(s)
<1> USE DEF Placed, Phases, Goto, Advance, End, ErrorResponse
<1>1. phase' # phase
  OBVIOUS
<1>2. ASSUME NEW t \in Streams, BeginPick(t) PROVE FALSE
  BY <1>2 DEF BeginPick, BeginHandle
<1>3. ASSUME NEW t \in Streams, ScanOn(t) PROVE B!Hand(s)
  BY <1>1, <1>3, CrashIsLeave DEF ScanOn, TakeUpstream, TakeNone, vars, reqState
<1>4. ASSUME NEW t \in Streams, Early(t) PROVE FALSE
  BY <1>4 DEF Early, Request, Built, BuildFails, Connected, ConnectFails, ClientHandshakeFails
<1>5. ASSUME NEW t \in Streams, Late(t) PROVE FALSE
  BY <1>5 DEF Late, Spawned, Answered, SendFails, BodyEnds, BodyBreaks, Cancel, LinkEnds,
     LinkBreaks, ClientFlow
<1>6. ASSUME NEW c \in Conns, OnConn(c) PROVE FALSE
  BY <1>1, <1>6 DEF OnConn, Open, Handshake, HandshakeFails, Leave, ConnStep, reqState
<1> QED
  BY <1>1, <1>2, <1>3, <1>4, <1>5, <1>6 DEF CrateNext, StoreVerdict, Change, Notice, vars,
     reqState

(***************************************************************************)
(* No request is sent to an upstream that has been failing for longer than *)
(* one sleep and one probe timeout, whatever is stored while it scans, also*)
(* when the sums wrap.                                                     *)
(***************************************************************************)
THEOREM FreshPicks ==
  ASSUME CrateConfigured
  PROVE  CrateSpec => PicksAreFresh
<1>1. CrateInit => Joined /\ Placed
  BY InitJoined DEF CrateInit, TasksInit, Placed, Phases
<1>2. Joined /\ Placed /\ [CrateNext]_crateVars => Joined' /\ Placed'
  BY StepJoined, StepPlaced
<1>3. ASSUME Joined, Placed, CrateNext, NEW s \in Streams,
             phase[s] = "picking", phase'[s] = "building"
      PROVE  B!Fresh(result'[s])
  <2>1. P!Hand(s)
    BY <1>3, OnlyWithAFlag, SameScan
  <2>2. P!Fresh(result'[s])
    BY <1>3, <2>1, SameConfigured, P!HandIsFresh DEF P!Configured, Joined
  <2> QED  BY <2>2 DEF P!Fresh, P!Works, P!Lag, B!Fresh, B!Works, B!Lag
<1>4. Joined /\ Placed /\ [CrateNext]_crateVars
        => [\A s \in Streams :
              phase[s] = "picking" /\ phase'[s] = "building" => B!Fresh(result'[s])]_crateVars
  BY <1>3
<1> QED  BY <1>1, <1>2, <1>4, PTL DEF CrateSpec, PicksAreFresh

(* Only a scan that found nothing ends a request from next_healthy. *)
LEMMA OnlyWithoutAFlag ==
  ASSUME Placed, CrateNext, NEW s \in Streams, phase[s] = "picking", phase'[s] = "free"
  PROVE  B!HandNone(s)
<1> USE DEF Placed, Phases, Goto, Advance, End, ErrorResponse
<1>1. phase' # phase
  OBVIOUS
<1>2. ASSUME NEW t \in Streams, BeginPick(t) PROVE FALSE
  BY <1>2 DEF BeginPick, BeginHandle
<1>3. ASSUME NEW t \in Streams, ScanOn(t) PROVE B!HandNone(s)
  BY <1>1, <1>3, CrashIsLeave DEF ScanOn, TakeUpstream, TakeNone, vars, reqState
<1>4. ASSUME NEW t \in Streams, Early(t) PROVE FALSE
  BY <1>4 DEF Early, Request, Built, BuildFails, Connected, ConnectFails, ClientHandshakeFails
<1>5. ASSUME NEW t \in Streams, Late(t) PROVE FALSE
  BY <1>5 DEF Late, Spawned, Answered, SendFails, BodyEnds, BodyBreaks, Cancel, LinkEnds,
     LinkBreaks, ClientFlow, Awaits
<1>6. ASSUME NEW c \in Conns, OnConn(c) PROVE FALSE
  BY <1>1, <1>6 DEF OnConn, Open, Handshake, HandshakeFails, Leave, ConnStep, reqState
<1> QED
  BY <1>1, <1>2, <1>3, <1>4, <1>5, <1>6 DEF CrateNext, StoreVerdict, Change, Notice, vars,
     reqState

(***************************************************************************)
(* Where scans cover all upstreams, no request is answered 503 when some   *)
(* upstream had been working for longer than one sleep and one probe       *)
(* timeout at every instant of its pick.                                   *)
(***************************************************************************)
THEOREM UnavailableNeedsTrouble ==
  ASSUME CrateConfigured
  PROVE  CrateSpec /\ []B!ScansCover => UnavailableIsEarned
<1>1. CrateInit => Joined /\ Placed
  BY InitJoined DEF CrateInit, TasksInit, Placed, Phases
<1>2. Joined /\ Placed /\ [CrateNext]_crateVars => Joined' /\ Placed'
  BY StepJoined, StepPlaced
<1>3. ASSUME Joined, Placed, B!ScansCover, CrateNext, NEW s \in Streams,
             phase[s] = "picking", phase'[s] = "free"
      PROVE  settled[s] = {}
  <2>1. P!HandNone(s)
    BY <1>3, OnlyWithoutAFlag, SameScan
  <2> QED
    BY <1>3, <2>1, SameConfigured, SameCover, P!HandNoneIsEarned DEF P!Configured, Joined
<1>4. Joined /\ Placed /\ B!ScansCover /\ [CrateNext]_crateVars
        => [\A s \in Streams :
              phase[s] = "picking" /\ phase'[s] = "free" => settled[s] = {}]_crateVars
  BY <1>3
<1> QED  BY <1>1, <1>2, <1>4, PTL DEF CrateSpec, UnavailableIsEarned
=============================================================================
