--------------------------- MODULE BackendsProofs ---------------------------
(***************************************************************************)
(* Proofs about Balancer, and about Backends, which puts it and Health to  *)
(* work on the same flags: for every number of callers and upstreams, every*)
(* width of the counter, every interval and every timeout.                 *)
(***************************************************************************)
EXTENDS Backends, TLAPS

-----------------------------------------------------------------------------
(* Division with remainder, and the uniqueness of the remainder. *)
LEMMA DivMod ==
  ASSUME NEW n \in Nat \ {0}, NEW a \in Nat
  PROVE  /\ a % n \in 0 .. n - 1
         /\ a \div n \in Nat
         /\ a = n * (a \div n) + (a % n)
  BY Z3

LEMMA RemainderUnique ==
  ASSUME NEW n \in Nat \ {0}, NEW q \in Nat, NEW r \in 0 .. n - 1
  PROVE  (n * q + r) % n = r
<1> DEFINE a == n * q + r
           d == a \div n
<1>1. a \in Nat
  OBVIOUS
<1>2. a % n \in 0 .. n - 1 /\ d \in Nat /\ a = n * d + (a % n)
  BY <1>1, DivMod
<1>3. n * (q - d) = (a % n) - r
  BY <1>2
<1>4. CASE q = d
  BY <1>4, <1>2
<1>5. CASE q > d
  <2>1. n * (q - d) >= n
    BY <1>5, <1>2
  <2> QED  BY <2>1, <1>3, <1>2
<1>6. CASE q < d
  <2>1. n * (d - q) >= n
    BY <1>6, <1>2
  <2>2. n * (q - d) = -(n * (d - q))
    BY <1>2
  <2> QED  BY <2>1, <2>2, <1>3, <1>2
<1> QED  BY <1>4, <1>5, <1>6, <1>2

(* A modulus can be left out before one that divides it. *)
LEMMA ModOfMod ==
  ASSUME NEW n \in Nat \ {0}, NEW m \in Nat \ {0}, m % n = 0, NEW a \in Nat
  PROVE  (a % m) % n = a % n
<1> DEFINE q == m \div n
           d == a \div m
           r == a % m
           e == r \div n
           t == r % n
<1>1. q \in Nat /\ m = n * q
  BY DivMod
<1>2. d \in Nat /\ r \in Nat /\ a = m * d + r
  BY DivMod
<1>3. e \in Nat /\ t \in 0 .. n - 1 /\ r = n * e + t
  BY <1>2, DivMod
<1> HIDE DEF q, d, r, e, t
<1>4. m * d = n * (q * d) /\ q * d \in Nat
  BY <1>1, <1>2
<1>5. ASSUME NEW p \in Nat, m * d = n * p PROVE a % n = t
  <2>1. a = n * (p + e) + t /\ p + e \in Nat
    BY <1>2, <1>3, <1>5
  <2> QED  BY <1>3, <2>1, RemainderUnique
<1>6. a % n = t
  BY <1>4, <1>5
<1> QED  BY <1>6 DEF r, t

(* N consecutive numbers hit every residue modulo N. *)
LEMMA EveryResidue ==
  ASSUME NEW s \in Nat, NEW u \in Upstreams
  PROVE  \E k \in 0 .. N - 1 : (s + k) % N = u
<1> USE NAssumption
<1> DEFINE r == s % N
           d == s \div N
<1>1. r \in 0 .. N - 1 /\ d \in Nat /\ s = N * d + r
  BY DivMod
<1> HIDE DEF r, d
<1>2. CASE u >= r
  <2> DEFINE k == u - r
  <2>1. k \in 0 .. N - 1 /\ s + k = N * d + u
    BY <1>1, <1>2 DEF Upstreams
  <2>2. (N * d + u) % N = u
    BY <1>1, RemainderUnique DEF Upstreams
  <2> QED  BY <2>1, <2>2
<1>3. CASE u < r
  <2> DEFINE k == (u - r) + N
  <2>1. k \in 0 .. N - 1 /\ s + k = N * (d + 1) + u /\ d + 1 \in Nat
    BY <1>1, <1>3 DEF Upstreams
  <2>2. (N * (d + 1) + u) % N = u
    BY <2>1, RemainderUnique DEF Upstreams
  <2> QED  BY <2>1, <2>2
<1> QED  BY <1>1, <1>2, <1>3 DEF Upstreams

(***************************************************************************)
(* The scan of a ticket s visits every upstream, when no sum wraps or the  *)
(* wrap is even.                                                           *)
(***************************************************************************)
LEMMA ScanVisitsAll ==
  ASSUME NEW s \in Nat, WrapIsEven \/ s + N <= CounterMod, NEW u \in Upstreams
  PROVE  \E k \in 0 .. N - 1 : Idx(s, k) = u
<1> USE NAssumption, CounterModAssumption
<1>1. ASSUME NEW k \in 0 .. N - 1 PROVE Idx(s, k) = (s + k) % N
  <2>1. CASE WrapIsEven
    <3>1. s + k \in Nat
      OBVIOUS
    <3> QED  BY <2>1, <3>1, ModOfMod DEF WrapIsEven, Idx
  <2>2. CASE s + N <= CounterMod
    <3>1. s + k \in 0 .. CounterMod - 1
      BY <2>2
    <3>2. (CounterMod * 0 + (s + k)) % CounterMod = s + k
      BY <3>1, RemainderUnique
    <3> QED  BY <3>1, <3>2 DEF Idx
  <2> QED  BY <2>1, <2>2
<1> QED  BY <1>1, EveryResidue

(* Whatever the ticket, the scan indexes within the vector of flags. *)
LEMMA IdxType ==
  ASSUME NEW s \in Nat, NEW k \in Nat
  PROVE  Idx(s, k) \in Upstreams
<1>1. (s + k) % CounterMod \in Nat
  BY DivMod, CounterModAssumption
<1> QED  BY <1>1, DivMod, NAssumption DEF Idx, Upstreams

-----------------------------------------------------------------------------
LEMMA InitTypeOK == Init => TypeOK
  BY NAssumption, CounterModAssumption DEF Init, TypeOK, NewFlags, Upstreams

LEMMA StepTypeOK == TypeOK /\ [Next]_vars => TypeOK'
<1> SUFFICES ASSUME TypeOK, [Next]_vars PROVE TypeOK'
  OBVIOUS
<1> USE NAssumption, CounterModAssumption DEF TypeOK
<1>1. ASSUME NEW c \in Callers, Call(c) PROVE TypeOK'
  <2>1. NextTicket \in 0 .. CounterMod - 1
    BY DivMod DEF NextTicket
  <2> QED  BY <1>1, <2>1 DEF Call, Picking, Up, Upstreams
<1>2. ASSUME NEW c \in Callers, Panic(c) PROVE TypeOK'
  BY <1>2 DEF Panic
<1>3. ASSUME NEW c \in Callers, LoadHealthy(c) PROVE TypeOK'
  <2>1. Idx(start[c], i[c]) \in Upstreams
    BY IdxType
  <2> QED  BY <1>3, <2>1 DEF LoadHealthy
<1>4. ASSUME NEW c \in Callers, LoadUnhealthy(c) PROVE TypeOK'
  BY <1>4 DEF LoadUnhealthy
<1>5. ASSUME NEW c \in Callers, GiveUp(c) PROVE TypeOK'
  BY <1>5 DEF GiveUp
<1>6. ASSUME NEW u \in Upstreams, NEW b \in BOOLEAN, Store(u, b) PROVE TypeOK'
  <2>1. flags' \in [Upstreams -> BOOLEAN] /\ steady' \in [Callers -> SUBSET Upstreams]
    BY <1>6 DEF Store, Picking
  <2>2. ASSUME NEW c \in Callers
        PROVE  (dark[c] \/ (pc[c] = "scan" /\ Up(flags') = {})) \in BOOLEAN
    OBVIOUS
  <2>3. dark' \in [Callers -> BOOLEAN]
    BY <1>6, <2>2 DEF Store
  <2> QED  BY <1>6, <2>1, <2>3 DEF Store
<1>7. CASE UNCHANGED vars
  BY <1>7 DEF vars
<1> QED  BY <1>1, <1>2, <1>3, <1>4, <1>5, <1>6, <1>7 DEF Next, Scan

(***************************************************************************)
(* The state of the balancer is well typed; in particular every index the  *)
(* scan computes, and every upstream it returns, is one of the configured  *)
(* ones, even when the sum start + i wraps.                                *)
(***************************************************************************)
THEOREM TypeCorrect == Spec => []TypeOK
  BY InitTypeOK, StepTypeOK, PTL DEF Spec

-----------------------------------------------------------------------------
(***************************************************************************)
(* The inductive invariant: what a scan has passed over is not steady; None*)
(* is returned only when the loop is exhausted; and, with overflow checks, *)
(* a scan that got past its k-th load did so without wrapping.             *)
(***************************************************************************)
PassedNotSteady(c) ==
  pc[c] \in {"scan", "done"} =>
    \A k \in 0 .. i[c] - 1 : Idx(start[c], k) \notin steady[c]

NoneAtTheEnd(c) == pc[c] = "done" /\ result[c] = None => i[c] = N

NoneOverflowed(c) ==
  OverflowChecks /\ pc[c] \in {"scan", "done"} /\ i[c] > 0 => start[c] + i[c] <= CounterMod

(* Nothing is returned before the scan ends. *)
NothingYet(c) == pc[c] = "scan" => result[c] = None

ScanInv ==
  \A c \in Callers :
    PassedNotSteady(c) /\ NoneAtTheEnd(c) /\ NoneOverflowed(c) /\ NothingYet(c)

(* What is steady is up now: the history variable is what it claims to be. *)
SteadyIsUp == \A c \in Callers : pc[c] = "scan" => steady[c] \subseteq Up(flags)

IInv == TypeOK /\ ScanInv /\ SteadyIsUp

LEMMA ScanInvInductive ==
  IInv /\ TypeOK' /\ [Next]_vars => IInv'
<1> SUFFICES ASSUME IInv, TypeOK', [Next]_vars PROVE ScanInv' /\ SteadyIsUp'
  BY DEF IInv
<1> USE NAssumption, CounterModAssumption
        DEF IInv, TypeOK, ScanInv, PassedNotSteady, NoneAtTheEnd, NoneOverflowed, NothingYet,
            SteadyIsUp
<1>1. ASSUME NEW c \in Callers, Call(c) PROVE ScanInv' /\ SteadyIsUp'
  BY <1>1 DEF Call, Picking, Up
<1>2. ASSUME NEW c \in Callers, Panic(c) PROVE ScanInv' /\ SteadyIsUp'
  BY <1>2 DEF Panic, Up
<1>3. ASSUME NEW c \in Callers, LoadHealthy(c) PROVE ScanInv' /\ SteadyIsUp'
  <2>1. Idx(start[c], i[c]) # None
    BY IdxType, NoneAssumption
  <2> QED  BY <1>3, <2>1 DEF LoadHealthy, Up
<1>4. ASSUME NEW c \in Callers, LoadUnhealthy(c) PROVE ScanInv' /\ SteadyIsUp'
  <2>1. Idx(start[c], i[c]) \notin steady[c]
    BY <1>4 DEF LoadUnhealthy, Up
  <2>2. \A k \in 0 .. i'[c] - 1 : k \in 0 .. i[c] - 1 \/ k = i[c]
    BY <1>4 DEF LoadUnhealthy
  <2>3. OverflowChecks => start[c] + i'[c] <= CounterMod
    BY <1>4 DEF LoadUnhealthy, SumOverflows
  <2> QED  BY <1>4, <2>1, <2>2, <2>3 DEF LoadUnhealthy, Up
<1>5. ASSUME NEW c \in Callers, GiveUp(c) PROVE ScanInv' /\ SteadyIsUp'
  BY <1>5 DEF GiveUp, Up
<1>6. ASSUME NEW u \in Upstreams, NEW b \in BOOLEAN, Store(u, b)
      PROVE  ScanInv' /\ SteadyIsUp'
  <2>1. \A c \in Callers : steady'[c] \subseteq steady[c]
    BY <1>6 DEF Store
  <2>2. ScanInv'
    BY <1>6, <2>1 DEF Store
  <2>3. SteadyIsUp'
    BY <1>6 DEF Store, Picking, Up
  <2> QED  BY <2>2, <2>3
<1>7. CASE UNCHANGED vars
  BY <1>7 DEF vars, Up
<1> QED  BY <1>1, <1>2, <1>3, <1>4, <1>5, <1>6, <1>7 DEF Next, Scan

LEMMA InitIInv == Init => IInv
<1>1. Init => ScanInv /\ SteadyIsUp
  BY DEF Init, ScanInv, PassedNotSteady, NoneAtTheEnd, NoneOverflowed, NothingYet,
     SteadyIsUp
<1> QED  BY <1>1, InitTypeOK DEF IInv

LEMMA StepIInv == IInv /\ [Next]_vars => IInv'
  BY StepTypeOK, ScanInvInductive DEF IInv

(* The strengthened invariant holds in every reachable state. *)
LEMMA Invariance == Spec => []IInv
  BY InitIInv, StepIInv, PTL DEF Spec

(* At its end a scan of N sums has been everywhere; what was steady is not *)
(* passed over, so it was found.                                           *)
LEMMA NoneIsMissed ==
  ASSUME IInv
  PROVE  NoSteadyUpstreamMissed
<1> SUFFICES ASSUME NEW c \in Callers, pc[c] = "done"
             PROVE  /\ \A k \in 0 .. i[c] - 1 : Idx(start[c], k) \notin steady[c]
                    /\ result[c] = None /\ (OverflowChecks \/ WrapIsEven \/ NoWrap(c))
                         => steady[c] = {}
  BY DEF NoSteadyUpstreamMissed
<1>1. \A k \in 0 .. i[c] - 1 : Idx(start[c], k) \notin steady[c]
  BY DEF IInv, ScanInv, PassedNotSteady
<1>2. ASSUME result[c] = None, OverflowChecks \/ WrapIsEven \/ NoWrap(c), NEW u \in steady[c]
      PROVE  FALSE
  <2>1. i[c] = N /\ u \in Upstreams /\ start[c] \in Nat
    BY <1>2, CounterModAssumption DEF IInv, ScanInv, NoneAtTheEnd, TypeOK
  <2>2. WrapIsEven \/ start[c] + N <= CounterMod
    BY <1>2, <2>1, NAssumption DEF IInv, ScanInv, NoneOverflowed, NoWrap
  <2>3. \E k \in 0 .. N - 1 : Idx(start[c], k) = u
    BY <2>1, <2>2, ScanVisitsAll
  <2> QED  BY <2>1, <2>3, <1>1, <1>2
<1> QED  BY <1>1, <1>2

(***************************************************************************)
(* An upstream whose flag stays TRUE for a whole scan is never missed by   *)
(* next_healthy: not skipped for another one, and not lost in a None.      *)
(***************************************************************************)
THEOREM NeverMissed == Spec => []NoSteadyUpstreamMissed
  BY Invariance, NoneIsMissed, PTL

-----------------------------------------------------------------------------
(* The mapped variable changes for the caller whose pick ends, alone. *)
LEMMA PickingEnds ==
  ASSUME NEW c \in Callers, ~Picking(c)',
         \A x \in Callers \ {c} : Picking(x)' = Picking(x)
  PROVE  [x \in Callers |-> Picking(x)]'
           = [[x \in Callers |-> Picking(x)] EXCEPT ![c] = FALSE]
<1>1. Picking(c)' = FALSE
  BY SMT DEF Picking
<1>2. ASSUME NEW x \in Callers
      PROVE  Picking(x)' = (IF x = c THEN FALSE ELSE Picking(x))
  <2> HIDE DEF Picking
  <2> QED  BY <1>1, Zenon
<1> HIDE DEF Picking
<1> QED  BY <1>2, Zenon

(* What the initial state and the steps of next_healthy are to PickSpec. *)
LEMMA InitIsInit == Init => Pick!Init
<1> SUFFICES ASSUME Init PROVE Pick!Init
  OBVIOUS
<1>1. ASSUME NEW c \in Callers PROVE Picking(c) = FALSE
  <2>1. pc[c] = "idle"
    BY DEF Init
  <2> QED  BY <2>1, SMT DEF Picking
<1>2. [c \in Callers |-> Picking(c)] = [c \in Callers |-> FALSE]
  BY <1>1, Zenon
<1> QED  BY <1>2 DEF Init, NewFlags, Pick!Init

LEMMA CallIsBegin ==
  ASSUME IInv, NEW c \in Callers, Call(c)
  PROVE  Pick!Begin(c)
  BY DEF IInv, TypeOK, Picking, Call, Up, Pick!Begin

LEMMA LoadHealthyIsEndWith ==
  ASSUME IInv, NEW c \in Callers, LoadHealthy(c)
  PROVE  /\ Idx(start[c], i[c]) \in Upstreams
         /\ Pick!EndWith(c, Idx(start[c], i[c]))
<1> USE NAssumption, CounterModAssumption DEF IInv, TypeOK, Picking
<1>1. Idx(start[c], i[c]) \in Upstreams
  BY IdxType
<1>2. Picking(c) /\ ~Picking(c)' /\ \A x \in Callers \ {c} : Picking(x)' = Picking(x)
  BY DEF LoadHealthy
<1>3. [x \in Callers |-> Picking(x)]' = [[x \in Callers |-> Picking(x)] EXCEPT ![c] = FALSE]
  BY <1>2, PickingEnds
<1> HIDE DEF Picking
<1> QED  BY <1>1, <1>2, <1>3 DEF LoadHealthy, Pick!EndWith

LEMMA GiveUpIsEndWithNone ==
  ASSUME IInv, ScansCover, NEW c \in Callers, GiveUp(c)
  PROVE  Pick!EndWithNone(c)
<1> USE NAssumption, CounterModAssumption DEF IInv, TypeOK, Picking
<1>1. (WrapIsEven \/ start[c] + N <= CounterMod) /\ i[c] = N /\ pc[c] = "scan"
  BY DEF GiveUp, ScanInv, NoneOverflowed, ScansCover, NoWrap
<1>2. steady[c] = {}
  <2> SUFFICES ASSUME NEW u \in steady[c] PROVE FALSE
    OBVIOUS
  <2>1. u \in Upstreams /\ start[c] \in Nat
    OBVIOUS
  <2>2. \E k \in 0 .. N - 1 : Idx(start[c], k) = u
    BY <1>1, <2>1, ScanVisitsAll
  <2> QED  BY <1>1, <2>2 DEF ScanInv, PassedNotSteady
<1>3. Picking(c) /\ ~Picking(c)' /\ \A x \in Callers \ {c} : Picking(x)' = Picking(x)
  BY DEF GiveUp
<1>4. [x \in Callers |-> Picking(x)]' = [[x \in Callers |-> Picking(x)] EXCEPT ![c] = FALSE]
  BY <1>3, PickingEnds
<1> HIDE DEF Picking
<1> QED  BY <1>2, <1>3, <1>4 DEF GiveUp, Pick!EndWithNone

LEMMA StoreIsSetFlag ==
  ASSUME NEW u \in Upstreams, NEW b \in BOOLEAN, Store(u, b)
  PROVE  Pick!SetFlag(u, b)
  BY DEF Store, Picking, Pick!SetFlag

LEMMA ScanIsHidden ==
  ASSUME IInv, NEW c \in Callers, LoadUnhealthy(c) \/ Panic(c)
  PROVE  UNCHANGED Pick!pickVars
<1> USE DEF IInv, TypeOK, Picking
<1>1. CASE LoadUnhealthy(c)
  BY <1>1 DEF LoadUnhealthy, Pick!pickVars
<1>2. CASE Panic(c)
  BY <1>2 DEF Panic, Pick!pickVars
<1> QED  BY <1>1, <1>2

(***************************************************************************)
(* With overflow checks, with a power of two of upstreams, or while no     *)
(* ticket is within N of 2^w, next_healthy implements the pick of PickSpec:*)
(* every step is a step of PickSpec or changes nothing its callers can see.*)
(***************************************************************************)
THEOREM PickRefinement == Spec /\ []ScansCover => RefinesPick
<1>1. Init => Pick!Init
  BY InitIsInit
<1>2. IInv /\ ScansCover /\ [Next]_vars
        => [Pick!Next]_(Pick!pickVars)
  <2> SUFFICES ASSUME IInv, ScansCover, [Next]_vars
               PROVE  Pick!Next \/ UNCHANGED Pick!pickVars
    OBVIOUS
  <2>1. CASE UNCHANGED vars
    BY <2>1 DEF vars, Picking, Pick!pickVars
  <2> QED
    BY <2>1, CallIsBegin, LoadHealthyIsEndWith, GiveUpIsEndWithNone, StoreIsSetFlag,
       ScanIsHidden DEF Next, Scan, Pick!Next
<1> QED  BY <1>1, <1>2, Invariance, PTL DEF Spec, RefinesPick, Pick!Safe

-----------------------------------------------------------------------------

-----------------------------------------------------------------------------
(***************************************************************************)
(* Backends.  What was proved of a step of Health is used for the Health   *)
(* inside it; Word is what the checkers promise, as in CheckerSpec.        *)
(***************************************************************************)
H == INSTANCE HealthProofs WITH phase <- probe
Word == INSTANCE CheckerSpec WITH ok <- [u \in Upstreams |-> Works(u)]

(* What was settled for the whole scan was up for the whole scan. *)
SettledIsSteady ==
  /\ settled \in [Callers -> SUBSET Upstreams]
  /\ \A c \in Callers : pc[c] = "scan" => settled[c] \subseteq steady[c]

BackInv == IInv /\ H!IInv /\ SettledIsSteady

LEMMA StoredIsBoolean ==
  ASSUME Configured, BackInv, NEW u \in Upstreams
  PROVE  verdict[u] \in BOOLEAN
  BY DEF BackInv, H!IInv, H!Typed, H!TypeOK

LEMMA BehindIsBehind ==
  ASSUME Behind
  PROVE  UNCHANGED <<flags, mode, seen, pickVars>>
<1>1. ASSUME NEW u \in Upstreams, Probe(u) \/ Wire(u) PROVE UNCHANGED <<flags, mode, seen>>
  BY <1>1 DEF Probe, Wire, Checks!Wake, Checks!Connect, Checks!Write, Checks!Read,
     Checks!Timeout, Checks!Return, Checks!Answer, Checks!LoseRequest
<1>2. Checks!Tick => UNCHANGED <<flags, mode, seen>>
  BY DEF Checks!Tick
<1> QED  BY <1>1, <1>2 DEF Behind

(* A step of the two is one of the balancer, or it does not know of it. *)
LEMMA StepsOfBalancer ==
  ASSUME Configured, BackInv, [BackNext]_backVars
  PROVE  [Next]_vars
<1>1. CASE UNCHANGED backVars
  BY <1>1 DEF backVars, pickVars, vars
<1>2. ASSUME NEW c \in Callers, Ask(c) \/ Look(c) \/ Hand(c) \/ HandNone(c) \/ Crash(c) PROVE Next
  BY <1>2 DEF Ask, Look, Hand, HandNone, Crash, Next, Scan
<1>3. ASSUME NEW u \in Upstreams, StoreVerdict(u) PROVE Next
  BY <1>3, StoredIsBoolean DEF StoreVerdict, Next
<1>4. ASSUME NEW u \in Upstreams, NEW m \in Modes, Change(u, m) PROVE UNCHANGED vars
  BY <1>4 DEF Change, Checks!ChangeMode, vars, pickVars
<1>5. Behind => UNCHANGED vars
  BY BehindIsBehind DEF vars, pickVars
<1> QED  BY <1>1, <1>2, <1>3, <1>4, <1>5 DEF BackNext

(* It is one of the checkers, their upstreams or time, or they do not. *)
LEMMA StepsOfHealth ==
  ASSUME [BackNext]_backVars
  PROVE  [H!Next]_(H!vars)
<1>1. CASE UNCHANGED backVars
  BY <1>1 DEF backVars, checkVars, H!vars
<1>2. ASSUME NEW c \in Callers, Ask(c) \/ Look(c) \/ Hand(c) \/ HandNone(c) \/ Crash(c)
      PROVE  UNCHANGED H!vars
  BY <1>2 DEF Ask, Look, Hand, HandNone, Crash, Call, LoadHealthy, LoadUnhealthy, Panic, GiveUp,
     checkVars, H!vars
<1>3. ASSUME NEW u \in Upstreams, StoreVerdict(u) PROVE H!Store(u)
  BY <1>3 DEF StoreVerdict, Checks!Store, Checks!Goto, H!Store, H!Goto
<1>4. ASSUME NEW u \in Upstreams, NEW m \in Modes, Change(u, m) PROVE H!ChangeMode(u, m)
  BY <1>4 DEF Change, Checks!ChangeMode, H!ChangeMode
<1>5. ASSUME NEW u \in Upstreams, Probe(u) \/ Wire(u)
      PROVE  H!Checker(u) \/ H!Answer(u) \/ H!LoseRequest(u)
  <2>1. Checks!Wake(u) => H!Wake(u)
    BY DEF Checks!Wake, Checks!Goto, H!Wake, H!Goto
  <2>2. Checks!Connect(u) => H!Connect(u)
    BY DEF Checks!Connect, Checks!Return, Checks!Goto, H!Connect, H!Return, H!Goto
  <2>3. Checks!Write(u) => H!Write(u)
    BY DEF Checks!Write, Checks!Return, Checks!Goto, H!Write, H!Return, H!Goto
  <2>4. Checks!Read(u) => H!Read(u)
    BY DEF Checks!Read, Checks!Return, Checks!Goto, H!Read, H!Return, H!Goto
  <2>5. Checks!Timeout(u) => H!Timeout(u)
    BY DEF Checks!Timeout, Checks!Probing, Checks!Return, Checks!Goto, H!Timeout,
       H!Probing, H!Return, H!Goto
  <2>6. Checks!Answer(u) => H!Answer(u)
    BY DEF Checks!Answer, Checks!Answers, H!Answer, H!Answers
  <2>7. Checks!LoseRequest(u) => H!LoseRequest(u)
    BY DEF Checks!LoseRequest, Checks!Goto, H!LoseRequest, H!Goto
  <2> QED  BY <1>5, <2>1, <2>2, <2>3, <2>4, <2>5, <2>6, <2>7 DEF Probe, Wire, H!Checker
<1>6. Checks!Tick => H!Tick
  BY DEF Checks!Tick, Checks!Waiting, H!Tick, H!Waiting
<1> QED
  BY <1>1, <1>2, <1>3, <1>4, <1>5, <1>6 DEF BackNext, Behind, H!Next, H!Checker

(***************************************************************************)
(* The joint invariant: each part's own, kept by the steps of both.        *)
(***************************************************************************)
LEMMA InitBackInv ==
  ASSUME Configured, BackInit
  PROVE  BackInv
<1>1. IInv
  BY InitIInv DEF BackInit
<1>2. H!Init
  BY DEF BackInit, Checks!Init, Checks!NewFlags, H!Init, H!NewFlags
<1>3. H!IInv
  BY <1>2, H!InitIInv DEF Configured, Checks!AllModes, H!AllModes
<1>4. SettledIsSteady
  BY DEF BackInit, Init, SettledIsSteady
<1> QED  BY <1>1, <1>3, <1>4 DEF BackInv

LEMMA SettledIsUp ==
  ASSUME Configured, H!IInv, NEW u \in Upstreams, Settled(u)
  PROVE  flags[u]
<1>1. H!FlagsFollow
  BY H!WrongFlagsAreRecent DEF Configured, Checks!AllModes, H!AllModes
<1> QED  BY <1>1 DEF H!FlagsFollow, Settled, Works, Lag

LEMMA StaysSteady ==
  ASSUME Configured, BackInv, IInv', H!IInv', BackNext
  PROVE  SettledIsSteady'
<1> USE DEF BackInv, IInv, TypeOK, SettledIsSteady
<1>1. settled' \in [Callers -> SUBSET Upstreams]
  BY DEF BackNext, Remember
<1>2. SUFFICES ASSUME NEW c \in Callers, pc'[c] = "scan", NEW u \in settled'[c]
               PROVE  u \in steady'[c]
  BY <1>1
<1>3. u \in Upstreams /\ Settled(u)'
  BY <1>1, <1>2 DEF BackNext, Remember
<1>4. flags'[u]
  <2>1. Settled(u)' => flags'[u]
    <3> HIDE DEF IInv, TypeOK, SettledIsSteady
    <3>1. H!FlagsFollow'
      BY H!WrongFlagsAreRecent, PTL DEF Configured, Checks!AllModes, H!AllModes
    <3> QED  BY <1>3, <3>1 DEF H!FlagsFollow, Settled, Works, Lag
  <2> QED  BY <1>3, <2>1
<1>5. pc[c] = "scan" => u \in settled[c]
  BY <1>2 DEF BackNext, Remember
<1>6. ASSUME NEW d \in Callers, Ask(d) PROVE u \in steady'[c]
  BY <1>2, <1>3, <1>4, <1>5, <1>6 DEF Ask, Call, Up
<1>7. ASSUME NEW d \in Callers, Look(d) \/ Hand(d) \/ HandNone(d) \/ Crash(d)
      PROVE  u \in steady'[c]
  BY <1>2, <1>5, <1>7 DEF Look, Hand, HandNone, Crash, LoadUnhealthy, LoadHealthy, GiveUp, Panic
<1>8. ASSUME NEW v \in Upstreams, StoreVerdict(v) PROVE u \in steady'[c]
  BY <1>2, <1>4, <1>5, <1>8 DEF StoreVerdict, Store
<1>9. ASSUME NEW v \in Upstreams, NEW m \in Modes, Change(v, m) PROVE u \in steady'[c]
  BY <1>2, <1>5, <1>9 DEF Change, pickVars
<1>10. Behind => u \in steady'[c]
  BY <1>2, <1>5 DEF Behind, pickVars
<1> QED  BY <1>6, <1>7, <1>8, <1>9, <1>10 DEF BackNext

LEMMA StepBackInv ==
  ASSUME Configured, BackInv, [BackNext]_backVars
  PROVE  BackInv'
<1>1. IInv'
  BY StepsOfBalancer, StepIInv DEF BackInv
<1>2. H!IInv'
  BY StepsOfHealth, H!StepIInv DEF BackInv, Configured, Checks!AllModes, H!AllModes
<1>3. CASE UNCHANGED backVars
  BY <1>1, <1>2, <1>3 DEF BackInv, SettledIsSteady, backVars, pickVars
<1> QED  BY <1>1, <1>2, <1>3, StaysSteady DEF BackInv

-----------------------------------------------------------------------------
(* What the rest of a proxy sees of a step: PickSpec's and CheckerSpec's.  *)

LEMMA InitIsWord ==
  ASSUME Configured, BackInit
  PROVE  Word!Init /\ Pick!Init
  BY InitIsInit DEF BackInit, Checks!Init, Checks!NewFlags, Word!Init, Works, Configured

LEMMA ScanTellsNothing ==
  ASSUME NEW c \in Callers, Ask(c) \/ Look(c) \/ Hand(c) \/ HandNone(c) \/ Crash(c)
  PROVE  UNCHANGED <<[u \in Upstreams |-> Works(u)], seen>>
  BY DEF Ask, Look, Hand, HandNone, Crash, checkVars, Works

LEMMA BehindTellsNothing ==
  ASSUME Behind
  PROVE  UNCHANGED Word!checkerVars /\ UNCHANGED Pick!pickVars
  BY BehindIsBehind DEF pickVars, Works, Picking, Word!checkerVars, Pick!pickVars

LEMMA VerdictIsJustified ==
  ASSUME Configured, BackInv, NEW u \in Upstreams, StoreVerdict(u)
  PROVE  /\ verdict[u] \in BOOLEAN
         /\ Word!StoreFlag(u, verdict[u])
         /\ Pick!SetFlag(u, verdict[u])
<1>1. H!Store(u)
  BY DEF StoreVerdict, Checks!Store, Checks!Goto, H!Store, H!Goto
<1>2. H!Verdicts!StoreFlag(u, verdict[u])
  BY <1>1, H!StoreIsJustified DEF BackInv, Configured, Checks!AllModes, H!AllModes
<1>3. Word!StoreFlag(u, verdict[u])
  BY <1>2 DEF H!Verdicts!StoreFlag, Word!StoreFlag, Works
<1>4. Pick!SetFlag(u, verdict[u])
  BY StoredIsBoolean, StoreIsSetFlag DEF StoreVerdict
<1> QED  BY <1>3, <1>4, StoredIsBoolean

LEMMA ChangeIsFlipOrNothing ==
  ASSUME Configured, BackInv, NEW u \in Upstreams, NEW m \in Modes, Change(u, m)
  PROVE  /\ UNCHANGED Pick!pickVars
         /\ IF Works(u) = (m = "ok") THEN UNCHANGED Word!checkerVars ELSE Word!Flip(u)
<1>1. H!ChangeMode(u, m)
  BY DEF Change, Checks!ChangeMode, H!ChangeMode
<1>2. H!Verdicts!Flip(u) \/ UNCHANGED H!Verdicts!checkerVars
  BY <1>1, H!ChangeIsFlip DEF BackInv, Configured, Checks!AllModes, H!AllModes
<1>3. mode' = [mode EXCEPT ![u] = m] /\ mode \in [Upstreams -> Modes] /\ flags' = flags
  BY <1>1 DEF H!ChangeMode, BackInv, H!IInv, H!Typed, H!TypeOK
<1>4. [x \in Upstreams |-> Works(x)]'[u] = (m = "ok")
  BY <1>3 DEF Works
<1>5. UNCHANGED Pick!pickVars
  BY <1>3 DEF Change, pickVars, Pick!pickVars, Picking
<1>6. CASE Works(u) = (m = "ok")
  <2>1. UNCHANGED [x \in Upstreams |-> Works(x)]
    BY <1>3, <1>6 DEF Works
  <2>2. CASE H!Verdicts!Flip(u)
    <3>1. [x \in Upstreams |-> Works(x)]'[u] = ~[x \in Upstreams |-> Works(x)][u]
      BY <2>2 DEF H!Verdicts!Flip, Works
    <3> QED  BY <3>1, <2>1
  <2>3. CASE UNCHANGED H!Verdicts!checkerVars
    BY <1>5, <1>6, <2>1, <2>3 DEF H!Verdicts!checkerVars, Word!checkerVars
  <2> QED  BY <1>2, <1>5, <1>6, <2>2, <2>3
<1>7. CASE Works(u) # (m = "ok")
  <2>1. [x \in Upstreams |-> Works(x)]' # [x \in Upstreams |-> Works(x)]
    BY <1>4, <1>7
  <2>2. H!Verdicts!Flip(u)
    BY <1>2, <2>1 DEF H!Verdicts!checkerVars, Works
  <2>3. Word!Flip(u)
    BY <2>2 DEF H!Verdicts!Flip, Word!Flip, Works
  <2> QED  BY <1>5, <1>7, <2>3
<1> QED  BY <1>6, <1>7

(***************************************************************************)
(* The upstream handed out had its flag up, and a wrong flag is recent.    *)
(***************************************************************************)
LEMMA HandIsFresh ==
  ASSUME Configured, BackInv, NEW c \in Callers, Hand(c)
  PROVE  result'[c] \in Upstreams /\ Fresh(result'[c])
<1> DEFINE u == Idx(start[c], i[c])
<1>1. u \in Upstreams /\ flags[u] /\ result' = [result EXCEPT ![c] = u]
  BY LoadHealthyIsEndWith DEF Hand, LoadHealthy, BackInv
<1> HIDE DEF u
<1>2. result'[c] = u
  BY <1>1 DEF BackInv, IInv, TypeOK
<1>3. H!FlagsFollow /\ since[u] \in Nat
  BY <1>1, H!WrongFlagsAreRecent DEF BackInv, Configured, Checks!AllModes, H!AllModes, H!IInv,
     H!Typed
<1>4. Fresh(u)
  BY <1>1, <1>3 DEF H!FlagsFollow, Fresh, Works, Lag, Configured
<1> QED  BY <1>1, <1>2, <1>4

(***************************************************************************)
(* Each part keeps its word beside the other.  With flags that checkers    *)
(* store no upstream that is steadily up is missed; with scans between the *)
(* stores a flag is wrong for one sleep and one probe timeout at most.     *)
(***************************************************************************)
THEOREM PartsKeepTheirWord ==
  ASSUME Configured
  PROVE  BackSpec => [](NoSteadyUpstreamMissed /\ Checks!FlagsFollow)
<1>1. BackInit => BackInv
  BY InitBackInv
<1>2. BackInv /\ [BackNext]_backVars => BackInv'
  BY StepBackInv
<1>3. ASSUME BackInv PROVE NoSteadyUpstreamMissed /\ Checks!FlagsFollow
  <2>1. NoSteadyUpstreamMissed
    BY <1>3, NoneIsMissed DEF BackInv
  <2>2. H!FlagsFollow
    BY <1>3, H!WrongFlagsAreRecent DEF BackInv, Configured, Checks!AllModes, H!AllModes
  <2> QED  BY <2>1, <2>2 DEF H!FlagsFollow, Checks!FlagsFollow
<1> QED  BY <1>1, <1>2, <1>3, PTL DEF BackSpec

(***************************************************************************)
(* Whatever is stored while a scan runs, and also when its sums wrap,      *)
(* next_healthy returns no upstream that has been failing for longer than  *)
(* one sleep of its checker and one probe timeout.                         *)
(***************************************************************************)
THEOREM FreshHands ==
  ASSUME Configured
  PROVE  BackSpec => HandedAreFresh
<1>1. BackInit => BackInv
  BY InitBackInv
<1>2. BackInv /\ [BackNext]_backVars => BackInv'
  BY StepBackInv
<1>3. ASSUME BackInv, BackNext, NEW c \in Callers,
             pc[c] = "scan", pc'[c] = "done", result'[c] # None
      PROVE  Fresh(result'[c])
  <2>1. ASSUME NEW d \in Callers, Ask(d) \/ Look(d) \/ Crash(d) PROVE FALSE
    BY <1>3, <2>1 DEF Ask, Look, Crash, Call, LoadUnhealthy, Panic, Picking, BackInv, IInv, TypeOK
  <2>2. ASSUME NEW d \in Callers, Hand(d) PROVE Hand(c)
    BY <1>3, <2>2 DEF Hand, LoadHealthy, BackInv, IInv, TypeOK
  <2>3. ASSUME NEW d \in Callers, HandNone(d) PROVE FALSE
    BY <1>3, <2>3 DEF HandNone, GiveUp, BackInv, IInv, ScanInv, NothingYet
  <2>4. ASSUME NEW u \in Upstreams, StoreVerdict(u) \/ \E m \in Modes : Change(u, m)
        PROVE  FALSE
    BY <1>3, <2>4 DEF StoreVerdict, Store, Change, pickVars
  <2>5. ~Behind
    BY <1>3 DEF Behind, pickVars
  <2> QED  BY <1>3, <2>1, <2>2, <2>3, <2>4, <2>5, HandIsFresh DEF BackNext
<1>4. BackInv /\ [BackNext]_backVars
        => [\A c \in Callers :
              pc[c] = "scan" /\ pc'[c] = "done" /\ result'[c] # None
                => Fresh(result'[c])]_backVars
  BY <1>3
<1> QED  BY <1>1, <1>2, <1>4, PTL DEF BackSpec, HandedAreFresh

LEMMA HandNoneIsEarned ==
  ASSUME Configured, BackInv, ScansCover, NEW c \in Callers, HandNone(c)
  PROVE  settled[c] = {}
<1>1. steady[c] = {} /\ pc[c] = "scan"
  BY GiveUpIsEndWithNone DEF HandNone, GiveUp, BackInv, Pick!EndWithNone
<1> QED  BY <1>1 DEF BackInv, SettledIsSteady

(***************************************************************************)
(* Where scans cover all upstreams, next_healthy does not return None when *)
(* some upstream had been working for longer than one sleep and one probe  *)
(* timeout at every instant of the scan.                                   *)
(***************************************************************************)
THEOREM NoneNeedsTrouble ==
  ASSUME Configured
  PROVE  BackSpec /\ []ScansCover => NoneIsEarned
<1>1. BackInit => BackInv
  BY InitBackInv
<1>2. BackInv /\ [BackNext]_backVars => BackInv'
  BY StepBackInv
<1>3. ASSUME BackInv, ScansCover, BackNext, NEW c \in Callers,
             pc[c] = "scan", pc'[c] = "done", result'[c] = None
      PROVE  settled[c] = {}
  <2>1. ASSUME NEW d \in Callers, Ask(d) \/ Look(d) \/ Crash(d) PROVE FALSE
    BY <1>3, <2>1 DEF Ask, Look, Crash, Call, LoadUnhealthy, Panic, Picking, BackInv, IInv, TypeOK
  <2>2. ASSUME NEW d \in Callers, Hand(d) PROVE FALSE
    <3>1. d = c
      BY <1>3, <2>2 DEF Hand, LoadHealthy, BackInv, IInv, TypeOK
    <3> QED  BY <1>3, <2>2, <3>1, HandIsFresh, NoneAssumption
  <2>3. ASSUME NEW d \in Callers, HandNone(d) PROVE HandNone(c)
    BY <1>3, <2>3 DEF HandNone, GiveUp, BackInv, IInv, TypeOK
  <2>4. ASSUME NEW u \in Upstreams, StoreVerdict(u) \/ \E m \in Modes : Change(u, m)
        PROVE  FALSE
    BY <1>3, <2>4 DEF StoreVerdict, Store, Change, pickVars
  <2>5. ~Behind
    BY <1>3 DEF Behind, pickVars
  <2> QED  BY <1>3, <2>1, <2>2, <2>3, <2>4, <2>5, HandNoneIsEarned DEF BackNext
<1>4. BackInv /\ ScansCover /\ [BackNext]_backVars
        => [\A c \in Callers :
              pc[c] = "scan" /\ pc'[c] = "done" /\ result'[c] = None
                => settled[c] = {}]_backVars
  BY <1>3
<1> QED  BY <1>1, <1>2, <1>4, PTL DEF BackSpec, NoneIsEarned
=============================================================================
