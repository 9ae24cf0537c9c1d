---------------------------- MODULE HealthProofs ----------------------------
(***************************************************************************)
(* Proofs about Health, for any number of upstreams, any of the ways they  *)
(* behave, any interval and any probe timeout.                             *)
(***************************************************************************)
EXTENDS Health, TLAPS

Works(u) == mode[u] = "ok"

(* Since the last store it worked, or failed, at some moment. *)
Worked(u) == TRUE \in seen[u]
Failed(u) == FALSE \in seen[u]

(***************************************************************************)
(* Why a verdict is justified.  What was seen since the last store includes*)
(* how the upstream is now; an answer comes from an upstream that was then *)
(* as the answer says; and a probe waits only for one that does not work.  *)
(***************************************************************************)
Justified(u) ==
  /\ Works(u) => Worked(u)
  /\ ~Works(u) => Failed(u)
  /\ phase[u] = "lost" => Failed(u)
  /\ Probing(u) /\ timer[u] < ProbeTimeout => Failed(u)
  /\ answer[u] # "none" => phase[u] = "read"
  /\ answer[u] = "2xx" => Worked(u)
  /\ answer[u] \notin {"none", "2xx"} => Failed(u)
  /\ phase[u] = "store" /\ verdict[u] => Worked(u)
  /\ phase[u] = "store" /\ ~verdict[u] => Failed(u)

(***************************************************************************)
(* How old the last change of an upstream can be while something of the    *)
(* probe under way still stems from the time before it: not older than     *)
(* this probe, and if the upstream failed, no tick old, since only a probe *)
(* of a failing upstream takes time.                                       *)
(***************************************************************************)
ProbeIsRecent(u) ==
  /\ Works(u) /\ Probing(u) /\ (phase[u] = "lost" \/ timer[u] < ProbeTimeout)
       => since[u] <= ProbeTimeout - timer[u]
  /\ answer[u] # "none" /\ ~(answer[u] = "2xx" <=> Works(u)) => since[u] = 0
  /\ phase[u] = "store" /\ ~verdict[u] /\ Works(u) => since[u] <= ProbeTimeout
  /\ phase[u] = "store" /\ verdict[u] /\ ~Works(u) => since[u] = 0

(* The same of a flag that is not what its upstream deserves. *)
StaleIsRecent(u) ==
  /\ ~flags[u] /\ Works(u) =>
       /\ phase[u] = "sleep" => since[u] <= (Interval - timer[u]) + ProbeTimeout
       /\ phase[u] # "sleep" => since[u] <= Interval + ProbeTimeout
  /\ flags[u] /\ ~Works(u) =>
       /\ phase[u] = "sleep" => since[u] <= Interval - timer[u]
       /\ Probing(u) => since[u] <= Interval + (ProbeTimeout - timer[u])
       /\ phase[u] = "store" => since[u] <= Interval + ProbeTimeout

Good(u) == Justified(u) /\ ProbeIsRecent(u) /\ StaleIsRecent(u)

Typed == TypeOK /\ timer \in [Upstreams -> Nat] /\ since \in [Upstreams -> Nat]

IInv == Typed /\ \A u \in Upstreams : Good(u)

LEMMA InitIInv == Init => IInv
<1> SUFFICES ASSUME Init PROVE IInv
  OBVIOUS
<1> USE IntervalAssumption, ProbeTimeoutAssumption, MaxSinceAssumption DEF Init, NewFlags
<1>1. Typed
  BY DEF Typed, TypeOK
<1>2. ASSUME NEW u \in Upstreams PROVE Good(u)
  <2>1. Justified(u)
    BY DEF Justified, Worked, Failed, Works, Probing
  <2>2. ProbeIsRecent(u) /\ StaleIsRecent(u)
    BY DEF ProbeIsRecent, StaleIsRecent, Works, Probing
  <2> QED  BY <2>1, <2>2 DEF Good
<1> QED  BY <1>1, <1>2 DEF IInv

-----------------------------------------------------------------------------
(* One upstream's step leaves the others alone.                            *)

StateOf(u) ==
  <<mode[u], phase[u], timer[u], answer[u], verdict[u], flags[u], since[u], seen[u]>>

LEMMA OthersStayGood ==
  ASSUME NEW x, Good(x), UNCHANGED StateOf(x)
  PROVE  Good(x)'
<1>1. /\ mode'[x] = mode[x] /\ phase'[x] = phase[x] /\ timer'[x] = timer[x]
      /\ answer'[x] = answer[x] /\ (verdict'[x] <=> verdict[x]) /\ (flags'[x] <=> flags[x])
      /\ since'[x] = since[x] /\ seen'[x] = seen[x]
  BY DEF StateOf
<1> QED
  BY <1>1 DEF Good, Justified, ProbeIsRecent, StaleIsRecent, Worked, Failed, Works, Probing

LEMMA ProbeStaysTyped ==
  ASSUME Typed, NEW u \in Upstreams, Checker(u)
  PROVE  Typed'
<1> USE IntervalAssumption, ProbeTimeoutAssumption DEF Typed, TypeOK, Probing, Goto
<1>1. CASE Wake(u)
  BY <1>1 DEF Wake
<1>2. CASE Connect(u)
  BY <1>2 DEF Connect, Return
<1>3. CASE Write(u)
  BY <1>3 DEF Write, Return
<1>4. CASE Read(u)
  BY <1>4 DEF Read, Return
<1>5. CASE Timeout(u)
  BY <1>5 DEF Timeout, Return
<1>6. CASE Store(u)
  BY <1>6 DEF Store
<1> QED  BY <1>1, <1>2, <1>3, <1>4, <1>5, <1>6 DEF Checker

LEMMA WakeStaysGood ==
  ASSUME IInv, NEW u \in Upstreams, Wake(u)
  PROVE  Good(u)'
<1> USE IntervalAssumption, ProbeTimeoutAssumption
<1>1. /\ phase[u] = "sleep" /\ phase'[u] = "connect"
      /\ timer[u] = 0 /\ timer'[u] = ProbeTimeout
      /\ mode' = mode /\ answer' = answer /\ verdict' = verdict /\ flags' = flags
      /\ since' = since /\ seen' = seen
      /\ since[u] \in Nat
  BY DEF Wake, Goto, IInv, Typed, TypeOK
<1>2. (Worked(u)' <=> Worked(u)) /\ (Failed(u)' <=> Failed(u))
  BY <1>1 DEF Worked, Failed
<1>3. Justified(u) /\ ProbeIsRecent(u) /\ StaleIsRecent(u)
  BY DEF IInv, Good
<1>4. Justified(u)'
  BY <1>1, <1>2, <1>3 DEF Justified, Works, Probing
<1>5. ProbeIsRecent(u)'
  BY <1>1, <1>3 DEF Justified, ProbeIsRecent, Works, Probing
<1>6. StaleIsRecent(u)'
  BY <1>1, <1>3 DEF StaleIsRecent, Works, Probing
<1> QED  BY <1>4, <1>5, <1>6 DEF Good

(* The probe goes on: connected, written, or its packets are lost. *)
LEMMA AdvanceStaysGood ==
  ASSUME IInv, NEW u \in Upstreams, Probing(u), answer[u] = "none",
         NEW p \in {"write", "read", "lost"}, p = "lost" => ~Works(u), Goto(u, p),
         UNCHANGED <<mode, timer, answer, verdict, flags, since, seen>>
  PROVE  Good(u)'
<1> USE IntervalAssumption, ProbeTimeoutAssumption
<1>1. /\ phase'[u] = p /\ answer'[u] = "none" /\ mode' = mode
      /\ timer' = timer /\ verdict' = verdict /\ flags' = flags
      /\ since' = since /\ seen' = seen
      /\ since[u] \in Nat /\ timer[u] \in Nat
  BY DEF Goto, IInv, Typed, TypeOK
<1>2. (Worked(u)' <=> Worked(u)) /\ (Failed(u)' <=> Failed(u))
  BY <1>1 DEF Worked, Failed
<1>3. Justified(u) /\ ProbeIsRecent(u) /\ StaleIsRecent(u)
  BY DEF IInv, Good
<1>4. Justified(u)'
  BY <1>1, <1>2, <1>3 DEF Justified, Works, Probing
<1>5. ProbeIsRecent(u)'
  BY <1>1, <1>3 DEF ProbeIsRecent, Works, Probing
<1>6. StaleIsRecent(u)'
  BY <1>1, <1>3 DEF StaleIsRecent, Works, Probing
<1> QED  BY <1>4, <1>5, <1>6 DEF Good

(* The probe is over with a verdict that is justified, and wrong only if   *)
(* the upstream has just changed.                                          *)
LEMMA ReturnStaysGood ==
  ASSUME IInv, NEW u \in Upstreams, Probing(u), NEW v \in BOOLEAN, Return(u, v),
         v => Worked(u), ~v => Failed(u),
         ~v /\ Works(u) => since[u] <= ProbeTimeout,
         v /\ ~Works(u) => since[u] = 0
  PROVE  Good(u)'
<1> USE IntervalAssumption, ProbeTimeoutAssumption
<1>1. /\ phase'[u] = "store" /\ answer'[u] = "none" /\ (verdict'[u] <=> v) /\ mode' = mode
      /\ timer' = timer /\ flags' = flags /\ since' = since /\ seen' = seen
      /\ since[u] \in Nat /\ timer[u] \in Nat /\ timer[u] <= ProbeTimeout
  BY DEF Return, Goto, IInv, Typed, TypeOK, Probing
<1>2. (Worked(u)' <=> Worked(u)) /\ (Failed(u)' <=> Failed(u))
  BY <1>1 DEF Worked, Failed
<1>3. Justified(u) /\ ProbeIsRecent(u) /\ StaleIsRecent(u)
  BY DEF IInv, Good
<1>4. Justified(u)'
  BY <1>1, <1>2, <1>3 DEF Justified, Works, Probing
<1>5. ProbeIsRecent(u)'
  BY <1>1, <1>3 DEF ProbeIsRecent, Works, Probing
<1>6. StaleIsRecent(u)'
  BY <1>1, <1>3 DEF StaleIsRecent, Works, Probing
<1> QED  BY <1>4, <1>5, <1>6 DEF Good

LEMMA StoreStaysGood ==
  ASSUME IInv, NEW u \in Upstreams, Store(u)
  PROVE  Good(u)'
<1> USE IntervalAssumption, ProbeTimeoutAssumption
<1>1. /\ phase[u] = "store" /\ phase'[u] = "sleep" /\ timer'[u] = Interval
      /\ mode' = mode /\ answer' = answer /\ (flags'[u] <=> verdict[u])
      /\ seen'[u] = {mode[u] = "ok"} /\ since' = since /\ since[u] \in Nat
  BY DEF Store, Goto, IInv, Typed, TypeOK
<1>2. (Works(u) => Worked(u)') /\ (~Works(u) => Failed(u)')
  BY <1>1 DEF Worked, Failed, Works
<1>3. Justified(u) /\ ProbeIsRecent(u)
  BY DEF IInv, Good
<1>4. Justified(u)'
  BY <1>1, <1>2, <1>3 DEF Justified, Works, Probing
<1>5. ProbeIsRecent(u)'
  BY <1>1, <1>3 DEF Justified, ProbeIsRecent, Works, Probing
<1>6. StaleIsRecent(u)'
  BY <1>1, <1>3 DEF ProbeIsRecent, StaleIsRecent, Works, Probing
<1> QED  BY <1>4, <1>5, <1>6 DEF Good

LEMMA ProbeStaysGood ==
  ASSUME IInv, NEW u \in Upstreams, Checker(u)
  PROVE  Good(u)'
<1> USE ProbeTimeoutAssumption
<1>1. /\ Justified(u) /\ ProbeIsRecent(u)
      /\ timer[u] \in Nat /\ since[u] \in Nat
  BY DEF IInv, Good, Typed
<1>2. CASE Connect(u)
  <2>1. Probing(u) /\ answer[u] = "none"
    BY <1>1, <1>2 DEF Connect, Probing, Justified
  <2>2. CASE mode[u] = "refusing" /\ Return(u, FALSE)
    BY <1>1, <2>1, <2>2, ReturnStaysGood DEF Works, Justified
  <2>3. CASE mode[u] # "refusing"
    BY <1>2, <2>1, <2>3, AdvanceStaysGood DEF Connect, Works
  <2> QED  BY <1>2, <2>2, <2>3 DEF Connect
<1>3. CASE Write(u)
  <2>1. Probing(u) /\ answer[u] = "none"
    BY <1>1, <1>3 DEF Write, Probing, Justified
  <2>2. CASE mode[u] = "refusing" /\ Return(u, FALSE)
    BY <1>1, <2>1, <2>2, ReturnStaysGood DEF Works, Justified
  <2>3. CASE ~(mode[u] = "refusing" /\ Return(u, FALSE))
    BY <1>3, <2>1, <2>3, AdvanceStaysGood DEF Write, Works
  <2> QED  BY <2>2, <2>3
<1>4. CASE Read(u)
  <2>1. Probing(u) /\ answer[u] # "none"
    BY <1>4 DEF Read, Probing
  <2>2. CASE answer[u] = "2xx"
    <3>1. Return(u, TRUE)
      BY <1>4, <2>2 DEF Read
    <3> QED  BY <1>1, <2>1, <2>2, <3>1, ReturnStaysGood DEF Justified, ProbeIsRecent
  <2>3. CASE answer[u] # "2xx"
    <3>1. Return(u, FALSE)
      BY <1>4, <2>3 DEF Read
    <3>2. Failed(u) /\ (Works(u) => since[u] <= ProbeTimeout)
      BY <1>1, <2>1, <2>3 DEF Justified, ProbeIsRecent
    <3> QED  BY <2>1, <3>1, <3>2, ReturnStaysGood
  <2> QED  BY <2>2, <2>3
<1>5. CASE Timeout(u)
  <2>1. Probing(u) /\ timer[u] < ProbeTimeout /\ Return(u, FALSE)
    BY <1>5 DEF Timeout
  <2>2. Failed(u) /\ (Works(u) => since[u] <= ProbeTimeout)
    BY <1>1, <2>1 DEF Justified, ProbeIsRecent
  <2> QED  BY <2>1, <2>2, ReturnStaysGood
<1> QED
  BY <1>2, <1>3, <1>4, <1>5, WakeStaysGood, StoreStaysGood DEF Checker

-----------------------------------------------------------------------------
(* The upstreams and time.                                                 *)

LEMMA WorldStaysTyped ==
  ASSUME Typed, Tick \/ \E u \in Upstreams : Answer(u) \/ LoseRequest(u) \/ \E m \in Modes : ChangeMode(u, m)
  PROVE  Typed'
<1> USE MaxSinceAssumption DEF Typed, TypeOK
<1>1. CASE Tick
  <2>1. \A x \in Upstreams : timer[x] > 0
    BY <1>1 DEF Tick, Waiting
  <2>2. timer' \in [Upstreams -> Nat] /\ \A x \in Upstreams : timer'[x] <= timer[x]
    BY <1>1, <2>1 DEF Tick
  <2>3. since' \in [Upstreams -> 0..MaxSince]
    BY <1>1 DEF Tick
  <2> QED  BY <1>1, <2>2, <2>3, IntervalAssumption, ProbeTimeoutAssumption DEF Tick
<1>2. ASSUME NEW u \in Upstreams, Answer(u) PROVE Typed'
  BY <1>2 DEF Answer, Answers
<1>3. ASSUME NEW u \in Upstreams, LoseRequest(u) PROVE Typed'
  BY <1>3 DEF LoseRequest, Goto
<1>4. ASSUME NEW u \in Upstreams, NEW m \in Modes, ChangeMode(u, m) PROVE Typed'
  <2>1. since' \in [Upstreams -> 0..MaxSince]
    BY <1>4 DEF ChangeMode
  <2>2. seen' \in [Upstreams -> SUBSET BOOLEAN]
    BY <1>4 DEF ChangeMode
  <2>3. mode' \in [Upstreams -> Modes]
    BY <1>4 DEF ChangeMode
  <2> QED  BY <1>4, <2>1, <2>2, <2>3 DEF ChangeMode
<1> QED  BY <1>1, <1>2, <1>3, <1>4

LEMMA AnswerStaysGood ==
  ASSUME IInv, NEW u \in Upstreams, Answer(u)
  PROVE  Good(u)'
<1> USE IntervalAssumption, ProbeTimeoutAssumption
<1>1. /\ phase[u] = "read" /\ phase' = phase /\ mode' = mode
      /\ mode[u] \in {"ok", "split", "error", "refusing"}
      /\ answer'[u] = Answers[mode[u]]
      /\ timer' = timer /\ verdict' = verdict /\ flags' = flags
      /\ since' = since /\ seen' = seen
      /\ since[u] \in Nat /\ timer[u] \in Nat
  BY DEF Answer, Answers, IInv, Typed, TypeOK
<1>2. answer'[u] # "none" /\ (answer'[u] = "2xx" <=> Works(u))
  BY <1>1 DEF Answers, Works
<1>3. (Worked(u)' <=> Worked(u)) /\ (Failed(u)' <=> Failed(u))
  BY <1>1 DEF Worked, Failed
<1>4. Justified(u) /\ ProbeIsRecent(u) /\ StaleIsRecent(u)
  BY DEF IInv, Good
<1>5. Justified(u)'
  BY <1>1, <1>2, <1>3, <1>4 DEF Justified, Works, Probing
<1>6. ProbeIsRecent(u)'
  BY <1>1, <1>2, <1>4 DEF ProbeIsRecent, Works, Probing
<1>7. StaleIsRecent(u)'
  BY <1>1, <1>4 DEF StaleIsRecent, Works, Probing
<1> QED  BY <1>5, <1>6, <1>7 DEF Good

(* From one way to fail to another nothing is different; from working to   *)
(* failing or back, the change is as recent as can be.                     *)
LEMMA ChangeStaysGood ==
  ASSUME IInv, NEW u \in Upstreams, NEW m \in Modes, ChangeMode(u, m)
  PROVE  Good(u)'
<1> USE IntervalAssumption, ProbeTimeoutAssumption
<1>1. /\ mode'[u] = m /\ phase' = phase /\ timer' = timer /\ answer' = answer
      /\ verdict' = verdict /\ flags' = flags
      /\ (m = "ok" <=> mode[u] = "ok") => since'[u] = since[u]
      /\ ~(m = "ok" <=> mode[u] = "ok") => since'[u] = 0
      /\ seen'[u] = seen[u] \cup {m = "ok"}
      /\ since[u] \in Nat /\ timer[u] \in Nat
      /\ phase[u] = "sleep" => timer[u] <= Interval
      /\ phase[u] # "sleep" => timer[u] <= ProbeTimeout
  BY DEF ChangeMode, IInv, Typed, TypeOK
<1>2. /\ Worked(u) => Worked(u)'
      /\ Failed(u) => Failed(u)'
      /\ IF Works(u)' THEN Worked(u)' ELSE Failed(u)'
  BY <1>1 DEF Worked, Failed, Works
<1>3. Justified(u) /\ ProbeIsRecent(u) /\ StaleIsRecent(u)
  BY DEF IInv, Good
<1>4. Justified(u)'
  BY <1>1, <1>2, <1>3 DEF Justified, Probing
<1>5. ProbeIsRecent(u)'
  BY <1>1, <1>3 DEF ProbeIsRecent, Works, Probing
<1>6. StaleIsRecent(u)'
  BY <1>1, <1>3 DEF StaleIsRecent, Works, Probing
<1> QED  BY <1>4, <1>5, <1>6 DEF Good

(* Time passes while a checker sleeps, or waits for what will not come. *)
LEMMA TickStaysGood ==
  ASSUME IInv, NEW u \in Upstreams, Tick
  PROVE  Good(u)'
<1> USE IntervalAssumption, ProbeTimeoutAssumption
<1>1. /\ mode' = mode /\ phase' = phase /\ answer' = answer
      /\ verdict' = verdict /\ flags' = flags /\ seen' = seen
      /\ timer[u] \in Nat /\ timer[u] > 0 /\ timer'[u] = timer[u] - 1
      /\ since[u] \in Nat /\ since'[u] \in Nat /\ since'[u] <= since[u] + 1
      /\ phase[u] = "sleep" => timer[u] <= Interval
      /\ phase[u] # "sleep" => timer[u] <= ProbeTimeout
  BY MaxSinceAssumption DEF Tick, Waiting, IInv, Typed, TypeOK
<1>2. \/ phase[u] = "sleep"
      \/ phase[u] = "lost"
      \/ phase[u] = "read" /\ answer[u] = "none" /\ mode[u] = "hung"
  BY DEF Tick, Waiting
<1>3. (Worked(u)' <=> Worked(u)) /\ (Failed(u)' <=> Failed(u))
  BY <1>1 DEF Worked, Failed
<1>4. Justified(u) /\ ProbeIsRecent(u) /\ StaleIsRecent(u)
  BY DEF IInv, Good
<1>5. Justified(u)'
  BY <1>1, <1>2, <1>3, <1>4 DEF Justified, Works, Probing
<1>6. ProbeIsRecent(u)'
  BY <1>1, <1>2, <1>4 DEF Justified, ProbeIsRecent, Works, Probing
<1>7. StaleIsRecent(u)'
  BY <1>1, <1>2, <1>4 DEF ProbeIsRecent, StaleIsRecent, Works, Probing
<1> QED  BY <1>5, <1>6, <1>7 DEF Good

-----------------------------------------------------------------------------
LEMMA OnlyItsUpstream ==
  ASSUME Typed, NEW u \in Upstreams, NEW x \in Upstreams \ {u},
         \/ Checker(u) \/ Answer(u) \/ LoseRequest(u)
         \/ \E m \in Modes : ChangeMode(u, m)
  PROVE  UNCHANGED StateOf(x)
<1> USE DEF Typed, TypeOK, StateOf, Goto
<1>1. CASE Wake(u) \/ Timeout(u) \/ Read(u) \/ Store(u)
  BY <1>1 DEF Wake, Timeout, Read, Return, Store
<1>2. CASE Connect(u) \/ Write(u)
  BY <1>2 DEF Connect, Write, Return
<1>3. CASE Answer(u) \/ LoseRequest(u)
  BY <1>3 DEF Answer, LoseRequest
<1>4. ASSUME NEW m \in Modes, ChangeMode(u, m) PROVE UNCHANGED StateOf(x)
  BY <1>4 DEF ChangeMode
<1> QED  BY <1>1, <1>2, <1>3, <1>4 DEF Checker

LEMMA StepIInv == IInv /\ [Next]_vars => IInv'
<1> SUFFICES ASSUME IInv, [Next]_vars PROVE IInv'
  OBVIOUS
<1>1. CASE Tick
  BY <1>1, TickStaysGood, WorldStaysTyped DEF IInv
<1>2. ASSUME NEW u \in Upstreams,
             \/ Checker(u) \/ Answer(u) \/ LoseRequest(u)
             \/ \E m \in Modes : ChangeMode(u, m)
      PROVE  IInv'
  <2>1. Typed'
    BY <1>2, ProbeStaysTyped, WorldStaysTyped DEF IInv
  <2>2. ASSUME LoseRequest(u) PROVE Good(u)'
    <3>1. Probing(u) /\ answer[u] = "none" /\ ~Works(u) /\ Goto(u, "lost")
      BY <2>2 DEF LoseRequest, Probing, Works
    <3> QED  BY <2>2, <3>1, AdvanceStaysGood DEF LoseRequest
  <2>3. Good(u)'
    BY <1>2, <2>2, ProbeStaysGood, AnswerStaysGood, ChangeStaysGood
  <2>4. \A x \in Upstreams \ {u} : Good(x)'
    BY <1>2, OnlyItsUpstream, OthersStayGood DEF IInv
  <2> QED  BY <2>1, <2>3, <2>4 DEF IInv
<1>3. CASE UNCHANGED vars
  BY <1>3, OthersStayGood DEF vars, IInv, Typed, TypeOK, StateOf
<1> QED  BY <1>1, <1>2, <1>3 DEF Next

LEMMA Invariance == Spec => []IInv
  BY InitIInv, StepIInv, PTL DEF Spec

(***************************************************************************)
(* A checker's timer never exceeds what it waits for, its sleep or its     *)
(* probe's timeout, and it is always in one of the phases of the loop.     *)
(***************************************************************************)
THEOREM TypeCorrect == Spec => []TypeOK
  BY Invariance, PTL DEF IInv, Typed

LEMMA WrongFlagsAreRecent == IInv => FlagsFollow
<1> SUFFICES ASSUME IInv, NEW u \in Upstreams, since[u] > Interval + ProbeTimeout
             PROVE  flags[u] <=> mode[u] = "ok"
  BY DEF FlagsFollow
<1> USE IntervalAssumption, ProbeTimeoutAssumption
<1>1. /\ timer[u] \in Nat /\ since[u] \in Nat /\ StaleIsRecent(u)
      /\ phase[u] = "sleep" \/ Probing(u) \/ phase[u] = "store"
  BY DEF IInv, Good, Typed, TypeOK, Probing
<1> QED  BY <1>1 DEF StaleIsRecent, Works

(***************************************************************************)
(* A flag that is wrong is wrong for no longer than one sleep and one probe*)
(* timeout after its upstream changed, in both directions, for any         *)
(* interval and timeout and however the upstream failed meanwhile.         *)
(***************************************************************************)
THEOREM FlagsCatchUp == Spec => []FlagsFollow
  BY WrongFlagsAreRecent, Invariance, PTL

-----------------------------------------------------------------------------
(* The checkers implement CheckerSpec.                                     *)

Up == [u \in Upstreams |-> mode[u] = "ok"]

LEMMA StoreIsJustified ==
  ASSUME IInv, NEW u \in Upstreams, Store(u)
  PROVE  Verdicts!StoreFlag(u, verdict[u])
<1>1. verdict[u] \in BOOLEAN /\ phase[u] = "store"
  BY DEF Store, IInv, Typed, TypeOK
<1>2. verdict[u] \in seen[u]
  <2>1. CASE verdict[u] = TRUE
    BY <1>1, <2>1 DEF IInv, Good, Justified, Worked
  <2>2. CASE verdict[u] = FALSE
    BY <1>1, <2>2 DEF IInv, Good, Justified, Failed
  <2> QED  BY <1>1, <2>1, <2>2
<1>3. flags' = [flags EXCEPT ![u] = verdict[u]] /\ mode' = mode
  BY DEF Store
<1>4. seen' = [seen EXCEPT ![u] = {Up[u]}]
  BY DEF Store, Up
<1>5. Up' = Up
  BY <1>3 DEF Up
<1> QED  BY <1>2, <1>3, <1>4, <1>5 DEF Verdicts!StoreFlag, Up

(* A change from one way to fail to another is none to CheckerSpec. *)
LEMMA ChangeIsFlip ==
  ASSUME IInv, NEW u \in Upstreams, NEW m \in Modes, ChangeMode(u, m)
  PROVE  Verdicts!Flip(u) \/ UNCHANGED Verdicts!checkerVars
<1>1. /\ mode' = [mode EXCEPT ![u] = m] /\ flags' = flags
      /\ seen' = [seen EXCEPT ![u] = @ \cup {m = "ok"}]
      /\ mode \in [Upstreams -> Modes] /\ seen \in [Upstreams -> SUBSET BOOLEAN]
  BY DEF ChangeMode, IInv, Typed, TypeOK
<1>2. Up' = [Up EXCEPT ![u] = (m = "ok")]
  BY <1>1 DEF Up
<1>3. CASE (m = "ok") = Up[u]
  <2>1. Up' = Up
    BY <1>2, <1>3 DEF Up
  <2>2. (m = "ok") \in seen[u]
    <3>1. CASE m = "ok"
      BY <1>3, <3>1 DEF Up, IInv, Good, Justified, Works, Worked
    <3>2. CASE m # "ok"
      BY <1>3, <3>2 DEF Up, IInv, Good, Justified, Works, Failed
    <3> QED  BY <3>1, <3>2
  <2>3. seen' = seen
    BY <1>1, <2>2
  <2> QED  BY <1>1, <2>1, <2>3 DEF Verdicts!checkerVars, Up
<1>4. CASE (m = "ok") # Up[u]
  <2>1. (m = "ok") = ~Up[u]
    BY <1>4 DEF Up
  <2>2. Up' = [Up EXCEPT ![u] = ~Up[u]]
    BY <1>2, <2>1
  <2>3. Up'[u] = (m = "ok")
    BY <1>2 DEF Up
  <2>4. seen' = [seen EXCEPT ![u] = @ \cup {Up'[u]}]
    BY <1>1, <2>3
  <2> QED  BY <1>1, <2>2, <2>4 DEF Verdicts!Flip, Up
<1> QED  BY <1>3, <1>4

LEMMA StepIsJustified ==
  ASSUME IInv, [Next]_vars
  PROVE  [Verdicts!Next]_(Verdicts!checkerVars)
<1>1. ASSUME NEW u \in Upstreams, Store(u) PROVE Verdicts!Next
  <2>1. verdict[u] \in BOOLEAN
    BY DEF IInv, Typed, TypeOK
  <2> QED  BY <1>1, <2>1, StoreIsJustified DEF Verdicts!Next
<1>2. ASSUME NEW u \in Upstreams, NEW m \in Modes, ChangeMode(u, m)
      PROVE  [Verdicts!Next]_(Verdicts!checkerVars)
  BY <1>2, ChangeIsFlip DEF Verdicts!Next
<1>3. ASSUME mode' = mode, flags' = flags, seen' = seen
      PROVE  UNCHANGED Verdicts!checkerVars
  BY <1>3 DEF Verdicts!checkerVars
<1>4. ASSUME NEW u \in Upstreams,
             \/ Wake(u) \/ Connect(u) \/ Write(u) \/ Read(u) \/ Timeout(u)
             \/ Answer(u) \/ LoseRequest(u)
      PROVE  mode' = mode /\ flags' = flags /\ seen' = seen
  BY <1>4 DEF Wake, Connect, Write, Read, Timeout, Return, Answer, LoseRequest
<1>5. CASE Tick \/ UNCHANGED vars
  BY <1>3, <1>5 DEF Tick, vars
<1> QED  BY <1>1, <1>2, <1>3, <1>4, <1>5 DEF Next, Checker

(***************************************************************************)
(* Health implements CheckerSpec: every verdict stored was true of its     *)
(* upstream at some moment since the store before, whatever became of the  *)
(* probe.                                                                  *)
(***************************************************************************)
THEOREM CheckerRefinement == Spec => VerdictsAreJustified
<1>1. Init => Verdicts!Init
  BY DEF Init, NewFlags, Verdicts!Init
<1> QED
  BY <1>1, StepIsJustified, Invariance, PTL DEF Spec, VerdictsAreJustified, Verdicts!Safe
=============================================================================
