---------------------------- MODULE ProcessProofs ----------------------------
(***************************************************************************)
(* Proofs about Process and the accept loop it enters, Server: for every   *)
(* finite set of connections, every configuration with any number of       *)
(* upstreams, and all four programs.  First Server's, by themselves; then  *)
(* that every process implements Server; then the start-up's.              *)
(***************************************************************************)
EXTENDS Process, FiniteSetTheorems, TLAPS

-----------------------------------------------------------------------------
(* Server.                                                                 *)

(***************************************************************************)
(* The state of the process is well typed; that `active` stays a natural   *)
(* number needs the accounting below.                                      *)
(***************************************************************************)
Typed ==
  /\ conn \in [Conns -> ConnStates]
  /\ loop \in {"enter", "select", "body", "spawn", "stopped", "failed", "exited"}
  /\ active \in Int
  /\ handler \in BOOLEAN /\ notified \in BOOLEAN
  /\ presses \in {0, 1}

IInv == Typed /\ active = Cardinality(Counted)

LEMMA CountedFinite == IsFiniteSet(Counted) /\ Cardinality(Counted) \in Nat
<1>1. IsFiniteSet(Counted)
  BY ConnsAssumption, FS_Subset DEF Counted
<1> QED  BY <1>1, FS_CardinalityType

(* A step that leaves the set of counted connections alone keeps the count. *)
LEMMA SameCount ==
  ASSUME active = Cardinality(Counted), active' = active, Counted' = Counted
  PROVE  (active = Cardinality(Counted))'
  OBVIOUS

LEMMA InitIInv == Init => IInv
<1> SUFFICES ASSUME Init PROVE IInv
  OBVIOUS
<1>1. Counted = {}
  BY DEF Init, Counted
<1>2. Cardinality(Counted) = 0
  BY <1>1, FS_EmptySet
<1>3. Typed
  <2>1. handler \in BOOLEAN /\ notified \in BOOLEAN
    BY Zenon DEF Init
  <2>2. conn \in [Conns -> ConnStates]
    BY DEF Init, ConnStates
  <2> QED  BY <2>1, <2>2 DEF Init, Typed
<1> QED  BY <1>2, <1>3 DEF Init, IInv

LEMMA StepIInv == IInv /\ [Next]_vars => IInv'
<1> SUFFICES ASSUME IInv, [Next]_vars PROVE IInv'
  OBVIOUS
<1> USE DEF IInv, Typed, ConnStates
<1>0. CASE CtrlC
  <2>1. notified' \in BOOLEAN
    BY <1>0 DEF CtrlC
  <2>2. Counted' = Counted
    BY <1>0 DEF CtrlC, Counted
  <2> QED  BY <1>0, <2>1, <2>2 DEF CtrlC
<1>1. CASE AcceptError \/ Arm \/ Shutdown
  <2>1. Counted' = Counted
    BY <1>1 DEF AcceptError, Arm, Shutdown, Counted
  <2> QED  BY <1>1, <2>1 DEF AcceptError, Arm, Shutdown
<1>2. CASE CtrlCKills
  <2>1. Counted' = Counted
    BY <1>2 DEF CtrlCKills, Counted
  <2> QED  BY <1>2, <2>1 DEF CtrlCKills
<1>3. CASE Exit
  <2>1. Counted' = Counted
    BY <1>3 DEF Exit, Counted
  <2> QED  BY <1>3, <2>1 DEF Exit
<1>4. ASSUME NEW c \in Conns, ClientConnects(c) \/ Accept(c) \/ Spawn(c) \/ Finish(c)
      PROVE  IInv'
  <2>1. Counted' = Counted
    BY <1>4 DEF ClientConnects, Accept, Spawn, Finish, Counted
  <2> QED  BY <1>4, <2>1 DEF ClientConnects, Accept, Spawn, Finish
<1>5. ASSUME NEW c \in Conns, Count(c) PROVE IInv'
  <2>1. Counted' = Counted \cup {c} /\ c \notin Counted
    BY <1>5 DEF Count, Counted
  <2>2. Cardinality(Counted') = Cardinality(Counted) + 1
    BY <2>1, CountedFinite, FS_AddElement
  <2> QED  BY <1>5, <2>2 DEF Count
<1>6. ASSUME NEW c \in Conns, Uncount(c) PROVE IInv'
  <2>1. Counted' = Counted \ {c} /\ c \in Counted
    BY <1>6 DEF Uncount, Counted
  <2>2. Cardinality(Counted') = Cardinality(Counted) - 1
    BY <2>1, CountedFinite, FS_RemoveElement
  <2> QED  BY <1>6, <2>2 DEF Uncount
<1>7. CASE UNCHANGED vars
  BY <1>7 DEF vars, Counted
<1> QED
  BY <1>0, <1>1, <1>2, <1>3, <1>4, <1>5, <1>6, <1>7 DEF Next, Main

LEMMA Invariance == Spec => []IInv
  BY InitIInv, StepIInv, PTL DEF Spec

(***************************************************************************)
(* The state of the process is well typed; in particular the shared usize  *)
(* `active` never goes below zero.                                         *)
(***************************************************************************)
THEOREM TypeCorrect == Spec => []TypeOK
<1>1. IInv => TypeOK
  BY CountedFinite DEF IInv, Typed, TypeOK
<1> QED  BY <1>1, Invariance, PTL

LEMMA CountIsAccurate == IInv => ActiveIsAccurate
<1> SUFFICES ASSUME IInv PROVE ActiveIsAccurate
  OBVIOUS
<1>1. ASSUME NEW c \in Conns, conn[c] = "finishing" PROVE active >= 1
  <2>1. c \in Counted
    BY <1>1 DEF Counted
  <2>2. Cardinality(Counted) # 0
    BY <2>1, CountedFinite, FS_EmptySet
  <2> QED  BY <2>2, CountedFinite DEF IInv
<1> QED  BY <1>1 DEF IInv, ActiveIsAccurate

(***************************************************************************)
(* `active` is the number of connections counted and not uncounted, in     *)
(* every interleaving of the accept loop with its tasks, and a task that   *)
(* subtracts itself finds at least itself in it.                           *)
(***************************************************************************)
THEOREM Accounting == Spec => []ActiveIsAccurate
  BY CountIsAccurate, Invariance, PTL

-----------------------------------------------------------------------------
(* The connections of a process: Server's.                                 *)

LEMMA StepServes == ProcNext => [Next]_vars
<1> SUFFICES ASSUME ProcNext PROVE [Next]_vars
  OBVIOUS
<1>1. CASE StartUp
  BY <1>1 DEF StartUp, Load, LoadFails, BuildAcceptor, BuildAcceptorFails, NewFlags,
     SpawnCheckers, NewBalancer, Bind, BindFails, EnterLoop, Step, EndMain
<1>2. CASE KilledEarly
  BY <1>2 DEF KilledEarly, Next
<1>3. CASE \E c \in Conns : EarlyClient(c)
  BY <1>3 DEF EarlyClient, Next
<1>4. CASE ServeA \/ ServeB \/ ServeC \/ ServeD
  BY <1>4 DEF ServeA, ServeB, ServeC, ServeD, Serve
<1> QED  BY <1>1, <1>2, <1>3, <1>4 DEF ProcNext

(***************************************************************************)
(* Every process, whichever its crate and its configuration, and whether   *)
(* its start-up succeeds, fails or is killed, treats its connections as    *)
(* the accept loop of Server does: Process implements Server.              *)
(***************************************************************************)
THEOREM ProcessServes == ProcSpec => ServesAsServer
<1>1. ProcInit => Init
  BY DEF ProcInit
<1>2. [ProcNext]_procVars => [Next]_vars
  BY StepServes DEF procVars
<1> QED  BY <1>1, <1>2, PTL DEF ProcSpec, ServesAsServer

(***************************************************************************)
(* So the count of active connections is right in a whole process too.     *)
(***************************************************************************)
THEOREM ProcessCounts == ProcSpec => []ActiveIsAccurate
  BY CountIsAccurate, InitIInv, StepIInv, ProcessServes, PTL DEF ServesAsServer

-----------------------------------------------------------------------------
(* The start-up.                                                           *)

(* What main may still have to do, shortest first. *)
ToEnter == <<"loop">>
ToBind == <<"bind", "loop">>
ToBalance == <<"balancer", "bind", "loop">>
ToCheck == <<"checkers", "balancer", "bind", "loop">>
ToFlag == <<"flags", "checkers", "balancer", "bind", "loop">>
ToAccept == <<"acceptor", "flags", "checkers", "balancer", "bind", "loop">>
StartUpOf == CASE crate = "A" -> StartUpA [] crate = "B" -> StartUpB
               [] crate = "C" -> StartUpC [] crate = "D" -> StartUpD

LEMMA Lists ==
  /\ Head(ToEnter) = "loop" /\ Tail(ToEnter) = <<>>
  /\ Head(ToBind) = "bind" /\ Tail(ToBind) = ToEnter
  /\ Head(ToBalance) = "balancer" /\ Tail(ToBalance) = ToBind
  /\ Head(ToCheck) = "checkers" /\ Tail(ToCheck) = ToBalance
  /\ Head(ToFlag) = "flags" /\ Tail(ToFlag) = ToCheck
  /\ Head(ToAccept) = "acceptor" /\ Tail(ToAccept) = ToFlag
  /\ Head(StartUpA) = "load" /\ Tail(StartUpA) = ToBind
  /\ Head(StartUpB) = "load" /\ Tail(StartUpB) = ToBalance
  /\ Head(StartUpC) = "load" /\ Tail(StartUpC) = ToAccept
  /\ StartUpD = StartUpC
  /\ \A l \in {ToEnter, ToBind, ToBalance, ToCheck, ToFlag, ToAccept,
                StartUpA, StartUpB, StartUpC} : l # <<>>
<1> USE DEF ToEnter, ToBind, ToBalance, ToCheck, ToFlag, ToAccept,
      StartUpA, StartUpB, StartUpC, StartUpD
<1>1. /\ Head(ToEnter) = "loop" /\ Tail(ToEnter) = <<>>
      /\ Head(ToBind) = "bind" /\ Tail(ToBind) = ToEnter
      /\ Head(ToBalance) = "balancer" /\ Tail(ToBalance) = ToBind
  OBVIOUS
<1>2. /\ Head(ToCheck) = "checkers" /\ Tail(ToCheck) = ToBalance
      /\ Head(ToFlag) = "flags" /\ Tail(ToFlag) = ToCheck
  OBVIOUS
<1>3. Head(ToAccept) = "acceptor" /\ Tail(ToAccept) = ToFlag
  OBVIOUS
<1>4. /\ Head(StartUpA) = "load" /\ Tail(StartUpA) = ToBind
      /\ Head(StartUpB) = "load" /\ Tail(StartUpB) = ToBalance
  OBVIOUS
<1>5. Head(StartUpC) = "load" /\ Tail(StartUpC) = ToAccept /\ StartUpD = StartUpC
  OBVIOUS
<1>6. /\ ToEnter # <<>> /\ ToBind # <<>> /\ ToBalance # <<>> /\ ToCheck # <<>>
      /\ ToFlag # <<>> /\ ToAccept # <<>>
      /\ StartUpA # <<>> /\ StartUpB # <<>> /\ StartUpC # <<>>
  OBVIOUS
<1> HIDE DEF ToEnter, ToBind, ToBalance, ToCheck, ToFlag, ToAccept,
      StartUpA, StartUpB, StartUpC, StartUpD
<1> QED  BY <1>1, <1>2, <1>3, <1>4, <1>5, <1>6

Remaining ==
  {StartUpOf, ToBind, ToEnter, <<>>} \cup
  (IF crate = "A" THEN {} ELSE {ToBalance}) \cup
  (IF crate \in {"C", "D"} THEN {ToAccept, ToFlag, ToCheck} ELSE {})

(* What main has done, read off from that. *)
HasBound == todo \in {ToEnter, <<>>}
HasBalancer == HasBound \/ todo = ToBind
HasCheckers == HasBalancer \/ todo = ToBalance
HasFlags == HasCheckers \/ todo = ToCheck
HasAcceptor == HasFlags \/ todo = ToFlag

WellFormed ==
  /\ \/ crate = "A" /\ file \in FileA
     \/ crate = "B" /\ file \in FileB
     \/ crate \in {"C", "D"} /\ file \in FileC
  /\ todo \in Remaining
  /\ outcome \in {"starting", "up", "quit"}
  /\ outcome = "starting" => todo # <<>>
  /\ outcome = "up" => todo = <<>>

(* What main did stays done, as long as main runs. *)
Prepared ==
  /\ Loaded => Valid
  /\ crate # "A" /\ HasBalancer => pool = file.ups
  /\ crate \in {"C", "D"} =>
       /\ HasFlags => nflags = Len(file.ups)
       /\ HasCheckers /\ outcome # "quit" => checkers = DOMAIN file.ups
       /\ HasAcceptor => acceptor # "none"

(* A self-signed certificate means that no certificate was named. *)
SelfSignedIsAsked == acceptor = "self-signed" => Loaded /\ file.tls.cert = "empty"

(* Nobody connects before the bind, and main does not give up after it. *)
NoClientsYet ==
  /\ outcome = "starting" /\ listening => HasBound
  /\ outcome = "quit" \/ (outcome = "starting" /\ ~listening) =>
       \A c \in Conns : conn[c] = "none"

PInv == WellFormed /\ Prepared /\ SelfSignedIsAsked /\ NoClientsYet

LEMMA Begun ==
  crate \in {"A", "B", "C", "D"} =>
    /\ Head(StartUpOf) = "load" /\ StartUpOf # <<>>
    /\ StartUpOf \notin {ToEnter, ToBind, ToBalance, ToCheck, ToFlag, ToAccept}
    /\ Tail(StartUpOf) \in Remaining \ {StartUpOf, <<>>, ToEnter}
  BY Lists DEF StartUpOf, Remaining

LEMMA InitPInv == ProcInit => PInv
<1> SUFFICES ASSUME ProcInit PROVE PInv
  OBVIOUS
<1>1. crate \in {"A", "B", "C", "D"} /\ todo = StartUpOf /\ outcome = "starting"
  BY DEF ProcInit, StartUpOf
<1>2. WellFormed
  BY <1>1, Begun DEF ProcInit, WellFormed, Remaining, FileD
<1>3. ~Loaded /\ ~HasAcceptor /\ ~HasBalancer
  BY <1>1, Begun DEF Loaded, HasAcceptor, HasFlags, HasCheckers, HasBalancer, HasBound
<1>4. Prepared
  BY <1>3 DEF Prepared, HasAcceptor, HasFlags, HasCheckers
<1>5. SelfSignedIsAsked /\ NoClientsYet
  BY <1>1 DEF ProcInit, Init, SelfSignedIsAsked, NoClientsYet
<1> QED  BY <1>2, <1>4, <1>5 DEF PInv

(* One step of main takes the next step off the list. *)
LEMMA Taken ==
  ASSUME WellFormed, NEW name, Step(name)
  PROVE  /\ todo' \in Remaining
         /\ Loaded'
         /\ name # "load" => Loaded
         /\ name = "loop" <=> todo' = <<>>
         /\ HasBound' => name \in {"bind", "loop"}
         /\ HasBalancer' => HasBalancer \/ name = "balancer" \/ crate = "A"
         /\ crate \in {"C", "D"} =>
              /\ HasCheckers' => HasCheckers \/ name = "checkers"
              /\ HasFlags' => HasFlags \/ name = "flags"
              /\ HasAcceptor' => HasAcceptor \/ name = "acceptor"
<1>1. todo # <<>> /\ todo' = Tail(todo) /\ Head(todo) = name /\ crate' = crate
  BY DEF WellFormed, Step
<1> USE <1>1, Lists DEF Remaining, Loaded, StartUpOf,
      HasBound, HasBalancer, HasCheckers, HasFlags, HasAcceptor
<1>2. todo \in Remaining
  BY DEF WellFormed
<1>3. CASE crate = "A"
  BY <1>2, <1>3
<1>4. CASE crate = "B"
  BY <1>2, <1>4
<1>5. CASE crate \in {"C", "D"}
  <2>1. CASE todo = StartUpOf
    BY <1>5, <2>1
  <2>2. CASE todo \in {ToAccept, ToFlag, ToCheck}
    BY <1>5, <2>2
  <2>3. CASE todo \in {ToBalance, ToBind, ToEnter}
    BY <1>5, <2>3
  <2> QED  BY <1>2, <1>5, <2>1, <2>2, <2>3
<1> QED  BY <1>3, <1>4, <1>5 DEF WellFormed

(* main's own steps. *)
LEMMA StartUpKeepsPInv ==
  ASSUME PInv, StartUp
  PROVE  PInv'
<1> USE DEF PInv
<1>1. ASSUME NEW name, EndMain(name), name \in {"load", "acceptor", "bind"} PROVE PInv'
  <2> USE <1>1 DEF EndMain
  <2>1. UNCHANGED <<vars, crate, file, todo, acceptor, nflags, pool>> /\ outcome' = "quit"
    OBVIOUS
  <2>2. WellFormed'
    BY <2>1 DEF WellFormed, Remaining, StartUpOf
  <2>3. Prepared'
    BY <2>1 DEF Prepared, Loaded, Valid, HasAcceptor, HasFlags, HasCheckers, HasBalancer, HasBound
  <2>4. SelfSignedIsAsked'
    BY <2>1 DEF SelfSignedIsAsked, Loaded
  <2>5. ~HasBound
    BY Lists DEF HasBound, WellFormed
  <2>6. NoClientsYet'
    BY <2>1, <2>5 DEF NoClientsYet, vars
  <2> QED  BY <2>2, <2>3, <2>4, <2>6
<1>2. ASSUME NEW name, Step(name), outcome' = IF name = "loop" THEN "up" ELSE "starting",
             name = "load" => Valid,
             pool' = IF name = "balancer" THEN file.ups ELSE pool,
             nflags' = IF name = "flags" THEN Len(file.ups) ELSE nflags,
             checkers' = IF name = "checkers" THEN DOMAIN file.ups ELSE checkers,
             listening' = IF name = "bind" THEN TRUE ELSE listening,
             IF name = "acceptor"
               THEN acceptor' # "none" /\ (acceptor' = "self-signed" => file.tls.cert = "empty")
               ELSE acceptor' = acceptor
      PROVE  PInv'
  <2>1. UNCHANGED <<vars, crate, file>> /\ outcome = "starting"
    BY <1>2 DEF Step
  <2>2. WellFormed'
    <3>1. Remaining' = Remaining
      BY <2>1 DEF Remaining, StartUpOf
    <3> QED  BY <1>2, <2>1, <3>1, Taken DEF WellFormed
  <2>3. Valid /\ Valid' = Valid
    BY <1>2, <2>1, Taken DEF Prepared, Valid
  <2>4. Prepared'
    BY <1>2, <2>1, <2>3, Taken DEF Prepared
  <2>5. SelfSignedIsAsked'
    BY <1>2, <2>1, Taken DEF SelfSignedIsAsked
  <2>6. NoClientsYet'
    <3>1. HasBound => HasBound'
      BY <1>2, Lists DEF HasBound, Step, WellFormed
    <3>2. name = "bind" => HasBound'
      BY <1>2, Lists, Begun DEF HasBound, Step, WellFormed, Remaining
    <3> QED  BY <1>2, <2>1, <3>1, <3>2 DEF NoClientsYet, vars
  <2> QED  BY <2>2, <2>4, <2>5, <2>6
<1>3. CASE LoadFails \/ BuildAcceptorFails \/ BindFails
  BY <1>1, <1>3 DEF LoadFails, BuildAcceptorFails, BindFails
<1>4. CASE Load
  BY <1>2, <1>4 DEF Load, Step
<1>5. CASE BuildAcceptor
  BY <1>2, <1>5 DEF BuildAcceptor, Build, BuildC, BuildD, Step
<1>6. CASE NewFlags \/ SpawnCheckers \/ NewBalancer
  BY <1>2, <1>6 DEF NewFlags, SpawnCheckers, NewBalancer, Step
<1>7. CASE Bind \/ EnterLoop
  BY <1>2, <1>7 DEF Bind, EnterLoop, Step
<1> QED  BY <1>3, <1>4, <1>5, <1>6, <1>7 DEF StartUp

LEMMA StepPInv == PInv /\ [ProcNext]_procVars => PInv'
<1> SUFFICES ASSUME PInv, [ProcNext]_procVars PROVE PInv'
  OBVIOUS
<1> USE DEF PInv
<1>1. ASSUME UNCHANGED startVars, NoClientsYet' PROVE PInv'
  BY <1>1 DEF startVars, WellFormed, Remaining, StartUpOf, Prepared, Loaded, Valid,
     HasAcceptor, HasFlags, HasCheckers, HasBalancer, HasBound, SelfSignedIsAsked
<1>2. CASE StartUp
  BY <1>2, StartUpKeepsPInv
<1>3. CASE KilledEarly
  <2>1. NoClientsYet'
    BY <1>3 DEF KilledEarly, CtrlCKills, startVars, NoClientsYet, HasBound
  <2> QED  BY <1>1, <1>3, <2>1 DEF KilledEarly
<1>4. CASE \E c \in Conns : EarlyClient(c)
  <2>1. NoClientsYet'
    BY <1>4 DEF EarlyClient, startVars, NoClientsYet, HasBound
  <2> QED  BY <1>1, <1>4, <2>1 DEF EarlyClient
<1>5. CASE ServeA \/ ServeB \/ ServeC \/ ServeD
  <2>1. NoClientsYet'
    BY <1>5 DEF ServeA, ServeB, ServeC, ServeD, Serve, startVars, NoClientsYet
  <2> QED  BY <1>1, <1>5, <2>1 DEF ServeA, ServeB, ServeC, ServeD, Serve
<1>6. CASE UNCHANGED procVars
  <2>1. NoClientsYet'
    BY <1>6 DEF procVars, vars, startVars, NoClientsYet, HasBound
  <2> QED  BY <1>1, <1>6, <2>1 DEF procVars
<1> QED  BY <1>2, <1>3, <1>4, <1>5, <1>6 DEF ProcNext

LEMMA ProcInvariance == ProcSpec => []PInv
  BY InitPInv, StepPInv, PTL DEF ProcSpec

LEMMA LoadedIsBegun ==
  ASSUME WellFormed
  PROVE  outcome = "up" => Loaded /\ HasBound
  BY DEF WellFormed, Loaded, HasBound

(***************************************************************************)
(* An owner who names a private key never serves a self-signed certificate:*)
(* validate's rule about the two paths covers build_acceptor's look at one.*)
(***************************************************************************)
THEOREM KeyOwner == ProcSpec => []KeyOwnerNeverSelfSigned
<1>1. PInv => KeyOwnerNeverSelfSigned
  <2> SUFFICES ASSUME PInv, acceptor = "self-signed" PROVE file.tls.key = "empty"
    BY DEF KeyOwnerNeverSelfSigned
  <2>1. Valid /\ file.tls.cert = "empty"
    BY DEF PInv, SelfSignedIsAsked, Prepared
  <2>2. CASE crate \in {"A", "B"}
    BY <2>2 DEF PInv, WellFormed, FileA, FileB, NoTls
  <2>3. CASE crate \in {"C", "D"}
    <3>1. ValidC(file)
      BY <2>1, <2>3 DEF Valid, ValidD
    <3>2. file.tls.key \in {"empty", "given"}
      BY <2>3 DEF PInv, WellFormed, FileC, Path
    <3> QED  BY <2>1, <3>1, <3>2 DEF ValidC
  <2> QED  BY <2>2, <2>3 DEF PInv, WellFormed
<1> QED  BY <1>1, ProcInvariance, PTL

(***************************************************************************)
(* main never gives up on a client that the kernel has queued for it.      *)
(***************************************************************************)
THEOREM NobodyWaits == ProcSpec => []FailedStartHadNoClients
<1>1. PInv => FailedStartHadNoClients
  BY DEF PInv, NoClientsYet, FailedStartHadNoClients
<1> QED  BY <1>1, ProcInvariance, PTL

(***************************************************************************)
(* What the rest of the program takes for granted about the configuration  *)
(* holds, in all four crates and for any number of upstreams.              *)
(***************************************************************************)
THEOREM Usable == ProcSpec => []ValidatedMeansUsable
<1>1. PInv => ValidatedMeansUsable
  <2> SUFFICES ASSUME PInv PROVE ValidatedMeansUsable
    OBVIOUS
  <2> USE DEF PInv
  <2>1. crate \in {"A", "B", "C", "D"} /\ file.connect \in 0..1
    BY DEF WellFormed, FileA, FileB, FileC
  <2>2. \E n \in Nat : file.ups \in [1..n -> Addr]
    <3>1. CASE crate = "A"
      BY <3>1 DEF WellFormed, FileA
    <3>2. CASE crate # "A"
      <4>1. file.ups \in UpstreamLists
        BY <3>2 DEF WellFormed, FileB, FileC
      <4> QED  BY <4>1, MaxUpstreamsAssumption DEF UpstreamLists
    <3> QED  BY <3>1, <3>2
  <2>3. DOMAIN file.ups = 1..Len(file.ups)
    BY <2>2
  <2>4. Valid => /\ Unwraps(file.ups) /\ Unwraps(<<file.listen>>)
                 /\ file.ups # <<>> /\ file.connect > 0
                 /\ crate \in {"C", "D"} => file.health.interval > 0 /\ file.health.probe > 0
    <3>1. \A a \in Addr : Unwraps(<<a>>) <=> a = "ok"
      BY DEF Unwraps
    <3>2. file.listen \in Addr
      BY DEF WellFormed, FileA, FileB, FileC
    <3>3. CASE crate = "A"
      <4>1. file.ups \in [1..1 -> Addr]
        BY <3>3 DEF WellFormed, FileA
      <4>2. file.ups # <<>>
        BY <4>1
      <4>3. Valid => file.listen = "ok" /\ file.ups[1] = "ok" /\ file.connect > 0
        BY <3>3 DEF Valid, ValidA
      <4> QED  BY <3>1, <3>2, <3>3, <4>1, <4>2, <4>3 DEF Unwraps
    <3>4. CASE crate = "B"
      BY <3>1, <3>2, <3>4 DEF Valid, ValidB, Unwraps
    <3>5. CASE crate \in {"C", "D"}
      BY <3>1, <3>2, <3>5 DEF Valid, ValidC, ValidD, Unwraps
    <3> QED  BY <2>1, <3>3, <3>4, <3>5
  <2>5. outcome = "up" =>
          /\ crate # "A" => pool = file.ups
          /\ crate \in {"C", "D"} =>
               nflags = Len(file.ups) /\ checkers = DOMAIN file.ups /\ acceptor # "none"
    BY LoadedIsBegun DEF Prepared, HasAcceptor, HasFlags, HasCheckers, HasBalancer
  <2> QED  BY <2>3, <2>4, <2>5, LoadedIsBegun DEF Prepared, ValidatedMeansUsable
<1> QED  BY <1>1, ProcInvariance, PTL
=============================================================================
