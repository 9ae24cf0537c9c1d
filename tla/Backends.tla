------------------------------ MODULE Backends ------------------------------
(***************************************************************************)
(* What crates C and D have in common, to the letter: the lock-free scan of*)
(* Balancer and the timed checkers of Health at work on the same flags.  A *)
(* scan is interleaved, load by load, with the stores of the checkers.     *)
(*                                                                         *)
(* Connection and HyperProxy take the two to be PickSpec and CheckerSpec;  *)
(* CrateC and CrateD put this module in the place of both.                 *)
(***************************************************************************)
EXTENDS Balancer

CONSTANTS Interval, ProbeTimeout, Modes, MaxSince

VARIABLES mode, probe, timer, answer, verdict, since, seen,
          settled   \* history: upstreams that were Settled ever since the ticket

Checks == INSTANCE Health WITH phase <- probe

pickVars  == <<counter, pc, start, i, result, steady, dark>>
checkVars == <<mode, probe, timer, answer, verdict, since, seen>>
backVars  == <<flags, pickVars, checkVars, settled>>

Works(u) == mode[u] = "ok"

(* How long a flag can be wrong: one sleep and one probe timeout. *)
Lag == Interval + ProbeTimeout

(* Upstream u has not been failing, or has been working, for longer. *)
Fresh(u) == Works(u) \/ since[u] <= Lag
Settled(u) == Works(u) /\ since[u] > Lag

(* What Config::validate sees to, the width of a counter, and the bounds. *)
Configured ==
  /\ N \in Nat \ {0} /\ CounterMod \in Nat \ {0} /\ OverflowChecks \in BOOLEAN
  /\ None \notin Upstreams
  /\ Modes \subseteq Checks!AllModes
  /\ Interval \in Nat /\ Interval > 0
  /\ ProbeTimeout \in Nat /\ ProbeTimeout > 0
  /\ MaxSince \in Nat

BackInit == Init /\ Checks!Init /\ settled = [c \in Callers |-> {}]

(* What the history says after a step. *)
Remember ==
  settled' = [c \in Callers |->
    {u \in IF pc'[c] = "scan" /\ pc[c] # "scan" THEN Upstreams ELSE settled[c] : Settled(u)'}]

-----------------------------------------------------------------------------
(* A task enters next_healthy ... *)
Ask(c) == Call(c) /\ UNCHANGED checkVars

(* ... looks at one flag in vain ... *)
Look(c) == LoadUnhealthy(c) /\ UNCHANGED checkVars

(* ... and is handed an upstream, or None. *)
Hand(c) == LoadHealthy(c) /\ UNCHANGED checkVars

HandNone(c) == GiveUp(c) /\ UNCHANGED checkVars

(* In a build with overflow checks it may instead panic. *)
Crash(c) == Panic(c) /\ UNCHANGED checkVars

(* A checker stores its verdict, between two loads of a scan perhaps. *)
StoreVerdict(u) == Checks!Store(u) /\ Store(u, verdict[u])

Change(u, m) == Checks!ChangeMode(u, m) /\ UNCHANGED pickVars

Probe(u) ==
  \/ Checks!Wake(u) \/ Checks!Connect(u) \/ Checks!Write(u)
  \/ Checks!Read(u) \/ Checks!Timeout(u)

Wire(u) == Checks!Answer(u) \/ Checks!LoseRequest(u)

(* Probes and time go on behind the balancer's back. *)
Behind == (Checks!Tick \/ \E u \in Upstreams : Probe(u) \/ Wire(u)) /\ UNCHANGED pickVars

BackNext ==
  /\ \/ \E c \in Callers : Ask(c) \/ Look(c) \/ Hand(c) \/ HandNone(c) \/ Crash(c)
     \/ \E u \in Upstreams : StoreVerdict(u) \/ \E m \in Modes : Change(u, m)
     \/ Behind
  /\ Remember

BackSpec == BackInit /\ [][BackNext]_backVars

-----------------------------------------------------------------------------
(***************************************************************************)
(* No scan in progress can miss an upstream because start + i wraps: the   *)
(* wrap is looked for, or even, or far away.                               *)
(***************************************************************************)
ScansCover ==
  OverflowChecks \/ WrapIsEven \/ \A c \in Callers : pc[c] = "scan" => NoWrap(c)

(***************************************************************************)
(* "Dead backends are automatically removed from rotation", with a bound:  *)
(* next_healthy does not return an upstream that has been failing for more *)
(* than one sleep of its checker and one probe timeout, whenever the scan  *)
(* drew its ticket and whatever was stored while it ran.                   *)
(***************************************************************************)
HandedAreFresh ==
  [][\A c \in Callers :
       pc[c] = "scan" /\ pc'[c] = "done" /\ result'[c] # None => Fresh(result'[c])]_backVars

(***************************************************************************)
(* And returned to it, with the same bound: next_healthy does not return   *)
(* None if, throughout the scan, some upstream had been working for longer *)
(* than that - however often it failed before.                             *)
(***************************************************************************)
NoneIsEarned ==
  [][\A c \in Callers :
       pc[c] = "scan" /\ pc'[c] = "done" /\ result'[c] = None => settled[c] = {}]_backVars
=============================================================================
