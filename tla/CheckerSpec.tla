---------------------------- MODULE CheckerSpec ----------------------------
(***************************************************************************)
(* What the health checkers of crates C and D promise about a flag: every  *)
(* value stored is the condition the upstream was really in at some moment *)
(* since the store before it.  It may be out of date when it is stored, and*)
(* nothing is said of when the next store comes.  Module Health is the     *)
(* checker itself, with its sleep, its probe and its timeout.              *)
(***************************************************************************)
CONSTANT Upstreams

VARIABLES ok,     \* does the upstream answer probes as it should?
          flags,  \* HealthFlags
          seen    \* the conditions it has been in since the last store

checkerVars == <<ok, flags, seen>>

Init ==
  /\ ok \in [Upstreams -> BOOLEAN]
  /\ flags = [u \in Upstreams |-> TRUE]
  /\ seen = [u \in Upstreams |-> {ok[u]}]

(* The upstream fails, or recovers. *)
Flip(u) ==
  /\ ok' = [ok EXCEPT ![u] = ~@]
  /\ seen' = [seen EXCEPT ![u] = @ \cup {ok'[u]}]
  /\ UNCHANGED flags

(* Mutant: the verdict stored may be another upstream's. *)
StoreAnyVerdict(u, b) ==
  /\ flags' = [flags EXCEPT ![u] = b]
  /\ seen' = [seen EXCEPT ![u] = {ok[u]}]
  /\ UNCHANGED ok

(* Mutant: a flag once TRUE stays TRUE. *)
StoreNeverLowers(u, b) ==
  /\ b \in seen[u]
  /\ flags' = [flags EXCEPT ![u] = @ \/ b]
  /\ seen' = [seen EXCEPT ![u] = {ok[u]}]
  /\ UNCHANGED ok

(* Its checker stores a verdict. *)
StoreFlag(u, b) ==
  /\ b \in seen[u]
  /\ flags' = [flags EXCEPT ![u] = b]
  /\ seen' = [seen EXCEPT ![u] = {ok[u]}]
  /\ UNCHANGED ok

Next == \E u \in Upstreams : Flip(u) \/ \E b \in BOOLEAN : StoreFlag(u, b)

Safe == Init /\ [][Next]_checkerVars
=============================================================================
