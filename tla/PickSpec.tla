------------------------------ MODULE PickSpec ------------------------------
(***************************************************************************)
(* What a caller may rely on when it asks crates C and D for an upstream,  *)
(* without tickets, scan order or loop variable.  A pick begins and, later,*)
(* ends with                                                               *)
(*   - an upstream whose flag is TRUE at the moment it ends, or            *)
(*   - None, but only if no flag has been TRUE for the whole pick.         *)
(* The flags change at any time in between.  This is weaker than an atomic *)
(* "pick from the current flags": see NoneOnlyIfAllUnhealthy in Balancer.  *)
(***************************************************************************)
CONSTANTS Callers, Upstreams, None

VARIABLES flags, picking, result, steady

pickVars == <<flags, picking, result, steady>>

Init ==
  /\ flags = [u \in Upstreams |-> TRUE]
  /\ picking = [c \in Callers |-> FALSE]
  /\ result = [c \in Callers |-> None]
  /\ steady = [c \in Callers |-> {}]

Begin(c) ==
  /\ ~picking[c]
  /\ picking' = [picking EXCEPT ![c] = TRUE]
  /\ result' = [result EXCEPT ![c] = None]
  /\ steady' = [steady EXCEPT ![c] = {u \in Upstreams : flags[u]}]
  /\ UNCHANGED flags

EndWith(c, u) ==
  /\ picking[c] /\ flags[u]
  /\ picking' = [picking EXCEPT ![c] = FALSE]
  /\ result' = [result EXCEPT ![c] = u]
  /\ UNCHANGED <<flags, steady>>

EndWithNone(c) ==
  /\ picking[c] /\ steady[c] = {}
  /\ picking' = [picking EXCEPT ![c] = FALSE]
  /\ UNCHANGED <<flags, result, steady>>

SetFlag(u, b) ==
  /\ flags' = [flags EXCEPT ![u] = b]
  /\ steady' = [c \in Callers |->
                  IF picking[c] /\ ~b THEN steady[c] \ {u} ELSE steady[c]]
  /\ UNCHANGED <<picking, result>>

Next ==
  \/ \E c \in Callers : Begin(c) \/ EndWithNone(c)
  \/ \E c \in Callers, u \in Upstreams : EndWith(c, u)
  \/ \E u \in Upstreams, b \in BOOLEAN : SetFlag(u, b)

(* Safety alone: that every pick ends is EveryPickReturns of Balancer. *)
Safe == Init /\ [][Next]_pickVars
=============================================================================
