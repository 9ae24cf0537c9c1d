------------------------------ MODULE Balancer ------------------------------
(***************************************************************************)
(* The health-aware round-robin of crates C and D (balancer.rs), with the  *)
(* health flags it shares with the checkers (health.rs).                   *)
(*                                                                         *)
(* next_healthy takes no lock.  It draws a ticket with one atomic          *)
(* fetch_add, then loads the flags one at a time, starting at the ticket;  *)
(* the checker tasks store flags between any two of these loads.  A load,  *)
(* a store and a fetch_add are each one step of this specification.        *)
(*                                                                         *)
(* CounterMod stands for 2^w, the number of values of usize.               *)
(* OverflowChecks says whether `start + i` is built with overflow checks   *)
(* (cargo run, cargo test) or wraps (cargo build --release); fetch_add     *)
(* itself wraps in both.                                                   *)
(***************************************************************************)
EXTENDS Integers

CONSTANTS Callers,         \* connection tasks that may be in next_healthy at once
          N,               \* number of configured upstreams
          CounterMod,      \* 2^w
          OverflowChecks,
          None             \* Option::None

ASSUME NAssumption == N \in Nat \ {0}
ASSUME CounterModAssumption == CounterMod \in Nat \ {0}
ASSUME OverflowChecksAssumption == OverflowChecks \in BOOLEAN

Upstreams == 0 .. N - 1

ASSUME NoneAssumption == None \notin Upstreams

VARIABLES flags,    \* HealthFlags: the verdict last stored for each upstream
          counter,  \* Balancer.counter
          pc,       \* where each caller is in next_healthy
          start,    \* its ticket
          i,        \* its loop variable
          result,   \* what it returned, once pc says "done"
          steady,   \* history: upstreams whose flag has been TRUE ever since the ticket
          dark      \* history: did some instant since the ticket have every flag FALSE?

vars == <<flags, counter, pc, start, i, result, steady, dark>>

Up(f) == {u \in Upstreams : f[u]}

(* A call that panicked took its task with it: it never returns. *)
Picking(c) == pc[c] \in {"scan", "panicked"}

-----------------------------------------------------------------------------
NewFlags == [u \in Upstreams |-> TRUE]

Init ==
  /\ flags = NewFlags
  /\ counter = 0
  /\ pc = [c \in Callers |-> "idle"]
  /\ start = [c \in Callers |-> 0]
  /\ i = [c \in Callers |-> 0]
  /\ result = [c \in Callers |-> None]
  /\ steady = [c \in Callers |-> {}]
  /\ dark = [c \in Callers |-> FALSE]

(* Mutant: the counter does not wrap at 2^w. *)
NextTicketUnbounded == counter + 1

(* `let start = self.counter.fetch_add(1, Relaxed)`, which wraps. *)
NextTicket == (counter + 1) % CounterMod

Call(c) ==
  /\ ~Picking(c)
  /\ counter' = NextTicket
  /\ start' = [start EXCEPT ![c] = counter]
  /\ i' = [i EXCEPT ![c] = 0]
  /\ pc' = [pc EXCEPT ![c] = "scan"]
  /\ result' = [result EXCEPT ![c] = None]
  /\ steady' = [steady EXCEPT ![c] = Up(flags)]
  /\ dark' = [dark EXCEPT ![c] = Up(flags) = {}]
  /\ UNCHANGED flags

(* `(start + i) % n`, the sum in usize arithmetic. *)
Idx(s, k) == ((s + k) % CounterMod) % N

SumOverflows(c) == start[c] + i[c] >= CounterMod

(* `start + i` overflows in a build with overflow checks. *)
Panic(c) ==
  /\ pc[c] = "scan" /\ i[c] < N
  /\ OverflowChecks /\ SumOverflows(c)
  /\ pc' = [pc EXCEPT ![c] = "panicked"]
  /\ UNCHANGED <<flags, counter, start, i, result, steady, dark>>

(* Mutant: the scan trusts the ticket and does not load the flag. *)
LoadHealthyUnchecked(c) ==
  /\ pc[c] = "scan" /\ i[c] < N
  /\ result' = [result EXCEPT ![c] = Idx(start[c], i[c])]
  /\ pc' = [pc EXCEPT ![c] = "done"]
  /\ UNCHANGED <<flags, counter, start, i, steady, dark>>

(* One iteration of the loop: the flag is loaded and is TRUE ... *)
LoadHealthy(c) ==
  /\ pc[c] = "scan" /\ i[c] < N
  /\ ~(OverflowChecks /\ SumOverflows(c))
  /\ flags[Idx(start[c], i[c])]
  /\ result' = [result EXCEPT ![c] = Idx(start[c], i[c])]
  /\ pc' = [pc EXCEPT ![c] = "done"]
  /\ UNCHANGED <<flags, counter, start, i, steady, dark>>

(* Mutant: the loop variable is not advanced past a FALSE flag. *)
LoadUnhealthyStuck(c) ==
  /\ pc[c] = "scan" /\ i[c] < N
  /\ ~flags[Idx(start[c], i[c])]
  /\ start' = [start EXCEPT ![c] = (@ + 1) % CounterMod]
  /\ UNCHANGED <<flags, counter, pc, i, result, steady, dark>>

(* ... or it is FALSE and the loop goes on. *)
LoadUnhealthy(c) ==
  /\ pc[c] = "scan" /\ i[c] < N
  /\ ~(OverflowChecks /\ SumOverflows(c))
  /\ ~flags[Idx(start[c], i[c])]
  /\ i' = [i EXCEPT ![c] = @ + 1]
  /\ UNCHANGED <<flags, counter, pc, start, result, steady, dark>>

(* Mutant: the loop runs over 0..n-1 exclusive of its last index. *)
GiveUpEarly(c) ==
  /\ pc[c] = "scan" /\ i[c] = N - 1
  /\ pc' = [pc EXCEPT ![c] = "done"]
  /\ UNCHANGED <<flags, counter, start, i, result, steady, dark>>

(* The loop is exhausted: the function returns None. *)
GiveUp(c) ==
  /\ pc[c] = "scan" /\ i[c] = N
  /\ pc' = [pc EXCEPT ![c] = "done"]
  /\ UNCHANGED <<flags, counter, start, i, result, steady, dark>>

(* `flags[i].store(healthy, Relaxed)` by the checker of upstream u. *)
Store(u, healthy) ==
  /\ flags' = [flags EXCEPT ![u] = healthy]
  /\ steady' = [c \in Callers |->
                  IF Picking(c) /\ ~healthy THEN steady[c] \ {u} ELSE steady[c]]
  /\ dark' = [c \in Callers |->
                dark[c] \/ (pc[c] = "scan" /\ Up(flags') = {})]
  /\ UNCHANGED <<counter, pc, start, i, result>>

Scan(c) == Panic(c) \/ LoadHealthy(c) \/ LoadUnhealthy(c) \/ GiveUp(c)

Next ==
  \/ \E c \in Callers : Call(c) \/ Scan(c)
  \/ \E u \in Upstreams, healthy \in BOOLEAN : Store(u, healthy)

(* next_healthy has no await: a task that entered it runs to its return. *)
Spec == Init /\ [][Next]_vars /\ \A c \in Callers : WF_vars(Scan(c))

-----------------------------------------------------------------------------
TypeOK ==
  /\ flags \in [Upstreams -> BOOLEAN]
  /\ counter \in 0 .. CounterMod - 1
  /\ pc \in [Callers -> {"idle", "scan", "done", "panicked"}]
  /\ start \in [Callers -> 0 .. CounterMod - 1]
  /\ i \in [Callers -> 0 .. N]
  /\ result \in [Callers -> Upstreams \cup {None}]
  /\ steady \in [Callers -> SUBSET Upstreams]
  /\ dark \in [Callers -> BOOLEAN]

(* The ticket is far enough from 2^w that no `start + k` of its scan wraps. *)
NoWrap(c) == start[c] + N <= CounterMod

(* With a power of two of upstreams the rotation goes on across the wrap. *)
WrapIsEven == CounterMod % N = 0

(***************************************************************************)
(* What a lock-free scan does promise: an upstream whose flag stays TRUE   *)
(* from the ticket to the return is never passed over.  Those before the   *)
(* one returned went down at some point; if None was returned, every       *)
(* upstream did (next_healthy against the checkers' stores).  Only in a    *)
(* build without overflow checks, only within N tickets of 2^w, and only if*)
(* N is no power of two, may None be returned too soon: there the sums wrap*)
(* and the scan need not visit every upstream.                             *)
(***************************************************************************)
NoSteadyUpstreamMissed ==
  \A c \in Callers : pc[c] = "done" =>
     /\ \A k \in 0 .. i[c] - 1 : Idx(start[c], k) \notin steady[c]
     /\ result[c] = None /\ (OverflowChecks \/ WrapIsEven \/ NoWrap(c)) => steady[c] = {}

(***************************************************************************)
(* What the doc comment of next_healthy promises: None only if, at some    *)
(* instant of the call, all upstreams were unhealthy.  The code does not do*)
(* this (a flag may rise behind the scan and another fall ahead of it); no *)
(* run claims it.                                                          *)
(***************************************************************************)
NoneOnlyIfAllUnhealthy ==
  \A c \in Callers : pc[c] = "done" /\ result[c] = None => dark[c]

(***************************************************************************)
(* next_healthy is wait-free: however the checkers flip the flags, a scan  *)
(* that began ends (the for loop over 0..n).                               *)
(***************************************************************************)
EveryPickReturns ==
  \A c \in Callers : pc[c] = "scan" ~> pc[c] # "scan"

(* The pick as its callers see it: see PickSpec. *)
Pick == INSTANCE PickSpec WITH picking <- [c \in Callers |-> Picking(c)]

(***************************************************************************)
(* next_healthy with its ticket, its loop and its separate loads           *)
(* implements the pick of PickSpec, as long as no sum start + i wraps; with*)
(* overflow checks the task that would see it wrap panics instead.         *)
(***************************************************************************)
RefinesPick == Pick!Safe
=============================================================================
