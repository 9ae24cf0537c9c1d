------------------------------- MODULE Health -------------------------------
(***************************************************************************)
(* The background health checker of crates C and D (health.rs): one task   *)
(* per upstream that sleeps, probes the upstream under a timeout, and      *)
(* stores the verdict in the flag the balancer reads.                      *)
(*                                                                         *)
(* Time is counted in ticks.  A task or an upstream that can act acts      *)
(* before the next tick: what takes time is sleeping and waiting for an    *)
(* upstream that does not answer.                                          *)
(***************************************************************************)
EXTENDS Integers

CONSTANTS Upstreams,
          Interval,      \* health.interval_secs
          ProbeTimeout,  \* health.timeout_secs
          Modes,         \* the ways upstreams behave in this instance
          MaxSince       \* bound: `since` stops counting here

(***************************************************************************)
(* How an upstream treats a probe:                                         *)
(*   "ok"        answers 2xx, its status line in one segment               *)
(*   "split"     answers 2xx, its status line cut after the version        *)
(*   "error"     answers with another status, or with what is no HTTP      *)
(*   "refusing"  refuses connections and resets the open ones              *)
(*   "hung"      accepts connections and does not answer                   *)
(*   "dropping"  loses packets: what was sent meanwhile stays unanswered   *)
(***************************************************************************)
AllModes == {"ok", "split", "error", "refusing", "hung", "dropping"}

ASSUME ModesAssumption == Modes \subseteq AllModes
(* Config::validate *)
ASSUME IntervalAssumption == Interval \in Nat /\ Interval > 0
ASSUME ProbeTimeoutAssumption == ProbeTimeout \in Nat /\ ProbeTimeout > 0
ASSUME MaxSinceAssumption == MaxSince \in Nat

VARIABLES mode,     \* how each upstream behaves now
          phase,    \* where its checker is
          timer,    \* ticks left of its sleep, or of its probe's timeout
          answer,   \* what its upstream sent back to the probe
          verdict,  \* what the probe returned
          flags,    \* HealthFlags
          since,    \* history: ticks since the upstream became, or ceased to be, ok
          seen      \* history: was it ok, was it not, since the last store?

vars == <<mode, phase, timer, answer, verdict, flags, since, seen>>

Probing(u) == phase[u] \in {"connect", "write", "read", "lost"}

-----------------------------------------------------------------------------
NewFlags == [u \in Upstreams |-> TRUE]

Init ==
  /\ mode \in [Upstreams -> Modes]
  /\ phase = [u \in Upstreams |-> "sleep"]
  /\ timer = [u \in Upstreams |-> Interval]
  /\ answer = [u \in Upstreams |-> "none"]
  /\ verdict = [u \in Upstreams |-> FALSE]
  /\ flags = NewFlags
  /\ since = [u \in Upstreams |-> 0]
  /\ seen = [u \in Upstreams |-> {mode[u] = "ok"}]

Goto(u, p) == phase' = [phase EXCEPT ![u] = p]

(* The probe is over; spawn_checkers stores what it returned. *)
Return(u, v) ==
  /\ Goto(u, "store")
  /\ verdict' = [verdict EXCEPT ![u] = v]
  /\ answer' = [answer EXCEPT ![u] = "none"]
  /\ UNCHANGED <<mode, timer, flags, since, seen>>

(* Mutant: the probe runs under the wrong duration. *)
WakeWithInterval(u) ==
  /\ phase[u] = "sleep" /\ timer[u] = 0
  /\ Goto(u, "connect")
  /\ timer' = [timer EXCEPT ![u] = Interval]
  /\ UNCHANGED <<mode, answer, verdict, flags, since, seen>>

(* `sleep(interval)` is over; the probe's timeout starts. *)
Wake(u) ==
  /\ phase[u] = "sleep" /\ timer[u] = 0
  /\ Goto(u, "connect")
  /\ timer' = [timer EXCEPT ![u] = ProbeTimeout]
  /\ UNCHANGED <<mode, answer, verdict, flags, since, seen>>

(* `TcpStream::connect(addr)`; a hung upstream's kernel still accepts. *)
Connect(u) ==
  /\ phase[u] = "connect"
  /\ \/ mode[u] = "refusing" /\ Return(u, FALSE)
     \/ /\ mode[u] # "refusing"
        /\ Goto(u, IF mode[u] = "dropping" THEN "lost" ELSE "write")
        /\ UNCHANGED <<mode, timer, answer, verdict, flags, since, seen>>

(* `write_all(req)`: fails, or goes to the socket buffer and onto the wire. *)
Write(u) ==
  /\ phase[u] = "write"
  /\ \/ mode[u] = "refusing" /\ Return(u, FALSE)
     \/ /\ Goto(u, IF mode[u] = "dropping" THEN "lost" ELSE "read")
        /\ UNCHANGED <<mode, timer, answer, verdict, flags, since, seen>>

(* The single `read(&mut buf)` and the check of the status line. *)
Read(u) ==
  /\ phase[u] = "read" /\ answer[u] # "none"
  /\ Return(u, answer[u] = "2xx")

(* Mutant: a probe without timeout. *)
TimeoutNever(u) == FALSE /\ Return(u, FALSE)

(* Mutant: only an explicit failure counts, `!matches!(.., Ok(false))`. *)
TimeoutIsHealthy(u) ==
  /\ Probing(u) /\ timer[u] = 0
  /\ Return(u, TRUE)

(* `timeout(probe_timeout, ...)` expires. *)
Timeout(u) ==
  /\ Probing(u) /\ timer[u] = 0
  /\ Return(u, FALSE)

(* Mutant: the flag is only ever lowered. *)
StoreLowering(u) ==
  /\ phase[u] = "store"
  /\ flags' = [flags EXCEPT ![u] = @ /\ verdict[u]]
  /\ seen' = [seen EXCEPT ![u] = {mode[u] = "ok"}]
  /\ Goto(u, "sleep")
  /\ timer' = [timer EXCEPT ![u] = Interval]
  /\ UNCHANGED <<mode, answer, verdict, since>>

(* `flags[i].store(healthy, Relaxed)`, and back to sleep. *)
Store(u) ==
  /\ phase[u] = "store"
  /\ flags' = [flags EXCEPT ![u] = verdict[u]]
  /\ seen' = [seen EXCEPT ![u] = {mode[u] = "ok"}]
  /\ Goto(u, "sleep")
  /\ timer' = [timer EXCEPT ![u] = Interval]
  /\ UNCHANGED <<mode, answer, verdict, since>>

Checker(u) ==
  Wake(u) \/ Connect(u) \/ Write(u) \/ Read(u) \/ Timeout(u) \/ Store(u)

-----------------------------------------------------------------------------
(* The upstreams and time.                                                 *)

(* The first segment of the answer, or the end of the connection. *)
Answers == [ok |-> "2xx", split |-> "partial", error |-> "other", refusing |-> "eof"]

Answer(u) ==
  /\ phase[u] = "read" /\ answer[u] = "none" /\ mode[u] \in DOMAIN Answers
  /\ answer' = [answer EXCEPT ![u] = Answers[mode[u]]]
  /\ UNCHANGED <<mode, phase, timer, verdict, flags, since, seen>>

(* Packets lost to a "dropping" network are not sent again in time. *)
LoseRequest(u) ==
  /\ phase[u] = "read" /\ answer[u] = "none" /\ mode[u] = "dropping"
  /\ Goto(u, "lost")
  /\ UNCHANGED <<mode, timer, answer, verdict, flags, since, seen>>

ChangeMode(u, m) ==
  /\ mode[u] # m
  /\ mode' = [mode EXCEPT ![u] = m]
  /\ since' = [since EXCEPT ![u] = IF (m = "ok") = (mode[u] = "ok") THEN @ ELSE 0]
  /\ seen' = [seen EXCEPT ![u] = @ \cup {m = "ok"}]
  /\ UNCHANGED <<phase, timer, answer, verdict, flags>>

(* Nothing can happen before time passes. *)
Waiting(u) ==
  /\ timer[u] > 0
  /\ \/ phase[u] \in {"sleep", "lost"}
     \/ phase[u] = "read" /\ answer[u] = "none" /\ mode[u] = "hung"

Tick ==
  /\ \A u \in Upstreams : Waiting(u)
  /\ timer' = [u \in Upstreams |-> timer[u] - 1]
  /\ since' = [u \in Upstreams |-> IF since[u] < MaxSince THEN since[u] + 1 ELSE MaxSince]
  /\ UNCHANGED <<mode, phase, answer, verdict, flags, seen>>

-----------------------------------------------------------------------------
Next ==
  \/ Tick
  \/ \E u \in Upstreams : Checker(u) \/ Answer(u) \/ LoseRequest(u)
  \/ \E u \in Upstreams, m \in Modes : ChangeMode(u, m)

(* Timers fire, tasks run, upstreams that answer do so; they change at will.*)
Spec ==
  /\ Init /\ [][Next]_vars
  /\ WF_vars(Tick)
  /\ \A u \in Upstreams : WF_vars(Checker(u)) /\ WF_vars(Answer(u) \/ LoseRequest(u))

-----------------------------------------------------------------------------
TypeOK ==
  /\ mode \in [Upstreams -> Modes]
  /\ phase \in [Upstreams -> {"sleep", "connect", "write", "read", "lost", "store"}]
  /\ \A u \in Upstreams :
       timer[u] \in 0 .. (IF phase[u] = "sleep" THEN Interval ELSE ProbeTimeout)
  /\ answer \in [Upstreams -> {"none", "2xx", "partial", "other", "eof"}]
  /\ verdict \in [Upstreams -> BOOLEAN]
  /\ flags \in [Upstreams -> BOOLEAN]
  /\ since \in [Upstreams -> 0 .. MaxSince]
  /\ seen \in [Upstreams -> SUBSET BOOLEAN]

(***************************************************************************)
(* A dead upstream leaves the rotation in bounded time, and one that has   *)
(* recovered returns in the same time: once it has failed to answer 2xx, or*)
(* has answered, for longer than one sleep and one probe timeout, its flag *)
(* says so - however it failed, even when a probe sent before its recovery *)
(* was lost, and even if another upstream is hung.                         *)
(***************************************************************************)
FlagsFollow ==
  \A u \in Upstreams :
    since[u] > Interval + ProbeTimeout => (flags[u] <=> mode[u] = "ok")

(***************************************************************************)
(* The bound above is not void, time does pass: once the upstreams stay  *)
(* as they are, every flag settles at what its upstream deserves.          *)
(***************************************************************************)
FlagsConverge ==
  <>[][UNCHANGED mode]_vars =>
    \A u \in Upstreams : <>[](flags[u] <=> mode[u] = "ok")

(***************************************************************************)
(* "If the response starts with HTTP/ and the status code starts with 2,   *)
(* the backend is healthy": upstreams that always answer 2xx keep their    *)
(* flags, however the network cuts their answers.  The code does not do    *)
(* this: one read decides, and "split" is taken for a failure; no run claims*)
(* it.                                                                     *)
(***************************************************************************)
Answers2xxIsHealthy ==
  \A u \in Upstreams : mode[u] \in {"ok", "split"} => flags[u]

(* The checker as the rest of the proxy sees it: see CheckerSpec. *)
Verdicts == INSTANCE CheckerSpec WITH ok <- [u \in Upstreams |-> mode[u] = "ok"]

(***************************************************************************)
(* Every verdict stored is justified: TRUE only for an upstream that was   *)
(* ok, FALSE only for one that was not, at some moment since the store     *)
(* before; never the verdict of an older probe or of another upstream.     *)
(***************************************************************************)
VerdictsAreJustified == Verdicts!Safe
=============================================================================
