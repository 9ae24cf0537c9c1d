------------------------------ MODULE Runtime ------------------------------
(***************************************************************************)
(* How the async guide's programs run: the part of tokio they rely on      *)
(* (tasks, join!, select!, timeout, sleep, mpsc and oneshot channels,      *)
(* abort, a mutex), external to the repository and modelled from its use   *)
(* there.  main and the futures it polls run on the main thread, a spawned *)
(* task on any free one of `workers` threads.  Computation takes no time:  *)
(* the clock moves, to the next deadline, when no task can step.           *)
(***************************************************************************)
EXTENDS Integers, Sequences, FiniteSets, SequencesExt

CONSTANTS Programs,      \* what may run, by name (module Examples)
          MaxWorkers     \* bound: #[tokio::main] takes one worker per CPU

ASSUME MaxWorkersAssumption == MaxWorkers \in Nat \ {0}

IsSequence(s) == Len(s) \in Nat /\ s = [k \in 1..Len(s) |-> s[k]]

(* Instructions that use the value obtained last, those that obtain one,   *)
(* and where an instruction may jump to.                                   *)
UsesLast == {"spawn_last", "send_last", "reply"}
Obtains == {"recv", "read", "timeout"}
Jumps(i) ==
  CASE i.op = "goto" -> {i.to}
    [] i.op \in {"recv", "read"} -> {i.closed}
    [] i.op = "send_last" -> {i.gone}
    [] OTHER -> {}

JumpTargets(code) == UNION {Jumps(code[k]) : k \in DOMAIN code}

(* On every path to instruction k the task obtains a value.                *)
HasValue(code, k) ==
  \E m \in DOMAIN code :
    m < k /\ code[m].op \in Obtains /\ \A j \in (m + 1)..k : j \notin JumpTargets(code)

(* Durations are numbers, what is sent and joined are sequences, a value   *)
(* is used where there is one, and senders belong to tasks.                *)
WellFormedTask(code) ==
  /\ IsSequence(code) /\ code # <<>>
  /\ JumpTargets(code) \subseteq Nat \ {0}
  /\ \A k \in DOMAIN code :
       /\ code[k].op \in {"sleep", "block", "timeout"} => code[k].ms \in Nat
       /\ code[k].op \in {"send", "reply"} => IsSequence(code[k].items)
       /\ code[k].op = "join" => IsSequence(code[k].tasks)
       /\ code[k].op \in UsesLast => HasValue(code, k)

WellFormed(p) ==
  /\ \A t \in DOMAIN p.code :
       /\ WellFormedTask(p.code[t])
       /\ \A k \in DOMAIN p.code[t] :
            p.code[t][k].op \in {"recv", "read", "send", "send_last"} => p.code[t][k].ch \in DOMAIN p.cap
  /\ DOMAIN p.tx \subseteq DOMAIN p.code
  /\ \A ch \in DOMAIN p.cap : p.cap[ch] \in Nat

ASSUME ProgramsAssumption ==
  "none" \in DOMAIN Programs /\ \A d \in DOMAIN Programs : WellFormed(Programs[d])

Demos == DOMAIN Programs \ {"none"}

VARIABLES demo, workers, clock,
          st,      \* unborn, run, done, panicked or cancelled
          pc,      \* the next instruction
          wake,    \* -1, or the instruction has begun and (a timer) ends then
          reg,     \* the values the task has obtained, each a sequence of items
          chan,    \* the items in each channel
          held,    \* the senders not yet dropped, <<task, channel>>
          lock, data

rtvars == <<demo, workers, clock, st, pc, wake, reg, chan, held, lock, data>>

P == Programs[demo]
Task == DOMAIN st
Script(t) == P.code[t]
Over(t) == pc[t] > Len(Script(t))
Instr(t) == Script(t)[pc[t]]
At(t, op) == st[t] = "run" /\ ~Over(t) /\ Instr(t).op = op
Begun(t) == wake[t] # -1
Due(t) == Begun(t) /\ clock >= wake[t]

(* The thread of control a future belongs to, its value, its senders. *)
Root(t) == IF t \in DOMAIN P.inl THEN P.inl[t] ELSE t
Value(t) == IF t \in DOMAIN P.ret THEN P.ret[t] ELSE t
Senders(p) == UNION {{t} \X p.tx[t] : t \in DOMAIN p.tx}

Result(t) == IF st[t] = "done" THEN Value(t) ELSE st[t]
Ended(t) == st[t] \notin {"unborn", "run"}
Closed(ch) == \A t \in Task : <<t, ch>> \notin held
Gone(ch) == Ended(P.rx[ch])

(* A future whose select! has a winner is not polled again; a thread in a  *)
(* blocking call runs nothing else.                                        *)
Beaten(t) ==
  \E p \in Task : /\ At(p, "select") /\ Begun(p)
                  /\ t \in ToSet(Instr(p).tasks)
                  /\ \E c \in ToSet(Instr(p).tasks) : st[c] = "done"

Blocks(t) == Begun(t) /\ ~Due(t) /\ At(t, "block")

BusyWorkers == {Root(t) : t \in {u \in Task : Blocks(u) /\ Root(u) # "main"}}

Polled(t) ==
  /\ st[t] = "run" /\ ~Beaten(t)
  /\ \A u \in Task : Blocks(u) => Root(u) # Root(t)
  /\ Root(t) = "main" \/ Cardinality(BusyWorkers) < workers

(* What the instruction waits for. *)
Unwaited(t) ==
  \/ Over(t)
  \/ LET i == Instr(t) IN
     CASE i.op \in {"sleep", "block"} -> ~Begun(t) \/ Due(t)
       [] i.op = "await" -> Ended(i.task)
       [] i.op = "join" -> ~Begun(t) \/ \A c \in ToSet(i.tasks) : st[c] = "done"
       [] i.op = "select" -> ~Begun(t) \/ \E c \in ToSet(i.tasks) : st[c] = "done"
       [] i.op = "timeout" -> ~Begun(t) \/ Due(t) \/ st[i.tasks[1]] = "done"
       [] i.op = "send" -> Gone(i.ch) \/ Len(chan[i.ch]) + Len(i.items) <= P.cap[i.ch]
       [] i.op = "send_last" -> Gone(i.ch) \/ Len(chan[i.ch]) + Len(Last(reg[t])) <= P.cap[i.ch]
       [] i.op \in {"recv", "read"} -> chan[i.ch] # <<>> \/ Closed(i.ch)
       [] i.op = "lock" -> lock = "none"
       [] OTHER -> TRUE

CanStep(t) == Polled(t) /\ Unwaited(t)

-----------------------------------------------------------------------------
InitRun(d, w) ==
  /\ demo = d /\ workers = w /\ clock = 0
  /\ st = [t \in DOMAIN Programs[d].code |-> IF t = "main" THEN "run" ELSE "unborn"]
  /\ pc = [t \in DOMAIN st |-> 1]
  /\ wake = [t \in DOMAIN st |-> -1]
  /\ reg = [t \in DOMAIN st |-> <<>>]
  /\ chan = [ch \in DOMAIN Programs[d].cap |-> <<>>]
  /\ held = Senders(Programs[d])
  /\ lock = "none" /\ data = <<>>

(* The instruction is over, with the values vs. *)
Next1(t, vs) ==
  /\ pc' = [pc EXCEPT ![t] = @ + 1]
  /\ wake' = [wake EXCEPT ![t] = -1]
  /\ reg' = [reg EXCEPT ![t] = @ \o vs]

Begin(t, until) == wake' = [wake EXCEPT ![t] = until] /\ UNCHANGED <<pc, reg>>

(* The tasks S end as `how`: their senders and their guard are dropped. *)
Finish(S, how) ==
  /\ st' = [t \in Task |-> IF t \in S THEN how ELSE st[t]]
  /\ held' = {h \in held : h[1] \notin S}
  /\ lock' = IF lock \in S THEN "none" ELSE lock

Running(S) == {t \in S : st[t] = "run"}
Inside(t) == {u \in Task : Root(u) = t}

RunSleep(t) ==
  /\ At(t, "sleep") \/ At(t, "block")
  /\ IF Begun(t) THEN Due(t) /\ Next1(t, <<>>) ELSE Begin(t, clock + Instr(t).ms)
  /\ UNCHANGED <<st, chan, held, lock, data>>

RunSpawn(t) ==
  /\ At(t, "spawn") \/ At(t, "spawn_last")
  /\ LET born == IF At(t, "spawn") THEN Instr(t).tasks ELSE ToSet(Last(reg[t]))
     IN st' = [u \in Task |-> IF u \in born THEN "run" ELSE st[u]]
  /\ Next1(t, <<>>)
  /\ UNCHANGED <<chan, held, lock, data>>

RunAwait(t) ==
  /\ At(t, "await") /\ Ended(Instr(t).task)
  /\ Next1(t, <<<<Result(Instr(t).task)>>>>)
  /\ UNCHANGED <<st, chan, held, lock, data>>

RunAbort(t) ==
  /\ At(t, "abort")
  /\ Finish(Running(Inside(Instr(t).task)), "cancelled")
  /\ Next1(t, <<>>)
  /\ UNCHANGED <<chan, data>>

(* join!, select! and timeout poll the futures that are not started yet,  *)
(* to their first sleep if they begin with one.                            *)
FirstWake(c) == IF Script(c)[1].op = "sleep" THEN clock + Script(c)[1].ms ELSE -1

Start(t) ==
  /\ \E op \in {"join", "select", "timeout"} : At(t, op)
  /\ ~Begun(t)
  /\ LET i == Instr(t)
         fresh == {c \in ToSet(i.tasks) :
                     st[c] = "unborn" \/ (i.op = "select" /\ c \notin i.pinned)}
     IN /\ st' = [c \in Task |-> IF c \in fresh THEN "run" ELSE st[c]]
        /\ pc' = [c \in Task |-> IF c \in fresh THEN 1 ELSE pc[c]]
        /\ wake' = [c \in Task |-> IF c = t THEN IF i.op = "timeout" THEN clock + i.ms ELSE clock
                                   ELSE IF c \in fresh THEN FirstWake(c) ELSE wake[c]]
  /\ UNCHANGED <<reg, chan, held, lock, data>>

Joined(t) ==
  /\ At(t, "join") /\ Begun(t)
  /\ \A c \in ToSet(Instr(t).tasks) : st[c] = "done"
  /\ Next1(t, [k \in DOMAIN Instr(t).tasks |-> <<Result(Instr(t).tasks[k])>>])
  /\ UNCHANGED <<st, chan, held, lock, data>>

(* The first branch that is ready wins; the others, unless pinned, are     *)
(* dropped.  A branch in `again` goes round the loop.                      *)
Selected(t) ==
  /\ At(t, "select") /\ Begun(t)
  /\ LET i == Instr(t) IN
     \E c \in ToSet(i.tasks) :
       /\ st[c] = "done"
       /\ Finish(Running(ToSet(i.tasks) \ i.pinned), "cancelled")
       /\ reg' = [reg EXCEPT ![t] = Append(@, <<Value(c)>>)]
       /\ pc' = IF c \in i.again THEN pc ELSE [pc EXCEPT ![t] = @ + 1]
       /\ wake' = [wake EXCEPT ![t] = -1]
  /\ UNCHANGED <<chan, data>>

(* The future is polled before the timer. *)
TimeoutOver(t) ==
  /\ At(t, "timeout") /\ Begun(t)
  /\ LET c == Instr(t).tasks[1] IN
     \/ st[c] = "done" /\ Next1(t, <<<<Value(c)>>>>) /\ UNCHANGED <<st, held, lock>>
     \/ /\ st[c] = "run" /\ Due(t) /\ ~CanStep(c)
        /\ Finish({c}, "cancelled")
        /\ Next1(t, <<<<"timeout">>>>)
  /\ UNCHANGED <<chan, data>>

(* To a receiver that is gone: the unwrap panics, or the sender goes on.   *)
Put(t, ch, items) ==
  \/ /\ Gone(ch) /\ At(t, "send_last")
     /\ pc' = [pc EXCEPT ![t] = Instr(t).gone]
     /\ UNCHANGED <<st, wake, reg, chan, held, lock>>
  \/ /\ Gone(ch) /\ ~At(t, "send_last")
     /\ Finish(Running(Inside(t)), "panicked")
     /\ UNCHANGED <<pc, wake, reg, chan>>
  \/ /\ ~Gone(ch) /\ Len(chan[ch]) + Len(items) <= P.cap[ch]
     /\ chan' = [chan EXCEPT ![ch] = @ \o items]
     /\ Next1(t, <<>>) /\ UNCHANGED <<st, held, lock>>

RunSend(t) ==
  /\ \/ At(t, "send") /\ Put(t, Instr(t).ch, Instr(t).items)
     \/ At(t, "send_last") /\ Put(t, Instr(t).ch, Last(reg[t]))
     \/ At(t, "reply") /\ Put(t, Last(reg[t])[1], Instr(t).items)
  /\ UNCHANGED data

(* recv takes one item, a socket's read any part of what is there. *)
RunReceive(t) ==
  /\ At(t, "recv") \/ At(t, "read")
  /\ LET i == Instr(t) IN
     \/ \E n \in IF i.op = "recv" THEN 1..1 ELSE 1..Len(chan[i.ch]) :
          /\ n <= Len(chan[i.ch])
          /\ Next1(t, <<SubSeq(chan[i.ch], 1, n)>>)
          /\ chan' = [chan EXCEPT ![i.ch] = SubSeq(@, n + 1, Len(@))]
     \/ /\ chan[i.ch] = <<>> /\ Closed(i.ch)
        /\ pc' = [pc EXCEPT ![t] = i.closed]
        /\ UNCHANGED <<wake, reg, chan>>
  /\ UNCHANGED <<st, held, lock, data>>

RunLocal(t) ==
  \/ /\ At(t, "drop") /\ Next1(t, <<>>)
     /\ held' = held \ {<<t, Instr(t).ch>>}
     /\ UNCHANGED <<st, chan, lock, data>>
  \/ /\ At(t, "lock") /\ lock = "none" /\ Next1(t, <<>>)
     /\ lock' = t
     /\ UNCHANGED <<st, chan, held, data>>
  \/ /\ At(t, "unlock") /\ Next1(t, <<>>)
     /\ lock' = "none"
     /\ UNCHANGED <<st, chan, held, data>>
  \/ /\ At(t, "push") /\ Next1(t, <<>>)
     /\ data' = Append(data, Instr(t).x)
     /\ UNCHANGED <<st, chan, held, lock>>
  \/ /\ At(t, "goto") /\ pc' = [pc EXCEPT ![t] = Instr(t).to]
     /\ UNCHANGED <<st, wake, reg, chan, held, lock, data>>

RunPanic(t) ==
  /\ At(t, "panic")
  /\ Finish(Running(Inside(t)), "panicked")
  /\ UNCHANGED <<pc, wake, reg, chan, data>>

(* A task returns; when main does, the runtime drops every task. *)
Return(t) ==
  /\ st[t] = "run" /\ Over(t)
  /\ IF t = "main"
     THEN /\ st' = [u \in Task |-> IF u = t THEN "done"
                                   ELSE IF st[u] = "run" THEN "cancelled" ELSE st[u]]
          /\ held' = {} /\ lock' = "none"
     ELSE Finish({t}, "done")
  /\ UNCHANGED <<pc, wake, reg, chan, data>>

Step(t) ==
  /\ Polled(t)
  /\ \/ RunSleep(t) \/ RunSpawn(t) \/ RunAwait(t) \/ RunAbort(t) \/ Start(t)
     \/ Joined(t) \/ Selected(t) \/ TimeoutOver(t) \/ RunSend(t) \/ RunReceive(t)
     \/ RunLocal(t) \/ RunPanic(t) \/ Return(t)
  /\ UNCHANGED <<demo, workers, clock>>

Tick ==
  /\ \A t \in Task : ~CanStep(t)
  /\ LET due == {wake[t] : t \in {u \in Task : st[u] = "run" /\ wake[u] > clock}}
     IN due # {} /\ clock' = Min(due)
  /\ UNCHANGED <<demo, workers, st, pc, wake, reg, chan, held, lock, data>>

RunNext == Tick \/ \E t \in Task : Step(t)
=============================================================================
