------------------------------- MODULE Guide -------------------------------
(***************************************************************************)
(* The async guide: one of its demonstrations under the runtime, or one of *)
(* its hand-written futures under an executor.                             *)
(***************************************************************************)
EXTENDS Examples, Runtime, Futures

vars == <<rtvars, futvars>>

(* How many workers there are matters only where a spawned task blocks.    *)
Init ==
  \/ \E d \in Demos, w \in 1..MaxWorkers :
       (d = "Blocking" \/ w = 1) /\ InitRun(d, w) /\ InitFuture("none")
  \/ \E k \in Kinds : InitRun("none", 1) /\ InitFuture(k)

Next ==
  \/ RunNext /\ UNCHANGED futvars
  \/ FutNext /\ UNCHANGED rtvars

(* The runtime goes on as long as a task can step or a timer is set. *)
Spec == Init /\ [][Next]_vars /\ WF_rtvars(RunNext) /\ FutFairness

-----------------------------------------------------------------------------
Over1 == demo # "none" /\ st["main"] = "done"
Obtained(t) == FlattenSeq(reg[t])

(* Types; no channel holds more than its capacity, a task that ended holds *)
(* no sender, the guard belongs to a task that runs, and however often     *)
(* DelayedValue is polled one thread at most sleeps for it.                *)
TypeOK ==
  /\ demo \in Demos \cup {"none"} /\ workers \in 1..MaxWorkers /\ clock \in Nat
  /\ st \in [Task -> {"unborn", "run", "done", "panicked", "cancelled"}]
  /\ \A ch \in DOMAIN chan : Len(chan[ch]) <= P.cap[ch]
  /\ \A h \in held : ~Ended(h[1])
  /\ lock \in Task \cup {"none"} /\ (lock # "none" => st[lock] = "run")
  /\ fut \in Kinds \cup {"none"} /\ alarms \in 0..1 /\ polls \in Nat /\ spurious \in 0..MaxSpurious

(* The times the examples print or promise (in comments, in the source's   *)
(* order): sleeps add up when awaited in turn, overlap when joined,        *)
(* selected or spawned, and blocking calls overlap only on two threads.    *)
Claimed ==
  [SlowWay |-> 9000, FastWay |-> 4000, OneByOne |-> 800, BothAtOnce |-> 500,
   Downloads |-> 3000, ManyTasks |-> 500, WorkInTurn |-> 400, WorkSpawned |-> 200,
   WorkJoined |-> 200, Race |-> 1000, TimeoutBySelect |-> 2000, TimeoutByHelper |-> 2000,
   ShutdownLoop |-> 3000, Yielding |-> 1000, Workers |-> 900, Checker |-> 1000]

ElapsedAsClaimed ==
  Over1 => /\ demo \in DOMAIN Claimed => clock = Claimed[demo]
           /\ demo = "Blocking" => clock = IF workers = 1 THEN 2000 ELSE 1000

(* What main has in hand at the end: a result per task in the order of the *)
(* handles or of the arrivals, a panic and an abort told apart, one result *)
(* for each URL, five or six items before the shutdown, the echo of what   *)
(* was sent, and futures nobody awaits never run; no unwrap fails but the  *)
(* one that is meant to.                                                   *)
ResultsAsClaimed ==
  Over1 =>
    /\ \A t \in Task : st[t] = "panicked" => demo = "JoinHandles" /\ t = "oops"
    /\ CASE demo = "Downloads" -> Obtained("main") = <<"A", "B", "C">>
         [] demo = "JoinHandles" -> Obtained("main") = <<"fine", "panicked", "cancelled">>
         [] demo = "Race" -> Obtained("main") = <<"fast">> /\ st["slow"] = "cancelled"
         [] demo = "TimeoutBySelect" -> Obtained("main") = <<"timer">>
         [] demo = "TimeoutByHelper" -> Obtained("main") = <<"timeout">>
         [] demo = "ShutdownLoop" -> \E n \in 5..6 : Obtained("main") = Append([k \in 1..n |-> "item"], "shutdown")
         [] demo \in {"Lazy", "Forgotten"} -> st["unused"] = "unborn"
         [] demo = "StdMutex" -> data = <<1, 2>>
         [] demo = "AsyncMutex" -> data \in {<<1, 2>>, <<2, 1>>}
         [] demo = "Workers" -> Obtained("main") = <<1, 2, 3>>
         [] demo = "Oneshot" -> Obtained("main") = <<6765>>
         [] demo = "RequestResponse" -> Obtained("main") = <<"hello", "hello", "hello">>
         [] demo = "Checker" -> Summary(Obtained("main")) = [OK |-> 5, FAIL |-> 2, timeout |-> 1]
         [] demo = "Echo" -> \A k \in {"k1", "k2", "k3"} :
              st[k] = "done" /\ \E text \in {Script(k)[3].items} : Obtained(k) # <<>> /\ IsPrefix(Obtained(k), text)
         [] demo = "EchoOnce" -> Obtained("main") = <<"head">>
         [] demo = "CopyBoth" -> Obtained("main") = <<"y", "session", "peer">>
         [] OTHER -> TRUE

(* Every demonstration comes to its end, and every future that is awaited: *)
(* the channel closes when the last sender is gone, the server is aborted, *)
(* no branch waits for another, no lock for a timer.                       *)
EverythingEnds == ((demo # "none") ~> Over1) /\ FutureCompletes

(* As the comments on Mistake 1 have it, for any number of threads. *)
BlockingIsSequential == Over1 /\ demo = "Blocking" => clock = 2000
=============================================================================
