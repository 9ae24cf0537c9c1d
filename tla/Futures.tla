------------------------------ MODULE Futures ------------------------------
(***************************************************************************)
(* The async guide's hand-written futures, one of them awaited by main: a  *)
(* countdown (01 and 03), DelayedValue (03), TwoStepJob and the async fn   *)
(* the compiler turns into the same state machine (04).  The executor,     *)
(* external, polls a task that was woken; it may also poll one that was    *)
(* not, at most MaxSpurious times.                                         *)
(***************************************************************************)
EXTENDS Integers, Sequences

CONSTANT MaxSpurious    \* bound: polls nobody asked for

ASSUME MaxSpuriousAssumption == MaxSpurious \in Nat

VARIABLES fut,         \* the future that is awaited, "none" if none is
          state,       \* its fields
          woken,       \* its waker was called and it was not polled since
          alarms,      \* threads or timers that will call the waker
          passed,      \* the deadline of the future (of its sleep) is over
          polls, spurious,
          out          \* the results of a future that is ready

futvars == <<fut, state, woken, alarms, passed, polls, spurious, out>>

Kinds == {"countdown", "liftoff", "delayed", "twostep", "asyncfn"}
Pending == <<>>    \* Poll::Pending

(* What one poll does. *)
Polled1(s, o, wake, armed) == [state |-> s, out |-> o, wake |-> wake, alarms |-> armed]

(* Mutant: the waker is called only while more than one poll remains. *)
CountdownPollSilent(s, result) ==
  IF s = 0 THEN Polled1(s, <<result>>, FALSE, alarms)
  ELSE Polled1(s - 1, Pending, s > 1, alarms)

CountdownPoll(s, result) ==
  IF s = 0 THEN Polled1(s, <<result>>, FALSE, alarms)
  ELSE Polled1(s - 1, Pending, TRUE, alarms)

LiftoffPoll(s) == CountdownPoll(s, "Liftoff!")

(* Mutant: the flag is not looked at, every poll starts a thread. *)
DelayedPollAgain(waker_set) ==
  IF passed THEN Polled1(waker_set, <<"value">>, FALSE, alarms)
  ELSE Polled1(TRUE, Pending, FALSE, alarms + 1)

(* DelayedValue's first poll starts the thread that calls its waker. *)
DelayedPoll(waker_set) ==
  IF passed THEN Polled1(waker_set, <<"value">>, FALSE, alarms)
  ELSE Polled1(TRUE, Pending, FALSE, IF waker_set THEN alarms ELSE alarms + 1)

NotStarted == [at |-> 0, polls_remaining |-> 0, results |-> <<>>]
Waiting(step, n, results) == [at |-> step, polls_remaining |-> n, results |-> results]
Completed == [at |-> 3, polls_remaining |-> 0, results |-> <<>>]

(* Mutant: step 1 is over, and so is its result. *)
TwoStepPollForgets(s) ==
  CASE s.at = 0 -> Polled1(Waiting(1, 1, <<>>), Pending, TRUE, alarms)
    [] s.at = 1 /\ s.polls_remaining = 0 -> Polled1(Waiting(2, 1, <<>>), Pending, TRUE, alarms)
    [] s.at = 2 /\ s.polls_remaining = 0 ->
         Polled1(Completed, Append(s.results, "two"), FALSE, alarms)
    [] OTHER -> Polled1([s EXCEPT !.polls_remaining = @ - 1], Pending, TRUE, alarms)

(* The loop in poll goes on from NotStarted, and from the end of step 1,   *)
(* to the first state that is not ready: two polls are left, then one.     *)
TwoStepPoll(s) ==
  CASE s.at = 0 -> Polled1(Waiting(1, 1, <<>>), Pending, TRUE, alarms)
    [] s.at = 1 /\ s.polls_remaining = 0 -> Polled1(Waiting(2, 1, <<"one">>), Pending, TRUE, alarms)
    [] s.at = 2 /\ s.polls_remaining = 0 ->
         Polled1(Completed, Append(s.results, "two"), FALSE, alarms)
    [] OTHER -> Polled1([s EXCEPT !.polls_remaining = @ - 1], Pending, TRUE, alarms)

(* two_step_job_real: each step awaits a sleep; a sleep that is over drops *)
(* its timer.                                                              *)
AsyncFnPoll(s) ==
  CASE s.at = 0 -> Polled1(Waiting(1, 0, <<>>), Pending, FALSE, 1)
    [] s.at = 1 /\ passed -> Polled1(Waiting(2, 0, <<"one">>), Pending, FALSE, 1)
    [] s.at = 2 /\ passed -> Polled1(Completed, Append(s.results, "two"), FALSE, 0)
    [] OTHER -> Polled1(s, Pending, FALSE, alarms)

PollOf ==
  CASE fut = "countdown" -> CountdownPoll(state, "done!")
    [] fut = "liftoff" -> LiftoffPoll(state)
    [] fut = "delayed" -> DelayedPoll(state)
    [] fut = "twostep" -> TwoStepPoll(state)
    [] fut = "asyncfn" -> AsyncFnPoll(state)

-----------------------------------------------------------------------------
NewFuture(k) ==
  CASE k \in {"countdown", "liftoff"} -> 3
    [] k = "delayed" -> FALSE
    [] k \in {"twostep", "asyncfn"} -> NotStarted
    [] OTHER -> "none"

InitFuture(k) ==
  /\ fut = k /\ state = NewFuture(k)
  /\ woken = (k # "none") /\ alarms = 0 /\ passed = FALSE
  /\ polls = 0 /\ spurious = 0 /\ out = Pending

(* A sleep that starts has its deadline ahead of it. *)
Poll ==
  /\ fut # "none" /\ out = Pending
  /\ woken \/ spurious < MaxSpurious
  /\ spurious' = IF woken THEN spurious ELSE spurious + 1
  /\ state' = PollOf.state /\ out' = PollOf.out
  /\ woken' = PollOf.wake /\ alarms' = PollOf.alarms
  /\ passed' = IF fut = "asyncfn" /\ state'.at # state.at THEN FALSE ELSE passed
  /\ polls' = polls + 1
  /\ UNCHANGED fut

(* DelayedValue's deadline runs from its construction, a sleep's from its  *)
(* first poll.                                                             *)
DeadlinePasses ==
  /\ ~passed
  /\ fut = "delayed" \/ (fut = "asyncfn" /\ alarms > 0)
  /\ passed' = TRUE
  /\ UNCHANGED <<fut, state, woken, alarms, polls, spurious, out>>

AlarmWakes ==
  /\ passed /\ alarms > 0
  /\ alarms' = alarms - 1
  /\ woken' = TRUE
  /\ UNCHANGED <<fut, state, passed, polls, spurious, out>>

FutNext == Poll \/ DeadlinePasses \/ AlarmWakes

(* The executor polls what was woken, time passes, a thread that slept     *)
(* goes on.                                                                *)
FutFairness ==
  /\ WF_futvars(woken /\ Poll) /\ WF_futvars(DeadlinePasses) /\ WF_futvars(AlarmWakes)

-----------------------------------------------------------------------------
(* A future that is not ready is polled again: its waker was called, or    *)
(* someone is left who will call it.  DelayedValue keeps the waker of its  *)
(* first poll and must start its thread in that poll and never lose it;    *)
(* Countdown and TwoStepJob must wake before they return Pending.          *)
NoLostWakeup == fut # "none" /\ out = Pending => woken \/ alarms > 0

(* The comments' counts: Countdown is polled four times, TwoStepJob three  *)
(* times in each of its waits, the last of one being the first of the      *)
(* other, DelayedValue twice unless someone else causes a poll.  And "both *)
(* produce the same result": the state machine and the async fn hand the   *)
(* result of step 1 over every pause between the steps.                    *)
PollsAsClaimed ==
  out # Pending =>
    CASE fut \in {"countdown", "liftoff"} -> polls = 4
      [] fut = "delayed" -> polls <= 2 + spurious
      [] fut = "twostep" -> polls = 5 /\ out = <<"one", "two">>
      [] fut = "asyncfn" -> out = <<"one", "two">>

(* .await drives every one of the futures to its end. *)
FutureCompletes == (fut # "none") ~> (out # Pending)
=============================================================================
