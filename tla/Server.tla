------------------------------- MODULE Server -------------------------------
(***************************************************************************)
(* The process around the connections of crate A (main.rs): the accept     *)
(* loop with its select! over listener.accept() and shutdown_signal(), the *)
(* tasks it spawns, the counter `active` they share, and the end of the    *)
(* runtime.  Crates B, C and D have the same loop.                         *)
(*                                                                         *)
(* shutdown_signal() makes a new ctrl_c future in every iteration, and     *)
(* select! drops it when the accept branch wins.  A future hears only the  *)
(* signals that come after its first poll, and takes what it heard with it *)
(* when it is dropped.  select! polls its branches in random order, so a   *)
(* ready accept may win without the ctrl_c future ever being polled.       *)
(***************************************************************************)
EXTENDS Integers, FiniteSets

CONSTANT Conns   \* the connections clients will ever open

ASSUME ConnsAssumption == IsFiniteSet(Conns)

VARIABLES conn,      \* what became of each connection
          loop,      \* where main is
          active,    \* the shared AtomicUsize
          handler,   \* has a ctrl_c future ever been polled (handler installed)?
          notified,  \* has the ctrl_c future of this select! heard a signal?
          presses    \* history: parity of the number of CTRL+C sent

vars == <<conn, loop, active, handler, notified, presses>>

ConnStates == {"none", "queued", "accepted", "counted",
               "running", "finishing", "done", "cancelled"}

Init ==
  /\ conn = [c \in Conns |-> "none"]
  /\ loop = "enter"
  /\ active = 0
  /\ handler = FALSE
  /\ notified = FALSE
  /\ presses = 0

Stopped == loop \in {"stopped", "failed", "exited"}

-----------------------------------------------------------------------------
(* Clients and the operating system.                                       *)

(* The kernel completes the TCP handshake and queues the connection. *)
ClientConnects(c) ==
  /\ conn[c] = "none" /\ loop # "exited"
  /\ conn' = [conn EXCEPT ![c] = "queued"]
  /\ UNCHANGED <<loop, active, handler, notified, presses>>

(* CTRL+C once the handler is installed: heard by an armed future or by none.*)
CtrlC ==
  /\ handler /\ loop # "exited"
  /\ presses' = 1 - presses
  /\ notified' = (notified \/ loop = "select")
  /\ UNCHANGED <<conn, loop, active, handler>>

(* CTRL+C before that kills the process: the operating system's default. *)
CtrlCKills ==
  /\ ~handler /\ loop # "exited"
  /\ presses' = 1 - presses
  /\ loop' = "exited"
  /\ conn' = [c \in Conns |-> IF conn[c] \in {"counted", "running", "finishing"}
                              THEN "cancelled" ELSE conn[c]]
  /\ UNCHANGED <<active, handler, notified>>

-----------------------------------------------------------------------------
(* The accept loop.                                                        *)

(* select! polls shutdown_signal(): the future starts to listen. *)
Arm ==
  /\ loop = "enter"
  /\ loop' = "select"
  /\ handler' = TRUE
  /\ notified' = FALSE
  /\ UNCHANGED <<conn, active, presses>>

(* The accept branch wins; the ctrl_c future, if any, is dropped. *)
Accept(c) ==
  /\ loop \in {"enter", "select"} /\ conn[c] = "queued"
  /\ conn' = [conn EXCEPT ![c] = "accepted"]
  /\ loop' = "body"
  /\ notified' = FALSE
  /\ UNCHANGED <<active, handler, presses>>

(* accept() fails: `result.context(...)?` returns from main. *)
AcceptError ==
  /\ loop \in {"enter", "select"}
  /\ loop' = "failed"
  /\ notified' = FALSE
  /\ UNCHANGED <<conn, active, handler, presses>>

(* `active.fetch_add(1)`. *)
Count(c) ==
  /\ loop = "body" /\ conn[c] = "accepted"
  /\ active' = active + 1
  /\ conn' = [conn EXCEPT ![c] = "counted"]
  /\ loop' = "spawn"
  /\ UNCHANGED <<handler, notified, presses>>

(* Mutant: the connection is awaited in the loop instead of spawned. *)
SpawnAwaited(c) ==
  /\ loop = "spawn" /\ conn[c] = "counted"
  /\ conn' = [conn EXCEPT ![c] = "running"]
  /\ UNCHANGED <<loop, active, handler, notified, presses>>

(* `tokio::spawn(...)`, then the next iteration. *)
Spawn(c) ==
  /\ loop = "spawn" /\ conn[c] = "counted"
  /\ conn' = [conn EXCEPT ![c] = "running"]
  /\ loop' = "enter"
  /\ UNCHANGED <<active, handler, notified, presses>>

(* Mutant: the shutdown branch lacks its break. *)
ShutdownWithoutBreak ==
  /\ loop = "select" /\ notified
  /\ loop' = "enter"
  /\ UNCHANGED <<conn, active, handler, notified, presses>>

(* The shutdown branch wins: break. *)
Shutdown ==
  /\ loop = "select" /\ notified
  /\ loop' = "stopped"
  /\ UNCHANGED <<conn, active, handler, notified, presses>>

-----------------------------------------------------------------------------
(* The tasks.                                                              *)

(* Mutant: an Err of handle_connection ends the task with `?`. *)
FinishWithQuestionMark(c) ==
  /\ conn[c] = "running" /\ loop # "exited"
  /\ \E r \in {"finishing", "done"} : conn' = [conn EXCEPT ![c] = r]
  /\ UNCHANGED <<loop, active, handler, notified, presses>>

(* handle_connection returns, Ok or Err. *)
Finish(c) ==
  /\ conn[c] = "running" /\ loop # "exited"
  /\ conn' = [conn EXCEPT ![c] = "finishing"]
  /\ UNCHANGED <<loop, active, handler, notified, presses>>

(* `active.fetch_sub(1) - 1`, in the same poll as the return. *)
Uncount(c) ==
  /\ conn[c] = "finishing"
  /\ active' = active - 1
  /\ conn' = [conn EXCEPT ![c] = "done"]
  /\ UNCHANGED <<loop, handler, notified, presses>>

(* main returns; dropping the runtime lets polls in progress end and drops  *)
(* every task that is suspended.                                           *)
Exit ==
  /\ loop \in {"stopped", "failed"} /\ \A c \in Conns : conn[c] # "finishing"
  /\ loop' = "exited"
  /\ conn' = [c \in Conns |-> IF conn[c] = "running" THEN "cancelled" ELSE conn[c]]
  /\ UNCHANGED <<active, handler, notified, presses>>

-----------------------------------------------------------------------------
Main == Arm \/ Shutdown \/ Exit \/ \E c \in Conns : Accept(c) \/ Count(c) \/ Spawn(c)

Next ==
  \/ CtrlC \/ CtrlCKills \/ AcceptError \/ Main
  \/ \E c \in Conns : ClientConnects(c) \/ Finish(c) \/ Uncount(c)

(* main runs whenever it can; so does a task that has nothing to await.    *)
(* Clients, CTRL+C and the length of a connection are unconstrained.       *)
Spec ==
  Init /\ [][Next]_vars /\ WF_vars(Main) /\ \A c \in Conns : WF_vars(Uncount(c))

-----------------------------------------------------------------------------
(* The connections `active` accounts for. *)
Counted == {c \in Conns : conn[c] \in {"counted", "running", "finishing", "cancelled"}}

TypeOK ==
  /\ conn \in [Conns -> ConnStates]
  /\ loop \in {"enter", "select", "body", "spawn", "stopped", "failed", "exited"}
  /\ active \in Nat
  /\ handler \in BOOLEAN /\ notified \in BOOLEAN
  /\ presses \in {0, 1}

(***************************************************************************)
(* "The count is accurate": `active` equals the number of connections that *)
(* were counted and have not been uncounted, at every instant, whatever    *)
(* the order in which loop and tasks run; so the value a task prints,      *)
(* fetch_sub(1) - 1, never underflows.  Tasks cancelled with the runtime   *)
(* stay counted.                                                           *)
(***************************************************************************)
ActiveIsAccurate ==
  /\ active = Cardinality(Counted)
  /\ \A c \in Conns : conn[c] = "finishing" => active >= 1

(***************************************************************************)
(* "CTRL+C received - stop accepting, let existing tasks finish": no       *)
(* connection that was being served is cut off by the shutdown.            *)
(***************************************************************************)
ExistingTasksFinish ==
  [][loop = "stopped" => \A c \in Conns : conn'[c] # "cancelled"]_vars

(***************************************************************************)
(* A single CTRL+C may be lost between two iterations.  What holds: once   *)
(* clients stop connecting, a user who keeps pressing CTRL+C stops the     *)
(* proxy; the accept loop always comes back to listening for the signal.   *)
(***************************************************************************)
CtrlCExitsWhenIdle ==
  <>[](\A c \in Conns : conn[c] # "queued") /\ []<><<CtrlC>>_vars => <>(loop = "exited")

(***************************************************************************)
(* A connection in the listener's queue is served, however long the        *)
(* connections before it last: the loop never waits for a task.            *)
(***************************************************************************)
QueuedIsServed ==
  \A c \in Conns : conn[c] = "queued" ~> conn[c] \in {"running", "finishing", "done"} \/ Stopped
=============================================================================
