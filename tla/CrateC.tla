------------------------------- MODULE CrateC -------------------------------
(***************************************************************************)
(* Crate C as a whole: Connection, with the scan and the checkers of       *)
(* Backends in place of PickSpec and CheckerSpec.  Of Connection's own     *)
(* variables ok and picking say what the checkers' upstreams and the scans *)
(* are doing (Tied); the flags, the picks' results and the two histories   *)
(* are shared.                                                             *)
(***************************************************************************)
EXTENDS Connection, Integers

CONSTANTS N, CounterMod, OverflowChecks, Interval, ProbeTimeout, Modes, MaxSince

VARIABLES counter, pc, start, i, dark,                   \* Balancer's
          mode, probe, timer, answer, verdict, since,    \* Health's
          settled                                        \* Backends'

B == INSTANCE Backends WITH Callers <- Conns

inside == <<counter, pc, start, i, dark, mode, probe, timer, answer, verdict, since,
            settled>>
crateVars == <<vars, inside>>

(* What Config::validate sees to; upstreams are indices of a Vec. *)
CrateConfigured == B!Configured /\ Upstreams = 0 .. N - 1

Tied ==
  /\ ok = [u \in Upstreams |-> B!Works(u)]
  /\ picking = [c \in Conns |-> B!Picking(c)]

(* It stays so. *)
StayTied ==
  /\ ok' = [u \in Upstreams |-> B!Works(u)']
  /\ picking' = [c \in Conns |-> B!Picking(c)']

CrateInit == B!BackInit /\ Tied /\ TasksInit

-----------------------------------------------------------------------------
(* The head is complete: next_healthy draws its ticket. *)
BeginPick(c) == B!Ask(c) /\ EndHead(c) /\ StayTied

(* It scans, and the task goes on with what it returns.  A panic ends the  *)
(* task and its connection; its place is not used again.                   *)
ScanOn(c) ==
  \/ (B!Look(c) \/ B!Crash(c)) /\ UNCHANGED vars
  \/ B!Hand(c) /\ TakeUpstream(c) /\ StayTied
  \/ B!HandNone(c) /\ TakeNone(c) /\ StayTied

(* What a task does beside picking touches nothing that is shared. *)
Quiet(c) ==
  \/ Open(c) \/ Leave(c) \/ Handshake(c) \/ HandshakeFails(c) \/ HeadRefused(c)
  \/ Parsed(c) \/ ParseFails(c) \/ Connected(c) \/ ConnectFails(c)
  \/ HeadSent(c) \/ SendFails(c) \/ Answered(c) \/ TransferEnds(c)

StoreVerdict(u) == B!StoreVerdict(u) /\ UNCHANGED <<connState, everFailed>> /\ StayTied

(* An upstream changes, and the tasks that use it notice. *)
Change(u, m) ==
  /\ B!Change(u, m)
  /\ IF ok[u] = (m = "ok") THEN UNCHANGED <<connState, everFailed>> ELSE Notice(u)
  /\ StayTied

CrateNext ==
  \/ /\ \/ \E c \in Conns : BeginPick(c) \/ ScanOn(c)
        \/ \E u \in Upstreams : StoreVerdict(u) \/ \E m \in Modes : Change(u, m)
        \/ B!Behind /\ UNCHANGED vars
     /\ B!Remember
  \/ \E c \in Conns : Quiet(c) /\ UNCHANGED inside

(* Only safety is claimed of the whole: fairness is Connection's and Health's. *)
CrateSpec == CrateInit /\ [][CrateNext]_crateVars

-----------------------------------------------------------------------------
(***************************************************************************)
(* Scan and checkers may stand where Connection has PickSpec and           *)
(* CheckerSpec, with all three at the same flags at the same time: every   *)
(* step of crate C is one of Connection's or changes nothing it knows of.  *)
(* What was shown of Connection then holds of crate C.                     *)
(***************************************************************************)
ImplementsConnection == Safe

(***************************************************************************)
(* No connection goes on with an upstream that has been failing for longer *)
(* than one sleep of its checker and one probe timeout.                    *)
(***************************************************************************)
PicksAreFresh ==
  [][\A c \in Conns :
       phase[c] = "picking" /\ phase'[c] = "parsing" => B!Fresh(result'[c])]_crateVars

(***************************************************************************)
(* "Returns 503 when all down", with the same bound: no connection is sent *)
(* a 503 if, throughout its pick, some upstream had been working for longer*)
(* than that.                                                              *)
(***************************************************************************)
UnavailableIsEarned ==
  [][\A c \in Conns :
       phase[c] = "picking" /\ phase'[c] = "closed" => settled[c] = {}]_crateVars
=============================================================================
