------------------------------- MODULE CrateD -------------------------------
(***************************************************************************)
(* Crate D as a whole: HyperProxy, with the scan and the checkers of       *)
(* Backends in place of PickSpec and CheckerSpec; compare CrateC.  The     *)
(* callers of next_healthy are requests here, not connections: those of one*)
(* HTTP/2 connection scan the flags at the same time.                      *)
(***************************************************************************)
EXTENDS HyperProxy

CONSTANTS N, CounterMod, OverflowChecks, Interval, ProbeTimeout, Modes, MaxSince

VARIABLES counter, pc, start, i, dark,                   \* Balancer's
          mode, probe, timer, answer, verdict, since,    \* Health's
          settled                                        \* Backends'

B == INSTANCE Backends WITH Callers <- Streams

inside == <<counter, pc, start, i, dark, mode, probe, timer, answer, verdict, since,
            settled>>
crateVars == <<vars, inside>>

(* What Config::validate sees to; upstreams are indices of a Vec. *)
CrateConfigured == B!Configured /\ Upstreams = 0 .. N - 1

Tied ==
  /\ ok = [u \in Upstreams |-> B!Works(u)]
  /\ picking = [s \in Streams |-> B!Picking(s)]

StayTied ==
  /\ ok' = [u \in Upstreams |-> B!Works(u)']
  /\ picking' = [s \in Streams |-> B!Picking(s)']

CrateInit == B!BackInit /\ Tied /\ TasksInit

-----------------------------------------------------------------------------
BeginPick(s) == B!Ask(s) /\ BeginHandle(s) /\ StayTied

(* A panic in next_healthy ends the task that polls handle: the stream's   *)
(* own over HTTP/2, the connection's over HTTP/1.1.  The request's place is*)
(* not used again.                                                         *)
ScanOn(s) ==
  \/ B!Look(s) /\ UNCHANGED vars
  \/ B!Crash(s) /\ IF conn[ConnOf(s)] = "h1" THEN Leave(ConnOf(s)) ELSE UNCHANGED vars
  \/ B!Hand(s) /\ TakeUpstream(s) /\ StayTied
  \/ B!HandNone(s) /\ TakeNone(s) /\ StayTied

(* What neither picks nor waits for a pick touches nothing that is shared. *)
OnConn(c) == Open(c) \/ Handshake(c) \/ HandshakeFails(c) \/ Leave(c)

Early(s) ==
  \/ Request(s) \/ Built(s) \/ BuildFails(s)
  \/ Connected(s) \/ ConnectFails(s) \/ ClientHandshakeFails(s)

Late(s) ==
  \/ Spawned(s) \/ Answered(s) \/ SendFails(s) \/ BodyEnds(s) \/ BodyBreaks(s)
  \/ Cancel(s) \/ LinkEnds(s) \/ LinkBreaks(s) \/ ClientFlow(s)

StoreVerdict(u) == B!StoreVerdict(u) /\ UNCHANGED <<reqState, conn, everFailed>> /\ StayTied

Change(u, m) ==
  /\ B!Change(u, m)
  /\ IF ok[u] = (m = "ok") THEN UNCHANGED <<reqState, conn, everFailed>> ELSE Notice(u)
  /\ StayTied

CrateNext ==
  \/ /\ \/ \E s \in Streams : BeginPick(s) \/ ScanOn(s)
        \/ \E u \in Upstreams : StoreVerdict(u) \/ \E m \in Modes : Change(u, m)
        \/ B!Behind /\ UNCHANGED vars
     /\ B!Remember
  \/ /\ \/ \E s \in Streams : Early(s) \/ Late(s)
        \/ \E c \in Conns : OnConn(c)
     /\ UNCHANGED inside

CrateSpec == CrateInit /\ [][CrateNext]_crateVars

-----------------------------------------------------------------------------
(***************************************************************************)
(* Every step of crate D is one of HyperProxy's or changes nothing it knows*)
(* of; what was shown of HyperProxy then holds of crate D.                 *)
(***************************************************************************)
ImplementsHyperProxy == Safe

(***************************************************************************)
(* No request goes on with an upstream that has been failing for longer    *)
(* than one sleep of its checker and one probe timeout.                    *)
(***************************************************************************)
PicksAreFresh ==
  [][\A s \in Streams :
       phase[s] = "picking" /\ phase'[s] = "building" => B!Fresh(result'[s])]_crateVars

(***************************************************************************)
(* No request is answered 503 if, throughout its pick, some upstream had   *)
(* been working for longer than that.                                      *)
(***************************************************************************)
UnavailableIsEarned ==
  [][\A s \in Streams :
       phase[s] = "picking" /\ phase'[s] = "free" => settled[s] = {}]_crateVars
=============================================================================
