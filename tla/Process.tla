------------------------------ MODULE Process -------------------------------
(***************************************************************************)
(* The whole life of a proxy process, crates A to D: main reads and        *)
(* validates config.toml, builds the TLS acceptor (C, D), starts the health*)
(* checkers (C, D), makes the balancer (B, C, D), binds, and enters the    *)
(* accept loop of Server.  Any step may fail, and main then returns Err    *)
(* (`?`); CTRL+C before the loop kills the process.                        *)
(*                                                                         *)
(* A configuration is what the checks tell apart: an address parses or not,*)
(* a number of seconds is zero or not, a path is empty or not.             *)
(***************************************************************************)
EXTENDS Server, Sequences

CONSTANT MaxUpstreams    \* bound on the upstreams of a configuration file

ASSUME MaxUpstreamsAssumption == MaxUpstreams \in Nat \ {0}

VARIABLES crate,      \* which of the four programs runs
          file,       \* what its config.toml says
          todo,       \* the start-up steps main still has to take
          outcome,    \* "starting", "up" or "quit"
          listening,  \* is the listener bound?
          acceptor,   \* whose certificate the TLS acceptor presents
          nflags,     \* length of the health flags
          checkers,   \* the upstreams (by index) that have a checker
          pool        \* the balancer's upstreams

startVars == <<crate, file, todo, outcome, listening, acceptor, nflags, checkers, pool>>
procVars == <<vars, startVars>>

-----------------------------------------------------------------------------
(* Configuration files that toml::from_str accepts.                        *)

Addr == {"ok", "bad"}
Path == {"empty", "given"}
UpstreamLists == UNION {[1..n -> Addr] : n \in 0..MaxUpstreams}
NoTls == [cert |-> "empty", key |-> "empty"]
NoHealth == [interval |-> 1, probe |-> 1]

FileA == [listen : Addr, ups : [1..1 -> Addr], connect : 0..1,
          tls : {NoTls}, health : {NoHealth}]
FileB == [listen : Addr, ups : UpstreamLists, connect : 0..1,
          tls : {NoTls}, health : {NoHealth}]
FileC == [listen : Addr, ups : UpstreamLists, connect : 0..1,
          tls : [cert : Path, key : Path], health : [interval : 0..1, probe : 0..1]]
FileD == FileC

-----------------------------------------------------------------------------
(* Config::validate, copy by copy.                                         *)

ValidA(f) == f.listen = "ok" /\ f.ups[1] = "ok" /\ f.connect > 0

ValidB(f) ==
  /\ f.listen = "ok" /\ f.ups # <<>> /\ \A i \in DOMAIN f.ups : f.ups[i] = "ok"
  /\ f.connect > 0

(* Mutant: the addresses are not tried. *)
ValidCUnparsed(f) ==
  /\ f.ups # <<>>
  /\ f.health.interval > 0 /\ f.health.probe > 0 /\ f.connect > 0
  /\ (f.tls.cert = "empty") = (f.tls.key = "empty")

(* Mutant: the last match is missing. *)
ValidCWithoutMatch(f) ==
  ValidB(f) /\ f.health.interval > 0 /\ f.health.probe > 0

ValidC(f) ==
  /\ f.listen = "ok" /\ f.ups # <<>> /\ \A i \in DOMAIN f.ups : f.ups[i] = "ok"
  /\ f.health.interval > 0 /\ f.health.probe > 0 /\ f.connect > 0
  /\ (f.tls.cert = "empty") = (f.tls.key = "empty")

ValidD(f) == ValidC(f)

Valid == CASE crate = "A" -> ValidA(file) [] crate = "B" -> ValidB(file)
           [] crate = "C" -> ValidC(file) [] crate = "D" -> ValidD(file)

(* listen_socket_addr and upstream_socket_addrs parse again, and unwrap. *)
Unwraps(addrs) == \A i \in DOMAIN addrs : addrs[i] = "ok"

-----------------------------------------------------------------------------
(* build_acceptor: the certificate and key it ends up with, or "none".     *)

CertFiles == {"missing", "malformed", "no certificate", "certificate"}
KeyFiles == {"missing", "malformed", "no key", "key", "another key"}

(* load_pem: both files open and parse, and there is a private key. *)
LoadsC(certFile, keyFile) ==
  certFile \in {"no certificate", "certificate"} /\ keyFile \in {"key", "another key"}

LoadsD(certFile, keyFile) == LoadsC(certFile, keyFile)

(* Only cert_path is looked at; with_single_cert checks that the two fit. *)
BuildC(f, certFile, keyFile) ==
  IF f.tls.cert = "empty" THEN "self-signed"
  ELSE IF LoadsC(certFile, keyFile) /\ certFile = "certificate" /\ keyFile = "key"
       THEN "owner's" ELSE "none"

BuildD(f, certFile, keyFile) ==
  IF f.tls.cert = "empty" THEN "self-signed"
  ELSE IF LoadsD(certFile, keyFile) /\ certFile = "certificate" /\ keyFile = "key"
       THEN "owner's" ELSE "none"

Build(certFile, keyFile) ==
  IF crate = "C" THEN BuildC(file, certFile, keyFile) ELSE BuildD(file, certFile, keyFile)

-----------------------------------------------------------------------------
(* The order of the steps in each main. *)
StartUpA == <<"load", "bind", "loop">>

StartUpB == <<"load", "balancer", "bind", "loop">>

(* Mutant: the port is taken before the certificate is known to be usable. *)
StartUpCBindFirst == <<"load", "bind", "acceptor", "flags", "checkers", "balancer", "loop">>

StartUpC == <<"load", "acceptor", "flags", "checkers", "balancer", "bind", "loop">>

StartUpD == <<"load", "acceptor", "flags", "checkers", "balancer", "bind", "loop">>

ProcInit ==
  /\ Init
  /\ \/ crate = "A" /\ file \in FileA /\ todo = StartUpA
     \/ crate = "B" /\ file \in FileB /\ todo = StartUpB
     \/ crate = "C" /\ file \in FileC /\ todo = StartUpC
     \/ crate = "D" /\ file \in FileD /\ todo = StartUpD
  /\ outcome = "starting"
  /\ listening = FALSE
  /\ acceptor = "none"
  /\ nflags = 0
  /\ checkers = {}
  /\ pool = <<>>

(* main is at this step and takes it ... *)
Step(name) ==
  /\ outcome = "starting" /\ loop = "enter" /\ Head(todo) = name
  /\ todo' = Tail(todo)
  /\ UNCHANGED <<vars, crate, file>>

(* ... or main returns Err: the runtime goes, and the checkers with it. *)
EndMain(name) ==
  /\ outcome = "starting" /\ loop = "enter" /\ Head(todo) = name
  /\ outcome' = "quit"
  /\ listening' = FALSE
  /\ checkers' = {}
  /\ UNCHANGED <<vars, crate, file, todo, acceptor, nflags, pool>>

Load == Valid /\ Step("load")
          /\ UNCHANGED <<outcome, listening, acceptor, nflags, checkers, pool>>

(* No file, not TOML, a missing field, or refused by validate. *)
LoadFails == EndMain("load")

BuildAcceptor ==
  /\ Step("acceptor")
  /\ \E c \in CertFiles, k \in KeyFiles :
       Build(c, k) # "none" /\ acceptor' = Build(c, k)
  /\ UNCHANGED <<outcome, listening, nflags, checkers, pool>>

BuildAcceptorFails == EndMain("acceptor")

NewFlags ==
  /\ Step("flags")
  /\ nflags' = Len(file.ups)
  /\ UNCHANGED <<outcome, listening, acceptor, checkers, pool>>

SpawnCheckers ==
  /\ Step("checkers") /\ Unwraps(file.ups)
  /\ checkers' = DOMAIN file.ups
  /\ UNCHANGED <<outcome, listening, acceptor, nflags, pool>>

NewBalancer ==
  /\ Step("balancer") /\ Unwraps(file.ups)
  /\ pool' = file.ups
  /\ UNCHANGED <<outcome, listening, acceptor, nflags, checkers>>

Bind ==
  /\ Step("bind") /\ Unwraps(<<file.listen>>)
  /\ listening' = TRUE
  /\ UNCHANGED <<outcome, acceptor, nflags, checkers, pool>>

(* The port is taken, or not ours to take. *)
BindFails == EndMain("bind")

EnterLoop ==
  /\ Step("loop")
  /\ outcome' = "up"
  /\ UNCHANGED <<listening, acceptor, nflags, checkers, pool>>

StartUp ==
  \/ Load \/ LoadFails \/ BuildAcceptor \/ BuildAcceptorFails
  \/ NewFlags \/ SpawnCheckers \/ NewBalancer \/ Bind \/ BindFails \/ EnterLoop

-----------------------------------------------------------------------------
(* Between bind and the loop the kernel already queues connections. *)
EarlyClient(c) ==
  /\ outcome = "starting" /\ listening
  /\ ClientConnects(c)
  /\ UNCHANGED startVars

KilledEarly ==
  /\ outcome = "starting"
  /\ CtrlCKills
  /\ UNCHANGED startVars

(* The accept loop of each main is Server's. *)
Serve(k) == outcome = "up" /\ crate = k /\ Next /\ UNCHANGED startVars
ServeA == Serve("A")
ServeB == Serve("B")
ServeC == Serve("C")
ServeD == Serve("D")

ProcNext ==
  \/ StartUp \/ KilledEarly
  \/ \E c \in Conns : EarlyClient(c)
  \/ ServeA \/ ServeB \/ ServeC \/ ServeD

(* As in Server; and main does not stop half-way through the start-up. *)
ProcSpec ==
  /\ ProcInit /\ [][ProcNext]_procVars
  /\ WF_procVars(StartUp)
  /\ WF_procVars(outcome = "up" /\ Main /\ UNCHANGED startVars)
  /\ \A c \in Conns : WF_procVars(outcome = "up" /\ Uncount(c) /\ UNCHANGED startVars)

-----------------------------------------------------------------------------
Loaded == todo = <<>> \/ Head(todo) # "load"

(***************************************************************************)
(* What validate promises the code that runs after it.  No unwrap of an    *)
(* address panics; once the proxy is up, the modulus of the balancer and   *)
(* of the flags is not zero and every flag has its upstream and its        *)
(* checker; no timeout or interval that must pass is zero, so a connect or *)
(* a probe has time to succeed and a checker does not spin.                *)
(***************************************************************************)
ValidatedMeansUsable ==
  /\ Loaded => Unwraps(file.ups) /\ Unwraps(<<file.listen>>)
  /\ outcome = "up" =>
       /\ file.ups # <<>> /\ file.connect > 0
       /\ crate # "A" => pool = file.ups
       /\ crate \in {"C", "D"} =>
            /\ nflags = Len(pool) /\ checkers = 1..Len(pool)
            /\ file.health.interval > 0 /\ file.health.probe > 0
            /\ acceptor # "none"

(***************************************************************************)
(* build_acceptor looks at cert_path alone and falls back to a self-signed *)
(* certificate; with validate's rule on the two paths, an owner who names  *)
(* a private key never serves a made-up certificate instead of it.         *)
(***************************************************************************)
KeyOwnerNeverSelfSigned == acceptor = "self-signed" => file.tls.key = "empty"

(***************************************************************************)
(* A start-up that fails costs no client its connection: whatever can fail *)
(* comes before the bind, so nobody was queued when main returned Err.     *)
(***************************************************************************)
FailedStartHadNoClients == outcome = "quit" => \A c \in Conns : conn[c] = "none"

(***************************************************************************)
(* In every crate, a process with its start-up and its end behaves, for its*)
(* connections, as the accept loop of Server allows.                       *)
(***************************************************************************)
ServesAsServer == Init /\ [][Next]_vars
=============================================================================
