------------------------------ MODULE Examples ------------------------------
(***************************************************************************)
(* The async guide's examples as programs for Runtime: for each task, the  *)
(* points where it waits, starts or ends something, in program order.      *)
(* Durations are the source's, in milliseconds; what a task prints or      *)
(* computes in between is left out.  A program is                          *)
(*   code : the instructions of each task                                  *)
(*   inl  : of a future that is not spawned, the task that polls it        *)
(*   tx   : the senders a task owns                                        *)
(*   rx   : the task that owns each channel's receiver                     *)
(*   cap  : the channels' capacities                                       *)
(*   ret  : what a task returns, if not its name                           *)
(***************************************************************************)
EXTENDS Integers, Sequences, FiniteSets, TLC

CONSTANT Many    \* bound: the tasks of "Spawning many tasks", 10 in the code

ASSUME ManyAssumption == Many \in 1..10

(* Instructions. *)
Sleep(ms) == [op |-> "sleep", ms |-> ms]
Block(ms) == [op |-> "block", ms |-> ms]
Spawn(tasks) == [op |-> "spawn", tasks |-> tasks]
SpawnLast == [op |-> "spawn_last"]
Await(t) == [op |-> "await", task |-> t]
Abort(t) == [op |-> "abort", task |-> t]
JoinAll(tasks) == [op |-> "join", tasks |-> tasks]
Select(tasks, pinned, again) ==
  [op |-> "select", tasks |-> tasks, pinned |-> pinned, again |-> again]
Timeout(ms, t) == [op |-> "timeout", ms |-> ms, tasks |-> <<t>>]
Send(ch, items) == [op |-> "send", ch |-> ch, items |-> items]
SendLast(ch, gone) == [op |-> "send_last", ch |-> ch, gone |-> gone]
Reply(items) == [op |-> "reply", items |-> items]
Recv(ch, closed) == [op |-> "recv", ch |-> ch, closed |-> closed]
Read(ch, closed) == [op |-> "read", ch |-> ch, closed |-> closed]
DropTx(ch) == [op |-> "drop", ch |-> ch]
Lock == [op |-> "lock"]
Unlock == [op |-> "unlock"]
Push(x) == [op |-> "push", x |-> x]
Panic == [op |-> "panic"]
Goto(n) == [op |-> "goto", to |-> n]

Prog(code, inl) ==
  [code |-> code, inl |-> inl, tx |-> <<>>, rx |-> <<>>, cap |-> <<>>, ret |-> <<>>]

InMain(tasks) == [t \in tasks |-> "main"] @@ <<>>

-----------------------------------------------------------------------------
(* 00_why_async *)

SyncCooks == <<Block(3000), Block(4000), Block(2000)>>

SlowWay == Prog([main |-> SyncCooks], <<>>)

AsyncCooks == [toast |-> <<Sleep(3000)>>, water |-> <<Sleep(4000)>>, egg |-> <<Sleep(2000)>>]

FastWay ==
  Prog(AsyncCooks @@ [main |-> <<JoinAll(<<"toast", "water", "egg">>)>>],
       InMain({"toast", "water", "egg"}))

(* 01_async_fn_and_futures *)

Queries == [name |-> <<Sleep(500)>>, age |-> <<Sleep(300)>>]

Lazy ==
  Prog([unused |-> <<Goto(2)>>, hello |-> <<Goto(2)>>, main |-> <<JoinAll(<<"hello">>)>>],
       InMain({"unused", "hello"}))

OneByOne ==
  Prog(Queries @@ [main |-> <<JoinAll(<<"name">>), JoinAll(<<"age">>)>>],
       InMain({"name", "age"}))

BothAtOnce ==
  Prog(Queries @@ [main |-> <<JoinAll(<<"name", "age">>)>>], InMain({"name", "age"}))

(* 02_tokio_spawn_tasks *)

Downloads ==
  Prog([A |-> <<Sleep(3000)>>, B |-> <<Sleep(1000)>>, C |-> <<Sleep(2000)>>,
        main |-> <<Spawn({"A"}), Spawn({"B"}), Spawn({"C"}), Sleep(500),
                   Await("A"), Await("B"), Await("C")>>], <<>>)

Greeting ==
  Prog([task |-> <<Sleep(100)>>, main |-> <<Spawn({"task"}), Await("task")>>], <<>>)

Tenth(i) == <<"t1", "t2", "t3", "t4", "t5", "t6", "t7", "t8", "t9", "t10">>[i]

ManyTasks ==
  Prog([t \in {Tenth(i) : i \in 1..Many} |-> <<Sleep(500)>>] @@
       [main |-> <<Spawn({Tenth(i) : i \in 1..Many})>> \o [i \in 1..Many |-> Await(Tenth(i))]],
       <<>>)

(* 03_tokio_spawn *)

DoWork(ms) == <<Sleep(ms)>>

WorkInTurn ==
  Prog([A |-> DoWork(200), B |-> DoWork(200), main |-> <<JoinAll(<<"A">>), JoinAll(<<"B">>)>>],
       InMain({"A", "B"}))

WorkSpawned ==
  Prog([A |-> DoWork(200), B |-> DoWork(200),
        main |-> <<Spawn({"A"}), Spawn({"B"}), Await("A"), Await("B")>>], <<>>)

WorkJoined ==
  Prog([A |-> DoWork(200), B |-> DoWork(200), main |-> <<JoinAll(<<"A", "B">>)>>],
       InMain({"A", "B"}))

(* The three handles: a value, a panic, an abort. *)
JoinHandles ==
  Prog([fine |-> <<Goto(2)>>, oops |-> <<Panic>>, minute |-> <<Sleep(60000)>>,
        main |-> <<Spawn({"fine"}), Await("fine"), Spawn({"oops"}), Await("oops"),
                   Spawn({"minute"}), Abort("minute"), Await("minute")>>], <<>>)

(* 05_select_and_timeout *)

Servers == [fast |-> <<Sleep(1000)>>, slow |-> <<Sleep(5000)>>]

Database == [database |-> <<Sleep(10000)>>]

Race ==
  Prog(Servers @@ [main |-> <<Select(<<"fast", "slow">>, {}, {})>>], InMain({"fast", "slow"}))

TimeoutBySelect ==
  Prog(Database @@ [timer |-> <<Sleep(2000)>>,
                    main |-> <<Select(<<"database", "timer">>, {}, {})>>],
       InMain({"database", "timer"}))

TimeoutByHelper ==
  Prog(Database @@ [main |-> <<Timeout(2000, "database")>>], InMain({"database"}))

ShutdownLoop ==
  Prog([item |-> <<Sleep(500)>>, shutdown |-> <<Sleep(3000)>>,
        main |-> <<Select(<<"item", "shutdown">>, {"shutdown"}, {"item"})>>],
       InMain({"item", "shutdown"}))

(* 07_common_mistakes *)

Blocking ==
  Prog([A |-> <<Block(1000)>>, B |-> <<Block(1000)>>,
        main |-> <<Spawn({"A"}), Spawn({"B"}), Await("A"), Await("B")>>], <<>>)

(* Mutant: the good way blocks too. *)
YieldingBlocks ==
  Prog([A |-> <<Block(1000)>>, B |-> <<Block(1000)>>,
        main |-> <<Spawn({"A"}), Spawn({"B"}), Await("A"), Await("B")>>], <<>>)

Yielding ==
  Prog([A |-> <<Sleep(1000)>>, B |-> <<Sleep(1000)>>,
        main |-> <<Spawn({"A"}), Spawn({"B"}), Await("A"), Await("B")>>], <<>>)

Forgotten ==
  Prog([unused |-> <<Goto(2)>>, work |-> <<Goto(2)>>, main |-> <<JoinAll(<<"work">>)>>],
       InMain({"unused", "work"}))

StdMutex ==
  Prog([one |-> <<Lock, Push(1), Unlock, Sleep(100)>>,
        two |-> <<Sleep(50), Lock, Push(2), Unlock>>,
        main |-> <<Spawn({"one"}), Spawn({"two"}), Await("one"), Await("two")>>], <<>>)

AsyncMutex ==
  Prog([one |-> <<Lock, Sleep(100), Push(1), Unlock>>,
        two |-> <<Lock, Push(2), Unlock>>,
        main |-> <<Spawn({"one"}), Spawn({"two"}), Await("one"), Await("two")>>], <<>>)

-----------------------------------------------------------------------------
(* 06_channels *)

(* Mutant: main keeps the original sender. *)
WorkersTxKept ==
  [Prog([w1 |-> <<Sleep(300), Send("tx", <<1>>)>>, w2 |-> <<Sleep(600), Send("tx", <<2>>)>>,
         w3 |-> <<Sleep(900), Send("tx", <<3>>)>>,
         main |-> <<Spawn({"w1", "w2", "w3"}), Recv("tx", 4), Goto(2)>>], <<>>)
   EXCEPT !.tx = [main |-> {"tx"}, w1 |-> {"tx"}, w2 |-> {"tx"}, w3 |-> {"tx"}],
          !.rx = [tx |-> "main"], !.cap = [tx |-> 10]]

Workers ==
  [Prog([w1 |-> <<Sleep(300), Send("tx", <<1>>)>>, w2 |-> <<Sleep(600), Send("tx", <<2>>)>>,
         w3 |-> <<Sleep(900), Send("tx", <<3>>)>>,
         main |-> <<Spawn({"w1", "w2", "w3"}), DropTx("tx"), Recv("tx", 5), Goto(3)>>], <<>>)
   EXCEPT !.tx = [main |-> {"tx"}, w1 |-> {"tx"}, w2 |-> {"tx"}, w3 |-> {"tx"}],
          !.rx = [tx |-> "main"], !.cap = [tx |-> 10]]

Oneshot ==
  [Prog([task |-> <<Sleep(500), Send("tx", <<6765>>)>>,
         main |-> <<Spawn({"task"}), Recv("tx", 1)>>], <<>>)
   EXCEPT !.tx = [task |-> {"tx"}],
          !.rx = [tx |-> "main"], !.cap = [tx |-> 1]]

(* A request carries its reply channel: r1, r2, r3. *)
RequestResponse ==
  [Prog([server |-> <<Recv("req", 5), Sleep(200), Reply(<<"hello">>), Goto(1)>>,
         main |-> <<Spawn({"server"}), Send("req", <<"r1">>), Recv("r1", 9),
                    Send("req", <<"r2">>), Recv("r2", 9), Send("req", <<"r3">>), Recv("r3", 9)>>],
        <<>>)
   EXCEPT !.tx = [main |-> {"req"}, server |-> {"r1", "r2", "r3"}],
          !.rx = [req |-> "server", r1 |-> "main", r2 |-> "main", r3 |-> "main"],
          !.cap = [req |-> 10, r1 |-> 1, r2 |-> 1, r3 |-> 1]]

(* 09_full_project: each URL's task, its check, its latency and answer.    *)
Urls ==
  [google |-> <<"check_google", 200, "OK">>, github |-> <<"check_github", 500, "OK">>,
   slow |-> <<"check_slow", 3000, "OK">>, broken |-> <<"check_broken", 100, "FAIL">>,
   rust_lang |-> <<"check_rust_lang", 300, "OK">>, tokio |-> <<"check_tokio", 400, "OK">>,
   dead |-> <<"check_dead", 150, "FAIL">>, crates |-> <<"check_crates", 250, "OK">>]

Url == DOMAIN Urls
Check == {Urls[u][1] : u \in Url}

(* f, given for each URL, as a function of the URL's check. *)
ByCheck(f) == [c \in Check |-> f[CHOOSE u \in Url : Urls[u][1] = c]] @@ <<>>

CheckUrl == ByCheck([u \in Url |-> <<Sleep(Urls[u][2])>>])

(* The spawned tasks, one for each URL, and main's collecting loop. *)
Checking(task) ==
  [Prog(CheckUrl @@ task @@
        [main |-> <<Spawn(Url), DropTx("tx"), Recv("tx", 5), Goto(3)>>],
        ByCheck([u \in Url |-> u]))
   EXCEPT !.tx = [t \in Url \cup {"main"} |-> {"tx"}] @@ <<>>,
          !.rx = [tx |-> "main"], !.cap = [tx |-> Cardinality(Url)],
          !.ret = ByCheck([u \in Url |-> Urls[u][3]])]

(* Mutant: the timeout is around the send as well, so a late result is lost. *)
CheckerNoReport ==
  Checking([u \in Url |-> <<Timeout(1000, Urls[u][1]),
                             IF Urls[u][2] > 1000 THEN Goto(3) ELSE SendLast("tx", 3)>>])

Checker == Checking([u \in Url |-> <<Timeout(1000, Urls[u][1]), SendLast("tx", 3)>>])

(* The summary counts the results by their status. *)
Summary(results) ==
  [s \in {"OK", "FAIL", "timeout"} |-> Cardinality({k \in DOMAIN results : results[k] = s})]

-----------------------------------------------------------------------------
(* 08_tcp_echo_server: a socket is a channel of bytes each way; accept     *)
(* receives the task that will serve the connection.                       *)

Handler(from, to) == <<Read(from, 4), SendLast(to, 4), Goto(1)>>

RunServer ==
  [server |-> <<Recv("listener", 4), SpawnLast, Goto(1)>>,
   h1 |-> Handler("c1", "s1"), h2 |-> Handler("c2", "s2"), h3 |-> Handler("c3", "s3")]

Client(i, handler, to, from, text) ==
  <<Sleep(i * 100), Send("listener", <<handler>>), Send(to, text), Read(from, 5)>>

TestClients ==
  [k1 |-> Client(1, "h1", "c1", "s1", <<"a", "b">>),
   k2 |-> Client(2, "h2", "c2", "s2", <<"c", "d">>),
   k3 |-> Client(3, "h3", "c3", "s3", <<"e", "f">>)]

Sockets(program) ==
  [program EXCEPT
     !.tx = [h1 |-> {"s1"}, h2 |-> {"s2"}, h3 |-> {"s3"},
             k1 |-> {"listener", "c1"}, k2 |-> {"listener", "c2"}, k3 |-> {"listener", "c3"}],
     !.rx = [listener |-> "server", c1 |-> "h1", c2 |-> "h2", c3 |-> "h3",
             s1 |-> "k1", s2 |-> "k2", s3 |-> "k3"],
     !.cap = [ch \in {"listener", "c1", "c2", "c3", "s1", "s2", "s3"} |-> 3]]

Echo ==
  Sockets(Prog(RunServer @@ TestClients @@
               [main |-> <<Spawn({"server"}), Sleep(100), Spawn({"k1", "k2", "k3"}),
                           Await("k1"), Await("k2"), Await("k3"), Sleep(500), Abort("server")>>],
               <<>>))

(* 04_async_io: one read, one response, and the socket is shut down.  main *)
(* here is the accept loop and a client that reads to the end.             *)
EchoOnce ==
  [Prog([server |-> <<Recv("listener", 4), SpawnLast, Goto(1)>>,
         h1 |-> <<Read("c1", 3), Send("s1", <<"head">>), DropTx("s1")>>,
         main |-> <<Spawn({"server"}), Send("listener", <<"h1">>), Send("c1", <<"a", "b">>),
                    Read("s1", 6), Goto(4), Abort("server")>>], <<>>)
   EXCEPT !.tx = [main |-> {"listener", "c1"}, h1 |-> {"s1"}],
          !.rx = [listener |-> "server", c1 |-> "h1", s1 |-> "main"],
          !.cap = [listener |-> 1, c1 |-> 2, s1 |-> 2]]

(* 05_tokio_copy: join! of two io::copy; neither passes an end of stream on,*)
(* the halves are dropped with the task.  Both peers close by themselves.  *)
CopyBoth ==
  [Prog([session |-> <<JoinAll(<<"up", "down">>)>>,
         up |-> <<Read("c", 4), SendLast("u", 4), Goto(1)>>,
         down |-> <<Read("v", 4), SendLast("d", 4), Goto(1)>>,
         peer |-> <<Read("u", 2), Send("v", <<"y">>)>>,
         main |-> <<Spawn({"session", "peer"}), Send("c", <<"x">>), DropTx("c"),
                    Read("d", 5), Await("session"), Await("peer")>>],
        [up |-> "session", down |-> "session"])
   EXCEPT !.tx = [main |-> {"c"}, session |-> {"u", "d"}, peer |-> {"v"}],
          !.rx = [c |-> "session", u |-> "peer", v |-> "session", d |-> "main"],
          !.cap = [c |-> 1, u |-> 1, v |-> 1, d |-> 1]]

-----------------------------------------------------------------------------
GuidePrograms ==
  [none |-> Prog(<<>>, <<>>),
   SlowWay |-> SlowWay, FastWay |-> FastWay, Lazy |-> Lazy,
   OneByOne |-> OneByOne, BothAtOnce |-> BothAtOnce, Downloads |-> Downloads,
   Greeting |-> Greeting, ManyTasks |-> ManyTasks, WorkInTurn |-> WorkInTurn,
   WorkSpawned |-> WorkSpawned, WorkJoined |-> WorkJoined,
   JoinHandles |-> JoinHandles, Race |-> Race,
   TimeoutBySelect |-> TimeoutBySelect, TimeoutByHelper |-> TimeoutByHelper,
   ShutdownLoop |-> ShutdownLoop, Blocking |-> Blocking, Yielding |-> Yielding,
   Forgotten |-> Forgotten, StdMutex |-> StdMutex, AsyncMutex |-> AsyncMutex,
   Workers |-> Workers, Oneshot |-> Oneshot,
   RequestResponse |-> RequestResponse, Checker |-> Checker, Echo |-> Echo,
   EchoOnce |-> EchoOnce, CopyBoth |-> CopyBoth]
=============================================================================
