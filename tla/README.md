# Verification of Rust-training: the reverse proxies and the async guide

TLA+ specifications of the programs in this repository, the TLC configurations
that check them on small instances, and theorems about them checked by TLAPS.
Every definition is translated from the Rust source; `PROJECT.json` ("map") says
which lines it stands for. Paths below are relative to the repository; A, B, C, D
are the four crates of `reverse-proxy/`, and the guide is `async-rust-guide/`.

Run a check with `tlc -workers 2 -config MCProcess.cfg MCProcess`, a proof with
`tlapm ProcessProofs.tla`.

## 1. Inventory

The repository is a course: four reverse proxies, each a level above the one
before it, and a guide to async Rust made of small runnable examples.

| Component | State it keeps | Operations | Hard behaviour | What makes it correct |
|---|---|---|---|---|
| A-D `main.rs`: start-up | none yet | load, acceptor, flags, checkers, balancer, bind | any step may fail; clients queue from the bind on | what validate accepts is usable; a failed start strands nobody |
| A-D `main.rs`: accept loop | listener, `active` counter, one `ctrl_c` future per iteration | accept, count, spawn, uncount, shutdown | tasks end in any order; a signal between two iterations; the runtime dropping tasks | counter accurate; loop never waits for a connection; shutdown |
| A-D `config.rs` | none | parse, validate | 0 and missing values, four copies that differ | accepted configurations are usable |
| C, D `tls.rs` | none after start-up | build acceptor | missing or mismatched files | an owner's key is never replaced by a made-up one |
| A `proxy.rs`: TCP tunnel | two sockets, copy buffers, a timer | connect, copy both ways, time out | half-close, reset, timeout against progress | Ok means complete; life bounded by the two timeouts; always ends |
| B `proxy.rs`: request head and body | `header_buf`, `filled`, sockets | read until blank line, forward, copy | segmentation, boundary at 8192, early close | verdict depends on bytes alone; body complete |
| B `proxy.rs`: connection handler | one task per connection | pick, rewrite, connect, send, pipe | failure at each step | proxy errors are retry-safe |
| B `balancer.rs` | ticket counter | `next` | tickets drawn by many tasks; wrap at 2^w | even rotation |
| B, C `http.rs`, D `build_forwarded_request` | none | parse and rewrite the head | repeated fields, any case, 64 headers | ours once, others untouched |
| C, D `balancer.rs` | ticket counter, shared flags | `next_healthy` | no lock: flags change during a scan; wrap | no steadily healthy upstream missed; wait-free |
| C, D `health.rs` | one flag per upstream | sleep, probe, store | stale verdicts, hung upstreams, timeouts | bounded detection and recovery; verdicts justified |
| C `proxy.rs`: connection handler | one task per connection | TLS, read, pick, rewrite, connect, send, pipe | failure at each step; an upstream dying between pick and connect | proxy errors are retry-safe; connections end |
| D `proxy.rs`: hyper service | one connection, many requests, one link each | handle a request, spawn the upstream connection | streams interleave, are cancelled; upstreams hang, clients break or stall their bodies, with no timeout on either | errors are earned; only failures and stalls hold a request; no link leaks |
| Guide: futures (`01_custom`, `03_how`, `04_state`) | future, waker, timer thread | poll, wake | polls nobody asked for, wakes | woken, completes once, same result |
| Guide: tasks, select, timeout, locks (`00`, `01_async`, `02_tokio`, `03_tokio`, `05`, `07`) | a few tasks | spawn, join, select, abort, lock | cancellation, blocked threads, ties between timers | the printed times and results |
| Guide: channels (`06`, `09`) | bounded queue, sender count | send, recv, drop | full queue, retained sender, reports after a timeout | every message received, receiver ends |
| Guide: sockets (`04_async_io`, `05_tokio_copy`, `08`) | streams | accept, echo, copy | partial reads, who closes first | the echo is complete; the session ends |
| Guide: `02_pin_demo` | none | prints addresses | none | - |

How they interact. `main` starts the process up, accepts a connection, raises
`active` and spawns a task. The task runs the connection handler. In B, C and D the
handler asks the balancer for an upstream and rewrites the request's head; in C and
D the balancer reads the flags which the health checkers, one endless task per
upstream, store. Tasks share nothing else: `active`, the ticket counter and the
flags, all atomics with `Relaxed` ordering. In D the handler hands each request's
upstream connection to a task of its own and never joins it. The guide's examples
are programs of their own.

`PROJECT.json` lists the hazards of this code, each at its line with the
properties that cover it or the reason none does.

## 2. Modules

    PickSpec    (what a pick promises)   <--implements--  Balancer
       |  \                                                  ^ flags
       |   \                                              (any stores)
    Connection  HyperProxy  (handlers of C and D)
       |   /
       |  /
    CheckerSpec (what a flag promises)   <--implements--  Health

    Backends = Balancer + Health, at the same flags
    CrateC   = Connection's tasks + Backends     --implements-->  Connection
    CrateD   = HyperProxy's requests + Backends  --implements-->  HyperProxy

    Server (accept loop)                 <--implements--  Process (A, B, C, D)
    Rewrite (request heads)              <--used by--     LoadBalancer (crate B)
    RequestStream (bytes of a connection of B)
    Tunnel (a connection of A)

    Examples (programs)  -->  Runtime (tokio)  -->  Guide  <--  Futures

`X` has its model-checking module in `MCX` and its proofs in `XProofs`, except that the
proofs about HyperProxy and CrateD are in HyperProofs, CrateC's in ConnectionProofs,
Balancer's in BackendsProofs, Server's in ProcessProofs, and RequestStream's with the
rest of crate B in LoadBalancerProofs. RequestStream's specification is `StreamSpec`, of
`StreamInit` and `StreamNext`, so that both modules of crate B can be reasoned about
together.

Three abstract specifications are the joints. `Balancer` and `Health` each implement
theirs, in the runs and by proof, and `Connection` and `HyperProxy` are built from the
actions of both, so that they need not carry tickets, scans, sleeps or probes. That
what they show holds of the whole does not follow from the two refinements alone,
since a pick and a checker share the flags: it is a theorem for each crate.
`Backends` puts the scan and the timed checkers at the same flags; `CrateC` and `CrateD`
put Backends in the place of PickSpec and CheckerSpec, and implement `Connection`
(`ConnectionRefinement`) and `HyperProxy` (`HyperRefinement`). `Server` is what each of
the four processes does for its clients; that they do is a theorem (`ProcessServes`).

* **Balancer** (C `balancer.rs`, and the flags of `health.rs`). A `fetch_add`, a
  load and a store are one step each; the checkers may store anything between
  any two. `Call` draws the ticket, `LoadHealthy`/`LoadUnhealthy` are an
  iteration of the loop, `GiveUp` its end, `Panic` the overflow of `start + i` in
  a build with overflow checks. `steady` and `dark` are history variables.
  `Relaxed` accesses of distinct atomics may also be reordered against each
  other; next_healthy loads each flag at most once and orders nothing by what
  it sees, so a reordered execution is one in which the stores came at other
  moments, and the stores here come at every moment.
* **PickSpec** (D `balancer.rs`, identical code): a pick begins and later ends,
  with an upstream whose flag is TRUE at that moment, or with None if no flag
  stayed TRUE throughout.
* **Health** (C `health.rs`). One task per upstream: `Wake`, `Connect`, `Write`,
  `Read`, `Timeout`, `Store`. Upstreams change at will between "ok" and the
  ways to fail a probe: "error" (another status), "refusing" (and resetting), "hung",
  "dropping" (packets are lost) and "split" (a 2xx whose status line comes in two
  segments). Time is in ticks; a tick passes only when nobody can act.
* **CheckerSpec** (D `health.rs`, identical code): a store writes a condition the
  upstream was in since the store before.
* **Connection** (C `proxy.rs`, `main.rs`). One action per outcome of each await of
  `handle_connection`; every early return closes the connection with its status
  or without one. `sick` records that the chosen upstream was seen failing
  between the start of the connect and now: without that neither connect nor
  write fails. 431 stands for all three ways of `read_until_headers_end` to fail,
  as it does in the code.
* **Backends** (C and D `balancer.rs` and `health.rs`, the same in both). Balancer's
  actions and Health's, interleaved: the store of a verdict is Balancer's `Store` and
  Health's at once, and every load of a scan is a step apart, so stores and other
  callers come between any two. Two properties that neither part can state, since
  they speak of flags read in a scan and of the time since an upstream changed:
  `HandedAreFresh` and `NoneIsEarned`. For the second a history variable, `settled`,
  keeps the upstreams that worked for long enough at every instant since the ticket.
* **CrateC** (crate C as a whole). Balancer's callers are Connection's tasks. The step
  in which a task enters or leaves next_healthy is Backends' and Connection's together
  (`EndHead`, `TakeUpstream`, `TakeNone`); when an upstream changes, the tasks that use it
  notice (`Notice`). Of Connection's variables `ok` and `picking` only restate what the
  parts know, and `Tied` says how. A panic in next_healthy ends the task in the
  middle of its pick. Only safety is claimed of the whole.
* **CrateD** (crate D as a whole), likewise. Here the callers are requests, those of one
  HTTP/2 connection at the same time, and a panic ends the stream's task over HTTP/2
  but the connection's over HTTP/1.1.
* **HyperProxy** (D `proxy.rs`). `ProxyService::handle` runs once per request: at the
  same time for the requests of an HTTP/2 connection, one after the other over
  HTTP/1.1. `Spawned` hands the upstream connection to its own task, the link;
  `Cancel` is hyper dropping `handle` at one of its awaits; `SendFails` is the 502 after
  `send_request`, when the request may have left already. The request's body is
  forwarded as the client sends it and the answer's as the client reads it, so both
  depend on the client: `flow` says whether a request's bodies are "stalled" or
  "broken" on that side, and `ClientFlow` changes it at will while they are under way.
  A link ends when its upstream fails (`sick`) and when the client's body breaks
  (`LinkBreaks`), which `handle` cannot tell apart: both are 502. hyper itself is external:
  that it takes one request at a time over HTTP/1.1, and heeds `connection: close`
  there and drops it over HTTP/2, is built into `BeginHandle` and `ErrorResponse`, and
  nothing is claimed of it.
* **LoadBalancer** (B `proxy.rs`, `balancer.rs`). Many connections around one counter
  that wraps at `Width`; each connection carries a request whose head Rewrite
  transforms.
* **Rewrite** (B and C `http.rs`, D `build_forwarded_request`). A head maps each field
  name to its fields; a field is a value and whether its name was spelled in lower
  case. The names are all that some copy of the code strips or adds, and two that
  none does. The order of fields with different names means nothing in HTTP and
  is left out; of fields with one name it is kept.
* **RequestStream** (B `proxy.rs`; C has the same functions over TLS). The bytes
  of one connection, delivered in pieces of any size.
* **Server** (A `main.rs`; B, C and D have the same loop). `Arm` is the first poll
  of the `ctrl_c` future; until one has been polled in the life of the process,
  CTRL+C kills it (`CtrlCKills`). `Exit` is the end of main: the runtime is dropped
  and with it every suspended task.
* **Process** (A-D `main.rs`, `config.rs`; C, D `tls.rs`). What each main does before the
  loop, as the list of steps still to take; each step may fail, and main returns.
  The configuration file is any that `toml::from_str` accepts. From `EnterLoop` on
  the process takes Server's steps.
* **Tunnel** (A `proxy.rs`). `copy_bidirectional` is tokio's and is modelled from
  its use: read, write, shut down, per direction.
* **Examples** gives each demonstration of the guide as a program (`GuidePrograms`): for
  each task, the points where it waits, starts, sends, locks or ends something, with the
  source's durations. **Runtime** runs any such programs (its constant `Programs`; what a
  program is, `ProgramsAssumption` says, and TLC evaluates it on the guide's) in every
  order tokio could: `main` and
  the futures it polls share one thread, a spawned task takes a free one of
  `workers`, a blocked thread runs nothing else, time moves to the next deadline
  when nobody can step. **Futures** has the poll functions of the hand-written
  futures, their wakers and timer threads, and an executor that may also poll a
  future that nobody woke. **Guide** puts one or the other to work and states what the
  examples' comments claim.

## 3. Runs

| Run | Kind | Shows |
|---|---|---|
| `balancer` | pass | TypeOK, NoSteadyUpstreamMissed, RefinesPick, EveryPickReturns |
| `request` | pass | StreamTypeOK, VerdictIsChunkIndependent, OnlySharedReadIsLost, DecidedRequestIsAnswered |
| `request_body` | violation | "Pipe remaining body", BodyIntact |
| `server` | pass | ActiveIsAccurate, ValidatedMeansUsable, KeyOwnerNeverSelfSigned, FailedStartHadNoClients, QueuedIsServed, CtrlCExitsWhenIdle |
| `server_graceful` | violation | "let existing tasks finish", ExistingTasksFinish |
| `health` | pass | TypeOK, FlagsFollow, FlagsConverge, VerdictsAreJustified |
| `connection` | pass | ProxyErrorsAreRetrySafe, WorkingUpstreamsNeverBlamed, DeadBackendIsAvoided, RequestsEnd |
| `tunnel` | pass | OkMeansComplete, LifeIsBounded, ConnectionEnds |
| `hyper` | pass | ErrorsAreEarned, OnlyFailuresAndStallsHold, AbandonedLinksEnd |
| `loadbalancer` | pass | PicksAreEven, UpstreamSeesOurs, ClientFieldsArrive, ErrorsAreRetrySafe |
| `guide` | pass | TypeOK, ElapsedAsClaimed, ResultsAsClaimed, NoLostWakeup, PollsAsClaimed, EverythingEnds |
| `guide_blocking` | violation | the comments on Mistake 1, BlockingIsSequential |

`server` runs the whole process (Process), so it checks Server's properties where
the start-up can fail too; `server_graceful` runs the accept loop alone. The type
invariants of Server, Tunnel, Connection, HyperProxy and LoadBalancer are proved and
need no run.

`MCCrateC.cfg` and `MCCrateD.cfg` are for the crates as a whole and are not in the table:
the first takes some minutes, the second half an hour. CrateC with one task, two
upstreams, a counter of one bit and all durations 1 has 7.2 million distinct states; TLC
finds ProxyErrorsAreRetrySafe, WorkingUpstreamsNeverBlamed, ImplementsConnection,
PicksAreFresh and UnavailableIsEarned to hold. CrateD with one connection of two
requests, whose bodies stall and break, one upstream and the same durations has 17.5
million; TLC finds ErrorsAreEarned, ImplementsHyperProxy, PicksAreFresh and
UnavailableIsEarned to hold. Both are proved for any numbers and durations; the instances
are there to see that the hypotheses can be met and that the properties can fail: if
`Settled` asked for less time (`since[u] > 0`), TLC shows a 503 that contradicts
UnavailableIsEarned.

Bounds, and why they are enough.

* `balancer`: two callers, three upstreams, a counter of two bits. Two callers
  share the counter; a third only adds tickets another caller could draw. Three
  upstreams are the fewest that do not divide the counter's range, so the wrap
  matters. With two bits half of the tickets are within n of it, so calls end in
  all four ways: an upstream, None, a panic, and both of the first after a wrap
  of the counter.
* `request`: every sequence of at most seven of {x, CR, LF}, buffer of six. A head
  (at least four bytes) may end before, at and after the capacity, hold a false
  start such as CR LF CR CR LF, or be followed by a second blank line or by a
  body. Only the four-byte window and the comparison with the capacity look at
  the stream, so longer heads add nothing.
* `server`: every configuration file with up to `MaxUpstreams` = 2 upstreams, where an
  address parses or not, a number is 0 or 1 and a path is empty or given: all that
  validate and the code after it look at, once a list may be empty, of one or of
  more elements. Three connections, so that one can be queued while one is served
  and one finished.
* `health`: two upstreams (one must not delay the other), interval 2, timeout 1;
  different, so that mixing them up shows. All ways to fail but "error", which the
  checker cannot tell from "split" (`Read` compares with "2xx"). `MaxSince` = 4 is one more than the
  bound Interval + ProbeTimeout; larger values cannot be told apart by the
  properties.
* `connection`: two upstreams, the fewest that can disagree; one connection after
  the other in one slot. Connections only read what they share, so a second slot
  adds no behaviour to the first.
* `tunnel`: three bytes each way through a buffer of two, so that a copy takes
  several rounds. The connect timeout is one tick, the transfer timeout 0 or 2: the
  value that cuts every transfer off at once, and one in which bytes can move between
  ticks.
* `hyper`: one connection with two requests in flight, which is enough for one to
  disturb the other, and one upstream: requests never meet at an upstream, since
  each has a link of its own, and the choice between upstreams is `connection`'s
  subject. The bodies of each request may stall, go on and break in any order. The
  theorems about HyperProxy have no such bound.
* `loadbalancer`: two connections; one sends every head of one field, of a cookie and
  another field, and one field too many, in both spellings. Two upstreams and a
  counter of three values: the rotation is cut short where it wraps, and `MaxPicks`
  = 5 picks reach past the wrap. `MaxHeaders` = 2 stands for 64.
* `guide`: `Many` = 6 of the 10 tasks that are alike; two workers, which is where blocking
  tasks start to overlap (their number is varied for that demonstration only, no
  other task blocks a worker); at most two polls nobody asked for, so that
  DelayedValue can be polled twice more while its thread sleeps.

Deadlock checking is off only where the system really may stop: a client that sends
nothing more (RequestStream), a proxy that has exited (Server, Process), a connection
that is over (Tunnel), picks at their bound (LoadBalancer), an example that has
ended (Guide).

### Fairness

* Balancer: weak fairness of a caller's scan. next_healthy contains no await, a
  thread inside it runs on.
* RequestStream: weak fairness of the reading and of the piping part of the task;
  none of the client.
* Server and Process: weak fairness of `main`, in the start-up and in the loop, and of
  a task that has returned from its handler and only has to uncount. None of
  connections (they may last for ever), clients or CTRL+C. QueuedIsServed therefore
  needs no assumption about other connections.
* Health: weak fairness of each checker, of time, and of an upstream's answer in
  the modes that answer.
* Connection: weak fairness of what the task does without the client, of the
  handshake's timeout and of the stores. The awaits there are under a timeout, except
  `upstream.write_all`, which writes at most some 8.5 KB into a fresh connection: that
  fits its send buffer, so the write returns whatever the upstream does.
  Reading the head has no timeout in the code, so "reading" is excepted in
  RequestsEnd.
* HyperProxy: weak fairness of each request as a whole (`RunsOn`): of what `handle` does
  by itself, of the link's task once its request is over, of hyper's noticing that a
  client has gone or that a link has broken, and of an exchange with an upstream that
  works and a client that keeps its bodies moving. An upstream that works accepts,
  takes the request it is sent and answers it. None of an upstream that fails, nor of
  a client that stalls (`flow`), which includes an HTTP/2 stream that waits because
  others have used up the window of the connection: `send_request` and the streaming
  of the answer have no timeout, which is what OnlyFailuresAndStallsHold is about.
* LoadBalancer, Backends, CrateC and CrateD: none, only safety is claimed; what the
  crates' tasks await is Connection's and HyperProxy's.
* Tunnel: weak fairness of time and of the two timeouts only.
* Guide: weak fairness of the runtime as a whole (some task that can step does, or
  time passes), not of a single task: every run of a demonstration is finite. For
  the futures: a woken task is polled, deadlines pass, a sleeping thread goes on.

### What the violation runs show

Each refutes a sentence of the repository; `PROJECT.json` ("findings") quotes it.

1. `request_body`: the end of the head and the start of the body often share a
   segment. `read_until_headers_end` then leaves body bytes in `header_buf`; the
   handler forwards the rewritten head and lets `copy_bidirectional` read on
   from the socket. Those bytes are lost, the upstream waits for the rest of the
   body, and the transfer timeout ends the connection. The neighbouring
   guarantee, OnlySharedReadIsLost, confines the loss to that one read: the upstream
   receives exactly what the client sent after it, and the head ended within it.
2. `server_graceful`: after the loop main returns; `#[tokio::main]` drops the
   runtime and its tasks.
3. `guide_blocking`: the comments of `07_common_mistakes.rs` speak of a single-threaded
   runtime and of two seconds; `#[tokio::main]` has a worker per CPU, and with two
   of them the blocking tasks overlap.

### Where the code and its comments part, without a run

The definitions are in the modules, next to the guarantee that does hold.

* next_healthy may return None although some upstream was healthy at every instant
  (`NoneOnlyIfAllUnhealthy` in Balancer); NoSteadyUpstreamMissed is what holds.
* One read decides a probe, so an upstream whose 2xx answer is cut in two by the
  network is marked unhealthy (`Answers2xxIsHealthy` in Health).
* A failed write of the head, or a transfer that fails or times out before the
  upstream answers, closes the connection without a response (`NoSilentClose` in
  Connection; B and C).
* "Kill connections that are idle/hung too long" (A `proxy.rs:37`): the transfer timeout
  is on the whole transfer and cuts active connections too; LifeIsBounded is what
  holds. 0 is accepted for it and cuts every transfer off at once, as the run
  `tunnel` does with one of its two values.
* "Strip hop-by-hop and anti-spoofing headers" (D `proxy.rs:142`): the list has
  "trailers" (line 145), but the hop-by-hop field is called Trailer, and it is forwarded
  (`EndToEnd` in Rewrite). ClientFieldsArrive claims nothing of that field in crate D,
  neither that it goes nor that it stays.
* A CTRL+C pressed while the accept branch runs is heard by no future
  (`shutdown_signal()` is created anew in every iteration), which is why
  CtrlCExitsWhenIdle asks for repeated presses.
* Without overflow checks, a ticket within n of 2^w makes the scan of next_healthy
  visit one upstream twice and another never, unless n is a power of two: the
  condition `OverflowChecks \/ WrapIsEven \/ NoWrap(c)` in NoSteadyUpstreamMissed. In crate B the
  wrap only cuts a round short: `Extra` in PicksAreEven.
* A 502 of crate D may follow a request that was sent (`SendFails`), so unlike C's it is
  not always safe to retry, and it may come from an upstream that works, when the
  client's own body breaks while it is forwarded (`LinkBreaks`); ErrorsAreEarned says
  what it does mean.
* `07_common_mistakes.rs` says that task 2 waits until task 1 releases the lock; task 2
  may lock first, and ResultsAsClaimed allows both orders.
* `05_tokio_copy.rs` copies both ways with `join!` and passes no end of stream on, unlike
  the `copy_bidirectional` of crate A, whose work its header says it does; its
  session ends when both peers close by themselves.

## 4. Theorems

Proved for every value of the constants that meets the named assumptions: any
numbers of upstreams, callers, connections, streams and requests, any counter
width, buffer, timeouts, amounts of data and request heads.

* **BackendsProofs.** Of Balancer: `TypeCorrect`: every index computed is in range, also
  when the sum wraps. `NeverMissed`: NoSteadyUpstreamMissed. The property speaks of
  finished calls and is not inductive: `IInv` adds what a scan under way has
  passed over (`PassedNotSteady`), that None comes only at the end of the loop
  (`NoneAtTheEnd`), that with overflow checks the sums so far were exact
  (`NoneOverflowed`), and that what is steady is up now (`SteadyIsUp`). That the
  loop then visited every upstream is arithmetic: N consecutive numbers hit every
  residue modulo N (`ScanVisitsAll`, from the uniqueness of the remainder), and still do
  after a wrap that N divides evenly (`ModOfMod`).
  `PickRefinement`: every step is a step of PickSpec or invisible, as long as scans
  visit everything (`ScansCover`: with overflow checks, or with N dividing the
  counter's range, or while no ticket of a scan is within N of the wrap).
  Of Backends: the joint invariant `BackInv` is the conjunction of both parts' own, which
  holds because a step of the whole is a step of each part or leaves its variables
  alone (`StepsOfBalancer`, `StepsOfHealth`), and of `SettledIsSteady`: what has been
  settled throughout a scan has been up throughout it, since a wrong flag is never
  older than the bound of FlagsFollow (`SettledIsUp`). `PartsKeepTheirWord`:
  NoSteadyUpstreamMissed and FlagsFollow hold of the two together. `FreshHands`
  (HandedAreFresh): the flag a scan loads is the only thing it goes by, and that flag is
  wrong only for so long; this needs no `ScansCover`. `NoneNeedsTrouble` (NoneIsEarned):
  a None leaves no upstream steady, hence none settled; this does need it. The lemmas
  `InitIsWord`, `VerdictIsJustified`, `ChangeIsFlipOrNothing` and the two `...TellsNothing`
  say what a proxy sees of each step: PickSpec's and CheckerSpec's actions.
* **ProcessProofs.** Of Server: `TypeCorrect`, and `Accounting`: ActiveIsAccurate. The
  invariant relates the counter to the cardinality of the counted set, which each
  step leaves alone or changes by one element; `active \in Nat` is itself a
  consequence, so the two are proved together. `ProcessServes`: every step of a
  process is a step of Server or leaves its variables alone (ServesAsServer), so what
  holds of Server holds of all four programs; `ProcessCounts` draws that conclusion
  for the count. `KeyOwner`, `NobodyWaits` and `Usable` prove KeyOwnerNeverSelfSigned,
  FailedStartHadNoClients and ValidatedMeansUsable. Their invariant reads off the list
  of steps still to take what main must have done already (`Prepared`), when a
  self-signed certificate can be there (`SelfSignedIsAsked`), and that before the bind
  there are no clients and after it no failures (`NoClientsYet`); `WellFormed` says
  which lists there can be.
* **HealthProofs.** `TypeCorrect`. `CheckerRefinement` (VerdictsAreJustified): Health
  implements CheckerSpec, because each phase of a probe carries its evidence
  (`Justified`): an answer was true when it was given, and a probe can wait only for an
  upstream that fails. `FlagsCatchUp` (FlagsFollow): what is wrong in a probe, or in a
  flag, stems from before the upstream's last change, which is then no older than
  this probe (`ProbeIsRecent`), or this sleep and the probes around it
  (`StaleIsRecent`). The bound is Interval + ProbeTimeout and not one probe more,
  because a probe ends in the step after an answer: no tick comes between.
* **TunnelProofs.** `TypeCorrect`; `OkIsComplete` (OkMeansComplete): a side that is shut has
  ended and its stream has arrived in full (`ShutIsDone`), which no later step undoes,
  and "ok" needs both shut. `BoundedLife` (LifeIsBounded): while the connection lives, its
  age and what is left of the timer add up to at most the timeouts in force so far
  (`AgeAndTimer`), since nothing but the connect sets the timer anew.
* **ConnectionProofs.** Of Connection: `TypeCorrect` (no step after the pick works with a
  None), `RetrySafety` (ProxyErrorsAreRetrySafe) and `BlameIsEarned`
  (WorkingUpstreamsNeverBlamed). The last needs the whole chain: an upstream that never
  failed has its flag up and no checker holds a FALSE for it (`WorkingIsUp`); so every
  pick under way still counts it as steady and cannot end with None
  (`PicksSeeWorking`); and a chosen upstream that can fail a connection has failed
  (`SickIsEarned`).
  Of CrateC: `ConnectionRefinement` (ImplementsConnection). The invariant, `Joined`,
  is BackInv and `Tied`, and needs to know nothing of the tasks. One lemma per action maps
  it to Connection's; what the parts' proofs say of their steps
  comes in through an INSTANCE of BackendsProofs and is not repeated.
  `CrateKeepsItsWord` draws the conclusion: ProxyErrorsAreRetrySafe and
  WorkingUpstreamsNeverBlamed hold of the crate. `FreshPicks` (PicksAreFresh) and
  `UnavailableNeedsTrouble` (UnavailableIsEarned) bound in time, both ways, what
  WorkingUpstreamsNeverBlamed says of upstreams that never failed: no task is sent to
  one that has been failing for longer than a sleep and a probe's timeout, and no client
  gets a 503 while some upstream has been working for longer. All but FreshPicks are
  under `ScansCover`; all assume `CrateConfigured`, which is what `Config::validate` sees
  to: there is an upstream and no duration is 0.
* **HyperProofs.** Of HyperProxy: the same chain for streams, with `BrokenIsEarned` for links
  that broke (their upstream has failed, or their request's body broke) and `Unsent` for
  requests that have no link yet: `ErrorsBlameFailures` (ErrorsAreEarned), whatever the
  clients' bodies do. It is proved of `Safe`, the specification without its fairness,
  and so holds of both `Spec` and what implements it.
  Of CrateD: `HyperRefinement` (ImplementsHyperProxy), `CrateKeepsItsWord` (ErrorsAreEarned
  of the crate), `FreshPicks` and `UnavailableNeedsTrouble`, along the same lines and under
  the same hypotheses as in crate C.
* **LoadBalancerProofs.** `EvenPicks` (PicksAreEven): without the turns of the current round
  and those that wraps gave in addition, all have been picked equally often (`Even`), by
  arithmetic on the remainder of a successor. `FieldsArrive` and `SeesOurs` are facts
  about the rewriting, for every request of every client, of all three copies of
  the code (ClientFieldsArrive, UpstreamSeesOurs). The number of fields is
  stated as the cardinality of the set of places (a name and an index), so that it needs no
  recursion: what the rewriting adds is at most one place per name of ours, what it removes
  only shrinks the set. `ErrorsSafe` (ErrorsAreRetrySafe): what `RetrySafety` says of C, for B.
  Of RequestStream: `StreamTypeCorrect`: the buffer is never overrun.
  `ChunkIndependence`: VerdictIsChunkIndependent, by adding that while reading no
  head ends within the bytes read so far. `SharedReadOnly`: OnlySharedReadIsLost, by
  adding that what the copy has moved is the stretch of the stream that begins where
  the reading stopped (`Copied`), that nothing is moved before the head is complete, and
  that the head ends in the read that brought its last byte, since no earlier read
  held an end of it.
* **GuideProofs.** `NoWakeupIsLost` (NoLostWakeup) and `PollsAreCounted` (PollsAsClaimed) of
  the hand-written futures, under an executor that may poll when it likes. Each future
  needs its own account of what its flags mean at each stage (`FutInv`: `CountdownInv`,
  `DelayedInv`, `TwoStepInv`, `AsyncFnInv`): DelayedValue, for one, is pending only
  while its thread sleeps and will wake the waker of the last poll, or has stored
  and woken. `TypeCorrect` (Guide's TypeOK) is for every well-formed set of programs and
  any number of workers, not for the guide's alone. `RunInv` adds who owns what
  (`Owners`: a lock's holder and whoever runs on a thread are live tasks of the
  program), how many threads are taken (`Threads`) and what a channel holds (`Channels`).

Only model-checked: liveness under fairness (EveryPickReturns,
DecidedRequestIsAnswered, QueuedIsServed, CtrlCExitsWhenIdle, FlagsConverge,
DeadBackendIsAvoided, RequestsEnd, ConnectionEnds, OnlyFailuresAndStallsHold,
AbandonedLinksEnd, EverythingEnds), which TLAPS does not prove; and ElapsedAsClaimed
and ResultsAsClaimed, statements about the guide's own programs, whose runs are finite and
which TLC visits in full.

## 5. What is not modelled

* TLS itself, HTTP parsing (httparse, hyper) and the values of headers.
* `peer_addr()` failing at the start of a handler, and logging.
* The thread that waits for a `std::sync::Mutex` (`07_common_mistakes.rs:143`): the lock is
  modelled as a wait that leaves its worker free. No guard is held across an await
  there, which is that demonstration's point, so a lock is free again without anyone
  being scheduled, and its waiter cannot starve the holder.
* A second hop: C and D accept TLS and forward plain HTTP, so they cannot be chained
  with themselves, and chains of different proxies are not looked at.
* Memory, file descriptors and the size of the listen queue, except that an accept
  may fail (`AcceptError`).
* The guide's `02_pin_demo` prints the addresses of values before and after a move: no
  task and no shared state. Of the input and output examples the files on disk and
  the error paths of the sockets are left out, and clients are three.
* The notebook and the HTML guides. `mini-redis-tutorial` and `rust-basics` are empty.

## 6. What is left

* HyperProxy with two connections and two upstreams at once under TLC; the state
  space is large, and the theorems already cover the safety part.
* The guide with an echo server of unboundedly many clients.
