# A verification of sofa-rpc-node

TLA+ models of the RPC client and server in `lib/`, the TLC runs that check them
on small instances, and proofs of the properties that matter most for instances
of every size. The models are translated from the code; where a document, a
comment or a test says something else, a run shows the difference (section 5).

## 1. The system

A **consumer** of a service asks the **registry** for the addresses of its
providers, hands them to an **address group**, which picks some of them, has the
**connection manager** connect to them, and for each request lets a **load
balancer** choose an address. A **connection** multiplexes calls over one socket
and asks a **circuit breaker**, which judges by the **metrics** of a rolling
window. The **server** accepts sockets, runs methods, and publishes its services
in the registry.

Everything runs in one thread of node.js. What interleaves are the callbacks of
sockets, timers, promises, `process.nextTick` and events; whatever stands after
an `await` finds a state that others may have changed.

| component (source under `lib/`) | state | operations | hard behaviour | what makes it correct |
|---|---|---|---|---|
| metrics (`client/metric`) | buckets of the window, closed flag | update, tick, reset, close | resets and ticks between calls | every call of the last periods counts once |
| circuit breaker (`client/circuit_breaker.js`) | status, time of opening, latest counts | allowRequest, update, tick listener, reset, close | one test at a time; recovery with an old window | probes are spaced, trips rest on fresh evidence, HALF_OPEN ends |
| connection (`client/connection/rpc.js`) | pending calls, timers, socket, closing flags | invoke, response, timeout, error, close, forceClose | each call has four ways to an answer; close() awaits a moving target | every call is answered once; a graceful close drops nobody |
| connection manager (`client/connection_mgr.js`) | map from host to connection | createAndGet, get, close | several callers wait for one connection; late `close` events | the map holds no dead connection, callers get live ones |
| address group and load balancers (`client/address_group.js`, `client/loadbalancer`) | addresses, those in use, weights, faults, pool size | push, connect, retry, window, route, close | results arrive after further pushes; weights and pool change under the router | faults are of addresses in use and are retried, the pool has its size, requests go to connected addresses |
| server (`server`) | sockets, requests, urls published | start, accept, request, idle check, publish, unPublish, close | clients come and go during close(); two sends for one request | requests are answered once, close() ends and leaves nothing |
| ZooKeeper registry (`registry/zk/data_client.js`) | registered urls, subscriptions, nodes in ZooKeeper | register, unRegister, re-register, subscribe, unSubscribe | lost connections and answers, nodes of earlier sessions, concurrent tasks for one path | what is registered is visible, what is not stays out, subscribers are served |
| consumer and client (`client/consumer.js`, `client.js`) | readiness, address group, listener, cache of consumers | createConsumer, _init, listener, invoke, close | close() before, between and after the asynchronous steps of _init(); two consumers or clients that share keys | a closed consumer rests, an open one becomes ready |
| scheduler (`client/scheduler.js`) and the caches of breakers and counters | timer and tasks of the process, counters by key | interval, stop, clear, getInstance, close | users of one key come and go on their own; clear() by one client | who lives is counted and ticked, every counter has an owner, groups are judged last |
| gRPC client (`client/connection/grpc`) | streams, entries, timers, status of each call, session | invoke, events of streams and session, timeout, close, forceClose | headers, trailers, resets, timeouts, GOAWAY and the loss of the session race; call() may throw half-way | replies are whole, a graceful close drops nobody, calls and close() end |
| gRPC server (`server/grpc`) | | send | | seen from its client only |
| registry API, test helper, protobuf loader | | | thin layers over packages | not modelled |

Interactions: connections call their breaker and its counter directly;
counters tell breakers and address groups of each window by the event `next`,
in the order in which the scheduler ticks them; connections tell the manager by
`close`, and close the breaker of their key; the manager answers address groups
by promises; the registry calls listeners, which set the addresses of a
consumer's group; the end of a call updates the counter of that group. The list
of what is hard to test, each at its line, is `hazards` in PROJECT.json.

## 2. The modules

| module | models | how its state and actions correspond to the code |
|---|---|---|
| `HealthCounts` | health_counts.js | errorRate and avgRT as operators |
| `HealthCounter` | rolling_counter.js, health_counter.js | `buckets` is `_buckets`; Record, Roll, Clear, CloseCounter are update, the interval, reset and close |
| `Breaker` | abstract | what a connection is promised of its breaker: status and whether the sleep window is over, without counts and clock |
| `CircuitBreaker` | circuit_breaker.js | extends HealthCounter. `status`, `hc`, `force` are fields and configuration; `openedFor` is the time since `_circuitOpened`. Admit, AdmitTest and Refuse are the three outcomes of allowRequest() |
| `CircuitBreakerHistory` | its users | callers in every order, with a log as history; the refinement of Breaker |
| `RpcCalls` | abstract | what callers of invoke() and close() are promised, by either protocol |
| `RpcConnection` | connection/rpc.js | an INSTANCE of CircuitBreaker plus the calls: `sentReqs`, `timers`, `phase` (how far invoke() has come). One action per callback of the loop |
| `MCRpcConnection` | | RpcConnection with the identity of the single test as history |
| `GrpcConnection` | connection/grpc/index.js, call_stream.js, GRpcResponse of server/grpc | an INSTANCE of Breaker plus, per call, the stream, what the server has served, what the client has heard of it, `mapped` (`_mappedStatusCode`), entry, timer, `phase` and `resultCode`; `session` is the http2 session; `closer` and `waits` are how far each close() has come |
| `ConnectionManager` | connection_mgr.js | `connections` is the map; a connection is its socket and its ready promise; ReadyOk and ReadyFailed are the code after `await conn.ready()` |
| `AddressGroup` | address_group.js, loadbalancer/*.js | fields under their own names; Push is the setter of addressList, Settle what follows an answer of createAndGet(), OnNext the listener of a window, GetConnection the choice for a request |
| `MCAddressGroup` | | pushes and windows for TLC |
| `Scheduler` | scheduler.js, the part of rolling_counter.js and health_counter.js that all counters share | `timer`, `listeners` in order, `cache` of counters by key; Interval, Stop, GetInstance, CloseCounters, ClearAndClose |
| `Client` | client.js, consumer.js, ends of address_group.js, circuit_breaker.js and connection/*.js | extends Scheduler. `phase` is how far `_init()` has come, `group` and `groupClosed` the consumer's group, `holds` who has the counter of its key; one action per step of `_init()`, push, call, close and connection |
| `MCClient` | | who has which client, key and cache key |
| `ZookeeperRegistry` | registry/zk/data_client.js | a request under way stands for the rest of its task; ZooKeeper and its client are external |
| `MCZookeeperRegistry` | | which listener accepts which urls |
| `RpcServer` | server/server.js, connection.js, service.js, response.js | one action per callback; `req` is how far a request has come, `close` how far a close(), `pub` how far a publish() |
| `CircuitBreakerProofs`, `RpcConnectionProofs`, `GrpcConnectionProofs`, `ConnectionManagerProofs`, `AddressGroupProofs`, `ClientProofs`, `ZookeeperRegistryProofs`, `RpcServerProofs` | | theorems (section 6) |

Composition:

* RpcConnection contains the whole CircuitBreaker with its counter.
  GrpcConnection contains Breaker, which CircuitBreaker implements (run
  `circuit_breaker`, theorem CircuitImplementsBreaker), so that its state stays
  small enough for streams and sessions.
* Both connections implement RpcCalls, which is what ConnectionManager, Client
  and a caller may rely on.
* Client is built on Scheduler: consumers, groups and connections of several
  clients act on the one list of tasks and the one cache.
* The other modules see each other through an interface: ConnectionManager sees
  of a connection its socket and its promise, AddressGroup sees of the manager
  an entry per host, Client sees of a group how far it has come and of a
  connection whether it is up, Client and RpcServer see of the registry that it
  calls listeners and holds a set of urls, which is what ZookeeperRegistry shows.

Definitions described as a *variant* (or named for what they leave out, such as
`HandleCloseSilently`) are not part of any specification. Each is the code with
a plausible mistake; put in the place of the definition after it, it breaks a
property, which shows that the property depends on that piece of code.

### How the event loop is modelled

`Quiet` says that neither the `nextTick` queue nor continuations of settled
promises are left. Events of sockets and timers require it; calls of the users
(invoke, close, createAndGet) do not, as users act from continuations, too. In
AddressGroup all that follows synchronously from one event is one step. In
RpcServer and ZookeeperRegistry the continuation of an answer is part of the
answer. In Client the steps of `_init()`, the setImmediate() and the callback of
ready() are actions of their own, between which anything may happen. Timers may
be late everywhere.

### How http2 is modelled

It is external. A stream is open until one side ends or resets it, and its
`close` comes later; in between the `error` of a reset may come. What the server
sends arrives in order: headers, message, trailers, end. A reset with an error
cuts it off at any point. So does an end without one: the stream is ended, or
reset with NGHTTP2_NO_ERROR, before all of it was sent. The client sees either as
`end`, then as a `close` with an rstCode of 0 (state `ended`), for which
`_handleClose` goes by the status of the headers. A session that goes down resets
its streams, with an error unless it is lost after a GOAWAY, and emits its own
`close` after theirs; after a GOAWAY it takes no new streams and is gone once the
others are. A stream that cannot be made, or a message that cannot be encoded, makes
call() throw, before or after the stream is there.

## 3. The runs

| run | question | instance and bounds |
|---|---|---|
| `circuit_breaker` | Do status and window fit together in every order of asking, answering, ticking, resetting, closing and forcing, and does the breaker implement Breaker? | window of 2 buckets, threshold of 2 calls, sleep window of 2; 3 calls in the log, 4 ticks: enough to fill a window, roll a bucket out of it, trip, test, recover and trip again |
| `connection` | Is every call registered, timed and answered once, does a graceful close drop nobody, does the connection implement RpcCalls, and do calls, close() and HALF_OPEN end? | 2 calls at a time, 1 user who closes besides the connect timeout, the circuit forced open or not, sleep window 0; `MaxWindow` 2 calls recorded or under way, as one call already trips the circuit. More calls and closers are covered by the theorems |
| `connection_test` | Does HALF_OPEN wait for its single test? No. | 2 calls, 3 recorded |
| `grpc` | Are replies whole, does a graceful close drop nobody, does the connection implement RpcCalls, and do calls, close() and HALF_OPEN end? | 1 call after the other, 2 users who close, each of whom may be the connect timeout. Streams interact only through the session, the breaker and close(); for several at once there are the theorems, which hold for any number |
| `client` | Are counters ticked, owned and judged in order, are users counted, do closed consumers rest and the others become ready? | 2 clients to one host; 2 cached consumers of one service with a registry, 1 of the same service without; 2 connections, so that an old one and a new one, or two clients, share a breaker |
| `pool` | Are answers fresh, waiters answered? | 1 host, 2 callers, 3 connections: an old one, its successor and one more; hosts do not interact |
| `group` | Are faults of addresses in use, is the pool filled, are bad addresses replaced, do requests reach connected addresses, are faults retried, does the group become ready? | 3 addresses, pushed in full, two of them, or none; the pool is elastic from 2 addresses on, with 1 or 2 of them, so that there are spares; weights 0 to 3; windows that are empty, good or bad |
| `group_guard` | Does the guard against an avalanche hold? No. | 5 addresses, 4 of them in use: too many can be degraded while there is a spare |
| `group_recovery` | Does a good window raise a lowered weight? No. | 2 addresses |
| `server` | Are requests answered once, do silent connections and close() end, does close() leave neither connection nor registration? | 2 connections, 1 request (requests do not interact), 2 calls of close(), 1 of publish(); maxIdleTime and timeout are one step of the clock |
| `registry` | Are registrations visible and removals final across reconnects, and are subscribers served? | 1 url, 2 listeners, 3 requests under way, 1 setImmediate: two tasks of one path can overlap with a subscription, before, during and after a loss of the connection |
| `registry_filter` | Are listeners told only what their config accepts? No. | 2 listeners, one of which accepts nothing |

The bounds are constants (`MaxWindow`, `MaxCalls`, `MaxPeriod`, `MaxRequests`,
`MaxImmediates`, `MaxPublishes`) that appear in guards only; Client and
GrpcConnection need none. A member of `Req` or of `Conn` in the connections,
ConnectionManager and Client stands for one call or connection at a time and is
used again, so that histories are not bounded there.

What the properties say is written above each of them in its module. Those that
hold unless something happens name it, and there the code does not do better:

* SubscribersAreServed and SubscriptionLives: except after a failed mkdirp;
* WaitersAreAnswered: except for connections closed while they connect;
* AvalancheGuardedWithoutSpares: except when refresh() does something;
* ClosedIsUnpublished: for one call of publish(). A second one has a new url (it
  contains the time) and `publishUrl` forgets the first;
* RepliesAreWhole: a success may come without its message if the answer was
  broken off without an error after headers of status 200. `_handleClose` looks
  at the rstCode and at the status, not at what has come (call_stream.js:183-207),
  and call() decodes nothing if there is no data (126). No document says what a
  caller should be told then; an answer that was broken off with an error, by a
  timeout or by close() is never a success;
* CloseEnds of GrpcConnection: except after call() has thrown for some call.
  The rejected promise makes close() reject, or the entry without a stream makes
  `_cleanRequest` throw, and the session lives on;
* HalfOpenEnds of GrpcConnection: if the test is under way. A test whose call()
  throws is never reported;
* CountersAreTicked: except for counters that were there when a client called
  clear(), which stops those of all clients of the process;
* CountersAreOwned and GroupsFireLast: except for a counter that the end of a
  call makes after its consumer was closed: nobody closes it, and it is ticked
  before the others;
* UsersAreCounted: until another user of the key closes the counter;
* ClosedConsumersRest: for consumers closed once they had their addresses. One
  that is closed earlier makes its group and subscribes all the same.

## 4. Fairness

* `RpcConnection` and `GrpcConnection`: continuations and ticks run (WF);
  timers, the connect timeout and the `close` of a socket, stream or session
  that is due are handled (SF, because they wait for Quiet, which comes and
  goes); and `[]<>Quiet`: callers do not invoke refused calls from their
  continuations for ever, which would starve the loop. No fairness for the
  server: responses, headers and trailers may never come, and nothing has to
  connect. GrpcConnection assumes none for SessionDrained either: no property
  needs a drained session to go.
* `ConnectionManager`: continuations run (WF); connecting ends, at the latest by
  its timeout, and a destroyed socket emits `close` (SF).
* `AddressGroup`: createAndGet() answers, which is WaitersAreAnswered of the
  manager, and the retry timer fires (WF). The first is stated by what Settle
  does to its address (`Settled`), not by the action: it is implied by the weak
  fairness of Settle, and evaluated faster.
* `Client`: ticks, immediates and the ready of a group run, and the registry
  becomes ready and has a list for its subscribers (WF), as SubscribersAreServed
  of ZookeeperRegistry and GroupBecomesReady of AddressGroup show.
* `ZookeeperRegistry`: ZooKeeper answers on a connection that stays, and its
  client runs its callbacks (WF).
* `RpcServer`: time passes, intervals fire, destroyed streams emit `close`, and
  the registry answers and notifies (WF). Nothing is assumed of clients, methods
  or the encoder.

## 5. What the runs found

| run | where | what |
|---|---|---|
| `connection_test` | circuit_breaker.js:108-121 | the answer of any call, one issued before the circuit opened included, ends HALF_OPEN while the single test is out |
| `group_guard` | address_group.js:286-287 | the guard switches regulation off, and the refresh() it calls switches it on again when there are spare addresses |
| `group_recovery` | address_group.js:250 | a weight of 0 is restored by multiplication, so it stays 0 |
| `registry_filter` | data_client.js:114-130 | all listeners of an interface get the list filtered by the config of the first |

## 6. The proofs

TLAPS checks them with SMT, Zenon and, for the last temporal step, LS4. The
theorems hold for every value of the constants that satisfies the named
assumptions of the modules. Each proof module has an invariant (`IInv`, or one
of its name), the lemmas that the initial states have it and that every action
keeps it, and the theorems that follow.

Liveness itself is out of the prover's reach, but half of it is not: that
whoever waits has something to wait for. For each kind of waiting an invariant
says what event or continuation is due, so that all that is left to fairness is
that what is due comes. These theorems are named below as safety halves of the
properties that TLC checks.

* `CircuitBreakerProofs` (from NumBucketsAssumption, RTsAssumption,
  ThresholdAssumption, SleepWindowAssumption, ForceModesAssumption):
  **TypeCorrect**, by the operations of the counter first; **StatusAgrees**,
  status and time of opening agree; **TrippedHasCounts**, a circuit that is not
  closed has counts, so that building the message of a refusal throws only when
  the circuit is forced open; **CircuitImplementsBreaker**, the refinement of
  Breaker, with whatever modes are forced.

  The rest of the module is about the breaker with its history, for logs of any
  length. The history only watches (HistoryWatches: `MCSpec => Spec`).
  **WindowIsExact** says of a window of any size that it counts exactly the
  results of the last periods. Its invariant is that each bucket holds what
  the log has of one period (BucketsHoldLog), kept by every operation of the
  counter; that the counts of the window add up rests on lemmas about sums over
  finite sets. There the sum of the community modules is known by its recursion
  only, which takes the elements in an order of its own, so that what it does
  not depend on is shown by a smallest exception (SmallestException).
  **TripsAreFresh**: a circuit trips only on enough results since its recovery,
  as the log, which a recovery empties, has no more than were reported since
  (LogIsFresh). **TestsAreSpaced**: between two tests there is a whole sleep
  window, as an open circuit opened no earlier than its last test
  (OpenedSinceTest).
* `RpcConnectionProofs` (BreakerAssumption, on the breaker's parameters, for what
  is said of the breaker only):
  **PendingCallsAreTimed** is inductive by itself. **CloseWaitsForPendingCalls**
  is not: the invariant adds that the owed calls are pending and every close()
  that has not gone on awaits them all (OwedIsAwaited), and that a socket
  destroyed without force was destroyed by a close() that owed nothing
  (DestroyedForAReason). **ConnectionImplementsCalls** is the refinement: each
  step is a step of RpcCalls or a stutter under `callSeen` and `linkSeen`. The two
  components compose by **BreakerIsUsedAsOffered**: `Spec => CB!Spec`, so that
  what CircuitBreakerProofs shows of a breaker holds of that of a connection.
  **TypeCorrect** and **RefusalsThrowOnlyWhenForced** make use of it: a refusal
  throws, and leaves its entry behind, only if the circuit is forced open,
  because one that has tripped has counts to print. **ConnectionImplementsBreaker**
  takes the refinement of Breaker along: `Spec => CB!ImplementsBreaker`.
  **HalfOpenAlwaysHasACall** is the safety half of HalfOpenEnds: some call has
  yet to report to the breaker, with its timer armed if it is pending.
  **ClosersNeverHang** is that of CloseEnds (ClosersGoOn).
* `GrpcConnectionProofs` (no assumptions): **WaitingCallsAreTracked**;
  **HandedRepliesAreWhole**, for which the invariant says that a mapped status OK
  was served as a reply and heard in its headers, and that a call that waits has
  not timed out (StreamsTellTheTruth); that a stream which ended without an error
  has its trailers is not among it, as the code does not see to that; **CloseWaitsForPendingCalls**, by OwedIsAwaited as
  above and by what can have brought the session down (DownForAReason,
  DrainsForAReason); **GrpcConnectionImplementsCalls**, for which a session that
  is closed must have no stream left (ClosedHasNoStreams), so that none of its
  calls waits; **BreakerIsUsedAsOffered**, the same composition with the abstract
  Breaker; **TypeCorrect**. **ClosersNeverHang** is the safety half of CloseEnds:
  a close() waits for calls that will answer or have thrown (Awaited), then for a
  session whose streams have been found and closed (OpenStreamsAreFound).
  **OnlyRejectionsLoseTests** is that of HalfOpenEnds, with its limit: here the
  circuit may be left in HALF_OPEN for nobody, but only by a call() that throws.
* `ConnectionManagerProofs` (NoneAssumption): **TypeCorrect**, **EntriesAreLive**,
  **FailuresAreForgotten**, **AnswersAreFresh**. An entry that never came up is
  deleted by whoever waits for it, so the invariant says that somebody does
  (EntryIsAwaited); an answer is fresh because no `close` is handled between the
  settling of a promise and its continuations (SettledIsFresh).
  **WaitersNeverHang** is the safety half of WaitersAreAnswered: a promise that
  is pending is that of a socket that connects, or of one that was closed while
  it did (PendingIsConnecting).
* `AddressGroupProofs` (WeightsAssumption, PoolAssumption, InputsAssumption,
  SwitchesAssumption, LoadBalancerAssumption): **TypeCorrect**,
  **FaultsStayInUse**, **PoolStaysFilled**, **RoutesReachConnected**,
  **AvalancheIsGuarded** (if regulation is effective; if not, the weights are
  not looked at), **BadAddressesAreReplaced**. The invariant speaks of the group
  as a record: its lists are injective, weights and faults are of addresses in
  use (GroupOK), and the pool has its size (Filled). Every operation of the code
  is an operator on such records, so that each has one lemma, and a step of
  Next is a composition of them. That the pool is filled from the two ends of a
  stack without doubling an address rests on lemmas about sequences, by the rank
  of an element among those of a set; that round robin comes upon a connected
  address rests on the least step of its cycle at which one is met.
  **GroupNeverHangs** is the safety half of GroupBecomesReady and
  FaultsAreRetried. Its invariant (WaitsGoOn) says what ready() and the retry
  loop wait for, and that all of that is connecting, for which each operation on
  the record must leave alone the connections that others await (Keeps).
  **RecoveryNeedsWeight** draws the exact limit of the finding `group_recovery`:
  if weightRecoverRate is at least 2, a good window gives a connected address
  more weight if and only if it has some.
* `ClientProofs` (UsersHaveKeys): **CountersHaveOwners**, **UsersStayCounted**,
  **ConsumersRest**. The invariant adds that holders live and hold what is
  cached (HoldersLive), that the steps of `_init()` are in order (InOrder), and
  that the cache has one consumer for a key (CacheIsKeyed). **CountersTick**,
  **GroupsAreJudgedLast** and **TypeCorrect** rest on a second invariant (ListOK):
  every key is in the list once, the timer runs as long as there is one, and the
  cached keys are those of the list but for what a clear() has dropped. Its lemmas
  follow the list through a task in front (InFront), one at the end (AtTheEnd) and
  the removal of any set of keys (WithoutFacts, by counting the positions kept).
  **ConsumersNeverHang** is the safety half of ConsumersBecomeReady: the group of
  a consumer that has started has a list or will be told one (StartedIsTold),
  also if it is its second.
* `ZookeeperRegistryProofs` (MatchingAssumption, NullAssumption, UrlAssumption,
  AbsentAssumption):
  **RegistrationsAreVisible**: what is registered is
  either there under the present session or has a request under way that will
  see to it (RegistrationsLast); **UnregisteredProvidersStayGone**: no creation
  is under way for what has left (LeftIsLeft, CreationsFit);
  **SubscriptionsLive**, which is inductive with the types of the state;
  **TypeCorrect**, with the types of what is delivered late (ConsumersOK).
  **SubscribersAreNeverForgotten** is the safety half of SubscribersAreServed: the
  list for a listener that has not been called yet is on its way, or there is
  none yet and a watch will bring it (Informed). It has to tell no entry of
  the map, an entry without a list and a list from one another
  (AbsentAssumption), as the code does.
* `RpcServerProofs` (ServerAssumption): **TypeCorrect**,
  **RequestsAreAnsweredOnce**, **ClosedServerIsQuiet**,
  **ClosedServerIsUnpublished**. The invariant adds that
  the map of connections is complete (MapIsComplete), that every close() that
  has stopped the net server awaits all connections still there
  (ClosersAwaitAll), and that a connection with a request is never new
  (RequestsArrived), so that it cannot open again. ClosedServerIsUnpublished
  assumes MaxPublishes = 1, as the run has it: with one publish() there is one
  registration, and close() knows its url (TargetIsPublished).
  **ClosersNeverHang** is the safety half of CloseEnds: what close() awaits is in
  the map (AwaitedIsPresent), and its 'close' is due. **PublishersNeverHang**: who
  waits to see his url is registered, unless a close() has removed it from under
  him.

TypeCorrect is TypeOK of the component in each of the eight.

Only model-checked:

* all liveness, which is out of the prover's reach, for FairSpec: EveryCallIsAnswered,
  CloseEnds, HalfOpenEnds, ConsumersBecomeReady, WaitersAreAnswered,
  FaultsAreRetried, GroupBecomesReady, SilentIsClosed and SubscribersAreServed.
  PendingCallsAreTimed and WaitingCallsAreTracked are the safety halves of the
  first; SilentIsClosed has none that is worth stating, as every open connection
  has its interval by its type.

Every other property of the passing runs is stated by a theorem.

## 7. What is left out

* Formats: codecs, urls, headers, the text of metadata, the framing of gRPC
  messages, logs, statistics of sizes. What the codes of http and grpc statuses
  come to is modelled for this server: 200 is among the mapped http statuses, so
  the grpc-status in the trailers of a foreign server that answers 200 with a
  failure is not looked at (call_stream.js:167). This server does not answer with
  trailers only either.
* `RpcConnection`, `GrpcConnection`: heartbeat(), which is a call or a ping of its
  own; ready(), which ConnectionManager has. Ids are fresh among the calls under
  way (nextId wraps around at 2^30). Each has one owner per key of the breaker;
  Client has several.
* `GrpcConnection`: the forced modes of the breaker (invoke() then sends or
  refuses always); the resultCode of errors other than timeouts, which the
  consumer sets after the breaker was told; backpressure.
* `Client`: middlewares, requests and contexts; the parsing of serverHost; errors
  of the registry. All counters have one period, as they have by default.
* `AddressGroup`: the offset of round robin is any offset and the ring of the
  consistent hash any address in use; ratios of rates are scaled integers;
  closeAllConnections() of a client whose groups live on. A pushed list has one
  address per host, and each address its own connection; two urls of one host are
  left out. createAndGet() answers with a connection or with none: it rejects, and
  `_connectAll()` with it (address_group.js:158-164), only if the constructor of a
  connection throws. An empty list has nobody to wait for and makes a group
  ready in the step of its push.
* `ZookeeperRegistry`: the consumer's own node (written, never read here),
  close(), and the cluster-client package around it. MCZookeeperRegistry has one
  interface: interfaces share nothing but the session.
* `ZookeeperRegistry` has the failed mkdirp of a subscription (data_client.js:115),
  but nothing is shown of its subscribers: the code leaves them waiting.
* `RpcServer`: one service and one port; addService() over a published service;
  unPublish() by itself, without a close(), so that one that comes before the
  listener has seen its url is left out; of a second publish() nothing is shown;
  the context of a request; the handler of uncaught exceptions; the test client
  that close() closes. An address is not used again before the server has seen
  the close of its connection, the server is neither started nor published while
  it is being closed, and a mere error message can be encoded.
* The gRPC server besides what a stream is answered with: its services and its
  life are those of RpcServer, its sessions are those of http2.
* Not modelled: the registry API (it delegates every call to the data client),
  the test helper and the protobuf loader (no state of the system).

Hazards that no property covers are in PROJECT.json with the reason. Among them:
what `_cleanRequest` lets the breaker count, the newer entry that a late `close`
deletes, and the order of two lists for one listener are behaviour of the models
as of the code, and no document says what should happen instead.

## 8. Plan

Done, in this order: breaker with metrics, bolt connection, pool, address group,
registry, server, scheduler with consumers and clients, gRPC connection with its
abstract breaker; the theorems of each.

What is left, in order:

1. `Keepalive`: client heartbeats against the server's idle check. The property:
   a client that lives is not cut off as idle.
2. An abstract registry that ZookeeperRegistry implements and Client and
   RpcServer use, in the place of the interface described in section 2.
3. A second publish() and addService() in RpcServer.
