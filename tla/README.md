# serviceframe in TLA+

`serviceframe` is a C++ framework for the servers of a chat system: a
single-threaded reactor, connections, a directory of servers kept by a daemon,
routing of messages between servers through bridges, and services built on
these (a proxy to database servers, a load balancer, link and chat servers).
Most of the repository's 9000 files are vendored libraries; the framework's own
logic is in `src/core`, `src/server_common` and `src/service`.

## 1. Inventory

| part | where | state | operations | what makes it correct |
|---|---|---|---|---|
| reliable routing, source | `server-lib/ReliableWriter`, `ReliableSendQueue` | per destination: queue of unacknowledged messages, `m_iterNotSent`, reset and urgent flags, sequence number, time of the last ack | `Reset`, `Push`, `Flush`, `Try`, `Ping`, `Erase`, expiry | nothing erased before it was accepted; iterator valid; queue drains |
| reliable routing, destination | `server-lib/ReliableAppContext` | per source: expected sequence number, time of the last reset | `OnSyncRouter`, `DoAckRouter`, `RouteAck` | each session in order, once, no gap |
| bridges and packets | `BRouteWriter`, `BRouteAppContext`, `PacketImp`, `PRouterImp` | none of their own | choose an imbridge, forward | may lose, repeat, reorder |
| server directory | `DaemonClient`, `DaemonServer` | servers by id, ids by suffix and group, id to connection, imrouter counts, routes | add, remove, refresh, ping, dispatch | indexes agree with the server map, and that in the end with the daemon's |
| server selection | `ServerSelectorImp`, `GrpHashServer`, `ConsistentHash*`, `BucketDist_Alg` | hash rings | add, remove, look up | the same key goes to the same live server |
| reactor | `core/sox` | sockets, timers in falls of lists, removed set | select, remove, loop | timers fire once and on time; no event to a removed socket |
| connections | `core/corelib` | connection by id, free ids, to-delete list | create, erase, dispatch by id | an id never names another client's connection |
| threads and queues | `server_common/common` | bounded queues, worker threads | push, pop, stop | bound kept, no task lost |
| configuration, helpers, protocol | `server_common/{config,helper,protocol}` | none | parse, marshal | round trip |
| dao_proxy | `service/dao_proxy` | per DAO address: health, connection; per request: state machine and timer | choose, send, answer, time out, retry | every request ends once; bad servers are avoided |
| imlbsd | `service/imlbsd` | link servers, valid list | add, ping, choose | the list agrees with the flags |
| thrift pool | `service/thrift_conn_pool` | hosts, bad hosts, connections per thread | get, release, recover | bad hosts come back |
| application servers | `service/{app_link_d,app_imchat_d,imlib,deamon}` | external stores | requests | - |

Interaction: a server *emits* through `CReliableWriter::OnRouterEmit`, which
queues the message and dispatches `PSS_SyncRouter` by an imbridge found in the
server directory; bridges forward it to the destination's
`CReliableAppContext::OnSyncRouter`, which hands it to the application's
handler or rejects it, and answers `PSS_AckRouter` by `RouteAck` through a
bridge. `CReliableWriter::OnAckRouter` erases and sends more. A 60 s timer
(`CReliableWriter::handle`) resends the front message, pings, and drops a queue
silent for 7200 s. All this runs in the reactor's thread, so a handler is one
step; the concurrency is that of two processes, the network, restarts and the
timer.

`dao_proxy` stands between the clients of the databases and the DAO servers. A
client's call becomes a `ReqFSM`, which asks `DaoStatManager` for a server that
has the DAO, `DaoConnectionManager` for a connection to it, sends, and waits for
the answer or its timer. Both managers are filled from the configuration, which
an administrator may replace at any time (`adminRequest` 109); the first learns
the DAOs of each server by polling them every few seconds, the second the health
of each address by pinging it. Here too every handler runs in the reactor's
thread; what interleaves are requests, answers, timers, polls, pings and
configurations.

Under all of this lies the reactor: `Selector_epoll` collects events and calls
the handlers of connections, which may close any connection, their own
included; a `SIGALRM` handler advances the clock of its timers. Every server
joins a daemon, on one connection, and is told by it which servers there are;
`DaemonClient` turns that into indexes, routes and connections. Only
`ThreadPool` and the queues of `Stage` run in threads of their own.

The hard behaviours, each at its line, are the `hazards` of `PROJECT.json`.

## 2. Modules

| module | what it is |
|---|---|
| `OrderedDelivery` | abstract specification: what users of reliable routing are promised |
| `ReliableRoute` | source queue, destination, bridges, clock, restarts |
| `ReliableRouteProof` | the inductive invariant of delivery, `OrderInv`; the iterator, the order and the refinement |
| `NoLossProof` | the invariant of the acknowledgements, `IInv`; that nothing is lost silently |
| `DaoHealth` | dao_proxy: bad levels, pings and connections of the addresses |
| `DaoHealthProof` | proofs about `DaoHealth` |
| `DaoProxy` | dao_proxy: the requests, the directory of servers and its index |
| `MCDaoProxy` | three configurations for `DaoProxy` |
| `DaoProxyProof` | proofs about `DaoProxy` |
| `ServerDirectory` | the directory of servers, the daemon, and the connections to servers |
| `MCServerDirectory` | names and groups for `ServerDirectory` |
| `ServerDirectoryProof` | proofs about `ServerDirectory` |
| `Connections` | connections, their two managers, deferred deletion, the loop of the reactor |
| `ConnectionsProof` | proofs about `Connections` |
| `Timers` | abstract specification: plain timers |
| `Countdown` | the timers of the reactor, kept in falls, and the clock that feeds them |
| `MCCountdown` | the first falls of the code for `Countdown` |
| `CountdownProof` | proofs about `Countdown`: types and refinement of `Timers` |
| `TaskPool` | abstract specification: what a pool promises those who give it tasks |
| `ThreadPool` | the bounded queue of tasks, its workers and `stop` |
| `ThreadPoolProof` | proofs about `ThreadPool` |

`OrderedDelivery` is instantiated by `ReliableRoute`, `Timers` by `Countdown`,
`TaskPool` by `ThreadPool`.
`DaoProxy` stands on `DaoHealth` by abstraction, not by `INSTANCE`: it keeps of
each address only whether its level is above 2, lets `HealthChanges` change that
at will, and repeats what the request handlers themselves do to it. In the same
way `Connections` lets any timer of a connection fire at any click, which is what
`Countdown` is about, and `ServerDirectory` keeps of a connection only its id and
whether it will be erased, which is what `Connections` is about.

### ReliableRoute

One source, one destination: queues to different destinations, and
`CWriterInfo`s of different sources, share no state.

- `q` is `CReliableSendQueue`: `isReset`, `urgent`, `currSeq` (`m_uCurrSeqId`),
  `lastAck`, `msgs` (`m_msgQueue`) and `notSent` (`m_iterNotSent`, a position;
  `Dangling` when the element it named was erased). `live` is its presence in
  `m_mapSendQueue`.
- `expect`, `lastReset` are `CWriterInfo`.
- `sync` is a *set* of messages in flight: receiving one leaves it there, so
  duplication and reordering need no action of their own, and `LoseSync` is
  loss. `acks` is a sequence, oldest first; it may be reordered when
  `AckReorder`. It keeps `MaxAcks` of them and loses the oldest beyond that.
- a message carries its session (`sess`), which the code does not transmit: no
  guard reads it, it only files what is delivered under the history `accepted`.
- `EmitFirst`, `EmitNext` are `OnRouterEmit` without and with a queue,
  `Retry`/`ExpireQueue` the two branches of `handle`, `OnAckRouter(i)` the
  arrival of an acknowledgement (`Erase`, then `Flush`), `OnSyncRouter(m)` that
  of a message (`DoAckRouter`, then `RouteAck`).
- `RestartSource`, `RestartDestination` forget the state of one side.
- `emitted`, `accepted`, `dropped`, `session` are history variables.

Definitions whose name says what is wrong with them, marked *mutant* in a
comment, are plausible errors in the code that each property is known to catch;
no specification uses them.

### DaoHealth

- `m_ipinfo` is the map of the same name, an `IPINFO` each: `connectid` is kept
  as none, up, or down (an id the connection factory no longer knows), and
  `last_ping_time` as `age`, the ticks since, counted up to `LateTicks`, where
  an answer is late. `resptime` is left out: it only orders the addresses.
- `pings` are the pings that may still be answered, the last one and older ones:
  an answer is recognised by the time it carries, so older ones are all alike.
- `Tick` is `DaoConnectionTimer::handle_timeout`, one firing each 5 s, for all
  addresses; `PingResp` is `ping_resp`, for the last or an older ping, once or
  repeatedly; `UseConnections` is every call of `get_connection` by polls and
  requests, twice within a handler at most; `RequestTimedOut` is
  `predict_tiny_add_bad_level`; `Reload` is `init_from_conf`.
- `ConnectionLost`, `Die`, `Revive` are the network and the servers, for the
  addresses in `Unreliable`.

### DaoProxy

- `serv_infos` and `dao_index` are those of `DaoStatManager`, with the free
  places (`tick_remain`) and the requests under way (`sending_request`) of each
  DAO; `bad` is what is kept of `DaoConnectionManager`.
- `fsm[r]` is the `ReqFSM` of a request, `timers` the timer container,
  `answered` how many answers the client's connection took.
- `ReqFSM::start` is five actions, one for each way it ends: `Throttled`,
  `NoServer`, `NoConnection`, `SendFails`, `Sent`. `OnResponse` and
  `HandleTimeout` are the two ends of a request that was sent, `PollAnswer` is
  `update_dao_info`, `Reconfigure` is `adminRequest` 109 with what both managers
  and `send_all_empty_dao` do.
- When the client's connection throws in `handle_timeout`,
  `send_resp_thrift_packet` deletes the request and returns; the handler goes on
  with the members of a deleted object. `HandleTimeoutFreed` is the outcome in
  which the server's name is gone and its count stays; in the other one the
  name is still found, which is `HandleTimeout` with an answer not taken. In
  `start` and `onResponse` nothing but a second `end()` follows, of an id the
  container no longer has.
- The container of the ids of requests is not in the repository; an id is taken
  to be never given twice.

### ServerDirectory

- `sid2FavorSV`, `m_mapSuffix2Srvs`, `m_mapImrouterCount`, `m_mapGid2Route`,
  `sid2cid` and `dStart` are the members of those names; the list of ids that
  `m_mapSuffix2Srvs` has of a name is kept as the number of times each is in it; a server is its status,
  of which the code tells only RUNNING from the rest, and `daemonListed` is
  whether the map holds the entry `startSV` makes for the daemon itself.
- `connects` and `toDelete` stand for the connection manager, `link` for a daemon
  at the other end of the connection, `told` for what it has sent on it and is
  not read, `servers` and `isRecord` for what it knows.
- `ReceiveAdd`, `ReceiveRemove`, `ReceiveChange`, `ReceiveList` and `ReceivePing`
  are `onServerAddSV`, `onServerRemoveSV`, `onServersStatusChangeSV`,
  `onServerRegisteredSV`, and `onPing` of `DaemonServer` with the joining it
  leads to; `Ping` is `pingSV` with `startSV`, `CheckDaemon` the 50 s check,
  `Dispatch` every `dispatchByServerIdSV`, `OnRouteNotify` what an imrouter
  announces of one group, `ConnectionLost` and `LazyDelete` the two ways to
  `eraseConnect`.
- The daemon is not in the repository. `ServerStarts`, `ServerStops`,
  `ServerChanges` tell a client that has joined, `TellsAgain` repeats an add
  (the code expects that, `DaemonClient.cpp:151`), `LinkFails` is a crash of the
  daemon or its host that the client does not see.
- Assumed: a server keeps its name and its group (an add under another name is
  "bug bug" in the code, line 154, and leaves the old name's index as it was);
  the lists of the daemon hold neither the daemon nor a server twice; it does
  not announce its own removal. The time a request to the daemon takes is
  folded into the time its answer takes. Addresses are left out: after a list
  with a changed address the old connection is kept.
- Ids of connections are never taken twice here in the code; in the model they
  are, when free, which only makes a stale id worse.

### Connections

- `heap` holds the `InnerConn` objects by address, so that a new object may lie
  where an old one was; `connects`, `freeList` and `toDelete` are the members of
  the managers. `MultiConnManagerImp` ("map") and `MultiConnManagerVecImp`
  ("vec") share the module: `manager` says which it is. `freeList`, a list, is
  kept as a set: any of its ids may be taken.
- `phase`, `pending`, `lazyDue`, `removed` are `Selector_epoll::mainloop`, what it
  has collected from `epoll_wait` and of the timers that fired, the manager's own
  timer of 10 ms, and `m_removed`.
- All of it is one thread, yet a handler is not one action: `Notify` starts it,
  any number of `HandlerStep`s (`DelayDelConn`, sends that throw, dispatches to an
  id that is gone, `eraseConnectById` of others) and `Create`s follow, `Return` or
  `CloseSelf` ends it.
- `eraseConnectById` of the handler's own connection while it runs is left out:
  the code would go on with a deleted object, and no caller in the repository does
  so; `onClose` and the like, which erase it last, are `CloseSelf`.
- `crashed` is a call of a method of a NULL connection, which only the sequence
  `dispatchByIds`, then `dispatchById` or `eraseConnectById` of the same absent id
  reaches. `dispatchByIds` has no caller in the repository: `NoNullCall` is not true
  with it, and is proved without it (`OnlyBroadcastsCrash`).

### Countdown

- `timers[h]` is the `Timeout` of a handler: the fall it lies in and `count`,
  measured from the last look at that fall. `m_elasped` (sic) is the time since
  that look, of each fall.
- `m_elapsed` is that of the `Selector`, advanced by `SigAlrm`; `elapsed` is the
  local of `check_timout_run` between reading and resetting it: the lock around
  the two is empty but on Windows (`selector.h:45`, `55`, `thrlock.h:33`), so a
  `SigAlrm` between `ReadElapsed` and `ClickElapse` or `NothingElapsed` is lost.
- `Select` and `Cancel` are `select_timeout` with and without a time,
  `ClickElapse` is the whole of `click_elapse`: falls are looked at from low to
  high and timers fall only downwards, so each is looked at once and `Fallen`
  needs no recursion. `Notify` calls one handler of those that fired.
- Between notifications other handlers' timers may be selected and cancelled: one
  that has fired is called all the same, as in the code, and `Timers` says so.
- `Timers` knows only the time each timer has left. `Left` maps a timer to
  `count` less what has passed since the last look at its fall.

### ThreadPool

- `m_queue`, `m_bRunning`, `m_vtThread` are the members of those names, `pc` is
  where a worker is in `runInThread`. A critical section is one action unless a
  worker reads `m_bRunning` in it: `stop` clears that flag without the mutex, so
  `FindEmpty`, `Check`, `Wait` are steps, and a worker at "check" or "wait" holds
  the mutex (`Free`). `StopFlag` and `StopNotify` are the two halves of `stop`.
- `PushInline`, `PushRefused`, `Push` are the three ends of `push`; `WakeSpuriously`
  is what a condition variable may do.
- `Destroy` is the destructor of a pool that was stopped. The destructor itself
  does not stop: that of a running pool joins its workers for ever. Nothing in
  the repository includes `ThreadPool.h`; `TMessageQueue` and `Stage` use the
  same protocol, with `>=` for the bound and without `stop`.
- `TaskPool` has neither mutex nor places in the code: tasks wait in one queue, are
  started in its order by idle workers, and a worker starts one task at most after
  the pool is closed. `overtime` there is the set of workers whose `late`, a history
  variable, is not 0; a task is run at once only by a pool without threads.

### Assumptions on the environment of ReliableRoute

Four assumptions under which the safety properties hold. They are constants,
not built in. Each theorem names those it needs: the first two are `Drained`, all
four are `Calm`, and `Tame` is the last one weakened.

| assumption | needed by | why |
|---|---|---|
| `DrainOnRestart`: nothing in flight survives a restart or an expiry | all | sessions reuse sequence numbers and acknowledgements carry no session; run `stale_ack` shows what happens otherwise. In the code an expiry comes after two hours without acknowledgement, and a restart closes the connections |
| `RestartTakesSecond` | all | RESETs are compared by `time()` in seconds: a source that restarts and emits in the same second has its RESET ignored *and acknowledged* (`ReliableAppContext.cpp:83-99`), and then its messages 1, 2, ... are taken for old ones: they are erased unaccepted |
| `~AckReorder` | `NothingLostSilently` | the acknowledgement that rejects data 2 carries the expected id 0, which also means "no expected id"; overtaken by that of data 1, it finds data 2 at the front and the old mode erases it unaccepted |
| `MaxSeq < MaxQueue`: the queue never fills | `NothingLostSilently` | a full queue may discard the RESET; run `overflow` |
| `Tame`: it never fills, or there is one session only | `InOrderOnce`, `ImplementsOrderedDelivery` | a full queue may discard the RESET of a second session, whose data is then taken to continue the first (section 5) |

## 3. Runs

| run | bounds | shows |
|---|---|---|
| `safety` | 2 sessions of 3 messages, one restart on each side, clock to 2, 2 acks in flight, batch 2 | `NothingLostSilently`, `InOrderOnce`, and the refinement of `OrderedDelivery`, under the four assumptions; and that `IInv` of the proofs holds |
| `full` | one session of 3 messages through a queue of 2, urgent above 1, batch 1, acks reordered, one restart of the destination, clock to 2; nothing expires, and a source that restarts sends no more | a queue at its limit still leaves a valid iterator (`NotSentValid`) and delivers no gap *in what it delivers* (`ImplementsOrderedDelivery`); and that `OrderInv` of the proofs holds |
| `live` | `FairSpec`, 3 messages, no restart | `QueueDrains` |
| `overflow` | violation | with a queue of 2 and no restart, `NothingLostSilently` fails: RESET discarded, a rejected message erased by the acknowledgement of its rejection |
| `stale_ack` | violation | with acks that survive the source's restart, `NotSentValid` fails: `m_iterNotSent` dangles |
| `dao_health` | `FairSpec`, 2 addresses, one unreliable, levels 0 to 3, late after 4 ticks, any number of new configurations | `PingScheduled`, `LateMeansBad`, `OnlyPromptAnswersHelp`, `DeadIsFoundOut`, `AliveIsTakenBack` |
| `proxy` | `FairSpec`, 2 requests, one DAO, 2 servers with 3 addresses, 3 configurations in any order and number | `IndexAgrees`, `AddressesKnown`, `NotOvercounted`, `OneAnswer`, `TimerIffWaiting`, `EveryRequestEnds` |
| `proxy_level` | violation | `SentToGoodAddress` fails: a server with one good address gets its requests at the first, bad one |
| `server_directory` | `FairSpec`, 2 imrouters of this server's group, 3 ids of connections, 2 messages of the daemon under way, one fault | `NamedConnections`, `IndexAgrees`, `CountsCover`, `KnowsWhatDaemonKnows`, `CatchesUp` |
| `connections` | `FairSpec`, 3 connections at 2 addresses, both managers | `TableAgrees`, `HandlerOwnsObject`, `RemovedIsExact`, `DisabledIsListed`, `DisabledIsDeleted` |
| `countdown` | `FairSpec`, 2 timers of up to 7 clicks in 3 falls of 0, 2 and 5 clicks, at most 2 clicks between two looks at the clock | `ImplementsTimers`, `TimersFire` |
| `thread_pool` | `FairSpec`, 3 workers, 3 tasks, queue size 1 | `EachTaskAwaited`, `NobodySleepsThroughStop`, `ImplementsTaskPool`, `WorkersLeave`, `TasksAreRun` |

Four runs also check the type invariant of their module; that of the others is
proved, or is part of `IInv`.

Why these bounds are enough to be interesting: three messages with batch 2 and
urgent threshold 3 reach normal and (by an acknowledgement ahead of the front)
urgent mode, batches cut short, cumulative erasure of 1, 2 and 3 elements, and
an erased, kept and passed iterator. With two sessions the destination takes a
second RESET after it knows the source, and numbers that start from 1 again. Old
traffic does not meet the new session: `DrainOnRestart` says that it is gone, and
only `stale_ack` lets an old acknowledgement through. In `safety` the queue never
fills; `full` is for that. `ExpireTime` 0 lets a queue expire after one tick. Deadlock is not
checked in the runs of `ReliableRoute`: a source with nothing to send stops. It
is in all others.

`DaoHealth`: two addresses are the least: with one, every bad level is "all
bad" and no countdown is above two ticks. `MaxBad` 3 is the first bad
level, and its interval, 8 ticks, is above `LateTicks`, as 64 is above 10 in the
code: an answer may be late. The levels above 3 differ in their intervals only,
and in that request timeouts do not reach them; the proofs cover 6 and 10.
`DaoProxy`: the configurations remove a server, move one to another group,
and give an address from one server to another, so that a server is kept,
replaced, dropped and taken up again under a waiting request; two requests can
be counted on the same DAO, and one forgotten by a new configuration while the
other is counted. Servers of one group or address, or more free places than
one, would repeat the same steps.

`ServerDirectory`: two servers of one name and group are the least with which
the count of a group is above one and an index holds more than one id; they can
stop in either order, and a server comes back while its removal is still under
way. Three ids of connections serve the daemon and both servers at once. With
one fault (a broken link, a failed send, or a repeated add) every broken
connection is followed by a complete rejoin; what happens to connections to
servers, and to one of the daemon's that is dead already, is not counted and
happens in any number. Two messages under way suffice for
a change to follow an add, or either to follow a list. The proofs hold for any
number of each. `Connections`: the third connection takes an id and an address
over from one that is gone, while events, the deletion list and the slot of the
first may still name them. `Countdown`: three falls are the bottom, one above it
and one a timer falls from in one or two steps; 7 clicks reach the highest and
more than its measure; a look at the clock may find no, one or two clicks, of
which the first fall passes at once. `ThreadPool`: a queue of size 1, which holds
two, fills while a third task is pushed; three workers can be asleep, on the way
and at work at once.

**Fairness** (`FairSpec`). Weak fairness of `Retry`: the reactor's 60 s timer
fires. Weak fairness of the arrival of acknowledgements. Strong fairness of the
arrival of the queue's front message and of its acknowledgement: each is resent
for ever, and a route that is not down for ever delivers one some day. Nothing
is assumed of the other messages, nor of a particular acknowledgement. Without a
restart only: see section 5. `DaoHealth`: weak fairness of the 5 s timer, and
strong fairness of a ping that is due finding a connection and of the answer to
the last ping of a living server arriving in time: a server that lives but whose
connections fail or whose answers are late for ever is a dead one. `DaoProxy`:
weak fairness of the timer of each request, nothing else. `ServerDirectory`: the
loop reads what has come, the 10 s and 10 ms timers run, and a connection to the
daemon with nobody at its other end is closed in the end; the daemon and the
servers have to do nothing. `CatchesUp` is about the time after the servers have
stopped coming and going. `Connections`: handlers return, the loop goes round,
time passes (strong fairness of `Click`: the loop sees the clock advanced again
and again, though not in every turn). `Countdown`: the loop goes round, and the
alarm goes off again and again outside of the two instructions in which it would
be lost. `ThreadPool`: threads run, tasks return, and a mutex that is free again
and again is given to each thread that waits for it; nobody has to push or stop.

`QueueDrains` is stronger than it looks: after a loss only the front message is
ever resent, so it rests on every acknowledged front message moving the
iterator so that the next is sent.

## 4. Proofs

`ReliableRouteProof`, for all values of the constants satisfying
`ConstantsAssumption`:

- `TypeCorrect`: `Spec => []TypeOK`; `TypeShape` adds the shape of the queue.
- assuming `Drained`: `IteratorValid`: `Spec => []NotSentValid`, whatever order
  acknowledgements arrive in and however full the queue is;
- assuming `Drained` and `Tame`: `InOrder`: `Spec => []InOrderOnce`, and
  `RoutingDelivers`: `Spec => ImplementsOrderedDelivery`;
- in `NoLossProof`, assuming `Calm`: `NoSilentLoss`:
  `Spec => []NothingLostSilently`.

So what the code promises its callers in every case, that a handler sees no gap
and no repetition, does not rest on the route keeping acknowledgements in order
or on the length of the queue; that a message never vanishes does.

None of these properties is inductive. What `Flush` may send next depends on what
the acknowledgements in flight will erase, that on what the destination had
accepted when it sent them, and that on the RESET it took. `OrderInv`
(`OrderInductive`) joins

- `Shape`: the queue holds consecutive ids, the RESET at most at its head;
- `Idle`: without a queue nothing is in flight, and the clock is past the last
  RESET taken (this is where `DrainOnRestart` and `RestartTakesSecond` are used);
- `History`: `InOrderOnce` if `Tame`, and nothing accepted in sessions not yet
  opened; `NoReset`: a destination that took no RESET expects nothing;
- and while a queue lives, `Linked` and `FrontSent`:
  - `Flight`: what is in flight is of this session and was emitted in it;
  - `Opening`: while the RESET heads the queue no data has left the source, the
    destination has accepted nothing, and only RESETs (at id 0) are acknowledged;
  - `Running`: once the RESET has left the queue, the destination expects exactly
    the number it has accepted, and no acknowledgement expects more; a destination
    that took none yet has no RESET of the session coming, or, where a full queue
    dropped it, has accepted nothing;
  - `Pointer`: once the reset is acknowledged the iterator is inside the queue,
    and unless urgent all that was sent or accepted lies before it;
  - `FrontSent`: the iterator is past the front. It is apart from `Linked`
    because between `Erase` and `Flush` it does not hold.

A full queue moves `BaseOf` as an acknowledgement does, but says nothing of what
was accepted; so `OrderInv` does not relate what left the queue to what was
accepted. `IInv` of `NoLossProof` (`Inductive`) adds that relation, `Careful`:

- `Balance`: what left the queue was accepted;
- `Kept`: while the destination knows the source, the expected ids along `acks`
  never decrease (`~AckReorder`), and lie between what left the queue and what
  was accepted; no acknowledgement of a rejection looks like one of the message
  expected next;
- `Orphaned`: a destination that restarted says nothing but SHUTDOWN.

`BaseOf(q) = -1` means the RESET heads the queue; a queue that never fills
(`MaxSeq < MaxQueue`) loses its RESET only to `Erase`.

Run `full` checks `OrderInv` and run `safety` `IInv` on small instances. Each
action has its own lemma in both modules; the temporal theorems combine them.
That `Tame` cannot be dropped TLC shows: with a queue of 2 and two sessions, one
restart of the source and no other fault, `InOrderOnce` fails.

`RoutingDelivers` maps `emitted` to what was sent and `accepted` to what was got.
`EmitFirst` and `EmitNext` are `Emit`, an `OnSyncRouter` that accepts is `Deliver`,
all other steps stutter. Beside `OrderInv` it needs `EmittedInv`: the queue's
`currSeq` counts what was emitted in the session, and later sessions have emitted
nothing, so the number a message gets is the next one of its session.

`DaoHealthProof`, for any addresses, `MaxBad` from 3 to 6 and `LateTicks` of 4 or
more (the code: 6 and 10): `TypeCorrect`, `AlwaysScheduled` (`PingScheduled`),
`LateOnlyWhenBad` (`LateMeansBad`). That a late answer means a bad address is
not inductive: it follows from `Paced`, that the age of a ping that waits for its
answer and the countdown to the next one together do not exceed the interval of
the present level, which is at most 4 ticks for a good one. `IInv` says of each entry that it is `Sound`: its
countdown is between 1 and the interval of its level, and it is paced. Every
operator on an entry has a lemma that it keeps an entry sound, every action is
made of these operators. `OnlyPromptAnswers` (`OnlyPromptAnswersHelp`) follows
from `Sound` with one lemma for each operator, that it makes no level better: only
`PingResp` to the last ping, in time and once, has another branch.

`FoundOutInTime` is what can be proved of `DeadIsFoundOut`, and says more: within
how long. `SilenceSpec` adds to `Spec` a history variable, `silent`, the ticks
since an address was configured or last gave an answer that `ping_resp` rewards
(`Rewarded`); after 8 of them, 40 s, the address is bad (`SilentIsBad`). It
needs no fairness and no dead server: a living one whose answers are always
overtaken by the next ping is found out too. The invariant `SilenceInv` counts
down: `TicksLeft` of a good address, its countdown plus the intervals of the
levels it has still to go through, never exceeds 8 less the ticks of silence.
`TimerIsNearer` is the arithmetic: each interval up to the first bad level is
twice the one before (`Doubles`), so a ping sent at zero, which lengthens the
countdown, takes exactly one tick from what is left; every other handler only
`Worsens` an entry. Eight is the least such bound: a new address that is
never answered is good for the first seven ticks.

`DaoProxyProof`, for any servers, DAOs, finite set of requests and any
configurations `validate_conf_para` accepts: `TypeCorrect`, `DirectoryAgrees`
(`IndexAgrees`), `ManagersAgree` (`AddressesKnown`), `AnsweredOnce` (`OneAnswer`),
`TimersOfWaiting` (`TimerIffWaiting`), `NeverOvercounted` (`NotOvercounted`).
`IInv` has three parts. `Directory`: types, index and addresses. The steps of
requests only count (`Counting`) and so keep it; for poll answers and
configurations `RemovedAgrees` says what the index is once some servers have
left it. `Life`: requests, timers and answers; it needs of `Directory` that the
server chosen is one. The counts need both: in every step the count of a DAO
follows the set of requests under way as that gains (`SentIsCounted`) or loses
(`EndIsCounted`) an element, a new DAO starts at 0 (`StepIsCounted`), and from this
`CountsStep` concludes `NotOvercounted`. The proofs of finite sets are the library's.

Two more theorems say what else would have to hold for more.
`ExactUnlessForgotten`: while no report of a server leaves out a DAO and no
configuration drops its server (`[][~ Forgets]_vars`), the count of every DAO is
exactly the number of requests that wait for it and of those deleted half way
through their timeout; it follows from `StepIsCounted` and from `SentKnown`, that who
was sent was sent to a DAO that is still known. A DAO that was forgotten and comes
back starts at 0, and the requests sent before are then taken off the count of later
ones. `GoodIfOneAddress`: if every configured server has one address, requests go to
good addresses only (`SentToGoodAddress`), so that the violation of `proxy_level`
needs a server with two.

`ServerDirectoryProof`, for any servers, names, groups, finite or infinite ids of
connections and any bound on messages and faults: `TypeCorrect`, `EachHasItsOwn`
(`NamedConnections`), `IndexIsRight` (`IndexAgrees`), `NoneUncounted`
(`CountsCover`), `NothingMissed` (`KnowsWhatDaemonKnows`). `IInv` has a part for
each group of variables. `DirectoryInv`: the maps derived from what the daemon
told; `CountsCover` rests on the library's facts about finite sets. `SocketsInv`:
the connections. `ToldInv`: what is under way. `KnowsWhatDaemonKnows` is not
inductive: the code ignores a change to a server it does not know, so
`ChangesKnown` says that a change in `told` comes after what made its server
known, and `OnlyPings` that who has not joined is sent nothing but answers to
pings, whence the list is the first thing a joined client is told of servers.
Two more theorems assume that the daemon says nothing twice (`[][~ Repeats]_vars`,
no step is a `TellsAgain`). `CountedExactly`: the count of every group is then the
number of its imrouters. `RoutesGoWithImrouters`: the step that takes the last
imrouter of this server's group leaves no route, as the comment of
`DaemonClient.cpp:197` says. The strengthening, `AddsAreNew`, says that an add under
way is of a server that is not known when it arrives; it rests on
`KnowsWhatDaemonKnows`, by which the daemon's view tells what will be known. The
assumption cannot be dropped: with a repeated add TLC finds both broken.

`ConnectionsProof`, for both managers, any finite memory and any number of
connections: `TypeCorrect`, `TableAndObjects` (`TableAgrees`), `HandlersOwn`
(`HandlerOwnsObject`), `NoneEscapes` (`DisabledIsListed`), `RemovedExact`
(`RemovedIsExact`). `IInv` adds `Slots`, that the ids of the vector are
0, 1, ..., of which the next is the size, and those of the map were all given;
and `StaleIsRemoved`: what is collected and not delivered is for a connection that
lives, with its serial number, or its address is among those removed. The second
is what makes a new connection at an old address safe. `SerialsTellApart`: no two
connections that live have one serial number, whence "the connection of the event"
is one connection. `RemovedExact` needs it, and `ExactInv` besides: a loop starts with
nothing removed and nothing collected, what is collected is for a connection no newer
than the last, and if its address is among those removed, that connection is gone. A
new connection at the address has a newer number, so it does not bring the old event
back to life; without that part a step that makes one would break the invariant. `OnlyBroadcastsCrash`: unless `dispatchByIds` of the map is called
with an id the map has not (`[][~ BroadcastsAmiss]_vars`), no method of a NULL
connection is ever called, by whatever sequence of the other calls; the invariant is
that the map then has no NULL entry.

`CountdownProof`, for any handlers, any number and measure of falls and any click:
`TypeCorrect`, `FallsAreTimers` (`ImplementsTimers`). The types say what is needed
of a fall and of a timer in it, and are inductive. That `find_fall_idx` stops at
the highest fall reached (`FallIdxFound`) is proved from the well-foundedness of
the naturals, as the library's induction is out of reach.

`ThreadPoolProof`, for any finite set of workers, any tasks and any queue size:
`TypeCorrect`, `NoTaskForgotten` (`EachTaskAwaited`), `StopIsHeard`
(`NobodySleepsThroughStop`), `RunOnce`, `Implements` (`ImplementsTaskPool`). `IInv` adds
`HolderSawEmpty`, that the queue is empty while a worker is between its test of
the queue and its wait, and `Prompt`, that a worker that took a task after `stop`
is past the last test of the flag that let it. The refinement rests on both, for
`Take` starts a task only of a worker that may (`TakeIsStart`), and on `OnceInv`:
who has no task to run has none in its hand, and every task is in one place.

Only model-checked: the liveness properties (`QueueDrains`, `DeadIsFoundOut`,
`AliveIsTakenBack`, `EveryRequestEnds`, `CatchesUp`, `DisabledIsDeleted`,
`TimersFire`, `WorkersLeave`, `TasksAreRun`), which no installed prover reaches.

## 5. What the models say of the code

- `ReliableSendQueue.cpp:256` erases the front message without moving
  `m_iterNotSent` (run `stale_ack`).
- `ReliableSendQueue.cpp:255-256`: an acknowledgement that matches does not mean
  the message was received: every rejection is acknowledged as well (run
  `overflow`). If the source had restarted, so that the destination knows it from
  before, the data is taken to continue the first session; the discarded RESET, if
  it is only late, then comes after data, and the data is taken again.
- `Try` resends the front message whether the reset flag is set or not, against
  the comment at `ReliableSendQueue.cpp:175` that SHUTDOWN prevents sending.
- After the destination restarts, SHUTDOWN clears the reset flag; the front
  message is then resent for ever and its SHUTDOWNs keep `m_uLastAckTime` fresh,
  so the queue neither sends a RESET nor expires. `QueueDrains` is therefore
  stated without restarts.
- `dao_connection_manager.cpp:423`: `select_best_connection` returns the level of
  the best address and the name of the first. The other addresses of a server
  are pinged but never used, and the first is used however bad it is, as long
  as another is good (run `proxy_level`).
- `sending_request` may be too low: a server that is configured anew starts from
  0 while its requests are still under way, and their ends then count down the
  requests of its new life. `NotOvercounted` states the direction that holds.
  It is too high, by one and for good, after a timeout that could not be told to
  the client (`request_fsm.cpp:328`, state "leaked").
  `NotOvercounted` takes such a request for one still under way, so it does not see
  this; by how much the count is too high is what `ExactUnlessForgotten` says.
- A request that is throttled or finds no connection ends without any answer
  (`request_fsm.cpp:167`, `229`), against "no_dao", "dao_busy", "send_fail" and
  "timeout", which are answered.
- When no address is good, every countdown is cut to two ticks
  (`dao_connection_manager.cpp:142`), so a proxy with one address never backs
  off.

- A timer fires up to one second early (the measure of the first fall, two
  clicks): in the lists above the bottom as well as in the bottom itself, which is
  emptied at every look. The time elapsed but not yet read when a timer is
  selected is charged to it.
- A timer that is cancelled or set again by the handler of another timer that
  fired at the same look is called all the same (`selector.h:77-78`).
- A timer of a connection that was made in this loop, at an address a deleted one
  had, is dropped if its time comes at the click of the same loop: `isRemoved`
  compares addresses (`selector.h:59`), and `notify_event` takes the new connection
  for the old (`selector.cpp:20`). The timer has left the falls by then
  (`countdown.cpp:66`), so it is lost, not late. Reads and writes are safe from
  this, as they are collected before anything is removed: `RemovedIsExact` says so,
  and says nothing of timers.
- A `SIGALRM` between the two statements of `get_and_reset_elapsed`
  (`selector.h:56`) is lost, and with it half a second of every timer. No timer
  is lost by it.
- `MultiConnManagerImp::dispatchByIds` compares ids with the number of entries of
  a map that shrinks while the ids grow, and reading the map at an absent id
  leaves a NULL entry on which `dispatchById` and `eraseConnectById` crash
  (`MultiConnManagerImp.cpp:57`, `107`). Nothing in the repository calls it, and
  without it there is no crash (`OnlyBroadcastsCrash`).
- `DaemonClient::onServerAddSV` counts an imrouter before it finds that it knows
  it (`DaemonClient.cpp:137`, `151`). A repeated add keeps the count of the group
  above 0 for ever, and "if all imrouter of my group is removed, disable all
  route" (line 197) does not happen. `CountsCover` is the direction that holds; a
  rejoin counts afresh. `RoutesGoWithImrouters` proves the comment for a daemon
  that repeats no add.
- `onServerRemoveSV` uses its iterator once more after the entry was erased
  (`DaemonClient.cpp:194`).
- `stop` of the `ThreadPool` does not wait for queued tasks: each worker runs at
  most one more, the rest is dropped. The destructor does not stop.
- The queue of the `ThreadPool` holds one task more than configured.

## 6. Plan

Done: `ReliableRoute` with `OrderedDelivery`, `DaoHealth`, `DaoProxy`,
`ServerDirectory`, `Connections`, `Countdown` with `Timers`, `ThreadPool` with
`TaskPool`; the proofs of all their safety properties and of the three refinements;
and, where the code does not keep what it says, proofs of under which conditions it
does: `Drained`, `Tame` and `Calm` of `ReliableRoute`, a daemon that says nothing
twice, servers of one address, DAOs that are not forgotten, a map without
`dispatchByIds`.

What would add most from here, in this order:

1. The route rules of `dao_select` and the hash rings (`ConsistentHash`,
   `GrpHashServer`): operators checked against a reference definition, that the
   same key goes to the same live server.
2. `NameChannel` and its watchers over the directory of servers, where a stopped
   server stays in the channel.
3. `InnerConn`'s buffers and the interest in writing, with partial writes.
4. Servers that change name or group, in `ServerDirectory`: `IndexAgrees` fails
   then (`DaemonClient.cpp:154`), and it is the daemon that decides whether they do.

Of the proofs, what is left is what the provers do not reach (section 4). That
`DaoHealth` stays within the `HealthChanges` of `DaoProxy` is not stated with
`INSTANCE`: that action lets any configured address become good or bad, so a
refinement would hold whatever the code does.

## 7. Not modelled

Most of the repository's lines are vendored libraries and generated code
(`src/common`, boost, thrift and SDL headers, protocol headers that marshal fields
and are copied to several directories); only a small share of all lines can be
mapped. Of its own logic, left out are:

- packet layouts, logging, alarms, configuration, start-up, statistics;
- the choice of an imbridge by hash (`hashTable`), which only decides which route
  may lose a message; `CheckExpiredWriter`, which is never started
  (`ReliableAppContext.h:50-51`); the wrap of 32-bit sequence numbers;
- `onGetServersSV`, whose request nothing sends, and `NameChannel`;
- the interest sets given to epoll, the kqueue and Windows selectors, buffers and
  encryption of `InnerConn`;
- `predict_add_bad_level`, which has no caller; the average response time, which
  only orders addresses; the route rules of `dao_select`: any usable server may be
  chosen; the hash rings;
- `imlbsd`: one sequential object, a map of link servers, the list of those that
  may be handed out and a flag. Its counter of link servers only goes up, since the
  load reports are ignored (`ImLbsRequest.cpp:58` is commented out). It can be
  tested call by call, and has nothing to interleave;
- the pool of thrift connections, whose rotation is decided by a ZooKeeper service
  and a thrift server, both outside the repository;
- the application servers: request handlers over external stores. In
  `app_link_d` the ids of logged-in users of a closed connection are kept, and
  `dispatchByUid` does not compare the serial number of the connection; that is
  visible in the code, and no interleaving is needed for it.
