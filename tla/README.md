# Verification of meshcore-rpc-services

TLA+ models of `meshcore_rpc_services`, TLC configurations that check them on
small instances, and TLAPS proofs of the main safety properties for every
instance. Paths below are relative to `src/meshcore_rpc_services/` unless they
start with `README.md` or `deploy/`.

    tlc -workers 2 -config MCRpcPipeline_faults.cfg MCRpcPipeline
    tlapm RpcPipeline_proofs.tla

## 1. The system

`meshcore-rpc-services` answers RPC requests that field nodes of a LoRa mesh
send through an MQTT broker. It keeps a SQLite audit log and publishes retained
location and state topics. A second process, `meshcore-tak-bridge`, turns those
topics into Cursor-on-Target (CoT) events for a TAK Server.

| Component | State | Operations | Interacts with |
|---|---|---|---|
| Request pipeline `core.py` | locals of one asyncio task per request | `process_request`, `_emit_error_final`, `_publish_and_finalize` | store, tracker, router, `Service._emit` |
| Store `persistence/sqlite.py` | SQLite file: `requests`, `request_events`, `nodes`, `gateway_snapshots`, `node_locations`, `node_battery`, `base_state`, `schema_version` | `record_received`, `record_event`, `record_completion`, `mark_node_seen`, `purge_before`, upserts, reads, migrations | worker threads (`asyncio.to_thread`) on one shared connection; the `purge` command from another process |
| Transport `transport/` | MQTT client, task set, cached gateway status | adapter, `publish`, consume loop, `run`, health heartbeat | broker, pipeline, aggregator |
| Timeouts `timeouts/` | in-flight count | `run_with_timeout`, `TimeoutPolicy.resolve` | pipeline |
| Retention `retention.py`, `cli.py purge` | none | sweep at start and every `interval_s`; one-shot purge | store |
| Handlers `handlers/`, `router.py` | none of their own | one `handle` per type | store, aggregator |
| State aggregator `state.py` | last radio metadata | `apply_seen`, `apply_location`, `apply_battery`, `apply_base_location` | store, broker (retained topics) |
| GPSD client `gpsd.py` | connection, backoff, stop flag | reconnect loop, fix filter, `stop` | `on_fix` of the service, aggregator |
| Service lifecycle `transport/service.py`, `cli.py` | background tasks, retained health message | `run`, `_heartbeat`, `_publish_health`, signal, close | everything above |
| TAK bridge `tak/bridge.py` | last known record per entity, offline-since times | message handlers, heartbeat (evict, republish), reconnect callback | broker, sink |
| TAK sink `tak/takserver.py` | bounded queue, session | `send`, session loop, reconnect with drain | TAK Server over TCP |

What is hard here, and hard to reach with a test:

- every request is a task that awaits five to seven statements, each in a worker
  thread; duplicates, purges (one of them in another process), stops and kills
  fall between any two of them;
- which store errors are caught depends on the await at which they happen;
- tasks outlive the MQTT client during shutdown;
- keys can be reused after a purge while copies of the earlier request are in
  flight;
- all worker threads share one SQLite connection, its one transaction and its one
  row count;
- a migration commits statement by statement and may be killed, refused a
  statement, or met by another process, between any two;
- a node's rows and its three retained topics are written in separate awaits by
  several tasks, and every request of the node moves one of the rows without
  touching the topics;
- a signal can reach `Service.run` at any await of its start or its clean-up, and
  cancelling an await does not stop the thread behind it;
- the sink loses events in four ways (overflow, dead socket, failed write,
  drain on reconnect) and relies on later republishing to make up for it.

What makes each part correct: one owner per `(node_id, id)`, one execution, one
final state, an audit trail that explains each row, an answer for every readable
request (pipeline and store); markers that never go back, no revived markers,
current positions eventually shown (bridge and sink); retained topics that show
nothing the database did not hold and that the next undisturbed update puts right
(aggregator); a store whose columns match its version
(migrations); a health message that tells whether the service serves, a base
location that is near and fresh, and a stop that completes (lifecycle).
`PROJECT.json` lists the hazards one by one with the line where each bites.

## 2. Modules

| Module | Models |
|---|---|
| `RequestStore` | the request tables; one operator per `with self._conn:` block |
| `RpcPipeline` | `Service._handle_one`, `process_request`, `_publish_and_finalize`, tracker, sweeper, purge command, start/stop/kill, over `RequestStore` |
| `RequestLedger` | what deduplication promises: abstract specification |
| `TakSink` | queue and session loop |
| `TakBridge` | `Bridge` over `TakSink`, with the broker's retained topics and the TAK Server's picture |
| `StoreConnection` | the worker threads on the one connection: implicit `BEGIN`, statements, `COMMIT`, `ROLLBACK`, row counts |
| `StoreOpen` | `Store.__init__` and `_apply_migrations` in several processes |
| `NodeState` | `StateAggregator`: rows and retained topics of nodes, requests and gateway events |
| `BaseLocation` | `GpsdClient`, `on_fix`, the base row and topic, the answer of `base.location` |
| `ServiceRun` | `Service.run` from start to close over `BaseLocation`, with signal, errors and kills |
| `..._proofs` | lemmas and theorems about the module of that name (`RpcPipelineLedger_proofs`: the refinement; `ServiceRun_proofs`: `BaseLocation` too; `TakBridge_proofs`: `TakSink` too) |
| `MC...` | constants for TLC |

### RpcPipeline and RequestStore

`pc[d]` is the await at which the task of delivery `d` is suspended; the code
between two awaits is one action, because the event loop runs it without
interruption. `d` ranges over *deliveries*, so a duplicate is simply a second
delivery with the same key. `requests` maps a key to a row or `NoRow`, with the
history field `by` for the task that inserted it. `answered` and `executed` are
history variables.

| Await or step in the code | Action |
|---|---|
| `_handle_one` after the adapter dropped / rejected / accepted the payload | `DeliverGarbage`, `DeliverMalformed`, `DeliverRequest` |
| `record_received` true / false / raises (`core.py:52-60`) | `RecordReceivedFresh`, `...Duplicate`, `...Fails` |
| events and `mark_node_seen` (`core.py:62-95`) | `RecordDuplicate`, `RecordValidated`, `MarkSeen`, `RejectUnknown`, `StartHandler` |
| the handler returns / raises / reaches its TTL | `HandlerReturns`, `HandlerRaises`, `HandlerTimesOut`, `RecordTimeout` |
| `emit` without / with a client, its acknowledgement or error | `CallPublish`, `PublishAcked`, `PublishFails` |
| `response_published`, `record_completion` | `RecordPublished(Fails)`, `RecordCompletion` |
| a store error nothing catches | `StoreRaises` |
| sweeper, `purge` command | `Sweep`, `PurgeCli` |
| `Service.run` | `Start`, `StopConsuming`, `Disconnect`, `CloseStore`; `Crash` for a kill |

Abstractions. A request is its key and type, a response is `"ok"` or an error
code. Time is in ticks much longer than a statement; `PurgeBefore` compares
ticks as the SQL compares seconds. `TaskSpan` bounds the life of a task: the
handler ends by its clamped TTL (at most `max_s`), a publish by the client's
timeout, a statement by SQLite's busy timeout, all far below the smallest
retention period `RetentionSweeper` accepts, one day (`retention.py:32`). That
`TaskSpan <= RetentionDays` is the one assumption that ties the constants
together, and it excludes wall-clock jumps of more than a retention period. A
transaction is atomic and a failing one changes nothing, which `StoreConnection`
shows to be so for blocks that do not overlap; everything said of `RpcPipeline`,
the refinement of the ledger included, is said under that condition. `Crash` is a kill, after which SQLite
keeps every committed transaction; a power loss under `synchronous=NORMAL` is
not modelled.

### TakBridge and TakSink

A CoT event is an entity and the version of its position; version 0 is the drop
track event. `send()` never suspends, so a handled message, a heartbeat (evict,
then republish) and the reconnect callback are one action each. The broker keeps
`latest` and `online` per topic and hands over everything retained after a
subscribe (`due`). A write to a live connection reaches the server at once,
one to a dead connection vanishes; `drain()` may return although the connection
is dead, or raise a `ConnectionError` (the event is put back) or another
exception (it is not). `written` and `shown` record what was sent and what the
server shows. The order in which a heartbeat goes through the dictionary is left
open, backoff delays are one step, and timestamps that cannot be converted to a
date are left out.

### StoreConnection

A call is a thread inside a `with self._conn:` block, `pc[c]` the point at which
it has released the interpreter lock. `sqlite3` serialises single statements, so
threads interleave between them; the Python module reads the connection's
autocommit flag and acts on it in two steps (`ReadFlag` and `Begin`, `ExitBlock`
and `Commit`, `Unwind` and `Rollback`). `txn`, `pend` and `changes` belong to the
connection, not to the thread, which is the whole problem. A row is the statement
that wrote it. `InsertIgnored` and `ReadRowcount` are the duplicate detection of
`record_received`; the flag and the row count read by one thread after another
thread's statement were confirmed to be stale with CPython 3.11 (both
"cannot start a transaction within a transaction" and a wrong row count occur).
`CountFinal` and `CountPending` are the two halves of `counts()`. `shared` records
which calls overlapped: `AloneIsAtomic` is about the others, `NoErrorNoLoss` about
all of them as long as nothing fails.

### StoreOpen

One action per statement that commits by itself: the two tables that matter of
`schema.sql`, the version `SELECT`, the stamp, each `ALTER`, the version row.
`Init` ranges over the databases a deployment can meet: none, one from before
versioning, version 1, version 2. Any statement may be refused (a locked
database, a full disk): `Refused` changes nothing and ends the process
(`cli.py:65-73`), which may be started again. The refusal of a column that is
there already is `DuplicateColumn`, kept apart because no retry gets past it.
`HalfWay(p)` says that `p` has committed a column and not yet the version row;
`disturbed` records that a process was killed or refused a statement half way, or
that two processes were between reading an old version and recording the new one
at the same time.

### NodeState

`pc[m]` is the await at which the handling of message `m` is suspended. Fresh
requests of any type are tasks of their own: each marks its node seen with the
time of the call (`StartRequest`, `MarkRequest`, `core.py:77`), and nothing is
republished for that; between the mark and the handler it is suspended at other
statements (`"requested"`). A report with a valid position then applies its fix
(`StartReport`); every other request, and one `process_request` fails on, is over
for the aggregator (`EndRequest`). Gateway events are handled one after the other
by the consume loop (`LoopFree`). A row or a topic holds the message whose values it shows, so
"stale" is visible as inequality. Timestamps come from the sender and may be up
to `Skew` ahead. A report's TTL may cancel it while a worker thread has its
statement (`CancelLate`, then `LateUpsert` or `LateMarkSeen`). The return of
`_republish_state` for a node that was never seen (`state.py:148`, `state.py:176`)
has no action: each caller has marked the node before, which `SeenWhenRead` proves.

Three histories say when row and topic may differ. `cut` has the nodes for which a
call was ever cut short. `astray` has the topics whose last call overlapped
another call for the topic, or was cut short; a call that begins with the topic to
itself takes it out again. `unsaid` has the nodes a request has moved `last_seen`
of since a call last read it for the state topic. `TopicsRepaired` is stated with
the last two: every topic outside `astray` with no call in progress shows the
rows, `last_seen` of the nodes in `unsaid` excepted, and a node without a state
topic has nothing but requests to its name. So a topic that has gone wrong stays
wrong until the next call of its kind, and no longer unless that one is disturbed
too.

### ServiceRun and BaseLocation

`at` is the await of `Service.run`, `gps` that of the client's task. Signal and
delivery of the `CancelledError` are two steps; `Cancelled` lists what each await
makes of it, with both outcomes for `asyncio.wait_for`, whose behaviour on a
cancelled caller differs between the supported Python versions (>= 3.10). A
publish that is cancelled or loses its connection may or may not have reached the
broker. Positions are points on a line whose unit is the 5 m `on_fix` absorbs;
times are kept as ages that saturate, so the clock needs no bound. After a
restart the row and the retained message are still there, the closure variables
of `on_fix` are not. Lines GPSD sends that are no usable fix are `IgnoreLine`.
`NothingOutlivesStore` is about the tasks of the event loop. A worker thread
survives the task that awaits it: the purge of a cancelled sweep may still run
when the store is closed (`retention.py:49`, `sqlite.py:199`), and the upsert or
publish of a cancelled start with a static base location may still land
(`state.py:131-134`); `StopSweeper` and `Cancelled` end the two together. The
assumption `Interval <= MaxAge` is one on the configuration that nothing
enforces (30 s and 600 s by default).

## 3. Runs

| Run | Instance | Checks | Distinct states |
|---|---|---|---|
| `faults` | 1 node, 2 ids, 2 deliveries, 2 types, 1 tick, 1 fault, 1 stop | `TypeOK`, `FinishedRowsAreFinal`, `OkMeansOwnerSucceeded`, `PublishedMeansAnswered`, `InFlightExact`, `LastSeenMonotone` | 530 000 |
| `retention` | 2 nodes, 1 id, 3 deliveries, 2 ticks, retention 1 tick | `OwnerHoldsRow`, `AuditTrailKept`, `ImplementsLedger` | 500 000 |
| `liveness` | 1 key, 2 deliveries, 1 fault, 1 stop, fair | `AcceptedIsFinalized`, `DeliveredIsAnswered` | 27 000 |
| `tak_flaps` | 1 node and the base, 2 positions each, queue of 3, 2 faults | `TypeOK`, `EvictedStaysEvicted`, `WritesNeverGoBack` | 1 250 000 |
| `tak_shown` | 1 node and the base, 1 position each, queue of 3, 1 fault, fair | `HeldIsShown` | 24 000 |
| `shared` | 3 writing calls (`record_received`, a completion, a purge), 1 `counts()`, 1 refused statement, 1 kill | `TypeOK`, `NoErrorNoLoss`, `AloneIsAtomic`, `NoLeakedTransaction`, `NothingCountedTwice` | 850 000 |
| `topics` | 1 node, 3 messages (at most 3 requests, 2 gateway events), 1 tick, clock skew 1, 1 fault | `TypeOK`, `StoredBeforePublished`, `BatteryTopicMatches`, `TopicsRepaired`, `SeenCoversRows` | 1 600 000 |
| `upgrade` | 3 processes, 3 columns, 2 kills or refused statements, 4 ages of the database | `TypeOK`, `OpenHasColumns`, `VersionTellsColumns`, `OneMigrator`, `DuplicateOnlyDisturbed` | 14 000 |
| `lives` | 3 sources, 3 positions, 2 lives, 1 fault, 1 signal per life, fair | `TypeOK`, `HealthTellsService`, `NothingOutlivesStore`, `GracefulStopIsAnnounced`, `AbsorbedFixIsServed`, `StopCompletes` | 530 000 |
| `terminal`, `stored`, `silent` | as small as the case allows | expected to be violated, section 5 | |

Why these bounds show something. Every conflict in the pipeline is between two
tasks on one key, or one task and a purge: two deliveries give the first, and
the third in `retention` lets a key be accepted, purged and accepted again with
a duplicate in flight. Two nodes with one id are what the purge's id-only
comparison needs. Retention equal to `TaskSpan` is the tightest value the
assumption allows: with `<=` instead of `<` in the purge the run fails. One
fault and one stop hit any await; a second fault in the pipeline can only hit
the other task. In the bridge, two positions are needed to go back, two faults
to lose a session and then a restart or a second session, and a queue shorter
than two heartbeats overflows often. `tak_shown` needs a queue longer than a
heartbeat, since its premise `KeepsUp` is that from some point on the queue is
not full. On the connection, one call of each kind gives every pair of
statement counts, and three threads are enough for a transaction one begins, a
second joins and a third ends. In `topics` the pairs that conflict are two
reports, a report and an event, and the two events that must not overlap; the
third message is the request without a fix that comes between, or the call that
puts right what the other two left. In `upgrade` three processes let a third one
arrive after two have met, and the second fault hits the process that comes after
a half migration. In `lives` three positions
are what creeping takes (each near the next, the first not near the last), the
interval equals the maximal age, the tightest value the assumption allows, and
two lives let a row and a retained message outlive their process. Deadlock is not checked in `faults`, `retention`, `liveness`, `shared` and
`topics`: when the messages are used up and the bounds spent, the system rightly
stops. The other passing runs check it: the bridge's heartbeat and the base's
clock never stop, and a process can always be started again in `upgrade`.

Symmetry is used for safety only. Each property of a passing run has a mutant of
the code (a dropped `MAX`, `INSERT OR REPLACE`, `<=` in the cutoff, a timeout
that forgets to count out, a reconnect that keeps its backlog, ...) under which
the run must fail; the mutants stand next to the definitions they replace.

Fairness. In the pipeline: weak fairness for the awaits that end by themselves
(worker thread statements, publishes, the TTL of a handler), for `Disconnect`
and for `CloseStore`. A handler is *not* assumed to return: only `wait_for`
ends it. No fairness for deliveries, purges, starts, faults or the clock. In the
bridge: weak fairness for timers (heartbeat, reconnects), for the session loop
and for retained deliveries after a subscribe; strong fairness for noticing a
dead connection, which some write to it does since TCP gives up eventually. In
`ServiceRun`: weak fairness for the delivery of a cancellation and for each await
of the clean-up, all of which are bounded by a cancellation or a timeout; none for
GPSD, the broker or the other tasks, so `StopCompletes` holds with a receiver that
never sends another line. In `NodeState`: weak fairness for the awaits of a call
and the clock.

## 4. Proofs

`RpcPipeline_proofs` proves, for all nodes, ids, deliveries, handler codes,
retention periods and bounds that satisfy `NoRowAssumption`,
`PipelineAssumption` and `LedgerAssumption`:

`TypeCorrect`, `OwnerKeepsRow`, `FinishedIsFinal`, `OkIsTheOwners`,
`TrailIsKept`, `PublishedIsAnswered` (`Spec => []...`),
`LastSeenNeverGoesBack` (an action property) and `InFlightIsExact`.
`RpcPipelineLedger_proofs` proves `PipelineImplementsLedger`.

The checked invariants are not inductive. `IInv` adds

- `Stage(d)`: what each await knows (a task in its handler was told fresh, a
  task that answers "ok" has executed, a task at `published_ev` is answered, ...);
- `StoreInv`: the tables are well formed and no row is completed before it was
  received;
- `Lifetime(d)`: a live task is at most `TaskSpan` old, which the clock's guard
  keeps;
- `RowOwner(k)`: the row's owner was told fresh for exactly this key and was
  delivered before the row was inserted;
- `Trail(k)`: how far the audit trail of a row has come at each stage.

The argument for `OwnerKeepsRow` is the one that needs all of them: a purge
takes rows completed before `now - days`; the row of a live owner, if a
duplicate has completed it, was completed after it was received, hence after the
owner was delivered, hence within `TaskSpan <= days` of now
(`PurgeSparesTheLiving`). Three lemmas about `Next` (`TaskMonotone`,
`RowSteps`, `AnswerSteps`) do the case analysis over actions once;
the preservation lemmas then only look at the three kinds of step that touch
rows. `InFlightIsExact` needs its own invariant: the set of running handlers is
finite, the count is its cardinality while the service runs, and nothing lives
while it is down. The refinement maps a row to its owner and whether it is
final; an insert is `Accept`, a completion of a pending row `Close`, a purge
`Forget` of closed entries, a handler start `Execute`, everything else a
stutter.

`StoreOpen_proofs` proves all five invariants of the `upgrade` run
(`TypeCorrect`, `OpenFindsColumns`, `VersionIsTrue`, `RefusalExcludes`,
`UndisturbedOpens`) for any set of processes, any number of `ALTER` statements
and any number of kills and refused statements, from `OpenAssumption`. Its `IInv` adds `ColumnsDone` (a
process at statement n has the columns before n, so whoever is past the first
column has taken it from everybody else) and `Calm` (while nothing has disturbed
a migration, one process at most is upgrading, the columns are exactly the ones
before its next statement, and without one there are none or the version says
so), which is what excludes the duplicate column. A process that is killed or
refused a statement before its first column leaves the calm as it was (`EndCalm`).

`StoreConnection_proofs` proves the five invariants of the connection
(`TypeCorrect`, `NothingLeaks`, `ReturnedIsCommitted`, `CountsAreDisjoint`,
`AtomicWhenAlone`) for any calls of any kinds and any number of refused
statements and kills, from `ConnectionAssumption`. `NoErrorNoLoss` is not
inductive because the thread that commits a write need not be the one that made
it; `Kept` follows the write instead: until a block fails it is on disk or in the
open transaction, and a call that has returned has its writes on disk, since it found
the transaction closed or closed it. For `AloneIsAtomic` `Alone(c)` says at each
step of the block where its writes are and that the transaction is its own, which
rests on `NoLeakedTransaction` when the block starts and on `Marked` (two
threads in their blocks at once are both in `shared`) for as long as it lasts.

`ServiceRun_proofs` proves `TypeCorrect`, `HealthIsTrue`, `TasksEndFirst`,
`StopIsAnnounced` and the action property `AbsorbedIsServed`, from
`BaseAssumption` and `RunAssumption`. The two halves are proved apart: to the base
location every step of the service is one of `BaseMoves`, which keep `Served`
(what `on_fix` published last is what row and topic hold until another apply
begins to write, and is no older than `on_fix` believes); to `run()` the
client is one of three tasks, and `Tasks` and `Announced` say which of them there
are, and what the retained health message is, at each await.

`NodeState_proofs` proves the five invariants of the `topics` run (`TypeCorrect`,
`StoredFirst`, `BatteryMirrored`, `LoneCallRepairs`, `RowsAreCovered`) for any
nodes, any requests at a time, any sender clocks and any number of cuts and restarts,
from `NodeStateAssumption` and `SummaryAssumption`. All are about a node between
calls; `IInv` says what holds within one. `BatteryInStep` keeps for all nodes,
since one event is handled at a time and only events write batteries: an event
past its upsert owns the battery row. For `LoneCallRepairs` the topics are looked at
one by one: two calls for a topic that is not astray are the same call
(`OneAtATime`); a call that has its row's topic to itself finds its own row there
until it is over (`RowKnown`), and one that has the state topic to itself, which
every call publishes, finds that what it has read is still what the rows hold, a
later `last_seen` of a request excepted, and then the node is in `unsaid`
(`StateKnown`). A topic becomes free only by the publish of such a call
(`FreedTopic`). `Covered`
says a row's timestamp is at most `last_seen` or its call is at `mark_seen`;
late worker threads break it, and `Jobs` has their nodes in `cut`. `SeenWhenRead`
is what makes the state message well typed: a call that reads `nodes` has
written it before.

`TakBridge_proofs` proves `TypeCorrect` (with the bound of the queue),
`EvictionHolds` and the action property `NeverBack`, for any finite set of nodes,
any capacity, eviction threshold and number of faults, from `SinkAssumption` and
`BridgeAssumption`. The invariant is about a queue that will be written as it
stands (`Live`: in a session, or before the first one), because a failed event is
put back behind newer ones and only the drain before the next session
removes it. Such a queue is `Good`: per entity in order of version (`Ordered`), no
version below what was written or above what broker and record have (`Within`),
and no position without a record or a drop behind it (`Backed`). The lemmas
`GoodConcat`, `GoodSuffix` and `GoodEnqueued` show that batches of the bridge and
the loss of the oldest events keep it so; `SetToSeqsProperties` shows that a
heartbeat leaves no evicted record out, which is where the set of nodes has to be
finite. `EvictedStaysEvicted` alone is not inductive: a state message gives an
evicted node a record without a position again, so `Backed` asks for a
position rather than a record. The theorem is about sessions; after a lost
connection the put-back event can be queued without its drop, and the drain is
what removes it.

Only model-checked: liveness (`AcceptedIsFinalized`, `DeliveredIsAnswered`,
`HeldIsShown`, `StopCompletes`), which is out of reach of these provers.

## 5. What the documents say and the code does not do

| Run | Said | Done |
|---|---|---|
| `terminal` | `README.md:252-253`: final states are terminal | a late duplicate turns `completed_ok` into `completed_error` (`core.py:66`, `sqlite.py:245-263`) |
| `stored` | `sqlite.py:95`: `record_received` returns "True on fresh, False on duplicate" | with two threads on the connection it may say fresh of a row another thread's rollback took back, or read another statement's row count (`sqlite.py:58`, `sqlite.py:221`) |
| `silent` | `config.py:98-100`: a node "continuously offline" is dropped from TAK | a silent node stays `online: true` on its retained topic, since only its own messages republish it (`state.py:158`, `state.py:174`) |

Noted while modelling, without a run of their own:

- `README.md:108` documents `to` of `gateway.status` as the timeout count; timed
  out requests are stored as `completed_error`, so it is always 0
  (`handlers/gateway_status.py:40`).
- `README.md:378-379` says a purge deletes the requests' events; they stay while
  another node has a row with the same id (`sqlite.py:387`).
- `README.md:401` says the migrations on open make a deploy enough; after a kill or
  a refused statement inside the script, or when two processes upgrade at once,
  every later open may fail until someone repairs the table by hand.
  `DuplicateOnlyDisturbed` says when.
- A request moves `nodes.last_seen` and republishes nothing (`core.py:77`): the
  retained state of a node that pings shows its last report or event, and a node
  that only pings has none. `TopicsRepaired` says this is all that lags.
- `tak/takserver.py:140-141` says the next session retries a failed event; it
  drains the queue first. A lost drop-track event is not repeated.
- `deploy/DEPLOY.md:622-623` says a reconnect re-emits what the retained topics
  hold; an evicted node that is online again is missing until its next fix
  (`tak/bridge.py:207`).
- `README.md:571-573` says a graceful shutdown publishes `stopped`; a signal that
  arrives before the consume loop leaves `running` retained, and so does a second
  cause that cuts the clean-up short. `GracefulStopIsAnnounced` is about a signal
  while the service serves.
- `gpsd.py:86` says the backoff is reset "on clean disconnect"; GPSD closing the
  connection raises, so only `stop` resets it. The same holds for the TAK sink
  (`tak/takserver.py:86`).
- A static base location is written once per start: `base.location` answers
  `stale` ten minutes later (`service.py:260-271`, `handlers/base_location.py:35`).
- With `source: mqtt` the service neither subscribes to `mc/base/location` nor
  stores it, so `base.location` stays `unavailable` (`service.py:255-256`,
  `bus.py:51-57`).
- A base fix whose publish failed is in the row and not on the topic; if the
  receiver goes back to the old position meanwhile, the two differ until the next
  interval (`service.py:299-308`).

`core.py:44` also says of `process_request` that it never raises; `StoreRaises`
models that it does when a statement outside its two `try` blocks fails, and
`AcceptedIsFinalized` has to except that case.

## 6. Plan

Done: all components of section 2, with the proofs of section 4.

Next: `TimeoutPolicy.resolve` as a function with its range proved.

## 7. Not modelled

Formatting (CoT XML, JSON, logging), configuration parsing, geometry
(`geo.py`), topic strings, the console scripts' argument handling and the
deployment files: no state to get wrong, or floating point outside TLC's reach.
The TTL arithmetic of `TimeoutPolicy` is the choice of when a handler times out.
The gateway status cached by the bus is read only to be shown; of its handling
only the payload that ends the consume loop is modelled. Handlers that read one
value and format it are one await of `RpcPipeline`. Timestamps no date can
represent, which end the bridge's heartbeat (`tak/bridge.py:254`), power loss
under `synchronous=NORMAL`, and wall-clock jumps are left out. The broker, SQLite,
GPSD and the TAK Server are modelled as far as the code uses them.
