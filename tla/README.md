# A TLA+ model of evnt

evnt is a self-hosted collector for Snowplow trackers. A browser posts events to
the collector (FastAPI); the collector turns them into rows and either inserts
them into ClickHouse itself (direct mode) or publishes them to RabbitMQ, from
where a worker process inserts them in batches (rabbitmq mode). A demo page
shows the tracker requests it makes and browses the stored tables.

The modules here model the parts of that program whose correctness depends on
the order of events: who may stop, fail or answer late between which two steps.
TLC checks them on small instances, TLAPS proves what matters most for every
instance.

Paths below are relative to `src/`; `rabbitmq.py` is
`backend/src/evnt/ingest/rabbitmq.py`, and other backend files are named from
`backend/src/evnt/`.

## 1. Inventory

| Component | State | Operations | Talks to |
|---|---|---|---|
| Batch worker (`rabbitmq.py`, `RabbitMQBatchWorker`) | pending batches and row counts per table group, failure counts and those slept off, the fetch task kept across timeouts, the deliveries the queue iterator has buffered | fetch, time out, buffer, flush, insert, split, isolate, ack, nack, reject, back off, stop, close | broker, ClickHouse, orchestrator |
| Worker process (`cli.py` `QueueCommands.worker`, `compose.yml`) | the running task | connect, SIGTERM, final flush, close, restart | worker |
| Worker heartbeat and healthcheck (`rabbitmq.py`, `cli.py`) | step clock, liveness file, heartbeat timer | beat, mark alive, restart clock, read file | worker, orchestrator |
| Queue publisher (`rabbitmq.py`, `RabbitMQPublisher`) | connection, channel | publish with confirm, close | tracker endpoint, broker |
| Startup (`rabbitmq.py`, `storage/clickhouse/client.py`) | deadline of the retries | attempt, retry, give up | lifespan, worker |
| Lifespan (`lifespan.py`) | exit stack of opened resources | open, unwind | everything the app holds |
| Health cache (`health.py`, `api/health.py`) | cached status, expiry, lock | check | backends |
| Tracker endpoints and payload (`api/tracker.py`, `tracker/`) | none | parse, enrich, build rows | publisher or connector |
| User-agent cache, CPU slots (`tracker/useragent.py`, `concurrency.py`) | LRU cache under a thread lock, semaphore per event loop | look up, parse in a thread, store, evict | threads |
| Encrypted transport (`assets/seal.js`, `crypto.py`, `api/encrypted.py`, `frontend/src/lib/snowplow.ts`) | keyring, support probe, script loaded or not | seal, send, open, serve the script | browser, tracker, collector |
| Body limit (`middleware/body_limit.py`) | bytes received | receive, reject | every route |
| Signed proxy (`api/proxy.py`) | pooled client | verify, forward, stream | other hosts |
| Table manager (`storage/clickhouse/tables.py`) | none | create database, local and distributed tables | ClickHouse |
| Live event log (`frontend/src/lib/interceptor.ts`, `stores/liveEvents.ts`) | log, pause flag, promise chain | log request, read body, push, clear, pause | demo page |
| Table browser (`EventsTable.vue`, `TableSelector.vue`) | rows, columns, tickets of loads | load, answer, watch settings | ClickHouse over HTTP |
| Commands (`cli.py`), configuration, observability, static files | - | - | - |

What is hard in each, and what makes it correct:

* **Batch worker.** Everything can stop between two awaits. A message may be
  fetched, buffered, inserted, split, isolated, and then the connection, the
  process, the insert or one ack of many fails. Correct means: no message is
  forgotten whose rows are nowhere; a delivery is settled at most once; poison
  goes to the failed queue and takes nothing else with it; a failing table group
  is not retried without a pause; a batch that never fills is flushed all the
  same; through any faults, every message is settled in the end.
* **Heartbeat.** Three clocks run unsynchronised: the loop's step clock, the
  heartbeat timer and the healthcheck. Correct means no stall is missed and no
  slow worker is reported dead.
* **Startup, lifespan.** A resource that fails half way, a close that fails, a
  deadline passed during an attempt, a broker that accepts a connection and then does
  not answer. Correct means that what was opened is closed, and that waiting ends as
  far as the code has a timeout for it.
* **Caches and slots.** Concurrent misses, expiry during a check, cancellation of
  a thread that runs on. Correct means one value per key, bounded size, bounded
  threads.
* **Tracker endpoints.** A row takes the same field from many sources, and shares
  the objects it starts from with every other request. Correct means that the order
  of the sources decides and nothing leaks between events, and that a request stores
  all of its rows or none.
* **Encrypted transport.** A sealer that has not loaded, a rotated key in a cached
  script, failures translated into status codes the tracker does or does not
  retry. Correct means that nothing is sent in the clear once encryption is asked
  for and that the collector's answers drop a batch only when retrying it is useless.
* **Live log, table browser.** Asynchronous reads answered out of order. Correct
  means that the log is in request order and the table shows the newest load.

`PROJECT.json` lists these hazards at their lines, each with the properties that
would catch it going wrong, or with the reason why none does.

## 2. Modules

| Module | What it is |
|---|---|
| `Delivery` | abstract: at-least-once delivery of one message, in four sets |
| `BatchWorker` | the worker between broker and ClickHouse; implements `Delivery` |
| `MCBatchWorker` | its instances for TLC |
| `BatchWorkerProofs` | types, "nothing is lost", flushing and backoff |
| `BatchWorkerDelivery` | settled at most once, inserted once without faults, and `BatchWorker` implements `Delivery` |
| `WorkerHeartbeat` | heartbeat, step clock, liveness file, healthcheck |
| `WorkerHeartbeatProofs` | the contract for every value of the time constants |
| `LiveEvents` | the live log of the demo page |
| `LiveEventsProofs` | its order, for every size |
| `Lifespan` | how a collector or the worker opens its backends and closes them |
| `HealthCache` | `CachedHealthChecker` under concurrent probes |
| `Service` | composes the two: a process from startup to exit |
| `ServiceProofs` | startup deadline, resources and health cache, for every value |
| `Envelope` | what a sealer writes, what a keyring opens, which key settings start |
| `Transport` | a batch from the tracker to the collector, in the clear or sealed, through rotations and failures |
| `MCTransport` | its batches and key materials for TLC |
| `TransportProofs` | types, confidentiality, rotation and causes of loss, for every value |
| `Payload` | from an event to its row: `parse_payload`, step by step |
| `UserAgentCache` | the LRU cache of parsed user agents, its threads and their slots |
| `Intake` | composes the two: a tracker's request from its body to its answer |
| `MCIntake` | its requests and events for TLC |
| `IntakeProofs` | the cache and its slots, the loops over events and contexts, all rows or none, where each field of a row comes from, for every value |
| `TableBrowser` | the selector of tables and the table shown |
| `MCTableBrowser` | its servers and tables for TLC |
| `TableBrowserProofs` | its two properties, for all servers and orders of answers |

Operators whose comment begins "Mutation of" are plausible bugs, each beside the
action it would replace. No specification uses them; they show that a property
fails when the code is wrong in that way.

### 2.1 BatchWorker

The worker is one asyncio task, so only its awaits are points where something
else can happen. `pc` names the await (or the synchronous point between two
flushes) the task is at:

| pc | code |
|---|---|
| `top` | `rabbitmq.py:350`, head of the loop |
| `sleep` | `:430`, `asyncio.sleep` in `_apply_backoff` |
| `wait` | `:360`, `wait_for(shield(next_message_task))` |
| `flush` | `:510`, the next group of `flush_all`, or `:505` |
| `insert` | `:576`, the sink insert |
| `publish` | `:588`, the failed queue |
| `settle` | `:492`, `:496`, `:598`, `:600`, `:632`, `:636` |
| `unwind` | `:380`, leaving the loop |
| `close` | `cli.py:361` |
| `down` | no process |

State and code:

| Variable | Code |
|---|---|
| `pending`, `rowCount` | `pending_batches`, `pending_row_counts`; a group is a key when its list is not empty |
| `failures`, `applied` | `failure_counts`, `_backoff_applied_counts` (absent is 0) |
| `task`, `fetched` | `next_message_task` and its result |
| `buffer` | what the aio_pika queue iterator has received |
| `toFlush`, `flushing` | the loop of `flush_all`, the group of the running `flush_table_group` |
| `work`, `succeeded` | the recursion of `_flush_pending_messages`: slices still to insert, and the conjunction of their results |
| `settling`, `verb` | the loop over acks or nacks of the slice just handled |
| `mode` | `stopping` inside the finally block |
| `ready`, `unacked`, `acking`, `epoch` | the broker, and the connection a delivery tag belongs to |
| `stored`, `failed` | ClickHouse and the failed queue |

The recursion is a list because both halves of a rejected batch are always tried
(`:611-613`), the first before the second, and only the conjunction of their
results is used. A split therefore replaces the head of `work` by its two halves.

What is abstracted:

* A message is a model value with a table group and a number of rows; decoding
  decides only whether it is in `Invalid` or has no rows.
* `flush_all` visits the groups in dictionary order; the model visits them in any.
* The backoff delay is left out; that it is computed, can overflow, and is slept
  once per failure is not.
* Duplicates in a sink are not counted: `stored` and `failed` are sets.
  `ExactlyOnceWithoutFaults` states when a second insert can happen at all.
* An ack is a message on its way (`acking`): the broker may read it later, or lose
  it with the connection. A nack is read at once, since what a late nack could
  change, the requeueing, a lost connection does too. One that is lost is a
  reconnect before it was sent.
* The iterator hands out what it holds in any order; nothing here depends on the
  order of the queue.

External parts, modelled from how the worker uses them: the broker (delivery
within the prefetch window, acks, requeueing when a channel closes), the robust
connection of aio_pika (reconnects by itself; deliveries of the old channel can
not be settled on the new one and raise), ClickHouse (an insert that fails may
have stored its rows, except that a rejected one has not), the orchestrator.

Faults (`FaultKinds`, `MaxFaults`): an insert that times out or fails for another
reason than its data, a publication to the failed queue that fails or loses its
confirm, an iterator that ends, a reconnect, SIGTERM, a kill.

An insert that fails in ClickHouse is assumed to have stored all of its rows or none
(`MayStore`). That holds for one block of one local table in one partition; ClickHouse
promises nothing of the kind for rows of several partitions or for a Distributed table
(`tables.py:68`, `:103`). `Intake` rests on the same assumption.

### 2.2 Delivery

Four sets: accepted, stored, failed, settled. Rows are stored only for an accepted
message that is not settled; only poison goes to the failed queue; a message is
settled only when it is stored, failed, or had nothing to store. `BatchWorker`
maps `settled` to "published and neither ready nor unacked at the broker"; the
other three are the same sets.

### 2.3 WorkerHeartbeat

Discrete time. `_mark_alive` (`:437-453`) writes a temporary file and renames it,
so a reader sees a whole file; in the model it sets the file's `age` to 0. A
missing file and a stale file are read alike (`cli.py:94-131`), so `age` alone
stands for the file, and a process that starts finds the file its predecessor
left. `busy` is `_busy_seconds()`: 0 while the loop is idle or backing off,
restarted by every step and by the end of every insert attempt (`:524-527`), and
not by acks, nacks and publications. Timers are not late: the event loop is never
blocked for a whole unit of time. `marked`, `lost`, `longest` and `other` are
history, read by properties only.

`Tick` is the only action that lets time pass. In `final` (the finally block) the
heartbeat task is cancelled already (`:381`), so the properties speak of
`HasHeartbeat` phases; that the final flush is unobserved is a listed hazard.

### 2.4 LiveEvents

`LogRequest` is the synchronous part of `logRequest` (the pause check, and joining
the chain), `ReadBody` the settling of its payload promise, readable or not,
`Push` the continuation that calls `store.push`, which checks the pause flag
again. `clearedAt` is history.

### 2.5 Lifespan, HealthCache, Service

`Lifespan` covers three kinds of process. In the collector (`lifespan.py`) one
backend is waited for, the proxy client and the schemas follow, and what is open
is on an exit stack whose callbacks log a failing close (`:34-47`). In the worker
(`cli.py:330-363`) ClickHouse is waited for first, then RabbitMQ, and closing is
two awaits in a finally block, so that a first one that raises skips the second.
`stack` stands for both; `unclosed` is what is open and has not been told to close.

| phase | code |
|---|---|
| `connect`, `prove`, `abort` | one attempt: opening, readiness query or queue declaration, closing after a failed proof (`client.py:53-62`, `rabbitmq.py:188-199`, `:319-330`) |
| `sleep` | `client.py:109`, `rabbitmq.py:156` |
| `warm` | `lifespan.py:194` |
| `ready` | serving, or `worker.run()` |
| `unwind` | the exit stack, or the except and finally blocks of the worker |
| `stopped`, `failed` | the process has ended, well or with an error |

`left` counts down to the deadline of the backend being opened and goes negative after
it. The environment is one bit with a clock: `up` and how long it has been so
(`steady`). An attempt fails for certain if the backend was down throughout, succeeds
for certain if it was up throughout, and may do either otherwise; `steady` is compared
with `elapsed`, the age of the attempt. `MaxAttempt` bounds the awaits of an attempt
that have a timeout: those on ClickHouse, and RabbitMQ's connect (`rabbitmq.py:107`).
Opening the channel, the prefetch window, the declarations and the close after a
failure (`:189-196`, `:320-328`) have none. There `AwaitsBroker` holds, the model
follows the wait as far as `MaxHang`, a bound of the model, and `elapsed` then stays
at it for as long as the broker likes. RabbitMQ's authentication errors may happen at
any time and end the startup at once; ClickHouse has no such case. `Interrupt` is
SIGINT during the worker's startup, which cancels it; SIGTERM has no handler until the
startup is over (`cli.py:350-354`) and ends the process without running any code.

`HealthCache` has the same bit: a check finds the backend as it was at some moment
of the check. `expires` is the time left to `_expires_at`. `asyncio.Lock` is first
come, first served, and a probe that finds it free and without waiters takes it
without an await, which `Ask` does in one step. Both checkers catch every exception,
so a check that ends has a result; nothing in the collector cancels a probe.
RabbitMQ's passive declarations (`:256-261`) have no timeout. `MaxCheck` is the longest
that a check which ends may last, an assumption on RabbitMQ; whether a check ends is a
matter of fairness and of `ProbesAnswered` below.

`Service` lets the health cache act only while a collector is `ready`; both read the
same backend bit. That uvicorn starts requests after the startup and shuts down after
the requests in flight is external.

### 2.6 Envelope and Transport

`Envelope` has no state. A key id stands for its key pair. The cryptography is
ideal: a ciphertext is the record of key, nonce, header and body it was made from,
and `Authentic` compares it with what it came with, as the tag of AES-GCM does. A
body is the batch it holds, and sizes are given per batch, plain and packed.
`Altered` is what an envelope can become on its way: cut, or changed in one part
(magic, version, flags, key id, ephemeral key, nonce, ciphertext). `Builds` is what
`EncryptionConfig` and `Keyring.from_config` accept: each key from one source,
readable, parsable and of the right curve if it is enabled, and no id twice among
the enabled ones.

| Variable of `Transport` | Code |
|---|---|
| `encrypt`, `x25519`, `gzips` | the option of `initSnowplow`, `supported()`, `CompressionStream` |
| `queue` | the batches the tracker keeps in the browser's storage |
| `script` | `/e.js` in the browser's cache, with the key `encrypted_script` rendered into it |
| `page` | a page, its age, and the key of the sealer it has run |
| `req` | the POST of the oldest batch: `seal` (`seal.js:204-221`), `net`, `insert` (`process_data` and the connector), `answer` |
| `config`, `keyring`, `up` | `encryption.keys`, `app.state.keyring`, the process |
| `since` | how long the primary key has been the primary one |
| `stored`, `inClear`, `broken` | history: rows inserted, batches that left unsealed, what broke of the request: its sealing, its envelope (altered on the way), the fetch, or nothing |

`Refusal` is the order of the answers without processing: the body limit of every
endpoint, the validation of a plain body, and for an envelope its own limit and one
opaque 400. `Raising` are batches of which one value makes `process_data` raise every
time (`payload.py:111-115`, finding 3); `ProcessingFails` answers 500. `Arrive` and
`Insert` are two steps, so a stop, a loss or a closed page can fall between them, and
then the rows may land or not (`MayLand`). The operator rotates as `crypto.py:323-327`
describes: the new key first, the old ones kept for `Overlap`. An edit may also be one
that does not start (`Materials` holds what is no key); then the collector stays down
until it is mended. Left out: the base64 rendering and the GET form of an envelope,
and the streamed half of the body limit, which answers only before a response has
started: no endpoint here starts one before it has read its body. The tracker is
external except for what `snowplow.ts` configures.

### 2.7 UserAgentCache, Payload, Intake

`UserAgentCache` follows a request through `parse_agent_for_insert_async` and
`run_cpu_task` (`new`, `waiting`, `ready`, `failed`, on the loop) and
`_parse_agent_cached` (`thread`, `parsing`, `parsed`, `raised`, in a thread). The
thread lock makes a look-up and a store one step each; between them anything can
happen. A parsed agent is named after the request whose thread made it, which is what
lets `CacheIsSound` say that a request gets an agent of its own string and
`FirstCachedWins` that an object is not replaced. Nothing in the collector cancels a
request's task, so a slot is given back by `Release` only.

`Payload` is the sequence of steps of `parse_payload` (`payload.py:609-632`) as
operators on a row. A row has the fields that several sources can write and those that
collect what has no column; a field that is copied and never touched again says
nothing here and is left out, as is what the parser finds in a user agent. Scalars are
strings; a JSON object is a function. `raised` says that a step has raised, since
nothing up to the endpoint catches it; one way is a `client_hints` value that is no
object (`NoJsonObject`, `payload.py:221`, `:601`). `ParsePayload` hands the row from
step to step in one-element sets, so that TLC works each step out once. Validation
against the Iglu schemas only logs.

`Intake` composes them: `Refuse`, `Receive`, `ParseAgent`, then `Process`, which is
one step because nothing is awaited between the user agent and the insert, then
`Insert` or `InsertFails`: one request to ClickHouse or one message to RabbitMQ for all
rows (`ingest`, from `ingest.mode`). Publishing waits for the broker's confirm without a
timeout, which is `AwaitsBroker`.
A batch's events are processed in order from `defaults`, the dicts that all requests
share. GET is a body of one event.

### 2.8 TableBrowser

One page with two components. Each load or refresh takes a ticket, and its answer
counts only if the ticket is the newest (`EventsTable.vue:80-127`,
`TableSelector.vue:20-40`). Vue runs watchers in the next flush and not when what they
watch changes: `changed` and the difference between `chosen` and `table` are what the
flush has to do, `Flush` does it, answers may come before it, clicks may not.
`RefreshTables` is the selector's button (`TableSelector.vue:80-82`), which is
disabled while the list loads. The tables of a server do not change while the page is
open, so what a refresh shows differs from the list before only if the server does or
an answer failed. `FlushTable` merges the two watchers of `EventsTable` and its
mounting as one flush runs them: columns and page are forgotten for a new table or
server, and one load follows. A query is described by where it was sent and what it
asked for, since the settings may change while it is on its way. The page size, the
password, escaping and rendering are left out. The settings form is in another view,
but both components watch the settings and are tested for changes while they are
mounted, so the model changes them at any time. A `load()` without a table is not
reached, as `v-if` unmounts `EventsTable` first.

## 3. Runs

| Run | Specification | States | What it shows |
|---|---|---|---|
| `worker_faults` | `Spec` | 1.6 million | type, `NoLoss`, `SettledAtMostOnce`, `ExactlyOnceWithoutFaults`, `NoFullBatchWaits`, `NoHotRetry`, and `Delivery` as a property |
| `worker_liveness` | `FairSpec` | 0.1 million | `EventuallySettled` |
| `worker_heartbeat` | `Spec` | 0.14 million | no stall missed, no false alarm, splits are no stalls, lost writes |
| `live_events` | `FairSpec` | 600 | the log in request order, the chain drains |
| `transport` | `FairSpec` | 118,000 | nothing in the clear, only sealed bodies open, rotations close out nobody, the collector's answers drop a batch for a cause only, the queue drains or waits for a batch that is refused for ever |
| `intake` | `FairSpec` | 145,000 | cache and slots, precedence of the sources of a row, all rows of a request or none, every request answered that is not itself waiting for the broker |
| `table_browser` | `Spec` | 1.6 million | what is shown is what was asked for last, the selected table exists |
| `service` | `FairServiceSpec` | 38,000 | startups begin no attempt after the deadline, end unless the broker leaves one unanswered, find a backend in time and leak nothing; what is left open at the end and why; probes get a current status, one check at a time, none in vain, and an answer unless RabbitMQ's check hangs |
| `worker_signal` | `Spec` | violation | finding 1 |
| `worker_outage` | `Spec` | violation | finding 2 |
| `payload_values` | `Spec` | violation | finding 3 |
| `transport_outage` | `Spec` | violation | finding 4 |

Bounds, and why they are enough:

* `worker_faults`: batches of four rows and a window of four. The constraint `Traffic`
  keeps to two kinds of behaviour, both of this one specification. In the first, three
  messages of two rows (one poison) in two groups, at most two of them delivered at a
  time, and any two faults: two deliveries in one group fill a batch and can be split;
  the third message, of the other group, is delivered while the first group fails, and
  has to wait until something is settled. Two faults cover every pair: an insert that
  fails and a connection lost before its nack, a cancel during the flush a timeout began
  and a kill during the final flush. `MaxExponent = 0` makes the second failure in a row
  overflow, so that `OverflowBackoff` is reached within the bound. In the second, no
  faults, six messages of at most one row: four deliveries in a batch, two of them
  poison, and an undecodable and an empty message. Splits go two levels deep with poison
  in either half. In both, all messages are published before the first is delivered: the
  order and the time of deliveries are free, so the worker sees no difference. Left out
  are longer batches with faults.
* `worker_liveness`: `BatchSize` 3 with two one-row messages, so no batch ever
  fills and the timeout has to move them; two faults.
* `worker_heartbeat`: one unit is 20 s, which makes every constant of the code
  exact (heartbeat 40 s, stale 120 s, grace 60 s, insert timeout 60 s, backoff
  60 s). `MaxAge` 10 lets a step outlast the stall threshold by more than the
  stale age.
* `live_events`: four requests, a log of two entries.
* `service`: a deadline of 3 with an interval of 2 makes the last sleep short;
  attempts of up to 2 can cross the deadline, begin on it, or end before it, and
  `MaxHang` 4 lets one that RabbitMQ does not answer outlast the deadline by more than
  its timeouts. Three probes: one checks and two queue, of which the first finds the
  result fresh and the second, after a delay, may not. TTL 2, and 0, which means none.

* `transport`: five batches in the tracker's queue: one that fits, one above the
  ceilings even packed, one that is small packed and too large unpacked, one the
  schema refuses, one whose processing raises. `Pendings` has two orders, one with the
  raising batch last, so that all others get their turn, and one with it in front of a
  good one, which it blocks. All modes of the page (encrypting or not, with and
  without X25519 and gzip). Two keys are one rotation, with a material that is a key
  and one that is not, and ids in use. `MaxAge` 2, `PageLife` 1 and `Overlap` 3 are
  the smallest with which a cached script can outlive a page and the overlap is tight.
* `intake`: three plain requests of two agents with caches of 0, 1 and 2 entries and
  two slots: one waits in line, two parse the same agent, the third evicts; in direct
  mode and in rabbitmq mode, where each may wait for its confirm for ever. Single
  requests carry about 1,700 bodies: every ordered pair of contexts that override
  columns, each such context with each event, texts encoded and not, devices from
  every source, and batches of two in which one is refused, raises or is of another
  visitor.
* `table_browser`: a server with a plain table, one without the column "time" and one
  with a name that is rejected; a server with one table; an empty one. Three clicks
  are enough for two answers that are out of date and a third load under way.

Deadlock is checked in the worker's, the heartbeat's and the live log's runs. In
`service` an ended process stops, in `transport` a tracker with an empty queue may, in
`intake` answered requests do, and in `table_browser` the clicks are used up.

Fairness. `FairSpec` of `BatchWorker` assumes that asyncio resumes a task whose
await is ready (`Worker`), that the broker delivers what it may and reads what it
is sent (`Deliver`, `ProcessAck`, per message: a queue hands out its messages in
order), that the iterator returns each delivery it holds, and that a stopped
worker is started again (`Restart`: `restart: on-failure` in `compose.yml`; after
SIGTERM the exit status is 0 and the restart is the operator's or the rollout's).
No fault is fair, and the bound on faults says that they end. Weak fairness of
`Worker` as a whole is enough because a single task has one thing to do at a time;
only in `wait` do two of its actions, and those of the broker, compete, and there
the timeout is the one that stays enabled. In `LiveEvents`, reading a body ends
(the bodies trackers send are in memory) and the browser runs a ready
continuation.

In `Service`, `Intake` and `Transport` only an await with a timeout is taken to end.
`Service`: time passes, the event loop resumes each probe whose lock or check is ready,
and an attempt ends while it awaits ClickHouse (connection, query and close timeouts of
the client) or RabbitMQ's connect (`rabbitmq.py:107`). What else it awaits of RabbitMQ
need not end (`AwaitsBroker`), nor RabbitMQ's check (`CheckAwaitsBroker`), nor a close;
`StartupEnds` and `ProbesAnswered` except exactly these waits: a startup ends unless its
own attempt hangs for ever, and a probe is answered unless its own check hangs or, with
a TTL, the one that holds the lock. Backends owe nothing: they may stay down for ever,
or flap. `Intake`: the loop serves every connection, threads get to run, and a
ClickHouse insert ends with its timeout; a confirm of the broker need not come
(`AwaitsBroker`), and then that request, and no other, goes unanswered. In `Transport`,
pages end, visitors return and the operator starts the collector and takes back an edit
that does not start; now and then, while the collector serves, a visit is long enough
for the next step, the network works, and so does the insert of a batch that can be
processed, whereas a batch in `Raising` is never inserted. These are strong, since any
of them may be cut off any number of times. Nobody owes a rotation. `TableBrowser`
assumes nothing.

### Findings

1. **SIGTERM does not flush the batch in hand** (`worker_signal`).
   `flush_table_group` pops the batch (`rabbitmq.py:654`) before it inserts it.
   SIGTERM cancels the task at the insert; nothing catches the cancellation, and
   the `flush_all` of the finally block no longer finds that batch.
   `cli.py:350-351` says that "the finally block below flushes the batch in hand".
   Nothing is lost (`NoLoss` holds through the cancel): closing the channel
   requeues the messages, and they are inserted again if the first insert had
   landed.
2. **A long outage ends the worker** (`worker_outage`). `2.0 ** (max_failures - 1)`
   (`:416`) overflows at the 1025th failure in a row, before `min` applies the cap
   of which `:276` says that it keeps the consumer going while ClickHouse is
   persistently unavailable. With the cap of 60 s that is about 17 hours of outage.
   The process restarts and nothing is lost.
3. **A number where an id is due fails the whole batch** (`payload_values`).
   `_safe_uuid` (`payload.py:104-117`) promises that "a bad value must not raise and
   abort the whole ingest" and catches `ValueError` and `TypeError`; `UUID(5)` raises
   `AttributeError`. The request is answered 500, none of its events is stored, and
   the tracker sends the batch again.

4. **A network failure drops a sealed batch** (`transport_outage`). The `catch` around
   sealing (`seal.js:233`) also catches a `fetch` of the envelope that was lost, refused
   or aborted, and answers 400, which the tracker does not retry. Its comment says that
   the batch is "dropped rather than retried forever against a broken sealer"; the run
   drops one whose sealer works. In the clear the tracker sees the failed request and
   keeps the batch.

Smaller differences met on the way, without a run of their own:

* In the clear, 413 is not among the statuses the tracker does not retry
  (`snowplow.ts:80-84`), so a batch above the body limit stays at the head of the queue.
  So does, in either mode, a batch whose processing raises every time (finding 3): it is
  answered 500 and blocks what is behind it. `QueueDrains` names both
  (`RetriedForever`), and holds for every queue without them.
* Neither a startup nor a health check nor the publication of a request has a timeout
  once RabbitMQ is connected, as `rabbitmq.py:297-298` says of AMQP operations in the
  worker. A broker that accepts connections and blocks holds a startup beyond its
  deadline, and a health check keeps the lock of the cache, so that with a TTL every
  probe waits. `StartupEnds`, `ProbesAnswered` and `RequestsAnswered` say how far this
  goes.
* A page keeps the key of the sealer it loaded, however long it is open; the comment at
  `encrypted.py:46-47` counts only the age of the script. `Overlap` has to cover both.
* Like finding 3: `_apply_amp_linker` parses the address outside its `try`
  (`payload.py:515`), so a malformed host raises, and so does a client hint `isMobile`
  that is text and no number, and `client_hints` that are no object.
* A property given as an object in a struct-to-unstruct event is dropped
  (`payload.py:564-566`).
* `scripts download` removes the marker of the version before only after the new files
  are complete. A download that fails half way leaves files of two versions under the
  old marker, and a later download of the old version reports it as present.

## 4. Proofs

Every theorem holds for every value of the constants allowed by the module's
assumption: any set of messages and groups, any assignment of rows, any batch
size, prefetch window, exponent limit and number of faults.

**BatchWorkerProofs.** `TypeCorrect`: `Spec => []TypeOK`. `NothingLost`:
`Spec => []NoLoss`. `NoLoss` is not inductive: an ack is sent for what is in
`settling`, and what is there was stored, isolated or discarded some steps before.
The invariant adds `SettlingResolved`: whatever is about to be acked or rejected is
resolved already. The argument then has one step per action.

`NothingRetriedHot`: `Spec => []NoHotRetry`, and `FullBatchesFlushed`:
`Spec => []NoFullBatchWaits`, both from `FlushInv`. `FlushPhase` says where in a flush
the worker is and that the group in progress is none of those still to visit;
`SleptOff` that the loop waits, and visits groups, only with their failures slept off;
`FullIsFlushed` that a full batch is one the running flush has yet to visit; and
`RowsCounted` that `pending_row_counts` is the sum of the rows of `pending_batches`.
The last needs facts about sums of any length: `SumFunction` of the community modules
is a fold over subsets chosen by `CHOOSE`, so `SumsAnyOrder` first shows that the
order does not matter, and `SumOfAppended` follows.

**BatchWorkerDelivery.** `SettledOnce`: `Spec => []SettledAtMostOnce`. A delivery
moves from the iterator's buffer through the fetch task, a batch, a slice of
`work` to `settling`, and the property says it is in one of those places only.
The invariant `OnceInv` adds, for each place, that its lists are injective and
disjoint (`PendingApart`, `WorkApart`, `PlacesApart`), that the broker's sets are
apart (`BrokerApart`), that every held delivery of the current connection is
awaited by the broker (`HeldAwaited`), that no delivery is of a later connection
(`HeldKnown`), and that nothing is left in `settling` outside `settle`
(`NoStraySettling`). Lemmas about injective sequences under append, tail and split
carry the list part.

`InsertedOnce`: `Spec => []ExactlyOnceWithoutFaults`. `FaultFree` adds to `OnceInv` what
holds before the first fault: nothing fails, so nothing is nacked and no group backs
off; what is stored or in the failed queue has left the broker's queue; and nothing
the worker may still insert is among it. The two halves of a rejected slice hold
different messages (`OnceInv`), so storing one takes nothing from the other.

`Implements`: `Spec => DeliversAtLeastOnce`. Step
simulation under `OnceInv`, `NoLossInv` and four more facts: what the worker
holds was published, the batches hold no message without rows, what is being
published to the failed queue was rejected, and stored and poison are apart. Every
action maps to `Accept`, `Store`, `Isolate`, `Settle` or a stutter.

**WorkerHeartbeatProofs.** `TypeCorrect` and the four properties follow from
`HeartbeatInv`, which says how the clocks run together: what `busy` is made of in each
phase (`ClocksAgree`), that the file is at least as old as the time by which the step
has passed the threshold (`NotMarkedLater`), why a file is older than one heartbeat if
no write was lost (`Withheld`: the last beat was withheld, and the step still is the
stalled one or its clock was restarted since), and how far lost writes alone can age
it (`LostOnly`). The assumption `Heartbeat <= Grace` is what makes a step restarted
between two beats short enough to be marked at the next.

**LiveEventsProofs.** `LogInOrder`. The invariant adds that the chain is
increasing and later than everything in the log.

**ServiceProofs.** Three invariants of `ServiceSpec`, each inductive by itself.
`ClockInv` gives `WaitBounded` and `ReadyInTime`: an attempt began at the deadline or
before it (`-elapsed <= left`), because a sleep never ends after it, it has lasted no
longer than its awaits with a timeout allow unless it awaits RabbitMQ, and an attempt
that is being aborted was not answered throughout. `StackInv` gives
`AttemptsDoNotLeak` and `NothingLeftOpen`: it lists the shapes the stack can have in
each mode and says, of everything open, that it is on the stack, belongs to the
attempt under way, or is excused by a close that raised. `CacheInv` gives
`StatusIsCurrent`, `OneCheckAtATime` and the action property `NoNeedlessCheck`: with a
TTL every check holds the lock, and the age of the status and the age of the backend's
state grow together. `TypeCorrect` collects the types of the three.

**TransportProofs.** Three invariants, each resting on those before it. `ShapeInv` is
the type, what a configuration that does not start looks like (one edit away from the
running one), and that a request is of an open page and carries what that page wrote.
`KeysInv` follows a key from the script the collector served to the page that holds
it: whoever holds a key that is not the primary got it before the primary changed, so
`since` is bounded by the age of script and page, and a key is retired only when
`since` has reached `Overlap`. This gives `Rotation`, and is where the assumption
`MaxAge + PageLife <= Overlap` is used. `FateInv` says what an answer tells of its
batch: 204 only with its rows stored, a status that is not retried only if the
sealing, the envelope or the fetch broke or no retry could store the batch. That needs
`KeysInv`: an unbroken sealed request finds its key in the keyring.
`NoLossWithoutCause` speaks of the collector's answers; the 400 that the `catch` of
`seal.js` makes up is finding 4 and no part of it. It gives `Confidential`,
`NoLossWithoutCause` and `OnlySealedOpens`; the last rests on two lemmas about
`Envelope`: a keyring that has the key opens what was sealed, up to the ceiling, and
none opens what was altered.

**IntakeProofs.** First the cache by itself (`CacheSpec`): `CacheTypeOK`, `CacheIsSound`
and `SlotsAreKept` are inductive together, `FirstCachedWins` follows from them step by
step. The lemmas say what moving an entry to the end and evicting the first one do to
positions, and how the number of requests holding a slot changes when one takes,
returns or passes on its slot. `UsesCache`: `Spec => CacheSpec`, every step of a request
is a step of the cache or leaves it alone; so `CacheInCollector` has the same properties
of the whole of `Intake`.

Then the requests. `RowsAllOrNothing`: `Spec => []AllOrNothing`, and
`RowsOfOwnEvents`: a stored row is `parse_payload` of its own event, with the cookies
of its request, a parse of the request's own user agent, and the defaults nobody has
changed. Both follow from `IntakeInv`: the defaults are still the initial ones
although rows update the dicts in place, a request that is ready has an object of its
agent (from `CacheInv`), and what a request has made or stored is `RowsOf` its body at
every stage (`StoredOf`). `LoopOverEvents` is the fact behind it: the `FoldLeft` of
`process_data` makes one row for each event, in order, and gives back the defaults it
began with, for lists of any length.

Last what a row says. `RowsPrecede`: `Spec => []RowsFollowPrecedence`, for any number of
contexts in any order. The property is stated on the whole event ("the last context that
names a user"), the code works step by step, and the proof goes from one to the other:

* `HandleMakes`: what each handler writes, for every schema and every data, is what
  `NamesUser`, `Views`, `Measures` and the others say of its context, and it leaves the
  rest of the row alone (`ContextMakes`);
* `LastWriteWins` and `SetsGrow`: a value that some of the positions 1 to n overwrite
  ends as the last of them wrote it, and a set they add to has what each added.
  `ContextsSay` applies them to each field along the rows that `parse_contexts`' loop
  goes through (`ContextsTrace`), which gives `ContextsMake`;
* one lemma for each later step (`EventSays` to `ViewSays`) says which fields it
  changes (`ChangesOnly`) and to what; `ChangesOnly` also says that an error found
  before the step is not forgotten, so a row that is stored has gone through all steps
  without one;
* `StepsAre` takes `parse_payload` apart into the ten rows between its steps, and
  `DeviceIs`, `UrlIs`, `ReferrerIs`, `ViewIs`, `KindIs`, `MobileIs`, `OthersAre` and
  `KeysAre` follow the fields through them. Two things need more than bookkeeping: a
  screen's name may be in the event and in contexts, and replaces the name of the view
  that an earlier step has written; and no context is kept in `ue` under "screen_view"
  or "amp_page_ping", so what the later steps find there is the event
  (`ContextsAreNoViews`);
* `RowIsRight` puts them together, and `StoredIsRight` takes it to the stored rows, of
  which `RowsOf` says that they did not raise.

`IntakeAssumption` says that the events of a body are a list, that a text reads as
nothing, no JSON, an object or an error, and that the contexts of one that reads are a
list. The code accepts any JSON there: what can be iterated but is no list of objects
is a list of contexts that are skipped, and what cannot be iterated raises, which is
the form "raises".

**TableBrowserProofs.** `TableShowsItsPage`: `Spec => []ShownIsCurrent`. `LoadTickets`
says that a ticket is given out once, so that at most one load in flight is the
newest; `LoadStatus` that "loading" is there exactly while that one is in flight. What
makes the property inductive are `ColumnsCurrent` and `RowsCurrent`, which say of the
newest load, at both of its requests, that it asks for the table, server, columns and
view at hand unless a watcher is yet to run. `SelectedTableExists`: `Spec =>
[]SelectionExists`, from the same three facts of the selector (`RefreshTickets`,
`ListStatus`, `ListCurrent`).

Induction. The library's induction theorems take an operator as a parameter, which the
provers cannot instantiate. `LeastNumber` and `Induction` derive what is needed from
the well-foundedness of `<` on the natural numbers, which is stated over a set: a set
of numbers that has 0 and the successor of each of its members is `Nat`. With these, a
fold is reasoned about through the function its definition chooses (`SumsExist`,
`LoopExists`). Both modules that need them state them, since they have no module in
common.

Only model-checked:

* liveness (`EventuallySettled`, `ChainDrains`, `StartupEnds`, `ProbesAnswered`,
  `QueueDrains`, `RequestsAnswered`): fairness and `ENABLED` are beyond the prover.

Every invariant and every safety property of steps that a passing run checks is a
theorem.

## 5. Not modelled

`PROJECT.json` gives the reason for each component without a module. In short: the
table manager runs `CREATE ... IF NOT EXISTS` statements one after the other, with
nothing to undo and nothing concurrent; the signed proxy checks its arguments and
streams one request, without state of its own; the one-shot commands are sequential;
Iglu validation only logs; client addresses are pure parsing. Schemas, column lists,
field names, logging, metrics, static files and rendering are left out for good.

Inside what is modelled: in `BatchWorker` a process that starts is connected
(`Lifespan` has the startup), the dependency half of the healthcheck, the exact delay
of the backoff, the time a message waits for the flush timeout, changes of the wall
clock, which would shift the age the healthcheck computes. In `Transport` and `Intake`
rows count as stored when the connector's call returns, which in direct mode may be
before ClickHouse has flushed them. In `Transport` one page is open at a time.

## 6. Plan

What is left, in order of what matters to an operator:

1. `FlushTimer`: how long a message can wait for the flush timeout under a trickle of
   other messages.
2. `Collector`: `Intake`, publisher and `Delivery` end to end in both ingest modes.
