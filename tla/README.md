# rs-broker: verification

TLA+ specifications of rs-broker, the TLC configurations that model-check them
on small instances, and theorems that the TLA+ proof system (TLAPS) checks for
every value of the constants. Paths below are relative to the repository;
`publisher.rs:95` stands for the file of that name under `crates/`.

    tlc -config Outbox.cfg MCOutbox        # model-check one run
    tlapm OutboxProofs.tla                 # check the proofs of one module

`PROJECT.json` lists the components, runs, mutants, theorems and hazards, and
maps each definition to the lines it models.

## 1. The system

rs-broker is an outbox/inbox bridge between gRPC and HTTP clients, a SQL
database and Kafka.

| part | state | operations |
|---|---|---|
| configuration (`settings.rs` and the sections) | none after loading | merge three layers, refuse, build a URL |
| process (`main.rs`, `app.rs`) | main, the tasks it spawned, two ports, open connections | load, build, run, shut down |
| HTTP gateway (`routes.rs`, `dto.rs`) | none | refuse and convert requests, convert events |
| publish RPCs (`accept.rs`, `service.rs`) | none of their own; rows of `outbox_messages` | publish, publish_batch, stream_publish, cancel, status |
| outbox drain (`publisher.rs`, `outbox/repository.rs`) | rows with status, retry_count, updated_at; the batch a publisher has claimed | claim, send, release, retry, dead-letter, mark published |
| Kafka producer (`producer/client.rs`, `adapters.rs`) | in-memory queue of librdkafka, unread delivery reports | send, (flush, never called) |
| consumer loop and inbox (`app.rs`, `consumer/client.rs`, `inbox/repository.rs`) | position, channel of polled messages, buffer, rows of `inbox_messages` | poll, dispatch, broadcast, store a batch |
| subscriber dispatcher (`delivery/dispatcher.rs`) | endpoint cache, a circuit breaker per endpoint | refresh, fan-out, record an outcome |
| channel pool (`adapters/callback.rs`) | a pool of connections per endpoint | get_channel, put_channel |
| subscription registry (`service.rs`, `subscriber/repository.rs`) | rows of `subscribers` | register, unregister, update, list |
| event streams (`sse.rs`, `service.rs`) | a bounded broadcast channel, a position per stream | subscribe, read, lag, close |
| topic matcher (`topic.rs`) | none | matches_topic |
| dead letters (`dead_letter/handler.rs`, `dlq/repository.rs`) | rows of `dlq_messages` | move_to_dlq, reprocess, list |

How they interact: main loads the settings, connects, migrates, spawns the
gRPC server, the publisher and the consumer, and serves HTTP itself until a
signal. The publish RPCs insert rows; the drain claims rows, calls the message
sink and writes statuses back; several replicas share the table. The consumer
loop reads Kafka through a channel, calls the dispatcher, which calls
subscribers over pooled connections, then broadcasts the event to open streams
and finally stores the message with others in one insert. A background task
refreshes the dispatcher's cache from the registry's table. The reprocess RPC
copies dead letters back into the outbox.

What is hard: nothing spans two statements with a transaction, except a claim
and a batch insert, so that any two steps below may be separated by steps of
other handlers, other replicas, a failed statement, a lost answer or a crash.
Claims are protected by a lease on `updated_at`, snapshots outlive the locks
they were read under, channels and queues are bounded, a breaker's outcome
arrives after its endpoint may have been removed, and main never awaits the
tasks it spawns. `PROJECT.json` lists these hazards line by line with the
properties that watch them.

## 2. Modules

| module | models | state and actions |
|---|---|---|
| `Configuration` | `load_from_file`, the URL, which settings are read | operators only: `ValueOf` merges the layers, `Refused`, `ConnectionUrl`, `Effective` |
| `Lifecycle` | processes on one host, from load to exit | `main` is a program counter, `grpc`, `publisher`, `consumer` the tasks, `call` the open connections; one action per step of build and run, `Signal`, `Drained`, `StopPublisher`, `Return`; failures `BuildFails`, `RouterPanics`, `Killed`, a port that is taken |
| `MessagePath` | the data of a message on each hop | operators only, one per conversion: `IntoProto`, `OutboxMessage`, `ProducerMessage`, `InboxMessage`, `DeliverNotification`, `DeliverEvent`, `DeliverEventDto`; `ArrivesAsAsked` relates the first to the last |
| `PublishRpc` | the RPCs up to the row, over both transports, and cancel | handlers are `Refused` or build messages (`Submit`), insert (`Insert`, `InsertUnanswered`) and answer; `Dropped`; `CancelCheck`, `CancelDelete`, `CancelFails`; `Take` is the claim of a publisher |
| `Outbox` | drain, repository, cancel | the columns of each row; `phase`, `batch`, `hand`, `sent` are the locals of `publish_pending`. `Claim`, `SendTaken`/`SendBackpressure`/`SendFails`, `ReleaseClaim`, `IncrementRetry`, `UpdateStatus`, `MarkPublishedBatch`; failures `ClaimLost`, `StatementFails`, `MarkFails`, `Crash`; clients `Accept`, `CancelCheck`, `CancelDelete`, `CancelFails`; the clock `LeaseExpires`. `Messages` are publications and `Id` is the id of each, since a cancelled id can be published again; statements find rows by id (`RowsOf`). The ghosts `reused` and `overrun` name the contested messages |
| `OutboxPromise` | what a client is promised | an accepted message is owed until it is taken, buried after max_retries + 1 failures, or withdrawn; it is disputed once a withdrawn id is handed over again too early or an attempt outlasts its time |
| `OutboxRefinement` | `Outbox` implements `OutboxPromise` | maps each status to a fate; contested messages are disputed |
| `KafkaSink` | `Outbox` composed with the Kafka producer | the sink's answers follow from a queue with `QueueCap` places; `Transmit`, `TimeOut`, `CrashWithQueue` |
| `InboxConsumer` | polling task, loop, inbox | a partition, offsets, the mpsc channel, the buffer; one action per stage of an iteration; `Crash`, `Start`, `Rebalance` |
| `InboxPromise` | what the consuming side promises of a partition | a message is ahead, held, delivered, stored or gone; `Take`, `Deliver`, `Refuse`, `Store`, `Join`, `Mishap` |
| `InboxRefinement` | `InboxConsumer` implements `InboxPromise` when its settings never take it back | reads the fate of a message off rows, buffer, channel and position |
| `Delivery` | dispatcher, breakers, cache | `DispatchToAll`, `Dispatch`, `Record`, `Load`, `Merge`, `CoolsDown`; the table changes under it |
| `ChannelPool` | pool of connections | one action per lock that is taken; deliveries may be dropped anywhere |
| `Subscriptions` | registry RPCs over both transports | update is two statements, `UpdateRead` and `UpdateWrite`; `ActiveOf` is what a request that leaves out `active` means; `Listed` |
| `TopicMatch` | the matcher | `match_segments` as a recursive function over segments |
| `EventStream` | broadcast, gRPC stream, SSE | `Broadcast`, `Subscribe`, `ReadEvent`, `ReadLag`, `Close` |
| `DlqReprocess` | dead letters | `Select`, `CreateOk`/`CreateFails`, `DeleteOk`/`DeleteFails`, `Answer`, `Drop` |

`MC*` modules give constants their values for TLC, `*Proofs` modules hold the
theorems; `DeliveryProofs` covers `ChannelPool` too, and `OutboxProofs`
`KafkaSink`. A definition marked "Mutant" is the way a bug would change the
definition after it; no specification uses it.

Abstractions used throughout: messages and subscribers are numbers or model
values; a payload is bytes of a class (empty, the text of a JSON value of one
of four kinds, not JSON), a setting a value of a class (plain, empty, zero,
mistyped, ...), whichever the program branches on; `created_at` order is the
order of numbers; a lease is expired or not; a statement either happens,
fails, or happens and loses its answer. Ghost variables (marked so) record
history for properties and are read by no guard.

## 3. What the runs check

| run | instance | distinct states | question |
|---|---|---|---|
| `lifecycle` | 2 processes, 2 connections, 8 ways to launch, 1 fault | 264,000 | ports have one owner, nothing outlives main, what works while HTTP is served, settings come from the highest layer that gives a documented name and misnamed ones set nothing, only a statement or one HTTP connection can hold main for ever |
| `shutdown_hangs` | 1 process, 1 connection | violation | a shutdown ends, as `server.rs:37` says |
| `publish_rpc` | 3 calls, 2 cancels, 2 given and 2 drawn ids, 10 kinds of RPC, 1 fault | 504,000 | stored together, successes are the call's own, answers are true, messages arrive as asked |
| `outbox` | 2 publishers, 2 of 3 publications of 2 ids, 1 fault (a late batch is one), max_retries 1 | 490,000 | claims disjoint, retry budget, final statuses, cancelled messages, the promise, all with the exceptions they have for contested messages; the drain comes to an end again and again |
| `kafka_sink` | 1 publisher, 2 messages, queue of 2, 1 fault, 1 loss | 644,000 | the composition is an outbox; records accounted for; the drain comes to an end again and again unless clogged |
| `kafka_clogged` | queue of 1, no fault | violation | the queue drains, as `ports.rs:118` says |
| `inbox_consumer` | 5 messages, one unparsable, channel of 2, batches of 3, with and without automatic commits, reset to the latest and to the earliest, 2 faults | 513,000 | nothing polled is lost, repeated or reordered; bounded batches; one row; rows follow deliveries; silence only after a bad message; everything else is stored; the refinement of `InboxPromise` |
| `inbox_silence` | 3 messages, one unparsable | violation | nothing waits, as `app.rs:460` says |
| `delivery` | 2 subscribers, thresholds 3 and 2, 1 call at a time | 56,000 | breakers open and close exactly; fan-outs end; caches follow the table |
| `event_stream` | 1 gRPC and 1 SSE stream, channel of 2, 4 events | 130,000 | streams are faithful; the matcher agrees with its table |
| `subscriptions` | 2 rows, 2 updates, 12 kinds of request over both transports, 1 fault | 247,000 | only overlapping updates undo each other; who comes back into the list |
| `dlq_reprocess` | 3 entries of 2 topics, 2 calls, pages of 2, 2 faults | 77,000 | copies bounded, counts add up, every entry gets its turn |

Every property has a mutant, a plausible bug in the code, that TLC finds under
the same configuration.

**Lifecycle.** The gRPC port stays with a process until its end while the HTTP
port is free from the signal on, so a restart that overlaps may come up
without gRPC for good. A failed start, a panic of the router and a bind
failure take everything down. An orderly end cuts gRPC calls only. While HTTP
is served or drained, the publisher runs unless its interval is zero, and the
consumer unless there are no topics or it could not be created. What holds a
start or a shutdown for ever is a statement the database does not answer, or
one HTTP connection: a stream, or a request whose body or statement never
ends. A setting takes the value that the highest layer gives under a name the
documents have for it, except for the seven names of `Misnamed`, which set
nothing (section 5).

**Publish RPCs.** The unique key decides every race between calls that name
one message: a single one succeeds, unless a cancel removed its row first.
The valid requests of a batch become rows as a whole or not at all. An error
may come with a stored message only if an answer was lost. What is stored
reaches each reader with the topic and value that were asked for, the streams
also with the key; event type and headers of the request do not travel.

**Outbox.** Two things let two pieces of work meet on one row, and the code
prevents neither: a batch that outlasts its lease (`overrun`), and a cancel
that deletes a claimed row whose id is then published again while the claim is
in work (`reused`). For every other message no two publishers hold it, final
statuses stay, retries never exceed max_retries, it is published only after a
send of its own and buried only after max_retries + 1 failed ones, and each
step of the drain is a step of `OutboxPromise` or invisible to it; no contested
message spoils this for one that is not. On a contested message retries exceed
the limit by at most one per further publisher. A cancelled message gains no
sender and no statement brings it back. `EverythingSettles` says that the table
is again and again without a row to drain: a late statement may reopen a row
that was settled, but then it is drained again.

**Kafka.** The adapter answers backpressure exactly when the queue is full,
and the composed system is an outbox (`IsAnOutbox`). "Published" means "in the
queue of a producer": `TakenIsAccountedFor` and `PublishedArrives` name the
two ways such a record can still be lost. A producer whose delivery reports
nobody reads clogs (`kafka_clogged`).

**Consumer.** Batches lose, repeat and reorder nothing as long as nothing
fails, wherever it starts. With the settings of `config/default.toml` (no
commits, reset to the latest) it never goes back (`NeverGoesBack`), and each
step is a step of `InboxPromise` or invisible to it, whatever fails: messages
go through in order, none is stored undelivered, and none gets two rows. (The
code dispatches at `app.rs:424` and inserts at `app.rs:463`; the documents have
it the other way round, see section 5, and a row that is stored before its
message is delivered exists in the mutants only.) With
automatic commits, or with the reset to the earliest that `compose.yml` and
the default of the field have, it may. A payload that does not parse skips the
flush check (`inbox_silence`), and that is the only way to leave messages
waiting.

**Delivery.** Refreshes that overlap with calls never let an outcome meet an
open breaker, and never shorten a run of failures or probes.

**Streams.** A stream hands over what matches and the channel still has, in
order; an SSE client can tell that it missed something, a gRPC client cannot.

**Subscriptions.** A lost update needs an overlap. Who is unregistered comes
back by an update that asks for it, or by a PATCH of something else, because a
missing `active` means true over HTTP; over gRPC it means false.

**Dead letters.** Copies of an entry beyond the first cost an overlapping call
or a fault each.

### Bounds

Two publishers are needed for a race on a row; two messages make batches with
different fates. The third publication has the id of the first, so two of the
three (`MaxPublished`) are either two messages at once or one, cancelled and
published again. One fault is a crash, a failed statement or delete, a lost
answer or a batch that outlasts its lease: each can be the one that matters. max_retries 1 has a first, a last and a refused retry. A
queue or channel of two is full, half full and empty; pages of two of three
entries leave one behind. One or two faults place every failure at every step.
Three publish calls are two that race and one that repeats; two cancels are
one that is overtaken by a new row of the same id and one more. Threshold
three separates "one failure", "one below" and "at" the threshold, two probes
separate the first from the last. Five messages fill batches, channel and a
remainder. Two processes are a server and its successor; the eight launches
have each a class of value, or a combination of layers, that takes another
branch. All counters are bounded by guards named in the configurations
(`MaxPublished`, `MaxFaults`, `MaxLosses`, `MaxEvents`, `LogSize`). Symmetry is only used in
runs without liveness properties and for identities no definition names.

### Fairness

- `Lifecycle`: weak fairness of main's next step where it awaits no statement,
  and of the gRPC bind: the runtime polls them, and what they await returns.
  Nothing is assumed of requests, streams, statements, signals or kills. The
  router has no timeout layer (`app.rs:222`), a body and a handler are awaited
  as long as they take (`app.rs:324`), and the pool bounds the wait for a
  connection only (`acquire_timeout`, `pool.rs:35`).
- `Outbox`: weak fairness of a publisher's progress (the tick interval goes
  on, awaited calls return) and of the lease; strong fairness, for each
  publisher, of a sink answer other than backpressure, which is an assumption
  about the sink. `KafkaSink` drops it: weak fairness only, and the conclusion
  excludes a clogged producer.
- `InboxConsumer`: the runtime polls its tasks, and a process is started again.
- `Delivery`: the refresh interval goes on (`app.rs:360`), calls end because
  of their timeout (`dispatcher.rs:319`), a breaker's clock goes on, and
  messages keep coming for each cached subscriber, an assumption about traffic.
- `EventStream`: clients that stay connected keep reading.
- `DlqReprocess`: statements return, and operators keep asking for all
  entries.

Crashes, faults, cancels, rebalances and disconnects are never assumed.

## 4. What is proved

For all constants that satisfy the assumptions named in each module (finite
sets, natural bounds, distinct model values):

- **`OutboxProofs`**: types; the inductive invariant `IInv`, which assumes
  nothing of how long batches take or of which ids are published again. An id
  has one row at most (`IdsAreUnique`) and is in one place of a publisher
  (`IdsInOnePlace`); a publisher that holds one publication of an id can meet
  another one only if one of the two was reused (`StrangersAreReused`), which
  is what confines the damage of a late cancel to its id. "Published only if
  taken" is not inductive: a publisher marks what its list says, so
  `SentWasTaken` is needed. "No early burial" needs that a snapshot never runs
  ahead of the table (`SnapshotsAreOld`) and that counted retries plus
  failures in hand are failed sends (`RetriesAreFailures`), except for reused
  ids. `RetryBudget` counts the publishers that may still write a retry
  (`RetriesLeft`). Whatever a publisher holds and nobody contests is in
  "publishing" within its lease, claimed by nobody else, or was cancelled
  (`HoldersOwn`); hence disjoint claims, final statuses, and cancels that let
  go. Every step of the drain, late batches and re-published ids included,
  maps to a step of `OutboxPromise` or a stutter (`DrainKeepsPromise`).
  The last part of the module is about `KafkaSink`: the composition
  implements `Outbox`, so that the theorems above hold over Kafka; queues stay
  bounded; every record the sink took is accounted for.
- **`PublishRpcProofs`**: `PublishInv`, for any calls, requests, ids and
  faults. That a success is the call's own needs to know that a handler before
  its insert has stored nothing (`RowsHaveCalls`), and that what a cancel
  deletes is remembered. Then `AnswersAreTrue`, in which "messages arrive as
  asked" is a lemma about the conversions alone (`MessagesArriveAsAsked`).
- **`SubscriptionsProofs`**: what a handler is about to write is what its
  request asks for and, in fields nobody has changed since, what the row holds
  (`SubscriptionInv`); hence `OnlyOverlapsUndo` and `OnlyUpdatesRevive` for any
  number of concurrent updates.
- **`InboxConsumerProofs`**: types, bounded batches (a full buffer is always
  about to be stored), silence only after a payload that does not parse, rows
  only of what was dispatched, and no second row if the consumer never goes
  back, from the order of all that was polled (`OnlyForward`). Until something
  fails, inbox, batch, buffer and channel hold, in order and once each,
  exactly the messages polled so far that parse (`PolledIsAccountedFor`). Order
  comes from `PolledInOrder`, completeness from `NothingSkipped`: every
  message before the position was kept or does not parse. The refinement of
  `InboxPromise` (`ConsumerKeepsPromise`) needs besides that a message comes
  to its dispatch for the first time (`AwaitsDispatch`): then whether it was
  dispatched tells apart what of the buffer is held and what is delivered,
  and its fate is where it is (`FatesHold`). A consumer that may go back
  delivers messages again, and the refinement promises nothing of it.
- **`DeliveryProofs`**: types, no outcome on an open breaker, counters below
  the thresholds, breakers open and close only after full runs, bounded
  fan-out; from `BreakerInv`, which relates each breaker to its history.
- **`DlqReprocessProofs`**: no entry is lost, copies are bounded, counts add
  up. The invariant counts the calls that may still copy an entry for free
  (`CopiesPaidFor`).
- **`ChannelPool`**, in `DeliveryProofs`: a delivery always works on the one
  pool of its endpoint, pools are private, bounded and never replaced. This
  module has no run; the theorems cover any number of deliveries, endpoints
  and pools.
- **`LifecycleProofs`**: `IInv`, for any number of processes and connections.
  It is inductive by itself, because every end of a process resets its tasks
  and its connections in one step. `WorksWhileItServes` is not: that a
  process has spawned its tasks when it begins to serve follows from what it
  has done at each earlier step of its start (`TasksBySteps`).
  `SettingsAsDocumented` rests on lemmas about the merge of the layers alone:
  settings that are accepted give each field under one name (`OnlyOneName`),
  then the value comes from the highest layer that gives it
  (`HighestLayerWins`), and a misnamed setting is the name of no field, so
  that leaving it out changes no value (`MisnamedSetNothing`).
- **`EventStreamProofs`**: the matcher computes the table of `architecture.md`
  for topics and patterns of any length over any segments, and streams are
  faithful for any clients and capacity. The invariant `FaithfulInv` adds to
  the checked one that a stream which is closed has told nothing and one which
  is open has a subscription; what a step adds to the missing events lies
  between the old and the new position, which is what a lag notice counts.
  `OnlyOvertakenEventsAreMissing` follows from the same step.

The provers cannot use the library's induction theorems, which take a
predicate. What the proofs of `EventStreamProofs` say of recursive functions
rests on a smallest counterexample instead: a set of naturals has a smallest
element (`SmallestOf`, from the well-foundedness of finite sets under
inclusion), so a set with 0 and the successor of each member is all of them
(`InductionOverSets`). With it the walk of the matcher is shown to exist, to
be the only solution of its equation, and to be `Reach`, a formula without
recursion that is then compared with the table; likewise the sum of the lag
notices.

Every invariant and every action property that a passing run checks is proved.
Only model-checked is liveness (`~>`, `[]<>` and `<>[]`), as the provers at
hand reason about neither fairness nor ENABLED.

## 5. What the code does that its documents do not say

Three runs end in a counterexample: `kafka_clogged`, `inbox_silence` and
`shutdown_hangs`. The models contain these further differences, found while
writing them:

- A message is dispatched and broadcast (`app.rs:424`) before its row is
  inserted (`app.rs:463`). The documents have the order reversed: the inbox
  "stores incoming messages consumed from Kafka before dispatching to
  subscribers" (`data-model.md:91`), and the flow of `architecture.md:127-128`
  and `:254-255` is insert, then dispatch. So a crash may leave a delivered
  message without a row, and never a row without a delivery;
  `StoredWasDispatched` and `InboxPromise` state what the code does, not what
  these documents say. Nor does the loop check an idempotency key, deduplicate,
  commit an offset or set a row to PROCESSED (`architecture.md:127` and `:129`).
- The sets that publishers claim are not always disjoint, against
  `outbox/repository.rs:182` ("each claimed set is exclusive to this caller")
  and `publishing/ports.rs:39` ("observe disjoint sets"). There are two ways.
  A late batch: publish, claim, the lease expires, a second claim. A re-published
  id: publish, a cancel checks, a claim, the cancel deletes, the id is published
  again, a second claim. On such a message (`Contested`) a publisher may take
  back a published row, bury one whose sends did not fail, mark one that was
  not sent, or count a retry too many, because `increment_retry` and
  `update_status` write whatever the row says by now (`outbox/repository.rs:263`)
  and `outbox/repository.rs:221` marks a row that another publisher has
  re-claimed (its status is "publishing" again), against the comment at line
  218. The properties and theorems about the outbox except contested messages
  for this reason, and say what still holds of them.
- A published row may be at no broker: nothing flushes the producer before a
  process ends or reads delivery reports (`architecture.md:10`, "at-least-once").
- Offsets are not committed and, by `config/default.toml`, reset to the latest: what a crashed
  consumer had polled or missed is neither delivered nor stored
  (`architecture.md:10` and `:127`). With "earliest", the
  default of the field, every restart repeats all.
- The delay of a retry is computed and dropped (`publisher.rs:158`): retries
  follow each other at the poll interval.
- cancel deletes without a second look at the status (`service.rs:279`), and
  may delete a newer row of the same id.
- A failed send to the DLQ topic is ignored (`publisher.rs:180`); the drain
  never writes `dlq_messages`, as `move_to_dlq` has no caller.
- A repeated publish is an error, and `duplicate` is always false, against
  `architecture.md:204`. A batch with invalid requests stores the valid ones,
  against `rs_broker.proto:25`, and lists the errors first (`accept.rs:112`).
- The headers and the event type of a publish request never reach Kafka; rows
  of the inbox have no key and no event type; a stream's event type is read
  from the payload (`app.rs:443`) and its message_id is fresh.
- Bytes that are no JSON reach an SSE client as a base64 string in `payload`,
  where `http-api.md:43` has a field `payload_base64`; a JSON `null` published
  over HTTP arrives as `{}`.
- A failed callback is neither retried nor dead-lettered: the flag and the
  delay of a result are read by nobody (`dispatcher.rs:340`).
- reprocess is idempotent per entry only without overlaps and faults
  (`handler.rs:80`).
- A glob inside a segment ignores the rest of the pattern (`topic.rs:70`), and
  the pattern `events.>` of `rs_broker.proto:256` has no special meaning.
- PATCH without `active` re-activates a subscription (`routes.rs:141`), the
  gRPC request without it deactivates. list_subscribers reads neither of its
  filters; register reads neither the client's id nor its delivery_config.
- A running fan-out may re-insert a subscriber that a refresh has removed
  (`dispatcher.rs:303`); the next refresh removes it again.
- Seven documented names set nothing (`Lifecycle!Misnamed`), and the server
  starts with the default without a word:
  - `kafka.consumer_group_id` (`.env.example:67-68`, `configuration.md:66-67`,
    and `kafka.rs:154-156`, which says that `RS_BROKER_KAFKA__CONSUMER_GROUP_ID`
    "maps correctly"): the alias belongs to the struct of `kafka.consumer`, so
    the name that works is `kafka.consumer.consumer_group_id`, or
    `kafka.consumer.group_id`, which `configuration.md:375` has;
  - `database.connect_timeout_secs` and `database.max_lifetime_secs`
    (`.env.example:53` and `:55`, `configuration.md:55` and `:57`): the fields
    are `connection_timeout` and `max_lifetime`;
  - `database.min_connections` (`.env.example:52`, `configuration.md:54`): the
    pool is given `min_idle_connections`;
  - `server.grpc_port` (`.env.example:20`, `configuration.md:33`): the server
    binds `grpc.port`;
  - `dlq.enabled` (`.env.example:168`): the publisher reads `retry.enable_dlq`;
  - `RS_BROKER__DATABASE__PASSWORD` of the Kubernetes secret
    (`configuration.md:829`): the second underscore makes it `_database.password`.
- Settings that nothing reads (`Configuration!Effective` is the complement):
  among others `server.mode`, `shutdown_timeout_secs`, `request_timeout_secs`
  (`.env.example:26`, `configuration.md:39`: nothing bounds a request, so that a
  body that is half sent or a statement that is not answered holds a shutdown),
  `auto_migrate` (migrations always run), the SASL settings and the `username`
  and `password` of `configuration.md:377-378`, `[inbox]`, `[dlq]` with its
  `topic_suffix` (dead letters go to `retry.dlq_topic`), `[subscriber]`. The
  placeholders `${...}` of the documented files are not expanded. The variable
  `RS_BROKER_KAFKA__BOOTSTRAP_SERVERS` beside the file's `brokers` gives one
  field twice and the server does not start.
- Health is always "healthy", and most counts of `get_health` are constants.

## 6. What is not modelled

- Backoff delays and all other durations, except leases, cool-downs and
  time-outs as events that may happen.
- The MySQL repositories: rs-broker-db does not build with that feature
  (`.github/workflows/rust.yml:106`).
- The topic cache of `consuming/dispatcher.rs` and the deduplicator: the
  server never reaches them, so that a model would check code no process runs.
- The operations of the inbox repository and of the managers that have no
  caller in the server.
- HTTP status codes and field names, the migrations as SQL, health, metrics,
  logging, the generated protocol code; queries that change nothing.
- librdkafka, tokio's channels, axum, tonic and Kafka itself: modelled as the
  code relies on them and marked external.

## 7. Plan

The modules were written in this order: the outbox first, as it is the reason
for the program, then the consumer, delivery and dead letters, then the edges
of the system, and last the process around them. Left:

1. A pipeline module that composes `PublishRpc` with `Outbox`: a message that
   was answered with success settles, or its cancel succeeded.
2. A timed variant of the outbox, for the backoff once the code applies it.
3. A bounded FIFO module for the deduplicator and the topic cache, once the
   server uses them.
4. A run for `ChannelPool`.
