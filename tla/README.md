# evergreen-tvevents: a verification project

TLA+ models, TLC runs and TLAPS proofs for the evergreen-tvevents service in
`src/src/app`: a FastAPI service that takes telemetry events from TVs, decides
whether the channel they name must be hidden, and publishes them to Kafka; for the
service it was rebuilt from, in `src/rebuild-inputs`; and for the stateful parts of the
shared library both came with, `src/cntools_py3/cnlib`.

Contents: [inventory](#the-system), [modules](#modules-and-the-code),
[runs](#runs), [proofs](#proofs), [divergences](#where-documents-and-code-disagree),
[limits](#what-is-not-shown), [plan](#plan).

## The system

A pod is one process running one uvicorn worker (`entrypoint.sh`), so one
asyncio event loop. A coroutine gives the loop up only where it awaits. The code
awaits in few places: the request body (`routes.py:110`, `472`, `530`) and
`call_next` in the two middlewares. The blacklist cache, the RDS query, the file
operations and the Kafka sends are all synchronous and hold the loop.

| component | state | operations | what makes it correct |
|---|---|---|---|
| Blacklist cache, `blacklist.py` | `_channel_ids` (None or a list), `_last_refresh`, the JSON file | `initialize`, `refresh`, `get_channel_ids`, `is_blacklisted` | every tier holds a list the table had; a serving pod has a list; the list never goes back in one life; a confirmed refresh is in force; a crash or a failed write does no more than lose refreshes |
| Event delivery, `output.py`, `obfuscation.py`, `send_request` | none of its own between requests; the environment's three toggles; what the topics hold | `send_request`, `push_changes_to_kafka`, `send_to_kafka`, `should_obfuscate_channel` | nothing blacklisted or blocked reaches a main topic in the clear; a 200 means delivered to every active topic; a failure leaves a prefix of the plan; every post is answered |
| Startup, `__init__.py`, `main.py` | the app and its lifespan | `create_app`, `lifespan` | the cache is initialized before the first request |
| HTTP surface, `routes.py` | `_request_count`, `_error_count`, `_request_latencies`, `_recent_errors`, `_drain_mode`, the root log level | two middlewares, 15 endpoints | the counters agree with the answers; the error buffer shows the latest errors; drain mode is what the last drain request asked for |
| Validation, `validation.py`, `exceptions.py` | none | `validate_request` and its checks | a payload that passes can be turned into output; every refusal is a 400 |
| Event types, `event_type.py` | none | `flatten_request_json`, three event classes | no field is lost or confused; timestamps end in one unit |

Beside the service, in the same repository:

| component | state | operations | what makes it correct |
|---|---|---|---|
| Legacy service, `rebuild-inputs/evergreen-tvevents/repo` and `cnlib/firehose.py` | in each gunicorn worker the blacklist; the file they share; what the firehoses hold | `initialize_blacklisted_channel_ids_cache`, `blacklisted_channel_ids`, `push_changes_to_firehose`, `send_to_valid_firehoses`, `Firehose.send_records` | one list governs a container's life once it is written; debug firehoses get events in the clear, main ones as the list says; one failing firehose costs no other; every request ends |
| Readiness bookkeeping, `dp4_redis.py` | in Redis: infos, counts per shard, watermarks | `record_info`, `record_processed` and its siblings, `is_ready`, `set_reported` | nothing is counted twice; nothing is lost where nobody records beside; a watermark of a batch that is done says what was recorded of it |
| User directory, `mcp_redis.py` | in Redis: a hash per TV, an index per zoo | `set`, `set_index`, `delete_by_index`, `regenerate_indices`, ... | a registered TV is found under its zoo; a regeneration is exact |
| Uid counter and Redis groups, `cdb_redis.py`, `base_redis.py` | a counter, in one Redis or two | `generate_next_uid`, `set_last_uid`, `RedisGroup` | no uid is handed out twice, across the move from one Redis to the other |
| Active users, `active_redis.py` | in Redis: sets of users per chunk of time, a cached union | `set`, `get_active_user_tokens`, `set_active_users` | who is answered was heard of in the window, and who was is answered |
| Consul services and locks, `consul_services.py`, `threads.py` | the ids registered, the lock and session held, the listener's thread; Consul's catalogue and locks | `register`, `deregister`, `get_services`, `acquire_lock`, `release_lock`, `destruct` | a lock believed held is held while its session lives; what was destructed is not found |

Outside: the RDS table of blacklisted channels (through
`rds_module.execute_query`), Kafka (through `kafka_module.send_message` and
`health_check`; neither module is in the repository), the TVs, the operators
calling `/ops/*`, Kubernetes, which restarts dead containers and probes
`/status`; for the library Redis with a replica, Consul and its agent, and Kinesis
Firehose.

How they interact. `lifespan` calls `initialize` before uvicorn accepts
connections. `POST /` awaits the body, validates, generates the output, asks
`is_blacklisted` (which reads memory, then the file, then RDS) and sends to up to
two debug topics and two main topics, one after another. `POST
/ops/cache/refresh` and `/ops/cache/flush` call `refresh`. Every request passes
`log_request_middleware`, then `metrics_middleware`, and comes back through them.

Hard behaviours: the process may die between any two file operations or sends;
RDS is down or the table empty, which the cache cannot tell apart; the file write
fails half way; a TV posts again while its first post is still served; a refresh
lands between the await of a body and the lookup; a handler's exception passes the
metrics middleware. In the library: a read from a replica that lags followed by a write
on the primary; several processes between the two; a command to two clusters that
reaches one; a call that raises after it was carried out; a session or a key that
expires. `PROJECT.json` lists every hazard at its line,
with the properties that catch it or a note why none does: in several the code simply does what the hazard says, and a
property that excuses the case does not count as covering it.

## Modules and the code

| module | models | kind |
|---|---|---|
| `BlacklistCache` | `blacklist.py`, `lifespan`, the refresh endpoints | detailed |
| `BlacklistView` | what the cache promises its callers | abstract; `BlacklistCache` implements it |
| `EventDelivery` | `POST /` from the await of the body to the answer | detailed |
| `IngestPod` | `BlacklistCache` and `EventDelivery` on one loop | composition |
| `EventTypes` | validation, flattening, the three event types, output, hiding of channels | pure functions |
| `EventPayload` | `POST /` of one event with its content; implements `EventDelivery` | detailed |
| `OpsReports` | what the operators' surface says about the pod | promises; `OpsSurface` extends it |
| `OpsSurface` | middlewares, metrics, errors, drain, ops endpoints | detailed |
| `LegacyService` | the legacy workers, their blacklist and its file, the firehoses and their retries | detailed |
| `LegacyParity` | what the legacy service did with the content of an event; compared in `EventPayload` | pure functions |
| `Readiness` | `dp4_redis.py` over `base_redis.py` | detailed |
| `UserDirectory` | `mcp_redis.py` over `base_redis.py` | detailed |
| `UidCounter` | `cdb_redis.py` over the client and `RedisGroup` of `base_redis.py` | detailed |
| `ActiveAnswers` | what its answers say about the users heard of | promises; `ActiveUsers` extends it |
| `ActiveUsers` | `active_redis.py` | detailed |
| `ConsulServices` | `consul_services.py`, `threads.py` | detailed |
| `*_proofs` | theorems about the module they are named after, and in three cases about a second one | proofs |
| `MC*` | values for the constants of a run | model checking |

Each module also holds a few operators introduced as mistakes the properties must
expose. They are variants of an action or helper with a bug a maintainer could make
(a merge instead of a replacement, a guard too weak, an answer given too early).
No specification uses them; substituted for the original, each one breaks the
property `PROJECT.json` names under "mutants", which shows that the property looks
at the code it is about.

**BlacklistCache.** `memory` is `_channel_ids`, `lastRefresh` says what stamped
`_last_refresh`, `file` is what `_read_cache` would find. A call of the cache is
split into steps (`pc`): the query; `open(path, "w")`, which truncates; the write;
the assignments. Each is a place where the process can die or the system call can
fail. `caller` is the method in progress, since `initialize`, `refresh` and
`get_channel_ids` share their path and differ in what they do with an empty answer
(`FetchYieldsNothing`) and in whether they stamp the time (`StoreStamp`). A list carries
the version of the table it was read from, a ghost no guard reads; `history` is what
the table has held. `lifespan` is chosen once, at the start: FALSE for a server that does not
run the lifespan protocol, as with the `ASGITransport` of the tests. Only then are the
file and RDS tiers of `get_channel_ids` reachable. `Crash` keeps the file or loses it, for a container
restart on the same volume or on a new one.

**EventDelivery.** An attempt is one post of one event. It is `waiting` while the
handler awaits the body, and from `StartDelivery` on `pending` holds the
`send_message` calls the handler has left (the debug topics in the clear, then the
main topics, as `Plan` says). `LoopFree` is the event loop: no handler may start
while another has sends left, because the sends do not await. `SendFails` covers a
broker that refused the record and one that stored it and lost the answer. Where a
payload fails is its `defect`; `EventPayload` has the content that decides. Retries are
the TV's and never required.

**IngestPod.** Instantiates both with the list that lookups search as the
blacklist (`Served`), shares `crashes`, and adds what neither has alone: no call of the cache
while a handler has sends left, no event while a call of the cache runs, no
connections before startup is over. The cache keeps its own specification by the
shape of the actions (a lemma of `IngestPod_proofs`, used to carry the cache's theorems over); the delivery does so
only because the list does not move while sends are left, which is checked (`ImplementsDelivery`). What only the
whole can break is `SentByLoadedList`: nothing reaches a main topic before the startup of this life, or a refresh
since, has put a list in memory. No line asserts that; a lookup without a list passes every channel.

**EventTypes and EventPayload.** A JSON value is a record of a type, a text and, for
an object, its fields in the order of the document; texts are representatives (a
sensible time, one no `datetime` holds, a numeral in a string, ...). A flattened key
is the sequence of words that underscores join, so that two different fields can
end under one key as they do in the code. Every check has one of three outcomes: it
passes, refuses (a `TvEventsDefaultError`, 400) or raises (anything else, 500);
`FirstOf` is the order of the early exits. An object of the wrong type is
represented by null. What Python takes for false is kept apart where the code asks (`Falsy`, `Unset`), a Boolean is a
time as it is to `fromtimestamp`, and an object for an `EventType` cannot be looked up (`Hashable`). Flattening is a recursive function (`LeavesUnder`), defined on objects nested at most
`MaxNesting` deep; what it ignores, it ignores at the top only (`Without`). `EventPayload` runs the functions in the order of
`send_request` and `push_changes_to_kafka`: `Validate`, `Generate`, `Decide`, the debug
sends, `HideChannel`, which overwrites the dict in place, the main sends, `AnswerOk`. Its topics hold
whole records. Its names keep clear of those of `LegacyService` (`PayloadSpec`, `reached` for a stage), since one
module of proofs extends both. The refinement into `EventDelivery` maps the stages before the
decision to `waiting`, the records to their forms, and the topics still to be served
(with the main topics that will follow the debug ones) to `pending`; the `defect`
that `EventDelivery` chooses freely is what the checks find in the payload.

**OpsSurface.** A request takes three steps: `Arrive` (through the middlewares and up
to the await of the body), the handler, `Count` (when `metrics_middleware` resumes).
`Escapes` is an exception no handler catches. `_request_latencies` is abstracted to
its length, messages to the request they are about, and the endpoints that only
report to `Report`. `Rank` is the index arithmetic of `_percentile`. `handled` is a ghost:
the order in which handlers ran. The counters are compared with the requests whose handler returned (`PastMetrics`):
an exception that escapes unwinds the middleware before the lines that count, although the client gets a 500. What the reports must say of all this is in `OpsReports`, which
declares only the state that the promises are about, so that a module of proofs can state them
without extending the machine.

**LegacyParity.** The checks and outputs of the legacy service as functions of the same
JSON values as in `EventTypes`. `MatchesLegacy` runs them beside the rebuild on every
payload: what the rebuild takes and publishes is what its predecessor did, except where
`TakesMore`, `TakesLess` and `KeepsMore` say. Each of these names a difference of the two sources.

**LegacyService.** Workers are processes with a list of their own in `memory`; `file` is
the one they share, `Torn` when it does not parse. `loader` is a load in progress, by
`Initializer` (the entrypoint's `python -c`) or by a worker, in whose greenlets nothing else
runs meanwhile. `sends` are the threads of the executor: each puts its record, with
`retries` of a call that raises (`PutRaises`) inside `failures` of a record refused
(`PutFails`), as in the two nested loops of `firehose.py`. A record is dumped when its thread
comes to it (`StartSend`), which is why the dict may only be overwritten once the executor
is left (`Overwrite`).

**Readiness, UserDirectory, UidCounter, ActiveUsers.** In each, `writer` (or `counter`,
`chunks`, `union`) is the primary and `reader` (`replica`) a replica that catches up at any time; `oneClient`
is the choice of `BaseRedis` to make one client of two equal hosts, taken once. A step
is one command to Redis, or one pipeline in a transaction. What a call has read and not yet used stands
in `cooker`, `job`, `call` or `client`. Ghosts record what a property compares with: what was
processed, who registered, when a user was heard of, and which conditions a property excuses
were met (`contended`, `repeated`, `hobbled`, `outdated`, `apart`, `mixed`). In `Readiness` the scans of `_get_reports` and
`set_reported` return key by key what is there at that moment: `todo` are the keys that were there when the scan
began, which Redis guarantees to return; others may come, and a key may come twice (`ReturnKey`, up to `MaxRepeats`
times). A watermark is read by `ReadMark` and deleted by `DeleteMark`, two commands between which another job's
transaction (`WriteWatermarks`) may come. `remove_info`, which nothing calls, is left out. In `UidCounter` a process keeps the
mode it started with and `Migrate` changes the mode the next ones start with. In
`ActiveUsers` the clock `now` runs in steps of one, and keys disappear by comparison with it;
its promise is in `ActiveAnswers`, as that of the operators' surface is in `OpsReports`. The window
counts in whole chunks there (`RoundedWindow`), as `chunks_backward` does in the code: for a window that is no
multiple of a chunk, a user can be answered who was heard of up to a chunk before it.

**ConsulServices.** `app` is a process's `ConsulApp` with the step its `destruct` is at,
`listener` the thread of its `HTTPEndpoint`; `catalogue`, `sessions` and `lock` are what Consul keeps. Each
call to Consul answers, or raises with or without having been carried out. `Check` is
the agent's health check, which any listener on the port satisfies.

## Runs

Bounds are constants named in the modules; each run names its own in its `.cfg`.

| run | bounds | shows |
|---|---|---|
| `blacklist_cache` | 2 channels, 3 table contents, 2 crashes, with and without lifespan | all safety, action and liveness properties of the cache, and that it implements `BlacklistView` |
| `event_delivery` | 1 event, 3 posts, all 8 toggle settings, 6 payloads, the blacklist moving, 1 crash | what an answer means, prefixes, order across topics, nothing sensitive in the clear, no send after the answer, every post answered |
| `ingest_pod` | 1 event, 2 posts, 1 channel, 3 contents, 1 crash | the composition: the delivery keeps its specification, nothing is sent before a list is loaded, a confirmed refresh governs |
| `event_payload` | about 1,900 payloads, all 8 toggle settings, a blacklist with and without the channel | flattening, hiding, parity with the legacy service, `EventPayload` implements `EventDelivery` |
| `ops_surface` | 3 requests, every endpoint and kind of body, 1 log level, buffer of 2, error-rate limit of 50 %, 1 crash, samples of 1 to 10,000 | counters of what the handlers returned, error buffer past its cap, percentiles, drain mode |
| `legacy_service` | 2 workers, 2 events with one outlet or none and 1 event with both, 1 channel, 2 tries of each retry, 1 change, 1 death | the legacy lists, forms, retries and answers |
| `readiness` | 2 cookers, 2 jobs, 2 shards, 2 batches that overlap, 1 range over both, 1 info, 2 records, 2 calls of jobs, 1 key returned twice | double and lost counts, watermarks that race command by command |
| `user_directory` | 2 clients, 2 tokens, 2 zoos, 4 calls | indices beside and after regeneration |
| `uid_counter` | 2 processes, uids up to 4 | repeated uids, clusters that differ |
| `consul_services` | 2 processes, 2 ports, 1 service in two versions, 1 lock, 2 names to release, 2 sessions, 1 death | locks and services through exceptions |
| `active_users` | 2 users, 1 client, chunks of 2, a window of 4, a cache of 2, time up to 7, 3 heard, 2 asked | windows, expiry and the cached union |
| `file_survives_outage` | as `blacklist_cache` | the violation below |

The properties of `event_payload`, in short. `EventDataSurvives` compares
flattening, which is recursive and drops the outer prefix and the ignored keys on its
way down, with a definition by paths. `ChannelHidden` and `OnlyChannelHidden` speak of the
input and the topics: what must be hidden is, in whatever type it came, and nothing else is; and hiding it changes
nothing else. `ChannelDataComplete` is about the tuner data inside and beside a heartbeat,
`MatchesLegacy` about the predecessor. `MetricsMatchAnswers` of `ops_surface` is a conjunction: the counters
(of the requests that came back through the middleware; an escaped 500 is in none, see
[below](#where-documents-and-code-disagree)), the errors reported, and that more than the named share of a sample lies at or below the
percentile reported for it, and no more than that share below it.

Several properties of the library hold only under a condition, and the condition is part
of what they say. `NoUidTwice` and `SettledClustersAgree` excuse a `set_last_uid` that overwrote what it
had not seen, a command that reached the clusters unequally, and processes of two modes
side by side: each of the three does break them. `NothingLostAlone` and `SettledBatchIsSummarised` are about
one client for reads and writes; with a lagging replica counts do get lost, but never
counted twice (`NothingCountedTwice`). A watermark counts twice only what Redis returned twice to one scan, which is
the exception `NothingCountedTwice` makes (`repeated`). `SettledBatchIsSummarised` says what a watermark is good for: the job
that writes it writes what was recorded, for a batch of which nothing was stored since its scan began (`Settled`), beside
other jobs that write, read and delete the same watermarks. `HeldIsLocked` ends with the session, which nothing renews.

Every module with variables of its own states its type invariant, `TypeOK` (in `EventPayload` `PayloadTypeOK`). The run of the cache lists its own; the others
hold under the same configurations (put `INVARIANT TypeOK` in place of the properties), and where there is a module
of proofs it proves the type invariant.

Why these are enough. Three contents of the table allow a list in memory, an older one
in the file and a newer one in the table at once, and two crashes allow a damaged
file to be written in one life, read in the next and outlived by a third; two channels
make contents differ by more than emptiness. Three posts of one event are a failed, a
lost and a successful one, each of which leaves its own records, and two that overlap are
the least on which two topics can disagree about order. The payloads vary every field the code reads (present, absent, of
each type it distinguishes, null) and nest three deep, one level more than any rule of the
code looks; fields the code does not name differ only in where they stand. A
buffer of two with three requests overflows. Three
requests about drain mode are two that overlap and a query between or after them. The
limit of the error rate (10.0 in the code) is the constant `MaxErrorRate`; at 50 % two
counted requests lie on it, below it and beyond it, as ten would at 10 %.
The samples of `PercentilesCover` are the ends (1, 2, and the deque's 10,000) and the sizes
around a hundred, where p99 changes its index. Two workers, cookers, jobs, clients or
processes are what it takes to meet on a file, a key or a lock; a third changes none of the pairs the properties
speak of. Two records suffice to sum two shards into one watermark or to meet on one; two calls of jobs are two that
race, or one after the other. Two tries of each nested retry distinguish a counter that is reset from one that is
not. A window of two chunks has one that leaves while one stays, and the clock runs past
the window, the chunk's expiry and the cache's.

Fairness. `BlacklistCache!Fairness` is weak fairness of `Start` (Kubernetes
restarts a container) and of the steps of a call (straight-line code that
returns or raises). `EventDelivery!Fairness` is weak fairness of each attempt's
handler: asyncio's ready queue is FIFO, a body arrives or its connection ends, and a
send returns or raises. `LegacyService!Fairness` is weak fairness of all workers' steps
together: while any can go on, one does, and boto3's timeouts end every put. The library's
modules state no fairness, since only their callers decide what is called. Nothing is assumed of TVs, operators, RDS or Kafka. Deadlock
checking is off where every request or post the bounds allow has been spent.

## Proofs

Eight modules prove theorems, each about the component it extends, for every value of its constants
that its assumptions allow. `LegacyService_proofs` extends two: the legacy service and `EventPayload`, which compares
the rebuild with it. Two others instantiate a second component and prove theorems about it:
`IngestPod_proofs` has those of `OpsSurface` (`Ops!...`), which runs on the same loop, and `UidCounter_proofs` those of
`ActiveUsers` (`Active!...`), which keeps its keys in the same Redis. There the second component's assumption about its
constants stands among the hypotheses of each theorem. The names of the theorems are those of the properties, with
`Theorem` added where the bare name is taken. `TypeCorrect` is `Spec => []TypeOK` in each.

| module | theorem | establishes |
|---|---|---|
| `BlacklistCache_proofs` | `TypeCorrect` | `TypeOK` |
| | `TiersAreGenuine` | `OnlyGenuineLists` |
| | `PodServesAList` | `ServingHasList` (about pods whose server runs lifespan) |
| | `FileLagsMemory` | `FileNotAhead` |
| | `StampIsTruthful` | `StampTellsLoaded` (about the same pods) |
| | `ServedListNeverRollsBack` | `NoRollback`, an action property |
| | `RefreshTakesEffect` | `RefreshIsFresh`, an action property |
| | `CacheImplementsView` | `ImplementsView`, the refinement |
| `EventDelivery_proofs` | `TypeCorrect` | `TypeOK` |
| | `OkMeansDeliveredTheorem` | `OkMeansDelivered` |
| | `PartialDeliveryTheorem` | `PartialDeliveryIsPrefix` |
| | `TopicsAgreeTheorem` | `TopicsAgreeOnOrder` |
| | `NothingSensitiveTheorem` | `NothingSensitiveInClear`, an action property |
| | `NoSendAfterAnswerTheorem` | `NoSendAfterAnswer`, an action property |
| `IngestPod_proofs` | `PodImplementsDelivery` | `ImplementsDelivery`, a refinement |
| | `SentByLoadedListTheorem` | `SentByLoadedList`, an action property |
| | `ConfirmedRefreshTheorem` | `ConfirmedRefreshEnforced`, an action property |
| | `OpsTypeCorrect` | `TypeOK` of `OpsSurface` |
| | `MetricsMatchAnswersTheorem` | `MetricsMatchAnswers` |
| | `DrainIsObeyedTheorem` | `DrainIsObeyed` |
| `LegacyService_proofs` | `TypeCorrect` | `TypeOK` |
| | `StartupListGovernsTheorem` | `StartupListGoverns` |
| | `FormsAreKeptTheorem` | `FormsAreKept` |
| | `OkMeansTriedEverywhereTheorem` | `OkMeansTriedEverywhere` |
| | `PayloadTypeCorrect` | `PayloadTypeOK` of `EventPayload` |
| | `MatchesLegacyTheorem` | `MatchesLegacy` |
| | `ImplementsDeliveryTheorem` | `ImplementsDelivery`, the refinement of `EventDelivery` |
| | `OnlyChannelHiddenTheorem` | `OnlyChannelHidden` |
| `Readiness_proofs` | `TypeCorrect` | `TypeOK` |
| | `NothingCountedTwiceTheorem` | `NothingCountedTwice` |
| | `NothingLostAloneTheorem` | `NothingLostAlone` |
| | `SettledBatchIsSummarisedTheorem` | `SettledBatchIsSummarised`, an action property |
| `UserDirectory_proofs` | `TypeCorrect` | `TypeOK` |
| | `RegisteredIsIndexedTheorem` | `RegisteredIsIndexed` |
| | `RegenerationIsExactTheorem` | `RegenerationIsExact` |
| `UidCounter_proofs` | `TypeCorrect` | `TypeOK` |
| | `NoUidTwiceTheorem` | `NoUidTwice` |
| | `SettledClustersAgreeTheorem` | `SettledClustersAgree` |
| | `ActiveTypeCorrect` | `TypeOK` of `ActiveUsers` |
| | `ActiveWithinWindowTheorem` | `ActiveWithinWindow`, an action property |
| `ConsulServices_proofs` | `TypeCorrect` | `TypeOK` |
| | `HeldIsLockedTheorem` | `HeldIsLocked` |
| | `DestructedAreGoneTheorem` | `DestructedAreGone` |

**Assumptions.** They are named in the modules and say that bounds are naturals (or positive), and that the
markers for None, a missing file, a damaged one or no topic are none of the values they stand beside, as
Python's None is no string and no list. Five say more. `Readiness` takes finitely many shards, as a stream has.
`ConsulServices` wants its locks to be among the names that are released. `IngestPod` repeats the
assumptions of its parts, about its own constants. `ActiveUsers` wants a chunk, the window and the
cache's lifetime to be positive. `EventPayload` wants that no payload it takes names its channel `OBFUSCATED`, by which
`EventDelivery` would take a record in the clear for a hidden one; of the refinement alone this is a condition,
`MatchesLegacyTheorem` and `OnlyChannelHiddenTheorem` do without. TLC evaluates each of them in a run.

**The cache.** `TypeOK` is inductive. `OnlyGenuineLists` is nearly so: it needs that the
table's history only grows (`HistoryGrows`), so a list once genuine stays genuine
(`GenuineStays`). The others are not inductive, since they speak of `pc = "idle"` and say
nothing of a call half way. `CacheInv` strengthens them with three
parts: `AnswerInv`, that the answer held between the query and the assignments is a
non-empty content no older than the call; `CallerInv`, that a startup begins with
nothing in memory and no stamp, and what the other callers find there; and
`OrderInv`, that the file is no newer than memory between calls and no newer than
the answer within one. `CacheInvStep` has one step per action. The action properties
and the refinement follow from `CacheInv` and `MemoryStep`, which says what one step can do to
memory; each step of the cache is a step of `BlacklistView` or leaves it alone.

**Delivery.** The properties speak of ended attempts; what has to be known is what an attempt under way has
sent and has left. `DeliveryInv` says it without sequences: a plan serves a set of topics (`PlanTopics`),
each in one form (`PlanForm`), in the order of `Rank`. A running attempt has sent the lower ranks
(`SentInOrder`) and has the rest left (`RestOfPlan`), under the decision that the list in force *now* would
give: the list only changes between attempts. `OneSending` is what the event loop gives, that one attempt
at most has sends left and its records are the last of every topic; it makes
`TopicsAgreeOnOrder` inductive.

**The pod.** Nothing is proved twice. That every step of `IngestPod` is a step of the cache or leaves it alone is a
lemma (`PodImplementsCache`) that follows from the actions and carries the cache's theorems over. For the delivery the
step that needs an argument is a move of the served list, which must
be a legal change of `EventDelivery`'s blacklist, so no handler may have sends left
(`LoopHeld`). `SentByLoadedListTheorem` needs that a pod with connections has run `lifespan()` in this life
(`LifespanInvariant`), so that `PodServesAList` applies to it, and that only handlers send (`OnlyHandlersSend`).
`ConfirmedRefreshTheorem` takes the theorems about the parts
by name: `RefreshTakesEffect` and `ServedListNeverRollsBack` keep the list at least as new as the table
was at the confirmed call (`ConfirmedInv`), and `NothingSensitiveTheorem` says that this list is the one a
clear record is measured by.

**The operators' surface.** `OpsInv` says that `handled` names each request at most once (`HandledOnce`), so
the counters are cardinalities of sets of handled requests that returned (`CountInv`) and one that passes the middleware
adds one to each; which requests escape is decided by their input alone (`OutcomeInv`, `Raises`). The error buffer is
compared with the answers by order and not by positions: what it shows are the latest that erred (`RecentErrorsAreLatest`), which a
new error keeps although it may push the oldest out. `DrainInv` relates `drain` to the drain requests in `handled`; what a
health check or a status answered is compared with the same history at its place in it.

**The legacy service.** `LegacyInv` has a part about the list and one about events. `GovernInv`: once the file has
the initializer's list no worker is past reading it, for which `NotServingInv` must say that before that moment no
worker has a request or a list at all. `StageInv`: a stage tells which firehoses can have got the event and in which
form the dict is; `SendsInv`: what a thread of the executor sends is that form, so the overwriting of the dict must find
no thread; `Tried`: a main firehose that is on has the event, gave up, or is still being sent to.

**Payloads.** The state is simple and the content is not. `PayloadReached` ties each stage to what the checks say, and
`PayloadSends` says that what is sent is the output as it was made, or with the channel hidden. The rest is about
the functions of a payload, of any payload. A chain of checks passes if each does (`FirstOutcome`, which needs that a set of
positions has a first), so a request passes under a list of plain conditions (`RequestPasses`, `AcrTunerPasses`, ...), and
these are compared with those of the legacy service in both directions: `TakenWasAccepted` and `AcceptedIsTaken`.
`TakenIsTheSame` compares the outputs. It never unfolds the flattening: both services flatten the same fields, once
it is shown that ignoring a name an object does not have makes no difference (`IgnoringNothing`). The refinement has a
lemma per action, named `...Implements`; the two that need an argument are the decision, where what `EventDelivery` knows
of the payload must decide as the output does (`SameDecision`), and the overwriting, which it must not see: what is
left to send has the hidden form before the dict has (`RemainingIs`). `TopicsInv` says which record stands on which
topic, from which `OnlyChannelHidden` follows. The proof of `MatchesLegacy` found a difference that the runs had
no payload for, and the model now has it (a `TvEvent` inside `EventData`, which only the legacy service looks into).

**Readiness.** `StatesOK` types what each step of a call holds. `BoundInv` bounds every number by what was recorded:
the counts and watermarks of both hosts, but also the count a cooker has read and, for a batch no scan returned a key of
twice, the sums a job has so far, which are sums over the keys it has added (`added`), each once. A stale number stays
bounded because nothing recorded is taken back (`BoundsStay`), and a sum of fewer and smaller counts is smaller
(`SumGrows`); adding a key adds its count (`SumOfOneMore`). `AloneInv` makes the bound an equality for one client and
uncontended keys. `SettledInv` does so for the sums of a job, as long as the batch has not `moved` under its scan: what
is added is exact, and what is not is still to come, so that at the end of the scan nothing is missing
(`SumOfTheRest`); `SettledStep` adds what a merge keeps of an older watermark (`MergeOfMarks`). `Sum` counts
the units of its shards, so that this can be shown by inclusion of sets; the sum of a fold could not be (see below).

**The user directory.** Neither property says anything while a regeneration is in progress, when the indices are
wrong. `IndexedOrWillBe` replaces the first: a registered user is in its index or a
regeneration has yet to come to it, because it is still clearing, or has the user to visit or to add. `AloneInv` is
the same for the second: cleared indices are empty until the scan, and lack then only users it has
to come to. That two regenerations may interleave is where the quantifier over clients matters.

**The uid counter.** While both clusters are written the first is ahead of the second by what calls half way owe it:
`Owed` has one element for each uid owed, and `ClusterInv` says that the counters differ by its
cardinality. `ModeInv` tells which modes can run beside which, and `TakenInv` that no uid taken is above the
counter in force.

**Active users.** `ActiveInv` dates what the keys hold. `ChunkInv`: who is in a chunk was heard of in its time,
and who was, and may still be asked for, is in it with a lifetime that lasts as long. `UnionInv`: a
unioned key, on the primary or on the replica, holds what an answer would have been when it was made,
which is its expiry less its lifetime; nothing heard of later is dated before that, so it stays true however far
the replica lags. The rest is arithmetic of chunks: a time lies in its chunk (`ChunkHolds`), the chunks
united are the rounded window (`UnitedIsRecent`, `RecentIsUnited`). With the window of the settings in place of the rounded one
the last step has no proof, and TLC has a counterexample, once the window is no multiple of a chunk.

**Consul.** `LockInv`: a session is one process's and is known to it only with the lock it was created for.
`CatalogueInv`: an entry `register` has recorded is on its maker's list and, while that one destructs, among those it
has left to deregister.

Each inductive invariant was checked by TLC under the component's run before it was proved.

**Only model-checked.** `StartupServes`, `EveryPostAnswered` and `EveryRequestAnswered`: liveness under fairness is
out of the prover's reach. `EventDataSurvives` and `ChannelDataComplete` speak of what flattening, a recursive
definition, puts under a key: that needs induction over the object. `ChannelHidden` is in terms of the names a
TV uses for its channel, and does not hold of every conceivable object: one that has both `ChannelId` and `channelId` publishes
the later; what of it concerns the records alone is in `OnlyChannelHidden` and the refinement. Bounds that make a run finite (posts, crashes, calls) are parameters of the theorems too,
which hold for each value of them.

Sets of subsets minus or plus something are written `(SUBSET S) \ {{}}`, with parentheses: the two parsers give
`SUBSET` and `\` different precedence, and the model checked must be the one proved about.

## Where documents and code disagree

The run `file_survives_outage` shows a statement the code does not keep: a crash or a full
volume in `_write_cache` destroys the fallback file on which `docs/adr/004-cache-strategy.md:35`
relies. The property and the counterexample are part of every check of the project.

Eleven more configurations state what a document, a docstring, a comment or a test says, and TLC finds each
violated (`tlc -config MC<module>_<property>.cfg MC<module>`). They are not among the runs of
`PROJECT.json`.

| property | module | the code | the statement |
|---|---|---|---|
| `EmptyTableEmptiesCache` | `BlacklistCache` | `blacklist.py:75` stores an answer only if it has rows: an emptied table does not empty the cache | `docs/data-migration-mapping.md:92` |
| `PeriodicRefresh` | `BlacklistCache` | only startup and two endpoints refresh | `docs/data-migration-mapping.md:34` |
| `TopicsFailIndependently` | `EventDelivery` | `output.py:115` raises at the first topic that fails | `docs/feature-parity.md:35`, "Same parallel delivery pattern" |
| `StartTimeInMilliseconds` | `EventPayload` | `validation.py:59` multiplies a string | `validation.py:58` |
| `HealthChecksFailWhenDraining` | `OpsSurface` | `/status`, which the probes call, ignores drain mode | `routes.py:469` |
| `EveryRequestIsCounted` | `OpsSurface` | an exception that escapes the handlers passes `metrics_middleware` (`routes.py:58-64`) before it counts: after a drain request whose body is no JSON object, answered 500, `_request_count` and `_error_count` are still 0 | the docstring "for every request", `routes.py:58` |
| `WatermarkSummarises` | `Readiness` | `dp4_redis.py:894-896` adds the count of every key the scan yields, and a Redis scan may yield a key twice: the watermark counts it twice | the docstring of `set_reported`, "properties that summarize the group" |
| `OnlyInvalidDeleted` | `Readiness` | `_get_reports` reads a watermark (`dp4_redis.py:527`) and deletes it in a second command (`551`, `560`): one that another job completed in between is deleted, with a single client | "field invalid, deleting/skipping", `dp4_redis.py:549`, `558` |
| `CompleteRangeIsAnswered` | `Readiness` | `dp4_redis.py:596` makes a tuple of six fields of five values: a complete range is answered with a TypeError | the tests `test_ready_watermark`, `test_ready_processed` |
| `UnreadableCacheIsFetched` | `LegacyService` | a file that does not parse raises a ValueError, which ends the request (`dbhelper.py:237`) | the docstring of `blacklisted_channel_ids` |
| `DeletedFromIndex` | `UserDirectory` | `base_redis.py:462` subscripts a string and swallows the TypeError | `TestMCPRedis.test_delete_from_index` |

Others were met on the way and have no configuration of their own, since one guard of the
model states each: `_error_count` counts
5xx only, against `docs/observability.md:26` ("Counter per 4xx/5xx response"). Against
`docs/feature-parity.md`: a mismatch of URL and payload parameters is only logged
(line 12 wants a 400; `ValidateRequest` has no such check), no window is applied to timestamps
(line 13; `TimestampCheck`), a NATIVEAPP event without `Timestamp` gets a 500
(line 15 says 400), a PLATFORM_TELEMETRY event was refused by the legacy service whatever it held
(line 17 claims parity; `LegacyGenerates`), outputs differ in NATIVEAPP fields and times that are strings or
null (line 18 says "byte-for-byte"; `TakesMore`, `TakesLess`, `KeepsMore`), and hidden fields are overwritten with
`OBFUSCATED`, the channel number not being one of them (line 19; `ObfuscateChannelFields`).

## What is not shown

JSON arrays, and scalars (other than null) where an object belongs. Python's finer
conversions: times that are fractions or zero. How
`security_hash_match` decides. Crashes and overlapping attempts together with content:
`EventDelivery` has the former, `EventPayload` the latter. Values of latencies and times. The
read-only reports of `/ops/*` other than the percentiles. Helm charts, agents and documentation. Threads of the
service: it starts none of its own; the telemetry exporters' threads touch no modelled state.

Of the library: clients of AWS and of data bases (S3, SQS, Redshift, MySQL), which keep no state
between calls; static tables (`switch_case_redis.py`); `app_whitelist.py`, whose `from_disk` passes a file
object to `json.loads` and so always ends with an empty list; `tvc_redis.py` (whose `update`, after a
key has expired, creates one without a host that never expires, and whose `incr_ump_count` is one script
that Redis runs atomically) and
`reservation_redis.py`, queues whose consumers are not in the repository; the command lines; `cndeploy`, launch
scripts of another deployment. In `dp4_redis.py` the checks of lines 642-790, which no caller reaches
past the TypeError of line 596, and the reports, which only read. In `base_redis.py` a missing counter, which raises. Of
`consul_services.py` the union over data centers, and a client that holds the listener up.

## Plan

Done: the cache, delivery, their composition, the ops surface, payloads, the legacy service with the comparison, and the
library's Redis and Consul clients. Every safety property a run checks is a theorem, but for three about the content
of a payload that need induction over it. What is left:

1. `EventDataSurvives`, `ChannelDataComplete` and `ChannelHidden` for every object, once the prover can use an
   induction theorem: the step is one level of `LeavesUnder`, and `ChannelHidden` needs a condition on names that
   differ in case only.
2. The liveness properties, which need a prover for fairness.
3. A property about the order of versions in `get_services`, where parts are compared as strings.
