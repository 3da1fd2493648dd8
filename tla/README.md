# Formal model of the Akarin gateway

TLA+ modules that model the gateway's request path, the conversations, signatures and
caches it keeps, and the configuration it runs on; the TLC configurations that check them
on small instances; and proofs for every size of the instances, which the TLA+ proof
system checks. Paths are relative to `src/akarins_gateway/`.

1. [Inventory](#1-inventory): the parts of the system, what each keeps and must keep right
2. [Modules](#2-modules): which module models what, and how it corresponds to the code
3. [Runs](#3-runs): what TLC checks, with which bounds and which fairness
4. [Proofs](#4-proofs): what holds for all parameters, and along which argument
5. [Where the code and its words disagree](#5-where-the-code-and-its-words-disagree)
6. [Not modelled](#6-not-modelled), and [what could come next](#7-what-could-come-next)

## 1. Inventory

The gateway accepts chat-completion requests in the OpenAI or the Anthropic format (and
Augment's own), chooses a chain of backends for the requested model, and sends the
request to one after the other until one answers. One asyncio event loop runs the
requests; the cache layer is called from threads and has locks of its own; a save of the
configuration runs in an executor's thread.

    client -> middleware (sanitizes some clients' bodies)
           -> endpoint: client detection, normalization, SCID and merge, sanitizer,
              selection or compression
           -> router (proxy.py:4082) -- reads --> config, registry, health, breaker, limits
                -> proxy_request_to_backend (1970), once per entry of the chain
                     -> rate limiter, permit, HTTP client -- writes --> health, limits
           <- stream wrappers: checkpoints, conversation, signature caches
                                   -> L1 memory cache -> write queue -> SQLite
    panel  -> BACKENDS, MODEL_ROUTING, raw sections -> gateway.yaml
    tasks: credential watchers, model registry's refresh, startup probe

| component | state | operations | what is hard | what makes it correct |
|---|---|---|---|---|
| Circuit breaker `gateway/circuit_breaker.py` | state, two counters, time of the last failure, under a lock | is_available, record_failure, record_success, reset | outcomes of requests admitted long ago arrive in any state; OPEN is left only by a caller | admits nothing during a cool-down; trips and closes on whole runs; refuses no longer than it must |
| Backend health `gateway/health.py` | LRU table of records, frozen list with expiries, freeze counts | record_success, record_failure, record_http_failure, freeze_backend, is_frozen, unfreeze_backend | three tables with different limits and evictions, purged lazily | bounded; no count outlives its backend; freezes only after a whole run; freezes end |
| Credential watchers, startup probe `gateway/proxy.py:163`, `:3865` | the set of running tasks | schedule, probe, thaw, end | a refusal while a watcher is on its way out; freezes lifted or renewed by others | a backend frozen for its credentials is watched; watchers end |
| Rate-limit tracker `gateway/rate_limit_handler.py` | limit per key, failure count per key | parse_from_error, mark_success, set_lockout_until, clear | the ladder must survive limits that expire, are cleared or replaced | escalates through a run of answers; a success starts it over |
| Proxy attempt loop `gateway/proxy.py:1970`, `:3346` | attempt number, last status and error, the permit held; writes health and limits | send, classify, retry, back off, switch profiles, freeze, stream | about thirty ways out of an attempt; cancellation; bookkeeping in several places | permits conserved; every request answered |
| Fallback router `gateway/proxy.py:4146`, `gateway/routing.py` | chain, attempts, last error | build a chain from five sources, filter, loop, cross-model and final fallback | health changes while a call is out; three places send; conditions read out of a text | at most MAX_FALLBACK_ATTEMPTS = 10 calls; never a frozen backend; conditions hold; an IDE keeps its model; nobody passed over |
| L1 memory cache `cache/memory_cache.py` | ordered dictionary, LFU counts, read-write lock | get, set, delete, clear, bulk ops, cleanup | locks dropped half-way through get and cleanup; wake-ups | exclusion; bounded; no stale answer; no thread left asleep |
| Write queue `cache/async_write_queue.py` | state machine, queue, batch buffer, worker threads, timers, counters | start, enqueue, flush, retry, stop | two retry counters, draining while workers hold entries, locks | bounded attempts; each entry accounted for once; stop drains |
| Signature caches `signature_cache.py`, `cache/cache_facade.py`, `cache/signature_cache_manager.py` | signatures by text, tool call and session, in memory, two layers and SQLite | cache, get with promotion, delete, clear, cleanup | many places to look, each with owners, times to live and promotions of its own | a signature belongs to the text asked about, ages, and is found while it is stored |
| Signature database `cache/signature_database.py` | SQLite tables for signatures, tools, sessions, conversations, checkpoints | get, set, bulk_set, delete, cleanup of each | lazy deletion in a second transaction; rollback in the middle of a batch | a row renewed is not lost; what is stored is served |
| Cache migration `cache/migration/` | phase, adapter's own map | dual write, read strategy, adapter | a thread per write, phase changes between write and read | what was written is found in every later phase |
| Conversations `ide_compat/state_manager.py`, `gateway/scid.py` | history and signature in each request's manager and in SQLite, checkpoints | apply, merge, reset, checkpoint, write back | a manager per request; streams broken off; restarts | no turn lost; a reset forgets; a checkpoint means an unfinished stream |
| Request pipeline `gateway/endpoints/`, `ide_compat/`, `context_truncation.py`, `gateway/normalization.py`, `gateway/conversion.py`, `gateway/thinking_recovery.py` | the pinned definitions and cached histories | sanitize, normalize, merge, select, compress, convert, strip after a refusal | each takes messages out by a rule of its own | calls stay with their results; the newest message arrives; no unsigned thinking |
| Configuration and panel `gateway/config.py`, `config_loader.py`, `config_writer.py`, `endpoints/panel.py` | BACKENDS, MODEL_ROUTING, raw and parsed sections, the YAML file | lazy load, edit, save in a thread with backup, restart | the same setting in several copies; edits while a save goes through them | the panel tells the truth of what is in force; a save keeps the edits; saves in order; a model's name finds its rule |
| Model registry `gateway/model_registry.py` | models per backend, raw and merged, the list clients are shown | initialize, refresh_all, background refresh | answers in any order; only ever adds | the models learned are bounded |
| Permits, rate limiters `gateway/concurrency.py`, `core/rate_limiter.py` | semaphore per backend; time of the last request per key | acquire, release, wait | cancellation | conservation (in the attempt loop) |
| Public stations, Augment bridge, tool loop, thinking interceptor, adapters, HTTP client, logs | see section 6 | | | |

The hazards behind the fourth column are listed at their lines in `PROJECT.json`, each with
the properties that would catch it going wrong, or the reason why none does.

## 2. Modules

| module | models | composed of |
|---|---|---|
| `CooldownGate` | abstract: a gate that admits nobody for a cool-down after it was shut | |
| `CircuitBreaker` | `circuit_breaker.py`, one breaker and its callers; implements `CooldownGate` | |
| `HealthRecord` | the operations of `health.py` as operators on a record | |
| `BackendHealth` | the health manager as a machine of its own | `HealthRecord` |
| `CredentialProbe` | the watchers and the startup probe around the manager | `BackendHealth` |
| `RateLimitTracker`, `RateLimits` | `rate_limit_handler.py`, as operators and as a machine | |
| `ProxyAttempts` | `proxy_request_to_backend` and the streaming generator it drives, with the health, limits and permits they share | `HealthRecord`, `RateLimitTracker` |
| `BoundedFailover` | abstract: a request that is resent a bounded number of times and always ends | |
| `FallbackRouter` | `_route_request_with_fallback_impl` and the chain it builds; implements `BoundedFailover` | `Selection` |
| `AsyncWriteQueue` | `async_write_queue.py`: controller, callers, workers, timers | |
| `ReadWriteLock` | `RWLock` of `memory_cache.py`, one action per critical section of its condition | |
| `MemoryCache` | the L1 cache | `ReadWriteLock`, `Selection` |
| `SignatureDatabase` | `signature_database.py`: what each transaction makes of a table | |
| `LegacySignatureCache` | the cache in memory of `signature_cache.py`, and the adapter's map | `SignatureDatabase`, `Selection` |
| `SignatureStore` | the module-level functions of `signature_cache.py`, the facade, the manager, the migration's phases and threads, the recovery of lost signatures | `LegacySignatureCache` |
| `Histories` | messages, blocks, calls and results | `Selection` |
| `HistoryMerge` | the merge of `state_manager.py`, stale-state detection | `Histories` |
| `Sanitizer` | `sanitizer.py`, `signature_recovery.py`, what `scid.py` does to thinking | `HistoryMerge` |
| `Conversations` | `scid.py` and the managers' states, checkpoints, streams | `Sanitizer` |
| `HistorySelection` | the history cache and the smart selector | `Histories` |
| `ContextTruncation` | the progressive compression of `context_truncation.py` | `Histories` |
| `MessageFormats` | normalization, conversion, the forms after a refused signature | `Histories` |
| `RequestPipeline` | middleware and endpoints, and each backend's attempt, over all of these | `Sanitizer`, `HistorySelection`, `ContextTruncation`, `MessageFormats` |
| `GatewayConfig` | what is read from `gateway.yaml` and merged back into it | |
| `ModelNames` | the names of models, the table, the search for a rule | |
| `ModelRegistry` | the registry and its refreshes | |
| `ControlPanel` | the panel's routes, saves, hand edits, restarts, lazy loads | `GatewayConfig`, `ModelRegistry`, `ModelNames` |
| `Selection` | the loops that copy some of a sequence's elements or carry something along: `SelectSeq` and `FoldLeft` with definitions the prover can unfold | |
| `MC...` | values for the constants that a cfg cannot write down | |
| `...Proofs` (eight) | theorems and their proofs; the breaker's are in `FallbackRouterProofs`, the limits' in `ProxyAttemptsProofs`, the write queue's in `SignatureStoreProofs`, the health manager's and the probes' in `MemoryCacheProofs` | the module they are named for |

### How state and actions correspond to the code

**Breaker.** `state`, `failure_count`, `success_count` are the fields of the same names;
`elapsed` is the time since `_last_failure_time`, cut off at the timeout. `IsAvailable(r)`
is `is_available` with the transition to HALF_OPEN it makes; an admitted request is in
flight until it `Ends`: by `RecordFailure`, `RecordSuccess` or `Abandon` (the callers that report
nothing, `proxy.py:2886`). `run` and `streak` are history for the properties.

**Health.** A record holds the known backends with their idle times (the LRU order, ties
left open), consecutive failures, frozen backends with the ticks left, and freeze counts.
An operator is one method with everything it calls: `Failed` creates the entry, evicts,
counts and freezes. `Purged` is the lazy removal of an expired freeze. Durations are
functions of the category, in the code's order, capped by `MaxFreeze`.

**Credentials.** `probe[b]` is a watcher's task: created and not yet begun, asleep between two
probes, waiting for an answer, or leaving. A task that finds no base URL when it begins leaves at
once (`ProbeAborts`, `proxy.py:201`). `NoCredentials` is a refusal with the freeze and the schedule;
`_schedule_credential_probe` starts nothing while the old task is not `done()`, and the model
keeps that task in `leaving` until it is. `starting` are the backends the startup probe has
yet to look at.

**Limits.** Per key the remaining wait, the failure count and the count's age. What
a body says (reason and delay) is an input.

**Proxy.** `req[r]` is the local state of one call: `pc` names the await it is suspended in
(the spacing before a request, the wait for a permit, the gap between permit and send,
the call, the back-off with and without the permit, the body of a stream). Between two
awaits the event loop runs nothing else, so all the code from one await to the next is one
action: `Rejected` covers an HTTP error's classification, the limit it stores, the health
record it writes, the freeze and the decision to retry. `Delayed` and `GetsTurn` are the wait
in the rate limiters. AnyRouter's profiles, its change of the model's name between attempts
and the extra attempts they are worth are part of it. Two account identifiers are kept
apart because the code computes them from different headers for streams
(`proxy.py:3375` against `routing.py:431`).

**Router.** `Route` is everything up to the first call: source of the chain, filters, limits.
An action per way in which a call ends (`Answered`, `ChainFails`, `ChainStops`, `CrossFails`,
`FinalFails`) does all the work up to the next call or the end. A failure is a pair: what
happened, and what the router's text patterns show of it (`proxy.py:4613`). Between calls
any backend may freeze or thaw and the breaker may trip. `trail` holds what was sent: to Copilot
the name that `map_model_for_copilot` (`proxy.py:2072`) has for the model, any function of
names to names (`CopilotName`).

**Write queue.** `place[t]` says where an entry is (caller, queue, buffer, batch in a worker's
hands, timer, gone) and `pc[h]` where each thread is. The batch lock, which is not
re-entrant, is part of the state: a worker that calls `_flush_batch` while it holds the
lock is at `reflush` and never moves on. What the database answers to a batch is any
result `bulk_set` and `set` can return, including an exception when `L2Raises`.

**Memory cache.** `cache` is the ordered dictionary as a sequence. A call of a thread is
a series of actions, one per critical section of the lock and one per acquisition:
`Get`, `LooksUp`, `AsksToTouch`, `Touches`, `GetReturns` is one `get()`, which drops
the read lock before it takes the write lock. A thread sleeping in `Condition.wait` is in
`asleep` until a `notify_all`. `seen` is history: the entries the
dictionary held under a running `get`'s key at some moment of its run.

**Signatures.** A signature is a record of what it is about: the text, the owner, the time.
`tools`, `sessions` and `main` are the dictionaries of `signature_cache.py`, `adapter` the
adapter's map, `db` the two tables of the facade's database, `l1` and `l2` the new manager's
layers. The calls run on the event loop and never await, so the calls that store are one action
each; a question is a list of places (`asking.layers`), and `AskTool`, `AskSession`, `AskText`,
`AskRecent`, `AskLast` are its steps, because the daemon threads of the dual write (`writers`)
run between them. What two transactions do is two actions (`AskText`, `Purges`).

**Conversations.** `states` and `points` are rows of `conversation_state` and
`session_checkpoints`. `Receive` is everything up to the await of the backend: id, load,
stale check, merge, sanitizer; `Chunk` a chunk of the stream with the checkpoint it may save;
`EndStream` the end, broken off or not; `AnswerWhole` an answer that is not streamed. Every
request carries its own copy of the state, as every request has its own manager. Each call of
the database may fail (`Database(up)`), `Restart` ends all requests.

**Pipeline.** `chat` is the conversation as the client has it, `body` as the endpoint has it,
`sent` as the backend gets it. `Dispatch` is the middleware, `ChatCompletions` and
`AnthropicMessages` the endpoints, `Send` the conversion for a backend of the chain,
`RefuseSignature` the retry without thinking, `Answer` what the client then adds to its
conversation. A message is a role, blocks, calls and the call it answers; a text has an
identity and a weight.

**Configuration.** `disk` is `gateway.yaml`; `backends`, `routing`, `served`, `raw` and `cache`
are the five copies of it in memory (`BACKENDS`, `MODEL_ROUTING`, `_model_routing_cache`,
`_raw_yaml_cache`, the sections' own). Requests read the sections in `InUse`, which is all but
`copilot_model_mapping`. A route is one action. A save is a record in the order
of `_write_lock`, and its steps (`ReadFile`, `MergeNext` for each backend, `BackendsMerged`,
`MergeTheRest`, `Replace`) interleave with the routes, since it runs in a thread over the
dictionaries they change. `touched`, `lost`, `foreign` and `by` are history. A model's name is
a record of tier, version, separator, order and tail, and the search goes through the same
candidates as the code, in its order.

## 3. Runs

| run | module | states | shows |
|---|---|---|---|
| `breaker` | CircuitBreaker | 200 | trips and closes only on whole runs, though three requests overlap; refines `CooldownGate`; once failures stop being reported refusals end, though nobody need report a success |
| `health` | MCBackendHealth | 89 000 | frozen list bounded, no freeze count without its backend, automatic freezes after a whole run only, a backend frozen for its credentials is watched, every watcher ends though others renew the freeze |
| `rate_limits` | MCRateLimits | 20 000 | the quota ladder climbs within a run and starts over after success or silence |
| `proxy` | MCProxyAttempts | 171 000 | permits conserved over every way out, cancellation included; every request is answered |
| `memory_cache` | MCMemoryCache | 348 000 | the lock excludes, the size holds, `get` returns only what was there during the call, every call returns |
| `write_queue` | AsyncWriteQueue | 172 000 | the counters account for each entry once, stop leaves nothing queued, retries end; with a database that may raise |
| `router` | MCFallbackRouter | 233 000 | an IDE's client keeps its model, or Copilot's name for it, a stop is a stop, no usable entry is passed over, no call to a frozen backend or one behind an open breaker, and `BoundedFailover` |
| `signatures` | MCSignatureStore | 2 364 000 | a signature given for a text was stored with it, none is given for ever, what the database has is served, and what a dual write brought is found in every phase |
| `conversations` | MCConversations | 1 824 000 | written turns stay, a reset forgets, no checkpoint survives the completion of its stream |
| `pipeline` | MCRequestPipeline | 593 000 | calls and results stay together through all that takes messages out, the newest message arrives, no unsigned thinking is sent |
| `control` | MCControlPanel | 1 447 000 | the panel shows what is in force of the sections requests read, saves keep what is in force and their order, the models learned keep their limit, a rule serves its model however it is spelt |
| `merge_keeps_chains` | MCRequestPipeline | violation | the merge with the kept history separates calls from their results |

Each property has a mutant in `PROJECT.json`: an operator that changes one definition as a
plausible bug would, under which the run finds the property violated.

The types are not invariants of the runs where a theorem proves them for all parameters
(section 4, `TypeCorrect`). The other modules state one that holds in their runs too and tells what the
variables hold.

### Bounds, and why they are enough

- Breaker: three requests, thresholds 2, timeout 2. Two counters of 2 distinguish "whole run"
  from "one short", three requests leave one late outcome from an older phase beside a
  whole run; failures are counted to `MaxFailures` = 4, past every threshold.
- Health: three backends with tables for one entry, so that every insertion evicts, and any
  entry may be the least active one (`MaxIdle` = 0); freezes up to 2 ticks so that a multiplied
  one meets the cap; one backend with a credential gate, two probes per watcher, so that a
  watcher both goes on and gives up; its base URL may be there or not when a watcher begins.
- Limits: two keys that do not interact (symmetric), delays 1 to 4 in the code's order; the
  ladder has the code's four rungs.
- Proxy: two requests for one permit and one retry each, streaming or not; statuses 400, 403,
  429, 500 stand for the classes the code tells apart (signature recovery, forbidden,
  limited with a body, server error); AnyRouter with two profiles. A second backend would share
  nothing with the first.
- Write queue: two entries, queue for one, batch of two, two workers of which one may be
  configured; controller and one caller of `force_flush`. One retry makes the two retry
  counters meet.
- Memory cache: three threads with roles of their own (a reader; a reader and writer; a writer
  that also deletes, clears and cleans up), a full cache for two of three keys, three calls,
  TTL 1. A waiting writer, a reader it blocks and a third thread to
  wake are what the lock's protocol needs; eviction during a `get` needs the full cache.
- Router: three backends, two models, a budget of three where the code has 10, seven
  configurations that use each source of a chain, switched-off rules, missing, disabled and
  incapable backends, one backend twice in a chain, both fallbacks. Three makes the budget
  run out in the loop, in front of the cross-model fallback and in front of the final one.
  Copilot has another model's name for one of the models.
- Signatures: three texts with one prefix, two of which normalize alike; two owners; one
  tool, one session; memory for one entry; times to live of 1 tick and 3 for the second layer,
  so that each place may have forgotten while another has not. Three scenes (tools, sessions,
  texts) of 3 to 5 calls each, since the kinds share no key but the last signature.
- Conversations: two requests at a time and three in all (one from before a reset, one that
  resets, one after), two chunks, one failing call, rows that live one tick; five kinds of
  bodies that clients may send, one whose answer brings a call.
- Pipeline: eleven clients (endpoint, kind, format), four turns, limits of 3 and 4 messages, so
  that each turn after the first is cut; `RecentCount` = 2 and one or two parallel calls, so that
  the results at the end are fewer than the newest messages that stay, or as many; two backends of the chain, one retry. Sizes and
  limits of the compression keep the code's order. `merge_keeps_chains` has limits of 8, so that
  nothing but the merge takes messages out.
- Control: two backends of the code and one that is added, three rules under names of the three
  kinds the table tells apart, eight tails of names. Four budgets: two edits and two reads
  around one save; two saves; a save with a hand edit and a restart; the registry with one
  refresh on demand beside its startup. `EverySpellingFindsItsRule` looks at all names and all
  sets of rules.

`CHECK_DEADLOCK FALSE` stands where calls, requests or budgets are used up (signatures,
conversations, pipeline, control, memory cache) and in the queue's cfg: the queue ends stopped,
or in the worker's lock.

### Fairness, and why the code justifies it

- Breaker (`RefusalsEnd`): time passes (`Tick`), each caller asks again (`IsAvailable`), and a
  request in flight comes back (`Ends`), with a failure, a success or nothing to report. That
  successes are reported is not assumed: nothing in the gateway does it, and the property is not
  that the breaker closes.
- Watchers (`WatchersEnd`): weak fairness of each watcher's own next step (`WatcherStep`), since its
  sleep and its request have an end. Nothing is assumed of those who renew or lift freezes.
- Proxy: weak fairness of each request's own next step. Every await of the loop has a timeout
  or a sleep (`proxy.py:2640`, 3258), so a suspended request proceeds whatever others do.
- Write queue: workers, timers, `stop` and a caller inside `enqueue` are threads, which
  the scheduler runs; nobody has to call `start`, `stop` or `force_flush`.
- Router: every call comes back, since the HTTP client has timeouts.
- Memory cache: a thread that is awake, inside a call and able to move moves.
  Nothing is assumed of sleeping threads: they depend on a `notify_all`.
- The other runs check safety only. The daemon threads of the dual write, streams and saves
  may stop anywhere, and the properties hold all the same.

## 4. Proofs

`tlapm` checks every theorem below for all values of the constants that satisfy the
modules' assumptions (positive thresholds, finite sets and the like, named in the module
that declares the constants and evaluated by the runs).

| theorem | states | by |
|---|---|---|
| `MemoryCacheProofs`, health: HealthTypeCorrect, FrozenListIsBounded, CountsAreNeverOrphans, AutoFreezeNeedsWholeRun | types; tables within their limits; no count without its backend; an automatic freeze needs a whole run | lemmas about each operator of `HealthRecord` on any record, then one step per action |
| ProbesUseTheManager, FrozenIsWatched | the probes drive the manager only through its own operations; a backend frozen for its credentials stays frozen and watched | a step of the composition is a step of `BackendHealth` or leaves it alone, so its theorems carry over; then one step per action on the watchers |
| `ProxyAttemptsProofs`: PermitsAreConserved | free permits and requests inside one add up to the limit | cardinality of the set of holders; each action moves at most one request in or out |
| LimitsTypeCorrect, LadderIsClimbed, FreshRunIsShort | the tracker's types; a failing key's lock-outs never get shorter; a fresh run starts on the first rung | `RunsCounted`: the count and its age follow the failures without a hint, and the last lock-out was no longer than the rung the count stands on |
| `FallbackRouterProofs`: RouterKeepsItsPromise | never more calls than the budget: the safety part of `BoundedFailover`, step by step | `CountInv`: the trail is as long as the attempts counted, and the count stays within the budget at all three places that send |
| StopsAreKept | after a stop by `fallback_on` only the final fallback sends | `StopInv`: besides, the call under way belongs to the stage the router is in, so that its failure is judged by that stage's rules |
| IdeGetsItsModel, RefusedOnlyAfterAll, CallsAreUsable, TypeCorrect | an IDE is sent on with its model, and to Copilot with Copilot's name for it; nobody who could answer is passed over; only usable backends are called | below |
| `FallbackRouterProofs`, breaker: BreakerTypeCorrect, ClosedIsBelowThreshold, TripNeedsRun, CloseNeedsStreak | types and the run's action properties | `BreakerInv` = types, the counters equal the history, closed is below threshold. The threshold alone is not inductive: that a run is as long as the counter says is what the action properties need |
| ImplementsGate | `BreakerSpec => GateSpec` | each step maps to a step of `CooldownGate` or a stutter, under `BreakerInv` |
| `MemoryCacheProofs`: LockExcludes, WritersGoFirst, CacheExcludes | a writer is alone; no reader enters past a waiting writer; the cache keeps to the lock's protocol | `LockInv`: the counters equal the numbers of threads in each place, and at most one thread writes |
| TypeCorrect, LimitIsKept, GetReturnsWhatWasThere | no key twice, never over the limit; a get returns what was there during the call | `CacheInv`: besides, what a get has looked up was seen in its call, and what a set is about to store is an entry. A victim exists under each policy, and its removal makes the cache shorter |
| `SignatureStoreProofs`: TypeCorrect, RightTextAlways, SignaturesAge, StoredServed, MigrationFinds | types and all of the run's properties | below |
| `SignatureStoreProofs`, write queue: QueueTypeCorrect, AttemptsAreBounded, StopDrains, EveryTaskIsCounted | tries per entry; nothing queued after a stop; the counters | `TriedAsCounted`: an entry still under way was tried no more often than its retries are counted, one that is gone at most once more. `Served`, for the draining: what is queued while RUNNING has a worker that looks at the queue again before it ends, what is buffered has one that will still flush, and who holds an entry is busy with it. The counters: each is the cardinality of a set of entries in a place |
| `ConversationsProofs`: TypeCorrect, OldChatIsGone, NothingToResume, TurnsOnlyAdded | types and all of the run's properties | below |
| `RequestPipelineProofs`: TypeCorrect, ThoughtsAreFit, ChainsAreKept | types of what is kept, made and sent; no backend is sent thinking it must refuse; calls and their results stay together | below |
| `SelectionProofs`: SelectedIs | what a selection from a sequence holds, in which order, and that it is shorter when something is left out | induction over the sequence, as the absence of a least counterexample (`Least`, from the well-foundedness of the numbers) |
| `ControlPanelProofs`: TypeCorrect, LearnedModelsAreBounded, SavesKeepTheirOrder, PanelShowsWhatIsInForce, SavesKeepWhatIsInForce, RulesAreFoundByAnySpelling | types and all of the run's properties | below |

The router's second invariant is `RouteInv`. `KeepsAll`: without the pool no call and nothing
of the chain that is left names another model, because a rule with such an entry has raised
before. `Covered`: an entry of the rule that the request could use all along has been called or
is still ahead in the chain, as long as no answered call has stopped it and the budget is not
spent. It holds at the start because such an entry passes every filter (`RuleChainIs`,
`BuiltChainIs`, `WithoutLimitedIs`), and is kept because the loop skips only what it cannot use
(`ChainGoes`). The call under way counts for no stop: it has no answer yet.

`SavesKeepWhatIsInForce` says what an operator relies on, for any number of saves, edits,
files and backends. Its invariant has four parts, besides types and the order of the saves:
`BackendsAgree`, what a save has merged of a backend equals the backend in each field not touched
since; with it goes that a backend with a single key has no list of keys in the file, which is
what the writer's rule about lists needs, and which a hand edit may break: the property's
exception for it came out of this proof. `RulesAgree`, the rules requests use are among those a
save writes, and until they are loaded equal the file's. `Truth`, what was made of a section
agrees with its raw copy. `SectionsAgree`, the raw copy, the waiting saves and the file are
ordered by which sections they hold: a save writes its sections over the file's, so a section
in the file which it does not hold would survive.

`RulesAreFoundByAnySpelling` assumes of the rules what `gateway.yaml` shows, that those for Claude
models are under plain names (`PlainlyNamed`); it needs nothing of the suffixes names may end in. TLC
looks at three rules and eight tails, the theorem at every table and every tail.

The signatures' invariant has a part for each way through the caches. `TextsInv` and `LayerInv`:
an entry or row under a text has a signature of that text, so a hash that two texts share can
make a lookup miss but not answer wrongly. `IdsInv`: a row of the database expires `DbTTL` after
its signature was made, and memory has an entry of it only since before then; whoever asks for
a stored id finds the same signature in memory, if at all, and in the database, and nothing but
its own expiry takes it from there. `NewInv`: what a thread has brought to both layers is in the
second one until it expires, and the first layer has nothing that expires before it; when a row
that is being purged was renewed meanwhile, the first layer has the signature too (`PurgeInv`),
so the purge costs nothing that is promised. The proof found the case in which it does: a delete
that overtakes a thread between its two writes leaves the signature in the second layer only.

The conversations' invariant is about copies, as each request writes its own over the row.
`CopiesInv`: a copy whose request came after the last reset holds no turn from before it.
`PrefixInv`: a copy read after the last write has all of the row in front. `ForgetInv` and `EndInv`
are what the properties say. `PastInv` orders the counters: resets and reads lie in the past.
A request that joins, a chunk, and a request that leaves are each brought to one shape first
(`Joins`, `Updated`, `Left`), whatever kind of client and however the database answers. Of what
clients send nothing is assumed: the merge and the sanitizer decide what the backend gets, but
into the history that is kept go only messages of the user and the response (`AppendsNew`,
`NewMessages`).

The pipeline's invariant says which blocks an assistant's messages may have, in each place
where messages wait: what is kept for a client between its requests (`KeptFits`: the pin of
its conversation, the history cache), what the endpoint has made of a request (`BodyFits`), and
what is sent (`SentFits`). For a client whose thinking is repaired these are `SignedBlocks`, for
any other every block, and after a refused signature `PlainBlocks`. The property speaks of what
is sent only; it is not inductive, because the body takes messages from what was kept
and each retry starts again from the body. A lemma per operator says that it keeps to the blocks
it was given, or gives fewer: the sanitizer signs or removes every thinking block
(`SanitizeSigns`), the compression, the truncation and the smart selection only choose or
shorten, the conversions bring in none, the retry removes all (`RetryPrepared`). They
hold for histories of every length, which is induction over data after all: a fold is a recursive
function over a sequence, so that a value outside the accumulator's type would have a
first place (`RowExists`, `StaysIn`), and the same goes for a concatenation of any number of
sequences (`FlattenIs`).

`ChainsAreKept` needs to say what a history with whole chains is in a form that every operation can
keep. `ChainsIntact` is not: a part of such a history has no such form, and two calls with one
number would hide each other. So a history is read message by message, from a state to a state
(`Leads`): which calls are open, and which there have been at most. A turn (`Turn`) makes calls that
are new while none is open, or answers some that are. `Whole` is a reading that ends with nothing
open, and gives `ChainsIntact` (`WholeIsIntact`). Readings can be joined (`LeadsOn`), cut before a
message that answers nothing (`LeadsFrom`), and thinned (`SelectedLeads`); from this there is one
lemma per operation:

- `SanitizeKeeps`, `PreparedKeeps`, `RecoveredKeeps`: the sanitizer leaves every call and result,
  and finds none that is orphaned (`CallsAnswered`);
- `NormalizeKeeps`, `ConvertKeeps`: normalizing takes parallel results out of the one message they
  came in, converting puts them back into one, while calls, or results, wait until the next message
  of another kind;
- `SelectKeeps`, `SelectionKeeps`: a selection begins anywhere, with messages that neither call nor
  answer in front; closing the chains takes away the results whose calls are missing, and no call is
  then without its result, because the newest messages are all kept;
- `PccKeeps`: the compression finds rounds that are pairs of neighbours (`RoundsArePairs`), and its
  trimming and its last resort (`AggressiveKeeps`) take or leave both of a pair. That holds for
  Anthropic's messages, where one message brings all results, and for calls of one message that
  differ, because a round counts results;
- `RetryKeeps`: taking the thinking out takes no call or result, as long as no message has thinking
  beside calls and nothing else in its content (`Guarded`). Only normalized blocks give such
  messages, which is the exception in the property.

The invariant (`Chained`) has the client's conversation whole but for the calls it has yet to
answer, whose numbers are those of its turns (`MadeBy`), the body and what is kept whole, and,
unless the exception applies, what is sent whole and guarded. It assumes that clients of the
messages endpoint send blocks, which is what Anthropic's messages are, and that no call has the
number that stands for none; both are named assumptions of the modules. Clients whose history is
merged are excepted, as `MergeKeepsChains` is violated.

**Model-checked only.** All liveness (`RefusalsEnd`, `WatchersEnd`, `EveryRequestAnswered`,
`RetriesEnd`, `CallsReturn`, the liveness of `Promised`), since fairness and ENABLED are out
of the prover's reach. Of the pipeline, `NewestReaches`, which depends on how the limits
relate to the lengths of the turns a client may take.

## 5. Where the code and its words disagree

One run finds a counterexample to a promise (`findings` in `PROJECT.json` quotes it):
`state_manager.py:549` takes, where roles match, the kept message whatever it says, and so
separates a call from its result, which line 557 says must not happen.

These disagreements were met in modelling and are in the models as the code has them:

1. `rate_limit_handler.py:256`: a nested tuple in an `except` clause raises a TypeError for
   a 429 whose body is not Google's JSON, which line 160 means to survive. The loop ends, the
   failure is recorded twice (`proxy.py:3097` and 3314), and no limit is stored.
2. `async_write_queue.py:346`, 369, 378: a worker flushes a full batch, or one that has
   waited, while holding the lock the flush takes: it stops for good, against line 116
   and `test_cache.py:630`.
3. `signature_database.py:965`: `bulk_set` reports rolled-back rows as stored, against 884.
4. `proxy.py:4613`: "Backend error: 503" matches none of the router's patterns, so a
   configured `fallback_on` of 503 (`gateway.yaml:149`) stops instead of falling back, against
   `config_loader.py:163`.
5. `proxy.py:3779`: `akarins_gateway.fallback_manager` does not exist, `get_model_pool` is `None`
   and is called: an IDE's request with a cross-model rule (`gateway.yaml:137`) gets no answer,
   against 4341.
6. `signature_database.py:468` keeps the expiry that `MemoryCache.set` (`memory_cache.py:260`) has
   put in the shared entry: rows of the second layer live 30 minutes, not the days of
   `migration_config.py:49` and `signature_cache_manager.py:195`.

Breaker and health:

- Half-open admits everybody (`circuit_breaker.py:202`) where line 100 speaks of
  a few probes. The gateway never calls `record_success` (`proxy.py:2886`, 3093), so a
  tripped Copilot breaker does not close by itself.
- The table keeps one entry more than its limit (`health.py:54`, 38). A milder failure
  shortens a running freeze (82, against 217). A credential freeze of 3600 s is capped at
  1800 s. A watcher lifts whatever freeze is in force; a refusal that comes while a watcher is
  on its way out starts none (`proxy.py:170`, against 128). The startup check of
  antigravity's credentials imports a module that is missing.

Attempts and router:

- 500, 503 and 529 are never retried although `config.py:68` lists them:
  the answer's own limit is stored before `should_retry` looks at limits. A stream's limits
  are kept under another account than the one `should_retry` asks for.
- HTTP errors of calls that do not stream never reach the threshold that freezes a
  backend (`proxy.py:3192`, 3316); a stream that was read to its end does not cut a run of
  failures (3625, against `health.py:363`); waiting for a permit in vain is charged to the
  backend (3258, against `health.py:355`); the 300 s freeze of a refused connection is
  overwritten at once (3275, then 3285).
- A stream gives its permit back before its body (`proxy.py:2683`), so the limit of
  `concurrency.py:5` does not count running streams.
- `KeyedRateLimiter.cleanup_idle` is called by nothing. A turn is reserved before the sleep, so
  a caller that oversleeps may be nearer to the next one than the interval.
- The "visited-backend tracking with max depth of 20" of the project's README is not
  in force; one backend may get a request up to three times. "unavailable" in a `fallback_on`
  list (`gateway.yaml:147`) matches nothing. The guard against "ghost" backends (line 4273) is
  not applied to the cross-model and the final fallback (4659, 4724), and the final one does not
  ask whether the backend is enabled. A client of an IDE may not be sent to another model (4165,
  4341), but Copilot is asked for the one its mapping has (2072): Sonnet 4 for the dash-spelt
  Sonnet 4.5. `IdeKeepsModel` has that name as an exception. A rule's `fallback_on` also governs a chain that was
  built from another source.

Caches:

- `WriteTask`'s priority (line 55) is ignored by a FIFO queue. `test_queue_overflow`
  expects drops from a queue that is stopped. A retry that comes due when the queue is not
  RUNNING forgets its entry without counting it.
- The "fifo" policy evicts like "lru", since `get` and `set` move entries to the
  end (`memory_cache.py:311`, against 228 and 277). `cleanup_expired` may delete an entry that
  was refreshed after it looked (487, against 502).
- The database stores and serves a signature that memory refuses as invalid; an owner's
  isolation ends at the database and the adapter (`signature_cache.py:587`, 1302); whether a
  write reached the database is not told (1263). `get()` of an expired row deletes one that was
  renewed in between (`signature_database.py:413`). `delete()` empties the layers one after
  the other (`signature_cache_manager.py:471`), the threads of the dual write may land out of
  order or behind a delete, and `invalidate` leaves the new cache alone (`legacy_adapter.py:296`, against 269).
- `cleanup_old_scids` passes an argument to `cleanup_expired_states`, which takes none
  (`state_manager.py:1988`, `signature_database.py:1577`): the database is never cleaned.

Conversations and messages:

- Every request has a manager of its own (`scid.py:1389`): of two that overlap, the later one to
  end overwrites the other's turn, and one that ends after a reset brings the old history back.
  A failing read gives an empty state, which then overwrites the stored one
  (`state_manager.py:232`). `TurnsAreKept` and `ResetForgets` name these exceptions.
- The sign of an old checkpoint may be put on a newer one (`scid.py:741`, 781). An answer that is
  not streamed never clears a checkpoint (552). A new chat with the same first text from the
  same address is the old conversation.
- Two parallel calls answered by one kept message insert it twice (`state_manager.py:1447`).
  A client that sends fewer messages than were kept gets the kept tail behind its own (597).
- The sanitizer puts the context's signature on any unsigned thinking and caches it
  (`sanitizer.py:378`).
- Compression never runs for a client that is detected: `endpoints/anthropic.py:159` passes an
  Enum whose `.lower()` does not exist (`context_truncation.py:2034`), and the error is caught. It
  does not count the weight of blocks with calls (242).
- After a refused signature an assistant message of nothing but thinking and calls goes, its
  results stay (`thinking_recovery.py:225`); `ChainsStayIntact` excepts that. Parallel results at
  the end, as many as `recent_count` or more, fill the window of the newest messages without the
  message that called (`smart_selector.py:118`), and are all dropped with it; `NewestReaches` excepts
  exactly that. Normalization drops
  text and thinking beside calls (`normalization.py:731`) and puts a user's text behind
  the results it came with (797). Streams are decoded chunk by chunk with errors ignored
  (`conversion.py:670`).
- `set_client_feature` changes sets that running requests iterate (`client_detector.py:206`).

Configuration:

- Lost: edits of sections while there is no file; the deletion of the last key
  (`config_writer.py:165`); a URL edited where the file names a variable (153); the switch for SCIDs
  and the fetched models of known backends; what was written by hand, when the panel saves;
  a single key where a list was written by hand meanwhile (165). Saved in plain text: the
  environment's keys.
- In force though shown otherwise: a cross-model fallback that was switched off, until the
  restart (`panel.py:788`, `config_loader.py:1035`). Shown though not in force:
  `GET /routing` reads the file. An edited rule, when no request has loaded
  the rules yet, is then the only one (`panel.py:547`). `copilot_model_mapping` is shown, edited
  and saved by the panel, but `map_model_for_copilot` uses the table in the code
  (`config.py:652`); so `PanelTellsTruth` is about the other sections.
- A route that adds a backend or a rule while a save goes through them makes the save fail.
  `get_sorted_backends` raises for a backend without a priority. `enabled: "${…}"` is a
  string, and so true (`config.py:250`); `api_key` of a backend the code does not know is not
  read (289). Backends switched off later stay in the registry's lists until a restart.
- The registry's limits are "to prevent unbounded memory growth" (`model_registry.py:23`), but the
  raw list of a backend is added to before the total is looked at (304), has no limit in all,
  and is read by nothing: it grows with every name a backend ever lists. `DynamicBounded` is
  about the models that are served.
- Rules under names that the table sends to another model cannot be found by their own name (gpt-4o,
  gpt-4, gemini-3-pro, "claude-sonnet-4-5-thinking"); the shipped rule "claude-opus-4.6", whose
  name is rewritten too (`model_config.py:72`), is found by its variants (`config_loader.py:682`). Names that tell the version first and are not in the
  table miss their rule although `match_model_pattern` (754) understands them.
  `map_model_for_copilot` takes the dash-spelt Sonnet 4.5 and any 4.6 for Sonnet 4 (`config.py:669`).

## 6. Not modelled

- **Formats and wording**: the Gemini converters, tool schemas, headers, HTML detection, log
  texts, statistics nobody decides by. Their content is text; where the router reads a text
  (`proxy.py:4613`) the model has what the text shows. Nor does the router's `Send` have the
  texts that are injected into a request on its way (`proxy.py:1899`, 2274) or AnyRouter's spellings of
  a model's name (1548, 2215).
  A signature that a client sends comes in one of two fields, of which the sanitizer's context
  reads one (`sanitizer.py:370`): `ThoughtSigned` tells which signatures come in that. The thinking interceptor parses a
  stream's characters, which the models of a stream abstract from.
- **Input and output**: HTTP client, TLS, YAML syntax, the panel's pages, the files of logs.
- **Public stations** in the attempt loop: `on_failure` moves an index on that picks a URL and
  a key; the model has AnyRouter's profiles and does not tell its URLs apart.
- **In the router**: the diagnostics that may rewrite messages before routing, requests without a
  model, and the helpers of `routing.py` that no path of `proxy.py` calls.
- **Unused code**: `AdaptiveConcurrencyController`, `hash_cache.py`, `trigger_emergency_compress`,
  `reload_model_routing_config` and `reload_static`, `_on_antigravity_credential_change`.
- **Augment bridge and tool loop**: the bridge translates a protocol node by node and keeps two
  dictionaries with a time to live; the loop runs tools within one request and has a fixed limit.
- **Health checks and model tables** of single backends, which share no state with the request
  path.
- **Asynchronous writes of the signature manager**: nobody hands it a queue.
- **Windows**: saving replaces the file at once, as POSIX does; the fallback that copies
  (`config_writer.py:275`) is not atomic.

## 7. What could come next

- `StationRotation`: concurrent failures of requests that share a station's index, composed with
  `ProxyAttempts`.
- The tool loop with `tool_loop_recovery.py`, when the backend that uses it is part of the
  repository.
- A proof that `ProxyAttempts` keeps its types, from lemmas on `HealthRecord`.
- `NewestReaches` as a theorem, under an assumption that relates the selector's limits to the number of
  parallel calls.
