# TLA+ models of omni-stream-RAG-mesh

This directory holds TLA+ models of the concurrent and failure-prone parts of
the application, TLC configurations that check them on small instances, and
TLAPS proofs of their central properties for every value of the constants.

Every definition is written from the code. `PROJECT.json` gives, under `map`,
the lines of the source each definition stands for, under `hazards` what the
code has to get right and where, under `runs` each check, under `mutants` a
plausible bug for every property that the check then reports, and under
`findings` the places where the code does something else than a document or a
comment of the repository says.

Contents: [the system](#the-system), [modules](#modules), [runs](#runs),
[bounds](#bounds), [fairness](#fairness), [abstractions](#abstractions),
[proofs](#proofs), [findings](#findings), [not modelled](#not-modelled),
[plan](#plan), [how to run](#how-to-run).

## The system

The application is one FastAPI process. Its handlers are plain functions, so
the framework runs them in a thread pool: every object made at start-up (the
retrieval policy, the store, the audit sink, the event publisher, the payment
services) is shared by threads that run at once. Around it stand the CI gate,
the release scripts and the deployment.

| component | state it keeps | operations | talks to | what is hard | what makes it correct |
|---|---|---|---|---|---|
| Resilience policy, `contexts/ai/resilience.py` | token bucket (`_tokens`, `_last_refill`), semaphore `_bulkhead`, `_active_workers`, gauge | `call`: take a token, take a slot, run the operation in a thread, wait at most the timeout; `release_slot` as done callback | retrieval store, model, payment scoring run inside it | clock read outside the lock; callback in either thread; timed-out threads go on; failed submit | rate limit over every window; no slot leaked or returned twice; callers return |
| Request orchestration, `app/main.py` | none of its own: writes to all stores | `ingest`, `ingest_payment`, `ask`; `record_transition`, `record_compensation`; read-only routes | everything | each call may fail, also after it took effect; crash between two calls | one lifecycle a request, agreeing with the answer; leftovers accounted for |
| Ingestion service | none | redact, split, publish telemetry | publisher | may raise before the first effect | nothing stored before it is announced |
| Retrieval service, `contexts/ai/services.py` | `llm`, set by each request | `ask_with_outcome`: two policy calls with fallbacks | policy, store, model, publisher | two failure boundaries | one compensating event for each failed boundary |
| Payment services, `contexts/payments/services.py` | none | `ingest` (tokenize, publish), `score` (fail closed) | policy, publisher | fails closed with success for the client | compensation announced |
| Retrieval store, `app/storage.py` | vector collection, search index, or in-memory `OrderedDict` | `add`, `remove`, `query`, eviction | external backends | two stores, no transaction; dictionary without a lock | success means both; bounded memory; consistent answers |
| Audit sink, `app/audit.py` | the backend chosen at start-up (none, S3, Azure or GCS), locked objects in it; without one a bounded deque | `write`, `write_state_transition`, `write_compensation` | S3, Azure, GCS | uploads that the client retries, whose answers are lost, that arrive late; stores without a lock | what a write returned is kept for good; every write ends |
| Event publisher, `contexts/governance/publisher.py` | `_producer`, `_connecting`, `_next_connection_attempt` | `publish`, connect, `close` | Kafka | connecting outside the lock; exit while threads run | single-flight, backoff, no lost producer, bounded latency |
| Redaction, `app/redaction.py` | none | `redact`, `token_for`, `sanitize_for_boundary` | every record, event and stored text passes it, some of them three times | five overlapping patterns in one pass; what stands next to an identifier; sanitizing again | stable at the boundary; a question gets the document's token; timestamps stay |
| Health reporting, `app/health.py` | gauge `rag_ready` | one contact of each dependency after the other; what is required decides | all backends | services change during a report; reports overlap | no readiness that was not there; what is optional never harms; the gauge converges |
| HTTP metrics, `app/http_metrics.py`, `app/metrics.py` | counters and gauges behind one lock | gauge up, pass on, count, gauge down | the application, scrapes | exceptions before and after the response began; a scrape between any two steps | every request is in flight or counted, and counted as it was answered |
| Supply-chain gate, `ops/supply_chain.py`, `ci.yml` | first-seen history in a CI cache; exceptions file | evaluate, block, exit status | scanners, cache service | cache lost; findings renamed; main moves | an aged finding blocks; nobody pays for what he did not bring in |
| Release stream, `.github/scripts/release_check.py` and its workflows | branches, tags, releases, images | `check` on pull requests, `tag` on tags | GitHub | what a check saw is used later | an accepted tag stays acceptable; what is released can be published |
| Settings, domain records, operations tools, streaming job, deployment | none the program keeps | start-up checks, scripts, manifests | | | |

How they interact: a handler records PROCESSING, calls its service, stores,
writes the audit record, records COMPLETED or COMPENSATED and answers. Each
record is an audit write whose failure is only logged, followed by an event;
each event goes through the publisher, which never raises for the broker's
sake, but refuses an event that redaction would still change. What a record or
an event holds was sanitized when it was made, is sanitized again by the sink
and checked again by the publisher. Retrieval, inference and scoring run inside
the policy.

## Modules

| module | models | correspondence |
|---|---|---|
| `RateLimits` | the limits the policy is made with | the constants `TokenBucket` and `ResiliencePolicy` share, with their assumption. |
| `TokenBucket` | `_take_token` | `ReadClock` is `time.monotonic()` before the lock, `Admit` and `Reject` the two ends of the locked block. `grants` is a history of admitted readings. |
| `Bulkhead` | nothing of the code: what the policy promises | abstract: `Enter`, `Answer`, `Leave`. |
| `ResiliencePolicy` | `ResiliencePolicy.call`, `release_slot`, the executor and its future as `call` uses them | `pc[k]` is the caller's place in `call`, `fut[k]` its future, `slot[k]` how far the slot is from acquisition to release. One action for each step outside a lock or for each locked block. `Bucket` is `TokenBucket` by INSTANCE: its actions are the steps of `_take_token`, its properties are checked, and proved, of the whole `call`. |
| `RequestLifecycle` | nothing of the code: what the documents promise of a request | abstract: INITIALIZED, PROCESSING, COMPLETED or COMPENSATED, then one answer that agrees. |
| `RequestEffects` | `record_transition`, `record_compensation`, `publish`, `AuditSink.write` as the routes use them, the answer, a crash | `todo[r]` is what is left of the handler; a call that can end in several ways replaces it by the code that follows on that path. `log` and `stage` are histories: each record and each event, in their order, and the last transition among the events. Of the records that say why chunks may be left (`Owners`) it says whether the sink took or failed them (`"record"`, `"lost"`), of the others only that they were tried. `audited` is what the audit backend holds, `raised` whose write raised; `RecordArrives` is a request of the backend's client that stores the record unheard, during the write, after it has raised or after the crash. |
| `IngestRoute` | `ingest`, `IngestionService.ingest`, `RetrievalStore.add` and `remove` with both backends | `vector`, `search`: what each backend holds of each request. Every failure may come after the effect. |
| `PaymentRoute` | `ingest_payment`, `PaymentIngestionService.ingest`, `RiskScoringService.score` | the except clause and the fail-closed path. |
| `AskRoute` | `ask`, `RetrievalService.ask_with_outcome` | fallbacks of both boundaries; `ModelConfigured = FALSE` for a base URL the client refuses. |
| `RequestMesh` | the three routes in one process | composes the route modules; each request is mapped to `RequestLifecycle`, and each audit write of a route to one of `AuditLog`, by what the handler takes it for. |
| `EventPublisher` | `EventPublisher` | `wait` is the time left until `_next_connection_attempt`; `open` the producers created and not closed; `broker` changes at any time. |
| `AuditLog` | nothing of the code: what the sink promises | abstract: `Begin`, `Keep`, `Succeed`, `Fail`. |
| `AuditSink` | `AuditSink.__init__`, `_key`, `_persist` and the three kinds of `write` | `Configurations` are the environments it is started with, `Accepted` those its constructor does not refuse. A write is a number of attempts of the client, each of which the store may refuse, carry out, answer, or find again later. |
| `TransitionRecords` | `record_transition` from end to end | composes sink and publisher: the audit write, whose failure is only logged, then the publication, in concurrent threads. |
| `PiiPattern` | the five patterns of `PII_PATTERN` and their alternation | a text is a sequence of symbols; `Ends` are the ends of a match of one pattern at one place, `Matches` the pass of `sub`. |
| `Redaction` | `_canonicalize`, `token_for`, `redact`, `sanitize_for_boundary`, `_memory_tokens` as far as tokens go, the publisher's guard | pure operators, and a record that is sanitized as it is made, as it is stored and as it is published. |
| `MemoryStore` | the in-memory `_remember`, `remove`, `query` | each dictionary call is one step; anything may happen between two. |
| `SupplyChainGate` | `evaluate`, `block_reason`, `validate_exceptions`, the state file and the cache of `ci.yml` | `Run(b)` is one run of the gate on a branch; the other actions are what happens around it. `carried` is which versions of each package a branch has: history and `introduced` know a package by its name, an exception by its version too. |
| `ReleaseStream` | `cmd_check`, `cmd_tag`, the three workflows that use them, the rulesets | commits carry their VERSION, the changelog's sections and their ancestors; `Check`, `Merge`, `PushTag`, `Release`, `Publish`. |
| `HttpMetrics` | `HTTPMetricsMiddleware`, `rag_http_requests_in_flight`, `rag_http_requests_total` | `stage[r]` is a request's place in the middleware; `status` its local variable, `sent` what the client got, `counted` what the counter has of it. |
| `HealthReport` | `HealthService.report` for readiness, `dependency_status`, `_hard_dependencies` | `Plan` is the sequence of contacts, `at[r]` the one a report is at; `setting` the environment the process started with; `up` changes at any time. `seen` and `outage` are histories. |
| `Monitoring` | `/health/ready`, `/health/startup`, `/readyz` and other requests through the middleware | composes the two: a report is made while its request is inside. |
| `*Proofs` | | theorems and proofs about the module they are named after. |
| `MC*` | | small instances, symmetry sets, the texts of the redaction run. |

Definitions headed `Mistake:` belong to no behaviour. Each is a plausible bug
in the definition that follows it, and is named in `PROJECT.json` under
`mutants` with the property that notices it.

## Runs

| run | module, cfg | what it shows |
|---|---|---|
| `resilience_policy` | `MCResiliencePolicy` | `SlotsConserved`, `ActiveExact`, `RunningBounded`, `NothingStartsLate` with a callback in either thread, a failed submit, a cancel that meets a queued or a running operation; `ImplementsBulkhead` (refinement with its liveness), `CallersReturn`, `SlotsReturn`, operations allowed to hang for ever. `RateBounded`: no run of consecutive admissions exceeds a full bucket plus what came in between their readings, although an overtaken caller refills with a negative elapsed time. `FreshUnindebted`: the level that may then be negative is made up for by `_last_refill`, which went back with it. |
| `resilience_gauge` | `MCResilienceGauge` | violation: the gauge keeps a stale value with no call in flight. |
| `request_mesh` | `MCRequestMesh` | one request to each route, interleaved, with every failure and a crash anywhere: `ImplementsLifecycle`, `SuccessMeansBoth`, `CrashLeavesTrail`, `FailuresAnnounced`. `LeftoversOwned`: chunks that a failed ingest leaves behind have a record in the sink that owns up to them, unless the sink failed that record too, and then IngestionCompensated is out. `EventsAreTrue`: what an event tells is so from the moment it is published, whatever becomes of the request. `KeepsAuditPromise`: an AuditRecordLogged event tells of a record that is kept for good, while the record of a write that raised may arrive at any time; the routes use `AuditLog` as `AuditSink` implements it. |
| `payment_event`, `ask_stuck` | `MCRequestPayment`, `MCRequestAsk` | violations, see [findings](#findings). |
| `transition_records` | `MCTransitionRecords` | `ImplementsAuditLog` (refinement with its liveness): over every backend the constructor accepts, what a write returned is kept for good, though attempts are retried, refused, lost and late. `RecordReturns`: the handler gets control back whatever store and brokers do. `SingleFlight`, `BackoffHonoured`, `NoProducerLost` with `close()` at any time; `Reconnects`. |
| `redaction` | `MCRedaction` | `BoundaryStable`: what was sanitized once is stored as it is and not refused by the guard. `QuestionFinds`: an identifier in another writing gets the token the document holds. `TimestampsKept`. Two things with too little between them, and the two cases `BoundaryStable` names, are exempt; see [findings](#findings). |
| `memory_store` | `MCMemoryStore` | `MemoryBounded`: at most one document above the limit for each thread inside `add`; `EvictionsBounded`: threads that evict for each other take from the limit fewer documents than there are threads; `FailuresLeaveNothing`: an ingest that raised in `add`, which the handler does not roll back, has no chunk in the store; `AnswersFromOneMoment`: a query answers from one moment or raises. |
| `monitoring` | `MCMonitoring` | `EveryRequestShown`, `CountedAsAnswered` for every way a request ends; `ReadyWasSeen`, `OptionalHarmless` with services flipping between the contacts; `GaugeConverges` with overlapping reports. |
| `supply_chain` | `MCSupplyChainGate` | Under lost caches, renamed findings, changed versions and merges of others: `AgedHighBlocks`, unless every version on main is excepted; `UntouchedPasses`, for a pull request whose versions stand with the exceptions as main's do; `GreenMergesGreen`, unless the merge takes a package out of its exception (`Uncovers`). |
| `release_stream` | `MCReleaseStream` | `VerdictStands`: what was accepted once is accepted by every later run. |
| `release_publish` | `MCReleasePublish` | violation, see [findings](#findings). |

### Bounds

- `resilience_policy`: two calls for one slot, places reused without end: every
  way to wait for, be refused and get back the slot. A second is two ticks, and
  brings in a bucket of two tokens, over two ticks: the bucket is dry, refilled
  in part and full again, and a reading is overtaken by one that is a tick or
  two newer. The proofs are for any number of calls and slots and any rate.
- `request_mesh`: one request to each route, two chunks: the smallest document
  of which the search index can hold a part. Requests to one route touch
  different identifiers, so a second one adds no state that the first could
  see. The proofs are for any requests and any number of chunks.
- `transition_records`: two threads (one connects, the other skips or sends),
  two producers that may be open at once (the one `close()` flushes and one made
  meanwhile; `NoProducerLost` makes two enough), two attempts of a write, so that
  a retry meets what the first attempt left, a backoff of one tick. Time needs no
  bound: only what is left of the backoff is kept. The backends are none, S3, GCS
  and one the sink does not know; Azure behaves as GCS does. The proofs are for
  any number of threads, producers and attempts and any backoff.
- `redaction`: texts of two things out of twelve (a date and a timestamp, an SSN,
  two writings each of a card number, an e-mail address and a phone number, a
  long number that is no card, a short one, a word) with nine gaps between them
  and two beginnings, in a field of each kind. The patterns look one symbol to
  either side, so what stands farther away than a neighbour changes nothing; the
  thresholds (8, 13 to 19 digits, 6 of a fraction) are the code's.
- `memory_store`: three ingests of two chunks, one query, a limit of two: fewer
  than the threads, so that all exceed it at once, and enough for
  `EvictionsBounded` to say something of three threads (with a limit of one it
  would not). The proofs are for any ingests, queries, chunks and limit.
- `monitoring`: two probes that overlap and one other request, all reused
  without end. Three contacts: one of an optional check, two of a required one,
  so that a service it needs may change before or after it is contacted. Two
  environments: one that can be ready, one that names as required what it has
  disabled. The proof is for any requests, plan and environments.
- `supply_chain`: one advisory: `evaluate` decides on each finding by itself,
  except that an exception out of its term fails the run as a whole. Two
  versions, which are alike (hence symmetric): one that is excepted beside one
  that is not. Grace of one day, terms of none and one, days 0 to 2, so that a
  finding can be seen, age, be renamed and outlive an exception. The proof is
  for any advisories, versions, grace and terms.
- `release_stream`: two versions, one candidate each, two pull requests, four
  commits: the first, one head for each pull request and one merge, so that a
  check goes stale and tags stand on main, on a release branch and on commits
  that were never merged. The merge of the second pull request as well is
  beyond the bound.
  The proof is for any number of each.

### Fairness

- `ResiliencePolicy`: weak fairness of each caller's thread and of
  `release_slot`. Threads that can run do run, and `future.result(timeout)`
  returns by then. No fairness of `Finish`: the operation may never end. None
  of `Start` either.
- `RequestMesh`: weak fairness of each handler. Every client call it makes has
  a timeout (Kafka, the backends, the policy), so it ends somehow.
- `TransitionRecords`: weak fairness of time, of the threads (every call to a
  store or a broker has a timeout), of a late request, which arrives or is lost,
  and of new transitions, which only `Reconnects` needs: a service without
  traffic has no reason to reconnect. Nothing of the broker: `Reconnects` speaks
  of the case that it stays reachable.
- `Monitoring`: weak fairness of each probe. The kubelet probes without end
  (`readinessProbe` of the chart), and each contact has a timeout. None of
  other requests, nor of the services; `GaugeConverges` speaks of the case that
  these stay as they are.
- The other modules state safety only.

`CHECK_DEADLOCK FALSE` stands where the system may really stop: all requests
answered, all ingests over, the text published or refused, the last day or the
last commit of the bound.

### Abstractions

- *Numbers.* Tokens and seconds are floats in the code; here units and ticks,
  with `Unit` units to a token and `Ticks` ticks to a second, which gives every
  rational rate. Rounding is left out.
- *Places for calls.* A call of `ResiliencePolicy` is a place for calls in
  flight, used again when the caller has returned and the slot is back, so
  behaviours are endless with finitely many states.
- *TimeoutError.* `concurrent.futures.TimeoutError` is the builtin class, so an
  operation that raises it itself takes the same path as an expired wait.
- *Records and events.* Identifiers, payloads and headers are left out; a
  record is its reason or state, an event its name. `record_transition`'s event
  is named by the state it announces.
- *Failure.* A failed call on a backend, and a failed write of an ingest's or a
  question's audit record, may or may not have taken effect. A record in
  `Owners` whose write failed counts as lost, though it too may arrive; of a record
  of a transition, or of another compensation, no property tells failure from
  success, so neither does the model. The publisher's failures are not seen by a handler,
  except those of the boundary guard, which are where the route can meet them.
- *Stores.* An attempt's outcome is what its store can do: S3 and GCS put the
  object under its lock as it is created; a plain create is refused where the
  object exists. Azure differs from GCS in the names of the calls alone. Who may
  bypass a GOVERNANCE lock, and the end of the retention period, are left out.
- *Text.* A text is a sequence of symbols: letters are two, digits are their own
  figures, `_` and `%`, other alphabets and their digits are left out. A token is
  one symbol that carries its value, so equal tokens are equal values: collisions
  of the digest are left out, and whether 13 to 19 of its 32 hexadecimal digits
  are decimal and stand together is chosen. A record is one field.
- *The dictionary.* Each method of `OrderedDict` is one step under the
  interpreter's lock. Its iterator raises when the dictionary was changed since
  it began, and does not look again behind the last key.
- *Reports.* A contact is one step: what it finds is decided at one moment of
  it, and its timeout only says how long it may take. Answers are what the
  middleware and the probes tell apart, classes of status. `vector_store`
  contacts two services: its check makes a whole `RetrievalStore`, which opens
  the collection and asks an enabled search store for its index.
- *Days of the gate.* Days count from `INITIAL_DATE`, so that the code's
  `min(INITIAL_DATE, today)` is 0. Severities below High never block by
  themselves and are left out; so is the scan itself, a failure of which fails
  the job.
- *Packages and exceptions.* An advisory is about one package of one image or
  lock file, and says the same of each of its versions. What the KEV catalogue
  lists has a CVE name. The exceptions of one advisory are entered and withdrawn
  together and share their dates, and both branches have them at once, as if the
  file were only ever changed on main and the pull request brought up to date.
- *Releases.* All versions share X.Y and hence one release branch; alpha and
  beta tags never reach publishing. A conflict of VERSION needs a third
  version. A dry run changes nothing. Scans and builds before publishing may
  fail, which is as if the workflow was not started.

## Proofs

Eight modules, checked by TLAPS for every value of the constants under the
assumptions the modules state: limits are positive (`LimitsPositive`,
`BulkheadPositive`, as the constructor at `resilience.py:42` refuses others;
`Calls` finite), `LimitPositive` and `IngestsFinite`, `BackoffPositive`,
`AttemptsPositive`, `BackendsKnown` (those of `audit.py`), `RoutesPartition`,
`DaysAssumption`, `HistoryAssumption`, `PlanAssumption`, `ProbesAreRequests`
(requests finite). TLC checks these assumptions in each run. Every safety
property of a passing run is proved, those of `redaction` excepted; so is what
remains true of the properties that the code violates, where it can be stated.

**`TokenBucketProofs`**: `TypeCorrect`, `RateLimited` (`WindowBounded`),
`RateInRealTime`, `NeverInDebt` (`NoDebt`), `SlowRateStarves`. `WindowBounded` is not inductive: it
says nothing of the tokens that are left. The strengthening `Potential` does: for
each earlier admission, the tokens granted since, plus the level refilled to the
last reading, are at most a full bucket plus what came in since. The lemma
`RefilledFacts` keeps the minimum in the refill out of the step proofs;
`Distribute` and `Differences` do the products that the solver does not.
`RateInRealTime` is the limit as an operator reads it: of the callers that read
the clock within an interval of time, no more than a full bucket and the
interval's refill are admitted. They are no run of admissions, since the lock is
taken in another order; the first and the last of them in that order span one
(`LeastOf`, `GreatestOf`), which `WindowBounded` bounds.
`SlowRateStarves` says what a rate below one token a second comes to: the bucket
holds less than a token, and no call is ever admitted.

**`ResiliencePolicyProofs`**: `TypeCorrect`, `NoSlotLeaks`, `CountIsExact`,
`BulkheadHolds`, `NothingLeftQueued`, `RefinesBulkhead`, `PolicyRateBounded`,
`PolicyFreshUnindebted`, `PolicyRateInRealTime`, `RefinesTokenBucket`,
`SlowPolicyRefuses`, `RefusalsAreDue`, `RestIsNotFull`, `OneSlotSettles`. The
inductive
invariant adds `Phases`, which says for each place in `call` which states of
the future and of the slot go with it: who will run `release_slot`, and that
nobody runs it twice. The counting lemmas (`HandOver`, `SameSlots`,
`SameCounts`) relate one step of one call to the cardinalities. `BulkheadHolds`
follows as a running operation always has its slot. `RefinesBulkhead` is the
safety part of the refinement: every step enters, answers, leaves or stutters.
The abstract bulkhead says nothing of the calls it turns away, so one that
refuses everybody would implement it; `RefusalsAreDue`, an action property, adds
that a call is rejected only as every slot is with another call.
`RefinesTokenBucket`: every step of `call` is one of the bucket's or leaves it
alone, so what `TokenBucketProofs` shows of the bucket holds of the policy
(`PolicyRateBounded`, `PolicyRateInRealTime`, `PolicyFreshUnindebted`), and a rate below one call a
second is one at which nothing but refusals ever happens (`SlowPolicyRefuses`).
`RestIsNotFull` and `OneSlotSettles` are what remains of `GaugeSettles`, the first
finding. With no slot taken the gauge may be wrong, but it never shows a full
bulkhead: by `GaugeInv`, a thread that releases never sets it to the full count,
and while it shows the full count somebody is yet to set it as it releases. With
one slot nothing else than full and empty is left, and so nothing wrong.

**`RequestMeshProofs`**: `RoutesTyped` (`TypeOK`, proved only), `SuccessIsComplete`
(`SuccessMeansBoth`), `LeftoversHaveOwners` (`LeftoversOwned`),
`CrashesLeaveTrails` (`CrashLeavesTrail`), `FailuresAreAnnounced`
(`FailuresAnnounced`), `RefinesLifecycle`, `SettlingRefinesLifecycle`,
`QuestionsSettle`, `RefinesAuditLog` (`KeepsAuditPromise`),
`EventsTellTheTruth` (`EventsAreTrue`), `AnswersStand`. A handler that has begun is a
`Script`: records, events and single calls on the search index in front, and one
step at its end that decides how to go on. The invariant speaks of that last step
(`Phase`), and for what the front has to do says that it is `Due`: done, or still
in front. A step in front then changes nothing of it, and only the deciding steps
need proofs of their own, one for each route's step. It is local to a request;
what other requests do leaves it alone (`Same`, `Others`). `RefinesLifecycle` is
the safety part of `ImplementsLifecycle`, under the hypothesis that the model
client can be made: without it the third finding is a counterexample.
`SettlingRefinesLifecycle` needs no such hypothesis: it is the refinement for the
requests that settle, which are all but questions without a model client, while
those run among them. `QuestionsSettle` is the other half of the finding: with a
client, every answered question has left PROCESSING. `RefinesAuditLog` maps each
write to `AuditLog` by what the handler takes it for. `OutcomesArePhases` ties
that to the handler's place, `OutcomeMoves` says which changes of it the abstract
log allows, and each step of a route is shown to make one of them or none,
`RecordArrives` included, which happens beside the handlers.
The invariant is about what the handler tried: an entry of the log counts as
its record or event whatever became of the record (`Tried`, `Done`), since the
handler goes on alike. What the sink holds is brought in where
a theorem speaks of it (`NotedIsRecordedOrLost`): `LeftoversHaveOwners` and
`EventsTellTheTruth` have the record that owns up to leftovers, or have it lost, and a
lost ROLLBACK_FAILED after an audit write that raised, which is the way into the
rollback (`AuditInv`).
`EventsTellTheTruth` adds `SaidLast`: a compensating event is the last thing said
before a failure is answered, so that when it is told nothing is left to do to the
stores and what `LeftoversOwned` says of answered requests is so already.
`AnswersStand` is an action property: once a request is answered, its answer,
its records and its chunks are what they will be, for its script is empty and
what other requests do leaves it alone.

**`TransitionRecordsProofs`**: `PublisherTypes`, `OneFlight` (`SingleFlight`),
`BackoffKept` (`BackoffHonoured`), `NoneLost` (`NoProducerLost`), `SinkTypes`,
`RefinesAuditLog`, `ImplementsPublisher`, `RecordsComeFirst`. A step of `record_transition` is one of
the publisher's or leaves it alone (`ImplementsPublisher`), so the publisher's invariant is shown for its own steps and
carried over. It adds that attempts are made only while no producer is installed,
and that what is left of the backoff makes up for the quiet time that is missing
since the last failure. For the sink, `Evidence` keeps a late request from being
the first to store the record of a write that has returned, and
`DurableIsProtected` is where the constructor's refusals are used.
`RecordsComeFirst` joins the two: a transition's event is under way only after
its audit write has ended, and with the record in the store if that write
returned. `InStep` says where a thread is in both for each place in
`record_transition`.

**`MemoryStoreProofs`**: `StoreTypes` (`TypeOK`, proved only), `StaysBounded`
(`MemoryBounded`), `OneMoment` (`AnswersFromOneMoment`), `FewAreLost`
(`EvictionsBounded`), `NothingLeftBehind` (`FailuresLeaveNothing`).
`MemoryBounded` allows for each thread inside `add`, which is not inductive: a thread whose document
was evicted leaves `add` by failing. `PresentBound` counts only the threads whose
document is present, and a thread that fails is not one of them. `Fresh` (chunks
to come are not in the store) makes `Insert` a new key. `Consistent` says for
each query what it has read, while nothing has changed, is how the documents of
its first moment begin. For `FewAreLost`, `Unspent` counts the threads that have
measured the store as too full and not yet evicted: what each of them will take
is still there, so that of the limit no more is missing than the others have
taken. TLC finds states where the bound is reached. `NothingLeftBehind` needs an
order: the chunks of an ingest stand in the dictionary as they were inserted
(`Behind`, kept by insertion, move, eviction and removal), so the oldest go first,
and where one is gone so are those before it (`Kept`). A thread that does not find
its newest chunk therefore has none.

**`SupplyChainGateProofs`**: `TypeCorrect`, `AgedBlocks`, `UntouchedNeverPays`,
`GreenStaysGreen`. The last two have a premise on versions (`Untouched`, `Uncovers`),
without which they are false: the exception that lets a finding pass on main may
be of another version than the pull request has. The invariant's essential part is `MainFromStart`: whatever
history main has, every finding in it dates from `INITIAL_DATE`, because
nothing is ever introduced on main. Neither a lost cache nor a new name can
therefore make a finding younger there, which is what all three theorems rest
on. `TypeCorrect` adds `NoFuture`: no run writes a date that a later run would
refuse.

**`ReleaseStreamProofs`**: `TypeCorrect`, `VerdictsStand`, `RefusedOffBranch`.
Every step is shown to be one of `Grows`: commits keep what they hold, branches only gain
ancestors, tags stay. `ValidStays` then carries every accepted tag along.
`RefusedOffBranch` narrows the fourth finding: what was released and is refused
when its image is to be published is on main and not on `release/X.Y`, and the
two workflows can disagree about nothing else.

**`MonitoringProofs`**: `TypeCorrect`, `NoneEscapes` (`EveryRequestShown`),
`CountsAnswers` (`CountedAsAnswered`), `ReadinessSeen` (`ReadyWasSeen`),
`OptionalNeverHarms` (`OptionalHarmless`). `TypeCorrect` is proved only, not among
the properties of the run. The properties of a report speak of
its end only; the invariant's part `Contacts` says what each contact behind it
has left: the check failed, or its service was seen. `Path` does the same for
the middleware. The count of requests in flight follows by adding and removing
one element of `Inside`.

Only model-checked:

- all liveness (`CallersReturn`, `SlotsReturn`, `GaugeConverges`,
  `RecordReturns`, `Reconnects`) and the liveness part of `ImplementsBulkhead`,
  `ImplementsLifecycle` and `ImplementsAuditLog`: the proof system has no rules
  for fairness here;
- `BoundaryStable`, `QuestionFinds` and `TimestampsKept` of `Redaction`: they rest
  on what a fold over the symbols of a text computes, and on how the constants
  write their things; of arbitrary texts they are not true.

## Findings

1. `resilience_gauge` (code): `call` and `release_slot` read
   `_active_workers` under the lock but set the gauge after it
   (`resilience.py:105`, `:112`). Two threads may set it in the other order, and
   `rag_bulkhead_active` then keeps a wrong value with nothing in flight.
2. `payment_event` (documents): a payment refused before its event is published
   ends COMPENSATED and 502 without the compensating event that `README.md`
   and the architecture document promise. `FailuresAnnounced`, which holds,
   states the promise without that case.
3. `ask_stuck` (documents): `OllamaLLM` is constructed after PROCESSING and
   outside any try. If it refuses its base URL the request is answered 500 and
   stays in PROCESSING.
4. `release_publish` (documents): `publish-deploy.yml` validates a stable tag
   under the rule `product`, which allows it on `release/X.Y` only, while
   `release.yml` and `RELEASING.md` have it cut on main: what is released is not
   published.

Seen while modelling, not counted as disagreements:

- A record of a compensation goes to the sink whose failure may be the reason for
  it (`main.py:126-129`). With the sink down and the rollback failing as well, the
  chunks stay in the stores and ROLLBACK_FAILED is lost: only the application's own
  log tells why, and IngestionCompensated that something was compensated at all.
  `ARD.md:14` says that failed flows record their compensations, `README.md:20`
  nothing of a sink that fails twice, and the function's comment that the primary
  failure comes first; `LeftoversOwned` and `EventsAreTrue` say how far it goes.
- An exception is of one version of a package, the history and `introduced` leave
  the version out (`ops/supply_chain.py:202`, `:236`, `:246`). A pull request that only
  puts an excepted package to another version, still vulnerable, brings in nothing and
  is blocked all the same; one whose own history dates the finding later than
  main's may pass and turn main red when it is merged. The architecture document
  (`docs/ARCHITECTURE_AND_OPERATIONS.md:363`) and `tests/test_supply_chain.py:49-55` want the exact version, so this is
  meant; `UntouchedPasses` and `GreenMergesGreen` name the case.
- Two ingests that both find the in-memory store one document too full each
  evict one, so the store may end below its limit (`EvictionsBounded` says by how
  much); `move_to_end` may raise when others have evicted the document by then,
  and `popitem` when the store was emptied. No document says otherwise.
- A High that is disclosed after the gate was introduced, in a package main
  has long had, is dated `INITIAL_DATE` and blocks on first sight once 14 days
  have passed since then (`ops/supply_chain.py:239`). The architecture document
  says 14 days from first seen, with `INITIAL_DATE` as the epoch of existing
  findings; the code takes every finding that is not introduced as one.
- With the vector store enabled, an outage of the search store fails the check
  `vector_store` as well, since the check makes a whole `RetrievalStore`; with
  it disabled no check contacts the search store.
- What only a space, a hyphen, a full stop or a bracket separates may be taken
  for one thing: a short number before a date (`5 2024-01-01`) is a phone number,
  a card number takes in the digits beside it, an e-mail address that touches a
  number or a date is seen only when the text is redacted again. `QuestionFinds`
  and `TimestampsKept` therefore ask for more between the two.
- An SSN written with spaces is tokenized as a phone number, and so gets another
  token than with hyphens. A long number that fails the Luhn check keeps its
  formatting in the digest, so two writings of it get two tokens.
- A token's digest may hold 13 to 19 decimal digits in a row. Where such a token
  stands in a longer text that is redacted again, as an answer that quotes a
  stored chunk is (`main.py:284`), it is cut. `BoundaryStable` names the case.
- The constructor alone opens the collection (`storage.py:49`): a service started
  while Chroma is down stays without it, though the readiness check, which makes
  a store of its own, comes to report it up.
- A rate below one token a second is accepted and admits nothing, ever
  (`SlowRateStarves`, `SlowPolicyRefuses`).
- `exposition` prints counters with six significant digits and counts of
  histograms exactly, so that from a million requests on the two differ in a
  scrape, though both are updated under one lock to be "atomic at scrape"
  (`metrics.py:137`).
- A stable tag needs a candidate's tag on its commit, not an accepted one.
- A pull request may be merged with a check that is older than its target
  (`strict_required_status_checks_policy` is false), so main may stay at a
  version that has been released in the meantime.

## Not modelled

- *Metrics*: the histograms, process metrics, labels and the text of the
  exposition. The other counters are increments under one lock.
- *Domain records, settings, safe logging*: immutable records, start-up
  validation, formatting.
- *The construction of the retrieval clients; the arithmetic of the payment
  score and its anomaly adapter, which no route configures; the download and
  the runs of the scanners, the parsing of their reports and the CVSS formula;
  formats of versions, tags and object keys; the length of retention;
  `NullPublisher` and the event's headers*: parts of components otherwise
  modelled, or marked `partly`.
- *Operations tools, streaming job, deployment*: input and output, Spark's own
  state, declarative manifests.

## Plan

Order of the modules, the most important behaviour first; all but the last item
are done.

1. `TokenBucket`, `Bulkhead`, `ResiliencePolicy`, with proofs; the policy as an
   implementation of both.
2. `RequestLifecycle`, `RequestEffects`, the routes, `RequestMesh`, with proofs.
3. `EventPublisher`, `AuditLog`, `AuditSink`, composed in `TransitionRecords`,
   with proofs.
4. `MemoryStore`, with proofs.
5. `SupplyChainGate`, with proofs.
6. `ReleaseStream`, with proofs.
7. `HttpMetrics`, `HealthReport`, `Monitoring`, with proofs.
8. `PiiPattern`, `Redaction`.
9. Left: the payment score as a function of its factors (monotone, and what its
   rounding does at the thresholds of the decision); severities of the gate as
   functions of CVSS vectors and of what the databases say; a scrape of the
   metrics between any two updates.

## How to run

    tlc -workers 2 -config MCRequestMesh.cfg MCRequestMesh.tla
    tlapm RequestMeshProofs.tla

and likewise for the others; each run takes less than three minutes.
