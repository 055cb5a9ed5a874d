# APIShield in TLA+

APIShield is an API gateway that accepts webhooks, limits the rate of its
clients, and hands events through a message queue to a worker that delivers
them.  This directory holds TLA+ models of the parts of it that run
concurrently or must survive failures, the TLC configurations that check them,
and TLAPS proofs of the properties that matter most.

## The system and its parts

| Part | Source | State | Operations that change it |
|---|---|---|---|
| Circuit breaker | `internal/circuitbreaker` | a map of per-URL states, two levels of locks | `Allow`, `State`, `RecordSuccess`, `RecordFailure` |
| Worker | `internal/worker`, `cmd/worker` | up to 100 delivery goroutines, a consumer, a context | `Start`, `handleDelivery`, `deliverWithRetry`, signal handling, the Redis mirror callback |
| Event store | `internal/events`, `internal/database` | the table `events` | `SaveEvent`, `UpdateEventStatus` |
| Queue | `internal/queue`, RabbitMQ | `webhook_queue`, `webhook_dlq`, unacknowledged deliveries | `Publish`, ack, nack, requeue |
| Gateway handlers | `cmd/gateway` | requests in progress, two atomic counters, the table `api_keys` | `POST /v1/webhooks`, `POST /v1/webhooks/replay`, `/v1/stats`, `/v1/admin/keys`, Shutdown |
| Rate limiter | `internal/ratelimit`, `internal/cache` | a sorted set in Redis, an L1 entry per gateway, invalidations on their way | `Allow`, the Lua script, the listener |
| Middleware and policies | `internal/middleware`, `internal/policy` | the request's tier and limit | the chain, `GetLimit` |
| Configuration and start-up | `internal/config`, `internal/database`, both `main` functions, `scripts/entrypoint.sh` | settings, the schema, the broker's topology, two processes | `Load`, `InitSchema`, `NewRabbitMQPublisher`, the steps of `main` |
| Dashboard | `dashboard/src` | view state | not modelled |

They interact as follows.  Gateway and worker start on their own; each creates
the database schema, and only the gateway declares the queues.  A request passes
the middleware, which asks the rate limiter.  The ingestion handler writes a row
and then publishes the event.  The worker takes it from the queue, asks the
breaker of its target, delivers with retries, records the outcome in the
breaker, then in the row, then settles the message.  A replay selects failed
rows, resets each to pending and publishes it again.  The breaker reports its
changes to a Redis hash that the gateway shows.

What is hard here: every one of these is several separate calls to a database,
a broker or Redis, and something can come between any two of them (another
goroutine, a crash, a closed channel, a lost reply, a cancelled context).
`PROJECT.json` lists each hazard at its line.

## Modules

| Module | Models |
|---|---|
| `BreakerSpec` | the promise of the breaker: one atomic record per URL, no clock |
| `CircuitBreaker` | the breaker as the goroutines run it: lookup under the read lock, insert under the write lock, a section under the state's own lock, the callback after it, a clock, worker restarts |
| `BreakerLocks` | the locks inside those steps, one action per lock operation, with Go's `RWMutex` |
| `EventStore` | the table `events`: insert unless the key exists, unconditional update, selection of failed rows |
| `Broker` | the queues as the code declares and uses them (RabbitMQ is external) |
| `WebhookPipeline` | composes `EventStore`, `Broker` and an instance of `BreakerSpec` with the gateway's handlers, the worker's goroutines, its process, and the faults around them |
| `RateLimiter` | the two-tier limiter for one key over several gateways |
| `Gateway` | the middleware chain, the handlers with state of their own and the server's exit, for concurrent requests |
| `Config` | where a setting comes from: environment, `.env`, default, and the production check |
| `Startup` | the steps of both `main` functions with `Config`, the schema, the topology, outages, kills and three ways of launching |
| `MC...` | symmetry sets, clock skews, policies, calls and settings for TLC |
| `...Proofs` | theorems about a module and their proofs: `CircuitBreaker`, `BreakerLocks`, `WebhookPipeline` (in three modules: `PipelineTypeProofs`, `PipelineMessageProofs`, `WebhookPipelineProofs`), `RateLimiter`, `Gateway` (policies included) and `Startup` (with `Config`) |

**CircuitBreaker.**  `heap[t][u]` is the `urlState` that goroutine `t` allocated
for `u`, and `urlStates[u]` says whose allocation is in the map; this makes a
lost double check in `getURLState` visible.  A call is `Lookup`, perhaps
`Insert`, one locked section (`Allow`, `ReadState`, `RecordSuccess` or
`RecordFailure`) and, if the state changed, `Notify`.  Operators whose names
carry a suffix (`Insert_NoRecheck`, ...) are plausible bugs; nothing in the
specification uses them.

`Shown` is what the gateway's listing makes of the Redis hash and the worker's
own answer.

**BreakerLocks.**  `active`, `parked` and `writer` are the fields of `cb.mu`: a
writer announces itself (`Announce`), readers that come later park, and it
enters when the earlier ones have left (`Insert`).  `held[u]` is `st.mu`.
`GetBreakers` (`Range`, `Scan`) keeps the read lock through its loop.  What a
section does to the state is `CircuitBreaker`'s subject; here only whether it
reports a change is left open.

**WebhookPipeline.**  One action per external call of a handler.  `handler[s]`
is a delivery goroutine: `start`, `post`, `backoff`, ..., `ack` or `nack`.  The
POST itself may succeed or fail at any attempt.  After SIGTERM the worker is
`stopping`: its context is cancelled, so a POST or a status update fails, and
the process exits whatever its goroutines are doing (`main` sleeps two seconds).
Payloads, headers, wording and the length of the backoff are left out.  The
fault kinds are the members of `FaultKind`; a configuration chooses which occur
and how often.  The gateway's connection to the broker is `open`, `broken` (it
reaches nothing and the library has not noticed; `Publish` still returns nil,
because nobody asks for confirms) or `closed` (`Publish` returns an error).  It
is opened at the start of the process only.  History variables:
`delivered`; `redelivered`, the events whose message the broker took back;
`replayed`, which replays selected an event; `lost`, what was published into a
broken connection; `wiped`, what a broker restart took; `abandoned`, the events
whose row a failed step left as it was.

**RateLimiter.**  A request reads its gateway's clock (`Allow`), Redis runs
the script some time later (`Evaluate`), and later still the entry is cached
(`Set`) or the invalidation is published (`Publish`).  A lost reply makes the
client library repeat the same command with the same member (`ReplyLost`).  A
client that hangs up cancels its request's context, so `Eval` or the broadcast
can fail although Redis is up (`ClientGone`).
`Tick` lets no step wait longer than `MaxDelay`; the code sets no such deadline
itself, so it is the parameter in which the guarantees are stated.  An outage
keeps Redis' data; a Redis that restarts empty forgets the window, and nothing
in the code could prevent that.  Keys are independent, hence one key.  The shards
of the cache only choose a mutex, and each cache operation is one step.

**Gateway.**  A request is a goroutine: `Enter` is everything from `Auth` to the
limiter, since all it reads on the way is fixed, apart from the counter it
increments; `RateLimit` is the limiter's answer, any of the three; then a
handler, and the two counters of `metricsMiddleware` on the way out (`CountHit`,
`Label`).  `Stats` is one atomic load at a time and `CountKeys`, `SeedKeys`,
`ListKeys` one query at a time, each of which may fail; the code drops the
errors of the first two.  A method other than GET gets 405 from these handlers
(`GetOnly`).  Shutdown closes the listener, but a connection that was accepted
before may still bring in a request, so `Enter` goes on while the server drains.
A proxied response that breaks off makes
`ReverseProxy` panic, which skips the way out (`ProxyAborts`).  `GetLimit` is
its two loops as two sets of positions in the tier's rules, of which each loop
returns the first.  Of the status codes only 429 is told apart.  The
queries and the breaker count of `/v1/stats` touch no state of this module and
are left out.

**Config and Startup.**  `loadLine` is one round of `loadFile`'s loop over the
lines of `.env`, and each round is a step of `Startup` (`ReadLine`): what the
loop guarantees is then an invariant of its rounds, which can be proved for a
file of any length.  After the last line `ReadSettings` goes on with `Load`.
Values are the classes the rules tell apart (undefined, empty, only quotation
marks, given); `Precedence` says without a loop where a value must come from.
In `Startup` each process walks through the steps of its `main` (`GatewayMain`,
`WorkerMain`).  `CREATE ... IF NOT EXISTS` is two steps, a look and a creation,
as it is in PostgreSQL, so the two processes can collide and the slower one
exits.  The broker's outage closes connections, which the code never reopens.
The three launches are the README's (gateway, then worker, by hand), a
supervisor that restarts what exits, and `entrypoint.sh`, which starts the
worker and then becomes the gateway.

## Runs

All passing runs together fire every action.  `CHECK_DEADLOCK FALSE` is set
where a bounded model ends: the clock, the requests and the faults run out, or
the processes have exited.  `breaker_locks` never ends and checks deadlock.

| Run | Shows |
|---|---|
| `breaker` | two goroutines, threshold 2, timeout 2, clock up to 6 (three open phases), one worker restart, Redis writes that may fail: one `urlState` per URL; Closed means below the threshold; once open, no admission before the cool-down is over, also not through a state that late outcomes or readers changed; `GetBreakers` agrees with `Allow` up to the instant where `>` and `>=` differ; the trip metric is exact; refinement of `BreakerSpec` |
| `breaker_locks` | two callers, a status request, two URLs: who holds which lock, no cycle of waiting goroutines, every call returns |
| `pipeline_crash` | two events (same or different idempotency keys), two goroutines, a replay, one fault of any of the seven kinds anywhere: a row is left pending with nothing to resolve it only through a request that could not publish, a publish that was lost, a refused status update or a broker restart; an accepted event lacks a row only if its idempotency key was taken |
| `pipeline_faults` | one event, a malformed message, a target no request can be built for, two replays, any two faults of all seven kinds: `success` implies a 2xx; an accepted event disappears only through a lost publish or a broker restart; `success` is overwritten only after a redelivery or by a second replay |
| `pipeline_live` | fair scheduling, two crashes, two replays: every pending row is resolved |
| `limiter` | three requests, two gateways whose clocks differ by two ticks, delay one, window five, limit one, a clock up to nine, one fault: Redis respects the limit up to delay and skew, a rejection is always paid for by admissions and never by other rejections, L1 answers only for its lifetime |
| `gateway` | three requests over five kinds of path and two tiers, one failed query or broken response, a signal at any time: the counters balance, the most specific rule applies, a stats answer is consistent, the demo keys are seeded once, the process exits |
| `startup` | 18 environments, all `.env` files of up to two lines, unusable settings, both states of the schema and of the topology, three launches, one outage or kill: the environment wins over the file, production needs explicit URLs, the dead-letter route exists before the queue, nothing runs without schema and queue, both processes come up (in the container, where an earlier start left schema and queue) |

Bounds.  Two goroutines are what every race in the breaker and the worker needs
(one acts between two steps of the other), and the theorems about the breaker
remove the bound.  Two attempts and a threshold of one reach every branch of
the retry loop and of the breaker; three and five would only add copies of the
same states.  Two faults allow a failure during the recovery from a failure.
The limiter's limit of one with three requests is the smallest instance in
which a cleared member and a retry can both let one request too many through.
The clock of the limiter runs to nine because a rejected request can wrongly use
up quota only once the admission before it is older than the window and its
margin, which is eight ticks.  For safety the theorems remove all of these
bounds.  In `breaker_locks` a cycle needs a caller, a writer and a status
request, and two URLs let the writer be a different caller's; three callers and
two status requests were checked once (6.9 million states), and the theorem
holds for any number.  In `gateway` the races are between two requests, the
third lets one more pass between their steps.  In `startup` one fault can hit
any step of either process; two were checked once.

Fairness.  `FairSpec` assumes that goroutines and handlers in progress go on:
Go's scheduler runs them, each POST has a timeout of five seconds and each
backoff ends.  Calls to the database and the broker have no timeout in the code,
so this includes that those services answer, with success or with an error
(`docker-compose.yml` restarts them).  It assumes that `main` returns after its
sleep.  That a worker which is down is started again is an assumption about the
operator: the repository has no supervisor for it.  Nothing is assumed of
clients, replays or targets: a target may fail for ever.  In `BreakerLocks`
goroutines are scheduled (weak fairness), and a mutex is granted infinitely
often to whoever keeps asking for it (strong fairness of `Lock` and
`Announce`): Go's mutexes switch to handing over once a waiter has missed one
for a millisecond.  In `Gateway` only the timer of Shutdown and its polling are
fair; no request is promised to end.  In `Startup` running processes go on,
processes are started as the launch says, and dependencies come back
(`docker-compose.yml` restarts them); the promise to come up after a fault is
made for the supervised launch only.

### Where the documentation and the code differ

Four runs check a sentence of the documentation and find it violated; the
sentence and the line are in `PROJECT.json`.

| Run | The code |
|---|---|
| `breaker_mirror` | reports to Redis are sent after the lock is released and can be written in the wrong order; the "live status" then stays wrong until the next change |
| `pipeline_shutdown` | an event in flight at SIGTERM is dead-lettered with its row still `pending`, because the status update uses the cancelled context; replay does not select it |
| `pipeline_outage` | `Publish` waits for no confirm: until the library notices that its connection is broken, events are answered with 202 and reach no queue |
| `limiter_invalidation` | an admission cached late undoes the invalidation of a later rejection |

Others are visible in the models without a run of their own.

- A replay, or an ingestion, that has written the row and cannot publish leaves
  it `pending`, and replays select only `failed` rows (`README.md:14`:
  "ensuring replayability").  This is the first exception in `OrphansExplained`.
- A duplicate idempotency key is skipped by the store and published all the
  same, under an id without a row (`README.md:158`: "a durable audit trail of
  all webhooks").  This is the exception in `RowUnlessDuplicate`.
- The stub limiter is chosen by the Ping at start-up only (`Startup`, `Ping`);
  a Redis failure afterwards gives 500 (`RateLimiter`, `EvalFails`), where
  `README.md:134` says that the gateway falls back.
- `Start` returns when the AMQP connection closes although its comment says it
  blocks until the context is cancelled (`ConnLost`, and `deaf` in `Startup`:
  nothing consumes until the process is restarted).
- Messages are not persistent, so a broker restart loses accepted events
  (`BrokerRestart`; with the lost publish, the exceptions in `NeverDropped`).
- In the container the worker starts first and is never started again.  On a
  fresh broker it can ask for the queue before the gateway has declared it, and
  then it stays down.  No document promises otherwise, so this is the condition
  in the second half of `ComesUp` and not a run.
- Nothing stores to `currentLoad`, so the load shedder never sheds (`Sheds`).
- After ten seconds Shutdown's error is fatal and the requests still running
  are cut (`Deadline`), where `README.md:16` promises draining.

## What is proved

TLAPS checks the proofs for every value of the constants.  Every safety
property and every refinement that a passing run checks is also a theorem; the
run shows it on the small instance first, and the inductive invariant of each
module was checked with TLC in the same way before it was proved.

**CircuitBreakerProofs**, assuming a threshold of at least one.  The inductive
invariant `IInv` is `TypeOK`, `OneStatePerURL`, `ClosedBelowThreshold` and
`TimesOrdered` (`lastFailure` is not in the future, an Open breaker opened no
later than its last failure, and one that has left Open did so after its
cool-down).  The second conjunct is what lets a section
be read as an update of the one breaker of its URL (`SectionEffect`);
`TimesOrdered` is needed for the cool-down, because `Allow` looks at the last
failure and the property at the moment of opening.  From it:
`TypeCorrect`, `OneState`, `ClosedIsBelowThreshold`, `ReportsMatch`,
`CoolDown`, `TripsExact`, and `ImplementsAtomic`: the concurrent breaker
implements `BreakerSpec`, each section being one abstract step or a stutter.

**BreakerLocksProofs**, for any callers, reporters and URLs.  `TypeOK`, which
says who holds which lock where, is inductive (`TypeCorrect`).  `DeadlockFree`
follows from it without a further step: in a set of goroutines that all wait
for one another nobody is in a section, so nobody waits for an `st.mu`; then no
reader holds `cb.mu` and waits, so the announced writer does not wait either,
and nobody waits for it (`NoCycle`).

**RateLimiterProofs**, assuming that clocks are within `MaxSkew` of true time,
that no step waits longer than `MaxDelay`, and that the window is at least
`TTLDivisor` long (else the cache lifetime rounds to zero, which `Set` takes
for "never").  The sets of gateways and requests may be infinite.  `IInv` says
that no recent admission has left the sorted set, which rests on how far a
stamp can be from the time of the script (`Timing`) and on the key outliving
its members; that the set never exceeds the limit and holds only requests the
script let through (`ZSetOK`); and where an L1 entry comes from (`EntryOK`).
From it: `TypeCorrect`; `L2Limited`, at most `Limit` admissions by Redis in any
stretch of `Window - MaxDelay - 2*MaxSkew`; `Justified`, no rejection unless
`Limit` requests were charged within `Window + MaxDelay + 2*MaxSkew`;
`L1Expires`, an L1 answer rests on an admission at most `l1TTL + MaxDelay` old.
The full window is not guaranteed: the request stamped first may reach Redis
last.  Answers from L1 are not counted by Redis at all, by design.

**WebhookPipelineProofs**, for any events, clients, targets, replays and fault
kinds, any bound on the faults, finitely many goroutines (the code has a
semaphore of 100), at least one attempt and a threshold of at least one.
The invariant ties a goroutine to its delivery: `unacked[s]` is its message, or
the broker took it back with the connection, and then nothing is received any
more and the message is ready again (`DeliveryHeld`).  A goroutine past a 2xx
answer works on a delivered event (`DeliveredFirst`).  From these follow
`SuccessIsReal`, `AcceptedHasRow`, `NothingDropped` and `OrphansAreExplained`.
`SuccessIsFinal`, an action property, needs one thing more.  Call an event
solitary if the broker took no copy of it back and no two replays selected it.
A solitary event has one holder at most (`OneHolder`): its ingestion request,
the queue, one goroutine or one replay.  A row is final only when queue and
goroutines have no copy left, and if it says `success`, no replay has the event
either; so nobody is left to overwrite it.
`PipelineTypeProofs` has the types and what each actor leaves alone,
`PipelineMessageProofs` one lemma per conjunct about messages and rows, and
`WebhookPipelineProofs` the holders, the invariant and the theorems.

The pipeline takes its breakers' operations from `BreakerSpec`, and
`ImplementsAtomic` shows that the concurrent breaker implements that module.

**GatewayProofs**, for any finite set of requests, any calls, any policy whose
rules have a route and a limit, and any bound on the faults.  The invariant adds
to the properties where a request can be with what it carries (`OnItsWay`), the
partial stats answer (`StatsSoFar`: each load is at least what was loaded
before), the keys a listing will find (`KeysToList`) and the limit a request
keeps (`LimitKept`).  `CountersAgree` counts requests in progress by the
cardinality of a set, which each step changes by one element at most.
`LimitIsMostSpecific` rests on `GetLimitSpecific`, a fact about `GetLimit` alone:
the first exact rule, else the first wildcard, for rules in any order.  Also
`TypeCorrect`, `StatsAreSane`, `KeysAreSeededOnce`.

**StartupProofs**, for any environments and `.env` files, any launches and
unusable settings, and any bound on the faults.  `LineStep` shows that one more
line keeps `Precedence` true, `LoadResult` what `Load` returns; from these
`FileFillsGaps` and `NoDefaultInProduction`.  For the processes the invariant
says that whatever lies behind a process in its `main` exists (`Behind`) and
that a gateway past its ping has chosen a limiter (`Decided`); nothing ever
removes an object, so the other process, outages and kills cannot disturb it.
With the order of the steps (`MainOrder`) this gives `QueueHasDeadLetterRoute`,
`ReadyWhenRunning` and `TypeCorrect`.

Only model-checked, because liveness under fairness is outside the prover's
reach: `CallsReturn`, `PendingResolves`, `ExitsAfterSignal` and `ComesUp`.  The
properties of the four violated runs are refuted and so not provable.

## Not modelled

The endpoints that only read and format (`/v1/events`, `/v1/admin/events`,
`/v1/policies`, `/v1/load-shedding`, the redirects), tracing and the export of
metrics.  YAML decoding is a library, and of the `.env` parser only what decides
a value is kept.  `retry_count` and `next_retry_at` are columns the code never
writes.  Expired L1 entries are never removed from the map; that is a matter of
memory and not of answers.  The dashboard draws what the endpoints answer.

## Plan

The dashboard's polling: a slow answer to an old filter arriving after the answer
to a newer one.
