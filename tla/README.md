# TLA+ verification of the payment gateway

This directory models the core of the payment system (Express API,
BullMQ workers, Redis, PostgreSQL) in TLA+, checks it with TLC on small
instances, and proves the safety properties with TLAPS for every value of the
constants. Paths below are relative to the repository.

## 1. The system

| Component | State it keeps | Operations | What makes it correct |
|---|---|---|---|
| Payment service `src/services/payment.service.ts` | rows of `payments`, `payment_events` | `createPayment`, `processPayment` / `handlePaymentResult`, `cancelPayment`, `transitionState` | the audit trail is the history; one gateway call per attempt; a final status is final |
| Retry service `src/services/retry.service.ts` | the same rows, retry jobs | `handleFailedProcessing`, `scheduleRetry`, `executeRetry` | at most `maxRetries` retries; a scheduled retry happens |
| Webhook service `src/services/webhook.service.ts` | `webhook_events`, the payment | `processWebhook` | an event takes effect exactly once or never |
| Queue and workers `src/queue/*`, `src/config/queue.ts` | two BullMQ queues in Redis | `enqueuePayment`, `enqueueRetry`, the two job handlers | every job ends |
| Lock `src/utils/distributedLock.ts` | one Redis key per payment | `acquireLock`, `releaseLock`, `withLock` | exclusion while the TTL suffices; no key of another is deleted, none is left behind; never stuck |
| Circuit breaker `src/utils/circuitBreaker.ts` | state, window, counters (per process) | `execute` | trips on the threshold, recovers |
| Idempotency `src/middleware/idempotency.ts` | one Redis record per key, unique column | around `POST /payments` | one payment per key; every reply has its grounds |
| Rate limiter `src/middleware/rateLimiter.ts` | a sorted set per address | each request | an overrun is bounded; nobody is rejected without cause |
| Route of `POST /payments` `src/app.ts`, `src/routes/*`, `src/middleware/*` | none | limiter, validation, idempotency, handler, error handler | what the middleware promises survives what is in front of it |
| Gateway simulator `src/gateway/*` | none | `processPayment` | every scenario ends: an answer or an exception |
| Server process `src/server.ts` | connections, workers, listening server | `bootstrap`, `shutdown` | no job is cut off; a shutdown ends |
| Browser console `public/app.js` | one timer handle, the button, the display | submit, poll | no timer is lost; the button comes back; an outcome stays |
| Health check, logging, configuration, clients | none that payments depend on | | not modelled, see section 5 |

How they interact. A request creates a row and adds a process job. A process
worker takes the job, locks the payment, moves it to PROCESSING, calls the
gateway through the breaker, and records the result; if anything throws, it
calls `handleFailedProcessing` after the lock is gone, which may schedule a
retry job. A retry worker moves the payment back to PENDING and adds the
process job again. Webhooks arrive from outside at any time and settle a
payment under the same lock. Everything shared is in PostgreSQL (guarded by the
row's `version`) and Redis (lock, jobs, idempotency records, the sets of the
rate limiter). In front of all this, a request passes the limiter, the
validation of its body and the idempotency middleware; an error goes to the
error handler, which answers through the same `res.json` the cache has wrapped.
Each Node process has a breaker, two workers and its connections, which a signal
makes it close. The console polls a payment until it sees an outcome.

What is hard here: every `await` is a point where another worker, webhook or
client may run; locks have a TTL and may lapse; jobs may be redelivered;
calls may fail or take effect and lose their reply; processes die; job ids are
reused; the recheck after a failure reads a row that may have moved on. The
complete list, each at its line and with the property that would catch it, is
`hazards` in `PROJECT.json`.

## 2. The modules

    PaymentStates      status machine, error codes              constants.ts, helpers.ts
      Deployment       tasks, fault budget
        PaymentStore   tables, version guard, transactions      schema.prisma, transitionStateInTx
          JobQueue     BullMQ as the code uses it (external)     producer, config/queue.ts
        DistributedLock                                          distributedLock.ts
            ProcessWorker   a run of the process worker          payment.worker.ts, processPayment,
                                                                 handlePaymentResult, handleFailedProcessing
              RetryWorker   a run of the retry worker            executeRetry
                WebhookService  a webhook request                processWebhook
                  PaymentApi    createPayment, cancelPayment
                    PaymentSystem   composition, crashes, lapsing locks, redelivery; properties
    PaymentLifecycle   what the gateway promises, abstractly (refined by PaymentSystem)
    CircuitBreaker     the breaker with overlapping calls      circuitBreaker.ts
      ServerProcess    a Node process: jobs, calls, shutdown    server.ts, startWorkers / stopWorkers,
                                                                gateway.simulator.ts
    Idempotency        POST /payments with a key                idempotency.ts, hashBody
      PaymentsRoute    limiter, validation, middleware, handler app.ts, payment.routes.ts, validator.ts,
                                                                errorHandler.ts
    RateLimiter        the pipelines of one address             rateLimiter.ts
    IdempotentEndpoint what POST /payments promises, abstractly (refined by Idempotency)
    Console            the browser page over PaymentLifecycle   public/app.js
    MC*                small instances for TLC
    Proofs (each module is extended by those indented under it):
      PaymentSystemTypes              type correctness
        PaymentSystemVersions         what a version is worth
          PaymentSystemCalls          the gateway's ledger; no hypothesis
            PaymentSystemExclusion    history, mutual exclusion, the refinement
        PaymentSystemWebhooks         events; no hypothesis
      PaymentsRouteProofs             Idempotency, RateLimiter, PaymentsRoute
      ServerProcessProofs             CircuitBreaker, ServerProcess
      ConsoleProofs                   Console

Which module composes which. `PaymentSystem` is the payments themselves.
`PaymentsRoute` puts `RateLimiter` (by INSTANCE) in front of `Idempotency`;
each of its steps is a step of one of the two, except that a refusal of the
limiter is also a reply of the route. `ServerProcess` drives `CircuitBreaker`:
the calls of the breaker are the slots of the process worker. `Console` uses
`PaymentLifecycle` (by INSTANCE) as its environment: what a client sees of
`PaymentSystem` is what that refines.

Conventions.

- Each `await` of a handler is one action, named for what the code does there;
  `pc` names the await a task is at. The header of `ProcessWorker` lists them.
- A Prisma `$transaction` is one action. A write is guarded by
  `VersionMatches` only; the `from` status goes into the trail as the caller
  claims it (`Write`), because that is what the code does.
- A call can fail before it has an effect (`CallFails`, `HookCallFails`,
  `RetryCallFails`) or after it (`Returns`, `HookReturns`, `RetryReturns`).
  Each failure and each `Crash` spends one of `MaxFaults`.
- `Handler` and `HookHandler` say where an exception takes a task: into
  `withLock`'s `finally`, then to the worker's `catch`.
- `LockLapses` says whether a key may expire while its section still runs;
  `LiveStalls` whether a job may be redelivered while its run still works.
  Both are real (`LOCK_TTL_MS` may be 5 s, the gateway's timeout is above 10 s;
  BullMQ's stalled check) and each property is stated under the weakest
  setting it holds in (see the runs).
- `calls` (the gateway's ledger), `streak` (in `CircuitBreaker`), `stopFailed`
  (in `ServerProcess`) and `shownBy` (in `Console`) are history variables;
  nothing reads them but properties. `added` in `RateLimiter` is what the
  expiry of the whole set depends on.
- A webhook request ends in one of two ways: through `release`, then it is
  acknowledged with 200, or through `abort`, the same `finally` on the way of
  an exception, then it is answered with an error and may be delivered again.
- An operator after a comment `Bug:` is a plausible bug in the definition that
  follows it. It is used by nothing; `mutants` in `PROJECT.json` says which
  property catches it.

Abstractions. Amounts, names, references and messages are left out. Delays
(backoff, gateway latency) are left out: a waiting job may be taken at any time
and a call may take any time. Error codes are kept because the control flow
depends on them. A lock token is the task that holds it: tokens are fresh, and a
task is in one critical section at a time, so they are told apart as often as
the code needs to. The webhook signature check happens before any state is
touched and is left out. In `Idempotency` a body has top-level fields and
metadata, because the replacer that `hashBody` gives `JSON.stringify` keeps only
the first (`key_is_reused` shows what follows); the `idempotency_keys` table,
which is written and never read, has no variable. In `RateLimiter` time
is a small number of ticks, a request is its own member of the set, and a
request whose pipeline has begun is done with it before the clock moves; one
that has only read the clock may be late by `MaxDelay`. In `ServerProcess` a
job is reduced to: before its gateway call, the scenario of that call, after
it. In `Console` a timer is named after the submission that started it.

## 3. The runs

The instances of `PaymentSystem` have one payment. That is enough for its
properties: rows, locks, jobs, events and ledgers are per payment, tasks share
nothing but the fault budget, and no property relates two payments. `console`
has two, because its hazard is one payment's answer shown for another.

| Run | Instance | Checks |
|---|---|---|
| `safety` | 1 process slot, 1 retry slot, 2 webhook slots, an event that reports a failure, 1 fault, locks may lapse (2.2M states) | `TypeOK`, `TrailIsHistory`, `RetryBudget`, `SuccessIsBacked`, `WebhookExactlyOnce`, `NoKeyIsLeft`, `KeyIsNotTakenAway` |
| `exclusive` | 1 process slot, 1 retry slot, 1 webhook slot, two events that contradict each other, cancellation, 1 fault, keys that outlive their sections, and the fairness below (350k) | `MutualExclusion`, `TrailIsHistory`, `SuccessIsBacked`, `NoCallOnceFinal`, `ImplementsLifecycle`, `AckedIsRecorded`, `RejectedDoesNotApply`; liveness: `JobsFinish`, `LocksAreFreed`, `RetryIsExecuted`, `PendingIsSettled` |
| `stalled` | 2 process slots, locks may lapse, jobs may be redelivered to a second slot while the first still works, 1 fault (2.3M) | `OneCallPerAttempt`, `CallsArePaidFor` |
| `process` | 2 process jobs and 1 retry job at a time, 2 signals, window 4, 50%, 2 successes (the unit tests' options), a scenario that succeeds, one that declines and one that throws (620k) | `ProcessTypeOK`, `ClosedAfterFailureIsBelow`, `HalfOpenIsUndecided`, `ConnectionsOutliveJobs`, `ClosesOnStreak`, `OpensOnThrow`; liveness: `ShutdownEnds`, `Recovers` |
| `replies` | 3 requests of one address with 1 key; two valid bodies with different fields and one that is not valid; limit 1, window 2, delay 1, 2 processes, 1 loss (1.5M) | `RouteTypeOK`, `RepliesHaveGrounds`, `PatientClientsAreServed`, `OverrunIsBounded`, `RejectedForCause`, `ImplementsEndpoint` |
| `console` | 3 submissions, 2 payments, 2 polls in flight, `MAX_POLLS = 2` (820k) | `ConsoleTypeOK`, `NoTimerIsLost`, `OutcomeStays`; liveness: `ButtonComesBack` |

What they show that is easy to get wrong:

- `OverrunIsBounded`: the limit is not `MaxRequests` but one more for each
  further process, since a pipeline is not a transaction, within the window less
  the delay of a pipeline. `RejectedForCause` counts the other requests a
  client has sent, rejected ones included, as the code does.
- `RejectedDoesNotApply`: REJECTED is final (a redelivery is a duplicate), so it
  must not be decided on a status that has changed since. It needs a lock that
  lasts; `AckedIsRecorded` does not (and is proved without it).
- `PendingIsSettled` is conditional on the delivery: for an event that is
  delivered over and over. A delivery that finds the lock taken is answered with
  an error; only because it comes again the payment leaves PROCESSING.
- `KeyIsNotTakenAway`: a section that has outlived its key goes on and releases
  at its end; by then the key may be that of the next owner, and only its TTL
  may end that. `NoKeyIsLeft`: every way out of `withLock` passes its `finally`,
  also an insert that fails on a foreign key. It is stated for executions
  without a fault, because a lost reply or a crash does leave a key, for the
  TTL (`LocksAreFreed`).
- `RepliesHaveGrounds`: a 201 needs a payment of the key that was asked for with
  the same top-level fields, a 409 another request with them, a 422 another
  body. That the whole body is the same does not hold (`key_is_reused`).
- `ImplementsEndpoint`: what a request asks for is its top-level fields; a key is bound to one payment for ever although its cache
  record may be overwritten, expire or be lost.
- `ConnectionsOutliveJobs` is about the jobs of both workers and holds for any
  number of signals, unless `stopWorkers` throws, which `shutdown` only logs.
- `Recovers` is stated in the process, where calls are made only by jobs:
  it assumes that jobs keep trying.
- `OutcomeStays` excepts late answers. A poll that was answered after its timer
  had been cleared is shown as if it were the latest of the active payment, and
  stops the active timer; `ButtonComesBack` holds all the same.

`MaxRetries = 1` is enough to have a first attempt, a retry, and an exhausted
budget. `MaxStalled = 1` is BullMQ's default. With one fault a lost reply, a
failed call or a crash can happen at every await. Two events that disagree are
enough for every order of a success and a failure; they are in `exclusive`,
where the lock lasts. `safety` has two overlapping requests about one event, a
reported failure, because that is the one a lapsed lock and a retry interact
with. Both events together with a fault and lapsing locks are too many states for
TLC; there the invariants are theorems. A limit of 1 with three
requests has an admitted, an over-admitted and a rejected one, and two ticks are
a window: with three points in time every entry can expire. Bodies that differ
under metadata only are in `key_is_reused` and not in `replies`: nothing in the
route looks at metadata, so such a body takes the steps of the other. Time stops when no
request is left that looks at the set (nobody reads it after that). Three
submissions with two polls let an answer of the first meet the timer of the
third. `GatewayCodes` has one
retryable and one non-retryable code, the two classes the code tells apart.

`CHECK_DEADLOCK FALSE` is set where the system really stops: requests that have
all been answered (`replies`, `error_is_cached`, `key_is_reused`), a process that has ended
(`process`), a page whose submissions are used up (`console`), and instances without
webhooks, whose payment is settled or stranded (`stalled` and violations). With
webhooks a delivery is always possible.

Where the limits are. Two facts about the deployment decide what holds, and
each property is proved without those it does not need:

| Needs | Properties |
|---|---|
| nothing: locks may lapse, jobs may be redelivered alive | `OneCallPerAttempt`, `CallsArePaidFor`, `SuccessIsBacked`, `WebhookExactlyOnce`, `AckedIsRecorded`: they rest on the version column and the unique event id; `KeyIsNotTakenAway`, `NoKeyIsLeft`: on the token of the key and the `finally` |
| `~LiveStalls`: a job is redelivered only when its run is gone | `TrailIsHistory`, `RetryBudget`, `StatusMovesAreValid`: `recheck` and `scheduleRetry` use the version of a row they did not (fully) check. `invalid_move` shows what happens otherwise |
| `~LockLapses`: a key outlives its section | `MutualExclusion`, `NoCallOnceFinal`, `RejectedDoesNotApply` |
| both | `ImplementsLifecycle` |

The liveness properties are checked under both, too; a key whose owner is gone
still expires.

Runs that find a disagreement between the code and a statement of the
repository (`findings` quotes both):

| Run | Statement | What the code does |
|---|---|---|
| `retry_never_scheduled` | README: a retryable failure is scheduled for retry | only an exception of `processPayment` reaches `scheduleRetry`; a declined call does not throw |
| `retry_job_ignored` | README: a retried payment is processed | the process job of a retry has the id of the first one and is ignored while that is kept |
| `invalid_move` | `VALID_TRANSITIONS` is the set of allowed next states | RETRY_SCHEDULED can become PERMANENTLY_FAILED |
| `breaker_stays_closed` | the breaker trips open when failures exceed the threshold | only a recorded failure is compared with it |
| `error_is_cached` | duplicates return the cached response | the loser of a race replaces the cached 201 of the winner, which is done, by its own 500 |
| `key_is_reused` | a key is not reused with a different payload; such a request is refused | bodies that differ under metadata only have one hash, so the second is answered with the payment of the first |

### Fairness

`FairSpec` of `PaymentSystem` assumes that a task that is running keeps running
(the Node event loop), that a key nobody uses expires (its TTL), that a job
whose worker is gone is found by BullMQ's stalled check, and that a request
between commit and enqueue goes on. It does not assume that the gateway
delivers webhooks, that clients cancel, or that finished jobs leave Redis:
nothing in the code makes them. Weak fairness suffices: each of these steps
stays enabled until it is taken, or until another task disables it, which ends
what the property waits for.

`PendingIsSettled` adds, as its own hypothesis, that the event is delivered
again and again.

`FairProcessSpec` of `ServerProcess` assumes that time passes, that the event
loop runs (a job goes on, a shutdown goes on when the call it awaits has
ended), and that every call of the gateway is answered (every scenario of the
simulator ends). Nothing is assumed about jobs or signals. `Recovers` assumes in
its hypothesis that jobs keep trying to call and that calls stop failing; the
breaker has no timer of its own.

`ConsoleSpec` assumes that timers fire and that every fetch ends, with an
answer or an error. It assumes nothing about payments, and no fairness for the
server. The specification of the route is not fair: a call of Redis may take
for ever (`maxRetriesPerRequest: null`), and no liveness of requests is claimed.

## 4. The proofs

Every safety invariant, action property and refinement that a passing run
checks is a theorem, for every value of the constants: any sets of payments,
tasks, events, requests, keys, calls and submissions, and any bounds. The
assumptions are the named `ASSUME`s of the modules (sets of tasks are disjoint,
`None` is no task, bounds are naturals, thresholds are positive, payloads are
well formed); TLC evaluates them in every run. Theorems that hold only for some
deployments say so in their statement, `ASSUME ~LockLapses` or `ASSUME
~LiveStalls` (see the table in section 3); the model has the opposite settings
as well, and `invalid_move` runs one of them.

Each proof has the same shape: an invariant that implies the property, a lemma
that the initial states satisfy it, a lemma with a step for every action, and
the temporal step.

**Payments.**

- `PaymentSystemTypes`: `TypesInvariant` (`TypeInv` is inductive) and
  `TypeCorrect == Spec => []TypeOK`. `TypeOK` alone is not inductive: a step
  that uses the payment of a run needs to know that a run that is not idle has
  one, so `TypeInv` adds where local state is defined.
- `PaymentSystemVersions`: a summary of what any step does to one payment
  (`RowMoves`: kept, born, or moved by one update of one task) and to one task
  (`RunMoves`, `RetryMoves`, `HookMoves`, `CancelMoves`), from which the
  invariants below are proved without opening every action again. With it
  `VersionsAreKnowledge == Spec => []KnowInv`: the version a task holds is one
  the row has had, and if the row still has it, the status is the one the task
  saw. So a guard on the version alone is a guard on the status
  (`UpdatesAreHonest`), with the one exception the code has: `giveUp`, which
  took the version of a row whose status it did not test.
- `PaymentSystemCalls`: `CallOnce` (`OneCallPerAttempt`), `PaidCalls`
  (`CallsArePaidFor`) and `BackedSuccess` (`SuccessIsBacked`). `CallInv` says
  that the attempt a run is about to call for, the version it made by its own
  update to PROCESSING, is at most the row's version, belongs to no other run,
  and is not in the ledger. `PaidInv` says that every call is for an entry of
  the trail to PROCESSING, and that these are as many as `retryCount` and the
  status account for (`Budget`); `CallsArePaidFor` follows by counting, since
  calls have distinct attempts. `BackInv` follows a success from the ledger to
  the run that holds it to `responses` to the trail. The lock occurs nowhere in
  these arguments.
- `PaymentSystemWebhooks`: `EventsOnce` (`WebhookExactlyOnce`). `EventInv`
  relates the recorded statuses of an event to the entries of the trail it
  made. The uniqueness of `event_id` inside the transaction gives the step of
  `ApplyEvent`; every other step leaves the entries of an event alone.
  `AcknowledgedIsRecorded` (`AckedIsRecorded`) rests on `AnswerInv`: a request
  that is at `release`, and thus will be acknowledged, has its event on record,
  and records are never removed.
- `PaymentSystemExclusion`, under `~LiveStalls`: `OwnInv`, a run holds the job
  it works on, so a payment has one run (`OneRun`). `HistInv` adds that this
  run can rely on what it has read (`RunIsCurrent`): what it gives up on is
  still FAILED, because only a run leaves FAILED, and the retry count it tested
  is still the current one, because only a run raises it. That closes the gap
  `giveUp` leaves in `UpdatesAreHonest`, and gives `TrailsAreHistory`,
  `RetriesAreBounded` and `MovesAreValid`. The last is the property that
  `invalid_move` violates: redelivery of a live job is its only cause.
- The same module, under `~LockLapses`: `LockInv`, a task in its critical section is
  the owner of the key, gives `Exclusion` (`MutualExclusion`). `WorkInv` adds
  that a run at its call has the PROCESSING row with its own version, and that
  a request about to reject an event has a payment the event does not apply to:
  everybody who moves a payment out of or into PROCESSING does so in the
  critical section, so nobody else can (`NoLateCall`, `RejectedForGood`). These
  do not need `~LiveStalls`.
- The same module, without a hypothesis: `KeysAreKept` (`KeyIsNotTakenAway`) by
  `TasksKeepKeys`, each step of a task deletes no key but its own, and
  `KeysAreNotLeft` (`NoKeyIsLeft`) by `KeysAreReleased`: a step that leaves the
  budget of faults alone is not a fault (`FaultsAreSpent`), and by such a step a
  worker or a request leaves its section only through its release
  (`WorkersReleaseKeys`, `HooksReleaseKeys`).
- Under both, `SystemImplementsLifecycle == Spec => ImplementsLifecycle`. A
  step touches at most one payment (`TouchesOne`); the others are as they were
  (`Still`). Each way to change the row of one maps to `Create` or a `Move` of
  `PaymentLifecycle` (`RowChangeIsMapped`, `MoveIsMapped`), and an answer of
  the gateway maps to its call (`CallIsMapped`). A row that has just changed
  has no call yet (`NewAttemptIsFresh`), from `CallInv`.

**POST /payments** (`PaymentsRouteProofs`).

- `GroundedReplies` (`RepliesHaveGrounds`). A reply may come from the cache, so
  `ReplyInv` says that a cached response has its grounds as well (`CacheIsTrue`),
  that a request between insert and answer owns the payment of its key
  (`RequestsAreTrue`), and that every record has a request that sent its fields
  (`RecordsAreSent`), which is what a 409 or 422 rests on. Grounds last
  (`GroundsLast`) because a key never loses its payment. The theorem goes as far
  as the code does: the payment of a 201 was asked for with the same top-level
  fields. For whole bodies it is false, and `key_is_reused` is the counterexample.
- `EndpointIsIdempotent` (`ImplementsEndpoint`). `ReplyInv` gives that a 201,
  also one from the cache, confirms the payment of its key; `AnsweredOnce` adds
  that a request that has not been answered has no reply. Each step then is
  `Create`, `Confirm`, `Refuse` or a stutter.
- `PatientClients` (`PatientClientsAreServed`). While clients are patient a
  request is alone with its key (`Alone`). While nothing is lost in addition,
  the key is occupied from the mark on (`OccupiedOnceMarked`), so a request
  that gets past the lookup finds no payment and its insert cannot fail
  (`UnpaidUntilCreated`), and no error is cached (`NoErrorIsCached`).
- `RouteRefinesMiddleware == RouteSpec => Spec`, because every step of the
  route is a step of the middleware or none of it; with it `RouteHasGrounds`,
  `RouteIsIdempotent` and `RouteServesPatientClients` follow.
- `LimiterOverrun` (`OverrunIsBounded`) and `LimiterHasCause`
  (`RejectedForCause`), by `LimiterInv`. A pipeline is on time
  (`PipelinesAreOnTime`), so what was added lately is still in the set
  (`RecentAreEntries`), whatever other pipelines remove and although the set
  expires. A request that has counted less than `MaxRequests` and has not yet
  been admitted is promised a place; at most `Processes - 1` other pipelines
  can be between count and insert, so there are never more than
  `MaxRequests + Processes - 1` recent and promised (`PromisesAreBounded`). For
  the other property, the requests a pipeline counts are of its own window
  (`CountIsOfWindow`), because it has removed the older ones itself.
- `RouteTypes` (`RouteTypeOK`).

**The server process** (`ServerProcessProofs`).

- `BreakerTypes`, `ClosedIsBelow`, `HalfOpenEnds`, `ClosesOnlyOnStreak`: the
  breaker alone. `CountIsStreak` (HALF_OPEN counts only successes of the
  current streak) is what `ClosesOnStreak` needs beyond the types.
- `ProcessSpec => Spec` of the breaker, so that its theorems hold in the process
  (`ProcessBreaker`); `ProcessTypes`; `JobsKeepConnections`
  (`ConnectionsOutliveJobs`), by `ClosingOrder`: as long as no shutdown is past
  the workers every connection is open, and once one is there is no job and
  none can be taken; and `OnlyThrowsOpen` (`OpensOnThrow`).

**The console** (`ConsoleProofs`).

- `TimersAreKept` (`NoTimerIsLost`) and `ConsoleTypes`, by `ConsoleInv`:
  `startPolling` clears the timer of the handle before it overwrites the handle.
- `OutcomesStay` (`OutcomeStays`), by `OutcomeInv`: an outcome clears whatever
  timer the handle is of, which by `NoTimerIsLost` is the only one, and a timer
  is started once, after its POST (`TimersAreCreated`). So the timer the
  outcome came from is gone and stays gone (`OutcomeIsOver`); an answer of one
  of its polls is late. Nothing is assumed about the payments: what the server
  may do is any step of `PaymentLifecycle`.

Only model-checked: the liveness properties (`JobsFinish`, `LocksAreFreed`,
`RetryIsExecuted`, `PendingIsSettled`, `ShutdownEnds`, `Recovers`,
`ButtonComesBack`), because the prover handles neither fairness nor ENABLED.
They are checked for the instances of their runs only. The violations are
counterexamples of small instances and need no proof. That `Console`'s
environment is what `PaymentSystem` implements is by
`SystemImplementsLifecycle`, thus under its two hypotheses.

## 5. Not modelled

- Health check: three reads and a table from their outcomes to a status. It
  keeps no state and nothing in the repository acts on its answer.
- Logging and `requestLogger`: no effect on payments.
- The rules of the validation schemas (one set of valid fields stands for
  them), the parsing of the configuration, headers and wording.
- How ioredis, Prisma and BullMQ reconnect. In particular the shared Redis client
  has `maxRetriesPerRequest: null`: its commands wait while Redis is away, so the
  limiter fails open only for commands that are answered with an error or cut
  off. The models let a call wait for ever.
- HTTP requests in progress during a shutdown: `server.close()` is not awaited
  and nothing is promised about them. To the client such a request is a `Crash` in
  `Idempotency`.
- The simulator's probabilities and delays. `getPayment` is the read of `Console`;
  `listPayments` only reads, in two queries that need not agree.
- The log of events of the console.

The breaker is in `PaymentSystem` as a choice: a call may be rejected
(`BreakerRejects`) whenever one could be made, which allows every behaviour of
the real breaker. A payment stays PENDING or PROCESSING for ever in several
reachable ways (no webhook, no job, a swallowed redelivery); no property claims
otherwise, because nothing in the code recovers such a payment.

## 6. Plan

1. Two payments whose workers share the breaker of a process: `ProcessWorker`
   under `ServerProcess`, so that a rejected call is one the breaker rejects.
2. An abstract lock and an abstract limiter (a set of owners with at most one
   member; a number of requests per window) that `DistributedLock` and
   `RateLimiter` implement, with the theorems of section 4 restated as
   refinements.
3. What is left of `ImplementsLifecycle` when locks lapse: a lifecycle in which
   a payment may be settled while it is charged, and a proof without
   `~LockLapses`.
4. Safety parts of the liveness arguments as theorems (for instance that a job
   that is not finished always has a task or a stalled check that may move it),
   so that only the fairness step is left to TLC.
