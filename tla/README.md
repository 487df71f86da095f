# Verification of the GrantLedger platform

This directory holds TLA+ models of GrantLedger, a multi-tenant subscription billing
platform in TypeScript, the TLC configurations that check them and proofs that TLAPS
checks. Paths below are relative to `src/`. `PROJECT.json` maps every definition to the
lines it models and lists runs, mutants, hazards, findings and theorems.

## 1. The system

| part | code | state | operations |
|---|---|---|---|
| idempotency executor | `packages/application/src/idempotency.ts` | one record per scope and key: hash, status, response | `executeIdempotent`, `beginWithFallback`, `processWithIdempotency` |
| its Postgres store | `packages/infra-postgres/src/idempotency-store.ts` | table `idempotency_records` | `get`, `set`, `begin` (lock, decide, write in one transaction) |
| invoice job queue | `packages/infra-postgres/src/invoice-job-store.ts`, `invoice/in-memory.ts` | a row per job: status, attempts, lease owner, token and expiry, next attempt | `enqueue`, `claimNext`, `renewLease`, `markCompleted`, `markRetry`, `markDeadLetter` |
| invoice worker | `application/src/invoice/process.ts`, `apps/worker` | the cycle under way and its heartbeat | claim, execute idempotently, find or build, save, audit, mark |
| enqueue, replay, status | `invoice/enqueue.ts`, `replay.ts`, `status.ts` | none of their own | `enqueueInvoiceGeneration`, `replayInvoiceGenerationJob`, `getInvoiceGenerationJobStatus` |
| invoice repository | `infra-postgres/src/invoice-repository.ts` | an invoice per cycle key | `findByCycleKey`, `save` (an upsert) |
| invoice calculation | `packages/domain/src/invoice.ts`, `invoice/build.ts` | none | lines, breakdown, snapshot, cycle key |
| subscriptions | `domain/src/subscription.ts`, `application/src/subscription.ts`, `apps/api/src/handlers/subscription.ts` | a row per subscription | create, upgrade, downgrade, cancel now, cancel at period end |
| payment webhooks | `application/src/payment-webhook.ts`, `apps/api/src/handlers/webhook.ts`, `StripeWebhookProvider.ts` | audit trail, idempotency records | verify, publish, complete, audit |
| plan catalog | `application/src/catalog.ts`, `domain/src/index.ts` | plans and their versions, behind a port nothing implements | create, publish, deactivate, look up |
| operational monitor | `application/src/invoice-ops.ts`, `apps/worker/src/metrics.ts` | a job's state as its worker knows it, counters, in the worker's memory | job observers, `snapshot`, gauges |
| tenant sessions | `infra-postgres/src/tenant-session.ts`, the pool | connections, each with its transaction and tenant setting; who waits for one | `withTenantSession`, `pool.query`, `pool.end` |
| API server | `apps/api/src/server.ts`, `bootstrap/` | requests under way, use cases cached by tenant, shutdown | dispatch, answer, readiness, close |
| authentication context | `apps/api/src/handlers/auth.ts`, `application/src/auth-context.ts` | memberships | the tenant a request is handled for |
| worker process | `apps/worker/src/main.ts` | the polling loop, shutdown | poll, run a cycle, close |
| the rest | checkout, contracts, shared, admin | none | pure functions and one call to a provider |

How they interact. The API and the worker are separate processes that share nothing but
the database. Every command, the enqueueing of a job, the processing of a job and the
delivery of a webhook run inside `executeIdempotent`, whose record is what stands
between two of them. Workers share the queue through leases that a timer renews without
waiting for the answer. Within a process an `await` is the only place at which something
else can run, so awaits are the step boundaries of every model; on Postgres, processes
also interleave between any two transactions.

What is hard about it: two first requests for a key; a process that dies with a record
in `processing`; a write that is reported as failed and was applied; a lease that runs
out under a worker that is only slow; a renewal that lands after its cycle; an invoice
that is stored before its job fails; a row that is read, changed and saved whole while
another command does the same; a provider that delivers twice at once; a tenant's
setting on a connection that another tenant's query takes next; a signal in the midst of
requests, sessions and cycles. The `hazards` of `PROJECT.json` list these at their
lines.

What makes each part correct, in a sentence:

- *executor*: executions of a key do not overlap, an answered key never runs again, and
  every answer comes from an execution of the same key and payload;
- *queue*: only the present lease may move its job, attempts are counted once and
  bounded, terminal statuses are final, and every job gets to one;
- *worker*: one worker generates a job's invoice, a cycle's invoice is never replaced,
  and a completed job names the one that is stored;
- *amounts*: breakdowns account for totals, split periods add up, taxes follow
  discounts;
- *subscriptions*: changes follow the lifecycle, answers stand for stored, published and
  audited changes;
- *webhooks*: success stands for a publication, and an event is processed once;
- *monitor*: what the gauges of all workers tell of ended jobs is true and counted once;
- *sessions*: nothing of a session outlives it, whatever fails;
- *services*: a command touches data of a tenant its user is a member of, a stop cuts
  off nobody who still waits for an answer, and nothing hangs;
- *catalog*: one version is valid at an instant, unless creations raced.

## 2. Modules

| module | what it is |
|---|---|
| `OncePerKey` | abstract: what an idempotency key promises its clients |
| `Idempotency` | the executor over a memory, Postgres, non-atomic ("fallback") or synchronous store |
| `JobLifecycle` | abstract: what a job promises whoever polls it |
| `InvoiceJobStore` | the table of jobs and its operations; extended by the next |
| `InvoicePipeline` | clients, workers, heartbeats, time and replays over that table |
| `InvoiceMonitor` | extends `InvoicePipeline` with the monitor of each worker |
| `SubscriptionLifecycle` | abstract: what a subscription may go through |
| `Subscriptions` | clients' commands on one subscription, from the handler to its row |
| `PaymentWebhooks` | deliveries of payment events |
| `InvoiceAmounts` | the calculation of invoices |
| `PlanCatalog` | callers of the plan catalog's use cases |
| `TenantSessions` | a pool of connections and the sessions run on it; extended by the next |
| `Services` | the API server and the worker as processes that run sessions, and stop |
| `MC...` | the instances TLC checks |
| `...Proofs` | the theorems, a module for each of the above that is checked and not abstract; those about sessions are in `ServicesProofs` |

### Idempotency

A caller is a client that retries one request; `pc` is the await it is at: `calling`
(before `begin`), `inserting` (the Postgres `begin` found no row, so it holds no lock),
`fetched` (the fallback's read was answered), `executing`, `completing`, `failing`, or
one of the ways a call ends. `records` is the store, `effects` counts how often an
operation took effect, `replies` is what clients were told. `Begin`, `BeginMissing` and
`Insert` are `begin` of the two stores, and `FallbackGet` and `FallbackDecide` are
`beginWithFallback`; the actions named `...Fails` are the same calls when they reject.
`execute` may throw after it took effect. With the fault kind `ambiguous`, a rejected
write may have been applied, that of a `begin` included (`Writes`): `executeIdempotent`
awaits it outside of its `try`. `cut` is a history variable, which no action reads: the
keys a fault left in `processing`. `Stuck` keys are in processing with nobody executing
them, and `Abandoned` ones are so because of a fault. Payload hashing is abstracted to
equality. The store is chosen in `Init`, so a run covers several.

`KeepsPromise` says that all of this implements `OncePerKey`, with a key bound to the
hash of its record and yielding the response of its record.

### InvoiceJobStore and InvoicePipeline

A job's lease has a token and is `live` until its time runs out; `due` says that its
next attempt has come. `Owns` is the guard of every update by a worker
(`assertLeaseGuardUpdate`). A worker's `pc` follows `processNextInvoiceGenerationJob`:
`begin`, `find`, `save`, `audit`, `record` (the completed record), `unwind` (the failed
one), `check` (the heartbeat's error, then `markCompleted`), `handle` (retry or dead
letter). `tries` is the attempt count of the copy the worker claimed, which is what the
code counts from. `marker` is the `invoice.process` record of each job. `SendBeat` and
`LandBeat` part the timer from the arrival of its renewal. `LeaseLapses` of a lease
whose worker runs is a fault (`stall`), because `runtime-config.ts` requires the
heartbeat to be below the lease. `ReplayCheck` and `ReplayEnqueue` are the two halves of
`replayInvoiceGenerationJob`.

Reductions, each of which leaves the behaviours of interest in:

- enqueueing is one step: its idempotency is that of `Idempotency`;
- a worker has at most one renewal under way; renewals are idempotent, and those of
  older tokens fail on the guard;
- an error the heartbeat reports between the check and the mark has the same outcome as
  one reported after the mark, and is modelled there;
- a lost insert race inside the worker's `begin` has the outcome of a record that is in
  progress: the attempt fails;
- a replay's two reads are one step, since a failed job never changes again and an
  invoice that appears between them is one that appears after them;
- observers are in `InvoiceMonitor`; in `InvoicePipeline` an invoice is a name, its
  amounts are in `InvoiceAmounts`;
- a crash may hit a worker between two cycles too; the pipeline's state does not show
  it, the monitor's does.

### InvoiceMonitor

`seen` and `retried` are what the `createInvoiceOperationalMonitor` of each worker
holds. Its actions are those of `InvoicePipeline`, each with what the observers are told
of it: `ObserveClaim`, `ObserveFinish` and `ObserveHandle` with the new state, once the
store has confirmed it; `ProcessDies` with the loss of the memory; `Unobserved` and
`Elsewhere` with nothing. A mark that is applied and reported as failed is not told, so
`seen` may lag, and `Snapshot` with it. The counters of cycles and of durations tell of
no job and are left out.

### Subscriptions

A client sends a command, stamped by the handler with the time of receipt and a trace id
(`Stamps`), through the executor at the grain of its outcomes, and then `Read`
(`findById` and the domain rule), `Save`, `Publish`, `Audit`, `Complete` or `Fail`.
`seen` is what it read and `draft` what it will write. One subscription is enough:
subscriptions share no state, and an idempotency record concerns another only through
the key, whose conflicts `Idempotency` covers. A failing write of the failed record has
the outcome of `Crash` for everyone else, and a lost insert race in `begin` that of
`Refuse`. `applyUpgrade` and `applyDowngrade` make the same change, so the instance has
downgrades only.

### PaymentWebhooks

A deliverer stands for the provider's deliveries of one event, one at a time; two of
them of one event race. The payload that is hashed is null, so keys never conflict.
`rejecting` is the catch block, which audits a line without the event's id unless the
type is what was not supported, and answers with an error, upon which the provider
delivers again.

### InvoiceAmounts

Ratio, rounding, discount, tax, lines and breakdown, over the inputs the API's schema
admits. Lines are amounts by kind, since there is at most one of a kind. `RoundCents`
allows either neighbour of an exact half, because the ratio is a rounded double; below
10^12 cents and for periods of at most a year the error of the double can turn halves
and nothing else. The state is the set of invoices issued for one price, so that
properties can relate two of them. The snapshot, a copy of the input, is left out. It
holds neither days, discount nor rate: the lines cannot be computed again from it.

### PlanCatalog

An editor's call is at `create`, `save` or `audit`, with what it has read.
`ListPlanVersions` is the read and the check of `createPlanVersion`, `CreatePlanVersion`
its write; `GetPlanVersion` and `SavePlanVersion` are the halves of publishing and
deactivating. `listed` keeps what each creation was checked against and is read by no
action. The repository is a port that nothing implements: its calls are taken to be
atomic. Nothing rejects a window that ends before it starts, so windows include those,
and open ones. One plan is enough: overlaps are sought within a plan.

### TenantSessions and Services

A task is whatever may hold a connection: a request, the worker's cycle, or a renewal
its heartbeat sent. Its session goes from `waiting` over `begin`, `set`, `work` and
`commit` to `done`, or over `rollback` to `failed`: one step per statement of
`withTenantSession`. A plain `pool.query` is at `query`. The pool is modelled as the
code uses it (it is a library): first come first served, at most `Conns` connections, a
connection whose `ROLLBACK` fails is lost, and `pool.end` closes idle connections at
once and the others when they are released.

What a request or a cycle does to data is in the other modules; here it is a series of
at most `MaxSessions` sessions under the tenants of its `scope`. `Command` takes that
scope the way the code does: the header's tenant, the membership (`RequestContext`), and
the use cases cached for that tenant (`UseCasesByTenant`). `Webhook` runs under the
system tenant and outside of any, `Ready` outside of any. `phase` goes from `up` over
`closing` (the HTTP server) and `ending` (the pool) to `exited`. API and worker share
nothing but the database, so a behaviour has one of them, chosen in `Init`. A request
that arrives on a kept-alive connection after the server stopped listening is one of
`MaxLate`.

Node's `server.close` waits for connections to end and not for handlers. A connection
ends with its answer or when its client hangs up (`HangUp`), of which a handler is not
told: it goes on as one of `gone`. So `ServerClosed` waits for requests that rest or are
`gone`, and `Exit` for the pool alone.

## 3. Runs

| run | instance | what it shows |
|---|---|---|
| `IdempotencySafe` | 3 clients of a key, 2 payloads, memory, Postgres and sync, 3 faults | `SingleExecutor`, `EffectsBounded`, `EffectsFinal`, refinement of `OncePerKey` |
| `IdempotencyLive` | the same with the fallback, any 2 faults (1 on the fallback): each call failing, applied or not, and crashes | `ReplyMatches` even where the fallback lets two callers in; `ProcessingEnds` and `RetriesAnswered` but for keys a fault abandoned |
| `PipelineReplay` | 2 workers, a job and its replay, 3 attempts, 3 faults but no stall | `OneExecutorPerCycle`, `InvoiceStable`, `CompletedNamesInvoice`, refinement of `JobLifecycle` |
| `PipelineLive` | 2 workers, 2 jobs, 2 attempts, 1 fault of any kind | `OneExecutorPerJob`, `Fencing`, `EventuallyTerminal`; with the monitors, `MonitorTruthful` |
| `PipelineCrashLoses` | 2 workers, a job, 1 crash | finding: `RecoversFromCrash` fails |
| `PipelineTwoKeys` | 2 jobs of one cycle, no fault | finding: `InvoiceStable` fails |
| `SubscriptionSafe` | 2 clients, 6 commands, memory and Postgres, 1 fault | `OnlyStaleSavesDeviate`, `AnsweredInFull`, `EventsTellOfSaves`, `OneCreation` |
| `SubscriptionResurrected` | Postgres, no fault | finding: `CanceledIsFinal` fails |
| `WebhookDeliveries` | 3 deliverers of 2 events, 2 faults | `AckedIsPublished`, `ProcessedOnce`, `PublishedBounded`, `EventuallyAcked` |
| `InvoiceAmounts` | pairs of invoices, 5 prices, 6 days, 4 periods, 2 discounts, 3 rates | `SplitPeriodsAddUp`, `ChargeGrowsWithDays`, `NegativeOnlyByDiscount` |
| `ServicesStop` | 1 connection, 2 requests whose clients may hang up, or a cycle and its renewal, 2 sessions each, 2 faults, 1 late request, 3 tenants, 2 users | `SessionsIsolated`, `MembersOnly`, `StopsGracefully`, `NothingHangs` |
| `PlanCatalog` | 3 versions, 2 editors, windows over 2 instants, reversed and open ones among them | `OneVersionPerInstant` |

Why the bounds are enough. Keys, jobs and events share nothing with others of their kind
but the queue's order and, for jobs, the cycle, so one or two of each show every
interaction. Two racing clients and one with another payload take every branch of
`begin` against every status. Two workers show every race for a lease, since a third can
only do what a second did. Three attempts have a first, a middle and a last one. Faults
are bounded by `MaxFaults`, the bound that makes a run finite, in `Idempotency` one for
each store: two let a call fail and then the record of its failure, three let a crash
follow. On the fallback one fault is enough for every way to abandon a key but that, and
races there need none. Lease tokens are random
UUIDs: a claim takes one that nothing refers to, and six are more than two workers, two
jobs and two renewals can refer to at once. `IdempotencySafe` has no ambiguous writes,
and `PipelineReplay` no stalls, for a reason: see section 6. `SubscriptionSafe` has one
stamp, because a second only adds refusals, and uses the symmetry of its clients, which
is sound as it checks no liveness. `MaxIssued` is two because properties relate two
invoices. A pool of one connection is where tasks have to wait for each other and where
a setting left behind is found by the next one; a second session of a request is where
it may find the pool closed; and of two faults one can break a session and the other its
rollback. A third version can race one of two that do not overlap; two instants and the
one after all have windows that meet in an end, contain each other, or are reversed. The
symmetry of versions and editors is sound as that run checks no liveness.

Deadlock is checked, except where the system may come to rest: the pipeline once every
job is terminal and every replay was made, `InvoiceAmounts` once its two invoices are
issued, and `Services` once its process has exited.

Every property of a passing run has a mutant in `PROJECT.json`: a definition of the
model replaced by a `Variant`, defined above it, that makes a plausible mistake (a guard
dropped, a write forgotten, an attempt too many) and breaks it.

### Fairness

Weak fairness of each caller's, worker's or delivery's own steps, because an event loop
runs every continuation that is ready. Weak fairness of `Call` and `Deliver`: clients
that want an answer and the provider repeat their requests. A worker polls in an endless
loop and is restarted when it dies; time passes, so leases that nobody attends run out
and delays pass. Nothing obliges clients of the queue, operators or faults to act. What
has been found true only under an assumption says so: `EventuallyTerminal` has finitely
many jobs (under an endless supply of ready ones an expired lease would wait for ever,
as `claimNext` prefers the former); `ProcessingEnds` and `RetriesAnswered` except keys,
and `EventuallyAcked` events, that a fault abandoned, which ADR-003:44 and :54 do not
(section 6). In `Services` the event loop runs ready continuations and the
database answers or fails; nobody has to send requests or signals, so `NothingHangs`
says that what was begun ends, not that anything begins.

## 4. Findings

1. **A crash loses the job** (`PipelineCrashLoses`). A worker that dies while it
   generates leaves its `invoice.process` record in `processing`. Whoever claims the job
   next is refused by that record, at every attempt, until the job is dead-lettered,
   where ADR-014:25 promises recovery after restarts. ADR-003:23 and :44 promise more,
   and are the second document this run disagrees with: a record keeps
   `processing_expires_at`, and once that is past an eligible worker may take it over.
   No record has such a field, and nothing takes one over.
2. **Two keys, two invoices** (`PipelineTwoKeys`). Jobs enqueued for a cycle under two
   keys both find no invoice and both store one; the upsert replaces the first, whose id
   the first job goes on to report.
3. **A canceled subscription comes back** (`SubscriptionResurrected`). A plan change
   that read the row before it was canceled writes it back whole.

Section 5 proves what each of them takes: an execution cut short (1), two jobs of a
cycle at work together (2), two commands that overlap (3).

## 5. Proofs

TLC checks instances; the theorems hold for every number of clients, workers, keys,
jobs, events and faults, every price and period. Each follows from an inductive
invariant.

- `IdempotencyProofs`. `SingleExecutor` alone is not inductive: it needs that an
  execution in flight *owns* its record, which is in `processing` with its hash, unless
  an ambiguous completion is being undone (`Exclusive`). On top of it
  `EffectsAccounted`: a key that may be executed has taken effect at most once per
  fault; and `Persisted`: what a client was answered is still in the record, which gives
  `RepliesAgree`, `EffectsFinal` and the refinement of `OncePerKey`. `ReplyMatches`
  rests on `Provenance` and holds on all stores, the others assume that the fallback is
  not used, and `RepliesAgree`, `EffectsFinal` and the refinement that no write is
  ambiguous. `StuckOnlyByFault` (its invariant is `Accounted`): on every store, a key in
  processing that nobody executes was left there by a fault. `StuckForever`: on stores
  with an atomic `begin` it stays so, its operation never runs again and no retry is
  answered, since no record expires. Together they say why `ProcessingEnds` and
  `RetriesAnswered` need the exception they make, and that it is no larger than faults.
- `InvoicePipelineProofs`. `OneExecutorPerJob` needs `ExecutorsMarked`: the job's
  idempotency record keeps others out whatever becomes of the lease. `Fencing` follows
  from the guards. `PipelineFollowsLifecycle` needs `TriesCurrent`: a worker that still
  owns its lease counts from the right number, though from a copy.

  Invoices come in two steps. `StableWhenAlone`, under every fault: in a behaviour in
  which no two workers ever generate invoices of one cycle together, no invoice is
  replaced and completed jobs name the stored one. Its invariant, `InvoicesNamed`, ties
  whatever names an invoice (a worker about to audit or record it, a completed record, a
  completed job) to the one that is stored, and says that whoever is about to save still
  finds none. `AloneInCycle` then proves `OneExecutorPerCycle` from `SoleJobs`: clients
  enqueue a cycle under one key, it is replayed once at most, and leases do not lapse
  under live workers. None of these can be dropped: without the first `InvoiceStable`
  fails as `PipelineTwoKeys` shows, without the others as section 6 tells. All other
  faults, ambiguous writes and crashes included, are allowed. The invariants are
  `LeasesHeld` (a worker owns a live lease until it handles a failure) and
  `ReplaysFollow` (a replay exists only where the job it repeats has failed for good).
  `InvoicesStable` and `CompletedNames` put the two together.

  `OrphansStay`: a job whose record is in processing while nobody executes it stays so.
  `ResponsesRecorded` (its invariant is `Recorded`): without ambiguous writes a job
  completes only with what its record holds. So `OrphansNeverComplete`: the job that
  `PipelineCrashLoses` finds lost is lost with any number of attempts and workers.
- `SubscriptionProofs`. `DraftsApply` (what is to be saved is what the command made of
  what was read), `StepsInOrder` (a request has done what comes before its step) and
  `NothingBeforeCreation` give the four safety properties. `ApartKeepLifecycle`:
  commands of which no two are between their read and their save at once
  (`CommandsApart`) implement `SubscriptionLifecycle`, under every fault and retry, as
  `DraftsFresh` is then an invariant: what is saved over is what was read.
  `ApartKeepCanceled` is `CanceledIsFinal` for them.
- `PaymentWebhookProofs`. `OneOwner` and `OwnersMarked` say that one delivery executes
  an event while its record says so, `ProcessedIsFinal` that an event told to be
  processed stays completed; `PublicationsPaid` that wherever an event may be published
  again there was a fault for each time it was. The types need `OnlySupportedRun`: an
  unsupported event is never executed. `AbandonedStays` and `AbandonedNeverAcked`: an
  event whose execution was cut short is never executed again, and if it was not
  answered with success, nor is a delivery about to be, it never is: `EventuallyAcked`
  cannot do without its exception.
- `InvoiceAmountsProofs`. Every invoice was built by the operators from an input
  (`AllBuilt`); from there it is arithmetic about `2 num - den <= 2 den q <= 2 num +
  den`, which is all that rounding guarantees.
- `InvoiceMonitorProofs`. `MonitoredIsPipeline`: the monitors only watch, each step is
  one of the pipeline or leaves it alone, so what is proved of the one holds of the
  other. `MonitorsTruthful` is `MonitorTruthful`: that the ends of jobs are known
  (terminal statuses are final, and the one lease that may end a job is the one whose
  monitor is told), and the sums over workers. A sum is stated as the cardinality of a
  set of units (`Units`), so that the facts about finite sets apply: what the monitors
  hold of ended jobs is a disjoint union of parts of the jobs that ended so, and a retry
  adds one unit to a monitor only in a step that adds one to the job's attempts.
- `PlanCatalogProofs`. `OneVersionPerInstant` says nothing of drafts or of calls under
  way; `CheckedApart` does: windows never change, so what a check found stays so, for
  the versions listed and for the version about to be saved whole.
  `OneVersionWhenApart`: where creations do not overlap (`CreationsApart`), one version
  at most is valid at an instant.
- `ServicesProofs`. `Exclusive` (a connection has one holder, and who waits holds none)
  and `Clean` (each connection's transaction and setting are those of its holder's step,
  and none when it is free) give `SessionsIsolated`; with `Scoped` (a task's tenant is
  of its scope, whose asker is a member, and cached use cases are their tenant's own)
  they give `MembersOnly`; `Stopping` (how far a process that is stopping has come: an
  API that is closing was signalled and so exits by way of its pool, a worker that closes
  without a signal has no cycle) gives `StopsGracefully`. That no session is cut off
  rests on the pool, which ends only with its connections released; that no client who
  waits finds it closed rests on the order of `server.close` and `pool.end`.

The assumptions on constants are the named `ASSUME`s of the modules; TLC evaluates them
in every run. The auxiliary invariants were checked with TLC before they were proved.

`IsFiniteSet(Workers)` and `IsFiniteSet(Jobs)`, which the sums need, are assumed in
`InvoiceMonitor` alone. The hypotheses of theorems (`SoleJobs`, `CommandsApart`,
`CreationsApart`, no ambiguous writes, no fallback) are stated in them and are no
assumptions of the models. Sections 4 and 6 tell what happens without each; creations
that do overlap are what `OneVersionPerInstant` makes its exception for.

Only model-checked: liveness and everything under fairness, which the prover does not do
(`ProcessingEnds`, `RetriesAnswered`, `EventuallyTerminal`, `EventuallyAcked`,
`NothingHangs`), and the three findings. Every safety property of a passing run is stated
by a theorem; `InvoiceStable`, `CompletedNamesInvoice` and `OneExecutorPerCycle` under
`SoleJobs`, which the instance of `PipelineReplay` satisfies. Two theorems have no run
of their own: `RepliesAgree`, which `KeepsPromise` implies, and `BreakdownAddsUp`, which
follows from how an invoice is built.

## 6. Known limits of the code

Seen by changing a constant of an instance:

- `Idempotency` with ambiguous writes: a completion that was applied but reported as
  failed is replayed to one client, set to `failed`, and executed again: `KeepsPromise`
  and `EffectsFinal` fail.
- `Idempotency` on the fallback store: two callers start one key. `SingleExecutor`
  fails; `ReplyMatches` does not.
- `PipelineReplay` with one stall: a worker stalls between building its invoice and
  saving it; its job is claimed by the other, refused by the first one's record at every
  attempt, dead-lettered and replayed under an id, and so a record, of its own. Both
  executions save: `InvoiceStable` fails, where ADR-015 asks that replays preserve
  idempotency.
- `PipelineReplay` with two replays of one dead letter (three jobs, two operators): both
  pass `ReplayCheck`, and both store an invoice: `InvoiceStable` fails without a stall.
- `Subscriptions`: when publishing fails after a creation was stored, the retry is
  refused because the subscription exists, and the event is never published.

Told by the exceptions of properties that hold:

- a fault abandons a key (`Abandoned`): a crash while it is executed, a `begin` that is
  applied and reported as failed (`idempotency.ts:189`, outside of the `try`), or a
  failure that cannot be stored (`idempotency.ts:234`). Its record stays in `processing`
  and every retry is refused as in progress, for ever. ADR-003:23 and :44, accepted,
  promise that such a record expires and may be taken over; the code has no
  `processing_expires_at`. For workers this is finding 1;
- the same goes for payment events (`Abandoned` in `PaymentWebhooks`): once an execution
  was cut short each further delivery is refused, although ADR-003:54 puts webhooks in
  the scope of that promise;
- a request whose client hung up does not hold the server open (`gone`): when the process
  is stopping the pool closes under it, its further sessions are refused or never
  served, and the process exits. Its command then ends between two sessions, for
  instance with its idempotency record in `processing`;
- a worker that is signalled while it closes after a cycle that threw exits at once
  (`main.ts:110`): the first call has set `closed`, and the second returns without
  waiting (`Signal`). A renewal's session may be cut off then; no other is.

Others follow from reading the model beside the code:

- two first requests for a key on Postgres find no row to lock; the second insert fails
  on the primary key, and that error is passed on (`idempotency-store.ts:113`), although
  ADR-011 has `IDEMPOTENCY_IN_PROGRESS` returned. `Insert` has that outcome;
- the payload a subscription command's key is compared by includes the time of receipt
  and the trace id (`apps/api/src/handlers/subscription.ts:59`), so that a retry is a
  conflict;
- a worker's queue depth counts only jobs it has put back itself: what the API enqueues
  is never told to its monitor. After a lost lease or a mark whose answer was lost,
  `processing` is stale until the worker is told of the job again;
- publishing and deactivating ask nothing of the present status and save what they read
  whole: of two at once the last wins, and a deactivated version can be published;
- the idempotency keys of the in-memory `handleCreateSubscription` are shared by all
  tenants.

## 7. Not modelled, and the plan

The order followed was the core first: the executor, on which all else stands, then the
pipeline that composes it with leases, then the commands and webhooks that use it, then
the calculation, and then what surrounds these: the monitor, the catalog, the sessions
and the processes. What is left, in order:

1. the provenance of replays (`replayOfJobId`), and `JobLifecycle` extended with it;
2. a proof that on the fallback store, where two executions of a key may overlap, a
   client alone on its key is still served as `OncePerKey` says.

Left out for good: checkout (one call to a provider, no state; in `Services` it is a
command that runs no session), request bodies, routes, status codes and headers, request
validation and the contracts (they change no state), configuration parsing, logging,
durations, `createPlan` (one call to the repository), the API's cache of subscription
use cases (it works like the one modelled, and no route reaches it), signature checks,
the admin stub and deployment files.
