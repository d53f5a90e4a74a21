# TLA+ models of ikimetr

This directory holds TLA+ specifications of the parts of ikimetr whose
correctness depends on interleavings, failures and restarts, the TLC
configurations that check them on small instances, and TLAPS proofs for every
instance. Line references are to `src/`.

## 1. The system

ikimetr is a real-estate marketplace: an API (`apps/api`, Fastify over Postgres),
a background worker (`apps/worker`, Postgres and Redis) and a web front end
(`apps/web`). The repository also carries a package that governs what
development tools may spend on AI providers (`packages/ai-cost-system`): an
accounting ledger in a file, a budget controller, provider adapters, a verified
result cache and a cost router.

| Component | State | Operations | What is hard |
|---|---|---|---|
| Durable job queue (`api/queue`, `worker/job-processor`, `worker/job-queue`) | `app.jobs` rows; Redis work list, retry set, dead list; a worker's current job and its snapshot of the row | insert row in a business transaction, wake, dequeue, load, claim, handle, complete, fail, retry, bury, reap, requeue, recover | several workers, two stores without a common transaction, lost COMMIT replies, crashes, restarts |
| Notification handler (`worker/handlers`) | `app.notifications` | deliver once per job key | replays |
| Budget controller (`ai-cost-system/budget`) | events in memory, recovered ids, blocked flag | initialize, reserve, settle, release | awaited append between check and update, crash recovery, ceilings over days and months |
| Accounting ledger (`ledger`) | `.ai-cost/ledger.jsonl` | append, replay | failed, partial and unacknowledged writes |
| Provider adapters (`providers`) | one call's progress | invoke | time-outs, errors after the provider did the work, failing audit records |
| Billing (`api/billing`, `api/admin` override) | subscriptions, payment intents, event rows, jobs, owner alerts | checkout, webhook, override, entitlement | duplicated, reordered and concurrent webhooks, READ COMMITTED races |
| Verified cache (`cache-runtime`, `cache-storage`, `cache-entry`) | one file per entry, write events in the ledger and in each runtime's memory, a storage queue | begin, store unverified, publish verified, store negative, look up | check-then-append between processes, storage written before the ledger, temporary files a crash leaves |
| Cost router and executor (`cost-router`, `routing-state`, `policy-evaluator`, `ai-executor`, `providers/execution-coordinator`) | decisions in the ledger, a queue of evaluations | evaluate, record, execute | approvals and health that change while a call waits, failing audit records |
| Rate limiter and sessions (`api/security`, `api/guard`, `api/identity`) | a Redis counter with a TTL, sessions, user status | count a request, authenticate | two commands that are not atomic, fail-open, revocation |
| Messaging, notification inbox | conversations, messages, read marks, preferences | create, send, mark read, update | uniqueness races, stale read marks, lost updates |
| Identity, agencies, properties, requests | rows | register, log in, create, join, publish, add image | check-then-insert, two transactions in one operation |
| Ingestion and matching | listings, external listings, matches | ingest, match, persist | duplicate listings, delete-and-insert races |

Interactions: API services create job rows inside their own transactions
(`queue/outbox.ts`) and push the id to Redis afterwards; workers read both;
billing and messaging are the clients of the outbox. Adapters call the budget
controller and share its ledger; the router, the executor and the cache append
to the same ledger.

**Not modelled.** Text and schema transformations (context and prompt
construction, compaction, canonical JSON, hashing), HTTP validation and
serialisation, search and the other reads, analytics, configuration, migrations
(their unique keys are used where a module relies on them) and the web
application. Of the modelled parts: `single-flight.ts` (it lets concurrent
computations of one key in one process share a promise; `coordinate` has
no caller in `src/`),
single UPDATEs without a precondition (profile, realtor profile, agency text,
marking one notification read), match scores and attribute normalisation, the
heartbeat and the expiry of stale listings, the do-not-disturb window.

## 2. Modules

| Module | Models |
|---|---|
| `JobContract` | abstract: what the job table promises its clients |
| `JobQueue` | outbox, Redis, worker processes, notification handler |
| `MCJobQueue` | sets and fault kinds for TLC |
| `JobQueueProofs` | theorems about `JobQueue` and its refinement of `JobContract` |
| `BudgetState` | what `deriveBudgetState` computes from events, and the ceilings, as operators |
| `BudgetController` | controller, ledger file, adapter calls, crashes |
| `MCBudgetController` | requests, prices and ceilings for TLC |
| `BudgetProofs` | theorems about `BudgetController` |
| `Billing`, `MCBilling` | checkout, webhooks, override, entitlements, owner alerts |
| `BillingProofs` | theorems about `Billing` |
| `VerifiedCache`, `MCVerifiedCache` | runtimes, entry files, ledger events, lookups |
| `CacheProofs` | theorems about `VerifiedCache` |
| `CostRouter`, `MCCostRouter` | route choice from the ledger, audit, execution |
| `RouterProofs` | theorems about `CostRouter` |
| `ApiCalls` | API calls and the pre-handlers: authentication, admin, rate limit |
| `Accounts` | registration, login, logout, agencies, members, user status |
| `Messaging` | conversations, messages, read marks, preferences |
| `Catalogue` | ingestion, requests and matches, properties and images |
| `Marketplace`, `MCMarketplace` | the composition of the four over one database and one Redis |
| `MarketplaceProofs` | theorems about `Marketplace`: access, windows, conversations |
| `InboxProofs` | the order of calls, read marks, preferences |
| `CatalogueProofs` | agencies, images, listings, matches, clients, the types of all tables |

Definitions named `...Not`, `...Unkeyed`, `...OffByOne` and the like, commented
"Defect", are deliberately wrong variants; replacing the real definition by one
of them makes the property it belongs to fail, which shows the property can fail.

### JobQueue

A step is one committed transaction or one Redis command, because the code
awaits each. `status` and `attempts` are the row, identified with its unique
`idempotency_key`; `queue`, `retry`, `deadList` are the Redis keys; `pc`, `cur`
and `snap` are the position and the local variables of `processOne`; `due`,
`reaped` and `pushes` are those of the interval's `runScheduler` and
`requeuePending`, which run concurrently with the poll loop of the same process.
`waking[p]` is an API request between COMMIT and push. Time is a choice: any row
or retry member may qualify as old enough; `LateRestart` says that a restarted
worker finds every abandoned row older than `staleJobMs`.

Faults are counted by `faults` and selected by `FaultKinds`: a transaction rolled
back ("db"), committed with the reply lost ("commit"), a Redis command failing
("redis"), the same while starting ("startup"), Redis losing its data ("flush"),
a crash or shutdown of a worker ("crash"). A failing start leaves the process
"stuck": it keeps its heartbeat and processes nothing.

`queue` is bounded by `QueueBound`: beyond it no further copy of an id that is
already waiting is added. Duplicates are otherwise unlimited.

### BudgetState and BudgetController

A reservation id stands for its request. Usage is a function of five dimensions;
"tokens" stands for input and output tokens, which are limited the same way. The
total of a scope is the number of units charged in it (the reserve while active,
the actual usage once settled, nothing once released), which is the sum the code
keeps. `Ceilings` gives the least configured ceiling for each kind of scope, -1
for one that is not configured.

A controller transition is validation followed by an awaited append; the promise
queue of `serializeTransition` is the guard `Serialized` (its order is left
open). A failing append may have written nothing, everything, or a torn record,
after which replay refuses the file (`corrupt`). Other ledger events matter only
through what their failing append does to the file. `Crash` may leave a pending
append in any of these states. `billed` records that the provider did billable
work, which no code can see after a time-out.

Not modelled: sums beyond `MAX_SAFE_INTEGER` (the code rejects the transition),
`quote()` (changes nothing), the price arithmetic (usage and cost are chosen
independently, which allows more than the code does).

### Billing

A webhook's transaction is split at the insert of its event row, the read of the
subscription and the write with COMMIT. `Locked` is the unique key on
(provider, event id): a second transaction waits for the first. `Record` ends the
delivery when the event is known (duplicate) and when no subscription is found,
since the fallback user id violates the foreign key. An event without a payment
id takes that path always and is not represented. An event that names
another amount or currency than the plan's is `Mismatched`; one that names none is not
compared with anything (`service.ts:411-412`), so `ActiveWasPaid` says "no other price"
and not "the plan's price". `Activate` writes by row id
whatever the row has become since it was read, and sets all payment rows of the
payment to succeeded. `jobs` holds job keys: `InsertJob` adds nothing for a key that is
known, and `StateNotified` therefore speaks of the first change of a subscription to a
state. The override moves the user's newest row to
provider 'admin', which webhooks no longer find.

### VerifiedCache

Several runtimes (processes) share a directory and a ledger file. `dir` holds the
immutable entries, `temps` the temporary files, `ledger` the entries whose write
event is in the file; `events[r]` is what runtime r replayed when it was opened
plus what it wrote, and `queue[r]` who is in `CacheStorage`'s queue. A call goes
through the checks of `cache-runtime.ts` in their order: source lineage, sibling
outcome and evidence, authorisation, target, temporary file, rename, ledger
event; a lookup through head, conflict, write event and reuse record. Every one
of these may be interleaved with the other runtime's. An append may fail before
or after the rename, with the temporary file removed or left; a ledger append may
leave nothing, the record or a torn line. `StoreDirectly` is somebody else who
puts a well-formed verified entry into the directory, which the design expects
the ledger to catch. Metadata stands for what the key is derived from, an id for
hash and event id.

What the model makes visible and no document mentions: a crash that leaves a
`.tmp` file makes its key directory unreadable for good; the approval to persist
sensitive data is read only when the runtime is opened; `begin` refuses a key that
has a lineage, so an outcome that has expired is never computed again. None of
these breaks a property of the cache: each ends in a miss or an error.

### CostRouter

A call of `AiExecutor.execute` waits in `evaluationQueue`, replays the ledger
(`seen[c]` is the prefix it saw), asks the cache, chooses the route, asks for a
quote, records its decision and, outside the queue, executes it. `Record` appends
any event of another component at any moment. The verdict of cache and budget is
a choice, since it depends on state of theirs. `ledger` holds what routing reads; the
router's own decisions are in `audited`. Reasons and transition traces are left
out, since nothing depends on them.

The adapters write their attempt events with a task id and prompt hash of their
own, and nothing in `src/` records a healthy cloud provider; the events of
`External` are therefore those of the clients of the ledger that the tests and the
design describe, not those of the adapters. Health is recorded per provider and model;
that of another model than the configured one does not count.

`EscalationHasCause` asks for what the code asks for: an event that reports a local
failure as insufficient. It does not ask whether that failure was verified.

`RepeatedAt`, by which `StopsRepeating` judges a ledger, compares the evidence of the
two last failures as `hasRepeatedFailure` does, each hash as many times as it was
recorded: evidence a, a, b is not that of a, b, b, and the router goes on.

### ApiCalls, Accounts, Messaging, Catalogue, Marketplace

A call is one HTTP request; `pc[c]` is the next transaction or Redis command of its
handler, `actor[c]` the user it runs as, `mem[c]` what it has read and `wrote[c]` what
it committed. A transaction is one step unless READ COMMITTED lets
another one in between two of its statements that matter. `ApiCalls` has the steps
before the handler; the three service modules add their tables and handlers, and
`Marketplace` interleaves calls of all of them. A fault aborts a call (roll-back,
failing Redis command, end of the process). `after` and `Overlap` record which
calls were in progress at the same time, so that a property can say "unless
concurrent". `OldSessions`, `OldMembers` and the like are the rows at the start.
`ListingRows`, `RequestRows` and the like are the types of the tables' rows;
`WellFormed` says what the schemas of the routes let through, so every request of a
workload satisfies it. `TextAssumption` only tells the provers that the words the
operations write are strings.

Some properties name the exceptions the code has, as narrowly as
they hold:

- `ReplacesEarlier`: two primary images, or the matches of two evaluations, coexist
  only after calls that overlapped (`properties/service.ts:317`,
  `matching/service.ts:314`).
- `KeepsEarlier`: a read mark goes back, and a preference is lost, only by an
  overlapping call of the same user (`messaging/service.ts:288`,
  `notifications/service.ts:127`).
- `NothingHalfMade`: an agency lacks its owner only if the call was cut between the
  two transactions of `createAgency`. A listing that no external listing points to
  is left only by an ingestion that had already created its listing when it met the
  row of another one, because the two overlapped or the row had come with another
  URL, from a call or before the start (`MetAnother`): a re-ingestion with a changed URL
  and no matching phone does not find the listing,
  creates a second one, meets the row and updates the second instead of the first
  (`ingestion/service.ts:362-431`). Identical payloads that come one after the other
  leave one listing. At the same time they need not: run `ingest_twins`.
- `WindowExpires`: a counter never expires after a Redis command whose reply was
  lost, or a process that ended, between INCR and PEXPIRE (`CutShort`): only the call that
  reads 1 sends PEXPIRE. Each such fault deprives at most one counter of its expiry, and no
  race of calls does. Its client is refused from then on: run `rate_limit_blip`.

## 3. Model-checking runs

| Run | Instance | Shows |
|---|---|---|
| `job_safety` | two workers, one job, two attempts, two faults of any kind | `NoPhantomIds`, `CompletedWasHandled`, `NotifiedAtMostOnce`, `DeadOnlyWhenExhausted` |
| `job_liveness` | one worker, one good and one poison job, one survivable fault | `ImplementsContract`, `EventuallySettled` |
| `job_fast_restart` | one worker killed once, restarted before `staleJobMs` | violation of `EventuallySettled` |
| `budget_safety` | a cloud call and a local retry of one task, two days | `LedgerReplayable`, `MemoryIsLedger`, `LimitsHold`, `BilledWasReserved`, `HoldsHaveOwners` |
| `budget_cloud` | two cloud calls, one automatic, room for one a day | `LimitsHold`, `AutomaticOnlyWhenClean`, `CallsFinish` |
| `budget_cloud_wall_time` | two cloud calls | violation of `OverrunIsReal` |
| `billing` | one checkout; a payment event without an amount, one with another amount, a cancelling and an unknown event; two deliveries at a time; one rollback, one override | `ActiveWasPaid`, `AppliedOnce`, `RecordedPaymentApplied`, `StateNotified`, `AlertsWerePaid`, `EventuallyRecorded` |
| `verified_cache` | two runtimes with a call each, one key, good and bad evidence, a cacheable and a transient failure, four entries, one fault, entries from outside | `OneOutcomeServed`, `ServedWasPublished`, `QueueHasWriter` |
| `cost_router` | two calls, four requests, four providers, six kinds of events of which two are appended, one fault | `InvokedWasAudited`, `RevocationRespected`, `StopsRepeating`, `EscalationHasCause`, `EvaluationsAnswered` |
| `marketplace` | three calls of one of eight workloads, two calls per window, one fault | `LockedOut`, `WindowExpires`, `OneConversation`, `ReplacesEarlier`, `KeepsEarlier`, `NothingHalfMade` |
| `rate_limit_blip` | one client, one lost reply | violation of `BlocksEnd` |
| `ingest_twins` | two identical ingestions at the same time | violation of `IdenticalLeaveNoOrphans` |

One passing run of each module also checks its `TypeOK`.

**Bounds.** The races of the queue are between two holders of one id, so two
workers and one job reach them; two attempts distinguish retry from burial; two
faults allow a fault while the first one is being recovered. Two reservations are
the fewest that compete for a ceiling, two days the fewest that tell the day of
the reservation from that of the settlement, and one unit of room makes every
ceiling bite. For billing two deliveries race for one event or for one
subscription; whether the payment event names the plan's price or none makes no difference
to the code, so one of them stands for both. In the cache four entries make a whole lineage (pending, unverified,
verified) and one entry that competes with it, from the other runtime or from
outside. The router's ledger starts with an approved, healthy system in which one
attempt has failed; two more events are the fewest that revoke and re-grant, or
fail again and bring new evidence, between the steps of a call. For the API two
calls race and a third sees the result; the workloads group the requests that
touch the same rows, since calls of different groups share only the pre-handlers.
The theorems below do not depend on these bounds.

Deadlock is not checked where a run may stop because its bounded calls, entries
or events are used up.

**Fairness.** `JobQueue`: a worker that is down is started (service manager), the
poll loop and the interval never stop, every stale queued row is selected by some
tick (`LIMIT 500` is not reached for ever) and every push is attempted. Nothing is
assumed of requests, crashes and faults. `BudgetController`: appends return and a
started call goes on, since its fetch ends at the latest with the timer. `Billing`:
transactions end, and the provider repeats an event until it is acknowledged
(strong fairness, because both request slots may be busy in between). `CostRouter`:
every call's evaluation and execution goes on, since each awaited promise (replay,
lookup, quote, append, provider call) settles; appends may fail.

**The disagreements with the documentation.**

1. `job_fast_restart`: `recoverStale` runs only at start and only for rows older
   than `staleJobMs`. A worker killed while it runs a job and restarted sooner
   leaves the row `processing`, and `requeuePending` selects `queued` rows only.
   `docs/audit/redis-recovery-acceptance.md:74` says a job "is never lost".
   `job_liveness` shows that with a late restart it is not.
2. `budget_cloud_wall_time`: the cloud adapter reports latency as local wall-time,
   of which a cloud call reserves none, so a successful call counts as an overrun
   and opens the discrepancy circuit.
3. `rate_limit_blip`: when the reply to INCR is lost after Redis has applied it, or
   PEXPIRE fails, the request is let through but the counter never expires, and once it
   passes the limit the client is blocked for good. `rate-limit.ts:33-34` says "a
   false-positive block on a Redis blip is worse than a brief window of unlimited
   requests".
4. `ingest_twins`: of two ingestions of one payload, the one that has created its listing
   and then finds the external listing the other has just committed takes the update
   branch (`ingestion/service.ts:389-393`), which does not remove the new listing.
   `apps/api/test/ingestion.integration.test.ts:187` is called "does not leave orphan
   canonical listings under concurrent identical ingestion"; it holds both calls back at
   their insert and so never takes that branch.

Others were met while modelling and have no run, either because one line of the code
shows them or because a passing run already explores the state:

- An event without an amount activates a subscription (`billing/service.ts:411-412`,
  `billing/provider.ts:115-118`), while `docs/deployment/provisioning-checklist.md:49` says
  "amount-checked". Run `billing` has only such an event to pay with.
- A subscription that is activated a second time gets no second job, since the key
  `sub:activated:<id>` is known (`billing/service.ts:453`, `queue/outbox.ts:42`), while
  `HANDOFF_PART4B.md:20` says that the event "enqueues a `notification.deliver` job".
- `hasRouteInsufficiency` (`routing-state.ts:115`) looks at no verification event, while
  the router's design (`2026-08-09-ai-cost-router-dry-run-design.md:145`) says insufficiency
  "must be supported by validated prior attempt and verification evidence from the ledger".
  The first failure that is reported as insufficient escalates; only a second one needs
  evidence (`StopsRepeating`), and only when its error and diff are named.
- With two workers the scheduler resets a row that is being processed and the final writes
  have no status test, so a completed job can be run and changed again, while
  `docs/audit/redis-recovery-acceptance.md` says it "is processed exactly once".
  `ImplementsContract` with `JobQueueSafety.cfg`'s two workers shows it; the notification is
  still created once (`NotifiedAtMostOnce`, proved), and with one worker the contract
  holds (proved).
- Every error of a provider call releases its reservation, also a time-out after the
  provider did the work, while the design describes `release()` as being for a reservation
  "known not to have produced billable usage".

`HoldsHaveOwners` names one exception the code has: a cloud call whose
AttemptStarted record cannot be written keeps its reservation, and until the next
restart that reservation does not block automatic calls.
`EventuallyRecorded` names another: once an admin has overridden a subscription,
the provider's events for it can never be recorded.

## 4. Proofs

`JobQueueProofs`, for any jobs, workers, requests, attempts and faults:

- `TypeCorrect`: `TypeOK`, and that a worker in the middle of a job holds one.
- `EffectsSafe`: `CompletedWasHandled` and `NotifiedAtMostOnce`. The invariant
  adds that a worker about to write `completed` works on a job whose handler has
  committed, which is stable because effects are never undone.
- `AttemptsSafe`: `DeadOnlyWhenExhausted`. The invariant adds that the snapshot of
  attempts a worker will write back is below `MaxAttempts`, so no overwrite,
  however late, takes a live row to the limit.
- `CompletionsHandled`: `CompletedWasHandled` by itself.
- `NoPhantoms`: `NoPhantomIds`, from type correctness: no step removes a row.
- `OneWorkerImplementsContract`: under `SoleWorker` (one worker process) and
  `NoLostReply` (no "commit" fault) every step is a step of `JobContract` or a
  stutter. The invariant relates the worker's position to the row: what it is
  about to complete or fail is not terminal, and while it runs a handler the row
  is live. Without these assumptions the statement is false (see the disagreements).

`BudgetProofs`, for any requests, ceilings, days and number of calls:

- `TypeCorrect`: `TypeOK`.
- `BudgetSafe`: the inductive invariant `BudgetInv`. It strengthens the
  properties by `PendingValid` (the transition that is being appended was
  validated against the events that are still in memory and in the file) and
  `CallsReserved` (a call past `reserve()` has its event in the file); without
  the former nothing is known of the event an append writes.
- `AlwaysReplayable`, `MemoryFollowsLedger`, `CeilingsHold`, `NoUnreservedCall`:
  `LedgerReplayable`, `MemoryIsLedger`, `LimitsHold`, `BilledWasReserved`. For the
  ceilings, closing a reservation without overrun only removes units from a scope
  (a subset of a finite set has no larger cardinality), and a new reservation
  adds units only to scopes that were tested.
- `OwnersKnown`, `HoldsOwned`, `AutomaticWhenClean`: the invariant `OwnerInv`,
  `HoldsHaveOwners` and `AutomaticOnlyWhenClean`. The invariant narrows the positions
  in which a call may hold an active reservation (after a settlement or release it
  no longer does) and says that a pending automatic reservation passed its tests on
  what is still the state.

`BillingProofs`, for any users, payments, events, concurrent deliveries, rollbacks
and overrides:

- `TypeCorrect`: `TypeOK`, and that a delivery in progress has an event.
- `WebhookSafe`: the inductive invariant `WebhookInv`. Its strengthening is
  `OpenValid` (a transaction that has inserted its event row is the only one for
  that event, the row is not yet visible, the subscription exists, and one about
  to activate reports a payment and names no other price) with `AppliedRecorded` (an event with an effect is
  recorded). The unique key gives the first part; without it two deliveries of
  one event could both apply it.
- `EventsApplyOnce`, `OnlyPaidActive`, `NoPaymentSwallowed`, `StatesNotified`:
  `AppliedOnce`, `ActiveWasPaid`, `RecordedPaymentApplied`, `StateNotified`. They do not
  say that the price was named, nor that a second activation is notified; the code
  guarantees neither.
- `AlertsPaid`: `AlertsWerePaid`. The invariant `AlertInv` adds that who has passed
  the entitlement test was granted a plan too, and that a row without a payment is
  an admin's; grants never shrink, so a stale test does no harm.

`CacheProofs`, for any runtimes, calls, keys, results, evidence, entries and faults:

- `TypeCorrect`: `TypeOK`.
- `ServedSafe`: `ServedWasPublished`. `VouchInv` says that only entries that passed
  the checks have a write event, in the file or in a runtime's memory, and that a
  call past a check still satisfies it; directory and ledger only grow (`Grows`).
- `OutcomesAgree`: `OneOutcomeServed`. `OutcomeInv` orders lookups: of two that found
  something for a key, the later one read the directory when the earlier one's entry
  was in it, and a lineage with two ends or a sibling outcome is refused.
- `QueueNeverAbandoned`: `QueueHasWriter`. `QueueInv` adds that submitted entries
  have distinct ids, so no call removes another one's temporary file.

`RouterProofs`, for any calls, requests, configuration, events and faults:

- `RouterSafe`: the inductive invariant `RouterInv`: what a call decided follows from
  the prefix of the ledger it replayed, that prefix ends after the call was made,
  and a call about to execute is audited. A prefix does not change when the ledger
  grows, which is what makes the decision stable while others append.
- `RepetitionStops`: `StopsRepeating`. The invariant adds that a call past its
  decision may use its provider (`MayUse`), hence found no repeated failure in the
  prefix it saw. `RepeatedIsFound` shows that the last two failures by position are
  the two of `RepeatedAt`.
- `TypeCorrect`, `NothingUnaudited`, `ApprovalsInForce`, `EscalationJustified`:
  `TypeOK`, `InvokedWasAudited`, `RevocationRespected`, `EscalationHasCause`.

`MarketplaceProofs`, for any calls, users, tables, workloads and faults:

- `AccessSafe`, `AccessDenied`, `WindowsEnd`: the invariant `AccessInv`, `LockedOut`
  and `WindowExpires`. All handlers are first shown to have one shape (they start
  from a position behind the pre-handlers and leave counters and sessions alone
  unless they are login, logout or a status change); the invariant then needs one
  argument for all of them. Its strengthening says that a barred call has no right
  by the present tables either, and that there are never more counters without an expiry
  (`Deprived`) than faults of that kind have happened.
- `TalkSafe`, `ConversationsUnique`: the invariant `TalkInv` and `OneConversation`. A
  conversation's key is the sorted pair of its participants, inserted in one
  transaction, and a message's jobs are committed with it.

`InboxProofs`, under the same generality:

- `OrderSafe`: the invariant `Ordered`: a call comes after another only if that one
  had ended when it was made, a call's write is its last step, and what it asks is
  well-formed. Every step is first shown to be a `Step(c)` of one call, which leaves
  the other calls alone. The arguments about overlapping calls rest on this.
- `MarkSafe`, `PrefsSafe`, `EarlierKept`: the invariants `MarkInv` and `PrefsInv`, and
  `KeepsEarlier`. `MarkInv` adds that a reader about to write has read a time that is
  no earlier than the marks of the calls before it, which holds because messages are
  never removed; `PrefsInv` that the row a call has read and will write back reflects
  the calls before it. A call that is not before it overlaps with it.

`CatalogueProofs`, likewise:

- `AgencySafe`, `ListingSafe`, `NothingHalf`: the invariants `AgencyInv` and `ListingInv`,
  and `NothingHalfMade`. Between the two transactions of `createAgency` the agency has
  no member, because adding one needs a member. For listings the invariant adds that
  the URL of an external listing is one it came with (`Known`), and that a call that
  has found nothing by URL either has no row to meet or has met another (`Excused`).
- `ImageSafe`, `MatchSafe`, `EarlierReplaced`: the invariants `ImageInv` and `MatchInv`,
  and `ReplacesEarlier`. A call about to insert has reset the images, or deleted the
  matches, of every call before it.
- `ClientSafe`, `TypeCorrect`: users, sessions, counters and faults, and with the
  invariants above `Marketplace`'s `TypeOK`. It is proved last because what a handler
  holds in `mem` is typed only by the invariants: `Matching`, for instance, says that
  the listings it found exist.

Two proofs failed at first because the statement was wrong, not the code. `NothingHalfMade` did not allow for an external listing that exists at the
start and is ingested again with a changed URL; `StopsRepeating` compared evidence as a set
with a total. Both now say what the code does, and `NothingHalfMade` is narrower in
another respect: it excuses another URL only, not any difference between two bodies.

The assumptions are the named `ASSUME`s of the modules: sets are finite where
totals are counted, a request is one call, a cloud request reserves no wall-time,
every route has a provider, conversations at the start are sorted pairs, a user is at
the start a member of an agency once, requests are well-formed, and the ids and marks
that the model invents (`None` for no row, "old" for a row of the start, a call for
the row it inserted) are different from each other and from the rows.

Only model-checked: `EventuallySettled`, `CallsFinish`, `EventuallyRecorded` and
`EvaluationsAnswered`, since they need fairness. Every invariant and action property of
the passing runs is proved, `ImplementsContract` under the two assumptions named above.

## 5. Left to do

1. An abstract cache, a partial function from keys to verified results that never
   changes a value, that `VerifiedCache` refines; today `OneOutcomeServed` and
   `ServedWasPublished` say this as invariants.
2. `SingleFlight`; the do-not-disturb window of the notification handler; the
   composition of `CostRouter` with `BudgetController` over one ledger.

## 6. Running

    tlc -workers 2 -config JobQueueSafety.cfg MCJobQueue
    tlapm JobQueueProofs.tla

`PROJECT.json` lists the components, the runs with what they show, the wrong
variants, the source lines of every definition, the hazards and the theorems.
