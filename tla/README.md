# GoFastr: verification of the queue, scheduler, outbox and idempotency keys

TLA+ models of GoFastr's background work, TLC configurations that check them
on small instances, and TLAPS proofs for every instance. Paths below are
relative to the repository (`src/`).

GoFastr is a Go web framework: routing, entities and CRUD, a UI layer, code
generation, and *batteries* (queue, webhook, cache, auth, mail, ...). Most of it
is request-scoped and sequential. What is concurrent, persistent and retried, and
therefore worth a model, is the machinery that does work after the request is
over, and the middleware that makes a retried request safe. Four parts are
modelled: `DBQueue`, a lease-based queue in one SQL table shared by any number of
processes; `DurableScheduler`, whose replicas elect a leader by a fenced lease and
fire recurring schedules into that queue; the transactional outbox of
`framework/outbox`, whose relays deliver each event to each declared consumer; and
the idempotency keys of `core/middleware`, with both of their stores.

## Inventory

| Part | Source | State | Operations | Interacts with | Hard because | Correct when |
|---|---|---|---|---|---|---|
| **DBQueue** | `battery/queue/db.go` | one table row per job (status, attempts, scheduled_at, claimed_at, claim_token); per process: handlers, gate, lease, lastPrune, stop | Enqueue, Dequeue (sweep, prune, claim), Ack, Nack, release, Replay, sweepUserJobs, RegisterHandler, SetGate, SetLeaseTimeout, Start, Close | DurableScheduler (`enqueueWith`), handlers (callback), admin (Replay), erasure | leases expire under running handlers; settles come late; two-statement nack and sweep; crash or shutdown between any two statements | retry budget kept, claims exclusive inside the lease, nothing stranded, lost, revived or doubled |
| **Queue / Replayable** | `battery/queue/queue.go` | a job's phase | the same, abstractly | every backend | what callers may rely on | backends implement it |
| **Backoff** | `core/backoff` | none | Exponential, At | DBQueue.nack, outbox relay, webhook sink | int64 overflow, clamp order | documented formula for every attempt |
| MemoryQueue | `battery/queue/memory.go` | heap of pending jobs, in-flight map, retained dead letters, four mutexes in a fixed order | the Queue operations, drain on Close, retry timers, erase | handlers, Scheduler | lock sections interleave; retry timers fire after Close; erase races a running job | one owner per job, drain completes, erased jobs stay erased |
| RedisQueue | `battery/queue/redis.go` | pending and processing sets, claim hashes, dead list; Lua scripts | the Queue operations, reclaim of expired claims | Redis (external) | lost replies, reclaim beside a late Ack, multi-key scripts | as DBQueue, without unique keys |
| Scheduler | `battery/queue/scheduler.go` | entries with next fire time | Every, Cron, Start, erase | Queue.Enqueue | tick beside erase and beside Stop | no tick after erase |
| **DurableScheduler** | `battery/queue/durable_scheduler*.go` | schedule rows, occurrence rows, one lease row with a fence | RegisterAt, RunOnce (acquireLease, loadDue, commitOccurrences, sweepOccurrences), Start | DBQueue in one transaction; EraseUserData | a deposed leader commits late; catch-up after downtime; retention deletes what deduplicates | each tick on record soon and enqueued at most once, from the current definition, beside no active job |
| **Outbox** | `framework/outbox` | event rows (parents), one delivery row per event and consumer with attempts, next_attempt and claimed_until; per relay: the consumers its release declares, the batch it holds | AppendFor (in the caller's tx), pump: expandDeliveries, sweepParents, purgeExpired, claimDeliveries, processDelivery, releaseUnstarted; Replay, StartRelay | entity hooks, consumers (callback), backoff, rolling deploys | a batch shares one lease; relays overrun it; releases disagree about the consumers; expansion, completion and retention write what a snapshot selected | every declared consumer of every event is served within its budget, and nothing is lost, revived or orphaned |
| Webhooks | `battery/webhook` | endpoints, deliveries, inbound dedupe table | Publish, deliver, retry, replay, inbound accept | outbox bridge, queue | retry beside manual replay, duplicate inbound deliveries | one delivery record per event and endpoint; an inbound event is accepted once |
| **Idempotency** | `core/middleware/idempotency*.go` | a row per key: fingerprint, response or none while in flight, expires_at; memory: LRU rank and cap; SQL: lastReapUnix | Begin (replay, 409, 422, claim), Finish (keep or release), reap, evict, erase | HTTP handlers, erasure | retries race the first run; the claim expires under a slow handler; Begin is five statements against one clock reading; crash with the key held | one execution at a time, one kept response per window, a replay is of the same request, no key locked for long |
| Cron leader | `framework/cron` | advisory lock on a pinned connection | acquire, tick, lose | Postgres (external) | connection lost while the tick runs | one leader at a time |
| Fan-out | `core/fanout`, `core/stream` | bounded subscriber queues | publish, subscribe, drop | SSE and websocket clients | slow subscriber, close beside publish | bounded memory, no send on a closed channel |
| Lifecycle, process modules, cache, relay, erasure | `framework/lifecycle`, `framework/processmodule_supervisor.go`, `battery/cache`, `battery/relay`, `framework/erase_data.go` | small | start, stop, supervise, invalidate | the whole application | ordering of shutdown, respawn | see plan |

Left aside: request-scoped code (router, CRUD, rendering, `core-ui`,
`framework/ui`), code generation and analyzers, the desktop bindings, examples and
assets. They keep no state that outlives a request, or are not concurrent, or are
generated.

## Modules

| Module | Models | EXTENDS / INSTANCE |
|---|---|---|
| `JobQueue` | what `Queue` and `Replayable` promise: the phases of a job and the moves between them | - |
| `DBQueue` | `battery/queue/db.go`, `enqueueWith` of `durable_scheduler.go`, `invoke.go` | INSTANCE `JobQueue` with the row's status as phase |
| `Backoff` | `core/backoff.Exponential` | - |
| `DBQueueBackoff` | the ideal delay to compare `Backoff` with, for the attempts of the jobs | EXTENDS `DBQueue`, `Backoff` |
| `MCDBQueue` | instances of `DBQueue` | EXTENDS `DBQueueBackoff` |
| `DBQueueProofs` | theorems about `DBQueue`: its inductive invariant, claims and the refinement | EXTENDS `DBQueue`, TLAPS |
| `DBQueueRunsProofs` | theorems about its workers (what they are handed, how often handlers start) and about the retry delay | EXTENDS `DBQueueProofs`, `DBQueueBackoff` |
| `DurableScheduler` | `battery/queue/durable_scheduler*.go`, and of `framework/erase_data.go` the two statements that meet it | INSTANCE `JobQueue` for the jobs it fires |
| `SchedulerLoop` | `DurableScheduler.Start`: when passes run | EXTENDS `DurableScheduler` |
| `MCScheduler`, `MCSchedulerLoop` | instances of the two | EXTEND them |
| `DurableSchedulerProofs`, `SchedulerLoopProofs` | theorems about the two | EXTEND them |
| `Outbox` | `framework/outbox`: tables, pump, settles, Replay, processes and releases | - |
| `OutboxRuns` | an observer of `Outbox` that counts handler starts and notes late expansions | EXTENDS `Outbox` |
| `OutboxLoop` | `relayLoop`: when a relay pumps, and a rolling deploy | EXTENDS `Outbox` |
| `MCOutbox`, `MCOutboxLoop` | instances of `OutboxRuns` and `OutboxLoop` | EXTEND them, INSTANCE `Backoff` for the retry delay |
| `OutboxProofs`, `OutboxRunsProofs`, `OutboxLoopProofs` | theorems about `Outbox`, `OutboxRuns` and `OutboxLoop` | EXTEND them |
| `Idempotency` | the middleware of `core/middleware/idempotency.go` and its memory and SQL stores | - |
| `MCIdempotency` | instances of it | EXTENDS `Idempotency` |
| `IdempotencyProofs` | theorems about it | EXTENDS `Idempotency` |

### DBQueue: state and steps

The table is `rows`, a function from job ID to a row: `status` (with `absent` for
no row), `attempts`, `delay` (scheduled_at minus now, 0 once it has passed), `age`
(time since the claim of a claimed row, since the Ack of a done row) and `token`
(claim_token). The immutable columns (type, lane, priority, created_at, unique_key,
max_attempts, user_id) are constants, one value per job. Relative times make the
state finite with no bound on the clock, because the code only ever compares a
timestamp with now; `age` stops at the largest value a comparison can tell apart.

An *actor* is a worker goroutine (each in a process of its own, so that a crash
takes one down) or a caller of the public `Dequeue`/`Ack`/`Nack`. Its program
counter and memory are `pc`, `job`, `token`, `types` (the filter of this poll),
`found` (what the sweep selected), `seen` (the attempts nack read) and `ran` (time
in the handler). `lease`, `handlers` and `gated` are the settings the code guards
with `q.mu`; the processes of a deployment share one configuration.

**Grain.** One SQL statement, or one `BEGIN IMMEDIATE` transaction, is one action.
Between two statements of one actor anything may happen: this is where nack's
SELECT and UPDATE, the sweep's SELECT and its UPDATEs, and the claim and the start
of the handler come apart.

| Code | Actions |
|---|---|
| `Enqueue` → `enqueueWith` | `Enqueue` (a refused insert changes nothing and is no step) |
| `dequeue` | `Poll` (types and the sweep's SELECT), `SweepOne` per found row, `PruneDone`, then `Claim` or `ClaimNone` |
| `workerLoop` after the claim | `HandBack` (gate closed, or context ended) or `Begin`; the no-handler branch is shown unreachable (`NeverDropped`) |
| `runHandler`, `invokeRecovering` | `Return` (nil or error), `TimeOut` |
| `Ack`, `nack` | `Ack`; `Nack` without backoff; `NackRead`, `NackWrite` with backoff |
| `Replay`, `sweepUserJobs`, `RegisterHandler`, `SetGate`, `SetLeaseTimeout` | the actions of those names |
| `Close`, end of the context, `Start`, `superviseWorker` | `Shutdown`, `Exit`, `Start` |
| failures | `Crash`, `DequeueFails`, `ClaimLost` (committed, answer lost), `SettleFails` |

Claim tokens are 128-bit random IDs; `FreshToken` is any value not in use, which is
what the code relies on. `Tokens` is finite in an instance and large enough that the
guard `TokensLeft` never bites (deadlock checking and the liveness runs would show
it). The sweep's second check compares `claimed_at` with the old cutoff; a row
re-claimed since then is younger, which in relative time is another token.

### DurableScheduler: state and steps

The three tables are `lease` (one row; fence 0 before it exists), `sched` (watermark
`next_run`, `version`, definition) and `occ` (status, claim_fence, created_at of each
schedule and tick). An occurrence ID hashes the schedule and the tick, so the pair is
the ID, and the job a tick fires has the same ID. A replica's pass keeps `at` (the
clock it read once, as `runOnce` does with `now`), `fence`, `plan` (the rows `loadDue`
returned) and `todo`.

| Code | Actions |
|---|---|
| `RegisterAt` | `Register` |
| `acquireLease` | `TakeLease` (INSERT, or UPDATE of an expired lease), `Heartbeat`, `Confirm` (the SELECT) |
| `loadDue` | `Load` |
| `runOnce` loop, `commitOccurrences` | `Commit` per schedule, one transaction; `Skip` when the row does not evaluate or a check finds no row |
| `sweepOccurrences` | `SweepOccurrences`, then `Return` |
| `EraseUserData` | `EraseJobs`, `EraseSchedules`: two DELETEs of one transaction, in the order of the erasers' names |
| `Start`, `nextWakeDelay` | `WakeUp`, `Sleep`, `RegisterAndWake`, `StartAgain` of `SchedulerLoop` |
| failures | `PassFails`, `CommitLost` (committed, answer lost), `Crash`, `Restart` |

The lease row is never deleted, so the conflicting INSERT and the UPDATE after it can
be one action; the UPDATE, the heartbeat and the SELECT are three. What happens to a
job once it is fired is any step `JobQueue` allows (`QueueStep`): `DBQueue` implements
`JobQueue`, so whatever holds here holds with the real queue. The two erasure
statements come apart as they do under READ COMMITTED; rows the first has deleted are
locked until the second commits.

A minute is the unit of time, the grain of a cron spec. A cron cadence is a residue
class of minutes, an interval counts from the watermark (`BoundedDueTicks`, with its
catch-up cap, and `NextRun`). Time zones and DST (`durable_scheduler_dst.go`) only
decide which instants a spec names and are left out.

`SchedulerLoop` asks a question of timing, so there a pass takes no time: the clock
moves only when every running replica is asleep, and not while all are down (`Served`).
Jobs stay as committed, since whether a tick is on record does not depend on its job.
`since` is history: what the ticks of a schedule are counted from, which is its
registration or, when another cadence replaces the old one, the watermark at that time
(`Anchor`).

### Outbox: state and steps

`parent` is event_outbox, `delivery` event_outbox_delivery with one row per event and
consumer name. A relay is the relay goroutine of one process: `release` fixes the
consumers it declares, `cancelled` is the end of its context, `at` the clock the
function in progress read, `todo`, `adding` and `chosen` the progress of phase 1, `batch` the
claims it holds, `started` when the current handler started. `claimed_until` is both
the lease and the fence of each settle, and the claim remembers it.

| Code | Actions |
|---|---|
| `AppendFor` | `AppendFor` |
| `pump`, phase 1 | `Pump`; per consumer `ExpandRead`, `ExpandWrite`; `DropOrphans`, `CompleteRead`, each followed by `CompleteWrite`; `PurgeDeliveries`, `PurgeParentsRead`, `PurgeParentsWrite` |
| `claimDeliveries` | `SweepExhausted`, `ClaimDeliveries` |
| `pump`, the batch; `processDelivery` | `ReleaseUnstarted`, `Begin`, `Return`, `TimeOut`, `AbandonUnhandled`, `RequeueUnhandled` |
| `markDeliveryDispatched`, `markDeliveryFailure`, `completeParent` | `MarkDispatched`, `MarkFailure`, then the completion again |
| `Replay` | `Replay` |
| `relayLoop`, `Nudge`, `StartRelay` | `Exit`, `Restart`; in `OutboxLoop`: `Wake`, `WorkOn`, `StageAndNudge`, `StartRelay`, `Replaced` |
| failures | `Cancel`, `Crash`, `PumpFails`, `ClaimLost` (committed, answer lost), `SettleFails` (the statement failed or its settle context expired) |

One statement is one action, except where it asks about rows it does not write: the
expansion (INSERT ... SELECT), the marking of events as dispatched, and the DELETE of
events are two each. Under READ COMMITTED their subqueries read a snapshot, and what it
selected is written after other transactions may have committed; an UPDATE or DELETE
checks the columns of its own row again, an INSERT only the conflict on its key. The
DELETE of deliveries stays one step: it takes delivered rows of a completed event, which
nothing but another purge changes, and a delivery added after its snapshot is not among
them. SQLite serialises statements, which is the case in which nothing comes between.
The claim needs no split: Postgres locks the rows it selects (FOR UPDATE SKIP LOCKED) and
SQLite opens the transaction as a writer.

`OutboxLoop` asks about timing. Statements take no time there, a handler at most its
budget, and the clock waits for every relay that has something to do. It also stops
where the deployment would break what the code asks of it: the service stays up once
it is up, and the old release is gone before the handler grace ends (`Overlap <
HandlerGrace`, what `WithHandlerGrace` says the grace is for).

### Idempotency: state and steps

`entry` is the store: a key's fingerprint, the response kept (named by the request
that produced it) or none while in flight, the expiry, and the LRU rank of the memory
store. A request is used once; a client's retry is another request. Its record holds
where it is, its key and fingerprint, `at` (the clock Begin read), and as history when
it claimed, when it finished and what it was answered. `exposed` and `forgotten` are
auxiliary: keys that lost a live claim, or a live response, to an event the code does
not promise to survive.

| Code | Actions |
|---|---|
| middleware up to `Begin` | `Arrive` |
| memory `Begin`, `evictLocked`, `Finish` | `MemoryBegin`, `MemoryFinish`: the mutex is held throughout |
| SQL `Begin` | `SQLBegin` (compare-and-swap on lastReapUnix), `Reap`, `Insert`, `Read`, `Clear`, `InsertAgain` |
| SQL `Finish` | `SQLFinish` |
| the handler and what is recorded of it | `Handle`: a response to keep, one over the memory store's entry cap, or a release (other status, panic, streamed, overflow); `HandleUnkeyed` under FailOpen |
| `EraseUserData` | `Erase` |
| failures | `BeginFails` (the INSERT may have been applied), `FinishFails`, `Overrun` (a request slower than the in-flight TTL was chosen for), `Crash` |

Eviction breaks ties by key in the code; the model allows each order.

### Bounds

`MaxFaults` bounds crashes and failed statements of a behaviour, `MaxResets` the
Enqueues and Replays of one job. Both are counters the program does not have. One
fault is enough to strand any one claim; two resets are enough for a replay after a
takeover, three for erase, enqueue again and replay. Leases, budgets and delays of
one or two ticks put every comparison on both sides of its boundary. One or two jobs
suffice because rows only meet in the unique index (two rivals) and in the claim order.
Two rivals are never live together, so the claim order and the lane filter choose nothing
in a run; the proofs have any lanes and priorities, but that a reserved lane
(`WithDBLaneWorkers`) drains while shared workers hang is not checked.

`db_claims` has two admissible leases, 2 and 3, and one that is refused; `db_liveness`
has one of each, because fairness over three is too slow. Backoff, gates, cancellation
and faults are left to `db_liveness` (one job), where the nack is two statements and
hand-backs happen; rivals, erasure, pruning and late callers to `db_claims`, where a
caller that keeps a claim for ever leaves its row as a crashed one would. `AttemptBudget`
under faults, hand-backs and the two-statement nack rests on the proof; `RunsBounded` and
`LeaseProtects` are checked in both runs.

For the scheduler, `MaxTime` bounds the clock, `MaxRegisters` the registrations,
`MaxFaults` crashes, failed statements and erasures together; a user is erased once per
registration that names them. Two or three minutes hold a takeover, a late commit and a sweep, because
leases, cadences and retention are one or two minutes. `Skew` puts one replica's clock a
lease ahead. `SchedulerLoop` needs more time (fourteen minutes, a lease of six) for a
lease to run out, the standby to catch up and the grace of one fault and two
registrations to end.

For the outbox one event with two consumers meets most rules, because rows of different
events only share a batch, and two consumers already do. `outbox_claims` lets relays
stall for any time while they hold a batch, but runs phase 1 of one relay at a time and
in no time; it has no faults, replays, retention or second release. `outbox_loop` adds
those, in time. `outbox_reconcile` lets the statements of phase 1 of two relays with
different releases interleave in every way, with retention, a replay and cancellation,
and is small otherwise: one delivery, one attempt, a clock of two units (grace and
retention are one, so an event staged first is old at once), no faults. The batch limit
of the expansion and the claim bites only with more events than any run has; that clause
of `NoConsumerSkipped`, and the interplay of `RunsWithinBudget` with faults, replays and
unhandled consumers, rest on the proofs. Clocks up to 5 and 12, with a lease of 4, hold a
lease that runs out, a retry and what follows; in `outbox_loop` an event staged, or
replayed (`LastReplay`), up to time 3 has time to break `SettledInTime`. A relay of
`outbox_claims` that stops once the clock runs stays down; the other runs restart them.

For idempotency keys, three requests and one key suffice in SQL, where keys meet only
in the reap; the memory store has four requests and three keys over a cap of two, so
that the cap bites while a claim is in flight, the last request a retry of the first. Requests, keys and fingerprints are
interchangeable, so the instance uses each for the first time in order. One fault is
one of: a failed or half-applied statement, a crash, an erasure, a slow request.

## What the runs check

| Run | Instance | Properties |
|---|---|---|
| `db_claims` | a worker beside a caller that settles late and repeatedly, two jobs with one unique key, two admissible leases and one that is refused, no backoff, done retention, erasure, replay, a worker that closes and starts again | `TypeOK`, `AttemptBudget`, `UniqueLive`, `RunsBounded`, `LeaseProtects`, `TerminalStays`, `OnlyEnqueueCreates`, `ImplementsJobQueue` |
| `db_liveness` | two workers, one job of nobody (no erasure), both kinds of shutdown, a flipping gate, handlers that may hang, a scheduled start, backoff, one fault | `LeaseProtects`, `RunsBounded`, `ClaimedHasHolder`, `NeverDropped`, `BudgetCovered`, `EventuallySettled`; `DelayIsIdeal` for every base and cap among the durations of five bits and up to twelve failures, twice as many as it takes to reach the clamp from base 1 |
| `db_replay_in_flight` | one job, no handler budget | `ReplayNotInFlight`, **violated**: see below |
| `sched_fencing` | two replicas, one clock a lease ahead, a user's schedule whose cadence changes, one fault or an erasure | `SchedulerTypeOK`, `NoOverlap`, `DefinitionFenced`, `DeposedWritesNothing` |
| `sched_shared_owner` | two replicas configured with one OwnerID, retention of one minute, failing and replayed jobs | `TickOnce`, `WatermarkAdvances`, `NoOverlap` |
| `sched_loop` | two replicas, one good and one corrupt row, one fault. The clock bound ends the loop, so deadlock is off | `EveryTickServed`, `LeaderKeepsLease` |
| `sched_erase_race` | one replica, one user | `ErasedStaysErased`, **violated** |
| `outbox_claims` | two relays, one event with two consumers, any stall between two statements of a batch, cancellation. The clock bound ends it, so deadlock is off | `OutboxTypeOK`, `RunningKeepsRow`, `RunsWithinBudget`, `NoConsumerSkipped`, `ClaimProtected`, `SettledStays` |
| `outbox_loop` | two relays, a release that adds the first consumer of a type, retention, one fault, one replay. Deadlock is off for the same reason | `RolloutLosesNothing`, `SettledInTime` |
| `outbox_reconcile` | two relays whose statements interleave freely, a release with the only consumer of a type beside one without, retention, one replay. Deadlock is off for the same reason | `EventKept`, `UndeliveredKept`, `ClaimProtected` |
| `idem_stores` | both stores, two processes of which one fails open, one fault. All requests end, so deadlock is off | `IdempotencyTypeOK`, `OneAtATime`, `AtMostOnce`, `ReplayIsOwn`, `LockedBriefly` |
| `idem_shed_claims` | the memory store at a cap of eleven, one completed response | `ClaimsShedLast`, **violated** |

Each property has a mutant of the code (an operator beside what it replaces, with
"Mutant:" in its comment) that breaks it.

`RunsBounded` is the deepest of the invariants: a hand-back refunds an attempt, a
stale claimant may start its handler after the row was taken over, and Replay zeroes
the count under a running claimant, yet each Enqueue or Replay buys at most
MaxAttempts starts. It rests on every settle being fenced.

`BudgetCovered` states what `leaseCoversBudget` buys. `lease > budget` alone does not
keep a row under its handler, because the lease runs from the claim and the budget
from the start: the property says how much delay between the two is tolerated.
`LeaseProtects` and `BudgetCovered` speak of the shortest admissible lease, since a
sweep already under way when `SetLeaseTimeout` raises the lease still uses the old
cutoff.

The scheduler has two defences, and the runs take them one at a time. The fence keeps a
replica that overslept its lease from writing (`DeposedWritesNothing`, although each
replica compares the lease with the clock it read when its pass began). The version
keeps two plans of one row from both committing; `sched_shared_owner` disables the fence
by giving both replicas one OwnerID, which the configuration allows, and retention
removes the occurrence that would otherwise catch the second insert. `NoOverlap` fails if
retention forgets the occurrence of a dead-lettered job, which an operator may still
replay.

`DefinitionFenced`, `TickOnce` and `WatermarkAdvances` exempt a schedule whose row an
erasure has deleted (`wiped`). The erasure deletes the version with the row and a later
registration of the ID begins at version 0 again, so a plan read before the erasure can
commit against the new row: it enqueues the old definition, and it can fire a tick again
or move the watermark back. TLC finds the first when the exemption is dropped, and the
proof attempt found that forgiving only the time until the next registration is not
enough: a second registration that names the user again hides the erasure.
`queue.md` calls the version monotonically increasing, which it is only for the life of a
row.

`EveryTickServed` is a bound, not a liveness property: each tick is on record within
`Grace` of its time, that is, within a lease, a heartbeat and the largest skew per fault
and a heartbeat per registration so far. A fault costs the heartbeat too: a leader that
wakes a heartbeat after a tick, renews its lease and dies before it commits leaves a full
lease to run out. A registration costs one because it changes the version, so the plan of
a pass under way is refused and the leader, which nobody wakes, sleeps once more.
Occurrences that retention may have deleted (`Retired`) are exempt. `MaxCatchUp` is assumed
larger than the grace (`CatchUpAssumption`), since dropping the oldest ticks of a longer
outage is what it is for.

`SettledInTime` is a bound too: an event is settled within its attempts with their
backoff, a lease per fault and the polls that notice, or within the handler grace if that
is longer (`SettleBound`), from its staging, its last delivery row, or the start of the
service. One poll is easily forgotten: the budget sweep comes after the completion
backstop in a pump, so an event whose last delivery the sweep declared dead is completed
by the next pump.

`ClaimProtected` and `SettledStays` are the outbox's fence, `RunningKeepsRow` the rule
that a batch shares one lease: `pump` starts nothing it has not the lease to finish,
except the first of a batch. `RolloutLosesNothing` depends on the grace: with `Orphan`
made immediate a replica of the old release completes events the new release consumes.

Two things can go wrong between completion and retention. `completeParent` can complete
an event over a delivery that a concurrent Replay has just reset, so that the event is
dispatched with a pending delivery; and an expansion can commit its delivery after the
event was completed or dropped. `UndeliveredKept` says that neither loses the delivery:
no statement deletes a row that is pending, dead or abandoned. `EventKept` says that the
event stays as well, unless the expansion was late (`late`): a late expansion is the only
way to a delivery without an event, and it is one (see below). The same
exception is in `RunsWithinBudget`: a late expansion can make a delivery anew, with a
fresh count, once retention has deleted the delivered one. Not asserted: when another
relay completes an event between the two DELETEs of `purgeExpired`, the second deletes
the event and leaves its delivered rows behind for good; nothing reads them.

`OneAtATime` and `AtMostOnce` hold for a key none of whose requests outlives the
in-flight TTL (`MaxLatency < InFlightTTL`, the latency of Begin, handler and Finish
together: the claim's expiry counts from the clock reading before Begin's first
statement). Beyond it they do not: a retry has the fingerprint of its first attempt, so
the late Finish of an attempt that outlived its claim releases or completes the claim of
the retry that is running. The comment in the memory store's Finish, "only the owner of
the in-flight claim may mutate or release it", is true of other fingerprints only, which
is what `ReplayIsOwn` checks without any assumption on latency. A process that dies
between the handler's effect and Finish leaves the effect and no response; a retry after
the TTL runs again. `AtMostOnce` counts executions that were answered.

**Fairness.** `FairSpec` assumes that a runnable worker runs, that a stopped process
is started again, and that time passes. It assumes nothing of handlers, callers or
operators. `EventuallySettled` therefore needs a handler budget: without one a
handler may hang and hold its worker for ever.

**Divergences.** The code does other than a comment or the docs say in four places. A run
shows each but the third, which is a sentence of the code that `EventKept` has to qualify.

*Replay of a running job.* The comment on `Replay` says that because it touches only `failed`
rows it "can never double-run an in-flight job". A claim on its final attempt whose
lease runs out while its handler still runs is moved to `failed` by the dead-letter
sweep; Replay then re-queues it and a second run starts beside the first. The fence
keeps the table right (the first run's settle is a no-op), but the sentence is not
true of the handler.

*A tick inside an erasure.* `queue.md` says that erasing a user deletes their schedules
and the jobs those fired. `queue_jobs` is erased before `queue_scheduler_schedules`; on
Postgres a tick may commit between the two statements, and its job stays
(`sched_erase_race`). The in-memory `Scheduler` sweeps the jobs again for this reason.
SQLite has one writer and is not affected.

*A delivery without an event.* The second DELETE of `purgeExpired` has its NOT EXISTS "so
the parent payload survives alongside its dead, abandoned or pending delivery". The guard
sees committed deliveries. A first consumer is deployed for a type nobody consumed, and
an event older than the grace and the retention is still pending; while the expansion of
the new release is in flight, a replica of the old one drops the event as an orphan and
purges it; the expansion then commits a pending delivery without an event. TLC finds
this schedule in the instance of `outbox_reconcile`, without any replay, when `EventKept`
is checked without its exception for `late` events. The claim joins the event, so the delivery is never claimed, and
nothing deletes it: a row for an operator to remove. The event was past its grace and
would have been dropped a moment earlier anyway, so what is lost is tidiness and the
truth of the comment, not a promise made to the new consumer (`RolloutLosesNothing`).
SQLite has one writer and is not affected.

*Claims shed beside responses.* The memory idempotency store says that in-flight claims
are shed "only when every entry is in-flight". `evictLocked` deletes down to nine tenths
of the cap, completed entries first; with fewer completed entries than a tenth of the
cap it goes on with claims whose handlers are running (`idem_shed_claims`, at eleven,
the smallest cap that sheds two). What does hold is that no claim is shed while a
response is kept.

## What is proved

Every theorem holds for any sets of jobs, workers, replicas, relays, events, requests
and so on, and for any value of the bounds, under the named assumptions of the modules,
which TLC evaluates on each run. `Spec` stands for the specification of the component
and the property for what the runs check on an instance; `TokenIsOneClaim`, a lemma for
the fenced settles, and `DelayMonotone` are proved only.

| Module | Theorem | Property |
|---|---|---|
| `DBQueueProofs` | `TypeCorrect` | `TypeOK` |
| | `AttemptBudgetHolds` | `AttemptBudget` |
| | `TokenFenceHolds` | `TokenIsOneClaim` |
| | `UniqueLiveHolds` | `UniqueLive` |
| | `LeaseProtectsHolds` | `LeaseProtects` |
| | `BudgetCoveredHolds` | `BudgetCovered` |
| | `TerminalStaysHolds` | `TerminalStays` |
| | `OnlyEnqueueCreatesHolds` | `OnlyEnqueueCreates` |
| | `Refinement` | `ImplementsJobQueue` |
| `DBQueueRunsProofs` | `RunsBoundedHolds` | `RunsBounded` |
| | `ClaimedHasHolderHolds` | `ClaimedHasHolder` |
| | `NeverDroppedHolds` | `NeverDropped` |
| | `DelayIsIdealHolds` | `DelayIsIdeal` |
| | `DelayMonotoneHolds` | `DelayMonotone` |
| `DurableSchedulerProofs` | `SchedulerTypes` | `SchedulerTypeOK` |
| | `DeposedWritesNothingHolds` | `DeposedWritesNothing` |
| | `NoOverlapHolds` | `NoOverlap` |
| | `DefinitionFencedHolds` | `DefinitionFenced` |
| | `TickOnceHolds` | `TickOnce` |
| | `WatermarkAdvancesHolds` | `WatermarkAdvances` |
| `SchedulerLoopProofs` | `LeaderKeepsLeaseHolds` | `LeaderKeepsLease` |
| | `EveryTickServedHolds` | `EveryTickServed` |
| `OutboxProofs` | `OutboxTypes` | `OutboxTypeOK` |
| | `RunningKeepsRowHolds` | `RunningKeepsRow` |
| | `NoConsumerSkippedHolds` | `NoConsumerSkipped` |
| | `UndeliveredKeptHolds` | `UndeliveredKept` |
| | `SettledStaysHolds` | `SettledStays` |
| | `ClaimProtectedHolds` | `ClaimProtected` |
| `OutboxRunsProofs` | `RunsWithinBudgetHolds` | `RunsWithinBudget` |
| | `EventKeptHolds` | `EventKept` |
| `OutboxLoopProofs` | `RolloutLosesNothingHolds` | `RolloutLosesNothing` |
| `IdempotencyProofs` | `IdempotencyTypes` | `IdempotencyTypeOK` |
| | `HandlersExclude` | `OneAtATime` |
| | `ExecutedAtMostOnce` | `AtMostOnce` |
| | `ReplaysAreOwn` | `ReplayIsOwn` |
| | `ConflictsAreRecent` | `LockedBriefly` |

**Assumptions on the constants.** Types, and null values outside the sets they extend.
Beyond that: some lease of `DBQueue` is admissible and one of them is the shortest;
workers, relays, events and consumer names are finitely many (handler starts and SQL
batches are counted); some replica's clock is furthest ahead; the outbox's least lease
fits a duration; an idempotent request is faster than the in-flight TTL unless the step
`Overrun` says otherwise. `SchedulerLoop` adds what its theorems need of the deployment:
a lease of at least three units, so that the heartbeat period is positive; a catch-up cap
above the outage that `MaxFaults` and `MaxRegisters` allow (any numbers); and clocks
that agree to within what the lease has left at a heartbeat (`ClockAssumption`). The code
states no bound on skew, but with a larger one a standby takes a lease that its owner is
still renewing; safety does not depend on it, since `DurableSchedulerProofs` allows any
skew. `OutboxLoop` assumes that the overlap of two releases is shorter than the handler
grace, and that the deploy is that of one release: what the newest consumes, all of the
others consume or none of them does (`RolloutAssumption`). With a release in between that
drops a consumer the property is not true, since its replicas may abandon what the newest
consumes again.

**DBQueue.** `Base` is type correctness, that an actor without a job has no
token, and that a claimed row bears one; it is inductive alone. `IInv` adds the three
invariants of the table and two facts about stale memory that none of them implies:
`SeenIsCurrent` (while nack's UPDATE can still match, what its SELECT read is what the
row says) and `SweepListsExpired` (a claim a sweep has listed, if it is still the same
claim, is past the shortest lease). Without the first, nack could requeue a spent row;
without the second, the sweep could fail a live one.

`NextIsTableStep` reduces the step relation to the nine things a step can do to the
table; each later lemma goes through those nine cases. `ClaimOrigin` says that a row
claimed after a step was claimed before under the same token, or just now under a
fresh one, and `RowTokens` that a token never moves to another row. The action
properties and the refinement follow from `IInv` and `NextIsTableStep`.

`RunsBounded` is not inductive: a claim is a start to come and an attempt left is a claim
to come. What is inductive is the sum of the three, `RunsAccounted`: starts, claims of
workers that have not started yet, and attempts left stay within MaxAttempts per Enqueue
or Replay. A hand-back moves one unit from the second to the third, and only the fence
keeps a stale claimant from doing so for a claim that is not its own.

**Backoff.** What a loop computes is a fact about a recursive function, and the library's
induction theorems are out of the provers' reach. The proof builds what it needs from the
well-foundedness of the numbers: a set with 0 that is closed under successor has every
number (`Reaches`, by the least counterexample), so the equations that define a function
by recursion have a solution (`Iterates`), so the function that TLA+ chooses satisfies
them (`Pow2Equations`, `DoubledIterates`). The rest is the loop invariant. With a cap, the
delay and the doublings agree once both are cut (`CappedLoop`): where the clamp answers
max, the next doubling would be beyond MaxDuration and so beyond max. Without one, the
delay is a doubling that fits, and either the last one asked for or one that cannot be
doubled again (`UncappedLoop`). `MaxDuration` is any positive number, 2^63-1 included.

**DurableScheduler.** Three facts carry the invariant. `PlanVersioned`: a plan of a
schedule never erased is not ahead of its row, and if it carries the row's version it is
the row; so the version check of `commitOccurrences` validates everything else that the
pass remembers. `FiredBehind`: such a schedule has fired only ticks before its watermark,
which is why `TickOnce` survives retention deleting the occurrence. `ActiveOnRecord`: a
job that runs, or may be replayed, keeps its occurrence, which is where the overlap check
looks. `DeposedWritesNothing` needs no bound on skew: the commit compares
owner and fence with the lease row in its own transaction, and no fence in memory is
ahead of that row.

`LeaderKeepsLease` is proved of the states in which nothing has failed (`LoopInv`): a pass
takes no time, nobody sleeps longer than the heartbeat period (`WakesSoon`), and there is
always an owner of the lease that will renew it before it has less than two thirds left
by the clock that wrote it (`LeaseRenewed`, with one case for each part of a pass).

`EveryTickServed` gives each schedule a deadline, its watermark plus the grace so far,
and shows that the clock never reaches it (`InTime`). Two situations alternate. `Unled`:
nobody may be going to renew the lease, but it ends a heartbeat before every deadline and
every replica is up before every deadline, having a heartbeat to spare if it already
found the lease in force. `Led`: some replica owns the lease and will find that it does
(`Leads`), and commits each schedule in this pass or can afford to sleep first
(`Serves`, with one case for each part of a pass). A fault, whatever it interrupts, moves
all deadlines by what it can cost, so it ends in `Unled` (`FaultPaid`); whoever writes the
lease ends in `Led` (`LeaseWritten`); every other step keeps the situation it finds. That
a watermark in time means ticks on record is the other half: `Aligned` (the watermark of
an interval is a whole number of periods from `since`) and `BehindOnRecord` (ticks before
the watermark are on record or retired), which rest on what a pass within the cap fires
(`IntervalCaughtUp`, `CronCaughtUp`): every tick up to its clock, and a watermark past it.

**Outbox.** `claimed_until` is lease and fence at once, so the argument turns on
`OneHolder` (no two unsettled claims of one row end at the same instant: a row is claimed
again only when the old lease is over) and `HeldInLease` (inside its lease an unsettled
claim has its row, with the attempts it counted). `RowsCounted` says that a row under
claim is pending and counts the claim, which makes the hand-back's `attempts - 1`, whose
WHERE clause does not ask for the status, hit only pending rows. `ChosenCovered` carries a
completion's snapshot to its write: what was chosen has the deliveries it needs still,
although retention may run in between. Each action is first reduced to what it may do to
a row (`RowStep`), a parent (`ParentStep`) and a batch (`BatchStep`); the parts of the
invariant are kept by those.

`RunsWithinBudget` needs `Budget`: the starts there were and the claims that may still
start are covered by the attempts of the row and MaxAttempts per replay. A row that
retention deletes takes its count with it; what keeps expansion from making it anew with
a fresh count is that its event is `Closed` then, and that `ClosedStays` unless an
expansion is late. `EventKept` needs the same of the events a purge has selected and not
yet deleted (`Selected`): they are closed, or late.

`RolloutLosesNothing` is an argument about time. A consumer that the release adds has
deliveries only since the rollout (`AddedLate`), whose age counts from the clock that a
pump of the new release read (`ExpandsLate`, and `AddsDeclared` for what an expansion has
read and not yet written); a replica without a handler for it runs the
old release and so is up only until the overlap ends (`OneDeploy`); and abandonment,
orphan drop and completion all wait for the grace, which is longer (`OldReplica`). The
write of a completion comes later than its snapshot, so `CompletedOld` and
`CompletedCovered` speak of the events chosen as well as of those completed.

**Idempotency.** The properties speak of history; the invariant says where history is
kept. `ClaimHeld`: the handler of a key that nothing took away owns the row, in flight,
with the expiry it wrote. `ResponseOwned`: a kept response is that of a request of its
key and fingerprint. `KeptLasts` and `KeptFirst`: such a response stays until it expires,
and an execution under way beside it began after that. `StaleReplaced`: Begin's two
INSERTs and two SELECTs use one clock reading, so a row found after a stale one was seen
must be that of a rival that claimed in between, which is what `LockedBriefly` needs of
the 409 after the second INSERT. The memory store is the case in which a lock makes the
statements one.

**Only model-checked.** `EventuallySettled` (liveness: fairness is out of
the prover's reach). `SettledInTime`, a bound in time that counts polls, retries and
faults of one event with one consumer, as in the run: with more of them a relay that runs
a batch one after another adds the time spent in the queue, so there is no theorem of
this form for every set of events.

## Not modelled

`ListJobs`, `Stats`, metrics and export only read. Table creation, column migration
and `legacy_normalize.go` run before Init. Job payloads, logging and `last_error` are
not visible to any property. A negative MaxAttempts, or an Enqueue with Attempts
already set, is a caller's error and outside Init. In
`DBQueue`, `Outbox` and `Idempotency` the clocks of different processes agree, although
each compares the rows with its own `time.Now`; the code states no bound on skew. With
skew, a lease or an in-flight TTL is shorter for a process whose clock is ahead, so the
properties that speak of time hold for what is left of it. Only the scheduler is modelled
with a clock per replica. A handler that outlives its budget keeps running on
its own goroutine after `TimeOut`: it has no further effect on the queue.
`backoff.At` is a table lookup.

Of the outbox: `List`, `ListDeliveries` and `Stats` only read; payloads, headers and
erasure of a user's events are data (an erasure does not reach a batch already claimed,
which carries its payloads in memory). Of the idempotency middleware: key and
fingerprint encoding, the response recorder and header filtering, and requests that
never reach the store.

`MemoryQueue`, `Scheduler`, `RedisQueue`, webhooks, the cron leader and fan-out are not
modelled. The first two hold every piece of state under mutexes of one process and lose
it with the process; the third keeps its invariants in Lua scripts that Redis runs
atomically; they come after the parts whose steps interleave across processes.

## Plan

1. `SettledInTime` with a bound for any number of events and consumers (the time a batch
   queues included), then a proof along the lines of `EveryTickServed`: a deadline for
   each delivery that faults move.
2. **MemoryQueue** with **Scheduler**: lock sections as actions, drain on Close, retained
   dead letters, erasure; shown to implement `JobQueue`.
3. **Webhooks**: the settle fence between lease, retry and manual replay.
4. **RedisQueue**, shown to implement `JobQueue` with lost replies.
