------------------------------ MODULE DBQueue ------------------------------
(***************************************************************************)
(* battery/queue/db.go: a job queue in one SQL table, claimed by workers   *)
(* of any number of processes.  A claim is a lease: whoever finds a        *)
(* claimed row older than the lease takes it over, so a claimant that is   *)
(* slow, or gone, is a designed state and every settle is fenced on the    *)
(* token its claim minted.                                                 *)
(*                                                                         *)
(* One SQL statement (or one BEGIN IMMEDIATE transaction) is one action;   *)
(* between two statements of a worker anything else may happen.            *)
(*                                                                         *)
(* Timestamps are kept relative to now, so that the state is finite        *)
(* without bounding the clock: "delay" is how far scheduled_at lies in     *)
(* the future, "age" how long ago a claimed row was claimed and a done row *)
(* finished.  Both are only ever compared with now.                        *)
(***************************************************************************)
EXTENDS Naturals, FiniteSets

CONSTANTS
  Jobs, Types, Users,
  JobType, JobKey, JobLane, JobPriority, JobCreated,
  JobDelay,         \* ScheduledAt minus the time of Enqueue
  JobMax,           \* MaxAttempts, after the default of 3
  JobUser,
  NoKey, NoUser, NoJob, AnyLane,
  Workers,          \* worker goroutines, each in a process of its own
  Consumers,        \* callers of the public Dequeue, Ack and Nack
  WorkerLane,       \* AnyLane for the shared workers
  Tokens, NoToken,
  Leases,           \* values SetLeaseTimeout is called with
  Gates,            \* sets of types the gate may come to deny
  Signals,          \* shutdowns that occur: "close", "cancel"
  HandlerTimeout, DeferDelay, DoneRetention, PruneEvery, BackoffBase,
  BackoffDelay(_),  \* backoff.Exponential(base, max, attempts)
  MaxFaults,        \* bound on crashes and failed statements
  MaxResets         \* bound on Enqueue and Replay of one job

Actors == Workers \cup Consumers

ASSUME ConstantsAssumption ==
  /\ JobType \in [Jobs -> Types]
  /\ JobMax \in [Jobs -> Nat \ {0}]
  /\ JobDelay \in [Jobs -> Nat]
  /\ JobPriority \in [Jobs -> Nat]
  /\ JobCreated \in [Jobs -> Nat]
  /\ IsFiniteSet(Workers) /\ Workers \cap Consumers = {}
  /\ NoToken \notin Tokens
  /\ NoJob \notin Jobs
  /\ NoUser \notin Users
  /\ Leases \subseteq Nat \ {0}
  /\ Gates \subseteq SUBSET Types
  /\ Signals \subseteq {"close", "cancel"}
  /\ HandlerTimeout \in Nat /\ DeferDelay \in Nat
  /\ DoneRetention \in Nat /\ PruneEvery \in Nat /\ BackoffBase \in Nat
  /\ MaxFaults \in Nat /\ MaxResets \in Nat
  /\ \A j \in Jobs : \A n \in 0 .. JobMax[j] : BackoffDelay(n) \in Nat

(* leaseCoversBudget: NewDBQueue and SetLeaseTimeout refuse other leases.  *)
LeaseCoversBudget(d) == HandlerTimeout > 0 => d > HandlerTimeout

(* Some lease is admissible, and among those in use one is the shortest.   *)
ASSUME LeaseAssumption ==
  \E d \in Leases :
    LeaseCoversBudget(d) /\ \A e \in Leases : LeaseCoversBudget(e) => d <= e

VARIABLES
  rows,        \* the table: job ID -> row
  pc, job, token, types, found, seen, ran,   \* memory of each actor
  stop,        \* shutdown signal of each worker: none, Close, or its context
  lastPrune,   \* time since the process pruned, PruneEvery when due
  lease, handlers, gated,                    \* mutable configuration
  faults, starts, resets                     \* auxiliary counters

volatile == <<job, token, types, found, seen, ran>>
config == <<lease, handlers, gated>>
aux == <<faults, starts, resets>>
vars == <<rows, pc, volatile, stop, lastPrune, config, aux>>

Statuses == {"absent", "pending", "claimed", "failed", "done"}

NoRow == [status |-> "absent", attempts |-> 0, delay |-> 0, age |-> 0,
          token |-> NoToken]

-----------------------------------------------------------------------------
(* Predicates of the SQL statements.                                       *)

(* The unique index admits one live row per (type, unique_key).            *)
Rivals(j, k) ==
  /\ j # k
  /\ JobKey[j] # NoKey
  /\ JobKey[j] = JobKey[k]
  /\ JobType[j] = JobType[k]

KeyFree(j) ==
  \A k \in Jobs : Rivals(j, k) => rows[k].status \notin {"pending", "claimed"}

Expired(j) == rows[j].status = "claimed" /\ rows[j].age >= lease

(* The row still carries a's claim: status='claimed' AND claim_token.      *)
Holds(a) ==
  /\ job[a] # NoJob
  /\ rows[job[a]].status = "claimed"
  /\ rows[job[a]].token = token[a]

Lane(a) == IF a \in Workers THEN WorkerLane[a] ELSE AnyLane

(* Mutant: a claim may be taken over however many attempts it has used.    *)
EligibleWhereUnbounded(a, j) ==
  /\ rows[j].status = "pending" \/ Expired(j)
  /\ rows[j].delay = 0
  /\ Lane(a) \in {AnyLane, JobLane[j]}
  /\ JobType[j] \in types[a]

EligibleWhere(a, j) ==
  /\ \/ rows[j].status = "pending"
     \/ Expired(j) /\ rows[j].attempts < JobMax[j]
  /\ rows[j].delay = 0
  /\ Lane(a) \in {AnyLane, JobLane[j]}
  /\ JobType[j] \in types[a]

(* ORDER BY priority DESC, created_at ASC: no eligible row comes first.    *)
First(S) ==
  {j \in S : \A k \in S :
     \/ JobPriority[j] > JobPriority[k]
     \/ JobPriority[j] = JobPriority[k] /\ JobCreated[j] <= JobCreated[k]}

Candidates(a) == First({j \in Jobs : EligibleWhere(a, j)})

(* A random 128-bit ID: all a fence can see is that nobody else has it.    *)
TokensInUse ==
  {rows[j].token : j \in Jobs} \cup {token[a] : a \in Actors}
    \cup {f[2] : f \in UNION {found[a] : a \in Actors}}

FreshToken == CHOOSE t \in Tokens : t \notin TokensInUse

(* Bound: Tokens is finite in a model, and is chosen too large to run out. *)
TokensLeft == Tokens \ TokensInUse # {}

(* Mutant: poll for every type whose gate is open.                         *)
EligibleTypesUnhandled == Types \ gated

EligibleTypes == handlers \ gated

-----------------------------------------------------------------------------
(* What each settle statement makes of a row it matches.                   *)

Retired(r) ==
  IF DoneRetention > 0 THEN [r EXCEPT !.status = "done", !.age = 0] ELSE NoRow

Requeued(r, d) == [r EXCEPT !.status = "pending", !.age = 0, !.delay = d]

DeadLettered(r) == [r EXCEPT !.status = "failed", !.age = 0]

(* release: the attempt the claim counted is given back.                   *)
Released(r) ==
  [Requeued(r, DeferDelay) EXCEPT !.attempts = IF @ > 0 THEN @ - 1 ELSE 0]

(* The row a's claim names, matched or not.                                *)
Row(a) == rows[job[a]]

(* Mutants: fenced by job ID and status only; fenced by token but not by   *)
(* status; inserting the row when there is none.                           *)
SettleByID(a, r) ==
  rows' = IF Row(a).status = "claimed" THEN [rows EXCEPT ![job[a]] = r] ELSE rows

SettleByToken(a, r) ==
  rows' = IF Row(a).token = token[a] THEN [rows EXCEPT ![job[a]] = r] ELSE rows

SettleUpserting(a, r) ==
  rows' = IF Holds(a) \/ Row(a).status = "absent"
          THEN [rows EXCEPT ![job[a]] = r] ELSE rows

(* An UPDATE or DELETE fenced on a's claim touches its row or no row.      *)
Settle(a, r) ==
  rows' = IF Holds(a) THEN [rows EXCEPT ![job[a]] = r] ELSE rows

-----------------------------------------------------------------------------
(* Memory of an actor.                                                     *)

(* The actor drops the job it held and goes to p.                          *)
Forget(a, p) ==
  /\ pc' = [pc EXCEPT ![a] = p]
  /\ job' = [job EXCEPT ![a] = NoJob]
  /\ token' = [token EXCEPT ![a] = NoToken]
  /\ types' = [types EXCEPT ![a] = {}]
  /\ found' = [found EXCEPT ![a] = {}]
  /\ seen' = [seen EXCEPT ![a] = 0]
  /\ ran' = [ran EXCEPT ![a] = 0]

(* A worker's settle ends its turn; a caller still has the Job value and   *)
(* may present it again, however late.                                     *)
Settled(a) ==
  IF a \in Workers
  THEN Forget(a, "idle")
  ELSE /\ pc' = [pc EXCEPT ![a] = "held"]
       /\ seen' = [seen EXCEPT ![a] = 0]
       /\ UNCHANGED <<job, token, types, found, ran>>

Fault == faults < MaxFaults /\ faults' = faults + 1

-----------------------------------------------------------------------------
(* Producers and operators.                                                *)

(* A taken ID is a primary-key error and a held key is ErrDuplicateJob:    *)
(* neither changes the table.                                              *)
Enqueue(j) ==
  /\ rows[j].status = "absent"
  /\ KeyFree(j)
  /\ resets[j] < MaxResets
  /\ rows' = [rows EXCEPT ![j] = [NoRow EXCEPT !.status = "pending",
                                               !.delay = JobDelay[j]]]
  /\ resets' = [resets EXCEPT ![j] = @ + 1]
  /\ UNCHANGED <<pc, volatile, stop, lastPrune, config, faults, starts>>

(* Mutant: no check of the unique index.                                   *)
ReplayUnkeyed(j) ==
  /\ rows[j].status = "failed"
  /\ resets[j] < MaxResets
  /\ rows' = [rows EXCEPT ![j] = [Requeued(@, 0) EXCEPT !.attempts = 0]]
  /\ resets' = [resets EXCEPT ![j] = @ + 1]
  /\ UNCHANGED <<pc, volatile, stop, lastPrune, config, faults, starts>>

(* claim_token is left in place by Replay, as by every settle.             *)
Replay(j) ==
  /\ rows[j].status = "failed"
  /\ KeyFree(j)
  /\ resets[j] < MaxResets
  /\ rows' = [rows EXCEPT ![j] = [Requeued(@, 0) EXCEPT !.attempts = 0]]
  /\ resets' = [resets EXCEPT ![j] = @ + 1]
  /\ UNCHANGED <<pc, volatile, stop, lastPrune, config, faults, starts>>

SweepUserJobs(u) ==
  /\ \E j \in Jobs : JobUser[j] = u /\ rows[j] # NoRow
  /\ rows' = [j \in Jobs |-> IF JobUser[j] = u THEN NoRow ELSE rows[j]]
  /\ UNCHANGED <<pc, volatile, stop, lastPrune, config, aux>>

RegisterHandler(t) ==
  /\ t \notin handlers
  /\ handlers' = handlers \cup {t}
  /\ UNCHANGED <<rows, pc, volatile, stop, lastPrune, lease, gated, aux>>

(* The gate denies the types in G from now on; a panicking gate denies.    *)
SetGate(G) ==
  /\ gated' = G
  /\ UNCHANGED <<rows, pc, volatile, stop, lastPrune, lease, handlers, aux>>

(* Mutant: any lease is accepted.                                          *)
SetLeaseTimeoutUnchecked(d) ==
  /\ lease' = d
  /\ UNCHANGED <<rows, pc, volatile, stop, lastPrune, handlers, gated, aux>>

SetLeaseTimeout(d) ==
  /\ LeaseCoversBudget(d)
  /\ lease' = d
  /\ UNCHANGED <<rows, pc, volatile, stop, lastPrune, handlers, gated, aux>>

-----------------------------------------------------------------------------
(* dequeue: dead-letter sweep, prune, claim.                               *)

(* Mutant: no dead-letter sweep before the claim.                          *)
PollUnswept(a) ==
  /\ pc[a] = "idle"
  /\ a \in Workers => stop[a] = "no" /\ EligibleTypes # {}
  /\ types' = [types EXCEPT ![a] = IF a \in Workers THEN EligibleTypes ELSE Types]
  /\ pc' = [pc EXCEPT ![a] = "sweep"]
  /\ UNCHANGED <<rows, job, token, found, seen, ran, stop, lastPrune, config, aux>>

(* A worker polls for the types that have a handler and an open gate; the  *)
(* public Dequeue, called with no types, filters nothing.  Either way the  *)
(* sweep's SELECT runs first.                                              *)
Poll(a) ==
  /\ pc[a] = "idle"
  /\ a \in Workers => stop[a] = "no" /\ EligibleTypes # {}
  /\ types' = [types EXCEPT ![a] = IF a \in Workers THEN EligibleTypes ELSE Types]
  /\ found' = [found EXCEPT ![a] =
                 {<<j, rows[j].token>> : j \in {k \in Jobs :
                    Expired(k) /\ rows[k].attempts >= JobMax[k]}}]
  /\ pc' = [pc EXCEPT ![a] = "sweep"]
  /\ UNCHANGED <<rows, job, token, seen, ran, stop, lastPrune, config, aux>>

(* The sweep's UPDATE of one row it found.  It re-checks the predicate     *)
(* against the cutoff of the SELECT: a row claimed since has a younger     *)
(* claimed_at, which is to say another token.                              *)
SweepOne(a) ==
  /\ pc[a] = "sweep"
  /\ \E f \in found[a] :
       LET j == f[1] IN
       /\ rows' = IF /\ rows[j].status = "claimed"
                     /\ rows[j].token = f[2]
                     /\ rows[j].attempts >= JobMax[j]
                  THEN [rows EXCEPT ![j] = DeadLettered(@)]
                  ELSE rows
       /\ found' = [found EXCEPT ![a] = @ \ {f}]
  /\ UNCHANGED <<pc, job, token, types, seen, ran, stop, lastPrune, config, aux>>

(* At most one prune per PruneEvery; the moment is noted before the DELETE. *)
PruneDue(a) == DoneRetention > 0 /\ lastPrune[a] = PruneEvery

PruneDone(a) ==
  /\ pc[a] = "sweep"
  /\ found[a] = {}
  /\ rows' = [j \in Jobs |->
                IF PruneDue(a) /\ rows[j].status = "done" /\ rows[j].age >= DoneRetention
                THEN NoRow ELSE rows[j]]
  /\ lastPrune' = IF PruneDue(a) THEN [lastPrune EXCEPT ![a] = 0] ELSE lastPrune
  /\ pc' = [pc EXCEPT ![a] = "claim"]
  /\ UNCHANGED <<volatile, stop, config, aux>>

(* The claiming UPDATE of row j.                                           *)
Claimed(r) ==
  [status |-> "claimed", attempts |-> r.attempts + 1, delay |-> r.delay,
   age |-> 0, token |-> FreshToken]

ClaimRow(j) == rows' = [rows EXCEPT ![j] = Claimed(@)]

(* A caller of Dequeue has the job in hand at once: that is its run.       *)
Claim(a) ==
  /\ pc[a] = "claim"
  /\ TokensLeft
  /\ \E j \in Candidates(a) :
       /\ ClaimRow(j)
       /\ job' = [job EXCEPT ![a] = j]
       /\ starts' = IF a \in Workers THEN starts
                    ELSE [starts EXCEPT ![j] = @ + 1]
  /\ token' = [token EXCEPT ![a] = FreshToken]
  /\ types' = [types EXCEPT ![a] = {}]
  /\ pc' = [pc EXCEPT ![a] = IF a \in Workers THEN "claimed" ELSE "held"]
  /\ UNCHANGED <<found, seen, ran, stop, lastPrune, config, faults, resets>>

(* ErrNoJob.                                                               *)
ClaimNone(a) ==
  /\ pc[a] = "claim"
  /\ Candidates(a) = {}
  /\ Forget(a, "idle")
  /\ UNCHANGED <<rows, stop, lastPrune, config, aux>>

-----------------------------------------------------------------------------
(* workerLoop after the claim.                                             *)

Deferred(a) == JobType[job[a]] \in gated \/ stop[a] = "cancel"

(* Mutant: the worker returns without handing the row back.                *)
HandBackDropping(a) ==
  /\ pc[a] = "claimed"
  /\ Deferred(a)
  /\ Forget(a, IF JobType[job[a]] \in gated THEN "idle" ELSE "stopped")
  /\ UNCHANGED <<rows, stop, lastPrune, config, aux>>

(* handBack: the gate closed, or the context ended, since the claim.       *)
HandBack(a) ==
  /\ pc[a] = "claimed"
  /\ Deferred(a)
  /\ Settle(a, Released(Row(a)))
  /\ Forget(a, IF JobType[job[a]] \in gated THEN "idle" ELSE "stopped")
  /\ UNCHANGED <<stop, lastPrune, config, aux>>

Begin(a) ==
  /\ pc[a] = "claimed"
  /\ ~Deferred(a)
  /\ pc' = [pc EXCEPT ![a] = "running"]
  /\ starts' = [starts EXCEPT ![job[a]] = @ + 1]
  /\ UNCHANGED <<rows, volatile, stop, lastPrune, config, faults, resets>>

(* The handler returned nil, or an error or a recovered panic.             *)
Return(a) ==
  /\ pc[a] = "running"
  /\ \E p \in {"ack", "nack"} : pc' = [pc EXCEPT ![a] = p]
  /\ UNCHANGED <<rows, volatile, stop, lastPrune, config, aux>>

(* The worker stops waiting for a handler that outran its budget.          *)
TimeOut(a) ==
  /\ pc[a] = "running"
  /\ HandlerTimeout > 0 /\ ran[a] = HandlerTimeout
  /\ pc' = [pc EXCEPT ![a] = "nack"]
  /\ UNCHANGED <<rows, volatile, stop, lastPrune, config, aux>>

Ack(a) ==
  /\ pc[a] \in {"ack", "held"}
  /\ Settle(a, Retired(Row(a)))
  /\ Settled(a)
  /\ UNCHANGED <<stop, lastPrune, config, aux>>

(* nack without backoff: one UPDATE decides between retry and dead-letter. *)
Nack(a) ==
  /\ pc[a] \in {"nack", "held"}
  /\ BackoffBase = 0
  /\ Settle(a, IF Row(a).attempts >= JobMax[job[a]]
               THEN DeadLettered(Row(a))
               ELSE Requeued(Row(a), Row(a).delay))
  /\ Settled(a)
  /\ UNCHANGED <<stop, lastPrune, config, aux>>

(* nack with backoff: the SELECT, by id and token but whatever the status, *)
(* then the fenced UPDATE on what it read.                                 *)
NackRead(a) ==
  /\ pc[a] \in {"nack", "held"}
  /\ BackoffBase > 0
  /\ IF Row(a).token = token[a]
     THEN /\ pc' = [pc EXCEPT ![a] = "nackWrite"]
          /\ seen' = [seen EXCEPT ![a] = Row(a).attempts]
          /\ UNCHANGED <<job, token, types, found, ran>>
     ELSE Settled(a)
  /\ UNCHANGED <<rows, stop, lastPrune, config, aux>>

(* Mutant: the UPDATE leaves the fence to the SELECT before it.            *)
NackWriteByID(a) ==
  /\ pc[a] = "nackWrite"
  /\ SettleByID(a, IF seen[a] >= JobMax[job[a]]
                   THEN DeadLettered(Row(a))
                   ELSE Requeued(Row(a), BackoffDelay(seen[a])))
  /\ Settled(a)
  /\ UNCHANGED <<stop, lastPrune, config, aux>>

NackWrite(a) ==
  /\ pc[a] = "nackWrite"
  /\ Settle(a, IF seen[a] >= JobMax[job[a]]
               THEN DeadLettered(Row(a))
               ELSE Requeued(Row(a), BackoffDelay(seen[a])))
  /\ Settled(a)
  /\ UNCHANGED <<stop, lastPrune, config, aux>>

-----------------------------------------------------------------------------
(* Shutdown and restart.                                                   *)

(* Close closes the stop channel, which only the top of the loop reads;    *)
(* the context given to Start ends too, at once or later.                  *)
Shutdown(w, how) ==
  /\ pc[w] # "stopped"
  /\ stop[w] # "cancel" /\ stop[w] # how
  /\ stop' = [stop EXCEPT ![w] = how]
  /\ UNCHANGED <<rows, pc, volatile, lastPrune, config, aux>>

Exit(w) ==
  /\ pc[w] = "idle"
  /\ stop[w] # "no"
  /\ pc' = [pc EXCEPT ![w] = "stopped"]
  /\ UNCHANGED <<rows, volatile, stop, lastPrune, config, aux>>

(* A new process opens the table and calls Start; a worker goroutine that  *)
(* a panic took down is respawned by superviseWorker.                      *)
Start(w) ==
  /\ pc[w] = "stopped"
  /\ pc' = [pc EXCEPT ![w] = "idle"]
  /\ stop' = [stop EXCEPT ![w] = "no"]
  /\ lastPrune' = [lastPrune EXCEPT ![w] = PruneEvery]
  /\ UNCHANGED <<rows, volatile, config, aux>>

-----------------------------------------------------------------------------
(* Failures.                                                               *)

(* The process dies, or a caller of Dequeue never settles its job.         *)
Crash(a) ==
  /\ pc[a] \notin {"stopped", "idle"}
  /\ Fault
  /\ Forget(a, IF a \in Workers THEN "stopped" ELSE "idle")
  /\ UNCHANGED <<rows, stop, lastPrune, config, starts, resets>>

(* A statement of dequeue failed without effect: poll again later.  On a   *)
(* context that has ended every statement does.  A prune that failed is    *)
(* not due again before PruneEvery.                                        *)
DequeueFails(a) ==
  /\ pc[a] \in {"sweep", "claim"}
  /\ \/ Fault
     \/ a \in Workers /\ stop[a] = "cancel" /\ UNCHANGED faults
  /\ \/ lastPrune' = lastPrune
     \/ /\ pc[a] = "sweep" /\ found[a] = {} /\ PruneDue(a)
        /\ lastPrune' = [lastPrune EXCEPT ![a] = 0]
  /\ Forget(a, "idle")
  /\ UNCHANGED <<rows, stop, config, starts, resets>>

(* The claim committed and its answer was lost.                            *)
ClaimLost(a) ==
  /\ pc[a] = "claim"
  /\ TokensLeft
  /\ Fault
  /\ \E j \in Candidates(a) : ClaimRow(j)
  /\ Forget(a, "idle")
  /\ UNCHANGED <<stop, lastPrune, config, starts, resets>>

(* A settle failed: the worker logs it and moves on, the lease recovers.   *)
SettleFails(w) ==
  /\ \/ pc[w] \in {"ack", "nack", "nackWrite"}
     \/ pc[w] = "claimed" /\ Deferred(w)
  /\ Fault
  /\ Forget(w, "idle")
  /\ UNCHANGED <<rows, stop, lastPrune, config, starts, resets>>

-----------------------------------------------------------------------------
(* Time.  Ages stop counting where no comparison can tell them apart.      *)

Later(n, cap) == IF n < cap THEN n + 1 ELSE n

MaxLease == CHOOSE d \in Leases : \A e \in Leases : e <= d

Aged(r) ==
  [r EXCEPT !.delay = IF @ > 0 THEN @ - 1 ELSE 0,
            !.age = IF r.status = "claimed" THEN Later(@, MaxLease)
                    ELSE IF r.status = "done" THEN Later(@, DoneRetention)
                    ELSE @]

Tick ==
  /\ rows' = [j \in Jobs |-> Aged(rows[j])]
  /\ ran' = [a \in Actors |-> IF pc[a] = "running"
                              THEN Later(ran[a], HandlerTimeout) ELSE ran[a]]
  /\ lastPrune' = [a \in Actors |-> IF DoneRetention > 0
                                    THEN Later(lastPrune[a], PruneEvery)
                                    ELSE lastPrune[a]]
  /\ UNCHANGED <<pc, job, token, types, found, seen, stop, config, aux>>

-----------------------------------------------------------------------------
Init ==
  /\ rows = [j \in Jobs |-> NoRow]
  /\ pc = [a \in Actors |-> IF a \in Workers THEN "stopped" ELSE "idle"]
  /\ job = [a \in Actors |-> NoJob]
  /\ token = [a \in Actors |-> NoToken]
  /\ types = [a \in Actors |-> {}]
  /\ found = [a \in Actors |-> {}]
  /\ seen = [a \in Actors |-> 0]
  /\ ran = [a \in Actors |-> 0]
  /\ stop = [w \in Workers |-> "no"]
  /\ lastPrune = [a \in Actors |-> PruneEvery]
  /\ lease \in {d \in Leases : LeaseCoversBudget(d)}
  /\ handlers = {}
  /\ gated = {}
  /\ faults = 0
  /\ starts = [j \in Jobs |-> 0]
  /\ resets = [j \in Jobs |-> 0]

Dequeue(a) == Poll(a) \/ SweepOne(a) \/ PruneDone(a) \/ Claim(a) \/ ClaimNone(a)

Complete(a) == Ack(a) \/ Nack(a) \/ NackRead(a) \/ NackWrite(a)

(* What a worker does of its own accord, its handlers apart.               *)
WorkerStep(w) ==
  Dequeue(w) \/ HandBack(w) \/ Begin(w) \/ TimeOut(w) \/ Complete(w) \/ Exit(w)

Next ==
  \/ \E j \in Jobs : Enqueue(j) \/ Replay(j)
  \/ \E u \in Users : SweepUserJobs(u)
  \/ \E t \in Types : RegisterHandler(t)
  \/ \E G \in Gates : SetGate(G)
  \/ \E d \in Leases : SetLeaseTimeout(d)
  \/ \E w \in Workers : WorkerStep(w) \/ Return(w) \/ Start(w) \/ SettleFails(w)
  \/ \E w \in Workers : \E how \in Signals : Shutdown(w, how)
  \/ \E c \in Consumers : Dequeue(c) \/ Complete(c)
  \/ \E a \in Actors : Crash(a) \/ DequeueFails(a) \/ ClaimLost(a)
  \/ Tick

Spec == Init /\ [][Next]_vars

(***************************************************************************)
(* Fairness.  The Go scheduler runs every runnable goroutine, a stopped    *)
(* process is restarted, and time passes.  Handlers, operators and callers *)
(* owe nothing: a handler may hang and a stop may come at any moment.      *)
(***************************************************************************)
Fairness ==
  /\ \A w \in Workers : WF_vars(WorkerStep(w)) /\ WF_vars(Start(w))
  /\ WF_vars(Tick)

FairSpec == Spec /\ Fairness

-----------------------------------------------------------------------------
(* Properties.                                                             *)

RowType == [status : Statuses, attempts : Nat, delay : Nat, age : Nat,
            token : Tokens \cup {NoToken}]

PCs == {"idle", "sweep", "claim", "claimed", "running", "ack", "nack",
        "nackWrite", "held", "stopped"}

RowsOK == rows \in [Jobs -> RowType]

MemoryOK ==
  /\ pc \in [Actors -> PCs]
  /\ job \in [Actors -> Jobs \cup {NoJob}]
  /\ token \in [Actors -> Tokens \cup {NoToken}]
  /\ types \in [Actors -> SUBSET Types]
  /\ found \in [Actors -> SUBSET (Jobs \X Tokens)]
  /\ seen \in [Actors -> Nat]
  /\ ran \in [Actors -> Nat]

ProcessOK ==
  /\ stop \in [Workers -> {"no", "close", "cancel"}]
  /\ lastPrune \in [Actors -> Nat]
  /\ lease \in Leases /\ LeaseCoversBudget(lease)
  /\ handlers \subseteq Types
  /\ gated \subseteq Types

AuxOK ==
  /\ faults \in 0 .. MaxFaults
  /\ starts \in [Jobs -> Nat]
  /\ resets \in [Jobs -> Nat]

(* Every variable keeps its type, and the lease in force always covers the *)
(* handler budget.                                                         *)
TypeOK == RowsOK /\ MemoryOK /\ ProcessOK /\ AuxOK

(* The shortest lease that can be in force: a sweep in flight still uses   *)
(* the lease from before a SetLeaseTimeout.                                *)
ShortestLease ==
  CHOOSE d \in Leases : /\ LeaseCoversBudget(d)
                        /\ \A e \in Leases : LeaseCoversBudget(e) => d <= e

(* Where an actor has a job in hand.                                       *)
Engaged(a) == pc[a] \in {"claimed", "running", "ack", "nack", "nackWrite", "held"}

(* The retry budget of every row, across lease takeovers, late settles,    *)
(* hand-backs and replays: a row waiting for a worker has an attempt left  *)
(* (a claim of it never exceeds MaxAttempts), and only a row whose budget  *)
(* is spent is dead-lettered, whichever of nack's two branches or the      *)
(* sweep decided it and however stale what they had read was.              *)
AttemptBudget ==
  \A j \in Jobs :
    /\ rows[j].status = "pending" => rows[j].attempts < JobMax[j]
    /\ rows[j].status = "claimed" => rows[j].attempts \in 1 .. JobMax[j]
    /\ rows[j].status = "failed"  => rows[j].attempts = JobMax[j]

(* MaxAttempts bounds how often the handler runs: each time a job is       *)
(* enqueued or replayed buys at most MaxAttempts starts, although a        *)
(* hand-back refunds an attempt, a stale claimant may start after its row  *)
(* was taken over, and Replay zeroes the count under a running claimant.   *)
RunsBounded == \A j \in Jobs : starts[j] <= JobMax[j] * resets[j]

(* No two live jobs of one type share a unique key, whatever path made     *)
(* them live: Enqueue, a retry, a hand-back, or a Replay after a newer job *)
(* took the key.                                                           *)
UniqueLive ==
  \A j, k \in Jobs :
    Rivals(j, k) => ~({rows[j].status, rows[k].status} \subseteq {"pending", "claimed"})

(* A token is one claim: two actors never present the same one, and a row  *)
(* bearing an actor's token is the row that actor claimed.  This is what   *)
(* makes every fenced settle hit its own claim or nothing.                 *)
TokenIsOneClaim ==
  \A a \in Actors : Engaged(a) =>
    /\ job[a] \in Jobs /\ token[a] \in Tokens
    /\ \A b \in Actors \ {a} : token[b] # token[a]
    /\ \A j \in Jobs : rows[j].token = token[a] => j = job[a]

(* Without failures a claimed row always has a claimant that will settle   *)
(* it: no shutdown, closed gate, takeover or replay strands a row in       *)
(* 'claimed' until its lease runs out.                                     *)
ClaimedHasHolder ==
  faults = 0 =>
    \A j \in Jobs : rows[j].status = "claimed" =>
      \E a \in Actors : Engaged(a) /\ job[a] = j /\ Holds(a)

(* The worker loop's "no handler, drop the row" branch is never reached:   *)
(* a worker only ever claims a job whose type has a handler.               *)
NeverDropped ==
  \A w \in Workers : pc[w] \in {"claimed", "running"} => JobType[job[w]] \in handlers

(* The claim on row j is the same one after the step.                      *)
SameClaim(j) ==
  rows'[j].status = "claimed" /\ rows'[j].token = rows[j].token

(* The row went because its user was erased.                               *)
Erased(j) == rows'[j] = NoRow /\ JobUser[j] # NoUser

(* Only a holds j's claim, and only a moved: the step is a's settle.       *)
SettledByHolder(a, j) ==
  /\ Engaged(a) /\ pc[a] # "running" /\ job[a] = j /\ Holds(a)
  /\ resets' = resets
  /\ \A b \in Actors \ {a} : pc'[b] = pc[b] /\ found'[b] = found[b]

KeepsClaim(j) ==
  rows[j].status = "claimed" /\ rows[j].age < ShortestLease =>
    SameClaim(j) \/ Erased(j) \/ \E a \in Actors : SettledByHolder(a, j)

(* Until its lease runs out, a claim ends only by a statement of its own   *)
(* claimant or by erasing the user: no other worker, sweep, late settle of *)
(* an older claim, prune or replay touches a row someone holds.            *)
LeaseProtects == [][\A j \in Jobs : KeepsClaim(j)]_vars

StaysSettled(j) ==
  /\ rows[j].status = "done" => rows'[j].status \in {"done", "absent"}
  /\ rows[j].status = "failed" =>
       \/ rows'[j].status \in {"failed", "absent"}
       \/ rows'[j].status = "pending" /\ rows'[j].attempts = 0
          /\ resets'[j] = resets[j] + 1

(* A settled job stays settled: a done row only disappears, and a          *)
(* dead-lettered row only disappears or comes back through Replay with its *)
(* attempts cleared.  A late Ack, Nack or release of the claim that was    *)
(* settled, whose token is still on the row, changes nothing.              *)
TerminalStays == [][\A j \in Jobs : StaysSettled(j)]_vars

StaysGone(j) ==
  rows[j].status = "absent" /\ rows'[j].status # "absent" =>
    /\ rows'[j].status = "pending" /\ rows'[j].attempts = 0
    /\ resets'[j] = resets[j] + 1

(* Nothing brings an absent job back but Enqueue, which starts it afresh:  *)
(* after an erasure or an Ack no settle still in flight resurrects the row.*)
OnlyEnqueueCreates == [][\A j \in Jobs : StaysGone(j)]_vars

KeepsRun(w) ==
  /\ pc[w] = "running" /\ HandlerTimeout > 0 /\ ran[w] < HandlerTimeout
  /\ Holds(w)
  /\ Row(w).age + HandlerTimeout <= ShortestLease + ran[w]
  => SameClaim(job[w]) \/ Erased(job[w])

(* leaseCoversBudget at work: while a handler is inside its budget, and    *)
(* started soon enough after its claim for the lease to cover budget and   *)
(* delay together, no step takes its row away, erasure apart.  The code    *)
(* only demands lease > budget, so the start delay it tolerates is what    *)
(* the lease exceeds the budget by.                                        *)
BudgetCovered == [][\A w \in Workers : KeepsRun(w)]_vars

(* What Replay's documentation concludes from its status='failed' clause:  *)
(* a replay never runs a job again while a run of it is in flight.         *)
ReplayNotInFlight ==
  [][\A j \in Jobs :
       rows[j].status = "failed" /\ rows'[j].status = "pending" =>
         \A w \in Workers : ~(pc[w] = "running" /\ job[w] = j)]_vars

(* The table keeps the promise of JobQueue: a lease takeover is invisible  *)
(* and every other statement is one of the abstract moves.                 *)
Promise == INSTANCE JobQueue WITH phase <- [j \in Jobs |-> rows[j].status]

ImplementsJobQueue == Promise!Spec

Live(j) == rows[j].status \in {"pending", "claimed"}

(* Something must eventually happen: with a handler budget set, every job  *)
(* enqueued or replayed is done or dead-lettered in the end, even if every *)
(* handler hangs and workers crash or are shut down between any two        *)
(* statements, provided its type has a handler, its gate stays open, and   *)
(* shutdowns cease.                                                        *)
EventuallySettled ==
  \A j \in Jobs :
    <>[](JobType[j] \in EligibleTypes /\ \A w \in Workers : stop[w] = "no")
      => (Live(j) ~> ~Live(j))
=============================================================================
