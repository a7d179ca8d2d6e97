-------------------------- MODULE DurableScheduler --------------------------
(***************************************************************************)
(* battery/queue/durable_scheduler*.go: recurring schedules evaluated by   *)
(* replicas that share three SQL tables with a DBQueue.  One replica holds *)
(* a lease that names a fence; a pass loads the due schedules and commits  *)
(* each in a transaction that re-checks the fence, advances the watermark  *)
(* under a version, records one occurrence per tick and enqueues the       *)
(* newest.  The pass reads the clock once and keeps that instant, so every *)
(* later statement of it may run long after.                               *)
(*                                                                         *)
(* One statement outside a transaction, or one transaction, is one action. *)
(* The queue is JobQueue, which DBQueue implements; a job fired by a tick  *)
(* has the occurrence's ID.  The unit of time is a minute, the grain of a  *)
(* cron spec; time zones are left out (every zone agrees on the instants). *)
(***************************************************************************)
EXTENDS Integers, FiniteSetsExt

CONSTANTS
  Schedules,      \* schedule IDs
  Definitions,    \* what a schedule may be registered as
  NoDef,          \* the definition of an ID that has no row
  Poisoned,       \* IDs whose stored cadence does not evaluate
  Users, NoUser,
  Replicas,
  OwnerOf,        \* DurableSchedulerConfig.OwnerID of each replica
  Skew,           \* how far a replica's clock runs ahead
  LeaseDuration,
  Retention,      \* OccurrenceRetention, 0 when pruning is disabled
  SweepPeriod,    \* defaultRetentionSweepPeriod
  MaxCatchUp,     \* MaxCatchUpOccurrences
  MaxTime,        \* bound on the clock
  MaxFaults,      \* bound on crashes, failed statements and erasures
  MaxRegisters    \* bound on RegisterAt calls

Clocks == 0 .. MaxTime + Max({Skew[r] : r \in Replicas})

(* stableOccurrenceID hashes the schedule ID and the tick.                 *)
Occurrences == Schedules \X Clocks

ASSUME ConstantsAssumption ==
  /\ \A d \in Definitions :
       /\ d.cron \in BOOLEAN /\ d.period \in Nat \ {0}
       /\ d.offset \in 0 .. d.period - 1 /\ d.user \in Users \cup {NoUser}
  /\ NoDef \notin Definitions /\ NoUser \notin Users
  /\ Poisoned \subseteq Schedules
  /\ Skew \in [Replicas -> Nat]
  /\ \E r \in Replicas : \A q \in Replicas : Skew[q] <= Skew[r]
  /\ LeaseDuration \in Nat \ {0} /\ MaxCatchUp \in Nat \ {0}
  /\ Retention \in Nat /\ SweepPeriod \in Nat \ {0}
  /\ MaxTime \in Nat /\ MaxFaults \in Nat /\ MaxRegisters \in Nat

VARIABLES
  now,
  lease,     \* the lease row; fence 0 before its first INSERT
  sched,     \* the schedules table
  occ,       \* the occurrences table
  phase,     \* the jobs the schedules fired: JobQueue's state
  jobDef,    \* the definition each job was made from
  pc, at, fence, plan, todo,   \* a replica's pass; fence 0 when not owned
  nextSweep, \* nextRetentionSweep of each process
  erasing, doomed,             \* an open EraseUserData transaction
  faults, registers, fired, erased, wiped  \* auxiliary: bounds and history

tables == <<lease, sched, occ>>
jobs == <<phase, jobDef, fired>>
pass == <<pc, at, fence, plan, todo>>
erasure == <<erasing, doomed, erased, wiped>>
vars == <<now, tables, jobs, pass, nextSweep, erasure, faults, registers>>

Queue == INSTANCE JobQueue WITH
  Jobs <- Occurrences,
  JobType <- [o \in Occurrences |-> "job"],
  JobKey <- [o \in Occurrences |-> "none"], NoKey <- "none",
  JobUser <- [o \in Occurrences |-> "none"], NoUser <- "none", Users <- {}

NoSchedule == [next |-> 0, version |-> 0, def |-> NoDef]
NoOccurrence == [status |-> "none", fence |-> 0, created |-> 0]
Active(o) == phase[o] \in {"pending", "claimed"}
Registered(s) == sched[s].def # NoDef
Clock(r) == now + Skew[r]

-----------------------------------------------------------------------------
(* Which ticks are due.                                                    *)

Matches(d, t) == t % d.period = d.offset

(* nextFire: the first match strictly after an instant.                    *)
NextFire(d, after) == Min({t \in after + 1 .. after + d.period : Matches(d, t)})

(* The newest n members of S.                                              *)
Newest(S, n) == {t \in S : Cardinality({u \in S : u > t}) < n}

(* Fixed intervals count from the watermark; after a long outage only the  *)
(* newest MaxCatchUp ticks are materialized.                               *)
IntervalTicks(d, cursor, t) ==
  LET total == (t - cursor) \div d.period + 1
      kept == Min({total, MaxCatchUp})
      first == cursor + (total - kept) * d.period
  IN  {first + i * d.period : i \in 0 .. kept - 1}

BoundedDueTicks(row, t) ==
  IF row.def.cron
  THEN Newest({u \in row.next .. t : Matches(row.def, u)}, MaxCatchUp)
  ELSE IntervalTicks(row.def, row.next, t)

(* The watermark after the pass.  A cron watermark that matches nothing up *)
(* to now was stored under an earlier cadence and moves to the next match. *)
NextRun(row, t) ==
  LET ticks == BoundedDueTicks(row, t)
  IN  CASE ~row.def.cron -> Max(ticks) + row.def.period
        [] row.def.cron /\ ticks # {} -> NextFire(row.def, t)
        [] OTHER -> NextFire(row.def, row.next)

-----------------------------------------------------------------------------
(* Registration.                                                           *)

FirstRun(d, base) == IF d.cron THEN NextFire(d, base) ELSE base + d.period

(* Mutant: the upsert leaves the version alone.                            *)
UpsertUnversioned(s, d, base) ==
  IF Registered(s) THEN [sched[s] EXCEPT !.def = d]
  ELSE [next |-> FirstRun(d, base), version |-> 0, def |-> d]

(* Mutant: the upsert also overwrites next_run.                            *)
UpsertResetting(s, d, base) ==
  [next |-> FirstRun(d, base), def |-> d,
   version |-> IF Registered(s) THEN sched[s].version + 1 ELSE 0]

(* INSERT ... ON CONFLICT DO UPDATE: the watermark of a row survives.      *)
Upsert(s, d, base) ==
  IF Registered(s) THEN [sched[s] EXCEPT !.def = d, !.version = @ + 1]
  ELSE [next |-> FirstRun(d, base), version |-> 0, def |-> d]

Register(r, s, d) ==
  /\ pc[r] # "down"
  /\ registers < MaxRegisters
  /\ registers' = registers + 1
  /\ sched' = [sched EXCEPT ![s] = Upsert(s, d, Clock(r))]
  /\ erased' = erased \ {d.user}
  /\ UNCHANGED <<now, lease, occ, jobs, pass, nextSweep, erasing, doomed, wiped, faults>>

-----------------------------------------------------------------------------
(* One pass of a replica.                                                  *)

RunOnce(r) ==
  /\ pc[r] = "idle"
  /\ pc' = [pc EXCEPT ![r] = "lease"]
  /\ at' = [at EXCEPT ![r] = Clock(r)]
  /\ UNCHANGED <<now, tables, jobs, fence, plan, todo, nextSweep, erasure, faults, registers>>

(* Mutant: the lease lies in the past.                                     *)
ExpiresBefore(r) == at[r] - LeaseDuration

Expires(r) == at[r] + LeaseDuration

(* The INSERT that creates the lease row, or the UPDATE that takes over an *)
(* expired one.  The row is never deleted, so an INSERT that conflicts may *)
(* be counted with the UPDATE after it.                                    *)
TakeLease(r) ==
  /\ pc[r] = "lease"
  /\ \/ /\ lease.fence = 0
        /\ lease' = [owner |-> OwnerOf[r], fence |-> 1, expires |-> Expires(r)]
        /\ fence' = [fence EXCEPT ![r] = 1]
        /\ pc' = [pc EXCEPT ![r] = "load"]
     \/ /\ lease.fence > 0 /\ lease.expires <= at[r]
        /\ lease' = [owner |-> OwnerOf[r], fence |-> lease.fence + 1,
                     expires |-> Expires(r)]
        /\ pc' = [pc EXCEPT ![r] = "confirm"]
        /\ UNCHANGED fence
     \/ /\ lease.fence > 0 /\ lease.expires > at[r]
        /\ pc' = [pc EXCEPT ![r] = "heartbeat"]
        /\ UNCHANGED <<lease, fence>>
  /\ UNCHANGED <<now, sched, occ, jobs, at, plan, todo, nextSweep, erasure, faults, registers>>

(* The owner extends a lease that has not expired under the same fence.    *)
Heartbeat(r) ==
  /\ pc[r] = "heartbeat"
  /\ IF lease.owner = OwnerOf[r] /\ lease.expires > at[r]
     THEN /\ lease' = [lease EXCEPT !.expires = Expires(r)]
          /\ pc' = [pc EXCEPT ![r] = "confirm"]
          /\ UNCHANGED fence
     ELSE /\ fence' = [fence EXCEPT ![r] = 0]
          /\ pc' = [pc EXCEPT ![r] = "ended"]
          /\ UNCHANGED lease
  /\ UNCHANGED <<now, sched, occ, jobs, at, plan, todo, nextSweep, erasure, faults, registers>>

(* SELECT owner_id, fence: someone may have taken over since the UPDATE.   *)
Confirm(r) ==
  /\ pc[r] = "confirm"
  /\ LET owned == lease.owner = OwnerOf[r]
     IN  /\ fence' = [fence EXCEPT ![r] = IF owned THEN lease.fence ELSE 0]
         /\ pc' = [pc EXCEPT ![r] = IF owned THEN "load" ELSE "ended"]
  /\ UNCHANGED <<now, tables, jobs, at, plan, todo, nextSweep, erasure, faults, registers>>

Load(r) ==
  LET due == {s \in Schedules : Registered(s) /\ sched[s].next <= at[r]}
  IN  /\ pc[r] = "load"
      /\ todo' = [todo EXCEPT ![r] = due]
      /\ plan' = [plan EXCEPT ![r] =
           [s \in Schedules |-> IF s \in due THEN sched[s] ELSE NoSchedule]]
      /\ pc' = [pc EXCEPT ![r] = "commit"]
      /\ UNCHANGED <<now, tables, jobs, at, fence, nextSweep, erasure, faults, registers>>

(* ORDER BY next_run.                                                      *)
NextUp(r) ==
  {s \in todo[r] : \A u \in todo[r] : plan[r][s].next <= plan[r][u].next}

(* Mutant: only the expiry is re-checked, not the owner and the fence.     *)
StillLeaderUnfenced(r) == lease.expires > at[r]

(* The lease re-check, against the clock the pass started with.            *)
StillLeader(r) ==
  /\ lease.owner = OwnerOf[r]
  /\ lease.fence = fence[r]
  /\ lease.expires > at[r]

(* Mutant: the watermark UPDATE names the schedule only.                   *)
PlanCurrentByID(r, s) == Registered(s)

PlanCurrent(r, s) ==
  Registered(s) /\ sched[s].version = plan[r][s].version

(* Mutant: a job that a worker has claimed no longer counts as active.     *)
ActivePriorPending(s) ==
  \E t \in Clocks :
    occ[<<s, t>>].status = "enqueued" /\ phase[<<s, t>>] = "pending"

(* COUNT of the schedule's occurrences joined with live jobs.              *)
ActivePrior(s) ==
  \E t \in Clocks :
    occ[<<s, t>>].status = "enqueued" /\ Active(<<s, t>>)

(* Only the newest tick may enqueue, and not beside an active job.         *)
Outcome(s, t, ticks) ==
  CASE t # Max(ticks) -> "missed"
    [] t = Max(ticks) /\ ActivePrior(s) -> "overlap"
    [] OTHER -> "enqueued"

(* INSERT ... ON CONFLICT DO NOTHING into occurrences for each tick.       *)
Inserted(s, ticks) == {t \in ticks : occ[<<s, t>>].status = "none"}

(* commitOccurrences past its two checks; after is where the pass goes on. *)
CommitTo(r, s, after) ==
  LET row == plan[r][s]
      ticks == BoundedDueTicks(row, at[r])
      new == Inserted(s, ticks)
      enqueue == {o \in {s} \X new : Outcome(s, o[2], ticks) = "enqueued"}
  IN  /\ s \notin Poisoned /\ StillLeader(r) /\ PlanCurrent(r, s)
      /\ \A o \in enqueue : phase[o] = "absent"
      /\ sched' = [sched EXCEPT ![s].next = NextRun(row, at[r]),
                                ![s].version = @ + 1]
      /\ occ' = [o \in Occurrences |->
           IF o \in {s} \X new
           THEN [status |-> Outcome(s, o[2], ticks), fence |-> fence[r],
                 created |-> at[r]]
           ELSE occ[o]]
      /\ phase' = [o \in Occurrences |->
           IF o \in enqueue THEN "pending" ELSE phase[o]]
      /\ jobDef' = [o \in Occurrences |->
           IF o \in enqueue THEN row.def ELSE jobDef[o]]
      /\ fired' = fired \cup enqueue
      /\ todo' = [todo EXCEPT ![r] = @ \ {s}]
      /\ pc' = [pc EXCEPT ![r] = after]
      /\ UNCHANGED <<now, lease, at, fence, plan, nextSweep, erasure, registers>>

Commit(r) ==
  /\ pc[r] = "commit"
  /\ \E s \in NextUp(r) : CommitTo(r, s, "commit")
  /\ UNCHANGED faults

(* The row cannot be evaluated, or one of the two checks found no row: the *)
(* pass goes on to the next schedule.                                      *)
Skip(r) ==
  /\ pc[r] = "commit"
  /\ \E s \in NextUp(r) :
       /\ s \in Poisoned \/ ~StillLeader(r) \/ ~PlanCurrent(r, s)
       /\ todo' = [todo EXCEPT ![r] = @ \ {s}]
  /\ UNCHANGED <<now, tables, jobs, pc, at, fence, plan, nextSweep, erasure, faults, registers>>

(* Mutant: failed jobs do not keep their occurrence.                       *)
PrunableFailed(o) ==
  \/ occ[o].status \in {"missed", "overlap"}
  \/ occ[o].status = "enqueued" /\ ~Active(o)

(* An enqueued occurrence goes once its job is gone or done.               *)
Prunable(o) ==
  \/ occ[o].status \in {"missed", "overlap"}
  \/ occ[o].status = "enqueued" /\ phase[o] \in {"absent", "done"}

SweepDue(r) ==
  Retention > 0 /\ (nextSweep[r] = 0 \/ at[r] >= nextSweep[r])

SweepOccurrences(r) ==
  /\ pc[r] = "commit" /\ todo[r] = {}
  /\ IF SweepDue(r)
     THEN /\ occ' = [o \in Occurrences |->
               IF occ[o].created + Retention < at[r] /\ Prunable(o)
               THEN NoOccurrence ELSE occ[o]]
          /\ nextSweep' = [nextSweep EXCEPT ![r] = at[r] + SweepPeriod]
     ELSE UNCHANGED <<occ, nextSweep>>
  /\ pc' = [pc EXCEPT ![r] = "ended"]
  /\ plan' = [plan EXCEPT ![r] = [s \in Schedules |-> NoSchedule]]
  /\ UNCHANGED <<now, lease, sched, jobs, at, fence, todo, erasure, faults, registers>>

(* The pass ends; faults is left to the caller, whose wake-up may fail.    *)
Return(r) ==
  /\ pc[r] = "ended"
  /\ pc' = [pc EXCEPT ![r] = "idle"]
  /\ at' = [at EXCEPT ![r] = 0]
  /\ fence' = [fence EXCEPT ![r] = 0]
  /\ UNCHANGED <<now, tables, jobs, plan, todo, nextSweep, erasure, registers>>

-----------------------------------------------------------------------------
(* Failures.                                                               *)

Fault == faults < MaxFaults /\ faults' = faults + 1

Aborted(r) ==
  /\ todo' = [todo EXCEPT ![r] = {}]
  /\ plan' = [plan EXCEPT ![r] = [s \in Schedules |-> NoSchedule]]

(* A statement fails (a serialization failure, a lost connection): the     *)
(* pass ends, as owner or not, and the remaining schedules wait.           *)
PassFails(r) ==
  /\ pc[r] \in {"lease", "heartbeat", "confirm", "load", "commit"}
  /\ Fault
  /\ pc' = [pc EXCEPT ![r] = "ended"]
  /\ fence' = [fence EXCEPT ![r] =
       IF pc[r] \in {"load", "commit"} THEN fence[r] ELSE 0]
  /\ Aborted(r)
  /\ UNCHANGED <<now, tables, jobs, at, nextSweep, erasure, registers>>

(* The transaction commits and its answer is lost.                         *)
CommitLost(r) ==
  /\ pc[r] = "commit"
  /\ Fault
  /\ \E s \in NextUp(r) : CommitTo(r, s, "ended")

Crash(r) ==
  /\ pc[r] # "down"
  /\ Fault
  /\ pc' = [pc EXCEPT ![r] = "down"]
  /\ at' = [at EXCEPT ![r] = 0]
  /\ fence' = [fence EXCEPT ![r] = 0]
  /\ nextSweep' = [nextSweep EXCEPT ![r] = 0]
  /\ Aborted(r)
  /\ UNCHANGED <<now, tables, jobs, erasure, registers>>

Restart(r) ==
  /\ pc[r] = "down"
  /\ pc' = [pc EXCEPT ![r] = "idle"]
  /\ UNCHANGED <<now, tables, jobs, at, fence, plan, todo, nextSweep, erasure, faults, registers>>

-----------------------------------------------------------------------------
(* The rest of the application.                                            *)

(* Workers claim and settle jobs, operators replay them, done rows expire. *)
(* Rows an open erasure has deleted are locked.                            *)
QueueStep ==
  /\ \/ \E o \in fired :
          \/ Queue!Dequeue(o) \/ Queue!Ack(o) \/ Queue!Nack(o)
          \/ Queue!Replay(o)
     \/ Queue!Expire
  /\ \A o \in doomed : phase'[o] = phase[o]
  /\ UNCHANGED <<now, tables, jobDef, fired, pass, nextSweep, erasure, faults, registers>>

(* EraseUserData runs its erasers by name in one transaction: queue_jobs,  *)
(* whose deletions others do not see yet (bound: one erasure of a user     *)
(* between registrations that name them) ...                               *)
EraseJobs(u) ==
  /\ erasing = NoUser /\ u \notin erased /\ Fault
  /\ erasing' = u
  /\ doomed' = {o \in Occurrences : phase[o] # "absent" /\ jobDef[o].user = u}
  /\ UNCHANGED <<now, tables, jobs, pass, nextSweep, erased, wiped, registers>>

(* ... then queue_scheduler_schedules, and the commit.                     *)
EraseSchedules ==
  /\ erasing # NoUser
  /\ sched' = [s \in Schedules |->
       IF Registered(s) /\ sched[s].def.user = erasing THEN NoSchedule
       ELSE sched[s]]
  /\ phase' = [o \in Occurrences |-> IF o \in doomed THEN "absent" ELSE phase[o]]
  /\ jobDef' = [o \in Occurrences |-> IF o \in doomed THEN NoDef ELSE jobDef[o]]
  /\ erased' = erased \cup {erasing}
  /\ wiped' = wiped \cup {s \in Schedules :
                          Registered(s) /\ sched[s].def.user = erasing}
  /\ erasing' = NoUser
  /\ doomed' = {}
  /\ UNCHANGED <<now, lease, occ, fired, pass, nextSweep, faults, registers>>

Tick ==
  /\ now < MaxTime
  /\ now' = now + 1
  /\ UNCHANGED <<tables, jobs, pass, nextSweep, erasure, faults, registers>>

-----------------------------------------------------------------------------
Init ==
  /\ now = 0
  /\ lease = [owner |-> "none", fence |-> 0, expires |-> 0]
  /\ sched = [s \in Schedules |-> NoSchedule]
  /\ occ = [o \in Occurrences |-> NoOccurrence]
  /\ phase = [o \in Occurrences |-> "absent"]
  /\ jobDef = [o \in Occurrences |-> NoDef]
  /\ pc = [r \in Replicas |-> "idle"]
  /\ at = [r \in Replicas |-> 0]
  /\ fence = [r \in Replicas |-> 0]
  /\ plan = [r \in Replicas |-> [s \in Schedules |-> NoSchedule]]
  /\ todo = [r \in Replicas |-> {}]
  /\ nextSweep = [r \in Replicas |-> 0]
  /\ erasing = NoUser /\ doomed = {} /\ erased = {} /\ wiped = {}
  /\ faults = 0 /\ registers = 0 /\ fired = {}

(* A pass once it has read the clock.                                      *)
PassStep(r) ==
  \/ TakeLease(r) \/ Heartbeat(r) \/ Confirm(r) \/ Load(r)
  \/ Commit(r) \/ Skip(r) \/ SweepOccurrences(r)

ReplicaFault(r) == PassFails(r) \/ CommitLost(r) \/ Crash(r)

Environment ==
  \/ QueueStep
  \/ \E u \in Users : EraseJobs(u)
  \/ EraseSchedules

Next ==
  \/ \E r \in Replicas :
       \/ RunOnce(r) \/ PassStep(r) \/ (Return(r) /\ UNCHANGED faults)
       \/ ReplicaFault(r) \/ Restart(r)
       \/ \E s \in Schedules, d \in Definitions : Register(r, s, d)
  \/ Environment
  \/ Tick

Spec == Init /\ [][Next]_vars

-----------------------------------------------------------------------------
(* Types of the tables, of a replica's memory and of the erasure.          *)
SchedulerTypeOK ==
  /\ now \in 0 .. MaxTime
  /\ lease.fence \in Nat /\ lease.expires \in Nat
  /\ lease.fence > 0 => \E r \in Replicas : lease.owner = OwnerOf[r]
  /\ \A s \in Schedules :
       /\ sched[s].def \in Definitions \cup {NoDef}
       /\ sched[s].next \in Nat /\ sched[s].version \in Nat
  /\ \A o \in Occurrences :
       /\ occ[o].status \in {"none", "enqueued", "missed", "overlap"}
       /\ occ[o].fence \in 0 .. lease.fence
       /\ phase[o] \in Queue!Phases
       /\ phase[o] # "absent" => jobDef[o] \in Definitions
  /\ pc \in [Replicas -> {"idle", "lease", "heartbeat", "confirm", "load",
                          "commit", "ended", "down"}]
  /\ \A r \in Replicas : fence[r] \in 0 .. lease.fence /\ todo[r] \subseteq Schedules
  /\ erasing \in Users \cup {NoUser} /\ doomed \subseteq fired

(* The job of occurrence o is made by this step.                           *)
Enqueues(o) == phase[o] = "absent" /\ phase'[o] # "absent"

(* A tick of a schedule enqueues at most one job, ever: not again when two *)
(* evaluators hold plans of one row, after a lease handoff, or after a     *)
(* sweep removed the occurrence that deduplicates it.  (An erasure deletes *)
(* the version with the row: a registration after it starts at version 0   *)
(* again, which a plan read before may carry.  A schedule with such a past *)
(* is exempt, here and below.)                                             *)
TickOnce == [][\A o \in fired : o[1] \notin wiped => ~Enqueues(o)]_vars

(* A job the scheduler enqueues is the only active one of its schedule: it *)
(* is not enqueued beside an earlier job (a replayed one, one whose        *)
(* occurrence is old, one of a schedule registered anew) and the ticks of  *)
(* an outage do not become a burst.                                        *)
NoOverlap ==
  [][\A o \in Occurrences : Enqueues(o) =>
       \A t \in Clocks \ {o[2]} :
         phase'[<<o[1], t>>] \notin {"pending", "claimed"}]_vars

(* A job is made from the definition stored when it is committed, not from *)
(* one the evaluator read before it was replaced.                          *)
DefinitionFenced ==
  [][\A o \in Occurrences :
       Enqueues(o) /\ o[1] \notin wiped => jobDef'[o] = sched[o[1]].def]_vars

(* A replica that lost the lease records nothing: occurrences carry the    *)
(* fence of the latest acquisition at the time.                            *)
DeposedWritesNothing ==
  [][\A o \in Occurrences :
       occ[o].status = "none" /\ occ'[o].status # "none"
         => occ'[o].fence = lease.fence]_vars

(* No evaluator moves the watermark of a stored schedule back.             *)
WatermarkAdvances ==
  [][\A s \in Schedules :
       s \notin wiped' /\ Registered(s) => sched'[s].next >= sched[s].next]_vars

(* Once a user's erasure has committed, and until a schedule names them    *)
(* again, no job about them exists.                                        *)
ErasedStaysErased ==
  \A u \in erased, o \in Occurrences :
    phase[o] # "absent" => jobDef[o].user # u
=============================================================================
