--------------------------- MODULE SchedulerLoop ---------------------------
(***************************************************************************)
(* DurableScheduler.Start: when each replica runs its passes.  A replica   *)
(* sleeps until its timer fires or a registration in its own process wakes *)
(* it; the holder of the lease sleeps until the next watermark, nobody     *)
(* longer than a third of the lease.                                       *)
(*                                                                         *)
(* Here a pass takes no time: the clock moves only when every running      *)
(* replica is asleep.  What is checked is the timing of the loop itself.   *)
(* Jobs stay as the commit left them: whether a tick is recorded does not  *)
(* depend on what becomes of its job.                                      *)
(***************************************************************************)
EXTENDS DurableScheduler

ASSUME LeaseAssumption == LeaseDuration >= 3

(* Of the deployment: the replicas' clocks agree to within what the lease  *)
(* has left at a heartbeat.                                                *)
ASSUME ClockAssumption ==
  \A r, q \in Replicas :
    Skew[q] + LeaseDuration \div 3 < Skew[r] + LeaseDuration

VARIABLES
  wakeAt,   \* when the timer of each replica fires
  wake,     \* the buffered wake channel
  since     \* auxiliary: what the ticks of a schedule are counted from

loop == <<wakeAt, wake, since>>
loopVars == <<vars, loop>>

HeartbeatPeriod == LeaseDuration \div 3

MaxSkew == Max({Skew[r] : r \in Replicas})

(* nextWakeDelay: up to the earliest watermark after the pass's clock.     *)
UpTo(r, maximum) ==
  LET later == {sched[s].next : s \in {u \in Schedules : Registered(u)}}
      ahead == {n \in later : n > at[r]}
  IN  Min({n - at[r] : n \in ahead} \cup {maximum})

(* Mutant: the owner sleeps until the next watermark, however far it is.   *)
DelayUncapped(r) ==
  IF fence[r] = 0 THEN HeartbeatPeriod ELSE UpTo(r, LeaseDuration)

Delay(r) ==
  IF fence[r] = 0 THEN HeartbeatPeriod ELSE UpTo(r, HeartbeatPeriod)

WakeUp(r) ==
  /\ RunOnce(r)
  /\ \/ wake[r] /\ wake' = [wake EXCEPT ![r] = FALSE]
     \/ wakeAt[r] <= now /\ UNCHANGED wake
  /\ UNCHANGED <<wakeAt, since>>

(* The heartbeat also serves when the owner's read of the next watermark   *)
(* fails.                                                                  *)
Sleep(r) ==
  /\ Return(r)
  /\ \/ /\ wakeAt' = [wakeAt EXCEPT ![r] = now + Delay(r)]
        /\ UNCHANGED faults
     \/ /\ fence[r] # 0
        /\ Fault
        /\ wakeAt' = [wakeAt EXCEPT ![r] = now + HeartbeatPeriod]
  /\ UNCHANGED <<wake, since>>

(* What the ticks of a schedule are counted from: its registration, or the *)
(* watermark it has when another definition replaces the one it had.       *)
Anchor(r, s, d) ==
  CASE ~Registered(s) -> Clock(r)
    [] Registered(s) /\ d = sched[s].def -> since[s]
    [] OTHER -> sched[s].next - (IF d.cron THEN 1 ELSE d.period)

RegisterAndWake(r, s, d) ==
  /\ Register(r, s, d)
  /\ wake' = [wake EXCEPT ![r] = TRUE]
  /\ since' = [since EXCEPT ![s] = Anchor(r, s, d)]
  /\ UNCHANGED wakeAt

(* A process that starts, or starts again, runs a pass at once.            *)
StartAgain(r) ==
  /\ Restart(r)
  /\ wakeAt' = [wakeAt EXCEPT ![r] = now]
  /\ wake' = [wake EXCEPT ![r] = FALSE]
  /\ UNCHANGED since

Asleep(r) ==
  \/ pc[r] = "down"
  \/ pc[r] = "idle" /\ ~wake[r] /\ wakeAt[r] > now

(* The deployment: time does not pass while every replica is down.         *)
Served == \E r \in Replicas : pc[r] # "down"

LoopInit ==
  /\ Init
  /\ wakeAt = [r \in Replicas |-> 0]
  /\ wake = [r \in Replicas |-> FALSE]
  /\ since = [s \in Schedules |-> 0]

LoopNext ==
  \/ \E r \in Replicas :
       \/ WakeUp(r) \/ Sleep(r) \/ StartAgain(r)
       \/ (PassStep(r) \/ ReplicaFault(r)) /\ UNCHANGED loop
       \/ \E s \in Schedules, d \in Definitions : RegisterAndWake(r, s, d)
  \/ (\A r \in Replicas : Asleep(r)) /\ Served /\ Tick /\ UNCHANGED loop

LoopSpec == LoopInit /\ [][LoopNext]_loopVars

-----------------------------------------------------------------------------
(* An instant that the definition of a schedule names.                     *)
IsTick(s, t) ==
  LET d == sched[s].def
  IN  /\ t > since[s]
      /\ IF d.cron THEN Matches(d, t)
         ELSE \E i \in 1 .. t - since[s] : t = since[s] + i * d.period

(* How late the loop may be.  A fault may cost a lease that has to run     *)
(* out, by the clock furthest ahead, and the sleep of the replica that     *)
(* takes over; a registration, which nobody tells the leader of, or which  *)
(* invalidates the plan of its pass, a heartbeat.                          *)
Delays(f, n) ==
  f * (LeaseDuration + HeartbeatPeriod + MaxSkew) + n * HeartbeatPeriod

Grace == Delays(faults, registers)

(* The cap on catching up is for longer outages than these.                *)
ASSUME CatchUpAssumption ==
  Delays(MaxFaults, MaxRegisters) + MaxSkew <= MaxCatchUp

(* Retention may have removed the occurrence of t.                         *)
Retired(t) == Retention > 0 /\ t + Retention < now + MaxSkew

(* Every tick of a schedule is on record (as fired, overlapped or missed)  *)
(* soon after its time, although the leader may crash between any two      *)
(* statements, a commit may fail, the schedule may be registered again at  *)
(* any time, as it was or otherwise, and another schedule's row may be     *)
(* corrupt.                                                                *)
EveryTickServed ==
  \A s \in Schedules \ Poisoned : Registered(s) =>
    \A t \in Clocks :
      IsTick(s, t) /\ t + Grace <= now => occ[<<s, t>>].status # "none" \/ Retired(t)

(* While nothing fails, leadership never moves: the heartbeat outruns the  *)
(* lease.                                                                  *)
LeaderKeepsLease == faults = 0 => lease.fence <= 1
=============================================================================
