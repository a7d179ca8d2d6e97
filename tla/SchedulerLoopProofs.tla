------------------------ MODULE SchedulerLoopProofs ------------------------
(***************************************************************************)
(* The timing of the scheduler's loop for any number of replicas and       *)
(* schedules, any lease of three units or more and any clocks that agree   *)
(* to within two thirds of it: while nothing fails leadership never moves, *)
(* and whatever fails every tick is on record within its grace.            *)
(***************************************************************************)
EXTENDS SchedulerLoop, DurableSchedulerProofs, FiniteSetTheorems, WellFoundedInduction

-----------------------------------------------------------------------------
(* The inductive invariant, of the states in which nothing has failed.     *)

InPass(r) == pc[r] \notin {"idle", "down"}

(* A pass takes no time, and nobody is down.                               *)
PassesAtOnce ==
  \A r \in Replicas : pc[r] # "down" /\ (InPass(r) => at[r] = Clock(r))

(* Nobody sleeps past a heartbeat.                                         *)
WakesSoon ==
  /\ wakeAt \in [Replicas -> Nat]
  /\ \A r \in Replicas : wakeAt[r] <= now + HeartbeatPeriod

(* l, an owner of the lease, will renew what m's clock wrote in time.      *)
Renews(l, m) ==
  /\ OwnerOf[l] = lease.owner
  /\ pc[l] = "idle" =>
       /\ now <= wakeAt[l]
       /\ wakeAt[l] + Skew[m] + LeaseDuration <= lease.expires + HeartbeatPeriod
  /\ pc[l] \in {"lease", "heartbeat"} =>
       now + Skew[m] + LeaseDuration <= lease.expires + HeartbeatPeriod
  /\ pc[l] \in {"confirm", "load", "commit", "ended"} =>
       now + Skew[m] + LeaseDuration <= lease.expires

(* The lease is the first one, and somebody is about to renew it.          *)
LeaseRenewed ==
  lease.fence > 0 => lease.fence = 1 /\ \E l, m \in Replicas : Renews(l, m)

Undisturbed == IInv /\ PassesAtOnce /\ WakesSoon /\ LeaseRenewed

LoopInv == faults \in Nat /\ (faults = 0 => Undisturbed)

-----------------------------------------------------------------------------
(* The heartbeat, and the delays of the loop.                              *)

(* The heartbeat period is a positive part of the lease.                   *)
LEMMA PeriodFacts ==
  /\ HeartbeatPeriod \in Nat /\ LeaseDuration \in Nat
  /\ \A r \in Replicas : Skew[r] \in Nat
  /\ \A r, q \in Replicas : Skew[q] + HeartbeatPeriod < Skew[r] + LeaseDuration
BY LeaseAssumption, ClockAssumption, ConstantsAssumption DEF HeartbeatPeriod

(* Sets of naturals have a least member.                                   *)
LEMMA MinFacts ==
  ASSUME NEW S \in SUBSET Nat, S # {}
  PROVE  Min(S) \in S /\ \A y \in S : Min(S) <= y
<1>1. PICK x \in S : \A y \in S : ~(<<y, x>> \in OpToRel(<, Nat))
  BY NatLessThanWellFounded, WFMin, Zenon
<1>2. \A y \in S : ~(y < x)
  BY <1>1 DEF OpToRel
<1>3. \A y \in S : x <= y
  BY <1>2
<1> QED BY <1>3 DEF Min

(* No replica sleeps longer than a heartbeat.                              *)
LEMMA DelayFacts ==
  ASSUME IInv, NEW r \in Replicas
  PROVE  Delay(r) \in Nat /\ Delay(r) <= HeartbeatPeriod
<1> DEFINE later == {sched[s].next : s \in {u \in Schedules : Registered(u)}}
           ahead == {n \in later : n > at[r]}
           S == {n - at[r] : n \in ahead} \cup {HeartbeatPeriod}
<1>1. at[r] \in Nat /\ \A s \in Schedules : sched[s].next \in Nat
  BY DEF IInv, Basics, Rows
<1>2. \A n \in ahead : n \in Nat /\ n > at[r]
  BY <1>1
<1>3. S \in SUBSET Nat /\ HeartbeatPeriod \in S
  BY <1>1, <1>2, PeriodFacts
<1>4. UpTo(r, HeartbeatPeriod) = Min(S)
  BY DEF UpTo
<1> HIDE DEF S
<1>5. Min(S) \in Nat /\ Min(S) <= HeartbeatPeriod
  BY <1>3, MinFacts
<1> QED BY <1>4, <1>5, PeriodFacts DEF Delay

(* As long as somebody is about to renew it, nobody finds it expired.      *)
LEMMA NotExpired ==
  ASSUME Undisturbed, lease.fence > 0, NEW q \in Replicas, InPass(q)
  PROVE  lease.expires > at[q]
<1>1. PICK l, m \in Replicas : Renews(l, m)
  BY DEF Undisturbed, LeaseRenewed
<1>2. /\ now \in Nat /\ lease.expires \in Nat /\ wakeAt[l] \in Nat
      /\ pc[l] \in {"idle", "lease", "heartbeat", "confirm", "load", "commit",
                    "ended", "down"}
      /\ pc[l] # "down" /\ at[q] = now + Skew[q]
  BY DEF Undisturbed, IInv, Basics, WakesSoon, PassesAtOnce, Clock
<1>3. now + Skew[m] + LeaseDuration <= lease.expires + HeartbeatPeriod
  BY <1>1, <1>2, PeriodFacts DEF Renews
<1>4. /\ Skew[q] + HeartbeatPeriod < Skew[m] + LeaseDuration
      /\ {Skew[q], Skew[m], HeartbeatPeriod, LeaseDuration} \subseteq Nat
  BY PeriodFacts
<1> QED BY <1>2, <1>3, <1>4

-----------------------------------------------------------------------------
(* Every step keeps the invariant.                                         *)

Late == {"confirm", "load", "commit", "ended"}

(* The types the steps need.                                               *)
LEMMA LoopTypes ==
  ASSUME Undisturbed
  PROVE  /\ now \in Nat /\ lease.expires \in Nat /\ lease.fence \in Nat
         /\ pc \in [Replicas -> {"idle", "lease", "heartbeat", "confirm", "load",
                                 "commit", "ended", "down"}]
         /\ at \in [Replicas -> Nat] /\ wakeAt \in [Replicas -> Nat]
         /\ DOMAIN lease = {"owner", "fence", "expires"}
BY DEF Undisturbed, IInv, Basics, WakesSoon

(* Steps of a pass that leave the lease alone.                             *)
LEMMA PassGoesOn ==
  ASSUME Undisturbed, NEW r \in Replicas, UNCHANGED <<now, lease, wakeAt, at>>,
         NEW p \in Late, pc[r] \in Late, pc' = [pc EXCEPT ![r] = p]
  PROVE  PassesAtOnce' /\ WakesSoon' /\ LeaseRenewed'
<1>1. /\ \A q \in Replicas \ {r} : pc'[q] = pc[q]
      /\ pc'[r] \in Late
  BY LoopTypes
<1>2. PassesAtOnce' /\ WakesSoon'
  BY <1>1, LoopTypes DEF Undisturbed, PassesAtOnce, WakesSoon, InPass, Clock, Late
<1>3. \A l, m \in Replicas : Renews(l, m) => Renews(l, m)'
  BY <1>1 DEF Renews, Late
<1>4. LeaseRenewed'
  BY <1>3 DEF Undisturbed, LeaseRenewed
<1> QED BY <1>2, <1>4

(* The lease: taken once, and renewed from then on.                        *)
LEMMA TakeLeaseKeeps ==
  ASSUME Undisturbed, NEW r \in Replicas, TakeLease(r), UNCHANGED loop
  PROVE  PassesAtOnce' /\ WakesSoon' /\ LeaseRenewed'
<1>0. UNCHANGED <<now, at, wakeAt>> /\ pc[r] = "lease" /\ InPass(r)
  BY DEF TakeLease, loop, InPass
<1>1. /\ \A q \in Replicas \ {r} : pc'[q] = pc[q]
      /\ pc'[r] \in {"load", "confirm", "heartbeat"}
  BY LoopTypes DEF TakeLease
<1>2. PassesAtOnce' /\ WakesSoon'
  BY <1>0, <1>1, LoopTypes DEF Undisturbed, PassesAtOnce, WakesSoon, InPass, Clock
<1>3. CASE lease.fence = 0
  <2>1. /\ lease' = [owner |-> OwnerOf[r], fence |-> 1, expires |-> Expires(r)]
        /\ pc'[r] = "load"
    BY <1>3, LoopTypes DEF TakeLease
  <2>2. Expires(r) = now + Skew[r] + LeaseDuration
    BY <1>0 DEF Expires, Undisturbed, PassesAtOnce, Clock
  <2>3. lease'.owner = OwnerOf[r] /\ lease'.fence = 1 /\ lease'.expires = Expires(r)
    BY <2>1
  <2>4. now + Skew[r] + LeaseDuration <= lease'.expires
    BY <2>2, <2>3, LoopTypes, PeriodFacts
  <2>5. Renews(r, r)'
    BY <1>0, <2>1, <2>3, <2>4 DEF Renews
  <2> QED BY <1>2, <2>3, <2>5 DEF LeaseRenewed
<1>4. CASE lease.fence # 0
  <2>1. lease.fence > 0 /\ lease.expires > at[r] /\ lease.expires \in Nat /\ at[r] \in Nat
    BY <1>0, <1>4, NotExpired, LoopTypes
  <2>2. lease' = lease /\ pc'[r] = "heartbeat"
    BY <2>1, LoopTypes DEF TakeLease
  <2>3. \A l, m \in Replicas : Renews(l, m) => Renews(l, m)'
    BY <1>0, <1>1, <2>2 DEF Renews
  <2> QED BY <1>2, <2>2, <2>3 DEF Undisturbed, LeaseRenewed
<1> QED BY <1>3, <1>4

(* Its owner always finds it, and extends it.                              *)
LEMMA HeartbeatKeeps ==
  ASSUME Undisturbed, NEW r \in Replicas, Heartbeat(r), UNCHANGED loop
  PROVE  PassesAtOnce' /\ WakesSoon' /\ LeaseRenewed'
<1>0. UNCHANGED <<now, at, wakeAt>> /\ pc[r] = "heartbeat" /\ InPass(r)
  BY DEF Heartbeat, loop, InPass
<1>1. /\ \A q \in Replicas \ {r} : pc'[q] = pc[q]
      /\ pc'[r] \in {"confirm", "ended"}
  BY LoopTypes DEF Heartbeat
<1>2. PassesAtOnce' /\ WakesSoon'
  BY <1>0, <1>1, LoopTypes DEF Undisturbed, PassesAtOnce, WakesSoon, InPass, Clock
<1>3. lease'.fence = lease.fence /\ lease'.owner = lease.owner
  BY LoopTypes DEF Heartbeat
<1> SUFFICES ASSUME lease.fence > 0 PROVE LeaseRenewed'
  BY <1>2, <1>3 DEF LeaseRenewed
<1>4. PICK l, m \in Replicas : Renews(l, m)
  BY DEF Undisturbed, LeaseRenewed
<1>5. lease.fence = 1
  BY DEF Undisturbed, LeaseRenewed
<1>6. CASE lease.owner = OwnerOf[r] /\ lease.expires > at[r]
  <2>1. lease'.expires = now + Skew[r] + LeaseDuration
    BY <1>0, <1>6, LoopTypes DEF Heartbeat, Expires, Undisturbed, PassesAtOnce, Clock
  <2>2. pc'[r] = "confirm"
    BY <1>6, LoopTypes DEF Heartbeat
  <2>3. /\ wakeAt[l] \in Nat /\ wakeAt[l] <= now + HeartbeatPeriod /\ now \in Nat
        /\ Skew[r] \in Nat /\ LeaseDuration \in Nat /\ HeartbeatPeriod \in Nat
    BY LoopTypes, PeriodFacts DEF Undisturbed, WakesSoon
  <2>4. /\ wakeAt[l] + Skew[r] + LeaseDuration <= lease'.expires + HeartbeatPeriod
        /\ now + Skew[r] + LeaseDuration <= lease'.expires + HeartbeatPeriod
        /\ now + Skew[r] + LeaseDuration <= lease'.expires
    BY <2>1, <2>3
  <2>5. pc'[l] = "idle" => now <= wakeAt[l]
    BY <1>1, <1>4, <2>2 DEF Renews
  <2>6. Renews(l, r)'
    BY <1>0, <1>3, <1>4, <2>4, <2>5 DEF Renews
  <2> QED BY <1>3, <1>5, <2>6 DEF LeaseRenewed
<1>7. CASE ~(lease.owner = OwnerOf[r] /\ lease.expires > at[r])
  <2>1. lease' = lease
    BY <1>7 DEF Heartbeat
  <2>2. l # r
    BY <1>0, <1>4, <1>7, NotExpired DEF Renews
  <2>3. Renews(l, m)'
    BY <1>0, <1>1, <1>4, <2>1, <2>2 DEF Renews
  <2> QED BY <1>3, <1>5, <2>3 DEF LeaseRenewed
<1> QED BY <1>6, <1>7

(* The steps of a pass.                                                    *)
LEMMA PassStepKeeps ==
  ASSUME Undisturbed, NEW r \in Replicas, PassStep(r), UNCHANGED loop
  PROVE  PassesAtOnce' /\ WakesSoon' /\ LeaseRenewed'
<1>1. CASE TakeLease(r)
  BY <1>1, TakeLeaseKeeps
<1>2. CASE Heartbeat(r)
  BY <1>2, HeartbeatKeeps
<1>3. CASE Confirm(r) \/ Load(r) \/ SweepOccurrences(r) \/ Skip(r) \/ Commit(r)
  <2>1. UNCHANGED <<now, lease, wakeAt, at>> /\ pc[r] \in Late
    BY <1>3 DEF Confirm, Load, SweepOccurrences, Skip, Commit, CommitTo, tables,
                loop, Late
  <2>2. \E p \in Late : pc' = [pc EXCEPT ![r] = p]
    <3>1. CASE Confirm(r)
      BY <3>1 DEF Confirm, Late
    <3>2. CASE Load(r) \/ SweepOccurrences(r) \/ Commit(r)
      BY <3>2 DEF Load, SweepOccurrences, Commit, CommitTo, Late
    <3>3. CASE Skip(r)
      <4>1. pc' = pc /\ pc[r] = "commit"
        BY <3>3 DEF Skip
      <4>2. pc' = [pc EXCEPT ![r] = "commit"]
        BY <4>1, LoopTypes
      <4> QED BY <4>2 DEF Late
    <3> QED BY <1>3, <3>1, <3>2, <3>3
  <2> QED BY <2>1, <2>2, PassGoesOn
<1> QED BY <1>1, <1>2, <1>3 DEF PassStep

(* A pass begins: the lease has at least what a sleep leaves.              *)
LEMMA WakeUpKeeps ==
  ASSUME Undisturbed, NEW r \in Replicas, WakeUp(r)
  PROVE  PassesAtOnce' /\ WakesSoon' /\ LeaseRenewed'
<1>1. UNCHANGED <<now, lease, wakeAt>> /\ pc[r] = "idle"
  BY DEF WakeUp, RunOnce, tables
<1>2. /\ \A q \in Replicas \ {r} : pc'[q] = pc[q] /\ at'[q] = at[q]
      /\ pc'[r] = "lease" /\ at'[r] = Clock(r)
  BY LoopTypes DEF WakeUp, RunOnce
<1>3. PassesAtOnce' /\ WakesSoon'
  BY <1>1, <1>2, LoopTypes DEF Undisturbed, PassesAtOnce, WakesSoon, InPass, Clock
<1>4. ASSUME NEW l \in Replicas, NEW m \in Replicas, Renews(l, m)
      PROVE  Renews(l, m)'
  <2>1. CASE l = r
    <3>1. now + Skew[m] + LeaseDuration <= lease.expires + HeartbeatPeriod
      BY <1>1, <1>4, <2>1, LoopTypes, PeriodFacts DEF Renews
    <3> QED BY <1>1, <1>2, <1>4, <2>1, <3>1 DEF Renews
  <2>2. CASE l # r
    BY <1>1, <1>2, <1>4, <2>2 DEF Renews
  <2> QED BY <2>1, <2>2
<1>5. LeaseRenewed'
  BY <1>1, <1>4 DEF Undisturbed, LeaseRenewed
<1> QED BY <1>3, <1>5

(* A pass ends: the next one is at most a heartbeat away.                  *)
LEMMA SleepKeeps ==
  ASSUME Undisturbed, NEW r \in Replicas, Sleep(r), faults' = faults, faults \in Nat
  PROVE  PassesAtOnce' /\ WakesSoon' /\ LeaseRenewed'
<1>0. wakeAt' = [wakeAt EXCEPT ![r] = now + Delay(r)]
  <2>1. ~Fault
    BY DEF Fault
  <2> QED BY <2>1 DEF Sleep
<1>1. UNCHANGED <<now, lease>> /\ pc[r] = "ended"
  BY DEF Sleep, Return, tables
<1>2. /\ \A q \in Replicas \ {r} : pc'[q] = pc[q] /\ at'[q] = at[q]
      /\ pc'[r] = "idle"
  BY LoopTypes DEF Sleep, Return
<1>3. Delay(r) \in Nat /\ Delay(r) <= HeartbeatPeriod
  BY DelayFacts DEF Undisturbed
<1>4. /\ wakeAt' \in [Replicas -> Nat] /\ wakeAt'[r] = now + Delay(r)
      /\ \A q \in Replicas \ {r} : wakeAt'[q] = wakeAt[q]
      /\ now <= wakeAt'[r] /\ wakeAt'[r] <= now + HeartbeatPeriod
  BY <1>0, <1>3, LoopTypes, PeriodFacts
<1>5. PassesAtOnce' /\ WakesSoon'
  BY <1>1, <1>2, <1>4 DEF Undisturbed, PassesAtOnce, WakesSoon, InPass, Clock
<1>6. ASSUME NEW l \in Replicas, NEW m \in Replicas, Renews(l, m)
      PROVE  Renews(l, m)'
  <2>1. CASE l = r
    <3>1. now + Skew[m] + LeaseDuration <= lease.expires
      BY <1>1, <1>6, <2>1 DEF Renews
    <3>2. wakeAt'[r] + Skew[m] + LeaseDuration <= lease.expires + HeartbeatPeriod
      BY <1>3, <1>4, <3>1, LoopTypes, PeriodFacts
    <3> QED BY <1>1, <1>2, <1>4, <1>6, <2>1, <3>2 DEF Renews
  <2>2. CASE l # r
    BY <1>1, <1>2, <1>4, <1>6, <2>2 DEF Renews
  <2> QED BY <2>1, <2>2
<1>7. LeaseRenewed'
  BY <1>1, <1>6 DEF Undisturbed, LeaseRenewed
<1> QED BY <1>5, <1>7

(* Time passes only while everybody sleeps, so nobody oversleeps.          *)
LEMMA LoopTickKeeps ==
  ASSUME Undisturbed, Tick, UNCHANGED loop, \A r \in Replicas : Asleep(r)
  PROVE  PassesAtOnce' /\ WakesSoon' /\ LeaseRenewed'
<1>1. UNCHANGED <<lease, pc, at, wakeAt>> /\ now' = now + 1
  BY DEF Tick, tables, pass, loop
<1>2. \A r \in Replicas : pc[r] = "idle" /\ wakeAt[r] > now
  BY DEF Asleep, Undisturbed, PassesAtOnce
<1>3. /\ now \in Nat /\ HeartbeatPeriod \in Nat
      /\ \A r \in Replicas : wakeAt[r] \in Nat /\ wakeAt[r] <= now + HeartbeatPeriod
  BY LoopTypes, PeriodFacts DEF Undisturbed, WakesSoon
<1>4. \A r \in Replicas : now' <= wakeAt'[r] /\ wakeAt'[r] <= now' + HeartbeatPeriod
  BY <1>1, <1>2, <1>3
<1>5. PassesAtOnce' /\ WakesSoon'
  BY <1>1, <1>2, <1>4, LoopTypes DEF PassesAtOnce, WakesSoon, InPass
<1>6. \A l, m \in Replicas : Renews(l, m) => Renews(l, m)'
  BY <1>1, <1>2, <1>4 DEF Renews
<1>7. LeaseRenewed'
  BY <1>1, <1>6 DEF Undisturbed, LeaseRenewed
<1> QED BY <1>5, <1>7

(* Steps that concern none of it.                                          *)
LEMMA LoopRests ==
  ASSUME Undisturbed, UNCHANGED <<now, lease, pc, at, wakeAt>>
  PROVE  PassesAtOnce' /\ WakesSoon' /\ LeaseRenewed'
BY DEF Undisturbed, PassesAtOnce, WakesSoon, LeaseRenewed, Renews, InPass, Clock

(* Faults are counted.                                                     *)
LEMMA FaultsCounted ==
  ASSUME [LoopNext]_loopVars, faults \in Nat
  PROVE  faults' \in Nat /\ (faults' = 0 => faults' = faults)
<1>1. faults' = faults \/ faults' = faults + 1
  BY DEF LoopNext, WakeUp, RunOnce, Sleep, StartAgain, Restart, PassStep, TakeLease,
         Heartbeat, Confirm, Load, Commit, Skip, SweepOccurrences, ReplicaFault,
         PassFails, CommitLost, Crash, Fault, RegisterAndWake, Register, Tick,
         loopVars, vars
<1> QED BY <1>1

(* LoopInv is inductive.                                                   *)
LEMMA LoopInvInductive == LoopInv /\ [LoopNext]_loopVars => LoopInv'
<1> SUFFICES ASSUME LoopInv, [LoopNext]_loopVars PROVE LoopInv'
  OBVIOUS
<1>1. faults' \in Nat /\ (faults' = 0 => faults' = faults) /\ faults \in Nat
  BY FaultsCounted DEF LoopInv
<1> SUFFICES ASSUME faults' = 0 PROVE Undisturbed'
  BY <1>1 DEF LoopInv
<1>2. faults = 0 /\ faults' = faults /\ Undisturbed
  BY <1>1 DEF LoopInv
<1>3. \A r \in Replicas : ~ReplicaFault(r) /\ ~StartAgain(r)
  BY <1>2 DEF ReplicaFault, PassFails, CommitLost, Crash, Fault, StartAgain,
              Restart, Undisturbed, PassesAtOnce
<1>4. \/ \E r \in Replicas :
           \/ WakeUp(r) \/ Sleep(r) \/ (PassStep(r) /\ UNCHANGED loop)
           \/ \E s \in Schedules, d \in Definitions : RegisterAndWake(r, s, d)
      \/ (\A r \in Replicas : Asleep(r)) /\ Tick /\ UNCHANGED loop
      \/ UNCHANGED loopVars
  BY <1>3 DEF LoopNext
<1>5. [Next]_vars
  BY <1>2, <1>4 DEF Next, WakeUp, Sleep, RegisterAndWake, loopVars
<1>6. IInv'
  BY <1>2, <1>5, IInvInductive DEF Undisturbed
<1>7. CASE \E r \in Replicas : \E s \in Schedules, d \in Definitions :
             RegisterAndWake(r, s, d)
  <2>1. UNCHANGED <<now, lease, pc, at, wakeAt>>
    BY <1>7 DEF RegisterAndWake, Register, pass
  <2> QED BY <1>2, <1>6, <2>1, LoopRests DEF Undisturbed
<1>8. CASE UNCHANGED loopVars
  <2>1. UNCHANGED <<now, lease, pc, at, wakeAt>>
    BY <1>8 DEF loopVars, vars, tables, pass, loop
  <2> QED BY <1>2, <1>6, <2>1, LoopRests DEF Undisturbed
<1>9. CASE (\A r \in Replicas : Asleep(r)) /\ Tick /\ UNCHANGED loop
  BY <1>2, <1>6, <1>9, LoopTickKeeps DEF Undisturbed
<1>10. CASE \E r \in Replicas : PassStep(r) /\ UNCHANGED loop
  BY <1>2, <1>6, <1>10, PassStepKeeps DEF Undisturbed
<1>11. CASE \E r \in Replicas : WakeUp(r) \/ Sleep(r)
  BY <1>2, <1>6, <1>11, WakeUpKeeps, SleepKeeps DEF Undisturbed
<1> QED BY <1>4, <1>7, <1>8, <1>9, <1>10, <1>11

(* LoopInv holds at the start.                                             *)
LEMMA LoopInitHolds == LoopInit => LoopInv
<1> SUFFICES ASSUME LoopInit PROVE LoopInv
  OBVIOUS
<1>1. IInv
  BY InitHolds DEF LoopInit
<1>2. PassesAtOnce /\ WakesSoon /\ LeaseRenewed
  BY PeriodFacts DEF LoopInit, Init, PassesAtOnce, InPass, WakesSoon, LeaseRenewed
<1> QED BY <1>1, <1>2 DEF LoopInit, Init, LoopInv, Undisturbed

(* While nothing fails the lease is never taken over: the replica that     *)
(* took it first, or another of its name, wakes up and extends it before   *)
(* the clock that runs furthest ahead can see it expired.                  *)
THEOREM LeaderKeepsLeaseHolds == LoopSpec => []LeaderKeepsLease
<1>1. LoopInv => LeaderKeepsLease
  <2> SUFFICES ASSUME LoopInv, faults = 0 PROVE lease.fence <= 1
    BY DEF LeaderKeepsLease
  <2>1. Undisturbed
    BY DEF LoopInv
  <2>2. lease.fence \in Nat /\ (lease.fence > 0 => lease.fence = 1)
    BY <2>1, LoopTypes DEF Undisturbed, LeaseRenewed
  <2> QED BY <2>2
<1>2. LoopSpec => []LoopInv
  BY LoopInitHolds, LoopInvInductive, PTL DEF LoopSpec
<1> QED BY <1>1, <1>2, PTL

-----------------------------------------------------------------------------
(* The ticks of an outage that the cap on catching up does not cut.        *)

(* Nothing is dropped of a set of instants no wider than the cap.          *)
LEMMA NewestIsAll ==
  ASSUME NEW a \in Nat, NEW b \in Nat, NEW n \in Nat, b - a < n,
         NEW S \in SUBSET (a .. b)
  PROVE  Newest(S, n) = S
<1> SUFFICES ASSUME NEW t \in S PROVE Cardinality({u \in S : u > t}) < n
  BY DEF Newest
<1> DEFINE later == {u \in S : u > t}
<1>1. t \in Nat /\ a <= t /\ t <= b
  OBVIOUS
<1>2. later \subseteq t + 1 .. b
  <2> SUFFICES ASSUME NEW u \in S, u > t PROVE u \in t + 1 .. b
    BY DEF later
  <2>1. u \in Int /\ u <= b
    OBVIOUS
  <2> QED BY <1>1, <2>1
<1>3. IsFiniteSet(t + 1 .. b) /\ Cardinality(t + 1 .. b) = b - t
  <2>1. /\ IsFiniteSet(t + 1 .. b)
        /\ Cardinality(t + 1 .. b) = IF t + 1 > b THEN 0 ELSE b - (t + 1) + 1
    BY <1>1, FS_Interval
  <2> QED BY <1>1, <2>1
<1>4. IsFiniteSet(later) /\ Cardinality(later) <= Cardinality(t + 1 .. b)
  BY <1>2, <1>3, FS_Subset
<1>5. Cardinality(later) \in Nat
  BY <1>4, FS_CardinalityType
<1> QED BY <1>1, <1>3, <1>4, <1>5

(* Division by a period does not enlarge, and its remainder is short.      *)
LEMMA DivFacts ==
  ASSUME NEW x \in Nat, NEW p \in Nat \ {0}
  PROVE  /\ x \div p \in Nat /\ x \div p <= x
         /\ x < (x \div p + 1) * p
<1> DEFINE q == x \div p
<1>1. q \in Nat /\ x = p * q + (x % p) /\ x % p \in 0 .. p - 1
  OBVIOUS
<1> HIDE DEF q
<1>2. p - 1 \in Nat /\ p * q = q + (p - 1) * q /\ (p - 1) * q \in Nat
  BY <1>1
<1>3. (q + 1) * p = p * q + p /\ p * q \in Nat
  BY <1>1
<1>4. q <= x /\ x < (q + 1) * p
  BY <1>1, <1>2, <1>3
<1> QED BY <1>1, <1>4 DEF q

(* An interval's pass covers every tick up to its clock, and moves the     *)
(* watermark past it by whole periods.                                     *)
LEMMA IntervalCaughtUp ==
  ASSUME NEW d \in Definitions, NEW c \in Nat, NEW t \in Nat, c <= t,
         t - c < MaxCatchUp
  PROVE  \E m \in Nat \ {0} :
           /\ Max(IntervalTicks(d, c, t)) + d.period = c + m * d.period
           /\ c + m * d.period > t
           /\ \A i \in 0 .. m - 1 : c + i * d.period \in IntervalTicks(d, c, t)
<1> DEFINE p == d.period
           q == (t - c) \div p
           m == q + 1
<1>1. p \in Nat \ {0} /\ MaxCatchUp \in Nat /\ t - c \in Nat
  BY ConstantsAssumption
<1>2. q \in Nat /\ q <= t - c /\ t - c < m * p
  BY <1>1, DivFacts
<1>3. Max(IntervalTicks(d, c, t)) = c + q * p
  BY IntervalTicksBounds
<1>4. IntervalTicks(d, c, t) = {c + i * p : i \in 0 .. m - 1}
  <2> DEFINE kept == Min({m, MaxCatchUp})
             first == c + (m - kept) * p
  <2>1. IntervalTicks(d, c, t) = {first + i * p : i \in 0 .. kept - 1}
    BY DEF IntervalTicks
  <2> HIDE DEF q, p
  <2>2. m \in Nat /\ m <= MaxCatchUp
    BY <1>1, <1>2
  <2>3. kept = m
    BY <1>1, <2>2 DEF Min
  <2>4. (m - kept) * p = 0 /\ first = c
    BY <1>1, <2>2, <2>3
  <2> HIDE DEF first, kept
  <2> QED BY <2>1, <2>3, <2>4
<1> HIDE DEF q
<1>5. q * p + p = m * p /\ m \in Nat \ {0} /\ q * p \in Nat /\ m * p \in Nat
  BY <1>1, <1>2
<1>6. c + q * p + p = c + m * p /\ c + m * p > t
  BY <1>1, <1>2, <1>5
<1> QED BY <1>3, <1>4, <1>5, <1>6

(* nextFire skips no match.                                                *)
LEMMA NextFireFirst ==
  ASSUME NEW d \in Definitions, NEW a \in Nat, NEW u \in Nat,
         Matches(d, u), u > a
  PROVE  NextFire(d, a) <= u
<1> DEFINE S == {t \in a + 1 .. a + d.period : Matches(d, t)}
<1>1. d.period \in Nat \ {0} /\ d.offset \in 0 .. d.period - 1
  BY ConstantsAssumption
<1>2. PICK t \in a + 1 .. a + d.period : t % d.period = d.offset
  BY <1>1, MatchExists
<1>3. S \in SUBSET Nat /\ S # {}
  BY <1>1, <1>2 DEF Matches
<1>4. Min(S) \in S /\ \A y \in S : Min(S) <= y
  BY <1>3, MinFacts
<1>5. NextFire(d, a) = Min(S)
  BY DEF NextFire
<1>6. CASE u <= a + d.period
  BY <1>1, <1>4, <1>5, <1>6
<1>7. CASE u > a + d.period
  BY <1>1, <1>4, <1>5, <1>7
<1> QED BY <1>1, <1>6, <1>7

(* The same of a cron spec.                                                *)
LEMMA CronCaughtUp ==
  ASSUME NEW row \in Rows, row.def \in Definitions, row.def.cron,
         NEW t \in Nat, row.next <= t, t - row.next < MaxCatchUp
  PROVE  /\ NextRun(row, t) > t
         /\ \A u \in Nat :
              Matches(row.def, u) /\ row.next <= u /\ u < NextRun(row, t)
                => u \in BoundedDueTicks(row, t)
<1> DEFINE d == row.def
           S == {u \in row.next .. t : Matches(d, u)}
<1>1. row.next \in Nat /\ MaxCatchUp \in Nat
  BY ConstantsAssumption DEF Rows
<1>2. BoundedDueTicks(row, t) = S
  <2>1. S \in SUBSET (row.next .. t)
    OBVIOUS
  <2>2. Newest(S, MaxCatchUp) = S
    BY <1>1, <2>1, NewestIsAll
  <2> QED BY <2>2 DEF BoundedDueTicks
<1>3. CASE S # {}
  <2>1. NextRun(row, t) = NextFire(d, t)
    BY <1>2, <1>3 DEF NextRun
  <2>2. NextRun(row, t) \in Nat /\ NextRun(row, t) > t
    BY <2>1, NextFireLater
  <2>3. ASSUME NEW u \in Nat, Matches(d, u), row.next <= u, u < NextRun(row, t)
        PROVE  u \in S
    BY <1>1, <2>1, <2>2, <2>3, NextFireFirst
  <2> QED BY <1>2, <2>2, <2>3
<1>4. CASE S = {}
  <2>1. NextRun(row, t) = NextFire(d, row.next)
    BY <1>2, <1>4 DEF NextRun
  <2>2. /\ NextFire(d, row.next) \in Nat /\ NextFire(d, row.next) > row.next
        /\ Matches(d, NextFire(d, row.next))
    <3> DEFINE R == {u \in row.next + 1 .. row.next + d.period : Matches(d, u)}
    <3>1. d.period \in Nat \ {0} /\ d.offset \in 0 .. d.period - 1
      BY ConstantsAssumption
    <3>2. R # {} /\ R \in SUBSET Nat
      <4>1. PICK u \in row.next + 1 .. row.next + d.period : u % d.period = d.offset
        BY <1>1, <3>1, MatchExists
      <4>2. u \in R
        BY <4>1 DEF Matches
      <4> QED BY <1>1, <3>1, <4>2
    <3>3. Min(R) \in R
      BY <3>2, MinFacts
    <3> QED BY <1>1, <3>3, NextFireLater DEF NextFire
  <2>3. NextRun(row, t) > t
    BY <1>1, <1>4, <2>1, <2>2
  <2>4. ASSUME NEW u \in Nat, Matches(d, u), row.next <= u, u < NextRun(row, t)
        PROVE  FALSE
    BY <1>1, <1>4, <2>1, <2>2, <2>4, NextFireFirst
  <2> QED BY <2>3, <2>4
<1> QED BY <1>3, <1>4

-----------------------------------------------------------------------------
(* Every tick in time: the inductive invariant, of every state.  Either    *)
(* the lease ends, and everybody is up, in time for the next watermark of  *)
(* each schedule (Unled), or its owner is going to serve it (Led).         *)

Evaluable == {s \in Schedules \ Poisoned : Registered(s)}

(* The watermark of s is to move before this instant.                      *)
Deadline(s) == sched[s].next + Grace

(* Types, and what the loop never does: it erases nothing.                 *)
Counted ==
  /\ faults \in 0 .. MaxFaults /\ registers \in 0 .. MaxRegisters
  /\ \A s \in Schedules : Registered(s) => registers > 0
  /\ wiped = {} /\ since \in [Schedules -> Int]

(* A pass takes no time, nobody sleeps past a heartbeat, and no lease is   *)
(* longer than the one that a clock furthest ahead writes now; before its  *)
(* first INSERT there is none.                                             *)
Punctual ==
  /\ \A r \in Replicas : InPass(r) => at[r] = Clock(r)
  /\ WakesSoon
  /\ \A r \in Replicas : pc[r] = "idle" => now <= wakeAt[r]
  /\ lease.expires <= now + MaxSkew + LeaseDuration
  /\ lease.fence = 0 => lease.expires = 0

InTime == \A s \in Evaluable : now < Deadline(s)

Decided == {"heartbeat", "confirm", "load", "commit", "ended"}

(* r is up in time for s, and if it has found a lease in force already it  *)
(* may sleep once more.                                                    *)
UpFor(r, s) ==
  /\ pc[r] = "idle" => wakeAt[r] < Deadline(s)
  /\ pc[r] \in Decided => now + HeartbeatPeriod < Deadline(s)

(* Nobody may be going to renew the lease, but it ends a heartbeat before  *)
(* the deadline, and whoever is up then finds it expired.                  *)
Unled ==
  /\ faults > 0 \/ lease.expires = 0
  /\ \A s \in Evaluable :
       /\ lease.expires + HeartbeatPeriod <= Deadline(s)
       /\ \A r \in Replicas : UpFor(r, s)

(* l owns the lease and will find it so.                                   *)
Leads(l) ==
  /\ OwnerOf[l] = lease.owner /\ lease.fence > 0 /\ pc[l] # "down"
  /\ pc[l] \in Decided \ {"ended"} => lease.expires > at[l]
  /\ pc[l] \in {"load", "commit"} => fence[l] = lease.fence

(* l, as owner, commits s in this pass, or can afford to in a later one.   *)
Serves(l, s) ==
  /\ pc[l] = "idle" => wakeAt[l] < Deadline(s)
  /\ pc[l] = "commit" =>
       \/ s \in todo[l] /\ PlanCurrent(l, s)
       \/ sched[s].next > at[l]
       \/ now + HeartbeatPeriod < Deadline(s)
  /\ pc[l] = "ended" =>
       \/ fence[l] # 0 /\ sched[s].next > at[l]
       \/ now + HeartbeatPeriod < Deadline(s)

Led == \E l \in Replicas : Leads(l) /\ \A s \in Evaluable : Serves(l, s)

(* The watermark of an interval is a whole number of periods from where    *)
(* its ticks are counted.                                                  *)
Aligned ==
  \A s \in Evaluable :
    /\ since[s] < sched[s].next
    /\ ~sched[s].def.cron =>
         \E k \in Nat \ {0} : sched[s].next = since[s] + k * sched[s].def.period

(* Ticks before the watermark are on record.                               *)
BehindOnRecord ==
  \A s \in Evaluable, t \in Clocks :
    IsTick(s, t) /\ t < sched[s].next => occ[<<s, t>>].status # "none" \/ Retired(t)

RecordedLate ==
  \A s \in Schedules, t \in Clocks :
    occ[<<s, t>>].status # "none" => t <= occ[<<s, t>>].created

Timing == Counted /\ Punctual /\ InTime /\ (Unled \/ Led)

TickInv == IInv /\ Timing /\ Aligned /\ BehindOnRecord /\ RecordedLate

-----------------------------------------------------------------------------
(* The grace.                                                              *)

(* No clock is ahead by more than MaxSkew.                                 *)
LEMMA SkewFacts ==
  MaxSkew \in Nat /\ \A r \in Replicas : Skew[r] \in Nat /\ Skew[r] <= MaxSkew
<1> DEFINE S == {Skew[r] : r \in Replicas}
<1>1. PICK r \in Replicas : \A q \in Replicas : Skew[q] <= Skew[r]
  BY ConstantsAssumption
<1>2. \A q \in Replicas : Skew[q] \in Nat
  BY ConstantsAssumption
<1>3. MaxSkew = Skew[r]
  <2>1. Skew[r] \in S /\ \A y \in S : Skew[r] >= y
    BY <1>1, <1>2
  <2>2. ASSUME NEW x \in S, \A y \in S : x >= y PROVE x = Skew[r]
    BY <1>1, <1>2, <2>2
  <2> QED BY <2>1, <2>2 DEF MaxSkew, Max
<1> QED BY <1>1, <1>2, <1>3

(* What a fault costs.                                                     *)
FaultCost == LeaseDuration + HeartbeatPeriod + MaxSkew

(* The lease is at least three units long, so a heartbeat is at least one. *)
LEMMA CostFacts ==
  /\ HeartbeatPeriod \in Nat \ {0} /\ LeaseDuration \in Nat /\ MaxSkew \in Nat
  /\ FaultCost \in Nat /\ FaultCost = LeaseDuration + HeartbeatPeriod + MaxSkew
BY LeaseAssumption, ConstantsAssumption, SkewFacts DEF HeartbeatPeriod, FaultCost

(* Delays grow by the cost of a fault or of a registration.                *)
LEMMA DelaysGrow ==
  ASSUME NEW f \in Nat, NEW n \in Nat
  PROVE  /\ Delays(f, n) \in Nat
         /\ Delays(f + 1, n) = Delays(f, n) + FaultCost
         /\ Delays(f, n + 1) = Delays(f, n) + HeartbeatPeriod
         /\ n > 0 => Delays(f, n) >= HeartbeatPeriod
         /\ f > 0 => Delays(f, n) >= FaultCost + n * HeartbeatPeriod
         /\ \A g, m \in Nat : f <= g /\ n <= m => Delays(f, n) <= Delays(g, m)
<1> DEFINE C == FaultCost
           H == HeartbeatPeriod
<1>1. C \in Nat /\ H \in Nat \ {0}
  BY CostFacts
<1>2. \A g, m : Delays(g, m) = g * C + m * H
  BY DEF Delays, FaultCost
<1> HIDE DEF C, H
<1>3. f * C \in Nat /\ n * H \in Nat
  BY <1>1
<1>4. (f + 1) * C = f * C + C /\ (n + 1) * H = n * H + H
  BY <1>1
<1>5. n > 0 => n * H >= H
  <2> SUFFICES ASSUME n > 0 PROVE n * H >= H
    OBVIOUS
  <2>1. n - 1 \in Nat /\ n * H = (n - 1) * H + H /\ (n - 1) * H \in Nat
    BY <1>1
  <2> QED BY <1>1, <2>1
<1>6. f > 0 => f * C >= C
  <2> SUFFICES ASSUME f > 0 PROVE f * C >= C
    OBVIOUS
  <2>1. f - 1 \in Nat /\ f * C = (f - 1) * C + C /\ (f - 1) * C \in Nat
    BY <1>1
  <2> QED BY <1>1, <2>1
<1>7. ASSUME NEW g \in Nat, NEW m \in Nat, f <= g, n <= m
      PROVE  Delays(f, n) <= Delays(g, m)
  <2>1. f * C <= g * C /\ n * H <= m * H /\ g * C \in Nat /\ m * H \in Nat
    BY <1>1, <1>7, TimesGrows
  <2> QED BY <1>2, <1>3, <2>1
<1>8. /\ Delays(f, n) = f * C + n * H
      /\ Delays(f + 1, n) = (f + 1) * C + n * H
      /\ Delays(f, n + 1) = f * C + (n + 1) * H
  BY <1>2
<1>9. /\ Delays(f, n) \in Nat
      /\ Delays(f + 1, n) = Delays(f, n) + C
      /\ Delays(f, n + 1) = Delays(f, n) + H
      /\ n > 0 => Delays(f, n) >= H
      /\ f > 0 => Delays(f, n) >= C + n * H
  BY <1>1, <1>3, <1>4, <1>5, <1>6, <1>8
<1> QED BY <1>7, <1>9 DEF C, H

(* The same of a step of the loop; no outage exceeds the cap.              *)
LEMMA GraceFacts ==
  ASSUME Counted
  PROVE  /\ Grace \in Nat /\ Grace + MaxSkew <= MaxCatchUp
         /\ registers > 0 => Grace >= HeartbeatPeriod
         /\ UNCHANGED <<faults, registers>> => Grace' = Grace
         /\ faults' = faults + 1 /\ UNCHANGED registers => Grace' = Grace + FaultCost
         /\ registers' = registers + 1 /\ UNCHANGED faults =>
              /\ Grace' = Grace + HeartbeatPeriod
              /\ faults > 0 => Grace' >= FaultCost + HeartbeatPeriod
<1>1. /\ faults \in Nat /\ registers \in Nat /\ MaxFaults \in Nat /\ MaxRegisters \in Nat
      /\ faults <= MaxFaults /\ registers <= MaxRegisters
  BY ConstantsAssumption DEF Counted
<1>2. Grace \in Nat /\ Grace <= Delays(MaxFaults, MaxRegisters)
  BY <1>1, DelaysGrow DEF Grace
<1>3. Delays(MaxFaults, MaxRegisters) + MaxSkew <= MaxCatchUp
  BY CatchUpAssumption
<1>4. /\ Delays(MaxFaults, MaxRegisters) \in Nat /\ MaxSkew \in Nat
      /\ MaxCatchUp \in Nat
  BY <1>1, DelaysGrow, SkewFacts, ConstantsAssumption
<1>5. Grace + MaxSkew <= MaxCatchUp
  BY <1>2, <1>3, <1>4
<1>6. registers > 0 => Grace >= HeartbeatPeriod
  BY <1>1, DelaysGrow DEF Grace
<1>7. UNCHANGED <<faults, registers>> => Grace' = Grace
  BY DEF Grace
<1>8. faults' = faults + 1 /\ UNCHANGED registers => Grace' = Grace + FaultCost
  BY <1>1, DelaysGrow DEF Grace
<1>9. ASSUME registers' = registers + 1, UNCHANGED faults
      PROVE  /\ Grace' = Grace + HeartbeatPeriod
             /\ faults > 0 => Grace' >= FaultCost + HeartbeatPeriod
  <2>1. Grace' = Grace + HeartbeatPeriod
    BY <1>1, <1>9, DelaysGrow DEF Grace
  <2>2. faults > 0 => Grace >= FaultCost + registers * HeartbeatPeriod
    BY <1>1, DelaysGrow DEF Grace
  <2>3. registers * HeartbeatPeriod \in Nat
    BY <1>1, CostFacts
  <2> QED BY <1>2, <2>1, <2>2, <2>3, CostFacts
<1> QED BY <1>2, <1>5, <1>6, <1>7, <1>8, <1>9

-----------------------------------------------------------------------------
(* What a step does to the watermarks.                                     *)

(* The types that the steps need.                                          *)
LEMMA TimingTypes ==
  ASSUME IInv, Timing
  PROVE  /\ now \in Nat /\ lease.expires \in Nat /\ lease.fence \in Nat
         /\ DOMAIN lease = {"owner", "fence", "expires"}
         /\ pc \in [Replicas -> {"idle", "lease", "heartbeat", "confirm", "load",
                                 "commit", "ended", "down"}]
         /\ at \in [Replicas -> Nat] /\ wakeAt \in [Replicas -> Nat]
         /\ fence \in [Replicas -> Nat]
         /\ todo \in [Replicas -> SUBSET Schedules]
         /\ plan \in [Replicas -> [Schedules -> Rows]]
         /\ sched \in [Schedules -> Rows]
         /\ \A s \in Schedules : sched[s].next \in Nat /\ sched[s].version \in Nat
         /\ Grace \in Nat
         /\ \A s \in Schedules : Deadline(s) \in Nat
<1>1. Grace \in Nat
  BY GraceFacts DEF Timing
<1>2. \A s \in Schedules : sched[s].next \in Nat /\ sched[s].version \in Nat
  BY DEF IInv, Basics, Rows
<1> QED BY <1>1, <1>2 DEF IInv, Basics, Timing, Punctual, WakesSoon, Deadline

(* Nobody is in a pass later than its clock, which is not behind.          *)
LEMMA PassFacts ==
  ASSUME IInv, Timing, NEW r \in Replicas, InPass(r)
  PROVE  at[r] = now + Skew[r] /\ now <= at[r] /\ at[r] <= now + MaxSkew
BY TimingTypes, SkewFacts DEF Timing, Punctual, Clock

(* No registered schedule goes away, and no watermark moves back.          *)
Forward ==
  /\ Evaluable' = Evaluable
  /\ \A s \in Evaluable : sched'[s].next \in Nat /\ sched[s].next <= sched'[s].next

(* A commit is of a plan that still is the row, drops no tick, and moves   *)
(* the watermark past the clock of the pass.                               *)
LEMMA CommitForward ==
  ASSUME IInv, Timing, NEW r \in Replicas, pc[r] = "commit", NEW s \in todo[r],
         NEW after, CommitTo(r, s, after)
  PROVE  /\ s \in Evaluable /\ plan[r][s] = sched[s]
         /\ sched[s].def \in Definitions /\ sched[s] \in Rows
         /\ sched[s].next <= at[r] /\ at[r] - sched[s].next < MaxCatchUp
         /\ \A u \in Schedules \ {s} : sched'[u] = sched[u]
         /\ sched'[s].def = sched[s].def
         /\ sched'[s].next = NextRun(sched[s], at[r]) /\ sched'[s].next > at[r]
         /\ Forward
<1>1. /\ s \in Schedules /\ plan[r][s].def \in Definitions
      /\ plan[r][s].version = sched[s].version /\ Registered(s)
      /\ NextRun(plan[r][s], at[r]) \in Nat
      /\ plan[r][s].next <= NextRun(plan[r][s], at[r])
      /\ sched' = [sched EXCEPT ![s] =
              [next |-> NextRun(plan[r][s], at[r]),
               version |-> sched[s].version + 1, def |-> sched[s].def]]
  BY CommitWrites
<1>2. s \in Evaluable
  BY <1>1 DEF Evaluable, CommitTo
<1>3. plan[r][s] = sched[s]
  BY <1>1 DEF IInv, PlanVersioned, Timing, Counted
<1>4. sched[s] \in Rows /\ sched[s].next <= at[r] /\ at[r] \in Nat
  BY <1>1, <1>3, TimingTypes DEF IInv, PlanWasDue
<1>5. at[r] - sched[s].next < MaxCatchUp
  <2>1. now < sched[s].next + Grace
    BY <1>2 DEF Timing, InTime, Deadline
  <2>2. at[r] <= now + MaxSkew
    BY PassFacts DEF InPass
  <2>3. Grace + MaxSkew <= MaxCatchUp
    BY GraceFacts DEF Timing
  <2> QED BY <1>1, <2>1, <2>2, <2>3, TimingTypes, SkewFacts, ConstantsAssumption
<1>6. NextRun(sched[s], at[r]) > at[r]
  <2>1. CASE sched[s].def.cron
    BY <1>1, <1>3, <1>4, <1>5, <2>1, CronCaughtUp
  <2>2. CASE ~sched[s].def.cron
    <3>1. NextRun(sched[s], at[r])
            = Max(IntervalTicks(sched[s].def, sched[s].next, at[r])) + sched[s].def.period
      BY <2>2 DEF NextRun, BoundedDueTicks
    <3>2. sched[s].next \in Nat /\ sched[s].def \in Definitions
      BY <1>1, <1>3, <1>4 DEF Rows
    <3>3. PICK m \in Nat \ {0} :
            /\ Max(IntervalTicks(sched[s].def, sched[s].next, at[r])) + sched[s].def.period
                 = sched[s].next + m * sched[s].def.period
            /\ sched[s].next + m * sched[s].def.period > at[r]
      BY <1>4, <1>5, <3>2, IntervalCaughtUp
    <3> QED BY <3>1, <3>3
  <2> QED BY <2>1, <2>2
<1>7. /\ \A u \in Schedules \ {s} : sched'[u] = sched[u]
      /\ sched'[s].def = sched[s].def
      /\ sched'[s].next = NextRun(sched[s], at[r])
  BY <1>1, <1>3, TimingTypes
<1>8. Forward
  <2>1. \A u \in Schedules : Registered(u)' <=> Registered(u)
    BY <1>7 DEF Registered
  <2>2. \A u \in Schedules : sched'[u].next \in Nat /\ sched[u].next <= sched'[u].next
    BY <1>1, <1>3, <1>7, TimingTypes
  <2> QED BY <2>1, <2>2 DEF Forward, Evaluable
<1> QED BY <1>1, <1>2, <1>3, <1>4, <1>5, <1>6, <1>7, <1>8

(* Steps that leave the schedules alone.                                   *)
LEMMA SchedRests ==
  ASSUME IInv, Timing, UNCHANGED sched
  PROVE  Forward
BY TimingTypes DEF Forward, Evaluable, Registered

(* The steps of the loop that are not registrations.                       *)
LoopCommit(r) ==
  pc[r] = "commit" /\ \E s \in todo[r], a \in {"commit", "ended"} : CommitTo(r, s, a)

(* Only a commit or a registration writes a schedule.                      *)
LEMMA StepForward ==
  ASSUME IInv, Timing, NEW r \in Replicas,
         WakeUp(r) \/ Sleep(r) \/ StartAgain(r) \/ PassStep(r) \/ ReplicaFault(r)
  PROVE  Forward
<1>1. CASE Commit(r) \/ CommitLost(r)
  <2>1. LoopCommit(r)
    BY <1>1 DEF Commit, CommitLost, NextUp, LoopCommit
  <2> QED BY <2>1, CommitForward DEF LoopCommit
<1>2. CASE ~(Commit(r) \/ CommitLost(r))
  <2>1. UNCHANGED sched
    BY <1>2 DEF WakeUp, RunOnce, Sleep, Return, StartAgain, Restart, PassStep,
                TakeLease, Heartbeat, Confirm, Load, Skip, SweepOccurrences,
                ReplicaFault, PassFails, Crash, tables
  <2> QED BY <2>1, SchedRests
<1> QED BY <1>1, <1>2

(* Every step of the loop keeps the invariant of the tables.               *)
LEMMA LoopKeepsIInv == IInv /\ [LoopNext]_loopVars => IInv'
<1> SUFFICES ASSUME IInv, [LoopNext]_loopVars PROVE IInv'
  OBVIOUS
<1>1. ASSUME NEW r \in Replicas, Sleep(r) PROVE IInv'
  BY <1>1, QuietKeeps DEF Quiet, Sleep
<1>2. ASSUME ~\E r \in Replicas : Sleep(r) PROVE [Next]_vars
  BY <1>2 DEF LoopNext, Next, WakeUp, StartAgain, RegisterAndWake, loopVars
<1> QED BY <1>1, <1>2, IInvInductive

-----------------------------------------------------------------------------
(* Counters and sleeps.                                                    *)

(* What a commit leaves alone.                                             *)
LEMMA CommitRest ==
  ASSUME NEW r \in Replicas, Commit(r) \/ CommitLost(r)
  PROVE  /\ UNCHANGED <<now, lease, at, fence, plan, nextSweep, erasure, registers>>
         /\ pc[r] = "commit"
         /\ \E s \in todo[r] : todo' = [todo EXCEPT ![r] = @ \ {s}]
         /\ Commit(r) => pc' = [pc EXCEPT ![r] = "commit"] /\ faults' = faults
         /\ CommitLost(r) => pc' = [pc EXCEPT ![r] = "ended"] /\ Fault
<1>1. ASSUME NEW s, NEW a, CommitTo(r, s, a)
      PROVE  /\ UNCHANGED <<now, lease, at, fence, plan, nextSweep, erasure, registers>>
             /\ todo' = [todo EXCEPT ![r] = @ \ {s}]
             /\ pc' = [pc EXCEPT ![r] = a]
  BY <1>1 DEF CommitTo
<1> QED BY <1>1 DEF Commit, CommitLost, NextUp

(* What the steps do to the counters, and that nothing is erased.          *)
LEMMA CounterSteps ==
  ASSUME [LoopNext]_loopVars
  PROVE  /\ \/ UNCHANGED <<faults, registers>>
            \/ faults < MaxFaults /\ faults' = faults + 1 /\ UNCHANGED registers
            \/ registers < MaxRegisters /\ registers' = registers + 1 /\ UNCHANGED faults
         /\ wiped' = wiped
<1>1. CASE \E r \in Replicas : Commit(r) \/ CommitLost(r)
  BY <1>1, CommitRest DEF Fault, erasure
<1>2. CASE \E r \in Replicas : WakeUp(r) \/ StartAgain(r)
  BY <1>2 DEF WakeUp, RunOnce, StartAgain, Restart, erasure
<1>3. CASE \E r \in Replicas : Sleep(r)
  BY <1>3 DEF Sleep, Return, Fault, erasure
<1>4. CASE \E r \in Replicas : \/ TakeLease(r) \/ Heartbeat(r) \/ Confirm(r)
                               \/ Load(r) \/ Skip(r) \/ SweepOccurrences(r)
  BY <1>4 DEF TakeLease, Heartbeat, Confirm, Load, Skip, SweepOccurrences, erasure
<1>5. CASE \E r \in Replicas : PassFails(r) \/ Crash(r)
  BY <1>5 DEF PassFails, Crash, Fault, erasure
<1>6. CASE \E r \in Replicas, s \in Schedules, d \in Definitions : RegisterAndWake(r, s, d)
  BY <1>6 DEF RegisterAndWake, Register
<1>7. CASE Tick \/ UNCHANGED loopVars
  BY <1>7 DEF Tick, loopVars, vars, erasure
<1> QED BY <1>1, <1>2, <1>3, <1>4, <1>5, <1>6, <1>7 DEF LoopNext, PassStep, ReplicaFault

(* The counters keep their bounds, and nothing is erased.                  *)
LEMMA CountedKept ==
  ASSUME IInv, Timing, [LoopNext]_loopVars
  PROVE  Counted'
<1>1. Counted
  BY DEF Timing
<1>2. (faults \in 0 .. MaxFaults)' /\ (registers \in 0 .. MaxRegisters)'
  BY <1>1, CounterSteps, ConstantsAssumption DEF Counted
<1>3. CASE \E r \in Replicas, s \in Schedules, d \in Definitions : RegisterAndWake(r, s, d)
  <2>1. PICK r \in Replicas, s \in Schedules, d \in Definitions : RegisterAndWake(r, s, d)
    BY <1>3
  <2>2. registers' = registers + 1 /\ wiped' = wiped
        /\ since' = [since EXCEPT ![s] = Anchor(r, s, d)]
    BY <2>1 DEF RegisterAndWake, Register
  <2>3. Anchor(r, s, d) \in Int
    <3>1. Clock(r) \in Int /\ d.period \in Int /\ since[s] \in Int /\ sched[s].next \in Int
      BY <1>1, TimingTypes, SkewFacts, ConstantsAssumption DEF Clock, Counted
    <3> QED BY <3>1 DEF Anchor
  <2> QED BY <1>1, <1>2, <2>2, <2>3 DEF Counted
<1>4. CASE ~\E r \in Replicas, s \in Schedules, d \in Definitions : RegisterAndWake(r, s, d)
  <2>1. \/ \E r \in Replicas : \/ WakeUp(r) \/ Sleep(r) \/ StartAgain(r)
                               \/ (PassStep(r) \/ ReplicaFault(r)) /\ UNCHANGED loop
        \/ Tick /\ UNCHANGED loop
        \/ UNCHANGED loopVars
    BY <1>4 DEF LoopNext
  <2>2. wiped' = wiped /\ since' = since
    BY <2>1, CounterSteps DEF WakeUp, Sleep, StartAgain, loopVars, loop
  <2>3. registers' >= registers
    BY <1>1, CounterSteps DEF Counted
  <2>4. ASSUME NEW s \in Schedules, Registered(s)' PROVE Registered(s)
    <3>1. CASE \E r \in Replicas : Commit(r) \/ CommitLost(r)
      <4>1. PICK r \in Replicas : LoopCommit(r)
        BY <3>1 DEF Commit, CommitLost, NextUp, LoopCommit
      <4>2. PICK u \in todo[r], a \in {"commit", "ended"} : pc[r] = "commit" /\ CommitTo(r, u, a)
        BY <4>1 DEF LoopCommit
      <4>3. /\ \A v \in Schedules \ {u} : sched'[v] = sched[v]
            /\ sched'[u].def = sched[u].def
        BY <4>2, CommitForward
      <4> QED BY <2>4, <4>3 DEF Registered
    <3>2. CASE ~\E r \in Replicas : Commit(r) \/ CommitLost(r)
      <4>1. UNCHANGED sched
        BY <2>1, <3>2 DEF WakeUp, RunOnce, Sleep, Return, StartAgain, Restart, PassStep,
                TakeLease, Heartbeat, Confirm, Load, Skip, SweepOccurrences,
                ReplicaFault, PassFails, Crash, tables, Tick, loopVars, vars
      <4> QED BY <2>4, <4>1 DEF Registered
    <3> QED BY <3>1, <3>2
  <2>5. \A s \in Schedules : Registered(s)' => registers' > 0
    BY <1>1, <1>2, <2>3, <2>4, ConstantsAssumption DEF Counted
  <2> QED BY <1>1, <1>2, <2>2, <2>5 DEF Counted
<1> QED BY <1>3, <1>4

(* Where the steps of a replica leave it, and what they do to the lease.   *)
LEMMA ReplicaSteps ==
  ASSUME IInv, Timing, NEW r \in Replicas,
         \/ WakeUp(r) \/ Sleep(r) \/ StartAgain(r)
         \/ (PassStep(r) \/ ReplicaFault(r)) /\ UNCHANGED loop
  PROVE  /\ now' = now
         /\ \A q \in Replicas \ {r} :
              /\ pc'[q] = pc[q] /\ at'[q] = at[q] /\ fence'[q] = fence[q]
              /\ todo'[q] = todo[q] /\ plan'[q] = plan[q] /\ wakeAt'[q] = wakeAt[q]
         /\ \/ pc'[r] = "down"
            \/ pc'[r] = "idle"
            \/ InPass(r)' /\ at'[r] = Clock(r)
         /\ \/ wakeAt'[r] = wakeAt[r] /\ pc'[r] # "idle"
            \/ wakeAt'[r] = now
            \/ wakeAt'[r] = now + Delay(r)
            \/ wakeAt'[r] = now + HeartbeatPeriod
         /\ wakeAt' \in [Replicas -> Nat]
         /\ \/ lease' = lease
            \/ /\ lease'.expires = at[r] + LeaseDuration /\ InPass(r)
               /\ lease'.fence > 0
<1> USE TimingTypes
<1>d. Delay(r) \in Nat /\ HeartbeatPeriod \in Nat
  BY DelayFacts, CostFacts
<1>c. InPass(r) => at[r] = Clock(r)
  BY DEF Timing, Punctual
<1>1. CASE WakeUp(r)
  BY <1>1 DEF WakeUp, RunOnce, InPass, tables
<1>2. CASE Sleep(r)
  <2>1. \/ wakeAt' = [wakeAt EXCEPT ![r] = now + Delay(r)]
        \/ wakeAt' = [wakeAt EXCEPT ![r] = now + HeartbeatPeriod]
    BY <1>2 DEF Sleep
  <2>2. /\ UNCHANGED <<now, lease, plan, todo>>
        /\ pc' = [pc EXCEPT ![r] = "idle"] /\ at' = [at EXCEPT ![r] = 0]
        /\ fence' = [fence EXCEPT ![r] = 0]
    BY <1>2 DEF Sleep, Return, tables
  <2> QED BY <1>d, <2>1, <2>2
<1>3. CASE StartAgain(r)
  BY <1>3 DEF StartAgain, Restart, tables
<1>4. CASE TakeLease(r) /\ UNCHANGED loop
  BY <1>4, <1>c DEF TakeLease, loop, InPass, Expires
<1>5. CASE Heartbeat(r) /\ UNCHANGED loop
  <2>1. lease.expires > at[r] => lease.fence > 0
    BY DEF Timing, Punctual
  <2> QED BY <1>5, <1>c, <2>1 DEF Heartbeat, loop, InPass, Expires
<1>6. CASE (Confirm(r) \/ Load(r) \/ Skip(r) \/ SweepOccurrences(r)) /\ UNCHANGED loop
  BY <1>6, <1>c DEF Confirm, Load, Skip, SweepOccurrences, tables, loop, InPass
<1>7. CASE (Commit(r) \/ CommitLost(r)) /\ UNCHANGED loop
  BY <1>7, <1>c, CommitRest DEF loop, InPass
<1>8. CASE (PassFails(r) \/ Crash(r)) /\ UNCHANGED loop
  BY <1>8, <1>c DEF PassFails, Crash, Aborted, tables, loop, InPass
<1> QED BY <1>1, <1>2, <1>3, <1>4, <1>5, <1>6, <1>7, <1>8 DEF PassStep, ReplicaFault

(* Punctual is kept: time passes only while everybody sleeps.              *)
LEMMA PunctualKept ==
  ASSUME IInv, Timing, [LoopNext]_loopVars
  PROVE  Punctual'
<1> USE TimingTypes, CostFacts
<1>0. Punctual
  BY DEF Timing
<1>1. CASE \E r \in Replicas, s \in Schedules, d \in Definitions : RegisterAndWake(r, s, d)
  <2>1. UNCHANGED <<now, lease, pc, at, wakeAt>>
    BY <1>1 DEF RegisterAndWake, Register, pass
  <2> QED BY <1>0, <2>1 DEF Punctual, WakesSoon, InPass, Clock
<1>2. CASE UNCHANGED loopVars
  <2>1. UNCHANGED <<now, lease, pc, at, wakeAt>>
    BY <1>2 DEF loopVars, vars, tables, pass, loop
  <2> QED BY <1>0, <2>1 DEF Punctual, WakesSoon, InPass, Clock
<1>3. CASE (\A r \in Replicas : Asleep(r)) /\ Tick /\ UNCHANGED loop
  <2>1. UNCHANGED <<lease, pc, at, wakeAt>> /\ now' = now + 1
    BY <1>3 DEF Tick, tables, pass, loop
  <2>2. \A r \in Replicas : ~InPass(r) /\ (pc[r] = "idle" => wakeAt[r] > now)
    BY <1>3 DEF Asleep, InPass
  <2> QED BY <1>0, <2>1, <2>2 DEF Punctual, WakesSoon, InPass
<1>4. CASE \E r \in Replicas : \/ WakeUp(r) \/ Sleep(r) \/ StartAgain(r)
                               \/ (PassStep(r) \/ ReplicaFault(r)) /\ UNCHANGED loop
  <2>1. PICK r \in Replicas : \/ WakeUp(r) \/ Sleep(r) \/ StartAgain(r)
                              \/ (PassStep(r) \/ ReplicaFault(r)) /\ UNCHANGED loop
    BY <1>4
  <2>2. Delay(r) \in Nat /\ Delay(r) <= HeartbeatPeriod
    BY DelayFacts
  <2>3. \A q \in Replicas : InPass(q)' => at'[q] = Clock(q)'
    BY <1>0, <2>1, ReplicaSteps DEF Punctual, InPass, Clock
  <2>4. \A q \in Replicas :
          wakeAt'[q] <= now' + HeartbeatPeriod /\ (pc'[q] = "idle" => now' <= wakeAt'[q])
    BY <1>0, <2>1, <2>2, ReplicaSteps DEF Punctual, WakesSoon
  <2>5. lease'.expires <= now' + MaxSkew + LeaseDuration
    BY <1>0, <2>1, ReplicaSteps, PassFacts DEF Punctual
  <2>6. lease'.fence = 0 => lease'.expires = 0
    BY <1>0, <2>1, ReplicaSteps DEF Punctual
  <2> QED BY <2>1, <2>3, <2>4, <2>5, <2>6, ReplicaSteps DEF Punctual, WakesSoon
<1> QED BY <1>1, <1>2, <1>3, <1>4 DEF LoopNext

-----------------------------------------------------------------------------
(* Deadlines.                                                              *)

(* Watermarks that only move forward, and a grace that only grows, keep    *)
(* the deadlines.                                                          *)
LEMMA DeadlinesStay ==
  ASSUME IInv, Timing, Forward, UNCHANGED <<faults, registers>>
  PROVE  \A s \in Evaluable' :
           s \in Evaluable /\ Deadline(s)' \in Nat /\ Deadline(s) <= Deadline(s)'
<1>1. Grace' = Grace /\ Grace \in Nat
  BY GraceFacts DEF Timing
<1> QED BY <1>1, TimingTypes DEF Forward, Deadline, Evaluable

(* A fault moves every deadline by what it may cost: the lease in force,   *)
(* whoever wrote it, ends in time, and so does everybody's sleep.          *)
LEMMA FaultPaid ==
  ASSUME IInv, Timing, Forward, Punctual', now' = now, (lease.expires \in Nat)',
         faults' = faults + 1, UNCHANGED registers
  PROVE  InTime' /\ Unled'
<1> USE TimingTypes, CostFacts
<1>1. Grace' = Grace + FaultCost /\ Grace \in Nat /\ faults' > 0
  BY GraceFacts DEF Timing, Counted
<1>2. \A s \in Evaluable' :
        Deadline(s)' \in Nat /\ now + FaultCost < Deadline(s)'
  BY <1>1 DEF Forward, Deadline, Evaluable, Timing, InTime
<1>3. InTime'
  BY <1>2 DEF InTime
<1>4. ASSUME NEW s \in Evaluable'
      PROVE  /\ lease'.expires + HeartbeatPeriod <= Deadline(s)'
             /\ \A r \in Replicas : UpFor(r, s)'
  <2>1. now + FaultCost < Deadline(s)' /\ Deadline(s)' \in Nat
    BY <1>2
  <2>2. lease'.expires <= now + MaxSkew + LeaseDuration
    BY DEF Punctual
  <2>3. \A r \in Replicas : wakeAt'[r] \in Nat /\ wakeAt'[r] <= now + HeartbeatPeriod
    BY DEF Punctual, WakesSoon
  <2>4. now + HeartbeatPeriod < Deadline(s)'
    BY <2>1
  <2>5. \A r \in Replicas : UpFor(r, s)'
    BY <2>1, <2>3, <2>4 DEF UpFor
  <2> QED BY <2>1, <2>2, <2>5
<1> QED BY <1>1, <1>3, <1>4 DEF Unled

(* The steps of one replica that write neither the lease nor a fault, when *)
(* nobody may be leading.                                                  *)
LEMMA UnledStays ==
  ASSUME IInv, Timing, Unled, Forward, UNCHANGED <<now, lease, faults, registers>>,
         NEW r \in Replicas,
         \A q \in Replicas \ {r} : pc'[q] = pc[q] /\ wakeAt'[q] = wakeAt[q],
         wakeAt'[r] \in Nat, wakeAt'[r] <= now + HeartbeatPeriod,
         \/ pc'[r] \in {"lease", "down"}
         \/ pc'[r] = "idle" /\ wakeAt'[r] = now
         \/ /\ pc'[r] \in Decided \cup {"idle"}
            /\ \A s \in Evaluable : now + HeartbeatPeriod < Deadline(s)
  PROVE  Unled'
<1> USE TimingTypes, CostFacts
<1>1. \A s \in Evaluable' :
        s \in Evaluable /\ Deadline(s)' \in Nat /\ Deadline(s) <= Deadline(s)'
  BY DeadlinesStay
<1>2. ASSUME NEW s \in Evaluable'
      PROVE  /\ lease'.expires + HeartbeatPeriod <= Deadline(s)'
             /\ \A q \in Replicas : UpFor(q, s)'
  <2>1. /\ s \in Evaluable /\ Deadline(s)' \in Nat /\ Deadline(s) <= Deadline(s)'
        /\ Deadline(s) \in Nat /\ now < Deadline(s)
    BY <1>1, <1>2 DEF Evaluable, Timing, InTime
  <2>2. lease'.expires + HeartbeatPeriod <= Deadline(s)'
    BY <2>1 DEF Unled
  <2>3. \A q \in Replicas \ {r} : UpFor(q, s)'
    BY <2>1 DEF Unled, UpFor
  <2>4. UpFor(r, s)'
    BY <2>1 DEF UpFor, Decided
  <2> QED BY <2>2, <2>3, <2>4
<1> QED BY <1>2 DEF Unled

(* The replica that writes the lease goes on to load and commit.           *)
LEMMA WriterLeads ==
  ASSUME NEW r \in Replicas, OwnerOf[r] = lease'.owner, lease'.fence > 0,
         lease'.expires > at'[r],
         \/ pc'[r] = "confirm"
         \/ pc'[r] = "load" /\ fence'[r] = lease'.fence
  PROVE  Led'
BY DEF Led, Leads, Serves, Decided

(* The owner keeps serving while others take steps: what another commits   *)
(* for it has a watermark ahead.                                           *)
LEMMA OwnerStays ==
  ASSUME IInv, Timing, Forward, UNCHANGED <<now, lease, faults, registers>>,
         NEW l \in Replicas, Leads(l), \A s \in Evaluable : Serves(l, s),
         pc'[l] = pc[l], at'[l] = at[l], fence'[l] = fence[l], todo'[l] = todo[l],
         plan'[l] = plan[l], wakeAt'[l] = wakeAt[l],
         \A s \in Evaluable : sched'[s] = sched[s] \/ sched'[s].next > now
  PROVE  Led'
<1> USE TimingTypes, CostFacts
<1>1. Leads(l)'
  BY DEF Leads
<1>2. ASSUME NEW s \in Evaluable' PROVE Serves(l, s)'
  <2>1. /\ s \in Evaluable /\ Deadline(s)' \in Nat /\ Deadline(s) <= Deadline(s)'
        /\ Deadline(s) \in Nat /\ s \in Schedules
    BY <1>2, DeadlinesStay DEF Evaluable
  <2>2. CASE sched'[s] = sched[s]
    <3>1. Deadline(s)' = Deadline(s)
      BY <2>2, GraceFacts DEF Deadline, Timing
    <3>2. PlanCurrent(l, s)' <=> PlanCurrent(l, s)
      BY <2>2 DEF PlanCurrent, Registered
    <3> QED BY <2>1, <2>2, <3>1, <3>2 DEF Serves
  <2>3. CASE sched'[s].next > now
    <3>1. registers > 0 /\ Grace' = Grace /\ Grace >= HeartbeatPeriod /\ Grace \in Nat
      BY <2>1, GraceFacts DEF Timing, Counted, Evaluable
    <3>2. sched'[s].next \in Nat
      BY <2>1 DEF Forward
    <3>3. now + HeartbeatPeriod < Deadline(s)'
      BY <2>3, <3>1, <3>2 DEF Deadline
    <3>4. pc[l] = "idle" => wakeAt[l] < Deadline(s)'
      BY <2>1 DEF Serves
    <3> QED BY <3>3, <3>4 DEF Serves
  <2>4. sched'[s] = sched[s] \/ sched'[s].next > now
    BY <2>1
  <2> QED BY <2>2, <2>3, <2>4
<1> QED BY <1>1, <1>2 DEF Led

(* No deadline passes in a step that takes no time.                        *)
LEMMA InTimeStays ==
  ASSUME IInv, Timing, Forward, UNCHANGED <<now, faults, registers>>
  PROVE  InTime'
BY DeadlinesStay, TimingTypes DEF InTime, Timing, Evaluable

(* Whoever takes or extends the lease leads.                               *)
LEMMA LeaseWritten ==
  ASSUME IInv, Timing, NEW r \in Replicas,
         \/ TakeLease(r) /\ ~(lease.fence > 0 /\ lease.expires > at[r])
         \/ Heartbeat(r) /\ lease.owner = OwnerOf[r] /\ lease.expires > at[r]
  PROVE  Led'
<1> USE TimingTypes, CostFacts
<1>0. at[r] + LeaseDuration > at[r] /\ at'[r] = at[r]
  BY LeaseAssumption DEF TakeLease, Heartbeat
<1>1. CASE TakeLease(r) /\ ~(lease.fence > 0 /\ lease.expires > at[r])
  <2>1. /\ lease'.owner = OwnerOf[r] /\ lease'.fence > 0
        /\ lease'.expires = at[r] + LeaseDuration
        /\ \/ pc'[r] = "confirm"
           \/ pc'[r] = "load" /\ fence'[r] = lease'.fence
    BY <1>1 DEF TakeLease, Expires
  <2> QED BY <1>0, <2>1, WriterLeads
<1>2. CASE Heartbeat(r) /\ lease.owner = OwnerOf[r] /\ lease.expires > at[r]
  <2>1. lease.fence > 0
    BY <1>2 DEF Timing, Punctual
  <2>2. /\ lease'.owner = OwnerOf[r] /\ lease'.fence > 0
        /\ lease'.expires = at[r] + LeaseDuration /\ pc'[r] = "confirm"
    BY <1>2, <2>1 DEF Heartbeat, Expires
  <2> QED BY <1>0, <2>2, WriterLeads
<1> QED BY <1>1, <1>2

(* The steps of a replica that write no lease and meet no fault.           *)
Unwritten(r) ==
  \/ WakeUp(r) \/ (Sleep(r) /\ UNCHANGED faults) \/ StartAgain(r)
  \/ /\ UNCHANGED loop
     /\ \/ TakeLease(r) /\ lease.fence > 0 /\ lease.expires > at[r]
        \/ Heartbeat(r) /\ ~(lease.owner = OwnerOf[r] /\ lease.expires > at[r])
        \/ Confirm(r) \/ Load(r) \/ Commit(r) \/ Skip(r) \/ SweepOccurrences(r)

(* What they leave alone, and where they lead.                             *)
LEMMA UnwrittenSteps ==
  ASSUME IInv, Timing, NEW r \in Replicas, Unwritten(r)
  PROVE  /\ Forward /\ UNCHANGED <<now, lease, faults, registers>>
         /\ \A q \in Replicas \ {r} :
              /\ pc'[q] = pc[q] /\ at'[q] = at[q] /\ fence'[q] = fence[q]
              /\ todo'[q] = todo[q] /\ plan'[q] = plan[q] /\ wakeAt'[q] = wakeAt[q]
         /\ wakeAt'[r] \in Nat /\ wakeAt'[r] <= now + HeartbeatPeriod
         /\ \/ pc'[r] = "lease"
            \/ pc[r] = "down" /\ pc'[r] = "idle" /\ wakeAt'[r] = now
            \/ pc[r] = "lease" /\ pc'[r] = "heartbeat" /\ lease.expires > at[r]
            \/ pc[r] \in Decided /\ pc'[r] \in Decided \cup {"idle"}
<1> USE TimingTypes, CostFacts
<1>0. /\ Forward
      /\ \A q \in Replicas \ {r} :
           /\ pc'[q] = pc[q] /\ at'[q] = at[q] /\ fence'[q] = fence[q]
           /\ todo'[q] = todo[q] /\ plan'[q] = plan[q] /\ wakeAt'[q] = wakeAt[q]
      /\ now' = now
  BY StepForward, ReplicaSteps DEF Unwritten, PassStep
<1>1. wakeAt'[r] \in Nat /\ wakeAt'[r] <= now + HeartbeatPeriod
  <2>1. wakeAt' \in [Replicas -> Nat]
    BY ReplicaSteps DEF Unwritten, PassStep
  <2>2. \/ wakeAt'[r] = wakeAt[r] \/ wakeAt'[r] = now \/ wakeAt'[r] = now + Delay(r)
        \/ wakeAt'[r] = now + HeartbeatPeriod
    BY ReplicaSteps DEF Unwritten, PassStep
  <2>3. Delay(r) \in Nat /\ Delay(r) <= HeartbeatPeriod
    BY DelayFacts
  <2>4. wakeAt[r] <= now + HeartbeatPeriod
    BY DEF Timing, Punctual, WakesSoon
  <2> QED BY <2>1, <2>2, <2>3, <2>4
<1>2. CASE WakeUp(r)
  BY <1>0, <1>1, <1>2 DEF WakeUp, RunOnce, tables
<1>3. CASE Sleep(r) /\ UNCHANGED faults
  BY <1>0, <1>1, <1>3 DEF Sleep, Return, tables, Decided
<1>4. CASE StartAgain(r)
  BY <1>0, <1>1, <1>4 DEF StartAgain, Restart, tables
<1>5. CASE TakeLease(r) /\ lease.fence > 0 /\ lease.expires > at[r]
  BY <1>0, <1>1, <1>5 DEF TakeLease
<1>6. CASE Heartbeat(r) /\ ~(lease.owner = OwnerOf[r] /\ lease.expires > at[r])
  BY <1>0, <1>1, <1>6 DEF Heartbeat, Decided
<1>7. CASE Confirm(r) \/ Load(r) \/ Skip(r) \/ SweepOccurrences(r)
  BY <1>0, <1>1, <1>7 DEF Confirm, Load, Skip, SweepOccurrences, tables, Decided
<1>8. CASE Commit(r)
  BY <1>0, <1>1, <1>8, CommitRest DEF Decided
<1> QED BY <1>2, <1>3, <1>4, <1>5, <1>6, <1>7, <1>8 DEF Unwritten

(* While nobody may be leading, they keep it so.                           *)
LEMMA UnledKept ==
  ASSUME IInv, Timing, Unled, NEW r \in Replicas, Unwritten(r)
  PROVE  Unled'
<1> USE TimingTypes, CostFacts
<1>1. pc[r] \in Decided => \A s \in Evaluable : now + HeartbeatPeriod < Deadline(s)
  BY DEF Unled, UpFor
<1>2. pc[r] = "lease" /\ lease.expires > at[r] =>
        \A s \in Evaluable : now + HeartbeatPeriod < Deadline(s)
  <2> SUFFICES ASSUME pc[r] = "lease", lease.expires > at[r], NEW s \in Evaluable
               PROVE  now + HeartbeatPeriod < Deadline(s)
    OBVIOUS
  <2>1. now <= at[r] /\ at[r] \in Nat
    BY PassFacts DEF InPass
  <2>2. lease.expires + HeartbeatPeriod <= Deadline(s) /\ Deadline(s) \in Nat
    BY DEF Unled, Evaluable
  <2> QED BY <2>1, <2>2
<1>3. \/ pc'[r] \in {"lease", "down"}
      \/ pc'[r] = "idle" /\ wakeAt'[r] = now
      \/ /\ pc'[r] \in Decided \cup {"idle"}
         /\ \A s \in Evaluable : now + HeartbeatPeriod < Deadline(s)
  BY <1>1, <1>2, UnwrittenSteps DEF Decided
<1> QED BY <1>3, UnwrittenSteps, UnledStays

(* The owner sleeps no longer than up to the next watermark.               *)
LEMMA DelayUpTo ==
  ASSUME IInv, NEW r \in Replicas, fence[r] # 0, NEW s \in Schedules, Registered(s),
         sched[s].next > at[r]
  PROVE  Delay(r) <= sched[s].next - at[r]
<1> DEFINE later == {sched[u].next : u \in {v \in Schedules : Registered(v)}}
           ahead == {n \in later : n > at[r]}
           S == {n - at[r] : n \in ahead} \cup {HeartbeatPeriod}
<1>1. at[r] \in Nat /\ \A u \in Schedules : sched[u].next \in Nat
  BY DEF IInv, Basics, Rows
<1>2. \A n \in ahead : n \in Nat /\ n > at[r]
  BY <1>1
<1>3. S \in SUBSET Nat /\ S # {}
  BY <1>1, <1>2, PeriodFacts
<1>4. sched[s].next - at[r] \in S
  <2>1. sched[s].next \in ahead
    OBVIOUS
  <2> QED BY <2>1
<1>5. Delay(r) = Min(S)
  BY DEF Delay, UpTo
<1> HIDE DEF S
<1>6. Min(S) <= sched[s].next - at[r]
  BY <1>3, <1>4, MinFacts
<1> QED BY <1>5, <1>6

(* What a step of a replica writes for a schedule lies ahead.              *)
LEMMA WritesAhead ==
  ASSUME IInv, Timing, NEW r \in Replicas, Unwritten(r), NEW s \in Evaluable
  PROVE  sched'[s] = sched[s] \/ sched'[s].next > now
<1>1. CASE Commit(r)
  <2>1. PICK u \in todo[r] : pc[r] = "commit" /\ CommitTo(r, u, "commit")
    BY <1>1 DEF Commit, NextUp
  <2>2. /\ \A v \in Schedules \ {u} : sched'[v] = sched[v]
        /\ sched'[u].next > at[r] /\ u \in Evaluable /\ Forward
    BY <2>1, CommitForward
  <2>3. now <= at[r] /\ now \in Nat /\ at[r] \in Nat
    BY <2>1, PassFacts, TimingTypes DEF InPass
  <2>4. sched'[u].next > now
    BY <2>2, <2>3 DEF Forward
  <2> QED BY <2>2, <2>4 DEF Evaluable
<1>2. CASE ~Commit(r)
  <2>1. UNCHANGED sched
    BY <1>2 DEF Unwritten, WakeUp, RunOnce, Sleep, Return, StartAgain, Restart,
                TakeLease, Heartbeat, Confirm, Load, Skip, SweepOccurrences, tables
  <2> QED BY <2>1
<1> QED BY <1>1, <1>2

(* The owner's own steps: it confirms, loads what is due, commits all of   *)
(* it or leaves what a registration changed, and sleeps up to the next     *)
(* watermark or for a heartbeat.                                           *)
LEMMA OwnerActs ==
  ASSUME IInv, Timing, NEW l \in Replicas, Leads(l), \A s \in Evaluable : Serves(l, s),
         Unwritten(l)
  PROVE  Led'
<1> USE TimingTypes, CostFacts
<1>0. /\ Forward /\ UNCHANGED <<now, lease, faults, registers>>
      /\ Evaluable' = Evaluable
  BY UnwrittenSteps DEF Forward
<1>g. Grace' = Grace /\ Grace \in Nat
  BY <1>0, GraceFacts DEF Timing
<1>1. CASE WakeUp(l)
  <2>1. pc'[l] = "lease"
    BY <1>1 DEF WakeUp, RunOnce
  <2> QED BY <1>0, <2>1 DEF Led, Leads, Serves, Decided
<1>2. CASE StartAgain(l)
  BY <1>2 DEF StartAgain, Restart, Leads
<1>3. CASE TakeLease(l) /\ lease.fence > 0 /\ lease.expires > at[l]
  <2>1. pc'[l] = "heartbeat" /\ at'[l] = at[l]
    BY <1>3 DEF TakeLease
  <2> QED BY <1>0, <1>3, <2>1 DEF Led, Leads, Serves, Decided
<1>4. CASE Heartbeat(l) /\ ~(lease.owner = OwnerOf[l] /\ lease.expires > at[l])
  BY <1>4 DEF Heartbeat, Leads, Decided
<1>5. CASE Confirm(l)
  <2>1. pc[l] = "confirm" /\ pc'[l] = "load" /\ fence'[l] = lease.fence /\ at'[l] = at[l]
    BY <1>5 DEF Confirm, Leads
  <2> QED BY <1>0, <2>1 DEF Led, Leads, Serves, Decided
<1>6. CASE Load(l)
  <2>1. /\ pc[l] = "load" /\ pc'[l] = "commit" /\ fence'[l] = fence[l]
        /\ at'[l] = at[l] /\ sched' = sched
    BY <1>6 DEF Load, tables
  <2>2. ASSUME NEW s \in Evaluable
        PROVE  (s \in todo'[l] /\ PlanCurrent(l, s)') \/ sched'[s].next > at'[l]
    <3>1. s \in Schedules /\ Registered(s) /\ sched[s].next \in Nat /\ at[l] \in Nat
      BY DEF Evaluable
    <3>2. CASE sched[s].next <= at[l]
      <4>1. s \in todo'[l] /\ plan'[l][s] = sched[s]
        BY <1>6, <3>1, <3>2 DEF Load
      <4> QED BY <2>1, <3>1, <4>1 DEF PlanCurrent, Registered
    <3> QED BY <2>1, <3>1, <3>2
  <2>3. \A s \in Evaluable' : Serves(l, s)'
    BY <1>0, <2>1, <2>2 DEF Serves
  <2>4. Leads(l)'
    BY <1>0, <2>1 DEF Leads, Decided
  <2> QED BY <2>3, <2>4 DEF Led
<1>7. CASE Commit(l)
  <2>1. PICK u \in todo[l] : pc[l] = "commit" /\ CommitTo(l, u, "commit")
    BY <1>7 DEF Commit, NextUp
  <2>2. /\ \A v \in Schedules \ {u} : sched'[v] = sched[v]
        /\ sched'[u].next > at[l]
    BY <2>1, CommitForward
  <2>3. /\ pc'[l] = "commit" /\ at' = at /\ fence' = fence /\ plan' = plan
        /\ todo'[l] = todo[l] \ {u}
    BY <2>1 DEF CommitTo
  <2>4. ASSUME NEW s \in Evaluable' PROVE Serves(l, s)'
    <3>1. s \in Evaluable /\ s \in Schedules
      BY <1>0, <2>4 DEF Evaluable
    <3>2. CASE s = u
      BY <2>2, <2>3, <3>2 DEF Serves
    <3>3. CASE s # u
      <4>1. sched'[s] = sched[s]
        BY <2>2, <3>1, <3>3
      <4>2. Deadline(s)' = Deadline(s)
        BY <1>g, <4>1 DEF Deadline
      <4>3. PlanCurrent(l, s)' <=> PlanCurrent(l, s)
        BY <2>3, <4>1 DEF PlanCurrent, Registered
      <4> QED BY <1>0, <2>1, <2>3, <3>1, <3>3, <4>1, <4>2, <4>3 DEF Serves
    <3> QED BY <3>2, <3>3
  <2>5. Leads(l)'
    BY <1>0, <2>1, <2>3 DEF Leads, Decided
  <2> QED BY <2>4, <2>5 DEF Led
<1>8. CASE Skip(l)
  <2>1. PICK u \in todo[l] :
          /\ pc[l] = "commit"
          /\ u \in Poisoned \/ ~StillLeader(l) \/ ~PlanCurrent(l, u)
          /\ todo' = [todo EXCEPT ![l] = @ \ {u}]
    BY <1>8 DEF Skip, NextUp
  <2>2. UNCHANGED <<pc, at, fence, plan, sched, wakeAt>>
    BY <1>8 DEF Skip, tables, Unwritten, loop, WakeUp, RunOnce, Sleep, Return,
                StartAgain, Restart
  <2>3. StillLeader(l)
    BY <2>1 DEF Leads, StillLeader, Decided
  <2>4. \A s \in Evaluable : Deadline(s)' = Deadline(s)
    BY <1>g, <2>2 DEF Deadline
  <2>5. ASSUME NEW s \in Evaluable PROVE Serves(l, s)'
    <3>1. s \notin Poisoned
      BY DEF Evaluable
    <3>2. s \in todo[l] /\ PlanCurrent(l, s) => s \in todo'[l] /\ PlanCurrent(l, s)'
      BY <2>1, <2>2, <2>3, <3>1 DEF PlanCurrent, Registered
    <3> QED BY <1>0, <2>1, <2>2, <2>4, <3>2 DEF Serves
  <2>6. Leads(l)'
    BY <1>0, <2>2 DEF Leads
  <2> QED BY <1>0, <2>5, <2>6 DEF Led
<1>9. CASE SweepOccurrences(l)
  <2>1. /\ pc[l] = "commit" /\ todo[l] = {} /\ pc'[l] = "ended"
        /\ UNCHANGED <<at, fence, sched>>
    BY <1>9 DEF SweepOccurrences
  <2>2. fence[l] # 0 /\ Leads(l)'
    BY <1>0, <2>1 DEF Leads, Decided
  <2>3. \A s \in Evaluable : Deadline(s)' = Deadline(s)
    BY <1>g, <2>1 DEF Deadline
  <2>4. \A s \in Evaluable : Serves(l, s)'
    BY <1>0, <2>1, <2>2, <2>3 DEF Serves
  <2> QED BY <1>0, <2>2, <2>4 DEF Led
<1>10. CASE Sleep(l) /\ UNCHANGED faults
  <2>1. /\ pc[l] = "ended" /\ pc'[l] = "idle" /\ sched' = sched
    BY <1>10 DEF Sleep, Return, tables
  <2>2. wakeAt'[l] = now + Delay(l)
    <3>1. ~Fault
      BY <1>10 DEF Fault, Timing, Counted
    <3> QED BY <1>10, <3>1 DEF Sleep
  <2>3. Delay(l) \in Nat /\ Delay(l) <= HeartbeatPeriod
    BY DelayFacts
  <2>4. ASSUME NEW s \in Evaluable PROVE Serves(l, s)'
    <3>1. /\ s \in Schedules /\ Registered(s) /\ sched[s].next \in Nat
          /\ Deadline(s)' = sched[s].next + Grace /\ Deadline(s) = sched[s].next + Grace
      BY <1>g, <2>1 DEF Evaluable, Deadline
    <3>2. Grace >= HeartbeatPeriod
      BY <3>1, GraceFacts DEF Timing, Counted
    <3>3. CASE fence[l] # 0 /\ sched[s].next > at[l]
      <4>1. Delay(l) <= sched[s].next - at[l]
        BY <3>1, <3>3, DelayUpTo
      <4>2. now <= at[l] /\ at[l] \in Nat
        BY <2>1, PassFacts DEF InPass
      <4>3. now + Delay(l) < sched[s].next + Grace
        BY <1>g, <2>3, <3>1, <3>2, <4>1, <4>2
      <4> QED BY <2>1, <2>2, <3>1, <4>3 DEF Serves
    <3>4. CASE now + HeartbeatPeriod < Deadline(s)
      <4>1. now + Delay(l) < sched[s].next + Grace
        BY <1>g, <2>3, <3>1, <3>4
      <4> QED BY <2>1, <2>2, <3>1, <4>1 DEF Serves
    <3> QED BY <2>1, <3>3, <3>4 DEF Serves
  <2>5. Leads(l)'
    BY <1>0, <2>1 DEF Leads, Decided
  <2> QED BY <1>0, <2>4, <2>5 DEF Led
<1> QED BY <1>1, <1>2, <1>3, <1>4, <1>5, <1>6, <1>7, <1>8, <1>9, <1>10 DEF Unwritten

(* While somebody leads, they keep it so.                                  *)
LEMMA LedKept ==
  ASSUME IInv, Timing, Led, NEW r \in Replicas, Unwritten(r)
  PROVE  Led'
<1>1. PICK l \in Replicas : Leads(l) /\ \A s \in Evaluable : Serves(l, s)
  BY DEF Led
<1>2. CASE l = r
  BY <1>1, <1>2, OwnerActs
<1>3. CASE l # r
  BY <1>1, <1>3, UnwrittenSteps, WritesAhead, OwnerStays
<1> QED BY <1>2, <1>3

(* A registration: what it writes lies ahead of every clock.               *)
LEMMA RegisterWrites ==
  ASSUME IInv, Timing, NEW q \in Replicas, NEW s \in Schedules, NEW d \in Definitions,
         RegisterAndWake(q, s, d)
  PROVE  /\ UNCHANGED <<now, lease, occ, pc, at, fence, wakeAt, faults>>
         /\ registers' = registers + 1
         /\ \A u \in Schedules \ {s} : sched'[u] = sched[u]
         /\ sched'[s].def = d /\ sched'[s].next \in Nat
         /\ Clock(q) \in Nat /\ now <= Clock(q)
         /\ Registered(s) => sched'[s].next = sched[s].next
         /\ ~Registered(s) =>
              sched'[s].next = FirstRun(d, Clock(q)) /\ sched'[s].next > Clock(q)
<1> USE TimingTypes
<1>1. Clock(q) \in Nat /\ now <= Clock(q)
  BY SkewFacts DEF Clock
<1>2. FirstRun(d, Clock(q)) \in Nat /\ FirstRun(d, Clock(q)) > Clock(q)
  BY <1>1, NextFireLater, ConstantsAssumption DEF FirstRun
<1>3. sched' = [sched EXCEPT ![s] = Upsert(s, d, Clock(q))]
  BY DEF RegisterAndWake, Register
<1>4. sched[s] \in Rows
  OBVIOUS
<1>5. CASE Registered(s)
  <2>1. Upsert(s, d, Clock(q)) = [sched[s] EXCEPT !.def = d, !.version = @ + 1]
    BY <1>5 DEF Upsert
  <2>2. Upsert(s, d, Clock(q)).def = d /\ Upsert(s, d, Clock(q)).next = sched[s].next
    BY <1>4, <2>1 DEF Rows
  <2> QED BY <1>1, <1>3, <1>5, <2>2 DEF RegisterAndWake, Register, pass
<1>6. CASE ~Registered(s)
  <2>1. Upsert(s, d, Clock(q)) = [next |-> FirstRun(d, Clock(q)), version |-> 0, def |-> d]
    BY <1>6 DEF Upsert
  <2> QED BY <1>1, <1>2, <1>3, <1>6, <2>1 DEF RegisterAndWake, Register, pass
<1> QED BY <1>5, <1>6

(* It pays a heartbeat for the leader's not being told of it.              *)
LEMMA RegistrationPaid ==
  ASSUME IInv, Timing, NEW q \in Replicas, NEW s \in Schedules, NEW d \in Definitions,
         RegisterAndWake(q, s, d)
  PROVE  InTime' /\ (Unled' \/ Led')
<1> USE TimingTypes, CostFacts
<1>1. /\ Grace' = Grace + HeartbeatPeriod /\ Grace \in Nat
      /\ faults > 0 => Grace' >= FaultCost + HeartbeatPeriod
  BY RegisterWrites, GraceFacts DEF Timing
<1>2. ASSUME NEW u \in Evaluable'
      PROVE  /\ sched'[u].next \in Nat /\ Deadline(u)' = sched'[u].next + Grace'
             /\ \/ u \in Evaluable /\ Deadline(u)' = Deadline(u) + HeartbeatPeriod
                \/ sched'[u].next > now
  <2>1. u \in Schedules /\ u \notin Poisoned /\ Registered(u)'
    BY <1>2 DEF Evaluable
  <2>2. CASE sched'[u].next = sched[u].next /\ Registered(u)
    BY <1>1, <2>1, <2>2 DEF Deadline, Evaluable
  <2>3. CASE u = s /\ ~Registered(s)
    BY <2>3, RegisterWrites DEF Deadline
  <2>4. u # s => sched'[u] = sched[u] /\ Registered(u)
    BY <2>1, RegisterWrites DEF Registered
  <2>5. u = s /\ Registered(s) => sched'[u].next = sched[u].next
    BY RegisterWrites
  <2> QED BY <2>2, <2>3, <2>4, <2>5
<1>3. \A u \in Evaluable' :
        Deadline(u)' \in Nat /\ now + HeartbeatPeriod < Deadline(u)'
  <2> SUFFICES ASSUME NEW u \in Evaluable'
               PROVE  Deadline(u)' \in Nat /\ now + HeartbeatPeriod < Deadline(u)'
    OBVIOUS
  <2>1. CASE u \in Evaluable /\ Deadline(u)' = Deadline(u) + HeartbeatPeriod
    <3>1. now < Deadline(u) /\ Deadline(u) \in Nat
      BY <2>1 DEF Timing, InTime, Evaluable
    <3> QED BY <2>1, <3>1
  <2>2. CASE sched'[u].next > now
    BY <1>1, <1>2, <2>2
  <2> QED BY <1>2, <2>1, <2>2
<1>4. \A r \in Replicas : wakeAt[r] <= now + HeartbeatPeriod
  BY DEF Timing, Punctual, WakesSoon
<1>5. InTime'
  BY <1>3, RegisterWrites DEF InTime
<1>6. ASSUME Unled PROVE Unled'
  <2>1. ASSUME NEW u \in Evaluable'
        PROVE  /\ lease'.expires + HeartbeatPeriod <= Deadline(u)'
               /\ \A r \in Replicas : UpFor(r, u)'
    <3>1. \A r \in Replicas : UpFor(r, u)'
      <4>1. /\ Deadline(u)' \in Nat /\ now' + HeartbeatPeriod < Deadline(u)'
            /\ now' = now /\ wakeAt' = wakeAt
        BY <1>3, RegisterWrites
      <4> QED BY <1>4, <4>1 DEF UpFor
    <3>2. lease' = lease
      BY RegisterWrites
    <3>3. CASE u \in Evaluable /\ Deadline(u)' = Deadline(u) + HeartbeatPeriod
      <4>1. lease.expires + HeartbeatPeriod <= Deadline(u) /\ Deadline(u) \in Nat
        BY <1>6, <3>3 DEF Unled, Evaluable
      <4> QED BY <3>1, <3>2, <3>3, <4>1
    <3>4. CASE sched'[u].next > now
      <4>1. CASE lease.expires = 0
        BY <1>1, <1>2, <3>1, <3>2, <3>4, <4>1
      <4>2. CASE faults > 0
        <5>1. lease.expires <= now + MaxSkew + LeaseDuration
          BY DEF Timing, Punctual
        <5> QED BY <1>1, <1>2, <3>1, <3>2, <3>4, <4>2, <5>1
      <4> QED BY <1>6, <4>1, <4>2 DEF Unled
    <3> QED BY <1>2, <3>3, <3>4
  <2> QED BY <1>6, <2>1, RegisterWrites DEF Unled
<1>7. ASSUME Led PROVE Led'
  <2>1. PICK l \in Replicas : Leads(l)
    BY <1>7 DEF Led
  <2>2. Leads(l)'
    BY <2>1, RegisterWrites DEF Leads
  <2>3. ASSUME NEW u \in Evaluable' PROVE Serves(l, u)'
    <3>1. /\ Deadline(u)' \in Nat /\ now' + HeartbeatPeriod < Deadline(u)'
          /\ now' = now /\ wakeAt' = wakeAt
      BY <1>3, RegisterWrites
    <3> QED BY <1>4, <3>1 DEF Serves
  <2> QED BY <2>2, <2>3 DEF Led
<1> QED BY <1>5, <1>6, <1>7 DEF Timing

(* Time passes: somebody is up, and wakes before any deadline.             *)
LEMMA TickPasses ==
  ASSUME IInv, Timing, \A r \in Replicas : Asleep(r), Served, Tick, UNCHANGED loop
  PROVE  InTime' /\ (Unled' \/ Led')
<1> USE TimingTypes, CostFacts
<1>1. /\ UNCHANGED <<lease, sched, pc, at, fence, todo, plan, wakeAt, faults, registers>>
      /\ now' = now + 1
  BY DEF Tick, tables, pass, loop
<1>2. /\ \A r \in Replicas : ~InPass(r)
      /\ \A r \in Replicas : pc[r] # "down" => pc[r] = "idle" /\ wakeAt[r] >= now + 1
  BY DEF Asleep, InPass
<1>3. Grace' = Grace
  BY <1>1, GraceFacts DEF Timing
<1>4. Evaluable' = Evaluable /\ \A s \in Evaluable : Deadline(s)' = Deadline(s)
  BY <1>1, <1>3 DEF Evaluable, Registered, Deadline
<1>5. ASSUME Unled PROVE InTime' /\ Unled'
  <2>1. PICK r \in Replicas : pc[r] # "down"
    BY DEF Served
  <2>2. \A s \in Evaluable : now + 1 < Deadline(s)
    <3> SUFFICES ASSUME NEW s \in Evaluable PROVE now + 1 < Deadline(s)
      OBVIOUS
    <3>1. wakeAt[r] < Deadline(s) /\ Deadline(s) \in Nat
      BY <1>2, <1>5, <2>1 DEF Unled, UpFor, Evaluable
    <3> QED BY <1>2, <2>1, <3>1
  <2>3. \A s \in Evaluable, q \in Replicas : UpFor(q, s)'
    BY <1>1, <1>2, <1>4, <1>5 DEF Unled, UpFor, Decided, InPass
  <2> QED BY <1>1, <1>4, <1>5, <2>2, <2>3 DEF InTime, Unled
<1>6. ASSUME Led PROVE InTime' /\ Led'
  <2>1. PICK l \in Replicas : Leads(l) /\ \A s \in Evaluable : Serves(l, s)
    BY <1>6 DEF Led
  <2>2. pc[l] = "idle" /\ wakeAt[l] >= now + 1
    BY <1>2, <2>1 DEF Leads
  <2>3. \A s \in Evaluable : now + 1 < Deadline(s)
    <3> SUFFICES ASSUME NEW s \in Evaluable PROVE now + 1 < Deadline(s)
      OBVIOUS
    <3>1. wakeAt[l] < Deadline(s) /\ Deadline(s) \in Nat
      BY <2>1, <2>2 DEF Serves, Evaluable
    <3> QED BY <2>2, <3>1
  <2>4. Leads(l)' /\ \A s \in Evaluable : Serves(l, s)'
    BY <1>1, <1>4, <2>1, <2>2 DEF Leads, Serves, Decided
  <2> QED BY <1>1, <1>4, <2>3, <2>4 DEF InTime, Led
<1> QED BY <1>5, <1>6 DEF Timing

(* Every step of the loop keeps the deadlines.                             *)
LEMMA TimingKept ==
  ASSUME IInv, Timing, [LoopNext]_loopVars
  PROVE  Timing'
<1>1. IInv' /\ Counted' /\ Punctual'
  BY LoopKeepsIInv, CountedKept, PunctualKept
<1> SUFFICES InTime' /\ (Unled' \/ Led')
  BY <1>1 DEF Timing
<1>2. CASE UNCHANGED loopVars
  <2>1. /\ UNCHANGED <<now, lease, sched, pc, at, fence, todo, plan, wakeAt>>
        /\ UNCHANGED <<faults, registers>>
    BY <1>2 DEF loopVars, vars, tables, pass, loop
  <2>2. Evaluable' = Evaluable /\ \A s \in Evaluable : Deadline(s)' = Deadline(s)
    BY <2>1 DEF Evaluable, Registered, Deadline, Grace
  <2>3. Unled => Unled'
    BY <2>1, <2>2 DEF Unled, UpFor
  <2>4. ASSUME NEW l \in Replicas, NEW s \in Evaluable, Serves(l, s) PROVE Serves(l, s)'
    BY <2>1, <2>2, <2>4 DEF Serves, PlanCurrent, Registered
  <2>5. \A l \in Replicas : Leads(l) => Leads(l)'
    BY <2>1 DEF Leads
  <2>6. Led => Led'
    BY <2>2, <2>4, <2>5 DEF Led
  <2> QED BY <2>1, <2>2, <2>3, <2>6 DEF Timing, InTime
<1>3. CASE (\A r \in Replicas : Asleep(r)) /\ Served /\ Tick /\ UNCHANGED loop
  BY <1>3, TickPasses
<1>4. CASE \E r \in Replicas, s \in Schedules, d \in Definitions : RegisterAndWake(r, s, d)
  BY <1>4, RegistrationPaid
<1>5. ASSUME NEW r \in Replicas, Unwritten(r) PROVE InTime' /\ (Unled' \/ Led')
  BY <1>5, UnwrittenSteps, InTimeStays, UnledKept, LedKept DEF Timing
<1>6. ASSUME NEW r \in Replicas, UNCHANGED loop,
             \/ TakeLease(r) /\ ~(lease.fence > 0 /\ lease.expires > at[r])
             \/ Heartbeat(r) /\ lease.owner = OwnerOf[r] /\ lease.expires > at[r]
      PROVE  InTime' /\ Led'
  <2>1. Forward
    BY <1>6, StepForward DEF PassStep
  <2>2. UNCHANGED <<now, faults, registers>>
    BY <1>6 DEF TakeLease, Heartbeat
  <2> QED BY <1>6, <2>1, <2>2, InTimeStays, LeaseWritten
<1>7. ASSUME NEW r \in Replicas,
             \/ Sleep(r) /\ ~UNCHANGED faults
             \/ ReplicaFault(r) /\ UNCHANGED loop
      PROVE  InTime' /\ Unled'
  <2>1. Forward /\ now' = now
    BY <1>7, StepForward, ReplicaSteps
  <2>2. faults' = faults + 1 /\ UNCHANGED registers
    <3>1. CASE Sleep(r) /\ ~UNCHANGED faults
      BY <3>1 DEF Sleep, Return, Fault
    <3>2. CASE CommitLost(r)
      BY <3>2, CommitRest DEF Fault
    <3>3. CASE PassFails(r) \/ Crash(r)
      BY <3>3 DEF PassFails, Crash, Fault
    <3> QED BY <1>7, <3>1, <3>2, <3>3 DEF ReplicaFault
  <2>3. (lease.expires \in Nat)'
    BY <1>1 DEF IInv, Basics
  <2> QED BY <1>1, <2>1, <2>2, <2>3, FaultPaid
<1>8. CASE \E r \in Replicas : \/ WakeUp(r) \/ Sleep(r) \/ StartAgain(r)
                               \/ (PassStep(r) \/ ReplicaFault(r)) /\ UNCHANGED loop
  BY <1>5, <1>6, <1>7, <1>8 DEF Unwritten, PassStep
<1> QED BY <1>2, <1>3, <1>4, <1>8 DEF LoopNext

-----------------------------------------------------------------------------
(* The record.                                                             *)

(* Multiples of a period are ordered as their factors.                     *)
LEMMA FactorsOrdered ==
  ASSUME NEW i \in Nat, NEW k \in Nat, NEW p \in Nat \ {0}
  PROVE  (i * p < k * p => i < k) /\ (k * p <= i * p => k <= i)
<1>1. i * p \in Nat /\ k * p \in Nat
  OBVIOUS
<1>2. k <= i => k * p <= i * p
  BY TimesGrows
<1>3. i + 1 <= k => (i + 1) * p <= k * p
  BY TimesGrows
<1>4. (i + 1) * p = i * p + p
  OBVIOUS
<1> QED BY <1>1, <1>2, <1>3, <1>4

(* The ticks of an interval that a pass passes over are among those it     *)
(* fires.                                                                  *)
LEMMA IntervalCovered ==
  ASSUME NEW a \in Int, NEW p \in Nat \ {0}, NEW k \in Nat, NEW m \in Nat,
         NEW i \in Nat, a + k * p <= a + i * p, a + i * p < a + k * p + m * p
  PROVE  i - k \in 0 .. m - 1 /\ a + i * p = a + k * p + (i - k) * p
<1>1. i * p \in Nat /\ k * p \in Nat /\ m * p \in Nat /\ k * p + m * p = (k + m) * p
  OBVIOUS
<1>2. k * p <= i * p /\ i * p < (k + m) * p
  BY <1>1
<1>3. k <= i /\ i < k + m
  BY <1>2, FactorsOrdered
<1>4. i - k \in 0 .. m - 1 /\ i * p = k * p + (i - k) * p
  BY <1>3
<1>5. (i - k) * p \in Int
  OBVIOUS
<1> QED BY <1>1, <1>4, <1>5

(* What a commit records: its ticks, with the clock of its pass.           *)
LEMMA CommitRecords ==
  ASSUME IInv, Timing, NEW r \in Replicas, pc[r] = "commit", NEW s \in todo[r],
         NEW after, CommitTo(r, s, after)
  PROVE  /\ \A o \in Occurrences :
              \/ occ'[o] = occ[o]
              \/ occ'[o].status # "none" /\ o[2] <= at[r] /\ occ'[o].created = at[r]
         /\ \A t \in Clocks :
              t \in BoundedDueTicks(sched[s], at[r]) => occ'[<<s, t>>].status # "none"
<1>1. /\ plan[r][s] = sched[s] /\ s \in Schedules /\ sched[s].def \in Definitions
      /\ sched[s] \in Rows /\ sched[s].next <= at[r] /\ at[r] \in Nat
  BY CommitForward, TimingTypes DEF Evaluable
<1> DEFINE T == BoundedDueTicks(sched[s], at[r])
<1>2. \A u \in T : u <= at[r]
  BY <1>1, TicksBetweenWatermarks
<1>3. Recorded(r, s) = {s} \X Inserted(s, T)
  BY <1>1 DEF Recorded
<1>4. \A o \in Occurrences :
        IF o \in Recorded(r, s)
        THEN /\ occ[o].status = "none" /\ occ'[o].status # "none"
             /\ occ'[o].fence = lease.fence /\ occ'[o].created = at[r]
        ELSE occ'[o] = occ[o]
  BY CommitTables
<1>5. ASSUME NEW t \in Clocks, t \in T PROVE occ'[<<s, t>>].status # "none"
  <2>1. <<s, t>> \in Occurrences
    BY <1>1 DEF Occurrences
  <2>2. CASE occ[<<s, t>>].status = "none"
    <3>1. <<s, t>> \in Recorded(r, s)
      BY <1>3, <1>5, <2>2 DEF Inserted
    <3> QED BY <1>4, <2>1, <3>1
  <2>3. CASE occ[<<s, t>>].status # "none"
    BY <1>4, <2>1, <2>3
  <2> QED BY <2>2, <2>3
<1>6. \A o \in Recorded(r, s) : o[2] <= at[r]
  BY <1>2, <1>3 DEF Inserted
<1> QED BY <1>4, <1>5, <1>6

(* The record is complete up to the watermarks.                            *)
OnRecord == Aligned /\ BehindOnRecord /\ RecordedLate

(* Retirement is for good.                                                 *)
LEMMA StaysRetired ==
  ASSUME IInv, Timing, now' = now \/ now' = now + 1, NEW t \in Clocks, Retired(t)
  PROVE  Retired(t)'
BY TimingTypes, SkewFacts, ClocksReach, ConstantsAssumption DEF Retired

(* Steps that leave the tables alone.                                      *)
LEMMA RecordRests ==
  ASSUME IInv, Timing, OnRecord, UNCHANGED <<sched, occ, since>>,
         now' = now \/ now' = now + 1
  PROVE  OnRecord'
<1>1. Evaluable' = Evaluable
  BY DEF Evaluable, Registered
<1>2. Aligned'
  BY <1>1 DEF OnRecord, Aligned
<1>3. RecordedLate'
  BY DEF OnRecord, RecordedLate
<1>4. \A s, t : IsTick(s, t)' <=> IsTick(s, t)
  BY DEF IsTick, Matches
<1>5. BehindOnRecord'
  BY <1>1, <1>4, StaysRetired DEF OnRecord, BehindOnRecord
<1> QED BY <1>2, <1>3, <1>5 DEF OnRecord

(* A commit: the watermark moves over ticks that it records.               *)
LEMMA CommitOnRecord ==
  ASSUME IInv, Timing, OnRecord, NEW r \in Replicas, pc[r] = "commit",
         NEW s \in todo[r], NEW after, CommitTo(r, s, after), UNCHANGED since
  PROVE  OnRecord'
<1> USE TimingTypes
<1> DEFINE d == sched[s].def
           n == sched[s].next
           T == BoundedDueTicks(sched[s], at[r])
<1>1. /\ s \in Evaluable /\ d \in Definitions /\ sched[s] \in Rows /\ s \in Schedules
      /\ n <= at[r] /\ at[r] - n < MaxCatchUp /\ n \in Nat /\ at[r] \in Nat
      /\ \A u \in Schedules \ {s} : sched'[u] = sched[u]
      /\ sched'[s].def = d /\ sched'[s].next = NextRun(sched[s], at[r])
      /\ sched'[s].next \in Nat /\ n <= sched'[s].next /\ Evaluable' = Evaluable
  BY CommitForward DEF Forward, Evaluable
<1>2. now' = now /\ d.cron \in BOOLEAN /\ d.period \in Nat \ {0} /\ since[s] \in Int
  BY <1>1, ConstantsAssumption DEF CommitTo, Timing, Counted
<1>3. \A u, t : IsTick(u, t)' <=>
        LET e == sched'[u].def
        IN  /\ t > since[u]
            /\ IF e.cron THEN Matches(e, t)
               ELSE \E i \in 1 .. t - since[u] : t = since[u] + i * e.period
  BY DEF IsTick, Matches
<1>4. \A u \in Evaluable, t \in Clocks : IsTick(u, t)' => IsTick(u, t)
  <2>1. \A u \in Evaluable : sched'[u].def = sched[u].def
    BY <1>1 DEF Evaluable
  <2> QED BY <1>3, <2>1 DEF IsTick
<1>5. RecordedLate'
  <2> SUFFICES ASSUME NEW u \in Schedules, NEW t \in Clocks, occ'[<<u, t>>].status # "none"
               PROVE  t <= occ'[<<u, t>>].created
    BY DEF RecordedLate
  <2>1. <<u, t>> \in Occurrences
    BY DEF Occurrences
  <2> QED BY <2>1, CommitRecords DEF OnRecord, RecordedLate
<1>6. ASSUME NEW u \in Evaluable, NEW t \in Clocks, IsTick(u, t), t < sched[u].next
      PROVE  occ'[<<u, t>>].status # "none" \/ Retired(t)'
  <2>1. <<u, t>> \in Occurrences
    BY DEF Occurrences, Evaluable
  <2>2. occ[<<u, t>>].status # "none" \/ Retired(t)
    BY <1>6 DEF OnRecord, BehindOnRecord
  <2>3. occ[<<u, t>>].status # "none" => occ'[<<u, t>>].status # "none"
    BY <2>1, CommitRecords
  <2> QED BY <1>2, <2>2, <2>3, StaysRetired
<1>7. /\ since[s] < sched'[s].next
      /\ ~d.cron => \E k \in Nat \ {0} : sched'[s].next = since[s] + k * d.period
      /\ \A t \in Clocks : IsTick(s, t) /\ n <= t /\ t < sched'[s].next => t \in T
  <2>0. since[s] < n
    BY <1>1 DEF OnRecord, Aligned
  <2>1. CASE d.cron
    <3>1. ASSUME NEW t \in Clocks, IsTick(s, t), n <= t, t < sched'[s].next
          PROVE  t \in T
      <4>1. t \in Nat /\ Matches(d, t)
        BY <2>1, <3>1, ClocksReach DEF IsTick
      <4> QED BY <1>1, <2>1, <3>1, <4>1, CronCaughtUp
    <3> QED BY <1>1, <1>2, <2>0, <2>1, <3>1
  <2>2. CASE ~d.cron
    <3>1. /\ NextRun(sched[s], at[r]) = Max(IntervalTicks(d, n, at[r])) + d.period
          /\ T = IntervalTicks(d, n, at[r])
      BY <2>2 DEF NextRun, BoundedDueTicks
    <3>2. PICK m \in Nat \ {0} :
            /\ Max(IntervalTicks(d, n, at[r])) + d.period = n + m * d.period
            /\ \A i \in 0 .. m - 1 : n + i * d.period \in IntervalTicks(d, n, at[r])
      BY <1>1, IntervalCaughtUp
    <3>3. PICK k \in Nat \ {0} : n = since[s] + k * d.period
      BY <1>1, <2>2 DEF OnRecord, Aligned
    <3> HIDE DEF T, d, n
    <3>4. sched'[s].next = n + m * d.period
      BY <1>1, <3>1, <3>2
    <3>5. sched'[s].next = since[s] + (k + m) * d.period /\ k + m \in Nat \ {0}
      <4>1. (k + m) * d.period = k * d.period + m * d.period
            /\ k * d.period \in Nat /\ m * d.period \in Nat
        BY <1>2
      <4> QED BY <1>2, <3>3, <3>4, <4>1
    <3>6. ASSUME NEW t \in Clocks, IsTick(s, t), n <= t, t < sched'[s].next
          PROVE  t \in T
      <4>1. PICK i \in 1 .. t - since[s] : t = since[s] + i * d.period
        BY <2>2, <3>6 DEF IsTick, d
      <4>2. /\ i \in Nat /\ k \in Nat /\ m \in Nat
            /\ since[s] \in Int /\ d.period \in Nat \ {0}
        BY <1>2, <4>1, ClocksReach
      <4>3. /\ since[s] + k * d.period <= since[s] + i * d.period
            /\ since[s] + i * d.period < since[s] + k * d.period + m * d.period
        BY <3>3, <3>4, <3>6, <4>1
      <4>4. /\ i - k \in 0 .. m - 1
            /\ since[s] + i * d.period = since[s] + k * d.period + (i - k) * d.period
        <5> DEFINE a == since[s]
                   p == d.period
        <5>1. /\ a \in Int /\ p \in Nat \ {0}
              /\ a + k * p <= a + i * p /\ a + i * p < a + k * p + m * p
          BY <4>2, <4>3
        <5> HIDE TimingTypes DEF a, p
        <5>2. i - k \in 0 .. m - 1 /\ a + i * p = a + k * p + (i - k) * p
          BY <4>2, <5>1, IntervalCovered
        <5> QED BY <5>2 DEF a, p
      <4>5. t = n + (i - k) * d.period
        BY <3>3, <4>1, <4>4
      <4>6. n + (i - k) * d.period \in IntervalTicks(d, n, at[r])
        BY <3>2, <4>4
      <4> QED BY <3>1, <4>5, <4>6
    <3>7. since[s] < sched'[s].next
      BY <1>1, <1>2, <2>0 DEF n
    <3> QED BY <2>2, <3>5, <3>6, <3>7
  <2> QED BY <2>1, <2>2
<1>8. Aligned'
  <2> SUFFICES ASSUME NEW u \in Evaluable
               PROVE  /\ since[u] < sched'[u].next
                      /\ ~sched'[u].def.cron =>
                           \E k \in Nat \ {0} :
                             sched'[u].next = since[u] + k * sched'[u].def.period
    BY <1>1 DEF Aligned
  <2>1. CASE u = s
    BY <1>1, <1>7, <2>1
  <2>2. CASE u # s
    <3>1. sched'[u] = sched[u]
      BY <1>1, <2>2 DEF Evaluable
    <3> QED BY <3>1 DEF OnRecord, Aligned
  <2> QED BY <2>1, <2>2
<1>9. BehindOnRecord'
  <2> SUFFICES ASSUME NEW u \in Evaluable, NEW t \in Clocks, IsTick(u, t)',
                      t < sched'[u].next
               PROVE  occ'[<<u, t>>].status # "none" \/ Retired(t)'
    BY <1>1 DEF BehindOnRecord
  <2>1. IsTick(u, t) /\ t \in Nat /\ sched[u].next \in Nat
    BY <1>4, ClocksReach DEF Evaluable
  <2>2. CASE t < sched[u].next
    BY <1>6, <2>1, <2>2
  <2>3. CASE u = s /\ n <= t
    <3>1. t \in T
      BY <1>7, <2>1, <2>3
    <3> QED BY <2>3, <3>1, CommitRecords
  <2>4. u # s => sched'[u] = sched[u]
    BY <1>1 DEF Evaluable
  <2> QED BY <2>1, <2>2, <2>3, <2>4
<1> QED BY <1>5, <1>8, <1>9 DEF OnRecord

(* The sweep removes only occurrences that are old.                        *)
LEMMA SweepOnRecord ==
  ASSUME IInv, Timing, OnRecord, NEW r \in Replicas, SweepOccurrences(r),
         UNCHANGED since
  PROVE  OnRecord'
<1> USE TimingTypes
<1>1. UNCHANGED <<sched, now>> /\ pc[r] = "commit"
  BY DEF SweepOccurrences
<1>2. at[r] \in Nat /\ at[r] <= now + MaxSkew
  BY <1>1, PassFacts DEF InPass
<1>3. ASSUME NEW s \in Schedules, NEW t \in Clocks, occ[<<s, t>>].status # "none"
      PROVE  occ'[<<s, t>>] = occ[<<s, t>>] \/ Retired(t)
  <2>1. <<s, t>> \in Occurrences
    BY DEF Occurrences
  <2>2. CASE occ' = occ
    BY <2>2
  <2>3. CASE SweepDue(r) /\ occ[<<s, t>>].created + Retention < at[r]
    <3>1. t <= occ[<<s, t>>].created /\ occ[<<s, t>>].created \in Nat /\ t \in Nat
      BY <1>3, <2>1, ClocksReach DEF OnRecord, RecordedLate, IInv, JobBasics
    <3> QED BY <1>2, <2>3, <3>1, SkewFacts, ConstantsAssumption DEF Retired, SweepDue
  <2> QED BY <2>1, <2>2, <2>3 DEF SweepOccurrences
<1>4. ASSUME NEW s \in Schedules, NEW t \in Clocks
      PROVE  occ'[<<s, t>>] = occ[<<s, t>>] \/ occ'[<<s, t>>].status = "none"
  <2>1. <<s, t>> \in Occurrences
    BY DEF Occurrences
  <2> QED BY <2>1 DEF SweepOccurrences, NoOccurrence
<1>5. RecordedLate'
  BY <1>4 DEF OnRecord, RecordedLate
<1>6. Evaluable' = Evaluable /\ \A s, t : IsTick(s, t)' <=> IsTick(s, t)
  BY <1>1 DEF Evaluable, Registered, IsTick, Matches
<1>7. Aligned'
  BY <1>1, <1>6 DEF OnRecord, Aligned
<1>8. BehindOnRecord'
  <2> SUFFICES ASSUME NEW s \in Evaluable, NEW t \in Clocks, IsTick(s, t),
                      t < sched[s].next
               PROVE  occ'[<<s, t>>].status # "none" \/ Retired(t)'
    BY <1>1, <1>6 DEF BehindOnRecord
  <2>1. occ[<<s, t>>].status # "none" \/ Retired(t)
    BY DEF OnRecord, BehindOnRecord
  <2>2. s \in Schedules
    BY DEF Evaluable
  <2> QED BY <1>1, <1>3, <2>1, <2>2, StaysRetired
<1> QED BY <1>5, <1>7, <1>8 DEF OnRecord

(* A registration counts ticks from its clock, or goes on counting, or     *)
(* counts anew from the watermark: either way none is behind it.           *)
LEMMA RegisterOnRecord ==
  ASSUME IInv, Timing, OnRecord, NEW q \in Replicas, NEW s \in Schedules,
         NEW d \in Definitions, RegisterAndWake(q, s, d)
  PROVE  OnRecord'
<1> USE TimingTypes
<1> DEFINE a == since'[s]
           n == sched'[s].next
<1>1. /\ UNCHANGED <<now, occ>> /\ sched'[s].def = d /\ n \in Nat
      /\ \A u \in Schedules \ {s} : sched'[u] = sched[u]
  BY RegisterWrites
<1>2. /\ since' = [since EXCEPT ![s] = Anchor(q, s, d)] /\ since \in [Schedules -> Int]
      /\ d.cron \in BOOLEAN /\ d.period \in Nat \ {0}
  BY ConstantsAssumption DEF RegisterAndWake, Timing, Counted
<1>3. \A u \in Schedules \ {s} : since'[u] = since[u]
  BY <1>2
<1>4. RecordedLate'
  BY <1>1 DEF OnRecord, RecordedLate
<1>5. \A u, t : IsTick(u, t)' <=>
        LET e == sched'[u].def
        IN  /\ t > since'[u]
            /\ IF e.cron THEN Matches(e, t)
               ELSE \E i \in 1 .. t - since'[u] : t = since'[u] + i * e.period
  BY DEF IsTick, Matches
<1>6. \A u \in Schedules, t \in Clocks :
        sched'[u].def = sched[u].def /\ since'[u] = since[u] =>
          (IsTick(u, t)' <=> IsTick(u, t))
  BY <1>5 DEF IsTick
<1>7. ASSUME s \notin Poisoned
      PROVE  /\ a \in Int /\ a < n
             /\ ~d.cron => \E k \in Nat \ {0} : n = a + k * d.period
             /\ \/ /\ Registered(s) /\ sched'[s].def = sched[s].def
                   /\ a = since[s] /\ n = sched[s].next
                \/ \A t \in Clocks : IsTick(s, t)' => t >= n
  <2>1. CASE Registered(s) /\ d = sched[s].def
    <3>1. a = since[s] /\ n = sched[s].next /\ s \in Evaluable
      BY <1>2, <1>7, <2>1, RegisterWrites DEF Anchor, Evaluable
    <3> QED BY <1>1, <1>2, <2>1, <3>1 DEF OnRecord, Aligned
  <2>2. CASE ~(Registered(s) /\ d = sched[s].def) /\ d.cron
    <3>1. ASSUME NEW t \in Clocks, IsTick(s, t)'
          PROVE  t \in Nat /\ Matches(d, t) /\ t > a
      BY <1>1, <1>5, <2>2, <3>1, ClocksReach
    <3>2. CASE Registered(s)
      <4>1. a = n - 1
        BY <1>2, <2>2, <3>2, RegisterWrites DEF Anchor
      <4> QED BY <1>1, <2>2, <3>1, <4>1
    <3>3. CASE ~Registered(s)
      <4>1. a = Clock(q) /\ n = NextFire(d, Clock(q)) /\ Clock(q) \in Nat /\ a < n
        BY <1>2, <2>2, <3>3, RegisterWrites DEF Anchor, FirstRun
      <4> HIDE DEF a, n
      <4>2. \A t \in Clocks : IsTick(s, t)' => t >= n
        BY <1>1, <3>1, <4>1, NextFireFirst
      <4> QED BY <2>2, <4>1, <4>2
    <3> QED BY <3>2, <3>3
  <2>3. CASE ~(Registered(s) /\ d = sched[s].def) /\ ~d.cron
    <3>1. n = a + d.period /\ a \in Int
      BY <1>2, <2>3, RegisterWrites DEF Anchor, FirstRun
    <3> HIDE DEF a, n
    <3>2. ASSUME NEW t \in Clocks, IsTick(s, t)' PROVE t >= n
      <4>1. PICK i \in 1 .. t - a : t = a + i * d.period
        BY <1>1, <1>5, <2>3, <3>2 DEF a
      <4>2. t \in Nat
        BY ClocksReach
      <4>3. i \in Nat /\ 1 <= i
        BY <3>1, <4>1, <4>2
      <4>4. d.period <= i * d.period /\ i * d.period \in Nat
        <5> DEFINE p == d.period
        <5>1. p \in Nat \ {0}
          BY <1>2
        <5> HIDE DEF p
        <5>2. 1 * p <= i * p /\ i * p \in Nat /\ 1 * p = p
          BY <4>3, <5>1, TimesGrows
        <5> QED BY <5>2 DEF p
      <4> QED BY <1>2, <3>1, <4>1, <4>2, <4>4
    <3>3. n = a + 1 * d.period /\ a < n
      BY <1>2, <3>1
    <3>4. \E k \in Nat \ {0} : n = a + k * d.period
      BY <3>3
    <3>5. \A t \in Clocks : IsTick(s, t)' => t >= n
      BY <3>2
    <3> QED BY <2>3, <3>1, <3>3, <3>4, <3>5
  <2> QED BY <1>2, <2>1, <2>2, <2>3
<1>8. \A u \in Evaluable' : u # s =>
        u \in Evaluable /\ u \in Schedules /\ sched'[u] = sched[u] /\ since'[u] = since[u]
  BY <1>1, <1>3 DEF Evaluable, Registered
<1>9. s \in Evaluable' => s \notin Poisoned
  BY DEF Evaluable
<1>10. Aligned'
  <2> SUFFICES ASSUME NEW u \in Evaluable'
               PROVE  /\ since'[u] < sched'[u].next
                      /\ ~sched'[u].def.cron =>
                           \E k \in Nat \ {0} :
                             sched'[u].next = since'[u] + k * sched'[u].def.period
    BY DEF Aligned
  <2>1. CASE u = s
    BY <1>1, <1>7, <1>9, <2>1
  <2>2. CASE u # s
    BY <1>8, <2>2 DEF OnRecord, Aligned
  <2> QED BY <2>1, <2>2
<1>11. BehindOnRecord'
  <2> SUFFICES ASSUME NEW u \in Evaluable', NEW t \in Clocks, IsTick(u, t)',
                      t < sched'[u].next
               PROVE  occ'[<<u, t>>].status # "none" \/ Retired(t)'
    BY DEF BehindOnRecord
  <2>1. ASSUME u \in Evaluable, sched'[u].def = sched[u].def,
               since'[u] = since[u], sched'[u].next = sched[u].next
        PROVE  occ'[<<u, t>>].status # "none" \/ Retired(t)'
    <3>1. IsTick(u, t)
      BY <1>6, <2>1 DEF Evaluable
    <3>2. occ[<<u, t>>].status # "none" \/ Retired(t)
      BY <2>1, <3>1 DEF OnRecord, BehindOnRecord
    <3> QED BY <1>1, <3>2, StaysRetired
  <2>2. CASE u # s
    BY <1>8, <2>1, <2>2
  <2>3. CASE u = s
    <3>1. t \in Nat /\ ~(t >= n)
      BY <1>1, <2>3, ClocksReach
    <3>2. /\ Registered(s) /\ sched'[s].def = sched[s].def /\ a = since[s]
          /\ n = sched[s].next /\ s \in Evaluable
      BY <1>7, <1>9, <2>3, <3>1 DEF Evaluable
    <3> QED BY <2>1, <2>3, <3>2
  <2> QED BY <2>2, <2>3
<1> QED BY <1>4, <1>10, <1>11 DEF OnRecord

(* Every step keeps the record complete up to the watermarks.              *)
LEMMA OnRecordKept ==
  ASSUME IInv, Timing, OnRecord, [LoopNext]_loopVars
  PROVE  OnRecord'
<1>1. CASE \E r \in Replicas : (Commit(r) \/ CommitLost(r)) /\ UNCHANGED loop
  <2>1. PICK r \in Replicas : (Commit(r) \/ CommitLost(r)) /\ UNCHANGED loop
    BY <1>1
  <2>2. PICK s \in todo[r], a \in {"commit", "ended"} : pc[r] = "commit" /\ CommitTo(r, s, a)
    BY <2>1 DEF Commit, CommitLost, NextUp
  <2>3. UNCHANGED since
    BY <2>1 DEF loop
  <2> QED BY <2>2, <2>3, CommitOnRecord
<1>2. CASE \E r \in Replicas : SweepOccurrences(r) /\ UNCHANGED loop
  BY <1>2, SweepOnRecord DEF loop
<1>3. CASE \E r \in Replicas, s \in Schedules, d \in Definitions : RegisterAndWake(r, s, d)
  BY <1>3, RegisterOnRecord
<1>4. CASE \E r \in Replicas : WakeUp(r) \/ Sleep(r) \/ StartAgain(r)
  <2>1. UNCHANGED <<now, sched, occ, since>>
    BY <1>4 DEF WakeUp, RunOnce, Sleep, Return, StartAgain, Restart, tables
  <2> QED BY <2>1, RecordRests
<1>5. CASE \E r \in Replicas : /\ UNCHANGED loop
                               /\ \/ TakeLease(r) \/ Heartbeat(r) \/ Confirm(r)
                                  \/ Load(r) \/ Skip(r) \/ PassFails(r) \/ Crash(r)
  <2>1. UNCHANGED <<now, sched, occ, since>>
    BY <1>5 DEF TakeLease, Heartbeat, Confirm, Load, Skip, PassFails, Crash, tables, loop
  <2> QED BY <2>1, RecordRests
<1>6. CASE Tick /\ UNCHANGED loop
  <2>1. UNCHANGED <<sched, occ, since>> /\ now' = now + 1
    BY <1>6 DEF Tick, tables, loop
  <2> QED BY <2>1, RecordRests
<1>7. CASE UNCHANGED loopVars
  <2>1. UNCHANGED <<now, sched, occ, since>>
    BY <1>7 DEF loopVars, vars, tables, loop
  <2> QED BY <2>1, RecordRests
<1> QED BY <1>1, <1>2, <1>3, <1>4, <1>5, <1>6, <1>7 DEF LoopNext, PassStep, ReplicaFault

-----------------------------------------------------------------------------
(* TickInv holds at the start: nothing is registered.                      *)
LEMMA TickInvInit == LoopInit => TickInv
<1> SUFFICES ASSUME LoopInit PROVE TickInv
  OBVIOUS
<1>1. IInv
  BY InitHolds DEF LoopInit
<1>2. Evaluable = {} /\ \A s \in Schedules : ~Registered(s)
  BY DEF LoopInit, Init, Evaluable, Registered, NoSchedule
<1>3. Counted
  BY <1>2, ConstantsAssumption DEF LoopInit, Init, Counted
<1>4. Punctual
  BY CostFacts DEF LoopInit, Init, Punctual, InPass, WakesSoon
<1>5. InTime /\ Unled /\ Aligned /\ BehindOnRecord
  BY <1>2 DEF LoopInit, Init, InTime, Unled, Aligned, BehindOnRecord
<1>6. RecordedLate
  BY DEF LoopInit, Init, RecordedLate, Occurrences, NoOccurrence
<1> QED BY <1>1, <1>3, <1>4, <1>5, <1>6 DEF TickInv, Timing

(* TickInv is inductive.                                                   *)
LEMMA TickInvInductive == TickInv /\ [LoopNext]_loopVars => TickInv'
BY LoopKeepsIInv, TimingKept, OnRecordKept DEF TickInv, OnRecord

(* Every tick of a schedule is on record within its grace, for any number  *)
(* of replicas, schedules, faults and registrations: a tick that is due    *)
(* lies before the watermark, since no deadline is in the past, and what   *)
(* lies before the watermark is on record.                                 *)
THEOREM EveryTickServedHolds == LoopSpec => []EveryTickServed
<1>1. TickInv => EveryTickServed
  <2> SUFFICES ASSUME TickInv, NEW s \in Schedules \ Poisoned, Registered(s),
                      NEW t \in Clocks, IsTick(s, t), t + Grace <= now
               PROVE  occ[<<s, t>>].status # "none" \/ Retired(t)
    BY DEF EveryTickServed
  <2>1. s \in Evaluable
    BY DEF Evaluable
  <2>2. now < sched[s].next + Grace
    BY <2>1 DEF TickInv, Timing, InTime, Deadline
  <2>3. t \in Nat /\ sched[s].next \in Nat /\ Grace \in Nat /\ now \in Nat
    BY ClocksReach, TimingTypes DEF TickInv
  <2>4. t < sched[s].next
    BY <2>2, <2>3
  <2> QED BY <2>1, <2>4 DEF TickInv, BehindOnRecord
<1>2. LoopSpec => []TickInv
  BY TickInvInit, TickInvInductive, PTL DEF LoopSpec
<1> QED BY <1>1, <1>2, PTL
=============================================================================
