----------------------- MODULE DurableSchedulerProofs -----------------------
(***************************************************************************)
(* Proofs about DurableScheduler for any number of replicas, schedules,    *)
(* registrations, failures and erasures, any clock skew, and any lease,    *)
(* retention and cadence.                                                  *)
(***************************************************************************)
EXTENDS DurableScheduler, TLAPS

-----------------------------------------------------------------------------
(* Arithmetic of ticks.                                                    *)

(* A product of naturals is a natural and grows with its first factor.     *)
LEMMA TimesGrows ==
  ASSUME NEW a \in Nat, NEW b \in Nat, NEW p \in Nat, a <= b
  PROVE  a * p \in Nat /\ a * p <= b * p
<1>1. b * p = a * p + (b - a) * p
  OBVIOUS
<1>2. b - a \in Nat
  OBVIOUS
<1>3. a * p \in Nat /\ (b - a) * p \in Nat
  BY <1>2
<1> QED BY <1>1, <1>3

(* Two matches of a cadence less than a period apart are one.              *)
LEMMA MatchUnique ==
  ASSUME NEW p \in Nat \ {0}, NEW t \in Nat, NEW u \in Nat,
         t % p = u % p, t <= u, u < t + p
  PROVE  t = u
<1>1. t = p * (t \div p) + (t % p) /\ u = p * (u \div p) + (u % p)
  OBVIOUS
<1> DEFINE k == (u \div p) - (t \div p)
<1>2. t \div p \in Int /\ u \div p \in Int /\ k \in Int
  OBVIOUS
<1>3. u - t = p * k
  BY <1>1, <1>2
<1> HIDE DEF k
<1>4. ~(k >= 1)
  <2> SUFFICES ASSUME k >= 1 PROVE FALSE
    OBVIOUS
  <2>1. k - 1 \in Nat /\ p * (k - 1) \in Nat
    BY <1>2
  <2>2. p * k = p + p * (k - 1)
    BY <1>2
  <2> QED BY <2>1, <2>2, <1>3
<1>5. ~(k <= -1)
  <2> SUFFICES ASSUME k <= -1 PROVE FALSE
    OBVIOUS
  <2>1. -k \in Nat \ {0} /\ p * (-k) \in Nat \ {0}
    BY <1>2
  <2>2. p * k = -(p * (-k))
    BY <1>2
  <2> QED BY <2>1, <2>2, <1>3
<1>6. k = 0
  BY <1>2, <1>4, <1>5
<1> QED BY <1>3, <1>6

(* A cadence matches once in every stretch of one period.                  *)
LEMMA MatchExists ==
  ASSUME NEW p \in Nat \ {0}, NEW f \in 0 .. p - 1, NEW a \in Nat
  PROVE  \E t \in a + 1 .. a + p : t % p = f
<1> DEFINE q == (a + p - f) \div p
           t == f + p * q
<1>1. q \in Nat /\ (a + p - f) % p \in 0 .. p - 1
  OBVIOUS
<1>2. a + p - f = p * q + ((a + p - f) % p)
  OBVIOUS
<1>3. t \in Int /\ t <= a + p /\ t >= a + 1
  BY <1>1, <1>2
<1>4. t % p = f
  BY <1>1
<1> QED BY <1>3, <1>4

(* nextFire answers an instant after the one it is given.                  *)
LEMMA NextFireLater ==
  ASSUME NEW d \in Definitions, NEW a \in Nat
  PROVE  NextFire(d, a) \in Nat /\ NextFire(d, a) > a
<1> DEFINE S == {t \in a + 1 .. a + d.period : Matches(d, t)}
<1>1. d.period \in Nat \ {0} /\ d.offset \in 0 .. d.period - 1
  BY ConstantsAssumption
<1>2. PICK t \in a + 1 .. a + d.period : t % d.period = d.offset
  BY <1>1, MatchExists
<1>3. t \in S /\ t \in Nat
  BY <1>1, <1>2 DEF Matches
<1>4. ASSUME NEW u \in S
      PROVE  u = t
  <2>1. u \in Nat /\ u >= a + 1 /\ u <= a + d.period /\ u % d.period = d.offset
    BY <1>1, <1>4 DEF Matches
  <2>2. t >= a + 1 /\ t <= a + d.period
    BY <1>1, <1>2
  <2>3. CASE t <= u
    BY <1>1, <1>2, <1>3, <2>1, <2>2, <2>3, MatchUnique
  <2>4. CASE u <= t
    BY <1>1, <1>2, <1>3, <2>1, <2>2, <2>4, MatchUnique
  <2> QED BY <1>3, <2>1, <2>3, <2>4
<1>5. S = {t}
  BY <1>3, <1>4
<1>6. Min(S) = t
  BY <1>3, <1>5 DEF Min
<1> QED BY <1>1, <1>2, <1>3, <1>6 DEF NextFire

(* The first watermark of a registration is an instant.                    *)
LEMMA FirstRunType ==
  ASSUME NEW d \in Definitions, NEW base \in Nat
  PROVE  FirstRun(d, base) \in Nat
BY NextFireLater, ConstantsAssumption DEF FirstRun

(* The ticks of an interval start at the watermark at the earliest, and    *)
(* the watermark after them lies a period past the newest.                 *)
LEMMA IntervalTicksBounds ==
  ASSUME NEW d \in Definitions, NEW c \in Nat, NEW t \in Nat, c <= t
  PROVE  LET T == IntervalTicks(d, c, t)
         IN  /\ T \subseteq Nat
             /\ \A u \in T : c <= u /\ u <= t /\ u < Max(T) + d.period
             /\ Max(T) \in Nat /\ c <= Max(T)
             /\ Max(T) = c + ((t - c) \div d.period) * d.period
<1> DEFINE p == d.period
           total == (t - c) \div p + 1
           kept == Min({total, MaxCatchUp})
           first == c + (total - kept) * p
           last == first + (kept - 1) * p
           T == {first + i * p : i \in 0 .. kept - 1}
<1>1. p \in Nat \ {0} /\ MaxCatchUp \in Nat \ {0}
  BY ConstantsAssumption
<1>2. total \in Nat \ {0}
  BY <1>1
<1>3. kept \in Nat \ {0} /\ kept <= total
  <2> HIDE DEF total
  <2> QED BY <1>1, <1>2 DEF Min
<1>4. first \in Nat /\ c <= first
  <2>1. total - kept \in Nat
    BY <1>2, <1>3
  <2>2. (total - kept) * p \in Nat
    BY <1>1, <2>1
  <2> QED BY <2>2
<1>5. kept - 1 \in Nat /\ (kept - 1) * p \in Nat
  BY <1>1, <1>3
<1>e. last <= t /\ last = c + ((t - c) \div p) * p
  <2>1. last = c + (total - kept) * p + (kept - 1) * p
    OBVIOUS
  <2>2. (total - kept) * p + (kept - 1) * p = (total - 1) * p
    <3> HIDE DEF total, kept, p
    <3> QED BY <1>1, <1>2, <1>3
  <2>3. total - 1 = (t - c) \div p
    BY <1>1
  <2>4. ((t - c) \div p) * p <= t - c
    BY <1>1
  <2>5. (total - 1) * p \in Nat
    <3> HIDE DEF total, p
    <3> QED BY <1>1, <1>2
  <2>6. last = c + (total - 1) * p
    <3>1. (total - kept) * p \in Int
      <4> HIDE DEF total, kept, p
      <4> QED BY <1>1, <1>2, <1>3
    <3> HIDE DEF total, kept, p, first, last
    <3> QED BY <1>5, <2>1, <2>2, <2>5, <3>1
  <2>7. (total - 1) * p <= t - c
    BY <2>3, <2>4
  <2>8. last = c + ((t - c) \div p) * p
    BY <2>3, <2>6
  <2> HIDE DEF total, p, last
  <2> QED BY <2>5, <2>6, <2>7, <2>8
<1> HIDE DEF p, total, kept
<1>6. last \in T
  BY <1>5
<1>7. ASSUME NEW u \in T
      PROVE  u \in Nat /\ first <= u /\ u <= last
  <2>1. PICK i \in 0 .. kept - 1 : u = first + i * p
    OBVIOUS
  <2>2. i \in Nat /\ i <= kept - 1
    BY <1>5, <2>1
  <2>3. i * p \in Nat /\ i * p <= (kept - 1) * p
    BY <1>1, <1>5, <2>2, TimesGrows
  <2> HIDE DEF first
  <2> QED BY <1>4, <1>5, <2>1, <2>3
<1>8. Max(T) = last
  <2>1. last \in Nat
    BY <1>4, <1>5
  <2> HIDE DEF T, last
  <2>2. ASSUME NEW x \in T, \A y \in T : x >= y
        PROVE  x = last
    BY <1>6, <1>7, <2>1, <2>2
  <2> QED BY <1>6, <1>7, <2>2 DEF Max
<1>9. IntervalTicks(d, c, t) = T
  BY DEF IntervalTicks, p, total, kept
<1>10. last \in Nat /\ first <= last
  BY <1>4, <1>5
<1> HIDE DEF T, first, last
<1>11. last + p > last /\ p = d.period
  BY <1>1, <1>10 DEF p
<1> QED BY <1>1, <1>4, <1>7, <1>8, <1>9, <1>10, <1>11, <1>e

(* The schedules table's rows.                                             *)
Rows == [next : Nat, version : Nat, def : Definitions \cup {NoDef}]

(* A due row fires no tick before its watermark, and its next watermark    *)
(* lies after the ticks and not before the watermark.                      *)
LEMMA TicksBetweenWatermarks ==
  ASSUME NEW row \in Rows, row.def \in Definitions,
         NEW t \in Nat, row.next <= t
  PROVE  /\ BoundedDueTicks(row, t) \subseteq Nat
         /\ \A u \in BoundedDueTicks(row, t) :
              row.next <= u /\ u <= t /\ u < NextRun(row, t)
         /\ NextRun(row, t) \in Nat /\ row.next <= NextRun(row, t)
<1> DEFINE T == BoundedDueTicks(row, t)
<1>1. row.next \in Nat /\ row.def.cron \in BOOLEAN /\ row.def.period \in Nat \ {0}
  BY ConstantsAssumption DEF Rows
<1>2. CASE ~row.def.cron
  <2>1. T = IntervalTicks(row.def, row.next, t)
    BY <1>2 DEF BoundedDueTicks
  <2>2. NextRun(row, t) = Max(T) + row.def.period
    BY <1>2 DEF NextRun
  <2>3. /\ T \subseteq Nat
        /\ \A u \in T : row.next <= u /\ u <= t /\ u < Max(T) + row.def.period
        /\ Max(T) \in Nat /\ row.next <= Max(T)
    <3>1. row.next \in Nat
      BY <1>1
    <3> QED BY <2>1, <3>1, IntervalTicksBounds, Zenon
  <2> QED BY <1>1, <2>2, <2>3
<1>3. CASE row.def.cron
  <2>1. T \subseteq {u \in row.next .. t : Matches(row.def, u)}
    BY <1>3 DEF BoundedDueTicks, Newest
  <2>2. \A u \in T : u \in Nat /\ row.next <= u /\ u <= t
    BY <1>1, <2>1
  <2>3. CASE T # {}
    <3>1. NextRun(row, t) = NextFire(row.def, t)
      BY <1>3, <2>3 DEF NextRun
    <3> QED BY <1>1, <2>2, <3>1, NextFireLater
  <2>4. CASE T = {}
    <3>1. NextRun(row, t) = NextFire(row.def, row.next)
      BY <1>3, <2>4 DEF NextRun
    <3> QED BY <1>1, <2>4, <3>1, NextFireLater
  <2> QED BY <2>3, <2>4
<1> QED BY <1>1, <1>2, <1>3

(* An instant that some replica's clock may show is in the model's range.  *)
LEMMA ClocksReach ==
  /\ Clocks \subseteq Nat
  /\ \A r \in Replicas, t \in Nat : t <= MaxTime + Skew[r] => t \in Clocks
<1> DEFINE S == {Skew[r] : r \in Replicas}
<1>1. PICK r \in Replicas : \A q \in Replicas : Skew[q] <= Skew[r]
  BY ConstantsAssumption
<1>2. \A q \in Replicas : Skew[q] \in Nat
  BY ConstantsAssumption
<1>3. Max(S) = Skew[r]
  <2>1. Skew[r] \in S /\ \A y \in S : Skew[r] >= y
    BY <1>1, <1>2
  <2>2. ASSUME NEW x \in S, \A y \in S : x >= y PROVE x = Skew[r]
    BY <1>1, <1>2, <2>2
  <2> QED BY <2>1, <2>2 DEF Max
<1>4. Clocks = 0 .. MaxTime + Skew[r]
  BY <1>3 DEF Clocks
<1> QED BY <1>1, <1>2, <1>4, ConstantsAssumption

-----------------------------------------------------------------------------
(* The inductive invariant.                                                *)

(* Types of every variable that a step reads.                              *)
Basics ==
  /\ now \in Nat /\ now <= MaxTime
  /\ lease \in [owner : {"none"} \cup {OwnerOf[r] : r \in Replicas},
                fence : Nat, expires : Nat]
  /\ lease.fence > 0 => \E r \in Replicas : lease.owner = OwnerOf[r]
  /\ sched \in [Schedules -> Rows]
  /\ pc \in [Replicas -> {"idle", "lease", "heartbeat", "confirm", "load",
                          "commit", "ended", "down"}]
  /\ at \in [Replicas -> Nat]
  /\ fence \in [Replicas -> Nat]
  /\ \A r \in Replicas : fence[r] <= lease.fence
  /\ plan \in [Replicas -> [Schedules -> Rows]]
  /\ todo \in [Replicas -> SUBSET Schedules]
  /\ erasing \in Users \cup {NoUser}

(* A pass keeps an instant that its replica's clock showed.                *)
PassClock == \A r \in Replicas : at[r] <= MaxTime + Skew[r]

(* Types of the occurrences and of the jobs they fired; a job that exists  *)
(* was fired and has the definition it was made from.                      *)
JobBasics ==
  /\ occ \in [Occurrences ->
                [status : {"none", "enqueued", "missed", "overlap"},
                 fence : Nat, created : Nat]]
  /\ \A o \in Occurrences : occ[o].fence <= lease.fence
  /\ phase \in [Occurrences -> Queue!Phases]
  /\ jobDef \in [Occurrences -> Definitions \cup {NoDef}]
  /\ \A o \in Occurrences :
       phase[o] # "absent" => o \in fired /\ jobDef[o] \in Definitions
  /\ doomed \subseteq fired

(* What a pass still has to commit was due, and registered, when read.     *)
PlanWasDue ==
  \A r \in Replicas : pc[r] = "commit" =>
    \A s \in todo[r] :
      plan[r][s].def \in Definitions /\ plan[r][s].next <= at[r]

(* A plan that carries the version of a row never erased is that row.      *)
PlanVersioned ==
  \A r \in Replicas : pc[r] = "commit" =>
    \A s \in todo[r] \ wiped :
      /\ Registered(s)
      /\ plan[r][s].version <= sched[s].version
      /\ plan[r][s].version = sched[s].version => plan[r][s] = sched[s]

(* A schedule never erased has fired only before its watermark.            *)
FiredBehind ==
  /\ fired \subseteq Occurrences
  /\ \A o \in fired : o[1] \notin wiped =>
       Registered(o[1]) /\ o[2] < sched[o[1]].next

(* A job that runs, or may run again, keeps its occurrence.                *)
ActiveOnRecord ==
  \A o \in Occurrences :
    phase[o] \in {"pending", "claimed", "failed"} => occ[o].status = "enqueued"

IInv ==
  /\ Basics /\ JobBasics /\ PassClock
  /\ PlanWasDue /\ PlanVersioned /\ FiredBehind /\ ActiveOnRecord

-----------------------------------------------------------------------------
(* Every step preserves the invariant.                                     *)

(* The actions that leave the schedules, the occurrences and the jobs      *)
(* alone and load no plan.                                                 *)
Quiet(r) ==
  \/ RunOnce(r) \/ TakeLease(r) \/ Heartbeat(r) \/ Confirm(r) \/ Skip(r)
  \/ Return(r) \/ PassFails(r) \/ Crash(r) \/ Restart(r)

(* Fences only grow and memory keeps its types, whatever a replica does    *)
(* outside a commit.                                                       *)
LEMMA QuietTypes ==
  ASSUME IInv, NEW r \in Replicas, Quiet(r)
  PROVE  Basics' /\ lease'.fence >= lease.fence
<1> USE DEF IInv
<1> DEFINE L == [owner : {"none"} \cup {OwnerOf[q] : q \in Replicas},
                 fence : Nat, expires : Nat]
<1>1. /\ at[r] \in Nat /\ fence[r] \in Nat /\ lease \in L
      /\ lease.fence \in Nat /\ lease.expires \in Nat
      /\ LeaseDuration \in Nat /\ Skew[r] \in Nat
  BY ConstantsAssumption DEF Basics
<1>2. Expires(r) \in Nat /\ Clock(r) \in Nat
  BY <1>1 DEF Expires, Clock, Basics
<1>n. [s \in Schedules |-> NoSchedule] \in [Schedules -> Rows]
  BY DEF NoSchedule, Rows
<1>f. \A q \in Replicas : fence[q] \in Nat /\ fence[q] <= lease.fence
  BY DEF Basics
<1>3. CASE RunOnce(r)
  BY <1>2, <1>3 DEF RunOnce, Basics, tables, jobs, erasure
<1>4. CASE TakeLease(r)
  <2> USE <1>4 DEF TakeLease
  <2>1. UNCHANGED <<now, sched, at, plan, todo, erasing>>
    BY DEF erasure
  <2>2. pc' \in [Replicas -> {"idle", "lease", "heartbeat", "confirm", "load",
                              "commit", "ended", "down"}]
    BY DEF Basics
  <2>3. /\ lease' \in L
        /\ lease'.fence \in Nat /\ lease'.fence >= lease.fence
        /\ lease'.fence > 0 => \E q \in Replicas : lease'.owner = OwnerOf[q]
    <3>1. CASE lease' = lease
      BY <1>1, <3>1 DEF Basics
    <3>2. ASSUME NEW f \in Nat, f >= lease.fence,
                 lease' = [owner |-> OwnerOf[r], fence |-> f, expires |-> Expires(r)]
          PROVE  <2>3!:
      BY <1>1, <1>2, <3>2
    <3> QED BY <1>1, <3>1, <3>2
  <2>4. /\ fence' \in [Replicas -> Nat]
        /\ \A q \in Replicas : fence'[q] <= lease'.fence
    <3>1. \A q \in Replicas : fence[q] <= lease'.fence
      BY <1>1, <1>f, <2>3
    <3>2. CASE fence' = fence
      BY <1>f, <3>1, <3>2 DEF Basics
    <3>3. CASE fence' = [fence EXCEPT ![r] = 1] /\ lease'.fence = 1
      BY <3>1, <3>3 DEF Basics
    <3> QED BY <3>2, <3>3
  <2> QED BY <2>1, <2>2, <2>3, <2>4 DEF Basics
<1>5. CASE Heartbeat(r)
  <2> USE <1>5 DEF Heartbeat
  <2>1. UNCHANGED <<now, sched, at, plan, todo, erasing>>
    BY DEF erasure
  <2>2. pc' \in [Replicas -> {"idle", "lease", "heartbeat", "confirm", "load",
                              "commit", "ended", "down"}]
    BY DEF Basics
  <2>3. lease' \in L /\ lease'.fence = lease.fence /\ lease'.owner = lease.owner
    BY <1>1, <1>2
  <2>4. /\ fence' \in [Replicas -> Nat]
        /\ \A q \in Replicas : fence'[q] <= lease.fence
    <3>1. fence' = fence \/ fence' = [fence EXCEPT ![r] = 0]
      OBVIOUS
    <3>2. fence \in [Replicas -> Nat] /\ lease.fence \in Nat
      BY <1>1 DEF Basics
    <3>3. CASE fence' = fence
      BY <1>f, <3>2, <3>3
    <3>4. CASE fence' = [fence EXCEPT ![r] = 0]
      BY <1>f, <3>2, <3>4
    <3> QED BY <3>1, <3>3, <3>4
  <2> QED BY <1>1, <2>1, <2>2, <2>3, <2>4 DEF Basics
<1>6. CASE Confirm(r)
  <2> USE <1>6 DEF Confirm
  <2>1. UNCHANGED <<now, lease, sched, at, plan, todo, erasing>>
    BY DEF erasure, tables
  <2>2. pc' \in [Replicas -> {"idle", "lease", "heartbeat", "confirm", "load",
                              "commit", "ended", "down"}]
    BY DEF Basics
  <2>3. /\ fence' \in [Replicas -> Nat]
        /\ \A q \in Replicas : fence'[q] <= lease.fence
    BY <1>1 DEF Basics
  <2> QED BY <1>1, <2>1, <2>2, <2>3 DEF Basics
<1>7. CASE Skip(r)
  BY <1>1, <1>7 DEF Skip, Basics, tables, erasure
<1>8. CASE Return(r)
  BY <1>1, <1>8 DEF Return, Basics, tables, erasure
<1>9. CASE PassFails(r)
  <2> USE <1>9 DEF PassFails, Aborted
  <2>1. UNCHANGED <<now, lease, sched, erasing>>
    BY DEF tables, erasure
  <2>2. /\ pc' \in [Replicas -> {"idle", "lease", "heartbeat", "confirm", "load",
                                 "commit", "ended", "down"}]
        /\ at' \in [Replicas -> Nat]
        /\ todo' \in [Replicas -> SUBSET Schedules]
    BY DEF Basics
  <2>3. plan' \in [Replicas -> [Schedules -> Rows]]
    BY <1>n DEF Basics
  <2>4. /\ fence' \in [Replicas -> Nat]
        /\ \A q \in Replicas : fence'[q] <= lease.fence
    BY <1>1, <1>f DEF Basics
  <2> QED BY <1>1, <2>1, <2>2, <2>3, <2>4 DEF Basics
<1>10. CASE Crash(r)
  <2> USE <1>10 DEF Crash, Aborted
  <2>1. UNCHANGED <<now, lease, sched, erasing>>
    BY DEF tables, erasure
  <2>2. /\ pc' \in [Replicas -> {"idle", "lease", "heartbeat", "confirm", "load",
                                 "commit", "ended", "down"}]
        /\ at' \in [Replicas -> Nat]
        /\ todo' \in [Replicas -> SUBSET Schedules]
    BY DEF Basics
  <2>3. plan' \in [Replicas -> [Schedules -> Rows]]
    BY <1>n DEF Basics
  <2>4. /\ fence' \in [Replicas -> Nat]
        /\ \A q \in Replicas : fence'[q] <= lease.fence
    BY <1>1, <1>f DEF Basics
  <2> QED BY <1>1, <2>1, <2>2, <2>3, <2>4 DEF Basics
<1>11. CASE Restart(r)
  BY <1>1, <1>11 DEF Restart, Basics, tables, erasure
<1> QED BY <1>3, <1>4, <1>5, <1>6, <1>7, <1>8, <1>9, <1>10, <1>11 DEF Quiet

(* A replica that is not loading keeps at most the plan it had.            *)
LEMMA QuietPlans ==
  ASSUME IInv, NEW r \in Replicas, Quiet(r)
  PROVE  /\ UNCHANGED <<sched, occ, jobs, erasing, doomed, erased, wiped>>
         /\ \A q \in Replicas : pc'[q] = "commit" =>
              /\ pc[q] = "commit" /\ todo'[q] \subseteq todo[q]
              /\ plan'[q] = plan[q] /\ at'[q] = at[q]
<1> USE DEF IInv, tables, erasure
<1>1. CASE RunOnce(r)
  BY <1>1 DEF RunOnce, Basics
<1>2. CASE TakeLease(r)
  BY <1>2 DEF TakeLease, Basics
<1>3. CASE Heartbeat(r)
  BY <1>3 DEF Heartbeat, Basics
<1>4. CASE Confirm(r)
  BY <1>4 DEF Confirm, Basics
<1>5. CASE Skip(r)
  BY <1>5 DEF Skip, Basics
<1>6. CASE Return(r)
  BY <1>6 DEF Return, Basics
<1>7. CASE PassFails(r)
  BY <1>7 DEF PassFails, Aborted, Basics
<1>8. CASE Crash(r)
  BY <1>8 DEF Crash, Aborted, Basics
<1>9. CASE Restart(r)
  BY <1>9 DEF Restart, Basics
<1> QED BY <1>1, <1>2, <1>3, <1>4, <1>5, <1>6, <1>7, <1>8, <1>9 DEF Quiet

(* They preserve the invariant.                                            *)
LEMMA QuietKeeps ==
  ASSUME IInv, NEW r \in Replicas, Quiet(r)
  PROVE  IInv'
<1> USE DEF IInv
<1>c. PassClock'
  <2>1. /\ \A q \in Replicas : Skew[q] \in Nat /\ MaxTime \in Nat
        /\ now \in Nat /\ now <= MaxTime /\ at \in [Replicas -> Nat]
    BY ConstantsAssumption DEF Basics
  <2>2. at' = at \/ \E x \in {0, now + Skew[r]} : at' = [at EXCEPT ![r] = x]
    BY DEF Quiet, RunOnce, TakeLease, Heartbeat, Confirm, Skip, Return,
           PassFails, Crash, Restart, Clock
  <2> QED BY <2>1, <2>2 DEF PassClock
<1>1. Basics' /\ lease'.fence >= lease.fence /\ lease'.fence \in Nat
  BY QuietTypes DEF Basics
<1>2. /\ UNCHANGED <<sched, occ, phase, jobDef, fired, erasing, doomed, erased, wiped>>
      /\ \A q \in Replicas : pc'[q] = "commit" =>
           /\ pc[q] = "commit" /\ todo'[q] \subseteq todo[q]
           /\ plan'[q] = plan[q] /\ at'[q] = at[q]
  BY QuietPlans DEF jobs
<1>3. JobBasics'
  <2>1. \A o \in Occurrences : occ[o].fence \in Nat /\ lease.fence \in Nat
    BY DEF JobBasics, Basics
  <2>2. \A o \in Occurrences : occ'[o].fence <= lease'.fence
    BY <1>1, <1>2, <2>1 DEF JobBasics
  <2> QED BY <1>2, <2>2 DEF JobBasics
<1>4. PlanWasDue'
  BY <1>2 DEF PlanWasDue
<1>5. PlanVersioned'
  BY <1>2 DEF PlanVersioned, Registered
<1>6. FiredBehind' /\ ActiveOnRecord'
  BY <1>2 DEF FiredBehind, ActiveOnRecord, Registered
<1> QED BY <1>1, <1>3, <1>4, <1>5, <1>6, <1>c

(* Loading takes the rows as they are.                                     *)
LEMMA LoadKeeps ==
  ASSUME IInv, NEW r \in Replicas, Load(r)
  PROVE  IInv'
<1> USE DEF IInv
<1> DEFINE due == {s \in Schedules : Registered(s) /\ sched[s].next <= at[r]}
           P == [s \in Schedules |-> IF s \in due THEN sched[s] ELSE NoSchedule]
<1>1. /\ pc' = [pc EXCEPT ![r] = "commit"]
      /\ todo' = [todo EXCEPT ![r] = due] /\ plan' = [plan EXCEPT ![r] = P]
      /\ UNCHANGED <<now, lease, sched, occ, phase, jobDef, fired, at, fence,
                     erasing, doomed, erased, wiped>>
  BY DEF Load, tables, jobs, erasure
<1>2. P \in [Schedules -> Rows]
  BY DEF NoSchedule, Rows, Basics
<1>3. \A s \in due : /\ P[s] = sched[s] /\ Registered(s) /\ sched[s].next <= at[r]
                     /\ sched[s].def \in Definitions /\ sched[s].version \in Nat
  BY DEF Registered, Basics, Rows
<1>4. /\ todo'[r] = due /\ plan'[r] = P /\ pc'[r] = "commit"
      /\ \A q \in Replicas \ {r} :
           todo'[q] = todo[q] /\ plan'[q] = plan[q] /\ pc'[q] = pc[q]
  BY <1>1 DEF Basics
<1>t. due \subseteq Schedules
  OBVIOUS
<1> HIDE DEF due, P
<1>5. Basics'
  BY <1>1, <1>2, <1>t DEF Basics
<1>6. JobBasics' /\ PassClock' /\ FiredBehind' /\ ActiveOnRecord'
  BY <1>1 DEF JobBasics, PassClock, FiredBehind, ActiveOnRecord, Registered
<1>7. PlanWasDue'
  BY <1>1, <1>3, <1>4 DEF PlanWasDue
<1>8. PlanVersioned'
  BY <1>1, <1>3, <1>4 DEF PlanVersioned, Registered
<1> QED BY <1>5, <1>6, <1>7, <1>8

(* A registration keeps the watermark of a row and raises its version.     *)
LEMMA UpsertRow ==
  ASSUME IInv, NEW s \in Schedules, NEW d \in Definitions, NEW base \in Nat
  PROVE  /\ Upsert(s, d, base) \in Rows
         /\ Upsert(s, d, base).def = d /\ d # NoDef
         /\ Registered(s) => /\ Upsert(s, d, base).next = sched[s].next
                             /\ Upsert(s, d, base).version = sched[s].version + 1
<1>1. sched[s] \in Rows /\ d # NoDef /\ FirstRun(d, base) \in Nat
  BY FirstRunType, ConstantsAssumption DEF IInv, Basics
<1>2. CASE Registered(s)
  <2>1. Upsert(s, d, base) =
          [next |-> sched[s].next, version |-> sched[s].version + 1, def |-> d]
    BY <1>1, <1>2 DEF Upsert, Rows
  <2> QED BY <1>1, <1>2, <2>1 DEF Rows
<1>3. CASE ~Registered(s)
  BY <1>1, <1>3 DEF Upsert, Rows
<1> QED BY <1>2, <1>3

(* A plan of the row registered over no longer has its version.            *)
LEMMA RegisterKeeps ==
  ASSUME IInv, NEW r \in Replicas, NEW s \in Schedules, NEW d \in Definitions,
         Register(r, s, d)
  PROVE  IInv'
<1> USE DEF IInv
<1> DEFINE row == Upsert(s, d, Clock(r))
<1>1. /\ sched' = [sched EXCEPT ![s] = row]
      /\ UNCHANGED <<now, lease, occ, phase, jobDef, fired, pc, at, fence,
                     plan, todo, erasing, doomed, wiped>>
  BY DEF Register, jobs, pass
<1>2. Clock(r) \in Nat
  BY ConstantsAssumption DEF Clock, Basics
<1>3. /\ row \in Rows /\ row.def # NoDef
      /\ Registered(s) => row.next = sched[s].next
      /\ Registered(s) => row.version = sched[s].version + 1
  BY <1>2, UpsertRow
<1> HIDE DEF row
<1>4. /\ sched'[s] = row /\ \A u \in Schedules \ {s} : sched'[u] = sched[u]
      /\ sched' \in [Schedules -> Rows]
  BY <1>1, <1>3 DEF Basics
<1>5. Basics'
  BY <1>1, <1>4 DEF Basics
<1>6. JobBasics' /\ PassClock' /\ ActiveOnRecord' /\ PlanWasDue'
  BY <1>1 DEF JobBasics, PassClock, ActiveOnRecord, PlanWasDue
<1>7. PlanVersioned'
  <2> SUFFICES ASSUME NEW q \in Replicas, pc[q] = "commit",
                      NEW u \in todo[q] \ wiped
               PROVE  /\ sched'[u].def # NoDef
                      /\ plan[q][u].version <= sched'[u].version
                      /\ plan[q][u].version = sched'[u].version
                           => plan[q][u] = sched'[u]
    BY <1>1 DEF PlanVersioned, Registered
  <2>1. /\ u \in Schedules /\ Registered(u)
        /\ plan[q][u].version <= sched[u].version
        /\ plan[q][u].version = sched[u].version => plan[q][u] = sched[u]
        /\ plan[q][u].version \in Nat /\ sched[u].version \in Nat
    BY DEF PlanVersioned, Basics, Rows
  <2> QED BY <1>3, <1>4, <2>1 DEF Registered
<1>8. FiredBehind'
  <2>1. \A o \in fired : o[1] \in Schedules
    BY DEF FiredBehind, Occurrences
  <2> QED BY <1>1, <1>3, <1>4, <2>1 DEF FiredBehind, Registered
<1> QED BY <1>5, <1>6, <1>7, <1>8

(* A sweep removes no occurrence whose job runs or may run again.          *)
LEMMA SweepKeeps ==
  ASSUME IInv, NEW r \in Replicas, SweepOccurrences(r)
  PROVE  IInv'
<1> USE DEF IInv
<1>1. /\ pc' = [pc EXCEPT ![r] = "ended"]
      /\ plan' = [plan EXCEPT ![r] = [s \in Schedules |-> NoSchedule]]
      /\ UNCHANGED <<now, lease, sched, phase, jobDef, fired, at, fence, todo,
                     erasing, doomed, erased, wiped>>
  BY DEF SweepOccurrences, jobs, erasure
<1>2. [s \in Schedules |-> NoSchedule] \in [Schedules -> Rows]
  BY DEF NoSchedule, Rows
<1>3. Basics'
  BY <1>1, <1>2 DEF Basics
<1>4. /\ occ' \in [Occurrences ->
                    [status : {"none", "enqueued", "missed", "overlap"},
                     fence : Nat, created : Nat]]
      /\ \A o \in Occurrences :
           \/ occ'[o] = occ[o]
           \/ occ'[o] = NoOccurrence /\ Prunable(o)
  BY DEF SweepOccurrences, NoOccurrence, JobBasics
<1>5. JobBasics'
  <2>1. lease.fence \in Nat /\ NoOccurrence.fence = 0
    BY DEF Basics, NoOccurrence
  <2>2. \A o \in Occurrences : occ'[o].fence <= lease.fence
    BY <1>4, <2>1 DEF JobBasics
  <2> QED BY <1>1, <1>4, <2>2 DEF JobBasics
<1>6. ActiveOnRecord'
  <2> SUFFICES ASSUME NEW o \in Occurrences,
                      phase[o] \in {"pending", "claimed", "failed"}
               PROVE  occ'[o].status = "enqueued"
    BY <1>1 DEF ActiveOnRecord
  <2>1. occ[o].status = "enqueued"
    BY DEF ActiveOnRecord
  <2> QED BY <1>4, <2>1 DEF Prunable
<1>7. \A q \in Replicas : pc'[q] = "commit" =>
        pc[q] = "commit" /\ plan'[q] = plan[q]
  BY <1>1 DEF Basics
<1>8. PassClock' /\ PlanWasDue' /\ PlanVersioned' /\ FiredBehind'
  BY <1>1, <1>7 DEF PassClock, PlanWasDue, PlanVersioned, FiredBehind, Registered
<1> QED BY <1>3, <1>5, <1>6, <1>8

(* The jobs a commit of schedule s enqueues.                               *)
Enqueued(r, s) ==
  {o \in {s} \X Inserted(s, BoundedDueTicks(plan[r][s], at[r])) :
     Outcome(s, o[2], BoundedDueTicks(plan[r][s], at[r])) = "enqueued"}

(* The occurrences it records.                                             *)
Recorded(r, s) == {s} \X Inserted(s, BoundedDueTicks(plan[r][s], at[r]))

(* What a commit writes, in one place: the plan was of a due row, the new  *)
(* watermark lies behind the ticks, only the newest tick is enqueued, and  *)
(* only when no job of the schedule is active.                             *)
LEMMA CommitWrites ==
  ASSUME IInv, NEW r \in Replicas, pc[r] = "commit", NEW s \in todo[r],
         NEW after, CommitTo(r, s, after)
  PROVE  /\ s \in Schedules
         /\ plan[r][s] \in Rows /\ plan[r][s].def \in Definitions
         /\ plan[r][s].version = sched[s].version /\ Registered(s)
         /\ NextRun(plan[r][s], at[r]) \in Nat
         /\ plan[r][s].next <= NextRun(plan[r][s], at[r])
         /\ sched' = [sched EXCEPT ![s] =
              [next |-> NextRun(plan[r][s], at[r]),
               version |-> sched[s].version + 1, def |-> sched[s].def]]
         /\ \A o \in Recorded(r, s) :
              /\ o[1] = s /\ o[2] \in Nat /\ o = <<o[1], o[2]>>
              /\ plan[r][s].next <= o[2] /\ o[2] < NextRun(plan[r][s], at[r])
         /\ Enqueued(r, s) \subseteq Recorded(r, s)
         /\ Recorded(r, s) \subseteq Occurrences
         /\ \A o \in Enqueued(r, s) :
              /\ phase[o] = "absent" /\ ~ActivePrior(s)
              /\ \A x \in Enqueued(r, s) : x = o
<1> USE DEF IInv
<1> DEFINE row == plan[r][s]
           ticks == BoundedDueTicks(row, at[r])
<1>1. /\ s \in Schedules /\ row \in Rows /\ at[r] \in Nat
      /\ row.def \in Definitions /\ row.next <= at[r] /\ sched[s] \in Rows
  BY DEF Basics, PlanWasDue
<1>2. row.version = sched[s].version /\ Registered(s)
  BY DEF CommitTo, PlanCurrent
<1>3. /\ ticks \subseteq Nat
      /\ \A u \in ticks : row.next <= u /\ u <= at[r] /\ u < NextRun(row, at[r])
      /\ NextRun(row, at[r]) \in Nat /\ row.next <= NextRun(row, at[r])
  BY <1>1, TicksBetweenWatermarks
<1>4. sched' = [sched EXCEPT ![s] =
              [next |-> NextRun(row, at[r]),
               version |-> sched[s].version + 1, def |-> sched[s].def]]
  <2>1. sched' = [sched EXCEPT ![s].next = NextRun(row, at[r]),
                               ![s].version = @ + 1]
    BY DEF CommitTo
  <2> DEFINE W == NextRun(row, at[r])
  <2> HIDE DEF W
  <2>2. sched' = [sched EXCEPT ![s] =
                    [[sched[s] EXCEPT !.next = W] EXCEPT !.version = sched[s].version + 1]]
    BY <1>1, <2>1 DEF Basics, Rows, W
  <2>3. [[sched[s] EXCEPT !.next = W] EXCEPT !.version = sched[s].version + 1] =
          [next |-> W, version |-> sched[s].version + 1, def |-> sched[s].def]
    <3> DEFINE one == [sched[s] EXCEPT !.next = W]
    <3>1. one = [next |-> W, version |-> sched[s].version, def |-> sched[s].def]
      BY <1>1 DEF Rows
    <3> HIDE DEF one
    <3>2. [one EXCEPT !.version = sched[s].version + 1] =
            [next |-> W, version |-> sched[s].version + 1, def |-> sched[s].def]
      BY <3>1
    <3> QED BY <3>2 DEF one
  <2> QED BY <2>2, <2>3 DEF W
<1>5. Inserted(s, ticks) \subseteq ticks
  BY DEF Inserted
<1>6. \A o \in Enqueued(r, s) : phase[o] = "absent"
  BY DEF CommitTo, Enqueued
<1>7. ASSUME NEW o \in Enqueued(r, s)
      PROVE  o[2] = Max(ticks) /\ ~ActivePrior(s) /\ o = <<s, o[2]>>
  BY <1>7 DEF Enqueued, Outcome
<1> HIDE DEF ticks, row
<1>8. Enqueued(r, s) \subseteq Recorded(r, s)
  BY DEF Enqueued, Recorded
<1>9. \A o \in Recorded(r, s) : o[1] = s /\ o[2] \in ticks /\ o = <<o[1], o[2]>>
  BY <1>5 DEF Recorded, ticks, row
<1>10. \A o \in Recorded(r, s) :
              /\ o[1] = s /\ o[2] \in Nat /\ o = <<o[1], o[2]>>
              /\ row.next <= o[2] /\ o[2] < NextRun(row, at[r])
  BY <1>3, <1>9
<1>11. \A o \in Enqueued(r, s) :
              /\ phase[o] = "absent" /\ ~ActivePrior(s)
              /\ \A x \in Enqueued(r, s) : x = o
  BY <1>6, <1>7
<1>12. \A u \in ticks : u \in Clocks
  <2>1. at[r] <= MaxTime + Skew[r] /\ Skew[r] \in Nat /\ MaxTime \in Nat
    BY ConstantsAssumption DEF PassClock
  <2>2. ASSUME NEW u \in ticks
        PROVE  u \in Nat /\ u <= MaxTime + Skew[r]
    <3>1. u \in Nat /\ u <= at[r] /\ at[r] \in Nat
      BY <1>1, <1>3
    <3> QED BY <2>1, <3>1
  <2> QED BY <2>2, ClocksReach
<1>13. Recorded(r, s) \subseteq Occurrences
  BY <1>1, <1>5, <1>12 DEF Recorded, Occurrences, ticks, row
<1> QED BY <1>1, <1>2, <1>3, <1>4, <1>8, <1>10, <1>11, <1>13 DEF row

(* A commit adds exactly those rows.                                       *)
LEMMA CommitTables ==
  ASSUME IInv, NEW r \in Replicas, pc[r] = "commit", NEW s \in todo[r],
         NEW after, CommitTo(r, s, after)
  PROVE  /\ occ' \in [Occurrences ->
                [status : {"none", "enqueued", "missed", "overlap"},
                 fence : Nat, created : Nat]]
         /\ \A o \in Occurrences :
              IF o \in Recorded(r, s)
              THEN /\ occ[o].status = "none" /\ occ'[o].status # "none"
                   /\ occ'[o].fence = lease.fence /\ occ'[o].created = at[r]
              ELSE occ'[o] = occ[o]
         /\ \A o \in Enqueued(r, s) \cap Occurrences : occ'[o].status = "enqueued"
         /\ phase' \in [Occurrences -> Queue!Phases]
         /\ jobDef' \in [Occurrences -> Definitions \cup {NoDef}]
         /\ \A o \in Occurrences :
              IF o \in Enqueued(r, s)
              THEN phase'[o] = "pending" /\ jobDef'[o] = plan[r][s].def
              ELSE phase'[o] = phase[o] /\ jobDef'[o] = jobDef[o]
         /\ fired' = fired \cup Enqueued(r, s)
<1> USE DEF IInv
<1> DEFINE ticks == BoundedDueTicks(plan[r][s], at[r])
<1>1. /\ fence[r] \in Nat /\ at[r] \in Nat /\ fence[r] = lease.fence
      /\ plan[r][s].def \in Definitions
  BY CommitWrites DEF CommitTo, StillLeader, Basics
<1>2. \A t : Outcome(s, t, ticks) \in {"enqueued", "missed", "overlap"}
  BY DEF Outcome
<1>3. occ' = [o \in Occurrences |->
           IF o \in Recorded(r, s)
           THEN [status |-> Outcome(s, o[2], ticks), fence |-> fence[r],
                 created |-> at[r]]
           ELSE occ[o]]
  BY DEF CommitTo, Recorded
<1>4. phase' = [o \in Occurrences |->
                  IF o \in Enqueued(r, s) THEN "pending" ELSE phase[o]]
  BY DEF CommitTo, Enqueued
<1>5. jobDef' = [o \in Occurrences |->
                   IF o \in Enqueued(r, s) THEN plan[r][s].def ELSE jobDef[o]]
  BY DEF CommitTo, Enqueued
<1>6. fired' = fired \cup Enqueued(r, s)
  BY DEF CommitTo, Enqueued
<1>7. \A o \in Enqueued(r, s) :
        o \in Recorded(r, s) /\ Outcome(s, o[2], ticks) = "enqueued"
  BY DEF Enqueued, Recorded
<1>8. \A o \in Recorded(r, s) : occ[o].status = "none"
  BY DEF Recorded, Inserted
<1> HIDE DEF ticks
<1>9. /\ occ' \in [Occurrences ->
                [status : {"none", "enqueued", "missed", "overlap"},
                 fence : Nat, created : Nat]]
      /\ \A o \in Occurrences :
           IF o \in Recorded(r, s)
           THEN /\ occ[o].status = "none" /\ occ'[o].status # "none"
                /\ occ'[o].fence = lease.fence /\ occ'[o].created = at[r]
           ELSE occ'[o] = occ[o]
      /\ \A o \in Enqueued(r, s) \cap Occurrences : occ'[o].status = "enqueued"
  BY <1>1, <1>2, <1>3, <1>7, <1>8 DEF JobBasics
<1>10. phase' \in [Occurrences -> Queue!Phases]
  BY <1>4 DEF JobBasics, Queue!Phases
<1>11. jobDef' \in [Occurrences -> Definitions \cup {NoDef}]
  BY <1>1, <1>5 DEF JobBasics
<1>12. \A o \in Occurrences :
              IF o \in Enqueued(r, s)
              THEN phase'[o] = "pending" /\ jobDef'[o] = plan[r][s].def
              ELSE phase'[o] = phase[o] /\ jobDef'[o] = jobDef[o]
  BY <1>4, <1>5
<1> QED BY <1>6, <1>9, <1>10, <1>11, <1>12

(* A commit preserves the invariant: other plans of the row fall behind    *)
(* its version, and the watermark passes what was fired.                   *)
LEMMA CommitKeeps ==
  ASSUME IInv, NEW r \in Replicas, pc[r] = "commit", NEW s \in todo[r],
         NEW after \in {"commit", "ended"}, CommitTo(r, s, after)
  PROVE  IInv'
<1> USE DEF IInv
<1> DEFINE W == NextRun(plan[r][s], at[r])
           new == [next |-> W, version |-> sched[s].version + 1,
                   def |-> sched[s].def]
<1>1. /\ s \in Schedules /\ plan[r][s] \in Rows /\ plan[r][s].def \in Definitions
      /\ plan[r][s].version = sched[s].version /\ Registered(s)
      /\ W \in Nat /\ plan[r][s].next <= W
      /\ sched' = [sched EXCEPT ![s] = new]
  BY CommitWrites
<1>2. /\ todo' = [todo EXCEPT ![r] = @ \ {s}] /\ pc' = [pc EXCEPT ![r] = after]
      /\ UNCHANGED <<now, lease, at, fence, plan, erasing, doomed, erased, wiped>>
  BY DEF CommitTo, erasure
<1>3. sched[s] \in Rows /\ sched[s].def # NoDef /\ sched[s].version \in Nat
  BY <1>1 DEF Basics, Registered, Rows
<1>4. new \in Rows
  BY <1>1, <1>3 DEF Rows
<1>5. /\ sched'[s] = new /\ \A u \in Schedules \ {s} : sched'[u] = sched[u]
      /\ sched' \in [Schedules -> Rows]
  BY <1>1, <1>4 DEF Basics
<1>6. new.next = W /\ new.version = sched[s].version + 1 /\ new.def = sched[s].def
  OBVIOUS
<1> HIDE DEF W, new
<1>7. Basics'
  BY <1>2, <1>5 DEF Basics
<1>8. \A q \in Replicas : pc'[q] = "commit" =>
        pc[q] = "commit" /\ todo'[q] \subseteq todo[q]
  BY <1>2 DEF Basics
<1>9. PassClock' /\ PlanWasDue'
  BY <1>2, <1>8 DEF PassClock, PlanWasDue
<1>10. PlanVersioned'
  <2> SUFFICES ASSUME NEW q \in Replicas, pc[q] = "commit",
                      NEW u \in todo[q] \ wiped
               PROVE  /\ sched'[u].def # NoDef
                      /\ plan[q][u].version <= sched'[u].version
                      /\ plan[q][u].version = sched'[u].version
                           => plan[q][u] = sched'[u]
    BY <1>2, <1>8 DEF PlanVersioned, Registered
  <2>1. /\ u \in Schedules /\ Registered(u)
        /\ plan[q][u].version <= sched[u].version
        /\ plan[q][u].version = sched[u].version => plan[q][u] = sched[u]
        /\ plan[q][u].version \in Nat /\ sched[u].version \in Nat
    BY DEF PlanVersioned, Basics, Rows
  <2> QED BY <1>5, <1>6, <2>1 DEF Registered
<1>11. FiredBehind'
  <2>1. fired' = fired \cup Enqueued(r, s)
    BY CommitTables
  <2>2. \A o \in Enqueued(r, s) : /\ o[1] = s /\ o[2] \in Nat /\ o = <<o[1], o[2]>>
                                  /\ o[2] < W
    BY CommitWrites DEF W
  <2>3. s \notin wiped => plan[r][s] = sched[s]
    BY <1>1 DEF PlanVersioned
  <2>4. fired' \subseteq Occurrences
    BY <2>1, CommitWrites DEF FiredBehind
  <2>o. \A o \in fired : o[1] \in Schedules /\ o[2] \in Nat
    BY ClocksReach DEF FiredBehind, Occurrences
  <2>5. ASSUME NEW o \in fired', o[1] \notin wiped
        PROVE  sched'[o[1]].def # NoDef /\ o[2] < sched'[o[1]].next
    <3>1. CASE o \in Enqueued(r, s)
      BY <1>3, <1>5, <1>6, <2>2, <3>1
    <3>2. CASE o \in fired
      <4>1. /\ o[1] \in Schedules /\ o[2] \in Nat /\ sched[o[1]].def # NoDef
            /\ o[2] < sched[o[1]].next /\ sched[o[1]].next \in Nat
        BY <2>o, <2>5, <3>2 DEF FiredBehind, Registered, Basics, Rows
      <4>2. CASE o[1] = s
        BY <1>1, <1>3, <1>5, <1>6, <2>3, <2>5, <4>1, <4>2
      <4> QED BY <1>5, <4>1, <4>2
    <3> QED BY <2>1, <3>1, <3>2
  <2> QED BY <1>2, <2>4, <2>5 DEF FiredBehind, Registered
<1>12. JobBasics'
  <2>1. \A o \in Occurrences : occ'[o].fence <= lease.fence
    BY CommitTables DEF JobBasics, Basics
  <2>2. \A o \in Occurrences :
          phase'[o] # "absent" => o \in fired' /\ jobDef'[o] \in Definitions
    BY <1>1, CommitTables DEF JobBasics
  <2>3. doomed' \subseteq fired'
    BY <1>2, CommitTables DEF JobBasics
  <2> QED BY <1>2, <2>1, <2>2, <2>3, CommitTables DEF JobBasics
<1>13. ActiveOnRecord'
  <2> SUFFICES ASSUME NEW o \in Occurrences,
                      phase'[o] \in {"pending", "claimed", "failed"}
               PROVE  occ'[o].status = "enqueued"
    BY DEF ActiveOnRecord
  <2>1. CASE o \in Enqueued(r, s)
    BY <2>1, CommitTables
  <2>2. CASE o \notin Enqueued(r, s)
    <3>1. phase'[o] = phase[o] /\ occ[o].status = "enqueued"
      BY <2>2, CommitTables DEF ActiveOnRecord
    <3> QED BY <3>1, CommitTables
  <2> QED BY <2>1, <2>2
<1> QED BY <1>7, <1>9, <1>10, <1>11, <1>12, <1>13

(* Workers, operators and expiry make no job and revive no done one.       *)
LEMMA QueueStepJobs ==
  ASSUME IInv, QueueStep
  PROVE  /\ phase' \in [Occurrences -> Queue!Phases]
         /\ \A o \in Occurrences :
              /\ phase'[o] # "absent" => phase[o] # "absent"
              /\ phase'[o] \in {"pending", "claimed", "failed"} =>
                   phase[o] \in {"pending", "claimed", "failed"}
<1>1. phase \in [Occurrences -> Queue!Phases]
  BY DEF IInv, JobBasics
<1>2. CASE \E j \in fired : \/ Queue!Dequeue(j) \/ Queue!Ack(j)
                            \/ Queue!Nack(j) \/ Queue!Replay(j)
  <2>1. PICK j \in fired : \/ Queue!Dequeue(j) \/ Queue!Ack(j)
                           \/ Queue!Nack(j) \/ Queue!Replay(j)
    BY <1>2
  <2>2. /\ phase[j] \in {"pending", "claimed", "failed"}
        /\ \E p \in Queue!Phases : phase' = [phase EXCEPT ![j] = p]
    BY <2>1 DEF Queue!Dequeue, Queue!Ack, Queue!Nack, Queue!Replay, Queue!Phases
  <2> QED BY <1>1, <2>2
<1>3. CASE Queue!Expire
  BY <1>1, <1>3 DEF Queue!Expire, Queue!Phases
<1> QED BY <1>2, <1>3 DEF QueueStep

(* The queue's own steps preserve the invariant.                           *)
LEMMA QueueStepKeeps ==
  ASSUME IInv, QueueStep
  PROVE  IInv'
<1> USE DEF IInv
<1>1. UNCHANGED <<now, lease, sched, occ, jobDef, fired, pc, at, fence, plan,
                  todo, erasing, doomed, erased, wiped>>
  BY DEF QueueStep, tables, pass, erasure
<1>2. Basics' /\ PassClock' /\ PlanWasDue' /\ PlanVersioned' /\ FiredBehind'
  BY <1>1 DEF Basics, PassClock, PlanWasDue, PlanVersioned, FiredBehind, Registered
<1>3. JobBasics' /\ ActiveOnRecord'
  BY <1>1, QueueStepJobs DEF JobBasics, ActiveOnRecord
<1> QED BY <1>2, <1>3

(* The first statement of an erasure preserves the invariant.              *)
LEMMA EraseJobsKeeps ==
  ASSUME IInv, NEW u \in Users, EraseJobs(u)
  PROVE  IInv'
<1> USE DEF IInv
<1>1. /\ erasing' = u
      /\ doomed' = {o \in Occurrences : phase[o] # "absent" /\ jobDef[o].user = u}
      /\ UNCHANGED <<now, lease, sched, occ, phase, jobDef, fired, pc, at, fence,
                     plan, todo, erased, wiped>>
  BY DEF EraseJobs, tables, jobs, pass
<1>2. Basics' /\ PassClock' /\ PlanWasDue' /\ PlanVersioned' /\ FiredBehind' /\ ActiveOnRecord'
  BY <1>1 DEF Basics, PassClock, PlanWasDue, PlanVersioned, FiredBehind, Registered,
              ActiveOnRecord
<1>3. JobBasics'
  BY <1>1 DEF JobBasics
<1> QED BY <1>2, <1>3

(* So does the second: what it deletes, it marks.                          *)
LEMMA EraseSchedulesKeeps ==
  ASSUME IInv, EraseSchedules
  PROVE  IInv'
<1> USE DEF IInv
<1> DEFINE gone == {s \in Schedules :
                      Registered(s) /\ sched[s].def.user = erasing}
<1>1. /\ sched' = [s \in Schedules |->
                     IF s \in gone THEN NoSchedule ELSE sched[s]]
      /\ phase' = [o \in Occurrences |-> IF o \in doomed THEN "absent" ELSE phase[o]]
      /\ jobDef' = [o \in Occurrences |-> IF o \in doomed THEN NoDef ELSE jobDef[o]]
      /\ wiped' = wiped \cup gone /\ erasing' = NoUser /\ doomed' = {}
      /\ UNCHANGED <<now, lease, occ, fired, pc, at, fence, plan, todo>>
  BY DEF EraseSchedules, pass
<1> HIDE DEF gone
<1>2. NoSchedule \in Rows
  BY DEF NoSchedule, Rows
<1>3. sched' \in [Schedules -> Rows]
  BY <1>1, <1>2 DEF Basics
<1>4. Basics' /\ PassClock' /\ PlanWasDue'
  BY <1>1, <1>3 DEF Basics, PassClock, PlanWasDue
<1>5. \A s \in Schedules : s \notin wiped' => s \notin wiped /\ sched'[s] = sched[s]
  BY <1>1
<1>6. PlanVersioned' /\ FiredBehind'
  <2>1. \A q \in Replicas : todo[q] \subseteq Schedules
    BY DEF Basics
  <2>2. PlanVersioned'
    BY <1>1, <1>5, <2>1 DEF PlanVersioned, Registered
  <2>3. FiredBehind'
    <3>1. \A o \in fired : o[1] \in Schedules
      BY DEF FiredBehind, Occurrences
    <3> QED BY <1>1, <1>5, <3>1 DEF FiredBehind, Registered
  <2> QED BY <2>2, <2>3
<1>7. JobBasics' /\ ActiveOnRecord'
  <2>1. phase' \in [Occurrences -> Queue!Phases]
    BY <1>1 DEF JobBasics, Queue!Phases
  <2> QED BY <1>1, <2>1 DEF JobBasics, ActiveOnRecord
<1> QED BY <1>4, <1>6, <1>7

(* The clock and a stuttering step.                                        *)
LEMMA TickKeeps ==
  ASSUME IInv, Tick \/ UNCHANGED vars
  PROVE  IInv'
<1> USE DEF IInv
<1>1. /\ now' \in Nat /\ now' <= MaxTime
      /\ UNCHANGED <<lease, sched, occ, phase, jobDef, fired, pc, at, fence, plan,
                     todo, erasing, doomed, erased, wiped>>
  BY ConstantsAssumption DEF Tick, vars, tables, jobs, pass, erasure, Basics
<1>2. Basics' /\ PassClock' /\ PlanWasDue' /\ PlanVersioned' /\ FiredBehind'
  BY <1>1 DEF Basics, PassClock, PlanWasDue, PlanVersioned, FiredBehind, Registered
<1>3. JobBasics' /\ ActiveOnRecord'
  BY <1>1 DEF JobBasics, ActiveOnRecord
<1> QED BY <1>2, <1>3

-----------------------------------------------------------------------------
(* The theorems.                                                           *)

(* The invariant holds of the empty tables.                                *)
LEMMA InitHolds == Init => IInv
<1> SUFFICES ASSUME Init PROVE IInv
  OBVIOUS
<1> USE DEF Init
<1>1. NoSchedule \in Rows
  BY DEF NoSchedule, Rows
<1>2. Basics
  BY <1>1, ConstantsAssumption DEF Basics
<1>3. JobBasics
  BY DEF JobBasics, NoOccurrence, Queue!Phases
<1>4. PassClock
  BY ConstantsAssumption DEF PassClock
<1>5. PlanWasDue /\ PlanVersioned /\ FiredBehind /\ ActiveOnRecord
  BY DEF PlanWasDue, PlanVersioned, FiredBehind, ActiveOnRecord
<1> QED BY <1>2, <1>3, <1>4, <1>5 DEF IInv

(* Each step is quiet, loads, commits, sweeps, registers, or is one of the *)
(* environment's; a commit is of a schedule the pass still has to do.      *)
LEMMA Steps ==
  ASSUME [Next]_vars
  PROVE  \/ \E r \in Replicas :
              \/ Quiet(r) \/ Load(r) \/ SweepOccurrences(r)
              \/ pc[r] = "commit" /\ \E s \in todo[r], a \in {"commit", "ended"} :
                                       CommitTo(r, s, a)
              \/ \E s \in Schedules, d \in Definitions : Register(r, s, d)
         \/ QueueStep \/ (\E u \in Users : EraseJobs(u)) \/ EraseSchedules
         \/ Tick \/ UNCHANGED vars
<1>1. ASSUME NEW r \in Replicas, Commit(r) \/ CommitLost(r)
      PROVE  pc[r] = "commit" /\ \E s \in todo[r], a \in {"commit", "ended"} :
                                   CommitTo(r, s, a)
  BY <1>1 DEF Commit, CommitLost, NextUp
<1> QED BY <1>1 DEF Next, PassStep, ReplicaFault, Environment, Quiet

(* IInv is inductive.                                                      *)
LEMMA IInvInductive == IInv /\ [Next]_vars => IInv'
BY Steps, QuietKeeps, LoadKeeps, SweepKeeps, CommitKeeps, RegisterKeeps,
   QueueStepKeeps, EraseJobsKeeps, EraseSchedulesKeeps, TickKeeps

(* IInv holds throughout.                                                  *)
LEMMA Invariance == Spec => []IInv
BY InitHolds, IInvInductive, PTL DEF Spec

(* The tables, a replica's memory and an open erasure keep their types: a  *)
(* fence in memory or in an occurrence never exceeds the lease row's, and  *)
(* every job that exists has a definition and was fired by a tick.         *)
THEOREM SchedulerTypes == Spec => []SchedulerTypeOK
<1>1. IInv => SchedulerTypeOK
  <2> SUFFICES ASSUME IInv PROVE SchedulerTypeOK
    OBVIOUS
  <2> USE DEF IInv
  <2>1. /\ now \in 0 .. MaxTime
        /\ lease.fence \in Nat /\ lease.expires \in Nat
        /\ lease.fence > 0 => \E r \in Replicas : lease.owner = OwnerOf[r]
        /\ erasing \in Users \cup {NoUser}
    BY ConstantsAssumption DEF Basics
  <2>2. \A s \in Schedules :
          /\ sched[s].def \in Definitions \cup {NoDef}
          /\ sched[s].next \in Nat /\ sched[s].version \in Nat
    BY DEF Basics, Rows
  <2>3. \A o \in Occurrences :
          /\ occ[o].status \in {"none", "enqueued", "missed", "overlap"}
          /\ occ[o].fence \in 0 .. lease.fence
          /\ phase[o] \in Queue!Phases
          /\ phase[o] # "absent" => jobDef[o] \in Definitions
    BY <2>1 DEF JobBasics
  <2>4. \A r \in Replicas :
          fence[r] \in 0 .. lease.fence /\ todo[r] \subseteq Schedules
    BY <2>1 DEF Basics
  <2>5. /\ pc \in [Replicas -> {"idle", "lease", "heartbeat", "confirm", "load",
                                "commit", "ended", "down"}]
        /\ doomed \subseteq fired
    BY DEF Basics, JobBasics
  <2> QED BY <2>1, <2>2, <2>3, <2>4, <2>5 DEF SchedulerTypeOK
<1> QED BY <1>1, Invariance, PTL

(* Only a commit records an occurrence or makes a job.                     *)
LEMMA OnlyCommitsWrite ==
  ASSUME IInv, [Next]_vars, NEW o \in Occurrences,
         \/ Enqueues(o)
         \/ occ[o].status = "none" /\ occ'[o].status # "none"
  PROVE  \E r \in Replicas : pc[r] = "commit" /\
           \E s \in todo[r], a \in {"commit", "ended"} : CommitTo(r, s, a)
<1>1. ASSUME NEW r \in Replicas, Quiet(r) PROVE FALSE
  BY <1>1, QuietPlans DEF jobs, Enqueues
<1>2. ASSUME NEW r \in Replicas, Load(r) PROVE FALSE
  BY <1>2 DEF Load, jobs, tables, Enqueues
<1>3. ASSUME NEW r \in Replicas, SweepOccurrences(r) PROVE FALSE
  <2>1. phase' = phase
    BY <1>3 DEF SweepOccurrences, jobs
  <2>2. occ'[o] = occ[o] \/ occ'[o] = NoOccurrence
    BY <1>3 DEF SweepOccurrences
  <2> QED BY <2>1, <2>2 DEF NoOccurrence, Enqueues
<1>4. ASSUME NEW r \in Replicas, NEW s \in Schedules, NEW d \in Definitions,
             Register(r, s, d)
      PROVE  FALSE
  BY <1>4 DEF Register, jobs, Enqueues
<1>5. ASSUME QueueStep PROVE FALSE
  BY <1>5, QueueStepJobs DEF QueueStep, tables, Enqueues
<1>6. ASSUME NEW u \in Users, EraseJobs(u) PROVE FALSE
  BY <1>6 DEF EraseJobs, tables, jobs, Enqueues
<1>7. ASSUME EraseSchedules PROVE FALSE
  BY <1>7 DEF EraseSchedules, Enqueues
<1>8. ASSUME Tick \/ UNCHANGED vars PROVE FALSE
  BY <1>8 DEF Tick, vars, tables, jobs, Enqueues
<1> QED BY <1>1, <1>2, <1>3, <1>4, <1>5, <1>6, <1>7, <1>8, Steps

(* A replica that lost the lease records nothing: the commit transaction   *)
(* re-checks the fence it was given, not the clock alone.                  *)
THEOREM DeposedWritesNothingHolds == Spec => DeposedWritesNothing
<1>1. IInv /\ [Next]_vars =>
        [\A o \in Occurrences :
           occ[o].status = "none" /\ occ'[o].status # "none"
             => occ'[o].fence = lease.fence]_vars
  <2> SUFFICES ASSUME IInv, [Next]_vars, NEW o \in Occurrences,
                      occ[o].status = "none", occ'[o].status # "none"
               PROVE  occ'[o].fence = lease.fence
    OBVIOUS
  <2>1. PICK r \in Replicas : pc[r] = "commit" /\
          \E s \in todo[r], a \in {"commit", "ended"} : CommitTo(r, s, a)
    BY OnlyCommitsWrite
  <2>2. PICK s \in todo[r], a \in {"commit", "ended"} : CommitTo(r, s, a)
    BY <2>1
  <2>3. o \in Recorded(r, s) \/ occ'[o] = occ[o]
    BY <2>1, <2>2, CommitTables
  <2> QED BY <2>1, <2>2, <2>3, CommitTables
<1> QED BY <1>1, Invariance, PTL DEF Spec, DeposedWritesNothing

(* A job the scheduler enqueues is the only active one of its schedule,    *)
(* however many plans, registrations, replays and sweeps came before.      *)
THEOREM NoOverlapHolds == Spec => NoOverlap
<1>1. IInv /\ [Next]_vars =>
        [\A o \in Occurrences : Enqueues(o) =>
           \A t \in Clocks \ {o[2]} :
             phase'[<<o[1], t>>] \notin {"pending", "claimed"}]_vars
  <2> SUFFICES ASSUME IInv, [Next]_vars, NEW o \in Occurrences, Enqueues(o),
                      NEW t \in Clocks \ {o[2]}
               PROVE  phase'[<<o[1], t>>] \notin {"pending", "claimed"}
    OBVIOUS
  <2>1. PICK r \in Replicas : pc[r] = "commit" /\
          \E s \in todo[r], a \in {"commit", "ended"} : CommitTo(r, s, a)
    BY OnlyCommitsWrite
  <2>2. PICK s \in todo[r], a \in {"commit", "ended"} : CommitTo(r, s, a)
    BY <2>1
  <2>3. o \in Enqueued(r, s)
    BY <2>1, <2>2, CommitTables DEF Enqueues
  <2>4. o[1] = s /\ ~ActivePrior(s) /\ s \in Schedules
    BY <2>1, <2>2, <2>3, CommitWrites
  <2> DEFINE x == <<o[1], t>>
  <2>5. x \in Occurrences /\ x # o
    BY <2>4 DEF Occurrences
  <2>6. x \notin Enqueued(r, s)
    BY <2>1, <2>2, <2>3, <2>5, CommitWrites
  <2>7. phase'[x] = phase[x]
    BY <2>1, <2>2, <2>5, <2>6, CommitTables
  <2>8. phase[x] \in {"pending", "claimed"} => occ[x].status = "enqueued"
    BY <2>5 DEF IInv, ActiveOnRecord
  <2>9. phase[x] \notin {"pending", "claimed"}
    BY <2>4, <2>8 DEF ActivePrior, Active
  <2> QED BY <2>7, <2>9
<1> QED BY <1>1, Invariance, PTL DEF Spec, NoOverlap

(* A job is made from the definition stored when it is committed: a plan   *)
(* that passes the version check is the row itself.                        *)
THEOREM DefinitionFencedHolds == Spec => DefinitionFenced
<1>1. IInv /\ [Next]_vars =>
        [\A o \in Occurrences :
           Enqueues(o) /\ o[1] \notin wiped => jobDef'[o] = sched[o[1]].def]_vars
  <2> SUFFICES ASSUME IInv, [Next]_vars, NEW o \in Occurrences, Enqueues(o),
                      o[1] \notin wiped
               PROVE  jobDef'[o] = sched[o[1]].def
    OBVIOUS
  <2>1. PICK r \in Replicas : pc[r] = "commit" /\
          \E s \in todo[r], a \in {"commit", "ended"} : CommitTo(r, s, a)
    BY OnlyCommitsWrite
  <2>2. PICK s \in todo[r], a \in {"commit", "ended"} : CommitTo(r, s, a)
    BY <2>1
  <2>3. o \in Enqueued(r, s) /\ jobDef'[o] = plan[r][s].def
    BY <2>1, <2>2, CommitTables DEF Enqueues
  <2>4. o[1] = s /\ plan[r][s].version = sched[s].version
    BY <2>1, <2>2, <2>3, CommitWrites
  <2>5. plan[r][s] = sched[s]
    BY <2>1, <2>4 DEF IInv, PlanVersioned
  <2> QED BY <2>3, <2>4, <2>5
<1> QED BY <1>1, Invariance, PTL DEF Spec, DefinitionFenced

(* A tick enqueues at most one job, ever: what was fired lies behind the   *)
(* watermark, and the watermark is where the next commit starts.           *)
THEOREM TickOnceHolds == Spec => TickOnce
<1>1. IInv /\ [Next]_vars =>
        [\A o \in fired : o[1] \notin wiped => ~Enqueues(o)]_vars
  <2> SUFFICES ASSUME IInv, [Next]_vars, NEW o \in fired, o[1] \notin wiped,
                      Enqueues(o), vars' # vars
               PROVE  FALSE
    OBVIOUS
  <2>0. o \in Occurrences
    BY DEF IInv, FiredBehind
  <2>1. PICK r \in Replicas : pc[r] = "commit" /\
          \E s \in todo[r], a \in {"commit", "ended"} : CommitTo(r, s, a)
    BY <2>0, OnlyCommitsWrite
  <2>2. PICK s \in todo[r], a \in {"commit", "ended"} : CommitTo(r, s, a)
    BY <2>1
  <2>3. o \in Enqueued(r, s)
    BY <2>0, <2>1, <2>2, CommitTables DEF Enqueues
  <2>4. /\ o[1] = s /\ plan[r][s].version = sched[s].version
        /\ plan[r][s].next <= o[2] /\ o[2] \in Nat /\ s \in Schedules
    BY <2>1, <2>2, <2>3, CommitWrites
  <2>5. plan[r][s] = sched[s]
    BY <2>1, <2>4 DEF IInv, PlanVersioned
  <2>6. o[2] < sched[s].next /\ sched[s].next \in Nat
    BY <2>4 DEF IInv, FiredBehind, Basics, Rows
  <2> QED BY <2>4, <2>5, <2>6
<1> QED BY <1>1, Invariance, PTL DEF Spec, TickOnce

(* No evaluator and no registration moves a watermark back.                *)
THEOREM WatermarkAdvancesHolds == Spec => WatermarkAdvances
<1>1. IInv /\ [Next]_vars =>
        [\A s \in Schedules :
           s \notin wiped' /\ Registered(s) => sched'[s].next >= sched[s].next]_vars
  <2> SUFFICES ASSUME IInv, [Next]_vars, NEW s \in Schedules,
                      s \notin wiped', Registered(s)
               PROVE  sched'[s].next >= sched[s].next
    OBVIOUS
  <2>0. sched[s].next \in Nat /\ sched \in [Schedules -> Rows]
    BY DEF IInv, Basics, Rows
  <2>k. CASE sched'[s] = sched[s]
    BY <2>0, <2>k
  <2>1. ASSUME NEW r \in Replicas, Quiet(r) \/ Load(r) \/ SweepOccurrences(r)
        PROVE  sched'[s] = sched[s]
    BY <2>1, QuietPlans DEF Load, SweepOccurrences, tables
  <2>2. ASSUME NEW r \in Replicas, pc[r] = "commit", NEW u \in todo[r],
               NEW a \in {"commit", "ended"}, CommitTo(r, u, a)
        PROVE  sched'[s].next >= sched[s].next
    <3>1. CASE u = s
      <4>1. /\ sched'[s].next = NextRun(plan[r][s], at[r])
            /\ plan[r][s].next <= NextRun(plan[r][s], at[r])
            /\ NextRun(plan[r][s], at[r]) \in Nat
            /\ plan[r][s].version = sched[s].version
        BY <2>0, <2>2, <3>1, CommitWrites
      <4>2. s \notin wiped
        BY <2>2 DEF CommitTo, erasure
      <4>3. plan[r][s] = sched[s]
        BY <2>2, <3>1, <4>1, <4>2 DEF IInv, PlanVersioned
      <4> QED BY <2>0, <4>1, <4>3
    <3>2. CASE u # s
      BY <2>k, <2>0, <2>2, <3>2, CommitWrites
    <3> QED BY <3>1, <3>2
  <2>3. ASSUME NEW r \in Replicas, NEW u \in Schedules, NEW d \in Definitions,
               Register(r, u, d)
        PROVE  sched'[s].next >= sched[s].next
    <3>1. Clock(r) \in Nat
      BY ConstantsAssumption DEF Clock, IInv, Basics
    <3>2. sched' = [sched EXCEPT ![u] = Upsert(u, d, Clock(r))]
      BY <2>3 DEF Register
    <3>3. CASE u = s
      BY <2>0, <3>1, <3>2, <3>3, UpsertRow
    <3>4. CASE u # s
      BY <2>k, <2>0, <3>2, <3>4
    <3> QED BY <3>3, <3>4
  <2>4. ASSUME QueueStep \/ (\E u \in Users : EraseJobs(u)) \/ Tick \/ UNCHANGED vars
        PROVE  sched'[s] = sched[s]
    BY <2>4 DEF QueueStep, EraseJobs, Tick, vars, tables
  <2>5. ASSUME EraseSchedules
        PROVE  sched'[s] = sched[s]
    BY <2>5 DEF EraseSchedules
  <2> QED BY <2>k, <2>1, <2>2, <2>3, <2>4, <2>5, Steps
<1> QED BY <1>1, Invariance, PTL DEF Spec, WatermarkAdvances
=============================================================================
