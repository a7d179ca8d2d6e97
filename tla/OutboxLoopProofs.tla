-------------------------- MODULE OutboxLoopProofs --------------------------
(***************************************************************************)
(* A rolling deploy, for any number of relays, events and consumers and    *)
(* any number of crashes, lost claims and replays: what the new release    *)
(* consumes is not lost to replicas of the old one.                        *)
(***************************************************************************)
EXTENDS OutboxLoop, OutboxProofs

-----------------------------------------------------------------------------
(* The inductive invariant.                                                *)

Wanted(e, n) == <<TypeOf[e], n>> \in Declares[Newest]
Added(e, n) == \A v \in Releases \ {Newest} : <<TypeOf[e], n>> \notin Declares[v]

(* Clocks were read in the past, and the rollout was in the past.          *)
ClocksBehind ==
  /\ now > 0
  /\ \A r \in Relays : at[r] <= now
  /\ rollout \in Nat /\ rollout <= now

(* The new release is up only once it is rolled out, and the old one only  *)
(* until the overlap ends.                                                 *)
OneDeploy ==
  \A r \in Up :
    /\ release[r] = Newest => rollout # 0
    /\ rollout # 0 /\ now > rollout + Overlap => release[r] = Newest

(* The new release's expansions, and the deliveries that only it makes,    *)
(* are younger than the rollout.                                           *)
ExpandsLate ==
  \A r \in Relays : pc[r] \in Expanding /\ release[r] = Newest => rollout <= at[r]

(* What a snapshot found missing is declared by the relay that read it.    *)
AddsDeclared ==
  \A r \in Relays : \A d \in adding[r] :
    pc[r] = "expandWrite" /\ <<TypeOf[d[1]], d[2]>> \in Declared(r)

AddedLate ==
  \A e \in Events, n \in Names : Added(e, n) /\ Present(<<e, n>>) =>
    rollout # 0 /\ rollout <= delivery[<<e, n>>].created

(* Nothing that the new release consumes is abandoned.                     *)
NoneAbandoned ==
  \A e \in Events, n \in Names :
    Wanted(e, n) => delivery[<<e, n>>].status # "abandoned"

(* Completed, or about to be.                                              *)
Completing(e) ==
  \/ parent[e].status = "dispatched"
  \/ parent[e].status # "purged" /\ \E r \in Relays : e \in chosen[r]

(* An event is completed only when its grace is over, and one staged since *)
(* the rollout only with the deliveries of the new release.                *)
CompletedOld == \A e \in Events : Completing(e) => parent[e].created + HandlerGrace <= now

CompletedCovered ==
  \A e \in Events, n \in Names :
    Completing(e) /\ rollout # 0 /\ rollout <= parent[e].created /\ Wanted(e, n) =>
      Present(<<e, n>>) \/ PastRetention(e)

RolloutInv ==
  /\ IInv /\ ClocksBehind /\ OneDeploy /\ ExpandsLate /\ AddsDeclared /\ AddedLate
  /\ NoneAbandoned /\ CompletedOld /\ CompletedCovered

-----------------------------------------------------------------------------
(* What a step may do to a delivery, as far as its age and its abandonment *)
(* are concerned.                                                          *)

RowChange(d) ==
  \/ delivery'[d] = delivery[d] \/ delivery'[d] = NoDelivery
  \/ /\ Present(d) /\ delivery'[d].created = delivery[d].created
     /\ delivery'[d].status \in {"pending", "dispatched", "dead"}
  \/ /\ Present(d) /\ delivery'[d].created = delivery[d].created   \* abandoned
     /\ \E r \in Relays :
          /\ pc[r] = "batch" /\ d = Current(r).row /\ ~HandlerHere(r)
          /\ Older(delivery[d].created, HandlerGrace, now)
  \/ Present(d) /\ delivery'[d] = NewDelivery(now)                 \* replayed
  \/ \E r \in Relays :                                             \* made
       /\ pc[r] = "expandWrite" /\ d \in adding[r]
       /\ delivery'[d] = NewDelivery(at[r])

(* A fenced UPDATE that does not abandon.                                  *)
LEMMA SettleChange ==
  ASSUME IInv, NEW r \in Relays, batch[r] # <<>>, NEW row, Update(Current(r), row),
         Fenced(Current(r)) =>
           /\ row.status \in {"pending", "dispatched", "dead"}
           /\ row.created = delivery[Current(r).row].created
  PROVE  \A d \in Deliveries : RowChange(d)
<1> SUFFICES ASSUME NEW d \in Deliveries PROVE RowChange(d)
  OBVIOUS
<1>1. \/ delivery'[d] = delivery[d]
      \/ /\ d = Current(r).row /\ Fenced(Current(r)) /\ Present(d)
         /\ delivery'[d] = row
  BY UpdateWrites
<1> QED BY <1>1 DEF RowChange

(* The claim changes no age.                                               *)
LEMMA ClaimChange ==
  ASSUME IInv, NEW ds \in ToClaim, TakeLease(ds)
  PROVE  \A d \in Deliveries : RowChange(d)
<1> SUFFICES ASSUME NEW d \in Deliveries PROVE RowChange(d)
  OBVIOUS
<1> DEFINE n == delivery[d].attempts + 1
           row == [delivery[d] EXCEPT !.attempts = n, !.until = now + Lease]
<1>1. delivery'[d] = IF d \in ds THEN row ELSE delivery[d]
  BY DEF TakeLease
<1>2. delivery[d] \in Rows
  BY DEF IInv, Tables
<1> HIDE DEF n
<1>3. row.status = delivery[d].status /\ row.created = delivery[d].created
  BY <1>2 DEF Rows
<1> HIDE DEF row
<1>4. d \in ds => delivery[d].status = "pending"
  BY DEF ToClaim, Oldest, Claimable, Pending
<1> QED BY <1>1, <1>3, <1>4 DEF RowChange, Present

(* What a relay does to the deliveries.                                    *)
LEMMA RelayChange ==
  ASSUME IInv, NEW r \in Relays, RelayStep(r)
  PROVE  \A d \in Deliveries : RowChange(d)
<1> DEFINE c == Current(r)
           old == delivery[c.row]
<1>0. pc[r] \in Holding => batch[r] # <<>> /\ old \in Rows
  BY HoldsBatch, CurrentRow
<1>a. Fenced(c) => old.status = "pending"
  BY DEF Fenced, Pending
<1>1. CASE UNCHANGED delivery
  BY <1>1 DEF RowChange
<1>2. CASE MarkDispatched(r)
  <2> DEFINE row == [old EXCEPT !.status = "dispatched", !.until = 0, !.next = 0]
  <2>1. batch[r] # <<>> /\ old \in Rows
    BY <1>0, <1>2 DEF MarkDispatched, Holding
  <2>2. row.status = "dispatched" /\ row.created = old.created
    BY <2>1 DEF Rows
  <2>3. Update(c, row)
    BY <1>2 DEF MarkDispatched
  <2> HIDE DEF row
  <2> QED BY <2>1, <2>2, <2>3, SettleChange
<1>3. CASE MarkFailure(r)
  <2> DEFINE dead == [old EXCEPT !.status = "dead", !.until = 0, !.next = 0]
             again == [old EXCEPT !.next = now + BackoffDelay(c.attempts), !.until = 0]
             row == IF c.attempts >= MaxAttempts THEN dead ELSE again
  <2>1. batch[r] # <<>> /\ old \in Rows
    BY <1>0, <1>3 DEF MarkFailure, Holding
  <2>2. /\ dead.status = "dead" /\ dead.created = old.created
        /\ again.status = old.status /\ again.created = old.created
    BY <2>1 DEF Rows
  <2>3. Update(c, row)
    BY <1>3 DEF MarkFailure
  <2> HIDE DEF dead, again, c
  <2>4. Fenced(c) => row.status \in {"pending", "dispatched", "dead"}
                     /\ row.created = old.created
    BY <1>a, <2>2
  <2> HIDE DEF row
  <2> QED BY <2>1, <2>3, <2>4, SettleChange DEF c
<1>4. CASE RequeueUnhandled(r)
  <2> DEFINE m == IF old.attempts > 0 THEN old.attempts - 1 ELSE 0
             row == [old EXCEPT !.attempts = m, !.next = at[r] + BackoffMax, !.until = 0]
  <2>1. batch[r] # <<>> /\ old \in Rows
    BY <1>0, <1>4 DEF RequeueUnhandled, Holding
  <2>2. Update(c, row)
    BY <1>4 DEF RequeueUnhandled
  <2> HIDE DEF m
  <2>3. row.status = old.status /\ row.created = old.created
    BY <2>1 DEF Rows
  <2> HIDE DEF row
  <2> QED BY <1>a, <2>1, <2>2, <2>3, SettleChange
<1>5. CASE ReleaseUnstarted(r)
  <2> DEFINE m == old.attempts - 1
             row == [old EXCEPT !.attempts = m, !.until = 0]
  <2>1. /\ batch[r] # <<>> /\ old \in Rows /\ c.row \in Deliveries
        /\ delivery \in [Deliveries -> Rows]
        /\ old.until = c.until <=> Fenced(c)
    BY <1>0, <1>5, CurrentRow, CurrentFacts
       DEF ReleaseUnstarted, Holding, Fenced, IInv, Tables
  <2>2. delivery' = IF old.until = c.until
                    THEN [delivery EXCEPT ![c.row].attempts = @ - 1, ![c.row].until = 0]
                    ELSE delivery
    BY <1>5 DEF ReleaseUnstarted
  <2>3. [delivery EXCEPT ![c.row].attempts = @ - 1, ![c.row].until = 0] =
        [delivery EXCEPT ![c.row] = row]
    BY <2>1 DEF Rows
  <2>4. Update(c, row)
    BY <2>1, <2>2, <2>3 DEF Update
  <2> HIDE DEF m
  <2>5. row.status = old.status /\ row.created = old.created
    BY <2>1 DEF Rows
  <2> HIDE DEF row
  <2> QED BY <1>a, <2>1, <2>4, <2>5, SettleChange
<1>6. CASE AbandonUnhandled(r)
  <2> DEFINE row == [old EXCEPT !.status = "abandoned", !.until = 0, !.next = 0]
  <2>1. batch[r] # <<>> /\ old \in Rows
    BY <1>0, <1>6 DEF AbandonUnhandled, Holding
  <2>2. row.created = old.created
    BY <2>1 DEF Rows
  <2>3. /\ pc[r] = "batch" /\ ~HandlerHere(r)
        /\ \/ UNCHANGED delivery
           \/ Update(c, row) /\ Older(old.created, HandlerGrace, now)
    BY <1>6 DEF AbandonUnhandled
  <2> HIDE DEF row
  <2>4. CASE Update(c, row) /\ Older(old.created, HandlerGrace, now)
    <3> SUFFICES ASSUME NEW d \in Deliveries PROVE RowChange(d)
      OBVIOUS
    <3>1. \/ delivery'[d] = delivery[d]
          \/ d = c.row /\ Present(d) /\ delivery'[d] = row
      BY <2>1, <2>4, UpdateWrites
    <3> QED BY <2>2, <2>3, <2>4, <3>1 DEF RowChange
  <2> QED BY <1>1, <2>3, <2>4
<1>7. CASE SweepExhausted(r)
  <2> SUFFICES ASSUME NEW d \in Deliveries PROVE RowChange(d)
    OBVIOUS
  <2> DEFINE row == [delivery[d] EXCEPT !.status = "dead", !.until = 0, !.next = 0]
  <2>1. delivery[d] \in Rows
    BY DEF IInv, Tables
  <2>2. row.status = "dead" /\ row.created = delivery[d].created
    BY <2>1 DEF Rows
  <2>3. delivery'[d] = IF Exhausted(d) THEN row ELSE delivery[d]
    BY <1>7 DEF SweepExhausted
  <2> HIDE DEF row
  <2> QED BY <2>2, <2>3 DEF RowChange, Exhausted, Pending, Present
<1>8. CASE PurgeDeliveries(r)
  BY <1>8 DEF PurgeDeliveries, RowChange
<1>9. CASE ExpandWrite(r)
  BY <1>9 DEF ExpandWrite, RowChange
<1>10. CASE ClaimDeliveries(r)
  <2>1. PICK ds \in ToClaim : TakeLease(ds)
    BY <1>10 DEF ClaimDeliveries
  <2> QED BY <2>1, ClaimChange
<1>11. \/ MarkDispatched(r) \/ MarkFailure(r) \/ RequeueUnhandled(r)
       \/ ReleaseUnstarted(r) \/ AbandonUnhandled(r) \/ SweepExhausted(r)
       \/ PurgeDeliveries(r) \/ ExpandWrite(r) \/ ClaimDeliveries(r)
       \/ UNCHANGED delivery
  BY DEF RelayStep, Pump, ExpandRead, DropOrphans, CompleteRead, CompleteWrite,
         PurgeParentsRead, PurgeParentsWrite, Begin, TimeOut, Return, table
<1> QED BY <1>1, <1>2, <1>3, <1>4, <1>5, <1>6, <1>7, <1>8, <1>9, <1>10, <1>11

(* Every step.                                                             *)
LEMMA EveryChange ==
  ASSUME IInv, [Next]_vars
  PROVE  \A d \in Deliveries : RowChange(d)
<1>1. CASE UNCHANGED delivery
  BY <1>1 DEF RowChange
<1>2. ASSUME NEW r \in Relays, ClaimLost(r) PROVE \A d \in Deliveries : RowChange(d)
  BY <1>2, ClaimChange DEF ClaimLost
<1>3. ASSUME NEW e \in Events, NEW ns \in SUBSET Names, Replay(e, ns)
      PROVE  \A d \in Deliveries : RowChange(d)
  <2>1. PICK reset \in SUBSET {d \in Deliveries : Present(d)} :
          delivery' = [d \in Deliveries |->
            IF d \in reset THEN NewDelivery(now) ELSE delivery[d]]
    BY <1>3 DEF Replay, DeliveriesOf
  <2> QED BY <2>1 DEF RowChange
<1>4. \/ UNCHANGED delivery \/ \E r \in Relays : RelayStep(r) \/ ClaimLost(r)
      \/ \E e \in Events : \E ns \in SUBSET Names : Replay(e, ns)
  BY DEF Next, ProcessStep, Exit, Crash, PumpFails, SettleFails, Cancel, Restart,
         AppendFor, Tick, vars, table
<1> QED BY <1>1, <1>2, <1>3, <1>4, RelayChange

-----------------------------------------------------------------------------
(* What a step may do to a relay's clock and to its choice of events.      *)

ClockChange(r) ==
  /\ at'[r] \in {at[r], now, 0}
  /\ pc'[r] \in Expanding => at'[r] = now \/ (pc[r] \in Expanding /\ at'[r] = at[r])

(* Only the start of a pump leads to the expansions.                       *)
LEMMA EveryClock ==
  ASSUME IInv, [Next]_vars
  PROVE  \A r \in Relays : ClockChange(r)
<1> USE DEF ClockChange, IInv, Memory, ReadClock, DropClock, Goto, Expanding
<1>1. ASSUME NEW q \in Relays,
             \/ Pump(q) \/ DropOrphans(q) \/ CompleteRead(q) \/ PurgeDeliveries(q)
             \/ PurgeParentsRead(q) \/ PurgeParentsWrite(q)
             \/ SweepExhausted(q) \/ Begin(q) \/ TimeOut(q)
             \/ \E outcome \in {"succeeded", "failed"} : Return(q, outcome)
             \/ MarkDispatched(q) \/ MarkFailure(q)
      PROVE  \A r \in Relays : ClockChange(r)
  BY <1>1 DEF Pump, DropOrphans, CompleteRead, PurgeDeliveries, PurgeParentsRead,
     PurgeParentsWrite, SweepExhausted, Begin, TimeOut, Return, MarkDispatched,
     MarkFailure, memory
<1>2. ASSUME NEW q \in Relays, CompleteWrite(q) \/ RequeueUnhandled(q)
      PROVE  \A r \in Relays : ClockChange(r)
  BY <1>2 DEF CompleteWrite, RequeueUnhandled, Advance
<1>3. ASSUME NEW q \in Relays,
             \/ ClaimDeliveries(q) \/ ReleaseUnstarted(q) \/ AbandonUnhandled(q)
             \/ ExpandWrite(q) \/ \E pair \in todo[q] : ExpandRead(q, pair)
      PROVE  \A r \in Relays : ClockChange(r)
  BY <1>3 DEF ClaimDeliveries, ReleaseUnstarted, HandOn, AbandonUnhandled,
              ExpandRead, ExpandWrite
<1>4. ASSUME NEW q \in Relays, ProcessStep(q)
      PROVE  \A r \in Relays : ClockChange(r)
  <2>1. CASE SettleFails(q)
    BY <2>1 DEF SettleFails, Advance, HandOn, memory
  <2>2. CASE ~SettleFails(q)
    BY <1>4, <2>2 DEF ProcessStep, Exit, Crash, PumpFails, ClaimLost, Cancel, Restart,
                      Empty, memory
  <2> QED BY <2>1, <2>2
<1>5. CASE \/ Tick \/ UNCHANGED vars
           \/ \E e \in Events : AppendFor(e) \/ \E ns \in SUBSET Names : Replay(e, ns)
  BY <1>5 DEF Tick, vars, AppendFor, Replay, memory
<1> QED BY <1>1, <1>2, <1>3, <1>4, <1>5 DEF Next, RelayStep

(* r has chosen e just now: its grace is over, and what r declares has a   *)
(* delivery of it.                                                         *)
NewlyChosen(r, e) ==
  /\ UNCHANGED <<now, table, release>>
  /\ pc[r] # "down" /\ parent[e].status = "pending"
  /\ \E clock \in {now, at[r]} : Older(parent[e].created, HandlerGrace, clock)
  /\ \A n \in DeclaredFor(r, e) : Present(<<e, n>>)

(* Nothing else is chosen, but by a purge what is completed already.       *)
LEMMA EveryChoice ==
  ASSUME IInv, [Next]_vars, NEW r \in Relays, NEW e \in chosen'[r]
  PROVE  \/ e \in chosen[r] \/ NewlyChosen(r, e)
         \/ parent[e].status = "dispatched" /\ UNCHANGED parent
<1> USE DEF IInv, Memory
<1>1. CASE DropOrphans(r)
  <2>1. UNCHANGED <<now, table, release>> /\ pc[r] = "expand"
    BY <1>1 DEF DropOrphans, process
  <2>2. Orphan(r, e, now)
    BY <1>1 DEF DropOrphans
  <2> QED BY <2>1, <2>2 DEF NewlyChosen, Orphan
<1>2. CASE CompleteRead(r)
  <2>1. UNCHANGED <<now, table, release>> /\ pc[r] \in {"backstop", "complete"}
    BY <1>2 DEF CompleteRead, process
  <2>2. Completable(r, e, now) \/ Completable(r, e, at[r])
    BY <1>2 DEF CompleteRead
  <2> QED BY <2>1, <2>2 DEF NewlyChosen, Completable
<1>3. CASE PurgeParentsRead(r)
  BY <1>3 DEF PurgeParentsRead, Expired, table
<1>4. CASE ~DropOrphans(r) /\ ~CompleteRead(r) /\ ~PurgeParentsRead(r)
  <2>1. ASSUME NEW q \in Relays, RelayStep(q) PROVE chosen'[r] \subseteq chosen[r]
    <3>1. CASE CompleteWrite(q) \/ PurgeParentsWrite(q)
      BY <3>1 DEF CompleteWrite, PurgeParentsWrite
    <3>2. CASE DropOrphans(q) \/ CompleteRead(q) \/ PurgeParentsRead(q)
      BY <1>4, <3>2 DEF DropOrphans, CompleteRead, PurgeParentsRead
    <3>3. CASE /\ ~CompleteWrite(q) /\ ~PurgeParentsWrite(q)
               /\ ~DropOrphans(q) /\ ~CompleteRead(q) /\ ~PurgeParentsRead(q)
      BY <2>1, <3>3 DEF RelayStep, Pump, ExpandRead, ExpandWrite, PurgeDeliveries,
        SweepExhausted, ClaimDeliveries, ReleaseUnstarted, Begin, TimeOut, Return,
        MarkDispatched, MarkFailure, AbandonUnhandled, RequeueUnhandled, memory
    <3> QED BY <3>1, <3>2, <3>3
  <2>2. ASSUME NEW q \in Relays, ProcessStep(q) PROVE chosen'[r] \subseteq chosen[r]
    BY <2>2 DEF ProcessStep, Exit, Crash, PumpFails, ClaimLost, SettleFails, Cancel,
                Restart, Empty, memory
  <2>3. CASE \/ Tick \/ UNCHANGED vars
             \/ \E f \in Events : AppendFor(f) \/ \E ns \in SUBSET Names : Replay(f, ns)
    BY <2>3 DEF Tick, vars, AppendFor, Replay, memory
  <2> QED BY <2>1, <2>2, <2>3 DEF Next
<1> QED BY <1>1, <1>2, <1>3, <1>4

-----------------------------------------------------------------------------
(* The loop.                                                               *)

(* Steps that start no relay and take no time.                             *)
Calm ==
  /\ UNCHANGED <<now, rollout, release>>
  /\ \A r \in Relays : pc[r] = "down" => pc'[r] = "down"

(* The clock moves only while the deployment keeps its promise.            *)
Passes == Served /\ Tick /\ UNCHANGED rollout

(* A step of the loop is one of the outbox, of one of three kinds.         *)
LEMMA LoopSteps ==
  ASSUME IInv, [LoopNext]_loopVars
  PROVE  /\ [Next]_vars
         /\ \/ Calm \/ Passes
            \/ \E r \in Relays, v \in Releases : StartRelay(r, v)
<1> USE DEF loop
<1>1. ASSUME NEW r \in Relays, Wake(r) \/ WorkOn(r) PROVE Next /\ Calm
  <2>1. RelayStep(r) \/ PumpFails(r) \/ ClaimLost(r) \/ SettleFails(r)
    BY <1>1 DEF Wake, WorkOn, RelayStep
  <2>2. UNCHANGED rollout /\ pc[r] # "down"
    <3>1. pc[r] # "idle" => pc[r] # "down"
      <4>1. pc[r] = "down" => ~RelayStep(r)
        BY DEF RelayStep, Pump, DropOrphans, CompleteRead, CompleteWrite,
          ExpandRead, ExpandWrite, PurgeDeliveries, PurgeParentsRead,
          PurgeParentsWrite, SweepExhausted,
          ClaimDeliveries, ReleaseUnstarted, Begin, TimeOut, Return, MarkDispatched,
          MarkFailure, AbandonUnhandled, RequeueUnhandled
      <4>2. pc[r] = "down" => ~PumpFails(r) /\ ~ClaimLost(r) /\ ~SettleFails(r)
        BY DEF PumpFails, ClaimLost, SettleFails, Reconciling
      <4> QED BY <2>1, <4>1, <4>2
    <3> QED BY <1>1, <3>1 DEF Wake, WorkOn
  <2>3. UNCHANGED <<now, release>> /\ \A q \in Relays \ {r} : pc'[q] = pc[q]
    <3>1. CASE RelayStep(r)
      BY <3>1 DEF RelayStep, Pump, DropOrphans, CompleteRead, CompleteWrite,
          ExpandRead, ExpandWrite, PurgeDeliveries, PurgeParentsRead,
          PurgeParentsWrite, SweepExhausted,
          ClaimDeliveries, ReleaseUnstarted, Begin, TimeOut, Return, MarkDispatched,
          MarkFailure, AbandonUnhandled, RequeueUnhandled, Advance, HandOn, Goto,
          process, IInv, Memory
    <3>2. CASE PumpFails(r) \/ ClaimLost(r) \/ SettleFails(r)
      BY <3>2 DEF PumpFails, ClaimLost, SettleFails, Advance, HandOn, Goto, process,
                  IInv, Memory
    <3> QED BY <2>1, <3>1, <3>2
  <2>4. Next
    BY <2>1 DEF Next, ProcessStep
  <2> QED BY <2>2, <2>3, <2>4 DEF Calm
<1>2. ASSUME NEW r \in Relays, Replaced(r) \/ (Crash(r) /\ UNCHANGED loop)
      PROVE  Next /\ Calm
  <2>1. Exit(r) \/ Cancel(r) \/ Crash(r)
    BY <1>2 DEF Replaced
  <2>2. UNCHANGED <<now, rollout, release>>
    BY <1>2 DEF Replaced, Exit, Cancel, Crash, process
  <2>3. \A q \in Relays : pc[q] = "down" => pc'[q] = "down"
    BY <2>1 DEF Exit, Cancel, Crash, Goto, IInv, Memory
  <2>4. Next
    BY <2>1 DEF Next, ProcessStep
  <2> QED BY <2>2, <2>3, <2>4 DEF Calm
<1>3. ASSUME NEW r \in Relays, NEW e \in Events, StageAndNudge(e, r) PROVE Next /\ Calm
  BY <1>3 DEF StageAndNudge, AppendFor, Next, Calm, process
<1>4. ASSUME NEW e \in Events, NEW ns \in SUBSET Names, OperatorReplays(e, ns)
      PROVE  Next /\ Calm
  BY <1>4 DEF OperatorReplays, Replay, Next, Calm, process
<1>5. ASSUME NEW r \in Relays, NEW v \in Releases, StartRelay(r, v) PROVE Next
  BY <1>5 DEF StartRelay, Next, ProcessStep
<1>6. CASE (\A r \in Relays : Waiting(r)) /\ Served /\ Started /\ Tick /\ UNCHANGED loop
  BY <1>6 DEF Passes, Next
<1>7. CASE UNCHANGED loopVars
  BY <1>7 DEF loopVars, vars, Calm, process
<1> QED BY <1>1, <1>2, <1>3, <1>4, <1>5, <1>6, <1>7 DEF LoopNext, LoopStep

-----------------------------------------------------------------------------
(* Each part of the invariant is kept.                                     *)

(* Instants and durations are numbers, and there is a grace.               *)
LEMMA Numbers ==
  ASSUME IInv
  PROVE  /\ now \in Nat
         /\ \A r \in Relays : at[r] \in Nat
         /\ \A e \in Events : parent[e].created \in Nat
         /\ \A d \in Deliveries : delivery[d].created \in Nat
         /\ HandlerGrace \in Nat /\ Overlap \in Nat /\ Overlap < HandlerGrace
BY TimesFacts, OutboxAssumption, LoopAssumption DEF IInv, Memory, Tables, Rows

(* The instant of the rollout is set once, to the present.                 *)
LEMMA RolloutSet ==
  ASSUME RolloutInv, [LoopNext]_loopVars
  PROVE  /\ rollout' = rollout \/ (rollout = 0 /\ rollout' = now)
         /\ now' \in Nat /\ now' >= now
         /\ rollout' \in Nat /\ rollout' <= now'
<1>1. IInv /\ rollout \in Nat /\ rollout <= now
  BY DEF RolloutInv, ClocksBehind
<1>2. now \in Nat
  BY <1>1, Numbers
<1>3. CASE Calm \/ Passes
  BY <1>1, <1>2, <1>3 DEF Calm, Passes, Tick
<1>4. CASE \E r \in Relays, v \in Releases : StartRelay(r, v)
  BY <1>1, <1>2, <1>4 DEF StartRelay, Restart
<1> QED BY <1>1, <1>3, <1>4, LoopSteps

(* The clocks.                                                             *)
LEMMA ClocksKept ==
  ASSUME RolloutInv, [LoopNext]_loopVars
  PROVE  ClocksBehind'
<1>1. IInv /\ [Next]_vars /\ \A r \in Relays : at[r] <= now
  BY LoopSteps DEF RolloutInv, ClocksBehind
<1>2. now \in Nat /\ \A r \in Relays : at[r] \in Nat /\ ClockChange(r)
  BY <1>1, Numbers, EveryClock
<1>3. \A r \in Relays : at'[r] <= now'
  BY <1>1, <1>2, RolloutSet DEF ClockChange
<1>4. now > 0
  BY DEF RolloutInv, ClocksBehind
<1> QED BY <1>2, <1>3, <1>4, RolloutSet DEF ClocksBehind

(* The deployment.                                                         *)
LEMMA DeployKept ==
  ASSUME RolloutInv, [LoopNext]_loopVars
  PROVE  OneDeploy'
<1> SUFFICES ASSUME NEW r \in Relays, pc'[r] # "down"
             PROVE  /\ release'[r] = Newest => rollout' # 0
                    /\ rollout' # 0 /\ now' > rollout' + Overlap => release'[r] = Newest
  BY DEF OneDeploy, Up
<1>1. /\ IInv /\ rollout \in Nat
      /\ pc[r] # "down" =>
           /\ release[r] = Newest => rollout # 0
           /\ rollout # 0 /\ now > rollout + Overlap => release[r] = Newest
  BY DEF RolloutInv, ClocksBehind, OneDeploy, Up
<1>2. now \in Nat /\ now > 0 /\ Overlap \in Nat
  BY <1>1, Numbers DEF RolloutInv, ClocksBehind
<1>3. CASE Calm
  BY <1>1, <1>3 DEF Calm
<1>4. CASE Passes
  <2>1. /\ UNCHANGED <<rollout, release, pc>> /\ now' = now + 1
        /\ rollout # 0 /\ now >= rollout + Overlap => release[r] = Newest
    BY <1>4 DEF Passes, Tick, process, Served, Up
  <2> QED BY <1>1, <1>2, <2>1
<1>5. ASSUME NEW q \in Relays, NEW v \in Releases, StartRelay(q, v)
      PROVE  /\ release'[r] = Newest => rollout' # 0
             /\ rollout' # 0 /\ now' > rollout' + Overlap => release'[r] = Newest
  <2>1. /\ now' = now
        /\ v = Newest \/ rollout = 0 \/ now <= rollout + Overlap
        /\ rollout' = IF rollout = 0 /\ v = Newest THEN now ELSE rollout
        /\ r = q => release'[r] = v
        /\ r # q => release'[r] = release[r] /\ pc'[r] = pc[r]
    BY <1>5, <1>1 DEF StartRelay, Restart, Goto, IInv, Memory
  <2> QED BY <1>1, <1>2, <2>1
<1> QED BY <1>1, <1>3, <1>4, <1>5, LoopSteps

(* Expansions of the new release.                                          *)
LEMMA ExpandsKept ==
  ASSUME RolloutInv, [LoopNext]_loopVars
  PROVE  ExpandsLate'
<1> SUFFICES ASSUME NEW r \in Relays, pc'[r] \in Expanding, release'[r] = Newest
             PROVE  rollout' <= at'[r]
  BY DEF ExpandsLate
<1>1. IInv /\ [Next]_vars /\ rollout \in Nat /\ rollout <= now
  BY LoopSteps DEF RolloutInv, ClocksBehind
<1>2. now \in Nat /\ ClockChange(r)
  BY <1>1, Numbers, EveryClock
<1>3. rollout' = rollout \/ rollout' = now
  BY RolloutSet
<1>4. CASE at'[r] = now
  BY <1>1, <1>2, <1>3, <1>4
<1>5. CASE pc[r] \in Expanding /\ at'[r] = at[r]
  <2>1. release[r] = Newest
    <3>1. CASE Calm \/ Passes
      BY <3>1 DEF Calm, Passes, Tick, process
    <3>2. ASSUME NEW q \in Relays, NEW v \in Releases, StartRelay(q, v)
          PROVE  release[r] = Newest
      BY <1>1, <1>5, <3>2 DEF StartRelay, Restart, Expanding, IInv, Memory
    <3> QED BY <1>1, <3>1, <3>2, LoopSteps
  <2>2. rollout # 0 /\ rollout <= at[r]
    BY <1>5, <2>1 DEF RolloutInv, ExpandsLate, Expanding, OneDeploy, Up
  <2>3. rollout' = rollout
    BY <2>2, RolloutSet
  <2> QED BY <1>5, <2>2, <2>3
<1> QED BY <1>2, <1>4, <1>5 DEF ClockChange

(* What the expansions are about to add.                                   *)
LEMMA AddsKept ==
  ASSUME IInv, AddsDeclared, [Next]_vars
  PROVE  AddsDeclared'
<1> SUFFICES ASSUME NEW r \in Relays, NEW d \in adding'[r]
             PROVE  pc'[r] = "expandWrite" /\ <<TypeOf[d[1]], d[2]>> \in Declared(r)'
  BY DEF AddsDeclared
<1> DEFINE Same == d \in adding[r] /\ pc'[r] = pc[r] /\ release'[r] = release[r]
<1>1. ASSUME NEW pair \in todo[r], ExpandRead(r, pair)
      PROVE  pc'[r] = "expandWrite" /\ <<TypeOf[d[1]], d[2]>> \in Declared(r)'
  <2>1. pc'[r] = "expandWrite" /\ release' = release
    BY <1>1 DEF ExpandRead, Goto, process, IInv, Memory
  <2>2. PICK es \in SUBSET {e \in Events : TypeOf[e] = pair[1]} :
          adding' = [adding EXCEPT ![r] = es \X {pair[2]}]
    BY <1>1 DEF ExpandRead, Oldest
  <2>3. TypeOf[d[1]] = pair[1] /\ d[2] = pair[2]
    <3>1. d \in es \X {pair[2]}
      BY <2>2 DEF IInv, Memory
    <3> QED BY <3>1
  <2>4. pair \in Declared(r) /\ pair = <<pair[1], pair[2]>>
    <3>1. Declares[release[r]] \subseteq {TypeOf[e] : e \in Events} \X Names
      BY OutboxAssumption DEF IInv, Memory
    <3> QED BY <3>1 DEF IInv, Stations, Declared
  <2> QED BY <2>1, <2>3, <2>4 DEF Declared
<1>2. CASE ~\E pair \in todo[r] : ExpandRead(r, pair)
  <2> USE DEF IInv, Memory, Goto
  <2>a. d \in adding[r] => pc[r] = "expandWrite"
    BY DEF AddsDeclared
  <2>1. ASSUME NEW q \in Relays, RelayStep(q) PROVE Same
    <3>1. CASE ExpandWrite(q) \/ \E pair \in todo[q] : ExpandRead(q, pair)
      BY <1>2, <3>1 DEF ExpandWrite, ExpandRead, process
    <3>2. CASE ~ExpandWrite(q) /\ ~\E pair \in todo[q] : ExpandRead(q, pair)
      <4>1. /\ UNCHANGED <<adding, release>> /\ pc[q] # "expandWrite"
            /\ \A p \in Relays \ {q} : pc'[p] = pc[p]
        BY <2>1, <3>2 DEF RelayStep, Pump, DropOrphans, CompleteRead, CompleteWrite,
          PurgeDeliveries, PurgeParentsRead, PurgeParentsWrite, SweepExhausted,
          ClaimDeliveries, ReleaseUnstarted, Begin, TimeOut, Return, MarkDispatched,
          MarkFailure, AbandonUnhandled, RequeueUnhandled, Advance, HandOn, memory,
          process
      <4> QED BY <2>a, <4>1
    <3> QED BY <3>1, <3>2
  <2>2. ASSUME NEW q \in Relays, ProcessStep(q) PROVE Same
    <3>1. CASE SettleFails(q)
      BY <2>a, <3>1 DEF SettleFails, Advance, HandOn, memory, process
    <3>2. CASE ~SettleFails(q)
      BY <2>a, <2>2, <3>2 DEF ProcessStep, Exit, Crash, PumpFails, ClaimLost, Cancel,
                              Restart, Empty, memory, process
    <3> QED BY <3>1, <3>2
  <2>3. CASE Same
    <3>1. pc[r] = "expandWrite" /\ <<TypeOf[d[1]], d[2]>> \in Declares[release[r]]
      BY <2>3 DEF AddsDeclared, Declared
    <3> QED BY <2>3, <3>1 DEF Declared
  <2>4. CASE \/ Tick \/ UNCHANGED vars
             \/ \E f \in Events : AppendFor(f) \/ \E ns \in SUBSET Names : Replay(f, ns)
    <3>1. UNCHANGED <<adding, pc, release>>
      BY <2>4 DEF Tick, vars, AppendFor, Replay, memory, process
    <3> QED BY <2>3, <3>1
  <2> HIDE DEF Same
  <2> QED BY <2>1, <2>2, <2>3, <2>4 DEF Next
<1> QED BY <1>1, <1>2

(* A delivery has the age of its making, and none when there is none.      *)
LEMMA MadeFacts ==
  /\ \A t : NewDelivery(t).created = t /\ NewDelivery(t).status = "pending"
  /\ NoDelivery.status = "none"
BY DEF NewDelivery, NoDelivery

(* Deliveries to the consumers that are added.                             *)
LEMMA AddedKept ==
  ASSUME RolloutInv, [LoopNext]_loopVars
  PROVE  AddedLate'
<1> SUFFICES ASSUME NEW e \in Events, NEW n \in Names, Added(e, n),
                    Present(<<e, n>>)'
             PROVE  rollout' # 0 /\ rollout' <= delivery'[<<e, n>>].created
  BY DEF AddedLate, Added
<1> DEFINE d == <<e, n>>
<1>1. IInv /\ [Next]_vars /\ rollout \in Nat /\ rollout <= now
  BY LoopSteps DEF RolloutInv, ClocksBehind
<1>2. d \in Deliveries /\ d[1] = e /\ d[2] = n
  BY DEF Deliveries
<1>3. RowChange(d)
  BY <1>1, <1>2, EveryChange
<1>4. Present(d) => rollout # 0 /\ rollout <= delivery[d].created
  BY DEF RolloutInv, AddedLate
<1>5. rollout # 0 => rollout' = rollout
  BY RolloutSet
<1>6. ASSUME NEW r \in Relays, pc[r] = "expandWrite", d \in adding[r]
      PROVE  rollout # 0 /\ rollout <= at[r]
  <2>1. <<TypeOf[e], n>> \in Declares[release[r]] /\ release[r] \in Releases
    BY <1>1, <1>2, <1>6 DEF RolloutInv, AddsDeclared, Declared, IInv, Memory
  <2>2. release[r] = Newest
    BY <2>1 DEF Added
  <2> QED BY <1>6, <2>2 DEF RolloutInv, ExpandsLate, Expanding, OneDeploy, Up
<1>7. delivery'[d].status # "none"
  BY DEF Present
<1> HIDE DEF d
<1>8. CASE delivery'[d] = delivery[d] \/ delivery'[d] = NoDelivery
  <2>1. delivery'[d] = delivery[d] /\ Present(d)
    BY <1>7, <1>8, MadeFacts DEF Present
  <2> QED BY <1>4, <1>5, <2>1 DEF d
<1>9. CASE Present(d) /\ delivery'[d].created = delivery[d].created
  BY <1>4, <1>5, <1>9 DEF d
<1>10. CASE Present(d) /\ delivery'[d] = NewDelivery(now)
  BY <1>1, <1>4, <1>5, <1>10, MadeFacts DEF d
<1>11. CASE \E r \in Relays : /\ pc[r] = "expandWrite" /\ d \in adding[r]
                              /\ delivery'[d] = NewDelivery(at[r])
  BY <1>2, <1>5, <1>6, <1>11, MadeFacts DEF d
<1> QED BY <1>3, <1>8, <1>9, <1>10, <1>11 DEF RowChange

(* A replica that has no handler for what the new release consumes runs    *)
(* the old one, within the grace of everything made since the rollout.     *)
LEMMA OldReplica ==
  ASSUME RolloutInv, NEW r \in Relays, pc[r] # "down",
         NEW e \in Events, NEW n \in Names, Wanted(e, n), n \notin DeclaredFor(r, e),
         rollout # 0, NEW t \in Nat, rollout <= t
  PROVE  ~(t + HandlerGrace <= now)
<1>1. release[r] # Newest
  BY DEF Wanted, DeclaredFor, Declared
<1>2. ~(now > rollout + Overlap)
  BY <1>1 DEF RolloutInv, OneDeploy, Up
<1>3. /\ now \in Nat /\ rollout \in Nat
      /\ HandlerGrace \in Nat /\ Overlap \in Nat /\ Overlap < HandlerGrace
  BY Numbers DEF RolloutInv, ClocksBehind
<1> QED BY <1>2, <1>3

(* Abandonment.                                                            *)
LEMMA AbandonedKept ==
  ASSUME RolloutInv, [LoopNext]_loopVars
  PROVE  NoneAbandoned'
<1> SUFFICES ASSUME NEW e \in Events, NEW n \in Names, Wanted(e, n),
                    delivery'[<<e, n>>].status = "abandoned"
             PROVE  FALSE
  BY DEF NoneAbandoned, Wanted
<1> DEFINE d == <<e, n>>
<1>1. IInv /\ [Next]_vars
  BY LoopSteps DEF RolloutInv
<1>2. d \in Deliveries /\ d[1] = e /\ d[2] = n
  BY DEF Deliveries
<1>3. RowChange(d) /\ delivery[d].status # "abandoned"
  BY <1>1, <1>2, EveryChange DEF RolloutInv, NoneAbandoned
<1> HIDE DEF d
<1>4. delivery'[d].status = "abandoned"
  BY DEF d
<1>5. PICK r \in Relays :
        /\ Present(d) /\ pc[r] = "batch" /\ d = Current(r).row /\ ~HandlerHere(r)
        /\ Older(delivery[d].created, HandlerGrace, now)
  BY <1>3, <1>4, MadeFacts DEF RowChange
<1>6. n \notin DeclaredFor(r, e)
  BY <1>2, <1>5 DEF HandlerHere
<1>7. Added(e, n)
  <2>1. release[r] \in Releases /\ <<TypeOf[e], n>> \notin Declares[release[r]]
    BY <1>1, <1>6 DEF DeclaredFor, Declared, IInv, Memory
  <2> QED BY <2>1, RolloutAssumption DEF Added, Wanted
<1>8. rollout # 0 /\ rollout <= delivery[d].created
  BY <1>5, <1>7 DEF RolloutInv, AddedLate, d
<1>9. delivery[d].created \in Nat
  BY <1>1, <1>2, Numbers
<1> QED BY <1>5, <1>6, <1>8, <1>9, OldReplica DEF Older

(* An event that is completing was so before, or has just been chosen.     *)
LEMMA CompletingBefore ==
  ASSUME IInv, [Next]_vars, NEW e \in Events, Completing(e)'
  PROVE  /\ parent[e].status # "absent" /\ parent'[e].status # "purged"
         /\ parent'[e].created = parent[e].created
         /\ Completing(e) \/ \E r \in Relays : NewlyChosen(r, e)
<1>1. ParentStep(e)
  BY EveryStepFacts DEF StepFacts, TableStep
<1>2. CASE parent'[e].status = "dispatched"
  BY <1>1, <1>2 DEF ParentStep, Completing
<1>3. ASSUME parent'[e].status # "purged", NEW r \in Relays, e \in chosen'[r]
      PROVE  /\ parent[e].status # "absent"
             /\ parent'[e].created = parent[e].created
             /\ Completing(e) \/ NewlyChosen(r, e)
  <2>1. CASE e \in chosen[r]
    <3>1. parent[e].status # "absent"
      BY <2>1 DEF IInv, ChosenCovered
    <3>2. parent[e].status # "purged" /\ parent'[e].created = parent[e].created
      BY <1>1, <1>3, <3>1 DEF ParentStep
    <3> QED BY <2>1, <3>1, <3>2 DEF Completing
  <2>2. CASE NewlyChosen(r, e)
    BY <2>2 DEF NewlyChosen, table
  <2>3. CASE parent[e].status = "dispatched" /\ UNCHANGED parent
    BY <2>3 DEF Completing
  <2> QED BY <1>3, <2>1, <2>2, <2>3, EveryChoice
<1> QED BY <1>2, <1>3 DEF Completing

(* What has just been chosen is past its grace.                            *)
LEMMA ChosenOld ==
  ASSUME RolloutInv, NEW r \in Relays, NEW e \in Events, NewlyChosen(r, e)
  PROVE  parent[e].created + HandlerGrace <= now
<1>1. PICK clock \in {now, at[r]} : parent[e].created + HandlerGrace <= clock
  BY DEF NewlyChosen, Older
<1>2. /\ at[r] <= now /\ at[r] \in Nat /\ now \in Nat
      /\ parent[e].created \in Nat /\ HandlerGrace \in Nat
  BY Numbers DEF RolloutInv, ClocksBehind
<1> QED BY <1>1, <1>2

(* The grace of completed events.                                          *)
LEMMA OldKept ==
  ASSUME RolloutInv, [LoopNext]_loopVars
  PROVE  CompletedOld'
<1> SUFFICES ASSUME NEW e \in Events, Completing(e)'
             PROVE  parent'[e].created + HandlerGrace <= now'
  BY DEF CompletedOld
<1>1. IInv /\ [Next]_vars
  BY LoopSteps DEF RolloutInv
<1>2. /\ parent'[e].created = parent[e].created
      /\ Completing(e) \/ \E r \in Relays : NewlyChosen(r, e)
  BY <1>1, CompletingBefore
<1>3. parent[e].created + HandlerGrace <= now
  BY <1>2, ChosenOld DEF RolloutInv, CompletedOld
<1>4. parent[e].created \in Nat /\ HandlerGrace \in Nat /\ now \in Nat
  BY <1>1, Numbers
<1> QED BY <1>2, <1>3, <1>4, RolloutSet

(* Their deliveries.                                                       *)
LEMMA CoveredStays ==
  ASSUME RolloutInv, [LoopNext]_loopVars
  PROVE  CompletedCovered'
<1> SUFFICES ASSUME NEW e \in Events, NEW n \in Names, Completing(e)', rollout' # 0,
                    rollout' <= parent'[e].created, Wanted(e, n)
             PROVE  (Present(<<e, n>>) \/ PastRetention(e))'
  BY DEF CompletedCovered, Wanted
<1>1. IInv /\ [Next]_vars
  BY LoopSteps DEF RolloutInv
<1>2. /\ parent[e].status # "absent" /\ parent'[e].status # "purged"
      /\ parent'[e].created = parent[e].created
      /\ Completing(e) \/ \E r \in Relays : NewlyChosen(r, e)
  BY <1>1, CompletingBefore
<1>3. parent[e].created + HandlerGrace <= now
  BY <1>2, ChosenOld DEF RolloutInv, CompletedOld
<1>4. /\ parent[e].created \in Nat /\ now \in Nat
      /\ HandlerGrace \in Nat /\ Overlap \in Nat /\ Overlap < HandlerGrace
  BY <1>1, Numbers
<1>5. rollout' = rollout
  <2>1. rollout' # now
    BY <1>2, <1>3, <1>4
  <2> QED BY <2>1, RolloutSet
<1>6. Present(<<e, n>>) \/ PastRetention(e)
  <2>1. CASE Completing(e)
    BY <1>2, <1>5, <2>1 DEF RolloutInv, CompletedCovered
  <2>2. ASSUME NEW r \in Relays, NewlyChosen(r, e) PROVE Present(<<e, n>>)
    <3>1. n \in DeclaredFor(r, e)
      BY <1>2, <1>3, <1>4, <1>5, <2>2, OldReplica DEF NewlyChosen
    <3> QED BY <2>2, <3>1 DEF NewlyChosen
  <2> QED BY <1>2, <2>1, <2>2
<1>7. TableStep
  BY <1>1, EveryStepFacts DEF StepFacts
<1> QED BY <1>1, <1>2, <1>6, <1>7, RolloutSet, CoverKept

-----------------------------------------------------------------------------
(* The theorem.                                                            *)

(* At the start nothing is up and nothing is staged ...                    *)
LEMMA RolloutInit == LoopInit => RolloutInv
<1> SUFFICES ASSUME LoopInit PROVE RolloutInv
  OBVIOUS
<1>1. IInv
  BY InitHolds DEF LoopInit
<1>2. /\ now = 1 /\ rollout = 0
      /\ \A r \in Relays : at[r] = 0 /\ pc[r] = "down" /\ adding[r] = {} /\ chosen[r] = {}
      /\ \A d \in Deliveries : delivery[d].status = "none"
      /\ \A e \in Events : parent[e].status = "absent"
  BY DEF LoopInit, Init, NoDelivery, NoParent
<1>3. \A e \in Events, n \in Names : <<e, n>> \in Deliveries
  BY DEF Deliveries
<1>4. ClocksBehind /\ OneDeploy /\ ExpandsLate /\ AddsDeclared
  BY <1>2 DEF ClocksBehind, OneDeploy, Up, ExpandsLate, Expanding, AddsDeclared
<1>5. AddedLate /\ NoneAbandoned
  BY <1>2, <1>3 DEF AddedLate, NoneAbandoned, Present
<1>6. CompletedOld /\ CompletedCovered
  BY <1>2 DEF CompletedOld, CompletedCovered, Completing
<1> QED BY <1>1, <1>4, <1>5, <1>6 DEF RolloutInv

(* ... and every step of the loop keeps the invariant.                     *)
LEMMA RolloutInductive == RolloutInv /\ [LoopNext]_loopVars => RolloutInv'
<1> SUFFICES ASSUME RolloutInv, [LoopNext]_loopVars PROVE RolloutInv'
  OBVIOUS
<1>1. IInv' /\ AddsDeclared'
  BY LoopSteps, IInvInductive, AddsKept DEF RolloutInv
<1> QED BY <1>1, ClocksKept, DeployKept, ExpandsKept, AddedKept, AbandonedKept,
           OldKept, CoveredStays DEF RolloutInv

(* A consumer that a release adds misses no event staged since a replica   *)
(* of it is up, and none of its deliveries is abandoned by a replica that  *)
(* does not know it, while the overlap is shorter than the grace.          *)
THEOREM RolloutLosesNothingHolds == LoopSpec => []RolloutLosesNothing
<1>1. RolloutInv => RolloutLosesNothing
  <2> SUFFICES ASSUME RolloutInv, rollout # 0, NEW e \in Events, NEW n \in Names,
                      <<TypeOf[e], n>> \in Declares[Newest]
               PROVE  /\ delivery[<<e, n>>].status # "abandoned"
                      /\ parent[e].status = "dispatched" /\ parent[e].created >= rollout =>
                           Present(<<e, n>>) \/ PastRetention(e)
    BY DEF RolloutLosesNothing
  <2>1. Wanted(e, n)
    BY DEF Wanted
  <2>2. parent[e].created >= rollout => rollout <= parent[e].created
    BY Numbers DEF RolloutInv, ClocksBehind
  <2> QED BY <2>1, <2>2 DEF RolloutInv, NoneAbandoned, CompletedCovered, Completing
<1> QED BY <1>1, RolloutInit, RolloutInductive, PTL DEF LoopSpec
=============================================================================
