------------------------- MODULE DBQueueRunsProofs -------------------------
(***************************************************************************)
(* More about DBQueue: who runs, how often, that no claim is stranded, and *)
(* what the retry delay of core/backoff comes to.                          *)
(* Rests on the inductive invariant of DBQueueProofs.                      *)
(***************************************************************************)
EXTENDS DBQueueProofs, DBQueueBackoff, FiniteSetTheorems, WellFoundedInduction

(* A worker polls for types that have a handler, and handlers stay.        *)
PollsHandled ==
  \A w \in Workers : pc[w] \in {"sweep", "claim"} => types[w] \subseteq handlers

(* Nobody polls at the start.                                              *)
LEMMA HandledInit == Init => PollsHandled /\ NeverDropped
BY DEF Init, PollsHandled, NeverDropped, Actors

(* A worker is never handed a job that it has no handler for.              *)
LEMMA HandledStep ==
  ASSUME Base, PollsHandled, NeverDropped, [Next]_vars
  PROVE  PollsHandled' /\ NeverDropped'
<1> USE DEF PollsHandled, NeverDropped
<1>0. /\ MemoryOK /\ Workers \subseteq Actors /\ Consumers \subseteq Actors
      /\ Consumers \cap Workers = {}
  BY ConstantsAssumption DEF Base, TypeOK, Actors
<1>1. ASSUME NEW a \in Actors, Poll(a) PROVE PollsHandled' /\ NeverDropped'
  BY <1>0, <1>1 DEF Poll, MemoryOK, EligibleTypes, config
<1>2. ASSUME NEW a \in Actors, Claim(a) PROVE PollsHandled' /\ NeverDropped'
  <2>1. PICK k \in Candidates(a) : job' = [job EXCEPT ![a] = k]
    BY <1>2 DEF Claim
  <2>2. JobType[k] \in types[a]
    BY DEF Candidates, First, EligibleWhere
  <2> QED
    BY <1>0, <1>2, <2>1, <2>2 DEF Claim, MemoryOK, config
<1>3. ASSUME NEW a \in Actors, NEW p \in {"idle", "stopped"}, Forget(a, p),
             handlers' = handlers
      PROVE  PollsHandled' /\ NeverDropped'
  BY <1>0, <1>3 DEF Forget, MemoryOK
<1>4. ASSUME NEW a \in Actors, Settled(a), handlers' = handlers
      PROVE  PollsHandled' /\ NeverDropped'
  <2>1. CASE a \in Workers
    BY <1>3, <1>4, <2>1 DEF Settled
  <2>2. CASE a \notin Workers
    BY <1>0, <1>4, <2>2 DEF Settled, MemoryOK
  <2> QED
    BY <2>1, <2>2
<1>5. ASSUME \/ \E a \in Actors : ClaimNone(a) \/ Crash(a) \/ DequeueFails(a) \/ ClaimLost(a)
             \/ \E w \in Workers : HandBack(w) \/ SettleFails(w)
      PROVE  PollsHandled' /\ NeverDropped'
  BY <1>0, <1>3, <1>5 DEF ClaimNone, Crash, DequeueFails, ClaimLost, HandBack,
                          SettleFails, config
<1>6. ASSUME NEW a \in Actors, Ack(a) \/ Nack(a) \/ NackWrite(a)
      PROVE  PollsHandled' /\ NeverDropped'
  BY <1>4, <1>6 DEF Ack, Nack, NackWrite, config
<1>7. ASSUME NEW a \in Actors, NackRead(a) PROVE PollsHandled' /\ NeverDropped'
  <2>1. CASE Settled(a)
    BY <1>4, <1>7, <2>1 DEF NackRead, config
  <2>2. CASE ~Settled(a)
    BY <1>0, <1>7, <2>2 DEF NackRead, MemoryOK, config
  <2> QED
    BY <2>1, <2>2
<1>8. ASSUME \/ \E a \in Actors : PruneDone(a)
             \/ \E w \in Workers : Begin(w) \/ Return(w) \/ TimeOut(w) \/ Exit(w)
                                   \/ Start(w)
      PROVE  PollsHandled' /\ NeverDropped'
  BY <1>0, <1>8 DEF PruneDone, Begin, Return, TimeOut, Exit, Start, volatile,
                    config, MemoryOK
<1>9. ASSUME \/ \E j \in Jobs : Enqueue(j) \/ Replay(j)
             \/ \E u \in Users : SweepUserJobs(u)
             \/ \E t \in Types : RegisterHandler(t)
             \/ \E G \in Gates : SetGate(G)
             \/ \E d \in Leases : SetLeaseTimeout(d)
             \/ \E a \in Actors : SweepOne(a)
             \/ \E w \in Workers : \E how \in Signals : Shutdown(w, how)
             \/ Tick
             \/ UNCHANGED vars
      PROVE  PollsHandled' /\ NeverDropped'
  <2>1. UNCHANGED <<pc, job, types>> /\ handlers \subseteq handlers'
    BY <1>9 DEF Enqueue, Replay, SweepUserJobs, RegisterHandler, SetGate,
                SetLeaseTimeout, SweepOne, Shutdown, Tick, vars, volatile, config
  <2> QED
    BY <2>1
<1> QED
  BY <1>0, <1>1, <1>2, <1>5, <1>6, <1>7, <1>8, <1>9
  DEF Next, WorkerStep, Dequeue, Complete

(* The worker loop's branch for a job without a handler, which would drop  *)
(* the row, is dead code: whatever handlers are registered and whatever    *)
(* gates close meanwhile, a worker only claims what it can run.            *)
THEOREM NeverDroppedHolds == Spec => []NeverDropped
<1>1. Base /\ PollsHandled /\ NeverDropped /\ [Next]_vars
        => Base' /\ PollsHandled' /\ NeverDropped'
  BY BaseStep, HandledStep
<1> QED
  BY <1>1, InitBase, HandledInit, PTL DEF Spec

-----------------------------------------------------------------------------
(* The row of a claim nobody settled in this step: its holder still has    *)
(* it, or the holder is gone, which is a failure.                          *)
LEMMA HolderStays ==
  ASSUME Base, [Next]_vars, faults' = 0, NEW b \in Actors, Engaged(b), Holds(b),
         rows'[job[b]].status = "claimed"
  PROVE  Engaged(b)' /\ job'[b] = job[b] /\ token'[b] = token[b]
<1> DEFINE Stays == Engaged(b)' /\ job'[b] = job[b] /\ token'[b] = token[b]
<1>0. /\ MemoryOK /\ RowsOK /\ Workers \subseteq Actors /\ Consumers \subseteq Actors
      /\ Consumers \cap Workers = {} /\ faults \in Nat /\ Row(b) \in RowType
      /\ job[b] \in Jobs
  BY ConstantsAssumption, RowOfEngaged DEF Base, TypeOK, AuxOK, Actors
<1>1. ~Fault
  BY <1>0 DEF Fault
<1>2. ASSUME NEW r, r.status # "claimed", Settle(b, r)
      PROVE  FALSE
  BY <1>0, <1>2 DEF Settle, RowsOK
<1>3. ASSUME NEW a \in Actors \ {b}, (\E p : Forget(a, p)) \/ Settled(a)
      PROVE  Stays
  BY <1>0, <1>3 DEF Forget, Settled, MemoryOK, Engaged
<1>4. ASSUME NEW a \in Actors, Ack(a) PROVE Stays
  BY <1>0, <1>2, <1>3, <1>4, SettlesUnclaim DEF Ack
<1>5. ASSUME NEW a \in Actors, Nack(a) PROVE Stays
  <2>1. CASE a = b
    <3>1. Row(b).delay \in Nat
      BY <1>0 DEF RowType
    <3> QED
      BY <1>0, <1>2, <1>5, <2>1, <3>1, SettlesUnclaim DEF Nack
  <2>2. CASE a # b
    BY <1>3, <1>5, <2>2 DEF Nack
  <2> QED
    BY <2>1, <2>2
<1>6. ASSUME NEW a \in Actors, NackWrite(a) PROVE Stays
  <2>1. CASE a = b
    <3>1. /\ DeadLettered(Row(b)).status # "claimed"
          /\ Requeued(Row(b), BackoffDelay(seen[b])).status # "claimed"
      BY <1>0 DEF DeadLettered, Requeued, RowType
    <3> QED
      BY <1>0, <1>2, <1>6, <2>1, <3>1 DEF NackWrite
  <2>2. CASE a # b
    BY <1>3, <1>6, <2>2 DEF NackWrite
  <2> QED
    BY <2>1, <2>2
<1>7. ASSUME NEW w \in Workers, HandBack(w) PROVE Stays
  BY <1>0, <1>2, <1>3, <1>7, SettlesUnclaim DEF HandBack
<1>8. ASSUME NEW a \in Actors, NackRead(a) PROVE Stays
  <2>1. CASE a = b
    <3>1. Row(b).token = token[b]
      BY DEF Holds, Row
    <3> QED
      BY <1>0, <1>8, <2>1, <3>1 DEF NackRead, MemoryOK, Engaged
  <2>2. CASE a # b /\ Settled(a)
    BY <1>3, <2>2
  <2>3. CASE a # b /\ ~Settled(a)
    BY <1>0, <1>8, <2>3 DEF NackRead, MemoryOK, Engaged
  <2> QED
    BY <2>1, <2>2, <2>3
<1>9. ASSUME NEW a \in Actors, ClaimNone(a) \/ DequeueFails(a) PROVE Stays
  BY <1>3, <1>9 DEF ClaimNone, DequeueFails, Engaged
<1>10. ASSUME NEW a \in Actors, Claim(a) PROVE Stays
  BY <1>0, <1>10 DEF Claim, MemoryOK, Engaged
<1>11. ~(\E a \in Actors : Crash(a) \/ ClaimLost(a)) /\ ~(\E w \in Workers : SettleFails(w))
  BY <1>1 DEF Crash, ClaimLost, SettleFails
<1>12. ASSUME \/ \E a \in Actors : Poll(a) \/ PruneDone(a)
              \/ \E w \in Workers : Begin(w) \/ Return(w) \/ TimeOut(w) \/ Exit(w)
                                    \/ Start(w)
       PROVE  Stays
  BY <1>0, <1>12 DEF Poll, PruneDone, Begin, Return, TimeOut, Exit, Start, volatile,
                     MemoryOK, Engaged
<1>13. ASSUME \/ \E j \in Jobs : Enqueue(j) \/ Replay(j)
              \/ \E u \in Users : SweepUserJobs(u)
              \/ \E t \in Types : RegisterHandler(t)
              \/ \E G \in Gates : SetGate(G)
              \/ \E d \in Leases : SetLeaseTimeout(d)
              \/ \E a \in Actors : SweepOne(a)
              \/ \E w \in Workers : \E how \in Signals : Shutdown(w, how)
              \/ Tick
              \/ UNCHANGED vars
       PROVE  Stays
  <2>1. UNCHANGED <<pc, job, token>>
    BY <1>13 DEF Enqueue, Replay, SweepUserJobs, RegisterHandler, SetGate,
                 SetLeaseTimeout, SweepOne, Shutdown, Tick, vars, volatile
  <2> QED
    BY <2>1 DEF Engaged
<1> HIDE DEF Stays
<1>14. Stays
  BY <1>0, <1>4, <1>5, <1>6, <1>7, <1>8, <1>9, <1>10, <1>11, <1>12, <1>13
  DEF Next, WorkerStep, Dequeue, Complete
<1> QED
  BY <1>14 DEF Stays

(* Without faults a claimed row has a claimant that remembers it.          *)
LEMMA HolderStep ==
  ASSUME IInv, ClaimedHasHolder, [Next]_vars
  PROVE  ClaimedHasHolder'
<1> SUFFICES ASSUME faults' = 0, NEW j \in Jobs, rows'[j].status = "claimed"
             PROVE  \E a \in Actors : /\ Engaged(a)' /\ job'[a] = j
                                      /\ token'[a] = rows'[j].token
  BY ConstantsAssumption DEF ClaimedHasHolder, Holds
<1>0. /\ Base /\ RowsOK /\ MemoryOK /\ TableStep /\ faults \in Nat
  BY NextIsTableStep DEF IInv, Base, TypeOK, AuxOK
<1>1. faults = 0 /\ ~Fault
  <2>1. faults' \in {faults, faults + 1}
    BY DEF Next, vars, Enqueue, Replay, SweepUserJobs, RegisterHandler, SetGate,
       SetLeaseTimeout, WorkerStep, Dequeue, Complete, Poll, SweepOne, PruneDone,
       Claim, ClaimNone, HandBack, Begin, Return, TimeOut, Ack, Nack, NackRead,
       NackWrite, Exit, Start, SettleFails, Shutdown, Crash, DequeueFails, ClaimLost,
       Tick, Fault, aux
  <2> QED
    BY <1>0, <2>1 DEF Fault
<1>2. ASSUME rows[j].status = "claimed", rows'[j].token = rows[j].token
      PROVE  \E a \in Actors : /\ Engaged(a)' /\ job'[a] = j
                               /\ token'[a] = rows'[j].token
  <2>1. PICK b \in Actors : Engaged(b) /\ job[b] = j /\ Holds(b)
    BY <1>1, <1>2 DEF ClaimedHasHolder
  <2> QED
    BY <1>0, <1>2, <2>1, HolderStays DEF Holds
<1>3. CASE SameClaimAged(j)
  BY <1>2, <1>3 DEF SameClaimAged
<1>4. CASE FreshClaim(j)
  <2>1. PICK a \in Actors : Claim(a)
    BY <1>1, <1>4 DEF FreshClaim, ClaimLost
  <2>2. PICK k \in Candidates(a) : ClaimRow(k) /\ job' = [job EXCEPT ![a] = k]
    BY <2>1 DEF Claim
  <2>3. k \in Jobs
    BY DEF Candidates, First
  <2>4. CASE j = k
    <3>1. rows'[j].token = FreshToken /\ job'[a] = j /\ token'[a] = FreshToken
      BY <1>0, <1>4, <2>1, <2>2, <2>3, <2>4 DEF FreshClaim, Claimed, Claim, MemoryOK
    <3>2. Engaged(a)'
      BY <1>0, <2>1 DEF Claim, Engaged, MemoryOK
    <3> QED
      BY <3>1, <3>2
  <2>5. CASE j # k
    <3>1. rows'[j] = rows[j]
      BY <1>0, <2>2, <2>5 DEF ClaimRow, RowsOK
    <3> QED
      BY <1>2, <3>1
  <2> QED
    BY <2>4, <2>5
<1> QED
  BY <1>0, <1>3, <1>4, ClaimOrigin

(* While no statement fails and no process dies, every row in 'claimed'    *)
(* has an actor that holds its token and is on its way to settle it:       *)
(* shutdowns, closed gates, takeovers and replays strand nothing, so the   *)
(* lease is only ever needed for failures.                                 *)
THEOREM ClaimedHasHolderHolds == Spec => []ClaimedHasHolder
<1>1. Init => ClaimedHasHolder
  BY DEF Init, ClaimedHasHolder, NoRow
<1>2. IInv /\ ClaimedHasHolder /\ [Next]_vars => ClaimedHasHolder'
  BY HolderStep
<1> QED
  BY <1>1, <1>2, Invariance, PTL DEF Spec

-----------------------------------------------------------------------------
(***************************************************************************)
(* RunsBounded is not inductive: a claim is a run to come, and an attempt  *)
(* left is a claim to come.  What is inductive is the sum of the runs that *)
(* began, the claims whose run has not begun and the attempts left.        *)
(***************************************************************************)
ToStart(j) == {w \in Workers : pc[w] = "claimed" /\ job[w] = j}

Left(j) ==
  IF rows[j].status \in {"pending", "claimed"} THEN JobMax[j] - rows[j].attempts
  ELSE 0

RunsAccounted ==
  \A j \in Jobs :
    starts[j] + Cardinality(ToStart(j)) + Left(j) <= JobMax[j] * resets[j]

(* What a step may do to the three terms and to what pays for them.        *)
NothingMore(j) ==
  /\ Left(j)' <= Left(j) /\ ToStart(j)' \subseteq ToStart(j)
  /\ starts'[j] = starts[j] /\ resets'[j] = resets[j]

Recharged(j) ==
  /\ Left(j)' <= Left(j) + JobMax[j] /\ ToStart(j)' \subseteq ToStart(j)
  /\ starts'[j] = starts[j] /\ resets'[j] = resets[j] + 1

ClaimedByWorker(j) ==
  /\ Left(j)' = Left(j) - 1 /\ \E w \in Workers : ToStart(j)' \subseteq ToStart(j) \cup {w}
  /\ starts'[j] = starts[j] /\ resets'[j] = resets[j]

HandedOut(j) ==
  /\ Left(j)' = Left(j) - 1 /\ ToStart(j)' \subseteq ToStart(j)
  /\ starts'[j] = starts[j] + 1 /\ resets'[j] = resets[j]

GivenBack(j) ==
  /\ Left(j)' <= Left(j) + 1 /\ \E w \in ToStart(j) : ToStart(j)' \subseteq ToStart(j) \ {w}
  /\ starts'[j] = starts[j] /\ resets'[j] = resets[j]

Begun(j) ==
  /\ Left(j)' <= Left(j) /\ \E w \in ToStart(j) : ToStart(j)' \subseteq ToStart(j) \ {w}
  /\ starts'[j] = starts[j] + 1 /\ resets'[j] = resets[j]

RunStep(j) ==
  \/ NothingMore(j) \/ Recharged(j) \/ ClaimedByWorker(j) \/ HandedOut(j)
  \/ GivenBack(j) \/ Begun(j)

(* The claims still to start are counted by a number.                      *)
LEMMA ToStartFinite ==
  ASSUME NEW j
  PROVE  IsFiniteSet(ToStart(j)) /\ Cardinality(ToStart(j)) \in Nat
BY ConstantsAssumption, FS_Subset, FS_CardinalityType DEF ToStart

(* Each kind of step keeps the account.                                    *)
LEMMA RunStepKeeps ==
  ASSUME NEW j \in Jobs, RunStep(j), IsFiniteSet(ToStart(j)'),
         starts[j] \in Nat, resets[j] \in Nat, Left(j) \in Nat, Left(j)' \in Nat,
         starts[j] + Cardinality(ToStart(j)) + Left(j) <= JobMax[j] * resets[j]
  PROVE  starts'[j] + Cardinality(ToStart(j)') + Left(j)' <= JobMax[j] * resets'[j]
<1> DEFINE S == ToStart(j)
           T == ToStart(j)'
           m == JobMax[j]
           c == Cardinality(S)
           d == Cardinality(T)
<1>0. m \in Nat /\ m * resets[j] \in Nat /\ m * (resets[j] + 1) = m * resets[j] + m
  BY ConstantsAssumption
<1>1. IsFiniteSet(S) /\ c \in Nat
  BY ToStartFinite
<1>2. d \in Nat
  BY FS_CardinalityType
<1>3. T \subseteq S => d <= c
  BY <1>1, FS_Subset
<1>4. ASSUME NEW w, T \subseteq S \cup {w} PROVE d <= c + 1
  <2>1. IsFiniteSet(S \cup {w}) /\ Cardinality(S \cup {w}) <= c + 1
    BY <1>1, FS_AddElement
  <2>2. d <= Cardinality(S \cup {w}) /\ Cardinality(S \cup {w}) \in Nat
    BY <1>4, <2>1, FS_Subset, FS_CardinalityType
  <2> QED
    BY <1>1, <1>2, <2>1, <2>2
<1>5. ASSUME NEW w \in S, T \subseteq S \ {w} PROVE d + 1 <= c
  <2>1. IsFiniteSet(S \ {w}) /\ Cardinality(S \ {w}) = c - 1
    BY <1>1, FS_RemoveElement
  <2>2. d <= Cardinality(S \ {w})
    BY <1>5, <2>1, FS_Subset
  <2> QED
    BY <1>1, <1>2, <2>1, <2>2
<1>6. CASE NothingMore(j)
  <2>1. d <= c /\ Left(j)' <= Left(j) /\ starts'[j] = starts[j] /\ resets'[j] = resets[j]
    BY <1>3, <1>6 DEF NothingMore
  <2> QED
    BY <1>0, <1>1, <1>2, <2>1
<1>7. CASE Recharged(j)
  <2>1. /\ d <= c /\ Left(j)' <= Left(j) + m /\ starts'[j] = starts[j]
        /\ resets'[j] = resets[j] + 1
    BY <1>3, <1>7 DEF Recharged
  <2> QED
    BY <1>0, <1>1, <1>2, <2>1
<1>8. CASE ClaimedByWorker(j)
  <2>1. /\ d <= c + 1 /\ Left(j)' = Left(j) - 1 /\ starts'[j] = starts[j]
        /\ resets'[j] = resets[j]
    BY <1>4, <1>8 DEF ClaimedByWorker
  <2> QED
    BY <1>0, <1>1, <1>2, <2>1
<1>9. CASE HandedOut(j)
  <2>1. /\ d <= c /\ Left(j)' = Left(j) - 1 /\ starts'[j] = starts[j] + 1
        /\ resets'[j] = resets[j]
    BY <1>3, <1>9 DEF HandedOut
  <2> QED
    BY <1>0, <1>1, <1>2, <2>1
<1>10. CASE GivenBack(j)
  <2>1. /\ d + 1 <= c /\ Left(j)' <= Left(j) + 1 /\ starts'[j] = starts[j]
        /\ resets'[j] = resets[j]
    BY <1>5, <1>10 DEF GivenBack
  <2> QED
    BY <1>0, <1>1, <1>2, <2>1
<1>11. CASE Begun(j)
  <2>1. /\ d + 1 <= c /\ Left(j)' <= Left(j) /\ starts'[j] = starts[j] + 1
        /\ resets'[j] = resets[j]
    BY <1>5, <1>11 DEF Begun
  <2> QED
    BY <1>0, <1>1, <1>2, <2>1
<1> QED
  BY <1>6, <1>7, <1>8, <1>9, <1>10, <1>11 DEF RunStep

(* A budget is never overdrawn.                                            *)
LEMMA LeftIsNat ==
  ASSUME RowsOK, AttemptBudget, NEW j \in Jobs
  PROVE  Left(j) \in Nat
BY ConstantsAssumption DEF RowsOK, RowType, AttemptBudget, Left

(* Every step is one of those, for every job.                              *)
LEMMA NextIsRunStep ==
  ASSUME IInv, [Next]_vars, NEW j \in Jobs
  PROVE  RunStep(j)
<1>0. /\ Base /\ RowsOK /\ MemoryOK /\ AuxOK /\ AttemptBudget
      /\ Workers \subseteq Actors /\ Consumers \subseteq Actors
      /\ Consumers \cap Workers = {}
      /\ rows[j] \in RowType /\ rows[j].attempts \in Nat /\ JobMax[j] \in Nat
      /\ starts[j] \in Nat /\ resets[j] \in Nat /\ Left(j) \in Nat
  BY ConstantsAssumption, LeftIsNat
  DEF IInv, Base, TypeOK, AuxOK, Actors, RowsOK, RowType
<1>1. ASSUME rows'[j] = rows[j], ToStart(j)' \subseteq ToStart(j),
             starts'[j] = starts[j], resets'[j] = resets[j]
      PROVE  RunStep(j)
  BY <1>0, <1>1 DEF RunStep, NothingMore, Left
<1>2. ASSUME NEW k \in Jobs, Enqueue(k) PROVE RunStep(j)
  <2>1. ToStart(j)' = ToStart(j) /\ starts'[j] = starts[j]
    BY <1>2 DEF Enqueue, ToStart, volatile
  <2>2. CASE k = j
    <3>1. rows'[j].attempts = 0 /\ resets'[j] = resets[j] + 1
      BY <1>0, <1>2, <2>2 DEF Enqueue, RowsOK, NoRow, AuxOK
    <3>2. Left(j)' <= Left(j) + JobMax[j]
      BY <1>0, <3>1 DEF Left
    <3> QED
      BY <2>1, <3>1, <3>2 DEF RunStep, Recharged
  <2>3. CASE k # j
    BY <1>0, <1>1, <1>2, <2>1, <2>3 DEF Enqueue, RowsOK, AuxOK
  <2> QED
    BY <2>2, <2>3
<1>3. ASSUME NEW k \in Jobs, Replay(k) PROVE RunStep(j)
  <2>1. ToStart(j)' = ToStart(j) /\ starts'[j] = starts[j]
    BY <1>3 DEF Replay, ToStart, volatile
  <2>2. CASE k = j
    <3>1. rows'[j].attempts = 0 /\ resets'[j] = resets[j] + 1
      BY <1>0, <1>3, <2>2 DEF Replay, RowsOK, RowType, Requeued, AuxOK
    <3>2. Left(j)' <= Left(j) + JobMax[j]
      BY <1>0, <3>1 DEF Left
    <3> QED
      BY <2>1, <3>1, <3>2 DEF RunStep, Recharged
  <2>3. CASE k # j
    BY <1>0, <1>1, <1>3, <2>1, <2>3 DEF Replay, RowsOK, AuxOK
  <2> QED
    BY <2>2, <2>3
<1>4. ASSUME NEW u \in Users, SweepUserJobs(u) PROVE RunStep(j)
  BY <1>0, <1>4
  DEF SweepUserJobs, ToStart, volatile, aux, RunStep, NothingMore, Left, NoRow
<1>5. ASSUME NEW a \in Actors, PruneDone(a) PROVE RunStep(j)
  <2>1. ToStart(j)' = ToStart(j)
    BY <1>0, <1>5 DEF PruneDone, ToStart, volatile, MemoryOK
  <2> QED
    BY <1>0, <1>5, <2>1 DEF PruneDone, aux, RunStep, NothingMore, Left, NoRow
<1>6. ASSUME NEW a \in Actors, SweepOne(a) PROVE RunStep(j)
  <2>1. ToStart(j)' = ToStart(j) /\ starts' = starts /\ resets' = resets
    BY <1>6 DEF SweepOne, ToStart, aux
  <2>2. rows'[j] = rows[j] \/ rows'[j] = DeadLettered(rows[j])
    BY <1>0, <1>6 DEF SweepOne, RowsOK
  <2>3. DeadLettered(rows[j]).status = "failed"
    BY <1>0 DEF DeadLettered, RowType
  <2> QED
    BY <1>0, <2>1, <2>2, <2>3 DEF RunStep, NothingMore, Left
<1>7. ASSUME NEW a \in Actors, NEW k \in Candidates(a), ClaimRow(k)
      PROVE  /\ k \in Jobs
             /\ k = j => Left(j)' = Left(j) - 1
             /\ k # j => rows'[j] = rows[j]
  <2>1. k \in Jobs /\ EligibleWhere(a, k)
    BY DEF Candidates, First
  <2>2. rows[k].status \in {"pending", "claimed"} /\ rows'[k] = Claimed(rows[k])
    BY <1>0, <1>7, <2>1 DEF EligibleWhere, Expired, ClaimRow, RowsOK
  <2>3. k = j => Left(j)' = Left(j) - 1
    BY <1>0, <2>2 DEF Left, Claimed
  <2> QED
    BY <1>0, <1>7, <2>1, <2>3 DEF ClaimRow, RowsOK
<1>8. ASSUME NEW a \in Actors, Claim(a) PROVE RunStep(j)
  <2>1. PICK k \in Candidates(a) :
          /\ ClaimRow(k) /\ job' = [job EXCEPT ![a] = k]
          /\ starts' = IF a \in Workers THEN starts ELSE [starts EXCEPT ![k] = @ + 1]
    BY <1>8 DEF Claim
  <2>2. /\ k \in Jobs
        /\ k = j => Left(j)' = Left(j) - 1
        /\ k # j => rows'[j] = rows[j]
    BY <1>7, <2>1
  <2>3. resets' = resets
    BY <1>8 DEF Claim
  <2>4. \A w \in Workers \ {a} : pc'[w] = pc[w] /\ job'[w] = job[w]
    BY <1>0, <1>8, <2>1 DEF Claim, MemoryOK
  <2>5. ToStart(j)' \subseteq ToStart(j) \cup {a}
    BY <2>4 DEF ToStart
  <2>6. k # j \/ a \notin Workers => ToStart(j)' \subseteq ToStart(j)
    BY <1>0, <2>1, <2>2, <2>4 DEF ToStart, MemoryOK
  <2>7. CASE k = j /\ a \in Workers
    BY <2>1, <2>2, <2>3, <2>5, <2>7 DEF RunStep, ClaimedByWorker
  <2>8. CASE k = j /\ a \notin Workers
    <3>1. starts'[j] = starts[j] + 1
      BY <1>0, <2>1, <2>2, <2>8 DEF AuxOK
    <3> QED
      BY <2>2, <2>3, <2>6, <2>8, <3>1 DEF RunStep, HandedOut
  <2>9. CASE k # j
    <3>1. starts'[j] = starts[j]
      BY <1>0, <2>1, <2>2, <2>9 DEF AuxOK
    <3> QED
      BY <1>1, <2>2, <2>3, <2>6, <2>9, <3>1
  <2> QED
    BY <2>7, <2>8, <2>9
(* An actor that drops its job has nothing to start; the others are where  *)
(* they were.                                                              *)
<1>9. ASSUME NEW a \in Actors, NEW p \in {"idle", "stopped"}, Forget(a, p)
      PROVE  ToStart(j)' \subseteq ToStart(j) \ {a}
  BY <1>0, <1>9 DEF Forget, ToStart, MemoryOK
<1>10. ASSUME NEW a \in Actors, Settled(a)
       PROVE  ToStart(j)' \subseteq ToStart(j)
  <2>1. CASE a \in Workers
    BY <1>9, <1>10, <2>1 DEF Settled
  <2>2. CASE a \notin Workers
    BY <1>0, <1>10, <2>2 DEF Settled, ToStart, MemoryOK
  <2> QED
    BY <2>1, <2>2
<1>11. ASSUME NEW a \in Actors, ClaimLost(a) PROVE RunStep(j)
  <2>1. PICK k \in Candidates(a) : ClaimRow(k)
    BY <1>11 DEF ClaimLost
  <2>2. ToStart(j)' \subseteq ToStart(j) /\ starts' = starts /\ resets' = resets
    BY <1>9, <1>11 DEF ClaimLost
  <2>3. Left(j)' <= Left(j)
    BY <1>0, <1>7, <2>1 DEF Left
  <2> QED
    BY <2>2, <2>3 DEF RunStep, NothingMore
<1>12. ASSUME NEW w \in Workers, HandBack(w) PROVE RunStep(j)
  <2>1. w \in Actors /\ Engaged(w) /\ starts' = starts /\ resets' = resets
    BY <1>0, <1>12 DEF HandBack, Engaged, aux
  <2>2. ToStart(j)' \subseteq ToStart(j) \ {w}
    BY <1>0, <1>9, <1>12 DEF HandBack
  <2>3. CASE Holds(w) /\ job[w] = j
    <3>1. w \in ToStart(j)
      BY <1>12, <2>3 DEF HandBack, ToStart
    <3>2. rows'[j] = Released(rows[j]) /\ rows[j].status = "claimed"
      BY <1>0, <1>12, <2>3 DEF HandBack, Settle, Row, RowsOK, Holds
    <3>3. Released(rows[j]).attempts >= rows[j].attempts - 1
          /\ Released(rows[j]).attempts \in Nat
      <4> DEFINE q == Requeued(rows[j], DeferDelay)
      <4>1. q \in RowType /\ q.attempts = rows[j].attempts
        BY <1>0, ConstantsAssumption, RowsStayRows DEF Requeued, RowType
      <4>2. Released(rows[j]) = [q EXCEPT !.attempts = IF @ > 0 THEN @ - 1 ELSE 0]
        BY DEF Released
      <4> HIDE DEF q
      <4> QED
        BY <1>0, <4>1, <4>2 DEF RowType
    <3>4. Left(j)' <= Left(j) + 1
      BY <1>0, <3>2, <3>3 DEF Left
    <3> QED
      BY <2>1, <2>2, <3>1, <3>4 DEF RunStep, GivenBack
  <2>4. CASE ~(Holds(w) /\ job[w] = j)
    <3>1. rows'[j] = rows[j]
      BY <1>0, <1>12, <2>1, <2>4 DEF HandBack, Settle, RowsOK
    <3> QED
      BY <1>1, <2>1, <2>2, <3>1
  <2> QED
    BY <2>3, <2>4
<1>13. ASSUME NEW w \in Workers, Begin(w) PROVE RunStep(j)
  <2>1. /\ rows' = rows /\ resets' = resets /\ job' = job /\ pc[w] = "claimed"
        /\ w \in Actors /\ job[w] \in Jobs
    BY <1>0, <1>13 DEF Begin, volatile, Base, HandsOK, Engaged
  <2>2. ToStart(j)' \subseteq ToStart(j) \ {w}
    BY <1>0, <1>13, <2>1 DEF Begin, ToStart, MemoryOK
  <2>3. CASE job[w] = j
    <3>1. w \in ToStart(j) /\ starts'[j] = starts[j] + 1
      BY <1>0, <1>13, <2>1, <2>3 DEF Begin, ToStart, AuxOK
    <3>2. Left(j)' <= Left(j)
      BY <1>0, <2>1 DEF Left
    <3> QED
      BY <2>1, <2>2, <3>1, <3>2 DEF RunStep, Begun
  <2>4. CASE job[w] # j
    BY <1>0, <1>1, <1>13, <2>1, <2>2, <2>4 DEF Begin, AuxOK
  <2> QED
    BY <2>3, <2>4
(* A settle other than a hand-back gives no attempt back.                  *)
<1>14. ASSUME NEW a \in Actors, NEW r, Engaged(a), Settle(a, r), Settled(a),
              starts' = starts, resets' = resets,
              \/ r = Retired(Row(a)) \/ r = DeadLettered(Row(a))
              \/ \E d : r = Requeued(Row(a), d)
       PROVE  RunStep(j)
  <2>1. ToStart(j)' \subseteq ToStart(j)
    BY <1>10, <1>14
  <2>2. Row(a) \in RowType
    BY <1>0, <1>14, RowOfEngaged
  <2>3. r.status \notin {"pending", "claimed"} \/ r.attempts = Row(a).attempts
    <3>1. CASE r = Retired(Row(a))
      BY <2>2, <3>1 DEF Retired, RowType, NoRow
    <3>2. CASE r = DeadLettered(Row(a))
      BY <2>2, <3>2 DEF DeadLettered, RowType
    <3>3. ASSUME NEW d, r = Requeued(Row(a), d)
          PROVE  r.attempts = Row(a).attempts
      BY <2>2, <3>3 DEF Requeued, RowType
    <3> QED
      BY <1>14, <3>1, <3>2, <3>3
  <2>4. CASE Holds(a) /\ job[a] = j
    <3>1. rows'[j] = r /\ Row(a) = rows[j] /\ rows[j].status = "claimed"
      BY <1>0, <1>14, <2>4 DEF Settle, RowsOK, Row, Holds
    <3>2. Left(j)' <= Left(j)
      BY <1>0, <2>3, <3>1 DEF Left
    <3> QED
      BY <1>14, <2>1, <3>2 DEF RunStep, NothingMore
  <2>5. CASE ~(Holds(a) /\ job[a] = j)
    <3>1. rows'[j] = rows[j]
      BY <1>0, <1>14, <2>5 DEF Settle, RowsOK
    <3> QED
      BY <1>1, <1>14, <2>1, <3>1
  <2> QED
    BY <2>4, <2>5
<1>15. ASSUME NEW a \in Actors, Ack(a) PROVE RunStep(j)
  <2>1. Engaged(a) /\ Settle(a, Retired(Row(a))) /\ Settled(a)
        /\ starts' = starts /\ resets' = resets
    BY <1>15 DEF Ack, Engaged, aux
  <2> QED
    BY <1>14, <2>1
<1>16. ASSUME NEW a \in Actors, Nack(a) PROVE RunStep(j)
  <2> DEFINE r == IF Row(a).attempts >= JobMax[job[a]]
                  THEN DeadLettered(Row(a)) ELSE Requeued(Row(a), Row(a).delay)
  <2>1. Engaged(a) /\ Settle(a, r) /\ Settled(a) /\ starts' = starts /\ resets' = resets
    BY <1>16 DEF Nack, Engaged, aux
  <2>2. r = DeadLettered(Row(a)) \/ \E d : r = Requeued(Row(a), d)
    OBVIOUS
  <2> HIDE DEF r
  <2> QED
    BY <1>14, <2>1, <2>2
<1>17. ASSUME NEW a \in Actors, NackWrite(a) PROVE RunStep(j)
  <2> DEFINE r == IF seen[a] >= JobMax[job[a]] THEN DeadLettered(Row(a))
                  ELSE Requeued(Row(a), BackoffDelay(seen[a]))
  <2>1. Engaged(a) /\ Settle(a, r) /\ Settled(a) /\ starts' = starts /\ resets' = resets
    BY <1>17 DEF NackWrite, Engaged, aux
  <2>2. r = DeadLettered(Row(a)) \/ \E d : r = Requeued(Row(a), d)
    OBVIOUS
  <2> HIDE DEF r
  <2> QED
    BY <1>14, <2>1, <2>2
<1>18. ASSUME NEW a \in Actors, NackRead(a) PROVE RunStep(j)
  <2>1. ToStart(j)' \subseteq ToStart(j)
    <3>1. CASE Settled(a)
      BY <1>10, <3>1
    <3>2. CASE ~Settled(a)
      BY <1>0, <1>18, <3>2 DEF NackRead, ToStart, MemoryOK
    <3> QED
      BY <3>1, <3>2
  <2> QED
    BY <1>1, <1>18, <2>1 DEF NackRead, aux
<1>19. ASSUME \/ \E a \in Actors : ClaimNone(a) \/ Crash(a) \/ DequeueFails(a)
              \/ \E w \in Workers : SettleFails(w)
       PROVE  RunStep(j)
  <2>1. rows' = rows /\ starts' = starts /\ resets' = resets
    BY <1>19 DEF ClaimNone, Crash, DequeueFails, SettleFails, aux
  <2>2. ToStart(j)' \subseteq ToStart(j)
    BY <1>0, <1>9, <1>19 DEF ClaimNone, Crash, DequeueFails, SettleFails
  <2> QED
    BY <1>1, <2>1, <2>2
<1>20. ASSUME \/ \E a \in Actors : Poll(a)
              \/ \E w \in Workers : Return(w) \/ TimeOut(w) \/ Exit(w) \/ Start(w)
       PROVE  RunStep(j)
  <2>1. rows' = rows /\ starts' = starts /\ resets' = resets /\ job' = job
    BY <1>20 DEF Poll, Return, TimeOut, Exit, Start, aux, volatile
  <2>2. ToStart(j)' \subseteq ToStart(j)
    BY <1>0, <1>20, <2>1 DEF Poll, Return, TimeOut, Exit, Start, ToStart, MemoryOK
  <2> QED
    BY <1>1, <2>1, <2>2
<1>21. ASSUME \/ \E t \in Types : RegisterHandler(t)
              \/ \E G \in Gates : SetGate(G)
              \/ \E d \in Leases : SetLeaseTimeout(d)
              \/ \E w \in Workers : \E how \in Signals : Shutdown(w, how)
              \/ UNCHANGED vars
       PROVE  RunStep(j)
  <2>1. UNCHANGED <<rows, starts, resets, pc, job>>
    BY <1>21 DEF RegisterHandler, SetGate, SetLeaseTimeout, Shutdown, vars, volatile, aux
  <2> QED
    BY <1>1, <2>1 DEF ToStart
<1>22. CASE Tick
  <2>1. ToStart(j)' = ToStart(j) /\ starts' = starts /\ resets' = resets
    BY <1>22 DEF Tick, ToStart, aux
  <2>2. rows'[j].status = rows[j].status /\ rows'[j].attempts = rows[j].attempts
    BY <1>0, <1>22, AgedKeeps DEF Tick
  <2>3. Left(j)' <= Left(j)
    BY <1>0, <2>2 DEF Left
  <2> QED
    BY <2>1, <2>3 DEF RunStep, NothingMore
<1> QED
  BY <1>0, <1>2, <1>3, <1>4, <1>5, <1>6, <1>8, <1>11, <1>12, <1>13, <1>15, <1>16,
     <1>17, <1>18, <1>19, <1>20, <1>21, <1>22
  DEF Next, WorkerStep, Dequeue, Complete

(* However claims are lost, taken over, handed back or replayed, MaxAttempts *)
(* bounds the starts of the handler: each Enqueue or Replay of a job buys    *)
(* that many and no more.                                                    *)
THEOREM RunsBoundedHolds == Spec => []RunsBounded
<1>1. Init => RunsAccounted
  <2> SUFFICES ASSUME Init, NEW j \in Jobs
               PROVE  starts[j] + Cardinality(ToStart(j)) + Left(j) <= JobMax[j] * resets[j]
    BY DEF RunsAccounted
  <2>1. ToStart(j) = {} /\ starts[j] = 0 /\ resets[j] = 0 /\ Left(j) = 0
    BY DEF Init, ToStart, Left, NoRow, Actors
  <2>2. JobMax[j] \in Nat
    BY ConstantsAssumption
  <2> QED
    BY <2>1, <2>2, FS_EmptySet
<1>2. IInv /\ IInv' /\ RunsAccounted /\ [Next]_vars => RunsAccounted'
  <2> SUFFICES ASSUME IInv, IInv', RunsAccounted, [Next]_vars, NEW j \in Jobs
               PROVE  starts'[j] + Cardinality(ToStart(j)') + Left(j)'
                        <= JobMax[j] * resets'[j]
    BY DEF RunsAccounted
  <2>1. /\ starts[j] \in Nat /\ resets[j] \in Nat /\ Left(j) \in Nat
    BY LeftIsNat DEF IInv, Base, TypeOK, AuxOK
  <2>2. Left(j)' \in Nat
    BY ConstantsAssumption DEF IInv, Base, TypeOK, RowsOK, RowType, AttemptBudget, Left
  <2>3. IsFiniteSet(ToStart(j)')
    BY ConstantsAssumption, FS_Subset DEF ToStart
  <2> QED
    BY <2>1, <2>2, <2>3, NextIsRunStep, RunStepKeeps DEF RunsAccounted
<1>3. IInv /\ RunsAccounted => RunsBounded
  <2> SUFFICES ASSUME IInv, RunsAccounted, NEW j \in Jobs
               PROVE  starts[j] <= JobMax[j] * resets[j]
    BY DEF RunsBounded
  <2>1. /\ starts[j] \in Nat /\ resets[j] \in Nat /\ Left(j) \in Nat
        /\ JobMax[j] * resets[j] \in Nat
    BY LeftIsNat, ConstantsAssumption DEF IInv, Base, TypeOK, AuxOK
  <2>2. Cardinality(ToStart(j)) \in Nat
    BY ToStartFinite
  <2> QED
    BY <2>1, <2>2 DEF RunsAccounted
<1> QED
  BY <1>1, <1>2, <1>3, Invariance, PTL DEF Spec
-----------------------------------------------------------------------------
(* What the loop of backoff.Exponential computes, for every duration and   *)
(* every number of failures.  Recursive functions are handled through the  *)
(* equations that define them, induction as the least counterexample.      *)

(* A non-empty set of numbers has a least element.                         *)
LEMMA LeastNumber ==
  ASSUME NEW S \in SUBSET Nat, S # {}
  PROVE  \E x \in S : \A y \in S : x <= y
<1>1. PICK x \in S : \A y \in S : ~(<<y, x>> \in OpToRel(<, Nat))
  BY NatLessThanWellFounded, WFMin, Zenon
<1>2. \A y \in S : ~(y < x)
  BY <1>1 DEF OpToRel
<1>3. \A y \in S : x <= y
  BY <1>2
<1> QED
  BY <1>3

(* A set that is closed under successor, up to n, has everything up to n.  *)
LEMMA Reaches ==
  ASSUME NEW n \in Nat, NEW T, 0 \in T,
         \A k \in 0 .. n : k \in T /\ k < n => k + 1 \in T
  PROVE  0 .. n \subseteq T
<1> DEFINE S == {k \in 0 .. n : k \notin T}
<1>1. SUFFICES ASSUME S # {} PROVE FALSE
  OBVIOUS
<1>2. S \in SUBSET Nat
  OBVIOUS
<1>3. PICK x \in S : \A y \in S : x <= y
  BY <1>1, <1>2, LeastNumber, Zenon
<1>4. x \in 1 .. n /\ x - 1 \in 0 .. n /\ x - 1 < n /\ x - 1 < x
  BY <1>3
<1>5. x - 1 \in T
  BY <1>3, <1>4
<1>6. x - 1 + 1 \in T
  BY <1>4, <1>5
<1> QED
  BY <1>3, <1>4, <1>6

(* A function on the numbers may be defined by its value at 0 and a step.  *)
LEMMA Iterates ==
  ASSUME NEW step \in [Nat -> Nat], NEW a \in Nat
  PROVE  \E f \in [Nat -> Nat] : f[0] = a /\ \A k \in Nat : f[k + 1] = step[f[k]]
<1> DEFINE Upto(n, g) == /\ g \in [0 .. n -> Nat] /\ g[0] = a
                         /\ \A k \in 0 .. n : k < n => g[k + 1] = step[g[k]]
           T == {n \in Nat : \E g : Upto(n, g)}
<1>1. 0 \in T
  <2>1. Upto(0, [k \in 0 .. 0 |-> a])
    OBVIOUS
  <2> QED
    BY <2>1
<1>2. ASSUME NEW n \in T PROVE n + 1 \in T
  <2>1. PICK g : Upto(n, g)
    BY <1>2
  <2> DEFINE h == [k \in 0 .. n + 1 |-> IF k = n + 1 THEN step[g[n]] ELSE g[k]]
  <2>2. n \in Nat /\ n \in 0 .. n /\ g[n] \in Nat
    BY <2>1
  <2>3. h \in [0 .. n + 1 -> Nat] /\ h[0] = a
    <3>1. ASSUME NEW k \in 0 .. n + 1
          PROVE  h[k] \in Nat
      <4>1. CASE k = n + 1
        BY <2>2, <4>1
      <4>2. CASE k # n + 1
        <5>1. k \in 0 .. n /\ h[k] = g[k]
          BY <2>2, <4>2
        <5> QED
          BY <2>1, <5>1
      <4> QED
        BY <4>1, <4>2
    <3>2. 0 \in 0 .. n + 1 /\ 0 # n + 1 /\ h = [k \in 0 .. n + 1 |-> h[k]]
      BY <2>2
    <3>3. h[0] = a
      BY <2>1, <3>2
    <3> HIDE DEF h
    <3> QED
      BY <3>1, <3>2, <3>3
  <2>4. ASSUME NEW k \in 0 .. n + 1, k < n + 1 PROVE h[k + 1] = step[h[k]]
    <3>1. k \in 0 .. n /\ k + 1 \in 0 .. n + 1 /\ k # n + 1
      BY <2>2, <2>4
    <3>2. h[k] = g[k]
      BY <3>1
    <3>3. CASE k = n
      BY <2>2, <3>1, <3>2, <3>3
    <3>4. CASE k # n
      <4>1. k < n /\ k + 1 # n + 1
        BY <2>2, <3>1, <3>4
      <4>2. h[k + 1] = g[k + 1]
        BY <3>1, <4>1
      <4> QED
        BY <2>1, <3>1, <3>2, <4>1, <4>2
    <3> QED
      BY <3>3, <3>4
  <2>5. Upto(n + 1, h)
    BY <2>3, <2>4
  <2> HIDE DEF Upto, h
  <2>6. n + 1 \in Nat
    BY <2>2
  <2> QED
    BY <2>5, <2>6, Zenon
<1>3. \A n \in Nat : n \in T
  <2>1. SUFFICES ASSUME NEW n \in Nat PROVE n \in T
    OBVIOUS
  <2> HIDE DEF T
  <2>2. 0 .. n \subseteq T
    BY <1>1, <1>2, Reaches
  <2> QED
    BY <2>2
<1>4. ASSUME NEW n \in Nat, NEW g, NEW h, Upto(n, g), Upto(n + 1, h)
      PROVE  g[n] = h[n]
  <2> DEFINE E == {k \in 0 .. n : g[k] = h[k]}
  <2>1. 0 \in E
    BY <1>4
  <2>2. \A k \in 0 .. n : k \in E /\ k < n => k + 1 \in E
    BY <1>4
  <2> HIDE DEF E
  <2>3. 0 .. n \subseteq E
    BY <2>1, <2>2, Reaches
  <2> QED
    BY <2>3 DEF E
<1> DEFINE G(n) == CHOOSE g : Upto(n, g)
           f == [n \in Nat |-> G(n)[n]]
<1>5. \A n \in Nat : Upto(n, G(n))
  <2> SUFFICES ASSUME NEW n \in Nat PROVE Upto(n, G(n))
    OBVIOUS
  <2>1. \E g : Upto(n, g)
    BY <1>3
  <2> HIDE DEF Upto
  <2> QED
    BY <2>1, Zenon
<1> HIDE DEF G
<1>6. f \in [Nat -> Nat] /\ f[0] = a
  BY <1>5
<1>7. ASSUME NEW k \in Nat PROVE f[k + 1] = step[f[k]]
  <2>1. Upto(k, G(k)) /\ Upto(k + 1, G(k + 1))
    <3> HIDE DEF Upto
    <3>1. k + 1 \in Nat
      OBVIOUS
    <3> QED
      BY <1>5, <3>1, Zenon
  <2>2. G(k)[k] = G(k + 1)[k]
    <3> DEFINE u == G(k)
               v == G(k + 1)
    <3>1. Upto(k, u) /\ Upto(k + 1, v)
      BY <2>1
    <3> HIDE DEF u, v, Upto
    <3>2. u[k] = v[k]
      BY <1>4, <3>1
    <3> QED
      BY <3>2 DEF u, v
  <2>3. G(k + 1)[k + 1] = step[G(k + 1)[k]]
    BY <2>1
  <2> QED
    BY <2>2, <2>3
<1> QED
  BY <1>6, <1>7

(* Pow2 is the powers of two.                                              *)
LEMMA Pow2Equations ==
  /\ Pow2[0] = 1
  /\ \A k \in Nat : Pow2[k] \in Nat /\ Pow2[k] > 0 /\ Pow2[k + 1] = 2 * Pow2[k]
<1> DEFINE step == [x \in Nat |-> 2 * x]
<1>1. step \in [Nat -> Nat] /\ 1 \in Nat
  OBVIOUS
<1>2. PICK f \in [Nat -> Nat] : f[0] = 1 /\ \A k \in Nat : f[k + 1] = step[f[k]]
  <2> HIDE DEF step
  <2> QED
    BY <1>1, Iterates
<1>3. f = [k \in Nat |-> IF k = 0 THEN 1 ELSE 2 * f[k - 1]]
  <2>1. ASSUME NEW k \in Nat PROVE f[k] = IF k = 0 THEN 1 ELSE 2 * f[k - 1]
    <3>1. CASE k = 0
      BY <1>2, <3>1
    <3>2. CASE k # 0
      <4>1. k - 1 \in Nat /\ k - 1 + 1 = k
        BY <3>2
      <4>2. f[k] = step[f[k - 1]]
        BY <1>2, <4>1
      <4> QED
        BY <3>2, <4>1, <4>2
    <3> QED
      BY <3>1, <3>2
  <2> QED
    BY <2>1
<1>4. Pow2 = CHOOSE g : g = [k \in Nat |-> IF k = 0 THEN 1 ELSE 2 * g[k - 1]]
  BY DEF Pow2
<1>5. \E g : g = [k \in Nat |-> IF k = 0 THEN 1 ELSE 2 * g[k - 1]]
  BY <1>3
<1>6. Pow2 = [k \in Nat |-> IF k = 0 THEN 1 ELSE 2 * Pow2[k - 1]]
  BY <1>4, <1>5, Zenon
<1> DEFINE T == {k \in Nat : Pow2[k] \in Nat /\ Pow2[k] > 0}
<1>7. 0 \in T /\ Pow2[0] = 1
  BY <1>6
<1>8. \A k \in Nat : Pow2[k + 1] = 2 * Pow2[k]
  BY <1>6
<1>9. \A k \in T : k + 1 \in T
  BY <1>8
<1>10. ASSUME NEW k \in Nat PROVE k \in T
  <2> HIDE DEF T
  <2>1. 0 .. k \subseteq T
    BY <1>7, <1>9, Reaches
  <2> QED
    BY <2>1
<1> QED
  BY <1>7, <1>8, <1>10

(* They grow.                                                              *)
LEMMA Pow2Grows ==
  ASSUME NEW j \in Nat, NEW k \in Nat, j <= k
  PROVE  Pow2[j] <= Pow2[k]
<1> DEFINE T == {i \in Nat : Pow2[j] <= Pow2[j + i]}
<1>1. 0 \in T
  BY Pow2Equations
<1>2. ASSUME NEW i \in T PROVE i + 1 \in T
  <2>1. /\ j + i \in Nat /\ j + (i + 1) = j + i + 1 /\ i + 1 \in Nat
        /\ Pow2[j] <= Pow2[j + i]
    OBVIOUS
  <2>2. Pow2[j] \in Nat /\ Pow2[j + i] \in Nat /\ Pow2[j + i + 1] = 2 * Pow2[j + i]
    BY <2>1, Pow2Equations
  <2> QED
    BY <2>1, <2>2
<1>3. k - j \in Nat /\ j + (k - j) = k
  OBVIOUS
<1>4. k - j \in T
  <2> HIDE DEF T
  <2>1. 0 .. (k - j) \subseteq T
    BY <1>1, <1>2, <1>3, Reaches
  <2> QED
    BY <1>3, <2>1
<1> QED
  BY <1>3, <1>4

(* A product grows with its factor.                                        *)
LEMMA TimesGrows ==
  ASSUME NEW b \in Nat, NEW x \in Nat, NEW y \in Nat, x <= y
  PROVE  b * x \in Nat /\ b * y \in Nat /\ b * x <= b * y
OBVIOUS

(* The base doubled k times.                                               *)
LEMMA Doublings ==
  ASSUME NEW b \in Nat
  PROVE  /\ b * Pow2[0] = b
         /\ \A k \in Nat : b * Pow2[k] \in Nat /\ b * Pow2[k + 1] = 2 * (b * Pow2[k])
         /\ \A j, k \in Nat : j <= k => b * Pow2[j] <= b * Pow2[k]
<1>1. b * Pow2[0] = b
  BY Pow2Equations
<1>2. ASSUME NEW k \in Nat
      PROVE  b * Pow2[k] \in Nat /\ b * Pow2[k + 1] = 2 * (b * Pow2[k])
  <2> DEFINE x == Pow2[k]
  <2>1. x \in Nat /\ Pow2[k + 1] = 2 * x
    BY Pow2Equations
  <2> HIDE DEF x
  <2>2. b * x \in Nat /\ b * (2 * x) = 2 * (b * x)
    BY <2>1
  <2> QED
    BY <2>1, <2>2 DEF x
<1>3. ASSUME NEW j \in Nat, NEW k \in Nat, j <= k
      PROVE  b * Pow2[j] <= b * Pow2[k]
  <2> DEFINE x == Pow2[j]
             y == Pow2[k]
  <2>1. x \in Nat /\ y \in Nat /\ x <= y
    BY <1>3, Pow2Equations, Pow2Grows
  <2> HIDE DEF x, y
  <2>2. b * x <= b * y
    BY <2>1, TimesGrows
  <2> QED
    BY <2>2 DEF x, y
<1> QED
  BY <1>1, <1>2, <1>3

(* The body of the loop keeps to the numbers.                              *)
LEMMA IterationType ==
  ASSUME NEW max \in Nat, NEW x \in Nat
  PROVE  Iteration(max, x) \in Nat
BY DEF Iteration

(* The delays that the loop goes through.                                  *)
LoopDelays(h, max, exp, d) ==
  /\ h \in [0 .. exp -> Nat]
  /\ h[0] = d
  /\ \A k \in 0 .. exp : k < exp => h[k + 1] = Iteration(max, h[k])
  /\ Doubled(max, exp, d) = h[exp]

(* The loop is the body, applied exp times.                                *)
LEMMA DoubledIterates ==
  ASSUME NEW max \in Nat, NEW exp \in Nat, NEW d \in Nat
  PROVE  \E h : LoopDelays(h, max, exp, d)
<1> DEFINE step == [x \in Nat |-> Iteration(max, x)]
<1>1. step \in [Nat -> Nat]
  BY IterationType
<1>2. PICK f \in [Nat -> Nat] : f[0] = d /\ \A k \in Nat : f[k + 1] = step[f[k]]
  <2> HIDE DEF step
  <2> QED
    BY <1>1, Iterates
<1> DEFINE F == [k \in 0 .. exp |-> f[k]]
<1>3. F = [k \in 0 .. exp |-> IF k = 0 THEN d ELSE Iteration(max, F[k - 1])]
  <2>1. ASSUME NEW k \in 0 .. exp
        PROVE  f[k] = IF k = 0 THEN d ELSE Iteration(max, F[k - 1])
    <3>1. CASE k = 0
      BY <1>2, <3>1
    <3>2. CASE k # 0
      <4>1. k - 1 \in Nat /\ k - 1 + 1 = k /\ k - 1 \in 0 .. exp
        BY <3>2
      <4>2. f[k] = step[f[k - 1]] /\ F[k - 1] = f[k - 1] /\ f[k - 1] \in Nat
        BY <1>2, <4>1
      <4> QED
        BY <3>2, <4>1, <4>2
    <3> QED
      BY <3>1, <3>2
  <2> QED
    BY <2>1
<1> HIDE DEF F
<1> DEFINE h == CHOOSE g :
             g = [k \in 0 .. exp |-> IF k = 0 THEN d ELSE Iteration(max, g[k - 1])]
<1>4. Doubled(max, exp, d) = h[exp]
  BY DEF Doubled
<1>5. h = [k \in 0 .. exp |-> IF k = 0 THEN d ELSE Iteration(max, h[k - 1])]
  BY <1>3, Zenon
<1> HIDE DEF h
<1>6. h[0] = d
  BY <1>5
<1>7. ASSUME NEW k \in 0 .. exp, k < exp PROVE h[k + 1] = Iteration(max, h[k])
  <2> DEFINE m == k + 1
  <2>1. m \in 0 .. exp /\ m # 0 /\ m - 1 = k
    BY <1>7
  <2> HIDE DEF m
  <2>2. h[m] = IF m = 0 THEN d ELSE Iteration(max, h[m - 1])
    BY <1>5, <2>1, Zenon
  <2> QED
    BY <2>1, <2>2 DEF m
<1> DEFINE T == {k \in 0 .. exp : h[k] \in Nat}
<1>8. 0 \in T
  BY <1>6
<1>9. ASSUME NEW k \in 0 .. exp, k \in T, k < exp PROVE k + 1 \in T
  <2>1. Iteration(max, h[k]) \in Nat
    BY <1>9, IterationType
  <2>2. h[k + 1] \in Nat /\ k + 1 \in 0 .. exp
    BY <1>7, <1>9, <2>1
  <2> QED
    BY <2>2
<1>10. 0 .. exp \subseteq T
  <2> HIDE DEF T
  <2> QED
    BY <1>8, <1>9, Reaches
<1>11. h \in [0 .. exp -> Nat]
  BY <1>5, <1>10
<1>12. LoopDelays(h, max, exp, d)
  BY <1>4, <1>6, <1>7, <1>11 DEF LoopDelays
<1> QED
  BY <1>12

(* Twice a delay beyond the overflow guard is no duration.                 *)
LEMMA GuardIsTight ==
  ASSUME NEW x \in Nat
  PROVE  x > MaxDuration \div 2 <=> 2 * x > MaxDuration
BY MaxDurationAssumption

Capped(x, max) == IF x > max THEN max ELSE x

(* With a cap, the loop and the doublings agree below it.                  *)
LEMMA CappedLoop ==
  ASSUME NEW b \in Nat, NEW max \in Nat, max > 0, max <= MaxDuration, NEW exp \in Nat
  PROVE  Capped(Doubled(max, exp, b), max) = Capped(b * Pow2[exp], max)
<1>1. PICK h : LoopDelays(h, max, exp, b)
  BY DoubledIterates
<1> DEFINE T == {k \in 0 .. exp : Capped(h[k], max) = Capped(b * Pow2[k], max)}
<1>2. 0 \in T
  <2>1. Capped(h[0], max) = Capped(b * Pow2[0], max)
    BY <1>1, Doublings DEF LoopDelays
  <2> QED
    BY <2>1
<1>3. ASSUME NEW k \in 0 .. exp, k \in T, k < exp PROVE k + 1 \in T
  <2> DEFINE x == h[k]
             y == b * Pow2[k]
             z == b * Pow2[k + 1]
             u == h[k + 1]
  <2>1. x \in Nat /\ y \in Nat /\ z = 2 * y /\ u = Iteration(max, x)
    BY <1>1, <1>3, Doublings DEF LoopDelays
  <2>2. Capped(x, max) = Capped(y, max) /\ k + 1 \in 0 .. exp
    BY <1>3
  <2> HIDE DEF x, y, z, u
  <2>3. Capped(u, max) = Capped(z, max)
    <3>1. CASE x >= max
      BY <2>1, <2>2, <3>1 DEF Capped, Iteration
    <3>2. CASE x < max /\ x > MaxDuration \div 2
      <4>1. 2 * x > MaxDuration /\ y = x /\ u = max
        BY <2>1, <2>2, <3>2, GuardIsTight DEF Capped, Iteration
      <4> QED
        BY <2>1, <4>1, MaxDurationAssumption DEF Capped
    <3>3. CASE x < max /\ ~(x > MaxDuration \div 2)
      <4>1. u = 2 * x /\ y = x
        BY <2>1, <2>2, <3>3 DEF Capped, Iteration
      <4> QED
        BY <2>1, <4>1
    <3> QED
      BY <2>1, <3>1, <3>2, <3>3
  <2> QED
    BY <2>2, <2>3 DEF u, z
<1>4. exp \in T
  <2> HIDE DEF T
  <2>1. 0 .. exp \subseteq T
    BY <1>2, <1>3, Reaches
  <2> QED
    BY <2>1
<1> QED
  BY <1>1, <1>4 DEF LoopDelays

(* Without a cap, it stops at a doubling that cannot be doubled again.     *)
LEMMA UncappedLoop ==
  ASSUME NEW b \in Durations, NEW exp \in Nat
  PROVE  \E j \in 0 .. exp :
           /\ Doubled(0, exp, b) = b * Pow2[j]
           /\ b * Pow2[j] <= MaxDuration
           /\ j = exp \/ 2 * (b * Pow2[j]) > MaxDuration
<1>0. b \in Nat /\ b <= MaxDuration /\ 0 \in Nat
  BY MaxDurationAssumption DEF Durations
<1>1. PICK h : LoopDelays(h, 0, exp, b)
  BY <1>0, DoubledIterates
<1> DEFINE Stops(j, k) == /\ h[k] = b * Pow2[j]
                          /\ b * Pow2[j] <= MaxDuration
                          /\ j = k \/ 2 * (b * Pow2[j]) > MaxDuration
           T == {k \in 0 .. exp : \E j \in 0 .. k : Stops(j, k)}
<1>2. 0 \in T
  <2>1. Stops(0, 0)
    BY <1>0, <1>1, Doublings DEF LoopDelays
  <2>2. 0 \in 0 .. 0 /\ 0 \in 0 .. exp
    OBVIOUS
  <2> HIDE DEF Stops
  <2> QED
    BY <2>1, <2>2
<1>3. ASSUME NEW k \in 0 .. exp, k \in T, k < exp PROVE k + 1 \in T
  <2>1. PICK j \in 0 .. k : Stops(j, k)
    BY <1>3
  <2> DEFINE y == b * Pow2[j]
  <2>2. /\ k + 1 \in 0 .. exp /\ j \in 0 .. k + 1 /\ j + 1 \in 0 .. k + 1
        /\ j \in Nat /\ k < exp
    BY <1>3
  <2>3. y \in Nat /\ b * Pow2[j + 1] = 2 * y
    BY <1>0, <2>2, Doublings
  <2>4. h[k] = y /\ y <= MaxDuration /\ (j = k \/ 2 * y > MaxDuration)
    BY <2>1
  <2>5. h[k + 1] = Iteration(0, y)
    BY <1>1, <2>2, <2>4 DEF LoopDelays
  <2>6. /\ y \in Nat /\ h[k] = y /\ y <= MaxDuration /\ (j = k \/ 2 * y > MaxDuration)
        /\ h[k + 1] = Iteration(0, y) /\ b * Pow2[j + 1] = 2 * y
        /\ k + 1 \in 0 .. exp /\ j \in 0 .. k + 1 /\ j + 1 \in 0 .. k + 1
    BY <2>2, <2>3, <2>4, <2>5
  <2>7. CASE 2 * y > MaxDuration
    <3> HIDE DEF y
    <3>1. h[k + 1] = y
      BY <2>6, <2>7, GuardIsTight DEF Iteration
    <3>2. Stops(j, k + 1)
      BY <2>6, <2>7, <3>1 DEF y
    <3> HIDE DEF Stops
    <3> QED
      BY <2>6, <3>2
  <2>8. CASE ~(2 * y > MaxDuration)
    <3> HIDE DEF y
    <3>1. h[k + 1] = 2 * y /\ j = k /\ 2 * y <= MaxDuration
      BY <2>6, <2>8, GuardIsTight, MaxDurationAssumption DEF Iteration
    <3>2. Stops(j + 1, k + 1)
      BY <2>6, <3>1
    <3> HIDE DEF Stops
    <3> QED
      BY <2>6, <3>2
  <2> QED
    BY <2>7, <2>8
<1>4. exp \in T
  <2> HIDE DEF T
  <2>1. 0 .. exp \subseteq T
    BY <1>2, <1>3, Reaches
  <2> QED
    BY <2>1
<1> QED
  BY <1>1, <1>4 DEF LoopDelays

(* The smaller of two numbers is the first cut at the second.              *)
LEMMA MinOfTwo ==
  ASSUME NEW x \in Nat, NEW m \in Nat
  PROVE  Min({x, m}) = Capped(x, m)
<1>1. /\ Capped(x, m) \in {x, m} /\ \A y \in {x, m} : Capped(x, m) <= y
      /\ Capped(x, m) \in Nat
  BY DEF Capped
<1> QED
  BY <1>1 DEF Min

(* The largest member of a set is its Max.                                 *)
LEMMA MaxIs ==
  ASSUME NEW S \in SUBSET Nat, NEW m \in S, \A y \in S : y <= m
  PROVE  Max(S) = m
<1>1. Max(S) \in S /\ \A y \in S : Max(S) >= y
  BY DEF Max
<1>2. Max(S) \in Nat /\ m \in Nat /\ Max(S) <= m /\ Max(S) >= m
  BY <1>1
<1> QED
  BY <1>2

(* The exponent that Exponential and the ideal share.                      *)
Exponent(n) == IF n < 1 THEN 0 ELSE n - 1

(* With a cap, Exponential is the doublings cut at it.                     *)
LEMMA CappedExponential ==
  ASSUME NEW b \in Durations, NEW max \in Durations, max > 0, NEW n \in Nat
  PROVE  Exponential(b, max, n) = Capped(b * Pow2[Exponent(n)], max)
<1> DEFINE e == Exponent(n)
           d == Doubled(max, e, b)
           y == b * Pow2[e]
<1>1. /\ b \in Nat /\ max \in Nat /\ max <= MaxDuration /\ e \in Nat
  BY MaxDurationAssumption DEF Durations, Exponent
<1>2. Capped(d, max) = Capped(y, max)
  BY <1>1, CappedLoop
<1>3. Exponential(b, max, n) = IF b = 0 THEN 0 ELSE Capped(d, max)
  BY DEF Exponential, Exponent, Capped
<1>4. CASE b = 0
  <2>1. y = 0
    BY <1>1, <1>4, Pow2Equations
  <2> HIDE DEF y
  <2> QED
    BY <1>1, <1>3, <1>4, <2>1 DEF Capped, y
<1> QED
  BY <1>2, <1>3, <1>4

(* Uncapped, Exponential is the largest doubling that is a duration.       *)
LEMMA UncappedExponential ==
  ASSUME NEW b \in Durations, NEW n \in Nat
  PROVE  /\ \E j \in 0 .. Exponent(n) : Exponential(b, 0, n) = b * Pow2[j]
         /\ Exponential(b, 0, n) <= MaxDuration
         /\ \A i \in 0 .. Exponent(n) :
              b * Pow2[i] <= MaxDuration => b * Pow2[i] <= Exponential(b, 0, n)
<1> DEFINE e == Exponent(n)
<1>1. b \in Nat /\ e \in Nat /\ MaxDuration \in Nat
  BY MaxDurationAssumption DEF Durations, Exponent
<1>2. PICK j \in 0 .. e : /\ Doubled(0, e, b) = b * Pow2[j]
                          /\ b * Pow2[j] <= MaxDuration
                          /\ j = e \/ 2 * (b * Pow2[j]) > MaxDuration
  BY <1>1, UncappedLoop
<1>3. Exponential(b, 0, n) = IF b = 0 THEN 0 ELSE b * Pow2[j]
  BY <1>2 DEF Exponential, Exponent
<1>4. Exponential(b, 0, n) = b * Pow2[j]
  <2>1. b = 0 => b * Pow2[j] = 0
    BY <1>1, Pow2Equations
  <2> QED
    BY <1>3, <2>1
<1>5. ASSUME NEW i \in 0 .. e, b * Pow2[i] <= MaxDuration
      PROVE  b * Pow2[i] <= b * Pow2[j]
  <2>1. CASE i <= j
    BY <1>1, <2>1, Doublings
  <2>2. CASE j < i
    <3>1. j + 1 <= i /\ j + 1 \in Nat /\ i \in Nat /\ j \in Nat /\ j # e
      BY <1>1, <2>2
    <3>2. b * Pow2[j + 1] <= b * Pow2[i] /\ b * Pow2[j + 1] = 2 * (b * Pow2[j])
      BY <1>1, <3>1, Doublings
    <3> DEFINE y == b * Pow2[j]
               z == b * Pow2[i]
    <3>3. y \in Nat /\ z \in Nat /\ 2 * y <= z /\ 2 * y > MaxDuration /\ z <= MaxDuration
      BY <1>1, <1>2, <1>5, <3>1, <3>2, Doublings
    <3> HIDE DEF y, z
    <3> QED
      BY <1>1, <3>3
  <2> QED
    BY <1>1, <2>1, <2>2
<1> QED
  BY <1>2, <1>4, <1>5

(* The loop of Exponential computes the ideal delay.                       *)
LEMMA ExponentialIsIdeal ==
  ASSUME NEW b \in Durations, NEW max \in Durations, NEW n \in Nat
  PROVE  Exponential(b, max, n) = IdealDelay(b, max, n)
<1> DEFINE e == Exponent(n)
           x == Exponential(b, max, n)
<1>1. b \in Nat /\ max \in Nat /\ e \in Nat /\ MaxDuration \in Nat
  BY MaxDurationAssumption DEF Durations, Exponent
<1>2. CASE max > 0
  <2>1. IdealDelay(b, max, n) = Min({b * Pow2[e], max})
    BY <1>2 DEF IdealDelay, Exponent
  <2>2. b * Pow2[e] \in Nat
    BY <1>1, Doublings
  <2>3. Min({b * Pow2[e], max}) = Capped(b * Pow2[e], max)
    BY <1>1, <2>2, MinOfTwo
  <2> QED
    BY <1>2, <2>1, <2>3, CappedExponential
<1>3. CASE max = 0
  <2> DEFINE S == {b * Pow2[k] : k \in {j \in 0 .. e : b * Pow2[j] <= MaxDuration}}
  <2>1. IdealDelay(b, max, n) = Max(S)
    BY <1>3 DEF IdealDelay, Exponent
  <2>2. /\ \E j \in 0 .. e : x = b * Pow2[j]
        /\ x <= MaxDuration
        /\ \A i \in 0 .. e : b * Pow2[i] <= MaxDuration => b * Pow2[i] <= x
    BY <1>3, UncappedExponential
  <2> HIDE DEF x
  <2>3. S \in SUBSET Nat
    BY <1>1, Doublings
  <2>4. x \in S /\ \A y \in S : y <= x
    BY <2>2
  <2>5. Max(S) = x
    <3> HIDE DEF S
    <3> QED
      BY <2>3, <2>4, MaxIs
  <2> QED
    BY <2>1, <2>5 DEF x
<1> QED
  BY <1>1, <1>2, <1>3

(* One failure more does not shorten the delay.                            *)
LEMMA ExponentialGrows ==
  ASSUME NEW b \in Durations, NEW max \in Durations, NEW n \in Nat
  PROVE  Exponential(b, max, n) <= Exponential(b, max, n + 1)
<1> DEFINE e == Exponent(n)
           g == Exponent(n + 1)
<1>1. /\ b \in Nat /\ max \in Nat /\ e \in Nat /\ g \in Nat /\ e <= g
      /\ n + 1 \in Nat
  BY MaxDurationAssumption DEF Durations, Exponent
<1>2. CASE max > 0
  <2> DEFINE y == b * Pow2[e]
             z == b * Pow2[g]
  <2>1. y \in Nat /\ z \in Nat /\ y <= z
    BY <1>1, Doublings
  <2>2. Exponential(b, max, n) = Capped(y, max) /\ Exponential(b, max, n + 1) = Capped(z, max)
    BY <1>1, <1>2, CappedExponential
  <2> HIDE DEF y, z
  <2>3. Capped(y, max) <= Capped(z, max)
    BY <1>1, <2>1 DEF Capped
  <2> QED
    BY <2>2, <2>3
<1>3. CASE max = 0
  <2>1. PICK j \in 0 .. e : Exponential(b, 0, n) = b * Pow2[j]
    BY UncappedExponential
  <2>2. j \in 0 .. g
    BY <1>1
  <2>3. Exponential(b, 0, n) <= MaxDuration
    BY UncappedExponential
  <2>4. b * Pow2[j] <= MaxDuration
    BY <2>1, <2>3
  <2>5. b * Pow2[j] <= Exponential(b, 0, n + 1)
    BY <1>1, <2>2, <2>4, UncappedExponential
  <2> QED
    BY <1>3, <2>1, <2>5
<1> QED
  BY <1>1, <1>2, <1>3

(* backoff.Exponential answers the documented formula for every base, cap  *)
(* and attempt count that a row of the queue can hold: neither its early   *)
(* returns nor the overflow clamp shows in the delay of a retry.           *)
THEOREM DelayIsIdealHolds == Spec => []DelayIsIdeal
<1>1. TypeOK => DelayIsIdeal
  <2> SUFFICES ASSUME TypeOK, NEW j \in Jobs, NEW n \in rows[j].attempts .. LongestStreak
               PROVE  n \in IdealAfter
    BY DEF DelayIsIdeal
  <2>1. rows[j].attempts \in Nat
    BY DEF TypeOK, RowsOK, RowType
  <2>2. n \in 0 .. LongestStreak /\ n \in Nat
    BY <2>1, LongestStreakAssumption
  <2> QED
    BY <2>2, ExponentialIsIdeal DEF IdealAfter
<1> QED
  BY TypeCorrect, <1>1, PTL

(* A retry never waits for less than the one before it, whatever the base  *)
(* and the cap: the clamp of backoff.Exponential does not undo a doubling. *)
THEOREM DelayMonotoneHolds == Spec => []DelayMonotone
<1>1. TypeOK => DelayMonotone
  <2> SUFFICES ASSUME TypeOK, NEW j \in Jobs, NEW n \in rows[j].attempts .. LongestStreak
               PROVE  n \in MonotoneAfter
    BY DEF DelayMonotone
  <2>1. rows[j].attempts \in Nat
    BY DEF TypeOK, RowsOK, RowType
  <2>2. n \in 0 .. LongestStreak /\ n \in Nat
    BY <2>1, LongestStreakAssumption
  <2> QED
    BY <2>2, ExponentialGrows DEF MonotoneAfter
<1> QED
  BY TypeCorrect, <1>1, PTL
=============================================================================
