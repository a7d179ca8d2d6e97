--------------------------- MODULE DBQueueProofs ---------------------------
(***************************************************************************)
(* Theorems about DBQueue, for any number of jobs, workers and callers,    *)
(* any attempt budgets, leases, backoff and bounds on failures.            *)
(***************************************************************************)
EXTENDS DBQueue, TLAPS

(* An actor that works on a job has a job and a token; one that does not   *)
(* has no token left to present.                                           *)
HandsOK ==
  \A a \in Actors :
    /\ Engaged(a) => job[a] \in Jobs /\ token[a] \in Tokens
    /\ ~Engaged(a) => token[a] = NoToken

(* A claimed row bears the token of its claim.                             *)
ClaimedBearsToken ==
  \A j \in Jobs : rows[j].status = "claimed" => rows[j].token \in Tokens

Base == TypeOK /\ HandsOK /\ ClaimedBearsToken

-----------------------------------------------------------------------------
(* A fresh token is nobody's: not on a row, not in an actor's hand, not in *)
(* a sweep's list.                                                         *)
LEMMA FreshTokenIsFresh ==
  ASSUME TokensLeft
  PROVE  /\ FreshToken \in Tokens
         /\ \A j \in Jobs : rows[j].token # FreshToken
         /\ \A a \in Actors : token[a] # FreshToken
         /\ \A a \in Actors : \A f \in found[a] : f[2] # FreshToken
<1>1. \E t \in Tokens : t \notin TokensInUse
  BY DEF TokensLeft
<1>2. FreshToken \in Tokens /\ FreshToken \notin TokensInUse
  BY <1>1 DEF FreshToken
<1> QED
  BY <1>2 DEF TokensInUse

(* What the statements make of a row is a row.                             *)
LEMMA RowsStayRows ==
  ASSUME NEW r \in RowType, NEW d \in Nat
  PROVE  /\ NoRow \in RowType
         /\ Retired(r) \in RowType
         /\ Requeued(r, d) \in RowType
         /\ DeadLettered(r) \in RowType
         /\ Released(r) \in RowType
         /\ Aged(r) \in RowType
<1> USE DEF RowType, Statuses
<1>1. NoRow \in RowType
  BY DEF NoRow
<1>2. Retired(r) \in RowType
  BY <1>1 DEF Retired
<1>3. Requeued(r, d) \in RowType
  BY DEF Requeued
<1>4. DeadLettered(r) \in RowType
  BY DEF DeadLettered
<1>5. Released(r) \in RowType
  <2> DEFINE q == Requeued(r, DeferDelay)
             n == IF q.attempts > 0 THEN q.attempts - 1 ELSE 0
  <2>1. q \in RowType
    BY ConstantsAssumption DEF Requeued
  <2>2. Released(r) = [q EXCEPT !.attempts = n]
    BY DEF Released
  <2> HIDE DEF q
  <2>3. n \in Nat
    BY <2>1
  <2> HIDE DEF n
  <2> QED
    BY <2>1, <2>2, <2>3
<1>6. Aged(r) \in RowType
  <2> DEFINE d0 == IF r.delay > 0 THEN r.delay - 1 ELSE 0
             n == IF r.status = "claimed" THEN Later(r.age, MaxLease)
                  ELSE IF r.status = "done" THEN Later(r.age, DoneRetention)
                  ELSE r.age
  <2>1. d0 \in Nat /\ n \in Nat
    BY DEF Later
  <2>2. Aged(r) = [r EXCEPT !.delay = d0, !.age = n]
    BY DEF Aged
  <2> HIDE DEF d0, n
  <2> QED
    BY <2>1, <2>2
<1> QED
  BY <1>1, <1>2, <1>3, <1>4, <1>5, <1>6

(* Dropping a job leaves the actor's memory well typed and empty-handed.   *)
LEMMA ForgetKeepsMemory ==
  ASSUME MemoryOK, HandsOK, NEW a \in Actors, NEW p \in {"idle", "stopped"},
         Forget(a, p)
  PROVE  MemoryOK' /\ HandsOK'
<1>1. MemoryOK'
  BY DEF MemoryOK, Forget, PCs
<1>2. HandsOK'
  BY DEF MemoryOK, HandsOK, Forget, Engaged, PCs
<1> QED
  BY <1>1, <1>2

(* The end of a settle: a worker is empty-handed, a caller keeps its job.  *)
LEMMA SettledKeepsMemory ==
  ASSUME MemoryOK, HandsOK, NEW a \in Actors, Engaged(a), Settled(a)
  PROVE  MemoryOK' /\ HandsOK'
<1>1. CASE a \in Workers
  BY <1>1, ForgetKeepsMemory DEF Settled
<1>2. CASE a \notin Workers
  <2>1. MemoryOK'
    BY <1>2 DEF MemoryOK, Settled, PCs
  <2>2. HandsOK'
    BY <1>2 DEF MemoryOK, HandsOK, Settled, Engaged, PCs
  <2> QED
    BY <2>1, <2>2
<1> QED
  BY <1>1, <1>2

(* A fenced statement that leaves the row unclaimed keeps the table typed. *)
LEMMA SettleKeepsRows ==
  ASSUME RowsOK, ClaimedBearsToken, NEW a \in Actors, NEW r, Settle(a, r),
         Holds(a) => r \in RowType /\ r.status # "claimed"
  PROVE  RowsOK' /\ ClaimedBearsToken'
BY DEF RowsOK, ClaimedBearsToken, Settle

(* The row an actor works on is a row.                                     *)
LEMMA RowOfEngaged ==
  ASSUME Base, NEW a \in Actors, Engaged(a)
  PROVE  Row(a) \in RowType /\ job[a] \in Jobs /\ token[a] \in Tokens
BY DEF Base, TypeOK, RowsOK, HandsOK, Row

(* What settles make of a row is not a claim.                              *)
LEMMA SettlesUnclaim ==
  ASSUME NEW r \in RowType, NEW d \in Nat
  PROVE  /\ NoRow.status # "claimed"
         /\ Retired(r).status # "claimed"
         /\ Requeued(r, d).status # "claimed"
         /\ DeadLettered(r).status # "claimed"
         /\ Released(r).status # "claimed"
BY DEF RowType, NoRow, Retired, Requeued, DeadLettered, Released

(* Every settle leaves the token on the row it leaves behind, and only a   *)
(* release changes the attempts.                                           *)
LEMMA SettlesKeepToken ==
  ASSUME NEW r \in RowType
  PROVE  /\ Retired(r).token \in {r.token, NoToken}
         /\ \A d \in Nat : Requeued(r, d).token = r.token
         /\ DeadLettered(r).token = r.token
         /\ Released(r).token = r.token
<1> USE DEF RowType
<1>1. Retired(r).token \in {r.token, NoToken}
  BY DEF Retired, NoRow
<1>2. \A d \in Nat : Requeued(r, d).token = r.token
  BY DEF Requeued
<1>3. DeadLettered(r).token = r.token
  BY DEF DeadLettered
<1>4. Released(r).token = r.token
  BY DEF Released, Requeued
<1> QED
  BY <1>1, <1>2, <1>3, <1>4

-----------------------------------------------------------------------------
(* Types, hands and tokens of the empty queue ...                          *)
LEMMA InitBase == Init => Base
<1> SUFFICES ASSUME Init PROVE Base
  OBVIOUS
<1> USE DEF Init
<1>1. RowsOK
  BY DEF RowsOK, RowType, NoRow, Statuses
<1>2. MemoryOK
  BY DEF MemoryOK, PCs
<1>3. ProcessOK
  BY ConstantsAssumption DEF ProcessOK
<1>4. AuxOK
  BY ConstantsAssumption DEF AuxOK
<1>5. HandsOK
  BY DEF HandsOK, Engaged
<1>6. ClaimedBearsToken
  BY DEF ClaimedBearsToken, NoRow
<1> QED
  BY <1>1, <1>2, <1>3, <1>4, <1>5, <1>6 DEF Base, TypeOK

(* ... and after every step.                                               *)
LEMMA BaseStep == Base /\ [Next]_vars => Base'
<1> SUFFICES ASSUME Base, [Next]_vars PROVE Base'
  OBVIOUS
<1> USE DEF Base, TypeOK
<1>1. ASSUME NEW j \in Jobs, Enqueue(j) PROVE Base'
  <2>1. RowsOK' /\ ClaimedBearsToken'
    BY <1>1, ConstantsAssumption
    DEF Enqueue, RowsOK, ClaimedBearsToken, NoRow, RowType, Statuses
  <2>2. MemoryOK' /\ HandsOK' /\ ProcessOK'
    BY <1>1 DEF Enqueue, volatile, config, MemoryOK, HandsOK, Engaged, ProcessOK
  <2>3. AuxOK'
    BY <1>1 DEF Enqueue, AuxOK
  <2> QED
    BY <2>1, <2>2, <2>3
<1>2. ASSUME NEW j \in Jobs, Replay(j) PROVE Base'
  <2>1. rows[j] \in RowType
    BY DEF RowsOK
  <2>2. [Requeued(rows[j], 0) EXCEPT !.attempts = 0] \in
           {r \in RowType : r.status # "claimed"}
    BY <2>1, RowsStayRows, SettlesUnclaim DEF RowType
  <2>3. RowsOK' /\ ClaimedBearsToken'
    BY <1>2, <2>2 DEF Replay, RowsOK, ClaimedBearsToken
  <2>4. MemoryOK' /\ HandsOK' /\ ProcessOK'
    BY <1>2 DEF Replay, volatile, config, MemoryOK, HandsOK, Engaged, ProcessOK
  <2>5. AuxOK'
    BY <1>2 DEF Replay, AuxOK
  <2> QED
    BY <2>3, <2>4, <2>5
<1>3. ASSUME NEW u \in Users, SweepUserJobs(u) PROVE Base'
  <2>1. RowsOK' /\ ClaimedBearsToken'
    BY <1>3 DEF SweepUserJobs, RowsOK, ClaimedBearsToken, NoRow, RowType, Statuses
  <2> QED
    BY <1>3, <2>1 DEF SweepUserJobs, volatile, config, aux, MemoryOK, HandsOK,
                      Engaged, ProcessOK, AuxOK
<1>4. ASSUME NEW t \in Types, RegisterHandler(t) PROVE Base'
  BY <1>4 DEF RegisterHandler, volatile, aux, RowsOK, ClaimedBearsToken, MemoryOK,
              HandsOK, Engaged, ProcessOK, AuxOK
<1>5. ASSUME NEW G \in Gates, SetGate(G) PROVE Base'
  BY <1>5, ConstantsAssumption
  DEF SetGate, volatile, aux, RowsOK, ClaimedBearsToken, MemoryOK,
      HandsOK, Engaged, ProcessOK, AuxOK
<1>6. ASSUME NEW d \in Leases, SetLeaseTimeout(d) PROVE Base'
  BY <1>6 DEF SetLeaseTimeout, volatile, aux, RowsOK, ClaimedBearsToken, MemoryOK,
              HandsOK, Engaged, ProcessOK, AuxOK
<1>7. ASSUME NEW a \in Actors, Poll(a) PROVE Base'
  <2>1. {<<j, rows[j].token>> : j \in {k \in Jobs :
           Expired(k) /\ rows[k].attempts >= JobMax[k]}} \subseteq Jobs \X Tokens
    BY DEF ClaimedBearsToken, Expired
  <2>2. EligibleTypes \subseteq Types
    BY DEF ProcessOK, EligibleTypes
  <2>3. MemoryOK' /\ HandsOK'
    BY <1>7, <2>1, <2>2 DEF Poll, MemoryOK, HandsOK, Engaged, PCs
  <2> QED
    BY <1>7, <2>3 DEF Poll, config, aux, RowsOK, ClaimedBearsToken, ProcessOK, AuxOK
<1>8. ASSUME NEW a \in Actors, SweepOne(a) PROVE Base'
  <2>1. PICK f \in found[a] :
          /\ rows' = IF /\ rows[f[1]].status = "claimed"
                        /\ rows[f[1]].token = f[2]
                        /\ rows[f[1]].attempts >= JobMax[f[1]]
                     THEN [rows EXCEPT ![f[1]] = DeadLettered(@)]
                     ELSE rows
          /\ found' = [found EXCEPT ![a] = @ \ {f}]
    BY <1>8 DEF SweepOne
  <2>2. f[1] \in Jobs /\ rows[f[1]] \in RowType
    BY DEF MemoryOK, RowsOK
  <2>3. DeadLettered(rows[f[1]]) \in {r \in RowType : r.status # "claimed"}
    BY <2>2, RowsStayRows, SettlesUnclaim
  <2>4. RowsOK' /\ ClaimedBearsToken'
    BY <2>1, <2>2, <2>3 DEF RowsOK, ClaimedBearsToken
  <2>5. MemoryOK' /\ HandsOK'
    BY <1>8, <2>1 DEF SweepOne, MemoryOK, HandsOK, Engaged
  <2> QED
    BY <1>8, <2>4, <2>5 DEF SweepOne, config, aux, ProcessOK, AuxOK
<1>9. ASSUME NEW a \in Actors, PruneDone(a) PROVE Base'
  <2>1. RowsOK' /\ ClaimedBearsToken'
    BY <1>9 DEF PruneDone, RowsOK, ClaimedBearsToken, NoRow, RowType, Statuses
  <2>2. MemoryOK' /\ HandsOK'
    BY <1>9 DEF PruneDone, volatile, MemoryOK, HandsOK, Engaged, PCs
  <2>3. ProcessOK'
    BY <1>9, ConstantsAssumption DEF PruneDone, config, ProcessOK
  <2> QED
    BY <1>9, <2>1, <2>2, <2>3 DEF PruneDone, aux, AuxOK
<1>b. ASSUME NEW j \in Jobs, TokensLeft, ClaimRow(j)
      PROVE  RowsOK' /\ ClaimedBearsToken'
  <2>1. rows[j] \in RowType
    BY DEF RowsOK
  <2>2. FreshToken \in Tokens
    BY <1>b, FreshTokenIsFresh
  <2>3. Claimed(rows[j]) \in RowType /\ Claimed(rows[j]).token \in Tokens
    BY <2>1, <2>2 DEF Claimed, RowType, Statuses
  <2> QED
    BY <1>b, <2>3 DEF ClaimRow, RowsOK, ClaimedBearsToken
<1>10. ASSUME NEW a \in Actors, Claim(a) PROVE Base'
  <2>1. PICK j \in Candidates(a) :
          /\ ClaimRow(j)
          /\ job' = [job EXCEPT ![a] = j]
          /\ starts' = IF a \in Workers THEN starts
                       ELSE [starts EXCEPT ![j] = @ + 1]
    BY <1>10 DEF Claim
  <2>2. j \in Jobs
    BY DEF Candidates, First
  <2>3. RowsOK' /\ ClaimedBearsToken'
    BY <1>10, <1>b, <2>1, <2>2 DEF Claim
  <2>4. FreshToken \in Tokens
    BY <1>10, FreshTokenIsFresh DEF Claim
  <2>5. MemoryOK' /\ HandsOK'
    BY <1>10, <2>1, <2>2, <2>4 DEF Claim, MemoryOK, HandsOK, Engaged, PCs
  <2>6. AuxOK'
    BY <1>10, <2>1, <2>2 DEF Claim, AuxOK
  <2> QED
    BY <1>10, <2>3, <2>5, <2>6 DEF Claim, config, ProcessOK
<1>11. ASSUME NEW a \in Actors, ClaimNone(a) PROVE Base'
  BY <1>11, ForgetKeepsMemory
  DEF ClaimNone, config, aux, RowsOK, ClaimedBearsToken, ProcessOK, AuxOK
<1>12. ASSUME NEW w \in Workers, HandBack(w) PROVE Base'
  <2>0. w \in Actors /\ Engaged(w)
    BY <1>12 DEF Actors, HandBack, Engaged
  <2>1. RowsOK' /\ ClaimedBearsToken'
    BY <1>12, <2>0, RowOfEngaged, RowsStayRows, SettlesUnclaim, SettleKeepsRows
    DEF HandBack
  <2>2. MemoryOK' /\ HandsOK'
    BY <1>12, <2>0, ForgetKeepsMemory DEF HandBack
  <2> QED
    BY <1>12, <2>1, <2>2 DEF HandBack, config, aux, ProcessOK, AuxOK
<1>13. ASSUME NEW w \in Workers, Begin(w) PROVE Base'
  <2>0. w \in Actors
    BY DEF Actors
  <2>1. MemoryOK' /\ HandsOK'
    BY <1>13, <2>0 DEF Begin, volatile, MemoryOK, HandsOK, Engaged, PCs
  <2>2. job[w] \in Jobs
    BY <1>13, <2>0 DEF Begin, HandsOK, Engaged
  <2>3. AuxOK'
    BY <1>13, <2>2 DEF Begin, AuxOK
  <2> QED
    BY <1>13, <2>1, <2>3 DEF Begin, config, RowsOK, ClaimedBearsToken, ProcessOK
<1>14. ASSUME NEW w \in Workers, Return(w) \/ TimeOut(w) PROVE Base'
  <2>0. w \in Actors
    BY DEF Actors
  <2>1. MemoryOK' /\ HandsOK'
    BY <1>14, <2>0 DEF Return, TimeOut, volatile, MemoryOK, HandsOK, Engaged, PCs
  <2> QED
    BY <1>14, <2>1 DEF Return, TimeOut, config, aux, RowsOK, ClaimedBearsToken,
                       ProcessOK, AuxOK
<1>15. ASSUME NEW a \in Actors, Ack(a) PROVE Base'
  <2>0. Engaged(a)
    BY <1>15 DEF Ack, Engaged
  <2>1. RowsOK' /\ ClaimedBearsToken'
    BY <1>15, <2>0, RowOfEngaged, RowsStayRows, SettlesUnclaim, SettleKeepsRows
    DEF Ack
  <2>2. MemoryOK' /\ HandsOK'
    BY <1>15, <2>0, SettledKeepsMemory DEF Ack
  <2> QED
    BY <1>15, <2>1, <2>2 DEF Ack, config, aux, ProcessOK, AuxOK
<1>16. ASSUME NEW a \in Actors, Nack(a) PROVE Base'
  <2>0. Engaged(a)
    BY <1>16 DEF Nack, Engaged
  <2> DEFINE r == IF Row(a).attempts >= JobMax[job[a]]
                  THEN DeadLettered(Row(a)) ELSE Requeued(Row(a), Row(a).delay)
  <2>1. Row(a) \in RowType /\ Row(a).delay \in Nat
    BY <2>0, RowOfEngaged DEF RowType
  <2>2. r \in RowType /\ r.status # "claimed"
    BY <2>1, RowsStayRows, SettlesUnclaim
  <2>3. Settle(a, r)
    BY <1>16 DEF Nack
  <2> HIDE DEF r
  <2>4. RowsOK' /\ ClaimedBearsToken'
    BY <2>2, <2>3, SettleKeepsRows
  <2>5. MemoryOK' /\ HandsOK'
    BY <1>16, <2>0, SettledKeepsMemory DEF Nack
  <2> QED
    BY <1>16, <2>4, <2>5 DEF Nack, config, aux, ProcessOK, AuxOK
<1>17. ASSUME NEW a \in Actors, NackRead(a) PROVE Base'
  <2>0. Engaged(a)
    BY <1>17 DEF NackRead, Engaged
  <2>1. Row(a).attempts \in Nat
    BY <2>0, RowOfEngaged DEF RowType
  <2>2. MemoryOK' /\ HandsOK'
    <3>1. CASE Row(a).token = token[a]
      BY <1>17, <2>0, <2>1, <3>1 DEF NackRead, MemoryOK, HandsOK, Engaged, PCs
    <3>2. CASE Row(a).token # token[a]
      BY <1>17, <2>0, <3>2, SettledKeepsMemory DEF NackRead
    <3> QED
      BY <3>1, <3>2
  <2> QED
    BY <1>17, <2>2 DEF NackRead, config, aux, RowsOK, ClaimedBearsToken,
                       ProcessOK, AuxOK
<1>18. ASSUME NEW a \in Actors, NackWrite(a) PROVE Base'
  <2>0. Engaged(a)
    BY <1>18 DEF NackWrite, Engaged
  <2> DEFINE r == IF seen[a] >= JobMax[job[a]] THEN DeadLettered(Row(a))
                  ELSE Requeued(Row(a), BackoffDelay(seen[a]))
  <2>1. Row(a) \in RowType /\ job[a] \in Jobs
    BY <2>0, RowOfEngaged
  <2>2. ~(seen[a] >= JobMax[job[a]]) => BackoffDelay(seen[a]) \in Nat
    BY <2>1, ConstantsAssumption DEF MemoryOK
  <2>3. r \in RowType /\ r.status # "claimed"
    <3>1. CASE seen[a] >= JobMax[job[a]]
      BY <3>1, <2>1, RowsStayRows, SettlesUnclaim
    <3>2. CASE ~(seen[a] >= JobMax[job[a]])
      BY <3>2, <2>1, <2>2, RowsStayRows, SettlesUnclaim
    <3> QED
      BY <3>1, <3>2
  <2>4. Settle(a, r)
    BY <1>18 DEF NackWrite
  <2> HIDE DEF r
  <2>5. RowsOK' /\ ClaimedBearsToken'
    BY <2>3, <2>4, SettleKeepsRows
  <2>6. MemoryOK' /\ HandsOK'
    BY <1>18, <2>0, SettledKeepsMemory DEF NackWrite
  <2> QED
    BY <1>18, <2>5, <2>6 DEF NackWrite, config, aux, ProcessOK, AuxOK
<1>19. ASSUME NEW w \in Workers, NEW how \in Signals, Shutdown(w, how) PROVE Base'
  BY <1>19, ConstantsAssumption
  DEF Shutdown, volatile, config, aux, RowsOK, ClaimedBearsToken, MemoryOK, HandsOK,
      Engaged, ProcessOK, AuxOK
<1>20. ASSUME NEW w \in Workers, Exit(w) \/ Start(w) PROVE Base'
  <2>0. w \in Actors
    BY DEF Actors
  <2>1. MemoryOK' /\ HandsOK'
    BY <1>20, <2>0 DEF Exit, Start, volatile, MemoryOK, HandsOK, Engaged, PCs
  <2>2. ProcessOK'
    BY <1>20, ConstantsAssumption DEF Exit, Start, config, ProcessOK
  <2> QED
    BY <1>20, <2>1, <2>2 DEF Exit, Start, aux, RowsOK, ClaimedBearsToken, AuxOK
<1>c. ASSUME Fault PROVE faults' \in 0 .. MaxFaults
  BY <1>c, ConstantsAssumption DEF Fault, AuxOK
<1>21. ASSUME NEW a \in Actors, Crash(a) PROVE Base'
  <2>1. MemoryOK' /\ HandsOK'
    BY <1>21, ForgetKeepsMemory DEF Crash
  <2> QED
    BY <1>21, <1>c, <2>1 DEF Crash, config, RowsOK, ClaimedBearsToken, ProcessOK, AuxOK
<1>22. ASSUME NEW a \in Actors, DequeueFails(a) PROVE Base'
  <2>1. MemoryOK' /\ HandsOK'
    BY <1>22, ForgetKeepsMemory DEF DequeueFails
  <2>2. faults' \in 0 .. MaxFaults
    BY <1>22, <1>c DEF DequeueFails, AuxOK
  <2>3. ProcessOK'
    BY <1>22 DEF DequeueFails, config, ProcessOK
  <2> QED
    BY <1>22, <2>1, <2>2, <2>3
    DEF DequeueFails, config, RowsOK, ClaimedBearsToken, AuxOK
<1>23. ASSUME NEW a \in Actors, ClaimLost(a) PROVE Base'
  <2>1. PICK j \in Candidates(a) : ClaimRow(j)
    BY <1>23 DEF ClaimLost
  <2>2. RowsOK' /\ ClaimedBearsToken'
    BY <1>23, <1>b, <2>1 DEF ClaimLost, Candidates, First
  <2>3. MemoryOK' /\ HandsOK'
    BY <1>23, ForgetKeepsMemory DEF ClaimLost
  <2> QED
    BY <1>23, <1>c, <2>2, <2>3 DEF ClaimLost, config, ProcessOK, AuxOK
<1>24. ASSUME NEW w \in Workers, SettleFails(w) PROVE Base'
  <2>1. MemoryOK' /\ HandsOK'
    BY <1>24, ForgetKeepsMemory DEF SettleFails, Actors
  <2> QED
    BY <1>24, <1>c, <2>1
    DEF SettleFails, config, RowsOK, ClaimedBearsToken, ProcessOK, AuxOK
<1>25. CASE Tick
  <2>1. RowsOK'
    BY <1>25, RowsStayRows DEF Tick, RowsOK
  <2>2. \A j \in Jobs : /\ rows'[j].status = rows[j].status
                        /\ rows'[j].token = rows[j].token
    BY <1>25 DEF Tick, RowsOK, RowType, Aged
  <2>3. MemoryOK' /\ HandsOK'
    BY <1>25 DEF Tick, MemoryOK, HandsOK, Engaged, Later
  <2>4. ProcessOK'
    BY <1>25 DEF Tick, config, ProcessOK, Later
  <2> QED
    BY <1>25, <2>1, <2>2, <2>3, <2>4 DEF Tick, aux, ClaimedBearsToken, AuxOK
<1>26. CASE UNCHANGED vars
  BY <1>26 DEF vars, volatile, config, aux, RowsOK, ClaimedBearsToken, MemoryOK,
               HandsOK, Engaged, ProcessOK, AuxOK
<1>27. Workers \subseteq Actors /\ Consumers \subseteq Actors
  BY DEF Actors
<1> QED
  BY <1>1, <1>2, <1>3, <1>4, <1>5, <1>6, <1>7, <1>8, <1>9, <1>10, <1>11, <1>12,
     <1>13, <1>14, <1>15, <1>16, <1>17, <1>18, <1>19, <1>20, <1>21, <1>22, <1>23,
     <1>24, <1>25, <1>26, <1>27
  DEF Next, WorkerStep, Dequeue, Complete

(***************************************************************************)
(* Type correctness of the table, of every actor's memory and of the       *)
(* configuration, whatever workers, callers and operators do: in           *)
(* particular every lease SetLeaseTimeout leaves in force covers the       *)
(* handler budget.                                                         *)
(***************************************************************************)
THEOREM TypeCorrect == Spec => []TypeOK
<1>1. Base => TypeOK
  BY DEF Base
<1> QED
  BY InitBase, BaseStep, <1>1, PTL DEF Spec

-----------------------------------------------------------------------------
(***************************************************************************)
(* The inductive invariant.  AttemptBudget, UniqueLive and TokenIsOneClaim *)
(* are not inductive alone: nack's second statement acts on an attempt     *)
(* count it read before, and the sweep's UPDATE on a list it selected      *)
(* before, so what those two hold in memory is tied to the table here.     *)
(***************************************************************************)

(* What nack's SELECT read still describes the claim its UPDATE matches.   *)
SeenIsCurrent ==
  \A a \in Actors : pc[a] = "nackWrite" /\ Holds(a) => seen[a] = Row(a).attempts

(* A claim in a sweep's list, if still there, is past the shortest lease.  *)
SweepListsExpired ==
  \A a \in Actors : \A f \in found[a] :
    rows[f[1]].status = "claimed" /\ rows[f[1]].token = f[2]
      => rows[f[1]].age >= ShortestLease

IInv ==
  /\ Base
  /\ TokenIsOneClaim
  /\ SeenIsCurrent
  /\ SweepListsExpired
  /\ AttemptBudget
  /\ UniqueLive

(***************************************************************************)
(* What one step may do to the table.                                      *)
(***************************************************************************)
Verdict(a, r) ==
  \/ r = Retired(Row(a))
  \/ r = Released(Row(a))
  \/ Row(a).attempts >= JobMax[job[a]] /\ r = DeadLettered(Row(a))
  \/ Row(a).attempts < JobMax[job[a]] /\ \E d \in Nat : r = Requeued(Row(a), d)

(* The claimant a of a row settles it, and nobody else does anything.      *)
HolderSettles(a) ==
  /\ Engaged(a) /\ pc[a] # "running" /\ Holds(a)
  /\ resets' = resets
  /\ \A b \in Actors \ {a} : pc'[b] = pc[b] /\ found'[b] = found[b]
  /\ \E r \in RowType : Verdict(a, r) /\ rows' = [rows EXCEPT ![job[a]] = r]

SweepFails(f) ==
  /\ rows[f[1]].status = "claimed" /\ rows[f[1]].token = f[2]
  /\ rows[f[1]].attempts >= JobMax[f[1]]
  /\ rows' = [rows EXCEPT ![f[1]] = DeadLettered(@)]

TableStep ==
  \/ rows' = rows
  \/ \E j \in Jobs : Enqueue(j)
  \/ \E j \in Jobs : Replay(j)
  \/ \E u \in Users : SweepUserJobs(u)
  \/ \E a \in Actors : PruneDone(a)
  \/ \E a \in Actors : \E f \in found[a] : SweepFails(f)
  \/ \E a \in Actors : /\ Claim(a) \/ ClaimLost(a)
                      /\ \E j \in Candidates(a) : TokensLeft /\ ClaimRow(j)
  \/ \E a \in Actors : HolderSettles(a)
  \/ Tick

(* The frame of a settle: a's memory changes, nobody else's.               *)
LEMMA SettleIsVerdict ==
  ASSUME NEW a \in Actors, NEW r \in RowType, Engaged(a), pc[a] # "running",
         Settle(a, r), Holds(a) => Verdict(a, r), resets' = resets,
         \A b \in Actors \ {a} : pc'[b] = pc[b] /\ found'[b] = found[b]
  PROVE  TableStep
<1>1. CASE Holds(a)
  <2>1. HolderSettles(a)
    BY <1>1 DEF HolderSettles, Settle
  <2> QED
    BY <2>1 DEF TableStep
<1>2. CASE ~Holds(a)
  BY <1>2 DEF Settle, TableStep
<1> QED
  BY <1>1, <1>2

(* An actor that drops its claim moves nobody else.                        *)
LEMMA OthersUnmoved ==
  ASSUME MemoryOK, NEW a \in Actors,
         (\E p : Forget(a, p)) \/ Settled(a)
  PROVE  \A b \in Actors \ {a} : pc'[b] = pc[b] /\ found'[b] = found[b]
BY DEF MemoryOK, Forget, Settled

(* Every step does one of nine things to the table.                        *)
LEMMA NextIsTableStep == IInv /\ [Next]_vars => TableStep
<1> SUFFICES ASSUME IInv, [Next]_vars PROVE TableStep
  OBVIOUS
<1>0. Base /\ MemoryOK
  BY DEF IInv, Base, TypeOK
<1>1. ASSUME NEW a \in Actors, SweepOne(a) PROVE TableStep
  BY <1>1 DEF SweepOne, SweepFails, TableStep
<1>2. ASSUME NEW a \in Actors, Claim(a) \/ ClaimLost(a) PROVE TableStep
  BY <1>2 DEF Claim, ClaimLost, TableStep
<1>3. ASSUME NEW w \in Workers, HandBack(w) PROVE TableStep
  <2>1. w \in Actors /\ Engaged(w) /\ pc[w] # "running"
    BY <1>3 DEF HandBack, Actors, Engaged
  <2>2. Released(Row(w)) \in RowType
    BY <1>0, <2>1, RowOfEngaged, RowsStayRows
  <2> QED
    BY <1>0, <1>3, <2>1, <2>2, SettleIsVerdict, OthersUnmoved
    DEF HandBack, Verdict, aux
<1>4. ASSUME NEW a \in Actors, Ack(a) PROVE TableStep
  <2>1. Engaged(a) /\ pc[a] # "running"
    BY <1>4 DEF Ack, Engaged
  <2>2. Retired(Row(a)) \in RowType
    BY <1>0, <2>1, RowOfEngaged, RowsStayRows
  <2> QED
    BY <1>0, <1>4, <2>1, <2>2, SettleIsVerdict, OthersUnmoved DEF Ack, Verdict, aux
<1>5. ASSUME NEW a \in Actors, Nack(a) PROVE TableStep
  <2> DEFINE r == IF Row(a).attempts >= JobMax[job[a]]
                  THEN DeadLettered(Row(a)) ELSE Requeued(Row(a), Row(a).delay)
  <2>1. Engaged(a) /\ pc[a] # "running"
    BY <1>5 DEF Nack, Engaged
  <2>2. Row(a) \in RowType /\ Row(a).delay \in Nat /\ Row(a).attempts \in Nat
        /\ job[a] \in Jobs
    BY <1>0, <2>1, RowOfEngaged DEF RowType
  <2>3. r \in RowType
    BY <2>2, RowsStayRows
  <2>4. JobMax[job[a]] \in Nat
    BY <2>2, ConstantsAssumption
  <2>5. Verdict(a, r)
    BY <2>2, <2>4 DEF Verdict
  <2>6. Settle(a, r) /\ Settled(a) /\ resets' = resets
    BY <1>5 DEF Nack, aux
  <2> HIDE DEF r
  <2> QED
    BY <1>0, <2>1, <2>3, <2>5, <2>6, SettleIsVerdict, OthersUnmoved
<1>6. ASSUME NEW a \in Actors, NackWrite(a) PROVE TableStep
  <2> DEFINE r == IF seen[a] >= JobMax[job[a]] THEN DeadLettered(Row(a))
                  ELSE Requeued(Row(a), BackoffDelay(seen[a]))
  <2>1. Engaged(a) /\ pc[a] = "nackWrite"
    BY <1>6 DEF NackWrite, Engaged
  <2>2. Row(a) \in RowType /\ Row(a).attempts \in Nat /\ job[a] \in Jobs
    BY <1>0, <2>1, RowOfEngaged DEF RowType
  <2>3. JobMax[job[a]] \in Nat /\ seen[a] \in Nat
    BY <1>0, <2>2, ConstantsAssumption DEF MemoryOK
  <2>4. ~(seen[a] >= JobMax[job[a]]) => BackoffDelay(seen[a]) \in Nat
    BY <2>2, <2>3, ConstantsAssumption
  <2>5. r \in RowType
    <3>1. CASE seen[a] >= JobMax[job[a]]
      BY <3>1, <2>2, RowsStayRows
    <3>2. CASE ~(seen[a] >= JobMax[job[a]])
      BY <3>2, <2>2, <2>4, RowsStayRows
    <3> QED
      BY <3>1, <3>2
  <2>6. Holds(a) => Verdict(a, r)
    BY <2>1, <2>2, <2>3, <2>4 DEF Verdict, IInv, SeenIsCurrent
  <2>7. Settle(a, r) /\ Settled(a) /\ resets' = resets
    BY <1>6 DEF NackWrite, aux
  <2> HIDE DEF r
  <2> QED
    BY <1>0, <2>1, <2>5, <2>6, <2>7, SettleIsVerdict, OthersUnmoved
<1>7. ASSUME \/ \E t \in Types : RegisterHandler(t)
             \/ \E G \in Gates : SetGate(G)
             \/ \E d \in Leases : SetLeaseTimeout(d)
             \/ \E a \in Actors : Poll(a) \/ ClaimNone(a) \/ NackRead(a)
                                  \/ Crash(a) \/ DequeueFails(a)
             \/ \E w \in Workers : Begin(w) \/ Return(w) \/ TimeOut(w) \/ Exit(w)
                                   \/ Start(w) \/ SettleFails(w)
             \/ \E w \in Workers : \E how \in Signals : Shutdown(w, how)
             \/ UNCHANGED vars
      PROVE  TableStep
  <2>1. rows' = rows
    BY <1>7 DEF RegisterHandler, SetGate, SetLeaseTimeout, Poll, ClaimNone, NackRead,
                Crash, DequeueFails, Begin, Return, TimeOut, Exit, Start, SettleFails,
                Shutdown, vars
  <2> QED
    BY <2>1 DEF TableStep
<1>8. Workers \subseteq Actors /\ Consumers \subseteq Actors
  BY DEF Actors
<1>9. ASSUME \/ \E j \in Jobs : Enqueue(j) \/ Replay(j)
             \/ \E u \in Users : SweepUserJobs(u)
             \/ \E a \in Actors : PruneDone(a)
             \/ Tick
      PROVE  TableStep
  BY <1>9 DEF TableStep
<1> QED
  BY <1>1, <1>2, <1>3, <1>4, <1>5, <1>6, <1>7, <1>8, <1>9
  DEF Next, WorkerStep, Dequeue, Complete

(***************************************************************************)
(* Where a claimed row comes from: it was claimed before under the same    *)
(* token, with as many attempts and no older, or it was claimed just now   *)
(* under a fresh token.                                                    *)
(***************************************************************************)
SameClaimAged(j) ==
  /\ rows[j].status = "claimed"
  /\ rows'[j].token = rows[j].token
  /\ rows'[j].attempts = rows[j].attempts
  /\ rows'[j].age >= rows[j].age

FreshClaim(j) ==
  /\ TokensLeft /\ rows'[j] = Claimed(rows[j])
  /\ \E a \in Actors : Claim(a) \/ ClaimLost(a)

(* Time changes nothing of a row but its age.                              *)
LEMMA AgedKeeps ==
  ASSUME NEW r \in RowType
  PROVE  /\ Aged(r).status = r.status
         /\ Aged(r).token = r.token
         /\ Aged(r).attempts = r.attempts
         /\ Aged(r).age >= r.age
<1>1. /\ Aged(r).status = r.status
      /\ Aged(r).token = r.token
      /\ Aged(r).attempts = r.attempts
  BY DEF RowType, Aged
<1>2. Aged(r).age = IF r.status = "claimed" THEN Later(r.age, MaxLease)
                    ELSE IF r.status = "done" THEN Later(r.age, DoneRetention)
                    ELSE r.age
  BY DEF RowType, Aged
<1>3. r.age \in Nat
  BY DEF RowType
<1>4. Aged(r).age >= r.age
  BY <1>2, <1>3 DEF Later
<1> QED
  BY <1>1, <1>4

(* A claimed row kept its claim or was claimed just now.                   *)
LEMMA ClaimOrigin ==
  ASSUME IInv, TableStep, NEW j \in Jobs, rows'[j].status = "claimed"
  PROVE  SameClaimAged(j) \/ FreshClaim(j)
<1>0. RowsOK /\ MemoryOK /\ rows[j] \in RowType /\ rows[j].age \in Nat
  BY DEF IInv, Base, TypeOK, RowsOK, RowType
<1>1. CASE rows' = rows
  BY <1>0, <1>1 DEF SameClaimAged
<1>2. ASSUME NEW k \in Jobs, Enqueue(k) PROVE SameClaimAged(j)
  BY <1>0, <1>2 DEF Enqueue, RowsOK, NoRow, SameClaimAged
<1>3. ASSUME NEW k \in Jobs, Replay(k) PROVE SameClaimAged(j)
  BY <1>0, <1>3 DEF Replay, RowsOK, RowType, Requeued, SameClaimAged
<1>4. ASSUME NEW u \in Users, SweepUserJobs(u) PROVE SameClaimAged(j)
  BY <1>0, <1>4 DEF SweepUserJobs, NoRow, SameClaimAged
<1>5. ASSUME NEW a \in Actors, PruneDone(a) PROVE SameClaimAged(j)
  BY <1>0, <1>5 DEF PruneDone, NoRow, SameClaimAged
<1>6. ASSUME NEW a \in Actors, NEW f \in found[a], SweepFails(f)
      PROVE  SameClaimAged(j)
  <2>1. f[1] \in Jobs /\ rows[f[1]] \in RowType
    BY <1>0 DEF MemoryOK, RowsOK
  <2>2. DeadLettered(rows[f[1]]).status # "claimed"
    BY <2>1, SettlesUnclaim
  <2> QED
    BY <1>0, <1>6, <2>1, <2>2 DEF SweepFails, RowsOK, SameClaimAged
<1>7. ASSUME NEW a \in Actors, NEW k \in Candidates(a), TokensLeft, ClaimRow(k),
             Claim(a) \/ ClaimLost(a)
      PROVE  SameClaimAged(j) \/ FreshClaim(j)
  <2>1. k \in Jobs
    BY DEF Candidates, First
  <2> QED
    BY <1>0, <1>7, <2>1 DEF ClaimRow, RowsOK, SameClaimAged, FreshClaim
<1>8. ASSUME NEW a \in Actors, HolderSettles(a) PROVE SameClaimAged(j)
  <2>1. job[a] \in Jobs /\ Row(a) \in RowType
    BY <1>8, RowOfEngaged DEF HolderSettles, IInv
  <2>2. PICK r \in RowType : Verdict(a, r) /\ rows' = [rows EXCEPT ![job[a]] = r]
    BY <1>8 DEF HolderSettles
  <2>3. r.status # "claimed"
    BY <2>1, <2>2, SettlesUnclaim DEF Verdict
  <2> QED
    BY <1>0, <2>1, <2>2, <2>3 DEF RowsOK, SameClaimAged
<1>9. CASE Tick
  BY <1>0, <1>9, AgedKeeps DEF Tick, SameClaimAged
<1> QED
  BY <1>1, <1>2, <1>3, <1>4, <1>5, <1>6, <1>7, <1>8, <1>9 DEF TableStep

(* A row's token only ever changes to a fresh one or, with the row, goes.  *)
LEMMA RowTokens ==
  ASSUME IInv, TableStep, NEW j \in Jobs
  PROVE  \/ rows'[j].token \in {rows[j].token, NoToken}
         \/ FreshClaim(j)
<1>0. RowsOK /\ MemoryOK /\ rows[j] \in RowType
  BY DEF IInv, Base, TypeOK, RowsOK
<1>1. CASE rows' = rows
  BY <1>1
<1>2. ASSUME NEW k \in Jobs, Enqueue(k) PROVE rows'[j].token \in {rows[j].token, NoToken}
  BY <1>0, <1>2 DEF Enqueue, RowsOK, NoRow
<1>3. ASSUME NEW k \in Jobs, Replay(k) PROVE rows'[j].token \in {rows[j].token, NoToken}
  BY <1>0, <1>3 DEF Replay, RowsOK, RowType, Requeued
<1>4. ASSUME NEW u \in Users, SweepUserJobs(u) PROVE rows'[j].token \in {rows[j].token, NoToken}
  BY <1>0, <1>4 DEF SweepUserJobs, NoRow
<1>5. ASSUME NEW a \in Actors, PruneDone(a) PROVE rows'[j].token \in {rows[j].token, NoToken}
  BY <1>0, <1>5 DEF PruneDone, NoRow
<1>6. ASSUME NEW a \in Actors, NEW f \in found[a], SweepFails(f)
      PROVE  rows'[j].token \in {rows[j].token, NoToken}
  <2>1. f[1] \in Jobs /\ rows[f[1]] \in RowType
    BY <1>0 DEF MemoryOK, RowsOK
  <2>2. DeadLettered(rows[f[1]]).token = rows[f[1]].token
    BY <2>1 DEF DeadLettered, RowType
  <2> QED
    BY <1>0, <1>6, <2>1, <2>2 DEF SweepFails, RowsOK
<1>7. ASSUME NEW a \in Actors, NEW k \in Candidates(a), TokensLeft, ClaimRow(k),
             Claim(a) \/ ClaimLost(a)
      PROVE  rows'[j].token = rows[j].token \/ FreshClaim(j)
  <2>1. k \in Jobs
    BY DEF Candidates, First
  <2> QED
    BY <1>0, <1>7, <2>1 DEF ClaimRow, RowsOK, FreshClaim
<1>8. ASSUME NEW a \in Actors, HolderSettles(a)
      PROVE  rows'[j].token \in {rows[j].token, NoToken}
  <2>1. job[a] \in Jobs /\ Row(a) \in RowType
    BY <1>8, RowOfEngaged DEF HolderSettles, IInv
  <2>2. PICK r \in RowType : Verdict(a, r) /\ rows' = [rows EXCEPT ![job[a]] = r]
    BY <1>8 DEF HolderSettles
  <2>3. r.token \in {Row(a).token, NoToken}
    BY <2>1, <2>2, SettlesKeepToken DEF Verdict
  <2> QED
    BY <1>0, <2>1, <2>2, <2>3 DEF RowsOK, Row
<1>9. CASE Tick
  BY <1>0, <1>9, AgedKeeps DEF Tick
<1> QED
  BY <1>1, <1>2, <1>3, <1>4, <1>5, <1>6, <1>7, <1>8, <1>9 DEF TableStep

(***************************************************************************)
(* What one step may do to what the actors have in hand: each keeps its    *)
(* job and token or drops the token, unless somebody claims.               *)
(***************************************************************************)
KeepsOrDrops(b) ==
  \/ token'[b] = token[b] /\ job'[b] = job[b]
  \/ token'[b] = NoToken

(* An actor that drops its claim takes no other token.                     *)
LEMMA ForgetDrops ==
  ASSUME MemoryOK, NEW a \in Actors, (\E p : Forget(a, p)) \/ Settled(a)
  PROVE  \A b \in Actors : KeepsOrDrops(b)
BY DEF MemoryOK, Forget, Settled, KeepsOrDrops

(* Only a claim puts a token into a hand.                                  *)
LEMMA HandsMove ==
  Base /\ [Next]_vars =>
    (\A b \in Actors : KeepsOrDrops(b)) \/ (\E a \in Actors : Claim(a))
<1> SUFFICES ASSUME Base, [Next]_vars, ~\E a \in Actors : Claim(a)
             PROVE  \A b \in Actors : KeepsOrDrops(b)
  OBVIOUS
<1>0. MemoryOK
  BY DEF Base, TypeOK
<1>1. CASE UNCHANGED <<job, token>>
  BY <1>1 DEF KeepsOrDrops
<1>2. CASE \E a \in Actors : Settled(a) \/ \E p : Forget(a, p)
  BY <1>0, <1>2, ForgetDrops
<1>3. Workers \subseteq Actors /\ Consumers \subseteq Actors
  BY DEF Actors
<1>4. ASSUME \/ \E a \in Actors : ClaimNone(a) \/ Ack(a) \/ Nack(a) \/ NackWrite(a)
                                  \/ Crash(a) \/ DequeueFails(a) \/ ClaimLost(a)
             \/ \E w \in Workers : HandBack(w) \/ SettleFails(w)
      PROVE  \E a \in Actors : Settled(a) \/ \E p : Forget(a, p)
  BY <1>3, <1>4 DEF ClaimNone, HandBack, Ack, Nack, NackWrite, Crash, DequeueFails,
                    ClaimLost, SettleFails
<1>5. ASSUME NEW a \in Actors, NackRead(a)
      PROVE  UNCHANGED <<job, token>> \/ Settled(a)
  BY <1>5 DEF NackRead
<1>6. ASSUME \/ \E j \in Jobs : Enqueue(j) \/ Replay(j)
             \/ \E u \in Users : SweepUserJobs(u)
             \/ \E t \in Types : RegisterHandler(t)
             \/ \E G \in Gates : SetGate(G)
             \/ \E d \in Leases : SetLeaseTimeout(d)
             \/ \E a \in Actors : Poll(a) \/ SweepOne(a) \/ PruneDone(a)
             \/ \E w \in Workers : Begin(w) \/ Return(w) \/ TimeOut(w) \/ Exit(w)
                                   \/ Start(w)
             \/ \E w \in Workers : \E how \in Signals : Shutdown(w, how)
             \/ Tick
             \/ UNCHANGED vars
      PROVE  UNCHANGED <<job, token>>
  BY <1>6 DEF Enqueue, Replay, SweepUserJobs, RegisterHandler, SetGate,
              SetLeaseTimeout, Poll, SweepOne, PruneDone, Begin, Return, TimeOut,
              Exit, Start, Shutdown, Tick, vars, volatile
<1> QED
  BY <1>1, <1>2, <1>3, <1>4, <1>5, <1>6 DEF Next, WorkerStep, Dequeue, Complete

-----------------------------------------------------------------------------
(* One lemma per part of the inductive invariant.                          *)

(* A token stays with one actor and one row.                               *)
LEMMA TokenStep ==
  ASSUME IInv, [Next]_vars, Base', TableStep
  PROVE  TokenIsOneClaim'
<1> SUFFICES ASSUME NEW a \in Actors, Engaged(a)'
             PROVE  /\ \A b \in Actors \ {a} : token'[b] # token'[a]
                    /\ \A j \in Jobs : rows'[j].token = token'[a] => j = job'[a]
  BY DEF Base, HandsOK, TokenIsOneClaim
<1>0. Base /\ TokenIsOneClaim
  BY DEF IInv
<1>1. token'[a] \in Tokens /\ token'[a] # NoToken
  BY ConstantsAssumption DEF Base, HandsOK
<1>2. ASSUME KeepsOrDrops(a) PROVE Engaged(a) /\ token'[a] = token[a] /\ job'[a] = job[a]
  BY <1>0, <1>1, <1>2 DEF KeepsOrDrops, Base, HandsOK
<1>3. ASSUME NEW j \in Jobs, rows'[j].token \in Tokens
      PROVE  rows'[j].token = rows[j].token \/ FreshClaim(j)
  BY <1>3, RowTokens, ConstantsAssumption
<1>4. ASSUME NEW j \in Jobs, FreshClaim(j)
      PROVE  rows'[j].token = FreshToken /\ TokensLeft
  BY <1>4 DEF FreshClaim, Claimed
<1>5. CASE \A b \in Actors : KeepsOrDrops(b)
  <2>1. Engaged(a) /\ token'[a] = token[a] /\ job'[a] = job[a]
    BY <1>2, <1>5
  <2>2. \A b \in Actors \ {a} : token'[b] # token'[a]
    BY <1>0, <1>1, <1>5, <2>1 DEF KeepsOrDrops, TokenIsOneClaim
  <2>3. ASSUME NEW j \in Jobs, rows'[j].token = token'[a] PROVE j = job'[a]
    <3>1. ~FreshClaim(j)
      BY <1>4, <2>1, <2>3, FreshTokenIsFresh
    <3>2. rows[j].token = token[a]
      BY <1>1, <1>3, <2>1, <2>3, <3>1
    <3> QED
      BY <1>0, <2>1, <3>2 DEF TokenIsOneClaim
  <2> QED
    BY <2>2, <2>3
<1>6. ASSUME NEW c \in Actors, Claim(c)
      PROVE  /\ \A b \in Actors \ {a} : token'[b] # token'[a]
             /\ \A j \in Jobs : rows'[j].token = token'[a] => j = job'[a]
  <2>0. MemoryOK /\ RowsOK /\ TokensLeft
    BY <1>0, <1>6 DEF Base, TypeOK, Claim
  <2>1. PICK k \in Candidates(c) : ClaimRow(k) /\ job' = [job EXCEPT ![c] = k]
    BY <1>6 DEF Claim
  <2>2. k \in Jobs
    BY DEF Candidates, First
  <2>3. token' = [token EXCEPT ![c] = FreshToken]
    BY <1>6 DEF Claim
  <2>4. \A j \in Jobs : rows'[j].token = IF j = k THEN FreshToken ELSE rows[j].token
    BY <2>0, <2>1, <2>2 DEF ClaimRow, Claimed, RowsOK
  <2>5. CASE a = c
    BY <2>0, <2>1, <2>2, <2>3, <2>4, <2>5, FreshTokenIsFresh DEF MemoryOK
  <2>6. CASE a # c
    <3>1. Engaged(a) /\ token'[a] = token[a] /\ job'[a] = job[a]
      BY <1>2, <2>0, <2>1, <2>3, <2>6 DEF MemoryOK, KeepsOrDrops
    <3> QED
      BY <1>0, <2>0, <2>3, <2>4, <3>1, FreshTokenIsFresh DEF MemoryOK, TokenIsOneClaim
  <2> QED
    BY <2>5, <2>6
<1> QED
  BY <1>0, <1>5, <1>6, HandsMove

(* An actor between nack's two statements was there before with the same   *)
(* memory, or has just read its row.                                       *)
LEMMA SeenMoves ==
  ASSUME Base, [Next]_vars, NEW a \in Actors, pc'[a] = "nackWrite"
  PROVE  /\ job'[a] = job[a] /\ token'[a] = token[a]
         /\ \/ pc[a] = "nackWrite" /\ seen'[a] = seen[a]
            \/ rows' = rows /\ seen'[a] = Row(a).attempts
<1> DEFINE Goal == /\ job'[a] = job[a] /\ token'[a] = token[a]
                   /\ \/ pc[a] = "nackWrite" /\ seen'[a] = seen[a]
                      \/ rows' = rows /\ seen'[a] = Row(a).attempts
<1>0. MemoryOK
  BY DEF Base, TypeOK
<1>1. Workers \subseteq Actors /\ Consumers \subseteq Actors
  BY DEF Actors
<1>2. ASSUME UNCHANGED <<pc, job, token, seen>> PROVE Goal
  BY <1>2
<1>4. ASSUME NEW b \in Actors, NackRead(b) PROVE Goal
  <2>1. CASE Row(b).token = token[b]
    BY <1>0, <1>4, <2>1 DEF NackRead, MemoryOK
  <2>2. CASE Row(b).token # token[b]
    BY <1>0, <1>4, <2>2 DEF NackRead, MemoryOK, Settled, Forget
  <2> QED
    BY <2>1, <2>2
<1>5. ASSUME NEW b \in Actors, Claim(b) PROVE Goal
  BY <1>0, <1>5 DEF Claim, MemoryOK
<1>6. ASSUME NEW b \in Actors, Ack(b) \/ Nack(b) \/ NackWrite(b) PROVE Goal
  BY <1>0, <1>6 DEF Ack, Nack, NackWrite, Settled, Forget, MemoryOK
<1>7. ASSUME NEW b \in Actors, ClaimNone(b) \/ Crash(b) \/ DequeueFails(b) \/ ClaimLost(b)
      PROVE Goal
  BY <1>0, <1>7 DEF ClaimNone, Crash, DequeueFails, ClaimLost, Forget, MemoryOK
<1>8. ASSUME NEW w \in Workers, HandBack(w) \/ SettleFails(w) PROVE Goal
  BY <1>0, <1>1, <1>8 DEF HandBack, SettleFails, Forget, MemoryOK
<1>9. ASSUME \/ \E b \in Actors : Poll(b) \/ PruneDone(b)
             \/ \E w \in Workers : Begin(w) \/ Return(w) \/ TimeOut(w) \/ Exit(w)
                                   \/ Start(w)
      PROVE  Goal
  BY <1>0, <1>1, <1>9
  DEF Poll, PruneDone, Begin, Return, TimeOut, Exit, Start, volatile, MemoryOK
<1>10. ASSUME \/ \E j \in Jobs : Enqueue(j) \/ Replay(j)
              \/ \E u \in Users : SweepUserJobs(u)
              \/ \E t \in Types : RegisterHandler(t)
              \/ \E G \in Gates : SetGate(G)
              \/ \E d \in Leases : SetLeaseTimeout(d)
              \/ \E b \in Actors : SweepOne(b)
              \/ \E w \in Workers : \E how \in Signals : Shutdown(w, how)
              \/ Tick
              \/ UNCHANGED vars
       PROVE  UNCHANGED <<pc, job, token, seen>>
  BY <1>10 DEF Enqueue, Replay, SweepUserJobs, RegisterHandler, SetGate,
               SetLeaseTimeout, SweepOne, Shutdown, Tick, vars, volatile
<1> HIDE DEF Goal
<1>11. Goal
  BY <1>1, <1>2, <1>4, <1>5, <1>6, <1>7, <1>8, <1>9, <1>10
  DEF Next, WorkerStep, Dequeue, Complete
<1> QED
  BY <1>11 DEF Goal

(* What nack's SELECT read is true while its UPDATE can match.             *)
LEMMA SeenStep ==
  ASSUME IInv, [Next]_vars, TableStep
  PROVE  SeenIsCurrent'
<1> SUFFICES ASSUME NEW a \in Actors, pc'[a] = "nackWrite", Holds(a)'
             PROVE  seen'[a] = Row(a)'.attempts
  BY DEF SeenIsCurrent
<1>0. Base
  BY DEF IInv
<1>1. /\ job'[a] = job[a] /\ token'[a] = token[a]
      /\ \/ pc[a] = "nackWrite" /\ seen'[a] = seen[a]
         \/ rows' = rows /\ seen'[a] = Row(a).attempts
  BY <1>0, SeenMoves
<1>2. CASE rows' = rows /\ seen'[a] = Row(a).attempts
  BY <1>1, <1>2 DEF Row
<1>3. CASE pc[a] = "nackWrite" /\ seen'[a] = seen[a]
  <2>1. job[a] \in Jobs
    BY <1>0, <1>3 DEF Base, HandsOK, Engaged
  <2>2. rows'[job[a]].status = "claimed" /\ rows'[job[a]].token = token[a]
    BY <1>1 DEF Holds
  <2>3. ~FreshClaim(job[a])
    BY <2>2, FreshTokenIsFresh DEF FreshClaim, Claimed
  <2>4. SameClaimAged(job[a])
    BY <2>1, <2>2, <2>3, ClaimOrigin
  <2>5. Holds(a) /\ rows'[job[a]].attempts = Row(a).attempts
    BY <2>1, <2>2, <2>4, ConstantsAssumption DEF SameClaimAged, Holds, Row
  <2> QED
    BY <1>1, <1>3, <2>5 DEF IInv, SeenIsCurrent, Row
<1> QED
  BY <1>1, <1>2, <1>3

(* The lease in force is never shorter than the shortest.                  *)
LEMMA ShortestIsShortest ==
  ASSUME ProcessOK
  PROVE  ShortestLease \in Nat /\ ShortestLease <= lease
<1>1. /\ ShortestLease \in Leases
      /\ \A e \in Leases : LeaseCoversBudget(e) => ShortestLease <= e
  BY LeaseAssumption DEF ShortestLease
<1> QED
  BY <1>1, ConstantsAssumption DEF ProcessOK

(* A sweep's list only shrinks, except where its SELECT fills it.          *)
LEMMA ListMoves ==
  ASSUME Base, [Next]_vars, NEW a \in Actors
  PROVE  found'[a] \subseteq found[a] \/ Poll(a)
<1> DEFINE Goal == found'[a] \subseteq found[a] \/ Poll(a)
<1>0. MemoryOK
  BY DEF Base, TypeOK
<1>1. Workers \subseteq Actors /\ Consumers \subseteq Actors
  BY DEF Actors
<1>2. ASSUME NEW b \in Actors, Settled(b) \/ \E p : Forget(b, p) PROVE Goal
  BY <1>0, <1>2 DEF MemoryOK, Settled, Forget
<1>3. ASSUME NEW b \in Actors, Poll(b) \/ SweepOne(b) PROVE Goal
  BY <1>0, <1>3 DEF Poll, SweepOne, MemoryOK
<1>4. ASSUME found' = found PROVE Goal
  BY <1>4
<1>5. ASSUME \/ \E b \in Actors : ClaimNone(b) \/ Ack(b) \/ Nack(b) \/ NackWrite(b)
                                  \/ Crash(b) \/ DequeueFails(b) \/ ClaimLost(b)
             \/ \E w \in Workers : HandBack(w) \/ SettleFails(w)
      PROVE  \E b \in Actors : Settled(b) \/ \E p : Forget(b, p)
  BY <1>1, <1>5 DEF ClaimNone, HandBack, Ack, Nack, NackWrite, Crash, DequeueFails,
                    ClaimLost, SettleFails
<1>6. ASSUME NEW b \in Actors, NackRead(b) PROVE found' = found \/ Settled(b)
  BY <1>6 DEF NackRead
<1>7. ASSUME \/ \E j \in Jobs : Enqueue(j) \/ Replay(j)
             \/ \E u \in Users : SweepUserJobs(u)
             \/ \E t \in Types : RegisterHandler(t)
             \/ \E G \in Gates : SetGate(G)
             \/ \E d \in Leases : SetLeaseTimeout(d)
             \/ \E b \in Actors : PruneDone(b) \/ Claim(b)
             \/ \E w \in Workers : Begin(w) \/ Return(w) \/ TimeOut(w) \/ Exit(w)
                                   \/ Start(w)
             \/ \E w \in Workers : \E how \in Signals : Shutdown(w, how)
             \/ Tick
             \/ UNCHANGED vars
      PROVE  found' = found
  BY <1>7 DEF Enqueue, Replay, SweepUserJobs, RegisterHandler, SetGate,
              SetLeaseTimeout, PruneDone, Claim, Begin, Return, TimeOut,
              Exit, Start, Shutdown, Tick, vars, volatile
<1> HIDE DEF Goal
<1>8. Goal
  BY <1>1, <1>2, <1>3, <1>4, <1>5, <1>6, <1>7 DEF Next, WorkerStep, Dequeue, Complete
<1> QED
  BY <1>8 DEF Goal

(* What a sweep has listed is past the shortest lease.                     *)
LEMMA SweepStep ==
  ASSUME IInv, [Next]_vars, TableStep
  PROVE  SweepListsExpired'
<1> SUFFICES ASSUME NEW a \in Actors, NEW f \in found'[a],
                    rows'[f[1]].status = "claimed", rows'[f[1]].token = f[2]
             PROVE  rows'[f[1]].age >= ShortestLease
  BY DEF SweepListsExpired
<1>0. Base /\ MemoryOK /\ RowsOK /\ ProcessOK
  BY DEF IInv, Base, TypeOK
<1>1. CASE f \in found[a]
  <2>1. f[1] \in Jobs
    BY <1>0, <1>1 DEF MemoryOK
  <2>2. ~FreshClaim(f[1])
    BY <1>1, FreshTokenIsFresh DEF FreshClaim, Claimed
  <2>3. SameClaimAged(f[1])
    BY <2>1, <2>2, ClaimOrigin
  <2>4. rows[f[1]].age >= ShortestLease
    BY <1>1, <2>3 DEF SameClaimAged, IInv, SweepListsExpired
  <2>5. rows[f[1]].age \in Nat /\ rows'[f[1]].age \in Nat /\ ShortestLease \in Nat
    <3>1. RowsOK'
      BY <1>0, BaseStep DEF Base, TypeOK
    <3> QED
      BY <1>0, <2>1, <3>1, ShortestIsShortest DEF RowsOK, RowType
  <2> QED
    BY <2>3, <2>4, <2>5 DEF SameClaimAged
<1>2. CASE Poll(a)
  <2>1. f[1] \in Jobs /\ Expired(f[1]) /\ rows' = rows
    BY <1>0, <1>2 DEF Poll, MemoryOK
  <2>2. rows[f[1]].age \in Nat /\ lease \in Nat
    BY <1>0, <2>1, ConstantsAssumption DEF RowsOK, RowType, ProcessOK
  <2> QED
    BY <1>0, <2>1, <2>2, ShortestIsShortest DEF Expired
<1> QED
  BY <1>0, <1>1, <1>2, ListMoves

(* The budget of one row.                                                  *)
BudgetOK(j, r) ==
  /\ r.status = "pending" => r.attempts < JobMax[j]
  /\ r.status = "claimed" => r.attempts \in 1 .. JobMax[j]
  /\ r.status = "failed"  => r.attempts = JobMax[j]

(* Every verdict on a claim within its budget leaves the row within it.    *)
LEMMA VerdictInBudget ==
  ASSUME NEW j \in Jobs, NEW r \in RowType, r.attempts \in 1 .. JobMax[j]
  PROVE  /\ BudgetOK(j, Retired(r))
         /\ BudgetOK(j, Released(r))
         /\ r.attempts >= JobMax[j] => BudgetOK(j, DeadLettered(r))
         /\ r.attempts < JobMax[j] => \A d \in Nat : BudgetOK(j, Requeued(r, d))
<1>0. JobMax[j] \in Nat \ {0} /\ r.attempts \in Nat
  BY ConstantsAssumption DEF RowType
<1>1. BudgetOK(j, Retired(r))
  <2>1. Retired(r).status \in {"done", "absent"}
    BY DEF Retired, NoRow, RowType
  <2> QED
    BY <2>1 DEF BudgetOK
<1>2. BudgetOK(j, Released(r))
  <2>1. Released(r).status = "pending"
        /\ Released(r).attempts = IF r.attempts > 0 THEN r.attempts - 1 ELSE 0
    BY DEF Released, Requeued, RowType
  <2> QED
    BY <1>0, <2>1 DEF BudgetOK
<1>3. ASSUME r.attempts >= JobMax[j] PROVE BudgetOK(j, DeadLettered(r))
  <2>1. DeadLettered(r).status = "failed" /\ DeadLettered(r).attempts = r.attempts
    BY DEF DeadLettered, RowType
  <2> QED
    BY <1>0, <1>3, <2>1 DEF BudgetOK
<1>4. ASSUME r.attempts < JobMax[j], NEW d \in Nat PROVE BudgetOK(j, Requeued(r, d))
  <2>1. Requeued(r, d).status = "pending" /\ Requeued(r, d).attempts = r.attempts
    BY DEF Requeued, RowType
  <2> QED
    BY <1>4, <2>1 DEF BudgetOK
<1> QED
  BY <1>1, <1>2, <1>3, <1>4

(* No step leaves a row outside its attempt budget.                        *)
LEMMA BudgetStep ==
  ASSUME IInv, TableStep
  PROVE  AttemptBudget'
<1> SUFFICES ASSUME NEW j \in Jobs PROVE BudgetOK(j, rows'[j])
  BY DEF AttemptBudget, BudgetOK
<1>0. RowsOK /\ MemoryOK /\ rows[j] \in RowType /\ BudgetOK(j, rows[j])
  BY DEF IInv, Base, TypeOK, RowsOK, AttemptBudget, BudgetOK
<1>a. JobMax[j] \in Nat \ {0} /\ rows[j].attempts \in Nat
  BY <1>0, ConstantsAssumption DEF RowType
<1>b. BudgetOK(j, NoRow)
  BY DEF BudgetOK, NoRow
<1>1. CASE rows' = rows
  BY <1>0, <1>1
<1>2. ASSUME NEW k \in Jobs, Enqueue(k) PROVE BudgetOK(j, rows'[j])
  BY <1>0, <1>a, <1>2 DEF Enqueue, RowsOK, NoRow, BudgetOK
<1>3. ASSUME NEW k \in Jobs, Replay(k) PROVE BudgetOK(j, rows'[j])
  <2>1. CASE j = k
    <3>1. rows'[j].status = "pending" /\ rows'[j].attempts = 0
      BY <1>0, <1>3, <2>1 DEF Replay, RowsOK, RowType, Requeued
    <3> QED
      BY <1>a, <3>1 DEF BudgetOK
  <2>2. CASE j # k
    BY <1>0, <1>3, <2>2 DEF Replay, RowsOK
  <2> QED
    BY <2>1, <2>2
<1>4. ASSUME NEW u \in Users, SweepUserJobs(u) PROVE BudgetOK(j, rows'[j])
  BY <1>0, <1>b, <1>4 DEF SweepUserJobs
<1>5. ASSUME NEW a \in Actors, PruneDone(a) PROVE BudgetOK(j, rows'[j])
  BY <1>0, <1>b, <1>5 DEF PruneDone
<1>6. ASSUME NEW a \in Actors, NEW f \in found[a], SweepFails(f)
      PROVE  BudgetOK(j, rows'[j])
  <2>1. f[1] \in Jobs
    BY <1>0 DEF MemoryOK
  <2>2. CASE j = f[1]
    <3>1. rows'[j] = DeadLettered(rows[j]) /\ rows[j].attempts >= JobMax[j]
          /\ rows[j].status = "claimed"
      BY <1>0, <1>6, <2>2 DEF SweepFails, RowsOK
    <3> QED
      BY <1>0, <3>1, VerdictInBudget DEF BudgetOK
  <2>3. CASE j # f[1]
    BY <1>0, <1>6, <2>3 DEF SweepFails, RowsOK
  <2> QED
    BY <2>2, <2>3
<1>7. ASSUME NEW a \in Actors, NEW k \in Candidates(a), ClaimRow(k)
      PROVE  BudgetOK(j, rows'[j])
  <2>1. CASE j = k
    <3>1. rows[j].attempts < JobMax[j]
      BY <1>0, <2>1 DEF Candidates, First, EligibleWhere, BudgetOK
    <3>2. rows'[j].status = "claimed" /\ rows'[j].attempts = rows[j].attempts + 1
      BY <1>0, <1>7, <2>1 DEF ClaimRow, Claimed, RowsOK
    <3> QED
      BY <1>a, <3>1, <3>2 DEF BudgetOK
  <2>2. CASE j # k
    BY <1>0, <1>7, <2>2 DEF ClaimRow, RowsOK
  <2> QED
    BY <2>1, <2>2
<1>8. ASSUME NEW a \in Actors, HolderSettles(a) PROVE BudgetOK(j, rows'[j])
  <2>1. PICK r \in RowType : Verdict(a, r) /\ rows' = [rows EXCEPT ![job[a]] = r]
    BY <1>8 DEF HolderSettles
  <2>2. CASE j = job[a]
    <3>1. rows[j].attempts \in 1 .. JobMax[j] /\ Row(a) = rows[j]
      BY <1>0, <1>8, <2>2 DEF HolderSettles, Holds, Row, BudgetOK
    <3>2. BudgetOK(j, r)
      BY <1>0, <2>1, <2>2, <3>1, VerdictInBudget DEF Verdict
    <3> QED
      BY <1>0, <2>1, <2>2, <3>2 DEF RowsOK
  <2>3. CASE j # job[a]
    BY <1>0, <2>1, <2>3 DEF RowsOK
  <2> QED
    BY <2>2, <2>3
<1>9. CASE Tick
  <2>1. rows'[j].status = rows[j].status /\ rows'[j].attempts = rows[j].attempts
    BY <1>0, <1>9, AgedKeeps DEF Tick
  <2> QED
    BY <1>0, <2>1 DEF BudgetOK
<1> QED
  BY <1>1, <1>2, <1>3, <1>4, <1>5, <1>6, <1>7, <1>8, <1>9 DEF TableStep

(* A live row was live before, or has just been made live by a statement   *)
(* that found its key free and touched no other row.                       *)
LEMMA LiveOrigin ==
  ASSUME IInv, TableStep, NEW j \in Jobs, Live(j)'
  PROVE  \/ Live(j)
         \/ KeyFree(j) /\ \A k \in Jobs \ {j} : rows'[k] = rows[k]
<1>0. RowsOK /\ MemoryOK /\ rows[j] \in RowType
  BY DEF IInv, Base, TypeOK, RowsOK
<1> DEFINE Goal == \/ Live(j)
                   \/ KeyFree(j) /\ \A k \in Jobs \ {j} : rows'[k] = rows[k]
<1>1. CASE rows' = rows
  BY <1>1 DEF Live
<1>2. ASSUME NEW k \in Jobs, Enqueue(k) \/ Replay(k) PROVE Goal
  BY <1>0, <1>2 DEF Enqueue, Replay, RowsOK, Live
<1>3. ASSUME \/ \E u \in Users : SweepUserJobs(u)
             \/ \E a \in Actors : PruneDone(a)
      PROVE  Goal
  BY <1>0, <1>3 DEF SweepUserJobs, PruneDone, NoRow, Live
<1>4. ASSUME NEW a \in Actors, NEW f \in found[a], SweepFails(f) PROVE Goal
  BY <1>0, <1>4 DEF SweepFails, RowsOK, Live
<1>5. ASSUME NEW a \in Actors, NEW k \in Candidates(a), ClaimRow(k) PROVE Goal
  <2>1. Live(k)
    BY DEF Candidates, First, EligibleWhere, Expired, Live
  <2> QED
    BY <1>0, <1>5, <2>1 DEF ClaimRow, RowsOK, Live
<1>6. ASSUME NEW a \in Actors, HolderSettles(a) PROVE Goal
  BY <1>0, <1>6 DEF HolderSettles, Holds, RowsOK, Live
<1>7. CASE Tick
  BY <1>0, <1>7, AgedKeeps DEF Tick, Live
<1> QED
  BY <1>1, <1>2, <1>3, <1>4, <1>5, <1>6, <1>7 DEF TableStep

(* No step makes two rivals live.                                          *)
LEMMA UniqueStep ==
  ASSUME IInv, TableStep
  PROVE  UniqueLive'
<1> SUFFICES ASSUME NEW j \in Jobs, NEW k \in Jobs, Rivals(j, k), Live(j)', Live(k)'
             PROVE  FALSE
  BY DEF UniqueLive, Live
<1>1. Rivals(k, j) /\ j # k
  BY DEF Rivals
<1>2. ~(Live(j) /\ Live(k))
  BY DEF IInv, UniqueLive, Live
<1>3. CASE ~Live(j)
  <2>1. KeyFree(j) /\ \A i \in Jobs \ {j} : rows'[i] = rows[i]
    BY <1>3, LiveOrigin
  <2> QED
    BY <1>1, <2>1 DEF KeyFree, Live
<1>4. CASE ~Live(k)
  <2>1. KeyFree(k) /\ \A i \in Jobs \ {k} : rows'[i] = rows[i]
    BY <1>4, LiveOrigin
  <2> QED
    BY <1>1, <2>1 DEF KeyFree, Live
<1> QED
  BY <1>2, <1>3, <1>4

(* The inductive invariant holds at the start ...                          *)
LEMMA InitIInv == Init => IInv
<1> SUFFICES ASSUME Init PROVE IInv
  OBVIOUS
<1>1. Base
  BY InitBase
<1>2. TokenIsOneClaim /\ SeenIsCurrent
  BY DEF Init, TokenIsOneClaim, SeenIsCurrent, Engaged
<1>3. SweepListsExpired
  BY DEF Init, SweepListsExpired
<1>4. AttemptBudget /\ UniqueLive
  BY DEF Init, AttemptBudget, UniqueLive, NoRow
<1> QED
  BY <1>1, <1>2, <1>3, <1>4 DEF IInv

(* ... and after every step ...                                            *)
LEMMA IInvStep == IInv /\ [Next]_vars => IInv'
<1> SUFFICES ASSUME IInv, [Next]_vars PROVE IInv'
  OBVIOUS
<1>1. Base' /\ TableStep
  BY BaseStep, NextIsTableStep DEF IInv
<1>2. TokenIsOneClaim'
  BY <1>1, TokenStep
<1>3. SeenIsCurrent' /\ SweepListsExpired'
  BY <1>1, SeenStep, SweepStep
<1>4. AttemptBudget' /\ UniqueLive'
  BY <1>1, BudgetStep, UniqueStep
<1> QED
  BY <1>1, <1>2, <1>3, <1>4 DEF IInv

(* ... so it is an invariant.                                              *)
LEMMA Invariance == Spec => []IInv
BY InitIInv, IInvStep, PTL DEF Spec

-----------------------------------------------------------------------------
(* No interleaving of workers, callers, sweeps and replays runs a row past *)
(* MaxAttempts, parks a spent row as pending, or dead-letters it early.    *)
THEOREM AttemptBudgetHolds == Spec => []AttemptBudget
<1>1. IInv => AttemptBudget
  BY DEF IInv
<1> QED
  BY Invariance, <1>1, PTL

(* The claim token is a sound fence: no two actors ever present the same   *)
(* one, and no row but the one its owner claimed bears it.                 *)
THEOREM TokenFenceHolds == Spec => []TokenIsOneClaim
<1>1. IInv => TokenIsOneClaim
  BY DEF IInv
<1> QED
  BY Invariance, <1>1, PTL

(* One live job per type and unique key, replays included.                 *)
THEOREM UniqueLiveHolds == Spec => []UniqueLive
<1>1. IInv => UniqueLive
  BY DEF IInv
<1> QED
  BY Invariance, <1>1, PTL

-----------------------------------------------------------------------------
(* Action properties: one lemma about a step, one theorem about behaviours. *)

(* One step keeps a claim inside its lease.                                *)
LEMMA ClaimKept ==
  ASSUME IInv, TableStep, NEW j \in Jobs
  PROVE  KeepsClaim(j)
<1> SUFFICES ASSUME rows[j].status = "claimed", rows[j].age < ShortestLease
             PROVE  SameClaim(j) \/ Erased(j) \/ \E a \in Actors : SettledByHolder(a, j)
  BY DEF KeepsClaim
<1>0. RowsOK /\ MemoryOK /\ ProcessOK /\ rows[j] \in RowType /\ SweepListsExpired
  BY DEF IInv, Base, TypeOK, RowsOK
<1>a. rows[j].age \in Nat /\ lease \in Nat /\ ShortestLease \in Nat /\ ShortestLease <= lease
  BY <1>0, ConstantsAssumption, ShortestIsShortest DEF RowType, ProcessOK
<1>1. CASE rows' = rows
  BY <1>1 DEF SameClaim
<1>2. ASSUME NEW k \in Jobs, Enqueue(k) \/ Replay(k) PROVE SameClaim(j)
  BY <1>0, <1>2 DEF Enqueue, Replay, RowsOK, SameClaim
<1>3. ASSUME NEW u \in Users, SweepUserJobs(u) PROVE SameClaim(j) \/ Erased(j)
  BY <1>3, ConstantsAssumption DEF SweepUserJobs, SameClaim, Erased
<1>4. ASSUME NEW a \in Actors, PruneDone(a) PROVE SameClaim(j)
  BY <1>4 DEF PruneDone, SameClaim
<1>5. ASSUME NEW a \in Actors, NEW f \in found[a], SweepFails(f) PROVE SameClaim(j)
  <2>1. f[1] # j
    BY <1>0, <1>a, <1>5 DEF SweepFails, SweepListsExpired
  <2> QED
    BY <1>0, <1>5, <2>1 DEF SweepFails, RowsOK, SameClaim
<1>6. ASSUME NEW a \in Actors, NEW k \in Candidates(a), ClaimRow(k) PROVE SameClaim(j)
  <2>1. k # j
    BY <1>a DEF Candidates, First, EligibleWhere, Expired
  <2> QED
    BY <1>0, <1>6, <2>1 DEF ClaimRow, RowsOK, SameClaim
<1>7. ASSUME NEW a \in Actors, HolderSettles(a)
      PROVE  SameClaim(j) \/ SettledByHolder(a, j)
  BY <1>0, <1>7 DEF HolderSettles, SettledByHolder, RowsOK, SameClaim
<1>8. CASE Tick
  BY <1>0, <1>8, AgedKeeps DEF Tick, SameClaim
<1> QED
  BY <1>1, <1>2, <1>3, <1>4, <1>5, <1>6, <1>7, <1>8 DEF TableStep

(* A lease is exclusive: until it runs out, no step but the claimant's own *)
(* settle or an erasure ends a claim.                                      *)
THEOREM LeaseProtectsHolds == Spec => LeaseProtects
<1>1. IInv /\ [Next]_vars => [\A j \in Jobs : KeepsClaim(j)]_vars
  BY NextIsTableStep, ClaimKept
<1> QED
  BY Invariance, <1>1, PTL DEF Spec, LeaseProtects

(* One step keeps the row of a handler inside its budget.                  *)
LEMMA RunKept ==
  ASSUME IInv, TableStep, NEW w \in Workers
  PROVE  KeepsRun(w)
<1> SUFFICES ASSUME pc[w] = "running", ran[w] < HandlerTimeout, Holds(w),
                    Row(w).age + HandlerTimeout <= ShortestLease + ran[w]
             PROVE  SameClaim(job[w]) \/ Erased(job[w])
  BY DEF KeepsRun
<1>0. w \in Actors /\ Engaged(w) /\ Base /\ TokenIsOneClaim
  BY DEF Actors, Engaged, IInv
<1>1. job[w] \in Jobs /\ Row(w).age \in Nat
  BY <1>0, RowOfEngaged DEF RowType
<1>2. ran[w] \in Nat /\ HandlerTimeout \in Nat /\ ShortestLease \in Nat
  BY <1>0, ConstantsAssumption, ShortestIsShortest DEF Base, TypeOK, MemoryOK
<1>3. rows[job[w]].status = "claimed" /\ rows[job[w]].age < ShortestLease
  BY <1>1, <1>2 DEF Holds, Row
<1>4. ASSUME NEW a \in Actors, SettledByHolder(a, job[w]) PROVE FALSE
  <2>1. token[a] = token[w] /\ a # w
    BY <1>4 DEF SettledByHolder, Holds
  <2> QED
    BY <1>0, <2>1 DEF TokenIsOneClaim
<1> QED
  BY <1>1, <1>3, <1>4, ClaimKept DEF KeepsClaim

(* A handler inside its budget, started promptly, keeps its row.           *)
THEOREM BudgetCoveredHolds == Spec => BudgetCovered
<1>1. IInv /\ [Next]_vars => [\A w \in Workers : KeepsRun(w)]_vars
  BY NextIsTableStep, RunKept
<1> QED
  BY Invariance, <1>1, PTL DEF Spec, BudgetCovered

(* What a step makes of a row that nobody may settle any more.             *)
LEMMA UnclaimedKept ==
  ASSUME IInv, TableStep, NEW j \in Jobs
  PROVE  StaysSettled(j) /\ StaysGone(j)
<1>0. RowsOK /\ MemoryOK /\ rows[j] \in RowType /\ resets \in [Jobs -> Nat]
  BY DEF IInv, Base, TypeOK, RowsOK, AuxOK
<1> USE DEF StaysSettled, StaysGone
<1>1. CASE rows'[j] = rows[j] \/ rows'[j].status = rows[j].status
  BY <1>1
<1>2. CASE rows[j].status \in {"done", "failed", "absent"} /\ rows'[j] = NoRow
  BY <1>2 DEF NoRow
<1>3. CASE rows[j].status \in {"pending", "claimed"}
  BY <1>3
<1>4. ASSUME NEW k \in Jobs, Enqueue(k) PROVE StaysSettled(j) /\ StaysGone(j)
  <2>1. CASE k = j
    BY <1>0, <1>4, <2>1 DEF Enqueue, RowsOK, NoRow
  <2>2. CASE k # j
    BY <1>0, <1>1, <1>4, <2>2 DEF Enqueue, RowsOK
  <2> QED
    BY <2>1, <2>2
<1>5. ASSUME NEW k \in Jobs, Replay(k) PROVE StaysSettled(j) /\ StaysGone(j)
  <2>1. CASE k = j
    <3>1. rows'[j].status = "pending" /\ rows'[j].attempts = 0
      BY <1>0, <1>5, <2>1 DEF Replay, RowsOK, RowType, Requeued
    <3> QED
      BY <1>0, <1>5, <2>1, <3>1 DEF Replay
  <2>2. CASE k # j
    BY <1>0, <1>1, <1>5, <2>2 DEF Replay, RowsOK
  <2> QED
    BY <2>1, <2>2
<1>6. ASSUME \/ \E u \in Users : SweepUserJobs(u)
             \/ \E a \in Actors : PruneDone(a)
      PROVE  rows'[j] = rows[j] \/ rows'[j] = NoRow
  BY <1>6 DEF SweepUserJobs, PruneDone
<1>7. ASSUME NEW a \in Actors, NEW f \in found[a], SweepFails(f)
      PROVE  rows'[j] = rows[j] \/ rows[j].status = "claimed"
  BY <1>0, <1>7 DEF SweepFails, RowsOK
<1>8. ASSUME NEW a \in Actors, NEW k \in Candidates(a), ClaimRow(k)
      PROVE  rows'[j] = rows[j] \/ rows[j].status \in {"pending", "claimed"}
  BY <1>0, <1>8 DEF ClaimRow, RowsOK, Candidates, First, EligibleWhere, Expired
<1>9. ASSUME NEW a \in Actors, HolderSettles(a)
      PROVE  rows'[j] = rows[j] \/ rows[j].status = "claimed"
  BY <1>0, <1>9 DEF HolderSettles, Holds, RowsOK
<1>10. CASE Tick
  BY <1>0, <1>1, <1>10, AgedKeeps DEF Tick
<1>11. rows[j].status \in Statuses
  BY <1>0 DEF RowType
<1> QED
  BY <1>1, <1>2, <1>3, <1>4, <1>5, <1>6, <1>7, <1>8, <1>9, <1>10, <1>11
  DEF TableStep, Statuses

(* No late settle revives a done or dead-lettered row.                     *)
THEOREM TerminalStaysHolds == Spec => TerminalStays
<1>1. IInv /\ [Next]_vars => [\A j \in Jobs : StaysSettled(j)]_vars
  BY NextIsTableStep, UnclaimedKept
<1> QED
  BY Invariance, <1>1, PTL DEF Spec, TerminalStays

(* No settle recreates a row that was acknowledged or erased.              *)
THEOREM OnlyEnqueueCreatesHolds == Spec => OnlyEnqueueCreates
<1>1. IInv /\ [Next]_vars => [\A j \in Jobs : StaysGone(j)]_vars
  BY NextIsTableStep, UnclaimedKept
<1> QED
  BY Invariance, <1>1, PTL DEF Spec, OnlyEnqueueCreates

-----------------------------------------------------------------------------
(***************************************************************************)
(* Refinement.  The mapping forgets everything of a row but its status.    *)
(***************************************************************************)
Phase == [j \in Jobs |-> rows[j].status]

(* One row changes its status and every other keeps its own.               *)
LEMMA OnePhase ==
  ASSUME RowsOK, NEW j \in Jobs, NEW r, rows' = [rows EXCEPT ![j] = r]
  PROVE  Phase' = [Phase EXCEPT ![j] = r.status]
BY DEF RowsOK, Phase

(* A step of the table is a step of the abstract queue, or none.           *)
LEMMA StepImplements ==
  ASSUME IInv, TableStep
  PROVE  Promise!Next \/ Phase' = Phase
<1>0. RowsOK /\ MemoryOK
  BY DEF IInv, Base, TypeOK
<1>1. CASE rows' = rows
  BY <1>1 DEF Phase
<1>2. ASSUME NEW j \in Jobs, Enqueue(j) PROVE Promise!Next
  <2> DEFINE r == [NoRow EXCEPT !.status = "pending", !.delay = JobDelay[j]]
  <2>a. r.status = "pending" /\ rows' = [rows EXCEPT ![j] = r]
    BY <1>2 DEF Enqueue, NoRow
  <2> HIDE DEF r
  <2>1. Phase' = [Phase EXCEPT ![j] = "pending"]
    BY <1>0, <2>a, OnePhase
  <2>2. Promise!Enqueue(j)
    BY <1>2, <2>1
    DEF Enqueue, KeyFree, Rivals, Phase, Promise!Enqueue, Promise!KeyFree,
        Promise!Rivals, Promise!Live
  <2> QED
    BY <2>2 DEF Promise!Next
<1>3. ASSUME NEW j \in Jobs, Replay(j) PROVE Promise!Next
  <2>1. rows[j] \in RowType
    BY <1>0 DEF RowsOK
  <2>2. [Requeued(rows[j], 0) EXCEPT !.attempts = 0].status = "pending"
    BY <2>1 DEF Requeued, RowType
  <2>3. Phase' = [Phase EXCEPT ![j] = "pending"]
    BY <1>0, <1>3, <2>2, OnePhase DEF Replay
  <2>4. Promise!Replay(j)
    BY <1>3, <2>3
    DEF Replay, KeyFree, Rivals, Phase, Promise!Replay, Promise!KeyFree,
        Promise!Rivals, Promise!Live
  <2> QED
    BY <2>4 DEF Promise!Next
<1>4. ASSUME NEW u \in Users, SweepUserJobs(u) PROVE Promise!Next
  <2>1. Promise!EraseUser(u)
    BY <1>4 DEF SweepUserJobs, NoRow, Promise!EraseUser
  <2> QED
    BY <2>1 DEF Promise!Next
<1>5. ASSUME NEW a \in Actors, PruneDone(a) PROVE Promise!Next
  <2> DEFINE S == {j \in Jobs : rows[j].status = "done" /\ rows'[j] = NoRow}
  <2>1. \A j \in Jobs : rows'[j] = rows[j] \/ (rows'[j] = NoRow /\ rows[j].status = "done")
    BY <1>5 DEF PruneDone
  <2>2. \A j \in Jobs : rows'[j].status = IF j \in S THEN "absent" ELSE rows[j].status
    BY <2>1 DEF NoRow
  <2>3. S \in SUBSET {j \in Jobs : Phase[j] = "done"}
    BY DEF Phase
  <2>4. Phase' = [j \in Jobs |-> IF j \in S THEN "absent" ELSE Phase[j]]
    BY <2>2 DEF Phase
  <2> HIDE DEF S
  <2>5. Promise!Expire
    BY <2>3, <2>4 DEF Promise!Expire, Phase
  <2> QED
    BY <2>5 DEF Promise!Next
<1>6. ASSUME NEW a \in Actors, NEW f \in found[a], SweepFails(f) PROVE Promise!Next
  <2>1. f[1] \in Jobs /\ rows[f[1]] \in RowType
    BY <1>0 DEF MemoryOK, RowsOK
  <2>2. DeadLettered(rows[f[1]]).status = "failed"
    BY <2>1 DEF DeadLettered, RowType
  <2>3. Phase' = [Phase EXCEPT ![f[1]] = "failed"]
    <3> DEFINE r == DeadLettered(rows[f[1]])
    <3>1. r.status = "failed" /\ rows' = [rows EXCEPT ![f[1]] = r]
      BY <1>6, <2>2 DEF SweepFails
    <3> HIDE DEF r
    <3> QED
      BY <1>0, <2>1, <3>1, OnePhase
  <2>4. Promise!Nack(f[1])
    BY <1>6, <2>1, <2>3 DEF SweepFails, Phase, Promise!Nack
  <2> QED
    BY <2>1, <2>4 DEF Promise!Next
<1>7. ASSUME NEW a \in Actors, NEW j \in Candidates(a), ClaimRow(j)
      PROVE  Promise!Next \/ Phase' = Phase
  <2>1. j \in Jobs /\ rows[j].status \in {"pending", "claimed"}
    BY DEF Candidates, First, EligibleWhere, Expired
  <2>2. Phase' = [Phase EXCEPT ![j] = "claimed"]
    <3> DEFINE r == Claimed(rows[j])
    <3>1. r.status = "claimed" /\ rows' = [rows EXCEPT ![j] = r]
      BY <1>7 DEF ClaimRow, Claimed
    <3> HIDE DEF r
    <3> QED
      BY <1>0, <2>1, <3>1, OnePhase
  <2>3. CASE rows[j].status = "pending"
    <3>1. Promise!Dequeue(j)
      BY <2>1, <2>2, <2>3 DEF Phase, Promise!Dequeue
    <3> QED
      BY <2>1, <3>1 DEF Promise!Next
  <2>4. CASE rows[j].status = "claimed"
    BY <2>1, <2>2, <2>4 DEF Phase
  <2> QED
    BY <2>1, <2>3, <2>4
<1>8. ASSUME NEW a \in Actors, HolderSettles(a) PROVE Promise!Next
  <2>0. job[a] \in Jobs /\ Row(a) \in RowType
    BY <1>8, RowOfEngaged DEF HolderSettles, IInv
  <2>a. PICK j \in Jobs : j = job[a]
    BY <2>0
  <2>1. Row(a) \in RowType /\ Phase[j] = "claimed"
    BY <1>8, <2>0, <2>a DEF HolderSettles, Holds, Phase
  <2>2. PICK r \in RowType : Verdict(a, r) /\ rows' = [rows EXCEPT ![j] = r]
    BY <1>8, <2>a DEF HolderSettles
  <2>3. Phase' = [Phase EXCEPT ![j] = r.status]
    BY <1>0, <2>1, <2>2, OnePhase
  <2>4. CASE r = Retired(Row(a))
    <3>1. r.status \in {"done", "absent"}
      BY <2>1, <2>4 DEF Retired, NoRow, RowType
    <3>2. Promise!Ack(j)
      BY <2>1, <2>3, <3>1 DEF Phase, Promise!Ack
    <3> QED
      BY <3>2 DEF Promise!Next
  <2>5. CASE r # Retired(Row(a))
    <3>1. \/ r = Released(Row(a))
          \/ r = DeadLettered(Row(a))
          \/ \E d \in Nat : r = Requeued(Row(a), d)
      BY <2>2, <2>5 DEF Verdict
    <3>2. r.status \in {"pending", "failed"}
      BY <2>1, <3>1 DEF Released, Requeued, DeadLettered, RowType
    <3>3. Promise!Nack(j)
      BY <2>1, <2>3, <3>2 DEF Phase, Promise!Nack
    <3> QED
      BY <3>3 DEF Promise!Next
  <2> QED
    BY <2>4, <2>5
<1>9. CASE Tick
  <2>1. \A j \in Jobs : rows'[j].status = rows[j].status
    BY <1>0, <1>9, AgedKeeps DEF Tick, RowsOK
  <2> QED
    BY <2>1 DEF Phase
<1> QED
  BY <1>1, <1>2, <1>3, <1>4, <1>5, <1>6, <1>7, <1>8, <1>9 DEF TableStep

(***************************************************************************)
(* The SQL table implements the queue the interfaces promise: whatever     *)
(* leases expire and settles come late, the only moves a job makes are     *)
(* those of JobQueue.                                                      *)
(***************************************************************************)
THEOREM Refinement == Spec => ImplementsJobQueue
<1>1. Init => Promise!Init
  BY DEF Init, NoRow, Promise!Init
<1>2. IInv /\ [Next]_vars => [Promise!Next]_Phase
  BY NextIsTableStep, StepImplements
<1> QED
  BY Invariance, <1>1, <1>2, PTL DEF Spec, ImplementsJobQueue, Promise!Spec, Phase
=============================================================================
