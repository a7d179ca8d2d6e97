-------------------------- MODULE OutboxRunsProofs --------------------------
(***************************************************************************)
(* A delivery's handler starts, for any number of relays, events and       *)
(* consumers: every start was paid for by an attempt.  And what a late     *)
(* expansion alone can do: undo the completion of an event.                *)
(***************************************************************************)
EXTENDS OutboxRuns, OutboxProofs

-----------------------------------------------------------------------------
(* The inductive invariant.                                                *)

Untried == {"batch", "release", "requeue"}

(* r has a claim on d whose handler it has not started.                    *)
Awaits(r, d) ==
  \E i \in DOMAIN batch[r] :
    batch[r][i].row = d /\ (i = 1 => pc[r] \in Untried)

Owing(d) == {r \in Relays : Awaits(r, d)}

(* The starts there were and those that claims already taken may still     *)
(* make.                                                                   *)
Spent(d) == runs[d] + Cardinality(Owing(d))

(* Completed, with nothing left to replay: no delivery is made any more,   *)
(* but by an expansion that is late.                                       *)
Closed(e) ==
  /\ parent[e].status \in {"dispatched", "purged"}
  /\ \A d \in DeliveriesOf(e) : delivery[d].status = "dispatched"

(* What is spent is covered by the attempts of the row and by those that   *)
(* replays have reset; the row that retention deletes does not come back.  *)
Budget(d) ==
  /\ Present(d) => Spent(d) <= MaxAttempts * replays + delivery[d].attempts
  /\ ~Present(d) => /\ Spent(d) <= MaxAttempts * (1 + replays)
                    /\ Spent(d) = 0 \/ Closed(d[1])

(* What a purge has selected is closed, still when it is deleted.          *)
Selected ==
  \A r \in Relays : pc[r] = "parentsWrite" =>
    \A e \in chosen[r] : Closed(e) \/ e \in late

RunsInv ==
  /\ IInv /\ Selected /\ EventKept
  /\ runs \in [Deliveries -> Nat]
  /\ \A d \in Deliveries : d[1] \in late \/ Budget(d)

-----------------------------------------------------------------------------
(* What a step may do to the accounts of one delivery.                     *)

(* The row keeps its count, is replayed, made, or deleted for good.        *)
RowKeepsCount(d) ==
  \/ delivery'[d] = delivery[d]
  \/ /\ Present(d) /\ Present(d)'
     /\ delivery'[d].attempts = delivery[d].attempts \/ replays' = replays + 1
  \/ /\ ~Present(d) /\ Present(d)'
  \/ /\ ~Present(d)' /\ Closed(d[1])

Charge(d) ==
  \/ /\ ~Started(d) /\ Owing(d)' \subseteq Owing(d) /\ RowKeepsCount(d)
  \/ /\ delivery'[d] = delivery[d]                                 \* started
     /\ \E r \in Owing(d) : Owing(d)' \subseteq Owing(d) \ {r}
  \/ /\ Present(d) /\ Present(d)'                                  \* refunded
     /\ ~Started(d) /\ delivery'[d].attempts = delivery[d].attempts - 1
     /\ \E r \in Owing(d) : Owing(d)' \subseteq Owing(d) \ {r}
  \/ /\ Present(d) /\ Present(d)'                                  \* claimed
     /\ ~Started(d) /\ delivery'[d].attempts = delivery[d].attempts + 1
     /\ \E r \in Relays : Owing(d)' \subseteq Owing(d) \cup {r}

(* The accounts stay covered.                                              *)
LEMMA BudgetKept ==
  ASSUME RunsInv, IInv', Count, NEW d \in Deliveries, Charge(d), Budget(d),
         replays' \in {replays, replays + 1},
         Closed(d[1]) => Closed(d[1])', Added(d) => ~Closed(d[1])
  PROVE  runs'[d] \in Nat /\ Budget(d)'
<1> DEFINE n == Cardinality(Owing(d))
           m == Cardinality(Owing(d)')
           a == delivery[d].attempts
           b == delivery'[d].attempts
           x == runs[d]
           y == runs'[d]
           B == MaxAttempts * replays
           C == MaxAttempts * replays'
<1>1. /\ x \in Nat /\ a \in 0 .. MaxAttempts /\ b \in 0 .. MaxAttempts
      /\ replays \in Nat /\ MaxAttempts \in Nat /\ replays' \in Nat
  BY LeaseBounds DEF RunsInv, IInv, Tables, Rows, Memory
<1>2. y = IF Started(d) THEN x + 1 ELSE x
  BY DEF Count
<1>3. IsFiniteSet(Owing(d)) /\ n \in Nat
  <2>1. IsFiniteSet(Relays) /\ Owing(d) \in SUBSET Relays
    BY OutboxAssumption DEF Owing
  <2> QED BY <2>1, FS_Subset, FS_CardinalityType
<1>4. IsFiniteSet(Owing(d)') /\ m \in Nat
  <2>1. IsFiniteSet(Relays) /\ Owing(d)' \in SUBSET Relays
    BY OutboxAssumption DEF Owing
  <2> QED BY <2>1, FS_Subset, FS_CardinalityType
<1>5. Owing(d)' \subseteq Owing(d) => m <= n
  BY <1>3, FS_Subset
<1>6. \A r \in Owing(d) : Owing(d)' \subseteq Owing(d) \ {r} => m <= n - 1
  <2> TAKE r \in Owing(d)
  <2> HAVE Owing(d)' \subseteq Owing(d) \ {r}
  <2>1. IsFiniteSet(Owing(d) \ {r}) /\ Cardinality(Owing(d) \ {r}) = n - 1
    BY <1>3, FS_RemoveElement
  <2> QED BY <2>1, FS_Subset
<1>7. \A r : Owing(d)' \subseteq Owing(d) \cup {r} => m <= n + 1
  <2> TAKE r
  <2> HAVE Owing(d)' \subseteq Owing(d) \cup {r}
  <2>1. IsFiniteSet(Owing(d) \cup {r}) /\ Cardinality(Owing(d) \cup {r}) \in {n, n + 1}
    BY <1>3, FS_AddElement
  <2>2. m <= Cardinality(Owing(d) \cup {r})
    BY <2>1, FS_Subset
  <2> QED BY <1>3, <1>4, <2>1, <2>2
<1>8. B \in Nat /\ (C = B \/ (C = B + MaxAttempts /\ replays' = replays + 1))
      /\ (replays' = replays + 1 => C = B + MaxAttempts)
      /\ MaxAttempts * (1 + replays) = B + MaxAttempts
      /\ MaxAttempts * (1 + replays') = C + MaxAttempts
  <2>1. \A k, p \in Nat : /\ k * p \in Nat /\ k * (1 + p) = k * p + k
                          /\ k * (p + 1) = k * p + k
    OBVIOUS
  <2>2. B \in Nat /\ C \in Nat /\ MaxAttempts * (replays + 1) = B + MaxAttempts
    BY <1>1, <2>1
  <2>3. /\ MaxAttempts * (1 + replays) = B + MaxAttempts
        /\ MaxAttempts * (1 + replays') = C + MaxAttempts
    BY <1>1, <2>1
  <2>4. CASE replays' = replays
    <3>1. C = B
      BY <2>4
    <3>2. replays' # replays + 1
      BY <1>1, <2>4
    <3> QED BY <2>2, <2>3, <3>1, <3>2
  <2>5. CASE replays' = replays + 1
    <3>1. C = B + MaxAttempts
      BY <2>2, <2>5
    <3> QED BY <2>2, <2>3, <2>5, <3>1
  <2> QED BY <2>4, <2>5
<1>9. /\ Present(d) => x + n <= B + a
      /\ ~Present(d) => x + n <= B + MaxAttempts /\ (x + n = 0 \/ Closed(d[1]))
  BY <1>8 DEF Budget, Spent
<1>10. /\ y \in Nat
       /\ (Present(d)' => y + m <= C + b)
       /\ (~Present(d)' => y + m <= C + MaxAttempts /\ (y + m = 0 \/ Closed(d[1])))
       => runs'[d] \in Nat /\ Budget(d)'
  <2> HAVE /\ y \in Nat
           /\ (Present(d)' => y + m <= C + b)
           /\ (~Present(d)' => y + m <= C + MaxAttempts /\ (y + m = 0 \/ Closed(d[1])))
  <2>1. Spent(d)' = y + m
    BY DEF Spent
  <2>2. Present(d)' => Spent(d)' <= MaxAttempts * replays' + delivery'[d].attempts
    BY <2>1
  <2>3. ~Present(d)' => /\ Spent(d)' <= MaxAttempts * (1 + replays')
                        /\ Spent(d)' = 0 \/ Closed(d[1])'
    BY <1>8, <2>1
  <2> QED BY <2>2, <2>3 DEF Budget
<1> HIDE DEF n, m, a, b, x, y, B, C
<1>11. y \in Nat
  BY <1>1, <1>2
<1>12. delivery'[d] = delivery[d] => a = b /\ (Present(d)' <=> Present(d))
  BY DEF a, b, Present
<1>13. CASE ~Started(d) /\ Owing(d)' \subseteq Owing(d) /\ RowKeepsCount(d)
  <2>1. y = x /\ m <= n
    BY <1>2, <1>5, <1>13
  <2>2. CASE delivery'[d] = delivery[d]
    BY <1>1, <1>3, <1>4, <1>8, <1>9, <1>10, <1>11, <1>12, <2>1, <2>2
  <2>3. CASE /\ Present(d) /\ Present(d)'
             /\ delivery'[d].attempts = delivery[d].attempts \/ replays' = replays + 1
    <3>1. b = a \/ replays' = replays + 1
      BY <2>3 DEF a, b
    <3>2. y + m <= C + b
      BY <1>1, <1>3, <1>4, <1>8, <1>9, <2>1, <2>3, <3>1
    <3> QED BY <1>10, <1>11, <2>3, <3>2
  <2>4. CASE ~Present(d) /\ Present(d)'
    <3>1. ~Closed(d[1])
      BY <2>4 DEF Added, Present
    <3>2. y + m <= C + b
      BY <1>1, <1>3, <1>4, <1>8, <1>9, <2>1, <2>4, <3>1
    <3> QED BY <1>10, <1>11, <2>4, <3>2
  <2>5. CASE ~Present(d)' /\ Closed(d[1])
    <3>1. y + m <= C + MaxAttempts
      BY <1>1, <1>3, <1>4, <1>8, <1>9, <2>1
    <3> QED BY <1>10, <1>11, <2>5, <3>1
  <2> QED BY <1>13, <2>2, <2>3, <2>4, <2>5 DEF RowKeepsCount
<1>14. CASE /\ delivery'[d] = delivery[d]
            /\ \E r \in Owing(d) : Owing(d)' \subseteq Owing(d) \ {r}
  <2>1. m <= n - 1
    BY <1>6, <1>14
  <2>2. y + m <= x + n
    BY <1>1, <1>2, <1>3, <1>4, <2>1
  <2> QED BY <1>1, <1>3, <1>4, <1>8, <1>9, <1>10, <1>11, <1>12, <1>14, <2>2
<1>15. CASE /\ Present(d) /\ Present(d)'
            /\ ~Started(d) /\ delivery'[d].attempts = delivery[d].attempts - 1
            /\ \E r \in Owing(d) : Owing(d)' \subseteq Owing(d) \ {r}
  <2>1. m <= n - 1 /\ y = x /\ b = a - 1
    BY <1>2, <1>6, <1>15 DEF a, b
  <2>2. y + m <= C + b
    BY <1>1, <1>3, <1>4, <1>8, <1>9, <1>15, <2>1
  <2> QED BY <1>10, <1>11, <1>15, <2>2
<1>16. CASE /\ Present(d) /\ Present(d)'
            /\ ~Started(d) /\ delivery'[d].attempts = delivery[d].attempts + 1
            /\ \E r \in Relays : Owing(d)' \subseteq Owing(d) \cup {r}
  <2>1. m <= n + 1 /\ y = x /\ b = a + 1
    BY <1>2, <1>7, <1>16 DEF a, b
  <2>2. y + m <= C + b
    BY <1>1, <1>3, <1>4, <1>8, <1>9, <1>16, <2>1
  <2> QED BY <1>10, <1>11, <1>16, <2>2
<1> QED BY <1>13, <1>14, <1>15, <1>16 DEF Charge

-----------------------------------------------------------------------------
(* The claims that still have to start.                                    *)

(* Only relay r moves.                                                     *)
OthersStay(r) ==
  \A q \in Relays \ {r} : pc'[q] = pc[q] /\ batch'[q] = batch[q]

(* r keeps its batch and no claim becomes untried, or it leaves claims.    *)
BatchRuns(r) ==
  \/ batch'[r] = batch[r] /\ (pc'[r] \in Untried => pc[r] \in Untried)
  \/ batch[r] # <<>> /\ batch'[r] = Tail(batch[r])
  \/ batch'[r] = <<>>

(* No step but the claim makes anybody owe a start.                        *)
LEMMA OwingShrinks ==
  ASSUME IInv, NEW r \in Relays, OthersStay(r), BatchRuns(r), NEW d \in Deliveries
  PROVE  Owing(d)' \subseteq Owing(d)
<1> SUFFICES ASSUME NEW q \in Relays, NEW i \in DOMAIN batch'[q],
                    batch'[q][i].row = d, i = 1 => pc'[q] \in Untried
             PROVE  Awaits(q, d)
  BY DEF Owing, Awaits
<1>1. CASE q # r
  BY <1>1 DEF OthersStay, Awaits
<1>2. CASE q = r /\ batch'[r] = batch[r] /\ (pc'[r] \in Untried => pc[r] \in Untried)
  BY <1>2 DEF Awaits
<1>3. CASE q = r /\ batch[r] # <<>> /\ batch'[r] = Tail(batch[r])
  <2>1. i + 1 \in DOMAIN batch[r] /\ i + 1 # 1 /\ batch'[r][i] = batch[r][i + 1]
    BY <1>3, ClaimFacts, TailFacts
  <2> QED BY <1>3, <2>1 DEF Awaits
<1>4. CASE q = r /\ batch'[r] = <<>>
  BY <1>4
<1> QED BY <1>1, <1>2, <1>3, <1>4 DEF BatchRuns

(* A relay that starts, refunds or leaves an untried claim owes it no more.*)
LEMMA OwingDrops ==
  ASSUME IInv, NEW r \in Relays, OthersStay(r), batch[r] # <<>>, pc[r] \in Untried,
         \/ batch'[r] = Tail(batch[r])
         \/ batch'[r] = batch[r] /\ pc'[r] \notin Untried,
         NEW d \in Deliveries, d = Current(r).row
  PROVE  r \in Owing(d) /\ Owing(d)' \subseteq Owing(d) \ {r}
<1>1. 1 \in DOMAIN batch[r] /\ Current(r) = batch[r][1]
  BY CurrentFacts
<1>2. r \in Owing(d)
  BY <1>1 DEF Owing, Awaits
<1>3. BatchRuns(r)
  BY DEF BatchRuns
<1>4. Owing(d)' \subseteq Owing(d)
  BY <1>1, <1>3, OwingShrinks
<1>5. ASSUME r \in Owing(d)' PROVE FALSE
  <2>1. PICK i \in DOMAIN batch'[r] :
             batch'[r][i].row = d /\ (i = 1 => pc'[r] \in Untried)
    BY <1>5 DEF Owing, Awaits
  <2>2. \A j \in DOMAIN batch[r] : batch[r][j].row = d => j = 1
    BY <1>1 DEF IInv, ClaimsApart
  <2>3. CASE batch'[r] = Tail(batch[r])
    <3>1. i + 1 \in DOMAIN batch[r] /\ i + 1 # 1 /\ batch'[r][i] = batch[r][i + 1]
      BY <2>3, ClaimFacts, TailFacts
    <3> QED BY <2>1, <2>2, <3>1
  <2>4. CASE batch'[r] = batch[r] /\ pc'[r] \notin Untried
    BY <2>1, <2>2, <2>4
  <2> QED BY <2>3, <2>4
<1> QED BY <1>2, <1>4, <1>5

(* A handler starts only where a relay begins one.                         *)
LEMMA NoneStarted ==
  ASSUME NEW r \in Relays, OthersStay(r), ~(pc[r] = "batch" /\ pc'[r] = "running")
  PROVE  \A d \in Deliveries : ~Started(d)
BY DEF Started, OthersStay

(* Steps that neither start, refund nor claim.                             *)
LEMMA PlainStep ==
  ASSUME IInv, NEW r \in Relays, OthersStay(r), BatchRuns(r),
         ~(pc[r] = "batch" /\ pc'[r] = "running"),
         \A d \in Deliveries : RowKeepsCount(d)
  PROVE  \A d \in Deliveries : Charge(d)
BY OwingShrinks, NoneStarted DEF Charge

(* Settles keep the count.                                                 *)
LEMMA SettleCharge ==
  ASSUME IInv, NEW r \in Relays,
         MarkDispatched(r) \/ MarkFailure(r) \/ AbandonUnhandled(r)
  PROVE  \A d \in Deliveries : Charge(d)
<1>1. /\ pc[r] \in Holding /\ batch' = batch
      /\ pc[r] \in {"succeeded", "failed", "batch"}
      /\ pc[r] # "batch" => pc'[r] = "complete"
      /\ pc'[r] # "running"
      /\ \A q \in Relays \ {r} : pc'[q] = pc[q]
  BY DEF MarkDispatched, MarkFailure, AbandonUnhandled, memory, Goto, Holding,
         IInv, Memory
<1>2. OthersStay(r) /\ BatchRuns(r)
  BY <1>1 DEF OthersStay, BatchRuns, Untried
<1>3. batch[r] # <<>>
  BY <1>1, HoldsBatch
<1> DEFINE c == Current(r)
<1>4. delivery[c.row] \in Rows
  BY <1>3, CurrentRow
<1>5. ASSUME NEW row, Update(c, row),
             Fenced(c) => row.attempts = delivery[c.row].attempts /\ row.status # "none"
      PROVE  \A d \in Deliveries : RowKeepsCount(d)
  <2>1. \A d \in Deliveries :
           \/ delivery'[d] = delivery[d]
           \/ /\ d = c.row /\ Fenced(c) /\ Present(d) /\ delivery'[d] = row
    BY <1>3, <1>5, UpdateWrites
  <2> QED BY <1>5, <2>1 DEF RowKeepsCount, Present
<1>6. CASE MarkDispatched(r)
  <2> DEFINE row == [delivery[c.row] EXCEPT !.status = "dispatched", !.until = 0, !.next = 0]
  <2>1. row.attempts = delivery[c.row].attempts /\ row.status # "none"
    BY <1>4 DEF Rows
  <2>2. Update(c, row)
    BY <1>6 DEF MarkDispatched
  <2> HIDE DEF row, c
  <2> QED BY <1>1, <1>2, <1>5, <2>1, <2>2, PlainStep
<1>7. CASE MarkFailure(r)
  <2> DEFINE dead == [delivery[c.row] EXCEPT !.status = "dead", !.until = 0, !.next = 0]
             again == [delivery[c.row] EXCEPT
                         !.next = now + BackoffDelay(c.attempts), !.until = 0]
             row == IF c.attempts >= MaxAttempts THEN dead ELSE again
  <2>1. /\ dead.attempts = delivery[c.row].attempts /\ dead.status # "none"
        /\ again.attempts = delivery[c.row].attempts
        /\ again.status = delivery[c.row].status
    BY <1>4 DEF Rows
  <2>2. Update(c, row)
    BY <1>7 DEF MarkFailure
  <2>3. Fenced(c) => delivery[c.row].status # "none"
    BY DEF Fenced, Pending
  <2> HIDE DEF dead, again, c
  <2>4. Fenced(c) => row.attempts = delivery[c.row].attempts /\ row.status # "none"
    BY <2>1, <2>3
  <2> HIDE DEF row
  <2> QED BY <1>1, <1>2, <1>5, <2>2, <2>4, PlainStep
<1>8. CASE AbandonUnhandled(r)
  <2> DEFINE row == [delivery[c.row] EXCEPT !.status = "abandoned", !.until = 0, !.next = 0]
  <2>1. row.attempts = delivery[c.row].attempts /\ row.status # "none"
    BY <1>4 DEF Rows
  <2>2. Update(c, row) \/ UNCHANGED delivery
    BY <1>8 DEF AbandonUnhandled
  <2> HIDE DEF row, c
  <2>3. UNCHANGED delivery => \A d \in Deliveries : RowKeepsCount(d)
    BY DEF RowKeepsCount
  <2> QED BY <1>1, <1>2, <1>5, <2>1, <2>2, <2>3, PlainStep
<1> QED BY <1>6, <1>7, <1>8

(* A refund drops the claim that it refunds.                               *)
LEMMA RefundCharge ==
  ASSUME IInv, NEW r \in Relays, pc[r] \in Untried, OthersStay(r),
         batch'[r] = Tail(batch[r]), pc'[r] # "running", NEW row,
         Update(Current(r), row),
         Fenced(Current(r)) =>
           /\ row.status # "none"
           /\ row.attempts = delivery[Current(r).row].attempts - 1
  PROVE  \A d \in Deliveries : Charge(d)
<1>1. batch[r] # <<>>
  BY HoldsBatch DEF Untried, Holding
<1> DEFINE c == Current(r)
<1>2. \A d \in Deliveries :
        d = c.row => r \in Owing(d) /\ Owing(d)' \subseteq Owing(d) \ {r}
  BY <1>1, OwingDrops
<1>3. BatchRuns(r)
  BY <1>1 DEF BatchRuns
<1>4. \A d \in Deliveries :
        \/ delivery'[d] = delivery[d]
        \/ /\ d = c.row /\ Fenced(c) /\ Present(d) /\ delivery'[d] = row
  BY <1>1, UpdateWrites
<1> SUFFICES ASSUME NEW d \in Deliveries PROVE Charge(d)
  OBVIOUS
<1>5. ~Started(d) /\ Owing(d)' \subseteq Owing(d)
  BY <1>3, NoneStarted, OwingShrinks
<1> HIDE DEF c
<1>6. CASE delivery'[d] = delivery[d]
  BY <1>5, <1>6 DEF Charge, RowKeepsCount
<1>7. CASE d = c.row /\ Fenced(c) /\ Present(d) /\ delivery'[d] = row
  <2>1. row.status # "none" /\ row.attempts = delivery[d].attempts - 1
    BY <1>7 DEF c
  <2>2. Present(d) /\ Present(d)' /\ delivery'[d].attempts = delivery[d].attempts - 1
    BY <1>7, <2>1 DEF Present
  <2> QED BY <1>2, <1>5, <1>7, <2>2 DEF Charge
<1> QED BY <1>4, <1>6, <1>7

(* The no-handler requeue refunds.                                         *)
LEMMA RequeueCharge ==
  ASSUME IInv, NEW r \in Relays, RequeueUnhandled(r)
  PROVE  \A d \in Deliveries : Charge(d)
<1> DEFINE c == Current(r)
           n == delivery[c.row].attempts
           m == IF n > 0 THEN n - 1 ELSE 0
           row == [delivery[c.row] EXCEPT !.attempts = m,
                                          !.next = at[r] + BackoffMax, !.until = 0]
<1>1. batch[r] # <<>> /\ pc[r] \in Untried
  BY HoldsBatch DEF RequeueUnhandled, Holding, Untried
<1>2. /\ delivery[c.row] \in Rows /\ n \in 0 .. MaxAttempts
      /\ Fenced(c) => n >= 1
  BY <1>1, CurrentRow DEF Fenced
<1>3. OthersStay(r) /\ batch'[r] = Tail(batch[r]) /\ pc'[r] # "running"
  BY DEF RequeueUnhandled, Advance, Goto, OthersStay, IInv, Memory
<1>4. Update(c, row)
  BY DEF RequeueUnhandled
<1>5. Fenced(c) => m = n - 1
  BY <1>2, LeaseBounds
<1>6. Fenced(c) => delivery[c.row].status = "pending"
  BY DEF Fenced, Pending
<1> HIDE DEF m
<1>7. row.status = delivery[c.row].status /\ row.attempts = m
  BY <1>2 DEF Rows
<1> HIDE DEF row
<1>8. Fenced(c) => row.status # "none" /\ row.attempts = n - 1
  BY <1>5, <1>6, <1>7
<1> QED BY <1>1, <1>3, <1>4, <1>8, RefundCharge

(* So does the hand-back.                                                  *)
LEMMA ReleaseCharge ==
  ASSUME IInv, NEW r \in Relays, ReleaseUnstarted(r)
  PROVE  \A d \in Deliveries : Charge(d)
<1> DEFINE c == Current(r)
           m == delivery[c.row].attempts - 1
           row == [delivery[c.row] EXCEPT !.attempts = m, !.until = 0]
<1>1. batch[r] # <<>> /\ pc[r] \in Untried
  BY HoldsBatch DEF ReleaseUnstarted, Holding, Untried
<1>2. /\ delivery[c.row] \in Rows /\ c.row \in Deliveries
      /\ delivery \in [Deliveries -> Rows]
      /\ delivery[c.row].until = c.until <=> Fenced(c)
  BY <1>1, CurrentRow, CurrentFacts DEF Fenced, IInv, Tables
<1>3. OthersStay(r) /\ batch'[r] = Tail(batch[r]) /\ pc'[r] # "running"
  BY DEF ReleaseUnstarted, HandOn, Goto, OthersStay, IInv, Memory
<1>4. delivery' = IF delivery[c.row].until = c.until
                  THEN [delivery EXCEPT ![c.row].attempts = @ - 1, ![c.row].until = 0]
                  ELSE delivery
  BY DEF ReleaseUnstarted
<1>5. [delivery EXCEPT ![c.row].attempts = @ - 1, ![c.row].until = 0] =
      [delivery EXCEPT ![c.row] = row]
  BY <1>2 DEF Rows
<1>6. Update(c, row)
  BY <1>2, <1>4, <1>5 DEF Update
<1>7. Fenced(c) => delivery[c.row].status = "pending"
  BY DEF Fenced, Pending
<1> HIDE DEF m
<1>8. row.status = delivery[c.row].status /\ row.attempts = m
  BY <1>2 DEF Rows
<1> HIDE DEF row
<1>9. Fenced(c) => row.status # "none" /\ row.attempts = delivery[c.row].attempts - 1
  BY <1>7, <1>8 DEF m
<1> QED BY <1>1, <1>3, <1>6, <1>9, RefundCharge

(* A handler starts: the claim that paid for it is untried no more.        *)
LEMMA BeginCharge ==
  ASSUME IInv, NEW r \in Relays, Begin(r)
  PROVE  \A d \in Deliveries : Charge(d)
<1>1. /\ pc[r] = "batch" /\ pc'[r] = "running" /\ UNCHANGED <<delivery, batch>>
      /\ \A q \in Relays \ {r} : pc'[q] = pc[q]
  BY DEF Begin, Goto, table, IInv, Memory
<1>2. OthersStay(r) /\ BatchRuns(r) /\ pc[r] \in Untried /\ pc'[r] \notin Untried
  BY <1>1 DEF OthersStay, BatchRuns, Untried
<1>3. batch[r] # <<>>
  BY <1>1, HoldsBatch DEF Holding
<1> SUFFICES ASSUME NEW d \in Deliveries PROVE Charge(d)
  OBVIOUS
<1>4. CASE d = Current(r).row
  <2>1. r \in Owing(d) /\ Owing(d)' \subseteq Owing(d) \ {r}
    BY <1>1, <1>2, <1>3, <1>4, OwingDrops
  <2> QED BY <1>1, <2>1 DEF Charge
<1>5. CASE d # Current(r).row
  <2>1. ~Started(d)
    BY <1>1, <1>5 DEF Started
  <2>2. Owing(d)' \subseteq Owing(d)
    BY <1>2, OwingShrinks
  <2> QED BY <1>1, <2>1, <2>2 DEF Charge, RowKeepsCount
<1> QED BY <1>4, <1>5

(* A claim adds an attempt to the row for the start that it may make.      *)
LEMMA ClaimCharge ==
  ASSUME IInv, NEW r \in Relays, ClaimDeliveries(r) \/ ClaimLost(r)
  PROVE  \A d \in Deliveries : Charge(d)
<1>1. PICK ds \in ToClaim :
        /\ TakeLease(ds)
        /\ \/ \E s \in InOrder(ClaimsOf(ds)) : batch' = [batch EXCEPT ![r] = s]
           \/ batch' = [batch EXCEPT ![r] = <<>>]
  BY DEF ClaimDeliveries, ClaimLost, Empty
<1>2. /\ UNCHANGED parent /\ pc[r] = "claim"
      /\ \A q \in Relays \ {r} : pc'[q] = pc[q]
  BY DEF ClaimDeliveries, ClaimLost, Goto, IInv, Memory
<1>3. OthersStay(r)
  BY <1>1, <1>2 DEF OthersStay, IInv, Memory
<1>4. \A d \in Deliveries :
        IF d \in ds
        THEN /\ Present(d) /\ Present(d)'
             /\ delivery'[d].attempts = delivery[d].attempts + 1
        ELSE delivery'[d] = delivery[d]
  BY <1>1, <1>2, TakeTable DEF Claimable, Pending, Present
<1>5. \A i \in DOMAIN batch'[r] : batch'[r][i].row \in ds
  <2>1. CASE \E s \in InOrder(ClaimsOf(ds)) : batch' = [batch EXCEPT ![r] = s]
    <3>1. PICK s \in InOrder(ClaimsOf(ds)) : batch' = [batch EXCEPT ![r] = s]
      BY <2>1
    <3>2. \A i \in DOMAIN s : s[i].row \in ds
      BY <1>1, <1>2, BatchClaimed
    <3>3. batch'[r] = s
      BY <3>1 DEF IInv, Memory
    <3> QED BY <3>2, <3>3
  <2>2. CASE batch' = [batch EXCEPT ![r] = <<>>]
    <3>1. batch'[r] = <<>>
      BY <2>2 DEF IInv, Memory
    <3> QED BY <3>1
  <2> QED BY <1>1, <2>1, <2>2
<1> SUFFICES ASSUME NEW d \in Deliveries PROVE Charge(d)
  OBVIOUS
<1>6. ~Started(d)
  BY <1>2, <1>3, NoneStarted
<1>7. \A q \in Relays \ {r} : Awaits(q, d)' => Awaits(q, d)
  BY <1>3 DEF OthersStay, Awaits
<1>8. CASE d \in ds
  <2>1. Owing(d)' \subseteq Owing(d) \cup {r}
    BY <1>7 DEF Owing
  <2> QED BY <1>4, <1>6, <1>8, <2>1 DEF Charge
<1>9. CASE d \notin ds
  <2>1. ~Awaits(r, d)'
    BY <1>5, <1>9 DEF Awaits
  <2>2. Owing(d)' \subseteq Owing(d)
    BY <1>7, <2>1 DEF Owing
  <2> QED BY <1>4, <1>6, <1>9, <2>2 DEF Charge, RowKeepsCount
<1> QED BY <1>8, <1>9

(* Phase 1: deliveries are made, swept and deleted.                        *)
LEMMA ReconcileCharge ==
  ASSUME IInv, NEW r \in Relays,
         PurgeDeliveries(r) \/ SweepExhausted(r) \/ ExpandWrite(r)
  PROVE  \A d \in Deliveries : Charge(d)
<1>1. /\ UNCHANGED batch /\ pc[r] # "batch" /\ pc'[r] \notin Untried
      /\ \A q \in Relays \ {r} : pc'[q] = pc[q]
  BY DEF PurgeDeliveries, SweepExhausted, ExpandWrite, Goto, memory, Untried,
         IInv, Memory
<1>2. OthersStay(r) /\ BatchRuns(r)
  BY <1>1 DEF OthersStay, BatchRuns
<1>3. ASSUME PurgeDeliveries(r), NEW d \in Deliveries PROVE RowKeepsCount(d)
  <2>1. delivery'[d] = IF Expired(d[1], now) THEN NoDelivery ELSE delivery[d]
    BY <1>3 DEF PurgeDeliveries
  <2>2. Expired(d[1], now) => Closed(d[1])
    BY DEF Expired, Closed
  <2> QED BY <2>1, <2>2 DEF RowKeepsCount, NoDelivery, Present
<1>4. ASSUME SweepExhausted(r), NEW d \in Deliveries PROVE RowKeepsCount(d)
  <2>1. delivery[d] \in Rows
    BY DEF IInv, Tables
  <2> DEFINE row == [delivery[d] EXCEPT !.status = "dead", !.until = 0, !.next = 0]
  <2>2. row.attempts = delivery[d].attempts /\ row.status # "none"
    BY <2>1 DEF Rows
  <2>3. delivery'[d] = IF Exhausted(d) THEN row ELSE delivery[d]
    BY <1>4 DEF SweepExhausted
  <2> HIDE DEF row
  <2>4. Exhausted(d) => Present(d)
    BY DEF Exhausted, Pending, Present
  <2> QED BY <2>2, <2>3, <2>4 DEF RowKeepsCount, Present
<1>5. ASSUME ExpandWrite(r), NEW d \in Deliveries PROVE RowKeepsCount(d)
  <2>1. delivery'[d] = IF d \in adding[r] /\ ~Present(d) THEN NewDelivery(at[r])
                                                         ELSE delivery[d]
    BY <1>5 DEF ExpandWrite
  <2>2. at[r] \in Times
    BY DEF IInv, Memory
  <2>3. NewDelivery(at[r]).status = "pending"
    BY <2>2, NewDeliveryFacts
  <2> QED BY <2>1, <2>3 DEF RowKeepsCount, Present
<1>6. \A d \in Deliveries : RowKeepsCount(d)
  BY <1>3, <1>4, <1>5
<1> QED BY <1>1, <1>2, <1>6, PlainStep

(* Steps of a relay that leave the deliveries alone.                       *)
LEMMA RestCharge ==
  ASSUME IInv, NEW r \in Relays,
         \/ Pump(r) \/ DropOrphans(r) \/ CompleteRead(r) \/ CompleteWrite(r)
         \/ \E pair \in todo[r] : ExpandRead(r, pair)
         \/ PurgeParentsRead(r) \/ PurgeParentsWrite(r)
         \/ TimeOut(r) \/ Exit(r) \/ Cancel(r)
         \/ \E outcome \in {"succeeded", "failed"} : Return(r, outcome)
         \/ \E v \in Releases : Restart(r, v)
         \/ Crash(r) \/ PumpFails(r) \/ SettleFails(r)
  PROVE  \A d \in Deliveries : Charge(d)
<1>1. UNCHANGED delivery
  BY DEF Pump, DropOrphans, CompleteRead, CompleteWrite, ExpandRead, PurgeParentsRead,
         PurgeParentsWrite, TimeOut, Exit, Cancel, Return, Restart, Crash, PumpFails,
         SettleFails, table
<1>2. \A d \in Deliveries : RowKeepsCount(d)
  BY <1>1 DEF RowKeepsCount
<1>3. CASE \/ Pump(r) \/ DropOrphans(r) \/ CompleteRead(r)
           \/ \E pair \in todo[r] : ExpandRead(r, pair)
           \/ PurgeParentsRead(r) \/ PurgeParentsWrite(r)
           \/ TimeOut(r) \/ Exit(r) \/ Cancel(r)
           \/ \E outcome \in {"succeeded", "failed"} : Return(r, outcome)
           \/ \E v \in Releases : Restart(r, v)
  <2>1. UNCHANGED batch /\ \A q \in Relays \ {r} : pc'[q] = pc[q]
    BY <1>3 DEF Pump, DropOrphans, CompleteRead, ExpandRead, PurgeParentsRead,
         PurgeParentsWrite, TimeOut, Exit, Cancel, Return, Restart, Goto, memory,
         IInv, Memory
  <2>2. pc'[r] \in Untried => pc[r] \in Untried
    BY <1>3 DEF Pump, DropOrphans, CompleteRead, ExpandRead, PurgeParentsRead,
         PurgeParentsWrite, TimeOut, Exit, Cancel, Return, Restart, Goto, Untried,
         IInv, Memory
  <2>3. ~(pc[r] = "batch" /\ pc'[r] = "running")
    BY <1>3 DEF Pump, DropOrphans, CompleteRead, ExpandRead, PurgeParentsRead,
         PurgeParentsWrite, TimeOut, Exit, Cancel, Return, Restart, Goto, IInv, Memory
  <2>4. OthersStay(r) /\ BatchRuns(r)
    BY <2>1, <2>2 DEF OthersStay, BatchRuns
  <2> QED BY <1>2, <2>3, <2>4, PlainStep
<1>4. CASE Crash(r) \/ PumpFails(r)
  <2>1. /\ OthersStay(r) /\ batch'[r] = <<>> /\ pc'[r] # "running"
    BY <1>4 DEF Crash, PumpFails, Empty, Goto, OthersStay, IInv, Memory
  <2> QED BY <1>2, <2>1, PlainStep DEF BatchRuns
<1>5. CASE CompleteWrite(r)
  <2>1. OthersStay(r) /\ pc'[r] # "running"
    BY <1>5 DEF CompleteWrite, Advance, Goto, OthersStay, IInv, Memory
  <2>2. CASE pc[r] = "completeWrite"
    <3>1. batch'[r] = Tail(batch[r])
      BY <1>5, <2>2 DEF CompleteWrite, Advance, IInv, Memory
    <3>2. batch[r] # <<>>
      BY <2>2, HoldsBatch DEF Holding, Settled
    <3> QED BY <1>2, <2>1, <3>1, <3>2, PlainStep DEF BatchRuns
  <2>3. CASE pc[r] # "completeWrite"
    <3>1. batch'[r] = batch[r] /\ pc'[r] \notin Untried
      BY <1>5, <2>3 DEF CompleteWrite, Goto, Untried, IInv, Memory
    <3> QED BY <1>2, <2>1, <3>1, PlainStep DEF BatchRuns
  <2> QED BY <2>2, <2>3
<1>6. CASE SettleFails(r)
  <2>1. OthersStay(r) /\ pc'[r] # "running" /\ pc[r] \in Holding
    BY <1>6 DEF SettleFails, Advance, HandOn, memory, Goto, OthersStay, Holding,
                Settled, IInv, Memory
  <2>2. \/ batch'[r] = Tail(batch[r])
        \/ batch'[r] = batch[r] /\ (pc'[r] \in Untried => pc[r] \in Untried)
    BY <1>6 DEF SettleFails, Advance, HandOn, memory, Goto, Untried, IInv, Memory
  <2>3. batch[r] # <<>>
    BY <2>1, HoldsBatch
  <2> QED BY <1>2, <2>1, <2>2, <2>3, PlainStep DEF BatchRuns
<1> QED BY <1>3, <1>4, <1>5, <1>6

(* What no relay does.                                                     *)
LEMMA OutsideCharge ==
  ASSUME IInv,
         \/ Tick \/ UNCHANGED vars
         \/ \E e \in Events : AppendFor(e) \/ \E ns \in SUBSET Names : Replay(e, ns)
  PROVE  \A d \in Deliveries : Charge(d)
<1>1. UNCHANGED <<pc, batch>>
  BY DEF Tick, vars, AppendFor, Replay, memory
<1>2. \A d \in Deliveries : Owing(d)' = Owing(d)
  BY <1>1 DEF Owing, Awaits
<1>3. \A d \in Deliveries : ~Started(d)
  BY <1>1 DEF Started
<1>4. \A d \in Deliveries : RowKeepsCount(d)
  <2>1. CASE Tick \/ UNCHANGED vars \/ \E e \in Events : AppendFor(e)
    <3>1. UNCHANGED delivery
      BY <2>1 DEF Tick, vars, AppendFor, table
    <3> QED BY <3>1 DEF RowKeepsCount
  <2>2. ASSUME NEW e \in Events, NEW ns \in SUBSET Names, Replay(e, ns),
               NEW d \in Deliveries
        PROVE  RowKeepsCount(d)
    <3> DEFINE reset == {f \in DeliveriesOf(e) :
                 f[2] \in ns /\ delivery[f].status \in {"dead", "abandoned"}}
    <3>1. /\ delivery'[d] = IF d \in reset THEN NewDelivery(now) ELSE delivery[d]
          /\ replays' = replays + 1
      BY <2>2 DEF Replay
    <3>2. d \in reset => Present(d)
      BY DEF DeliveriesOf
    <3>3. now \in Times
      BY TimesFacts DEF IInv, Memory
    <3>4. NewDelivery(now).status = "pending"
      BY <3>3, NewDeliveryFacts
    <3> QED BY <3>1, <3>2, <3>4 DEF RowKeepsCount, Present
  <2> QED BY <2>1, <2>2
<1> QED BY <1>2, <1>3, <1>4 DEF Charge

(* Every step.                                                             *)
LEMMA EveryCharge ==
  ASSUME IInv, [Next]_vars
  PROVE  \A d \in Deliveries : Charge(d)
<1>1. ASSUME NEW r \in Relays, RelayStep(r)
      PROVE  \A d \in Deliveries : Charge(d)
  BY <1>1, SettleCharge, RequeueCharge, ReleaseCharge, BeginCharge, ClaimCharge,
     ReconcileCharge, RestCharge DEF RelayStep
<1>2. ASSUME NEW r \in Relays, ProcessStep(r)
      PROVE  \A d \in Deliveries : Charge(d)
  BY <1>2, ClaimCharge, RestCharge DEF ProcessStep
<1> QED BY <1>1, <1>2, OutsideCharge DEF Next

-----------------------------------------------------------------------------
(* Parents.                                                                *)

(* Relays and their processes replay nothing, and reopen no parent.        *)
LEMMA RelaysReopenNothing ==
  ASSUME IInv, NEW r \in Relays, RelayStep(r) \/ ProcessStep(r)
  PROVE  /\ UNCHANGED replays
         /\ \A e \in Events : parent[e].status = "dispatched" =>
              parent'[e].status \in {"dispatched", "purged"}
<1>1. CASE RelayStep(r)
  <2>1. UNCHANGED replays
    BY <1>1 DEF RelayStep, Pump, DropOrphans, CompleteRead, CompleteWrite,
      ExpandRead, ExpandWrite, PurgeDeliveries, PurgeParentsRead,
      PurgeParentsWrite, SweepExhausted, ClaimDeliveries, ReleaseUnstarted, Begin, TimeOut, Return, MarkDispatched,
      MarkFailure, AbandonUnhandled, RequeueUnhandled, aux
  <2>2. CASE CompleteWrite(r)
    <3>1. \A e \in Events : parent[e].status = "dispatched" => parent'[e] = parent[e]
      BY <2>2 DEF CompleteWrite, Dispatch
    <3> QED BY <2>1, <3>1
  <2>3. CASE PurgeParentsWrite(r)
    <3>1. \A e \in Events : parent'[e] = Purged \/ parent'[e] = parent[e]
      BY <2>3 DEF PurgeParentsWrite
    <3> QED BY <2>1, <3>1 DEF Purged
  <2>4. CASE ~CompleteWrite(r) /\ ~PurgeParentsWrite(r)
    <3>1. UNCHANGED parent
      BY <1>1, <2>4 DEF RelayStep, Pump, DropOrphans, CompleteRead,
        ExpandRead, ExpandWrite, PurgeDeliveries, PurgeParentsRead,
        SweepExhausted, ClaimDeliveries, ReleaseUnstarted, Begin, TimeOut, Return, MarkDispatched,
        MarkFailure, AbandonUnhandled, RequeueUnhandled, table
    <3> QED BY <2>1, <3>1
  <2> QED BY <2>2, <2>3, <2>4
<1>2. CASE ProcessStep(r)
  <2>1. UNCHANGED <<replays, parent>>
    BY <1>2 DEF ProcessStep, Exit, Crash, PumpFails, ClaimLost, SettleFails, Cancel,
                Restart, aux, table
  <2> QED BY <2>1
<1> QED BY <1>1, <1>2

(* A replay counts, and needs a dead or abandoned delivery.                *)
LEMMA ReplayReopens ==
  ASSUME IInv, [Next]_vars
  PROVE  /\ replays' \in {replays, replays + 1}
         /\ \A e \in Events : parent[e].status = "dispatched" =>
              \/ parent'[e].status \in {"dispatched", "purged"}
              \/ \E d \in DeliveriesOf(e) : delivery[d].status # "dispatched"
<1>1. CASE \E r \in Relays : RelayStep(r) \/ ProcessStep(r)
  BY <1>1, RelaysReopenNothing
<1>2. CASE \E e \in Events : AppendFor(e)
  BY <1>2 DEF AppendFor, aux, IInv, Tables
<1>3. ASSUME NEW f \in Events, NEW ns \in SUBSET Names, Replay(f, ns)
      PROVE  /\ replays' = replays + 1
             /\ \A e \in Events : \/ parent'[e] = parent[e]
                                  \/ \E d \in DeliveriesOf(e) :
                                       delivery[d].status # "dispatched"
  <2>1. \E d \in DeliveriesOf(f) : delivery[d].status \in {"dead", "abandoned"}
    BY <1>3 DEF Replay
  <2>2. replays' = replays + 1 /\ \A e \in Events \ {f} : parent'[e] = parent[e]
    BY <1>3 DEF Replay, IInv, Tables
  <2> QED BY <2>1, <2>2
<1>4. CASE Tick \/ UNCHANGED vars
  BY <1>4 DEF Tick, vars, aux, table
<1> QED BY <1>1, <1>2, <1>3, <1>4 DEF Next

(* What the observer notes.                                                *)
LEMMA LateFacts ==
  ASSUME Count
  PROVE  /\ late \subseteq late'
         /\ \A d \in Deliveries : Added(d) =>
              parent[d[1]].status = "pending" \/ d[1] \in late'
<1>1. ASSUME NEW d \in Deliveries, Added(d), parent[d[1]].status # "pending"
      PROVE  d[1] \in late'
  <2>1. PICK e \in Events, n \in Names : d = <<e, n>>
    BY DEF Deliveries
  <2> QED BY <1>1, <2>1 DEF Count
<1>2. late \subseteq late'
  BY DEF Count
<1> QED BY <1>1, <1>2

(* A closed event stays closed unless an expansion is late.                *)
LEMMA ClosedStays ==
  ASSUME IInv, [Next]_vars, Count, NEW e \in Events, Closed(e), e \notin late'
  PROVE  Closed(e)'
<1>1. TableStep
  BY EveryStepFacts DEF StepFacts
<1>2. ParentStep(e)
  BY <1>1 DEF TableStep
<1>3. parent'[e].status \in {"dispatched", "purged"}
  BY <1>2, ReplayReopens DEF Closed, ParentStep
<1>4. ASSUME NEW d \in Deliveries, d[1] = e, delivery'[d].status # "none"
      PROVE  delivery'[d].status = "dispatched"
  <2>1. RowStep(d)
    BY <1>1 DEF TableStep
  <2>2. delivery[d].status \in {"none", "dispatched"}
    BY <1>4 DEF Closed, DeliveriesOf, Present
  <2>3. Present(d)
    BY <1>4, LateFacts DEF Closed, Added
  <2> QED BY <1>4, <2>1, <2>2, <2>3 DEF RowStep, Pending, Claimable, Present, NoDelivery
<1> QED BY <1>3, <1>4 DEF Closed, DeliveriesOf, Present

(* Only its own read takes a relay to the purge of parents.                *)
LEMMA SelectedBefore ==
  ASSUME IInv, [Next]_vars, NEW r \in Relays, pc'[r] = "parentsWrite"
  PROVE  \/ pc[r] = "parentsWrite" /\ chosen'[r] = chosen[r]
         \/ PurgeParentsRead(r)
<1>0. pc \in [Relays -> Places] /\ chosen \in [Relays -> SUBSET Events]
  BY DEF IInv, Memory
<1>1. ASSUME NEW q \in Relays, RelayStep(q)
      PROVE  \/ pc[r] = "parentsWrite" /\ chosen'[r] = chosen[r]
             \/ PurgeParentsRead(r)
  <2>1. CASE q # r
    <3>1. pc'[r] = pc[r] /\ chosen'[r] = chosen[r]
      BY <1>0, <1>1, <2>1 DEF RelayStep, Pump, DropOrphans, CompleteRead, CompleteWrite,
        Advance, ExpandRead, ExpandWrite, PurgeDeliveries, PurgeParentsRead,
        PurgeParentsWrite, SweepExhausted, ClaimDeliveries, ReleaseUnstarted, HandOn,
        Begin, TimeOut, Return, MarkDispatched, MarkFailure, AbandonUnhandled,
        RequeueUnhandled, Goto, memory
    <3> QED BY <3>1
  <2>2. CASE q = r /\ ~PurgeParentsRead(r)
    <3>1. pc'[r] # "parentsWrite"
      BY <1>0, <1>1, <2>2 DEF RelayStep, Pump, DropOrphans, CompleteRead, CompleteWrite,
        Advance, ExpandRead, ExpandWrite, PurgeDeliveries,
        PurgeParentsWrite, SweepExhausted, ClaimDeliveries, ReleaseUnstarted, HandOn,
        Begin, TimeOut, Return, MarkDispatched, MarkFailure, AbandonUnhandled,
        RequeueUnhandled, Goto, memory
    <3> QED BY <3>1
  <2> QED BY <2>1, <2>2
<1>2. ASSUME NEW q \in Relays, ProcessStep(q)
      PROVE  pc[r] = "parentsWrite" /\ chosen'[r] = chosen[r]
  <2>1. \/ pc'[r] = pc[r] /\ chosen'[r] = chosen[r]
        \/ pc'[r] # "parentsWrite"
    BY <1>0, <1>2 DEF ProcessStep, Exit, Crash, PumpFails, ClaimLost, SettleFails,
      Cancel, Restart, Empty, Advance, HandOn, Goto, memory
  <2> QED BY <2>1
<1>3. CASE \/ Tick \/ UNCHANGED vars
           \/ \E e \in Events : AppendFor(e) \/ \E ns \in SUBSET Names : Replay(e, ns)
  BY <1>3 DEF Tick, vars, AppendFor, Replay, memory
<1> QED BY <1>1, <1>2, <1>3 DEF Next

(* What a purge selected stays closed.                                     *)
LEMMA SelectedKept ==
  ASSUME RunsInv, [Next]_vars, Count
  PROVE  Selected'
<1> SUFFICES ASSUME NEW r \in Relays, pc'[r] = "parentsWrite",
                    NEW e \in chosen'[r], e \notin late'
             PROVE  Closed(e)'
  BY DEF Selected
<1>0. IInv /\ IInv' /\ e \notin late
  BY IInvInductive, LateFacts DEF RunsInv
<1>1. e \in Events
  BY <1>0 DEF IInv, Memory
<1>2. Closed(e)
  <2>1. CASE pc[r] = "parentsWrite" /\ chosen'[r] = chosen[r]
    BY <1>0, <2>1 DEF RunsInv, Selected
  <2>2. CASE PurgeParentsRead(r)
    <3>1. Expired(e, at[r])
      BY <1>0, <2>2 DEF PurgeParentsRead, IInv, Memory
    <3> QED BY <3>1 DEF Expired, Closed
  <2> QED BY <1>0, <2>1, <2>2, SelectedBefore
<1> QED BY <1>0, <1>1, <1>2, ClosedStays

(* No step takes the event from an undelivered row, unless it was late.    *)
LEMMA EventKeptKept ==
  ASSUME RunsInv, [Next]_vars, Count
  PROVE  EventKept'
<1> SUFFICES ASSUME NEW d \in Deliveries, delivery'[d].status \in Undelivered,
                    d[1] \notin late'
             PROVE  parent'[d[1]].status \in {"pending", "dispatched"}
  BY DEF EventKept
<1>0. IInv /\ d[1] \notin late /\ d[1] \in Events
  BY LateFacts DEF RunsInv, Deliveries
<1>1. TableStep
  BY <1>0, EveryStepFacts DEF StepFacts
<1>2. RowStep(d) /\ ParentStep(d[1])
  BY <1>0, <1>1 DEF TableStep
<1>3. CASE delivery[d].status \in Undelivered
  <2>1. parent[d[1]].status \in {"pending", "dispatched"}
    BY <1>0, <1>3 DEF RunsInv, EventKept
  <2>2. ~Closed(d[1])
    BY <1>3 DEF Closed, DeliveriesOf, Present, Undelivered
  <2>3. \A r \in Relays : ~(pc[r] = "parentsWrite" /\ d[1] \in chosen[r])
    BY <1>0, <2>2 DEF RunsInv, Selected
  <2> QED BY <1>2, <2>1, <2>3 DEF ParentStep
<1>4. CASE delivery[d].status \notin Undelivered
  <2>1. ~Present(d) /\ parent' = parent
    BY <1>2, <1>4 DEF RowStep, Pending, Claimable, NoDelivery, Undelivered
  <2>2. Added(d)
    BY <2>1 DEF Added, Undelivered
  <2>3. parent[d[1]].status = "pending"
    BY <2>2, LateFacts
  <2> QED BY <2>1, <2>3
<1> QED BY <1>3, <1>4

-----------------------------------------------------------------------------
(* The theorem.                                                            *)

(* Nothing is spent at the start ...                                       *)
LEMMA RunsInitHolds == RunsInit => RunsInv
<1> SUFFICES ASSUME RunsInit PROVE RunsInv
  OBVIOUS
<1>1. IInv
  BY InitHolds DEF RunsInit
<1>2. runs \in [Deliveries -> Nat]
  BY DEF RunsInit
<1>3. ASSUME NEW d \in Deliveries PROVE Budget(d)
  <2>1. Owing(d) = {}
    BY DEF Owing, Awaits, RunsInit, Init
  <2>2. Spent(d) = 0
    BY <2>1, FS_EmptySet DEF Spent, RunsInit
  <2>3. ~Present(d)
    BY DEF Present, RunsInit, Init, NoDelivery
  <2>4. MaxAttempts * (1 + replays) \in Nat
    BY LeaseBounds DEF RunsInit, Init
  <2> QED BY <2>2, <2>3, <2>4 DEF Budget
<1>4. Selected /\ EventKept
  BY DEF RunsInit, Init, Selected, EventKept, Undelivered, NoDelivery
<1> QED BY <1>1, <1>2, <1>3, <1>4 DEF RunsInv

(* ... and every step keeps the accounts.                                  *)
LEMMA RunsInvInductive ==
  RunsInv /\ [Next /\ Count]_runsVars => RunsInv'
<1> SUFFICES ASSUME RunsInv, [Next /\ Count]_runsVars PROVE RunsInv'
  OBVIOUS
<1>1. IInv /\ [Next]_vars
  BY DEF RunsInv, runsVars
<1>2. Count
  <2>1. CASE UNCHANGED runsVars
    <3>1. UNCHANGED <<pc, delivery, runs, late>>
      BY <2>1 DEF runsVars, vars, table
    <3>2. \A d \in Deliveries : ~Started(d)
      BY <3>1 DEF Started
    <3>3. \A d : ~Added(d)
      BY <3>1 DEF Added, Present
    <3>4. runs = [d \in Deliveries |-> runs[d]]
      BY DEF RunsInv
    <3> QED BY <3>1, <3>2, <3>3, <3>4 DEF Count
  <2> QED BY <2>1
<1>3. IInv' /\ Selected' /\ EventKept'
  BY <1>1, <1>2, IInvInductive, SelectedKept, EventKeptKept
<1>4. ASSUME NEW d \in Deliveries, d[1] \notin late' PROVE Budget(d)'
  <2>1. Charge(d) /\ d[1] \in Events
    BY <1>1, EveryCharge DEF Deliveries
  <2>2. Budget(d)
    BY <1>2, <1>4, LateFacts DEF RunsInv
  <2>3. Closed(d[1]) => Closed(d[1])'
    BY <1>1, <1>2, <1>4, <2>1, ClosedStays
  <2>4. Added(d) => ~Closed(d[1])
    BY <1>2, <1>4, LateFacts DEF Closed
  <2>5. replays' \in {replays, replays + 1}
    BY <1>1, ReplayReopens
  <2> QED BY <1>2, <1>3, <2>1, <2>2, <2>3, <2>4, <2>5, BudgetKept
<1>5. runs' \in [Deliveries -> Nat]
  BY <1>2 DEF Count, RunsInv
<1> QED BY <1>3, <1>4, <1>5 DEF RunsInv

(* A delivery and each replay of it buy at most MaxAttempts handler        *)
(* starts, whatever relays overrun their lease, die, requeue or hand back. *)
THEOREM RunsWithinBudgetHolds == RunsSpec => []RunsWithinBudget
<1>1. RunsInv => RunsWithinBudget
  <2> SUFFICES ASSUME RunsInv, NEW d \in Deliveries, d[1] \notin late
               PROVE  runs[d] <= MaxAttempts * (1 + replays)
    BY DEF RunsWithinBudget
  <2> DEFINE n == Cardinality(Owing(d))
             a == delivery[d].attempts
             B == MaxAttempts * replays
  <2>1. n \in Nat
    <3>1. IsFiniteSet(Relays) /\ Owing(d) \in SUBSET Relays
      BY OutboxAssumption DEF Owing
    <3> QED BY <3>1, FS_Subset, FS_CardinalityType
  <2>2. /\ runs[d] \in Nat /\ a \in 0 .. MaxAttempts
        /\ replays \in Nat /\ MaxAttempts \in Nat
    BY LeaseBounds DEF RunsInv, IInv, Tables, Rows, Memory
  <2>3. B \in Nat /\ MaxAttempts * (1 + replays) = B + MaxAttempts
    <3>1. \A k, p \in Nat : k * p \in Nat /\ k * (1 + p) = k * p + k
      OBVIOUS
    <3> QED BY <2>2, <3>1
  <2>4. runs[d] + n <= B + a \/ runs[d] + n <= B + MaxAttempts
    BY <2>3 DEF RunsInv, Budget, Spent
  <2> HIDE DEF n, a, B
  <2> QED BY <2>1, <2>2, <2>3, <2>4
<1> QED BY <1>1, RunsInitHolds, RunsInvInductive, PTL DEF RunsSpec

(* Retention takes the event of an undelivered row only where an expansion *)
(* added that row late.                                                    *)
THEOREM EventKeptHolds == RunsSpec => []EventKept
<1>1. RunsInv => EventKept
  BY DEF RunsInv
<1> QED BY <1>1, RunsInitHolds, RunsInvInductive, PTL DEF RunsSpec
=============================================================================
