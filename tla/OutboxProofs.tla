---------------------------- MODULE OutboxProofs ----------------------------
(***************************************************************************)
(* Proofs about Outbox for any number of relays, events, consumers and     *)
(* releases, any timing of statements, and any lease, budget, grace,       *)
(* retention and backoff.                                                  *)
(***************************************************************************)
EXTENDS Outbox, FiniteSetTheorems, SequenceTheorems, TLAPS

-----------------------------------------------------------------------------
(* The inductive invariant.                                                *)

Rows == [status : {"none", "pending", "dispatched", "dead", "abandoned"},
         attempts : 0 .. MaxAttempts, created : Times, next : Nat, until : Times]

Settled == {"complete", "completeWrite"}

(* Where a relay is in the middle of its batch.                            *)
Holding == {"batch", "release", "running", "succeeded", "failed", "requeue"}
             \cup Settled

(* Where it has expansions to run.                                         *)
Expanding == {"expand", "expandWrite"}

Places == {"idle", "down"} \cup Reconciling \cup Holding

(* Types of the tables.                                                    *)
Tables ==
  /\ parent \in [Events -> [status : {"absent", "pending", "dispatched", "purged"},
                            created : Times]]
  /\ delivery \in [Deliveries -> Rows]

(* Types of the clock and of the relays' memory.                           *)
Memory ==
  /\ now \in Nat /\ now <= MaxTime
  /\ release \in [Relays -> Releases]
  /\ cancelled \in [Relays -> BOOLEAN]
  /\ pc \in [Relays -> Places]
  /\ at \in [Relays -> Times]
  /\ adding \in [Relays -> SUBSET Deliveries]
  /\ chosen \in [Relays -> SUBSET Events]
  /\ batch \in [Relays -> Seq(Claim)]
  /\ fresh \in [Relays -> BOOLEAN]
  /\ started \in [Relays -> Times]
  /\ replays \in Nat

(* A relay holds claims exactly while it works through a batch, and        *)
(* expansions only while it runs them; it purges only if it is to.         *)
Stations ==
  /\ DOMAIN todo = Relays
  /\ \A r \in Relays :
       /\ pc[r] \in Holding <=> batch[r] # <<>>
       /\ todo[r] \subseteq Declared(r)
       /\ pc[r] \notin Expanding => todo[r] = {}
       /\ pc[r] = "purge" => Retention > 0

(* A row under claim is pending and counts the claim; an unclaimed one has *)
(* an attempt left.                                                        *)
RowsCounted ==
  \A d \in Deliveries :
    /\ delivery[d].until # 0 => Pending(d) /\ delivery[d].attempts >= 1
    /\ Pending(d) /\ delivery[d].until = 0 => delivery[d].attempts < MaxAttempts

(* The i-th claim of r's batch is not settled yet.                         *)
Live(r, i) == i \in DOMAIN batch[r] /\ (i = 1 => pc[r] \notin Settled)

(* Claims carry the end of their lease and one claim per row.              *)
ClaimsApart ==
  \A r \in Relays : \A i \in DOMAIN batch[r] :
    /\ batch[r][i].until > 0
    /\ \A j \in DOMAIN batch[r] : batch[r][i].row = batch[r][j].row => i = j

(* Nobody else has a claim like it: the end of the lease names the claim.  *)
OneHolder ==
  \A r, q \in Relays : \A i \in DOMAIN batch[r], j \in DOMAIN batch[q] :
    /\ Live(r, i) /\ Live(q, j)
    /\ batch[r][i].row = batch[q][j].row
    /\ batch[r][i].until = batch[q][j].until
    => r = q

(* Inside its lease an unsettled claim has its row, and the attempts it    *)
(* counted are the row's for as long as it has it.                         *)
HeldInLease ==
  \A r \in Relays : \A i \in DOMAIN batch[r] : Live(r, i) =>
    /\ batch[r][i].until > now => Fenced(batch[r][i])
    /\ Fenced(batch[r][i]) =>
         delivery[batch[r][i].row].attempts = batch[r][i].attempts

(* A handler that is not the first of its batch started with enough lease. *)
RunsInLease ==
  \A r \in Relays : pc[r] \in {"running", "succeeded", "failed"} /\ ~fresh[r] =>
    started[r] + HandlerTimeout + SettleTimeout <= Current(r).until

Everywhere(e, n) == \A v \in Releases : <<TypeOf[e], n>> \in Declares[v]

(* What a completion's snapshot selected has the deliveries it needs, still*)
(* when it is written.                                                     *)
ChosenCovered ==
  \A r \in Relays : \A e \in chosen[r] :
    /\ parent[e].status # "absent"
    /\ parent[e].status # "purged" =>
         \A n \in Names : Everywhere(e, n) => Present(<<e, n>>) \/ PastRetention(e)

IInv ==
  /\ Tables /\ Memory /\ Stations /\ RowsCounted /\ ClaimsApart /\ OneHolder
  /\ HeldInLease /\ RunsInLease /\ ChosenCovered
  /\ NoConsumerSkipped

-----------------------------------------------------------------------------
(* The operators.                                                          *)

(* A lease is positive and fits the clock's range.                         *)
LEMMA LeaseBounds ==
  /\ Lease \in Nat \ {0} /\ Lease <= MaxDuration
  /\ MaxDuration \in Nat \ {0} /\ MaxTime \in Nat \ {0} /\ MaxAttempts \in Nat \ {0}
  /\ HandlerTimeout \in Nat /\ SettleTimeout \in Nat /\ BackoffMax \in Nat
  /\ Retention \in Nat /\ HandlerGrace \in Nat
<1>1. /\ {MinLease, HandlerTimeout, SettleTimeout, MaxDuration, MaxAttempts, MaxTime}
           \subseteq Nat \ {0}
      /\ {BackoffMax, Retention, HandlerGrace} \subseteq Nat
      /\ MinLease <= MaxDuration
  BY OutboxAssumption
<1>2. LeaseFloor \in Nat \ {0} /\ LeaseFloor <= MaxDuration
  BY <1>1 DEF LeaseFloor
<1> QED BY <1>1, <1>2 DEF Lease

(* What is left of a batch.                                                *)
LEMMA TailFacts ==
  ASSUME NEW S, NEW s \in Seq(S), s # <<>>
  PROVE  /\ Tail(s) \in Seq(S) /\ Head(s) \in S
         /\ 1 \in DOMAIN s /\ Head(s) = s[1]
         /\ \A i \in DOMAIN Tail(s) :
              /\ i \in Nat \ {0} /\ i + 1 \in DOMAIN s /\ i + 1 # 1
              /\ Tail(s)[i] = s[i + 1]
         /\ Tail(s) # s /\ Len(s) \in Nat
         /\ Len(s) > 1 <=> Tail(s) # <<>>
<1>1. Len(s) \in Nat /\ DOMAIN s = 1 .. Len(s) /\ Len(s) # 0
  BY EmptySeq, LenProperties
<1>2. /\ Head(s) \in S /\ Tail(s) \in Seq(S)
      /\ Len(Tail(s)) = Len(s) - 1
      /\ \A i \in 1 .. Len(Tail(s)) : Tail(s)[i] = s[i + 1]
  BY HeadTailProperties
<1>3. DOMAIN Tail(s) = 1 .. Len(s) - 1
  BY <1>2, LenProperties
<1>4. Tail(s) = <<>> <=> Len(s) - 1 = 0
  BY <1>2, EmptySeq
<1>5. Head(s) = s[1] /\ 1 \in DOMAIN s
  BY <1>1
<1> DEFINE n == Len(s)
           m == Len(Tail(s))
<1>a. n \in Nat \ {0} /\ m = n - 1
  BY <1>1, <1>2
<1> HIDE DEF n, m
<1>6. m # n
  BY <1>a
<1>7. Tail(s) # s
  BY <1>6 DEF n, m
<1>8. \A i \in DOMAIN Tail(s) :
        /\ i \in Nat \ {0} /\ i + 1 \in DOMAIN s /\ i + 1 # 1
        /\ Tail(s)[i] = s[i + 1]
  BY <1>1, <1>2, <1>3
<1>9. Len(s) > 1 <=> Tail(s) # <<>>
  <2>1. Tail(s) = <<>> <=> m = 0
    BY <1>2, <1>4 DEF m
  <2>2. n > 1 <=> m # 0
    BY <1>a
  <2> QED BY <2>1, <2>2 DEF n
<1> QED BY <1>1, <1>2, <1>5, <1>7, <1>8, <1>9

(* A claim in a batch.                                                     *)
LEMMA ClaimFacts ==
  ASSUME IInv, NEW r \in Relays
  PROVE  /\ batch[r] \in Seq(Claim)
         /\ \A i \in DOMAIN batch[r] :
              /\ batch[r][i] \in Claim /\ batch[r][i].row \in Deliveries
              /\ batch[r][i].until \in Nat \ {0}
              /\ batch[r][i].attempts \in 1 .. MaxAttempts
<1>1. batch[r] \in Seq(Claim)
  BY DEF IInv, Memory
<1>2. ASSUME NEW i \in DOMAIN batch[r]
      PROVE  batch[r][i] \in Claim /\ batch[r][i].until > 0
  <2>1. i \in 1 .. Len(batch[r])
    BY <1>1, LenProperties
  <2>2. batch[r][i] \in Claim
    BY <1>1, <2>1, ElementOfSeq
  <2>3. batch[r][i].until > 0
    BY DEF IInv, ClaimsApart
  <2> QED BY <2>2, <2>3
<1>3. Times \subseteq Nat
  BY LeaseBounds DEF Times
<1>4. ASSUME NEW c \in Claim, c.until > 0
      PROVE  /\ c.row \in Deliveries /\ c.until \in Nat \ {0}
             /\ c.attempts \in 1 .. MaxAttempts
  <2>1. c.row \in Deliveries /\ c.until \in Times /\ c.attempts \in 1 .. MaxAttempts
    BY DEF Claim
  <2>2. c.until \in Nat
    BY <1>3, <2>1
  <2>3. c.until # 0
    BY <1>4, <2>2
  <2> QED BY <2>1, <2>2, <2>3
<1> QED BY <1>1, <1>2, <1>4

-----------------------------------------------------------------------------
(* What one step may do to a row, to a parent and to a batch.              *)

RowStep(d) ==
  \/ delivery'[d] = delivery[d]
  \/ /\ Pending(d) /\ delivery[d].until # 0                     \* settled
     /\ delivery'[d].status \in {"dispatched", "dead", "abandoned"}
     /\ delivery'[d].until = 0
  \/ /\ Pending(d) /\ delivery[d].until # 0                     \* given back
     /\ delivery'[d].status = "pending" /\ delivery'[d].until = 0
     /\ delivery'[d].attempts < MaxAttempts
  \/ /\ Claimable(d)                                            \* claimed
     /\ delivery'[d].status = "pending" /\ delivery'[d].until = now + Lease
     /\ delivery'[d].attempts = delivery[d].attempts + 1
  \/ /\ ~Present(d)                                            \* created
     /\ delivery'[d].status = "pending" /\ delivery'[d].until = 0
     /\ delivery'[d].attempts = 0 /\ UNCHANGED parent
  \/ /\ delivery[d].status \in {"dead", "abandoned"}            \* replayed
     /\ delivery'[d].status = "pending" /\ delivery'[d].until = 0
     /\ delivery'[d].attempts = 0 /\ replays' # replays
  \/ /\ delivery[d].status \in {"none", "dispatched"}           \* purged
     /\ delivery'[d] = NoDelivery
     /\ Retention > 0 /\ Expired(d[1], now) /\ UNCHANGED parent

ParentStep(e) ==
  \/ parent'[e] = parent[e]
  \/ parent[e].status = "absent" /\ parent'[e].status = "pending"    \* staged
  \/ /\ parent[e].status = "pending" /\ \E r \in Relays : e \in chosen[r]
     /\ parent'[e].status = "dispatched" /\ parent'[e].created = parent[e].created
  \/ /\ parent[e].status = "dispatched" /\ parent'[e].status = "pending"
     /\ parent'[e].created = parent[e].created                   \* reopened
  \/ /\ parent[e].status = "dispatched" /\ parent'[e].status = "purged"
     /\ \E r \in Relays : pc[r] = "parentsWrite" /\ e \in chosen[r]
     /\ UNCHANGED delivery

TableStep ==
  /\ Tables'
  /\ \A d \in Deliveries : RowStep(d)
  /\ \A e \in Events : ParentStep(e)

ChosenStep ==
  \A r \in Relays : \A e \in chosen'[r] :
    \/ e \in chosen[r]
    \/ /\ UNCHANGED table /\ parent[e].status = "pending"
       /\ \A n \in Names : Everywhere(e, n) => Present(<<e, n>>)
    \/ /\ UNCHANGED table /\ e \in Events /\ parent[e].status = "dispatched"

(* Rows stay counted.                                                      *)
LEMMA RowsCountedKept ==
  ASSUME IInv, TableStep
  PROVE  RowsCounted'
<1> SUFFICES ASSUME NEW d \in Deliveries
             PROVE  /\ delivery'[d].until # 0 =>
                         /\ delivery'[d].status = "pending"
                         /\ delivery'[d].attempts >= 1
                    /\ delivery'[d].status = "pending" /\ delivery'[d].until = 0
                         => delivery'[d].attempts < MaxAttempts
  BY DEF RowsCounted, Pending
<1>1. /\ delivery[d].attempts \in Nat /\ now \in Nat
      /\ delivery[d].until # 0 => Pending(d) /\ delivery[d].attempts >= 1
      /\ Pending(d) /\ delivery[d].until = 0 => delivery[d].attempts < MaxAttempts
  BY LeaseBounds DEF IInv, Tables, Rows, Memory, RowsCounted
<1>2. RowStep(d) /\ Lease \in Nat \ {0} /\ MaxAttempts \in Nat \ {0}
  BY LeaseBounds DEF TableStep
<1> QED BY <1>1, <1>2 DEF RowStep, Pending, NoDelivery

(* Delivered rows leave only by retention, dead ones come back by Replay.  *)
LEMMA SettledRows ==
  ASSUME TableStep, NEW d \in Deliveries, delivery'[d] # delivery[d]
  PROVE  /\ delivery[d].status = "dispatched" => delivery'[d] = NoDelivery
         /\ delivery[d].status \in {"dead", "abandoned"} => replays' # replays
BY DEF TableStep, RowStep, Pending, Claimable, Present

(* Only delivered rows leave.                                              *)
LEMMA UndeliveredRows ==
  ASSUME TableStep, NEW d \in Deliveries, delivery[d].status \in Undelivered
  PROVE  delivery'[d].status # "none"
<1>1. RowStep(d)
  BY DEF TableStep
<1> QED BY <1>1 DEF RowStep, Undelivered, Present

(* Retention passes with time; a row is gone only past it.                 *)
LEMMA CoverKept ==
  ASSUME IInv, TableStep, now' \in Nat, now' >= now,
         NEW e \in Events, NEW n \in Names, parent[e].status # "absent",
         parent'[e].status # "purged", Present(<<e, n>>) \/ PastRetention(e)
  PROVE  (Present(<<e, n>>) \/ PastRetention(e))'
<1>1. <<e, n>> \in Deliveries /\ <<e, n>>[1] = e /\ RowStep(<<e, n>>) /\ ParentStep(e)
  BY DEF Deliveries, TableStep
<1>2. parent'[e].created = parent[e].created /\ parent[e].created \in Nat
  BY <1>1, LeaseBounds DEF ParentStep, IInv, Tables, Times
<1>3. PastRetention(e) => PastRetention(e)'
  BY <1>2, LeaseBounds DEF PastRetention, Older, IInv, Memory
<1>4. CASE Present(<<e, n>>) /\ ~Present(<<e, n>>)'
  <2>1. Retention > 0 /\ Expired(e, now)
    BY <1>1, <1>4 DEF RowStep, Present, Pending
  <2>2. PastRetention(e)
    BY <2>1 DEF Expired, PastRetention
  <2> QED BY <1>3, <2>2
<1> QED BY <1>3, <1>4 DEF Present

(* A completed event keeps the deliveries of its consumers.                *)
LEMMA CoveredKept ==
  ASSUME IInv, TableStep, ChosenStep, now' \in Nat, now' >= now
  PROVE  NoConsumerSkipped' /\ ChosenCovered'
<1>1. NoConsumerSkipped'
  <2> SUFFICES ASSUME NEW e \in Events, parent'[e].status = "dispatched",
                      NEW n \in Names, Everywhere(e, n)
               PROVE  (Present(<<e, n>>) \/ PastRetention(e))'
    BY DEF NoConsumerSkipped, Everywhere
  <2>1. ParentStep(e)
    BY DEF TableStep
  <2>2. CASE parent[e].status = "dispatched"
    <3>1. Present(<<e, n>>) \/ PastRetention(e)
      BY <2>2 DEF IInv, NoConsumerSkipped, Everywhere
    <3> QED BY <2>2, <3>1, CoverKept
  <2>3. CASE parent[e].status # "dispatched"
    <3>1. parent[e].status = "pending" /\ \E r \in Relays : e \in chosen[r]
      BY <2>1, <2>3 DEF ParentStep
    <3>2. Present(<<e, n>>) \/ PastRetention(e)
      BY <3>1 DEF IInv, ChosenCovered
    <3> QED BY <3>1, <3>2, CoverKept
  <2> QED BY <2>2, <2>3
<1>2. ChosenCovered'
  <2> SUFFICES ASSUME NEW r \in Relays, NEW e \in chosen'[r]
               PROVE  /\ parent'[e].status # "absent"
                      /\ parent'[e].status # "purged" =>
                           \A n \in Names : Everywhere(e, n) =>
                             (Present(<<e, n>>) \/ PastRetention(e))'
    BY DEF ChosenCovered, Everywhere
  <2>1. CASE e \in chosen[r]
    <3>1. e \in Events /\ parent[e].status # "absent" /\ ParentStep(e)
      BY <2>1 DEF IInv, ChosenCovered, Memory, TableStep
    <3>2. parent'[e].status # "absent" /\ (parent[e].status = "purged" => parent'[e].status = "purged")
      BY <3>1 DEF ParentStep
    <3>3. ASSUME parent'[e].status # "purged", NEW n \in Names, Everywhere(e, n)
          PROVE  (Present(<<e, n>>) \/ PastRetention(e))'
      <4>1. Present(<<e, n>>) \/ PastRetention(e)
        BY <2>1, <3>2, <3>3 DEF IInv, ChosenCovered
      <4> QED BY <3>1, <3>3, <4>1, CoverKept
    <3> QED BY <3>2, <3>3
  <2>2. CASE e \notin chosen[r]
    <3>1. /\ parent' = parent /\ delivery' = delivery
          /\ \/ /\ parent[e].status = "pending"
                /\ \A n \in Names : Everywhere(e, n) => Present(<<e, n>>)
             \/ e \in Events /\ parent[e].status = "dispatched"
      BY <2>2 DEF ChosenStep, table
    <3>2. CASE parent[e].status = "pending"
      BY <3>1, <3>2 DEF Present
    <3>3. CASE e \in Events /\ parent[e].status = "dispatched"
      <4>1. \A n \in Names : Everywhere(e, n) => (Present(<<e, n>>) \/ PastRetention(e))'
        BY <1>1, <3>1, <3>3 DEF NoConsumerSkipped, Everywhere
      <4> QED BY <3>1, <3>3, <4>1
    <3> QED BY <3>1, <3>2, <3>3
  <2> QED BY <2>1, <2>2
<1> QED BY <1>1, <1>2

-----------------------------------------------------------------------------
(* The claims.                                                             *)

(* A batch is kept, loses its first claim, or is dropped.                  *)
BatchStep(r) ==
  \/ batch'[r] = batch[r] /\ (pc[r] \in Settled => pc'[r] \in Settled)
  \/ batch[r] # <<>> /\ batch'[r] = Tail(batch[r])
  \/ batch'[r] = <<>>

(* r is done with its current claim, which is of row d as it stands.       *)
GivesUp(r, d) ==
  /\ batch[r] # <<>> /\ pc[r] \notin Settled
  /\ Current(r).row = d /\ Current(r).until = delivery[d].until
  /\ batch'[r] = Tail(batch[r]) \/ (batch'[r] = batch[r] /\ pc'[r] \in Settled)

(* A row changes hands only where no other relay has a claim in its lease. *)
RowFreed(d) ==
  \/ delivery'[d] = delivery[d]
  \/ /\ delivery'[d].until = 0
     /\ \/ ~Pending(d)
        \/ delivery[d].until <= now
        \/ \E r \in Relays : GivesUp(r, d)

(* Every unsettled claim after such a step was one before it.              *)
LEMMA LiveBefore ==
  ASSUME IInv, NEW r \in Relays, BatchStep(r),
         NEW i \in DOMAIN batch'[r], Live(r, i)'
  PROVE  \E j \in DOMAIN batch[r] :
           /\ Live(r, j) /\ batch'[r][i] = batch[r][j]
           /\ \/ batch'[r] = batch[r] /\ j = i
              \/ batch[r] # <<>> /\ batch'[r] = Tail(batch[r]) /\ j = i + 1
<1>1. CASE batch'[r] = batch[r] /\ (pc[r] \in Settled => pc'[r] \in Settled)
  BY <1>1 DEF Live
<1>2. CASE batch[r] # <<>> /\ batch'[r] = Tail(batch[r])
  <2>1. i + 1 \in DOMAIN batch[r] /\ i + 1 # 1 /\ batch'[r][i] = batch[r][i + 1]
    BY <1>2, ClaimFacts, TailFacts
  <2> QED BY <1>2, <2>1 DEF Live
<1>3. CASE batch'[r] = <<>>
  BY <1>3
<1> QED BY <1>1, <1>2, <1>3 DEF BatchStep

(* Claims stay apart.                                                      *)
LEMMA ClaimsApartKept ==
  ASSUME IInv, \A r \in Relays : BatchStep(r)
  PROVE  ClaimsApart'
<1> SUFFICES ASSUME NEW r \in Relays, NEW i \in DOMAIN batch'[r]
             PROVE  /\ batch'[r][i].until > 0
                    /\ \A j \in DOMAIN batch'[r] :
                         batch'[r][i].row = batch'[r][j].row => i = j
  BY DEF ClaimsApart
<1>0. \A k \in DOMAIN batch[r] :
        /\ batch[r][k].until > 0
        /\ \A j \in DOMAIN batch[r] : batch[r][k].row = batch[r][j].row => k = j
  BY DEF IInv, ClaimsApart
<1>1. CASE batch'[r] = batch[r]
  BY <1>0, <1>1
<1>2. CASE batch[r] # <<>> /\ batch'[r] = Tail(batch[r])
  <2>1. \A k \in DOMAIN batch'[r] :
          /\ k \in Nat \ {0} /\ k + 1 \in DOMAIN batch[r]
          /\ batch'[r][k] = batch[r][k + 1]
    BY <1>2, ClaimFacts, TailFacts
  <2>2. \A j \in DOMAIN batch'[r] : i + 1 = j + 1 => i = j
    BY <2>1
  <2> QED BY <1>0, <2>1, <2>2
<1>3. CASE batch'[r] = <<>>
  BY <1>3
<1>4. BatchStep(r)
  OBVIOUS
<1> QED BY <1>1, <1>2, <1>3, <1>4 DEF BatchStep

(* No second holder appears.                                               *)
LEMMA OneHolderKept ==
  ASSUME IInv, \A r \in Relays : BatchStep(r)
  PROVE  OneHolder'
<1> SUFFICES ASSUME NEW r \in Relays, NEW q \in Relays,
                    NEW i \in DOMAIN batch'[r], NEW j \in DOMAIN batch'[q],
                    Live(r, i)', Live(q, j)',
                    batch'[r][i].row = batch'[q][j].row,
                    batch'[r][i].until = batch'[q][j].until
             PROVE  r = q
  BY DEF OneHolder
<1>1. PICK k \in DOMAIN batch[r] : Live(r, k) /\ batch'[r][i] = batch[r][k]
  BY LiveBefore
<1>2. PICK l \in DOMAIN batch[q] : Live(q, l) /\ batch'[q][j] = batch[q][l]
  BY LiveBefore
<1> QED BY <1>1, <1>2 DEF IInv, OneHolder

(* Claims in their lease keep their rows.                                  *)
LEMMA HeldInLeaseKept ==
  ASSUME IInv, \A r \in Relays : BatchStep(r), \A d \in Deliveries : RowFreed(d),
         now' \in Nat, now' >= now
  PROVE  HeldInLease'
<1> SUFFICES ASSUME NEW r \in Relays, NEW i \in DOMAIN batch'[r], Live(r, i)'
             PROVE  LET c == batch'[r][i]
                        kept == /\ delivery'[c.row].status = "pending"
                                /\ delivery'[c.row].until = c.until
                    IN  /\ c.until > now' => kept
                        /\ kept => delivery'[c.row].attempts = c.attempts
  BY DEF HeldInLease, Fenced, Pending
<1> DEFINE c == batch'[r][i]
           kept == /\ delivery'[c.row].status = "pending"
                   /\ delivery'[c.row].until = c.until
<1>1. PICK k \in DOMAIN batch[r] :
           /\ Live(r, k) /\ c = batch[r][k]
           /\ \/ batch'[r] = batch[r] /\ k = i
              \/ batch[r] # <<>> /\ batch'[r] = Tail(batch[r]) /\ k = i + 1
  BY LiveBefore
<1>2. /\ c.row \in Deliveries /\ c.until \in Nat \ {0}
      /\ c.until > now => Fenced(c)
      /\ Fenced(c) => delivery[c.row].attempts = c.attempts
  BY <1>1, ClaimFacts DEF IInv, HeldInLease
<1>3. now \in Nat
  BY DEF IInv, Memory
<1> HIDE DEF c
<1>4. CASE delivery'[c.row] = delivery[c.row]
  <2>1. kept <=> Fenced(c)
    BY <1>4 DEF Fenced, Pending
  <2> QED BY <1>2, <1>3, <1>4, <2>1 DEF c
<1>5. CASE delivery'[c.row] # delivery[c.row]
  <2>1. /\ delivery'[c.row].until = 0
        /\ \/ ~Pending(c.row)
           \/ delivery[c.row].until <= now
           \/ \E q \in Relays : GivesUp(q, c.row)
    BY <1>2, <1>5 DEF RowFreed
  <2>2. ~kept
    BY <1>2, <2>1
  <2>3. ~(c.until > now)
    <3> SUFFICES ASSUME c.until > now PROVE FALSE
      OBVIOUS
    <3>1. Pending(c.row) /\ delivery[c.row].until = c.until
      BY <1>2 DEF Fenced
    <3>2. PICK q \in Relays : GivesUp(q, c.row)
      BY <1>2, <1>3, <2>1, <3>1
    <3>3. 1 \in DOMAIN batch[q] /\ Current(q) = batch[q][1] /\ Live(q, 1)
      BY <3>2, ClaimFacts, TailFacts DEF GivesUp, Current, Live
    <3>4. q = r
      BY <1>1, <3>1, <3>2, <3>3 DEF IInv, OneHolder, GivesUp
    <3>5. k = 1
      BY <1>1, <3>2, <3>3, <3>4 DEF IInv, ClaimsApart, GivesUp
    <3>6. CASE batch'[r] = Tail(batch[r])
      <4>1. batch'[r] # batch[r] /\ i + 1 # 1
        BY <3>2, <3>4, <3>6, ClaimFacts, TailFacts DEF GivesUp
      <4> QED BY <1>1, <3>5, <4>1
    <3>7. CASE batch'[r] = batch[r] /\ pc'[r] \in Settled
      <4>1. batch'[r] # Tail(batch[r])
        BY <3>2, <3>4, <3>7, ClaimFacts, TailFacts DEF GivesUp
      <4>2. i = 1
        BY <1>1, <3>5, <4>1
      <4> QED BY <3>7, <4>2 DEF Live
    <3> QED BY <3>2, <3>4, <3>6, <3>7 DEF GivesUp
  <2>4. ~(c.until > now')
    BY <1>2, <1>3, <2>3
  <2> QED BY <2>2, <2>4 DEF c
<1> QED BY <1>4, <1>5

-----------------------------------------------------------------------------
(* The statements that write a table.                                      *)

(* The claim at the head of a batch.                                       *)
LEMMA CurrentFacts ==
  ASSUME IInv, NEW r \in Relays, batch[r] # <<>>
  PROVE  /\ 1 \in DOMAIN batch[r] /\ Current(r) = batch[r][1]
         /\ Current(r) \in Claim /\ Current(r).row \in Deliveries
         /\ Current(r).until \in Nat \ {0}
         /\ Current(r).attempts \in 1 .. MaxAttempts
         /\ pc[r] \notin Settled => Live(r, 1)
<1>1. 1 \in DOMAIN batch[r] /\ Head(batch[r]) = batch[r][1]
  BY ClaimFacts, TailFacts
<1> QED BY <1>1, ClaimFacts DEF Current, Live

(* A relay holds a batch where the code works on one.                      *)
LEMMA HoldsBatch ==
  ASSUME IInv, NEW r \in Relays, pc[r] \in Holding
  PROVE  batch[r] # <<>>
BY DEF IInv, Stations

(* A parent left alone has made a step.                                    *)
LEMMA ParentsRest ==
  ASSUME UNCHANGED parent
  PROVE  \A e \in Events : ParentStep(e)
BY DEF ParentStep

(* A fenced UPDATE by the relay that goes on to something else.            *)
LEMMA SettleStep ==
  ASSUME IInv, NEW r \in Relays, batch[r] # <<>>, pc[r] \notin Settled,
         NEW row,
         Fenced(Current(r)) =>
           /\ row \in Rows /\ row.until = 0
           /\ \/ row.status \in {"dispatched", "dead", "abandoned"}
              \/ row.status = "pending" /\ row.attempts < MaxAttempts,
         Update(Current(r), row), UNCHANGED parent,
         batch'[r] = Tail(batch[r]) \/ (batch'[r] = batch[r] /\ pc'[r] \in Settled)
  PROVE  TableStep /\ \A d \in Deliveries : RowFreed(d)
<1> DEFINE c == Current(r)
<1>1. c.row \in Deliveries /\ c.until \in Nat \ {0}
  BY CurrentFacts
<1>2. delivery \in [Deliveries -> Rows] /\ Tables
  BY DEF IInv, Tables
<1> HIDE DEF c
<1>3. CASE Fenced(c)
  <2>1. delivery' = [delivery EXCEPT ![c.row] = row]
    BY <1>3 DEF Update, c
  <2>2. /\ delivery' \in [Deliveries -> Rows]
        /\ delivery'[c.row] = row
        /\ \A d \in Deliveries \ {c.row} : delivery'[d] = delivery[d]
    BY <1>1, <1>2, <1>3, <2>1 DEF c
  <2>3. Pending(c.row) /\ delivery[c.row].until = c.until
    BY <1>3 DEF Fenced
  <2>4. RowStep(c.row)
    BY <1>1, <1>3, <2>2, <2>3 DEF RowStep, c
  <2>5. \A d \in Deliveries \ {c.row} : RowStep(d) /\ RowFreed(d)
    BY <2>2 DEF RowStep, RowFreed
  <2>6. GivesUp(r, c.row)
    BY <2>3 DEF GivesUp, c
  <2>7. RowFreed(c.row)
    BY <1>3, <2>2, <2>6 DEF RowFreed, c
  <2>8. Tables'
    BY <1>2, <2>2 DEF Tables
  <2> QED BY <2>4, <2>5, <2>7, <2>8, ParentsRest DEF TableStep
<1>4. CASE ~Fenced(c)
  <2>1. delivery' = delivery
    BY <1>4 DEF Update, c
  <2> QED BY <1>2, <2>1, ParentsRest DEF TableStep, Tables, RowStep, RowFreed
<1> QED BY <1>3, <1>4

(* The current claim's row.                                                *)
LEMMA CurrentRow ==
  ASSUME IInv, NEW r \in Relays, batch[r] # <<>>
  PROVE  LET d == Current(r).row
         IN  /\ delivery[d] \in Rows
             /\ delivery[d].attempts \in 0 .. MaxAttempts
             /\ delivery[d].until \in Times /\ delivery[d].next \in Nat
             /\ delivery[d].created \in Times
             /\ delivery[d].until = Current(r).until =>
                  Fenced(Current(r)) /\ delivery[d].attempts >= 1
             /\ Fenced(Current(r)) /\ pc[r] \notin Settled =>
                  delivery[d].attempts = Current(r).attempts
<1>1. /\ Current(r).row \in Deliveries /\ Current(r).until # 0
      /\ Current(r) = batch[r][1] /\ 1 \in DOMAIN batch[r]
      /\ pc[r] \notin Settled => Live(r, 1)
  BY CurrentFacts
<1>2. delivery[Current(r).row] \in Rows
  BY <1>1 DEF IInv, Tables
<1>3. /\ delivery[Current(r).row].attempts \in 0 .. MaxAttempts
      /\ delivery[Current(r).row].until \in Times
      /\ delivery[Current(r).row].next \in Nat
      /\ delivery[Current(r).row].created \in Times
  BY <1>2 DEF Rows
<1>4. delivery[Current(r).row].until = Current(r).until =>
        Fenced(Current(r)) /\ delivery[Current(r).row].attempts >= 1
  BY <1>1 DEF IInv, RowsCounted, Fenced
<1>5. Fenced(Current(r)) /\ pc[r] \notin Settled =>
        delivery[Current(r).row].attempts = Current(r).attempts
  BY <1>1 DEF IInv, HeldInLease
<1> QED BY <1>2, <1>3, <1>4, <1>5

(* What a fenced UPDATE writes.                                            *)
LEMMA UpdateWrites ==
  ASSUME IInv, NEW r \in Relays, batch[r] # <<>>, NEW row, Update(Current(r), row)
  PROVE  \A d \in Deliveries :
           \/ delivery'[d] = delivery[d]
           \/ /\ d = Current(r).row /\ Fenced(Current(r)) /\ Present(d)
              /\ delivery'[d] = row
<1>1. Current(r).row \in Deliveries /\ delivery \in [Deliveries -> Rows]
  BY CurrentFacts DEF IInv, Tables
<1> QED BY <1>1 DEF Update, Fenced, Pending, Present

(* 0 and the present are instants.                                         *)
LEMMA TimesFacts ==
  /\ 0 \in Times /\ Times \subseteq Nat
  /\ \A t \in Nat : t <= MaxTime => t \in Times /\ t + Lease \in Times
BY LeaseBounds DEF Times

(* A success settles its own row.                                          *)
LEMMA MarkDispatchedTable ==
  ASSUME IInv, NEW r \in Relays, MarkDispatched(r)
  PROVE  TableStep /\ \A d \in Deliveries : RowFreed(d)
<1> DEFINE c == Current(r)
           row == [delivery[c.row] EXCEPT !.status = "dispatched",
                                          !.until = 0, !.next = 0]
<1>1. batch[r] # <<>> /\ pc[r] \notin Settled
  BY HoldsBatch DEF MarkDispatched, Holding, Settled
<1>2. row \in Rows /\ row.until = 0 /\ row.status = "dispatched"
  BY <1>1, CurrentRow, TimesFacts DEF Rows
<1>3. batch'[r] = batch[r] /\ pc'[r] \in Settled /\ UNCHANGED parent
  BY DEF MarkDispatched, Goto, memory, Settled, IInv, Memory
<1>4. Update(c, row)
  BY DEF MarkDispatched
<1> QED BY <1>1, <1>2, <1>3, <1>4, SettleStep

(* A failure retries or dead-letters it.                                   *)
LEMMA MarkFailureTable ==
  ASSUME IInv, NEW r \in Relays, MarkFailure(r)
  PROVE  TableStep /\ \A d \in Deliveries : RowFreed(d)
<1> DEFINE c == Current(r)
           dead == [delivery[c.row] EXCEPT !.status = "dead", !.until = 0, !.next = 0]
           again == [delivery[c.row] EXCEPT !.next = now + BackoffDelay(c.attempts),
                                            !.until = 0]
           row == IF c.attempts >= MaxAttempts THEN dead ELSE again
<1>1. batch[r] # <<>> /\ pc[r] \notin Settled
  BY HoldsBatch DEF MarkFailure, Holding, Settled
<1>2. dead \in Rows /\ dead.until = 0 /\ dead.status = "dead"
  BY <1>1, CurrentRow, TimesFacts DEF Rows
<1>3. now + BackoffDelay(c.attempts) \in Nat /\ c.attempts \in Nat /\ MaxAttempts \in Nat
  <2>1. c.attempts \in 1 .. MaxAttempts
    BY <1>1, CurrentFacts
  <2>2. \A n \in 0 .. MaxAttempts : BackoffDelay(n) \in Nat
    BY OutboxAssumption
  <2>3. BackoffDelay(c.attempts) \in Nat
    BY <2>1, <2>2, LeaseBounds
  <2> QED BY <2>1, <2>3, LeaseBounds DEF IInv, Memory
<1>4. /\ again \in Rows /\ again.until = 0 /\ again.status = delivery[c.row].status
      /\ again.attempts = delivery[c.row].attempts
  BY <1>1, <1>3, CurrentRow, TimesFacts DEF Rows
<1>5. batch'[r] = batch[r] /\ pc'[r] \in Settled /\ UNCHANGED parent
  BY DEF MarkFailure, Goto, memory, Settled, IInv, Memory
<1>6. Update(c, row)
  BY DEF MarkFailure
<1>7. Fenced(c) => delivery[c.row].status = "pending" /\ delivery[c.row].attempts = c.attempts
  BY <1>1, CurrentRow DEF Fenced, Pending
<1> HIDE DEF c, dead, again
<1>8. Fenced(c) =>
        /\ row \in Rows /\ row.until = 0
        /\ \/ row.status \in {"dispatched", "dead", "abandoned"}
           \/ row.status = "pending" /\ row.attempts < MaxAttempts
  BY <1>2, <1>3, <1>4, <1>7
<1> HIDE DEF row
<1> QED BY <1>1, <1>5, <1>6, <1>8, SettleStep DEF c

(* An abandonment settles it.                                              *)
LEMMA AbandonTable ==
  ASSUME IInv, NEW r \in Relays, AbandonUnhandled(r)
  PROVE  TableStep /\ \A d \in Deliveries : RowFreed(d)
<1> DEFINE c == Current(r)
           row == [delivery[c.row] EXCEPT !.status = "abandoned",
                                          !.until = 0, !.next = 0]
           old == Fenced(c) /\ Older(delivery[c.row].created, HandlerGrace, now)
<1>1. batch[r] # <<>> /\ pc[r] \notin Settled
  BY HoldsBatch DEF AbandonUnhandled, Holding, Settled
<1>2. row \in Rows /\ row.until = 0 /\ row.status = "abandoned"
  BY <1>1, CurrentRow, TimesFacts DEF Rows
<1>3. UNCHANGED <<parent, batch>>
  BY DEF AbandonUnhandled
<1>4. CASE old
  <2>1. Update(c, row) /\ pc'[r] \in Settled
    BY <1>4 DEF AbandonUnhandled, Goto, Settled, IInv, Memory
  <2> QED BY <1>1, <1>2, <1>3, <2>1, SettleStep
<1>5. CASE ~old
  <2>1. delivery' = delivery
    BY <1>5 DEF AbandonUnhandled
  <2> QED BY <1>3, <2>1, ParentsRest DEF TableStep, IInv, Tables, RowStep, RowFreed
<1> QED BY <1>4, <1>5

(* A requeue and a hand-back leave it an attempt.                          *)
LEMMA RequeueTable ==
  ASSUME IInv, NEW r \in Relays, RequeueUnhandled(r)
  PROVE  TableStep /\ \A d \in Deliveries : RowFreed(d)
<1> DEFINE c == Current(r)
           n == delivery[c.row].attempts
           m == IF n > 0 THEN n - 1 ELSE 0
           row == [delivery[c.row] EXCEPT !.attempts = m,
                                          !.next = at[r] + BackoffMax, !.until = 0]
<1>1. batch[r] # <<>> /\ pc[r] \notin Settled
  BY HoldsBatch DEF RequeueUnhandled, Holding, Settled
<1>2. at[r] + BackoffMax \in Nat
  <2>1. at[r] \in Times
    BY DEF IInv, Memory
  <2>2. at[r] \in Nat /\ BackoffMax \in Nat
    BY <2>1, TimesFacts, LeaseBounds
  <2> QED BY <2>2
<1>3. n \in 0 .. MaxAttempts /\ m \in 0 .. MaxAttempts /\ m < MaxAttempts
  BY <1>1, CurrentRow, LeaseBounds
<1>4. delivery[c.row] \in Rows
  BY <1>1, CurrentRow
<1> HIDE DEF m
<1>5. row \in Rows /\ row.until = 0 /\ row.status = delivery[c.row].status /\ row.attempts = m
  BY <1>2, <1>3, <1>4, TimesFacts DEF Rows
<1>6. batch'[r] = Tail(batch[r]) /\ UNCHANGED parent
  BY DEF RequeueUnhandled, Advance, IInv, Memory
<1>7. Update(c, row)
  BY DEF RequeueUnhandled, m
<1>8. Fenced(c) => delivery[c.row].status = "pending"
  BY DEF Fenced, Pending
<1> HIDE DEF row, c
<1>9. Fenced(c) =>
        /\ row \in Rows /\ row.until = 0
        /\ \/ row.status \in {"dispatched", "dead", "abandoned"}
           \/ row.status = "pending" /\ row.attempts < MaxAttempts
  BY <1>3, <1>5, <1>8
<1>t. batch'[r] = Tail(batch[r]) \/ (batch'[r] = batch[r] /\ pc'[r] \in Settled)
  BY <1>6
<1>p. UNCHANGED parent
  BY <1>6
<1> QED BY <1>1, <1>7, <1>9, <1>t, <1>p, SettleStep DEF c

(* So does releasing a claim that was never started.                       *)
LEMMA ReleaseTable ==
  ASSUME IInv, NEW r \in Relays, ReleaseUnstarted(r)
  PROVE  TableStep /\ \A d \in Deliveries : RowFreed(d)
<1> DEFINE c == Current(r)
           m == delivery[c.row].attempts - 1
           row == [delivery[c.row] EXCEPT !.attempts = m, !.until = 0]
<1>1. batch[r] # <<>> /\ pc[r] \notin Settled
  BY HoldsBatch DEF ReleaseUnstarted, Holding, Settled
<1>2. delivery[c.row].until = c.until <=> Fenced(c)
  BY <1>1, CurrentRow DEF Fenced
<1>3. /\ delivery[c.row] \in Rows /\ delivery \in [Deliveries -> Rows]
      /\ c.row \in Deliveries
  BY <1>1, CurrentRow, CurrentFacts DEF IInv, Tables
<1>4. Fenced(c) => m \in 0 .. MaxAttempts /\ m < MaxAttempts
  BY <1>1, <1>2, CurrentRow, LeaseBounds
<1>5. Fenced(c) => delivery[c.row].status = "pending"
  BY DEF Fenced, Pending
<1>6. batch'[r] = Tail(batch[r]) /\ UNCHANGED parent
  BY DEF ReleaseUnstarted, HandOn, IInv, Memory
<1>7. delivery' = IF delivery[c.row].until = c.until
                  THEN [delivery EXCEPT ![c.row].attempts = @ - 1, ![c.row].until = 0]
                  ELSE delivery
  BY DEF ReleaseUnstarted
<1> HIDE DEF c
<1>8. [delivery EXCEPT ![c.row].attempts = @ - 1, ![c.row].until = 0] =
      [delivery EXCEPT ![c.row] = row]
  BY <1>3 DEF Rows
<1>9. Update(c, row)
  BY <1>2, <1>7, <1>8 DEF Update
<1> HIDE DEF m
<1>10. Fenced(c) => row \in Rows /\ row.until = 0 /\ row.attempts = m
                      /\ row.status = delivery[c.row].status
  BY <1>3, <1>4, TimesFacts DEF Rows
<1> HIDE DEF row
<1>11. Fenced(c) =>
        /\ row \in Rows /\ row.until = 0
        /\ \/ row.status \in {"dispatched", "dead", "abandoned"}
           \/ row.status = "pending" /\ row.attempts < MaxAttempts
  BY <1>4, <1>5, <1>10
<1>t. batch'[r] = Tail(batch[r]) \/ (batch'[r] = batch[r] /\ pc'[r] \in Settled)
  BY <1>6
<1>p. UNCHANGED parent
  BY <1>6
<1> QED BY <1>1, <1>9, <1>11, <1>t, <1>p, SettleStep DEF c

(* A step that leaves the tables alone.                                    *)
LEMMA TablesRest ==
  ASSUME IInv, UNCHANGED table
  PROVE  TableStep /\ \A d \in Deliveries : RowFreed(d)
BY ParentsRest DEF table, TableStep, IInv, Tables, RowStep, RowFreed

(* A delivery that has just been made.                                     *)
LEMMA NewDeliveryFacts ==
  ASSUME NEW t \in Times
  PROVE  /\ NewDelivery(t) \in Rows /\ NewDelivery(t).status = "pending"
         /\ NewDelivery(t).until = 0 /\ NewDelivery(t).attempts = 0
         /\ NoDelivery \in Rows /\ NoDelivery.status = "none" /\ NoDelivery.until = 0
<1>1. 0 \in Times /\ 0 \in 0 .. MaxAttempts
  BY TimesFacts, LeaseBounds
<1> QED BY <1>1 DEF NewDelivery, NoDelivery, Rows

(* Staging an event.                                                       *)
LEMMA AppendTable ==
  ASSUME IInv, NEW e \in Events, AppendFor(e)
  PROVE  TableStep /\ \A d \in Deliveries : RowFreed(d)
<1>1. now \in Times
  BY TimesFacts DEF IInv, Memory
<1>2. Tables'
  BY <1>1 DEF AppendFor, IInv, Tables
<1>3. \A f \in Events : ParentStep(f)
  BY DEF AppendFor, IInv, Tables, ParentStep
<1> QED BY <1>2, <1>3 DEF AppendFor, TableStep, RowStep, RowFreed

(* Replaying dead and abandoned deliveries.                                *)
LEMMA ReplayTable ==
  ASSUME IInv, NEW e \in Events, NEW ns \in SUBSET Names, Replay(e, ns)
  PROVE  TableStep /\ \A d \in Deliveries : RowFreed(d)
<1> DEFINE reset == {d \in DeliveriesOf(e) :
                       d[2] \in ns /\ delivery[d].status \in {"dead", "abandoned"}}
<1>1. /\ delivery' = [d \in Deliveries |->
                        IF d \in reset THEN NewDelivery(now) ELSE delivery[d]]
      /\ parent' = [parent EXCEPT ![e].status =
                      IF @ = "dispatched" THEN "pending" ELSE @]
      /\ replays' # replays
  BY DEF Replay, IInv, Memory
<1>2. now \in Times
  BY TimesFacts DEF IInv, Memory
<1>3. \A d \in reset : delivery[d].status \in {"dead", "abandoned"}
  OBVIOUS
<1> HIDE DEF reset
<1>4. delivery' \in [Deliveries -> Rows]
  BY <1>1, <1>2, NewDeliveryFacts DEF IInv, Tables
<1>5. \A d \in Deliveries : RowStep(d) /\ RowFreed(d)
  BY <1>1, <1>2, <1>3, NewDeliveryFacts DEF RowStep, RowFreed, Pending
<1>6. /\ parent' \in [Events -> [status : {"absent", "pending", "dispatched", "purged"},
                                 created : Times]]
      /\ \A f \in Events : ParentStep(f)
  <2>1. parent \in [Events -> [status : {"absent", "pending", "dispatched", "purged"},
                               created : Times]]
    BY DEF IInv, Tables
  <2>2. \A f \in Events \ {e} : parent'[f] = parent[f]
    BY <1>1, <2>1
  <2>3. CASE parent[e].status = "dispatched"
    <3>1. parent' = [parent EXCEPT ![e] = [status |-> "pending", created |-> parent[e].created]]
      <4>1. parent[e] = [status |-> parent[e].status, created |-> parent[e].created]
        BY <2>1
      <4>2. [parent[e] EXCEPT !.status = "pending"] =
              [status |-> "pending", created |-> parent[e].created]
        BY <4>1
      <4>3. parent' = [parent EXCEPT ![e] = [parent[e] EXCEPT !.status = "pending"]]
        BY <1>1, <2>1, <2>3
      <4> QED BY <4>2, <4>3
    <3> QED BY <2>1, <2>2, <2>3, <3>1 DEF ParentStep
  <2>4. CASE parent[e].status # "dispatched"
    <3>1. parent' = parent
      BY <1>1, <2>1, <2>4
    <3> QED BY <2>1, <3>1 DEF ParentStep
  <2> QED BY <2>3, <2>4
<1> QED BY <1>4, <1>5, <1>6 DEF TableStep, Tables

(* Expanding parents into the deliveries they missed.                      *)
LEMMA ExpandTable ==
  ASSUME IInv, NEW r \in Relays, ExpandWrite(r)
  PROVE  TableStep /\ \A d \in Deliveries : RowFreed(d)
<1>1. delivery' = [d \in Deliveries |->
        IF d \in adding[r] /\ ~Present(d) THEN NewDelivery(at[r]) ELSE delivery[d]]
  BY DEF ExpandWrite
<1>2. at[r] \in Times /\ parent' = parent
  BY DEF IInv, Memory, ExpandWrite
<1>3. delivery' \in [Deliveries -> Rows]
  BY <1>1, <1>2, NewDeliveryFacts DEF IInv, Tables
<1>4. \A d \in Deliveries : RowStep(d) /\ RowFreed(d)
  BY <1>1, <1>2, NewDeliveryFacts DEF RowStep, RowFreed, Pending, Present
<1>5. Tables'
  BY <1>2, <1>3 DEF IInv, Tables
<1> QED BY <1>2, <1>4, <1>5, ParentsRest DEF TableStep

(* Marking the chosen parents dispatched.                                  *)
LEMMA CompleteTable ==
  ASSUME IInv, NEW r \in Relays, CompleteWrite(r)
  PROVE  TableStep /\ \A d \in Deliveries : RowFreed(d)
<1>1. /\ parent' = [e \in Events |->
           IF e \in chosen[r] /\ parent[e].status = "pending"
           THEN [parent[e] EXCEPT !.status = "dispatched"] ELSE parent[e]]
      /\ delivery' = delivery
  BY DEF CompleteWrite, Dispatch
<1>2. parent \in [Events -> [status : {"absent", "pending", "dispatched", "purged"},
                             created : Times]]
  BY DEF IInv, Tables
<1>3. parent' \in [Events -> [status : {"absent", "pending", "dispatched", "purged"},
                              created : Times]]
  BY <1>1, <1>2
<1>4. \A e \in Events : ParentStep(e)
  BY <1>1, <1>2 DEF ParentStep
<1> QED BY <1>1, <1>3, <1>4 DEF TableStep, IInv, Tables, RowStep, RowFreed

(* Retention: the deliveries ...                                           *)
LEMMA PurgeDeliveriesTable ==
  ASSUME IInv, NEW r \in Relays, PurgeDeliveries(r)
  PROVE  TableStep /\ \A d \in Deliveries : RowFreed(d)
<1>1. /\ delivery' = [d \in Deliveries |->
                        IF Expired(d[1], now) THEN NoDelivery ELSE delivery[d]]
      /\ parent' = parent /\ Retention > 0
  BY DEF PurgeDeliveries, IInv, Stations
<1>2. \A d \in Deliveries : Expired(d[1], now) =>
        delivery[d].status \in {"none", "dispatched"}
  BY DEF Expired, DeliveriesOf, Present
<1>3. NoDelivery \in Rows /\ NoDelivery.until = 0
  BY TimesFacts, NewDeliveryFacts
<1>4. Tables'
  BY <1>1, <1>3 DEF IInv, Tables
<1>5. \A d \in Deliveries : RowStep(d) /\ RowFreed(d)
  BY <1>1, <1>2, <1>3 DEF RowStep, RowFreed, Pending
<1> QED BY <1>1, <1>4, <1>5, ParentsRest DEF TableStep

(* ... and then the parents.                                               *)
LEMMA PurgeParentsTable ==
  ASSUME IInv, NEW r \in Relays, PurgeParentsWrite(r)
  PROVE  TableStep /\ \A d \in Deliveries : RowFreed(d)
<1>1. /\ parent' = [e \in Events |->
           IF e \in chosen[r] /\ parent[e].status = "dispatched" THEN Purged ELSE parent[e]]
      /\ delivery' = delivery /\ pc[r] = "parentsWrite"
  BY DEF PurgeParentsWrite
<1>2. Tables'
  BY <1>1, TimesFacts DEF IInv, Tables, Purged
<1>3. \A e \in Events : ParentStep(e)
  BY <1>1 DEF ParentStep, Purged
<1> QED BY <1>1, <1>2, <1>3 DEF TableStep, RowStep, RowFreed

(* Claims whose lease and budget are both over.                            *)
LEMMA SweepTable ==
  ASSUME IInv, NEW r \in Relays, SweepExhausted(r)
  PROVE  TableStep /\ \A d \in Deliveries : RowFreed(d)
<1>1. /\ delivery' = [d \in Deliveries |->
           IF Exhausted(d)
           THEN [delivery[d] EXCEPT !.status = "dead", !.until = 0, !.next = 0]
           ELSE delivery[d]]
      /\ parent' = parent
  BY DEF SweepExhausted
<1>2. \A d \in Deliveries : delivery[d] \in Rows
  BY DEF IInv, Tables
<1>3. \A d \in Deliveries :
        LET row == [delivery[d] EXCEPT !.status = "dead", !.until = 0, !.next = 0]
        IN  row \in Rows /\ row.status = "dead" /\ row.until = 0
  BY <1>2, TimesFacts DEF Rows
<1>4. Tables'
  BY <1>1, <1>3 DEF IInv, Tables
<1>5. \A d \in Deliveries : RowStep(d) /\ RowFreed(d)
  BY <1>1, <1>3 DEF RowStep, RowFreed, Exhausted
<1> QED BY <1>1, <1>4, <1>5, ParentsRest DEF TableStep

(* The claim.                                                              *)
LEMMA TakeTable ==
  ASSUME IInv, NEW ds \in ToClaim, TakeLease(ds), UNCHANGED parent
  PROVE  /\ TableStep /\ ds \subseteq Deliveries
         /\ \A d \in Deliveries :
              IF d \in ds
              THEN /\ Claimable(d) /\ delivery'[d].until = now + Lease
                   /\ delivery'[d].status = "pending"
                   /\ delivery'[d].attempts = delivery[d].attempts + 1
                   /\ delivery[d].attempts + 1 \in 1 .. MaxAttempts
              ELSE delivery'[d] = delivery[d]
<1>1. ds \subseteq Deliveries /\ \A d \in ds : Claimable(d)
  BY DEF ToClaim, Oldest
<1>2. \A d \in Deliveries : delivery[d] \in Rows
  BY DEF IInv, Tables
<1>3. now + Lease \in Times
  BY TimesFacts DEF IInv, Memory
<1>4. \A d \in ds : delivery[d].attempts + 1 \in 1 .. MaxAttempts
  <2> SUFFICES ASSUME NEW d \in ds PROVE delivery[d].attempts + 1 \in 1 .. MaxAttempts
    OBVIOUS
  <2>1. delivery[d].attempts \in 0 .. MaxAttempts
    BY <1>1, <1>2 DEF Rows
  <2>2. delivery[d].attempts < MaxAttempts
    BY <1>1 DEF IInv, RowsCounted, Claimable
  <2> QED BY <2>1, <2>2, LeaseBounds
<1> DEFINE row(d) == [delivery[d] EXCEPT !.attempts = @ + 1, !.until = now + Lease]
<1>5. \A d \in ds : /\ row(d) \in Rows /\ row(d).status = delivery[d].status
                    /\ row(d).until = now + Lease
                    /\ row(d).attempts = delivery[d].attempts + 1
  <2> SUFFICES ASSUME NEW d \in ds
               PROVE  /\ row(d) \in Rows /\ row(d).status = delivery[d].status
                      /\ row(d).until = now + Lease
                      /\ row(d).attempts = delivery[d].attempts + 1
    OBVIOUS
  <2>1. delivery[d] \in Rows /\ delivery[d].attempts + 1 \in 0 .. MaxAttempts
    BY <1>1, <1>2, <1>4, LeaseBounds
  <2> QED BY <1>3, <2>1 DEF Rows
<1>6. delivery' = [d \in Deliveries |-> IF d \in ds THEN row(d) ELSE delivery[d]]
  BY DEF TakeLease
<1> HIDE DEF row
<1>7. \A d \in ds : delivery[d].status = "pending"
  BY <1>1 DEF Claimable, Pending
<1>8. delivery' \in [Deliveries -> Rows]
  BY <1>2, <1>5, <1>6
<1>9. \A d \in Deliveries :
              IF d \in ds
              THEN /\ Claimable(d) /\ delivery'[d].until = now + Lease
                   /\ delivery'[d].status = "pending"
                   /\ delivery'[d].attempts = delivery[d].attempts + 1
                   /\ delivery[d].attempts + 1 \in 1 .. MaxAttempts
              ELSE delivery'[d] = delivery[d]
  BY <1>1, <1>4, <1>5, <1>6, <1>7
<1>10. \A d \in Deliveries : RowStep(d)
  BY <1>9 DEF RowStep
<1>11. Tables'
  BY <1>8 DEF IInv, Tables
<1> QED BY <1>1, <1>9, <1>10, <1>11, ParentsRest DEF TableStep

-----------------------------------------------------------------------------
(* What the statements do to a relay's memory.                             *)

MemoryStep ==
  /\ Memory' /\ Stations' /\ RunsInLease' /\ ChosenStep
  /\ now' \in Nat /\ now' >= now

(* The stations of a relay, one by one.                                    *)
LEMMA PlacesFacts ==
  /\ {"idle", "down", "batch", "release", "running", "succeeded", "failed",
      "requeue", "complete", "completeWrite"} \subseteq Places
  /\ Reconciling \subseteq Places
  /\ Reconciling \cap Holding = {}
  /\ Holding \cap {"idle", "down"} = {}
BY DEF Places, Holding, Settled, Reconciling

(* The snapshot of an expansion is of deliveries.                          *)
LEMMA ExpandReadAdds ==
  ASSUME IInv, NEW r \in Relays, NEW pair \in todo[r], ExpandRead(r, pair)
  PROVE  adding' \in [Relays -> SUBSET Deliveries]
<1>1. PICK es \in SUBSET Events : adding' = [adding EXCEPT ![r] = es \X {pair[2]}]
  BY DEF ExpandRead, Oldest
<1>2. pair[2] \in Names
  <2>1. Declares[release[r]] \subseteq {TypeOf[e] : e \in Events} \X Names
    BY OutboxAssumption DEF IInv, Memory
  <2> QED BY <2>1 DEF IInv, Stations, Declared
<1>3. es \X {pair[2]} \in SUBSET Deliveries
  BY <1>2 DEF Deliveries
<1> QED BY <1>1, <1>3 DEF IInv, Memory

(* Phase 1 of a pump holds no claim.                                       *)
LEMMA ReconcilingMemory ==
  ASSUME IInv, NEW r \in Relays,
         \/ Pump(r) \/ DropOrphans(r) \/ ExpandWrite(r)
         \/ \E pair \in todo[r] : ExpandRead(r, pair)
         \/ PurgeDeliveries(r) \/ PurgeParentsRead(r) \/ PurgeParentsWrite(r)
         \/ SweepExhausted(r)
  PROVE  MemoryStep /\ UNCHANGED batch
<1> USE DEF IInv
<1>0. now \in Times /\ 0 \in Times
  BY TimesFacts DEF Memory
<1>1. UNCHANGED <<now, release, cancelled, batch, fresh, started, replays>>
  BY DEF Pump, DropOrphans, ExpandRead, ExpandWrite, PurgeDeliveries,
         PurgeParentsRead, PurgeParentsWrite, SweepExhausted, process, memory, aux
<1>2. /\ at' \in [Relays -> Times]
      /\ chosen' \in [Relays -> SUBSET Events]
  BY <1>0 DEF Pump, DropOrphans, ExpandRead, ExpandWrite, PurgeDeliveries,
         PurgeParentsRead, PurgeParentsWrite, SweepExhausted, memory, ReadClock, DropClock, Memory
<1>n. adding' \in [Relays -> SUBSET Deliveries]
  <2>1. CASE \E pair \in todo[r] : ExpandRead(r, pair)
    BY <2>1, ExpandReadAdds
  <2>2. CASE ~\E pair \in todo[r] : ExpandRead(r, pair)
    BY <2>2 DEF Pump, DropOrphans, ExpandWrite, PurgeDeliveries,
         PurgeParentsRead, PurgeParentsWrite, SweepExhausted, memory, Memory
  <2> QED BY <2>1, <2>2
<1>a. \E p \in Reconciling \ {"purge"} : pc' = [pc EXCEPT ![r] = p]
  <2>1. SweepExhausted(r) => pc' = [pc EXCEPT ![r] = "claim"]
    BY DEF SweepExhausted, Goto
  <2>2. PurgeParentsWrite(r) => pc' = [pc EXCEPT ![r] = "sweep"]
    BY DEF PurgeParentsWrite, Goto
  <2>3. PurgeParentsRead(r) => pc' = [pc EXCEPT ![r] = "parentsWrite"]
    BY DEF PurgeParentsRead, Goto
  <2>4. PurgeDeliveries(r) => pc' = [pc EXCEPT ![r] = "purgeParents"]
    BY DEF PurgeDeliveries, Goto
  <2>5. DropOrphans(r) => pc' = [pc EXCEPT ![r] = "orphansWrite"]
    BY DEF DropOrphans, Goto
  <2>6. Pump(r) \/ ExpandWrite(r) => pc' = [pc EXCEPT ![r] = "expand"]
    BY DEF Pump, ExpandWrite, Goto
  <2>7. (\E pair \in todo[r] : ExpandRead(r, pair)) =>
          pc' = [pc EXCEPT ![r] = "expandWrite"]
    BY DEF ExpandRead, Goto
  <2> QED BY <2>1, <2>2, <2>3, <2>4, <2>5, <2>6, <2>7 DEF Reconciling
<1>b. pc[r] \in {"idle"} \cup Reconciling
  BY DEF Pump, DropOrphans, ExpandRead, ExpandWrite, PurgeDeliveries,
         PurgeParentsRead, PurgeParentsWrite, SweepExhausted, Reconciling
<1>c. /\ pc' \in [Relays -> Places] /\ \A q \in Relays \ {r} : pc'[q] = pc[q]
      /\ pc[r] \notin Holding /\ pc'[r] \notin Holding /\ pc'[r] # "purge"
  BY <1>a, <1>b, PlacesFacts DEF Memory
<1>d. /\ \A q \in Relays \ {r} : todo'[q] = todo[q]
      /\ DOMAIN todo' = Relays
      /\ todo'[r] \subseteq Declared(r) /\ (pc'[r] \notin Expanding => todo'[r] = {})
  <2>1. CASE Pump(r)
    BY <2>1 DEF Pump, Goto, Memory, Stations, Expanding
  <2>2. CASE \E pair \in todo[r] : ExpandRead(r, pair)
    BY <2>2 DEF ExpandRead, Goto, Memory, Stations, Expanding
  <2>3. CASE ExpandWrite(r)
    BY <2>3 DEF ExpandWrite, Goto, Memory, Stations, Expanding
  <2>4. CASE \/ DropOrphans(r) \/ PurgeDeliveries(r) \/ PurgeParentsRead(r)
             \/ PurgeParentsWrite(r) \/ SweepExhausted(r)
    <3>1. todo' = todo /\ todo[r] = {}
      BY <2>4 DEF DropOrphans, PurgeDeliveries, PurgeParentsRead, PurgeParentsWrite,
                  SweepExhausted, memory, Stations, Expanding
    <3> QED BY <3>1 DEF Stations
  <2> QED BY <2>1, <2>2, <2>3, <2>4
<1>3. /\ pc' \in [Relays -> Places]
      /\ \A q \in Relays \ {r} : pc'[q] = pc[q] /\ todo'[q] = todo[q]
      /\ pc[r] \notin Holding /\ pc'[r] \notin Holding
      /\ pc'[r] # "purge" /\ DOMAIN todo' = Relays
      /\ todo'[r] \subseteq Declared(r) /\ (pc'[r] \notin Expanding => todo'[r] = {})
  BY <1>c, <1>d
<1>4. Memory' /\ now' \in Nat /\ now' >= now
  BY <1>1, <1>2, <1>3, <1>n DEF Memory
<1>5. Stations'
  BY <1>1, <1>3 DEF Stations, Declared
<1>6. RunsInLease'
  BY <1>1, <1>3 DEF RunsInLease, Current, Holding
<1>7. ChosenStep
  <2>1. CASE DropOrphans(r)
    <3> SUFFICES ASSUME NEW q \in Relays, NEW e \in chosen'[q], e \notin chosen[q]
                 PROVE  /\ UNCHANGED table /\ parent[e].status = "pending"
                        /\ \A n \in Names : Everywhere(e, n) => Present(<<e, n>>)
      BY DEF ChosenStep
    <3>1. chosen' = [chosen EXCEPT ![r] = {f \in Events : Orphan(r, f, now)}]
      BY <2>1 DEF DropOrphans
    <3>2. Orphan(r, e, now)
      BY <3>1 DEF Memory
    <3>3. release[r] \in Releases /\ DeclaredFor(r, e) = {}
      BY <3>2 DEF Memory, Orphan
    <3> QED BY <2>1, <3>2, <3>3 DEF DropOrphans, Orphan, DeclaredFor, Declared, Everywhere
  <2>2. CASE PurgeParentsRead(r)
    <3>1. /\ chosen' = [chosen EXCEPT ![r] = {e \in Events : Expired(e, at[r])}]
          /\ UNCHANGED table
      BY <2>2 DEF PurgeParentsRead
    <3> QED BY <3>1 DEF ChosenStep, Expired, Memory
  <2>3. CASE ~DropOrphans(r) /\ ~PurgeParentsRead(r)
    <3>1. \A q \in Relays : chosen'[q] \subseteq chosen[q]
      BY <2>3 DEF Pump, ExpandRead, ExpandWrite, PurgeDeliveries, PurgeParentsWrite,
                  SweepExhausted, memory, Memory
    <3> QED BY <3>1 DEF ChosenStep
  <2> QED BY <2>1, <2>2, <2>3
<1> QED BY <1>1, <1>4, <1>5, <1>6, <1>7 DEF MemoryStep

(* Where a relay works on its current claim and keeps its batch.           *)
LEMMA WorkingMemory ==
  ASSUME IInv, NEW r \in Relays,
         \/ Begin(r) \/ TimeOut(r) \/ MarkDispatched(r) \/ MarkFailure(r)
         \/ AbandonUnhandled(r)
         \/ \E outcome \in {"succeeded", "failed"} : Return(r, outcome)
  PROVE  MemoryStep /\ UNCHANGED batch
<1> USE DEF IInv
<1>0. now \in Times /\ 0 \in Times
  BY TimesFacts DEF Memory
<1>1. UNCHANGED <<now, release, cancelled, batch, fresh, todo, adding, chosen, replays>>
  BY DEF Begin, TimeOut, MarkDispatched, MarkFailure, AbandonUnhandled, Return,
         process, memory, aux
<1>2. at' \in [Relays -> Times] /\ started' \in [Relays -> Times]
  BY <1>0 DEF Begin, TimeOut, MarkDispatched, MarkFailure, AbandonUnhandled, Return,
         memory, ReadClock, Memory
<1>3. /\ pc' \in [Relays -> Places]
      /\ \A q \in Relays \ {r} : pc'[q] = pc[q] /\ started'[q] = started[q]
      /\ pc[r] \in Holding /\ pc'[r] \in Holding /\ pc[r] \notin Expanding
      /\ pc'[r] # "purge"
  BY DEF Begin, TimeOut, MarkDispatched, MarkFailure, AbandonUnhandled, Return,
         memory, Goto, Memory, Places, Holding, Settled, Expanding
<1>4. Memory' /\ now' \in Nat /\ now' >= now
  BY <1>1, <1>2, <1>3 DEF Memory
<1>5. Stations'
  BY <1>1, <1>3 DEF Stations, Declared
<1>6. RunsInLease'
  <2> SUFFICES ASSUME NEW q \in Relays, ~fresh[q],
                      pc'[q] \in {"running", "succeeded", "failed"}
               PROVE  started'[q] + HandlerTimeout + SettleTimeout <= Current(q).until
    BY <1>1 DEF RunsInLease, Current
  <2>1. CASE pc[q] \in {"running", "succeeded", "failed"} /\ started'[q] = started[q]
    BY <2>1 DEF RunsInLease
  <2>2. CASE q = r /\ Begin(r)
    <3>1. ~OutOfLease(r) /\ started'[r] = now
      BY <2>2 DEF Begin, HandsBack, Memory
    <3>2. batch[r] # <<>>
      BY <1>3, HoldsBatch
    <3>3. Current(r).until \in Nat /\ now \in Nat
      BY <3>2, CurrentFacts DEF Memory
    <3> QED BY <2>2, <3>1, <3>3, LeaseBounds DEF OutOfLease
  <2>3. CASE q = r /\ ~Begin(r)
    BY <2>1, <2>3 DEF TimeOut, MarkDispatched, MarkFailure, AbandonUnhandled,
                      Return, memory, Goto, Memory
  <2>4. CASE q # r
    BY <1>3, <2>1, <2>4
  <2> QED BY <2>2, <2>3, <2>4
<1>7. ChosenStep
  BY <1>1 DEF ChosenStep
<1> QED BY <1>1, <1>4, <1>5, <1>6, <1>7 DEF MemoryStep

(* A relay that moves to another station, leaving the others alone.        *)
OthersRest(r) ==
  \A q \in Relays \ {r} :
    /\ pc'[q] = pc[q] /\ todo'[q] = todo[q] /\ batch'[q] = batch[q]
    /\ fresh'[q] = fresh[q] /\ started'[q] = started[q]

(* A relay that moves where it runs no handler.                            *)
LEMMA RelayMoves ==
  ASSUME IInv, NEW r \in Relays, Memory', UNCHANGED now,
         \A q \in Relays \ {r} : release'[q] = release[q],
         OthersRest(r), DOMAIN todo' = Relays,
         pc'[r] \in Holding <=> batch'[r] # <<>>,
         todo'[r] = {}, pc'[r] = "purge" => Retention > 0,
         pc'[r] \notin {"running", "succeeded", "failed"},
         ChosenStep
  PROVE  MemoryStep /\ \A q \in Relays \ {r} : BatchStep(q)
<1>1. Stations'
  BY DEF IInv, Stations, OthersRest, Declared
<1>2. RunsInLease'
  BY DEF IInv, RunsInLease, OthersRest, Current
<1>3. now' \in Nat /\ now' >= now
  BY DEF IInv, Memory
<1>4. \A q \in Relays \ {r} : BatchStep(q)
  BY DEF OthersRest, BatchStep
<1> QED BY <1>1, <1>2, <1>3, <1>4 DEF MemoryStep

(* The loop goes on to the next claim.                                     *)
LEMMA NextClaim ==
  ASSUME IInv, NEW r \in Relays, pc[r] \in Holding, NEW p \in Holding,
         pc' = [pc EXCEPT ![r] = IF Len(batch[r]) > 1 THEN p ELSE "idle"],
         batch' = [batch EXCEPT ![r] = Tail(@)]
  PROVE  /\ pc' \in [Relays -> Places] /\ batch' \in [Relays -> Seq(Claim)]
         /\ \A q \in Relays \ {r} : pc'[q] = pc[q] /\ batch'[q] = batch[q]
         /\ pc'[r] \in {p, "idle"}
         /\ pc'[r] \in Holding <=> batch'[r] # <<>>
         /\ todo[r] = {} /\ BatchStep(r)
<1>1. batch[r] # <<>> /\ batch[r] \in Seq(Claim)
  BY HoldsBatch, ClaimFacts
<1>2. Tail(batch[r]) \in Seq(Claim) /\ (Len(batch[r]) > 1 <=> Tail(batch[r]) # <<>>)
  BY <1>1, TailFacts
<1>3. pc \in [Relays -> Places] /\ batch \in [Relays -> Seq(Claim)]
  BY DEF IInv, Memory
<1>4. batch' = [batch EXCEPT ![r] = Tail(batch[r])]
  OBVIOUS
<1> DEFINE t == Tail(batch[r])
           n == Len(batch[r])
<1> HIDE DEF t, n
<1>5. batch' = [batch EXCEPT ![r] = t] /\ t \in Seq(Claim) /\ (n > 1 <=> t # <<>>)
  BY <1>2, <1>4 DEF t, n
<1>6. pc' = [pc EXCEPT ![r] = IF n > 1 THEN p ELSE "idle"]
  BY DEF n
<1>7. pc'[r] = (IF n > 1 THEN p ELSE "idle") /\ batch'[r] = t
  BY <1>3, <1>5, <1>6
<1>8. "idle" \notin Holding /\ "idle" \in Places /\ p \in Places
  BY PlacesFacts DEF Places
<1>9. pc' \in [Relays -> Places]
  BY <1>3, <1>6, <1>8
<1>10. batch' \in [Relays -> Seq(Claim)]
  BY <1>3, <1>5
<1>11. pc'[r] \in Holding <=> batch'[r] # <<>>
  BY <1>5, <1>7, <1>8
<1>12. \A q \in Relays \ {r} : pc'[q] = pc[q] /\ batch'[q] = batch[q]
  BY <1>3, <1>5, <1>6
<1>13. todo[r] = {}
  BY DEF IInv, Stations, Holding, Settled, Expanding
<1>14. BatchStep(r)
  BY <1>1, <1>7 DEF BatchStep, t
<1> QED BY <1>7, <1>9, <1>10, <1>11, <1>12, <1>13, <1>14

(* The snapshot of a completion.                                           *)
LEMMA CompleteReadMemory ==
  ASSUME IInv, NEW r \in Relays, CompleteRead(r)
  PROVE  MemoryStep /\ \A q \in Relays : BatchStep(q)
<1>1. PICK es \in SUBSET Events :
        /\ chosen' = [chosen EXCEPT ![r] = es]
        /\ \A e \in es : \E clock : Completable(r, e, clock)
  BY DEF CompleteRead
<1>2. UNCHANGED <<now, table, process, todo, adding, batch, fresh, started, aux>>
  BY DEF CompleteRead
<1>3. pc' \in [Relays -> Places] /\ \A q \in Relays \ {r} : pc'[q] = pc[q]
  BY DEF CompleteRead, Goto, IInv, Memory, Places, Reconciling, Holding, Settled
<1>4. /\ pc'[r] \notin {"running", "succeeded", "failed", "purge"}
      /\ pc[r] \notin Expanding
      /\ pc[r] \in Holding <=> pc'[r] \in Holding
      /\ pc[r] \in Settled => pc'[r] \in Settled
  BY DEF CompleteRead, Goto, IInv, Memory, Holding, Settled, Expanding
<1>5. at' \in [Relays -> Times]
  BY TimesFacts DEF CompleteRead, DropClock, IInv, Memory
<1>6. Memory'
  BY <1>1, <1>2, <1>3, <1>5 DEF IInv, Memory, process, aux
<1>7. ChosenStep
  <2> SUFFICES ASSUME NEW q \in Relays, NEW e \in chosen'[q], e \notin chosen[q]
               PROVE  /\ UNCHANGED table /\ parent[e].status = "pending"
                      /\ \A n \in Names : Everywhere(e, n) => Present(<<e, n>>)
    BY DEF ChosenStep
  <2>1. PICK clock : Completable(r, e, clock)
    BY <1>1 DEF IInv, Memory
  <2>2. release[r] \in Releases
    BY DEF IInv, Memory
  <2> QED BY <1>2, <2>1, <2>2 DEF Completable, DeclaredFor, Declared, Everywhere
<1>8. todo'[r] = {} /\ DOMAIN todo' = Relays /\ (pc'[r] \in Holding <=> batch'[r] # <<>>)
  BY <1>2, <1>4 DEF IInv, Stations
<1>9. OthersRest(r) /\ \A q \in Relays \ {r} : release'[q] = release[q]
  BY <1>2, <1>3 DEF OthersRest, process
<1>10. BatchStep(r) /\ now' = now
  BY <1>2, <1>4 DEF BatchStep
<1> QED BY <1>4, <1>6, <1>7, <1>8, <1>9, <1>10, RelayMoves

(* The write of a completion.                                              *)
LEMMA CompleteWriteMemory ==
  ASSUME IInv, NEW r \in Relays, CompleteWrite(r)
  PROVE  MemoryStep /\ \A q \in Relays : BatchStep(q)
<1>1. /\ UNCHANGED <<now, delivery, process, at, todo, adding, aux>>
      /\ chosen' = [chosen EXCEPT ![r] = {}]
  BY DEF CompleteWrite
<1>2. ChosenStep /\ chosen' \in [Relays -> SUBSET Events]
  BY <1>1 DEF ChosenStep, IInv, Memory
<1>3. CASE pc[r] = "completeWrite" /\ Advance(r)
  <2>1. /\ pc[r] \in Holding /\ "batch" \in Holding
        /\ pc' = [pc EXCEPT ![r] = IF Len(batch[r]) > 1 THEN "batch" ELSE "idle"]
        /\ batch' = [batch EXCEPT ![r] = Tail(@)]
    BY <1>3 DEF Advance, Goto, Holding, Settled
  <2>2. /\ fresh' \in [Relays -> BOOLEAN] /\ started' \in [Relays -> Times]
        /\ \A q \in Relays \ {r} : fresh'[q] = fresh[q] /\ started'[q] = started[q]
    BY <1>3, TimesFacts DEF Advance, IInv, Memory
  <2>3. /\ pc' \in [Relays -> Places] /\ batch' \in [Relays -> Seq(Claim)]
        /\ \A q \in Relays \ {r} : pc'[q] = pc[q] /\ batch'[q] = batch[q]
        /\ pc'[r] \in {"batch", "idle"}
        /\ pc'[r] \in Holding <=> batch'[r] # <<>>
        /\ todo[r] = {} /\ BatchStep(r)
    BY <2>1, NextClaim
  <2>4. Memory'
    BY <1>1, <1>2, <2>2, <2>3 DEF IInv, Memory, process, aux
  <2>5. OthersRest(r) /\ \A q \in Relays \ {r} : release'[q] = release[q]
    BY <1>1, <2>2, <2>3 DEF OthersRest, process
  <2>6. /\ todo'[r] = {} /\ DOMAIN todo' = Relays /\ now' = now
        /\ pc'[r] \notin {"running", "succeeded", "failed", "purge"}
    BY <1>1, <2>3 DEF IInv, Stations
  <2> QED BY <1>2, <2>3, <2>4, <2>5, <2>6, RelayMoves
<1>4. CASE pc[r] # "completeWrite"
  <2>1. /\ pc[r] \in {"orphansWrite", "backstopWrite"} /\ batch' = batch
        /\ fresh' = fresh /\ started' = started
    BY <1>4 DEF CompleteWrite
  <2>2. /\ pc' \in [Relays -> Places] /\ \A q \in Relays \ {r} : pc'[q] = pc[q]
        /\ pc'[r] \in {"backstop", "purge", "sweep"}
        /\ pc'[r] = "purge" => Retention > 0
    BY <1>4 DEF CompleteWrite, Goto, IInv, Memory, Places, Reconciling
  <2>3. pc[r] \notin Holding /\ pc'[r] \notin Holding /\ pc[r] \notin Expanding
    BY <2>1, <2>2, PlacesFacts DEF Reconciling, Expanding
  <2>4. Memory'
    BY <1>1, <1>2, <2>1, <2>2 DEF IInv, Memory, process, aux
  <2>5. OthersRest(r) /\ \A q \in Relays \ {r} : release'[q] = release[q]
    BY <1>1, <2>1, <2>2 DEF OthersRest, process
  <2>6. /\ todo'[r] = {} /\ DOMAIN todo' = Relays /\ now' = now
        /\ pc'[r] \in Holding <=> batch'[r] # <<>>
    BY <1>1, <2>1, <2>3 DEF IInv, Stations
  <2>7. BatchStep(r)
    BY <2>1, <2>3 DEF BatchStep, Holding
  <2>8. pc'[r] \notin {"running", "succeeded", "failed"}
    BY <2>2
  <2> QED BY <1>2, <2>2, <2>4, <2>5, <2>6, <2>7, <2>8, RelayMoves
<1> QED BY <1>3, <1>4 DEF CompleteWrite

(* The loop leaves the current claim behind ...                            *)
LEMMA AdvanceMemory ==
  ASSUME IInv, NEW r \in Relays, pc[r] \in Holding, Advance(r), DropClock(r),
         UNCHANGED <<now, process, todo, adding, chosen, replays>>
  PROVE  MemoryStep /\ \A q \in Relays : BatchStep(q)
<1>1. /\ "batch" \in Holding
      /\ pc' = [pc EXCEPT ![r] = IF Len(batch[r]) > 1 THEN "batch" ELSE "idle"]
      /\ batch' = [batch EXCEPT ![r] = Tail(@)]
  BY DEF Advance, Goto, Holding
<1>2. /\ fresh' \in [Relays -> BOOLEAN] /\ started' \in [Relays -> Times]
      /\ at' \in [Relays -> Times]
      /\ \A q \in Relays \ {r} : fresh'[q] = fresh[q] /\ started'[q] = started[q]
  BY TimesFacts DEF Advance, DropClock, IInv, Memory
<1>3. /\ pc' \in [Relays -> Places] /\ batch' \in [Relays -> Seq(Claim)]
      /\ \A q \in Relays \ {r} : pc'[q] = pc[q] /\ batch'[q] = batch[q]
      /\ pc'[r] \in {"batch", "idle"}
      /\ pc'[r] \in Holding <=> batch'[r] # <<>>
      /\ todo[r] = {} /\ BatchStep(r)
  BY <1>1, NextClaim
<1>4. Memory'
  BY <1>2, <1>3 DEF IInv, Memory, process
<1>5. OthersRest(r) /\ \A q \in Relays \ {r} : release'[q] = release[q]
  BY <1>2, <1>3 DEF OthersRest, process
<1>6. /\ todo'[r] = {} /\ DOMAIN todo' = Relays /\ now' = now /\ ChosenStep
      /\ pc'[r] \notin {"running", "succeeded", "failed", "purge"}
  BY <1>3 DEF IInv, Stations, ChosenStep
<1> QED BY <1>3, <1>4, <1>5, <1>6, RelayMoves

(* ... or hands it on.                                                     *)
LEMMA HandOnMemory ==
  ASSUME IInv, NEW r \in Relays, pc[r] \in Holding, HandOn(r),
         UNCHANGED <<now, process, at, todo, adding, chosen, started, replays>>
  PROVE  MemoryStep /\ \A q \in Relays : BatchStep(q)
<1>1. /\ "release" \in Holding
      /\ pc' = [pc EXCEPT ![r] = IF Len(batch[r]) > 1 THEN "release" ELSE "idle"]
      /\ batch' = [batch EXCEPT ![r] = Tail(@)]
  BY DEF HandOn, Goto, Holding
<1>2. /\ fresh' \in [Relays -> BOOLEAN]
      /\ \A q \in Relays \ {r} : fresh'[q] = fresh[q]
  BY DEF HandOn, IInv, Memory
<1>3. /\ pc' \in [Relays -> Places] /\ batch' \in [Relays -> Seq(Claim)]
      /\ \A q \in Relays \ {r} : pc'[q] = pc[q] /\ batch'[q] = batch[q]
      /\ pc'[r] \in {"release", "idle"}
      /\ pc'[r] \in Holding <=> batch'[r] # <<>>
      /\ todo[r] = {} /\ BatchStep(r)
  BY <1>1, NextClaim
<1>4. Memory'
  BY <1>2, <1>3 DEF IInv, Memory, process
<1>5. OthersRest(r) /\ \A q \in Relays \ {r} : release'[q] = release[q]
  BY <1>2, <1>3 DEF OthersRest, process
<1>6. /\ todo'[r] = {} /\ DOMAIN todo' = Relays /\ now' = now /\ ChosenStep
      /\ pc'[r] \notin {"running", "succeeded", "failed", "purge"}
  BY <1>3 DEF IInv, Stations, ChosenStep
<1> QED BY <1>3, <1>4, <1>5, <1>6, RelayMoves

(* A requeue goes on to the next claim.                                    *)
LEMMA RequeueMemory ==
  ASSUME IInv, NEW r \in Relays, RequeueUnhandled(r)
  PROVE  MemoryStep /\ \A q \in Relays : BatchStep(q)
BY AdvanceMemory DEF RequeueUnhandled, Holding, aux

(* A hand-back hands on the rest.                                          *)
LEMMA ReleaseMemory ==
  ASSUME IInv, NEW r \in Relays, ReleaseUnstarted(r)
  PROVE  MemoryStep /\ \A q \in Relays : BatchStep(q)
BY HandOnMemory DEF ReleaseUnstarted, Holding, aux

(* A settle that fails changes nothing but the relay's place.              *)
LEMMA SettleFailsMemory ==
  ASSUME IInv, NEW r \in Relays, SettleFails(r)
  PROVE  MemoryStep /\ \A q \in Relays : BatchStep(q)
<1>1. UNCHANGED <<now, process, replays>>
  BY DEF SettleFails
<1>2. CASE pc[r] \in {"requeue", "complete"} /\ DropClock(r) /\ Advance(r)
             /\ UNCHANGED <<todo, adding, chosen>>
  BY <1>1, <1>2, AdvanceMemory DEF Holding, Settled
<1>3. CASE (pc[r] = "release" \/ (pc[r] = "batch" /\ HandsBack(r))) /\ HandOn(r)
             /\ UNCHANGED <<at, todo, adding, chosen, started>>
  BY <1>1, <1>3, HandOnMemory DEF Holding
<1>4. CASE \/ pc[r] \in {"succeeded", "failed"} /\ Goto(r, "complete") /\ UNCHANGED memory
           \/ /\ pc[r] = "batch" /\ Goto(r, "requeue") /\ ReadClock(r)
              /\ UNCHANGED <<todo, adding, chosen, batch, fresh, started>>
  <2>1. UNCHANGED <<todo, adding, chosen, batch, fresh, started>>
    BY <1>4 DEF memory
  <2>2. at' \in [Relays -> Times]
    BY <1>4, TimesFacts DEF memory, ReadClock, IInv, Memory
  <2>3. /\ pc' \in [Relays -> Places] /\ \A q \in Relays \ {r} : pc'[q] = pc[q]
        /\ pc'[r] \in {"complete", "requeue"} /\ pc[r] \in {"succeeded", "failed", "batch"}
    BY <1>4, PlacesFacts DEF Goto, IInv, Memory
  <2>4. pc[r] \in Holding /\ pc'[r] \in Holding /\ pc[r] \notin Settled /\ pc[r] \notin Expanding
    BY <2>3 DEF Holding, Settled, Expanding
  <2>5. Memory'
    BY <1>1, <2>1, <2>2, <2>3 DEF IInv, Memory, process
  <2>6. OthersRest(r) /\ \A q \in Relays \ {r} : release'[q] = release[q]
    BY <1>1, <2>1, <2>3 DEF OthersRest, process
  <2>7. /\ todo'[r] = {} /\ DOMAIN todo' = Relays /\ now' = now /\ ChosenStep
        /\ pc'[r] \in Holding <=> batch'[r] # <<>>
        /\ pc'[r] \notin {"running", "succeeded", "failed", "purge"}
    BY <1>1, <2>1, <2>3, <2>4 DEF IInv, Stations, ChosenStep
  <2>8. BatchStep(r)
    BY <2>1, <2>4 DEF BatchStep
  <2> QED BY <2>5, <2>6, <2>7, <2>8, RelayMoves
<1> QED BY <1>2, <1>3, <1>4 DEF SettleFails

(* A relay that starts over forgets its batch.                             *)
LEMMA EmptyMemory ==
  ASSUME IInv, NEW r \in Relays, NEW p \in {"idle", "down"}, Goto(r, p), Empty(r),
         UNCHANGED <<now, process, replays>>
  PROVE  MemoryStep /\ \A q \in Relays : BatchStep(q)
<1>1. /\ pc' \in [Relays -> Places] /\ pc'[r] = p
      /\ \A q \in Relays \ {r} : pc'[q] = pc[q]
  BY PlacesFacts DEF Goto, IInv, Memory
<1>2. /\ at' \in [Relays -> Times] /\ chosen' \in [Relays -> SUBSET Events]
      /\ adding' \in [Relays -> SUBSET Deliveries]
      /\ fresh' \in [Relays -> BOOLEAN] /\ started' \in [Relays -> Times]
      /\ \A q \in Relays \ {r} : fresh'[q] = fresh[q] /\ started'[q] = started[q]
  BY TimesFacts DEF Empty, DropClock, IInv, Memory
<1>3. /\ batch' \in [Relays -> Seq(Claim)] /\ batch'[r] = <<>>
      /\ \A q \in Relays \ {r} : batch'[q] = batch[q]
  <2>1. <<>> \in Seq(Claim)
    OBVIOUS
  <2> QED BY <2>1 DEF Empty, IInv, Memory
<1>4. /\ DOMAIN todo' = Relays /\ todo'[r] = {}
      /\ \A q \in Relays \ {r} : todo'[q] = todo[q]
  BY DEF Empty, IInv, Stations
<1>5. Memory'
  BY <1>1, <1>2, <1>3 DEF IInv, Memory, process
<1>6. ChosenStep
  BY DEF Empty, ChosenStep, IInv, Memory
<1>7. OthersRest(r) /\ \A q \in Relays \ {r} : release'[q] = release[q]
  BY <1>1, <1>2, <1>3, <1>4 DEF OthersRest, process
<1>8. /\ pc'[r] \in Holding <=> batch'[r] # <<>>
      /\ pc'[r] \notin {"running", "succeeded", "failed", "purge"}
  BY <1>1, <1>3, PlacesFacts
<1>9. BatchStep(r)
  BY <1>3 DEF BatchStep
<1> QED BY <1>4, <1>5, <1>6, <1>7, <1>8, <1>9, RelayMoves

(* Crashes, failed pumps and lost claims.                                  *)
LEMMA FaultMemory ==
  ASSUME IInv, NEW r \in Relays, Crash(r) \/ PumpFails(r) \/ ClaimLost(r)
  PROVE  MemoryStep /\ \A q \in Relays : BatchStep(q)
<1>1. CASE Crash(r)
  BY <1>1, EmptyMemory DEF Crash
<1>2. CASE PumpFails(r)
  BY <1>2, EmptyMemory DEF PumpFails
<1>3. CASE ClaimLost(r)
  BY <1>3, EmptyMemory DEF ClaimLost
<1> QED BY <1>1, <1>2, <1>3

(* Starting and stopping a process.                                        *)
LEMMA ProcessMemory ==
  ASSUME IInv, NEW r \in Relays,
         Exit(r) \/ Cancel(r) \/ \E v \in Releases : Restart(r, v)
  PROVE  MemoryStep /\ UNCHANGED <<batch, table>> /\ \A q \in Relays : BatchStep(q)
<1>1. UNCHANGED <<now, memory, aux, table>>
  BY DEF Exit, Cancel, Restart
<1>2. CASE Cancel(r)
  <2>1. UNCHANGED <<release, pc>> /\ cancelled' \in [Relays -> BOOLEAN]
    BY <1>2 DEF Cancel, IInv, Memory
  <2>2. Memory' /\ now' >= now /\ now' \in Nat
    BY <1>1, <2>1 DEF IInv, Memory, memory, aux
  <2>3. Stations' /\ RunsInLease' /\ ChosenStep
    BY <1>1, <2>1 DEF IInv, Stations, RunsInLease, ChosenStep, Declared, Current, memory
  <2>4. \A q \in Relays : BatchStep(q)
    BY <1>1, <2>1 DEF BatchStep, memory
  <2> QED BY <1>1, <2>2, <2>3, <2>4 DEF MemoryStep, memory
<1>3. CASE Exit(r) \/ \E v \in Releases : Restart(r, v)
  <2>1. /\ release' \in [Relays -> Releases] /\ cancelled' \in [Relays -> BOOLEAN]
        /\ \A q \in Relays \ {r} : release'[q] = release[q]
    BY <1>3 DEF Exit, Restart, process, IInv, Memory
  <2>2. /\ pc' \in [Relays -> Places] /\ \A q \in Relays \ {r} : pc'[q] = pc[q]
        /\ pc[r] \in {"idle", "down"} /\ pc'[r] \in {"idle", "down"}
    BY <1>3, PlacesFacts DEF Exit, Restart, Goto, IInv, Memory
  <2>3. Memory' /\ now' = now
    BY <1>1, <2>1, <2>2 DEF IInv, Memory, memory, aux
  <2>4. pc[r] \notin Holding /\ pc'[r] \notin Holding
    BY <2>2, PlacesFacts
  <2>5. /\ todo'[r] = {} /\ DOMAIN todo' = Relays
        /\ pc'[r] \in Holding <=> batch'[r] # <<>>
        /\ pc'[r] \notin {"running", "succeeded", "failed", "purge"}
    BY <1>1, <2>2, <2>4 DEF IInv, Stations, Expanding, memory
  <2>6. OthersRest(r) /\ ChosenStep
    BY <1>1, <2>2 DEF OthersRest, ChosenStep, memory
  <2>7. BatchStep(r)
    BY <1>1, <2>4 DEF BatchStep, memory, Holding
  <2> QED BY <1>1, <2>1, <2>3, <2>5, <2>6, <2>7, RelayMoves DEF memory
<1> QED BY <1>2, <1>3

(* What no relay does.                                                     *)
LEMMA OutsideMemory ==
  ASSUME IInv,
         \/ Tick \/ UNCHANGED vars
         \/ \E e \in Events : AppendFor(e) \/ \E ns \in SUBSET Names : Replay(e, ns)
  PROVE  MemoryStep /\ \A q \in Relays : BatchStep(q)
<1>1. UNCHANGED <<process, pc, memory>>
  BY DEF Tick, vars, AppendFor, Replay
<1>2. /\ now \in Nat /\ now' \in Nat /\ now' >= now /\ now' <= MaxTime
      /\ replays' \in Nat
  BY LeaseBounds DEF Tick, vars, aux, AppendFor, Replay, IInv, Memory
<1>3. Memory'
  BY <1>1, <1>2 DEF IInv, Memory, memory, process
<1>4. Stations' /\ RunsInLease' /\ ChosenStep
  BY <1>1 DEF IInv, Stations, RunsInLease, ChosenStep, Declared, Current, memory, process
<1>5. \A q \in Relays : BatchStep(q)
  BY <1>1 DEF BatchStep, memory
<1> QED BY <1>2, <1>3, <1>4, <1>5 DEF MemoryStep

-----------------------------------------------------------------------------
(* The claim.                                                              *)

(* The batch a claim brings home: one claim per row, all of one lease.     *)
LEMMA BatchClaimed ==
  ASSUME IInv, NEW ds \in ToClaim, TakeLease(ds), UNCHANGED parent,
         NEW s \in InOrder(ClaimsOf(ds))
  PROVE  /\ s \in Seq(Claim) /\ (s = <<>> <=> ds = {})
         /\ \A i \in DOMAIN s : /\ s[i].row \in ds /\ s[i].until = now + Lease
                                /\ s[i].attempts = delivery[s[i].row].attempts + 1
         /\ \A i, j \in DOMAIN s : s[i].row = s[j].row => i = j
<1> DEFINE claim(d) == [row |-> d, attempts |-> delivery[d].attempts + 1,
                        until |-> now + Lease]
           cs == ClaimsOf(ds)
<1>1. /\ ds \subseteq Deliveries
      /\ \A d \in ds : delivery[d].attempts + 1 \in 1 .. MaxAttempts
  BY TakeTable
<1>2. now + Lease \in Times
  BY TimesFacts DEF IInv, Memory
<1>3. cs = {claim(d) : d \in ds}
  BY DEF ClaimsOf
<1>4. \A d \in ds : /\ claim(d) \in Claim /\ claim(d).row = d
                    /\ claim(d).until = now + Lease
                    /\ claim(d).attempts = delivery[d].attempts + 1
  BY <1>1, <1>2 DEF Claim
<1> HIDE DEF claim, cs
<1>5. IsFiniteSet(cs)
  <2>1. IsFiniteSet(Deliveries)
    BY OutboxAssumption, FS_Product DEF Deliveries
  <2>2. IsFiniteSet(ds)
    BY <1>1, <2>1, FS_Subset
  <2>3. [d \in ds |-> claim(d)] \in Surjection(ds, cs)
    BY <1>3 DEF Surjection
  <2> QED BY <2>2, <2>3, FS_Surjection
<1> DEFINE n == Cardinality(cs)
<1>6. n \in Nat /\ (n = 0 <=> cs = {})
  BY <1>5, FS_CardinalityType, FS_EmptySet
<1>7. s \in [1 .. n -> cs] /\ IsInjective(s)
  BY DEF InOrder, cs
<1> HIDE DEF n
<1>8. cs \subseteq Claim
  BY <1>3, <1>4
<1>9. s \in Seq(cs) /\ Len(s) = n /\ DOMAIN s = 1 .. n
  BY <1>6, <1>7
<1>10. s \in Seq(Claim)
  BY <1>6, <1>7, <1>8
<1>11. s = <<>> <=> ds = {}
  <2>1. s = <<>> <=> n = 0
    BY <1>9, EmptySeq
  <2>2. cs = {} <=> ds = {}
    BY <1>3
  <2> QED BY <1>6, <2>1, <2>2
<1>12. \A i \in DOMAIN s : \E d \in ds : s[i] = claim(d)
  BY <1>3, <1>7
<1>13. \A i \in DOMAIN s : /\ s[i].row \in ds /\ s[i].until = now + Lease
                           /\ s[i].attempts = delivery[s[i].row].attempts + 1
                           /\ s[i] = claim(s[i].row)
  BY <1>4, <1>12
<1>14. \A i, j \in DOMAIN s : s[i].row = s[j].row => i = j
  BY <1>7, <1>13 DEF IsInjective
<1> QED BY <1>10, <1>11, <1>13, <1>14

(* Only claims whose lease is over are on the rows another claim takes.    *)
LEMMA LapsedClaims ==
  ASSUME IInv, NEW ds \in ToClaim, TakeLease(ds), UNCHANGED parent,
         NEW q \in Relays, NEW j \in DOMAIN batch[q], Live(q, j)
  PROVE  LET c == batch[q][j]
             kept == /\ delivery'[c.row].status = "pending"
                     /\ delivery'[c.row].until = c.until
         IN  /\ c.row \in ds => c.until <= now
             /\ c.until > now => kept
             /\ kept => delivery'[c.row].attempts = c.attempts
<1> DEFINE c == batch[q][j]
<1>1. c.row \in Deliveries /\ c.until \in Nat \ {0}
  BY ClaimFacts
<1>2. /\ c.until > now => Fenced(c)
      /\ Fenced(c) => delivery[c.row].attempts = c.attempts
  BY DEF IInv, HeldInLease
<1>3. now \in Nat /\ Lease \in Nat \ {0}
  BY LeaseBounds DEF IInv, Memory
<1> HIDE DEF c
<1>4. CASE c.row \in ds
  <2>1. /\ Claimable(c.row) /\ delivery'[c.row].until = now + Lease
    BY <1>1, <1>4, TakeTable
  <2>2. delivery[c.row].until <= now
    BY <2>1 DEF Claimable
  <2>3. c.until <= now
    BY <1>1, <1>2, <1>3, <2>2 DEF Fenced
  <2>4. delivery'[c.row].until # c.until /\ ~(c.until > now)
    BY <1>1, <1>3, <2>1, <2>3
  <2> QED BY <2>3, <2>4 DEF c
<1>5. CASE c.row \notin ds
  <2>1. delivery'[c.row] = delivery[c.row]
    BY <1>1, <1>5, TakeTable
  <2> QED BY <1>2, <1>5, <2>1 DEF Fenced, Pending, c
<1> QED BY <1>4, <1>5

(* A lost claim takes rows and leaves nobody with them.                    *)
LEMMA ClaimLostHeld ==
  ASSUME IInv, NEW r \in Relays, ClaimLost(r)
  PROVE  TableStep /\ HeldInLease'
<1>1. PICK ds \in ToClaim : TakeLease(ds)
  BY DEF ClaimLost
<1>2. UNCHANGED <<now, parent>>
  BY DEF ClaimLost
<1>3. TableStep
  BY <1>1, <1>2, TakeTable
<1>4. HeldInLease'
  <2> SUFFICES ASSUME NEW q \in Relays, NEW i \in DOMAIN batch'[q], Live(q, i)'
               PROVE  LET c == batch'[q][i]
                          kept == /\ delivery'[c.row].status = "pending"
                                  /\ delivery'[c.row].until = c.until
                      IN  /\ c.until > now => kept
                          /\ kept => delivery'[c.row].attempts = c.attempts
    BY <1>2 DEF HeldInLease, Fenced, Pending
  <2>1. BatchStep(q)
    BY FaultMemory
  <2>2. PICK j \in DOMAIN batch[q] : Live(q, j) /\ batch'[q][i] = batch[q][j]
    BY <2>1, LiveBefore
  <2> QED BY <1>1, <1>2, <2>2, LapsedClaims
<1> QED BY <1>3, <1>4

(* A claim by relay r.                                                     *)
LEMMA ClaimHeld ==
  ASSUME IInv, NEW r \in Relays, ClaimDeliveries(r)
  PROVE  /\ TableStep /\ MemoryStep
         /\ ClaimsApart' /\ OneHolder' /\ HeldInLease'
<1>a. PICK ds \in ToClaim :
        /\ TakeLease(ds)
        /\ \E s \in InOrder(ClaimsOf(ds)) : batch' = [batch EXCEPT ![r] = s]
        /\ pc' = [pc EXCEPT ![r] = IF ds = {} THEN "idle" ELSE "batch"]
  BY DEF ClaimDeliveries, Goto
<1>1. PICK s \in InOrder(ClaimsOf(ds)) :
        /\ TakeLease(ds) /\ batch' = [batch EXCEPT ![r] = s]
        /\ pc' = [pc EXCEPT ![r] = IF ds = {} THEN "idle" ELSE "batch"]
  BY <1>a
<1>2. /\ UNCHANGED <<now, parent, process, at, todo, adding, chosen, started, aux>>
      /\ pc[r] = "claim" /\ fresh' = [fresh EXCEPT ![r] = TRUE]
  BY DEF ClaimDeliveries
<1>3. /\ s \in Seq(Claim) /\ (s = <<>> <=> ds = {})
      /\ \A i \in DOMAIN s : /\ s[i].row \in ds /\ s[i].until = now + Lease
                             /\ s[i].attempts = delivery[s[i].row].attempts + 1
      /\ \A i, j \in DOMAIN s : s[i].row = s[j].row => i = j
  BY <1>1, <1>2, BatchClaimed
<1>4. /\ TableStep /\ ds \subseteq Deliveries
      /\ \A d \in ds : /\ delivery'[d].until = now + Lease
                       /\ delivery'[d].status = "pending"
                       /\ delivery'[d].attempts = delivery[d].attempts + 1
  BY <1>1, <1>2, TakeTable
<1>5. now \in Nat /\ Lease \in Nat \ {0}
  BY LeaseBounds DEF IInv, Memory
<1>6. /\ batch' \in [Relays -> Seq(Claim)] /\ batch'[r] = s
      /\ \A q \in Relays \ {r} : batch'[q] = batch[q]
  BY <1>1, <1>3 DEF IInv, Memory
<1>7. /\ pc' \in [Relays -> Places] /\ \A q \in Relays \ {r} : pc'[q] = pc[q]
      /\ pc'[r] = IF ds = {} THEN "idle" ELSE "batch"
  BY <1>1, PlacesFacts DEF IInv, Memory
<1>8. MemoryStep
  <2>1. /\ fresh' \in [Relays -> BOOLEAN]
        /\ \A q \in Relays \ {r} : fresh'[q] = fresh[q]
    BY <1>2 DEF IInv, Memory
  <2>2. Memory'
    BY <1>2, <1>6, <1>7, <2>1 DEF IInv, Memory, process, aux
  <2>3. OthersRest(r) /\ \A q \in Relays \ {r} : release'[q] = release[q]
    BY <1>2, <1>6, <1>7, <2>1 DEF OthersRest, process
  <2>4. todo'[r] = {} /\ DOMAIN todo' = Relays /\ ChosenStep
    BY <1>2 DEF IInv, Stations, Expanding, ChosenStep
  <2>5. /\ pc'[r] \in Holding <=> batch'[r] # <<>>
        /\ pc'[r] \notin {"running", "succeeded", "failed", "purge"}
    BY <1>3, <1>6, <1>7 DEF Holding, Settled
  <2> QED BY <1>2, <2>2, <2>3, <2>4, <2>5, RelayMoves
<1>9. \A q \in Relays \ {r} : \A i \in DOMAIN batch'[q] :
        Live(q, i)' => i \in DOMAIN batch[q] /\ Live(q, i) /\ batch'[q][i] = batch[q][i]
  BY <1>6, <1>7 DEF Live
<1>10. ClaimsApart'
  <2> SUFFICES ASSUME NEW q \in Relays, NEW i \in DOMAIN batch'[q]
               PROVE  /\ batch'[q][i].until > 0
                      /\ \A j \in DOMAIN batch'[q] :
                           batch'[q][i].row = batch'[q][j].row => i = j
    BY DEF ClaimsApart
  <2>1. CASE q = r
    <3>1. now + Lease > 0
      BY <1>5
    <3> QED BY <1>3, <1>6, <2>1, <3>1
  <2>2. CASE q # r
    BY <1>6, <2>2 DEF IInv, ClaimsApart
  <2> QED BY <2>1, <2>2
<1>11. \A q \in Relays \ {r} : \A i \in DOMAIN batch'[q] : Live(q, i)' =>
         LET c == batch'[q][i]
             kept == /\ delivery'[c.row].status = "pending"
                     /\ delivery'[c.row].until = c.until
         IN  /\ c.row \in ds => c.until <= now
             /\ c.until > now => kept
             /\ kept => delivery'[c.row].attempts = c.attempts
  BY <1>1, <1>2, <1>9, LapsedClaims
<1>12. OneHolder'
  <2>1. ASSUME NEW q \in Relays \ {r}, NEW i \in DOMAIN batch'[q],
               NEW j \in DOMAIN batch'[r], Live(q, i)',
               batch'[q][i].row = batch'[r][j].row,
               batch'[q][i].until = batch'[r][j].until
        PROVE  FALSE
    <3>1. batch'[r][j].row \in ds /\ batch'[r][j].until = now + Lease
      BY <1>3, <1>6
    <3>2. batch'[q][i].until <= now
      BY <1>11, <2>1, <3>1
    <3> QED BY <1>5, <2>1, <3>1, <3>2
  <2>2. ASSUME NEW q \in Relays \ {r}, NEW p \in Relays \ {r},
               NEW i \in DOMAIN batch'[q], NEW j \in DOMAIN batch'[p],
               Live(q, i)', Live(p, j)',
               batch'[q][i].row = batch'[p][j].row,
               batch'[q][i].until = batch'[p][j].until
        PROVE  q = p
    BY <1>9, <2>2 DEF IInv, OneHolder
  <2> SUFFICES ASSUME NEW q \in Relays, NEW p \in Relays,
               NEW i \in DOMAIN batch'[q], NEW j \in DOMAIN batch'[p],
               Live(q, i)', Live(p, j)',
               batch'[q][i].row = batch'[p][j].row,
               batch'[q][i].until = batch'[p][j].until
        PROVE  q = p
    BY DEF OneHolder
  <2>3. CASE q # r /\ p # r
    BY <2>2, <2>3
  <2>4. CASE q # r /\ p = r
    BY <2>1, <2>4
  <2>5. CASE q = r /\ p # r
    BY <2>1, <2>5
  <2> QED BY <2>3, <2>4, <2>5
<1>13. HeldInLease'
  <2> SUFFICES ASSUME NEW q \in Relays, NEW i \in DOMAIN batch'[q], Live(q, i)'
               PROVE  LET c == batch'[q][i]
                          kept == /\ delivery'[c.row].status = "pending"
                                  /\ delivery'[c.row].until = c.until
                      IN  /\ c.until > now => kept
                          /\ kept => delivery'[c.row].attempts = c.attempts
    BY <1>2 DEF HeldInLease, Fenced, Pending
  <2>1. CASE q = r
    BY <1>3, <1>4, <1>6, <2>1
  <2>2. CASE q # r
    BY <1>11, <2>2
  <2> QED BY <2>1, <2>2
<1> QED BY <1>4, <1>8, <1>10, <1>12, <1>13

-----------------------------------------------------------------------------
(* Every step keeps the invariant.                                         *)

(* A row in its lease changes only in the hands of its holder.             *)
Guarded(d) ==
  \/ delivery'[d] = delivery[d] \/ ~Pending(d) \/ delivery[d].until <= now
  \/ \E r \in Relays : GivesUp(r, d)

StepFacts ==
  /\ TableStep /\ MemoryStep /\ ClaimsApart' /\ OneHolder' /\ HeldInLease'
  /\ \A d \in Deliveries : Guarded(d)

(* Every step but the claim.                                               *)
LEMMA OrdinaryStep ==
  ASSUME IInv, TableStep, MemoryStep, \A q \in Relays : BatchStep(q),
         \A d \in Deliveries : RowFreed(d)
  PROVE  StepFacts
<1>1. ClaimsApart' /\ OneHolder'
  BY ClaimsApartKept, OneHolderKept
<1>2. HeldInLease'
  BY HeldInLeaseKept DEF MemoryStep
<1>3. \A d \in Deliveries : Guarded(d)
  BY DEF RowFreed, Guarded
<1> QED BY <1>1, <1>2, <1>3 DEF StepFacts

(* A batch that is kept with its station has made a step.                  *)
LEMMA BatchKept ==
  ASSUME UNCHANGED batch, NEW r \in Relays,
         \A q \in Relays \ {r} : pc'[q] = pc[q],
         pc[r] \notin Settled \/ pc'[r] \in Settled
  PROVE  \A q \in Relays : BatchStep(q)
BY DEF BatchStep

(* What a relay does.                                                      *)
LEMMA RelayStepFacts ==
  ASSUME IInv, NEW r \in Relays, RelayStep(r)
  PROVE  StepFacts
<1>1. CASE \/ Pump(r) \/ DropOrphans(r) \/ ExpandWrite(r)
           \/ \E pair \in todo[r] : ExpandRead(r, pair)
           \/ PurgeDeliveries(r) \/ PurgeParentsRead(r) \/ PurgeParentsWrite(r)
           \/ SweepExhausted(r)
  <2>1. MemoryStep /\ UNCHANGED batch
    BY <1>1, ReconcilingMemory
  <2>2. /\ pc[r] \notin Settled
        /\ \A q \in Relays \ {r} : pc'[q] = pc[q]
    BY <1>1 DEF Pump, DropOrphans, ExpandRead, ExpandWrite, PurgeDeliveries,
                PurgeParentsRead, PurgeParentsWrite, SweepExhausted, Goto, Settled,
                IInv, Memory
  <2>3. TableStep /\ \A d \in Deliveries : RowFreed(d)
    <3>1. CASE \/ Pump(r) \/ DropOrphans(r) \/ PurgeParentsRead(r)
               \/ \E pair \in todo[r] : ExpandRead(r, pair)
      BY <3>1, TablesRest DEF Pump, DropOrphans, PurgeParentsRead, ExpandRead
    <3> QED BY <1>1, <3>1, ExpandTable, PurgeDeliveriesTable, PurgeParentsTable, SweepTable
  <2>4. \A q \in Relays : BatchStep(q)
    BY <2>1, <2>2, BatchKept
  <2> QED BY <2>1, <2>3, <2>4, OrdinaryStep
<1>2. CASE \/ Begin(r) \/ TimeOut(r) \/ MarkDispatched(r) \/ MarkFailure(r)
           \/ AbandonUnhandled(r)
           \/ \E outcome \in {"succeeded", "failed"} : Return(r, outcome)
  <2>1. MemoryStep /\ UNCHANGED batch
    BY <1>2, WorkingMemory
  <2>2. /\ pc[r] \notin Settled
        /\ \A q \in Relays \ {r} : pc'[q] = pc[q]
    BY <1>2 DEF Begin, TimeOut, MarkDispatched, MarkFailure, AbandonUnhandled,
                Return, Goto, Settled, IInv, Memory
  <2>3. TableStep /\ \A d \in Deliveries : RowFreed(d)
    <3>1. CASE \/ Begin(r) \/ TimeOut(r)
               \/ \E outcome \in {"succeeded", "failed"} : Return(r, outcome)
      BY <3>1, TablesRest DEF Begin, TimeOut, Return
    <3> QED BY <1>2, <3>1, MarkDispatchedTable, MarkFailureTable, AbandonTable
  <2>4. \A q \in Relays : BatchStep(q)
    BY <2>1, <2>2, BatchKept
  <2> QED BY <2>1, <2>3, <2>4, OrdinaryStep
<1>3. CASE CompleteRead(r)
  BY <1>3, CompleteReadMemory, TablesRest, OrdinaryStep DEF CompleteRead
<1>4. CASE CompleteWrite(r)
  BY <1>4, CompleteWriteMemory, CompleteTable, OrdinaryStep
<1>5. CASE ClaimDeliveries(r)
  <2>1. PICK ds \in ToClaim : TakeLease(ds)
    BY <1>5 DEF ClaimDeliveries
  <2>2. UNCHANGED parent
    BY <1>5 DEF ClaimDeliveries
  <2>3. \A d \in Deliveries : Guarded(d)
    BY <2>1, <2>2, TakeTable DEF Guarded, Claimable
  <2> QED BY <1>5, <2>3, ClaimHeld DEF StepFacts
<1>6. CASE ReleaseUnstarted(r)
  BY <1>6, ReleaseMemory, ReleaseTable, OrdinaryStep
<1>7. CASE RequeueUnhandled(r)
  BY <1>7, RequeueMemory, RequeueTable, OrdinaryStep
<1> QED BY <1>1, <1>2, <1>3, <1>4, <1>5, <1>6, <1>7 DEF RelayStep

(* What happens to its process.                                            *)
LEMMA ProcessStepFacts ==
  ASSUME IInv, NEW r \in Relays, ProcessStep(r)
  PROVE  StepFacts
<1>1. CASE Exit(r) \/ Cancel(r) \/ \E v \in Releases : Restart(r, v)
  BY <1>1, ProcessMemory, TablesRest, OrdinaryStep
<1>2. CASE Crash(r) \/ PumpFails(r)
  <2>1. UNCHANGED table
    BY <1>2 DEF Crash, PumpFails
  <2> QED BY <1>2, <2>1, FaultMemory, TablesRest, OrdinaryStep
<1>3. CASE ClaimLost(r)
  <2>1. PICK ds \in ToClaim : TakeLease(ds)
    BY <1>3 DEF ClaimLost
  <2>2. UNCHANGED parent
    BY <1>3 DEF ClaimLost
  <2>3. \A d \in Deliveries : Guarded(d)
    BY <2>1, <2>2, TakeTable DEF Guarded, Claimable
  <2>4. MemoryStep /\ ClaimsApart' /\ OneHolder'
    BY <1>3, FaultMemory, ClaimsApartKept, OneHolderKept
  <2> QED BY <1>3, <2>3, <2>4, ClaimLostHeld DEF StepFacts
<1>4. CASE SettleFails(r)
  <2>1. UNCHANGED table
    BY <1>4 DEF SettleFails
  <2> QED BY <1>4, <2>1, SettleFailsMemory, TablesRest, OrdinaryStep
<1> QED BY <1>1, <1>2, <1>3, <1>4 DEF ProcessStep

(* Every step.                                                             *)
LEMMA EveryStepFacts ==
  ASSUME IInv, [Next]_vars
  PROVE  StepFacts
<1>1. CASE \E r \in Relays : RelayStep(r) \/ ProcessStep(r)
  BY <1>1, RelayStepFacts, ProcessStepFacts
<1>2. CASE \E e \in Events : AppendFor(e) \/ \E ns \in SUBSET Names : Replay(e, ns)
  <2>1. TableStep /\ \A d \in Deliveries : RowFreed(d)
    BY <1>2, AppendTable, ReplayTable
  <2> QED BY <1>2, <2>1, OutsideMemory, OrdinaryStep
<1>3. CASE Tick \/ UNCHANGED vars
  <2>1. UNCHANGED table
    BY <1>3 DEF Tick, vars
  <2> QED BY <1>3, <2>1, OutsideMemory, TablesRest, OrdinaryStep
<1> QED BY <1>1, <1>2, <1>3 DEF Next

(* The invariant holds at the start ...                                    *)
LEMMA InitHolds == Init => IInv
<1> SUFFICES ASSUME Init PROVE IInv
  OBVIOUS
<1>1. 1 .. 0 = {} /\ 0 \in Times /\ 0 \in 0 .. MaxAttempts
  BY TimesFacts, LeaseBounds
<1>2. NoDelivery \in Rows /\ NoDelivery.status = "none" /\ NoDelivery.until = 0
  BY TimesFacts, NewDeliveryFacts
<1>3. Tables
  BY <1>1, <1>2 DEF Init, Tables, NoParent
<1>4. now \in Nat /\ now <= MaxTime
  BY LeaseBounds DEF Init
<1>5. Memory
  <2>1. <<>> \in Seq(Claim)
    OBVIOUS
  <2> QED BY <1>1, <1>4, <2>1, PlacesFacts DEF Init, Memory
<1>6. Stations
  BY PlacesFacts DEF Init, Stations
<1>7. /\ \A d \in Deliveries : delivery[d].status = "none" /\ delivery[d].until = 0
      /\ \A r \in Relays : batch[r] = <<>> /\ chosen[r] = {} /\ pc[r] = "down"
      /\ \A e \in Events : parent[e].status = "absent"
  BY <1>2 DEF Init, NoParent
<1>8. RowsCounted /\ ChosenCovered /\ NoConsumerSkipped /\ RunsInLease
  BY <1>7 DEF RowsCounted, Pending, ChosenCovered, NoConsumerSkipped,
              RunsInLease
<1>9. ClaimsApart /\ OneHolder /\ HeldInLease
  BY <1>7 DEF ClaimsApart, OneHolder, HeldInLease
<1> QED BY <1>3, <1>5, <1>6, <1>8, <1>9 DEF IInv

(* ... and after every step.                                               *)
LEMMA IInvInductive == IInv /\ [Next]_vars => IInv'
<1> SUFFICES ASSUME IInv, [Next]_vars PROVE IInv'
  OBVIOUS
<1>1. StepFacts
  BY EveryStepFacts
<1>2. TableStep /\ MemoryStep
  BY <1>1 DEF StepFacts
<1>3. Tables' /\ Memory' /\ Stations' /\ RunsInLease'
  BY <1>2 DEF TableStep, MemoryStep
<1>4. RowsCounted'
  BY <1>2, RowsCountedKept
<1>5. NoConsumerSkipped' /\ ChosenCovered'
  BY <1>2, CoveredKept DEF MemoryStep
<1>6. ClaimsApart' /\ OneHolder' /\ HeldInLease'
  BY <1>1 DEF StepFacts
<1> QED BY <1>3, <1>4, <1>5, <1>6 DEF IInv

(* The inductive invariant is one of every behaviour.                      *)
LEMMA Invariance == Spec => []IInv
BY InitHolds, IInvInductive, PTL DEF Spec

-----------------------------------------------------------------------------
(* The theorems.                                                           *)

(* Rows and memory are typed.                                              *)
THEOREM OutboxTypes == Spec => []OutboxTypeOK
<1>1. IInv => OutboxTypeOK
  <2> SUFFICES ASSUME IInv PROVE OutboxTypeOK
    OBVIOUS
  <2>1. now \in Times
    BY TimesFacts DEF IInv, Memory
  <2> QED BY <2>1 DEF IInv, OutboxTypeOK, Tables, Rows, Memory, Stations
<1> QED BY <1>1, Invariance, PTL

(* A handler inside its budget keeps its row.                              *)
THEOREM RunningKeepsRowHolds == Spec => []RunningKeepsRow
<1>1. IInv => RunningKeepsRow
  <2> SUFFICES ASSUME IInv, NEW r \in Relays,
                      pc[r] \in {"running", "succeeded", "failed"},
                      now < started[r] + HandlerTimeout + SettleTimeout,
                      fresh[r] => started[r] + HandlerTimeout + SettleTimeout
                                    <= Current(r).until
               PROVE  Fenced(Current(r))
    BY DEF RunningKeepsRow
  <2>1. started[r] + HandlerTimeout + SettleTimeout <= Current(r).until
    BY DEF IInv, RunsInLease
  <2>2. batch[r] # <<>> /\ pc[r] \notin Settled
    BY HoldsBatch DEF Holding, Settled
  <2>3. /\ 1 \in DOMAIN batch[r] /\ Current(r) = batch[r][1] /\ Live(r, 1)
        /\ Current(r).until \in Nat
    BY <2>2, CurrentFacts
  <2>4. started[r] \in Nat /\ now \in Nat
    <3>1. started[r] \in Times
      BY DEF IInv, Memory
    <3> QED BY <3>1, TimesFacts DEF IInv, Memory
  <2>5. Current(r).until > now
    BY <2>1, <2>3, <2>4, LeaseBounds
  <2> QED BY <2>3, <2>5 DEF IInv, HeldInLease
<1> QED BY <1>1, Invariance, PTL

(* No consumer misses a completed event.                                   *)
THEOREM NoConsumerSkippedHolds == Spec => []NoConsumerSkipped
<1>1. IInv => NoConsumerSkipped
  BY DEF IInv
<1> QED BY <1>1, Invariance, PTL

(* No statement deletes a delivery that is not delivered.                  *)
THEOREM UndeliveredKeptHolds == Spec => UndeliveredKept
<1> DEFINE Kept == \A d \in Deliveries :
      delivery[d].status \in Undelivered => delivery'[d].status # "none"
<1>1. IInv /\ [Next]_vars => [Kept]_vars
  BY EveryStepFacts, UndeliveredRows DEF StepFacts
<1> QED BY <1>1, Invariance, PTL DEF Spec, UndeliveredKept

(* What is settled stays settled, whoever still writes.                    *)
THEOREM SettledStaysHolds == Spec => SettledStays
<1> DEFINE Stays ==
      \A d \in Deliveries : delivery'[d] # delivery[d] =>
        /\ delivery[d].status = "dispatched" => delivery'[d] = NoDelivery
        /\ delivery[d].status \in {"dead", "abandoned"} => replays' # replays
<1>1. IInv /\ [Next]_vars => [Stays]_vars
  BY EveryStepFacts, SettledRows DEF StepFacts
<1> QED BY <1>1, Invariance, PTL DEF Spec, SettledStays

(* A row in its lease is touched only by the relay that holds it.          *)
THEOREM ClaimProtectedHolds == Spec => ClaimProtected
<1> DEFINE Protected ==
      \A d \in Deliveries :
        Pending(d) /\ delivery[d].until > now /\ delivery'[d] # delivery[d] =>
          \E r \in Relays : Holds(r, d) /\ (pc'[r] # pc[r] \/ batch'[r] # batch[r])
<1>1. IInv /\ [Next]_vars => [Protected]_vars
  <2> SUFFICES ASSUME IInv, [Next]_vars, NEW d \in Deliveries, Pending(d),
                      delivery[d].until > now, delivery'[d] # delivery[d]
               PROVE  \E r \in Relays :
                        Holds(r, d) /\ (pc'[r] # pc[r] \/ batch'[r] # batch[r])
    OBVIOUS
  <2>1. now \in Nat /\ delivery[d].until \in Nat
    <3>1. delivery[d].until \in Times
      BY DEF IInv, Tables, Rows
    <3> QED BY <3>1, TimesFacts DEF IInv, Memory
  <2>2. Guarded(d)
    BY EveryStepFacts DEF StepFacts
  <2>3. PICK r \in Relays : GivesUp(r, d)
    BY <2>1, <2>2 DEF Guarded
  <2>4. 1 \in DOMAIN batch[r] /\ Current(r) = batch[r][1]
    BY <2>3, CurrentFacts DEF GivesUp
  <2>5. Holds(r, d)
    BY <2>3, <2>4 DEF Holds, GivesUp, Fenced
  <2>6. Tail(batch[r]) # batch[r]
    BY <2>3, ClaimFacts, TailFacts DEF GivesUp
  <2> QED BY <2>3, <2>5, <2>6 DEF GivesUp
<1> QED BY <1>1, Invariance, PTL DEF Spec, ClaimProtected
=============================================================================
