------------------------------- MODULE Outbox -------------------------------
(***************************************************************************)
(* framework/outbox: events staged in the caller's transaction (parents)   *)
(* and delivered by the relays of any number of processes to each declared *)
(* consumer on its own (deliveries).  A relay's pump reconciles the tables *)
(* with the consumers it declares, claims a batch of deliveries under one  *)
(* lease and runs them one after another.  claimed_until, the end of the   *)
(* lease, is also the fence of every settle.                               *)
(*                                                                         *)
(* One SQL statement is one action, or two where it asks about rows it     *)
(* does not write (expansion, completion, retention of parents): under     *)
(* READ COMMITTED its SELECT or its subqueries read a snapshot, and what   *)
(* they selected is written after other transactions may have committed.   *)
(*                                                                         *)
(* Each process runs one release of the application, which declares a      *)
(* fixed set of consumers; a rolling deploy restarts processes one by one  *)
(* with another release.                                                   *)
(***************************************************************************)
EXTENDS Naturals, Sequences, FiniteSets, Functions

CONSTANTS
  Events, TypeOf,   \* the events that may be staged, and their types
  Names,            \* consumer names
  Relays,
  Releases,
  Declares,         \* release -> set of <<event type, consumer name>>
  MinLease, MaxDuration,
  HandlerTimeout, SettleTimeout, HandlerGrace,
  Retention,        \* 0 keeps every row
  MaxAttempts, BatchSize,
  BackoffMax, BackoffDelay(_),
  MaxTime, MaxFaults, MaxReplays   \* bounds on the clock, faults and replays

Deliveries == Events \X Names

ASSUME OutboxAssumption ==
  /\ Declares \in [Releases -> SUBSET ({TypeOf[e] : e \in Events} \X Names)]
  /\ Releases # {}
  /\ IsFiniteSet(Events) /\ IsFiniteSet(Names) /\ IsFiniteSet(Relays)
  /\ {MinLease, HandlerTimeout, SettleTimeout, MaxDuration, MaxAttempts,
      BatchSize, MaxTime} \subseteq Nat \ {0}
  /\ MinLease <= MaxDuration
  /\ {HandlerGrace, Retention, BackoffMax, MaxFaults, MaxReplays} \subseteq Nat
  /\ \A n \in 0 .. MaxAttempts : BackoffDelay(n) \in Nat

(* New: the lease is stretched to leaseFloor, which saturates where the    *)
(* sum of two int64 durations would wrap.                                  *)
LeaseFloor ==
  LET budget == HandlerTimeout + SettleTimeout
  IN  IF budget > MaxDuration \div 2 THEN MaxDuration ELSE 2 * budget

Lease == IF LeaseFloor > MinLease THEN LeaseFloor ELSE MinLease

VARIABLES
  now,
  parent,     \* event_outbox
  delivery,   \* event_outbox_delivery
  release, pc,
  cancelled,  \* the context of the relay has ended
  at,         \* the clock as the function in progress read it
  todo,       \* consumers whose expansion this pump has still to run
  adding,     \* deliveries the snapshot of an expansion found missing
  chosen,     \* parents the snapshot of a completion or purge selected
  batch,      \* claims not settled yet, the current one first
  fresh,      \* the current claim is the first of its batch
  started,    \* when the current handler started
  faults, replays

table == <<parent, delivery>>
memory == <<at, todo, adding, chosen, batch, fresh, started>>
process == <<release, cancelled>>
aux == <<faults, replays>>
vars == <<now, table, process, pc, memory, aux>>

(* Row IDs are random: an event whose row was purged is not staged again.  *)
NoParent == [status |-> "absent", created |-> 0]
Purged == [status |-> "purged", created |-> 0]

(* claimed_until 0 is NULL, as is next_attempt_at 0.                       *)
NoDelivery ==
  [status |-> "none", attempts |-> 0, created |-> 0, next |-> 0, until |-> 0]

NewDelivery(t) == [NoDelivery EXCEPT !.status = "pending", !.created = t]

Present(d) == delivery[d].status # "none"
Pending(d) == delivery[d].status = "pending"
DeliveriesOf(e) == {d \in Deliveries : d[1] = e /\ Present(d)}

Declared(r) == Declares[release[r]]
DeclaredFor(r, e) == {n \in Names : <<TypeOf[e], n>> \in Declared(r)}

(* created_at <= clock - window                                            *)
Older(created, window, clock) == created + window <= clock

(* o.now(), kept for the statements that share it.                         *)
ReadClock(r) == at' = [at EXCEPT ![r] = now]
DropClock(r) == at' = [at EXCEPT ![r] = 0]

Goto(r, place) == pc' = [pc EXCEPT ![r] = place]

Current(r) == Head(batch[r])

(* The WHERE clause of every settle: status='pending' AND claimed_until is *)
(* what this claim wrote.                                                  *)
Fenced(c) == Pending(c.row) /\ delivery[c.row].until = c.until

(* Mutant: a settle matches the delivery whoever holds it.                 *)
UpdateByKey(c, row) ==
  delivery' = IF Present(c.row) THEN [delivery EXCEPT ![c.row] = row] ELSE delivery

Update(c, row) ==
  delivery' = IF Fenced(c) THEN [delivery EXCEPT ![c.row] = row] ELSE delivery

-----------------------------------------------------------------------------
(* Staging and operators.                                                  *)

AppendFor(e) ==
  /\ parent[e].status = "absent"
  /\ parent' = [parent EXCEPT ![e] = [status |-> "pending", created |-> now]]
  /\ UNCHANGED <<now, delivery, process, pc, memory, aux>>

(* Replay resets every dead or abandoned delivery of an event,             *)
(* ReplayConsumer one of them; both reopen the parent.                     *)
Replay(e, ns) ==
  LET reset == {d \in DeliveriesOf(e) :
                  d[2] \in ns /\ delivery[d].status \in {"dead", "abandoned"}}
  IN  /\ replays < MaxReplays
      /\ reset # {}
      /\ delivery' = [d \in Deliveries |->
                        IF d \in reset THEN NewDelivery(now) ELSE delivery[d]]
      /\ parent' = [parent EXCEPT ![e].status =
                      IF @ = "dispatched" THEN "pending" ELSE @]
      /\ replays' = replays + 1
      /\ UNCHANGED <<now, process, pc, memory, faults>>

-----------------------------------------------------------------------------
(* pump, phase 1: reconcile.                                               *)

Pump(r) ==
  /\ pc[r] = "idle" /\ ~cancelled[r]
  /\ Goto(r, "expand")
  /\ todo' = [todo EXCEPT ![r] = Declared(r)]
  /\ ReadClock(r)
  /\ UNCHANGED <<now, table, process, adding, chosen, batch, fresh, started, aux>>

(* ORDER BY created_at LIMIT n: the sets of n rows none of which is        *)
(* younger than one left out.                                              *)
Oldest(S, created, n) ==
  {T \in SUBSET S :
     /\ Cardinality(T) = IF Cardinality(S) < n THEN Cardinality(S) ELSE n
     /\ \A t \in T, u \in S \ T : created[t] <= created[u]}

(* One batch-limited INSERT ... SELECT per declared consumer: the events   *)
(* its snapshot finds without a delivery ...                               *)
ExpandRead(r, pair) ==
  LET created == [e \in Events |-> parent[e].created]
      missing == {e \in Events : /\ parent[e].status = "pending"
                                 /\ TypeOf[e] = pair[1]
                                 /\ ~Present(<<e, pair[2]>>)}
  IN  /\ pc[r] = "expand" /\ pair \in todo[r]
      /\ Goto(r, "expandWrite")
      /\ todo' = [todo EXCEPT ![r] = @ \ {pair}]
      /\ \E es \in Oldest(missing, created, BatchSize) :
           adding' = [adding EXCEPT ![r] = es \X {pair[2]}]
      /\ UNCHANGED <<now, table, process, at, chosen, batch, fresh, started, aux>>

(* Mutant: a conflict overwrites the delivery that is there.               *)
ExpandOverwriting(r) ==
  /\ pc[r] = "expandWrite"
  /\ Goto(r, "expand")
  /\ delivery' = [d \in Deliveries |->
       IF d \in adding[r] THEN NewDelivery(at[r]) ELSE delivery[d]]
  /\ adding' = [adding EXCEPT ![r] = {}]
  /\ UNCHANGED <<now, parent, process, at, todo, chosen, batch, fresh, started, aux>>

(* ... get one, whatever has become of them since; ON CONFLICT DO NOTHING. *)
ExpandWrite(r) ==
  /\ pc[r] = "expandWrite"
  /\ Goto(r, "expand")
  /\ delivery' = [d \in Deliveries |->
       IF d \in adding[r] /\ ~Present(d) THEN NewDelivery(at[r]) ELSE delivery[d]]
  /\ adding' = [adding EXCEPT ![r] = {}]
  /\ UNCHANGED <<now, parent, process, at, todo, chosen, batch, fresh, started, aux>>

(* Mutant: no grace for a replica that consumes the type.                  *)
OrphanAtOnce(r, e, clock) ==
  /\ parent[e].status = "pending"
  /\ DeclaredFor(r, e) = {}
  /\ DeliveriesOf(e) = {}

(* sweepParents (i): old parents of a type nobody here consumes.           *)
Orphan(r, e, clock) ==
  /\ parent[e].status = "pending"
  /\ Older(parent[e].created, HandlerGrace, clock)
  /\ DeclaredFor(r, e) = {}
  /\ DeliveriesOf(e) = {}

DropOrphans(r) ==
  /\ pc[r] = "expand" /\ todo[r] = {}
  /\ chosen' = [chosen EXCEPT ![r] = {e \in Events : Orphan(r, e, now)}]
  /\ ReadClock(r)
  /\ Goto(r, "orphansWrite")
  /\ UNCHANGED <<now, table, process, todo, adding, batch, fresh, started, aux>>

(* Mutant: a parent completes although a consumer declared here has no     *)
(* delivery of it yet.                                                     *)
CompletableUncovered(r, e, clock) ==
  /\ parent[e].status = "pending"
  /\ Older(parent[e].created, HandlerGrace, clock)
  /\ \A d \in DeliveriesOf(e) : ~Pending(d)

(* What completeParent and the backstop ask of a parent.                   *)
Completable(r, e, clock) ==
  /\ parent[e].status = "pending"
  /\ Older(parent[e].created, HandlerGrace, clock)
  /\ \A d \in DeliveriesOf(e) : ~Pending(d)
  /\ \A n \in DeclaredFor(r, e) : Present(<<e, n>>)

(* sweepParents (ii), and completeParent of the current claim's event.     *)
CompleteRead(r) ==
  /\ \/ /\ pc[r] = "backstop"
        /\ Goto(r, "backstopWrite")
        /\ chosen' = [chosen EXCEPT ![r] =
             {e \in Events : Completable(r, e, at[r]) /\ DeliveriesOf(e) # {}}]
     \/ /\ pc[r] = "complete"
        /\ Goto(r, "completeWrite")
        /\ chosen' = [chosen EXCEPT ![r] =
             {e \in Events : Completable(r, e, now) /\ e = Current(r).row[1]}]
  /\ DropClock(r)
  /\ UNCHANGED <<now, table, process, todo, adding, batch, fresh, started, aux>>

(* Where the loop over the batch goes after the current claim.             *)
Advance(r) ==
  /\ Goto(r, IF Len(batch[r]) > 1 THEN "batch" ELSE "idle")
  /\ batch' = [batch EXCEPT ![r] = Tail(@)]
  /\ fresh' = [fresh EXCEPT ![r] = FALSE]
  /\ started' = [started EXCEPT ![r] = 0]

Dispatch(es) ==
  parent' = [e \in Events |->
    IF e \in es /\ parent[e].status = "pending"
      THEN [parent[e] EXCEPT !.status = "dispatched"] ELSE parent[e]]

(* The rows chosen are written, those still pending.                       *)
CompleteWrite(r) ==
  /\ pc[r] \in {"orphansWrite", "backstopWrite", "completeWrite"}
  /\ Dispatch(chosen[r])
  /\ chosen' = [chosen EXCEPT ![r] = {}]
  /\ \/ pc[r] = "completeWrite" /\ Advance(r)
     \/ /\ pc[r] = "orphansWrite"
        /\ Goto(r, "backstop")
        /\ UNCHANGED <<batch, fresh, started>>
     \/ /\ pc[r] = "backstopWrite"
        /\ Goto(r, IF Retention > 0 THEN "purge" ELSE "sweep")
        /\ UNCHANGED <<batch, fresh, started>>
  /\ UNCHANGED <<now, delivery, process, at, todo, adding, aux>>

(* Mutant: retention spares dead and abandoned deliveries, not pending     *)
(* ones.                                                                   *)
ExpiredUnlessDead(e, clock) ==
  /\ parent[e].status = "dispatched"
  /\ Older(parent[e].created, Retention, clock)
  /\ \A d \in DeliveriesOf(e) : delivery[d].status \notin {"dead", "abandoned"}

Expired(e, clock) ==
  /\ parent[e].status = "dispatched"
  /\ Older(parent[e].created, Retention, clock)
  /\ \A d \in DeliveriesOf(e) : delivery[d].status = "dispatched"

(* purgeExpired, deliveries first.  One step: it deletes delivered rows of *)
(* a completed event, which nothing else changes, and a delivery added     *)
(* after its snapshot is not among them.                                   *)
PurgeDeliveries(r) ==
  /\ pc[r] = "purge"
  /\ delivery' = [d \in Deliveries |->
                    IF Expired(d[1], now) THEN NoDelivery ELSE delivery[d]]
  /\ ReadClock(r)
  /\ Goto(r, "purgeParents")
  /\ UNCHANGED <<now, parent, process, todo, adding, chosen, batch, fresh, started, aux>>

(* Mutant: the DELETE of the parents does not look at their deliveries.    *)
PurgeParentsUnguarded(r) ==
  /\ pc[r] = "purgeParents"
  /\ chosen' = [chosen EXCEPT ![r] =
       {e \in Events : /\ parent[e].status = "dispatched"
                       /\ Older(parent[e].created, Retention, at[r])}]
  /\ DropClock(r)
  /\ Goto(r, "parentsWrite")
  /\ UNCHANGED <<now, table, process, todo, adding, batch, fresh, started, aux>>

(* Then the parents, by the same guard: its snapshot does not show the     *)
(* deliveries of an expansion that has still to commit.                    *)
PurgeParentsRead(r) ==
  /\ pc[r] = "purgeParents"
  /\ chosen' = [chosen EXCEPT ![r] = {e \in Events : Expired(e, at[r])}]
  /\ DropClock(r)
  /\ Goto(r, "parentsWrite")
  /\ UNCHANGED <<now, table, process, todo, adding, batch, fresh, started, aux>>

PurgeParentsWrite(r) ==
  /\ pc[r] = "parentsWrite"
  /\ parent' = [e \in Events |->
       IF e \in chosen[r] /\ parent[e].status = "dispatched" THEN Purged ELSE parent[e]]
  /\ chosen' = [chosen EXCEPT ![r] = {}]
  /\ Goto(r, "sweep")
  /\ UNCHANGED <<now, delivery, process, at, todo, adding, batch, fresh, started, aux>>

-----------------------------------------------------------------------------
(* pump, phase 2: claim a batch and settle its deliveries one by one.      *)

(* Mutant: a spent budget alone is enough, the lease may still run.        *)
ExhaustedInFlight(d) ==
  /\ Pending(d)
  /\ delivery[d].attempts >= MaxAttempts
  /\ delivery[d].until # 0

(* deadLetterExpiredExhaustedClaims                                        *)
Exhausted(d) ==
  /\ Pending(d)
  /\ delivery[d].attempts >= MaxAttempts
  /\ delivery[d].until # 0 /\ delivery[d].until <= now

(* Mutant: the claim goes straight to the SELECT.                          *)
SweepNothing(r) ==
  /\ pc[r] = "sweep"
  /\ Goto(r, "claim")
  /\ UNCHANGED <<now, table, process, memory, aux>>

SweepExhausted(r) ==
  /\ pc[r] = "sweep"
  /\ delivery' = [d \in Deliveries |->
       IF Exhausted(d)
         THEN [delivery[d] EXCEPT !.status = "dead", !.until = 0, !.next = 0]
         ELSE delivery[d]]
  /\ Goto(r, "claim")
  /\ UNCHANGED <<now, parent, process, memory, aux>>

(* The claim joins the parent; its status is not asked for.                *)
Claimable(d) ==
  /\ Pending(d) /\ parent[d[1]].status \in {"pending", "dispatched"}
  /\ delivery[d].until <= now
  /\ delivery[d].attempts < MaxAttempts \/ delivery[d].until = 0
  /\ delivery[d].next <= now

ClaimsOf(ds) ==
  {[row |-> d, attempts |-> delivery[d].attempts + 1, until |-> now + Lease] : d \in ds}

(* The order of the batch: by the age of the parents.                      *)
InOrder(cs) ==
  {s \in [1 .. Cardinality(cs) -> cs] :
     /\ IsInjective(s)
     /\ \A i, j \in DOMAIN s : i < j =>
          parent[s[i].row[1]].created <= parent[s[j].row[1]].created}

TakeLease(ds) ==
  delivery' = [d \in Deliveries |->
    IF d \in ds
      THEN [delivery[d] EXCEPT !.attempts = @ + 1, !.until = now + Lease]
      ELSE delivery[d]]

ToClaim ==
  LET created == [d \in Deliveries |-> parent[d[1]].created]
  IN  Oldest({d \in Deliveries : Claimable(d)}, created, BatchSize)

ClaimDeliveries(r) ==
  /\ pc[r] = "claim"
  /\ \E ds \in ToClaim :
       /\ TakeLease(ds)
       /\ \E s \in InOrder(ClaimsOf(ds)) : batch' = [batch EXCEPT ![r] = s]
       /\ Goto(r, IF ds = {} THEN "idle" ELSE "batch")
  /\ fresh' = [fresh EXCEPT ![r] = TRUE]
  /\ UNCHANGED <<now, parent, process, at, todo, adding, chosen, started, aux>>

(* The end of the lease leaves no room for a handler and its settle.       *)
OutOfLease(r) == now + HandlerTimeout + SettleTimeout > Current(r).until

(* Mutant: the batch is run to its end, however long it takes.             *)
HandsBackAtShutdown(r) == cancelled[r]

HandsBack(r) ==
  \/ cancelled[r]
  \/ ~fresh[r] /\ OutOfLease(r)

HandOn(r) ==
  /\ batch' = [batch EXCEPT ![r] = Tail(@)]
  /\ Goto(r, IF Len(batch[r]) > 1 THEN "release" ELSE "idle")
  /\ fresh' = [fresh EXCEPT ![r] = FALSE]

(* releaseUnstarted, one row; the rest of the batch follows.  The mutant   *)
(* hands the row back as if it had never been tried.                       *)
ReleaseForgetting(r) ==
  /\ \/ pc[r] = "batch" /\ HandsBack(r)
     \/ pc[r] = "release"
  /\ LET c == Current(r)
     IN  delivery' =
           IF delivery[c.row].until = c.until
             THEN [delivery EXCEPT ![c.row].attempts = 0, ![c.row].until = 0]
             ELSE delivery
  /\ HandOn(r)
  /\ UNCHANGED <<now, parent, process, at, todo, adding, chosen, started, aux>>

ReleaseUnstarted(r) ==
  /\ \/ pc[r] = "batch" /\ HandsBack(r)
     \/ pc[r] = "release"
  /\ LET c == Current(r)
     IN  delivery' =
           IF delivery[c.row].until = c.until
             THEN [delivery EXCEPT ![c.row].attempts = @ - 1, ![c.row].until = 0]
             ELSE delivery
  /\ HandOn(r)
  /\ UNCHANGED <<now, parent, process, at, todo, adding, chosen, started, aux>>

HandlerHere(r) == Current(r).row[2] \in DeclaredFor(r, Current(r).row[1])

(* runHandler: the handler starts.                                         *)
Begin(r) ==
  /\ pc[r] = "batch" /\ ~HandsBack(r) /\ HandlerHere(r)
  /\ Goto(r, "running")
  /\ started' = [started EXCEPT ![r] = now]
  /\ UNCHANGED <<now, table, process, at, todo, adding, chosen, batch, fresh, aux>>

(* requeueNoHandler: abandon a delivery unhandled since it was created ... *)
AbandonUnhandled(r) ==
  LET c == Current(r)
      old == Fenced(c) /\ Older(delivery[c.row].created, HandlerGrace, now)
  IN  /\ pc[r] = "batch" /\ ~HandsBack(r) /\ ~HandlerHere(r)
      /\ IF old THEN Update(c, [delivery[c.row] EXCEPT !.status = "abandoned",
                                                       !.until = 0, !.next = 0])
                ELSE UNCHANGED delivery
      /\ Goto(r, IF old THEN "complete" ELSE "requeue")
      /\ ReadClock(r)
      /\ UNCHANGED <<now, parent, process, todo, adding, chosen, batch, fresh, started, aux>>

(* ... or put it back, its attempt refunded, for a replica that handles it.*)
RequeueUnhandled(r) ==
  LET c == Current(r)
      n == delivery[c.row].attempts
  IN  /\ pc[r] = "requeue"
      /\ Update(c, [delivery[c.row] EXCEPT
                      !.attempts = IF n > 0 THEN n - 1 ELSE 0,
                      !.next = at[r] + BackoffMax, !.until = 0])
      /\ DropClock(r)
      /\ Advance(r)
      /\ UNCHANGED <<now, parent, process, todo, adding, chosen, aux>>

(* The handler returns nil, or an error (a panic is one).                  *)
Return(r, outcome) ==
  /\ pc[r] = "running"
  /\ Goto(r, outcome)
  /\ UNCHANGED <<now, table, process, memory, aux>>

(* The relay stops waiting at the budget; the invocation is left alone.    *)
TimeOut(r) ==
  /\ pc[r] = "running" /\ started[r] + HandlerTimeout <= now
  /\ Goto(r, "failed")
  /\ UNCHANGED <<now, table, process, memory, aux>>

MarkDispatched(r) ==
  LET c == Current(r)
  IN  /\ pc[r] = "succeeded"
      /\ Update(c, [delivery[c.row] EXCEPT !.status = "dispatched",
                                           !.until = 0, !.next = 0])
      /\ Goto(r, "complete")
      /\ UNCHANGED <<now, parent, process, memory, aux>>

(* Mutant: one attempt more than the budget.                               *)
MarkFailureLate(r) ==
  LET c == Current(r)
  IN  /\ pc[r] = "failed"
      /\ Update(c, IF c.attempts > MaxAttempts
                     THEN [delivery[c.row] EXCEPT !.status = "dead",
                                                  !.until = 0, !.next = 0]
                     ELSE [delivery[c.row] EXCEPT
                             !.next = now + BackoffDelay(c.attempts), !.until = 0])
      /\ Goto(r, "complete")
      /\ UNCHANGED <<now, parent, process, memory, aux>>

(* The attempts counter belongs to the claim: dead or retried is decided   *)
(* from what the claim counted.                                            *)
MarkFailure(r) ==
  LET c == Current(r)
  IN  /\ pc[r] = "failed"
      /\ Update(c, IF c.attempts >= MaxAttempts
                     THEN [delivery[c.row] EXCEPT !.status = "dead",
                                                  !.until = 0, !.next = 0]
                     ELSE [delivery[c.row] EXCEPT
                             !.next = now + BackoffDelay(c.attempts), !.until = 0])
      /\ Goto(r, "complete")
      /\ UNCHANGED <<now, parent, process, memory, aux>>

-----------------------------------------------------------------------------
(* Processes come, go and fail.                                            *)

Reconciling == {"expand", "expandWrite", "orphansWrite", "backstop",
                "backstopWrite", "purge", "purgeParents", "parentsWrite",
                "sweep", "claim"}

Empty(r) ==
  /\ DropClock(r)
  /\ todo' = [todo EXCEPT ![r] = {}]
  /\ adding' = [adding EXCEPT ![r] = {}]
  /\ chosen' = [chosen EXCEPT ![r] = {}]
  /\ batch' = [batch EXCEPT ![r] = <<>>]
  /\ fresh' = [fresh EXCEPT ![r] = FALSE]
  /\ started' = [started EXCEPT ![r] = 0]

Fault == faults < MaxFaults /\ faults' = faults + 1

(* The relay's context ends.                                               *)
Cancel(r) ==
  /\ pc[r] # "down" /\ ~cancelled[r]
  /\ cancelled' = [cancelled EXCEPT ![r] = TRUE]
  /\ UNCHANGED <<now, table, release, pc, memory, aux>>

(* Between two pumps the loop looks at its context and at the stop channel,*)
(* which nothing else reads.                                               *)
Exit(r) ==
  /\ pc[r] = "idle"
  /\ Goto(r, "down")
  /\ UNCHANGED <<now, table, process, memory, aux>>

(* A process starts with the same release or with another one.             *)
Restart(r, v) ==
  /\ pc[r] = "down"
  /\ Goto(r, "idle")
  /\ release' = [release EXCEPT ![r] = v]
  /\ cancelled' = [cancelled EXCEPT ![r] = FALSE]
  /\ UNCHANGED <<now, table, memory, aux>>

Crash(r) ==
  /\ pc[r] # "down" /\ Fault
  /\ Goto(r, "down") /\ Empty(r)
  /\ UNCHANGED <<now, table, process, replays>>

(* A statement of phase 1 or the claim fails, or its context has ended:    *)
(* the pump is over.                                                       *)
PumpFails(r) ==
  /\ pc[r] \in Reconciling
  /\ \/ Fault
     \/ cancelled[r] /\ UNCHANGED faults
  /\ Goto(r, "idle") /\ Empty(r)
  /\ UNCHANGED <<now, table, process, replays>>

(* The claim commits and its answer is lost.                               *)
ClaimLost(r) ==
  /\ pc[r] = "claim" /\ Fault
  /\ \E ds \in ToClaim : ds # {} /\ TakeLease(ds)
  /\ Goto(r, "idle") /\ Empty(r)
  /\ UNCHANGED <<now, parent, process, replays>>

(* A settle fails, or its context has expired: it is logged, and the loop  *)
(* goes on.                                                                *)
SettleFails(r) ==
  /\ Fault
  /\ \/ /\ pc[r] \in {"succeeded", "failed"}
        /\ Goto(r, "complete")
        /\ UNCHANGED memory
     \/ /\ pc[r] = "batch" /\ ~HandsBack(r) /\ ~HandlerHere(r)
        /\ Goto(r, "requeue")
        /\ ReadClock(r)
        /\ UNCHANGED <<todo, adding, chosen, batch, fresh, started>>
     \/ /\ pc[r] \in {"requeue", "complete"}
        /\ DropClock(r)
        /\ Advance(r)
        /\ UNCHANGED <<todo, adding, chosen>>
     \/ /\ pc[r] = "release" \/ (pc[r] = "batch" /\ HandsBack(r))
        /\ HandOn(r)
        /\ UNCHANGED <<at, todo, adding, chosen, started>>
  /\ UNCHANGED <<now, table, process, replays>>

Tick ==
  /\ now < MaxTime
  /\ now' = now + 1
  /\ UNCHANGED <<table, process, pc, memory, aux>>

-----------------------------------------------------------------------------
Init ==
  /\ now = 1
  /\ parent = [e \in Events |-> NoParent]
  /\ delivery = [d \in Deliveries |-> NoDelivery]
  /\ release \in [Relays -> Releases]
  /\ cancelled = [r \in Relays |-> FALSE]
  /\ at = [r \in Relays |-> 0]
  /\ pc = [r \in Relays |-> "down"]
  /\ todo = [r \in Relays |-> {}]
  /\ adding = [r \in Relays |-> {}]
  /\ chosen = [r \in Relays |-> {}]
  /\ batch = [r \in Relays |-> <<>>]
  /\ fresh = [r \in Relays |-> FALSE]
  /\ started = [r \in Relays |-> 0]
  /\ faults = 0 /\ replays = 0

(* relayLoop and pump                                                      *)
RelayStep(r) ==
  \/ Pump(r) \/ DropOrphans(r) \/ CompleteRead(r) \/ CompleteWrite(r)
  \/ ExpandWrite(r) \/ \E pair \in todo[r] : ExpandRead(r, pair)
  \/ PurgeDeliveries(r) \/ PurgeParentsRead(r) \/ PurgeParentsWrite(r)
  \/ SweepExhausted(r) \/ ClaimDeliveries(r)
  \/ ReleaseUnstarted(r) \/ Begin(r) \/ TimeOut(r)
  \/ \E outcome \in {"succeeded", "failed"} : Return(r, outcome)
  \/ MarkDispatched(r) \/ MarkFailure(r)
  \/ AbandonUnhandled(r) \/ RequeueUnhandled(r)

ProcessStep(r) ==
  \/ Exit(r) \/ Crash(r) \/ PumpFails(r) \/ ClaimLost(r) \/ SettleFails(r)
  \/ Cancel(r)
  \/ \E v \in Releases : Restart(r, v)

Next ==
  \/ \E r \in Relays : RelayStep(r) \/ ProcessStep(r)
  \/ \E e \in Events : AppendFor(e) \/ \E ns \in SUBSET Names : Replay(e, ns)
  \/ Tick

Spec == Init /\ [][Next]_vars

-----------------------------------------------------------------------------
(* Properties.                                                             *)

Times == 0 .. MaxTime + MaxDuration

Claim == [row : Deliveries, attempts : 1 .. MaxAttempts, until : Times]

(* Types of the rows and of a relay's memory: a claim in a relay's batch   *)
(* counts at least one and at most MaxAttempts attempts.                   *)
OutboxTypeOK ==
  /\ now \in Times
  /\ parent \in [Events -> [status : {"absent", "pending", "dispatched", "purged"},
                            created : Times]]
  /\ delivery \in [Deliveries ->
       [status : {"none", "pending", "dispatched", "dead", "abandoned"},
        attempts : 0 .. MaxAttempts, created : Times, next : Nat, until : Times]]
  /\ release \in [Relays -> Releases]
  /\ cancelled \in [Relays -> BOOLEAN]
  /\ at \in [Relays -> Times]
  /\ \A r \in Relays : /\ todo[r] \subseteq Declared(r)
                       /\ adding[r] \subseteq Deliveries
                       /\ chosen[r] \subseteq Events
                       /\ batch[r] \in Seq(Claim)
  /\ fresh \in [Relays -> BOOLEAN]
  /\ started \in [Relays -> Times]

(* r has a claim on d that the row still carries.                          *)
Holds(r, d) ==
  \E i \in DOMAIN batch[r] : batch[r][i].row = d /\ Fenced(batch[r][i])

(* Until its lease runs out a claim ends only by a statement of the relay  *)
(* that took it: no other relay's settle, release, sweep, expansion or     *)
(* purge, and no replay, touches a delivery someone holds.                 *)
ClaimProtected ==
  [][\A d \in Deliveries :
       Pending(d) /\ delivery[d].until > now /\ delivery'[d] # delivery[d] =>
         \E r \in Relays : Holds(r, d) /\ (pc'[r] # pc[r] \/ batch'[r] # batch[r])]_vars

(* The batch shares one lease, yet a handler that is inside its budget,    *)
(* with its settle, never loses its row to another relay or to the budget  *)
(* sweep: pump starts no delivery it has not the lease to finish.  (The    *)
(* first of a batch always runs: it counts when it started in time.)       *)
RunningKeepsRow ==
  \A r \in Relays :
    /\ pc[r] \in {"running", "succeeded", "failed"}
    /\ now < started[r] + HandlerTimeout + SettleTimeout
    /\ fresh[r] => started[r] + HandlerTimeout + SettleTimeout <= Current(r).until
    => Fenced(Current(r))

(* A delivered row stays delivered and a dead or abandoned one comes back  *)
(* only through Replay, whatever a relay that overran its lease still      *)
(* writes.                                                                 *)
SettledStays ==
  [][\A d \in Deliveries : delivery'[d] # delivery[d] =>
       /\ delivery[d].status = "dispatched" => delivery'[d] = NoDelivery
       /\ delivery[d].status \in {"dead", "abandoned"} => replays' # replays]_vars

PastRetention(e) == Retention > 0 /\ Older(parent[e].created, Retention, now)

(* A consumer that every release declares has a delivery of each completed *)
(* event, although expansion is batch-limited and completion may come from *)
(* any relay.                                                              *)
NoConsumerSkipped ==
  \A e \in Events : parent[e].status = "dispatched" =>
    \A n \in Names : (\A v \in Releases : <<TypeOf[e], n>> \in Declares[v]) =>
      Present(<<e, n>>) \/ PastRetention(e)

Undelivered == {"pending", "dead", "abandoned"}

(* A delivery that is not delivered yet is never lost: neither retention   *)
(* nor any other statement deletes it, although a parent may be completed  *)
(* over a delivery that a concurrent Replay resets, or that an expansion   *)
(* still adds.                                                             *)
UndeliveredKept ==
  [][\A d \in Deliveries :
       delivery[d].status \in Undelivered => delivery'[d].status # "none"]_vars
=============================================================================
