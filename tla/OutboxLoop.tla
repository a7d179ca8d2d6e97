----------------------------- MODULE OutboxLoop -----------------------------
(***************************************************************************)
(* relayLoop: when each relay pumps, and what that is worth while a new    *)
(* release is rolled out.  A relay that claimed something pumps again at   *)
(* once; otherwise it waits for its ticker or for a nudge from a commit of *)
(* its own process.                                                        *)
(*                                                                         *)
(* Here statements take no time and handlers at most their budget: the     *)
(* clock moves only when every running relay waits or runs a handler.  It  *)
(* stops, too, where the deployment would break what WithHandlerGrace asks *)
(* of it: the replicas of the old release are gone before the grace ends.  *)
(***************************************************************************)
EXTENDS Outbox

CONSTANTS
  PollInterval,
  Overlap       \* how long two releases run side by side

ASSUME LoopAssumption ==
  /\ Releases \subseteq Nat
  /\ PollInterval \in Nat \ {0}
  /\ Overlap \in Nat /\ Overlap < HandlerGrace

VARIABLES
  wakeAt,    \* when the ticker fires next
  nudged,    \* the buffered nudge
  upSince,   \* auxiliary: when the first relay came up, 0 before
  rollout    \* auxiliary: when the first relay of the newest release came up

loop == <<wakeAt, nudged, upSince, rollout>>
loopVars == <<vars, loop>>

Newest == CHOOSE v \in Releases : \A w \in Releases : w <= v

(* The deploy is that of one release: what the newest consumes, all of the *)
(* others consume or none of them does.                                    *)
ASSUME RolloutAssumption ==
  /\ \E v \in Releases : \A w \in Releases : w <= v
  /\ \A c \in Declares[Newest] :
       \/ \A v \in Releases : c \in Declares[v]
       \/ \A v \in Releases \ {Newest} : c \notin Declares[v]

Up == {r \in Relays : pc[r] # "down"}

(* Phase 1 of a pump is short: two relays are not in it at once.           *)
Busy == {r \in Relays : pc[r] \in Reconciling}

Wake(r) ==
  /\ Busy = {} /\ Pump(r)
  /\ \/ wakeAt[r] <= now /\ UNCHANGED nudged
     \/ nudged[r] /\ nudged' = [nudged EXCEPT ![r] = FALSE]
  /\ UNCHANGED <<wakeAt, upSince, rollout>>

(* A pump that claimed nothing, or failed, waits for the ticker; after a   *)
(* batch the next one starts at once.                                      *)
WorkOn(r) ==
  /\ pc[r] # "idle"
  /\ RelayStep(r) \/ PumpFails(r) \/ ClaimLost(r) \/ SettleFails(r)
  /\ \/ pc'[r] # "idle" /\ UNCHANGED wakeAt
     \/ /\ pc'[r] = "idle" /\ pc[r] \in Reconciling
        /\ \E wait \in 1 .. PollInterval : wakeAt' = [wakeAt EXCEPT ![r] = now + wait]
     \/ /\ pc'[r] = "idle" /\ pc[r] \notin Reconciling
        /\ wakeAt' = [wakeAt EXCEPT ![r] = now]
  /\ UNCHANGED <<nudged, upSince, rollout>>

(* The process that staged the event nudges its relay after the commit.    *)
StageAndNudge(e, r) ==
  /\ AppendFor(e)
  /\ nudged' = [nudged EXCEPT ![r] = pc[r] # "down"]
  /\ UNCHANGED <<wakeAt, upSince, rollout>>

StartRelay(r, v) ==
  /\ Restart(r, v)
  /\ v >= release[r]
  /\ v = Newest \/ rollout = 0 \/ now <= rollout + Overlap
  /\ wakeAt' = [wakeAt EXCEPT ![r] = now]
  /\ nudged' = [nudged EXCEPT ![r] = FALSE]
  /\ upSince' = IF upSince = 0 THEN now ELSE upSince
  /\ rollout' = IF rollout = 0 /\ v = Newest THEN now ELSE rollout

(* The deployment ends a process of the old release.                       *)
Replaced(r) ==
  /\ release[r] # Newest
  /\ Exit(r) \/ Cancel(r)
  /\ UNCHANGED loop

Waiting(r) ==
  \/ pc[r] = "down"
  \/ pc[r] = "idle" /\ ~cancelled[r] /\ ~nudged[r] /\ wakeAt[r] > now
  \/ pc[r] = "running" /\ now < started[r] + HandlerTimeout

(* Once up, the service stays up, and the deployment ends in time.         *)
Served ==
  /\ upSince = 0 \/ Up # {}
  /\ rollout # 0 /\ now >= rollout + Overlap =>
       \A r \in Up : release[r] = Newest

(* Nothing happens before the first release or the first event.            *)
Started == rollout # 0 \/ \E e \in Events : parent[e].status # "absent"

LoopInit ==
  /\ Init
  /\ \A r \in Relays : \A v \in Releases : release[r] <= v
  /\ wakeAt = [r \in Relays |-> 0]
  /\ nudged = [r \in Relays |-> FALSE]
  /\ upSince = 0 /\ rollout = 0

LoopStep ==
  \/ \E r \in Relays :
       \/ Wake(r) \/ WorkOn(r)
       \/ Replaced(r)
       \/ Crash(r) /\ UNCHANGED loop
       \/ \E v \in Releases : StartRelay(r, v)
       \/ \E e \in Events : StageAndNudge(e, r)
  \/ (\A r \in Relays : Waiting(r)) /\ Served /\ Started /\ Tick /\ UNCHANGED loop

(* An operator replays; no pump is nudged.                                 *)
OperatorReplays(e, ns) == Replay(e, ns) /\ UNCHANGED loop

LoopNext ==
  \/ LoopStep
  \/ \E e \in Events, ns \in SUBSET Names : OperatorReplays(e, ns)

LoopSpec == LoopInit /\ [][LoopNext]_loopVars

-----------------------------------------------------------------------------
(* A consumer that the new release adds misses no event staged once a      *)
(* replica of that release is up, and loses no delivery to a replica that  *)
(* does not know it yet: neither completion nor abandonment gets ahead of  *)
(* the rollout while the overlap is shorter than the grace.                *)
RolloutLosesNothing ==
  rollout # 0 =>
    \A e \in Events, n \in Names : <<TypeOf[e], n>> \in Declares[Newest] =>
      /\ delivery[<<e, n>>].status # "abandoned"
      /\ parent[e].status = "dispatched" /\ parent[e].created >= rollout =>
           Present(<<e, n>>) \/ PastRetention(e)

(* What the last change of an event's rows, and the end of an outage, are  *)
(* counted from.                                                           *)
Origin(e) ==
  LET times == {upSince, parent[e].created} \cup {delivery[d].created : d \in DeliveriesOf(e)}
  IN  CHOOSE t \in times : \A u \in times : u <= t

Unsettled(e) ==
  parent[e].status = "pending" \/ \E d \in DeliveriesOf(e) : Pending(d)

(* Every attempt and the backoff before the next, for each fault a lease   *)
(* that has to run out instead of the handler, and the polls that notice:  *)
(* the new row, a due retry, a lapsed lease and, since the sweep comes     *)
(* after the backstop, the dead delivery.  Or the grace, when it is longer.*)
SettleBound ==
  LET retries == MaxAttempts * HandlerTimeout
                   + (MaxAttempts - 1) * (BackoffMax + PollInterval - 1)
      lost == MaxFaults * (Lease - HandlerTimeout + PollInterval - 1)
      work == retries + lost + 2 * PollInterval
      grace == HandlerGrace + PollInterval - 1
  IN  IF work > grace THEN work ELSE grace

(* While the service is up, an event is settled within a bound: each of    *)
(* its deliveries is delivered, dead or abandoned, and the event itself    *)
(* completed, although a claim may be lost, an old replica may requeue a   *)
(* delivery it cannot handle, and only a pump can notice any of it.        *)
SettledInTime ==
  \A e \in Events : upSince # 0 /\ Unsettled(e) => now <= Origin(e) + SettleBound
=============================================================================
