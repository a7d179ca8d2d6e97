----------------------------- MODULE OutboxRuns -----------------------------
(***************************************************************************)
(* An observer of Outbox that counts the handler starts of each delivery,  *)
(* and notes the events to which an expansion added a delivery late: after *)
(* the event was completed or dropped.                                     *)
(***************************************************************************)
EXTENDS Outbox

VARIABLES runs, late

Started(d) ==
  \E r \in Relays : /\ pc[r] = "batch" /\ pc'[r] = "running"
                   /\ Current(r).row = d

Added(d) == ~Present(d) /\ delivery'[d].status # "none"

Count ==
  /\ runs' = [d \in Deliveries |-> IF Started(d) THEN runs[d] + 1 ELSE runs[d]]
  /\ late' = late \cup {e \in Events : /\ parent[e].status # "pending"
                                       /\ \E n \in Names : Added(<<e, n>>)}

RunsInit == Init /\ runs = [d \in Deliveries |-> 0] /\ late = {}

runsVars == <<vars, runs, late>>

RunsSpec == RunsInit /\ [][Next /\ Count]_runsVars

(* A delivery and each replay of it buy MaxAttempts handler starts,        *)
(* although no-handler requeues and hand-backs refund attempts, and a      *)
(* relay may overrun its lease or die between claim and settle.  (A late   *)
(* expansion may make a delivery a second time once retention deleted it.) *)
RunsWithinBudget ==
  \A d \in Deliveries : d[1] \notin late => runs[d] <= MaxAttempts * (1 + replays)

(* Retention deletes the event of an undelivered delivery only where an    *)
(* expansion added it late.  A parent completed over a delivery that       *)
(* Replay reset stays for that delivery, whichever relay completes it and  *)
(* wherever another one's purge has got to.                                *)
EventKept ==
  \A d \in Deliveries :
    delivery[d].status \in Undelivered /\ d[1] \notin late =>
      parent[d[1]].status \in {"pending", "dispatched"}
=============================================================================
