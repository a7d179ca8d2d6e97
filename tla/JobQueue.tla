------------------------------ MODULE JobQueue ------------------------------
(***************************************************************************)
(* What every queue backend of battery/queue promises its callers, read    *)
(* off the Queue and Replayable interfaces: where a job may be and which   *)
(* moves exist.  A job the queue accepted stays live (pending or claimed)  *)
(* until one claimant completes it, it is dead-lettered, or its user is    *)
(* erased; a dead-lettered job comes back only by Replay; no two live jobs *)
(* of one type share a unique key.                                         *)
(*                                                                         *)
(* Backends differ in leases, tokens, attempts and storage; none of that   *)
(* is visible here.                                                        *)
(***************************************************************************)
CONSTANTS Jobs,       \* job IDs
          JobType,    \* Job.Type of each
          JobKey,     \* Job.UniqueKey of each, NoKey when unset
          NoKey,
          JobUser,    \* Job.UserID of each, NoUser when unset
          NoUser,
          Users

VARIABLE phase

Phases == {"absent", "pending", "claimed", "failed", "done"}

Live(j) == phase[j] \in {"pending", "claimed"}

(* j and k are distinct jobs that may not be live together.                *)
Rivals(j, k) ==
  /\ j # k
  /\ JobKey[j] # NoKey
  /\ JobKey[j] = JobKey[k]
  /\ JobType[j] = JobType[k]

KeyFree(j) == \A k \in Jobs : Rivals(j, k) => ~Live(k)

Init == phase = [j \in Jobs |-> "absent"]

Enqueue(j) ==
  /\ phase[j] = "absent"
  /\ KeyFree(j)
  /\ phase' = [phase EXCEPT ![j] = "pending"]

Dequeue(j) ==
  /\ phase[j] = "pending"
  /\ phase' = [phase EXCEPT ![j] = "claimed"]

(* A completed job is removed, or kept for a while as done.                *)
Ack(j) ==
  /\ phase[j] = "claimed"
  /\ \E p \in {"done", "absent"} : phase' = [phase EXCEPT ![j] = p]

(* The claim failed: retry or dead-letter.                                 *)
Nack(j) ==
  /\ phase[j] = "claimed"
  /\ \E p \in {"pending", "failed"} : phase' = [phase EXCEPT ![j] = p]

Replay(j) ==
  /\ phase[j] = "failed"
  /\ KeyFree(j)
  /\ phase' = [phase EXCEPT ![j] = "pending"]

(* Done records expire, any number of them at once.                        *)
Expire ==
  \E S \in SUBSET {j \in Jobs : phase[j] = "done"} :
    phase' = [j \in Jobs |-> IF j \in S THEN "absent" ELSE phase[j]]

(* Every job about the user goes, whatever its phase, in one step.         *)
EraseUser(u) ==
  phase' = [j \in Jobs |-> IF JobUser[j] = u THEN "absent" ELSE phase[j]]

Next ==
  \/ \E j \in Jobs : Enqueue(j) \/ Dequeue(j) \/ Ack(j) \/ Nack(j) \/ Replay(j)
  \/ Expire
  \/ \E u \in Users : EraseUser(u)

Spec == Init /\ [][Next]_phase
=============================================================================
