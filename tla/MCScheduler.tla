---------------------------- MODULE MCScheduler ----------------------------
(***************************************************************************)
(* Small instances of DurableScheduler.                                    *)
(***************************************************************************)
EXTENDS DurableScheduler, TLC

Every(n, u) == [cron |-> FALSE, period |-> n, offset |-> 0, user |-> u]
Cron(n, k, u) == [cron |-> TRUE, period |-> n, offset |-> k, user |-> u]

(* Two cadences, of a user's schedule and of one that names nobody.        *)
TwoCadences == {Every(3, "u"), Cron(2, 1, "none")}
OneCadence == {Every(1, "none")}
(* A user's schedule, and the same cadence for nobody.                     *)
UserCadences == {Every(1, "u"), Every(1, "none")}

(* Owner IDs of their own, or one that every replica was configured with.  *)
OwnOwner == [r \in Replicas |-> r]
SharedOwner == [r \in Replicas |-> "host"]

InStep == [r \in Replicas |-> 0]
SecondAhead == "r1" :> 0 @@ "r2" :> 1

Interchangeable == Permutations(Replicas)
=============================================================================
