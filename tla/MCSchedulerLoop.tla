-------------------------- MODULE MCSchedulerLoop --------------------------
(***************************************************************************)
(* Small instances of SchedulerLoop.                                       *)
(***************************************************************************)
EXTENDS SchedulerLoop, TLC

EveryTwo == {[cron |-> FALSE, period |-> 2, offset |-> 0, user |-> "none"]}
OwnOwner == [r \in Replicas |-> r]
InStep == [r \in Replicas |-> 0]
Interchangeable == Permutations(Replicas)
=============================================================================
