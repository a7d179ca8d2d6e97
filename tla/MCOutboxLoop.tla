---------------------------- MODULE MCOutboxLoop ----------------------------
(***************************************************************************)
(* Small instances of OutboxLoop.                                          *)
(***************************************************************************)
EXTENDS OutboxLoop, TLC

CONSTANTS
  BackoffBase,
  LastReplay   \* bound: operators replay until then

Policy == INSTANCE Backoff

MCBackoffDelay(n) == Policy!Exponential(BackoffBase, BackoffMax, n)

(* The deploy adds the first consumer of a type nobody consumed.           *)
OneType == [e \in Events |-> "t"]
Adds == 1 :> {} @@ 2 :> {<<"t", "new">>}

ReplayEarly(e, ns) == now <= LastReplay /\ OperatorReplays(e, ns)

EarlyNext ==
  LoopStep \/ \E e \in Events, ns \in SUBSET Names : ReplayEarly(e, ns)

EarlySpec == LoopInit /\ [][EarlyNext]_loopVars

Interchangeable == Permutations(Relays)
=============================================================================
