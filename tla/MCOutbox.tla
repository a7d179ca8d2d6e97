------------------------------ MODULE MCOutbox ------------------------------
(***************************************************************************)
(* Small instances of Outbox, observed.                                    *)
(***************************************************************************)
EXTENDS OutboxRuns, TLC

CONSTANTS BackoffBase

Policy == INSTANCE Backoff

MCBackoffDelay(n) == Policy!Exponential(BackoffBase, BackoffMax, n)

OneType == [e \in Events |-> "t"]

(* One release, which consumes every event under every name.               *)
AllConsume == 1 :> {"t"} \X Names

(* Relays stall for as long as they like while they hold claims, and are   *)
(* shut down there; one at a time runs the statements up to its claim, and *)
(* they take no time.  The clock starts with the first delivery; a relay   *)
(* that stops after that stays down.                                       *)
Busy == {r \in Relays : pc[r] \in Reconciling}

StallNext ==
  \/ \E r \in Relays : /\ pc[r] = "idle" => Busy = {}
                       /\ pc[r] = "down" => now = 1
                       /\ RelayStep(r) \/ ProcessStep(r)
                       /\ cancelled'[r] /\ ~cancelled[r] => batch[r] # <<>>
  \/ \E e \in Events : AppendFor(e) \/ \E ns \in SUBSET Names : Replay(e, ns)
  \/ Busy = {} /\ (\E d \in Deliveries : Present(d)) /\ Tick

StallSpec == RunsInit /\ [][StallNext /\ Count]_runsVars

(* A release with the consumer of the type beside one without.             *)
OneConsumes == 1 :> {} @@ 2 :> {"t"} \X Names

Interchangeable == Permutations(Relays) \cup Permutations(Names)
=============================================================================
