--------------------------- MODULE MCIdempotency ---------------------------
(***************************************************************************)
(* Small instances of Idempotency: requests, keys and fingerprints are     *)
(* numbers.                                                                *)
(***************************************************************************)
EXTENDS Idempotency

Arrived == {r \in Requests : req[r].pc # "idle"}

(* Requests, keys and fingerprints are interchangeable, so it is enough    *)
(* that each arrives, or is used for the first time, in order.             *)
NextOf(used, all) == {i \in all : i <= Cardinality(used) + 1}
KeysUsed == {req[r].key : r \in Arrived}
FpsUsed == {req[r].fp : r \in Arrived}

NextRequest == Cardinality(Arrived) + 1
OneKey == Cardinality(KeysUsed) <= 1

(* With the SQL store, where keys do not interact: three requests of one   *)
(* key, the second served by a process of its own.                         *)
ArriveSQL(r) ==
  /\ backend = "sql" /\ r = NextRequest /\ r <= 3
  /\ \E f \in NextOf(FpsUsed, Fps) : Arrive(r, IF r = 2 THEN "q" ELSE "p", 1, f)

(* With the memory store: three requests of one key, or four of three keys *)
(* at the times 0 and 1, with no fault, the last a retry of the first.     *)
ArriveMemory(r) ==
  /\ backend = "memory" /\ r = NextRequest
  /\ \E k \in NextOf(KeysUsed, Keys), f \in NextOf(FpsUsed, Fps) :
       /\ k > 1 => FpsUsed = {1} /\ f = 1 /\ faults = 0 /\ now <= 1
       /\ f > 1 => KeysUsed = {1}
       /\ r = 4 => KeysUsed = {1, 2, 3} /\ k = 1
       /\ \E p \in Processes : Arrive(r, p, k, f)

FewNext ==
  \/ \E r \in Requests : ArriveSQL(r)
  \/ \E r \in Requests : ArriveMemory(r)
  \/ \E r \in Requests : Step(r)
  \/ \E r \in Requests : OneKey /\ Overrun(r)
  \/ \E p \in Processes : OneKey /\ Crash(p)
  \/ \E k \in Keys : Erase(k)
  \/ (OneKey \/ now = 0) /\ Tick

FewSpec == Init /\ [][FewNext]_vars

-----------------------------------------------------------------------------
(* A flood of the memory store: each request has a key of its own, and the *)
(* first one alone is answered.                                            *)
FloodNext ==
  \/ \E r \in Requests, p \in Processes :
       /\ r = Cardinality(Arrived) + 1
       /\ \A q \in Arrived : req[q].pc # "begin"
       /\ Arrive(r, p, r, 1)
  \/ \E r \in Requests : MemoryBegin(r)
  \/ Handle(1) \/ MemoryFinish(1)

FloodSpec == Init /\ [][FloodNext]_vars

(* evictLocked: "claims are only shed when EVERY entry is in-flight".      *)
ClaimsShedLast ==
  [][backend = "memory" /\ exposed' # exposed
       => \A k \in Resident : InFlight(k)]_vars
=============================================================================
