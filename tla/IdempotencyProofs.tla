------------------------- MODULE IdempotencyProofs -------------------------
(***************************************************************************)
(* Theorems about Idempotency, for both stores, any number of requests,    *)
(* keys, fingerprints and processes, any TTLs and any number of faults.    *)
(***************************************************************************)
EXTENDS Idempotency, TLAPS

Beginning == {"begin", "reap", "insert", "read", "clear", "again"}
PCs == Beginning \cup {"idle", "run", "finish", "unkeyed", "done", "dead"}
Results ==
  {"none", "mismatch", "conflict", "replay", "kept", "large", "released",
   "unkeyed", "down"}

Request ==
  [pc : PCs, proc : Processes \cup {NoProcess}, key : Keys \cup {NoKey},
   fp : Fps \cup {NoFp}, at : Nat, claimed : Nat \cup {Never}, slow : BOOLEAN,
   result : Results, from : Requests \cup {NoRequest}, end : Nat]

TypesOK ==
  /\ now \in 0 .. MaxTime /\ backend \in Backends /\ faults \in 0 .. MaxFaults
  /\ entry \in [Keys -> Entry \cup {NoEntry}]
  /\ lastReap \in [Processes -> Int]
  /\ exposed \subseteq Keys /\ forgotten \subseteq Keys
  /\ req \in [Requests -> Request]

MemoryProcess == CHOOSE q \in Processes : TRUE

(* Time has not run past the latency of a request in progress, unless it   *)
(* overran.                                                                *)
InProgress ==
  \A r \in Requests : Active(r) =>
    /\ backend = "memory" => req[r].proc = MemoryProcess
    /\ req[r].at <= now
    /\ req[r].slow \/ now <= req[r].at + MaxLatency

(* A request names its key.  A claim is taken once, when Begin returns; an *)
(* answer is final.                                                        *)
History ==
  \A r \in Requests :
    /\ req[r].pc # "idle" => req[r].key \in Keys /\ req[r].fp \in Fps
    /\ req[r].pc \in Beginning \cup {"idle"} => req[r].claimed = Never
    /\ Running(r) => req[r].claimed \in 0 .. now
    /\ req[r].pc = "idle" => ~req[r].slow
    /\ req[r].pc \in Beginning \cup {"idle", "run"} => req[r].result = "none"
    /\ req[r].end <= now
    /\ req[r].result \in {"replay", "conflict"} => req[r].pc = "done"

Basics == TypesOK /\ InProgress /\ History

Clean(k) == k \notin exposed /\ ~Slow(k)

(* The execution under a claim that nothing took away owns the row, which  *)
(* is in flight with the expiry it wrote.                                  *)
ClaimHeld ==
  \A r \in Requests : Running(r) /\ Clean(req[r].key) =>
    LET e == entry[req[r].key]
    IN  /\ e.fp = req[r].fp /\ e.resp = NoRequest
        /\ e.expires = req[r].at + InFlightTTL

(* A kept response is that of a request of its key and fingerprint, and    *)
(* expires TTL after that request was answered.                            *)
ResponseOwned ==
  \A k \in Keys : entry[k].resp # NoRequest =>
    LET a == req[entry[k].resp]
    IN  /\ entry[k].resp \in Requests
        /\ a.pc = "done" /\ a.key = k /\ a.fp = entry[k].fp
        /\ entry[k].expires = a.end + TTL

(* A replay names a request that is answered.                              *)
ReplaySettled ==
  \A r \in Requests : req[r].result = "replay" =>
    req[r].from \in Requests /\ req[req[r].from].pc = "done"

(* A row in flight was written by a request that claimed its key.          *)
ClaimWritten ==
  \A k \in Keys : entry[k] # NoEntry /\ InFlight(k) =>
    \E q \in Requests : /\ req[q].key = k /\ req[q].claimed # Never
                        /\ entry[k].expires = req[q].at + InFlightTTL

(* Another request claimed the key of r recently enough.                   *)
Rival(r) ==
  \E q \in Requests \ {r} :
    /\ req[q].key = req[r].key /\ req[q].claimed # Never
    /\ req[r].at < req[q].at + InFlightTTL \/ req[q].slow

(* A row that r finds after it saw a stale one is a rival's.               *)
StaleReplaced ==
  \A r \in Requests :
    /\ req[r].pc \in {"clear", "again"}
    /\ entry[req[r].key] # NoEntry
    /\ req[r].pc = "again" \/ Live(req[r].key, req[r].at)
    => Rival(r)

(* a was answered with a response to keep, and nothing lost it.            *)
Keeps(a) ==
  /\ req[a].pc = "done" /\ req[a].result = "kept"
  /\ Clean(req[a].key) /\ req[a].key \notin forgotten

(* Such a response is in the store until it expires ...                    *)
KeptLasts ==
  \A a \in Requests : Keeps(a) =>
    entry[req[a].key].resp = a \/ now >= req[a].end + TTL

(* ... and an execution of the key under way began after that.             *)
KeptFirst ==
  \A a, b \in Requests :
    /\ a # b /\ req[a].key = req[b].key
    /\ Keeps(a) /\ Running(b)
    => req[b].claimed >= req[a].end + TTL

IInv ==
  /\ Basics /\ ClaimHeld /\ OneAtATime /\ ResponseOwned /\ ReplaySettled /\ ReplayIsOwn
  /\ ClaimWritten /\ StaleReplaced /\ LockedBriefly
  /\ KeptLasts /\ KeptFirst /\ AtMostOnce

-----------------------------------------------------------------------------
(* What the proofs use of the constants.                                   *)
LEMMA Constants ==
  /\ TTL \in Nat /\ TTL > 0 /\ InFlightTTL \in Nat
  /\ ReapPeriod \in Nat /\ MaxLatency \in Nat /\ MaxLatency < InFlightTTL
  /\ MaxTime \in Nat /\ MaxFaults \in Nat
  /\ FailOpen \subseteq Processes /\ MemoryProcess \in Processes
  /\ NoFp \notin Fps /\ NoRequest \notin Requests /\ NoKey \notin Keys
BY IdempotencyAssumption DEF MemoryProcess

(* The empty store and the idle requests.                                  *)
LEMMA InitKeeps == Init => IInv
BY IdempotencyAssumption DEF Init, IInv, Basics, TypesOK, InProgress, History,
   ClaimHeld, OneAtATime, ResponseOwned, ReplaySettled, ReplayIsOwn,
   ClaimWritten, StaleReplaced, LockedBriefly, KeptLasts, KeptFirst, AtMostOnce,
   Active, Running, Idle, Request, PCs, Results, Beginning, NoEntry, Keeps, InFlight, Never

(* A request arrives with its key and its fingerprint.                     *)
LEMMA ArriveTypes ==
  ASSUME Basics, NEW r \in Requests, NEW p \in Processes, NEW k \in Keys,
         NEW f \in Fps, Arrive(r, p, k, f)
  PROVE  Basics'
<1> USE Constants DEF Basics
<1>1. TypesOK'
  <2> DEFINE new1 == [Idle EXCEPT !.pc = "begin", !.proc = p]
             new2 == [new1 EXCEPT !.key = k, !.fp = f]
             new == [new2 EXCEPT !.at = now]
  <2>1. new \in Request
    <3> USE DEF Request
    <3>1. new1 \in Request
      BY DEF Idle, PCs, Results, Beginning, Never
    <3> HIDE DEF new1
    <3>2. new2 \in Request
      BY <3>1
    <3> HIDE DEF new2
    <3>3. now \in Nat
      BY DEF TypesOK
    <3> QED
      BY <3>2, <3>3
  <2>2. req' = [req EXCEPT ![r] = new]
    BY DEF Arrive
  <2> HIDE DEF new
  <2> QED
    BY <2>1, <2>2 DEF TypesOK, Arrive, losses
<1>2. InProgress'
  BY DEF TypesOK, Arrive, losses, Idle, InProgress, Active, MemoryProcess
<1>3. History'
  BY DEF TypesOK, Arrive, losses, Idle, History, Running, Beginning
<1> QED BY <1>1, <1>2, <1>3

-----------------------------------------------------------------------------
(* Nothing is lost of a request but its place and its answer.              *)
Moves(r) ==
  /\ \A q \in Requests \ {r} : req'[q] = req[q]
  /\ req'[r].key = req[r].key /\ req'[r].fp = req[r].fp /\ req'[r].at = req[r].at
  /\ req'[r].slow = req[r].slow /\ req'[r].end = req[r].end
  /\ UNCHANGED <<now, backend>>

(* A row as it was, but for the time of its last use.                      *)
SameRow(k) ==
  /\ entry'[k].fp = entry[k].fp /\ entry'[k].resp = entry[k].resp
  /\ entry'[k].expires = entry[k].expires
  /\ entry[k] = NoEntry <=> entry'[k] = NoEntry

(* The only rows deleted are stale.                                        *)
OnlyStaleDeleted ==
  \A k \in Keys : SameRow(k) \/ (entry'[k] = NoEntry /\ ~Live(k, now))

(* A row in flight for a running request of a clean key is live.           *)
LEMMA HeldIsLive ==
  ASSUME Basics, ClaimHeld, NEW r \in Requests, Running(r), Clean(req[r].key)
  PROVE  /\ req[r].key \in Keys /\ Live(req[r].key, now) /\ InFlight(req[r].key)
         /\ OwnRow(r)
<1> USE Constants
<1>1. req[r].key \in Keys /\ req[r].fp \in Fps /\ ~req[r].slow
      /\ req[r].at \in Nat /\ now \in Nat /\ now <= req[r].at + MaxLatency
  BY DEF Basics, TypesOK, Request, InProgress, History, Active, Running, Clean, Slow
<1>2. entry[req[r].key].fp = req[r].fp /\ entry[req[r].key].resp = NoRequest
      /\ entry[req[r].key].expires = req[r].at + InFlightTTL
  BY DEF ClaimHeld
<1> QED
  BY <1>1, <1>2 DEF Live, InFlight, NoEntry, OwnRow

(* A step of one request that neither claims nor finishes.                 *)
LEMMA MoveKeeps ==
  ASSUME IInv, Basics', NEW r \in Requests, Active(r), Moves(r), OnlyStaleDeleted,
         UNCHANGED <<exposed, forgotten>>,
         req'[r].claimed = req[r].claimed,
         Running(r)' => Running(r),
         req'[r].result = "replay" =>
           LET a == req'[r].from
           IN  /\ a \in Requests /\ req[a].pc = "done"
               /\ req[a].key = req[r].key /\ req[a].fp = req[r].fp
               /\ req[r].at < req[a].end + TTL,
         req'[r].result = "conflict" => Rival(r),
         req'[r].pc = "done" => req'[r].result # "kept",
         /\ req'[r].pc \in {"clear", "again"}
         /\ entry'[req[r].key] # NoEntry
         /\ req'[r].pc = "again" \/ Live(req[r].key, req[r].at)'
         => Rival(r)
  PROVE  IInv'
<1> USE Constants DEF Moves
<1>1. \A k : Slow(k)' = Slow(k)
  BY DEF Slow
<1>2. \A k : Clean(k)' = Clean(k)
  BY <1>1 DEF Clean
<1>3. \A q \in Requests : Running(q)' => Running(q)
  BY DEF Running
<1>4. ClaimHeld'
  <2> SUFFICES ASSUME NEW q \in Requests, Running(q)', Clean(req[q].key)
               PROVE  /\ entry'[req[q].key].fp = req[q].fp
                      /\ entry'[req[q].key].resp = NoRequest
                      /\ entry'[req[q].key].expires = req[q].at + InFlightTTL
    BY <1>2 DEF ClaimHeld
  <2>1. Running(q)
    BY <1>3
  <2>2. req[q].key \in Keys /\ Live(req[q].key, now)
    BY <2>1, HeldIsLive DEF IInv
  <2> QED
    BY <2>1, <2>2 DEF ClaimHeld, IInv, OnlyStaleDeleted, SameRow
<1>5. OneAtATime'
  BY <1>1, <1>3 DEF OneAtATime, IInv
<1>6. ResponseOwned'
  <2> SUFFICES ASSUME NEW k \in Keys, entry'[k].resp # NoRequest
               PROVE  /\ entry'[k].resp \in Requests
                      /\ req'[entry'[k].resp].pc = "done"
                      /\ req'[entry'[k].resp].key = k
                      /\ req'[entry'[k].resp].fp = entry'[k].fp
                      /\ entry'[k].expires = req'[entry'[k].resp].end + TTL
    BY DEF ResponseOwned
  <2>1. SameRow(k)
    BY DEF OnlyStaleDeleted, NoEntry
  <2>2. entry[k].resp \in Requests /\ req[entry[k].resp].pc = "done"
    BY <2>1 DEF IInv, ResponseOwned, SameRow
  <2>3. entry[k].resp # r
    BY <2>2 DEF Active
  <2> QED
    BY <2>1, <2>2, <2>3 DEF IInv, ResponseOwned, SameRow
<1>7. ReplaySettled' /\ ReplayIsOwn'
  <2> SUFFICES ASSUME NEW q \in Requests, req'[q].result = "replay"
               PROVE  /\ req'[q].from \in Requests
                      /\ req'[req'[q].from].pc = "done"
                      /\ req'[req'[q].from].key = req'[q].key
                      /\ req'[req'[q].from].fp = req'[q].fp
                      /\ req'[q].at < req'[req'[q].from].end + TTL
    BY DEF ReplaySettled, ReplayIsOwn
  <2>1. CASE q = r
    <3>1. req'[r].from \in Requests \ {r}
      BY <2>1 DEF Active
    <3> QED
      BY <2>1, <3>1
  <2>2. CASE q # r
    <3>1. req[q].from \in Requests /\ req[req[q].from].pc = "done"
      BY <2>2 DEF IInv, ReplaySettled
    <3>2. req[q].from # r
      BY <3>1 DEF Active
    <3> QED
      BY <2>2, <3>1, <3>2 DEF IInv, ReplayIsOwn
  <2> QED
    BY <2>1, <2>2
<1>8. ClaimWritten'
  <2> SUFFICES ASSUME NEW k \in Keys, entry'[k] # NoEntry, entry'[k].resp = NoRequest
               PROVE  \E q \in Requests :
                        /\ req'[q].key = k /\ req'[q].claimed # Never
                        /\ entry'[k].expires = req'[q].at + InFlightTTL
    BY DEF ClaimWritten, InFlight
  <2>1. SameRow(k)
    BY DEF OnlyStaleDeleted
  <2>2. PICK q \in Requests : /\ req[q].key = k /\ req[q].claimed # Never
                              /\ entry[k].expires = req[q].at + InFlightTTL
    BY <2>1 DEF IInv, ClaimWritten, InFlight, SameRow
  <2> QED
    BY <2>1, <2>2 DEF SameRow
<1>9. \A q \in Requests : Rival(q) => Rival(q)'
  BY DEF Rival
<1>10. StaleReplaced'
  <2> SUFFICES ASSUME NEW q \in Requests,
                      req'[q].pc \in {"clear", "again"},
                      entry'[req'[q].key] # NoEntry,
                      req'[q].pc = "again" \/ Live(req[q].key, req[q].at)'
               PROVE  Rival(q)
    BY <1>9 DEF StaleReplaced
  <2>1. CASE q = r
    BY <2>1
  <2>2. CASE q # r
    <3>1. req[q].key \in Keys
      BY <2>2 DEF IInv, Basics, History
    <3>2. SameRow(req[q].key)
      BY <2>2, <3>1 DEF OnlyStaleDeleted
    <3> QED
      BY <2>2, <3>2 DEF IInv, StaleReplaced, Live, SameRow
  <2> QED
    BY <2>1, <2>2
<1>11. LockedBriefly'
  <2> SUFFICES ASSUME NEW q \in Requests, req'[q].result = "conflict"
               PROVE  Rival(q)
    BY <1>9 DEF LockedBriefly, Rival
  <2>1. CASE q = r
    BY <2>1
  <2>2. CASE q # r
    BY <2>2 DEF IInv, LockedBriefly, Rival
  <2> QED
    BY <2>1, <2>2
<1>12. \A a \in Requests : Keeps(a)' => a # r /\ Keeps(a)
  BY <1>2 DEF Keeps
<1>13. KeptLasts'
  <2> SUFFICES ASSUME NEW a \in Requests, Keeps(a)'
               PROVE  entry'[req'[a].key].resp = a \/ now' >= req'[a].end + TTL
    BY DEF KeptLasts
  <2>1. a # r /\ Keeps(a)
    BY <1>12
  <2>2. entry[req[a].key].resp = a \/ now >= req[a].end + TTL
    BY <2>1 DEF IInv, KeptLasts
  <2>3. CASE req[a].key \in Keys /\ ~SameRow(req[a].key)
                /\ entry[req[a].key].resp = a
    <3>1. ~Live(req[a].key, now)
      BY <2>3 DEF OnlyStaleDeleted
    <3>2. entry[req[a].key].expires = req[a].end + TTL
      BY <2>3 DEF IInv, ResponseOwned
    <3>3. req[a].end \in Nat /\ now \in Nat /\ entry[req[a].key] # NoEntry
      BY <2>3 DEF IInv, Basics, TypesOK, Request, NoEntry
    <3> QED
      BY <2>1, <3>1, <3>2, <3>3 DEF Live
  <2>4. CASE req[a].key \notin Keys
    BY <2>1, <2>4 DEF IInv, Basics, History, Keeps
  <2> QED
    BY <2>1, <2>2, <2>3, <2>4 DEF SameRow
<1>14. KeptFirst'
  BY <1>12, <1>3 DEF KeptFirst, IInv
<1>15. AtMostOnce'
  BY <1>1 DEF AtMostOnce, IInv
<1> QED
  BY <1>4, <1>5, <1>6, <1>7, <1>8, <1>10, <1>11, <1>13, <1>14, <1>15 DEF IInv

(* Every row but those of ks is as it was, or gone with a note of what was *)
(* lost.                                                                   *)
OthersKeptOrNoted(k) ==
  \A j \in Keys \ {k} :
    \/ entry'[j] = entry[j]
    \/ /\ entry'[j] = NoEntry
       /\ \/ ~Live(j, now)
          \/ InFlight(j) /\ j \in exposed'
          \/ ~InFlight(j) /\ j \in forgotten'

(* Begin finds no live row and writes the claim of r, whether r learns of  *)
(* it or not.                                                              *)
LEMMA ClaimKeeps ==
  ASSUME IInv, Basics', NEW r \in Requests, req[r].pc \in Beginning, Moves(r),
         ~Live(req[r].key, req[r].at),
         entry'[req[r].key] = Claim(r), OthersKeptOrNoted(req[r].key),
         exposed \subseteq exposed', forgotten \subseteq forgotten',
         req'[r].claimed = now,
         req'[r].pc \in {"run", "unkeyed", "done"},
         req'[r].result \notin {"replay", "conflict", "kept"}
  PROVE  IInv'
<1> USE Constants DEF Moves
<1> DEFINE k == req[r].key
<1>0. /\ k \in Keys /\ req[r].at \in Nat /\ now \in Nat /\ req[r].at <= now
      /\ Active(r) /\ req[r].claimed = Never
      /\ req[r].slow \/ now <= req[r].at + MaxLatency
      /\ req[r].fp \in Fps
  BY DEF IInv, Basics, TypesOK, Request, InProgress, History, Active, Beginning
<1>1. \A j : Slow(j)' = Slow(j)
  BY DEF Slow
<1>2. \A j : Clean(j)' => Clean(j)
  BY <1>1 DEF Clean
<1>3. \A q \in Requests : Running(q)' => q = r \/ Running(q)
  BY DEF Running
<1>l. ~Live(k, now)
  BY <1>0 DEF Live, IInv, Basics, TypesOK, Entry, NoEntry
<1>n. \A q \in Requests : Running(q) /\ Clean(req[q].key) => req[q].key # k
  BY <1>l, HeldIsLive DEF IInv
<1>4. ClaimHeld'
  <2> SUFFICES ASSUME NEW q \in Requests, Running(q)', Clean(req[q].key)'
               PROVE  /\ entry'[req[q].key].fp = req[q].fp
                      /\ entry'[req[q].key].resp = NoRequest
                      /\ entry'[req[q].key].expires = req[q].at + InFlightTTL
    BY DEF ClaimHeld
  <2>1. CASE q = r
    BY <2>1 DEF Claim
  <2>2. CASE q # r
    <3>1. Running(q) /\ Clean(req[q].key)
      BY <2>2, <1>2, <1>3
    <3>2. /\ req[q].key \in Keys /\ Live(req[q].key, now) /\ InFlight(req[q].key)
      BY <3>1, HeldIsLive DEF IInv
    <3>3. req[q].key # k /\ req[q].key \notin exposed'
      BY <3>1, <1>n, <2>2 DEF Clean
    <3>4. entry'[req[q].key] = entry[req[q].key]
      BY <3>2, <3>3 DEF OthersKeptOrNoted
    <3> QED
      BY <3>1, <3>4 DEF ClaimHeld, IInv
  <2> QED
    BY <2>1, <2>2
<1>5. OneAtATime'
  <2> SUFFICES ASSUME NEW a \in Requests, NEW b \in Requests, Running(a)', Running(b)',
                      a # b, req[a].key = req[b].key, Clean(req[a].key)'
               PROVE  FALSE
    BY DEF OneAtATime, Clean
  <2>1. CASE a # r /\ b # r
    BY <2>1, <1>2, <1>3 DEF OneAtATime, IInv, Clean
  <2>2. CASE a = r \/ b = r
    BY <2>2, <1>2, <1>3, <1>n
  <2> QED
    BY <2>1, <2>2
<1>6. ResponseOwned'
  <2> SUFFICES ASSUME NEW j \in Keys, entry'[j].resp # NoRequest
               PROVE  /\ entry'[j].resp \in Requests
                      /\ req'[entry'[j].resp].pc = "done"
                      /\ req'[entry'[j].resp].key = j
                      /\ req'[entry'[j].resp].fp = entry'[j].fp
                      /\ entry'[j].expires = req'[entry'[j].resp].end + TTL
    BY DEF ResponseOwned
  <2>1. j # k /\ entry'[j] = entry[j]
    BY DEF OthersKeptOrNoted, NoEntry, Claim
  <2>2. entry[j].resp \in Requests /\ req[entry[j].resp].pc = "done"
    BY <2>1 DEF IInv, ResponseOwned
  <2>3. entry[j].resp # r
    BY <2>2 DEF Beginning
  <2> QED
    BY <2>1, <2>2, <2>3 DEF IInv, ResponseOwned
<1>7. ReplaySettled' /\ ReplayIsOwn'
  <2> SUFFICES ASSUME NEW q \in Requests, req'[q].result = "replay"
               PROVE  /\ req'[q].from \in Requests
                      /\ req'[req'[q].from].pc = "done"
                      /\ req'[req'[q].from].key = req'[q].key
                      /\ req'[req'[q].from].fp = req'[q].fp
                      /\ req'[q].at < req'[req'[q].from].end + TTL
    BY DEF ReplaySettled, ReplayIsOwn
  <2>1. q # r
    OBVIOUS
  <2>2. req[q].from \in Requests /\ req[req[q].from].pc = "done"
    BY <2>1 DEF IInv, ReplaySettled
  <2>3. req[q].from # r
    BY <2>2 DEF Beginning
  <2> QED
    BY <2>1, <2>2, <2>3 DEF IInv, ReplayIsOwn
<1>8. ClaimWritten'
  <2> SUFFICES ASSUME NEW j \in Keys, entry'[j] # NoEntry, entry'[j].resp = NoRequest
               PROVE  \E q \in Requests :
                        /\ req'[q].key = j /\ req'[q].claimed # Never
                        /\ entry'[j].expires = req'[q].at + InFlightTTL
    BY DEF ClaimWritten, InFlight
  <2>1. CASE j = k
    BY <2>1, <1>0 DEF Claim, Never
  <2>2. CASE j # k
    <3>1. entry'[j] = entry[j]
      BY <2>2 DEF OthersKeptOrNoted
    <3>2. PICK q \in Requests : /\ req[q].key = j /\ req[q].claimed # Never
                                /\ entry[j].expires = req[q].at + InFlightTTL
      BY <3>1 DEF IInv, ClaimWritten, InFlight
    <3> QED
      BY <2>2, <3>1, <3>2
  <2> QED
    BY <2>1, <2>2
<1>9. \A q \in Requests : Rival(q) => Rival(q)'
  BY <1>0 DEF Rival, Never
<1>9a. \A q \in Requests \ {r} :
         req[q].key = k /\ req[q].at \in Nat /\ req[q].at <= now => Rival(q)'
  BY <1>0 DEF Rival, Never
<1>10. StaleReplaced'
  <2> SUFFICES ASSUME NEW q \in Requests,
                      req'[q].pc \in {"clear", "again"},
                      entry'[req'[q].key] # NoEntry,
                      req'[q].pc = "again" \/ Live(req[q].key, req[q].at)'
               PROVE  Rival(q)'
    BY DEF StaleReplaced
  <2>1. q # r
    OBVIOUS
  <2>2. req[q].key \in Keys /\ req[q].at \in Nat /\ req[q].at <= now
    BY <2>1 DEF IInv, Basics, TypesOK, Request, History, InProgress, Active
  <2>3. CASE req[q].key = k
    BY <2>1, <2>2, <2>3, <1>9a
  <2>4. CASE req[q].key # k
    <3>1. entry'[req[q].key] = entry[req[q].key]
      BY <2>1, <2>2, <2>4 DEF OthersKeptOrNoted
    <3> QED
      BY <2>1, <3>1, <1>9 DEF IInv, StaleReplaced, Live
  <2> QED
    BY <2>3, <2>4
<1>11. LockedBriefly'
  BY <1>9 DEF IInv, LockedBriefly, Rival
<1>12. \A a \in Requests : Keeps(a)' => a # r /\ Keeps(a)
  BY <1>2 DEF Keeps
<1>13. \A a \in Requests : Keeps(a)' /\ req[a].key = k => now >= req[a].end + TTL
  <2> SUFFICES ASSUME NEW a \in Requests, Keeps(a)', req[a].key = k
               PROVE  now >= req[a].end + TTL
    OBVIOUS
  <2>1. entry[k].resp = a \/ now >= req[a].end + TTL
    BY <1>12 DEF IInv, KeptLasts
  <2>2. entry[k].resp = a => entry[k].expires = req[a].end + TTL /\ entry[k] # NoEntry
    BY <1>0 DEF IInv, ResponseOwned, NoEntry
  <2>3. req[a].end \in Nat
    BY DEF IInv, Basics, TypesOK, Request
  <2> QED
    BY <2>1, <2>2, <2>3, <1>l, <1>0 DEF Live
<1>14. KeptLasts'
  <2> SUFFICES ASSUME NEW a \in Requests, Keeps(a)'
               PROVE  entry'[req'[a].key].resp = a \/ now' >= req'[a].end + TTL
    BY DEF KeptLasts
  <2> DEFINE j == req[a].key
  <2>1. a # r /\ Keeps(a) /\ j \notin forgotten'
    BY <1>12 DEF Keeps
  <2>2. entry[j].resp = a \/ now >= req[a].end + TTL
    BY <2>1 DEF IInv, KeptLasts
  <2>3. CASE j = k
    BY <2>3, <2>1, <1>13
  <2>4. CASE j # k /\ entry'[j] # entry[j] /\ entry[j].resp = a
    <3>1. j \in Keys
      BY <2>1 DEF Keeps, IInv, Basics, History
    <3>2. ~InFlight(j)
      BY <2>4 DEF InFlight
    <3>3. ~Live(j, now)
      BY <2>1, <2>4, <3>1, <3>2 DEF OthersKeptOrNoted
    <3>4. entry[j].expires = req[a].end + TTL
      BY <2>4, <3>1 DEF IInv, ResponseOwned
    <3>5. req[a].end \in Nat /\ entry[j] # NoEntry
      BY <2>4, <3>1 DEF IInv, Basics, TypesOK, Request, NoEntry
    <3> QED
      BY <2>1, <3>3, <3>4, <3>5, <1>0 DEF Live
  <2> QED
    BY <2>1, <2>2, <2>3, <2>4
<1>15. KeptFirst'
  BY <1>12, <1>3, <1>13 DEF KeptFirst, IInv
<1>16. AtMostOnce'
  BY <1>1 DEF AtMostOnce, IInv
<1> QED
  BY <1>4, <1>5, <1>6, <1>7, <1>8, <1>10, <1>11, <1>14, <1>15, <1>16 DEF IInv

(* The claim of a request that has begun is a row.                         *)
LEMMA ClaimIsEntry ==
  ASSUME Basics, NEW r \in Requests, req[r].pc \in Beginning
  PROVE  Claim(r) \in Entry /\ req[r].key \in Keys /\ Active(r)
BY Constants DEF Basics, TypesOK, History, Claim, Entry, Request, Beginning, Active

-----------------------------------------------------------------------------
(* Finish, or its failure: r is answered, and its row, if it is still its  *)
(* own, becomes the response or goes.                                      *)
LEMMA LeaveKeeps ==
  ASSUME IInv, Basics', NEW r \in Requests, req[r].pc = "finish",
         \A q \in Requests \ {r} : req'[q] = req[q],
         req'[r] = [req[r] EXCEPT !.pc = "done", !.proc = NoProcess, !.end = now],
         UNCHANGED <<now, backend, exposed>>,
         \A j \in Keys \ {req[r].key} : entry'[j] = entry[j],
         LET k == req[r].key
         IN  \/ entry'[k] = entry[k] /\ forgotten' = forgotten \cup {k}
             \/ /\ forgotten' = forgotten
                /\ \/ ~OwnRow(r) /\ entry'[k] = entry[k]
                   \/ OwnRow(r) /\ req[r].result = "kept" /\ entry'[k] = Kept(r)
                   \/ OwnRow(r) /\ req[r].result # "kept" /\ entry'[k] = NoEntry
  PROVE  IInv'
<1> USE Constants
<1> DEFINE k == req[r].key
<1>0. /\ k \in Keys /\ req[r] \in Request /\ now \in Nat /\ Running(r)
      /\ req[r].fp \in Fps /\ req[r].result \notin {"replay", "conflict"}
      /\ req[r].at \in Nat /\ req[r].claimed \in Nat /\ req[r].claimed <= now
      /\ req[r].claimed # Never
      /\ req[r].slow \/ now <= req[r].at + MaxLatency
  BY DEF IInv, Basics, TypesOK, Request, InProgress, History, Active, Running, Never
<1>f. /\ req'[r].pc = "done" /\ req'[r].end = now /\ req'[r].key = k
      /\ req'[r].fp = req[r].fp /\ req'[r].at = req[r].at
      /\ req'[r].slow = req[r].slow /\ req'[r].claimed = req[r].claimed
      /\ req'[r].result = req[r].result
  BY <1>0 DEF Request
<1>t. /\ \A q \in Requests : req'[q].key = req[q].key /\ req'[q].fp = req[q].fp
      /\ \A q \in Requests : req'[q].at = req[q].at /\ req'[q].slow = req[q].slow
      /\ \A q \in Requests : req'[q].claimed = req[q].claimed
      /\ \A q \in Requests : req'[q].result = req[q].result
      /\ \A q \in Requests : req[q].pc = "done" => q # r /\ req'[q] = req[q]
  BY <1>f
<1>1. \A j : Slow(j)' = Slow(j)
  BY <1>t DEF Slow
<1>2. \A j : Clean(j)' = Clean(j)
  BY <1>1 DEF Clean
<1>3. \A q \in Requests : Running(q)' => q # r /\ Running(q)
  BY <1>f DEF Running
<1>n. \A q \in Requests \ {r} : Running(q) /\ Clean(req[q].key) => req[q].key # k
  BY <1>0 DEF IInv, OneAtATime, Clean
<1>4. ClaimHeld'
  <2> SUFFICES ASSUME NEW q \in Requests, Running(q)', Clean(req[q].key)
               PROVE  /\ entry'[req[q].key].fp = req[q].fp
                      /\ entry'[req[q].key].resp = NoRequest
                      /\ entry'[req[q].key].expires = req[q].at + InFlightTTL
    BY <1>2, <1>t DEF ClaimHeld
  <2>1. q # r /\ Running(q) /\ req[q].key # k
    BY <1>3, <1>n
  <2>2. req[q].key \in Keys
    BY <2>1, HeldIsLive DEF IInv
  <2> QED
    BY <2>1, <2>2 DEF ClaimHeld, IInv
<1>5. OneAtATime'
  BY <1>1, <1>3, <1>t DEF OneAtATime, IInv
<1>6. ResponseOwned'
  <2> SUFFICES ASSUME NEW j \in Keys, entry'[j].resp # NoRequest
               PROVE  /\ entry'[j].resp \in Requests
                      /\ req'[entry'[j].resp].pc = "done"
                      /\ req'[entry'[j].resp].key = j
                      /\ req'[entry'[j].resp].fp = entry'[j].fp
                      /\ entry'[j].expires = req'[entry'[j].resp].end + TTL
    BY DEF ResponseOwned
  <2>1. CASE entry'[j] = entry[j]
    BY <2>1, <1>t DEF IInv, ResponseOwned
  <2>2. CASE entry'[j] # entry[j]
    <3>1. j = k /\ OwnRow(r) /\ entry'[k] = Kept(r)
      BY <2>2 DEF NoEntry
    <3>2. entry[k] \in Entry \cup {NoEntry}
      BY <1>0 DEF IInv, Basics, TypesOK
    <3>3. /\ Kept(r).resp = r /\ Kept(r).fp = entry[k].fp
          /\ Kept(r).expires = now + TTL
      BY <3>2 DEF Kept, Entry, NoEntry
    <3> QED
      BY <3>1, <3>3, <1>f DEF OwnRow
  <2> QED
    BY <2>1, <2>2
<1>7. ReplaySettled' /\ ReplayIsOwn'
  <2> SUFFICES ASSUME NEW q \in Requests, req[q].result = "replay"
               PROVE  /\ req'[q].from \in Requests
                      /\ req'[req'[q].from].pc = "done"
                      /\ req'[req'[q].from].key = req'[q].key
                      /\ req'[req'[q].from].fp = req'[q].fp
                      /\ req'[q].at < req'[req'[q].from].end + TTL
    BY <1>t DEF ReplaySettled, ReplayIsOwn
  <2>1. q # r
    BY <1>0
  <2>2. req[q].from \in Requests /\ req[req[q].from].pc = "done"
    BY DEF IInv, ReplaySettled
  <2> QED
    BY <2>1, <2>2, <1>t DEF IInv, ReplayIsOwn
<1>8. ClaimWritten'
  <2> SUFFICES ASSUME NEW j \in Keys, entry'[j] # NoEntry, entry'[j].resp = NoRequest
               PROVE  \E q \in Requests :
                        /\ req[q].key = j /\ req[q].claimed # Never
                        /\ entry'[j].expires = req[q].at + InFlightTTL
    BY <1>t DEF ClaimWritten, InFlight
  <2>1. entry'[j] = entry[j]
    <3>1. entry[k] \in Entry \cup {NoEntry}
      BY <1>0 DEF IInv, Basics, TypesOK
    <3>2. Kept(r).resp # NoRequest
      BY <3>1 DEF Kept, Entry, NoEntry
    <3> QED
      BY <3>2
  <2> QED
    BY <2>1 DEF IInv, ClaimWritten, InFlight
<1>9. \A q \in Requests : Rival(q) => Rival(q)'
  BY <1>t DEF Rival
<1>9a. \A q \in Requests \ {r} :
         req[q].key = k /\ req[q].at \in Nat /\ req[q].at <= now => Rival(q)
  BY <1>0 DEF Rival
<1>10. StaleReplaced'
  <2> SUFFICES ASSUME NEW q \in Requests,
                      req'[q].pc \in {"clear", "again"},
                      entry'[req'[q].key] # NoEntry,
                      req'[q].pc = "again" \/ Live(req[q].key, req[q].at)'
               PROVE  Rival(q)
    BY <1>9, <1>t DEF StaleReplaced
  <2>1. q # r
    BY <1>f
  <2>2. req[q].key \in Keys /\ req[q].at \in Nat /\ req[q].at <= now
    BY <2>1 DEF IInv, Basics, TypesOK, Request, History, InProgress, Active
  <2>3. CASE req[q].key = k
    BY <2>1, <2>2, <2>3, <1>9a
  <2>4. CASE req[q].key # k
    BY <2>1, <2>2, <2>4, <1>9 DEF IInv, StaleReplaced, Live
  <2> QED
    BY <2>3, <2>4
<1>11. LockedBriefly'
  BY <1>9, <1>t DEF IInv, LockedBriefly, Rival
(* The response of r is in the store, if it is to be kept.                 *)
<1>12. Keeps(r)' => entry'[k].resp = r
  <2> SUFFICES ASSUME Keeps(r)'
               PROVE  entry'[k].resp = r
    OBVIOUS
  <2>1. Clean(k) /\ req[r].result = "kept" /\ k \notin forgotten'
    BY <1>2, <1>f DEF Keeps
  <2>2. OwnRow(r)
    BY <2>1, <1>0, HeldIsLive DEF IInv
  <2>3. entry'[k] = Kept(r)
    BY <2>1, <2>2
  <2>4. entry[k] \in Entry \cup {NoEntry}
    BY <1>0 DEF IInv, Basics, TypesOK
  <2> QED
    BY <2>3, <2>4 DEF Kept, Entry, NoEntry
<1>13. \A a \in Requests \ {r} : Keeps(a)' => Keeps(a)
  BY <1>2, <1>t DEF Keeps
<1>14. \A a \in Requests \ {r} :
         Keeps(a)' /\ req[a].key = k => req[r].claimed >= req[a].end + TTL
  BY <1>13, <1>0 DEF IInv, KeptFirst
<1>15. KeptLasts'
  <2> SUFFICES ASSUME NEW a \in Requests, Keeps(a)'
               PROVE  entry'[req[a].key].resp = a \/ now >= req'[a].end + TTL
    BY <1>t DEF KeptLasts
  <2>1. CASE a = r
    BY <2>1, <1>12
  <2>2. CASE a # r /\ req[a].key = k
    <3>1. req[a].end \in Nat /\ req'[a] = req[a]
      BY <2>2 DEF IInv, Basics, TypesOK, Request
    <3> QED
      BY <2>2, <3>1, <1>14, <1>0
  <2>3. CASE a # r /\ req[a].key # k
    <3>1. req[a].key \in Keys
      BY <2>3, <1>13 DEF Keeps, IInv, Basics, History
    <3> QED
      BY <2>3, <3>1, <1>13 DEF IInv, KeptLasts
  <2> QED
    BY <2>1, <2>2, <2>3
<1>16. KeptFirst'
  <2> SUFFICES ASSUME NEW a \in Requests, NEW b \in Requests, a # b,
                      req[a].key = req[b].key, Keeps(a)', Running(b)'
               PROVE  req[b].claimed >= req'[a].end + TTL
    BY <1>t DEF KeptFirst
  <2>1. b # r /\ Running(b)
    BY <1>3
  <2>2. a # r
    <3> SUFFICES ASSUME a = r PROVE FALSE
      OBVIOUS
    <3>1. k \notin exposed /\ ~Slow(k)'
      BY <1>f DEF Keeps, Clean, Slow
    <3> QED
      BY <3>1, <2>1, <1>1, <1>n DEF Clean
  <2> QED
    BY <2>1, <2>2, <1>13 DEF IInv, KeptFirst
<1>17. AtMostOnce'
  <2> SUFFICES ASSUME NEW a \in Requests, NEW b \in Requests, a # b,
                      req[a].key = req[b].key,
                      req'[a].pc = "done", req[a].result = "kept",
                      req'[b].pc = "done", req[b].result = "kept",
                      req'[a].end <= req'[b].end,
                      Clean(req[a].key)', req[a].key \notin forgotten'
               PROVE  req[b].claimed >= req'[a].end + TTL
    BY <1>t DEF AtMostOnce, Clean
  <2>1. Keeps(a)' /\ Keeps(b)'
    BY <1>t DEF Keeps
  <2>2. CASE a # r /\ b # r
    <3>1. Keeps(a) /\ Keeps(b)
      BY <2>1, <2>2, <1>13
    <3> QED
      BY <2>2, <3>1 DEF IInv, AtMostOnce, Keeps, Clean
  <2>3. CASE b = r
    BY <2>1, <2>3, <1>14
  <2>4. CASE a = r
    <3>1. req[r].claimed >= req[b].end + TTL
      BY <2>1, <2>4, <1>14
    <3>2. req[b].end \in Nat /\ req'[b] = req[b]
      BY <2>4 DEF IInv, Basics, TypesOK, Request
    <3>3. now <= req[b].end
      BY <2>4, <3>2, <1>f
    <3>4. req[r].claimed \in Nat /\ req[r].claimed <= now /\ now \in Nat
      BY <1>0
    <3> QED
      BY <3>1, <3>2, <3>3, <3>4
  <2> QED
    BY <2>2, <2>3, <2>4
<1> QED
  BY <1>4, <1>5, <1>6, <1>7, <1>8, <1>10, <1>11, <1>15, <1>16, <1>17 DEF IInv

-----------------------------------------------------------------------------
(* What a request has become is not undone.                                *)
Ages(q) ==
  /\ req[q].pc # "idle" =>
       /\ req'[q].key = req[q].key /\ req'[q].fp = req[q].fp
       /\ req'[q].at = req[q].at /\ req'[q].claimed = req[q].claimed
       /\ req'[q].from = req[q].from /\ req'[q].result = req[q].result
       /\ req'[q].end = req[q].end
       /\ req[q].slow => req'[q].slow
  /\ req[q].pc = "idle" =>
       /\ req'[q].pc \in {"idle", "begin"}
       /\ req'[q].result = "none" /\ req'[q].claimed = Never
  /\ Running(q)' => Running(q)
  /\ req'[q].pc = "done" <=> req[q].pc = "done"
  /\ req'[q].pc \in {"clear", "again"} => req'[q].pc = req[q].pc

(* Time passes, a request arrives or overruns, a process dies, a user is   *)
(* erased: no request gets further.                                        *)
LEMMA FadeKeeps ==
  ASSUME IInv, Basics', now' >= now,
         exposed \subseteq exposed', forgotten \subseteq forgotten',
         \A q \in Requests : Ages(q),
         \A k \in Keys :
           \/ entry'[k] = entry[k]
           \/ /\ entry'[k] = NoEntry
              /\ \/ k \in exposed'
                 \/ k \in forgotten' /\ \A q \in Requests : ~Running(q)'
  PROVE  IInv'
<1> USE Constants
<1>0. /\ \A q \in Requests : req[q].pc = "done" => req[q].key = req'[q].key
      /\ \A q \in Requests : req[q].claimed # Never \/ req[q].slow => req[q].pc # "idle"
      /\ \A q \in Requests : Running(q) => req[q].pc # "idle"
  BY DEF IInv, Basics, History, Beginning, Ages, Running
<1>2. \A k : Clean(k)' => Clean(k)
  <2> SUFFICES ASSUME NEW k, Clean(k)', Slow(k)
               PROVE  FALSE
    BY DEF Clean
  <2>1. PICK q \in Requests : req[q].slow /\ req[q].key = k
    BY DEF Slow
  <2>2. req'[q].slow /\ req'[q].key = k
    BY <2>1, <1>0 DEF Ages
  <2> QED
    BY <2>2 DEF Clean, Slow
<1>3. \A q \in Requests : Running(q)' => Running(q) /\ req'[q].key = req[q].key
                                         /\ req'[q].fp = req[q].fp
                                         /\ req'[q].at = req[q].at
                                         /\ req'[q].claimed = req[q].claimed
  BY <1>0 DEF Ages
<1>4. ClaimHeld'
  <2> SUFFICES ASSUME NEW q \in Requests, Running(q)', Clean(req[q].key)'
               PROVE  /\ entry'[req'[q].key].fp = req'[q].fp
                      /\ entry'[req'[q].key].resp = NoRequest
                      /\ entry'[req'[q].key].expires = req'[q].at + InFlightTTL
    BY DEF ClaimHeld
  <2>1. Running(q) /\ Clean(req[q].key) /\ req'[q].key \notin exposed'
    BY <1>2, <1>3 DEF Clean
  <2>2. req[q].key \in Keys
    BY <2>1, HeldIsLive DEF IInv
  <2>3. entry'[req[q].key] = entry[req[q].key]
    BY <2>1, <2>2, <1>3
  <2> QED
    BY <2>1, <2>3, <1>3 DEF IInv, ClaimHeld
<1>5. OneAtATime'
  <2> SUFFICES ASSUME NEW a \in Requests, NEW b \in Requests, Running(a)', Running(b)',
                      a # b, req'[a].key = req'[b].key, Clean(req[a].key)'
               PROVE  FALSE
    BY DEF OneAtATime, Clean
  <2>1. Clean(req[a].key)
    BY <1>2, <1>3
  <2> QED
    BY <2>1, <1>3 DEF IInv, OneAtATime, Clean
<1>6. ResponseOwned'
  <2> SUFFICES ASSUME NEW k \in Keys, entry'[k].resp # NoRequest
               PROVE  /\ entry'[k].resp \in Requests
                      /\ req'[entry'[k].resp].pc = "done"
                      /\ req'[entry'[k].resp].key = k
                      /\ req'[entry'[k].resp].fp = entry'[k].fp
                      /\ entry'[k].expires = req'[entry'[k].resp].end + TTL
    BY DEF ResponseOwned
  <2>1. entry'[k] = entry[k]
    BY DEF NoEntry
  <2>2. entry[k].resp \in Requests /\ req[entry[k].resp].pc = "done"
    BY <2>1 DEF IInv, ResponseOwned
  <2>3. Ages(entry[k].resp)
    BY <2>2
  <2> QED
    BY <2>1, <2>2, <2>3 DEF IInv, ResponseOwned, Ages
<1>7. ReplaySettled' /\ ReplayIsOwn'
  <2> SUFFICES ASSUME NEW q \in Requests, req'[q].result = "replay"
               PROVE  /\ req'[q].from \in Requests
                      /\ req'[req'[q].from].pc = "done"
                      /\ req'[req'[q].from].key = req'[q].key
                      /\ req'[req'[q].from].fp = req'[q].fp
                      /\ req'[q].at < req'[req'[q].from].end + TTL
    BY DEF ReplaySettled, ReplayIsOwn
  <2>1. req[q].pc # "idle"
    BY DEF Ages
  <2>2. /\ req[q].result = "replay" /\ req'[q].from = req[q].from
        /\ req'[q].key = req[q].key /\ req'[q].fp = req[q].fp /\ req'[q].at = req[q].at
    BY <2>1 DEF Ages
  <2>3. req[q].from \in Requests /\ req[req[q].from].pc = "done"
    BY <2>2 DEF IInv, ReplaySettled
  <2>4. Ages(req[q].from)
    BY <2>3
  <2> QED
    BY <2>2, <2>3, <2>4 DEF IInv, ReplayIsOwn, Ages
<1>8. ClaimWritten'
  <2> SUFFICES ASSUME NEW k \in Keys, entry'[k] # NoEntry, entry'[k].resp = NoRequest
               PROVE  \E q \in Requests :
                        /\ req'[q].key = k /\ req'[q].claimed # Never
                        /\ entry'[k].expires = req'[q].at + InFlightTTL
    BY DEF ClaimWritten, InFlight
  <2>1. PICK q \in Requests : /\ req[q].key = k /\ req[q].claimed # Never
                              /\ entry[k].expires = req[q].at + InFlightTTL
    BY DEF IInv, ClaimWritten, InFlight
  <2>2. Ages(q) /\ req[q].pc # "idle"
    BY <2>1, <1>0
  <2> QED
    BY <2>1, <2>2 DEF Ages
<1>9. \A r \in Requests : Rival(r) /\ req[r].pc # "idle" => Rival(r)'
  <2> SUFFICES ASSUME NEW r \in Requests, Rival(r), req[r].pc # "idle"
               PROVE  Rival(r)'
    OBVIOUS
  <2>1. PICK q \in Requests \ {r} :
          /\ req[q].key = req[r].key /\ req[q].claimed # Never
          /\ req[r].at < req[q].at + InFlightTTL \/ req[q].slow
    BY DEF Rival
  <2>2. req[q].pc # "idle"
    BY <2>1, <1>0
  <2>3. /\ req'[q].key = req'[r].key /\ req'[q].claimed # Never
        /\ req'[r].at < req'[q].at + InFlightTTL \/ req'[q].slow
    BY <2>1, <2>2 DEF Ages
  <2> QED
    BY <2>3 DEF Rival
<1>10. StaleReplaced'
  <2> SUFFICES ASSUME NEW q \in Requests,
                      req'[q].pc \in {"clear", "again"},
                      entry'[req'[q].key] # NoEntry,
                      req'[q].pc = "again" \/ Live(req[q].key, req[q].at)'
               PROVE  Rival(q)'
    BY DEF StaleReplaced
  <2>1. /\ req'[q].pc = req[q].pc /\ req[q].pc # "idle"
        /\ req'[q].key = req[q].key /\ req'[q].at = req[q].at
    BY DEF Ages
  <2>2. entry'[req[q].key] = entry[req[q].key]
    BY <2>1 DEF IInv, Basics, History
  <2> QED
    BY <2>1, <2>2, <1>9 DEF IInv, StaleReplaced, Live
<1>11. LockedBriefly'
  <2> SUFFICES ASSUME NEW q \in Requests, req'[q].result = "conflict"
               PROVE  Rival(q)'
    BY DEF LockedBriefly, Rival
  <2>1. req[q].pc # "idle" /\ req[q].result = "conflict"
    BY DEF Ages
  <2> QED
    BY <2>1, <1>9 DEF IInv, LockedBriefly, Rival
<1>12. \A a \in Requests : Keeps(a)' =>
         /\ Keeps(a) /\ req'[a].key = req[a].key /\ req'[a].end = req[a].end
         /\ req[a].key \notin exposed' \cup forgotten'
  <2> SUFFICES ASSUME NEW a \in Requests, Keeps(a)'
               PROVE  /\ Keeps(a) /\ req'[a].key = req[a].key
                      /\ req'[a].end = req[a].end
                      /\ req[a].key \notin exposed' \cup forgotten'
    OBVIOUS
  <2>1. req[a].pc = "done" /\ Ages(a)
    BY DEF Keeps, Ages
  <2>2. /\ req'[a].key = req[a].key /\ req'[a].end = req[a].end
        /\ req'[a].result = req[a].result
    BY <2>1 DEF Ages
  <2>3. Clean(req[a].key)' => Clean(req'[a].key)
    BY <1>2
  <2> QED
    BY <2>1, <2>2, <2>3 DEF Keeps, Clean
<1>13. KeptLasts'
  <2> SUFFICES ASSUME NEW a \in Requests, Keeps(a)'
               PROVE  entry'[req'[a].key].resp = a \/ now' >= req'[a].end + TTL
    BY DEF KeptLasts
  <2>1. /\ Keeps(a) /\ req'[a].key = req[a].key /\ req'[a].end = req[a].end
        /\ req[a].key \notin exposed' \cup forgotten'
    BY <1>12
  <2>2. entry[req[a].key].resp = a \/ now >= req[a].end + TTL
    BY <2>1 DEF IInv, KeptLasts
  <2>3. req[a].key \in Keys /\ req[a].end \in Nat /\ now \in Nat /\ now' \in Nat
    BY <2>1 DEF Keeps, IInv, Basics, History, TypesOK, Request
  <2> QED
    BY <2>1, <2>2, <2>3
<1>14. KeptFirst'
  BY <1>12, <1>3 DEF IInv, KeptFirst
<1>15. AtMostOnce'
  <2> SUFFICES ASSUME NEW a \in Requests, NEW b \in Requests, a # b,
                      req'[a].key = req'[b].key,
                      req'[a].pc = "done", req'[a].result = "kept",
                      req'[b].pc = "done", req'[b].result = "kept",
                      req'[a].end <= req'[b].end,
                      Clean(req[a].key)', req'[a].key \notin forgotten'
               PROVE  req'[b].claimed >= req'[a].end + TTL
    BY DEF AtMostOnce, Clean
  <2>1. Ages(a) /\ Ages(b) /\ req[a].pc = "done" /\ req[b].pc = "done"
    BY DEF Ages
  <2>2. /\ req'[a].key = req[a].key /\ req'[a].end = req[a].end
        /\ req[a].result = "kept"
        /\ req'[b].key = req[b].key /\ req'[b].end = req[b].end
        /\ req[b].result = "kept" /\ req'[b].claimed = req[b].claimed
    BY <2>1 DEF Ages
  <2>3. Clean(req[a].key)
    BY <2>2, <1>2
  <2> QED
    BY <2>1, <2>2, <2>3 DEF IInv, AtMostOnce, Clean
<1> QED
  BY <1>4, <1>5, <1>6, <1>7, <1>8, <1>10, <1>11, <1>13, <1>14, <1>15 DEF IInv

-----------------------------------------------------------------------------
(* The types of the variables a step of one request may change beside it.  *)
StoreTyped ==
  /\ faults \in 0 .. MaxFaults
  /\ entry \in [Keys -> Entry \cup {NoEntry}]
  /\ lastReap \in [Processes -> Int]
  /\ exposed \subseteq Keys /\ forgotten \subseteq Keys

(* One request goes on to a record that fits its place.                    *)
LEMMA BasicsOfStep ==
  ASSUME Basics, NEW r \in Requests, Active(r), StoreTyped',
         NEW new \in Request, req' = [req EXCEPT ![r] = new],
         UNCHANGED <<now, backend>>,
         new.pc # "idle" /\ new.key = req[r].key /\ new.fp = req[r].fp,
         new.at = req[r].at /\ new.slow = req[r].slow,
         new.proc = req[r].proc \/ new.pc \in {"done", "dead"},
         new.pc \in Beginning => new.claimed = Never,
         new.pc \in {"run", "finish"} => new.claimed \in 0 .. now,
         new.pc \in Beginning \cup {"run"} => new.result = "none",
         new.result \in {"replay", "conflict"} => new.pc = "done",
         new.end <= now
  PROVE  Basics'
<1> USE Constants DEF Basics
<1>1. TypesOK'
  BY DEF TypesOK, StoreTyped
<1>2. InProgress'
  BY DEF TypesOK, InProgress, Active
<1>3. History'
  BY DEF TypesOK, History, Running, Active
<1> QED
  BY <1>1, <1>2, <1>3

(* A request in progress as the proofs below use it.                       *)
LEMMA ActiveRequest ==
  ASSUME Basics, NEW r \in Requests, Active(r)
  PROVE  /\ req[r] \in Request /\ req[r].key \in Keys /\ req[r].fp \in Fps
         /\ req[r].at \in Nat /\ now \in Nat /\ req[r].at <= now
         /\ req[r].end <= now /\ req[r].pc \notin {"idle", "done", "dead"}
         /\ req[r].result \notin {"replay", "conflict"}
         /\ req[r].pc \in Beginning => req[r].claimed = Never /\ req[r].result = "none"
BY Constants DEF Basics, TypesOK, Request, InProgress, History, Active

(* Begin answers from a live row.                                          *)
LEMMA AnswerKeeps ==
  ASSUME IInv, NEW r \in Requests, req[r].pc \in Beginning,
         Live(req[r].key, req[r].at), AnswerFrom(r, entry[req[r].key]),
         \A k \in Keys : SameRow(k), StoreTyped',
         UNCHANGED <<now, backend, exposed, forgotten>>
  PROVE  IInv'
<1> USE Constants
<1> DEFINE k == req[r].key
<1>0. Basics /\ Active(r) /\ Beginning \subseteq PCs
  BY DEF IInv, Active, Beginning, PCs
<1>1. /\ req[r] \in Request /\ k \in Keys /\ req[r].fp \in Fps
      /\ req[r].at \in Nat /\ now \in Nat /\ req[r].at <= now
      /\ req[r].end <= now /\ req[r].pc \notin {"idle", "done", "dead"}
      /\ req[r].claimed = Never /\ req[r].result = "none"
  BY <1>0, ActiveRequest
<1>2. OnlyStaleDeleted
  BY DEF OnlyStaleDeleted
<1>3. ASSUME NEW result \in {"mismatch", "conflict"}, Answer(r, result),
             result = "conflict" => entry[k].resp = NoRequest
      PROVE  IInv'
  <2> DEFINE new == [req[r] EXCEPT !.pc = "done", !.proc = NoProcess,
                                   !.result = result]
  <2>1. req' = [req EXCEPT ![r] = new]
    BY <1>3 DEF Answer
  <2>2. new \in Request
    BY <1>1 DEF Request, PCs, Results
  <2>3. /\ new.pc = "done" /\ new.key = k /\ new.fp = req[r].fp
        /\ new.at = req[r].at /\ new.slow = req[r].slow /\ new.end = req[r].end
        /\ new.claimed = Never /\ new.result = result
    BY <1>1 DEF Request
  <2> HIDE DEF new
  <2>4. Basics'
    BY <1>0, <1>1, <2>1, <2>2, <2>3, BasicsOfStep DEF Beginning
  <2>5. req'[r] = new /\ \A q \in Requests \ {r} : req'[q] = req[q]
    BY <2>1, <1>0 DEF Basics, TypesOK
  <2>6. Moves(r)
    BY <2>3, <2>5 DEF Moves
  <2>7. result = "conflict" => Rival(r)
    <3> SUFFICES ASSUME result = "conflict" PROVE Rival(r)
      OBVIOUS
    <3>1. PICK q \in Requests : /\ req[q].key = k /\ req[q].claimed # Never
                                /\ entry[k].expires = req[q].at + InFlightTTL
      BY <1>1, <1>3 DEF IInv, ClaimWritten, InFlight, Live
    <3>2. q # r
      BY <3>1, <1>1
    <3> QED
      BY <3>1, <3>2 DEF Rival, Live
  <2> QED
    BY <1>0, <1>1, <1>2, <2>3, <2>4, <2>5, <2>6, <2>7, MoveKeeps DEF Running
<1>4. ASSUME entry[k].fp = req[r].fp, entry[k].resp # NoRequest,
             req' = [req EXCEPT ![r].pc = "done", ![r].proc = NoProcess,
                                ![r].result = "replay", ![r].from = entry[k].resp]
      PROVE  IInv'
  <2> DEFINE a == entry[k].resp
             new1 == [req[r] EXCEPT !.pc = "done", !.proc = NoProcess]
             new == [new1 EXCEPT !.result = "replay", !.from = a]
  <2>1. req' = [req EXCEPT ![r] = new]
    BY <1>4
  <2>2. /\ a \in Requests /\ req[a].pc = "done" /\ req[a].key = k
        /\ req[a].fp = entry[k].fp /\ entry[k].expires = req[a].end + TTL
    BY <1>1, <1>4 DEF IInv, ResponseOwned
  <2>3. new1 \in Request
    BY <1>1 DEF Request, PCs
  <2>4. /\ new1.pc = "done" /\ new1.key = k /\ new1.fp = req[r].fp
        /\ new1.at = req[r].at /\ new1.slow = req[r].slow /\ new1.end = req[r].end
        /\ new1.claimed = Never
    BY <1>1 DEF Request
  <2> HIDE DEF new1, a
  <2>5. new \in Request
    BY <2>2, <2>3 DEF Request, Results
  <2>6. /\ new.pc = "done" /\ new.key = k /\ new.fp = req[r].fp
        /\ new.at = req[r].at /\ new.slow = req[r].slow /\ new.end = req[r].end
        /\ new.claimed = Never /\ new.result = "replay" /\ new.from = a
    BY <2>3, <2>4 DEF Request
  <2> HIDE DEF new
  <2>7. Basics'
    BY <1>0, <1>1, <2>1, <2>5, <2>6, BasicsOfStep DEF Beginning
  <2>8. req'[r] = new /\ \A q \in Requests \ {r} : req'[q] = req[q]
    BY <2>1, <1>0 DEF Basics, TypesOK
  <2>9. Moves(r)
    BY <2>6, <2>8 DEF Moves
  <2>10. req[r].at < req[a].end + TTL
    BY <2>2 DEF Live, a
  <2> QED
    BY <1>0, <1>1, <1>2, <1>4, <2>2, <2>6, <2>7, <2>8, <2>9, <2>10, MoveKeeps DEF Running, a
<1> QED
  BY <1>3, <1>4 DEF AnswerFrom

(* Begin goes on to its next statement.                                    *)
LEMMA GotoKeeps ==
  ASSUME IInv, NEW r \in Requests, req[r].pc \in Beginning,
         NEW label \in Beginning, Goto(r, label),
         OnlyStaleDeleted, StoreTyped',
         UNCHANGED <<now, backend, exposed, forgotten>>,
         /\ label \in {"clear", "again"}
         /\ entry'[req[r].key] # NoEntry
         /\ label = "again" \/ Live(req[r].key, req[r].at)'
         => Rival(r)
  PROVE  IInv'
<1> USE Constants
<1> DEFINE k == req[r].key
           new == [req[r] EXCEPT !.pc = label]
<1>0. Basics /\ Active(r) /\ Beginning \subseteq PCs
      /\ label \notin {"idle", "done", "dead", "run", "finish"}
  BY DEF IInv, Active, Beginning, PCs
<1>1. /\ req[r] \in Request /\ req[r].end <= now
      /\ req[r].claimed = Never /\ req[r].result = "none"
  BY <1>0, ActiveRequest
<1>2. req' = [req EXCEPT ![r] = new]
  BY DEF Goto
<1>3. new \in Request
  BY <1>0, <1>1 DEF Request
<1>4. /\ new.pc = label /\ new.key = k /\ new.fp = req[r].fp /\ new.proc = req[r].proc
      /\ new.at = req[r].at /\ new.slow = req[r].slow /\ new.end = req[r].end
      /\ new.claimed = Never /\ new.result = "none"
  BY <1>1 DEF Request
<1> HIDE DEF new
<1>5. Basics'
  BY <1>0, <1>1, <1>2, <1>3, <1>4, BasicsOfStep
<1>6. req'[r] = new /\ \A q \in Requests \ {r} : req'[q] = req[q]
  BY <1>2, <1>0 DEF Basics, TypesOK
<1>7. Moves(r)
  BY <1>4, <1>6 DEF Moves
<1> QED
  BY <1>0, <1>1, <1>4, <1>5, <1>6, <1>7, MoveKeeps DEF Running

(* Begin writes the claim of r and the handler starts.                     *)
LEMMA RunKeeps ==
  ASSUME IInv, NEW r \in Requests, req[r].pc \in Beginning, RunHandler(r),
         ~Live(req[r].key, req[r].at), StoreTyped',
         entry'[req[r].key] = Claim(r), OthersKeptOrNoted(req[r].key),
         exposed \subseteq exposed', forgotten \subseteq forgotten',
         UNCHANGED <<now, backend>>
  PROVE  IInv'
<1> USE Constants
<1> DEFINE k == req[r].key
           new == [req[r] EXCEPT !.pc = "run", !.claimed = now]
<1>0. Basics /\ Active(r) /\ "run" \notin Beginning
  BY DEF IInv, Active, Beginning
<1>1. /\ req[r] \in Request /\ req[r].end <= now /\ now \in Nat
      /\ req[r].result = "none"
  BY <1>0, ActiveRequest
<1>2. req' = [req EXCEPT ![r] = new]
  BY DEF RunHandler
<1>3. new \in Request
  BY <1>1 DEF Request, PCs
<1>4. /\ new.pc = "run" /\ new.key = k /\ new.fp = req[r].fp /\ new.proc = req[r].proc
      /\ new.at = req[r].at /\ new.slow = req[r].slow /\ new.end = req[r].end
      /\ new.claimed = now /\ new.result = "none"
  BY <1>1 DEF Request
<1> HIDE DEF new
<1>5. Basics'
  <2>1. new.claimed \in 0 .. now
    BY <1>1, <1>4
  <2> QED
    BY <1>0, <1>1, <1>2, <1>3, <1>4, <2>1, BasicsOfStep
<1>6. req'[r] = new /\ \A q \in Requests \ {r} : req'[q] = req[q]
  BY <1>2, <1>0 DEF Basics, TypesOK
<1>7. Moves(r)
  BY <1>4, <1>6 DEF Moves
<1> QED
  BY <1>0, <1>1, <1>4, <1>5, <1>6, <1>7, ClaimKeeps

-----------------------------------------------------------------------------
(* The memory store's Begin.                                               *)
LEMMA MemoryBeginKeeps ==
  ASSUME IInv, NEW r \in Requests, MemoryBegin(r)
  PROVE  IInv'
<1> USE Constants
<1> DEFINE k == req[r].key
<1>0. Basics /\ TypesOK /\ req[r].pc \in Beginning
  BY DEF IInv, Basics, MemoryBegin, Beginning
<1>1. k \in Keys /\ req[r].at \in Nat /\ Claim(r) \in Entry /\ Active(r)
  BY <1>0, ClaimIsEntry, ActiveRequest
<1>2. CASE /\ Live(k, req[r].at)
           /\ AnswerFrom(r, entry[k])
           /\ IF entry[k].fp = req[r].fp /\ ~InFlight(k)
                THEN entry' = [entry EXCEPT ![k].accessed = req[r].at]
                ELSE entry' = entry
           /\ UNCHANGED <<exposed, forgotten>>
  <2>1. entry[k] \in Entry /\ entry[k] # NoEntry
    BY <1>2, <1>1, <1>0 DEF TypesOK, Live
  <2>2. [entry[k] EXCEPT !.accessed = req[r].at] \in Entry
    BY <2>1, <1>1 DEF Entry
  <2>3. Entry \cap {NoEntry} = {}
    BY DEF Entry, NoEntry
  <2>4. \A j \in Keys : SameRow(j)
    BY <1>2, <1>1, <1>0, <2>1, <2>2, <2>3 DEF SameRow, TypesOK, Entry
  <2>5. StoreTyped'
    BY <1>2, <1>0, <1>1, <2>2 DEF TypesOK, StoreTyped, MemoryBegin
  <2> QED
    BY <1>2, <1>0, <2>4, <2>5, AnswerKeeps DEF MemoryBegin
<1>3. CASE /\ ~Live(k, req[r].at) /\ RunHandler(r)
           /\ Put(k, Claim(r)) /\ UNCHANGED <<exposed, forgotten>>
  <2>1. entry'[k] = Claim(r) /\ OthersKeptOrNoted(k)
    BY <1>3, <1>0, <1>1 DEF Put, OthersKeptOrNoted, TypesOK
  <2>2. StoreTyped'
    BY <1>3, <1>0, <1>1 DEF TypesOK, StoreTyped, MemoryBegin, Put
  <2> QED
    BY <1>3, <1>0, <2>1, <2>2, RunKeeps DEF MemoryBegin
<1>4. CASE ~Live(k, req[r].at) /\ RunHandler(r) /\ EvictLocked(r)
  <2>1. PICK V \in Victims :
          /\ entry' = [j \in Keys |-> IF j = k THEN Claim(r)
                                      ELSE IF j \in V THEN NoEntry ELSE entry[j]]
          /\ exposed' = exposed \cup {j \in V : InFlight(j) /\ Live(j, now)}
          /\ forgotten' = forgotten \cup {j \in V : ~InFlight(j) /\ Live(j, now)}
    BY <1>4 DEF EvictLocked
  <2>2. V \subseteq Keys
    BY DEF Victims, Resident
  <2>3. entry'[k] = Claim(r)
    BY <2>1, <1>1
  <2>4. OthersKeptOrNoted(k)
    <3> SUFFICES ASSUME NEW j \in Keys \ {k}, j \in V
                 PROVE  /\ entry'[j] = NoEntry
                        /\ \/ ~Live(j, now)
                           \/ InFlight(j) /\ j \in exposed'
                           \/ ~InFlight(j) /\ j \in forgotten'
      BY <2>1 DEF OthersKeptOrNoted
    <3> QED
      BY <2>1
  <2>5. StoreTyped'
    BY <2>1, <2>2, <1>0, <1>1 DEF TypesOK, StoreTyped, MemoryBegin
  <2> QED
    BY <1>4, <1>0, <2>1, <2>3, <2>4, <2>5, RunKeeps DEF MemoryBegin
<1> QED
  BY <1>2, <1>3, <1>4 DEF MemoryBegin

(* The SQL store's Begin, statement by statement.                          *)
LEMMA SQLBeginKeeps ==
  ASSUME IInv, NEW r \in Requests, SQLBegin(r)
  PROVE  IInv'
<1> USE Constants
<1>1. req[r].pc \in Beginning /\ {"reap", "insert"} \subseteq Beginning
  BY DEF SQLBegin, Beginning
<1>2. OnlyStaleDeleted /\ UNCHANGED <<now, backend, exposed, forgotten, entry>>
  BY DEF SQLBegin, losses, OnlyStaleDeleted, SameRow
<1>3. req[r].at \in Nat
  BY <1>1, ActiveRequest, ClaimIsEntry DEF IInv
<1>4. StoreTyped'
  BY <1>3 DEF SQLBegin, losses, StoreTyped, IInv, Basics, TypesOK
<1> QED
  BY <1>1, <1>2, <1>4, GotoKeeps DEF SQLBegin

(* The reap deletes only what has expired.                                 *)
LEMMA ReapKeeps ==
  ASSUME IInv, NEW r \in Requests, Reap(r)
  PROVE  IInv'
<1> USE Constants
<1>1. req[r].pc \in Beginning /\ "insert" \in Beginning
  BY DEF Reap, Beginning
<1>2. req[r].at \in Nat /\ now \in Nat /\ req[r].at <= now /\ TypesOK
  BY <1>1, ActiveRequest, ClaimIsEntry DEF IInv, Basics
<1>3. \A k \in Keys : ~Live(k, req[r].at) => ~Live(k, now)
  BY <1>2 DEF Live, TypesOK, Entry, NoEntry
<1>4. OnlyStaleDeleted
  BY <1>3 DEF Reap, DeleteKeys, OnlyStaleDeleted, SameRow
<1>5. StoreTyped'
  BY <1>2 DEF Reap, DeleteKeys, losses, StoreTyped, TypesOK
<1> QED
  BY <1>1, <1>4, <1>5, GotoKeeps DEF Reap, losses

(* The INSERT took the key: no row, hence no live one.                     *)
LEMMA InsertsKeeps ==
  ASSUME IInv, NEW r \in Requests, req[r].pc \in Beginning, Inserts(r),
         UNCHANGED <<now, backend, lastReap, losses>>
  PROVE  IInv'
<1> USE Constants
<1> DEFINE k == req[r].key
<1>0. Basics /\ TypesOK
  BY DEF IInv, Basics
<1>1. k \in Keys /\ Claim(r) \in Entry
  BY <1>0, ClaimIsEntry
<1>2. ~Live(k, req[r].at)
  BY DEF Inserts, Live
<1>3. entry'[k] = Claim(r) /\ OthersKeptOrNoted(k)
  BY <1>0, <1>1 DEF Inserts, Put, OthersKeptOrNoted, TypesOK
<1>4. StoreTyped'
  BY <1>0, <1>1 DEF Inserts, Put, losses, StoreTyped, TypesOK
<1> QED
  BY <1>2, <1>3, <1>4, RunKeeps DEF Inserts, losses

(* The INSERT claims a free key, or goes on to read.                       *)
LEMMA InsertKeeps ==
  ASSUME IInv, NEW r \in Requests, Insert(r)
  PROVE  IInv'
<1> USE Constants
<1>1. req[r].pc \in Beginning /\ "read" \in Beginning
  BY DEF Insert, Beginning
<1>2. CASE Inserts(r)
  BY <1>1, <1>2, InsertsKeeps DEF Insert
<1>3. CASE Conflicts(r) /\ Goto(r, "read")
  <2>1. OnlyStaleDeleted
    BY <1>3 DEF Conflicts, OnlyStaleDeleted, SameRow
  <2>2. StoreTyped'
    BY <1>3 DEF Conflicts, Insert, losses, StoreTyped, IInv, Basics, TypesOK
  <2> QED
    BY <1>1, <1>3, <2>1, <2>2, GotoKeeps DEF Insert, losses
<1> QED
  BY <1>2, <1>3 DEF Insert

(* The SELECT answers the request, or finds a stale row.                   *)
LEMMA ReadKeeps ==
  ASSUME IInv, NEW r \in Requests, Read(r)
  PROVE  IInv'
<1> USE Constants
<1>1. req[r].pc \in Beginning /\ "clear" \in Beginning
  BY DEF Read, Beginning
<1>2. OnlyStaleDeleted /\ \A k \in Keys : SameRow(k)
  BY DEF Read, OnlyStaleDeleted, SameRow
<1>3. StoreTyped' /\ UNCHANGED <<now, backend, exposed, forgotten, entry>>
  BY DEF Read, losses, StoreTyped, IInv, Basics, TypesOK
<1>4. CASE Live(req[r].key, req[r].at)
  BY <1>1, <1>2, <1>3, <1>4, AnswerKeeps DEF Read
<1>5. CASE ~Live(req[r].key, req[r].at)
  <2>1. ~Live(req[r].key, req[r].at)'
    BY <1>3, <1>5 DEF Live, Read, Goto, IInv, Basics, TypesOK, Request
  <2> QED
    BY <1>1, <1>2, <1>3, <1>5, <2>1, GotoKeeps DEF Read
<1> QED
  BY <1>4, <1>5

(* What the expiry-gated DELETE leaves is live: a rival wrote it.          *)
LEMMA ClearKeeps ==
  ASSUME IInv, NEW r \in Requests, Clear(r)
  PROVE  IInv'
<1> USE Constants
<1> DEFINE k == req[r].key
<1>1. req[r].pc \in Beginning /\ "again" \in Beginning
  BY DEF Clear, Beginning
<1>2. /\ req[r].at \in Nat /\ now \in Nat /\ req[r].at <= now /\ TypesOK
      /\ k \in Keys
  BY <1>1, ActiveRequest, ClaimIsEntry DEF IInv, Basics
<1>3. \A j \in Keys : ~Live(j, req[r].at) => ~Live(j, now)
  BY <1>2 DEF Live, TypesOK, Entry, NoEntry
<1>4. OnlyStaleDeleted
  BY <1>3 DEF Clear, DeleteKeys, OnlyStaleDeleted, SameRow
<1>5. StoreTyped'
  BY <1>2 DEF Clear, DeleteKeys, losses, StoreTyped, TypesOK
<1>6. entry'[k] # NoEntry => Rival(r)
  <2> SUFFICES ASSUME entry'[k] # NoEntry PROVE Rival(r)
    OBVIOUS
  <2>1. Live(k, req[r].at)
    BY <1>2 DEF Clear, DeleteKeys
  <2> QED
    BY <2>1 DEF Live, Clear, IInv, StaleReplaced
<1> QED
  BY <1>1, <1>4, <1>5, <1>6, GotoKeeps DEF Clear, losses

(* A request that goes on from a row of its own record, without a claim.   *)
LEMMA RecordMoves ==
  ASSUME IInv, NEW r \in Requests, Active(r), OnlyStaleDeleted, StoreTyped',
         UNCHANGED <<now, backend, exposed, forgotten>>,
         NEW new \in Request, req' = [req EXCEPT ![r] = new],
         new.key = req[r].key, new.fp = req[r].fp,
         new.at = req[r].at, new.slow = req[r].slow, new.end = req[r].end,
         new.claimed = req[r].claimed,
         new.proc = req[r].proc \/ new.pc = "done",
         \/ new.pc = "finish" /\ req[r].pc = "run"
         \/ new.pc = "unkeyed" /\ new.result = "none"
         \/ new.pc = "done" /\ new.result # "kept",
         new.result # "replay",
         new.result = "conflict" => new.pc = "done" /\ Rival(r)
  PROVE  IInv'
<1> USE Constants
<1>0. Basics /\ new.pc \notin Beginning \cup {"idle", "dead", "run"}
  BY DEF IInv, Beginning
<1>1. req[r].end <= now /\ (req[r].pc = "run" => req[r].claimed \in 0 .. now)
  BY DEF IInv, Basics, History, Running
<1>2. Basics'
  BY <1>0, <1>1, BasicsOfStep
<1>3. req'[r] = new /\ \A q \in Requests \ {r} : req'[q] = req[q]
  BY <1>0 DEF Basics, TypesOK
<1>4. Moves(r)
  BY <1>3 DEF Moves
<1>5. Running(r)' => Running(r)
  BY <1>0, <1>3 DEF Running
<1> QED
  BY <1>0, <1>2, <1>3, <1>4, <1>5, MoveKeeps DEF Beginning

(* The second INSERT meets a row only if a rival wrote it.                 *)
LEMMA InsertAgainKeeps ==
  ASSUME IInv, NEW r \in Requests, InsertAgain(r)
  PROVE  IInv'
<1> USE Constants
<1>1. req[r].pc \in Beginning /\ Active(r) /\ req[r].pc = "again"
  BY DEF InsertAgain, Beginning, Active
<1>2. CASE Inserts(r)
  BY <1>1, <1>2, InsertsKeeps DEF InsertAgain
<1>3. CASE Conflicts(r) /\ Answer(r, "conflict")
  <2> DEFINE new == [req[r] EXCEPT !.pc = "done", !.proc = NoProcess,
                                   !.result = "conflict"]
  <2>0. req[r] \in Request
    BY <1>1, ActiveRequest DEF IInv
  <2>1. req' = [req EXCEPT ![r] = new]
    BY <1>3 DEF Answer
  <2>2. new \in Request
    BY <2>0 DEF Request, PCs, Results
  <2>3. /\ new.pc = "done" /\ new.key = req[r].key /\ new.fp = req[r].fp
        /\ new.at = req[r].at /\ new.slow = req[r].slow /\ new.end = req[r].end
        /\ new.claimed = req[r].claimed /\ new.result = "conflict"
    BY <2>0 DEF Request
  <2> HIDE DEF new
  <2>4. Rival(r)
    BY <1>1, <1>3 DEF Conflicts, IInv, StaleReplaced
  <2>5. OnlyStaleDeleted
    BY <1>3 DEF Conflicts, OnlyStaleDeleted, SameRow
  <2>6. StoreTyped'
    BY <1>3 DEF Conflicts, InsertAgain, losses, StoreTyped, IInv, Basics, TypesOK
  <2> QED
    BY <1>1, <2>1, <2>2, <2>3, <2>4, <2>5, <2>6, RecordMoves DEF InsertAgain, losses
<1> QED
  BY <1>2, <1>3 DEF InsertAgain

(* The handler returns.                                                    *)
LEMMA HandleKeeps ==
  ASSUME IInv, NEW r \in Requests, Handle(r)
  PROVE  IInv'
<1> USE Constants
<1>1. PICK result \in {"kept", "released", "large"} :
        req' = [req EXCEPT ![r].pc = "finish", ![r].result = result]
  BY DEF Handle
<1> DEFINE new == [req[r] EXCEPT !.pc = "finish", !.result = result]
<1>2. req[r] \in Request /\ req[r].pc = "run" /\ Active(r)
  BY ActiveRequest DEF IInv, Handle, Active
<1>3. req' = [req EXCEPT ![r] = new]
  BY <1>1
<1>4. new \in Request
  BY <1>2 DEF Request, PCs, Results
<1>5. /\ new.pc = "finish" /\ new.key = req[r].key /\ new.fp = req[r].fp
      /\ new.at = req[r].at /\ new.slow = req[r].slow /\ new.end = req[r].end
      /\ new.claimed = req[r].claimed /\ new.result = result /\ new.proc = req[r].proc
  BY <1>2 DEF Request
<1> HIDE DEF new
<1>6. OnlyStaleDeleted
  BY DEF Handle, OnlyStaleDeleted, SameRow
<1>7. StoreTyped'
  BY DEF Handle, losses, StoreTyped, IInv, Basics, TypesOK
<1> QED
  BY <1>2, <1>3, <1>4, <1>5, <1>6, <1>7, RecordMoves DEF Handle, losses

(* A handler under FailOpen touches no key.                                *)
LEMMA HandleUnkeyedKeeps ==
  ASSUME IInv, NEW r \in Requests, HandleUnkeyed(r)
  PROVE  IInv'
<1> USE Constants
<1> DEFINE new == [req[r] EXCEPT !.pc = "done", !.proc = NoProcess,
                                 !.result = "unkeyed"]
<1>1. req[r] \in Request /\ Active(r)
  BY ActiveRequest DEF IInv, HandleUnkeyed, Active
<1>2. req' = [req EXCEPT ![r] = new]
  BY DEF HandleUnkeyed, Answer
<1>3. new \in Request
  BY <1>1 DEF Request, PCs, Results
<1>4. /\ new.pc = "done" /\ new.key = req[r].key /\ new.fp = req[r].fp
      /\ new.at = req[r].at /\ new.slow = req[r].slow /\ new.end = req[r].end
      /\ new.claimed = req[r].claimed /\ new.result = "unkeyed"
  BY <1>1 DEF Request
<1> HIDE DEF new
<1>5. OnlyStaleDeleted
  BY DEF HandleUnkeyed, OnlyStaleDeleted, SameRow
<1>6. StoreTyped'
  BY DEF HandleUnkeyed, losses, StoreTyped, IInv, Basics, TypesOK
<1> QED
  BY <1>1, <1>2, <1>3, <1>4, <1>5, <1>6, RecordMoves DEF HandleUnkeyed, losses

-----------------------------------------------------------------------------
(* Finish of either store, and its failure.                                *)
LEMMA LeaveBasics ==
  ASSUME Basics, NEW r \in Requests, req[r].pc = "finish", Leave(r), StoreTyped',
         UNCHANGED <<now, backend>>
  PROVE  /\ Basics'
         /\ \A q \in Requests \ {r} : req'[q] = req[q]
         /\ req'[r] = [req[r] EXCEPT !.pc = "done", !.proc = NoProcess, !.end = now]
<1> USE Constants
<1> DEFINE new == [req[r] EXCEPT !.pc = "done", !.proc = NoProcess, !.end = now]
<1>1. /\ req[r] \in Request /\ Active(r) /\ now \in Nat
      /\ req[r].result \notin {"replay", "conflict"}
  BY ActiveRequest DEF Active
<1>2. req' = [req EXCEPT ![r] = new]
  BY DEF Leave
<1>3. new \in Request
  BY <1>1 DEF Request, PCs
<1>4. /\ new.pc = "done" /\ new.key = req[r].key /\ new.fp = req[r].fp
      /\ new.at = req[r].at /\ new.slow = req[r].slow /\ new.end = now
      /\ new.result = req[r].result
  BY <1>1 DEF Request
<1> HIDE DEF new
<1>5. Basics'
  <2>1. new.end <= now /\ new.pc \notin Beginning
    BY <1>1, <1>4 DEF Beginning
  <2> QED
    BY <1>1, <1>2, <1>3, <1>4, <2>1, BasicsOfStep
<1>6. req'[r] = new /\ \A q \in Requests \ {r} : req'[q] = req[q]
  BY <1>2 DEF Basics, TypesOK
<1> QED
  BY <1>5, <1>6 DEF new

(* Finish keeps the response or releases the claim.                        *)
LEMMA FinishKeeps ==
  ASSUME IInv, NEW r \in Requests, Finish(r)
  PROVE  IInv'
<1> USE Constants
<1> DEFINE k == req[r].key
<1>0. Basics /\ TypesOK /\ Active(r) /\ req[r].pc = "finish"
  BY DEF IInv, Basics, Finish, Active
<1>1. k \in Keys /\ now \in Nat /\ req[r].fp \in Fps
  BY <1>0, ActiveRequest
<1>2. OwnRow(r) => Kept(r) \in Entry
  <2> SUFFICES ASSUME OwnRow(r) PROVE Kept(r) \in Entry
    OBVIOUS
  <2>1. entry[k] \in Entry
    BY <1>0, <1>1 DEF OwnRow, TypesOK, NoEntry
  <2> DEFINE e1 == [entry[k] EXCEPT !.resp = r]
             e2 == [e1 EXCEPT !.expires = now + TTL]
  <2>2. e1 \in Entry
    BY <2>1 DEF Entry
  <2> HIDE DEF e1
  <2>3. e2 \in Entry
    BY <2>2, <1>1 DEF Entry
  <2> HIDE DEF e2
  <2>4. [e2 EXCEPT !.accessed = now] \in Entry
    BY <2>3, <1>1 DEF Entry
  <2> QED
    BY <2>4 DEF Kept, e1, e2
<1>3. StoreTyped'
  BY <1>0, <1>1, <1>2 DEF Finish, losses, StoreTyped, TypesOK
<1>4. \A j \in Keys \ {k} : entry'[j] = entry[j]
  BY <1>0, <1>1 DEF Finish, TypesOK
<1>5. \/ ~OwnRow(r) /\ entry'[k] = entry[k]
      \/ OwnRow(r) /\ req[r].result = "kept" /\ entry'[k] = Kept(r)
      \/ OwnRow(r) /\ req[r].result # "kept" /\ entry'[k] = NoEntry
  BY <1>0, <1>1 DEF Finish, TypesOK
<1>6. Leave(r) /\ UNCHANGED <<now, backend, exposed, forgotten>>
  BY DEF Finish, losses
<1> QED
  BY <1>0, <1>3, <1>4, <1>5, <1>6, LeaveBasics, LeaveKeeps

(* A failed Finish leaves the claim behind.                                *)
LEMMA FinishFailsKeeps ==
  ASSUME IInv, NEW r \in Requests, FinishFails(r)
  PROVE  IInv'
<1> USE Constants
<1>0. Basics /\ TypesOK /\ Active(r) /\ req[r].pc = "finish"
  BY DEF IInv, Basics, FinishFails, Active
<1>1. req[r].key \in Keys
  BY <1>0, ActiveRequest
<1>2. StoreTyped'
  BY <1>0, <1>1 DEF FinishFails, Fault, StoreTyped, TypesOK
<1> QED
  BY <1>0, <1>2, LeaveBasics, LeaveKeeps DEF FinishFails

-----------------------------------------------------------------------------
(* A statement of Begin fails: the claim it may have written stays behind. *)
LEMMA BeginFailsKeeps ==
  ASSUME IInv, NEW r \in Requests, BeginFails(r)
  PROVE  IInv'
<1> USE Constants
<1> DEFINE k == req[r].key
           label == IF req[r].proc \in FailOpen THEN "unkeyed" ELSE "done"
           result == IF req[r].proc \in FailOpen THEN "none" ELSE "down"
<1>0. /\ Basics /\ TypesOK /\ req[r].pc \in Beginning /\ "insert" \in Beginning
      /\ UNCHANGED <<now, backend, exposed, forgotten, lastReap>>
      /\ faults' \in 0 .. MaxFaults
  BY DEF IInv, Basics, TypesOK, BeginFails, Beginning, Fault
<1>1. Active(r) /\ Claim(r) \in Entry /\ k \in Keys
  BY <1>0, ClaimIsEntry
<1>2. /\ req[r] \in Request /\ now \in Nat /\ req[r].end <= now
      /\ req[r].claimed = Never
  BY <1>0, <1>1, ActiveRequest
<1>3. CASE entry' = entry /\ Goto(r, "insert")
  <2>1. OnlyStaleDeleted
    BY <1>3 DEF OnlyStaleDeleted, SameRow
  <2>2. StoreTyped'
    BY <1>0, <1>3 DEF StoreTyped, TypesOK
  <2> QED
    BY <1>0, <1>3, <2>1, <2>2, GotoKeeps
<1>4. ASSUME NEW did \in BOOLEAN, did => entry[k] = NoEntry,
             entry' = IF did THEN [entry EXCEPT ![k] = Claim(r)] ELSE entry,
             req' = [req EXCEPT ![r].pc = label, ![r].result = result,
                                ![r].claimed = IF did THEN now ELSE @]
      PROVE  IInv'
  <2> DEFINE claimed == IF did THEN now ELSE Never
             new == [req[r] EXCEPT !.pc = label, !.result = result,
                                   !.claimed = claimed]
  <2>1. req' = [req EXCEPT ![r] = new]
    BY <1>2, <1>4
  <2>2. /\ label \in {"unkeyed", "done"} /\ result \in {"none", "down"}
        /\ label = "unkeyed" => result = "none"
        /\ claimed \in Nat \cup {Never}
    BY <1>2
  <2> HIDE DEF label, result, claimed
  <2>3. new \in Request
    BY <1>2, <2>2 DEF Request, PCs, Results
  <2>4. /\ new.pc = label /\ new.key = k /\ new.fp = req[r].fp /\ new.proc = req[r].proc
        /\ new.at = req[r].at /\ new.slow = req[r].slow /\ new.end = req[r].end
        /\ new.claimed = claimed /\ new.result = result
    BY <1>2 DEF Request
  <2> HIDE DEF new
  <2>5. StoreTyped'
    BY <1>0, <1>1, <1>4 DEF StoreTyped, TypesOK
  <2>6. CASE did
    <3>1. claimed = now /\ ~Live(k, req[r].at)
      BY <2>6, <1>4 DEF claimed, Live
    <3>2. entry'[k] = Claim(r) /\ OthersKeptOrNoted(k)
      BY <2>6, <1>0, <1>1, <1>4 DEF OthersKeptOrNoted, TypesOK
    <3>3. Basics'
      BY <1>0, <1>1, <1>2, <2>1, <2>2, <2>3, <2>4, <2>5, BasicsOfStep DEF Beginning
    <3>4. req'[r] = new /\ \A q \in Requests \ {r} : req'[q] = req[q]
      BY <2>1, <1>0 DEF TypesOK
    <3>5. Moves(r)
      BY <1>0, <2>4, <3>4 DEF Moves
    <3> QED
      BY <1>0, <2>2, <2>4, <3>1, <3>2, <3>3, <3>4, <3>5, ClaimKeeps
  <2>7. CASE ~did
    <3>1. claimed = req[r].claimed
      BY <2>7, <1>2 DEF claimed
    <3>2. OnlyStaleDeleted
      BY <2>7, <1>4 DEF OnlyStaleDeleted, SameRow
    <3> QED
      BY <1>0, <1>1, <2>1, <2>2, <2>3, <2>4, <2>5, <3>1, <3>2, RecordMoves
  <2> QED
    BY <2>6, <2>7
<1> HIDE DEF label, result
<1> QED
  BY <1>3, <1>4 DEF BeginFails, label, result

-----------------------------------------------------------------------------
(* The environment.                                                        *)
LEMMA ArriveKeeps ==
  ASSUME IInv, NEW r \in Requests, NEW p \in Processes, NEW k \in Keys,
         NEW f \in Fps, Arrive(r, p, k, f)
  PROVE  IInv'
<1> USE Constants
<1>1. Basics'
  BY ArriveTypes DEF IInv
<1>2. now \in Nat /\ req \in [Requests -> Request]
  BY DEF IInv, Basics, TypesOK
<1>3. \A q \in Requests \ {r} : req'[q] = req[q]
  BY <1>2 DEF Arrive
<1>4. /\ req[r].pc = "idle" /\ req'[r].pc = "begin" /\ req'[r].result = "none"
      /\ req'[r].claimed = Never
  BY <1>2 DEF Arrive, Idle
<1>5. ASSUME NEW q \in Requests PROVE Ages(q)
  BY <1>3, <1>4 DEF Ages, IInv, Basics, History, Running, Beginning
<1> QED
  BY <1>1, <1>2, <1>5, FadeKeeps DEF Arrive, losses

(* A request that overran its claim exempts its key.                       *)
LEMMA OverrunKeeps ==
  ASSUME IInv, NEW r \in Requests, Overrun(r)
  PROVE  IInv'
<1> USE Constants
<1> DEFINE new == [req[r] EXCEPT !.slow = TRUE]
<1>1. now \in Nat /\ req \in [Requests -> Request] /\ req[r] \in Request /\ TypesOK
  BY DEF IInv, Basics, TypesOK
<1>2. req' = [req EXCEPT ![r] = new]
  BY DEF Overrun
<1>3. new \in Request
  BY <1>1 DEF Request
<1>4. /\ new.pc = req[r].pc /\ new.key = req[r].key /\ new.fp = req[r].fp
      /\ new.proc = req[r].proc /\ new.at = req[r].at /\ new.slow
      /\ new.end = req[r].end /\ new.claimed = req[r].claimed
      /\ new.result = req[r].result /\ new.from = req[r].from
  BY <1>1 DEF Request
<1> HIDE DEF new
<1>5. req'[r] = new /\ \A q \in Requests \ {r} : req'[q] = req[q]
  BY <1>1, <1>2
<1>6. TypesOK'
  <2>1. req' \in [Requests -> Request]
    BY <1>1, <1>2, <1>3
  <2>2. faults' \in 0 .. MaxFaults
    BY <1>1 DEF TypesOK, Overrun, Fault
  <2> QED
    BY <1>1, <2>1, <2>2 DEF TypesOK, Overrun
<1>7. InProgress'
  BY <1>4, <1>5 DEF IInv, Basics, InProgress, Active, Overrun
<1>8. History'
  BY <1>4, <1>5 DEF IInv, Basics, History, Running, Overrun, Active
<1>9. ASSUME NEW q \in Requests PROVE Ages(q)
  BY <1>4, <1>5 DEF Ages, IInv, Basics, History, Running, Beginning
<1> QED
  BY <1>1, <1>6, <1>7, <1>8, <1>9, FadeKeeps DEF Overrun, Basics

(* With a memory store every request in progress is of the one process, so *)
(* none survives the loss of the store.                                    *)
LEMMA CrashKeeps ==
  ASSUME IInv, NEW p \in Processes, Crash(p)
  PROVE  IInv'
<1> USE Constants
<1>1. now \in Nat /\ req \in [Requests -> Request] /\ TypesOK /\ now' = now
  BY DEF IInv, Basics, TypesOK, Crash
<1>2. ASSUME NEW q \in Requests, Active(q), req[q].proc = p
      PROVE  /\ req'[q] \in Request /\ req'[q].pc = "dead"
             /\ req'[q].key = req[q].key /\ req'[q].fp = req[q].fp
             /\ req'[q].at = req[q].at /\ req'[q].slow = req[q].slow
             /\ req'[q].end = req[q].end /\ req'[q].claimed = req[q].claimed
             /\ req'[q].result = req[q].result /\ req'[q].from = req[q].from
  <2>1. req'[q] = [req[q] EXCEPT !.pc = "dead"] /\ req[q] \in Request
    BY <1>1, <1>2 DEF Crash
  <2> QED
    BY <2>1 DEF Request, PCs
<1>3. \A q \in Requests : ~(Active(q) /\ req[q].proc = p) => req'[q] = req[q]
  BY DEF Crash
<1>4. req' \in [Requests -> Request]
  <2>1. DOMAIN req' = Requests /\ req' = [q \in Requests |-> req'[q]]
    BY DEF Crash
  <2>2. \A q \in Requests : req'[q] \in Request
    BY <1>1, <1>2, <1>3
  <2> QED
    BY <2>1, <2>2
<1>5. TypesOK'
  BY <1>1, <1>4 DEF TypesOK, Crash, Fault, DeleteKeys
<1>6. InProgress'
  BY <1>1, <1>2, <1>3 DEF IInv, Basics, InProgress, Active, Crash
<1>7. History'
  BY <1>1, <1>2, <1>3 DEF IInv, Basics, History, Running, Active, Beginning
<1>8. ASSUME NEW q \in Requests PROVE Ages(q)
  BY <1>1, <1>2, <1>3 DEF Ages, Active, IInv, Basics, History, Running, Beginning
<1>9. CASE backend = "memory"
  <2>1. p = MemoryProcess
    BY <1>9 DEF Crash, IInv, Basics, InProgress
  <2>2. \A q \in Requests : ~Running(q)'
    BY <2>1, <1>2, <1>3, <1>9 DEF Running, Active, IInv, Basics, InProgress
  <2>3. \A k \in Keys : entry'[k] = NoEntry /\ k \in forgotten'
    BY <1>9 DEF Crash, DeleteKeys
  <2>4. exposed' = exposed /\ forgotten \subseteq forgotten'
    BY <1>9, <1>1 DEF Crash, TypesOK
  <2> QED
    BY <1>1, <1>5, <1>6, <1>7, <1>8, <2>2, <2>3, <2>4, FadeKeeps DEF Basics
<1>10. CASE backend # "memory"
  BY <1>1, <1>5, <1>6, <1>7, <1>8, <1>10, FadeKeeps DEF Crash, Basics
<1> QED
  BY <1>9, <1>10

(* An erasure takes a claim or a response away.                            *)
LEMMA EraseKeeps ==
  ASSUME IInv, NEW k \in Keys, Erase(k)
  PROVE  IInv'
<1> USE Constants
<1>1. now \in Nat /\ TypesOK
  BY DEF IInv, Basics, TypesOK
<1>2. Basics'
  <2>1. TypesOK'
    BY <1>1 DEF TypesOK, Erase, Put, Fault
  <2>2. InProgress' /\ History'
    BY DEF IInv, Basics, InProgress, History, Active, Running, Erase
  <2> QED
    BY <2>1, <2>2 DEF Basics
<1>3. ASSUME NEW q \in Requests PROVE Ages(q)
  BY DEF Ages, Erase, IInv, Basics, History, Running, Beginning
<1>4. \A j \in Keys : entry'[j] = entry[j] \/ (entry'[j] = NoEntry /\ j \in exposed')
  BY <1>1 DEF Erase, Put, TypesOK
<1> QED
  BY <1>1, <1>2, <1>3, <1>4, FadeKeeps DEF Erase

(* Time passes only within the latency of the requests in progress.        *)
LEMMA TickKeeps ==
  ASSUME IInv, Tick
  PROVE  IInv'
<1> USE Constants
<1>1. now \in Nat /\ now' = now + 1 /\ TypesOK /\ req' = req
  BY DEF IInv, Basics, TypesOK, Tick
<1>2. Basics'
  <2>1. TypesOK'
    BY <1>1 DEF TypesOK, Tick, losses
  <2>2. \A q \in Requests : req[q].at \in Nat /\ req[q].end \in Nat
    BY <1>1 DEF TypesOK, Request
  <2>3. InProgress'
    BY <1>1, <2>2 DEF IInv, Basics, InProgress, Active, Tick
  <2>4. History'
    BY <1>1, <2>2 DEF IInv, Basics, History, Running, Tick
  <2> QED
    BY <2>1, <2>3, <2>4 DEF Basics
<1>3. ASSUME NEW q \in Requests PROVE Ages(q)
  BY <1>1 DEF Ages, IInv, Basics, History, Running, Beginning
<1> QED
  BY <1>1, <1>2, <1>3, FadeKeeps DEF Tick, losses

-----------------------------------------------------------------------------
(* A step that changes nothing.                                            *)
LEMMA StutterKeeps ==
  ASSUME IInv, UNCHANGED vars
  PROVE  IInv'
BY DEF vars, IInv, Basics, TypesOK, InProgress, History, ClaimHeld, OneAtATime,
   ResponseOwned, ReplaySettled, ReplayIsOwn, ClaimWritten, StaleReplaced,
   LockedBriefly, KeptLasts, KeptFirst, AtMostOnce, Active, Running, Clean, Slow,
   Keeps, Rival, InFlight, Live

(* IInv is inductive.                                                      *)
LEMMA Inductive == IInv /\ [Next]_vars => IInv'
<1> SUFFICES ASSUME IInv, [Next]_vars
             PROVE  IInv'
  OBVIOUS
<1>1. ASSUME NEW r \in Requests, NEW p \in Processes, NEW k \in Keys, NEW f \in Fps,
             Arrive(r, p, k, f)
      PROVE  IInv'
  BY <1>1, ArriveKeeps
<1>2. ASSUME NEW r \in Requests, Step(r)
      PROVE  IInv'
  BY <1>2, MemoryBeginKeeps, SQLBeginKeeps, ReapKeeps, InsertKeeps, ReadKeeps,
     ClearKeeps, InsertAgainKeeps, FinishKeeps, HandleKeeps, HandleUnkeyedKeeps,
     BeginFailsKeeps, FinishFailsKeeps
     DEF Step, MemoryFinish, SQLFinish
<1>3. CASE Environment
  BY <1>3, OverrunKeeps, CrashKeeps, EraseKeeps, TickKeeps DEF Environment
<1>4. CASE UNCHANGED vars
  BY <1>4, StutterKeeps
<1> QED
  BY <1>1, <1>2, <1>3, <1>4 DEF Next

(* The inductive invariant is one of every behaviour.                      *)
LEMMA Invariance == Spec => []IInv
<1>1. Init => IInv
  BY InitKeeps
<1>2. IInv /\ [Next]_vars => IInv'
  BY Inductive
<1> QED
  BY <1>1, <1>2, PTL DEF Spec

(* The store, the requests and the ghosts keep their types under every     *)
(* statement of both stores and every fault; a request in progress always  *)
(* has its key and its fingerprint.                                        *)
THEOREM IdempotencyTypes == Spec => []IdempotencyTypeOK
<1>1. IInv => IdempotencyTypeOK
  BY DEF IInv, Basics, TypesOK, History, IdempotencyTypeOK, Active
<1> QED
  BY <1>1, Invariance, PTL

(* Two handlers of one key never run at once, in either store, unless a    *)
(* request outlived the in-flight TTL, the key was erased or, in memory,   *)
(* the cap shed a claim: the interleaving of the statements of Begin       *)
(* (reap, INSERT, SELECT, gated DELETE, INSERT again) of any number of     *)
(* requests on any number of processes gives the claim to one of them.     *)
THEOREM HandlersExclude == Spec => []OneAtATime
<1>1. IInv => OneAtATime
  BY DEF IInv
<1> QED
  BY <1>1, Invariance, PTL

(* At most one execution of a key is answered with a response to keep      *)
(* within the TTL of another such answer, unless the response was lost.    *)
THEOREM ExecutedAtMostOnce == Spec => []AtMostOnce
<1>1. IInv => AtMostOnce
  BY DEF IInv
<1> QED
  BY <1>1, Invariance, PTL

(* A replayed response is that of an answered request of the same key and  *)
(* fingerprint, within its TTL, whoever wrote to the row in between and    *)
(* however late: no exception is made for overruns, erasures or crashes.   *)
THEOREM ReplaysAreOwn == Spec => []ReplayIsOwn
<1>1. IInv => ReplayIsOwn
  BY DEF IInv
<1> QED
  BY <1>1, Invariance, PTL

(* A request is told 409 only for a claim another request took within the  *)
(* in-flight TTL, also when the claim's owner crashed or its Finish was    *)
(* lost: a dead claim never locks a key for longer.                        *)
THEOREM ConflictsAreRecent == Spec => []LockedBriefly
<1>1. IInv => LockedBriefly
  BY DEF IInv
<1> QED
  BY <1>1, Invariance, PTL
=============================================================================
