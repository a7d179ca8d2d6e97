---------------------------- MODULE Idempotency ----------------------------
(***************************************************************************)
(* core/middleware, Idempotency: a write that carries an Idempotency-Key   *)
(* claims the key in a store, runs its handler and leaves the response     *)
(* there for its retries.  Both stores are modelled: memory, one process   *)
(* and one mutex, and SQL, shared by several processes, where Begin is a   *)
(* chain of statements with `now` read once before the first of them.      *)
(*                                                                         *)
(* A key stands for idemStoreKey(principal, tenant, scope, key) and a      *)
(* fingerprint for requestFingerprint.  A retry by the client is a request *)
(* of its own.  Requests the middleware passes on before it reaches the    *)
(* store (another method, no key, no principal, a body over the limit)     *)
(* touch nothing here and are left out.                                    *)
(***************************************************************************)
EXTENDS Integers, FiniteSets

CONSTANTS
  Requests, NoRequest, Keys, NoKey, Fps, NoFp,
  Processes,
  FailOpen,           \* the processes configured with FailOpen
  Backends,           \* the stores to consider: "memory", "sql"
  TTL, InFlightTTL,
  ReapPeriod,
  MaxLatency,         \* of Begin, the handler and Finish together
  MaxEntries,
  MaxTime, MaxFaults  \* bounds on the clock and on the faults

ASSUME IdempotencyAssumption ==
  /\ {TTL, InFlightTTL, MaxEntries} \subseteq Nat \ {0}
  /\ {ReapPeriod, MaxLatency, MaxTime, MaxFaults} \subseteq Nat
  /\ MaxLatency < InFlightTTL     \* what WithSQLIdempotencyInFlightTTL asks for
  /\ FailOpen \subseteq Processes /\ Processes # {}
  /\ Backends \subseteq {"memory", "sql"}
  /\ NoFp \notin Fps /\ NoRequest \notin Requests /\ NoKey \notin Keys

VARIABLES
  now,
  backend,
  entry,      \* the store: key -> its row, or NoEntry
  lastReap,   \* process -> lastReapUnix of its SQL store
  req,        \* request -> where it is, and what came of it
  faults,
  exposed,    \* keys that lost a claim in force to a fault or to the cap
  forgotten   \* keys that lost a response in force in the same way

vars == <<now, backend, entry, lastReap, req, faults, exposed, forgotten>>
losses == <<faults, exposed, forgotten>>

(* resp is the request whose response is kept, none while in flight.       *)
Entry ==
  [fp : Fps, resp : Requests \cup {NoRequest}, expires : Int, accessed : Nat]
NoEntry == [fp |-> NoFp, resp |-> NoRequest, expires |-> 0, accessed |-> 0]

(* claimed is when the request took its claim, end when it gave it back.   *)
Never == -1
NoProcess == "none"
Idle ==
  [pc |-> "idle", proc |-> NoProcess, key |-> NoKey, fp |-> NoFp, at |-> 0,
   claimed |-> Never, slow |-> FALSE, result |-> "none", from |-> NoRequest,
   end |-> 0]

Init ==
  /\ now = 0
  /\ backend \in Backends
  /\ entry = [k \in Keys |-> NoEntry]
  /\ lastReap = [p \in Processes |-> 0 - ReapPeriod - 1]
  /\ req = [r \in Requests |-> Idle]
  /\ faults = 0 /\ exposed = {} /\ forgotten = {}

-----------------------------------------------------------------------------
Resident == {k \in Keys : entry[k] # NoEntry}
InFlight(k) == entry[k].resp = NoRequest
(* expires_at > t                                                          *)
Live(k, t) == entry[k] # NoEntry /\ t < entry[k].expires
Active(r) == req[r].pc \notin {"idle", "done", "dead"}
(* An execution of the handler under a claim.                              *)
Running(r) == req[r].pc \in {"run", "finish"}

(* Mutant: the claim is written with the TTL of a response.                *)
ClaimForTTL(r) ==
  [fp |-> req[r].fp, resp |-> NoRequest, expires |-> req[r].at + TTL,
   accessed |-> req[r].at]

Claim(r) ==
  [fp |-> req[r].fp, resp |-> NoRequest, expires |-> req[r].at + InFlightTTL,
   accessed |-> req[r].at]

Goto(r, label) == req' = [req EXCEPT ![r].pc = label]
Answer(r, result) ==
  req' = [req EXCEPT ![r].pc = "done", ![r].proc = NoProcess,
                     ![r].result = result]
RunHandler(r) == req' = [req EXCEPT ![r].pc = "run", ![r].claimed = now]
Leave(r) ==
  req' = [req EXCEPT ![r].pc = "done", ![r].proc = NoProcess, ![r].end = now]
Put(k, e) == entry' = [entry EXCEPT ![k] = e]
DeleteKeys(ks) == entry' = [k \in Keys |-> IF k \in ks THEN NoEntry ELSE entry[k]]

(* What Begin finds in a live row decides the answer: 422, 409, a replay.  *)
AnswerFrom(r, e) ==
  \/ /\ e.fp # req[r].fp
     /\ Answer(r, "mismatch")
  \/ /\ e.fp = req[r].fp /\ e.resp = NoRequest
     /\ Answer(r, "conflict")
  \/ /\ e.fp = req[r].fp /\ e.resp # NoRequest
     /\ req' = [req EXCEPT ![r].pc = "done", ![r].proc = NoProcess,
                           ![r].result = "replay", ![r].from = e.resp]

(* The middleware calls Begin, which reads the clock first.  The memory    *)
(* store lives in one process.                                             *)
Arrive(r, p, k, f) ==
  /\ req[r].pc = "idle"
  /\ backend = "memory" => p = CHOOSE q \in Processes : TRUE
  /\ req' = [req EXCEPT ![r] = [Idle EXCEPT !.pc = "begin", !.proc = p,
                                            !.key = k, !.fp = f, !.at = now]]
  /\ UNCHANGED <<now, backend, entry, lastReap, losses>>

(* Mutant: Finish writes to whatever row has the key.                      *)
OwnRowByKey(r) == entry[req[r].key] # NoEntry

(* Mutant: Finish does not look whether the entry is still there.          *)
OwnRowUnchecked(r) == TRUE

(* The row Finish may write: of the key and the fingerprint.               *)
OwnRow(r) == entry[req[r].key].fp = req[r].fp

(* Mutant: the response keeps the expiry of its claim.                     *)
KeptBriefly(r) == [entry[req[r].key] EXCEPT !.resp = r, !.accessed = now]

(* The completed row: the response replaces the claim.                     *)
Kept(r) ==
  [entry[req[r].key] EXCEPT !.resp = r, !.expires = now + TTL, !.accessed = now]

Finish(r) ==
  /\ req[r].pc = "finish"
  /\ entry' = IF ~OwnRow(r) THEN entry
              ELSE [entry EXCEPT ![req[r].key] = IF req[r].result = "kept"
                                                   THEN Kept(r) ELSE NoEntry]
  /\ Leave(r)
  /\ UNCHANGED <<now, backend, lastReap, losses>>

-----------------------------------------------------------------------------
(* The memory store: Begin and Finish hold the mutex throughout.           *)

(* evictLocked's order, but for the tie-break by key.                      *)
ShedBefore(u, v) ==
  \/ ~InFlight(u) /\ InFlight(v)
  \/ InFlight(u) = InFlight(v) /\ entry[u].accessed < entry[v].accessed

LowWater == (MaxEntries * 9) \div 10

Victims ==
  {V \in SUBSET Resident :
     /\ Cardinality(V) = Cardinality(Resident) - LowWater
     /\ \A v \in V, u \in Resident \ V : ~ShedBefore(u, v)}

Full == Cardinality(Resident) >= MaxEntries

EvictLocked(r) ==
  \E V \in Victims :
    /\ entry' = [k \in Keys |-> IF k = req[r].key THEN Claim(r)
                                ELSE IF k \in V THEN NoEntry ELSE entry[k]]
    /\ exposed' = exposed \cup {k \in V : InFlight(k) /\ Live(k, now)}
    /\ forgotten' = forgotten \cup {k \in V : ~InFlight(k) /\ Live(k, now)}

MemoryBegin(r) ==
  LET k == req[r].key
  IN  /\ backend = "memory" /\ req[r].pc = "begin"
      /\ \/ /\ Live(k, req[r].at)
            /\ AnswerFrom(r, entry[k])
            /\ IF entry[k].fp = req[r].fp /\ ~InFlight(k)
                 THEN entry' = [entry EXCEPT ![k].accessed = req[r].at]
                 ELSE entry' = entry
            /\ UNCHANGED <<exposed, forgotten>>
         \/ /\ ~Live(k, req[r].at)
            /\ IF Full THEN EvictLocked(r)
               ELSE Put(k, Claim(r)) /\ UNCHANGED <<exposed, forgotten>>
            /\ RunHandler(r)
      /\ UNCHANGED <<now, backend, lastReap, faults>>

(* A response over maxEntryBytes is dropped like no response.              *)
MemoryFinish(r) == backend = "memory" /\ Finish(r)

-----------------------------------------------------------------------------
(* The SQL store: one action per statement.                                *)

(* The compare-and-swap that lets one Begin per period reap.               *)
SQLBegin(r) ==
  LET p == req[r].proc
  IN  /\ backend = "sql" /\ req[r].pc = "begin"
      /\ IF req[r].at - lastReap[p] > ReapPeriod
           THEN lastReap' = [lastReap EXCEPT ![p] = req[r].at] /\ Goto(r, "reap")
           ELSE lastReap' = lastReap /\ Goto(r, "insert")
      /\ UNCHANGED <<now, backend, entry, losses>>

(* DELETE ... WHERE expires_at <= now, whose error is ignored.             *)
Reap(r) ==
  /\ req[r].pc = "reap"
  /\ DeleteKeys({k \in Keys : ~Live(k, req[r].at)})
  /\ Goto(r, "insert")
  /\ UNCHANGED <<now, backend, lastReap, losses>>

(* INSERT ... ON CONFLICT DO NOTHING took the key.                         *)
Inserts(r) ==
  /\ entry[req[r].key] = NoEntry
  /\ Put(req[r].key, Claim(r))
  /\ RunHandler(r)

Conflicts(r) == entry[req[r].key] # NoEntry /\ entry' = entry

Insert(r) ==
  /\ req[r].pc = "insert"
  /\ Inserts(r) \/ (Conflicts(r) /\ Goto(r, "read"))
  /\ UNCHANGED <<now, backend, lastReap, losses>>

Read(r) ==
  LET k == req[r].key
  IN  /\ req[r].pc = "read"
      /\ IF Live(k, req[r].at) THEN AnswerFrom(r, entry[k]) ELSE Goto(r, "clear")
      /\ UNCHANGED <<now, backend, entry, lastReap, losses>>

(* Mutant: the stale row is deleted by its key alone.                      *)
ClearByKey(r) ==
  /\ req[r].pc = "clear"
  /\ DeleteKeys({req[r].key})
  /\ Goto(r, "again")
  /\ UNCHANGED <<now, backend, lastReap, losses>>

(* The expiry-gated DELETE of the stale row.                               *)
Clear(r) ==
  /\ req[r].pc = "clear"
  /\ DeleteKeys({req[r].key} \cap {k \in Keys : ~Live(k, req[r].at)})
  /\ Goto(r, "again")
  /\ UNCHANGED <<now, backend, lastReap, losses>>

InsertAgain(r) ==
  /\ req[r].pc = "again"
  /\ Inserts(r) \/ (Conflicts(r) /\ Answer(r, "conflict"))
  /\ UNCHANGED <<now, backend, lastReap, losses>>

(* A DELETE or an UPDATE WHERE key = ... AND fingerprint = ...             *)
SQLFinish(r) == backend = "sql" /\ Finish(r)

-----------------------------------------------------------------------------
(* The handler returns.  kept: a 2xx response that is recorded; large: one *)
(* beyond the memory store's cap for an entry; released: another status, a *)
(* panic, or a response that was streamed or overflowed the recorder.      *)
Handle(r) ==
  /\ req[r].pc = "run"
  /\ \E result \in {"kept", "released"} \cup IF backend = "memory"
                                             THEN {"large"} ELSE {} :
       req' = [req EXCEPT ![r].pc = "finish", ![r].result = result]
  /\ UNCHANGED <<now, backend, entry, lastReap, losses>>

(* FailOpen: the handler ran without a claim.                              *)
HandleUnkeyed(r) ==
  /\ req[r].pc = "unkeyed"
  /\ Answer(r, "unkeyed")
  /\ UNCHANGED <<now, backend, entry, lastReap, losses>>

-----------------------------------------------------------------------------
Fault == faults < MaxFaults /\ faults' = faults + 1

(* A statement of Begin fails, or its context ends; an INSERT may have     *)
(* been applied all the same.  A failed reap is ignored.                   *)
BeginFails(r) ==
  LET k == req[r].key
      label == IF req[r].proc \in FailOpen THEN "unkeyed" ELSE "done"
      result == IF req[r].proc \in FailOpen THEN "none" ELSE "down"
      applied == req[r].pc \in {"insert", "again"} /\ entry[k] = NoEntry
  IN  /\ req[r].pc \in {"reap", "insert", "read", "clear", "again"} /\ Fault
      /\ IF req[r].pc = "reap" THEN Goto(r, "insert") /\ entry' = entry
         ELSE \E did \in {FALSE, applied} :
                /\ entry' = IF did THEN [entry EXCEPT ![k] = Claim(r)] ELSE entry
                /\ req' = [req EXCEPT ![r].pc = label, ![r].result = result,
                                      ![r].claimed = IF did THEN now ELSE @]
      /\ UNCHANGED <<now, backend, lastReap, exposed, forgotten>>

(* Finish fails: the response is out, the claim stays until it expires.    *)
FinishFails(r) ==
  /\ backend = "sql" /\ req[r].pc = "finish" /\ Fault
  /\ Leave(r)
  /\ forgotten' = forgotten \cup {req[r].key}
  /\ UNCHANGED <<now, backend, entry, lastReap, exposed>>

(* A request takes longer than the in-flight TTL was chosen for.           *)
Overrun(r) ==
  /\ Active(r) /\ ~req[r].slow /\ now = req[r].at + MaxLatency /\ Fault
  /\ req' = [req EXCEPT ![r].slow = TRUE]
  /\ UNCHANGED <<now, backend, entry, lastReap, exposed, forgotten>>

(* A process dies: with its requests, and with a memory store.             *)
Crash(p) ==
  /\ \E r \in Requests : Active(r) /\ req[r].proc = p
  /\ Fault
  /\ req' = [r \in Requests |-> IF Active(r) /\ req[r].proc = p
                                  THEN [req[r] EXCEPT !.pc = "dead"] ELSE req[r]]
  /\ lastReap' = [lastReap EXCEPT ![p] = 0 - ReapPeriod - 1]
  /\ IF backend = "memory"
       THEN DeleteKeys(Keys) /\ forgotten' = Keys
       ELSE entry' = entry /\ forgotten' = forgotten
  /\ UNCHANGED <<now, backend, exposed>>

(* App.EraseUserData of the principal of a key, here its only one: the     *)
(* eraser the SQL store registers.                                         *)
Erase(k) ==
  /\ backend = "sql" /\ k \in Resident /\ Fault
  /\ Put(k, NoEntry)
  /\ exposed' = exposed \cup {k}
  /\ UNCHANGED <<now, backend, lastReap, req, forgotten>>

(* Time does not run past the latency the in-flight TTL was chosen for,    *)
(* except for a request that overran.                                      *)
Tick ==
  /\ now < MaxTime
  /\ \A r \in Requests : Active(r) /\ ~req[r].slow => now < req[r].at + MaxLatency
  /\ now' = now + 1
  /\ UNCHANGED <<backend, entry, lastReap, req, losses>>

Step(r) ==
  \/ MemoryBegin(r) \/ MemoryFinish(r)
  \/ SQLBegin(r) \/ Reap(r) \/ Insert(r) \/ Read(r) \/ Clear(r)
  \/ InsertAgain(r) \/ SQLFinish(r)
  \/ Handle(r) \/ HandleUnkeyed(r)
  \/ BeginFails(r) \/ FinishFails(r)

Environment ==
  \/ \E r \in Requests : Overrun(r)
  \/ \E p \in Processes : Crash(p)
  \/ \E k \in Keys : Erase(k)
  \/ Tick

Next ==
  \/ \E r \in Requests, p \in Processes, k \in Keys, f \in Fps : Arrive(r, p, k, f)
  \/ \E r \in Requests : Step(r)
  \/ Environment

Spec == Init /\ [][Next]_vars

-----------------------------------------------------------------------------
Slow(k) == \E r \in Requests : req[r].slow /\ req[r].key = k

(* Types of the store, of the requests and of the ghosts: an entry always  *)
(* has the fingerprint of its claim.                                       *)
IdempotencyTypeOK ==
  /\ now \in 0 .. MaxTime /\ backend \in Backends /\ faults \in 0 .. MaxFaults
  /\ entry \in [Keys -> Entry \cup {NoEntry}]
  /\ lastReap \in [Processes -> Int]
  /\ exposed \subseteq Keys /\ forgotten \subseteq Keys
  /\ DOMAIN req = Requests
  /\ \A r \in Requests : Active(r) => req[r].key \in Keys /\ req[r].fp \in Fps

(* The handler of a key never runs twice at once: of the requests that     *)
(* find the same expired, released or absent row, one gets the claim, and  *)
(* it keeps it.  A request beyond the in-flight TTL, an erasure and, in    *)
(* memory, a map full of claims are the exceptions.                        *)
OneAtATime ==
  \A a, b \in Requests :
    Running(a) /\ Running(b) /\ a # b /\ req[a].key = req[b].key
      => req[a].key \in exposed \/ Slow(req[a].key)

(* IdempotencyKeyHeader: at-most-once within the retention window.  Of two *)
(* executions of a key that were answered with a response to keep, the     *)
(* later one began after the earlier response expired, unless that         *)
(* response was lost: a failed Finish, a lost memory store, the cap, or    *)
(* one of the exceptions above.                                            *)
AtMostOnce ==
  \A a, b \in Requests :
    /\ a # b /\ req[a].key = req[b].key
    /\ \A r \in {a, b} : req[r].pc = "done" /\ req[r].result = "kept"
    /\ req[a].end <= req[b].end
    => \/ req[b].claimed >= req[a].end + TTL
       \/ req[a].key \in exposed \cup forgotten \/ Slow(req[a].key)

(* A replay answers with the response of the same request: its key, its    *)
(* fingerprint, within the TTL; also when a handler outlived its claim and *)
(* finished over the claim of another.                                     *)
ReplayIsOwn ==
  \A r \in Requests :
    req[r].result = "replay"
      => LET a == req[req[r].from]
         IN  /\ a.key = req[r].key /\ a.fp = req[r].fp
             /\ req[r].at < a.end + TTL

(* A key is never locked for longer than the in-flight TTL: who is told    *)
(* 409 met a claim taken within that time, whatever became of its owner.   *)
LockedBriefly ==
  \A r \in Requests :
    req[r].result = "conflict"
      => \E q \in Requests \ {r} :
           /\ req[q].key = req[r].key /\ req[q].claimed # Never
           /\ req[r].at < req[q].at + InFlightTTL \/ req[q].slow
=============================================================================
