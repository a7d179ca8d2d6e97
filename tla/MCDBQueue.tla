----------------------------- MODULE MCDBQueue -----------------------------
(***************************************************************************)
(* Small instances of DBQueue.  Jobs, types and lanes are strings so that  *)
(* the attributes of each job can be written down here.                    *)
(***************************************************************************)
EXTENDS DBQueueBackoff, TLC

CONSTANTS BackoffMax

(* nack's next scheduled_at: backoff.Exponential of the configured policy. *)
MCBackoffDelay(n) == Exponential(BackoffBase, BackoffMax, n)

-----------------------------------------------------------------------------
(* Two rivals of one type: an erasable report with two attempts, and a     *)
(* second job under the same unique key that gets one.                     *)
RivalType == "a" :> "report" @@ "b" :> "report"
RivalKey == "a" :> "k" @@ "b" :> "k"
RivalMax == "a" :> 2 @@ "b" :> 1
RivalUser == "a" :> "none" @@ "b" :> "u"
Zero == "a" :> 0 @@ "b" :> 0
AnyJobLane == "a" :> "" @@ "b" :> ""
AnyWorkerLane == "w1" :> "any" @@ "w2" :> "any"

(* One erasable job with two attempts.                                     *)
OneType == "a" :> "report"
OneKey == "a" :> "none"
OneLane == "a" :> ""
OneZero == "a" :> 0
OneDelay == "a" :> 1
OneMax == "a" :> 2
OneUser == "a" :> "u"
OneNobody == "a" :> "none"
OneWorker == "w1" :> "any"
=============================================================================
