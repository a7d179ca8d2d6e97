--------------------------- MODULE DBQueueBackoff ---------------------------
(***************************************************************************)
(* The delay that backoff.Exponential gives the retries of DBQueue's jobs, *)
(* against the mathematical delay, which has no width.                     *)
(***************************************************************************)
EXTENDS DBQueue, Backoff, FiniteSetsExt

CONSTANT LongestStreak    \* the failures of a job that are looked at

ASSUME LongestStreakAssumption == LongestStreak \in Nat

Durations == 0 .. MaxDuration

Pow2[k \in Nat] == IF k = 0 THEN 1 ELSE 2 * Pow2[k - 1]

(* base doubled attempts-1 times, cut at max; uncapped, the last doubling  *)
(* that fits a duration.                                                   *)
IdealDelay(base, max, attempts) ==
  LET steps == IF attempts < 1 THEN 0 ELSE attempts - 1
  IN  IF max > 0
      THEN Min({base * Pow2[steps], max})
      ELSE Max({base * Pow2[k] : k \in {j \in 0 .. steps :
                                          base * Pow2[j] <= MaxDuration}})

(* The attempts after which Exponential delays by the ideal, and after     *)
(* which one failure more does not shorten the delay.                      *)
IdealAfter ==
  {n \in 0 .. LongestStreak : \A base, max \in Durations :
     Exponential(base, max, n) = IdealDelay(base, max, n)}
MonotoneAfter ==
  {n \in 0 .. LongestStreak : \A base, max \in Durations :
     Exponential(base, max, n) <= Exponential(base, max, n + 1)}

(* The early returns and the overflow clamp of the loop in Exponential     *)
(* never change the value of the documented formula base*2^(attempts-1)    *)
(* clamped to max, for any base and max and however many failures more     *)
(* follow the attempts a job has used: where the clamp answers max, d had  *)
(* not reached it yet, and uncapped the last doubling that fits is kept.   *)
DelayIsIdeal ==
  \A j \in Jobs : rows[j].attempts .. LongestStreak \subseteq IdealAfter

(* Backing off never speeds up: whatever the attempts of a job, the delay  *)
(* after a later failure is at least the delay after an earlier one.       *)
DelayMonotone ==
  \A j \in Jobs : rows[j].attempts .. LongestStreak \subseteq MonotoneAfter
=============================================================================
