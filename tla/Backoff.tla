------------------------------ MODULE Backoff ------------------------------
(***************************************************************************)
(* core/backoff.Exponential, the retry delay shared by the queue battery   *)
(* and the outbox relay.  A time.Duration is an int64; the largest one is  *)
(* the constant MaxDuration, so that the overflow clamp is reached with    *)
(* small numbers.                                                          *)
(***************************************************************************)
EXTENDS Naturals

CONSTANT MaxDuration      \* 1<<63-1 in the code

ASSUME MaxDurationAssumption == MaxDuration \in Nat \ {0}

(***************************************************************************)
(* One iteration of the doubling loop on the delay x.  Where the code      *)
(* returns early it returns a value that the body maps to itself, so the   *)
(* iterations left over change nothing.                                    *)
(***************************************************************************)
Iteration(max, x) ==
  IF max > 0 /\ x >= max THEN max
  ELSE IF x > MaxDuration \div 2 THEN IF max > 0 THEN max ELSE x
       ELSE 2 * x

(* for range exp, entered with d.                                          *)
Doubled(max, exp, d) ==
  LET loop[k \in 0 .. exp] == IF k = 0 THEN d ELSE Iteration(max, loop[k - 1])
  IN  loop[exp]

(* Mutant: the delay is not clamped after the last doubling.               *)
ExponentialUnclamped(base, max, attempts) ==
  IF base = 0 THEN 0
  ELSE Doubled(max, IF attempts < 1 THEN 0 ELSE attempts - 1, base)

Exponential(base, max, attempts) ==
  LET exp == IF attempts < 1 THEN 0 ELSE attempts - 1
      d   == Doubled(max, exp, base)
  IN  IF base = 0 THEN 0
      ELSE IF max > 0 /\ d > max THEN max ELSE d
=============================================================================
