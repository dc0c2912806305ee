----------------------------- MODULE LedgerClock -----------------------------
(***************************************************************************)
(* The ledger's timestamp.  The facilities of the utility contract that    *)
(* share nothing but this clock each EXTEND this module, so that a model   *)
(* can hold several of them side by side.                                  *)
(***************************************************************************)
EXTENDS Integers

CONSTANT MaxTime  \* bound: last ledger timestamp

ASSUME ClockAssumption == MaxTime \in Nat

VARIABLE now  \* env.ledger().timestamp()

Tick == now < MaxTime /\ now' = now + 1

\* The value of an absent time or number; saturating subtraction; the smaller.
Absent == -1
Monus(a, b) == IF a > b THEN a - b ELSE 0
Smaller(a, b) == IF a < b THEN a ELSE b
Larger(a, b) == IF a > b THEN a ELSE b

=============================================================================
