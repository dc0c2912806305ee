--------------------------- MODULE AtomicPayments ---------------------------
(***************************************************************************)
(* What the settlement contract promises of the balances that others can   *)
(* see: they change one whole payment at a time.  The payer parts with the *)
(* gross amount, of which the collector gets a fee that is the rate's      *)
(* share to within half a unit, and the payee all the rest.                *)
(***************************************************************************)
EXTENDS Integers

CONSTANTS
    Accounts,  \* holders of the token
    FeeRates,  \* rates that may be charged, in 1/Whole
    Whole,     \* basis points in the whole
    Grosses    \* gross amounts that can come up

VARIABLE balance

If(condition, n) == IF condition THEN n ELSE 0

\* Balances after a payment; payer, payee and collector may coincide.
Paid(b, payer, payee, collector, gross, fee) ==
    [a \in Accounts |-> b[a] - If(a = payer, gross) + If(a = collector, fee)
                        + If(a = payee, gross - fee)]

\* The fee is within half a unit of the exact share.
Rounded(fee, gross, rate) ==
    /\ 2 * (fee * Whole - gross * rate) <= Whole
    /\ 2 * (gross * rate - fee * Whole) <= Whole

Pay ==
    \E payer \in Accounts, payee \in Accounts, collector \in Accounts,
       gross \in Grosses, rate \in FeeRates :
      \E fee \in 0 .. gross :
        /\ Rounded(fee, gross, rate)
        /\ balance' = Paid(balance, payer, payee, collector, gross, fee)
        /\ \A a \in Accounts : balance'[a] >= 0

Init == balance \in [Accounts -> Nat]

Spec == Init /\ [][Pay]_balance

=============================================================================
