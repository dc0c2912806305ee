----------------------------- MODULE Settlement -----------------------------
(***************************************************************************)
(* The settlement contract together with the price oracle it reads and one *)
(* token that it pays in.  A call to settle or finalize_settlement hands   *)
(* control to the oracle and to the token, whose code may call back before *)
(* it returns; a call that panics takes everything done since it began     *)
(* back, the lock included, and may be caught by the contract that made    *)
(* it.  The calls under way form a stack, the innermost last.  Calls with  *)
(* an amount or volume of zero or less return at once and change nothing.  *)
(***************************************************************************)
EXTENDS PriceOracle, Sequences, SequencesExt

CONSTANTS
    Accounts,      \* payers, payees and fee collectors
    InitialFunds,  \* what each account holds at first
    Amounts,       \* gross amounts and volumes of calls, all positive
    Minimums,      \* least amounts callers expect, 0 for none
    FeeRates,      \* fee rates callers ask for, in basis points
    MaxFeeRate,    \* MAX_FEE_RATE_BPS (1000)
    Whole,         \* BPS_DENOMINATOR (10000)
    DecimalDenominator, \* DECIMAL_DENOMINATOR (10^7)
    FallbackRate,  \* FALLBACK_RATE (5.0)
    MaxOracleAge,  \* MAX_ORACLE_AGE (600)
    MaxDepth       \* bound: calls within calls

ASSUME SettlementAssumption ==
    /\ InitialFunds \in Nat /\ Amounts \subseteq Nat \ {0}
    /\ Minimums \subseteq Nat /\ FeeRates \subseteq Nat
    /\ Whole \in Nat \ {0} /\ MaxFeeRate \in 0 .. Whole
    /\ DecimalDenominator \in Nat \ {0} /\ FallbackRate \in Nat /\ MaxOracleAge \in Nat

VARIABLES
    balance,  \* the token's ledger
    lock,     \* DataKey::ReentrancyLock
    calls     \* the settlements under way

vars == <<now, oracle, legacy, balance, lock, calls>>

-----------------------------------------------------------------------------
(* Pure parts *)

\* Mutant: plain truncation.
ComputeFeeTruncated(amount, rate) == (amount * rate) \div Whole

\* compute_fee: round half up.
ComputeFee(amount, rate) == (amount * rate + Whole \div 2) \div Whole

RateAllowed(rate) == rate <= MaxFeeRate

\* apply_rate_to_volume takes every rate to be in the same fixed point.
ApplyRateToVolume(volume, rate) == (volume * rate) \div DecimalDenominator

\* is_stale: a price exactly MaxOracleAge old is still good.
IsStale == Age > MaxOracleAge

\* resolve_rate
ResolvedRate == IF IsStale THEN FallbackRate ELSE oracle.price

\* The token moves an amount, between accounts that may be the same.
Transferred(b, from, to, amount) ==
    [a \in Accounts |-> b[a] - (IF a = from THEN amount ELSE 0)
                        + (IF a = to THEN amount ELSE 0)]

-----------------------------------------------------------------------------
(* Calls *)

\* Mutant: the lock is taken without a look at it.
Free == TRUE

\* ReentrancyGuard::new panics when the lock is held.
LockFree == ~lock

Top == Last(calls)
SetTop(call) == [calls EXCEPT ![Len(calls)] = call]

\* Control is outside every settlement, or in code an external call runs.
Begin(call) ==
    /\ LockFree
    /\ RateAllowed(call.rate)
    /\ Len(calls) < MaxDepth
    /\ lock' = TRUE
    /\ calls' = Append(calls, call)
    /\ UNCHANGED <<now, oracle, legacy, balance>>

\* settle, up to the fee transfer; the payer signed the call.
Settle(payer, payee, collector, amount, rate) ==
    Begin([step |-> "fee", volume |-> 0, minimum |-> 0,
           payer |-> payer, payee |-> payee, collector |-> collector,
           gross |-> amount, fee |-> 0, rate |-> rate,
           before |-> balance, locked |-> lock])

\* finalize_settlement, up to the call of the oracle.
FinalizeSettlement(payer, payee, collector, volume, minimum, rate) ==
    Begin([step |-> "price", volume |-> volume, minimum |-> minimum,
           payer |-> payer, payee |-> payee, collector |-> collector,
           gross |-> 0, fee |-> 0, rate |-> rate,
           before |-> balance, locked |-> lock])

\* The oracle answers, and convert_to_settlement_currency accepts the amount.
Convert ==
    /\ calls # <<>> /\ Top.step = "price"
    /\ IsSet(oracle)
    /\ LET amount == ApplyRateToVolume(Top.volume, ResolvedRate)
       IN  /\ amount >= Top.minimum
           /\ calls' = SetTop([Top EXCEPT !.step = "fee", !.gross = amount])
    /\ UNCHANGED <<now, oracle, legacy, balance, lock>>

\* collect_fee: a fee of zero is not transferred.
CollectFee ==
    /\ calls # <<>> /\ Top.step = "fee"
    /\ LET fee == ComputeFee(Top.gross, Top.rate)
       IN  /\ fee <= balance[Top.payer]
           /\ balance' = Transferred(balance, Top.payer, Top.collector, fee)
           /\ calls' = SetTop([Top EXCEPT !.step = "net", !.fee = fee])
    /\ UNCHANGED <<now, oracle, legacy, lock>>

\* Mutant: the fee is not taken off what the payee gets.
PayGross ==
    /\ calls # <<>> /\ Top.step = "net"
    /\ Top.gross <= balance[Top.payer]
    /\ balance' = Transferred(balance, Top.payer, Top.payee, Top.gross)
    /\ calls' = SetTop([Top EXCEPT !.step = "done"])
    /\ UNCHANGED <<now, oracle, legacy, lock>>

\* The rest goes to the payee, if there is any.
PayNet ==
    /\ calls # <<>> /\ Top.step = "net"
    /\ LET net == Top.gross - Top.fee
       IN  /\ net <= balance[Top.payer]
           /\ balance' = IF net > 0 THEN Transferred(balance, Top.payer, Top.payee, net)
                         ELSE balance
           /\ calls' = SetTop([Top EXCEPT !.step = "done"])
    /\ UNCHANGED <<now, oracle, legacy, lock>>

\* The call returns and the guard is dropped.
Return ==
    /\ calls # <<>> /\ Top.step = "done"
    /\ lock' = FALSE
    /\ calls' = Front(calls)
    /\ UNCHANGED <<now, oracle, legacy, balance>>

\* A panic, of this contract or of what it called, ends the calls from the
\* k-th on, and the host restores what they changed.
Panic ==
    /\ \E k \in DOMAIN calls :
         /\ balance' = calls[k].before
         /\ lock' = calls[k].locked
         /\ calls' = SubSeq(calls, 1, k - 1)
    /\ UNCHANGED <<now, oracle, legacy>>

\* Calls of the oracle by others.  Within a settlement they would change nothing
\* it still reads.
OracleCall ==
    /\ calls = <<>>
    /\ OracleNext
    /\ UNCHANGED <<now, balance, lock, calls>>

\* A ledger closes, between calls.
Tick ==
    /\ calls = <<>>
    /\ now < MaxTime
    /\ now' = now + 1
    /\ UNCHANGED <<oracle, legacy, balance, lock, calls>>

Init ==
    /\ OracleInit
    /\ balance = [a \in Accounts |-> InitialFunds]
    /\ lock = FALSE
    /\ calls = <<>>

Next ==
    \/ \E payer \in Accounts, payee \in Accounts, collector \in Accounts,
          n \in Amounts, rate \in FeeRates :
         \/ Settle(payer, payee, collector, n, rate)
         \/ \E minimum \in Minimums :
              FinalizeSettlement(payer, payee, collector, n, minimum, rate)
    \/ Convert
    \/ CollectFee
    \/ PayNet
    \/ Return
    \/ Panic
    \/ OracleCall
    \/ Tick

Spec == Init /\ [][Next]_vars

-----------------------------------------------------------------------------
(* Properties *)

Steps == {"price", "fee", "net", "done"}
Calls ==
    [step : Steps, volume : Nat, minimum : Nat,
     payer : Accounts, payee : Accounts, collector : Accounts,
     gross : Nat, fee : Nat, rate : Nat,
     before : [Accounts -> Nat], locked : BOOLEAN]

\* No account is overdrawn between the two transfers of a settlement, and the
\* oracle's price is positive whoever set it.
TypeOK ==
    /\ OracleTypeOK
    /\ balance \in [Accounts -> Nat]
    /\ lock \in BOOLEAN
    /\ calls \in Seq(Calls)

\* reentrancy.rs: a settlement is under way exactly while the lock is held, and
\* there is never a second one, however external code calls back, returns,
\* panics or has its panic caught.
OneInFlight ==
    /\ lock <=> calls # <<>>
    /\ Len(calls) <= 1

\* What the balances were when the outermost call began: what others see.
Committed == IF calls = <<>> THEN balance ELSE calls[1].before

\* The amounts payments can come to, at any price or at the fallback.
RatesApplied == PositivePrices \cup {FallbackRate}
Grosses ==
    Amounts \cup UNION {{ApplyRateToVolume(v, p) : p \in RatesApplied} : v \in Amounts}

Payments == INSTANCE AtomicPayments WITH
    FeeRates <- {r \in FeeRates : RateAllowed(r)}, balance <- Committed

\* fees.rs:11-14: a fee is the exact share to within half a unit, so that fees of
\* many small payments do not drift; and it never takes more than the amount it is
\* charged on, so that net_amount, a saturating difference, is the rest.
FeesAreFair ==
    \A k \in DOMAIN calls :
      calls[k].step \in {"net", "done"} =>
        /\ calls[k].fee \in 0 .. calls[k].gross
        /\ Payments!Rounded(calls[k].fee, calls[k].gross, calls[k].rate)

\* What others see of the balances is whole payments with rounded fees.
ImplementsPayments == Payments!Spec

=============================================================================
