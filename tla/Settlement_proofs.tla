-------------------------- MODULE Settlement_proofs --------------------------
(***************************************************************************)
(* Proofs about Settlement, for every set of accounts, prices, amounts,    *)
(* fee rates and depth of calls: the lock keeps settlements apart, a fee   *)
(* is the exact share to half a unit, and what others see of the balances  *)
(* is whole payments with rounded fees (AtomicPayments).                   *)
(***************************************************************************)
EXTENDS Settlement, TLAPS

-----------------------------------------------------------------------------
(* Fees and transfers *)

\* fees.rs:11-14: the fee is within half a unit of the exact share, and at a
\* rate of at most the whole it is no more than the amount.
LEMMA FeeRounding ==
    ASSUME NEW amount \in Nat, NEW rate \in 0 .. MaxFeeRate
    PROVE  /\ ComputeFee(amount, rate) \in 0 .. amount
           /\ Payments!Rounded(ComputeFee(amount, rate), amount, rate)
<1> DEFINE exact == amount * rate
           half == Whole \div 2
           fee == (exact + half) \div Whole
<1>1. /\ Whole \in Nat \ {0} /\ rate \in Nat /\ rate <= Whole
      /\ exact \in Nat /\ exact <= amount * Whole
  BY SettlementAssumption
<1>2. half \in Nat /\ 2 * half <= Whole /\ Whole <= 2 * half + 1
  BY <1>1
<1> HIDE DEF exact, half
<1>3. /\ fee \in Nat
      /\ fee * Whole <= exact + half
      /\ exact + half < fee * Whole + Whole
  BY <1>1, <1>2
<1> HIDE DEF fee
<1>4. 2 * (fee * Whole - exact) <= Whole /\ 2 * (exact - fee * Whole) <= Whole
  BY <1>1, <1>2, <1>3
<1>5. fee <= amount
  <2>1. fee * Whole < amount * Whole + Whole
    BY <1>1, <1>2, <1>3
  <2> QED BY <1>1, <1>3, <2>1
<1>6. ComputeFee(amount, rate) = fee
  BY DEF ComputeFee, fee, exact, half
<1> QED BY <1>3, <1>4, <1>5, <1>6 DEF Payments!Rounded, exact

\* A transfer that the payer can afford leaves nobody overdrawn.
LEMMA TransferredType ==
    ASSUME NEW b \in [Accounts -> Nat], NEW from \in Accounts, NEW to \in Accounts,
           NEW amount \in Nat, amount <= b[from]
    PROVE  Transferred(b, from, to, amount) \in [Accounts -> Nat]
<1>1. ASSUME NEW a \in Accounts
      PROVE  b[a] - (IF a = from THEN amount ELSE 0)
                + (IF a = to THEN amount ELSE 0) \in Nat
  BY <1>1
<1> QED BY <1>1 DEF Transferred

\* The two transfers of a settlement are one payment.
LEMMA TwoTransfers ==
    ASSUME NEW b \in [Accounts -> Nat],
           NEW payer \in Accounts, NEW payee \in Accounts, NEW collector \in Accounts,
           NEW gross \in Nat, NEW fee \in 0 .. gross
    PROVE  LET paidFee == Transferred(b, payer, collector, fee)
               paid == Payments!Paid(b, payer, payee, collector, gross, fee)
           IN  /\ Transferred(paidFee, payer, payee, gross - fee) = paid
               /\ gross - fee = 0 => paidFee = paid
<1> DEFINE net == gross - fee
           paidFee == Transferred(b, payer, collector, fee)
           paid == Payments!Paid(b, payer, payee, collector, gross, fee)
<1>1. fee \in Nat /\ net \in Nat /\ gross = fee + net
  OBVIOUS
<1>2. ASSUME NEW a \in Accounts
      PROVE  /\ paidFee[a] \in Int
             /\ paid[a] = paidFee[a] - (IF a = payer THEN net ELSE 0)
                            + (IF a = payee THEN net ELSE 0)
             /\ net = 0 => paidFee[a] = paid[a]
  <2>1. paidFee[a] = b[a] - (IF a = payer THEN fee ELSE 0)
                       + (IF a = collector THEN fee ELSE 0)
    BY DEF Transferred
  <2>2. paid[a] = b[a] - (IF a = payer THEN gross ELSE 0)
                    + (IF a = collector THEN fee ELSE 0) + (IF a = payee THEN net ELSE 0)
    BY DEF Payments!Paid, Payments!If
  <2>3. b[a] \in Nat
    OBVIOUS
  <2> HIDE DEF net, paid, paidFee
  <2> QED BY <1>1, <2>1, <2>2, <2>3
<1>3. DOMAIN paid = Accounts /\ DOMAIN paidFee = Accounts
  BY DEF Payments!Paid, Transferred
<1>4. paid = [a \in Accounts |-> paid[a]] /\ paidFee = [a \in Accounts |-> paidFee[a]]
  BY DEF Payments!Paid, Transferred
<1> HIDE DEF paid, paidFee, net
<1>5. net = 0 => paidFee = paid
  BY <1>2, <1>4
<1>6. Transferred(paidFee, payer, payee, net) = paid
  BY <1>2, <1>4 DEF Transferred
<1> QED BY <1>5, <1>6 DEF paid, paidFee, net

-----------------------------------------------------------------------------
(* The inductive invariant *)

\* How far a call has come, told by the balances.
CallOK(c) ==
    /\ ~c.locked
    /\ c.rate \in FeeRates /\ RateAllowed(c.rate)
    /\ c.step = "price" => c.volume \in Amounts
    /\ c.step \in {"price", "fee"} => c.fee = 0 /\ balance = c.before
    /\ c.step # "price" => c.gross \in Grosses
    /\ c.step \in {"net", "done"} =>
         c.fee \in 0 .. c.gross /\ Payments!Rounded(c.fee, c.gross, c.rate)
    /\ c.step = "net" =>
         balance = Transferred(c.before, c.payer, c.collector, c.fee)
    /\ c.step = "done" =>
         balance = Payments!Paid(c.before, c.payer, c.payee, c.collector, c.gross, c.fee)

IInv ==
    /\ OracleTypeOK
    /\ balance \in [Accounts -> Nat]
    /\ \/ calls = <<>> /\ lock = FALSE
       \/ lock = TRUE /\ \E c \in Calls : calls = <<c>> /\ CallOK(c)

\* Sequences of one element.
LEMMA Singletons ==
    ASSUME NEW c, NEW d
    PROVE  /\ Append(<<>>, c) = <<c>>
           /\ <<c>> # <<>> /\ Len(<<c>>) = 1 /\ DOMAIN <<c>> = {1}
           /\ Last(<<c>>) = c /\ Front(<<c>>) = <<>>
           /\ [<<c>> EXCEPT ![1] = d] = <<d>>
           /\ SubSeq(<<c>>, 1, 0) = <<>>
BY DEF Last, Front

\* Prices are non-negative amounts to multiply by.
LEMMA GrossesNat == Grosses \subseteq Nat
<1>1. ASSUME NEW p \in RatesApplied PROVE p \in Nat
  <2>1. CASE p \in PositivePrices
    <3>1. p \in Prices /\ p > 0
      BY <2>1 DEF PositivePrices
    <3>2. p \in Int
      BY <3>1, OracleAssumption
    <3> QED BY <3>1, <3>2
  <2>2. CASE p = FallbackRate
    BY <2>2, SettlementAssumption
  <2> QED BY <1>1, <2>1, <2>2 DEF RatesApplied
<1>2. ASSUME NEW v \in Nat, NEW p \in Nat PROVE ApplyRateToVolume(v, p) \in Nat
  BY <1>2, SettlementAssumption DEF ApplyRateToVolume
<1>3. ASSUME NEW g \in Grosses
      PROVE  \/ g \in Amounts
             \/ \E v \in Amounts : \E p \in RatesApplied : g = ApplyRateToVolume(v, p)
  BY <1>3 DEF Grosses
<1>4. Amounts \subseteq Nat
  BY SettlementAssumption
<1>5. ASSUME NEW g \in Grosses PROVE g \in Nat
  BY <1>1, <1>2, <1>3, <1>4, <1>5
<1> QED BY <1>5

\* The invariant holds at first.
LEMMA InitInvariant == Init => IInv
<1> SUFFICES ASSUME Init PROVE IInv
  OBVIOUS
<1>1. OracleTypeOK
  BY DEF Init, OracleInit, OracleTypeOK, Unset, PriceData, PositivePrices
<1>2. balance \in [Accounts -> Nat]
  BY SettlementAssumption DEF Init
<1> QED BY <1>1, <1>2 DEF Init, IInv

\* A call that begins finds no other under way.
LEMMA BeginStep ==
    ASSUME IInv, NEW c \in Calls, ~c.locked, c.fee = 0, c.before = balance,
           c.rate \in FeeRates,
           \/ c.step = "price" /\ c.volume \in Amounts
           \/ c.step = "fee" /\ c.gross \in Grosses,
           Begin(c)
    PROVE  IInv'
<1>1. /\ calls = <<>> /\ calls' = Append(calls, c) /\ lock' = TRUE
      /\ now' = now /\ oracle' = oracle /\ legacy' = legacy /\ balance' = balance
      /\ RateAllowed(c.rate)
  BY DEF IInv, Begin, LockFree
<1>2. calls' = <<c>>
  BY <1>1, Singletons
<1>3. CallOK(c)'
  BY <1>1 DEF CallOK
<1>4. OracleTypeOK'
  BY <1>1 DEF IInv, OracleTypeOK
<1> QED BY <1>1, <1>2, <1>3, <1>4 DEF IInv

\* settle and finalize_settlement preserve the invariant.
LEMMA CallStep ==
    ASSUME IInv, NEW payer \in Accounts, NEW payee \in Accounts,
           NEW collector \in Accounts, NEW n \in Amounts, NEW rate \in FeeRates,
           \/ Settle(payer, payee, collector, n, rate)
           \/ \E minimum \in Minimums :
                FinalizeSettlement(payer, payee, collector, n, minimum, rate)
    PROVE  IInv'
<1>1. n \in Nat /\ Minimums \subseteq Nat /\ balance \in [Accounts -> Nat]
  BY SettlementAssumption DEF IInv
<1>2. rate \in Nat
  BY SettlementAssumption
<1>3. ASSUME LockFree PROVE lock = FALSE
  BY <1>3 DEF IInv, LockFree
<1>4. CASE Settle(payer, payee, collector, n, rate)
  <2> DEFINE c == [step |-> "fee", volume |-> 0, minimum |-> 0,
                   payer |-> payer, payee |-> payee, collector |-> collector,
                   gross |-> n, fee |-> 0, rate |-> rate,
                   before |-> balance, locked |-> lock]
  <2>1. Begin(c)
    BY <1>4 DEF Settle
  <2>2. lock = FALSE /\ rate \in Nat
    BY <1>2, <1>3, <2>1 DEF Begin
  <2>3. c \in Calls
    BY <1>1, <2>2 DEF Calls, Steps
  <2>4. n \in Grosses
    BY DEF Grosses
  <2>5. ~c.locked /\ c.fee = 0 /\ c.before = balance /\ c.step = "fee" /\ c.gross = n
        /\ c.rate = rate
    BY <2>2
  <2> HIDE DEF c
  <2> QED BY <2>1, <2>3, <2>4, <2>5, BeginStep
<1>5. ASSUME NEW minimum \in Minimums,
             FinalizeSettlement(payer, payee, collector, n, minimum, rate)
      PROVE  IInv'
  <2> DEFINE c == [step |-> "price", volume |-> n, minimum |-> minimum,
                   payer |-> payer, payee |-> payee, collector |-> collector,
                   gross |-> 0, fee |-> 0, rate |-> rate,
                   before |-> balance, locked |-> lock]
  <2>1. Begin(c)
    BY <1>5 DEF FinalizeSettlement
  <2>2. lock = FALSE /\ rate \in Nat
    BY <1>2, <1>3, <2>1 DEF Begin
  <2>3. c \in Calls
    BY <1>1, <2>2 DEF Calls, Steps
  <2>4. ~c.locked /\ c.fee = 0 /\ c.before = balance /\ c.step = "price"
        /\ c.volume = n /\ c.rate = rate
    BY <2>2
  <2> HIDE DEF c
  <2> QED BY <2>1, <2>3, <2>4, BeginStep
<1> QED BY <1>4, <1>5

\* Whatever leaves the calls and the lock as they are only needs to keep the
\* oracle well formed.
LEMMA OutsideStep ==
    ASSUME IInv, calls' = calls, lock' = lock, balance' = balance, OracleTypeOK'
    PROVE  IInv'
<1>1. ASSUME NEW c \in Calls, CallOK(c) PROVE CallOK(c)'
  BY <1>1 DEF CallOK
<1> QED BY <1>1 DEF IInv

\* The call under way goes on to another step.
LEMMA TopStep ==
    ASSUME IInv, NEW c, calls = <<c>>, NEW d \in Calls, calls' = SetTop(d),
           now' = now, oracle' = oracle, legacy' = legacy, lock' = lock,
           balance' \in [Accounts -> Nat], CallOK(d)'
    PROVE  IInv'
<1>1. calls' = <<d>>
  BY Singletons DEF SetTop
<1>2. lock' = TRUE
  BY Singletons DEF IInv
<1>3. OracleTypeOK'
  BY DEF IInv, OracleTypeOK
<1> QED BY <1>1, <1>2, <1>3 DEF IInv

\* The call under way, when there is one.
LEMMA OnlyCall ==
    ASSUME IInv, calls # <<>>
    PROVE  \E c \in Calls : calls = <<c>> /\ Top = c /\ CallOK(c) /\ lock = TRUE
BY Singletons DEF IInv, Top

\* A rate is resolved to a price that was asked for, or to the fallback.
LEMMA ConvertStep ==
    ASSUME IInv, Convert
    PROVE  IInv'
<1>1. PICK c \in Calls : calls = <<c>> /\ Top = c /\ CallOK(c) /\ lock = TRUE
  BY OnlyCall DEF Convert
<1>2. PICK amount : amount = ApplyRateToVolume(c.volume, ResolvedRate)
  OBVIOUS
<1>3. PICK d : d = [step |-> "fee", volume |-> c.volume, minimum |-> c.minimum,
                    payer |-> c.payer, payee |-> c.payee, collector |-> c.collector,
                    gross |-> amount, fee |-> c.fee, rate |-> c.rate,
                    before |-> c.before, locked |-> c.locked]
  OBVIOUS
<1>4. /\ c.step = "price" /\ IsSet(oracle)
      /\ calls' = SetTop([c EXCEPT !.step = "fee", !.gross = amount])
      /\ now' = now /\ oracle' = oracle /\ legacy' = legacy /\ lock' = lock
      /\ balance' = balance
  BY <1>1, <1>2 DEF Convert
<1>5. calls' = SetTop(d)
  <2>1. [c EXCEPT !.step = "fee", !.gross = amount] = d
    <3>1. PICK e : e = [c EXCEPT !.step = "fee"]
      OBVIOUS
    <3>2. e = [step |-> "fee", volume |-> c.volume, minimum |-> c.minimum,
               payer |-> c.payer, payee |-> c.payee, collector |-> c.collector,
               gross |-> c.gross, fee |-> c.fee, rate |-> c.rate,
               before |-> c.before, locked |-> c.locked]
      BY <3>1 DEF Calls
    <3>3. [e EXCEPT !.gross = amount] = d
      BY <1>3, <3>2
    <3> QED BY <3>1, <3>3, Zenon
  <2> QED BY <1>4, <2>1
<1>6. ResolvedRate \in RatesApplied
  BY <1>4 DEF IInv, OracleTypeOK, IsSet, Unset, ResolvedRate, RatesApplied
<1>7. amount \in Grosses /\ amount \in Nat
  <2>1. c.volume \in Amounts
    BY <1>1, <1>4 DEF CallOK
  <2>2. amount \in Grosses
    BY <1>2, <1>6, <2>1 DEF Grosses
  <2> QED BY <2>2, GrossesNat
<1>8. d \in Calls
  BY <1>3, <1>7 DEF Calls, Steps
<1>9. CallOK(d)'
  <2>1. ~c.locked /\ c.rate \in FeeRates /\ RateAllowed(c.rate)
        /\ c.fee = 0 /\ balance = c.before
    BY <1>1, <1>4 DEF CallOK
  <2>2. /\ d.step = "fee" /\ d.gross = amount /\ d.fee = c.fee /\ d.rate = c.rate
        /\ d.before = c.before /\ d.locked = c.locked
    BY <1>3
  <2> QED BY <1>4, <1>7, <2>1, <2>2 DEF CallOK
<1>10. balance' \in [Accounts -> Nat]
  BY <1>4 DEF IInv
<1> QED BY <1>1, <1>4, <1>5, <1>8, <1>9, <1>10, TopStep

\* The fee transfer is the first half of a payment.
LEMMA CollectFeeStep ==
    ASSUME IInv, CollectFee
    PROVE  IInv'
<1>1. PICK c \in Calls : calls = <<c>> /\ Top = c /\ CallOK(c) /\ lock = TRUE
  BY OnlyCall DEF CollectFee
<1>2. PICK fee : fee = ComputeFee(c.gross, c.rate)
  OBVIOUS
<1>3. PICK d : d = [step |-> "net", volume |-> c.volume, minimum |-> c.minimum,
                    payer |-> c.payer, payee |-> c.payee, collector |-> c.collector,
                    gross |-> c.gross, fee |-> fee, rate |-> c.rate,
                    before |-> c.before, locked |-> c.locked]
  OBVIOUS
<1>4. /\ c.step = "fee" /\ calls' = SetTop([c EXCEPT !.step = "net", !.fee = fee])
      /\ now' = now /\ oracle' = oracle /\ legacy' = legacy /\ lock' = lock
      /\ fee <= balance[c.payer]
      /\ balance' = Transferred(balance, c.payer, c.collector, fee)
  BY <1>1, <1>2 DEF CollectFee
<1>5. calls' = SetTop(d)
  <2>1. [c EXCEPT !.step = "net", !.fee = fee] = d
    <3>1. PICK e : e = [c EXCEPT !.step = "net"]
      OBVIOUS
    <3>2. e = [step |-> "net", volume |-> c.volume, minimum |-> c.minimum,
               payer |-> c.payer, payee |-> c.payee, collector |-> c.collector,
               gross |-> c.gross, fee |-> c.fee, rate |-> c.rate,
               before |-> c.before, locked |-> c.locked]
      BY <3>1 DEF Calls
    <3>3. [e EXCEPT !.fee = fee] = d
      BY <1>3, <3>2
    <3> QED BY <3>1, <3>3, Zenon
  <2> QED BY <1>4, <2>1
<1>6. /\ c.gross \in Nat /\ c.rate \in 0 .. MaxFeeRate
      /\ c.payer \in Accounts /\ c.collector \in Accounts
  BY <1>1, SettlementAssumption DEF Calls, CallOK, RateAllowed
<1>7. fee \in 0 .. c.gross /\ fee \in Nat /\ Payments!Rounded(fee, c.gross, c.rate)
  BY <1>2, <1>6, FeeRounding
<1>8. balance' \in [Accounts -> Nat]
  BY <1>4, <1>6, <1>7, TransferredType DEF IInv
<1>9. d \in Calls
  BY <1>3, <1>7 DEF Calls, Steps
<1>10. CallOK(d)'
  <2>1. ~c.locked /\ c.rate \in FeeRates /\ RateAllowed(c.rate)
        /\ c.gross \in Grosses /\ balance = c.before
    BY <1>1, <1>4 DEF CallOK
  <2>2. /\ d.step = "net" /\ d.gross = c.gross /\ d.fee = fee /\ d.rate = c.rate
        /\ d.before = c.before /\ d.locked = c.locked
        /\ d.payer = c.payer /\ d.collector = c.collector
    BY <1>3
  <2>3. Payments!Rounded(d.fee, d.gross, d.rate) /\ d.fee \in 0 .. d.gross
    BY <1>7, <2>2
  <2>4. balance' = Transferred(d.before, d.payer, d.collector, d.fee)
    BY <1>4, <2>1, <2>2
  <2> QED BY <2>1, <2>2, <2>3, <2>4 DEF CallOK
<1> QED BY <1>1, <1>4, <1>5, <1>8, <1>9, <1>10, TopStep

\* The net transfer is the other half.
LEMMA PayNetStep ==
    ASSUME IInv, PayNet
    PROVE  IInv'
<1>1. PICK c \in Calls : calls = <<c>> /\ Top = c /\ CallOK(c) /\ lock = TRUE
  BY OnlyCall DEF PayNet
<1>2. PICK net : net = c.gross - c.fee
  OBVIOUS
<1>3. PICK d : d = [step |-> "done", volume |-> c.volume, minimum |-> c.minimum,
                    payer |-> c.payer, payee |-> c.payee, collector |-> c.collector,
                    gross |-> c.gross, fee |-> c.fee, rate |-> c.rate,
                    before |-> c.before, locked |-> c.locked]
  OBVIOUS
<1>4. /\ c.step = "net" /\ calls' = SetTop([c EXCEPT !.step = "done"])
      /\ now' = now /\ oracle' = oracle /\ legacy' = legacy /\ lock' = lock
      /\ net <= balance[c.payer]
      /\ balance' = IF net > 0 THEN Transferred(balance, c.payer, c.payee, net)
                    ELSE balance
  BY <1>1, <1>2 DEF PayNet
<1>5. calls' = SetTop(d)
  <2>1. [c EXCEPT !.step = "done"] = d
    BY <1>3 DEF Calls
  <2> QED BY <1>4, <2>1
<1>6. /\ c.gross \in Nat /\ c.fee \in 0 .. c.gross
      /\ Payments!Rounded(c.fee, c.gross, c.rate)
      /\ balance = Transferred(c.before, c.payer, c.collector, c.fee)
      /\ c.gross \in Grosses
      /\ ~c.locked /\ c.rate \in FeeRates /\ RateAllowed(c.rate)
  BY <1>1, <1>4 DEF CallOK, Calls
<1>7. /\ c.payer \in Accounts /\ c.payee \in Accounts /\ c.collector \in Accounts
      /\ c.before \in [Accounts -> Nat]
  BY DEF Calls
<1>8. net \in Nat
  BY <1>2, <1>6
<1>9. balance' = Payments!Paid(c.before, c.payer, c.payee, c.collector, c.gross, c.fee)
  <2>1. LET paid == Payments!Paid(c.before, c.payer, c.payee, c.collector, c.gross, c.fee)
        IN  /\ Transferred(balance, c.payer, c.payee, net) = paid
            /\ net = 0 => balance = paid
    BY <1>2, <1>6, <1>7, TwoTransfers
  <2>2. CASE net > 0
    BY <1>4, <2>1, <2>2
  <2>3. CASE net = 0
    BY <1>4, <2>1, <2>3
  <2> QED BY <1>8, <2>2, <2>3
<1>10. balance' \in [Accounts -> Nat]
  <2>1. CASE net > 0
    BY <1>4, <1>7, <1>8, <2>1, TransferredType DEF IInv
  <2>2. CASE net = 0
    BY <1>4, <2>2 DEF IInv
  <2> QED BY <1>8, <2>1, <2>2
<1>11. d \in Calls
  BY <1>3 DEF Calls, Steps
<1>12. CallOK(d)'
  <2>1. /\ d.step = "done" /\ d.gross = c.gross /\ d.fee = c.fee /\ d.rate = c.rate
        /\ d.before = c.before /\ d.locked = c.locked
        /\ d.payer = c.payer /\ d.payee = c.payee /\ d.collector = c.collector
    BY <1>3
  <2>2. balance' = Payments!Paid(d.before, d.payer, d.payee, d.collector, d.gross, d.fee)
    BY <1>9, <2>1
  <2> QED BY <1>6, <2>1, <2>2 DEF CallOK
<1> QED BY <1>1, <1>4, <1>5, <1>10, <1>11, <1>12, TopStep

\* A return leaves no call and no lock.
LEMMA ReturnStep ==
    ASSUME IInv, Return
    PROVE  IInv'
<1>1. PICK c \in Calls : calls = <<c>> /\ Top = c /\ CallOK(c) /\ lock = TRUE
  BY OnlyCall DEF Return
<1>2. calls' = <<>> /\ lock' = FALSE /\ balance' = balance
  BY <1>1, Singletons DEF Return
<1>3. OracleTypeOK'
  BY DEF IInv, OracleTypeOK, Return
<1> QED BY <1>2, <1>3 DEF IInv

\* A panic, caught or not, leaves none either.
LEMMA PanicStep ==
    ASSUME IInv, Panic
    PROVE  IInv' /\ Committed' = Committed
<1>1. PICK k \in DOMAIN calls :
        balance' = calls[k].before /\ lock' = calls[k].locked
        /\ calls' = SubSeq(calls, 1, k - 1)
  BY DEF Panic
<1>2. calls # <<>>
  BY <1>1
<1>3. PICK c \in Calls : calls = <<c>> /\ Top = c /\ CallOK(c) /\ lock = TRUE
  BY <1>2, OnlyCall
<1>4. k = 1 /\ calls[k] = c
  BY <1>1, <1>3, Singletons
<1>5. calls' = <<>> /\ lock' = FALSE /\ balance' = c.before
  BY <1>1, <1>3, <1>4, Singletons DEF CallOK, Calls
<1>6. OracleTypeOK'
  BY DEF IInv, OracleTypeOK, Panic
<1>7. balance' \in [Accounts -> Nat]
  BY <1>5 DEF Calls
<1> QED BY <1>2, <1>3, <1>4, <1>5, <1>6, <1>7 DEF IInv, Committed

\* The oracle's calls keep its prices positive and its times in the past.
LEMMA OracleStep ==
    ASSUME IInv, OracleCall
    PROVE  IInv'
<1>1. /\ OracleNext /\ now' = now /\ balance' = balance /\ lock' = lock /\ calls' = calls
  BY DEF OracleCall
<1> DEFINE Keys == {Unset} \cup [admin : Signers, updater : Signers, price : PositivePrices,
                                  decimals : DecimalPlaces, updated : 0 .. now]
<1>2. now \in Nat /\ oracle \in Keys /\ legacy \in Keys
  BY DEF IInv, OracleTypeOK
<1>3. Unset \in Keys
  OBVIOUS
<1>4. ASSUME NEW a \in Signers, NEW u \in Signers, NEW p \in PositivePrices,
             NEW d \in DecimalPlaces, NEW t \in 0 .. now
      PROVE  [admin |-> a, updater |-> u, price |-> p, decimals |-> d, updated |-> t] \in Keys
  OBVIOUS
<1>5. ASSUME IsSet(oracle)
      PROVE  oracle \in [admin : Signers, updater : Signers, price : PositivePrices,
                         decimals : DecimalPlaces, updated : 0 .. now]
  BY <1>2, <1>5 DEF IsSet, Unset
<1>6. ASSUME NEW a \in Signers, NEW u \in Signers, NEW p \in Prices, NEW d \in DecimalPlaces,
             InitializeOracle(a, u, p, d)
      PROVE  oracle' \in Keys /\ legacy' \in Keys
  <2>1. p \in PositivePrices /\ now \in 0 .. now
    BY <1>2, <1>6 DEF InitializeOracle, PositivePrices
  <2>2. oracle' = [admin |-> a, updater |-> u, price |-> p, decimals |-> d, updated |-> now]
        /\ legacy' = legacy
    BY <1>6 DEF InitializeOracle, PriceData
  <2> HIDE DEF Keys
  <2> QED BY <1>2, <1>4, <2>1, <2>2
<1>7. ASSUME NEW p \in Prices, UpdatePrice(p)
      PROVE  oracle' \in Keys /\ legacy' \in Keys
  <2>1. p \in PositivePrices /\ now \in 0 .. now
    BY <1>2, <1>7 DEF UpdatePrice, PositivePrices
  <2>2. PICK e : e = [oracle EXCEPT !.price = p]
    OBVIOUS
  <2>3. e = [admin |-> oracle.admin, updater |-> oracle.updater, price |-> p,
             decimals |-> oracle.decimals, updated |-> oracle.updated]
    BY <1>5, <1>7, <2>2 DEF UpdatePrice
  <2>4. oracle' = [e EXCEPT !.updated = now] /\ legacy' = legacy
    BY <1>7, <2>2, Zenon DEF UpdatePrice
  <2>5. oracle' = [admin |-> oracle.admin, updater |-> oracle.updater, price |-> p,
                   decimals |-> oracle.decimals, updated |-> now]
    BY <2>3, <2>4
  <2>6. oracle.admin \in Signers /\ oracle.updater \in Signers
        /\ oracle.decimals \in DecimalPlaces
    BY <1>5, <1>7 DEF UpdatePrice
  <2>7. oracle' \in Keys
    <3> HIDE DEF Keys
    <3> QED BY ONLY <1>4, <2>1, <2>5, <2>6
  <2>8. legacy' \in Keys
    BY <1>2, <2>4
  <2> QED BY <2>7, <2>8
<1>8. ASSUME NEW a \in Signers, SetOracleAdmin(a) \/ SetUpdater(a)
      PROVE  oracle' \in Keys /\ legacy' \in Keys
  BY <1>2, <1>5, <1>8 DEF SetOracleAdmin, SetUpdater
<1>9. ASSUME MigrateOracle
      PROVE  oracle' \in Keys /\ legacy' \in Keys
  BY <1>2, <1>3, <1>9 DEF MigrateOracle
<1>10. oracle' \in Keys /\ legacy' \in Keys
  BY <1>1, <1>6, <1>7, <1>8, <1>9 DEF OracleNext
<1>11. OracleTypeOK'
  BY <1>1, <1>2, <1>10 DEF OracleTypeOK
<1> QED BY <1>1, <1>11, OutsideStep

\* Time passes.
LEMMA TickStep ==
    ASSUME IInv, Tick
    PROVE  IInv'
<1>1. /\ now' = now + 1 /\ oracle' = oracle /\ legacy' = legacy
      /\ balance' = balance /\ lock' = lock /\ calls' = calls
  BY DEF Tick
<1>2. now \in Nat /\ 0 .. now \subseteq 0 .. now + 1
  BY DEF IInv, OracleTypeOK
<1>3. OracleTypeOK'
  BY <1>1, <1>2 DEF IInv, OracleTypeOK
<1> QED BY <1>1, <1>3, OutsideStep

\* Every step preserves the invariant.
LEMMA NextInvariant == IInv /\ [Next]_vars => IInv'
<1> SUFFICES ASSUME IInv, [Next]_vars PROVE IInv'
  OBVIOUS
<1>1. CASE UNCHANGED vars
  BY <1>1, OutsideStep DEF vars, IInv, OracleTypeOK
<1>2. CASE Next
  BY <1>2, CallStep, ConvertStep, CollectFeeStep, PayNetStep, ReturnStep, PanicStep,
     OracleStep, TickStep DEF Next
<1> QED BY <1>1, <1>2

-----------------------------------------------------------------------------
(* Theorems *)

\* The inductive invariant holds throughout.
THEOREM SettlementInvariant == Spec => []IInv
BY InitInvariant, NextInvariant, PTL DEF Spec

\* lib.rs and the oracle: no account is overdrawn between the two transfers, and
\* every price that is set is positive.
THEOREM SettlementTypeOK == Spec => []TypeOK
<1>1. IInv => TypeOK
  <2> SUFFICES ASSUME IInv PROVE TypeOK
    OBVIOUS
  <2>1. calls \in Seq(Calls)
    <3>1. CASE calls = <<>>
      BY <3>1
    <3>2. ASSUME NEW c \in Calls, calls = <<c>>
          PROVE  calls \in Seq(Calls)
      <4> HIDE DEF Calls
      <4> QED BY <3>2
    <3> QED BY <3>1, <3>2 DEF IInv
  <2> QED BY <2>1 DEF IInv, TypeOK
<1> QED BY <1>1, SettlementInvariant, PTL

\* reentrancy.rs: a settlement is under way exactly while the lock is held, and
\* never a second one, however deep external code calls back.
THEOREM SettlementOneInFlight == Spec => []OneInFlight
<1>1. IInv => OneInFlight
  <2> SUFFICES ASSUME IInv PROVE OneInFlight
    OBVIOUS
  <2>1. CASE calls = <<>> /\ lock = FALSE
    BY <2>1 DEF OneInFlight
  <2>2. ASSUME NEW c \in Calls, calls = <<c>>, lock = TRUE
        PROVE  OneInFlight
    BY <2>2, Singletons DEF OneInFlight
  <2> QED BY <2>1, <2>2 DEF IInv
<1> QED BY <1>1, SettlementInvariant, PTL

\* fees.rs:11-14: at every allowed rate a fee is within half a unit of the exact
\* share, and no more than the amount.
THEOREM SettlementFeesAreFair == Spec => []FeesAreFair
<1>1. IInv => FeesAreFair
  <2> SUFFICES ASSUME IInv, NEW k \in DOMAIN calls, calls[k].step \in {"net", "done"}
               PROVE  /\ calls[k].fee \in 0 .. calls[k].gross
                      /\ Payments!Rounded(calls[k].fee, calls[k].gross, calls[k].rate)
    BY DEF FeesAreFair
  <2>1. PICK c \in Calls : calls = <<c>> /\ CallOK(c)
    BY Singletons DEF IInv
  <2>2. calls[k] = c
    BY <2>1, Singletons
  <2> QED BY <2>1, <2>2 DEF CallOK
<1> QED BY <1>1, SettlementInvariant, PTL

\* A return makes one payment of the outermost call visible.
LEMMA ReturnPays ==
    ASSUME IInv, Return
    PROVE  Payments!Pay
<1>1. PICK c \in Calls : calls = <<c>> /\ Top = c /\ CallOK(c) /\ lock = TRUE
  BY OnlyCall DEF Return
<1>2. calls' = <<>> /\ balance' = balance /\ c.step = "done"
  BY <1>1, Singletons DEF Return
<1>3. Committed = c.before /\ Committed' = balance
  BY <1>1, <1>2, Singletons DEF Committed
<1>4. /\ c.payer \in Accounts /\ c.payee \in Accounts /\ c.collector \in Accounts
  BY DEF Calls
<1>5. /\ c.gross \in Grosses /\ c.fee \in 0 .. c.gross
      /\ c.rate \in {r \in FeeRates : RateAllowed(r)}
      /\ Payments!Rounded(c.fee, c.gross, c.rate)
      /\ balance = Payments!Paid(c.before, c.payer, c.payee, c.collector, c.gross, c.fee)
  BY <1>1, <1>2 DEF CallOK
<1>6. \A a \in Accounts : balance[a] >= 0
  BY DEF IInv
<1>7. Committed' = Payments!Paid(Committed, c.payer, c.payee, c.collector, c.gross, c.fee)
      /\ \A a \in Accounts : Committed'[a] >= 0
  BY <1>3, <1>5, <1>6
<1> QED BY <1>4, <1>5, <1>7 DEF Payments!Pay

\* No other step changes what others see.
LEMMA OthersUnseen ==
    ASSUME IInv, [Next]_vars, ~Return
    PROVE  Committed' = Committed
<1>1. ASSUME NEW call, Begin(call), call.before = balance
      PROVE  Committed' = Committed
  <2>1. calls = <<>> /\ calls' = Append(calls, call)
    BY <1>1 DEF IInv, Begin, LockFree
  <2>2. calls' = <<call>>
    BY <2>1, Singletons
  <2> QED BY <1>1, <2>1, <2>2, Singletons DEF Committed
<1>2. ASSUME NEW call, calls # <<>>, calls' = SetTop(call), call.before = Top.before
      PROVE  Committed' = Committed
  <2>1. PICK c \in Calls : calls = <<c>> /\ Top = c
    BY <1>2, OnlyCall
  <2>2. calls' = <<call>>
    BY <1>2, <2>1, Singletons DEF SetTop
  <2> QED BY <1>2, <2>1, <2>2, Singletons DEF Committed
<1>3. ASSUME NEW payer \in Accounts, NEW payee \in Accounts, NEW collector \in Accounts,
             NEW n \in Amounts, NEW rate \in FeeRates,
             \/ Settle(payer, payee, collector, n, rate)
             \/ \E minimum \in Minimums :
                  FinalizeSettlement(payer, payee, collector, n, minimum, rate)
      PROVE  Committed' = Committed
  BY <1>1, <1>3 DEF Settle, FinalizeSettlement
<1>4. ASSUME Convert \/ CollectFee \/ PayNet
      PROVE  Committed' = Committed
  <2>1. calls # <<>>
    BY <1>4 DEF Convert, CollectFee, PayNet
  <2>2. PICK c \in Calls : calls = <<c>> /\ Top = c
    BY <2>1, OnlyCall
  <2>3. \E d : calls' = SetTop(d) /\ d.before = c.before
    <3>1. CASE Convert
      <4>1. PICK x : x = ApplyRateToVolume(Top.volume, ResolvedRate)
        OBVIOUS
      <4>2. PICK e : e = [c EXCEPT !.step = "fee"]
        OBVIOUS
      <4>3. e = [step |-> "fee", volume |-> c.volume, minimum |-> c.minimum,
                 payer |-> c.payer, payee |-> c.payee, collector |-> c.collector,
                 gross |-> c.gross, fee |-> c.fee, rate |-> c.rate,
                 before |-> c.before, locked |-> c.locked]
        BY <4>2 DEF Calls
      <4>4. PICK d : d = [e EXCEPT !.gross = x]
        OBVIOUS
      <4>5. calls' = SetTop(d)
        BY <2>2, <3>1, <4>1, <4>2, <4>4, Zenon DEF Convert
      <4>6. d.before = c.before
        BY <4>3, <4>4
      <4> QED BY <4>5, <4>6
    <3>2. CASE CollectFee
      <4>1. PICK x : x = ComputeFee(Top.gross, Top.rate)
        OBVIOUS
      <4>2. PICK e : e = [c EXCEPT !.step = "net"]
        OBVIOUS
      <4>3. e = [step |-> "net", volume |-> c.volume, minimum |-> c.minimum,
                 payer |-> c.payer, payee |-> c.payee, collector |-> c.collector,
                 gross |-> c.gross, fee |-> c.fee, rate |-> c.rate,
                 before |-> c.before, locked |-> c.locked]
        BY <4>2 DEF Calls
      <4>4. PICK d : d = [e EXCEPT !.fee = x]
        OBVIOUS
      <4>5. calls' = SetTop(d)
        BY <2>2, <3>2, <4>1, <4>2, <4>4, Zenon DEF CollectFee
      <4>6. d.before = c.before
        BY <4>3, <4>4
      <4> QED BY <4>5, <4>6
    <3>3. CASE PayNet
      <4>1. PICK d : d = [c EXCEPT !.step = "done"]
        OBVIOUS
      <4>2. d = [step |-> "done", volume |-> c.volume, minimum |-> c.minimum,
                 payer |-> c.payer, payee |-> c.payee, collector |-> c.collector,
                 gross |-> c.gross, fee |-> c.fee, rate |-> c.rate,
                 before |-> c.before, locked |-> c.locked]
        BY <4>1 DEF Calls
      <4>3. calls' = SetTop(d)
        BY <2>2, <3>3, <4>1, Zenon DEF PayNet
      <4>4. d.before = c.before
        BY <4>2
      <4> QED BY <4>3, <4>4
    <3> QED BY <1>4, <3>1, <3>2, <3>3
  <2> QED BY <1>2, <2>1, <2>2, <2>3
<1>5. ASSUME OracleCall \/ Tick \/ UNCHANGED vars
      PROVE  Committed' = Committed
  BY <1>5 DEF OracleCall, Tick, vars, Committed
<1> QED BY <1>3, <1>4, <1>5, PanicStep DEF Next

\* What others see of the balances is whole payments with rounded fees: the
\* contract implements AtomicPayments.
THEOREM SettlementImplementsPayments == Spec => ImplementsPayments
<1>1. Init => Payments!Init
  BY SettlementAssumption DEF Init, Payments!Init, Committed
<1>2. IInv /\ [Next]_vars => [Payments!Pay]_Committed
  BY ReturnPays, OthersUnseen
<1> QED BY <1>1, <1>2, SettlementInvariant, PTL DEF Spec, ImplementsPayments, Payments!Spec

=============================================================================
