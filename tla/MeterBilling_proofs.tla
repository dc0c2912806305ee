------------------------- MODULE MeterBilling_proofs -------------------------
(***************************************************************************)
(* Proofs about MeterBilling, for every set of meters, rates, fees, taxes, *)
(* intervals and bounds.                                                   *)
(***************************************************************************)
EXTENDS MeterBilling, TLAPS

-----------------------------------------------------------------------------
(* Arithmetic *)

\* A share of a cost is between nothing and all of it.
LEMMA ShareBound ==
    ASSUME NEW a \in Nat, NEW n \in 0 .. Whole
    PROVE  (a * n) \div Whole \in Nat /\ (a * n) \div Whole <= a
<1> DEFINE q == (a * n) \div Whole
<1>0. Whole \in Nat \ {0}
  BY BillingAssumption
<1>1. a * n \in Nat /\ a * n <= a * Whole
  BY <1>0
<1>2. q \in Nat /\ Whole * q <= a * n
  BY <1>0, <1>1
<1>3. ASSUME q > a PROVE FALSE
  <2> HIDE DEF q
  <2>1. Whole * (q - a) >= 1
    BY <1>0, <1>2, <1>3
  <2>2. Whole * q - a * Whole >= 1
    BY <1>0, <1>2, <2>1
  <2> QED BY <1>0, <1>1, <1>2, <2>2
<1> QED BY <1>2, <1>3

\* The provider's share of a cost is not negative.
LEMMA PayoutNat ==
    ASSUME NEW cost \in Nat, NEW tax \in TaxRates, NEW fee \in Fees
    PROVE  Payout(cost, tax, fee) \in Nat
<1>1. tax \in 0 .. Whole /\ fee \in 0 .. Whole
  BY BillingAssumption
<1>2. PICK net \in Nat : net = cost - (cost * tax) \div Whole
  BY <1>1, ShareBound
<1>3. (net * fee) \div Whole \in Nat /\ (net * fee) \div Whole <= net
  BY <1>1, <1>2, ShareBound
<1> QED BY <1>2, <1>3 DEF Payout

\* Whole intervals of two stretches of time are at most those of their sum.
LEMMA IntervalsAdd ==
    ASSUME NEW a \in Nat, NEW b \in Nat
    PROVE  a \div Interval + b \div Interval <= (a + b) \div Interval
<1>0. Interval \in Nat \ {0}
  BY BillingAssumption
<1>1. PICK p \in Nat : p = a \div Interval /\ Interval * p <= a
  BY <1>0
<1>2. PICK q \in Nat : q = b \div Interval /\ Interval * q <= b
  BY <1>0
<1>3. PICK r \in Nat : r = (a + b) \div Interval /\ a + b < Interval * (r + 1)
  BY <1>0
<1>4. Interval * (p + q) < Interval * (r + 1)
  BY <1>0, <1>1, <1>2, <1>3
<1>5. p + q < r + 1
  BY <1>0, <1>4
<1> QED BY <1>1, <1>2, <1>3, <1>5

-----------------------------------------------------------------------------
(* Type correctness *)

\* Types hold at the beginning.
LEMMA TypeInit == Init => TypeOK
<1> SUFFICES ASSUME Init PROVE TypeOK
  OBVIOUS
<1> USE DEF Init, Zero, Clock
<1>1. TermsOK
  BY DEF TermsOK
<1>2. FundsOK /\ ClaimsOK
  BY DEF FundsOK, ClaimsOK
<1>3. FlagsOK /\ DeviceOK /\ HistoryOK
  BY DEF FlagsOK, DeviceOK, HistoryOK
<1> QED BY <1>1, <1>2, <1>3 DEF TypeOK

\* A charge is never negative, and the drip rate is at most MaxDrip.
LEMMA ClaimValues ==
    ASSUME TypeOK, NEW m \in Meters
    PROVE  /\ balance[m] \in Int /\ debt[m] \in Nat /\ claimed[m] \in Nat
           /\ rate[m] \in Nat /\ hourlyCap[m] \in Nat /\ charged[m] \in Nat
           /\ drip[m] \in Int /\ drip[m] <= MaxDrip
           /\ Elapsed(m) \in Nat
           /\ Elapsed(m) * (rate[m] + drip[m]) \in Int
           /\ CreditSettlement(m) \in 0 .. debt[m]
<1>1. /\ balance[m] \in Int /\ debt[m] \in Nat /\ claimed[m] \in Nat
      /\ rate[m] \in Nat /\ hourlyCap[m] \in Nat /\ charged[m] \in Nat
  BY DEF TypeOK, TermsOK, FundsOK, ClaimsOK, HistoryOK
<1>2. drip[m] \in Drips \cup {0}
  BY DEF TypeOK, TermsOK
<1>3. drip[m] \in Int /\ drip[m] <= MaxDrip
  <2>1. MaxDrip \in Nat /\ \A d \in Drips : d \in Int /\ d <= MaxDrip
    BY BillingAssumption
  <2>2. CASE drip[m] \in Drips
    BY <2>1, <2>2
  <2>3. CASE drip[m] = 0
    BY <2>1, <2>3
  <2> QED BY <1>2, <2>2, <2>3
<1>4. Elapsed(m) \in Nat
  BY DEF TypeOK, ClaimsOK, Clock, Elapsed
<1>5. Elapsed(m) * (rate[m] + drip[m]) \in Int
  BY <1>1, <1>3, <1>4
<1>6. CreditSettlement(m) \in 0 .. debt[m]
  <2>1. PICK e \in Nat : e = Elapsed(m)
    BY <1>4
  <2>2. drip[m] > 0 => e * drip[m] \in Nat
    BY <1>3, <2>1
  <2> QED BY <1>1, <2>1, <2>2 DEF CreditSettlement, Least
<1> QED BY <1>1, <1>3, <1>4, <1>5, <1>6

-----------------------------------------------------------------------------
(* What the two claims have in common *)

\* "taken" comes off the balance for the time since lastUpdate, "off" off the debt.
TimeCharge(m, taken, off) ==
    /\ taken \in Nat /\ off \in 0 .. debt[m]
    /\ taken > 0 => taken <= Elapsed(m) * (rate[m] + drip[m])
    /\ taken > 0 => balance[m] - taken >= DebtThreshold
    /\ billing[m] = "PrePaid" => off = 0
    /\ balance' = [balance EXCEPT ![m] = balance[m] - taken]
    /\ debt' = [debt EXCEPT ![m] = debt[m] - off]
    /\ charged' = [charged EXCEPT ![m] = charged[m] + taken]
    /\ lastUpdate' = [lastUpdate EXCEPT ![m] = now]
    /\ lastClaim' \in Clock
    /\ claimed' \in [Meters -> Nat]

\* claim charges time, up to the hour's cap and down to the threshold.
LEMMA ClaimCharges ==
    ASSUME TypeOK, NEW m \in Meters, Claim(m)
    PROVE  \E taken \in Nat, off \in 0 .. debt[m] : TimeCharge(m, taken, off)
<1> DEFINE amount == Elapsed(m) * (rate[m] + drip[m])
           capped == IF SameHour(m) THEN Least(amount, hourlyCap[m] - claimed[m]) ELSE amount
           taken == Most(Claimable(balance[m], capped), 0)
           off == IF taken > 0 THEN CreditSettlement(m) ELSE 0
<1>1. PICK a \in Int : a = amount
  BY ClaimValues
<1>2. PICK c \in Int : c = capped /\ c <= a
  BY <1>1, ClaimValues DEF Least
<1>3. DebtThreshold \in Int /\ DebtThreshold <= 0
  BY BillingAssumption
<1>4. PICK w \in Nat : /\ w = taken
                       /\ w > 0 => w <= a /\ balance[m] - w >= DebtThreshold
  BY <1>2, <1>3, ClaimValues DEF Claimable, Most
<1>5. PICK o : o = off
  OBVIOUS
<1>6. o \in 0 .. debt[m] /\ (billing[m] = "PrePaid" => o = 0)
  BY <1>4, <1>5, ClaimValues DEF CreditSettlement
<1>7. /\ balance' = [balance EXCEPT ![m] = balance[m] - taken]
      /\ debt' = [debt EXCEPT ![m] = debt[m] - off]
      /\ charged' = [charged EXCEPT ![m] = @ + taken]
      /\ claimed' = [claimed EXCEPT ![m] = ClaimedAfter(m, taken)]
      /\ lastUpdate' = [lastUpdate EXCEPT ![m] = now]
      /\ lastClaim' = [lastClaim EXCEPT ![m] = now]
  BY Zenon DEF Claim
<1> HIDE DEF amount, capped, taken, off
<1>8. ClaimedAfter(m, w) \in Nat
  BY <1>4, ClaimValues DEF ClaimedAfter
<1>9. claimed' \in [Meters -> Nat] /\ lastClaim' \in Clock
  BY <1>4, <1>7, <1>8 DEF TypeOK, ClaimsOK, Clock
<1>10. TimeCharge(m, w, o)
  BY <1>1, <1>4, <1>5, <1>6, <1>7, <1>9 DEF TimeCharge, amount
<1> QED BY <1>4, <1>6, <1>10

\* claim_with_alerts charges time, and takes no more than there is.
LEMMA AlertCharges ==
    ASSUME TypeOK, NEW m \in Meters, ClaimWithAlerts(m)
    PROVE  \E taken \in Nat, off \in 0 .. debt[m] :
              TimeCharge(m, taken, off) /\ (taken > 0 => balance[m] >= taken)
<1> DEFINE newHour == (now - lastClaim[m]) \div HourLength >= 1
           before == IF newHour THEN 0 ELSE claimed[m]
           amount == Elapsed(m) * (rate[m] + drip[m])
           wanted == Least(amount, balance[m])
           taken == IF wanted > 0 THEN Most(Least(wanted, hourlyCap[m] - before), 0) ELSE 0
           off == IF taken > 0 THEN CreditSettlement(m) ELSE 0
<1>1. PICK a \in Int : a = amount
  BY ClaimValues
<1>2. PICK f \in Nat : f = before
  BY ClaimValues
<1>3. DebtThreshold \in Int /\ DebtThreshold <= 0
  BY BillingAssumption
<1>4. PICK w \in Nat : /\ w = taken
                       /\ w > 0 => w <= a /\ balance[m] >= w
  BY <1>1, <1>2, ClaimValues DEF Least, Most
<1>5. PICK o : o = off
  OBVIOUS
<1>6. o \in 0 .. debt[m] /\ (billing[m] = "PrePaid" => o = 0)
  BY <1>4, <1>5, ClaimValues DEF CreditSettlement
<1>7. /\ balance' = [balance EXCEPT ![m] = @ - taken]
      /\ debt' = [debt EXCEPT ![m] = debt[m] - off]
      /\ charged' = [charged EXCEPT ![m] = @ + taken]
      /\ claimed' = [claimed EXCEPT ![m] = before + taken]
      /\ lastUpdate' = [lastUpdate EXCEPT ![m] = now]
      /\ lastClaim' = [lastClaim EXCEPT ![m] = IF newHour THEN now ELSE @]
  BY Zenon DEF ClaimWithAlerts
<1> HIDE DEF before, amount, wanted, taken, off, newHour
<1>8. claimed' \in [Meters -> Nat] /\ lastClaim' \in Clock
  BY <1>2, <1>4, <1>7 DEF TypeOK, ClaimsOK, Clock
<1>9. w > 0 => balance[m] - w >= DebtThreshold
  BY <1>3, <1>4, ClaimValues
<1>10. TimeCharge(m, w, o)
  BY <1>1, <1>4, <1>5, <1>6, <1>7, <1>8, <1>9 DEF TimeCharge, amount
<1> QED BY <1>4, <1>6, <1>10

-----------------------------------------------------------------------------
(* Every step keeps the types *)

\* Every call keeps types.
LEMMA TypeStep == TypeOK /\ [Next]_vars => TypeOK'
<1> SUFFICES ASSUME TypeOK, [Next]_vars PROVE TypeOK'
  OBVIOUS
<1> USE DEF TypeOK, TermsOK, FundsOK, ClaimsOK, FlagsOK, DeviceOK, HistoryOK, Clock
<1> USE DEF funds, claims, terms, settings, standing, device, cases, history
<1>1. ASSUME NEW m \in Meters, NEW mode \in {"PrePaid", "PostPaid"}, NEW r \in Rates,
             NEW w \in Rewards, Register(m, mode, r, w)
      PROVE  TypeOK'
  <2>1. r \in Nat /\ w \in Nat /\ r * HourLength \in Nat
    BY BillingAssumption DEF Rewards
  <2> QED BY <1>1, <2>1 DEF Register
<1>2. ASSUME NEW m \in Meters, InitiatePairing(m) \/ CompletePairing(m)
      PROVE  TypeOK'
  BY <1>2 DEF InitiatePairing, CompletePairing
<1>3. ASSUME NEW m \in Meters, NEW n \in Amounts, TopUp(m, n)
      PROVE  TypeOK'
  <2> DEFINE settled == IF billing[m] = "PostPaid" THEN Least(n, debt[m]) ELSE 0
             b == IF billing[m] = "PrePaid" THEN balance[m] + n ELSE balance[m]
  <2>1. n \in Nat
    BY BillingAssumption
  <2>2. settled \in Nat /\ settled <= debt[m] /\ settled <= n
    BY <2>1 DEF Least
  <2>3. b \in Int
    BY <2>1
  <2>4. /\ balance' = [balance EXCEPT ![m] = b]
        /\ debt' = [debt EXCEPT ![m] = debt[m] - settled]
        /\ collateral' = [collateral EXCEPT ![m] =
             IF billing[m] = "PostPaid" THEN @ + n - settled ELSE @]
    BY <1>3 DEF TopUp
  <2> HIDE DEF settled, b
  <2>5. FundsOK'
    BY <2>1, <2>2, <2>3, <2>4
  <2>6. active' \subseteq registered
    BY <1>3 DEF TopUp, Refreshed
  <2>7. lastUpdate' \in Clock
    BY <1>3 DEF TopUp
  <2> QED BY <1>3, <2>5, <2>6, <2>7 DEF TopUp
<1>4. ASSUME NEW m \in Meters, NEW u \in Units, NEW t \in 1 .. MaxTime,
             NEW tax \in TaxRates, NEW fee \in Fees, DeductUnits(m, u, t, tax, fee)
      PROVE  TypeOK'
  <2> DEFINE cost == u * EffectiveRate(m, t)
             pay == Payout(cost, tax, fee)
             b == IF billing[m] = "PrePaid" THEN balance[m] - pay ELSE balance[m]
             d == IF billing[m] = "PrePaid" THEN debt[m] ELSE debt[m] + pay
  <2>1. u \in Nat /\ t \in Nat /\ rate[m] \in Nat
    BY BillingAssumption
  <2>2. PICK e \in Nat : e = EffectiveRate(m, t)
    BY <2>1 DEF EffectiveRate
  <2>3. cost \in Nat
    BY <2>1, <2>2
  <2>4. pay \in Nat
    BY <2>3, PayoutNat
  <2> HIDE DEF cost, pay
  <2>5. b \in Int /\ d \in Nat
    BY <2>4
  <2>6. /\ balance' = [balance EXCEPT ![m] = b]
        /\ debt' = [debt EXCEPT ![m] = d]
        /\ claimed' = [claimed EXCEPT ![m] = @ + pay]
        /\ accepted' = [accepted EXCEPT ![m] = @ + u]
    BY <1>4, Zenon DEF DeductUnits, pay, cost
  <2> HIDE DEF b, d
  <2>7. FundsOK' /\ claimed' \in [Meters -> Nat] /\ accepted' \in [Meters -> Nat]
    BY <1>4, <2>1, <2>4, <2>5, <2>6 DEF DeductUnits
  <2>8. active' \subseteq registered
    BY <1>4 DEF DeductUnits, ReadingAdmitted, Refreshed
  <2> QED BY <1>4, <2>1, <2>7, <2>8 DEF DeductUnits
<1>5. ASSUME NEW m \in Meters, Claim(m)
      PROVE  TypeOK'
  <2>1. PICK taken \in Nat, off \in 0 .. debt[m] : TimeCharge(m, taken, off)
    BY <1>5, ClaimCharges
  <2>2. active' \subseteq registered
    BY <1>5 DEF Claim, Refreshed
  <2> QED BY <1>5, <2>1, <2>2 DEF TimeCharge, Claim
<1>6. ASSUME NEW m \in Meters, ClaimWithAlerts(m)
      PROVE  TypeOK'
  <2>1. PICK taken \in Nat, off \in 0 .. debt[m] : TimeCharge(m, taken, off)
    BY <1>6, AlertCharges
  <2>2. active' \subseteq registered
    BY <1>6 DEF ClaimWithAlerts
  <2> QED BY <1>6, <2>1, <2>2 DEF TimeCharge, ClaimWithAlerts
<1>7. ASSUME NEW m \in Meters, NEW n \in Amounts, WithdrawEarnings(m, n)
      PROVE  TypeOK'
  <2> DEFINE b == IF billing[m] = "PrePaid" THEN balance[m] - n ELSE balance[m]
             d == IF billing[m] = "PrePaid" THEN debt[m] ELSE debt[m] - n
  <2>1. n \in Nat
    BY BillingAssumption
  <2>2. b \in Int /\ d \in Nat
    BY <1>7, <2>1 DEF WithdrawEarnings, Earnings
  <2>3. balance' = [balance EXCEPT ![m] = b] /\ debt' = [debt EXCEPT ![m] = d]
    BY <1>7 DEF WithdrawEarnings
  <2> HIDE DEF b, d
  <2>4. FundsOK'
    BY <1>7, <2>2, <2>3 DEF WithdrawEarnings
  <2>5. active' \subseteq registered /\ lastUpdate' \in Clock
    BY <1>7 DEF WithdrawEarnings, Refreshed
  <2> QED BY <1>7, <2>4, <2>5 DEF WithdrawEarnings
<1>8. ASSUME NEW m \in Meters, NEW p \in BOOLEAN, SetMeterPause(m, p)
      PROVE  TypeOK'
  BY <1>8 DEF SetMeterPause, Refreshed
<1>9. ASSUME NEW m \in Meters, EmergencyShutdown(m) \/ ChallengeService(m)
      PROVE  TypeOK'
  BY <1>9 DEF EmergencyShutdown, ChallengeService
<1>10. ASSUME NEW m \in Meters, NEW ok \in BOOLEAN, ResolveChallenge(m, ok)
      PROVE  TypeOK'
  BY <1>10 DEF ResolveChallenge, Refreshed
<1>11. ASSUME NEW m \in Meters, RefundDisputedFunds(m)
      PROVE  TypeOK'
  BY <1>11 DEF RefundDisputedFunds
<1>12. ASSUME NEW m \in Meters, NEW d \in Drips, SetCreditDrip(m, d)
      PROVE  TypeOK'
  BY <1>12 DEF SetCreditDrip
<1>13. ASSUME NEW m \in Meters, NEW r \in HourlyRates, SetMaxFlowRate(m, r)
      PROVE  TypeOK'
  <2>1. r \in Nat
    BY BillingAssumption
  <2> QED BY <1>13, <2>1 DEF SetMaxFlowRate
<1>14. ASSUME NEW m \in Meters, InitiateFirmwareUpdate(m) \/ CompleteFirmwareUpdate(m)
      PROVE  TypeOK'
  BY <1>14 DEF InitiateFirmwareUpdate, CompleteFirmwareUpdate
<1>15. ASSUME NEW m \in Meters, LegalFreeze(m) \/ ReleaseLegalFreeze(m)
      PROVE  TypeOK'
  BY <1>15 DEF LegalFreeze, ReleaseLegalFreeze
<1>16. ASSUME NEW c \in SUBSET Meters, NEW n \in Amounts, SyncActualBalance(c, n)
      PROVE  TypeOK'
  <2>1. n \in Nat
    BY BillingAssumption
  <2> QED BY <1>16, <2>1 DEF SyncActualBalance, Least
<1>17. CASE Tick
  BY <1>17 DEF Tick
<1>18. CASE UNCHANGED vars
  BY <1>18 DEF vars
<1> QED
  BY <1>1, <1>2, <1>3, <1>4, <1>5, <1>6, <1>7, <1>8, <1>9, <1>10, <1>11, <1>12,
     <1>13, <1>14, <1>15, <1>16, <1>17, <1>18 DEF Next, CustomerCall, ProviderCall

-----------------------------------------------------------------------------
(* Activity *)

\* refresh_activity looks at the balance of a pre-paid meter alone: it may,
\* because such a meter never has debt.  A post-paid meter holds nothing, so
\* a claim with alerts that leaves something leaves no debt.
ModesApart ==
    \A m \in Meters :
        /\ billing[m] = "PrePaid" => debt[m] = 0
        /\ billing[m] = "PostPaid" => balance[m] <= 0
        /\ m \notin registered => debt[m] = 0

ActivityInv == TypeOK /\ ModesApart /\ ActiveIsServiceable

\* No meter is active at the beginning.
LEMMA ActivityInit == Init => ActivityInv
BY TypeInit DEF Init, Zero, ActivityInv, ModesApart, ActiveIsServiceable

\* A refreshed meter is active only if it can be served.
LEMMA RefreshedServiceable ==
    ASSUME NEW m, NEW b \in Int, NEW d \in Int, NEW held, m \in Refreshed(m, b, d, held)
    PROVE  b >= d /\ m \notin held
BY DEF Refreshed, Serviceable

\* Refreshing one meter does not touch the others.
LEMMA RefreshedOthers ==
    ASSUME NEW m, NEW b, NEW d, NEW held, NEW x, x # m
    PROVE  x \in Refreshed(m, b, d, held) <=> x \in active
BY DEF Refreshed

\* Every call leaves the activity flag right.
LEMMA ActivityStep == ActivityInv /\ [Next]_vars => ActivityInv'
<1> SUFFICES ASSUME ActivityInv, [Next]_vars PROVE ActivityInv'
  OBVIOUS
<1>0. TypeOK /\ TypeOK'
  BY TypeStep DEF ActivityInv
<1>t. /\ \A m \in Meters : balance[m] \in Int /\ debt[m] \in Nat
      /\ billing \in [Meters -> {"PrePaid", "PostPaid"}]
      /\ balance \in [Meters -> Int] /\ debt \in [Meters -> Nat] /\ active \subseteq Meters
  BY <1>0 DEF TypeOK, TermsOK, FundsOK, FlagsOK
<1> USE DEF ActivityInv
<1>1. ASSUME NEW m \in Meters, NEW mode \in {"PrePaid", "PostPaid"}, NEW r \in Rates,
             NEW w \in Rewards, Register(m, mode, r, w)
      PROVE  ActivityInv'
  <2>1. w \in Nat /\ m \notin disputed \cup closed
    BY <1>0, <1>1, BillingAssumption DEF Rewards, Register, TypeOK, FlagsOK
  <2>2. /\ debt[m] = 0 /\ (mode = "PostPaid" => w = 0)
        /\ balance' = [balance EXCEPT ![m] = w] /\ debt' = debt
        /\ billing' = [billing EXCEPT ![m] = mode]
        /\ registered' = registered \cup {m}
        /\ active' = active \cup {m} /\ disputed' = disputed /\ closed' = closed
    BY <1>1, <2>1 DEF Register, ModesApart, funds, standing
  <2>3. ModesApart'
    BY <1>t, <2>1, <2>2 DEF ModesApart
  <2>4. ActiveIsServiceable'
    BY <1>t, <2>1, <2>2 DEF ActiveIsServiceable
  <2> QED BY <1>0, <2>3, <2>4
<1>2. ASSUME NEW m \in Meters, InitiatePairing(m) \/ CompletePairing(m)
      PROVE  ActivityInv'
  BY <1>0, <1>2 DEF InitiatePairing, CompletePairing, ModesApart, ActiveIsServiceable,
                    funds, terms, standing
<1>3. ASSUME NEW m \in Meters, NEW n \in Amounts, TopUp(m, n)
      PROVE  ActivityInv'
  <2> DEFINE settled == IF billing[m] = "PostPaid" THEN Least(n, debt[m]) ELSE 0
  <2>1. PICK b : b = IF billing[m] = "PrePaid" THEN balance[m] + n ELSE balance[m]
    OBVIOUS
  <2>2. PICK d : d = debt[m] - settled
    OBVIOUS
  <2>3. n \in Nat
    BY BillingAssumption
  <2>4. b \in Int /\ d \in Int /\ d <= debt[m] /\ d >= 0
    BY <1>t, <2>1, <2>2, <2>3 DEF Least
  <2>5. /\ balance' = [balance EXCEPT ![m] = b] /\ debt' = [debt EXCEPT ![m] = d]
        /\ active' = Refreshed(m, b, d, HeldUp)
        /\ billing' = billing /\ registered' = registered
        /\ disputed' = disputed /\ closed' = closed
    BY <1>3, <2>1, <2>2 DEF TopUp, terms
  <2>6. ModesApart'
    BY <1>t, <2>1, <2>4, <2>5 DEF ModesApart
  <2>7. ActiveIsServiceable'
    BY <1>t, <2>4, <2>5, RefreshedServiceable, RefreshedOthers
    DEF ActiveIsServiceable, HeldUp
  <2> QED BY <1>0, <2>6, <2>7
<1>4. ASSUME NEW m \in Meters, NEW u \in Units, NEW t \in 1 .. MaxTime,
             NEW tax \in TaxRates, NEW fee \in Fees, DeductUnits(m, u, t, tax, fee)
      PROVE  ActivityInv'
  <2> DEFINE pay == Payout(u * EffectiveRate(m, t), tax, fee)
  <2>1. PICK b : b = IF billing[m] = "PrePaid" THEN balance[m] - pay ELSE balance[m]
    OBVIOUS
  <2>2. PICK d : d = IF billing[m] = "PrePaid" THEN debt[m] ELSE debt[m] + pay
    OBVIOUS
  <2>3. /\ balance' = [balance EXCEPT ![m] = b] /\ debt' = [debt EXCEPT ![m] = d]
        /\ active' = Refreshed(m, b, d, HeldUp)
        /\ billing' = billing /\ registered' = registered
        /\ disputed' = disputed /\ closed' = closed /\ m \in registered
    BY <1>4, <2>1, <2>2, Zenon DEF DeductUnits, ReadingAdmitted, terms
  <2>4. b = balance'[m] /\ d = debt'[m]
    BY <1>t, <2>3
  <2>5. b \in Int /\ d \in Int
    BY <1>0, <2>4 DEF TypeOK, FundsOK
  <2>6. /\ billing[m] = "PrePaid" => d = debt[m]
        /\ billing[m] = "PostPaid" => b = balance[m]
    BY <2>1, <2>2
  <2> HIDE DEF pay
  <2>7. ModesApart'
    BY <1>t, <2>3, <2>5, <2>6 DEF ModesApart
  <2>8. ActiveIsServiceable'
    BY <1>t, <2>3, <2>5, RefreshedServiceable, RefreshedOthers
    DEF ActiveIsServiceable, HeldUp
  <2> QED BY <1>0, <2>7, <2>8
<1>5. ASSUME NEW m \in Meters, Claim(m)
      PROVE  ActivityInv'
  <2>1. PICK w \in Nat, o \in 0 .. debt[m] : TimeCharge(m, w, o)
    BY <1>0, <1>5, ClaimCharges
  <2>2. /\ balance' = [balance EXCEPT ![m] = balance[m] - w]
        /\ debt' = [debt EXCEPT ![m] = debt[m] - o]
        /\ billing[m] = "PrePaid" => o = 0
    BY <2>1 DEF TimeCharge
  <2>3. \E b \in Int, d \in Int :
           /\ balance' = [balance EXCEPT ![m] = b] /\ debt' = [debt EXCEPT ![m] = d]
           /\ active' = Refreshed(m, b, d, HeldUp)
    <3>1. \E b, d :
             /\ balance' = [balance EXCEPT ![m] = b] /\ debt' = [debt EXCEPT ![m] = d]
             /\ active' = Refreshed(m, b, d, HeldUp)
      BY <1>5, Zenon DEF Claim
    <3>2. PICK b, d :
             /\ balance' = [balance EXCEPT ![m] = b] /\ debt' = [debt EXCEPT ![m] = d]
             /\ active' = Refreshed(m, b, d, HeldUp)
      BY <3>1
    <3>3. b = balance'[m] /\ d = debt'[m]
      BY <1>t, <3>2
    <3>4. b \in Int /\ d \in Int
      BY <1>0, <3>3 DEF TypeOK, FundsOK
    <3> QED BY <3>2, <3>4
  <2>4. PICK b \in Int, d \in Int :
           /\ balance' = [balance EXCEPT ![m] = b] /\ debt' = [debt EXCEPT ![m] = d]
           /\ active' = Refreshed(m, b, d, HeldUp)
    BY <2>3
  <2>5. /\ billing' = billing /\ registered' = registered
        /\ disputed' = disputed /\ closed' = closed /\ m \in registered
    BY <1>5 DEF Claim, terms
  <2>6. ModesApart'
    BY <1>t, <2>2, <2>5 DEF ModesApart
  <2>7. ActiveIsServiceable'
    BY <1>t, <2>4, <2>5, RefreshedServiceable, RefreshedOthers
    DEF ActiveIsServiceable, HeldUp
  <2> QED BY <1>0, <2>6, <2>7
<1>6. ASSUME NEW m \in Meters, ClaimWithAlerts(m)
      PROVE  ActivityInv'
  <2>1. PICK w \in Nat, o \in 0 .. debt[m] : TimeCharge(m, w, o)
    BY <1>0, <1>6, AlertCharges
  <2>2. /\ balance' = [balance EXCEPT ![m] = balance[m] - w]
        /\ debt' = [debt EXCEPT ![m] = debt[m] - o]
        /\ billing[m] = "PrePaid" => o = 0
    BY <2>1 DEF TimeCharge
  <2>3. /\ billing' = billing /\ registered' = registered
        /\ disputed' = disputed /\ closed' = closed /\ m \in registered
    BY <1>6 DEF ClaimWithAlerts, terms
  <2>4. \E taken : /\ balance' = [balance EXCEPT ![m] = @ - taken]
                   /\ active' = IF balance[m] - taken <= 0 THEN active \ {m} ELSE active
    BY <1>6, Zenon DEF ClaimWithAlerts
  <2>5. active' = IF balance'[m] <= 0 THEN active \ {m} ELSE active
    BY <1>t, <2>4
  <2>6. ModesApart'
    BY <1>t, <2>2, <2>3 DEF ModesApart
  <2>7. m \in active' => /\ m \in active /\ balance[m] - w > 0 /\ billing[m] = "PrePaid"
    BY <1>t, <2>2, <2>5 DEF ModesApart
  <2>8. m \in active' => debt'[m] = 0 /\ balance'[m] > 0
    BY <1>t, <2>2, <2>7 DEF ModesApart
  <2>9. ActiveIsServiceable'
    BY <1>t, <2>2, <2>3, <2>5, <2>7, <2>8 DEF ActiveIsServiceable
  <2> QED BY <1>0, <2>6, <2>9
<1>7. ASSUME NEW m \in Meters, NEW n \in Amounts, WithdrawEarnings(m, n)
      PROVE  ActivityInv'
  <2>1. PICK b : b = IF billing[m] = "PrePaid" THEN balance[m] - n ELSE balance[m]
    OBVIOUS
  <2>2. PICK d : d = IF billing[m] = "PrePaid" THEN debt[m] ELSE debt[m] - n
    OBVIOUS
  <2>3. n \in Nat
    BY BillingAssumption
  <2>4. b \in Int /\ d \in Int /\ d <= debt[m] /\ b <= balance[m]
    BY <1>t, <2>1, <2>2, <2>3
  <2>5. /\ balance' = [balance EXCEPT ![m] = b] /\ debt' = [debt EXCEPT ![m] = d]
        /\ active' = Refreshed(m, b, d, HeldUp)
        /\ billing' = billing /\ registered' = registered /\ m \in registered
        /\ disputed' = disputed /\ closed' = closed
        /\ billing[m] = "PrePaid" => d = debt[m]
    BY <1>7, <2>1, <2>2 DEF WithdrawEarnings, terms
  <2>6. ModesApart'
    BY <1>t, <2>4, <2>5 DEF ModesApart
  <2>7. ActiveIsServiceable'
    BY <1>t, <2>4, <2>5, RefreshedServiceable, RefreshedOthers
    DEF ActiveIsServiceable, HeldUp
  <2> QED BY <1>0, <2>6, <2>7
<1>8. ASSUME NEW m \in Meters, NEW p \in BOOLEAN, SetMeterPause(m, p)
      PROVE  ActivityInv'
  <2>1. /\ active' = Refreshed(m, balance[m], debt[m], paused' \cup disputed \cup closed)
        /\ balance' = balance /\ debt' = debt /\ disputed' = disputed /\ closed' = closed
        /\ billing' = billing /\ registered' = registered
    BY <1>8 DEF SetMeterPause, funds, terms
  <2>2. ActiveIsServiceable'
    BY <1>t, <2>1, RefreshedServiceable, RefreshedOthers DEF ActiveIsServiceable
  <2> QED BY <1>0, <2>1, <2>2 DEF ModesApart
<1>9. ASSUME NEW m \in Meters, EmergencyShutdown(m) \/ ChallengeService(m)
      PROVE  ActivityInv'
  BY <1>0, <1>9 DEF EmergencyShutdown, ChallengeService, ModesApart, ActiveIsServiceable,
                    funds, terms, standing
<1>10. ASSUME NEW m \in Meters, NEW ok \in BOOLEAN, ResolveChallenge(m, ok)
      PROVE  ActivityInv'
  <2>1. /\ active' = Refreshed(m, balance[m], debt[m], paused' \cup disputed' \cup closed)
        /\ balance' = balance /\ debt' = debt /\ closed' = closed
        /\ billing' = billing /\ registered' = registered /\ disputed' \subseteq disputed
    BY <1>10 DEF ResolveChallenge, funds, terms
  <2>2. ActiveIsServiceable'
    BY <1>t, <2>1, RefreshedServiceable, RefreshedOthers DEF ActiveIsServiceable
  <2> QED BY <1>0, <2>1, <2>2 DEF ModesApart
<1>11. ASSUME NEW m \in Meters, RefundDisputedFunds(m)
      PROVE  ActivityInv'
  <2>1. /\ balance' = [balance EXCEPT ![m] = 0] /\ debt' = [debt EXCEPT ![m] = 0]
        /\ active' = active \ {m} /\ disputed' = disputed \ {m} /\ closed' = closed
        /\ billing' = billing /\ registered' = registered
    BY <1>11 DEF RefundDisputedFunds, terms
  <2> QED BY <1>0, <1>t, <2>1 DEF ModesApart, ActiveIsServiceable
<1>12. ASSUME NEW m \in Meters, NEW d \in Drips, SetCreditDrip(m, d)
      PROVE  ActivityInv'
  BY <1>0, <1>12 DEF SetCreditDrip, ModesApart, ActiveIsServiceable, funds, terms, standing
<1>13. ASSUME NEW m \in Meters, NEW r \in HourlyRates, SetMaxFlowRate(m, r)
      PROVE  ActivityInv'
  BY <1>0, <1>13 DEF SetMaxFlowRate, ModesApart, ActiveIsServiceable, funds, terms, standing
<1>14. ASSUME NEW m \in Meters, InitiateFirmwareUpdate(m) \/ CompleteFirmwareUpdate(m)
      PROVE  ActivityInv'
  BY <1>0, <1>14 DEF InitiateFirmwareUpdate, CompleteFirmwareUpdate, ModesApart,
                     ActiveIsServiceable, funds, terms, standing
<1>15. ASSUME NEW m \in Meters, LegalFreeze(m) \/ ReleaseLegalFreeze(m)
      PROVE  ActivityInv'
  BY <1>0, <1>15 DEF LegalFreeze, ReleaseLegalFreeze, ModesApart, ActiveIsServiceable,
                     funds, terms
<1>16. ASSUME NEW c \in SUBSET Meters, NEW n \in Amounts, SyncActualBalance(c, n)
      PROVE  ActivityInv'
  <2>1. n \in Nat
    BY BillingAssumption
  <2>2. /\ debt' = debt /\ disputed' = disputed /\ billing' = billing
        /\ registered' = registered
        /\ active' = active \ (c \cap active) /\ closed' = closed \cup (c \cap active)
        /\ \A x \in Meters \ (c \cap active) : balance'[x] = balance[x]
    BY <1>16 DEF SyncActualBalance, terms
  <2>3. \A x \in Meters : balance[x] <= 0 => balance'[x] <= 0
    BY <1>t, <1>16, <2>1 DEF SyncActualBalance, Least, ActiveIsServiceable
  <2>4. ModesApart'
    BY <2>2, <2>3, <1>t DEF ModesApart
  <2>5. ActiveIsServiceable'
    BY <1>t, <2>2 DEF ActiveIsServiceable
  <2> QED BY <1>0, <2>4, <2>5
<1>17. CASE Tick
  BY <1>0, <1>17 DEF Tick, ModesApart, ActiveIsServiceable, funds, terms, standing
<1>18. CASE UNCHANGED vars
  BY <1>0, <1>18 DEF vars, ModesApart, ActiveIsServiceable, funds, terms, standing
<1> QED
  BY <1>1, <1>2, <1>3, <1>4, <1>5, <1>6, <1>7, <1>8, <1>9, <1>10, <1>11, <1>12,
     <1>13, <1>14, <1>15, <1>16, <1>17, <1>18 DEF Next, CustomerCall, ProviderCall

-----------------------------------------------------------------------------
(* Time *)

\* A meter's clock starts at its registration, and what does not exist was
\* never charged.
ClockStarted ==
    \A m \in Meters :
        /\ m \in registered => since[m] <= lastUpdate[m]
        /\ m \notin registered => charged[m] = 0

TimeInv == TypeOK /\ ClockStarted /\ TimeIsChargedOnce

\* Nothing is charged at the beginning.
LEMMA TimeInit == Init => TimeInv
BY TypeInit DEF Init, Zero, TimeInv, ClockStarted, TimeIsChargedOnce

\* The types of what time is charged by.
LEMMA TimeTypes ==
    ASSUME TypeOK
    PROVE  /\ now \in Nat /\ registered \subseteq Meters /\ MaxDrip \in Nat
           /\ lastUpdate \in [Meters -> Nat] /\ since \in [Meters -> Nat]
           /\ charged \in [Meters -> Nat] /\ rate \in [Meters -> Nat]
           /\ \A m \in Meters : lastUpdate[m] <= now
BY BillingAssumption DEF TypeOK, TermsOK, ClaimsOK, HistoryOK, Clock

\* More time never allows less.
LEMMA AllowanceGrows ==
    ASSUME NEW r \in Nat, NEW c \in Nat, NEW a \in Nat, NEW b \in Nat, a <= b, c <= r * a
    PROVE  c <= r * b
<1>1. r * b = r * a + r * (b - a)
  OBVIOUS
<1>2. r * (b - a) >= 0
  OBVIOUS
<1>3. r * a \in Nat /\ r * b \in Nat /\ r * (b - a) \in Int
  OBVIOUS
<1> QED BY <1>1, <1>2, <1>3

\* A call that charges nothing for time and sets no meter's clock back is harmless.
LEMMA ClockForward ==
    ASSUME TimeInv, TypeOK', registered' = registered, charged' = charged,
           rate' = rate, since' = since,
           \A x \in Meters : lastUpdate[x] <= lastUpdate'[x]
    PROVE  TimeInv'
<1>1. ClockStarted'
  BY TimeTypes DEF TimeInv, ClockStarted, TypeOK, ClaimsOK, Clock
<1>2. ASSUME NEW m \in registered
      PROVE  charged[m] <= (rate[m] + MaxDrip) * (lastUpdate'[m] - since[m])
  <2>1. /\ rate[m] + MaxDrip \in Nat /\ charged[m] \in Nat
        /\ lastUpdate[m] - since[m] \in Nat /\ lastUpdate'[m] - since[m] \in Nat
        /\ lastUpdate[m] - since[m] <= lastUpdate'[m] - since[m]
    BY TimeTypes DEF TimeInv, ClockStarted, TypeOK, ClaimsOK, Clock
  <2>2. charged[m] <= (rate[m] + MaxDrip) * (lastUpdate[m] - since[m])
    BY DEF TimeInv, TimeIsChargedOnce
  <2> QED BY <2>1, <2>2, AllowanceGrows
<1> QED BY <1>1, <1>2 DEF TimeInv, TimeIsChargedOnce

\* A claim charges the time since lastUpdate at no more than the highest rate.
LEMMA ChargeInTime ==
    ASSUME TimeInv, TypeOK', NEW m \in registered, NEW w \in Nat, NEW o \in Nat,
           TimeCharge(m, w, o), registered' = registered, rate' = rate, since' = since
    PROVE  TimeInv'
<1>1. /\ m \in Meters /\ lastUpdate' = [lastUpdate EXCEPT ![m] = now]
      /\ charged' = [charged EXCEPT ![m] = charged[m] + w]
      /\ w > 0 => w <= Elapsed(m) * (rate[m] + drip[m])
  BY TimeTypes DEF TimeCharge, TimeInv
<1>2. ClockStarted'
  BY <1>1, TimeTypes DEF TimeInv, ClockStarted
<1>3. PICK e \in Nat, r \in Nat, d \in Int :
         /\ e = now - lastUpdate[m] /\ e = Elapsed(m) /\ r = rate[m] /\ d = drip[m]
         /\ d <= MaxDrip
  BY <1>1, TimeTypes, ClaimValues DEF TimeInv, Elapsed
<1>4. PICK k \in Nat, a \in Nat, c \in Nat :
         k = r + MaxDrip /\ a = lastUpdate[m] - since[m] /\ c = charged[m]
  <2>1. /\ r + MaxDrip \in Nat /\ charged[m] \in Nat
        /\ lastUpdate[m] - since[m] \in Nat
    BY <1>1, <1>3, TimeTypes DEF TimeInv, ClockStarted
  <2> QED BY <2>1, Zenon
<1>5. c <= k * a
  BY <1>3, <1>4 DEF TimeInv, TimeIsChargedOnce
<1>6. e * (r + d) <= k * e
  <2>1. k - (r + d) \in Nat
    BY <1>3, <1>4, TimeTypes DEF TimeInv
  <2>2. e * (k - (r + d)) >= 0
    BY <1>3, <2>1
  <2>3. e * (k - (r + d)) = k * e - e * (r + d)
    BY <1>3, <1>4
  <2> QED BY <1>3, <1>4, <2>2, <2>3
<1>7. w <= k * e
  <2>1. k * e \in Nat /\ e * (r + d) \in Int
    BY <1>3, <1>4
  <2> QED BY <1>1, <1>3, <1>6, <2>1
<1>8. c + w <= k * (a + e)
  <2>1. k * (a + e) = k * a + k * e /\ k * a \in Nat /\ k * e \in Nat
    BY <1>3, <1>4
  <2> QED BY <1>4, <1>5, <1>7, <2>1
<1>9. a + e = now - since[m]
  BY <1>1, <1>3, <1>4, TimeTypes DEF TimeInv
<1>10. TimeIsChargedOnce'
  BY <1>1, <1>3, <1>4, <1>8, <1>9, TimeTypes DEF TimeInv, TimeIsChargedOnce
<1> QED BY <1>2, <1>10 DEF TimeInv

\* No call charges a second again.
LEMMA TimeStep == TimeInv /\ [Next]_vars => TimeInv'
<1> SUFFICES ASSUME TimeInv, [Next]_vars PROVE TimeInv'
  OBVIOUS
<1>0. TypeOK /\ TypeOK'
  BY TypeStep DEF TimeInv
<1>t. /\ now \in Nat /\ lastUpdate \in [Meters -> Nat] /\ registered \subseteq Meters
      /\ \A m \in Meters : lastUpdate[m] <= now
  BY <1>0, TimeTypes
<1> USE DEF claims, terms, history
<1>1. ASSUME NEW m \in Meters, NEW mode \in {"PrePaid", "PostPaid"}, NEW r \in Rates,
             NEW w \in Rewards, Register(m, mode, r, w)
      PROVE  TimeInv'
  <2>1. /\ m \notin registered /\ registered' = registered \cup {m}
        /\ lastUpdate' = [lastUpdate EXCEPT ![m] = now]
        /\ since' = [since EXCEPT ![m] = now] /\ charged' = charged
        /\ rate' = [rate EXCEPT ![m] = r] /\ r \in Nat /\ charged[m] = 0
    BY <1>1, BillingAssumption DEF Register, TimeInv, ClockStarted
  <2>2. ClockStarted'
    BY <1>0, <2>1, TimeTypes DEF TimeInv, ClockStarted
  <2>3. charged'[m] <= (rate'[m] + MaxDrip) * (lastUpdate'[m] - since'[m])
    BY <1>0, <2>1, TimeTypes
  <2>4. ASSUME NEW x \in registered
        PROVE  charged'[x] <= (rate'[x] + MaxDrip) * (lastUpdate'[x] - since'[x])
    <3>1. /\ charged'[x] = charged[x] /\ rate'[x] = rate[x]
          /\ lastUpdate'[x] = lastUpdate[x] /\ since'[x] = since[x]
      BY <1>0, <2>1, TimeTypes
    <3> QED BY <3>1 DEF TimeInv, TimeIsChargedOnce
  <2> QED BY <1>0, <2>1, <2>2, <2>3, <2>4 DEF TimeInv, TimeIsChargedOnce
<1>2. ASSUME NEW m \in registered, Claim(m) PROVE TimeInv'
  <2>1. PICK w \in Nat, o \in 0 .. debt[m] : TimeCharge(m, w, o)
    BY <1>0, <1>t, <1>2, ClaimCharges
  <2>2. o \in Nat
    BY <1>0, <1>t, <2>1 DEF TypeOK, FundsOK
  <2> QED BY <1>0, <1>2, <2>1, <2>2, ChargeInTime DEF Claim
<1>3. ASSUME NEW m \in registered, ClaimWithAlerts(m) PROVE TimeInv'
  <2>1. PICK w \in Nat, o \in 0 .. debt[m] : TimeCharge(m, w, o)
    BY <1>0, <1>t, <1>3, AlertCharges
  <2>2. o \in Nat
    BY <1>0, <1>t, <2>1 DEF TypeOK, FundsOK
  <2> QED BY <1>0, <1>3, <2>1, <2>2, ChargeInTime DEF ClaimWithAlerts
<1>4. ASSUME NEW m \in Meters, NEW n \in Amounts, TopUp(m, n) \/ WithdrawEarnings(m, n)
      PROVE  TimeInv'
  <2>1. /\ lastUpdate' = lastUpdate \/ lastUpdate' = [lastUpdate EXCEPT ![m] = now]
        /\ registered' = registered /\ charged' = charged /\ rate' = rate /\ since' = since
    BY <1>4, <1>t DEF TopUp, WithdrawEarnings
  <2>2. \A x \in Meters : lastUpdate[x] <= lastUpdate'[x]
    BY <1>t, <2>1
  <2> QED BY <1>0, <2>1, <2>2, ClockForward
<1>5. ASSUME NEW m \in Meters, NEW u \in Units, NEW t \in 1 .. MaxTime,
             NEW tax \in TaxRates, NEW fee \in Fees, DeductUnits(m, u, t, tax, fee)
      PROVE  TimeInv'
  <2>1. /\ lastUpdate' = [lastUpdate EXCEPT ![m] = now]
        /\ registered' = registered /\ charged' = charged /\ rate' = rate /\ since' = since
    BY <1>5 DEF DeductUnits
  <2>2. \A x \in Meters : lastUpdate[x] <= lastUpdate'[x]
    BY <1>t, <2>1
  <2> QED BY <1>0, <2>1, <2>2, ClockForward
<1>6. ASSUME NEW m \in Meters, CompleteFirmwareUpdate(m)
      PROVE  TimeInv'
  <2>1. /\ lastUpdate' = [lastUpdate EXCEPT ![m] = now]
        /\ registered' = registered /\ charged' = charged /\ rate' = rate /\ since' = since
    BY <1>6 DEF CompleteFirmwareUpdate
  <2>2. \A x \in Meters : lastUpdate[x] <= lastUpdate'[x]
    BY <1>t, <2>1
  <2> QED BY <1>0, <2>1, <2>2, ClockForward
<1>7. ASSUME UNCHANGED <<claims, terms, history>>
      PROVE  TimeInv'
  <2>1. \A x \in Meters : lastUpdate[x] <= lastUpdate'[x]
    BY <1>t, <1>7
  <2> QED BY <1>0, <1>7, <2>1, ClockForward
<1>8. ASSUME NEW m \in Meters,
             \/ InitiatePairing(m) \/ CompletePairing(m) \/ EmergencyShutdown(m)
             \/ ChallengeService(m) \/ RefundDisputedFunds(m)
             \/ InitiateFirmwareUpdate(m) \/ LegalFreeze(m) \/ ReleaseLegalFreeze(m)
      PROVE  UNCHANGED <<claims, terms, history>>
  BY <1>8 DEF InitiatePairing, CompletePairing, EmergencyShutdown, ChallengeService,
              RefundDisputedFunds, InitiateFirmwareUpdate, LegalFreeze, ReleaseLegalFreeze
<1>9. ASSUME NEW m \in Meters, NEW p \in BOOLEAN,
             SetMeterPause(m, p) \/ ResolveChallenge(m, p)
      PROVE  UNCHANGED <<claims, terms, history>>
  BY <1>9 DEF SetMeterPause, ResolveChallenge
<1>10. ASSUME NEW m \in Meters, NEW d \in Drips, SetCreditDrip(m, d)
       PROVE  UNCHANGED <<claims, terms, history>>
  BY <1>10 DEF SetCreditDrip
<1>11. ASSUME NEW m \in Meters, NEW r \in HourlyRates, SetMaxFlowRate(m, r)
       PROVE  UNCHANGED <<claims, terms, history>>
  BY <1>11 DEF SetMaxFlowRate
<1>12. ASSUME NEW c \in SUBSET Meters, NEW n \in Amounts, SyncActualBalance(c, n)
       PROVE  UNCHANGED <<claims, terms, history>>
  BY <1>12 DEF SyncActualBalance
<1>13. ASSUME Tick \/ UNCHANGED vars
       PROVE  UNCHANGED <<claims, terms, history>>
  BY <1>13 DEF Tick, vars
<1>14. \A m \in Meters : Claim(m) \/ ClaimWithAlerts(m) => m \in registered
  BY DEF Claim, ClaimWithAlerts
<1> QED
  BY <1>1, <1>2, <1>3, <1>4, <1>5, <1>6, <1>7, <1>8, <1>9, <1>10, <1>11, <1>12,
     <1>13, <1>14 DEF Next, CustomerCall, ProviderCall

-----------------------------------------------------------------------------
(* Readings *)

\* A reading admitted at t keeps what was accepted within the allowance up to t.
LEMMA ReadingFits ==
    ASSUME NEW a \in Nat, NEW u \in Nat, NEW l \in Nat, NEW t \in Nat, l < t,
           a <= MaxDelta * (l \div Interval), u <= Allowance(t - l)
    PROVE  a + u <= MaxDelta * (t \div Interval)
<1>0. Interval \in Nat \ {0} /\ MaxDelta \in Nat /\ MaxIntervals \in Nat
  BY BillingAssumption
<1>1. PICK p \in Nat : p = l \div Interval
  BY <1>0
<1>2. PICK q \in Nat : q = (t - l) \div Interval
  BY <1>0
<1>3. PICK r \in Nat : r = t \div Interval
  BY <1>0
<1>4. l + (t - l) = t /\ t - l \in Nat
  OBVIOUS
<1>5. p + q <= r
  BY <1>1, <1>2, <1>3, <1>4, IntervalsAdd
<1>6. PICK k \in Nat : k = Least(q, MaxIntervals) /\ p + k <= r
  BY <1>0, <1>5 DEF Least
<1>7. u <= MaxDelta * k
  BY <1>2, <1>6 DEF Allowance
<1>8. MaxDelta * (p + k) <= MaxDelta * r
  <2>1. MaxDelta * (r - (p + k)) >= 0
    BY <1>0, <1>6
  <2> QED BY <1>0, <2>1
<1>9. MaxDelta * (p + k) = MaxDelta * p + MaxDelta * k
  BY <1>0
<1>10. a <= MaxDelta * p
  BY <1>1
<1>11. MaxDelta * p \in Nat /\ MaxDelta * k \in Nat /\ MaxDelta * r \in Nat
  BY <1>0
<1> QED BY <1>3, <1>7, <1>8, <1>9, <1>10, <1>11

\* Nothing is accepted at the beginning.
LEMMA ReadingInit == Init => ReadingsWithinAllowance
<1> SUFFICES ASSUME Init, NEW m \in Meters
             PROVE  accepted[m] <= MaxDelta * (lastReading[m] \div Interval)
  BY DEF ReadingsWithinAllowance
<1>1. accepted[m] = 0 /\ lastReading[m] = 0
  BY DEF Init, Zero
<1> QED BY <1>1, BillingAssumption

\* No call accepts readings beyond the allowance of their time.
LEMMA ReadingStep ==
    TypeOK /\ ReadingsWithinAllowance /\ [Next]_vars => ReadingsWithinAllowance'
<1> SUFFICES ASSUME TypeOK, ReadingsWithinAllowance, [Next]_vars
             PROVE  ReadingsWithinAllowance'
  OBVIOUS
<1> USE DEF device, history
<1>1. ASSUME NEW m \in Meters, NEW u \in Units, NEW t \in 1 .. MaxTime,
             NEW tax \in TaxRates, NEW fee \in Fees, DeductUnits(m, u, t, tax, fee)
      PROVE  ReadingsWithinAllowance'
  <2>1. /\ lastReading[m] < t /\ u <= Allowance(t - lastReading[m])
        /\ lastReading' = [lastReading EXCEPT ![m] = t]
        /\ accepted' = [accepted EXCEPT ![m] = @ + u]
    BY <1>1 DEF DeductUnits, ReadingAdmitted
  <2>2. /\ u \in Nat /\ t \in Nat
        /\ lastReading \in [Meters -> Nat] /\ accepted \in [Meters -> Nat]
    BY BillingAssumption DEF TypeOK, DeviceOK, HistoryOK
  <2>3. accepted[m] <= MaxDelta * (lastReading[m] \div Interval)
    BY DEF ReadingsWithinAllowance
  <2>4. accepted[m] + u <= MaxDelta * (t \div Interval)
    BY <2>1, <2>2, <2>3, ReadingFits
  <2>5. accepted'[m] = accepted[m] + u /\ lastReading'[m] = t
    BY <2>1, <2>2
  <2>6. ASSUME NEW x \in Meters
        PROVE  accepted'[x] <= MaxDelta * (lastReading'[x] \div Interval)
    <3>1. CASE x = m
      BY <2>4, <2>5, <3>1
    <3>2. CASE x # m
      <4>1. accepted'[x] = accepted[x] /\ lastReading'[x] = lastReading[x]
        BY <2>1, <2>2, <3>2
      <4> QED BY <4>1 DEF ReadingsWithinAllowance
    <3> QED BY <3>1, <3>2
  <2> QED BY <2>6 DEF ReadingsWithinAllowance
<1>2. ASSUME UNCHANGED <<lastReading, accepted>>
      PROVE  ReadingsWithinAllowance'
  BY <1>2 DEF ReadingsWithinAllowance
<1>3. ASSUME NEW m \in Meters, CustomerCall(m)
      PROVE  UNCHANGED <<lastReading, accepted>>
  BY <1>3 DEF CustomerCall, Register, InitiatePairing, CompletePairing, TopUp,
              SetMeterPause, ChallengeService, RefundDisputedFunds
<1>4. ASSUME NEW m \in Meters, ProviderCall(m)
      PROVE  \/ UNCHANGED <<lastReading, accepted>>
             \/ \E u \in Units, t \in 1 .. MaxTime, tax \in TaxRates, fee \in Fees :
                  DeductUnits(m, u, t, tax, fee)
  <2>1. ASSUME Claim(m) \/ ClaimWithAlerts(m)
        PROVE  UNCHANGED <<lastReading, accepted>>
    BY <2>1 DEF Claim, ClaimWithAlerts
  <2>2. ASSUME NEW n \in Amounts, WithdrawEarnings(m, n)
        PROVE  UNCHANGED <<lastReading, accepted>>
    BY <2>2 DEF WithdrawEarnings
  <2>3. ASSUME NEW d \in Drips, SetCreditDrip(m, d)
        PROVE  UNCHANGED <<lastReading, accepted>>
    BY <2>3 DEF SetCreditDrip
  <2>4. ASSUME NEW r \in HourlyRates, SetMaxFlowRate(m, r)
        PROVE  UNCHANGED <<lastReading, accepted>>
    BY <2>4 DEF SetMaxFlowRate
  <2>5. ASSUME EmergencyShutdown(m) \/ InitiateFirmwareUpdate(m) \/ CompleteFirmwareUpdate(m)
        PROVE  UNCHANGED <<lastReading, accepted>>
    BY <2>5 DEF EmergencyShutdown, InitiateFirmwareUpdate, CompleteFirmwareUpdate
  <2> QED BY <1>4, <2>1, <2>2, <2>3, <2>4, <2>5 DEF ProviderCall
<1>5. ASSUME NEW m \in Meters, NEW ok \in BOOLEAN, ResolveChallenge(m, ok)
      PROVE  UNCHANGED <<lastReading, accepted>>
  BY <1>5 DEF ResolveChallenge
<1>6. ASSUME NEW m \in Meters, LegalFreeze(m) \/ ReleaseLegalFreeze(m)
      PROVE  UNCHANGED <<lastReading, accepted>>
  BY <1>6 DEF LegalFreeze, ReleaseLegalFreeze
<1>7. ASSUME NEW c \in SUBSET Meters, NEW n \in Amounts, SyncActualBalance(c, n)
      PROVE  UNCHANGED <<lastReading, accepted>>
  BY <1>7 DEF SyncActualBalance
<1>8. ASSUME Tick \/ UNCHANGED vars
      PROVE  UNCHANGED <<lastReading, accepted>>
  BY <1>8 DEF Tick, vars
<1> QED BY <1>1, <1>2, <1>3, <1>4, <1>5, <1>6, <1>7, <1>8 DEF Next

-----------------------------------------------------------------------------
(* The debt threshold *)

\* What one step may do to what meters were charged for time.
FloorKept ==
    \A m \in Meters : charged'[m] > charged[m] => balance'[m] >= DebtThreshold

\* No claim of time passes the debt threshold.
LEMMA FloorStep == TypeOK /\ [Next]_vars => FloorKept
<1> SUFFICES ASSUME TypeOK, [Next]_vars PROVE FloorKept
  OBVIOUS
<1>t. balance \in [Meters -> Int] /\ charged \in [Meters -> Nat] /\ debt \in [Meters -> Nat]
  BY DEF TypeOK, FundsOK, HistoryOK
<1>1. ASSUME NEW m \in Meters, NEW w \in Nat, NEW o \in Nat, TimeCharge(m, w, o)
      PROVE  FloorKept
  <2>1. /\ charged' = [charged EXCEPT ![m] = charged[m] + w]
        /\ balance' = [balance EXCEPT ![m] = balance[m] - w]
        /\ w > 0 => balance[m] - w >= DebtThreshold
    BY <1>1 DEF TimeCharge
  <2> QED BY <1>t, <2>1 DEF FloorKept
<1>2. ASSUME NEW m \in Meters, Claim(m) \/ ClaimWithAlerts(m)
      PROVE  FloorKept
  <2>1. PICK w \in Nat, o \in 0 .. debt[m] : TimeCharge(m, w, o)
    BY <1>2, ClaimCharges, AlertCharges
  <2> QED BY <1>1, <1>t, <2>1
<1>3. ASSUME charged' = charged PROVE FloorKept
  BY <1>t, <1>3 DEF FloorKept
<1> USE DEF history
<1>4. ASSUME NEW m \in Meters, CustomerCall(m)
      PROVE  charged' = charged
  BY <1>4 DEF CustomerCall, Register, InitiatePairing, CompletePairing, TopUp,
              SetMeterPause, ChallengeService, RefundDisputedFunds
<1>5. ASSUME NEW m \in Meters, ProviderCall(m)
      PROVE  Claim(m) \/ ClaimWithAlerts(m) \/ charged' = charged
  <2>1. ASSUME NEW u \in Units, NEW t \in 1 .. MaxTime, NEW tax \in TaxRates,
               NEW fee \in Fees, DeductUnits(m, u, t, tax, fee)
        PROVE  charged' = charged
    BY <2>1 DEF DeductUnits
  <2>2. ASSUME NEW n \in Amounts, WithdrawEarnings(m, n)
        PROVE  charged' = charged
    BY <2>2 DEF WithdrawEarnings
  <2>3. ASSUME NEW d \in Drips, SetCreditDrip(m, d)
        PROVE  charged' = charged
    BY <2>3 DEF SetCreditDrip
  <2>4. ASSUME NEW r \in HourlyRates, SetMaxFlowRate(m, r)
        PROVE  charged' = charged
    BY <2>4 DEF SetMaxFlowRate
  <2>5. ASSUME EmergencyShutdown(m) \/ InitiateFirmwareUpdate(m) \/ CompleteFirmwareUpdate(m)
        PROVE  charged' = charged
    BY <2>5 DEF EmergencyShutdown, InitiateFirmwareUpdate, CompleteFirmwareUpdate
  <2> QED BY <1>5, <2>1, <2>2, <2>3, <2>4, <2>5 DEF ProviderCall
<1>6. ASSUME NEW m \in Meters, NEW ok \in BOOLEAN, ResolveChallenge(m, ok)
      PROVE  charged' = charged
  BY <1>6 DEF ResolveChallenge
<1>7. ASSUME NEW m \in Meters, LegalFreeze(m) \/ ReleaseLegalFreeze(m)
      PROVE  charged' = charged
  BY <1>7 DEF LegalFreeze, ReleaseLegalFreeze
<1>8. ASSUME NEW c \in SUBSET Meters, NEW n \in Amounts, SyncActualBalance(c, n)
      PROVE  charged' = charged
  BY <1>8 DEF SyncActualBalance
<1>9. ASSUME Tick \/ UNCHANGED vars
      PROVE  charged' = charged
  BY <1>9 DEF Tick, vars
<1> QED BY <1>2, <1>3, <1>4, <1>5, <1>6, <1>7, <1>8, <1>9 DEF Next

-----------------------------------------------------------------------------
(* The theorems *)

\* Whatever is called in whatever order, debts, collaterals and claimed totals
\* stay at or above zero and no meter's clock runs ahead of the ledger.
THEOREM BillingTypeOK == Spec => []TypeOK
BY TypeInit, TypeStep, PTL DEF Spec

\* An active meter is neither disputed nor closed and holds what it owes: the
\* activity flag is right after every call, also those that do not refresh it.
THEOREM BillingActiveIsServiceable == Spec => []ActiveIsServiceable
<1>1. Spec => []ActivityInv
  BY ActivityInit, ActivityStep, PTL DEF Spec
<1>2. ActivityInv => ActiveIsServiceable
  BY DEF ActivityInv
<1> QED BY <1>1, <1>2, PTL

\* No second of a meter's life is charged twice by the claims.
THEOREM BillingTimeIsChargedOnce == Spec => []TimeIsChargedOnce
<1>1. Spec => []TimeInv
  BY TimeInit, TimeStep, PTL DEF Spec
<1>2. TimeInv => TimeIsChargedOnce
  BY DEF TimeInv
<1> QED BY <1>1, <1>2, PTL

\* Splitting consumption into many readings gains nothing over the allowance.
THEOREM BillingReadingsWithinAllowance == Spec => []ReadingsWithinAllowance
BY ReadingInit, ReadingStep, BillingTypeOK, PTL DEF Spec

\* No claim takes a meter below the debt threshold.
THEOREM BillingTimeClaimsStopAtFloor == Spec => TimeClaimsStopAtFloor
<1>1. Spec => []TypeOK /\ [][Next]_vars
  BY BillingTypeOK, PTL DEF Spec
<1>2. TypeOK /\ [Next]_vars => [FloorKept]_vars
  BY FloorStep
<1> QED BY <1>1, <1>2, PTL DEF TimeClaimsStopAtFloor, FloorKept

=============================================================================
