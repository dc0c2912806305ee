---------------------------- MODULE MeterBilling ----------------------------
(***************************************************************************)
(* Meters of one provider (lib.rs): a customer funds a meter, the provider *)
(* charges it for time (claim, claim_with_alerts) or for signed readings   *)
(* (deduct_units), and pauses, disputes, firmware updates, legal freezes   *)
(* and clawbacks decide which of those calls go through.                   *)
(*                                                                         *)
(* A contract call is one atomic step and a call that panics is none; Tick *)
(* advances the ledger's timestamp.  Amounts are in the meter's own unit,  *)
(* after the oracle's conversion; meters have no SLA configuration, no     *)
(* green discount and no carbon credits.                                   *)
(***************************************************************************)
EXTENDS Integers, FiniteSets

CONSTANTS
    Meters,          \* meter ids
    Rates,           \* off-peak rates providers register meters with
    Amounts,         \* amounts deposited or withdrawn
    Units,           \* units one reading reports
    Drips,           \* credit drip rates providers set
    MaxDrip,         \* an upper bound of Drips
    HourlyRates,     \* hourly caps providers set
    ReferralReward,  \* REFERRAL_REWARD_UNITS
    DebtThreshold,   \* DEBT_THRESHOLD, below zero
    TaxRates,        \* tax rates anyone sets, in 1/Whole
    Fees,            \* protocol fees the admin sets, in 1/Whole
    Whole,           \* basis points in the whole (10000)
    HourLength,      \* HOUR_IN_SECONDS
    Interval,        \* STANDARD_INTERVAL
    MaxIntervals,    \* MAX_INTERVAL_MULTIPLIER
    MaxDelta,        \* units a meter may use in one interval
    TimestampDelay,  \* MAX_TIMESTAMP_DELAY
    PeakTimes,       \* timestamps of the peak hours
    UpdateWindow,    \* FIRMWARE_UPDATE_WINDOW_SECS
    DisputeWindow,   \* 48 hours
    MaxTime,         \* bound: last timestamp, of ledgers and of readings
    MaxFunds         \* bound: what a meter may hold or owe

ASSUME BillingAssumption ==
    /\ Rates \subseteq Nat /\ Amounts \subseteq Nat \ {0} /\ Units \subseteq Nat
    /\ Drips \subseteq Int /\ MaxDrip \in Nat /\ \A d \in Drips : d <= MaxDrip
    /\ HourlyRates \subseteq Nat \ {0} /\ ReferralReward \in Nat
    /\ DebtThreshold \in Int /\ DebtThreshold <= 0
    /\ Whole \in Nat \ {0} /\ TaxRates \subseteq 0 .. Whole /\ Fees \subseteq 0 .. Whole
    /\ HourLength \in Nat \ {0} /\ Interval \in Nat \ {0}
    /\ MaxIntervals \in Nat /\ MaxDelta \in Nat /\ TimestampDelay \in Nat
    /\ UpdateWindow \in Nat /\ DisputeWindow \in Nat
    /\ MaxTime \in Nat /\ MaxFunds \in Nat

\* The fields of a Meter record are functions of the meter, its flags are sets.
VARIABLES
    now,          \* ledger timestamp
    registered,   \* meters that exist
    billing,      \* "PrePaid" or "PostPaid"
    rate,         \* rate_per_unit
    balance,      \* balance
    debt,         \* debt
    collateral,   \* collateral_limit
    lastUpdate,   \* last_update
    lastClaim,    \* last_claim_time
    claimed,      \* claimed_this_hour
    hourlyCap,    \* max_flow_rate_per_hour
    drip,         \* credit_drip_rate
    active, paused, disputed, closed, paired, updating,  \* the is_... flags
    challenge,    \* meters with a PairingChallenge
    frozen,       \* meters with a LegalFreeze that is not released
    disputedAt,   \* challenge_timestamp
    updateStart,  \* update_start_timestamp
    lastReading,  \* DataKey::LastReadingTime
    since,        \* history: when the meter was registered
    charged,      \* history: what claims took for its time
    accepted      \* history: units of the readings accepted

funds == <<balance, debt, collateral>>
claims == <<lastUpdate, lastClaim, claimed>>
terms == <<billing, rate, registered>>
settings == <<hourlyCap, drip>>
standing == <<active, paused, disputed, closed>>
device == <<paired, challenge, updating, updateStart, lastReading>>
cases == <<disputedAt, frozen>>
history == <<since, charged, accepted>>

vars == <<now, funds, claims, terms, settings, standing, device, cases, history>>

Least(a, b) == IF a < b THEN a ELSE b
Most(a, b) == IF a > b THEN a ELSE b

-----------------------------------------------------------------------------
(* Helpers *)

\* Mutant: a closed meter is revived by the next top-up.
ServiceableUnlessHeld(m, b, d, heldUp) == b - d > 0 /\ m \notin heldUp \ closed

\* The condition of refresh_activity; "heldUp" are the meters paused, disputed
\* or closed once the call is through.  A pre-paid meter never has debt.
Serviceable(m, b, d, heldUp) == b - d > 0 /\ m \notin heldUp

Refreshed(m, b, d, heldUp) ==
    IF Serviceable(m, b, d, heldUp) THEN active \cup {m} ELSE active \ {m}

HeldUp == paused \cup disputed \cup closed

\* Mutant: time runs from the last claim, whoever charged the meter since.
ElapsedSinceClaim(m) == now - lastClaim[m]

Elapsed(m) == now - lastUpdate[m]

\* calculate_tax_split, then the protocol fee on what the tax leaves.
Payout(cost, tax, fee) ==
    LET net == cost - (cost * tax) \div Whole
    IN  net - (net * fee) \div Whole

\* get_effective_rate: the peak rate is one and a half times the other.
EffectiveRate(m, t) == IF t \in PeakTimes THEN (rate[m] * 3) \div 2 ELSE rate[m]

\* Mutant: a begun interval counts as a whole one.
AllowanceRoundedUp(elapsed) ==
    MaxDelta * Least((elapsed + Interval - 1) \div Interval, MaxIntervals)

\* The largest reading validate_reading lets through.
Allowance(elapsed) == MaxDelta * Least(elapsed \div Interval, MaxIntervals)

\* Mutant: what is left to the threshold is not looked at.
ClaimableWhole(b, amount) == amount

\* How much of an amount a claim takes: at most down to the debt threshold.
Claimable(b, amount) ==
    IF amount > b /\ b - amount < DebtThreshold THEN b - DebtThreshold ELSE amount

\* What a claim writes off a post-paid debt when a credit drip is set; it does
\* not depend on how much the claim took.
CreditSettlement(m) ==
    IF billing[m] = "PostPaid" /\ drip[m] > 0
    THEN Least(Elapsed(m) * drip[m], debt[m]) ELSE 0

-----------------------------------------------------------------------------
(* Registration, pairing, funding *)

\* register_with_referral credits a new pre-paid meter, backed by no deposit.
Rewards == {0, ReferralReward}

\* register_meter_with_mode, and the two calls that wrap it
Register(m, mode, r, reward) ==
    /\ m \notin registered
    /\ reward > 0 => mode = "PrePaid"
    /\ registered' = registered \cup {m}
    /\ billing' = [billing EXCEPT ![m] = mode]
    /\ rate' = [rate EXCEPT ![m] = r]
    /\ balance' = [balance EXCEPT ![m] = reward]
    /\ lastUpdate' = [lastUpdate EXCEPT ![m] = now]
    /\ lastClaim' = [lastClaim EXCEPT ![m] = now]
    /\ hourlyCap' = [hourlyCap EXCEPT ![m] = r * HourLength]
    /\ active' = active \cup {m}
    /\ since' = [since EXCEPT ![m] = now]
    /\ UNCHANGED <<now, debt, collateral, claimed, drip, paused,
                   disputed, closed, device, cases, charged, accepted>>

InitiatePairing(m) ==
    /\ m \in registered \ paired
    /\ challenge' = challenge \cup {m}
    /\ UNCHANGED <<now, funds, claims, terms, settings, standing, paired, updating,
                   updateStart, lastReading, cases, history>>

CompletePairing(m) ==
    /\ m \in challenge
    /\ challenge' = challenge \ {m}
    /\ paired' = paired \cup {m}
    /\ UNCHANGED <<now, funds, claims, terms, settings, standing, updating,
                   updateStart, lastReading, cases, history>>

\* What top_up leaves a meter with: a pre-paid one its balance, a post-paid one
\* its debt settled first and collateral for the rest.
TopUp(m, amount) ==
    LET settled == IF billing[m] = "PostPaid" THEN Least(amount, debt[m]) ELSE 0
        b == IF billing[m] = "PrePaid" THEN balance[m] + amount ELSE balance[m]
        d == debt[m] - settled
    IN  /\ m \in registered
        /\ balance[m] + amount <= MaxFunds /\ collateral[m] + amount <= MaxFunds
        /\ balance' = [balance EXCEPT ![m] = b]
        /\ debt' = [debt EXCEPT ![m] = d]
        /\ collateral' = [collateral EXCEPT ![m] =
             IF billing[m] = "PostPaid" THEN @ + amount - settled ELSE @]
        /\ active' = Refreshed(m, b, d, HeldUp)
        /\ lastUpdate' = [lastUpdate EXCEPT ![m] =
             IF m \notin active /\ Serviceable(m, b, d, HeldUp) THEN now ELSE @]
        /\ UNCHANGED <<now, lastClaim, claimed, terms, settings, paused, disputed,
                       closed, device, cases, history>>

-----------------------------------------------------------------------------
(* Charging *)

\* What deduct_units asks of a reading stamped t by the device: validate_reading,
\* verify_usage_signature (a stamp from the future is young enough), then the flags.
ReadingAdmitted(m, units, t) ==
    /\ m \in registered
    /\ t > lastReading[m] /\ units <= Allowance(t - lastReading[m])
    /\ now - t <= TimestampDelay
    /\ m \in paired /\ m \notin disputed /\ m \notin updating

\* deduct_units: a reading, stamped t by the device, is charged whatever the
\* balance is; only the provider's share of the cost, at the tax and the fee in
\* force (set_tax_rate, set_maintenance_config), comes off the meter.
DeductUnits(m, units, t, tax, fee) ==
    LET pay == Payout(units * EffectiveRate(m, t), tax, fee)
        prepaid == billing[m] = "PrePaid"
        b == IF prepaid THEN balance[m] - pay ELSE balance[m]
        d == IF prepaid THEN debt[m] ELSE debt[m] + pay
    IN  /\ ReadingAdmitted(m, units, t)
        /\ d <= MaxFunds /\ b >= - MaxFunds
        /\ balance' = [balance EXCEPT ![m] = b]
        /\ debt' = [debt EXCEPT ![m] = d]
        /\ claimed' = [claimed EXCEPT ![m] = @ + pay]
        /\ active' = Refreshed(m, b, d, HeldUp)
        /\ lastUpdate' = [lastUpdate EXCEPT ![m] = now]
        /\ lastReading' = [lastReading EXCEPT ![m] = t]
        /\ accepted' = [accepted EXCEPT ![m] = @ + units]
        /\ UNCHANGED <<now, collateral, lastClaim, terms, settings, paused, disputed,
                       closed, paired, challenge, updating, updateStart, cases,
                       since, charged>>

SameHour(m) == now \div HourLength = lastClaim[m] \div HourLength

\* claimed_this_hour after a claim: it starts afresh in a new hour.
ClaimedAfter(m, taken) == IF SameHour(m) THEN claimed[m] + taken ELSE taken

\* claim: the hourly cap holds within the hour of the last claim only.
Claim(m) ==
    LET amount == Elapsed(m) * (rate[m] + drip[m])
        capped == IF SameHour(m) THEN Least(amount, hourlyCap[m] - claimed[m]) ELSE amount
        taken == Most(Claimable(balance[m], capped), 0)
        b == balance[m] - taken
        d == debt[m] - (IF taken > 0 THEN CreditSettlement(m) ELSE 0)
    IN  /\ m \in registered /\ m \notin disputed
        /\ balance' = [balance EXCEPT ![m] = b]
        /\ debt' = [debt EXCEPT ![m] = d]
        /\ claimed' = [claimed EXCEPT ![m] = ClaimedAfter(m, taken)]
        /\ lastUpdate' = [lastUpdate EXCEPT ![m] = now]
        /\ lastClaim' = [lastClaim EXCEPT ![m] = now]
        /\ active' = Refreshed(m, b, d, HeldUp)
        /\ charged' = [charged EXCEPT ![m] = @ + taken]
        /\ UNCHANGED <<now, collateral, terms, settings, paused, disputed, closed,
                       device, cases, since, accepted>>

\* claim_with_alerts: never below zero, and capped within an hour of the last reset.
ClaimWithAlerts(m) ==
    LET newHour == (now - lastClaim[m]) \div HourLength >= 1
        before == IF newHour THEN 0 ELSE claimed[m]
        wanted == Least(Elapsed(m) * (rate[m] + drip[m]), balance[m])
        taken == IF wanted > 0 THEN Most(Least(wanted, hourlyCap[m] - before), 0) ELSE 0
        d == debt[m] - (IF taken > 0 THEN CreditSettlement(m) ELSE 0)
    IN  /\ m \in registered /\ m \notin disputed
        /\ balance' = [balance EXCEPT ![m] = @ - taken]
        /\ debt' = [debt EXCEPT ![m] = d]
        /\ claimed' = [claimed EXCEPT ![m] = before + taken]
        /\ lastUpdate' = [lastUpdate EXCEPT ![m] = now]
        /\ lastClaim' = [lastClaim EXCEPT ![m] = IF newHour THEN now ELSE @]
        /\ active' = IF balance[m] - taken <= 0 THEN active \ {m} ELSE active
        /\ charged' = [charged EXCEPT ![m] = @ + taken]
        /\ UNCHANGED <<now, collateral, terms, settings, paused, disputed,
                       closed, device, cases, since, accepted>>

\* Mutant: a post-paid provider is paid out of the collateral.
EarningsSecured(m) == IF billing[m] = "PrePaid" THEN balance[m] ELSE collateral[m]

\* What withdraw_earnings takes from: a post-paid meter's debt.
Earnings(m) == IF billing[m] = "PrePaid" THEN balance[m] ELSE debt[m]

\* withdraw_earnings: also from a disputed meter.
WithdrawEarnings(m, amount) ==
    LET b == IF billing[m] = "PrePaid" THEN balance[m] - amount ELSE balance[m]
        d == IF billing[m] = "PrePaid" THEN debt[m] ELSE debt[m] - amount
    IN  /\ m \in registered
        /\ amount <= Earnings(m)
        /\ balance' = [balance EXCEPT ![m] = b]
        /\ debt' = [debt EXCEPT ![m] = d]
        /\ active' = Refreshed(m, b, d, HeldUp)
        /\ lastUpdate' = [lastUpdate EXCEPT ![m] =
             IF m \notin active /\ Serviceable(m, b, d, HeldUp) THEN now ELSE @]
        /\ UNCHANGED <<now, collateral, lastClaim, claimed, terms, settings, paused,
                       disputed, closed, device, cases, history>>

-----------------------------------------------------------------------------
(* Pauses, disputes, shutdown *)

\* set_meter_pause: the clock of the meter goes on.
SetMeterPause(m, pause) ==
    /\ m \in registered
    /\ paused' = IF pause THEN paused \cup {m} ELSE paused \ {m}
    /\ active' = Refreshed(m, balance[m], debt[m], paused' \cup disputed \cup closed)
    /\ UNCHANGED <<now, funds, claims, terms, settings, disputed, closed, device,
                   cases, history>>

EmergencyShutdown(m) ==
    /\ m \in registered
    /\ active' = active \ {m}
    /\ UNCHANGED <<now, funds, claims, terms, settings, paused, disputed, closed,
                   device, cases, history>>

ChallengeService(m) ==
    /\ m \in registered \ disputed
    /\ disputed' = disputed \cup {m}
    /\ paused' = paused \cup {m}
    /\ disputedAt' = [disputedAt EXCEPT ![m] = now]
    /\ active' = active \ {m}
    /\ UNCHANGED <<now, funds, claims, terms, settings, closed, device, frozen, history>>

\* resolve_challenge, by the oracle; on a meter without dispute it does nothing.
ResolveChallenge(m, restored) ==
    /\ m \in disputed
    /\ disputed' = disputed \ {m}
    /\ paused' = IF restored THEN paused \ {m} ELSE paused \cup {m}
    /\ active' = Refreshed(m, balance[m], debt[m], paused' \cup disputed' \cup closed)
    /\ UNCHANGED <<now, funds, claims, terms, settings, closed, device, cases, history>>

\* refund_disputed_funds: a post-paid meter keeps its collateral limit.
RefundDisputedFunds(m) ==
    /\ m \in disputed
    /\ now - disputedAt[m] >= DisputeWindow
    /\ balance' = [balance EXCEPT ![m] = 0]
    /\ debt' = [debt EXCEPT ![m] = 0]
    /\ active' = active \ {m}
    /\ disputed' = disputed \ {m}
    /\ UNCHANGED <<now, collateral, claims, terms, settings, paused, closed,
                   device, cases, history>>

-----------------------------------------------------------------------------
(* Settings, firmware updates *)

SetCreditDrip(m, d) ==
    /\ m \in registered
    /\ drip' = [drip EXCEPT ![m] = d]
    /\ UNCHANGED <<now, funds, claims, terms, hourlyCap, standing, device,
                   cases, history>>

SetMaxFlowRate(m, r) ==
    /\ m \in registered
    /\ hourlyCap' = [hourlyCap EXCEPT ![m] = r]
    /\ UNCHANGED <<now, funds, claims, terms, drip, standing, device, cases,
                   history>>

InitiateFirmwareUpdate(m) ==
    /\ m \in registered \ updating
    /\ updating' = updating \cup {m}
    /\ updateStart' = [updateStart EXCEPT ![m] = now]
    /\ UNCHANGED <<now, funds, claims, terms, settings, standing, paired, challenge,
                   lastReading, cases, history>>

\* complete_firmware_update, signed by the device: only within the window, and
\* what was not charged before the update never is.
CompleteFirmwareUpdate(m) ==
    /\ m \in updating
    /\ now - updateStart[m] <= UpdateWindow
    /\ updating' = updating \ {m}
    /\ updateStart' = [updateStart EXCEPT ![m] = 0]
    /\ lastUpdate' = [lastUpdate EXCEPT ![m] = now]
    /\ UNCHANGED <<now, funds, lastClaim, claimed, terms, settings, standing, paired,
                   challenge, lastReading, cases, history>>

-----------------------------------------------------------------------------
(* Compliance and clawbacks *)

\* legal_freeze: the vault gets the funds, the meter's balance stays, and the
\* activity flag is not refreshed.
LegalFreeze(m) ==
    /\ m \in registered \ frozen
    /\ frozen' = frozen \cup {m}
    /\ paused' = paused \cup {m}
    /\ UNCHANGED <<now, funds, claims, terms, settings, active, disputed, closed,
                   device, disputedAt, history>>

ReleaseLegalFreeze(m) ==
    /\ m \in frozen
    /\ frozen' = frozen \ {m}
    /\ paused' = paused \ {m}
    /\ UNCHANGED <<now, funds, claims, terms, settings, active, disputed, closed,
                   device, disputedAt, history>>

\* sync_actual_balance: each active meter of the customer concerned (or of all)
\* loses up to the whole shortfall and is closed.
SyncActualBalance(customer, shortfall) ==
    LET hit == customer \cap active
    IN  /\ balance' = [m \in Meters |->
             IF m \in hit THEN balance[m] - Least(balance[m], shortfall) ELSE balance[m]]
        /\ active' = active \ hit
        /\ closed' = closed \cup hit
        /\ UNCHANGED <<now, debt, collateral, claims, terms, settings, paused,
                       disputed, device, cases, history>>

Tick ==
    /\ now < MaxTime
    /\ now' = now + 1
    /\ UNCHANGED <<funds, claims, terms, settings, standing, device, cases, history>>

-----------------------------------------------------------------------------
Zero == [m \in Meters |-> 0]

Init ==
    /\ now = 1
    /\ registered = {} /\ billing = [m \in Meters |-> "PrePaid"] /\ rate = Zero
    /\ balance = Zero /\ debt = Zero /\ collateral = Zero
    /\ lastUpdate = Zero /\ lastClaim = Zero /\ claimed = Zero
    /\ hourlyCap = Zero /\ drip = Zero
    /\ active = {} /\ paused = {} /\ disputed = {} /\ closed = {}
    /\ paired = {} /\ updating = {} /\ challenge = {} /\ frozen = {}
    /\ disputedAt = Zero /\ updateStart = Zero /\ lastReading = Zero
    /\ since = Zero /\ charged = Zero /\ accepted = Zero

CustomerCall(m) ==
    \/ \E mode \in {"PrePaid", "PostPaid"}, r \in Rates, w \in Rewards :
         Register(m, mode, r, w)
    \/ InitiatePairing(m) \/ CompletePairing(m)
    \/ \E n \in Amounts : TopUp(m, n)
    \/ \E p \in BOOLEAN : SetMeterPause(m, p)
    \/ ChallengeService(m) \/ RefundDisputedFunds(m)

ProviderCall(m) ==
    \/ \E u \in Units, t \in 1 .. MaxTime, tax \in TaxRates, fee \in Fees :
         DeductUnits(m, u, t, tax, fee)
    \/ Claim(m) \/ ClaimWithAlerts(m)
    \/ \E n \in Amounts : WithdrawEarnings(m, n)
    \/ EmergencyShutdown(m)
    \/ \E d \in Drips : SetCreditDrip(m, d)
    \/ \E r \in HourlyRates : SetMaxFlowRate(m, r)
    \/ InitiateFirmwareUpdate(m) \/ CompleteFirmwareUpdate(m)

Next ==
    \/ \E m \in Meters : CustomerCall(m) \/ ProviderCall(m)
    \/ \E m \in Meters, restored \in BOOLEAN : ResolveChallenge(m, restored)
    \/ \E m \in Meters : LegalFreeze(m) \/ ReleaseLegalFreeze(m)
    \/ \E c \in SUBSET Meters, n \in Amounts : SyncActualBalance(c, n)
    \/ Tick

Spec == Init /\ [][Next]_vars

-----------------------------------------------------------------------------
(* Properties *)

Clock == [Meters -> 0 .. now]

TermsOK ==
    /\ registered \subseteq Meters
    /\ billing \in [Meters -> {"PrePaid", "PostPaid"}] /\ rate \in [Meters -> Nat]
    /\ hourlyCap \in [Meters -> Nat] /\ drip \in [Meters -> Drips \cup {0}]

FundsOK ==
    /\ balance \in [Meters -> Int] /\ debt \in [Meters -> Nat]
    /\ collateral \in [Meters -> Nat]

ClaimsOK == lastUpdate \in Clock /\ lastClaim \in Clock /\ claimed \in [Meters -> Nat]

FlagsOK ==
    /\ active \subseteq registered /\ paused \subseteq registered
    /\ disputed \subseteq registered /\ closed \subseteq registered
    /\ frozen \subseteq registered /\ disputedAt \in Clock

DeviceOK ==
    /\ paired \subseteq registered /\ challenge \subseteq registered
    /\ updating \subseteq registered /\ updateStart \in Clock
    /\ lastReading \in [Meters -> Nat]

HistoryOK ==
    /\ since \in Clock /\ charged \in [Meters -> Nat] /\ accepted \in [Meters -> Nat]

\* Every field has a value the code can store: in particular no debt, collateral
\* or claimed total is negative (debt_fuzz_tests.rs:59, 81), and no meter's clock
\* is ahead of the ledger, so claim's checked_sub never falls back to zero.
TypeOK ==
    /\ now \in Nat
    /\ TermsOK /\ FundsOK /\ ClaimsOK /\ FlagsOK /\ DeviceOK /\ HistoryOK

\* An active meter can be served, whichever call last touched it: it is neither
\* disputed nor closed, and what it holds covers what it owes
\* (debt_fuzz_tests.rs:163 "Meter should be inactive with negative balance").
ActiveIsServiceable ==
    \A m \in active : m \notin disputed \cup closed /\ balance[m] >= debt[m]

\* A second is charged at most once, by claim, claim_with_alerts and deduct_units
\* together and across pauses, reactivations, disputes and updates: what a
\* meter's time has cost never exceeds the highest rate it can be charged at,
\* for the seconds since its registration that are not still to be charged.
TimeIsChargedOnce ==
    \A m \in registered :
        charged[m] <= (rate[m] + MaxDrip) * (lastUpdate[m] - since[m])

\* However a meter's consumption is split into readings, validate_reading admits
\* no more units than the largest rate allows for the whole time they cover.
ReadingsWithinAllowance ==
    \A m \in Meters : accepted[m] <= MaxDelta * (lastReading[m] \div Interval)

\* A charge for time never takes a meter below the debt threshold, although a
\* reading may have done so before.
TimeClaimsStopAtFloor ==
    [][\A m \in Meters : charged'[m] > charged[m]
                            => balance'[m] >= DebtThreshold]_vars

=============================================================================
