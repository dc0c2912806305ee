# Utility contracts: TLA+ specifications and proofs

This directory specifies the Soroban contracts of this repository in TLA+,
model-checks the specifications on small instances with TLC and proves the most
important properties for every instance with TLAPS. Paths below are relative to
the repository; `lib.rs` alone means
`contracts/utility_contracts/src/lib.rs`.

* [1 The system](#1-the-system) — the inventory: parts, state, operations, hard behaviours
* [2 How the contracts are modelled](#2-how-the-contracts-are-modelled)
* [3 The modules](#3-the-modules) — which module models what, state by state
* [4 What TLC checks](#4-what-tlc-checks) — runs, bounds, fairness, what they show
* [5 What is proved](#5-what-is-proved)
* [6 Where code and documentation disagree](#6-where-code-and-documentation-disagree)
* [7 Not modelled](#7-not-modelled)
* [8 Plan](#8-plan)

## 1 The system

Contracts written for the Soroban host (Rust, `contracts/*`), with a meter
simulator, a dashboard and scripts around them. The contracts:

| Part | Keeps | Operations |
|---|---|---|
| Continuous streams (`lib.rs` 2717–3255, 8142–8280, `enterprise.rs`, `temporary_storage.rs`) | per stream a `ContinuousFlow` (rate, balance, 24 h buffer, last settlement, status); a temporary cache of the accumulation; per provider a fleet aggregate and cap; platform fee; last heartbeat | create, top up balance or buffer, withdraw, close, read the buffer, change rate, pause, resume, heartbeat, liveness slash, set cap and fee |
| Meters (`lib.rs` 4884–6560) | per meter a `Meter` (billing mode, rate, balance, debt, collateral, clocks, flags), pairing challenge, last reading, legal freeze | register, pair, top up, claim, claim with alerts, deduct signed units, withdraw, pause, shut down, dispute and resolve, refund, drip, hourly cap, firmware update, freeze, clawback |
| Provider finance (`lib.rs` 7494–8042, 5867) | per provider wallets, required count, threshold; numbered withdrawal requests with approvals | configure, update, disable, propose, approve, revoke, cancel, execute; `withdraw_earnings` next to them |
| Upgrade governance (`lib.rs` 2370–2556, 6680–6874) | installed code, proposed hash with deadline, ids vetoed, storage version and migration cursor | propose, veto, cancel, finalise in two ways, migrate in batches |
| Admin transfer (`lib.rs` 6882–7047, 7194–7316) | current admin, proposed transfer, vetoes per user and proposal, number of active users, compliance officer | set, propose, veto, execute, cancel; appoint the officer, verify the provider |
| Device nonces (`nonce_sync.rs`) | per device the expected nonce, desyncs of the day, suspicion; reset requests with approvals | initialise, accept or refuse a heartbeat, request, approve and execute a reset |
| Tariffs (`tariff_oracle.rs`) | current schedule of hourly rates, today's copy in temporary storage, numbered proposals | initialise, propose, execute, rate a period |
| Velocity limits (`velocity_limit.rs`, `lib.rs` 4114–4286) | limits, overrides with expiry, counters per day and scope | check and count a withdrawal, set limits, override, revoke |
| Service levels (`lib.rs` 403–432, 4330–4596, 5275) | trusted nodes, report keys and counts (temporary), agreement and downtime per meter | add and remove nodes, agree, report, penalise a claim |
| Guarantors (`lib.rs` 9174–9363) | deposit per owner, debt, slashed flag | lock, accrue, slash, settle |
| Device binding (`lib.rs` 4668–4879, 5966) | device of a meter, meter of a device, pending transfers | register, start and complete a transfer, transfer a meter |
| Conservation grants (`lib.rs` 3838–4056, `grant_stream_listener.rs`, `secure_call_interface.rs`) | goals and their listener; the listener's matches, monthly sums and treasury; the register of callees | create, report savings, reach, pay; register callees |
| Peer-to-peer exchange (`enterprise.rs` 126–182, `lib.rs` 8927) | vault of a supplier, fees; grid epochs | exchange; balance the grid |
| Reserves (`lib.rs` 3691–3770, 8435–8812) | gas buffers, drain records, routing threshold | initialise, top up and withdraw a buffer, emergency drain, route to yield |
| Private reports (`lib.rs` 8046–8282 and the simulator's `meter-device.js`) | privacy status, nullifiers, list of private meters, verification keys | switch privacy on and off, report |
| Settlement in the utility contract (`settlement.rs`) | proposals with a lock, a finalised flag per id | propose, finalise |
| Shared arithmetic (`common`) | none: 256-bit sums, products and quotients, weighted averages, scalings | |
| Contract lifetime (`lib.rs` 2316–2367, 6652, `ttl-monitor.js`) | ledgers the instance still lives, maintenance fund; a process with a timer and a service account | extend by readings, claims and by hand; check and bump at an interval |
| `settlement` contract | a reentrancy lock | settle, finalise at the oracle's price, quote |
| `price_oracle` contract | admin, updater, price with time and decimals | initialise, update, read, convert, migrate keys |
| `resource-token` contract | admin, supply, balances, delegations with nonces | mint, burn, authorise and revoke operators, migrate keys |
| `meter-aggregator` contract | readings behind a pruning cursor, hourly and daily buckets | submit, prune, roll up, query volumes |

How they interact: a customer funds a meter or a stream with a token held by the
utility contract; the provider draws on it over time (`claim`, settlement of a
stream) or by readings the device signs (`deduct_units`), and takes earnings out
alone or through the finance quorum. Prices come from `price_oracle`, read by
`settlement` and by the utility contract; both call token contracts, whose code
runs before the caller goes on. The oracle role resolves disputes, compliance
officers freeze meters, anybody may slash silent streams or report that a token
was clawed back. Everything else is shared storage inside one contract: seven
calls move a meter's `last_update` and twelve its activity flag.

What is hard here, and not what unit tests of single calls reach:

* **long call sequences on shared records** — every call re-derives part of the
  state (`refresh_activity`, `update_continuous_flow`, fleet deltas) and leaves
  the rest; a wrong combination needs three or four calls of several people;
* **lazily settled time** — money accrues between calls, so any call that moves
  a clock without charging, or charges without moving it, loses or doubles time;
* **stale values** — a cached accumulation, a cached price, an approval count
  kept beside the approvals, buckets kept beside the readings they sum up;
* **boundaries** — balance, then buffer, then debt threshold; intervals, hours
  and days that are integer quotients; rounding of fees;
* **foreign code in the middle of a call**, and panics that revert part of a
  call tree (settlement);
* **upgrades** — migrations that run in batches beside live calls;
* **records kept twice** — devices and meters, counts and keys, a schedule and
  its copy, a proposal's lock and the lock manager's — written one by one, some
  of them in temporary storage that expires on its own;
* **the network** — heartbeats and private reports lost, repeated and reordered;
  a monitor whose checks overlap and whose transactions are dropped.

The properties that make each part correct are those of sections 3 and 4;
section 7 lists the parts that have no model. `PROJECT.json` lists the hazards
line by line with the properties that cover them.

## 2 How the contracts are modelled

**A call is one atomic step.** The host executes one call at a time and reverts a
call that panics together with everything it did, so a call that fails is no
step: a `panic`, an `Err` and an early return without effect are missing guards
in the action, not actions. The exception is the settlement contract, which calls
out in the middle of a call; there a call is a stack frame and its parts are
separate steps (section 3.5).

**Time** is the ledger's timestamp; `Tick` advances it and nothing else does, so
any number of calls may share a timestamp, as they do in a ledger. Where both
sequence numbers and seconds matter (streams), one unit stands for both.

**Authorisation.** `x.require_auth()` for the party a call names makes the call
possible whenever that party wants: it restricts who calls, not what the state
may do, and the models let every party call at any time. Where the code compares
a caller with stored data, the comparison is a guard.

**Data** is abstracted to what the properties tell apart: ids are model values,
amounts small numbers, signatures and proofs the guards that accepting them
amounts to. Amounts are in the token's or meter's own unit. Events, formatted
text and time-to-live extensions of storage entries are left out.

**Inputs** range over small sets given as CONSTANTS. The proofs are for all
values of these constants, the runs for the ones in the `.cfg` files.

**Bounds.** Constants named `Max...` that stand for no constant of the code are
bounds of the model (last timestamp, number of readings or requests, what a
record may hold): actions that would pass them are disabled. They are marked
`bound:` in the CONSTANTS sections.

**History variables** record what the code does not store and a property needs;
each is marked `history` where it is declared: the `book` of a stream, `since`,
`charged` and `accepted` of a meter, `readings` below the aggregator's cursor and
`early`, the days consolidated too soon, `accepted` heartbeats, `paid`,
`highest` and `forgotten` of a day's limits, `settled` and `unassigned` collateral, `witnesses` and
`credits` of an interval, `reachedMatched` goals, `lastDevice`, the sums and caps
of exchanges, `paidOut` proposals, `counted` reports, `exactSum`, `routed`,
`stopAsked`. No guard reads them, but for bounds.

**What can fail.** Calls fail as a whole; where the code lives with more than that,
the model has it: a callee that panics or calls back (settlement, grants), a host
that refuses re-entry (`reentry` in `ConservationGrant`, chosen at the start),
temporary entries that expire one by one (`TodayExpires`, `CountExpires`,
`OldKeyExpires`, `CounterExpires`, the stream cache), a network that loses,
repeats and reorders (private reports stay deliverable for ever, in any order;
heartbeats arrive with any nonce at any time, from whoever signs them), callers
that hand in records of their own making where the code takes them by value
(reset requests, the listener's events), and requests and transactions of the
monitor that fail or are dropped.

**Overflow.** i128 saturation and `checked_` failures are out of the range of
amounts a token can have and are not modelled, except in the aggregator, whose
bucket sums are checked and panic (`MaxVolume` stands for the largest i128).

**Mutants.** Some modules define, next to an operator of the code, a variant that
a plausible slip would produce, introduced by a comment `Mutant:`. They are used
by nothing; replacing the operator by its variant makes TLC report the property
named in `PROJECT.json`, which shows that the property constrains the code.

## 3 The modules

| Module | Models | Uses |
|---|---|---|
| `EscrowAccount` | abstract: what any escrow promises | |
| `ContinuousStream` | streams, fleet caps, fees, heartbeats | implements `EscrowAccount` |
| `MeterBilling` | meters: funding, charging, disputes, updates, freezes | |
| `MultiSigWithdrawal` | the finance quorum and `withdraw_earnings` | `LedgerClock` |
| `AtomicPayments` | abstract: balances change by whole payments | |
| `PriceOracle` | the oracle contract | |
| `Settlement` | the settlement contract on top of the oracle and a token | extends `PriceOracle`, implements `AtomicPayments` |
| `ResourceToken` | the token contract and its migration | `LedgerClock`, `Sums` |
| `MeterAggregator` | the aggregator contract | `Sums` |
| `LedgerClock` | the timestamp the facilities below share | |
| `UpgradeGovernance` | upgrades, vetoes, migration | `LedgerClock` |
| `AdminTransfer` | the admin role and its transfer | `LedgerClock` |
| `NonceSync` | heartbeat nonces and their reset | `LedgerClock` |
| `TariffOracle` | hourly tariffs | `LedgerClock` |
| `VelocityLimit` | daily limits on withdrawals | `LedgerClock` |
| `MCControls` | the five above, `ResourceToken` and `MultiSigWithdrawal`, side by side | |
| `GuarantorDebt` | post-paid collateral, debt, slashing | `LedgerClock`, `Sums` |
| `ServiceLevel` | downtime reports and penalties | `LedgerClock` |
| `SecureCall` | the register of callees | `LedgerClock` |
| `ConservationGrant` | goals and the listener that pays for them | extends `SecureCall`, `Sums` |
| `DeviceBinding` | devices and meters | `LedgerClock` |
| `EnergyExchange` | exchanges between peers | `LedgerClock` |
| `SettlementProposals` | proposals in the utility contract | `LedgerClock` |
| `PrivacyReports` | private usage reports | `LedgerClock` |
| `WeightedRate` | the arithmetic of `common` | `LedgerClock` |
| `Reserves` | gas buffers, emergency drain, yield routing | `LedgerClock` |
| `MCServices` | the nine facilities from `GuarantorDebt` on | |
| `ContractLifetime` | the instance's time to live and the TTL monitor | |
| `Funds` | `EnergyExchange` and `Reserves` side by side, what the contract keeps outside the meters | both |
| `Sums` | the sum of a function over a finite set | |
| `Sums_proofs` | what sums, quotients, remainders and functions defined step by step obey | `Sums` |
| `Controls_proofs` | the theorems about the facilities of `MCControls` but the quorum | those, `Sums_proofs` |
| `Services_proofs` | the theorems about the facilities of `MCServices` | those, `Sums_proofs` |
| other `*_proofs` | the theorems about the module they are named after | that module, TLAPS |
| `MC*` | definitions of constants for TLC | |

### 3.1 ContinuousStream

`flow[s]` is `DataKey::ContinuousFlow`, `cache[s]` the pair of temporary entries
`FlowAccumulation`/`FlowTimestamp` with the ledger they were written at
(`at = -1` when absent or expired), `fleet` and `cap` are `FleetAgg` and
`FleetCap`, `feeBps` the platform fee, `beat` the last heartbeat. `book[s]` is
history: what was credited, streamed, withdrawn, refunded, slashed or forfeited
(a stream overwritten by a new one of the same id), and what was due at the last
settlement.

`Settle` is the tail of `update_continuous_flow`, `UpdateContinuousFlow` the whole
of it on the in-memory copy; each handler is an action that settles, does its own
part and stores or, like the code, does not store the settled copy. The
time-to-live of the cache and of heartbeats is their `.set(k, v, ttl)` intent, in
ledgers. `GatedOps` says which of two kinds of handler can be reached:
`pause_stream`/`resume_stream` are called by tests only, and `update_flow_rate`
wants the contract's own authorisation. The passing run opens both.

A pre-existing stream may be overwritten by `create_continuous_stream` with the
same id, as the code allows; `forfeited` books what it held.

### 3.2 MeterBilling

The fields of a `Meter` are functions of the meter, its flags sets of meters
(`active` for `is_active` and so on); `challenge` and `frozen` are the
`PairingChallenge` and unreleased `LegalFreeze` entries, `lastReading` is
`LastReadingTime`. One action per call. `Rewards` makes `register_with_referral`
a registration with or without the reward. `DeductUnits` takes the tax and fee
rates as inputs because `set_tax_rate` and `set_maintenance_config` can change
them between any two calls; devices may stamp readings with any time, the future
included, because `verify_usage_signature` lets future stamps through.
`SyncActualBalance` takes the shortfall and the customer as inputs, since they are
the token's doing.

`refresh_activity` is `Refreshed`, and it is applied exactly by the calls that
apply it: `claim_with_alerts`, `challenge_service`, `emergency_shutdown`,
`refund_disputed_funds`, `sync_actual_balance` write the flag themselves, and
`legal_freeze` does not touch it. Its condition for a pre-paid meter looks at the
balance alone; `Serviceable` subtracts the debt for both modes, which is the same
because a pre-paid meter has none (`ModesApart`, proved).

### 3.3 MultiSigWithdrawal

`config` is the provider's `MultiSigConfig` (wallet list, required signatures,
threshold, active flag), `requests` the `WithdrawalRequest`s in the order of
their ids, `meter` the billing mode, balance and debt of the meter they draw on,
`held` what the contract holds and `treasury` what has been paid out through
requests. Actions are the seven calls, `withdraw_earnings` and `top_up`.
`execute_multisig_withdrawal` counts, as the code does, the approvals of the
wallets configured at that moment rather than the stored count. TLC runs the
module within `MCControls`.

### 3.4 ResourceToken

`store` holds the namespaced keys, `legacy` the keys an earlier version left,
which only the migration reads. `LegacyStates` are the states that version can
have left. `Orderly` restricts other calls until everything is migrated; it is
TRUE in `controls_calls` and FALSE in `token_backed`, which shows what happens
otherwise.

### 3.5 PriceOracle, Settlement, AtomicPayments

`calls` is the stack of settlements under way. `Settle` and `FinalizeSettlement`
open a frame, `Convert`, `CollectFee` and `PayNet` are the external calls with
what follows them, `Return` ends the call and releases the lock (`Drop` of the
guard), `Panic` ends any number of the innermost calls by restoring the balances
and the lock of their beginning, and the one below may go on. While a frame is
waiting, the callee may call this contract, so `Begin` is tried at any depth and
it is the lock that refuses. Oracle updates from within a settlement are left
out: the price is read once, in the same call that converts.
Balances that others can see (`Committed`) are those at the beginning of the
outermost call. `AtomicPayments` says how these may change: by a whole payment
with a fee that is the rate's share to within half a unit.

### 3.6 MeterAggregator

One device; devices share no key. `readings` keeps every reading ever submitted
so that properties can speak about pruned ones, `live` the sequence numbers still
stored, `cursor` the pruning cursor, `hourly` and `daily` the buckets.
`PruneStaleReadings` describes the loop by where it stops: after a batch, at the
first fresh reading, or at the end. `RollupDay` takes any day, the current
one included, as the code does; `early` remembers days consolidated before they
were over, and the totals of those are exempt (section 6).

### 3.7 The controls of the utility contract

Five facilities that share only the clock. Each is a specification of its own
(`UpgradeSpec`, `TransferSpec`, `NonceSpec`, ...); `MCControls` holds them side by
side for TLC, and `facility`, chosen at the start, says whose steps are taken:
since they share no other state, what one facility does is independent of the
others, and the proofs are about each alone.

*UpgradeGovernance.* `upgrade` joins the three entries of a proposal, `storage` the
version and the migration cursor. `VetoCount` is read by `can_finalize_upgrade`
and written nowhere: `submit_upgrade_veto` records that somebody vetoed under
`userVetoed`, with whatever id the caller names, and leaves the count, so the
operator is 0. `FinalizeUpgrade` and `FinalizeUpgradeV2` are the two entry points; `RunMigration` handles one batch and
sets the version when the cursor has passed the meters of that moment.
`AnotherMeter` registers meters between batches.

*AdminTransfer.* `transfer` is the proposal, `adminVetoes` the keys
`AdminVeto(user, proposed_at)`. `VetoThreshold` grows with `activeUsers`.
`ExecuteTransfer` has the code's guard: it looks at the end of the execution
window and the vetoes, and not at the deadline.

*NonceSync.* A heartbeat with any nonce may arrive at any time: its signature is
verified with the key it brings along (`nonce_sync.rs:763`), which the code
matches with nothing stored, so whoever sends one can sign it. `AcceptHeartbeat`
wants the expected nonce and nothing else, `RejectHeartbeat` counts a desync and
may raise suspicion. `ResetDeviceNonce` takes the whole request from its caller,
approvals, quorum, expiry and executed flag included (`RequestsGiven`), the new
nonce as an argument of its own and the name of an approver who is looked up in
the list of resetters but not asked to sign; the request the contract stores is
written and never read. `request` is that entry.

*TariffOracle.* `currentSchedule` and `todaySchedule` are the persistent and the
temporary copy; `TodayExpires` may happen at any time. `FlowForPeriod` is the
loop over hour boundaries, as a sum over the pieces of the period that lie within
an hour, each beginning at `PieceStart`.

*VelocityLimit.* `Withdraw` is a withdrawal that passes both checks and is counted,
`RefuseGlobally` one that is counted for its meter and then refused by the global
limit, when the caller goes on without failing. The counters are temporary
entries whose life nothing extends: `CounterExpires` drops one at any time, in its
day or later, and `forgotten` books what it had counted of the day.

### 3.8 The services around the meters

`MCServices` holds them side by side in the same way.

*GuarantorDebt.* `deposits` per owner, `meterStatus` the post-paid meters the slash
has to end, `held` the collateral in the contract. `Locked`, `Billed`, `Slashed`
and `Repaid` are the record after each call; `AccrueDebt` bills below the slash
threshold, `SlashDeposit` is the same call reaching it: it closes every active
post-paid meter of the owner and pays the provider of the last one visited. It
pays in the token of the first deposit whatever came in, so with deposits in two
tokens it draws on the rest of what the contract holds (`OtherFunds` of each
token at first); only the token's own balance check stops it.

*ServiceLevel.* `reportKeys` says whether a node's temporary report key of an
interval is there, and whether it dates from before the present count: the count
lives as long as the first key, later keys outlive it.

*SecureCall, ConservationGrant.* Goals and listener are two contracts; `ReachMatched`,
a report of savings that reaches a goal, runs the listener, its verification call and the
payment in one transaction, which leaves nothing when any part of it panics.
`on_goal_reached` is a public entry that asks for no signature: `OnGoalReached`
is the direct call, with a contract, savings and an amount of the caller's choice.
The utility contract answers the call back with the stored goal, any other
registered contract with whatever it likes. Grants are in one token, and the
treasury is the listener's own account, so the transfer is authorised whoever calls.

*DeviceBinding.* `boundTo` and `deviceOf` are the two maps, written one by one.

*EnergyExchange.* One supplier's vault; the cap is a parameter of each exchange. A
surplus adds to the vault up to the cap, a deficit takes from it, and a balanced
exchange leaves it alone, below zero too (`VaultCredit`).

*SettlementProposals.* `proposals[id].locked` and `lockRecords` are the two records
of a lock. The late branch of `finalize_settlement` writes and then panics, so it
is no step.

*PrivacyReports.* `reports` are on the network for good; delivery is an action of
the contract. The proof is not modelled (section 7).

*WeightedRate.* The loop of `weighted_average` is a step per interval, so that the
accumulator can be compared with the exact sum; words have four bits instead of
128, limbs two instead of 64, and all carries between them happen. `DivisionTurn` is
a turn of the long division; shifts multiply or divide by `TwoTo[i]`, a power made by
doubling, which the provers can reason about where `2 ^ i` is opaque to them.

*Reserves.* Three independent parts with one property each; the tokens held for
others are a constant, so that a drain and a buffer's withdrawal compete for what
the contract holds.

### 3.9 ContractLifetime

`remaining` counts ledgers until the instance is archived; `CloseLedger` takes one
off, `MeterCall` and `ManualExtend` are the contract's own extensions out of the
maintenance fund. The monitor's `setInterval` starts a check without waiting for
the last one, so several checks go through `ReadLedger`, `ReadEntry`,
`LoadAccount`, `SendTransaction` and `FinishPolls` at once; `Fail` ends a check at
any request. Transactions built on the same loaded sequence number exclude one
another: applying one invalidates the rest (`loaded' = {}`).

## 4 What TLC checks

**Fairness.** The contracts' specifications state none: every contract call is
somebody's choice, and nothing in the code makes anybody call anything (there is
no scheduler, retry or keeper in the contracts). What "must eventually happen" is
stated there as what a call that does happen achieves (`BacklogDrains`). The TTL
monitor is a process with a timer, and `ContractLifetime` is fair to it
(section 4.8).

`CHECK_DEADLOCK` is FALSE in every run: behaviours end when the bounds are reached,
and in `ContractLifetime` when the instance is archived and the monitor stopped.

### 4.1 `stream_calls` — every call on a stream

One stream, one provider, rates 1 and 2, amounts of 1, cap 2, a fee of one half,
a buffer of one second, a cache of one ledger, time up to 3, at most 3 credited.
One second of buffer and amounts of one make every settlement that pays out of
balance, buffer, both, exactly or not enough happen within three seconds; the cap
of 2 is reached by one stream at rate 2 or by its re-creation; streams meet only
in the fleet aggregate, and overwriting a stream by one with the same id already
adds to the aggregate twice.

* `FundsConserved` — what was credited is held or was paid out, per cause.
* `ActiveIsFunded` — no path leaves an Active stream without funds.
* `FleetGrowsWithinCap` — no call takes the aggregate up beyond the cap.
* `ImplementsEscrow` — a stream refines `EscrowAccount`: no step releases more
  than was held before it.

`stream_overcharge` expects a violation of `NeverOvercharged` (section 6). It opens no
gated handler, so the behaviour it finds consists of calls any deployment has, and
has wider bounds (time 4, 5 credited).

### 4.2 `billing_calls` — every call on a meter

One meter (meters share no record), one amount of 2, one rate of 1, drip 1,
threshold −1, fee one half, hours and intervals of two seconds, time up to 3 with
a peak second at 2, a dispute window of 2 and an update window of 1. The
threshold is one below zero so that a claim can end above, at and below it; hours
of two seconds put claims in the same hour, in the next and across; the interval
of two with at most one multiple reaches allowance zero, one interval and the
cap; the dispute window ends within the time modelled and outlasts one tick; the
update window can be met and missed.

* `ActiveIsServiceable` — the activity flag is right after every call.
* `TimeIsChargedOnce` — both claims and the readings together never charge a
  second twice.
* `ReadingsWithinAllowance` — consumption split into readings is not cheaper in
  intervals than in one reading.
* `TimeClaimsStopAtFloor` — no claim takes a meter below the debt threshold.
* `TypeOK` — among types: no debt, collateral or claimed total below zero, no
  clock ahead of the ledger.

### 4.3 `settlement_calls`

Three interchangeable accounts (payer, payee and collector may coincide), prices
0, 3 and 15, of which 0 is refused, rates of zero, the largest and beyond it,
calls within calls to depth 2, time up to 2 with a price that turns stale. Depth
2 is the first at which the lock refuses a call and a caught panic leaves an
outer call waiting; since the lock allows one settlement, a third level adds
nothing (`OneInFlight` is proved for every depth).

* `OneInFlight` — the lock is held exactly while one settlement is under way.
* `FeesAreFair` — the fee is within half a unit of the share and never above the
  gross amount.
* `ImplementsPayments` — what others see refines `AtomicPayments`.
* `TypeOK` — among types: no account is overdrawn between two transfers.

### 4.4 `aggregator_calls`

Hours of two seconds, days of two hours, time up to 7 (two days), retention of 3
seconds, batches of two, four readings of value 1 or 2, buckets up to 5 — so that
a bucket can overflow, batches can be full, partial and empty, and windows can
begin and end inside a day. Days are consolidated at any time.

* `FreshReadingsAreKept`, `LiveAboveCursor` — what pruning may remove.
* `BacklogDrains` — each submission prunes a full batch or everything stale.
* `HourlyTotalsAreComplete`, `WindowsAreExact` — buckets and windows are sums of
  the readings they stand for, but for days consolidated before they were over.

### 4.5 `controls_calls`

The five facilities of section 3.7, the finance quorum and the token, side by
side. Time up to 3. Upgrades: two hashes, a veto period of 1, batches of two over at most
three meters, so that a migration takes two calls and meters arrive in between.
Transfers: two admins, two voters, timelock and window of 1, a threshold of half
of 4 users, or of the registered ones. Nonces: nonces 0 and 1 in any heartbeat and any
reset, two resetters, requests that name none or one of them, want one or two
approvals and end at any time, a window of 2, one desync a day allowed. Tariffs: rates 0 (refused), 1 and 3, two hours of two seconds, a
notice of 2, two proposals. Limits: two meters, days of two seconds, limits 1 and 2,
overrides for ever or to the second day, at most 1 forgotten per scope and day, so
that a counter at its limit can expire and the limit be used twice. Quorum: four
wallets, a list of three, a list that replaces one of them and puts another
first, a list with a wallet twice and one that is too short; 1 or 2 required; two
requests that expire after one second, amounts −1 and 2 of earnings of 3. Two
requests of 2 compete for earnings of 3, also with the provider's own
withdrawal; replacing wallets takes one approval out and leaves the others in.
Token: two accounts, supply at most 2, amounts 1 and 2, two delegation calls per
operator, from every legacy state, migrated before other calls. 1.7 million
states in all.

* `CodeWaitsForVetoes` — no order of proposals and finalisations installs code that
  did not stand proposed for the whole period.
* `VersionCoversMeters` — the version moves only behind a cursor that passed every
  meter, late registrations included.
* `TransferInv` — a standing transfer is the admin of now's, with the whole
  timelock, its vetoes of different users.
* `NonceInv` — between resets no nonce is accepted twice or after a later one,
  whatever heartbeats arrive and from whomever; suspicion is the count. Of the
  quorum of a reset it says nothing: there is none (`nonce_quorum`).
* `TariffInv` — both copies of the schedule rate alike; a period costs what its
  seconds cost.
* `VelocityInv` — what is paid in a calendar day exceeds the day's highest limit, and
  the counters, by no more than counters that expired within the day had counted.
* `ExecutedOnQuorum` — an execution has approvals of at least half of the wallets
  of that moment, is in time and not cancelled.
* `ApprovalsAreCounted` — the stored count is the number of standing approvals.
* `NotOverdrawn`, `PaidOnce` — earnings are paid once, requests once.
* `SupplyIsBacked`, `DelegationsAreNumbered` — the token's supply is the sum of the
  balances and at most the cap; every change of a delegation moves its nonce by one.

### 4.6 `admin_timelock`, `nonce_quorum`, `token_backed`

Three expected violations (section 6). The first two have the bounds of
`controls_calls`; `TimelockIsKept` says that a transfer is executed after its
deadline, `ResetNeedsQuorum` that a device is made to expect an earlier nonce only
with approvals of as many resetters as the documentation names. `token_backed`
checks `SupplyIsBacked` where calls may come between two batches of the migration.

### 4.7 `services_calls` and `grant_unreached`

Time up to 2 for all. Guarantors: two owners, three post-paid meters (one owner
has two), two providers, two tokens of which the contract holds 1 each besides,
thresholds of 80 % and 100 %, at most 2 locked or owed — so that a slash in the first
token of a deposit of both can eat into the 1. Service levels: three nodes, two intervals that overlap, two reports needed.
Grants: a treasury of 3, months of two seconds, two numbers for meters and goals,
grants of 0 and 2, a deadline of 1, monthly maxima 0, 1 and 2, the utility contract
and another callee that may be registered, outsiders' events of 1 — so that the treasury or
the month runs out, goals are reached with and without a listener, in time and late,
and a goal's grant meets a payment made to an outsider before.
Devices: two devices, two meters, two persons. Exchanges: rates and durations 0 to
2, fees of nothing, half and beyond the whole, caps −1, 2 and 3. Proposals: two
ids, windows 0, 1 and 2 of which 1 is allowed, two proposals per id. Reports: two
meters, two reports. Arithmetic: words of 4 bits, seven intervals of rates 0, 3,
9 and 15. Reserves: buffers of 1 and 2, two tokens, a cooldown of 2. 820,000
states in all.

* `GuarantorInv`, `SlashEndsService` — a deposit not slashed exceeds its debt; over all
  tokens the contract holds its other funds and what was locked, paid or left
  unassigned; a slash ends the owner's post-paid service and nobody else's.
* `SlaInv` — an interval becomes downtime only when enough different nodes reported
  it, whatever keys expired; counts and keys agree.
* `GrantInv` — a goal reached with a listener was paid its own amount, once, whatever
  outsiders had the listener pay; every record of what was paid shows the same sum.
* `DeviceInv` — the two maps agree on every meter's device.
* `FundsInv` — a vault holds what was reported, within the caps; buffers are covered
  by what the contract holds or drained, drains keep apart, and what is routed to
  yield is nothing or within what was asked and worth its gas.
* `ProposalInv` — an id is paid out once; the two records of its lock agree.
* `PrivacyInv` — a report is counted once, over repeated and late deliveries and
  privacy switched off and on.
* `RateInv` — sums, averages and scalings are those of exact arithmetic.

`grant_unreached` runs `ConservationGrant` alone, without the other callee, and expects a
violation of `GrantsAreEarned`, that a grant is for a goal reached (section 6).

### 4.8 `lifetime_monitored`

Two checks that may overlap, a threshold of 3 ledgers, extensions to 4 by the
monitor and to 5 by the contract, a meter's automatic extension every other ledger
with a cost and a fund of 1; any remaining lifetime from 1 to 4 at the start.

`LowIsExtended`: once the instance is low it is extended, unless it is archived first
or the monitor is stopped. Fairness: the process is scheduled and its timer fires
(weak, for the start, the timer and each check as a whole: a request is answered or
fails); a kind of request made again and again is answered at some time, and
transactions submitted again and again are applied at some time (strong). Nothing
is assumed of how fast the ledger closes compared with any of this, so an instance
may be archived first, and nothing of the meters. Two checks are the smallest
number that compete for a sequence number; a third adds only a third competitor.

## 5 What is proved

TLAPS checks the theorems below for every value of the constants that satisfies the
assumption of the module they are about (`StreamAssumption`, `BillingAssumption` and so
on), which only says what kind of number or set each constant is and what the code's own
constants satisfy (a fee rate at most the whole, a threshold at most zero, a slash
threshold at most the whole, a word of two limbs, an absent address that is none of the
addresses, finitely many users). Every run evaluates these assumptions for its constants.
`BillingAssumption` takes rates as naturals although a registration does not look at the
sign of `off_peak_rate`: a claim of nothing or less is refused by `claimable > 0` and by
`amount <= 0`, so a negative rate charges what a rate of zero does.

Every invariant and every action property a passing run checks is proved, and both
refinements; the liveness property is not.

| Module | Theorems | By |
|---|---|---|
| `ContinuousStream_proofs` | `StreamTypeOK`, `StreamFundsConserved`, `StreamActiveIsFunded` from `StreamInvariant`; `StreamFleetGrowsWithinCap`, `StreamImplementsEscrow` | one inductive invariant; the two properties of steps follow from it, one step per action |
| `MeterBilling_proofs` | `BillingTypeOK`, `BillingActiveIsServiceable`, `BillingTimeIsChargedOnce`, `BillingReadingsWithinAllowance`, `BillingTimeClaimsStopAtFloor` | types, then one small invariant each |
| `MultiSigWithdrawal_proofs` | `MultiSigTypes`, `MultiSigApprovalsAreCounted`, `MultiSigNotOverdrawn`, `MultiSigExecutedOnQuorum`, `MultiSigPaidOnce` | one inductive invariant |
| `Settlement_proofs` | `SettlementTypeOK`, `SettlementOneInFlight`, `SettlementFeesAreFair`, `SettlementImplementsPayments` | one inductive invariant, step simulation |
| `MeterAggregator_proofs` | `AggregatorLiveAboveCursor`, `AggregatorKeepsFresh`; `AggregatorDrains`; `AggregatorHourlyTotals`, `AggregatorWindows` | three invariants, each on top of the one before |
| `Controls_proofs` | `UpgradeTypes`, `UpgradeWaitsForVetoes`, `UpgradeVersionCoversMeters`; `TransferInvariant`; `NonceInvariant`; `TariffInvariant`; `VelocityInvariant`; `TokenTypes`, `TokenSupply`, `TokenDelegations` | one inductive invariant per module |
| `Services_proofs` | `ProposalInvariant`; `GuarantorCoversDebt`, `GuarantorSlashEndsService`, `GuarantorIsSound`; `ServiceLevelInvariant`; `ExchangeInvariant`, `ReservesInvariant`, `FundsAreAccounted`; `DeviceInvariant`; `PrivacyInvariant`; `GrantInvariant`; `RateInvariant` | one inductive invariant per module |

**Induction over data.** The library's induction theorems take an operator as a parameter,
which the provers cannot instantiate; what induction is needed goes by a smallest
counterexample instead, in `Sums_proofs`. The strict order of the subsets of a finite set
is well founded (a fact of the library about a relation), so the subsets for which
something fails, if any, have a smallest one (`SmallestSubset`), and taking an element off
it gives a contradiction. `SubsetInduction` states this with a set in place of the
predicate, `IntervalInduction` the same for the numbers up to a bound. From these: a fold
over a finite set is well defined and takes one element at a time (`SumAddsUp`,
`SumRemove`, `SumAdd`), hence `SumOfChanged`, `SumOfUnion`, `SumMonotone`, `SumByClass`;
and a function given by its steps up to a bound exists (`StepsExist`), without which
nothing follows from a recursive function's definition.

**Streams.** `IInv` adds to types, conservation and funding that no stored or
cached timestamp is in the future (`TimestampsInPast`): without it an
accumulation could be negative and a settlement would add funds. The core is
`SettleSettles`: a settlement takes from a stream what it reports as charged, at
most all of it, and leaves an Active stream only with funds. Each action is then
a settlement followed by an entry in the books.
The cap (`CapStep`) holds because the only changes not checked against it, those
of a settlement, a pause or a closure, never add to the aggregate. The refinement
of `EscrowAccount` shows for each call that what its books gain on the outgoing
side is between nothing and what the stream held (`StepFlows`); conservation, in
the states before and after, then gives the abstract transaction
(`OutflowsTransact`).

**Meters.** Types are inductive by themselves. `ActiveIsServiceable` needs
`ModesApart`: a pre-paid meter has no debt, a post-paid one holds nothing;
`claim_with_alerts` deactivates a meter on its balance alone, and is right only
because of it. `TimeIsChargedOnce` needs `ClockStarted`: a meter's clock is not
before its registration, and what does not exist was never charged. Both claims
are first shown to be a `TimeCharge` — something between nothing and elapsed time
times rate comes off, never below the threshold — and everything else is said of
that. `ReadingsWithinAllowance` rests on `IntervalsAdd`, that integer quotients of
two stretches of time add up to at most that of their sum.

**Finance quorum.** The invariant is that counts are exact for pending requests,
the configuration is valid and the money is there. That a quorum of the code is
at least half of the wallets (`HalfOrMore`, `MembersBound`) uses that a valid
configuration lists no wallet twice.

**Settlement.** `IInv` says that there is no frame and a free lock or exactly one
frame and a held lock, and what the balances are at each step of that frame in
terms of those at its beginning (`CallOK`). A second frame is never opened, to
any depth, because `Begin` wants the lock. The refinement follows: only `Return`
changes what others see, and by then the balances are those of one whole payment
with a fee that `CallOK` bounds.

**Aggregator.** The invariant joins what is stored (`LiveAboveCursor`) with what
was removed (`PrunedWereStale`); the latter, with timestamps that never go back,
is what makes a prefix removal safe.

**Upgrades.** The invariant is that a stored proposal's deadline is its time plus the
veto period and that the cursor is within the meters while a migration runs; code
changes only in `Install`, whose guard then gives the period. The version changes in
`FinalizeUpgradeV2`, where the check that no migration is under way, or of no meters,
matters, and in the last batch of `RunMigration`.

**Transfers.** `VetoesAreUsers` is the step that needs care: a counted veto adds a key
of a user that has none for the transfer's second, so the count moves with the
cardinality (`FS_AddElement`), while a transfer proposed anew in the same second starts
at zero with keys already there — hence "at most", not "equal".

**Limits.** `VelocityInv` says by how much at most a day's cap is exceeded: by what its
expired counters had counted (`forgotten`), nothing else being lost. It needs `LimitInHighest`: the limit a withdrawal is checked
against is at most the highest of the day. When the clock enters another day
(`DaysGoOn`: the day's number never goes back) both start anew, and within a day a
counter is never reset; a refusal by the global limit leaves the meter's counter too
high, which only makes the day stricter.

**Nonces.** Everything accepted since the last reset is below the expected nonce, so
the next one accepted is larger than all; a reset empties the history. Nothing is assumed of
who signs a heartbeat or of the requests handed in, and nothing is said of a reset's
quorum, which `nonce_quorum` shows to be missing.

**Devices.** The maps agree because a registration writes a device only when it is
free or already the meter's, and because the device a meter had before stays bound
(`lastDevice`) instead of being freed.

**Private reports.** That no more is shown than was counted is not inductive: a report
accepted adds a place to the history and one to the number shown, and switching privacy
on again only lowers that number (`ShownWereCounted`). Switching it off leaves the list
of private meters alone, so `ListedOnce` has to hold of meters whose mode is off too.

**Proposals.** An id is never paid twice because `batchFinalized` outlives the
proposal that a new one overwrites.

**Guarantors.** `NotReached` is the arithmetic: when the debt's ratio in basis points,
rounded down, is below a threshold of at most the whole, the debt is below the
collateral. `OneDepositKept` carries it over the calls, each of which changes one
owner's record. `SlashEffect` and `SlashPays` describe the slash action; the property
of steps follows, since no other action sets the flag. What a call bills or locks is
a positive amount (`AmountsAreNat`).

**Service levels.** `CountedAreWitnesses` ties a count to the nodes that made it: the
count is the number of nodes barred by a key of its own generation, and each of them
has reported the interval, so a count that reaches the quorum has a quorum behind it
although keys and counts expire apart. All of it is said of one interval
(`SlaByInterval`), since every step changes one.

**Exchange.** `CreditWithinCaps`: whatever the surplus, one of nothing included, the vault ends within the cap of
the exchange or between zero and where it was, and so between the caps recorded.

**Collateral.** Each call moves what is held and what accounts for it by the same amount,
the sums over tokens and owners each in one place (`SumOfChanged`); what the contract held
before is a constant summand. A slash pays in the first token what may have come in
another and can take a token below `OtherFunds`, which is why the property is about the
total (section 6).

**Reserves and funds.** `ReserveIInv` adds types to `ReserveInv`. Buffers, gains and drains
are three sums of which a call changes one or two; a buffer made anew drops what it held,
so the buffers are at most, not exactly, what was gained and drained. `FundsInv` joins
this with the exchanges': a step of either leaves the other's variables.

**Grants.** `GrantIInv` adds the clock and that what was reached are goals. A payment, reached or made
by an outsider, adds one amount to the listener's total, to what was received and to the
sum over the grants, and takes it from the treasury (`PaymentAddsUp`); the sum grows by a
member that was not there, because `GrantAdmitted` refuses what was processed. A report
that reaches a goal with a listener moves the goal with it, or nothing
(`ReachMatchedKeeps`). A direct call cannot disturb a goal reached before, whose grant is
already in the records (`ReachedArePaid`); the goals themselves move one at a time
(`OneGoalMoves`).

**Resource token.** `TokenIInv` adds `LegacyIsApart`: what a legacy key still holds is not
yet in the new one, so a batch of the migration moves it and overwrites nothing
(`MigrationMoves`). It holds only when all keys are migrated before other calls or there
are none (`MigratedFirst`), the hypothesis of `TokenSupply` and `TokenDelegations`;
section 6 shows what happens otherwise. `TokenTypes` needs no hypothesis.

**Aggregator, totals.** `OrderIInv` adds that readings are in the order of their times and
none is of the future: the stale ones are then a prefix of those stored, and a batch
either ends inside it or takes all of it (`AggregatorDrains`). `RollupIInv` adds to the
hourly totals that a day's bucket has all readings of the day, and that an hour without a
bucket, of a day neither over nor consolidated, has no readings (`OpenHoursAreFolded`).
A window is then split into its whole days and single hours (`WindowSplits`), and its
sum by these classes (`SumByClass`).

**Tariffs.** `TariffIInv` says that today's copy is the current schedule or gone. That a
period costs what its seconds cost is a fact about the operator and not about steps: the
seconds of a period are those of its pieces, each within one hour (`SecondsOfPiece`), and
a piece's weight is the sum over its seconds (`WeightIsExact`, by `SumByClass`).

**Arithmetic.** `MulFullIsExact` follows the four partial products through the columns
(`ColumnsAddUp`). `DivModIsExact` is an induction over the turns of the division: after
`i` of them, the quotient so far times the divisor plus the remainder is the high word
shifted by `i` bits plus the `i` highest bits of the low one (`PartlyDivided`).
`TurnDivides` has the case of a bit that leaves the word, where the subtraction wraps and
is right because it does. `RateIInv` adds to the exact sum that it is at most the largest
word times the durations: two words never overflow before the durations do, and the
average fits a word even when it is rounded up.

**Only model-checked:** `LowIsExtended`, the one liveness property (fairness and ENABLED
are out of this prover's reach), and the violations of section 6.


## 6 Where code and documentation disagree

Five statements of the repository do not hold of the code; each is a run that
expects a violation, and `PROJECT.json` quotes the statement.

1. `stream_overcharge` — a cached accumulation is reused whenever it is not older
   than the last settlement. `get_buffer_balance` settles a copy, writes the
   cache and stores nothing; a top-up in the same ledger settles with the cache
   and so does the next call, and the interval is charged twice
   (`temporary_storage.rs:257`).
2. `token_backed` — `migrate_namespace` sets the supply and the listed balances to
   the legacy values, over what mints and burns since the upgrade made of them
   (`resource-token/src/storage.rs:133`).
3. `admin_timelock` — `execute_admin_transfer`, "after 48-hour timelock" in its comment
   (`lib.rs:6967`), compares the time with the end of the execution window only: a
   transfer can be executed in the second it was proposed (`lib.rs:6968`).
4. `nonce_quorum` — "Execution requires threshold approvals" (`nonce_sync.rs:540`,
   "Default: 3-of-5" at 537): `reset_device_nonce` compares the approvals of the request
   it is handed with the quorum of the same request and neither with anything stored
   (`nonce_sync.rs:601`), so one call takes a nonce back.
5. `grant_unreached` — the listener's `on_goal_reached` is "called by Utility-Protocol when
   a conservation goal is reached" (`grant_stream_listener.rs:92`); anybody can call it
   (line 93), and what it verifies (132–134) is that the goal is still active, not that
   it was reached, so it pays for a goal nobody reached.

Smaller observations made while reading, without a run:

*Streams.* The fleet aggregate is moved by creation, depletion, rate changes and
pauses, but not by a top-up that makes an empty stream Active nor by the
overwriting of a stream, so it is not the sum of the active rates
(`lib.rs:8147`, `enterprise.rs:12`). `close_stream_amicably` stores the settled stream
only while it is Active; when its settlement exhausts the stream exactly, the refund
reads the record from before and returns a buffer already spent (`lib.rs:8226`,
`3113`). `update_flow_rate` prices the open interval at the new rate
(`lib.rs:3066`). The platform fee is taken off the accumulation, so the stream is
charged less by the fee rather than the provider paid less (`lib.rs:2763`).

*Meters.* `emergency_shutdown`, called an unconditional hard stop by
`EMERGENCY_RUNBOOK.md:144`, only clears the activity flag: the next call that
refreshes sets it again, and neither `claim` nor `deduct_units` looks at it.
`claim` does not look at pause, closure or a running firmware update either,
while `lib.rs:5226` and `6061` speak of billing as paused during an update.
An update that is not completed within two hours stays `is_updating` for good
(`lib.rs:6069`, `6108`). `deduct_units` has no debt floor; it pays tax, fee and
payout out of the contract and takes only the payout off the balance; for a
post-paid meter it pays the provider and records a debt that `withdraw_earnings`
pays again. In a new hour `claim` does not apply the hourly cap. A credit drip
writes off elapsed time times drip whatever the claim took. `refund_disputed_funds`
keeps `collateral_limit`, so another dispute refunds it again. `legal_freeze` moves
funds and leaves the balance. `apply_throttling` sets `is_paused` and then panics
(`lib.rs:6605`), so nothing is stored. `settle_claim_for_meter` (`lib.rs:1939`) is
called by nothing: the offline grace period never applies. A post-paid meter is
never active again after its first refresh, since its balance is never positive.
The clawback haircut, "proportional" in a comment, takes up to the whole shortfall
from each meter. Refunds, alerts, clawbacks and referral rewards do not move the
provider's pool, which nothing reads. `complete_pairing` checks a signature over
the current timestamp, not the challenge's. `set_tax_rate` asks for no
authorisation. A reading stamped in the future is accepted.
`EMERGENCY_RUNBOOK.md:112` has the provider challenge a service; the code wants
the user.

*Finance quorum.* `withdraw_earnings` lets the provider alone take any amount,
while `README.md:14` and `lib.rs:7480` speak of a quorum for large withdrawals. Only
the first wallet can propose and revoke. `configure_multisig` fails after
`disable_multisig`, and an update leaves the configuration inactive, so the
runbook's procedure for replacing a quorum (669–694) cannot be followed; approval
and execution do not look at the flag. An approval of a wallet that is removed
and listed again counts again.

*Settlement and oracle.* `apply_rate_to_volume` divides every price by the same
denominator, whatever decimals the oracle states (`rate_application.rs:37`,
`settlement/src/lib.rs:36`). Slippage is always 0; the fallback rate may price far from
the last price (`MAX_STALENESS_TOLERANCE` is used nowhere); fees on amounts of up
to 4 units at 10 % round to zero; `min_expected` is compared with the gross
amount; the oracle calls a price fresh for 300 s, the settlement for 600 s.

*Resource token.* An operator's expiration has no upper bound although
`lib.rs:76` and `storage.rs:6` of that crate speak of 30 days; operators cannot mint although the comments of
`mint` say so; `lib.rs:236` "Must be called by the admin" checks nothing.

*Aggregator.* `rollup_day` takes the current day too (`types.rs:26`, `lib.rs:117`,
`128` of that crate); the next reading of an hour it deleted opens a bucket that hides
the earlier ones.

*Upgrades.* `VetoCount` is written by nothing, so vetoes never stop an upgrade.
`submit_upgrade_veto` records any `proposal_id` the caller names, one never proposed
included (`lib.rs:6712`).

*Admin transfer.* The veto keys carry the second of the proposal: whoever vetoed a
transfer cannot veto another proposed in the same second. Each registration of an
active user raises the number of vetoes needed. Two keys hold an admin, `AdminAddress`
and `CurrentAdmin`, and a transfer moves the second only.

*Nonces.* A heartbeat is verified with the key it brings along (`nonce_sync.rs:483`,
`763`), although the documentation says that it "must match the key stored" (331) and
names a `PublicKeyMismatch` (463): whoever signs the expected nonce advances it. The
stored reset request is never read, the approver is not asked to sign, and `executed`
is not checked, so a request executed before resets the nonce again, and heartbeats
accepted since are accepted again. Nonces within the window but not the next are
refused, although the documentation speaks of a tolerance (314, 476).

*Tariffs.* `previous_schedule_hash` is compared with nothing. Consumption of the past is
rated by the schedule of now. `windows_crossed` is a byte.

*Velocity limits.* No call of `lib.rs` checks a withdrawal against them. The module
promises a rolling window of 24 hours (`velocity_limit.rs:4`, `9`) and counts by calendar
day, so twice the cap may leave around midnight. The counters are temporary entries
whose life nothing extends (324–326, 413–415) and read as nothing once they are gone
(553–566): a cap is exceeded when an entry expires within its day, by what it had
counted, which is what `VelocityInv` says.

*Service levels.* Overlapping intervals are counted twice, intervals in the future are
accepted, and once its temporary entries have expired an interval can be counted again.
The downtime never goes down, so a penalty stays: the "automatic reversion" of
`lib.rs:1986` is in `settle_claim_for_meter`, which nothing calls.

*Guarantors.* A deposit in a second token is added to the number of the first, and a slash
pays the whole in the first, out of whatever else the contract holds of it
(`lib.rs:9289`–`9291`). Payments that settle a debt stay in the contract. The slash pays the provider of the last meter
visited, where the comment at `lib.rs:9261` says the first.

*Devices.* A device replaced by another stays bound to the meter, and pending transfers
are never cleared.

*Grants.* Goals draw their numbers from the meters' `Count`, and
`get_provider_conservation_goals` looks at them only up to a count of matches. A goal
reached before its listener is configured is never paid; savings beyond the target make
the listener refuse. The monthly maximum is kept per goal. The
listener's `grant_amount` is the caller's and compared with nothing; a goal that an
outsider was paid for cannot be reached any more, since its report panics with the
listener. The contract that verifies is the caller's to name, among those registered. The trait at `lib.rs:513`
declares `on_goal_reached` without an argument the listener has, and the host does not
allow the callback into a contract that is waiting: `reentry` leaves it open.

*Secure calls.* The admin is looked up under a fresh address; `emergency_disable` only
emits an event; the rate limit is unused.

*Exchange and reserves.* A negative battery cap takes a vault below zero.
`initialize_gas_buffer` over an existing buffer loses its balance; a buffer is paid in
one token and can be withdrawn in any. Yield routing computes an amount and moves nothing.

*Private reports.* `verify_groth16_proof` accepts everything but a hash of zeros, the
nullifier is not tied to the proof, two reports of one second share one, and enabling
privacy again resets the counts.

*Utility settlement* (`settlement.rs`). A finalisation past the deadline releases the
resources and then panics; the host reverts the release, so they stay locked for good,
and so does the flag that a comment (`settlement.rs:124`) says is kept. A proposal under
an id in use overwrites the stored one.

*Lifetime.* `auto_extend_ttl_if_needed` speaks of every 500,000 ledgers where its
constant is 100, and each call within such a ledger pays again. The monitor logs success
after a transaction that failed.

*Shared code.* No contract depends on `common`. Dust below one unit is swept by a
threshold that no whole amount can be under.

## 7 Not modelled

* The utility crate does not build as a whole (`COMPILATION_STATUS.md`); the models
  follow the source text of its modules. Files no `mod` declaration reaches, or only
  one for tests (`insurance_pool.rs`, `Multi_Sig.rs`, `stream.rs`, `gas_metrics.rs` and
  others listed in `PROJECT.json`), are not part of the program.
* The ghost stream sweeper reads streams from persistent storage, while `lib.rs` keeps
  them in instance storage: it finds none, and there is no behaviour to check.
* A sub-DAO's budget is looked up under the contract's own address: none is ever
  drawn on.
* Code nothing reaches or nothing reads: `settle_claim_for_meter` and pending claims,
  the dust sweep, the helpers that would spend gas buffers, the grid's load shedding
  flags, the rate limit of secure calls, the gas estimator.
* Reliability scores, alert thresholds and webhooks: they choose what is shown and emitted.
* On meters: the green discount on a claim, carbon credits, the provider pool, usage
  counters. The discount only lowers a charge.
* On streams: the limiter of calls per provider and the signature of a heartbeat.
* On the quorum: conversion of prices, the meter's clock and collateral.
* The zero-knowledge proof itself, and signatures in general (section 2).
* The reentrancy flag of `lib.rs`: it is clear between calls, and its calls into
  tokens are modelled as steps of their own only in the settlement contract.
* Archival of single storage entries by the host, but for the temporary entries of
  section 2; the instance's is in `ContractLifetime`.
* Grants in several tokens, `grant_token` being the caller's too, and a treasury other than
  the listener's own account, whose transfers the call could not authorise.
* Client code (simulator, dashboard, scripts), but for the device's private reports and
  the TTL monitor.

## 8 Plan

What would add most from here, in this order:

* a module with the contract's holdings of each token that joins streams, meters, the
  quorum, deposits and buffers under one promise, that the contract holds what it owes;
  it would show where the calls of section 6 that pay twice take the tokens from;
* the provider pool, the green discount and the maintenance fund of meters, the fund
  together with `ContractLifetime`;
* abstract specifications for a rate limiter (at most so much in any window), a
  once-only executor (proposals, upgrades, requests) and a monotone register (nonces,
  versions), and the refinements.
