-------------------------- MODULE ContinuousStream --------------------------
(***************************************************************************)
(* Continuous payment streams of the utility contract (lib.rs,             *)
(* temporary_storage.rs, enterprise.rs).  A stream escrows a balance and a *)
(* 24-hour buffer and is drained at `rate' per second; it is settled       *)
(* lazily, by whichever call touches it next.                              *)
(*                                                                         *)
(* Every contract call is one atomic step: the host runs calls one at a    *)
(* time and reverts a call that panics, so a call that fails is no step.   *)
(* Tick is the close of a ledger; one time unit stands for one ledger and  *)
(* for one second.                                                         *)
(***************************************************************************)
EXTENDS Integers, FiniteSets
LOCAL INSTANCE FiniteSetsExt

CONSTANTS
    Streams,         \* stream ids
    Providers,       \* provider addresses
    Rates,           \* non-zero flow rates callers ask for
    Amounts,         \* amounts callers deposit or withdraw
    Caps,            \* fleet caps the super admin sets
    FeeSettings,     \* platform fees the admin sets, in 1/FeeDenominator
    BufferSeconds,   \* seconds of flow the opening buffer holds (86400)
    FeeDenominator,  \* basis points in the whole (10000)
    CacheTtl,        \* ledgers a temporary accumulation lives (5)
    HeartbeatTtl,    \* ledgers a temporary heartbeat lives
    GatedOps,        \* which gated handlers can be reached, see below
    MaxTime,         \* bound: last ledger
    MaxCredited      \* bound: what one stream is ever credited

\* "update_flow_rate" demands the contract's own authorisation, which the tests
\* mock; "pause_stream" and "resume_stream" are called by the tests only.
ASSUME StreamAssumption ==
    /\ Rates \subseteq Nat \ {0} /\ Amounts \subseteq Nat \ {0}
    /\ Caps \subseteq Int /\ FeeSettings \subseteq 0 .. FeeDenominator
    /\ BufferSeconds \in Nat \ {0} /\ FeeDenominator \in Nat \ {0}
    /\ CacheTtl \in Nat /\ HeartbeatTtl \in Nat
    /\ MaxTime \in Nat /\ MaxCredited \in Nat
    /\ GatedOps \subseteq {"update_flow_rate", "pause_stream"}

VARIABLES
    now,     \* ledger sequence and timestamp
    flow,    \* DataKey::ContinuousFlow: the stored stream, or NoFlow
    cache,   \* TempStorageKey::FlowAccumulation and FlowTimestamp, or NoCache
    fleet,   \* DataKey::FleetAgg: the provider's aggregate rate
    cap,     \* DataKey::FleetCap
    feeBps,  \* DataKey::PlatformFeeBps
    beat,    \* DataKey::StreamLastHeartbeat, 0 when absent
    book     \* history: what entered and left each stream, per cause

vars == <<now, flow, cache, fleet, cap, feeBps, beat, book>>

NoFlow == [status |-> "None"]
NoCache == [at |-> -1]
Causes == {"credited", "streamed", "withdrawn", "refunded", "slashed",
           "forfeited", "due"}

Exists(s) == flow[s].status # "None"
Held(s) == IF Exists(s) THEN flow[s].balance + flow[s].buffer ELSE 0
Clamp(n) == IF n < 0 THEN 0 ELSE n

-----------------------------------------------------------------------------
(* Accumulation and settlement *)

\* calculate_fresh_accumulation: only an Active stream accrues.
FreshAccumulation(f) ==
    IF f.status = "Active" THEN f.rate * (now - f.last) ELSE 0

\* A cached accumulation is used whenever it is not older than the stream's
\* last settlement, whatever the time and the status now are.
CacheUsable(s) == cache[s].at >= flow[s].last

Accumulation(s) ==
    IF CacheUsable(s) THEN cache[s].acc ELSE FreshAccumulation(flow[s])

CacheAfter(s) ==
    IF CacheUsable(s) THEN cache
    ELSE [cache EXCEPT ![s] = [acc |-> FreshAccumulation(flow[s]), at |-> now]]

PlatformFee(acc) == (acc * feeBps) \div FeeDenominator

\* The fee leaves the accumulation, not the stream.
NetAccumulation(s) == Accumulation(s) - PlatformFee(Accumulation(s))

\* Mutant: the balance, which pays first, is forgotten.
BufferShortOfWhole(f, net) == net > f.buffer

\* Balance and buffer together cannot pay the net accumulation.
BufferShort(f, net) == net - f.balance > f.buffer

\* The tail of update_continuous_flow: the balance pays the net accumulation
\* first, then the buffer; running out of both depletes the stream.  A Paused
\* stream that still has funds comes back Active.
Settle(f, net) ==
    LET short == BufferShort(f, net)
        balance == Clamp(f.balance - net)
        buffer == IF short THEN 0 ELSE f.buffer - Clamp(net - f.balance)
        exhausted == short \/ (balance = 0 /\ buffer = 0 /\ f.status # "Depleted")
        status == IF exhausted THEN "Depleted"
                  ELSE IF f.status = "Paused" THEN "Active" ELSE f.status
    IN  [flow |-> [rate |-> IF exhausted THEN 0 ELSE f.rate,
                   balance |-> balance, buffer |-> buffer, last |-> now,
                   status |-> status, provider |-> f.provider],
         charged |-> IF short THEN f.balance + f.buffer ELSE net,
         fleetDelta |-> IF exhausted THEN - f.rate ELSE 0]

\* update_continuous_flow, on the in-memory copy of the stream.
RunsShort(s) == BufferShort(flow[s], NetAccumulation(s))
UpdateContinuousFlow(s) == Settle(flow[s], NetAccumulation(s))

\* fleet_apply_delta: a saturating sum that never goes below zero.
FleetApplyDelta(agg, delta) == Clamp(agg + delta)

\* Mutant: looks at the aggregate as it is, not as it will be.
FleetNotOverCap(p, rate) == rate <= 0 \/ fleet[p] <= cap[p]

\* fleet_assert_room_for_new_stream
FleetHasRoom(p, rate) == rate <= 0 \/ fleet[p] + rate <= cap[p]

\* History of a settlement that is stored: what it streamed, and that nothing is
\* due any more.
BookSettled(s, u) == [book[s] EXCEPT !["streamed"] = @ + u.charged, !["due"] = 0]

-----------------------------------------------------------------------------
(* Calls on streams *)

\* create_continuous_stream: a live stream under the same id is overwritten.
CreateContinuousStream(s, p, rate, initial) ==
    LET buffer == rate * BufferSeconds
        status == IF initial > 0 THEN "Active" ELSE "Paused"
    IN  /\ FleetHasRoom(p, rate)
        /\ book[s].credited + initial + buffer <= MaxCredited
        /\ flow' = [flow EXCEPT ![s] =
             [rate |-> rate, balance |-> initial, buffer |-> buffer,
              last |-> now, status |-> status, provider |-> p]]
        /\ fleet' = [fleet EXCEPT ![p] =
             IF status = "Active" THEN FleetApplyDelta(@, rate) ELSE @]
        /\ book' = [book EXCEPT
             ![s]["credited"] = @ + initial + buffer, ![s]["forfeited"] = @ + Held(s),
             ![s]["due"] = 0]
        /\ UNCHANGED <<now, cache, cap, feeBps, beat>>

\* add_continuous_balance: anyone may top up; nothing checks for depletion.
AddBalance(s, amount) ==
    LET u == UpdateContinuousFlow(s)
    IN  /\ Exists(s)
        /\ book[s].credited + amount <= MaxCredited
        /\ flow' = [flow EXCEPT ![s] =
             [u.flow EXCEPT !.balance = @ + amount,
                            !.status = IF u.flow.rate > 0 THEN "Active" ELSE @]]
        /\ cache' = CacheAfter(s)
        /\ fleet' = [fleet EXCEPT ![flow[s].provider] = FleetApplyDelta(@, u.fleetDelta)]
        /\ book' = [book EXCEPT ![s] = [BookSettled(s, u) EXCEPT !["credited"] = @ + amount]]
        /\ UNCHANGED <<now, cap, feeBps, beat>>

\* add_continuous_buffer
AddBuffer(s, amount) ==
    LET u == UpdateContinuousFlow(s)
    IN  /\ Exists(s)
        /\ book[s].credited + amount <= MaxCredited
        /\ flow' = [flow EXCEPT ![s] = [u.flow EXCEPT !.buffer = @ + amount]]
        /\ cache' = CacheAfter(s)
        /\ fleet' = [fleet EXCEPT ![flow[s].provider] = FleetApplyDelta(@, u.fleetDelta)]
        /\ book' = [book EXCEPT ![s] = [BookSettled(s, u) EXCEPT !["credited"] = @ + amount]]
        /\ UNCHANGED <<now, cap, feeBps, beat>>

\* withdraw_continuous: the balance only, after settlement.
WithdrawContinuous(s, amount) ==
    LET u == UpdateContinuousFlow(s)
        left == u.flow.balance - amount
    IN  /\ Exists(s)
        /\ left >= 0
        /\ flow' = [flow EXCEPT ![s] =
             [u.flow EXCEPT !.balance = left,
                            !.status = IF left = 0 /\ u.flow.buffer = 0
                                       THEN "Depleted" ELSE @]]
        /\ cache' = CacheAfter(s)
        /\ fleet' = [fleet EXCEPT ![flow[s].provider] = FleetApplyDelta(@, u.fleetDelta)]
        /\ book' = [book EXCEPT ![s] = [BookSettled(s, u) EXCEPT !["withdrawn"] = @ + amount]]
        /\ UNCHANGED <<now, cap, feeBps, beat>>

\* close_stream_amicably: the settled stream is stored only when it is still
\* flowing; otherwise refund_buffer reads the stream as it was before.
CloseStreamAmicably(s) ==
    LET u == UpdateContinuousFlow(s)
        flowing == u.flow.status = "Active" /\ u.flow.rate > 0
        stored == IF flowing THEN [u.flow EXCEPT !.rate = 0] ELSE flow[s]
        delta == IF flowing THEN - u.flow.rate ELSE u.fleetDelta
        settled == IF flowing THEN BookSettled(s, u) ELSE book[s]
    IN  /\ Exists(s)
        /\ ~RunsShort(s)
        /\ stored.status # "Depleted" /\ stored.buffer > 0
        /\ flow' = [flow EXCEPT ![s] =
             [stored EXCEPT !.buffer = 0, !.status = "Depleted"]]
        /\ cache' = CacheAfter(s)
        /\ fleet' = [fleet EXCEPT ![flow[s].provider] = FleetApplyDelta(@, delta)]
        /\ book' = [book EXCEPT ![s] = [settled EXCEPT !["refunded"] = @ + stored.buffer]]
        /\ UNCHANGED <<now, cap, feeBps, beat>>

\* get_buffer_balance settles a copy; only the buffer-short path stores it, yet
\* the temporary accumulation and the fleet aggregate change on every path.
GetBufferBalance(s) ==
    LET u == UpdateContinuousFlow(s)
    IN  /\ Exists(s)
        /\ flow' = [flow EXCEPT ![s] = IF RunsShort(s) THEN u.flow ELSE @]
        /\ cache' = CacheAfter(s)
        /\ fleet' = [fleet EXCEPT ![flow[s].provider] = FleetApplyDelta(@, u.fleetDelta)]
        /\ book' = [book EXCEPT ![s] = IF RunsShort(s) THEN BookSettled(s, u) ELSE @]
        /\ UNCHANGED <<now, cap, feeBps, beat>>

\* update_flow_rate, behind update_continuous_flow_rate and the public pause
\* (rate 0) and resume: the interval since the last settlement is not settled.
UpdateFlowRate(s, rate) ==
    LET f == flow[s]
        status == IF rate = 0 THEN "Paused"
                  ELSE IF f.status = "Paused" /\ Held(s) > 0 THEN "Active"
                  ELSE f.status
        counted == f.status # "Depleted" /\ status # "Depleted"
        delta == IF counted THEN rate - f.rate ELSE 0
    IN  /\ "update_flow_rate" \in GatedOps
        /\ Exists(s)
        /\ FleetHasRoom(f.provider, delta)
        /\ flow' = [flow EXCEPT ![s] = [f EXCEPT !.rate = rate, !.status = status]]
        /\ fleet' = [fleet EXCEPT ![f.provider] = FleetApplyDelta(@, delta)]
        /\ UNCHANGED <<now, cache, cap, feeBps, beat, book>>

\* pause_stream: settles, then stops the flow (even one just depleted).
PauseStream(s) ==
    LET u == UpdateContinuousFlow(s)
        settledFleet == FleetApplyDelta(fleet[flow[s].provider], u.fleetDelta)
    IN  /\ "pause_stream" \in GatedOps
        /\ flow[s].status = "Active"
        /\ flow' = [flow EXCEPT ![s] = [u.flow EXCEPT !.rate = 0, !.status = "Paused"]]
        /\ cache' = CacheAfter(s)
        /\ fleet' = [fleet EXCEPT ![flow[s].provider] =
                       FleetApplyDelta(settledFleet, - u.flow.rate)]
        /\ book' = [book EXCEPT ![s] = BookSettled(s, u)]
        /\ UNCHANGED <<now, cap, feeBps, beat>>

\* resume_stream: refused when both balances are empty.
ResumeStream(s, rate) ==
    LET f == flow[s]
    IN  /\ "pause_stream" \in GatedOps
        /\ f.status = "Paused" /\ Held(s) > 0
        /\ FleetHasRoom(f.provider, rate)
        /\ flow' = [flow EXCEPT ![s] =
             [f EXCEPT !.rate = rate, !.status = "Active", !.last = now]]
        /\ fleet' = [fleet EXCEPT ![f.provider] = FleetApplyDelta(@, rate)]
        /\ UNCHANGED <<now, cache, cap, feeBps, beat, book>>

-----------------------------------------------------------------------------
(* Device liveness, administration, time *)

\* stream_heartbeat: a signed beat stamps the current ledger.
StreamHeartbeat(s) ==
    /\ Exists(s)
    /\ beat' = [beat EXCEPT ![s] = now]
    /\ UNCHANGED <<now, flow, cache, fleet, cap, feeBps, book>>

\* Mutant: the tolerated silence is slashed for as well.
SlashShareOfAll(buffer, silent, threshold) == (buffer * silent) \div silent

\* The slash is in proportion to the silence beyond the threshold.
SlashShare(buffer, silent, threshold) ==
    (buffer * (silent - threshold)) \div silent

\* liveness_check_and_slash, with whatever threshold the caller names.
ApplyLivenessSlash(s, threshold) ==
    LET silent == now - beat[s]
        slash == SlashShare(flow[s].buffer, silent, threshold)
    IN  /\ Exists(s)
        /\ threshold > 0 /\ beat[s] # 0 /\ silent > threshold
        /\ flow' = [flow EXCEPT ![s].buffer = @ - slash]
        /\ book' = [book EXCEPT ![s]["slashed"] = @ + slash]
        /\ UNCHANGED <<now, cache, fleet, cap, feeBps, beat>>

\* set_provider_fleet_cap: the new cap may lie below the current aggregate.
SetFleetCap(p, c) ==
    /\ cap' = [cap EXCEPT ![p] = c]
    /\ UNCHANGED <<now, flow, cache, fleet, feeBps, beat, book>>

SetPlatformFeeBps(bps) ==
    /\ feeBps' = bps
    /\ UNCHANGED <<now, flow, cache, fleet, cap, beat, book>>

\* A ledger closes: temporary entries past their TTL are gone, and history
\* notes what every Active stream owes for the second that passed.
Tick ==
    /\ now < MaxTime
    /\ now' = now + 1
    /\ cache' = [s \in Streams |->
                   IF now' - cache[s].at > CacheTtl THEN NoCache ELSE cache[s]]
    /\ beat' = [s \in Streams |-> IF now' - beat[s] > HeartbeatTtl THEN 0 ELSE beat[s]]
    /\ book' = [s \in Streams |->
                  [book[s] EXCEPT !["due"] =
                     IF flow[s].status = "Active" THEN @ + flow[s].rate ELSE @]]
    /\ UNCHANGED <<flow, fleet, cap, feeBps>>

-----------------------------------------------------------------------------
Init ==
    /\ now = 1
    /\ flow = [s \in Streams |-> NoFlow]
    /\ cache = [s \in Streams |-> NoCache]
    /\ fleet = [p \in Providers |-> 0]
    /\ cap \in [Providers -> Caps]
    /\ feeBps = 0
    /\ beat = [s \in Streams |-> 0]
    /\ book = [s \in Streams |-> [c \in Causes |-> 0]]

StreamCall(s) ==
    \/ \E p \in Providers, r \in Rates, n \in Amounts \cup {0} :
         CreateContinuousStream(s, p, r, n)
    \/ \E n \in Amounts : AddBalance(s, n)
    \/ \E n \in Amounts : AddBuffer(s, n)
    \/ \E n \in Amounts : WithdrawContinuous(s, n)
    \/ CloseStreamAmicably(s)
    \/ GetBufferBalance(s)
    \/ \E r \in Rates \cup {0} : UpdateFlowRate(s, r)
    \/ PauseStream(s)
    \/ \E r \in Rates : ResumeStream(s, r)
    \/ StreamHeartbeat(s)
    \/ \E t \in 1 .. MaxTime : ApplyLivenessSlash(s, t)

Next ==
    \/ \E s \in Streams : StreamCall(s)
    \/ \E p \in Providers, c \in Caps : SetFleetCap(p, c)
    \/ \E b \in FeeSettings : SetPlatformFeeBps(b)
    \/ Tick

Spec == Init /\ [][Next]_vars

-----------------------------------------------------------------------------
(* Properties *)

StreamStatus == {"Active", "Paused", "Depleted"}
Flows ==
    [rate : Nat, balance : Nat, buffer : Nat, last : Nat,
     status : StreamStatus, provider : Providers]

\* Every stored number is one the code can store: balances, rates, aggregates
\* and cached accumulations of update_continuous_flow never go below zero.
TypeOK ==
    /\ now \in Nat \ {0}
    /\ flow \in [Streams -> Flows \cup {NoFlow}]
    /\ cache \in [Streams -> [acc : Nat, at : Nat] \cup {NoCache}]
    /\ fleet \in [Providers -> Nat]
    /\ cap \in [Providers -> Caps]
    /\ feeBps \in FeeSettings \cup {0}
    /\ beat \in [Streams -> Nat]
    /\ book \in [Streams -> [Causes -> Nat]]

Released(s) == book[s]["streamed"] + book[s]["withdrawn"] + book[s]["refunded"]
               + book[s]["slashed"] + book[s]["forfeited"]

\* Funds are conserved through every path of update_continuous_flow and its
\* callers: what a stream was credited is what it still holds plus what left it
\* as revenue, withdrawals, refunds, slashes or by being overwritten.
FundsConserved ==
    \A s \in Streams : book[s]["credited"] = Held(s) + Released(s)

\* A stream that is Active has funds behind it: every path that can empty the
\* balance and the buffer (settlement, withdrawal, slash) also depletes it.
ActiveIsFunded ==
    \A s \in Streams : flow[s].status = "Active" => Held(s) > 0

\* The fleet cap is checked before every growth of the aggregate, on creation,
\* resumption and rate increase alike, whatever order those calls come in.
FleetGrowsWithinCap ==
    [][\A p \in Providers : fleet'[p] > fleet[p] => fleet'[p] <= cap[p]]_vars

\* Each stream is an escrow account that never pays out more than it held.
Escrow == INSTANCE EscrowAccount WITH
    Accounts <- Streams,
    held     <- [s \in Streams |-> Held(s)],
    received <- [s \in Streams |-> book[s]["credited"]],
    released <- [s \in Streams |-> Released(s)]

ImplementsEscrow == Escrow!Spec

\* lib.rs:2746 promises "precise timestamp math", pause_resume_tests.rs:49 that
\* a paused stream is not charged: a settlement never charges more than the
\* rate in force times the seconds the stream was Active since the last one.
NeverOvercharged ==
    [][\A s \in Streams :
         book'[s]["streamed"] - book[s]["streamed"] <= book[s]["due"]]_vars

=============================================================================
