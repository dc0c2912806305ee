------------------------- MODULE MultiSigWithdrawal -------------------------
(***************************************************************************)
(* Withdrawals of a provider's earnings that a finance department must     *)
(* agree to: a wallet proposes one, others approve it, and once enough of  *)
(* the wallets configured at that moment have approved anybody can have it *)
(* executed.  Meanwhile the provider reconfigures the wallets, cancels     *)
(* requests and withdraws by itself, and users pay in.  One provider, one  *)
(* meter and one treasury; prices are not converted.                       *)
(***************************************************************************)
EXTENDS LedgerClock, Sequences, FiniteSets, Sums

CONSTANTS
    Wallets,         \* addresses that may become finance wallets
    WalletLists,     \* lists the provider submits, some of them refused
    RequiredCounts,  \* signature counts it submits
    Thresholds,      \* threshold amounts it submits
    WithdrawalAmounts, \* amounts proposed, withdrawn and paid in
    Earnings,        \* what the meter has earned at first
    MinWallets,      \* MIN_FINANCE_WALLETS (3)
    MaxWallets,      \* MAX_FINANCE_WALLETS (5)
    MinThreshold,    \* MIN_MULTISIG_THRESHOLD (2)
    Expiry,          \* WITHDRAWAL_REQUEST_EXPIRY (7 days)
    MaxRequests,     \* bound: requests ever made
    MaxHeld          \* bound: tokens the contract holds

ASSUME MultiSigAssumption ==
    /\ IsFiniteSet(Wallets) /\ WalletLists \subseteq Seq(Wallets)
    /\ RequiredCounts \subseteq Nat /\ Thresholds \subseteq Int /\ WithdrawalAmounts \subseteq Int
    /\ Earnings \in Nat /\ Expiry \in Nat
    /\ MinWallets \in Nat \ {0} /\ MaxWallets \in Nat /\ MinThreshold \in Nat \ {0}

VARIABLES
    config,    \* DataKey::MultiSigConfig, or Unset
    requests,  \* DataKey::WithdrawalRequest and WithdrawalApproval, in order of id
    meter,     \* the fields of Meter that withdrawals read and write
    held,      \* tokens the contract holds
    treasury   \* tokens the treasury has received

multiSigVars == <<config, requests, meter, held, treasury>>

Unset == [required |-> 0]
IsConfigured == config # Unset

-----------------------------------------------------------------------------
(* Configurations *)

Members(list) == {list[i] : i \in DOMAIN list}

\* minimum_multisig_threshold: half of the wallets, rounded up, and two at least.
MinimumThreshold(n) ==
    IF (n + 1) \div 2 > MinThreshold THEN (n + 1) \div 2 ELSE MinThreshold

\* validate_multisig_config
ValidConfig(list, required) ==
    /\ Len(list) \in MinWallets .. MaxWallets
    /\ \A i, j \in DOMAIN list : list[i] = list[j] => i = j
    /\ required \in MinimumThreshold(Len(list)) .. Len(list)

Config(list, required, threshold, active) ==
    [wallets |-> list, required |-> required, threshold |-> threshold, active |-> active]

\* configure_multisig_withdrawal: once, even after disable_multisig.
Configure(list, required, threshold) ==
    /\ ~IsConfigured
    /\ ValidConfig(list, required)
    /\ config' = Config(list, required, threshold, TRUE)
    /\ UNCHANGED <<now, requests, meter, held, treasury>>

\* update_multisig_config: what was disabled stays disabled.
UpdateConfig(list, required, threshold) ==
    /\ IsConfigured
    /\ ValidConfig(list, required)
    /\ config' = Config(list, required, threshold, config.active)
    /\ UNCHANGED <<now, requests, meter, held, treasury>>

DisableMultiSig ==
    /\ IsConfigured
    /\ config' = [config EXCEPT !.active = FALSE]
    /\ UNCHANGED <<now, requests, meter, held, treasury>>

-----------------------------------------------------------------------------
(* Requests *)

IsPending(r) == ~r.executed /\ ~r.cancelled
IsExpired(r) == now > r.expires

\* Wallets configured now that have approved.
Approving(r) == Members(config.wallets) \cap r.approvals

\* A request with these approvals, and their number noted in it.
Noted(r, approvals, count) == [r EXCEPT !.approvals = approvals, !.count = count]
Executed(r, count) == [Noted(r, r.approvals, count) EXCEPT !.executed = TRUE]

\* Only the first wallet of the list can sign a proposal.
Propose(amount) ==
    /\ IsConfigured /\ config.active
    /\ amount >= config.threshold
    /\ Len(requests) < MaxRequests
    /\ requests' = Append(requests,
         [amount |-> amount, expires |-> now + Expiry, count |-> 1,
          approvals |-> {config.wallets[1]}, executed |-> FALSE, cancelled |-> FALSE])
    /\ UNCHANGED <<now, config, meter, held, treasury>>

\* Mutant: a wallet may approve again.
ApproveAgain(id, wallet) ==
    /\ IsConfigured
    /\ IsPending(requests[id]) /\ ~IsExpired(requests[id])
    /\ wallet \in Members(config.wallets)
    /\ requests' = [requests EXCEPT ![id] = Noted(@, @.approvals \cup {wallet}, @.count + 1)]
    /\ UNCHANGED <<now, config, meter, held, treasury>>

Approve(id, wallet) ==
    /\ IsConfigured
    /\ IsPending(requests[id]) /\ ~IsExpired(requests[id])
    /\ wallet \in Members(config.wallets)
    /\ wallet \notin requests[id].approvals
    /\ requests' = [requests EXCEPT ![id] = Noted(@, @.approvals \cup {wallet}, @.count + 1)]
    /\ UNCHANGED <<now, config, meter, held, treasury>>

\* Only the first wallet of the list can revoke, and after the deadline too.
Revoke(id) ==
    /\ IsConfigured
    /\ IsPending(requests[id])
    /\ LET wallet == config.wallets[1]
       IN  /\ wallet \in requests[id].approvals
           /\ requests' = [requests EXCEPT ![id] = Noted(@, @.approvals \ {wallet}, @.count - 1)]
    /\ UNCHANGED <<now, config, meter, held, treasury>>

\* cancel_multisig_withdrawal, signed by the provider
Cancel(id) ==
    /\ IsPending(requests[id])
    /\ requests' = [requests EXCEPT ![id].cancelled = TRUE]
    /\ UNCHANGED <<now, config, meter, held, treasury>>

-----------------------------------------------------------------------------
(* Money *)

\* What can be withdrawn: the balance or the debt, by billing type.
Available(m) == IF m.billing = "PrePaid" THEN m.balance ELSE m.debt

\* refresh_activity of a meter that is not paused, disputed or closed.
RefreshActivity(m) ==
    [m EXCEPT !.active = IF m.billing = "PrePaid" THEN m.balance > 0
                         ELSE m.balance - m.debt > 0]

TakenFrom(m, amount) ==
    RefreshActivity(IF m.billing = "PrePaid" THEN [m EXCEPT !.balance = @ - amount]
                    ELSE [m EXCEPT !.debt = @ - amount])

\* Mutant: the count kept in the request is believed.
ExecuteOnCount(id) ==
    LET r == requests[id]
    IN  /\ IsConfigured
        /\ IsPending(r) /\ ~IsExpired(r)
        /\ r.count >= config.required
        /\ r.amount <= Available(meter)
        /\ r.amount \in 0 .. held
        /\ held' = held - r.amount
        /\ treasury' = treasury + r.amount
        /\ meter' = TakenFrom(meter, r.amount)
        /\ requests' = [requests EXCEPT ![id] = Executed(@, @.count)]
        /\ UNCHANGED <<now, config>>

\* Mutant: the request is not marked.
ExecuteUnmarked(id) ==
    LET r == requests[id]
    IN  /\ IsConfigured
        /\ IsPending(r) /\ ~IsExpired(r)
        /\ Cardinality(Approving(r)) >= config.required
        /\ r.amount <= Available(meter)
        /\ r.amount \in 0 .. held
        /\ held' = held - r.amount
        /\ treasury' = treasury + r.amount
        /\ meter' = TakenFrom(meter, r.amount)
        /\ UNCHANGED <<now, config, requests>>

\* execute_multisig_withdrawal, by anybody: approvals are counted among the
\* wallets configured now, and earnings are what they are now.  The token
\* refuses negative amounts and more than the contract holds.
Execute(id) ==
    LET r == requests[id]
    IN  /\ IsConfigured
        /\ IsPending(r) /\ ~IsExpired(r)
        /\ ValidConfig(config.wallets, config.required)
        /\ Cardinality(Approving(r)) >= config.required
        /\ r.amount <= Available(meter)
        /\ r.amount \in 0 .. held
        /\ held' = held - r.amount
        /\ treasury' = treasury + r.amount
        /\ meter' = TakenFrom(meter, r.amount)
        /\ requests' = [requests EXCEPT ![id] = Executed(@, Cardinality(Approving(r)))]
        /\ UNCHANGED <<now, config>>

\* Mutant: earnings are not looked at.
WithdrawHeld(amount) ==
    /\ amount > 0 /\ amount <= held
    /\ held' = held - amount
    /\ meter' = TakenFrom(meter, amount)
    /\ UNCHANGED <<now, config, requests, treasury>>

\* withdraw_earnings: the provider alone, any amount, whatever is configured.
WithdrawEarnings(amount) ==
    /\ amount > 0 /\ amount <= Available(meter) /\ amount <= held
    /\ held' = held - amount
    /\ meter' = TakenFrom(meter, amount)
    /\ UNCHANGED <<now, config, requests, treasury>>

\* top_up: a balance grows, a debt shrinks; what is beyond it is collateral.
TopUp(amount) ==
    /\ amount > 0
    /\ held + amount <= MaxHeld
    /\ held' = held + amount
    /\ meter' = RefreshActivity(
         IF meter.billing = "PrePaid" THEN [meter EXCEPT !.balance = @ + amount]
         ELSE [meter EXCEPT !.debt = @ - (IF amount < @ THEN amount ELSE @)])
    /\ UNCHANGED <<now, config, requests, treasury>>

-----------------------------------------------------------------------------
MultiSigInit ==
    /\ config = Unset
    /\ requests = <<>>
    /\ meter \in {[billing |-> "PrePaid", balance |-> Earnings, debt |-> 0,
                   active |-> Earnings > 0],
                  [billing |-> "PostPaid", balance |-> 0, debt |-> Earnings,
                   active |-> FALSE]}
    /\ held = Earnings
    /\ treasury = 0

MultiSigNext ==
    \/ \E list \in WalletLists, required \in RequiredCounts, threshold \in Thresholds :
         Configure(list, required, threshold) \/ UpdateConfig(list, required, threshold)
    \/ DisableMultiSig
    \/ \E amount \in WithdrawalAmounts :
         Propose(amount) \/ WithdrawEarnings(amount) \/ TopUp(amount)
    \/ \E id \in DOMAIN requests :
         \/ Revoke(id) \/ Cancel(id) \/ Execute(id)
         \/ \E wallet \in Wallets : Approve(id, wallet)
    \/ Tick /\ UNCHANGED multiSigVars

MultiSigSpec == now = 0 /\ MultiSigInit /\ [][MultiSigNext]_<<now, multiSigVars>>

-----------------------------------------------------------------------------
(* Properties *)

Configs ==
    [wallets : Seq(Wallets), required : Nat, threshold : Int, active : BOOLEAN]
Requests ==
    [amount : Int, expires : Nat, count : Nat, approvals : SUBSET Wallets,
     executed : BOOLEAN, cancelled : BOOLEAN]
Meters ==
    [billing : {"PrePaid", "PostPaid"}, balance : Int, debt : Int, active : BOOLEAN]

\* What is configured can reach its quorum, with no wallet counting twice, and
\* the contract never pays what it does not hold.
MultiSigTypeOK ==
    /\ now \in Nat /\ held \in Nat /\ treasury \in Nat
    /\ IsConfigured =>
         /\ config \in Configs
         /\ \A i, j \in DOMAIN config.wallets : i # j => config.wallets[i] # config.wallets[j]
         /\ config.required \in 1 .. Len(config.wallets)
    /\ requests \in Seq(Requests)
    /\ meter \in Meters

\* approval_count, which the wallets act on, is the number of approvals standing
\* on a request, whatever was approved, revoked, approved again and reconfigured.
ApprovalsAreCounted ==
    \A id \in DOMAIN requests :
        IsPending(requests[id]) => requests[id].count = Cardinality(requests[id].approvals)

\* Earnings are paid out once, whoever withdraws them, and in whatever order
\* requests and the provider's own withdrawals take their turns.
NotOverdrawn == Available(meter) >= 0

IdsExecuted == {id \in DOMAIN requests : requests[id].executed}
AmountOf == [id \in DOMAIN requests |-> requests[id].amount]

\* Every request that is executed was paid to the treasury exactly once.
PaidOnce == treasury = SumOf(AmountOf, IdsExecuted)

\* A request is executed on the approvals of at least half of the wallets that
\* are configured at that moment, and while it is valid: approvals of wallets
\* replaced since do not carry it.
ExecutedOnQuorum ==
    [][\A id \in DOMAIN requests :
         requests'[id].executed /\ ~requests[id].executed =>
           LET for == {w \in Members(config.wallets) : w \in requests[id].approvals}
           IN  /\ 2 * Cardinality(for) >= Cardinality(Members(config.wallets))
               /\ Cardinality(for) >= config.required
               /\ now <= requests[id].expires /\ ~requests[id].cancelled]_<<now, multiSigVars>>

=============================================================================
