----------------------------- MODULE GuarantorDebt -----------------------------
(***************************************************************************)
(* Collateral behind post-paid meters: an owner locks tokens, debt accrues *)
(* against them, and a debt that reaches them takes them all, closes the   *)
(* owner's post-paid meters and pays one of their providers.  The contract *)
(* holds tokens for other purposes too, and a slash draws on all it holds  *)
(* of its token.  A call that panics is no step; owners are never short of *)
(* tokens.                                                                 *)
(***************************************************************************)
EXTENDS LedgerClock, Sums

CONSTANTS
    Owners,             \* consumers with post-paid meters
    CollateralTokens,   \* tokens deposited as collateral
    NoToken,
    PostpaidMeters,     \* numbers of the post-paid meters, from 1
    MeterOwner,         \* the user of each
    MeterProvider,      \* the provider of each
    DebtAmounts,        \* amounts locked, billed and paid
    MarginBps,          \* MARGIN_CALL_THRESHOLD_BPS (8000)
    SlashBps,           \* SLASH_THRESHOLD_BPS (10000)
    OtherFunds,         \* of each collateral token, what the contract holds besides
    MaxLocked           \* bound: what an owner locks, owes or has paid

ASSUME GuarantorAssumption ==
    /\ PostpaidMeters \subseteq Nat /\ IsFiniteSet(PostpaidMeters) /\ IsFiniteSet(Owners)
    /\ NoToken \notin CollateralTokens /\ IsFiniteSet(CollateralTokens)
    /\ MeterOwner \in [PostpaidMeters -> Owners]
    /\ MarginBps \in Nat /\ SlashBps \in Nat \ {0} /\ SlashBps <= 10000
    /\ DebtAmounts \subseteq Int /\ OtherFunds \in Nat /\ MaxLocked \in Nat

VARIABLES
    deposits,      \* GuarantorDeposit of each owner
    meterStatus,   \* "none", "active", "inactive" or "closed"
    held,          \* what the contract holds of each collateral token
    providerPaid,  \* collateral each provider was paid
    settled,       \* debt owners have paid themselves (history)
    unassigned     \* collateral taken with no provider to pay (history)

guarantorVars == <<deposits, meterStatus, held, providerPaid, settled, unassigned>>

Providers == {MeterProvider[m] : m \in PostpaidMeters}

NoDeposit == [token |-> NoToken, locked |-> 0, debt |-> 0, warned |-> FALSE, slashed |-> FALSE]

\* What the contract holds of each token before anything is locked.
OthersOf == [t \in CollateralTokens |-> OtherFunds]

ActiveMetersOf(o) == {m \in PostpaidMeters : MeterOwner[m] = o /\ meterStatus[m] = "active"}

\* Debt in basis points of the collateral.
DebtRatio(debt, locked) == IF locked > 0 THEN (debt * 10000) \div locked ELSE 10000

-----------------------------------------------------------------------------
\* register_meter_with_mode, of a post-paid meter; and its activity, which
\* payments, readings and pauses change (MeterBilling).
RegisterPostpaid(m) ==
    /\ meterStatus[m] = "none"
    /\ meterStatus' = [meterStatus EXCEPT ![m] = "active"]
    /\ UNCHANGED <<deposits, held, providerPaid, settled, unassigned>>

RefreshPostpaid(m) ==
    /\ meterStatus[m] \in {"active", "inactive"}
    /\ meterStatus' =
         [meterStatus EXCEPT ![m] = IF @ = "active" THEN "inactive" ELSE "active"]
    /\ UNCHANGED <<deposits, held, providerPaid, settled, unassigned>>

Locked(d, t, amount) ==
    [d EXCEPT !.token = IF @ = NoToken THEN t ELSE @, !.locked = @ + amount]

Billed(d, debt) ==
    [d EXCEPT !.debt = debt, !.warned = @ \/ DebtRatio(debt, d.locked) >= MarginBps]

Slashed(d, debt) == [d EXCEPT !.debt = debt, !.locked = 0, !.slashed = TRUE]

Repaid(d, paid) == [d EXCEPT !.debt = @ - paid, !.warned = FALSE]

\* lock_guarantor_deposit: the first token names the deposit, later amounts are
\* added in whatever token they come.
LockDeposit(o, t, amount) ==
    /\ amount > 0
    /\ ~deposits[o].slashed
    /\ deposits[o].locked + amount <= MaxLocked
    /\ held' = [held EXCEPT ![t] = @ + amount]
    /\ deposits' = [deposits EXCEPT ![o] = Locked(@, t, amount)]
    /\ UNCHANGED <<meterStatus, providerPaid, settled, unassigned>>

Reached(debt, locked) == DebtRatio(debt, locked) >= SlashBps

\* accrue_postpaid_debt, below the slash threshold.
AccrueDebt(o, amount) ==
    LET debt == deposits[o].debt + amount
    IN  /\ amount > 0
        /\ deposits[o].token # NoToken /\ ~deposits[o].slashed
        /\ ~Reached(debt, deposits[o].locked)
        /\ deposits' = [deposits EXCEPT ![o] = Billed(@, debt)]
        /\ UNCHANGED <<meterStatus, held, providerPaid, settled, unassigned>>

\* Mutant: the search for the provider stops at the first meter.
ClosedFirst(o) == {m \in ActiveMetersOf(o) : \A n \in ActiveMetersOf(o) : m <= n}

\* The active post-paid meters of the owner, all of them.
Closed(o) == ActiveMetersOf(o)

\* accrue_postpaid_debt, at the threshold: the collateral goes to the provider
\* of the last meter closed, or stays where it is when there is none.  It is
\* paid in the token the deposit is named for, whatever came in: the token's own
\* balance check is all that stops a slash from taking the other funds.
SlashDeposit(o, amount) ==
    LET debt  == deposits[o].debt + amount
        taken == deposits[o].locked
        token == deposits[o].token
    IN  /\ amount > 0
        /\ token # NoToken /\ ~deposits[o].slashed
        /\ Reached(debt, taken)
        /\ debt <= 2 * MaxLocked
        /\ deposits' = [deposits EXCEPT ![o] = Slashed(@, debt)]
        /\ meterStatus' = [m \in PostpaidMeters |->
                             IF m \in Closed(o) THEN "closed" ELSE meterStatus[m]]
        /\ IF Closed(o) = {}
           THEN /\ unassigned' = unassigned + taken
                /\ UNCHANGED <<held, providerPaid>>
           ELSE /\ held[token] >= taken
                /\ held' = [held EXCEPT ![token] = @ - taken]
                /\ \E last \in Closed(o) :
                     /\ \A m \in Closed(o) : m <= last
                     /\ providerPaid' = [providerPaid EXCEPT ![MeterProvider[last]] = @ + taken]
                /\ UNCHANGED unassigned
        /\ UNCHANGED settled

\* Mutant: the whole payment is taken off the debt, also beyond it.
SettlePayment(o, payment) ==
    LET d == deposits[o]
        settlement == Smaller(payment, d.debt)
    IN  /\ d.token # NoToken /\ ~d.slashed /\ settlement > 0
        /\ settled + settlement <= 2 * MaxLocked
        /\ held' = [held EXCEPT ![d.token] = @ + settlement]
        /\ settled' = settled + settlement
        /\ deposits' = [deposits EXCEPT ![o] = Repaid(@, payment)]
        /\ UNCHANGED <<meterStatus, providerPaid, unassigned>>

\* settle_postpaid_debt: what is paid stays with the contract.
SettleDebt(o, payment) ==
    LET d == deposits[o]
        settlement == Smaller(payment, d.debt)
    IN  /\ d.token # NoToken /\ ~d.slashed /\ settlement > 0
        /\ settled + settlement <= 2 * MaxLocked
        /\ held' = [held EXCEPT ![d.token] = @ + settlement]
        /\ settled' = settled + settlement
        /\ deposits' = [deposits EXCEPT ![o] = Repaid(@, settlement)]
        /\ UNCHANGED <<meterStatus, providerPaid, unassigned>>

-----------------------------------------------------------------------------
GuarantorInit ==
    /\ deposits = [o \in Owners |-> NoDeposit]
    /\ meterStatus = [m \in PostpaidMeters |-> "none"]
    /\ held = OthersOf
    /\ providerPaid = [p \in Providers |-> 0]
    /\ settled = 0 /\ unassigned = 0

GuarantorStep ==
    \/ \E m \in PostpaidMeters : RegisterPostpaid(m) \/ RefreshPostpaid(m)
    \/ \E o \in Owners, t \in CollateralTokens, n \in DebtAmounts : LockDeposit(o, t, n)
    \/ \E o \in Owners, n \in DebtAmounts :
         AccrueDebt(o, n) \/ SlashDeposit(o, n) \/ SettleDebt(o, n)

GuarantorNext == GuarantorStep /\ UNCHANGED now

GuarantorSpec == now = 0 /\ GuarantorInit /\ [][GuarantorNext]_<<now, guarantorVars>>

-----------------------------------------------------------------------------
GuarantorTypeOK ==
    /\ deposits \in [Owners -> [token : CollateralTokens \cup {NoToken}, locked : Nat,
                                debt : Nat, warned : BOOLEAN, slashed : BOOLEAN]]
    /\ meterStatus \in [PostpaidMeters -> {"none", "active", "inactive", "closed"}]
    /\ held \in [CollateralTokens -> Nat]
    /\ providerPaid \in [Providers -> Nat]
    /\ settled \in Nat /\ unassigned \in Nat

\* A deposit that is not slashed is worth more than the debt drawn against it,
\* however deposits, bills and payments alternate.
DepositCoversDebt ==
    \A o \in Owners : LET d == deposits[o] IN
        d.token # NoToken /\ ~d.slashed => d.debt < d.locked

\* What each owner has locked.
LockedOf == [o \in Owners |-> deposits[o].locked]

\* All tokens together, what the contract holds is its other funds and what is
\* locked, paid by an owner to settle, or taken from an owner without a meter to
\* bill.  Of one token alone this is not so: a slash pays in the first token what
\* was locked in several.
CollateralAccounted ==
    SumOf(held, CollateralTokens) =
      SumOf(OthersOf, CollateralTokens) + SumOf(LockedOf, Owners) + settled + unassigned

\* Slashing ends the service it was locked for: no post-paid meter of the owner
\* goes on, no other owner's stops, and a provider is paid only for a meter that
\* was closed.
SlashEndsService ==
    [][\A o \in Owners : deposits'[o].slashed /\ ~deposits[o].slashed =>
         /\ \A m \in PostpaidMeters : MeterOwner[m] = o => meterStatus'[m] # "active"
         /\ \A m \in PostpaidMeters : MeterOwner[m] # o => meterStatus'[m] = meterStatus[m]
         /\ \A p \in Providers : providerPaid'[p] # providerPaid[p] =>
              \E m \in PostpaidMeters : /\ MeterProvider[m] = p /\ MeterOwner[m] = o
                                        /\ meterStatus'[m] = "closed"]_guarantorVars

\* Deposits are sound: typed, above their debts, and to be found in the contract.
GuarantorInv == GuarantorTypeOK /\ DepositCoversDebt /\ CollateralAccounted

=============================================================================
