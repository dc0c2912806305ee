----------------------------- MODULE EnergyExchange -----------------------------
(***************************************************************************)
(* Exchanges between two peers: a supplier's surplus becomes credit in a   *)
(* vault, up to a cap both agree on for the exchange, a deficit is taken   *)
(* out of it, and the consumer pays a grid fee on the volume.              *)
(***************************************************************************)
EXTENDS LedgerClock

CONSTANTS
    EnergyRates,   \* supply and demand rates, tokens per second
    Durations,     \* seconds exchanged
    GridFees,      \* grid_fee_bps
    BatteryCaps,   \* battery_credit_cap
    ConsumerFunds  \* what the consumer can pay in fees

ASSUME ExchangeAssumption ==
    /\ EnergyRates \subseteq Int /\ Durations \subseteq Int /\ GridFees \subseteq Int
    /\ BatteryCaps \subseteq Int /\ ConsumerFunds \in Nat

VARIABLES
    vault,       \* P2PCreditVault of the supplier
    feesPaid,    \* grid fees the treasury received
    reported,    \* sum of the credits the exchanges reported (history)
    highestCap,  \* the highest cap so far, at least 0 (history)
    lowestCap    \* the lowest cap so far, at most 0 (history)

exchangeVars == <<vault, feesPaid, reported, highestCap, lowestCap>>

\* p2p_net_flow_amount
NetFlow(supply, demand, seconds) == (supply - demand) * seconds

Volume(gross) == IF gross < 0 THEN - gross ELSE gross

GridFee(gross, bps) == (Volume(gross) * bps) \div 10000

\* Mutant: the credit of a surplus is capped by itself.
VaultCreditUnderCap(surplus, cap) ==
    CASE surplus > 0 -> Smaller(surplus, cap)
      [] surplus < 0 -> - Smaller(- surplus, vault)
      [] OTHER       -> 0

\* What an exchange adds to the vault: a surplus as far as there is room, which
\* is less than nothing when the vault holds more than the cap; a deficit as far
\* as the vault holds it; a balanced exchange nothing, also below zero.
VaultCredit(surplus, cap) ==
    CASE surplus > 0 -> Smaller(surplus, cap - vault)
      [] surplus < 0 -> - Smaller(- surplus, vault)
      [] OTHER       -> 0

RecordCap(cap) ==
    /\ highestCap' = Larger(highestCap, cap)
    /\ lowestCap' = Smaller(lowestCap, cap)

\* p2p_finalize_exchange, signed by both peers.
FinalizeExchange(supply, demand, seconds, bps, cap) ==
    LET gross  == NetFlow(supply, demand, seconds)
        fee    == GridFee(gross, bps)
        credit == VaultCredit(gross - fee, cap)
    IN  /\ bps \in 0 .. 10000 /\ seconds > 0
        /\ feesPaid + fee <= ConsumerFunds
        /\ vault' = vault + credit
        /\ reported' = reported + credit
        /\ feesPaid' = feesPaid + fee
        /\ RecordCap(cap)

-----------------------------------------------------------------------------
ExchangeInit == vault = 0 /\ feesPaid = 0 /\ reported = 0 /\ highestCap = 0 /\ lowestCap = 0

ExchangeNext ==
    /\ \E s, d \in EnergyRates, t \in Durations, b \in GridFees, c \in BatteryCaps :
         FinalizeExchange(s, d, t, b, c)
    /\ UNCHANGED now

ExchangeSpec == now = 0 /\ ExchangeInit /\ [][ExchangeNext]_<<now, exchangeVars>>

-----------------------------------------------------------------------------
\* enterprise.rs:172 "cap vault to prevent inflation when battery full": no
\* sequence of surpluses and deficits, under whatever caps, leaves more in the
\* vault than the highest cap agreed on; its owner owes only what an exchange
\* under a cap below zero made it owe.
VaultWithinCap == lowestCap <= vault /\ vault <= highestCap

\* What the exchanges report as credited adds up to what the vault holds.
CreditsAddUp == reported = vault

\* The vault holds what was reported, within the caps.
ExchangeInv == VaultWithinCap /\ CreditsAddUp

=============================================================================
