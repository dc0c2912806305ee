----------------------------- MODULE MCControls -----------------------------
(***************************************************************************)
(* The facilities that control the utility contract and what is paid out   *)
(* of it, and the resource token, side by side: they share the clock and   *)
(* nothing else, so a behaviour of them all is one of each, and            *)
(* `facility', chosen at the start, says whose steps are taken.            *)
(***************************************************************************)
EXTENDS UpgradeGovernance, AdminTransfer, NonceSync, TariffOracle, VelocityLimit,
        ResourceToken, MultiSigWithdrawal

CONSTANTS w1, w2, w3, w4

VARIABLE facility

vars == <<now, facility, upgradeVars, transferVars, nonceVars, tariffVars, velocityVars,
          tokenVars, multiSigVars>>

Init ==
    /\ now = 0
    /\ facility \in {"upgrade", "transfer", "nonce", "tariff", "velocity", "token", "multisig"}
    /\ UpgradeInit /\ TransferInit /\ NonceInit /\ TariffInit /\ VelocityInit
    /\ TokenInit /\ MultiSigInit
    /\ facility # "token" => legacy = Empty
    /\ facility # "multisig" => meter.billing = "PrePaid"

Next ==
    /\ UNCHANGED facility
    /\ \/ /\ facility = "upgrade" /\ UpgradeNext
          /\ UNCHANGED <<transferVars, nonceVars, tariffVars, velocityVars, tokenVars,
                         multiSigVars>>
       \/ /\ facility = "transfer" /\ TransferNext
          /\ UNCHANGED <<upgradeVars, nonceVars, tariffVars, velocityVars, tokenVars,
                         multiSigVars>>
       \/ /\ facility = "nonce" /\ NonceNext
          /\ UNCHANGED <<upgradeVars, transferVars, tariffVars, velocityVars, tokenVars,
                         multiSigVars>>
       \/ /\ facility = "tariff" /\ TariffNext
          /\ UNCHANGED <<upgradeVars, transferVars, nonceVars, velocityVars, tokenVars,
                         multiSigVars>>
       \/ /\ facility = "velocity" /\ VelocityNext
          /\ UNCHANGED <<upgradeVars, transferVars, nonceVars, tariffVars, tokenVars,
                         multiSigVars>>
       \/ /\ facility = "token" /\ TokenNext
          /\ UNCHANGED <<upgradeVars, transferVars, nonceVars, tariffVars, velocityVars,
                         multiSigVars>>
       \/ /\ facility = "multisig" /\ MultiSigNext
          /\ UNCHANGED <<upgradeVars, transferVars, nonceVars, tariffVars, velocityVars,
                         tokenVars>>

Spec == Init /\ [][Next]_vars

\* A caller of a reset names no earlier approver, or one.
OneListed == {<<>>} \cup {<<r>> : r \in Resetters}

\* A list of three wallets, one that replaces a wallet and puts another first,
\* one with a wallet twice and one too short.
FourWallets == {w1, w2, w3, w4}
ListsOfWallets == {<<w1, w2, w3>>, <<w4, w3, w1>>, <<w1, w1, w2>>, <<w1, w2>>}

\* A negative amount is refused.
AmountsWithdrawn == {-1, 2}

=============================================================================
