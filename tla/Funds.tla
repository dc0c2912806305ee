-------------------------------- MODULE Funds --------------------------------
(***************************************************************************)
(* What the contract keeps for others outside the meters: the vaults of    *)
(* exchanges between peers, and buffers, reserves and what is routed.      *)
(* The two share the clock only.                                           *)
(***************************************************************************)
EXTENDS EnergyExchange, Reserves

FundsInit == now = 0 /\ ExchangeInit /\ ReservesInit

FundsNext ==
    \/ ExchangeNext /\ UNCHANGED reserveVars
    \/ ReservesNext /\ UNCHANGED exchangeVars

FundsSpec == FundsInit /\ [][FundsNext]_<<now, exchangeVars, reserveVars>>

\* What the contract keeps in vaults, buffers and reserves is accounted for.
FundsInv == ExchangeInv /\ ReserveInv

=============================================================================
