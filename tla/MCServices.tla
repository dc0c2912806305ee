----------------------------- MODULE MCServices -----------------------------
(***************************************************************************)
(* The services around the meters, side by side: they share the clock and  *)
(* nothing else, so a behaviour of them all is one of each, and            *)
(* `facility', chosen at the start, says whose steps are taken.            *)
(***************************************************************************)
EXTENDS TLC, GuarantorDebt, ServiceLevel, ConservationGrant, DeviceBinding, Funds,
        SettlementProposals, PrivacyReports, WeightedRate

CONSTANTS o1, o2, p1, p2

VARIABLE facility

vars == <<now, facility, guarantorVars, slaVars, grantVars, deviceVars, exchangeVars,
          proposalVars, privacyVars, rateVars, reserveVars>>

Init ==
    /\ now = 0
    /\ facility \in {"guarantor", "sla", "grant", "device", "exchange", "proposal",
                    "privacy", "rates", "reserves"}
    /\ GuarantorInit /\ SlaInit /\ GrantInit /\ DeviceInit /\ ExchangeInit /\ ProposalInit
    /\ PrivacyInit /\ RateInit /\ ReservesInit
    /\ facility # "grant" => ~reentry
    /\ facility # "device" => \A m \in DeviceMeters : userOf[m] = o1

Next ==
    /\ UNCHANGED facility
    /\ \/ /\ facility = "guarantor" /\ GuarantorNext
          /\ UNCHANGED <<slaVars, grantVars, deviceVars, exchangeVars, proposalVars, privacyVars,
                         rateVars, reserveVars>>
       \/ /\ facility = "sla" /\ SlaNext
          /\ UNCHANGED <<guarantorVars, grantVars, deviceVars, exchangeVars, proposalVars, privacyVars,
                         rateVars, reserveVars>>
       \/ /\ facility = "grant" /\ GrantNext
          /\ UNCHANGED <<guarantorVars, slaVars, deviceVars, exchangeVars, proposalVars, privacyVars,
                         rateVars, reserveVars>>
       \/ /\ facility = "device" /\ DeviceNext
          /\ UNCHANGED <<guarantorVars, slaVars, grantVars, exchangeVars, proposalVars, privacyVars,
                         rateVars, reserveVars>>
       \/ /\ facility = "exchange" /\ ExchangeNext
          /\ UNCHANGED <<guarantorVars, slaVars, grantVars, deviceVars, proposalVars, privacyVars,
                         rateVars, reserveVars>>
       \/ /\ facility = "proposal" /\ ProposalNext
          /\ UNCHANGED <<guarantorVars, slaVars, grantVars, deviceVars, exchangeVars, privacyVars,
                         rateVars, reserveVars>>
       \/ /\ facility = "privacy" /\ PrivacyNext
          /\ UNCHANGED <<guarantorVars, slaVars, grantVars, deviceVars, exchangeVars, proposalVars,
                         rateVars, reserveVars>>
       \/ /\ facility = "rates" /\ RateNext
          /\ UNCHANGED <<guarantorVars, slaVars, grantVars, deviceVars, exchangeVars, proposalVars,
                         privacyVars, reserveVars>>
       \/ /\ facility = "reserves" /\ ReservesNext
          /\ UNCHANGED <<guarantorVars, slaVars, grantVars, deviceVars, exchangeVars, proposalVars,
                         privacyVars, rateVars>>

Spec == Init /\ [][Next]_vars

\* Two owners; the first has two post-paid meters, of two providers.
OwnerOfMeter == (1 :> o1) @@ (2 :> o1) @@ (3 :> o2)
ProviderOfMeter == (1 :> p1) @@ (2 :> p2) @@ (3 :> p1)

\* Two intervals that overlap.
ReportedIntervals == {<<0, 2>>, <<1, 2>>}

\* A cap below zero is as legal as one above.
Caps == {-1, 2, 3}

\* The admin may ask for a threshold below zero, and is refused.
RoutingThresholds == {-1, 0, 3}

=============================================================================
