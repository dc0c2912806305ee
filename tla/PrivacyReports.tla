---------------------------- MODULE PrivacyReports ----------------------------
(***************************************************************************)
(* Usage reported in private: a device makes a report with a nullifier of  *)
(* its meter and the second, the network delivers it late, twice or never, *)
(* and the contract counts it unless its nullifier was used.  The proof is *)
(* left out: verify_groth16_proof refuses only a hash of all zeros.        *)
(***************************************************************************)
EXTENDS LedgerClock, Sequences, FiniteSets

CONSTANTS
    PrivateMeters,  \* meters
    ReportUnits,    \* units in a report
    MaxReports      \* bound: reports made

ASSUME PrivacyAssumption == MaxReports \in Nat

VARIABLES
    privacy,           \* PrivateBillingStatus of each meter, or NoPrivacy
    zkMeters,          \* ZKEnabledMeters, a list that only grows
    verificationKeys,  \* meters with a ZKVerificationKey
    nullifiers,        \* NullifierMap
    reports,           \* the reports the devices made, all still on the network
    counted            \* the reports counted, in order (history)

privacyVars == <<privacy, zkMeters, verificationKeys, nullifiers, reports, counted>>

NoPrivacy == [enabled |-> FALSE, verified |-> 0]

\* The device hashes meter and second.
Nullifier(report) == <<report.meter, report.at>>

-----------------------------------------------------------------------------
\* generateZkUsageData: two reports of one second share their nullifier.
GenerateReport(m, units) ==
    /\ Cardinality(reports) < MaxReports
    /\ reports' = reports \cup {[meter |-> m, at |-> now, units |-> units]}
    /\ UNCHANGED <<privacy, zkMeters, verificationKeys, nullifiers, counted>>

\* Mutant: enabling forgets the meter's nullifiers together with its counts.
EnableAfresh(m) ==
    /\ zkMeters' = IF m \in {zkMeters[i] : i \in DOMAIN zkMeters}
                   THEN zkMeters ELSE Append(zkMeters, m)
    /\ privacy' = [privacy EXCEPT ![m] = [enabled |-> TRUE, verified |-> 0]]
    /\ nullifiers' = {n \in nullifiers : n[1] # m}
    /\ UNCHANGED <<verificationKeys, reports, counted>>

\* enable_privacy_mode, by the user: the counts start again.
EnablePrivacy(m) ==
    /\ zkMeters' = IF m \in {zkMeters[i] : i \in DOMAIN zkMeters}
                   THEN zkMeters ELSE Append(zkMeters, m)
    /\ privacy' = [privacy EXCEPT ![m] = [enabled |-> TRUE, verified |-> 0]]
    /\ UNCHANGED <<verificationKeys, nullifiers, reports, counted>>

\* disable_privacy_mode, by the user: the list keeps the meter.
DisablePrivacy(m) ==
    /\ privacy' = [privacy EXCEPT ![m].enabled = FALSE]
    /\ UNCHANGED <<zkMeters, verificationKeys, nullifiers, reports, counted>>

\* set_zk_verification_key, by the provider.
SetVerificationKey(m) ==
    /\ verificationKeys' = verificationKeys \cup {m}
    /\ UNCHANGED <<privacy, zkMeters, nullifiers, reports, counted>>

\* submit_zk_usage_report, of a report delivered for the first or another time.
SubmitZkReport(report) ==
    LET m == report.meter
    IN  /\ privacy[m].enabled
        /\ Nullifier(report) \notin nullifiers
        /\ m \in verificationKeys
        /\ nullifiers' = nullifiers \cup {Nullifier(report)}
        /\ privacy' = [privacy EXCEPT ![m].verified = @ + 1]
        /\ counted' = Append(counted, report)
        /\ UNCHANGED <<zkMeters, verificationKeys, reports>>

-----------------------------------------------------------------------------
PrivacyInit ==
    /\ privacy = [m \in PrivateMeters |-> NoPrivacy]
    /\ zkMeters = <<>> /\ verificationKeys = {} /\ nullifiers = {}
    /\ reports = {} /\ counted = <<>>

PrivacyStep ==
    \/ \E m \in PrivateMeters : EnablePrivacy(m) \/ DisablePrivacy(m) \/ SetVerificationKey(m)
    \/ \E m \in PrivateMeters, n \in ReportUnits : GenerateReport(m, n)
    \/ \E r \in reports : SubmitZkReport(r)

PrivacyNext ==
    \/ PrivacyStep /\ UNCHANGED now
    \/ Tick /\ UNCHANGED privacyVars

PrivacySpec == now = 0 /\ PrivacyInit /\ [][PrivacyNext]_<<now, privacyVars>>

-----------------------------------------------------------------------------
CountedOf(m) == {i \in DOMAIN counted : counted[i].meter = m}

\* A report delivered twice, or after privacy was switched off and on again,
\* is counted once; of two reports of one second only one is.
CountedOnce ==
    \A i, j \in DOMAIN counted :
      Nullifier(counted[i]) = Nullifier(counted[j]) => i = j

\* The nullifiers are those of what was counted, whatever else was sent.
NullifiersAreCounted == nullifiers = {Nullifier(counted[i]) : i \in DOMAIN counted}

\* A meter shows no more reports than were counted for it, and one whose mode
\* is on is in the list, once.
StatusMatchesList ==
    \A m \in PrivateMeters :
      /\ privacy[m].verified <= Cardinality(CountedOf(m))
      /\ Cardinality({i \in DOMAIN zkMeters : zkMeters[i] = m}) <= 1
      /\ privacy[m].enabled => \E i \in DOMAIN zkMeters : zkMeters[i] = m

\* Private usage is counted at most once and told by the status.
PrivacyInv == CountedOnce /\ NullifiersAreCounted /\ StatusMatchesList

=============================================================================
