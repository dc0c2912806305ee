------------------------------ MODULE ServiceLevel ------------------------------
(***************************************************************************)
(* Downtime of one meter: trusted nodes report intervals, the second       *)
(* report of the same interval adds its length to the meter's downtime,    *)
(* and claims are reduced once the downtime reaches the threshold of the   *)
(* meter's agreement.  Reports are counted in temporary entries, which the *)
(* host drops when their time to live ends: the count with the first key   *)
(* of its interval, before the keys of later reports.                      *)
(***************************************************************************)
EXTENDS LedgerClock, FiniteSetsExt

CONSTANTS
    SlaNodes,       \* monitoring nodes
    Intervals,      \* intervals reported, <<start_time, end_time>>
    Thresholds,     \* threshold_seconds asked for
    MinThreshold,   \* MIN_THRESHOLD_SECONDS (60)
    SlaQuorum,      \* reports that make an interval count (2)
    MaxCredits      \* bound: times an interval is counted

ASSUME ServiceLevelAssumption ==
    /\ IsFiniteSet(SlaNodes) /\ IsFiniteSet(Intervals) /\ Intervals \subseteq Nat \X Nat
    /\ Thresholds \subseteq Nat /\ MinThreshold \in Nat \ {0}
    /\ SlaQuorum \in Nat \ {0} /\ MaxCredits \in Nat

VARIABLES
    trusted,      \* SLANode
    reportKeys,   \* SLAReportNode: "none", "current" or "old" (before the count)
    reportCount,  \* SLAReportCount
    sla,          \* sla_config and sla_state of the meter
    witnesses,    \* nodes that have reported each interval (history)
    credits       \* times each interval was added to the downtime (history)

slaVars == <<trusted, reportKeys, reportCount, sla, witnesses, credits>>

Length(i) == i[2] - i[1]

\* The threshold when sla_config is absent.
NoAgreement == 0

\* What deduct_units and claim ask before they reduce what they charge.
Penalised == sla.threshold # NoAgreement /\ sla.downtime >= sla.threshold

-----------------------------------------------------------------------------
\* add_sla_node, remove_sla_node: signed by whoever calls itself admin.
AddNode(n) ==
    /\ trusted' = trusted \cup {n}
    /\ UNCHANGED <<reportKeys, reportCount, sla, witnesses, credits>>

RemoveNode(n) ==
    /\ trusted' = trusted \ {n}
    /\ UNCHANGED <<reportKeys, reportCount, sla, witnesses, credits>>

\* set_sla_config, by the provider: the downtime so far stands.
SetAgreement(threshold) ==
    /\ threshold >= MinThreshold
    /\ sla' = [sla EXCEPT !.threshold = threshold]
    /\ UNCHANGED <<trusted, reportKeys, reportCount, witnesses, credits>>

Credit(i) == [sla EXCEPT !.downtime = @ + Length(i)]

\* Mutant: the key of the node is set with the count that completes the quorum.
ReportUnkeyed(n, i) ==
    /\ n \in trusted /\ Length(i) > 0
    /\ reportKeys[i][n] = "none"
    /\ reportCount[i] < Cardinality(SlaNodes)
    /\ reportCount' = [reportCount EXCEPT ![i] = @ + 1]
    /\ reportKeys' = [reportKeys EXCEPT ![i][n] =
                        IF reportCount[i] + 1 >= SlaQuorum THEN "current" ELSE @]
    /\ sla' = IF reportCount[i] + 1 = SlaQuorum THEN Credit(i) ELSE sla
    /\ credits' = [credits EXCEPT ![i] = IF reportCount[i] + 1 = SlaQuorum THEN @ + 1 ELSE @]
    /\ witnesses' = [witnesses EXCEPT ![i] = @ \cup {n}]
    /\ UNCHANGED trusted

\* submit_sla_report, of a trusted node that has no key for the interval; the
\* interval is that of the report, whenever it is submitted.
SubmitReport(n, i) ==
    /\ n \in trusted /\ Length(i) > 0
    /\ reportKeys[i][n] = "none"
    /\ credits[i] < MaxCredits
    /\ reportKeys' = [reportKeys EXCEPT ![i][n] = "current"]
    /\ reportCount' = [reportCount EXCEPT ![i] = @ + 1]
    /\ sla' = IF reportCount[i] + 1 = SlaQuorum THEN Credit(i) ELSE sla
    /\ credits' = [credits EXCEPT ![i] = IF reportCount[i] + 1 = SlaQuorum THEN @ + 1 ELSE @]
    /\ witnesses' = [witnesses EXCEPT ![i] = @ \cup {n}]
    /\ UNCHANGED trusted

\* The host drops the count of an interval, with the key set with it; the keys
\* of later reports last longer.
CountExpires(i, survivors) ==
    /\ reportCount[i] > 0
    /\ survivors \subseteq {n \in SlaNodes : reportKeys[i][n] # "none"}
    /\ \E first \in SlaNodes \ survivors : reportKeys[i][first] = "current"
    /\ reportCount' = [reportCount EXCEPT ![i] = 0]
    /\ reportKeys' = [reportKeys EXCEPT ![i] =
                        [n \in SlaNodes |-> IF n \in survivors THEN "old" ELSE "none"]]
    /\ UNCHANGED <<trusted, sla, witnesses, credits>>

OldKeyExpires(i, n) ==
    /\ reportKeys[i][n] = "old"
    /\ reportKeys' = [reportKeys EXCEPT ![i][n] = "none"]
    /\ UNCHANGED <<trusted, reportCount, sla, witnesses, credits>>

-----------------------------------------------------------------------------
SlaInit ==
    /\ trusted = {}
    /\ reportKeys = [i \in Intervals |-> [n \in SlaNodes |-> "none"]]
    /\ reportCount = [i \in Intervals |-> 0]
    /\ sla = [threshold |-> NoAgreement, downtime |-> 0]
    /\ witnesses = [i \in Intervals |-> {}]
    /\ credits = [i \in Intervals |-> 0]

SlaStep ==
    \/ \E n \in SlaNodes : AddNode(n) \/ RemoveNode(n)
    \/ \E t \in Thresholds : SetAgreement(t)
    \/ \E n \in SlaNodes, i \in Intervals : SubmitReport(n, i) \/ OldKeyExpires(i, n)
    \/ \E i \in Intervals, s \in SUBSET SlaNodes : CountExpires(i, s)

SlaNext == SlaStep /\ UNCHANGED now

SlaSpec == now = 0 /\ SlaInit /\ [][SlaNext]_<<now, slaVars>>

-----------------------------------------------------------------------------
SlaTypeOK ==
    /\ trusted \subseteq SlaNodes
    /\ reportKeys \in [Intervals -> [SlaNodes -> {"none", "current", "old"}]]
    /\ reportCount \in [Intervals -> Nat]
    /\ sla \in [threshold : Nat, downtime : Nat]
    /\ witnesses \in [Intervals -> SUBSET SlaNodes]
    /\ credits \in [Intervals -> Nat]

\* "This prevents false reports from single compromised nodes": an interval is
\* downtime only if enough different nodes have reported it, though its keys and
\* its count expire at different times and nodes are removed and added again.
DowntimeIsAgreed ==
    \A i \in Intervals : credits[i] > 0 => Cardinality(witnesses[i]) >= SlaQuorum

\* The count of an interval is that of the nodes barred from reporting it again
\* since the count began; a report never counts without barring its node.
CountsAreKeyed ==
    \A i \in Intervals :
      reportCount[i] = Cardinality({n \in SlaNodes : reportKeys[i][n] = "current"})

\* Downtime is what the nodes agree on, counted by keys that expire one by one.
SlaInv == SlaTypeOK /\ DowntimeIsAgreed /\ CountsAreKeyed

=============================================================================
