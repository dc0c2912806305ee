--------------------------- MODULE Services_proofs ----------------------------
(***************************************************************************)
(* Proofs about the services around the meters: a proposal's id is paid    *)
(* out once, a deposit that is not slashed covers its debt and is          *)
(* accounted for, slashing ends the service it was locked for, downtime is *)
(* agreed on by a quorum, a vault stays within its caps, gas buffers are   *)
(* covered, the maps that bind devices to meters agree, a private report   *)
(* is counted once, goals reached have their grants, and averages          *)
(* and scalings are exact, for every window, margin, quorum, cap, month,   *)
(* size of a word and set of owners, meters, nodes, devices, reports,      *)
(* goals, rates and precisions.                                            *)
(***************************************************************************)
EXTENDS SettlementProposals, GuarantorDebt, ServiceLevel, Funds, DeviceBinding,
        PrivacyReports, ConservationGrant, WeightedRate, Sums_proofs, FiniteSetTheorems, TLAPS

-----------------------------------------------------------------------------
(* Settlement proposals *)

\* Types of the records of proposals.
ProposalTypes ==
    /\ proposals \in [ProposalIds -> [at : Int, deadline : Int, finalized : BOOLEAN,
                                      locked : BOOLEAN]]
    /\ lockRecords \subseteq ProposalIds /\ batchFinalized \subseteq ProposalIds
    /\ paidOut \in [ProposalIds -> Nat]
    /\ now \in Int

\* A proposal changes its own records only, and locks in both.
LEMMA ProposeKeeps ==
  ASSUME ProposalTypes, ProposalInv, ProposalAssumption, NEW id \in ProposalIds,
         NEW w \in Windows, ProposeSettlement(id, w), now' = now
  PROVE  (ProposalTypes /\ ProposalInv)'
  <1> USE DEF ProposalTypes
  <1>1. PICK p : p = [at |-> now, deadline |-> now + w, finalized |-> FALSE, locked |-> TRUE]
    OBVIOUS
  <1>2. proposals' = [proposals EXCEPT ![id] = p]
    BY <1>1, Zenon DEF ProposeSettlement
  <1>3. p \in [at : Int, deadline : Int, finalized : BOOLEAN, locked : BOOLEAN] /\ p.locked
    BY <1>1 DEF ProposalAssumption
  <1>4. lockRecords' = lockRecords \cup {id} /\ UNCHANGED <<batchFinalized, paidOut>>
    BY DEF ProposeSettlement
  <1>5. ProposalTypes'
    BY <1>2, <1>3, <1>4
  <1>6. FinalizedOnce'
    BY <1>4 DEF ProposalInv, FinalizedOnce
  <1>7. LockRecordsAgree'
    BY <1>2, <1>3, <1>4 DEF ProposalInv, LockRecordsAgree
  <1> QED BY <1>5, <1>6, <1>7 DEF ProposalInv

\* A finalisation flags its id, pays it out and unlocks in both records.
LEMMA FinalizeKeeps ==
  ASSUME ProposalTypes, ProposalInv, NEW id \in ProposalIds, FinalizeProposal(id), now' = now
  PROVE  (ProposalTypes /\ ProposalInv)'
  <1> USE DEF ProposalTypes
  <1>1. PICK p : p = [at |-> proposals[id].at, deadline |-> proposals[id].deadline,
                      finalized |-> TRUE, locked |-> FALSE]
    OBVIOUS
  <1>2. proposals' = [proposals EXCEPT ![id].finalized = TRUE, ![id].locked = FALSE]
    BY DEF FinalizeProposal
  <1>3. proposals' \in [ProposalIds -> [at : Int, deadline : Int, finalized : BOOLEAN,
                                        locked : BOOLEAN]]
        /\ ~proposals'[id].locked
        /\ \A i \in ProposalIds \ {id} : proposals'[i] = proposals[i]
    BY <1>2
  <1>4. /\ id \notin batchFinalized
        /\ batchFinalized' = batchFinalized \cup {id}
        /\ lockRecords' = lockRecords \ {id}
        /\ paidOut' = [paidOut EXCEPT ![id] = @ + 1]
    BY DEF FinalizeProposal
  <1>5. ProposalTypes'
    BY <1>3, <1>4
  <1>6. paidOut[id] = 0
    BY <1>4 DEF ProposalInv, FinalizedOnce
  <1>7. FinalizedOnce'
    BY <1>4, <1>6 DEF ProposalInv, FinalizedOnce
  <1>8. LockRecordsAgree'
    BY <1>3, <1>4 DEF ProposalInv, LockRecordsAgree
  <1> QED BY <1>5, <1>7, <1>8 DEF ProposalInv

\* However ids are proposed again, each is paid out once and its two lock
\* records agree, for every set of ids and windows.
THEOREM ProposalInvariant == ProposalSpec => []ProposalInv
  <1>1. now = 0 /\ ProposalInit => ProposalTypes /\ ProposalInv
    BY DEF ProposalInit, ProposalTypes, ProposalInv, FinalizedOnce, LockRecordsAgree,
       NoProposal, Absent
  <1>2. ASSUME ProposalTypes, ProposalInv, [ProposalNext]_<<now, proposalVars>>
        PROVE  (ProposalTypes /\ ProposalInv)'
    <2>1. ASSUME UNCHANGED proposalVars, now' \in Int PROVE (ProposalTypes /\ ProposalInv)'
      BY <1>2, <2>1 DEF proposalVars, ProposalTypes, ProposalInv, FinalizedOnce, LockRecordsAgree
    <2>2. CASE Tick /\ UNCHANGED proposalVars
      <3>1. now' \in Int
        BY <1>2, <2>2 DEF Tick, ProposalTypes
      <3> QED BY <2>1, <2>2, <3>1
    <2>3. CASE UNCHANGED <<now, proposalVars>>
      <3>1. now' \in Int
        BY <1>2, <2>3 DEF ProposalTypes
      <3> QED BY <2>1, <2>3, <3>1
    <2> QED
      BY <1>2, <2>2, <2>3, ProposeKeeps, FinalizeKeeps, ProposalAssumption
      DEF ProposalNext, ProposalStep
  <1> QED BY <1>1, <1>2, PTL DEF ProposalSpec

-----------------------------------------------------------------------------
(* Post-paid debt *)

\* The inductive invariant of the deposits: besides types, that only a deposit
\* that was made owes anything.
DepositIInv ==
    /\ GuarantorTypeOK
    /\ \A o \in Owners : deposits[o].token = NoToken => deposits[o].debt = 0
    /\ DepositCoversDebt

\* A ratio below the threshold means collateral above the debt.
LEMMA NotReached ==
  ASSUME GuarantorAssumption, NEW debt \in Nat, NEW locked \in Nat, ~Reached(debt, locked)
  PROVE  debt < locked
  <1>1. SlashBps \in Nat /\ SlashBps <= 10000
    BY DEF GuarantorAssumption
  <1>2. locked > 0
    BY <1>1 DEF Reached, DebtRatio
  <1>3. (debt * 10000) \div locked < 10000
    <2>1. (debt * 10000) \div locked \in Int
      BY <1>2
    <2> QED BY <1>1, <1>2, <2>1 DEF Reached, DebtRatio
  <1> QED BY <1>2, <1>3, Z3

Deposit == [token : CollateralTokens \cup {NoToken}, locked : Nat, debt : Nat,
            warned : BOOLEAN, slashed : BOOLEAN]

\* Adding an amount in a token.
LEMMA LockedDeposit ==
  ASSUME NEW d \in Deposit, NEW t \in CollateralTokens \ {NoToken}, NEW n \in Nat
  PROVE  /\ Locked(d, t, n) \in Deposit
         /\ Locked(d, t, n).token # NoToken
         /\ Locked(d, t, n).locked = d.locked + n
         /\ Locked(d, t, n).debt = d.debt
         /\ Locked(d, t, n).slashed = d.slashed
  <1> USE DEF Deposit
  <1>a. PICK tok \in CollateralTokens \ {NoToken} : tok = IF d.token = NoToken THEN t ELSE d.token
    OBVIOUS
  <1>b. PICK sum \in Nat : sum = d.locked + n
    OBVIOUS
  <1>c. Locked(d, t, n) = [d EXCEPT !.token = tok, !.locked = sum]
    BY <1>a, <1>b DEF Locked
  <1>1. Locked(d, t, n) \in Deposit
    BY <1>a, <1>b, <1>c
  <1>2. Locked(d, t, n).token # NoToken
    BY <1>a, <1>b, <1>c
  <1>3. Locked(d, t, n).locked = d.locked + n
    BY <1>a, <1>b, <1>c
  <1>4. Locked(d, t, n).debt = d.debt
    BY <1>a, <1>b, <1>c
  <1>5. Locked(d, t, n).slashed = d.slashed
    BY <1>a, <1>b, <1>c
  <1> QED BY <1>1, <1>2, <1>3, <1>4, <1>5

\* Billing against a deposit.
LEMMA BilledDeposit ==
  ASSUME NEW d \in Deposit, NEW n \in Nat
  PROVE  /\ Billed(d, n) \in Deposit
         /\ Billed(d, n).token = d.token
         /\ Billed(d, n).locked = d.locked
         /\ Billed(d, n).debt = n
  <1> USE DEF Deposit
  <1>1. Billed(d, n) \in Deposit
    BY DEF Billed
  <1>2. Billed(d, n).token = d.token
    BY DEF Billed
  <1>3. Billed(d, n).locked = d.locked
    BY DEF Billed
  <1>4. Billed(d, n).debt = n
    BY DEF Billed
  <1> QED BY <1>1, <1>2, <1>3, <1>4

\* Slashing a deposit.
LEMMA SlashedDeposit ==
  ASSUME NEW d \in Deposit, NEW n \in Nat
  PROVE  /\ Slashed(d, n) \in Deposit
         /\ Slashed(d, n).token = d.token
         /\ Slashed(d, n).locked = 0
         /\ Slashed(d, n).slashed
  <1> USE DEF Deposit
  <1>1. Slashed(d, n) \in Deposit
    BY DEF Slashed
  <1>2. Slashed(d, n).token = d.token
    BY DEF Slashed
  <1>3. Slashed(d, n).slashed
    BY DEF Slashed
  <1>4. Slashed(d, n).locked = 0
    BY DEF Slashed
  <1> QED BY <1>1, <1>2, <1>3, <1>4

\* Paying a debt back.
LEMMA RepaidDeposit ==
  ASSUME NEW d \in Deposit, NEW n \in Nat, n <= d.debt
  PROVE  /\ Repaid(d, n) \in Deposit
         /\ Repaid(d, n).token = d.token
         /\ Repaid(d, n).locked = d.locked
         /\ Repaid(d, n).debt = d.debt - n
         /\ Repaid(d, n).slashed = d.slashed
  <1> USE DEF Deposit
  <1>a. PICK left \in Nat : left = d.debt - n
    OBVIOUS
  <1>b. Repaid(d, n) = [d EXCEPT !.debt = left, !.warned = FALSE]
    BY <1>a DEF Repaid
  <1>1. Repaid(d, n) \in Deposit
    BY <1>a, <1>b
  <1>2. Repaid(d, n).token = d.token
    BY <1>a, <1>b
  <1>3. Repaid(d, n).locked = d.locked
    BY <1>a, <1>b
  <1>4. Repaid(d, n).debt = d.debt - n
    BY <1>a, <1>b
  <1>5. Repaid(d, n).slashed = d.slashed
    BY <1>a, <1>b
  <1> QED BY <1>1, <1>2, <1>3, <1>4, <1>5

\* A deposit that is typed and covers its debt.
Sound(d) ==
    /\ d \in Deposit
    /\ d.token = NoToken => d.debt = 0
    /\ d.token # NoToken /\ ~d.slashed => d.debt < d.locked

Becomes(o, d) == deposits' = [deposits EXCEPT ![o] = d]

OtherTypes ==
    /\ meterStatus \in [PostpaidMeters -> {"none", "active", "inactive", "closed"}]
    /\ held \in [CollateralTokens -> Nat] /\ providerPaid \in [Providers -> Nat]
    /\ settled \in Nat /\ unassigned \in Nat

\* One owner's deposit changes to another sound one.
LEMMA OneDepositKept ==
  ASSUME DepositIInv, NEW o \in Owners, NEW d, Sound(d), Becomes(o, d), OtherTypes'
  PROVE  DepositIInv'
  <1>1. deposits \in [Owners -> Deposit]
    BY DEF DepositIInv, GuarantorTypeOK, Deposit
  <1>2. deposits' = [deposits EXCEPT ![o] = d] /\ d \in Deposit
    BY DEF Becomes, Sound
  <1>3. deposits' \in [Owners -> Deposit]
    BY <1>1, <1>2
  <1>4. \A p \in Owners : deposits'[p] = d \/ deposits'[p] = deposits[p]
    BY <1>1, <1>2
  <1>5. GuarantorTypeOK'
    BY <1>3 DEF GuarantorTypeOK, Deposit, OtherTypes
  <1>6. (\A p \in Owners : deposits[p].token = NoToken => deposits[p].debt = 0)'
    BY <1>4 DEF DepositIInv, Sound
  <1>7. DepositCoversDebt'
    BY <1>4 DEF DepositIInv, DepositCoversDebt, Sound
  <1> QED BY <1>5, <1>6, <1>7 DEF DepositIInv

\* The types the invariant gives to one owner's deposit and to the rest.
LEMMA DepositTypes ==
  ASSUME DepositIInv, NEW o \in Owners
  PROVE  /\ deposits[o] \in Deposit
         /\ meterStatus \in [PostpaidMeters -> {"none", "active", "inactive", "closed"}]
         /\ held \in [CollateralTokens -> Nat] /\ providerPaid \in [Providers -> Nat]
         /\ settled \in Nat /\ unassigned \in Nat
         /\ deposits[o].token # NoToken /\ ~deposits[o].slashed
              => deposits[o].debt < deposits[o].locked
         /\ deposits[o].token = NoToken => deposits[o].debt = 0
  BY DEF DepositIInv, GuarantorTypeOK, Deposit, DepositCoversDebt

\* The types of all but the deposits follow from the invariant.
LEMMA OtherTypesHold == DepositIInv => OtherTypes
  BY DEF DepositIInv, GuarantorTypeOK, OtherTypes

\* A positive amount is a number.
LEMMA AmountsAreNat ==
  ASSUME GuarantorAssumption, NEW n \in DebtAmounts, n > 0
  PROVE  n \in Nat
  <1>1. n \in Int
    BY DEF GuarantorAssumption
  <1> QED BY <1>1

\* Adding collateral leaves the debt covered, or makes the first deposit.
LEMMA LockKeeps ==
  ASSUME DepositIInv, GuarantorAssumption, NEW o \in Owners, NEW t \in CollateralTokens,
         NEW n \in DebtAmounts, LockDeposit(o, t, n)
  PROVE  DepositIInv'
  <1>1. PICK e : e = deposits[o]
    OBVIOUS
  <1>2. e \in Deposit /\ n \in Nat /\ n > 0
    <2>1. n > 0
      BY DEF LockDeposit
    <2>2. e \in Deposit
      BY <1>1, DepositTypes
    <2> QED BY <2>1, <2>2, AmountsAreNat
  <1>3. PICK d : d = Locked(e, t, n)
    OBVIOUS
  <1>4. Becomes(o, d)
    BY <1>1, <1>3 DEF LockDeposit, Becomes
  <1>5. /\ d \in Deposit /\ d.token # NoToken
        /\ d.locked = e.locked + n /\ d.debt = e.debt /\ d.slashed = e.slashed
    BY <1>2, <1>3, LockedDeposit DEF GuarantorAssumption
  <1>6. ~d.slashed => d.debt < d.locked
    BY <1>1, <1>2, <1>5, DepositTypes DEF Deposit
  <1>7. held' \in [CollateralTokens -> Nat]
    BY <1>2, DepositTypes DEF LockDeposit
  <1>8. /\ meterStatus' = meterStatus /\ providerPaid' = providerPaid
        /\ settled' = settled /\ unassigned' = unassigned
    BY DEF LockDeposit
  <1>9. OtherTypes'
    BY <1>7, <1>8, OtherTypesHold DEF OtherTypes
  <1>10. Sound(d)
    BY <1>5, <1>6 DEF Sound
  <1> QED BY <1>4, <1>9, <1>10, OneDepositKept

\* Billing below the threshold leaves the debt covered.
LEMMA AccrueKeeps ==
  ASSUME DepositIInv, GuarantorAssumption, NEW o \in Owners, NEW n \in DebtAmounts,
         AccrueDebt(o, n)
  PROVE  DepositIInv'
  <1>1. PICK e : e = deposits[o]
    OBVIOUS
  <1>2. e \in Deposit /\ n \in Nat /\ n > 0
    <2>1. n > 0
      BY DEF AccrueDebt
    <2>2. e \in Deposit
      BY <1>1, DepositTypes
    <2> QED BY <2>1, <2>2, AmountsAreNat
  <1>3. PICK debt : debt = e.debt + n
    OBVIOUS
  <1>4. debt \in Nat
    BY <1>2, <1>3 DEF Deposit
  <1>5. PICK d : d = Billed(e, debt)
    OBVIOUS
  <1>6. /\ Becomes(o, d)
        /\ ~Reached(debt, e.locked) /\ e.token # NoToken
        /\ meterStatus' = meterStatus /\ held' = held /\ providerPaid' = providerPaid
        /\ settled' = settled /\ unassigned' = unassigned
    BY <1>1, <1>3, <1>5 DEF AccrueDebt, Becomes
  <1>7. PICK t \in CollateralTokens \ {NoToken} : t = e.token
    BY <1>2, <1>6 DEF Deposit
  <1>8. d \in Deposit /\ d.token = e.token /\ d.locked = e.locked /\ d.debt = debt
    BY <1>2, <1>4, <1>5, BilledDeposit
  <1>9. debt < e.locked
    BY <1>2, <1>4, <1>6, NotReached DEF Deposit
  <1>10. OtherTypes'
    BY <1>6, OtherTypesHold DEF OtherTypes
  <1>11. Sound(d)
    BY <1>6, <1>8, <1>9 DEF Sound
  <1> QED BY <1>6, <1>10, <1>11, OneDepositKept

\* Paying lowers the debt.
LEMMA SettleKeeps ==
  ASSUME DepositIInv, GuarantorAssumption, NEW o \in Owners, NEW n \in DebtAmounts,
         SettleDebt(o, n)
  PROVE  DepositIInv'
  <1>1. PICK e : e = deposits[o]
    OBVIOUS
  <1>2. e \in Deposit
    BY <1>1, DepositTypes
  <1>3. PICK paid : paid = Smaller(n, e.debt)
    OBVIOUS
  <1>4. PICK d : d = Repaid(e, paid)
    OBVIOUS
  <1>5. /\ Becomes(o, d)
        /\ e.token # NoToken /\ paid > 0
        /\ held' = [held EXCEPT ![e.token] = @ + paid]
        /\ settled' = settled + paid
        /\ meterStatus' = meterStatus /\ providerPaid' = providerPaid
        /\ unassigned' = unassigned
    BY <1>1, <1>3, <1>4 DEF SettleDebt, Becomes
  <1>6. paid \in Nat /\ paid <= e.debt
    <2>1. e.debt \in Nat
      BY <1>2 DEF Deposit
    <2>2. n \in Int
      BY DEF GuarantorAssumption
    <2> QED BY <1>3, <1>5, <2>1, <2>2 DEF Smaller
  <1>7. PICK t \in CollateralTokens \ {NoToken} : t = e.token
    BY <1>2, <1>5 DEF Deposit
  <1>8. /\ d \in Deposit /\ d.token = e.token /\ d.locked = e.locked
        /\ d.debt = e.debt - paid /\ d.slashed = e.slashed
    BY <1>2, <1>4, <1>6, RepaidDeposit
  <1>9. ~d.slashed => d.debt < d.locked
    BY <1>1, <1>2, <1>5, <1>6, <1>8, DepositTypes DEF Deposit
  <1>10. held' \in [CollateralTokens -> Nat] /\ settled' \in Nat
    BY <1>5, <1>6, <1>7, DepositTypes
  <1>11. OtherTypes'
    BY <1>5, <1>10, OtherTypesHold DEF OtherTypes
  <1>12. Sound(d)
    BY <1>5, <1>8, <1>9 DEF Sound
  <1> QED BY <1>5, <1>11, <1>12, OneDepositKept

\* Whom a slash pays: nobody, or the provider of a meter it closes.
LEMMA SlashPays ==
  ASSUME DepositIInv, NEW o \in Owners, NEW n \in DebtAmounts, SlashDeposit(o, n)
  PROVE  /\ providerPaid' \in [Providers -> Nat]
         /\ \/ providerPaid' = providerPaid
            \/ \E last \in ActiveMetersOf(o) : \A p \in Providers :
                 p # MeterProvider[last] => providerPaid'[p] = providerPaid[p]
  <1>1. PICK taken : taken = deposits[o].locked
    OBVIOUS
  <1>2. taken \in Nat /\ providerPaid \in [Providers -> Nat]
    BY <1>1, DepositTypes DEF Deposit
  <1>3. \/ providerPaid' = providerPaid
        \/ \E last \in Closed(o) :
             providerPaid' = [providerPaid EXCEPT ![MeterProvider[last]] = @ + taken]
    BY <1>1 DEF SlashDeposit
  <1>4. CASE providerPaid' = providerPaid
    BY <1>2, <1>4
  <1>5. ASSUME NEW last \in Closed(o),
               providerPaid' = [providerPaid EXCEPT ![MeterProvider[last]] = @ + taken]
        PROVE  /\ providerPaid' \in [Providers -> Nat]
               /\ \E m \in ActiveMetersOf(o) : \A p \in Providers :
                    p # MeterProvider[m] => providerPaid'[p] = providerPaid[p]
    <2>1. PICK p : p = MeterProvider[last]
      OBVIOUS
    <2>2. providerPaid' = [providerPaid EXCEPT ![p] = @ + taken]
      BY <1>5, <2>1
    <2>3. providerPaid' \in [Providers -> Nat]
      <3>1. CASE p \in Providers
        BY <1>2, <2>2, <3>1
      <3>2. CASE p \notin Providers
        BY <1>2, <2>2, <3>2
      <3> QED BY <3>1, <3>2
    <2>4. \A q \in Providers : q # MeterProvider[last] => providerPaid'[q] = providerPaid[q]
      BY <1>2, <2>1, <2>2
    <2> QED BY <2>3, <2>4 DEF Closed
  <1> QED BY <1>3, <1>4, <1>5

\* What a slash makes of deposits and meters.
LEMMA SlashEffect ==
  ASSUME DepositIInv, GuarantorAssumption, NEW o \in Owners, NEW n \in DebtAmounts,
         SlashDeposit(o, n)
  PROVE  /\ DepositIInv'
         /\ \A p \in Owners : p # o => deposits'[p] = deposits[p]
         /\ \A m \in PostpaidMeters :
              meterStatus'[m] = IF m \in ActiveMetersOf(o) THEN "closed" ELSE meterStatus[m]
  <1>0. providerPaid' \in [Providers -> Nat]
    BY SlashPays
  <1>1. PICK e : e = deposits[o]
    OBVIOUS
  <1>2. e \in Deposit /\ n \in Nat
    <2>1. n > 0
      BY DEF SlashDeposit
    <2>2. e \in Deposit
      BY <1>1, DepositTypes
    <2> QED BY <2>1, <2>2, AmountsAreNat
  <1>3. PICK debt : debt = e.debt + n
    OBVIOUS
  <1>4. debt \in Nat
    BY <1>2, <1>3 DEF Deposit
  <1>5. PICK d : d = Slashed(e, debt)
    OBVIOUS
  <1>6. /\ Becomes(o, d)
        /\ e.token # NoToken
        /\ meterStatus' = [m \in PostpaidMeters |->
                             IF m \in Closed(o) THEN "closed" ELSE meterStatus[m]]
        /\ settled' = settled
    BY <1>1, <1>3, <1>5 DEF SlashDeposit, Becomes
  <1>7. \/ unassigned' = unassigned + e.locked /\ held' = held
        \/ /\ held[e.token] >= e.locked
           /\ held' = [held EXCEPT ![e.token] = @ - e.locked]
           /\ unassigned' = unassigned
    BY <1>1 DEF SlashDeposit
  <1>8. PICK t \in CollateralTokens \ {NoToken} : t = e.token
    BY <1>2, <1>6 DEF Deposit
  <1>9. d \in Deposit /\ d.token = e.token /\ d.slashed
    BY <1>2, <1>4, <1>5, SlashedDeposit
  <1>10. PICK taken \in Nat : taken = e.locked
    BY <1>2 DEF Deposit
  <1>11. held' \in [CollateralTokens -> Nat] /\ unassigned' \in Nat
    <2>1. CASE unassigned' = unassigned + e.locked /\ held' = held
      BY <1>10, <2>1, DepositTypes
    <2>2. CASE /\ held[e.token] >= e.locked
               /\ held' = [held EXCEPT ![e.token] = @ - e.locked]
               /\ unassigned' = unassigned
      BY <1>8, <1>10, <2>2, DepositTypes
    <2> QED BY <1>7, <2>1, <2>2
  <1>12. meterStatus' \in [PostpaidMeters -> {"none", "active", "inactive", "closed"}]
    BY <1>6, DepositTypes
  <1>14. settled' \in Nat
    BY <1>6, DepositTypes
  <1>15. DepositIInv'
    <2>1. Sound(d)
      BY <1>6, <1>9 DEF Sound
    <2>2. OtherTypes'
      BY <1>11, <1>12, <1>0, <1>14 DEF OtherTypes, Providers
    <2> QED BY <1>6, <2>1, <2>2, OneDepositKept
  <1>16. \A p \in Owners : p # o => deposits'[p] = deposits[p]
    BY <1>6 DEF DepositIInv, GuarantorTypeOK, Becomes
  <1> QED BY <1>6, <1>15, <1>16 DEF Closed

\* Every step of the deposits keeps them sound.
LEMMA GuarantorStepKeeps ==
  ASSUME DepositIInv, GuarantorAssumption, [GuarantorNext]_<<now, guarantorVars>>
  PROVE  DepositIInv'
  <1>1. ASSUME NEW m \in PostpaidMeters, RegisterPostpaid(m) \/ RefreshPostpaid(m)
        PROVE  DepositIInv'
    <2>1. UNCHANGED <<deposits, held, providerPaid, settled, unassigned>>
      BY <1>1 DEF RegisterPostpaid, RefreshPostpaid
    <2>2. meterStatus' \in [PostpaidMeters -> {"none", "active", "inactive", "closed"}]
      BY <1>1 DEF RegisterPostpaid, RefreshPostpaid, DepositIInv, GuarantorTypeOK
    <2> QED BY <2>1, <2>2 DEF DepositIInv, GuarantorTypeOK, DepositCoversDebt, Providers
  <1>2. ASSUME UNCHANGED guarantorVars  PROVE DepositIInv'
    BY <1>2 DEF guarantorVars, DepositIInv, GuarantorTypeOK, DepositCoversDebt, Providers
  <1> QED
    BY <1>1, <1>2, LockKeeps, AccrueKeeps, SettleKeeps, SlashEffect
    DEF GuarantorNext, GuarantorStep

\* Nothing is locked to begin with.
LEMMA GuarantorStarts == ASSUME GuarantorAssumption, GuarantorInit PROVE DepositIInv
  BY DEF GuarantorInit, DepositIInv, GuarantorTypeOK, DepositCoversDebt, NoDeposit, OthersOf,
     GuarantorAssumption

\* Deposits are typed, and one that is not slashed is worth more than the debt
\* drawn against it, for every margin, threshold and amount.
THEOREM GuarantorCoversDebt == GuarantorSpec => []DepositIInv
  <1>1. GuarantorInit => DepositIInv
    BY GuarantorStarts, GuarantorAssumption
  <1> QED
    BY <1>1, GuarantorStepKeeps, GuarantorAssumption, PTL DEF GuarantorSpec

\* A slash closes every active post-paid meter of its owner and nobody else's,
\* and pays at most one provider, of a meter it closed.
THEOREM GuarantorSlashEndsService == GuarantorSpec => SlashEndsService
  <1> DEFINE Ends(o) ==
        deposits'[o].slashed /\ ~deposits[o].slashed =>
          /\ \A m \in PostpaidMeters : MeterOwner[m] = o => meterStatus'[m] # "active"
          /\ \A m \in PostpaidMeters : MeterOwner[m] # o => meterStatus'[m] = meterStatus[m]
          /\ \A p \in Providers : providerPaid'[p] # providerPaid[p] =>
               \E m \in PostpaidMeters : /\ MeterProvider[m] = p /\ MeterOwner[m] = o
                                         /\ meterStatus'[m] = "closed"
  <1>1. ASSUME DepositIInv, GuarantorAssumption, GuarantorNext, NEW o \in Owners
        PROVE  Ends(o)
    <2>1. SUFFICES ASSUME deposits'[o].slashed, ~deposits[o].slashed
                   PROVE  Ends(o)
      OBVIOUS
    <2>2. PICK n \in DebtAmounts : SlashDeposit(o, n)
      <3>1. deposits \in [Owners -> Deposit]
        BY <1>1 DEF DepositIInv, GuarantorTypeOK, Deposit
      <3>2. ASSUME NEW p \in Owners, NEW t \in CollateralTokens, NEW k \in DebtAmounts,
                   LockDeposit(p, t, k)
            PROVE  deposits'[o].slashed = deposits[o].slashed
        <4>1. PICK e : e = deposits[p]
          OBVIOUS
        <4>2. deposits' = [deposits EXCEPT ![p] = Locked(e, t, k)]
          BY <3>2, <4>1 DEF LockDeposit
        <4>3. e \in Deposit /\ k \in Nat /\ t # NoToken
          <5>1. k > 0
            BY <3>2 DEF LockDeposit
          <5>2. t # NoToken
            BY <1>1 DEF GuarantorAssumption
          <5>3. e \in Deposit
            BY <3>1, <4>1
          <5> QED BY <1>1, <5>1, <5>2, <5>3, AmountsAreNat
        <4>4. Locked(e, t, k).slashed = e.slashed
          BY <4>3, LockedDeposit
        <4> QED BY <3>1, <4>1, <4>2, <4>4
      <3>3. ASSUME NEW p \in Owners, NEW k \in DebtAmounts, AccrueDebt(p, k)
            PROVE  deposits'[o].slashed = deposits[o].slashed
        <4>1. PICK e : e = deposits[p]
          OBVIOUS
        <4>2. deposits' = [deposits EXCEPT ![p] = Billed(e, e.debt + k)]
          BY <3>3, <4>1 DEF AccrueDebt
        <4>3. Billed(e, e.debt + k).slashed = e.slashed
          BY <3>1, <4>1 DEF Billed, Deposit
        <4> QED BY <3>1, <4>1, <4>2, <4>3
      <3>4. ASSUME NEW p \in Owners, NEW k \in DebtAmounts, SettleDebt(p, k)
            PROVE  deposits'[o].slashed = deposits[o].slashed
        <4>1. PICK e : e = deposits[p]
          OBVIOUS
        <4>2. deposits' = [deposits EXCEPT ![p] = Repaid(e, Smaller(k, e.debt))]
          BY <3>4, <4>1 DEF SettleDebt
        <4>3. Repaid(e, Smaller(k, e.debt)).slashed = e.slashed
          BY <3>1, <4>1 DEF Repaid, Deposit
        <4> QED BY <3>1, <4>1, <4>2, <4>3
      <3>5. ASSUME NEW p \in Owners, NEW k \in DebtAmounts, SlashDeposit(p, k), p # o
            PROVE  deposits'[o].slashed = deposits[o].slashed
        <4>1. \A q \in Owners : q # p => deposits'[q] = deposits[q]
          BY <1>1, <3>5, SlashEffect
        <4> QED BY <3>5, <4>1
      <3>6. ASSUME NEW m \in PostpaidMeters, RegisterPostpaid(m) \/ RefreshPostpaid(m)
            PROVE  deposits'[o].slashed = deposits[o].slashed
        BY <3>6 DEF RegisterPostpaid, RefreshPostpaid
      <3>7. \/ \E m \in PostpaidMeters : RegisterPostpaid(m) \/ RefreshPostpaid(m)
            \/ \E p \in Owners, t \in CollateralTokens, k \in DebtAmounts : LockDeposit(p, t, k)
            \/ \E p \in Owners, k \in DebtAmounts :
                 AccrueDebt(p, k) \/ SlashDeposit(p, k) \/ SettleDebt(p, k)
        BY <1>1 DEF GuarantorNext, GuarantorStep
      <3>8. PICK p \in Owners, k \in DebtAmounts : SlashDeposit(p, k)
        BY <2>1, <3>2, <3>3, <3>4, <3>6, <3>7
      <3> QED BY <2>1, <3>5, <3>8
    <2>3. /\ \A m \in PostpaidMeters :
               meterStatus'[m] = IF m \in ActiveMetersOf(o) THEN "closed" ELSE meterStatus[m]
          /\ \/ providerPaid' = providerPaid
             \/ \E last \in ActiveMetersOf(o) : \A p \in Providers :
                  p # MeterProvider[last] => providerPaid'[p] = providerPaid[p]
      BY <1>1, <2>2, SlashEffect, SlashPays
    <2> QED BY <2>3 DEF ActiveMetersOf
  <1>2. DepositIInv /\ [GuarantorNext]_<<now, guarantorVars>>
          => [\A o \in Owners : Ends(o)]_guarantorVars
    BY <1>1, GuarantorAssumption DEF guarantorVars
  <1> QED
    BY <1>2, GuarantorCoversDebt, PTL DEF GuarantorSpec, SlashEndsService

-----------------------------------------------------------------------------
(* Collateral *)

\* Tokens that come or go change what is held by as much.
LEMMA HeldChanges ==
  ASSUME GuarantorAssumption, held \in [CollateralTokens -> Nat],
         held' \in [CollateralTokens -> Nat], NEW t \in CollateralTokens,
         \A x \in CollateralTokens \ {t} : held'[x] = held[x]
  PROVE  /\ SumOf(held', CollateralTokens) =
              SumOf(held, CollateralTokens) - held[t] + held'[t]
         /\ SumOf(held, CollateralTokens) \in Nat
         /\ held[t] \in Nat /\ held'[t] \in Nat
  <1>1. PICK f, g : f = held /\ g = held'
    OBVIOUS
  <1>2. \A x \in CollateralTokens : f[x] \in Nat /\ g[x] \in Nat
    BY <1>1
  <1>3. \A x \in CollateralTokens \ {t} : g[x] = f[x]
    BY <1>1
  <1>4. IsFiniteSet(CollateralTokens)
    BY DEF GuarantorAssumption
  <1>5. SumOf(g, CollateralTokens) = SumOf(f, CollateralTokens) - f[t] + g[t]
    BY <1>2, <1>4, <1>3, SumOfChanged
  <1>6. SumOf(f, CollateralTokens) \in Nat
    BY <1>2, <1>4, SumNat
  <1> QED BY <1>1, <1>5, <1>6

\* One owner's deposit changes what is locked by the difference.
LEMMA LockedChanges ==
  ASSUME GuarantorAssumption, deposits \in [Owners -> Deposit], NEW o \in Owners,
         NEW d \in Deposit, Becomes(o, d)
  PROVE  /\ SumOf(LockedOf', Owners) = SumOf(LockedOf, Owners) - deposits[o].locked + d.locked
         /\ SumOf(LockedOf, Owners) \in Nat
         /\ deposits[o].locked \in Nat /\ d.locked \in Nat
  <1>1. PICK f, g : f = LockedOf /\ g = LockedOf'
    OBVIOUS
  <1>2. \A p \in Owners : deposits[p].locked \in Nat
    BY DEF Deposit
  <1>3. d.locked \in Nat
    BY DEF Deposit
  <1>4. \A p \in Owners : deposits'[p] = IF p = o THEN d ELSE deposits[p]
    BY DEF Becomes
  <1>5. \A p \in Owners : f[p] = deposits[p].locked /\ g[p] = deposits'[p].locked
    BY <1>1 DEF LockedOf
  <1>6. \A p \in Owners : f[p] \in Nat /\ g[p] \in Nat
    BY <1>2, <1>3, <1>4, <1>5
  <1>7. \A p \in Owners \ {o} : g[p] = f[p]
    BY <1>4, <1>5
  <1>8. IsFiniteSet(Owners)
    BY DEF GuarantorAssumption
  <1>9. SumOf(g, Owners) = SumOf(f, Owners) - f[o] + g[o]
    BY <1>6, <1>7, <1>8, SumOfChanged
  <1>10. SumOf(f, Owners) \in Nat
    BY <1>6, <1>8, SumNat
  <1>11. g[o] = d.locked /\ f[o] = deposits[o].locked
    BY <1>4, <1>5
  <1> QED BY <1>1, <1>2, <1>3, <1>9, <1>10, <1>11

\* What the contract holds besides is a number, and no call's business.
LEMMA OthersAreNat ==
  ASSUME GuarantorAssumption
  PROVE  SumOf(OthersOf, CollateralTokens) \in Nat
  <1>1. IsFiniteSet(CollateralTokens) /\ \A t \in CollateralTokens : OthersOf[t] \in Nat
    BY DEF GuarantorAssumption, OthersOf
  <1>2. PICK f : f = OthersOf
    OBVIOUS
  <1>3. SumOf(f, CollateralTokens) \in Nat
    BY <1>1, <1>2, SumNat
  <1> QED BY <1>2, <1>3

\* Collateral comes in as it is locked.
LEMMA LockIsAccounted ==
  ASSUME DepositIInv, DepositIInv', GuarantorAssumption, CollateralAccounted,
         NEW o \in Owners, NEW t \in CollateralTokens, NEW n \in DebtAmounts,
         LockDeposit(o, t, n)
  PROVE  CollateralAccounted'
  <1>1. PICK e : e = deposits[o]
    OBVIOUS
  <1>2. e \in Deposit /\ n \in Nat
    BY <1>1, DepositTypes, AmountsAreNat DEF LockDeposit
  <1>3. PICK d : d = Locked(e, t, n)
    OBVIOUS
  <1>4. Becomes(o, d) /\ held' = [held EXCEPT ![t] = @ + n]
        /\ settled' = settled /\ unassigned' = unassigned
    BY <1>1, <1>3 DEF LockDeposit, Becomes
  <1>5. d \in Deposit /\ d.locked = e.locked + n
    BY <1>2, <1>3, LockedDeposit DEF GuarantorAssumption
  <1>6. deposits \in [Owners -> Deposit]
    BY DEF DepositIInv, GuarantorTypeOK, Deposit
  <1>7. held \in [CollateralTokens -> Nat] /\ held' \in [CollateralTokens -> Nat]
        /\ settled \in Nat /\ unassigned \in Nat
    BY DEF DepositIInv, GuarantorTypeOK
  <1>8. /\ held'[t] = held[t] + n
        /\ \A x \in CollateralTokens \ {t} : held'[x] = held[x]
    BY <1>4, <1>7
  <1>10. /\ SumOf(held', CollateralTokens) =
              SumOf(held, CollateralTokens) - held[t] + held'[t]
         /\ SumOf(held, CollateralTokens) \in Nat
         /\ held[t] \in Nat
    BY <1>7, <1>8, HeldChanges
  <1>9. /\ SumOf(LockedOf', Owners) = SumOf(LockedOf, Owners) - e.locked + d.locked
        /\ SumOf(LockedOf, Owners) \in Nat /\ e.locked \in Nat
    BY <1>1, <1>4, <1>5, <1>6, LockedChanges
  <1> QED BY OthersAreNat, <1>2, <1>4, <1>5, <1>7, <1>8, <1>9, <1>10 DEF CollateralAccounted

\* A bill moves no token.
LEMMA AccrueIsAccounted ==
  ASSUME DepositIInv, GuarantorAssumption, CollateralAccounted,
         NEW o \in Owners, NEW n \in DebtAmounts, AccrueDebt(o, n)
  PROVE  CollateralAccounted'
  <1>1. PICK e, debt, d : e = deposits[o] /\ debt = e.debt + n /\ d = Billed(e, debt)
    OBVIOUS
  <1>2. e \in Deposit /\ n \in Nat
    BY <1>1, DepositTypes, AmountsAreNat DEF AccrueDebt
  <1>3. debt \in Nat
    BY <1>1, <1>2 DEF Deposit
  <1>4. Becomes(o, d) /\ held' = held /\ settled' = settled /\ unassigned' = unassigned
    BY <1>1 DEF AccrueDebt, Becomes
  <1>5. d \in Deposit /\ d.locked = e.locked
    BY <1>1, <1>2, <1>3, BilledDeposit
  <1>6. deposits \in [Owners -> Deposit]
    BY DEF DepositIInv, GuarantorTypeOK, Deposit
  <1>7. /\ SumOf(LockedOf', Owners) = SumOf(LockedOf, Owners) - e.locked + d.locked
        /\ SumOf(LockedOf, Owners) \in Nat /\ e.locked \in Nat
    BY <1>1, <1>4, <1>5, <1>6, LockedChanges
  <1> QED BY OthersAreNat, <1>4, <1>5, <1>7 DEF CollateralAccounted

\* What an owner pays stays, and counts as settled.
LEMMA SettleIsAccounted ==
  ASSUME DepositIInv, DepositIInv', GuarantorAssumption, CollateralAccounted,
         NEW o \in Owners, NEW n \in DebtAmounts, SettleDebt(o, n)
  PROVE  CollateralAccounted'
  <1>1. PICK e, paid, d : e = deposits[o] /\ paid = Smaller(n, e.debt) /\ d = Repaid(e, paid)
    OBVIOUS
  <1>2. e \in Deposit
    BY <1>1, DepositTypes
  <1>3. /\ Becomes(o, d) /\ e.token # NoToken /\ paid > 0
        /\ held' = [held EXCEPT ![e.token] = @ + paid]
        /\ settled' = settled + paid /\ unassigned' = unassigned
    BY <1>1 DEF SettleDebt, Becomes
  <1>4. paid \in Nat /\ paid <= e.debt
    <2>1. e.debt \in Nat
      BY <1>2 DEF Deposit
    <2>2. n \in Int
      BY DEF GuarantorAssumption
    <2> QED BY <1>1, <1>3, <2>1, <2>2 DEF Smaller
  <1>5. PICK t \in CollateralTokens : t = e.token
    BY <1>2, <1>3 DEF Deposit
  <1>6. d \in Deposit /\ d.locked = e.locked
    BY <1>1, <1>2, <1>4, RepaidDeposit
  <1>7. deposits \in [Owners -> Deposit]
    BY DEF DepositIInv, GuarantorTypeOK, Deposit
  <1>8. held \in [CollateralTokens -> Nat] /\ held' \in [CollateralTokens -> Nat]
        /\ settled \in Nat /\ unassigned \in Nat
    BY DEF DepositIInv, GuarantorTypeOK
  <1>9. /\ held'[t] = held[t] + paid
        /\ \A x \in CollateralTokens \ {t} : held'[x] = held[x]
    BY <1>3, <1>5, <1>8
  <1>11. /\ SumOf(held', CollateralTokens) =
              SumOf(held, CollateralTokens) - held[t] + held'[t]
         /\ SumOf(held, CollateralTokens) \in Nat
         /\ held[t] \in Nat
    BY <1>8, <1>9, HeldChanges
  <1>10. /\ SumOf(LockedOf', Owners) = SumOf(LockedOf, Owners) - e.locked + d.locked
         /\ SumOf(LockedOf, Owners) \in Nat /\ e.locked \in Nat
    BY <1>1, <1>3, <1>6, <1>7, LockedChanges
  <1> QED BY OthersAreNat, <1>3, <1>4, <1>6, <1>8, <1>9, <1>10, <1>11 DEF CollateralAccounted

\* What a slash takes is paid out, or stays with nobody's name on it.
LEMMA SlashIsAccounted ==
  ASSUME DepositIInv, DepositIInv', GuarantorAssumption, CollateralAccounted,
         NEW o \in Owners, NEW n \in DebtAmounts, SlashDeposit(o, n)
  PROVE  CollateralAccounted'
  <1>1. PICK e, debt, d : e = deposits[o] /\ debt = e.debt + n /\ d = Slashed(e, debt)
    OBVIOUS
  <1>2. e \in Deposit /\ n \in Nat
    BY <1>1, DepositTypes, AmountsAreNat DEF SlashDeposit
  <1>3. debt \in Nat
    BY <1>1, <1>2 DEF Deposit
  <1>4. Becomes(o, d) /\ e.token # NoToken /\ settled' = settled
    BY <1>1 DEF SlashDeposit, Becomes
  <1>5. \/ unassigned' = unassigned + e.locked /\ held' = held
        \/ /\ held[e.token] >= e.locked
           /\ held' = [held EXCEPT ![e.token] = @ - e.locked]
           /\ unassigned' = unassigned
    BY <1>1 DEF SlashDeposit
  <1>6. PICK t \in CollateralTokens : t = e.token
    BY <1>2, <1>4 DEF Deposit
  <1>7. d \in Deposit /\ d.locked = 0
    BY <1>1, <1>2, <1>3, SlashedDeposit
  <1>8. deposits \in [Owners -> Deposit]
    BY DEF DepositIInv, GuarantorTypeOK, Deposit
  <1>9. held \in [CollateralTokens -> Nat] /\ held' \in [CollateralTokens -> Nat]
        /\ settled \in Nat /\ unassigned \in Nat
    BY DEF DepositIInv, GuarantorTypeOK
  <1>10. /\ SumOf(LockedOf', Owners) = SumOf(LockedOf, Owners) - e.locked + d.locked
         /\ SumOf(LockedOf, Owners) \in Nat /\ e.locked \in Nat
    BY <1>1, <1>4, <1>7, <1>8, LockedChanges
  <1>11. CASE unassigned' = unassigned + e.locked /\ held' = held
    BY OthersAreNat, <1>4, <1>7, <1>9, <1>10, <1>11 DEF CollateralAccounted
  <1>12. CASE /\ held[e.token] >= e.locked
              /\ held' = [held EXCEPT ![e.token] = @ - e.locked]
              /\ unassigned' = unassigned
    <2>1. /\ held'[t] = held[t] - e.locked
          /\ \A x \in CollateralTokens \ {t} : held'[x] = held[x]
      BY <1>6, <1>9, <1>12
    <2>2. /\ SumOf(held', CollateralTokens) =
               SumOf(held, CollateralTokens) - held[t] + held'[t]
          /\ SumOf(held, CollateralTokens) \in Nat
          /\ held[t] \in Nat
      BY <1>9, <2>1, HeldChanges
    <2> QED BY OthersAreNat, <1>4, <1>7, <1>9, <1>10, <1>12, <2>1, <2>2 DEF CollateralAccounted
  <1> QED BY <1>5, <1>11, <1>12

\* Every step keeps the collateral accounted for.
LEMMA GuarantorInvKeeps ==
  ASSUME DepositIInv, CollateralAccounted, GuarantorAssumption,
         [GuarantorNext]_<<now, guarantorVars>>
  PROVE  DepositIInv' /\ CollateralAccounted'
  <1>1. DepositIInv'
    BY GuarantorStepKeeps
  <1>2. ASSUME UNCHANGED <<deposits, held, settled, unassigned>>
        PROVE  CollateralAccounted'
    BY <1>2 DEF CollateralAccounted, LockedOf
  <1>3. ASSUME NEW m \in PostpaidMeters, RegisterPostpaid(m) \/ RefreshPostpaid(m)
        PROVE  CollateralAccounted'
    BY <1>2, <1>3 DEF RegisterPostpaid, RefreshPostpaid
  <1>4. ASSUME UNCHANGED guarantorVars  PROVE CollateralAccounted'
    BY <1>2, <1>4 DEF guarantorVars
  <1>5. CollateralAccounted'
    BY <1>1, <1>3, <1>4, LockIsAccounted, AccrueIsAccounted, SettleIsAccounted,
       SlashIsAccounted DEF GuarantorNext, GuarantorStep
  <1> QED BY <1>1, <1>5

\* Deposits are typed and above their debts, and every collateral token held is
\* locked, settled or taken from an owner without a meter, for every set of
\* owners, tokens, meters and amounts, and every margin.
THEOREM GuarantorIsSound == GuarantorSpec => []GuarantorInv
  <1>1. GuarantorInit => DepositIInv
    BY GuarantorStarts, GuarantorAssumption
  <1>2. GuarantorInit => CollateralAccounted
    <2> SUFFICES ASSUME GuarantorInit PROVE CollateralAccounted
      OBVIOUS
    <2>1. PICK g : g = LockedOf
      OBVIOUS
    <2>2. SumOf(held, CollateralTokens) = SumOf(OthersOf, CollateralTokens)
      <3>1. held = OthersOf
        BY DEF GuarantorInit
      <3> QED BY <3>1
    <2>3. \A o \in Owners : g[o] = 0
      BY <2>1 DEF GuarantorInit, LockedOf, NoDeposit
    <2>4. SumOf(g, Owners) = 0
      BY <2>3, SumOfZeros, GuarantorAssumption DEF GuarantorAssumption
    <2>5. PICK n \in Nat : n = SumOf(OthersOf, CollateralTokens)
      BY OthersAreNat, GuarantorAssumption
    <2> QED BY <2>1, <2>2, <2>4, <2>5 DEF CollateralAccounted, GuarantorInit
  <1>3. DepositIInv /\ CollateralAccounted => GuarantorInv
    BY DEF DepositIInv, GuarantorInv
  <1> QED BY <1>1, <1>2, <1>3, GuarantorInvKeeps, GuarantorAssumption, PTL
          DEF GuarantorSpec

-----------------------------------------------------------------------------
(* Service levels *)

\* The nodes a count stands for.
Counted(i) == {n \in SlaNodes : reportKeys[i][n] = "current"}

\* The inductive invariant: whoever is counted has reported the interval.
CountedAreWitnesses == \A i \in Intervals : Counted(i) \subseteq witnesses[i]

SlaIInv == SlaInv /\ CountedAreWitnesses

\* What the invariant says of one interval.
SoundInterval(i, keys, number, heard, credited) ==
    /\ keys \in [SlaNodes -> {"none", "current", "old"}]
    /\ number \in Nat /\ heard \subseteq SlaNodes /\ credited \in Nat
    /\ number = Cardinality({n \in SlaNodes : keys[n] = "current"})
    /\ {n \in SlaNodes : keys[n] = "current"} \subseteq heard
    /\ credited > 0 => Cardinality(heard) >= SlaQuorum

IntervalSound(i) == SoundInterval(i, reportKeys[i], reportCount[i], witnesses[i], credits[i])

\* The maps over all intervals, without what they say of one.
SlaMaps ==
    /\ trusted \subseteq SlaNodes
    /\ reportKeys \in [Intervals -> [SlaNodes -> {"none", "current", "old"}]]
    /\ reportCount \in [Intervals -> Nat]
    /\ sla \in [threshold : Nat, downtime : Nat]
    /\ witnesses \in [Intervals -> SUBSET SlaNodes]
    /\ credits \in [Intervals -> Nat]

\* The invariant, interval by interval.
LEMMA SlaByInterval == SlaIInv <=> SlaMaps /\ \A i \in Intervals : IntervalSound(i)
  <1>1. SlaTypeOK <=> SlaMaps
    BY DEF SlaTypeOK, SlaMaps
  <1>2. ASSUME SlaIInv, NEW i \in Intervals  PROVE IntervalSound(i)
    <2>1. SlaMaps
      BY <1>1, <1>2 DEF SlaIInv, SlaInv
    <2>2. /\ reportCount[i] = Cardinality({n \in SlaNodes : reportKeys[i][n] = "current"})
          /\ {n \in SlaNodes : reportKeys[i][n] = "current"} \subseteq witnesses[i]
          /\ credits[i] > 0 => Cardinality(witnesses[i]) >= SlaQuorum
      BY <1>2 DEF SlaIInv, SlaInv, DowntimeIsAgreed, CountsAreKeyed, CountedAreWitnesses, Counted
    <2>3. /\ reportKeys[i] \in [SlaNodes -> {"none", "current", "old"}]
          /\ reportCount[i] \in Nat /\ witnesses[i] \subseteq SlaNodes /\ credits[i] \in Nat
      BY <2>1 DEF SlaMaps
    <2> QED BY <2>2, <2>3 DEF IntervalSound, SoundInterval
  <1>3. ASSUME SlaMaps, \A i \in Intervals : IntervalSound(i)  PROVE SlaIInv
    <2>1. DowntimeIsAgreed /\ CountsAreKeyed
      BY <1>3 DEF IntervalSound, SoundInterval, DowntimeIsAgreed, CountsAreKeyed
    <2>2. CountedAreWitnesses
      BY <1>3 DEF IntervalSound, SoundInterval, CountedAreWitnesses, Counted
    <2> QED BY <1>1, <1>3, <2>1, <2>2 DEF SlaIInv, SlaInv
  <1> QED BY <1>1, <1>2, <1>3 DEF SlaIInv, SlaInv

\* A subset of the nodes is finite and no larger than one that contains it.
LEMMA NodesAreCounted ==
  ASSUME ServiceLevelAssumption, NEW big \in SUBSET SlaNodes, NEW small \in SUBSET big
  PROVE  /\ IsFiniteSet(big) /\ Cardinality(big) \in Nat /\ Cardinality(small) \in Nat
         /\ Cardinality(small) <= Cardinality(big)
  <1>1. IsFiniteSet(SlaNodes)
    BY DEF ServiceLevelAssumption
  <1>2. IsFiniteSet(big)
    BY <1>1, FS_Subset
  <1> QED BY <1>2, FS_Subset, FS_CardinalityType

\* A report of a node without a key counts one node more, which has reported.
LEMMA ReportIsSound ==
  ASSUME ServiceLevelAssumption, NEW i, NEW keys, NEW number, NEW heard, NEW credited,
         SoundInterval(i, keys, number, heard, credited),
         NEW n \in SlaNodes, keys[n] = "none"
  PROVE  SoundInterval(i, [keys EXCEPT ![n] = "current"], number + 1, heard \cup {n},
                       IF number + 1 = SlaQuorum THEN credited + 1 ELSE credited)
  <1> DEFINE before == {m \in SlaNodes : keys[m] = "current"}
             after  == {m \in SlaNodes : [keys EXCEPT ![n] = "current"][m] = "current"}
             total  == IF number + 1 = SlaQuorum THEN credited + 1 ELSE credited
  <1>1. /\ keys \in [SlaNodes -> {"none", "current", "old"}]
        /\ number \in Nat /\ heard \subseteq SlaNodes /\ credited \in Nat
        /\ number = Cardinality(before) /\ before \subseteq heard
        /\ credited > 0 => Cardinality(heard) >= SlaQuorum
    BY DEF SoundInterval
  <1>2. [keys EXCEPT ![n] = "current"] \in [SlaNodes -> {"none", "current", "old"}]
    BY <1>1
  <1>3. after = before \cup {n} /\ n \notin before
    BY <1>1
  <1>4. IsFiniteSet(before)
    BY NodesAreCounted
  <1>5. Cardinality(after) = number + 1
    BY <1>1, <1>3, <1>4, FS_AddElement
  <1>6. after \subseteq heard \cup {n} /\ heard \cup {n} \subseteq SlaNodes
    BY <1>1, <1>3
  <1>7. Cardinality(after) <= Cardinality(heard \cup {n})
        /\ Cardinality(heard) <= Cardinality(heard \cup {n})
        /\ Cardinality(heard) \in Nat /\ Cardinality(heard \cup {n}) \in Nat
    BY <1>6, NodesAreCounted
  <1>8. SlaQuorum \in Nat
    BY DEF ServiceLevelAssumption
  <1>9. total \in Nat /\ (total > 0 => Cardinality(heard \cup {n}) >= SlaQuorum)
    <2>1. CASE number + 1 = SlaQuorum
      BY <1>1, <1>5, <1>7, <1>8, <2>1
    <2>2. CASE number + 1 # SlaQuorum
      BY <1>1, <1>7, <1>8, <2>2
    <2> QED BY <2>1, <2>2
  <1>10. number + 1 \in Nat
    BY <1>1
  <1> QED BY <1>2, <1>5, <1>6, <1>9, <1>10 DEF SoundInterval

\* Keys that expire with their count leave none that is counted.
LEMMA ExpiryIsSound ==
  ASSUME ServiceLevelAssumption, NEW i, NEW keys, NEW number, NEW heard, NEW credited,
         SoundInterval(i, keys, number, heard, credited),
         NEW survivors \in SUBSET SlaNodes
  PROVE  SoundInterval(i, [n \in SlaNodes |-> IF n \in survivors THEN "old" ELSE "none"],
                       0, heard, credited)
  <1> DEFINE keep == [n \in SlaNodes |-> IF n \in survivors THEN "old" ELSE "none"]
  <1>1. keep \in [SlaNodes -> {"none", "current", "old"}]
    OBVIOUS
  <1>2. {n \in SlaNodes : keep[n] = "current"} = {}
    OBVIOUS
  <1> QED BY <1>1, <1>2, FS_EmptySet DEF SoundInterval

\* A key that outlived its count is not counted when it expires either.
LEMMA OldKeyIsSound ==
  ASSUME NEW i, NEW keys, NEW number, NEW heard, NEW credited,
         SoundInterval(i, keys, number, heard, credited),
         NEW n \in SlaNodes, keys[n] = "old"
  PROVE  SoundInterval(i, [keys EXCEPT ![n] = "none"], number, heard, credited)
  <1>1. keys \in [SlaNodes -> {"none", "current", "old"}]
    BY DEF SoundInterval
  <1>2. [keys EXCEPT ![n] = "none"] \in [SlaNodes -> {"none", "current", "old"}]
    BY <1>1
  <1>3. {m \in SlaNodes : [keys EXCEPT ![n] = "none"][m] = "current"}
          = {m \in SlaNodes : keys[m] = "current"}
    BY <1>1
  <1> QED BY <1>2, <1>3 DEF SoundInterval

\* Nothing is reported at the start.
LEMMA SlaStart == ServiceLevelAssumption /\ SlaInit => SlaIInv
  <1> SUFFICES ASSUME ServiceLevelAssumption, SlaInit  PROVE SlaIInv
    OBVIOUS
  <1>1. SlaMaps
    BY DEF SlaInit, SlaMaps, NoAgreement
  <1>2. ASSUME NEW i \in Intervals  PROVE IntervalSound(i)
    <2>1. {n \in SlaNodes : reportKeys[i][n] = "current"} = {}
      BY DEF SlaInit
    <2>2. reportCount[i] = 0 /\ witnesses[i] = {} /\ credits[i] = 0
      BY DEF SlaInit
    <2>3. reportKeys[i] \in [SlaNodes -> {"none", "current", "old"}]
      BY DEF SlaInit
    <2> QED BY <2>1, <2>2, <2>3, FS_EmptySet DEF IntervalSound, SoundInterval
  <1> QED BY <1>1, <1>2, SlaByInterval

\* Steps that leave reports alone.
LEMMA AgreementsKeep ==
  ASSUME SlaIInv, trusted' \subseteq SlaNodes, sla' \in [threshold : Nat, downtime : Nat],
         UNCHANGED <<reportKeys, reportCount, witnesses, credits>>
  PROVE  SlaIInv'
  BY DEF SlaIInv, SlaInv, SlaTypeOK, DowntimeIsAgreed, CountsAreKeyed, CountedAreWitnesses, Counted

\* Steps of the reports of one interval.
LEMMA OneIntervalKept ==
  ASSUME SlaIInv, NEW i \in Intervals, NEW keys, NEW number, NEW heard, NEW credited,
         SoundInterval(i, keys, number, heard, credited),
         reportKeys' = [reportKeys EXCEPT ![i] = keys],
         reportCount' = [reportCount EXCEPT ![i] = number],
         witnesses' = [witnesses EXCEPT ![i] = heard],
         credits' = [credits EXCEPT ![i] = credited],
         trusted' = trusted, sla' \in [threshold : Nat, downtime : Nat]
  PROVE  SlaIInv'
  <1>1. SlaMaps /\ \A j \in Intervals : IntervalSound(j)
    BY SlaByInterval
  <1>2. /\ keys \in [SlaNodes -> {"none", "current", "old"}]
        /\ number \in Nat /\ heard \subseteq SlaNodes /\ credited \in Nat
    BY DEF SoundInterval
  <1>3. SlaMaps'
    BY <1>1, <1>2 DEF SlaMaps
  <1>4. ASSUME NEW j \in Intervals  PROVE IntervalSound(j)'
    <2>1. CASE j = i
      <3>1. /\ reportKeys'[j] = keys /\ reportCount'[j] = number
            /\ witnesses'[j] = heard /\ credits'[j] = credited
        BY <1>1, <2>1 DEF SlaMaps
      <3> QED BY <2>1, <3>1 DEF IntervalSound
    <2>2. CASE j # i
      <3>1. /\ reportKeys'[j] = reportKeys[j] /\ reportCount'[j] = reportCount[j]
            /\ witnesses'[j] = witnesses[j] /\ credits'[j] = credits[j]
        BY <1>1, <2>2 DEF SlaMaps
      <3> QED BY <1>1, <3>1 DEF IntervalSound
    <2> QED BY <2>1, <2>2
  <1>5. SlaTypeOK'
    BY <1>3 DEF SlaMaps, SlaTypeOK
  <1>6. DowntimeIsAgreed' /\ CountsAreKeyed'
    BY <1>4 DEF IntervalSound, SoundInterval, DowntimeIsAgreed, CountsAreKeyed
  <1>7. CountedAreWitnesses'
    BY <1>4 DEF IntervalSound, SoundInterval, CountedAreWitnesses, Counted
  <1> QED BY <1>5, <1>6, <1>7 DEF SlaIInv, SlaInv

\* A report changes its own interval only.
LEMMA SubmitKeeps ==
  ASSUME SlaIInv, ServiceLevelAssumption, NEW n \in SlaNodes, NEW i \in Intervals,
         SubmitReport(n, i)
  PROVE  SlaIInv'
  <1>1. SlaMaps /\ IntervalSound(i)
    BY SlaByInterval
  <1>2. PICK total : total = IF reportCount[i] + 1 = SlaQuorum THEN credits[i] + 1 ELSE credits[i]
    OBVIOUS
  <1>3. SoundInterval(i, [reportKeys[i] EXCEPT ![n] = "current"], reportCount[i] + 1,
                      witnesses[i] \cup {n}, total)
    BY <1>1, <1>2, ReportIsSound DEF IntervalSound, SubmitReport
  <1>4. /\ reportKeys' = [reportKeys EXCEPT ![i] = [reportKeys[i] EXCEPT ![n] = "current"]]
        /\ reportCount' = [reportCount EXCEPT ![i] = reportCount[i] + 1]
        /\ witnesses' = [witnesses EXCEPT ![i] = witnesses[i] \cup {n}]
        /\ credits' = [credits EXCEPT ![i] = total]
        /\ trusted' = trusted
    BY <1>1, <1>2 DEF SubmitReport, SlaMaps
  <1>5. sla' \in [threshold : Nat, downtime : Nat]
    <2>1. i[1] \in Nat /\ i[2] \in Nat
      BY DEF ServiceLevelAssumption
    <2>2. Length(i) \in Nat
      BY <2>1 DEF SubmitReport, Length
    <2>3. sla' = sla \/ sla' = [sla EXCEPT !.downtime = @ + Length(i)]
      BY DEF SubmitReport, Credit
    <2> QED BY <1>1, <2>2, <2>3 DEF SlaMaps
  <1> QED BY <1>3, <1>4, <1>5, OneIntervalKept

\* An expiring count changes its own interval only.
LEMMA CountExpiryKeeps ==
  ASSUME SlaIInv, ServiceLevelAssumption, NEW i \in Intervals, NEW survivors \in SUBSET SlaNodes,
         CountExpires(i, survivors)
  PROVE  SlaIInv'
  <1>1. SlaMaps /\ IntervalSound(i)
    BY SlaByInterval
  <1>2. SoundInterval(i, [n \in SlaNodes |-> IF n \in survivors THEN "old" ELSE "none"],
                      0, witnesses[i], credits[i])
    BY <1>1, ExpiryIsSound DEF IntervalSound
  <1>3. /\ reportKeys' = [reportKeys EXCEPT ![i] =
                            [n \in SlaNodes |-> IF n \in survivors THEN "old" ELSE "none"]]
        /\ reportCount' = [reportCount EXCEPT ![i] = 0]
        /\ witnesses' = [witnesses EXCEPT ![i] = witnesses[i]]
        /\ credits' = [credits EXCEPT ![i] = credits[i]]
        /\ trusted' = trusted /\ sla' = sla
    BY <1>1 DEF CountExpires, SlaMaps
  <1> QED BY <1>1, <1>2, <1>3, OneIntervalKept DEF SlaMaps

\* An expiring key changes its own interval only.
LEMMA OldKeyExpiryKeeps ==
  ASSUME SlaIInv, NEW i \in Intervals, NEW n \in SlaNodes, OldKeyExpires(i, n)
  PROVE  SlaIInv'
  <1>1. SlaMaps /\ IntervalSound(i)
    BY SlaByInterval
  <1>2. SoundInterval(i, [reportKeys[i] EXCEPT ![n] = "none"], reportCount[i], witnesses[i],
                      credits[i])
    BY <1>1, OldKeyIsSound DEF IntervalSound, OldKeyExpires
  <1>3. /\ reportKeys' = [reportKeys EXCEPT ![i] = [reportKeys[i] EXCEPT ![n] = "none"]]
        /\ reportCount' = [reportCount EXCEPT ![i] = reportCount[i]]
        /\ witnesses' = [witnesses EXCEPT ![i] = witnesses[i]]
        /\ credits' = [credits EXCEPT ![i] = credits[i]]
        /\ trusted' = trusted /\ sla' = sla
    BY <1>1 DEF OldKeyExpires, SlaMaps
  <1> QED BY <1>1, <1>2, <1>3, OneIntervalKept DEF SlaMaps

\* Every step keeps the invariant of the service levels.
LEMMA SlaStepKeeps ==
  ASSUME SlaIInv, ServiceLevelAssumption, [SlaNext]_<<now, slaVars>>
  PROVE  SlaIInv'
  <1>1. SlaMaps
    BY SlaByInterval
  <1>2. ASSUME NEW n \in SlaNodes, AddNode(n) \/ RemoveNode(n)  PROVE SlaIInv'
    <2>1. trusted' \subseteq SlaNodes /\ sla' = sla
      BY <1>1, <1>2 DEF AddNode, RemoveNode, SlaMaps
    <2> QED BY <1>1, <1>2, <2>1, AgreementsKeep DEF AddNode, RemoveNode, SlaMaps
  <1>3. ASSUME NEW t \in Thresholds, SetAgreement(t)  PROVE SlaIInv'
    <2>1. t \in Nat
      BY DEF ServiceLevelAssumption
    <2>2. sla' \in [threshold : Nat, downtime : Nat]
      BY <1>1, <1>3, <2>1 DEF SetAgreement, SlaMaps
    <2> QED BY <1>1, <1>3, <2>2, AgreementsKeep DEF SetAgreement, SlaMaps
  <1>4. ASSUME UNCHANGED <<now, slaVars>>  PROVE SlaIInv'
    BY <1>1, <1>4, AgreementsKeep DEF slaVars, SlaMaps
  <1> QED
    BY <1>2, <1>3, <1>4, SubmitKeeps, CountExpiryKeeps, OldKeyExpiryKeeps DEF SlaNext, SlaStep

\* An interval is downtime only if a quorum of different nodes has reported it,
\* and a count is that of the nodes barred with it, whatever keys and counts
\* expire, for every set of nodes and intervals and every quorum.
THEOREM ServiceLevelInvariant == SlaSpec => []SlaInv
  <1>1. SlaIInv => SlaInv
    BY DEF SlaIInv
  <1> QED BY <1>1, SlaStart, SlaStepKeeps, ServiceLevelAssumption, PTL DEF SlaSpec

-----------------------------------------------------------------------------
(* Exchanges between peers *)

\* The inductive invariant: numbers, and caps recorded on their sides of zero.
ExchangeTypes ==
    /\ vault \in Int /\ reported \in Int
    /\ highestCap \in Int /\ lowestCap \in Int
    /\ lowestCap <= 0 /\ 0 <= highestCap

ExchangeIInv == ExchangeTypes /\ ExchangeInv

\* Whatever the surplus, the vault ends between the caps recorded.
LEMMA CreditWithinCaps ==
  ASSUME ExchangeIInv, NEW surplus \in Int, NEW cap \in Int, RecordCap(cap)
  PROVE  /\ VaultCredit(surplus, cap) \in Int
         /\ highestCap' \in Int /\ lowestCap' \in Int /\ lowestCap' <= 0 /\ 0 <= highestCap'
         /\ lowestCap' <= vault + VaultCredit(surplus, cap)
         /\ vault + VaultCredit(surplus, cap) <= highestCap'
  BY DEF ExchangeIInv, ExchangeTypes, ExchangeInv, VaultWithinCap, RecordCap, VaultCredit,
     Smaller, Larger

\* An exchange reports what its vault and its owner receive.
LEMMA FinalizeExchangeKeeps ==
  ASSUME ExchangeIInv, NEW s \in Int, NEW d \in Int, NEW t \in Int, NEW b \in Int, NEW c \in Int,
         FinalizeExchange(s, d, t, b, c)
  PROVE  ExchangeIInv'
  <1>1. PICK gross \in Int : gross = NetFlow(s, d, t)
    BY DEF NetFlow
  <1>2. PICK volume \in Int : volume = Volume(gross)
    BY DEF Volume
  <1>3. PICK fee \in Int : fee = GridFee(gross, b)
    <2>1. volume * b \in Int
      OBVIOUS
    <2> QED BY <1>2, <2>1 DEF GridFee
  <1>4. PICK surplus \in Int : surplus = gross - fee
    OBVIOUS
  <1>5. PICK credit : credit = VaultCredit(surplus, c)
    OBVIOUS
  <1>6. vault' = vault + credit /\ reported' = reported + credit /\ RecordCap(c)
    BY <1>1, <1>3, <1>4, <1>5 DEF FinalizeExchange
  <1>7. /\ credit \in Int
        /\ highestCap' \in Int /\ lowestCap' \in Int /\ lowestCap' <= 0 /\ 0 <= highestCap'
        /\ lowestCap' <= vault + credit /\ vault + credit <= highestCap'
    BY <1>5, <1>6, CreditWithinCaps
  <1> QED BY <1>6, <1>7
          DEF ExchangeIInv, ExchangeTypes, ExchangeInv, VaultWithinCap, CreditsAddUp

\* The exchange starts with an empty vault and no caps.
LEMMA ExchangeStarts == ExchangeInit => ExchangeIInv
  BY DEF ExchangeInit, ExchangeIInv, ExchangeTypes, ExchangeInv, VaultWithinCap, CreditsAddUp

\* Every step keeps the vault.
LEMMA ExchangeStepKeeps ==
  ASSUME ExchangeIInv, ExchangeAssumption, [ExchangeNext]_exchangeVars
  PROVE  ExchangeIInv'
  <1>1. CASE ExchangeNext
    BY <1>1, FinalizeExchangeKeeps DEF ExchangeNext, ExchangeAssumption
  <1>2. CASE UNCHANGED exchangeVars
    BY <1>2 DEF exchangeVars, ExchangeIInv, ExchangeTypes, ExchangeInv, VaultWithinCap,
       CreditsAddUp
  <1> QED BY <1>1, <1>2

\* A vault holds what the exchanges reported, between the lowest and the highest
\* cap agreed on, for all rates, durations, fees and caps.
THEOREM ExchangeInvariant == ExchangeSpec => []ExchangeInv
  <1>1. ExchangeIInv /\ [ExchangeNext]_<<now, exchangeVars>> => ExchangeIInv'
    BY ExchangeStepKeeps, ExchangeAssumption
  <1>2. ExchangeIInv => ExchangeInv
    BY DEF ExchangeIInv
  <1> QED BY <1>1, <1>2, ExchangeStarts, PTL DEF ExchangeSpec

-----------------------------------------------------------------------------
(* Reserves *)

Drains == [at : Nat, amount : Nat, left : Int]

\* Types; no drain is of a time to come.
ReserveTypes ==
    /\ now \in Nat /\ threshold \in Int
    /\ buffers \in [BufferOwners -> {Absent} \cup Nat]
    /\ holdings \in [BufferTokens -> Nat]
    /\ drains \in Seq(Drains)
    /\ \A i \in DOMAIN drains : drains[i].at <= now

ReserveIInv == ReserveTypes /\ ReserveInv

BufferBecomes(p, n) == buffers' = [buffers EXCEPT ![p] = n]
HoldingBecomes(t, k) == holdings' = [holdings EXCEPT ![t] = k]

\* The three sums are numbers.
LEMMA ReserveSums ==
  ASSUME ReservesAssumption, ReserveTypes
  PROVE  /\ SumOf(Balances, BufferOwners) \in Nat
         /\ SumOf(Gained, BufferTokens) \in Int
         /\ IsFiniteSet(DOMAIN drains) /\ SumOf(Drained, DOMAIN drains) \in Nat
  <1>1. PICK b, g, d : b = Balances /\ g = Gained /\ d = Drained
    OBVIOUS
  <1>2. \A p \in BufferOwners : b[p] \in Nat
    BY <1>1 DEF Balances, Balance, Larger, ReserveTypes, Absent
  <1>3. \A t \in BufferTokens : g[t] \in Int
    BY <1>1 DEF Gained, ReserveTypes, ReservesAssumption
  <1>4. \A i \in DOMAIN drains : drains[i] \in Drains
    BY DEF ReserveTypes
  <1>5. \A i \in DOMAIN drains : d[i] \in Nat
    BY <1>1, <1>4 DEF Drained, Drains
  <1>6. DOMAIN drains = 1 .. Len(drains) /\ Len(drains) \in Nat
    BY DEF ReserveTypes
  <1>7. IsFiniteSet(DOMAIN drains)
    BY <1>6, FS_Interval
  <1>8. IsFiniteSet(BufferOwners) /\ IsFiniteSet(BufferTokens)
    BY DEF ReservesAssumption
  <1>9. SumOf(b, BufferOwners) \in Nat
    BY <1>2, <1>8, SumNat
  <1>10. SumOf(g, BufferTokens) \in Int
    BY <1>3, <1>8, SumInt
  <1>11. SumOf(d, DOMAIN drains) \in Nat
    BY <1>5, <1>7, SumNat
  <1> QED BY <1>1, <1>7, <1>9, <1>10, <1>11

\* A buffer that changes changes what providers may ask back by as much.
LEMMA BufferMoves ==
  ASSUME ReservesAssumption, ReserveTypes, NEW p \in BufferOwners, NEW n \in Nat,
         BufferBecomes(p, n)
  PROVE  /\ SumOf(Balances', BufferOwners) = SumOf(Balances, BufferOwners) - Balance(p) + n
         /\ Balance(p) \in Nat
  <1>1. PICK b, c : b = Balances /\ c = Balances'
    OBVIOUS
  <1>2. \A q \in BufferOwners : b[q] = Balance(q) /\ c[q] = Balance(q)'
    BY <1>1 DEF Balances
  <1>3. \A q \in BufferOwners : Balance(q) \in Nat
    BY DEF Balance, Larger, ReserveTypes, Absent
  <1>4. Balance(p)' = n /\ \A q \in BufferOwners \ {p} : Balance(q)' = Balance(q)
    BY DEF Balance, Larger, ReserveTypes, BufferBecomes
  <1>5. \A q \in BufferOwners : b[q] \in Int /\ c[q] \in Int
    BY <1>2, <1>3, <1>4
  <1>6. \A q \in BufferOwners \ {p} : c[q] = b[q]
    BY <1>2, <1>4
  <1>7. IsFiniteSet(BufferOwners)
    BY DEF ReservesAssumption
  <1>8. SumOf(c, BufferOwners) = SumOf(b, BufferOwners) - b[p] + c[p]
    BY <1>5, <1>6, <1>7, SumOfChanged
  <1>9. b[p] = Balance(p) /\ c[p] = n
    BY <1>2, <1>4
  <1> QED BY <1>1, <1>3, <1>8, <1>9

\* Tokens that come or go change what was gained by as much.
LEMMA HoldingsMove ==
  ASSUME ReservesAssumption, ReserveTypes, NEW t \in BufferTokens, NEW k \in Nat,
         HoldingBecomes(t, k)
  PROVE  /\ SumOf(Gained', BufferTokens) = SumOf(Gained, BufferTokens) - holdings[t] + k
         /\ holdings[t] \in Nat /\ holdings' \in [BufferTokens -> Nat]
  <1>1. PICK g, h : g = Gained /\ h = Gained'
    OBVIOUS
  <1>2. \A x \in BufferTokens : /\ g[x] = holdings[x] - InitialHoldings
                                /\ h[x] = holdings'[x] - InitialHoldings
    BY <1>1 DEF Gained
  <1>3. /\ \A x \in BufferTokens : holdings[x] \in Nat /\ holdings'[x] \in Nat
        /\ holdings' \in [BufferTokens -> Nat] /\ holdings'[t] = k
    BY DEF ReserveTypes, HoldingBecomes
  <1>4. \A x \in BufferTokens \ {t} : holdings'[x] = holdings[x]
    BY DEF ReserveTypes, HoldingBecomes
  <1>5. InitialHoldings \in Nat
    BY DEF ReservesAssumption
  <1>6. \A x \in BufferTokens : g[x] \in Int /\ h[x] \in Int
    BY <1>2, <1>3, <1>5
  <1>7. \A x \in BufferTokens \ {t} : h[x] = g[x]
    BY <1>2, <1>4
  <1>8. IsFiniteSet(BufferTokens)
    BY DEF ReservesAssumption
  <1>9. SumOf(h, BufferTokens) = SumOf(g, BufferTokens) - g[t] + h[t]
    <2>1. ASSUME NEW T, IsFiniteSet(T), NEW a, NEW b, NEW y \in T,
                 \A z \in T : a[z] \in Int /\ b[z] \in Int, \A z \in T \ {y} : b[z] = a[z]
          PROVE  SumOf(b, T) = SumOf(a, T) - a[y] + b[y]
      BY <2>1, SumOfChanged
    <2> QED BY <1>6, <1>7, <1>8, <2>1
  <1>10. SumOf(g, BufferTokens) \in Int
    BY <1>6, <1>8, SumInt
  <1>11. g[t] = holdings[t] - InitialHoldings /\ h[t] = k - InitialHoldings
    BY <1>2, <1>3
  <1> QED BY <1>1, <1>3, <1>5, <1>9, <1>10, <1>11

\* A buffer that grows by no more than what comes in, or shrinks by no less than
\* what goes out, stays covered.
LEMMA BufferKeeps ==
  ASSUME ReservesAssumption, ReserveIInv, NEW p \in BufferOwners, NEW t \in BufferTokens,
         NEW n \in Nat, NEW k \in Nat,
         BufferBecomes(p, n), HoldingBecomes(t, k),
         n - Balance(p) <= k - holdings[t],
         UNCHANGED <<now, drains, threshold, routed>>
  PROVE  ReserveIInv'
  <1>1. ReserveTypes
    BY DEF ReserveIInv
  <1>2. /\ SumOf(Balances', BufferOwners) = SumOf(Balances, BufferOwners) - Balance(p) + n
        /\ Balance(p) \in Nat
    BY <1>1, BufferMoves
  <1>3. /\ SumOf(Gained', BufferTokens) = SumOf(Gained, BufferTokens) - holdings[t] + k
        /\ holdings[t] \in Nat /\ holdings' \in [BufferTokens -> Nat]
    BY <1>1, HoldingsMove
  <1>4. /\ SumOf(Balances, BufferOwners) \in Nat /\ SumOf(Gained, BufferTokens) \in Int
        /\ SumOf(Drained, DOMAIN drains) \in Nat
    BY <1>1, ReserveSums
  <1>5. SumOf(Drained, DOMAIN drains)' = SumOf(Drained, DOMAIN drains)
    BY DEF Drained
  <1>6. BuffersAreCovered'
    BY <1>2, <1>3, <1>4, <1>5 DEF ReserveIInv, ReserveInv, BuffersAreCovered
  <1>7. buffers' \in [BufferOwners -> {Absent} \cup Nat]
    BY <1>1 DEF ReserveTypes, BufferBecomes
  <1>8. ReserveTypes'
    BY <1>1, <1>3, <1>7 DEF ReserveTypes
  <1> QED BY <1>6, <1>8 DEF ReserveIInv, ReserveInv, DrainsKeepApart, RoutedIsWorthwhile

\* Each of the three calls moves a buffer and the tokens behind it alike.
LEMMA BufferCallsKeep ==
  ASSUME ReservesAssumption, ReserveIInv, NEW p \in BufferOwners, NEW t \in BufferTokens,
         NEW n \in BufferAmounts, now' = now,
         InitializeBuffer(p, t, n) \/ TopUpBuffer(p, t, n) \/ WithdrawBuffer(p, t, n)
  PROVE  ReserveIInv'
  <1>1. /\ n \in Nat /\ holdings[t] \in Nat /\ Balance(p) \in Nat /\ MinBuffer \in Nat
        /\ holdings \in [BufferTokens -> Nat]
    BY DEF ReserveIInv, ReserveTypes, ReservesAssumption, Balance, Larger, Absent
  <1>2. CASE InitializeBuffer(p, t, n)
    <2>1. PICK k \in Nat : k = holdings[t] + n
      BY <1>1
    <2>2. /\ BufferBecomes(p, n) /\ HoldingBecomes(t, k)
          /\ UNCHANGED <<drains, threshold, routed>>
      BY <1>2, <2>1 DEF InitializeBuffer, BufferBecomes, HoldingBecomes
    <2> QED BY <1>1, <2>1, <2>2, BufferKeeps
  <1>3. CASE TopUpBuffer(p, t, n)
    <2>1. PICK k \in Nat : k = holdings[t] + n
      BY <1>1
    <2>2. PICK b \in Nat : b = Balance(p) + n
      BY <1>1
    <2>3. /\ BufferBecomes(p, b) /\ HoldingBecomes(t, k)
          /\ UNCHANGED <<drains, threshold, routed>>
      BY <1>3, <2>1, <2>2 DEF TopUpBuffer, BufferBecomes, HoldingBecomes
    <2> QED BY <1>1, <2>1, <2>2, <2>3, BufferKeeps
  <1>4. CASE WithdrawBuffer(p, t, n)
    <2>1. PICK k \in Nat : k = holdings[t] - n
      BY <1>1, <1>4 DEF WithdrawBuffer
    <2>2. PICK b \in Nat : b = Balance(p) - n
      BY <1>1, <1>4 DEF WithdrawBuffer
    <2>3. /\ BufferBecomes(p, b) /\ HoldingBecomes(t, k)
          /\ UNCHANGED <<drains, threshold, routed>>
      BY <1>4, <2>1, <2>2 DEF WithdrawBuffer, BufferBecomes, HoldingBecomes
    <2> QED BY <1>1, <2>1, <2>2, <2>3, BufferKeeps
  <1> QED BY <1>2, <1>3, <1>4

\* A drain is recorded for what it takes, after the cooldown, and leaves the reserve.
LEMMA DrainKeeps ==
  ASSUME ReservesAssumption, ReserveIInv, NEW n \in BufferAmounts, now' = now,
         EmergencyDrain(n)
  PROVE  ReserveIInv'
  <1>1. ReserveTypes
    BY DEF ReserveIInv
  <1>2. /\ n \in Nat /\ NativeToken \in BufferTokens /\ MinDrain \in Nat
        /\ holdings[NativeToken] \in Nat /\ holdings \in [BufferTokens -> Nat]
        /\ now \in Nat /\ drains \in Seq(Drains) /\ DrainCooldown \in Nat
    BY <1>1 DEF ReserveTypes, ReservesAssumption
  <1>3. PICK k : k = holdings[NativeToken] - n
    OBVIOUS
  <1>4. k \in Nat /\ k >= 10 * MinDrain
    BY <1>2, <1>3 DEF EmergencyDrain
  <1>5. HoldingBecomes(NativeToken, k)
    BY <1>3 DEF EmergencyDrain, HoldingBecomes
  <1>6. holdings'[NativeToken] = k
    BY <1>2, <1>5 DEF HoldingBecomes
  <1>7. PICK r : r = [at |-> now, amount |-> n, left |-> k]
    OBVIOUS
  <1>8. drains' = Append(drains, r) /\ r \in Drains
    BY <1>2, <1>4, <1>6, <1>7 DEF EmergencyDrain, Drains
  <1>9. PICK m \in Nat : m = Len(drains)
    BY <1>2
  <1>10. /\ drains' \in Seq(Drains) /\ DOMAIN drains' = 1 .. m + 1 /\ DOMAIN drains = 1 .. m
         /\ drains'[m + 1] = r /\ \A i \in 1 .. m : drains'[i] = drains[i]
    BY <1>2, <1>8, <1>9
  <1>11. ASSUME NEW i \in DOMAIN drains'
         PROVE  /\ drains'[i].at <= now
                /\ drains'[i].left >= 10 * MinDrain
                /\ i > 1 => drains'[i].at >= drains'[i - 1].at + DrainCooldown
    <2>1. CASE i \in 1 .. m
      <3>1. i > 1 => i - 1 \in 1 .. m
        BY <2>1
      <3> QED BY <1>1, <1>10, <2>1, <3>1
              DEF ReserveTypes, ReserveIInv, ReserveInv, DrainsKeepApart
    <2>2. CASE i = m + 1
      <3>1. drains'[i] = r /\ r.at = now /\ r.left = k
        BY <1>7, <1>10, <2>2
      <3>2. CASE m = 0
        BY <1>2, <1>4, <2>2, <3>1, <3>2
      <3>3. CASE m > 0
        <4>1. drains # <<>>
          BY <1>9, <3>3
        <4>2. now >= drains[m].at + DrainCooldown
          BY <1>9, <4>1 DEF EmergencyDrain, CooledDown
        <4>3. drains'[i - 1] = drains[m]
          BY <1>10, <2>2, <3>3
        <4> QED BY <1>2, <1>4, <3>1, <4>2, <4>3
      <3> QED BY <3>2, <3>3
    <2> QED BY <1>10, <2>1, <2>2
  <1>12. UNCHANGED <<buffers, threshold, routed>>
    BY DEF EmergencyDrain
  <1>13. /\ SumOf(Gained', BufferTokens) = SumOf(Gained, BufferTokens) - holdings[NativeToken] + k
         /\ holdings' \in [BufferTokens -> Nat]
    BY <1>1, <1>2, <1>4, <1>5, HoldingsMove
  <1>14. ReserveTypes'
    BY <1>1, <1>10, <1>11, <1>12, <1>13 DEF ReserveTypes
  <1>15. SumOf(Drained', DOMAIN drains') = SumOf(Drained, DOMAIN drains) + n
    <2>1. PICK d, e : d = Drained /\ e = Drained'
      OBVIOUS
    <2>2. PICK S : S = DOMAIN drains
      OBVIOUS
    <2>3. DOMAIN drains' = S \cup {m + 1} /\ m + 1 \notin S
      BY <1>10, <2>2
    <2>4. \A i \in S : d[i] = drains[i].amount /\ e[i] = drains[i].amount
      BY <1>10, <2>1, <2>2, <2>3 DEF Drained
    <2>5. e[m + 1] = n
      BY <1>7, <1>10, <2>1, <2>3 DEF Drained
    <2>6. \A i \in S : drains[i] \in Drains
      BY <1>2, <2>2
    <2>7. \A i \in S : drains[i].amount \in Nat
      BY <2>6 DEF Drains
    <2>8. IsFiniteSet(S)
      BY <1>1, <2>2, ReserveSums
    <2>9. \A i \in S \cup {m + 1} : e[i] \in Int
      BY <1>2, <2>4, <2>5, <2>7
    <2>10. SumOf(e, S \cup {m + 1}) = SumOf(e, S) + e[m + 1]
      BY <2>3, <2>8, <2>9, SumAdd
    <2>11. SumOf(e, S) = SumOf(d, S)
      <3>1. \A i \in S : d[i] \in Int /\ e[i] = d[i]
        BY <2>4, <2>7
      <3> QED BY <2>8, <3>1, SumOfSame
    <2> QED BY <2>1, <2>2, <2>3, <2>5, <2>10, <2>11
  <1>16. /\ SumOf(Balances, BufferOwners) \in Nat /\ SumOf(Gained, BufferTokens) \in Int
         /\ SumOf(Drained, DOMAIN drains) \in Nat
    BY <1>1, ReserveSums
  <1>17. SumOf(Balances, BufferOwners)' = SumOf(Balances, BufferOwners)
    BY <1>12 DEF Balances, Balance
  <1>18. BuffersAreCovered'
    BY <1>2, <1>3, <1>13, <1>15, <1>16, <1>17 DEF ReserveIInv, ReserveInv, BuffersAreCovered
  <1>19. DrainsKeepApart'
    BY <1>11 DEF DrainsKeepApart
  <1> QED BY <1>12, <1>14, <1>18, <1>19 DEF ReserveIInv, ReserveInv, RoutedIsWorthwhile

\* What is routed is the amount, a half or a quarter of it, or nothing.
LEMMA RoutableBounds ==
  ASSUME NEW n \in Nat, NEW q \in Nat, threshold \in Int, n >= threshold
  PROVE  Routable(n, q) = 0 \/ Routable(n, q) \in threshold .. n
  <1>1. ASSUME NEW part \in Nat, part <= n, NEW luck \in Nat
        PROVE  Fallback(part, q, luck) = 0 \/ Fallback(part, q, luck) \in threshold .. n
    BY <1>1 DEF Fallback
  <1>2. n \div 2 \in Nat /\ n \div 2 <= n /\ n \div 4 \in Nat /\ n \div 4 <= n
    OBVIOUS
  <1>3. n \in threshold .. n
    OBVIOUS
  <1>4. PICK half, quarter : half = Fallback(n \div 2, q, 95) /\ quarter = Fallback(n \div 4, q, 98)
    OBVIOUS
  <1>5. half = 0 \/ half \in threshold .. n
    BY <1>1, <1>2, <1>4
  <1>6. quarter = 0 \/ quarter \in threshold .. n
    BY <1>1, <1>2, <1>4
  <1>7. Routable(n, q) \in {half, n, quarter}
    BY <1>4, Zenon DEF Routable
  <1> QED BY <1>3, <1>5, <1>6, <1>7

\* Routing and its threshold touch no buffer.
LEMMA RouteKeeps ==
  ASSUME ReservesAssumption, ReserveIInv, NEW n \in RouteAmounts, NEW q \in LedgerNumbers,
         RouteToYield(n, q), now' = now
  PROVE  ReserveIInv'
  <1>1. n \in Nat /\ q \in Nat /\ threshold \in Int
    BY DEF ReservesAssumption, ReserveIInv, ReserveTypes
  <1>2. /\ n >= threshold /\ UNCHANGED <<buffers, holdings, drains, threshold>>
        /\ routed' = [asked |-> n, threshold |-> threshold, amount |-> Routable(n, q)]
    BY DEF RouteToYield
  <1>3. RoutedIsWorthwhile'
    BY <1>1, <1>2, RoutableBounds DEF RoutedIsWorthwhile
  <1>4. ReserveTypes'
    BY <1>2 DEF ReserveIInv, ReserveTypes
  <1>5. BuffersAreCovered' /\ DrainsKeepApart'
    BY <1>2 DEF ReserveIInv, ReserveInv, BuffersAreCovered, DrainsKeepApart, Balances, Balance,
                Gained, Drained
  <1> QED BY <1>3, <1>4, <1>5 DEF ReserveIInv, ReserveInv

\* What only moves the clock on, or the threshold, keeps the invariant.
LEMMA ReservesUnchanged ==
  ASSUME ReserveIInv, now' \in Nat, now <= now', threshold' \in Int,
         UNCHANGED <<buffers, holdings, drains, routed>>
  PROVE  ReserveIInv'
  <1>1. ReserveTypes'
    <2>1. \A i \in DOMAIN drains : drains[i] \in Drains
      BY DEF ReserveIInv, ReserveTypes
    <2>2. \A i \in DOMAIN drains : drains[i].at \in Nat
      BY <2>1 DEF Drains
    <2> QED BY <2>2 DEF ReserveIInv, ReserveTypes
  <1>2. ReserveInv'
    BY DEF ReserveIInv, ReserveInv, BuffersAreCovered, DrainsKeepApart, RoutedIsWorthwhile,
           Balances, Balance, Gained, Drained
  <1> QED BY <1>1, <1>2 DEF ReserveIInv

\* Every step keeps the reserves.
LEMMA ReservesStepKeeps ==
  ASSUME ReservesAssumption, ClockAssumption, ReserveIInv,
         [ReservesNext]_<<now, reserveVars>>
  PROVE  ReserveIInv'
  <1>1. now \in Nat /\ threshold \in Int
    BY DEF ReserveIInv, ReserveTypes
  <1>2. ASSUME NEW n \in RouteThresholds, SetRouteThreshold(n), now' = now
        PROVE  ReserveIInv'
    <2>1. n \in Int
      BY DEF ReservesAssumption
    <2> QED BY <1>1, <1>2, <2>1, ReservesUnchanged DEF SetRouteThreshold
  <1>3. CASE Tick /\ UNCHANGED reserveVars
    BY <1>1, <1>3, ReservesUnchanged DEF Tick, reserveVars
  <1>4. CASE UNCHANGED <<now, reserveVars>>
    BY <1>1, <1>4, ReservesUnchanged DEF reserveVars
  <1> QED
    BY <1>2, <1>3, <1>4, BufferCallsKeep, DrainKeeps, RouteKeeps DEF ReservesNext, ReservesStep

\* The reserves start with what is held for others, and nothing drained.
LEMMA ReservesStart ==
  ASSUME ReservesAssumption, now = 0, ReservesInit
  PROVE  ReserveIInv
  <1>1. ReserveTypes
    BY ReservesAssumption DEF ReservesInit, ReserveTypes, ReservesAssumption
  <1>2. DrainsKeepApart /\ RoutedIsWorthwhile
    BY DEF ReservesInit, DrainsKeepApart, RoutedIsWorthwhile
  <1>3. PICK b, g, d : b = Balances /\ g = Gained /\ d = Drained
    OBVIOUS
  <1>4. IsFiniteSet(BufferOwners) /\ IsFiniteSet(BufferTokens) /\ InitialHoldings \in Nat
    BY ReservesAssumption DEF ReservesAssumption
  <1>5. \A p \in BufferOwners : b[p] = 0
    BY <1>3 DEF ReservesInit, Balances, Balance, Larger, Absent
  <1>6. \A t \in BufferTokens : g[t] = 0
    BY <1>3, <1>4 DEF ReservesInit, Gained
  <1>7. SumOf(b, BufferOwners) = 0 /\ SumOf(g, BufferTokens) = 0
    BY <1>4, <1>5, <1>6, SumOfZeros
  <1>8. DOMAIN drains = {}
    BY DEF ReservesInit
  <1>9. SumOf(d, DOMAIN drains) = 0
    BY <1>8, SumOfNothing
  <1>10. BuffersAreCovered
    BY <1>3, <1>7, <1>9 DEF BuffersAreCovered
  <1> QED BY <1>1, <1>2, <1>10 DEF ReserveIInv, ReserveInv

\* Buffers are covered by what the contract holds and what was drained by the
\* rules, and what is routed is worthwhile, for every set of providers, tokens
\* and amounts, every cooldown and every luck of the ledger.
THEOREM ReservesInvariant == ReservesSpec => []ReserveInv
  <1>1. now = 0 /\ ReservesInit => ReserveIInv
    BY ReservesStart, ReservesAssumption
  <1>2. ReserveIInv /\ [ReservesNext]_<<now, reserveVars>> => ReserveIInv'
    BY ReservesStepKeeps, ReservesAssumption, ClockAssumption
  <1>3. ReserveIInv => ReserveInv
    BY DEF ReserveIInv
  <1> QED BY <1>1, <1>2, <1>3, PTL DEF ReservesSpec

\* Vaults and reserves keep what they promise side by side, too: an exchange
\* changes no buffer, no drain and no routing, and none of these a vault.
THEOREM FundsAreAccounted == FundsSpec => []FundsInv
  <1>1. FundsInit => ExchangeIInv /\ ReserveIInv
    BY ExchangeStarts, ReservesStart, ReservesAssumption DEF FundsInit
  <1>2. ExchangeIInv /\ ReserveIInv /\ [FundsNext]_<<now, exchangeVars, reserveVars>>
        => (ExchangeIInv /\ ReserveIInv)'
    <2> SUFFICES ASSUME ExchangeIInv, ReserveIInv,
                        [FundsNext]_<<now, exchangeVars, reserveVars>>
                 PROVE  ExchangeIInv' /\ ReserveIInv'
      OBVIOUS
    <2>1. [ExchangeNext]_exchangeVars /\ [ReservesNext]_<<now, reserveVars>>
      BY DEF FundsNext, ExchangeNext
    <2> QED
      BY <2>1, ExchangeStepKeeps, ReservesStepKeeps, ExchangeAssumption, ReservesAssumption,
         ClockAssumption
  <1>3. ExchangeIInv /\ ReserveIInv => FundsInv
    BY DEF ExchangeIInv, ReserveIInv, FundsInv
  <1> QED BY <1>1, <1>2, <1>3, PTL DEF FundsSpec

-----------------------------------------------------------------------------
(* Device bindings *)

\* A registration moves both maps together, and remembers the device replaced.
LEMMA RegisterKeeps ==
  ASSUME DeviceInv, DeviceAssumption, NEW m \in DeviceMeters, NEW p \in Persons,
         NEW d \in Devices, RegisterDevice(d, m, p)
  PROVE  DeviceInv'
  <1> USE DEF DeviceInv, DeviceTypeOK
  <1>1. /\ boundTo' = [boundTo EXCEPT ![d] = m]
        /\ deviceOf' = [deviceOf EXCEPT ![m] = d]
        /\ lastDevice' = [lastDevice EXCEPT ![m] =
             IF deviceOf[m] \in {Unbound, d} THEN @ ELSE @ \cup {deviceOf[m]}]
        /\ boundTo[d] \in {Unbound, m}
        /\ UNCHANGED <<userOf, inService, pendingTransfers>>
    BY DEF RegisterDevice
  <1>2. m # Unbound
    BY DEF DeviceAssumption, Unbound
  <1>3. DeviceTypeOK'
    <2>1. boundTo' \in [Devices -> DeviceMeters \cup {Unbound}]
          /\ deviceOf' \in [DeviceMeters -> Devices \cup {Unbound}]
      BY <1>1
    <2>2. lastDevice' \in [DeviceMeters -> SUBSET Devices]
      BY <1>1
    <2> QED BY <1>1, <2>1, <2>2
  <1>4. \A n \in DeviceMeters : deviceOf'[n] # Unbound => boundTo'[deviceOf'[n]] = n
    <2> SUFFICES ASSUME NEW n \in DeviceMeters, deviceOf'[n] # Unbound
                 PROVE  boundTo'[deviceOf'[n]] = n
      OBVIOUS
    <2>1. CASE n = m
      BY <1>1, <2>1
    <2>2. CASE n # m
      <3>1. deviceOf'[n] = deviceOf[n] /\ deviceOf[n] \in Devices /\ boundTo[deviceOf[n]] = n
        BY <1>1, <2>2 DEF BindingsAgree
      <3>2. n # Unbound
        BY DEF DeviceAssumption, Unbound
      <3>3. deviceOf[n] # d
        BY <1>1, <2>2, <3>1, <3>2
      <3> QED BY <1>1, <3>1, <3>3
    <2> QED BY <2>1, <2>2
  <1>5. \A e \in Devices : boundTo'[e] # Unbound =>
          e = deviceOf'[boundTo'[e]] \/ e \in lastDevice'[boundTo'[e]]
    <2> SUFFICES ASSUME NEW e \in Devices, boundTo'[e] # Unbound
                 PROVE  e = deviceOf'[boundTo'[e]] \/ e \in lastDevice'[boundTo'[e]]
      OBVIOUS
    <2>1. CASE e = d
      BY <1>1, <2>1
    <2>2. CASE e # d
      <3>1. boundTo'[e] = boundTo[e] /\ boundTo[e] \in DeviceMeters
        BY <1>1, <2>2
      <3>2. e = deviceOf[boundTo[e]] \/ e \in lastDevice[boundTo[e]]
        BY <3>1 DEF BindingsAgree
      <3>3. CASE boundTo[e] # m
        BY <1>1, <3>1, <3>2, <3>3
      <3>4. CASE boundTo[e] = m
        <4>1. CASE e \in lastDevice[m]
          BY <1>1, <3>1, <3>4, <4>1
        <4>2. CASE e = deviceOf[m]
          <5>1. deviceOf[m] \notin {Unbound, d}
            BY <2>2, <4>2 DEF DeviceAssumption, Unbound
          <5> QED BY <1>1, <3>1, <3>4, <4>2, <5>1
        <4> QED BY <3>2, <3>4, <4>1, <4>2
      <3> QED BY <3>3, <3>4
    <2> QED BY <2>1, <2>2
  <1> QED BY <1>3, <1>4, <1>5 DEF BindingsAgree

\* Every step of the bindings keeps them sound.
LEMMA DeviceStepKeeps ==
  ASSUME DeviceInv, DeviceAssumption, [DeviceNext]_<<now, deviceVars>>
  PROVE  DeviceInv'
  <1> USE DEF DeviceInv, DeviceTypeOK
  <1>1. ASSUME NEW m \in DeviceMeters, NEW p \in Persons, NEW q \in Persons,
               InitiateDeviceTransfer(m, q, p)
        PROVE  DeviceInv'
    <2>1. deviceOf[m] \in Devices
      BY <1>1 DEF InitiateDeviceTransfer, Bound
    <2> QED BY <1>1, <2>1 DEF InitiateDeviceTransfer, BindingsAgree
  <1>2. ASSUME NEW m \in DeviceMeters, NEW p \in Persons, TransferMeterOwnership(m, p)
        PROVE  DeviceInv'
    BY <1>2 DEF TransferMeterOwnership, BindingsAgree
  <1>3. ASSUME NEW m \in DeviceMeters, ToggleService(m)  PROVE DeviceInv'
    BY <1>3 DEF ToggleService, BindingsAgree
  <1>4. ASSUME UNCHANGED deviceVars  PROVE DeviceInv'
    BY <1>4 DEF deviceVars, BindingsAgree
  <1> QED
    BY <1>1, <1>2, <1>3, <1>4, RegisterKeeps DEF DeviceNext, DeviceStep, CompleteDeviceTransfer

\* The two maps agree whatever is registered, replaced, transferred or taken out
\* of service, for every set of devices, meters and persons.
THEOREM DeviceInvariant == DeviceSpec => []DeviceInv
  <1>1. DeviceInit => DeviceInv
    BY DEF DeviceInit, DeviceInv, DeviceTypeOK, BindingsAgree
  <1> QED
    BY <1>1, DeviceStepKeeps, DeviceAssumption, PTL DEF DeviceSpec

-----------------------------------------------------------------------------
(* Private reports *)

PrivateReports == [meter : PrivateMeters, at : Nat, units : ReportUnits]

\* Types, which the invariant leaves to the data.
PrivacyTypes ==
    /\ now \in Nat
    /\ privacy \in [PrivateMeters -> [enabled : BOOLEAN, verified : Nat]]
    /\ zkMeters \in Seq(PrivateMeters) /\ counted \in Seq(PrivateReports)
    /\ reports \subseteq PrivateReports

\* The inductive invariant: no meter is listed twice, and those whose mode is on
\* are listed; no more is shown than was counted.
ListedOnce == \A i, j \in DOMAIN zkMeters : zkMeters[i] = zkMeters[j] => i = j

EnabledAreListed ==
    \A m \in PrivateMeters : privacy[m].enabled => \E i \in DOMAIN zkMeters : zkMeters[i] = m

ShownWereCounted ==
    \A m \in PrivateMeters : privacy[m].verified <= Cardinality(CountedOf(m))

PrivacyIInv ==
    /\ PrivacyTypes /\ CountedOnce /\ NullifiersAreCounted
    /\ ListedOnce /\ EnabledAreListed /\ ShownWereCounted

\* What was counted for a meter is a finite set.
LEMMA CountedIsFinite ==
  ASSUME counted \in Seq(PrivateReports), NEW m
  PROVE  IsFiniteSet(CountedOf(m)) /\ Cardinality(CountedOf(m)) \in Nat
  <1>1. Len(counted) \in Nat /\ DOMAIN counted = 1 .. Len(counted)
    OBVIOUS
  <1>2. IsFiniteSet(1 .. Len(counted))
    BY <1>1, FS_Interval
  <1>3. CountedOf(m) \subseteq 1 .. Len(counted)
    BY <1>1 DEF CountedOf
  <1> QED BY <1>2, <1>3, FS_Subset, FS_CardinalityType

\* A list that names a meter once has one place for it at most.
LEMMA PlacesOfMeter ==
  ASSUME ListedOnce, NEW m
  PROVE  Cardinality({i \in DOMAIN zkMeters : zkMeters[i] = m}) <= 1
  <1> DEFINE places == {i \in DOMAIN zkMeters : zkMeters[i] = m}
  <1>1. CASE places = {}
    BY <1>1, FS_EmptySet
  <1>2. CASE places # {}
    <2>1. PICK i : i \in places
      BY <1>2
    <2>2. places = {i}
      BY <2>1 DEF ListedOnce
    <2>3. Cardinality(places) = 1
      BY <2>2, FS_Singleton
    <2> QED BY <2>3
  <1> QED BY <1>1, <1>2

\* The inductive invariant implies what the run checks.
LEMMA PrivacyHolds == PrivacyIInv => PrivacyInv
  BY PlacesOfMeter DEF PrivacyIInv, PrivacyInv, StatusMatchesList, EnabledAreListed,
     ShownWereCounted

\* Nobody is listed and nothing is counted at the start.
LEMMA PrivacyStart == now = 0 /\ PrivacyInit => PrivacyIInv
  <1> SUFFICES ASSUME now = 0, PrivacyInit  PROVE PrivacyIInv
    OBVIOUS
  <1>1. PrivacyTypes
    BY DEF PrivacyInit, PrivacyTypes, NoPrivacy
  <1>2. CountedOnce /\ NullifiersAreCounted /\ ListedOnce /\ EnabledAreListed
    BY DEF PrivacyInit, CountedOnce, NullifiersAreCounted, ListedOnce, EnabledAreListed, NoPrivacy
  <1>3. ShownWereCounted
    <2> SUFFICES ASSUME NEW m \in PrivateMeters
                 PROVE  privacy[m].verified <= Cardinality(CountedOf(m))
      BY DEF ShownWereCounted
    <2>1. privacy[m].verified = 0
      BY DEF PrivacyInit, NoPrivacy
    <2>2. Cardinality(CountedOf(m)) \in Nat
      BY <1>1, CountedIsFinite DEF PrivacyTypes
    <2> QED BY <2>1, <2>2
  <1> QED BY <1>1, <1>2, <1>3 DEF PrivacyIInv

\* Steps that count nothing.
LEMMA NothingCounted ==
  ASSUME PrivacyIInv, now' \in Nat, UNCHANGED <<nullifiers, counted>>,
         reports' \subseteq PrivateReports,
         privacy' \in [PrivateMeters -> [enabled : BOOLEAN, verified : Nat]],
         zkMeters' \in Seq(PrivateMeters), ListedOnce', EnabledAreListed',
         \A m \in PrivateMeters : privacy'[m].verified <= privacy[m].verified
  PROVE  PrivacyIInv'
  <1>1. PrivacyTypes'
    BY DEF PrivacyIInv, PrivacyTypes
  <1>2. CountedOnce' /\ NullifiersAreCounted'
    BY DEF PrivacyIInv, CountedOnce, NullifiersAreCounted, Nullifier
  <1>3. ASSUME NEW m \in PrivateMeters
        PROVE  privacy'[m].verified <= Cardinality(CountedOf(m)')
    <2>1. CountedOf(m)' = CountedOf(m)
      BY DEF CountedOf
    <2>2. privacy[m].verified <= Cardinality(CountedOf(m))
      BY DEF PrivacyIInv, ShownWereCounted
    <2>3. Cardinality(CountedOf(m)) \in Nat
      BY CountedIsFinite DEF PrivacyIInv, PrivacyTypes
    <2>4. privacy[m].verified \in Nat /\ privacy'[m].verified \in Nat
      BY DEF PrivacyIInv, PrivacyTypes
    <2> QED BY <2>1, <2>2, <2>3, <2>4
  <1> QED BY <1>1, <1>2, <1>3 DEF PrivacyIInv, ShownWereCounted

\* Switching privacy on lists the meter, once.
LEMMA EnableKeeps ==
  ASSUME PrivacyIInv, NEW m \in PrivateMeters, EnablePrivacy(m), now' = now
  PROVE  PrivacyIInv'
  <1>1. /\ zkMeters \in Seq(PrivateMeters)
        /\ privacy \in [PrivateMeters -> [enabled : BOOLEAN, verified : Nat]]
    BY DEF PrivacyIInv, PrivacyTypes
  <1>2. privacy' = [privacy EXCEPT ![m] = [enabled |-> TRUE, verified |-> 0]]
    BY DEF EnablePrivacy
  <1>3. privacy' \in [PrivateMeters -> [enabled : BOOLEAN, verified : Nat]]
    BY <1>1, <1>2
  <1>4. ASSUME NEW k \in PrivateMeters  PROVE privacy'[k].verified <= privacy[k].verified
    <2>1. privacy[k].verified \in Nat
      BY <1>1
    <2> QED BY <1>1, <1>2, <2>1
  <1>5. zkMeters' \in Seq(PrivateMeters) /\ ListedOnce' /\ EnabledAreListed'
    <2>1. CASE m \in {zkMeters[i] : i \in DOMAIN zkMeters}
      <3>1. zkMeters' = zkMeters
        BY <2>1 DEF EnablePrivacy
      <3>2. ListedOnce'
        BY <3>1 DEF PrivacyIInv, ListedOnce
      <3>3. EnabledAreListed'
        BY <1>1, <1>2, <2>1, <3>1 DEF PrivacyIInv, EnabledAreListed
      <3> QED BY <1>1, <3>1, <3>2, <3>3
    <2>2. CASE m \notin {zkMeters[i] : i \in DOMAIN zkMeters}
      <3>1. zkMeters' = Append(zkMeters, m)
        BY <2>2 DEF EnablePrivacy
      <3>2. /\ zkMeters' \in Seq(PrivateMeters)
            /\ DOMAIN zkMeters = 1 .. Len(zkMeters) /\ Len(zkMeters) \in Nat
            /\ DOMAIN zkMeters' = 1 .. Len(zkMeters) + 1
            /\ \A i \in DOMAIN zkMeters : zkMeters'[i] = zkMeters[i]
            /\ zkMeters'[Len(zkMeters) + 1] = m
        BY <1>1, <3>1
      <3>3. \A i \in DOMAIN zkMeters' : i \in DOMAIN zkMeters \/ i = Len(zkMeters) + 1
        BY <3>2
      <3>4. ListedOnce'
        BY <2>2, <3>2, <3>3 DEF PrivacyIInv, ListedOnce
      <3>5. EnabledAreListed'
        <4> SUFFICES ASSUME NEW k \in PrivateMeters, privacy'[k].enabled
                     PROVE  \E i \in DOMAIN zkMeters' : zkMeters'[i] = k
          BY DEF EnabledAreListed
        <4>1. CASE k = m
          <5>1. Len(zkMeters) + 1 \in DOMAIN zkMeters'
            BY <3>2
          <5> QED BY <3>2, <4>1, <5>1
        <4>2. CASE k # m
          <5>1. privacy[k].enabled
            BY <1>1, <1>2, <4>2
          <5>2. PICK i \in DOMAIN zkMeters : zkMeters[i] = k
            BY <5>1 DEF PrivacyIInv, EnabledAreListed
          <5>3. i \in DOMAIN zkMeters'
            BY <3>2
          <5> QED BY <3>2, <5>2, <5>3
        <4> QED BY <4>1, <4>2
      <3> QED BY <3>2, <3>4, <3>5
    <2> QED BY <2>1, <2>2
  <1> QED BY <1>3, <1>4, <1>5, NothingCounted DEF EnablePrivacy, PrivacyIInv, PrivacyTypes

\* A report counted has a nullifier of its own and is shown as one more.
LEMMA SubmitZkKeeps ==
  ASSUME PrivacyIInv, NEW report \in reports, SubmitZkReport(report), now' = now
  PROVE  PrivacyIInv'
  <1>1. /\ report \in PrivateReports /\ counted \in Seq(PrivateReports)
        /\ privacy \in [PrivateMeters -> [enabled : BOOLEAN, verified : Nat]]
    BY DEF PrivacyIInv, PrivacyTypes
  <1>2. PICK m \in PrivateMeters : m = report.meter
    BY <1>1 DEF PrivateReports
  <1>3. /\ Nullifier(report) \notin nullifiers
        /\ nullifiers' = nullifiers \cup {Nullifier(report)}
        /\ privacy' = [privacy EXCEPT ![m].verified = @ + 1]
        /\ counted' = Append(counted, report)
        /\ UNCHANGED <<zkMeters, reports>>
    BY <1>2 DEF SubmitZkReport
  <1>4. /\ counted' \in Seq(PrivateReports)
        /\ DOMAIN counted = 1 .. Len(counted) /\ Len(counted) \in Nat
        /\ DOMAIN counted' = 1 .. Len(counted) + 1
        /\ \A i \in DOMAIN counted : counted'[i] = counted[i]
        /\ counted'[Len(counted) + 1] = report
    BY <1>1, <1>3
  <1>5. \A i \in DOMAIN counted' : i \in DOMAIN counted \/ i = Len(counted) + 1
    BY <1>4
  <1>6. DOMAIN counted' = DOMAIN counted \cup {Len(counted) + 1}
        /\ Len(counted) + 1 \notin DOMAIN counted
    BY <1>4
  <1>7. PrivacyTypes'
    <2>1. privacy' \in [PrivateMeters -> [enabled : BOOLEAN, verified : Nat]]
      BY <1>1, <1>3
    <2> QED BY <1>3, <1>4, <2>1 DEF PrivacyIInv, PrivacyTypes
  <1>8. NullifiersAreCounted'
    <2>1. nullifiers = {Nullifier(counted[i]) : i \in DOMAIN counted}
      BY DEF PrivacyIInv, NullifiersAreCounted
    <2> QED BY <1>3, <1>4, <1>6, <2>1 DEF NullifiersAreCounted, Nullifier
  <1>9. CountedOnce'
    <2>1. \A i \in DOMAIN counted : Nullifier(counted[i]) # Nullifier(report)
      BY <1>3 DEF PrivacyIInv, NullifiersAreCounted
    <2> QED BY <1>4, <1>5, <2>1 DEF PrivacyIInv, CountedOnce, Nullifier
  <1>10. ListedOnce' /\ EnabledAreListed'
    <2>1. \A k \in PrivateMeters : privacy'[k].enabled = privacy[k].enabled
      BY <1>1, <1>3
    <2> QED BY <1>3, <2>1 DEF PrivacyIInv, ListedOnce, EnabledAreListed
  <1>11. ASSUME NEW k \in PrivateMeters
         PROVE  privacy'[k].verified <= Cardinality(CountedOf(k)')
    <2>1. /\ privacy[k].verified <= Cardinality(CountedOf(k))
          /\ privacy[k].verified \in Nat
          /\ IsFiniteSet(CountedOf(k)) /\ Cardinality(CountedOf(k)) \in Nat
      BY <1>1, CountedIsFinite DEF PrivacyIInv, ShownWereCounted
    <2>2. CASE k = m
      <3>1. CountedOf(k)' = CountedOf(k) \cup {Len(counted) + 1}
        BY <1>2, <1>4, <1>6, <2>2 DEF CountedOf
      <3>2. Len(counted) + 1 \notin CountedOf(k)
        BY <1>6 DEF CountedOf
      <3>3. Cardinality(CountedOf(k)') = Cardinality(CountedOf(k)) + 1
        BY <2>1, <3>1, <3>2, FS_AddElement
      <3>4. privacy'[k].verified = privacy[k].verified + 1
        BY <1>1, <1>3, <2>2
      <3> QED BY <2>1, <3>3, <3>4
    <2>3. CASE k # m
      <3>1. CountedOf(k)' = CountedOf(k)
        BY <1>2, <1>4, <1>6, <2>3 DEF CountedOf
      <3>2. privacy'[k].verified = privacy[k].verified
        BY <1>1, <1>3, <2>3
      <3> QED BY <2>1, <3>1, <3>2
    <2> QED BY <2>2, <2>3
  <1> QED BY <1>7, <1>8, <1>9, <1>10, <1>11 DEF PrivacyIInv, ShownWereCounted

\* Every step keeps the invariant of the private reports.
LEMMA PrivacyStepKeeps ==
  ASSUME PrivacyIInv, [PrivacyNext]_<<now, privacyVars>>
  PROVE  PrivacyIInv'
  <1>1. PrivacyTypes /\ ListedOnce /\ EnabledAreListed
    BY DEF PrivacyIInv
  <1>2. \A m \in PrivateMeters : privacy[m].verified \in Nat
    BY <1>1 DEF PrivacyTypes
  <1>3. ASSUME now' \in Nat, reports' \subseteq PrivateReports,
               UNCHANGED <<privacy, zkMeters, nullifiers, counted>>
        PROVE  PrivacyIInv'
    <2>1. ListedOnce' /\ EnabledAreListed'
      BY <1>1, <1>3 DEF ListedOnce, EnabledAreListed
    <2>2. \A m \in PrivateMeters : privacy'[m].verified <= privacy[m].verified
      BY <1>2, <1>3
    <2> QED BY <1>1, <1>3, <2>1, <2>2, NothingCounted DEF PrivacyTypes
  <1>4. ASSUME NEW m \in PrivateMeters, NEW u \in ReportUnits, GenerateReport(m, u), now' = now
        PROVE  PrivacyIInv'
    <2>1. [meter |-> m, at |-> now, units |-> u] \in PrivateReports
      BY <1>1 DEF PrivacyTypes, PrivateReports
    <2>2. reports' \subseteq PrivateReports
      BY <1>1, <1>4, <2>1 DEF GenerateReport, PrivacyTypes
    <2> QED BY <1>1, <1>3, <1>4, <2>2 DEF GenerateReport, PrivacyTypes
  <1>5. ASSUME NEW m \in PrivateMeters, DisablePrivacy(m), now' = now
        PROVE  PrivacyIInv'
    <2>1. privacy' = [privacy EXCEPT ![m].enabled = FALSE]
      BY <1>5 DEF DisablePrivacy
    <2>2. privacy' \in [PrivateMeters -> [enabled : BOOLEAN, verified : Nat]]
      BY <1>1, <2>1 DEF PrivacyTypes
    <2>3. ASSUME NEW k \in PrivateMeters
          PROVE  /\ privacy'[k].verified <= privacy[k].verified
                 /\ privacy'[k].enabled => privacy[k].enabled
      BY <1>1, <1>2, <2>1 DEF PrivacyTypes
    <2>4. zkMeters' = zkMeters
      BY <1>5 DEF DisablePrivacy
    <2>5. ListedOnce' /\ EnabledAreListed'
      BY <1>1, <2>3, <2>4 DEF ListedOnce, EnabledAreListed
    <2> QED BY <1>1, <1>5, <2>2, <2>3, <2>4, <2>5, NothingCounted DEF DisablePrivacy, PrivacyTypes
  <1>6. ASSUME NEW m \in PrivateMeters, SetVerificationKey(m), now' = now
        PROVE  PrivacyIInv'
    BY <1>1, <1>3, <1>6 DEF SetVerificationKey, PrivacyTypes
  <1>7. ASSUME Tick, UNCHANGED privacyVars  PROVE PrivacyIInv'
    <2>1. now' \in Nat
      BY <1>1, <1>7 DEF Tick, PrivacyTypes
    <2> QED BY <1>1, <1>3, <1>7, <2>1 DEF privacyVars, PrivacyTypes
  <1>8. ASSUME UNCHANGED <<now, privacyVars>>  PROVE PrivacyIInv'
    BY <1>1, <1>3, <1>8 DEF privacyVars, PrivacyTypes
  <1> QED
    BY <1>4, <1>5, <1>6, <1>7, <1>8, EnableKeeps, SubmitZkKeeps DEF PrivacyNext, PrivacyStep

\* A private report is counted at most once, its nullifier is kept, and no more
\* is shown than was counted, however reports are repeated and delayed, for
\* every set of meters and reports.
THEOREM PrivacyInvariant == PrivacySpec => []PrivacyInv
  BY PrivacyStart, PrivacyStepKeeps, PrivacyHolds, PTL DEF PrivacySpec

-----------------------------------------------------------------------------
(* Conservation grants *)

Goal == [target : Nat, current : Nat, deadline : Nat, active : BOOLEAN,
         amount : Nat, achieved : {Absent} \cup Nat]

\* The inductive invariant: besides the stories agreeing, a clock and goals to be
\* reached.
GrantIInv ==
    /\ now \in Nat
    /\ GrantInv
    /\ reachedMatched \subseteq GoalIds

\* The numbers of goals are finitely many, and so are those paid for.
LEMMA ProcessedAreFinite == ASSUME GrantAssumption PROVE IsFiniteSet(Processed)
  <1>1. IsFiniteSet(GoalIds)
    BY FS_Interval DEF GoalIds, GrantAssumption
  <1>2. Processed \subseteq GoalIds
    BY DEF Processed
  <1> QED BY <1>1, <1>2, FS_Subset

\* A goal is made of its fields.
LEMMA GoalFields ==
  ASSUME NEW r \in Goal
  PROVE  /\ r = [target |-> r.target, current |-> r.current, deadline |-> r.deadline,
                 active |-> r.active, amount |-> r.amount, achieved |-> r.achieved]
         /\ r.target \in Nat /\ r.current \in Nat /\ r.deadline \in Nat
         /\ r.active \in BOOLEAN /\ r.amount \in Nat /\ r.achieved \in {Absent} \cup Nat
  BY DEF Goal

\* What is active is a goal, in the range of the count, and not reached.
LEMMA ActiveIsGoal ==
  ASSUME GrantIInv, NEW g \in GoalIds, goals[g].active
  PROVE  /\ IsGoal(g) /\ g \in 1 .. count /\ goals[g].achieved = Absent
         /\ g \notin reachedMatched
  <1>1. IsGoal(g)
    BY DEF IsGoal, NoGoal
  <1>2. g \in 1 .. count
    BY <1>1 DEF GrantIInv, GrantInv, GrantTypeOK
  <1>3. goals[g].achieved = Absent
    BY <1>1 DEF GrantIInv, GrantInv, GrantsMatchGoals
  <1>4. g \notin reachedMatched
    BY <1>3 DEF GrantIInv, GrantInv, GrantsMatchGoals
  <1> QED BY <1>1, <1>2, <1>3, <1>4

\* One goal changes that was not reached with a listener before.
LEMMA OneGoalMoves ==
  ASSUME GrantAssumption, GrantIInv, NEW g \in GoalIds, NEW r \in Goal,
         goals' = [goals EXCEPT ![g] = r], r.active <=> r.achieved = Absent,
         count' \in 0 .. MaxCount, count <= count', g <= count',
         g \notin reachedMatched
  PROVE  /\ goals' \in [GoalIds -> Goal]
         /\ {i \in GoalIds : IsGoal(i)'} \subseteq 1 .. count'
         /\ \A i \in GoalIds : IsGoal(i)' => (goals'[i].active <=> goals'[i].achieved = Absent)
         /\ \A i \in reachedMatched : goals'[i] = goals[i]
         /\ goals'[g] = r
  <1>1. goals \in [GoalIds -> Goal] /\ count \in 0 .. MaxCount
    BY DEF GrantIInv, GrantInv, GrantTypeOK, Goal
  <1>2. goals' \in [GoalIds -> Goal] /\ \A i \in GoalIds : i # g => goals'[i] = goals[i]
        /\ goals'[g] = r
    BY <1>1
  <1>3. \A i \in GoalIds : IsGoal(i) => i \in 1 .. count
    BY DEF GrantIInv, GrantInv, GrantTypeOK
  <1>4. g \in 1 .. count'
    BY DEF GoalIds, GrantAssumption
  <1>5. ASSUME NEW i \in GoalIds, IsGoal(i)'  PROVE i \in 1 .. count'
    <2>1. CASE i = g
      BY <1>4, <2>1
    <2>2. CASE i # g
      <3>1. i \in 1 .. count
        BY <1>2, <1>3, <1>5, <2>2 DEF IsGoal
      <3> QED BY <1>1, <3>1
    <2> QED BY <2>1, <2>2
  <1>6. ASSUME NEW i \in GoalIds, IsGoal(i)'
        PROVE  goals'[i].active <=> goals'[i].achieved = Absent
    <2>1. CASE i = g
      BY <1>2, <2>1
    <2>2. CASE i # g
      BY <1>2, <1>6, <2>2 DEF IsGoal, GrantIInv, GrantInv, GrantsMatchGoals
    <2> QED BY <2>1, <2>2
  <1>7. \A i \in reachedMatched : goals'[i] = goals[i]
    BY <1>2 DEF GrantIInv
  <1> QED BY <1>2, <1>5, <1>6, <1>7

\* A goal that changes in the utility contract alone leaves the stories in step.
LEMMA GoalChangeKeeps ==
  ASSUME GrantAssumption, GrantIInv, NEW g \in GoalIds, NEW r \in Goal,
         goals' = [goals EXCEPT ![g] = r], r.active <=> r.achieved = Absent,
         now' \in Nat, count' \in 0 .. MaxCount, count <= count', g <= count',
         g \notin reachedMatched,
         UNCHANGED <<reachedMatched, listenerVars>>
  PROVE  GrantIInv'
  <1>1. /\ goals' \in [GoalIds -> Goal]
        /\ {i \in GoalIds : IsGoal(i)'} \subseteq 1 .. count'
        /\ \A i \in GoalIds : IsGoal(i)' => (goals'[i].active <=> goals'[i].achieved = Absent)
        /\ \A i \in reachedMatched : goals'[i] = goals[i]
    BY OneGoalMoves
  <1>2. UNCHANGED <<listener, grants, treasury, received>>
    BY DEF listenerVars
  <1>3. GrantTypeOK'
    BY <1>1, <1>2 DEF GrantIInv, GrantInv, GrantTypeOK, Goal
  <1>4. GrantsMatchGoals'
    BY <1>1, <1>2 DEF GrantIInv, GrantInv, GrantsMatchGoals
  <1>5. GrantsAddUp'
    BY <1>2 DEF GrantIInv, GrantInv, GrantsAddUp, Processed
  <1> QED BY <1>3, <1>4, <1>5 DEF GrantIInv, GrantInv

\* A new goal has a number no goal had.
LEMMA CreateGoalKeeps ==
  ASSUME GrantAssumption, GrantIInv, NEW t \in Targets, NEW d \in Deadlines,
         NEW a \in GrantAmounts, CreateGoal(t, d, a), now' = now
  PROVE  GrantIInv'
  <1>1. PICK r : r = [target |-> t, current |-> 0, deadline |-> d, active |-> TRUE,
                      amount |-> a, achieved |-> Absent]
    OBVIOUS
  <1>2. t \in Nat /\ a \in Nat /\ d \in Nat
    BY DEF CreateGoal, GrantAssumption
  <1>3. r \in Goal /\ (r.active <=> r.achieved = Absent)
    BY <1>1, <1>2 DEF Goal
  <1>4. count \in 0 .. MaxCount /\ MaxCount \in Nat /\ now \in Nat
    BY DEF GrantIInv, GrantInv, GrantTypeOK, GrantAssumption
  <1>5. PICK g : g = count + 1
    OBVIOUS
  <1>6. /\ goals' = [goals EXCEPT ![g] = r] /\ count' = g /\ count < MaxCount
        /\ UNCHANGED <<reachedMatched, listenerVars>>
    BY <1>1, <1>5 DEF CreateGoal
  <1>7. g \in GoalIds /\ count' \in 0 .. MaxCount /\ count <= count' /\ g <= count'
    BY <1>4, <1>5, <1>6 DEF GoalIds
  <1>8. g \notin reachedMatched
    <2>1. ~IsGoal(g)
      BY <1>4, <1>5, <1>7 DEF GrantIInv, GrantInv, GrantTypeOK
    <2>2. goals[g].achieved = Absent
      BY <2>1 DEF IsGoal, NoGoal
    <2> QED BY <2>2 DEF GrantIInv, GrantInv, GrantsMatchGoals
  <1> QED BY <1>3, <1>4, <1>6, <1>7, <1>8, GoalChangeKeeps

\* What update_water_savings makes of a goal.
LEMMA SavingsMove ==
  ASSUME GrantAssumption, GrantIInv, NEW g \in GoalIds, NEW s \in SavingsReported,
         SavingsAdmitted(g, s)
  PROVE  /\ s \in Nat /\ goals[g] \in Goal /\ goals[g].active
         /\ [goals[g] EXCEPT !.current = @ + s] \in Goal
         /\ [goals[g] EXCEPT !.current = @ + s, !.active = FALSE, !.achieved = now] \in Goal
  <1>1. s \in Nat /\ goals[g].active
    BY DEF SavingsAdmitted, GrantAssumption
  <1>2. PICK e \in Goal : e = goals[g]
    BY DEF GrantIInv, GrantInv, GrantTypeOK, Goal
  <1>3. now \in Nat
    BY DEF GrantIInv
  <1>4. PICK c : c = e.current + s
    OBVIOUS
  <1>5. c \in Nat
    BY <1>1, <1>2, <1>4, GoalFields
  <1>6. [e EXCEPT !.current = c] \in Goal
    BY <1>5 DEF Goal
  <1>7. [e EXCEPT !.current = c, !.active = FALSE, !.achieved = now] \in Goal
    BY <1>3, <1>5 DEF Goal
  <1> QED BY <1>1, <1>2, <1>4, <1>6, <1>7

\* Savings short of the target leave the goal active, for the same grant.
LEMMA SaveWaterKeeps ==
  ASSUME GrantAssumption, GrantIInv, NEW g \in GoalIds, NEW s \in SavingsReported,
         SaveWater(g, s), now' = now
  PROVE  GrantIInv'
  <1>1. SavingsAdmitted(g, s) /\ UNCHANGED <<count, reachedMatched, listenerVars>>
    BY DEF SaveWater
  <1>2. PICK e : e = goals[g]
    OBVIOUS
  <1>3. PICK r : r = [e EXCEPT !.current = @ + s]
    OBVIOUS
  <1>4. e \in Goal /\ e.active /\ r \in Goal
    BY <1>1, <1>2, <1>3, SavingsMove
  <1>5. goals' = [goals EXCEPT ![g] = r]
    <2>1. goals' = [goals EXCEPT ![g] = [goals[g] EXCEPT !.current = @ + s]]
      BY Zenon DEF SaveWater
    <2> QED BY <1>2, <1>3, <2>1, Zenon
  <1>6. r.active = e.active /\ r.achieved = e.achieved
    BY <1>3, <1>4 DEF Goal
  <1>7. /\ g \in 1 .. count /\ e.achieved = Absent /\ g \notin reachedMatched
        /\ count \in 0 .. MaxCount /\ now \in Nat
    BY <1>2, <1>4, ActiveIsGoal DEF GrantIInv, GrantInv, GrantTypeOK
  <1>8. r.active <=> r.achieved = Absent
    BY <1>4, <1>6, <1>7
  <1>9. /\ now' \in Nat /\ count' \in 0 .. MaxCount /\ count <= count' /\ g <= count'
    BY <1>1, <1>7
  <1> QED BY <1>1, <1>4, <1>5, <1>7, <1>8, <1>9, GoalChangeKeeps

\* A goal that is reached is inactive, reached now, and has its grant.
LEMMA AchieveMoves ==
  ASSUME GrantAssumption, GrantIInv, NEW g \in GoalIds, NEW s \in SavingsReported,
         SavingsAdmitted(g, s), Achieve(g, s), now' = now, count' = count
  PROVE  \E r \in Goal :
           /\ goals' = [goals EXCEPT ![g] = r]
           /\ ~r.active /\ r.achieved # Absent /\ r.amount = goals[g].amount
           /\ g \notin reachedMatched
           /\ now' \in Nat /\ count' \in 0 .. MaxCount /\ count <= count' /\ g <= count'
  <1>1. PICK e : e = goals[g]
    OBVIOUS
  <1>2. PICK r : r = [e EXCEPT !.current = @ + s, !.active = FALSE, !.achieved = now]
    OBVIOUS
  <1>3. e \in Goal /\ e.active /\ r \in Goal
    BY <1>1, <1>2, SavingsMove
  <1>4. goals' = [goals EXCEPT ![g] = r]
    <2>1. goals' = [goals EXCEPT ![g] = [goals[g] EXCEPT !.current = @ + s, !.active = FALSE,
                                                          !.achieved = now]]
      BY DEF Achieve
    <2> QED BY <1>1, <1>2, <2>1, Zenon
  <1>5. now \in Nat
    BY DEF GrantIInv
  <1>6. ~r.active /\ r.achieved = now /\ r.amount = e.amount
    BY <1>2, <1>3 DEF Goal
  <1>7. r.achieved # Absent
    BY <1>5, <1>6 DEF Absent
  <1>8. g \in 1 .. count /\ g \notin reachedMatched /\ count \in 0 .. MaxCount
    <2>1. g \in 1 .. count /\ g \notin reachedMatched
      BY <1>1, <1>3, ActiveIsGoal
    <2>2. count \in 0 .. MaxCount
      BY DEF GrantIInv, GrantInv, GrantTypeOK
    <2> QED BY <2>1, <2>2
  <1>9. now' \in Nat /\ count' \in 0 .. MaxCount /\ count <= count' /\ g <= count'
    BY <1>5, <1>8
  <1> QED BY <1>1, <1>3, <1>4, <1>6, <1>7, <1>8, <1>9

\* Without a listener, nothing is granted.
LEMMA ReachAloneKeeps ==
  ASSUME GrantAssumption, GrantIInv, NEW g \in GoalIds, NEW s \in SavingsReported,
         ReachAlone(g, s), now' = now
  PROVE  GrantIInv'
  <1>1. /\ SavingsAdmitted(g, s) /\ Achieve(g, s)
        /\ UNCHANGED <<count, reachedMatched, listenerVars>>
    BY DEF ReachAlone
  <1>2. PICK r \in Goal :
           /\ goals' = [goals EXCEPT ![g] = r]
           /\ ~r.active /\ r.achieved # Absent
           /\ g \notin reachedMatched
           /\ now' \in Nat /\ count' \in 0 .. MaxCount /\ count <= count' /\ g <= count'
    BY <1>1, AchieveMoves
  <1> QED BY <1>1, <1>2, GoalChangeKeeps

\* A grant is recorded in every place, and taken from the treasury, whoever asks
\* for it and for what.
LEMMA PaymentAddsUp ==
  ASSUME GrantAssumption, GrantIInv, NEW c \in Callees, NEW g \in GoalIds, NEW s, NEW n \in Int,
         GrantAdmitted(c, g, s, n), PayGrant(g, n)
  PROVE  /\ n \in Nat /\ g \notin Processed
         /\ grants' \in [GoalIds -> {Absent} \cup Nat] /\ grants'[g] = n
         /\ \A i \in Processed : grants'[i] = grants[i]
         /\ listener' \in [enabled : BOOLEAN, max : Nat, granted : Nat]
         /\ treasury' \in Nat /\ received' \in Nat
         /\ GrantsAddUp'
  <1>1. /\ listener \in [enabled : BOOLEAN, max : Nat, granted : Nat]
        /\ treasury \in Nat /\ received \in Nat
        /\ grants \in [GoalIds -> {Absent} \cup Nat]
    BY DEF GrantIInv, GrantInv, GrantTypeOK
  <1>2. n \in 0 .. treasury /\ g \notin Processed
    BY DEF GrantAdmitted
  <1>3. /\ grants' = [grants EXCEPT ![g] = n]
        /\ listener' = [listener EXCEPT !.granted = @ + n]
        /\ treasury' = treasury - n /\ received' = received + n
    BY DEF PayGrant
  <1>4. n \in Nat /\ n # Absent /\ treasury' \in Nat /\ received' \in Nat
    BY <1>1, <1>2, <1>3 DEF Absent
  <1>5. /\ listener' \in [enabled : BOOLEAN, max : Nat, granted : Nat]
        /\ listener'.granted = listener.granted + n
    BY <1>1, <1>3, <1>4
  <1>6. /\ grants' \in [GoalIds -> {Absent} \cup Nat] /\ grants'[g] = n
        /\ \A i \in GoalIds : i # g => grants'[i] = grants[i]
    BY <1>1, <1>3, <1>4
  <1>7. Processed' = Processed \cup {g}
    BY <1>4, <1>6 DEF Processed
  <1>8. \A i \in Processed : i \in GoalIds /\ grants[i] \in Nat /\ grants'[i] = grants[i]
    BY <1>1, <1>2, <1>6 DEF Processed
  <1>9. SumOf(grants', Processed') = SumOf(grants, Processed) + n
    <2>1. PICK f, h : f = grants /\ h = grants'
      OBVIOUS
    <2>2. PICK P : P = Processed
      OBVIOUS
    <2>3. IsFiniteSet(P) /\ g \notin P
      BY <1>2, <2>2, ProcessedAreFinite
    <2>4. \A i \in P : f[i] \in Int /\ h[i] = f[i]
      BY <1>8, <2>1, <2>2
    <2>5. h[g] = n
      BY <1>6, <2>1
    <2>6. \A i \in P \cup {g} : h[i] \in Int
      BY <2>4, <2>5
    <2>7. SumOf(h, P \cup {g}) = SumOf(h, P) + h[g]
      BY <2>3, <2>6, SumAdd
    <2>8. SumOf(h, P) = SumOf(f, P)
      BY <2>3, <2>4, SumOfSame
    <2> QED BY <1>7, <2>1, <2>2, <2>5, <2>7, <2>8
  <1>10. GrantsAddUp'
    BY <1>1, <1>3, <1>4, <1>5, <1>9
       DEF GrantIInv, GrantInv, GrantsAddUp, GrantAssumption
  <1> QED BY <1>2, <1>4, <1>5, <1>6, <1>8, <1>10

\* Goals reached with a listener are among those paid for.
LEMMA ReachedArePaid == ASSUME GrantIInv PROVE reachedMatched \subseteq Processed
  <1> SUFFICES ASSUME NEW i \in reachedMatched PROVE i \in Processed
    OBVIOUS
  <1>1. i \in GoalIds
    BY DEF GrantIInv
  <1>2. goals[i].amount \in Nat /\ grants[i] = goals[i].amount
    BY <1>1 DEF GrantIInv, GrantInv, GrantTypeOK, GrantsMatchGoals
  <1> QED BY <1>1, <1>2 DEF Processed, Absent

\* A direct call of the listener pays, and leaves the goals alone.
LEMMA OnGoalReachedKeeps ==
  ASSUME GrantAssumption, GrantIInv, NEW c \in Callees, NEW g \in GoalIds, NEW s \in Targets,
         NEW n \in EventAmounts, OnGoalReached(c, g, s, n), now' = now
  PROVE  GrantIInv'
  <1>1. n \in Int
    BY DEF GrantAssumption
  <1>2. GrantAdmitted(c, g, s, n) /\ PayGrant(g, n) /\ UNCHANGED <<count, goals, reachedMatched>>
    BY DEF OnGoalReached, utilityVars
  <1>3. /\ n \in Nat /\ g \notin Processed
        /\ grants' \in [GoalIds -> {Absent} \cup Nat]
        /\ \A i \in Processed : grants'[i] = grants[i]
        /\ listener' \in [enabled : BOOLEAN, max : Nat, granted : Nat]
        /\ treasury' \in Nat /\ received' \in Nat /\ GrantsAddUp'
    BY <1>1, <1>2, PaymentAddsUp
  <1>4. reachedMatched \subseteq Processed
    BY ReachedArePaid
  <1>5. GrantTypeOK'
    BY <1>2, <1>3 DEF GrantIInv, GrantInv, GrantTypeOK, IsGoal
  <1>6. GrantsMatchGoals'
    BY <1>2, <1>3, <1>4 DEF GrantIInv, GrantInv, GrantsMatchGoals, IsGoal
  <1> QED BY <1>2, <1>3, <1>5, <1>6 DEF GrantIInv, GrantInv, GoalIds

\* Reaching a goal with a listener pays the goal's own amount.
LEMMA ReachMatchedKeeps ==
  ASSUME GrantAssumption, GrantIInv, NEW g \in GoalIds, NEW s \in SavingsReported,
         ReachMatched(g, s), now' = now
  PROVE  GrantIInv'
  <1>1. PICK n, t : n = goals[g].amount /\ t = goals[g].current + s
    OBVIOUS
  <1>2. /\ SavingsAdmitted(g, s) /\ Achieve(g, s) /\ count' = count
        /\ GrantAdmitted(Utility, g, t, n) /\ PayGrant(g, n)
        /\ reachedMatched' = reachedMatched \cup {g}
    BY <1>1 DEF ReachMatched
  <1>3. n \in Int /\ goals \in [GoalIds -> Goal] /\ Utility \in Callees
    BY <1>1 DEF GrantIInv, GrantInv, GrantTypeOK, Goal, GrantAssumption
  <1>4. PICK r \in Goal :
           /\ goals' = [goals EXCEPT ![g] = r]
           /\ ~r.active /\ r.achieved # Absent /\ r.amount = goals[g].amount
           /\ g \notin reachedMatched
           /\ now' \in Nat /\ count' \in 0 .. MaxCount /\ count <= count' /\ g <= count'
    BY <1>2, AchieveMoves
  <1>5. /\ goals' \in [GoalIds -> Goal]
        /\ {i \in GoalIds : IsGoal(i)'} \subseteq 1 .. count'
        /\ \A i \in GoalIds : IsGoal(i)' => (goals'[i].active <=> goals'[i].achieved = Absent)
        /\ \A i \in reachedMatched : goals'[i] = goals[i]
        /\ goals'[g] = r
    BY <1>4, OneGoalMoves
  <1>6. /\ grants' \in [GoalIds -> {Absent} \cup Nat] /\ grants'[g] = n
        /\ \A i \in Processed : grants'[i] = grants[i]
        /\ listener' \in [enabled : BOOLEAN, max : Nat, granted : Nat]
        /\ treasury' \in Nat /\ received' \in Nat /\ GrantsAddUp'
    BY <1>2, <1>3, PaymentAddsUp
  <1>7. reachedMatched \subseteq Processed
    BY ReachedArePaid
  <1>8. GrantTypeOK'
    BY <1>4, <1>5, <1>6 DEF GrantTypeOK, Goal
  <1>9. GrantsMatchGoals'
    BY <1>1, <1>2, <1>4, <1>5, <1>6, <1>7 DEF GrantIInv, GrantInv, GrantsMatchGoals
  <1>10. reachedMatched' \subseteq GoalIds
    BY <1>2 DEF GrantIInv
  <1> QED BY <1>4, <1>6, <1>8, <1>9, <1>10 DEF GrantIInv, GrantInv, GoalIds

\* What changes neither goals nor grants keeps the invariant.
LEMMA GrantsUnchanged ==
  ASSUME GrantIInv, now' \in Nat, count' \in count .. MaxCount,
         UNCHANGED <<goals, reachedMatched, grants, treasury, received>>,
         listener' \in [enabled : BOOLEAN, max : Nat, granted : {listener.granted}]
  PROVE  GrantIInv'
  <1>1. listener.granted \in Nat /\ count \in 0 .. MaxCount
    BY DEF GrantIInv, GrantInv, GrantTypeOK
  <1>2. /\ listener' \in [enabled : BOOLEAN, max : Nat, granted : Nat]
        /\ listener'.granted = listener.granted
    BY <1>1
  <1>3. count' \in 0 .. MaxCount /\ {g \in GoalIds : IsGoal(g)}' \subseteq 1 .. count'
    BY <1>1 DEF GrantIInv, GrantInv, GrantTypeOK, IsGoal
  <1>4. GrantTypeOK'
    BY <1>2, <1>3 DEF GrantIInv, GrantInv, GrantTypeOK, IsGoal
  <1>5. GrantsMatchGoals'
    BY DEF GrantIInv, GrantInv, GrantsMatchGoals, IsGoal
  <1>6. GrantsAddUp'
    BY <1>2 DEF GrantIInv, GrantInv, GrantsAddUp, Processed
  <1> QED BY <1>4, <1>5, <1>6 DEF GrantIInv, GrantInv

\* Every step of the two contracts keeps their stories in step.
LEMMA GrantStepKeeps ==
  ASSUME GrantAssumption, ClockAssumption, GrantIInv, [GrantNext]_<<now, grantVars>>
  PROVE  GrantIInv'
  <1>1. /\ now \in Nat /\ count \in 0 .. MaxCount /\ MaxCount \in Nat
        /\ listener \in [enabled : BOOLEAN, max : Nat, granted : Nat]
    BY DEF GrantIInv, GrantInv, GrantTypeOK, GrantAssumption
  <1>2. listener \in [enabled : BOOLEAN, max : Nat, granted : {listener.granted}]
    BY <1>1
  <1>3. ASSUME now' \in Nat, count' \in count .. MaxCount,
               UNCHANGED <<goals, reachedMatched, listenerVars>>
        PROVE  GrantIInv'
    BY <1>2, <1>3, GrantsUnchanged DEF listenerVars
  <1>4. CASE CountMeter /\ now' = now
    BY <1>1, <1>3, <1>4 DEF CountMeter
  <1>5. ASSUME NEW g \in GoalIds, ConfigureMatch(g), now' = now  PROVE GrantIInv'
    BY <1>1, <1>3, <1>5 DEF ConfigureMatch
  <1>6. ASSUME NEW e \in BOOLEAN, NEW m \in MonthlyMaxima, UpdateListener(e, m), now' = now
        PROVE  GrantIInv'
    <2>1. m \in Nat
      BY <1>6 DEF UpdateListener, GrantAssumption
    <2>2. listener' = [listener EXCEPT !.enabled = e, !.max = m]
      BY <1>6 DEF UpdateListener
    <2>3. listener' \in [enabled : BOOLEAN, max : Nat, granted : {listener.granted}]
      BY <1>1, <2>1, <2>2
    <2>4. UNCHANGED <<count, goals, reachedMatched, grants, treasury, received>>
      BY <1>6 DEF UpdateListener, utilityVars
    <2> QED BY <1>1, <1>6, <2>3, <2>4, GrantsUnchanged
  <1>7. CASE ChangeRegister /\ now' = now
    <2>1. UNCHANGED <<count, goals, reachedMatched, listenerVars>>
      BY <1>7 DEF ChangeRegister, utilityVars
    <2> QED BY <1>1, <1>3, <1>7, <2>1
  <1>8. CASE Tick /\ UNCHANGED grantVars
    <2>1. UNCHANGED <<count, goals, reachedMatched, listenerVars>>
      BY <1>8 DEF grantVars, listenerVars
    <2> QED BY <1>1, <1>3, <1>8, <2>1 DEF Tick
  <1>9. CASE UNCHANGED <<now, grantVars>>
    <2>1. UNCHANGED <<count, goals, reachedMatched, listenerVars>>
      BY <1>9 DEF grantVars, listenerVars
    <2> QED BY <1>1, <1>3, <1>9, <2>1
  <1> QED
    BY <1>4, <1>5, <1>6, <1>7, <1>8, <1>9, CreateGoalKeeps, SaveWaterKeeps, ReachAloneKeeps,
       ReachMatchedKeeps, OnGoalReachedKeeps
    DEF GrantNext, GrantStep

\* A goal reached with a listener has its own grant, once, and every total is the
\* sum of the grants, whoever calls the listener with whatever contract, goal and
\* amount, for every target, amount, maximum, budget and register.
THEOREM GrantInvariant == GrantSpec => []GrantInv
  <1>1. GrantInit => GrantIInv
    <2> SUFFICES ASSUME GrantInit PROVE GrantIInv
      OBVIOUS
    <2>1. /\ MaxCount \in Nat /\ FirstMaximum \in Nat /\ Endowment \in Nat /\ MaxTime \in Nat
      BY GrantAssumption, ClockAssumption DEF GrantAssumption, ClockAssumption
    <2>2. GrantTypeOK
      BY <2>1 DEF GrantInit, GrantTypeOK, NoGoal, IsGoal
    <2>3. GrantsMatchGoals
      BY DEF GrantInit, GrantsMatchGoals, IsGoal
    <2>4. GrantsAddUp
      <3>1. Processed = {}
        BY DEF GrantInit, Processed
      <3> QED BY <2>1, <3>1, SumOfNothing DEF GrantInit, GrantsAddUp
    <2> QED BY <2>2, <2>3, <2>4 DEF GrantIInv, GrantInv, GrantInit
  <1>2. GrantIInv /\ [GrantNext]_<<now, grantVars>> => GrantIInv'
    BY GrantStepKeeps, GrantAssumption, ClockAssumption
  <1>3. GrantIInv => GrantInv
    BY DEF GrantIInv
  <1> QED BY <1>1, <1>2, <1>3, PTL DEF GrantSpec

-----------------------------------------------------------------------------
(* Powers of two *)

\* TwoTo is defined by its doublings.
LEMMA PowersDouble ==
  ASSUME Bits \in Nat
  PROVE  /\ TwoTo[0] = 1 /\ \A i \in 0 .. Bits : TwoTo[i] \in Nat \ {0}
         /\ \A i \in 0 .. Bits : i < Bits => TwoTo[i + 1] = 2 * TwoTo[i]
  <1> DEFINE Doubles(f) == f = [i \in 0 .. Bits |-> IF i = 0 THEN 1 ELSE 2 * f[i - 1]]
  <1>1. \E f : Doubles(f)
    <2>1. PICK double \in [Nat -> Nat] : \A x \in Nat : double[x] = 2 * x
      <3>1. [x \in Nat |-> 2 * x] \in [Nat -> Nat]
        OBVIOUS
      <3> QED BY <3>1
    <2>2. [i \in 1 .. Bits |-> double] \in [1 .. Bits -> [Nat -> Nat]]
      OBVIOUS
    <2>3. PICK step \in [1 .. Bits -> [Nat -> Nat]] : \A i \in 1 .. Bits : step[i] = double
      BY <2>2
    <2>4. PICK f : Steps(f, Bits, Nat, 1, step)
      BY <2>3, StepsExist
    <2>5. ASSUME NEW i \in 0 .. Bits
          PROVE  f[i] = IF i = 0 THEN 1 ELSE 2 * f[i - 1]
      <3>1. CASE i = 0
        BY <2>4, <3>1 DEF Steps
      <3>2. CASE i \in 1 .. Bits
        <4>0. PICK j \in 0 .. Bits : j = i - 1
          BY <3>2
        <4>1. j = i - 1 /\ f[j] \in Nat
          BY <2>4, <4>0 DEF Steps
        <4>2. f[i] = step[i][f[j]] /\ step[i] = double /\ double[f[j]] = 2 * f[j]
          BY <2>1, <2>3, <2>4, <3>2, <4>1 DEF Steps
        <4> QED BY <3>2, <4>1, <4>2
      <3> QED BY <3>1, <3>2
    <2>6. Doubles(f)
      BY <2>4, <2>5 DEF Steps
    <2> QED BY <2>6
  <1>2. TwoTo = CHOOSE f : Doubles(f)
    BY DEF TwoTo
  <1>3. Doubles(TwoTo)
    BY <1>1, <1>2
  <1>4. TwoTo[0] = 1
    BY <1>3
  <1>5. ASSUME NEW i \in 0 .. Bits, i < Bits
        PROVE  TwoTo[i + 1] = 2 * TwoTo[i]
    <2>1. PICK j \in 0 .. Bits : j = i + 1 /\ j # 0 /\ j - 1 = i
      BY <1>5
    <2> QED BY <1>3, <2>1
  <1>6. \A i \in 0 .. Bits : TwoTo[i] \in Nat \ {0}
    <2>1. PICK I : I = {i \in 0 .. Bits : TwoTo[i] \in Nat \ {0}}
      OBVIOUS
    <2>2. 0 \in I
      BY <1>4, <2>1
    <2>3. \A i \in 0 .. Bits : i < Bits /\ i \in I => i + 1 \in I
      BY <1>5, <2>1
    <2>4. \A i \in 0 .. Bits : i \in I
      BY <2>2, <2>3, IntervalInduction
    <2> QED BY <2>1, <2>4
  <1> QED BY <1>4, <1>5, <1>6

\* Words are what fits all bits, and half of them what fits all but one.
LEMMA WordIsEven ==
  ASSUME RateAssumption
  PROVE  /\ Bits \in Nat \ {0} /\ Word \in Nat \ {0, 1} /\ TwoTo[Bits - 1] \in Nat \ {0}
         /\ Word = 2 * TwoTo[Bits - 1] /\ Word = TwoTo[Bits]
         /\ \A i \in 0 .. Bits : TwoTo[i] \in Nat \ {0} /\ TwoTo[i] <= Word
  <1>1. Bits \in Nat \ {0} /\ Word = TwoTo[Bits]
    BY DEF RateAssumption
  <1>2. PICK h : h = Bits - 1 /\ h \in 0 .. Bits /\ h + 1 = Bits /\ h < Bits
    BY <1>1
  <1>3. TwoTo[h] \in Nat \ {0} /\ Word = 2 * TwoTo[h]
    BY <1>1, <1>2, PowersDouble
  <1>4. \A i \in 0 .. Bits : TwoTo[i] \in Nat \ {0}
    BY <1>1, PowersDouble
  <1>5. \A i \in 0 .. Bits : TwoTo[i] <= Word
    <2>1. PICK I : I = {k \in 0 .. Bits : TwoTo[Bits - k] <= Word}
      OBVIOUS
    <2>2. 0 \in I
      <3>1. Bits - 0 = Bits /\ Word <= Word
        BY <1>1, <1>2, <1>3
      <3> QED BY <1>1, <2>1, <3>1
    <2>3. ASSUME NEW k \in 0 .. Bits, k < Bits, k \in I
          PROVE  k + 1 \in I
      <3>1. PICK i \in 0 .. Bits : i = Bits - (k + 1) /\ i < Bits /\ i + 1 = Bits - k
        BY <1>1, <2>3
      <3>2. TwoTo[i + 1] = 2 * TwoTo[i] /\ TwoTo[i] \in Nat
        BY <1>1, <3>1, PowersDouble
      <3>3. TwoTo[i] <= Word
        BY <1>3, <2>1, <2>3, <3>1, <3>2
      <3> QED BY <2>1, <2>3, <3>1, <3>3
    <2>4. \A k \in 0 .. Bits : k < Bits /\ k \in I => k + 1 \in I
      BY <2>3
    <2>5. \A k \in 0 .. Bits : k \in I
      BY <1>1, <2>2, <2>4, IntervalInduction
    <2>6. ASSUME NEW i \in 0 .. Bits
          PROVE  TwoTo[i] <= Word
      <3>1. PICK k \in 0 .. Bits : k = Bits - i /\ Bits - k = i
        BY <1>1
      <3> QED BY <2>1, <2>5, <3>1
    <2> QED BY <2>6
  <1> QED BY <1>1, <1>2, <1>3, <1>4, <1>5

-----------------------------------------------------------------------------
(* Long division *)

\* A division under way: what is left of the dividend's bits read so far.
Division == [rem : Int, quot : Int]

\* A turn doubles what was read, adds the bit, and keeps the remainder below the
\* divisor, also when the doubled remainder does not fit a word.
LEMMA TurnDivides ==
  ASSUME RateAssumption, NEW d \in 1 .. Word - 1, NEW e \in Division, NEW bit \in 0 .. 1,
         e.rem \in 0 .. d - 1, e.quot \in Nat, 2 * e.quot + 1 < Word
  PROVE  LET t == DivisionTurn(e, bit, d)
         IN  /\ t \in Division /\ t.rem \in 0 .. d - 1 /\ t.quot \in Nat
             /\ t.quot <= 2 * e.quot + 1
             /\ t.quot * d + t.rem = 2 * (e.quot * d + e.rem) + bit
  <1>1. PICK W \in Nat \ {0, 1}, h \in Nat \ {0} : W = Word /\ h = TwoTo[Bits - 1] /\ W = 2 * h
    BY WordIsEven
  <1>2. PICK r \in Nat, q \in Nat : r = e.rem /\ q = e.quot /\ r < d /\ 2 * q + 1 < W
    BY <1>1
  <1>3. d \in Nat \ {0} /\ d < W
    BY <1>1
  <1>4. (q * 2) % W = 2 * q
    <2>1. PICK a \in Int : a = q * 2 /\ 0 <= a /\ a < W
      BY <1>1, <1>2
    <2>2. a % W = a
      BY <1>1, <2>1, RemainderWithin
    <2> QED BY <2>1, <2>2
  <1>5. PICK m \in Int : m = q * d
    BY <1>2, <1>3
  <1>6. (2 * q) * d = 2 * m /\ (2 * q + 1) * d = 2 * m + d
    BY <1>2, <1>3, <1>5
  <1>7. CASE r < h
    <2>1. r \div h = 0
      <3>1. 0 * h <= r /\ r < 0 * h + h
        BY <1>1, <1>2, <1>7
      <3> QED BY <1>1, <1>2, <3>1, QuotientIs
    <2>2. (r * 2) % W = 2 * r
      <3>1. PICK a \in Int : a = r * 2 /\ 0 <= a /\ a < W
        BY <1>1, <1>2, <1>7
      <3>2. a % W = a
        BY <1>1, <3>1, RemainderWithin
      <3> QED BY <3>1, <3>2
    <2>3. CASE 2 * r + bit >= d
      <3>1. ((2 * r + bit) - d) % W = 2 * r + bit - d
        <4>1. PICK a \in Int : a = (2 * r + bit) - d /\ 0 <= a /\ a < W
          BY <1>2, <1>3, <2>3
        <4>2. a % W = a
          BY <1>1, <4>1, RemainderWithin
        <4> QED BY <4>1, <4>2
      <3>2. DivisionTurn(e, bit, d) = [rem |-> 2 * r + bit - d, quot |-> 2 * q + 1]
        BY <1>1, <1>2, <1>4, <2>1, <2>2, <2>3, <3>1 DEF DivisionTurn
      <3>3. 2 * r + bit - d \in 0 .. d - 1
        BY <1>2, <1>3, <2>3
      <3>4. (2 * q + 1) * d + (2 * r + bit - d) = 2 * (q * d + r) + bit
        BY <1>2, <1>3, <1>5, <1>6
      <3> QED BY <1>2, <3>2, <3>3, <3>4 DEF Division
    <2>4. CASE 2 * r + bit < d
      <3>1. DivisionTurn(e, bit, d) = [rem |-> 2 * r + bit, quot |-> 2 * q]
        <4>0. (e.rem * 2) % Word = 2 * r
          BY <1>1, <1>2, <2>2
        <4>1. PICK s \in Int : s = ((e.rem * 2) % Word) + bit /\ s = 2 * r + bit
          BY <1>2, <4>0
        <4>2. e.rem \div TwoTo[Bits - 1] = 0 /\ ~ (s >= d)
          <5>1. e.rem \div TwoTo[Bits - 1] = 0
            BY <1>1, <1>2, <2>1
          <5>2. ~ (s >= d)
            BY <1>2, <1>3, <2>4, <4>1
          <5> QED BY <5>1, <5>2
        <4>3. (e.quot * 2) % Word = 2 * q
          BY <1>1, <1>2, <1>4
        <4> QED BY <4>1, <4>2, <4>3 DEF DivisionTurn
      <3>2. (2 * q) * d + (2 * r + bit) = 2 * (q * d + r) + bit
        BY <1>2, <1>3, <1>5, <1>6
      <3> QED BY <1>2, <1>3, <2>4, <3>1, <3>2 DEF Division
    <2> QED BY <1>2, <1>3, <2>3, <2>4
  <1>8. CASE h <= r
    <2>1. r \div h = 1
      <3>1. PICK k \in Int : k = 1
        OBVIOUS
      <3>2. k * h <= r /\ r < k * h + h
        BY <1>1, <1>2, <1>3, <1>8, <3>1
      <3>3. r \div h = k
        BY <1>1, <1>2, <3>1, <3>2, QuotientIs
      <3> QED BY <3>1, <3>3
    <2>2. (r * 2) % W = 2 * r - W
      <3>1. PICK a \in Int : a = r * 2 /\ W <= a /\ a < 2 * W
        BY <1>1, <1>2, <1>3, <1>8
      <3>2. a % W = a - W
        BY <1>1, <3>1, RemainderWithin
      <3> QED BY <3>1, <3>2
    <2>3. ((2 * r - W + bit) - d) % W = 2 * r + bit - d
      <3>1. PICK a \in Int : a = (2 * r - W + bit) - d /\ -W <= a /\ a < 0
        BY <1>1, <1>2, <1>3, <1>8
      <3>2. a % W = a + W
        BY <1>1, <3>1, RemainderWithin
      <3> QED BY <1>1, <1>2, <1>3, <3>1, <3>2
    <2>4. DivisionTurn(e, bit, d) = [rem |-> 2 * r + bit - d, quot |-> 2 * q + 1]
      BY <1>1, <1>2, <1>4, <2>1, <2>2, <2>3 DEF DivisionTurn
    <2>5. 2 * r + bit - d \in 0 .. d - 1
      BY <1>1, <1>2, <1>3, <1>8
    <2>6. (2 * q + 1) * d + (2 * r + bit - d) = 2 * (q * d + r) + bit
      BY <1>2, <1>3, <1>5, <1>6
    <2> QED BY <1>2, <2>4, <2>5, <2>6 DEF Division
  <1> QED BY <1>1, <1>2, <1>7, <1>8

\* g is a long division of a pair by d.
LongDivision(g, pair, d) ==
    g = [i \in 0 .. Bits |->
           IF i = 0 THEN [rem |-> pair[1], quot |-> 0]
           ELSE DivisionTurn(g[i - 1], (pair[2] \div TwoTo[Bits - i]) % 2, d)]

\* There is one, and its last turn is the result.
LEMMA LongDivisionExists ==
  ASSUME RateAssumption, NEW d \in 1 .. Word - 1, NEW hi \in Int, NEW lo \in Nat
  PROVE  \E g : LongDivision(g, <<hi, lo>>, d) /\ DivMod(<<hi, lo>>, d) = g[Bits]
  <1>0. Bits \in Nat /\ Word \in Nat
    BY WordIsEven
  <1>1. PICK B : B = [i \in 1 .. Bits |-> (lo \div TwoTo[Bits - i]) % 2]
    OBVIOUS
  <1>2. PICK step : step = [i \in 1 .. Bits |-> [e \in Division |-> DivisionTurn(e, B[i], d)]]
    OBVIOUS
  <1>3. ASSUME NEW i \in 1 .. Bits, NEW e \in Division
        PROVE  DivisionTurn(e, B[i], d) \in Division
    <2>1. B[i] \in Int
      <3>1. PICK k \in 0 .. Bits : k = Bits - i
        BY <1>0
      <3>2. TwoTo[k] \in Nat \ {0}
        BY WordIsEven
      <3>3. (lo \div TwoTo[k]) \in Nat
        BY <3>2, QuotientAndRemainder
      <3> QED BY <1>1, <3>1, <3>3
    <2>2. Word \in Nat \ {0}
      BY WordIsEven
    <2> QED BY <2>1, <2>2 DEF Division, DivisionTurn
  <1>4. step \in [1 .. Bits -> [Division -> Division]]
    BY <1>2, <1>3
  <1>5. [rem |-> hi, quot |-> 0] \in Division
    BY DEF Division
  <1>6. PICK g : Steps(g, Bits, Division, [rem |-> hi, quot |-> 0], step)
    BY <1>0, <1>4, <1>5, StepsExist
  <1>7. g \in [0 .. Bits -> Division]
    BY <1>6 DEF Steps
  <1>8. ASSUME NEW i \in 0 .. Bits
        PROVE  g[i] = IF i = 0 THEN [rem |-> hi, quot |-> 0]
                      ELSE DivisionTurn(g[i - 1], (lo \div TwoTo[Bits - i]) % 2, d)
    <2>1. CASE i = 0
      BY <1>6, <2>1 DEF Steps
    <2>2. CASE i # 0
      <3>1. i \in 1 .. Bits /\ i - 1 \in 0 .. Bits
        BY <1>0, <2>2
      <3>2. g[i] = step[i][g[i - 1]] /\ g[i - 1] \in Division
        BY <1>6, <3>1 DEF Steps
      <3>3. step[i][g[i - 1]] = DivisionTurn(g[i - 1], B[i], d)
        BY <1>2, <3>1, <3>2
      <3>4. B[i] = (lo \div TwoTo[Bits - i]) % 2
        BY <1>1, <3>1
      <3> QED BY <2>2, <3>2, <3>3, <3>4
    <2> QED BY <2>1, <2>2
  <1>9. LongDivision(g, <<hi, lo>>, d)
    BY <1>7, <1>8 DEF LongDivision
  <1>10. DivMod(<<hi, lo>>, d) = (CHOOSE f : LongDivision(f, <<hi, lo>>, d))[Bits]
    BY DEF DivMod, LongDivision
  <1>11. PICK f : f = CHOOSE k : LongDivision(k, <<hi, lo>>, d)
    OBVIOUS
  <1>12. LongDivision(f, <<hi, lo>>, d)
    BY <1>9, <1>11
  <1> QED BY <1>10, <1>11, <1>12

\* After i turns the division is exact for the bits read: hi and the i highest of lo.
PartlyDivided(g, hi, lo, d, i) ==
    /\ g[i] \in Division /\ g[i].rem \in 0 .. d - 1 /\ g[i].quot \in Nat
    /\ g[i].quot < TwoTo[i]
    /\ g[i].quot * d + g[i].rem = hi * TwoTo[i] + (lo \div TwoTo[Bits - i])

\* The next turn keeps it exact.
LEMMA TurnKeepsExact ==
  ASSUME RateAssumption, NEW d \in 1 .. Word - 1, NEW hi \in Nat, NEW lo \in Nat, NEW g,
         LongDivision(g, <<hi, lo>>, d), NEW i \in 0 .. Bits, i < Bits,
         PartlyDivided(g, hi, lo, d, i)
  PROVE  PartlyDivided(g, hi, lo, d, i + 1)
  <1>0. Bits \in Nat \ {0} /\ Word \in Nat
    BY WordIsEven
  <1>1. PICK j \in 0 .. Bits : j = i + 1 /\ j # 0 /\ j - 1 = i
    BY <1>0
  <1>2. PICK k \in 0 .. Bits : k = Bits - j /\ k < Bits /\ k + 1 = Bits - i
    BY <1>0, <1>1
  <1>3. PICK t \in Nat \ {0} : t = TwoTo[k] /\ TwoTo[k + 1] = 2 * t
    BY <1>0, <1>2, PowersDouble
  <1>4. PICK p \in Nat \ {0} : p = TwoTo[i] /\ TwoTo[j] = 2 * p /\ 2 * p <= Word
    <2>1. TwoTo[i] \in Nat \ {0} /\ TwoTo[i + 1] = 2 * TwoTo[i]
      BY <1>0, PowersDouble
    <2>2. TwoTo[j] <= Word
      BY WordIsEven
    <2> QED BY <1>1, <2>1, <2>2
  <1>5. PICK read \in Nat : read = lo \div t
    BY <1>3, QuotientAndRemainder
  <1>6. PICK above \in Nat, bit \in 0 .. 1 :
          above = read \div 2 /\ bit = read % 2 /\ read = above * 2 + bit
    <2>1. PICK n \in Nat \ {0} : n = 2
      OBVIOUS
    <2>2. read \div n \in Nat /\ read % n \in 0 .. n - 1 /\ read = (read \div n) * n + (read % n)
      BY QuotientAndRemainder
    <2> QED BY <2>1, <2>2
  <1>7. lo \div TwoTo[Bits - i] = above
    <2>1. lo \div (t * 2) = (lo \div t) \div 2
      BY <1>3, QuotientOfQuotient
    <2>2. TwoTo[Bits - i] = t * 2
      BY <1>2, <1>3
    <2> QED BY <1>5, <1>6, <2>1, <2>2
  <1>8. PICK e \in Division : /\ e = g[i] /\ e.rem \in 0 .. d - 1 /\ e.quot \in Nat /\ e.quot < p
                              /\ e.quot * d + e.rem = hi * p + above
    BY <1>4, <1>7 DEF PartlyDivided
  <1>9. g[j] = DivisionTurn(e, bit, d)
    <2>1. g[j] = DivisionTurn(g[j - 1], (lo \div TwoTo[Bits - j]) % 2, d)
      BY <1>1 DEF LongDivision
    <2> QED BY <1>1, <1>2, <1>3, <1>5, <1>6, <1>8, <2>1
  <1>10. 2 * e.quot + 1 < Word
    BY <1>0, <1>4, <1>8
  <1>11. PICK f : f = g[j]
    OBVIOUS
  <1>12. /\ f \in Division /\ f.rem \in 0 .. d - 1 /\ f.quot \in Nat /\ f.quot <= 2 * e.quot + 1
         /\ f.quot * d + f.rem = 2 * (e.quot * d + e.rem) + bit
    BY <1>8, <1>9, <1>10, <1>11, TurnDivides
  <1>13. f.quot < TwoTo[j]
    BY <1>4, <1>8, <1>12
  <1>14. 2 * (hi * p + above) + bit = hi * (2 * p) + read
    <2>1. hi * (2 * p) = 2 * (hi * p)
      OBVIOUS
    <2> QED BY <1>6, <2>1
  <1>15. lo \div TwoTo[Bits - j] = read
    BY <1>2, <1>3, <1>5
  <1> QED BY <1>1, <1>4, <1>8, <1>11, <1>12, <1>13, <1>14, <1>15 DEF PartlyDivided

\* A division with quotient in a word is exact.
LEMMA DivModIsExact ==
  ASSUME RateAssumption, NEW d \in 1 .. Word - 1, NEW hi \in 0 .. d - 1, NEW lo \in 0 .. Word - 1
  PROVE  LET e == DivMod(<<hi, lo>>, d)
         IN  /\ e.quot \in 0 .. Word - 1 /\ e.rem \in 0 .. d - 1
             /\ hi * Word + lo = e.quot * d + e.rem
  <1>0. Bits \in Nat \ {0} /\ Word \in Nat \ {0, 1} /\ Word = TwoTo[Bits] /\ TwoTo[0] = 1
    BY WordIsEven, PowersDouble
  <1>1. hi \in Nat /\ lo \in Nat /\ hi < d /\ d \in Nat \ {0} /\ lo < Word
    BY <1>0
  <1>2. PICK g : LongDivision(g, <<hi, lo>>, d) /\ DivMod(<<hi, lo>>, d) = g[Bits]
    BY <1>1, LongDivisionExists
  <1>3. PICK I : I = {i \in 0 .. Bits : PartlyDivided(g, hi, lo, d, i)}
    OBVIOUS
  <1>4. 0 \in I
    <2>1. g[0] = [rem |-> hi, quot |-> 0]
      BY <1>0, <1>2 DEF LongDivision
    <2>2. lo \div TwoTo[Bits - 0] = 0
      <3>1. 0 * Word <= lo /\ lo < 0 * Word + Word
        BY <1>0, <1>1
      <3>2. lo \div Word = 0
        BY <1>0, <1>1, <3>1, QuotientIs
      <3>3. Bits - 0 = Bits
        BY <1>0
      <3> QED BY <1>0, <3>2, <3>3
    <2>3. 0 * d + hi = hi * 1 + 0
      BY <1>1
    <2>4. PartlyDivided(g, hi, lo, d, 0)
      BY <1>0, <1>1, <2>1, <2>2, <2>3 DEF PartlyDivided, Division
    <2> QED BY <1>0, <1>3, <2>4
  <1>5. ASSUME NEW i \in 0 .. Bits, i < Bits, i \in I
        PROVE  i + 1 \in I
    BY <1>0, <1>1, <1>2, <1>3, <1>5, TurnKeepsExact
  <1>6. \A i \in 0 .. Bits : i < Bits /\ i \in I => i + 1 \in I
    BY <1>5
  <1>7. \A i \in 0 .. Bits : i \in I
    BY <1>0, <1>4, <1>6, IntervalInduction
  <1>8. PartlyDivided(g, hi, lo, d, Bits)
    BY <1>0, <1>3, <1>7
  <1>9. lo \div TwoTo[Bits - Bits] = lo
    <2>1. 1 \in Nat \ {0} /\ lo * 1 <= lo /\ lo < lo * 1 + 1
      BY <1>1
    <2>2. lo \div 1 = lo
      BY <1>1
    <2>3. Bits - Bits = 0
      BY <1>0
    <2> QED BY <1>0, <2>2, <2>3
  <1> QED BY <1>0, <1>2, <1>8, <1>9 DEF PartlyDivided

-----------------------------------------------------------------------------
(* Products, sums and rounding *)

\* Columns of a product: what is carried from each is what the next takes in.
LEMMA ColumnsAddUp ==
  ASSUME NEW L \in Nat, NEW a1 \in Nat, NEW a0 \in Nat, NEW b1 \in Nat, NEW b0 \in Nat,
         NEW q00 \in Nat, NEW r00 \in Nat, NEW q01 \in Nat, NEW r01 \in Nat,
         NEW q10 \in Nat, NEW r10 \in Nat, NEW qm \in Nat, NEW rm \in Nat, NEW p11 \in Nat,
         a0 * b0 = q00 * L + r00, a0 * b1 = q01 * L + r01, a1 * b0 = q10 * L + r10,
         p11 = a1 * b1, q00 + r01 + r10 = qm * L + rm
  PROVE  (p11 + q01 + q10 + qm) * (L * L) + (r00 + rm * L) = (a1 * L + a0) * (b1 * L + b0)
  <1>1. PICK x \in Int, y \in Int : x = a1 * L /\ y = b1 * L
    OBVIOUS
  <1>2. (x + a0) * (y + b0) = x * y + x * b0 + a0 * y + a0 * b0
    OBVIOUS
  <1>3. x * y = (p11 * L) * L
    BY <1>1
  <1>4. x * b0 = (a1 * b0) * L
    BY <1>1
  <1>5. a0 * y = (a0 * b1) * L
    BY <1>1
  <1>6. (a1 * b0) * L = (q10 * L) * L + r10 * L
    <2>1. PICK z \in Int : z = q10 * L
      OBVIOUS
    <2>2. (z + r10) * L = z * L + r10 * L
      OBVIOUS
    <2> QED BY <2>1, <2>2
  <1>7. (a0 * b1) * L = (q01 * L) * L + r01 * L
    <2>1. PICK z \in Int : z = q01 * L
      OBVIOUS
    <2>2. (z + r01) * L = z * L + r01 * L
      OBVIOUS
    <2> QED BY <2>1, <2>2
  <1>8. q00 * L + r01 * L + r10 * L = (qm * L) * L + rm * L
    <2>1. PICK z \in Int : z = qm * L
      OBVIOUS
    <2>2. (z + rm) * L = z * L + rm * L
      OBVIOUS
    <2>3. (q00 + r01 + r10) * L = q00 * L + r01 * L + r10 * L
      OBVIOUS
    <2> QED BY <2>1, <2>2, <2>3
  <1>9. (p11 + q01 + q10 + qm) * (L * L)
          = (p11 * L) * L + (q01 * L) * L + (q10 * L) * L + (qm * L) * L
    OBVIOUS
  <1>10. PICK A \in Int, B \in Int, C \in Int, D \in Int :
           A = (p11 * L) * L /\ B = (q01 * L) * L /\ C = (q10 * L) * L /\ D = (qm * L) * L
    OBVIOUS
  <1>11. PICK E \in Int, F \in Int, G \in Int, H \in Int :
           E = q00 * L /\ F = r01 * L /\ G = r10 * L /\ H = rm * L
    OBVIOUS
  <1>12. (x + a0) * (y + b0) = A + (C + G) + (B + F) + (E + r00)
    <2>1. x * b0 = C + G /\ a0 * y = B + F /\ x * y = A /\ a0 * b0 = E + r00
      BY <1>3, <1>4, <1>5, <1>6, <1>7, <1>10, <1>11
    <2> QED BY <1>2, <2>1
  <1>13. (p11 + q01 + q10 + qm) * (L * L) = A + B + C + D
    BY <1>9, <1>10
  <1>14. E + F + G = D + H
    BY <1>8, <1>10, <1>11
  <1>15. A + B + C + D + (r00 + H) = A + (C + G) + (B + F) + (E + r00)
    BY <1>14
  <1> QED BY <1>1, <1>11, <1>12, <1>13, <1>15

\* The two words of a product are its value.
LEMMA MulFullIsExact ==
  ASSUME RateAssumption, NEW a \in 0 .. Word - 1, NEW b \in 0 .. Word - 1
  PROVE  /\ MulFull(a, b) = <<MulFull(a, b)[1], MulFull(a, b)[2]>>
         /\ MulFull(a, b)[1] \in 0 .. Word - 1 /\ MulFull(a, b)[2] \in 0 .. Word - 1
         /\ MulFull(a, b)[1] * Word + MulFull(a, b)[2] = a * b
  <1>1. PICK L \in Nat \ {0, 1} : L = Limb
    BY DEF RateAssumption
  <1>2. Word = L * L /\ Word \in Nat \ {0, 1}
    BY <1>1, WordIsEven DEF Word
  <1>3. a \in Nat /\ b \in Nat
    BY <1>2
  <1>4. PICK a1, a0 : Divided(a, L, a1, a0)
    BY <1>1, <1>3, DividedByBoth
  <1>5. PICK b1, b0 : Divided(b, L, b1, b0)
    BY <1>1, <1>3, DividedByBoth
  <1>6. a1 \in Nat /\ a0 \in Nat /\ b1 \in Nat /\ b0 \in Nat
    BY <1>4, <1>5 DEF Divided
  <1>7. a0 * b0 \in Nat /\ a0 * b1 \in Nat /\ a1 * b0 \in Nat /\ a1 * b1 \in Nat
    BY <1>6
  <1>8. PICK q00, r00 : Divided(a0 * b0, L, q00, r00)
    BY <1>1, <1>7, DividedByBoth
  <1>9. PICK q01, r01 : Divided(a0 * b1, L, q01, r01)
    BY <1>1, <1>7, DividedByBoth
  <1>10. PICK q10, r10 : Divided(a1 * b0, L, q10, r10)
    BY <1>1, <1>7, DividedByBoth
  <1>11. /\ q00 \in Nat /\ r00 \in Nat /\ r00 < L /\ q01 \in Nat /\ r01 \in Nat
         /\ q10 \in Nat /\ r10 \in Nat
    BY <1>8, <1>9, <1>10 DEF Divided
  <1>12. q00 + r01 + r10 \in Nat
    BY <1>11
  <1>13. PICK qm, rm : Divided(q00 + r01 + r10, L, qm, rm)
    BY <1>1, <1>12, DividedByBoth
  <1>14. qm \in Nat /\ rm \in Nat /\ rm < L
    BY <1>13 DEF Divided
  <1>15. PICK p11 \in Nat : p11 = a1 * b1
    BY <1>7
  <1>16. PICK hi \in Nat, lo \in Nat : hi = p11 + q01 + q10 + qm /\ lo = r00 + rm * L
    BY <1>1, <1>11, <1>14, <1>15
  <1>17. MulFull(a, b) = <<hi, lo>>
    BY <1>1, <1>4, <1>5, <1>8, <1>9, <1>10, <1>13, <1>15, <1>16 DEF MulFull, Divided
  <1>18. hi * Word + lo = a * b
    <2>1. a0 * b0 = q00 * L + r00 /\ a0 * b1 = q01 * L + r01 /\ a1 * b0 = q10 * L + r10
          /\ q00 + r01 + r10 = qm * L + rm
      BY <1>8, <1>9, <1>10, <1>13 DEF Divided
    <2>2. (p11 + q01 + q10 + qm) * (L * L) + (r00 + rm * L) = (a1 * L + a0) * (b1 * L + b0)
      BY <1>1, <1>6, <1>11, <1>14, <1>15, <2>1, ColumnsAddUp
    <2>3. a = a1 * L + a0 /\ b = b1 * L + b0
      BY <1>4, <1>5 DEF Divided
    <2> QED BY <1>2, <1>16, <2>2, <2>3
  <1>19. lo \in 0 .. Word - 1
    <2>1. PICK k \in Int : k = L - 1
      BY <1>1
    <2>2. rm * L <= k * L
      BY <1>1, <1>14, <2>1, ProductGrows
    <2>3. k * L = L * L - L
      BY <1>1, <2>1
    <2> QED BY <1>1, <1>2, <1>11, <1>14, <1>16, <2>2, <2>3
  <1>20. hi \in 0 .. Word - 1
    <2>1. PICK W \in Nat \ {0, 1}, V \in Nat : W = Word /\ V = W - 1
      BY <1>2
    <2>2. a * b <= V * b
      BY <1>3, <2>1, ProductGrows
    <2>3. b * V <= W * V
      BY <1>3, <2>1, ProductGrows
    <2>4. V * b = b * V /\ W * V = W * W - W
      BY <1>3, <2>1
    <2>5. CASE W <= hi
      <3>1. W * W <= hi * W
        BY <1>16, <2>1, <2>5, ProductGrows
      <3> QED BY <1>3, <1>16, <1>18, <2>1, <2>2, <2>3, <2>4, <3>1
    <2> QED BY <1>2, <1>16, <2>1, <2>5
  <1> QED BY <1>17, <1>18, <1>19, <1>20

\* s is a pair of words and has the sum of the values of two pairs, unless that
\* takes more than two words.
AddsPairs(s, h, l, u, v) ==
    /\ s = <<s[1], s[2]>> /\ s[1] \in 0 .. Word - 1 /\ s[2] \in 0 .. Word - 1
    /\ ~ Overflows(<<h, l>>, <<u, v>>) => s[1] * Word + s[2] = (h * Word + l) + (u * Word + v)
    /\ Overflows(<<h, l>>, <<u, v>>) => Word * Word <= (h * Word + l) + (u * Word + v)

\* A sum of pairs that does not overflow is the sum of their values.
LEMMA Add256IsExact ==
  ASSUME RateAssumption, NEW h \in 0 .. Word - 1, NEW l \in 0 .. Word - 1,
         NEW u \in 0 .. Word - 1, NEW v \in 0 .. Word - 1
  PROVE  AddsPairs(Add256(<<h, l>>, <<u, v>>), h, l, u, v)
  <1>1. PICK W \in Nat \ {0, 1} : W = Word
    BY WordIsEven
  <1>2. h \in Nat /\ l \in Nat /\ u \in Nat /\ v \in Nat
    BY <1>1
  <1>3. PICK c \in Nat, lo \in 0 .. W - 1 :
          c = (l + v) \div W /\ lo = (l + v) % W /\ l + v = c * W + lo
    <2>1. PICK a \in Nat : a = l + v
      BY <1>2
    <2>2. a \div W \in Nat /\ a % W \in 0 .. W - 1 /\ a = (a \div W) * W + (a % W)
      BY <1>1, QuotientAndRemainder
    <2> QED BY <2>1, <2>2
  <1>4. PICK hi \in Nat, top \in 0 .. W - 1 : hi = h + u + c /\ top = hi % W
    <2>1. PICK a \in Nat : a = h + u + c
      BY <1>2, <1>3
    <2>2. a % W \in 0 .. W - 1
      BY <1>1, QuotientAndRemainder
    <2> QED BY <2>1, <2>2
  <1>5. Add256(<<h, l>>, <<u, v>>) = <<top, lo>>
    BY <1>1, <1>3, <1>4 DEF Add256
  <1>6. Overflows(<<h, l>>, <<u, v>>) <=> hi >= W
    BY <1>1, <1>3, <1>4 DEF Overflows
  <1>7. (h * W + l) + (u * W + v) = hi * W + lo
    <2>1. (h + u + c) * W = h * W + u * W + c * W
      BY <1>2, <1>3
    <2> QED BY <1>2, <1>3, <1>4, <2>1
  <1>8. hi < W => top = hi
    <2>1. hi \in Int /\ 0 <= hi
      BY <1>4
    <2>2. 0 <= hi /\ hi < W => hi % W = hi
      BY <1>1, <2>1, RemainderWithin
    <2> QED BY <1>4, <2>1, <2>2
  <1>9. W <= hi => W * W <= hi * W
    BY <1>1, <1>4, ProductGrows
  <1>10. hi * W \in Nat
    BY <1>4
  <1>11. Overflows(<<h, l>>, <<u, v>>) => W * W <= (h * W + l) + (u * W + v)
    BY <1>1, <1>3, <1>4, <1>6, <1>7, <1>9, <1>10
  <1>12. ~ Overflows(<<h, l>>, <<u, v>>) => top * W + lo = (h * W + l) + (u * W + v)
    BY <1>1, <1>4, <1>6, <1>7, <1>8
  <1> QED BY <1>1, <1>5, <1>11, <1>12 DEF AddsPairs

\* n divided by d gives q and leaves r.
Exactly(n, d, q, r) == n = q * d + r /\ r \in 0 .. d - 1

\* Rounding up at half of the divisor rounds half up.
LEMMA RoundsHalfUp ==
  ASSUME RateAssumption, NEW d \in 1 .. Word - 1, NEW q \in 0 .. Word - 1, NEW r,
         NEW n \in Nat, Exactly(n, d, q, r)
  PROVE  /\ n \div d = q
         /\ RoundHalfUp(q, r, d) = FitsWord(HalfUp(n, d))
         /\ r = 0 \/ q + 1 < Word => HalfUp(n, d) < Word
  <1>1. PICK W \in Nat \ {0, 1} : W = Word
    BY WordIsEven
  <1>2. /\ d \in Nat \ {0} /\ q \in Nat /\ r \in Nat /\ d < W /\ q < W /\ r < d
        /\ n = q * d + r
    BY <1>1 DEF Exactly
  <1>3. PICK m \in Int : m = q * d
    BY <1>2
  <1>4. n \div d = q
    <2>1. PICK k \in Int : k = q
      BY <1>2
    <2>2. k * d <= n /\ n < k * d + d
      BY <1>2, <1>3, <2>1
    <2>3. n \div d = k
      BY <1>2, <2>2, QuotientIs
    <2> QED BY <2>1, <2>3
  <1>5. PICK e \in Nat \ {0}, a \in Nat : e = 2 * d /\ a = 2 * n + d
    BY <1>2
  <1>6. q * e = 2 * m /\ (q + 1) * e = 2 * m + 2 * d
    BY <1>2, <1>3, <1>5
  <1>7. CASE 2 * r >= d
    <2>1. PICK k \in Int : k = q + 1
      BY <1>2
    <2>2. k * e <= a /\ a < k * e + e
      BY <1>2, <1>3, <1>5, <1>6, <1>7, <2>1
    <2>3. a \div e = k
      BY <1>5, <2>2, QuotientIs
    <2>4. HalfUp(n, d) = q + 1
      BY <1>5, <2>1, <2>3 DEF HalfUp
    <2>5. RoundHalfUp(q, r, d) = IF q + 1 < Word THEN q + 1 ELSE None
      BY <1>7 DEF RoundHalfUp
    <2> QED BY <1>1, <1>2, <1>4, <1>7, <2>4, <2>5 DEF FitsWord
  <1>8. CASE 2 * r < d
    <2>0. PICK k \in Int : k = q
      BY <1>2
    <2>1. k * e <= a /\ a < k * e + e
      BY <1>2, <1>3, <1>5, <1>6, <1>8, <2>0
    <2>2. a \div e = q
      BY <1>5, <2>0, <2>1, QuotientIs
    <2>3. HalfUp(n, d) = q
      BY <1>5, <2>2 DEF HalfUp
    <2>4. RoundHalfUp(q, r, d) = q
      BY <1>1, <1>2, <1>8 DEF RoundHalfUp
    <2> QED BY <1>1, <1>2, <1>4, <2>3, <2>4 DEF FitsWord
  <1> QED BY <1>2, <1>7, <1>8

-----------------------------------------------------------------------------
(* Averages and scalings *)

\* What the loop of weighted_average keeps: words, the exact sum as long as the
\* durations fit a word, and no more of it than the largest rate throughout.
RateIInv ==
    /\ acc = <<acc[1], acc[2]>> /\ acc[1] \in 0 .. Word - 1 /\ acc[2] \in 0 .. Word - 1
    /\ failed \in BOOLEAN /\ totalDuration \in Nat /\ exactSum \in Nat
    /\ failed <=> totalDuration >= Word
    /\ ~failed => Value(acc) = exactSum
    /\ exactSum <= (Word - 1) * totalDuration
    /\ lastInterval[1] \in 0 .. Word - 1 /\ lastInterval[2] \in 0 .. Word - 1

\* A pair whose value is below Word times d can be divided by d.
LEMMA SmallPairDivides ==
  ASSUME RateAssumption, NEW d \in 1 .. Word - 1, NEW hi \in 0 .. Word - 1,
         NEW lo \in 0 .. Word - 1, hi * Word + lo < d * Word
  PROVE  hi \in 0 .. d - 1
  <1>1. PICK W \in Nat \ {0, 1} : W = Word
    BY WordIsEven
  <1>2. hi \in Nat /\ lo \in Nat /\ d \in Nat /\ hi * W \in Int
    BY <1>1
  <1>3. CASE d <= hi
    <2>1. d * W <= hi * W
      BY <1>1, <1>2, <1>3, ProductGrows
    <2> QED BY <1>1, <1>2, <2>1
  <1> QED BY <1>2, <1>3

\* An interval keeps it: until the durations leave a word, no sum of two does.
LEMMA IntervalKeepsSum ==
  ASSUME RateAssumption, RateIInv, NEW rate \in Rates, NEW duration \in IntervalLengths,
         AddInterval(rate, duration)
  PROVE  RateIInv'
  <1>1. PICK W \in Nat \ {0, 1}, V \in Nat : W = Word /\ V = W - 1
    BY WordIsEven
  <1>2. PICK r \in Nat, d \in Nat : r = rate /\ d = duration /\ r <= V /\ d <= V
    <2>1. rate \in 0 .. Word - 1
      BY DEF RateAssumption
    <2>2. duration \in 0 .. Limb - 1 /\ Limb \in Nat \ {0, 1}
      BY DEF RateAssumption
    <2>3. PICK L \in Nat \ {0, 1} : L = Limb
      BY <2>2
    <2>4. 1 * L <= L * L
      BY <2>3, ProductGrows
    <2>5. Limb <= Word
      BY <2>3, <2>4 DEF Word
    <2> QED BY <1>1, <2>1, <2>2, <2>5
  <1>3. PICK h, l : acc = <<h, l>> /\ h \in 0 .. Word - 1 /\ l \in 0 .. Word - 1
    BY DEF RateIInv
  <1>4. PICK u, v : MulFull(rate, duration) = <<u, v>> /\ u \in 0 .. Word - 1 /\ v \in 0 .. Word - 1
                    /\ u * Word + v = r * d
    <2>1. rate \in 0 .. Word - 1 /\ duration \in 0 .. Word - 1
      BY <1>1, <1>2
    <2> QED BY <1>2, <2>1, MulFullIsExact
  <1>5. PICK n \in Nat, t \in Nat : n = exactSum /\ t = totalDuration /\ n <= V * t
    BY <1>1 DEF RateIInv
  <1>6. ~failed /\ t < W /\ h * Word + l = n
    BY <1>1, <1>3, <1>5 DEF RateIInv, AddInterval, Value
  <1>7. PICK s : s = Add256(<<h, l>>, <<u, v>>)
    OBVIOUS
  <1>8. /\ s = <<s[1], s[2]>> /\ s[1] \in 0 .. Word - 1 /\ s[2] \in 0 .. Word - 1
        /\ ~ Overflows(<<h, l>>, <<u, v>>) => s[1] * Word + s[2] = n + r * d
        /\ Overflows(<<h, l>>, <<u, v>>) => Word * Word <= n + r * d
    <2>1. /\ s = <<s[1], s[2]>> /\ s[1] \in 0 .. Word - 1 /\ s[2] \in 0 .. Word - 1
          /\ ~ Overflows(<<h, l>>, <<u, v>>) =>
               s[1] * Word + s[2] = (h * Word + l) + (u * Word + v)
          /\ Overflows(<<h, l>>, <<u, v>>) => Word * Word <= (h * Word + l) + (u * Word + v)
      <3>1. AddsPairs(s, h, l, u, v)
        BY <1>3, <1>4, <1>7, Add256IsExact
      <3> QED BY <3>1 DEF AddsPairs
    <2>2. (h * Word + l) + (u * Word + v) = n + r * d
      BY <1>4, <1>6
    <2> QED BY <2>1, <2>2
  <1>9. /\ failed' = (Overflows(<<h, l>>, <<u, v>>) \/ t + d >= Word)
        /\ acc' = s /\ totalDuration' = t + d /\ exactSum' = n + r * d
        /\ lastInterval' = <<r, d>>
    BY <1>2, <1>3, <1>4, <1>5, <1>7 DEF AddInterval
  <1>10. r * d \in Nat /\ r * d <= V * d
    BY <1>2, <1>1, ProductGrows
  <1>11. V * (t + d) = V * t + V * d /\ V * t \in Nat /\ V * d \in Nat
    BY <1>1, <1>2, <1>5
  <1>12. n + r * d <= V * (t + d)
    BY <1>2, <1>5, <1>10, <1>11
  <1>13. ASSUME t + d < W  PROVE ~ Overflows(<<h, l>>, <<u, v>>)
    <2>1. PICK m \in Nat : m = t + d /\ m < W
      BY <1>2, <1>5, <1>13
    <2>2. m * V <= W * V /\ W * V = W * W - W /\ V * m = m * V /\ W * W \in Nat
      BY <1>1, <2>1, ProductGrows
    <2> QED BY <1>1, <1>2, <1>5, <1>8, <1>10, <1>12, <2>1, <2>2
  <1>14. failed' \in BOOLEAN /\ (failed' <=> totalDuration' >= Word)
    <2>1. Overflows(<<h, l>>, <<u, v>>) => t + d >= Word
      BY <1>1, <1>2, <1>5, <1>13
    <2>2. failed' \in BOOLEAN /\ (failed' <=> t + d >= Word)
      BY <1>9, <2>1, Zenon
    <2> QED BY <1>9, <2>2
  <1>15. ~failed' => Value(acc)' = exactSum'
    BY <1>8, <1>9 DEF Value
  <1>16. exactSum' <= (Word - 1) * totalDuration' /\ exactSum' \in Nat /\ totalDuration' \in Nat
    BY <1>1, <1>2, <1>5, <1>9, <1>10, <1>12
  <1>17. lastInterval'[1] \in 0 .. Word - 1 /\ lastInterval'[2] \in 0 .. Word - 1
    BY <1>1, <1>2, <1>9
  <1>18. acc' = <<acc'[1], acc'[2]>> /\ acc'[1] \in 0 .. Word - 1 /\ acc'[2] \in 0 .. Word - 1
    BY <1>8, <1>9
  <1> QED BY <1>14, <1>15, <1>16, <1>17, <1>18 DEF RateIInv

\* The average of what was summed exactly is exact.
LEMMA AverageFollows ==
  ASSUME RateAssumption, RateIInv
  PROVE  AverageIsExact
  <1> SUFFICES ASSUME ~failed, totalDuration > 0
               PROVE  WeightedAverage = HalfUp(exactSum, totalDuration)
    BY DEF AverageIsExact
  <1>1. PICK W \in Nat \ {0, 1}, V \in Nat : W = Word /\ V = W - 1
    BY WordIsEven
  <1>2. PICK h, l : acc = <<h, l>> /\ h \in 0 .. Word - 1 /\ l \in 0 .. Word - 1
    BY DEF RateIInv
  <1>3. PICK n \in Nat, t \in 1 .. Word - 1 : n = exactSum /\ t = totalDuration /\ n <= V * t
    BY <1>1 DEF RateIInv
  <1>4. h * Word + l = n
    BY <1>2, <1>3 DEF RateIInv, Value
  <1>5. t \in Nat \ {0} /\ t < W
    BY <1>1, <1>3
  <1>6. V * t = t * W - t /\ t * W \in Nat
    BY <1>1, <1>5
  <1>7. h \in 0 .. t - 1
    <2>1. h * Word + l < t * Word
      BY <1>1, <1>3, <1>4, <1>5, <1>6
    <2> QED BY <1>2, <1>3, <2>1, SmallPairDivides
  <1>8. PICK e : e = DivMod(<<h, l>>, t)
    OBVIOUS
  <1>9. e.quot \in 0 .. Word - 1 /\ e.rem \in 0 .. t - 1 /\ n = e.quot * t + e.rem
    BY <1>2, <1>3, <1>4, <1>7, <1>8, DivModIsExact
  <1>10. PICK q \in Nat, r \in Nat : q = e.quot /\ r = e.rem /\ q <= V /\ r < t /\ n = q * t + r
    BY <1>1, <1>5, <1>9
  <1>11. r = 0 \/ q + 1 < W
    <2>1. CASE q = V
      BY <1>3, <1>5, <1>6, <1>10, <2>1
    <2>2. CASE q < V
      BY <1>1, <1>10, <2>2
    <2> QED BY <1>1, <1>10, <2>1, <2>2
  <1>12. RoundHalfUp(e.quot, e.rem, t) = FitsWord(HalfUp(n, t)) /\ HalfUp(n, t) < Word
    <2>1. Exactly(n, t, q, r) /\ q \in 0 .. Word - 1
      BY <1>1, <1>5, <1>10 DEF Exactly
    <2>2. /\ RoundHalfUp(q, r, t) = FitsWord(HalfUp(n, t))
          /\ r = 0 \/ q + 1 < Word => HalfUp(n, t) < Word
      BY <1>3, <2>1, RoundsHalfUp
    <2> QED BY <1>1, <1>10, <1>11, <2>2
  <1>13. Divides(acc, totalDuration)
    BY <1>2, <1>3, <1>5, <1>7 DEF Divides
  <1>14. WeightedAverage = RoundHalfUp(e.quot, e.rem, t)
    BY <1>2, <1>3, <1>5, <1>8, <1>13 DEF WeightedAverage
  <1> QED BY <1>3, <1>12, <1>14 DEF FitsWord

\* A product is divided exactly or refused.
LEMMA MulDivIsExact ==
  ASSUME RateAssumption, NEW a \in 0 .. Word - 1, NEW b \in 0 .. Word - 1,
         NEW p \in 0 .. Word - 1
  PROVE  /\ MulDivFloor(a, b, p) = IF p = 0 THEN None ELSE FitsWord((a * b) \div p)
         /\ MulDivRound(a, b, p) =
              IF p = 0 \/ (a * b) \div p >= Word THEN None ELSE FitsWord(HalfUp(a * b, p))
  <1>1. PICK W \in Nat \ {0, 1} : W = Word
    BY WordIsEven
  <1>2. PICK h, l : MulFull(a, b) = <<h, l>> /\ h \in 0 .. Word - 1 /\ l \in 0 .. Word - 1
                    /\ h * Word + l = a * b
    BY MulFullIsExact
  <1>3. PICK n \in Nat : n = a * b /\ n = h * Word + l
    BY <1>1, <1>2
  <1>4. CASE p = 0
    BY <1>2, <1>4 DEF MulDivFloor, MulDivRound, Divides
  <1>5. CASE p # 0 /\ h < p
    <2>1. p \in 1 .. Word - 1 /\ h \in 0 .. p - 1
      BY <1>1, <1>2, <1>5
    <2>2. PICK e : e = DivMod(<<h, l>>, p)
      OBVIOUS
    <2>3. e.quot \in 0 .. Word - 1 /\ e.rem \in 0 .. p - 1 /\ n = e.quot * p + e.rem
      BY <1>2, <1>3, <2>1, <2>2, DivModIsExact
    <2>4. n \div p = e.quot /\ RoundHalfUp(e.quot, e.rem, p) = FitsWord(HalfUp(n, p))
      <3>1. PICK d \in 1 .. Word - 1, q \in 0 .. Word - 1, r \in 0 .. p - 1 :
              d = p /\ q = e.quot /\ r = e.rem /\ n = q * d + r
        BY <2>1, <2>3
      <3>2. Exactly(n, d, q, r)
        BY <3>1 DEF Exactly
      <3>3. n \div d = q /\ RoundHalfUp(q, r, d) = FitsWord(HalfUp(n, d))
        BY <3>2, RoundsHalfUp
      <3> QED BY <3>1, <3>3
    <2>5. MulDivFloor(a, b, p) = e.quot
      BY <1>2, <1>5, <2>2 DEF MulDivFloor, Divides
    <2>6. MulDivRound(a, b, p) = RoundHalfUp(e.quot, e.rem, p)
      BY <1>2, <1>5, <2>2 DEF MulDivRound, Divides
    <2>7. e.quot < Word
      BY <1>1, <2>3
    <2> QED BY <1>1, <1>3, <1>5, <2>3, <2>4, <2>5, <2>6, <2>7 DEF FitsWord
  <1>6. CASE p # 0 /\ p <= h
    <2>1. PICK d \in Nat \ {0} : d = p
      BY <1>1, <1>6
    <2>2. h \in Nat /\ l \in Nat
      BY <1>1, <1>2
    <2>3. d * W <= h * W /\ h * W \in Nat /\ d * W = W * d
      BY <1>1, <1>6, <2>1, <2>2, ProductGrows
    <2>4. W * d <= n
      BY <1>1, <1>3, <2>2, <2>3
    <2>5. PICK q \in Nat : q = n \div d /\ q * d <= n /\ n < q * d + d
      BY <2>1, QuotientBounds
    <2>6. ASSUME q < W  PROVE FALSE
      <3>1. (q + 1) * d <= W * d
        BY <1>1, <2>1, <2>5, <2>6, ProductGrows
      <3>2. (q + 1) * d = q * d + d
        BY <2>1, <2>5
      <3> QED BY <1>1, <2>1, <2>4, <2>5, <3>1, <3>2
    <2>7. ~ Divides(MulFull(a, b), p)
      BY <1>1, <1>2, <1>6, <2>1, <2>2 DEF Divides
    <2>8. MulDivFloor(a, b, p) = None /\ MulDivRound(a, b, p) = None
      BY <2>7 DEF MulDivFloor, MulDivRound
    <2>9. (a * b) \div p >= Word /\ ~ ((a * b) \div p < Word)
      <3>1. (a * b) \div p = q
        BY <1>3, <2>1, <2>5
      <3>2. q >= Word /\ ~ (q < Word)
        BY <1>1, <2>5, <2>6
      <3> QED BY <3>1, <3>2
    <2> QED BY <1>6, <2>8, <2>9 DEF FitsWord
  <1> QED BY <1>1, <1>2, <1>4, <1>5, <1>6

\* Scalings are exact or refused, and mint no more than a deposit backs.
LEMMA ScalingFollows ==
  ASSUME RateAssumption, RateIInv
  PROVE  ScalingIsExact
  <1>1. PICK W \in Nat \ {0, 1} : W = Word
    BY WordIsEven
  <1>2. PICK a \in 0 .. Word - 1, b \in 0 .. Word - 1 : a = lastInterval[1] /\ b = lastInterval[2]
    BY DEF RateIInv
  <1>3. ASSUME NEW p \in Precisions, ReconcileTokens(a, p) # None
        PROVE  /\ ReconcileTokens(a, p) * p <= a * ScaleFactor
               /\ a * ScaleFactor < (ReconcileTokens(a, p) + 1) * p
    <2>1. p \in 0 .. Word - 1 /\ ScaleFactor \in 0 .. Word - 1 /\ MaxPrecision \in 0 .. Word - 1
      BY DEF RateAssumption
    <2>2. p \in 1 .. MaxPrecision /\ ReconcileTokens(a, p) = MulDivFloor(a, ScaleFactor, p)
      BY <1>3 DEF ReconcileTokens
    <2>3. PICK d \in Nat \ {0}, n \in Nat : d = p /\ n = a * ScaleFactor
      BY <1>1, <2>1, <2>2
    <2>4. MulDivFloor(a, ScaleFactor, p) = FitsWord(n \div d)
      BY <2>1, <2>3, MulDivIsExact
    <2>5. PICK q \in Nat : q = n \div d /\ q * d <= n /\ n < q * d + d
      BY <2>3, QuotientBounds
    <2>6. ReconcileTokens(a, p) = q
      BY <1>3, <2>2, <2>4, <2>5 DEF FitsWord
    <2>7. (q + 1) * d = q * d + d
      BY <2>3, <2>5
    <2> QED BY <2>3, <2>5, <2>6, <2>7
  <1>4. \A p \in Precisions : p \in 0 .. Word - 1
    BY DEF RateAssumption
  <1>5. ASSUME NEW p \in Precisions
        PROVE  /\ MulDivFloor(a, b, p) = IF p = 0 THEN None ELSE FitsWord((a * b) \div p)
               /\ MulDivRound(a, b, p) =
                    IF p = 0 \/ (a * b) \div p >= Word THEN None ELSE FitsWord(HalfUp(a * b, p))
    BY <1>4, <1>5, MulDivIsExact
  <1> QED BY <1>2, <1>3, <1>5 DEF ScalingIsExact

\* Averages and scalings are those of exact arithmetic, for words of any even
\* number of bits and all rates, durations and precisions: no sum of two words
\* overflows before the durations do, and no carry or remainder is lost.
THEOREM RateInvariant == RateSpec => []RateInv
  <1>1. RateInit => RateIInv
    <2> SUFFICES ASSUME RateInit  PROVE RateIInv
      OBVIOUS
    <2>1. PICK W \in Nat \ {0, 1}, V \in Nat : W = Word /\ V = W - 1
      BY RateAssumption, WordIsEven
    <2>2. V * 0 = 0 /\ 0 * W + 0 = 0
      BY <2>1
    <2>3. acc = <<0, 0>> /\ lastInterval = <<0, 0>> /\ ~failed /\ failed \in BOOLEAN
          /\ totalDuration = 0 /\ exactSum = 0
      BY DEF RateInit
    <2>4. Value(acc) = 0 /\ (Word - 1) * totalDuration = 0
      BY <2>1, <2>2, <2>3 DEF Value
    <2>5. failed <=> totalDuration >= Word
      BY <2>1, <2>3
    <2>6. 0 \in 0 .. Word - 1
      BY <2>1
    <2> QED BY <2>3, <2>4, <2>5, <2>6 DEF RateIInv
  <1>2. RateIInv /\ [RateNext]_<<now, rateVars>> => RateIInv'
    <2> SUFFICES ASSUME RateIInv, [RateNext]_<<now, rateVars>>  PROVE RateIInv'
      OBVIOUS
    <2>1. CASE RateNext
      BY <2>1, RateAssumption, IntervalKeepsSum DEF RateNext
    <2>2. CASE UNCHANGED <<now, rateVars>>
      BY <2>2 DEF rateVars, RateIInv, Value
    <2> QED BY <2>1, <2>2
  <1>3. RateIInv => RateInv
    <2> SUFFICES ASSUME RateIInv  PROVE RateInv
      OBVIOUS
    <2>1. SumIsExact
      BY DEF RateIInv, SumIsExact
    <2> QED BY <2>1, RateAssumption, AverageFollows, ScalingFollows DEF RateInv
  <1> QED BY <1>1, <1>2, <1>3, PTL DEF RateSpec

=============================================================================
