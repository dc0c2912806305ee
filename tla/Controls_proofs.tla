--------------------------- MODULE Controls_proofs ----------------------------
(***************************************************************************)
(* Proofs about the facilities that control the contracts: code waits out  *)
(* the veto period, the storage version covers every meter, the role of    *)
(* admin is handed on as proposed, no nonce is accepted twice between      *)
(* resets, a day's withdrawals stay within its limits but for counters     *)
(* lost, the supply of the resource token is what its holders have, and a  *)
(* flow is charged second by second, for every period, threshold, limit,   *)
(* batch, window, cap, tariff and set of signers.                          *)
(***************************************************************************)
EXTENDS UpgradeGovernance, AdminTransfer, NonceSync, VelocityLimit, ResourceToken,
        TariffOracle, Sums_proofs, FiniteSetTheorems, TLAPS

-----------------------------------------------------------------------------
(* Upgrades *)

\* The types of the upgrade facility hold at the start.
LEMMA UpgradeTypesStart == now = 0 /\ UpgradeInit => UpgradeTypeOK
  BY DEF UpgradeInit, UpgradeTypeOK, NoUpgrade, Released, Absent

\* What the migration stores: a cursor within the meters, or the next version.
LEMMA MigrationTypes ==
  ASSUME UpgradeTypeOK, UpgradeAssumption, RunMigration
  PROVE  storage' \in [version : {1}, cursor : {Absent} \cup 0 .. meters] \cup
                      [version : {2}, cursor : {Absent}]
  <1>1. storage \in [version : {1}, cursor : {Absent} \cup 0 .. meters] /\ meters \in Nat
    BY DEF UpgradeTypeOK, RunMigration
  <1> DEFINE cursor == IF MigrationInProgress THEN storage.cursor ELSE 0
  <1>2. cursor \in Nat
    BY <1>1 DEF MigrationInProgress, Absent
  <1>3. CASE cursor >= meters
    <2>1. storage' = [version |-> 2, cursor |-> Absent]
      BY <1>3 DEF RunMigration
    <2> QED BY <2>1
  <1>4. CASE ~(cursor >= meters)
    <2>1. storage' = [storage EXCEPT !.cursor = Smaller(cursor + MigrationBatch, meters)]
      BY <1>4 DEF RunMigration
    <2>2. Smaller(cursor + MigrationBatch, meters) \in 0 .. meters
      BY <1>1, <1>2 DEF Smaller, UpgradeAssumption
    <2> QED BY <2>1, <2>2, <1>1
  <1> QED BY <1>3, <1>4

\* Every step of the upgrade facility keeps its types.
LEMMA UpgradeTypesStep ==
  ASSUME UpgradeTypeOK, UpgradeAssumption, [UpgradeNext]_<<now, upgradeVars>>
  PROVE  UpgradeTypeOK'
  <1> USE DEF UpgradeTypeOK
  <1>1. ASSUME NEW h \in Hashes, ProposeUpgrade(h), UNCHANGED now  PROVE UpgradeTypeOK'
    <2>1. upgrade' = [hash |-> h, at |-> now, deadline |-> now + UpgradeVetoPeriod]
      BY <1>1 DEF ProposeUpgrade
    <2>2. upgrade' \in {[hash |-> g, at |-> t, deadline |-> t + UpgradeVetoPeriod] :
                          g \in Hashes, t \in 0 .. now}
      BY <2>1
    <2> QED BY <2>2, <1>1 DEF ProposeUpgrade
  <1>2. ASSUME NEW id \in 0 .. MaxTime, SubmitUpgradeVeto(id), UNCHANGED now
        PROVE  UpgradeTypeOK'
    <2>1. upgrade' \in {NoUpgrade} \cup
            {[hash |-> h, at |-> t, deadline |-> t + UpgradeVetoPeriod] :
               h \in Hashes, t \in 0 .. now'}
      BY <1>2 DEF SubmitUpgradeVeto
    <2>2. userVetoed \subseteq 0 .. MaxTime /\ userVetoed' = userVetoed \cup {id}
      BY <1>2 DEF SubmitUpgradeVeto
    <2>3. userVetoed' \subseteq 0 .. MaxTime
      BY <1>2, <2>2, Zenon
    <2>4. UNCHANGED <<now, code, storage, meters>>
      BY <1>2 DEF SubmitUpgradeVeto
    <2> QED BY <2>1, <2>3, <2>4
  <1>3. ASSUME Install, UNCHANGED <<now, userVetoed, storage, meters>>  PROVE UpgradeTypeOK'
    <2>1. upgrade.hash \in Hashes \cup {Released}
      BY DEF NoUpgrade
    <2> QED BY <2>1, <1>3 DEF Install
  <1>4. ASSUME RunMigration, UNCHANGED now  PROVE UpgradeTypeOK'
    BY <1>4, MigrationTypes DEF RunMigration
  <1>5. ASSUME CancelMigration, UNCHANGED now  PROVE UpgradeTypeOK'
    <2>1. storage' = [storage EXCEPT !.cursor = Absent]
      BY <1>5 DEF CancelMigration
    <2>2. storage' \in [version : {1}, cursor : {Absent} \cup 0 .. meters] \cup
                       [version : {2}, cursor : {Absent}]
      BY <2>1
    <2> QED BY <2>2, <1>5 DEF CancelMigration
  <1>6. ASSUME AnotherMeter, UNCHANGED now  PROVE UpgradeTypeOK'
    <2>1. meters' \in Nat /\ 0 .. meters \subseteq 0 .. meters'
      BY <1>6 DEF AnotherMeter
    <2> QED BY <2>1, <1>6 DEF AnotherMeter
  <1>7. ASSUME Tick, UNCHANGED upgradeVars  PROVE UpgradeTypeOK'
    <2>1. now' \in Nat /\ 0 .. now \subseteq 0 .. now'
      BY <1>7 DEF Tick
    <2> QED BY <2>1, <1>7 DEF upgradeVars
  <1>8. ASSUME UNCHANGED <<now, upgradeVars>>  PROVE UpgradeTypeOK'
    BY <1>8 DEF upgradeVars
  <1>9. ASSUME FinalizeUpgrade \/ \E v \in 1 .. 3 : FinalizeUpgradeV2(v), UNCHANGED now
        PROVE  UpgradeTypeOK'
    BY <1>9, <1>3 DEF FinalizeUpgrade, FinalizeUpgradeV2
  <1> QED
    BY <1>1, <1>2, <1>4, <1>5, <1>6, <1>7, <1>8, <1>9 DEF UpgradeNext, UpgradeStep

\* The stored proposal, deadline, cursor and version keep their types in every
\* order of proposals, finalisations and batches.
THEOREM UpgradeTypes == UpgradeSpec => []UpgradeTypeOK
  BY UpgradeTypesStart, UpgradeTypesStep, UpgradeAssumption, PTL DEF UpgradeSpec

\* A finalisation installs what stood proposed for the whole veto period.
LEMMA InstallWaits ==
  ASSUME UpgradeTypeOK, UpgradeAssumption, Install
  PROVE  /\ upgrade.at # Absent /\ code' = upgrade.hash
         /\ now >= upgrade.at + UpgradeVetoPeriod
  <1>1. upgrade # NoUpgrade
    BY DEF Install, CanFinalizeUpgrade, NoUpgrade
  <1>2. PICK h \in Hashes, t \in 0 .. now :
          upgrade = [hash |-> h, at |-> t, deadline |-> t + UpgradeVetoPeriod]
    BY <1>1 DEF UpgradeTypeOK
  <1> QED BY <1>2 DEF Install, CanFinalizeUpgrade, Absent

\* Code is replaced only by code that stood proposed for the whole veto period,
\* by either call and for every period.
THEOREM UpgradeWaitsForVetoes == UpgradeSpec => CodeWaitsForVetoes
  <1> DEFINE Waited == code' # code => /\ upgrade.at # Absent /\ code' = upgrade.hash
                                       /\ now >= upgrade.at + UpgradeVetoPeriod
  <1>1. ASSUME UpgradeTypeOK, UpgradeAssumption, [UpgradeNext]_<<now, upgradeVars>>
        PROVE  Waited
    <2>1. SUFFICES ASSUME code' # code PROVE Install
      BY <2>1, <1>1, InstallWaits
    <2> QED
      BY <1>1, <2>1 DEF UpgradeNext, UpgradeStep, ProposeUpgrade, SubmitUpgradeVeto,
         FinalizeUpgrade, FinalizeUpgradeV2, RunMigration, CancelMigration, AnotherMeter,
         upgradeVars
  <1>2. UpgradeTypeOK /\ [UpgradeNext]_<<now, upgradeVars>> => [Waited]_<<now, upgradeVars>>
    BY <1>1, UpgradeAssumption
  <1> QED
    BY <1>2, UpgradeTypes, PTL DEF UpgradeSpec, CodeWaitsForVetoes

\* The version moves by one and only behind a cursor that has passed every
\* meter, for every batch size and however many meters are added meanwhile.
THEOREM UpgradeVersionCoversMeters == UpgradeSpec => VersionCoversMeters
  <1> DEFINE Covered == storage'.version # storage.version =>
                          /\ storage'.version = storage.version + 1
                          /\ meters = 0 \/ storage.cursor >= meters
  <1>1. ASSUME UpgradeTypeOK, UpgradeAssumption, [UpgradeNext]_<<now, upgradeVars>>
        PROVE  Covered
    <2>1. ASSUME storage' = storage PROVE Covered
      BY <2>1
    <2>2. ASSUME CancelMigration PROVE Covered
      BY <2>2, <1>1 DEF CancelMigration, UpgradeTypeOK
    <2>3. ASSUME RunMigration PROVE Covered
      <3>1. storage \in [version : {1}, cursor : {Absent} \cup 0 .. meters] /\ meters \in Nat
        BY <2>3, <1>1 DEF UpgradeTypeOK, RunMigration
      <3> DEFINE cursor == IF MigrationInProgress THEN storage.cursor ELSE 0
      <3>2. CASE cursor >= meters
        <4>1. storage' = [version |-> 2, cursor |-> Absent]
          BY <3>2, <2>3 DEF RunMigration
        <4>2. meters = 0 \/ storage.cursor >= meters
          BY <3>1, <3>2
        <4> QED BY <4>1, <4>2, <3>1
      <3>3. CASE ~(cursor >= meters)
        <4>1. storage' = [storage EXCEPT !.cursor = Smaller(cursor + MigrationBatch, meters)]
          BY <3>3, <2>3 DEF RunMigration
        <4> QED BY <4>1, <3>1
      <3> QED BY <3>2, <3>3
    <2> QED
      BY <1>1, <2>1, <2>2, <2>3 DEF UpgradeNext, UpgradeStep, ProposeUpgrade,
         SubmitUpgradeVeto, FinalizeUpgrade, FinalizeUpgradeV2, AnotherMeter, upgradeVars
  <1>2. UpgradeTypeOK /\ [UpgradeNext]_<<now, upgradeVars>> => [Covered]_<<now, upgradeVars>>
    BY <1>1, UpgradeAssumption
  <1> QED
    BY <1>2, UpgradeTypes, PTL DEF UpgradeSpec, VersionCoversMeters

-----------------------------------------------------------------------------
(* The transfer of the admin *)

\* Both veto sets of a proposal are finite, so votes can be counted.
LEMMA VotersFinite ==
  ASSUME TransferAssumption, NEW t
  PROVE  IsFiniteSet(VotersOf(t)) /\ Cardinality(VotersOf(t)) \in Nat
  <1>1. VotersOf(t) \subseteq Voters
    BY DEF VotersOf
  <1> QED BY <1>1, FS_Subset, FS_CardinalityType DEF TransferAssumption

\* A veto that was not there adds a voter to its proposal.
LEMMA VetoCounts ==
  ASSUME TransferAssumption, NEW u \in Voters, NEW t,
         <<u, t>> \notin adminVetoes, adminVetoes' = adminVetoes \cup {<<u, t>>}
  PROVE  Cardinality(VotersOf(t)') = Cardinality(VotersOf(t)) + 1
  <1>1. VotersOf(t)' = VotersOf(t) \cup {u} /\ u \notin VotersOf(t)
    BY DEF VotersOf
  <1> QED BY <1>1, VotersFinite, FS_AddElement

\* The transfer facility starts in its invariant.
LEMMA TransferStart == now = 0 /\ TransferInit => TransferInv
  BY DEF TransferInit, TransferInv, TransferTypeOK, TransferIsCurrent, VetoesAreUsers,
     ActiveTransfer, Absent

\* Calls that leave the proposal, its vetoes and the admin alone, and a later
\* timestamp, keep the invariant.
LEMMA TransferKept ==
  ASSUME TransferInv, now' \in Nat, now' >= now,
         UNCHANGED <<currentAdmin, transfer, adminVetoes>>,
         officer' \in Admins \cup {NoAdmin}, activeUsers' \in {Absent} \cup Nat,
         verification' \in {"none", "requested", "granted"}
  PROVE  TransferInv'
  <1> USE DEF TransferInv, TransferTypeOK, TransferIsCurrent, VetoesAreUsers, ActiveTransfer
  <1>1. 0 .. now \subseteq 0 .. now'
    OBVIOUS
  <1>2. adminVetoes' \subseteq Voters \X (0 .. now')
    BY <1>1
  <1>3. transfer' \in {NoTransfer} \cup
          [current : Admins, proposed : Admins, at : 0 .. now', deadline : Nat, vetoes : Nat]
    BY <1>1
  <1>4. \A t : VotersOf(t)' = VotersOf(t)
    BY DEF VotersOf
  <1>5. ActiveTransfer' = ActiveTransfer /\ NoTransfer' = NoTransfer
    BY DEF NoTransfer
  <1> QED BY <1>2, <1>3, <1>4, <1>5

\* A proposal is the current admin's, open for the whole timelock, not vetoed.
LEMMA InitiateKeeps ==
  ASSUME TransferInv, TransferAssumption, NEW a \in Admins, InitiateTransfer(a), now' = now
  PROVE  TransferInv'
  <1> USE DEF TransferInv, TransferTypeOK
  <1>1. transfer' = [current |-> currentAdmin, proposed |-> a, at |-> now,
                     deadline |-> now + TransferTimelock, vetoes |-> 0]
    BY DEF InitiateTransfer
  <1>2. currentAdmin \in Admins /\ UNCHANGED <<currentAdmin, adminVetoes, activeUsers, officer,
                                               verification>>
    BY DEF InitiateTransfer
  <1>3. now + TransferTimelock \in Nat
    BY DEF TransferAssumption
  <1>4. TransferTypeOK'
    BY <1>1, <1>2, <1>3
  <1>5. Cardinality(VotersOf(now)') \in Nat
    BY <1>2, VotersFinite DEF VotersOf
  <1>6. VetoesAreUsers'
    BY <1>1, <1>5 DEF VetoesAreUsers
  <1> QED BY <1>1, <1>2, <1>4, <1>6 DEF TransferIsCurrent

\* A counted veto is a new user's.
LEMMA VetoKeeps ==
  ASSUME TransferInv, TransferAssumption, NEW u \in Voters, VetoTransfer(u), now' = now
  PROVE  TransferInv'
  <1> USE DEF TransferInv, TransferTypeOK
  <1>1. transfer \in [current : Admins, proposed : Admins, at : 0 .. now,
                      deadline : Nat, vetoes : Nat]
    BY DEF VetoTransfer, ActiveTransfer
  <1>2. transfer' = [transfer EXCEPT !.vetoes = @ + 1]
    BY DEF VetoTransfer
  <1>3. transfer' = [current |-> transfer.current, proposed |-> transfer.proposed,
                     at |-> transfer.at, deadline |-> transfer.deadline,
                     vetoes |-> transfer.vetoes + 1]
    BY <1>1, <1>2
  <1>4. UNCHANGED <<currentAdmin, activeUsers, officer, verification>>
    BY DEF VetoTransfer
  <1>5. adminVetoes' = adminVetoes \cup {<<u, transfer.at>>} /\ <<u, transfer.at>> \notin adminVetoes
    BY DEF VetoTransfer
  <1>6. transfer' \in [current : Admins, proposed : Admins, at : 0 .. now',
                       deadline : Nat, vetoes : Nat]
    BY <1>1, <1>3
  <1>7. adminVetoes' \subseteq Voters \X (0 .. now')
    BY <1>1, <1>5
  <1>8. transfer'.deadline = transfer'.at + TransferTimelock
    BY <1>3 DEF VetoTransfer
  <1>9. TransferTypeOK'
    BY <1>4, <1>6, <1>7, <1>8
  <1>10. transfer.vetoes <= Cardinality(VotersOf(transfer.at))
    BY DEF VetoTransfer, VetoesAreUsers
  <1>11. PICK t : t = transfer.at
    OBVIOUS
  <1>12. Cardinality(VotersOf(t)') = Cardinality(VotersOf(t)) + 1
    BY <1>5, <1>11, VetoCounts
  <1>13. Cardinality(VotersOf(t)) \in Nat /\ transfer'.at = t /\ transfer.vetoes \in Nat
    BY <1>1, <1>3, <1>11, VotersFinite
  <1>14. transfer'.vetoes <= Cardinality(VotersOf(t)')
    BY <1>3, <1>10, <1>11, <1>12, <1>13
  <1>15. VotersOf(transfer.at)' = VotersOf(t)'
    BY <1>13 DEF VotersOf
  <1>16. VetoesAreUsers'
    BY <1>14, <1>15 DEF VetoesAreUsers
  <1>17. TransferIsCurrent'
    BY <1>3, <1>4 DEF TransferIsCurrent, VetoTransfer
  <1> QED BY <1>9, <1>16, <1>17

\* An execution leaves no proposal behind.
LEMMA ExecuteKeeps ==
  ASSUME TransferInv, ExecuteTransfer, now' = now
  PROVE  TransferInv'
  <1> USE DEF TransferInv, TransferTypeOK
  <1>1. transfer.proposed \in Admins
    BY DEF ExecuteTransfer, ActiveTransfer
  <1>2. transfer' = NoTransfer /\ currentAdmin' \in Admins
    BY <1>1 DEF ExecuteTransfer
  <1>3. ~ActiveTransfer'
    BY <1>2 DEF ActiveTransfer, NoTransfer
  <1>4. UNCHANGED <<adminVetoes, activeUsers, officer, verification>>
    BY DEF ExecuteTransfer
  <1>5. TransferTypeOK'
    BY <1>2, <1>3, <1>4 DEF NoTransfer
  <1> QED BY <1>3, <1>5 DEF TransferIsCurrent, VetoesAreUsers

\* Without an admin there is no proposal, so the first admin finds none.
LEMMA SetInitialKeeps ==
  ASSUME TransferInv, TransferAssumption, NEW a \in Admins, SetInitialAdmin(a), now' = now
  PROVE  TransferInv'
  <1> USE DEF TransferInv, TransferTypeOK
  <1>1. ~ActiveTransfer
    BY DEF SetInitialAdmin, TransferIsCurrent, ActiveTransfer, TransferAssumption
  <1>2. UNCHANGED <<transfer, adminVetoes, activeUsers, officer, verification>> /\ currentAdmin' = a
    BY DEF SetInitialAdmin
  <1>3. ~ActiveTransfer'
    BY <1>1, <1>2 DEF ActiveTransfer, NoTransfer
  <1>4. TransferTypeOK'
    BY <1>2, <1>3
  <1> QED BY <1>3, <1>4 DEF TransferIsCurrent, VetoesAreUsers

\* Every step of the transfer facility keeps its invariant.
LEMMA TransferStepKeeps ==
  ASSUME TransferInv, TransferAssumption, [TransferNext]_<<now, transferVars>>
  PROVE  TransferInv'
  <1> USE DEF TransferInv, TransferTypeOK
  <1>1. ASSUME NEW a \in Admins, SetComplianceOfficer(a), now' = now  PROVE TransferInv'
    BY <1>1, TransferKept DEF SetComplianceOfficer
  <1>2. ASSUME RegisterActiveUser, now' = now  PROVE TransferInv'
    <2>1. activeUsers' \in Nat
      BY <1>2 DEF RegisterActiveUser, Absent
    <2> QED BY <2>1, <1>2, TransferKept DEF RegisterActiveUser
  <1>3. ASSUME RequestVerification \/ GrantVerification, now' = now  PROVE TransferInv'
    BY <1>3, TransferKept DEF RequestVerification, GrantVerification
  <1>4. ASSUME Tick, UNCHANGED transferVars  PROVE TransferInv'
    <2>1. now' \in Nat /\ now' >= now
      BY <1>4 DEF Tick
    <2> QED BY <2>1, <1>4, TransferKept DEF transferVars
  <1>5. ASSUME UNCHANGED <<now, transferVars>>  PROVE TransferInv'
    BY <1>5, TransferKept DEF transferVars
  <1> QED
    BY <1>1, <1>2, <1>3, <1>4, <1>5, InitiateKeeps, VetoKeeps, ExecuteKeeps, SetInitialKeeps
    DEF TransferNext, TransferStep

\* The role of admin is handed on as proposed, by the admin of now, with the
\* whole timelock for vetoes and each counted veto another user's, for every
\* timelock, threshold and set of voters.
THEOREM TransferInvariant == TransferSpec => []TransferInv
  BY TransferStart, TransferStepKeeps, TransferAssumption, PTL DEF TransferSpec

-----------------------------------------------------------------------------
(* Heartbeat nonces *)

\* The nonces start in their invariant.
LEMMA NonceStart == NonceAssumption /\ now = 0 /\ NonceInit => NonceInv
  <1> SUFFICES ASSUME NonceAssumption, now = 0, NonceInit PROVE NonceInv
    OBVIOUS
  <1>1. nonceState = [expected |-> -1, desyncs |-> 0, since |-> 0, suspicious |-> FALSE]
    BY DEF NonceInit, NoNonceState, NewNonceState, Absent
  <1>2. accepted = <<>> /\ now = 0
        /\ request = [approvals |-> <<>>, quorum |-> 0, expires |-> 0, executed |-> FALSE]
    BY DEF NonceInit, NoRequest
  <1>3. NonceTypeOK
    BY <1>1, <1>2 DEF NonceTypeOK, Absent
  <1>4. NoReplay
    BY <1>2 DEF NoReplay
  <1>5. SuspicionMatchesDesyncs
    BY <1>1 DEF SuspicionMatchesDesyncs, NonceAssumption
  <1> QED BY <1>3, <1>4, <1>5 DEF NonceInv

\* The state a heartbeat is checked against: the stored one or a new one, of
\* which nothing was accepted yet.
LEMMA DeviceStateSound ==
  ASSUME NonceInv, NonceAssumption
  PROVE  /\ DeviceState \in [expected : Nat \cup {Absent}, desyncs : Nat, since : 0 .. now,
                             suspicious : BOOLEAN]
         /\ DeviceState.suspicious <=> DeviceState.desyncs > DesyncLimit
         /\ \A i \in DOMAIN accepted : accepted[i] < DeviceState.expected
  <1>1. CASE nonceState = NoNonceState
    <2>1. DeviceState = [expected |-> 0, desyncs |-> 0, since |-> 0, suspicious |-> FALSE]
      BY <1>1 DEF DeviceState, NewNonceState
    <2>2. nonceState.expected = -1
      BY <1>1 DEF NoNonceState, NewNonceState, Absent
    <2>3. \A i \in DOMAIN accepted : accepted[i] < -1 /\ accepted[i] \in Nat
      BY <2>2 DEF NonceInv, NoReplay, NonceTypeOK
    <2> QED BY <2>1, <2>3 DEF NonceAssumption, NonceInv, NonceTypeOK
  <1>2. CASE nonceState # NoNonceState
    BY <1>2 DEF DeviceState, NonceInv, NonceTypeOK, NoReplay, SuspicionMatchesDesyncs
  <1> QED BY <1>1, <1>2

\* A heartbeat is accepted after every other, once, and lifts a suspicion only
\* when no desync is counted.
LEMMA AcceptKeeps ==
  ASSUME NonceInv, NonceAssumption, NEW n \in 0 .. MaxNonce, AcceptHeartbeat(n), now' = now
  PROVE  NonceInv'
  <1> DEFINE s == DeviceState
  <1>1. n = s.expected /\ n \in Nat
    BY DEF AcceptHeartbeat, NonceAssumption
  <1>2. /\ nonceState' = [s EXCEPT !.expected = n + 1, !.suspicious = @ /\ s.desyncs # 0]
        /\ accepted' = Append(accepted, n)
        /\ UNCHANGED request
    BY DEF AcceptHeartbeat
  <1>3. /\ s \in [expected : Nat \cup {Absent}, desyncs : Nat, since : 0 .. now,
                  suspicious : BOOLEAN]
        /\ s.suspicious <=> s.desyncs > DesyncLimit
        /\ \A i \in DOMAIN accepted : accepted[i] < s.expected
    BY DeviceStateSound
  <1> HIDE DEF s
  <1>4. nonceState' = [expected |-> n + 1, desyncs |-> s.desyncs, since |-> s.since,
                       suspicious |-> s.suspicious /\ s.desyncs # 0]
    BY <1>2, <1>3
  <1>5. accepted \in Seq(Nat)
    BY DEF NonceInv, NonceTypeOK
  <1>6. NonceTypeOK'
    BY <1>1, <1>2, <1>3, <1>4, <1>5 DEF NonceInv, NonceTypeOK
  <1>7. NoReplay'
    <2>1. \A i \in DOMAIN accepted' :
            \/ i \in DOMAIN accepted /\ accepted'[i] = accepted[i]
            \/ i = Len(accepted) + 1 /\ accepted'[i] = n
      BY <1>2, <1>5
    <2>2. \A i, j \in DOMAIN accepted' : i < j => i \in DOMAIN accepted /\ accepted'[i] = accepted[i]
      BY <1>2, <1>5
    <2>3. \A i, j \in DOMAIN accepted' : i < j => accepted'[i] < accepted'[j]
      BY <1>1, <1>3, <2>1, <2>2 DEF NonceInv, NoReplay
    <2>4. \A i \in DOMAIN accepted : accepted[i] \in Nat /\ accepted[i] < s.expected
      BY <1>3, <1>5
    <2>5. \A i \in DOMAIN accepted' : accepted'[i] \in Nat /\ accepted'[i] < n + 1
      BY <1>1, <2>1, <2>4
    <2> QED BY <1>4, <2>3, <2>5 DEF NoReplay
  <1>8. SuspicionMatchesDesyncs'
    BY <1>3, <1>4 DEF SuspicionMatchesDesyncs, NonceAssumption
  <1> QED BY <1>6, <1>7, <1>8 DEF NonceInv

\* A refused heartbeat is counted, and the suspicion follows the count.
LEMMA RejectKeeps ==
  ASSUME NonceInv, NonceAssumption, NEW n \in 0 .. MaxNonce, RejectHeartbeat(n), now' = now
  PROVE  NonceInv'
  <1> DEFINE s == DeviceState
             count == IF now - s.since > DesyncDay THEN 1 ELSE s.desyncs + 1
             since == IF now - s.since > DesyncDay THEN now ELSE s.since
  <1>1. /\ s \in [expected : Nat \cup {Absent}, desyncs : Nat, since : 0 .. now,
                  suspicious : BOOLEAN]
        /\ \A i \in DOMAIN accepted : accepted[i] < s.expected
    BY DeviceStateSound
  <1>2. nonceState' = CountDesync(s) /\ UNCHANGED <<accepted, request>>
    BY DEF RejectHeartbeat
  <1> HIDE DEF s
  <1>3. CountDesync(s) = [s EXCEPT !.desyncs = count, !.since = since,
                                   !.suspicious = count > DesyncLimit]
    BY Zenon DEF CountDesync
  <1>4. count \in Nat /\ since \in 0 .. now
    BY <1>1 DEF NonceInv, NonceTypeOK
  <1> HIDE DEF count, since
  <1>5. nonceState' = [expected |-> s.expected, desyncs |-> count, since |-> since,
                       suspicious |-> count > DesyncLimit]
    BY <1>1, <1>2, <1>3
  <1>6. NonceTypeOK'
    BY <1>1, <1>2, <1>4, <1>5 DEF NonceInv, NonceTypeOK
  <1>7. NoReplay'
    BY <1>1, <1>2, <1>5 DEF NonceInv, NoReplay
  <1>8. SuspicionMatchesDesyncs'
    BY <1>5 DEF SuspicionMatchesDesyncs
  <1> QED BY <1>6, <1>7, <1>8 DEF NonceInv

\* A new state expects nothing that was accepted.
LEMMA InitializeKeeps ==
  ASSUME NonceInv, NonceAssumption, NEW n \in 0 .. MaxNonce, InitializeNonce(n), now' = now
  PROVE  NonceInv'
  <1>1. nonceState' = [expected |-> n, desyncs |-> 0, since |-> 0, suspicious |-> FALSE]
    BY DEF InitializeNonce, NewNonceState
  <1>2. nonceState.expected = -1 /\ UNCHANGED <<accepted, request>>
    BY DEF InitializeNonce, NoNonceState, NewNonceState, Absent
  <1>3. \A i \in DOMAIN accepted : accepted[i] < -1 /\ accepted[i] \in Nat
    BY <1>2 DEF NonceInv, NoReplay, NonceTypeOK
  <1>4. NonceTypeOK'
    BY <1>1, <1>2 DEF NonceInv, NonceTypeOK, NonceAssumption
  <1>5. NoReplay'
    BY <1>2, <1>3 DEF NonceInv, NoReplay
  <1>6. SuspicionMatchesDesyncs'
    BY <1>1 DEF SuspicionMatchesDesyncs, NonceAssumption
  <1> QED BY <1>4, <1>5, <1>6 DEF NonceInv

\* Steps that leave the state and the heartbeats alone keep what is said of them.
LEMMA NonceKept ==
  ASSUME NonceInv, now' \in Nat, now' >= now, UNCHANGED <<nonceState, accepted>>,
         request' \in [approvals : Seq(Resetters), quorum : Nat, expires : Nat,
                       executed : BOOLEAN]
  PROVE  NonceInv'
  <1>1. now \in Nat /\ 0 .. now \subseteq 0 .. now'
    BY DEF NonceInv, NonceTypeOK
  <1>2. nonceState' \in [expected : Nat \cup {Absent}, desyncs : Nat, since : 0 .. now',
                         suspicious : BOOLEAN]
    BY <1>1 DEF NonceInv, NonceTypeOK
  <1>3. NonceTypeOK'
    BY <1>2 DEF NonceInv, NonceTypeOK
  <1>4. NoReplay'
    BY DEF NonceInv, NonceTypeOK, NoReplay
  <1>5. SuspicionMatchesDesyncs'
    BY DEF NonceInv, SuspicionMatchesDesyncs
  <1> QED BY <1>3, <1>4, <1>5 DEF NonceInv

\* Whatever request is handed in, it is stored, and what it resets forgets what
\* was accepted, counted and suspected before.
LEMMA ResetKeeps ==
  ASSUME NonceInv, NonceAssumption, ClockAssumption, NEW r \in Resetters,
         NEW n \in 0 .. MaxNonce, NEW q \in RequestsGiven, ResetDeviceNonce(r, n, q), now' = now
  PROVE  NonceInv'
  <1> DEFINE approvals == Append(q.approvals, r)
             done == q.executed \/ Len(approvals) >= q.quorum
  <1>1. /\ q.approvals \in Seq(Resetters) /\ q.quorum \in Nat /\ q.expires \in Nat
        /\ q.executed \in BOOLEAN
        /\ q = [approvals |-> q.approvals, quorum |-> q.quorum, expires |-> q.expires,
                executed |-> q.executed]
    <2>1. q \in [approvals : ApprovalsGiven, quorum : QuorumsGiven, expires : 0 .. MaxTime,
                 executed : BOOLEAN]
      BY Zenon DEF RequestsGiven
    <2>2. /\ q.approvals \in ApprovalsGiven /\ q.quorum \in QuorumsGiven
          /\ q.expires \in 0 .. MaxTime /\ q.executed \in BOOLEAN
          /\ q = [approvals |-> q.approvals, quorum |-> q.quorum, expires |-> q.expires,
                  executed |-> q.executed]
      BY <2>1
    <2>3. q.approvals \in Seq(Resetters) /\ q.quorum \in Nat
      BY <2>2, Zenon DEF NonceAssumption
    <2>4. q.expires \in Nat
      BY <2>2 DEF ClockAssumption
    <2> QED BY <2>2, <2>3, <2>4
  <1>2. request' = [q EXCEPT !.approvals = approvals, !.executed = done]
    BY Zenon DEF ResetDeviceNonce, Approved
  <1>3. approvals \in Seq(Resetters) /\ done \in BOOLEAN
    BY <1>1
  <1> HIDE DEF approvals, done
  <1>4. request' \in [approvals : Seq(Resetters), quorum : Nat, expires : Nat,
                      executed : BOOLEAN]
    BY <1>1, <1>2, <1>3
  <1>5. now \in Nat /\ now' \in Nat
    BY DEF NonceInv, NonceTypeOK
  <1>6. CASE UNCHANGED <<nonceState, accepted>>
    BY <1>4, <1>5, <1>6, NonceKept
  <1>7. CASE nonceState' = [NewNonceState(n) EXCEPT !.since = now] /\ accepted' = <<>>
    <2>1. nonceState' = [expected |-> n, desyncs |-> 0, since |-> now, suspicious |-> FALSE]
      BY <1>7 DEF NewNonceState
    <2>2. NonceTypeOK'
      <3>1. n \in Nat
        BY DEF NonceAssumption
      <3>2. nonceState' \in [expected : Nat \cup {Absent}, desyncs : Nat, since : 0 .. now',
                             suspicious : BOOLEAN]
        BY <1>5, <2>1, <3>1
      <3>3. accepted' \in Seq(Nat)
        BY <1>7
      <3> QED BY <1>4, <1>5, <3>2, <3>3 DEF NonceTypeOK
    <2>3. NoReplay' /\ SuspicionMatchesDesyncs'
      BY <1>7, <2>1 DEF NoReplay, SuspicionMatchesDesyncs, NonceAssumption
    <2> QED BY <2>2, <2>3 DEF NonceInv
  <1> QED BY <1>6, <1>7 DEF ResetDeviceNonce

\* Every step of the nonces keeps their invariant.
LEMMA NonceStepKeeps ==
  ASSUME NonceInv, NonceAssumption, ClockAssumption, [NonceNext]_<<now, nonceVars>>
  PROVE  NonceInv'
  <1>1. now \in Nat /\ request \in [approvals : Seq(Resetters), quorum : Nat, expires : Nat,
                                    executed : BOOLEAN]
    BY DEF NonceInv, NonceTypeOK
  <1>2. ASSUME Tick, UNCHANGED nonceVars  PROVE NonceInv'
    BY <1>1, <1>2, NonceKept DEF Tick, nonceVars
  <1>3. ASSUME UNCHANGED <<now, nonceVars>>  PROVE NonceInv'
    BY <1>1, <1>3, NonceKept DEF nonceVars
  <1> QED
    BY <1>2, <1>3, AcceptKeeps, RejectKeeps, InitializeKeeps, ResetKeeps
    DEF NonceNext, NonceStep

\* Whatever heartbeats arrive, signed with whatever key, and whatever requests
\* callers hand in, no nonce is accepted twice or out of order between resets,
\* and a device is suspected exactly while its desyncs exceed the limit, for
\* every limit and set of resetters.
THEOREM NonceInvariant == NonceSpec => []NonceInv
  BY NonceStart, NonceStepKeeps, NonceAssumption, ClockAssumption, PTL DEF NonceSpec

-----------------------------------------------------------------------------
(* The daily limits on withdrawals *)

\* The inductive invariant: no limit of now is above the highest of the day.
LimitInHighest == \A s \in Scopes : LimitOf(s) <= highest[s]

VelocityIInv == VelocityInv /\ LimitInHighest

\* Days are numbers that do not go back.
LEMMA DaysGoOn ==
  ASSUME VelocityAssumption, NEW t \in Nat
  PROVE  DayOf(t) \in Nat /\ DayOf(t + 1) \in Nat /\ DayOf(t) <= DayOf(t + 1)
  <1>1. DayLength \in Nat \ {0}
    BY DEF VelocityAssumption
  <1>2. PICK p \in Nat : p = t \div DayLength /\ DayLength * p <= t
    BY <1>1
  <1>3. PICK q \in Nat : q = (t + 1) \div DayLength /\ t + 1 < DayLength * (q + 1)
    BY <1>1
  <1>4. DayLength * p < DayLength * (q + 1)
    BY <1>1, <1>2, <1>3
  <1>5. p < q + 1
    BY <1>1, <1>4
  <1> QED BY <1>2, <1>3, <1>5 DEF DayOf

\* A counter counts today, or nothing.
LEMMA CountedTypes ==
  ASSUME VelocityTypeOK, NEW s \in Scopes
  PROVE  /\ CountedToday(s) \in Nat /\ LimitOf(s) \in Nat
         /\ paid[s] \in Nat /\ highest[s] \in Nat /\ forgotten[s] \in Nat
  BY DEF VelocityTypeOK, CountedToday, LimitOf

\* No limit is set and nothing is counted at the start.
LEMMA VelocityStart == VelocityAssumption /\ now = 0 /\ VelocityInit => VelocityIInv
  <1> SUFFICES ASSUME VelocityAssumption, now = 0, VelocityInit
               PROVE  VelocityIInv
    OBVIOUS
  <1>1. DayOf(0) \in Nat
    BY DaysGoOn
  <1>2. \A s \in Scopes : LimitOf(s) \in Nat /\ highest[s] = LimitOf(s)
    BY DEF VelocityInit, LimitOf, VelocityAssumption
  <1>3. \A s \in Scopes : paid[s] = 0 /\ forgotten[s] = 0
    BY DEF VelocityInit
  <1>4. highest \in [Scopes -> Nat] /\ paid \in [Scopes -> Nat] /\ forgotten \in [Scopes -> Nat]
    BY <1>2 DEF VelocityInit
  <1>5. limits \in [global : Nat, perStream : Nat, enabled : BOOLEAN]
    BY DEF VelocityInit, VelocityAssumption
  <1>6. outflow \in [Scopes -> [day : 0 .. DayOf(now), total : Nat]]
    BY <1>1 DEF VelocityInit, NoOutflow
  <1>7. VelocityTypeOK
    BY <1>4, <1>5, <1>6 DEF VelocityInit, VelocityTypeOK
  <1>8. \A s \in Scopes : CountedToday(s) \in Nat
    BY <1>7, CountedTypes
  <1> QED BY <1>2, <1>3, <1>7, <1>8 DEF VelocityIInv, VelocityInv, DailyCapHolds, OutflowIsCounted,
                                 LimitInHighest

\* What is counted of a scope after a step of the same second.
LEMMA SameSecond ==
  ASSUME VelocityTypeOK, NEW s \in Scopes, now' = now, outflow'[s] = outflow[s]
  PROVE  CountedToday(s)' = CountedToday(s)
  BY DEF CountedToday, DayOf

\* Counting adds the amount to the counter of today.
LEMMA CountAdds ==
  ASSUME VelocityTypeOK, VelocityAssumption, NEW s \in Scopes, NEW n \in Nat,
         now' = now, outflow'[s] = Count(s, n)
  PROVE  /\ CountedToday(s)' = CountedToday(s) + n
         /\ outflow'[s] \in [day : 0 .. DayOf(now'), total : Nat]
  <1>1. now \in Nat
    BY DEF VelocityTypeOK
  <1>2. DayOf(now) \in Nat
    BY <1>1, DaysGoOn
  <1>3. CountedToday(s) \in Nat
    BY CountedTypes
  <1> QED BY <1>2, <1>3 DEF CountedToday, Count, DayOf

\* A withdrawal is counted wherever it is limited, within the limit.
LEMMA WithdrawKeeps ==
  ASSUME VelocityIInv, VelocityAssumption, NEW m \in VelocityMeters, NEW n \in Withdrawals,
         Withdraw(m, n), now' = now
  PROVE  VelocityIInv'
  <1>1. n \in Nat
    BY DEF VelocityAssumption
  <1>2. VelocityTypeOK
    BY DEF VelocityIInv, VelocityInv
  <1>3. UNCHANGED <<limits, overrides, highest, forgotten>>
    BY DEF Withdraw
  <1>4. ASSUME NEW s \in Scopes
        PROVE  /\ outflow'[s] \in [day : 0 .. DayOf(now'), total : Nat]
               /\ paid'[s] \in Nat /\ paid'[s] <= highest'[s] + forgotten'[s]
               /\ paid'[s] <= CountedToday(s)' + forgotten'[s]
    <2>1. /\ CountedToday(s) \in Nat /\ LimitOf(s) \in Nat
          /\ paid[s] \in Nat /\ highest[s] \in Nat /\ forgotten[s] \in Nat
      BY <1>2, CountedTypes
    <2>2. /\ paid[s] <= highest[s] + forgotten[s] /\ LimitOf(s) <= highest[s]
          /\ paid[s] <= CountedToday(s) + forgotten[s]
      BY DEF VelocityIInv, VelocityInv, DailyCapHolds, OutflowIsCounted, LimitInHighest
    <2>3. CASE s \in {0, m} /\ Limited(s)
      <3>1. outflow'[s] = Count(s, n) /\ paid'[s] = paid[s] + n
        BY <2>3 DEF Withdraw
      <3>2. CountedToday(s) + n <= LimitOf(s)
        BY <2>3 DEF Withdraw, Fits
      <3>3. /\ CountedToday(s)' = CountedToday(s) + n
            /\ outflow'[s] \in [day : 0 .. DayOf(now'), total : Nat]
        BY <1>1, <1>2, <3>1, CountAdds
      <3> QED BY <1>1, <1>3, <2>1, <2>2, <3>1, <3>2, <3>3
    <2>4. CASE ~(s \in {0, m} /\ Limited(s))
      <3>1. outflow'[s] = outflow[s] /\ paid'[s] = paid[s]
        BY <2>4 DEF Withdraw
      <3>2. outflow'[s] \in [day : 0 .. DayOf(now'), total : Nat]
        BY <1>2, <3>1 DEF VelocityTypeOK, DayOf
      <3>3. CountedToday(s)' = CountedToday(s)
        BY <1>2, <3>1, SameSecond
      <3> QED BY <1>3, <2>1, <2>2, <3>1, <3>2, <3>3
    <2> QED BY <2>3, <2>4
  <1>5. outflow' \in [Scopes -> [day : 0 .. DayOf(now'), total : Nat]] /\ paid' \in [Scopes -> Nat]
    BY <1>4 DEF Withdraw
  <1>6. VelocityTypeOK'
    BY <1>2, <1>3, <1>5 DEF VelocityTypeOK
  <1>7. LimitInHighest'
    BY <1>3 DEF VelocityIInv, LimitInHighest, LimitOf
  <1> QED BY <1>4, <1>6, <1>7 DEF VelocityIInv, VelocityInv, DailyCapHolds, OutflowIsCounted

\* A refusal by the global limit may count for the meter what was not paid.
LEMMA RefuseKeeps ==
  ASSUME VelocityIInv, VelocityAssumption, NEW m \in VelocityMeters, NEW n \in Withdrawals,
         RefuseGlobally(m, n), now' = now
  PROVE  VelocityIInv'
  <1>1. n \in Nat /\ m \in Scopes
    BY DEF VelocityAssumption, Scopes
  <1>2. VelocityTypeOK
    BY DEF VelocityIInv, VelocityInv
  <1>3. UNCHANGED <<limits, overrides, paid, highest, forgotten>>
    BY DEF RefuseGlobally
  <1>4. outflow \in [Scopes -> [day : 0 .. DayOf(now), total : Nat]]
    BY <1>2 DEF VelocityTypeOK
  <1>5. outflow' = [outflow EXCEPT ![m] = Count(m, n)]
    BY DEF RefuseGlobally
  <1>6. ASSUME NEW s \in Scopes
        PROVE  /\ outflow'[s] \in [day : 0 .. DayOf(now'), total : Nat]
               /\ paid'[s] <= CountedToday(s)' + forgotten'[s]
    <2>1. CountedToday(s) \in Nat /\ paid[s] \in Nat /\ forgotten[s] \in Nat
      BY <1>2, CountedTypes
    <2>2. paid[s] <= CountedToday(s) + forgotten[s]
      BY DEF VelocityIInv, VelocityInv, OutflowIsCounted
    <2>3. CASE s = m
      <3>1. outflow'[s] = Count(s, n)
        BY <1>1, <1>4, <1>5, <2>3
      <3>2. /\ CountedToday(s)' = CountedToday(s) + n
            /\ outflow'[s] \in [day : 0 .. DayOf(now'), total : Nat]
        BY <1>1, <1>2, <3>1, CountAdds
      <3>3. paid'[s] = paid[s] /\ forgotten'[s] = forgotten[s]
        BY <1>3
      <3>4. paid'[s] <= CountedToday(s)' + forgotten'[s]
        BY <1>1, <2>1, <2>2, <3>2, <3>3
      <3> QED BY <3>2, <3>4
    <2>4. CASE s # m
      <3>1. outflow'[s] = outflow[s]
        BY <1>4, <1>5, <2>4
      <3>2. outflow'[s] \in [day : 0 .. DayOf(now'), total : Nat]
        BY <1>4, <3>1 DEF DayOf
      <3> QED BY <1>2, <1>3, <2>2, <3>1, <3>2, SameSecond
    <2> QED BY <2>3, <2>4
  <1>7. outflow' \in [Scopes -> [day : 0 .. DayOf(now'), total : Nat]]
    BY <1>4, <1>5, <1>6
  <1>8. VelocityTypeOK'
    BY <1>2, <1>3, <1>7 DEF VelocityTypeOK
  <1>9. LimitInHighest' /\ DailyCapHolds'
    BY <1>3 DEF VelocityIInv, VelocityInv, DailyCapHolds, LimitInHighest, LimitOf
  <1> QED BY <1>6, <1>8, <1>9 DEF VelocityIInv, VelocityInv, OutflowIsCounted

\* Limits and overrides change nothing that was paid or counted, and a higher
\* limit raises the day's highest.
LEMMA LimitsKeep ==
  ASSUME VelocityIInv, VelocityAssumption, now' = now, UNCHANGED <<outflow, paid, forgotten>>,
         limits' \in [global : Nat, perStream : Nat, enabled : BOOLEAN],
         overrides' \in [Scopes -> {Absent} \cup Nat],
         highest' \in [Scopes -> Nat],
         \A s \in Scopes : highest[s] <= highest'[s] /\ LimitOf(s)' <= highest'[s]
  PROVE  VelocityIInv'
  <1>1. VelocityTypeOK
    BY DEF VelocityIInv, VelocityInv
  <1>2. VelocityTypeOK'
    BY <1>1 DEF VelocityTypeOK, DayOf
  <1>3. ASSUME NEW s \in Scopes
        PROVE  /\ paid'[s] <= highest'[s] + forgotten'[s]
               /\ paid'[s] <= CountedToday(s)' + forgotten'[s]
    <2>1. paid[s] <= highest[s] + forgotten[s] /\ paid[s] <= CountedToday(s) + forgotten[s]
      BY DEF VelocityIInv, VelocityInv, DailyCapHolds, OutflowIsCounted
    <2>2. paid[s] \in Nat /\ highest[s] \in Nat /\ highest'[s] \in Nat /\ forgotten[s] \in Nat
      BY <1>1, CountedTypes
    <2>3. CountedToday(s)' = CountedToday(s)
      BY <1>1, SameSecond
    <2> QED BY <2>1, <2>2, <2>3
  <1> QED BY <1>2, <1>3 DEF VelocityIInv, VelocityInv, DailyCapHolds, OutflowIsCounted,
                            LimitInHighest

\* New limits change nothing that was paid or counted.
LEMMA SetLimitsKeeps ==
  ASSUME VelocityIInv, VelocityAssumption, NEW g \in Limits, NEW p \in Limits, NEW e \in BOOLEAN,
         SetLimits(g, p, e), now' = now
  PROVE  VelocityIInv'
  <1>1. g \in Nat /\ p \in Nat
    BY DEF VelocityAssumption, SetLimits
  <1>2. limits' = [global |-> g, perStream |-> p, enabled |-> e]
    BY DEF SetLimits
  <1>3. VelocityTypeOK
    BY DEF VelocityIInv, VelocityInv
  <1>4. highest' = [s \in Scopes |-> Larger(highest[s], IF s = 0 THEN g ELSE p)]
    BY DEF SetLimits
  <1>5. ASSUME NEW s \in Scopes
        PROVE  /\ highest'[s] \in Nat
               /\ highest[s] <= highest'[s] /\ LimitOf(s)' <= highest'[s]
    <2>1. highest[s] \in Nat
      BY <1>3, CountedTypes
    <2>2. LimitOf(s)' = IF s = 0 THEN g ELSE p
      BY <1>2 DEF LimitOf
    <2>3. highest'[s] = Larger(highest[s], IF s = 0 THEN g ELSE p)
      BY <1>4
    <2> QED BY <1>1, <2>1, <2>2, <2>3 DEF Larger
  <1>6. highest' \in [Scopes -> Nat]
    BY <1>4, <1>5
  <1>7. UNCHANGED <<outflow, paid, forgotten>> /\ overrides' \in [Scopes -> {Absent} \cup Nat]
    BY <1>3 DEF SetLimits, VelocityTypeOK
  <1>8. limits' \in [global : Nat, perStream : Nat, enabled : BOOLEAN]
    BY <1>1, <1>2
  <1> QED BY <1>5, <1>6, <1>7, <1>8, LimitsKeep

\* Overrides switched on, switched off or gone change nothing that was counted.
LEMMA OverridesKeep ==
  ASSUME VelocityIInv, VelocityAssumption, NEW s \in Scopes, NEW e \in Nat \cup {Absent},
         overrides' = [overrides EXCEPT ![s] = e],
         UNCHANGED <<now, limits, outflow, paid, highest, forgotten>>
  PROVE  VelocityIInv'
  <1>1. VelocityTypeOK
    BY DEF VelocityIInv, VelocityInv
  <1>2. overrides' \in [Scopes -> {Absent} \cup Nat]
    BY <1>1 DEF VelocityTypeOK
  <1>3. \A r \in Scopes : highest[r] <= highest'[r] /\ LimitOf(r)' <= highest'[r]
    <2> TAKE r \in Scopes
    <2>1. highest[r] \in Nat /\ LimitOf(r) <= highest[r]
      BY <1>1, CountedTypes DEF VelocityIInv, LimitInHighest
    <2> QED BY <2>1 DEF LimitOf
  <1> QED BY <1>1, <1>2, <1>3, LimitsKeep DEF VelocityTypeOK

\* What an expired counter had counted is forgotten, and nothing more.
LEMMA ExpiryKeeps ==
  ASSUME VelocityIInv, VelocityAssumption, NEW c \in Scopes, CounterExpires(c), now' = now
  PROVE  VelocityIInv'
  <1>1. VelocityTypeOK /\ now \in Nat
    BY DEF VelocityIInv, VelocityInv, VelocityTypeOK
  <1>2. DayOf(now) \in Nat /\ UNCHANGED <<now, limits, overrides, paid, highest>>
    BY <1>1, DaysGoOn DEF CounterExpires
  <1>3. outflow' = [outflow EXCEPT ![c] = [day |-> 0, total |-> 0]]
        /\ forgotten' = [forgotten EXCEPT ![c] = forgotten[c] + CountedToday(c)]
    BY DEF CounterExpires, NoOutflow
  <1>4. /\ outflow \in [Scopes -> [day : 0 .. DayOf(now), total : Nat]]
        /\ forgotten \in [Scopes -> Nat] /\ CountedToday(c) \in Nat
    BY <1>1, CountedTypes DEF VelocityTypeOK
  <1>5. outflow' \in [Scopes -> [day : 0 .. DayOf(now'), total : Nat]]
        /\ forgotten' \in [Scopes -> Nat]
    BY <1>2, <1>3, <1>4
  <1>6. VelocityTypeOK'
    BY <1>1, <1>2, <1>5 DEF VelocityTypeOK
  <1>7. ASSUME NEW s \in Scopes
        PROVE  /\ paid'[s] <= highest'[s] + forgotten'[s]
               /\ paid'[s] <= CountedToday(s)' + forgotten'[s]
    <2>1. paid[s] <= highest[s] + forgotten[s] /\ paid[s] <= CountedToday(s) + forgotten[s]
      BY DEF VelocityIInv, VelocityInv, DailyCapHolds, OutflowIsCounted
    <2>2. /\ paid[s] \in Nat /\ highest[s] \in Nat /\ forgotten[s] \in Nat
          /\ CountedToday(s) \in Nat /\ CountedToday(s)' \in Nat
      BY <1>1, <1>6, CountedTypes DEF CountedToday, VelocityTypeOK
    <2>3. CASE s = c
      BY <1>2, <1>3, <1>4, <2>1, <2>2, <2>3
    <2>4. CASE s # c
      <3>1. outflow'[s] = outflow[s] /\ forgotten'[s] = forgotten[s]
        BY <1>3, <1>4, <2>4
      <3>2. CountedToday(s)' = CountedToday(s)
        BY <1>1, <3>1, SameSecond
      <3> QED BY <1>2, <2>1, <2>2, <3>1, <3>2
    <2> QED BY <2>3, <2>4
  <1>8. LimitInHighest'
    BY <1>2 DEF VelocityIInv, LimitInHighest, LimitOf
  <1> QED BY <1>6, <1>7, <1>8 DEF VelocityIInv, VelocityInv, DailyCapHolds, OutflowIsCounted

\* The clock moves within a day, or into a day that starts from nothing.
LEMMA VelocityTickKeeps ==
  ASSUME VelocityIInv, VelocityAssumption, VelocityTick
  PROVE  VelocityIInv'
  <1>1. VelocityTypeOK
    BY DEF VelocityIInv, VelocityInv
  <1>2. now \in Nat /\ now' = now + 1 /\ UNCHANGED <<limits, overrides, outflow>>
    BY <1>1 DEF VelocityTick, Tick, VelocityTypeOK
  <1>3. PICK d \in Nat, e \in Nat : d = DayOf(now) /\ e = DayOf(now') /\ d <= e
    BY <1>2, DaysGoOn
  <1>4. outflow' \in [Scopes -> [day : 0 .. DayOf(now'), total : Nat]]
    <2>1. 0 .. d \subseteq 0 .. e
      BY <1>3
    <2>2. outflow \in [Scopes -> [day : 0 .. d, total : Nat]]
      BY <1>1, <1>3 DEF VelocityTypeOK
    <2>3. outflow \in [Scopes -> [day : 0 .. e, total : Nat]]
      BY <2>1, <2>2
    <2> QED BY <1>2, <1>3, <2>3
  <1>5. \A s \in Scopes : LimitOf(s)' = LimitOf(s) /\ LimitOf(s) \in Nat
    BY <1>1, <1>2, CountedTypes DEF LimitOf
  <1>6. CASE d = e
    <2>1. UNCHANGED <<paid, highest, forgotten>>
      BY <1>2, <1>3, <1>6 DEF VelocityTick
    <2>2. VelocityTypeOK'
      BY <1>1, <1>2, <1>4, <2>1 DEF VelocityTypeOK
    <2>3. \A s \in Scopes : CountedToday(s)' = CountedToday(s)
      BY <1>2, <1>3, <1>6 DEF CountedToday
    <2> QED BY <1>5, <2>1, <2>2, <2>3
            DEF VelocityIInv, VelocityInv, DailyCapHolds, OutflowIsCounted, LimitInHighest
  <1>7. CASE d # e
    <2>1. /\ paid' = [s \in Scopes |-> 0] /\ forgotten' = [s \in Scopes |-> 0]
          /\ highest' = [s \in Scopes |-> LimitOf(s)]
      BY <1>2, <1>3, <1>7 DEF VelocityTick
    <2>2. VelocityTypeOK'
      BY <1>1, <1>2, <1>4, <1>5, <2>1 DEF VelocityTypeOK
    <2>3. \A s \in Scopes : CountedToday(s)' \in Nat
      BY <2>2, <1>4 DEF CountedToday
    <2> QED BY <1>5, <2>1, <2>2, <2>3
            DEF VelocityIInv, VelocityInv, DailyCapHolds, OutflowIsCounted, LimitInHighest
  <1> QED BY <1>6, <1>7

\* Every step keeps the invariant of the limits.
LEMMA VelocityStepKeeps ==
  ASSUME VelocityIInv, VelocityAssumption, [VelocityNext]_<<now, velocityVars>>
  PROVE  VelocityIInv'
  <1>1. ASSUME NEW s \in Scopes, NEW e \in OverrideEnds, ApplyOverride(s, e), now' = now
        PROVE  VelocityIInv'
    <2>1. e \in Nat
      BY <1>1 DEF VelocityAssumption
    <2> QED BY <1>1, <2>1, OverridesKeep DEF ApplyOverride
  <1>2. ASSUME NEW s \in Scopes, RevokeOverride(s), now' = now
        PROVE  VelocityIInv'
    BY <1>2, OverridesKeep DEF RevokeOverride
  <1>3. ASSUME UNCHANGED <<now, velocityVars>>
        PROVE  VelocityIInv'
    <2>1. VelocityTypeOK
      BY DEF VelocityIInv, VelocityInv
    <2>2. \A r \in Scopes : highest[r] \in Nat /\ LimitOf(r) <= highest[r]
      BY <2>1, CountedTypes DEF VelocityIInv, LimitInHighest
    <2>3. UNCHANGED <<now, limits, overrides, outflow, paid, highest, forgotten>>
      BY <1>3 DEF velocityVars
    <2>4. \A r \in Scopes : highest[r] <= highest'[r] /\ LimitOf(r)' <= highest'[r]
      BY <2>2, <2>3 DEF LimitOf
    <2> QED BY <2>1, <2>3, <2>4, LimitsKeep DEF VelocityTypeOK
  <1> QED
    BY <1>1, <1>2, <1>3, WithdrawKeeps, RefuseKeeps, SetLimitsKeeps, ExpiryKeeps,
       VelocityTickKeeps
    DEF VelocityNext, VelocityStep

\* What is withdrawn under a limit in a calendar day is counted, and exceeds the
\* highest limit of the day by no more than counters that expired had counted,
\* for a meter as for all together, for every day length, set of meters, amounts
\* and limits, and whenever counters expire.
THEOREM VelocityInvariant == VelocitySpec => []VelocityInv
  <1>1. VelocityIInv => VelocityInv
    BY DEF VelocityIInv
  <1> QED BY <1>1, VelocityStart, VelocityStepKeeps, VelocityAssumption, PTL DEF VelocitySpec

-----------------------------------------------------------------------------
(* The resource token *)

\* The inductive invariant, of an upgrade whose keys are all migrated first: what
\* a legacy key still holds is not yet in the new one, and delegations left
\* behind are numbered.
LegacyIsApart ==
    /\ legacy.supply # 0 => store.supply = 0
    /\ \A a \in Accounts :
         /\ legacy.balance[a] # 0 => store.balance[a] = 0
         /\ legacy.nonce[a] # 0 => store.nonce[a] = 0
         /\ legacy.expires[a] # 0 => legacy.nonce[a] # 0

\* A contract that replaces none finds nothing of an earlier version.
NothingLeft == ~Upgraded => legacy = Empty

TokenIInv == TokenTypeOK /\ SupplyIsBacked /\ LegacyIsApart /\ NothingLeft

\* Every key of an earlier version is migrated before other calls, or there is none.
MigratedFirst == Orderly \/ ~Upgraded

\* Nothing is an entry, and adds up to nothing.
LEMMA EmptyEntries ==
  ASSUME TokenAssumption
  PROVE  /\ Empty \in Entries /\ Empty.supply = 0 /\ Total(Empty.balance) = 0
         /\ \A a \in Accounts : /\ Empty.balance[a] = 0 /\ Empty.nonce[a] = 0
                                /\ Empty.expires[a] = 0
  <1>1. Total(Empty.balance) = 0
    BY SumOfZeros DEF Total, Empty, TokenAssumption
  <1> QED BY <1>1 DEF Empty, Entries

\* Balances add up to a number.
LEMMA TotalIsNat ==
  ASSUME TokenAssumption, NEW f \in [Accounts -> Nat]
  PROVE  Total(f) \in Nat
  BY SumNat DEF Total, TokenAssumption

\* One balance changed changes the total by as much.
LEMMA TotalOfChanged ==
  ASSUME TokenAssumption, NEW f \in [Accounts -> Nat], NEW a \in Accounts, NEW n \in Nat
  PROVE  Total([f EXCEPT ![a] = n]) = Total(f) - f[a] + n
  <1>1. PICK g : g = [f EXCEPT ![a] = n]
    OBVIOUS
  <1>2. /\ \A x \in Accounts : f[x] \in Int /\ g[x] \in Int
        /\ \A x \in Accounts \ {a} : g[x] = f[x]
        /\ g[a] = n
    BY <1>1
  <1>3. SumOf(g, Accounts) = SumOf(f, Accounts) - f[a] + g[a]
    BY <1>2, SumOfChanged DEF TokenAssumption
  <1> QED BY <1>1, <1>2, <1>3 DEF Total

\* An earlier version left entries that back its supply.
LEMMA TokenStart == TokenAssumption /\ ClockAssumption /\ TokenInit => TokenIInv
  <1> SUFFICES ASSUME TokenAssumption, ClockAssumption, TokenInit
               PROVE  TokenIInv
    OBVIOUS
  <1>1. now = 0 /\ store = Empty
    BY DEF TokenInit
  <1>2. legacy = Empty \/ legacy \in LegacyStates
    BY DEF TokenInit
  <1>3. /\ legacy \in Entries /\ legacy.supply = Total(legacy.balance)
        /\ legacy.supply <= MaxSupply
        /\ \A a \in Accounts : legacy.expires[a] # 0 => legacy.nonce[a] # 0
    <2>1. CASE legacy = Empty
      BY <2>1, EmptyEntries DEF TokenAssumption
    <2>2. CASE legacy \in LegacyStates
      BY <2>2 DEF LegacyStates, Entries, ClockAssumption, TokenAssumption
    <2> QED BY <1>2, <2>1, <2>2
  <1>4. Total(legacy.balance) \in Nat
    BY <1>3, TotalIsNat DEF Entries
  <1>5. TokenTypeOK
    BY <1>1, <1>3, EmptyEntries DEF TokenTypeOK, ClockAssumption
  <1>6. SupplyIsBacked
    BY <1>1, <1>3, <1>4, EmptyEntries DEF SupplyIsBacked
  <1>7. LegacyIsApart
    BY <1>1, <1>3, EmptyEntries DEF LegacyIsApart
  <1>8. NothingLeft
    BY DEF TokenInit, NothingLeft
  <1> QED BY <1>5, <1>6, <1>7, <1>8 DEF TokenIInv

\* An entry is made of its fields.
LEMMA EntryFields ==
  ASSUME NEW e \in Entries
  PROVE  /\ e = [admin |-> e.admin, supply |-> e.supply, balance |-> e.balance,
                 nonce |-> e.nonce, expires |-> e.expires]
         /\ e.admin \in Accounts \cup {NoAccount} /\ e.supply \in Int
         /\ e.balance \in [Accounts -> Nat] /\ e.nonce \in [Accounts -> Nat]
         /\ e.expires \in [Accounts -> Nat]
  BY DEF Entries

\* What minting and burning make of the entries.
LEMMA SupplyMoves ==
  ASSUME TokenAssumption, store \in Entries, NEW a \in Accounts, NEW n \in Amounts,
         Mint(a, n) \/ Burn(a, n)
  PROVE  \E d \in Int :
           /\ store.balance[a] + d \in Nat
           /\ store' = [admin |-> store.admin, supply |-> store.supply + d,
                        balance |-> [store.balance EXCEPT ![a] = store.balance[a] + d],
                        nonce |-> store.nonce, expires |-> store.expires]
           /\ store.supply + d <= MaxSupply \/ d <= 0
           /\ legacy' = legacy /\ (Orderly => legacy = Empty)
  <1>1. /\ n \in Nat /\ -n \in Int /\ store.balance[a] \in Nat /\ store.supply \in Int
        /\ store = [admin |-> store.admin, supply |-> store.supply, balance |-> store.balance,
                    nonce |-> store.nonce, expires |-> store.expires]
    BY EntryFields DEF TokenAssumption
  <1>2. CASE Mint(a, n)
    <2>1. store' = [admin |-> store.admin, supply |-> store.supply + n,
                    balance |-> [store.balance EXCEPT ![a] = store.balance[a] + n],
                    nonce |-> store.nonce, expires |-> store.expires]
      BY <1>1, <1>2 DEF Mint
    <2>2. store.balance[a] + n \in Nat /\ store.supply + n <= MaxSupply
      BY <1>1, <1>2 DEF Mint
    <2>3. legacy' = legacy /\ (Orderly => legacy = Empty)
      BY <1>2 DEF Mint, MayCall
    <2> WITNESS n \in Int
    <2> QED BY <2>1, <2>2, <2>3
  <1>3. CASE Burn(a, n)
    <2>1. store.balance[a] - n = store.balance[a] + (-n) /\ store.supply - n = store.supply + (-n)
      BY <1>1
    <2>2. store' = [admin |-> store.admin, supply |-> store.supply - n,
                    balance |-> [store.balance EXCEPT ![a] = store.balance[a] - n],
                    nonce |-> store.nonce, expires |-> store.expires]
      BY <1>1, <1>3 DEF Burn
    <2>3. store.balance[a] + (-n) \in Nat /\ -n <= 0
      BY <1>1, <1>3 DEF Burn
    <2>4. legacy' = legacy /\ (Orderly => legacy = Empty)
      BY <1>3 DEF Burn, MayCall
    <2> WITNESS -n \in Int
    <2> QED BY <2>1, <2>2, <2>3, <2>4
  <1> QED BY <1>2, <1>3

\* What delegating and revoking make of the entries: the nonce moves.
LEMMA DelegationMoves ==
  ASSUME store \in Entries, NEW o \in Accounts, NEW e \in Nat,
         AuthorizeOperator(o, e) \/ (RevokeOperator(o) /\ e = 0)
  PROVE  /\ store' = [admin |-> store.admin, supply |-> store.supply,
                      balance |-> store.balance,
                      nonce |-> [store.nonce EXCEPT ![o] = store.nonce[o] + 1],
                      expires |-> [store.expires EXCEPT ![o] = e]]
         /\ legacy' = legacy /\ (Orderly => legacy = Empty)
  <1>1. store = [admin |-> store.admin, supply |-> store.supply, balance |-> store.balance,
                 nonce |-> store.nonce, expires |-> store.expires]
    BY EntryFields
  <1>2. CASE AuthorizeOperator(o, e)
    BY <1>1, <1>2 DEF AuthorizeOperator, MayCall
  <1>3. CASE RevokeOperator(o) /\ e = 0
    BY <1>1, <1>3 DEF RevokeOperator, MayCall
  <1> QED BY <1>2, <1>3

\* Types need no order of the migration.
LEMMA TokenTypesStep ==
  ASSUME TokenAssumption, ClockAssumption, TokenTypeOK, [TokenNext]_<<now, tokenVars>>
  PROVE  TokenTypeOK'
  <1>1. store \in Entries /\ legacy \in Entries /\ now \in 0 .. MaxTime /\ MaxTime \in Nat
    BY DEF TokenTypeOK, ClockAssumption
  <1>2. ASSUME NEW a \in Accounts, SetAdmin(a), now' = now  PROVE TokenTypeOK'
    BY <1>1, <1>2 DEF SetAdmin, Entries, TokenTypeOK
  <1>3. ASSUME NEW a \in Accounts, NEW n \in Amounts, Mint(a, n) \/ Burn(a, n), now' = now
        PROVE  TokenTypeOK'
    <2>1. PICK d \in Int :
            /\ store.balance[a] + d \in Nat
            /\ store' = [admin |-> store.admin, supply |-> store.supply + d,
                         balance |-> [store.balance EXCEPT ![a] = store.balance[a] + d],
                         nonce |-> store.nonce, expires |-> store.expires]
            /\ legacy' = legacy
      BY <1>1, <1>3, SupplyMoves
    <2>2. [store.balance EXCEPT ![a] = store.balance[a] + d] \in [Accounts -> Nat]
      BY <1>1, <2>1, EntryFields
    <2>3. store.supply + d \in Int
      BY <1>1, <2>1, EntryFields
    <2>4. store' \in Entries
      BY <1>1, <2>1, <2>2, <2>3, EntryFields DEF Entries
    <2> QED BY <1>1, <1>3, <2>1, <2>4 DEF TokenTypeOK
  <1>4. ASSUME NEW o \in Accounts, NEW e \in Nat, now' = now,
               AuthorizeOperator(o, e) \/ (RevokeOperator(o) /\ e = 0)
        PROVE  TokenTypeOK'
    <2>1. /\ store' = [admin |-> store.admin, supply |-> store.supply,
                       balance |-> store.balance,
                       nonce |-> [store.nonce EXCEPT ![o] = store.nonce[o] + 1],
                       expires |-> [store.expires EXCEPT ![o] = e]]
          /\ legacy' = legacy
      BY <1>1, <1>4, DelegationMoves
    <2>2. /\ [store.nonce EXCEPT ![o] = store.nonce[o] + 1] \in [Accounts -> Nat]
          /\ [store.expires EXCEPT ![o] = e] \in [Accounts -> Nat]
      BY <1>1, EntryFields
    <2>3. store' \in Entries
      BY <1>1, <2>1, <2>2, EntryFields DEF Entries
    <2> QED BY <1>1, <1>4, <2>1, <2>3 DEF TokenTypeOK
  <1>5. ASSUME NEW o \in Accounts, NEW e \in 1 .. MaxTime, AuthorizeOperator(o, e), now' = now
        PROVE  TokenTypeOK'
    BY <1>1, <1>4, <1>5
  <1>6. ASSUME NEW o \in Accounts, RevokeOperator(o), now' = now  PROVE TokenTypeOK'
    BY <1>4, <1>6
  <1>7. ASSUME NEW listed \in SUBSET Accounts, MigrateNamespace(listed), now' = now
        PROVE  TokenTypeOK'
    <2>1. ASSUME NEW new \in [Accounts -> Nat], NEW old \in [Accounts -> Nat]
          PROVE  /\ Overlay(new, old, listed) \in [Accounts -> Nat]
                 /\ Forget(old, listed) \in [Accounts -> Nat]
      BY <2>1 DEF Overlay, Forget
    <2>2. /\ store.balance \in [Accounts -> Nat] /\ legacy.balance \in [Accounts -> Nat]
          /\ store.nonce \in [Accounts -> Nat] /\ legacy.nonce \in [Accounts -> Nat]
          /\ store.expires \in [Accounts -> Nat] /\ legacy.expires \in [Accounts -> Nat]
      BY <1>1 DEF Entries
    <2>3. store' \in Entries
      BY <1>1, <1>7, <2>1, <2>2 DEF MigrateNamespace, Entries
    <2>4. legacy' \in Entries
      BY <1>7, <2>1, <2>2 DEF MigrateNamespace, Entries
    <2> QED BY <1>1, <1>7, <2>3, <2>4 DEF TokenTypeOK
  <1>8. CASE Tick /\ UNCHANGED tokenVars
    BY <1>1, <1>8 DEF Tick, tokenVars, TokenTypeOK
  <1>9. CASE UNCHANGED <<now, tokenVars>>
    BY <1>1, <1>9 DEF tokenVars, TokenTypeOK
  <1> QED BY <1>2, <1>3, <1>4, <1>5, <1>6, <1>7, <1>8, <1>9 DEF TokenNext, TokenStep, Initialize

\* Whatever is minted, burnt, delegated and migrated, in whatever order, entries
\* keep their types: no balance is ever negative.
THEOREM TokenTypes == TokenSpec => []TokenTypeOK
  <1>1. TokenInit => TokenTypeOK
    BY TokenStart, TokenAssumption, ClockAssumption DEF TokenIInv
  <1>2. TokenTypeOK /\ [TokenNext]_<<now, tokenVars>> => TokenTypeOK'
    BY TokenTypesStep, TokenAssumption, ClockAssumption
  <1> QED BY <1>1, <1>2, PTL DEF TokenSpec

\* Tokens minted or burnt are one holder's: supply and balances move together.
LEMMA SupplyMovesTogether ==
  ASSUME TokenAssumption, TokenIInv, NEW a \in Accounts, NEW n \in Amounts,
         Mint(a, n) \/ Burn(a, n), TokenTypeOK', MigratedFirst
  PROVE  TokenIInv'
  <1>1. store \in Entries /\ legacy \in Entries
    BY DEF TokenIInv, TokenTypeOK
  <1>2. PICK d \in Int :
           /\ store.balance[a] + d \in Nat
           /\ store' = [admin |-> store.admin, supply |-> store.supply + d,
                        balance |-> [store.balance EXCEPT ![a] = store.balance[a] + d],
                        nonce |-> store.nonce, expires |-> store.expires]
           /\ store.supply + d <= MaxSupply \/ d <= 0
           /\ legacy' = legacy /\ (Orderly => legacy = Empty)
    BY <1>1, SupplyMoves
  <1>3. legacy = Empty /\ legacy' = Empty
    BY <1>2 DEF MigratedFirst, TokenIInv, NothingLeft
  <1>4. Empty.supply = 0 /\ Total(Empty.balance) = 0
    BY EmptyEntries
  <1>5. store.balance \in [Accounts -> Nat] /\ store.supply \in Int /\ MaxSupply \in Nat
    BY <1>1, EntryFields DEF TokenAssumption
  <1>6. PICK b : b = store.balance
    OBVIOUS
  <1>7. Total([b EXCEPT ![a] = b[a] + d]) = Total(b) - b[a] + (b[a] + d)
    BY <1>2, <1>5, <1>6, TotalOfChanged
  <1>8. Total(b) \in Nat /\ b[a] \in Nat
    BY <1>5, <1>6, TotalIsNat
  <1>9. store'.supply = store.supply + d /\ store'.balance = [b EXCEPT ![a] = b[a] + d]
    BY <1>2, <1>6
  <1>10. store.supply = Total(b) /\ store.supply <= MaxSupply
    BY <1>3, <1>4, <1>5, <1>6, <1>8 DEF TokenIInv, SupplyIsBacked
  <1>11. Total(store'.balance) = Total(b) + d
    BY <1>7, <1>8, <1>9
  <1>12. SupplyIsBacked'
    BY <1>2, <1>3, <1>4, <1>5, <1>8, <1>9, <1>10, <1>11 DEF SupplyIsBacked, Total
  <1>13. LegacyIsApart'
    BY <1>3, EmptyEntries DEF LegacyIsApart
  <1> QED BY <1>3, <1>12, <1>13 DEF TokenIInv, NothingLeft

\* What keeps supply and balances, when no legacy key is left, keeps the invariant.
LEMMA SupplyStays ==
  ASSUME TokenAssumption, TokenIInv, TokenTypeOK', legacy = Empty, legacy' = Empty,
         store'.supply = store.supply, store'.balance = store.balance
  PROVE  TokenIInv'
  <1>1. SupplyIsBacked'
    BY DEF TokenIInv, SupplyIsBacked, Total
  <1>2. LegacyIsApart'
    BY EmptyEntries DEF LegacyIsApart
  <1> QED BY <1>1, <1>2 DEF TokenIInv, NothingLeft

\* The migration moves tokens from one key to another: per holder, then in all.
LEMMA MigrationMoves ==
  ASSUME TokenAssumption, TokenIInv, NEW listed \in SUBSET Accounts,
         MigrateNamespace(listed), TokenTypeOK'
  PROVE  TokenIInv'
  <1>1. /\ store.balance \in [Accounts -> Nat] /\ legacy.balance \in [Accounts -> Nat]
        /\ store.nonce \in [Accounts -> Nat] /\ legacy.nonce \in [Accounts -> Nat]
        /\ legacy.expires \in [Accounts -> Nat]
        /\ store.supply \in Int /\ legacy.supply \in Int
    BY DEF TokenIInv, TokenTypeOK, Entries
  <1>2. /\ store'.balance = Overlay(store.balance, legacy.balance, listed)
        /\ legacy'.balance = Forget(legacy.balance, listed)
        /\ store'.nonce = Overlay(store.nonce, legacy.nonce, listed)
        /\ legacy'.nonce = Forget(legacy.nonce, listed)
        /\ legacy'.expires = Forget(legacy.expires, listed)
        /\ legacy'.supply = 0
        /\ store'.supply = IF legacy.supply # 0 THEN legacy.supply ELSE store.supply
    BY DEF MigrateNamespace
  <1>3. PICK h : h = [a \in Accounts |-> store.balance[a] + legacy.balance[a]]
    OBVIOUS
  <1>4. PICK b, l, nb, nl : b = store.balance /\ l = legacy.balance
                            /\ nb = store'.balance /\ nl = legacy'.balance
    OBVIOUS
  <1>5. ASSUME NEW a \in Accounts
        PROVE  /\ b[a] \in Nat /\ l[a] \in Nat /\ nb[a] \in Nat /\ nl[a] \in Nat
               /\ h[a] = b[a] + l[a] /\ h[a] = nb[a] + nl[a]
    <2>1. l[a] # 0 => b[a] = 0
      BY <1>4 DEF TokenIInv, LegacyIsApart
    <2>2. b[a] \in Nat /\ l[a] \in Nat
      BY <1>1, <1>4
    <2>3. /\ nb[a] = IF a \in listed /\ l[a] # 0 THEN l[a] ELSE b[a]
          /\ nl[a] = IF a \in listed THEN 0 ELSE l[a]
      BY <1>2, <1>4 DEF Overlay, Forget
    <2>4. h[a] = b[a] + l[a]
      BY <1>3, <1>4
    <2> QED BY <2>1, <2>2, <2>3, <2>4
  <1>6. IsFiniteSet(Accounts)
    BY DEF TokenAssumption
  <1>7. SumOf(h, Accounts) = SumOf(b, Accounts) + SumOf(l, Accounts)
    BY <1>5, <1>6, SumOfBoth
  <1>8. SumOf(h, Accounts) = SumOf(nb, Accounts) + SumOf(nl, Accounts)
    BY <1>5, <1>6, SumOfBoth
  <1>9. store'.supply + legacy'.supply = store.supply + legacy.supply
    BY <1>1, <1>2 DEF TokenIInv, LegacyIsApart
  <1>10. SupplyIsBacked'
    BY <1>4, <1>7, <1>8, <1>9 DEF TokenIInv, SupplyIsBacked, Total
  <1>11. LegacyIsApart'
    BY <1>1, <1>2 DEF TokenIInv, LegacyIsApart, Overlay, Forget
  <1>12. NothingLeft'
    BY DEF TokenIInv, NothingLeft, MigrateNamespace, Empty, Forget
  <1> QED BY <1>10, <1>11, <1>12 DEF TokenIInv

\* Every step keeps the supply backed, when the migration goes first.
LEMMA TokenKeeps ==
  ASSUME TokenAssumption, ClockAssumption, MigratedFirst, TokenIInv,
         [TokenNext]_<<now, tokenVars>>
  PROVE  TokenIInv'
  <1>1. TokenTypeOK'
    BY TokenTypesStep DEF TokenIInv
  <1>2. store \in Entries /\ MaxTime \in Nat
    BY DEF TokenIInv, TokenTypeOK, ClockAssumption
  <1>3. ASSUME NEW a \in Accounts, SetAdmin(a)  PROVE TokenIInv'
    <2>1. store'.supply = store.supply /\ store'.balance = store.balance
      BY <1>2, <1>3 DEF SetAdmin, Entries
    <2>2. legacy = Empty /\ legacy' = Empty
      BY <1>3 DEF SetAdmin, MayCall, MigratedFirst, TokenIInv, NothingLeft
    <2> QED BY <1>1, <2>1, <2>2, SupplyStays
  <1>4. ASSUME NEW a \in Accounts, NEW n \in Amounts, Mint(a, n) \/ Burn(a, n)
        PROVE  TokenIInv'
    BY <1>1, <1>4, SupplyMovesTogether
  <1>5. ASSUME NEW o \in Accounts, NEW e \in Nat,
               AuthorizeOperator(o, e) \/ (RevokeOperator(o) /\ e = 0)
        PROVE  TokenIInv'
    <2>1. /\ store'.supply = store.supply /\ store'.balance = store.balance
          /\ legacy' = legacy /\ (Orderly => legacy = Empty)
      BY <1>2, <1>5, DelegationMoves
    <2>2. legacy = Empty
      BY <2>1 DEF MigratedFirst, TokenIInv, NothingLeft
    <2> QED BY <1>1, <2>1, <2>2, SupplyStays
  <1>6. ASSUME NEW o \in Accounts, NEW e \in 1 .. MaxTime, AuthorizeOperator(o, e)
        PROVE  TokenIInv'
    BY <1>2, <1>5, <1>6
  <1>7. ASSUME NEW o \in Accounts, RevokeOperator(o)  PROVE TokenIInv'
    BY <1>5, <1>7
  <1>8. ASSUME NEW listed \in SUBSET Accounts, MigrateNamespace(listed)
        PROVE  TokenIInv'
    BY <1>1, <1>8, MigrationMoves
  <1>9. CASE UNCHANGED tokenVars
    BY <1>1, <1>9 DEF tokenVars, TokenIInv, SupplyIsBacked, LegacyIsApart, NothingLeft, Total
  <1> QED BY <1>3, <1>4, <1>6, <1>7, <1>8, <1>9 DEF TokenNext, TokenStep, Initialize

\* Whatever is minted, burnt and migrated, of a first version as of an upgrade
\* that migrates first: the supply is the sum of the balances, and within the cap.
THEOREM TokenSupply == MigratedFirst /\ TokenSpec => []SupplyIsBacked
  <1>1. TokenInit => TokenIInv
    BY TokenStart, TokenAssumption, ClockAssumption
  <1>2. MigratedFirst /\ TokenIInv /\ [TokenNext]_<<now, tokenVars>> => TokenIInv'
    BY TokenKeeps, TokenAssumption, ClockAssumption
  <1>3. TokenIInv => SupplyIsBacked
    BY DEF TokenIInv
  <1>4. CASE MigratedFirst
    <2>1. TokenIInv /\ [TokenNext]_<<now, tokenVars>> => TokenIInv'
      BY <1>2, <1>4
    <2> QED BY <1>1, <1>3, <2>1, PTL DEF TokenSpec
  <1>5. CASE ~MigratedFirst
    BY <1>5
  <1> QED BY <1>4, <1>5

\* A delegation that appears, moves or goes has a number of its own, the ones that
\* the migration brings included.
LEMMA DelegationsAreNumberedStep ==
  ASSUME TokenAssumption, ClockAssumption, MigratedFirst, TokenIInv,
         [TokenNext]_<<now, tokenVars>>, NEW o \in Accounts,
         store'.expires[o] # store.expires[o]
  PROVE  store'.nonce[o] > store.nonce[o]
  <1>1. /\ store \in Entries /\ legacy \in Entries /\ MaxTime \in Nat
        /\ store.nonce \in [Accounts -> Nat] /\ store.expires \in [Accounts -> Nat]
        /\ legacy.nonce \in [Accounts -> Nat] /\ legacy.expires \in [Accounts -> Nat]
    BY DEF TokenIInv, TokenTypeOK, Entries, ClockAssumption
  <1>2. ASSUME NEW a \in Accounts, SetAdmin(a)  PROVE FALSE
    BY <1>1, <1>2 DEF SetAdmin, Entries
  <1>3. ASSUME NEW a \in Accounts, NEW n \in Amounts, Mint(a, n) \/ Burn(a, n)
        PROVE  FALSE
    BY <1>1, <1>3, SupplyMoves
  <1>4. ASSUME NEW p \in Accounts, NEW e \in Nat,
               AuthorizeOperator(p, e) \/ (RevokeOperator(p) /\ e = 0)
        PROVE  store'.nonce[o] > store.nonce[o]
    <2>1. /\ store'.nonce = [store.nonce EXCEPT ![p] = store.nonce[p] + 1]
          /\ store'.expires = [store.expires EXCEPT ![p] = e]
      BY <1>1, <1>4, DelegationMoves
    <2>2. o = p
      BY <1>1, <2>1
    <2> QED BY <1>1, <2>1, <2>2
  <1>5. ASSUME NEW p \in Accounts, NEW e \in 1 .. MaxTime, AuthorizeOperator(p, e)
        PROVE  store'.nonce[o] > store.nonce[o]
    BY <1>1, <1>4, <1>5
  <1>6. ASSUME NEW p \in Accounts, RevokeOperator(p)
        PROVE  store'.nonce[o] > store.nonce[o]
    BY <1>4, <1>6
  <1>7. ASSUME NEW listed \in SUBSET Accounts, MigrateNamespace(listed)
        PROVE  store'.nonce[o] > store.nonce[o]
    <2>1. /\ store'.nonce = Overlay(store.nonce, legacy.nonce, listed)
          /\ store'.expires = Overlay(store.expires, legacy.expires, listed)
      BY <1>7 DEF MigrateNamespace
    <2>2. o \in listed /\ legacy.expires[o] # 0
      BY <2>1 DEF Overlay
    <2>3. legacy.nonce[o] # 0 /\ store.nonce[o] = 0
      BY <2>2 DEF TokenIInv, LegacyIsApart
    <2> QED BY <1>1, <2>1, <2>2, <2>3 DEF Overlay
  <1>8. CASE UNCHANGED tokenVars
    BY <1>8 DEF tokenVars
  <1> QED BY <1>2, <1>3, <1>5, <1>6, <1>7, <1>8 DEF TokenNext, TokenStep, Initialize

\* No operator's delegation changes under a nonce used before, when keys left by
\* an earlier version are migrated first.
THEOREM TokenDelegations == MigratedFirst /\ TokenSpec => DelegationsAreNumbered
  <1>1. TokenInit => TokenIInv
    BY TokenStart, TokenAssumption, ClockAssumption
  <1>2. CASE MigratedFirst
    <2>1. TokenIInv /\ [TokenNext]_<<now, tokenVars>> => TokenIInv'
      BY <1>2, TokenKeeps, TokenAssumption, ClockAssumption
    <2>2. TokenIInv /\ [TokenNext]_<<now, tokenVars>> =>
            [\A o \in Accounts : store'.expires[o] # store.expires[o] =>
                                 store'.nonce[o] > store.nonce[o]]_tokenVars
      BY <1>2, DelegationsAreNumberedStep, TokenAssumption, ClockAssumption
    <2> QED BY <1>1, <2>1, <2>2, PTL DEF TokenSpec, DelegationsAreNumbered
  <1>3. CASE ~MigratedFirst
    BY <1>3
  <1> QED BY <1>2, <1>3

-----------------------------------------------------------------------------
(* Tariffs *)

ValidSchedules == {s \in Schedules : ValidSchedule(s)}

\* The inductive invariant: types, and that today's copy is the current schedule
\* or gone.
TariffIInv ==
    /\ TariffTypeOK
    /\ todaySchedule \in {NoSchedule, currentSchedule}

\* A valid schedule is one, and has integer rates.
LEMMA ValidIsSchedule ==
  ASSUME TariffAssumption, NEW s \in ValidSchedules
  PROVE  s # NoSchedule /\ \A h \in Hours : s[h] \in Int
  <1>1. 0 \in Hours /\ TariffRates \subseteq Int
    BY DEF TariffAssumption, Hours
  <1>2. s \in [Hours -> TariffRates] /\ s[0] > 0
    BY <1>1 DEF ValidSchedules, Schedules, ValidSchedule
  <1>3. NoSchedule[0] = 0
    BY <1>1 DEF NoSchedule
  <1>4. s # NoSchedule
    BY <1>2, <1>3
  <1> QED BY <1>1, <1>2, <1>4

\* A use is rated by the current schedule, and at an integer rate.
LEMMA CurrentRates ==
  ASSUME TariffAssumption, TariffIInv
  PROVE  /\ RatedByCurrent
         /\ \A h \in Hours : CurrentTariff(h) \in Int
  <1>1. /\ currentSchedule \in {NoSchedule} \cup ValidSchedules
        /\ todaySchedule \in {NoSchedule, currentSchedule}
    BY DEF TariffIInv, TariffTypeOK, ValidSchedules
  <1>2. \A s \in {NoSchedule} \cup ValidSchedules : \A h \in Hours : s[h] \in Int
    BY ValidIsSchedule DEF NoSchedule
  <1>3. \A h \in Hours : CurrentTariff(h) = currentSchedule[h]
    BY <1>1 DEF CurrentTariff
  <1> QED BY <1>1, <1>2, <1>3 DEF RatedByCurrent

-----------------------------------------------------------------------------
(* A period, piece by piece *)

\* What the boundary of an hour is, for the second it follows.
LEMMA Boundary ==
  ASSUME TariffAssumption, NEW t \in Nat
  PROVE  \E p \in Nat : /\ p = t \div SecondsInHour
                        /\ p * SecondsInHour <= t
                        /\ NextHourBoundary(t) = (p + 1) * SecondsInHour
                        /\ NextHourBoundary(t) = p * SecondsInHour + SecondsInHour
                        /\ NextHourBoundary(t) \in Nat /\ t < NextHourBoundary(t)
  <1>1. SecondsInHour \in Nat \ {0}
    BY DEF TariffAssumption
  <1>2. PICK p \in Nat : /\ p = t \div SecondsInHour
                         /\ p * SecondsInHour <= t /\ t < p * SecondsInHour + SecondsInHour
    BY <1>1, QuotientBounds
  <1>3. (p + 1) * SecondsInHour = p * SecondsInHour + SecondsInHour
    BY <1>1
  <1>4. NextHourBoundary(t) = (p + 1) * SecondsInHour /\ p * SecondsInHour \in Nat
    BY <1>1, <1>2 DEF NextHourBoundary
  <1> QED BY <1>1, <1>2, <1>3, <1>4

\* A second before a boundary has its own no later.
LEMMA BoundariesApart ==
  ASSUME TariffAssumption, NEW t \in Nat, NEW u \in Nat,
         t < NextHourBoundary(u)
  PROVE  NextHourBoundary(t) <= NextHourBoundary(u)
  <1>1. SecondsInHour \in Nat \ {0}
    BY DEF TariffAssumption
  <1>2. PICK p \in Nat : /\ p * SecondsInHour <= t
                         /\ NextHourBoundary(t) = (p + 1) * SecondsInHour
    BY Boundary
  <1>3. PICK q \in Nat : NextHourBoundary(u) = (q + 1) * SecondsInHour
    BY Boundary
  <1>4. CASE p <= q
    BY <1>1, <1>2, <1>3, <1>4, ProductGrows
  <1>5. CASE q + 1 <= p
    <2>1. (q + 1) * SecondsInHour <= p * SecondsInHour
      BY <1>1, <1>5, ProductGrows
    <2>2. p * SecondsInHour \in Int /\ (q + 1) * SecondsInHour \in Int
      BY <1>1
    <2> QED BY <1>2, <1>3, <2>1, <2>2
  <1> QED BY <1>4, <1>5

\* The end of the piece a second is in.
PieceEnd(to, t) == IF NextHourBoundary(t) < to THEN NextHourBoundary(t) ELSE to

\* What the ends of the pieces are.
LEMMA EndsOfPieces ==
  ASSUME TariffAssumption, NEW from \in Nat, NEW to \in Nat, from < to
  PROVE  /\ IsFiniteSet(PeriodEnds(from, to)) /\ IsFiniteSet(from .. to - 1)
         /\ \A t \in from .. to - 1 : PieceEnd(to, t) \in PeriodEnds(from, to) /\ t < PieceEnd(to, t)
         /\ \A e \in PeriodEnds(from, to) : e \in Nat /\ from < e /\ e <= to
         /\ \A e \in PeriodEnds(from, to) :
              e # to => \E u \in from .. to - 1 : e = NextHourBoundary(u)
  <1>1. IsFiniteSet(from .. to - 1)
    BY FS_Interval
  <1>2. \A t \in from .. to - 1 : t \in Nat /\ t < to /\ from <= t
    OBVIOUS
  <1>3. \A t \in from .. to - 1 : NextHourBoundary(t) \in Nat /\ t < NextHourBoundary(t)
    BY <1>2, Boundary
  <1>4. PICK E : E = PeriodEnds(from, to)
    OBVIOUS
  <1>5. E = {b \in {NextHourBoundary(t) : t \in from .. to - 1} : b < to} \cup {to}
    BY <1>4 DEF PeriodEnds
  <1>6. \A e \in E : e # to => \E u \in from .. to - 1 : e = NextHourBoundary(u)
    BY <1>5
  <1>7. \A e \in E : e \in Nat /\ from < e /\ e <= to
    BY <1>2, <1>3, <1>5
  <1>8. IsFiniteSet(E)
    <2>1. E \subseteq 0 .. to
      BY <1>7
    <2>2. IsFiniteSet(0 .. to)
      BY FS_Interval
    <2> QED BY <2>1, <2>2, FS_Subset
  <1>9. \A t \in from .. to - 1 : PieceEnd(to, t) \in E /\ t < PieceEnd(to, t)
    BY <1>2, <1>3, <1>5 DEF PieceEnd
  <1> QED BY <1>1, <1>4, <1>6, <1>7, <1>8, <1>9

\* A piece starts where the one before it ended.
LEMMA PieceStarts ==
  ASSUME TariffAssumption, NEW from \in Nat, NEW to \in Nat, from < to,
         NEW e \in PeriodEnds(from, to)
  PROVE  /\ PieceStart(from, to, e) \in {from} \cup {b \in PeriodEnds(from, to) : b < e}
         /\ \A b \in {from} \cup {b \in PeriodEnds(from, to) : b < e} :
              b <= PieceStart(from, to, e)
  <1>1. PICK S : S = {from} \cup {b \in PeriodEnds(from, to) : b < e}
    OBVIOUS
  <1>2. IsFiniteSet(PeriodEnds(from, to)) /\ \A b \in PeriodEnds(from, to) : b \in Nat
    BY EndsOfPieces
  <1>3. PICK B : B = {b \in PeriodEnds(from, to) : b < e}
    OBVIOUS
  <1>4. IsFiniteSet(S) /\ S \subseteq Int /\ S # {}
    <2>1. B \subseteq PeriodEnds(from, to) /\ S = {from} \cup B
      BY <1>1, <1>3
    <2>2. IsFiniteSet(B) /\ IsFiniteSet({from})
      BY <1>2, <2>1, FS_Subset, FS_Singleton
    <2>3. IsFiniteSet({from} \cup B)
      BY <2>2, FS_Union
    <2> QED BY <1>2, <2>1, <2>3
  <1>5. \E m \in S : \A x \in S : m >= x
    BY <1>4, LargestMember
  <1>6. PieceStart(from, to, e) = CHOOSE m \in S : \A x \in S : m >= x
    BY <1>1 DEF PieceStart, Max
  <1>7. PieceStart(from, to, e) \in S /\ \A x \in S : PieceStart(from, to, e) >= x
    BY <1>5, <1>6
  <1> QED BY <1>1, <1>4, <1>7

\* The seconds of a piece are those between its start and its end, all of the
\* hour it starts in.
LEMMA SecondsOfPiece ==
  ASSUME TariffAssumption, NEW from \in Nat, NEW to \in Nat, from < to,
         NEW e \in PeriodEnds(from, to), NEW s, s = PieceStart(from, to, e)
  PROVE  /\ s \in Nat /\ s < e
         /\ {t \in from .. to - 1 : PieceEnd(to, t) = e} = s .. e - 1
         /\ \A t \in s .. e - 1 : t \in Nat /\ TimestampToHour(t) = TimestampToHour(s)
  <1>1. PICK E : E = PeriodEnds(from, to)
    OBVIOUS
  <1>2. /\ \A b \in E : b \in Nat /\ from < b /\ b <= to
        /\ \A b \in E : b # to => \E u \in from .. to - 1 : b = NextHourBoundary(u)
        /\ \A t \in from .. to - 1 : PieceEnd(to, t) \in E /\ t < PieceEnd(to, t)
    BY <1>1, EndsOfPieces
  <1>3. s \in {from} \cup {b \in E : b < e} /\ \A b \in {from} \cup {b \in E : b < e} : b <= s
    BY <1>1, PieceStarts
  <1>4. s \in Nat /\ s < e /\ from <= s /\ e \in Nat /\ e <= to
    BY <1>1, <1>2, <1>3
  <1>5. \A u \in from .. to - 1 : u \in Nat /\ NextHourBoundary(u) \in Nat
    BY Boundary
  <1>6. ASSUME NEW t \in from .. to - 1, PieceEnd(to, t) = e
        PROVE  s <= t
    <2>1. CASE s = from
      BY <2>1
    <2>2. CASE s # from
      <3>1. s \in E /\ s < e /\ s # to
        BY <1>3, <1>4, <2>2
      <3>2. PICK u \in from .. to - 1 : s = NextHourBoundary(u)
        BY <1>2, <3>1
      <3>3. e <= NextHourBoundary(t)
        BY <1>4, <1>5, <1>6 DEF PieceEnd
      <3>4. t \in Nat /\ u \in Nat /\ NextHourBoundary(t) \in Nat
        BY <1>5
      <3>5. t < s => NextHourBoundary(t) <= s
        BY <3>2, <3>4, BoundariesApart
      <3> QED BY <1>4, <3>1, <3>3, <3>4, <3>5
    <2> QED BY <2>1, <2>2
  <1>7. ASSUME NEW t \in s .. e - 1
        PROVE  t \in from .. to - 1 /\ PieceEnd(to, t) = e
    <2>1. t \in from .. to - 1 /\ t \in Nat /\ s <= t /\ t < e
      BY <1>4
    <2>2. PICK b : b = PieceEnd(to, t)
      OBVIOUS
    <2>3. b \in E /\ b \in Nat /\ t < b /\ b <= to /\ b <= NextHourBoundary(t)
          /\ NextHourBoundary(t) \in Nat
      <3>1. b \in E /\ t < b
        BY <1>2, <2>1, <2>2
      <3>2. NextHourBoundary(t) \in Nat
        BY <1>5, <2>1
      <3> QED BY <1>2, <2>2, <3>1, <3>2 DEF PieceEnd
    <2>4. ~ b < e
      BY <1>3, <1>4, <2>1, <2>3
    <2>5. ~ e < b
      <3> SUFFICES ASSUME e < b PROVE FALSE
        OBVIOUS
      <3>1. e # to
        BY <1>4, <2>3
      <3>2. PICK u \in from .. to - 1 : e = NextHourBoundary(u)
        BY <1>1, <1>2, <3>1
      <3>3. u \in Nat
        BY <1>5
      <3>4. NextHourBoundary(t) <= e
        BY <2>1, <3>2, <3>3, BoundariesApart
      <3> QED BY <1>4, <2>3, <3>4
    <2> QED BY <1>4, <2>1, <2>2, <2>3, <2>4, <2>5
  <1>8. {t \in from .. to - 1 : PieceEnd(to, t) = e} = s .. e - 1
    <2>1. ASSUME NEW t \in from .. to - 1, PieceEnd(to, t) = e
          PROVE  t \in s .. e - 1
      <3>1. s <= t /\ t < e /\ t \in Int
        BY <1>2, <1>6, <2>1
      <3> QED BY <1>4, <3>1
    <2> QED BY <1>7, <2>1
  <1>9. ASSUME NEW t \in s .. e - 1
        PROVE  t \in Nat /\ TimestampToHour(t) = TimestampToHour(s)
    <2>1. t \in Nat /\ s <= t /\ t < e /\ s \in s .. e - 1
      BY <1>4
    <2>2. PieceEnd(to, s) = e /\ s \in from .. to - 1
      BY <1>7, <2>1
    <2>3. e <= NextHourBoundary(s)
      BY <1>4, <1>5, <2>2 DEF PieceEnd
    <2>4. SecondsInHour \in Nat \ {0}
      BY DEF TariffAssumption
    <2>5. PICK p \in Nat : /\ p = s \div SecondsInHour /\ p * SecondsInHour <= s
                           /\ NextHourBoundary(s) = p * SecondsInHour + SecondsInHour
      BY <1>4, Boundary
    <2>6. p * SecondsInHour \in Nat
      BY <2>4
    <2>7. p * SecondsInHour <= t /\ t < p * SecondsInHour + SecondsInHour
      BY <1>4, <2>1, <2>3, <2>4, <2>5, <2>6
    <2>8. t \div SecondsInHour = p
      BY <2>1, <2>4, <2>7, QuotientIs
    <2> QED BY <2>1, <2>5, <2>8 DEF TimestampToHour
  <1> QED BY <1>4, <1>8, <1>9

\* What is charged by the piece is what is charged by the second.
LEMMA WeightIsExact ==
  ASSUME TariffAssumption, \A h \in Hours : CurrentTariff(h) \in Int,
         NEW from \in Nat, NEW to \in Nat, from < to
  PROVE  SumOf(TariffOfSecond(from, to), from .. to - 1)
           = SumOf(PieceWeights(from, to), PeriodEnds(from, to))
  <1>1. PICK f, g, k, S, E : /\ f = TariffOfSecond(from, to) /\ g = PieceWeights(from, to)
                             /\ k = [t \in from .. to - 1 |-> PieceEnd(to, t)]
                             /\ S = from .. to - 1 /\ E = PeriodEnds(from, to)
    OBVIOUS
  <1>2. /\ IsFiniteSet(S) /\ IsFiniteSet(E)
        /\ \A t \in S : k[t] \in E
    BY <1>1, EndsOfPieces
  <1>3. \A t \in Nat : TimestampToHour(t) \in Hours
    <2>1. SecondsInHour \in Nat \ {0} /\ HoursInDay \in Nat \ {0}
      BY DEF TariffAssumption
    <2>2. ASSUME NEW t \in Nat  PROVE TimestampToHour(t) \in Hours
      <3>1. PICK q \in Nat : q = t \div SecondsInHour
        BY <2>1, QuotientBounds
      <3>2. q % HoursInDay \in 0 .. HoursInDay - 1
        BY <2>1
      <3> QED BY <3>1, <3>2 DEF TimestampToHour, Hours
    <2> QED BY <2>2
  <1>4. \A t \in S : f[t] = CurrentTariff(TimestampToHour(t)) /\ t \in Nat
    BY <1>1 DEF TariffOfSecond
  <1>5. \A t \in S : f[t] \in Int
    BY <1>3, <1>4
  <1>6. ASSUME NEW e \in E
        PROVE  g[e] = SumOf(f, ClassOf(S, k, e))
    <2>1. PICK s : s = PieceStart(from, to, e)
      OBVIOUS
    <2>2. /\ s \in Nat /\ s < e
          /\ {t \in from .. to - 1 : PieceEnd(to, t) = e} = s .. e - 1
          /\ \A t \in s .. e - 1 : t \in Nat /\ TimestampToHour(t) = TimestampToHour(s)
      BY <1>1, <2>1, SecondsOfPiece
    <2>3. e \in Nat
      BY <1>1, EndsOfPieces
    <2>4. PICK c : c = CurrentTariff(TimestampToHour(s))
      OBVIOUS
    <2>5. c \in Int
      BY <1>3, <2>2, <2>4
    <2>6. ClassOf(S, k, e) = s .. e - 1
      BY <1>1, <2>2 DEF ClassOf
    <2>7. \A t \in s .. e - 1 : t \in S
      BY <2>6 DEF ClassOf
    <2>8. \A t \in s .. e - 1 : f[t] = c
      BY <1>4, <2>2, <2>4, <2>7
    <2>9. IsFiniteSet(s .. e - 1) /\ Cardinality(s .. e - 1) = e - s
      <3>1. PICK b \in Int : b = e - 1
        BY <2>3
      <3>2. IsFiniteSet(s .. b) /\ Cardinality(s .. b) = IF s > b THEN 0 ELSE b - s + 1
        BY <2>2, FS_Interval
      <3> QED BY <2>2, <2>3, <3>1, <3>2
    <2>10. SumOf(f, s .. e - 1) = c * (e - s)
      BY <2>5, <2>8, <2>9, SumOfConstant
    <2>11. g[e] = c * (e - s)
      BY <1>1, <2>1, <2>4 DEF PieceWeights
    <2> QED BY <2>6, <2>10, <2>11
  <1>7. SumOf(f, S) = SumOf(g, E)
    BY <1>2, <1>5, <1>6, SumByClass
  <1> QED BY <1>1, <1>7

\* Flows are exact wherever uses are rated by the current schedule.
LEMMA FlowHolds ==
  ASSUME TariffAssumption, TariffIInv
  PROVE  FlowIsExact
  <1> SUFFICES ASSUME NEW from \in 0 .. now, NEW to \in 1 .. now + SecondsInHour,
                      FlowIsComputed(from, to)
               PROVE  /\ FlowForPeriod(from, to, 2).tokens
                           = 2 * SumOf(TariffOfSecond(from, to), from .. to - 1)
                      /\ FlowForPeriod(from, to, 2).weighted
                           = SumOf(TariffOfSecond(from, to), from .. to - 1) \div (to - from)
    BY DEF FlowIsExact
  <1>1. now \in Nat /\ SecondsInHour \in Nat
    BY DEF TariffIInv, TariffTypeOK, TariffAssumption
  <1>2. from \in Nat /\ to \in Nat /\ from < to
    BY <1>1 DEF FlowIsComputed
  <1>3. SumOf(TariffOfSecond(from, to), from .. to - 1)
          = SumOf(PieceWeights(from, to), PeriodEnds(from, to))
    BY <1>2, CurrentRates, WeightIsExact
  <1> QED BY <1>3 DEF FlowForPeriod

-----------------------------------------------------------------------------
\* Making a schedule current makes it today's, and it is a valid one.
LEMMA SchedulesAdopted ==
  ASSUME TariffAssumption, TariffIInv, NEW s \in ValidSchedules,
         currentSchedule' = s, todaySchedule' = s, now' = now,
         tariffProposals' \in Seq([schedule : ValidSchedules,
                                   executable : {t + NoticePeriod : t \in 0 .. now},
                                   executed : BOOLEAN])
  PROVE  TariffIInv'
  BY DEF TariffIInv, TariffTypeOK, ValidSchedules

\* Every step keeps the two copies and the proposals.
LEMMA TariffStepKeeps ==
  ASSUME TariffAssumption, ClockAssumption, TariffIInv, [TariffNext]_<<now, tariffVars>>
  PROVE  TariffIInv'
  <1> DEFINE Proposals == [schedule : ValidSchedules,
                           executable : {t + NoticePeriod : t \in 0 .. now}, executed : BOOLEAN]
  <1>1. /\ now \in Nat /\ tariffProposals \in Seq(Proposals)
        /\ currentSchedule \in {NoSchedule} \cup ValidSchedules
        /\ todaySchedule \in {NoSchedule, currentSchedule}
    BY DEF TariffIInv, TariffTypeOK, ValidSchedules
  <1>2. ASSUME NEW s \in Schedules, InitializeTariff(s), now' = now
        PROVE  TariffIInv'
    <2>1. s \in ValidSchedules
      BY <1>2 DEF InitializeTariff, ValidSchedules
    <2>2. tariffProposals' \in Seq(Proposals)
      BY <1>1, <1>2 DEF InitializeTariff
    <2> QED BY <1>2, <2>1, <2>2, SchedulesAdopted DEF InitializeTariff
  <1>3. ASSUME NEW s \in Schedules, ProposeTariff(s), now' = now
        PROVE  TariffIInv'
    <2>1. PICK p : p = [schedule |-> s, executable |-> now + NoticePeriod, executed |-> FALSE]
      OBVIOUS
    <2>2. p \in Proposals
      BY <1>1, <1>3, <2>1 DEF ProposeTariff, ValidSchedules
    <2>3. tariffProposals' = Append(tariffProposals, p)
      BY <1>3, <2>1 DEF ProposeTariff
    <2> HIDE DEF Proposals
    <2>4. tariffProposals' \in Seq(Proposals)
      BY <1>1, <2>2, <2>3
    <2> USE DEF Proposals
    <2> QED BY <1>1, <1>3, <2>4 DEF ProposeTariff, TariffIInv, TariffTypeOK, ValidSchedules
  <1>4. ASSUME NEW id \in DOMAIN tariffProposals, ExecuteTariff(id), now' = now
        PROVE  TariffIInv'
    <2> HIDE DEF Proposals
    <2>1. tariffProposals[id] \in Proposals
      BY <1>1
    <2>2. PICK p : p = [tariffProposals[id] EXCEPT !.executed = TRUE]
      OBVIOUS
    <2>3. tariffProposals' = [tariffProposals EXCEPT ![id] = p]
      BY <1>4, <2>2 DEF ExecuteTariff
    <2>4. p \in Proposals /\ tariffProposals[id].schedule \in ValidSchedules
      BY <2>1, <2>2 DEF Proposals
    <2>5. tariffProposals' \in Seq(Proposals)
      BY <1>1, <2>3, <2>4
    <2> QED BY <1>4, <2>4, <2>5, SchedulesAdopted DEF ExecuteTariff, Proposals
  <1>5. ASSUME TodayExpires, now' = now  PROVE TariffIInv'
    BY <1>5 DEF TodayExpires, TariffIInv, TariffTypeOK
  <1>6. ASSUME Tick, UNCHANGED tariffVars  PROVE TariffIInv'
    <2>1. now' \in Nat /\ 0 .. now \subseteq 0 .. now'
      BY <1>1, <1>6 DEF Tick
    <2>2. PICK Later : Later = [schedule : ValidSchedules,
                                executable : {t + NoticePeriod : t \in 0 .. now'},
                                executed : BOOLEAN]
      OBVIOUS
    <2>3. Proposals \subseteq Later
      BY <2>1, <2>2
    <2> HIDE DEF Proposals
    <2>4. tariffProposals \in Seq(Later)
      BY <1>1, <2>3
    <2> QED BY <1>1, <1>6, <2>1, <2>2, <2>4
            DEF tariffVars, TariffIInv, TariffTypeOK, ValidSchedules
  <1>7. ASSUME UNCHANGED <<now, tariffVars>>  PROVE TariffIInv'
    BY <1>7 DEF tariffVars, TariffIInv, TariffTypeOK
  <1> QED BY <1>2, <1>3, <1>4, <1>5, <1>6, <1>7 DEF TariffNext, TariffStep

\* Consumers are charged, second by second, at the valid rate of the schedule in
\* force, whichever copy of it is read and however a period is cut into hours, for
\* every set of rates, length of hour and day, notice period and period.
THEOREM TariffInvariant == TariffSpec => []TariffInv
  <1>1. now = 0 /\ TariffInit => TariffIInv
    BY DEF TariffInit, TariffIInv, TariffTypeOK
  <1>2. TariffIInv /\ [TariffNext]_<<now, tariffVars>> => TariffIInv'
    BY TariffStepKeeps, TariffAssumption, ClockAssumption
  <1>3. TariffIInv => TariffInv
    BY CurrentRates, FlowHolds, TariffAssumption DEF TariffIInv, TariffInv
  <1> QED BY <1>1, <1>2, <1>3, PTL DEF TariffSpec

=============================================================================
