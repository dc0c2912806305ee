-------------------------- MODULE UpgradeGovernance --------------------------
(***************************************************************************)
(* Replacing the utility contract's code: a proposal, its veto period, the *)
(* two ways to finalise it, and the migration of the storage to the next   *)
(* version, in batches anyone may interrupt.  A call that panics is no     *)
(* step.                                                                   *)
(***************************************************************************)
EXTENDS LedgerClock

CONSTANTS
    Hashes,             \* code that may be installed
    UpgradeVetoPeriod,  \* UPGRADE_VETO_PERIOD_SECONDS (7 days)
    VetoThresholdBps,   \* VETO_THRESHOLD_BPS (500)
    MigrationBatch,     \* meters migrated by one call (10)
    MaxMeters           \* bound: meters registered

ASSUME UpgradeAssumption ==
    /\ UpgradeVetoPeriod \in Nat \ {0} /\ VetoThresholdBps \in Nat \ {0}
    /\ MigrationBatch \in Nat \ {0} /\ MaxMeters \in Nat

VARIABLES
    code,        \* hash of the installed code
    upgrade,     \* ProposedUpgrade, UpgradeProposalTime and VetoDeadline
    userVetoed,  \* ids of the proposals vetoed
    storage,     \* StorageVersion and MigrationCursor
    meters       \* Count

upgradeVars == <<code, upgrade, userVetoed, storage, meters>>

Released == "released"  \* the code the contract was deployed with

NoUpgrade == [hash |-> Released, at |-> Absent, deadline |-> 0]

\* Read by can_finalize_upgrade; nothing writes it.
VetoCount == 0

\* can_finalize_upgrade
CanFinalizeUpgrade ==
    /\ upgrade.deadline # 0 /\ now >= upgrade.deadline
    /\ meters # 0 => (VetoCount * 10000) \div meters < VetoThresholdBps

MigrationInProgress == storage.cursor # Absent

-----------------------------------------------------------------------------
\* Mutant: a deadline that has passed is not set again.
ProposeUnderOldDeadline(h) ==
    /\ upgrade.at = Absent \/ now >= upgrade.deadline
    /\ upgrade' = [hash |-> h, at |-> now,
                   deadline |-> IF upgrade.deadline = 0
                                THEN now + UpgradeVetoPeriod ELSE upgrade.deadline]
    /\ UNCHANGED <<code, userVetoed, storage, meters>>

\* propose_upgrade, signed by the contract itself: a proposal whose veto period
\* is over is replaced, finalised or not.
ProposeUpgrade(h) ==
    /\ upgrade.at = Absent \/ now >= upgrade.deadline
    /\ upgrade' = [hash |-> h, at |-> now, deadline |-> now + UpgradeVetoPeriod]
    /\ UNCHANGED <<code, userVetoed, storage, meters>>

\* submit_upgrade_veto, signed by the contract itself while some proposal may be
\* vetoed: any id is recorded, and counted nowhere.
SubmitUpgradeVeto(id) ==
    /\ now < upgrade.deadline
    /\ userVetoed' = userVetoed \cup {id}
    /\ UNCHANGED <<code, upgrade, storage, meters>>

\* update_current_contract_wasm, and the keys of the proposal removed.
Install ==
    /\ CanFinalizeUpgrade
    /\ code' = upgrade.hash
    /\ upgrade' = NoUpgrade

\* finalize_upgrade, called by anybody.
FinalizeUpgrade ==
    /\ Install
    /\ UNCHANGED <<userVetoed, storage, meters>>

\* Mutant: the version the code expects is stored before the migration.
FinalizeAhead(version) ==
    /\ Install
    /\ \/ version = storage.version
       \/ version = storage.version + 1 /\ ~MigrationInProgress
    /\ storage' = [storage EXCEPT !.version = version]
    /\ UNCHANGED <<userVetoed, meters>>

\* finalize_upgrade_v2, called by anybody: the same version, or the next one
\* when no migration is under way; run_migration stores the next one.
FinalizeUpgradeV2(version) ==
    /\ Install
    /\ \/ version = storage.version
       \/ version = storage.version + 1 /\ ~MigrationInProgress
    /\ UNCHANGED <<userVetoed, storage, meters>>

\* run_migration(2), by the admin: one batch, or the end of the migration.
RunMigration ==
    /\ storage.version = 1
    /\ LET cursor == IF MigrationInProgress THEN storage.cursor ELSE 0
       IN  storage' =
             IF cursor >= meters
             THEN [version |-> 2, cursor |-> Absent]
             ELSE [storage EXCEPT !.cursor = Smaller(cursor + MigrationBatch, meters)]
    /\ UNCHANGED <<code, upgrade, userVetoed, meters>>

\* cancel_migration, by the admin: the next run starts from the first meter.
CancelMigration ==
    /\ MigrationInProgress
    /\ storage' = [storage EXCEPT !.cursor = Absent]
    /\ UNCHANGED <<code, upgrade, userVetoed, meters>>

\* register_meter takes the next number, migration or not.
AnotherMeter ==
    /\ meters < MaxMeters
    /\ meters' = meters + 1
    /\ UNCHANGED <<code, upgrade, userVetoed, storage>>

-----------------------------------------------------------------------------
UpgradeInit ==
    /\ code = Released
    /\ upgrade = NoUpgrade
    /\ userVetoed = {}
    /\ storage = [version |-> 1, cursor |-> Absent]
    /\ meters = 0

UpgradeStep ==
    \/ \E h \in Hashes : ProposeUpgrade(h)
    \/ \E id \in 0 .. MaxTime : SubmitUpgradeVeto(id)
    \/ FinalizeUpgrade
    \/ \E version \in 1 .. 3 : FinalizeUpgradeV2(version)
    \/ RunMigration
    \/ CancelMigration
    \/ AnotherMeter

UpgradeNext ==
    \/ UpgradeStep /\ UNCHANGED now
    \/ Tick /\ UNCHANGED upgradeVars

UpgradeSpec == now = 0 /\ UpgradeInit /\ [][UpgradeNext]_<<now, upgradeVars>>

-----------------------------------------------------------------------------
\* Types; while the storage is being migrated the cursor is within the meters.
UpgradeTypeOK ==
    /\ now \in Nat
    /\ code \in Hashes \cup {Released}
    /\ upgrade \in {NoUpgrade} \cup
         {[hash |-> h, at |-> t, deadline |-> t + UpgradeVetoPeriod] :
            h \in Hashes, t \in 0 .. now}
    /\ userVetoed \subseteq 0 .. MaxTime
    /\ meters \in Nat
    /\ storage \in [version : {1}, cursor : {Absent} \cup 0 .. meters] \cup
                   [version : {2}, cursor : {Absent}]

\* EMERGENCY_RUNBOOK.md:330 "no on-chain bypass of the timelock": code is only
\* ever replaced by code that stood proposed, unreplaced, for the whole veto
\* period, whichever call finalises it and however proposals follow each other.
CodeWaitsForVetoes ==
    [][code' # code =>
         /\ upgrade.at # Absent /\ code' = upgrade.hash
         /\ now >= upgrade.at + UpgradeVetoPeriod]_<<now, upgradeVars>>

\* The version moves by one, and only when the cursor has passed every meter,
\* the ones registered since the migration began included, whatever was
\* cancelled, finalised or registered in between.
VersionCoversMeters ==
    [][storage'.version # storage.version =>
         /\ storage'.version = storage.version + 1
         /\ meters = 0 \/ storage.cursor >= meters]_<<now, upgradeVars>>

=============================================================================
