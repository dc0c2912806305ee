---------------------------- MODULE AdminTransfer ----------------------------
(***************************************************************************)
(* The role of current admin and its transfer: proposed by the admin, open *)
(* to vetoes for a time, then executed by anybody.  With it, what the      *)
(* current admin decides: the compliance officer and the verification of   *)
(* the provider, who in this code is the contract itself.                  *)
(***************************************************************************)
EXTENDS LedgerClock, FiniteSets

CONSTANTS
    Admins,              \* addresses that can be admin or officer
    NoAdmin,             \* the absent address
    Voters,              \* users that veto a transfer
    TransferTimelock,    \* ADMIN_TRANSFER_TIMELOCK (48 hours)
    ExecutionWindow,     \* DAY_IN_SECONDS after it
    TransferVetoBps,     \* VETO_THRESHOLD_BPS (500)
    DefaultActiveUsers,  \* ActiveUsers while nobody has registered (100)
    MaxActiveUsers       \* bound: registrations

ASSUME TransferAssumption ==
    /\ NoAdmin \notin Admins /\ IsFiniteSet(Voters)
    /\ TransferTimelock \in Nat \ {0} /\ ExecutionWindow \in Nat
    /\ TransferVetoBps \in Nat /\ DefaultActiveUsers \in Nat /\ MaxActiveUsers \in Nat

VARIABLES
    currentAdmin,  \* CurrentAdmin
    transfer,      \* AdminTransferProposal
    adminVetoes,   \* AdminVeto(user, proposed_at)
    activeUsers,   \* ActiveUsers
    officer,       \* ComplianceOfficer
    verification   \* VerifiedProvider: "none", "requested" or "granted"

transferVars ==
    <<currentAdmin, transfer, adminVetoes, activeUsers, officer, verification>>

NoTransfer ==
    [current |-> NoAdmin, proposed |-> NoAdmin, at |-> Absent, deadline |-> 0, vetoes |-> 0]

ActiveTransfer == transfer # NoTransfer

VetoThreshold ==
    ((IF activeUsers = Absent THEN DefaultActiveUsers ELSE activeUsers) * TransferVetoBps)
      \div 10000

VotersOf(t) == {u \in Voters : <<u, t>> \in adminVetoes}

-----------------------------------------------------------------------------
\* set_initial_admin: signed by the admin to be, once.
SetInitialAdmin(a) ==
    /\ currentAdmin = NoAdmin
    /\ currentAdmin' = a
    /\ UNCHANGED <<transfer, adminVetoes, activeUsers, officer, verification>>

\* initiate_admin_transfer, by the current admin: a proposal past its deadline
\* is replaced, though it may still be executed until then.
InitiateTransfer(a) ==
    /\ currentAdmin # NoAdmin
    /\ ActiveTransfer => now >= transfer.deadline
    /\ transfer' = [current |-> currentAdmin, proposed |-> a, at |-> now,
                    deadline |-> now + TransferTimelock, vetoes |-> 0]
    /\ UNCHANGED <<currentAdmin, adminVetoes, activeUsers, officer, verification>>

\* veto_admin_transfer: once per user and proposal time, before the deadline.
VetoTransfer(u) ==
    /\ ActiveTransfer /\ now < transfer.deadline
    /\ <<u, transfer.at>> \notin adminVetoes
    /\ adminVetoes' = adminVetoes \cup {<<u, transfer.at>>}
    /\ transfer' = [transfer EXCEPT !.vetoes = @ + 1]
    /\ UNCHANGED <<currentAdmin, activeUsers, officer, verification>>

\* Mutant: the proposal stays.
ExecuteAndKeep ==
    /\ ActiveTransfer
    /\ now <= transfer.deadline + ExecutionWindow
    /\ transfer.vetoes < VetoThreshold
    /\ currentAdmin' = transfer.proposed
    /\ UNCHANGED <<transfer, adminVetoes, activeUsers, officer, verification>>

\* execute_admin_transfer, by anybody: up to a day after the deadline, and as
\* soon as the proposal stands; the vetoes stay behind.
ExecuteTransfer ==
    /\ ActiveTransfer
    /\ now <= transfer.deadline + ExecutionWindow
    /\ transfer.vetoes < VetoThreshold
    /\ currentAdmin' = transfer.proposed
    /\ transfer' = NoTransfer
    /\ UNCHANGED <<adminVetoes, activeUsers, officer, verification>>

\* register_active_user: counts calls, not users.
RegisterActiveUser ==
    /\ activeUsers < MaxActiveUsers
    /\ activeUsers' = (IF activeUsers = Absent THEN 0 ELSE activeUsers) + 1
    /\ UNCHANGED <<currentAdmin, transfer, adminVetoes, officer, verification>>

\* set_compliance_officer, by the current admin.
SetComplianceOfficer(a) ==
    /\ currentAdmin # NoAdmin
    /\ officer' = a
    /\ UNCHANGED <<currentAdmin, transfer, adminVetoes, activeUsers, verification>>

\* request_provider_verification: refused once granted.
RequestVerification ==
    /\ verification # "granted"
    /\ verification' = "requested"
    /\ UNCHANGED <<currentAdmin, transfer, adminVetoes, activeUsers, officer>>

\* grant_provider_verification, by the current admin, of what was requested.
GrantVerification ==
    /\ currentAdmin # NoAdmin
    /\ verification # "none"
    /\ verification' = "granted"
    /\ UNCHANGED <<currentAdmin, transfer, adminVetoes, activeUsers, officer>>

-----------------------------------------------------------------------------
TransferInit ==
    /\ currentAdmin = NoAdmin /\ officer = NoAdmin
    /\ transfer = NoTransfer
    /\ adminVetoes = {}
    /\ activeUsers = Absent
    /\ verification = "none"

TransferStep ==
    \/ \E a \in Admins :
         SetInitialAdmin(a) \/ InitiateTransfer(a) \/ SetComplianceOfficer(a)
    \/ \E u \in Voters : VetoTransfer(u)
    \/ ExecuteTransfer
    \/ RegisterActiveUser
    \/ RequestVerification
    \/ GrantVerification

TransferNext ==
    \/ TransferStep /\ UNCHANGED now
    \/ Tick /\ UNCHANGED transferVars

TransferSpec == now = 0 /\ TransferInit /\ [][TransferNext]_<<now, transferVars>>

-----------------------------------------------------------------------------
\* Types; a transfer stands open to vetoes for the whole timelock from the second
\* it was proposed, whatever it replaced.
TransferTypeOK ==
    /\ now \in Nat
    /\ {currentAdmin, officer} \subseteq Admins \cup {NoAdmin}
    /\ transfer \in {NoTransfer} \cup
         [current : Admins, proposed : Admins, at : 0 .. now,
          deadline : Nat, vetoes : Nat]
    /\ ActiveTransfer => transfer.deadline = transfer.at + TransferTimelock
    /\ adminVetoes \subseteq Voters \X (0 .. now)
    /\ activeUsers \in {Absent} \cup Nat
    /\ verification \in {"none", "requested", "granted"}

\* A transfer that can be executed was proposed by the admin of now: no former
\* admin's proposal outlives the admin's own replacement.
TransferIsCurrent == ActiveTransfer => transfer.current = currentAdmin

\* Every veto counted against a transfer is that of a different user.  More may
\* have vetoed than are counted: the veto of an earlier transfer proposed in the
\* same second bars its user from the later one.
VetoesAreUsers ==
    ActiveTransfer => transfer.vetoes <= Cardinality(VotersOf(transfer.at))

\* The role of admin is handed on as it was proposed: by the admin of now, with
\* the whole timelock for vetoes, each counted veto that of another user.
TransferInv == TransferTypeOK /\ TransferIsCurrent /\ VetoesAreUsers

\* lib.rs:6967 "Execute admin transfer after 48-hour timelock if not vetoed":
\* no transfer is executed before the time for vetoes is over.
TimelockIsKept ==
    [][currentAdmin' # currentAdmin /\ currentAdmin # NoAdmin =>
         now >= transfer.deadline]_<<now, transferVars>>

=============================================================================
