-------------------------- MODULE SettlementProposals --------------------------
(***************************************************************************)
(* Settlements proposed and finalised inside the utility contract: a       *)
(* proposal locks its payer's resources until the payee finalises it.      *)
(* Past the deadline finalize_settlement releases the resources and then   *)
(* panics, and the host takes the release and the flag back.               *)
(***************************************************************************)
EXTENDS LedgerClock, FiniteSets

CONSTANTS
    ProposalIds,    \* ids of proposals
    Windows,        \* settlement windows asked for
    MinWindow,      \* MIN_SETTLEMENT_WINDOW (60)
    MaxWindow,      \* MAX_SETTLEMENT_WINDOW (7 days)
    MaxProposed     \* bound: proposals made under one id

ASSUME ProposalAssumption ==
    /\ Windows \subseteq Nat /\ MinWindow \in Nat /\ MaxWindow \in Nat /\ MaxProposed \in Nat

VARIABLES
    proposals,      \* the proposal stored under each id, or NoProposal
    lockRecords,    \* resources_locked, in the lock manager's own record
    batchFinalized, \* BatchFinalized
    proposed,       \* times each id was proposed (history)
    paidOut         \* times each id was finalised (history)

proposalVars == <<proposals, lockRecords, batchFinalized, proposed, paidOut>>

NoProposal == [at |-> Absent, deadline |-> 0, finalized |-> FALSE, locked |-> FALSE]

\* propose_settlement: under an id that was used before too.
ProposeSettlement(id, window) ==
    /\ window \in MinWindow .. MaxWindow
    /\ proposed[id] < MaxProposed
    /\ proposals' = [proposals EXCEPT ![id] =
         [at |-> now, deadline |-> now + window, finalized |-> FALSE, locked |-> TRUE]]
    /\ lockRecords' = lockRecords \cup {id}
    /\ proposed' = [proposed EXCEPT ![id] = @ + 1]
    /\ UNCHANGED <<batchFinalized, paidOut>>

\* Mutant: only the proposal says whether it was finalised.
FinalizeUnflagged(id) ==
    /\ proposals[id] # NoProposal /\ ~proposals[id].finalized
    /\ now <= proposals[id].deadline
    /\ batchFinalized' = batchFinalized \cup {id}
    /\ proposals' = [proposals EXCEPT ![id].finalized = TRUE, ![id].locked = FALSE]
    /\ lockRecords' = lockRecords \ {id}
    /\ paidOut' = [paidOut EXCEPT ![id] = @ + 1]
    /\ UNCHANGED proposed

\* finalize_settlement, signed by the payee, in time.
FinalizeProposal(id) ==
    /\ id \notin batchFinalized
    /\ proposals[id] # NoProposal /\ ~proposals[id].finalized
    /\ now <= proposals[id].deadline
    /\ batchFinalized' = batchFinalized \cup {id}
    /\ proposals' = [proposals EXCEPT ![id].finalized = TRUE, ![id].locked = FALSE]
    /\ lockRecords' = lockRecords \ {id}
    /\ paidOut' = [paidOut EXCEPT ![id] = @ + 1]
    /\ UNCHANGED proposed

-----------------------------------------------------------------------------
ProposalInit ==
    /\ proposals = [id \in ProposalIds |-> NoProposal]
    /\ lockRecords = {} /\ batchFinalized = {}
    /\ proposed = [id \in ProposalIds |-> 0]
    /\ paidOut = [id \in ProposalIds |-> 0]

ProposalStep ==
    \E id \in ProposalIds :
      \/ \E w \in Windows : ProposeSettlement(id, w)
      \/ FinalizeProposal(id)

ProposalNext ==
    \/ ProposalStep /\ UNCHANGED now
    \/ Tick /\ UNCHANGED proposalVars

ProposalSpec == now = 0 /\ ProposalInit /\ [][ProposalNext]_<<now, proposalVars>>

-----------------------------------------------------------------------------
\* An id is finalised once, in time and never again, though a new proposal may
\* take its place, unfinalised and with a later deadline.
FinalizedOnce ==
    \A id \in ProposalIds :
      /\ paidOut[id] <= 1
      /\ id \in batchFinalized <=> paidOut[id] = 1

\* The two records of a lock agree: the proposal's and the lock manager's.
LockRecordsAgree == \A id \in ProposalIds : proposals[id].locked <=> id \in lockRecords

\* An id is paid out once, and its locks are told alike by both who keep them.
ProposalInv == FinalizedOnce /\ LockRecordsAgree

=============================================================================
