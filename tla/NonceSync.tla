------------------------------ MODULE NonceSync ------------------------------
(***************************************************************************)
(* The heartbeat nonces of one device and their reset by several signers.  *)
(* A heartbeat carries its nonce and the key its signature is verified     *)
(* with, and that key is matched with nothing: whoever sends one may sign  *)
(* it, so any nonce may arrive at any time.  A reset hands the contract    *)
(* the request, its approvals and its quorum included, and the request the *)
(* contract stores is never read again.                                    *)
(***************************************************************************)
EXTENDS LedgerClock, Sequences, FiniteSets

CONSTANTS
    Resetters,          \* AuthorizedNonceResetters
    RequiredApprovals,  \* the quorum of a reset that the docs name (3 of 5)
    QuorumsGiven,       \* required_approvals of the requests handed in
    ApprovalsGiven,     \* approvals of the requests handed in: lists of resetters
    NonceWindow,        \* NONCE_WINDOW_SIZE (5)
    DesyncLimit,        \* more desyncs than this in a day are suspicious (10)
    DesyncDay,          \* DAY_IN_SECONDS
    MaxNonce,           \* bound: the highest nonce of a heartbeat or a reset
    MaxDesyncs          \* bound: desyncs counted

ASSUME NonceAssumption ==
    /\ RequiredApprovals \in Nat \ {0} /\ QuorumsGiven \subseteq Nat
    /\ ApprovalsGiven \subseteq Seq(Resetters)
    /\ NonceWindow \in Nat \ {0} /\ DesyncLimit \in Nat /\ DesyncDay \in Nat
    /\ MaxNonce \in Nat /\ MaxDesyncs \in Nat

VARIABLES
    nonceState,  \* DeviceNonce, or NoNonceState
    accepted,    \* nonces accepted since the last reset, in order (history)
    request      \* NonceResetRequest, or NoRequest

nonceVars == <<nonceState, accepted, request>>

\* DeviceNonceState::new
NewNonceState(nonce) == [expected |-> nonce, desyncs |-> 0, since |-> 0, suspicious |-> FALSE]
NoNonceState == NewNonceState(Absent)

\* get_device_nonce_state: a device without a state expects nonce 0.
DeviceState == IF nonceState = NoNonceState THEN NewNonceState(0) ELSE nonceState

NoRequest == [approvals |-> <<>>, quorum |-> 0, expires |-> 0, executed |-> FALSE]

\* update_desync_count: the day is over when a later desync finds it so.
CountDesync(s) ==
    LET count == IF now - s.since > DesyncDay THEN 1 ELSE s.desyncs + 1
    IN  [s EXCEPT !.desyncs = count,
                  !.since = IF now - s.since > DesyncDay THEN now ELSE @,
                  !.suspicious = count > DesyncLimit]

-----------------------------------------------------------------------------
\* initialize_device_nonce: once.
InitializeNonce(nonce) ==
    /\ nonceState = NoNonceState
    /\ nonceState' = NewNonceState(nonce)
    /\ UNCHANGED <<accepted, request>>

\* Mutant: a nonce ahead of the expected one, but within the window, is
\* accepted and counted as the expected one.
AcceptWindow(nonce) ==
    /\ nonce \in DeviceState.expected .. DeviceState.expected + NonceWindow
    /\ nonceState' = [DeviceState EXCEPT !.expected = @ + 1,
                                         !.suspicious = @ /\ DeviceState.desyncs # 0]
    /\ accepted' = Append(accepted, nonce)
    /\ UNCHANGED request

\* verify_heartbeat_nonce, valid: exactly the expected nonce.  The suspicion is
\* lifted only when no desync is counted.
AcceptHeartbeat(nonce) ==
    /\ nonce = DeviceState.expected
    /\ nonceState' = [DeviceState EXCEPT !.expected = nonce + 1,
                                         !.suspicious = @ /\ DeviceState.desyncs # 0]
    /\ accepted' = Append(accepted, nonce)
    /\ UNCHANGED request

\* verify_heartbeat_nonce, desync: old, far ahead or merely out of order, the
\* heartbeat is refused and counted.
RejectHeartbeat(nonce) ==
    /\ nonce # DeviceState.expected
    /\ DeviceState.desyncs < MaxDesyncs
    /\ nonceState' = CountDesync(DeviceState)
    /\ UNCHANGED <<accepted, request>>

Approves(r, s) == \E i \in DOMAIN s : s[i] = r

\* What the contract stores of a request handed in, which it compares with
\* nothing stored: one approval more, executed when they suffice.
Approved(given, approver) ==
    LET approvals == Append(given.approvals, approver)
    IN  [given EXCEPT !.approvals = approvals,
                      !.executed = @ \/ Len(approvals) >= given.quorum]

\* reset_device_nonce: the approver is named, not asked to sign, and the request
\* and the new nonce are separate arguments.
ResetDeviceNonce(approver, nonce, given) ==
    /\ approver \in Resetters
    /\ now <= given.expires
    /\ ~Approves(approver, given.approvals)
    /\ request' = Approved(given, approver)
    /\ IF Len(given.approvals) + 1 >= given.quorum
       THEN /\ nonceState' = [NewNonceState(nonce) EXCEPT !.since = now]
            /\ accepted' = <<>>
       ELSE UNCHANGED <<nonceState, accepted>>

-----------------------------------------------------------------------------
NonceInit == nonceState = NoNonceState /\ accepted = <<>> /\ request = NoRequest

\* Any request a caller may hand in.
RequestsGiven ==
    [approvals : ApprovalsGiven, quorum : QuorumsGiven, expires : 0 .. MaxTime,
     executed : BOOLEAN]

NonceStep ==
    \/ \E n \in 0 .. MaxNonce :
         InitializeNonce(n) \/ AcceptHeartbeat(n) \/ RejectHeartbeat(n)
    \/ \E r \in Resetters, n \in 0 .. MaxNonce, q \in RequestsGiven :
         ResetDeviceNonce(r, n, q)

NonceNext ==
    \/ NonceStep /\ UNCHANGED now
    \/ Tick /\ UNCHANGED nonceVars

NonceSpec == now = 0 /\ NonceInit /\ [][NonceNext]_<<now, nonceVars>>

-----------------------------------------------------------------------------
\* Types; the day of the desyncs counted has begun.
NonceTypeOK ==
    /\ now \in Nat
    /\ nonceState \in [expected : Nat \cup {Absent}, desyncs : Nat, since : 0 .. now,
                       suspicious : BOOLEAN]
    /\ accepted \in Seq(Nat)
    /\ request \in [approvals : Seq(Resetters), quorum : Nat, expires : Nat,
                    executed : BOOLEAN]

\* nonce_sync.rs:431 "Replay attacks are mathematically eliminated": between two
\* resets no nonce is accepted twice or after a later one, whatever heartbeats
\* arrive, from whomever and however often.
NoReplay ==
    /\ \A i, j \in DOMAIN accepted : i < j => accepted[i] < accepted[j]
    /\ \A i \in DOMAIN accepted : accepted[i] < nonceState.expected

\* A device is suspicious exactly while the desyncs of its day exceed the limit,
\* whichever of heartbeat, desync and reset came last.
SuspicionMatchesDesyncs == nonceState.suspicious <=> nonceState.desyncs > DesyncLimit

\* The nonces of a device are safe: what was accepted and what is suspected
\* agree with what is expected and counted, over repeated, reordered and forged
\* heartbeats and resets.
NonceInv == NonceTypeOK /\ NoReplay /\ SuspicionMatchesDesyncs

\* nonce_sync.rs:540 "Execution requires threshold approvals", of 537 "Default:
\* 3-of-5": a device is made to expect an earlier nonce only by a request that
\* enough resetters have approved.  The quorum, and every approval but the one
\* added, are what the caller says they are.
ResetNeedsQuorum ==
    [][nonceState'.expected < nonceState.expected =>
         Cardinality({r \in Resetters : Approves(r, request'.approvals)})
           >= RequiredApprovals]_<<now, nonceVars>>

=============================================================================
