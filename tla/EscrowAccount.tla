---------------------------- MODULE EscrowAccount ----------------------------
(***************************************************************************)
(* What any escrow of the utility contract promises for each account: it   *)
(* holds exactly what it received less what it released, and one step      *)
(* releases at most what the account held before that step.                *)
(***************************************************************************)
EXTENDS Integers

CONSTANT Accounts

VARIABLES held, received, released

escrowVars == <<held, received, released>>

Init ==
    /\ held = [a \in Accounts |-> 0]
    /\ received = [a \in Accounts |-> 0]
    /\ released = [a \in Accounts |-> 0]

\* Money only ever enters `received' and only ever leaves through `released'.
Transact(a) ==
    /\ received'[a] >= received[a]
    /\ released'[a] >= released[a]
    /\ released'[a] - released[a] <= held[a]
    /\ held'[a] = received'[a] - released'[a]

Next == \A a \in Accounts : Transact(a)

Spec == Init /\ [][Next]_escrowVars

=============================================================================
