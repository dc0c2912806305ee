---------------------------- MODULE ResourceToken ----------------------------
(***************************************************************************)
(* The resource-token contract: a capped supply minted and burnt by the    *)
(* admin, delegations to operators that expire, and the migration of the   *)
(* storage of an earlier version of the contract, whose keys had no        *)
(* namespace prefix.  Each call is one atomic step; a call that panics is  *)
(* no step.  `admin.require_auth()' is a call the admin signed.            *)
(***************************************************************************)
EXTENDS LedgerClock, Sums

CONSTANTS
    Accounts,     \* addresses: holders, operators and admins
    NoAccount,    \* the absent address
    MaxSupply,    \* MAX_SUPPLY (10^15)
    Amounts,      \* amounts minted or burnt
    Upgraded,     \* the contract may replace an earlier version that held tokens
    Orderly,      \* after an upgrade every key is migrated before other calls
    MaxOperatorNonce      \* bound: delegation calls per operator

ASSUME TokenAssumption ==
    /\ NoAccount \notin Accounts /\ IsFiniteSet(Accounts)
    /\ MaxSupply \in Nat /\ Amounts \subseteq Nat \ {0}
    /\ MaxOperatorNonce \in Nat
    /\ Upgraded \in BOOLEAN /\ Orderly \in BOOLEAN

VARIABLES
    store,  \* the namespaced keys, what the contract reads and writes
    legacy  \* the keys of the earlier version, read by the migration only

tokenVars == <<store, legacy>>

\* An absent number reads as 0 (unwrap_or(0)); no delegation expires at 0,
\* since authorize_operator wants an expiration after the current time.
Empty ==
    [admin |-> NoAccount, supply |-> 0,
     balance |-> [a \in Accounts |-> 0],
     nonce |-> [a \in Accounts |-> 0],
     expires |-> [a \in Accounts |-> 0]]

Total(f) == SumOf(f, Accounts)

\* Calls other than the migration, on an orderly upgrade, wait for it.
MayCall == Orderly => legacy = Empty

\* authorize_admin and authorize_with_chain: there is an admin, and it signed.
AuthorizeAdmin == store.admin # NoAccount

-----------------------------------------------------------------------------
\* set_admin: the current admin signs; without one, anybody may.
SetAdmin(a) ==
    /\ MayCall
    /\ store' = [store EXCEPT !.admin = a]
    /\ UNCHANGED legacy

\* initialize is set_admin, once, signed by the admin to be.
Initialize(a) ==
    /\ store.admin = NoAccount
    /\ SetAdmin(a)

\* Mutant: the cap is checked against the supply before the mint.
MintLate(to, amount) ==
    /\ MayCall
    /\ AuthorizeAdmin
    /\ store.supply <= MaxSupply
    /\ store' = [store EXCEPT !.balance[to] = @ + amount, !.supply = @ + amount]
    /\ UNCHANGED legacy

\* mint: the cap is checked before anything is written.
Mint(to, amount) ==
    /\ MayCall
    /\ AuthorizeAdmin
    /\ store.supply + amount <= MaxSupply
    /\ store' = [store EXCEPT !.balance[to] = @ + amount, !.supply = @ + amount]
    /\ UNCHANGED legacy

\* burn: the supply is signed and not checked against zero.
Burn(from, amount) ==
    /\ MayCall
    /\ AuthorizeAdmin
    /\ store.balance[from] >= amount
    /\ store' = [store EXCEPT !.balance[from] = @ - amount, !.supply = @ - amount]
    /\ UNCHANGED legacy

\* authorize_operator: a later call replaces the expiration of an earlier one.
AuthorizeOperator(o, expiration) ==
    /\ MayCall
    /\ AuthorizeAdmin
    /\ expiration > now
    /\ store.nonce[o] < MaxOperatorNonce
    /\ store' = [store EXCEPT !.nonce[o] = @ + 1, !.expires[o] = expiration]
    /\ UNCHANGED legacy

\* Mutant: the nonce stays.
RevokeQuietly(o) ==
    /\ MayCall
    /\ AuthorizeAdmin
    /\ store.nonce[o] < MaxOperatorNonce
    /\ store' = [store EXCEPT !.expires[o] = 0]
    /\ UNCHANGED legacy

\* revoke_operator: the delegation goes, if there was one; the nonce always moves.
RevokeOperator(o) ==
    /\ MayCall
    /\ AuthorizeAdmin
    /\ store.nonce[o] < MaxOperatorNonce
    /\ store' = [store EXCEPT !.nonce[o] = @ + 1, !.expires[o] = 0]
    /\ UNCHANGED legacy

\* What migrate_namespace makes of one map: listed legacy entries overwrite.
Overlay(new, old, listed) ==
    [a \in Accounts |-> IF a \in listed /\ old[a] # 0 THEN old[a] ELSE new[a]]

Forget(old, listed) == [a \in Accounts |-> IF a \in listed THEN 0 ELSE old[a]]

\* migrate_namespace: anybody calls it, with any list of addresses.
MigrateNamespace(listed) ==
    /\ store' =
         [admin |-> IF legacy.admin # NoAccount THEN legacy.admin ELSE store.admin,
          supply |-> IF legacy.supply # 0 THEN legacy.supply ELSE store.supply,
          balance |-> Overlay(store.balance, legacy.balance, listed),
          nonce |-> Overlay(store.nonce, legacy.nonce, listed),
          expires |-> Overlay(store.expires, legacy.expires, listed)]
    /\ legacy' =
         [admin |-> NoAccount, supply |-> 0,
          balance |-> Forget(legacy.balance, listed),
          nonce |-> Forget(legacy.nonce, listed),
          expires |-> Forget(legacy.expires, listed)]

-----------------------------------------------------------------------------
\* What an earlier version can have left behind: a backed supply under an
\* admin, and delegations each of which was numbered.
LegacyStates ==
    {l \in [admin : Accounts, supply : 0 .. MaxSupply,
            balance : [Accounts -> 0 .. MaxSupply], nonce : [Accounts -> 0 .. 1],
            expires : [Accounts -> 0 .. MaxTime]] :
        /\ l.supply = Total(l.balance)
        /\ \A a \in Accounts : l.expires[a] # 0 => l.nonce[a] # 0}

TokenInit ==
    /\ now = 0
    /\ store = Empty
    /\ legacy \in {Empty} \cup (IF Upgraded THEN LegacyStates ELSE {})

TokenStep ==
    \/ \E a \in Accounts : SetAdmin(a) \/ Initialize(a)
    \/ \E a \in Accounts, n \in Amounts : Mint(a, n) \/ Burn(a, n)
    \/ \E o \in Accounts, e \in 1 .. MaxTime : AuthorizeOperator(o, e)
    \/ \E o \in Accounts : RevokeOperator(o)
    \/ \E listed \in SUBSET Accounts : MigrateNamespace(listed)

TokenNext ==
    \/ TokenStep /\ UNCHANGED now
    \/ Tick /\ UNCHANGED tokenVars

TokenSpec == TokenInit /\ [][TokenNext]_<<now, tokenVars>>

-----------------------------------------------------------------------------
Entries ==
    [admin : Accounts \cup {NoAccount}, supply : Int, balance : [Accounts -> Nat],
     nonce : [Accounts -> Nat], expires : [Accounts -> Nat]]

\* No holder's balance is ever negative: burn checks before it subtracts.
TokenTypeOK == now \in 0 .. MaxTime /\ store \in Entries /\ legacy \in Entries

\* storage.rs:16 "total_supply == sum of balances <= MAX_SUPPLY", counting the
\* tokens whose keys still wait for migrate_namespace.
SupplyIsBacked ==
    /\ store.supply + legacy.supply = Total(store.balance) + Total(legacy.balance)
    /\ store.supply + legacy.supply <= MaxSupply

\* IMPLEMENTATION_SUMMARY.md:62: every delegation change increments the nonce.
\* No delegation appears, moves or goes under a nonce used before.
DelegationsAreNumbered ==
    [][\A o \in Accounts :
         store'.expires[o] # store.expires[o] => store'.nonce[o] > store.nonce[o]]_tokenVars

=============================================================================
