----------------------------- MODULE PriceOracle -----------------------------
(***************************************************************************)
(* The price_oracle contract: an admin names an updater, the updater sets  *)
(* the price, readers judge its age.  The keys of an earlier version, that *)
(* had no namespace prefix, are moved by a call anybody can make.  Modules *)
(* of the contracts that read the price EXTEND this one.                   *)
(***************************************************************************)
EXTENDS Integers

CONSTANTS
    Signers,        \* addresses that can be admin or updater
    Prices,         \* prices callers ask for, some of them refused
    DecimalPlaces,  \* decimals the oracle may be initialised with
    MaxPriceAge,    \* MAX_PRICE_AGE_SECONDS (300)
    Upgraded,       \* the contract replaces an earlier version that had a price
    MaxTime         \* bound: last ledger timestamp

ASSUME OracleAssumption ==
    /\ Prices \subseteq Int /\ DecimalPlaces \subseteq Nat
    /\ MaxPriceAge \in Nat /\ MaxTime \in Nat /\ Upgraded \in BOOLEAN

VARIABLES
    now,     \* ledger timestamp
    oracle,  \* the namespaced keys: admin, updater and price, or Unset
    legacy   \* the keys of the earlier version, or Unset

oracleVars == <<oracle, legacy>>

Unset == [updated |-> -1]
IsSet(keys) == keys.updated # -1

PositivePrices == {p \in Prices : p > 0}

\* A price and who may change it: the keys a version of the contract holds.
PriceData(admin, updater, price, decimals) ==
    [admin |-> admin, updater |-> updater, price |-> price,
     decimals |-> decimals, updated |-> now]

Age == IF now > oracle.updated THEN now - oracle.updated ELSE 0

\* get_fresh_price refuses an older one.
IsPriceFresh == IsSet(oracle) /\ Age <= MaxPriceAge

\* xlm_to_usd_cents and usd_cents_to_xlm
XlmToUsdCents(xlm) == xlm * oracle.price
UsdCentsToXlm(cents) == cents \div oracle.price

-----------------------------------------------------------------------------
\* initialize: by anybody, once; the price must be positive.
InitializeOracle(admin, updater, price, decimals) ==
    /\ ~IsSet(oracle)
    /\ price > 0
    /\ oracle' = PriceData(admin, updater, price, decimals)
    /\ UNCHANGED legacy

\* Mutant: the new price goes unchecked.
UpdatePriceUnchecked(price) ==
    /\ IsSet(oracle)
    /\ oracle' = [oracle EXCEPT !.price = price, !.updated = now]
    /\ UNCHANGED legacy

\* update_price: signed by the updater; the decimals stay.
UpdatePrice(price) ==
    /\ IsSet(oracle)
    /\ price > 0
    /\ oracle' = [oracle EXCEPT !.price = price, !.updated = now]
    /\ UNCHANGED legacy

\* set_admin and set_updater: signed by the admin.
SetOracleAdmin(a) ==
    /\ IsSet(oracle)
    /\ oracle' = [oracle EXCEPT !.admin = a]
    /\ UNCHANGED legacy

SetUpdater(a) ==
    /\ IsSet(oracle)
    /\ oracle' = [oracle EXCEPT !.updater = a]
    /\ UNCHANGED legacy

\* migrate_namespace: by anybody; what was left behind replaces what there is.
MigrateOracle ==
    /\ IsSet(legacy)
    /\ oracle' = legacy
    /\ legacy' = Unset

-----------------------------------------------------------------------------
OracleInit ==
    /\ now = 0
    /\ oracle = Unset
    /\ legacy \in IF Upgraded
                  THEN {PriceData(a, a, p, d) :
                          a \in Signers, p \in PositivePrices, d \in DecimalPlaces}
                  ELSE {Unset}

OracleNext ==
    \/ \E a \in Signers, u \in Signers, p \in Prices, d \in DecimalPlaces :
         InitializeOracle(a, u, p, d)
    \/ \E p \in Prices : UpdatePrice(p)
    \/ \E a \in Signers : SetOracleAdmin(a) \/ SetUpdater(a)
    \/ MigrateOracle

\* A price that is set is positive, on every path that sets one, and not from
\* the future; so readers may divide by it.
OracleTypeOK ==
    /\ now \in Nat
    /\ {oracle, legacy} \subseteq
         {Unset} \cup [admin : Signers, updater : Signers, price : PositivePrices,
                       decimals : DecimalPlaces, updated : 0 .. now]

=============================================================================
