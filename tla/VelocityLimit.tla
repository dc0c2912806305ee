---------------------------- MODULE VelocityLimit ----------------------------
(***************************************************************************)
(* The velocity limits on withdrawals: a daily cap per meter and one for   *)
(* all, overrides of either by the admin, counters kept per calendar day   *)
(* in temporary entries, whose life nothing extends: one may be gone       *)
(* before its day is over.  check_velocity_limits is called here by a      *)
(* withdrawal; the contract imports it and calls it nowhere.               *)
(***************************************************************************)
EXTENDS LedgerClock, FiniteSetsExt

CONSTANTS
    VelocityMeters,  \* meters, numbers from 1: scope 0 is the global override
    Withdrawals,     \* amounts withdrawn
    Limits,          \* limits the admin asks for
    OverrideEnds,    \* times at which overrides end, 0 for never
    DefaultLimit,    \* DEFAULT_PER_STREAM_LIMIT
    DefaultGlobal,   \* DEFAULT_GLOBAL_LIMIT
    DayLength,       \* DAY_IN_SECONDS
    MaxForgotten     \* bound: what expired counters had counted in a day

ASSUME VelocityAssumption ==
    /\ VelocityMeters \subseteq Nat \ {0} /\ Withdrawals \subseteq Nat /\ Limits \subseteq Int
    /\ DefaultLimit \in Nat /\ DefaultGlobal \in Nat /\ DayLength \in Nat \ {0}
    /\ OverrideEnds \subseteq Nat /\ MaxForgotten \in Nat

VARIABLES
    limits,     \* VelocityConfig
    overrides,  \* VelocityOverride of each scope: the time it ends, or Absent
    outflow,    \* DailyOutflow of each meter and, at 0, GlobalOutflow
    paid,       \* withdrawn today under a limit, per scope (history)
    highest,    \* the highest limit in force today, per scope (history)
    forgotten   \* what counters of today that expired had counted (history)

velocityVars == <<limits, overrides, outflow, paid, highest, forgotten>>

Scopes == {0} \cup VelocityMeters
Forever == 0

\* A counter that is absent: it reads as nothing withdrawn today.
NoOutflow == [day |-> 0, total |-> 0]

DayOf(t) == t \div DayLength

LimitOf(scope) == IF scope = 0 THEN limits.global ELSE limits.perStream

\* is_override_active: the second it ends in still counts.
OverrideActive(scope) ==
    overrides[scope] # Absent /\ (overrides[scope] = Forever \/ now <= overrides[scope])

Limited(scope) == limits.enabled /\ ~OverrideActive(scope)

\* What is counted for a scope today: a counter of another day starts again.
CountedToday(scope) == IF outflow[scope].day = DayOf(now) THEN outflow[scope].total ELSE 0

\* Mutant: the amount asked for is not counted in.
FitsBefore(scope, amount) == Limited(scope) => CountedToday(scope) <= LimitOf(scope)

Fits(scope, amount) == Limited(scope) => CountedToday(scope) + amount <= LimitOf(scope)

Count(scope, amount) ==
    [day |-> DayOf(now), total |-> CountedToday(scope) + amount]

-----------------------------------------------------------------------------
\* check_velocity_limits allows the withdrawal.
Withdraw(m, amount) ==
    /\ Fits(m, amount) /\ Fits(0, amount)
    /\ outflow' = [s \in Scopes |-> IF s \in {0, m} /\ Limited(s)
                                    THEN Count(s, amount) ELSE outflow[s]]
    /\ paid' = [s \in Scopes |-> IF s \in {0, m} /\ Limited(s)
                                 THEN paid[s] + amount ELSE paid[s]]
    /\ UNCHANGED <<limits, overrides, highest, forgotten>>

\* The global limit refuses what the meter's allowed: a caller that carries on
\* keeps the meter's counter, one that panics keeps nothing.
RefuseGlobally(m, amount) ==
    /\ Fits(m, amount) /\ ~Fits(0, amount)
    /\ Limited(m)
    /\ outflow' = [outflow EXCEPT ![m] = Count(m, amount)]
    /\ UNCHANGED <<limits, overrides, paid, highest, forgotten>>

\* set_velocity_limit_config, by the admin.
SetLimits(global, perStream, enabled) ==
    /\ global > 0 /\ perStream > 0 /\ perStream <= global
    /\ limits' = [global |-> global, perStream |-> perStream, enabled |-> enabled]
    /\ highest' = [s \in Scopes |-> Larger(highest[s], IF s = 0 THEN global ELSE perStream)]
    /\ UNCHANGED <<overrides, outflow, paid, forgotten>>

\* apply_velocity_override, by the admin.
ApplyOverride(scope, expires) ==
    /\ expires = Forever \/ expires > now
    /\ overrides' = [overrides EXCEPT ![scope] = expires]
    /\ UNCHANGED <<limits, outflow, paid, highest, forgotten>>

\* revoke_velocity_override, by the admin.
RevokeOverride(scope) ==
    /\ overrides[scope] # Absent
    /\ overrides' = [overrides EXCEPT ![scope] = Absent]
    /\ UNCHANGED <<limits, outflow, paid, highest, forgotten>>

\* DailyOutflow or GlobalOutflow is gone, within its day or later.
CounterExpires(scope) ==
    /\ outflow[scope] # NoOutflow
    /\ forgotten[scope] + CountedToday(scope) <= MaxForgotten
    /\ outflow' = [outflow EXCEPT ![scope] = NoOutflow]
    /\ forgotten' = [forgotten EXCEPT ![scope] = @ + CountedToday(scope)]
    /\ UNCHANGED <<limits, overrides, paid, highest>>

\* The clock moves; a new calendar day starts the history again.
VelocityTick ==
    /\ Tick
    /\ IF DayOf(now + 1) = DayOf(now)
       THEN UNCHANGED <<paid, highest, forgotten>>
       ELSE /\ paid' = [s \in Scopes |-> 0] /\ forgotten' = [s \in Scopes |-> 0]
            /\ highest' = [s \in Scopes |-> LimitOf(s)]
    /\ UNCHANGED <<limits, overrides, outflow>>

-----------------------------------------------------------------------------
VelocityInit ==
    /\ limits = [global |-> DefaultGlobal, perStream |-> DefaultLimit, enabled |-> TRUE]
    /\ overrides = [s \in Scopes |-> Absent]
    /\ outflow = [s \in Scopes |-> NoOutflow]
    /\ paid = [s \in Scopes |-> 0] /\ forgotten = [s \in Scopes |-> 0]
    /\ highest = [s \in Scopes |-> LimitOf(s)]

VelocityStep ==
    \/ \E m \in VelocityMeters, n \in Withdrawals : Withdraw(m, n) \/ RefuseGlobally(m, n)
    \/ \E g \in Limits, p \in Limits, e \in BOOLEAN : SetLimits(g, p, e)
    \/ \E s \in Scopes, e \in OverrideEnds : ApplyOverride(s, e)
    \/ \E s \in Scopes : RevokeOverride(s) \/ CounterExpires(s)

VelocityNext ==
    \/ VelocityStep /\ UNCHANGED now
    \/ VelocityTick

VelocitySpec == now = 0 /\ VelocityInit /\ [][VelocityNext]_<<now, velocityVars>>

-----------------------------------------------------------------------------
\* Types; no counter is one of a day to come.
VelocityTypeOK ==
    /\ now \in Nat
    /\ limits \in [global : Nat, perStream : Nat, enabled : BOOLEAN]
    /\ overrides \in [Scopes -> {Absent} \cup Nat]
    /\ outflow \in [Scopes -> [day : 0 .. DayOf(now), total : Nat]]
    /\ paid \in [Scopes -> Nat] /\ highest \in [Scopes -> Nat]
    /\ forgotten \in [Scopes -> Nat]

\* What a meter, or all together, withdraw in a calendar day under a limit
\* exceeds the highest limit of that day by no more than counters that expired
\* had counted, over changes of the limit, overrides that come and go, refusals
\* and the turn of the day.
DailyCapHolds == \A s \in Scopes : paid[s] <= highest[s] + forgotten[s]

\* No withdrawal goes uncounted: the counters of today, with what was lost of
\* them, show at least what was paid under a limit, for a meter as for all.
OutflowIsCounted == \A s \in Scopes : paid[s] <= CountedToday(s) + forgotten[s]

\* The daily caps are kept but for counters lost, and nothing else is missed.
VelocityInv == VelocityTypeOK /\ DailyCapHolds /\ OutflowIsCounted

=============================================================================
