--------------------------- MODULE ConservationGrant ---------------------------
(***************************************************************************)
(* Conservation goals in the utility contract and the listener contract    *)
(* that pays a grant when one is reached.  Reaching a goal calls the       *)
(* listener, which calls back, through SecureCall, to verify the goal, and *)
(* pays out of the treasury: one transaction over two contracts, which     *)
(* leaves nothing behind when either panics.  A host that refuses calls    *)
(* back into a contract that is waiting makes the verification fail.  The  *)
(* listener's entry is public and asks for no signature: anyone may call   *)
(* it with an event of their own.  Grants are in one token, and the        *)
(* treasury is the listener's own account, which authorises its transfers. *)
(***************************************************************************)
EXTENDS SecureCall, Sums

CONSTANTS
    MaxCount,        \* bound: meters and goals registered
    Targets,         \* target_water_savings
    Deadlines,       \* deadline of a goal
    SavingsReported, \* additional savings reported at once
    GrantAmounts,    \* grant_amount of a goal
    EventAmounts,    \* grant_amount of an event an outsider makes up
    Utility,         \* the utility contract, as the listener's callee
    GetGoal,         \* get_conservation_goal
    VerificationGas, \* the budget the listener asks for
    FirstMaximum,    \* max_grant_per_month to begin with (100000000)
    MonthlyMaxima,   \* max_grant_per_month asked for
    MonthLength,     \* length of a month of get_year_month
    Endowment        \* what the treasury starts with

ASSUME GrantAssumption ==
    /\ MaxCount \in Nat /\ Endowment \in Nat /\ MonthLength \in Nat \ {0}
    /\ Targets \subseteq Int /\ SavingsReported \subseteq Int /\ Deadlines \subseteq Nat
    /\ GrantAmounts \subseteq Int /\ EventAmounts \subseteq Int
    /\ Utility \in Callees /\ GetGoal \in Functions /\ VerificationGas \in Nat
    /\ MonthlyMaxima \subseteq Int /\ FirstMaximum \in Nat

VARIABLES
    reentry,        \* whether the host lets the verification call back
    count,          \* Count, shared by meters and goals
    goals,          \* ConservationGoal, by number
    matched,        \* goals with a GrantStreamMatch
    listener,       \* GrantConfig: enabled, max and total_granted
    grants,         \* amount of the processed GrantMatch of each goal, or Absent
    monthly,        \* MonthlyGrantLimit of each goal: month and amount
    treasury,       \* tokens of the treasury
    received,       \* grants the provider received (ProviderTotalGrants)
    reachedMatched  \* goals reached while they had a listener (history)

grantVars == <<callConfigs, reentry, count, goals, matched, listener, grants, monthly,
               treasury, received, reachedMatched>>

utilityVars == <<count, goals, matched, reachedMatched>>
listenerVars == <<listener, grants, monthly, treasury, received>>

GoalIds == 1 .. MaxCount
NoGoal == [target |-> 0, current |-> 0, deadline |-> 0, active |-> FALSE,
           amount |-> 0, achieved |-> Absent]
IsGoal(g) == goals[g] # NoGoal

Month(t) == t \div MonthLength

-----------------------------------------------------------------------------
(* The utility contract *)

\* create_conservation_goal: the next number of Count, any deadline.
CreateGoal(target, deadline, amount) ==
    /\ target > 0 /\ amount > 0
    /\ count < MaxCount
    /\ count' = count + 1
    /\ goals' = [goals EXCEPT ![count + 1] =
         [target |-> target, current |-> 0, deadline |-> deadline, active |-> TRUE,
          amount |-> amount, achieved |-> Absent]]
    /\ UNCHANGED <<callConfigs, reentry, matched, reachedMatched, listenerVars>>

\* register_meter takes its number from the same count.
CountMeter ==
    /\ count < MaxCount
    /\ count' = count + 1
    /\ UNCHANGED <<callConfigs, reentry, goals, matched, reachedMatched, listenerVars>>

\* configure_grant_stream_match: also for a goal reached before.
ConfigureMatch(g) ==
    /\ IsGoal(g)
    /\ matched' = matched \cup {g}
    /\ UNCHANGED <<callConfigs, reentry, count, goals, reachedMatched, listenerVars>>

\* What update_water_savings asks; past the deadline it panics, and the goal
\* stays active.
SavingsAdmitted(g, savings) ==
    /\ savings > 0
    /\ goals[g].active
    /\ now <= goals[g].deadline

\* update_water_savings, short of the target.
SaveWater(g, savings) ==
    /\ SavingsAdmitted(g, savings)
    /\ goals[g].current + savings < goals[g].target
    /\ goals' = [goals EXCEPT ![g].current = @ + savings]
    /\ UNCHANGED <<callConfigs, reentry, count, matched, reachedMatched, listenerVars>>

Achieve(g, savings) ==
    goals' = [goals EXCEPT ![g].current = @ + savings, ![g].active = FALSE,
                           ![g].achieved = now]

\* update_water_savings, at the target, without a listener: nothing is paid,
\* then or later (check_and_trigger_grant asks for an active goal).
ReachAlone(g, savings) ==
    /\ SavingsAdmitted(g, savings)
    /\ goals[g].current + savings >= goals[g].target
    /\ g \notin matched
    /\ Achieve(g, savings)
    /\ UNCHANGED <<callConfigs, reentry, count, matched, reachedMatched, listenerVars>>

-----------------------------------------------------------------------------
(* The listener *)

\* What was granted for a goal in this month.
GrantedThisMonth(g) == IF monthly[g].month = Month(now) THEN monthly[g].amount ELSE 0

\* Goals a grant was paid for.
Processed == {g \in GoalIds : grants[g] # Absent}

\* The call back to the contract the event names: the utility contract answers
\* with the stored goal, any other registered contract with what it likes.
Verified(contract, g, savings) ==
    /\ CallAllowed(contract, GetGoal, VerificationGas)
    /\ contract = Utility => goals[g].active /\ goals[g].target = savings

\* on_goal_reached up to its records.
GrantAdmitted(contract, g, savings, amount) ==
    /\ listener.enabled
    /\ g \notin Processed
    /\ Verified(contract, g, savings)
    /\ GrantedThisMonth(g) + amount <= listener.max
    /\ amount \in 0 .. treasury

\* The records of on_goal_reached and the transfer.
PayGrant(g, amount) ==
    /\ grants' = [grants EXCEPT ![g] = amount]
    /\ monthly' = [monthly EXCEPT ![g] = [month |-> Month(now),
                                          amount |-> GrantedThisMonth(g) + amount]]
    /\ listener' = [listener EXCEPT !.granted = @ + amount]
    /\ treasury' = treasury - amount
    /\ received' = received + amount

\* on_goal_reached, called directly: contract, savings and amount are the
\* caller's, and no goal need be reached.
OnGoalReached(contract, g, savings, amount) ==
    /\ GrantAdmitted(contract, g, savings, amount)
    /\ PayGrant(g, amount)
    /\ UNCHANGED <<callConfigs, reentry, utilityVars>>

\* Mutant: a listener that refuses is passed over.
ReachAnyway(g, savings) ==
    /\ SavingsAdmitted(g, savings)
    /\ goals[g].current + savings >= goals[g].target
    /\ g \in matched
    /\ IF reentry /\ GrantAdmitted(Utility, g, goals[g].current + savings, goals[g].amount)
       THEN PayGrant(g, goals[g].amount)
       ELSE UNCHANGED listenerVars
    /\ Achieve(g, savings)
    /\ reachedMatched' = reachedMatched \cup {g}
    /\ UNCHANGED <<callConfigs, reentry, count, matched>>

\* update_water_savings, at the target, with a listener: both or neither.  The
\* goal is stored before the call as it was, still active; savings beyond the
\* target do not match it, and a goal paid for before cannot be reached.
ReachMatched(g, savings) ==
    /\ SavingsAdmitted(g, savings)
    /\ goals[g].current + savings >= goals[g].target
    /\ g \in matched
    /\ reentry /\ GrantAdmitted(Utility, g, goals[g].current + savings, goals[g].amount)
    /\ PayGrant(g, goals[g].amount)
    /\ Achieve(g, savings)
    /\ reachedMatched' = reachedMatched \cup {g}
    /\ UNCHANGED <<callConfigs, reentry, count, matched>>

\* update_grant_config, by its admin.
UpdateListener(enabled, max) ==
    /\ max > 0
    /\ listener' = [listener EXCEPT !.enabled = enabled, !.max = max]
    /\ UNCHANGED <<callConfigs, reentry, utilityVars, grants, monthly, treasury, received>>

\* The listener's register of callees.
ChangeRegister ==
    /\ \E c \in Callees, fs \in SUBSET Functions, gas \in GasBudgets :
         \/ RegisterContract(c, fs, gas)
         \/ UnregisterContract(c)
         \/ \E e \in BOOLEAN : UpdateContractConfig(c, fs, gas, e)
    /\ UNCHANGED <<reentry, utilityVars, listenerVars>>

-----------------------------------------------------------------------------
GrantInit ==
    /\ now = 0
    /\ SecureCallInit
    /\ reentry \in BOOLEAN
    /\ count = 0
    /\ goals = [g \in GoalIds |-> NoGoal]
    /\ matched = {} /\ reachedMatched = {}
    /\ grants = [g \in GoalIds |-> Absent]
    /\ listener = [enabled |-> TRUE, max |-> FirstMaximum, granted |-> 0]
    /\ monthly = [g \in GoalIds |-> [month |-> 0, amount |-> 0]]
    /\ treasury = Endowment /\ received = 0

GrantStep ==
    \/ \E t \in Targets, d \in Deadlines, a \in GrantAmounts : CreateGoal(t, d, a)
    \/ CountMeter
    \/ \E g \in GoalIds : ConfigureMatch(g)
    \/ \E g \in GoalIds, s \in SavingsReported :
         SaveWater(g, s) \/ ReachAlone(g, s) \/ ReachMatched(g, s)
    \/ \E c \in Callees, g \in GoalIds, s \in Targets, a \in EventAmounts :
         OnGoalReached(c, g, s, a)
    \/ \E e \in BOOLEAN, m \in MonthlyMaxima : UpdateListener(e, m)
    \/ ChangeRegister

GrantNext ==
    \/ GrantStep /\ UNCHANGED now
    \/ Tick /\ UNCHANGED grantVars

GrantSpec == GrantInit /\ [][GrantNext]_<<now, grantVars>>

-----------------------------------------------------------------------------
GrantTypeOK ==
    /\ count \in 0 .. MaxCount
    /\ goals \in [GoalIds -> [target : Nat, current : Nat, deadline : Nat,
                              active : BOOLEAN, amount : Nat, achieved : {Absent} \cup Nat]]
    /\ {g \in GoalIds : IsGoal(g)} \subseteq 1 .. count
    /\ listener \in [enabled : BOOLEAN, max : Nat, granted : Nat]
    /\ grants \in [GoalIds -> {Absent} \cup Nat]
    /\ treasury \in Nat /\ received \in Nat

\* A goal reached with a listener has been paid its own amount, once, whoever
\* else called the listener and with what: a call that failed in either contract
\* left no trace in the other, and a goal an outsider was paid for is not reached.
GrantsMatchGoals ==
    /\ \A g \in reachedMatched :
         goals[g].achieved # Absent /\ grants[g] = goals[g].amount
    /\ \A g \in GoalIds : IsGoal(g) => (goals[g].active <=> goals[g].achieved = Absent)

\* Every record of the listener tells the same sum: its total, the providers',
\* what left the treasury, and the amounts of its grants.
GrantsAddUp ==
    /\ listener.granted = received
    /\ received = SumOf(grants, Processed)
    /\ treasury + received = Endowment

\* Goals reached have their grants, in both contracts and in the tokens moved.
GrantInv == GrantTypeOK /\ GrantsMatchGoals /\ GrantsAddUp

\* What the listener says of its entry: a grant is for a goal that was reached.
\* It is not so: the entry can be called directly.
GrantsAreEarned == Processed \subseteq reachedMatched

=============================================================================
