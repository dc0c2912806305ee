------------------------------- MODULE Reserves -------------------------------
(***************************************************************************)
(* What the contract keeps beside the meters: providers' gas buffers, the  *)
(* tokens an emergency drain may take, and the routing of capital to       *)
(* yield, which moves no tokens yet and only says how much it would.       *)
(***************************************************************************)
EXTENDS LedgerClock, Sequences, Sums

CONSTANTS
    BufferOwners,     \* providers with gas buffers
    BufferTokens,     \* tokens paid into gas buffers
    NativeToken,      \* the one emergency_drain takes
    BufferAmounts,    \* amounts paid in, withdrawn and drained
    MinBuffer,        \* MIN_GAS_BUFFER
    MaxBuffer,        \* MAX_GAS_BUFFER
    InitialHoldings,  \* tokens held for others at the start, per token
    MaxHoldings,      \* bound: tokens held, per token
    MinDrain,         \* EMERGENCY_DRAIN_MIN_AMOUNT
    DrainCooldown,    \* EMERGENCY_DRAIN_COOLDOWN_SECONDS
    RouteAmounts,     \* amounts to route
    RouteThresholds,  \* thresholds the admin sets
    DefaultThreshold, \* DEFAULT_MIN_ROUTE_THRESHOLD (10_000_000)
    LargeRoute,       \* 1_000_000_000: the amount above which routing fails more often
    LedgerNumbers     \* ledger sequence numbers

ASSUME ReservesAssumption ==
    /\ BufferAmounts \subseteq Nat /\ MinBuffer \in Nat /\ MaxBuffer \in Nat
    /\ InitialHoldings \in Nat /\ MaxHoldings \in Nat
    /\ MinDrain \in Nat \ {0} /\ DrainCooldown \in Nat
    /\ RouteAmounts \subseteq Nat /\ RouteThresholds \subseteq Int /\ LargeRoute \in Nat
    /\ DefaultThreshold \in Nat
    /\ LedgerNumbers \subseteq Nat /\ NativeToken \in BufferTokens
    /\ IsFiniteSet(BufferOwners) /\ IsFiniteSet(BufferTokens)

VARIABLES
    buffers,    \* balance of the GasBuffer of each provider, or Absent
    holdings,   \* tokens the contract holds
    drains,     \* EmergencyDrainRecords, numbered from 1
    threshold,  \* MinRouteThreshold
    routed      \* the routing done last: asked for, threshold, routed (history)

reserveVars == <<buffers, holdings, drains, threshold, routed>>

Balance(p) == Larger(buffers[p], 0)

-----------------------------------------------------------------------------
\* initialize_gas_buffer: over an existing buffer too, whose balance is lost.
InitializeBuffer(p, t, amount) ==
    /\ amount \in MinBuffer .. MaxBuffer /\ holdings[t] + amount <= MaxHoldings
    /\ buffers' = [buffers EXCEPT ![p] = amount]
    /\ holdings' = [holdings EXCEPT ![t] = @ + amount]
    /\ UNCHANGED <<drains, threshold, routed>>

\* top_up_gas_buffer: of any size, into a buffer never initialised too.
TopUpBuffer(p, t, amount) ==
    /\ Balance(p) + amount <= MaxBuffer /\ holdings[t] + amount <= MaxHoldings
    /\ buffers' = [buffers EXCEPT ![p] = Balance(p) + amount]
    /\ holdings' = [holdings EXCEPT ![t] = @ + amount]
    /\ UNCHANGED <<drains, threshold, routed>>

\* withdraw_from_gas_buffer: in the token asked for, whichever was paid in.
WithdrawBuffer(p, t, amount) ==
    /\ Balance(p) - amount >= MinBuffer
    /\ amount <= holdings[t]
    /\ buffers' = [buffers EXCEPT ![p] = Balance(p) - amount]
    /\ holdings' = [holdings EXCEPT ![t] = @ - amount]
    /\ UNCHANGED <<drains, threshold, routed>>

-----------------------------------------------------------------------------
CooledDown ==
    drains # <<>> => now >= drains[Len(drains)].at + DrainCooldown

\* emergency_drain, by the admin: all but ten times the smallest drain.
EmergencyDrain(amount) ==
    /\ amount >= MinDrain /\ CooledDown
    /\ holdings[NativeToken] - amount >= 10 * MinDrain
    /\ holdings' = [holdings EXCEPT ![NativeToken] = @ - amount]
    /\ drains' = Append(drains, [at |-> now, amount |-> amount, left |-> holdings'[NativeToken]])
    /\ UNCHANGED <<buffers, threshold, routed>>

-----------------------------------------------------------------------------
\* A part of an amount, unless it is below the threshold or the ledger unlucky.
Fallback(part, sequence, luck) ==
    IF part >= threshold /\ sequence % 100 < luck THEN part ELSE 0

\* attempt_yield_routing, and the fallback of whichever way it fails.
Routable(amount, sequence) ==
    LET luck == IF amount > LargeRoute THEN 70 ELSE 90
    IN  IF sequence % 10 = 0 THEN Fallback(amount \div 2, sequence, 95)
        ELSE IF sequence % 100 < luck THEN amount
        ELSE Fallback(amount \div 4, sequence, 98)

\* route_to_yield
RouteToYield(amount, sequence) ==
    /\ amount >= threshold
    /\ routed' = [asked |-> amount, threshold |-> threshold, amount |-> Routable(amount, sequence)]
    /\ UNCHANGED <<buffers, holdings, drains, threshold>>

\* set_min_route_threshold, by the admin.
SetRouteThreshold(n) ==
    /\ n >= 0
    /\ threshold' = n
    /\ UNCHANGED <<buffers, holdings, drains, routed>>

-----------------------------------------------------------------------------
ReservesInit ==
    /\ buffers = [p \in BufferOwners |-> Absent]
    /\ holdings = [t \in BufferTokens |-> InitialHoldings]
    /\ drains = <<>>
    /\ threshold = DefaultThreshold
    /\ routed = [asked |-> 0, threshold |-> 0, amount |-> 0]

ReservesStep ==
    \/ \E p \in BufferOwners, t \in BufferTokens, n \in BufferAmounts :
         InitializeBuffer(p, t, n) \/ TopUpBuffer(p, t, n) \/ WithdrawBuffer(p, t, n)
    \/ \E n \in BufferAmounts : EmergencyDrain(n)
    \/ \E n \in RouteAmounts, q \in LedgerNumbers : RouteToYield(n, q)
    \/ \E n \in RouteThresholds : SetRouteThreshold(n)

ReservesNext ==
    \/ ReservesStep /\ UNCHANGED now
    \/ Tick /\ UNCHANGED reserveVars

ReservesSpec == now = 0 /\ ReservesInit /\ [][ReservesNext]_<<now, reserveVars>>

-----------------------------------------------------------------------------
\* What each buffer holds, what was gained in each token, and what each drain took.
Balances == [p \in BufferOwners |-> Balance(p)]
Gained == [t \in BufferTokens |-> holdings[t] - InitialHoldings]
Drained == [i \in DOMAIN drains |-> drains[i].amount]

\* What providers may ask back is covered by what the contract holds in all its
\* tokens and what was drained, over buffers made anew, topped up and emptied.
BuffersAreCovered ==
    SumOf(Balances, BufferOwners) <= SumOf(Gained, BufferTokens) + SumOf(Drained, DOMAIN drains)

\* Drains are apart by the cooldown, and each left the reserve.
DrainsKeepApart ==
    \A i \in DOMAIN drains :
      /\ drains[i].left >= 10 * MinDrain
      /\ i > 1 => drains[i].at >= drains[i - 1].at + DrainCooldown

\* Whatever fallback is taken, what is routed is nothing, or within what was
\* asked for and worth the gas.
RoutedIsWorthwhile ==
    routed.amount = 0 \/ routed.amount \in routed.threshold .. routed.asked

\* What the contract keeps for others is there, or was drained by the rules.
ReserveInv == BuffersAreCovered /\ DrainsKeepApart /\ RoutedIsWorthwhile

=============================================================================
