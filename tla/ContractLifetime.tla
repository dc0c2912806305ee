---------------------------- MODULE ContractLifetime ----------------------------
(***************************************************************************)
(* How long the utility contract's instance lives on the ledger, and who   *)
(* extends it: readings and claims at some ledgers, and anybody at will,   *)
(* out of a meter's maintenance fund; and the TTL monitor, a process that  *)
(* checks at an interval, over a network that loses answers and            *)
(* transactions.  The monitor's timer waits for no check: checks overlap,  *)
(* and those that loaded the same sequence number of the service account   *)
(* compete for it.                                                         *)
(***************************************************************************)
EXTENDS Integers

CONSTANTS
    Checks,         \* checks that overlap
    Threshold,      \* remaining ledgers below which the monitor extends (1000)
    ExtendTo,       \* ledgers the monitor extends to (10000)
    Lifetime,       \* LEDGER_LIFETIME_EXTENSION (10000)
    AutoThreshold,  \* AUTO_EXTEND_LEDGER_THRESHOLD (100)
    Allocations,    \* maintenance allocated by a reading or claim
    ExtensionCost,  \* estimated_cost (1 XLM)
    MaxFund         \* bound: what the fund holds

ASSUME LifetimeAssumption ==
    /\ Threshold \in Nat \ {0} /\ ExtendTo \in Nat /\ ExtendTo >= Threshold
    /\ Lifetime \in Nat /\ AutoThreshold \in Nat \ {0}
    /\ Allocations \subseteq Nat /\ ExtensionCost \in Nat \ {0} /\ MaxFund \in Nat

VARIABLES
    remaining,  \* ledgers until the instance is archived; 0 once it is
    phase,      \* the ledger's number modulo AutoThreshold
    fund,       \* MaintenanceFund of the meter
    monitor,    \* "idle", "first", "running" (isRunning, with its timer) or "stopped"
    checkOnly,  \* --check-only
    step,       \* where each check is
    lag,        \* ledgers closed since a check read the latest, up to Threshold
    loaded,     \* checks that hold the account's present sequence number
    txPending,  \* whether a transaction waits in the network
    stopAsked   \* whether stop was called (history)

vars == <<remaining, phase, fund, monitor, checkOnly, step, lag, loaded, txPending,
          stopAsked>>

monitorVars == <<monitor, checkOnly, step, lag, loaded, txPending, stopAsked>>

Larger(a, b) == IF a > b THEN a ELSE b

Low == remaining > 0 /\ remaining < Threshold

-----------------------------------------------------------------------------
(* The ledger and the contract *)

CloseLedger ==
    /\ remaining' = IF remaining > 0 THEN remaining - 1 ELSE 0
    /\ phase' = (phase + 1) % AutoThreshold
    /\ lag' = [c \in Checks |-> IF lag[c] < Threshold THEN lag[c] + 1 ELSE lag[c]]
    /\ UNCHANGED <<fund, monitor, checkOnly, step, loaded, txPending, stopAsked>>

\* allocate_to_maintenance_fund and, at the end of a reading or claim,
\* auto_extend_ttl_if_needed.
MeterCall(amount) ==
    LET funded == fund + amount IN
    /\ remaining > 0
    /\ funded <= MaxFund
    /\ IF phase = 0 /\ funded >= ExtensionCost
       THEN /\ fund' = funded - ExtensionCost
            /\ remaining' = Larger(remaining, Lifetime)
       ELSE fund' = funded /\ UNCHANGED remaining
    /\ UNCHANGED <<phase, monitorVars>>

\* manual_extend_ttl
ManualExtend ==
    /\ remaining > 0
    /\ fund >= ExtensionCost
    /\ fund' = fund - ExtensionCost
    /\ remaining' = Larger(remaining, Lifetime)
    /\ UNCHANGED <<phase, monitorVars>>

-----------------------------------------------------------------------------
(* The monitor *)

Goto(c, place) == step' = [step EXCEPT ![c] = place]

\* The first check returned: without --check-only the timer is set.
AfterCheck(c) ==
    monitor' = IF monitor = "first" /\ ~checkOnly THEN "running" ELSE monitor

EndCheck(c) == Goto(c, "idle") /\ AfterCheck(c)

\* start: the first check is awaited.
StartMonitor(c) ==
    /\ monitor = "idle"
    /\ monitor' = "first"
    /\ Goto(c, "ledger")
    /\ UNCHANGED <<remaining, phase, fund, checkOnly, lag, loaded, txPending, stopAsked>>

\* The timer's callback, whatever became of earlier checks.
TimerFires(c) ==
    /\ monitor = "running" /\ step[c] = "idle"
    /\ Goto(c, "ledger")
    /\ UNCHANGED <<remaining, phase, fund, monitor, checkOnly, lag, loaded, txPending,
                   stopAsked>>

\* getLatestLedger
ReadLedger(c) ==
    /\ step[c] = "ledger"
    /\ Goto(c, "entry")
    /\ lag' = [lag EXCEPT ![c] = 0]
    /\ UNCHANGED <<remaining, phase, fund, monitor, checkOnly, loaded, txPending,
                   stopAsked>>

\* getLedgerEntries: what remains is counted from the ledger read before.
ReadEntry(c) ==
    /\ step[c] = "entry"
    /\ IF remaining > 0 /\ remaining + lag[c] < Threshold /\ ~checkOnly
       THEN Goto(c, "load") /\ UNCHANGED monitor
       ELSE EndCheck(c)
    /\ UNCHANGED <<remaining, phase, fund, checkOnly, lag, loaded, txPending, stopAsked>>

\* bumpTTL: loadAccount
LoadAccount(c) ==
    /\ step[c] = "load"
    /\ Goto(c, "send")
    /\ loaded' = loaded \cup {c}
    /\ UNCHANGED <<remaining, phase, fund, monitor, checkOnly, lag, txPending, stopAsked>>

\* bumpTTL: sendTransaction; a used sequence number, or one that waits in the
\* network already, is an error and not pending.
SendTransaction(c) ==
    /\ step[c] = "send"
    /\ IF c \in loaded /\ ~txPending
       THEN /\ txPending' = TRUE /\ Goto(c, "poll") /\ UNCHANGED monitor
       ELSE EndCheck(c) /\ UNCHANGED txPending
    /\ loaded' = loaded \ {c}
    /\ UNCHANGED <<remaining, phase, fund, checkOnly, lag, stopAsked>>

\* bumpTTL: a status other than pending, which is only logged, or the last of
\* ten attempts.
FinishPolls(c) ==
    /\ step[c] = "poll"
    /\ EndCheck(c)
    /\ UNCHANGED <<remaining, phase, fund, checkOnly, lag, loaded, txPending, stopAsked>>

\* Mutant: an error is not caught, and ends the monitor.
FailUncaught(c) ==
    /\ step[c] \in {"ledger", "entry", "load", "send", "poll"}
    /\ Goto(c, "idle")
    /\ monitor' = "stopped"
    /\ loaded' = loaded \ {c}
    /\ UNCHANGED <<remaining, phase, fund, checkOnly, lag, txPending, stopAsked>>

\* A request fails: bumpTTL rethrows and checkAndBump catches.  Of a submission
\* the answer may be lost, and not the transaction.
Fail(c) ==
    /\ step[c] \in {"ledger", "entry", "load", "send", "poll"}
    /\ EndCheck(c)
    /\ txPending' \in {txPending} \cup {step[c] = "send" /\ c \in loaded}
    /\ loaded' = loaded \ {c}
    /\ UNCHANGED <<remaining, phase, fund, checkOnly, lag, stopAsked>>

\* The network applies the transaction, which uses up the sequence number, or
\* drops it when its time bounds are over.
ApplyTransaction ==
    /\ txPending
    /\ txPending' = FALSE
    /\ remaining' = IF remaining > 0 THEN Larger(remaining, ExtendTo) ELSE 0
    /\ loaded' = {}
    /\ UNCHANGED <<phase, fund, monitor, checkOnly, step, lag, stopAsked>>

DropTransaction ==
    /\ txPending
    /\ txPending' = FALSE
    /\ UNCHANGED <<remaining, phase, fund, monitor, checkOnly, step, lag, loaded,
                   stopAsked>>

\* stop: checks that have begun go on.
StopMonitor ==
    /\ monitor \in {"first", "running"}
    /\ stopAsked' = TRUE
    /\ monitor' = "stopped"
    /\ UNCHANGED <<remaining, phase, fund, checkOnly, step, lag, loaded, txPending>>

-----------------------------------------------------------------------------
Init ==
    /\ remaining \in 1 .. ExtendTo
    /\ phase = 0 /\ fund = 0
    /\ monitor = "idle" /\ checkOnly \in BOOLEAN
    /\ step = [c \in Checks |-> "idle"]
    /\ lag = [c \in Checks |-> 0]
    /\ loaded = {} /\ txPending = FALSE /\ stopAsked = FALSE

CheckSteps(c) ==
    \/ ReadLedger(c) \/ ReadEntry(c) \/ LoadAccount(c) \/ SendTransaction(c)
    \/ FinishPolls(c) \/ Fail(c)

Next ==
    \/ CloseLedger \/ ManualExtend \/ ApplyTransaction \/ DropTransaction \/ StopMonitor
    \/ \E amount \in Allocations : MeterCall(amount)
    \/ \E c \in Checks : StartMonitor(c) \/ TimerFires(c) \/ CheckSteps(c)

\* The process is scheduled and its timer fires; every request is answered or
\* fails; requests made again and again, and transactions sent again and again,
\* succeed in the end.  Nothing is assumed of the ledger, of the meters, or of
\* how quickly any of this happens.
Fairness ==
    /\ WF_vars(\E c \in Checks : StartMonitor(c))
    /\ WF_vars(\E c \in Checks : TimerFires(c))
    /\ \A c \in Checks : WF_vars(CheckSteps(c))
    /\ SF_vars(\E c \in Checks : ReadLedger(c))
    /\ SF_vars(\E c \in Checks : ReadEntry(c))
    /\ SF_vars(\E c \in Checks : LoadAccount(c))
    /\ SF_vars(\E c \in Checks : SendTransaction(c))
    /\ SF_vars(ApplyTransaction)

Spec == Init /\ [][Next]_vars /\ Fairness

-----------------------------------------------------------------------------
\* ttl-monitor.js "automatically extends them when they fall below a threshold":
\* once the instance runs low it is extended, unless it is archived first or the
\* monitor was stopped or only checks, though checks fail, overlap and take each
\* other's sequence numbers, and transactions are lost.
LowIsExtended ==
    Low /\ ~checkOnly ~> remaining >= Threshold \/ remaining = 0 \/ stopAsked

=============================================================================
