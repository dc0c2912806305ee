------------------------------- MODULE SecureCall -------------------------------
(***************************************************************************)
(* The register of contracts that may be called, with the functions and    *)
(* the budget of each, and the checks of secure_call.  Its admin is looked *)
(* up under the key of a fresh address, where nothing is stored: anybody   *)
(* may change the register.  The rate limit and the emergency switch only  *)
(* have names and events.                                                  *)
(***************************************************************************)
EXTENDS LedgerClock, FiniteSets

CONSTANTS
    Callees,    \* contracts that may be registered
    Functions,  \* functions asked for
    GasBudgets, \* budgets asked for
    MaxCallGas  \* MAX_CALL_GAS

ASSUME SecureCallAssumption == GasBudgets \subseteq Nat /\ MaxCallGas \in Nat

VARIABLE callConfigs  \* ContractConfig of each callee, or NoConfig

NoConfig == [functions |-> {}, gas |-> 0, enabled |-> FALSE]

\* secure_call, up to the call itself.
CallAllowed(callee, function, gas) ==
    /\ callConfigs[callee].enabled
    /\ function \in callConfigs[callee].functions
    /\ gas <= MaxCallGas /\ gas <= callConfigs[callee].gas

RegisterContract(callee, functions, gas) ==
    callConfigs' =
      [callConfigs EXCEPT ![callee] = [functions |-> functions, gas |-> gas, enabled |-> TRUE]]

UnregisterContract(callee) == callConfigs' = [callConfigs EXCEPT ![callee] = NoConfig]

\* update_contract_config, of one that is registered.
UpdateContractConfig(callee, functions, gas, enabled) ==
    /\ callConfigs[callee] # NoConfig
    /\ callConfigs' = [callConfigs EXCEPT ![callee] =
                         [functions |-> functions, gas |-> gas, enabled |-> enabled]]

SecureCallInit == callConfigs = [c \in Callees |-> NoConfig]

=============================================================================
