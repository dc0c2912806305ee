---------------------- MODULE MultiSigWithdrawal_proofs ----------------------
(***************************************************************************)
(* Proofs about MultiSigWithdrawal, for every set of wallets, lists,       *)
(* thresholds, amounts and expiry: counts are exact, earnings are never    *)
(* overdrawn, and only a quorum of the moment executes a request.          *)
(***************************************************************************)
EXTENDS MultiSigWithdrawal, Sums_proofs, FiniteSetTheorems, TLAPS

\* The parts of the invariant that are about requests and about money.
RequestsOK == requests \in Seq(Requests) /\ ApprovalsAreCounted
MoneyOK == held \in Nat /\ treasury \in Nat /\ meter \in Meters /\ NotOverdrawn
ConfigOK ==
    IsConfigured => config \in Configs /\ ValidConfig(config.wallets, config.required)

\* The inductive invariant: counts are exact and so cannot go below zero when an
\* approval is revoked.
IInv == now \in Nat /\ ConfigOK /\ RequestsOK /\ MoneyOK

-----------------------------------------------------------------------------
(* Lists, requests and meters *)

\* minimum_multisig_threshold is at least one and at least half of the wallets.
LEMMA HalfOrMore ==
    ASSUME NEW n \in Nat
    PROVE  /\ MinimumThreshold(n) \in Nat \ {0}
           /\ 2 * MinimumThreshold(n) >= n
BY MultiSigAssumption DEF MinimumThreshold

\* A list has at most as many members as entries.
LEMMA MembersBound ==
    ASSUME NEW list \in Seq(Wallets)
    PROVE  /\ Members(list) \subseteq Wallets /\ IsFiniteSet(Members(list))
           /\ Cardinality(Members(list)) <= Len(list)
<1>1. DOMAIN list = 1 .. Len(list) /\ Len(list) \in Nat
  OBVIOUS
<1>2. list \in Surjection(1 .. Len(list), Members(list))
  BY <1>1 DEF Surjection, Members
<1>3. IsFiniteSet(1 .. Len(list)) /\ Cardinality(1 .. Len(list)) = Len(list)
  BY <1>1, FS_Interval
<1>4. IsFiniteSet(Members(list)) /\ Cardinality(Members(list)) <= Len(list)
  BY <1>2, <1>3, FS_Surjection
<1>5. Members(list) \subseteq Wallets
  BY DEF Members
<1> QED BY <1>4, <1>5

\* Noting approvals, and their number, changes nothing else of a request.
LEMMA NotedType ==
    ASSUME NEW r \in Requests, NEW approvals \in SUBSET Wallets, NEW count \in Nat
    PROVE  Noted(r, approvals, count) =
             [amount |-> r.amount, expires |-> r.expires, count |-> count,
              approvals |-> approvals, executed |-> r.executed, cancelled |-> r.cancelled]
<1>1. PICK e : e = [r EXCEPT !.approvals = approvals]
  OBVIOUS
<1>2. e = [amount |-> r.amount, expires |-> r.expires, count |-> r.count,
           approvals |-> approvals, executed |-> r.executed, cancelled |-> r.cancelled]
  BY <1>1 DEF Requests
<1>3. Noted(r, approvals, count) = [e EXCEPT !.count = count]
  BY <1>1, Zenon DEF Noted
<1> QED BY <1>2, <1>3

\* Whatever is noted, a request is executed if it was, and asks for as much.
LEMMA NotedKeeps ==
    ASSUME NEW r \in Requests, NEW approvals, NEW count
    PROVE  /\ Noted(r, approvals, count).executed = r.executed
           /\ Noted(r, approvals, count).amount = r.amount
<1>1. PICK e : e = [r EXCEPT !.approvals = approvals]
  OBVIOUS
<1>2. e = [amount |-> r.amount, expires |-> r.expires, count |-> r.count,
           approvals |-> approvals, executed |-> r.executed, cancelled |-> r.cancelled]
  BY <1>1 DEF Requests
<1>3. Noted(r, approvals, count) = [e EXCEPT !.count = count]
  BY <1>1, Zenon DEF Noted
<1> QED BY <1>2, <1>3

\* An executed request keeps its approvals.
LEMMA ExecutedType ==
    ASSUME NEW r \in Requests, NEW count \in Nat
    PROVE  Executed(r, count) =
             [amount |-> r.amount, expires |-> r.expires, count |-> count,
              approvals |-> r.approvals, executed |-> TRUE, cancelled |-> r.cancelled]
<1>1. PICK e : e = Noted(r, r.approvals, count)
  OBVIOUS
<1>2. e = [amount |-> r.amount, expires |-> r.expires, count |-> count,
           approvals |-> r.approvals, executed |-> r.executed, cancelled |-> r.cancelled]
  <2>1. r.approvals \in SUBSET Wallets
    BY DEF Requests
  <2> QED BY <1>1, <2>1, NotedType
<1>3. Executed(r, count) = [e EXCEPT !.executed = TRUE]
  BY <1>1, Zenon DEF Executed
<1> QED BY <1>2, <1>3

\* Taking what is available leaves a meter whose earnings are not overdrawn.
LEMMA TakenType ==
    ASSUME NEW m \in Meters, NEW amount \in Int, amount <= Available(m)
    PROVE  TakenFrom(m, amount) \in Meters /\ Available(TakenFrom(m, amount)) >= 0
<1>1. CASE m.billing = "PrePaid"
  <2>1. PICK e : e = [m EXCEPT !.balance = @ - amount]
    OBVIOUS
  <2>2. e = [billing |-> m.billing, balance |-> m.balance - amount, debt |-> m.debt,
             active |-> m.active]
    BY <2>1 DEF Meters
  <2>3. TakenFrom(m, amount) = RefreshActivity(e)
    BY <1>1, <2>1, Zenon DEF TakenFrom
  <2>4. RefreshActivity(e) = [billing |-> m.billing, balance |-> m.balance - amount,
                              debt |-> m.debt, active |-> m.balance - amount > 0]
    BY <1>1, <2>2 DEF RefreshActivity
  <2>5. m.balance \in Int /\ m.debt \in Int /\ amount <= m.balance
    BY <1>1 DEF Meters, Available
  <2> QED BY <1>1, <2>3, <2>4, <2>5 DEF Meters, Available
<1>2. CASE m.billing = "PostPaid"
  <2>1. PICK e : e = [m EXCEPT !.debt = @ - amount]
    OBVIOUS
  <2>2. e = [billing |-> m.billing, balance |-> m.balance, debt |-> m.debt - amount,
             active |-> m.active]
    BY <2>1 DEF Meters
  <2>3. TakenFrom(m, amount) = RefreshActivity(e)
    BY <1>2, <2>1, Zenon DEF TakenFrom
  <2>4. RefreshActivity(e) = [billing |-> m.billing, balance |-> m.balance,
                              debt |-> m.debt - amount,
                              active |-> m.balance - (m.debt - amount) > 0]
    BY <1>2, <2>2 DEF RefreshActivity
  <2>5. m.balance \in Int /\ m.debt \in Int /\ amount <= m.debt
    BY <1>2 DEF Meters, Available
  <2> QED BY <1>2, <2>3, <2>4, <2>5 DEF Meters, Available
<1> QED BY <1>1, <1>2 DEF Meters

\* A payment in leaves a meter whose earnings are not overdrawn either.
LEMMA TopUpType ==
    ASSUME MoneyOK, NEW amount \in Int, TopUp(amount)
    PROVE  meter' \in Meters /\ NotOverdrawn'
<1>1. amount > 0 /\ meter \in Meters /\ Available(meter) >= 0
  BY DEF MoneyOK, NotOverdrawn, TopUp
<1>2. CASE meter.billing = "PrePaid"
  <2>1. PICK e : e = [meter EXCEPT !.balance = @ + amount]
    OBVIOUS
  <2>2. e = [billing |-> meter.billing, balance |-> meter.balance + amount,
             debt |-> meter.debt, active |-> meter.active]
    BY <1>1, <2>1 DEF Meters
  <2>3. meter' = RefreshActivity(e)
    BY <1>2, <2>1, Zenon DEF TopUp
  <2>4. RefreshActivity(e) = [billing |-> meter.billing, balance |-> meter.balance + amount,
                              debt |-> meter.debt, active |-> meter.balance + amount > 0]
    BY <1>2, <2>2 DEF RefreshActivity
  <2>5. meter.balance \in Int /\ meter.debt \in Int /\ meter.balance >= 0
    BY <1>1, <1>2 DEF Meters, Available
  <2> QED BY <1>1, <1>2, <2>3, <2>4, <2>5 DEF Meters, Available, NotOverdrawn
<1>3. CASE meter.billing = "PostPaid"
  <2>1. PICK paid : paid = IF amount < meter.debt THEN amount ELSE meter.debt
    OBVIOUS
  <2>2. PICK e : e = [meter EXCEPT !.debt = @ - paid]
    OBVIOUS
  <2>3. e = [billing |-> meter.billing, balance |-> meter.balance,
             debt |-> meter.debt - paid, active |-> meter.active]
    BY <1>1, <2>2 DEF Meters
  <2>4. meter' = RefreshActivity(e)
    <3>1. meter' = RefreshActivity([meter EXCEPT !.debt =
                     @ - (IF amount < @ THEN amount ELSE @)])
      BY <1>3 DEF TopUp
    <3> QED BY <2>1, <2>2, <3>1, Zenon
  <2>5. RefreshActivity(e) = [billing |-> meter.billing, balance |-> meter.balance,
                              debt |-> meter.debt - paid,
                              active |-> meter.balance - (meter.debt - paid) > 0]
    BY <1>3, <2>3 DEF RefreshActivity
  <2>6. meter.balance \in Int /\ meter.debt \in Int /\ meter.debt >= 0
    BY <1>1, <1>3 DEF Meters, Available
  <2>7. meter.debt - paid \in Int /\ meter.debt - paid >= 0
    BY <1>1, <2>1, <2>6
  <2> HIDE DEF Meters
  <2> QED BY <1>3, <2>4, <2>5, <2>6, <2>7 DEF Meters, Available, NotOverdrawn
<1> QED BY <1>1, <1>2, <1>3 DEF Meters

-----------------------------------------------------------------------------
(* Steps *)

\* A request is replaced by one whose count is exact.
LEMMA ReplaceStep ==
    ASSUME RequestsOK, NEW id \in DOMAIN requests, NEW r \in Requests,
           IsPending(r) => r.count = Cardinality(r.approvals),
           requests' = [requests EXCEPT ![id] = r]
    PROVE  RequestsOK'
<1>1. requests' \in Seq(Requests) /\ DOMAIN requests' = DOMAIN requests
  <2> HIDE DEF Requests
  <2> QED BY DEF RequestsOK
<1>2. ASSUME NEW i \in DOMAIN requests', IsPending(requests'[i])
      PROVE  requests'[i].count = Cardinality(requests'[i].approvals)
  <2> HIDE DEF Requests
  <2>1. CASE i = id
    BY <1>1, <1>2, <2>1 DEF RequestsOK
  <2>2. CASE i # id
    BY <1>1, <1>2, <2>2 DEF RequestsOK, ApprovalsAreCounted
  <2> QED BY <2>1, <2>2
<1> QED BY <1>1, <1>2 DEF RequestsOK, ApprovalsAreCounted, IsPending

\* Approvals are sets of wallets, and so finite.
LEMMA ApprovalsFinite ==
    ASSUME NEW r \in Requests
    PROVE  IsFiniteSet(r.approvals) /\ Cardinality(r.approvals) \in Nat
<1>1. r.approvals \in SUBSET Wallets
  BY DEF Requests
<1> QED BY <1>1, FS_Subset, FS_CardinalityType, MultiSigAssumption

\* The first wallet of what is configured is a wallet.
LEMMA FirstWallet ==
    ASSUME ConfigOK, IsConfigured
    PROVE  config.wallets \in Seq(Wallets) /\ config.wallets[1] \in Wallets
<1>1. config.wallets \in Seq(Wallets) /\ Len(config.wallets) >= 1
  BY MultiSigAssumption DEF ConfigOK, Configs, ValidConfig
<1> QED BY <1>1

\* A proposal carries one approval, the proposer's.
LEMMA ProposeStep ==
    ASSUME IInv, NEW amount \in WithdrawalAmounts, Propose(amount)
    PROVE  RequestsOK'
<1> DEFINE r == [amount |-> amount, expires |-> now + Expiry, count |-> 1,
                 approvals |-> {config.wallets[1]}, executed |-> FALSE,
                 cancelled |-> FALSE]
<1>1. config.wallets[1] \in Wallets
  BY FirstWallet DEF IInv, Propose
<1>2. r \in Requests
  BY <1>1, MultiSigAssumption DEF IInv, Requests
<1>3. r.count = Cardinality(r.approvals)
  BY FS_Singleton
<1>4. requests' = Append(requests, r)
  BY DEF Propose
<1> HIDE DEF r
<1>5. PICK q \in Requests : q = r
  BY <1>2
<1>6. /\ requests' \in Seq(Requests)
      /\ \A i \in DOMAIN requests' :
           \/ i \in DOMAIN requests /\ requests'[i] = requests[i]
           \/ requests'[i] = q
  <2> HIDE DEF Requests
  <2> QED BY <1>4, <1>5 DEF IInv, RequestsOK
<1>7. q.count = Cardinality(q.approvals)
  BY <1>3, <1>5
<1> QED BY <1>6, <1>7 DEF IInv, RequestsOK, ApprovalsAreCounted, IsPending

\* An approval is new, and counts one.
LEMMA ApproveStep ==
    ASSUME IInv, NEW id \in DOMAIN requests, NEW wallet \in Wallets, Approve(id, wallet)
    PROVE  RequestsOK'
<1>1. PICK r \in Requests : r = requests[id]
  BY DEF IInv, RequestsOK
<1>2. /\ IsPending(r) /\ wallet \notin r.approvals
      /\ requests' = [requests EXCEPT ![id] = Noted(r, r.approvals \cup {wallet}, r.count + 1)]
  BY <1>1 DEF Approve
<1>3. r.count = Cardinality(r.approvals)
  BY <1>1, <1>2 DEF IInv, RequestsOK, ApprovalsAreCounted
<1>4. Cardinality(r.approvals \cup {wallet}) = r.count + 1
  BY <1>2, <1>3, ApprovalsFinite, FS_AddElement
<1>5. r.approvals \cup {wallet} \in SUBSET Wallets /\ r.count + 1 \in Nat
  BY DEF Requests
<1>6. PICK q : q = Noted(r, r.approvals \cup {wallet}, r.count + 1)
  OBVIOUS
<1>7. q = [amount |-> r.amount, expires |-> r.expires, count |-> r.count + 1,
           approvals |-> r.approvals \cup {wallet}, executed |-> r.executed,
           cancelled |-> r.cancelled]
  BY <1>5, <1>6, NotedType
<1>8. q \in Requests /\ q.count = Cardinality(q.approvals)
  BY <1>4, <1>5, <1>7 DEF Requests
<1>9. requests' = [requests EXCEPT ![id] = q]
  BY <1>2, <1>6
<1> QED BY <1>8, <1>9, ReplaceStep DEF IInv

\* A revocation takes back one that stands.
LEMMA RevokeStep ==
    ASSUME IInv, NEW id \in DOMAIN requests, Revoke(id)
    PROVE  RequestsOK'
<1>1. PICK r \in Requests : r = requests[id]
  BY DEF IInv, RequestsOK
<1>2. PICK wallet : wallet = config.wallets[1]
  OBVIOUS
<1>3. /\ IsPending(r) /\ wallet \in r.approvals
      /\ requests' = [requests EXCEPT ![id] = Noted(r, r.approvals \ {wallet}, r.count - 1)]
  BY <1>1, <1>2 DEF Revoke
<1>4. r.count = Cardinality(r.approvals)
  BY <1>1, <1>3 DEF IInv, RequestsOK, ApprovalsAreCounted
<1>5. Cardinality(r.approvals \ {wallet}) = r.count - 1
  BY <1>3, <1>4, ApprovalsFinite, FS_RemoveElement
<1>6. r.approvals \ {wallet} \in SUBSET Wallets /\ r.count - 1 \in Nat
  <2>1. r.approvals \ {wallet} \in SUBSET Wallets
    BY DEF Requests
  <2>2. IsFiniteSet(r.approvals \ {wallet})
    BY ApprovalsFinite, FS_RemoveElement
  <2> QED BY <1>5, <2>1, <2>2, FS_CardinalityType
<1>7. PICK q : q = Noted(r, r.approvals \ {wallet}, r.count - 1)
  OBVIOUS
<1>8. q = [amount |-> r.amount, expires |-> r.expires, count |-> r.count - 1,
           approvals |-> r.approvals \ {wallet}, executed |-> r.executed,
           cancelled |-> r.cancelled]
  BY <1>6, <1>7, NotedType
<1>9. q \in Requests /\ q.count = Cardinality(q.approvals)
  BY <1>5, <1>6, <1>8 DEF Requests
<1>10. requests' = [requests EXCEPT ![id] = q]
  BY <1>3, <1>7
<1> QED BY <1>9, <1>10, ReplaceStep DEF IInv

\* Cancelled and executed requests are pending no more.
LEMMA CancelStep ==
    ASSUME IInv, NEW id \in DOMAIN requests, Cancel(id)
    PROVE  RequestsOK'
<1>1. PICK r \in Requests : r = requests[id]
  BY DEF IInv, RequestsOK
<1>2. PICK q : q = [r EXCEPT !.cancelled = TRUE]
  OBVIOUS
<1>3. q = [amount |-> r.amount, expires |-> r.expires, count |-> r.count,
           approvals |-> r.approvals, executed |-> r.executed, cancelled |-> TRUE]
  BY <1>2 DEF Requests
<1>4. q \in Requests /\ ~IsPending(q)
  BY <1>3 DEF Requests, IsPending
<1>5. requests' = [requests EXCEPT ![id] = q]
  <2>1. requests' = [requests EXCEPT ![id] = [requests[id] EXCEPT !.cancelled = TRUE]]
    BY Zenon DEF Cancel
  <2> QED BY <1>1, <1>2, <2>1, Zenon
<1> QED BY <1>4, <1>5, ReplaceStep DEF IInv

\* An execution pays what is available, and what the contract holds.
LEMMA ExecuteStep ==
    ASSUME IInv, NEW id \in DOMAIN requests, Execute(id)
    PROVE  RequestsOK' /\ MoneyOK'
<1>1. PICK r \in Requests : r = requests[id]
  BY DEF IInv, RequestsOK
<1>2. PICK n : n = Cardinality(Approving(r))
  OBVIOUS
<1>3. n \in Nat
  <2>1. IsFiniteSet(Approving(r))
    BY ApprovalsFinite, FS_Intersection DEF Approving
  <2> QED BY <1>2, <2>1, FS_CardinalityType
<1>4. PICK q : q = Executed(r, n)
  OBVIOUS
<1>5. q = [amount |-> r.amount, expires |-> r.expires, count |-> n,
           approvals |-> r.approvals, executed |-> TRUE, cancelled |-> r.cancelled]
  BY <1>3, <1>4, ExecutedType
<1>6. q \in Requests /\ ~IsPending(q)
  BY <1>3, <1>5 DEF Requests, IsPending
<1>7. requests' = [requests EXCEPT ![id] = q]
  BY <1>1, <1>2, <1>4 DEF Execute
<1>8. RequestsOK'
  BY <1>6, <1>7, ReplaceStep DEF IInv
<1>9. /\ r.amount <= Available(meter) /\ r.amount \in 0 .. held
      /\ held' = held - r.amount /\ treasury' = treasury + r.amount
      /\ meter' = TakenFrom(meter, r.amount)
  BY <1>1 DEF Execute
<1>10. held' \in Nat /\ treasury' \in Nat
  BY <1>9 DEF IInv, MoneyOK
<1>11. meter' \in Meters /\ NotOverdrawn'
  <2>1. meter \in Meters /\ r.amount \in Int
    BY <1>9 DEF IInv, MoneyOK
  <2> QED BY <1>9, <2>1, TakenType DEF NotOverdrawn
<1> QED BY <1>8, <1>10, <1>11 DEF MoneyOK

\* What leaves the requests or the money alone keeps their part of the invariant.
LEMMA Unchanged ==
    /\ RequestsOK /\ requests' = requests => RequestsOK'
    /\ MoneyOK /\ held' = held /\ treasury' = treasury /\ meter' = meter => MoneyOK'
    /\ ConfigOK /\ config' = config => ConfigOK'
BY DEF RequestsOK, ApprovalsAreCounted, MoneyOK, NotOverdrawn, ConfigOK, IsConfigured

\* Every configuration is checked when it is set.
LEMMA ConfigStep ==
    ASSUME ConfigOK, NEW list \in WalletLists, NEW required \in RequiredCounts,
           NEW threshold \in Thresholds,
           Configure(list, required, threshold) \/ UpdateConfig(list, required, threshold)
    PROVE  ConfigOK'
<1>1. ValidConfig(list, required)
  BY DEF Configure, UpdateConfig
<1>2. list \in Seq(Wallets) /\ required \in Nat /\ threshold \in Int
  BY MultiSigAssumption
<1>3. PICK active \in BOOLEAN : config' = Config(list, required, threshold, active)
  BY DEF Configure, UpdateConfig, ConfigOK, Configs
<1>4. config' \in Configs /\ config'.wallets = list /\ config'.required = required
  BY <1>2, <1>3 DEF Config, Configs
<1> QED BY <1>1, <1>4 DEF ConfigOK

\* Disabling changes nothing that is checked.
LEMMA DisableStep ==
    ASSUME ConfigOK, DisableMultiSig
    PROVE  ConfigOK'
<1>1. config \in Configs /\ ValidConfig(config.wallets, config.required)
  BY DEF ConfigOK, DisableMultiSig
<1>2. config' = [wallets |-> config.wallets, required |-> config.required,
                 threshold |-> config.threshold, active |-> FALSE]
  BY <1>1 DEF DisableMultiSig, Configs
<1> QED BY <1>1, <1>2 DEF ConfigOK, Configs

\* The provider's own withdrawal takes no more than there is.
LEMMA WithdrawStep ==
    ASSUME IInv, NEW amount \in WithdrawalAmounts, WithdrawEarnings(amount)
    PROVE  MoneyOK'
<1>1. /\ amount > 0 /\ amount <= Available(meter) /\ amount <= held
      /\ held' = held - amount /\ treasury' = treasury
      /\ meter' = TakenFrom(meter, amount)
  BY DEF WithdrawEarnings
<1>2. amount \in Int /\ meter \in Meters /\ held \in Nat /\ treasury \in Nat
  BY MultiSigAssumption DEF IInv, MoneyOK
<1>3. meter' \in Meters /\ NotOverdrawn'
  BY <1>1, <1>2, TakenType DEF NotOverdrawn
<1>4. held' \in Nat /\ treasury' \in Nat
  BY <1>1, <1>2
<1> QED BY <1>3, <1>4 DEF MoneyOK

\* The invariant holds at first.
LEMMA InitInvariant == now = 0 /\ MultiSigInit => IInv
<1> SUFFICES ASSUME now = 0, MultiSigInit PROVE IInv
  OBVIOUS
<1>1. RequestsOK
  BY DEF MultiSigInit, RequestsOK, ApprovalsAreCounted
<1>2. ConfigOK
  BY DEF MultiSigInit, ConfigOK, IsConfigured
<1>3. MoneyOK
  <2>1. PICK active \in BOOLEAN : active = (Earnings > 0)
    <3>1. (Earnings > 0) \in BOOLEAN
      <4>1. CASE Earnings > 0
        BY <4>1
      <4>2. CASE ~(Earnings > 0)
        BY <4>2
      <4> QED BY <4>1, <4>2
    <3> QED BY <3>1, Zenon
  <2>2. \/ meter = [billing |-> "PrePaid", balance |-> Earnings, debt |-> 0,
                    active |-> active]
        \/ meter = [billing |-> "PostPaid", balance |-> 0, debt |-> Earnings,
                    active |-> FALSE]
    BY <2>1, Zenon DEF MultiSigInit
  <2>3. meter \in Meters /\ Available(meter) = Earnings
    <3>1. Earnings \in Int
      BY MultiSigAssumption
    <3>2. active \in BOOLEAN
      BY <2>1
    <3>3. CASE meter = [billing |-> "PrePaid", balance |-> Earnings, debt |-> 0,
                        active |-> active]
      BY <3>1, <3>2, <3>3 DEF Meters, Available
    <3>4. CASE meter = [billing |-> "PostPaid", balance |-> 0, debt |-> Earnings,
                        active |-> FALSE]
      BY <3>1, <3>4 DEF Meters, Available
    <3> QED BY <2>2, <3>3, <3>4
  <2>4. held \in Nat /\ treasury \in Nat
    BY MultiSigAssumption DEF MultiSigInit
  <2> QED BY <2>3, <2>4, MultiSigAssumption DEF MoneyOK, NotOverdrawn
<1> QED BY <1>1, <1>2, <1>3 DEF MultiSigInit, IInv

\* Every step preserves the invariant.
LEMMA NextInvariant == IInv /\ [MultiSigNext]_<<now, multiSigVars>> => IInv'
<1> SUFFICES ASSUME IInv, [MultiSigNext]_<<now, multiSigVars>> PROVE IInv'
  OBVIOUS
<1>0. now \in Nat /\ ConfigOK /\ RequestsOK /\ MoneyOK
  BY DEF IInv
<1>1. ASSUME NEW list \in WalletLists, NEW required \in RequiredCounts,
             NEW threshold \in Thresholds,
             Configure(list, required, threshold) \/ UpdateConfig(list, required, threshold)
      PROVE  IInv'
  <2>1. now' = now /\ requests' = requests /\ meter' = meter /\ held' = held
        /\ treasury' = treasury
    BY <1>1 DEF Configure, UpdateConfig
  <2> QED BY <1>0, <1>1, <2>1, ConfigStep, Unchanged DEF IInv
<1>2. CASE DisableMultiSig
  <2>1. now' = now /\ requests' = requests /\ meter' = meter /\ held' = held
        /\ treasury' = treasury
    BY <1>2 DEF DisableMultiSig
  <2> QED BY <1>0, <1>2, <2>1, DisableStep, Unchanged DEF IInv
<1>3. ASSUME NEW amount \in WithdrawalAmounts, Propose(amount)
      PROVE  IInv'
  <2>1. now' = now /\ config' = config /\ meter' = meter /\ held' = held
        /\ treasury' = treasury
    BY <1>3 DEF Propose
  <2> QED BY <1>0, <1>3, <2>1, ProposeStep, Unchanged DEF IInv
<1>4. ASSUME NEW amount \in WithdrawalAmounts, WithdrawEarnings(amount)
      PROVE  IInv'
  <2>1. now' = now /\ config' = config /\ requests' = requests
    BY <1>4 DEF WithdrawEarnings
  <2> QED BY <1>0, <1>4, <2>1, WithdrawStep, Unchanged DEF IInv
<1>5. ASSUME NEW amount \in WithdrawalAmounts, TopUp(amount)
      PROVE  IInv'
  <2>1. now' = now /\ config' = config /\ requests' = requests /\ treasury' = treasury
        /\ held' = held + amount /\ amount > 0 /\ amount \in Int
    BY <1>5, MultiSigAssumption DEF TopUp
  <2>2. held' \in Nat /\ treasury' \in Nat
    BY <1>0, <2>1 DEF MoneyOK
  <2>3. MoneyOK'
    BY <1>0, <1>5, <2>1, <2>2, TopUpType DEF MoneyOK
  <2> QED BY <1>0, <2>1, <2>3, Unchanged DEF IInv
<1>6. ASSUME NEW id \in DOMAIN requests, Revoke(id) \/ Cancel(id)
      PROVE  IInv'
  <2>1. now' = now /\ config' = config /\ meter' = meter /\ held' = held
        /\ treasury' = treasury
    BY <1>6 DEF Revoke, Cancel
  <2> QED BY <1>0, <1>6, <2>1, RevokeStep, CancelStep, Unchanged DEF IInv
<1>7. ASSUME NEW id \in DOMAIN requests, NEW wallet \in Wallets, Approve(id, wallet)
      PROVE  IInv'
  <2>1. now' = now /\ config' = config /\ meter' = meter /\ held' = held
        /\ treasury' = treasury
    BY <1>7 DEF Approve
  <2> QED BY <1>0, <1>7, <2>1, ApproveStep, Unchanged DEF IInv
<1>8. ASSUME NEW id \in DOMAIN requests, Execute(id)
      PROVE  IInv'
  <2>1. now' = now /\ config' = config
    BY <1>8 DEF Execute
  <2> QED BY <1>0, <1>8, <2>1, ExecuteStep, Unchanged DEF IInv
<1>9. CASE Tick /\ UNCHANGED multiSigVars
  <2>1. now' = now + 1 /\ config' = config /\ requests' = requests /\ meter' = meter
        /\ held' = held /\ treasury' = treasury
    BY <1>9 DEF Tick, multiSigVars
  <2> QED BY <1>0, <2>1, Unchanged DEF IInv
<1>10. CASE UNCHANGED <<now, multiSigVars>>
  BY <1>0, <1>10, Unchanged DEF multiSigVars, IInv
<1> QED BY <1>1, <1>2, <1>3, <1>4, <1>5, <1>6, <1>7, <1>8, <1>9, <1>10 DEF MultiSigNext

-----------------------------------------------------------------------------
(* Theorems *)

\* The inductive invariant holds throughout.
THEOREM MultiSigInvariant == MultiSigSpec => []IInv
BY InitInvariant, NextInvariant, PTL DEF MultiSigSpec

\* What is configured can reach its quorum, no wallet counts twice, and the
\* contract never pays what it does not hold.
THEOREM MultiSigTypes == MultiSigSpec => []MultiSigTypeOK
<1>1. IInv => MultiSigTypeOK
  <2> SUFFICES ASSUME IInv PROVE MultiSigTypeOK
    OBVIOUS
  <2>1. ASSUME IsConfigured
        PROVE  /\ config \in Configs
               /\ \A i, j \in DOMAIN config.wallets :
                    i # j => config.wallets[i] # config.wallets[j]
               /\ config.required \in 1 .. Len(config.wallets)
    <3>1. config \in Configs /\ ValidConfig(config.wallets, config.required)
      BY <2>1 DEF IInv, ConfigOK
    <3>2. Len(config.wallets) \in Nat
      BY <3>1 DEF Configs
    <3>3. MinimumThreshold(Len(config.wallets)) \in Nat \ {0}
      BY <3>2, HalfOrMore
    <3>4. /\ \A i, j \in DOMAIN config.wallets :
               config.wallets[i] = config.wallets[j] => i = j
          /\ config.required \in MinimumThreshold(Len(config.wallets)) .. Len(config.wallets)
      BY <3>1 DEF ValidConfig
    <3>5. config.required \in 1 .. Len(config.wallets)
      BY <3>2, <3>3, <3>4
    <3> QED BY <3>1, <3>4, <3>5
  <2> QED BY <2>1 DEF IInv, MultiSigTypeOK, RequestsOK, MoneyOK
<1> QED BY <1>1, MultiSigInvariant, PTL

\* approval_count is the number of approvals that stand on a pending request.
THEOREM MultiSigApprovalsAreCounted == MultiSigSpec => []ApprovalsAreCounted
<1>1. IInv => ApprovalsAreCounted
  BY DEF IInv, RequestsOK
<1> QED BY <1>1, MultiSigInvariant, PTL

\* Earnings are paid out once, whoever withdraws them.
THEOREM MultiSigNotOverdrawn == MultiSigSpec => []NotOverdrawn
<1>1. IInv => NotOverdrawn
  BY DEF IInv, MoneyOK
<1> QED BY <1>1, MultiSigInvariant, PTL

\* Only an execution turns a request that is there into an executed one.
LEMMA OnlyExecute ==
    ASSUME IInv, [MultiSigNext]_<<now, multiSigVars>>, NEW id \in DOMAIN requests,
           requests'[id].executed, ~requests[id].executed
    PROVE  Execute(id)
<1>1. requests \in Seq(Requests)
  BY DEF IInv, RequestsOK
<1>2. requests' # requests
  OBVIOUS
<1>3. ASSUME NEW amount \in WithdrawalAmounts, Propose(amount) PROVE FALSE
  <2>1. PICK r : requests' = Append(requests, r)
    BY <1>3 DEF Propose
  <2>2. requests'[id] = requests[id]
    <3> HIDE DEF Requests
    <3> QED BY <1>1, <2>1
  <2> QED BY <2>2
<1>4. ASSUME NEW i \in DOMAIN requests, NEW r, requests' = [requests EXCEPT ![i] = r],
             ~r.executed
      PROVE  FALSE
  BY <1>1, <1>4
<1>6. ASSUME NEW i \in DOMAIN requests, NEW wallet \in Wallets, Approve(i, wallet)
      PROVE  FALSE
  <2>1. requests[i] \in Requests /\ ~requests[i].executed
    BY <1>1, <1>6 DEF Approve, IsPending
  <2>2. PICK r : r = Noted(requests[i], requests[i].approvals \cup {wallet},
                           requests[i].count + 1)
    OBVIOUS
  <2>3. requests' = [requests EXCEPT ![i] = r]
    BY <1>6, <2>2 DEF Approve
  <2>4. r.executed = requests[i].executed
    BY <2>1, <2>2, NotedKeeps
  <2> QED BY <1>4, <2>1, <2>3, <2>4
<1>7. ASSUME NEW i \in DOMAIN requests, Revoke(i)
      PROVE  FALSE
  <2>1. requests[i] \in Requests /\ ~requests[i].executed
    BY <1>1, <1>7 DEF Revoke, IsPending
  <2>2. PICK r : r = Noted(requests[i], requests[i].approvals \ {config.wallets[1]},
                           requests[i].count - 1)
    OBVIOUS
  <2>3. requests' = [requests EXCEPT ![i] = r]
    BY <1>7, <2>2 DEF Revoke
  <2>4. r.executed = requests[i].executed
    BY <2>1, <2>2, NotedKeeps
  <2> QED BY <1>4, <2>1, <2>3, <2>4
<1>8. ASSUME NEW i \in DOMAIN requests, Cancel(i)
      PROVE  FALSE
  <2>1. requests[i] \in Requests /\ ~requests[i].executed
    BY <1>1, <1>8 DEF Cancel, IsPending
  <2>2. PICK q : q = requests[i]
    OBVIOUS
  <2>3. PICK r : r = [q EXCEPT !.cancelled = TRUE]
    OBVIOUS
  <2>4. requests' = [requests EXCEPT ![i] = r]
    <3>1. requests' = [requests EXCEPT ![i] = [requests[i] EXCEPT !.cancelled = TRUE]]
      BY <1>8, Zenon DEF Cancel
    <3> QED BY <2>2, <2>3, <3>1, Zenon
  <2>5. r = [amount |-> q.amount, expires |-> q.expires, count |-> q.count,
             approvals |-> q.approvals, executed |-> q.executed, cancelled |-> TRUE]
    BY <2>1, <2>2, <2>3 DEF Requests
  <2> QED BY <1>4, <2>1, <2>2, <2>4, <2>5
<1>9. ASSUME NEW i \in DOMAIN requests, Execute(i)
      PROVE  Execute(id)
  <2>1. CASE i = id
    BY <1>9, <2>1
  <2>2. CASE i # id
    <3>1. PICK r : requests' = [requests EXCEPT ![i] = r]
      BY <1>9 DEF Execute
    <3> QED BY <1>1, <2>2, <3>1
  <2> QED BY <2>1, <2>2
<1>10. CASE MultiSigNext
  BY <1>2, <1>3, <1>6, <1>7, <1>8, <1>9, <1>10
     DEF MultiSigNext, Configure, UpdateConfig, DisableMultiSig, WithdrawEarnings, TopUp, Tick,
         multiSigVars
<1> QED BY <1>2, <1>10 DEF multiSigVars

\* A request is executed on the approvals of at least half of the wallets
\* configured at that moment, and while it is valid.
THEOREM MultiSigExecutedOnQuorum == MultiSigSpec => ExecutedOnQuorum
<1>1. ASSUME IInv, [MultiSigNext]_<<now, multiSigVars>>, NEW id \in DOMAIN requests,
             requests'[id].executed, ~requests[id].executed
      PROVE  LET for == {w \in Members(config.wallets) : w \in requests[id].approvals}
             IN  /\ 2 * Cardinality(for) >= Cardinality(Members(config.wallets))
                 /\ Cardinality(for) >= config.required
                 /\ now <= requests[id].expires /\ ~requests[id].cancelled
  <2> DEFINE for == {w \in Members(config.wallets) : w \in requests[id].approvals}
  <2>1. Execute(id)
    BY <1>1, OnlyExecute
  <2>2. for = Approving(requests[id])
    BY DEF Approving
  <2>3. /\ Cardinality(for) >= config.required
        /\ ~IsExpired(requests[id]) /\ ~requests[id].cancelled
        /\ ValidConfig(config.wallets, config.required) /\ IsConfigured
    BY <2>1, <2>2 DEF Execute, IsPending
  <2>4. config.wallets \in Seq(Wallets) /\ Len(config.wallets) \in Nat
    BY <1>1, <2>3 DEF IInv, ConfigOK, Configs
  <2>5. IsFiniteSet(Members(config.wallets)) /\ IsFiniteSet(for)
        /\ Cardinality(Members(config.wallets)) <= Len(config.wallets)
    BY <2>4, MembersBound, FS_Subset
  <2>6. Cardinality(Members(config.wallets)) \in Nat /\ Cardinality(for) \in Nat
    BY <2>5, FS_CardinalityType
  <2>7. config.required \in Nat
        /\ config.required >= MinimumThreshold(Len(config.wallets))
    BY <1>1, <2>3, <2>4, HalfOrMore DEF ValidConfig, IInv, ConfigOK, Configs
  <2>8. now <= requests[id].expires
    <3>0. now \in Nat /\ requests[id] \in Requests
      <4> HIDE DEF Requests
      <4> QED BY <1>1 DEF IInv, RequestsOK
    <3>1. now \in Nat /\ requests[id].expires \in Nat
      BY <3>0 DEF Requests
    <3> QED BY <2>3, <3>1 DEF IsExpired
  <2> HIDE DEF for
  <2>9. 2 * Cardinality(for) >= Cardinality(Members(config.wallets))
    <3>1. PICK n : n = Len(config.wallets)
      OBVIOUS
    <3>2. PICK least : least = MinimumThreshold(n)
      OBVIOUS
    <3>3. least \in Nat /\ 2 * least >= n
      BY <2>4, <3>1, <3>2, HalfOrMore
    <3>4. Cardinality(for) >= least
      BY <2>3, <2>6, <2>7, <3>1, <3>2, <3>3
    <3>5. Cardinality(Members(config.wallets)) <= n /\ n \in Nat
      BY <2>4, <2>5, <3>1
    <3> QED BY <2>6, <3>3, <3>4, <3>5
  <2> QED BY <2>3, <2>8, <2>9 DEF for
<1>2. IInv /\ [MultiSigNext]_<<now, multiSigVars>> =>
        [\A id \in DOMAIN requests :
           requests'[id].executed /\ ~requests[id].executed =>
             LET for == {w \in Members(config.wallets) : w \in requests[id].approvals}
             IN  /\ 2 * Cardinality(for) >= Cardinality(Members(config.wallets))
                 /\ Cardinality(for) >= config.required
                 /\ now <= requests[id].expires /\ ~requests[id].cancelled]_<<now, multiSigVars>>
  BY <1>1
<1> QED BY <1>2, MultiSigInvariant, PTL DEF MultiSigSpec, ExecutedOnQuorum

-----------------------------------------------------------------------------
(* What was paid out *)

\* The ids of a list of requests are finitely many, and their amounts integers.
LEMMA ExecutedIds ==
    ASSUME requests \in Seq(Requests)
    PROVE  /\ IsFiniteSet(IdsExecuted)
           /\ \A id \in DOMAIN requests : AmountOf[id] \in Int /\ requests[id].amount \in Int
<1>1. Len(requests) \in Nat /\ DOMAIN requests = 1 .. Len(requests)
  OBVIOUS
<1>2. IsFiniteSet(DOMAIN requests)
  BY <1>1, FS_Interval
<1>3. IsFiniteSet(IdsExecuted)
  BY <1>2, FS_Subset DEF IdsExecuted
<1>4. \A id \in DOMAIN requests : requests[id] \in Requests
  OBVIOUS
<1>5. \A id \in DOMAIN requests : requests[id].amount \in Int
  BY <1>4 DEF Requests
<1> QED BY <1>3, <1>5 DEF AmountOf

\* When the same requests are executed, for the same amounts, nothing is owed.
LEMMA SameExecuted ==
    ASSUME requests \in Seq(Requests), requests' \in Seq(Requests), PaidOnce,
           IdsExecuted' = IdsExecuted, treasury' = treasury,
           \A id \in IdsExecuted : requests'[id].amount = requests[id].amount
    PROVE  PaidOnce'
<1>1. PICK f, g, S : f = AmountOf /\ g = AmountOf' /\ S = IdsExecuted
  OBVIOUS
<1>2. IsFiniteSet(S)
  BY <1>1, ExecutedIds
<1>3. \A id \in S : f[id] \in Int /\ g[id] = f[id]
  <2>1. \A id \in IdsExecuted : id \in DOMAIN requests /\ id \in DOMAIN requests'
    BY DEF IdsExecuted
  <2> QED BY <1>1, <2>1, ExecutedIds DEF AmountOf
<1>4. SumOf(g, S) = SumOf(f, S)
  BY <1>2, <1>3, SumOfSame
<1> QED BY <1>1, <1>4 DEF PaidOnce

\* A request that is replaced by one of its amount and of its standing.
LEMMA NotedOnly ==
    ASSUME requests \in Seq(Requests), requests' \in Seq(Requests), PaidOnce,
           NEW id \in DOMAIN requests, NEW q, requests' = [requests EXCEPT ![id] = q],
           q.executed = requests[id].executed, q.amount = requests[id].amount,
           treasury' = treasury
    PROVE  PaidOnce'
<1>1. DOMAIN requests' = DOMAIN requests
  OBVIOUS
<1>2. \A i \in DOMAIN requests : /\ requests'[i].executed = requests[i].executed
                                 /\ requests'[i].amount = requests[i].amount
  OBVIOUS
<1>3. IdsExecuted' = IdsExecuted
  BY <1>1, <1>2 DEF IdsExecuted
<1>4. \A i \in IdsExecuted : i \in DOMAIN requests
  BY DEF IdsExecuted
<1> QED BY <1>2, <1>3, <1>4, SameExecuted

\* A proposal is not executed.
LEMMA ProposePays ==
    ASSUME IInv, PaidOnce, requests' \in Seq(Requests), NEW amount \in WithdrawalAmounts,
           Propose(amount)
    PROVE  PaidOnce'
<1>1. requests \in Seq(Requests)
  BY DEF IInv, RequestsOK
<1>2. PICK r : requests' = Append(requests, r) /\ ~r.executed
  BY DEF Propose
<1>3. /\ DOMAIN requests' = DOMAIN requests \cup {Len(requests) + 1}
      /\ \A i \in DOMAIN requests : requests'[i] = requests[i]
      /\ requests'[Len(requests) + 1] = r
  BY <1>1, <1>2
<1>4. IdsExecuted' = IdsExecuted
  BY <1>2, <1>3 DEF IdsExecuted
<1>5. \A i \in IdsExecuted : i \in DOMAIN requests
  BY DEF IdsExecuted
<1> QED BY <1>1, <1>3, <1>4, <1>5, SameExecuted DEF Propose

\* An execution adds one request, and pays its amount.
LEMMA ExecutePays ==
    ASSUME IInv, PaidOnce, requests' \in Seq(Requests), NEW id \in DOMAIN requests,
           Execute(id)
    PROVE  PaidOnce'
<1>1. requests \in Seq(Requests) /\ treasury \in Nat
  BY DEF IInv, RequestsOK, MoneyOK
<1>2. PICK r \in Requests : r = requests[id]
  BY <1>1
<1>3. PICK n : n = Cardinality(Approving(r))
  OBVIOUS
<1>4. n \in Nat
  <2>1. IsFiniteSet(Approving(r))
    BY ApprovalsFinite, FS_Intersection DEF Approving
  <2> QED BY <1>3, <2>1, FS_CardinalityType
<1>5. PICK q : q = Executed(r, n)
  OBVIOUS
<1>6. q.amount = r.amount /\ q.executed
  BY <1>4, <1>5, ExecutedType
<1>7. requests' = [requests EXCEPT ![id] = q] /\ ~r.executed /\ treasury' = treasury + r.amount
  BY <1>2, <1>3, <1>5 DEF Execute, IsPending
<1>8. PICK f, g, S : f = AmountOf /\ g = AmountOf' /\ S = IdsExecuted
  OBVIOUS
<1>9. DOMAIN requests' = DOMAIN requests
  BY <1>1, <1>7
<1>10. \A i \in DOMAIN requests : requests'[i] = IF i = id THEN q ELSE requests[i]
  BY <1>1, <1>7
<1>11. IdsExecuted' = S \cup {id} /\ id \notin S
  BY <1>2, <1>6, <1>7, <1>8, <1>9, <1>10 DEF IdsExecuted
<1>12. \A i \in S \cup {id} : f[i] \in Int /\ g[i] = f[i]
  <2>1. \A i \in S \cup {id} : i \in DOMAIN requests
    BY <1>8 DEF IdsExecuted
  <2>2. \A i \in S \cup {id} : f[i] \in Int
    BY <1>1, <1>8, <2>1, ExecutedIds
  <2> QED BY <1>2, <1>6, <1>8, <1>9, <1>10, <2>1, <2>2 DEF AmountOf
<1>13. IsFiniteSet(S) /\ IsFiniteSet(S \cup {id})
  BY <1>1, <1>8, ExecutedIds, FS_AddElement
<1>14. SumOf(f, S \cup {id}) = SumOf(f, S) + f[id]
  BY <1>11, <1>12, <1>13, SumAdd
<1>15. SumOf(g, S \cup {id}) = SumOf(f, S \cup {id})
  BY <1>12, <1>13, SumOfSame
<1>16. f[id] = r.amount
  BY <1>2, <1>8 DEF AmountOf
<1> QED BY <1>7, <1>8, <1>11, <1>14, <1>15, <1>16 DEF PaidOnce

\* Every step that executes nothing pays the treasury nothing.
LEMMA PaidOnceStep == IInv /\ PaidOnce /\ IInv' /\ [MultiSigNext]_<<now, multiSigVars>> => PaidOnce'
<1> SUFFICES ASSUME IInv, PaidOnce, IInv', [MultiSigNext]_<<now, multiSigVars>> PROVE PaidOnce'
  OBVIOUS
<1>1. requests \in Seq(Requests) /\ requests' \in Seq(Requests)
  BY DEF IInv, RequestsOK
<1>2. ASSUME UNCHANGED <<requests, treasury>>  PROVE PaidOnce'
  BY <1>2 DEF PaidOnce, IdsExecuted, AmountOf
<1>3. ASSUME NEW amount \in WithdrawalAmounts, Propose(amount)  PROVE PaidOnce'
  BY <1>1, <1>3, ProposePays
<1>4. ASSUME NEW id \in DOMAIN requests, NEW wallet \in Wallets, Approve(id, wallet)
      PROVE  PaidOnce'
  <2>1. PICK q : q = Noted(requests[id], requests[id].approvals \cup {wallet},
                           requests[id].count + 1)
    OBVIOUS
  <2>2. requests' = [requests EXCEPT ![id] = q] /\ treasury' = treasury
    BY <1>4, <2>1 DEF Approve
  <2>3. requests[id] \in Requests
    BY <1>1
  <2>4. q.executed = requests[id].executed /\ q.amount = requests[id].amount
    BY <2>1, <2>3, NotedKeeps
  <2> QED BY <1>1, <2>2, <2>4, NotedOnly
<1>5. ASSUME NEW id \in DOMAIN requests, Revoke(id)  PROVE PaidOnce'
  <2>1. PICK q : q = Noted(requests[id], requests[id].approvals \ {config.wallets[1]},
                           requests[id].count - 1)
    OBVIOUS
  <2>2. requests' = [requests EXCEPT ![id] = q] /\ treasury' = treasury
    BY <1>5, <2>1 DEF Revoke
  <2>3. requests[id] \in Requests
    BY <1>1
  <2>4. q.executed = requests[id].executed /\ q.amount = requests[id].amount
    BY <2>1, <2>3, NotedKeeps
  <2> QED BY <1>1, <2>2, <2>4, NotedOnly
<1>6. ASSUME NEW id \in DOMAIN requests, Cancel(id)  PROVE PaidOnce'
  <2>1. PICK r : r = requests[id]
    OBVIOUS
  <2>2. PICK q : q = [r EXCEPT !.cancelled = TRUE]
    OBVIOUS
  <2>3. requests' = [requests EXCEPT ![id] = q]
    <3>1. requests' = [requests EXCEPT ![id] = [requests[id] EXCEPT !.cancelled = TRUE]]
      BY <1>6, Zenon DEF Cancel
    <3> QED BY <2>1, <2>2, <3>1, Zenon
  <2>4. r \in Requests
    BY <1>1, <2>1
  <2>5. q = [amount |-> r.amount, expires |-> r.expires, count |-> r.count,
             approvals |-> r.approvals, executed |-> r.executed, cancelled |-> TRUE]
    BY <2>2, <2>4 DEF Requests
  <2>6. q.executed = requests[id].executed /\ q.amount = requests[id].amount
    BY <2>1, <2>5
  <2>7. treasury' = treasury
    BY <1>6 DEF Cancel
  <2> QED BY <1>1, <2>3, <2>6, <2>7, NotedOnly
<1>7. ASSUME NEW id \in DOMAIN requests, Execute(id)  PROVE PaidOnce'
  BY <1>1, <1>7, ExecutePays
<1>8. CASE MultiSigNext
  BY <1>2, <1>3, <1>4, <1>5, <1>6, <1>7, <1>8
     DEF MultiSigNext, Configure, UpdateConfig, DisableMultiSig, WithdrawEarnings, TopUp, Tick,
         multiSigVars
<1>9. CASE UNCHANGED <<now, multiSigVars>>
  BY <1>2, <1>9 DEF multiSigVars
<1> QED BY <1>8, <1>9

\* The treasury has received the amount of every executed request, once.
THEOREM MultiSigPaidOnce == MultiSigSpec => []PaidOnce
<1>1. now = 0 /\ MultiSigInit => PaidOnce
  <2> SUFFICES ASSUME now = 0, MultiSigInit PROVE PaidOnce
    OBVIOUS
  <2>1. IdsExecuted = {}
    BY DEF MultiSigInit, IdsExecuted
  <2> QED BY <2>1, SumOfNothing DEF MultiSigInit, PaidOnce
<1> QED BY <1>1, PaidOnceStep, MultiSigInvariant, PTL DEF MultiSigSpec

=============================================================================
