----------------------- MODULE ContinuousStream_proofs -----------------------
(***************************************************************************)
(* Proofs about ContinuousStream, for every set of streams, rates, caps    *)
(* and bounds: the inductive invariant, and what follows from it.          *)
(***************************************************************************)
EXTENDS ContinuousStream, TLAPS

\* update_continuous_flow stamps every settlement with the time it happened, so
\* no stored or cached timestamp is ahead of the ledger.
TimestampsInPast ==
    \A s \in Streams :
        /\ Exists(s) => flow[s].last <= now
        /\ cache[s].at <= now
        /\ beat[s] <= now

IInv == TypeOK /\ TimestampsInPast /\ FundsConserved /\ ActiveIsFunded

ReleasedBy(b) == b["streamed"] + b["withdrawn"] + b["refunded"]
                 + b["slashed"] + b["forfeited"]

-----------------------------------------------------------------------------
(* Arithmetic of fees and slashes *)

\* Scaling by a fraction never gains: floor(a * n / d) <= a when n <= d.
LEMMA ScaleBound ==
    ASSUME NEW a \in Nat, NEW n \in Nat, NEW d \in Nat \ {0}, n <= d
    PROVE  (a * n) \div d \in Nat /\ (a * n) \div d <= a
<1> DEFINE q == (a * n) \div d
<1>1. a * n \in Nat /\ a * n <= a * d
  OBVIOUS
<1>2. q \in Nat /\ d * q <= a * n
  BY <1>1
<1>3. ASSUME q > a PROVE FALSE
  <2> HIDE DEF q
  <2>1. d * (q - a) >= 1
    BY <1>2, <1>3
  <2>2. d * q - a * d >= 1
    BY <1>2, <2>1
  <2> QED BY <1>1, <1>2, <2>2
<1> QED BY <1>2, <1>3

\* A proper fraction of something positive is less than all of it.
LEMMA ScaleStrict ==
    ASSUME NEW a \in Nat \ {0}, NEW n \in Nat, NEW d \in Nat \ {0}, n < d
    PROVE  (a * n) \div d < a
<1> DEFINE q == (a * n) \div d
<1>1. a * n \in Nat /\ a * n < a * d
  OBVIOUS
<1>2. q \in Nat /\ d * q <= a * n
  BY <1>1
<1>3. ASSUME q >= a PROVE FALSE
  <2> HIDE DEF q
  <2>1. d * (q - a) >= 0
    BY <1>2, <1>3
  <2>2. d * q - a * d >= 0
    BY <1>2, <2>1
  <2> QED BY <1>1, <1>2, <2>2
<1> QED BY <1>2, <1>3

-----------------------------------------------------------------------------
(* Settlement *)

\* What accrues is never negative, whether it is computed or read back.
LEMMA AccumulationNat ==
    ASSUME IInv, NEW s \in Streams, Exists(s)
    PROVE  /\ Accumulation(s) \in Nat
           /\ PlatformFee(Accumulation(s)) \in 0 .. Accumulation(s)
           /\ CacheAfter(s) \in [Streams -> [acc : Nat, at : Nat] \cup {NoCache}]
           /\ \A t \in Streams : CacheAfter(s)[t].at <= now
<1> USE DEF IInv, TypeOK, TimestampsInPast, Exists
<1>1. flow[s] \in Flows /\ flow[s].last <= now
  BY DEF NoFlow
<1>2. FreshAccumulation(flow[s]) \in Nat
  BY <1>1 DEF FreshAccumulation, Flows
<1>3. ASSUME CacheUsable(s) PROVE cache[s].acc \in Nat
  BY <1>1, <1>3 DEF CacheUsable, NoCache, Flows
<1>4. Accumulation(s) \in Nat
  BY <1>2, <1>3 DEF Accumulation
<1>5. feeBps \in Nat /\ FeeDenominator \in Nat \ {0} /\ feeBps <= FeeDenominator
  BY StreamAssumption
<1>6. PlatformFee(Accumulation(s)) \in 0 .. Accumulation(s)
  BY <1>4, <1>5, ScaleBound DEF PlatformFee
<1>7. CacheAfter(s) \in [Streams -> [acc : Nat, at : Nat] \cup {NoCache}]
  BY <1>2 DEF CacheAfter
<1>8. \A t \in Streams : CacheAfter(s)[t].at <= now
  BY <1>2 DEF CacheAfter
<1> QED BY <1>4, <1>6, <1>7, <1>8

\* What a settlement guarantees of the outcome u it computes for stream f.
Settled(f, u) ==
    /\ u.flow \in Flows
    /\ u.flow.last = now
    /\ u.charged \in Nat /\ u.charged <= f.balance + f.buffer
    /\ u.fleetDelta \in Int
    /\ u.flow.balance + u.flow.buffer = f.balance + f.buffer - u.charged
    /\ u.flow.status = "Active" => u.flow.balance + u.flow.buffer > 0

\* A settlement takes from the stream exactly what it reports as charged, at
\* most all of it, and leaves an Active stream only with funds.
LEMMA SettleSettles ==
    ASSUME now \in Nat, NEW f \in Flows, NEW net \in Nat
    PROVE  Settled(f, Settle(f, net))
<1> DEFINE u == Settle(f, net)
<1>1. /\ f.rate \in Nat /\ f.balance \in Nat /\ f.buffer \in Nat
      /\ f.status \in StreamStatus /\ f.provider \in Providers
  BY DEF Flows, StreamStatus
<1>2. CASE BufferShort(f, net)
  <2>1. u = [flow |-> [rate |-> 0, balance |-> 0, buffer |-> 0, last |-> now,
                       status |-> "Depleted", provider |-> f.provider],
             charged |-> f.balance + f.buffer,
             fleetDelta |-> - f.rate]
    BY <1>1, <1>2 DEF Settle, BufferShort, Clamp
  <2> QED BY <1>1, <1>2, <2>1 DEF Settled, Flows, StreamStatus
<1>3. CASE ~ (BufferShort(f, net))
  <2> DEFINE balance == Clamp(f.balance - net)
             buffer == f.buffer - Clamp(net - f.balance)
  <2>1. /\ balance \in Nat /\ buffer \in Nat
        /\ balance + buffer = f.balance + f.buffer - net
    BY <1>1, <1>3 DEF Clamp, BufferShort
  <2> HIDE DEF balance, buffer
  <2>2. CASE balance = 0 /\ buffer = 0 /\ f.status # "Depleted"
    <3>1. u = [flow |-> [rate |-> 0, balance |-> balance, buffer |-> buffer,
                         last |-> now, status |-> "Depleted",
                         provider |-> f.provider],
               charged |-> net,
               fleetDelta |-> - f.rate]
      BY <1>1, <1>3, <2>2 DEF Settle, BufferShort, balance, buffer
    <3> QED BY <1>1, <2>1, <3>1 DEF Settled, Flows, StreamStatus
  <2>3. CASE ~ (balance = 0 /\ buffer = 0 /\ f.status # "Depleted")
    <3> DEFINE status == IF f.status = "Paused" THEN "Active" ELSE f.status
    <3>1. u = [flow |-> [rate |-> f.rate, balance |-> balance, buffer |-> buffer,
                         last |-> now, status |-> status, provider |-> f.provider],
               charged |-> net, fleetDelta |-> 0]
      BY <1>1, <1>3, <2>3 DEF Settle, BufferShort, balance, buffer
    <3>2. status \in StreamStatus
      BY <1>1 DEF StreamStatus
    <3>3. status = "Active" => balance + buffer > 0
      BY <1>1, <2>1, <2>3
    <3> HIDE DEF status
    <3> QED BY <1>1, <2>1, <3>1, <3>2, <3>3 DEF Settled, Flows, StreamStatus
  <2> QED BY <2>2, <2>3
<1> QED BY <1>2, <1>3

\* What update_continuous_flow computes for a stored stream is a settlement.
LEMMA UpdateSettles ==
    ASSUME IInv, NEW s \in Streams, Exists(s)
    PROVE  /\ Settled(flow[s], UpdateContinuousFlow(s))
           /\ flow[s] \in Flows
<1>1. flow[s] \in Flows /\ now \in Nat
  BY DEF IInv, TypeOK, Exists, NoFlow
<1>2. Accumulation(s) - PlatformFee(Accumulation(s)) \in Nat
  BY AccumulationNat
<1> QED BY <1>1, <1>2, SettleSettles DEF UpdateContinuousFlow, NetAccumulation

-----------------------------------------------------------------------------
(* Steps *)

\* A call on one stream preserves the invariant when the record and the history
\* it stores for that stream are well formed, balanced and funded.
LEMMA StreamStep ==
    ASSUME IInv,
           NEW s \in Streams, NEW f \in Flows, NEW b \in [Causes -> Nat],
           flow' = [flow EXCEPT ![s] = f],
           book' = [book EXCEPT ![s] = b],
           f.last <= now,
           f.status = "Active" => f.balance + f.buffer > 0,
           b["credited"] = f.balance + f.buffer + ReleasedBy(b),
           cache' = cache \/ (cache' = CacheAfter(s) /\ Exists(s)),
           fleet' \in [Providers -> Nat],
           now' = now, cap' = cap, feeBps' = feeBps, beat' = beat
    PROVE  IInv'
<1> USE DEF IInv
<1>1. /\ cache' \in [Streams -> [acc : Nat, at : Nat] \cup {NoCache}]
      /\ \A t \in Streams : cache'[t].at <= now
  BY AccumulationNat DEF TypeOK, TimestampsInPast
<1>2. f.status # "None"
  BY DEF Flows, StreamStatus
<1>3. TypeOK'
  BY <1>1 DEF TypeOK
<1>4. TimestampsInPast'
  BY <1>1, <1>2 DEF TimestampsInPast, TypeOK, Exists
<1>5. ASSUME NEW t \in Streams
      PROVE  /\ (book[t]["credited"] = Held(t) + Released(t))'
             /\ (flow[t].status = "Active" => Held(t) > 0)'
  <2>1. CASE t = s
    BY <1>2, <2>1 DEF TypeOK, Held, Released, ReleasedBy, Exists
  <2>2. CASE t # s
    <3>1. flow'[t] = flow[t] /\ book'[t] = book[t]
      BY <2>2 DEF TypeOK
    <3> QED BY <3>1 DEF FundsConserved, ActiveIsFunded, Held, Released, Exists
  <2> QED BY <2>1, <2>2
<1>6. FundsConserved' /\ ActiveIsFunded'
  BY <1>5 DEF FundsConserved, ActiveIsFunded
<1> QED BY <1>3, <1>4, <1>6

\* fleet_apply_delta keeps every aggregate a natural number.
LEMMA FleetStays ==
    ASSUME IInv, NEW p \in Providers, NEW d \in Int,
           fleet' = [fleet EXCEPT ![p] = FleetApplyDelta(@, d)]
    PROVE  fleet' \in [Providers -> Nat]
BY DEF IInv, TypeOK, FleetApplyDelta, Clamp

\* What the invariant says of one stream.
LEMMA StreamFacts ==
    ASSUME IInv, NEW s \in Streams
    PROVE  /\ book[s] \in [Causes -> Nat]
           /\ book[s]["credited"] = Held(s) + ReleasedBy(book[s])
           /\ Held(s) \in Nat
           /\ now \in Nat
           /\ Exists(s) => /\ flow[s] \in Flows
                           /\ Held(s) = flow[s].balance + flow[s].buffer
                           /\ flow[s].last <= now
                           /\ flow[s].status = "Active" => Held(s) > 0
<1>1. flow[s] \in Flows \/ flow[s] = NoFlow
  BY DEF IInv, TypeOK
<1> QED BY <1>1 DEF IInv, TypeOK, FundsConserved, ActiveIsFunded, TimestampsInPast,
                    Held, Released, ReleasedBy, Exists, NoFlow, Flows, StreamStatus

\* create_continuous_stream opens a balanced account, and books what the
\* overwritten stream held as forfeited.
LEMMA CreateStep ==
    ASSUME IInv, NEW s \in Streams, NEW p \in Providers, NEW rate \in Rates,
           NEW initial \in Amounts \cup {0},
           CreateContinuousStream(s, p, rate, initial)
    PROVE  IInv'
<1> DEFINE buffer == rate * BufferSeconds
           status == IF initial > 0 THEN "Active" ELSE "Paused"
           f == [rate |-> rate, balance |-> initial, buffer |-> buffer,
                 last |-> now, status |-> status, provider |-> p]
           b == [book[s] EXCEPT !["credited"] = @ + initial + buffer,
                                !["forfeited"] = @ + Held(s), !["due"] = 0]
<1>1. buffer \in Nat /\ initial \in Nat /\ rate \in Nat
  BY StreamAssumption
<1>2. flow' = [flow EXCEPT ![s] = f] /\ book' = [book EXCEPT ![s] = b]
  BY DEF CreateContinuousStream, IInv, TypeOK
<1>3. status \in {"Active", "Paused"} /\ (status = "Active" => initial > 0)
  BY <1>1
<1>4. fleet' \in [Providers -> Nat]
  BY <1>1 DEF CreateContinuousStream, IInv, TypeOK, FleetApplyDelta, Clamp
<1> HIDE DEF buffer, status
<1>5. f \in Flows /\ f.last <= now /\ (f.status = "Active" => f.balance + f.buffer > 0)
  BY <1>1, <1>3, StreamFacts DEF Flows, StreamStatus
<1>6. /\ b \in [Causes -> Nat]
      /\ b["credited"] = f.balance + f.buffer + ReleasedBy(b)
  BY <1>1, StreamFacts DEF ReleasedBy, Causes
<1>7. now' = now /\ cap' = cap /\ feeBps' = feeBps /\ beat' = beat /\ cache' = cache
  BY DEF CreateContinuousStream
<1> HIDE DEF f, b
<1> QED BY <1>2, <1>4, <1>5, <1>6, <1>7, StreamStep

\* Booking a settlement of s moves what it charged from credit to revenue.
LEMMA BookingBalances ==
    ASSUME IInv, NEW s \in Streams, Exists(s)
    PROVE  LET b == BookSettled(s, UpdateContinuousFlow(s))
               u == UpdateContinuousFlow(s)
           IN  /\ b \in [Causes -> Nat]
               /\ b["credited"] = u.flow.balance + u.flow.buffer + ReleasedBy(b)
<1> DEFINE u == UpdateContinuousFlow(s)
<1>a. Settled(flow[s], u)
  BY UpdateSettles
<1> HIDE DEF u
<1>b. /\ u.flow \in Flows /\ u.charged \in Nat
      /\ u.flow.balance + u.flow.buffer = flow[s].balance + flow[s].buffer - u.charged
  BY <1>a DEF Settled
<1>c. Held(s) = flow[s].balance + flow[s].buffer /\ flow[s] \in Flows
  BY StreamFacts
<1>1. /\ u.charged \in Nat
      /\ u.flow.balance + u.flow.buffer = Held(s) - u.charged
  BY <1>b, <1>c DEF Flows
<1>2. /\ book[s] \in [Causes -> Nat] /\ Held(s) \in Nat
      /\ book[s]["credited"] = Held(s) + ReleasedBy(book[s])
  BY StreamFacts
<1> DEFINE n == u.charged
           b == [book[s] EXCEPT !["streamed"] = @ + n, !["due"] = 0]
<1>3. BookSettled(s, u) = b
  BY DEF BookSettled
<1>4. n \in Nat
  BY <1>1
<1> HIDE DEF n
<1>5. b \in [Causes -> Nat] /\ b["credited"] = Held(s) - n + ReleasedBy(b)
  BY <1>2, <1>4 DEF ReleasedBy, Causes
<1> HIDE DEF b, u
<1>6. u.flow.balance + u.flow.buffer = Held(s) - n
  BY <1>1 DEF n
<1> QED BY <1>3, <1>5, <1>6 DEF u

\* The settled record of a stream and the history that goes with it, as the
\* calls that settle first find them.
LEMMA AfterUpdate ==
    ASSUME IInv, NEW s \in Streams, Exists(s)
    PROVE  LET u == UpdateContinuousFlow(s)
               b == BookSettled(s, u)
           IN  /\ u.flow \in Flows
               /\ u.flow.last = now /\ now \in Nat
               /\ u.flow.status = "Active" => u.flow.balance + u.flow.buffer > 0
               /\ b \in [Causes -> Nat]
               /\ b["credited"] = u.flow.balance + u.flow.buffer + ReleasedBy(b)
               /\ u.fleetDelta \in Int
               /\ flow[s].provider \in Providers
BY UpdateSettles, BookingBalances, StreamFacts DEF Settled, Flows, StreamStatus

\* Rewriting two fields of a stream record.
WithBalance(r, n, st) == [r EXCEPT !.balance = n, !.status = st]
WithRate(r, n, st) == [r EXCEPT !.rate = n, !.status = st]

\* Rewriting balance and status keeps a stream record well formed.
LEMMA WithBalanceFlow ==
    ASSUME NEW r \in Flows, NEW n \in Nat, NEW st \in StreamStatus
    PROVE  LET f == WithBalance(r, n, st)
           IN  /\ f \in Flows /\ f.balance = n /\ f.status = st
               /\ f.buffer = r.buffer /\ f.last = r.last
<1> DEFINE q == [r EXCEPT !.balance = n]
<1>1. q \in Flows /\ q.balance = n /\ q.buffer = r.buffer /\ q.last = r.last
  BY DEF Flows, StreamStatus
<1> HIDE DEF q
<1>2. LET f == [q EXCEPT !.status = st]
      IN  /\ f \in Flows /\ f.balance = n /\ f.status = st
          /\ f.buffer = r.buffer /\ f.last = r.last
  BY <1>1 DEF Flows, StreamStatus
<1> QED BY <1>2 DEF q, WithBalance

\* Rewriting rate and status keeps a stream record well formed.
LEMMA WithRateFlow ==
    ASSUME NEW r \in Flows, NEW n \in Nat, NEW st \in StreamStatus
    PROVE  LET f == WithRate(r, n, st)
           IN  /\ f \in Flows /\ f.status = st /\ f.balance = r.balance
               /\ f.buffer = r.buffer /\ f.last = r.last
<1> DEFINE q == [r EXCEPT !.rate = n]
<1>1. q \in Flows /\ q.balance = r.balance /\ q.buffer = r.buffer /\ q.last = r.last
  BY DEF Flows, StreamStatus
<1> HIDE DEF q
<1>2. LET f == [q EXCEPT !.status = st]
      IN  /\ f \in Flows /\ f.status = st /\ f.balance = r.balance
          /\ f.buffer = r.buffer /\ f.last = r.last
  BY <1>1 DEF Flows, StreamStatus
<1> QED BY <1>2 DEF q, WithRate

\* add_continuous_balance preserves the invariant: it wakes a stream it funds.
LEMMA AddBalanceStep ==
    ASSUME IInv, NEW s \in Streams, NEW amount \in Amounts, AddBalance(s, amount)
    PROVE  IInv'
<1> DEFINE u == UpdateContinuousFlow(s)
           g == u.flow
           h == BookSettled(s, u)
           st == IF g.rate > 0 THEN "Active" ELSE g.status
           n == g.balance + amount
           f == WithBalance(g, n, st)
           b == [h EXCEPT !["credited"] = @ + amount]
<1>1. /\ flow' = [flow EXCEPT ![s] = f] /\ book' = [book EXCEPT ![s] = b]
      /\ Exists(s) /\ cache' = CacheAfter(s)
      /\ now' = now /\ cap' = cap /\ feeBps' = feeBps /\ beat' = beat
  BY DEF AddBalance, WithBalance
<1>2. amount \in Nat \ {0}
  BY StreamAssumption
<1>3. /\ g \in Flows /\ g.last = now /\ now \in Nat
      /\ g.status = "Active" => g.balance + g.buffer > 0
      /\ h \in [Causes -> Nat]
      /\ h["credited"] = g.balance + g.buffer + ReleasedBy(h)
  BY <1>1, AfterUpdate
<1>4. fleet' \in [Providers -> Nat]
  BY <1>1, AfterUpdate, FleetStays DEF AddBalance
<1> HIDE DEF g, h
<1>5. n \in Nat \ {0} /\ st \in StreamStatus
  BY <1>2, <1>3 DEF Flows, StreamStatus
<1> HIDE DEF st, n
<1>6. /\ f \in Flows /\ f.last = g.last /\ f.balance = n /\ f.buffer = g.buffer
  BY <1>3, <1>5, WithBalanceFlow
<1> HIDE DEF f
<1>7. /\ b \in [Causes -> Nat]
      /\ b["credited"] = f.balance + f.buffer + ReleasedBy(b)
  BY <1>2, <1>3, <1>6 DEF ReleasedBy, Causes, Flows, n
<1>8. f.last <= now /\ f.balance + f.buffer > 0
  BY <1>3, <1>5, <1>6 DEF Flows, StreamStatus
<1> HIDE DEF b
<1> QED BY <1>1, <1>4, <1>6, <1>7, <1>8, StreamStep

\* add_continuous_buffer preserves the invariant.
LEMMA AddBufferStep ==
    ASSUME IInv, NEW s \in Streams, NEW amount \in Amounts, AddBuffer(s, amount)
    PROVE  IInv'
<1> DEFINE u == UpdateContinuousFlow(s)
           g == u.flow
           h == BookSettled(s, u)
           f == [g EXCEPT !.buffer = @ + amount]
           b == [h EXCEPT !["credited"] = @ + amount]
<1>1. /\ flow' = [flow EXCEPT ![s] = f] /\ book' = [book EXCEPT ![s] = b]
      /\ Exists(s) /\ cache' = CacheAfter(s)
      /\ now' = now /\ cap' = cap /\ feeBps' = feeBps /\ beat' = beat
  BY DEF AddBuffer
<1>2. amount \in Nat \ {0}
  BY StreamAssumption
<1>3. /\ g \in Flows /\ g.last = now /\ now \in Nat
      /\ h \in [Causes -> Nat]
      /\ h["credited"] = g.balance + g.buffer + ReleasedBy(h)
  BY <1>1, AfterUpdate
<1>4. fleet' \in [Providers -> Nat]
  BY <1>1, AfterUpdate, FleetStays DEF AddBuffer
<1> HIDE DEF g, h
<1>5. /\ f \in Flows /\ f.last = g.last
      /\ f.balance = g.balance /\ f.buffer = g.buffer + amount
  BY <1>2, <1>3 DEF Flows, StreamStatus
<1> HIDE DEF f
<1>6. /\ b \in [Causes -> Nat]
      /\ b["credited"] = f.balance + f.buffer + ReleasedBy(b)
  BY <1>2, <1>3, <1>5 DEF ReleasedBy, Causes, Flows
<1>7. f.last <= now /\ f.balance + f.buffer > 0
  BY <1>2, <1>3, <1>5 DEF Flows
<1> HIDE DEF b
<1> QED BY <1>1, <1>4, <1>5, <1>6, <1>7, StreamStep

\* withdraw_continuous preserves the invariant: it depletes what it empties.
LEMMA WithdrawStep ==
    ASSUME IInv, NEW s \in Streams, NEW amount \in Amounts,
           WithdrawContinuous(s, amount)
    PROVE  IInv'
<1> DEFINE u == UpdateContinuousFlow(s)
           g == u.flow
           h == BookSettled(s, u)
           n == g.balance - amount
           st == IF n = 0 /\ g.buffer = 0 THEN "Depleted" ELSE g.status
           f == WithBalance(g, n, st)
           b == [h EXCEPT !["withdrawn"] = @ + amount]
<1>1. /\ flow' = [flow EXCEPT ![s] = f] /\ book' = [book EXCEPT ![s] = b]
      /\ Exists(s) /\ cache' = CacheAfter(s) /\ n >= 0
      /\ now' = now /\ cap' = cap /\ feeBps' = feeBps /\ beat' = beat
  BY DEF WithdrawContinuous, WithBalance
<1>2. amount \in Nat \ {0}
  BY StreamAssumption
<1>3. /\ g \in Flows /\ g.last = now /\ now \in Nat
      /\ h \in [Causes -> Nat]
      /\ h["credited"] = g.balance + g.buffer + ReleasedBy(h)
  BY <1>1, AfterUpdate
<1>4. fleet' \in [Providers -> Nat]
  BY <1>1, AfterUpdate, FleetStays DEF WithdrawContinuous
<1> HIDE DEF g, h
<1>5. n \in Nat /\ st \in StreamStatus /\ (st = "Active" => n + g.buffer > 0)
  BY <1>1, <1>2, <1>3 DEF Flows, StreamStatus
<1> HIDE DEF st, n
<1>6. /\ f \in Flows /\ f.last = g.last /\ f.balance = n /\ f.buffer = g.buffer
      /\ f.status = st
  BY <1>3, <1>5, WithBalanceFlow
<1> HIDE DEF f
<1>7. /\ b \in [Causes -> Nat]
      /\ b["credited"] = f.balance + f.buffer + ReleasedBy(b)
  BY <1>2, <1>3, <1>6 DEF ReleasedBy, Causes, Flows, n
<1>8. f.last <= now /\ (f.status = "Active" => f.balance + f.buffer > 0)
  BY <1>3, <1>5, <1>6
<1> HIDE DEF b
<1> QED BY <1>1, <1>4, <1>6, <1>7, <1>8, StreamStep

\* get_buffer_balance preserves the invariant, stored or not.
LEMMA GetBufferStep ==
    ASSUME IInv, NEW s \in Streams, GetBufferBalance(s)
    PROVE  IInv'
<1> DEFINE u == UpdateContinuousFlow(s)
           f == IF RunsShort(s) THEN u.flow ELSE flow[s]
           b == IF RunsShort(s) THEN BookSettled(s, u) ELSE book[s]
<1>1. /\ flow' = [flow EXCEPT ![s] = f] /\ book' = [book EXCEPT ![s] = b]
      /\ Exists(s) /\ cache' = CacheAfter(s)
      /\ now' = now /\ cap' = cap /\ feeBps' = feeBps /\ beat' = beat
  BY DEF GetBufferBalance
<1>2. fleet' \in [Providers -> Nat]
  BY <1>1, AfterUpdate, FleetStays DEF GetBufferBalance
<1>3. /\ f \in Flows /\ f.last <= now
      /\ f.status = "Active" => f.balance + f.buffer > 0
      /\ b \in [Causes -> Nat]
      /\ b["credited"] = f.balance + f.buffer + ReleasedBy(b)
  <2>1. CASE RunsShort(s)
    BY <1>1, <2>1, AfterUpdate
  <2>2. CASE ~RunsShort(s)
    BY <1>1, <2>2, StreamFacts
  <2> QED BY <2>1, <2>2
<1> HIDE DEF f, b
<1> QED BY <1>1, <1>2, <1>3, StreamStep

\* close_stream_amicably preserves the invariant, whichever record it refunds.
LEMMA CloseStep ==
    ASSUME IInv, NEW s \in Streams, CloseStreamAmicably(s)
    PROVE  IInv'
<1> DEFINE u == UpdateContinuousFlow(s)
           flowing == u.flow.status = "Active" /\ u.flow.rate > 0
           stored == IF flowing THEN [u.flow EXCEPT !.rate = 0] ELSE flow[s]
           h == IF flowing THEN BookSettled(s, u) ELSE book[s]
           delta == IF flowing THEN - u.flow.rate ELSE u.fleetDelta
           q == [stored EXCEPT !.buffer = 0]
           f == [q EXCEPT !.status = "Depleted"]
           b == [h EXCEPT !["refunded"] = @ + stored.buffer]
<1>1. /\ flow' = [flow EXCEPT ![s] = f] /\ book' = [book EXCEPT ![s] = b]
      /\ Exists(s) /\ cache' = CacheAfter(s)
      /\ now' = now /\ cap' = cap /\ feeBps' = feeBps /\ beat' = beat
  BY DEF CloseStreamAmicably
<1>2. /\ stored \in Flows /\ stored.last <= now /\ now \in Nat
      /\ h \in [Causes -> Nat]
      /\ h["credited"] = stored.balance + stored.buffer + ReleasedBy(h)
      /\ delta \in Int
  <2> DEFINE g == u.flow
  <2>1. /\ g \in Flows /\ g.last = now /\ now \in Nat
        /\ BookSettled(s, u) \in [Causes -> Nat]
        /\ BookSettled(s, u)["credited"]
             = g.balance + g.buffer + ReleasedBy(BookSettled(s, u))
        /\ u.fleetDelta \in Int
    BY <1>1, AfterUpdate
  <2>2. CASE flowing
    <3> HIDE DEF g
    <3>1. stored = [g EXCEPT !.rate = 0] /\ h = BookSettled(s, u) /\ delta = - g.rate
      BY <2>2 DEF g
    <3> HIDE DEF stored, h, u, delta
    <3>2. /\ stored \in Flows /\ stored.last = g.last
          /\ stored.balance = g.balance /\ stored.buffer = g.buffer
      BY <2>1, <3>1 DEF Flows, StreamStatus
    <3>3. delta \in Int
      BY <2>1, <3>1 DEF Flows
    <3> QED BY <2>1, <3>1, <3>2, <3>3
  <2>3. CASE ~flowing
    BY <1>1, <2>1, <2>3, StreamFacts
  <2> QED BY <2>2, <2>3
<1>3. fleet' \in [Providers -> Nat]
  BY <1>1, <1>2, AfterUpdate, FleetStays DEF CloseStreamAmicably
<1> HIDE DEF stored, h
<1>4. /\ q \in Flows /\ q.last = stored.last
      /\ q.balance = stored.balance /\ q.buffer = 0
  BY <1>2 DEF Flows, StreamStatus
<1> HIDE DEF q
<1>5. /\ f \in Flows /\ f.last = stored.last /\ f.status = "Depleted"
      /\ f.balance = stored.balance /\ f.buffer = 0
  BY <1>4 DEF Flows, StreamStatus
<1> HIDE DEF f
<1>6. /\ b \in [Causes -> Nat]
      /\ b["credited"] = f.balance + f.buffer + ReleasedBy(b)
  BY <1>2, <1>5 DEF ReleasedBy, Causes, Flows
<1>7. f.last <= now /\ f.status # "Active"
  BY <1>2, <1>5
<1> HIDE DEF b
<1> QED BY <1>1, <1>3, <1>5, <1>6, <1>7, StreamStep

\* update_flow_rate preserves the invariant: only a funded stream wakes up.
LEMMA UpdateRateStep ==
    ASSUME IInv, NEW s \in Streams, NEW rate \in Rates \cup {0},
           UpdateFlowRate(s, rate)
    PROVE  IInv'
<1> DEFINE g == flow[s]
           st == IF rate = 0 THEN "Paused"
                 ELSE IF g.status = "Paused" /\ Held(s) > 0 THEN "Active"
                 ELSE g.status
           delta == IF g.status # "Depleted" /\ st # "Depleted"
                    THEN rate - g.rate ELSE 0
           f == WithRate(g, rate, st)
<1>1. /\ flow' = [flow EXCEPT ![s] = f] /\ book' = book
      /\ Exists(s) /\ cache' = cache
      /\ now' = now /\ cap' = cap /\ feeBps' = feeBps /\ beat' = beat
      /\ fleet' = [fleet EXCEPT ![g.provider] = FleetApplyDelta(@, delta)]
  BY DEF UpdateFlowRate, WithRate
<1>2. rate \in Nat
  BY StreamAssumption
<1>3. /\ g \in Flows /\ g.last <= now
      /\ g.status = "Active" => Held(s) > 0
      /\ Held(s) = g.balance + g.buffer /\ Held(s) \in Nat
      /\ book[s] \in [Causes -> Nat]
      /\ book[s]["credited"] = Held(s) + ReleasedBy(book[s])
  BY <1>1, StreamFacts
<1>4. book' = [book EXCEPT ![s] = book[s]]
  BY <1>1 DEF IInv, TypeOK
<1> HIDE DEF g
<1>5. st \in StreamStatus /\ (st = "Active" => Held(s) > 0)
  BY <1>3 DEF Flows, StreamStatus
<1>6. delta \in Int /\ g.provider \in Providers
  BY <1>2, <1>3 DEF Flows
<1> HIDE DEF st, delta
<1>7. fleet' \in [Providers -> Nat]
  BY <1>1, <1>6, FleetStays
<1>8. /\ f \in Flows /\ f.status = st /\ f.last = g.last
      /\ f.balance = g.balance /\ f.buffer = g.buffer
  BY <1>2, <1>3, <1>5, WithRateFlow
<1> HIDE DEF f
<1>9. /\ f.last <= now
      /\ f.status = "Active" => f.balance + f.buffer > 0
      /\ book[s]["credited"] = f.balance + f.buffer + ReleasedBy(book[s])
  BY <1>3, <1>5, <1>8
<1> QED BY <1>1, <1>3, <1>4, <1>7, <1>8, <1>9, StreamStep

\* pause_stream preserves the invariant.
LEMMA PauseStep ==
    ASSUME IInv, NEW s \in Streams, PauseStream(s)
    PROVE  IInv'
<1> DEFINE u == UpdateContinuousFlow(s)
           g == u.flow
           h == BookSettled(s, u)
           f == WithRate(g, 0, "Paused")
           agg == FleetApplyDelta(fleet[flow[s].provider], u.fleetDelta)
<1>1. /\ flow' = [flow EXCEPT ![s] = f] /\ book' = [book EXCEPT ![s] = h]
      /\ Exists(s) /\ cache' = CacheAfter(s)
      /\ now' = now /\ cap' = cap /\ feeBps' = feeBps /\ beat' = beat
      /\ fleet' = [fleet EXCEPT ![flow[s].provider] = FleetApplyDelta(agg, - g.rate)]
  BY DEF PauseStream, WithRate, Exists
<1>2. /\ g \in Flows /\ g.last = now /\ now \in Nat
      /\ h \in [Causes -> Nat]
      /\ h["credited"] = g.balance + g.buffer + ReleasedBy(h)
      /\ u.fleetDelta \in Int /\ flow[s].provider \in Providers
  BY <1>1, AfterUpdate
<1> HIDE DEF u, g, h
<1>3. agg \in Nat
  BY <1>2 DEF IInv, TypeOK, FleetApplyDelta, Clamp
<1> HIDE DEF agg
<1>4. FleetApplyDelta(agg, - g.rate) \in Nat
  BY <1>2, <1>3 DEF FleetApplyDelta, Clamp, Flows
<1>5. fleet' \in [Providers -> Nat]
  BY <1>1, <1>4 DEF IInv, TypeOK
<1>6. /\ f \in Flows /\ f.status = "Paused" /\ f.last = g.last
      /\ f.balance = g.balance /\ f.buffer = g.buffer
  <2>1. "Paused" \in StreamStatus
    BY DEF StreamStatus
  <2> QED BY <1>2, <2>1, WithRateFlow
<1> HIDE DEF f
<1>7. f.last <= now /\ f.status # "Active"
  BY <1>2, <1>6
<1>8. h["credited"] = f.balance + f.buffer + ReleasedBy(h)
  BY <1>2, <1>6
<1> QED BY <1>1, <1>2, <1>5, <1>6, <1>7, <1>8, StreamStep

\* resume_stream preserves the invariant: it refuses an empty stream.
LEMMA ResumeStep ==
    ASSUME IInv, NEW s \in Streams, NEW rate \in Rates, ResumeStream(s, rate)
    PROVE  IInv'
<1> DEFINE g == flow[s]
           q == WithRate(g, rate, "Active")
           f == [q EXCEPT !.last = now]
<1>1. /\ flow' = [flow EXCEPT ![s] = f] /\ book' = book
      /\ Exists(s) /\ cache' = cache /\ Held(s) > 0
      /\ now' = now /\ cap' = cap /\ feeBps' = feeBps /\ beat' = beat
      /\ fleet' = [fleet EXCEPT ![g.provider] = FleetApplyDelta(@, rate)]
  BY DEF ResumeStream, WithRate, Exists
<1>2. rate \in Nat /\ rate \in Int
  BY StreamAssumption
<1>3. /\ g \in Flows /\ now \in Nat
      /\ Held(s) = g.balance + g.buffer
      /\ book[s] \in [Causes -> Nat]
      /\ book[s]["credited"] = Held(s) + ReleasedBy(book[s])
  BY <1>1, StreamFacts
<1>4. book' = [book EXCEPT ![s] = book[s]]
  BY <1>1 DEF IInv, TypeOK
<1> HIDE DEF g
<1>5. g.provider \in Providers
  BY <1>3 DEF Flows
<1>6. fleet' \in [Providers -> Nat]
  BY <1>1, <1>2, <1>5, FleetStays
<1>7. q \in Flows /\ q.balance = g.balance /\ q.buffer = g.buffer
  BY <1>2, <1>3, WithRateFlow DEF StreamStatus
<1> HIDE DEF q
<1>8. f \in Flows /\ f.last = now /\ f.balance = g.balance /\ f.buffer = g.buffer
  BY <1>3, <1>7 DEF Flows, StreamStatus
<1> HIDE DEF f
<1>9. /\ f.last <= now /\ f.balance + f.buffer > 0
      /\ book[s]["credited"] = f.balance + f.buffer + ReleasedBy(book[s])
  BY <1>1, <1>3, <1>8
<1> QED BY <1>1, <1>3, <1>4, <1>6, <1>8, <1>9, StreamStep

\* liveness_check_and_slash preserves the invariant: the share it takes is
\* less than the buffer.
LEMMA SlashStep ==
    ASSUME IInv, NEW s \in Streams, NEW t \in 1 .. MaxTime, ApplyLivenessSlash(s, t)
    PROVE  IInv'
<1> DEFINE g == flow[s]
           silent == now - beat[s]
           slash == SlashShare(g.buffer, silent, t)
           f == [g EXCEPT !.buffer = @ - slash]
           b == [book[s] EXCEPT !["slashed"] = @ + slash]
<1>1. /\ flow' = [flow EXCEPT ![s] = f] /\ book' = [book EXCEPT ![s] = b]
      /\ Exists(s) /\ cache' = cache /\ fleet' = fleet
      /\ now' = now /\ cap' = cap /\ feeBps' = feeBps /\ beat' = beat
      /\ beat[s] # 0 /\ silent > t
  BY DEF ApplyLivenessSlash, IInv, TypeOK
<1>2. t \in Nat \ {0} /\ silent \in Nat \ {0} /\ silent - t \in Nat
      /\ silent - t < silent
  BY <1>1, StreamAssumption DEF IInv, TypeOK
<1>3. /\ g \in Flows /\ g.last <= now
      /\ g.status = "Active" => Held(s) > 0
      /\ Held(s) = g.balance + g.buffer
      /\ book[s] \in [Causes -> Nat]
      /\ book[s]["credited"] = Held(s) + ReleasedBy(book[s])
  BY <1>1, StreamFacts
<1>4. fleet' \in [Providers -> Nat]
  BY <1>1 DEF IInv, TypeOK
<1> HIDE DEF g, silent
<1>5. g.buffer \in Nat /\ g.balance \in Nat
  BY <1>3 DEF Flows
<1>6. slash \in Nat /\ slash <= g.buffer /\ (g.buffer > 0 => slash < g.buffer)
  <2> DEFINE n == g.buffer
             k == silent - t
  <2>1. slash = (n * k) \div silent
    BY DEF SlashShare
  <2>2. n \in Nat /\ k \in Nat /\ k <= silent /\ k < silent /\ silent \in Nat \ {0}
    BY <1>2, <1>5
  <2> HIDE DEF n, k, slash
  <2>3. slash \in Nat /\ slash <= n
    BY <2>1, <2>2, ScaleBound
  <2>4. n > 0 => slash < n
    BY <2>1, <2>2, ScaleStrict
  <2> QED BY <2>3, <2>4 DEF n
<1> HIDE DEF slash
<1>7. /\ f \in Flows /\ f.last = g.last /\ f.status = g.status
      /\ f.balance = g.balance /\ f.buffer = g.buffer - slash
  BY <1>3, <1>5, <1>6 DEF Flows, StreamStatus
<1> HIDE DEF f
<1>8. /\ f.last <= now
      /\ f.status = "Active" => f.balance + f.buffer > 0
  BY <1>3, <1>5, <1>6, <1>7
<1>9. /\ b \in [Causes -> Nat]
      /\ b["credited"] = f.balance + f.buffer + ReleasedBy(b)
  <2>1. book[s]["credited"] = f.balance + f.buffer + slash + ReleasedBy(book[s])
    BY <1>3, <1>5, <1>6, <1>7 DEF ReleasedBy, Causes
  <2>2. f.balance \in Nat /\ f.buffer \in Nat
    BY <1>7 DEF Flows
  <2> QED BY <1>3, <1>6, <2>1, <2>2 DEF ReleasedBy, Causes
<1> HIDE DEF b
<1> QED BY <1>1, <1>4, <1>7, <1>8, <1>9, StreamStep

\* A ledger close only ages caches and heartbeats and lets dues grow.
LEMMA TickStep ==
    ASSUME IInv, Tick
    PROVE  IInv'
<1> USE DEF IInv
<1>1. now \in Nat /\ now' = now + 1 /\ flow' = flow
  BY DEF Tick, TypeOK
<1>2. /\ cache' \in [Streams -> [acc : Nat, at : Nat] \cup {NoCache}]
      /\ \A s \in Streams : cache'[s] = cache[s] \/ cache'[s] = NoCache
  BY DEF Tick, TypeOK
<1>3. /\ beat' \in [Streams -> Nat]
      /\ \A s \in Streams : beat'[s] = beat[s] \/ beat'[s] = 0
  BY DEF Tick, TypeOK
<1>4. ASSUME NEW s \in Streams
      PROVE  /\ book'[s] \in [Causes -> Nat]
             /\ book'[s]["credited"] = book[s]["credited"]
             /\ ReleasedBy(book'[s]) = ReleasedBy(book[s])
  <2> DEFINE d == IF flow[s].status = "Active" THEN book[s]["due"] + flow[s].rate
                  ELSE book[s]["due"]
  <2>1. book'[s] = [book[s] EXCEPT !["due"] = d]
    BY DEF Tick
  <2>2. d \in Nat
    BY StreamFacts DEF Flows, Causes, Exists
  <2> HIDE DEF d
  <2> QED BY <2>1, <2>2, StreamFacts DEF ReleasedBy, Causes
<1>5. TypeOK'
  <2>1. book' = [s \in Streams |-> book'[s]]
    BY DEF Tick
  <2> QED BY <1>1, <1>2, <1>3, <1>4, <2>1 DEF Tick, TypeOK
<1>6. TimestampsInPast'
  BY <1>1, <1>2, <1>3, StreamFacts DEF TimestampsInPast, TypeOK, Exists, NoCache, Flows
<1>7. FundsConserved'
  BY <1>1, <1>4 DEF FundsConserved, Held, Released, ReleasedBy, Exists
<1>8. ActiveIsFunded'
  BY <1>1 DEF ActiveIsFunded, Held, Exists
<1> QED BY <1>5, <1>6, <1>7, <1>8

\* Steps that touch no stream, fund or clock.
LEMMA QuietStep ==
    ASSUME IInv, UNCHANGED <<now, flow, cache, fleet, book>>,
           cap' \in [Providers -> Caps], feeBps' \in FeeSettings \cup {0},
           beat' \in [Streams -> Nat], \A s \in Streams : beat'[s] <= now
    PROVE  IInv'
BY DEF IInv, TypeOK, TimestampsInPast, FundsConserved, ActiveIsFunded,
       Held, Released, Exists

-----------------------------------------------------------------------------
(* The fleet cap *)

\* What a step may do to the aggregates.
CapKept == \A p \in Providers : fleet'[p] > fleet[p] => fleet'[p] <= cap[p]

\* A settlement never adds to the aggregate.
LEMMA SettlementShrinksFleet ==
    ASSUME NEW f \in Flows, NEW net
    PROVE  Settle(f, net).fleetDelta \in Int /\ Settle(f, net).fleetDelta <= 0
<1>1. f.rate \in Nat
  BY DEF Flows
<1> QED BY <1>1 DEF Settle

\* A change that is not positive takes no aggregate up, clamped or not.
LEMMA ShrinkKeepsCap ==
    ASSUME fleet \in [Providers -> Nat], NEW p, NEW d \in Int, d <= 0,
           fleet' = [fleet EXCEPT ![p] = FleetApplyDelta(@, d)]
    PROVE  CapKept
BY DEF CapKept, FleetApplyDelta, Clamp

\* A change there is room for takes the aggregate at most to the cap.
LEMMA RoomKeepsCap ==
    ASSUME fleet \in [Providers -> Nat], cap \in [Providers -> Int],
           NEW p \in Providers, NEW d \in Int, FleetHasRoom(p, d),
           fleet' = [fleet EXCEPT ![p] = FleetApplyDelta(@, d)]
    PROVE  CapKept
BY DEF CapKept, FleetApplyDelta, Clamp, FleetHasRoom

\* An aggregate that does not move stays within its cap.
LEMMA SameFleetKeepsCap ==
    ASSUME fleet \in [Providers -> Nat], fleet' = fleet
    PROVE  CapKept
BY DEF CapKept

\* No step takes an aggregate up beyond its cap.
LEMMA CapStep == IInv /\ [Next]_vars => CapKept
<1> SUFFICES ASSUME IInv, [Next]_vars PROVE CapKept
  OBVIOUS
<1>t. fleet \in [Providers -> Nat] /\ cap \in [Providers -> Int]
  BY StreamAssumption DEF IInv, TypeOK
<1>u. ASSUME NEW s \in Streams, Exists(s)
      PROVE  /\ UpdateContinuousFlow(s).fleetDelta \in Int
             /\ UpdateContinuousFlow(s).fleetDelta <= 0
             /\ UpdateContinuousFlow(s).flow.rate \in Nat
             /\ flow[s].provider \in Providers
  BY <1>u, StreamFacts, AfterUpdate, SettlementShrinksFleet DEF UpdateContinuousFlow, Flows
<1>1. ASSUME NEW s \in Streams, NEW p \in Providers, NEW r \in Rates,
             NEW n \in Amounts \cup {0}, CreateContinuousStream(s, p, r, n)
      PROVE  CapKept
  <2>1. r \in Int
    BY StreamAssumption
  <2>2. FleetHasRoom(p, r) /\ (\/ fleet' = fleet
                               \/ fleet' = [fleet EXCEPT ![p] = FleetApplyDelta(@, r)])
    BY <1>1, <1>t DEF CreateContinuousStream
  <2> QED BY <1>t, <2>1, <2>2, RoomKeepsCap, SameFleetKeepsCap
<1>2. ASSUME NEW s \in Streams, NEW n \in Amounts,
             AddBalance(s, n) \/ AddBuffer(s, n) \/ WithdrawContinuous(s, n)
      PROVE  CapKept
  <2>1. /\ Exists(s)
        /\ fleet' = [fleet EXCEPT ![flow[s].provider] =
                       FleetApplyDelta(@, UpdateContinuousFlow(s).fleetDelta)]
    BY <1>2 DEF AddBalance, AddBuffer, WithdrawContinuous
  <2> QED BY <1>t, <1>u, <2>1, ShrinkKeepsCap
<1>3. ASSUME NEW s \in Streams, CloseStreamAmicably(s)
      PROVE  CapKept
  <2>1. Exists(s)
    BY <1>3 DEF CloseStreamAmicably
  <2>2. PICK d : /\ d \in {- UpdateContinuousFlow(s).flow.rate,
                           UpdateContinuousFlow(s).fleetDelta}
                 /\ fleet' = [fleet EXCEPT ![flow[s].provider] = FleetApplyDelta(@, d)]
    BY <1>3 DEF CloseStreamAmicably
  <2>3. d \in Int /\ d <= 0
    BY <1>u, <2>1, <2>2
  <2> QED BY <1>t, <2>2, <2>3, ShrinkKeepsCap
<1>4. ASSUME NEW s \in Streams, GetBufferBalance(s)
      PROVE  CapKept
  <2>1. /\ Exists(s)
        /\ fleet' = [fleet EXCEPT ![flow[s].provider] =
                       FleetApplyDelta(@, UpdateContinuousFlow(s).fleetDelta)]
    BY <1>4 DEF GetBufferBalance
  <2> QED BY <1>t, <1>u, <2>1, ShrinkKeepsCap
<1>5. ASSUME NEW s \in Streams, NEW r \in Rates \cup {0}, UpdateFlowRate(s, r)
      PROVE  CapKept
  <2>1. /\ r \in Int /\ Exists(s)
    BY <1>5, StreamAssumption DEF UpdateFlowRate
  <2>2. flow[s].rate \in Int /\ flow[s].provider \in Providers
    BY <2>1, StreamFacts DEF Flows
  <2>3. PICK d : /\ d \in {r - flow[s].rate, 0}
                 /\ FleetHasRoom(flow[s].provider, d)
                 /\ fleet' = [fleet EXCEPT ![flow[s].provider] = FleetApplyDelta(@, d)]
    BY <1>5 DEF UpdateFlowRate
  <2>4. d \in Int
    BY <2>1, <2>2, <2>3
  <2> QED BY <1>t, <2>2, <2>3, <2>4, RoomKeepsCap
<1>6. ASSUME NEW s \in Streams, PauseStream(s)
      PROVE  CapKept
  <2>1. Exists(s)
    BY <1>6 DEF PauseStream, Exists
  <2>2. PICK d, r, p : /\ d = UpdateContinuousFlow(s).fleetDelta
                       /\ r = UpdateContinuousFlow(s).flow.rate
                       /\ p = flow[s].provider
    OBVIOUS
  <2>3. d \in Int /\ d <= 0 /\ r \in Nat /\ p \in Providers
    BY <1>u, <2>1, <2>2
  <2>4. fleet' = [fleet EXCEPT ![p] = FleetApplyDelta(FleetApplyDelta(fleet[p], d), - r)]
    BY <1>6, <2>2 DEF PauseStream
  <2>5. FleetApplyDelta(fleet[p], d) \in 0 .. fleet[p]
    BY <1>t, <2>3 DEF FleetApplyDelta, Clamp
  <2>6. fleet'[p] \in 0 .. fleet[p]
    BY <1>t, <2>3, <2>4, <2>5 DEF FleetApplyDelta, Clamp
  <2> QED BY <1>t, <2>4, <2>6 DEF CapKept
<1>7. ASSUME NEW s \in Streams, NEW r \in Rates, ResumeStream(s, r)
      PROVE  CapKept
  <2>1. r \in Int /\ Exists(s)
    BY <1>7, StreamAssumption DEF ResumeStream, Exists
  <2>2. flow[s].provider \in Providers
    BY <2>1, StreamFacts DEF Flows
  <2> QED BY <1>7, <1>t, <2>1, <2>2, RoomKeepsCap DEF ResumeStream
<1>8. ASSUME NEW s \in Streams,
             StreamHeartbeat(s) \/ \E t \in 1 .. MaxTime : ApplyLivenessSlash(s, t)
      PROVE  CapKept
  BY <1>8, <1>t, SameFleetKeepsCap DEF StreamHeartbeat, ApplyLivenessSlash
<1>9. ASSUME \/ \E p \in Providers, c \in Caps : SetFleetCap(p, c)
             \/ \E b \in FeeSettings : SetPlatformFeeBps(b)
             \/ Tick \/ UNCHANGED vars
      PROVE  CapKept
  BY <1>9, <1>t, SameFleetKeepsCap DEF SetFleetCap, SetPlatformFeeBps, Tick, vars
<1> QED BY <1>1, <1>2, <1>3, <1>4, <1>5, <1>6, <1>7, <1>8, <1>9 DEF Next, StreamCall

-----------------------------------------------------------------------------
(* Refinement of EscrowAccount *)

\* What a step books for stream s, b afterwards, is a transaction of its account.
Outflow(s, b) ==
    /\ b["credited"] >= book[s]["credited"]
    /\ ReleasedBy(b) - ReleasedBy(book[s]) \in 0 .. Held(s)

\* A step that books nothing is an empty transaction.
LEMMA NothingFlows ==
    ASSUME IInv, NEW s \in Streams, NEW b, b["credited"] = book[s]["credited"],
           ReleasedBy(b) = ReleasedBy(book[s])
    PROVE  Outflow(s, b)
<1>1. book[s]["credited"] \in Nat /\ ReleasedBy(book[s]) \in Nat /\ Held(s) \in Nat
  BY StreamFacts DEF ReleasedBy, Causes
<1> QED BY <1>1 DEF Outflow

\* A step that books something for one stream books nothing for the others.
LEMMA OneStreamFlows ==
    ASSUME IInv, NEW s \in Streams, NEW b, book' = [book EXCEPT ![s] = b], Outflow(s, b)
    PROVE  \A t \in Streams : Outflow(t, book'[t])
<1> SUFFICES ASSUME NEW t \in Streams PROVE Outflow(t, book'[t])
  OBVIOUS
<1>1. CASE t = s
  BY <1>1 DEF IInv, TypeOK
<1>2. CASE t # s
  BY <1>2, NothingFlows DEF IInv, TypeOK
<1> QED BY <1>1, <1>2

\* Conservation turns what is booked into a step of the abstract accounts.
LEMMA OutflowsTransact ==
    ASSUME IInv, IInv', \A s \in Streams : Outflow(s, book'[s])
    PROVE  Escrow!Next
<1> SUFFICES ASSUME NEW s \in Streams PROVE Escrow!Transact(s)
  BY DEF Escrow!Next
<1>1. /\ book'[s]["credited"] >= book[s]["credited"]
      /\ Released(s)' - Released(s) \in 0 .. Held(s)
  BY DEF Outflow, Released, ReleasedBy
<1>2. /\ book'[s]["credited"] = Held(s)' + Released(s)'
      /\ Held(s)' \in Int /\ Released(s)' \in Int /\ Released(s) \in Int /\ Held(s) \in Int
  <2>1. book'[s] \in [Causes -> Nat] /\ book[s] \in [Causes -> Nat]
    BY DEF IInv, TypeOK
  <2>2. book'[s]["credited"] \in Nat /\ Released(s)' \in Nat /\ Released(s) \in Nat
    BY <2>1 DEF Released, Causes
  <2>3. flow'[s] \in Flows \/ flow'[s] = NoFlow
    BY DEF IInv, TypeOK
  <2>4. Held(s)' \in Int
    BY <2>3 DEF Held, Exists, Flows, NoFlow
  <2> QED BY <2>2, <2>4, StreamFacts DEF IInv, FundsConserved
<1>3. Held(s)' = book'[s]["credited"] - Released(s)'
  BY <1>2
<1>4. Released(s)' >= Released(s) /\ Released(s)' - Released(s) <= Held(s)
  BY <1>1, <1>2
<1> QED BY <1>1, <1>3, <1>4 DEF Escrow!Transact

\* What a settlement books, and what it leaves to pay out.
LEMMA SettlementFlows ==
    ASSUME IInv, NEW s \in Streams, Exists(s)
    PROVE  LET u == UpdateContinuousFlow(s)
               h == BookSettled(s, u)
           IN  /\ h \in [Causes -> Nat] /\ h["credited"] = book[s]["credited"]
               /\ u.charged \in Nat /\ u.flow.balance \in Nat /\ u.flow.buffer \in Nat
               /\ ReleasedBy(h) = ReleasedBy(book[s]) + u.charged
               /\ u.flow.balance + u.flow.buffer = Held(s) - u.charged
               /\ book[s] \in [Causes -> Nat] /\ Held(s) \in Nat
<1> DEFINE u == UpdateContinuousFlow(s)
<1>1. Settled(flow[s], u)
  BY UpdateSettles
<1> HIDE DEF u
<1>2. /\ u.flow \in Flows /\ u.charged \in Nat
      /\ u.flow.balance + u.flow.buffer = flow[s].balance + flow[s].buffer - u.charged
  BY <1>1 DEF Settled
<1>3. /\ Held(s) = flow[s].balance + flow[s].buffer /\ Held(s) \in Nat
      /\ flow[s].balance \in Nat /\ flow[s].buffer \in Nat
      /\ book[s] \in [Causes -> Nat]
  BY StreamFacts DEF Flows
<1>4. u.flow.balance \in Nat /\ u.flow.buffer \in Nat
  BY <1>2 DEF Flows
<1> DEFINE n == u.charged
           b == [book[s] EXCEPT !["streamed"] = @ + n, !["due"] = 0]
<1>5. BookSettled(s, u) = b
  BY DEF BookSettled
<1>6. n \in Nat
  BY <1>2
<1> HIDE DEF n
<1>7. /\ b \in [Causes -> Nat] /\ b["credited"] = book[s]["credited"]
      /\ ReleasedBy(b) = ReleasedBy(book[s]) + n
  BY <1>3, <1>6 DEF ReleasedBy, Causes
<1> HIDE DEF b
<1>8. /\ BookSettled(s, u) \in [Causes -> Nat]
      /\ BookSettled(s, u)["credited"] = book[s]["credited"]
      /\ ReleasedBy(BookSettled(s, u)) = ReleasedBy(book[s]) + u.charged
  BY <1>5, <1>7 DEF n
<1>9. u.flow.balance + u.flow.buffer = Held(s) - u.charged
  BY <1>2, <1>3
<1> QED BY <1>2, <1>3, <1>4, <1>8, <1>9 DEF u

\* Every call on stream s, and every other step, books outflows only.
LEMMA StepFlows ==
    ASSUME IInv, [Next]_vars
    PROVE  \A s \in Streams : Outflow(s, book'[s])
<1>1. ASSUME NEW s \in Streams, NEW p \in Providers, NEW r \in Rates,
             NEW n \in Amounts \cup {0}, CreateContinuousStream(s, p, r, n)
      PROVE  \A t \in Streams : Outflow(t, book'[t])
  <2> DEFINE c == n + r * BufferSeconds
             h == Held(s)
  <2>1. PICK b : /\ b = [book[s] EXCEPT !["credited"] = @ + n + r * BufferSeconds,
                                       !["forfeited"] = @ + h, !["due"] = 0]
                 /\ book' = [book EXCEPT ![s] = b]
    BY <1>1 DEF CreateContinuousStream, IInv, TypeOK
  <2>2. PICK m : m = r * BufferSeconds /\ m \in Nat
    BY StreamAssumption
  <2>3. n \in Nat /\ h \in Nat /\ book[s] \in [Causes -> Nat]
    BY StreamAssumption, StreamFacts
  <2> HIDE DEF h
  <2>4. /\ b["credited"] >= book[s]["credited"]
        /\ ReleasedBy(b) - ReleasedBy(book[s]) = h
    BY <2>1, <2>2, <2>3 DEF ReleasedBy, Causes
  <2>5. Outflow(s, b)
    BY <2>3, <2>4 DEF Outflow, h
  <2> QED BY <2>1, <2>5, OneStreamFlows
<1>2. ASSUME NEW s \in Streams, NEW n \in Amounts, AddBalance(s, n) \/ AddBuffer(s, n)
      PROVE  \A t \in Streams : Outflow(t, book'[t])
  <2>1. PICK h, k : /\ h = BookSettled(s, UpdateContinuousFlow(s))
                    /\ k = UpdateContinuousFlow(s).charged
    OBVIOUS
  <2>2. PICK b : /\ b = [h EXCEPT !["credited"] = @ + n]
                 /\ book' = [book EXCEPT ![s] = b] /\ Exists(s)
    BY <1>2, <2>1 DEF AddBalance, AddBuffer
  <2>3. /\ h \in [Causes -> Nat] /\ h["credited"] = book[s]["credited"] /\ k \in 0 .. Held(s)
        /\ ReleasedBy(h) = ReleasedBy(book[s]) + k /\ book[s] \in [Causes -> Nat]
    BY <2>1, <2>2, SettlementFlows
  <2>4. n \in Nat
    BY StreamAssumption
  <2>5. /\ b["credited"] = h["credited"] + n /\ h["credited"] \in Nat
        /\ ReleasedBy(b) = ReleasedBy(h) /\ ReleasedBy(book[s]) \in Nat
    <3>1. h \in [Causes -> Nat] /\ book[s] \in [Causes -> Nat]
      BY <2>3
    <3> QED BY <2>2, <2>4, <3>1 DEF ReleasedBy, Causes
  <2>6. Outflow(s, b)
    BY <2>3, <2>4, <2>5 DEF Outflow
  <2> QED BY <2>2, <2>6, OneStreamFlows
<1>3. ASSUME NEW s \in Streams, NEW n \in Amounts, WithdrawContinuous(s, n)
      PROVE  \A t \in Streams : Outflow(t, book'[t])
  <2>1. PICK h, k, l : /\ h = BookSettled(s, UpdateContinuousFlow(s))
                       /\ k = UpdateContinuousFlow(s).charged
                       /\ l = UpdateContinuousFlow(s).flow.balance
    OBVIOUS
  <2>2. PICK b : /\ b = [h EXCEPT !["withdrawn"] = @ + n]
                 /\ book' = [book EXCEPT ![s] = b] /\ Exists(s) /\ l - n >= 0
    BY <1>3, <2>1 DEF WithdrawContinuous
  <2>3. /\ h \in [Causes -> Nat] /\ h["credited"] = book[s]["credited"]
        /\ k \in Nat /\ l \in Nat /\ k + l <= Held(s) /\ Held(s) \in Nat
        /\ ReleasedBy(h) = ReleasedBy(book[s]) + k /\ book[s] \in [Causes -> Nat]
    BY <2>1, <2>2, SettlementFlows
  <2>4. n \in Nat
    BY StreamAssumption
  <2>5. /\ b["credited"] = h["credited"] /\ h["credited"] \in Nat
        /\ ReleasedBy(b) = ReleasedBy(h) + n /\ ReleasedBy(book[s]) \in Nat
    <3>1. h \in [Causes -> Nat] /\ book[s] \in [Causes -> Nat]
      BY <2>3
    <3> QED BY <2>2, <2>4, <3>1 DEF ReleasedBy, Causes
  <2>6. Outflow(s, b)
    BY <2>2, <2>3, <2>4, <2>5 DEF Outflow
  <2> QED BY <2>2, <2>6, OneStreamFlows
<1>4. ASSUME NEW s \in Streams, CloseStreamAmicably(s)
      PROVE  \A t \in Streams : Outflow(t, book'[t])
  <2>1. Exists(s)
    BY <1>4 DEF CloseStreamAmicably
  <2>2. PICK h, l : /\ \/ /\ h = BookSettled(s, UpdateContinuousFlow(s))
                          /\ l = UpdateContinuousFlow(s).flow.buffer
                       \/ h = book[s] /\ l = flow[s].buffer
                    /\ book' = [book EXCEPT ![s] = [h EXCEPT !["refunded"] = @ + l]]
    <3> DEFINE u == UpdateContinuousFlow(s)
               flowing == u.flow.status = "Active" /\ u.flow.rate > 0
    <3>1. CASE flowing
      <4>1. book' = [book EXCEPT ![s] = [BookSettled(s, u) EXCEPT
                       !["refunded"] = @ + [u.flow EXCEPT !.rate = 0].buffer]]
        BY <1>4, <3>1, Zenon DEF CloseStreamAmicably
      <4>2. PICK g : g = u.flow /\ g \in Flows
        BY <2>1, AfterUpdate
      <4>3. [g EXCEPT !.rate = 0].buffer = g.buffer
        BY <4>2 DEF Flows
      <4> QED BY <4>1, <4>2, <4>3, Zenon
    <3>2. CASE ~flowing
      BY <1>4, <3>2, Zenon DEF CloseStreamAmicably
    <3> QED BY <3>1, <3>2
  <2>3. PICK k : /\ h \in [Causes -> Nat] /\ h["credited"] = book[s]["credited"]
                 /\ k \in Nat /\ l \in Nat /\ k + l <= Held(s) /\ Held(s) \in Nat
                 /\ ReleasedBy(h) = ReleasedBy(book[s]) + k /\ book[s] \in [Causes -> Nat]
    <3>1. CASE h = book[s] /\ l = flow[s].buffer
      <4>1. /\ h \in [Causes -> Nat] /\ l \in Nat /\ l <= Held(s) /\ Held(s) \in Nat
        BY <2>1, <3>1, StreamFacts DEF Flows
      <4>2. ReleasedBy(h) = ReleasedBy(book[s]) + 0
        BY <3>1, <4>1 DEF ReleasedBy, Causes
      <4> QED BY <3>1, <4>1, <4>2
    <3>2. CASE /\ h = BookSettled(s, UpdateContinuousFlow(s))
               /\ l = UpdateContinuousFlow(s).flow.buffer
      BY <2>1, <3>2, SettlementFlows
    <3> QED BY <2>2, <3>1, <3>2
  <2>4. PICK b : b = [h EXCEPT !["refunded"] = @ + l]
    OBVIOUS
  <2>5. b["credited"] = book[s]["credited"] /\ ReleasedBy(b) - ReleasedBy(book[s]) = k + l
    BY <2>3, <2>4 DEF ReleasedBy, Causes
  <2>6. Outflow(s, b)
    BY <2>3, <2>5 DEF Outflow, Causes
  <2> QED BY <2>2, <2>4, <2>6, OneStreamFlows
<1>5. ASSUME NEW s \in Streams, GetBufferBalance(s) \/ PauseStream(s)
      PROVE  \A t \in Streams : Outflow(t, book'[t])
  <2>1. Exists(s)
    BY <1>5 DEF GetBufferBalance, PauseStream, Exists
  <2>2. PICK h : /\ h = BookSettled(s, UpdateContinuousFlow(s)) \/ h = book[s]
                 /\ book' = [book EXCEPT ![s] = h]
    BY <1>5 DEF GetBufferBalance, PauseStream
  <2>3. Outflow(s, h)
    <3>1. CASE h = book[s]
      BY <3>1, NothingFlows
    <3>2. CASE h = BookSettled(s, UpdateContinuousFlow(s))
      <4>1. PICK k : /\ k \in 0 .. Held(s) /\ ReleasedBy(h) = ReleasedBy(book[s]) + k
                     /\ h["credited"] = book[s]["credited"]
        BY <2>1, <3>2, SettlementFlows
      <4>2. ReleasedBy(book[s]) \in Nat /\ book[s]["credited"] \in Nat
        BY StreamFacts DEF ReleasedBy, Causes
      <4> QED BY <4>1, <4>2 DEF Outflow
    <3> QED BY <2>2, <3>1, <3>2
  <2> QED BY <2>2, <2>3, OneStreamFlows
<1>6. ASSUME NEW s \in Streams, NEW t \in 1 .. MaxTime, ApplyLivenessSlash(s, t)
      PROVE  \A r \in Streams : Outflow(r, book'[r])
  <2>1. PICK silent, n, k :
             /\ silent = now - beat[s] /\ n = flow[s].buffer
             /\ k = SlashShare(n, silent, t)
             /\ silent > t /\ Exists(s) /\ beat[s] # 0
             /\ book' = [book EXCEPT ![s] = [book[s] EXCEPT !["slashed"] = @ + k]]
    BY <1>6 DEF ApplyLivenessSlash, IInv, TypeOK
  <2>2. /\ silent \in Nat \ {0} /\ silent - t \in Nat /\ silent - t <= silent
        /\ n \in Nat /\ n <= Held(s) /\ Held(s) \in Nat /\ book[s] \in [Causes -> Nat]
    BY <2>1, StreamFacts, StreamAssumption DEF IInv, TypeOK, Flows
  <2>3. PICK d : d = silent - t
    OBVIOUS
  <2>4. k = (n * d) \div silent
    BY <2>1, <2>3 DEF SlashShare
  <2>5. k \in Nat /\ k <= n
    BY <2>2, <2>3, <2>4, ScaleBound
  <2>6. PICK b : b = [book[s] EXCEPT !["slashed"] = @ + k]
    OBVIOUS
  <2>7. b["credited"] = book[s]["credited"] /\ ReleasedBy(b) - ReleasedBy(book[s]) = k
    BY <2>2, <2>5, <2>6 DEF ReleasedBy, Causes
  <2>8. Outflow(s, b)
    BY <2>2, <2>5, <2>7 DEF Outflow, Causes
  <2> QED BY <2>1, <2>6, <2>8, OneStreamFlows
<1>7. ASSUME Tick
      PROVE  \A s \in Streams : Outflow(s, book'[s])
  <2> SUFFICES ASSUME NEW s \in Streams PROVE Outflow(s, book'[s])
    OBVIOUS
  <2>1. PICK d : book'[s] = [book[s] EXCEPT !["due"] = d]
    BY <1>7 DEF Tick
  <2>2. /\ book'[s]["credited"] = book[s]["credited"]
        /\ ReleasedBy(book'[s]) = ReleasedBy(book[s])
    BY <2>1, StreamFacts DEF ReleasedBy, Causes
  <2> QED BY <2>2, NothingFlows
<1>8. ASSUME book' = book
      PROVE  \A s \in Streams : Outflow(s, book'[s])
  BY <1>8, NothingFlows
<1>9. ASSUME NEW s \in Streams,
             \/ \E r \in Rates \cup {0} : UpdateFlowRate(s, r)
             \/ \E r \in Rates : ResumeStream(s, r)
             \/ StreamHeartbeat(s)
      PROVE  book' = book
  BY <1>9 DEF UpdateFlowRate, ResumeStream, StreamHeartbeat
<1>10. ASSUME \/ \E p \in Providers, c \in Caps : SetFleetCap(p, c)
              \/ \E b \in FeeSettings : SetPlatformFeeBps(b)
              \/ UNCHANGED vars
       PROVE  book' = book
  BY <1>10 DEF SetFleetCap, SetPlatformFeeBps, vars
<1> QED BY <1>1, <1>2, <1>3, <1>4, <1>5, <1>6, <1>7, <1>8, <1>9, <1>10
        DEF Next, StreamCall

-----------------------------------------------------------------------------
(* Theorems *)

\* The constructor state satisfies the invariant.
LEMMA InitInvariant == Init => IInv
BY StreamAssumption DEF Init, IInv, TypeOK, TimestampsInPast, FundsConserved,
   ActiveIsFunded, Held, Released, Exists, NoFlow, NoCache, Causes

\* Every call, and every ledger close, preserves the invariant.
LEMMA NextInvariant == IInv /\ [Next]_vars => IInv'
<1> SUFFICES ASSUME IInv, [Next]_vars PROVE IInv'
  OBVIOUS
<1>1. ASSUME NEW s \in Streams, StreamCall(s) PROVE IInv'
  <2>1. ASSUME StreamHeartbeat(s) PROVE IInv'
    BY <2>1, QuietStep DEF StreamHeartbeat, IInv, TypeOK, TimestampsInPast
  <2> QED BY <1>1, <2>1, CreateStep, AddBalanceStep, AddBufferStep, WithdrawStep,
             CloseStep, GetBufferStep, UpdateRateStep, PauseStep, ResumeStep,
             SlashStep DEF StreamCall
<1>2. ASSUME NEW p \in Providers, NEW c \in Caps, SetFleetCap(p, c) PROVE IInv'
  BY <1>2, QuietStep DEF SetFleetCap, IInv, TypeOK, TimestampsInPast
<1>3. ASSUME NEW b \in FeeSettings, SetPlatformFeeBps(b) PROVE IInv'
  BY <1>3, QuietStep DEF SetPlatformFeeBps, IInv, TypeOK, TimestampsInPast
<1>4. CASE UNCHANGED vars
  BY <1>4, QuietStep DEF vars, IInv, TypeOK, TimestampsInPast
<1> QED BY <1>1, <1>2, <1>3, <1>4, TickStep DEF Next

\* Type correctness, conservation of funds, funded Active streams and sane
\* timestamps hold in every reachable state.
THEOREM StreamInvariant == Spec => []IInv
BY InitInvariant, NextInvariant, PTL DEF Spec

\* The type invariant holds for every value of the constants.
THEOREM StreamTypeOK == Spec => []TypeOK
BY StreamInvariant, PTL DEF IInv

\* What a stream was credited is what it holds plus what left it.
THEOREM StreamFundsConserved == Spec => []FundsConserved
BY StreamInvariant, PTL DEF IInv

\* No stream keeps flowing on empty.
THEOREM StreamActiveIsFunded == Spec => []ActiveIsFunded
BY StreamInvariant, PTL DEF IInv

\* No step that raises a provider's aggregate raises it past the provider's cap.
\* The step may not be a change of that cap: SetFleetCap leaves the aggregate.
THEOREM StreamFleetGrowsWithinCap == Spec => FleetGrowsWithinCap
<1>1. Spec => []IInv /\ [][Next]_vars
  BY StreamInvariant, PTL DEF Spec
<1>2. IInv /\ [Next]_vars => [CapKept]_vars
  BY CapStep
<1> QED BY <1>1, <1>2, PTL DEF FleetGrowsWithinCap, CapKept

\* Each stream refines the escrow account: it never pays out more than it held.
THEOREM StreamImplementsEscrow == Spec => ImplementsEscrow
<1>1. Init => Escrow!Init
  BY DEF Init, Escrow!Init, Held, Released, Exists, NoFlow, Causes
<1>2. IInv /\ [Next]_vars => Escrow!Next
  <2> SUFFICES ASSUME IInv, [Next]_vars PROVE Escrow!Next
    OBVIOUS
  <2> QED BY NextInvariant, StepFlows, OutflowsTransact
<1>3. IInv /\ [Next]_vars => [Escrow!Next]_(Escrow!escrowVars)
  BY <1>2
<1>4. Spec => Init /\ []IInv /\ [][Next]_vars
  BY StreamInvariant, PTL DEF Spec
<1> QED BY <1>1, <1>3, <1>4, PTL DEF ImplementsEscrow, Escrow!Spec

=============================================================================
