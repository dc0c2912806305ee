------------------------ MODULE MeterAggregator_proofs ------------------------
(***************************************************************************)
(* Proofs about MeterAggregator, for every retention window, batch size,   *)
(* bucket length and number of readings: what pruning may and may not      *)
(* remove, how a backlog drains, and that buckets and windows hold what    *)
(* was submitted.                                                          *)
(***************************************************************************)
EXTENDS MeterAggregator, Sums_proofs, FiniteSetTheorems, TLAPS

\* The part of the state that pruning reads and writes is well formed.
PruningTyped ==
    /\ now \in Nat
    /\ nextSeq \in Nat /\ cursor \in 0 .. nextSeq
    /\ nextSeq <= MaxReadings
    /\ readings \in [0 .. MaxReadings - 1 -> [at : Int, value : Int]]

\* Every reading was submitted at some ledger's time.
SubmittedInTime == \A q \in 0 .. nextSeq - 1 : readings[q].at \in Nat

\* What is no longer stored is past the cutoff, as the code computes it.
PrunedWereStale ==
    \A q \in 0 .. nextSeq - 1 : ~IsStale(readings[q]) => q \in live

IInv == PruningTyped /\ LiveAboveCursor /\ SubmittedInTime /\ PrunedWereStale

\* The loop of prune_stale_readings, wherever it stops, removes a stale prefix
\* of what is stored and nothing else.
LEMMA PruneRemovesStalePrefix ==
    ASSUME NEW log, NEW next \in Nat, cursor \in 0 .. next,
           PruneStaleReadings(log, cursor .. next - 1, next)
    PROVE  /\ cursor' \in cursor .. next
           /\ live' = cursor' .. next - 1
           /\ \A q \in cursor .. cursor' - 1 : IsStale(log[q])
<1> DEFINE stored == cursor .. next - 1
<1>1. PICK c \in cursor .. next :
        /\ StopsAt(log, stored, next, c)
        /\ cursor' = c
        /\ live' = stored \ (cursor .. c - 1)
  BY DEF PruneStaleReadings
<1>2. \A q \in stored \cap (cursor .. c - 1) : IsStale(log[q])
  BY <1>1 DEF StopsAt, LoopEnds
<1>3. live' = c .. next - 1
  BY <1>1
<1> QED BY <1>1, <1>2, <1>3

\* A number at or above a, but not between a and b - 1, is at or above b.
LEMMA OutsideInterval ==
    ASSUME NEW a \in Int, NEW b \in Int, NEW q \in Int,
           q >= a, ~(q \in a .. b - 1)
    PROVE  q >= b
OBVIOUS

\* submit_reading keeps the invariant: the reading it adds is fresh.
LEMMA SubmitStep ==
    ASSUME IInv, NEW v \in Values, SubmitReading(v)
    PROVE  IInv'
<1> DEFINE log == [readings EXCEPT ![nextSeq] = [at |-> now, value |-> v]]
           next == nextSeq + 1
<1>1. /\ now \in Nat /\ nextSeq \in Nat /\ cursor \in 0 .. nextSeq
      /\ nextSeq < MaxReadings /\ MaxReadings \in Nat
      /\ live = cursor .. nextSeq - 1
  BY AggregatorAssumption DEF IInv, PruningTyped, LiveAboveCursor, SubmitReading
<1>2. readings' = log /\ nextSeq' = next /\ now' = now
  BY DEF SubmitReading
<1>3. log \in [0 .. MaxReadings - 1 -> [at : Int, value : Int]]
  <2>1. [at |-> now, value |-> v] \in [at : Int, value : Int]
    BY <1>1, AggregatorAssumption
  <2> QED BY <2>1 DEF IInv, PruningTyped
<1>4. \A q \in 0 .. nextSeq - 1 : log[q] = readings[q]
  BY <1>1 DEF IInv, PruningTyped
<1>5. PruneStaleReadings(log, cursor .. next - 1, next)
  <2>1. live \cup {nextSeq} = cursor .. next - 1
    BY <1>1
  <2>2. PruneStaleReadings(log, live \cup {nextSeq}, next)
    BY DEF SubmitReading
  <2> QED BY <2>1, <2>2
<1> HIDE DEF log
<1>6. next \in Nat /\ cursor \in 0 .. next
  BY <1>1
<1> HIDE DEF next
<1>7. /\ cursor' \in cursor .. next
      /\ live' = cursor' .. next - 1
      /\ \A q \in cursor .. cursor' - 1 : IsStale(log[q])
  BY <1>5, <1>6, PruneRemovesStalePrefix
<1> USE DEF next
<1>8. PruningTyped'
  BY <1>1, <1>2, <1>3, <1>7 DEF PruningTyped
<1>9. LiveAboveCursor'
  BY <1>1, <1>2, <1>7 DEF LiveAboveCursor
<1>10. ASSUME NEW q \in 0 .. next - 1, ~IsStale(log[q]) PROVE q \in live'
  <2>1. q \in Int /\ cursor \in Int /\ cursor' \in Int
    BY <1>1, <1>7, <1>10
  <2>2. q >= cursor
    <3>1. CASE q = nextSeq
      BY <1>1, <3>1
    <3>2. CASE q # nextSeq
      <4>1. q \in 0 .. nextSeq - 1
        BY <1>1, <1>10, <3>2
      <4>2. ~IsStale(readings[q])
        BY <1>4, <1>10, <4>1
      <4>3. q \in live
        BY <4>1, <4>2 DEF IInv, PrunedWereStale
      <4> QED BY <1>1, <4>3
    <3> QED BY <3>1, <3>2
  <2>3. ~(q \in cursor .. cursor' - 1)
    BY <1>7, <1>10
  <2>4. q >= cursor'
    BY <2>1, <2>2, <2>3, OutsideInterval
  <2> QED BY <1>1, <1>7, <1>10, <2>1, <2>4
<1>11. PrunedWereStale'
  BY <1>2, <1>10 DEF PrunedWereStale, IsStale, Cutoff
<1>12. SubmittedInTime'
  <2>1. \A q \in 0 .. nextSeq - 1 : log[q].at \in Nat
    BY <1>4 DEF IInv, SubmittedInTime
  <2>2. log[nextSeq].at = now
    BY <1>1 DEF log, IInv, PruningTyped
  <2>3. \A q \in 0 .. next - 1 : q = nextSeq \/ q \in 0 .. nextSeq - 1
    BY <1>1
  <2> QED BY <1>1, <1>2, <2>1, <2>2, <2>3 DEF SubmittedInTime
<1> QED BY <1>8, <1>9, <1>11, <1>12 DEF IInv

\* prune keeps the invariant: what it removes is stale.
LEMMA PruneStep ==
    ASSUME IInv, Prune
    PROVE  IInv'
<1> USE DEF IInv, PruningTyped
<1>1. /\ readings' = readings /\ nextSeq' = nextSeq /\ now' = now
      /\ PruneStaleReadings(readings, live, nextSeq)
  BY DEF Prune
<1>2. /\ cursor' \in cursor .. nextSeq
      /\ live' = cursor' .. nextSeq - 1
      /\ \A q \in cursor .. cursor' - 1 : IsStale(readings[q])
  BY <1>1, PruneRemovesStalePrefix DEF LiveAboveCursor
<1>3. PruningTyped' /\ LiveAboveCursor'
  BY <1>1, <1>2 DEF LiveAboveCursor
<1>4. ASSUME NEW q \in 0 .. nextSeq - 1, ~IsStale(readings[q]) PROVE q \in live'
  <2>1. q >= cursor
    BY <1>4 DEF PrunedWereStale, LiveAboveCursor
  <2>2. q \in Int /\ cursor \in Int /\ cursor' \in Int
    BY <1>2, <1>4
  <2>3. ~(q \in cursor .. cursor' - 1)
    BY <1>2, <1>4
  <2>4. q >= cursor'
    BY <2>1, <2>2, <2>3, OutsideInterval
  <2> QED BY <1>2, <1>4, <2>2, <2>4
<1>5. PrunedWereStale' /\ SubmittedInTime'
  BY <1>1, <1>4 DEF PrunedWereStale, SubmittedInTime, IsStale, Cutoff
<1> QED BY <1>3, <1>5

\* A ledger close keeps the invariant: it can only make readings stale.
LEMMA TickStep ==
    ASSUME IInv, Tick
    PROVE  IInv'
<1> USE DEF IInv, PruningTyped
<1>1. /\ now' = now + 1
      /\ readings' = readings /\ live' = live /\ nextSeq' = nextSeq /\ cursor' = cursor
  BY DEF Tick
<1>2. PruningTyped' /\ LiveAboveCursor'
  BY <1>1 DEF LiveAboveCursor
<1>3. ASSUME NEW q \in 0 .. nextSeq - 1, ~IsStale(readings[q])' PROVE q \in live'
  <2>1. readings[q] \in [at : Int, value : Int]
    BY AggregatorAssumption
  <2>2. ~IsStale(readings[q])
    BY <1>1, <1>3, <2>1, AggregatorAssumption DEF IsStale, Cutoff
  <2> QED BY <1>1, <2>2 DEF PrunedWereStale
<1>4. PrunedWereStale' /\ SubmittedInTime'
  BY <1>1, <1>3 DEF PrunedWereStale, SubmittedInTime
<1> QED BY <1>2, <1>4

\* The invariant holds of an empty contract.
LEMMA InitInvariant == Init => IInv
BY AggregatorAssumption DEF Init, IInv, PruningTyped, LiveAboveCursor,
   PrunedWereStale, SubmittedInTime, NoReading

\* Every call, and the passing of time, preserves the invariant.
LEMMA NextInvariant == IInv /\ [Next]_vars => IInv'
<1> SUFFICES ASSUME IInv, [Next]_vars PROVE IInv'
  OBVIOUS
<1>1. ASSUME UNCHANGED <<now, readings, live, nextSeq, cursor>> PROVE IInv'
  BY <1>1 DEF IInv, PruningTyped, LiveAboveCursor, PrunedWereStale, SubmittedInTime,
     IsStale, Cutoff
<1> QED BY <1>1, SubmitStep, PruneStep, TickStep
        DEF Next, Initialize, RollupDay, vars

\* Pruning is exact, for every window and batch size: what is stored is what
\* was submitted less a stale prefix.
THEOREM AggregatorInvariant == Spec => []IInv
BY InitInvariant, NextInvariant, PTL DEF Spec

\* The stored raw readings are those from the cursor on.
THEOREM AggregatorLiveAboveCursor == Spec => []LiveAboveCursor
BY AggregatorInvariant, PTL DEF IInv

\* No reading within the retention window is ever lost.
THEOREM AggregatorKeepsFresh == Spec => []FreshReadingsAreKept
<1>1. IInv => FreshReadingsAreKept
  <2> SUFFICES ASSUME IInv, NEW q \in 0 .. nextSeq - 1,
                      now - readings[q].at <= Retention
               PROVE  q \in live
    BY DEF FreshReadingsAreKept
  <2>1. readings[q].at \in Nat /\ now \in Nat
    BY DEF IInv, PruningTyped, SubmittedInTime
  <2>2. ~IsStale(readings[q])
    BY <2>1, AggregatorAssumption DEF IsStale, Cutoff
  <2> QED BY <2>2 DEF IInv, PrunedWereStale
<1> QED BY <1>1, AggregatorInvariant, PTL

-----------------------------------------------------------------------------
(* Hours and days *)

\* What hours and days are to one another.
LEMMA Calendar ==
  ASSUME AggregatorAssumption, NEW t \in Nat
  PROVE  /\ HourOf(t) \in Nat /\ DayOf(t) \in Nat /\ DayOf(t) = DayOfHour(HourOf(t))
         /\ t <= MaxTime => HourOf(t) \in Hours /\ DayOf(t) \in Days
  <1>1. /\ HourLength \in Nat \ {0} /\ HoursPerDay \in Nat \ {0} /\ MaxTime \in Nat
        /\ HourLength * HoursPerDay \in Nat \ {0}
    BY DEF AggregatorAssumption
  <1>2. HourOf(t) \in Nat /\ HourOf(MaxTime) \in Nat
    BY <1>1, QuotientBounds DEF HourOf
  <1>3. DayOf(t) \in Nat /\ DayOf(MaxTime) \in Nat
    BY <1>1, QuotientBounds DEF DayOf
  <1>4. DayOf(t) = DayOfHour(HourOf(t))
    BY <1>1, QuotientOfQuotient DEF HourOf, DayOf, DayOfHour
  <1>5. ASSUME t <= MaxTime
        PROVE  HourOf(t) <= HourOf(MaxTime) /\ DayOf(t) <= DayOf(MaxTime)
    BY <1>1, <1>5, QuotientGrows DEF HourOf, DayOf
  <1> QED BY <1>2, <1>3, <1>4, <1>5 DEF Hours, Days

\* Days follow one another as times do.
LEMMA DaysFollow ==
  ASSUME AggregatorAssumption, NEW t \in Nat, NEW u \in Nat, t <= u
  PROVE  DayOf(t) <= DayOf(u)
  <1>1. HourLength * HoursPerDay \in Nat \ {0}
    BY DEF AggregatorAssumption
  <1> QED BY <1>1, QuotientGrows DEF DayOf

\* The hours of a day are those whose day it is.
LEMMA HoursOfDay ==
  ASSUME AggregatorAssumption, NEW h \in Nat, NEW d \in Nat
  PROVE  h \in HoursOf(d) <=> DayOfHour(h) = d
  <1>1. HoursPerDay \in Nat \ {0} /\ d * HoursPerDay \in Nat
    BY DEF AggregatorAssumption
  <1>2. h \in HoursOf(d) <=> d * HoursPerDay <= h /\ h < d * HoursPerDay + HoursPerDay
    BY <1>1 DEF HoursOf
  <1>3. h \div HoursPerDay = d => d * HoursPerDay <= h /\ h < d * HoursPerDay + HoursPerDay
    BY <1>1, QuotientBounds
  <1>4. d * HoursPerDay <= h /\ h < d * HoursPerDay + HoursPerDay => h \div HoursPerDay = d
    BY <1>1, QuotientIs
  <1> QED BY <1>2, <1>3, <1>4 DEF DayOfHour

-----------------------------------------------------------------------------
(* Backlogs *)

\* Readings come in as time passes.
ReadingsInOrder ==
    \A q, r \in 0 .. nextSeq - 1 : q <= r => readings[q].at <= readings[r].at

\* No reading is of a time to come.
ReadingsArePast == \A q \in 0 .. nextSeq - 1 : readings[q].at <= now

\* What a submission adds to the log: the reading, as the last of all.
LEMMA SubmittedLog ==
  ASSUME IInv, NEW v \in Values, SubmitReading(v)
  PROVE  /\ nextSeq \in 0 .. MaxReadings - 1 /\ nextSeq' = nextSeq + 1 /\ now' = now
         /\ now \in Nat /\ v \in Nat
         /\ readings'[nextSeq].at = now /\ readings'[nextSeq].value = v
         /\ \A q \in 0 .. nextSeq - 1 : readings'[q] = readings[q] /\ readings[q].at \in Nat
         /\ DOMAIN readings = 0 .. MaxReadings - 1 /\ DOMAIN readings' = 0 .. MaxReadings - 1
  <1>1. /\ now \in Nat /\ nextSeq \in Nat /\ nextSeq < MaxReadings /\ MaxReadings \in Nat
        /\ v \in Nat /\ readings \in [0 .. MaxReadings - 1 -> [at : Int, value : Int]]
    BY AggregatorAssumption DEF IInv, PruningTyped, SubmitReading, AggregatorAssumption
  <1>2. PICK r : r = [at |-> now, value |-> v]
    OBVIOUS
  <1>3. readings' = [readings EXCEPT ![nextSeq] = r] /\ nextSeq' = nextSeq + 1 /\ now' = now
    BY <1>2 DEF SubmitReading
  <1>4. readings'[nextSeq] = r /\ \A q \in 0 .. nextSeq - 1 : readings'[q] = readings[q]
    BY <1>1, <1>3
  <1>5. \A q \in 0 .. nextSeq - 1 : readings[q].at \in Nat
    BY DEF IInv, SubmittedInTime
  <1> QED BY <1>1, <1>2, <1>3, <1>4, <1>5

\* A submission keeps the order of the readings.
LEMMA SubmitKeepsOrder ==
  ASSUME IInv, ReadingsInOrder, ReadingsArePast, NEW v \in Values, SubmitReading(v)
  PROVE  ReadingsInOrder' /\ ReadingsArePast'
  <1>1. /\ nextSeq \in Nat /\ nextSeq' = nextSeq + 1 /\ now' = now /\ now \in Nat
        /\ readings'[nextSeq].at = now
    BY SubmittedLog
  <1>2. \A q \in 0 .. nextSeq - 1 : readings'[q] = readings[q]
    BY SubmittedLog
  <1>3. \A q \in 0 .. nextSeq' - 1 : q \in 0 .. nextSeq - 1 \/ q = nextSeq
    BY <1>1
  <1>4. ReadingsArePast'
    BY <1>1, <1>2, <1>3 DEF ReadingsArePast
  <1>5. ASSUME NEW q \in 0 .. nextSeq' - 1, NEW r \in 0 .. nextSeq' - 1, q <= r
        PROVE  readings'[q].at <= readings'[r].at
    <2>1. CASE r = nextSeq
      BY <1>1, <1>4, <2>1 DEF ReadingsArePast
    <2>2. CASE r # nextSeq
      <3>1. r \in 0 .. nextSeq - 1 /\ q \in 0 .. nextSeq - 1
        BY <1>1, <1>5, <2>2
      <3> QED BY <1>2, <1>5, <3>1 DEF ReadingsInOrder
    <2> QED BY <2>1, <2>2
  <1> QED BY <1>4, <1>5 DEF ReadingsInOrder

\* The order of the readings is an invariant.
OrderIInv == IInv /\ ReadingsInOrder /\ ReadingsArePast

\* Every step keeps the order.
LEMMA OrderKept == OrderIInv /\ [Next]_vars => OrderIInv'
  <1> SUFFICES ASSUME OrderIInv, [Next]_vars PROVE OrderIInv'
    OBVIOUS
  <1>1. IInv'
    BY NextInvariant DEF OrderIInv
  <1>2. ASSUME UNCHANGED <<readings, nextSeq>>, now' \in Nat, now <= now'
        PROVE  ReadingsInOrder' /\ ReadingsArePast'
    <2>1. now \in Nat /\ \A q \in 0 .. nextSeq - 1 : readings[q].at \in Nat
      BY DEF OrderIInv, IInv, PruningTyped, SubmittedInTime
    <2> QED BY <1>2, <2>1 DEF OrderIInv, ReadingsInOrder, ReadingsArePast
  <1>3. now \in Nat
    BY DEF OrderIInv, IInv, PruningTyped
  <1>4. \/ \E v \in Values : SubmitReading(v)
        \/ UNCHANGED <<readings, nextSeq>> /\ now' \in Nat /\ now <= now'
    BY <1>3 DEF Next, Initialize, Prune, RollupDay, Tick, vars
  <1> QED BY <1>1, <1>2, <1>4, SubmitKeepsOrder DEF OrderIInv

\* Readings are numbered in the order of their times, none of which is to come.
LEMMA AggregatorOrder == Spec => []OrderIInv
  <1>1. Init => OrderIInv
    BY InitInvariant, AggregatorAssumption
       DEF Init, OrderIInv, ReadingsInOrder, ReadingsArePast
  <1> QED BY <1>1, OrderKept, PTL DEF Spec

\* A stale reading before it is stale as well, in the order of submission.
LEMMA StaleIsPrefix ==
  ASSUME OrderIInv, NEW q \in 0 .. nextSeq - 1, NEW r \in 0 .. nextSeq - 1, q <= r,
         IsStale(readings[r])
  PROVE  IsStale(readings[q])
  <1>1. /\ readings[q].at \in Nat /\ readings[r].at \in Nat /\ readings[q].at <= readings[r].at
        /\ Cutoff \in Nat
    BY AggregatorAssumption
       DEF OrderIInv, IInv, PruningTyped, SubmittedInTime, ReadingsInOrder, Cutoff,
           AggregatorAssumption
  <1> QED BY <1>1 DEF IsStale

\* Where the loop of a submission stops: at the end, at a fresh reading, or a
\* full batch after the cursor.
LEMMA SubmitStops ==
  ASSUME IInv, NEW v \in Values, SubmitReading(v)
  PROVE  /\ cursor' \in cursor .. nextSeq + 1 /\ live' = cursor' .. nextSeq
         /\ \A q \in cursor .. cursor' - 1 : IsStale(readings'[q])
         /\ \/ cursor' = nextSeq + 1
            \/ cursor' <= nextSeq /\ ~IsStale(readings'[cursor'])
            \/ cursor' = cursor + PruneBatchSize
  <1>1. /\ nextSeq \in Nat /\ cursor \in 0 .. nextSeq /\ live = cursor .. nextSeq - 1
        /\ PruneBatchSize \in Nat \ {0}
    BY AggregatorAssumption DEF IInv, PruningTyped, LiveAboveCursor, AggregatorAssumption
  <1>2. PICK stored : stored = cursor .. nextSeq
    OBVIOUS
  <1>3. live \cup {nextSeq} = stored
    BY <1>1, <1>2
  <1>4. PruneStaleReadings(readings', stored, nextSeq + 1)
    BY <1>3 DEF SubmitReading
  <1>5. PICK c \in cursor .. nextSeq + 1 :
          /\ StopsAt(readings', stored, nextSeq + 1, c)
          /\ cursor' = c
          /\ live' = stored \ (cursor .. c - 1)
    BY <1>4 DEF PruneStaleReadings
  <1>6. \A d \in cursor .. nextSeq + 1 : stored \cap (cursor .. d - 1) = cursor .. d - 1
    BY <1>1, <1>2
  <1>7. \A d \in cursor .. nextSeq + 1 : Cardinality(cursor .. d - 1) = d - cursor
    <2> SUFFICES ASSUME NEW d \in cursor .. nextSeq + 1
                 PROVE  Cardinality(cursor .. d - 1) = d - cursor
      OBVIOUS
    <2>1. PICK e \in Int : e = d - 1
      BY <1>1
    <2>2. Cardinality(cursor .. e) = IF cursor > e THEN 0 ELSE e - cursor + 1
      BY <1>1, FS_Interval
    <2> QED BY <1>1, <2>1, <2>2
  <1>8. LoopEnds(PruneBatchSize, readings', stored, nextSeq + 1, c)
    BY <1>5 DEF StopsAt
  <1>9. /\ \A q \in cursor .. c - 1 : IsStale(readings'[q])
        /\ \A d \in cursor .. c - 1 : d - cursor < PruneBatchSize
        /\ \/ c = nextSeq + 1
           \/ c - cursor >= PruneBatchSize
           \/ c \in stored /\ ~IsStale(readings'[c])
    <2>1. \A d \in cursor .. nextSeq + 1 :
            Cardinality(stored \cap (cursor .. d - 1)) = d - cursor
      BY <1>6, <1>7
    <2>2. \A d \in cursor .. c - 1 : d \in cursor .. nextSeq + 1
      BY <1>1, <1>5
    <2>3. stored \cap (cursor .. c - 1) = cursor .. c - 1
      BY <1>5, <1>6
    <2> QED BY <1>5, <1>8, <2>1, <2>2, <2>3 DEF LoopEnds
  <1>10. c - cursor >= PruneBatchSize => c = cursor + PruneBatchSize
    <2> SUFFICES ASSUME c - cursor >= PruneBatchSize PROVE c = cursor + PruneBatchSize
      OBVIOUS
    <2>1. c - 1 \in cursor .. c - 1
      BY <1>1, <1>5
    <2>2. (c - 1) - cursor < PruneBatchSize
      BY <1>9, <2>1
    <2> QED BY <1>1, <1>5, <2>2
  <1>11. live' = c .. nextSeq
    BY <1>1, <1>2, <1>5
  <1> QED BY <1>1, <1>2, <1>5, <1>9, <1>10, <1>11

\* A submission takes a full batch off the backlog, or all of it.
LEMMA SubmitDrains ==
  ASSUME OrderIInv, OrderIInv', NEW v \in Values, SubmitReading(v)
  PROVE  \/ Backlog' = {}
         \/ Cardinality(Backlog') = Cardinality(Backlog) - PruneBatchSize
  <1>1. /\ cursor' \in cursor .. nextSeq + 1 /\ live' = cursor' .. nextSeq
        /\ \A q \in cursor .. cursor' - 1 : IsStale(readings'[q])
        /\ \/ cursor' = nextSeq + 1
           \/ cursor' <= nextSeq /\ ~IsStale(readings'[cursor'])
           \/ cursor' = cursor + PruneBatchSize
    BY SubmitStops DEF OrderIInv
  <1>2. /\ nextSeq \in Nat /\ nextSeq' = nextSeq + 1 /\ now' = now /\ now \in Nat
        /\ readings'[nextSeq].at = now
    BY SubmittedLog DEF OrderIInv
  <1>3. \A q \in 0 .. nextSeq - 1 : readings'[q] = readings[q]
    BY SubmittedLog DEF OrderIInv
  <1>4. /\ cursor \in 0 .. nextSeq /\ live = cursor .. nextSeq - 1 /\ Retention \in Nat
        /\ PruneBatchSize \in Nat \ {0}
    BY AggregatorAssumption
       DEF OrderIInv, IInv, PruningTyped, LiveAboveCursor, AggregatorAssumption
  <1>5. \A r : IsStale(r)' <=> IsStale(r)
    BY <1>2 DEF IsStale, Cutoff
  <1>6. ~IsStale(readings'[nextSeq])
    BY <1>2, <1>4 DEF IsStale, Cutoff
  <1>7. Backlog' = {q \in live' : IsStale(readings'[q])}
    BY <1>2 DEF Backlog, IsStale, Cutoff
  <1>8. CASE cursor' = nextSeq + 1
    BY <1>1, <1>2, <1>4, <1>7, <1>8
  <1>9. CASE cursor' <= nextSeq /\ ~IsStale(readings'[cursor'])
    <2>1. ASSUME NEW q \in live', IsStale(readings'[q]) PROVE FALSE
      <3>1. q \in 0 .. nextSeq' - 1 /\ cursor' \in 0 .. nextSeq' - 1 /\ cursor' <= q
        BY <1>1, <1>2, <1>4, <1>9, <2>1
      <3>2. readings'[q].at \in Nat /\ readings'[cursor'].at \in Nat
            /\ readings'[cursor'].at <= readings'[q].at
        BY <3>1 DEF OrderIInv, IInv, SubmittedInTime, ReadingsInOrder
      <3>3. Cutoff \in Nat
        BY <1>2, <1>4 DEF Cutoff
      <3> QED BY <1>9, <2>1, <3>2, <3>3 DEF IsStale
    <2> QED BY <1>7, <2>1
  <1>10. CASE cursor' = cursor + PruneBatchSize
    <2>1. PICK batch : batch = cursor .. cursor' - 1
      OBVIOUS
    <2>2. nextSeq \notin batch
      <3>1. \A q \in batch : IsStale(readings'[q])
        BY <1>1, <2>1
      <3> QED BY <1>6, <3>1
    <2>3. batch \subseteq 0 .. nextSeq - 1 /\ batch \subseteq live
      <3>1. PICK c : c = cursor'
        OBVIOUS
      <3>2. c \in Nat /\ c <= nextSeq + 1 /\ cursor \in Nat
        BY <1>1, <1>2, <1>4, <3>1
      <3>3. \A q \in Int : cursor <= q /\ q <= c - 1 /\ q # nextSeq => q <= nextSeq - 1
        BY <1>2, <3>2
      <3>4. batch = cursor .. c - 1
        BY <2>1, <3>1
      <3>5. batch \subseteq cursor .. nextSeq - 1
        BY <2>2, <3>2, <3>3, <3>4
      <3> QED BY <1>2, <1>4, <3>5
    <2>4. batch \subseteq Backlog
      BY <1>1, <1>3, <2>1, <2>3 DEF Backlog
    <2>5. Backlog' = Backlog \ batch
      <3>1. ASSUME NEW q PROVE q \in Backlog' <=> q \in Backlog \ batch
        <4>1. q \in Backlog' <=> q \in cursor' .. nextSeq - 1 /\ IsStale(readings'[q])
          BY <1>1, <1>2, <1>4, <1>6, <1>7
        <4>2. q \in Backlog \ batch <=> q \in cursor' .. nextSeq - 1 /\ IsStale(readings[q])
          BY <1>1, <1>2, <1>4, <2>1 DEF Backlog
        <4>3. q \in cursor' .. nextSeq - 1 => readings'[q] = readings[q]
          BY <1>1, <1>2, <1>3, <1>4
        <4> QED BY <4>1, <4>2, <4>3
      <3> QED BY <3>1
    <2>6. IsFiniteSet(live)
      BY <1>2, <1>4, FS_Interval
    <2>7. IsFiniteSet(Backlog)
      BY <2>6, FS_Subset DEF Backlog
    <2>8. Cardinality(batch) = PruneBatchSize
      BY <1>4, <1>10, <2>1, FS_Interval
    <2>9. Backlog \cap batch = batch
      BY <2>4
    <2>10. Cardinality(Backlog \ batch) = Cardinality(Backlog) - Cardinality(batch)
      BY <2>7, <2>9, FS_Difference
    <2> QED BY <2>5, <2>8, <2>10
  <1> QED BY <1>1, <1>8, <1>9, <1>10

\* Every submission takes a full batch of stale readings off the backlog, or the
\* whole of it, for every retention window and batch size.
THEOREM AggregatorDrains == Spec => BacklogDrains
  <1>1. ASSUME OrderIInv, OrderIInv', [Next]_vars, nextSeq' # nextSeq
        PROVE  \/ Backlog' = {}
               \/ Cardinality(Backlog') = Cardinality(Backlog) - PruneBatchSize
    <2>1. \E v \in Values : SubmitReading(v)
      BY <1>1 DEF Next, Initialize, Prune, RollupDay, Tick, vars
    <2> QED BY <1>1, <2>1, SubmitDrains
  <1>2. OrderIInv /\ OrderIInv' /\ [Next]_vars
          => [nextSeq' # nextSeq =>
                \/ Backlog' = {}
                \/ Cardinality(Backlog') = Cardinality(Backlog) - PruneBatchSize]_vars
    BY <1>1
  <1> QED BY <1>2, AggregatorOrder, PTL DEF Spec, BacklogDrains

-----------------------------------------------------------------------------
(* Buckets *)

InHour(h) == {q \in 0 .. nextSeq - 1 : HourOf(readings[q].at) = h}
InDay(d) == {q \in 0 .. nextSeq - 1 : DayOf(readings[q].at) = d}

\* Types of the buckets, and of what readings hold.
RollupTypes ==
    /\ now <= MaxTime
    /\ \A q \in 0 .. nextSeq - 1 : readings[q].value \in Nat
    /\ hourly \in [Hours -> Nat \cup {NoBucket}] /\ daily \in [Days -> Nat \cup {NoBucket}]

\* An hour that has no bucket, of a day that is not over and was not
\* consolidated, has no reading either.
OpenHoursAreFolded ==
    \A h \in Hours :
      hourly[h] = NoBucket /\ DayOfHour(h) \notin early /\ DayOf(now) <= DayOfHour(h)
        => InHour(h) = {}

\* A day's bucket has all the readings of the day, if there are any.
DailyTotalsAreComplete ==
    \A d \in Days : IF daily[d] = NoBucket THEN InDay(d) = {} ELSE daily[d] = Sum(InDay(d))

\* The inductive invariant behind the totals.
RollupIInv ==
    /\ OrderIInv /\ RollupTypes
    /\ HourlyTotalsAreComplete /\ OpenHoursAreFolded /\ DailyTotalsAreComplete

\* What the readings submitted are, and each is of an hour and a day there is.
LEMMA ReadingFacts ==
  ASSUME RollupIInv
  PROVE  /\ nextSeq \in Nat /\ now \in 0 .. MaxTime /\ MaxTime \in Nat
         /\ DOMAIN readings = 0 .. MaxReadings - 1 /\ nextSeq <= MaxReadings
         /\ MaxReadings \in Nat
         /\ \A q \in 0 .. nextSeq - 1 :
              /\ readings[q].at \in 0 .. MaxTime /\ readings[q].value \in Nat
              /\ ValueOf[q] = readings[q].value
         /\ IsFiniteSet(0 .. nextSeq - 1)
  <1>1. /\ nextSeq \in Nat /\ now \in 0 .. MaxTime /\ MaxTime \in Nat
        /\ DOMAIN readings = 0 .. MaxReadings - 1 /\ nextSeq <= MaxReadings
        /\ MaxReadings \in Nat
    BY AggregatorAssumption
       DEF RollupIInv, OrderIInv, IInv, PruningTyped, RollupTypes, AggregatorAssumption
  <1>2. ASSUME NEW q \in 0 .. nextSeq - 1
        PROVE  /\ readings[q].at \in 0 .. MaxTime /\ readings[q].value \in Nat
               /\ ValueOf[q] = readings[q].value
    <2>1. readings[q].at \in Nat /\ readings[q].at <= now /\ readings[q].value \in Nat
      BY DEF RollupIInv, OrderIInv, IInv, SubmittedInTime, ReadingsArePast, RollupTypes
    <2>2. q \in DOMAIN readings
      BY <1>1
    <2> QED BY <1>1, <2>1, <2>2 DEF ValueOf
  <1>3. IsFiniteSet(0 .. nextSeq - 1)
    BY <1>1, FS_Interval
  <1> QED BY <1>1, <1>2, <1>3

\* What a sum over readings is after a submission.
LEMMA SubmitSums ==
  ASSUME RollupIInv, NEW v \in Values, SubmitReading(v), NEW S \in SUBSET (0 .. nextSeq - 1)
  PROVE  /\ SumOf(ValueOf', S) = SumOf(ValueOf, S) /\ SumOf(ValueOf, S) \in Nat
         /\ SumOf(ValueOf', S \cup {nextSeq}) = SumOf(ValueOf, S) + v
         /\ S = {} => SumOf(ValueOf', S \cup {nextSeq}) = v
  <1>1. PICK f, g : f = ValueOf /\ g = ValueOf'
    OBVIOUS
  <1>2. nextSeq \in Nat /\ IsFiniteSet(S) /\ nextSeq \notin S
    <2>1. nextSeq \in Nat /\ IsFiniteSet(0 .. nextSeq - 1)
      BY ReadingFacts
    <2>2. nextSeq \notin 0 .. nextSeq - 1
      BY <2>1
    <2> QED BY <2>1, <2>2, FS_Subset
  <1>3. \A q \in S : f[q] \in Nat /\ f[q] = readings[q].value
    BY <1>1, ReadingFacts
  <1>4. /\ DOMAIN readings' = 0 .. MaxReadings - 1 /\ nextSeq \in 0 .. MaxReadings - 1
        /\ v \in Nat /\ readings'[nextSeq].value = v
    BY SubmittedLog DEF RollupIInv, OrderIInv
  <1>5. \A q \in 0 .. nextSeq - 1 : readings'[q] = readings[q]
    BY SubmittedLog DEF RollupIInv, OrderIInv
  <1>6. g[nextSeq] = v
    BY <1>1, <1>4 DEF ValueOf
  <1>7. MaxReadings \in Nat
    BY ReadingFacts
  <1>8. \A q \in S : q \in 0 .. MaxReadings - 1
    BY <1>2, <1>4, <1>7
  <1>9. \A q \in S : g[q] = readings'[q].value
    BY <1>1, <1>4, <1>8 DEF ValueOf
  <1>10. \A q \in S : g[q] = f[q]
    BY <1>3, <1>5, <1>9
  <1>11. \A q \in S : f[q] \in Int /\ g[q] = f[q]
    BY <1>3, <1>10
  <1>12. SumOf(g, S) = SumOf(f, S)
    BY <1>2, <1>11, SumOfSame
  <1>13. SumOf(f, S) \in Nat
    BY <1>2, <1>3, SumNat
  <1>14. \A q \in S \cup {nextSeq} : g[q] \in Int
    BY <1>4, <1>6, <1>11
  <1>15. SumOf(g, S \cup {nextSeq}) = SumOf(g, S) + g[nextSeq]
    BY <1>2, <1>14, SumAdd
  <1>16. S = {} => SumOf(f, S) = 0
    BY SumOfNothing
  <1> QED BY <1>1, <1>4, <1>6, <1>12, <1>13, <1>15, <1>16

\* Which readings are of an hour, or of a day, after a submission.
LEMMA SubmitClasses ==
  ASSUME RollupIInv, NEW v \in Values, SubmitReading(v)
  PROVE  /\ \A h : InHour(h)' = IF h = HourOf(now) THEN InHour(h) \cup {nextSeq} ELSE InHour(h)
         /\ \A d : InDay(d)' = IF d = DayOf(now) THEN InDay(d) \cup {nextSeq} ELSE InDay(d)
  <1>1. nextSeq \in Nat /\ nextSeq' = nextSeq + 1 /\ readings'[nextSeq].at = now
    BY SubmittedLog DEF RollupIInv, OrderIInv
  <1>2. \A q \in 0 .. nextSeq - 1 : readings'[q] = readings[q]
    BY SubmittedLog DEF RollupIInv, OrderIInv
  <1>3. 0 .. nextSeq' - 1 = (0 .. nextSeq - 1) \cup {nextSeq}
    BY <1>1
  <1> QED BY <1>1, <1>2, <1>3 DEF InHour, InDay, HourOf, DayOf

\* What a submission does to the buckets.
LEMMA SubmitBuckets ==
  ASSUME RollupIInv, NEW v \in Values, SubmitReading(v)
  PROVE  /\ hourly' \in [Hours -> Nat \cup {NoBucket}] /\ daily' \in [Days -> Nat \cup {NoBucket}]
         /\ HourOf(now) \in Hours /\ DayOf(now) \in Days /\ DayOfHour(HourOf(now)) = DayOf(now)
         /\ hourly'[HourOf(now)] = Folded(hourly[HourOf(now)], v)
         /\ \A h \in Hours \ {HourOf(now)} : hourly'[h] = hourly[h]
         /\ daily'[DayOf(now)] = Folded(daily[DayOf(now)], v)
         /\ \A d \in Days \ {DayOf(now)} : daily'[d] = daily[d]
         /\ hourly'[HourOf(now)] \in Nat /\ daily'[DayOf(now)] \in Nat
  <1>1. now \in Nat /\ now <= MaxTime /\ v \in Nat
    BY SubmittedLog DEF RollupIInv, OrderIInv, RollupTypes
  <1>2. PICK h, d : h = HourOf(now) /\ d = DayOf(now)
    OBVIOUS
  <1>3. h \in Hours /\ d \in Days /\ DayOfHour(h) = d
    BY <1>1, <1>2, Calendar, AggregatorAssumption
  <1>4. hourly \in [Hours -> Nat \cup {NoBucket}] /\ daily \in [Days -> Nat \cup {NoBucket}]
    BY DEF RollupIInv, RollupTypes
  <1>5. PICK a, b : a = Folded(hourly[h], v) /\ b = Folded(daily[d], v)
    OBVIOUS
  <1>6. a \in Nat /\ b \in Nat
    BY <1>1, <1>3, <1>4, <1>5 DEF Folded
  <1>7. hourly' = [hourly EXCEPT ![h] = a] /\ daily' = [daily EXCEPT ![d] = b]
    BY <1>2, <1>5 DEF SubmitReading, RollupRawToHourly
  <1> QED BY <1>2, <1>3, <1>4, <1>5, <1>6, <1>7

\* A submission keeps what the buckets say.
LEMMA SubmitKeepsTotals ==
  ASSUME RollupIInv, NEW v \in Values, SubmitReading(v)
  PROVE  /\ RollupTypes'
         /\ HourlyTotalsAreComplete' /\ OpenHoursAreFolded' /\ DailyTotalsAreComplete'
  <1>1. PICK h, d : h = HourOf(now) /\ d = DayOf(now)
    OBVIOUS
  <1>2. /\ hourly' \in [Hours -> Nat \cup {NoBucket}] /\ daily' \in [Days -> Nat \cup {NoBucket}]
        /\ h \in Hours /\ d \in Days /\ DayOfHour(h) = d
        /\ hourly'[h] = Folded(hourly[h], v) /\ hourly'[h] \in Nat
        /\ \A x \in Hours \ {h} : hourly'[x] = hourly[x]
        /\ daily'[d] = Folded(daily[d], v) /\ daily'[d] \in Nat
        /\ \A x \in Days \ {d} : daily'[x] = daily[x]
    BY <1>1, SubmitBuckets
  <1>3. /\ \A x : InHour(x)' = IF x = h THEN InHour(x) \cup {nextSeq} ELSE InHour(x)
        /\ \A x : InDay(x)' = IF x = d THEN InDay(x) \cup {nextSeq} ELSE InDay(x)
    BY <1>1, SubmitClasses
  <1>4. /\ nextSeq \in Nat /\ nextSeq' = nextSeq + 1 /\ now' = now /\ v \in Nat
        /\ readings'[nextSeq].value = v
    BY SubmittedLog DEF RollupIInv, OrderIInv
  <1>5. \A q \in 0 .. nextSeq - 1 : readings'[q] = readings[q]
    BY SubmittedLog DEF RollupIInv, OrderIInv
  <1>6. early' = early
    BY DEF SubmitReading
  <1>7. \A x : InHour(x) \in SUBSET (0 .. nextSeq - 1) /\ InDay(x) \in SUBSET (0 .. nextSeq - 1)
    BY DEF InHour, InDay
  <1>8. ASSUME NEW S \in SUBSET (0 .. nextSeq - 1)
        PROVE  /\ SumOf(ValueOf', S) = SumOf(ValueOf, S)
               /\ SumOf(ValueOf', S \cup {nextSeq}) = SumOf(ValueOf, S) + v
               /\ S = {} => SumOf(ValueOf', S \cup {nextSeq}) = v
    BY SubmitSums
  <1>9. RollupTypes'
    <2>1. \A q \in 0 .. nextSeq' - 1 : q \in 0 .. nextSeq - 1 \/ q = nextSeq
      BY <1>4
    <2>2. \A q \in 0 .. nextSeq' - 1 : readings'[q].value \in Nat
      BY <1>4, <1>5, <2>1 DEF RollupIInv, RollupTypes
    <2> QED BY <1>2, <1>4, <2>2 DEF RollupIInv, RollupTypes
  <1>10. /\ \A x \in Hours : hourly[x] # NoBucket /\ DayOfHour(x) \notin early
                               => hourly[x] = SumOf(ValueOf, InHour(x))
         /\ \A x \in Days : IF daily[x] = NoBucket THEN InDay(x) = {}
                            ELSE daily[x] = SumOf(ValueOf, InDay(x))
    BY DEF RollupIInv, HourlyTotalsAreComplete, DailyTotalsAreComplete, Sum, InHour
  <1>11. ASSUME NEW x \in Hours, hourly'[x] # NoBucket, DayOfHour(x) \notin early
         PROVE  hourly'[x] = SumOf(ValueOf', InHour(x)')
    <2>1. CASE x # h
      <3>1. hourly'[x] = SumOf(ValueOf, InHour(x))
        BY <1>2, <1>10, <1>11, <2>1
      <3> QED BY <1>3, <1>7, <1>8, <2>1, <3>1
    <2>2. CASE x = h /\ hourly[h] # NoBucket
      <3>1. hourly'[h] = SumOf(ValueOf, InHour(h)) + v
        BY <1>2, <1>10, <1>11, <2>2 DEF Folded
      <3> QED BY <1>3, <1>7, <1>8, <2>2, <3>1
    <2>3. CASE x = h /\ hourly[h] = NoBucket
      <3>1. d \in Nat
        BY <1>2 DEF Days
      <3>2. InHour(h) = {}
        BY <1>1, <1>2, <1>11, <2>3, <3>1 DEF RollupIInv, OpenHoursAreFolded
      <3>3. hourly'[h] = v
        BY <1>2, <2>3 DEF Folded
      <3> QED BY <1>3, <1>7, <1>8, <2>3, <3>2, <3>3
    <2> QED BY <2>1, <2>2, <2>3
  <1>12. HourlyTotalsAreComplete'
    BY <1>6, <1>11 DEF HourlyTotalsAreComplete, Sum, InHour
  <1>13. OpenHoursAreFolded'
    <2> SUFFICES ASSUME NEW x \in Hours, hourly'[x] = NoBucket, DayOfHour(x) \notin early,
                        DayOf(now) <= DayOfHour(x)
                 PROVE  InHour(x)' = {}
      BY <1>4, <1>6 DEF OpenHoursAreFolded, DayOf
    <2>1. x # h
      BY <1>2 DEF NoBucket
    <2>2. hourly[x] = NoBucket
      BY <1>2, <2>1
    <2>3. InHour(x) = {}
      BY <2>2 DEF RollupIInv, OpenHoursAreFolded
    <2> QED BY <1>3, <2>1, <2>3
  <1>14. ASSUME NEW x \in Days
         PROVE  IF daily'[x] = NoBucket THEN InDay(x)' = {}
                ELSE daily'[x] = SumOf(ValueOf', InDay(x)')
    <2>1. CASE x # d
      BY <1>2, <1>3, <1>7, <1>8, <1>10, <2>1
    <2>2. CASE x = d
      <3>1. daily'[d] # NoBucket
        BY <1>2 DEF NoBucket
      <3>2. InDay(d)' = InDay(d) \cup {nextSeq}
        BY <1>3
      <3>3. CASE daily[d] = NoBucket
        <4>1. InDay(d) = {} /\ daily'[d] = v
          BY <1>2, <1>10, <3>3 DEF Folded
        <4> QED BY <1>7, <1>8, <2>2, <3>1, <3>2, <4>1
      <3>4. CASE daily[d] # NoBucket
        <4>1. daily'[d] = SumOf(ValueOf, InDay(d)) + v
          BY <1>2, <1>10, <3>4 DEF Folded
        <4> QED BY <1>7, <1>8, <2>2, <3>1, <3>2, <4>1
      <3> QED BY <3>3, <3>4
    <2> QED BY <2>1, <2>2
  <1>15. DailyTotalsAreComplete'
    BY <1>14 DEF DailyTotalsAreComplete, Sum
  <1> QED BY <1>9, <1>12, <1>13, <1>15

\* A day's consolidation drops the buckets of its hours: of a day that is over
\* none of them will be folded into again, and a day that is not over is marked.
LEMMA RollupKeepsTotals ==
  ASSUME RollupIInv, NEW d \in Days, RollupDay(d)
  PROVE  /\ RollupTypes'
         /\ HourlyTotalsAreComplete' /\ OpenHoursAreFolded' /\ DailyTotalsAreComplete'
  <1>1. /\ UNCHANGED <<now, readings, nextSeq, daily>>
        /\ hourly' = [h \in Hours |-> IF h \in HoursOf(d) THEN NoBucket ELSE hourly[h]]
        /\ early' = IF d < DayOf(now) THEN early ELSE early \cup {d}
    BY DEF RollupDay
  <1>2. /\ \A x : InHour(x)' = InHour(x) /\ InDay(x)' = InDay(x)
        /\ ValueOf' = ValueOf
    BY <1>1 DEF InHour, InDay, ValueOf
  <1>3. RollupTypes'
    <2>1. hourly' \in [Hours -> Nat \cup {NoBucket}]
      BY <1>1 DEF RollupIInv, RollupTypes
    <2> QED BY <1>1, <2>1 DEF RollupIInv, RollupTypes
  <1>4. ASSUME NEW h \in Hours, hourly'[h] # NoBucket, DayOfHour(h) \notin early'
        PROVE  hourly'[h] = SumOf(ValueOf', InHour(h)')
    <2>1. hourly'[h] = hourly[h] /\ DayOfHour(h) \notin early
      BY <1>1, <1>4
    <2> QED BY <1>2, <1>4, <2>1 DEF RollupIInv, HourlyTotalsAreComplete, Sum, InHour
  <1>5. HourlyTotalsAreComplete'
    BY <1>4 DEF HourlyTotalsAreComplete, Sum, InHour
  <1>6. ASSUME NEW h \in Hours, hourly'[h] = NoBucket, DayOfHour(h) \notin early',
               DayOf(now) <= DayOfHour(h)
        PROVE  InHour(h) = {}
    <2>1. h \notin HoursOf(d)
      <3> SUFFICES ASSUME h \in HoursOf(d) PROVE FALSE
        OBVIOUS
      <3>1. h \in Nat /\ d \in Nat
        BY DEF Hours, Days
      <3>2. DayOfHour(h) = d
        BY <3>1, HoursOfDay, AggregatorAssumption
      <3>3. now \in Nat
        BY ReadingFacts
      <3>4. DayOf(now) \in Nat
        BY <3>3, Calendar, AggregatorAssumption
      <3> QED BY <1>1, <1>6, <3>1, <3>2, <3>4
    <2>2. hourly[h] = NoBucket /\ DayOfHour(h) \notin early
      BY <1>1, <1>6, <2>1
    <2> QED BY <1>6, <2>2 DEF RollupIInv, OpenHoursAreFolded
  <1>7. OpenHoursAreFolded'
    BY <1>1, <1>2, <1>6 DEF OpenHoursAreFolded, DayOf
  <1>8. DailyTotalsAreComplete'
    BY <1>1, <1>2 DEF RollupIInv, DailyTotalsAreComplete, Sum
  <1> QED BY <1>3, <1>5, <1>7, <1>8

\* Time closes hours and opens none.
LEMMA TimeKeepsTotals ==
  ASSUME RollupIInv, UNCHANGED <<readings, nextSeq, hourly, daily, early>>,
         now' \in Nat, now <= now', now' <= MaxTime
  PROVE  /\ RollupTypes'
         /\ HourlyTotalsAreComplete' /\ OpenHoursAreFolded' /\ DailyTotalsAreComplete'
  <1>1. RollupTypes'
    BY DEF RollupIInv, RollupTypes
  <1>2. HourlyTotalsAreComplete' /\ DailyTotalsAreComplete'
    BY DEF RollupIInv, HourlyTotalsAreComplete, DailyTotalsAreComplete, Sum, ValueOf, InDay
  <1>3. now \in Nat
    BY ReadingFacts
  <1>4. PICK d, e : d = DayOf(now) /\ e = DayOf(now)'
    OBVIOUS
  <1>5. d \in Nat /\ e \in Nat /\ d <= e
    BY <1>3, <1>4, Calendar, DaysFollow, AggregatorAssumption
  <1>6. \A h \in Hours : DayOfHour(h) \in Nat
    BY AggregatorAssumption, QuotientBounds DEF Hours, DayOfHour, AggregatorAssumption
  <1>7. OpenHoursAreFolded'
    BY <1>4, <1>5, <1>6 DEF RollupIInv, OpenHoursAreFolded, InHour
  <1> QED BY <1>1, <1>2, <1>7

\* Every step keeps what the buckets say.
LEMMA RollupKept == RollupIInv /\ [Next]_vars => RollupIInv'
  <1> SUFFICES ASSUME RollupIInv, [Next]_vars PROVE RollupIInv'
    OBVIOUS
  <1>1. OrderIInv'
    BY OrderKept DEF RollupIInv
  <1>2. now \in Nat /\ now <= MaxTime /\ MaxTime \in Nat
    BY ReadingFacts
  <1>3. \/ \E v \in Values : SubmitReading(v)
        \/ \E d \in Days : RollupDay(d)
        \/ /\ UNCHANGED <<readings, nextSeq, hourly, daily, early>>
           /\ now' \in Nat /\ now <= now' /\ now' <= MaxTime
    BY <1>2 DEF Next, Initialize, Prune, Tick, vars
  <1>4. /\ RollupTypes'
        /\ HourlyTotalsAreComplete' /\ OpenHoursAreFolded' /\ DailyTotalsAreComplete'
    BY <1>3, SubmitKeepsTotals, RollupKeepsTotals, TimeKeepsTotals
  <1> QED BY <1>1, <1>4 DEF RollupIInv

\* It holds of an empty contract.
LEMMA RollupStarts == Init => RollupIInv
  <1> SUFFICES ASSUME Init PROVE RollupIInv
    OBVIOUS
  <1>1. IInv
    BY InitInvariant
  <1>2. /\ now = 0 /\ nextSeq = 0 /\ MaxTime \in Nat
        /\ hourly = [h \in Hours |-> NoBucket] /\ daily = [d \in Days |-> NoBucket]
    BY AggregatorAssumption DEF Init, AggregatorAssumption
  <1>3. ReadingsInOrder /\ ReadingsArePast /\ RollupTypes
    BY <1>2 DEF ReadingsInOrder, ReadingsArePast, RollupTypes
  <1>4. HourlyTotalsAreComplete /\ OpenHoursAreFolded /\ DailyTotalsAreComplete
    BY <1>2 DEF HourlyTotalsAreComplete, OpenHoursAreFolded, DailyTotalsAreComplete, InHour, InDay
  <1> QED BY <1>1, <1>3, <1>4 DEF RollupIInv, OrderIInv

\* The inductive invariant holds in every behaviour.
LEMMA RollupInvariant == Spec => []RollupIInv
  BY RollupStarts, RollupKept, PTL DEF Spec

\* types.rs:26: an hourly bucket is the sum of all readings of its hour, in every
\* order of submissions, prunings and consolidations, for every length of hours
\* and days; of a day consolidated before it was over this is not claimed.
THEOREM AggregatorHourlyTotals == Spec => []HourlyTotalsAreComplete
  BY RollupInvariant, PTL DEF RollupIInv

-----------------------------------------------------------------------------
(* Windows *)

\* The readings of the days of a set, and those of the hours of one.
OfDays(D) == {q \in 0 .. nextSeq - 1 : DayOf(readings[q].at) \in D}
OfHours(H) == {q \in 0 .. nextSeq - 1 : HourOf(readings[q].at) \in H}

\* When a reading was, in hours and days.
LEMMA WhenRead ==
  ASSUME RollupIInv, NEW q \in 0 .. nextSeq - 1
  PROVE  /\ HourOf(readings[q].at) \in Hours /\ DayOf(readings[q].at) \in Days
         /\ \A d \in Days : HourOf(readings[q].at) \in HoursOf(d) <=> DayOf(readings[q].at) = d
  <1>1. PICK t \in Nat : t = readings[q].at /\ t <= MaxTime
    BY ReadingFacts
  <1>2. HourOf(t) \in Hours /\ HourOf(t) \in Nat /\ DayOf(t) \in Days
        /\ DayOf(t) = DayOfHour(HourOf(t))
    BY <1>1, Calendar, AggregatorAssumption
  <1>3. \A d \in Days : d \in Nat
    BY DEF Days
  <1>4. \A d \in Days : HourOf(t) \in HoursOf(d) <=> DayOfHour(HourOf(t)) = d
    BY <1>2, <1>3, HoursOfDay, AggregatorAssumption
  <1> QED BY <1>1, <1>2, <1>4

\* Hours, days and readings are finitely many.
LEMMA CalendarIsFinite ==
  ASSUME RollupIInv
  PROVE  /\ \A H \in SUBSET Hours : IsFiniteSet(H) /\ IsFiniteSet(OfHours(H))
         /\ \A D \in SUBSET Days : IsFiniteSet(D) /\ IsFiniteSet(OfDays(D))
  <1>1. MaxTime \in Nat
    BY ReadingFacts
  <1>2. HourOf(MaxTime) \in Nat /\ DayOf(MaxTime) \in Nat
    BY <1>1, Calendar, AggregatorAssumption
  <1>3. IsFiniteSet(Hours)
    BY <1>2, FS_Interval DEF Hours
  <1>4. IsFiniteSet(Days)
    BY <1>2, FS_Interval DEF Days
  <1>5. IsFiniteSet(0 .. nextSeq - 1)
    BY ReadingFacts
  <1> QED BY <1>3, <1>4, <1>5, FS_Subset DEF OfHours, OfDays

\* The buckets of days have all the readings of those days.
LEMMA DaysAddUp ==
  ASSUME RollupIInv, NEW D \in SUBSET Days, \A d \in D : daily[d] # NoBucket
  PROVE  SumOf(daily, D) = SumOf(ValueOf, OfDays(D))
  <1>1. PICK S, f, k : /\ S = OfDays(D) /\ f = ValueOf
                       /\ k = [q \in OfDays(D) |-> DayOf(readings[q].at)]
    OBVIOUS
  <1>2. IsFiniteSet(S) /\ IsFiniteSet(D)
    BY <1>1, CalendarIsFinite
  <1>3. \A q \in S : k[q] \in D
    BY <1>1 DEF OfDays
  <1>4. \A q \in S : f[q] \in Int
    BY <1>1, ReadingFacts DEF OfDays
  <1>5. ASSUME NEW d \in D
        PROVE  daily[d] = SumOf(f, ClassOf(S, k, d))
    <2>1. ClassOf(S, k, d) = InDay(d)
      BY <1>1 DEF OfDays, InDay, ClassOf
    <2> QED BY <1>1, <2>1 DEF RollupIInv, DailyTotalsAreComplete, Sum
  <1>6. SumOf(f, S) = SumOf(daily, D)
    BY <1>2, <1>3, <1>4, <1>5, SumByClass
  <1> QED BY <1>1, <1>6

\* So have hours that are resolved, each by its bucket or its raw readings.
LEMMA HoursAddUp ==
  ASSUME RollupIInv, NEW H \in SUBSET Hours,
         \A h \in H : IF hourly[h] # NoBucket THEN DayOfHour(h) \notin early
                      ELSE \A q \in 0 .. nextSeq - 1 : HourOf(readings[q].at) = h => q \in live
  PROVE  SumOf(HourVolume, H) = SumOf(ValueOf, OfHours(H))
  <1>1. PICK S, f, k, v : /\ S = OfHours(H) /\ f = ValueOf /\ v = HourVolume
                          /\ k = [q \in OfHours(H) |-> HourOf(readings[q].at)]
    OBVIOUS
  <1>2. IsFiniteSet(S) /\ IsFiniteSet(H)
    BY <1>1, CalendarIsFinite
  <1>3. \A q \in S : k[q] \in H
    BY <1>1 DEF OfHours
  <1>4. \A q \in S : f[q] \in Int
    BY <1>1, ReadingFacts DEF OfHours
  <1>5. ASSUME NEW h \in H
        PROVE  v[h] = SumOf(f, ClassOf(S, k, h))
    <2>1. ClassOf(S, k, h) = InHour(h)
      BY <1>1 DEF OfHours, InHour, ClassOf
    <2>2. v[h] = IF hourly[h] # NoBucket THEN hourly[h] ELSE SumRawForHour(h)
      BY <1>1 DEF HourVolume
    <2>3. CASE hourly[h] # NoBucket
      BY <1>1, <2>1, <2>2, <2>3 DEF RollupIInv, HourlyTotalsAreComplete, Sum, InHour
    <2>4. CASE hourly[h] = NoBucket
      <3>1. \A q \in 0 .. nextSeq - 1 : HourOf(readings[q].at) = h => q \in live
        BY <2>4
      <3>2. /\ live = cursor .. nextSeq - 1 /\ cursor \in 0 .. nextSeq /\ nextSeq \in Nat
        BY DEF RollupIInv, OrderIInv, IInv, LiveAboveCursor, PruningTyped
      <3>3. {q \in live : q >= cursor /\ q < nextSeq /\ HourOf(readings[q].at) = h} = InHour(h)
        BY <3>1, <3>2 DEF InHour
      <3> QED BY <1>1, <2>1, <2>2, <2>4, <3>3 DEF SumRawForHour, Sum
    <2> QED BY <2>3, <2>4
  <1>6. SumOf(f, S) = SumOf(v, H)
    BY <1>2, <1>3, <1>4, <1>5, SumByClass
  <1> QED BY <1>1, <1>6

\* The days a window has whole and the hours it visits share its readings out.
LEMMA WindowSplits ==
  ASSUME RollupIInv, NEW from \in Hours, NEW to \in Hours
  PROVE  /\ FastDays(from, to) \in SUBSET Days /\ SingleHours(from, to) \in SUBSET Hours
         /\ OfDays(FastDays(from, to)) \cap OfHours(SingleHours(from, to)) = {}
         /\ OfDays(FastDays(from, to)) \cup OfHours(SingleHours(from, to)) = OfHours(from .. to)
  <1>1. from .. to \subseteq Hours
    <2>1. MaxTime \in Nat
      BY ReadingFacts
    <2>2. HourOf(MaxTime) \in Nat
      BY <2>1, Calendar, AggregatorAssumption
    <2> QED BY <2>2 DEF Hours
  <1>2. PICK D, H : D = FastDays(from, to) /\ H = SingleHours(from, to)
    OBVIOUS
  <1>3. /\ D \subseteq Days /\ \A d \in D : HoursOf(d) \subseteq from .. to
        /\ H = {h \in from .. to : \A d \in D : h \notin HoursOf(d)}
    BY <1>2 DEF FastDays, SingleHours
  <1>4. ASSUME NEW q \in 0 .. nextSeq - 1
        PROVE  /\ ~(DayOf(readings[q].at) \in D /\ HourOf(readings[q].at) \in H)
               /\ DayOf(readings[q].at) \in D \/ HourOf(readings[q].at) \in H
                    <=> HourOf(readings[q].at) \in from .. to
    <2>1. \A d \in D : HourOf(readings[q].at) \in HoursOf(d) <=> DayOf(readings[q].at) = d
      BY <1>3, WhenRead
    <2> QED BY <1>3, <2>1
  <1>5. OfDays(D) \cap OfHours(H) = {}
    BY <1>4 DEF OfDays, OfHours
  <1>6. OfDays(D) \cup OfHours(H) = OfHours(from .. to)
    BY <1>4 DEF OfDays, OfHours
  <1> QED BY <1>1, <1>2, <1>3, <1>5, <1>6

\* README, Limitation: a window is exact when every hour it visits by itself has
\* its bucket or all of its readings, whatever was pruned of the days it has whole
\* and whenever a day was consolidated; for every length of hours, days and windows.
THEOREM AggregatorWindows == Spec => []WindowsAreExact
  <1>1. RollupIInv => WindowsAreExact
    <2> SUFFICES ASSUME RollupIInv, NEW from \in Hours, NEW to \in Hours,
                        \A h \in SingleHours(from, to) :
                          IF hourly[h] # NoBucket THEN DayOfHour(h) \notin early
                          ELSE \A q \in OfHours(from .. to) :
                                 HourOf(readings[q].at) = h => q \in live
                 PROVE  AggregatedVolume(from, to) = SumOf(ValueOf, OfHours(from .. to))
      BY DEF WindowsAreExact, Sum, OfHours
    <2>1. PICK D, H : D = FastDays(from, to) /\ H = SingleHours(from, to)
      OBVIOUS
    <2>2. /\ D \in SUBSET Days /\ H \in SUBSET Hours /\ OfDays(D) \cap OfHours(H) = {}
          /\ OfDays(D) \cup OfHours(H) = OfHours(from .. to)
      BY <2>1, WindowSplits
    <2>3. SumOf(daily, D) = SumOf(ValueOf, OfDays(D))
      <3>1. \A d \in D : daily[d] # NoBucket
        BY <2>1 DEF FastDays
      <3> QED BY <2>2, <3>1, DaysAddUp
    <2>4. SumOf(HourVolume, H) = SumOf(ValueOf, OfHours(H))
      <3>1. ASSUME NEW h \in H, hourly[h] = NoBucket, NEW q \in 0 .. nextSeq - 1,
                   HourOf(readings[q].at) = h
            PROVE  q \in live
        <4>1. h \in from .. to
          BY <2>1 DEF SingleHours
        <4>2. q \in OfHours(from .. to)
          BY <3>1, <4>1 DEF OfHours
        <4> QED BY <2>1, <3>1, <4>2
      <3>2. \A h \in H : IF hourly[h] # NoBucket THEN DayOfHour(h) \notin early
                         ELSE \A q \in 0 .. nextSeq - 1 :
                                HourOf(readings[q].at) = h => q \in live
        BY <2>1, <3>1
      <3> QED BY <2>2, <3>2, HoursAddUp
    <2>5. SumOf(ValueOf, OfDays(D) \cup OfHours(H))
            = SumOf(ValueOf, OfDays(D)) + SumOf(ValueOf, OfHours(H))
      <3>1. PICK f, R, S : f = ValueOf /\ R = OfDays(D) /\ S = OfHours(H)
        OBVIOUS
      <3>2. IsFiniteSet(R) /\ IsFiniteSet(S) /\ R \cap S = {}
        BY <2>2, <3>1, CalendarIsFinite
      <3>3. \A q \in R \cup S : f[q] \in Int
        BY <3>1, ReadingFacts DEF OfDays, OfHours
      <3>4. SumOf(f, R \cup S) = SumOf(f, R) + SumOf(f, S)
        BY <3>2, <3>3, SumOfUnion
      <3> QED BY <3>1, <3>4
    <2> QED BY <2>1, <2>2, <2>3, <2>4, <2>5 DEF AggregatedVolume
  <1> QED BY <1>1, RollupInvariant, PTL

=============================================================================
