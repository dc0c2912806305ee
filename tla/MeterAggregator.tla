--------------------------- MODULE MeterAggregator ---------------------------
(***************************************************************************)
(* The meter-aggregator contract for one device (every storage key carries *)
(* the device, so devices do not meet): raw readings under sequence        *)
(* numbers, hourly and daily buckets kept as readings come in, pruning of  *)
(* stale readings behind a cursor, and windowed volume queries.  Each call *)
(* is one atomic step; a call that panics is no step.                      *)
(***************************************************************************)
EXTENDS Integers, FiniteSets, Sums

CONSTANTS
    Values,         \* reading values submitted
    MaxVolume,      \* largest i128
    HourLength,     \* ROLLUP_INTERVAL_SECS (3600)
    HoursPerDay,    \* HOURS_PER_DAY (24)
    Retention,      \* MAX_RAW_RETENTION_SECS (7 days)
    PruneBatchSize, \* PRUNE_BATCH_SIZE (10)
    MaxTime,        \* bound: last ledger timestamp
    MaxReadings     \* bound: readings submitted

ASSUME AggregatorAssumption ==
    /\ Values \subseteq Nat /\ MaxVolume \in Nat
    /\ HourLength \in Nat \ {0} /\ HoursPerDay \in Nat \ {0}
    /\ Retention \in Nat /\ PruneBatchSize \in Nat \ {0}
    /\ MaxTime \in Nat /\ MaxReadings \in Nat

VARIABLES
    now,      \* ledger timestamp
    ready,    \* an admin is set
    readings, \* what each sequence number was given; never rewritten
    live,     \* sequence numbers whose RawReading is still stored
    nextSeq,  \* ReadingSeq
    cursor,   \* PruneCursor
    hourly,   \* HourlyBucket totals by hour, NoBucket when absent
    daily,    \* DailyBucket totals by day, NoBucket when absent
    early     \* days consolidated before they were over (history)

vars == <<now, ready, readings, live, nextSeq, cursor, hourly, daily, early>>

NoReading == [at |-> -1, value |-> 0]
NoBucket == -1
HourOf(t) == t \div HourLength
DayOf(t) == t \div (HourLength * HoursPerDay)
HoursOf(d) == d * HoursPerDay .. d * HoursPerDay + HoursPerDay - 1
Hours == 0 .. HourOf(MaxTime)
Days == 0 .. DayOf(MaxTime)

ValueOf == [q \in DOMAIN readings |-> readings[q].value]
Sum(seqs) == SumOf(ValueOf, seqs)

-----------------------------------------------------------------------------
(* Pruning *)

Cutoff == IF now > Retention THEN now - Retention ELSE 0

\* Mutant: a reading exactly as old as the retention window goes too.
IsStaleOrDue(reading) == reading.at <= Cutoff

\* A reading at the cutoff is kept; the cutoff saturates at zero.
IsStale(reading) == reading.at < Cutoff

\* Where a pruning loop leaves the cursor: it passes gaps and stale readings,
\* and stops at the end, at a fresh reading or at a full batch.
LoopEnds(batch, log, stored, next, c) ==
    LET pruned(d) == Cardinality(stored \cap (cursor .. d - 1))
    IN  /\ \A q \in stored \cap (cursor .. c - 1) : IsStale(log[q])
        /\ \A d \in cursor .. c - 1 : pruned(d) < batch
        /\ \/ c = next
           \/ pruned(c) >= batch
           \/ c \in stored /\ ~IsStale(log[c])

\* Mutant: the batch is one short.
StopsShort(log, stored, next, c) ==
    LoopEnds(PruneBatchSize - 1, log, stored, next, c)

StopsAt(log, stored, next, c) == LoopEnds(PruneBatchSize, log, stored, next, c)

\* Mutant: the reading the loop stopped at is removed as well.
PruneOneMore(log, stored, next) ==
    \E c \in cursor .. next :
        /\ StopsAt(log, stored, next, c)
        /\ cursor' = c
        /\ live' = stored \ (cursor .. c)

\* prune_stale_readings, on what is stored when it is called.
PruneStaleReadings(log, stored, next) ==
    \E c \in cursor .. next :
        /\ StopsAt(log, stored, next, c)
        /\ cursor' = c
        /\ live' = stored \ (cursor .. c - 1)

-----------------------------------------------------------------------------
(* Rollups and queries *)

\* Mutant: a bucket keeps its last reading.
Latest(total, value) == value

Folded(total, value) == IF total = NoBucket THEN value ELSE total + value

\* rollup_raw_to_hourly: both buckets, with overflow-checked additions.
RollupRawToHourly(value) ==
    LET h == HourOf(now)
        d == DayOf(now)
    IN  /\ Folded(hourly[h], value) <= MaxVolume
        /\ Folded(daily[d], value) <= MaxVolume
        /\ hourly' = [hourly EXCEPT ![h] = Folded(@, value)]
        /\ daily' = [daily EXCEPT ![d] = Folded(@, value)]

\* sum_raw_for_hour: the readings still stored at or above the cursor.
SumRawForHour(h) ==
    Sum({q \in live : q >= cursor /\ q < nextSeq /\ HourOf(readings[q].at) = h})

\* Mutant: a day the window only begins in counts as a whole day.
DaysBegun(from, to) ==
    {d \in Days : daily[d] # NoBucket /\ d * HoursPerDay \in from .. to}

\* The days get_aggregated_volume answers from their DailyBucket.
FastDays(from, to) ==
    {d \in Days : daily[d] # NoBucket /\ HoursOf(d) \subseteq from .. to}

\* The hours it visits one by one.
SingleHours(from, to) ==
    {h \in from .. to : \A d \in FastDays(from, to) : h \notin HoursOf(d)}

\* An hour by itself: its bucket, or else the raw readings.
HourVolume == [h \in Hours |-> IF hourly[h] # NoBucket THEN hourly[h] ELSE SumRawForHour(h)]

\* get_aggregated_volume over the hours from .. to: whole days from the daily
\* bucket, the other hours one by one.
AggregatedVolume(from, to) ==
    SumOf(daily, FastDays(from, to)) + SumOf(HourVolume, SingleHours(from, to))

-----------------------------------------------------------------------------
(* Calls *)

Initialize ==
    /\ ~ready
    /\ ready' = TRUE
    /\ UNCHANGED <<now, readings, live, nextSeq, cursor, hourly, daily, early>>

\* submit_reading: store, fold into the buckets, prune.
SubmitReading(value) ==
    LET log == [readings EXCEPT ![nextSeq] = [at |-> now, value |-> value]]
    IN  /\ ready
        /\ nextSeq < MaxReadings
        /\ readings' = log
        /\ nextSeq' = nextSeq + 1
        /\ RollupRawToHourly(value)
        /\ PruneStaleReadings(log, live \cup {nextSeq}, nextSeq + 1)
        /\ UNCHANGED <<now, ready, early>>

\* prune: anybody, at any time.
Prune ==
    /\ PruneStaleReadings(readings, live, nextSeq)
    /\ UNCHANGED <<now, ready, readings, nextSeq, hourly, daily, early>>

\* rollup_day: the code takes any day, "completed" or not.
RollupDay(d) ==
    /\ ready
    /\ hourly' = [h \in Hours |-> IF h \in HoursOf(d) THEN NoBucket ELSE hourly[h]]
    /\ early' = IF d < DayOf(now) THEN early ELSE early \cup {d}
    /\ UNCHANGED <<now, ready, readings, live, nextSeq, cursor, daily>>

Tick ==
    /\ now < MaxTime
    /\ now' = now + 1
    /\ UNCHANGED <<ready, readings, live, nextSeq, cursor, hourly, daily, early>>

Init ==
    /\ now = 0
    /\ ready = FALSE
    /\ readings = [q \in 0 .. MaxReadings - 1 |-> NoReading]
    /\ live = {}
    /\ nextSeq = 0
    /\ cursor = 0
    /\ hourly = [h \in Hours |-> NoBucket]
    /\ daily = [d \in Days |-> NoBucket]
    /\ early = {}

Next ==
    \/ Initialize
    \/ \E v \in Values : SubmitReading(v)
    \/ Prune
    \/ \E d \in Days : RollupDay(d)
    \/ Tick

Spec == Init /\ [][Next]_vars

-----------------------------------------------------------------------------
(* Properties *)

Readings == [at : 0 .. MaxTime, value : Values]
Buckets == 0 .. MaxVolume \cup {NoBucket}

\* No bucket exceeds what an i128 holds: rollup_raw_to_hourly checks both sums.
TypeOK ==
    /\ now \in 0 .. MaxTime /\ ready \in BOOLEAN
    /\ readings \in [0 .. MaxReadings - 1 -> Readings \cup {NoReading}]
    /\ live \subseteq 0 .. nextSeq - 1
    /\ nextSeq \in 0 .. MaxReadings /\ cursor \in 0 .. nextSeq
    /\ hourly \in [Hours -> Buckets] /\ daily \in [Days -> Buckets]
    /\ early \subseteq Days

\* get_live_reading_count: "submitted minus pruned" is what is stored, so the
\* cursor never passes a stored reading nor stays behind a removed one.
LiveAboveCursor == live = cursor .. nextSeq - 1

\* No reading within the retention window is pruned, by any batch of any call.
FreshReadingsAreKept ==
    \A q \in 0 .. nextSeq - 1 : now - readings[q].at <= Retention => q \in live

Backlog == {q \in live : IsStale(readings[q])}

\* lib.rs:24: "a backlog drains over several submissions".  Every submission
\* takes a full batch off the stale backlog, or all of it.
BacklogDrains ==
    [][nextSeq' # nextSeq =>
         \/ Backlog' = {}
         \/ Cardinality(Backlog') = Cardinality(Backlog) - PruneBatchSize]_vars

DayOfHour(h) == h \div HoursPerDay

\* types.rs:26: an hourly bucket, when there is one, is the sum of all reading
\* values in its hour; of a day consolidated before it was over this is not so.
HourlyTotalsAreComplete ==
    \A h \in Hours :
        hourly[h] # NoBucket /\ DayOfHour(h) \notin early =>
          hourly[h] = Sum({q \in 0 .. nextSeq - 1 : HourOf(readings[q].at) = h})

\* A window is exact when each hour it visits by itself has a complete bucket or,
\* without a bucket, has lost no raw reading.  README, Limitation: "Full-day and
\* multi-day windows remain exact" whatever was pruned, and whenever a day was
\* consolidated.
WindowsAreExact ==
    \A from \in Hours, to \in Hours :
        LET within == {q \in 0 .. nextSeq - 1 : HourOf(readings[q].at) \in from .. to}
            resolved(h) == IF hourly[h] # NoBucket THEN DayOfHour(h) \notin early
                           ELSE \A q \in within : HourOf(readings[q].at) = h => q \in live
        IN  from <= to /\ (\A h \in SingleHours(from, to) : resolved(h))
              => AggregatedVolume(from, to) = Sum(within)

=============================================================================
