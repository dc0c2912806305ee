---------------------------- MODULE TariffOracle ----------------------------
(***************************************************************************)
(* Time-of-use tariffs: a schedule of hourly rates, replaced by proposals  *)
(* the grid administrator executes after a notice period; and the flow of  *)
(* tokens over a period, rated hour by hour.  The schedule is kept twice:  *)
(* the current one, and a temporary copy for today that may expire.        *)
(***************************************************************************)
EXTENDS LedgerClock, Sequences, FiniteSetsExt, Sums

CONSTANTS
    TariffRates,       \* rates callers put in a schedule, some of them refused
    HoursInDay,        \* HOURS_IN_DAY (24)
    SecondsInHour,     \* 3600
    NoticePeriod,      \* TARIFF_NOTICE_PERIOD (24 hours)
    MaxWindows,        \* windows_crossed is a byte (255)
    MaxProposals       \* bound: proposals made

ASSUME TariffAssumption ==
    /\ TariffRates \subseteq Int
    /\ HoursInDay \in Nat \ {0} /\ SecondsInHour \in Nat \ {0}
    /\ NoticePeriod \in Nat /\ MaxWindows \in Nat /\ MaxProposals \in Nat

VARIABLES
    currentSchedule,  \* CurrentTariffSchedule
    todaySchedule,    \* TodayTariffSchedule
    tariffProposals   \* TariffUpdateProposal, by number

tariffVars == <<currentSchedule, todaySchedule, tariffProposals>>

Hours == 0 .. HoursInDay - 1
Schedules == [Hours -> TariffRates]
NoSchedule == [h \in Hours |-> 0]

\* validate_tariff_schedule: every rate is positive.
ValidSchedule(s) == \A h \in Hours : s[h] > 0

\* is_configured
TariffConfigured == currentSchedule # NoSchedule

TimestampToHour(t) == (t \div SecondsInHour) % HoursInDay

NextHourBoundary(t) == (t \div SecondsInHour + 1) * SecondsInHour

\* get_current_tariff: today's copy first.
CurrentTariff(hour) ==
    IF todaySchedule # NoSchedule THEN todaySchedule[hour] ELSE currentSchedule[hour]

\* calculate_current_flow_rate
CurrentFlowRate(consumption) == CurrentTariff(TimestampToHour(now)) * consumption

\* The ends of the pieces calculate_flow_for_period cuts [from, to) into.
PeriodEnds(from, to) ==
    {b \in {NextHourBoundary(t) : t \in from .. to - 1} : b < to} \cup {to}

\* Where the piece that ends at e starts.
PieceStart(from, to, e) == Max({from} \cup {b \in PeriodEnds(from, to) : b < e})

\* The seconds of each piece, at the tariff of the hour it starts in.
PieceWeights(from, to) ==
    [e \in PeriodEnds(from, to) |->
       LET s == PieceStart(from, to, e) IN CurrentTariff(TimestampToHour(s)) * (e - s)]

\* calculate_flow_for_period: one piece after the other; too many pieces overflow
\* the counter and panic.
FlowForPeriod(from, to, consumption) ==
    LET weight == SumOf(PieceWeights(from, to), PeriodEnds(from, to))
    IN  [tokens |-> consumption * weight,
         weighted |-> weight \div (to - from),
         windows |-> Cardinality(PeriodEnds(from, to)) - 1]

FlowIsComputed(from, to) ==
    from < to /\ Cardinality(PeriodEnds(from, to)) - 1 <= MaxWindows

-----------------------------------------------------------------------------
\* initialize: by anybody, once.
InitializeTariff(s) ==
    /\ ~TariffConfigured
    /\ ValidSchedule(s)
    /\ currentSchedule' = s
    /\ todaySchedule' = s
    /\ UNCHANGED tariffProposals

\* propose_tariff_update, by the grid administrator.
ProposeTariff(s) ==
    /\ TariffConfigured
    /\ ValidSchedule(s)
    /\ Len(tariffProposals) < MaxProposals
    /\ tariffProposals' = Append(tariffProposals,
         [schedule |-> s, executable |-> now + NoticePeriod, executed |-> FALSE])
    /\ UNCHANGED <<currentSchedule, todaySchedule>>

\* Mutant: the copy for today waits for the next day.
ExecuteForTomorrow(id) ==
    /\ ~tariffProposals[id].executed
    /\ now >= tariffProposals[id].executable
    /\ currentSchedule' = tariffProposals[id].schedule
    /\ tariffProposals' = [tariffProposals EXCEPT ![id].executed = TRUE]
    /\ UNCHANGED todaySchedule

\* execute_tariff_update, by the grid administrator: proposals may be executed
\* in any order, an earlier one after a later one too.
ExecuteTariff(id) ==
    /\ ~tariffProposals[id].executed
    /\ now >= tariffProposals[id].executable
    /\ currentSchedule' = tariffProposals[id].schedule
    /\ todaySchedule' = tariffProposals[id].schedule
    /\ tariffProposals' = [tariffProposals EXCEPT ![id].executed = TRUE]

\* The host drops a temporary entry whose time to live has run out.
TodayExpires ==
    /\ todaySchedule # NoSchedule
    /\ todaySchedule' = NoSchedule
    /\ UNCHANGED <<currentSchedule, tariffProposals>>

-----------------------------------------------------------------------------
TariffInit ==
    /\ currentSchedule = NoSchedule
    /\ todaySchedule = NoSchedule
    /\ tariffProposals = <<>>

TariffStep ==
    \/ \E s \in Schedules : InitializeTariff(s) \/ ProposeTariff(s)
    \/ \E id \in DOMAIN tariffProposals : ExecuteTariff(id)
    \/ TodayExpires

TariffNext ==
    \/ TariffStep /\ UNCHANGED now
    \/ Tick /\ UNCHANGED tariffVars

TariffSpec == now = 0 /\ TariffInit /\ [][TariffNext]_<<now, tariffVars>>

-----------------------------------------------------------------------------
\* A schedule in force or proposed has positive rates only; proposals become
\* executable a notice period after they were made.
TariffTypeOK ==
    /\ now \in Nat
    /\ {currentSchedule, todaySchedule} \subseteq
         {NoSchedule} \cup {s \in Schedules : ValidSchedule(s)}
    /\ tariffProposals \in Seq([schedule : {s \in Schedules : ValidSchedule(s)},
                                executable : {t + NoticePeriod : t \in 0 .. now},
                                executed : BOOLEAN])

\* Whichever copy is read, before or after it expires or a proposal is
\* executed, a use is rated by the current schedule.
RatedByCurrent == TariffConfigured => \A h \in Hours : CurrentTariff(h) = currentSchedule[h]

\* The tariff of each second of a period.
TariffOfSecond(from, to) == [t \in from .. to - 1 |-> CurrentTariff(TimestampToHour(t))]

\* What calculate_flow_for_period charges is what charging every second at the
\* tariff of its own hour would, wherever the period starts and ends; the mean
\* rate it reports is that of a second, rounded down.
FlowIsExact ==
    TariffConfigured =>
      \A from \in 0 .. now, to \in 1 .. now + SecondsInHour :
        FlowIsComputed(from, to) =>
          LET bySecond == SumOf(TariffOfSecond(from, to), from .. to - 1)
              flow == FlowForPeriod(from, to, 2)
          IN  flow.tokens = 2 * bySecond /\ flow.weighted = bySecond \div (to - from)

\* Consumers are charged by the hour, at valid rates of the schedule in force.
TariffInv == TariffTypeOK /\ RatedByCurrent /\ FlowIsExact

=============================================================================
