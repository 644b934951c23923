------------------------------ MODULE Pipeline ------------------------------
(***************************************************************************)
(* From telegram to day statistics: the compactor, the retention policy    *)
(* and the statistics generator on one database. All three are services    *)
(* of the same backend process, which calls them one after the other, so   *)
(* none of them starts in the middle of another; the datalogger inserts at *)
(* any moment and the backend may die at any moment.                       *)
(***************************************************************************)
EXTENDS Compactor, FiniteSetsExt

CONSTANTS
    RetentionTicks,
    MaxCleanupHours,
    MeterTicks,     \* the moments of which there may be a telegram
    MaxLag          \* how long a telegram may take to arrive

ASSUME PipelineAssumption ==
    /\ RetentionTicks \in Nat \ {0}
    /\ MaxCleanupHours \in Nat \ {0}
    /\ MeterTicks \subseteq Ticks
    /\ MaxLag \in Nat

VARIABLES
    cleaning,
    hours,
    dayStats,
    hourStats,
    sent,           \* history: the timestamps of all telegrams
    inTime          \* history: of those, the ones of days that were not closed

Retain == INSTANCE Retention

Stats == INSTANCE Statistics

retentionVars == <<cleaning, hours>>
statsVars == <<dayStats, hourStats>>
historyVars == <<sent, inTime>>
allVars == <<vars, retentionVars, statsVars, historyVars>>

PipelineInit ==
    /\ Init
    /\ Retain!Init
    /\ Stats!Init
    /\ sent = {}
    /\ inTime = {}

BackendIdle == pc = "idle" /\ cleaning = "none"

Telegram ==
    /\ \E t \in MeterTicks :
           /\ t + MaxLag >= clock
           /\ Receive(t)
           /\ sent' = sent \union {t}
           /\ inTime' = IF DayOf(t) \in Stats!DaysWithStats THEN inTime ELSE inTime \union {t}
    /\ UNCHANGED <<retentionVars, statsVars>>

TimePasses == Tick /\ UNCHANGED <<retentionVars, statsVars, historyVars>>

RunCompactor ==
    /\ cleaning = "none"
    /\ Pass
    /\ UNCHANGED <<retentionVars, statsVars, historyVars>>

RunRetention ==
    /\ pc = "idle"
    /\ Retain!Run
    /\ UNCHANGED <<meterVars, grouping, passVars, nextPk, crashes, statsVars, historyVars>>

RunStatistics ==
    /\ BackendIdle
    /\ Stats!Generate
    /\ UNCHANGED <<vars, retentionVars, historyVars>>

BackendDies ==
    \/ Crash /\ UNCHANGED <<retentionVars, statsVars, historyVars>>
    \/ /\ Retain!Abort
       /\ crashes < MaxCrashes
       /\ crashes' = crashes + 1
       /\ UNCHANGED <<meterVars, grouping, passVars, nextPk, statsVars, historyVars>>

PipelineNext ==
    \/ Telegram
    \/ TimePasses
    \/ RunCompactor
    \/ RunRetention
    \/ RunStatistics
    \/ BackendDies

PipelineSpec == PipelineInit /\ [][PipelineNext]_allVars

\* Every service is called again and again.
PipelineFairness ==
    /\ WF_allVars(TimePasses)
    /\ SF_allVars(RunCompactor)
    /\ SF_allVars(RunRetention)
    /\ SF_allVars(RunStatistics)

PipelineFairSpec == PipelineSpec /\ PipelineFairness

-----------------------------------------------------------------------------
(***************************************************************************)
(* What the pipeline promises.                                             *)
(***************************************************************************)

Hours == {h \in Ticks : h = HourStart(h)}

Days == {DayOf(t) : t \in Ticks}

\* What the statistics of an hour and a day would be, were they created now.
HourSummary(h) == IF Stats!Within(electricity, h, h + TicksPerHour) = {}
                  THEN <<>> ELSE <<Stats!HourStatistics(h)>>

DaySummary(d) == IF Stats!Within(electricity, DayStart(d), DayStart(d + 1)) = {}
                 THEN <<>> ELSE <<Stats!HourElectricity(Stats!Within(electricity, DayStart(d), DayStart(d + 1)))>>

\* Whatever the retention policy deletes, at any point of its run, no statistic
\* depends on it: of every hour and day they would come out the same before and
\* after, so they may be created, or reconstructed, later.
RetentionKeepsStatistics ==
    [][cleaning # "none" =>
           /\ \A h \in Hours : HourSummary(h)' = HourSummary(h)
           /\ \A d \in Days : DaySummary(d)' = DaySummary(d)]_allVars

\* The retention policy never deletes a reading that was not compacted yet, nor
\* the last trace of an hour: of each hour with readings, one is still there.
RetentionKeepsUnprocessed ==
    [][\A r \in readings :
           /\ ~r.processed => \E s \in readings' : s.pk = r.pk
           /\ \E s \in readings' : HourStart(s.at) = HourStart(r.at)]_allVars

InTimeOn(d) == {t \in inTime : DayOf(t) = d}

\* Ungrouped: the day's electricity is what the meter counted between the first
\* and the last telegram of that day, all of those that arrived before the day was
\* closed, although the rows in between were compacted after crashes and partly
\* deleted by then.
DayMatchesMeter ==
    grouping = ByReading =>
        \A s \in dayStats :
            s.electricity = Max(InTimeOn(s.day)) - Min(InTimeOn(s.day))

\* Grouped by minute: nothing arrives for a day that is closed, however late the
\* telegrams are. The wait for a reading beyond the minute, which belongs to the
\* compactor, and the wait for unprocessed readings, which belongs to the
\* statistics, achieve this only together.
ClosedDaysAreComplete == grouping = ByMinute => inTime = sent

\* No gas is counted twice: the gas of all days together is at most what the
\* meter advanced between the first row and the last one of those days.
GasCountedOnce ==
    LET total == MapThenSumSet(LAMBDA s : s.gas, dayStats)
    IN  total > 0 => \E p, q \in gas : /\ DayOf(q.readAt) \in Stats!DaysWithStats
                                       /\ q.delivered - p.delivered >= total

\* The row before the day.
Precedes(p, d) == p.readAt < DayStart(d) /\ \A q \in gas :
                      q.readAt < DayStart(d) => q.readAt <= p.readAt

\* DSMR 4: the gas of a day of which no hour was missed is what the meter counted
\* between the midnights, which the meter reports an hour after the fact: the
\* reading that completes the day is one of the next day.
FullDayHasItsGas ==
    \A s \in dayStats, before \in gas :
        (/\ Precedes(before, s.day)
         /\ before.readAt = DayStart(s.day) - TicksPerHour
         /\ \A h \in Stats!HoursOf(s.day) :
                (\E x \in hourStats : x.hour = h) /\ HasRow(gas, h))
        => s.gas = DayStart(s.day + 1) - DayStart(s.day)

\* Statistics exist for consecutive days with consumption: no day with a row
\* after midnight is passed over for a later one. By minute, the row of a
\* reading is the end of its minute.
NoDaySkipped ==
    \A s \in dayStats, t \in sent :
        LET row == IF grouping = ByMinute THEN MinuteEnd(t) ELSE t
        IN  (DayOf(row) < s.day /\ row # DayStart(DayOf(row))) => DayOf(row) \in Stats!DaysWithStats

\* A day is closed once it is over: its statistics are created, provided that a
\* reading of a later day arrives (with gas, if there is gas). A day that is over
\* remains so and its statistics are kept, so that of any day this says what ~> would.
DayIsOver(d) ==
    /\ DayOf(clock) > d
    /\ \E e \in electricity : DayOf(e.readAt) = d /\ e.readAt > DayStart(d)
    /\ \E e \in electricity : DayOf(e.readAt) > d
    /\ Stats!GasCapability => Stats!GasReadNextDay(d)

DayGetsClosed == []<>(\A d \in Days : DayIsOver(d) => d \in Stats!DaysWithStats)

\* The rows of an hour beyond the retention date; of the readings those that are
\* compacted, the others have to wait for that.
OldRows(table, h) ==
    {x \in Retain!Items(table) :
        HourStart(Retain!Stamp(table, x)) = h /\ Retain!Stamp(table, x) < clock - RetentionTicks}

\* Retention gets through: again and again there comes a moment when no hour of any
\* table holds more than the two old rows to keep, although a run takes on only the
\* first few of the hours that need it and may be cut short: an hour is not held up
\* by the ones before it.
RetentionGetsThrough ==
    []<>(\A table \in Retain!Tables, h \in Hours : Cardinality(OldRows(table, h)) <= 2)
===============================================================================
