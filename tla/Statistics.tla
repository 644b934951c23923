------------------------------ MODULE Statistics ------------------------------
(***************************************************************************)
(* The day and hour statistics (dsmr_stats.services.run). Each call looks  *)
(* for one day that is over and completely processed and creates its hours *)
(* and its summary in one transaction, or leaves through one of its early  *)
(* returns, which only reschedule the process: those are the conjuncts of  *)
(* Generate, and when run() is called again is left to module Scheduler.   *)
(*                                                                         *)
(* Electricity is one register here (the code treats tariffs and returned  *)
(* electricity alike); costs and temperatures are left out.                *)
(***************************************************************************)
EXTENDS MeterTime, FiniteSets, FiniteSetsExt

VARIABLES
    clock,
    readings,
    electricity,
    gas,
    dayStats,       \* dsmr_stats_daystatistics
    hourStats       \* dsmr_stats_hourstatistics

DayRow == [day : Nat, electricity : Int, gas : Int]

HourRow == [hour : Nat, electricity : Int, gas : Int]

TypeOK ==
    /\ dayStats \subseteq DayRow
    /\ hourStats \subseteq HourRow

Init == dayStats = {} /\ hourStats = {}

Today == DayOf(clock)

\* consumption_by_range(): the rows of [start, end), oldest first.
Within(table, start, end) == {x \in table : start <= x.readAt /\ x.readAt < end}

First(rows) == CHOOSE x \in rows : \A y \in rows : x.readAt <= y.readAt

Last(rows) == CHOOSE x \in rows : \A y \in rows : x.readAt >= y.readAt

DaysWithStats == {s.day : s \in dayStats}

ConsumptionAfter(t) == {e \in electricity : e.readAt > t}

\* Fault: the latest consumption is looked at, not the first one.
NextDay_Latest == DayOf(Last(electricity).readAt)

\* Fault: days without consumption are not stepped over.
NextDay_NoSearch ==
    IF dayStats = {}
    THEN DayOf(First(electricity).readAt)
    ELSE Max(DaysWithStats) + 1

\* get_next_day_to_generate(): the first day ever, or the next one with any
\* consumption after its midnight, or else simply the next one.
NextDay ==
    IF dayStats = {}
    THEN DayOf(First(electricity).readAt)
    ELSE LET next == Max(DaysWithStats) + 1
         IN  IF ConsumptionAfter(DayStart(next)) = {}
             THEN next
             ELSE DayOf(First(ConsumptionAfter(DayStart(next))).readAt)

\* create_hourly_statistics(): the electricity and the gas of an hour. A single
\* gas row counts for its own difference, more of them for what is between them.
HourElectricity(rows) == Last(rows).last - First(rows).last

HourGas(rows) ==
    CASE rows = {} -> 0
      [] Cardinality(rows) = 1 -> First(rows).diff
      [] OTHER -> Last(rows).delivered - First(rows).delivered

HourStatistics(h) ==
    [hour |-> h,
     electricity |-> HourElectricity(Within(electricity, h, h + TicksPerHour)),
     gas |-> HourGas(Within(gas, h, h + TicksPerHour))]

HoursOf(d) == {DayStart(d) + TicksPerHour * i : i \in 0..(HoursPerDay - 1)}

\* Hours without electricity, and hours that have their statistics, are skipped.
HoursToCreate(d) ==
    {h \in HoursOf(d) : /\ Within(electricity, h, h + TicksPerHour) # {}
                        /\ \A s \in hourStats : s.hour # h}

HoursGasSum(d, hs) ==
    LET ofDay == {s \in hs : s.hour \in HoursOf(d)}
    IN  MapThenSumSet(LAMBDA s : s.gas, ofDay)

\* create_daily_statistics() with day_consumption(): electricity from the first
\* and the last row of the day, gas as the sum of its hours.
DayStatistics(d, hs) ==
    [day |-> d,
     electricity |-> HourElectricity(Within(electricity, DayStart(d), DayStart(d + 1))),
     gas |-> HoursGasSum(d, hs)]

\* Fault: unprocessed readings are not waited for.
AllProcessed_Ignored(d) == TRUE

AllProcessed(d) == \A r \in readings : DayOf(r.at) = d => r.processed

HasConsumption(d) == \E e \in electricity : DayOf(e.readAt) = d

\* The capability is that there is any gas row (cached for a minute in the code,
\* less than a tick here).
GasCapability == gas # {}

RecentlyGasRead(d) == \E q \in gas : DayOf(q.readAt) >= d - 1

GasReadNextDay(d) == \E q \in gas : DayOf(q.readAt) >= d + 1

\* Fault: gas of the next day is not waited for.
GasComplete_NotAwaited(d) == TRUE

GasComplete(d) == GasCapability /\ RecentlyGasRead(d) => GasReadNextDay(d)

\* create_statistics(): atomic.
CreateStatistics(d) ==
    /\ hourStats' = hourStats \union {HourStatistics(h) : h \in HoursToCreate(d)}
    /\ dayStats' = dayStats \union {DayStatistics(d, hourStats')}

Generate ==
    /\ electricity # {}
    /\ NextDay < Today
    /\ AllProcessed(NextDay)
    /\ HasConsumption(NextDay)
    /\ GasComplete(NextDay)
    /\ CreateStatistics(NextDay)
===============================================================================
