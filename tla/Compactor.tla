------------------------------ MODULE Compactor ------------------------------
(***************************************************************************)
(* The compactor (dsmr_consumption.services.run) turns the readings that   *)
(* the datalogger and the API insert into consumption rows, while they     *)
(* keep inserting.  Three processes share the database, in autocommit:     *)
(* the datalogger (Receive), the web process (Create, ChangeGrouping) and  *)
(* the backend, which runs one pass of the compactor at a time.  A reading *)
(* is compacted in three separate commits (electricity, gas, processed)    *)
(* and the backend may die, or raise, between any two of them (Crash).     *)
(*                                                                         *)
(* When a pass starts is left to the module Scheduler: here run() may be   *)
(* called at any moment at which it has a reading to look at, which        *)
(* includes every delay of one or fifteen seconds the code asks for.       *)
(***************************************************************************)
EXTENDS MeterTime, FiniteSets

CONSTANTS
    LastTick,       \* bound on the clock and on the timestamps
    MaxReadings,    \* bound on the readings inserted
    MaxCrashes,     \* bound on the crashes of the backend
    CompactMax,     \* DSMRREADER_COMPACT_MAX
    FutureTicks,    \* how far a telegram may run ahead of the system (24 h)
    Groupings,      \* the electricity groupings the administrator uses
    GasByHour,      \* ConsumptionSettings.gas_grouping_type = BY_HOUR
    DsmrV4,         \* MeterStatistics.dsmr_version starts with "4"
    GasInterval,    \* a gas meter's timestamp advances in these steps
    GasPresence,    \* subset of BOOLEAN: may telegrams have, or lack, gas?
    Retroactive     \* may the API insert readings with any timestamp?

ByReading == "by reading"
ByMinute == "by minute"
NoGas == -1

ASSUME CompactorAssumption ==
    /\ LastTick \in Nat
    /\ MaxReadings \in Nat
    /\ MaxCrashes \in Nat
    /\ CompactMax \in Nat \ {0}
    /\ FutureTicks \in Nat
    /\ Groupings \subseteq {ByReading, ByMinute}
    /\ GasByHour \in BOOLEAN
    /\ DsmrV4 \in BOOLEAN
    /\ GasInterval \in Nat \ {0}
    /\ GasPresence \subseteq BOOLEAN
    /\ Retroactive \in BOOLEAN

VARIABLES
    clock,          \* timezone.now()
    meterTime,      \* timestamp of the meter's latest telegram, -1 if none
    readings,       \* dsmr_datalogger_dsmrreading
    electricity,    \* dsmr_consumption_electricityconsumption
    gas,            \* dsmr_consumption_gasconsumption
    grouping,       \* ConsumptionSettings.electricity_grouping_type
    pc,             \* where the backend is in run() and compact()
    batch,          \* the readings this pass fetched and did not finish
    current,        \* the reading being compacted
    mode,           \* the grouping that compact() read for it
    nextPk,
    crashes

meterVars == <<clock, meterTime>>
dbVars == <<readings, electricity, gas>>
passVars == <<pc, batch, current, mode>>
vars == <<clock, meterTime, readings, electricity, gas, grouping, pc, batch,
          current, mode, nextPk, crashes>>

Ticks == 0..LastTick

Reading == [pk : Nat, at : Nat, gasAt : Int, processed : BOOLEAN]

NoReading == [pk |-> 0, at |-> 0, gasAt |-> NoGas, processed |-> FALSE]

ElectricityRow == [readAt : Nat, last : Nat]

GasRow == [readAt : Int, delivered : Int, diff : Int]

TypeOK ==
    /\ clock \in Nat
    /\ meterTime \in Int
    /\ readings \subseteq Reading
    /\ electricity \subseteq ElectricityRow
    /\ gas \subseteq GasRow
    /\ grouping \in Groupings
    /\ pc \in {"idle", "next", "electricity", "gas", "processed"}
    /\ batch \subseteq {r \in readings : ~r.processed}
    /\ IF pc \in {"idle", "next"} THEN current = NoReading ELSE current \in batch
    /\ mode \in Groupings
    /\ nextPk \in Nat \ {0}
    /\ crashes \in Nat

Init ==
    /\ clock = 0
    /\ meterTime = -1
    /\ readings = {}
    /\ electricity = {}
    /\ gas = {}
    /\ grouping \in Groupings
    /\ pc = "idle"
    /\ batch = {}
    /\ current = NoReading
    /\ mode = grouping
    /\ nextPk = 1
    /\ crashes = 0

-----------------------------------------------------------------------------
(***************************************************************************)
(* Readings arriving.                                                      *)
(***************************************************************************)

Tick ==
    /\ clock < LastTick
    /\ clock' = clock + 1
    /\ UNCHANGED <<meterTime, dbVars, grouping, passVars, nextPk, crashes>>

\* The gas timestamps a telegram of tick t may carry.
GasStamps(t) ==
    { IF hasGas THEN t - (t % GasInterval) ELSE NoGas : hasGas \in GasPresence }

Insert(t, g) ==
    /\ nextPk <= MaxReadings
    /\ readings' = readings \union
           {[pk |-> nextPk, at |-> t, gasAt |-> g, processed |-> FALSE]}
    /\ nextPk' = nextPk + 1
    /\ UNCHANGED <<clock, electricity, gas, grouping, passVars, crashes>>

\* telegram_to_reading(): a meter sends its telegrams in the order of its own
\* clock; one that is too far ahead of the system's clock is discarded.
Receive(t) ==
    /\ t > meterTime
    /\ t <= clock + FutureTicks
    /\ meterTime' = t
    /\ \E g \in GasStamps(t) : Insert(t, g)

\* POST /api/v2/datalogger/dsmrreading: any timestamp is accepted.
Create(t) ==
    /\ Retroactive
    /\ \E g \in GasStamps(t) : Insert(t, g)
    /\ UNCHANGED meterTime

ChangeGrouping(g) ==
    /\ grouping # g
    /\ grouping' = g
    /\ UNCHANGED <<meterVars, dbVars, passVars, nextPk, crashes>>

-----------------------------------------------------------------------------
(***************************************************************************)
(* One pass of the compactor.                                              *)
(***************************************************************************)

Unprocessed == {r \in readings : ~r.processed}

\* Fault: the newest readings first.
OldestFirst_Newest(S, B) ==
    /\ B \subseteq S
    /\ \A r \in B, s \in S \ B : r.at >= s.at
    /\ Cardinality(B) = IF Cardinality(S) < CompactMax THEN Cardinality(S) ELSE CompactMax

\* The oldest CompactMax of a set of readings: Meta.ordering = ["timestamp"],
\* in any order among equal timestamps.
OldestFirst(S, B) ==
    /\ B \subseteq S
    /\ \A r \in B, s \in S \ B : r.at <= s.at
    /\ Cardinality(B) = IF Cardinality(S) < CompactMax THEN Cardinality(S) ELSE CompactMax

\* run(): the queryset is evaluated once; what arrives later waits for the
\* next pass.
StartPass ==
    /\ pc = "idle"
    /\ Unprocessed # {}
    /\ \E B \in SUBSET Unprocessed :
           /\ OldestFirst(Unprocessed, B)
           /\ batch' = B
    /\ pc' = "next"
    /\ UNCHANGED <<meterVars, dbVars, grouping, current, mode, nextPk, crashes>>

\* The two waits of compact(): for the system's clock to pass the minute, and
\* for a reading beyond the minute.
MinutePassed(r) == clock >= MinuteEnd(r.at)

NewerReadingExists(r) == \E s \in readings : s.at >= MinuteEnd(r.at)

\* Fault: trusting the system's clock alone.
Ready_SystemTimeOnly(r) == grouping = ByMinute => MinutePassed(r)

Ready(r) == grouping = ByMinute => MinutePassed(r) /\ NewerReadingExists(r)

Oldest(r) == r \in batch /\ \A s \in batch : r.at <= s.at

Compact(r) ==
    /\ pc = "next"
    /\ Oldest(r)
    /\ Ready(r)
    /\ pc' = "electricity"
    /\ current' = r
    /\ mode' = grouping
    /\ UNCHANGED <<meterVars, dbVars, grouping, batch, nextPk, crashes>>

\* CompactorNotReadyError ends the whole pass.
NotReady(r) ==
    /\ pc = "next"
    /\ Oldest(r)
    /\ ~Ready(r)
    /\ pc' = "idle"
    /\ batch' = {}
    /\ UNCHANGED <<meterVars, dbVars, grouping, current, mode, nextPk, crashes>>

\* Ungrouped, a row repeats its reading. Grouped, it takes the highest position
\* of the minute, over all its readings, processed or not.
InMinute(S, r) == {s \in S : s.at >= MinuteStart(r.at) /\ s.at < MinuteEnd(r.at)}

RowKey(r, m) == IF m = ByMinute THEN MinuteEnd(r.at) ELSE r.at

RowSources(r, m) == IF m = ByMinute THEN InMinute(readings, r) ELSE {r}

\* The reading once its processed column is saved.
Done(r) == [pk |-> r.pk, at |-> r.at, gasAt |-> r.gasAt, processed |-> TRUE]

HasRow(table, k) == \E e \in table : e.readAt = k

\* Fault: the reading is marked along with its electricity.
CompactElectricity_MarksEarly ==
    /\ pc = "electricity"
    /\ electricity' = electricity \union
           {[readAt |-> RowKey(current, mode), last |-> current.at]}
    /\ readings' = (readings \ {current}) \union {Done(current)}
    /\ batch' = (batch \ {current}) \union {Done(current)}
    /\ current' = Done(current)
    /\ pc' = "gas"
    /\ UNCHANGED <<meterVars, gas, grouping, mode, nextPk, crashes>>

CompactElectricity ==
    /\ pc = "electricity"
    /\ IF HasRow(electricity, RowKey(current, mode))
       THEN UNCHANGED electricity
       ELSE \E s \in RowSources(current, mode) :
                /\ \A o \in RowSources(current, mode) : o.at <= s.at
                /\ electricity' = electricity \union
                       {[readAt |-> RowKey(current, mode), last |-> s.at]}
    /\ pc' = "gas"
    /\ UNCHANGED <<meterVars, readings, gas, grouping, batch, current, mode, nextPk, crashes>>

GasKey(r) ==
    LET hour == IF GasByHour THEN HourStart(r.gasAt) ELSE r.gasAt
    IN  IF DsmrV4 THEN hour - TicksPerHour ELSE hour

\* Fault: ordering by read_at instead of -read_at.
PreviousGas_First(k) ==
    {p \in gas : /\ p.readAt < k
                 /\ \A q \in gas : q.readAt < k => q.readAt >= p.readAt}

\* The latest row before k, as a set: empty when there is none.
PreviousGas(k) ==
    {p \in gas : /\ p.readAt < k
                 /\ \A q \in gas : q.readAt < k => q.readAt <= p.readAt}

GasDiff(position, k) ==
    IF PreviousGas(k) = {}
    THEN 0
    ELSE position - (CHOOSE p \in PreviousGas(k) : TRUE).delivered

\* Fault: existing rows are not looked for.
CompactGas_NoLookup ==
    /\ pc = "gas"
    /\ IF current.gasAt = NoGas
       THEN UNCHANGED gas
       ELSE gas' = gas \union {[readAt |-> GasKey(current),
                                delivered |-> current.gasAt,
                                diff |-> GasDiff(current.gasAt, GasKey(current))]}
    /\ pc' = "processed"
    /\ UNCHANGED <<meterVars, readings, electricity, grouping, batch, current, mode, nextPk, crashes>>

CompactGas ==
    /\ pc = "gas"
    /\ IF current.gasAt = NoGas \/ HasRow(gas, GasKey(current))
       THEN UNCHANGED gas
       ELSE gas' = gas \union {[readAt |-> GasKey(current),
                                delivered |-> current.gasAt,
                                diff |-> GasDiff(current.gasAt, GasKey(current))]}
    /\ pc' = "processed"
    /\ UNCHANGED <<meterVars, readings, electricity, grouping, batch, current, mode, nextPk, crashes>>

MarkProcessed ==
    /\ pc = "processed"
    /\ readings' = (readings \ {current}) \union {Done(current)}
    /\ batch' = batch \ {current}
    /\ pc' = IF batch' = {} THEN "idle" ELSE "next"
    /\ current' = NoReading
    /\ UNCHANGED <<meterVars, electricity, gas, grouping, mode, nextPk, crashes>>

\* The process is killed, or an exception leaves run(): what was committed
\* stays, the rest of the pass is forgotten.
Crash ==
    /\ pc # "idle"
    /\ crashes < MaxCrashes
    /\ crashes' = crashes + 1
    /\ pc' = "idle"
    /\ batch' = {}
    /\ current' = NoReading
    /\ UNCHANGED <<meterVars, dbVars, grouping, mode, nextPk>>

Pass ==
    \/ StartPass
    \/ \E r \in batch : Compact(r) \/ NotReady(r)
    \/ CompactElectricity
    \/ CompactGas
    \/ MarkProcessed

Next ==
    \/ Tick
    \/ \E t \in Ticks : Receive(t) \/ Create(t)
    \/ \E g \in Groupings : ChangeGrouping(g)
    \/ Pass
    \/ Crash

Spec == Init /\ [][Next]_vars

\* The clock runs, and the backend's loop runs for as long as its process does.
Fairness == WF_vars(Tick) /\ WF_vars(Pass)

FairSpec == Spec /\ Fairness

-----------------------------------------------------------------------------
(***************************************************************************)
(* What the compactor promises.                                            *)
(***************************************************************************)

\* A reading is marked as processed only when its consumption is stored: there
\* is a row for its moment or its minute, and a gas row if it had gas. Holds
\* whatever the order of the inserts, the changes of grouping and the crashes
\* between the three commits of compact().
ProcessedIsStored ==
    \A r \in readings : r.processed =>
        /\ HasRow(electricity, r.at) \/ HasRow(electricity, MinuteEnd(r.at))
        /\ r.gasAt # NoGas => HasRow(gas, GasKey(r))

\* The tables have one row for each moment: the unique constraints on read_at
\* never reject what compact() creates, so a pass cannot get stuck on them.
OneRowPerMoment ==
    /\ \A e, f \in electricity : e.readAt = f.readAt => e = f
    /\ \A p, q \in gas : p.readAt = q.readAt => p = q

\* Grouping by minute, with a meter that sends its telegrams in order: the row
\* of a minute holds the position of the last reading of that minute, although
\* more readings may be inserted while and after the row is computed. This is
\* what the wait for "(new) readings beyond this minute" is for.
MinuteRowsAreFinal ==
    \A e \in electricity :
        /\ \E r \in readings : MinuteEnd(r.at) = e.readAt /\ r.at = e.last
        /\ \A r \in readings : MinuteEnd(r.at) = e.readAt => r.at <= e.last

\* With readings in order, the gas rows chain up: each one's consumption is the
\* difference with the row before it, so over any period they add up to the
\* difference of the gas positions, whatever was grouped, repeated after a
\* crash or shifted an hour for DSMR 4.
GasAddsUp ==
    \A q \in gas :
        /\ (\A p \in gas : p.readAt >= q.readAt) => q.diff = 0
        /\ \A p \in gas :
              (p.readAt < q.readAt /\ \A o \in gas : ~(p.readAt < o.readAt /\ o.readAt < q.readAt))
                  => q.diff = q.delivered - p.delivered

\* Every reading whose minute has passed, on the system's clock and on the
\* meter's, gets processed, however many others are inserted, even if some of
\* those are stamped in the future and have to wait.
Compactable(k) ==
    \E r \in readings : r.pk = k /\ MinutePassed(r) /\ NewerReadingExists(r)

EventuallyProcessed ==
    \A k \in 1..MaxReadings :
        Compactable(k) ~> \E r \in readings : r.pk = k /\ r.processed
===============================================================================
