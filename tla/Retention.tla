------------------------------ MODULE Retention ------------------------------
(***************************************************************************)
(* The retention policy (dsmr_datalogger.services.retention.run): of each  *)
(* hour that is old enough, only the first and the last row are kept, of   *)
(* the processed readings and of both consumption tables. The tables are   *)
(* cleaned one after the other and every hour is a commit of its own, so a *)
(* run may be cut short anywhere (Abort) while the datalogger inserts.     *)
(***************************************************************************)
EXTENDS MeterTime, FiniteSets

CONSTANTS
    RetentionTicks,     \* RetentionSettings.data_retention_in_hours, in ticks
    MaxCleanupHours     \* DSMRREADER_RETENTION_MAX_CLEANUP_HOURS_PER_RUN

VARIABLES
    clock,
    readings,
    electricity,
    gas,
    cleaning,   \* the table being cleaned, "none" outside a run
    hours       \* hours_to_cleanup: what is left of the list for that table

ItemCountPerHour == 2

Tables == {"readings", "electricity", "gas"}

TypeOK ==
    /\ cleaning \in Tables \union {"none"}
    /\ hours \subseteq Int
    /\ cleaning = "none" => hours = {}

Init == cleaning = "none" /\ hours = {}

\* Fault: readings are cleaned before they are compacted.
Items_Unprocessed(table) ==
    CASE table = "readings" -> readings
      [] table = "electricity" -> electricity
      [] table = "gas" -> gas

\* MODELS_TO_CLEANUP: the base querysets, in the order they are visited.
Items(table) ==
    CASE table = "readings" -> {r \in readings : r.processed}
      [] table = "electricity" -> electricity
      [] table = "gas" -> gas

NextTable(table) ==
    CASE table = "readings" -> "electricity"
      [] table = "electricity" -> "gas"
      [] table = "gas" -> "none"

Stamp(table, x) == IF table = "readings" THEN x.at ELSE x.readAt

InHour(table, h) ==
    {x \in Items(table) : Stamp(table, x) >= h /\ Stamp(table, x) < h + TicksPerHour}

IsOld(t) == t < clock - RetentionTicks

\* Fault: an hour with just the two rows to keep is cleaned again and again.
CrowdedHours_AtLeastTwo(table) ==
    {h \in {HourStart(Stamp(table, x)) : x \in Items(table)} :
        Cardinality({x \in InHour(table, h) : IsOld(Stamp(table, x))}) >= ItemCountPerHour}

\* The hours in which more than two rows are beyond the retention date.
CrowdedHours(table) ==
    {h \in {HourStart(Stamp(table, x)) : x \in Items(table)} :
        Cardinality({x \in InHour(table, h) : IsOld(Stamp(table, x))}) > ItemCountPerHour}

\* The oldest of them, as many as one run takes on.
HoursToCleanup(table) ==
    {h \in CrowdedHours(table) :
        Cardinality({g \in CrowdedHours(table) : g < h}) < MaxCleanupHours}

\* The keepers of an hour: its first and its last row, any of them among equal
\* timestamps.
IsFirst(rows, x) == x \in rows /\ \A y \in rows : Stamp(cleaning, x) <= Stamp(cleaning, y)

\* Fault: the order of the second query is not reversed.
IsLast_First(rows, x) == x \in rows /\ \A y \in rows : Stamp(cleaning, x) <= Stamp(cleaning, y)

IsLast(rows, x) == x \in rows /\ \A y \in rows : Stamp(cleaning, x) >= Stamp(cleaning, y)

Delete(table, rows) ==
    /\ readings' = IF table = "readings" THEN readings \ rows ELSE readings
    /\ electricity' = IF table = "electricity" THEN electricity \ rows ELSE electricity
    /\ gas' = IF table = "gas" THEN gas \ rows ELSE gas

Start ==
    /\ cleaning = "none"
    /\ cleaning' = "readings"
    /\ hours' = HoursToCleanup("readings")
    /\ UNCHANGED <<readings, electricity, gas>>

CleanHour ==
    /\ cleaning # "none"
    /\ \E h \in hours :
           /\ \A g \in hours : h <= g
           /\ LET rows == InHour(cleaning, h)
              IN  \E first, last \in rows :
                      /\ IsFirst(rows, first)
                      /\ IsLast(rows, last)
                      /\ Delete(cleaning, rows \ {first, last})
           /\ hours' = hours \ {h}
    /\ UNCHANGED cleaning

NextModel ==
    /\ cleaning # "none"
    /\ hours = {}
    /\ cleaning' = NextTable(cleaning)
    /\ hours' = IF cleaning' = "none" THEN {} ELSE HoursToCleanup(cleaning')
    /\ UNCHANGED <<readings, electricity, gas>>

Run == Start \/ CleanHour \/ NextModel

\* The process is killed, or an exception leaves run().
Abort ==
    /\ cleaning # "none"
    /\ cleaning' = "none"
    /\ hours' = {}
    /\ UNCHANGED <<readings, electricity, gas>>
===============================================================================
