------------------------------ MODULE MeterTime ------------------------------
(***************************************************************************)
(* Discrete time as the readings and the consumption rows see it.  A tick  *)
(* is the resolution of a telegram's timestamp; minutes, hours and days    *)
(* are whole numbers of ticks.  Every register of the meter (electricity,  *)
(* gas) only ever grows with the meter's own time, so a register's         *)
(* position is identified with the tick at which it was read: position p   *)
(* is "what the meter showed at tick p" (up to a constant: the meter does  *)
(* not show zero at tick zero), and a difference of positions is the       *)
(* consumption between two ticks.                                          *)
(***************************************************************************)
EXTENDS Integers

CONSTANTS
    TicksPerMinute,
    MinutesPerHour,
    HoursPerDay

ASSUME MeterTimeAssumption ==
    /\ TicksPerMinute \in Nat \ {0}
    /\ MinutesPerHour \in Nat \ {0}
    /\ HoursPerDay \in Nat \ {0}

TicksPerHour == TicksPerMinute * MinutesPerHour

TicksPerDay == TicksPerHour * HoursPerDay

(***************************************************************************)
(* A timestamp with its seconds dropped (reading_start in compact()) and   *)
(* the moment the grouped row of that minute is stored at (minute_end).    *)
(***************************************************************************)
MinuteStart(t) == t - (t % TicksPerMinute)

MinuteEnd(t) == MinuteStart(t) + TicksPerMinute

\* replace(minute=0, second=0), TruncHour: the hour a timestamp falls in.
HourStart(t) == t - (t % TicksPerHour)

\* timezone.localtime(..).date(): days are counted from the epoch.
DayOf(t) == t \div TicksPerDay

DayStart(d) == d * TicksPerDay

===============================================================================
