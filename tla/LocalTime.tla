------------------------------ MODULE LocalTime ------------------------------
(***************************************************************************)
(* Moments are ticks of UTC, which is what timezone.now() returns. Local   *)
(* clocks are Offset ahead: during the first Offset ticks of a local day   *)
(* it is still the day before in UTC.                                      *)
(***************************************************************************)
EXTENDS Integers

CONSTANTS
    TicksPerDay,
    Offset          \* of DJANGO_TIME_ZONE

ASSUME LocalTimeAssumption ==
    /\ TicksPerDay \in Nat \ {0}
    /\ Offset \in 0..(TicksPerDay - 1)

\* timezone.now().date()
UtcDay(t) == t \div TicksPerDay

\* timezone.localtime(t).date()
LocalDay(t) == (t + Offset) \div TicksPerDay

\* The moment at which local clocks show hour h of day d.
LocalMoment(d, h) == d * TicksPerDay + h - Offset
===============================================================================
