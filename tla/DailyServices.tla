---------------------------- MODULE DailyServices ----------------------------
(***************************************************************************)
(* The services that do something once a day, on the clock of the backend. *)
(* They share its loop, and no state: a behaviour is of one of them. What  *)
(* the other has is Nothing.                                               *)
(***************************************************************************)
EXTENDS LocalTime, FiniteSets

CONSTANTS
    NotificationHour, Cooldown,     \* notifications
    ExportHours,                    \* MinderGas
    RetryDelay, LastTick, MaxFaults, Nothing

ASSUME DailyServicesAssumption ==
    \* five minutes, or an hour
    /\ RetryDelay \in 1..(TicksPerDay - 1)
    /\ Cooldown \in Nat
    /\ NotificationHour \in Nat /\ NotificationHour + Offset < TicksPerDay
    \* 03:15 is past the midnight of UTC
    /\ \A h \in ExportHours : h \in Offset..(TicksPerDay - 1)
    /\ LastTick \in Nat
    /\ MaxFaults \in Nat
    /\ Nothing \notin Int

VARIABLES
    running,                                        \* the service
    now, cycled, pc, target, faults, done, again, trouble, passed,
    service, next, nextCheck, closed, inTime,       \* notifications
    exporting, token, planned, gas                  \* MinderGas

notificationVars == <<service, next, nextCheck, closed, inTime>>
minderGasVars == <<exporting, token, planned, gas>>
vars == <<running, now, cycled, pc, target, faults, done, again, trouble, passed,
          notificationVars, minderGasVars>>

Notify == INSTANCE Notifications
Gas == INSTANCE MinderGas

Init ==
    \/ /\ running = "notifications"
       /\ Notify!Init
       /\ exporting = Nothing /\ token = Nothing /\ planned = Nothing /\ gas = Nothing
    \/ /\ running = "mindergas"
       /\ Gas!Init
       /\ service = Nothing /\ next = Nothing /\ nextCheck = Nothing
       /\ closed = Nothing /\ inTime = Nothing

Next ==
    \/ running = "notifications" /\ Notify!Next /\ UNCHANGED <<running, minderGasVars>>
    \/ running = "mindergas" /\ Gas!Next /\ UNCHANGED <<running, notificationVars>>

Spec == Init /\ [][Next]_vars

-----------------------------------------------------------------------------
(***************************************************************************)
(* A day is notified once, unless its answer was lost, a status alert      *)
(* failed after it, or it was sent too early on the next day; a reading is *)
(* exported once, unless its answer was lost (Notifications, NotifiedOnce; *)
(* MinderGas, ExportedOnce).                                               *)
(***************************************************************************)
DoneOnce ==
    /\ running = "notifications" => Notify!NotifiedOnce
    /\ running = "mindergas" => Gas!ExportedOnce

(***************************************************************************)
(* A day with statistics is notified the next day, whatever fails before   *)
(* the end of that day, unless the service was switched off while the      *)
(* message was being made (Notifications, DayNotLost).                     *)
(***************************************************************************)
DayNotLost == running = "notifications" => Notify!DayNotLost

(***************************************************************************)
(* No day is without an export, unless something was in the way at its     *)
(* very end or it began during an export that was accepted (MinderGas,     *)
(* DayIsExported).                                                         *)
(***************************************************************************)
DayIsExported == running = "mindergas" => Gas!DayIsExported
===============================================================================
