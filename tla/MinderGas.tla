------------------------------ MODULE MinderGas ------------------------------
(***************************************************************************)
(* The daily export of a gas reading (dsmr_mindergas): the last one before *)
(* the local midnight of the day that it is in UTC. What fails is tried    *)
(* again an hour later, what succeeds the next day at a random moment.     *)
(***************************************************************************)
EXTENDS LocalTime, FiniteSets

CONSTANTS
    ExportHours,    \* when to export next, local time: 03:15 to 05:59
    RetryDelay,     \* the hour after a failure
    LastTick,       \* bound on the clock
    MaxFaults,      \* bound on the calls that fail and on the crashes
    Nothing         \* no day is being exported

VARIABLES
    now,        \* timezone.now()
    cycled,     \* a cycle started in this tick
    exporting,  \* MinderGasSettings.export, and so the process is active
    token,      \* MinderGasSettings.auth_token is set
    planned,    \* ScheduledProcess.planned
    gas,        \* the days before whose midnight there is a gas row, three hours at most
    pc,         \* where the backend is in run()
    target,     \* the day of which the midnight was looked at
    faults,
    done,       \* history: how often the reading of each midnight was accepted
    again,      \* history: how often that is to be repeated
    trouble,    \* history: the days in which something was in the way at the end
    passed      \* history: the days that began during an export, unless that failed

settingVars == <<exporting, token>>
historyVars == <<done, again, trouble, passed>>
vars == <<now, cycled, settingVars, planned, gas, pc, target, faults, historyVars>>

Days == 0..UtcDay(LastTick)

Today == UtcDay(now)

TypeOK ==
    /\ now \in Nat
    /\ cycled \in BOOLEAN
    /\ exporting \in BOOLEAN
    /\ token \in BOOLEAN
    /\ planned \in Int
    /\ gas \subseteq Days
    /\ pc \in {"idle", "upload", "accepted"}
    /\ IF pc = "idle" THEN target = Nothing ELSE target \in Days
    /\ faults \in Nat
    /\ done \in [Days -> Nat]
    /\ again \in [Days -> Nat]
    /\ trouble \subseteq Days
    /\ passed \subseteq Days

Init ==
    /\ now = 0
    /\ cycled = FALSE
    /\ exporting \in BOOLEAN
    /\ token \in BOOLEAN
    /\ planned = 0
    /\ gas \in SUBSET {0}
    /\ pc = "idle"
    /\ target = Nothing
    /\ faults = 0
    /\ done = [d \in Days |-> 0]
    /\ again = [d \in Days |-> 0]
    /\ trouble = {}
    /\ passed = {}

-----------------------------------------------------------------------------
\* What is in the way now is in the way of day d if too little of it is left to
\* try again.
Hindered(d) == IF UtcDay(now + RetryDelay) > d THEN trouble \union {d} ELSE trouble

\* The backend loops every second: at least one cycle starts in each tick, and
\* a call that spans two of them has ended before the third.
Tick ==
    /\ now < LastTick
    /\ cycled
    /\ now' = now + 1
    /\ cycled' = FALSE
    /\ passed' = IF pc # "idle" THEN passed \union ({UtcDay(now')} \ {Today}) ELSE passed
    /\ UNCHANGED <<settingVars, planned, gas, pc, target, faults, done, again, trouble>>

\* The compactor stores a gas row of the hours before a midnight: also later.
StoreGas(d) ==
    /\ d \notin gas
    /\ now >= LocalMoment(d, 0) - 1
    /\ gas' = gas \union {d}
    /\ UNCHANGED <<now, cycled, settingVars, planned, pc, target, faults, historyVars>>

\* The administrator saves the settings; the hook of the admin switches the
\* process along.
SaveSettings(export, set) ==
    /\ <<export, set>> # settingVars
    /\ exporting' = export
    /\ token' = set
    /\ trouble' = Hindered(Today)
    /\ UNCHANGED <<now, cycled, planned, gas, pc, target, faults, done, again, passed>>

-----------------------------------------------------------------------------
Cycle == pc = "idle" /\ cycled' = TRUE

Ready == exporting /\ planned =< now

\* The process is not among the ready ones.
NotReady ==
    /\ Cycle
    /\ ~Ready
    /\ trouble' = IF exporting THEN trouble ELSE Hindered(Today)
    /\ UNCHANGED <<now, settingVars, planned, gas, pc, target, faults, done, again, passed>>

\* No token: the export is switched off.
Disable ==
    /\ Cycle
    /\ Ready
    /\ ~token
    /\ exporting' = FALSE
    /\ trouble' = Hindered(Today)
    /\ UNCHANGED <<now, token, planned, gas, pc, target, faults, done, again, passed>>

\* No gas at all, or "No recent gas reading found".
NoGas ==
    /\ Cycle
    /\ Ready
    /\ token
    /\ Today \notin gas
    /\ planned' = now + RetryDelay
    /\ trouble' = Hindered(Today)
    /\ UNCHANGED <<now, settingVars, gas, pc, target, faults, done, again, passed>>

\* export(), up to the call.
Export ==
    /\ Cycle
    /\ Ready
    /\ token
    /\ Today \in gas
    /\ pc' = "upload"
    /\ target' = Today
    /\ UNCHANGED <<now, settingVars, planned, gas, faults, historyVars>>

\* The service stores the reading.
Accept ==
    /\ pc = "upload"
    /\ pc' = "accepted"
    /\ done' = [done EXCEPT ![target] = @ + 1]
    /\ UNCHANGED <<now, cycled, settingVars, planned, gas, target, faults, again, trouble, passed>>

\* Fault: the midnight that was exported, instead of the next.
NextExport_Today(t, h) == LocalMoment(UtcDay(t), h)

\* "Reschedule between 3 AM and 6 AM next day."
NextExport(t, h) == LocalMoment(UtcDay(t) + 1, h)

\* Status 201. The next one is that of the day after this one, which may have
\* begun since the call.
Answered ==
    /\ pc = "accepted"
    /\ \E h \in ExportHours : planned' = NextExport(now, h)
    /\ pc' = "idle"
    /\ target' = Nothing
    /\ UNCHANGED <<now, cycled, settingVars, gas, faults, historyVars>>

GiveUp ==
    /\ pc # "idle"
    /\ faults < MaxFaults
    /\ faults' = faults + 1
    /\ pc' = "idle"
    /\ target' = Nothing
    /\ trouble' = Hindered(target)
    /\ passed' = passed \ {Today}
    /\ again' = IF pc = "accepted" THEN [again EXCEPT ![target] = @ + 1] ELSE again
    /\ UNCHANGED <<now, cycled, settingVars, gas, done>>

\* Fault: what failed is left for the next day.
Fail_Tomorrow ==
    /\ GiveUp
    /\ \E h \in ExportHours : planned' = NextExport(now, h)

\* Another status, or no answer.
Fail ==
    /\ GiveUp
    /\ planned' = now + RetryDelay

\* The process is killed.
Crash ==
    /\ GiveUp
    /\ UNCHANGED planned

Next ==
    \/ Tick
    \/ \E d \in Days : StoreGas(d)
    \/ \E export, set \in BOOLEAN : SaveSettings(export, set)
    \/ NotReady \/ Disable \/ NoGas
    \/ Export \/ Accept \/ Answered
    \/ Fail \/ Crash

Spec == Init /\ [][Next]_vars

-----------------------------------------------------------------------------
(***************************************************************************)
(* The reading of a midnight is exported once, and once more for each time *)
(* that its answer was lost or the process killed after it was accepted.   *)
(***************************************************************************)
ExportedOnce == \A d \in Days : done[d] =< 1 + again[d]

(***************************************************************************)
(* No day is passed over, but for two exceptions. At its very end, when    *)
(* too little of it was left to try again, the export was off, there was   *)
(* no gas, the settings were saved or a call failed (trouble). Or it began *)
(* during the export of the day before, which was accepted: the next one   *)
(* is then planned for the day after it, as run() reads the clock again    *)
(* once the answer is there (passed). Whatever else happened before, the   *)
(* random moments and the retries lead to an export within the day.        *)
(***************************************************************************)
DayIsExported ==
    \A d \in Days : d < Today => done[d] > 0 \/ d \in trouble \/ d \in passed \/ d = target
===============================================================================
