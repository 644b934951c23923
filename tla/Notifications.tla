---------------------------- MODULE Notifications ----------------------------
(***************************************************************************)
(* The daily notification and the status alert (dsmr_notification). Both   *)
(* are attempted in each cycle of the backend, the alert after the daily   *)
(* notification, unless that raised; both send through the one service     *)
(* that is configured, which may refuse, fail or have its answer lost.     *)
(***************************************************************************)
EXTENDS LocalTime, FiniteSets

CONSTANTS
    NotificationHour,   \* DSMRREADER_DAILY_NOTIFICATION_TIME_HOURS
    RetryDelay,         \* the five minutes after a server error
    Cooldown,           \* DSMRREADER_STATUS_NOTIFICATION_COOLDOWN_HOURS
    LastTick,           \* bound on the clock
    MaxFaults,          \* bound on the calls that fail and on the crashes
    Nothing             \* no moment is planned, no day is being notified

VARIABLES
    now,        \* timezone.now()
    cycled,     \* a cycle started in this tick
    service,    \* NotificationSetting.notification_service is set
    next,       \* NotificationSetting.next_notification
    nextCheck,  \* StatusNotificationSetting.next_check
    closed,     \* the local days before this one have their DayStatistics
    pc,         \* where the backend is in _on_backend_called_signal()
    target,     \* the day of the message that is being sent
    faults,
    done,       \* history: how often each day's message was delivered
    again,      \* history: how often something made the day be sent again
    trouble,    \* history: the days for which something failed at the last moment
    passed,     \* history: the days whose message was not sent as the service was off
    inTime      \* history: the days that could be notified in time

settingVars == <<service, next, nextCheck>>
historyVars == <<done, again, trouble, passed, inTime>>
vars == <<now, cycled, settingVars, closed, pc, target, faults, historyVars>>

Days == 0..LocalDay(LastTick)

Yesterday == LocalDay(now) - 1

Moments == Nat \union {Nothing}

TypeOK ==
    /\ now \in Nat
    /\ cycled \in BOOLEAN
    /\ service \in BOOLEAN
    /\ next \in Moments
    /\ nextCheck \in Moments
    /\ closed \in Nat
    /\ pc \in {"idle", "test", "daily", "sent", "skipped", "tested", "status", "alert", "alerted"}
    /\ IF pc \in {"daily", "sent", "skipped"} THEN target \in Days ELSE target = Nothing
    /\ faults \in Nat
    /\ done \in [Days -> Nat]
    /\ again \in [Days -> Nat]
    /\ trouble \subseteq Days
    /\ passed \subseteq Days
    /\ inTime \subseteq Days

Init ==
    /\ now = 0
    /\ cycled = FALSE
    /\ service \in BOOLEAN
    /\ next = Nothing
    /\ nextCheck = Nothing
    /\ closed = 0
    /\ pc = "idle"
    /\ target = Nothing
    /\ faults = 0
    /\ done = [d \in Days |-> 0]
    /\ again = [d \in Days |-> 0]
    /\ trouble = {}
    /\ passed = {}
    /\ inTime = {}

-----------------------------------------------------------------------------
With(days, d) == days \union ({d} \intersect Days)

\* The day that is to be notified now.
Current == IF target = Nothing THEN Yesterday ELSE target

\* What fails now is in the way of that day if too little of its time is left
\* to try again.
Hindered == IF LocalDay(now + RetryDelay) > Current + 1 THEN With(trouble, Current) ELSE trouble

\* The last tick of a local day starts: is all there to notify the day before?
LastTickOfDay(t) == LocalDay(t + 1) > LocalDay(t)

\* The backend loops every second: at least one cycle starts in each tick, and
\* a call that spans two of them has ended before the third.
Tick ==
    /\ now < LastTick
    /\ cycled
    /\ now' = now + 1
    /\ cycled' = FALSE
    /\ inTime' = IF LastTickOfDay(now') /\ service /\ next # Nothing /\ closed > LocalDay(now') - 1
                 THEN With(inTime, LocalDay(now') - 1)
                 ELSE inTime
    /\ UNCHANGED <<settingVars, closed, pc, target, faults, done, again, trouble, passed>>

\* The statistics of a day are created once it is over.
CloseDay ==
    /\ closed < LocalDay(now)
    /\ closed' = closed + 1
    /\ UNCHANGED <<now, cycled, settingVars, pc, target, faults, historyVars>>

\* The administrator saves the configuration: next_notification is read-only.
SetService(on) ==
    /\ service # on
    /\ service' = on
    /\ trouble' = Hindered
    /\ UNCHANGED <<now, cycled, next, nextCheck, closed, pc, target, faults, done, again, passed, inTime>>

-----------------------------------------------------------------------------
(***************************************************************************)
(* notify()                                                                *)
(***************************************************************************)

\* notify_pre_check()
IsTime == service /\ next # Nothing /\ now >= next

Cycle == pc = "idle" /\ cycled' = TRUE

NotifyTest ==
    /\ Cycle
    /\ service
    /\ next = Nothing
    /\ pc' = "test"
    /\ UNCHANGED <<now, settingVars, closed, target, faults, historyVars>>

\* Without statistics: "Try again in a next run".
SendDay ==
    IF Yesterday \in 0..(closed - 1)
    THEN pc' = "daily" /\ target' = Yesterday
    ELSE pc' = "status" /\ UNCHANGED target

NotifyDay ==
    /\ Cycle
    /\ IsTime
    /\ SendDay
    /\ UNCHANGED <<now, settingVars, closed, faults, historyVars>>

NotifyNothing ==
    /\ Cycle
    /\ ~service \/ next # Nothing
    /\ ~IsTime
    /\ pc' = "status"
    /\ UNCHANGED <<now, settingVars, closed, target, faults, historyVars>>

\* Fault: the hour of today.
NextNotification_Today(t) == LocalMoment(LocalDay(t), NotificationHour)

\* set_next_notification(): the hour of tomorrow in UTC falls on some day on
\* local clocks, of which the hour is then taken.
NextNotification(t) ==
    LET tomorrow == (UtcDay(t) + 1) * TicksPerDay + NotificationHour
    IN  LocalMoment(LocalDay(tomorrow), NotificationHour)

\* The service was switched off before send_notification() read the settings again:
\* it returns, and the next day is planned as if the message had been sent.
SkipDay ==
    /\ pc = "daily"
    /\ ~service
    /\ pc' = "skipped"
    /\ passed' = With(passed, target)
    /\ UNCHANGED <<now, cycled, settingVars, closed, target, faults, done, again, trouble, inTime>>

\* The service got the message.
DeliverDay ==
    /\ pc = "daily"
    /\ pc' = "sent"
    /\ done' = [done EXCEPT ![target] = @ + 1]
    /\ UNCHANGED <<now, cycled, settingVars, closed, target, faults, again, trouble, passed, inTime>>

DeliverOther ==
    /\ \/ pc = "test" /\ pc' = "tested"
       \/ pc = "alert" /\ pc' = "alerted"
    /\ UNCHANGED <<now, cycled, settingVars, closed, target, faults, historyVars>>

\* During the first hours of a local day, tomorrow in UTC is today.
AnsweredDay ==
    /\ pc \in {"sent", "skipped"}
    /\ next' = NextNotification(now)
    /\ pc' = "status"
    /\ target' = Nothing
    /\ again' = IF pc = "sent" /\ UtcDay(now) < target + 1 THEN [again EXCEPT ![target] = @ + 1] ELSE again
    /\ UNCHANGED <<now, cycled, service, nextCheck, closed, faults, done, trouble, passed, inTime>>

\* The daily message follows at once.
AnsweredTest ==
    /\ pc = "tested"
    /\ next' = now
    /\ SendDay
    /\ UNCHANGED <<now, cycled, service, nextCheck, closed, faults, historyVars>>

-----------------------------------------------------------------------------
(***************************************************************************)
(* check_status()                                                          *)
(***************************************************************************)

CheckPassed == service /\ (nextCheck # Nothing => now >= nextCheck)

\* No check, or one that finds no readings at all or recent ones.
CheckNothing ==
    /\ pc = "status"
    /\ nextCheck' = IF CheckPassed THEN now + RetryDelay ELSE nextCheck
    /\ pc' = "idle"
    /\ UNCHANGED <<now, cycled, service, next, closed, target, faults, historyVars>>

\* "Alert!": no recent reading.
CheckLags ==
    /\ pc = "status"
    /\ CheckPassed
    /\ pc' = "alert"
    /\ UNCHANGED <<now, cycled, settingVars, closed, target, faults, historyVars>>

AnsweredAlert ==
    /\ pc = "alerted"
    /\ nextCheck' = now + Cooldown
    /\ pc' = "idle"
    /\ UNCHANGED <<now, cycled, service, next, closed, target, faults, historyVars>>

-----------------------------------------------------------------------------
(***************************************************************************)
(* What goes wrong: each ends the cycle's signal.                          *)
(***************************************************************************)

Sending == pc \in {"test", "daily", "alert"}

Raise ==
    /\ faults < MaxFaults
    /\ faults' = faults + 1
    /\ pc' = "idle"
    /\ target' = Nothing
    /\ trouble' = Hindered
    /\ UNCHANGED <<now, cycled, nextCheck, closed, done, passed, inTime>>

\* Yesterday was notified already, and will be again.
SendsYesterdayAgain ==
    again' = IF pc = "alert" /\ Yesterday \in Days
             THEN [again EXCEPT ![Yesterday] = @ + 1] ELSE again

\* 4xx: "wiping settings", also next_notification.
ClientError ==
    /\ Sending
    /\ Raise
    /\ service' = FALSE
    /\ next' = Nothing
    /\ SendsYesterdayAgain

\* Fault: the next one as after a success.
ServerError_Tomorrow ==
    /\ Sending
    /\ Raise
    /\ next' = NextNotification(now)
    /\ SendsYesterdayAgain
    /\ UNCHANGED service

\* 5xx: "Server error, delay a bit", whichever message it was.
ServerError ==
    /\ Sending
    /\ Raise
    /\ next' = now + RetryDelay
    /\ SendsYesterdayAgain
    /\ UNCHANGED service

\* No connection, another status, or the process is killed: nothing is saved,
\* whether the message was delivered or not.
Break ==
    /\ pc # "idle"
    /\ Raise
    /\ again' = IF pc = "sent" THEN [again EXCEPT ![target] = @ + 1] ELSE again
    /\ UNCHANGED <<service, next>>

Next ==
    \/ Tick
    \/ CloseDay
    \/ \E on \in BOOLEAN : SetService(on)
    \/ NotifyTest \/ NotifyDay \/ NotifyNothing
    \/ SkipDay \/ DeliverDay \/ DeliverOther
    \/ AnsweredDay \/ AnsweredTest \/ AnsweredAlert
    \/ CheckNothing \/ CheckLags
    \/ ClientError \/ ServerError \/ Break

Spec == Init /\ [][Next]_vars

-----------------------------------------------------------------------------
(***************************************************************************)
(* A day is notified once, and once more for each time that it had to be:  *)
(* the answer was lost or the process killed; the day was sent in the      *)
(* first hours of the next, in which the next moment is planned on the     *)
(* same day again; a status alert failed, which replans the daily message. *)
(***************************************************************************)
NotifiedOnce == \A d \in Days : done[d] =< 1 + again[d]

(***************************************************************************)
(* A day is not lost: if its statistics were there before the last moments *)
(* of the next day and nothing failed in those, it was notified by then,   *)
(* whatever failed earlier, if local clocks are ahead of UTC: were they    *)
(* not, an answer after midnight would plan the next one for tomorrow. The *)
(* exception, at any hour, is a service that was switched off while the    *)
(* day's message was being made (passed): nothing is sent and the next day *)
(* is planned, although it may be switched on again the same day.          *)
(***************************************************************************)
DayNotLost ==
    \A d \in inTime :
        LocalDay(now) > d + 1 => done[d] > 0 \/ d \in trouble \/ d \in passed \/ d = target
===============================================================================
