-------------------------- MODULE DailyServices_proof --------------------------
(***************************************************************************)
(* A day is notified once and exported once, but for what had to be done   *)
(* again, and none is passed over but for what the properties except, for  *)
(* every length of a day, offset of the local clocks, number of failures.  *)
(***************************************************************************)
EXTENDS DailyServices, TLAPS

T == TicksPerDay

-----------------------------------------------------------------------------
(***************************************************************************)
(* The day of a moment.                                                    *)
(***************************************************************************)

\* A moment has one day.
LEMMA DayIsUnique ==
    ASSUME NEW x \in Int, NEW d \in Int, d * T <= x, x < (d + 1) * T
    PROVE  x \div T = d
<1> DEFINE q == x \div T
<1>1. T \in Nat \ {0}
  BY LocalTimeAssumption DEF T
<1>2. q \in Int /\ T * q <= x /\ x < T * (q + 1)
  BY <1>1
<1>3. T * d <= x /\ x < T * (d + 1)
  BY <1>1
<1> HIDE DEF q
<1>4. ~(q < d)
  BY <1>1, <1>2, <1>3
<1>5. ~(d < q)
  BY <1>1, <1>2, <1>3
<1> QED
  BY <1>2, <1>4, <1>5 DEF q

\* Days follow moments.
LEMMA DayMonotone ==
    ASSUME NEW x \in Int, NEW y \in Int, x <= y
    PROVE  x \div T \in Int /\ x \div T <= y \div T
<1> DEFINE p == x \div T
           q == y \div T
<1>1. T \in Nat \ {0}
  BY LocalTimeAssumption DEF T
<1>2. p \in Int /\ q \in Int /\ T * p <= x /\ y < T * (q + 1)
  BY <1>1
<1> HIDE DEF p, q
<1>3. T * p < T * (q + 1)
  BY <1>1, <1>2
<1>4. p <= q
  BY <1>1, <1>2, <1>3
<1> QED
  BY <1>2, <1>4 DEF p, q

\* Less than a day later it is the same day or the next, and the same one if the
\* day has just begun.
LEMMA DaySpan ==
    ASSUME NEW x \in Int, NEW n \in 0..(T - 1)
    PROVE  /\ (x + n) \div T <= x \div T + 1
           /\ (x - 1) \div T < x \div T => (x + n) \div T = x \div T
<1> DEFINE q == x \div T
           p == (x - 1) \div T
           r == (x + n) \div T
<1>1. T \in Nat \ {0} /\ n \in Int /\ 0 <= n /\ n < T
  BY LocalTimeAssumption DEF T
<1>2. q \in Int /\ T * q <= x /\ x < T * (q + 1)
  BY <1>1
<1>3. p \in Int /\ x - 1 < T * (p + 1)
  BY <1>1
<1>4. r \in Int /\ T * r <= x + n
  BY <1>1
<1> HIDE DEF p, q, r
<1>5. T * r < T * (q + 2)
  BY <1>1, <1>2, <1>4
<1>6. r <= q + 1
  BY <1>1, <1>2, <1>4, <1>5
<1>7. ASSUME p < q PROVE r = q
  <2>1. T * (p + 1) <= T * q
    BY <1>1, <1>2, <1>3, <1>7
  <2>2. x = T * q
    BY <1>1, <1>2, <1>3, <2>1
  <2>3. q * T <= x + n /\ x + n < (q + 1) * T
    BY <1>1, <1>2, <2>2
  <2> QED
    BY <1>1, <1>2, <2>3, DayIsUnique DEF r
<1> QED
  BY <1>6, <1>7 DEF p, q, r

-----------------------------------------------------------------------------
(***************************************************************************)
(* Notifications. A day that was notified is not notified again because    *)
(* the next notification is planned later than that day's successor, or    *)
(* else the message is accounted for.                                      *)
(***************************************************************************)

L(t) == Notify!LocalDay(t)

Fresh(d) == done[d] <= again[d]

NotifyTypes ==
    /\ now \in 0..LastTick
    /\ next \in Int \union {Nothing}
    /\ done \in [Notify!Days -> Nat]
    /\ again \in [Notify!Days -> Nat]

SendingDay == pc \in {"daily", "sent", "skipped"}

NotifyTarget ==
    /\ SendingDay => target \in Notify!Days /\ target < L(now)
    /\ pc \in {"test", "tested"} => next = Nothing

NotifyFresh ==
    /\ \A d \in Notify!Days : d >= L(now) => Fresh(d)
    /\ pc \in {"daily", "skipped"} => Fresh(target)
    /\ SendingDay => \A d \in Notify!Days : d > target => Fresh(d)

\* Nothing is planned for today: then yesterday may be sent.
Planned == next # Nothing /\ L(next) > L(now)

NotifyPlanned ==
    ~SendingDay /\ ~Planned => (L(now) - 1 \in Notify!Days => Fresh(L(now) - 1))

NotifyInv == NotifyTypes /\ NotifyTarget /\ Notify!NotifiedOnce /\ NotifyFresh /\ NotifyPlanned

\* A local day is a number.
LEMMA LocalDays ==
    ASSUME NEW s \in Int, NEW t \in Int, s <= t
    PROVE  L(s) \in Int /\ L(t) \in Int /\ L(s) <= L(t)
<1>1. s + Offset \in Int /\ t + Offset \in Int /\ s + Offset <= t + Offset
  BY LocalTimeAssumption
<1>2. (s + Offset) \div T <= (t + Offset) \div T /\ (s + Offset) \div T \in Int
  BY <1>1, DayMonotone
<1>3. (t + Offset) \div T \in Int
  BY <1>1, DayMonotone
<1> QED
  BY <1>2, <1>3 DEF L, Notify!LocalDay, T

\* The next notification is planned on the local day after the day in UTC.
LEMMA NextNotificationDay ==
    ASSUME NEW t \in Nat
    PROVE  /\ Notify!NextNotification(t) \in Int
           /\ Notify!UtcDay(t) \in Int
           /\ L(Notify!NextNotification(t)) = Notify!UtcDay(t) + 1
<1> DEFINE u == Notify!UtcDay(t)
           tomorrow == (u + 1) * T + NotificationHour
<1>1. /\ T \in Nat \ {0} /\ NotificationHour \in Nat /\ Offset \in 0..(T - 1)
      /\ NotificationHour + Offset < T
  BY LocalTimeAssumption, DailyServicesAssumption DEF T
<1>2. u \in Int
  BY <1>1 DEF Notify!UtcDay, T
<1> HIDE DEF u
<1>3. tomorrow + Offset \in Int /\ (u + 1) * T <= tomorrow + Offset /\ tomorrow + Offset < (u + 1 + 1) * T
  BY <1>1, <1>2
<1>4. (tomorrow + Offset) \div T = u + 1
  BY <1>2, <1>3, DayIsUnique
<1>5. Notify!NextNotification(t) = (u + 1) * T + NotificationHour - Offset
  BY <1>4 DEF Notify!NextNotification, Notify!LocalMoment, Notify!LocalDay, u, T
<1>6. (u + 1) * T + NotificationHour - Offset + Offset = tomorrow
  BY <1>1, <1>2
<1>7. (u + 1) * T <= tomorrow /\ tomorrow < (u + 1 + 1) * T /\ tomorrow \in Int
  BY <1>1, <1>2
<1>8. tomorrow \div T = u + 1
  BY <1>2, <1>7, DayIsUnique
<1>9. (u + 1) * T + NotificationHour - Offset \in Int
  BY <1>1, <1>2
<1> QED
  BY <1>2, <1>5, <1>6, <1>8, <1>9 DEF L, Notify!LocalDay, u, T

\* The days of the notifications are numbers.
LEMMA NotifyDaysAreNumbers == L(LastTick) \in Int /\ Notify!Days \subseteq Int
<1>1. Notify!LocalDay(LastTick) \in Int
  BY LocalDays, DailyServicesAssumption DEF L
<1> QED
  BY <1>1 DEF Notify!Days, L

\* The days of the history include every day that is over.
LEMMA NotifyDays ==
    ASSUME NotifyTypes, L(now) - 1 >= 0
    PROVE  L(now) - 1 \in Notify!Days
<1>1. now \in Int /\ LastTick \in Int /\ now <= LastTick
  BY DailyServicesAssumption DEF NotifyTypes
<1>2. L(now) \in Int /\ L(LastTick) \in Int /\ L(now) <= L(LastTick)
  BY <1>1, LocalDays
<1> QED
  BY <1>2 DEF Notify!Days, L

\* What is due is planned no later than today.
LEMMA DueIsNotPlanned ==
    ASSUME NotifyTypes, Notify!IsTime
    PROVE  ~Planned
<1>1. next # Nothing /\ next <= now /\ now \in Int /\ next \in Int
  BY DailyServicesAssumption DEF NotifyTypes, Notify!IsTime
<1>2. L(next) <= L(now) /\ L(next) \in Int /\ L(now) \in Int
  BY <1>1, LocalDays
<1> QED
  BY <1>2 DEF Planned

\* The step to the daily message, or past it.
LEMMA SendDayStep ==
    ASSUME NotifyInv, ~SendingDay, ~Planned, Notify!SendDay,
           UNCHANGED <<now, done, again>>, next' \in Int \union {Nothing}
    PROVE  NotifyInv'
<1> DEFINE y == L(now) - 1
<1>1. now \in Int /\ L(now) \in Int /\ L(now)' = L(now) /\ Notify!Yesterday = y
  BY LocalDays DEF NotifyInv, NotifyTypes, L, Notify!Yesterday, Notify!LocalDay
<1>2. y \in Notify!Days => Fresh(y)
  BY DEF NotifyInv, NotifyPlanned
<1>3. NotifyTypes' /\ Notify!NotifiedOnce'
  BY DEF NotifyInv, NotifyTypes, Notify!NotifiedOnce
<1>4. CASE pc' = "status"
  BY <1>1, <1>2, <1>3, <1>4
     DEF NotifyInv, NotifyTarget, NotifyFresh, NotifyPlanned, SendingDay, Fresh
<1>5. CASE pc' = "daily" /\ target' = y /\ y \in Notify!Days
  <2>1. \A d \in Notify!Days : d \in Int /\ (d > y => d >= L(now))
    BY <1>1, LocalDays, DailyServicesAssumption DEF Notify!Days, L
  <2> QED
    BY <1>1, <1>2, <1>3, <1>5, <2>1
       DEF NotifyInv, NotifyTarget, NotifyFresh, NotifyPlanned, SendingDay, Fresh
<1>6. Notify!Yesterday \in 0..(closed - 1) => y \in Notify!Days
  BY <1>1, NotifyDays DEF NotifyInv
<1> QED
  BY <1>1, <1>4, <1>5, <1>6 DEF Notify!SendDay

\* What ends the cycle: a message that was on its way is accounted for.
LEMMA RaiseStep ==
    ASSUME NotifyInv, pc' = "idle", now' = now, done' = done,
           next' \in Int \union {Nothing}, again' \in [Notify!Days -> Nat],
           \A d \in Notify!Days : again[d] <= again'[d],
           SendingDay => done'[target] <= again'[target],
           ~SendingDay => \/ next' = next
                          \/ L(now) - 1 \in Notify!Days => Fresh(L(now) - 1)'
    PROVE  NotifyInv'
<1>1. now \in Int /\ L(now) \in Int /\ L(now)' = L(now)
  BY LocalDays DEF NotifyInv, NotifyTypes, L, Notify!LocalDay
<1>2. \A d \in Notify!Days : done[d] \in Nat /\ again[d] \in Nat /\ again'[d] \in Nat /\ d \in Int
  BY NotifyDaysAreNumbers DEF NotifyInv, NotifyTypes
<1>3. NotifyTypes' /\ Notify!NotifiedOnce' /\ NotifyFresh'
  BY <1>1, <1>2
     DEF NotifyInv, NotifyTypes, Notify!NotifiedOnce, NotifyFresh, Fresh, SendingDay
<1>4. NotifyPlanned'
  <2> SUFFICES ASSUME ~Planned', L(now) - 1 \in Notify!Days PROVE Fresh(L(now) - 1)'
    BY <1>1 DEF NotifyPlanned, Fresh
  <2>1. CASE SendingDay
    <3>1. target \in Notify!Days /\ target <= L(now) - 1
      BY <1>1, <1>2, <2>1 DEF NotifyInv, NotifyTarget
    <3>2. target # L(now) - 1 => Fresh(L(now) - 1)
      BY <1>1, <1>2, <2>1, <3>1 DEF NotifyInv, NotifyFresh
    <3> QED
      BY <1>1, <1>2, <2>1, <3>1, <3>2 DEF Fresh
  <2>2. CASE ~SendingDay /\ next' = next
    <3>1. ~Planned
      BY <1>1, <2>2 DEF Planned, L
    <3>2. Fresh(L(now) - 1)
      BY <2>2, <3>1 DEF NotifyInv, NotifyPlanned
    <3> QED
      BY <1>1, <1>2, <3>2 DEF Fresh
  <2> QED
    BY <2>1, <2>2
<1> QED
  BY <1>3, <1>4 DEF NotifyInv, NotifyTarget, SendingDay

\* Every step of the notifications keeps the invariant.
LEMMA NotifyStep == NotifyInv /\ [Notify!Next]_(Notify!vars) => NotifyInv'
<1> SUFFICES ASSUME NotifyInv, [Notify!Next]_(Notify!vars) PROVE NotifyInv'
  OBVIOUS
<1>1. now \in Int /\ L(now) \in Int
  BY LocalDays DEF NotifyInv, NotifyTypes
<1>2. \A d \in Notify!Days : done[d] \in Nat /\ again[d] \in Nat /\ d \in Int
  BY NotifyDaysAreNumbers DEF NotifyInv, NotifyTypes
\* A step that leaves the history alone, and does not start a daily message.
<1>3. ASSUME UNCHANGED <<now, next, done, again>>, UNCHANGED target,
             pc' \in {"daily", "skipped"} => pc \in {"daily", "skipped"},
             SendingDay' <=> SendingDay,
             pc' \in {"test", "tested"} => pc \in {"test", "tested"} \/ next = Nothing
      PROVE  NotifyInv'
  BY <1>3 DEF NotifyInv, NotifyTypes, NotifyTarget, Notify!NotifiedOnce, NotifyFresh, NotifyPlanned,
              Planned, SendingDay, Fresh, L
<1>4. CASE Notify!Tick
  <2>1. now' = now + 1 /\ now' \in 0..LastTick /\ UNCHANGED <<next, pc, target, done, again>>
    BY <1>4, DailyServicesAssumption DEF Notify!Tick, NotifyInv, NotifyTypes, Notify!settingVars
  <2>2. L(now)' \in Int /\ L(now) <= L(now)'
    <3>1. L(now') \in Int /\ L(now) <= L(now')
      BY <1>1, <2>1, LocalDays
    <3> QED
      BY <3>1 DEF L
  <2>3. NotifyTypes' /\ Notify!NotifiedOnce'
    BY <2>1 DEF NotifyInv, NotifyTypes, Notify!NotifiedOnce
  <2>4. NotifyTarget' /\ NotifyFresh'
    BY <1>1, <1>2, <2>1, <2>2 DEF NotifyInv, NotifyTarget, NotifyFresh, SendingDay, Fresh
  <2>5. NotifyPlanned'
    <3> SUFFICES ASSUME ~SendingDay', ~Planned', (L(now) - 1)' \in Notify!Days
                 PROVE  Fresh(L(now)' - 1)
      BY <2>1 DEF NotifyPlanned, Fresh
    <3>1. CASE L(now)' = L(now)
      BY <2>1, <3>1 DEF NotifyInv, NotifyPlanned, Planned, SendingDay, L
    <3>2. CASE L(now)' > L(now)
      BY <1>1, <2>2, <3>2 DEF NotifyInv, NotifyFresh
    <3> QED
      BY <1>1, <2>2, <3>1, <3>2
  <2> QED
    BY <2>3, <2>4, <2>5 DEF NotifyInv
<1>5. CASE Notify!CloseDay \/ \E on \in BOOLEAN : Notify!SetService(on)
  BY <1>3, <1>5 DEF Notify!CloseDay, Notify!SetService, Notify!settingVars, Notify!historyVars, SendingDay
<1>6. CASE Notify!NotifyTest \/ Notify!NotifyNothing
  BY <1>3, <1>6
     DEF Notify!NotifyTest, Notify!NotifyNothing, Notify!Cycle, Notify!settingVars,
         Notify!historyVars, SendingDay
<1>7. CASE Notify!NotifyDay
  <2>1. ~Planned /\ ~SendingDay
    BY <1>7, DueIsNotPlanned DEF NotifyInv, Notify!NotifyDay, Notify!Cycle, SendingDay
  <2> QED
    BY <1>7, <2>1, SendDayStep
       DEF Notify!NotifyDay, Notify!settingVars, Notify!historyVars, NotifyInv, NotifyTypes
<1>8. CASE Notify!SkipDay \/ Notify!DeliverOther \/ Notify!CheckLags
  BY <1>3, <1>8
     DEF Notify!SkipDay, Notify!DeliverOther, Notify!CheckLags, Notify!settingVars,
         Notify!historyVars, SendingDay
<1>9. CASE Notify!CheckNothing \/ Notify!AnsweredAlert
  BY <1>3, <1>9
     DEF Notify!CheckNothing, Notify!AnsweredAlert, Notify!historyVars, SendingDay
<1>10. CASE Notify!DeliverDay
  <2>1. target \in Notify!Days /\ Fresh(target) /\ SendingDay /\ SendingDay'
    BY <1>10 DEF Notify!DeliverDay, NotifyInv, NotifyTarget, NotifyFresh, SendingDay
  <2>2. /\ UNCHANGED <<now, next, again, target>> /\ pc' = "sent"
        /\ done' = [done EXCEPT ![target] = done[target] + 1]
    BY <1>10 DEF Notify!DeliverDay, Notify!settingVars
  <2>3. /\ done' \in [Notify!Days -> Nat] /\ done'[target] = done[target] + 1
        /\ \A d \in Notify!Days : d # target => done'[d] = done[d]
    BY <1>2, <2>1, <2>2 DEF NotifyInv, NotifyTypes
  <2>4. NotifyTypes' /\ NotifyTarget'
    BY <2>1, <2>2, <2>3 DEF NotifyInv, NotifyTypes, NotifyTarget, L
  <2>5. Notify!NotifiedOnce'
    BY <1>2, <2>1, <2>2, <2>3 DEF NotifyInv, Notify!NotifiedOnce, Fresh
  <2>6. NotifyFresh'
    BY <1>1, <1>2, <2>1, <2>2, <2>3 DEF NotifyInv, NotifyFresh, NotifyTarget, Fresh, L
  <2> QED
    BY <2>1, <2>4, <2>5, <2>6 DEF NotifyInv, NotifyPlanned
<1>11. CASE Notify!AnsweredTest
  <2>1. ~Planned /\ ~SendingDay
    BY <1>11 DEF Notify!AnsweredTest, NotifyInv, NotifyTarget, Planned, SendingDay
  <2> QED
    BY <1>1, <1>11, <2>1, SendDayStep DEF Notify!AnsweredTest, Notify!historyVars
<1>12. CASE Notify!AnsweredDay
  <2> DEFINE u == Notify!UtcDay(now)
  <2>1. /\ UNCHANGED <<now, done>> /\ pc \in {"sent", "skipped"} /\ pc' = "status"
        /\ next' = Notify!NextNotification(now)
        /\ again' = IF pc = "sent" /\ u < target + 1
                    THEN [again EXCEPT ![target] = again[target] + 1] ELSE again
    BY <1>12 DEF Notify!AnsweredDay
  <2>2. target \in Notify!Days /\ target < L(now) /\ \A d \in Notify!Days : d > target => Fresh(d)
    BY <2>1 DEF NotifyInv, NotifyTarget, NotifyFresh, SendingDay
  <2>3. now \in Nat
    BY <1>1, DailyServicesAssumption DEF NotifyInv, NotifyTypes
  <2>4. next' \in Int /\ u \in Int /\ L(next') = u + 1
    BY <2>1, <2>3, NextNotificationDay
  <2>5. /\ again' \in [Notify!Days -> Nat]
        /\ \A d \in Notify!Days : again'[d] >= again[d]
        /\ pc = "sent" /\ u < target + 1 => again'[target] = again[target] + 1
        /\ pc = "skipped" => Fresh(target)
    BY <1>2, <2>1, <2>2 DEF NotifyInv, NotifyTypes, NotifyFresh
  <2> HIDE DEF u
  <2>6. L(now)' = L(now) /\ L(next)' = u + 1
    BY <2>1, <2>4 DEF L
  <2>7. NotifyTypes' /\ Notify!NotifiedOnce' /\ NotifyTarget' /\ NotifyFresh'
    BY <1>2, <2>1, <2>4, <2>5, <2>6
       DEF NotifyInv, NotifyTypes, NotifyTarget, Notify!NotifiedOnce, NotifyFresh, SendingDay, Fresh
  <2>8. NotifyPlanned'
    <3> SUFFICES ASSUME ~Planned', L(now) - 1 \in Notify!Days
                 PROVE  done[L(now) - 1] <= again'[L(now) - 1]
      BY <2>1, <2>6 DEF NotifyPlanned, Fresh
    <3>1. u + 1 <= L(now)
      BY <1>1, <2>4, <2>6, DailyServicesAssumption DEF Planned
    <3>2. CASE L(now) - 1 = target
      <4>1. u < target + 1
        BY <1>1, <1>2, <2>2, <2>4, <3>1, <3>2
      <4>2. done[target] <= 1 + again[target]
        BY <2>2 DEF NotifyInv, Notify!NotifiedOnce
      <4> QED
        BY <1>2, <2>1, <2>2, <2>5, <3>2, <4>1, <4>2 DEF Fresh
    <3>3. CASE L(now) - 1 > target
      BY <1>2, <2>2, <2>5, <3>3 DEF Fresh
    <3> QED
      BY <1>1, <1>2, <2>2, <3>2, <3>3
  <2> QED
    BY <2>7, <2>8 DEF NotifyInv
<1>13. ASSUME Notify!ClientError \/ Notify!ServerError PROVE NotifyInv'
  <2> DEFINE y == L(now) - 1
  <2>1. /\ pc' = "idle" /\ pc \in {"test", "daily", "alert"} /\ UNCHANGED <<now, done>>
        /\ next' = Nothing \/ next' = now + RetryDelay
        /\ again' = IF pc = "alert" /\ y \in Notify!Days
                    THEN [again EXCEPT ![y] = again[y] + 1] ELSE again
    BY <1>13
       DEF Notify!ClientError, Notify!ServerError, Notify!Raise, Notify!Sending,
           Notify!SendsYesterdayAgain, Notify!Yesterday, L
  <2>2. next' \in Int \union {Nothing}
    BY <1>1, <2>1, DailyServicesAssumption
  <2>3. /\ again' \in [Notify!Days -> Nat]
        /\ \A d \in Notify!Days : again[d] <= again'[d]
        /\ pc = "alert" /\ y \in Notify!Days => again'[y] = again[y] + 1
    BY <1>2, <2>1 DEF NotifyInv, NotifyTypes
  <2>4. SendingDay => done'[target] <= again'[target]
    BY <2>1 DEF NotifyInv, NotifyFresh, SendingDay, Fresh
  <2>5. ASSUME ~SendingDay, y \in Notify!Days PROVE Fresh(y)'
    <3>1. y' = y
      BY <2>1 DEF L
    <3>2. CASE pc = "test"
      BY <1>2, <2>1, <2>3, <2>5, <3>1, <3>2
         DEF NotifyInv, NotifyTarget, NotifyPlanned, Planned, Fresh
    <3>3. CASE pc = "alert"
      BY <1>2, <2>1, <2>3, <2>5, <3>1, <3>3 DEF NotifyInv, Notify!NotifiedOnce, Fresh
    <3> QED
      BY <2>1, <2>5, <3>2, <3>3 DEF SendingDay
  <2> QED
    BY <2>1, <2>2, <2>3, <2>4, <2>5, RaiseStep
<1>14. CASE Notify!Break
  <2>1. /\ pc' = "idle" /\ UNCHANGED <<now, done, next>>
        /\ again' = IF pc = "sent" THEN [again EXCEPT ![target] = again[target] + 1] ELSE again
    BY <1>14 DEF Notify!Break, Notify!Raise
  <2>2. pc = "sent" => target \in Notify!Days
    BY DEF NotifyInv, NotifyTarget, SendingDay
  <2>3. /\ again' \in [Notify!Days -> Nat]
        /\ \A d \in Notify!Days : again[d] <= again'[d]
        /\ pc = "sent" => again'[target] = again[target] + 1
    BY <1>2, <2>1, <2>2 DEF NotifyInv, NotifyTypes
  <2>4. SendingDay => done'[target] <= again'[target]
    BY <1>2, <2>1, <2>2, <2>3 DEF NotifyInv, NotifyFresh, Notify!NotifiedOnce, SendingDay, Fresh
  <2> QED
    BY <2>1, <2>3, <2>4, RaiseStep DEF NotifyInv, NotifyTypes
<1>15. CASE UNCHANGED Notify!vars
  BY <1>3, <1>15 DEF Notify!vars, Notify!settingVars, Notify!historyVars, SendingDay
<1> QED
  BY <1>4, <1>5, <1>6, <1>7, <1>8, <1>9, <1>10, <1>11, <1>12, <1>13, <1>14, <1>15 DEF Notify!Next

-----------------------------------------------------------------------------
(***************************************************************************)
(* MinderGas. An accepted reading is not sent again on its day, as the     *)
(* next export is planned on the day after it.                             *)
(***************************************************************************)

U(t) == Gas!UtcDay(t)

GasTypes ==
    /\ now \in 0..LastTick
    /\ planned \in Int
    /\ done \in [Gas!Days -> Nat]
    /\ again \in [Gas!Days -> Nat]
    /\ pc \in {"idle", "upload", "accepted"}
    /\ pc # "idle" => target \in Gas!Days /\ target <= U(now)

GasFresh ==
    /\ \A d \in Gas!Days : d > U(now) => Fresh(d)
    /\ pc = "upload" => Fresh(target)
    /\ pc # "idle" => \A d \in Gas!Days : d > target => Fresh(d)
    /\ pc = "idle" /\ U(planned) <= U(now) => Fresh(U(now))

GasInv == GasTypes /\ Gas!ExportedOnce /\ GasFresh

\* A day in UTC is a number.
LEMMA UtcDays ==
    ASSUME NEW s \in Int, NEW t \in Int, s <= t
    PROVE  U(s) \in Int /\ U(t) \in Int /\ U(s) <= U(t)
<1>1. s \div T <= t \div T /\ s \div T \in Int
  BY DayMonotone
<1>2. t \div T \in Int
  BY DayMonotone
<1> QED
  BY <1>1, <1>2 DEF U, Gas!UtcDay, T

\* The days of the export are numbers.
LEMMA GasDays ==
    ASSUME now \in 0..LastTick
    PROVE  U(now) \in Gas!Days /\ Gas!Days \subseteq Int
<1>1. now \in Int /\ LastTick \in Int /\ 0 <= now /\ now <= LastTick
  BY DailyServicesAssumption
<1>2. U(0) <= U(now) /\ U(now) <= U(LastTick) /\ U(now) \in Int /\ U(LastTick) \in Int
  BY <1>1, UtcDays
<1>3. U(0) = 0
  BY LocalTimeAssumption DEF U, Gas!UtcDay
<1> QED
  BY <1>2, <1>3 DEF Gas!Days, U

\* The next export is planned on the next day.
LEMMA NextExportDay ==
    ASSUME NEW t \in Int, NEW h \in ExportHours
    PROVE  Gas!NextExport(t, h) \in Int /\ U(Gas!NextExport(t, h)) = U(t) + 1
<1> DEFINE u == U(t)
           m == (u + 1) * T + h - Offset
<1>1. T \in Nat \ {0} /\ h \in Int /\ Offset \in Nat /\ Offset <= h /\ h < T
  BY LocalTimeAssumption, DailyServicesAssumption DEF T
<1>2. u \in Int
  BY UtcDays
<1>3. Gas!NextExport(t, h) = m
  BY DEF Gas!NextExport, Gas!LocalMoment, U, T
<1> HIDE DEF u
<1>4. m \in Int /\ (u + 1) * T <= m /\ m < (u + 1 + 1) * T
  BY <1>1, <1>2
<1>5. m \div T = u + 1
  BY <1>2, <1>4, DayIsUnique
<1> QED
  BY <1>3, <1>4, <1>5 DEF U, Gas!UtcDay, u, T

\* Every step of the export keeps the invariant.
LEMMA GasStep == GasInv /\ [Gas!Next]_(Gas!vars) => GasInv'
<1> SUFFICES ASSUME GasInv, [Gas!Next]_(Gas!vars) PROVE GasInv'
  OBVIOUS
<1>1. now \in Int /\ U(now) \in Int /\ U(now) \in Gas!Days
  BY UtcDays, GasDays DEF GasInv, GasTypes
<1>2. \A d \in Gas!Days : done[d] \in Nat /\ again[d] \in Nat /\ d \in Int
  BY GasDays DEF GasInv, GasTypes
\* A step that leaves all of this alone, or plans another moment.
<1>3. ASSUME UNCHANGED <<now, done, again, pc, target>>, planned' \in Int,
             planned' = planned \/ Fresh(U(now))
      PROVE  GasInv'
  BY <1>3 DEF GasInv, GasTypes, GasFresh, Gas!ExportedOnce, Fresh, U
<1>4. CASE Gas!Tick
  <2>1. now' = now + 1 /\ now' \in 0..LastTick /\ UNCHANGED <<planned, pc, target, done, again>>
    BY <1>4, DailyServicesAssumption DEF Gas!Tick, Gas!historyVars, GasInv, GasTypes
  <2>2. U(now)' \in Int /\ U(now) <= U(now)' /\ U(now)' \in Gas!Days
    <3>1. U(now') \in Int /\ U(now) <= U(now')
      BY <1>1, <2>1, UtcDays
    <3>2. U(now') \in Gas!Days
      <4>1. U(now') <= U(LastTick) /\ U(LastTick) \in Int
        BY <2>1, UtcDays, DailyServicesAssumption
      <4> QED
        BY <1>1, <3>1, <4>1 DEF Gas!Days, U
    <3> QED
      BY <3>1, <3>2 DEF U
  <2>3. GasTypes' /\ Gas!ExportedOnce'
    BY <1>1, <1>2, <2>1, <2>2 DEF GasInv, GasTypes, Gas!ExportedOnce
  <2>4. \A d \in Gas!Days : d > U(now)' => Fresh(d)
    BY <1>1, <1>2, <2>2 DEF GasInv, GasFresh
  <2>5. U(planned) <= U(now)' => Fresh(U(now)') \/ pc # "idle"
    <3>1. CASE U(now)' = U(now)
      BY <3>1 DEF GasInv, GasFresh, GasTypes
    <3>2. CASE U(now)' > U(now)
      BY <2>2, <3>2 DEF GasInv, GasFresh
    <3> QED
      BY <1>1, <2>2, <3>1, <3>2
  <2> QED
    BY <2>1, <2>3, <2>4, <2>5 DEF GasInv, GasFresh, Fresh, U
<1>5. CASE (\E d \in Gas!Days : Gas!StoreGas(d))
            \/ (\E export, set \in BOOLEAN : Gas!SaveSettings(export, set))
            \/ Gas!NotReady \/ Gas!Disable
  BY <1>3, <1>5
     DEF Gas!StoreGas, Gas!SaveSettings, Gas!NotReady, Gas!Disable, Gas!Cycle, Gas!settingVars,
         Gas!historyVars, GasInv, GasTypes
\* What is due may be exported: it was not yet.
<1>6. ASSUME pc = "idle", Gas!Ready PROVE Fresh(U(now))
  <2>1. planned \in Int /\ planned <= now
    BY <1>6 DEF Gas!Ready, GasInv, GasTypes
  <2>2. U(planned) <= U(now)
    BY <1>1, <2>1, UtcDays
  <2> QED
    BY <1>6, <2>2 DEF GasInv, GasFresh
<1>7. CASE Gas!NoGas
  <2>1. planned' \in Int
    BY <1>1, <1>7, DailyServicesAssumption DEF Gas!NoGas
  <2> QED
    BY <1>3, <1>6, <1>7, <2>1 DEF Gas!NoGas, Gas!Cycle
<1>8. CASE Gas!Export
  <2>1. /\ UNCHANGED <<now, planned, done, again>> /\ pc' = "upload" /\ target' = U(now)
        /\ Fresh(U(now))
    BY <1>6, <1>8 DEF Gas!Export, Gas!Cycle, Gas!historyVars, Gas!Today, U
  <2> QED
    BY <1>1, <1>2, <2>1 DEF GasInv, GasTypes, Gas!ExportedOnce, GasFresh, Fresh, U
<1>9. CASE Gas!Accept
  <2>1. /\ UNCHANGED <<now, planned, again, target>> /\ pc = "upload" /\ pc' = "accepted"
        /\ done' = [done EXCEPT ![target] = done[target] + 1]
    BY <1>9 DEF Gas!Accept
  <2>2. target \in Gas!Days /\ target <= U(now) /\ Fresh(target)
    BY <2>1 DEF GasInv, GasTypes, GasFresh
  <2>3. /\ done' \in [Gas!Days -> Nat] /\ done'[target] = done[target] + 1
        /\ \A d \in Gas!Days : d # target => done'[d] = done[d]
    BY <1>2, <2>1, <2>2 DEF GasInv, GasTypes
  <2>4. GasTypes' /\ Gas!ExportedOnce'
    BY <1>2, <2>1, <2>2, <2>3 DEF GasInv, GasTypes, Gas!ExportedOnce, Fresh, U
  <2>5. GasFresh'
    BY <1>1, <1>2, <2>1, <2>2, <2>3 DEF GasInv, GasFresh, Fresh, U
  <2> QED
    BY <2>4, <2>5 DEF GasInv
<1>10. CASE Gas!Answered
  <2>1. /\ UNCHANGED <<now, done, again>> /\ pc' = "idle"
        /\ \E h \in ExportHours : planned' = Gas!NextExport(now, h)
    BY <1>10 DEF Gas!Answered, Gas!historyVars
  <2>2. planned' \in Int /\ U(planned') = U(now) + 1
    BY <1>1, <2>1, NextExportDay
  <2>3. U(planned)' = U(now) + 1 /\ U(now)' = U(now)
    BY <2>1, <2>2 DEF U
  <2> QED
    BY <1>1, <1>2, <2>1, <2>2, <2>3 DEF GasInv, GasTypes, Gas!ExportedOnce, GasFresh, Fresh
<1>11. CASE Gas!Fail \/ Gas!Crash
  <2>1. /\ UNCHANGED <<now, done>> /\ pc # "idle" /\ pc' = "idle"
        /\ planned' = planned \/ planned' = now + RetryDelay
        /\ again' = IF pc = "accepted" THEN [again EXCEPT ![target] = again[target] + 1] ELSE again
    BY <1>11 DEF Gas!Fail, Gas!Crash, Gas!GiveUp
  <2>2. planned' \in Int
    BY <1>1, <2>1, DailyServicesAssumption DEF GasInv, GasTypes
  <2>3. /\ target \in Gas!Days /\ target <= U(now) /\ done[target] <= 1 + again[target]
        /\ \A d \in Gas!Days : d > target => Fresh(d)
    BY <2>1 DEF GasInv, GasTypes, GasFresh, Gas!ExportedOnce
  <2>4. /\ again' \in [Gas!Days -> Nat]
        /\ \A d \in Gas!Days : again[d] <= again'[d]
        /\ pc = "accepted" => again'[target] = again[target] + 1
    BY <1>2, <2>1, <2>3 DEF GasInv, GasTypes
  <2>5. done[target] <= again'[target]
    BY <1>2, <2>1, <2>3, <2>4 DEF GasInv, GasTypes, GasFresh, Fresh
  <2>6. done[U(now)] <= again'[U(now)]
    BY <1>1, <1>2, <2>3, <2>4, <2>5 DEF Fresh
  <2> QED
    BY <1>1, <1>2, <2>1, <2>2, <2>4, <2>6 DEF GasInv, GasTypes, Gas!ExportedOnce, GasFresh, Fresh, U
<1>12. CASE UNCHANGED Gas!vars
  BY <1>3, <1>12 DEF Gas!vars, Gas!historyVars, Gas!settingVars, GasInv, GasTypes
<1> QED
  BY <1>4, <1>5, <1>7, <1>8, <1>9, <1>10, <1>11, <1>12 DEF Gas!Next

-----------------------------------------------------------------------------
(***************************************************************************)
(* MinderGas does not pass over a day. What was planned beyond today was   *)
(* so because today was exported, something was in the way at its end, or  *)
(* it began during an export; one that began on the day before and fails   *)
(* does so while all of today is left.                                     *)
(***************************************************************************)

Settled(d) == done[d] > 0 \/ d \in trouble \/ d \in passed

Handled(d) == Settled(d) \/ d = target

GasSpan ==
    IF pc = "idle"
    THEN target = Nothing
    ELSE /\ planned <= now
         /\ target = U(now) \/ (~cycled /\ target = U(now - 1) /\ U(now) \in passed)

GasPlan ==
    /\ U(planned) <= U(now) + 1
    /\ U(planned) > U(now) => Handled(U(now))

GasCycle == cycled /\ U(now + 1) > U(now) => Handled(U(now))

GasAccepted == pc = "accepted" => done[target] > 0

GasDayInv == GasSpan /\ GasPlan /\ GasCycle /\ GasAccepted /\ Gas!DayIsExported

\* The day in UTC, less than a day later.
LEMMA UtcSpan ==
    ASSUME NEW x \in Int, NEW n \in 0..(TicksPerDay - 1)
    PROVE  /\ U(x) \in Int /\ U(x + n) \in Int /\ U(x - 1) \in Int
           /\ U(x) <= U(x + n) /\ U(x + n) <= U(x) + 1 /\ U(x - 1) <= U(x)
           /\ U(x - 1) < U(x) => U(x + n) = U(x)
<1>1. x + n \in Int /\ x <= x + n /\ x - 1 \in Int /\ x - 1 <= x
  BY LocalTimeAssumption
<1>2. U(x) \in Int /\ U(x + n) \in Int /\ U(x) <= U(x + n)
  BY <1>1, UtcDays
<1>3. U(x - 1) \in Int /\ U(x - 1) <= U(x)
  BY <1>1, UtcDays
<1> QED
  BY <1>2, <1>3, DaySpan DEF U, Gas!UtcDay, T

\* Every step of the export keeps this invariant too.
LEMMA GasDayStep ==
    ASSUME GasInv, GasDayInv, [Gas!Next]_(Gas!vars)
    PROVE  GasDayInv'
<1>1. /\ now \in Int /\ planned \in Int
      /\ RetryDelay \in 1..(TicksPerDay - 1) /\ 1 \in 0..(TicksPerDay - 1)
      /\ Nothing \notin Int
  BY DailyServicesAssumption, LocalTimeAssumption DEF GasInv, GasTypes
<1>2. /\ U(now) \in Int /\ U(now + 1) \in Int /\ U(now) <= U(now + 1) /\ U(now + 1) <= U(now) + 1
      /\ U(now - 1) \in Int /\ U(now - 1) <= U(now)
      /\ U(now - 1) < U(now) => U(now + 1) = U(now)
  BY <1>1, UtcSpan
<1>3. /\ U(now + RetryDelay) \in Int /\ U(now + RetryDelay) <= U(now) + 1
      /\ U(now - 1) < U(now) => U(now + RetryDelay) = U(now)
      /\ U(now + 1) <= U(now + RetryDelay)
  <2>1. RetryDelay \in 0..(TicksPerDay - 1)
    BY <1>1
  <2>2. now + 1 \in Int /\ now + RetryDelay \in Int /\ now + 1 <= now + RetryDelay
    BY <1>1, LocalTimeAssumption
  <2> QED
    BY <1>1, <2>1, <2>2, UtcSpan, UtcDays
<1>4. /\ U(now) \in Gas!Days /\ Gas!Days \subseteq Int
      /\ \A d \in Gas!Days : done[d] \in Nat
  BY GasDays DEF GasInv, GasTypes
<1>5. pc # "idle" => target \in Gas!Days
  BY DEF GasInv, GasTypes
\* A step between calls, or one of the administrator.
<1>6. ASSUME UNCHANGED <<now, done, pc, target, passed>>, trouble \subseteq trouble', planned' \in Int,
             planned' = planned \/ pc = "idle",
             U(planned') <= U(now) + 1,
             U(planned') > U(now) => Handled(U(now))',
             \/ cycled' = cycled
             \/ pc = "idle" /\ (U(now + 1) > U(now) => Handled(U(now))')
      PROVE  GasDayInv'
  <2>1. U(planned)' = U(planned') /\ U(now)' = U(now) /\ U(now + 1)' = U(now + 1)
        /\ U(now - 1)' = U(now - 1)
    BY <1>6 DEF U, Gas!UtcDay
  <2>2. GasSpan'
    BY <1>6, <2>1 DEF GasDayInv, GasSpan
  <2>3. GasPlan'
    BY <1>6, <2>1 DEF GasPlan
  <2>4. GasCycle'
    BY <1>6, <2>1 DEF GasDayInv, GasCycle, Handled, Settled
  <2>5. GasAccepted' /\ Gas!DayIsExported'
    BY <1>6, <2>1 DEF GasDayInv, GasAccepted, Gas!DayIsExported, Gas!Today, U
  <2> QED
    BY <2>2, <2>3, <2>4, <2>5 DEF GasDayInv
<1>7. CASE \/ \E d \in Gas!Days : Gas!StoreGas(d)
           \/ \E export, set \in BOOLEAN : Gas!SaveSettings(export, set)
           \/ UNCHANGED Gas!vars
  <2>1. /\ UNCHANGED <<now, done, pc, target, planned, cycled, passed>>
        /\ trouble \subseteq trouble'
    BY <1>7 DEF Gas!StoreGas, Gas!SaveSettings, Gas!vars, Gas!settingVars, Gas!historyVars,
                Gas!Hindered
  <2> QED
    BY <1>1, <1>6, <2>1 DEF GasDayInv, GasPlan, Handled, Settled, U, Gas!UtcDay
<1>8. CASE Gas!NotReady \/ Gas!Disable \/ Gas!NoGas
  <2>1. UNCHANGED <<now, done, pc, target, passed>> /\ pc = "idle"
    BY <1>8 DEF Gas!NotReady, Gas!Disable, Gas!NoGas, Gas!Cycle, Gas!settingVars
  <2>2. \/ trouble' = trouble /\ planned' = planned /\ planned > now
        \/ planned' = planned /\ trouble' = Gas!Hindered(U(now))
        \/ planned' = now + RetryDelay /\ trouble' = Gas!Hindered(U(now))
    BY <1>1, <1>8 DEF Gas!NotReady, Gas!Disable, Gas!NoGas, Gas!Ready, Gas!Today, U
  <2>3. /\ trouble \subseteq trouble'
        /\ trouble' = Gas!Hindered(U(now)) /\ U(now + RetryDelay) > U(now) => U(now) \in trouble'
    BY <2>2 DEF Gas!Hindered, U
  <2>4. planned' \in Int /\ U(planned') <= U(now) + 1
    BY <1>1, <1>3, <2>2, LocalTimeAssumption DEF GasDayInv, GasPlan
  <2>5. ASSUME Handled(U(now)) \/ U(now) \in trouble' PROVE Handled(U(now))'
    BY <2>1, <2>3, <2>5 DEF Handled, Settled, U, Gas!UtcDay
  <2>6. U(planned') > U(now) => Handled(U(now))'
    BY <2>2, <2>3, <2>5 DEF GasDayInv, GasPlan
  <2>7. U(now + 1) > U(now) => Handled(U(now))'
    <3>1. planned > now => U(now + 1) <= U(planned) /\ U(planned) \in Int
      BY <1>1, UtcDays
    <3> QED
      BY <1>2, <1>3, <2>2, <2>3, <2>5, <3>1 DEF GasDayInv, GasPlan
  <2> QED
    BY <1>6, <2>1, <2>3, <2>4, <2>6, <2>7
<1>9. CASE Gas!Export
  <2>1. /\ UNCHANGED <<now, planned, done, trouble, passed>> /\ pc = "idle" /\ pc' = "upload"
        /\ planned <= now /\ target' = U(now) /\ target = Nothing
    BY <1>9 DEF Gas!Export, Gas!Cycle, Gas!Ready, Gas!historyVars, Gas!Today, GasDayInv, GasSpan, U
  <2>2. U(planned) <= U(now)
    BY <1>1, <2>1, UtcDays
  <2>3. U(planned)' = U(planned) /\ U(now)' = U(now)
    BY <2>1 DEF U, Gas!UtcDay
  <2>4. Gas!DayIsExported'
    BY <1>1, <1>4, <2>1 DEF GasDayInv, Gas!DayIsExported, Gas!Today, U
  <2> QED
    BY <1>2, <2>1, <2>2, <2>3, <2>4
       DEF GasDayInv, GasSpan, GasPlan, GasCycle, GasAccepted, Handled
<1>10. CASE Gas!Accept
  <2>1. /\ UNCHANGED <<now, planned, target, cycled, trouble, passed>>
        /\ pc = "upload" /\ pc' = "accepted"
        /\ done' = [done EXCEPT ![target] = done[target] + 1]
    BY <1>10 DEF Gas!Accept
  <2>2. done'[target] > 0 /\ \A d \in Gas!Days : done[d] > 0 => done'[d] > 0
    <3>1. target \in Gas!Days /\ done \in [Gas!Days -> Nat]
      BY <1>5, <2>1 DEF GasInv, GasTypes
    <3>2. done[target] \in Nat /\ \A d \in Gas!Days \ {target} : done'[d] = done[d]
      BY <1>4, <2>1, <3>1
    <3>3. done'[target] = done[target] + 1
      BY <2>1, <3>1
    <3> QED
      BY <3>2, <3>3
  <2>3. UNCHANGED <<U(planned), U(now), U(now + 1), U(now - 1)>>
    BY <2>1 DEF U, Gas!UtcDay
  <2>4. Handled(U(now)) => Handled(U(now))'
    BY <1>4, <2>1, <2>2, <2>3 DEF Handled, Settled
  <2>5. Gas!DayIsExported'
    BY <1>4, <2>1, <2>2, <2>3 DEF GasDayInv, Gas!DayIsExported, Gas!Today, U
  <2> QED
    BY <2>1, <2>2, <2>3, <2>4, <2>5
       DEF GasDayInv, GasSpan, GasPlan, GasCycle, GasAccepted
<1>11. CASE Gas!Answered
  <2>1. /\ UNCHANGED <<now, done, cycled, trouble, passed>>
        /\ pc = "accepted" /\ pc' = "idle" /\ target' = Nothing
    BY <1>11 DEF Gas!Answered, Gas!historyVars
  <2>2. U(planned') = U(now) + 1
    <3> PICK h \in ExportHours : planned' = Gas!NextExport(now, h)
      BY <1>11 DEF Gas!Answered
    <3> QED
      BY <1>1, NextExportDay
  <2>3. done[target] > 0 /\ (target = U(now) \/ U(now) \in passed)
    BY <2>1 DEF GasDayInv, GasAccepted, GasSpan
  <2>4. UNCHANGED <<U(now), U(now + 1)>> /\ U(planned)' = U(planned')
    BY <2>1 DEF U, Gas!UtcDay
  <2>5. Handled(U(now))'
    BY <2>1, <2>3, <2>4 DEF Handled, Settled
  <2>6. Gas!DayIsExported'
    BY <2>1, <2>3, <2>4 DEF GasDayInv, Gas!DayIsExported, Gas!Today, U
  <2> QED
    BY <1>2, <2>1, <2>2, <2>4, <2>5, <2>6
       DEF GasDayInv, GasSpan, GasPlan, GasCycle, GasAccepted
<1>12. CASE Gas!Fail \/ Gas!Crash
  <2>1. /\ UNCHANGED <<now, done, cycled>> /\ pc # "idle" /\ pc' = "idle" /\ target' = Nothing
        /\ trouble' = IF U(now + RetryDelay) > target THEN trouble \union {target} ELSE trouble
        /\ passed' = passed \ {U(now)}
        /\ planned' = planned \/ planned' = now + RetryDelay
    BY <1>12 DEF Gas!Fail, Gas!Crash, Gas!GiveUp, Gas!Hindered, Gas!Today, U
  <2>2. /\ planned <= now
        /\ target = U(now) \/ (~cycled /\ target = U(now - 1))
    BY <2>1 DEF GasDayInv, GasSpan
  <2>3. U(planned) <= U(now) /\ U(planned) \in Int
    BY <1>1, <2>2, UtcDays
  <2>4. UNCHANGED <<U(now), U(now + 1)>> /\ U(planned)' = U(planned')
    BY <2>1 DEF U, Gas!UtcDay
  <2>5. GasPlan'
    <3>1. U(planned') <= U(now) + 1
      BY <1>2, <1>3, <2>1, <2>3
    <3>2. ASSUME U(planned') > U(now) PROVE U(now) \in trouble'
      BY <1>2, <1>3, <2>1, <2>2, <2>3, <3>2
    <3> QED
      BY <2>4, <3>1, <3>2 DEF GasPlan, Handled, Settled
  <2>6. GasCycle'
    BY <1>2, <1>3, <2>1, <2>2, <2>4 DEF GasCycle, Handled, Settled
  <2>7. Gas!DayIsExported'
    <3> SUFFICES ASSUME NEW d \in Gas!Days, d < U(now)
                 PROVE  done[d] > 0 \/ d \in trouble' \/ d \in passed'
      BY <2>1, <2>4 DEF Gas!DayIsExported, Gas!Today, U
    <3>1. done[d] > 0 \/ d \in trouble \/ d \in passed \/ d = target
      BY DEF GasDayInv, Gas!DayIsExported, Gas!Today, U
    <3> QED
      BY <1>2, <1>3, <1>4, <2>1, <3>1
  <2> QED
    BY <2>1, <2>5, <2>6, <2>7 DEF GasDayInv, GasSpan, GasAccepted
<1>13. CASE Gas!Tick
  <2>1. /\ now' = now + 1 /\ cycled /\ ~cycled'
        /\ UNCHANGED <<planned, pc, target, done, trouble>>
        /\ passed' = IF pc # "idle" THEN passed \union ({U(now')} \ {U(now)}) ELSE passed
    BY <1>13 DEF Gas!Tick, Gas!settingVars, Gas!Today, U
  <2>2. /\ U(now)' = U(now + 1) /\ U(now - 1)' = U(now) /\ U(planned)' = U(planned)
        /\ U(now') = U(now + 1) /\ passed \subseteq passed'
    <3>1. now' - 1 = now
      BY <1>1, <2>1
    <3> QED
      BY <2>1, <3>1 DEF U, Gas!UtcDay
  <2>3. GasSpan'
    BY <1>1, <2>1, <2>2 DEF GasDayInv, GasSpan
  <2>4. GasPlan'
    <3>1. U(planned) \in Int
      BY <1>1, UtcDays
    <3>2. CASE U(now + 1) = U(now)
      BY <2>1, <2>2, <3>2 DEF GasDayInv, GasPlan, Handled, Settled
    <3>3. CASE U(now + 1) = U(now) + 1
      BY <1>2, <2>2, <3>1, <3>3 DEF GasDayInv, GasPlan
    <3> QED
      BY <1>2, <3>2, <3>3
  <2>5. Gas!DayIsExported'
    <3> SUFFICES ASSUME NEW d \in Gas!Days, d < U(now + 1) PROVE Handled(d)
      BY <2>1, <2>2 DEF Gas!DayIsExported, Gas!Today, Handled, Settled, U
    <3>1. CASE d < U(now)
      BY <3>1 DEF GasDayInv, Gas!DayIsExported, Gas!Today, Handled, Settled, U
    <3>2. CASE d = U(now) /\ U(now + 1) > U(now)
      BY <2>1, <3>2 DEF GasDayInv, GasCycle
    <3> QED
      BY <1>2, <1>4, <3>1, <3>2
  <2> QED
    BY <2>1, <2>3, <2>4, <2>5 DEF GasDayInv, GasCycle, GasAccepted
<1> QED
  BY <1>7, <1>8, <1>9, <1>10, <1>11, <1>12, <1>13 DEF Gas!Next

-----------------------------------------------------------------------------
(***************************************************************************)
(* Notifications do not lose a day. Where local clocks are ahead of UTC a  *)
(* message that is answered after midnight plans the next one today. Once  *)
(* the last moments of today begin, yesterday was notified, something      *)
(* failed, or the cycle that still has to come notifies it.                *)
(***************************************************************************)

NotifySpan ==
    IF SendingDay
    THEN /\ next # Nothing /\ next <= now
         /\ target = L(now) - 1 \/ (~cycled /\ target = L(now - 1) - 1)
    ELSE target = Nothing

NotifyPlan ==
    next # Nothing =>
        /\ L(next) <= L(now) + 1
        /\ L(next) > L(now) /\ L(now) - 1 \in Notify!Days => Handled(L(now) - 1)

InTime ==
    /\ inTime \subseteq Notify!Days
    /\ \A d \in inTime : d < L(now) /\ (d = L(now) - 1 => L(now + 1) > L(now))

NotifyCycle ==
    L(now) - 1 \in inTime =>
        \/ Handled(L(now) - 1)
        \/ ~cycled /\ service /\ next # Nothing /\ closed >= L(now)

NotifySent == pc \in {"sent", "skipped"} => Settled(target)

NotifyDayInv ==
    NotifySpan /\ NotifyPlan /\ InTime /\ closed \in Int /\ NotifyCycle /\ NotifySent
        /\ Notify!DayNotLost

\* The local day, less than a day later.
LEMMA LocalSpan ==
    ASSUME NEW x \in Int, NEW n \in 0..(TicksPerDay - 1)
    PROVE  /\ L(x) \in Int /\ L(x + n) \in Int /\ L(x - 1) \in Int
           /\ L(x) <= L(x + n) /\ L(x + n) <= L(x) + 1 /\ L(x - 1) <= L(x)
           /\ L(x - 1) < L(x) => L(x + n) = L(x)
<1>1. x + n \in Int /\ x <= x + n /\ x - 1 \in Int /\ x - 1 <= x /\ x + Offset \in Int
  BY LocalTimeAssumption
<1>2. L(x) \in Int /\ L(x + n) \in Int /\ L(x) <= L(x + n)
  BY <1>1, LocalDays
<1>3. L(x - 1) \in Int /\ L(x - 1) <= L(x)
  BY <1>1, LocalDays
<1> PICK z \in Int : z = x + Offset
  BY <1>1
<1>4. x + n + Offset = z + n /\ x - 1 + Offset = z - 1
  BY <1>1, LocalTimeAssumption
<1>5. L(x) = z \div T /\ L(x + n) = (z + n) \div T /\ L(x - 1) = (z - 1) \div T
  BY <1>4 DEF L, Notify!LocalDay, T
<1>6. n \in 0..(T - 1)
  BY DEF T
<1>7. L(x + n) <= L(x) + 1 /\ (L(x - 1) < L(x) => L(x + n) = L(x))
  BY <1>5, <1>6, DaySpan
<1> QED
  BY <1>2, <1>3, <1>7

\* The day in UTC is the local one or that before it; when a local day begins, and
\* local clocks are ahead, it is the one before.
LEMMA UtcIsBehind ==
    ASSUME NEW x \in Int
    PROVE  /\ Notify!UtcDay(x) \in Int /\ Notify!UtcDay(x) <= L(x)
           /\ Offset > 0 /\ L(x - 1) < L(x) => Notify!UtcDay(x) < L(x)
<1> DEFINE u == x \div T
           l == (x + Offset) \div T
           m == (x - 1 + Offset) \div T
<1>1. T \in Nat \ {0} /\ Offset \in Nat
  BY LocalTimeAssumption DEF T
<1>2. u \in Int /\ u <= l
  <2>1. x <= x + Offset /\ x + Offset \in Int
    BY <1>1
  <2> QED
    BY <2>1, DayMonotone
<1>3. ASSUME Offset > 0, m < l PROVE u < l
  <2>1. x <= x - 1 + Offset /\ x - 1 + Offset \in Int
    BY <1>1, <1>3
  <2>2. u <= m /\ m \in Int
    BY <2>1, DayMonotone
  <2>3. l \in Int
    BY <1>1, DayMonotone
  <2> QED
    BY <1>2, <1>3, <2>2, <2>3
<1> QED
  BY <1>2, <1>3 DEF L, Notify!LocalDay, Notify!UtcDay, T

\* What failed is in the way of the day that was being sent if that is over, and
\* of yesterday at the end of today.
LEMMA HinderedDay ==
    ASSUME NotifyInv, NotifyDayInv
    PROVE  /\ trouble \subseteq Notify!Hindered
           /\ SendingDay /\ target < L(now) - 1 => target \in Notify!Hindered
           /\ L(now + RetryDelay) > L(now) /\ L(now) - 1 \in Notify!Days
                  => L(now) - 1 \in Notify!Hindered
<1>1. now \in Int /\ RetryDelay \in 0..(TicksPerDay - 1) /\ Nothing \notin Int
  BY DailyServicesAssumption DEF NotifyInv, NotifyTypes
<1>2. /\ L(now) \in Int /\ L(now + RetryDelay) \in Int /\ L(now) <= L(now + RetryDelay)
      /\ L(now - 1) \in Int /\ L(now - 1) <= L(now)
      /\ L(now - 1) < L(now) => L(now + RetryDelay) = L(now)
  BY <1>1, LocalSpan
<1>3. SendingDay => target \in Notify!Days /\ target \in Int /\ target # Nothing
  BY <1>1, NotifyDaysAreNumbers DEF NotifyInv, NotifyTarget
<1>4. ~SendingDay => target = Nothing
  BY DEF NotifyDayInv, NotifySpan
<1>5. SendingDay => target = L(now) - 1 \/ target = L(now - 1) - 1
  BY DEF NotifyDayInv, NotifySpan
<1>6. Notify!Hindered = IF L(now + RetryDelay) > Notify!Current + 1
                        THEN trouble \union ({Notify!Current} \intersect Notify!Days)
                        ELSE trouble
  BY DEF Notify!Hindered, Notify!With, L
<1>7. CASE SendingDay
  <2>1. Notify!Current = target
    BY <1>3, <1>7 DEF Notify!Current
  <2> QED
    BY <1>2, <1>3, <1>5, <1>6, <1>7, <2>1
<1>8. CASE ~SendingDay
  <2>1. Notify!Current = L(now) - 1
    BY <1>4, <1>8 DEF Notify!Current, Notify!Yesterday, L
  <2> QED
    BY <1>2, <1>6, <1>8, <2>1
<1> QED
  BY <1>7, <1>8

\* Every step of the notifications keeps this invariant too.
LEMMA NotifyDayStep ==
    ASSUME Offset > 0, NotifyInv, NotifyDayInv, [Notify!Next]_(Notify!vars)
    PROVE  NotifyDayInv'
<1> DEFINE y == L(now) - 1
<1>1. /\ now \in Int /\ next \in Int \union {Nothing} /\ closed \in Int
      /\ RetryDelay \in 1..(TicksPerDay - 1) /\ 1 \in 0..(TicksPerDay - 1)
      /\ Nothing \notin Int
  BY DailyServicesAssumption, LocalTimeAssumption DEF NotifyInv, NotifyTypes, NotifyDayInv
<1>2. /\ L(now) \in Int /\ L(now + 1) \in Int /\ L(now) <= L(now + 1) /\ L(now + 1) <= L(now) + 1
      /\ L(now - 1) \in Int /\ L(now - 1) <= L(now)
      /\ L(now - 1) < L(now) => L(now + 1) = L(now)
  BY <1>1, LocalSpan
<1>3. /\ L(now + RetryDelay) \in Int /\ L(now + RetryDelay) <= L(now) + 1
      /\ L(now - 1) < L(now) => L(now + RetryDelay) = L(now)
      /\ L(now + 1) <= L(now + RetryDelay)
  <2>1. RetryDelay \in 0..(TicksPerDay - 1)
    BY <1>1
  <2>2. now + 1 \in Int /\ now + RetryDelay \in Int /\ now + 1 <= now + RetryDelay
    BY <1>1, LocalTimeAssumption
  <2> QED
    BY <1>1, <2>1, <2>2, LocalSpan, LocalDays
<1>4. Notify!Days \subseteq Int /\ \A d \in Notify!Days : done[d] \in Nat
  BY NotifyDaysAreNumbers DEF NotifyInv, NotifyTypes
<1>5. /\ SendingDay => target \in Notify!Days
      /\ ~SendingDay => target = Nothing
  BY DEF NotifyInv, NotifyTarget, NotifyDayInv, NotifySpan
<1>6. inTime \subseteq Notify!Days /\ (y \in inTime => L(now + 1) > L(now))
  BY DEF NotifyDayInv, InTime
\* A step that neither begins nor ends the message of a day.
<1>7. ASSUME UNCHANGED <<now, next, done, target, inTime>>,
             SendingDay' <=> SendingDay,
             pc' \in {"sent", "skipped"} => pc = pc' \/ Settled(target)',
             trouble \subseteq trouble', passed \subseteq passed', closed' \in Int, closed' >= closed,
             SendingDay => cycled' = cycled,
             y \in inTime => Handled(y)' \/ UNCHANGED <<cycled, service>>
      PROVE  NotifyDayInv'
  <2>1. UNCHANGED <<L(now), L(now + 1), L(now - 1)>> /\ (next # Nothing => L(next)' = L(next))
    BY <1>7 DEF L, Notify!LocalDay
  <2>2. \A d : Handled(d) => Handled(d)'
    BY <1>7 DEF Handled, Settled
  <2>3. NotifySpan'
    BY <1>7, <2>1 DEF NotifyDayInv, NotifySpan
  <2>4. NotifyPlan'
    BY <1>7, <2>1, <2>2 DEF NotifyDayInv, NotifyPlan
  <2>5. InTime'
    BY <1>7, <2>1 DEF NotifyDayInv, InTime
  <2>6. NotifyCycle'
    <3> SUFFICES ASSUME y \in inTime, ~Handled(y)'
                 PROVE  ~cycled' /\ service' /\ next' # Nothing /\ closed' >= L(now)
      BY <1>7, <2>1 DEF NotifyCycle
    <3>1. ~Handled(y) /\ UNCHANGED <<cycled, service>>
      BY <1>7, <2>1, <2>2 DEF Handled, Settled
    <3> QED
      BY <1>1, <1>2, <1>7, <3>1 DEF NotifyDayInv, NotifyCycle
  <2>7. NotifySent'
    BY <1>7 DEF NotifyDayInv, NotifySent, Settled
  <2>8. Notify!DayNotLost'
    BY <1>7, <2>1 DEF NotifyDayInv, Notify!DayNotLost, L
  <2> QED
    BY <1>7, <2>3, <2>4, <2>5, <2>6, <2>7, <2>8 DEF NotifyDayInv
<1>8. CASE Notify!CloseDay \/ UNCHANGED Notify!vars
  <2>1. /\ UNCHANGED <<now, next, done, target, inTime, pc, trouble, passed, cycled, service>>
        /\ closed' = closed \/ closed' = closed + 1
    BY <1>8 DEF Notify!CloseDay, Notify!vars, Notify!settingVars, Notify!historyVars
  <2> QED
    BY <1>1, <1>7, <2>1 DEF SendingDay, NotifyDayInv, NotifySent, Settled
<1>9. CASE \E on \in BOOLEAN : Notify!SetService(on)
  <2>1. /\ UNCHANGED <<now, next, done, target, inTime, pc, closed, cycled, passed>>
        /\ trouble' = Notify!Hindered
    BY <1>9 DEF Notify!SetService
  <2>2. y \in inTime => y \in trouble'
    BY <1>2, <1>3, <1>6, <2>1, HinderedDay
  <2>3. y \in inTime => Handled(y)'
    BY <2>1, <2>2 DEF Handled, Settled, L, Notify!LocalDay
  <2> QED
    BY <1>1, <1>7, <2>1, <2>3, HinderedDay DEF SendingDay
<1>10. CASE Notify!NotifyTest \/ Notify!NotifyNothing
  <2>1. /\ UNCHANGED <<now, next, done, target, inTime, trouble, passed, closed>>
        /\ pc = "idle" /\ pc' \in {"test", "status"}
        /\ next = Nothing \/ (~Notify!IsTime /\ (~service \/ next # Nothing))
    <3>1. CASE Notify!NotifyTest
      BY <3>1 DEF Notify!NotifyTest, Notify!Cycle, Notify!settingVars, Notify!historyVars
    <3>2. CASE Notify!NotifyNothing
      BY <3>2 DEF Notify!NotifyNothing, Notify!Cycle, Notify!settingVars, Notify!historyVars
    <3> QED
      BY <1>10, <3>1, <3>2
  <2>2. ASSUME y \in inTime PROVE Handled(y)
    <3>1. CASE next # Nothing /\ next > now
      <4>1. L(now + 1) <= L(next) /\ L(next) \in Int
        BY <1>1, <3>1, LocalDays
      <4> QED
        BY <1>2, <1>6, <2>2, <3>1, <4>1 DEF NotifyDayInv, NotifyPlan
    <3> QED
      BY <1>1, <2>1, <2>2, <3>1 DEF NotifyDayInv, NotifyCycle, Notify!IsTime
  <2>3. y \in inTime => Handled(y)'
    BY <2>1, <2>2 DEF Handled, Settled, L, Notify!LocalDay
  <2> QED
    BY <1>1, <1>7, <2>1, <2>3 DEF SendingDay
<1>11. CASE Notify!SkipDay
  <2>1. /\ UNCHANGED <<now, next, done, target, inTime, closed, cycled, service, trouble>>
        /\ passed' = passed \union ({target} \intersect Notify!Days)
        /\ pc = "daily" /\ pc' = "skipped"
    BY <1>11 DEF Notify!SkipDay, Notify!settingVars, Notify!With
  <2>2. Settled(target)'
    BY <1>5, <2>1 DEF SendingDay, Settled
  <2> QED
    BY <1>1, <1>7, <2>1, <2>2 DEF SendingDay
<1>12. CASE Notify!DeliverOther \/ Notify!CheckLags \/ Notify!CheckNothing \/ Notify!AnsweredAlert
  <2>1. /\ UNCHANGED <<now, next, done, target, inTime, closed, cycled, service, trouble, passed>>
        /\ ~SendingDay /\ ~SendingDay'
    BY <1>12 DEF Notify!DeliverOther, Notify!CheckLags, Notify!CheckNothing, Notify!AnsweredAlert,
                 Notify!settingVars, Notify!historyVars, SendingDay
  <2> QED
    BY <1>1, <1>7, <2>1 DEF SendingDay
\* The message of yesterday begins, if there are statistics.
<1>13. ASSUME ~SendingDay, UNCHANGED <<now, done, trouble, passed, inTime, service, closed>>,
              next' \in Int, next' <= now, Notify!SendDay
       PROVE  NotifyDayInv'
  <2>1. UNCHANGED <<L(now), L(now + 1), L(now - 1)>> /\ L(next)' = L(next')
    BY <1>13 DEF L, Notify!LocalDay
  <2>2. target = Nothing
    BY <1>5, <1>13
  <2>3. \/ pc' = "daily" /\ target' = y
        \/ pc' = "status" /\ target' = Nothing /\ y \notin 0..(closed - 1)
    BY <1>13, <2>2 DEF Notify!SendDay, Notify!Yesterday, L
  <2>4. L(next') <= L(now)
    BY <1>1, <1>13, LocalDays
  <2>5. NotifySpan'
    BY <1>1, <1>13, <2>1, <2>3 DEF NotifySpan, SendingDay
  <2>6. NotifyPlan'
    BY <1>1, <1>2, <1>13, <2>1, <2>4, LocalDays DEF NotifyPlan
  <2>7. InTime'
    BY <1>13, <2>1 DEF NotifyDayInv, InTime
  <2>8. NotifyCycle'
    <3> SUFFICES ASSUME y \in inTime PROVE Handled(y)'
      BY <1>13, <2>1 DEF NotifyCycle
    <3>1. y \in Int /\ y >= 0
      BY <1>6, <1>2, <1>4 DEF Notify!Days
    <3>2. CASE Settled(y)
      BY <1>13, <2>1, <3>2 DEF Handled, Settled
    <3>3. CASE closed >= L(now)
      BY <1>1, <1>2, <2>1, <2>3, <3>1, <3>3 DEF Handled
    <3> QED
      BY <1>1, <2>2, <3>1, <3>2, <3>3 DEF NotifyDayInv, NotifyCycle, Handled
  <2>9. NotifySent'
    BY <2>3 DEF NotifySent
  <2>10. Notify!DayNotLost'
    BY <1>1, <1>4, <1>6, <1>13, <2>1, <2>2 DEF NotifyDayInv, Notify!DayNotLost, L
  <2> QED
    BY <1>1, <1>13, <2>5, <2>6, <2>7, <2>8, <2>9, <2>10 DEF NotifyDayInv
<1>14. CASE Notify!NotifyDay \/ Notify!AnsweredTest
  <2>1. /\ ~SendingDay /\ UNCHANGED <<now, done, trouble, passed, inTime, service, closed>>
        /\ (next' = next /\ Notify!IsTime) \/ next' = now
        /\ Notify!SendDay
    BY <1>14 DEF Notify!NotifyDay, Notify!AnsweredTest, Notify!Cycle, Notify!settingVars,
                 Notify!historyVars, SendingDay
  <2> QED
    BY <1>1, <1>13, <2>1 DEF Notify!IsTime
<1>15. CASE Notify!DeliverDay
  <2>1. /\ UNCHANGED <<now, next, target, cycled, service, closed, trouble, passed, inTime>>
        /\ pc = "daily" /\ pc' = "sent"
        /\ done' = [done EXCEPT ![target] = done[target] + 1]
    BY <1>15 DEF Notify!DeliverDay, Notify!settingVars
  <2>2. target \in Notify!Days /\ done \in [Notify!Days -> Nat]
    BY <1>5, <2>1 DEF SendingDay, NotifyInv, NotifyTypes
  <2>3. done'[target] = done[target] + 1 /\ \A d \in Notify!Days \ {target} : done'[d] = done[d]
    BY <2>1, <2>2
  <2>4. Settled(target)'
    BY <1>4, <2>1, <2>2, <2>3 DEF Settled
  <2>5. \A d \in Notify!Days : Handled(d) => Handled(d)'
    BY <2>1, <2>3, <2>4 DEF Handled, Settled
  <2>6. UNCHANGED <<L(now), L(now + 1), L(now - 1)>> /\ (next # Nothing => L(next)' = L(next))
    BY <2>1 DEF L, Notify!LocalDay
  <2>7. NotifySpan' /\ InTime'
    BY <2>1, <2>6 DEF NotifyDayInv, NotifySpan, InTime, SendingDay
  <2>8. NotifyPlan' /\ NotifyCycle'
    BY <1>6, <2>1, <2>5, <2>6 DEF NotifyDayInv, NotifyPlan, NotifyCycle
  <2>9. Notify!DayNotLost'
    BY <1>6, <2>1, <2>3, <2>6 DEF NotifyDayInv, Notify!DayNotLost, L
  <2> QED
    BY <2>1, <2>4, <2>7, <2>8, <2>9 DEF NotifyDayInv, NotifySent
<1>16. CASE Notify!AnsweredDay
  <2>1. /\ UNCHANGED <<now, cycled, service, closed, done, trouble, passed, inTime>>
        /\ pc \in {"sent", "skipped"} /\ pc' = "status" /\ target' = Nothing
        /\ next' = Notify!NextNotification(now)
    BY <1>16 DEF Notify!AnsweredDay
  <2>2. now \in Nat
    BY <1>1, DailyServicesAssumption DEF NotifyInv, NotifyTypes
  <2>3. next' \in Int /\ L(next') = Notify!UtcDay(now) + 1
    BY <2>1, <2>2, NextNotificationDay
  <2>4. /\ Notify!UtcDay(now) \in Int /\ Notify!UtcDay(now) <= L(now)
        /\ L(now - 1) < L(now) => Notify!UtcDay(now) < L(now)
    BY <1>1, UtcIsBehind
  <2>5. Settled(target) /\ (target = y \/ target = L(now - 1) - 1)
    BY <2>1 DEF NotifyDayInv, NotifySent, NotifySpan, SendingDay
  <2>6. UNCHANGED <<L(now), L(now + 1), L(now - 1)>> /\ L(next)' = L(next')
    BY <2>1 DEF L, Notify!LocalDay
  <2>7. \A d : Handled(d) => Handled(d)'
    BY <2>1, <2>5 DEF Handled, Settled
  <2>8. NotifyPlan'
    <3> SUFFICES ASSUME L(next') > L(now) PROVE Handled(y)'
      BY <1>2, <2>3, <2>4, <2>6 DEF NotifyPlan
    <3>1. target = y
      BY <1>2, <2>3, <2>4, <2>5
    <3> QED
      BY <2>1, <2>5, <2>6, <3>1 DEF Handled, Settled
  <2>9. NotifyCycle'
    <3> SUFFICES ASSUME y \in inTime, ~Handled(y)'
                 PROVE  ~cycled /\ service /\ next' # Nothing /\ closed >= L(now)
      BY <2>1, <2>6 DEF NotifyCycle
    <3>1. ~Handled(y)
      BY <2>5, <2>6, <2>1 DEF Handled, Settled
    <3> QED
      BY <1>1, <2>3, <3>1 DEF NotifyDayInv, NotifyCycle
  <2>10. Notify!DayNotLost'
    BY <2>1, <2>6, <2>7 DEF NotifyDayInv, Notify!DayNotLost, Handled, Settled, L
  <2> QED
    BY <1>1, <2>1, <2>6, <2>8, <2>9, <2>10
       DEF NotifyDayInv, NotifySpan, InTime, NotifySent, SendingDay
<1>17. CASE Notify!ClientError \/ Notify!ServerError \/ Notify!Break
  <2>1. /\ UNCHANGED <<now, cycled, closed, done, passed, inTime>>
        /\ pc' = "idle" /\ target' = Nothing /\ trouble' = Notify!Hindered
        /\ next' \in {Nothing, now + RetryDelay, next}
    BY <1>17 DEF Notify!ClientError, Notify!ServerError, Notify!Break, Notify!Raise
  <2>2. /\ UNCHANGED <<L(now), L(now + 1), L(now - 1)>>
        /\ next' # Nothing => L(next)' = L(next')
    BY <2>1 DEF L, Notify!LocalDay
  <2>3. trouble \subseteq trouble' /\ (SendingDay /\ target < y => target \in trouble')
    BY <2>1, HinderedDay
  <2>4. L(now + RetryDelay) > L(now) /\ y \in Notify!Days => Handled(y)'
    BY <2>1, <2>2, HinderedDay DEF Handled, Settled
  <2>5. NotifyPlan'
    <3>1. CASE next' = now + RetryDelay
      BY <1>2, <1>3, <2>2, <2>4, <3>1 DEF NotifyPlan
    <3>2. CASE next' = next /\ ~SendingDay
      <4>1. Handled(y) /\ y \in Notify!Days => Handled(y)'
        BY <1>1, <1>4, <1>5, <2>1, <2>2, <2>3, <3>2 DEF Handled, Settled
      <4> QED
        BY <2>2, <3>2, <4>1 DEF NotifyDayInv, NotifyPlan
    <3>3. CASE next' = next /\ SendingDay
      <4>1. next # Nothing /\ next \in Int /\ next <= now
        BY <1>1, <3>3 DEF NotifyDayInv, NotifySpan
      <4>2. L(next) <= L(now) /\ L(next) \in Int
        BY <1>1, <4>1, LocalDays
      <4> QED
        BY <1>2, <2>2, <3>3, <4>1, <4>2 DEF NotifyPlan
    <3> QED
      BY <2>1, <3>1, <3>2, <3>3 DEF NotifyPlan
  <2>6. NotifyCycle'
    BY <1>2, <1>3, <1>6, <2>1, <2>2, <2>4 DEF NotifyCycle
  <2>7. Notify!DayNotLost'
    <3> SUFFICES ASSUME NEW d \in inTime, L(now) > d + 1 PROVE Settled(d)'
      BY <2>1, <2>2 DEF Notify!DayNotLost, Settled, L
    <3>1. done[d] > 0 \/ d \in trouble \/ d \in passed \/ d = target
      BY DEF NotifyDayInv, Notify!DayNotLost, L
    <3>2. d \in Int
      BY <1>4, <1>6
    <3> QED
      BY <1>1, <1>2, <1>5, <2>1, <2>3, <3>1, <3>2 DEF Settled
  <2> QED
    BY <1>1, <2>1, <2>2, <2>5, <2>6, <2>7
       DEF NotifyDayInv, NotifySpan, InTime, NotifySent, SendingDay
<1>18. CASE Notify!Tick
  <2> DEFINE z == L(now + 1) - 1
             Ends == L(now + 1 + 1) > L(now + 1)
  <2>1. /\ now' = now + 1 /\ cycled /\ ~cycled'
        /\ UNCHANGED <<service, next, closed, pc, target, done, trouble, passed>>
        /\ inTime' = IF Ends /\ service /\ next # Nothing /\ closed > z
                     THEN inTime \union ({z} \intersect Notify!Days)
                     ELSE inTime
    BY <1>18 DEF Notify!Tick, Notify!settingVars, Notify!LastTickOfDay, Notify!With, L
  <2>2. /\ L(now)' = L(now + 1) /\ L(now - 1)' = L(now) /\ L(now + 1)' = L(now + 1 + 1)
        /\ next # Nothing => L(next)' = L(next)
    <3>1. now' - 1 = now
      BY <1>1, <2>1
    <3> QED
      BY <2>1, <3>1 DEF L, Notify!LocalDay
  <2>3. \A d : Handled(d) => Handled(d)'
    BY <2>1 DEF Handled, Settled
  <2>4. z \notin inTime
    BY <1>2, <1>6 DEF NotifyDayInv, InTime
  <2>5. NotifySpan'
    BY <1>1, <2>1, <2>2 DEF NotifyDayInv, NotifySpan, SendingDay
  <2>6. NotifyPlan'
    <3>1. next # Nothing => L(next) \in Int
      BY <1>1, LocalDays
    <3>2. CASE L(now + 1) = L(now)
      BY <2>1, <2>2, <2>3, <3>2 DEF NotifyDayInv, NotifyPlan
    <3>3. CASE L(now + 1) = L(now) + 1
      BY <1>2, <2>1, <2>2, <3>1, <3>3 DEF NotifyDayInv, NotifyPlan
    <3> QED
      BY <1>2, <3>2, <3>3
  <2>7. InTime'
    <3>1. inTime' \subseteq Notify!Days
      BY <1>6, <2>1
    <3> SUFFICES ASSUME NEW d \in inTime' PROVE d < L(now + 1) /\ (d = z => Ends)
      BY <2>2, <3>1 DEF InTime
    <3>2. CASE d \in inTime
      BY <1>2, <1>4, <1>6, <2>4, <3>2 DEF NotifyDayInv, InTime
    <3>3. CASE d = z /\ Ends
      BY <1>2, <3>3
    <3> QED
      BY <2>1, <3>2, <3>3
  <2>8. NotifyCycle'
    BY <1>1, <1>2, <2>1, <2>2, <2>4 DEF NotifyCycle
  <2>9. Notify!DayNotLost'
    <3> SUFFICES ASSUME NEW d \in inTime', L(now + 1) > d + 1 PROVE Handled(d)
      BY <2>1, <2>2 DEF Notify!DayNotLost, Handled, Settled, L
    <3>1. d \in inTime /\ d \in Int
      BY <1>2, <1>4, <1>6, <2>1
    <3>2. CASE L(now) > d + 1
      BY <3>1, <3>2 DEF NotifyDayInv, Notify!DayNotLost, Handled, Settled, L
    <3>3. CASE d = y
      BY <2>1, <3>1, <3>3 DEF NotifyDayInv, NotifyCycle
    <3> QED
      BY <1>2, <3>1, <3>2, <3>3 DEF NotifyDayInv, InTime
  <2> QED
    BY <1>1, <2>1, <2>5, <2>6, <2>7, <2>8, <2>9 DEF NotifyDayInv, NotifySent, Settled
<1> QED
  BY <1>8, <1>9, <1>10, <1>11, <1>12, <1>14, <1>15, <1>16, <1>17, <1>18 DEF Notify!Next

-----------------------------------------------------------------------------
(***************************************************************************)
(* A behaviour is of one of the services.                                  *)
(***************************************************************************)

OnceInv ==
    /\ running = "notifications" => NotifyInv
    /\ running = "mindergas" => GasInv

\* The initial states satisfy the invariants of both services.
LEMMA OnceInit == Init => OnceInv
<1> SUFFICES ASSUME Init PROVE OnceInv
  OBVIOUS
<1>1. 0 \in 0..LastTick
  BY DailyServicesAssumption
<1>2. CASE running = "notifications" /\ Notify!Init
  BY <1>1, <1>2
     DEF Notify!Init, NotifyInv, NotifyTypes, NotifyTarget, Notify!NotifiedOnce, NotifyFresh,
         NotifyPlanned, SendingDay, Fresh, OnceInv
<1>3. CASE running = "mindergas" /\ Gas!Init
  <2>1. U(0) \in Gas!Days
    BY <1>1, <1>3, GasDays DEF Gas!Init
  <2> QED
    BY <1>1, <1>3, <2>1 DEF Gas!Init, GasInv, GasTypes, Gas!ExportedOnce, GasFresh, Fresh, OnceInv
<1> QED
  BY <1>2, <1>3 DEF Init

\* A step is one of the service that runs, or changes nothing of either.
LEMMA StepOfOne ==
    ASSUME [Next]_vars
    PROVE  /\ UNCHANGED running
           /\ running = "notifications" => [Notify!Next]_(Notify!vars)
           /\ running = "mindergas" => [Gas!Next]_(Gas!vars)
<1>1. CASE UNCHANGED vars
  BY <1>1
     DEF vars, notificationVars, minderGasVars, Notify!vars, Notify!settingVars,
         Notify!historyVars, Gas!vars, Gas!settingVars, Gas!historyVars
<1>2. CASE Next
  BY <1>2 DEF Next
<1> QED
  BY <1>1, <1>2

\* Every step keeps the invariants of both services.
LEMMA OnceStep == OnceInv /\ [Next]_vars => OnceInv'
BY StepOfOne, NotifyStep, GasStep DEF OnceInv

\* Each day is notified once, and exported once, and once more for each time
\* that this had to be repeated (run DailyServices, DoneOnce).
THEOREM DoneOnceAlways == Spec => []DoneOnce
<1>1. OnceInv => DoneOnce
  BY DEF OnceInv, NotifyInv, GasInv, DoneOnce
<1> QED
  BY <1>1, OnceInit, OnceStep, PTL DEF Spec

\* Each day has its export (run DailyServices, DayIsExported), whatever failed
\* earlier in it: the random moments and the retries lead to one. But for two
\* exceptions: a day at whose very end something was in the way, and one that began
\* during an export that was then accepted, after which the next is planned a day
\* too late.
THEOREM NoDayWithoutExport == Spec => []DayIsExported
<1> DEFINE Inv == running = "mindergas" => GasDayInv
<1>1. Init => Inv
  <2> SUFFICES ASSUME Init, running = "mindergas" PROVE GasDayInv
    OBVIOUS
  <2>1. Gas!Init
    BY DEF Init
  <2>2. U(0) = 0
    BY LocalTimeAssumption DEF U, Gas!UtcDay
  <2>3. \A d \in Gas!Days : ~(d < 0)
    BY GasDays, UtcDays, DailyServicesAssumption DEF Gas!Days, U
  <2> QED
    BY <2>1, <2>2, <2>3
       DEF Gas!Init, GasDayInv, GasSpan, GasPlan, GasCycle, GasAccepted, Gas!DayIsExported,
           Gas!Today, U
<1>2. OnceInv /\ Inv /\ [Next]_vars => Inv'
  BY StepOfOne, GasDayStep DEF OnceInv
<1>3. Inv => DayIsExported
  BY DEF GasDayInv, DayIsExported
<1> QED
  BY <1>1, <1>2, <1>3, OnceInit, OnceStep, PTL DEF Spec

\* A day whose statistics were there before the last moments of the next day, in
\* which nothing failed, was notified by then (run DailyServices, DayNotLost),
\* whatever failed earlier, and even if the message of the day before it was
\* answered only after midnight. The exception is a day whose message was being made
\* when the service was switched off. This holds where local clocks are ahead of
\* UTC: if they show the same, that answer plans the next message for tomorrow.
THEOREM NoDayLost ==
    ASSUME Offset > 0
    PROVE  Spec => []DayNotLost
<1> DEFINE Inv == running = "notifications" => NotifyDayInv
<1>1. Init => Inv
  <2> SUFFICES ASSUME Init, running = "notifications" PROVE NotifyDayInv
    OBVIOUS
  <2>1. Notify!Init
    BY DEF Init
  <2> QED
    BY <2>1
       DEF Notify!Init, NotifyDayInv, NotifySpan, NotifyPlan, InTime, NotifyCycle, NotifySent,
           Notify!DayNotLost, SendingDay
<1>2. OnceInv /\ Inv /\ [Next]_vars => Inv'
  BY StepOfOne, NotifyDayStep DEF OnceInv
<1>3. Inv => DayNotLost
  BY DEF NotifyDayInv, DayNotLost
<1> QED
  BY <1>1, <1>2, <1>3, OnceInit, OnceStep, PTL DEF Spec
===============================================================================
