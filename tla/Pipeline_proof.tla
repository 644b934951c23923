---------------------------- MODULE Pipeline_proof ----------------------------
(***************************************************************************)
(* What the services owe each other, for every length of a minute, an hour *)
(* and a day, every retention period and every number of readings and      *)
(* crashes: what retention leaves, when a day may be closed, and what its  *)
(* statistics count.                                                       *)
(***************************************************************************)
EXTENDS Pipeline, Compactor_proof, FiniteSetTheorems, WellFoundedInduction

-----------------------------------------------------------------------------
\* Each set of natural numbers has a least element.
LEMMA LeastExists ==
    ASSUME NEW S, S \subseteq Nat, S # {}
    PROVE  \E x \in S : \A y \in S : x =< y
<1> DEFINE R == OpToRel(<, Nat)
<1>1. IsWellFoundedOn(R, Nat)
  BY NatLessThanWellFounded
<1>2. \A x, y \in Nat : y < x => <<y, x>> \in R
  BY DEF OpToRel
<1>3. PICK x \in S : \A y \in S : ~(<<y, x>> \in R)
  <2> HIDE DEF R
  <2> QED
    BY <1>1, WFMin, Zenon
<1>4. \A y \in S : ~(y < x)
  <2> HIDE DEF R
  <2> QED
    BY <1>2, <1>3
<1> QED
  BY <1>4

\* The minimum is the least element.
LEMMA MinIsLeast ==
    ASSUME NEW S, S \subseteq Nat, S # {}
    PROVE  Min(S) \in S /\ \A y \in S : Min(S) =< y
BY LeastExists DEF Min

\* Each bounded set of natural numbers has a greatest element: the maximum.
LEMMA MaxIsGreatest ==
    ASSUME NEW n \in Nat, NEW S, S \subseteq 0..n, S # {}
    PROVE  Max(S) \in S /\ \A y \in S : Max(S) >= y
<1> DEFINE T == {n - x : x \in S}
<1>1. T \subseteq Nat
  <2> SUFFICES ASSUME NEW x \in S PROVE n - x \in Nat
    OBVIOUS
  <2> QED
    OBVIOUS
<1> T # {}
  <2> PICK x \in S : TRUE
    OBVIOUS
  <2> n - x \in T
    OBVIOUS
  <2> QED
    OBVIOUS
<1>2. PICK t \in T : \A u \in T : t =< u
  <2> HIDE DEF T
  <2> QED
    BY <1>1, LeastExists
<1>3. PICK x \in S : t = n - x
  OBVIOUS
<1>4. \A y \in S : x >= y
  <2> TAKE y \in S
  <2>1. n - y \in T
    OBVIOUS
  <2>2. n - x =< n - y
    BY <1>2, <1>3, <2>1
  <2> QED
    BY <2>2, x \in 0..n, y \in 0..n
<1> QED
  BY <1>4 DEF Max

-----------------------------------------------------------------------------
N == TicksPerHour

\* A moment is in one hour.
LEMMA HourIsUnique ==
    ASSUME NEW t \in Int, NEW k \in Int, N * k <= t, t < N * k + N
    PROVE  HourStart(t) = N * k
<1> DEFINE q == t \div N
<1>1. N \in Nat \ {0}
  BY MeterTimeAssumption DEF N, TicksPerHour
<1>2. q \in Int /\ N * q <= t /\ t < N * (q + 1) /\ HourStart(t) = N * q
  BY <1>1 DEF HourStart, N
<1>3. t < N * (k + 1)
  BY <1>1
<1> HIDE DEF q
<1>4. ~(q < k)
  BY <1>1, <1>2
<1>5. ~(k < q)
  BY <1>1, <1>2, <1>3
<1> QED
  BY <1>2, <1>4, <1>5

\* The hour of a moment is a multiple of its length, and contains the moment.
LEMMA HourBounds ==
    ASSUME NEW t \in Int
    PROVE  \E k \in Int : HourStart(t) = N * k /\ N * k <= t /\ t < N * k + N
<1>1. N \in Nat \ {0}
  BY MeterTimeAssumption DEF N, TicksPerHour
<1>2. t \div N \in Int /\ N * (t \div N) <= t /\ t < N * (t \div N) + N /\ HourStart(t) = N * (t \div N)
  BY <1>1 DEF HourStart, N
<1> QED
  BY <1>2

-----------------------------------------------------------------------------
(***************************************************************************)
(* Steps of the pipeline as the modules it is made of see them.            *)
(***************************************************************************)

RetentionStep == Retain!Run \/ Retain!Abort

\* The compactor sees one of its own steps, or one of the retention policy.
LEMMA StepOfCompactor ==
    ASSUME [PipelineNext]_allVars
    PROVE  \/ StepInOrder /\ [Next]_vars /\ UNCHANGED retentionVars
           \/ RetentionStep /\ UNCHANGED <<meterVars, grouping, passVars, nextPk>> /\ crashes' \in {crashes, crashes + 1}
<1>1. CASE Telegram
  BY <1>1, PipelineAssumption DEF Telegram, Next, StepInOrder
<1>2. CASE TimePasses \/ RunCompactor \/ RunStatistics
  BY <1>2 DEF TimePasses, RunCompactor, RunStatistics, Next, StepInOrder, Pass
<1>3. CASE RunRetention
  BY <1>3 DEF RunRetention, RetentionStep
<1>4. CASE BackendDies
  BY <1>4 DEF BackendDies, RetentionStep, Next, StepInOrder
<1>5. CASE UNCHANGED allVars
  BY <1>5 DEF allVars, StepInOrder
<1> QED
  BY <1>1, <1>2, <1>3, <1>4, <1>5 DEF PipelineNext

\* Retention only deletes, and only readings that are processed.
LEMMA RetentionDeletes ==
    ASSUME RetentionStep
    PROVE  /\ readings' \subseteq readings
           /\ electricity' \subseteq electricity
           /\ gas' \subseteq gas
           /\ \A r \in readings : ~r.processed => r \in readings'
<1>1. CASE UNCHANGED <<readings, electricity, gas>>
  BY <1>1
<1>2. CASE Retain!CleanHour
  <2>1. PICK h, first, last :
            Retain!Delete(cleaning, Retain!InHour(cleaning, h) \ {first, last})
    BY <1>2 DEF Retain!CleanHour
  <2>2. cleaning = "readings" => \A r \in Retain!InHour(cleaning, h) : r.processed
    BY DEF Retain!InHour, Retain!Items
  <2> QED
    BY <2>1, <2>2 DEF Retain!Delete
<1> QED
  BY <1>1, <1>2 DEF RetentionStep, Retain!Run, Retain!Start, Retain!NextModel, Retain!Abort

\* The types of the compactor's tables hold in the pipeline.
LEMMA PipelineTypeStep == TypeOK /\ [PipelineNext]_allVars => TypeOK'
<1> SUFFICES ASSUME TypeOK, [PipelineNext]_allVars PROVE TypeOK'
  OBVIOUS
<1>1. CASE [Next]_vars
  BY <1>1, TypeOKStep
<1>2. CASE RetentionStep /\ UNCHANGED <<meterVars, grouping, passVars, nextPk>> /\ crashes' \in {crashes, crashes + 1}
  BY <1>2, RetentionDeletes DEF TypeOK, meterVars, passVars
<1> QED
  BY <1>1, <1>2, StepOfCompactor

\* So they hold always.
LEMMA PipelineTypes == PipelineSpec => []TypeOK
<1>1. PipelineInit => TypeOK
  BY DEF PipelineInit, Init, TypeOK
<1> QED
  BY <1>1, PipelineTypeStep, PTL DEF PipelineSpec

\* What is to be cleaned are hours.
HoursAligned == \A h \in hours : \E k \in Int : h = N * k

\* Rows are stamped with integers.
LEMMA StampsAreNumbers ==
    ASSUME TypeOK, NEW table \in Retain!Tables, NEW x \in Retain!Items(table)
    PROVE  Retain!Stamp(table, x) \in Int
BY DEF TypeOK, Retain!Tables, Retain!Items, Retain!Stamp, Reading, ElectricityRow, GasRow

\* The hours of a table are hours.
LEMMA CleanupHoursAligned ==
    ASSUME TypeOK, NEW table \in Retain!Tables, NEW h \in Retain!HoursToCleanup(table)
    PROVE  \E k \in Int : h = N * k
<1>1. PICK x \in Retain!Items(table) : h = Retain!HourStart(Retain!Stamp(table, x))
  BY DEF Retain!HoursToCleanup, Retain!CrowdedHours
<1>2. h = HourStart(Retain!Stamp(table, x))
  BY <1>1 DEF Retain!HourStart, HourStart, Retain!TicksPerHour, TicksPerHour
<1> QED
  BY <1>2, StampsAreNumbers, HourBounds

RetentionInv == cleaning \in Retain!Tables \union {"none"} /\ HoursAligned

\* Every step keeps that.
LEMMA RetentionInvStep == TypeOK /\ RetentionInv /\ [PipelineNext]_allVars => RetentionInv'
<1> SUFFICES ASSUME TypeOK, RetentionInv, [PipelineNext]_allVars PROVE RetentionInv'
  OBVIOUS
<1> USE DEF RetentionInv, HoursAligned
<1>1. CASE UNCHANGED retentionVars
  BY <1>1 DEF retentionVars
<1>2. CASE Retain!Start
  <2>1. "readings" \in Retain!Tables
    BY DEF Retain!Tables
  <2> QED
    BY <1>2, <2>1, CleanupHoursAligned DEF Retain!Start
<1>3. CASE Retain!CleanHour
  BY <1>3 DEF Retain!CleanHour
<1>4. CASE Retain!NextModel
  <2>1. cleaning' = Retain!NextTable(cleaning) /\ cleaning' \in Retain!Tables \union {"none"}
    BY <1>4 DEF Retain!NextModel, Retain!NextTable, Retain!Tables
  <2> QED
    BY <1>4, <2>1, CleanupHoursAligned DEF Retain!NextModel
<1>5. CASE Retain!Abort
  BY <1>5 DEF Retain!Abort
<1> QED
  BY <1>1, <1>2, <1>3, <1>4, <1>5, StepOfCompactor DEF RetentionStep, Retain!Run

\* So it holds always.
LEMMA PipelineRetention == PipelineSpec => []RetentionInv
<1>1. PipelineInit => RetentionInv
  BY DEF PipelineInit, Retain!Init, RetentionInv, HoursAligned
<1> QED
  BY <1>1, RetentionInvStep, PipelineTypes, PTL DEF PipelineSpec

-----------------------------------------------------------------------------
(***************************************************************************)
(* Nothing that is still needed is deleted.                                *)
(***************************************************************************)

KeepsUnprocessed ==
    \A r \in readings :
        /\ ~r.processed => \E s \in readings' : s.pk = r.pk
        /\ \E s \in readings' : HourStart(s.at) = HourStart(r.at)

\* The hour that is cleaned keeps its first reading.
LEMMA CleaningKeepsUnprocessed ==
    ASSUME TypeOK, RetentionInv, Retain!CleanHour
    PROVE  KeepsUnprocessed
<1>1. CASE cleaning # "readings"
  BY <1>1 DEF Retain!CleanHour, Retain!Delete, KeepsUnprocessed
<1>2. CASE cleaning = "readings"
  <2>1. PICK h \in hours : \E first, last \in Retain!InHour(cleaning, h) :
                Retain!Delete(cleaning, Retain!InHour(cleaning, h) \ {first, last})
    BY DEF Retain!CleanHour
  <2>2. PICK first \in Retain!InHour(cleaning, h) :
            \E last : readings' = readings \ (Retain!InHour(cleaning, h) \ {first, last})
    BY <1>2, <2>1 DEF Retain!Delete
  <2>3. PICK k \in Int : h = N * k
    BY DEF RetentionInv, HoursAligned
  <2>4. ASSUME NEW r \in Retain!InHour(cleaning, h)
        PROVE  r \in readings /\ r.processed /\ HourStart(r.at) = h
    <3>1. r \in readings /\ r.processed /\ r.at >= h /\ r.at < h + N
      BY <1>2 DEF Retain!InHour, Retain!Items, Retain!Stamp, N, Retain!TicksPerHour, TicksPerHour
    <3>2. r.at \in Int /\ h \in Int /\ N \in Int
      BY <2>3, <3>1, MeterTimeAssumption DEF TypeOK, Reading, N, TicksPerHour
    <3> QED
      BY <2>3, <3>1, <3>2, HourIsUnique
  <2>5. first \in readings'
    BY <2>2, <2>4
  <2>6. ASSUME NEW r \in readings
        PROVE  /\ ~r.processed => \E s \in readings' : s.pk = r.pk
               /\ \E s \in readings' : HourStart(s.at) = HourStart(r.at)
    <3>1. CASE r \in readings'
      BY <3>1
    <3>2. CASE r \notin readings'
      BY <2>2, <2>4, <2>5, <3>2
    <3> QED
      BY <3>1, <3>2
  <2> QED
    BY <2>6 DEF KeepsUnprocessed
<1> QED
  BY <1>1, <1>2

\* Retention deletes no reading that was not compacted, and of no hour with
\* readings the last one (run Pipeline, RetentionKeepsUnprocessed).
THEOREM UnprocessedIsKept == PipelineSpec => RetentionKeepsUnprocessed
<1>1. TypeOK /\ RetentionInv /\ [PipelineNext]_allVars => [KeepsUnprocessed]_allVars
  <2> SUFFICES ASSUME TypeOK, RetentionInv, [PipelineNext]_allVars PROVE KeepsUnprocessed
    OBVIOUS
  <2>1. CASE readings \subseteq readings'
    BY <2>1 DEF KeepsUnprocessed
  <2>2. CASE MarkProcessed
    <3>1. readings' = (readings \ {current}) \union {Done(current)}
      BY <2>2 DEF MarkProcessed
    <3>2. Done(current).pk = current.pk /\ Done(current).at = current.at
      BY DEF Done
    <3> QED
      BY <3>1, <3>2 DEF KeepsUnprocessed
  <2>3. CASE Retain!CleanHour
    BY <2>3, CleaningKeepsUnprocessed
  <2> QED
    BY <2>1, <2>2, <2>3, StepOfCompactor
       DEF RetentionStep, Retain!Run, Retain!Start, Retain!NextModel, Retain!Abort, Next, Pass, Tick,
           Receive, Create, Insert, ChangeGrouping, StartPass, Compact, NotReady,
           CompactElectricity, CompactGas, Crash, vars, dbVars
<1> QED
  BY <1>1, PipelineTypes, PipelineRetention, PTL DEF PipelineSpec, RetentionKeepsUnprocessed, KeepsUnprocessed

-----------------------------------------------------------------------------
(***************************************************************************)
(* Closing a day. By minute the latest reading is never compacted, as      *)
(* nothing newer exists: it holds its day open, and every day after it.    *)
(***************************************************************************)

InProgress == pc \in {"electricity", "gas", "processed"}

LatestWaits == meterTime # -1 => \E r \in readings : r.at = meterTime /\ ~r.processed

ClosedInv ==
    /\ mode = grouping
    /\ inTime = sent
    /\ LatestWaits
    /\ \A r \in readings : r.at <= meterTime
    /\ \A e \in electricity : e.readAt <= meterTime
    /\ InProgress => MinuteEnd(current.at) <= meterTime
    /\ \A d \in Stats!DaysWithStats : d \in Int /\ d < DayOf(meterTime)

\* Days follow moments.
LEMMA DaysFollowMoments ==
    ASSUME NEW s \in Int, NEW t \in Int, s <= t
    PROVE  DayOf(s) \in Int /\ DayOf(t) \in Int /\ DayOf(s) <= DayOf(t)
<1> DEFINE n == TicksPerDay
           p == s \div n
           q == t \div n
<1>1. n \in Nat \ {0}
  BY MeterTimeAssumption DEF TicksPerDay, TicksPerHour
<1>2. p \in Int /\ q \in Int /\ n * p <= s /\ t < n * (q + 1)
  BY <1>1
<1>3. p = DayOf(s) /\ q = DayOf(t)
  BY DEF DayOf
<1> HIDE DEF n, p, q
<1>4. n * p < n * (q + 1)
  BY <1>1, <1>2
<1>5. p <= q
  BY <1>1, <1>2, <1>4
<1> QED
  BY <1>2, <1>3, <1>5

\* A telegram is of a later day than those that are closed.
LEMMA TelegramKeepsClosed ==
    ASSUME TypeOK, ClosedInv, Telegram
    PROVE  ClosedInv'
<1>1. PICK t \in Ticks : /\ Receive(t)
                         /\ sent' = sent \union {t}
                         /\ inTime' = IF DayOf(t) \in Stats!DaysWithStats THEN inTime ELSE inTime \union {t}
                         /\ UNCHANGED statsVars
  BY PipelineAssumption DEF Telegram
<1>2. PICK g : Insert(t, g) /\ meterTime' = t /\ t > meterTime
  BY <1>1 DEF Receive
<1>3. t \in Nat /\ meterTime \in Int
  BY CompactorAssumption DEF Ticks, TypeOK
<1>4. /\ readings' = readings \union {[pk |-> nextPk, at |-> t, gasAt |-> g, processed |-> FALSE]}
      /\ UNCHANGED <<electricity, grouping, pc, current, mode>>
  BY <1>2 DEF Insert, passVars
<1>5. Stats!DaysWithStats' = Stats!DaysWithStats
  BY <1>1 DEF statsVars, Stats!DaysWithStats
<1>6. DayOf(meterTime) \in Int /\ DayOf(t) \in Int /\ DayOf(meterTime) <= DayOf(t)
  BY <1>2, <1>3, DaysFollowMoments
<1>7. \A d \in Stats!DaysWithStats : d \in Int /\ d < DayOf(t)
  BY <1>6 DEF ClosedInv
<1>8. inTime' = sent'
  BY <1>1, <1>6, <1>7 DEF ClosedInv
<1>9. LatestWaits'
  <2> DEFINE new == [pk |-> nextPk, at |-> t, gasAt |-> g, processed |-> FALSE]
  <2>1. new \in readings' /\ new.at = meterTime' /\ ~new.processed
    BY <1>2, <1>4
  <2> QED
    BY <2>1 DEF LatestWaits
<1>10. /\ \A r \in readings' : r.at <= meterTime'
       /\ \A e \in electricity' : e.readAt <= meterTime'
  BY <1>2, <1>3, <1>4 DEF ClosedInv, TypeOK, Reading, ElectricityRow
<1>11. InProgress' => MinuteEnd(current'.at) <= meterTime'
  <2>1. InProgress => current.at \in Nat
    BY DEF InProgress, TypeOK, Reading
  <2> QED
    BY <1>2, <1>3, <1>4, <2>1, MinuteBounds DEF ClosedInv, InProgress
<1> QED
  BY <1>2, <1>4, <1>5, <1>7, <1>8, <1>9, <1>10, <1>11 DEF ClosedInv

\* The compactor stores no minute before it is over, and marks no reading of a
\* minute that is not.
LEMMA PassKeepsClosed ==
    ASSUME TypeOK, ClosedInv, grouping = ByMinute, Pass,
           UNCHANGED <<statsVars, historyVars>>
    PROVE  ClosedInv'
<1>1. Stats!DaysWithStats' = Stats!DaysWithStats /\ inTime' = sent'
  BY DEF statsVars, historyVars, Stats!DaysWithStats, ClosedInv
<1> USE DEF ClosedInv, InProgress, LatestWaits
<1>2. CASE StartPass
  BY <1>1, <1>2 DEF StartPass, meterVars, dbVars, TypeOK
<1>3. ASSUME NEW r \in batch, NotReady(r) PROVE ClosedInv'
  BY <1>1, <1>3 DEF NotReady, meterVars, dbVars
<1>4. ASSUME NEW r \in batch, Compact(r) PROVE ClosedInv'
  <2>1. r.at \in Nat /\ MinuteEnd(r.at) \in Nat
    BY MinuteBounds DEF TypeOK, Reading
  <2>2. PICK s \in readings : s.at >= MinuteEnd(r.at)
    BY <1>4 DEF Compact, Ready, NewerReadingExists
  <2>3. s.at \in Nat /\ s.at <= meterTime /\ meterTime \in Int
    BY DEF TypeOK, Reading
  <2>4. MinuteEnd(r.at) <= meterTime
    BY <2>1, <2>2, <2>3
  <2> QED
    BY <1>1, <1>4, <2>4 DEF Compact, meterVars, dbVars
<1>5. CASE CompactElectricity
  <2>1. \A e \in electricity' : e \in electricity \/ e.readAt = MinuteEnd(current.at)
    <3>1. CASE UNCHANGED electricity
      BY <3>1
    <3>2. CASE ~(UNCHANGED electricity)
      <4>1. PICK s : electricity' = electricity \union {[readAt |-> RowKey(current, mode), last |-> s.at]}
        BY <1>5, <3>2 DEF CompactElectricity
      <4> QED
        BY <4>1 DEF RowKey
    <3> QED
      BY <3>1, <3>2
  <2>2. MinuteEnd(current.at) <= meterTime
    BY <1>5 DEF CompactElectricity
  <2> QED
    BY <1>1, <1>5, <2>1, <2>2 DEF CompactElectricity, meterVars
<1>6. CASE CompactGas
  BY <1>1, <1>6 DEF CompactGas, meterVars
<1>7. CASE MarkProcessed
  <2>1. /\ readings' = (readings \ {current}) \union {Done(current)}
        /\ UNCHANGED <<meterTime, electricity, grouping, mode>>
        /\ pc' \in {"idle", "next"}
    BY <1>7 DEF MarkProcessed, meterVars
  <2>2. current \in readings /\ current.at \in Nat /\ MinuteEnd(current.at) <= meterTime
    BY <1>7 DEF MarkProcessed, TypeOK, Reading
  <2>3. current.at < meterTime
    BY <2>2, MinuteBounds DEF TypeOK
  <2>4. LatestWaits'
    BY <2>1, <2>2, <2>3
  <2>5. \A r \in readings' : r.at <= meterTime'
    BY <2>1, <2>2 DEF Done
  <2> QED
    BY <1>1, <2>1, <2>4, <2>5
<1> QED
  BY <1>2, <1>3, <1>4, <1>5, <1>6, <1>7 DEF Pass

\* A day is closed when the latest reading is of a later one.
LEMMA StatisticsKeepClosed ==
    ASSUME TypeOK, ClosedInv, RunStatistics
    PROVE  ClosedInv'
<1> DEFINE d == Stats!NextDay
<1>1. /\ Stats!AllProcessed(d) /\ Stats!HasConsumption(d) /\ Stats!CreateStatistics(d)
      /\ UNCHANGED vars /\ UNCHANGED historyVars
  BY DEF RunStatistics, Stats!Generate
<1>2. Stats!DaysWithStats' = Stats!DaysWithStats \union {d}
  <2>1. \A hs : Stats!DayStatistics(d, hs).day = d
    BY DEF Stats!DayStatistics
  <2> HIDE DEF d
  <2> QED
    BY <1>1, <2>1 DEF Stats!CreateStatistics, Stats!DaysWithStats
<1> HIDE DEF d
<1>3. \A t \in Int : Stats!DayOf(t) = DayOf(t)
  BY DEF Stats!DayOf, DayOf, Stats!TicksPerDay, TicksPerDay, Stats!TicksPerHour, TicksPerHour
<1>4. PICK e \in electricity : DayOf(e.readAt) = d /\ e.readAt \in Nat /\ e.readAt <= meterTime
  BY <1>1, <1>3 DEF Stats!HasConsumption, ClosedInv, TypeOK, ElectricityRow
<1>5. meterTime \in Int /\ meterTime # -1
  BY <1>4 DEF TypeOK
<1>6. d \in Int /\ DayOf(meterTime) \in Int /\ d <= DayOf(meterTime)
  BY <1>4, <1>5, DaysFollowMoments
<1>7. DayOf(meterTime) # d
  BY <1>1, <1>3, <1>5 DEF Stats!AllProcessed, ClosedInv, LatestWaits
<1> QED
  BY <1>1, <1>2, <1>6, <1>7 DEF ClosedInv, LatestWaits, InProgress, vars, historyVars

\* Every step of the pipeline keeps that, and the grouping.
LEMMA ClosedStep ==
    ASSUME TypeOK, grouping = ByMinute => ClosedInv, [PipelineNext]_allVars
    PROVE  (grouping = ByMinute => ClosedInv)'
<1>1. SUFFICES ASSUME grouping = ByMinute, ClosedInv PROVE ClosedInv'
  <2>1. grouping' = grouping
    BY DEF PipelineNext, Telegram, TimePasses, RunCompactor, RunRetention, RunStatistics, BackendDies,
           allVars, vars, Receive, Insert, Tick, Pass, StartPass, Compact, NotReady,
           CompactElectricity, CompactGas, MarkProcessed, Crash
  <2> QED
    BY <2>1
<1>2. CASE Telegram
  BY <1>1, <1>2, TelegramKeepsClosed
<1>3. CASE RunCompactor
  BY <1>1, <1>3, PassKeepsClosed DEF RunCompactor
<1>4. CASE RunStatistics
  BY <1>1, <1>4, StatisticsKeepClosed
<1>5. CASE RetentionStep /\ UNCHANGED <<meterVars, grouping, passVars, statsVars, historyVars>>
  BY <1>1, <1>5, RetentionDeletes
     DEF ClosedInv, LatestWaits, InProgress, meterVars, passVars, statsVars, historyVars, Stats!DaysWithStats
<1>6. CASE TimePasses \/ (Crash /\ UNCHANGED <<retentionVars, statsVars, historyVars>>) \/ UNCHANGED allVars
  BY <1>1, <1>6
     DEF TimePasses, Tick, Crash, ClosedInv, LatestWaits, InProgress, meterVars, dbVars, passVars,
         statsVars, historyVars, allVars, vars, Stats!DaysWithStats
<1>7. CASE RunRetention
  BY <1>5, <1>7 DEF RunRetention, RetentionStep
<1>8. CASE Retain!Abort /\ UNCHANGED <<meterVars, grouping, passVars, nextPk, statsVars, historyVars>>
  BY <1>5, <1>8 DEF RetentionStep
<1> QED
  BY <1>2, <1>3, <1>4, <1>6, <1>7, <1>8 DEF PipelineNext, BackendDies

\* By minute no telegram is ever late for its day, whatever its delay and however
\* often the backend dies (run Pipeline, ClosedDaysAreComplete).
THEOREM ClosedDaysComplete == PipelineSpec => []ClosedDaysAreComplete
<1>1. PipelineInit => (grouping = ByMinute => ClosedInv)
  BY DEF PipelineInit, Init, Stats!Init, ClosedInv, LatestWaits, InProgress, Stats!DaysWithStats
<1>2. (grouping = ByMinute => ClosedInv) => ClosedDaysAreComplete
  BY DEF ClosedInv, ClosedDaysAreComplete
<1> QED
  BY <1>1, <1>2, ClosedStep, PipelineTypes, PTL DEF PipelineSpec

-----------------------------------------------------------------------------
(***************************************************************************)
(* Statistics are of the first and the last row of an hour or a day: those *)
(* are what retention keeps.                                               *)
(***************************************************************************)

TablesInv ==
    /\ OneRowPerMoment
    /\ IsFiniteSet(gas)
    /\ \A r \in readings : r.at <= LastTick
    /\ \A e \in electricity : e.readAt <= LastTick + TicksPerMinute

\* Rows are stored at most a minute after the last reading.
LEMMA RowsAreBounded ==
    ASSUME TypeOK, TablesInv, CompactElectricity
    PROVE  \A e \in electricity' : e.readAt <= LastTick + TicksPerMinute
<1>1. current \in readings /\ current.at \in Nat /\ current.at <= LastTick
  BY DEF CompactElectricity, TypeOK, Reading, TablesInv
<1>2. /\ TicksPerMinute \in Nat /\ LastTick \in Nat
      /\ MinuteEnd(current.at) = MinuteStart(current.at) + TicksPerMinute
      /\ MinuteStart(current.at) \in Nat /\ MinuteStart(current.at) <= current.at
  BY <1>1, MinuteBounds, MeterTimeAssumption, CompactorAssumption
<1>3. RowKey(current, mode) <= LastTick + TicksPerMinute
  BY <1>1, <1>2 DEF RowKey
<1>4. CASE UNCHANGED electricity
  BY <1>4 DEF TablesInv
<1>5. CASE ~(UNCHANGED electricity)
  <2>1. PICK s : electricity' = electricity \union {[readAt |-> RowKey(current, mode), last |-> s.at]}
    BY <1>5 DEF CompactElectricity
  <2> QED
    BY <1>3, <2>1 DEF TablesInv
<1> QED
  BY <1>4, <1>5

\* Every step keeps the tables so.
LEMMA TablesStep == TypeOK /\ TablesInv /\ [PipelineNext]_allVars => TablesInv'
<1> SUFFICES ASSUME TypeOK, TablesInv, [PipelineNext]_allVars PROVE TablesInv'
  OBVIOUS
<1>1. CASE RetentionStep
  <2>1. IsFiniteSet(gas')
    BY <1>1, RetentionDeletes, FS_Subset DEF TablesInv
  <2> QED
    BY <1>1, <2>1, RetentionDeletes DEF TablesInv, OneRowPerMoment
<1>2. CASE [Next]_vars
  <2>1. OneRowPerMoment'
    BY <1>2, OneRowStep DEF TablesInv
  <2>2. CASE CompactElectricity
    BY <2>1, <2>2, RowsAreBounded DEF CompactElectricity, TablesInv
  <2>3. CASE CompactGas
    <3>1. gas' = gas \/ \E q : gas' = gas \union {q}
      BY <2>3 DEF CompactGas
    <3>2. IsFiniteSet(gas')
      BY <3>1, FS_AddElement DEF TablesInv
    <3> QED
      BY <2>1, <2>3, <3>2 DEF CompactGas, TablesInv
  <2>4. CASE MarkProcessed
    <3>1. current \in readings /\ Done(current).at = current.at
      BY <2>4 DEF MarkProcessed, TypeOK, Done
    <3> QED
      BY <2>1, <2>4, <3>1 DEF MarkProcessed, TablesInv
  <2>5. ASSUME NEW t \in Ticks, NEW g \in GasStamps(t), Insert(t, g)
        PROVE  TablesInv'
    BY <2>1, <2>5, CompactorAssumption DEF Insert, TablesInv, Ticks
  <2>6. CASE UNCHANGED dbVars
    BY <2>1, <2>6 DEF dbVars, TablesInv
  <2> QED
    BY <1>2, <2>2, <2>3, <2>4, <2>5, <2>6
       DEF Next, Pass, Tick, Receive, Create, ChangeGrouping, StartPass, Compact, NotReady, Crash, vars, dbVars
<1> QED
  BY <1>1, <1>2, StepOfCompactor

\* So they always are.
LEMMA PipelineTables == PipelineSpec => []TablesInv
<1>1. PipelineInit => TablesInv
  BY FS_EmptySet DEF PipelineInit, Init, TablesInv, OneRowPerMoment
<1> QED
  BY <1>1, TablesStep, PipelineTypes, PTL DEF PipelineSpec

IsEnds(rows, first, last) ==
    /\ first \in rows /\ last \in rows
    /\ \A y \in rows : first.readAt <= y.readAt /\ y.readAt <= last.readAt

Apart(rows) == \A x, y \in rows : x.readAt \in Int /\ (x.readAt = y.readAt => x = y)

\* The first and the last of rows at different moments.
LEMMA EndsAreChosen ==
    ASSUME NEW rows, NEW first, NEW last, Apart(rows), IsEnds(rows, first, last)
    PROVE  Stats!First(rows) = first /\ Stats!Last(rows) = last
<1>1. /\ \A x \in rows : (\A y \in rows : x.readAt <= y.readAt) <=> x = first
      /\ \A x \in rows : (\A y \in rows : x.readAt >= y.readAt) <=> x = last
  BY DEF Apart, IsEnds
<1> QED
  BY <1>1 DEF IsEnds, Stats!First, Stats!Last

\* Some of the rows, with both ends, have the same ends.
LEMMA SameEnds ==
    ASSUME NEW rows, NEW some \in SUBSET rows, NEW first \in some, NEW last \in some,
           Apart(rows), IsEnds(rows, first, last)
    PROVE  Stats!First(some) = Stats!First(rows) /\ Stats!Last(some) = Stats!Last(rows)
<1>1. Apart(some) /\ IsEnds(some, first, last)
  BY DEF Apart, IsEnds
<1> QED
  BY <1>1, EndsAreChosen

\* A bounded table has ends.
LEMMA BoundedEndsExist ==
    ASSUME NEW m \in Int, NEW n \in Nat, NEW rows, rows # {},
           \A x \in rows : x.readAt \in Int /\ x.readAt + m \in 0..n
    PROVE  \E first, last \in rows : IsEnds(rows, first, last)
<1> DEFINE S == {x.readAt + m : x \in rows}
<1>1. S \subseteq 0..n /\ S \subseteq Nat /\ S # {}
  OBVIOUS
<1>2. PICK a \in S : \A y \in S : a <= y
  <2> HIDE DEF S
  <2> QED
    BY <1>1, LeastExists
<1>3. PICK b \in S : \A y \in S : b >= y
  <2> HIDE DEF S
  <2> QED
    BY <1>1, MaxIsGreatest
<1>4. PICK first \in rows, last \in rows : first.readAt + m = a /\ last.readAt + m = b
  BY <1>2, <1>3
<1>5. \A y \in rows : y.readAt + m \in S /\ y.readAt \in Int
  OBVIOUS
<1>6. \A y \in rows : first.readAt <= y.readAt /\ y.readAt <= last.readAt
  <2> HIDE DEF S
  <2> QED
    BY <1>1, <1>2, <1>3, <1>4, <1>5
<1> QED
  BY <1>4, <1>6 DEF IsEnds

\* And so has a table of moments.
LEMMA EndsExist ==
    ASSUME NEW n \in Nat, NEW rows, rows # {}, \A x \in rows : x.readAt \in 0..n
    PROVE  \E first, last \in rows : IsEnds(rows, first, last)
<1>1. 0 \in Int /\ \A x \in rows : x.readAt \in Int /\ x.readAt + 0 \in 0..n
  OBVIOUS
<1> QED
  BY <1>1, BoundedEndsExist

\* Hours do not cross midnight.
LEMMA HourInDay ==
    ASSUME NEW k \in Int, NEW d \in Int, NEW t \in Int,
           N * k <= t, t < N * k + N, DayStart(d) <= t, t < DayStart(d + 1)
    PROVE  DayStart(d) <= N * k /\ N * k + N <= DayStart(d + 1)
<1> DEFINE H == HoursPerDay
           a == H * d
           b == H * (d + 1)
<1>1. N \in Nat \ {0} /\ H \in Nat \ {0}
  BY MeterTimeAssumption DEF N, TicksPerHour
<1>2. a \in Int /\ b \in Int /\ DayStart(d) = N * a /\ DayStart(d + 1) = N * b
  BY <1>1 DEF DayStart, TicksPerDay, N
<1> HIDE DEF a, b
<1>3. N * a < N * (k + 1) /\ N * k < N * b
  BY <1>1, <1>2
<1>4. a <= k /\ k + 1 <= b
  BY <1>1, <1>2, <1>3
<1>5. N * a <= N * k /\ N * (k + 1) <= N * b
  BY <1>1, <1>2, <1>4
<1> QED
  BY <1>1, <1>2, <1>5

\* The rows of a table that a cleaned hour has, and what is left of them.
Cleans(table, kept, k, first, last) ==
    LET rows == {x \in table : N * k <= x.readAt /\ x.readAt < N * k + N}
    IN  IsEnds(rows, first, last) /\ kept = table \ (rows \ {first, last})

\* What is cleaned, as the statistics see it.
LEMMA CleaningKeepsEnds ==
    ASSUME TypeOK, TablesInv, RetentionInv, Retain!CleanHour
    PROVE  \/ UNCHANGED <<electricity, gas>>
           \/ \E k \in Int :
                  \/ gas' = gas /\ \E first, last : Cleans(electricity, electricity', k, first, last)
                  \/ electricity' = electricity /\ \E first, last : Cleans(gas, gas', k, first, last)
<1>1. CASE cleaning = "readings"
  BY <1>1 DEF Retain!CleanHour, Retain!Delete
<1>2. PICK h \in hours : \E first, last \in Retain!InHour(cleaning, h) :
          /\ Retain!IsFirst(Retain!InHour(cleaning, h), first)
          /\ Retain!IsLast(Retain!InHour(cleaning, h), last)
          /\ Retain!Delete(cleaning, Retain!InHour(cleaning, h) \ {first, last})
  BY DEF Retain!CleanHour
<1>3. PICK k \in Int : h = N * k
  BY DEF RetentionInv, HoursAligned
<1> DEFINE rows == Retain!InHour(cleaning, h)
<1>4. PICK first \in rows, last \in rows :
          /\ Retain!IsFirst(rows, first)
          /\ Retain!IsLast(rows, last)
          /\ Retain!Delete(cleaning, rows \ {first, last})
  BY <1>2
<1>5. ASSUME NEW table, cleaning # "readings", Retain!Items(cleaning) = table,
             \A x \in table : x.readAt \in Int
      PROVE  /\ rows = {x \in table : N * k <= x.readAt /\ x.readAt < N * k + N}
             /\ IsEnds(rows, first, last)
  <2>1. rows = {x \in table : N * k <= x.readAt /\ x.readAt < N * k + N}
    BY <1>3, <1>5, MeterTimeAssumption
       DEF Retain!InHour, Retain!Stamp, Retain!TicksPerHour, TicksPerHour, N
  <2> QED
    BY <1>4, <1>5, <2>1 DEF IsEnds, Retain!IsFirst, Retain!IsLast, Retain!Stamp
<1>6. CASE cleaning = "electricity"
  <2>1. Retain!Items(cleaning) = electricity /\ \A x \in electricity : x.readAt \in Int
    BY <1>6 DEF Retain!Items, TypeOK, ElectricityRow
  <2>2. gas' = gas /\ electricity' = electricity \ (rows \ {first, last})
    BY <1>4, <1>6 DEF Retain!Delete
  <2>3. Cleans(electricity, electricity', k, first, last)
    BY <1>5, <1>6, <2>1, <2>2 DEF Cleans
  <2> QED
    BY <2>2, <2>3
<1>7. CASE cleaning = "gas"
  <2>1. Retain!Items(cleaning) = gas /\ \A x \in gas : x.readAt \in Int
    BY <1>7 DEF Retain!Items, TypeOK, GasRow
  <2>2. electricity' = electricity /\ gas' = gas \ (rows \ {first, last})
    BY <1>4, <1>7 DEF Retain!Delete
  <2>3. Cleans(gas, gas', k, first, last)
    BY <1>5, <1>7, <2>1, <2>2 DEF Cleans
  <2> QED
    BY <2>2, <2>3
<1> QED
  BY <1>1, <1>6, <1>7 DEF RetentionInv, Retain!Tables, Retain!CleanHour

\* A cleaned table has its hours still, with their ends; an hour that lost rows
\* has two of them.
LEMMA HourKept ==
    ASSUME NEW table, NEW kept, Apart(table), NEW k \in Int, NEW first, NEW last,
           Cleans(table, kept, k, first, last), NEW j \in Int,
           NEW R, R = Stats!Within(table, N * j, N * j + N),
           NEW S, S = Stats!Within(kept, N * j, N * j + N)
    PROVE  \/ S = R
           \/ /\ Stats!First(S) = Stats!First(R) /\ Stats!Last(S) = Stats!Last(R)
              /\ \E x, y \in S : x # y
              /\ S \subseteq R
<1> DEFINE rows == {x \in table : N * k <= x.readAt /\ x.readAt < N * k + N}
<1>1. /\ R = {x \in table : N * j <= x.readAt /\ x.readAt < N * j + N}
      /\ S = {x \in kept : N * j <= x.readAt /\ x.readAt < N * j + N}
  BY DEF Stats!Within
<1>2. IsEnds(rows, first, last) /\ kept = table \ (rows \ {first, last})
  BY DEF Cleans
<1>3. CASE N * j = N * k
  <2>1. R = rows
    BY <1>1, <1>3
  <2>2. S = {first, last} /\ S \subseteq rows /\ Apart(rows)
    BY <1>1, <1>2, <1>3 DEF IsEnds, Apart
  <2>3. CASE first = last
    <3>1. \A x \in rows : x.readAt = first.readAt
      BY <1>2, <2>2, <2>3 DEF IsEnds, Apart
    <3>2. rows = {first}
      BY <1>2, <2>2, <3>1 DEF IsEnds, Apart
    <3> QED
      BY <2>1, <2>2, <2>3, <3>2
  <2>4. CASE first # last
    <3>1. Stats!First(S) = Stats!First(R) /\ Stats!Last(S) = Stats!Last(R)
      <4> HIDE DEF rows
      <4> QED
        BY <1>2, <2>1, <2>2, SameEnds
    <3> QED
      BY <2>1, <2>2, <2>4, <3>1
  <2> QED
    BY <2>3, <2>4
<1>4. CASE N * j # N * k
  <2>1. \A x \in rows : x \notin R
    <3> SUFFICES ASSUME NEW x \in rows, x \in R PROVE FALSE
      OBVIOUS
    <3>1. x.readAt \in Int
      BY DEF Apart
    <3>2. HourStart(x.readAt) = N * k /\ HourStart(x.readAt) = N * j
      BY <1>1, <3>1, HourIsUnique
    <3> QED
      BY <1>4, <3>2
  <2> QED
    BY <1>1, <1>2, <2>1
<1> QED
  BY <1>3, <1>4

\* And so it has its days, with their ends.
LEMMA DayKept ==
    ASSUME NEW table, NEW kept, Apart(table), NEW k \in Int, NEW first, NEW last,
           Cleans(table, kept, k, first, last), NEW d \in Int,
           NEW n \in Nat, \A x \in table : x.readAt \in 0..n,
           NEW R, R = Stats!Within(table, DayStart(d), DayStart(d + 1)), R # {},
           NEW S, S = Stats!Within(kept, DayStart(d), DayStart(d + 1))
    PROVE  S # {} /\ Stats!First(S) = Stats!First(R) /\ Stats!Last(S) = Stats!Last(R)
<1> DEFINE rows == {x \in table : N * k <= x.readAt /\ x.readAt < N * k + N}
<1>1. /\ R = {x \in table : DayStart(d) <= x.readAt /\ x.readAt < DayStart(d + 1)}
      /\ S = {x \in kept : DayStart(d) <= x.readAt /\ x.readAt < DayStart(d + 1)}
  BY DEF Stats!Within
<1>2. IsEnds(rows, first, last) /\ kept = table \ (rows \ {first, last})
  BY DEF Cleans
<1>3. PICK f, l \in R : IsEnds(R, f, l)
  BY <1>1, EndsExist
<1>4. /\ N \in Int /\ N * k \in Int
      /\ DayStart(d) \in Int /\ DayStart(d + 1) \in Int
      /\ \A x \in table : x.readAt \in Int
  BY MeterTimeAssumption DEF N, TicksPerHour, TicksPerDay, DayStart, Apart
\* The end of a day in the cleaned hour is an end of that hour.
<1>5. ASSUME NEW e \in R, e \in rows
      PROVE  first \in R /\ last \in R
  <2>1. DayStart(d) <= N * k /\ N * k + N <= DayStart(d + 1)
    BY <1>1, <1>4, <1>5, HourInDay
  <2> QED
    BY <1>1, <1>2, <1>4, <2>1 DEF IsEnds
<1>6. f \in S
  <2>1. ASSUME f \in rows PROVE f = first
    <3>1. f.readAt = first.readAt
      BY <1>1, <1>2, <1>3, <1>4, <1>5, <2>1 DEF IsEnds
    <3> QED
      BY <1>1, <1>2, <2>1, <3>1 DEF IsEnds, Apart
  <2> QED
    BY <1>1, <1>2, <2>1
<1>7. l \in S
  <2>1. ASSUME l \in rows PROVE l = last
    <3>1. l.readAt = last.readAt
      BY <1>1, <1>2, <1>3, <1>4, <1>5, <2>1 DEF IsEnds
    <3> QED
      BY <1>1, <1>2, <2>1, <3>1 DEF IsEnds, Apart
  <2> QED
    BY <1>1, <1>2, <2>1
<1>8. Apart(R) /\ S \subseteq R
  BY <1>1, <1>2 DEF Apart
<1> QED
  BY <1>3, <1>6, <1>7, <1>8, SameEnds

\* The summary of an hour is that of what is left.
LEMMA HourSummaryKept ==
    ASSUME TypeOK, TablesInv, RetentionInv, Retain!CleanHour, NEW h \in Hours
    PROVE  HourSummary(h)' = HourSummary(h)
<1>1. PICK j \in Int : h = N * j
  BY HourBounds, CompactorAssumption DEF Hours, Ticks
<1>2. Apart(electricity) /\ Apart(gas)
  BY DEF TablesInv, OneRowPerMoment, Apart, TypeOK, ElectricityRow, GasRow
<1> DEFINE E == Stats!Within(electricity, N * j, N * j + N)
           G == Stats!Within(gas, N * j, N * j + N)
           newE == Stats!Within(electricity', N * j, N * j + N)
           newG == Stats!Within(gas', N * j, N * j + N)
<1>3. \/ newE = E
      \/ newE # {} /\ E # {} /\ Stats!First(newE) = Stats!First(E) /\ Stats!Last(newE) = Stats!Last(E)
  <2>1. CASE electricity' = electricity
    BY <2>1
  <2>2. ASSUME NEW k \in Int, NEW first, NEW last, Cleans(electricity, electricity', k, first, last)
        PROVE  \/ newE = E
               \/ /\ newE # {} /\ E # {}
                  /\ Stats!First(newE) = Stats!First(E) /\ Stats!Last(newE) = Stats!Last(E)
    <3> HIDE DEF E, newE
    <3>1. \/ newE = E
          \/ /\ Stats!First(newE) = Stats!First(E) /\ Stats!Last(newE) = Stats!Last(E)
             /\ \E x, y \in newE : x # y
             /\ newE \subseteq E
      BY <1>2, <2>2, HourKept DEF E, newE
    <3> QED
      BY <3>1
  <2> QED
    BY <2>1, <2>2, CleaningKeepsEnds
<1>4. Stats!HourGas(newG) = Stats!HourGas(G)
  <2>1. CASE gas' = gas
    BY <2>1
  <2>2. ASSUME NEW k \in Int, NEW first, NEW last, Cleans(gas, gas', k, first, last)
        PROVE  Stats!HourGas(newG) = Stats!HourGas(G)
    <3>1. IsFiniteSet(G)
      <4>1. G \in SUBSET gas
        BY DEF Stats!Within
      <4> QED
        BY <4>1, FS_Subset DEF TablesInv
    <3> HIDE DEF G, newG
    <3>2. \/ newG = G
          \/ /\ Stats!First(newG) = Stats!First(G) /\ Stats!Last(newG) = Stats!Last(G)
             /\ \E x, y \in newG : x # y
             /\ newG \subseteq G
      BY <1>2, <2>2, HourKept DEF G, newG
    <3>3. CASE newG # G
      <4>1. \A T : T \in {G, newG} => T # {} /\ IsFiniteSet(T) /\ ~\E x : T = {x}
        BY <3>1, <3>2, <3>3, FS_Subset
      <4>2. Cardinality(G) # 1 /\ Cardinality(newG) # 1
        BY <4>1, FS_Singleton
      <4>3. Stats!Cardinality(G) # 1 /\ Stats!Cardinality(newG) # 1
        BY <4>2 DEF Cardinality, Stats!Cardinality
      <4> QED
        BY <3>2, <3>3, <4>1, <4>3 DEF Stats!HourGas
    <3> QED
      BY <3>3
  <2> QED
    BY <2>1, <2>2, CleaningKeepsEnds
<1>5. /\ Stats!HourElectricity(newE) = Stats!HourElectricity(E)
      /\ newE = {} <=> E = {}
  <2> HIDE DEF E, newE
  <2> QED
    BY <1>3 DEF Stats!HourElectricity
<1>6. Stats!TicksPerHour = N
  BY DEF Stats!TicksPerHour, N, TicksPerHour
<1>7. /\ HourSummary(h) = IF E = {} THEN <<>> ELSE
              <<[hour |-> h, electricity |-> Stats!HourElectricity(E), gas |-> Stats!HourGas(G)]>>
      /\ HourSummary(h)' = IF newE = {} THEN <<>> ELSE
              <<[hour |-> h, electricity |-> Stats!HourElectricity(newE), gas |-> Stats!HourGas(newG)]>>
  BY <1>1, <1>6 DEF HourSummary, Stats!HourStatistics, N
<1> HIDE DEF E, G, newE, newG
<1> QED
  BY <1>4, <1>5, <1>7

\* And so is that of a day.
LEMMA DaySummaryKept ==
    ASSUME TypeOK, TablesInv, RetentionInv, Retain!CleanHour, NEW d \in Days
    PROVE  DaySummary(d)' = DaySummary(d)
<1>1. d \in Int
  BY DaysFollowMoments, CompactorAssumption DEF Days, Ticks
<1> DEFINE E == Stats!Within(electricity, DayStart(d), DayStart(d + 1))
           newE == Stats!Within(electricity', DayStart(d), DayStart(d + 1))
<1>2. CASE electricity' = electricity
  BY <1>2 DEF DaySummary
<1>3. ASSUME NEW k \in Int, NEW first, NEW last, Cleans(electricity, electricity', k, first, last)
      PROVE  DaySummary(d)' = DaySummary(d)
  <2>1. Apart(electricity)
    BY DEF TablesInv, OneRowPerMoment, Apart, TypeOK, ElectricityRow
  <2>2. LastTick + TicksPerMinute \in Nat /\ \A x \in electricity : x.readAt \in 0..(LastTick + TicksPerMinute)
    BY CompactorAssumption, MeterTimeAssumption DEF TypeOK, ElectricityRow, TablesInv
  <2>3. newE \subseteq E
    BY <1>3 DEF Cleans, Stats!Within
  <2>4. DaySummary(d) = IF E = {} THEN <<>> ELSE <<Stats!HourElectricity(E)>>
    BY DEF DaySummary
  <2>5. DaySummary(d)' = IF newE = {} THEN <<>> ELSE <<Stats!HourElectricity(newE)>>
    BY DEF DaySummary
  <2>6. E # {} => newE # {} /\ Stats!First(newE) = Stats!First(E) /\ Stats!Last(newE) = Stats!Last(E)
    <3> HIDE DEF E, newE
    <3> QED
      BY <1>1, <1>3, <2>1, <2>2, DayKept DEF E, newE
  <2> HIDE DEF E, newE
  <2> QED
    BY <2>3, <2>4, <2>5, <2>6 DEF Stats!HourElectricity
<1> QED
  BY <1>2, <1>3, CleaningKeepsEnds

SummariesKept ==
    /\ \A h \in Hours : HourSummary(h)' = HourSummary(h)
    /\ \A d \in Days : DaySummary(d)' = DaySummary(d)

\* Whatever retention deletes, however its runs are cut short, the statistics of
\* every hour and every day come out the same before and after (run Pipeline,
\* RetentionKeepsStatistics).
THEOREM StatisticsAreKept == PipelineSpec => RetentionKeepsStatistics
<1>1. TypeOK /\ TablesInv /\ RetentionInv /\ [PipelineNext]_allVars
          => [cleaning # "none" => SummariesKept]_allVars
  <2> SUFFICES ASSUME TypeOK, TablesInv, RetentionInv, [PipelineNext]_allVars, cleaning # "none"
               PROVE  SummariesKept
    OBVIOUS
  <2>1. CASE Retain!CleanHour
    BY <2>1, HourSummaryKept, DaySummaryKept DEF SummariesKept
  <2>2. CASE UNCHANGED <<electricity, gas>>
    BY <2>2 DEF SummariesKept, HourSummary, DaySummary, Stats!HourStatistics
  <2> QED
    BY <2>1, <2>2
       DEF PipelineNext, Telegram, Receive, Insert, TimePasses, Tick, RunCompactor, RunRetention, Retain!Run,
           Retain!Start, Retain!NextModel, RunStatistics, BackendIdle, BackendDies, Crash, Retain!Abort,
           allVars, vars, dbVars
<1> QED
  BY <1>1, PipelineTypes, PipelineTables, PipelineRetention, PTL
     DEF PipelineSpec, RetentionKeepsStatistics, SummariesKept

-----------------------------------------------------------------------------
(***************************************************************************)
(* Days and their order.                                                   *)
(***************************************************************************)

\* A day is a stretch of moments.
LEMMA DayBounds ==
    ASSUME NEW t \in Int
    PROVE  /\ DayOf(t) \in Int /\ DayStart(DayOf(t)) \in Int /\ DayStart(DayOf(t) + 1) \in Int
           /\ DayStart(DayOf(t)) <= t /\ t < DayStart(DayOf(t) + 1)
<1> DEFINE n == TicksPerDay
           q == t \div n
<1>1. n \in Nat \ {0}
  BY MeterTimeAssumption DEF TicksPerDay, TicksPerHour
<1>2. q \in Int /\ n * q <= t /\ t < n * (q + 1)
  BY <1>1
<1>3. DayOf(t) = q /\ DayStart(q) = n * q /\ DayStart(q + 1) = n * (q + 1)
  BY <1>1 DEF DayOf, DayStart
<1> HIDE DEF n, q
<1> QED
  BY <1>1, <1>2, <1>3

\* Midnights follow each other.
LEMMA MidnightsInOrder ==
    ASSUME NEW c \in Int, NEW d \in Int, c <= d
    PROVE  DayStart(c) \in Int /\ DayStart(d) \in Int /\ DayStart(c) <= DayStart(d)
<1>1. TicksPerDay \in Nat \ {0}
  BY MeterTimeAssumption DEF TicksPerDay, TicksPerHour
<1> QED
  BY <1>1 DEF DayStart

\* A moment has one day.
LEMMA DayIsUnique ==
    ASSUME NEW t \in Int, NEW d \in Int, DayStart(d) <= t, t < DayStart(d + 1)
    PROVE  DayOf(t) = d
<1>1. /\ DayOf(t) \in Int /\ DayStart(DayOf(t)) <= t /\ t < DayStart(DayOf(t) + 1)
      /\ DayStart(DayOf(t)) \in Int /\ DayStart(DayOf(t) + 1) \in Int
  BY DayBounds
<1>2. ~(DayOf(t) + 1 <= d)
  BY <1>1, MidnightsInOrder
<1>3. ~(d + 1 <= DayOf(t))
  BY <1>1, MidnightsInOrder
<1> QED
  BY <1>1, <1>2, <1>3

\* Moments of an hour are of a day.
LEMMA HourHasOneDay ==
    ASSUME NEW s \in Int, NEW t \in Int, HourStart(s) = HourStart(t)
    PROVE  DayOf(s) = DayOf(t)
<1>1. PICK k \in Int : HourStart(s) = N * k /\ N * k <= s /\ s < N * k + N
  BY HourBounds
<1>2. PICK j \in Int : HourStart(t) = N * j /\ N * j <= t /\ t < N * j + N
  BY HourBounds
<1>3. N * k <= t /\ t < N * k + N
  BY <1>1, <1>2
<1>4. DayOf(s) \in Int /\ DayStart(DayOf(s)) <= N * k /\ N * k + N <= DayStart(DayOf(s) + 1)
  BY <1>1, DayBounds, HourInDay
<1>5. N * k \in Int /\ N * k + N \in Int /\ DayStart(DayOf(s)) \in Int /\ DayStart(DayOf(s) + 1) \in Int
  BY DayBounds, MeterTimeAssumption DEF N, TicksPerHour
<1>6. DayStart(DayOf(s)) <= t /\ t < DayStart(DayOf(s) + 1)
  BY <1>3, <1>4, <1>5
<1> QED
  BY <1>4, <1>6, DayIsUnique

\* The statistics count days alike.
LEMMA SameDays == \A t : Stats!DayOf(t) = DayOf(t) /\ Stats!DayStart(t) = DayStart(t)
BY DEF Stats!DayOf, DayOf, Stats!DayStart, DayStart, Stats!TicksPerDay, TicksPerDay,
       Stats!TicksPerHour, TicksPerHour

\* Later readings have later rows, or the same one.
LEMMA RowsInOrder ==
    ASSUME NEW r, NEW s, r.at \in Nat, s.at \in Nat, r.at <= s.at, NEW g
    PROVE  /\ RowKey(r, g) \in Nat /\ RowKey(s, g) \in Nat
           /\ RowKey(r, g) <= RowKey(s, g) /\ r.at <= RowKey(r, g)
<1>1. /\ MinuteStart(r.at) \in Nat /\ MinuteStart(s.at) \in Nat
      /\ MinuteStart(r.at) <= MinuteStart(s.at)
  BY FloorMonotone, MeterTimeAssumption DEF MinuteStart
<1>2. MinuteEnd(r.at) \in Nat /\ r.at < MinuteEnd(r.at) /\ MinuteEnd(s.at) \in Nat
  BY MinuteBounds
<1>3. MinuteEnd(r.at) <= MinuteEnd(s.at)
  BY <1>1, MeterTimeAssumption DEF MinuteEnd
<1> QED
  BY <1>2, <1>3 DEF RowKey

-----------------------------------------------------------------------------
(***************************************************************************)
(* What becomes of a telegram: it waits as a reading, or it has a row, or, *)
(* when that was deleted, rows of its hour on both sides.                  *)
(***************************************************************************)

\* The moment of a telegram's row.
RowOf(t) == IF grouping = ByMinute THEN MinuteEnd(t) ELSE t

Traced(k) ==
    /\ \E e \in electricity : e.readAt <= k /\ HourStart(e.readAt) = HourStart(k)
    /\ \E e \in electricity : k <= e.readAt /\ HourStart(e.readAt) = HourStart(k)

TraceInv ==
    /\ mode = grouping
    /\ InOrder
    /\ \A e \in electricity : e.readAt <= meterTime
    /\ \A e \in electricity, r \in Unprocessed : e.readAt <= RowKey(r, grouping)
    /\ InProgress => RowKey(current, mode) <= meterTime
    /\ pc \in {"gas", "processed"} => HasRow(electricity, RowKey(current, mode))
    /\ sent \subseteq Ticks
    /\ \A r \in readings : r.at \in sent
    /\ \A t \in sent : (\E r \in Unprocessed : r.at = t) \/ Traced(RowOf(t))
    /\ grouping = ByReading => \A e \in electricity : e.last = e.readAt /\ e.readAt \in sent

\* Retention keeps the traces.
LEMMA TraceKept ==
    ASSUME TypeOK, TablesInv, RetentionInv, Retain!CleanHour, NEW k \in Int, Traced(k)
    PROVE  Traced(k)'
<1>1. CASE electricity' = electricity
  BY <1>1 DEF Traced
<1>2. ASSUME NEW j \in Int, NEW first, NEW last, Cleans(electricity, electricity', j, first, last)
      PROVE  Traced(k)'
  <2> DEFINE rows == {x \in electricity : N * j <= x.readAt /\ x.readAt < N * j + N}
  <2>1. /\ first \in rows /\ last \in rows
        /\ \A y \in rows : first.readAt <= y.readAt /\ y.readAt <= last.readAt
        /\ electricity' = electricity \ (rows \ {first, last})
    BY <1>2 DEF Cleans, IsEnds
  <2>2. \A x \in electricity : x.readAt \in Int
    BY DEF TypeOK, ElectricityRow
  <2>3. \A x \in rows : HourStart(x.readAt) = N * j
    BY <2>2, HourIsUnique
  <2>4. first \in electricity' /\ last \in electricity'
    BY <2>1
  <2>5. \E e \in electricity' : e.readAt <= k /\ HourStart(e.readAt) = HourStart(k)
    <3> PICK e \in electricity : e.readAt <= k /\ HourStart(e.readAt) = HourStart(k)
      BY DEF Traced
    <3>1. CASE e \in electricity'
      BY <3>1
    <3>2. CASE e \notin electricity'
      <4>1. e \in rows
        BY <2>1, <3>2
      <4>2. first.readAt <= k /\ HourStart(first.readAt) = HourStart(k)
        BY <2>1, <2>2, <2>3, <4>1
      <4> QED
        BY <2>4, <4>2
    <3> QED
      BY <3>1, <3>2
  <2>6. \E e \in electricity' : k <= e.readAt /\ HourStart(e.readAt) = HourStart(k)
    <3> PICK e \in electricity : k <= e.readAt /\ HourStart(e.readAt) = HourStart(k)
      BY DEF Traced
    <3>1. CASE e \in electricity'
      BY <3>1
    <3>2. CASE e \notin electricity'
      <4>1. e \in rows
        BY <2>1, <3>2
      <4>2. k <= last.readAt /\ HourStart(last.readAt) = HourStart(k)
        BY <2>1, <2>2, <2>3, <4>1
      <4> QED
        BY <2>4, <4>2
    <3> QED
      BY <3>1, <3>2
  <2> QED
    BY <2>5, <2>6 DEF Traced
<1> QED
  BY <1>1, <1>2, CleaningKeepsEnds

\* A row of the moment is a trace of it.
LEMMA RowIsTrace ==
    ASSUME TypeOK, NEW k, HasRow(electricity, k)
    PROVE  Traced(k)
BY DEF HasRow, Traced, TypeOK, ElectricityRow

\* A telegram waits at first.
LEMMA TelegramIsTraced ==
    ASSUME TypeOK, TraceInv, InOrder', Telegram
    PROVE  TraceInv'
<1>1. PICK t \in Ticks : Receive(t) /\ sent' = sent \union {t}
  BY PipelineAssumption DEF Telegram
<1>2. PICK g : Insert(t, g) /\ meterTime' = t /\ t > meterTime
  BY <1>1 DEF Receive
<1>3. t \in Nat /\ meterTime \in Int
  BY CompactorAssumption DEF Ticks, TypeOK
<1>4. PICK new : new = [pk |-> nextPk, at |-> t, gasAt |-> g, processed |-> FALSE]
  OBVIOUS
<1>5. /\ readings' = readings \union {new} /\ new.at = t /\ ~new.processed
      /\ UNCHANGED <<electricity, grouping, pc, current, mode>>
  BY <1>2, <1>4 DEF Insert, passVars
<1>6. Unprocessed' = Unprocessed \union {new}
  BY <1>5 DEF Unprocessed
<1>7. \A e \in electricity : e.readAt \in Nat /\ e.readAt <= meterTime
  BY DEF TypeOK, ElectricityRow, TraceInv
<1>8. t <= RowKey(new, grouping) /\ RowKey(new, grouping) \in Nat
  BY <1>3, <1>5, RowsInOrder
<1>9. \A e \in electricity', r \in Unprocessed' : e.readAt <= RowKey(r, grouping)'
  <2>1. \A e \in electricity : e.readAt <= RowKey(new, grouping)
    BY <1>2, <1>3, <1>7, <1>8
  <2> QED
    BY <1>5, <1>6, <2>1 DEF TraceInv, RowKey
<1>10. (InProgress => RowKey(current, mode) <= meterTime)'
  <2>1. InProgress => RowKey(current, mode) \in Nat
    BY RowsInOrder DEF InProgress, TypeOK, Reading
  <2> QED
    BY <1>2, <1>3, <1>5, <2>1 DEF TraceInv, InProgress, RowKey
<1>11. \A u \in sent' : (\E r \in Unprocessed' : r.at = u) \/ Traced(RowOf(u))'
  BY <1>1, <1>5, <1>6 DEF TraceInv, Traced, RowOf
<1> QED
  BY <1>1, <1>2, <1>3, <1>5, <1>7, <1>9, <1>10, <1>11 DEF TraceInv, RowKey

\* Compacting leaves a row before it ends the wait.
LEMMA PassKeepsTrace ==
    ASSUME TypeOK, TraceInv, InOrder', Pass, UNCHANGED historyVars
    PROVE  TraceInv'
<1> USE DEF TraceInv, InProgress
<1>1. CASE StartPass
  BY <1>1 DEF StartPass, meterVars, dbVars, historyVars, Unprocessed, Traced, RowOf, RowKey, TypeOK
<1>2. ASSUME NEW r \in batch, NotReady(r) PROVE TraceInv'
  BY <1>2 DEF NotReady, meterVars, dbVars, historyVars, Unprocessed, Traced, RowOf, RowKey
<1>3. ASSUME NEW r \in batch, Compact(r) PROVE TraceInv'
  <2>1. r.at \in Nat /\ MinuteEnd(r.at) \in Nat /\ r.at <= meterTime
    BY MinuteBounds DEF TypeOK, Reading, InOrder
  <2>2. RowKey(r, grouping) <= meterTime
    <3>1. CASE grouping = ByMinute
      <4>1. PICK s \in readings : s.at >= MinuteEnd(r.at)
        BY <1>3, <3>1 DEF Compact, Ready, NewerReadingExists
      <4>2. s.at \in Nat /\ s.at <= meterTime /\ meterTime \in Int
        BY DEF TypeOK, Reading, InOrder
      <4> QED
        BY <2>1, <3>1, <4>1, <4>2 DEF RowKey
    <3>2. CASE grouping # ByMinute
      BY <2>1, <3>2 DEF RowKey
    <3> QED
      BY <3>1, <3>2
  <2>3. RowKey(current, mode)' = RowKey(r, grouping)
    BY <1>3 DEF Compact, RowKey
  <2> QED
    BY <1>3, <2>2, <2>3
       DEF Compact, meterVars, dbVars, historyVars, Unprocessed, Traced, RowOf, RowKey
<1>4. CASE CompactElectricity
  <2>1. /\ UNCHANGED <<meterTime, readings, grouping, current, mode, sent>>
        /\ pc = "electricity" /\ pc' = "gas"
    BY <1>4 DEF CompactElectricity, meterVars, historyVars
  <2>2. current \in Unprocessed /\ current.at \in Nat
    BY <2>1 DEF TypeOK, Unprocessed, Reading
  <2>3. \A r \in Unprocessed : r.at \in Nat /\ RowKey(current, mode) <= RowKey(r, mode)
    BY <2>1, <2>2, RowsInOrder DEF InOrder, TypeOK, Unprocessed, Reading
  <2>4. CASE UNCHANGED electricity
    <3>1. HasRow(electricity, RowKey(current, mode))
      <4>1. CASE HasRow(electricity, RowKey(current, mode))
        BY <4>1
      <4>2. CASE ~HasRow(electricity, RowKey(current, mode))
        <5>1. PICK s : electricity' = electricity \union {[readAt |-> RowKey(current, mode), last |-> s.at]}
          BY <1>4, <4>2 DEF CompactElectricity
        <5> QED
          BY <2>4, <5>1 DEF HasRow
      <4> QED
        BY <4>1, <4>2
    <3> QED
      BY <2>1, <2>4, <3>1 DEF Unprocessed, Traced, RowOf, RowKey
  <2>5. CASE ~(UNCHANGED electricity)
    <3>1. PICK s \in RowSources(current, mode) :
              electricity' = electricity \union {[readAt |-> RowKey(current, mode), last |-> s.at]}
      BY <1>4, <2>5 DEF CompactElectricity
    <3>2. PICK row : row = [readAt |-> RowKey(current, mode), last |-> s.at]
      OBVIOUS
    <3>3. electricity' = electricity \union {row} /\ row.readAt = RowKey(current, mode)
      BY <3>1, <3>2
    <3>4. grouping = ByReading => row.last = row.readAt /\ row.readAt \in sent
      BY <2>2, <3>2 DEF RowSources, RowKey, ByReading, ByMinute, Unprocessed
    <3>5. \A u : Traced(u) => Traced(u)'
      BY <3>3 DEF Traced
    <3>6. HasRow(electricity', RowKey(current, mode)')
      BY <2>1, <3>3 DEF HasRow, RowKey
    <3>7. \A e \in electricity' : e.readAt <= meterTime'
      BY <2>1, <3>3
    <3>8. \A e \in electricity', r \in Unprocessed' : e.readAt <= RowKey(r, grouping)'
      BY <2>1, <2>3, <3>3 DEF Unprocessed, RowKey
    <3>9. \A t \in sent' : (\E r \in Unprocessed' : r.at = t) \/ Traced(RowOf(t))'
      <4>1. \A t : RowOf(t)' = RowOf(t)
        BY <2>1 DEF RowOf
      <4> QED
        BY <2>1, <3>5, <4>1 DEF Unprocessed, Traced
    <3> QED
      BY <2>1, <3>3, <3>4, <3>6, <3>7, <3>8, <3>9 DEF RowKey
  <2> QED
    BY <2>4, <2>5
<1>5. CASE CompactGas
  BY <1>5 DEF CompactGas, meterVars, historyVars, Unprocessed, Traced, RowOf, RowKey
<1>6. CASE MarkProcessed
  <2>1. /\ readings' = (readings \ {current}) \union {Done(current)}
        /\ UNCHANGED <<meterTime, electricity, grouping, mode, sent>>
        /\ pc = "processed" /\ pc' \in {"idle", "next"}
    BY <1>6 DEF MarkProcessed, meterVars, historyVars
  <2>2. current \in readings /\ Done(current).at = current.at /\ Done(current).processed
    BY <2>1 DEF TypeOK, Done
  <2>3. Unprocessed' = Unprocessed \ {current}
    BY <2>1, <2>2 DEF Unprocessed
  <2>4. Traced(RowOf(current.at))
    <3>1. RowOf(current.at) = RowKey(current, mode)
      BY DEF RowOf, RowKey
    <3> QED
      BY <2>1, <3>1, RowIsTrace
  <2>5. \A t \in sent' : (\E r \in Unprocessed' : r.at = t) \/ Traced(RowOf(t))'
    <3>1. \A t : Traced(RowOf(t))' <=> Traced(RowOf(t))
      BY <2>1 DEF Traced, RowOf
    <3> QED
      BY <2>1, <2>3, <2>4, <3>1
  <2> QED
    BY <2>1, <2>2, <2>3, <2>5 DEF RowKey
<1> QED
  BY <1>1, <1>2, <1>3, <1>4, <1>5, <1>6 DEF Pass

\* Retention keeps what waits, and the traces.
LEMMA RetentionKeepsTrace ==
    ASSUME TypeOK, TablesInv, RetentionInv, TraceInv, RetentionStep,
           UNCHANGED electricity \/ ~InProgress,
           UNCHANGED <<meterVars, grouping, passVars, historyVars>>
    PROVE  TraceInv'
<1>1. /\ readings' \subseteq readings /\ electricity' \subseteq electricity
      /\ \A r \in readings : ~r.processed => r \in readings'
      /\ UNCHANGED <<meterTime, grouping, pc, batch, current, mode, sent>>
  BY RetentionDeletes DEF meterVars, passVars, historyVars
<1>2. Unprocessed' = Unprocessed
  BY <1>1 DEF Unprocessed
<1>3. \A t \in Ticks : Traced(RowOf(t)) => Traced(RowOf(t))'
  <2>1. CASE UNCHANGED electricity
    BY <1>1, <2>1 DEF Traced, RowOf
  <2>2. CASE Retain!CleanHour
    <3> TAKE t \in Ticks
    <3>1. RowOf(t) \in Int /\ RowOf(t)' = RowOf(t)
      BY <1>1, MinuteBounds, CompactorAssumption DEF Ticks, RowOf
    <3>2. \A k \in Int : Traced(k) => Traced(k)'
      BY <2>2, TraceKept
    <3> QED
      BY <3>1, <3>2 DEF Traced
  <2> QED
    BY <2>1, <2>2 DEF RetentionStep, Retain!Run, Retain!Start, Retain!NextModel, Retain!Abort
<1>4. InOrder'
  BY <1>1, <1>2 DEF TraceInv, InOrder, HasOwnGas
<1> QED
  BY <1>1, <1>2, <1>3, <1>4 DEF TraceInv, InProgress, RowKey, HasRow

\* Every step keeps track of the telegrams.
LEMMA TraceStep ==
    TypeOK /\ TablesInv /\ RetentionInv /\ TraceInv /\ [PipelineNext]_allVars => TraceInv'
<1> SUFFICES ASSUME TypeOK, TablesInv, RetentionInv, TraceInv, [PipelineNext]_allVars
             PROVE  TraceInv'
  OBVIOUS
<1>1. StepInOrder => InOrder'
  BY InOrderStep DEF TraceInv
<1>2. CASE Telegram
  <2>1. StepInOrder
    BY <1>2, PipelineAssumption DEF Telegram, StepInOrder
  <2> QED
    BY <1>1, <1>2, <2>1, TelegramIsTraced
<1>3. CASE RunCompactor
  BY <1>1, <1>3, PassKeepsTrace DEF RunCompactor, StepInOrder
<1>4. CASE RunRetention
  BY <1>4, RetentionKeepsTrace DEF RunRetention, RetentionStep, InProgress
<1>5. CASE Retain!Abort /\ UNCHANGED <<meterVars, grouping, passVars, historyVars>>
  BY <1>5, RetentionKeepsTrace DEF RetentionStep, Retain!Abort
<1>6. CASE UNCHANGED <<meterTime, dbVars, grouping, passVars, historyVars>>
  BY <1>6 DEF TraceInv, InOrder, HasOwnGas, InProgress, Unprocessed, Traced, RowOf, RowKey, HasRow,
              dbVars, passVars, historyVars
<1>7. CASE Crash /\ UNCHANGED historyVars
  <2>1. InOrder'
    BY <1>1, <1>7 DEF StepInOrder
  <2> QED
    BY <1>7, <2>1
       DEF Crash, TraceInv, InProgress, Unprocessed, Traced, RowOf, RowKey, meterVars, dbVars, historyVars
<1> QED
  BY <1>2, <1>3, <1>4, <1>5, <1>6, <1>7
     DEF PipelineNext, TimePasses, Tick, RunStatistics, BackendDies, allVars, vars, dbVars, passVars, historyVars

\* So it always is kept.
LEMMA PipelineTraces == PipelineSpec => []TraceInv
<1>1. PipelineInit => TraceInv
  BY DEF PipelineInit, Init, TraceInv, InOrder, InProgress, Unprocessed, Ticks
<1> QED
  BY <1>1, TraceStep, PipelineTypes, PipelineTables, PipelineRetention, PTL DEF PipelineSpec

-----------------------------------------------------------------------------
(***************************************************************************)
(* The days that are closed. When a day is, all of its telegrams have      *)
(* rows, and so have those of each day before it: rows are created in      *)
(* their order.                                                            *)
(***************************************************************************)

LastDay == DayOf(LastTick + TicksPerMinute)

DaysInv ==
    /\ \A d \in Stats!DaysWithStats : d \in 0..LastDay /\ d <= DayOf(meterTime)
    /\ inTime \subseteq sent
    /\ \A t \in sent : DayOf(t) \notin Stats!DaysWithStats => t \in inTime
    /\ NoDaySkipped
    /\ DayMatchesMeter

\* A row after midnight.
AfterMidnight(k) == k # DayStart(DayOf(k))

\* The next day is later than those closed, and a row after the midnight of a
\* day before it is not of a day after those.
LEMMA NextDayIsNext ==
    ASSUME TypeOK, TablesInv, DaysInv, electricity # {}, NEW d, d = Stats!NextDay
    PROVE  /\ \A c \in Stats!DaysWithStats : c < d
           /\ \A e \in electricity :
                  DayOf(e.readAt) < d /\ AfterMidnight(e.readAt)
                      => \E c \in Stats!DaysWithStats : DayOf(e.readAt) <= c
<1>1. LastTick + TicksPerMinute \in Nat /\ \A e \in electricity : e.readAt \in 0..(LastTick + TicksPerMinute)
  BY CompactorAssumption, MeterTimeAssumption DEF TypeOK, ElectricityRow, TablesInv
<1>2. Apart(electricity)
  BY <1>1 DEF Apart, TablesInv, OneRowPerMoment
<1>3. ASSUME NEW rows, rows \subseteq electricity, rows # {}
      PROVE  /\ Stats!First(rows) \in rows
             /\ \A y \in rows : Stats!First(rows).readAt <= y.readAt
  <2>1. PICK f, l \in rows : IsEnds(rows, f, l)
    BY <1>1, <1>3, EndsExist
  <2>2. Apart(rows)
    BY <1>2, <1>3 DEF Apart
  <2> QED
    BY <2>1, <2>2, EndsAreChosen DEF IsEnds
<1>4. CASE dayStats = {}
  <2>1. Stats!DaysWithStats = {}
    BY <1>4 DEF Stats!DaysWithStats
  <2>2. d = DayOf(Stats!First(electricity).readAt)
    BY <1>4, SameDays DEF Stats!NextDay
  <2>3. \A e \in electricity : d \in Int /\ DayOf(e.readAt) \in Int /\ d <= DayOf(e.readAt)
    <3> TAKE e \in electricity
    <3>1. Stats!First(electricity) \in electricity /\ Stats!First(electricity).readAt <= e.readAt
      BY <1>3
    <3> QED
      BY <1>1, <2>2, <3>1, DaysFollowMoments
  <2> QED
    BY <2>1, <2>3
<1>5. CASE dayStats # {}
  <2> DEFINE m == Stats!Max(Stats!DaysWithStats)
             C == Stats!ConsumptionAfter(DayStart(m + 1))
  <2>1. m \in Stats!DaysWithStats /\ \A c \in Stats!DaysWithStats : m >= c
    <3>1. LastDay \in Nat
      <4>1. DayOf(0) = 0
        BY MeterTimeAssumption DEF DayOf, TicksPerDay, TicksPerHour
      <4> QED
        BY <1>1, <4>1, DaysFollowMoments DEF LastDay
    <3>2. Stats!DaysWithStats \subseteq 0..LastDay /\ Stats!DaysWithStats # {}
      BY <1>5 DEF DaysInv, Stats!DaysWithStats
    <3>3. m = Max(Stats!DaysWithStats)
      BY DEF Stats!Max, Max
    <3> QED
      BY <3>1, <3>2, <3>3, MaxIsGreatest
  <2>2. m \in Int /\ \A c \in Stats!DaysWithStats : c \in Int
    BY <2>1 DEF DaysInv
  <2>3. d = IF C = {} THEN m + 1 ELSE DayOf(Stats!First(C).readAt)
    BY <1>5, SameDays DEF Stats!NextDay
  <2>4. C = {e \in electricity : e.readAt > DayStart(m + 1)}
    BY DEF Stats!ConsumptionAfter
  <2> HIDE DEF m, C
  <2>5. DayStart(m + 1) \in Int
    BY <2>2, MidnightsInOrder
  <2>6. CASE C = {}
    <3>1. \A e \in electricity : DayOf(e.readAt) \in Int
      BY <1>1, DaysFollowMoments
    <3>2. \A e \in electricity : DayOf(e.readAt) < d => DayOf(e.readAt) <= m
      BY <2>2, <2>3, <2>6, <3>1
    <3> QED
      BY <2>1, <2>2, <2>3, <2>6, <3>2
  <2>7. CASE C # {}
    <3> PICK f : f = Stats!First(C)
      OBVIOUS
    <3>1. f \in C /\ \A y \in C : f.readAt <= y.readAt
      BY <1>3, <2>4, <2>7
    <3>2. f.readAt \in Int /\ f.readAt > DayStart(m + 1) /\ d = DayOf(f.readAt)
      BY <1>1, <2>3, <2>4, <2>7, <3>1
    <3>3. d \in Int /\ m + 1 <= d
      <4>1. DayOf(f.readAt) \in Int /\ f.readAt < DayStart(DayOf(f.readAt) + 1) /\ DayStart(DayOf(f.readAt) + 1) \in Int
        BY <3>2, DayBounds
      <4>2. ~(DayOf(f.readAt) + 1 <= m + 1)
        BY <2>2, <2>5, <3>2, <4>1, MidnightsInOrder
      <4> QED
        BY <2>2, <3>2, <4>1, <4>2
    <3>4. ASSUME NEW e \in electricity, DayOf(e.readAt) < d, AfterMidnight(e.readAt)
          PROVE  DayOf(e.readAt) <= m
      <4>1. /\ e.readAt \in Int /\ DayOf(e.readAt) \in Int
            /\ DayStart(DayOf(e.readAt)) \in Int /\ DayStart(DayOf(e.readAt)) < e.readAt
        <5>1. e.readAt \in Int
          BY <1>1
        <5>2. DayOf(e.readAt) \in Int /\ DayStart(DayOf(e.readAt)) \in Int /\ DayStart(DayOf(e.readAt)) <= e.readAt
          BY <5>1, DayBounds
        <5>3. e.readAt # DayStart(DayOf(e.readAt))
          BY <3>4 DEF AfterMidnight
        <5> QED
          BY <5>1, <5>2, <5>3
      <4>2. ASSUME m + 1 <= DayOf(e.readAt) PROVE FALSE
        <5>1. DayStart(m + 1) < e.readAt
          BY <2>2, <2>5, <4>1, <4>2, MidnightsInOrder
        <5>2. f.readAt <= e.readAt
          BY <2>4, <3>1, <5>1
        <5>3. d <= DayOf(e.readAt)
          BY <3>2, <4>1, <5>2, DaysFollowMoments
        <5> QED
          BY <3>3, <3>4, <4>1, <5>3
      <4> QED
        BY <2>2, <4>1, <4>2
    <3> QED
      BY <2>1, <2>2, <3>3, <3>4
  <2> QED
    BY <2>6, <2>7
<1> QED
  BY <1>4, <1>5

\* What is known of the day that is being closed.
Closing(d) ==
    /\ electricity # {}
    /\ d = Stats!NextDay
    /\ \A r \in readings : DayOf(r.at) = d => r.processed
    /\ \E e \in electricity : DayOf(e.readAt) = d

\* A telegram whose row is of an earlier day is not waiting.
LEMMA EarlierIsTraced ==
    ASSUME TypeOK, TraceInv, NEW d, Closing(d), NEW t \in sent,
           DayOf(RowOf(t)) < d \/ DayOf(t) = d
    PROVE  Traced(RowOf(t))
<1>1. t \in Nat
  BY CompactorAssumption DEF TraceInv, Ticks
<1>2. ASSUME NEW r \in Unprocessed, r.at = t PROVE FALSE
  <2>1. RowOf(t) = RowKey(r, grouping) /\ RowOf(t) \in Nat
    BY <1>1, <1>2, RowsInOrder DEF RowOf, RowKey
  <2>2. PICK e \in electricity : DayOf(e.readAt) = d /\ e.readAt \in Nat
    BY DEF Closing, TypeOK, ElectricityRow
  <2>3. e.readAt <= RowOf(t)
    BY <2>1, <2>2 DEF TraceInv
  <2>4. d \in Int /\ DayOf(RowOf(t)) \in Int /\ d <= DayOf(RowOf(t))
    BY <2>1, <2>2, <2>3, DaysFollowMoments
  <2>5. DayOf(t) # d
    BY <1>2 DEF Closing, Unprocessed
  <2> QED
    BY <2>4, <2>5
<1> QED
  BY <1>2 DEF TraceInv

\* The day that is closed passes over no telegram.
LEMMA ClosingSkipsNothing ==
    ASSUME TypeOK, TablesInv, TraceInv, DaysInv, NEW d, Closing(d),
           NEW t \in sent, DayOf(RowOf(t)) < d, AfterMidnight(RowOf(t))
    PROVE  DayOf(RowOf(t)) \in Stats!DaysWithStats
<1> DEFINE k == RowOf(t)
<1>1. k \in Int
  <2>1. t \in Nat
    BY CompactorAssumption DEF TraceInv, Ticks
  <2> QED
    BY <2>1, MinuteBounds DEF RowOf
<1>2. PICK e \in electricity : k <= e.readAt /\ HourStart(e.readAt) = HourStart(k)
  BY EarlierIsTraced DEF Traced
<1>3. e.readAt \in Int
  BY DEF TypeOK, ElectricityRow
<1>4. DayOf(e.readAt) = DayOf(k)
  BY <1>1, <1>2, <1>3, HourHasOneDay
<1>5. AfterMidnight(e.readAt)
  <2>1. DayStart(DayOf(k)) \in Int /\ DayStart(DayOf(k)) <= k
    BY <1>1, DayBounds
  <2>2. k # DayStart(DayOf(k))
    BY DEF AfterMidnight
  <2> HIDE DEF k
  <2>3. e.readAt # DayStart(DayOf(k))
    BY <1>1, <1>2, <1>3, <2>1, <2>2
  <2> QED
    BY <1>4, <2>3 DEF AfterMidnight
<1>6. PICK c \in Stats!DaysWithStats : DayOf(k) <= c
  BY <1>4, <1>5, NextDayIsNext DEF Closing
<1>7. PICK s \in dayStats : s.day = c
  BY <1>6 DEF Stats!DaysWithStats
<1>8. c \in Int /\ DayOf(k) \in Int
  BY <1>1, <1>6, DayBounds DEF DaysInv
<1>9. CASE DayOf(k) < c
  BY <1>7, <1>9 DEF DaysInv, NoDaySkipped, RowOf, AfterMidnight
<1> QED
  BY <1>6, <1>8, <1>9

\* And counts what the meter counted, from the first telegram to the last.
LEMMA ClosingMatchesMeter ==
    ASSUME TypeOK, TablesInv, TraceInv, DaysInv, grouping = ByReading, NEW d, Closing(d),
           NEW R, R = Stats!Within(electricity, DayStart(d), DayStart(d + 1))
    PROVE  Stats!HourElectricity(R) = Max(InTimeOn(d)) - Min(InTimeOn(d))
<1>1. LastTick + TicksPerMinute \in Nat /\ \A e \in electricity : e.readAt \in 0..(LastTick + TicksPerMinute)
  BY CompactorAssumption, MeterTimeAssumption DEF TypeOK, ElectricityRow, TablesInv
<1>2. PICK e0 \in electricity : DayOf(e0.readAt) = d
  BY DEF Closing
<1>3. d \in Int
  BY <1>1, <1>2, DayBounds
<1>4. \A e \in electricity : e \in R <=> DayOf(e.readAt) = d
  <2> TAKE e \in electricity
  <2>1. e.readAt \in Int
    BY <1>1
  <2>2. DayOf(e.readAt) = d => DayStart(d) <= e.readAt /\ e.readAt < DayStart(d + 1)
    BY <2>1, DayBounds
  <2>3. DayStart(d) <= e.readAt /\ e.readAt < DayStart(d + 1) => DayOf(e.readAt) = d
    BY <1>3, <2>1, DayIsUnique
  <2> QED
    BY <2>2, <2>3 DEF Stats!Within
<1>5. R \subseteq electricity /\ R # {}
  BY <1>2, <1>4 DEF Stats!Within
<1>6. PICK f, l \in R : IsEnds(R, f, l)
  BY <1>1, <1>5, EndsExist
<1>7. Stats!First(R) = f /\ Stats!Last(R) = l
  <2>1. Apart(R)
    BY <1>1, <1>5 DEF Apart, TablesInv, OneRowPerMoment
  <2> QED
    BY <1>6, <2>1, EndsAreChosen
<1>8. f.last = f.readAt /\ l.last = l.readAt /\ f.readAt \in sent /\ l.readAt \in sent
  BY <1>5 DEF TraceInv
<1>9. d \notin Stats!DaysWithStats
  BY <1>3, NextDayIsNext DEF Closing
<1>10. f.readAt \in InTimeOn(d) /\ l.readAt \in InTimeOn(d)
  BY <1>4, <1>5, <1>8, <1>9 DEF DaysInv, InTimeOn
<1>11. InTimeOn(d) \subseteq 0..LastTick /\ LastTick \in Nat
  BY CompactorAssumption DEF InTimeOn, DaysInv, TraceInv, Ticks
<1>12. ASSUME NEW t \in InTimeOn(d) PROVE f.readAt <= t /\ t <= l.readAt
  <2>1. t \in sent /\ DayOf(t) = d /\ RowOf(t) = t /\ t \in Int
    <3>1. t \in sent /\ DayOf(t) = d
      BY <1>12 DEF InTimeOn, DaysInv
    <3>2. RowOf(t) = t
      BY DEF RowOf, ByReading, ByMinute
    <3>3. t \in Int
      BY <1>11, <1>12
    <3> QED
      BY <3>1, <3>2, <3>3
  <2>2. Traced(t)
    BY <2>1, EarlierIsTraced
  <2>3. PICK a \in electricity, b \in electricity :
            /\ a.readAt <= t /\ HourStart(a.readAt) = HourStart(t)
            /\ t <= b.readAt /\ HourStart(b.readAt) = HourStart(t)
    BY <2>2 DEF Traced
  <2>4. a \in R /\ b \in R
    BY <1>1, <1>4, <2>1, <2>3, HourHasOneDay
  <2>5. f.readAt <= a.readAt /\ b.readAt <= l.readAt
    BY <1>6, <2>4 DEF IsEnds
  <2> QED
    BY <1>1, <1>5, <2>1, <2>3, <2>5
<1>13. Min(InTimeOn(d)) = f.readAt
  <2>1. Min(InTimeOn(d)) \in InTimeOn(d) /\ \A y \in InTimeOn(d) : Min(InTimeOn(d)) <= y
    BY <1>10, <1>11, MinIsLeast
  <2> QED
    BY <1>10, <1>11, <1>12, <2>1
<1>14. Max(InTimeOn(d)) = l.readAt
  <2>1. Max(InTimeOn(d)) \in InTimeOn(d) /\ \A y \in InTimeOn(d) : Max(InTimeOn(d)) >= y
    BY <1>10, <1>11, MaxIsGreatest
  <2> QED
    BY <1>10, <1>11, <1>12, <2>1
<1> QED
  BY <1>7, <1>8, <1>13, <1>14 DEF Stats!HourElectricity

\* A telegram is of no day before those that are closed.
LEMMA TelegramKeepsDays ==
    ASSUME TypeOK, TraceInv, DaysInv, Telegram
    PROVE  DaysInv'
<1>1. PICK t \in Ticks : /\ Receive(t)
                         /\ sent' = sent \union {t}
                         /\ inTime' = IF DayOf(t) \in Stats!DaysWithStats THEN inTime ELSE inTime \union {t}
                         /\ UNCHANGED statsVars
  BY PipelineAssumption DEF Telegram
<1>2. meterTime' = t /\ t > meterTime /\ grouping' = grouping
  BY <1>1 DEF Receive, Insert
<1>3. t \in Nat /\ meterTime \in Int
  BY CompactorAssumption DEF Ticks, TypeOK
<1>4. Stats!DaysWithStats' = Stats!DaysWithStats /\ dayStats' = dayStats
  BY <1>1 DEF statsVars, Stats!DaysWithStats
<1>5. RowOf(t) \in Int /\ t <= RowOf(t)
  BY <1>3, MinuteBounds DEF RowOf
<1>6. \A c \in Stats!DaysWithStats : c \in Int /\ c <= DayOf(t) /\ c <= DayOf(RowOf(t)) /\ DayOf(RowOf(t)) \in Int
  <2>1. /\ DayOf(meterTime) \in Int /\ DayOf(t) \in Int /\ DayOf(RowOf(t)) \in Int
        /\ DayOf(meterTime) <= DayOf(t) /\ DayOf(t) <= DayOf(RowOf(t))
    BY <1>2, <1>3, <1>5, DaysFollowMoments
  <2> QED
    BY <2>1 DEF DaysInv
<1>7. NoDaySkipped'
  <2> SUFFICES ASSUME NEW s \in dayStats, NEW u \in sent', DayOf(RowOf(u)) < s.day, AfterMidnight(RowOf(u))
               PROVE  DayOf(RowOf(u)) \in Stats!DaysWithStats
    BY <1>2, <1>4 DEF NoDaySkipped, RowOf, AfterMidnight
  <2>1. CASE u \in sent
    BY <2>1 DEF DaysInv, NoDaySkipped, RowOf, AfterMidnight
  <2>2. CASE u = t
    <3>1. s.day \in Stats!DaysWithStats
      BY DEF Stats!DaysWithStats
    <3> QED
      BY <1>6, <2>2, <3>1
  <2> QED
    BY <1>1, <2>1, <2>2
<1>8. DayMatchesMeter'
  <2>1. \A s \in dayStats : InTimeOn(s.day)' = InTimeOn(s.day)
    BY <1>1 DEF InTimeOn, Stats!DaysWithStats
  <2> QED
    BY <1>2, <1>4, <2>1 DEF DaysInv, DayMatchesMeter
<1> QED
  BY <1>1, <1>2, <1>4, <1>6, <1>7, <1>8 DEF DaysInv

\* A day that is closed is the next one.
LEMMA StatisticsKeepDays ==
    ASSUME TypeOK, TablesInv, TraceInv, DaysInv, RunStatistics
    PROVE  DaysInv'
<1> PICK d : d = Stats!NextDay
  OBVIOUS
<1>1. /\ electricity # {} /\ Stats!AllProcessed(d) /\ Stats!HasConsumption(d) /\ Stats!CreateStatistics(d)
      /\ UNCHANGED vars /\ UNCHANGED historyVars
  BY DEF RunStatistics, Stats!Generate
<1>2. Closing(d)
  BY <1>1, SameDays DEF Closing, Stats!AllProcessed, Stats!HasConsumption
<1> PICK new : new = Stats!DayStatistics(d, hourStats')
  OBVIOUS
<1> DEFINE R == Stats!Within(electricity, DayStart(d), DayStart(d + 1))
<1>3. /\ dayStats' = dayStats \union {new} /\ new.day = d
      /\ new.electricity = Stats!HourElectricity(R)
  BY <1>1, SameDays DEF Stats!CreateStatistics, Stats!DayStatistics
<1>4. Stats!DaysWithStats' = Stats!DaysWithStats \union {d}
  BY <1>3 DEF Stats!DaysWithStats
<1>5. UNCHANGED <<meterTime, grouping, sent, inTime>>
  BY <1>1 DEF vars, historyVars
<1>6. d \in 0..LastDay /\ d <= DayOf(meterTime)
  <2>1. PICK e \in electricity : DayOf(e.readAt) = d
    BY <1>2 DEF Closing
  <2>2. /\ e.readAt \in Nat /\ e.readAt <= LastTick + TicksPerMinute /\ e.readAt <= meterTime
        /\ LastTick + TicksPerMinute \in Int /\ meterTime \in Int
    BY CompactorAssumption, MeterTimeAssumption DEF TypeOK, ElectricityRow, TablesInv, TraceInv
  <2>3. DayOf(0) = 0 /\ DayOf(0) <= DayOf(e.readAt)
    <3>1. DayOf(0) = 0
      BY MeterTimeAssumption DEF DayOf, TicksPerDay, TicksPerHour
    <3> QED
      BY <2>2, <3>1, DaysFollowMoments
  <2>4. /\ DayOf(e.readAt) \in Int /\ DayOf(e.readAt) <= LastDay /\ LastDay \in Int
        /\ DayOf(e.readAt) <= DayOf(meterTime)
    BY <2>2, DaysFollowMoments DEF LastDay
  <2> QED
    BY <2>1, <2>3, <2>4
<1>7. NoDaySkipped'
  <2> SUFFICES ASSUME NEW s \in dayStats', NEW t \in sent, DayOf(RowOf(t)) < s.day, AfterMidnight(RowOf(t))
               PROVE  DayOf(RowOf(t)) \in Stats!DaysWithStats'
    BY <1>5 DEF NoDaySkipped, RowOf, AfterMidnight
  <2>1. CASE s \in dayStats
    BY <1>4, <2>1 DEF DaysInv, NoDaySkipped, RowOf, AfterMidnight
  <2>2. CASE s = new
    BY <1>2, <1>3, <1>4, <2>2, ClosingSkipsNothing
  <2> QED
    BY <1>3, <2>1, <2>2
<1>8. DayMatchesMeter'
  <2> SUFFICES ASSUME grouping = ByReading, NEW s \in dayStats'
               PROVE  s.electricity = Max(InTimeOn(s.day)) - Min(InTimeOn(s.day))
    BY <1>5 DEF DayMatchesMeter, InTimeOn
  <2>1. CASE s \in dayStats
    BY <2>1 DEF DaysInv, DayMatchesMeter
  <2>2. CASE s = new
    <3>1. Stats!HourElectricity(R) = Max(InTimeOn(d)) - Min(InTimeOn(d))
      BY <1>2, ClosingMatchesMeter
    <3> QED
      BY <1>3, <2>2, <3>1
  <2> QED
    BY <1>3, <2>1, <2>2
<1> QED
  BY <1>4, <1>5, <1>6, <1>7, <1>8 DEF DaysInv

\* Every step keeps what is known of the closed days.
LEMMA DaysStep ==
    TypeOK /\ TablesInv /\ TraceInv /\ DaysInv /\ [PipelineNext]_allVars => DaysInv'
<1> SUFFICES ASSUME TypeOK, TablesInv, TraceInv, DaysInv, [PipelineNext]_allVars PROVE DaysInv'
  OBVIOUS
<1>1. CASE UNCHANGED <<meterTime, grouping, statsVars, historyVars>>
  BY <1>1
     DEF DaysInv, NoDaySkipped, DayMatchesMeter, InTimeOn, Stats!DaysWithStats, statsVars, historyVars
<1> QED
  BY <1>1, TelegramKeepsDays, StatisticsKeepDays
     DEF PipelineNext, TimePasses, Tick, RunCompactor, Pass, StartPass, Compact, NotReady, CompactElectricity,
         CompactGas, MarkProcessed, RunRetention, BackendDies, Crash, meterVars, allVars, vars

\* So it always holds.
LEMMA PipelineDays == PipelineSpec => []DaysInv
<1>1. PipelineInit => DaysInv
  BY DEF PipelineInit, Init, Stats!Init, DaysInv, NoDaySkipped, DayMatchesMeter, Stats!DaysWithStats
<1> QED
  BY <1>1, DaysStep, PipelineTypes, PipelineTables, PipelineTraces, PTL DEF PipelineSpec

\* No day with a row after midnight is passed over, whatever retention deleted of
\* it before it was closed (run Pipeline, NoDaySkipped).
THEOREM NoDayIsSkipped == PipelineSpec => []NoDaySkipped
<1>1. DaysInv => NoDaySkipped
  BY DEF DaysInv
<1> QED
  BY <1>1, PipelineDays, PTL

\* Ungrouped, a day's electricity is what the meter counted between the first
\* and the last telegram that arrived before it was closed, whatever was compacted
\* late, repeated or deleted (run Pipeline, DayMatchesMeter).
THEOREM DayIsWhatTheMeterCounted == PipelineSpec => []DayMatchesMeter
<1>1. DaysInv => DayMatchesMeter
  BY DEF DaysInv
<1> QED
  BY <1>1, PipelineDays, PTL

-----------------------------------------------------------------------------
(***************************************************************************)
(* Sums of gas. MapThenSumSet is defined by recursion over the parts of a  *)
(* set: what it adds up to is shown with a part of the least cardinality   *)
(* for which it would not.                                                 *)
(***************************************************************************)

Chosen(s) == CHOOSE x \in s : TRUE

\* What MapThenSumSet defines by recursion: the sums of all parts of a set of rows.
SumOf(f, s) == IF s = {} THEN 0 ELSE Chosen(s).gas + f[s \ {Chosen(s)}]

IsSum(f, T) == f = [s \in SUBSET T |-> SumOf(f, s)]

GasSum(T) == MapThenSumSet(LAMBDA s : s.gas, T)

\* The sum of the whole set is what that function has for it.
LEMMA SumUnfolded ==
    ASSUME NEW T
    PROVE  GasSum(T) = (CHOOSE f : IsSum(f, T))[T]
BY DEF GasSum, MapThenSumSet, MapThenFoldSet, IsSum, SumOf, Chosen

\* A set that is not empty, without one of its elements.
LEMMA OneLess ==
    ASSUME NEW T, IsFiniteSet(T), NEW s \in SUBSET T, NEW x \in s
    PROVE  /\ IsFiniteSet(s) /\ Cardinality(s) \in Nat \ {0}
           /\ Cardinality(s \ {x}) = Cardinality(s) - 1
           /\ s \ {x} \in SUBSET T /\ x \in T
BY FS_Subset, FS_RemoveElement, FS_CardinalityType, FS_EmptySet

\* There is such a function.
LEMMA SumExists ==
    ASSUME NEW T, IsFiniteSet(T)
    PROVE  \E f : IsSum(f, T)
<1> DEFINE UpTo(g, n) == \A s \in SUBSET T : Cardinality(s) =< n => g[s] = SumOf(g, s)
           Bad == {n \in Nat : \A g : ~UpTo(g, n)}
<1>1. Bad = {}
  <2> SUFFICES ASSUME Bad # {} PROVE FALSE
    OBVIOUS
  <2>1. Bad \subseteq Nat
    OBVIOUS
  <2>2. PICK n \in Bad : \A m \in Bad : n =< m
    <3> HIDE DEF Bad
    <3> QED
      BY <2>1, LeastExists
  <2>3. PICK h : n = 0 \/ UpTo(h, n - 1)
    <3>1. CASE n = 0
      BY <3>1
    <3>2. CASE n # 0
      <4>1. n - 1 \in Nat /\ n - 1 \notin Bad
        BY <2>1, <2>2, <3>2
      <4> QED
        BY <4>1
    <3> QED
      BY <3>1, <3>2
  <2> DEFINE g == [s \in SUBSET T |-> SumOf(h, s)]
  <2>4. ASSUME NEW s \in SUBSET T, Cardinality(s) =< n
        PROVE  g[s] = SumOf(g, s)
    <3>1. CASE s = {}
      BY <3>1 DEF SumOf
    <3>2. CASE s # {}
      <4> DEFINE c == Chosen(s)
      <4>1. c \in s
        BY <3>2 DEF Chosen
      <4> HIDE DEF c
      <4>2. Cardinality(s) \in Nat \ {0} /\ Cardinality(s \ {c}) = Cardinality(s) - 1 /\ s \ {c} \in SUBSET T
        BY <4>1, OneLess
      <4>3. n \in Nat /\ n # 0 /\ Cardinality(s \ {c}) =< n - 1
        BY <2>1, <2>4, <4>2
      <4>4. h[s \ {c}] = SumOf(h, s \ {c})
        BY <2>3, <4>2, <4>3
      <4>5. g[s \ {c}] = h[s \ {c}]
        BY <4>2, <4>4
      <4> QED
        BY <3>2, <4>5 DEF SumOf, c
    <3> QED
      BY <3>1, <3>2
  <2>5. UpTo(g, n)
    BY <2>4
  <2> QED
    BY <2>2, <2>5
<1>2. PICK g : UpTo(g, Cardinality(T))
  <2>1. Cardinality(T) \in Nat
    BY FS_CardinalityType
  <2> QED
    BY <1>1, <2>1
<1> DEFINE f == [s \in SUBSET T |-> g[s]]
<1>3. ASSUME NEW s \in SUBSET T
      PROVE  f[s] = SumOf(f, s)
  <2>1. Cardinality(s) =< Cardinality(T)
    BY FS_Subset
  <2>2. g[s] = SumOf(g, s)
    BY <1>2, <2>1
  <2>3. CASE s = {}
    BY <2>2, <2>3 DEF SumOf
  <2>4. CASE s # {}
    BY <2>2, <2>4 DEF SumOf
  <2> QED
    BY <2>3, <2>4
<1>4. f = [s \in SUBSET T |-> SumOf(f, s)]
  BY <1>3
<1> QED
  BY <1>4 DEF IsSum

\* It does not matter which row is taken first.
LEMMA SumTakesAny ==
    ASSUME NEW T, IsFiniteSet(T), \A x \in T : x.gas \in Int, NEW f, IsSum(f, T)
    PROVE  \A s \in SUBSET T : f[s] \in Int /\ \A x \in s : f[s] = x.gas + f[s \ {x}]
<1> DEFINE Good(s) == f[s] \in Int /\ \A x \in s : f[s] = x.gas + f[s \ {x}]
           Bad == {n \in Nat : \E s \in SUBSET T : Cardinality(s) = n /\ ~Good(s)}
<1>1. \A s \in SUBSET T : f[s] = SumOf(f, s)
  BY DEF IsSum
<1>2. Bad = {}
  <2> SUFFICES ASSUME Bad # {} PROVE FALSE
    OBVIOUS
  <2>1. PICK n \in Bad : \A m \in Bad : n =< m
    <3>1. Bad \subseteq Nat
      OBVIOUS
    <3> HIDE DEF Bad
    <3> QED
      BY <3>1, LeastExists
  <2>2. PICK s \in SUBSET T : Cardinality(s) = n /\ ~Good(s)
    BY <2>1
  <2>3. s # {}
    <3>1. f[{}] = 0
      <4>1. SumOf(f, {}) = 0 /\ {} \in SUBSET T
        BY DEF SumOf
      <4> QED
        BY <1>1, <4>1
    <3>2. Good({})
      BY <3>1
    <3> HIDE DEF Good
    <3> QED
      BY <2>2, <3>2
  <2> DEFINE c == Chosen(s)
  <2>4. c \in s /\ f[s] = c.gas + f[s \ {c}]
    BY <1>1, <2>3 DEF SumOf, Chosen
  <2> HIDE DEF c
  <2>5. ASSUME NEW x \in s
        PROVE  Good(s \ {x}) /\ x.gas \in Int
    <3>1. Cardinality(s) \in Nat \ {0} /\ Cardinality(s \ {x}) = Cardinality(s) - 1 /\ s \ {x} \in SUBSET T /\ x \in T
      BY OneLess
    <3>2. Cardinality(s \ {x}) \in Nat /\ ~(n =< Cardinality(s \ {x}))
      BY <2>2, <3>1
    <3>3. Cardinality(s \ {x}) \notin Bad
      BY <2>1, <3>2
    <3> QED
      BY <3>1, <3>2, <3>3
  <2>6. f[s] \in Int
    <3>1. f[s \ {c}] \in Int /\ c.gas \in Int
      BY <2>4, <2>5
    <3> QED
      BY <2>4, <3>1
  <2>7. ASSUME NEW x \in s
        PROVE  f[s] = x.gas + f[s \ {x}]
    <3>1. CASE x = c
      BY <2>4, <3>1
    <3>2. CASE x # c
      <4>1. f[s \ {c}] = x.gas + f[(s \ {c}) \ {x}]
        BY <2>4, <2>5, <3>2
      <4>2. f[s \ {x}] = c.gas + f[(s \ {x}) \ {c}]
        BY <2>4, <2>5, <3>2
      <4>3. (s \ {c}) \ {x} = (s \ {x}) \ {c}
        OBVIOUS
      <4>4. Good(s \ {c}) /\ Good(s \ {x}) /\ c.gas \in Int /\ x.gas \in Int
        BY <2>4, <2>5
      <4>5. f[(s \ {x}) \ {c}] \in Int
        <5>1. IsFiniteSet(s) /\ Cardinality(s \ {x}) = Cardinality(s) - 1 /\ Cardinality(s) \in Nat \ {0} /\ s \ {x} \in SUBSET T
          BY OneLess
        <5>2. c \in s \ {x}
          BY <2>4, <3>2
        <5>3. Cardinality((s \ {x}) \ {c}) = Cardinality(s \ {x}) - 1 /\ (s \ {x}) \ {c} \in SUBSET T /\ Cardinality(s \ {x}) \in Nat \ {0}
          <6> PICK u : u = s \ {x}
            OBVIOUS
          <6>1. u \in SUBSET T /\ c \in u
            BY <5>1, <5>2
          <6>2. Cardinality(u \ {c}) = Cardinality(u) - 1 /\ u \ {c} \in SUBSET T /\ Cardinality(u) \in Nat \ {0}
            <7>1. IsFiniteSet(u) /\ u # {}
              BY <6>1, FS_Subset
            <7>2. Cardinality(u \ {c}) = Cardinality(u) - 1
              BY <6>1, <7>1, FS_RemoveElement
            <7>3. Cardinality(u) \in Nat /\ Cardinality(u) # 0
              BY <7>1, FS_CardinalityType, FS_EmptySet
            <7> QED
              BY <6>1, <7>2, <7>3
          <6> QED
            BY <6>2
        <5>4. Cardinality((s \ {x}) \ {c}) \in Nat /\ ~(n =< Cardinality((s \ {x}) \ {c}))
          BY <2>2, <5>1, <5>3
        <5>5. Cardinality((s \ {x}) \ {c}) \notin Bad
          BY <2>1, <5>4
        <5> QED
          BY <5>3, <5>4, <5>5
      <4> PICK a, b : a = f[s \ {c}] /\ b = f[(s \ {x}) \ {c}]
        OBVIOUS
      <4>6. /\ f[s] = c.gas + a /\ a = x.gas + b /\ f[s \ {x}] = c.gas + b
            /\ b \in Int /\ c.gas \in Int /\ x.gas \in Int
        BY <2>4, <4>1, <4>2, <4>3, <4>4, <4>5
      <4> QED
        BY <4>6
    <3> QED
      BY <3>1, <3>2
  <2> QED
    BY <2>2, <2>6, <2>7
<1>3. ASSUME NEW s \in SUBSET T
      PROVE  Good(s)
  <2>1. Cardinality(s) \in Nat
    BY FS_Subset, FS_CardinalityType
  <2> QED
    BY <1>2, <2>1
<1> QED
  BY <1>3

\* The sum of a part is the same, whether on its own or within the whole.
LEMMA SumOfPart ==
    ASSUME NEW T, IsFiniteSet(T), NEW S \in SUBSET T,
           NEW f, IsSum(f, T), NEW g, IsSum(g, S)
    PROVE  \A s \in SUBSET S : f[s] = g[s]
<1> DEFINE Bad == {n \in Nat : \E s \in SUBSET S : Cardinality(s) = n /\ f[s] # g[s]}
<1>1. \A s \in SUBSET S : f[s] = SumOf(f, s) /\ g[s] = SumOf(g, s)
  BY DEF IsSum
<1>2. IsFiniteSet(S)
  BY FS_Subset
<1>3. Bad = {}
  <2> SUFFICES ASSUME Bad # {} PROVE FALSE
    OBVIOUS
  <2>1. PICK n \in Bad : \A m \in Bad : n =< m
    <3>1. Bad \subseteq Nat
      OBVIOUS
    <3> HIDE DEF Bad
    <3> QED
      BY <3>1, LeastExists
  <2>2. PICK s \in SUBSET S : Cardinality(s) = n /\ f[s] # g[s]
    BY <2>1
  <2>3. s # {}
    BY <1>1, <2>2 DEF SumOf
  <2> DEFINE c == Chosen(s)
  <2>4. c \in s /\ f[s] = c.gas + f[s \ {c}] /\ g[s] = c.gas + g[s \ {c}]
    BY <1>1, <2>3 DEF SumOf, Chosen
  <2> HIDE DEF c
  <2>5. Cardinality(s) \in Nat \ {0} /\ Cardinality(s \ {c}) = Cardinality(s) - 1 /\ s \ {c} \in SUBSET S
    BY <1>2, <2>4, OneLess
  <2>6. Cardinality(s \ {c}) \in Nat /\ ~(n =< Cardinality(s \ {c}))
    BY <2>2, <2>5
  <2>7. Cardinality(s \ {c}) \notin Bad
    BY <2>1, <2>6
  <2> QED
    BY <2>2, <2>4, <2>5, <2>6, <2>7
<1>4. ASSUME NEW s \in SUBSET S
      PROVE  f[s] = g[s]
  <2>1. Cardinality(s) \in Nat
    BY <1>2, FS_Subset, FS_CardinalityType
  <2> QED
    BY <1>3, <2>1
<1> QED
  BY <1>4

\* The sum of the gas of a set of rows: no rows, no gas; and each row counts once.
LEMMA GasAdds ==
    ASSUME NEW T, IsFiniteSet(T), \A x \in T : x.gas \in Int
    PROVE  /\ GasSum({}) = 0
           /\ GasSum(T) \in Int
           /\ \A x \in T : GasSum(T) = x.gas + GasSum(T \ {x})
<1> DEFINE F(S) == CHOOSE f : IsSum(f, S)
<1>1. ASSUME NEW S, IsFiniteSet(S)
      PROVE  IsSum(F(S), S) /\ GasSum(S) = F(S)[S]
  BY <1>1, SumExists, SumUnfolded
<1>2. GasSum({}) = 0
  <2>1. IsSum(F({}), {}) /\ GasSum({}) = F({})[{}]
    BY <1>1, FS_EmptySet
  <2> HIDE DEF F
  <2> QED
    BY <2>1 DEF IsSum, SumOf
<1>3. IsSum(F(T), T) /\ GasSum(T) = F(T)[T]
  BY <1>1
<1>4. ASSUME NEW x \in T
      PROVE  GasSum(T) = x.gas + GasSum(T \ {x})
  <2>1. IsFiniteSet(T \ {x})
    BY FS_Subset
  <2>2. IsSum(F(T \ {x}), T \ {x}) /\ GasSum(T \ {x}) = F(T \ {x})[T \ {x}]
    BY <1>1, <2>1
  <2> PICK f, g : f = F(T) /\ g = F(T \ {x})
    OBVIOUS
  <2> HIDE DEF F
  <2>3. F(T)[T \ {x}] = F(T \ {x})[T \ {x}]
    <3>1. IsSum(f, T) /\ IsSum(g, T \ {x}) /\ T \ {x} \in SUBSET T
      BY <1>3, <2>2
    <3>2. \A s \in SUBSET (T \ {x}) : f[s] = g[s]
      BY <3>1, SumOfPart
    <3> QED
      BY <3>2
  <2>4. F(T)[T] = x.gas + F(T)[T \ {x}]
    BY <1>3, SumTakesAny
  <2> QED
    BY <1>3, <2>2, <2>3, <2>4
<1>5. GasSum(T) \in Int
  <2> HIDE DEF F
  <2> QED
    BY <1>3, SumTakesAny
<1> QED
  BY <1>2, <1>4, <1>5

-----------------------------------------------------------------------------
(***************************************************************************)
(* The gas rows: a row repeats a reading, later rows have later positions, *)
(* and no difference counts more than what is behind any earlier row.      *)
(***************************************************************************)

Least(p) == p \in gas /\ \A q \in gas : p.readAt <= q.readAt

Origin(q) ==
    \E r \in Reading : /\ r.at <= meterTime /\ r.gasAt # NoGas /\ HasOwnGas(r)
                       /\ q.readAt = GasKey(r) /\ q.delivered = r.gasAt

GasRowsInv ==
    /\ \A q \in gas : Origin(q)
    /\ \A q \in gas, s \in Unprocessed : s.gasAt # NoGas => q.readAt <= GasKey(s)
    /\ \A p, q \in gas : p.readAt < q.readAt =>
           p.delivered <= q.delivered /\ q.diff <= q.delivered - p.delivered
    /\ \A q \in gas : Least(q) => q.diff <= 0

\* Rows of later hours have later positions.
LEMMA LaterKeyLaterGas ==
    ASSUME NEW r \in Reading, NEW s \in Reading, HasOwnGas(r), HasOwnGas(s), GasKey(r) < GasKey(s)
    PROVE  r.gasAt <= s.gasAt
<1>1. r.at \in Nat /\ s.at \in Nat /\ GasKey(r) \in Int /\ GasKey(s) \in Int
  BY GasKeyInt DEF Reading
<1>2. r.at <= s.at
  <2>1. ~(s.at <= r.at)
    BY <1>1, GasKeyMonotone
  <2> QED
    BY <1>1, <2>1
<1> QED
  BY <1>1, <1>2, FloorMonotone, CompactorAssumption DEF HasOwnGas

\* A new gas row is behind all others.
LEMMA GasKeepsRows ==
    ASSUME TypeOK, TablesInv, InOrder, GasRowsInv, CompactGas
    PROVE  GasRowsInv'
<1>1. /\ current \in Unprocessed /\ current \in Reading /\ current.at <= meterTime
      /\ UNCHANGED <<readings, meterTime>>
      /\ \A s \in Unprocessed : current.at <= s.at /\ s \in Reading
  BY DEF CompactGas, meterVars, TypeOK, InOrder, Unprocessed
<1>2. CASE gas' = gas
  BY <1>1, <1>2 DEF GasRowsInv, Origin, Least, Unprocessed
<1>3. CASE gas' # gas
  <2> DEFINE k == GasKey(current)
             new == [readAt |-> k, delivered |-> current.gasAt, diff |-> GasDiff(current.gasAt, k)]
  <2>1. current.gasAt # NoGas /\ ~HasRow(gas, k) /\ gas' = gas \union {new}
    BY <1>3 DEF CompactGas
  <2>2. k \in Int /\ current.gasAt \in Int /\ HasOwnGas(current)
    BY <1>1, <2>1, GasKeyInt DEF Reading, InOrder, Unprocessed
  <2>3. new.readAt = k /\ new.delivered = current.gasAt /\ new.diff = GasDiff(current.gasAt, k)
    OBVIOUS
  <2> HIDE DEF new
  <2>4. ASSUME NEW q \in gas
        PROVE  /\ q.readAt \in Int /\ q.delivered \in Int /\ q.diff \in Int
               /\ q.readAt < k /\ q.delivered <= current.gasAt
    <3>1. q.readAt \in Int /\ q.delivered \in Int /\ q.diff \in Int
      BY DEF TypeOK, GasRow
    <3>2. q.readAt <= k /\ q.readAt # k
      BY <1>1, <2>1 DEF GasRowsInv, HasRow
    <3>3. PICK r \in Reading : HasOwnGas(r) /\ q.readAt = GasKey(r) /\ q.delivered = r.gasAt
      BY DEF GasRowsInv, Origin
    <3>4. GasKey(r) < GasKey(current)
      BY <2>2, <3>1, <3>2, <3>3
    <3>5. r.gasAt <= current.gasAt
      BY <1>1, <2>2, <3>3, <3>4, LaterKeyLaterGas
    <3> QED
      BY <2>2, <3>1, <3>2, <3>3, <3>5
  <2>5. /\ new.diff \in Int /\ \A p \in gas : new.diff <= new.delivered - p.delivered
        /\ gas = {} => new.diff <= 0
    <3>1. CASE PreviousGas(k) = {}
      <4>1. new.diff = 0
        BY <2>3, <3>1 DEF GasDiff
      <4> QED
        BY <2>2, <2>3, <2>4, <4>1
    <3>2. CASE PreviousGas(k) # {}
      <4>1. PICK x : x = CHOOSE p \in PreviousGas(k) : TRUE
        OBVIOUS
      <4>2. x \in PreviousGas(k)
        BY <3>2, <4>1
      <4>3. x \in gas /\ \A q \in gas : q.readAt <= x.readAt
        BY <2>4, <4>2 DEF PreviousGas
      <4>4. new.diff = current.gasAt - x.delivered
        BY <2>3, <3>2, <4>1 DEF GasDiff
      <4>5. \A p \in gas : p.delivered <= x.delivered
        <5> TAKE p \in gas
        <5>1. CASE p.readAt = x.readAt
          BY <2>4, <4>3, <5>1 DEF TablesInv, OneRowPerMoment
        <5>2. CASE p.readAt # x.readAt
          <6>1. p.readAt < x.readAt
            BY <2>4, <4>3, <5>2
          <6> QED
            BY <4>3, <6>1 DEF GasRowsInv
        <5> QED
          BY <5>1, <5>2
      <4> QED
        BY <2>2, <2>3, <2>4, <4>3, <4>4, <4>5
    <3> QED
      BY <3>1, <3>2
  <2> HIDE DEF k
  <2>6. \A q \in gas' : Origin(q)'
    <3>1. \A q : Origin(q)' <=> Origin(q)
      BY <1>1 DEF Origin
    <3>2. Origin(new)
      BY <1>1, <2>1, <2>2, <2>3 DEF Origin, k
    <3> QED
      BY <2>1, <3>1, <3>2 DEF GasRowsInv
  <2>7. \A q \in gas', s \in Unprocessed' : s.gasAt # NoGas => q.readAt <= GasKey(s)
    <3>1. \A s \in Unprocessed : s.gasAt # NoGas => k <= GasKey(s)
      <4> SUFFICES ASSUME NEW s \in Unprocessed, s.gasAt # NoGas PROVE k <= GasKey(s)
        OBVIOUS
      <4>1. s.at \in Nat /\ current.at \in Nat /\ current.at <= s.at /\ HasOwnGas(s)
        BY <1>1 DEF Reading, InOrder, Unprocessed
      <4> QED
        BY <2>2, <4>1, GasKeyMonotone DEF k
    <3>2. Unprocessed' = Unprocessed
      BY <1>1 DEF Unprocessed
    <3> QED
      BY <2>1, <2>3, <3>1, <3>2 DEF GasRowsInv
  <2>8. \A p, q \in gas' : p.readAt < q.readAt =>
            p.delivered <= q.delivered /\ q.diff <= q.delivered - p.delivered
    <3> SUFFICES ASSUME NEW p \in gas', NEW q \in gas', p.readAt < q.readAt
                 PROVE  p.delivered <= q.delivered /\ q.diff <= q.delivered - p.delivered
      OBVIOUS
    <3>1. CASE p \in gas /\ q \in gas
      BY <3>1 DEF GasRowsInv
    <3>2. CASE p \in gas /\ q = new
      BY <2>3, <2>4, <2>5, <3>2
    <3>3. CASE p = new
      BY <2>1, <2>2, <2>3, <2>4, <3>3
    <3> QED
      BY <2>1, <3>1, <3>2, <3>3
  <2>9. \A q \in gas' : Least(q)' => q.diff <= 0
    <3> SUFFICES ASSUME NEW q \in gas', \A p \in gas' : q.readAt <= p.readAt
                 PROVE  q.diff <= 0
      BY DEF Least
    <3>1. CASE q \in gas
      BY <2>1, <3>1 DEF GasRowsInv, Least
    <3>2. CASE q = new
      <4>1. gas = {}
        BY <2>1, <2>2, <2>3, <2>4, <3>2
      <4> QED
        BY <2>5, <3>2, <4>1
    <3> QED
      BY <2>1, <3>1, <3>2
  <2> QED
    BY <2>6, <2>7, <2>8, <2>9 DEF GasRowsInv, GasKey
<1> QED
  BY <1>2, <1>3

\* The first gas row is not deleted.
LEMMA LeastKept ==
    ASSUME TypeOK, NEW k \in Int, NEW first, NEW last, Cleans(gas, gas', k, first, last)
    PROVE  \A p \in gas' : (\A q \in gas' : p.readAt <= q.readAt) => Least(p)
<1> TAKE p \in gas'
<1> HAVE \A q \in gas' : p.readAt <= q.readAt
<1> DEFINE rows == {x \in gas : N * k <= x.readAt /\ x.readAt < N * k + N}
<1>1. /\ first \in rows /\ \A y \in rows : first.readAt <= y.readAt
      /\ gas' = gas \ (rows \ {first, last})
  BY DEF Cleans, IsEnds
<1>2. first \in gas' /\ p \in gas /\ \A x \in gas : x.readAt \in Int
  BY <1>1 DEF TypeOK, GasRow
<1>3. ASSUME NEW q \in gas
      PROVE  p.readAt <= q.readAt
  <2>1. CASE q \in gas'
    BY <2>1
  <2>2. CASE q \in rows
    BY <1>1, <1>2, <2>2
  <2> QED
    BY <1>1, <2>1, <2>2
<1> QED
  BY <1>2, <1>3 DEF Least

\* Every step keeps the gas rows so.
LEMMA GasRowsStep ==
    TypeOK /\ TablesInv /\ RetentionInv /\ InOrder /\ GasRowsInv /\ [PipelineNext]_allVars => GasRowsInv'
<1> SUFFICES ASSUME TypeOK, TablesInv, RetentionInv, InOrder, GasRowsInv, [PipelineNext]_allVars
             PROVE  GasRowsInv'
  OBVIOUS
<1>1. ASSUME NEW t \in Ticks, Receive(t)
      PROVE  GasRowsInv'
  <2>1. t \in Nat /\ t > meterTime /\ meterTime \in Int /\ meterTime' = t
    BY <1>1, CompactorAssumption DEF Receive, Ticks, TypeOK
  <2>2. PICK g \in GasStamps(t) : Insert(t, g)
    BY <1>1 DEF Receive
  <2> PICK new : new = [pk |-> nextPk, at |-> t, gasAt |-> g, processed |-> FALSE]
    OBVIOUS
  <2>3. readings' = readings \union {new} /\ gas' = gas
    BY <2>2 DEF Insert
  <2>4. new.at = t /\ (new.gasAt # NoGas => HasOwnGas(new))
    BY DEF GasStamps, HasOwnGas
  <2>5. \A q \in gas : new.gasAt # NoGas => q.readAt <= GasKey(new)
    <3> SUFFICES ASSUME NEW q \in gas, new.gasAt # NoGas
                 PROVE  q.readAt <= GasKey(new)
      OBVIOUS
    <3>1. PICK r \in Reading : r.at <= meterTime /\ HasOwnGas(r) /\ q.readAt = GasKey(r)
      BY DEF GasRowsInv, Origin
    <3>2. r.at \in Nat /\ r.at <= t
      BY <2>1, <3>1 DEF Reading
    <3> QED
      BY <2>1, <2>4, <3>1, <3>2, GasKeyMonotone
  <2>6. \A q \in gas' : Origin(q)'
    <3> SUFFICES ASSUME NEW q \in gas PROVE Origin(q)'
      BY <2>3
    <3>1. PICK r \in Reading : /\ r.at <= meterTime /\ r.gasAt # NoGas /\ HasOwnGas(r)
                               /\ q.readAt = GasKey(r) /\ q.delivered = r.gasAt
      BY DEF GasRowsInv, Origin
    <3>2. r.at <= meterTime'
      BY <2>1, <3>1 DEF Reading
    <3> QED
      BY <3>1, <3>2 DEF Origin, HasOwnGas, GasKey
  <2>7. Unprocessed' \subseteq Unprocessed \union {new}
    BY <2>3 DEF Unprocessed
  <2> QED
    BY <2>3, <2>5, <2>6, <2>7 DEF GasRowsInv, Least, GasKey
<1>2. CASE CompactGas
  BY <1>2, GasKeepsRows
<1>3. CASE MarkProcessed
  <2>1. readings' = (readings \ {current}) \union {Done(current)} /\ gas' = gas /\ meterTime' = meterTime
    BY <1>3 DEF MarkProcessed, meterVars
  <2>2. Unprocessed' \subseteq Unprocessed
    BY <2>1 DEF Unprocessed, Done
  <2> QED
    BY <2>1, <2>2 DEF GasRowsInv, Origin, Least, GasKey
<1>4. CASE UNCHANGED <<readings, gas, meterTime>>
  BY <1>4 DEF GasRowsInv, Origin, Least, Unprocessed, GasKey
<1>5. CASE RetentionStep /\ meterTime' = meterTime
  <2>1. gas' \subseteq gas /\ Unprocessed' \subseteq Unprocessed
    BY <1>5, RetentionDeletes DEF Unprocessed
  <2>2. \A p \in gas' : Least(p)' => Least(p)
    <3>1. CASE gas' = gas
      BY <3>1 DEF Least
    <3>2. ASSUME NEW k \in Int, NEW first, NEW last, Cleans(gas, gas', k, first, last)
          PROVE  \A p \in gas' : Least(p)' => Least(p)
      BY <3>2, LeastKept DEF Least
    <3>3. CASE Retain!CleanHour
      BY <3>1, <3>2, <3>3, CleaningKeepsEnds
    <3> QED
      BY <1>5, <3>1, <3>3 DEF RetentionStep, Retain!Run, Retain!Start, Retain!NextModel, Retain!Abort
  <2>3. \A q : Origin(q)' <=> Origin(q)
    BY <1>5 DEF Origin, GasKey
  <2> QED
    BY <2>1, <2>2, <2>3 DEF GasRowsInv, GasKey
<1> QED
  BY <1>1, <1>2, <1>3, <1>4, <1>5, StepOfCompactor
     DEF StepInOrder, Pass, Tick, ChangeGrouping, StartPass, Compact, NotReady, CompactElectricity, Crash,
         vars, dbVars, meterVars

\* So they always are.
LEMMA PipelineGasRows == PipelineSpec => []GasRowsInv
<1>1. PipelineInit => GasRowsInv
  BY DEF PipelineInit, Init, GasRowsInv
<1>2. TraceInv => InOrder
  BY DEF TraceInv
<1> QED
  BY <1>1, <1>2, GasRowsStep, PipelineTypes, PipelineTables, PipelineRetention, PipelineTraces, PTL
     DEF PipelineSpec

\* Gas rows lie between the hour before the epoch and the latest telegram.
LEMMA GasRowsBounded ==
    ASSUME TypeOK, GasRowsInv, NEW q \in gas
    PROVE  meterTime + N \in Nat /\ q.readAt + N \in 0..(meterTime + N)
<1>1. PICK r \in Reading : r.at <= meterTime /\ HasOwnGas(r) /\ q.readAt = GasKey(r)
  BY DEF GasRowsInv, Origin
<1>2. N \in Nat \ {0} /\ GasInterval \in Nat \ {0} /\ N = TicksPerHour
  BY MeterTimeAssumption, CompactorAssumption DEF N, TicksPerHour
<1>3. r.at \in Nat /\ meterTime \in Int
  BY DEF Reading, TypeOK
<1>4. r.at % GasInterval \in Nat
  BY <1>2, <1>3
<1>5. r.gasAt \in Nat /\ r.gasAt <= r.at
  <2>1. r.at - (r.at % GasInterval) \in Nat
    BY <1>2, <1>3, FloorMonotone, r.at <= r.at
  <2>2. r.at - (r.at % GasInterval) <= r.at
    BY <1>3, <1>4
  <2> QED
    BY <1>1, <2>1, <2>2 DEF HasOwnGas
<1>6. HourStart(r.gasAt) \in Nat /\ HourStart(r.gasAt) <= r.gasAt
  <2>1. r.gasAt % N \in Nat /\ r.gasAt <= r.gasAt
    BY <1>2, <1>5
  <2> QED
    BY <1>2, <1>5, <2>1, FloorMonotone DEF HourStart
<1>7. GasKey(r) \in Int /\ -N <= GasKey(r) /\ GasKey(r) <= r.gasAt
  BY <1>2, <1>5, <1>6 DEF GasKey
<1> QED
  BY <1>1, <1>2, <1>3, <1>5, <1>7

\* So there are a first and a last one of any of them.
LEMMA GasEndsExist ==
    ASSUME TypeOK, GasRowsInv, NEW rows, rows \subseteq gas, rows # {}
    PROVE  \E first, last \in rows : IsEnds(rows, first, last)
<1>1. PICK q \in gas : q \in rows
  OBVIOUS
<1>2. meterTime + N \in Nat /\ N \in Int /\ \A x \in rows : x.readAt \in Int /\ x.readAt + N \in 0..(meterTime + N)
  BY <1>1, GasRowsBounded, MeterTimeAssumption DEF TypeOK, GasRow, N, TicksPerHour
<1> QED
  BY <1>2, BoundedEndsExist

\* The first of all.
LEMMA LeastGasExists ==
    ASSUME TypeOK, GasRowsInv, gas # {}
    PROVE  \E p \in gas : Least(p)
BY GasEndsExist, gas \subseteq gas DEF IsEnds, Least

\* What an hour counts is behind every row before it.
HourIsBehind(h, q) ==
    \A p \in gas : p.readAt < h \/ Least(p) =>
        Stats!HourGas(Stats!Within(gas, h, h + N)) <= q.delivered - p.delivered

\* An hour counts nothing, or what is between its last row and any row before it, at most.
LEMMA HourGasBound ==
    ASSUME TypeOK, TablesInv, GasRowsInv, NEW h \in Int,
           NEW R, R = Stats!Within(gas, h, h + N)
    PROVE  /\ Stats!HourGas(R) \in Int
           /\ Stats!HourGas(R) = 0 \/ \E q \in R : HourIsBehind(h, q)
<1>1. R = {x \in gas : h <= x.readAt /\ x.readAt < h + N}
  BY DEF Stats!Within
<1>2. \A x \in gas : x.readAt \in Int /\ x.delivered \in Int /\ x.diff \in Int
  BY DEF TypeOK, GasRow
<1>3. Apart(gas) /\ Apart(R)
  BY <1>1, <1>2 DEF Apart, TablesInv, OneRowPerMoment
<1>4. IsFiniteSet(R) /\ R \in SUBSET gas
  BY <1>1, FS_Subset DEF TablesInv
<1>5. CASE R = {}
  <2>1. Stats!Cardinality(R) # 1
    <3>1. Cardinality(R) = 0
      BY <1>5, FS_EmptySet
    <3> QED
      BY <3>1 DEF Stats!Cardinality, Cardinality
  <2> QED
    BY <1>5, <2>1 DEF Stats!HourGas
<1>6. ASSUME R # {}
      PROVE  \E q \in R : Stats!HourGas(R) \in Int /\ HourIsBehind(h, q)
  <2>1. PICK f \in R, l \in R : IsEnds(R, f, l)
    BY <1>4, <1>6, GasEndsExist
  <2>2. Stats!First(R) = f /\ Stats!Last(R) = l /\ f \in gas /\ l \in gas
    BY <1>3, <1>4, <2>1, EndsAreChosen
  <2>3. \A p \in gas : p.readAt < h => p.readAt < f.readAt /\ p.readAt < l.readAt
    BY <1>1, <1>2, <2>2
  <2>4. \A p \in gas : Least(p) => p = f \/ p.readAt < f.readAt
    BY <1>2, <1>3, <2>2 DEF Least, Apart
  <2>5. CASE Cardinality(R) = 1
    <3>1. f = l
      <4>1. PICK x : R = {x}
        BY <1>4, <2>5, FS_Singleton
      <4> QED
        BY <4>1
    <3>2. Stats!HourGas(R) = l.diff
      BY <1>6, <2>2, <2>5, <3>1 DEF Stats!HourGas, Stats!Cardinality, Cardinality
    <3>3. \A p \in gas : p.readAt < h \/ Least(p) => l.diff <= l.delivered - p.delivered
      <4> SUFFICES ASSUME NEW p \in gas, p.readAt < h \/ Least(p)
                   PROVE  l.diff <= l.delivered - p.delivered
        OBVIOUS
      <4>1. CASE p.readAt < l.readAt
        BY <2>2, <4>1 DEF GasRowsInv
      <4>2. CASE p = l /\ Least(p)
        <5>1. l.diff <= 0
          BY <4>2 DEF GasRowsInv
        <5> QED
          BY <1>2, <2>2, <4>2, <5>1
      <4>3. p.readAt < l.readAt \/ (p = l /\ Least(p))
        BY <2>3, <2>4, <3>1
      <4> QED
        BY <4>1, <4>2, <4>3
    <3> QED
      BY <1>2, <2>2, <3>2, <3>3 DEF HourIsBehind
  <2>6. CASE Cardinality(R) # 1
    <3>1. Stats!HourGas(R) = l.delivered - f.delivered
      BY <1>6, <2>2, <2>6 DEF Stats!HourGas, Stats!Cardinality, Cardinality
    <3>2. \A p \in gas : p.readAt < h \/ Least(p) => p.delivered <= f.delivered
      <4> SUFFICES ASSUME NEW p \in gas, p.readAt < h \/ Least(p)
                   PROVE  p.delivered <= f.delivered
        OBVIOUS
      <4>1. p = f \/ p.readAt < f.readAt
        BY <2>3, <2>4
      <4> QED
        BY <1>2, <2>2, <4>1 DEF GasRowsInv
    <3>3. \A p \in gas : p.readAt < h \/ Least(p) => l.delivered - f.delivered <= l.delivered - p.delivered
      BY <1>2, <2>2, <3>2
    <3> QED
      BY <1>2, <2>2, <3>1, <3>3 DEF HourIsBehind
  <2> QED
    BY <2>5, <2>6
<1> QED
  BY <1>5, <1>6

\* What a set of hours counts in all is behind every row before the day.
SumIsBehind(T, d, q) ==
    \A p \in gas : p.readAt < DayStart(d) \/ Least(p) => GasSum(T) <= q.delivered - p.delivered

\* The hours of a day up to the nth.
UpToHour(T, d, n) == {s \in T : s.hour < DayStart(d) + N * n}

SumBound(T, d, n) ==
    /\ IsFiniteSet(T)
    /\ \A s \in T : s.gas \in Int
    /\ GasSum(T) \in Int
    /\ \/ GasSum(T) <= 0
       \/ \E q \in gas : /\ DayStart(d) <= q.readAt /\ q.readAt < DayStart(d) + N * n
                         /\ SumIsBehind(T, d, q)

\* With the next hour.
LEMMA SumWithHour ==
    ASSUME TypeOK, TablesInv, GasRowsInv, NEW d \in Int, NEW n \in Nat,
           NEW S, SumBound(S, d, n),
           NEW s, s \notin S, s.hour = DayStart(d) + N * n,
           s.gas = Stats!HourGas(Stats!Within(gas, s.hour, s.hour + N))
    PROVE  SumBound(S \union {s}, d, n + 1)
<1> DEFINE h == s.hour
           T == S \union {s}
           a == GasSum(S)
<1>1. N \in Nat \ {0} /\ DayStart(d) \in Int /\ h \in Int /\ DayStart(d) <= h /\ h + N = DayStart(d) + N * (n + 1)
  <2>1. N \in Nat \ {0} /\ DayStart(d) \in Int
    BY MeterTimeAssumption DEF N, TicksPerHour, TicksPerDay, DayStart
  <2>2. N * n \in Nat /\ N * (n + 1) = N * n + N
    BY <2>1
  <2> QED
    BY <2>1, <2>2
<1>2. \A x \in gas : x.readAt \in Int /\ x.delivered \in Int
  BY DEF TypeOK, GasRow
<1> PICK R : R = Stats!Within(gas, h, h + N)
  OBVIOUS
<1>3. /\ s.gas = Stats!HourGas(R) /\ s.gas \in Int
      /\ s.gas = 0 \/ \E q \in R : HourIsBehind(h, q)
  <2>1. s.gas = Stats!HourGas(R)
    OBVIOUS
  <2> HIDE DEF h
  <2>2. Stats!HourGas(R) \in Int /\ (Stats!HourGas(R) = 0 \/ \E q \in R : HourIsBehind(h, q))
    BY <1>1, HourGasBound
  <2> QED
    BY <2>1, <2>2
<1>4. R = {x \in gas : h <= x.readAt /\ x.readAt < h + N}
  BY DEF Stats!Within
<1>5. IsFiniteSet(T) /\ (\A x \in T : x.gas \in Int) /\ a \in Int
  BY <1>3, FS_AddElement DEF SumBound
<1>6. GasSum(T) = s.gas + a /\ GasSum(T) \in Int
  <2>1. GasSum(T) \in Int /\ \A x \in T : GasSum(T) = x.gas + GasSum(T \ {x})
    <3> HIDE DEF T
    <3> QED
      BY <1>5, GasAdds
  <2>2. T \ {s} = S /\ s \in T
    OBVIOUS
  <2> HIDE DEF T
  <2> QED
    BY <2>1, <2>2
<1> HIDE DEF T, a
<1>7. a <= 0 \/ \E q \in gas : DayStart(d) <= q.readAt /\ q.readAt < h /\ SumIsBehind(S, d, q)
  BY DEF SumBound, a
<1>8. CASE s.gas = 0
  <2>1. GasSum(T) = a
    BY <1>5, <1>6, <1>8
  <2>2. CASE a <= 0
    BY <1>5, <1>6, <2>1, <2>2 DEF SumBound, T
  <2>3. ASSUME NEW q \in gas, DayStart(d) <= q.readAt, q.readAt < h, SumIsBehind(S, d, q)
        PROVE  SumBound(T, d, n + 1)
    <3>1. q.readAt < DayStart(d) + N * (n + 1)
      <4> PICK m : m = DayStart(d) + N * (n + 1)
        OBVIOUS
      <4>1. m = h + N
        BY <1>1
      <4>2. q.readAt < h + N
        BY <1>1, <1>2, <2>3
      <4> QED
        BY <4>1, <4>2
    <3>2. SumIsBehind(T, d, q)
      BY <2>1, <2>3 DEF SumIsBehind, a
    <3> QED
      BY <1>5, <1>6, <2>3, <3>1, <3>2 DEF SumBound
  <2> QED
    BY <1>7, <2>2, <2>3 DEF T
<1>9. ASSUME NEW q \in R, HourIsBehind(h, q)
      PROVE  SumBound(T, d, n + 1)
  <2>1. q \in gas /\ h <= q.readAt /\ q.readAt < h + N
    BY <1>4
  <2>2. \A p \in gas : p.readAt < h \/ Least(p) => s.gas <= q.delivered - p.delivered
    BY <1>3, <1>9 DEF HourIsBehind
  <2>3. SumIsBehind(T, d, q)
    <3> SUFFICES ASSUME NEW p \in gas, p.readAt < DayStart(d) \/ Least(p)
                 PROVE  GasSum(T) <= q.delivered - p.delivered
      BY DEF SumIsBehind
    <3>1. CASE a <= 0
      <4>1. p.readAt < h \/ Least(p)
        BY <1>1, <1>2
      <4>2. s.gas <= q.delivered - p.delivered
        BY <2>2, <4>1
      <4> QED
        BY <1>2, <1>3, <1>5, <1>6, <2>1, <3>1, <4>2
    <3>2. ASSUME NEW o \in gas, o.readAt < h, SumIsBehind(S, d, o)
          PROVE  GasSum(T) <= q.delivered - p.delivered
      <4>1. s.gas <= q.delivered - o.delivered
        BY <2>2, <3>2
      <4>2. a <= o.delivered - p.delivered
        BY <3>2 DEF SumIsBehind, a
      <4> QED
        BY <1>2, <1>3, <1>5, <1>6, <2>1, <4>1, <4>2
    <3> QED
      BY <1>7, <3>1, <3>2
  <2>4. DayStart(d) <= q.readAt /\ q.readAt < DayStart(d) + N * (n + 1)
    <3> PICK m : m = DayStart(d) + N * (n + 1)
      OBVIOUS
    <3>1. m = h + N
      BY <1>1
    <3>2. DayStart(d) <= q.readAt /\ q.readAt < h + N
      BY <1>1, <1>2, <2>1
    <3> QED
      BY <3>1, <3>2
  <2> QED
    BY <1>5, <1>6, <2>1, <2>3, <2>4 DEF SumBound
<1> QED
  BY <1>3, <1>8, <1>9 DEF T

\* So it is for every number of hours.
LEMMA DaySumBound ==
    ASSUME TypeOK, TablesInv, GasRowsInv, NEW d \in Int,
           NEW T, T \subseteq {Stats!HourStatistics(h) : h \in Stats!HoursOf(d)}
    PROVE  SumBound(T, d, HoursPerDay)
<1> DEFINE U(n) == UpToHour(T, d, n)
           Bad == {n \in Nat : ~SumBound(U(n), d, n)}
<1>1. /\ N \in Nat \ {0} /\ DayStart(d) \in Int /\ HoursPerDay \in Nat \ {0}
      /\ Stats!TicksPerHour = N
  BY MeterTimeAssumption DEF N, TicksPerHour, TicksPerDay, DayStart, Stats!TicksPerHour
<1>2. \A s \in T : \E i \in 0..(HoursPerDay - 1) :
          /\ s = Stats!HourStatistics(s.hour)
          /\ s.hour = DayStart(d) + N * i
          /\ s.gas = Stats!HourGas(Stats!Within(gas, s.hour, s.hour + N))
  <2> TAKE s \in T
  <2>1. PICK h \in Stats!HoursOf(d) : s = Stats!HourStatistics(h)
    OBVIOUS
  <2>2. PICK i \in 0..(HoursPerDay - 1) : h = DayStart(d) + N * i
    BY <1>1, <2>1, SameDays DEF Stats!HoursOf
  <2>3. s.hour = h /\ s.gas = Stats!HourGas(Stats!Within(gas, h, h + N))
    BY <1>1, <2>1 DEF Stats!HourStatistics
  <2> QED
    BY <2>1, <2>2, <2>3
<1>3. Bad = {}
  <2> SUFFICES ASSUME Bad # {} PROVE FALSE
    OBVIOUS
  <2>1. PICK n \in Bad : \A m \in Bad : n =< m
    <3>1. Bad \subseteq Nat
      OBVIOUS
    <3> HIDE DEF Bad
    <3> QED
      BY <3>1, LeastExists
  <2>2. n \in Nat /\ ~SumBound(U(n), d, n)
    BY <2>1
  <2>3. CASE n = 0
    <3>1. U(0) = {}
      <4> SUFFICES ASSUME NEW s \in U(0) PROVE FALSE
        OBVIOUS
      <4>1. s \in T /\ s.hour < DayStart(d) + N * 0
        BY DEF UpToHour
      <4>2. PICK i \in 0..(HoursPerDay - 1) : s.hour = DayStart(d) + N * i
        BY <1>2, <4>1
      <4>3. N * i \in Nat /\ N * 0 = 0
        BY <1>1
      <4> QED
        BY <1>1, <4>1, <4>2, <4>3
    <3>2. SumBound({}, d, 0)
      BY GasAdds, FS_EmptySet DEF SumBound
    <3> HIDE DEF U
    <3> QED
      BY <2>2, <2>3, <3>1, <3>2
  <2>4. CASE n # 0
    <3> DEFINE m == n - 1
               g == DayStart(d) + N * m
               s == Stats!HourStatistics(g)
    <3>1. m \in Nat /\ n = m + 1 /\ SumBound(U(m), d, m)
      <4>1. m \in Nat /\ n = m + 1 /\ ~(n =< m)
        BY <2>2, <2>4
      <4>2. m \notin Bad
        BY <2>1, <4>1
      <4> HIDE DEF U, m
      <4> QED
        BY <4>1, <4>2
    <3> HIDE DEF m
    <3>2. N * m \in Nat /\ N * n = N * m + N /\ g \in Int
      BY <1>1, <3>1
    <3>3. \A x \in T : x \in U(n) <=> x \in U(m) \/ x = s
      <4> TAKE x \in T
      <4>1. PICK i \in 0..(HoursPerDay - 1) : x = Stats!HourStatistics(x.hour) /\ x.hour = DayStart(d) + N * i
        BY <1>2
      <4>2. x \in U(n) <=> N * i < N * n
        BY <1>1, <2>2, <4>1 DEF UpToHour
      <4>3. x \in U(m) <=> N * i < N * m
        BY <1>1, <3>1, <4>1 DEF UpToHour
      <4>4. N * i < N * n <=> (N * i < N * m \/ i = m)
        <5>1. N * i < N * n <=> i < n
          BY <1>1, <2>2
        <5>2. N * i < N * m <=> i < m
          BY <1>1, <3>1
        <5> QED
          BY <3>1, <5>1, <5>2
      <4>5. x = s <=> i = m
        <5>1. s.hour = g
          BY DEF Stats!HourStatistics
        <5>2. i = m => x = s
          BY <4>1
        <5>3. x = s => N * i = N * m
          <6> HIDE DEF s
          <6> SUFFICES ASSUME x = s PROVE N * i = N * m
            OBVIOUS
          <6>1. DayStart(d) + N * i = DayStart(d) + N * m
            BY <4>1, <5>1
          <6> PICK a, b : a = N * i /\ b = N * m
            OBVIOUS
          <6>2. a \in Int /\ b \in Int
            BY <1>1, <3>1
          <6>3. DayStart(d) + a = DayStart(d) + b
            BY <6>1
          <6> QED
            BY <1>1, <6>2, <6>3
        <5>4. N * i = N * m => i = m
          BY <1>1, <3>1
        <5> QED
          BY <5>2, <5>3, <5>4
      <4> QED
        BY <4>2, <4>3, <4>4, <4>5
    <3>4. U(n) \subseteq T /\ U(m) \subseteq T
      BY DEF UpToHour
    <3>5. CASE s \notin T
      <4>1. U(n) = U(m)
        BY <3>3, <3>4, <3>5
      <4>2. SumBound(U(m), d, n)
        <5>1. \A x \in gas : x.readAt < DayStart(d) + N * m => x.readAt < DayStart(d) + N * n
          BY <1>1, <3>2 DEF TypeOK, GasRow
        <5> HIDE DEF U
        <5> QED
          BY <3>1, <5>1 DEF SumBound
      <4> HIDE DEF U
      <4> QED
        BY <2>2, <4>1, <4>2
    <3>6. CASE s \in T
      <4>1. U(n) = U(m) \union {s}
        BY <3>3, <3>4, <3>6
      <4>2. s.hour = g /\ s.gas = Stats!HourGas(Stats!Within(gas, s.hour, s.hour + N))
        BY <1>1 DEF Stats!HourStatistics
      <4>3. s \notin U(m)
        BY <3>2, <4>2 DEF UpToHour
      <4> HIDE DEF U, s
      <4>4. SumBound(U(m) \union {s}, d, m + 1)
        BY <3>1, <4>2, <4>3, SumWithHour
      <4> QED
        BY <2>2, <3>1, <4>1, <4>4
    <3> QED
      BY <3>5, <3>6
  <2> QED
    BY <2>3, <2>4
<1>4. SumBound(U(HoursPerDay), d, HoursPerDay)
  <2> HIDE DEF U
  <2> QED
    BY <1>1, <1>3
<1>5. U(HoursPerDay) = T
  <2> SUFFICES ASSUME NEW s \in T PROVE s.hour < DayStart(d) + N * HoursPerDay
    BY DEF UpToHour
  <2>1. PICK i \in 0..(HoursPerDay - 1) : s.hour = DayStart(d) + N * i
    BY <1>2
  <2>2. N * i < N * HoursPerDay
    BY <1>1
  <2> QED
    BY <1>1, <2>1, <2>2
<1> HIDE DEF U
<1> QED
  BY <1>4, <1>5

-----------------------------------------------------------------------------
(***************************************************************************)
(* All days together. What they count is behind the first row of all,      *)
(* which retention never deletes.                                          *)
(***************************************************************************)

TotalIsBehind(total, p, q) ==
    /\ DayOf(q.readAt) \in Stats!DaysWithStats
    /\ Least(p)
    /\ total <= q.delivered - p.delivered

TotalInv ==
    /\ IsFiniteSet(dayStats)
    /\ \A s \in dayStats : s.gas \in Int
    /\ GasSum(dayStats) \in Int
    /\ \A x \in hourStats : DayOf(x.hour) \in Stats!DaysWithStats
    /\ GasSum(dayStats) > 0 => \E p, q \in gas : TotalIsBehind(GasSum(dayStats), p, q)

\* The hours of a day are of that day.
LEMMA HoursAreOfDay ==
    ASSUME NEW d \in Int, NEW h \in Stats!HoursOf(d)
    PROVE  h \in Int /\ DayOf(h) = d
<1>1. /\ N \in Nat \ {0} /\ HoursPerDay \in Nat \ {0} /\ Stats!TicksPerHour = N
      /\ DayStart(d) \in Int /\ DayStart(d + 1) = DayStart(d) + N * HoursPerDay
  <2>1. N \in Nat \ {0} /\ HoursPerDay \in Nat \ {0} /\ Stats!TicksPerHour = N /\ TicksPerDay = N * HoursPerDay
    BY MeterTimeAssumption DEF N, TicksPerHour, TicksPerDay, Stats!TicksPerHour
  <2>2. TicksPerDay \in Nat
    BY <2>1
  <2>3. DayStart(d) \in Int /\ DayStart(d + 1) = DayStart(d) + TicksPerDay
    BY <2>2 DEF DayStart
  <2> QED
    BY <2>1, <2>3
<1>2. PICK i \in 0..(HoursPerDay - 1) : h = DayStart(d) + N * i
  BY <1>1, SameDays DEF Stats!HoursOf
<1>3. N * i \in Nat /\ N * i < N * HoursPerDay
  BY <1>1
<1>4. h \in Int /\ DayStart(d) <= h /\ h < DayStart(d + 1)
  BY <1>1, <1>2, <1>3
<1> QED
  BY <1>4, DayIsUnique

\* A gas row of which the statistics are closed is kept, or one behind it is.
LEMMA GasStaysBehind ==
    ASSUME TypeOK, TablesInv, GasRowsInv, NEW k \in Int, NEW first, NEW last,
           Cleans(gas, gas', k, first, last)
    PROVE  /\ \A p \in gas : Least(p) => p \in gas' /\ Least(p)'
           /\ \A q \in gas : \E o \in gas' : DayOf(o.readAt) = DayOf(q.readAt) /\ q.delivered <= o.delivered
<1> DEFINE rows == {x \in gas : N * k <= x.readAt /\ x.readAt < N * k + N}
<1>1. IsEnds(rows, first, last) /\ gas' = gas \ (rows \ {first, last})
  BY DEF Cleans
<1>2. \A x \in gas : x.readAt \in Int /\ x.delivered \in Int
  BY DEF TypeOK, GasRow
<1>3. first \in gas /\ last \in gas' /\ last \in gas /\ last \in rows
  BY <1>1 DEF IsEnds
<1>4. ASSUME NEW p \in gas, Least(p)
      PROVE  p \in gas' /\ Least(p)'
  <2>1. p \in rows => p = first
    <3> SUFFICES ASSUME p \in rows PROVE p = first
      OBVIOUS
    <3>1. p.readAt <= first.readAt /\ first.readAt <= p.readAt
      BY <1>1, <1>3, <1>4 DEF Least, IsEnds
    <3> QED
      BY <1>2, <1>3, <3>1 DEF TablesInv, OneRowPerMoment
  <2>2. p \in gas' /\ gas' \subseteq gas
    BY <1>1, <2>1
  <2> QED
    BY <1>4, <2>2 DEF Least
<1>5. ASSUME NEW q \in gas
      PROVE  \E o \in gas' : DayOf(o.readAt) = DayOf(q.readAt) /\ q.delivered <= o.delivered
  <2>1. CASE q \in gas'
    BY <1>2, <2>1
  <2>2. CASE q \in rows
    <3>1. q.readAt <= last.readAt
      BY <1>1, <2>2 DEF IsEnds
    <3>2. DayOf(last.readAt) = DayOf(q.readAt)
      <4>1. /\ q.readAt \in Int /\ last.readAt \in Int
            /\ N * k <= q.readAt /\ q.readAt < N * k + N
            /\ N * k <= last.readAt /\ last.readAt < N * k + N
        BY <1>2, <1>3, <2>2
      <4>2. HourStart(q.readAt) = N * k /\ HourStart(last.readAt) = N * k
        BY <4>1, HourIsUnique
      <4> QED
        BY <4>1, <4>2, HourHasOneDay
    <3>3. q.delivered <= last.delivered
      <4>1. CASE q.readAt = last.readAt
        <5>1. q = last
          BY <1>3, <4>1 DEF TablesInv, OneRowPerMoment
        <5> QED
          BY <1>2, <5>1
      <4>2. CASE q.readAt # last.readAt
        <5>1. q.readAt < last.readAt
          BY <1>2, <1>3, <3>1, <4>2
        <5> QED
          BY <1>3, <5>1 DEF GasRowsInv
      <4> QED
        BY <4>1, <4>2
    <3> QED
      BY <1>3, <3>2, <3>3
  <2> QED
    BY <1>1, <2>1, <2>2
<1> QED
  BY <1>4, <1>5

\* The gas of a day is the sum of its own hours, none of which counted before.
LEMMA DayGasIsSum ==
    ASSUME TypeOK, TablesInv, DaysInv, TotalInv, NEW d \in Int, electricity # {}, d = Stats!NextDay,
           Stats!CreateStatistics(d)
    PROVE  /\ \E T, new :
                  /\ T \subseteq {Stats!HourStatistics(h) : h \in Stats!HoursOf(d)}
                  /\ \A h \in Stats!HoursOf(d) : (\E x \in hourStats' : x.hour = h) =>
                         Stats!HourStatistics(h) \in T /\ Stats!Within(electricity, h, h + N) # {}
                  /\ dayStats' = dayStats \union {new} /\ new.day = d /\ new.gas = GasSum(T)
           /\ \A x \in hourStats' : x \in hourStats \/ DayOf(x.hour) = d
           /\ hourStats \subseteq hourStats'
<1> DEFINE created == {Stats!HourStatistics(h) : h \in Stats!HoursToCreate(d)}
           T == {s \in hourStats' : s.hour \in Stats!HoursOf(d)}
<1>1. hourStats' = hourStats \union created /\ dayStats' = dayStats \union {Stats!DayStatistics(d, hourStats')}
  BY DEF Stats!CreateStatistics
<1>2. \A x \in created : \E h \in Stats!HoursOf(d) :
          /\ x = Stats!HourStatistics(h) /\ x.hour = h
          /\ Stats!Within(electricity, h, h + N) # {}
  BY DEF Stats!HoursToCreate, Stats!HourStatistics, Stats!TicksPerHour, N, TicksPerHour
<1>3. \A x \in hourStats : x.hour \notin Stats!HoursOf(d)
  <2> SUFFICES ASSUME NEW x \in hourStats, x.hour \in Stats!HoursOf(d) PROVE FALSE
    OBVIOUS
  <2>1. d \in Stats!DaysWithStats
    BY HoursAreOfDay DEF TotalInv
  <2>2. d < d
    BY <2>1, NextDayIsNext
  <2> QED
    BY <2>2
<1>4. T \subseteq {Stats!HourStatistics(h) : h \in Stats!HoursOf(d)}
  BY <1>1, <1>2, <1>3
<1>5. Stats!DayStatistics(d, hourStats').day = d /\ Stats!DayStatistics(d, hourStats').gas = GasSum(T)
  BY DEF Stats!DayStatistics, Stats!HoursGasSum, Stats!MapThenSumSet, Stats!MapThenFoldSet,
         GasSum, MapThenSumSet, MapThenFoldSet
<1>6. \A x \in hourStats' : x \in hourStats \/ DayOf(x.hour) = d
  BY <1>1, <1>2, HoursAreOfDay
<1>7. \A h \in Stats!HoursOf(d) : (\E x \in hourStats' : x.hour = h) =>
          Stats!HourStatistics(h) \in T /\ Stats!Within(electricity, h, h + N) # {}
  <2> SUFFICES ASSUME NEW h \in Stats!HoursOf(d), NEW x \in hourStats', x.hour = h
               PROVE  Stats!HourStatistics(h) \in T /\ Stats!Within(electricity, h, h + N) # {}
    OBVIOUS
  <2>1. x \in created
    BY <1>1, <1>3
  <2> HIDE DEF created
  <2>2. x = Stats!HourStatistics(h) /\ Stats!Within(electricity, h, h + N) # {}
    BY <1>2, <2>1
  <2> QED
    BY <2>2
<1> HIDE DEF T
<1> QED
  BY <1>1, <1>4, <1>5, <1>6, <1>7

\* The next day counts what is behind all those before it.
LEMMA StatisticsKeepTotal ==
    ASSUME TypeOK, TablesInv, GasRowsInv, DaysInv, TotalInv, RunStatistics
    PROVE  TotalInv'
<1> PICK d : d = Stats!NextDay
  OBVIOUS
<1>1. /\ electricity # {} /\ Stats!HasConsumption(d) /\ Stats!CreateStatistics(d) /\ gas' = gas
  BY DEF RunStatistics, Stats!Generate, vars
<1>2. d \in Int
  <2>1. PICK e \in electricity : DayOf(e.readAt) = d
    BY <1>1, SameDays DEF Stats!HasConsumption
  <2> QED
    BY <2>1, DayBounds DEF TypeOK, ElectricityRow
<1>3. PICK T, new : /\ SumBound(T, d, HoursPerDay)
                    /\ dayStats' = dayStats \union {new} /\ new.day = d /\ new.gas = GasSum(T)
  BY <1>1, <1>2, DayGasIsSum, DaySumBound
<1>4. \A x \in hourStats' : x \in hourStats \/ DayOf(x.hour) = d
  BY <1>1, <1>2, DayGasIsSum
<1>5. Stats!DaysWithStats' = Stats!DaysWithStats \union {d}
  BY <1>3 DEF Stats!DaysWithStats
<1>6. \A c \in Stats!DaysWithStats : c < d /\ c \in Int
  BY <1>1, NextDayIsNext DEF DaysInv
<1>7. new \notin dayStats
  <2> SUFFICES ASSUME new \in dayStats PROVE FALSE
    OBVIOUS
  <2>1. d \in Stats!DaysWithStats
    BY <1>3 DEF Stats!DaysWithStats
  <2> QED
    BY <1>2, <1>6, <2>1
<1>8. IsFiniteSet(dayStats') /\ \A s \in dayStats' : s.gas \in Int
  BY <1>3, FS_AddElement DEF TotalInv, SumBound
<1> PICK all, old, add : all = GasSum(dayStats') /\ old = GasSum(dayStats) /\ add = GasSum(T)
  OBVIOUS
<1>9. all \in Int /\ all = add + old /\ add \in Int /\ old \in Int
  <2>1. all \in Int /\ \A x \in dayStats' : all = x.gas + GasSum(dayStats' \ {x})
    <3> PICK D : D = dayStats'
      OBVIOUS
    <3> QED
      BY <1>8, GasAdds
  <2>2. dayStats' \ {new} = dayStats /\ new \in dayStats'
    BY <1>3, <1>7
  <2> QED
    BY <1>3, <2>1, <2>2 DEF SumBound, TotalInv
<1>10. \A x \in hourStats' : DayOf(x.hour) \in Stats!DaysWithStats'
  BY <1>4, <1>5 DEF TotalInv
<1>11. \A p : Least(p)' <=> Least(p)
  BY <1>1 DEF Least
<1>12. \A x \in gas : x.readAt \in Int /\ x.delivered \in Int
  BY DEF TypeOK, GasRow
<1>13. old > 0 => \E p, q \in gas : TotalIsBehind(old, p, q)
  BY DEF TotalInv
<1>14. ASSUME all > 0
       PROVE  \E p, q \in gas : TotalIsBehind(all, p, q)'
  <2>1. CASE add <= 0
    <3>1. PICK p \in gas, q \in gas : TotalIsBehind(old, p, q)
      BY <1>9, <1>13, <1>14, <2>1
    <3>2. all <= q.delivered - p.delivered
      BY <1>9, <1>12, <2>1, <3>1 DEF TotalIsBehind
    <3> QED
      BY <1>5, <1>11, <3>1, <3>2 DEF TotalIsBehind
  <2>2. CASE ~(add <= 0)
    <3>1. PICK q \in gas : /\ DayStart(d) <= q.readAt /\ q.readAt < DayStart(d) + N * HoursPerDay
                           /\ SumIsBehind(T, d, q)
      BY <1>3, <2>2 DEF SumBound
    <3>2. DayOf(q.readAt) = d
      <4>1. DayStart(d + 1) = DayStart(d) + N * HoursPerDay
        <5>1. TicksPerDay = N * HoursPerDay /\ TicksPerDay \in Nat
          BY MeterTimeAssumption DEF N, TicksPerDay, TicksPerHour
        <5>2. DayStart(d + 1) = DayStart(d) + TicksPerDay
          BY <1>2, <5>1 DEF DayStart
        <5> QED
          BY <5>1, <5>2
      <4> QED
        BY <1>2, <1>12, <3>1, <4>1, DayIsUnique
    <3>3. CASE old <= 0
      <4>1. PICK p \in gas : Least(p)
        BY <3>1, LeastGasExists
      <4>2. add <= q.delivered - p.delivered
        BY <4>1, <3>1 DEF SumIsBehind
      <4>3. all <= q.delivered - p.delivered
        BY <1>9, <1>12, <3>3, <4>2
      <4> QED
        BY <1>5, <1>11, <3>2, <4>1, <4>3 DEF TotalIsBehind
    <3>4. CASE ~(old <= 0)
      <4>1. PICK p \in gas, o \in gas : TotalIsBehind(old, p, o)
        BY <1>9, <1>13, <3>4
      <4>2. o.readAt < DayStart(d)
        <5>1. DayOf(o.readAt) < d /\ DayOf(o.readAt) \in Int
          BY <1>6, <4>1 DEF TotalIsBehind
        <5>2. o.readAt < DayStart(DayOf(o.readAt) + 1) /\ DayStart(DayOf(o.readAt) + 1) \in Int
          BY <1>12, DayBounds
        <5>3. DayStart(DayOf(o.readAt) + 1) <= DayStart(d) /\ DayStart(d) \in Int
          BY <1>2, <5>1, MidnightsInOrder
        <5> QED
          BY <1>12, <5>2, <5>3
      <4>3. add <= q.delivered - o.delivered
        BY <3>1, <4>2 DEF SumIsBehind
      <4>4. all <= q.delivered - p.delivered
        BY <1>9, <1>12, <4>1, <4>3 DEF TotalIsBehind
      <4> QED
        BY <1>5, <1>11, <3>2, <4>1, <4>4 DEF TotalIsBehind
    <3> QED
      BY <3>3, <3>4
  <2> QED
    BY <2>1, <2>2
<1> QED
  BY <1>1, <1>8, <1>9, <1>10, <1>14 DEF TotalInv

\* Every step keeps that.
LEMMA TotalStep ==
    TypeOK /\ TablesInv /\ RetentionInv /\ GasRowsInv /\ DaysInv /\ TotalInv /\ [PipelineNext]_allVars => TotalInv'
<1> SUFFICES ASSUME TypeOK, TablesInv, RetentionInv, GasRowsInv, DaysInv, TotalInv, [PipelineNext]_allVars
             PROVE  TotalInv'
  OBVIOUS
<1>1. CASE RunStatistics
  BY <1>1, StatisticsKeepTotal
<1>2. CASE UNCHANGED <<gas, statsVars>>
  BY <1>2 DEF TotalInv, TotalIsBehind, Least, Stats!DaysWithStats, statsVars
<1>3. CASE UNCHANGED statsVars /\ CompactGas
  <2>1. gas \subseteq gas'
    BY <1>3 DEF CompactGas
  <2>2. \A p \in gas : Least(p) => Least(p)'
    <3>1. CASE gas' = gas
      BY <3>1 DEF Least
    <3>2. CASE gas' # gas
      <4>1. /\ current.gasAt # NoGas /\ current \in Unprocessed
            /\ gas' = gas \union {[readAt |-> GasKey(current), delivered |-> current.gasAt,
                                   diff |-> GasDiff(current.gasAt, GasKey(current))]}
        BY <1>3, <3>2 DEF CompactGas, TypeOK, Unprocessed
      <4>2. \A p \in gas : p.readAt <= GasKey(current)
        BY <4>1 DEF GasRowsInv
      <4> QED
        BY <4>1, <4>2 DEF Least
    <3> QED
      BY <3>1, <3>2
  <2> QED
    BY <1>3, <2>1, <2>2 DEF TotalInv, TotalIsBehind, Stats!DaysWithStats, statsVars
<1>4. CASE UNCHANGED statsVars /\ Retain!CleanHour
  <2>1. ASSUME NEW k \in Int, NEW first, NEW last, Cleans(gas, gas', k, first, last)
        PROVE  TotalInv'
    <3>1. /\ \A p \in gas : Least(p) => p \in gas' /\ Least(p)'
          /\ \A q \in gas : \E o \in gas' : DayOf(o.readAt) = DayOf(q.readAt) /\ q.delivered <= o.delivered
      BY <2>1, GasStaysBehind
    <3>2. Stats!DaysWithStats' = Stats!DaysWithStats /\ dayStats' = dayStats /\ hourStats' = hourStats
      BY <1>4 DEF Stats!DaysWithStats, statsVars
    <3> PICK total : total = GasSum(dayStats)
      OBVIOUS
    <3>3. ASSUME total > 0
          PROVE  \E p, q \in gas' : TotalIsBehind(total, p, q)'
      <4>1. PICK p \in gas, q \in gas : TotalIsBehind(total, p, q)
        BY <3>3 DEF TotalInv
      <4>2. PICK o \in gas' : DayOf(o.readAt) = DayOf(q.readAt) /\ q.delivered <= o.delivered
        BY <3>1
      <4>3. gas' \subseteq gas
        BY <2>1 DEF Cleans
      <4>4. total <= o.delivered - p.delivered
        BY <4>1, <4>2, <4>3 DEF TotalIsBehind, TypeOK, GasRow, TotalInv
      <4> QED
        BY <3>1, <3>2, <4>1, <4>2, <4>4 DEF TotalIsBehind
    <3> QED
      BY <3>2, <3>3 DEF TotalInv
  <2>2. CASE gas' = gas
    BY <1>2, <1>4, <2>2
  <2> QED
    BY <1>4, <2>1, <2>2, CleaningKeepsEnds
<1> QED
  BY <1>1, <1>2, <1>3, <1>4
     DEF PipelineNext, Telegram, Receive, Insert, TimePasses, Tick, RunCompactor, Pass, StartPass, Compact, NotReady,
         CompactElectricity, MarkProcessed, RunRetention, Retain!Run, Retain!Start, Retain!NextModel,
         BackendDies, Crash, Retain!Abort, allVars, vars, dbVars

\* So it always is.
LEMMA PipelineTotals == PipelineSpec => []TotalInv
<1>1. PipelineInit => TotalInv
  <2>1. GasSum({}) = 0 /\ IsFiniteSet({})
    BY GasAdds, FS_EmptySet
  <2> QED
    BY <2>1 DEF PipelineInit, Stats!Init, TotalInv
<1> QED
  BY <1>1, TotalStep, PipelineTypes, PipelineTables, PipelineRetention, PipelineGasRows, PipelineDays, PTL
     DEF PipelineSpec

\* No gas is counted twice, whatever becomes of the rows of which it was counted
\* (run Pipeline, GasCountedOnce).
THEOREM GasIsCountedOnce == PipelineSpec => []GasCountedOnce
<1>1. TypeOK /\ TotalInv => GasCountedOnce
  BY DEF TypeOK, GasRow, TotalInv, TotalIsBehind, GasCountedOnce, GasSum
<1> QED
  BY <1>1, PipelineTypes, PipelineTotals, PTL

-----------------------------------------------------------------------------
(***************************************************************************)
(* Gas by the hour. The row of an hour is created by the readings of the   *)
(* next one, and counts an hour when the row before it is there: retention *)
(* has nothing to delete.                                                  *)
(***************************************************************************)

Hourly ==
    /\ DsmrV4
    /\ GasInterval = TicksPerHour
    /\ HoursPerDay >= 2

\* The row of a reading is that of the hour before its own.
LEMMA HourlyKey ==
    ASSUME Hourly, NEW r, r.at \in Nat, HasOwnGas(r)
    PROVE  \E k \in Int : /\ GasKey(r) = N * k /\ r.gasAt = N * k + N
                          /\ N * k + N <= r.at /\ r.at < N * k + N + N
<1>1. N \in Nat \ {0} /\ r.at \in Int
  BY MeterTimeAssumption DEF N, TicksPerHour
<1>2. PICK j \in Int : HourStart(r.at) = N * j /\ N * j <= r.at /\ r.at < N * j + N
  BY <1>1, HourBounds
<1>3. r.gasAt = N * j
  BY <1>2 DEF HasOwnGas, Hourly, HourStart
<1>4. HourStart(r.gasAt) = N * j
  <2>1. r.gasAt \in Int /\ N * j <= r.gasAt /\ r.gasAt < N * j + N
    BY <1>1, <1>3
  <2> QED
    BY <2>1, HourIsUnique
<1>5. GasKey(r) = N * j - N
  BY <1>3, <1>4 DEF GasKey, Hourly, N
<1>6. N * j - N = N * (j - 1) /\ N * j = N * (j - 1) + N /\ j - 1 \in Int
  BY <1>1
<1> QED
  BY <1>2, <1>3, <1>5, <1>6

\* So rows are at whole hours, and hold the meter's position an hour later.
LEMMA HourlyRow ==
    ASSUME Hourly, GasRowsInv, NEW q \in gas
    PROVE  \E k \in Int : q.readAt = N * k /\ q.delivered = N * k + N
<1>1. PICK r \in Reading : HasOwnGas(r) /\ q.readAt = GasKey(r) /\ q.delivered = r.gasAt
  BY DEF GasRowsInv, Origin
<1>2. r.at \in Nat
  BY DEF Reading
<1> QED
  BY <1>1, <1>2, HourlyKey

\* An hour has one row at most.
LEMMA HourlyRowOfHour ==
    ASSUME Hourly, GasRowsInv, NEW q \in gas, NEW j \in Int, N * j <= q.readAt, q.readAt < N * j + N
    PROVE  q.readAt = N * j
<1>1. PICK k \in Int : q.readAt = N * k
  BY HourlyRow
<1>2. N \in Nat \ {0}
  BY MeterTimeAssumption DEF N, TicksPerHour
<1>3. N * j <= N * k /\ N * k < N * (j + 1)
  BY <1>1, <1>2
<1>4. j <= k /\ k < j + 1
  BY <1>2, <1>3
<1>5. j = k
  BY <1>4
<1> QED
  BY <1>1, <1>5

\* So retention deletes none.
LEMMA HourlyKept ==
    ASSUME Hourly, TypeOK, TablesInv, GasRowsInv, NEW k \in Int, NEW first, NEW last,
           Cleans(gas, gas', k, first, last)
    PROVE  gas' = gas
<1> DEFINE rows == {x \in gas : N * k <= x.readAt /\ x.readAt < N * k + N}
<1>1. first \in rows /\ gas' = gas \ (rows \ {first, last})
  BY DEF Cleans, IsEnds
<1>2. \A x \in rows : x.readAt = N * k
  BY HourlyRowOfHour
<1>3. \A x \in rows : x = first
  BY <1>1, <1>2 DEF TablesInv, OneRowPerMoment
<1> QED
  BY <1>1, <1>3

ChainInv == \A p, q \in gas : q.readAt = p.readAt + N => q.diff = N

\* A new row counts an hour if that of the hour before is there.
LEMMA ChainStep ==
    Hourly /\ TypeOK /\ TablesInv /\ InOrder /\ GasRowsInv /\ ChainInv /\ [PipelineNext]_allVars => ChainInv'
<1> SUFFICES ASSUME Hourly, TypeOK, TablesInv, InOrder, GasRowsInv, ChainInv, [PipelineNext]_allVars
             PROVE  ChainInv'
  OBVIOUS
<1>1. CASE gas' \subseteq gas
  BY <1>1 DEF ChainInv
<1>2. CASE CompactGas /\ gas' # gas
  <2> DEFINE k == GasKey(current)
             new == [readAt |-> k, delivered |-> current.gasAt, diff |-> GasDiff(current.gasAt, k)]
  <2>1. /\ current.gasAt # NoGas /\ ~HasRow(gas, k) /\ gas' = gas \union {new}
        /\ current \in Unprocessed /\ current \in readings /\ current.at \in Nat
    BY <1>2 DEF CompactGas, TypeOK, Unprocessed, Reading
  <2>2. HasOwnGas(current)
    BY <2>1 DEF InOrder
  <2>3. PICK m \in Int : k = N * m /\ current.gasAt = N * m + N
    BY <2>1, <2>2, HourlyKey
  <2>4. new.readAt = k /\ new.diff = GasDiff(current.gasAt, k)
    OBVIOUS
  <2> HIDE DEF k, new
  <2>5. N \in Nat \ {0} /\ k \in Int
    BY <2>3, MeterTimeAssumption DEF N, TicksPerHour
  <2>6. \A q \in gas : q.readAt \in Int /\ q.readAt < k
    <3> TAKE q \in gas
    <3>1. q.readAt \in Int /\ q.readAt <= k /\ q.readAt # k
      BY <2>1 DEF TypeOK, GasRow, GasRowsInv, HasRow, k
    <3> QED
      BY <2>5, <3>1
  <2>7. ASSUME NEW p \in gas, k = p.readAt + N
        PROVE  new.diff = N
    <3>1. \A x \in PreviousGas(k) : x = p
      <4> TAKE x \in PreviousGas(k)
      <4>1. x \in gas /\ p.readAt <= x.readAt /\ x.readAt < k
        BY <2>6 DEF PreviousGas
      <4>2. N * (m - 1) <= x.readAt /\ x.readAt < N * (m - 1) + N /\ p.readAt = N * (m - 1)
        <5>1. N * (m - 1) = N * m - N
          BY <2>5
        <5> QED
          BY <2>3, <2>5, <2>6, <2>7, <4>1, <5>1
      <4>3. x.readAt = p.readAt
        BY <4>1, <4>2, HourlyRowOfHour
      <4> QED
        BY <4>1, <4>3 DEF TablesInv, OneRowPerMoment
    <3>2. p \in PreviousGas(k)
      <4>1. \A q \in gas : q.readAt <= p.readAt
        <5> TAKE q \in gas
        <5>1. PICK i \in Int : q.readAt = N * i
          BY HourlyRow
        <5>2. p.readAt = N * (m - 1)
          <6>1. N * (m - 1) = N * m - N
            BY <2>5
          <6> QED
            BY <2>3, <2>5, <2>6, <2>7, <6>1
        <5>3. N * i < N * m
          BY <2>3, <2>6, <5>1
        <5>4. i <= m - 1
          BY <2>5, <5>3
        <5>5. N * i <= N * (m - 1)
          BY <2>5, <5>4
        <5> QED
          BY <5>1, <5>2, <5>5
      <4> QED
        BY <2>6, <4>1 DEF PreviousGas
    <3>3. GasDiff(current.gasAt, k) = current.gasAt - p.delivered
      BY <3>1, <3>2 DEF GasDiff
    <3>4. PICK i \in Int : p.readAt = N * i /\ p.delivered = N * i + N
      BY HourlyRow
    <3>5. p.delivered = k
      BY <2>7, <3>4
    <3> QED
      BY <2>3, <2>4, <2>5, <3>3, <3>5
  <2> SUFFICES ASSUME NEW p \in gas', NEW q \in gas', q.readAt = p.readAt + N
               PROVE  q.diff = N
    BY DEF ChainInv
  <2>8. CASE p \in gas /\ q \in gas
    BY <2>8 DEF ChainInv
  <2>9. CASE p \in gas /\ q = new
    BY <2>4, <2>7, <2>9
  <2>10. CASE p = new
    <3>1. q.readAt <= k
      BY <2>1, <2>4, <2>5, <2>6
    <3> QED
      BY <2>1, <2>4, <2>5, <2>6, <2>10, <3>1
  <2> QED
    BY <2>1, <2>8, <2>9, <2>10
<1> QED
  BY <1>1, <1>2, StepOfCompactor, RetentionDeletes
     DEF StepInOrder, Pass, Tick, Receive, Insert, ChangeGrouping, StartPass, Compact, NotReady, CompactElectricity,
         MarkProcessed, Crash, vars, dbVars

-----------------------------------------------------------------------------
(***************************************************************************)
(* A day without gaps.                                                     *)
(***************************************************************************)

\* Its hours are whole ones, after the midnight.
LEMMA HoursOfDay ==
    ASSUME NEW d \in Int
    PROVE  /\ N \in Nat \ {0} /\ Stats!TicksPerHour = N /\ HoursPerDay \in Nat \ {0}
           /\ DayStart(d) \in Int /\ DayStart(d + 1) = DayStart(d) + N * HoursPerDay
           /\ N * HoursPerDay = TicksPerDay
           /\ Stats!HoursOf(d) = {DayStart(d) + N * i : i \in 0..(HoursPerDay - 1)}
           /\ \E j \in Int : DayStart(d) = N * j
           /\ \A i \in Int : \E j \in Int : DayStart(d) + N * i = N * j
<1>1. N \in Nat \ {0} /\ HoursPerDay \in Nat \ {0} /\ Stats!TicksPerHour = N /\ TicksPerDay = N * HoursPerDay
  BY MeterTimeAssumption DEF N, TicksPerHour, TicksPerDay, Stats!TicksPerHour
<1>2. TicksPerDay \in Nat
  BY <1>1
<1>3. DayStart(d) \in Int /\ DayStart(d + 1) = DayStart(d) + TicksPerDay
  BY <1>2 DEF DayStart
<1>4. Stats!HoursOf(d) = {DayStart(d) + N * i : i \in 0..(HoursPerDay - 1)}
  BY <1>1, SameDays DEF Stats!HoursOf
<1>5. PICK a \in Int : a = HoursPerDay * d /\ DayStart(d) = N * a
  <2>1. HoursPerDay * d \in Int /\ DayStart(d) = N * (HoursPerDay * d)
    BY <1>1 DEF DayStart
  <2> QED
    BY <2>1
<1>6. ASSUME NEW i \in Int
      PROVE  \E j \in Int : DayStart(d) + N * i = N * j
  <2>1. N * a + N * i = N * (a + i) /\ a + i \in Int
    BY <1>1
  <2> QED
    BY <1>5, <2>1
<1> QED
  BY <1>1, <1>3, <1>4, <1>5, <1>6

RowsOfDay(d) == HasRow(gas, DayStart(d) - N) /\ \A h \in Stats!HoursOf(d) : HasRow(gas, h)

\* An hour with its row and the one before counts an hour.
LEMMA HourCounts ==
    ASSUME Hourly, TypeOK, TablesInv, GasRowsInv, ChainInv, NEW j \in Int,
           HasRow(gas, N * j), HasRow(gas, N * j - N),
           NEW R, R = Stats!Within(gas, N * j, N * j + N)
    PROVE  Stats!HourGas(R) = N
<1>1. PICK q \in gas : q.readAt = N * j
  BY DEF HasRow
<1>2. PICK p \in gas : p.readAt = N * j - N
  BY DEF HasRow
<1>3. N \in Nat \ {0} /\ N * j \in Int
  BY MeterTimeAssumption DEF N, TicksPerHour
<1>4. q.diff = N
  BY <1>1, <1>2, <1>3 DEF ChainInv
<1>5. R = {q}
  <2>1. R = {x \in gas : N * j <= x.readAt /\ x.readAt < N * j + N}
    BY DEF Stats!Within
  <2>2. q \in R
    BY <1>1, <1>3, <2>1
  <2>3. \A x \in R : x.readAt = N * j
    BY <2>1, HourlyRowOfHour
  <2> QED
    BY <1>1, <2>1, <2>2, <2>3 DEF TablesInv, OneRowPerMoment
<1>6. Stats!First(R) = q
  <2>1. Apart(R) /\ IsEnds(R, q, q)
    BY <1>1, <1>3, <1>5 DEF Apart, IsEnds
  <2> QED
    BY <2>1, EndsAreChosen
<1>7. Stats!Cardinality(R) = 1
  <2>1. Cardinality(R) = 1
    BY <1>5, FS_Singleton
  <2> QED
    BY <2>1 DEF Stats!Cardinality, Cardinality
<1> QED
  BY <1>4, <1>5, <1>6, <1>7 DEF Stats!HourGas

\* And so do all of a day.
LEMMA HoursOfDayCount ==
    ASSUME Hourly, TypeOK, TablesInv, GasRowsInv, ChainInv, NEW d \in Int, RowsOfDay(d),
           NEW h \in Stats!HoursOf(d)
    PROVE  Stats!HourStatistics(h).gas = N
<1>1. PICK i \in 0..(HoursPerDay - 1) : h = DayStart(d) + N * i
  BY HoursOfDay
<1>2. PICK j \in Int : h = N * j
  BY <1>1, HoursOfDay
<1>3. HasRow(gas, h - N)
  <2>1. CASE i = 0
    <3>1. h = DayStart(d)
      BY <1>1, <2>1, HoursOfDay
    <3> QED
      BY <3>1 DEF RowsOfDay
  <2>2. CASE i # 0
    <3>1. i - 1 \in 0..(HoursPerDay - 1) /\ h - N = DayStart(d) + N * (i - 1)
      <4>1. N * (i - 1) = N * i - N
        BY HoursOfDay
      <4>2. N * i \in Int /\ DayStart(d) \in Int /\ N \in Int /\ HoursPerDay \in Nat
        BY HoursOfDay
      <4> PICK a, b : a = N * i /\ b = N * (i - 1)
        OBVIOUS
      <4>3. h - N = DayStart(d) + b
        BY <1>1, <4>1, <4>2
      <4> QED
        BY <2>2, <4>2, <4>3
    <3>2. h - N \in Stats!HoursOf(d)
      BY <3>1, HoursOfDay
    <3> QED
      BY <3>2 DEF RowsOfDay
  <2> QED
    BY <2>1, <2>2
<1>4. HasRow(gas, h)
  BY DEF RowsOfDay
<1>5. Stats!HourGas(Stats!Within(gas, h, h + N)) = N
  BY <1>2, <1>3, <1>4, HourCounts
<1>6. Stats!HourStatistics(h).gas = Stats!HourGas(Stats!Within(gas, h, h + Stats!TicksPerHour))
  BY DEF Stats!HourStatistics
<1> QED
  BY <1>5, <1>6, HoursOfDay

\* The sum of hours which count an hour each.
LEMMA SumOfHours ==
    ASSUME NEW d \in Int, \A h \in Stats!HoursOf(d) : Stats!HourStatistics(h).gas = N
    PROVE  GasSum({Stats!HourStatistics(h) : h \in Stats!HoursOf(d)}) = N * HoursPerDay
<1> DEFINE hour(i) == Stats!HourStatistics(DayStart(d) + N * i)
           V(n) == {hour(i) : i \in 0..(n - 1)}
           Good(n) == IsFiniteSet(V(n)) /\ (n <= HoursPerDay => GasSum(V(n)) = N * n)
           Bad == {n \in Nat : ~Good(n)}
<1>1. N \in Nat \ {0} /\ HoursPerDay \in Nat \ {0} /\ DayStart(d) \in Int
  BY HoursOfDay
<1>2. \A i \in Int : hour(i).hour = DayStart(d) + N * i
  BY DEF Stats!HourStatistics
<1>3. \A i \in 0..(HoursPerDay - 1) : hour(i).gas = N
  BY HoursOfDay
<1> HIDE DEF hour
<1>4. Bad = {}
  <2> SUFFICES ASSUME Bad # {} PROVE FALSE
    OBVIOUS
  <2>1. PICK n \in Bad : \A m \in Bad : n =< m
    <3>1. Bad \subseteq Nat
      OBVIOUS
    <3> HIDE DEF Bad
    <3> QED
      BY <3>1, LeastExists
  <2>2. n \in Nat /\ ~Good(n)
    BY <2>1
  <2>3. CASE n = 0
    <3>1. V(0) = {}
      OBVIOUS
    <3>2. N * 0 = 0
      BY <1>1
    <3> HIDE DEF V
    <3> QED
      BY <2>2, <2>3, <3>1, <3>2, GasAdds, FS_EmptySet
  <2>4. CASE n # 0
    <3> DEFINE m == n - 1
    <3>1. m \in Nat /\ n = m + 1 /\ Good(m)
      <4>1. m \in Nat /\ n = m + 1 /\ ~(n =< m)
        BY <2>2, <2>4
      <4>2. m \notin Bad
        BY <2>1, <4>1
      <4> HIDE DEF V, m
      <4> QED
        BY <4>1, <4>2
    <3> HIDE DEF m
    <3>2. V(n) = V(m) \union {hour(m)}
      <4>1. 0..(n - 1) = 0..(m - 1) \union {m}
        BY <3>1
      <4> QED
        BY <4>1
    <3>3. hour(m) \notin V(m)
      <4> SUFFICES ASSUME NEW i \in 0..(m - 1), hour(i) = hour(m) PROVE FALSE
        OBVIOUS
      <4>1. DayStart(d) + N * i = DayStart(d) + N * m
        BY <1>2, <3>1
      <4>2. N * i < N * m
        BY <1>1, <3>1
      <4>3. N * i \in Int /\ N * m \in Int
        BY <1>1, <3>1
      <4> PICK a, b : a = N * i /\ b = N * m
        OBVIOUS
      <4> QED
        BY <1>1, <4>1, <4>2, <4>3
    <3>4. IsFiniteSet(V(n))
      <4> HIDE DEF V
      <4> QED
        BY <3>1, <3>2, FS_AddElement
    <3>5. ASSUME n <= HoursPerDay PROVE GasSum(V(n)) = N * n
      <4>1. \A x \in V(n) : x.gas = N
        <5> SUFFICES ASSUME NEW i \in 0..(n - 1) PROVE hour(i).gas = N
          OBVIOUS
        <5>1. i \in 0..(HoursPerDay - 1)
          BY <1>1, <2>2, <3>5
        <5> QED
          BY <1>3, <5>1
      <4>2. \A x \in V(n) : x.gas \in Int
        BY <1>1, <4>1
      <4>3. V(n) \ {hour(m)} = V(m) /\ hour(m) \in V(n)
        BY <3>2, <3>3
      <4> HIDE DEF V
      <4>4. GasSum(V(n)) = hour(m).gas + GasSum(V(m))
        BY <3>4, <4>2, <4>3, GasAdds
      <4>5. m <= HoursPerDay
        BY <1>1, <2>2, <3>1, <3>5
      <4>6. GasSum(V(m)) = N * m
        BY <3>1, <4>5
      <4>7. N + N * m = N * n
        BY <1>1, <3>1
      <4> QED
        BY <4>1, <4>3, <4>4, <4>6, <4>7
    <3> HIDE DEF V
    <3> QED
      BY <2>2, <3>4, <3>5
  <2> QED
    BY <2>3, <2>4
<1>5. V(HoursPerDay) = {Stats!HourStatistics(h) : h \in Stats!HoursOf(d)}
  <2>1. Stats!HoursOf(d) = {DayStart(d) + N * i : i \in 0..(HoursPerDay - 1)}
    BY HoursOfDay
  <2> DEFINE H == {Stats!HourStatistics(h) : h \in Stats!HoursOf(d)}
  <2>2. ASSUME NEW i \in 0..(HoursPerDay - 1) PROVE hour(i) \in H
    BY <2>1 DEF hour
  <2>3. ASSUME NEW h \in Stats!HoursOf(d) PROVE Stats!HourStatistics(h) \in V(HoursPerDay)
    <3>1. PICK i \in 0..(HoursPerDay - 1) : h = DayStart(d) + N * i
      BY <2>1
    <3>2. Stats!HourStatistics(h) = hour(i)
      BY <3>1 DEF hour
    <3> QED
      BY <3>2
  <2> QED
    BY <2>2, <2>3
<1>6. GasSum(V(HoursPerDay)) = N * HoursPerDay
  <2> HIDE DEF V
  <2>1. HoursPerDay <= HoursPerDay /\ HoursPerDay \in Nat
    BY <1>1
  <2> QED
    BY <1>4, <2>1
<1> HIDE DEF V
<1> QED
  BY <1>5, <1>6

-----------------------------------------------------------------------------
(***************************************************************************)
(* When a day of which each hour had electricity is closed, no gas row of  *)
(* that day can come any more; or there was none of the hour before it,    *)
(* and there will not be.                                                  *)
(***************************************************************************)

AllHours(d) == \A h \in Stats!HoursOf(d) : \E x \in hourStats : x.hour = h

NoMoreGas(d) ==
    \/ \E q \in gas : DayStart(d + 1) <= q.readAt
    \/ /\ ~HasRow(gas, DayStart(d) - N)
       /\ \A r \in Unprocessed : r.gasAt # NoGas => DayStart(d) <= GasKey(r)
       /\ DayStart(d) + N <= meterTime

FullInv ==
    \A s \in dayStats : AllHours(s.day) =>
        NoMoreGas(s.day) /\ (RowsOfDay(s.day) => s.gas = TicksPerDay)

\* The day's gas is not changed by a step.
Settled(d) == NoMoreGas(d)' /\ (RowsOfDay(d)' => RowsOfDay(d))

\* A step that settles all days keeps what they counted.
LEMMA SettledKept ==
    ASSUME DaysInv, FullInv, UNCHANGED statsVars,
           \A d \in Int : NoMoreGas(d) => Settled(d)
    PROVE  FullInv'
<1>1. dayStats' = dayStats /\ \A d : AllHours(d)' <=> AllHours(d)
  BY DEF statsVars, AllHours, Stats!HoursOf
<1>2. \A s \in dayStats : s.day \in Int
  BY DEF DaysInv, Stats!DaysWithStats
<1> QED
  BY <1>1, <1>2 DEF FullInv, Settled

\* A telegram is later than the first hour of the day.
LEMMA TelegramSettles ==
    ASSUME Hourly, TypeOK, Telegram, NEW d \in Int, NoMoreGas(d)
    PROVE  Settled(d)
<1>1. PICK t \in Ticks : Receive(t)
  BY PipelineAssumption DEF Telegram
<1>2. t \in Nat /\ t > meterTime /\ meterTime \in Int /\ meterTime' = t
  BY <1>1, CompactorAssumption DEF Receive, Ticks, TypeOK
<1>3. PICK g \in GasStamps(t) : Insert(t, g)
  BY <1>1 DEF Receive
<1> PICK new : new = [pk |-> nextPk, at |-> t, gasAt |-> g, processed |-> FALSE]
  OBVIOUS
<1>4. readings' = readings \union {new} /\ gas' = gas
  BY <1>3 DEF Insert
<1>5. new.at = t /\ (new.gasAt # NoGas => HasOwnGas(new))
  BY DEF GasStamps, HasOwnGas
<1>6. RowsOfDay(d)' <=> RowsOfDay(d)
  BY <1>4 DEF RowsOfDay, HasRow, Stats!HoursOf
<1>7. ASSUME DayStart(d) + N <= meterTime, new.gasAt # NoGas
      PROVE  DayStart(d) <= GasKey(new)
  <2>1. PICK k \in Int : GasKey(new) = N * k /\ t < N * k + N + N
    BY <1>2, <1>5, <1>7, HourlyKey
  <2>2. PICK j \in Int : DayStart(d) = N * j
    BY HoursOfDay
  <2>3. N \in Nat \ {0}
    BY HoursOfDay
  <2>4. N * j + N < N * k + N + N
    BY <1>2, <1>7, <2>1, <2>2, <2>3
  <2>5. N * j < N * (k + 1)
    BY <2>3, <2>4
  <2>6. j <= k
    BY <2>3, <2>5
  <2>7. N * j <= N * k
    BY <2>3, <2>6
  <2> QED
    BY <2>1, <2>2, <2>7
<1>8. Unprocessed' \subseteq Unprocessed \union {new}
  BY <1>4 DEF Unprocessed
<1>9. NoMoreGas(d)'
  <2>1. CASE \E q \in gas : DayStart(d + 1) <= q.readAt
    BY <1>4, <2>1 DEF NoMoreGas
  <2>2. ASSUME ~HasRow(gas, DayStart(d) - N),
               \A r \in Unprocessed : r.gasAt # NoGas => DayStart(d) <= GasKey(r),
               DayStart(d) + N <= meterTime
        PROVE  NoMoreGas(d)'
    <3>1. DayStart(d) + N <= t
      BY <1>2, <2>2, HoursOfDay
    <3>2. ~HasRow(gas', DayStart(d) - N)
      BY <1>4, <2>2
    <3>3. \A r \in Unprocessed' : r.gasAt # NoGas => DayStart(d) <= GasKey(r)
      BY <1>7, <1>8, <2>2
    <3> QED
      BY <1>2, <3>1, <3>2, <3>3 DEF NoMoreGas, GasKey
  <2> QED
    BY <2>1, <2>2 DEF NoMoreGas
<1> QED
  BY <1>6, <1>9 DEF Settled

\* A gas row that is created is of a later hour.
LEMMA GasSettles ==
    ASSUME TypeOK, GasRowsInv, CompactGas, NEW d \in Int, NoMoreGas(d)
    PROVE  Settled(d)
<1>1. readings' = readings /\ meterTime' = meterTime /\ current \in Unprocessed
  BY DEF CompactGas, meterVars, TypeOK, Unprocessed
<1>2. CASE gas' = gas
  BY <1>1, <1>2 DEF NoMoreGas, Settled, RowsOfDay, HasRow, Unprocessed, GasKey, Stats!HoursOf
<1>3. CASE gas' # gas
  <2> DEFINE k == GasKey(current)
             new == [readAt |-> k, delivered |-> current.gasAt, diff |-> GasDiff(current.gasAt, k)]
  <2>1. current.gasAt # NoGas /\ gas' = gas \union {new}
    BY <1>3 DEF CompactGas
  <2>2. new.readAt = k /\ k \in Int /\ \A q \in gas : q.readAt \in Int /\ q.readAt <= k
    BY <1>1, <2>1, GasKeyInt DEF GasRowsInv, TypeOK, GasRow, Unprocessed, Reading
  <2> HIDE DEF new, k
  <2>3. /\ N \in Nat \ {0} /\ DayStart(d) \in Int /\ DayStart(d + 1) \in Int /\ DayStart(d) < DayStart(d + 1)
        /\ \A h \in Stats!HoursOf(d) : h \in Int /\ h < DayStart(d + 1)
    <3>1. N \in Nat \ {0} /\ DayStart(d) \in Int /\ HoursPerDay \in Nat \ {0} /\ DayStart(d + 1) = DayStart(d) + N * HoursPerDay
      BY HoursOfDay
    <3>2. N * HoursPerDay \in Nat \ {0}
      BY <3>1
    <3>3. \A h \in Stats!HoursOf(d) : h \in Int /\ h < DayStart(d + 1)
      <4> TAKE h \in Stats!HoursOf(d)
      <4>1. PICK i \in 0..(HoursPerDay - 1) : h = DayStart(d) + N * i
        BY HoursOfDay
      <4>2. N * i \in Int /\ N * i < N * HoursPerDay
        BY <3>1
      <4> QED
        BY <3>1, <3>2, <4>1, <4>2
    <3> QED
      BY <3>1, <3>2, <3>3
  <2>4. CASE \E q \in gas : DayStart(d + 1) <= q.readAt
    <3>1. DayStart(d + 1) <= k
      BY <2>2, <2>3, <2>4
    <3>2. NoMoreGas(d)'
      BY <2>1, <2>4 DEF NoMoreGas
    <3>3. \A h \in Stats!HoursOf(d) \union {DayStart(d) - N} : HasRow(gas', h) => HasRow(gas, h)
      BY <2>1, <2>2, <2>3, <3>1 DEF HasRow
    <3> QED
      BY <3>2, <3>3 DEF Settled, RowsOfDay, Stats!HoursOf
  <2>5. ASSUME ~HasRow(gas, DayStart(d) - N),
               \A r \in Unprocessed : r.gasAt # NoGas => DayStart(d) <= GasKey(r),
               DayStart(d) + N <= meterTime
        PROVE  Settled(d)
    <3>1. DayStart(d) <= k
      BY <1>1, <2>1, <2>5 DEF k
    <3>2. ~HasRow(gas', DayStart(d) - N)
      BY <2>1, <2>2, <2>3, <2>5, <3>1 DEF HasRow
    <3>3. NoMoreGas(d)'
      BY <1>1, <2>5, <3>2 DEF NoMoreGas, Unprocessed, GasKey
    <3> QED
      BY <3>2, <3>3 DEF Settled, RowsOfDay
  <2> QED
    BY <2>4, <2>5 DEF NoMoreGas
<1> QED
  BY <1>2, <1>3

\* When such a day is closed.
LEMMA ClosingSettles ==
    ASSUME Hourly, TypeOK, TablesInv, TraceInv, NEW d \in Int, electricity # {},
           \A r \in readings : DayOf(r.at) = d => r.processed,
           Stats!GasComplete(d),
           \A h \in Stats!HoursOf(d) : Stats!Within(electricity, h, h + N) # {}
    PROVE  NoMoreGas(d)
<1>1. /\ N \in Nat \ {0} /\ DayStart(d) \in Int /\ HoursPerDay \in Nat \ {0}
      /\ DayStart(d + 1) = DayStart(d) + N * HoursPerDay /\ HoursPerDay >= 2
  BY HoursOfDay DEF Hourly
<1>2. N * HoursPerDay >= N + N /\ N * HoursPerDay \in Nat /\ N * (HoursPerDay - 1) = N * HoursPerDay - N
  BY <1>1
<1>3. \A q \in gas : q.readAt \in Int
  BY DEF TypeOK, GasRow
<1>4. CASE HasRow(gas, DayStart(d) - N)
  <2>1. PICK q \in gas : q.readAt = DayStart(d) - N
    BY <1>4 DEF HasRow
  <2>2. DayOf(q.readAt) = d - 1
    <3>1. DayStart(d - 1) = DayStart(d) - N * HoursPerDay
      <4>1. DayStart((d - 1) + 1) = DayStart(d - 1) + N * HoursPerDay /\ DayStart(d - 1) \in Int
        BY d - 1 \in Int, HoursOfDay
      <4>2. (d - 1) + 1 = d
        OBVIOUS
      <4> QED
        BY <1>1, <1>2, <4>1, <4>2
    <3>2. DayStart(d - 1) <= q.readAt /\ q.readAt < DayStart(d)
      BY <1>1, <1>2, <2>1, <3>1
    <3>3. (d - 1) + 1 = d /\ d - 1 \in Int
      OBVIOUS
    <3> QED
      BY <1>3, <3>2, <3>3, DayIsUnique
  <2>3. PICK o \in gas : DayOf(o.readAt) >= d + 1
    <3>1. Stats!RecentlyGasRead(d) /\ Stats!GasCapability
      BY <2>1, <2>2, SameDays DEF Stats!RecentlyGasRead, Stats!GasCapability
    <3> QED
      BY <3>1, SameDays DEF Stats!GasComplete, Stats!GasReadNextDay
  <2>4. DayStart(d + 1) <= o.readAt
    <3>1. DayOf(o.readAt) \in Int /\ DayStart(DayOf(o.readAt)) \in Int /\ DayStart(DayOf(o.readAt)) <= o.readAt
      BY <1>3, DayBounds
    <3>2. DayStart(d + 1) <= DayStart(DayOf(o.readAt)) /\ DayStart(d + 1) \in Int
      BY <2>3, <3>1, MidnightsInOrder
    <3> QED
      BY <1>3, <3>1, <3>2
  <2> QED
    BY <2>4 DEF NoMoreGas
<1>5. CASE ~HasRow(gas, DayStart(d) - N)
  <2> DEFINE h == DayStart(d) + N * (HoursPerDay - 1)
  <2>1. h \in Stats!HoursOf(d) /\ h \in Int /\ DayStart(d) + N <= h
    <3>1. HoursPerDay - 1 \in 0..(HoursPerDay - 1)
      BY <1>1
    <3>2. h \in Stats!HoursOf(d)
      BY <3>1, HoursOfDay
    <3> QED
      BY <1>1, <1>2, <3>2
  <2> HIDE DEF h
  <2>2. PICK e \in electricity : h <= e.readAt
    BY <2>1 DEF Stats!Within
  <2>3. e.readAt \in Nat /\ e.readAt <= meterTime /\ meterTime \in Int /\ DayStart(d) + N <= e.readAt
    BY <1>1, <2>1, <2>2 DEF TypeOK, ElectricityRow, TraceInv
  <2>4. DayStart(d) + N <= meterTime
    BY <1>1, <2>3
  <2>5. ASSUME NEW r \in Unprocessed, r.gasAt # NoGas
        PROVE  DayStart(d) <= GasKey(r)
    <3>1. r.at \in Nat /\ HasOwnGas(r) /\ e.readAt <= RowKey(r, grouping) /\ DayOf(r.at) # d
      BY <2>5 DEF TypeOK, Reading, Unprocessed, TraceInv, InOrder
    <3>2. RowKey(r, grouping) <= r.at + N /\ RowKey(r, grouping) \in Nat
      <4>1. TicksPerMinute \in Nat \ {0} /\ MinutesPerHour \in Nat \ {0} /\ TicksPerMinute <= N
        BY MeterTimeAssumption DEF N, TicksPerHour
      <4>2. MinuteStart(r.at) \in Nat /\ MinuteStart(r.at) <= r.at
        BY <3>1, MinuteBounds
      <4>3. RowKey(r, grouping) \in {r.at, MinuteStart(r.at) + TicksPerMinute}
        BY DEF RowKey, MinuteEnd
      <4> QED
        BY <1>1, <3>1, <4>1, <4>2, <4>3
    <3>3. DayStart(d) <= r.at
      BY <1>1, <2>3, <3>1, <3>2
    <3>4. DayStart(d + 1) <= r.at
      <4>1. ~(r.at < DayStart(d + 1))
        BY <3>1, <3>3, DayIsUnique
      <4> QED
        BY <1>1, <1>2, <3>1, <4>1
    <3>5. PICK k \in Int : GasKey(r) = N * k /\ r.at < N * k + N + N
      BY <3>1, HourlyKey
    <3>6. N * k \in Int
      BY <1>1
    <3> QED
      BY <1>1, <1>2, <3>1, <3>4, <3>5, <3>6
  <2> QED
    BY <1>5, <2>4, <2>5 DEF NoMoreGas
<1> QED
  BY <1>4, <1>5

\* And what it counts.
LEMMA StatisticsKeepFull ==
    ASSUME Hourly, TypeOK, TablesInv, TraceInv, GasRowsInv, ChainInv, DaysInv, TotalInv, FullInv, RunStatistics
    PROVE  FullInv'
<1> PICK d : d = Stats!NextDay
  OBVIOUS
<1>1. /\ electricity # {} /\ Stats!AllProcessed(d) /\ Stats!HasConsumption(d) /\ Stats!GasComplete(d)
      /\ Stats!CreateStatistics(d) /\ gas' = gas /\ readings' = readings /\ meterTime' = meterTime
  BY DEF RunStatistics, Stats!Generate, vars
<1>2. d \in Int
  <2>1. PICK e \in electricity : DayOf(e.readAt) = d
    BY <1>1, SameDays DEF Stats!HasConsumption
  <2> QED
    BY <2>1, DayBounds DEF TypeOK, ElectricityRow
<1>3. PICK T, new :
          /\ T \subseteq {Stats!HourStatistics(h) : h \in Stats!HoursOf(d)}
          /\ \A h \in Stats!HoursOf(d) : (\E x \in hourStats' : x.hour = h) =>
                 Stats!HourStatistics(h) \in T /\ Stats!Within(electricity, h, h + N) # {}
          /\ dayStats' = dayStats \union {new} /\ new.day = d /\ new.gas = GasSum(T)
  BY <1>1, <1>2, DayGasIsSum
<1>4. \A x \in hourStats' : x \in hourStats \/ DayOf(x.hour) = d
  BY <1>1, <1>2, DayGasIsSum
<1>5. \A c : (NoMoreGas(c)' <=> NoMoreGas(c)) /\ (RowsOfDay(c)' <=> RowsOfDay(c))
  BY <1>1 DEF NoMoreGas, RowsOfDay, HasRow, Unprocessed, GasKey, Stats!HoursOf
<1>6. ASSUME NEW s \in dayStats, AllHours(s.day)'
      PROVE  NoMoreGas(s.day) /\ (RowsOfDay(s.day) => s.gas = TicksPerDay)
  <2>1. s.day \in Int /\ s.day < d
    <3>1. s.day \in Stats!DaysWithStats
      BY DEF Stats!DaysWithStats
    <3> QED
      BY <1>1, <3>1, NextDayIsNext DEF DaysInv
  <2>2. AllHours(s.day)
    <3> SUFFICES ASSUME NEW h \in Stats!HoursOf(s.day) PROVE \E x \in hourStats : x.hour = h
      BY DEF AllHours
    <3>1. PICK x \in hourStats' : x.hour = h
      BY <1>6 DEF AllHours, Stats!HoursOf
    <3>2. DayOf(x.hour) # d
      BY <1>2, <2>1, <3>1, HoursAreOfDay
    <3> QED
      BY <1>4, <3>1, <3>2
  <2> QED
    BY <2>2 DEF FullInv
<1>7. ASSUME AllHours(d)'
      PROVE  NoMoreGas(d) /\ (RowsOfDay(d) => new.gas = TicksPerDay)
  <2>1. \A h \in Stats!HoursOf(d) : Stats!HourStatistics(h) \in T /\ Stats!Within(electricity, h, h + N) # {}
    BY <1>3, <1>7 DEF AllHours, Stats!HoursOf
  <2>2. NoMoreGas(d)
    <3>1. \A r \in readings : DayOf(r.at) = d => r.processed
      BY <1>1, SameDays DEF Stats!AllProcessed
    <3> QED
      BY <1>1, <1>2, <2>1, <3>1, ClosingSettles
  <2>3. ASSUME RowsOfDay(d) PROVE new.gas = TicksPerDay
    <3>1. T = {Stats!HourStatistics(h) : h \in Stats!HoursOf(d)}
      BY <1>3, <2>1
    <3>2. \A h \in Stats!HoursOf(d) : Stats!HourStatistics(h).gas = N
      BY <1>2, <2>3, HoursOfDayCount
    <3>3. GasSum(T) = N * HoursPerDay
      BY <1>2, <3>1, <3>2, SumOfHours
    <3> QED
      BY <1>2, <1>3, <3>3, HoursOfDay
  <2> QED
    BY <2>2, <2>3
<1> QED
  BY <1>3, <1>5, <1>6, <1>7 DEF FullInv

\* Every step keeps the days without gaps.
LEMMA FullStep ==
    /\ Hourly
    /\ TypeOK /\ TablesInv /\ RetentionInv /\ TraceInv /\ GasRowsInv /\ ChainInv /\ DaysInv /\ TotalInv /\ FullInv
    /\ [PipelineNext]_allVars
    => FullInv'
<1> SUFFICES ASSUME Hourly, TypeOK, TablesInv, RetentionInv, TraceInv, GasRowsInv, ChainInv, DaysInv, TotalInv,
                    FullInv, [PipelineNext]_allVars
             PROVE  FullInv'
  OBVIOUS
<1>1. CASE RunStatistics
  BY <1>1, StatisticsKeepFull
<1>2. CASE Telegram
  BY <1>2, TelegramSettles, SettledKept DEF Telegram
<1>3. CASE UNCHANGED statsVars /\ CompactGas
  BY <1>3, GasSettles, SettledKept
<1>4. ASSUME UNCHANGED statsVars, gas' = gas, meterTime' = meterTime, Unprocessed' \subseteq Unprocessed
      PROVE  FullInv'
  <2>1. \A d \in Int : NoMoreGas(d) => Settled(d)
    BY <1>4 DEF NoMoreGas, Settled, RowsOfDay, HasRow, GasKey, Stats!HoursOf
  <2> QED
    BY <1>4, <2>1, SettledKept
<1>5. CASE UNCHANGED statsVars /\ MarkProcessed
  <2>1. gas' = gas /\ meterTime' = meterTime /\ Unprocessed' \subseteq Unprocessed
    BY <1>5 DEF MarkProcessed, meterVars, Unprocessed, Done
  <2> QED
    BY <1>4, <1>5, <2>1
<1>6. CASE UNCHANGED statsVars /\ UNCHANGED <<gas, readings, meterTime>>
  BY <1>4, <1>6 DEF Unprocessed
<1>7. CASE UNCHANGED <<statsVars, meterTime>> /\ Retain!CleanHour
  <2>1. gas' = gas
    BY <1>7, CleaningKeepsEnds, HourlyKept
  <2>2. Unprocessed' \subseteq Unprocessed
    BY <1>7, RetentionDeletes DEF RetentionStep, Retain!Run, Unprocessed
  <2> QED
    BY <1>4, <1>7, <2>1, <2>2
<1> QED
  BY <1>1, <1>2, <1>3, <1>5, <1>6, <1>7
     DEF PipelineNext, TimePasses, Tick, RunCompactor, Pass, StartPass, Compact, NotReady,
         CompactElectricity, RunRetention, Retain!Run, Retain!Start, Retain!NextModel,
         BackendDies, Crash, Retain!Abort, allVars, vars, dbVars, meterVars

\* With a meter which reports its gas by the hour, as those of DSMR 4 do, and
\* days of more than one hour: a day of which no hour was missed counts what the
\* meter did between its midnights (run Pipeline, FullDayHasItsGas). With a single
\* hour a day may be closed before its first gas is seen.
THEOREM FullDayHasAllGas == Hourly /\ PipelineSpec => []FullDayHasItsGas
<1>1. PipelineInit => ChainInv /\ FullInv
  BY DEF PipelineInit, Init, Stats!Init, ChainInv, FullInv
<1>2. DaysInv /\ FullInv => FullDayHasItsGas
  <2> SUFFICES ASSUME DaysInv, FullInv, NEW s \in dayStats, HasRow(gas, DayStart(s.day) - N), AllHours(s.day),
                      \A h \in Stats!HoursOf(s.day) : HasRow(gas, h)
               PROVE  s.gas = DayStart(s.day + 1) - DayStart(s.day)
    BY DEF FullDayHasItsGas, AllHours, HasRow, N
  <2>1. s.gas = TicksPerDay
    BY DEF FullInv, RowsOfDay
  <2>2. s.day \in Int
    BY DEF DaysInv, Stats!DaysWithStats
  <2>3. DayStart(s.day + 1) = DayStart(s.day) + TicksPerDay /\ DayStart(s.day) \in Int /\ TicksPerDay \in Int
    BY <2>2, MeterTimeAssumption, HoursOfDay DEF TicksPerDay, TicksPerHour
  <2> QED
    BY <2>1, <2>3
<1>3. TraceInv => InOrder
  BY DEF TraceInv
<1> SUFFICES ASSUME Hourly PROVE PipelineSpec => []FullDayHasItsGas
  OBVIOUS
<1>4. TypeOK /\ TablesInv /\ InOrder /\ GasRowsInv /\ ChainInv /\ [PipelineNext]_allVars => ChainInv'
  BY ChainStep
<1>5. /\ TypeOK /\ TablesInv /\ RetentionInv /\ TraceInv /\ GasRowsInv /\ ChainInv /\ DaysInv /\ TotalInv /\ FullInv
      /\ [PipelineNext]_allVars
      => FullInv'
  BY FullStep
<1> QED
  BY <1>1, <1>2, <1>3, <1>4, <1>5, PipelineTypes, PipelineTables, PipelineRetention, PipelineTraces,
     PipelineGasRows, PipelineDays, PipelineTotals, PTL DEF PipelineSpec

-----------------------------------------------------------------------------
(***************************************************************************)
(* The types of the pipeline, sums and differences included.               *)
(***************************************************************************)

\* The electricity between the ends of rows.
LEMMA ElectricityIsInt ==
    ASSUME TypeOK, TablesInv, NEW rows, rows \subseteq electricity, rows # {}
    PROVE  Stats!HourElectricity(rows) \in Int
<1>1. LastTick + TicksPerMinute \in Nat /\ \A e \in electricity : e.readAt \in 0..(LastTick + TicksPerMinute)
  BY CompactorAssumption, MeterTimeAssumption DEF TypeOK, ElectricityRow, TablesInv
<1>2. PICK f, l \in rows : IsEnds(rows, f, l)
  BY <1>1, EndsExist
<1>3. Apart(rows)
  BY <1>1 DEF Apart, TablesInv, OneRowPerMoment
<1>4. f.last \in Int /\ l.last \in Int
  BY DEF TypeOK, ElectricityRow
<1> QED
  BY <1>2, <1>3, <1>4, EndsAreChosen DEF Stats!HourElectricity

\* The rows that are created.
LEMMA StatisticsKeepTypes ==
    ASSUME TypeOK, TablesInv, TraceInv, GasRowsInv, DaysInv, TotalInv, Stats!TypeOK, RunStatistics
    PROVE  Stats!TypeOK'
<1> PICK d : d = Stats!NextDay
  OBVIOUS
<1>1. electricity # {} /\ Stats!HasConsumption(d) /\ Stats!CreateStatistics(d)
  BY DEF RunStatistics, Stats!Generate
<1>2. PICK e \in electricity : DayOf(e.readAt) = d
  BY <1>1, SameDays DEF Stats!HasConsumption
<1>3. /\ e.readAt \in Nat /\ d \in Int /\ DayStart(d) \in Int /\ DayStart(d + 1) \in Int
      /\ DayStart(d) <= e.readAt /\ e.readAt < DayStart(d + 1)
  BY <1>2, DayBounds DEF TypeOK, ElectricityRow
<1>4. d \in Nat /\ DayStart(d) \in Nat
  <2>1. DayOf(0) = 0 /\ DayOf(0) <= DayOf(e.readAt)
    <3>1. DayOf(0) = 0
      BY MeterTimeAssumption DEF DayOf, TicksPerDay, TicksPerHour
    <3> QED
      BY <1>3, <3>1, DaysFollowMoments
  <2>2. DayStart(0) = 0 /\ DayStart(0) <= DayStart(d)
    <3>1. DayStart(0) = 0
      BY MeterTimeAssumption DEF DayStart, TicksPerDay, TicksPerHour
    <3> QED
      BY <1>2, <1>3, <2>1, <3>1, MidnightsInOrder
  <2> QED
    BY <1>2, <1>3, <2>1, <2>2
<1>5. ASSUME NEW h \in Stats!HoursToCreate(d)
      PROVE  Stats!HourStatistics(h) \in Stats!HourRow
  <2>1. h \in Stats!HoursOf(d) /\ Stats!Within(electricity, h, h + N) # {}
    BY DEF Stats!HoursToCreate, Stats!TicksPerHour, N, TicksPerHour
  <2>2. h \in Nat
    <3>1. PICK i \in 0..(HoursPerDay - 1) : h = DayStart(d) + N * i
      BY <1>3, <2>1, HoursOfDay
    <3>2. N * i \in Nat
      <4>1. N \in Nat /\ i \in Nat
        BY <1>3, HoursOfDay
      <4> QED
        BY <4>1
    <3> QED
      BY <1>4, <3>1, <3>2
  <2>3. Stats!HourElectricity(Stats!Within(electricity, h, h + N)) \in Int
    <3>1. Stats!Within(electricity, h, h + N) \subseteq electricity
      BY DEF Stats!Within
    <3> QED
      BY <2>1, <3>1, ElectricityIsInt
  <2>4. Stats!HourGas(Stats!Within(gas, h, h + N)) \in Int
    BY <2>2, HourGasBound
  <2>5. Stats!TicksPerHour = N
    BY <1>3, HoursOfDay
  <2> QED
    BY <2>2, <2>3, <2>4, <2>5 DEF Stats!HourStatistics, Stats!HourRow
<1>6. Stats!DayStatistics(d, hourStats') \in Stats!DayRow
  <2>1. Stats!HourElectricity(Stats!Within(electricity, DayStart(d), DayStart(d + 1))) \in Int
    <3>1. e \in Stats!Within(electricity, DayStart(d), DayStart(d + 1))
      BY <1>3 DEF Stats!Within
    <3>2. Stats!Within(electricity, DayStart(d), DayStart(d + 1)) \subseteq electricity
      BY DEF Stats!Within
    <3> QED
      BY <3>1, <3>2, ElectricityIsInt
  <2>2. PICK new : new = Stats!DayStatistics(d, hourStats')
    OBVIOUS
  <2>3. new.gas \in Int
    <3>1. TotalInv'
      BY StatisticsKeepTotal
    <3>2. new \in dayStats'
      BY <1>1, <2>2 DEF Stats!CreateStatistics
    <3> QED
      BY <3>1, <3>2 DEF TotalInv
  <2>4. new = [day |-> d, gas |-> new.gas,
               electricity |-> Stats!HourElectricity(Stats!Within(electricity, DayStart(d), DayStart(d + 1)))]
    BY <2>2, SameDays DEF Stats!DayStatistics
  <2> QED
    BY <1>4, <2>1, <2>2, <2>3, <2>4 DEF Stats!DayRow
<1> QED
  BY <1>1, <1>5, <1>6 DEF Stats!TypeOK, Stats!CreateStatistics

\* The types of each part of the pipeline: retention lists nothing outside of a
\* run, and the statistics have numbers, although they are differences of rows
\* that were looked for and sums of such.
THEOREM PipelineTypeCorrect == PipelineSpec => [](TypeOK /\ Retain!TypeOK /\ Stats!TypeOK)
<1> DEFINE Listed == cleaning = "none" => hours = {}
<1>1. PipelineInit => Listed /\ Stats!TypeOK
  BY DEF PipelineInit, Retain!Init, Stats!Init, Stats!TypeOK
<1>2. Listed /\ [PipelineNext]_allVars => Listed'
  BY DEF PipelineNext, Telegram, TimePasses, RunCompactor, RunRetention, Retain!Run, Retain!Start, Retain!CleanHour,
         Retain!NextModel, RunStatistics, BackendDies, Retain!Abort, retentionVars, allVars
<1>3. TypeOK /\ TablesInv /\ TraceInv /\ GasRowsInv /\ DaysInv /\ TotalInv /\ Stats!TypeOK /\ [PipelineNext]_allVars
          => Stats!TypeOK'
  <2>1. UNCHANGED statsVars /\ Stats!TypeOK => Stats!TypeOK'
    BY DEF statsVars, Stats!TypeOK
  <2> QED
    BY <2>1, StatisticsKeepTypes
       DEF PipelineNext, Telegram, TimePasses, RunCompactor, RunRetention, BackendDies, allVars
<1>4. RetentionInv /\ Listed => Retain!TypeOK
  <2>1. N \in Int
    BY MeterTimeAssumption DEF N, TicksPerHour
  <2> QED
    BY <2>1 DEF RetentionInv, HoursAligned, Retain!TypeOK
<1> QED
  BY <1>1, <1>2, <1>3, <1>4, PipelineTypes, PipelineTables, PipelineRetention, PipelineTraces, PipelineGasRows,
     PipelineDays, PipelineTotals, PTL DEF PipelineSpec
===============================================================================
