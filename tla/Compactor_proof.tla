--------------------------- MODULE Compactor_proof ---------------------------
(***************************************************************************)
(* Theorems about the compactor, for every number of readings and crashes, *)
(* every grouping and every length of a minute, an hour and a day.         *)
(***************************************************************************)
EXTENDS Compactor, TLAPS

\* The moments that rows are stored at, relative to the reading's own.
LEMMA MinuteBounds ==
    ASSUME NEW t \in Nat
    PROVE  /\ MinuteStart(t) \in Nat
           /\ MinuteEnd(t) \in Nat
           /\ MinuteStart(t) <= t
           /\ t < MinuteEnd(t)
           /\ MinuteEnd(t) = MinuteStart(t) + TicksPerMinute
  BY MeterTimeAssumption DEF MinuteStart, MinuteEnd

\* The hour that gas rows are stored at: an integer, as DSMR 4 shifts it back.
LEMMA GasKeyInt ==
    ASSUME NEW r, r.gasAt \in Int
    PROVE  GasKey(r) \in Int
<1>1. TicksPerHour \in Nat \ {0}
  BY MeterTimeAssumption DEF TicksPerHour
<1>2. HourStart(r.gasAt) \in Int
  BY <1>1 DEF HourStart
<1>. QED
  BY <1>1, <1>2 DEF GasKey

\* The gas timestamps a telegram carries are integers.
LEMMA GasStampsInt ==
    ASSUME NEW t \in Nat
    PROVE  GasStamps(t) \subseteq Int
<1>1. t - (t % GasInterval) \in Int
  BY CompactorAssumption
<1>. QED
  BY <1>1 DEF GasStamps, NoGas

\* Inserting, by telegram or through the API, adds one unprocessed reading.
LEMMA InsertTypeOK ==
    ASSUME TypeOK, NEW t \in Ticks, NEW g \in GasStamps(t), Insert(t, g), meterTime' \in Int
    PROVE  TypeOK'
<1>1. t \in Nat /\ g \in Int
  BY GasStampsInt, CompactorAssumption DEF Ticks
<1>2. nextPk' \in Nat \ {0}
  BY DEF TypeOK, Insert
<1>3. [pk |-> nextPk, at |-> t, gasAt |-> g, processed |-> FALSE] \in Reading
  BY <1>1 DEF TypeOK, Reading
<1>4. readings' \subseteq Reading
  BY <1>3 DEF TypeOK, Insert
<1>5. batch' \subseteq {r \in readings' : ~r.processed}
  BY DEF TypeOK, Insert, passVars
<1>. QED
  BY <1>2, <1>4, <1>5 DEF TypeOK, Insert, passVars

(***************************************************************************)
(* The types of the variables, with what ties a pass to the database: the  *)
(* snapshot the pass works on stays in step with the table.                *)
(***************************************************************************)
LEMMA TypeOKStep == TypeOK /\ [Next]_vars => TypeOK'
<1> SUFFICES ASSUME TypeOK, [Next]_vars
             PROVE  TypeOK'
  OBVIOUS
<1>1. CASE Tick
  BY <1>1 DEF TypeOK, Tick, dbVars, passVars
<1>2. ASSUME NEW t \in Ticks, Receive(t)
      PROVE  TypeOK'
  <2>1. PICK g \in GasStamps(t) : Insert(t, g)
    BY <1>2 DEF Receive
  <2>2. meterTime' \in Int
    BY <1>2, CompactorAssumption DEF Receive, Ticks
  <2>. QED
    BY <2>1, <2>2, InsertTypeOK
<1>3. ASSUME NEW t \in Ticks, Create(t)
      PROVE  TypeOK'
  <2>1. PICK g \in GasStamps(t) : Insert(t, g)
    BY <1>3 DEF Create
  <2>2. meterTime' \in Int
    BY <1>3 DEF Create, TypeOK
  <2>. QED
    BY <2>1, <2>2, InsertTypeOK
<1>4. ASSUME NEW g \in Groupings, ChangeGrouping(g)
      PROVE  TypeOK'
  BY <1>4 DEF TypeOK, ChangeGrouping, meterVars, dbVars, passVars
<1>5. CASE StartPass
  BY <1>5 DEF TypeOK, StartPass, OldestFirst, Unprocessed, meterVars, dbVars
<1>6. ASSUME NEW r \in batch, Compact(r)
      PROVE  TypeOK'
  BY <1>6 DEF TypeOK, Compact, Oldest, meterVars, dbVars
<1>7. ASSUME NEW r \in batch, NotReady(r)
      PROVE  TypeOK'
  BY <1>7 DEF TypeOK, NotReady, meterVars, dbVars
<1>8. CASE CompactElectricity
  <2>1. current \in readings /\ current.at \in Nat
    BY <1>8 DEF TypeOK, CompactElectricity, Reading
  <2>2. RowKey(current, mode) \in Nat
    BY <2>1, MinuteBounds DEF RowKey
  <2>3. \A s \in RowSources(current, mode) : s.at \in Nat
    BY <2>1 DEF RowSources, InMinute, TypeOK, Reading
  <2>4. electricity' \subseteq ElectricityRow
    BY <1>8, <2>2, <2>3 DEF CompactElectricity, TypeOK, ElectricityRow
  <2>. QED
    BY <1>8, <2>4 DEF TypeOK, CompactElectricity, meterVars
<1>9. CASE CompactGas
  <2>1. current \in readings /\ current.gasAt \in Int
    BY <1>9 DEF TypeOK, CompactGas, Reading
  <2>2. GasKey(current) \in Int
    BY <2>1, GasKeyInt
  <2>3. GasDiff(current.gasAt, GasKey(current)) \in Int
    BY <2>1 DEF GasDiff, PreviousGas, TypeOK, GasRow
  <2>4. gas' \subseteq GasRow
    BY <1>9, <2>1, <2>2, <2>3 DEF CompactGas, TypeOK, GasRow
  <2>. QED
    BY <1>9, <2>4 DEF TypeOK, CompactGas, meterVars
<1>10. CASE MarkProcessed
  <2>1. current \in readings /\ current \in batch /\ current \in Reading
    BY <1>10 DEF TypeOK, MarkProcessed, Done
  <2>2. Done(current) \in Reading
    BY <2>1 DEF Reading, Done
  <2>3. readings' \subseteq Reading
    BY <1>10, <2>2 DEF TypeOK, MarkProcessed
  <2>4. batch' \subseteq {r \in readings' : ~r.processed}
    BY <1>10 DEF TypeOK, MarkProcessed, Done
  <2>. QED
    BY <1>10, <2>3, <2>4 DEF TypeOK, MarkProcessed, meterVars
<1>11. CASE Crash
  BY <1>11 DEF TypeOK, Crash, meterVars, dbVars
<1>12. CASE UNCHANGED vars
  BY <1>12 DEF TypeOK, vars
<1>. QED
  BY <1>1, <1>2, <1>3, <1>4, <1>5, <1>6, <1>7, <1>8, <1>9, <1>10, <1>11, <1>12
     DEF Next, Pass

\* The types hold in every reachable state, and what a pass still has to do is
\* unprocessed in the table (runs CompactorByMinute and CompactorMixed).
THEOREM TypeCorrect == Spec => []TypeOK
<1>1. Init => TypeOK
  BY DEF Init, TypeOK
<1>. QED
  BY <1>1, TypeOKStep, PTL DEF Spec

(***************************************************************************)
(* Nothing is marked as processed without its rows. The invariant follows  *)
(* the reading being compacted through the three commits.                  *)
(***************************************************************************)
HasElectricity(r) == HasRow(electricity, r.at) \/ HasRow(electricity, MinuteEnd(r.at))

HasGas(r) == r.gasAt # NoGas => HasRow(gas, GasKey(r))

StoredInv ==
    /\ ProcessedIsStored
    /\ pc \in {"gas", "processed"} => HasElectricity(current)
    /\ pc = "processed" => HasGas(current)

\* Every step keeps the invariant.
LEMMA StoredStep == TypeOK /\ StoredInv /\ [Next]_vars => StoredInv'
<1> SUFFICES ASSUME TypeOK, StoredInv, [Next]_vars
             PROVE  StoredInv'
  OBVIOUS
<1> USE DEF StoredInv, ProcessedIsStored, HasElectricity, HasGas
<1>1. ASSUME NEW t \in Ticks, NEW g \in GasStamps(t), Insert(t, g)
      PROVE  StoredInv'
  BY <1>1 DEF Insert, passVars
<1>2. CASE StartPass
  BY <1>2 DEF StartPass, dbVars
<1>3. ASSUME NEW r \in batch, Compact(r) \/ NotReady(r)
      PROVE  StoredInv'
  BY <1>3 DEF Compact, NotReady, dbVars
<1>4. CASE CompactElectricity
  <2>1. electricity \subseteq electricity' /\ UNCHANGED <<readings, gas, current>>
    BY <1>4 DEF CompactElectricity
  <2>2. HasRow(electricity', RowKey(current, mode))
    <3>1. CASE HasRow(electricity, RowKey(current, mode))
      BY <2>1, <3>1 DEF HasRow
    <3>2. CASE ~HasRow(electricity, RowKey(current, mode))
      <4>1. PICK s \in RowSources(current, mode) :
                electricity' = electricity \union {[readAt |-> RowKey(current, mode), last |-> s.at]}
        BY <1>4, <3>2 DEF CompactElectricity
      <4> DEFINE row == [readAt |-> RowKey(current, mode), last |-> s.at]
      <4>2. row \in electricity' /\ row.readAt = RowKey(current, mode)
        BY <4>1
      <4>. QED
        BY <4>2 DEF HasRow
    <3>. QED
      BY <3>1, <3>2
  <2>3. HasElectricity(current)'
    BY <2>1, <2>2 DEF RowKey
  <2>4. \A r \in readings : (HasElectricity(r) => HasElectricity(r)') /\ (HasGas(r) => HasGas(r)')
    BY <2>1 DEF HasRow
  <2>. QED
    BY <1>4, <2>1, <2>3, <2>4 DEF CompactElectricity
<1>5. CASE CompactGas
  <2>1. gas \subseteq gas' /\ UNCHANGED <<readings, electricity, current>>
    BY <1>5 DEF CompactGas
  <2>2. HasGas(current)'
    <3>1. CASE current.gasAt = NoGas \/ HasRow(gas, GasKey(current))
      BY <1>5, <2>1, <3>1 DEF CompactGas, HasRow, GasKey
    <3>2. CASE ~(current.gasAt = NoGas \/ HasRow(gas, GasKey(current)))
      <4> DEFINE row == [readAt |-> GasKey(current), delivered |-> current.gasAt,
                         diff |-> GasDiff(current.gasAt, GasKey(current))]
      <4>1. row \in gas' /\ row.readAt = GasKey(current)
        BY <1>5, <3>2 DEF CompactGas
      <4>. QED
        BY <2>1, <4>1 DEF HasRow, GasKey
    <3>. QED
      BY <3>1, <3>2
  <2>3. \A r \in readings : (HasElectricity(r) => HasElectricity(r)') /\ (HasGas(r) => HasGas(r)')
    BY <2>1 DEF HasRow
  <2>. QED
    BY <1>5, <2>1, <2>2, <2>3 DEF CompactGas
<1>6. CASE MarkProcessed
  <2>1. Done(current).at = current.at /\ Done(current).gasAt = current.gasAt
    BY DEF Done
  <2>2. GasKey(Done(current)) = GasKey(current)
    BY <2>1 DEF GasKey
  <2>3. HasElectricity(Done(current)) /\ HasGas(Done(current))
    BY <1>6, <2>1, <2>2 DEF MarkProcessed
  <2>4. UNCHANGED <<electricity, gas>> /\ pc' \in {"idle", "next"}
    BY <1>6 DEF MarkProcessed
  <2>5. \A r \in readings' : r \in readings \/ r = Done(current)
    BY <1>6 DEF MarkProcessed
  <2>. QED
    BY <2>3, <2>4, <2>5
<1>7. CASE Crash
  BY <1>7 DEF Crash, dbVars
<1>8. CASE UNCHANGED <<dbVars, pc, current>>
  BY <1>8 DEF dbVars
<1>. QED
  BY <1>1, <1>2, <1>3, <1>4, <1>5, <1>6, <1>7, <1>8
     DEF Next, Pass, Receive, Create, Tick, ChangeGrouping, vars, passVars

\* A reading is marked as processed only when its consumption is stored (run
\* CompactorMixed, ProcessedIsStored), for every number of readings, crashes and
\* changes of the grouping.
THEOREM ProcessedStored == Spec => []ProcessedIsStored
<1>1. Init => StoredInv
  BY DEF Init, StoredInv, ProcessedIsStored
<1>2. StoredInv => ProcessedIsStored
  BY DEF StoredInv
<1>. QED
  BY <1>1, <1>2, TypeCorrect, StoredStep, PTL DEF Spec

-----------------------------------------------------------------------------
\* Every step keeps the rows apart.
LEMMA OneRowStep == OneRowPerMoment /\ [Next]_vars => OneRowPerMoment'
<1> SUFFICES ASSUME OneRowPerMoment, [Next]_vars
             PROVE  OneRowPerMoment'
  OBVIOUS
<1> USE DEF OneRowPerMoment
<1>1. CASE CompactElectricity
  <2>1. UNCHANGED gas
    BY <1>1 DEF CompactElectricity
  <2>2. CASE UNCHANGED electricity
    BY <2>1, <2>2
  <2>3. CASE ~(UNCHANGED electricity)
    <3>1. ~HasRow(electricity, RowKey(current, mode))
      BY <1>1, <2>3 DEF CompactElectricity
    <3>2. PICK s \in RowSources(current, mode) :
              electricity' = electricity \union {[readAt |-> RowKey(current, mode), last |-> s.at]}
      BY <1>1, <3>1 DEF CompactElectricity
    <3>3. \A e \in electricity : e.readAt # RowKey(current, mode)
      BY <3>1 DEF HasRow
    <3>. QED
      BY <2>1, <3>2, <3>3
  <2>. QED
    BY <2>2, <2>3
<1>2. CASE CompactGas
  <2>1. UNCHANGED electricity
    BY <1>2 DEF CompactGas
  <2>2. CASE UNCHANGED gas
    BY <2>1, <2>2
  <2>3. CASE ~(UNCHANGED gas)
    <3>1. /\ ~HasRow(gas, GasKey(current))
          /\ gas' = gas \union {[readAt |-> GasKey(current), delivered |-> current.gasAt,
                                   diff |-> GasDiff(current.gasAt, GasKey(current))]}
      BY <1>2, <2>3 DEF CompactGas
    <3>2. \A q \in gas : q.readAt # GasKey(current)
      BY <3>1 DEF HasRow
    <3>. QED
      BY <2>1, <3>1, <3>2
  <2>. QED
    BY <2>2, <2>3
<1>3. CASE UNCHANGED <<electricity, gas>>
  BY <1>3
<1>. QED
  BY <1>1, <1>2, <1>3
     DEF Next, Pass, Tick, Receive, Create, Insert, ChangeGrouping, StartPass, Compact,
         NotReady, MarkProcessed, Crash, vars, dbVars

\* The tables never get two rows for a moment (run CompactorMixed,
\* OneRowPerMoment), whoever inserts what and whenever the grouping changes: what
\* is created was looked for first, and nobody else creates rows in between.
THEOREM OneRow == Spec => []OneRowPerMoment
<1>1. Init => OneRowPerMoment
  BY DEF Init, OneRowPerMoment
<1>. QED
  BY <1>1, OneRowStep, PTL DEF Spec

-----------------------------------------------------------------------------
\* Two moments are in the same minute when their rows have the same key.
LEMMA SameMinute ==
    ASSUME NEW s \in Nat, NEW t \in Nat
    PROVE  MinuteEnd(s) = MinuteEnd(t)
               <=> MinuteStart(t) <= s /\ s < MinuteEnd(t)
<1> DEFINE n == TicksPerMinute
           qs == s \div n
           qt == t \div n
<1>1. n \in Nat \ {0} /\ qs \in Int /\ qt \in Int
  BY MeterTimeAssumption
<1>2. MinuteStart(s) = n * qs /\ MinuteStart(t) = n * qt
  BY <1>1 DEF MinuteStart
<1>3. ASSUME MinuteStart(t) <= s, s < MinuteEnd(t)
      PROVE  qs = qt
  <2>1. n * qt <= s /\ s < n * (qt + 1) /\ n * qs <= s /\ s < n * (qs + 1)
    BY <1>1, <1>2, <1>3, MinuteBounds DEF MinuteEnd
  <2>2. ~(qs < qt)
    BY <1>1, <2>1
  <2>3. ~(qt < qs)
    BY <1>1, <2>1
  <2>. QED
    BY <1>1, <2>2, <2>3
<1>4. ASSUME MinuteEnd(s) = MinuteEnd(t)
      PROVE  MinuteStart(t) <= s /\ s < MinuteEnd(t)
  <2>1. MinuteStart(s) = MinuteStart(t)
    BY <1>1, <1>2, <1>4 DEF MinuteEnd
  <2>. QED
    BY <1>4, <2>1, MinuteBounds
<1>5. qs = qt => MinuteEnd(s) = MinuteEnd(t)
  BY <1>2 DEF MinuteEnd
<1>. QED
  BY <1>3, <1>4, <1>5

(***************************************************************************)
(* Grouping by minute, telegrams in order: a row is created once a later   *)
(* reading has been seen, and from then on nothing is inserted before it.  *)
(***************************************************************************)
FinalInv ==
    /\ MinuteRowsAreFinal
    /\ \A r \in readings : r.at <= meterTime
    /\ \A e \in electricity : e.readAt <= meterTime
    /\ pc = "electricity" => MinuteEnd(current.at) <= meterTime

\* Every step keeps the invariant.
LEMMA FinalStep ==
    ASSUME Groupings = {ByMinute}, ~Retroactive
    PROVE  TypeOK /\ FinalInv /\ [Next]_vars => FinalInv'
<1> SUFFICES ASSUME TypeOK, FinalInv, [Next]_vars
             PROVE  FinalInv'
  OBVIOUS
<1> USE DEF FinalInv, MinuteRowsAreFinal
<1>1. ASSUME NEW t \in Ticks, Receive(t)
      PROVE  FinalInv'
  <2>1. t \in Nat /\ t > meterTime /\ meterTime' = t /\ meterTime \in Int
    BY <1>1, CompactorAssumption DEF Receive, Ticks, TypeOK
  <2>2. PICK g \in GasStamps(t) : Insert(t, g)
    BY <1>1 DEF Receive
  <2> DEFINE new == [pk |-> nextPk, at |-> t, gasAt |-> g, processed |-> FALSE]
  <2>3. readings' = readings \union {new} /\ new.at = t
    BY <2>2 DEF Insert
  <2>4. UNCHANGED <<electricity, pc, current>>
    BY <2>2 DEF Insert, passVars
  <2>5. \A r \in readings' : r.at <= meterTime'
    BY <2>1, <2>3 DEF TypeOK, Reading
  <2>6. \A e \in electricity : e.readAt \in Nat /\ e.readAt <= meterTime /\ e.last \in Nat
    BY DEF TypeOK, ElectricityRow
  <2>7. MinuteEnd(t) \in Nat /\ MinuteEnd(t) > t
    BY <2>1, MinuteBounds
  <2>8. \A e \in electricity : MinuteEnd(t) # e.readAt
    BY <2>1, <2>6, <2>7
  <2>9. MinuteRowsAreFinal'
    BY <2>3, <2>4, <2>8
  <2>10. pc' = "electricity" => MinuteEnd(current'.at) <= meterTime'
    <3>1. pc = "electricity" => current.at \in Nat
      BY DEF TypeOK, Reading
    <3>. QED
      BY <2>1, <2>4, <3>1, MinuteBounds
  <2>. QED
    BY <2>1, <2>4, <2>5, <2>6, <2>9, <2>10
<1>2. ASSUME NEW r \in batch, Compact(r)
      PROVE  FinalInv'
  <2>1. grouping = ByMinute /\ current' = r /\ r.at \in Nat
    BY <1>2 DEF TypeOK, Compact, Reading
  <2>2. NewerReadingExists(r)
    BY <1>2, <2>1 DEF Compact, Ready
  <2>3. PICK s \in readings : s.at >= MinuteEnd(r.at)
    BY <2>2 DEF NewerReadingExists
  <2>4. MinuteEnd(r.at) <= meterTime
    BY <2>1, <2>3, MinuteBounds DEF TypeOK, Reading
  <2>. QED
    BY <1>2, <2>1, <2>4 DEF Compact, dbVars, meterVars
<1>3. CASE CompactElectricity
  <2>1. current \in readings /\ current.at \in Nat /\ mode = ByMinute
    BY <1>3 DEF TypeOK, CompactElectricity, Reading
  <2>2. MinuteEnd(current.at) \in Nat /\ MinuteEnd(current.at) <= meterTime
    BY <1>3, <2>1, MinuteBounds DEF CompactElectricity
  <2>3. CASE electricity' = electricity
    BY <1>3, <2>3 DEF CompactElectricity, meterVars
  <2>4. ASSUME NEW s \in RowSources(current, mode),
               \A o \in RowSources(current, mode) : o.at <= s.at,
               electricity' = electricity \union {[readAt |-> RowKey(current, mode), last |-> s.at]}
        PROVE  FinalInv'
    <3> DEFINE row == [readAt |-> RowKey(current, mode), last |-> s.at]
    <3>1. row.readAt = MinuteEnd(current.at) /\ row.last = s.at
      BY <2>1 DEF RowKey
    <3>2. \A r \in readings : r.at \in Nat
      BY DEF TypeOK, Reading
    <3>3. \A r \in readings : MinuteEnd(r.at) = MinuteEnd(current.at)
                                  <=> r \in RowSources(current, mode)
      BY <2>1, <3>2, SameMinute DEF RowSources, InMinute
    <3>4. s \in readings /\ MinuteEnd(s.at) = row.readAt /\ s.at = row.last
      BY <2>1, <2>4, <3>1, <3>3 DEF RowSources, InMinute
    <3>5. \A r \in readings : MinuteEnd(r.at) = row.readAt => r.at <= row.last
      BY <2>4, <3>1, <3>3
    <3>6. UNCHANGED <<readings, meterTime>> /\ pc' = "gas"
      BY <1>3 DEF CompactElectricity, meterVars
    <3>7. \A e \in electricity' : e \in electricity \/ e = row
      BY <2>4
    <3>8. MinuteRowsAreFinal'
      BY <3>4, <3>5, <3>6, <3>7
    <3>9. \A e \in electricity' : e.readAt <= meterTime'
      BY <2>2, <3>1, <3>6, <3>7
    <3>. QED
      BY <3>6, <3>8, <3>9
  <2>. QED
    BY <1>3, <2>3, <2>4 DEF CompactElectricity
<1>4. CASE MarkProcessed
  <2>1. current \in readings /\ Done(current).at = current.at
    BY <1>4 DEF TypeOK, MarkProcessed, Done
  <2>2. readings' = (readings \ {current}) \union {Done(current)}
    BY <1>4 DEF MarkProcessed
  <2>3. UNCHANGED <<electricity, meterTime>> /\ pc' # "electricity"
    BY <1>4 DEF MarkProcessed, meterVars
  <2>4. \A r \in readings' : \E s \in readings : s.at = r.at
    BY <2>1, <2>2
  <2>5. \A s \in readings : \E r \in readings' : s.at = r.at
    BY <2>1, <2>2
  <2>6. MinuteRowsAreFinal'
    BY <2>3, <2>4, <2>5
  <2>. QED
    BY <2>3, <2>4, <2>6
<1>5. CASE StartPass \/ (\E r \in batch : NotReady(r)) \/ CompactGas \/ Crash
  BY <1>5 DEF StartPass, NotReady, CompactGas, Crash, meterVars, dbVars
<1>6. CASE Tick \/ (\E g \in Groupings : ChangeGrouping(g)) \/ UNCHANGED vars
  BY <1>6 DEF Tick, ChangeGrouping, meterVars, dbVars, passVars, vars
<1>. QED
  BY <1>1, <1>2, <1>3, <1>4, <1>5, <1>6 DEF Next, Pass, Create

\* Grouping by minute, with telegrams in order only: the row of a minute has the
\* position of the last reading that the minute has or will have (run
\* CompactorByMinute, MinuteRowsAreFinal).
THEOREM MinuteRowsFinal ==
    ASSUME Groupings = {ByMinute}, ~Retroactive
    PROVE  Spec => []MinuteRowsAreFinal
<1>1. Init => FinalInv
  BY DEF Init, FinalInv, MinuteRowsAreFinal
<1>2. FinalInv => MinuteRowsAreFinal
  BY DEF FinalInv
<1>3. TypeOK /\ FinalInv /\ [Next]_vars => FinalInv'
  BY FinalStep
<1>. QED
  BY <1>1, <1>2, <1>3, TypeCorrect, PTL DEF Spec
-----------------------------------------------------------------------------
(***************************************************************************)
(* Telegrams in order: gas rows are created in the order of their moments, *)
(* as readings are compacted in the order of theirs, so each row is added  *)
(* after the latest one.                                                   *)
(***************************************************************************)

\* Dropping the remainder keeps the order.
LEMMA FloorMonotone ==
    ASSUME NEW n \in Nat \ {0}, NEW s \in Nat, NEW t \in Nat, s <= t
    PROVE  /\ s - (s % n) \in Nat /\ t - (t % n) \in Nat
           /\ s - (s % n) <= t - (t % n)
<1> DEFINE qs == s \div n
           qt == t \div n
<1>1. qs \in Nat /\ qt \in Nat /\ s % n \in 0..(n - 1) /\ t % n \in 0..(n - 1)
  OBVIOUS
<1>2. s = n * qs + (s % n) /\ t = n * qt + (t % n)
  OBVIOUS
<1>3. n * qs < n * (qt + 1)
  BY <1>1, <1>2
<1> HIDE DEF qs, qt
<1>4. qs <= qt
  BY <1>1, <1>3
<1>5. n * qs <= n * qt /\ n * qs \in Nat /\ n * qt \in Nat
  BY <1>1, <1>4
<1>. QED
  BY <1>1, <1>2, <1>5

\* The gas timestamp of a reading is that of its own time.
HasOwnGas(r) == r.gasAt = r.at - (r.at % GasInterval)

\* So later readings have later gas rows, or the same one.
LEMMA GasKeyMonotone ==
    ASSUME NEW r, NEW s, r.at \in Nat, s.at \in Nat, r.at <= s.at, HasOwnGas(r), HasOwnGas(s)
    PROVE  GasKey(r) <= GasKey(s)
<1>1. TicksPerHour \in Nat \ {0} /\ GasInterval \in Nat \ {0}
  BY MeterTimeAssumption, CompactorAssumption DEF TicksPerHour
<1>2. r.gasAt \in Nat /\ s.gasAt \in Nat /\ r.gasAt <= s.gasAt
  BY <1>1, FloorMonotone DEF HasOwnGas
<1>3. HourStart(r.gasAt) \in Nat /\ HourStart(s.gasAt) \in Nat /\ HourStart(r.gasAt) <= HourStart(s.gasAt)
  BY <1>1, <1>2, FloorMonotone DEF HourStart
<1>. QED
  BY <1>1, <1>2, <1>3 DEF GasKey

InOrder ==
    /\ \A r \in readings : r.at <= meterTime
    /\ \A r \in readings : r.gasAt # NoGas => HasOwnGas(r)
    /\ \A r \in batch, s \in Unprocessed \ batch : r.at <= s.at
    /\ pc \notin {"idle", "next"} => \A s \in Unprocessed : current.at <= s.at

GasInOrder ==
    /\ \A q \in gas : \E r \in readings : r.gasAt # NoGas /\ q.readAt = GasKey(r)
    /\ \A q \in gas, s \in Unprocessed : s.gasAt # NoGas => q.readAt <= GasKey(s)

\* The steps of a system whose readings come in the order of their timestamps.
StepInOrder ==
    \/ Tick
    \/ \E t \in Ticks : Receive(t)
    \/ \E g \in Groupings : ChangeGrouping(g)
    \/ Pass
    \/ Crash
    \/ UNCHANGED vars

\* Those are all steps, without readings of the past.
LEMMA StepsInOrder ==
    ASSUME ~Retroactive
    PROVE  [Next]_vars => StepInOrder
BY DEF Next, Create, StepInOrder

\* Readings are compacted in their order.
LEMMA InOrderStep == TypeOK /\ InOrder /\ StepInOrder => InOrder'
<1> SUFFICES ASSUME TypeOK, InOrder, StepInOrder
             PROVE  InOrder'
  OBVIOUS
<1>1. ASSUME NEW t \in Ticks, Receive(t)
      PROVE  InOrder'
  <2>1. t \in Nat /\ t > meterTime /\ meterTime' = t /\ meterTime \in Int
    BY <1>1, CompactorAssumption DEF Receive, Ticks, TypeOK
  <2>2. PICK g \in GasStamps(t) : Insert(t, g)
    BY <1>1 DEF Receive
  <2> DEFINE new == [pk |-> nextPk, at |-> t, gasAt |-> g, processed |-> FALSE]
  <2>3. readings' = readings \union {new} /\ UNCHANGED <<pc, batch, current>>
    BY <2>2 DEF Insert, passVars
  <2>4. \A r \in readings : r.at \in Nat /\ r.at < t
    BY <2>1 DEF InOrder, TypeOK, Reading
  <2>5. new.gasAt # NoGas => HasOwnGas(new)
    BY DEF GasStamps, HasOwnGas
  <2>6. batch \subseteq readings /\ (pc \notin {"idle", "next"} => current \in readings)
    BY DEF TypeOK
  <2>7. new.at = t
    OBVIOUS
  <2> HIDE DEF new
  <2>8. Unprocessed' \subseteq Unprocessed \union {new}
    BY <2>3 DEF Unprocessed
  <2>9. \A r \in readings' : r.at <= meterTime'
    BY <2>1, <2>3, <2>4, <2>7
  <2>10. \A r \in readings' : r.gasAt # NoGas => HasOwnGas(r)
    BY <2>3, <2>5 DEF InOrder
  <2>11. \A r \in batch', s \in Unprocessed' \ batch' : r.at <= s.at
    BY <2>1, <2>3, <2>4, <2>6, <2>7, <2>8 DEF InOrder
  <2>12. pc' \notin {"idle", "next"} => \A s \in Unprocessed' : current'.at <= s.at
    BY <2>1, <2>3, <2>4, <2>6, <2>7, <2>8 DEF InOrder
  <2>. QED
    BY <2>9, <2>10, <2>11, <2>12 DEF InOrder, HasOwnGas
<1>2. CASE StartPass
  BY <1>2 DEF InOrder, StartPass, OldestFirst, Unprocessed, HasOwnGas, meterVars, dbVars
<1>3. ASSUME NEW r \in batch, Compact(r)
      PROVE  InOrder'
  <2>1. \A s \in Unprocessed : r.at <= s.at
    BY <1>3 DEF InOrder, Compact, Oldest
  <2>. QED
    BY <1>3, <2>1 DEF InOrder, Compact, Unprocessed, HasOwnGas, meterVars, dbVars
<1>4. ASSUME NEW r \in batch, NotReady(r)
      PROVE  InOrder'
  BY <1>4 DEF InOrder, NotReady, Unprocessed, HasOwnGas, meterVars, dbVars
<1>5. CASE CompactElectricity \/ CompactGas
  <2>1. UNCHANGED <<meterTime, readings, batch, current>> /\ pc \notin {"idle", "next"}
    BY <1>5 DEF CompactElectricity, CompactGas, meterVars
  <2>. QED
    BY <2>1 DEF InOrder, Unprocessed, HasOwnGas
<1>6. CASE MarkProcessed
  <2>1. /\ readings' = (readings \ {current}) \union {Done(current)}
        /\ batch' = batch \ {current}
        /\ pc' \in {"idle", "next"} /\ meterTime' = meterTime
    BY <1>6 DEF MarkProcessed, meterVars
  <2>2. /\ Done(current).at = current.at /\ Done(current).gasAt = current.gasAt
        /\ Done(current).processed
    BY DEF Done
  <2>3. current \in readings /\ current \in batch
    BY <1>6 DEF TypeOK, MarkProcessed
  <2>4. Unprocessed' \subseteq Unprocessed \ {current}
    BY <2>1, <2>2 DEF Unprocessed
  <2>5. \A r \in readings' : r.at <= meterTime'
    BY <2>1, <2>2, <2>3 DEF InOrder
  <2>6. \A r \in readings' : r.gasAt # NoGas => HasOwnGas(r)
    BY <2>1, <2>2, <2>3 DEF InOrder, HasOwnGas
  <2>. QED
    BY <2>1, <2>4, <2>5, <2>6 DEF InOrder, HasOwnGas
<1>7. CASE Crash
  BY <1>7 DEF InOrder, Crash, Unprocessed, HasOwnGas, meterVars, dbVars
<1>8. CASE UNCHANGED <<meterTime, readings, pc, batch, current>>
  BY <1>8 DEF InOrder, Unprocessed, HasOwnGas
<1>. QED
  BY <1>1, <1>2, <1>3, <1>4, <1>5, <1>6, <1>7, <1>8
     DEF StepInOrder, Pass, Tick, ChangeGrouping, vars, dbVars, passVars, meterVars

\* And so are gas rows created.
LEMMA GasInOrderStep ==
    ASSUME ~Retroactive
    PROVE  TypeOK /\ InOrder /\ GasInOrder /\ [Next]_vars => GasInOrder'
<1> SUFFICES ASSUME TypeOK, InOrder, GasInOrder, [Next]_vars
             PROVE  GasInOrder'
  OBVIOUS
<1>1. ASSUME NEW t \in Ticks, Receive(t)
      PROVE  GasInOrder'
  <2>1. t \in Nat /\ t > meterTime /\ meterTime \in Int
    BY <1>1, CompactorAssumption DEF Receive, Ticks, TypeOK
  <2>2. PICK g \in GasStamps(t) : Insert(t, g)
    BY <1>1 DEF Receive
  <2> DEFINE new == [pk |-> nextPk, at |-> t, gasAt |-> g, processed |-> FALSE]
  <2>3. readings' = readings \union {new} /\ gas' = gas
    BY <2>2 DEF Insert
  <2>4. \A r \in readings : r.at \in Nat /\ r.at <= t
    BY <2>1 DEF InOrder, TypeOK, Reading
  <2>5. new.at = t /\ (new.gasAt # NoGas => HasOwnGas(new))
    BY DEF GasStamps, HasOwnGas
  <2> HIDE DEF new
  <2>6. \A q \in gas : new.gasAt # NoGas => q.readAt <= GasKey(new)
    <3> SUFFICES ASSUME NEW q \in gas, new.gasAt # NoGas
                 PROVE  q.readAt <= GasKey(new)
      OBVIOUS
    <3>1. PICK r \in readings : r.gasAt # NoGas /\ q.readAt = GasKey(r)
      BY DEF GasInOrder
    <3>. QED
      BY <2>1, <2>4, <2>5, <3>1, GasKeyMonotone DEF InOrder
  <2>7. Unprocessed' \subseteq Unprocessed \union {new}
    BY <2>3 DEF Unprocessed
  <2>. QED
    BY <2>3, <2>6, <2>7 DEF GasInOrder, GasKey
<1>2. CASE CompactGas
  <2>1. readings' = readings /\ current \in readings /\ \A s \in Unprocessed : current.at <= s.at
    BY <1>2 DEF CompactGas, TypeOK, InOrder
  <2>2. CASE gas' = gas
    BY <2>1, <2>2 DEF GasInOrder, Unprocessed, GasKey
  <2>3. CASE gas' # gas
    <3>1. /\ current.gasAt # NoGas
          /\ \A q \in gas' : q \in gas \/ q.readAt = GasKey(current)
      BY <1>2, <2>3 DEF CompactGas
    <3>2. \A s \in Unprocessed : s.gasAt # NoGas => GasKey(current) <= GasKey(s)
      BY <2>1, <3>1, GasKeyMonotone DEF InOrder, Unprocessed, TypeOK, Reading
    <3>. QED
      BY <2>1, <3>1, <3>2 DEF GasInOrder, Unprocessed, GasKey
  <2>. QED
    BY <2>2, <2>3
<1>3. CASE MarkProcessed
  <2>1. readings' = (readings \ {current}) \union {Done(current)} /\ gas' = gas
    BY <1>3 DEF MarkProcessed
  <2>2. /\ Done(current).gasAt = current.gasAt /\ GasKey(Done(current)) = GasKey(current)
        /\ Done(current).processed
    BY DEF Done, GasKey
  <2>3. Unprocessed' \subseteq Unprocessed
    BY <2>1, <2>2 DEF Unprocessed
  <2>. QED
    BY <2>1, <2>2, <2>3 DEF GasInOrder, GasKey
<1>4. CASE UNCHANGED <<readings, gas>>
  BY <1>4 DEF GasInOrder, Unprocessed, GasKey
<1>. QED
  BY <1>1, <1>2, <1>3, <1>4
     DEF Next, Pass, Create, Tick, ChangeGrouping, StartPass, Compact, NotReady,
         CompactElectricity, Crash, vars, dbVars

\* A new gas row counts from the latest one, so the differences still add up.
LEMMA GasAddsUpStep ==
    TypeOK /\ InOrder /\ GasInOrder /\ OneRowPerMoment /\ GasAddsUp /\ [Next]_vars => GasAddsUp'
<1> SUFFICES ASSUME TypeOK, InOrder, GasInOrder, OneRowPerMoment, GasAddsUp, [Next]_vars
             PROVE  GasAddsUp'
  OBVIOUS
<1>1. CASE gas' = gas
  BY <1>1 DEF GasAddsUp
<1>2. CASE CompactGas /\ gas' # gas
  <2> DEFINE k == GasKey(current)
             new == [readAt |-> k, delivered |-> current.gasAt, diff |-> GasDiff(current.gasAt, k)]
  <2>1. current.gasAt # NoGas /\ ~HasRow(gas, k) /\ gas' = gas \union {new}
    BY <1>2 DEF CompactGas
  <2>2. current \in Unprocessed /\ current.gasAt \in Int
    BY <1>2 DEF CompactGas, TypeOK, Unprocessed, Reading
  <2>3. k \in Int
    BY <2>2, GasKeyInt
  <2>4. \A q \in gas : q.readAt \in Int /\ q.readAt < k
    BY <2>1, <2>2, <2>3 DEF GasInOrder, HasRow, TypeOK, GasRow
  <2>5. new.readAt = k /\ new.delivered = current.gasAt /\ new.diff = GasDiff(current.gasAt, k)
    OBVIOUS
  <2> HIDE DEF k, new
  <2>6. (\A p \in gas' : p.readAt >= new.readAt) => new.diff = 0
    <3> SUFFICES ASSUME \A p \in gas' : p.readAt >= k PROVE new.diff = 0
      BY <2>5
    <3>1. gas = {}
      BY <2>1, <2>3, <2>4
    <3>2. PreviousGas(k) = {}
      BY <3>1 DEF PreviousGas
    <3>. QED
      BY <2>5, <3>2 DEF GasDiff
  <2>7. ASSUME NEW p \in gas, \A o \in gas : ~(p.readAt < o.readAt /\ o.readAt < k)
        PROVE  new.diff = new.delivered - p.delivered
    <3>1. PreviousGas(k) = {p}
      <4>1. p \in PreviousGas(k)
        BY <2>4, <2>7 DEF PreviousGas
      <4>2. ASSUME NEW x \in PreviousGas(k) PROVE x = p
        <5>1. x \in gas /\ x.readAt >= p.readAt /\ p.readAt >= x.readAt
          BY <2>4, <4>1 DEF PreviousGas
        <5>. QED
          BY <2>4, <5>1 DEF OneRowPerMoment
      <4>. QED
        BY <4>1, <4>2
    <3>2. (CHOOSE x \in PreviousGas(k) : TRUE) = p
      BY <3>1
    <3>. QED
      BY <2>5, <3>1, <3>2 DEF GasDiff
  <2>8. ASSUME NEW q \in gas PROVE
            /\ (\A p \in gas' : p.readAt >= q.readAt) => q.diff = 0
            /\ \A p \in gas' :
                  (p.readAt < q.readAt /\ \A o \in gas' : ~(p.readAt < o.readAt /\ o.readAt < q.readAt))
                      => q.diff = q.delivered - p.delivered
    BY <2>1, <2>3, <2>4, <2>5 DEF GasAddsUp
  <2>9. \A p \in gas' :
            (p.readAt < new.readAt /\ \A o \in gas' : ~(p.readAt < o.readAt /\ o.readAt < new.readAt))
                => new.diff = new.delivered - p.delivered
    BY <2>1, <2>3, <2>5, <2>7
  <2>. QED
    BY <2>1, <2>6, <2>8, <2>9 DEF GasAddsUp
<1>. QED
  BY <1>1, <1>2
     DEF Next, Pass, Tick, Receive, Create, Insert, ChangeGrouping, StartPass, Compact, NotReady,
         CompactElectricity, MarkProcessed, Crash, vars, dbVars

\* Gas differences add up over any period, whatever is repeated after a crash,
\* grouped by hour or shifted for DSMR 4 (run CompactorByMinute, GasAddsUp), if
\* readings come in the order of their timestamps.
THEOREM GasIsComplete ==
    ASSUME ~Retroactive
    PROVE  Spec => []GasAddsUp
<1>1. Init => InOrder /\ GasInOrder /\ GasAddsUp
  BY DEF Init, InOrder, GasInOrder, GasAddsUp, Unprocessed
<1>. QED
  BY <1>1, StepsInOrder, InOrderStep, GasInOrderStep, GasAddsUpStep, TypeCorrect, OneRow, PTL DEF Spec
===============================================================================
