------------------------ MODULE QuarterHourPeaks_proof ------------------------
(***************************************************************************)
(* A quarter has one peak, which covers all of it, and none is missed      *)
(* while the meter is not silent for a quarter of an hour.                 *)
(***************************************************************************)
EXTENDS QuarterHourPeaks, FiniteSetTheorems, WellFoundedInduction, TLAPS

-----------------------------------------------------------------------------
(***************************************************************************)
(* The minimum and the maximum of a set of numbers.                        *)
(***************************************************************************)

\* Each set of natural numbers has a least element.
LEMMA LeastExists ==
    ASSUME NEW S, S \subseteq Nat, S # {}
    PROVE  \E x \in S : \A y \in S : x =< y
<1> DEFINE R == OpToRel(<, Nat)
<1>1. IsWellFoundedOn(R, Nat)
  BY NatLessThanWellFounded
<1>2. \A x, y \in Nat : y < x => <<y, x>> \in R
  BY DEF OpToRel
<1>3. PICK x \in S : \A y \in S : ~(<<y, x>> \in R)
  <2> HIDE DEF R
  <2> QED
    BY <1>1, WFMin, Zenon
<1>4. \A y \in S : ~(y < x)
  <2> HIDE DEF R
  <2> QED
    BY <1>2, <1>3
<1> QED
  BY <1>4

\* The minimum is the least element.
LEMMA MinIsLeast ==
    ASSUME NEW S, S \subseteq Nat, S # {}
    PROVE  Min(S) \in S /\ \A y \in S : Min(S) =< y
BY LeastExists DEF Min

\* Each bounded set of natural numbers has a greatest element: the maximum.
LEMMA MaxIsGreatest ==
    ASSUME NEW n \in Nat, NEW S, S \subseteq 0..n, S # {}
    PROVE  Max(S) \in S /\ \A y \in S : Max(S) >= y
<1> DEFINE T == {n - x : x \in S}
<1>1. T \subseteq Nat
  <2> SUFFICES ASSUME NEW x \in S PROVE n - x \in Nat
    OBVIOUS
  <2> QED
    OBVIOUS
<1> T # {}
  <2> PICK x \in S : TRUE
    OBVIOUS
  <2> n - x \in T
    OBVIOUS
  <2> QED
    OBVIOUS
<1>2. PICK t \in T : \A u \in T : t =< u
  <2> HIDE DEF T
  <2> QED
    BY <1>1, LeastExists
<1>3. PICK x \in S : t = n - x
  OBVIOUS
<1>4. \A y \in S : x >= y
  <2> TAKE y \in S
  <2>1. n - y \in T
    OBVIOUS
  <2>2. n - x =< n - y
    BY <1>2, <1>3, <2>1
  <2> QED
    BY <2>2, x \in 0..n, y \in 0..n
<1> QED
  BY <1>4 DEF Max

-----------------------------------------------------------------------------
(***************************************************************************)
(* The quarter of a moment.                                                *)
(***************************************************************************)

\* A moment lies in its quarter, which is a multiple of the interval.
LEMMA QuarterBounds ==
    ASSUME NEW t \in Nat
    PROVE  /\ QuarterOf(t) = Quarter * (t \div Quarter)
           /\ QuarterOf(t) \in Nat
           /\ QuarterOf(t) =< t /\ t < QuarterOf(t) + Quarter
           /\ t \div Quarter \in Nat
BY QuarterHourPeaksAssumption DEF QuarterOf

\* And it lies in no other.
LEMMA QuarterIsUnique ==
    ASSUME NEW s \in Nat, NEW t \in Nat, QuarterOf(t) - Quarter =< s, s < QuarterOf(t)
    PROVE  QuarterOf(s) = QuarterOf(t) - Quarter
<1> DEFINE qs == s \div Quarter
           qt == t \div Quarter
<1>1. Quarter \in Nat \ {0} /\ qs \in Nat /\ qt \in Nat
  BY QuarterHourPeaksAssumption, QuarterBounds
<1>2. QuarterOf(s) = Quarter * qs /\ QuarterOf(t) = Quarter * qt
  BY QuarterBounds
<1>3. Quarter * qs =< s /\ s < Quarter * (qs + 1)
  BY <1>1, <1>2, QuarterBounds
<1>4. Quarter * (qt - 1) =< s /\ s < Quarter * qt
  BY <1>1, <1>2
<1> HIDE DEF qs, qt
<1>5. ~(qs < qt - 1)
  BY <1>1, <1>3, <1>4
<1>6. ~(qt - 1 < qs)
  BY <1>1, <1>3, <1>4
<1>7. qs = qt - 1
  BY <1>1, <1>5, <1>6
<1> QED
  BY <1>1, <1>2, <1>7

\* The readings of a target are those of a quarter.
LEMMA TargetReadings ==
    ASSUME NEW t \in Nat
    PROVE  QuarterReadings(t) = InQuarter(QuarterOf(t) - Quarter)
BY QuarterBounds, QuarterHourPeaksAssumption
   DEF QuarterReadings, InQuarter, TargetStart, TargetEnd, QuarterOf

-----------------------------------------------------------------------------
\* Moments are natural numbers.
LEMMA TicksAreNumbers == Ticks \subseteq Nat
BY QuarterHourPeaksAssumption DEF Ticks

\* A set of rows and one more row is a set of rows.
LEMMA PeaksAreRows ==
    ASSUME TypeOK, NEW i \in DOMAIN peaks
    PROVE  peaks[i] \in [start : Ticks, end : Ticks] /\ peaks[i].start \in Nat
<1> DEFINE Row == [start : Ticks, end : Ticks]
<1>1. peaks[i] \in Row
  <2> HIDE DEF Row
  <2>1. peaks \in Seq(Row)
    BY DEF TypeOK, Row
  <2> QED
    BY <2>1
<1> QED
  BY <1>1, TicksAreNumbers

\* The variables have their types: rows have a first and a last reading.
THEOREM PeaksTypeCorrect == Spec => []TypeOK
<1>1. Init => TypeOK
  <2>1. /\ 0 \in Ticks /\ 0 \in 0..(LastTick + Quarter)
        /\ 0 \in 0..MaxMoves /\ 0 \in 0..MaxCrashes
    BY QuarterHourPeaksAssumption DEF Ticks
  <2> QED
    BY <2>1 DEF Init, TypeOK
<1>2. TypeOK /\ [Next]_vars => TypeOK'
  <2> SUFFICES ASSUME TypeOK, [Next]_vars PROVE TypeOK'
    OBVIOUS
  <2>1. CASE Tick
    <3>1. clock' \in Ticks
      BY <2>1, QuarterHourPeaksAssumption DEF Tick, TypeOK, Ticks
    <3> QED
      BY <2>1, <3>1 DEF Tick, TypeOK, serviceVars
  <2>2. ASSUME NEW t \in Ticks, Receive(t) PROVE TypeOK'
    BY <2>2 DEF Receive, TypeOK, serviceVars
  <2>3. ASSUME NEW t \in Ticks, MoveBack(t) PROVE TypeOK'
    <3>1. planned' \in 0..(LastTick + Quarter) /\ moves' \in 0..MaxMoves
      BY <2>3, QuarterHourPeaksAssumption DEF MoveBack, TypeOK, Ticks
    <3> QED
      BY <2>3, <3>1 DEF MoveBack, TypeOK, serviceVars
  <2>4. CASE Start
    <3>1. seen' \in Ticks
      BY <2>4, QuarterHourPeaksAssumption DEF Start, TypeOK, Ticks
    <3> QED
      BY <2>4, <3>1 DEF Start, TypeOK
  <2>5. CASE Await \/ SkipQuarter \/ PassProcessed \/ RescheduleNext
    <3>1. seen \in Nat
      BY TicksAreNumbers DEF TypeOK
    <3> TargetEnd(seen) \in Nat /\ TargetEnd(seen) =< seen
      BY <3>1, QuarterBounds DEF TargetEnd, QuarterOf
    <3>2. planned' \in 0..(LastTick + Quarter)
      BY <2>5, <3>1, QuarterHourPeaksAssumption
         DEF Await, SkipQuarter, PassProcessed, RescheduleNext, Reschedule, TypeOK, Ticks
    <3> QED
      BY <2>5, <3>2
         DEF Await, SkipQuarter, PassProcessed, RescheduleNext, Reschedule, TypeOK
  <2>6. CASE Create
    <3> DEFINE S == QuarterReadings(seen)
    <3>1. S \subseteq 0..LastTick
      BY DEF QuarterReadings, TypeOK, Ticks
    <3>2. S # {}
      <4> SUFFICES ASSUME S = {} PROVE FALSE
        OBVIOUS
      <4>1. Cardinality(S) = 0
        BY FS_EmptySet
      <4> QED
        BY <2>6, <4>1 DEF Create, TooFewReadings
    <3> HIDE DEF S
    <3>3. S \subseteq Nat
      BY <3>1
    <3>4. Min(S) \in S
      BY <3>2, <3>3, MinIsLeast
    <3>5. Max(S) \in S
      BY <3>1, <3>2, MaxIsGreatest, QuarterHourPeaksAssumption
    <3>6. Min(S) \in Ticks /\ Max(S) \in Ticks
      BY <3>1, <3>4, <3>5 DEF Ticks
    <3>7. peaks' = Append(peaks, [start |-> Min(S), end |-> Max(S)]) /\ created' = Max(S)
      BY <2>6 DEF Create, S
    <3>8. peaks' \in Seq([start : Ticks, end : Ticks])
      BY <3>6, <3>7 DEF TypeOK
    <3> QED
      BY <2>6, <3>6, <3>7, <3>8 DEF Create, TypeOK
  <2>7. CASE Crash
    <3>1. crashes' \in 0..MaxCrashes
      BY <2>7, QuarterHourPeaksAssumption DEF Crash, TypeOK
    <3> QED
      BY <2>7, <3>1 DEF Crash, TypeOK
  <2>8. CASE UNCHANGED vars
    BY <2>8 DEF vars, serviceVars, TypeOK
  <2> QED
    BY <2>1, <2>2, <2>3, <2>4, <2>5, <2>6, <2>7, <2>8 DEF Next, Service
<1> QED
  BY <1>1, <1>2, PTL DEF Spec

-----------------------------------------------------------------------------
(***************************************************************************)
(* A peak is only created after a reading at the end of its quarter or     *)
(* later: readings arrive in order, so the quarter gets no more of them.   *)
(***************************************************************************)

Over(q) == \E r \in readings : r >= q + Quarter

Covers(p) ==
    /\ Over(QuarterOf(p.start))
    /\ p = [start |-> Min(InQuarter(QuarterOf(p.start))),
            end |-> Max(InQuarter(QuarterOf(p.start)))]

PeaksInv == (\A i \in DOMAIN peaks : Covers(peaks[i])) /\ OnePeakPerQuarter

\* A quarter that is over gets no more readings.
LEMMA OverStaysSo ==
    ASSUME TypeOK, NEW t \in Ticks, Receive(t), NEW q \in Nat, Over(q)
    PROVE  InQuarter(q)' = InQuarter(q) /\ Over(q)'
<1>1. PICK r \in readings : r >= q + Quarter
  BY DEF Over
<1>2. readings \subseteq 0..LastTick /\ readings # {} /\ LastTick \in Nat
  BY <1>1, QuarterHourPeaksAssumption DEF TypeOK, Ticks
<1>3. LastReading = Max(readings) /\ Max(readings) \in readings /\ Max(readings) >= r
  BY <1>2, MaxIsGreatest DEF LastReading
<1> r \in Nat /\ t \in Nat
  BY <1>2, TicksAreNumbers
<1> LastReading \in Nat
  BY <1>2, <1>3, readings \subseteq Nat
<1>4. t > r
  BY <1>3 DEF Receive
<1>5. t > q + Quarter
  BY <1>1, <1>4, QuarterHourPeaksAssumption DEF TypeOK, Ticks
<1> QED
  BY <1>1, <1>5, QuarterHourPeaksAssumption DEF Receive, InQuarter, Over, TypeOK, Ticks

\* What is created: the first and the last reading of a quarter that is over,
\* and has no peak.
LEMMA CreatedPeak ==
    ASSUME TypeOK, PeaksInv, Create
    PROVE  \E p \in [start : Ticks, end : Ticks] :
               /\ peaks' = Append(peaks, p) /\ created' = p.end
               /\ Covers(p)
               /\ QuarterOf(p.start) = QuarterOf(seen) - Quarter /\ p.end =< QuarterOf(seen)
               /\ \A i \in DOMAIN peaks : QuarterOf(peaks[i].start) # QuarterOf(p.start)
<1> DEFINE S == QuarterReadings(seen)
           q == QuarterOf(seen) - Quarter
           p == [start |-> Min(S), end |-> Max(S)]
<1>1. seen \in Nat /\ Quarter \in Nat \ {0} /\ LastTick \in Nat
  BY TicksAreNumbers, QuarterHourPeaksAssumption DEF TypeOK
<1> S = InQuarter(q) /\ S \subseteq 0..LastTick
  BY <1>1, TargetReadings DEF TypeOK, Ticks, QuarterReadings
<1> q \in Int
  BY <1>1, QuarterBounds
<1>2. IsFiniteSet(S) /\ ~(Cardinality(S) < 2)
  <2>1. IsFiniteSet(0..LastTick)
    BY <1>1, FS_Interval
  <2> QED
    BY <2>1, FS_Subset DEF Create, TooFewReadings
<1>3. S # {}
  BY <1>2, FS_EmptySet
<1>4. /\ Min(S) \in S /\ \A y \in S : Min(S) =< y
      /\ Max(S) \in S /\ \A y \in S : Max(S) >= y
  BY <1>1, <1>3, MinIsLeast, MaxIsGreatest, QuarterHourPeaksAssumption
<1>5. Min(S) # Max(S)
  <2> SUFFICES ASSUME Min(S) = Max(S) PROVE FALSE
    OBVIOUS
  <2>1. \A y \in S : y = Min(S)
    BY <1>1, <1>4
  <2>2. S = {Min(S)}
    BY <1>4, <2>1
  <2>3. Cardinality(S) = 1
    BY <2>2, FS_Singleton, Zenon
  <2> QED
    BY <1>2, <2>3
<1>6. Min(S) \in Nat /\ q =< Min(S) /\ Min(S) < q + Quarter
  <2>1. Min(S) \in Nat /\ Max(S) \in Nat /\ Min(S) =< Max(S)
    BY <1>1, <1>4
  <2>2. q =< Min(S) /\ Max(S) =< q + Quarter
    BY <1>4 DEF InQuarter
  <2> QED
    BY <1>1, <1>5, <2>1, <2>2
<1>7. QuarterOf(Min(S)) = q
  BY <1>1, <1>6, QuarterIsUnique, QuarterBounds
<1>8. Over(q)
  BY <1>1, QuarterBounds DEF Create, AwaitingReadings, TargetEnd, QuarterOf, Over, TypeOK, Ticks
<1>9. \A i \in DOMAIN peaks : QuarterOf(peaks[i].start) # q
  <2> SUFFICES ASSUME NEW i \in DOMAIN peaks, QuarterOf(peaks[i].start) = q PROVE FALSE
    OBVIOUS
  <2>1. peaks[i].start \in Nat
    BY PeaksAreRows
  <2>2. q =< peaks[i].start /\ peaks[i].start < q + Quarter
    BY <2>1, QuarterBounds
  <2>3. q = TargetStart(seen) /\ q + Quarter = TargetEnd(seen)
    BY <1>1, QuarterBounds DEF TargetStart, TargetEnd, QuarterOf
  <2> QED
    BY <1>1, <2>1, <2>2, <2>3 DEF Create, AlreadyProcessed
<1>10. p \in [start : Ticks, end : Ticks] /\ peaks' = Append(peaks, p) /\ created' = p.end
  BY <1>1, <1>4 DEF Create, Ticks
<1>12. QuarterOf(p.start) = QuarterOf(seen) - Quarter /\ p.end =< QuarterOf(seen)
  <2>1. Max(S) \in InQuarter(q)
    BY <1>4
  <2>2. Max(S) =< q + Quarter
    BY <2>1 DEF InQuarter
  <2>3. q + Quarter = QuarterOf(seen)
    BY <1>1, QuarterBounds
  <2> QED
    BY <1>7, <2>2, <2>3
<1> HIDE DEF S, q
<1>11. Covers(p)
  BY <1>1, <1>7, <1>8 DEF Covers
<1> QED
  BY <1>7, <1>9, <1>10, <1>11, <1>12

\* Every step keeps the invariant.
LEMMA PeaksStep == TypeOK /\ PeaksInv /\ [Next]_vars => PeaksInv'
<1> SUFFICES ASSUME TypeOK, PeaksInv, [Next]_vars PROVE PeaksInv'
  OBVIOUS
<1>1. CASE UNCHANGED <<readings, peaks>>
  BY <1>1 DEF PeaksInv, Covers, Over, InQuarter, OnePeakPerQuarter
<1>2. ASSUME NEW t \in Ticks, Receive(t) PROVE PeaksInv'
  <2>1. peaks' = peaks
    BY <1>2 DEF Receive
  <2>2. ASSUME NEW i \in DOMAIN peaks PROVE Covers(peaks[i])'
    <3>1. QuarterOf(peaks[i].start) \in Nat
      BY PeaksAreRows, QuarterBounds
    <3> QED
      BY <1>2, <2>1, <3>1, OverStaysSo DEF PeaksInv, Covers
  <2> QED
    BY <2>1, <2>2 DEF PeaksInv, OnePeakPerQuarter
<1>3. CASE Create
  <2> PICK p \in [start : Ticks, end : Ticks] :
               /\ peaks' = Append(peaks, p)
               /\ Covers(p)
               /\ \A i \in DOMAIN peaks : QuarterOf(peaks[i].start) # QuarterOf(p.start)
    BY <1>3, CreatedPeak
  <2>1. /\ DOMAIN peaks' = 1..(Len(peaks) + 1) /\ DOMAIN peaks = 1..Len(peaks) /\ Len(peaks) \in Nat
        /\ \A i \in DOMAIN peaks : peaks'[i] = peaks[i]
        /\ peaks'[Len(peaks) + 1] = p
    BY DEF TypeOK
  <2>2. readings' = readings
    BY <1>3 DEF Create
  <2>3. \A i \in DOMAIN peaks' : Covers(peaks'[i])
    BY <2>1 DEF PeaksInv
  <2>4. \A i \in DOMAIN peaks' : Covers(peaks[i])'
    BY <2>2, <2>3 DEF Covers, Over, InQuarter
  <2>5. OnePeakPerQuarter'
    BY <2>1 DEF PeaksInv, OnePeakPerQuarter
  <2> QED
    BY <2>4, <2>5 DEF PeaksInv
<1> QED
  BY <1>1, <1>2, <1>3
     DEF Next, Service, Tick, MoveBack, Start, Await, SkipQuarter, PassProcessed, RescheduleNext,
         Reschedule, Crash, vars

\* The invariant holds in every reachable state.
LEMMA PeaksAlways == Spec => []PeaksInv
<1>1. Init => PeaksInv
  BY DEF Init, PeaksInv, OnePeakPerQuarter
<1> QED
  BY <1>1, PeaksStep, PeaksTypeCorrect, PTL DEF Spec

\* No quarter has two peaks (run QuarterHourPeaks, OnePeakPerQuarter).
THEOREM OnePeak == Spec => []OnePeakPerQuarter
<1>1. PeaksInv => OnePeakPerQuarter
  BY DEF PeaksInv
<1> QED
  BY <1>1, PeaksAlways, PTL

\* A peak covers all of its quarter, also in view of the readings that are
\* still to come (run QuarterHourPeaks, PeakCoversItsQuarter).
THEOREM PeakIsComplete == Spec => []PeakCoversItsQuarter
<1>1. PeaksInv => PeakCoversItsQuarter
  BY DEF PeaksInv, Covers, PeakCoversItsQuarter
<1> QED
  BY <1>1, PeaksAlways, PTL

-----------------------------------------------------------------------------
(***************************************************************************)
(* A quarter that is passed is over, and has its peak if it has the        *)
(* readings. The quarters before the targeted one are, as are those before *)
(* any that has a peak: to wait never passes one, because a reading        *)
(* arrives before that.                                                    *)
(***************************************************************************)

Passed(q) == Over(q) /\ (Cardinality(InQuarter(q)) >= 2 => HasPeak(q))

PassedBefore(q) == \A p \in Quarters : p < q => Passed(p)

Fresh == clock - LastReading =< MaxSilence

MissInv ==
    /\ Fresh
    /\ PassedBefore(QuarterOf(planned) - Quarter)
    /\ pc = "running" => seen =< clock /\ PassedBefore(QuarterOf(seen) - Quarter)
    /\ pc = "created" => PassedBefore(QuarterOf(created))
    /\ \A i \in DOMAIN peaks : PassedBefore(QuarterOf(peaks[i].start))

\* Quarters follow moments.
LEMMA QuarterMonotone ==
    ASSUME NEW s \in Nat, NEW t \in Nat, s =< t
    PROVE  QuarterOf(s) =< QuarterOf(t)
<1> DEFINE qs == s \div Quarter
           qt == t \div Quarter
<1>1. Quarter \in Nat \ {0} /\ qs \in Nat /\ qt \in Nat
  BY QuarterHourPeaksAssumption, QuarterBounds
<1>2. QuarterOf(s) = Quarter * qs /\ QuarterOf(t) = Quarter * qt
  BY QuarterBounds
<1>3. Quarter * qs =< s /\ t < Quarter * (qt + 1)
  BY <1>1, <1>2, QuarterBounds
<1> HIDE DEF qs, qt
<1>4. Quarter * qs < Quarter * (qt + 1)
  BY <1>1, <1>3
<1>5. qs =< qt
  BY <1>1, <1>4
<1> QED
  BY <1>1, <1>2, <1>5

\* A moment and the one an interval later are in consecutive quarters.
LEMMA NextQuarter ==
    ASSUME NEW t \in Nat
    PROVE  QuarterOf(t + Quarter) = QuarterOf(t) + Quarter
<1> DEFINE s == t + Quarter
<1>1. Quarter \in Nat \ {0} /\ s \in Nat
  BY QuarterHourPeaksAssumption
<1>2. QuarterOf(s) \in Nat /\ QuarterOf(s) =< s /\ s < QuarterOf(s) + Quarter
  BY <1>1, QuarterBounds
<1> HIDE DEF s
<1>3. QuarterOf(s) - Quarter =< t /\ t < QuarterOf(s)
  BY <1>1, <1>2 DEF s
<1>4. QuarterOf(t) = QuarterOf(s) - Quarter /\ QuarterOf(t) \in Nat
  BY <1>1, <1>3, QuarterIsUnique, QuarterBounds
<1> QED
  BY <1>1, <1>2, <1>4 DEF s

\* A quarter starts in itself.
LEMMA QuarterOfQuarter ==
    ASSUME NEW t \in Nat
    PROVE  QuarterOf(QuarterOf(t)) = QuarterOf(t)
<1> DEFINE s == t + Quarter
<1>1. Quarter \in Nat \ {0} /\ s \in Nat
  BY QuarterHourPeaksAssumption
<1>2. QuarterOf(s) = QuarterOf(t) + Quarter /\ QuarterOf(t) \in Nat
  BY NextQuarter, QuarterBounds
<1> HIDE DEF s
<1> QED
  BY <1>1, <1>2, QuarterIsUnique

\* The start of a quarter lies in it, and no quarter starts within another.
LEMMA QuartersStart ==
    ASSUME NEW q \in Quarters
    PROVE  q \in Nat /\ QuarterOf(q) = q
BY QuarterHourPeaksAssumption DEF Quarters, QuarterOf, Ticks

\* Right before the quarter of a moment is the targeted one.
LEMMA TargetIsNext ==
    ASSUME NEW t \in Nat, NEW p \in Quarters, p < QuarterOf(t)
    PROVE  p < QuarterOf(t) - Quarter \/ p = QuarterOf(t) - Quarter
<1> SUFFICES ASSUME p >= QuarterOf(t) - Quarter PROVE p = QuarterOf(t) - Quarter
  BY QuartersStart, QuarterBounds, QuarterHourPeaksAssumption
<1>1. p \in Nat /\ QuarterOf(p) = p
  BY QuartersStart
<1> QED
  BY <1>1, QuarterIsUnique

\* A quarter that was passed stays so.
LEMMA PassedStaysSo ==
    ASSUME TypeOK, [Next]_vars, NEW q \in Quarters, Passed(q)
    PROVE  Passed(q)'
<1>1. HasPeak(q) => HasPeak(q)'
  <2>1. CASE peaks' = peaks
    BY <2>1 DEF HasPeak
  <2>2. CASE \E p : peaks' = Append(peaks, p)
    <3>1. \A i \in DOMAIN peaks : i \in DOMAIN peaks' /\ peaks'[i] = peaks[i]
      BY <2>2 DEF TypeOK
    <3> QED
      BY <3>1 DEF HasPeak
  <2> QED
    BY <2>1, <2>2
       DEF Next, Service, Tick, Receive, MoveBack, Start, Await, SkipQuarter, PassProcessed, Create,
           RescheduleNext, Crash, vars
<1>2. CASE readings' = readings
  BY <1>1, <1>2 DEF Passed, Over, InQuarter
<1>3. ASSUME NEW t \in Ticks, Receive(t)
      PROVE  Passed(q)'
  BY <1>1, <1>3, OverStaysSo, QuartersStart DEF Passed
<1> QED
  BY <1>2, <1>3
     DEF Next, Service, Tick, MoveBack, Start, Await, SkipQuarter, PassProcessed, Create,
         RescheduleNext, Crash, vars

\* The last reading, if there is one, is the latest.
LEMMA LastReadingIsLatest ==
    ASSUME TypeOK
    PROVE  /\ LastReading \in Nat
           /\ \A r \in readings : r \in Nat /\ r =< LastReading
           /\ LastReading \in readings \/ LastReading = 0
<1>1. readings \subseteq 0..LastTick /\ LastTick \in Nat
  BY QuarterHourPeaksAssumption DEF TypeOK, Ticks
<1>2. CASE readings = {}
  BY <1>2 DEF LastReading
<1>3. CASE readings # {}
  <2>1. LastReading = Max(readings)
    BY <1>3 DEF LastReading
  <2>2. LastReading \in readings /\ \A r \in readings : LastReading >= r
    BY <1>1, <1>3, <2>1, MaxIsGreatest
  <2>3. LastReading \in Nat /\ \A r \in readings : r \in Nat
    BY <1>1, <2>2
  <2> QED
    BY <2>2, <2>3
<1> QED
  BY <1>2, <1>3

\* With the clock on, the last reading is never too long ago.
LEMMA FreshStep ==
    ASSUME TypeOK, Fresh, [Next]_vars
    PROVE  Fresh'
<1>1. CASE UNCHANGED <<clock, readings>>
  BY <1>1 DEF Fresh, LastReading
<1>2. CASE Tick
  <2>1. LastReading' = LastReading
    BY <1>2 DEF Tick, LastReading
  <2>2. LastReading \in Nat /\ clock \in Nat
    BY LastReadingIsLatest, TicksAreNumbers DEF TypeOK
  <2>3. clock' - LastReading =< MaxSilence
    BY <1>2, <2>2 DEF Tick
  <2> QED
    BY <2>1, <2>3 DEF Fresh
<1>3. ASSUME NEW t \in Ticks, Receive(t)
      PROVE  Fresh'
  <2>1. readings' \subseteq 0..LastTick /\ readings' # {} /\ t \in readings'
    BY <1>3 DEF Receive, TypeOK, Ticks
  <2>2. LastReading' = Max(readings')
    BY <2>1 DEF LastReading
  <2>3. LastReading' \in 0..LastTick /\ LastReading' >= t
    BY <2>1, <2>2, MaxIsGreatest, QuarterHourPeaksAssumption
  <2>4. LastReading < t /\ LastReading \in Nat /\ clock' = clock
    BY <1>3, LastReadingIsLatest DEF Receive
  <2>5. clock \in Nat /\ t \in Nat /\ MaxSilence \in Nat
    BY TicksAreNumbers, QuarterHourPeaksAssumption DEF TypeOK
  <2>6. PICK n \in Nat : n = LastReading'
    BY <2>3, QuarterHourPeaksAssumption
  <2>7. clock - LastReading =< MaxSilence
    BY DEF Fresh
  <2>8. n > LastReading
    BY <2>3, <2>4, <2>5, <2>6
  <2>9. clock' - n =< MaxSilence
    BY <2>4, <2>5, <2>7, <2>8
  <2> QED
    BY <2>6, <2>9 DEF Fresh
<1> QED
  BY <1>1, <1>2, <1>3
     DEF Next, Service, MoveBack, Start, Await, SkipQuarter, PassProcessed, Create,
         RescheduleNext, Crash, vars

\* While the service waits for a reading, no quarter starts.
LEMMA AwaitStays ==
    ASSUME MaxSilence < Quarter, TypeOK, Fresh, seen =< clock, AwaitingReadings(seen),
           NEW p \in Quarters, p < QuarterOf(seen + 1) - Quarter
    PROVE  p < QuarterOf(seen) - Quarter
<1>1. seen \in Nat /\ clock \in Nat /\ p \in Nat
  BY TicksAreNumbers, QuartersStart DEF TypeOK
<1>2. Quarter \in Nat \ {0} /\ MaxSilence \in Nat
  BY QuarterHourPeaksAssumption
<1>3. PICK e \in Nat : e = QuarterOf(seen)
  BY <1>1, QuarterBounds
<1>4. PICK f \in Nat : f = QuarterOf(seen + 1)
  BY <1>1, QuarterBounds
<1>5. e =< seen /\ seen < e + Quarter /\ f =< seen + 1 /\ seen + 1 < f + Quarter
  BY <1>1, <1>3, <1>4, QuarterBounds
<1>6. CASE f =< seen
  <2>1. f =< e
    <3>1. QuarterOf(f) =< e
      BY <1>1, <1>3, <1>6, QuarterMonotone
    <3>2. QuarterOf(f) = f
      BY <1>1, <1>4, QuarterOfQuarter
    <3> QED
      BY <3>1, <3>2
  <2> QED
    BY <1>1, <1>2, <1>3, <1>4, <2>1
<1>7. CASE f = seen + 1
  <2>1. QuarterOf(seen) = f - Quarter
    BY <1>1, <1>2, <1>4, <1>5, <1>7, QuarterIsUnique
  <2>2. e = f - Quarter
    BY <1>3, <2>1
  <2>3. e > p
    BY <1>4, <2>2
  <2>4. \A r \in readings : r < e
    BY <1>3 DEF AwaitingReadings, TargetEnd, QuarterOf
  <2>5. LastReading \in Nat /\ LastReading < e
    BY <1>1, <1>3, <2>3, <2>4, LastReadingIsLatest
  <2>6. clock - LastReading =< MaxSilence
    BY DEF Fresh
  <2> QED
    BY <1>1, <1>2, <1>5, <1>7, <2>2, <2>5, <2>6
<1> QED
  BY <1>1, <1>4, <1>5, <1>6, <1>7

\* Where the service goes on, the targeted quarter is passed.
LEMMA TargetIsPassed ==
    ASSUME TypeOK, PeaksInv, MissInv, pc = "running",
           QuarterOf(seen) - Quarter \in Quarters,
           SkipQuarter \/ PassProcessed
    PROVE  Passed(QuarterOf(seen) - Quarter)
<1>1. seen \in Nat /\ Quarter \in Nat \ {0}
  BY TicksAreNumbers, QuarterHourPeaksAssumption DEF TypeOK
<1>2. PICK q \in Nat : q = QuarterOf(seen) - Quarter
  BY QuartersStart
<1>3. q + Quarter = QuarterOf(seen) /\ QuarterOf(seen) = TargetEnd(seen) /\ q = TargetStart(seen)
  BY <1>1, <1>2, QuarterBounds DEF TargetStart, TargetEnd, QuarterOf
<1>4. Over(q)
  <2>1. PICK r \in readings : ~(r < TargetEnd(seen))
    BY DEF SkipQuarter, PassProcessed, AwaitingReadings
  <2>2. r \in Nat
    BY TicksAreNumbers DEF TypeOK
  <2> QED
    BY <1>1, <1>2, <1>3, <2>1, <2>2 DEF Over
<1>5. CASE SkipQuarter
  <2>1. Cardinality(InQuarter(q)) < 2
    BY <1>1, <1>2, <1>5, TargetReadings DEF SkipQuarter, TooFewReadings
  <2>2. Cardinality(InQuarter(q)) \in Nat
    <3>1. InQuarter(q) \subseteq 0..LastTick
      BY DEF InQuarter, TypeOK, Ticks
    <3>2. IsFiniteSet(0..LastTick)
      BY FS_Interval, QuarterHourPeaksAssumption
    <3> QED
      BY <3>1, <3>2, FS_Subset, FS_CardinalityType
  <2> QED
    BY <1>2, <1>4, <2>1, <2>2 DEF Passed
<1>6. CASE PassProcessed
  <2>1. PICK i \in DOMAIN peaks :
               TargetStart(seen) =< peaks[i].start /\ peaks[i].start =< TargetEnd(seen)
    BY <1>6 DEF PassProcessed, AlreadyProcessed
  <2>2. peaks[i].start \in Nat
    BY PeaksAreRows
  <2>3. CASE peaks[i].start = QuarterOf(seen)
    <3>1. QuarterOf(peaks[i].start) = QuarterOf(seen)
      BY <1>1, <2>3, QuarterOfQuarter
    <3>2. PassedBefore(QuarterOf(seen))
      BY <3>1 DEF MissInv
    <3> QED
      BY <1>1, <1>2, <1>3, <3>2 DEF PassedBefore
  <2>4. CASE peaks[i].start < QuarterOf(seen)
    <3>1. QuarterOf(peaks[i].start) = q
      BY <1>1, <1>2, <1>3, <2>1, <2>2, <2>4, QuarterIsUnique
    <3> QED
      BY <1>2, <1>4, <3>1 DEF Passed, HasPeak
  <2> QED
    BY <1>1, <1>2, <1>3, <2>1, <2>2, <2>3, <2>4
<1> QED
  BY <1>5, <1>6

\* What the service or the administrator plans next passes no quarter.
LEMMA PlannedStep ==
    ASSUME MaxSilence < Quarter, TypeOK, PeaksInv, MissInv, [Next]_vars,
           NEW p \in Quarters, p < QuarterOf(planned') - Quarter
    PROVE  Passed(p)
<1> p \in Nat /\ seen \in Nat /\ created \in Nat /\ planned \in Nat /\ Quarter \in Nat \ {0}
  BY QuartersStart, TicksAreNumbers, QuarterHourPeaksAssumption DEF TypeOK
<1> PassedBefore(QuarterOf(planned) - Quarter)
  BY DEF MissInv
<1>1. CASE planned' = planned
  BY <1>1 DEF PassedBefore
<1>2. ASSUME NEW t \in Ticks, MoveBack(t)
      PROVE  Passed(p)
  <2>1. t \in Nat /\ t =< planned /\ planned' = t
    BY <1>2, TicksAreNumbers DEF MoveBack
  <2>2. QuarterOf(t) =< QuarterOf(planned)
    BY <2>1, QuarterMonotone
  <2>3. QuarterOf(t) \in Nat /\ QuarterOf(planned) \in Nat
    BY <2>1, QuarterBounds
  <2>4. p < QuarterOf(planned) - Quarter
    BY <2>1, <2>2, <2>3
  <2> QED
    BY <2>4 DEF PassedBefore
<1>3. CASE Await
  <2>1. planned' = seen + 1 /\ AwaitingReadings(seen) /\ Fresh /\ seen =< clock
        /\ PassedBefore(QuarterOf(seen) - Quarter)
    BY <1>3 DEF Await, Reschedule, MissInv
  <2>2. p < QuarterOf(seen) - Quarter
    BY <2>1, AwaitStays
  <2> QED
    BY <2>1, <2>2 DEF PassedBefore
<1>4. CASE SkipQuarter \/ PassProcessed
  <2>1. pc = "running" /\ PassedBefore(QuarterOf(seen) - Quarter)
    BY <1>4 DEF SkipQuarter, PassProcessed, MissInv
  <2>2. QuarterOf(planned') = QuarterOf(seen) + Quarter
    <3>1. CASE SkipQuarter
      BY <3>1, NextQuarter DEF SkipQuarter, Reschedule
    <3>2. CASE PassProcessed
      <4>1. planned' = QuarterOf(seen) + Quarter
        BY <3>2 DEF PassProcessed, Reschedule, TargetEnd, QuarterOf
      <4> QED
        BY <4>1, NextQuarter, QuarterBounds, QuarterOfQuarter
    <3> QED
      BY <1>4, <3>1, <3>2
  <2>3. p < QuarterOf(seen)
    BY <2>2, QuarterBounds
  <2>4. CASE p < QuarterOf(seen) - Quarter
    BY <2>1, <2>4 DEF PassedBefore
  <2>5. CASE p = QuarterOf(seen) - Quarter
    BY <1>4, <2>1, <2>5, TargetIsPassed
  <2> QED
    BY <2>3, <2>4, <2>5, TargetIsNext
<1>5. CASE RescheduleNext
  <2>1. planned' = created + Quarter /\ PassedBefore(QuarterOf(created))
    BY <1>5 DEF RescheduleNext, Reschedule, MissInv
  <2>2. QuarterOf(planned') = QuarterOf(created) + Quarter
    BY <2>1, NextQuarter
  <2>3. p < QuarterOf(created)
    BY <2>2, QuarterBounds
  <2> QED
    BY <2>1, <2>3 DEF PassedBefore
<1> QED
  BY <1>1, <1>2, <1>3, <1>4, <1>5
     DEF Next, Service, Tick, Receive, Start, Create, Crash, vars

\* The quarters before one that gets its peak are passed, and that one too.
LEMMA CreateStep ==
    ASSUME TypeOK, PeaksInv, MissInv, Create
    PROVE  /\ \A p \in Quarters : p < QuarterOf(created') => Passed(p)'
           /\ \A i \in DOMAIN peaks', p \in Quarters : p < QuarterOf(peaks'[i].start) => Passed(p)'
<1> seen \in Nat /\ Quarter \in Nat \ {0}
  BY TicksAreNumbers, QuarterHourPeaksAssumption DEF TypeOK
<1>1. PICK e \in [start : Ticks, end : Ticks] :
               /\ peaks' = Append(peaks, e) /\ created' = e.end
               /\ Covers(e)
               /\ QuarterOf(e.start) = QuarterOf(seen) - Quarter /\ e.end =< QuarterOf(seen)
  BY CreatedPeak
<1>2. /\ DOMAIN peaks' = 1..(Len(peaks) + 1) /\ DOMAIN peaks = 1..Len(peaks) /\ Len(peaks) \in Nat
      /\ \A i \in DOMAIN peaks : peaks'[i] = peaks[i]
      /\ peaks'[Len(peaks) + 1] = e
  BY <1>1 DEF TypeOK
<1>3. \A p \in Quarters : Passed(p) => Passed(p)'
  <2>1. [Next]_vars
    BY DEF Next, Service
  <2> QED
    BY <2>1, PassedStaysSo
<1>4. \A p \in Quarters : p < QuarterOf(seen) - Quarter => Passed(p)
  BY DEF Create, MissInv, PassedBefore
<1>5. ASSUME NEW p \in Quarters, p = QuarterOf(seen) - Quarter
      PROVE  Passed(p)'
  <2>1. Over(p)
    BY <1>1, <1>5 DEF Covers
  <2>2. Over(p)'
    BY <2>1 DEF Over, Create
  <2>3. HasPeak(p)'
    BY <1>1, <1>2, <1>5 DEF HasPeak
  <2> QED
    BY <2>2, <2>3 DEF Passed
<1>6. ASSUME NEW p \in Quarters, p < QuarterOf(seen)
      PROVE  Passed(p)'
  BY <1>3, <1>4, <1>5, <1>6, TargetIsNext
<1>7. ASSUME NEW p \in Quarters, p < QuarterOf(created')
      PROVE  Passed(p)'
  <2>1. e.end \in Nat /\ p \in Nat
    BY TicksAreNumbers, QuartersStart
  <2>2. QuarterOf(seen) \in Nat /\ QuarterOf(QuarterOf(seen)) = QuarterOf(seen)
    BY QuarterBounds, QuarterOfQuarter
  <2>3. QuarterOf(e.end) =< QuarterOf(seen) /\ QuarterOf(e.end) \in Nat
    BY <1>1, <2>1, <2>2, QuarterMonotone, QuarterBounds
  <2> QED
    BY <1>1, <1>6, <1>7, <2>1, <2>2, <2>3
<1>8. ASSUME NEW i \in DOMAIN peaks', NEW p \in Quarters, p < QuarterOf(peaks'[i].start)
      PROVE  Passed(p)'
  <2>1. CASE i \in DOMAIN peaks
    <3>1. p < QuarterOf(peaks[i].start)
      BY <1>2, <1>8, <2>1
    <3> QED
      BY <1>3, <2>1, <3>1 DEF MissInv, PassedBefore
  <2>2. CASE i = Len(peaks) + 1
    <3>1. p < QuarterOf(seen) - Quarter
      BY <1>1, <1>2, <1>8, <2>2
    <3> QED
      BY <1>3, <1>4, <3>1
  <2> QED
    BY <1>2, <2>1, <2>2
<1> QED
  BY <1>7, <1>8

\* Every step keeps the invariant.
LEMMA MissStep ==
    ASSUME MaxSilence < Quarter, TypeOK, PeaksInv, MissInv, [Next]_vars
    PROVE  MissInv'
<1>1. \A p \in Quarters : Passed(p) => Passed(p)'
  BY PassedStaysSo
<1>2. Fresh'
  BY FreshStep DEF MissInv
<1>3. PassedBefore(QuarterOf(planned) - Quarter)'
  BY <1>1, PlannedStep DEF PassedBefore
<1>4. (pc = "running" => seen =< clock /\ PassedBefore(QuarterOf(seen) - Quarter))'
  <2> SUFFICES ASSUME pc' = "running"
               PROVE  seen' =< clock' /\ \A p \in Quarters :
                          p < QuarterOf(seen') - Quarter => Passed(p)'
    BY DEF PassedBefore
  <2>1. CASE Start
    BY <1>1, <2>1 DEF Start, MissInv, PassedBefore
  <2>2. CASE pc = "running" /\ seen' = seen /\ clock' \in {clock, clock + 1}
    <3>1. seen =< clock /\ clock \in Nat /\ seen \in Nat
      BY <2>2, TicksAreNumbers DEF MissInv, TypeOK
    <3>2. seen' =< clock'
      BY <2>2, <3>1
    <3> QED
      BY <1>1, <2>2, <3>2 DEF MissInv, PassedBefore
  <2> QED
    BY <2>1, <2>2
       DEF Next, Service, Tick, Receive, MoveBack, Await, SkipQuarter, PassProcessed, Create,
           RescheduleNext, Reschedule, Crash, vars, serviceVars
<1>5. (pc = "created" => PassedBefore(QuarterOf(created)))'
  <2> SUFFICES ASSUME pc' = "created"
               PROVE  \A p \in Quarters : p < QuarterOf(created') => Passed(p)'
    BY DEF PassedBefore
  <2>1. CASE Create
    BY <2>1, CreateStep
  <2>2. CASE pc = "created" /\ created' = created
    BY <1>1, <2>2 DEF MissInv, PassedBefore
  <2> QED
    BY <2>1, <2>2
       DEF Next, Service, Tick, Receive, MoveBack, Start, Await, SkipQuarter, PassProcessed,
           RescheduleNext, Reschedule, Crash, vars, serviceVars
<1>6. (\A i \in DOMAIN peaks : PassedBefore(QuarterOf(peaks[i].start)))'
  <2> SUFFICES ASSUME NEW i \in DOMAIN peaks', NEW p \in Quarters, p < QuarterOf(peaks'[i].start)
               PROVE  Passed(p)'
    BY DEF PassedBefore
  <2>1. CASE Create
    BY <2>1, CreateStep
  <2>2. CASE peaks' = peaks
    BY <1>1, <2>2 DEF MissInv, PassedBefore
  <2> QED
    BY <2>1, <2>2
       DEF Next, Service, Tick, Receive, MoveBack, Start, Await, SkipQuarter, PassProcessed,
           RescheduleNext, Crash, vars
<1> QED
  BY <1>2, <1>3, <1>4, <1>5, <1>6 DEF MissInv

\* While the meter is not silent for a quarter, no quarter with two readings is
\* left behind without a peak, wherever the administrator moves the service
\* back to and wherever the backend crashes (run QuarterHourPeaks,
\* NoQuarterMissed).
THEOREM NoneMissed ==
    ASSUME MaxSilence < Quarter
    PROVE  Spec => []NoQuarterMissed
<1>1. Init => MissInv
  <2> SUFFICES ASSUME Init PROVE MissInv
    OBVIOUS
  <2>1. Quarter \in Nat \ {0} /\ MaxSilence \in Nat /\ QuarterOf(0) = 0
    BY QuarterHourPeaksAssumption DEF QuarterOf
  <2>2. \A p \in Quarters : ~(p < 0 - Quarter)
    BY <2>1, QuartersStart
  <2>3. PassedBefore(QuarterOf(planned) - Quarter)
    BY <2>1, <2>2 DEF Init, PassedBefore
  <2>4. Fresh
    BY <2>1 DEF Init, Fresh, LastReading
  <2> QED
    BY <2>3, <2>4 DEF Init, MissInv
<1>2. TypeOK /\ PeaksInv /\ MissInv /\ [Next]_vars => MissInv'
  BY MissStep
<1>3. TypeOK /\ MissInv => NoQuarterMissed
  <2> SUFFICES ASSUME TypeOK, MissInv, NEW q \in Quarters,
                      q + Quarter < TargetEnd(planned), Cardinality(InQuarter(q)) >= 2
               PROVE  HasPeak(q)
    BY DEF NoQuarterMissed
  <2>1. q \in Nat /\ planned \in Nat /\ Quarter \in Nat
    BY QuartersStart, QuarterHourPeaksAssumption DEF TypeOK
  <2>2. QuarterOf(planned) \in Nat /\ TargetEnd(planned) = QuarterOf(planned)
    BY <2>1, QuarterBounds DEF TargetEnd, QuarterOf
  <2>3. q < QuarterOf(planned) - Quarter
    BY <2>1, <2>2
  <2>4. Passed(q)
    BY <2>3 DEF MissInv, PassedBefore
  <2> QED
    BY <2>4 DEF Passed
<1> QED
  BY <1>1, <1>2, <1>3, PeaksTypeCorrect, PeaksAlways, PTL DEF Spec

===============================================================================
