-------------------------- MODULE InfluxQueue_proof --------------------------
(***************************************************************************)
(* Theorems about the InfluxDB queue, for every number of measurements of  *)
(* a reading, every limit, and any number of saves and crashes.            *)
(***************************************************************************)
EXTENDS InfluxQueue, FiniteSetTheorems, WellFoundedInduction, TLAPS

(***************************************************************************)
(* A measurement in the queue was written at most once before each crash,  *)
(* except for the one between its being written and deleted. Of those that *)
(* do not exist yet none was written.                                      *)
(***************************************************************************)
AwaitsDelete(k) == pc = "delete" /\ Current(k)

Types ==
    /\ queue \subseteq Pks
    /\ \A k \in queue : k < nextPk
    /\ batch \subseteq queue
    /\ pc \notin {"write", "delete"} => batch = {}
    /\ nextPk \in Nat \ {0}
    /\ toCreate \in Nat
    /\ nextPk + toCreate <= MaxMeasurements + Sections + 1
    /\ attempts \in [Pks -> Nat]
    /\ crashes \in Nat

SentInv ==
    /\ Types
    /\ SentOnce
    /\ \A k \in queue : AwaitsDelete(k) \/ attempts[k] <= crashes
    /\ \A k \in Pks : k >= nextPk => attempts[k] = 0

\* The initial states satisfy the invariant.
LEMMA SentInit == Init => SentInv
BY InfluxQueueAssumption DEF Init, SentInv, Types, SentOnce

\* Every step keeps the invariant.
LEMMA SentStep == SentInv /\ [Next]_vars => SentInv'
<1> SUFFICES ASSUME SentInv, [Next]_vars PROVE SentInv'
  OBVIOUS
<1> USE InfluxQueueAssumption DEF SentInv, Types, SentOnce
<1>1. CASE StartReading
  BY <1>1 DEF StartReading, settingsVars, runVars, AwaitsDelete, Current
<1>2. CASE CreateMeasurement
  <2>1. nextPk \in Pks /\ attempts[nextPk] = 0
    BY <1>2 DEF CreateMeasurement, Pks
  <2>2. /\ queue' = queue \union {nextPk}
        /\ nextPk' = nextPk + 1 /\ toCreate' = toCreate - 1 /\ toCreate > 0
        /\ UNCHANGED <<attempts, crashes, pc, batch>>
    BY <1>2 DEF CreateMeasurement, runVars
  <2>3. \A k \in queue' : AwaitsDelete(k)' \/ attempts'[k] <= crashes'
    BY <2>1, <2>2 DEF AwaitsDelete, Current
  <2>4. \A k \in Pks : k >= nextPk' => attempts'[k] = 0
    BY <2>2 DEF Pks
  <2>5. \A k \in queue' : k < nextPk'
    BY <2>1, <2>2 DEF Pks
  <2> QED
    BY <2>1, <2>2, <2>3, <2>4, <2>5
<1>3. CASE SaveSettings
  BY <1>3 DEF SaveSettings, writerVars, runVars, AwaitsDelete, Current
<1>4. ASSUME NEW client, StartWith(client)
      PROVE SentInv'
  BY <1>4 DEF StartWith, writerVars, runVars, AwaitsDelete, Current
<1>5. CASE Select \/ NoClient \/ Continue
  <2>1. /\ pc = "ready" \/ pc = "check"
        /\ batch' \subseteq queue
        /\ pc' \notin {"write", "delete"} => batch' = {}
        /\ UNCHANGED <<queue, nextPk, toCreate, attempts, crashes>>
    BY <1>5 DEF Select, NoClient, Continue, Newest, writerVars, runVars
  <2> QED
    BY <2>1 DEF AwaitsDelete
<1>6. ASSUME NEW k \in batch, Write(k)
      PROVE SentInv'
  <2>1. /\ k \in queue /\ k \in Pks /\ attempts[k] <= crashes
        /\ pc' = "delete" /\ Current(k)
        /\ UNCHANGED <<queue, batch, nextPk, toCreate, crashes>>
    BY <1>6 DEF Write, AwaitsDelete, writerVars, runVars
  <2>2. attempts' = [attempts EXCEPT ![k] = attempts[k] + 1] /\ pc = "write"
    BY <1>6 DEF Write
  <2>3. attempts[k] \in Nat /\ attempts[k] + 1 \in Nat
    BY <2>1
  <2>4. /\ attempts' \in [Pks -> Nat]
        /\ attempts'[k] <= 1 + crashes
        /\ \A n \in Pks \ {k} : attempts'[n] = attempts[n]
    BY <2>1, <2>2, <2>3
  <2>5. AwaitsDelete(k)'
    BY <2>1 DEF AwaitsDelete, Current
  <2>6. \A n \in queue : AwaitsDelete(n)' \/ attempts'[n] <= crashes'
    BY <2>1, <2>2, <2>4, <2>5 DEF AwaitsDelete
  <2>7. \A n \in Pks : n >= nextPk => attempts'[n] = 0
    <3>1. k < nextPk
      BY <2>1
    <3>2. ASSUME NEW n \in Pks, n >= nextPk
          PROVE n # k
      BY <2>1, <3>1, <3>2 DEF Pks
    <3> QED
      BY <2>4, <3>2
  <2> QED
    BY <2>1, <2>4, <2>6, <2>7
<1>7. ASSUME NEW k \in batch, Delete(k)
      PROVE SentInv'
  <2>1. /\ queue' = queue \ {k} /\ batch' = batch \ {k} /\ pc = "delete"
        /\ pc' = IF batch' = {} THEN "purge" ELSE "write"
        /\ UNCHANGED <<nextPk, toCreate, attempts, crashes>>
    BY <1>7 DEF Delete, writerVars
  <2>2. \A n \in queue : Current(n) => n = k
    BY <1>7 DEF Delete, Current, Pks
  <2>3. \A n \in queue' : attempts[n] <= crashes
    BY <2>1, <2>2 DEF AwaitsDelete
  <2> QED
    BY <2>1, <2>3
<1>8. CASE Purge
  BY <1>8 DEF Purge, writerVars, runVars
<1>9. CASE Restart \/ Crash
  BY <1>9 DEF Restart, Crash, Stop, writerVars, AwaitsDelete
<1>10. CASE UNCHANGED vars
  BY <1>10 DEF vars, writerVars, runVars, AwaitsDelete, Current
<1>11. CASE Connect \/ StartDisabled \/ FailToConnect \/ FailToCreateBucket
  BY <1>4, <1>11 DEF Connect, StartDisabled, FailToConnect, FailToCreateBucket
<1> QED
  BY <1>1, <1>2, <1>3, <1>5, <1>6, <1>7, <1>8, <1>9, <1>10, <1>11 DEF Next, Backend

\* A measurement is sent once, and once more for each crash between its being
\* written and deleted (run InfluxQueue, SentOnce), however the readings, the saves
\* of the settings and the runs of the client interleave.
THEOREM MeasurementSentOnce == Spec => []SentOnce
<1>1. SentInv => SentOnce
  BY DEF SentInv
<1> QED
  BY <1>1, SentInit, SentStep, PTL DEF Spec

-----------------------------------------------------------------------------
(***************************************************************************)
(* What the client selected is still to be sent, or was sent: so all of it *)
(* was when the rest is purged.                                            *)
(***************************************************************************)
SelectedIsSent ==
    pc \in {"write", "delete", "purge"} =>
        \A n \in Newest(known) : n \in batch \/ attempts[n] > 0

CurrentIsSent == pc = "delete" => \A n \in batch : Current(n) => attempts[n] > 0

PurgeInv ==
    /\ SentInv
    /\ known \subseteq Pks
    /\ SelectedIsSent
    /\ CurrentIsSent

\* Every step keeps the invariant.
LEMMA PurgeStep == PurgeInv /\ [Next]_vars => PurgeInv'
<1> SUFFICES ASSUME PurgeInv, [Next]_vars
             PROVE known' \subseteq Pks /\ SelectedIsSent' /\ CurrentIsSent'
  BY SentStep DEF PurgeInv
<1> USE DEF PurgeInv
<1>1. /\ queue \subseteq Pks
      /\ batch \subseteq Pks
      /\ Pks \subseteq Int
      /\ attempts \in [Pks -> Nat]
      /\ Newest(known) \subseteq known
      /\ pc \notin {"write", "delete"} => batch = {}
  BY InfluxQueueAssumption DEF SentInv, Types, Newest, Pks
<1>2. CASE UNCHANGED <<pc, runVars, attempts>>
  BY <1>1, <1>2 DEF SelectedIsSent, CurrentIsSent, runVars, Newest, Current
<1>3. CASE StartReading \/ CreateMeasurement \/ SaveSettings \/ UNCHANGED vars
  BY <1>2, <1>3 DEF StartReading, CreateMeasurement, SaveSettings, vars
<1>4. CASE pc' \in {"ready", "check", "down"} /\ known' = known
  BY <1>4 DEF SelectedIsSent, CurrentIsSent
<1>5. CASE \/ Connect \/ StartDisabled \/ FailToConnect \/ FailToCreateBucket
           \/ NoClient \/ Purge \/ Continue \/ Restart \/ Crash
  <2>1. pc' \in {"ready", "check", "down"} /\ known' = known
    BY <1>5 DEF Connect, StartDisabled, FailToConnect, FailToCreateBucket, StartWith, NoClient,
                Purge, Continue, Restart, Crash, Stop, runVars
  <2> QED
    BY <1>4, <2>1
<1>6. CASE Select
  BY <1>1, <1>6 DEF Select, SelectedIsSent, CurrentIsSent
<1>7. ASSUME NEW k \in batch, Write(k)
      PROVE known' \subseteq Pks /\ SelectedIsSent' /\ CurrentIsSent'
  <2>1. /\ attempts' = [attempts EXCEPT ![k] = attempts[k] + 1]
        /\ pc = "write" /\ pc' = "delete" /\ Current(k)
        /\ UNCHANGED <<batch, known>>
    BY <1>7 DEF Write, runVars
  <2>2. \A n \in Pks : attempts'[n] >= attempts[n] /\ attempts[n] \in Nat
    BY <1>1, <2>1
  <2>3. SelectedIsSent'
    <3> SUFFICES ASSUME NEW n \in Newest(known), n \notin batch
                 PROVE attempts'[n] > 0
      BY <2>1 DEF SelectedIsSent, Newest
    <3>1. attempts[n] > 0 /\ n \in Pks
      BY <1>1, <2>1 DEF SelectedIsSent
    <3> QED
      BY <2>2, <1>1, <2>1, <3>1
  <2>4. CurrentIsSent'
    <3>1. \A n \in batch : Current(n) => n = k
      BY <1>1, <2>1 DEF Current
    <3>2. attempts'[k] > 0
      BY <1>1, <2>1
    <3> QED
      BY <2>1, <3>1, <3>2 DEF CurrentIsSent, Current
  <2> QED
    BY <2>1, <2>3, <2>4
<1>8. ASSUME NEW k \in batch, Delete(k)
      PROVE known' \subseteq Pks /\ SelectedIsSent' /\ CurrentIsSent'
  <2>1. /\ pc = "delete" /\ Current(k) /\ batch' = batch \ {k}
        /\ pc' \in {"purge", "write"}
        /\ UNCHANGED <<known, attempts>>
    BY <1>8 DEF Delete
  <2>2. attempts[k] > 0
    BY <2>1 DEF CurrentIsSent
  <2> QED
    BY <2>1, <2>2 DEF SelectedIsSent, CurrentIsSent, Newest
<1> QED
  BY <1>3, <1>5, <1>6, <1>7, <1>8, Zenon DEF Next, Backend

\* Each set of natural numbers has a least element.
LEMMA LeastExists ==
    ASSUME NEW S, S \subseteq Nat, S # {}
    PROVE  \E x \in S : \A y \in S : x =< y
<1> DEFINE R == OpToRel(<, Nat)
<1>1. IsWellFoundedOn(R, Nat)
  BY NatLessThanWellFounded
<1>2. \A x, y \in Nat : y < x => <<y, x>> \in R
  BY DEF OpToRel
<1>3. PICK x \in S : \A y \in S : ~(<<y, x>> \in R)
  <2> HIDE DEF R
  <2> QED
    BY <1>1, WFMin, Zenon
<1>4. \A y \in S : ~(y < x)
  <2> HIDE DEF R
  <2> QED
    BY <1>2, <1>3
<1> QED
  BY <1>4

\* One that is not selected has as many newer ones that are: the newest of those
\* not selected has too many newer ones, all of which are selected.
LEMMA NotSelected ==
    ASSUME NEW S, S \subseteq Pks, NEW k \in S, k \notin Newest(S),
           NEW T, \A n \in Newest(S) : n > k => n \in T
    PROVE  Cardinality({n \in S : n > k /\ n \in T}) >= MaxInQueue
<1> USE InfluxQueueAssumption
<1> DEFINE N == MaxMeasurements + Sections
           Others == {N - x : x \in S \ Newest(S)}
<1>1. N \in Nat /\ S \subseteq 1..N
  BY DEF Pks
<1>2. Others \subseteq Nat /\ N - k \in Others
  BY <1>1
<1>3. PICK o \in Others : \A x \in Others : o <= x
  <2> HIDE DEF Others
  <2> QED
    BY <1>2, LeastExists
<1>4. PICK m \in S \ Newest(S) : o = N - m
  OBVIOUS
<1>5. \A x \in S \ Newest(S) : x <= m
  <2> SUFFICES ASSUME NEW x \in S \ Newest(S) PROVE x <= m
    OBVIOUS
  <2>1. N - x \in Others
    OBVIOUS
  <2>2. N - m <= N - x
    BY <1>3, <1>4, <2>1
  <2> QED
    BY <1>1, <2>2
<1>6. {n \in S : n > m} \subseteq {n \in S : n > k /\ n \in T}
  <2> SUFFICES ASSUME NEW n \in S, n > m PROVE n > k /\ n \in T
    OBVIOUS
  <2>1. n \in Newest(S)
    BY <1>1, <1>5
  <2>2. m >= k
    BY <1>5
  <2> QED
    BY <1>1, <2>1, <2>2
<1>7. IsFiniteSet(S)
  <2>1. IsFiniteSet(1..N)
    BY <1>1, FS_Interval
  <2> QED
    BY <1>1, <2>1, FS_Subset
<1>8. IsFiniteSet({n \in S : n > k /\ n \in T}) /\ IsFiniteSet({n \in S : n > m})
  BY <1>7, FS_Subset
<1>9. /\ Cardinality({n \in S : n > m}) <= Cardinality({n \in S : n > k /\ n \in T})
      /\ Cardinality({n \in S : n > m}) \in Nat
      /\ Cardinality({n \in S : n > k /\ n \in T}) \in Nat
  BY <1>6, <1>8, FS_Subset, FS_CardinalityType
<1>10. ~(Cardinality({n \in S : n > m}) < MaxInQueue)
  BY <1>4 DEF Newest
<1> QED
  BY <1>9, <1>10

\* What a run of the client purges without having sent it, although it was there
\* when the run began, was superseded by as many newer ones as are sent in a run,
\* and those were (run InfluxQueue, PurgedIsSuperseded): for every limit, and
\* however many measurements are created during the run.
THEOREM PurgeSupersedes == Spec => PurgedIsSuperseded
<1>1. Init => PurgeInv
  BY SentInit DEF Init, PurgeInv, SelectedIsSent, CurrentIsSent
<1>2. PurgeInv /\ [Next]_vars
        => [\A k \in Unsent : k \in known => Superseded(k)]_vars
  <2> SUFFICES ASSUME PurgeInv, [Next]_vars, NEW k \in Unsent, k \in known
               PROVE Superseded(k)
    BY Zenon
  <2> USE DEF PurgeInv
  <2>1. k \in queue /\ k \notin queue' /\ attempts[k] = 0 /\ k \in Pks
    BY DEF Unsent, SentInv, Types
  <2>2. ASSUME NEW n \in batch, Delete(n)
        PROVE FALSE
    <3>1. n = k
      BY <2>1, <2>2 DEF Delete
    <3>2. attempts[n] > 0
      BY <2>2 DEF Delete, CurrentIsSent
    <3> QED
      BY <2>1, <3>1, <3>2
  <2>3. Purge
    BY <2>1, <2>2, Zenon
       DEF Next, Backend, StartReading, CreateMeasurement, SaveSettings, Connect, StartDisabled,
           FailToConnect, FailToCreateBucket, StartWith, Select, NoClient, Write, Continue, Restart,
           Crash, vars
  <2>4. batch = {} /\ pc = "purge"
    BY <2>3 DEF Purge, SentInv, Types
  <2> DEFINE Sent == {n \in known : attempts[n] > 0}
  <2>5. \A n \in Newest(known) : n \in Sent
    BY <2>4 DEF SelectedIsSent, Newest
  <2>6. k \notin Newest(known)
    BY <2>1, <2>5
  <2>7. Cardinality({n \in known : n > k /\ n \in Sent}) >= MaxInQueue
    <3> HIDE DEF Sent
    <3> QED
      BY <2>5, <2>6, NotSelected
  <2>8. {n \in known : n > k /\ n \in Sent} = {n \in known : n > k /\ attempts[n] > 0}
    OBVIOUS
  <2> QED
    BY <2>7, <2>8 DEF Superseded
<1> QED
  BY <1>1, <1>2, PurgeStep, PTL DEF Spec, PurgedIsSuperseded
===============================================================================
