---------------------------- MODULE Browser_proof ----------------------------
(***************************************************************************)
(* What the pages show, for any dates, any number of requests in flight    *)
(* and any number of rows: each page keeps an invariant of its own, about  *)
(* its requests in flight and what is shown.                               *)
(***************************************************************************)
EXTENDS Browser, SequenceTheorems, FiniteSetTheorems, TLAPS

-----------------------------------------------------------------------------
\* A sequence without the element at i, as RemoveAt of SequencesExt has it.
Without(s, i) == SubSeq(s, 1, i - 1) \o SubSeq(s, i + 1, Len(s))

\* What is left of a sequence without one of its elements.
LEMMA SequenceWithout ==
    ASSUME NEW S, NEW s \in Seq(S), NEW i \in DOMAIN s
    PROVE  /\ Without(s, i) \in Seq(S)
           /\ Len(Without(s, i)) = Len(s) - 1
           /\ \A j \in 1..(Len(s) - 1) : Without(s, i)[j] = IF j < i THEN s[j] ELSE s[j + 1]
<1> DEFINE n == Len(s)
           a == SubSeq(s, 1, i - 1)
           b == SubSeq(s, i + 1, n)
<1>1. n \in Nat /\ i \in 1..n /\ \A j \in 1..n : s[j] \in S
  OBVIOUS
<1>2. a \in Seq(S) /\ Len(a) = i - 1 /\ \A j \in 1..(i - 1) : a[j] = s[j]
  <2>1. i - 1 \in Int /\ \A j \in 1..(i - 1) : s[j] \in S
    BY <1>1
  <2>2. /\ a \in Seq(S) /\ Len(a) = IF 1 <= i - 1 THEN i - 1 - 1 + 1 ELSE 0
        /\ \A j \in 1..(i - 1 - 1 + 1) : a[j] = s[1 + j - 1]
    BY <2>1, SubSeqProperties
  <2> HIDE DEF a
  <2> QED
    BY <1>1, <2>2
<1>3. b \in Seq(S) /\ Len(b) = n - i /\ \A j \in 1..(n - i) : b[j] = s[i + j]
  <2>1. i + 1 \in Int /\ n \in Int /\ \A j \in (i + 1)..n : s[j] \in S
    BY <1>1
  <2>2. /\ b \in Seq(S) /\ Len(b) = IF i + 1 <= n THEN n - (i + 1) + 1 ELSE 0
        /\ \A j \in 1..(n - (i + 1) + 1) : b[j] = s[(i + 1) + j - 1]
    BY <2>1, SubSeqProperties
  <2> HIDE DEF b, n
  <2> QED
    BY <1>1, <2>2
<1>4. /\ a \o b \in Seq(S) /\ Len(a \o b) = Len(a) + Len(b)
      /\ \A j \in 1..(Len(a) + Len(b)) :
             (a \o b)[j] = IF j <= Len(a) THEN a[j] ELSE b[j - Len(a)]
  BY <1>2, <1>3, ConcatProperties
<1>5. Without(s, i) = a \o b
  BY DEF Without
<1> HIDE DEF a, b, n
<1>6. ASSUME NEW j \in 1..(n - 1)
      PROVE  (a \o b)[j] = IF j < i THEN s[j] ELSE s[j + 1]
  <2>1. CASE j < i
    BY <1>1, <1>2, <1>3, <1>4, <2>1
  <2>2. CASE ~(j < i)
    <3>1. j - (i - 1) \in 1..(n - i) /\ i + (j - (i - 1)) = j + 1
      BY <1>1, <2>2
    <3>2. (a \o b)[j] = b[j - (i - 1)]
      <4>1. j \in 1..(Len(a) + Len(b)) /\ ~(j <= Len(a)) /\ Len(a) = i - 1
        BY <1>1, <1>2, <1>3, <2>2
      <4> QED
        BY <1>4, <4>1
    <3> QED
      BY <1>3, <2>2, <3>1, <3>2
  <2> QED
    BY <2>1, <2>2
<1>7. Len(a) + Len(b) = n - 1 /\ n = Len(s)
  BY <1>1, <1>2, <1>3 DEF n
<1> HIDE DEF Without
<1> QED
  BY <1>4, <1>5, <1>6, <1>7

\* The only element of a sequence of one.
LEMMA OnlyElement ==
    ASSUME NEW S, NEW s \in Seq(S), Len(s) =< 1, NEW i \in DOMAIN s
    PROVE  i = 1 /\ Len(s) = 1 /\ Without(s, i) = <<>>
<1>1. i = 1 /\ Len(s) = 1
  <2>1. DOMAIN s = 1..Len(s) /\ Len(s) \in Nat
    OBVIOUS
  <2> QED
    BY <2>1
<1>2. Without(s, i) \in Seq(S) /\ Len(Without(s, i)) = 0
  BY <1>1, SequenceWithout
<1> HIDE DEF Without
<1> QED
  BY <1>1, <1>2, EmptySeq

-----------------------------------------------------------------------------
(***************************************************************************)
(* The header: one update is to come or under way, and what it is answered *)
(* is not older than what is shown.                                        *)
(***************************************************************************)

HeaderInv ==
    /\ Header!TypeOK
    /\ Header!OneUpdate
    /\ shown =< latest
    /\ \A i \in DOMAIN inflight :
           inflight[i].served => shown =< inflight[i].answer /\ inflight[i].answer =< latest

\* Every step of the header keeps its invariant and only raises what it shows.
LEMMA HeaderStep ==
    ASSUME HeaderInv, Header!Next
    PROVE  HeaderInv' /\ shown' >= shown
<1> DEFINE R == [served : BOOLEAN, answer : Nat]
<1>1. latest \in Nat /\ timers \in Nat /\ shown \in Nat /\ inflight \in Seq(R)
      /\ Header!Asked \in R /\ timers + Len(inflight) = 1
  BY DEF HeaderInv, Header!TypeOK, Header!Request, Header!OneUpdate, Header!Asked
<1>2. SUFFICES /\ latest' \in Nat /\ timers' \in Nat /\ shown' \in Nat /\ inflight' \in Seq(R)
               /\ timers' + Len(inflight') = 1
               /\ shown' =< latest' /\ shown' >= shown
               /\ \A i \in DOMAIN inflight' : inflight'[i].served =>
                      shown' =< inflight'[i].answer /\ inflight'[i].answer =< latest'
  BY DEF HeaderInv, Header!TypeOK, Header!Request, Header!OneUpdate
<1>3. CASE Header!Insert
  <2>1. \A i \in DOMAIN inflight : inflight[i].answer \in Nat
    <3>1. \A i \in DOMAIN inflight : inflight[i] \in R
      <4> HIDE DEF R
      <4> QED
        BY <1>1
    <3> QED
      BY <3>1
  <2>2. latest' = latest + 1 /\ UNCHANGED <<timers, inflight, shown>>
    BY <1>3 DEF Header!Insert
  <2> HIDE DEF R
  <2> QED
    BY <1>1, <2>1, <2>2 DEF HeaderInv
<1>4. CASE Header!Update
  <2>1. inflight' = Append(inflight, Header!Asked) /\ timers = 1 /\ timers' = 0
        /\ latest' = latest /\ shown' = shown
    BY <1>1, <1>4 DEF Header!Update
  <2>2. Len(inflight) = 0
    BY <1>1, <2>1
  <2>3. inflight' \in Seq(R) /\ Len(inflight') = 1 /\ inflight'[1] = Header!Asked
    BY <1>1, <2>1, <2>2, AppendProperties
  <2>4. ~Header!Asked.served
    BY DEF Header!Asked
  <2> HIDE DEF R
  <2> QED
    BY <1>1, <2>1, <2>3, <2>4 DEF HeaderInv
<1>5. ASSUME NEW i \in DOMAIN inflight, Header!Serve(i)
      PROVE  /\ latest' = latest /\ timers' = timers /\ shown' = shown /\ inflight' \in Seq(R)
             /\ Len(inflight') = Len(inflight)
             /\ \A j \in DOMAIN inflight' : inflight'[j].served =>
                      shown =< inflight'[j].answer /\ inflight'[j].answer =< latest
  <2> DEFINE r == [served |-> TRUE, answer |-> latest]
  <2>1. inflight' = [inflight EXCEPT ![i] = r] /\ latest' = latest /\ timers' = timers /\ shown' = shown
    BY <1>5 DEF Header!Serve
  <2>2. r \in R /\ r.answer = latest
    BY <1>1
  <2> HIDE DEF r, R
  <2>3. inflight' \in Seq(R) /\ Len(inflight') = Len(inflight)
        /\ \A j \in DOMAIN inflight' : inflight'[j] = IF j = i THEN r ELSE inflight[j]
    BY <1>1, <2>1, <2>2
  <2> QED
    BY <1>1, <2>1, <2>2, <2>3 DEF HeaderInv
<1>6. ASSUME NEW i \in DOMAIN inflight, Header!Reschedule(i)
      PROVE  inflight' = <<>> /\ timers' = 1
  <2>1. inflight' = Without(inflight, i) /\ timers' = timers + 1
    BY <1>6 DEF Header!Reschedule, Header!RemoveAt, Without
  <2>2. Len(inflight) =< 1
    BY <1>1
  <2> HIDE DEF R
  <2>3. i = 1 /\ Len(inflight) = 1 /\ Without(inflight, i) = <<>>
    BY <1>1, <2>2, OnlyElement
  <2> QED
    BY <1>1, <2>1, <2>3
<1>7. ASSUME NEW i \in DOMAIN inflight, Header!Done(i)
      PROVE  /\ latest' = latest /\ inflight' = <<>> /\ timers' = 1 /\ shown' \in Nat
             /\ shown =< shown' /\ shown' =< latest
  <2>1. inflight[i].answer \in Nat
    <3>1. inflight[i] \in R
      <4> HIDE DEF R
      <4> QED
        BY <1>1
    <3> QED
      BY <3>1
  <2> HIDE DEF R
  <2>2. latest' = latest /\ shown' = inflight[i].answer /\ inflight[i].served /\ Header!Reschedule(i)
    BY <1>7 DEF Header!Done
  <2> QED
    BY <1>6, <2>1, <2>2 DEF HeaderInv
<1>8. ASSUME NEW i \in DOMAIN inflight, Header!Fail(i)
      PROVE  latest' = latest /\ inflight' = <<>> /\ timers' = 1 /\ shown' = shown
  BY <1>6, <1>8 DEF Header!Fail
<1> HIDE DEF R
<1>9. <<>> \in Seq(R) /\ Len(<<>>) = 0 /\ DOMAIN <<>> = {}
  OBVIOUS
<1> QED
  <2>1. CASE \E i \in DOMAIN inflight : Header!Serve(i)
    BY <1>1, <1>2, <1>5, <2>1 DEF HeaderInv
  <2>2. CASE \E i \in DOMAIN inflight : Header!Done(i)
    <3>1. /\ latest' = latest /\ inflight' = <<>> /\ timers' = 1 /\ shown' \in Nat
          /\ shown =< shown' /\ shown' =< latest
      BY <1>7, <2>2
    <3>2. DOMAIN inflight' = {} /\ inflight' \in Seq(R) /\ Len(inflight') = 0
      BY <1>9, <3>1
    <3> QED
      BY <1>1, <3>1, <3>2
  <2>3. CASE \E i \in DOMAIN inflight : Header!Fail(i)
    <3>1. latest' = latest /\ inflight' = <<>> /\ timers' = 1 /\ shown' = shown
      BY <1>8, <2>3
    <3>2. DOMAIN inflight' = {} /\ inflight' \in Seq(R) /\ Len(inflight') = 0
      BY <1>9, <3>1
    <3> QED
      BY <1>1, <3>1, <3>2 DEF HeaderInv
  <2> QED
    BY <1>2, <1>3, <1>4, <2>1, <2>2, <2>3 DEF Header!Next

\* Each step is one of the page, or leaves all of it alone.
LEMMA HeaderPageStep ==
    ASSUME page = "header" => HeaderInv, [Next]_vars
    PROVE  (page = "header" => HeaderInv)' /\ (page = "header" => shown' >= shown)
<1>1. CASE OnHeader(Header!Next)
  BY <1>1, HeaderStep DEF OnHeader
<1>2. CASE page' = page /\ page # "header"
  BY <1>2
<1>3. CASE UNCHANGED vars
  BY <1>3 DEF vars, headerVars, HeaderInv, Header!TypeOK, Header!OneUpdate
<1> QED
  BY <1>1, <1>2, <1>3 DEF Next, OnArchive, OnCompare, OnTrends, OnLive

\* The header never goes back to an earlier reading, although requests fail and
\* readings are inserted meanwhile (run Browser, HeaderGoesForward).
THEOREM HeaderAlwaysForward == Spec => HeaderGoesForward
<1>1. Init => (page = "header" => HeaderInv)
  <2> SUFFICES ASSUME Init, page = "header" PROVE HeaderInv
    OBVIOUS
  <2>1. Header!Init
    BY DEF Init
  <2>2. Header!Asked \in Header!Request /\ ~Header!Asked.served
    BY DEF Header!Asked, Header!Request
  <2>3. latest = 0 /\ timers = 0 /\ shown = 0 /\ inflight = <<Header!Asked>>
    BY <2>1 DEF Header!Init
  <2> QED
    BY <2>2, <2>3 DEF HeaderInv, Header!TypeOK, Header!OneUpdate
<1>2. (page = "header" => HeaderInv) /\ [Next]_vars =>
          /\ (page = "header" => HeaderInv)'
          /\ [page = "header" => shown' >= shown]_vars
  BY HeaderPageStep
<1> QED
  BY <1>1, <1>2, PTL DEF Spec, HeaderGoesForward

-----------------------------------------------------------------------------
(***************************************************************************)
(* The comparison and the trends: as long as the last request sent is in   *)
(* flight it has not been overtaken, and after that all others have.       *)
(***************************************************************************)

InFlight(S) == Seq([request : S, overtaken : BOOLEAN])

LastIs(s, request) ==
    s # <<>> /\ s[Len(s)].request = request /\ ~s[Len(s)].overtaken

AllOvertaken(s) == \A i \in DOMAIN s : s[i].overtaken

\* A request that is sent is the last one.
LEMMA AfterSent ==
    ASSUME NEW S, NEW s \in InFlight(S), NEW request \in S
    PROVE  /\ Trends!Sent(s, request) \in InFlight(S)
           /\ LastIs(Trends!Sent(s, request), request)
           /\ Compare!Sent(s, request) = Trends!Sent(s, request)
<1> DEFINE R == [request : S, overtaken : BOOLEAN]
           r == [request |-> request, overtaken |-> FALSE]
<1>1. r \in R /\ r.request = request /\ ~r.overtaken /\ s \in Seq(R)
  BY DEF InFlight
<1>2. Trends!Sent(s, request) = Append(s, r) /\ Compare!Sent(s, request) = Append(s, r)
  BY DEF Trends!Sent, Compare!Sent
<1> HIDE DEF r, R
<1>3. Append(s, r) \in Seq(R) /\ Append(s, r) # <<>>
      /\ Len(Append(s, r)) = Len(s) + 1 /\ Append(s, r)[Len(s) + 1] = r
  BY <1>1, AppendProperties
<1> QED
  BY <1>1, <1>2, <1>3 DEF InFlight, LastIs, R

\* The requests up to one are overtaken, those after it are left alone.
LEMMA AfterOvertaking ==
    ASSUME NEW S, NEW s \in InFlight(S), NEW n \in Nat
    PROVE  /\ Trends!OvertakenUpTo(s, n) \in InFlight(S)
           /\ Len(Trends!OvertakenUpTo(s, n)) = Len(s)
           /\ \A j \in 1..Len(s) :
                  IF j <= n THEN Trends!OvertakenUpTo(s, n)[j].overtaken
                  ELSE Trends!OvertakenUpTo(s, n)[j] = s[j]
           /\ Compare!OvertakenUpTo(s, n) = Trends!OvertakenUpTo(s, n)
<1> DEFINE R == [request : S, overtaken : BOOLEAN]
           o == [i \in DOMAIN s |->
                     IF i <= n THEN [s[i] EXCEPT !.overtaken = TRUE] ELSE s[i]]
<1>1. s \in Seq(R) /\ Len(s) \in Nat /\ DOMAIN s = 1..Len(s)
  BY DEF InFlight
<1>2. \A i \in DOMAIN s : s[i] \in R
  <2> HIDE DEF R
  <2> QED
    BY <1>1
<1>3. \A i \in DOMAIN s : o[i] \in R /\ IF i <= n THEN o[i].overtaken ELSE o[i] = s[i]
  BY <1>1, <1>2
<1>4. Trends!OvertakenUpTo(s, n) = o /\ Compare!OvertakenUpTo(s, n) = o /\ DOMAIN o = DOMAIN s
  BY DEF Trends!OvertakenUpTo, Compare!OvertakenUpTo
<1> HIDE DEF R
<1>5. o \in Seq(R) /\ Len(o) = Len(s)
  <2>1. o \in [1..Len(s) -> R]
    BY <1>1, <1>3
  <2> HIDE DEF o
  <2> QED
    BY <1>1, <2>1
<1> HIDE DEF o
<1> QED
  BY <1>1, <1>3, <1>4, <1>5 DEF InFlight, R

\* One is completed: the earlier ones are overtaken, the later ones are not.
LEMMA AfterCompleted ==
    ASSUME NEW S, NEW s \in InFlight(S), NEW i \in DOMAIN s
    PROVE  /\ Trends!Completed(s, i) \in InFlight(S)
           /\ Compare!Completed(s, i) = Trends!Completed(s, i)
           /\ AllOvertaken(s) => AllOvertaken(Trends!Completed(s, i))
           /\ \A request : LastIs(s, request) =>
                  IF i = Len(s)
                  THEN AllOvertaken(Trends!Completed(s, i))
                  ELSE LastIs(Trends!Completed(s, i), request)
<1> DEFINE R == [request : S, overtaken : BOOLEAN]
           o == Trends!OvertakenUpTo(s, i)
           c == Without(o, i)
           n == Len(s)
<1>1. n \in Nat /\ i \in 1..n /\ s \in Seq(R)
  BY DEF InFlight
<1>2. o \in Seq(R) /\ Len(o) = n /\ DOMAIN o = 1..n
      /\ \A j \in 1..n : IF j <= i THEN o[j].overtaken ELSE o[j] = s[j]
  <2>1. i \in Nat
    BY <1>1
  <2> HIDE DEF R
  <2>2. o \in Seq(R)
    BY <2>1, AfterOvertaking DEF InFlight, R
  <2> QED
    BY <2>1, <2>2, AfterOvertaking
<1>3. Trends!Completed(s, i) = c /\ Compare!Completed(s, i) = c
  <2>1. Compare!OvertakenUpTo(s, i) = o
    BY <1>1, AfterOvertaking
  <2> HIDE DEF o
  <2>2. Trends!RemoveAt(o, i) = c /\ Compare!RemoveAt(o, i) = c
    BY DEF Trends!RemoveAt, Compare!RemoveAt, Without
  <2> HIDE DEF c
  <2>3. Trends!Completed(s, i) = Trends!RemoveAt(o, i)
    BY DEF Trends!Completed, o
  <2>4. Compare!Completed(s, i) = Compare!RemoveAt(o, i)
    BY <2>1 DEF Compare!Completed
  <2> QED
    BY <2>2, <2>3, <2>4
<1> HIDE DEF o, R
<1>4. c \in Seq(R) /\ Len(c) = n - 1 /\ DOMAIN c = 1..(n - 1)
      /\ \A j \in 1..(n - 1) : c[j] = IF j < i THEN o[j] ELSE o[j + 1]
  <2>1. i \in DOMAIN o /\ Len(o) = n
    BY <1>1, <1>2
  <2>2. c \in Seq(R) /\ Len(c) = Len(o) - 1
        /\ \A j \in 1..(Len(o) - 1) : c[j] = IF j < i THEN o[j] ELSE o[j + 1]
    BY <1>2, <2>1, SequenceWithout
  <2> HIDE DEF c
  <2>3. DOMAIN c = 1..Len(c)
    BY <2>2
  <2> QED
    BY <2>1, <2>2, <2>3
<1> HIDE DEF c
<1>5. \A j \in 1..(n - 1) : IF j < i THEN c[j].overtaken ELSE c[j] = s[j + 1]
  BY <1>1, <1>2, <1>4
<1>6. AllOvertaken(s) => AllOvertaken(c)
  BY <1>1, <1>4, <1>5 DEF AllOvertaken
<1>7. i = n => AllOvertaken(c)
  BY <1>1, <1>4, <1>5 DEF AllOvertaken
<1>8. ASSUME NEW request, LastIs(s, request), i # n
      PROVE  LastIs(c, request)
  <2>1. n - 1 \in 1..(n - 1) /\ n - 1 >= i
    BY <1>1, <1>8
  <2>2. c[n - 1] = s[n] /\ c # <<>> /\ Len(c) = n - 1
    BY <1>1, <1>4, <1>5, <2>1
  <2> QED
    BY <1>8, <2>2 DEF LastIs
<1> QED
  BY <1>3, <1>4, <1>6, <1>7, <1>8 DEF InFlight, R

-----------------------------------------------------------------------------
(***************************************************************************)
(* The trends.                                                             *)
(***************************************************************************)

TrendsInv ==
    /\ Trends!TypeOK
    /\ \A g \in Trends!Graphs :
           \/ LastIs(inflight[g], picked)
           \/ /\ AllOvertaken(inflight[g])
              /\ ~outdated[g] => shown[g] # Nothing /\ shown[g].period = picked

\* Every step of the trends page keeps its invariant.
LEMMA TrendsStep ==
    ASSUME TrendsInv, Trends!Next
    PROVE  TrendsInv'
<1> DEFINE G == Trends!Graphs
           P == Trends!Period
           D == [period : P, ok : BOOLEAN]
<1>1. /\ picked \in P
      /\ inflight \in [G -> InFlight(P)]
      /\ shown \in [G -> D \union {Nothing}]
      /\ outdated \in [G -> BOOLEAN]
  BY DEF TrendsInv, Trends!TypeOK, InFlight
<1>2. SUFFICES /\ picked' \in P
               /\ inflight' \in [G -> InFlight(P)]
               /\ shown' \in [G -> D \union {Nothing}]
               /\ outdated' \in [G -> BOOLEAN]
               /\ \A g \in G :
                     \/ LastIs(inflight'[g], picked')
                     \/ /\ AllOvertaken(inflight'[g])
                        /\ ~outdated'[g] => shown'[g] # Nothing /\ shown'[g].period = picked'
  BY DEF TrendsInv, Trends!TypeOK, InFlight, LastIs, AllOvertaken
<1>3. ASSUME NEW period \in P, Trends!Select(period)
      PROVE  /\ picked' \in P
             /\ inflight' \in [G -> InFlight(P)]
             /\ shown' \in [G -> D \union {Nothing}]
             /\ outdated' \in [G -> BOOLEAN]
             /\ \A g \in G : LastIs(inflight'[g], picked')
  <2>1. /\ picked' = period /\ outdated' = outdated
        /\ inflight' = [g \in G |-> Trends!Sent(inflight[g], period)]
        /\ shown' = [g \in G |-> Nothing]
    BY <1>3 DEF Trends!Select, Trends!UpdateTrends
  <2> HIDE DEF G, P, D
  <2>2. \A g \in G : /\ Trends!Sent(inflight[g], period) \in InFlight(P)
                      /\ LastIs(Trends!Sent(inflight[g], period), period)
    BY <1>1, AfterSent
  <2> QED
    BY <1>1, <2>1, <2>2
<1>4. ASSUME NEW h \in G, NEW i \in DOMAIN inflight[h], NEW ok \in BOOLEAN,
             Trends!Complete(h, i, ok)
      PROVE  /\ picked' \in P
             /\ inflight' \in [G -> InFlight(P)]
             /\ shown' \in [G -> D \union {Nothing}]
             /\ outdated' \in [G -> BOOLEAN]
             /\ \A g \in G :
                   \/ LastIs(inflight'[g], picked')
                   \/ /\ AllOvertaken(inflight'[g])
                      /\ ~outdated'[g] => shown'[g] # Nothing /\ shown'[g].period = picked'
  <2> DEFINE s == inflight[h]
             c == Trends!Completed(s, i)
             d == Trends!Shown(s[i].request, ok)
  <2>1. /\ shown' = [shown EXCEPT ![h] = d]
        /\ outdated' = [outdated EXCEPT ![h] = s[i].overtaken]
        /\ inflight' = [inflight EXCEPT ![h] = c]
        /\ picked' = picked
    BY <1>4 DEF Trends!Complete
  <2>2. s \in InFlight(P) /\ i \in DOMAIN s
    BY <1>1
  <2>3. s[i].request \in P /\ s[i].overtaken \in BOOLEAN
    <3> DEFINE R == [request : P, overtaken : BOOLEAN]
    <3>1. s \in Seq(R)
      BY <2>2 DEF InFlight
    <3>2. s[i] \in R
      <4> HIDE DEF R, s
      <4> QED
        BY <2>2, <3>1
    <3> HIDE DEF P
    <3> QED
      BY <3>2
  <2>4. d \in D /\ d.period = s[i].request
    <3> HIDE DEF P
    <3> QED
      BY <1>4, <2>3 DEF Trends!Shown
  <2>5. d # Nothing
    BY <2>4, BrowserAssumption DEF Trends!Period
  <2>6. /\ c \in InFlight(P)
        /\ AllOvertaken(s) => AllOvertaken(c)
        /\ LastIs(s, picked) => IF i = Len(s) THEN AllOvertaken(c) ELSE LastIs(c, picked)
    <3> HIDE DEF P, s
    <3> QED
      BY <2>2, AfterCompleted
  <2>7. LastIs(s, picked) \/ AllOvertaken(s)
    BY <1>4 DEF TrendsInv
  <2> HIDE DEF c, d, P, D
  <2>8. LastIs(s, picked) /\ i = Len(s) => s[i].request = picked
    BY DEF LastIs
  <2>9. AllOvertaken(s) => s[i].overtaken
    BY <2>2 DEF AllOvertaken
  <2>10. \/ LastIs(c, picked)
         \/ AllOvertaken(c) /\ (~s[i].overtaken => d.period = picked)
    BY <2>4, <2>6, <2>7, <2>8, <2>9
  <2>11. /\ inflight' \in [G -> InFlight(P)]
         /\ shown' \in [G -> D \union {Nothing}]
         /\ outdated' \in [G -> BOOLEAN]
         /\ inflight'[h] = c /\ shown'[h] = d /\ outdated'[h] = s[i].overtaken
         /\ \A g \in G \ {h} :
                inflight'[g] = inflight[g] /\ shown'[g] = shown[g] /\ outdated'[g] = outdated[g]
    <3> HIDE DEF G, s
    <3> QED
      BY <1>1, <1>4, <2>1, <2>3, <2>4, <2>6
  <2>12. \A g \in G \ {h} :
             \/ LastIs(inflight'[g], picked')
             \/ /\ AllOvertaken(inflight'[g])
                /\ ~outdated'[g] => shown'[g] # Nothing /\ shown'[g].period = picked'
    BY <2>1, <2>11 DEF TrendsInv
  <2> HIDE DEF G, s
  <2> QED
    BY <1>1, <2>1, <2>5, <2>10, <2>11, <2>12
<1> QED
  BY <1>2, <1>3, <1>4 DEF Trends!Next

\* Each step is one of the page, or leaves all of it alone.
LEMMA TrendsPageStep ==
    ASSUME page = "trends" => TrendsInv, [Next]_vars
    PROVE  (page = "trends" => TrendsInv)'
<1>1. CASE OnTrends(Trends!Next)
  BY <1>1, TrendsStep DEF OnTrends
<1>2. CASE page' = page /\ page # "trends"
  BY <1>2
<1>3. CASE UNCHANGED vars
  BY <1>3 DEF vars, pickerVars, selectionVars, TrendsInv, Trends!TypeOK, LastIs, AllOvertaken
<1> QED
  BY <1>1, <1>2, <1>3 DEF Next, OnArchive, OnCompare, OnHeader, OnLive

\* With nothing in flight, the graphs of the trends are of the period that is
\* selected, or the last answer was overtaken (run Browser, TrendsAgree).
THEOREM TrendsOfSelection == Spec => []TrendsAgree
<1>1. Init => (page = "trends" => TrendsInv)
  <2> SUFFICES ASSUME Init, page = "trends" PROVE TrendsInv
    OBVIOUS
  <2> DEFINE G == Trends!Graphs
             P == Trends!Period
  <2>1. /\ picked = [start |-> EndDate, end |-> EndDate]
        /\ inflight = [g \in G |-> Trends!Sent(<<>>, picked)]
        /\ shown = [g \in G |-> Nothing]
        /\ outdated = [g \in G |-> FALSE]
    BY DEF Init, Trends!Init
  <2>2. picked \in P
    BY <2>1, BrowserAssumption DEF Trends!Period
  <2> HIDE DEF G, P
  <2>3. <<>> \in InFlight(P)
    BY DEF InFlight
  <2>4. /\ Trends!Sent(<<>>, picked) \in InFlight(P)
        /\ LastIs(Trends!Sent(<<>>, picked), picked)
    BY <2>2, <2>3, AfterSent
  <2>5. inflight \in [G -> InFlight(P)] /\ \A g \in G : LastIs(inflight[g], picked)
    BY <2>1, <2>4
  <2> QED
    BY <2>1, <2>2, <2>5 DEF TrendsInv, Trends!TypeOK, InFlight, G, P
<1>2. (page = "trends" => TrendsInv) => TrendsAgree
  BY DEF TrendsInv, TrendsAgree, Trends!GraphsAgree, LastIs
<1> QED
  BY <1>1, <1>2, TrendsPageStep, PTL DEF Spec

-----------------------------------------------------------------------------
(***************************************************************************)
(* The date pickers: whichever of its events the page handles, it gets the *)
(* date that the picker highlights.                                        *)
(***************************************************************************)

\* After click c the view is not below the level m, and the handlers of the
\* level get the date that the picker highlights then, or none.
SelectsWhatItHighlights(c, m, dates) ==
    /\ c.view \in Archive!Levels /\ m <= c.view
    /\ IF Archive!Triggered(c.events, Archive!Handled(m)) = {}
       THEN \A before : Archive!Highlighted(c.events, before) = before
       ELSE \E d \in dates :
                /\ Archive!LastDate(c.events, Archive!Handled(m)) = d
                /\ \A before : Archive!Highlighted(c.events, before) = d

\* If one event is handled, its date is the one to go by.
LEMMA OneTriggered ==
    ASSUME NEW events, NEW names, NEW k \in Nat, Archive!Triggered(events, names) = {k}
    PROVE  Archive!LastDate(events, names) = events[k].date
<1>1. Archive!Max({k}) = k
  BY DEF Archive!Max
<1> QED
  BY <1>1 DEF Archive!LastDate

\* A click that triggers one event with a date, the selection's name or not.
LEMMA OneEvent ==
    ASSUME NEW m \in Archive!Levels, NEW dates, NEW d \in dates, NEW name, NEW c,
           c.events = <<Archive!Event(name, d)>>,
           c.view \in Archive!Levels, m <= c.view,
           name = "changeDate" <=> name \in Archive!Handled(m)
    PROVE  SelectsWhatItHighlights(c, m, dates)
<1>1. DOMAIN c.events = {1} /\ c.events[1].name = name /\ c.events[1].date = d
  BY DEF Archive!Event
<1>2. CASE name = "changeDate"
  <2>1. /\ Archive!Triggered(c.events, Archive!Handled(m)) = {1}
        /\ Archive!Triggered(c.events, {"changeDate"}) = {1}
    BY <1>1, <1>2 DEF Archive!Triggered
  <2>2. /\ Archive!LastDate(c.events, Archive!Handled(m)) = d
        /\ Archive!LastDate(c.events, {"changeDate"}) = d
    BY <1>1, <2>1, OneTriggered
  <2> QED
    BY <2>1, <2>2 DEF SelectsWhatItHighlights, Archive!Highlighted
<1>3. CASE name # "changeDate"
  <2>1. /\ Archive!Triggered(c.events, Archive!Handled(m)) = {}
        /\ Archive!Triggered(c.events, {"changeDate"}) = {}
    BY <1>1, <1>3 DEF Archive!Triggered
  <2> QED
    BY <2>1 DEF SelectsWhatItHighlights, Archive!Highlighted
<1> QED
  BY <1>2, <1>3

\* A date selected in the lowest view: the last event says so, those before it
\* announce another month or year, and at most one of them is handled.
LEMMA SelectionLast ==
    ASSUME NEW m \in Archive!Levels, NEW dates, NEW d \in dates, NEW c, NEW n \in Nat \ {0},
           DOMAIN c.events = 1..n, c.view \in Archive!Levels, m <= c.view,
           c.events[n] = Archive!Event("changeDate", d),
           \A i \in 1..(n - 1) : c.events[i].name # "changeDate",
           \E k \in 1..n : /\ Archive!Triggered(c.events, Archive!Handled(m)) = {k}
                           /\ c.events[k].date = d
    PROVE  SelectsWhatItHighlights(c, m, dates)
<1>1. c.events[n].name = "changeDate" /\ c.events[n].date = d
  BY DEF Archive!Event
<1>2. PICK k \in 1..n : /\ Archive!Triggered(c.events, Archive!Handled(m)) = {k}
                        /\ c.events[k].date = d
  OBVIOUS
<1>3. Archive!Triggered(c.events, {"changeDate"}) = {n}
  <2>1. n \in 1..n /\ \A i \in 1..n : i = n \/ i \in 1..(n - 1)
    OBVIOUS
  <2> QED
    BY <1>1, <2>1 DEF Archive!Triggered
<1>4. /\ Archive!LastDate(c.events, Archive!Handled(m)) = d
      /\ Archive!LastDate(c.events, {"changeDate"}) = d
  BY <1>1, <1>2, <1>3, OneTriggered
<1> QED
  BY <1>2, <1>3, <1>4 DEF SelectsWhatItHighlights, Archive!Highlighted

\* One or two and one more.
LEMMA OneMore ==
    ASSUME NEW x, NEW y, NEW z, NEW e
    PROVE  /\ e = <<x>> \o <<z>> => DOMAIN e = 1..2 /\ e[1] = x /\ e[2] = z
           /\ e = <<x, y>> \o <<z>> => DOMAIN e = 1..3 /\ e[1] = x /\ e[2] = y /\ e[3] = z
<1> DEFINE S == {x, y, z}
<1>1. /\ <<x>> \in Seq(S) /\ Len(<<x>>) = 1 /\ <<x>>[1] = x
      /\ <<z>> \in Seq(S) /\ Len(<<z>>) = 1 /\ <<z>>[1] = z
  OBVIOUS
<1>2. /\ <<x, y>> \in Seq(S) /\ Len(<<x, y>>) = 2
      /\ <<x, y>>[1] = x /\ <<x, y>>[2] = y
  OBVIOUS
<1> HIDE DEF S
<1>3. ASSUME e = <<x>> \o <<z>>
      PROVE  DOMAIN e = 1..2 /\ e[1] = x /\ e[2] = z
  <2>1. /\ e \in Seq(S) /\ Len(e) = 1 + 1
        /\ \A i \in 1..(1 + 1) : e[i] = IF i <= 1 THEN <<x>>[i] ELSE <<z>>[i - 1]
    BY <1>1, <1>3, ConcatProperties
  <2>2. e[1] = <<x>>[1] /\ e[2] = <<z>>[2 - 1]
    BY <2>1
  <2> QED
    BY <1>1, <2>1, <2>2
<1>4. ASSUME e = <<x, y>> \o <<z>>
      PROVE  DOMAIN e = 1..3 /\ e[1] = x /\ e[2] = y /\ e[3] = z
  <2>1. /\ e \in Seq(S) /\ Len(e) = 2 + 1
        /\ \A i \in 1..(2 + 1) : e[i] = IF i <= 2 THEN <<x, y>>[i] ELSE <<z>>[i - 2]
    BY <1>1, <1>2, <1>4, ConcatProperties
  <2>2. e[1] = <<x, y>>[1] /\ e[2] = <<x, y>>[2] /\ e[3] = <<z>>[3 - 2]
    BY <2>1
  <2> QED
    BY <1>1, <1>2, <2>1, <2>2
<1> QED
  BY <1>3, <1>4

\* Whatever is clicked, the page goes by the date that the picker highlights.
LEMMA ClickSelects ==
    ASSUME NEW v \in Archive!Levels, NEW m \in Archive!Levels, m <= v, NEW dates,
           NEW c \in Archive!Clicks(v, m, dates)
    PROVE  SelectsWhatItHighlights(c, m, dates)
<1> USE DEF Archive!Levels, Archive!Days, Archive!Months, Archive!Years
<1>1. CASE c \in Archive!SwitchClicks(v)
  <2>1. c.view = v + 1 /\ c.events = <<>> /\ v # 2
    BY <1>1 DEF Archive!SwitchClicks, Archive!Click
  <2>2. Archive!Triggered(c.events, Archive!Handled(m)) = {}
        /\ Archive!Triggered(c.events, {"changeDate"}) = {}
    BY <2>1 DEF Archive!Triggered
  <2> QED
    BY <2>1, <2>2 DEF SelectsWhatItHighlights, Archive!Highlighted
<1>2. CASE c \in Archive!ArrowClicks(v, dates)
  <2>1. PICK d \in dates : c = Archive!Click(v, <<Archive!Event(Archive!LevelEvent(v), d)>>)
    BY <1>2 DEF Archive!ArrowClicks
  <2>2. c.view = v /\ c.events = <<Archive!Event(Archive!LevelEvent(v), d)>>
    BY <2>1 DEF Archive!Click
  <2>3. Archive!LevelEvent(v) # "changeDate" /\ Archive!LevelEvent(v) \notin Archive!Handled(m)
    BY DEF Archive!LevelEvent, Archive!Handled
  <2> QED
    BY <2>2, <2>3, OneEvent
<1>3. CASE c \in Archive!CellClicks(v, m, dates) /\ v = m
  <2>1. PICK d \in dates :
               c = Archive!Click(v, <<Archive!Event(Archive!LevelEvent(v - 1), d),
                                      Archive!Event("changeDate", d)>>)
    BY <1>3 DEF Archive!CellClicks
  <2>2. v # 0
    BY <1>3 DEF Archive!CellClicks
  <2>3. /\ c.view = v /\ DOMAIN c.events = 1..2
        /\ c.events[1].name = Archive!LevelEvent(v - 1) /\ c.events[1].date = d
        /\ c.events[2] = Archive!Event("changeDate", d) /\ c.events[2].name = "changeDate"
    BY <2>1 DEF Archive!Click, Archive!Event
  <2>4. /\ Archive!LevelEvent(v - 1) # "changeDate"
        /\ Archive!Handled(m) = {Archive!LevelEvent(v - 1)}
    BY <1>3, <2>2 DEF Archive!LevelEvent, Archive!Handled
  <2>5. Archive!Triggered(c.events, Archive!Handled(m)) = {1}
    BY <2>3, <2>4 DEF Archive!Triggered
  <2>7. \E k \in 1..2 : /\ Archive!Triggered(c.events, Archive!Handled(m)) = {k}
                        /\ c.events[k].date = d
    BY <2>3, <2>5
  <2>8. \A i \in 1..(2 - 1) : c.events[i].name # "changeDate"
    BY <2>3, <2>4
  <2>9. 2 \in Nat \ {0} /\ c.view \in Archive!Levels /\ m <= c.view
    BY <1>3, <2>3
  <2> HIDE DEF Archive!Levels
  <2> QED
    BY <2>3, <2>7, <2>8, <2>9, SelectionLast
<1>4. CASE c \in Archive!CellClicks(v, m, dates) /\ v # m
  <2>1. PICK d \in dates :
               c = Archive!Click(v - 1, <<Archive!Event(Archive!LevelEvent(v - 1), d)>>)
    BY <1>4 DEF Archive!CellClicks
  <2>2. /\ c.view = v - 1 /\ v # 0
        /\ c.events = <<Archive!Event(Archive!LevelEvent(v - 1), d)>>
    BY <1>4, <2>1 DEF Archive!CellClicks, Archive!Click
  <2>3. /\ Archive!LevelEvent(v - 1) # "changeDate"
        /\ Archive!LevelEvent(v - 1) \notin Archive!Handled(m)
    BY <1>4, <2>2 DEF Archive!LevelEvent, Archive!Handled
  <2>4. c.view \in Archive!Levels /\ m <= c.view
    BY <1>4, <2>2
  <2> QED
    BY <2>2, <2>3, <2>4, OneEvent
<1>5. CASE c \in Archive!DayClicks(v, dates)
  <2>1. v = 0 /\ m = 0 /\ Archive!Handled(m) = {"changeDate"}
    BY <1>5 DEF Archive!DayClicks, Archive!Handled
  <2>2. PICK d \in dates, moves \in {<<>>}
               \union {<<Archive!Event("changeMonth", w)>> : w \in dates}
               \union {<<Archive!Event("changeYear", w), Archive!Event("changeMonth", w)>> : w \in dates} :
               c = Archive!Click(0, moves \o <<Archive!Event("changeDate", d)>>)
    BY <1>5, <2>1 DEF Archive!DayClicks
  <2>3. PICK n \in 1..3 :
               /\ DOMAIN c.events = 1..n /\ c.events[n] = Archive!Event("changeDate", d)
               /\ \A i \in 1..(n - 1) : c.events[i].name \in {"changeMonth", "changeYear"}
    <3> DEFINE last == Archive!Event("changeDate", d)
    <3>1. c.events = moves \o <<last>>
      BY <2>2 DEF Archive!Click
    <3>2. CASE moves = <<>>
      <4>1. c.events = <<last>>
        BY <3>1, <3>2
      <4> QED
        BY <4>1
    <3>3. CASE \E w \in dates : moves = <<Archive!Event("changeMonth", w)>>
      <4>1. PICK w \in dates : moves = <<Archive!Event("changeMonth", w)>>
        BY <3>3
      <4>2. DOMAIN c.events = 1..2 /\ c.events[2] = last
            /\ c.events[1] = Archive!Event("changeMonth", w)
        BY <3>1, <4>1, OneMore
      <4> HIDE DEF last
      <4>3. c.events[1].name = "changeMonth" /\ 1..(2 - 1) = {1}
        BY <4>2 DEF Archive!Event
      <4> QED
        BY <4>2, <4>3 DEF last
    <3>4. CASE \E w \in dates :
                  moves = <<Archive!Event("changeYear", w), Archive!Event("changeMonth", w)>>
      <4>1. PICK w \in dates :
                   moves = <<Archive!Event("changeYear", w), Archive!Event("changeMonth", w)>>
        BY <3>4
      <4>2. DOMAIN c.events = 1..3 /\ c.events[3] = last
            /\ c.events[1] = Archive!Event("changeYear", w)
            /\ c.events[2] = Archive!Event("changeMonth", w)
        BY <3>1, <4>1, OneMore
      <4> HIDE DEF last
      <4>3. /\ c.events[1].name = "changeYear" /\ c.events[2].name = "changeMonth"
            /\ 1..(3 - 1) = {1, 2}
        BY <4>2 DEF Archive!Event
      <4> QED
        BY <4>2, <4>3 DEF last
    <3> QED
      BY <2>2, <3>2, <3>3, <3>4
  <2>4. c.view = 0 /\ c.events[n].name = "changeDate" /\ c.events[n].date = d
    BY <2>2, <2>3 DEF Archive!Click, Archive!Event
  <2>5. Archive!Triggered(c.events, Archive!Handled(m)) = {n}
    <3>1. n \in 1..n /\ \A i \in 1..n : i = n \/ i \in 1..(n - 1)
      OBVIOUS
    <3> QED
      BY <2>1, <2>3, <2>4, <3>1 DEF Archive!Triggered
  <2>6. /\ n \in Nat \ {0} /\ n \in 1..n
        /\ \A i \in 1..(n - 1) : c.events[i].name # "changeDate"
    BY <2>3
  <2> QED
    BY <2>1, <2>3, <2>4, <2>5, <2>6, SelectionLast
<1> QED
  BY <1>1, <1>2, <1>3, <1>4, <1>5 DEF Archive!Clicks

-----------------------------------------------------------------------------
(***************************************************************************)
(* The archive: what is in flight is of the selection, as all else was     *)
(* aborted, and only while it is pending.                                  *)
(***************************************************************************)

ArchiveInv ==
    /\ mode \in Archive!Levels /\ view \in Archive!Levels /\ mode <= view
    /\ inflight \in [Archive!Parts -> {<<>>, <<(<<mode, picked>>)>>}]
    /\ pending \in [Archive!Parts -> BOOLEAN]
    /\ shown \in [Archive!Parts -> {Nothing, <<mode, picked>>}]
    /\ \A p \in Archive!Parts : inflight[p] # <<>> => pending[p]

\* A new selection leaves one request of each part, and nothing shown.
LEMMA UpdatedView ==
    ASSUME ArchiveInv, NEW selection, Archive!UpdateView(selection)
    PROVE  /\ inflight' = [p \in Archive!Parts |-> <<selection>>]
           /\ pending' = [p \in Archive!Parts |-> TRUE]
           /\ shown' = [p \in Archive!Parts |-> Nothing]
<1> DEFINE s == <<mode, picked>>
<1>1. Archive!Front(<<s>>) = <<>> /\ Archive!Front(<<>>) = <<>>
  <2>1. Archive!Front(<<s>>) = SubSeq(<<s>>, 1, 0) /\ Archive!Front(<<>>) = SubSeq(<<>>, 1, -1)
    BY DEF Archive!Front
  <2> HIDE DEF s
  <2>2. SubSeq(<<s>>, 1, 0) = <<>> /\ SubSeq(<<>>, 1, -1) = <<>>
    BY SubSeqEmpty
  <2> QED
    BY <2>1, <2>2
<1>2. \A p \in Archive!Parts : Archive!Aborted[p] = <<>>
  BY <1>1 DEF Archive!Aborted, ArchiveInv
<1>3. Append(<<>>, selection) = <<selection>>
  OBVIOUS
<1>4. inflight' = [p \in Archive!Parts |-> Append(Archive!Aborted[p], selection)]
  BY DEF Archive!UpdateView, Archive!Sent
<1>5. inflight' = [p \in Archive!Parts |-> <<selection>>]
  BY <1>2, <1>3, <1>4
<1> QED
  BY <1>5 DEF Archive!UpdateView

\* Every step of the archive page keeps its invariant.
LEMMA ArchiveStep ==
    ASSUME ArchiveInv, Archive!Next
    PROVE  ArchiveInv'
<1> DEFINE L == Archive!Levels
           P == Archive!Parts
<1>1. ASSUME mode' \in L, view' \in L, mode' <= view', Archive!UpdateView(<<mode', picked'>>)
      PROVE  ArchiveInv'
  <2> DEFINE s == <<mode', picked'>>
  <2>1. /\ inflight' = [p \in P |-> <<s>>]
        /\ pending' = [p \in P |-> TRUE]
        /\ shown' = [p \in P |-> Nothing]
    BY <1>1, UpdatedView
  <2> HIDE DEF P, s
  <2>2. /\ inflight' \in [P -> {<<>>, <<s>>}]
        /\ pending' \in [P -> BOOLEAN] /\ \A p \in P : pending'[p]
        /\ shown' \in [P -> {Nothing, s}]
    BY <2>1
  <2> QED
    BY <1>1, <2>2 DEF ArchiveInv, P, s
<1>2. ASSUME NEW m \in L, Archive!ShowMode(m)
      PROVE  ArchiveInv'
  BY <1>1, <1>2 DEF Archive!ShowMode, Archive!Levels, Archive!Days, Archive!Months, Archive!Years
<1>3. CASE Archive!Select
  <2>1. PICK c \in Archive!Clicks(view, mode, Periods) :
               /\ view' = c.view
               /\ picked' = Archive!Highlighted(c.events, picked)
               /\ mode' = mode
               /\ IF Archive!Triggered(c.events, Archive!Handled(mode)) = {}
                  THEN UNCHANGED <<inflight, pending, shown>>
                  ELSE Archive!UpdateView(<<mode, Archive!LastDate(c.events, Archive!Handled(mode))>>)
    BY <1>3 DEF Archive!Select
  <2>2. SelectsWhatItHighlights(c, mode, Periods)
    BY ClickSelects DEF ArchiveInv
  <2>3. CASE Archive!Triggered(c.events, Archive!Handled(mode)) = {}
    <3>1. picked' = picked /\ view' \in L /\ mode <= view'
      BY <2>1, <2>2, <2>3 DEF SelectsWhatItHighlights
    <3> QED
      BY <2>1, <2>3, <3>1 DEF ArchiveInv
  <2>4. CASE Archive!Triggered(c.events, Archive!Handled(mode)) # {}
    <3>1. /\ picked' = Archive!LastDate(c.events, Archive!Handled(mode))
          /\ view' \in L /\ mode <= view'
      BY <2>1, <2>2, <2>4 DEF SelectsWhatItHighlights
    <3>2. Archive!UpdateView(<<mode', picked'>>) /\ mode' \in L /\ mode' <= view'
      BY <2>1, <2>4, <3>1 DEF ArchiveInv
    <3> QED
      BY <1>1, <3>1, <3>2
  <2> QED
    BY <2>3, <2>4
<1>4. ASSUME NEW p \in P, NEW i \in DOMAIN inflight[p],
             Archive!Complete(p, i),
             shown' = shown \/ shown' = [shown EXCEPT ![p] = inflight[p][i]]
      PROVE  ArchiveInv'
  <2> DEFINE s == <<mode, picked>>
  <2>1. inflight[p] = <<s>>
    BY <1>4 DEF ArchiveInv
  <2>2. i = 1 /\ inflight[p][i] = s
    <3> HIDE DEF s
    <3> QED
      BY <1>4, <2>1
  <2>3. Without(<<s>>, 1) = <<>>
    <3> HIDE DEF s
    <3>1. <<s>> \in Seq({s}) /\ Len(<<s>>) =< 1 /\ 1 \in DOMAIN <<s>>
      OBVIOUS
    <3> QED
      BY <3>1, OnlyElement
  <2>4. /\ inflight' = [inflight EXCEPT ![p] = Without(inflight[p], i)]
        /\ pending' = [pending EXCEPT ![p] = FALSE]
        /\ mode' = mode /\ view' = view /\ picked' = picked
    BY <1>4 DEF Archive!Complete, Archive!RemoveAt, Without
  <2>5. inflight' = [inflight EXCEPT ![p] = <<>>]
    BY <2>1, <2>2, <2>3, <2>4
  <2>6. /\ inflight \in [P -> {<<>>, <<s>>}]
        /\ pending \in [P -> BOOLEAN]
        /\ shown \in [P -> {Nothing, s}]
        /\ \A q \in P : inflight[q] # <<>> => pending[q]
    BY DEF ArchiveInv
  <2> HIDE DEF P, s
  <2>7. inflight' \in [P -> {<<>>, <<s>>}] /\ pending' \in [P -> BOOLEAN]
    BY <2>4, <2>5, <2>6
  <2>8. shown' \in [P -> {Nothing, s}]
    BY <1>4, <2>2, <2>6
  <2>9. \A q \in P : inflight'[q] # <<>> => pending'[q]
    BY <2>4, <2>5, <2>6
  <2> QED
    BY <2>4, <2>7, <2>8, <2>9 DEF ArchiveInv, P, s
<1>5. ASSUME NEW p \in P, NEW i \in DOMAIN inflight[p], Archive!Answer(p, i) \/ Archive!Fail(p, i)
      PROVE  ArchiveInv'
  BY <1>4, <1>5 DEF Archive!Answer, Archive!Fail
<1> QED
  BY <1>2, <1>3, <1>5 DEF Archive!Next

\* Each step is one of the page, or leaves all of it alone.
LEMMA ArchivePageStep ==
    ASSUME page = "archive" => ArchiveInv, [Next]_vars
    PROVE  (page = "archive" => ArchiveInv)'
<1>1. CASE OnArchive(Archive!Next)
  BY <1>1, ArchiveStep DEF OnArchive
<1>2. CASE page' = page /\ page # "archive"
  BY <1>2
<1>3. CASE UNCHANGED vars
  BY <1>3 DEF vars, pickerVars, ArchiveInv
<1> QED
  BY <1>1, <1>2, <1>3 DEF Next, OnTrends, OnCompare, OnHeader, OnLive

\* The summary and the graphs of the archive are of the date highlighted at the
\* level switched on, however quickly the user clicks and whatever fails (run
\* Browser, ArchiveShowsSelection).
THEOREM ArchiveOfSelection == Spec => []ArchiveShowsSelection
<1>1. Init => (page = "archive" => ArchiveInv)
  <2> SUFFICES ASSUME Init, page = "archive" PROVE ArchiveInv
    OBVIOUS
  <2> DEFINE P == Archive!Parts
             s == <<mode, picked>>
  <2>1. /\ mode = 1 /\ view = 1 /\ Archive!Levels = {0, 1, 2}
        /\ inflight = [p \in P |-> <<s>>]
        /\ pending = [p \in P |-> TRUE]
        /\ shown = [p \in P |-> Nothing]
    BY DEF Init, Archive!Init, Archive!Levels, Archive!Days, Archive!Months, Archive!Years
  <2> HIDE DEF P, s
  <2>2. /\ inflight \in [P -> {<<>>, <<s>>}]
        /\ pending \in [P -> BOOLEAN] /\ \A p \in P : pending[p]
        /\ shown \in [P -> {Nothing, s}]
    BY <2>1
  <2> QED
    BY <2>1, <2>2 DEF ArchiveInv, P, s
<1>2. (page = "archive" => ArchiveInv) => ArchiveShowsSelection
  BY DEF ArchiveInv, ArchiveShowsSelection, Archive!ShowsSelection
<1> QED
  BY <1>1, <1>2, ArchivePageStep, PTL DEF Spec

-----------------------------------------------------------------------------
(***************************************************************************)
(* The comparison: the dates selected are those highlighted, and a summary *)
(* is of these unless something overtook it.                               *)
(***************************************************************************)

Compared == Compare!Comparison(mode, picked)

CompareInv ==
    /\ mode \in Compare!Levels
    /\ view \in [Compare!Pickers -> Compare!Levels]
    /\ \A p \in Compare!Pickers : mode <= view[p]
    /\ picked \in [Compare!Pickers -> Periods \union {Nothing}]
    /\ selections = picked
    /\ inflight \in InFlight(Compare!Comparisons)
    /\ shown \in Compare!Comparisons \union {Nothing}
    /\ outdated \in BOOLEAN
    /\ \/ LastIs(inflight, Compared)
       \/ AllOvertaken(inflight) /\ (outdated \/ shown \in {Nothing, Compared})

\* The pages have the same date picker.
LEMMA SamePicker ==
    ASSUME NEW v, NEW m, NEW dates, NEW events, NEW before, NEW names
    PROVE  /\ Compare!Clicks(v, m, dates) = Archive!Clicks(v, m, dates)
           /\ Compare!Triggered(events, names) = Archive!Triggered(events, names)
           /\ Compare!LastDate(events, names) = Archive!LastDate(events, names)
           /\ Compare!Highlighted(events, before) = Archive!Highlighted(events, before)
           /\ Compare!Handled(m) = Archive!Handled(m)
           /\ Compare!Levels = Archive!Levels
<1> USE DEF Compare!Days, Archive!Days, Compare!Months, Archive!Months, Compare!Years, Archive!Years
<1>1. \A S : Compare!Max(S) = Archive!Max(S)
  BY DEF Compare!Max, Archive!Max
<1>2. Compare!Triggered(events, names) = Archive!Triggered(events, names)
  BY DEF Compare!Triggered, Archive!Triggered
<1>3. Compare!LastDate(events, names) = Archive!LastDate(events, names)
  BY <1>1, <1>2 DEF Compare!LastDate, Archive!LastDate
<1>4. Compare!Highlighted(events, before) = Archive!Highlighted(events, before)
  <2>1. Compare!Triggered(events, {"changeDate"}) = Archive!Triggered(events, {"changeDate"})
    BY DEF Compare!Triggered, Archive!Triggered
  <2>2. Compare!LastDate(events, {"changeDate"}) = Archive!LastDate(events, {"changeDate"})
    BY <1>1, <2>1 DEF Compare!LastDate, Archive!LastDate
  <2> QED
    BY <2>1, <2>2 DEF Compare!Highlighted, Archive!Highlighted
<1>5. Compare!Handled(m) = Archive!Handled(m) /\ Compare!Levels = Archive!Levels
  BY DEF Compare!Handled, Archive!Handled, Compare!Levels, Archive!Levels
<1>6. Compare!Clicks(v, m, dates) = Archive!Clicks(v, m, dates)
  BY DEF Compare!Clicks, Compare!SwitchClicks, Compare!ArrowClicks, Compare!CellClicks,
         Compare!DayClicks, Compare!Click, Compare!Event, Compare!LevelEvent,
         Archive!Clicks, Archive!SwitchClicks, Archive!ArrowClicks, Archive!CellClicks,
         Archive!DayClicks, Archive!Click, Archive!Event, Archive!LevelEvent
<1> QED
  BY <1>2, <1>3, <1>4, <1>5, <1>6

\* What is compared has both dates.
LEMMA ComparedIsComplete ==
    ASSUME CompareInv, Compared \in Compare!Comparisons
    PROVE  \A p \in Compare!Pickers : picked[p] # Nothing
<1>1. Compared.base = picked[1] /\ Compared.comparison = picked[2]
  BY DEF Compared, Compare!Comparison
<1>2. Compared.base \in Periods /\ Compared.comparison \in Periods
  BY DEF Compare!Comparisons
<1> QED
  BY <1>1, <1>2, BrowserAssumption DEF Compare!Pickers

\* The last request is for a comparison.
LEMMA LastIsAComparison ==
    ASSUME CompareInv, LastIs(inflight, Compared)
    PROVE  Compared \in Compare!Comparisons
<1> DEFINE R == [request : Compare!Comparisons, overtaken : BOOLEAN]
<1>1. inflight \in Seq(R) /\ inflight # <<>>
  BY DEF CompareInv, InFlight, LastIs
<1> HIDE DEF R
<1>2. inflight[Len(inflight)] \in R
  BY <1>1
<1> QED
  BY <1>2 DEF LastIs, R

\* A date is selected in one of the pickers.
LEMMA CompareSelect ==
    ASSUME CompareInv, NEW p \in Compare!Pickers, Compare!Select(p)
    PROVE  CompareInv'
<1> DEFINE S == Compare!Comparisons
<1>1. PICK c \in Archive!Clicks(view[p], mode, Periods) :
             /\ view' = [view EXCEPT ![p] = c.view]
             /\ picked' = [picked EXCEPT ![p] = Archive!Highlighted(c.events, @)]
             /\ IF Archive!Triggered(c.events, Archive!Handled(mode)) = {}
                THEN UNCHANGED <<selections, inflight, shown>>
                ELSE /\ selections' = [selections EXCEPT ![p] =
                                           Archive!LastDate(c.events, Archive!Handled(mode))]
                     /\ Compare!UpdateSummary
             /\ mode' = mode /\ outdated' = outdated
  <2>1. PICK c \in Compare!Clicks(view[p], mode, Periods) :
               /\ view' = [view EXCEPT ![p] = c.view]
               /\ picked' = [picked EXCEPT ![p] = Compare!Highlighted(c.events, @)]
               /\ IF Compare!Triggered(c.events, Compare!Handled(mode)) = {}
                  THEN UNCHANGED <<selections, inflight, shown>>
                  ELSE /\ selections' = [selections EXCEPT ![p] =
                                             Compare!LastDate(c.events, Compare!Handled(mode))]
                       /\ Compare!UpdateSummary
               /\ UNCHANGED <<mode, outdated>>
    BY DEF Compare!Select
  <2>2. c \in Archive!Clicks(view[p], mode, Periods) /\ Compare!Handled(mode) = Archive!Handled(mode)
    BY SamePicker
  <2>3. /\ Compare!Triggered(c.events, Archive!Handled(mode))
                = Archive!Triggered(c.events, Archive!Handled(mode))
        /\ Compare!LastDate(c.events, Archive!Handled(mode))
                = Archive!LastDate(c.events, Archive!Handled(mode))
        /\ Compare!Highlighted(c.events, picked[p]) = Archive!Highlighted(c.events, picked[p])
    BY SamePicker
  <2> QED
    BY <2>1, <2>2, <2>3
<1>2. SelectsWhatItHighlights(c, mode, Periods)
  BY ClickSelects, SamePicker DEF CompareInv
<1>3. /\ view' \in [Compare!Pickers -> Compare!Levels]
      /\ \A q \in Compare!Pickers : mode <= view'[q]
  <2>1. c.view \in Compare!Levels /\ mode <= c.view
    BY <1>2, SamePicker DEF SelectsWhatItHighlights
  <2> QED
    BY <1>1, <2>1 DEF CompareInv
<1>4. CASE Archive!Triggered(c.events, Archive!Handled(mode)) = {}
  <2>1. picked' = picked
    BY <1>1, <1>2, <1>4 DEF SelectsWhatItHighlights, CompareInv
  <2>2. Compared' = Compared
    BY <1>1, <2>1 DEF Compared, Compare!Comparison
  <2> QED
    BY <1>1, <1>3, <1>4, <2>1, <2>2 DEF CompareInv, LastIs, AllOvertaken
<1>5. CASE Archive!Triggered(c.events, Archive!Handled(mode)) # {}
  <2>1. PICK d \in Periods :
               /\ picked' = [picked EXCEPT ![p] = d]
               /\ selections' = [selections EXCEPT ![p] = d]
    BY <1>1, <1>2, <1>5 DEF SelectsWhatItHighlights
  <2>2. /\ selections' = picked'
        /\ picked' \in [Compare!Pickers -> Periods \union {Nothing}]
        /\ \A q \in Compare!Pickers : picked'[q] = IF q = p THEN d ELSE picked[q]
    BY <2>1 DEF CompareInv
  <2>3. Compare!UpdateSummary /\ mode' = mode /\ outdated' = outdated
    BY <1>1, <1>5
  <2>4. CASE \E q \in Compare!Pickers : selections'[q] = Nothing
    <3>1. UNCHANGED <<inflight, shown>>
      BY <2>3, <2>4 DEF Compare!UpdateSummary
    <3>2. \E q \in Compare!Pickers : picked[q] = Nothing
      BY <2>2, <2>4, BrowserAssumption
    <3>3. Compared \notin S
      BY <3>2, ComparedIsComplete
    <3>4. AllOvertaken(inflight) /\ (outdated \/ shown = Nothing)
      BY <3>3, LastIsAComparison DEF CompareInv
    <3> QED
      BY <1>3, <2>2, <2>3, <3>1, <3>4 DEF CompareInv, AllOvertaken
  <2>5. CASE ~\E q \in Compare!Pickers : selections'[q] = Nothing
    <3> DEFINE r == Compare!Comparison(mode, selections')
    <3>1. inflight' = Compare!Sent(inflight, r) /\ shown' = Nothing
      BY <2>3, <2>5 DEF Compare!UpdateSummary
    <3>2. r \in S
      <4>1. selections'[1] \in Periods /\ selections'[2] \in Periods
        BY <2>2, <2>5 DEF Compare!Pickers
      <4> QED
        BY <4>1 DEF Compare!Comparison, Compare!Comparisons, CompareInv
    <3>3. Compared' = r
      BY <2>2, <2>3 DEF Compared, Compare!Comparison
    <3> HIDE DEF r, S
    <3>4. inflight \in InFlight(S)
      BY DEF CompareInv, S
    <3>5. inflight' \in InFlight(S) /\ LastIs(inflight', r)
      BY <3>1, <3>2, <3>4, AfterSent
    <3>6. LastIs(inflight, Compared)'
      BY <3>3, <3>5 DEF LastIs
    <3> QED
      BY <1>3, <2>2, <2>3, <3>1, <3>5, <3>6 DEF CompareInv, S
  <2> QED
    BY <2>4, <2>5
<1> QED
  BY <1>4, <1>5

\* Every step of the compare page keeps its invariant.
LEMMA CompareStep ==
    ASSUME CompareInv, Compare!Next
    PROVE  CompareInv'
<1> DEFINE S == Compare!Comparisons
<1>0. inflight \in InFlight(S) /\ Len(inflight) \in Nat /\ DOMAIN inflight = 1..Len(inflight)
  BY DEF CompareInv, InFlight
<1>1. ASSUME NEW m \in Compare!Levels, Compare!ShowMode(m)
      PROVE  CompareInv'
  <2> DEFINE o == Compare!OvertakenUpTo(inflight, Len(inflight))
  <2>1. /\ mode' = m /\ view' = [p \in Compare!Pickers |-> m]
        /\ picked' = Compare!NoSelections /\ selections' = Compare!NoSelections
        /\ inflight' = o /\ outdated' = TRUE /\ shown' = shown
    BY <1>1 DEF Compare!ShowMode
  <2>2. m <= m
    BY DEF Compare!Levels, Compare!Days, Compare!Months, Compare!Years
  <2> HIDE DEF S
  <2>3. o \in InFlight(S) /\ AllOvertaken(o)
    <3>1. /\ o \in InFlight(S) /\ Len(o) = Len(inflight)
          /\ \A j \in 1..Len(inflight) : j <= Len(inflight) => o[j].overtaken
      BY <1>0, AfterOvertaking
    <3> HIDE DEF o
    <3>2. DOMAIN o = 1..Len(o)
      BY <3>1 DEF InFlight
    <3> QED
      BY <1>0, <3>1, <3>2 DEF AllOvertaken
  <2> HIDE DEF o
  <2>4. inflight' \in InFlight(S) /\ AllOvertaken(inflight)'
    BY <2>1, <2>3 DEF AllOvertaken
  <2> QED
    BY <1>1, <2>1, <2>2, <2>4 DEF CompareInv, Compare!NoSelections, S
<1>2. ASSUME NEW i \in DOMAIN inflight, Compare!Answer(i) \/ Compare!Fail(i)
      PROVE  CompareInv'
  <2> DEFINE c == Trends!Completed(inflight, i)
  <2>1. /\ c \in InFlight(S) /\ Compare!Completed(inflight, i) = c
        /\ AllOvertaken(inflight) => AllOvertaken(c)
        /\ LastIs(inflight, Compared) =>
               IF i = Len(inflight) THEN AllOvertaken(c) ELSE LastIs(c, Compared)
    <3> HIDE DEF S
    <3> QED
      BY <1>0, AfterCompleted
  <2>2. /\ inflight' = c /\ mode' = mode /\ view' = view
        /\ picked' = picked /\ selections' = selections
    BY <1>2, <2>1 DEF Compare!Answer, Compare!Fail
  <2>3. Compared' = Compared
    BY <2>2 DEF Compared, Compare!Comparison
  <2>4. inflight[i].request \in S /\ inflight[i].overtaken \in BOOLEAN
    <3> DEFINE R == [request : S, overtaken : BOOLEAN]
    <3>1. inflight \in Seq(R)
      BY <1>0 DEF InFlight
    <3>2. inflight[i] \in R
      <4> HIDE DEF R
      <4> QED
        BY <1>2, <3>1
    <3> HIDE DEF S
    <3> QED
      BY <3>2
  <2> HIDE DEF c
  <2>5. \/ outdated' = TRUE /\ shown' = shown
        \/ outdated' = inflight[i].overtaken /\ shown' = inflight[i].request
    BY <1>2 DEF Compare!Answer, Compare!Fail
  <2>6. shown' \in S \union {Nothing} /\ outdated' \in BOOLEAN
    BY <2>4, <2>5 DEF CompareInv
  <2>7. \/ LastIs(c, Compared)
        \/ AllOvertaken(c) /\ (outdated' \/ shown' = Compared)
    <3>1. CASE LastIs(inflight, Compared)
      <4>1. i = Len(inflight) => inflight[i].request = Compared
        BY <3>1 DEF LastIs
      <4> QED
        BY <2>1, <2>5, <3>1, <4>1
    <3>2. CASE AllOvertaken(inflight)
      <4>1. inflight[i].overtaken
        BY <1>2, <3>2 DEF AllOvertaken
      <4> QED
        BY <2>1, <2>5, <3>2, <4>1
    <3> QED
      BY <3>1, <3>2 DEF CompareInv
  <2>8. \/ LastIs(inflight, Compared)'
        \/ AllOvertaken(inflight)' /\ (outdated' \/ shown' = Compared')
    BY <2>2, <2>3, <2>7 DEF LastIs, AllOvertaken
  <2> QED
    BY <2>1, <2>2, <2>6, <2>8 DEF CompareInv
<1> QED
  BY <1>1, <1>2, CompareSelect DEF Compare!Next

\* Each step is one of the page, or leaves all of it alone.
LEMMA ComparePageStep ==
    ASSUME page = "compare" => CompareInv, [Next]_vars
    PROVE  (page = "compare" => CompareInv)'
<1>1. CASE OnCompare(Compare!Next)
  BY <1>1, CompareStep DEF OnCompare
<1>2. CASE page' = page /\ page # "compare"
  BY <1>2
<1>3. CASE UNCHANGED vars
  BY <1>3
     DEF vars, pickerVars, selectionVars, CompareInv, Compared, Compare!Comparison, LastIs,
         AllOvertaken
<1> QED
  BY <1>1, <1>2, <1>3 DEF Next, OnTrends, OnArchive, OnHeader, OnLive

\* With nothing in flight, the comparison is of the dates highlighted, unless
\* it was overtaken, failed or the level was switched (run Browser,
\* ComparisonIsOfSelections).
THEOREM ComparisonOfSelections == Spec => []ComparisonIsOfSelections
<1>1. Init => (page = "compare" => CompareInv)
  <2> SUFFICES ASSUME Init, page = "compare" PROVE CompareInv
    OBVIOUS
  <2>1. /\ mode = 1 /\ view = [p \in Compare!Pickers |-> 1] /\ Compare!Levels = {0, 1, 2}
        /\ picked = Compare!NoSelections /\ selections = Compare!NoSelections
        /\ inflight = <<>> /\ shown = Nothing /\ outdated = FALSE
    BY DEF Init, Compare!Init, Compare!Levels, Compare!Days, Compare!Months, Compare!Years
  <2>2. <<>> \in InFlight(Compare!Comparisons)
    BY DEF InFlight
  <2>3. AllOvertaken(inflight)
    BY <2>1 DEF AllOvertaken
  <2>4. /\ view \in [Compare!Pickers -> Compare!Levels]
        /\ \A p \in Compare!Pickers : mode <= view[p]
    BY <2>1
  <2> QED
    BY <2>1, <2>2, <2>3, <2>4 DEF CompareInv, Compare!NoSelections
<1>2. (page = "compare" => CompareInv) => ComparisonIsOfSelections
  BY DEF CompareInv, ComparisonIsOfSelections, Compare!ShowsSelections, Compared, LastIs
<1> QED
  BY <1>1, <1>2, ComparePageStep, PTL DEF Spec

-----------------------------------------------------------------------------
(***************************************************************************)
(* The live graphs: what is known of the rows s shown up to id d, and of   *)
(* an answer a for those behind it, whatever is inserted meanwhile.  A row *)
(* that is not late comes behind all that is shown: in the order of the    *)
(* ids, and so in that of the moments.                                     *)
(***************************************************************************)

UniqueMoments == \A i, j \in Live!Ids : rows[i] = rows[j] => i = j

ShownInv(d, s) ==
    /\ d \in 0..Len(rows) /\ s \in Seq(Live!Ids)
    /\ d = 0 => s = <<>>
    /\ \A id \in Live!Ids :
           id > d /\ Live!InRange(id) /\ ~Live!Late(id) => \A i \in DOMAIN s : s[i] < id
    /\ \A id \in Live!Ids : id =< d /\ Live!InRange(id) => \E i \in DOMAIN s : s[i] = id
    /\ \A i, j \in DOMAIN s :
           i < j /\ ~(rows[s[i]] < rows[s[j]]) => Live!Late(s[j])

AnswerInv(d, s, a) ==
    /\ a \in Seq(Live!Ids)
    /\ \A k \in DOMAIN a : a[k] > d
    /\ \A k, l \in DOMAIN a : k < l => rows[a[k]] < rows[a[l]]
    /\ \A k \in DOMAIN a, i \in DOMAIN s : ~Live!Late(a[k]) => s[i] < a[k]
    /\ a # <<>> =>
          /\ \A id \in Live!Ids :
                 id > a[Len(a)] /\ Live!InRange(id) /\ ~Live!Late(id) =>
                     \A k \in DOMAIN a : a[k] < id
          /\ \A id \in Live!Ids :
                 d < id /\ id =< a[Len(a)] /\ Live!InRange(id) => \E k \in DOMAIN a : a[k] = id

DbInv == now \in Nat /\ rows \in Seq(Nat) /\ UniqueMoments

\* The database inserts rows behind those it has, and time only narrows the range.
LEMMA DbStep ==
    ASSUME DbInv, Live!Tick \/ (\E t \in 1..LastTick : Live!Insert(t))
    PROVE  /\ DbInv'
           /\ Live!Ids = 1..Len(rows) /\ Live!Ids' = 1..Len(rows') /\ Len(rows) =< Len(rows')
           /\ Len(rows) \in Nat /\ Len(rows') \in Nat
           /\ \A id \in Live!Ids : /\ id \in Live!Ids' /\ rows'[id] = rows[id]
                                   /\ Live!InRange(id)' => Live!InRange(id)
                                   /\ Live!Late(id)' <=> Live!Late(id)
<1>1. now \in Nat /\ rows \in Seq(Nat) /\ Live!Ids = 1..Len(rows) /\ Len(rows) \in Nat
      /\ \A id \in Live!Ids : rows[id] \in Nat
  BY DEF DbInv, Live!Ids
<1>2. CASE Live!Tick
  <2>1. now' = now + 1 /\ rows' = rows
    BY <1>2 DEF Live!Tick
  <2>2. \A id \in Live!Ids : Live!InRange(id)' => Live!InRange(id)
    BY <1>1, <2>1, BrowserAssumption DEF Live!InRange
  <2>3. \A id \in Live!Ids : Live!Late(id)' <=> Live!Late(id)
    BY <2>1 DEF Live!Late, Live!Ids
  <2>4. Live!Ids' = Live!Ids /\ Len(rows') = Len(rows) /\ UniqueMoments'
    BY <2>1 DEF Live!Ids, DbInv, UniqueMoments
  <2> QED
    BY <1>1, <2>1, <2>2, <2>3, <2>4 DEF DbInv
<1>3. ASSUME NEW t \in 1..LastTick, Live!Insert(t)
      PROVE  /\ DbInv'
             /\ Live!Ids' = 1..Len(rows') /\ Len(rows') = Len(rows) + 1
             /\ \A id \in Live!Ids : /\ id \in Live!Ids' /\ rows'[id] = rows[id]
                                     /\ Live!InRange(id)' <=> Live!InRange(id)
                                     /\ Live!Late(id)' <=> Live!Late(id)
  <2>1. rows' = Append(rows, t) /\ now' = now /\ t \in Nat
    BY <1>3, BrowserAssumption DEF Live!Insert
  <2>2. \A id \in Live!Ids : rows[id] # t
    BY <1>1, <1>3, <2>1 DEF Live!Insert
  <2>3. /\ rows' \in Seq(Nat) /\ Len(rows') = Len(rows) + 1 /\ Live!Ids' = 1..(Len(rows) + 1)
        /\ rows'[Len(rows) + 1] = t
        /\ \A id \in 1..Len(rows) : rows'[id] = rows[id]
    BY <1>1, <2>1, AppendProperties DEF Live!Ids
  <2>4. UniqueMoments'
    <3>1. \A i \in 1..(Len(rows) + 1) : i \in 1..Len(rows) \/ i = Len(rows) + 1
      BY <1>1
    <3>2. \A i, j \in 1..(Len(rows) + 1) : rows'[i] = rows'[j] => i = j
      BY <1>1, <2>2, <2>3, <3>1 DEF DbInv, UniqueMoments
    <3> QED
      BY <2>3, <3>2 DEF UniqueMoments
  <2>5. ASSUME NEW id \in Live!Ids
        PROVE  /\ id \in Live!Ids' /\ rows'[id] = rows[id]
               /\ Live!InRange(id)' <=> Live!InRange(id)
               /\ Live!Late(id)' <=> Live!Late(id)
    <3>1. id \in Live!Ids' /\ rows'[id] = rows[id]
      BY <1>1, <2>3
    <3>2. Live!InRange(id)' <=> Live!InRange(id)
      BY <2>1, <3>1 DEF Live!InRange
    <3>3. \A other \in Live!Ids : other \in Live!Ids' /\ rows'[other] = rows[other]
      BY <1>1, <2>3
    <3>4. \A other \in Live!Ids' : other < id => other \in Live!Ids
      BY <1>1, <2>3
    <3>5. Live!Late(id)' <=> Live!Late(id)
      BY <3>1, <3>3, <3>4 DEF Live!Late
    <3> QED
      BY <3>1, <3>2, <3>5
  <2> QED
    BY <1>1, <2>1, <2>3, <2>4, <2>5 DEF DbInv
<1> QED
  BY <1>1, <1>2, <1>3

\* So what is shown, and what is answered, stays as it was.
LEMMA KnownStaysSo ==
    ASSUME DbInv, Live!Tick \/ (\E t \in 1..LastTick : Live!Insert(t)), NEW d, NEW s, ShownInv(d, s)
    PROVE  /\ ShownInv(d, s)'
           /\ \A a : AnswerInv(d, s, a) => AnswerInv(d, s, a)'
<1>1. /\ Live!Ids = 1..Len(rows) /\ Live!Ids' = 1..Len(rows') /\ Len(rows) =< Len(rows')
      /\ Len(rows) \in Nat /\ Len(rows') \in Nat
      /\ \A id \in Live!Ids : /\ id \in Live!Ids' /\ rows'[id] = rows[id]
                              /\ Live!InRange(id)' => Live!InRange(id)
                              /\ Live!Late(id)' <=> Live!Late(id)
  BY DbStep
<1>2. \A id \in Live!Ids' : id \in Live!Ids \/ id > Len(rows)
  BY <1>1
<1>3. \A q : q \in Seq(Live!Ids) =>
          /\ q \in Seq(Live!Ids')
          /\ \A i \in DOMAIN q : q[i] \in Live!Ids /\ q[i] \in Nat /\ q[i] =< Len(rows)
  <2> SUFFICES ASSUME NEW q \in Seq(Live!Ids)
               PROVE  /\ q \in Seq(Live!Ids')
                      /\ \A i \in DOMAIN q : q[i] \in Live!Ids
    BY <1>1
  <2>1. \A i \in DOMAIN q : q[i] \in Live!Ids
    OBVIOUS
  <2>2. q \in Seq(Live!Ids')
    BY <1>1, <2>1
  <2> QED
    BY <2>1, <2>2
<1>4. ShownInv(d, s)'
  <2>1. d \in 0..Len(rows') /\ s \in Seq(Live!Ids') /\ (d = 0 => s = <<>>)
    BY <1>1, <1>3 DEF ShownInv
  <2>2. ASSUME NEW id \in Live!Ids', id > d, Live!InRange(id)', ~Live!Late(id)', NEW i \in DOMAIN s
        PROVE  s[i] < id
    BY <1>1, <1>2, <1>3, <2>2 DEF ShownInv
  <2>3. ASSUME NEW id \in Live!Ids', id =< d, Live!InRange(id)'
        PROVE  \E i \in DOMAIN s : s[i] = id
    BY <1>1, <1>2, <2>3 DEF ShownInv
  <2>4. ASSUME NEW i \in DOMAIN s, NEW j \in DOMAIN s, i < j, ~(rows'[s[i]] < rows'[s[j]])
        PROVE  Live!Late(s[j])'
    BY <1>1, <1>3, <2>4 DEF ShownInv
  <2> QED
    BY <2>1, <2>2, <2>3, <2>4 DEF ShownInv
<1>5. ASSUME NEW a, AnswerInv(d, s, a)
      PROVE  AnswerInv(d, s, a)'
  <2>1. /\ a \in Seq(Live!Ids') /\ \A k \in DOMAIN a : a[k] > d
        /\ \A k \in DOMAIN a : a[k] \in Live!Ids /\ a[k] \in Nat /\ a[k] =< Len(rows)
    BY <1>3, <1>5 DEF AnswerInv
  <2>2. ASSUME NEW k \in DOMAIN a, NEW l \in DOMAIN a, k < l
        PROVE  rows'[a[k]] < rows'[a[l]]
    BY <1>1, <1>5, <2>1, <2>2 DEF AnswerInv
  <2>3. ASSUME NEW k \in DOMAIN a, NEW i \in DOMAIN s, ~Live!Late(a[k])'
        PROVE  s[i] < a[k]
    BY <1>1, <1>5, <2>1, <2>3 DEF AnswerInv
  <2>4. ASSUME a # <<>>
        PROVE  Len(a) \in DOMAIN a
    BY <1>5, <2>4 DEF AnswerInv
  <2>5. ASSUME a # <<>>, NEW id \in Live!Ids', id > a[Len(a)], Live!InRange(id)', ~Live!Late(id)',
               NEW k \in DOMAIN a
        PROVE  a[k] < id
    BY <1>1, <1>2, <1>5, <2>1, <2>5 DEF AnswerInv
  <2>6. ASSUME a # <<>>, NEW id \in Live!Ids', d < id, id =< a[Len(a)], Live!InRange(id)'
        PROVE  \E k \in DOMAIN a : a[k] = id
    <3>1. a[Len(a)] \in Nat /\ a[Len(a)] =< Len(rows) /\ id \in Nat
      BY <1>1, <2>1, <2>4, <2>6
    <3>2. id \in Live!Ids
      BY <1>1, <1>2, <2>6, <3>1
    <3> QED
      BY <1>1, <1>5, <2>6, <3>2 DEF AnswerInv
  <2> QED
    BY <2>1, <2>2, <2>3, <2>5, <2>6 DEF AnswerInv
<1> QED
  BY <1>4, <1>5

\* The rows in order are all of the rows.
LEMMA OrderedRows ==
    ASSUME DbInv, NEW S \in SUBSET Live!Ids, NEW a \in Live!InOrder(S)
    PROVE  /\ a \in Seq(Live!Ids)
           /\ \A k \in DOMAIN a : a[k] \in S
           /\ \A k, l \in DOMAIN a : k < l => rows[a[k]] < rows[a[l]]
           /\ \A id \in S : \E k \in DOMAIN a : a[k] = id
<1> DEFINE n == Cardinality(S)
<1>1. IsFiniteSet(S)
  <2>1. Live!Ids = 1..Len(rows) /\ Len(rows) \in Nat
    BY DEF DbInv, Live!Ids
  <2>2. IsFiniteSet(Live!Ids)
    BY <2>1, FS_Interval
  <2> QED
    BY <2>2, FS_Subset
<1>2. n \in Nat
  BY <1>1, FS_CardinalityType
<1>3. /\ a \in [1..n -> S]
      /\ \A k, l \in 1..n : k < l => rows[a[k]] < rows[a[l]]
  <2>1. Live!Cardinality(S) = n
    BY DEF Live!Cardinality, Cardinality
  <2>2. a \in {q \in [1..n -> S] : \A i, j \in 1..n : i < j => rows[q[i]] < rows[q[j]]}
    BY <2>1 DEF Live!InOrder
  <2> HIDE DEF n
  <2> QED
    BY <2>2
<1>4. \A id \in Live!Ids : rows[id] \in Nat
  BY DEF DbInv, Live!Ids
<1> HIDE DEF n
<1>5. a \in Injection(1..n, S)
  <2> SUFFICES ASSUME NEW k \in 1..n, NEW l \in 1..n, a[k] = a[l], k # l
               PROVE  FALSE
    BY <1>3 DEF Injection, IsInjective
  <2>1. rows[a[k]] \in Nat /\ rows[a[l]] = rows[a[k]]
    BY <1>3, <1>4
  <2>2. k < l \/ l < k
    BY <1>2
  <2> QED
    BY <1>3, <2>1, <2>2
<1>6. a \in Surjection(1..n, S)
  <2>1. Cardinality(1..n) = n
    BY <1>2, FS_Interval
  <2>2. Cardinality(1..n) = Cardinality(S)
    BY <2>1 DEF n
  <2> QED
    BY <1>1, <1>5, <2>2, FS_Injection
<1>7. DOMAIN a = 1..n /\ a \in Seq(Live!Ids)
  BY <1>2, <1>3
<1>8. \A id \in S : \E k \in 1..n : a[k] = id
  BY <1>6 DEF Surjection
<1> QED
  BY <1>3, <1>7, <1>8

\* An answer has all rows behind those shown.
LEMMA ServedAnswer ==
    ASSUME DbInv, NEW d, NEW s, ShownInv(d, s), NEW a \in Live!InOrder(Live!Selected(d))
    PROVE  AnswerInv(d, s, a)
<1> DEFINE S == Live!Selected(d)
<1>1. /\ S \subseteq Live!Ids /\ d \in Nat /\ Live!Ids \subseteq Nat \ {0}
      /\ \A id \in Live!Ids : id \in S <=> Live!InRange(id) /\ id > d
  BY DEF Live!Selected, ShownInv, DbInv, Live!Ids
<1> HIDE DEF S
<1>2. a \in Live!InOrder(S)
  BY DEF S
<1>3. /\ a \in Seq(Live!Ids)
      /\ \A k \in DOMAIN a : a[k] \in S
      /\ \A k, l \in DOMAIN a : k < l => rows[a[k]] < rows[a[l]]
      /\ \A id \in S : \E k \in DOMAIN a : a[k] = id
  BY <1>1, <1>2, OrderedRows
<1>4. \A k \in DOMAIN a : a[k] \in Live!Ids /\ Live!InRange(a[k]) /\ a[k] > d
  BY <1>1, <1>3
<1>5. \A k \in DOMAIN a, i \in DOMAIN s : ~Live!Late(a[k]) => s[i] < a[k]
  BY <1>4 DEF ShownInv
<1>6. ASSUME a # <<>>
      PROVE  Len(a) \in DOMAIN a /\ \A k \in DOMAIN a : k = Len(a) \/ k < Len(a)
  BY <1>3, <1>6
<1>7. ASSUME a # <<>>, NEW id \in Live!Ids, id > a[Len(a)], Live!InRange(id), ~Live!Late(id)
      PROVE  FALSE
  <2>1. a[Len(a)] \in Live!Ids /\ a[Len(a)] > d
    BY <1>4, <1>6, <1>7
  <2>2. id > d
    <3>1. id \in Nat /\ a[Len(a)] \in Nat
      BY <1>1, <2>1
    <3> QED
      BY <1>1, <1>7, <2>1, <3>1
  <2>3. PICK k \in DOMAIN a : a[k] = id
    BY <1>1, <1>3, <1>7, <2>2
  <2>4. k < Len(a)
    BY <1>1, <1>6, <1>7, <2>1, <2>3
  <2>5. rows[id] < rows[a[Len(a)]]
    BY <1>3, <1>6, <1>7, <2>3, <2>4
  <2>6. rows[id] \in Nat /\ rows[a[Len(a)]] \in Nat
    BY <2>1 DEF DbInv, Live!Ids
  <2>7. Live!Late(id)
    BY <1>1, <1>7, <2>1, <2>5, <2>6 DEF Live!Late
  <2> QED
    BY <1>7, <2>7
<1>8. ASSUME NEW id \in Live!Ids, d < id, Live!InRange(id)
      PROVE  \E k \in DOMAIN a : a[k] = id
  BY <1>1, <1>3, <1>8
<1> QED
  BY <1>3, <1>4, <1>5, <1>7, <1>8 DEF AnswerInv

\* With the answer behind it, what is shown is known up to its last row.
LEMMA ShownWithAnswer ==
    ASSUME DbInv, NEW d, NEW s, ShownInv(d, s), NEW a, AnswerInv(d, s, a), a # <<>>
    PROVE  ShownInv(a[Len(a)], s \o a)
<1> DEFINE e == a[Len(a)]
           t == s \o a
           m == Len(s)
           n == Len(a)
<1>1. /\ s \in Seq(Live!Ids) /\ a \in Seq(Live!Ids)
      /\ m \in Nat /\ n \in Nat \ {0} /\ DOMAIN s = 1..m /\ DOMAIN a = 1..n
      /\ Live!Ids = 1..Len(rows) /\ Len(rows) \in Nat /\ d \in Nat
  BY DEF ShownInv, AnswerInv, DbInv, Live!Ids
<1>2. /\ \A i \in 1..m : s[i] \in Live!Ids
      /\ \A k \in 1..n : a[k] \in Live!Ids
  BY <1>1
<1>3. /\ t \in Seq(Live!Ids) /\ Len(t) = m + n
      /\ \A i \in 1..(m + n) : t[i] = IF i <= m THEN s[i] ELSE a[i - m]
  BY <1>1, ConcatProperties
<1>4. e \in Live!Ids /\ e > d /\ e \in 1..Len(rows)
  BY <1>1, <1>2 DEF AnswerInv
<1> HIDE DEF t, e, m, n
<1>5. DOMAIN t = 1..(m + n)
  BY <1>3
<1>6. \A i \in 1..(m + n) : \/ i \in 1..m /\ t[i] = s[i]
                            \/ i > m /\ i - m \in 1..n /\ t[i] = a[i - m]
  BY <1>1, <1>3
<1>7. /\ \A i \in 1..m : i \in 1..(m + n) /\ t[i] = s[i]
      /\ \A k \in 1..n : m + k \in 1..(m + n) /\ t[m + k] = a[k]
  <2>1. \A i \in 1..m : i \in 1..(m + n) /\ t[i] = s[i]
    BY <1>1, <1>3
  <2>2. ASSUME NEW k \in 1..n
        PROVE  m + k \in 1..(m + n) /\ t[m + k] = a[k]
    <3>1. m + k \in 1..(m + n) /\ ~(m + k <= m) /\ (m + k) - m = k
      BY <1>1
    <3> QED
      BY <1>3, <3>1
  <2> QED
    BY <2>1, <2>2
<1>8. ASSUME NEW id \in Live!Ids, id > e, Live!InRange(id), ~Live!Late(id), NEW i \in 1..(m + n)
      PROVE  t[i] < id
  <2>1. id > d
    BY <1>1, <1>4, <1>8
  <2>2. /\ \A k \in 1..m : s[k] < id
        /\ \A k \in 1..n : a[k] < id
    BY <1>1, <1>8, <2>1 DEF ShownInv, AnswerInv, e
  <2> QED
    BY <1>6, <2>2
<1>9. ASSUME NEW id \in Live!Ids, id =< e, Live!InRange(id)
      PROVE  \E i \in 1..(m + n) : t[i] = id
  <2>1. CASE id =< d
    <3>1. \E i \in 1..m : s[i] = id
      BY <1>1, <1>9, <2>1 DEF ShownInv
    <3> QED
      BY <1>7, <3>1
  <2>2. CASE d < id
    <3>1. \E k \in 1..n : a[k] = id
      BY <1>1, <1>9, <2>2 DEF AnswerInv, e
    <3> QED
      BY <1>7, <3>1
  <2> QED
    BY <1>1, <2>1, <2>2
<1>10. ASSUME NEW i \in 1..(m + n), NEW j \in 1..(m + n), i < j, ~(rows[t[i]] < rows[t[j]])
       PROVE  Live!Late(t[j])
  <2>1. CASE j \in 1..m /\ t[j] = s[j]
    <3>1. i \in 1..m /\ t[i] = s[i]
      BY <1>1, <1>6, <1>10, <2>1
    <3> QED
      BY <1>1, <1>10, <2>1, <3>1 DEF ShownInv
  <2>2. CASE /\ j > m /\ j - m \in 1..n /\ t[j] = a[j - m]
             /\ i > m /\ i - m \in 1..n /\ t[i] = a[i - m]
    <3>1. i - m < j - m
      BY <1>1, <1>10
    <3>2. rows[a[i - m]] < rows[a[j - m]]
      BY <1>1, <2>2, <3>1 DEF AnswerInv
    <3> QED
      BY <1>10, <2>2, <3>2
  <2>3. CASE /\ j > m /\ j - m \in 1..n /\ t[j] = a[j - m]
             /\ i \in 1..m /\ t[i] = s[i]
    <3> SUFFICES ASSUME ~Live!Late(t[j]) PROVE FALSE
      OBVIOUS
    <3>1. s[i] < a[j - m] /\ s[i] \in Live!Ids /\ a[j - m] \in Live!Ids
      BY <1>1, <1>2, <2>3 DEF AnswerInv
    <3>2. ~(rows[s[i]] > rows[a[j - m]])
      BY <2>3, <3>1 DEF Live!Late
    <3>3. rows[s[i]] \in Nat /\ rows[a[j - m]] \in Nat
      BY <3>1 DEF DbInv, Live!Ids
    <3>4. rows[s[i]] # rows[a[j - m]]
      <4>1. s[i] # a[j - m]
        BY <1>1, <3>1
      <4> QED
        BY <3>1, <4>1 DEF DbInv, UniqueMoments
    <3> QED
      BY <1>10, <2>3, <3>2, <3>3, <3>4
  <2> QED
    BY <1>6, <2>1, <2>2, <2>3
<1>11. ShownInv(e, t)
  <2>1. e \in 0..Len(rows) /\ e # 0
    BY <1>1, <1>4
  <2> QED
    BY <1>3, <1>5, <1>8, <1>9, <1>10, <2>1 DEF ShownInv
<1> QED
  BY <1>11 DEF e, t

\* One request is in flight at a time: it is for the rows behind those shown.
RequestInv ==
    /\ loaded \in BOOLEAN /\ pending \in BOOLEAN
    /\ ~loaded => delta = 0 /\ ~pending
    /\ inflight \in Seq(Live!Request)
    /\ Len(inflight) =< 1
    /\ inflight # <<>> /\ loaded => pending
    /\ \A i \in DOMAIN inflight :
           /\ inflight[i].delta = delta
           /\ inflight[i].served => AnswerInv(delta, shown, inflight[i].answer)

LiveInv == DbInv /\ ShownInv(delta, shown) /\ RequestInv

\* A sequence of one element.
LEMMA SingleElement ==
    ASSUME NEW R, NEW r \in R
    PROVE  <<r>> \in Seq(R) /\ Len(<<r>>) = 1 /\ DOMAIN <<r>> = {1} /\ <<r>>[1] = r
OBVIOUS

\* A sequence with one of its elements replaced.
LEMMA OneReplaced ==
    ASSUME NEW R, NEW q \in Seq(R), NEW i \in DOMAIN q, NEW r \in R
    PROVE  LET p == [q EXCEPT ![i] = r]
           IN  /\ p \in Seq(R) /\ Len(p) = Len(q) /\ DOMAIN p = DOMAIN q
               /\ \A j \in DOMAIN q : p[j] = IF j = i THEN r ELSE q[j]
OBVIOUS

\* A sequence over a part of a set.
LEMMA SequenceOver ==
    ASSUME NEW R, NEW S, R \subseteq S, NEW q \in Seq(R)
    PROVE  q \in Seq(S)
<1>1. \A j \in 1..Len(q) : q[j] \in S
  OBVIOUS
<1> QED
  BY <1>1

\* A request that was just sent.
LEMMA JustAsked ==
    ASSUME NEW d \in Nat, NEW q, q = <<Live!Asked(d)>>
    PROVE  /\ q \in Seq(Live!Request)
           /\ Len(q) =< 1
           /\ \A i \in DOMAIN q : q[i].delta = d /\ ~q[i].served
<1> DEFINE r == Live!Asked(d)
<1>1. r \in Live!Request /\ r.delta = d /\ ~r.served
  <2>1. <<>> \in Seq(Nat)
    OBVIOUS
  <2> QED
    BY <2>1 DEF Live!Asked, Live!Request
<1>2. q = <<r>>
  OBVIOUS
<1> HIDE DEF r
<1>3. <<r>> \in Seq(Live!Request) /\ Len(<<r>>) = 1 /\ DOMAIN <<r>> = {1} /\ <<r>>[1] = r
  BY <1>1, SingleElement
<1> QED
  BY <1>1, <1>2, <1>3

\* With nothing shown, nothing is known.
LEMMA NothingShown ==
    ASSUME DbInv
    PROVE  ShownInv(0, <<>>)
<1>1. /\ Len(rows) \in Nat /\ Live!Ids = 1..Len(rows)
      /\ <<>> \in Seq(Live!Ids) /\ DOMAIN <<>> = {}
  BY DEF DbInv, Live!Ids
<1> QED
  BY <1>1 DEF ShownInv

\* A request is served: what it is answered is known.
LEMMA LiveServe ==
    ASSUME LiveInv, NEW i \in DOMAIN inflight, Live!Serve(i)
    PROVE  LiveInv'
<1> DEFINE R == Live!Request
<1>1. PICK a \in Live!InOrder(Live!Selected(inflight[i].delta)) :
             inflight' = [inflight EXCEPT ![i].served = TRUE, ![i].answer = a]
  BY DEF Live!Serve
<1>2. UNCHANGED <<now, rows, loaded, pending, delta, shown>>
  BY DEF Live!Serve, Live!dbVars
<1>3. inflight[i].delta = delta
  BY DEF LiveInv, RequestInv
<1>4. AnswerInv(delta, shown, a)
  BY <1>1, <1>3, ServedAnswer DEF LiveInv
<1>5. a \in Seq(Nat)
  <2>1. a \in Seq(Live!Ids) /\ Live!Ids \subseteq Nat
    BY <1>4 DEF AnswerInv, Live!Ids, LiveInv, DbInv
  <2> QED
    BY <2>1, SequenceOver
<1>6. inflight \in Seq(R) /\ Len(inflight) =< 1
  BY DEF LiveInv, RequestInv
<1>7. i = 1 /\ Len(inflight) = 1 /\ DOMAIN inflight = {1}
  <2> HIDE DEF R
  <2>1. DOMAIN inflight = 1..Len(inflight) /\ Len(inflight) \in Nat
    BY <1>6
  <2> QED
    BY <1>6, <2>1
<1>8. inflight[1] \in R
  <2> HIDE DEF R
  <2> QED
    BY <1>6, <1>7
<1> DEFINE r == [inflight[1] EXCEPT !.served = TRUE, !.answer = a]
<1>9. r \in R /\ r.delta = delta /\ r.served /\ r.answer = a
  BY <1>3, <1>5, <1>7, <1>8 DEF Live!Request
<1>10. inflight' = [inflight EXCEPT ![1] = r]
  BY <1>1, <1>7
<1> HIDE DEF R, r
<1>11. inflight' \in Seq(R) /\ Len(inflight') = 1 /\ DOMAIN inflight' = {1} /\ inflight'[1] = r
  <2>1. r \in R /\ inflight \in Seq(R) /\ 1 \in DOMAIN inflight
    BY <1>6, <1>7, <1>9
  <2> QED
    BY <1>7, <1>10, <2>1, OneReplaced
<1>12. /\ AnswerInv(delta, shown, a)' /\ ShownInv(delta, shown)' /\ DbInv'
  <2>1. AnswerInv(delta, shown, a)'
    BY <1>2, <1>4 DEF AnswerInv, Live!Ids, Live!InRange, Live!Late
  <2>2. ShownInv(delta, shown)'
    BY <1>2 DEF LiveInv, ShownInv, Live!Ids, Live!InRange, Live!Late
  <2>3. DbInv'
    BY <1>2 DEF LiveInv, DbInv, UniqueMoments, Live!Ids
  <2> QED
    BY <2>1, <2>2, <2>3
<1>13. RequestInv'
  BY <1>2, <1>9, <1>11, <1>12 DEF RequestInv, LiveInv, R
<1> QED
  BY <1>12, <1>13 DEF LiveInv

\* An answer arrives.
LEMMA LiveAnswered ==
    ASSUME LiveInv, NEW i \in DOMAIN inflight, Live!Start(i) \/ Live!Update(i) \/ Live!Lose(i)
    PROVE  LiveInv'
<1> DEFINE R == Live!Request
           a == inflight[i].answer
<1>1. UNCHANGED <<now, rows>> /\ pending' = FALSE /\ loaded' \in BOOLEAN /\ (loaded => loaded')
  BY DEF Live!Start, Live!Update, Live!Lose, Live!Forget, Live!dbVars, LiveInv, RequestInv
<1>2. inflight' = <<>>
  <2>1. inflight' = Without(inflight, i)
    BY DEF Live!Start, Live!Update, Live!Lose, Live!Forget, Live!RemoveAt, Without
  <2>2. inflight \in Seq(R) /\ Len(inflight) =< 1
    BY DEF LiveInv, RequestInv
  <2> HIDE DEF R
  <2> QED
    BY <2>1, <2>2, OnlyElement
<1>3. DbInv'
  BY <1>1 DEF LiveInv, DbInv, UniqueMoments, Live!Ids
<1>4. \A d, s : ShownInv(d, s) => ShownInv(d, s)'
  BY <1>1 DEF ShownInv, Live!Ids, Live!InRange, Live!Late
<1>5. ShownInv(delta', shown') /\ (~loaded' => delta' = 0)
  <2>1. CASE UNCHANGED <<delta, shown>> /\ (~loaded' => ~loaded)
    BY <2>1 DEF LiveInv, RequestInv
  <2>2. CASE loaded' /\ inflight[i].served /\ a # <<>> /\ delta' = a[Len(a)] /\ shown' = shown \o a
    <3>1. AnswerInv(delta, shown, a)
      BY <2>2 DEF LiveInv, RequestInv
    <3> QED
      BY <2>2, <3>1, ShownWithAnswer DEF LiveInv
  <2>3. CASE Live!Start(i)
    <3>1. delta = 0 /\ shown = <<>>
      BY <2>3 DEF Live!Start, LiveInv, RequestInv, ShownInv
    <3>2. inflight[i].served /\ loaded' /\ shown' = a /\ delta' = Live!LatestId(a)
      BY <2>3 DEF Live!Start
    <3>3. CASE a = <<>>
      BY <2>1, <3>1, <3>2, <3>3 DEF Live!LatestId
    <3>4. CASE a # <<>>
      <4>1. a \in Seq(Live!Ids)
        BY <3>2 DEF LiveInv, RequestInv, AnswerInv
      <4> HIDE DEF a
      <4>2. shown' = shown \o a
        BY <3>1, <3>2, <4>1, ConcatEmptySeq
      <4>3. delta' = a[Len(a)]
        BY <3>2, <3>4 DEF Live!LatestId, Live!Last
      <4> QED
        BY <2>2, <3>2, <3>4, <4>2, <4>3
    <3> QED
      BY <3>3, <3>4
  <2>4. CASE Live!Update(i)
    <3>1. inflight[i].served /\ loaded /\ loaded' = loaded
      BY <2>4 DEF Live!Update
    <3>2. CASE a = <<>>
      BY <2>1, <2>4, <3>1, <3>2 DEF Live!Update
    <3>3. CASE a # <<>>
      <4>1. delta' = Live!LatestId(a) /\ shown' = shown \o a
        BY <2>4, <3>3 DEF Live!Update
      <4>2. delta' = a[Len(a)]
        BY <3>3, <4>1 DEF Live!LatestId, Live!Last
      <4> QED
        BY <2>2, <3>1, <3>3, <4>1, <4>2
    <3> QED
      BY <3>2, <3>3
  <2>5. CASE Live!Lose(i)
    BY <2>1, <2>5 DEF Live!Lose
  <2> QED
    BY <2>3, <2>4, <2>5
<1>6. ShownInv(delta, shown)'
  BY <1>1, <1>5 DEF ShownInv, Live!Ids, Live!InRange, Live!Late
<1>7. RequestInv'
  <2>1. inflight' \in Seq(R) /\ Len(inflight') =< 1 /\ DOMAIN inflight' = {}
    BY <1>2
  <2> QED
    BY <1>1, <1>2, <1>5, <2>1 DEF RequestInv
<1> QED
  BY <1>3, <1>6, <1>7 DEF LiveInv

\* Every step of a live graph, and of its database, keeps their invariant.
LEMMA LiveStep ==
    ASSUME LiveInv, Live!Next
    PROVE  LiveInv'
<1>1. CASE Live!Tick \/ (\E t \in 1..LastTick : Live!Insert(t))
  <2>1. UNCHANGED <<loaded, inflight, pending, delta, shown>>
    BY <1>1 DEF Live!Tick, Live!Insert, Live!pageVars
  <2>2. DbInv'
    BY <1>1, DbStep DEF LiveInv
  <2>3. PICK d, s : d = delta /\ s = shown
    OBVIOUS
  <2>4. /\ ShownInv(d, s)'
        /\ \A a : AnswerInv(d, s, a) => AnswerInv(d, s, a)'
    BY <1>1, <2>3, KnownStaysSo DEF LiveInv
  <2>5. ShownInv(delta, shown)'
    BY <2>1, <2>3, <2>4 DEF ShownInv, Live!Ids, Live!InRange, Live!Late
  <2>6. \A a : AnswerInv(delta, shown, a) => AnswerInv(delta, shown, a)'
    BY <2>1, <2>3, <2>4 DEF AnswerInv, Live!Ids, Live!InRange, Live!Late
  <2>7. RequestInv'
    BY <2>1, <2>6 DEF LiveInv, RequestInv
  <2> QED
    BY <2>2, <2>5, <2>7 DEF LiveInv
<1>2. ASSUME NEW i \in DOMAIN inflight,
             Live!Serve(i) \/ Live!Start(i) \/ Live!Update(i) \/ Live!Lose(i)
      PROVE  LiveInv'
  BY <1>2, LiveServe, LiveAnswered
<1>3. CASE Live!Poll
  <2>1. inflight = <<>> /\ delta \in Nat
    BY <1>3 DEF Live!Poll, LiveInv, RequestInv, ShownInv, DbInv
  <2>2. /\ loaded /\ UNCHANGED <<now, rows, loaded, delta, shown>> /\ pending' = TRUE
        /\ inflight' = <<Live!Asked(delta)>>
    <3>1. Append(<<>>, Live!Asked(delta)) = <<Live!Asked(delta)>>
      OBVIOUS
    <3> QED
      BY <1>3, <2>1, <3>1 DEF Live!Poll, Live!dbVars
  <2>3. DbInv' /\ ShownInv(delta, shown)'
    BY <2>2 DEF LiveInv, DbInv, UniqueMoments, ShownInv, Live!Ids, Live!InRange, Live!Late
  <2>4. /\ inflight' \in Seq(Live!Request)
        /\ Len(inflight') =< 1
        /\ \A i \in DOMAIN inflight' : inflight'[i].delta = delta /\ ~inflight'[i].served
    <3>1. PICK q : q = inflight'
      OBVIOUS
    <3>2. q = <<Live!Asked(delta)>>
      BY <2>2, <3>1
    <3>3. /\ q \in Seq(Live!Request)
          /\ Len(q) =< 1
          /\ \A i \in DOMAIN q : q[i].delta = delta /\ ~q[i].served
      BY <2>1, <3>2, JustAsked
    <3> QED
      BY <3>1, <3>3
  <2> QED
    BY <2>2, <2>3, <2>4 DEF LiveInv, RequestInv
<1>4. CASE Live!Reload
  <2>1. /\ UNCHANGED <<now, rows>>
        /\ loaded' = FALSE /\ inflight' = <<Live!Asked(0)>>
        /\ pending' = FALSE /\ delta' = 0 /\ shown' = <<>>
    BY <1>4 DEF Live!Reload, Live!Load, Live!dbVars
  <2>2. ShownInv(0, <<>>)
    BY NothingShown DEF LiveInv
  <2>3. DbInv' /\ ShownInv(delta, shown)'
    BY <2>1, <2>2 DEF LiveInv, DbInv, UniqueMoments, ShownInv, Live!Ids, Live!InRange, Live!Late
  <2>4. /\ inflight' \in Seq(Live!Request)
        /\ Len(inflight') =< 1
        /\ \A i \in DOMAIN inflight' : inflight'[i].delta = 0 /\ ~inflight'[i].served
    <3>1. PICK q : q = inflight'
      OBVIOUS
    <3>2. q = <<Live!Asked(0)>>
      BY <2>1, <3>1
    <3>3. /\ q \in Seq(Live!Request)
          /\ Len(q) =< 1
          /\ \A i \in DOMAIN q : q[i].delta = 0 /\ ~q[i].served
      BY <3>2, JustAsked
    <3> QED
      BY <3>1, <3>3
  <2> QED
    BY <2>1, <2>3, <2>4 DEF LiveInv, RequestInv
<1> QED
  BY <1>1, <1>2, <1>3, <1>4 DEF Live!Next

\* Each step is one of the page, or leaves all of it alone.
LEMMA LivePageStep ==
    ASSUME page = "live" => LiveInv, [Next]_vars
    PROVE  (page = "live" => LiveInv)'
<1>1. CASE OnLive(Live!Next)
  BY <1>1, LiveStep DEF OnLive
<1>2. CASE page' = page /\ page # "live"
  BY <1>2
<1>3. CASE UNCHANGED vars
  <2>1. UNCHANGED <<page, now, rows, loaded, inflight, pending, delta, shown>>
    BY <1>3 DEF vars, liveVars
  <2>2. DbInv' <=> DbInv
    BY <2>1 DEF DbInv, UniqueMoments, Live!Ids
  <2>3. ShownInv(delta, shown)' <=> ShownInv(delta, shown)
    BY <2>1 DEF ShownInv, Live!Ids, Live!InRange, Live!Late
  <2>4. \A a : AnswerInv(delta, shown, a)' <=> AnswerInv(delta, shown, a)
    BY <2>1 DEF AnswerInv, Live!Ids, Live!InRange, Live!Late
  <2>5. RequestInv' <=> RequestInv
    BY <2>1, <2>4 DEF RequestInv
  <2> QED
    BY <2>1, <2>2, <2>3, <2>5 DEF LiveInv
<1> QED
  BY <1>1, <1>2, <1>3 DEF Next, OnTrends, OnArchive, OnHeader, OnCompare

\* The invariant holds in every reachable state.
LEMMA LiveAlways == Spec => [](page = "live" => LiveInv)
<1>1. Init => (page = "live" => LiveInv)
  <2> SUFFICES ASSUME Init, page = "live" PROVE LiveInv
    OBVIOUS
  <2>1. /\ now = 1 /\ rows = <<>> /\ loaded = FALSE /\ inflight = <<Live!Asked(0)>>
        /\ pending = FALSE /\ delta = 0 /\ shown = <<>>
    BY DEF Init, Live!Init
  <2>2. DbInv
    BY <2>1 DEF DbInv, UniqueMoments, Live!Ids
  <2>3. ShownInv(delta, shown)
    BY <2>1, <2>2, NothingShown
  <2>4. RequestInv
    <3>1. /\ inflight \in Seq(Live!Request)
          /\ Len(inflight) =< 1
          /\ \A i \in DOMAIN inflight : inflight[i].delta = 0 /\ ~inflight[i].served
      BY <2>1, JustAsked
    <3> QED
      BY <2>1, <3>1 DEF RequestInv
  <2> QED
    BY <2>2, <2>3, <2>4 DEF LiveInv
<1> QED
  BY <1>1, LivePageStep, PTL DEF Spec

\* A live graph has each row once and in order, but for those inserted late
\* (run Browser, LiveRowsInOrder).
THEOREM LiveGraphInOrder == Spec => []LiveRowsInOrder
<1>1. (page = "live" => LiveInv) => LiveRowsInOrder
  BY DEF LiveInv, ShownInv, LiveRowsInOrder, Live!RowsInOrder
<1> QED
  BY <1>1, LiveAlways, PTL

\* A live graph skips no row up to the last that it got (run Browser,
\* LiveSkipsNothing).
THEOREM LiveGraphComplete == Spec => []LiveSkipsNothing
<1>1. (page = "live" => LiveInv) => LiveSkipsNothing
  BY DEF LiveInv, ShownInv, LiveSkipsNothing, Live!NothingSkipped
<1> QED
  BY <1>1, LiveAlways, PTL

==============================================================================
