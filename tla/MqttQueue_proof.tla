---------------------------- MODULE MqttQueue_proof ----------------------------
(***************************************************************************)
(* Proofs about the MQTT queue, for any set of processes and topics, any   *)
(* size of the queue, and any number of messages and crashes.              *)
(***************************************************************************)
EXTENDS MqttQueue, FiniteSetTheorems, TLAPS

\* Every step keeps the types.
LEMMA TypeOKStep == TypeOK /\ [Next]_vars => TypeOK'
<1> SUFFICES ASSUME TypeOK, [Next]_vars PROVE TypeOK'
  OBVIOUS
<1> USE MqttQueueAssumption
<1>1. ASSUME NEW p \in Publishers, NEW t \in Topics, NEW v \in Payloads, Admit(p, t, v)
      PROVE TypeOK'
  <2>1. {[topic |-> t, payload |-> v]} \in SUBSET Request
    BY DEF Request
  <2>2. admitted' \in [Publishers -> SUBSET Request]
    BY <1>1, <2>1 DEF TypeOK, Admit, historyVars
  <2> QED
    BY <1>1, <2>2 DEF TypeOK, Admit, clientVars, historyVars
<1>2. ASSUME NEW p \in Publishers, Enqueue(p)
      PROVE TypeOK'
  <2> PICK m \in admitted[p] : Enqueue(p)!(m)
    BY <1>2 DEF Enqueue
  <2>1. m.topic \in Topics /\ m.payload \in Payloads
    BY DEF TypeOK, Request
  <2>2. admitted' \in [Publishers -> SUBSET Request]
    BY DEF TypeOK
  <2>3. latest' \in [Topics -> Payloads \union {NoPayload}]
    BY <2>1 DEF TypeOK
  <2>4. cache' \in [Publishers -> [Topics -> Payloads \union {NoPayload}]]
    <3>1. [cache[p] EXCEPT ![m.topic] = m.payload] \in [Topics -> Payloads \union {NoPayload}]
      BY <2>1 DEF TypeOK
    <3>2. CASE cache' = [cache EXCEPT ![p] = [cache[p] EXCEPT ![m.topic] = m.payload]]
      BY <3>1, <3>2 DEF TypeOK
    <3>3. CASE UNCHANGED cache
      BY <3>3 DEF TypeOK
    <3> QED
      BY <3>2, <3>3 DEF Remember
  <2>5. queue' \subseteq Message /\ nextPk' \in Nat \ {0}
    BY <2>1 DEF TypeOK, Message
  <2>6. lastBy' \in [Topics -> SUBSET Publishers]
    <3>1. {p} \in SUBSET Publishers
      OBVIOUS
    <3>2. CASE lastBy' = [lastBy EXCEPT ![m.topic] = {p}]
      BY <3>1, <3>2 DEF TypeOK
    <3>3. CASE UNCHANGED lastBy
      BY <3>3 DEF TypeOK
    <3> QED
      BY <3>2, <3>3
  <2> QED
    BY <2>2, <2>3, <2>4, <2>5, <2>6 DEF TypeOK, clientVars
<1>3. ASSUME NEW p \in Publishers, NEW t \in Topics, Forget(p, t)
      PROVE TypeOK'
  <2>1. cache' \in [Publishers -> [Topics -> Payloads \union {NoPayload}]]
    BY <1>3 DEF TypeOK, Forget, historyVars
  <2> QED
    BY <1>3, <2>1 DEF TypeOK, Forget, clientVars, historyVars
<1>4. CASE DropExcess
  <2>1. latest' \in [Topics -> Payloads \union {NoPayload}]
    BY <1>4 DEF TypeOK, DropExcess
  <2>2. queue' \subseteq Message
    BY <1>4 DEF TypeOK, DropExcess, Preserved
  <2>3. lastBy' \in [Topics -> SUBSET Publishers]
    <3>1. \A t \in Topics : (IF Dropped(t) THEN {} ELSE lastBy[t]) \in SUBSET Publishers
      BY DEF TypeOK
    <3>2. lastBy' = [t \in Topics |-> IF Dropped(t) THEN {} ELSE lastBy[t]]
      BY <1>4 DEF DropExcess
    <3> QED
      BY <3>1, <3>2
  <2> QED
    BY <1>4, <2>1, <2>2, <2>3 DEF TypeOK, DropExcess, publisherVars
<1>7. ASSUME Close
      PROVE /\ pc' = "closed" /\ batch' = {}
            /\ cache' \in [Publishers -> [Topics -> Payloads \union {NoPayload}]]
            /\ admitted' \in [Publishers -> SUBSET Request]
  <2>1. EmptyCache \in [Topics -> Payloads \union {NoPayload}]
    BY DEF EmptyCache
  <2>2. {} \in SUBSET Request
    OBVIOUS
  <2> QED
    BY <1>7, <2>1, <2>2 DEF TypeOK, Close
<1>8. ASSUME NEW m \in batch, Arrives(m)
      PROVE retained' \in [Topics -> [pk : Nat, payload : Payloads \union {NoPayload}]]
  <2>1. m.topic \in Topics /\ m.payload \in Payloads /\ m.pk \in Nat
    BY DEF TypeOK, Message
  <2>2. [pk |-> m.pk, payload |-> m.payload] \in [pk : Nat, payload : Payloads \union {NoPayload}]
    BY <2>1
  <2> QED
    BY <1>8, <2>1, <2>2 DEF TypeOK, Arrives
<1>9. ASSUME NEW m \in batch, Publish(m) \/ LoseConnection(m)
      PROVE TypeOK'
  <2>1. CASE Publish(m)
    <3>1. retained' \in [Topics -> [pk : Nat, payload : Payloads \union {NoPayload}]]
      BY <2>1, <1>8 DEF Publish
    <3> QED
      BY <2>1, <3>1 DEF TypeOK, Publish, publisherVars, historyVars
  <2>2. CASE LoseConnection(m)
    <3>1. retained' \in [Topics -> [pk : Nat, payload : Payloads \union {NoPayload}]]
      BY <2>2, <1>8 DEF LoseConnection, TypeOK
    <3> QED
      BY <2>2, <3>1, <1>7 DEF TypeOK, LoseConnection, historyVars
  <2> QED
    BY <1>9, <2>1, <2>2
<1>10. ASSUME NEW m \in batch, Delete(m)
       PROVE TypeOK'
  BY <1>10 DEF TypeOK, Delete, publisherVars, historyVars
<1>11. CASE Fetch
  BY <1>11 DEF TypeOK, Fetch, publisherVars, historyVars
<1>12. CASE Connect
  BY <1>12 DEF TypeOK, Connect, publisherVars, historyVars
<1>13. CASE Crash
  <2>1. crashes' \in Nat
    BY <1>13 DEF TypeOK, Crash, historyVars
  <2> QED
    BY <1>13, <2>1, <1>7 DEF TypeOK, Crash, historyVars
<1>14. CASE UNCHANGED vars
  BY <1>14 DEF TypeOK, vars, publisherVars, clientVars, historyVars
<1> QED
  BY <1>1, <1>2, <1>3, <1>4, <1>9, <1>10, <1>11, <1>12, <1>13, <1>14 DEF Next, Client

\* The types hold in every reachable state (run MqttQueue, TypeOK).
THEOREM QueueTypeCorrect == Spec => []TypeOK
<1>1. Init => TypeOK
  BY MqttQueueAssumption DEF Init, TypeOK, EmptyCache, Nothing, Request, Message
<1> QED
  BY <1>1, TypeOKStep, PTL DEF Spec

-----------------------------------------------------------------------------
(***************************************************************************)
(* The queue's bound. A process that was admitted, and has not created its *)
(* message yet, counts as much as a message; it was admitted at a moment   *)
(* at which there was room for at least one.                               *)
(***************************************************************************)

Waiting == {p \in Publishers : admitted[p] # {}}

Bounded ==
    /\ IsFiniteSet(queue)
    /\ Cardinality(queue) + Cardinality(Waiting) <= MaxInQueue + Cardinality(Publishers) - 1

\* The processes that wait are some of the publishers.
LEMMA WaitingIsFinite ==
    /\ IsFiniteSet(Waiting)
    /\ Cardinality(Waiting) \in Nat
    /\ Cardinality(Publishers) \in Nat
    /\ Cardinality(Waiting) <= Cardinality(Publishers)
<1>1. Waiting \in SUBSET Publishers
  BY DEF Waiting
<1> QED
  BY <1>1, FS_Subset, FS_CardinalityType, MqttQueueAssumption

\* What a new element adds to a cardinality.
LEMMA AtMostOneMore ==
    ASSUME NEW S, NEW x, IsFiniteSet(S)
    PROVE  /\ IsFiniteSet(S \union {x})
           /\ Cardinality(S \union {x}) \in Nat
           /\ Cardinality(S \union {x}) <= Cardinality(S) + 1
<1>1. IsFiniteSet(S \union {x}) /\ Cardinality(S \union {x}) \in {Cardinality(S), Cardinality(S) + 1}
  BY FS_AddElement
<1>2. Cardinality(S) \in Nat
  BY FS_CardinalityType
<1> QED
  BY <1>1, <1>2

\* Whatever removes messages, and starts no wait, keeps the bound.
LEMMA Shrinking ==
    ASSUME Bounded, queue' \subseteq queue, Waiting' \subseteq Waiting
    PROVE  Bounded'
<1>1. IsFiniteSet(queue') /\ Cardinality(queue') <= Cardinality(queue)
  BY FS_Subset DEF Bounded
<1>2. Cardinality(Waiting') <= Cardinality(Waiting) /\ IsFiniteSet(Waiting')
  BY FS_Subset, WaitingIsFinite
<1>3. /\ Cardinality(queue') \in Nat /\ Cardinality(queue) \in Nat
      /\ Cardinality(Waiting') \in Nat /\ Cardinality(Waiting) \in Nat
  BY <1>1, <1>2, WaitingIsFinite, FS_CardinalityType DEF Bounded
<1> QED
  BY <1>1, <1>2, <1>3, WaitingIsFinite, MqttQueueAssumption DEF Bounded

\* Every step keeps the bound.
LEMMA BoundedStep == TypeOK /\ Bounded /\ [Next]_vars => Bounded'
<1> SUFFICES ASSUME TypeOK, Bounded, [Next]_vars PROVE Bounded'
  OBVIOUS
<1>1. ASSUME NEW p \in Publishers, NEW t \in Topics, NEW v \in Payloads, Admit(p, t, v)
      PROVE Bounded'
  <2>1. queue' = queue /\ Cardinality(queue) < MaxInQueue
    BY <1>1 DEF Admit
  <2>2. Waiting' \in SUBSET Publishers
    BY DEF Waiting
  <2>3. /\ Cardinality(Waiting') <= Cardinality(Publishers)
        /\ Cardinality(Waiting') \in Nat /\ Cardinality(Publishers) \in Nat
    BY <2>2, FS_Subset, FS_CardinalityType, MqttQueueAssumption
  <2>4. Cardinality(queue) \in Nat
    BY FS_CardinalityType DEF Bounded
  <2> QED
    BY <2>1, <2>3, <2>4, MqttQueueAssumption DEF Bounded
<1>2. ASSUME NEW p \in Publishers, Enqueue(p)
      PROVE Bounded'
  <2> PICK m \in admitted[p] : Enqueue(p)!(m)
    BY <1>2 DEF Enqueue
  <2>1. p \in Waiting
    BY DEF Waiting
  <2>2. Waiting' = Waiting \ {p}
    <3>1. admitted' = [admitted EXCEPT ![p] = {}]
      OBVIOUS
    <3>2. \A q \in Publishers : admitted'[q] = IF q = p THEN {} ELSE admitted[q]
      BY <3>1 DEF TypeOK
    <3>3. \A q : q \in Waiting' <=> q \in Waiting \ {p}
      BY <3>2, Zenon DEF Waiting
    <3> QED
      BY <3>3, Zenon
  <2>3. /\ Cardinality(Waiting') = Cardinality(Waiting) - 1
        /\ Cardinality(Waiting) \in Nat /\ Cardinality(Publishers) \in Nat
    BY <2>1, <2>2, FS_RemoveElement, WaitingIsFinite
  <2>4. CASE queue' = queue
    BY <2>2, <2>4, Shrinking
  <2>5. CASE queue' # queue
    <3> DEFINE new == [pk |-> nextPk, topic |-> m.topic, payload |-> m.payload]
    <3>1. queue' = queue \union {new}
      BY <2>5
    <3> HIDE DEF new
    <3>2. IsFiniteSet(queue) /\ Cardinality(queue) \in Nat
      BY FS_CardinalityType DEF Bounded
    <3>3. /\ IsFiniteSet(queue')
          /\ Cardinality(queue') \in Nat
          /\ Cardinality(queue') <= Cardinality(queue) + 1
      BY <3>1, <3>2, AtMostOneMore
    <3> QED
      BY <2>3, <3>2, <3>3, MqttQueueAssumption DEF Bounded
  <2> QED
    BY <2>4, <2>5
<1>3. ASSUME Close PROVE Waiting' \subseteq Waiting
  BY <1>3 DEF Close, Waiting, TypeOK
<1>4. ASSUME NEW m \in batch, Publish(m) \/ LoseConnection(m) \/ Delete(m)
      PROVE Bounded'
  <2>1. CASE Publish(m)
    BY <2>1, Shrinking DEF Publish, publisherVars, Waiting
  <2>2. CASE LoseConnection(m)
    BY <2>2, <1>3, Shrinking DEF LoseConnection
  <2>3. CASE Delete(m)
    BY <2>3, Shrinking DEF Delete, publisherVars, Waiting
  <2> QED
    BY <1>4, <2>1, <2>2, <2>3
<1>5. CASE DropExcess
  BY <1>5, Shrinking DEF DropExcess, Preserved, publisherVars, Waiting
<1>6. CASE Fetch
  BY <1>6, Shrinking DEF Fetch, publisherVars, Waiting
<1>7. CASE Connect
  BY <1>7, Shrinking DEF Connect, publisherVars, Waiting
<1>8. CASE Crash
  BY <1>8, <1>3, Shrinking DEF Crash
<1>9. ASSUME NEW p \in Publishers, NEW t \in Topics, Forget(p, t)
      PROVE Bounded'
  BY <1>9, Shrinking DEF Forget, Waiting
<1>10. CASE UNCHANGED vars
  BY <1>10, Shrinking DEF vars, publisherVars, Waiting
<1> QED
  BY <1>1, <1>2, <1>4, <1>5, <1>6, <1>7, <1>8, <1>9, <1>10 DEF Next, Client

\* At first nothing is queued.
LEMMA InitBounded == Init => Bounded
<1> SUFFICES ASSUME Init PROVE Bounded
  OBVIOUS
<1>1. Waiting = {} /\ queue = {}
  BY DEF Init, Waiting
<1>2. Cardinality(Publishers) \in Nat /\ Cardinality(Publishers) # 0
  BY FS_CardinalityType, FS_EmptySet, MqttQueueAssumption
<1> QED
  BY <1>1, <1>2, FS_EmptySet, MqttQueueAssumption DEF Bounded

\* The queue stays within its limit, up to one message of each other process
\* (run MqttQueue, QueueIsBounded).
THEOREM QueueBound == Spec => []QueueIsBounded
<1>1. Bounded => QueueIsBounded
  BY WaitingIsFinite, FS_CardinalityType, MqttQueueAssumption DEF Bounded, QueueIsBounded
<1> QED
  BY <1>1, InitBounded, BoundedStep, QueueTypeCorrect, PTL DEF Spec

-----------------------------------------------------------------------------
(***************************************************************************)
(* The order of what is published. What the broker has of any topic is not *)
(* newer than anything in the queue, and what is in the batch is older     *)
(* than what was queued since it was fetched.                              *)
(***************************************************************************)

Ordered ==
    /\ batch \subseteq queue
    /\ \A m \in queue : m.pk < nextPk
    /\ \A m \in batch, n \in queue \ batch : m.pk < n.pk
    /\ \A t \in Topics : retained[t].pk < nextPk
    /\ \A t \in Topics, m \in queue : retained[t].pk <= m.pk

\* A message that arrives is the oldest of the queue, and not older than what
\* its topic had.
LEMMA ArrivalInOrder ==
    ASSUME TypeOK, Ordered, NEW m \in batch, Current(m), Arrives(m)
    PROVE  /\ \A t \in Topics : retained'[t].pk >= retained[t].pk
           /\ \A t \in Topics : retained'[t].pk < nextPk
           /\ \A t \in Topics, n \in queue : retained'[t].pk <= n.pk
<1>1. \A n \in queue : m.pk \in Nat /\ n.pk \in Nat /\ m.pk <= n.pk
  BY DEF TypeOK, Ordered, Current, Message
<1>2. m.topic \in Topics /\ m \in queue
  BY DEF TypeOK, Ordered, Message
<1>3. \A t \in Topics :
          \/ retained'[t] = [pk |-> m.pk, payload |-> m.payload]
          \/ retained'[t] = retained[t]
  BY <1>2 DEF Arrives, TypeOK
<1>4. \A t \in Topics : retained[t].pk \in Nat
  BY DEF TypeOK
<1>5. \A t \in Topics : retained'[t].pk = m.pk \/ retained'[t].pk = retained[t].pk
  BY <1>3
<1>6. /\ nextPk \in Nat /\ m.pk < nextPk
      /\ \A t \in Topics : retained[t].pk <= m.pk /\ retained[t].pk < nextPk
      /\ \A t \in Topics, n \in queue : retained[t].pk <= n.pk
  BY <1>2 DEF Ordered, TypeOK
<1>7. \A t \in Topics : retained'[t].pk >= retained[t].pk /\ retained'[t].pk < nextPk
  BY <1>1, <1>2, <1>4, <1>5, <1>6
<1> QED
  BY <1>1, <1>5, <1>6, <1>7

\* Every step keeps the order.
LEMMA OrderedStep == TypeOK /\ Ordered /\ [Next]_vars => Ordered'
<1> SUFFICES ASSUME TypeOK, Ordered, [Next]_vars PROVE Ordered'
  OBVIOUS
<1>1. ASSUME NEW p \in Publishers, NEW t \in Topics, NEW v \in Payloads, Admit(p, t, v)
      PROVE Ordered'
  BY <1>1 DEF Ordered, Admit, clientVars
<1>2. ASSUME NEW p \in Publishers, Enqueue(p)
      PROVE Ordered'
  <2> PICK m \in admitted[p] : Enqueue(p)!(m)
    BY <1>2 DEF Enqueue
  <2>1. CASE UNCHANGED <<queue, nextPk, cache>>
    BY <2>1 DEF Ordered, clientVars
  <2>2. CASE /\ queue' = queue \union
                    {[pk |-> nextPk, topic |-> m.topic, payload |-> m.payload]}
             /\ nextPk' = nextPk + 1
    <3>1. \A n \in queue' : n \in queue \/ n.pk = nextPk
      BY <2>2
    <3>2. /\ nextPk \in Nat
          /\ \A n \in queue : n.pk \in Nat
          /\ \A t \in Topics : retained[t].pk \in Nat
      BY DEF TypeOK, Message
    <3>3. batch' = batch /\ retained' = retained
      BY DEF clientVars
    <3> QED
      BY <2>2, <3>1, <3>2, <3>3 DEF Ordered
  <2> QED
    BY <2>1, <2>2
<1>3. ASSUME NEW p \in Publishers, NEW t \in Topics, Forget(p, t)
      PROVE Ordered'
  BY <1>3 DEF Ordered, Forget, clientVars
<1>4. CASE DropExcess
  <2>1. batch = {} /\ batch' = {} /\ queue' \subseteq queue
    BY <1>4 DEF DropExcess, Preserved, TypeOK
  <2> QED
    BY <1>4, <2>1 DEF DropExcess, Ordered
<1>5. CASE Fetch
  BY <1>5 DEF Fetch, Ordered
<1>6. CASE Connect
  BY <1>6 DEF Connect, Ordered
<1>7. CASE Crash
  BY <1>7 DEF Crash, Close, Ordered
<1>8. ASSUME NEW m \in batch, Publish(m)
      PROVE Ordered'
  BY <1>8, ArrivalInOrder DEF Publish, Ordered
<1>9. ASSUME NEW m \in batch, LoseConnection(m)
      PROVE Ordered'
  <2>1. CASE Arrives(m)
    BY <1>9, <2>1, ArrivalInOrder DEF LoseConnection, Close, Ordered
  <2>2. CASE UNCHANGED retained
    BY <1>9, <2>2 DEF LoseConnection, Close, Ordered
  <2> QED
    BY <1>9, <2>1, <2>2 DEF LoseConnection
<1>10. ASSUME NEW m \in batch, Delete(m)
       PROVE Ordered'
  BY <1>10 DEF Delete, Ordered
<1>11. CASE UNCHANGED vars
  BY <1>11 DEF vars, clientVars, Ordered
<1> QED
  BY <1>1, <1>2, <1>3, <1>4, <1>5, <1>6, <1>7, <1>8, <1>9, <1>10, <1>11 DEF Next, Client

\* No topic of the broker gets an older message than it had, whatever is published
\* again (run MqttQueue, NoTopicGoesBack).
THEOREM TopicsGoForward == Spec => NoTopicGoesBack
<1>1. Init => Ordered
  BY DEF Init, Ordered, Nothing
<1>2. TypeOK /\ Ordered /\ [Next]_vars
          => [\A t \in Topics : retained'[t].pk >= retained[t].pk]_vars
  <2> SUFFICES ASSUME TypeOK, Ordered, Next
               PROVE \A t \in Topics : retained'[t].pk >= retained[t].pk
    OBVIOUS
  <2>1. \A t \in Topics : retained[t].pk \in Nat
    BY DEF TypeOK
  <2>2. ASSUME NEW m \in batch, Publish(m) \/ LoseConnection(m)
        PROVE \A t \in Topics : retained'[t].pk >= retained[t].pk
    <3>1. Current(m) /\ (Arrives(m) \/ UNCHANGED retained)
      BY <2>2 DEF Publish, LoseConnection
    <3> QED
      BY <2>1, <3>1, ArrivalInOrder
  <2>3. CASE UNCHANGED retained
    BY <2>1, <2>3
  <2> QED
    BY <2>2, <2>3 DEF Next, Client, Admit, Enqueue, Forget, DropExcess, Fetch, Delete, Connect, Crash
<1> QED
  BY <1>1, <1>2, OrderedStep, QueueTypeCorrect, PTL DEF Spec, NoTopicGoesBack
-----------------------------------------------------------------------------
(***************************************************************************)
(* The queue implements the channel. A step of the channel removes only    *)
(* what arrived, and lets only the oldest message arrive: the first needs  *)
(* that what is about to be deleted is what its topic has, the second that *)
(* the oldest of the batch is the oldest of the queue.                     *)
(***************************************************************************)

Numbered == \A m, n \in queue : m.pk = n.pk => m = n

\* Each message has a number of its own.
LEMMA NumberedStep == TypeOK /\ Ordered /\ Numbered /\ [Next]_vars => Numbered'
<1> SUFFICES ASSUME TypeOK, Ordered, Numbered, [Next]_vars PROVE Numbered'
  OBVIOUS
<1>1. CASE queue' \subseteq queue
  BY <1>1 DEF Numbered
<1>2. ASSUME NEW p \in Publishers, Enqueue(p) PROVE Numbered'
  <2> PICK r \in admitted[p] : Enqueue(p)!(r)
    BY <1>2 DEF Enqueue
  <2>1. CASE queue' = queue
    BY <2>1, <1>1
  <2>2. CASE queue' = queue \union {[pk |-> nextPk, topic |-> r.topic, payload |-> r.payload]}
    BY <2>2 DEF Numbered, Ordered, TypeOK, Message
  <2> QED
    BY <2>1, <2>2
<1>3. CASE DropExcess
  BY <1>3, <1>1 DEF DropExcess, Preserved
<1>4. ASSUME NEW m \in batch, Publish(m) \/ LoseConnection(m) \/ Delete(m) PROVE Numbered'
  BY <1>4, <1>1 DEF Publish, LoseConnection, Delete
<1> QED
  BY <1>1, <1>2, <1>3, <1>4 DEF Next, Client, Admit, Forget, Fetch, Connect, Crash, vars

Arrived(m) == retained[m.topic] = [pk |-> m.pk, payload |-> m.payload]

ArrivedInv == pc = "delete" => \A m \in batch : Current(m) => Arrived(m)

\* A message that arrives is what its topic has.
LEMMA ArrivesAtTopic ==
    ASSUME TypeOK, NEW m \in batch, Arrives(m)
    PROVE  Arrived(m)'
BY DEF TypeOK, Arrives, Message, Arrived

\* What is deleted has arrived.
LEMMA ArrivedStep == TypeOK /\ Ordered /\ Numbered /\ ArrivedInv /\ [Next]_vars => ArrivedInv'
<1> SUFFICES ASSUME TypeOK, Ordered, Numbered, ArrivedInv, [Next]_vars, pc' = "delete",
                    NEW m \in batch', Current(m)'
             PROVE Arrived(m)'
  BY DEF ArrivedInv, Current
<1>1. CASE UNCHANGED <<pc, batch, retained>>
  BY <1>1 DEF ArrivedInv, Arrived, Current
<1>2. ASSUME NEW n \in batch, Publish(n) PROVE Arrived(m)'
  <2>1. batch' = batch /\ Current(n) /\ Arrives(n)
    BY <1>2 DEF Publish
  <2>2. m \in batch /\ m.pk =< n.pk /\ n.pk =< m.pk /\ m.pk \in Nat /\ n.pk \in Nat
    BY <2>1 DEF Current, TypeOK, Message
  <2>3. m = n
    BY <2>2 DEF Numbered, Ordered
  <2> QED
    BY <2>1, <2>3, ArrivesAtTopic
<1>3. ASSUME NEW n \in batch, LoseConnection(n) \/ Delete(n) PROVE FALSE
  BY <1>3 DEF LoseConnection, Close, Delete
<1>4. CASE DropExcess \/ Fetch \/ Connect \/ Crash
  BY <1>4 DEF DropExcess, Fetch, Connect, Crash, Close
<1>5. ASSUME NEW p \in Publishers, Enqueue(p) PROVE UNCHANGED <<pc, batch, retained>>
  BY <1>5 DEF Enqueue, clientVars
<1> QED
  BY <1>1, <1>2, <1>3, <1>4, <1>5 DEF Next, Client, Admit, Forget, clientVars, vars

\* The oldest of the batch is the oldest of the queue.
LEMMA CurrentIsOldest ==
    ASSUME TypeOK, Ordered, NEW m \in batch, Current(m)
    PROVE  m \in queue /\ Channel!IsOldest(m)
BY DEF TypeOK, Ordered, Current, Message, Channel!IsOldest

\* Every step of the queue is one of the channel, or one that it does not see.
LEMMA ChannelStep ==
    TypeOK /\ Ordered /\ ArrivedInv /\ [Next]_vars => [Channel!Next]_(Channel!vars)
<1> SUFFICES ASSUME TypeOK, Ordered, ArrivedInv, [Next]_vars
             PROVE Channel!Next \/ UNCHANGED Channel!vars
  OBVIOUS
<1>1. CASE UNCHANGED <<queue, nextPk, retained>>
  BY <1>1 DEF Channel!vars
<1>2. ASSUME NEW p \in Publishers, Enqueue(p)
      PROVE Channel!Next \/ UNCHANGED Channel!vars
  <2> PICK r \in admitted[p] : Enqueue(p)!(r)
    BY <1>2 DEF Enqueue
  <2>1. r.topic \in Topics /\ r.payload \in Payloads
    BY DEF TypeOK, Request
  <2>2. CASE UNCHANGED <<queue, nextPk>>
    BY <2>2, <1>1
  <2>3. CASE /\ queue' = queue \union {[pk |-> nextPk, topic |-> r.topic, payload |-> r.payload]}
             /\ nextPk' = nextPk + 1
    <3>1. Channel!Send
      BY <2>1, <2>3 DEF Channel!Send
    <3> QED
      BY <3>1 DEF Channel!Next
  <2> QED
    BY <2>2, <2>3
<1>3. ASSUME NEW m \in batch, Current(m), Arrives(m), UNCHANGED <<queue, nextPk>>
      PROVE Channel!Next
  <2>1. Channel!Arrive(m)
    BY <1>3, CurrentIsOldest DEF Channel!Arrive, Channel!Value, Arrives
  <2> QED
    BY <1>3, <2>1, CurrentIsOldest DEF Channel!Next
<1>4. ASSUME NEW m \in batch, Publish(m) \/ LoseConnection(m)
      PROVE Channel!Next \/ UNCHANGED Channel!vars
  BY <1>1, <1>3, <1>4 DEF Publish, LoseConnection
<1>5. ASSUME NEW m \in batch, Delete(m) PROVE Channel!Next
  <2>1. Channel!Confirm(m)
    BY <1>5, CurrentIsOldest DEF Delete, ArrivedInv, Arrived, Channel!Confirm, Channel!Value
  <2> QED
    BY <1>5, <2>1, CurrentIsOldest DEF Channel!Next, Delete
<1>6. CASE DropExcess
  <2>1. Channel!Discard
    BY <1>6, Zenon DEF DropExcess, Preserved, Channel!Discard, Cardinality, Channel!Cardinality
  <2> QED
    BY <2>1 DEF Channel!Next
<1> QED
  BY <1>1, <1>2, <1>4, <1>5, <1>6
     DEF Next, Client, Admit, Forget, Fetch, Connect, Crash, vars

\* The queue, with its processes, caches, lost connections and crashes, is a
\* channel that loses nothing but excess and never changes the order (run
\* MqttQueue, ImplementsChannel).
THEOREM QueueImplementsChannel == Spec => ImplementsChannel
<1>1. Init => Channel!Init /\ Ordered /\ Numbered /\ ArrivedInv
  BY DEF Init, Ordered, Numbered, ArrivedInv, Nothing, Channel!Init
<1> QED
  BY <1>1, ChannelStep, OrderedStep, NumberedStep, ArrivedStep, QueueTypeCorrect, PTL
     DEF Spec, ImplementsChannel, Channel!Spec
-----------------------------------------------------------------------------
(***************************************************************************)
(* The latest value. A process that skips a value as a repeat, having      *)
(* queued the last one of the topic, has that very value in its cache. The *)
(* last message of a topic leaves the queue by arriving.                   *)
(***************************************************************************)

CacheInv ==
    /\ ~Caching => \A p \in Publishers, t \in Topics : cache[p][t] = NoPayload
    /\ \A t \in Topics : \A p \in lastBy[t] : cache[p][t] \in {NoPayload, latest[t]}

\* What ends the backend's process only forgets.
LEMMA CloseForgets ==
    ASSUME TypeOK, CacheInv, UNCHANGED historyVars,
           \/ UNCHANGED cache
           \/ cache' = [cache EXCEPT ![Backend] = EmptyCache]
           \/ \E p \in Publishers, t \in Topics : cache' = [cache EXCEPT ![p][t] = NoPayload]
    PROVE  CacheInv'
<1>1. \A p \in Publishers, t \in Topics : cache'[p][t] \in {NoPayload, cache[p][t]}
  <2>1. CASE UNCHANGED cache
    BY <2>1
  <2>2. CASE cache' = [cache EXCEPT ![Backend] = EmptyCache]
    BY <2>2, MqttQueueAssumption DEF TypeOK, EmptyCache
  <2>3. ASSUME NEW q \in Publishers, NEW u \in Topics, cache' = [cache EXCEPT ![q][u] = NoPayload]
        PROVE \A p \in Publishers, t \in Topics : cache'[p][t] \in {NoPayload, cache[p][t]}
    BY <2>3 DEF TypeOK
  <2> QED
    BY <2>1, <2>2, <2>3
<1>2. \A t \in Topics : lastBy[t] \subseteq Publishers
  BY DEF TypeOK
<1> QED
  BY <1>1, <1>2 DEF CacheInv, historyVars

\* What a process creates is the last of its topic; what it skips changes nothing.
LEMMA EnqueueKeepsLatest ==
    ASSUME TypeOK, Ordered, CacheInv, LatestIsOnItsWay, NEW p \in Publishers, Enqueue(p)
    PROVE  CacheInv' /\ LatestIsOnItsWay'
<1> PICK m \in admitted[p] : Enqueue(p)!(m)
  BY DEF Enqueue
<1>1. m.topic \in Topics /\ m.payload \in Payloads /\ m.payload # NoPayload
  BY MqttQueueAssumption DEF TypeOK, Request
<1>2. UNCHANGED retained
  OBVIOUS
<1>3. CASE IsCached(p, m) /\ UNCHANGED <<queue, cache, lastBy>>
  <2>1. p \in lastBy[m.topic] => m.payload = latest[m.topic]
    BY <1>1, <1>3 DEF IsCached, CacheInv
  <2>2. latest' = latest
    BY <1>1, <1>3, <2>1 DEF TypeOK
  <2> QED
    BY <1>2, <1>3, <2>2 DEF CacheInv, LatestIsOnItsWay, IsLastOf
<1>4. CASE /\ queue' = queue \union {[pk |-> nextPk, topic |-> m.topic, payload |-> m.payload]}
           /\ Remember(p, m)
           /\ latest' = [latest EXCEPT ![m.topic] = m.payload]
           /\ lastBy' = [lastBy EXCEPT ![m.topic] = {p}]
  <2> PICK new : new = [pk |-> nextPk, topic |-> m.topic, payload |-> m.payload]
    OBVIOUS
  <2>1. \A t \in Topics : /\ t # m.topic => latest'[t] = latest[t] /\ lastBy'[t] = lastBy[t]
                          /\ t = m.topic => latest'[t] = m.payload /\ lastBy'[t] = {p}
    BY <1>1, <1>4 DEF TypeOK
  <2>2. CacheInv'
    <3>1. \A q \in Publishers, t \in Topics :
              cache'[q][t] = IF Caching /\ q = p /\ t = m.topic THEN m.payload ELSE cache[q][t]
      BY <1>1, <1>4 DEF Remember, TypeOK
    <3>2. \A t \in Topics : lastBy'[t] \subseteq Publishers
      BY <2>1 DEF TypeOK
    <3>3. ASSUME NEW t \in Topics, NEW q \in lastBy'[t]
          PROVE cache'[q][t] \in {NoPayload, latest'[t]}
      <4>1. q \in Publishers
        BY <3>2, <3>3
      <4>2. CASE t = m.topic
        BY <2>1, <3>1, <3>3, <4>1, <4>2 DEF CacheInv
      <4>3. CASE t # m.topic
        BY <2>1, <3>1, <3>3, <4>1, <4>3 DEF CacheInv
      <4> QED
        BY <4>2, <4>3
    <3> QED
      BY <3>1, <3>3 DEF CacheInv
  <2>3. \A n \in queue : n.pk < new.pk /\ n.pk \in Nat /\ new.pk \in Nat
    BY DEF Ordered, TypeOK, Message
  <2>4. new.pk = nextPk /\ nextPk \in Nat
    BY DEF TypeOK
  <2>5. new.topic = m.topic /\ new.payload = m.payload /\ queue' = queue \union {new}
    BY <1>4
  <2>6. ASSUME NEW t \in Topics, latest'[t] # NoPayload, t = m.topic
        PROVE \E n \in queue' : IsLastOf(n, t)' /\ n.payload = latest'[t]
    <3>1. new \in queue' /\ new.pk \in Nat
      BY <2>5, <2>4
    <3>2. \A n \in queue' : n.pk <= new.pk
      BY <2>3, <2>5, <3>1
    <3>3. IsLastOf(new, t)' /\ new.payload = latest'[t]
      BY <2>1, <2>5, <2>6, <3>2 DEF IsLastOf
    <3> QED
      BY <3>1, <3>3
  <2>7. ASSUME NEW t \in Topics, t # m.topic
        PROVE /\ \A n : n \in queue' /\ n.topic = t <=> n \in queue /\ n.topic = t
              /\ \A n \in queue : IsLastOf(n, t) => IsLastOf(n, t)'
    BY <2>5, <2>7 DEF IsLastOf
  <2>8. ASSUME NEW t \in Topics, latest'[t] # NoPayload
        PROVE IF \E n \in queue' : n.topic = t
              THEN \E n \in queue' : IsLastOf(n, t)' /\ n.payload = latest'[t]
              ELSE retained'[t].payload = latest'[t]
    <3>1. CASE t = m.topic
      BY <2>5, <2>6, <2>8, <3>1
    <3>2. CASE t # m.topic
      BY <1>2, <2>1, <2>5, <2>7, <2>8, <3>2 DEF LatestIsOnItsWay
    <3> QED
      BY <3>1, <3>2
  <2> QED
    BY <2>2, <2>8 DEF LatestIsOnItsWay, IsLastOf
<1> QED
  BY <1>3, <1>4

\* Dropping keeps the newest: a topic keeps its last message, or has nothing
\* left, and then nothing is claimed of it.
LEMMA DropKeepsLatest ==
    ASSUME TypeOK, Ordered, CacheInv, LatestIsOnItsWay, DropExcess, IsFiniteSet(queue)
    PROVE  CacheInv' /\ LatestIsOnItsWay'
<1>1. /\ UNCHANGED <<retained, cache>>
      /\ queue' = Preserved /\ Preserved \subseteq queue
      /\ \A t \in Topics : /\ latest'[t] = IF Dropped(t) THEN NoPayload ELSE latest[t]
                           /\ lastBy'[t] = IF Dropped(t) THEN {} ELSE lastBy[t]
  BY DEF DropExcess, publisherVars, Preserved
<1>2. CacheInv'
  BY <1>1 DEF CacheInv
<1>3. ASSUME NEW n \in Preserved, NEW m \in queue, m.pk >= n.pk
      PROVE m \in Preserved
  <2> DEFINE A == {x \in queue : x.pk > n.pk}
             B == {x \in queue : x.pk > m.pk}
  <2>1. B \subseteq A
    BY <1>1, <1>3 DEF TypeOK, Message
  <2>2. IsFiniteSet(A) /\ IsFiniteSet(B)
    BY FS_Subset
  <2>3. Cardinality(B) <= Cardinality(A) /\ Cardinality(A) \in Nat /\ Cardinality(B) \in Nat
    <3> HIDE DEF A, B
    <3> QED
      BY <2>1, <2>2, FS_Subset, FS_CardinalityType
  <2>4. Cardinality(A) < MaxInQueue
    BY <1>3 DEF Preserved
  <2>5. Cardinality(B) < MaxInQueue
    <3> HIDE DEF A, B
    <3> QED
      BY <2>3, <2>4, MqttQueueAssumption
  <2> QED
    BY <2>5 DEF Preserved
<1>4. ASSUME NEW t \in Topics, latest'[t] # NoPayload
      PROVE IF \E n \in queue' : n.topic = t
            THEN \E n \in queue' : IsLastOf(n, t)' /\ n.payload = latest'[t]
            ELSE retained'[t].payload = latest'[t]
  <2>1. ~Dropped(t) /\ latest'[t] = latest[t] /\ latest[t] # NoPayload
    BY <1>1, <1>4
  <2>2. CASE \E n \in Preserved : n.topic = t
    <3> PICK n \in Preserved : n.topic = t
      BY <2>2
    <3> PICK m \in queue : IsLastOf(m, t) /\ m.payload = latest[t]
      BY <1>1, <2>1 DEF LatestIsOnItsWay
    <3>1. m.pk >= n.pk
      BY <1>1 DEF IsLastOf, TypeOK, Message
    <3>2. m \in Preserved
      BY <1>3, <3>1
    <3>3. IsLastOf(m, t)'
      BY <1>1 DEF IsLastOf
    <3> QED
      BY <1>1, <2>1, <3>2, <3>3
  <2>3. CASE ~\E n \in Preserved : n.topic = t
    <3>1. ~\E n \in queue : n.topic = t
      BY <2>1, <2>3 DEF Dropped
    <3> QED
      BY <1>1, <2>1, <2>3, <3>1 DEF LatestIsOnItsWay
  <2> QED
    BY <1>1, <2>2, <2>3
<1> QED
  BY <1>2, <1>4 DEF LatestIsOnItsWay, IsLastOf

\* What arrives is in the queue still, and what is deleted has arrived.
LEMMA DeliveryKeepsLatest ==
    ASSUME TypeOK, Ordered, Numbered, ArrivedInv, LatestIsOnItsWay, NEW m \in batch,
           \/ Publish(m)
           \/ LoseConnection(m)
           \/ Delete(m)
    PROVE  LatestIsOnItsWay'
<1>1. m \in queue /\ Current(m) /\ m.topic \in Topics
  BY DEF Ordered, Publish, LoseConnection, Delete, TypeOK, Message
<1>2. latest' = latest
  BY DEF Publish, LoseConnection, Delete, historyVars
<1>3. CASE queue' = queue /\ (Arrives(m) \/ UNCHANGED retained)
  <2>1. \A t \in Topics : t # m.topic => retained'[t] = retained[t]
    BY <1>1, <1>3 DEF Arrives, TypeOK
  <2> QED
    BY <1>1, <1>2, <1>3, <2>1 DEF LatestIsOnItsWay, IsLastOf
<1>4. CASE Delete(m)
  <2>1. queue' = queue \ {m} /\ retained' = retained /\ Arrived(m)
    BY <1>1, <1>4 DEF Delete, ArrivedInv
  <2>2. ASSUME NEW t \in Topics, latest[t] # NoPayload
        PROVE IF \E n \in queue' : n.topic = t
              THEN \E n \in queue' : IsLastOf(n, t)' /\ n.payload = latest[t]
              ELSE retained[t].payload = latest[t]
    <3>1. CASE \E n \in queue' : n.topic = t
      <4> PICK n \in queue' : n.topic = t
        BY <3>1
      <4> PICK l \in queue : IsLastOf(l, t) /\ l.payload = latest[t]
        BY <2>1, <2>2 DEF LatestIsOnItsWay
      <4>1. n \in queue /\ n # m /\ n.pk <= l.pk
        BY <2>1 DEF IsLastOf
      <4>2. m.pk <= n.pk /\ m.pk \in Nat /\ n.pk \in Nat /\ l.pk \in Nat
        BY <1>1, <2>1, <4>1, CurrentIsOldest DEF Channel!IsOldest, TypeOK, Message
      <4>3. l # m
        BY <1>1, <4>1, <4>2 DEF Numbered
      <4>4. IsLastOf(l, t)'
        BY <2>1 DEF IsLastOf
      <4> QED
        BY <2>1, <3>1, <4>3, <4>4
    <3>2. CASE ~\E n \in queue' : n.topic = t
      <4>1. CASE m.topic = t
        <5>1. m.payload = latest[t]
          BY <1>1, <2>1, <2>2, <3>2, <4>1 DEF LatestIsOnItsWay, IsLastOf
        <5> QED
          BY <2>1, <3>2, <4>1, <5>1 DEF Arrived
      <4>2. CASE m.topic # t
        BY <2>1, <2>2, <3>2, <4>2 DEF LatestIsOnItsWay
      <4> QED
        BY <4>1, <4>2
    <3> QED
      BY <3>1, <3>2
  <2> QED
    BY <1>2, <2>1, <2>2 DEF LatestIsOnItsWay, IsLastOf
<1> QED
  BY <1>3, <1>4 DEF Publish, LoseConnection

\* Every step keeps both.
LEMMA LatestStep ==
    /\ TypeOK /\ Bounded /\ Ordered /\ Numbered /\ ArrivedInv /\ CacheInv /\ LatestIsOnItsWay
    /\ [Next]_vars
    => CacheInv' /\ LatestIsOnItsWay'
<1> SUFFICES ASSUME TypeOK, Bounded, Ordered, Numbered, ArrivedInv, CacheInv, LatestIsOnItsWay,
                    [Next]_vars
             PROVE  CacheInv' /\ LatestIsOnItsWay'
  OBVIOUS
<1>1. ASSUME UNCHANGED <<queue, retained, historyVars>>,
             \/ UNCHANGED cache
             \/ cache' = [cache EXCEPT ![Backend] = EmptyCache]
             \/ \E p \in Publishers, t \in Topics : cache' = [cache EXCEPT ![p][t] = NoPayload]
      PROVE CacheInv' /\ LatestIsOnItsWay'
  BY <1>1, CloseForgets DEF LatestIsOnItsWay, IsLastOf, historyVars
<1>2. ASSUME NEW m \in batch, Publish(m) \/ LoseConnection(m) \/ Delete(m)
      PROVE CacheInv' /\ LatestIsOnItsWay'
  <2>1. CacheInv'
    BY <1>2, CloseForgets DEF Publish, LoseConnection, Delete, Close, publisherVars
  <2> QED
    BY <1>2, <2>1, DeliveryKeepsLatest
<1>3. ASSUME NEW p \in Publishers, Enqueue(p)
      PROVE CacheInv' /\ LatestIsOnItsWay'
  BY <1>3, EnqueueKeepsLatest
<1>4. CASE DropExcess
  BY <1>4, DropKeepsLatest DEF Bounded
<1>5. ASSUME NEW p \in Publishers, NEW t \in Topics,
             Forget(p, t) \/ \E v \in Payloads : Admit(p, t, v)
      PROVE CacheInv' /\ LatestIsOnItsWay'
  BY <1>1, <1>5 DEF Forget, Admit
<1>6. CASE Fetch \/ Connect \/ Crash \/ UNCHANGED vars
  BY <1>1, <1>6 DEF Fetch, Connect, Crash, Close, publisherVars, vars
<1> QED
  BY <1>2, <1>3, <1>4, <1>5, <1>6 DEF Next, Client

\* The last value queued for a topic is the last one waiting or the one at the
\* broker, whatever was cached, overtaken, published twice or dropped on the way
\* (run MqttQueue, LatestIsOnItsWay).
THEOREM LatestArrives == Spec => []LatestIsOnItsWay
<1>1. Init => Bounded /\ Ordered /\ Numbered /\ ArrivedInv /\ CacheInv /\ LatestIsOnItsWay
  <2> SUFFICES ASSUME Init
               PROVE  Bounded /\ Ordered /\ Numbered /\ ArrivedInv /\ CacheInv /\ LatestIsOnItsWay
    OBVIOUS
  <2>1. Bounded
    BY InitBounded
  <2> QED
    BY <2>1 DEF Init, Ordered, Numbered, ArrivedInv, Nothing, CacheInv, EmptyCache, LatestIsOnItsWay
<1> QED
  BY <1>1, LatestStep, BoundedStep, OrderedStep, NumberedStep, ArrivedStep, QueueTypeCorrect, PTL
     DEF Spec
===============================================================================
