------------------------------ MODULE MqttQueue ------------------------------
(***************************************************************************)
(* The outgoing MQTT messages (dsmr_mqtt.services). Every process that     *)
(* creates a reading or a consumption row queues messages for it: the      *)
(* datalogger, the workers of the web server (the API) and the backend     *)
(* itself. Each has a cache of its own with the last payload of each       *)
(* topic, when caching is enabled. The backend's client publishes the      *)
(* queue to the broker, which retains the last payload of each topic; the  *)
(* connection may fail, with or without the message having arrived, and    *)
(* the backend then restarts to connect again.                             *)
(***************************************************************************)
EXTENDS Integers, FiniteSets

CONSTANTS
    Publishers,     \* the processes that queue messages
    Backend,        \* the one that also publishes them
    Topics,
    Payloads,
    NoPayload,
    MaxInQueue,     \* DSMRREADER_MQTT_MAX_MESSAGES_IN_QUEUE
    Caching,        \* DSMRREADER_MQTT_MAX_CACHE_TIMEOUT > 0
    MaxMessages,    \* bound on the messages: none is admitted after that many
    MaxCrashes      \* bound on the crashes of the backend

ASSUME MqttQueueAssumption ==
    /\ IsFiniteSet(Publishers)
    /\ Backend \in Publishers
    /\ NoPayload \notin Payloads
    /\ MaxInQueue \in Nat \ {0}
    /\ Caching \in BOOLEAN
    /\ MaxMessages \in Nat
    /\ MaxCrashes \in Nat

VARIABLES
    queue,      \* dsmr_mqtt_message
    nextPk,
    cache,      \* caches["mqtt"] of each process
    admitted,   \* the messages past the check of the queue's size, by process
    pc,         \* where the backend's client is in run()
    batch,      \* message_queue: what run() fetched and did not delete
    retained,   \* the broker: the last message of each topic
    latest,     \* history: the payload that should reach the broker
    lastBy,     \* history: the process that queued it, while it is not dropped
    crashes

publisherVars == <<cache, admitted>>
clientVars == <<pc, batch>>
historyVars == <<latest, lastBy>>
vars == <<queue, nextPk, publisherVars, clientVars, retained, historyVars, crashes>>

Message == [pk : Nat, topic : Topics, payload : Payloads]

Request == [topic : Topics, payload : Payloads]

Nothing == [pk |-> 0, payload |-> NoPayload]

TypeOK ==
    /\ queue \subseteq Message
    /\ nextPk \in Nat \ {0}
    /\ cache \in [Publishers -> [Topics -> Payloads \union {NoPayload}]]
    /\ admitted \in [Publishers -> SUBSET Request]
    /\ pc \in {"idle", "fetch", "publish", "delete", "closed"}
    /\ batch \subseteq Message
    /\ pc \in {"publish", "delete"} <=> batch # {}
    /\ retained \in [Topics -> [pk : Nat, payload : Payloads \union {NoPayload}]]
    /\ latest \in [Topics -> Payloads \union {NoPayload}]
    /\ lastBy \in [Topics -> SUBSET Publishers]
    /\ crashes \in Nat

EmptyCache == [t \in Topics |-> NoPayload]

Init ==
    /\ queue = {}
    /\ nextPk = 1
    /\ cache = [p \in Publishers |-> EmptyCache]
    /\ admitted = [p \in Publishers |-> {}]
    /\ pc = "closed"
    /\ batch = {}
    /\ retained = [t \in Topics |-> Nothing]
    /\ latest = [t \in Topics |-> NoPayload]
    /\ lastBy = [t \in Topics |-> {}]
    /\ crashes = 0

-----------------------------------------------------------------------------
(***************************************************************************)
(* queue_message(): the size of the queue is checked first, the message is *)
(* created later, and nothing keeps other processes from doing the same.   *)
(***************************************************************************)

\* The backend queues messages only while it is not publishing any.
MayQueue(p) == p = Backend => pc = "idle"

\* Fault: an off-by-one in the check.
Admit_OneMore(p, t, v) ==
    /\ nextPk <= MaxMessages
    /\ MayQueue(p)
    /\ admitted[p] = {}
    /\ Cardinality(queue) <= MaxInQueue
    /\ admitted' = [admitted EXCEPT ![p] = {[topic |-> t, payload |-> v]}]
    /\ UNCHANGED <<queue, nextPk, cache, clientVars, retained, historyVars, crashes>>

\* Past the check; a message for a full queue is rejected, which changes nothing.
Admit(p, t, v) ==
    /\ nextPk <= MaxMessages
    /\ MayQueue(p)
    /\ admitted[p] = {}
    /\ Cardinality(queue) < MaxInQueue
    /\ admitted' = [admitted EXCEPT ![p] = {[topic |-> t, payload |-> v]}]
    /\ UNCHANGED <<queue, nextPk, cache, clientVars, retained, historyVars, crashes>>

\* Fault: the cache is looked up by payload, whatever the topic.
IsCached_AnyTopic(p, m) == \E t \in Topics : cache[p][t] = m.payload

IsCached(p, m) == cache[p][m.topic] = m.payload

Remember(p, m) ==
    IF Caching THEN cache' = [cache EXCEPT ![p][m.topic] = m.payload] ELSE UNCHANGED cache

Enqueue(p) ==
    \E m \in admitted[p] :
        /\ admitted' = [admitted EXCEPT ![p] = {}]
        /\ \/ /\ IsCached(p, m)
              /\ latest' = IF p \in lastBy[m.topic]
                           THEN [latest EXCEPT ![m.topic] = m.payload]
                           ELSE latest
              /\ UNCHANGED <<queue, nextPk, cache, lastBy>>
           \/ /\ ~IsCached(p, m)
              /\ queue' = queue \union
                     {[pk |-> nextPk, topic |-> m.topic, payload |-> m.payload]}
              /\ nextPk' = nextPk + 1
              /\ Remember(p, m)
              /\ latest' = [latest EXCEPT ![m.topic] = m.payload]
              /\ lastBy' = [lastBy EXCEPT ![m.topic] = {p}]
        /\ UNCHANGED <<clientVars, retained, crashes>>

\* An entry of the cache expires, or its process was restarted.
Forget(p, t) ==
    /\ cache[p][t] # NoPayload
    /\ cache' = [cache EXCEPT ![p][t] = NoPayload]
    /\ UNCHANGED <<queue, nextPk, admitted, clientVars, retained, historyVars, crashes>>

-----------------------------------------------------------------------------
(***************************************************************************)
(* run() of the backend's client.                                          *)
(***************************************************************************)

\* The newest MaxInQueue messages.
Preserved == {m \in queue : Cardinality({n \in queue : n.pk > m.pk}) < MaxInQueue}

\* The topics of which nothing later than what is dropped stays in the queue.
Dropped(t) ==
    /\ \E m \in queue \ Preserved : m.topic = t
    /\ \A m \in Preserved : m.topic # t

DropExcess ==
    /\ pc = "idle"
    /\ admitted[Backend] = {}
    /\ queue' = Preserved
    /\ latest' = [t \in Topics |-> IF Dropped(t) THEN NoPayload ELSE latest[t]]
    /\ lastBy' = [t \in Topics |-> IF Dropped(t) THEN {} ELSE lastBy[t]]
    /\ pc' = "fetch"
    /\ UNCHANGED <<nextPk, publisherVars, batch, retained, crashes>>

Fetch ==
    /\ pc = "fetch"
    /\ batch' = queue
    /\ pc' = IF queue = {} THEN "idle" ELSE "publish"
    /\ UNCHANGED <<queue, nextPk, publisherVars, retained, historyVars, crashes>>

\* Fault: order_by("-pk").
Current_Newest(m) == m \in batch /\ \A n \in batch : m.pk >= n.pk

\* order_by("pk")
Current(m) == m \in batch /\ \A n \in batch : m.pk <= n.pk

Arrives(m) == retained' = [retained EXCEPT ![m.topic] = [pk |-> m.pk, payload |-> m.payload]]

\* publish(), and loop() until the broker acknowledged the message.
Publish(m) ==
    /\ pc = "publish"
    /\ Current(m)
    /\ Arrives(m)
    /\ pc' = "delete"
    /\ UNCHANGED <<queue, nextPk, publisherVars, batch, historyVars, crashes>>

\* What ends the backend process also empties its cache.
Close ==
    /\ pc' = "closed"
    /\ batch' = {}
    /\ cache' = [cache EXCEPT ![Backend] = EmptyCache]
    /\ admitted' = [admitted EXCEPT ![Backend] = {}]

\* loop() fails: the message may have arrived. A restart is asked for.
LoseConnection(m) ==
    /\ pc = "publish"
    /\ Current(m)
    /\ Arrives(m) \/ UNCHANGED retained
    /\ Close
    /\ UNCHANGED <<queue, nextPk, historyVars, crashes>>

\* Fault: the message stays in the queue.
Delete_Forgotten(m) ==
    /\ pc = "delete"
    /\ Current(m)
    /\ batch' = batch \ {m}
    /\ pc' = IF batch' = {} THEN "idle" ELSE "publish"
    /\ UNCHANGED <<queue, nextPk, publisherVars, retained, historyVars, crashes>>

\* Fault: the whole topic is deleted.
Delete_Topic(m) ==
    /\ pc = "delete"
    /\ Current(m)
    /\ queue' = {n \in queue : n.topic # m.topic}
    /\ batch' = batch \ {m}
    /\ pc' = IF batch' = {} THEN "idle" ELSE "publish"
    /\ UNCHANGED <<nextPk, publisherVars, retained, historyVars, crashes>>

Delete(m) ==
    /\ pc = "delete"
    /\ Current(m)
    /\ queue' = queue \ {m}
    /\ batch' = batch \ {m}
    /\ pc' = IF batch' = {} THEN "idle" ELSE "publish"
    /\ UNCHANGED <<nextPk, publisherVars, retained, historyVars, crashes>>

Crash ==
    /\ pc # "closed"
    /\ crashes < MaxCrashes
    /\ crashes' = crashes + 1
    /\ Close
    /\ UNCHANGED <<queue, nextPk, retained, historyVars>>

\* initialize_client() of the next process; as long as it fails to connect, it
\* asks for another restart.
Connect ==
    /\ pc = "closed"
    /\ pc' = "idle"
    /\ UNCHANGED <<queue, nextPk, publisherVars, batch, retained, historyVars, crashes>>

Client ==
    \/ DropExcess
    \/ Fetch
    \/ \E m \in batch : Delete(m)
    \/ Connect

Next ==
    \/ \E p \in Publishers, t \in Topics :
           \/ \E v \in Payloads : Admit(p, t, v)
           \/ Forget(p, t)
    \/ \E p \in Publishers : Enqueue(p)
    \/ Client
    \/ \E m \in batch : Publish(m) \/ LoseConnection(m)
    \/ Crash

Spec == Init /\ [][Next]_vars

\* The backend keeps running, and the broker acknowledges what is published to
\* it again and again.
FairSpec ==
    /\ Spec
    /\ WF_vars(Client)
    /\ SF_vars(DropExcess)
    /\ \A p \in Publishers : WF_vars(Enqueue(p))
    /\ SF_vars(\E m \in batch : Publish(m))

-----------------------------------------------------------------------------
(***************************************************************************)
(* What the queue promises.                                                *)
(***************************************************************************)

\* "Maximum message queue size will be maintained", although the size is checked
\* by several processes at a time before any of them creates its message: the
\* queue grows beyond its limit by at most one message of each other process.
QueueIsBounded == Cardinality(queue) <= MaxInQueue + Cardinality(Publishers) - 1

\* The queue is a channel that keeps the order, although messages are published
\* again after lost connections and crashes, and processes overtake each other:
\* what arrives is the oldest message, what leaves the queue has arrived, unless
\* it was dropped as the oldest of too many.
Channel == INSTANCE MessageChannel WITH
    waiting <- queue, next <- nextPk, values <- retained, Capacity <- MaxInQueue, Empty <- Nothing

ImplementsChannel == Channel!Spec

\* So the broker's values never go back: no topic gets an older message than it
\* had.
NoTopicGoesBack ==
    [][\A t \in Topics : retained'[t].pk >= retained[t].pk]_vars

\* The last value that was queued for a topic, or that was not queued as the same
\* process had it in its cache from having queued the last one, is on its way to
\* the broker, as the topic's last message in the queue, or it is there; unless it
\* was dropped because the queue was too long. A process that skips a value that
\* another process replaced meanwhile leaves the other one at the broker: of
\* those values nothing is claimed.
IsLastOf(m, t) == m.topic = t /\ \A n \in queue : n.topic = t => n.pk <= m.pk

LatestIsOnItsWay ==
    \A t \in Topics :
        latest[t] # NoPayload =>
            IF \E m \in queue : m.topic = t
            THEN \E m \in queue : IsLastOf(m, t) /\ m.payload = latest[t]
            ELSE retained[t].payload = latest[t]

\* Every message leaves the queue, however often the connection is lost.
QueueIsEmptied ==
    \A k \in 1..(MaxMessages + Cardinality(Publishers)) : []<>(\A m \in queue : m.pk # k)
===============================================================================
