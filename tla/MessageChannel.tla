---------------------------- MODULE MessageChannel ----------------------------
(***************************************************************************)
(* What the MQTT queue promises: a channel to the broker's topics. It has  *)
(* no processes, caches, connections or crashes: messages are numbered as  *)
(* they are sent, arrive one at a time in that order, each perhaps several *)
(* times, and leave the channel only after they arrived, or as the oldest  *)
(* of too many.                                                            *)
(***************************************************************************)
EXTENDS Integers, FiniteSets

CONSTANTS
    Topics,
    Payloads,
    Capacity,
    Empty           \* what a topic has at first

VARIABLES
    waiting,    \* the messages that were sent and not confirmed
    next,       \* the number of the next message
    values      \* the message that each topic got last

vars == <<waiting, next, values>>

Init ==
    /\ waiting = {}
    /\ next = 1
    /\ values = [t \in Topics |-> Empty]

Send ==
    \E t \in Topics, v \in Payloads :
        /\ waiting' = waiting \union {[pk |-> next, topic |-> t, payload |-> v]}
        /\ next' = next + 1
        /\ UNCHANGED values

IsOldest(m) == \A n \in waiting : m.pk <= n.pk

Value(m) == [pk |-> m.pk, payload |-> m.payload]

Arrive(m) ==
    /\ IsOldest(m)
    /\ values' = [values EXCEPT ![m.topic] = Value(m)]
    /\ UNCHANGED <<waiting, next>>

\* Only what arrived is removed.
Confirm(m) ==
    /\ IsOldest(m)
    /\ values[m.topic] = Value(m)
    /\ waiting' = waiting \ {m}
    /\ UNCHANGED <<next, values>>

\* The Capacity newest messages stay.
Discard ==
    /\ waiting' = {m \in waiting : Cardinality({n \in waiting : n.pk > m.pk}) < Capacity}
    /\ UNCHANGED <<next, values>>

Next ==
    \/ Send
    \/ \E m \in waiting : Arrive(m) \/ Confirm(m)
    \/ Discard

Spec == Init /\ [][Next]_vars
===============================================================================
