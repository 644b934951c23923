--------------------------- MODULE ConsumptionHeader ---------------------------
(***************************************************************************)
(* The header of the dashboard and of the live graphs                      *)
(* (consumption-header.js): the latest reading, which the page fetches     *)
(* again and again.  There is no interval: each request starts the timer   *)
(* of the next one when it is done, whether it succeeded or not.           *)
(***************************************************************************)
EXTENDS Naturals, SequencesExt

CONSTANTS
    MaxReadings     \* bound on the readings

VARIABLES
    latest,     \* the number of readings, the latest of which is asked for
    timers,     \* the timeouts that run
    inflight,   \* the requests sent; served ones with their answer
    shown       \* the reading in the header, 0 if none

vars == <<latest, timers, inflight, shown>>

Request == [served : BOOLEAN, answer : Nat]

TypeOK ==
    /\ latest \in Nat
    /\ timers \in Nat
    /\ inflight \in Seq(Request)
    /\ shown \in Nat

Asked == [served |-> FALSE, answer |-> 0]

Init ==
    /\ latest = 0
    /\ timers = 0
    /\ inflight = <<Asked>>
    /\ shown = 0

\* Readings are inserted in the order of their timestamps.
Insert ==
    /\ latest < MaxReadings
    /\ latest' = latest + 1
    /\ UNCHANGED <<timers, inflight, shown>>

\* Fault: the browser caches the answers.
Serve_Cached(i) ==
    /\ ~inflight[i].served
    /\ inflight' = [inflight EXCEPT ![i] = [served |-> TRUE, answer |-> IF shown = 0 THEN latest ELSE shown]]
    /\ UNCHANGED <<latest, timers, shown>>

\* XhrHeader, of which nothing is cached: live_electricity_consumption()
Serve(i) ==
    /\ ~inflight[i].served
    /\ inflight' = [inflight EXCEPT ![i] = [served |-> TRUE, answer |-> latest]]
    /\ UNCHANGED <<latest, timers, shown>>

\* Fault: the next update is scheduled while this one is being sent.
Update_Ahead ==
    /\ timers > 0
    /\ inflight' = Append(inflight, Asked)
    /\ UNCHANGED <<latest, timers, shown>>

\* update_consumption_header(), when a timer runs out
Update ==
    /\ timers > 0
    /\ timers' = timers - 1
    /\ inflight' = Append(inflight, Asked)
    /\ UNCHANGED <<latest, shown>>

\* .always()
Reschedule(i) ==
    /\ inflight' = RemoveAt(inflight, i)
    /\ timers' = timers + 1

Done(i) ==
    /\ inflight[i].served
    /\ Reschedule(i)
    /\ shown' = inflight[i].answer
    /\ UNCHANGED latest

Fail(i) ==
    /\ Reschedule(i)
    /\ UNCHANGED <<latest, shown>>

Next ==
    \/ Insert
    \/ \E i \in DOMAIN inflight : Serve(i) \/ Done(i) \/ Fail(i)
    \/ Update

Spec == Init /\ [][Next]_vars

-----------------------------------------------------------------------------
(***************************************************************************)
(* The header never goes back to an earlier reading.                       *)
(***************************************************************************)
HeaderGoesForward == [][shown' >= shown]_vars

(***************************************************************************)
(* There is always one update to come or under way: failures neither end   *)
(* the chain, nor start a second one.                                      *)
(***************************************************************************)
OneUpdate == timers + Len(inflight) = 1
===============================================================================
