------------------------------ MODULE LiveGraphs ------------------------------
(***************************************************************************)
(* A live graph (live/electricity.js, and alike the graphs of the phases,  *)
(* the voltage and the power current) and the view it polls. The page      *)
(* fetches the rows of the last hours once, and then, on a timer, those    *)
(* with a larger id than the last row it got. The database inserts rows    *)
(* meanwhile: in the order of their moments, unless the API has inserted   *)
(* readings of the past. Any request may fail.                             *)
(***************************************************************************)
EXTENDS Integers, FiniteSets, SequencesExt

CONSTANTS
    HoursRange,     \* FrontendSettings.live_graphs_hours_range
    Retroactive,    \* may rows be inserted for a moment in the past?
    LastTick,       \* bound on the clock
    MaxRows         \* bound on the rows

VARIABLES
    now,        \* timezone.now()
    rows,       \* dsmr_consumption_electricityconsumption: read_at by id
    loaded,     \* the first answer arrived: the timer runs
    inflight,   \* the requests sent, in order
    pending,    \* pending_xhr_request is not null
    delta,      \* latest_delta_id
    shown       \* the rows of the graph's series, from left to right

dbVars == <<now, rows>>
pageVars == <<loaded, inflight, pending, delta, shown>>
vars == <<dbVars, pageVars>>

Ids == DOMAIN rows

Request == [delta : Nat, served : BOOLEAN, answer : Seq(Nat)]

TypeOK ==
    /\ now \in Nat
    /\ rows \in Seq(Nat)
    /\ loaded \in BOOLEAN
    /\ inflight \in Seq(Request)
    /\ pending \in BOOLEAN
    /\ delta \in Nat
    /\ shown \in Seq(Nat)

Asked(id) == [delta |-> id, served |-> FALSE, answer |-> <<>>]

\* What every load of the page starts with: $.get().
Load ==
    /\ loaded' = FALSE
    /\ inflight' = <<Asked(0)>>
    /\ pending' = FALSE
    /\ delta' = 0
    /\ shown' = <<>>

Init ==
    /\ now = 1
    /\ rows = <<>>
    /\ loaded = FALSE
    /\ inflight = <<Asked(0)>>
    /\ pending = FALSE
    /\ delta = 0
    /\ shown = <<>>

-----------------------------------------------------------------------------
Tick ==
    /\ now < LastTick
    /\ now' = now + 1
    /\ UNCHANGED <<rows, pageVars>>

\* compact() creates a row; read_at is unique.
Insert(t) ==
    /\ Len(rows) < MaxRows
    /\ t =< now
    /\ \A id \in Ids : IF Retroactive THEN rows[id] # t ELSE rows[id] < t
    /\ rows' = Append(rows, t)
    /\ UNCHANGED <<now, pageVars>>

\* base_timestamp
InRange(id) == rows[id] > now - HoursRange

\* Fault: id__gte.
Selected_FromDelta(d) == {id \in Ids : InRange(id) /\ (d # 0 => id >= d)}

\* Fault: the rows of a later moment than the last row.
Selected_ByMoment(d) == {id \in Ids : InRange(id) /\ (d # 0 => rows[id] > rows[d])}

\* The rows of LiveXhrElectricityConsumption; without a delta, or with 0, all
\* that are in range.
Selected(d) == {id \in Ids : InRange(id) /\ (d # 0 => id > d)}

\* order_by("read_at")
InOrder(S) ==
    {s \in [1..Cardinality(S) -> S] :
        \A i, j \in 1..Cardinality(S) : i < j => rows[s[i]] < rows[s[j]]}

\* A worker of the web server answers.
Serve(i) ==
    /\ ~inflight[i].served
    /\ \E answer \in InOrder(Selected(inflight[i].delta)) :
           inflight' = [inflight EXCEPT ![i].served = TRUE, ![i].answer = answer]
    /\ UNCHANGED <<dbVars, loaded, pending, delta, shown>>

\* latest_delta_id: the id of the last row in the answer
LatestId(answer) == IF answer = <<>> THEN 0 ELSE Last(answer)

Forget(i) ==
    /\ pending' = FALSE
    /\ inflight' = RemoveAt(inflight, i)

\* The callback of the first request.
Start(i) ==
    /\ ~loaded
    /\ inflight[i].served
    /\ Forget(i)
    /\ loaded' = TRUE
    /\ delta' = LatestId(inflight[i].answer)
    /\ shown' = inflight[i].answer
    /\ UNCHANGED dbVars

\* The callbacks of an update: done(), which returns at once if there are no
\* new rows, and always().
Update(i) ==
    /\ loaded
    /\ inflight[i].served
    /\ Forget(i)
    /\ IF inflight[i].answer = <<>>
       THEN UNCHANGED <<delta, shown>>
       ELSE /\ delta' = LatestId(inflight[i].answer)
            /\ shown' = shown \o inflight[i].answer
    /\ UNCHANGED <<dbVars, loaded>>

\* Fault: what is pending stays so.
Lose_StaysPending(i) ==
    /\ inflight' = RemoveAt(inflight, i)
    /\ UNCHANGED <<dbVars, loaded, pending, delta, shown>>

\* No answer, or an error. If it was the first request, there is no timer.
Lose(i) ==
    /\ Forget(i)
    /\ UNCHANGED <<dbVars, loaded, delta, shown>>

\* Fault: no check of what is pending.
Poll_Anyway ==
    /\ loaded
    /\ pending' = TRUE
    /\ inflight' = Append(inflight, Asked(delta))
    /\ UNCHANGED <<dbVars, loaded, delta, shown>>

\* The timer: "Do not send new XHR request update if the previous one is still
\* pending."
Poll ==
    /\ loaded
    /\ ~pending
    /\ pending' = TRUE
    /\ inflight' = Append(inflight, Asked(delta))
    /\ UNCHANGED <<dbVars, loaded, delta, shown>>

\* The user reloads the page, or location.reload() after five minutes does.
Reload == Load /\ UNCHANGED dbVars

Next ==
    \/ Tick
    \/ \E t \in 1..LastTick : Insert(t)
    \/ \E i \in DOMAIN inflight : Serve(i) \/ Start(i) \/ Update(i) \/ Lose(i)
    \/ Poll
    \/ Reload

Spec == Init /\ [][Next]_vars

-----------------------------------------------------------------------------
\* A row of a moment for which the database already had a later one.
Late(id) == \E other \in Ids : other < id /\ rows[other] > rows[id]

(***************************************************************************)
(* The graph shows each row once, in the order of the moments, however the *)
(* inserts, the answers and the failures interleave. Only a late row is    *)
(* out of place, or repeated: the last row of an answer is the one of the  *)
(* latest moment, which then has a smaller id than the late one.           *)
(***************************************************************************)
RowsInOrder ==
    \A i, j \in DOMAIN shown :
        i < j /\ ~(rows[shown[i]] < rows[shown[j]]) => Late(shown[j])

(***************************************************************************)
(* Nothing is skipped: the rows behind the delta are in the graph, except  *)
(* for those too long ago.                                                 *)
(***************************************************************************)
NothingSkipped ==
    \A id \in Ids : id =< delta /\ InRange(id) => \E i \in DOMAIN shown : shown[i] = id

(***************************************************************************)
(* The graph is up to date: it has every row in range.                     *)
(***************************************************************************)
UpToDate == \A id \in Ids : InRange(id) => \E i \in DOMAIN shown : shown[i] = id
===============================================================================
