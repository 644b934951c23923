------------------------------ MODULE TrendsPage ------------------------------
(***************************************************************************)
(* The trends page: two date pickers for a period, the averages of which   *)
(* (average.js) and the division over the tariffs of which (tariff.js) are *)
(* fetched apart, on every change.  Nothing is aborted.                    *)
(***************************************************************************)
EXTENDS Xhr

CONSTANTS
    Periods,        \* the dates to choose from
    EndDate,        \* DATEPICKER_END_DATE, in both pickers at first
    Nothing,        \* a graph that is loading
    MaxInFlight     \* bound on the requests in flight of each graph

VARIABLES
    picked,     \* the start and the end date that the pickers highlight
    inflight,   \* the requests of each graph
    shown,      \* what each graph shows: loading, the error, or the data of a period
    outdated    \* history: whether the page had moved on from it by then

vars == <<picked, inflight, shown, outdated>>

Graphs == {"averages", "tariffs"}

Period == [start : Periods, end : Periods]

Shown(period, ok) == [period |-> period, ok |-> ok]

TypeOK ==
    /\ picked \in Period
    /\ inflight \in [Graphs -> Seq([request : Period, overtaken : BOOLEAN])]
    /\ shown \in [Graphs -> [period : Period, ok : BOOLEAN] \union {Nothing}]
    /\ outdated \in [Graphs -> BOOLEAN]

\* update_trends() when the page is ready
Init ==
    /\ picked = [start |-> EndDate, end |-> EndDate]
    /\ inflight = [g \in Graphs |-> Sent(<<>>, picked)]
    /\ shown = [g \in Graphs |-> Nothing]
    /\ outdated = [g \in Graphs |-> FALSE]

\* Fault: the averages only.
UpdateTrends_Averages(period) ==
    /\ inflight' = [inflight EXCEPT !["averages"] = Sent(@, period)]
    /\ shown' = [shown EXCEPT !["averages"] = Nothing]

\* update_trends_averages() and update_trends_tariffs()
UpdateTrends(period) ==
    /\ inflight' = [g \in Graphs |-> Sent(inflight[g], period)]
    /\ shown' = [g \in Graphs |-> Nothing]

\* changeDate in either picker: for the same date too
Select(period) ==
    /\ \A g \in Graphs : Len(inflight[g]) < MaxInFlight
    /\ period.start = picked.start \/ period.end = picked.end
    /\ picked' = period
    /\ UpdateTrends(period)
    /\ UNCHANGED outdated

\* .done() draws the graph over the error of another request, .fail() puts the
\* error over the graph of another.
Complete(g, i, ok) ==
    /\ shown' = [shown EXCEPT ![g] = Shown(inflight[g][i].request, ok)]
    /\ outdated' = [outdated EXCEPT ![g] = inflight[g][i].overtaken]
    /\ inflight' = [inflight EXCEPT ![g] = Completed(@, i)]
    /\ UNCHANGED picked

Next ==
    \/ \E period \in Period : Select(period)
    \/ \E g \in Graphs : \E i \in DOMAIN inflight[g] :
           \/ Complete(g, i, TRUE)
           \/ Complete(g, i, FALSE)

Spec == Init /\ [][Next]_vars

-----------------------------------------------------------------------------
(***************************************************************************)
(* With nothing in flight, both graphs are of the period that the pickers  *)
(* highlight, or say that it could not be fetched: unless the last answer  *)
(* was one that a later request's answer had overtaken, in which case the  *)
(* two graphs may even be of different periods.                            *)
(***************************************************************************)
GraphsAgree ==
    \A g \in Graphs :
        inflight[g] = <<>> /\ ~outdated[g] => shown[g] # Nothing /\ shown[g].period = picked
===============================================================================
