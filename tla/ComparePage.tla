----------------------------- MODULE ComparePage -----------------------------
(***************************************************************************)
(* The comparison page (compare.js): two date pickers and, once a date is  *)
(* selected in both, a summary that compares them.  Nothing is aborted.    *)
(***************************************************************************)
EXTENDS DatePicker, Xhr

CONSTANTS
    Periods,        \* the dates to choose from
    Nothing,        \* no date selected, no summary visible
    MaxInFlight     \* bound on the requests in flight

VARIABLES
    mode,       \* g_datepicker_view_mode
    view,       \* the viewMode of each picker
    picked,     \* the date each picker highlights
    selections, \* g_datepicker_selections
    inflight,
    shown,      \* the comparison the summary is of, if visible
    outdated    \* history: whether the page had moved on from it by then

vars == <<mode, view, picked, selections, inflight, shown, outdated>>

Pickers == {1, 2}

Comparison(level, dates) == [level |-> level, base |-> dates[1], comparison |-> dates[2]]

Comparisons == [level : Levels, base : Periods, comparison : Periods]

NoSelections == [p \in Pickers |-> Nothing]

TypeOK ==
    /\ mode \in Levels
    /\ view \in [Pickers -> Levels]
    /\ picked \in [Pickers -> Periods \union {Nothing}]
    /\ selections \in [Pickers -> Periods \union {Nothing}]
    /\ inflight \in Seq([request : Comparisons, overtaken : BOOLEAN])
    /\ shown \in Comparisons \union {Nothing}
    /\ outdated \in BOOLEAN

Init ==
    /\ mode = Months
    /\ view = [p \in Pickers |-> Months]
    /\ picked = NoSelections
    /\ selections = NoSelections
    /\ inflight = <<>>
    /\ shown = Nothing
    /\ outdated = FALSE

\* Fault: the selections survive.
ShowMode_KeepsSelections(m) ==
    /\ mode' = m
    /\ view' = [p \in Pickers |-> m]
    /\ picked' = NoSelections
    /\ inflight' = OvertakenUpTo(inflight, Len(inflight))
    /\ outdated' = TRUE
    /\ UNCHANGED <<selections, shown>>

\* initialize_datepicker() of both: what is shown stays until it is replaced.
ShowMode(m) ==
    /\ mode' = m
    /\ view' = [p \in Pickers |-> m]
    /\ picked' = NoSelections
    /\ selections' = NoSelections
    /\ inflight' = OvertakenUpTo(inflight, Len(inflight))
    /\ outdated' = TRUE
    /\ UNCHANGED shown

\* update_summary()
UpdateSummary ==
    IF \E p \in Pickers : selections'[p] = Nothing
    THEN UNCHANGED <<inflight, shown>>
    ELSE /\ Len(inflight) < MaxInFlight
         /\ inflight' = Sent(inflight, Comparison(mode, selections'))
         /\ shown' = Nothing

\* A click in one of the pickers.
Select(p) ==
    \E c \in Clicks(view[p], mode, Periods) :
        /\ view' = [view EXCEPT ![p] = c.view]
        /\ picked' = [picked EXCEPT ![p] = Highlighted(c.events, @)]
        /\ IF Triggered(c.events, Handled(mode)) = {}
           THEN UNCHANGED <<selections, inflight, shown>>
           ELSE /\ selections' = [selections EXCEPT ![p] = LastDate(c.events, Handled(mode))]
                /\ UpdateSummary
        /\ UNCHANGED <<mode, outdated>>

Answer(i) ==
    /\ shown' = inflight[i].request
    /\ outdated' = inflight[i].overtaken
    /\ inflight' = Completed(inflight, i)
    /\ UNCHANGED <<mode, view, picked, selections>>

\* An error, or no answer. What an earlier answer shows meanwhile, stays.
Fail(i) ==
    /\ outdated' = TRUE
    /\ inflight' = Completed(inflight, i)
    /\ UNCHANGED <<mode, view, picked, selections, shown>>

Next ==
    \/ \E m \in Levels : ShowMode(m)
    \/ \E p \in Pickers : Select(p)
    \/ \E i \in DOMAIN inflight : Answer(i) \/ Fail(i)

Spec == Init /\ [][Next]_vars

-----------------------------------------------------------------------------
(***************************************************************************)
(* With nothing in flight, the summary compares the two dates highlighted, *)
(* at the level that is switched on: unless the user switched the level    *)
(* since, a request failed, or its answer was overtaken by a later one.    *)
(* Then an earlier comparison is left standing, as nothing is aborted.     *)
(***************************************************************************)
ShowsSelections ==
    shown # Nothing /\ inflight = <<>> /\ ~outdated => shown = Comparison(mode, picked)
===============================================================================
