----------------------------- MODULE ArchivePage -----------------------------
(***************************************************************************)
(* The archive page (archive.js): a date picker at one of three levels,    *)
(* and below it a summary and graphs of the period selected, each fetched  *)
(* with a request of its own.  A new selection aborts what is pending.     *)
(***************************************************************************)
EXTENDS DatePicker

CONSTANTS
    Periods,        \* the dates to choose from
    EndDate,        \* DATEPICKER_END_DATE, which is selected at first
    Nothing         \* a part of the page that is hidden

VARIABLES
    mode,       \* g_datepicker_view_mode
    view,       \* the picker's viewMode
    picked,     \* the date the picker highlights
    inflight,   \* the requests of each part, in order, neither answered nor aborted
    pending,    \* summary_xhr_request, g_graph_xhr_request: not null?
    shown       \* the selection the summary and the graphs are of, if visible

vars == <<mode, view, picked, inflight, pending, shown>>

Parts == {"summary", "graphs"}

Selection == Levels \X Periods

TypeOK ==
    /\ mode \in Levels
    /\ view \in Levels
    /\ picked \in Periods
    /\ inflight \in [Parts -> Seq(Selection)]
    /\ pending \in [Parts -> BOOLEAN]
    /\ shown \in [Parts -> Selection \union {Nothing}]

\* $.ajax(), for each part
Sent(requests, selection) == [p \in Parts |-> Append(requests[p], selection)]

\* Fault: the earlier requests are left alone.
UpdateView_NoAbort(selection) ==
    /\ inflight' = Sent(inflight, selection)
    /\ pending' = [p \in Parts |-> TRUE]
    /\ shown' = [p \in Parts |-> Nothing]

\* abort(): the variable has the last request sent, until any is completed.
Aborted == [p \in Parts |-> IF pending[p] THEN Front(inflight[p]) ELSE inflight[p]]

\* update_summary() and update_graphs(): both hide what they show, abort their
\* own pending request and send the next.
UpdateView(selection) ==
    /\ inflight' = Sent(Aborted, selection)
    /\ pending' = [p \in Parts |-> TRUE]
    /\ shown' = [p \in Parts |-> Nothing]

Init ==
    /\ mode = Months
    /\ view = Months
    /\ picked = EndDate
    /\ inflight = [p \in Parts |-> <<(<<Months, EndDate>>)>>]
    /\ pending = [p \in Parts |-> TRUE]
    /\ shown = [p \in Parts |-> Nothing]

\* initialize_datepicker(), for one of the three triggers: also the current one
ShowMode(m) ==
    /\ mode' = m
    /\ view' = m
    /\ picked' = EndDate
    /\ UpdateView(<<m, EndDate>>)

\* A click in the picker.
Select ==
    \E c \in Clicks(view, mode, Periods) :
        /\ view' = c.view
        /\ picked' = Highlighted(c.events, picked)
        /\ mode' = mode
        /\ IF Triggered(c.events, Handled(mode)) = {}
           THEN UNCHANGED <<inflight, pending, shown>>
           ELSE UpdateView(<<mode, LastDate(c.events, Handled(mode))>>)

Complete(p, i) ==
    /\ inflight' = [inflight EXCEPT ![p] = RemoveAt(@, i)]
    /\ pending' = [pending EXCEPT ![p] = FALSE]
    /\ UNCHANGED <<mode, view, picked>>

Answer(p, i) ==
    /\ Complete(p, i)
    /\ shown' = [shown EXCEPT ![p] = inflight[p][i]]

\* An error, or no answer: what was hidden stays hidden.
Fail(p, i) ==
    /\ Complete(p, i)
    /\ UNCHANGED shown

Next ==
    \/ \E m \in Levels : ShowMode(m)
    \/ Select
    \/ \E p \in Parts : \E i \in DOMAIN inflight[p] : Answer(p, i) \/ Fail(p, i)

Spec == Init /\ [][Next]_vars

-----------------------------------------------------------------------------
(***************************************************************************)
(* However quickly the user clicks, whatever the order of the answers, and *)
(* although most clicks trigger events of more than one level: the summary *)
(* and the graphs are of the date that the picker highlights, at the level *)
(* that is switched on, and so of the same period.                         *)
(***************************************************************************)
ShowsSelection == \A p \in Parts : shown[p] \in {Nothing, <<mode, picked>>}
===============================================================================
