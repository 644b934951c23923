------------------------------- MODULE Browser -------------------------------
(***************************************************************************)
(* A tab of the browser with one of the pages that fetch data: they all    *)
(* have requests in flight and something shown, and share no more than the *)
(* names. What a page does not have is Nothing. Leaving a page discards    *)
(* all of its state, as does reloading it, so each behaviour is that of    *)
(* the page it starts with.                                                *)
(***************************************************************************)
EXTENDS Integers, Sequences

CONSTANTS
    Periods, EndDate, Nothing, MaxInFlight,         \* the pages with date pickers
    HoursRange, Retroactive, LastTick, MaxRows,     \* the live graphs
    MaxReadings                                     \* the header

ASSUME BrowserAssumption ==
    /\ EndDate \in Periods
    /\ Nothing \notin Periods
    /\ Nothing \notin [period : [start : Periods, end : Periods], ok : BOOLEAN]
    /\ MaxInFlight \in Nat \ {0}
    /\ HoursRange \in Nat \ {0}
    /\ Retroactive \in BOOLEAN
    /\ LastTick \in Nat
    /\ MaxRows \in Nat
    /\ MaxReadings \in Nat

VARIABLES
    page,
    inflight, shown,            \* every page
    mode, view, picked,         \* the date pickers
    selections, outdated,       \* comparison, trends
    pending,                    \* archive, live graphs
    now, rows, loaded, delta,
    latest, timers

pickerVars == <<mode, view, picked>>
selectionVars == <<selections, outdated>>
liveVars == <<now, rows, loaded, delta>>
headerVars == <<latest, timers>>
vars == <<page, inflight, shown, pickerVars, selectionVars, pending, liveVars, headerVars>>

Archive == INSTANCE ArchivePage
Compare == INSTANCE ComparePage
Trends == INSTANCE TrendsPage
Live == INSTANCE LiveGraphs
Header == INSTANCE ConsumptionHeader

NoPickers == mode = Nothing /\ view = Nothing

NoLive == now = Nothing /\ rows = Nothing /\ loaded = Nothing /\ delta = Nothing

NoHeader == latest = Nothing /\ timers = Nothing

Init ==
    \/ /\ page = "archive"
       /\ Archive!Init
       /\ selections = Nothing /\ outdated = Nothing
       /\ NoLive /\ NoHeader
    \/ /\ page = "compare"
       /\ Compare!Init
       /\ pending = Nothing
       /\ NoLive /\ NoHeader
    \/ /\ page = "trends"
       /\ Trends!Init
       /\ NoPickers
       /\ selections = Nothing /\ pending = Nothing
       /\ NoLive /\ NoHeader
    \/ /\ page = "live"
       /\ Live!Init
       /\ NoPickers
       /\ picked = Nothing /\ selections = Nothing /\ outdated = Nothing
       /\ NoHeader
    \/ /\ page = "header"
       /\ Header!Init
       /\ NoPickers
       /\ picked = Nothing /\ selections = Nothing /\ outdated = Nothing
       /\ pending = Nothing
       /\ NoLive

OnArchive(A) ==
    page = "archive" /\ A /\ UNCHANGED <<page, selectionVars, liveVars, headerVars>>

OnCompare(A) ==
    page = "compare" /\ A /\ UNCHANGED <<page, pending, liveVars, headerVars>>

OnTrends(A) ==
    page = "trends" /\ A /\ UNCHANGED <<page, mode, view, selections, pending, liveVars, headerVars>>

OnLive(A) ==
    page = "live" /\ A /\ UNCHANGED <<page, pickerVars, selectionVars, headerVars>>

OnHeader(A) ==
    page = "header" /\ A /\ UNCHANGED <<page, pickerVars, selectionVars, pending, liveVars>>

Next ==
    \/ OnArchive(Archive!Next)
    \/ OnCompare(Compare!Next)
    \/ OnTrends(Trends!Next)
    \/ OnLive(Live!Next)
    \/ OnHeader(Header!Next)

Spec == Init /\ [][Next]_vars

(***************************************************************************)
(* The timers of a page run, and a request is answered again and again,    *)
(* although any number of them may fail.  Nothing makes the user click.    *)
(***************************************************************************)
FairSpec ==
    /\ Spec
    /\ WF_vars(OnLive(Live!Poll))
    /\ SF_vars(OnLive(\E i \in DOMAIN inflight : Live!Serve(i)))
    /\ SF_vars(OnLive(\E i \in DOMAIN inflight : Live!Update(i)))
    /\ WF_vars(OnHeader(Header!Update))
    /\ SF_vars(OnHeader(\E i \in DOMAIN inflight : Header!Serve(i)))
    /\ SF_vars(OnHeader(\E i \in DOMAIN inflight : Header!Done(i)))

-----------------------------------------------------------------------------
(***************************************************************************)
(* The archive shows what is selected (ArchivePage, ShowsSelection).       *)
(***************************************************************************)
ArchiveShowsSelection == page = "archive" => Archive!ShowsSelection

(***************************************************************************)
(* The comparison is of what is selected, unless an answer was overtaken,  *)
(* a request failed or the level was switched (ComparePage).               *)
(***************************************************************************)
ComparisonIsOfSelections == page = "compare" => Compare!ShowsSelections

(***************************************************************************)
(* The graphs of the trends are of the period selected, and so of the same *)
(* one, unless the last answer had been overtaken (TrendsPage).            *)
(***************************************************************************)
TrendsAgree == page = "trends" => Trends!GraphsAgree

(***************************************************************************)
(* A live graph has each row once and in order, but for those inserted     *)
(* late (LiveGraphs, RowsInOrder).                                         *)
(***************************************************************************)
LiveRowsInOrder == page = "live" => Live!RowsInOrder

(***************************************************************************)
(* A live graph skips no row that it says it has (NothingSkipped).         *)
(***************************************************************************)
LiveSkipsNothing == page = "live" => Live!NothingSkipped

(***************************************************************************)
(* A live graph gets up to date again and again, without being reloaded,   *)
(* once its first rows are there, whatever fails then.                     *)
(***************************************************************************)
LiveGraphFollows == []<>(page = "live" /\ loaded => Live!UpToDate)

(***************************************************************************)
(* The header of the page gets up to date again and again, whatever fails. *)
(***************************************************************************)
HeaderFollows == []<>(page = "header" => shown = latest)

(***************************************************************************)
(* The header never goes back to an earlier reading.                       *)
(***************************************************************************)
HeaderGoesForward == [][page = "header" => shown' >= shown]_vars
===============================================================================
