------------------------------ MODULE DatePicker ------------------------------
(***************************************************************************)
(* The date picker of the archive, comparison and trends pages, as far as  *)
(* those depend on it: which events a click triggers, with which date, and *)
(* in which order.  A picker shows the days of a month, the months of a    *)
(* year or the years of a decade (its view); a date is selected in the     *)
(* lowest of its views (minViewMode).                                      *)
(***************************************************************************)
EXTENDS Naturals, SequencesExt

Days == 0
Months == 1
Years == 2      \* maxViewMode

Levels == {Days, Months, Years}

\* The handlers' events, and one that has none.
EventNames == {"changeDate", "changeMonth", "changeYear", "changeDecade"}

\* DPGlobal.viewModes[level].e
LevelEvent(level) ==
    CASE level = Days -> "changeMonth"
      [] level = Months -> "changeYear"
      [] level = Years -> "changeDecade"

Event(name, date) == [name |-> name, date |-> date]

\* A click leaves a view and triggers events.
Click(view, events) == [view |-> view, events |-> events]

SwitchClicks(view) == IF view = Years THEN {} ELSE {Click(view + 1, <<>>)}

ArrowClicks(view, dates) == {Click(view, <<Event(LevelEvent(view), d)>>) : d \in dates}

\* A month or a year: the event of the view below, then the selection if this
\* is the lowest view, or else a view down.
CellClicks(view, min, dates) ==
    IF view = Days
    THEN {}
    ELSE {LET moved == Event(LevelEvent(view - 1), d)
          IN  IF view = min
              THEN Click(view, <<moved, Event("changeDate", d)>>)
              ELSE Click(view - 1, <<moved>>) : d \in dates}

\* A day. One of an adjacent month first announces that month, and maybe its
\* year, still with the date that the view had.
DayClicks(view, dates) ==
    IF view # Days
    THEN {}
    ELSE {Click(Days, moves \o <<Event("changeDate", d)>>) :
             moves \in {<<>>} \union {<<Event("changeMonth", v)>> : v \in dates}
                       \union {<<Event("changeYear", v), Event("changeMonth", v)>> : v \in dates},
             d \in dates}

Clicks(view, min, dates) ==
    SwitchClicks(view) \union ArrowClicks(view, dates)
        \union CellClicks(view, min, dates) \union DayClicks(view, dates)

\* Fault: the handlers do not look at the mode.
Handled_Any(m) == {"changeDate", "changeMonth", "changeYear"}

\* The handlers of a page, each of which returns at once in another mode than its own.
Handled(m) ==
    CASE m = Days -> {"changeDate"}
      [] m = Months -> {"changeMonth"}
      [] m = Years -> {"changeYear"}

\* The events of a click for which a handler of these does anything.
Triggered(events, names) == {i \in DOMAIN events : events[i].name \in names}

\* The date it goes by: each call replaces what the one before it asked for.
LastDate(events, names) == events[Max(Triggered(events, names))].date

\* The date that the picker highlights afterwards.
Highlighted(events, before) ==
    IF Triggered(events, {"changeDate"}) = {}
    THEN before
    ELSE LastDate(events, {"changeDate"})
===============================================================================
