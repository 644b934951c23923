--------------------------- MODULE QuarterHourPeaks ---------------------------
(***************************************************************************)
(* The quarter-hour peaks (run_quarter_hour_peaks() in dsmr_consumption).  *)
(* What the next call does follows from the moment it was planned at       *)
(* alone: it targets the last quarter that ended by then.  The service     *)
(* moves that moment along with the readings; the administrator may move   *)
(* it too.  A tick stands for the five seconds of a postponement.          *)
(***************************************************************************)
EXTENDS Integers, FiniteSets, FiniteSetsExt, Sequences

CONSTANTS
    Quarter,        \* MINUTE_INTERVAL, in ticks
    MaxSilence,     \* the longest time without any reading
    LastTick,       \* bound on the clock
    MaxMoves,       \* bound on the moves of the planned moment in the admin
    MaxCrashes      \* bound on the crashes of the backend

ASSUME QuarterHourPeaksAssumption ==
    /\ Quarter \in Nat \ {0}
    /\ MaxSilence \in Nat \ {0}
    /\ LastTick \in Nat
    /\ MaxMoves \in Nat
    /\ MaxCrashes \in Nat

VARIABLES
    clock,
    readings,   \* the timestamps in dsmr_datalogger_dsmrreading
    peaks,      \* the rows: read_at_start and read_at_end
    planned,    \* ScheduledProcess.planned
    pc,         \* where the backend is: not in the service, or in it
    seen,       \* the planned moment of the instance the service was given
    created,    \* new_instance.read_at_end
    moves,
    crashes

serviceVars == <<pc, seen, created>>
vars == <<clock, readings, peaks, planned, serviceVars, moves, crashes>>

Ticks == 0..LastTick

TypeOK ==
    /\ clock \in Ticks
    /\ readings \subseteq Ticks
    /\ peaks \in Seq([start : Ticks, end : Ticks])
    /\ planned \in 0..(LastTick + Quarter)
    /\ pc \in {"idle", "running", "created"}
    /\ seen \in Ticks
    /\ created \in Ticks
    /\ moves \in 0..MaxMoves
    /\ crashes \in 0..MaxCrashes

Init ==
    /\ clock = 0
    /\ readings = {}
    /\ peaks = <<>>
    /\ planned = 0
    /\ pc = "idle"
    /\ seen = 0
    /\ created = 0
    /\ moves = 0
    /\ crashes = 0

-----------------------------------------------------------------------------
LastReading == IF readings = {} THEN 0 ELSE Max(readings)

Tick ==
    /\ clock < LastTick
    /\ clock + 1 - LastReading =< MaxSilence
    /\ clock' = clock + 1
    /\ UNCHANGED <<readings, peaks, planned, serviceVars, moves, crashes>>

\* Telegrams arrive in the order of their timestamps, maybe late.
Receive(t) ==
    /\ LastReading < t /\ t =< clock
    /\ readings' = readings \union {t}
    /\ UNCHANGED <<clock, peaks, planned, serviceVars, moves, crashes>>

\* Next call in the admin: to have a stretch of time calculated again.
MoveBack(t) ==
    /\ moves < MaxMoves
    /\ t < planned
    /\ planned' = t
    /\ moves' = moves + 1
    /\ UNCHANGED <<clock, readings, peaks, serviceVars, crashes>>

-----------------------------------------------------------------------------
\* end: fuzzy_start rewound to xx:00, xx:15, xx:30 or xx:45.
TargetEnd(t) == t - (t % Quarter)

TargetStart(t) == TargetEnd(t) - Quarter

QuarterReadings(t) ==
    {r \in readings : TargetStart(t) =< r /\ r =< TargetEnd(t)}

\* Fault: the service no longer waits for a reading after the quarter.
AwaitingReadings_Never(t) == FALSE

AwaitingReadings(t) == \A r \in readings : r < TargetEnd(t)

TooFewReadings(t) == Cardinality(QuarterReadings(t)) < 2

\* Fault: the lookup takes the row to be stored at the quarter itself.
AlreadyProcessed_Exactly(t) == \E i \in DOMAIN peaks : peaks[i].start = TargetStart(t)

\* existing_data
AlreadyProcessed(t) ==
    \E i \in DOMAIN peaks :
        TargetStart(t) =< peaks[i].start /\ peaks[i].start =< TargetEnd(t)

\* ScheduledProcess.reschedule(), postpone()
Reschedule(t) ==
    /\ planned' = t
    /\ pc' = "idle"
    /\ UNCHANGED <<seen, created>>

Start ==
    /\ pc = "idle"
    /\ planned =< clock
    /\ pc' = "running"
    /\ seen' = planned
    /\ UNCHANGED <<clock, readings, peaks, planned, created, moves, crashes>>

\* Fault: a wait that passes over the rest of the quarter.
Await_Quarter ==
    /\ pc = "running"
    /\ AwaitingReadings(seen)
    /\ Reschedule(seen + Quarter)
    /\ UNCHANGED <<clock, readings, peaks, moves, crashes>>

Await ==
    /\ pc = "running"
    /\ AwaitingReadings(seen)
    /\ Reschedule(seen + 1)
    /\ UNCHANGED <<clock, readings, peaks, moves, crashes>>

\* Fault: a quarter without enough readings is tried again.
SkipQuarter_Stays ==
    /\ pc = "running"
    /\ ~AwaitingReadings(seen)
    /\ TooFewReadings(seen)
    /\ Reschedule(seen)
    /\ UNCHANGED <<clock, readings, peaks, moves, crashes>>

SkipQuarter ==
    /\ pc = "running"
    /\ ~AwaitingReadings(seen)
    /\ TooFewReadings(seen)
    /\ Reschedule(seen + Quarter)
    /\ UNCHANGED <<clock, readings, peaks, moves, crashes>>

PassProcessed ==
    /\ pc = "running"
    /\ ~AwaitingReadings(seen)
    /\ ~TooFewReadings(seen)
    /\ AlreadyProcessed(seen)
    /\ Reschedule(TargetEnd(seen) + Quarter)
    /\ UNCHANGED <<clock, readings, peaks, moves, crashes>>

Create ==
    /\ pc = "running"
    /\ ~AwaitingReadings(seen)
    /\ ~TooFewReadings(seen)
    /\ ~AlreadyProcessed(seen)
    /\ peaks' = Append(peaks, [start |-> Min(QuarterReadings(seen)),
                              end |-> Max(QuarterReadings(seen))])
    /\ pc' = "created"
    /\ created' = Max(QuarterReadings(seen))
    /\ UNCHANGED <<clock, readings, planned, seen, moves, crashes>>

RescheduleNext ==
    /\ pc = "created"
    /\ Reschedule(created + Quarter)
    /\ UNCHANGED <<clock, readings, peaks, moves, crashes>>

\* Each commit is one of its own: a row may be there, its reschedule not.
Crash ==
    /\ crashes < MaxCrashes
    /\ pc # "idle"
    /\ pc' = "idle"
    /\ crashes' = crashes + 1
    /\ UNCHANGED <<clock, readings, peaks, planned, seen, created, moves>>

Service == Start \/ Await \/ SkipQuarter \/ PassProcessed \/ Create \/ RescheduleNext

Next ==
    \/ Tick
    \/ \E t \in Ticks : Receive(t)
    \/ \E t \in Ticks : MoveBack(t)
    \/ Service
    \/ Crash

Spec == Init /\ [][Next]_vars

(***************************************************************************)
(* The backend keeps running, time passes, and as long as time is waiting  *)
(* for the meter its telegrams arrive.                                     *)
(***************************************************************************)
FairSpec ==
    /\ Spec
    /\ WF_vars(Service)
    /\ WF_vars(Tick)
    /\ WF_vars(\E t \in Ticks : Receive(t))

-----------------------------------------------------------------------------
QuarterOf(t) == t - (t % Quarter)

\* The quarters of a day, by their start.
Quarters == {t \in Ticks : t % Quarter = 0}

InQuarter(q) == {r \in readings : q =< r /\ r =< q + Quarter}

HasPeak(q) == \E i \in DOMAIN peaks : QuarterOf(peaks[i].start) = q

(***************************************************************************)
(* No quarter has two peaks, although a crash, or the administrator, makes *)
(* the service target the same quarter again.                              *)
(***************************************************************************)
OnePeakPerQuarter ==
    \A i, j \in DOMAIN peaks :
        QuarterOf(peaks[i].start) = QuarterOf(peaks[j].start) => i = j

(***************************************************************************)
(* A peak covers its quarter: it starts at the first reading and ends at   *)
(* the last one that the quarter has, or will ever have.                   *)
(***************************************************************************)
PeakCoversItsQuarter ==
    \A i \in DOMAIN peaks :
        LET inQuarter == InQuarter(QuarterOf(peaks[i].start))
        IN  peaks[i] = [start |-> Min(inQuarter), end |-> Max(inQuarter)]

(***************************************************************************)
(* "Ensuring we do not miss any": the quarters behind the targeted one     *)
(* have their peak, if they have two readings.                             *)
(***************************************************************************)
NoQuarterMissed ==
    \A q \in Quarters :
        q + Quarter < TargetEnd(planned) /\ Cardinality(InQuarter(q)) >= 2 => HasPeak(q)

(***************************************************************************)
(* A quarter with two readings gets its peak once a later reading arrives, *)
(* if the clock does not stop right after it.                              *)
(***************************************************************************)
PeakFollows ==
    \A q \in Quarters :
        /\ q + 2 * Quarter =< LastTick
        /\ Cardinality(InQuarter(q)) >= 2
        /\ \E r \in readings : r >= q + Quarter
        ~> HasPeak(q)

===============================================================================
