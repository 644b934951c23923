----------------------------- MODULE MCPipeline -----------------------------
(* Values for the constants of Pipeline. *)
EXTENDS Pipeline

ReadingOnly == {ByReading}

BothGroupings == {ByReading, ByMinute}

AnyTick == Ticks

\* Two full hours, or one and an empty one, and a reading of each of the next three.
TwoBusyHours == 0..5 \union {7, 9, 12}
===============================================================================
