---------------------------- MODULE MCCompactor ----------------------------
(* Values for the constants of Compactor. *)
EXTENDS Compactor

MinuteOnly == {ByMinute}

BothGroupings == {ByReading, ByMinute}
===============================================================================
