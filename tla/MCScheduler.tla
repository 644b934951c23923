----------------------------- MODULE MCScheduler -----------------------------
(* Values for the constants of Scheduler. *)
EXTENDS Scheduler

CONSTANTS dropbox, pvoutput

BothProcesses == {dropbox, pvoutput}

JustDropbox == {dropbox}

JustPVOutput == {pvoutput}
===============================================================================
