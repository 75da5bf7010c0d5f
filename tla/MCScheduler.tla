----------------------------- MODULE MCScheduler -----------------------------
(* Small instances of Scheduler for TLC.  One tick stands for a few        *)
(* milliseconds; only the order of deadlines matters.                      *)
EXTENDS Scheduler

TwoPriorities   == {"Immediate", "Normal"}
TwoTimeouts     == [p \in TwoPriorities |-> IF p = "Immediate" THEN -1 ELSE 2]
=============================================================================
