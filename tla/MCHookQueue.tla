----------------------------- MODULE MCHookQueue -----------------------------
(* Constants for TLC: a sync lane and a transition, and a bit that is      *)
(* cleared, as by setState(0), or toggled, as by setState(s => 1 - s).     *)
EXTENDS HookQueue

SyncTransition == {SyncLane, 6}
Bits == {0, 1}
ClearAndToggle == {[s \in Bits |-> 0], [s \in Bits |-> 1 - s]}
=============================================================================
