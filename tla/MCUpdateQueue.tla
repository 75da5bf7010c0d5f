---------------------------- MODULE MCUpdateQueue ----------------------------
(* Sets of lanes for TLC: 6 and 7 are transitions. *)
EXTENDS UpdateQueue

SyncTransitions == {SyncLane, 6, 7}
=============================================================================
