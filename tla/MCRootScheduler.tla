--------------------------- MODULE MCRootScheduler ---------------------------
(***************************************************************************)
(* Sets of lanes for TLC, by the index of a lane in ReactFiberLane: 6 and  *)
(* 7 are transitions and 22 is a retry.                                    *)
(***************************************************************************)
EXTENDS RootScheduler, TLC

DefaultRetry == {SyncLane, DefaultLane, 22}
AllKinds == {SyncLane, DefaultLane, 6, 7, 22, IdleLane, OffscreenLane}
SyncDefault == {SyncLane, DefaultLane}

Symmetry == Permutations(Roots)
=============================================================================
