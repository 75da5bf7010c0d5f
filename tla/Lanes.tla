------------------------------- MODULE Lanes --------------------------------
(***************************************************************************)
(* ReactFiberLane: the priorities of updates and the choice of what a root *)
(* renders next.                                                           *)
(*                                                                         *)
(* A lane is one bit of a mask of 31; here it is the index of that bit, a  *)
(* mask is a set of lanes, and the bitwise operations of the source are    *)
(* the set operations.  A lower index is a higher priority.  An instance   *)
(* uses the lanes of the constant Lane.                                    *)
(*                                                                         *)
(* The operators below work on the lane fields of a root: pendingLanes,    *)
(* suspendedLanes, pingedLanes, entangledLanes and entanglements.  The     *)
(* times a root keeps for its lanes are not modelled.                      *)
(***************************************************************************)
EXTENDS Integers

CONSTANT Lane

ASSUME LaneAssumption == Lane \subseteq 0..30

NoLane == -1
NoLanes == {}

SyncLane == 0
InputContinuousHydrationLane == 1
InputContinuousLane == 2
DefaultHydrationLane == 3
DefaultLane == 4
TransitionHydrationLane == 5
TransitionLanes == Lane \cap 6..21
RetryLanes == Lane \cap 22..26
SelectiveHydrationLane == 27
NonIdleLanes == Lane \cap 0..27
IdleHydrationLane == 28
IdleLane == 29
OffscreenLane == 30

-----------------------------------------------------------------------------
(* Choosing lanes. *)

HighestPriorityLane(lanes) ==
    IF lanes = NoLanes THEN NoLane
    ELSE CHOOSE l \in lanes : \A m \in lanes : l <= m

(* Transitions are rendered together, and so are retries. *)
LaneGroup(lane) ==
    CASE lane \in TransitionLanes -> TransitionLanes
      [] lane \in RetryLanes -> RetryLanes
      [] OTHER -> {lane}

HighestPriorityLanes(lanes) ==
    lanes \cap LaneGroup(HighestPriorityLane(lanes))

NextOrNone(lane, group) == HighestPriorityLane({l \in group : l > lane})   \* mutant

(* The lane claimed after a given one, cycling through a group. *)
NextInCycle(lane, group) ==
    LET later == {l \in group : l > lane}
    IN  HighestPriorityLane(IF later = {} THEN group ELSE later)

OrElse(lanes, others) == IF lanes # NoLanes THEN lanes ELSE others

WorkableUntilSuspended(root) ==   \* mutant
    LET nonIdle == root.pendingLanes \cap NonIdleLanes
    IN  IF nonIdle # NoLanes THEN nonIdle \ root.suspendedLanes
        ELSE root.pendingLanes \ root.suspendedLanes

(* The lanes that may be worked on: the unblocked ones or, if there are    *)
(* none, the ones that were pinged; idle lanes when nothing else is left.  *)
Workable(root) ==
    LET nonIdle == root.pendingLanes \cap NonIdleLanes
    IN  IF nonIdle # NoLanes
        THEN OrElse(nonIdle \ root.suspendedLanes, nonIdle \cap root.pingedLanes)
        ELSE OrElse(root.pendingLanes \ root.suspendedLanes, root.pingedLanes)

(* A render in progress is only interrupted for a higher priority, unless  *)
(* it has already suspended.                                               *)
DoNotInterrupt(root, wipLanes, nextLanes) ==
    LET nextLane == HighestPriorityLane(nextLanes)
        wipLane == HighestPriorityLane(wipLanes)
    IN  /\ wipLanes # NoLanes
        /\ wipLanes # nextLanes
        /\ wipLanes \cap root.suspendedLanes = NoLanes
        /\ \/ nextLane >= wipLane
           \/ nextLane = DefaultLane /\ wipLane \in TransitionLanes

(* Default updates are rendered with continuous ones. *)
WithDefault(root, lanes) ==
    IF InputContinuousLane \in lanes
    THEN lanes \cup (root.pendingLanes \cap {DefaultLane})
    ELSE lanes

WithEntangled(root, lanes) ==
    lanes \cup UNION {root.entanglements[l] : l \in lanes \cap root.entangledLanes}

NextLanes(root, wipLanes) ==
    LET nextLanes == HighestPriorityLanes(Workable(root))
    IN  CASE root.pendingLanes = NoLanes \/ nextLanes = NoLanes -> NoLanes
          [] DoNotInterrupt(root, wipLanes, nextLanes) -> wipLanes
          [] OTHER -> WithEntangled(root, WithDefault(root, nextLanes))

LanesToRetrySynchronouslyOnError(root) == root.pendingLanes \ {OffscreenLane}

IncludesNonIdleWork(lanes) == lanes \cap NonIdleLanes # NoLanes
IncludesOnlyRetries(lanes) == lanes \subseteq RetryLanes
IncludesOnlyTransitions(lanes) == lanes \subseteq TransitionLanes

(* Continuous and default updates are never time-sliced. *)
IncludesBlockingLane(lanes) ==
    lanes \cap {InputContinuousHydrationLane, InputContinuousLane,
                DefaultHydrationLane, DefaultLane} # NoLanes

-----------------------------------------------------------------------------
(* What happens to a root. *)

(* Any update may unblock what is suspended, idle ones excepted. *)
MarkRootUpdated(root, lane) ==
    [root EXCEPT !.pendingLanes = @ \cup {lane},
                 !.suspendedLanes = IF lane = IdleLane THEN @ ELSE NoLanes,
                 !.pingedLanes = IF lane = IdleLane THEN @ ELSE NoLanes]

MarkRootSuspended(root, lanes) ==
    [root EXCEPT !.suspendedLanes = @ \cup lanes,
                 !.pingedLanes = @ \ lanes]

MarkRootPinged(root, lanes) ==
    [root EXCEPT !.pingedLanes = @ \cup (root.suspendedLanes \cap lanes)]

MarkRootFinished(root, remainingLanes) ==
    LET done == root.pendingLanes \ remainingLanes
    IN  [root EXCEPT !.pendingLanes = remainingLanes,
                     !.suspendedLanes = NoLanes,
                     !.pingedLanes = NoLanes,
                     !.entangledLanes = @ \cap remainingLanes,
                     !.entanglements = [l \in Lane |-> IF l \in done THEN NoLanes ELSE @[l]]]

MarkRootEntangled(root, lanes) ==
    LET all == root.entangledLanes \cup lanes
        joins(l) == l \in lanes \/ root.entanglements[l] \cap lanes # NoLanes
    IN  [root EXCEPT !.entangledLanes = all,
                     !.entanglements =
                        [l \in Lane |-> IF l \in all /\ joins(l) THEN @[l] \cup lanes ELSE @[l]]]
=============================================================================
