----------------------------- MODULE UpdateQueue -----------------------------
(***************************************************************************)
(* ReactUpdateQueue with ReactFiberInterleavedUpdates: the updates of one  *)
(* class component of a concurrent root, from setState to the commit that  *)
(* shows them, while renders of several priorities start, suspend, fail    *)
(* and are thrown away.                                                    *)
(*                                                                         *)
(* An update is an identifier and a lane, and the state of the component   *)
(* is the sequence of the updates that were applied to it, so that two     *)
(* states are equal only if the same updates were applied in the same      *)
(* order.  Every update has a callback.  The rest of the tree is the set   *)
(* `elsewhere' of the lanes that have work in it.  A fiber has a field the *)
(* code has not: `forgotten', the updates whose lanes it lost when it was  *)
(* rendered with an empty queue (see ProcessUpdateQueue).                  *)
(***************************************************************************)
EXTENDS Lanes, Sequences

CONSTANTS
    EventLanes,   \* the lanes of the updates of events
    RendersUpdate, \* does the code that is rendered update state? (React warns)
    MaxUpdates,   \* bound on the updates
    MaxCaptures   \* bound on the errors the component captures

ASSUME UpdateQueueAssumption ==
    /\ EventLanes \subseteq Lane
    /\ RendersUpdate \in BOOLEAN
    /\ MaxUpdates \in Nat /\ MaxCaptures \in Nat

VARIABLES
    root,       \* the lane fields of the FiberRoot
    elsewhere,  \* the lanes of the other updates of the tree
    current,    \* the current fiber of the component with its queue
    wip,        \* its alternate, from BeginWork to the commit
    shared,     \* the shared part of the two queues
    render,     \* the render of the root
    updates,    \* how many updates there were
    captures    \* how many errors there were

vars == <<root, elsewhere, current, wip, shared, render, updates, captures>>
counters == <<updates, captures>>

(* Updates are numbered in the order they are enqueued; the ones that      *)
(* capture errors come after all the numbers of the others.                *)
UserIds == 1..MaxUpdates
Ids == 1..(MaxUpdates + MaxCaptures)
UpdateSet == [id : Ids, lane : Lane \cup {NoLane}]

IdsOf(s) == [i \in DOMAIN s |-> s[i].id]
LanesOf(s) == {s[i].lane : i \in DOMAIN s} \ {NoLane}
ElementsOf(s) == {s[i] : i \in DOMAIN s}

(* The elements of s that are in a set: SelectSeq, as a function.          *)
Only(s, set) ==
    LET kept[i \in 0..Len(s)] ==
            IF i = 0 THEN << >>
            ELSE IF s[i] \in set THEN Append(kept[i - 1], s[i]) ELSE kept[i - 1]
    IN  kept[Len(s)]

(* What createWorkInProgress copies is not kept before BeginWork. *)
NoFiber == [lanes |-> NoLanes, memoizedState |-> << >>, baseState |-> << >>,
            base |-> << >>, effects |-> << >>, forgotten |-> {}]

NoRender ==
    [phase |-> "none", lanes |-> NoLanes, sync |-> FALSE, retried |-> FALSE,
     didCapture |-> FALSE, updated |-> NoLanes, interrupted |-> FALSE]

(* Is workInProgressRoot set? *)
Rendering == render.phase \in {"started", "bailedOut", "begun", "captured"}

(* A render that failed is tried again before anything else happens. *)
MustRetry ==
    /\ render.phase = "done" /\ render.didCapture /\ ~render.retried
    /\ LanesToRetrySynchronouslyOnError(root) # NoLanes

(* Events happen between tasks, and while a concurrent render yields. *)
EventMayHappen == ~MustRetry /\ (Rendering => ~render.sync)

(* When it goes on after an event, the task of a render chooses its lanes  *)
(* again (performConcurrentWorkOnRoot).                                    *)
Interrupt(lane) ==
    render' = IF Rendering
              THEN [render EXCEPT !.updated = @ \cup {lane},
                                  !.interrupted = NextLanes(root', render.lanes) # render.lanes]
              ELSE render

InRender(phase) == render.phase = phase /\ ~render.interrupted

-----------------------------------------------------------------------------
(* Updates. *)

NewUpdate(lane) == [id |-> updates + 1, lane |-> lane]

MarkCurrentOnly(lane) ==   \* mutant
    current' = [current EXCEPT !.lanes = @ \cup {lane}] /\ wip' = wip

(* The lanes of the two fibers. *)
MarkUpdateLaneFromFiberToRoot(lane) ==
    /\ current' = [current EXCEPT !.lanes = @ \cup {lane}]
    /\ wip' = IF render.phase \in {"none", "started"} THEN wip
              ELSE [wip EXCEPT !.lanes = @ \cup {lane}]

LanesOfAllUpdates(lane) ==   \* mutant
    (shared.lanes \cap root.pendingLanes) \cup {lane}

(* The transitions of one queue are entangled while they are pending. *)
QueueLanes(lane) ==
    IF lane \in TransitionLanes
    THEN (shared.lanes \cap root.pendingLanes) \cup {lane}
    ELSE shared.lanes

EntangleTransitions(lane) ==
    root' = LET updated == MarkRootUpdated(root, lane)
            IN  IF lane \in TransitionLanes
                THEN MarkRootEntangled(updated, QueueLanes(lane)) ELSE updated

Schedule(lane) ==
    /\ MarkUpdateLaneFromFiberToRoot(lane)
    /\ EntangleTransitions(lane)
    /\ updates' = updates + 1

EnqueuePending(lane) ==
    shared' = [shared EXCEPT !.pending = Append(@, NewUpdate(lane)), !.lanes = QueueLanes(lane)]
EnqueueInterleaved(lane) ==
    shared' = [shared EXCEPT !.interleaved = Append(@, NewUpdate(lane)), !.lanes = QueueLanes(lane)]

(* While a render is in progress, an update is kept apart from it. *)
Update(lane) ==
    /\ EventMayHappen /\ updates < MaxUpdates
    /\ IF Rendering THEN EnqueueInterleaved(lane) ELSE EnqueuePending(lane)
    /\ Schedule(lane)
    /\ Interrupt(lane)
    /\ UNCHANGED <<elsewhere, captures>>

(* An update by the code that is rendered, as in componentWillReceiveProps. *)
RenderPhaseUpdate ==
    LET lane == HighestPriorityLane(render.lanes)
    IN  /\ RendersUpdate /\ Rendering /\ ~render.interrupted /\ updates < MaxUpdates
        /\ EnqueuePending(lane)
        /\ Schedule(lane)
        /\ UNCHANGED <<elsewhere, render, captures>>

(* An update of another component. *)
UpdateElsewhere(lane) ==
    /\ EventMayHappen
    /\ lane \notin elsewhere
    /\ elsewhere' = elsewhere \cup {lane}
    /\ root' = MarkRootUpdated(root, lane)
    /\ Interrupt(lane)
    /\ UNCHANGED <<current, wip, shared, updates, captures>>

-----------------------------------------------------------------------------
(* The render. *)

(* The updates that were kept apart join the others. *)
EnqueueInterleavedUpdates ==
    shared' = [shared EXCEPT !.pending = @ \o shared.interleaved, !.interleaved = << >>]

(* What was rendered is thrown away. *)
PrepareFreshStack(lanes, sync, retried) ==
    /\ render' = [NoRender EXCEPT !.phase = "started", !.lanes = lanes, !.sync = sync,
                                  !.retried = retried]
    /\ EnqueueInterleavedUpdates
    /\ wip' = NoFiber
    /\ UNCHANGED <<root, elsewhere, current, counters>>

StartRender ==
    LET wipLanes == IF Rendering THEN render.lanes ELSE NoLanes
        lanes == NextLanes(root, wipLanes)
    IN  /\ EventMayHappen
        /\ lanes # NoLanes /\ lanes # wipLanes
        /\ render.phase = "done" => SyncLane \in lanes
        /\ PrepareFreshStack(lanes, SyncLane \in lanes \/ IncludesBlockingLane(lanes), FALSE)

RetryAfterError ==
    /\ MustRetry
    /\ PrepareFreshStack(LanesToRetrySynchronouslyOnError(root), TRUE, TRUE)

(* The component has no work and new props neither. *)
BailOut ==
    /\ InRender("started")
    /\ current.lanes \cap render.lanes = NoLanes
    /\ wip' = current
    /\ render' = [render EXCEPT !.phase = "bailedOut"]
    /\ UNCHANGED <<root, elsewhere, current, shared, counters>>

Sufficient(u) == u.lane = NoLane \/ u.lane \in render.lanes
NewOrRebased(u) == Sufficient(u)   \* mutant

(* A rebased update was called back before. *)
New(u) == u.lane # NoLane /\ u.lane \in render.lanes

FirstSkipped(s) ==
    LET skipped == {i \in DOMAIN s : ~Sufficient(s[i])}
    IN  IF skipped = {} THEN Len(s) + 1 ELSE CHOOSE i \in skipped : \A j \in skipped : i <= j

(* An update that is applied on top of a skipped one is applied again      *)
(* later: it stays in the queue, with a lane that is never skipped.        *)
Rebased(s) ==
    LET rest == SubSeq(s, FirstSkipped(s), Len(s))
    IN  [i \in DOMAIN rest |-> IF Sufficient(rest[i]) THEN [rest[i] EXCEPT !.lane = NoLane] ELSE rest[i]]

SkippedLanes(s) == {u.lane : u \in {v \in ElementsOf(s) : ~Sufficient(v)}}

Applied(s) == Only(s, {u \in UpdateSet : Sufficient(u)})
CalledBack(s) == Only(s, {u \in UpdateSet : New(u)})

(* beginWork has cleared the lanes.  They are computed only if there is    *)
(* anything to process: with an empty queue, those of the updates that     *)
(* were kept apart are lost.                                               *)
ProcessUpdateQueue(fiber) ==
    LET list == fiber.base \o shared.pending
    IN  IF list = << >>
        THEN [fiber EXCEPT !.lanes = NoLanes,
                           !.forgotten = ElementsOf(IdsOf(shared.interleaved))]
        ELSE [lanes |-> SkippedLanes(list) \cup LanesOf(shared.interleaved),
              forgotten |-> {},
              memoizedState |-> fiber.baseState \o IdsOf(Applied(list)),
              baseState |-> fiber.baseState \o IdsOf(SubSeq(list, 1, FirstSkipped(list) - 1)),
              base |-> Rebased(list),
              effects |-> fiber.effects \o IdsOf(CalledBack(list))]

TransferToWipOnly ==   \* mutant
    current' = current /\ shared' = [shared EXCEPT !.pending = << >>]

(* The pending updates join the current queue as well, in case the render  *)
(* is thrown away.                                                         *)
TransferPending ==
    /\ current' = [current EXCEPT !.base = @ \o shared.pending]
    /\ shared' = [shared EXCEPT !.pending = << >>]

(* beginWork of the component, for an update or for new props. *)
BeginWork ==
    /\ InRender("started")
    /\ wip' = ProcessUpdateQueue(current)
    /\ TransferPending
    /\ render' = [render EXCEPT !.phase = "begun"]
    /\ UNCHANGED <<root, elsewhere, counters>>

(* A child throws and the component is its error boundary. *)
EnqueueCapturedUpdate ==
    LET lane == HighestPriorityLane(render.lanes)
    IN  /\ InRender("begun") \/ InRender("bailedOut")
        /\ ~render.didCapture /\ captures < MaxCaptures
        /\ captures' = captures + 1
        /\ wip' = [wip EXCEPT !.lanes = @ \cup {lane},
                              !.base = Append(@, [id |-> MaxUpdates + captures + 1, lane |-> lane])]
        /\ render' = [render EXCEPT !.phase = "captured", !.didCapture = TRUE]
        /\ UNCHANGED <<root, elsewhere, current, shared, updates>>

BeginWorkAgain ==
    /\ InRender("captured")
    /\ wip' = ProcessUpdateQueue(wip)
    /\ TransferPending
    /\ render' = [render EXCEPT !.phase = "begun"]
    /\ UNCHANGED <<root, elsewhere, counters>>

Complete ==
    /\ InRender("begun") \/ InRender("bailedOut")
    /\ render' = [render EXCEPT !.phase = "done"]
    /\ UNCHANGED <<root, elsewhere, current, wip, shared, counters>>

(* The render has suspended: it is committed by a timeout, or thrown away. *)
CompleteSuspended ==
    /\ InRender("begun") \/ InRender("bailedOut")
    /\ ~render.didCapture /\ SyncLane \notin render.lanes
    /\ render' = [render EXCEPT !.phase = "suspended"]
    /\ root' = MarkRootSuspended(root, render.lanes \ render.updated)
    /\ UNCHANGED <<elsewhere, current, wip, shared, counters>>

Ping ==
    /\ render.phase \in {"none", "suspended"}
    /\ root' = MarkRootPinged(root, root.suspendedLanes)
    /\ root' # root
    /\ UNCHANGED <<elsewhere, current, wip, shared, render, counters>>

(* The alternate becomes current, and the callbacks of its effects are     *)
(* called.  The lanes that remain are those of the tree.                   *)
Commit ==
    LET left == (elsewhere \ render.lanes) \cup (elsewhere \cap render.updated)
    IN  /\ render.phase \in {"done", "suspended"} /\ ~MustRetry
        /\ current' = [wip EXCEPT !.effects = << >>]
        /\ elsewhere' = left
        /\ root' = MarkRootFinished(root, wip.lanes \cup left)
        /\ render' = NoRender /\ wip' = NoFiber
        /\ UNCHANGED <<shared, counters>>

-----------------------------------------------------------------------------
Init ==
    /\ root = [pendingLanes |-> NoLanes, suspendedLanes |-> NoLanes, pingedLanes |-> NoLanes,
               entangledLanes |-> NoLanes, entanglements |-> [l \in Lane |-> NoLanes]]
    /\ elsewhere = NoLanes
    /\ current = NoFiber /\ wip = NoFiber
    /\ shared = [pending |-> << >>, interleaved |-> << >>, lanes |-> NoLanes]
    /\ render = NoRender
    /\ updates = 0 /\ captures = 0

Next ==
    \/ \E lane \in EventLanes : Update(lane) \/ UpdateElsewhere(lane)
    \/ RenderPhaseUpdate
    \/ StartRender \/ RetryAfterError
    \/ BailOut \/ BeginWork \/ EnqueueCapturedUpdate \/ BeginWorkAgain
    \/ Complete \/ CompleteSuspended \/ Ping \/ Commit

Spec == Init /\ [][Next]_vars

-----------------------------------------------------------------------------
(* Properties. *)

RootSet == [pendingLanes : SUBSET Lane, suspendedLanes : SUBSET Lane,
            pingedLanes : SUBSET Lane, entangledLanes : SUBSET Lane,
            entanglements : [Lane -> SUBSET Lane]]
FiberSet == [lanes : SUBSET Lane, memoizedState : Seq(Ids), baseState : Seq(Ids),
             base : Seq(UpdateSet), effects : Seq(Ids), forgotten : SUBSET Ids]
SharedSet == [pending : Seq(UpdateSet), interleaved : Seq(UpdateSet),
              lanes : SUBSET TransitionLanes]
RenderSet ==
    [phase : {"none", "started", "bailedOut", "begun", "captured", "done", "suspended"},
     lanes : SUBSET Lane, sync : BOOLEAN, retried : BOOLEAN, didCapture : BOOLEAN,
     updated : SUBSET Lane, interrupted : BOOLEAN]

(* The queues hold updates, the lanes of fibers and root are masks, and a  *)
(* render has the lanes that prepareFreshStack was given.                  *)
TypeOK ==
    /\ root \in RootSet /\ elsewhere \subseteq Lane
    /\ current \in FiberSet /\ wip \in FiberSet
    /\ shared \in SharedSet
    /\ render \in RenderSet
    /\ render.phase # "none" => render.lanes # NoLanes
    /\ updates \in 0..MaxUpdates /\ captures \in 0..MaxCaptures

(* The updates in the order in which they are applied. *)
Order == current.baseState \o IdsOf(current.base) \o IdsOf(shared.pending)
             \o IdsOf(shared.interleaved)

Abstract == INSTANCE AbstractUpdateQueue WITH order <- Order, shown <- current.memoizedState

(* The whole machinery of base states, rebased and transferred updates     *)
(* keeps a promise of ReactUpdateQueue.new.js:33-44 and 51-58: an update   *)
(* is not dropped when a render is thrown away nor applied twice when one  *)
(* is committed, and what was applied before a skipped update is rebased   *)
(* on it, so that all that is ever committed is the result of updates in   *)
(* one order that does not change.  That this is the order of insertion    *)
(* (lines 48-49, 82-85) is not part of it: see InsertionOrder.             *)
KeepsPromise == Abstract!Spec

(* A finished render calls back exactly the updates it shows for the first *)
(* time, each once: rebased updates and second passes call nothing again.  *)
CallbacksOfNewUpdates ==
    render.phase \in {"begun", "done", "suspended"} =>
        /\ ElementsOf(wip.effects) =
              ElementsOf(wip.memoizedState) \ ElementsOf(current.memoizedState)
        /\ \A i, j \in DOMAIN wip.effects : wip.effects[i] = wip.effects[j] => i = j

Waiting(fiber) ==
    ElementsOf(fiber.base) \cup ElementsOf(shared.pending) \cup ElementsOf(shared.interleaved)

(* Has every update that waits a lane in the fiber?  One that was rebased  *)
(* needs none, and one whose lane was forgotten has none.                  *)
LanesKept(fiber) ==
    \A u \in Waiting(fiber) :
        u.lane \in fiber.lanes \cup {NoLane} \/ u.id \in fiber.forgotten

(* An update that was skipped, rebased, captured or enqueued, at whatever  *)
(* moment of whatever render, has its lane in the fiber on the screen and  *)
(* in the one that may replace it, and the root knows the lanes of the     *)
(* former: markSkippedUpdateLanes, the merge of the lane into both fibers  *)
(* and the lanes that remain at a commit work together.  Only updates kept *)
(* apart from a render that found the queue empty are excepted.            *)
SkippedUpdatesHaveLanes ==
    /\ LanesKept(current) /\ current.lanes \subseteq root.pendingLanes
    /\ render.phase \notin {"none", "started"} => LanesKept(wip)

(* "new updates are always appended to the end of the list" and "we        *)
(* process updates in insertion order" (ReactUpdateQueue.new.js:48-49,     *)
(* 82): the state on the screen is that of updates in the order in which   *)
(* they were made.  The code breaks this.                                  *)
InsertionOrder ==
    LET state == current.memoizedState
    IN  \A i, j \in DOMAIN state :
            i < j /\ {state[i], state[j]} \subseteq UserIds => state[i] < state[j]

(* Every update that waits has its lane on the root, so that something     *)
(* will render it: "we do need to track which lanes are remaining"         *)
(* (ReactUpdateQueue.new.js:654).  The code breaks this.                   *)
WaitingUpdatesArePending ==
    LanesOf(current.base) \cup LanesOf(shared.pending) \cup LanesOf(shared.interleaved)
        \subseteq root.pendingLanes

=============================================================================
