------------------------------ MODULE HookQueue ------------------------------
(***************************************************************************)
(* ReactFiberHooks: the queue of one useState of a mounted function        *)
(* component, in a concurrent root.                                        *)
(*                                                                         *)
(* The queue works like that of a class (module UpdateQueue), with two     *)
(* shortcuts.  setState computes the next state at once if the component   *)
(* has no work, does nothing if that changes nothing, and lets the render  *)
(* use the result otherwise.  A render that finds the same state again     *)
(* bails out, and takes its lanes off the current fiber before anything is *)
(* committed.  Here the state is a value, an action a function of it, so   *)
(* that it can be seen whether the shortcuts give what the actions give.   *)
(***************************************************************************)
EXTENDS Lanes, Sequences

CONSTANTS
    EventLanes,   \* the lanes of the updates of events
    State,        \* the states of the hook
    InitialState,
    Actions,      \* what setState may be given
    MaxUpdates    \* bound on the updates

ASSUME HookQueueAssumption ==
    /\ EventLanes \subseteq Lane
    /\ InitialState \in State /\ Actions \subseteq [State -> State]
    /\ MaxUpdates \in Nat

VARIABLES
    root,       \* the lane fields of the FiberRoot
    elsewhere,  \* the lanes of the updates of other components
    current,    \* the current fiber of the component with its hook
    alternate,  \* the other one: the work in progress, once a render got there
    queue,      \* what the hooks of the two fibers share
    render,     \* the render of the root
    actions,    \* history: the actions that were dispatched
    forgotten   \* history: was work thrown away whose lane bailoutHooks had removed?

vars == <<root, elsewhere, current, alternate, queue, render, actions, forgotten>>
history == <<actions, forgotten>>

Ids == 1..MaxUpdates

(* `eager' holds the eagerly computed state, if there is one. *)
UpdateSet == [id : Ids, lane : Lane \cup {NoLane}, eager : {<< >>} \cup {<<s>> : s \in State}]

(* A state comes with the updates that led to it (history). *)
NoUpdates == [value |-> InitialState, applied |-> << >>]

NoWork == [lanes |-> NoLanes, memoizedState |-> NoUpdates, baseState |-> NoUpdates,
           baseQueue |-> << >>]

NoRender == [phase |-> "none", lanes |-> NoLanes, sync |-> FALSE, updated |-> NoLanes,
             interrupted |-> FALSE, forgets |-> FALSE]

LanesOf(s) == {s[i].lane : i \in DOMAIN s} \ {NoLane}

(* Is workInProgressRoot set? *)
Rendering == render.phase \in {"started", "visited"}

(* Events happen between tasks, and while a concurrent render yields. *)
EventMayHappen == Rendering => ~render.sync

(* When it goes on after an event, the task of a render chooses its lanes  *)
(* again (performConcurrentWorkOnRoot).                                    *)
Interrupt(lane) ==
    render' = IF Rendering
              THEN [render EXCEPT !.updated = @ \cup {lane},
                                  !.interrupted = NextLanes(root', render.lanes) # render.lanes]
              ELSE render

-----------------------------------------------------------------------------
(* Updates. *)

AlternateHasNoWork ==   \* mutant
    alternate.lanes = NoLanes

(* "The queue is currently empty", as far as the lanes tell.  The lanes of *)
(* the alternate are those of an earlier render unless it was visited.     *)
HasNoWork == current.lanes = NoLanes /\ alternate.lanes = NoLanes

EagerState(action) ==
    IF HasNoWork THEN <<action[queue.lastRenderedState]>> ELSE << >>

(* While a render is in progress, an update is kept apart from it. *)
EnqueueUpdate(update, lanes) ==
    queue' = IF Rendering
             THEN [queue EXCEPT !.interleaved = Append(@, update), !.lanes = lanes]
             ELSE [queue EXCEPT !.pending = Append(@, update), !.lanes = lanes]

LanesOfAllUpdates(lane) ==   \* mutant
    (queue.lanes \cap root.pendingLanes) \cup {lane}

(* The transitions of one queue are entangled while they are pending. *)
EntangledLanes(lane) ==
    IF lane \in TransitionLanes
    THEN (queue.lanes \cap root.pendingLanes) \cup {lane}
    ELSE queue.lanes

MarkCurrentOnly(lane) ==   \* mutant
    current' = [current EXCEPT !.lanes = @ \cup {lane}] /\ alternate' = alternate

(* The lanes of the two fibers. *)
MarkUpdateLaneFromFiberToRoot(lane) ==
    /\ current' = [current EXCEPT !.lanes = @ \cup {lane}]
    /\ alternate' = [alternate EXCEPT !.lanes = @ \cup {lane}]

ScheduleUpdate(lane) ==
    LET updated == MarkRootUpdated(root, lane)
    IN  /\ MarkUpdateLaneFromFiberToRoot(lane)
        /\ root' = IF lane \in TransitionLanes
                   THEN MarkRootEntangled(updated, EntangledLanes(lane)) ELSE updated
        /\ Interrupt(lane)

BailsOut(eager) == eager = <<queue.lastRenderedState>>

(* setState: an update that changes nothing is queued, but not scheduled.  *)
DispatchSetState(lane, action) ==
    LET eager == EagerState(action)
        update == [id |-> Len(actions) + 1, lane |-> lane, eager |-> eager]
    IN  /\ EventMayHappen /\ Len(actions) < MaxUpdates
        /\ actions' = Append(actions, action)
        /\ IF BailsOut(eager)
           THEN EnqueueUpdate(update, queue.lanes) /\ UNCHANGED <<root, current, alternate, render>>
           ELSE EnqueueUpdate(update, EntangledLanes(lane)) /\ ScheduleUpdate(lane)
        /\ UNCHANGED <<elsewhere, forgotten>>

(* An update of another component. *)
UpdateElsewhere(lane) ==
    /\ EventMayHappen
    /\ lane \notin elsewhere
    /\ elsewhere' = elsewhere \cup {lane}
    /\ root' = MarkRootUpdated(root, lane)
    /\ Interrupt(lane)
    /\ UNCHANGED <<current, alternate, queue, history>>

-----------------------------------------------------------------------------
(* The render. *)

(* prepareFreshStack: what was rendered is thrown away, and the updates    *)
(* that were kept apart join the others.                                   *)
StartRender ==
    LET wipLanes == IF Rendering THEN render.lanes ELSE NoLanes
        lanes == NextLanes(root, wipLanes)
    IN  /\ EventMayHappen
        /\ lanes # NoLanes /\ lanes # wipLanes
        /\ render.phase = "done" => SyncLane \in lanes
        /\ render' = [NoRender EXCEPT !.phase = "started", !.lanes = lanes,
                         !.sync = SyncLane \in lanes \/ IncludesBlockingLane(lanes)]
        /\ queue' = [queue EXCEPT !.pending = @ \o queue.interleaved, !.interleaved = << >>]
        /\ forgotten' = (forgotten \/ render.forgets)
        /\ UNCHANGED <<root, elsewhere, current, alternate, actions>>

InRender(phase) == render.phase = phase /\ ~render.interrupted

(* A parent renders, the component has no work and no new props either:    *)
(* its fiber is cloned.                                                    *)
BailOut ==
    /\ InRender("started")
    /\ current.lanes \cap render.lanes = NoLanes
    /\ alternate' = current
    /\ render' = [render EXCEPT !.phase = "visited"]
    /\ UNCHANGED <<root, elsewhere, current, queue, history>>

Sufficient(u) == u.lane = NoLane \/ u.lane \in render.lanes

(* A state that was computed eagerly replaces what the reducer would give. *)
Process(s, u) ==
    [value |-> IF u.eager = << >> THEN actions[u.id][s.value] ELSE Head(u.eager),
     applied |-> Append(s.applied, u.id)]

FirstSkipped(list) ==
    LET skipped == {i \in DOMAIN list : ~Sufficient(list[i])}
    IN  IF skipped = {} THEN Len(list) + 1 ELSE CHOOSE i \in skipped : \A j \in skipped : i <= j

(* The state after the first n updates of the list, without the skipped.   *)
StateAfter(s, list, n) ==
    LET after[i \in 0..n] ==
            IF i = 0 THEN s
            ELSE IF Sufficient(list[i]) THEN Process(after[i - 1], list[i]) ELSE after[i - 1]
    IN  after[n]

(* An update that is applied on top of a skipped one stays in the queue,   *)
(* with a lane that is never skipped.                                      *)
Rebased(list) ==
    LET rest == SubSeq(list, FirstSkipped(list), Len(list))
    IN  [i \in DOMAIN rest |-> IF Sufficient(rest[i]) THEN [rest[i] EXCEPT !.lane = NoLane] ELSE rest[i]]

SkippedLanes(list) == {list[i].lane : i \in {j \in DOMAIN list : ~Sufficient(list[j])}}

(* updateReducer on the queue of the current hook and the pending updates. *)
UpdateReducer(list) ==
    [lanes |-> SkippedLanes(list) \cup LanesOf(queue.interleaved),
     memoizedState |-> IF list = << >> THEN current.memoizedState
                       ELSE StateAfter(current.baseState, list, Len(list)),
     baseState |-> StateAfter(current.baseState, list, FirstSkipped(list) - 1),
     baseQueue |-> Rebased(list)]

(* bailoutHooks takes the rendered lanes off the current fiber. *)
BailoutHooks(fiber) == [fiber EXCEPT !.lanes = @ \ render.lanes]

(* The component is rendered, for an update or for new props from another  *)
(* one; its children only if its state changes or its props did.           *)
RenderComponent(newProps) ==
    LET list == current.baseQueue \o queue.pending
        next == UpdateReducer(list)
        transferred == [current EXCEPT !.baseQueue = list]
        bailsOut == ~newProps /\ next.memoizedState.value = current.memoizedState.value
    IN  /\ InRender("started")
        /\ \/ newProps /\ elsewhere \cap render.lanes # NoLanes
           \/ ~newProps /\ current.lanes \cap render.lanes # NoLanes
        /\ alternate' = next
        /\ current' = IF bailsOut THEN BailoutHooks(transferred) ELSE transferred
        /\ queue' = [queue EXCEPT
               !.pending = << >>,
               !.lanes = IF list = << >> /\ queue.interleaved = << >> THEN NoLanes ELSE @,
               !.lastRenderedState = IF list = << >> THEN @ ELSE next.memoizedState.value]
        /\ render' = [render EXCEPT !.phase = "visited",
               !.forgets = bailsOut /\ render.lanes \cap LanesOf(list \o queue.interleaved) # NoLanes]
        /\ UNCHANGED <<root, elsewhere, history>>

Complete ==
    /\ InRender("visited")
    /\ render' = [render EXCEPT !.phase = "done"]
    /\ UNCHANGED <<root, elsewhere, current, alternate, queue, history>>

(* The render has suspended: it is committed by a timeout, or thrown away. *)
CompleteSuspended ==
    /\ InRender("visited") /\ SyncLane \notin render.lanes
    /\ render' = [render EXCEPT !.phase = "suspended"]
    /\ root' = MarkRootSuspended(root, render.lanes \ render.updated)
    /\ UNCHANGED <<elsewhere, current, alternate, queue, history>>

Ping ==
    /\ render.phase \in {"none", "suspended"}
    /\ root' = MarkRootPinged(root, root.suspendedLanes)
    /\ root' # root
    /\ UNCHANGED <<elsewhere, current, alternate, queue, render, history>>

(* The two fibers change places.  The lanes that remain are those of the   *)
(* finished tree.                                                          *)
Commit ==
    LET left == (elsewhere \ render.lanes) \cup (elsewhere \cap render.updated)
    IN  /\ render.phase \in {"done", "suspended"}
        /\ current' = alternate /\ alternate' = current
        /\ elsewhere' = left
        /\ root' = MarkRootFinished(root, alternate.lanes \cup left)
        /\ render' = NoRender
        /\ UNCHANGED <<queue, history>>

-----------------------------------------------------------------------------
Init ==
    /\ root = [pendingLanes |-> NoLanes, suspendedLanes |-> NoLanes, pingedLanes |-> NoLanes,
               entangledLanes |-> NoLanes, entanglements |-> [l \in Lane |-> NoLanes]]
    /\ elsewhere = NoLanes
    /\ current = NoWork /\ alternate = NoWork
    /\ queue = [pending |-> << >>, interleaved |-> << >>, lanes |-> NoLanes,
                lastRenderedState |-> InitialState]
    /\ render = NoRender
    /\ actions = << >> /\ forgotten = FALSE

Next ==
    \/ \E lane \in EventLanes, action \in Actions : DispatchSetState(lane, action)
    \/ \E lane \in EventLanes : UpdateElsewhere(lane)
    \/ StartRender \/ BailOut
    \/ \E newProps \in BOOLEAN : RenderComponent(newProps)
    \/ Complete \/ CompleteSuspended \/ Ping \/ Commit

Spec == Init /\ [][Next]_vars

-----------------------------------------------------------------------------
(* Properties. *)

StateSet == [value : State, applied : Seq(Ids)]
FiberSet == [lanes : SUBSET Lane, memoizedState : StateSet, baseState : StateSet,
             baseQueue : Seq(UpdateSet)]

RootSet == [pendingLanes : SUBSET Lane, suspendedLanes : SUBSET Lane,
            pingedLanes : SUBSET Lane, entangledLanes : SUBSET Lane,
            entanglements : [Lane -> SUBSET Lane]]
QueueSet == [pending : Seq(UpdateSet), interleaved : Seq(UpdateSet),
             lanes : SUBSET TransitionLanes, lastRenderedState : State]
RenderSet == [phase : {"none", "started", "visited", "done", "suspended"},
              lanes : SUBSET Lane, sync : BOOLEAN, updated : SUBSET Lane,
              interrupted : BOOLEAN, forgets : BOOLEAN]

(* Lanes are masks, queues hold updates, and the lanes of the queue are    *)
(* transitions.                                                            *)
TypeOK ==
    /\ root \in RootSet /\ elsewhere \subseteq Lane
    /\ current \in FiberSet /\ alternate \in FiberSet
    /\ queue \in QueueSet
    /\ render \in RenderSet
    /\ actions \in Seq(Actions) /\ forgotten \in BOOLEAN

(* What the actions of some updates make of the initial state. *)
Result(ids) ==
    LET after[i \in 0..Len(ids)] == IF i = 0 THEN InitialState ELSE actions[ids[i]][after[i - 1]]
    IN  after[Len(ids)]

Increasing(ids) == \A i, j \in DOMAIN ids : i < j => ids[i] < ids[j]

(* A state of a hook is what the actions of its updates give, one after    *)
(* the other, although some of them were computed on another state, before *)
(* others were skipped, rebased or thrown away: "the eager state can be    *)
(* used without calling the reducer again" (ReactFiberHooks.new.js:2265).  *)
(* Excepted are updates that are applied out of order, because one that    *)
(* was kept apart from a render was overtaken, and what follows when a     *)
(* component with work has lost its lane.                                  *)
EagerStateIsRight ==
    ~forgotten => \A s \in {current.memoizedState, current.baseState,
                             alternate.memoizedState, alternate.baseState} :
        Increasing(s.applied) => s.value = Result(s.applied)

Waiting == [i \in DOMAIN current.baseQueue |-> current.baseQueue[i].id]
              \o [i \in DOMAIN queue.pending |-> queue.pending[i].id]
              \o [i \in DOMAIN queue.interleaved |-> queue.interleaved[i].id]

(* When nothing is left to do the component shows the result of all its    *)
(* updates: none was lost by a render that was thrown away or bailed out,  *)
(* and those that were dropped because they changed nothing still change   *)
(* nothing.  The exceptions are those of EagerStateIsRight.                *)
NothingIsLost ==
    render.phase = "none" /\ root.pendingLanes = NoLanes =>
        \/ current.memoizedState.value = Result([i \in DOMAIN actions |-> i])
        \/ ~Increasing(current.baseState.applied \o Waiting)
        \/ forgotten
=============================================================================
