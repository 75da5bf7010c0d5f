---------------------------- MODULE RootScheduler ----------------------------
(***************************************************************************)
(* The scheduling half of ReactFiberWorkLoop with ReactFiberSyncTaskQueue: *)
(* how updates of concurrent roots become tasks, and tasks renders,        *)
(* commits and effects.                                                    *)
(*                                                                         *)
(* A fiber tree is abstracted to the lanes that have work in it, once for  *)
(* the current tree and once for its alternate, and to the promises thrown *)
(* in the alternate.  What user code does when React calls it (update,     *)
(* suspend, throw) is a choice, MaxInputs times at most.  JavaScript is    *)
(* not preempted: what runs is the top of the call stack `stack', and the  *)
(* host only starts something when the stack is empty.  The functions that *)
(* call user code or each other are frames of that stack.                  *)
(***************************************************************************)
EXTENDS Lanes, Sequences, FiniteSets

CONSTANTS
    Roots,             \* the fiber roots
    Wakeables,         \* the promises a component may throw
    EventLanes,        \* the lanes of the updates of events, transitions aside
    CanError,          \* may components throw errors?
    HasStores,         \* do components read external stores?
    NestedUpdateLimit, \* NESTED_UPDATE_LIMIT
    MaxTasks,          \* bound on the render tasks in the scheduler
    MaxInputs,         \* bound on the updates, errors and suspensions
    NoRoot

ASSUME RootSchedulerAssumption ==
    /\ EventLanes \subseteq Lane
    /\ SyncLane \in Lane
    /\ RetryLanes # {}
    /\ IsFiniteSet(Roots)
    /\ CanError \in BOOLEAN /\ HasStores \in BOOLEAN
    /\ NestedUpdateLimit \in Nat /\ MaxInputs \in Nat /\ MaxTasks \in Nat \ {0}
    /\ NoRoot \notin Roots

VARIABLES
    root,         \* the FiberRoots, with the lanes of their two trees
    wip,          \* workInProgressRoot and what is kept for its render
    stack,        \* the call stack
    tasks,        \* the live tasks of performConcurrentWorkOnRoot
    passiveTask,  \* is a task under way that flushes passive effects?
    flushTask,    \* is an immediate task under way that flushes the sync queue?
    microtask,    \* is a microtask under way that flushes the sync queue?
    syncQueue,    \* the roots performSyncWorkOnRoot was queued for
    isFlushingSyncQueue,
    passive,      \* rootWithPendingPassiveEffects, pendingPassiveEffectsLanes
    nested,       \* rootWithNestedUpdates, nestedUpdateCount
    event,        \* the lanes claimed for transitions and retries
    listeners,    \* what waits for a wakeable
    resolved,     \* the wakeables that have resolved
    inputs        \* how often user code did something

vars == <<root, wip, stack, tasks, passiveTask, flushTask, microtask, syncQueue,
          isFlushingSyncQueue, passive, nested, event, listeners, resolved, inputs>>

NoNode == 0
TaskIds == Nat \ {NoNode}

hostVars == <<passiveTask, flushTask>>
queueVars == <<microtask, syncQueue>>
promiseVars == <<listeners, resolved>>

-----------------------------------------------------------------------------
(* The call stack. *)

Frame(proc, pc, r) ==
    [proc |-> proc, pc |-> pc, root |-> r,
     task |-> NoNode,       \* the task that is running
     node |-> NoNode,       \* originalCallbackNode
     lanes |-> NoLanes, sync |-> FALSE, recovering |-> FALSE, checked |-> FALSE,
     passive |-> FALSE]     \* rootDoesHavePassiveEffects

Idle == stack = << >>
Top == stack[Len(stack)]
At(proc, pc) == ~Idle /\ Top.proc = proc /\ Top.pc = pc
Rest == SubSeq(stack, 1, Len(stack) - 1)
Continue(frame) == stack' = Append(Rest, frame)
Goto(pc) == Continue([Top EXCEPT !.pc = pc])
Call(proc, r, pc) == stack' = Rest \o <<[Top EXCEPT !.pc = pc], Frame(proc, "begin", r)>>
Return == stack' = Rest

ThrowAndForget ==   \* mutant
    /\ stack' = << >>
    /\ isFlushingSyncQueue' = FALSE
    /\ UNCHANGED flushTask

(* What an exception leaves: everything on the stack is gone.  If the sync *)
(* queue was being flushed, the rest of it is flushed in another task.     *)
Throw ==
    /\ stack' = << >>
    /\ flushTask' = (flushTask \/ isFlushingSyncQueue)
    /\ isFlushingSyncQueue' = FALSE

Input == inputs < MaxInputs /\ inputs' = inputs + 1

-----------------------------------------------------------------------------
(* Bookkeeping of a root. *)

NewRoot ==
    [pendingLanes |-> NoLanes, suspendedLanes |-> NoLanes, pingedLanes |-> NoLanes,
     entangledLanes |-> NoLanes, entanglements |-> [l \in Lane |-> NoLanes],
     callbackNode |-> NoNode, callbackPriority |-> NoLane,
     finishedWork |-> FALSE, finishedLanes |-> NoLanes, timeoutHandle |-> FALSE,
     currentLanes |-> NoLanes, workLanes |-> NoLanes, thrown |-> {}]

NoWip ==
    [root |-> NoRoot, lanes |-> NoLanes, exitStatus |-> "Incomplete",
     capturing |-> FALSE,   \* has a boundary caught a promise and not completed?
     interleavedUpdatedLanes |-> NoLanes, renderPhaseUpdatedLanes |-> NoLanes,
     pingedLanes |-> NoLanes]

WipLanes(r) == IF r = wip.root THEN wip.lanes ELSE NoLanes

MarkIfRendering(r, rt, lane) ==   \* mutant
    [rt EXCEPT !.currentLanes = @ \cup {lane},
               !.workLanes = IF wip.root = r THEN @ \cup {lane} ELSE @]

(* Both the current fibers and their alternates get the lane. *)
MarkUpdateLaneFromFiberToRoot(r, rt, lane) ==
    [rt EXCEPT !.currentLanes = @ \cup {lane},
               !.workLanes = IF wip.root = r \/ rt.finishedWork THEN @ \cup {lane} ELSE @]

SuspendEvenIfPinged(rt, lanes, w) == MarkRootSuspended(rt, lanes)   \* mutant

(* markRootSuspended of the work loop, for the lanes of render w. *)
SuspendLanes(rt, lanes, w) ==
    MarkRootSuspended(rt, (lanes \ w.pingedLanes) \ w.interleavedUpdatedLanes)

(* prepareFreshStack: the render that was in progress is abandoned. *)
FreshRoots(r, lanes) ==
    [q \in Roots |->
        CASE q = r ->
                [root[q] EXCEPT !.finishedWork = FALSE, !.finishedLanes = NoLanes,
                                !.timeoutHandle = FALSE,
                                !.workLanes = root[q].currentLanes \ lanes,
                                !.thrown = {}]
          [] q = wip.root /\ q # r ->
                [root[q] EXCEPT !.workLanes = NoLanes, !.thrown = {}]
          [] OTHER -> root[q]]

FreshWip(r, lanes) == [NoWip EXCEPT !.root = r, !.lanes = lanes]

(* An id that no task, no root and no running task has. *)
UsedIds(ts) ==
    {t.id : t \in ts} \cup {root[r].callbackNode : r \in Roots}
        \cup {stack[i].task : i \in DOMAIN stack} \cup {stack[i].node : i \in DOMAIN stack}

FreshId(ts) ==
    LET used == UsedIds(ts)
    IN  CHOOSE id \in 1..(Cardinality(used) + 1) : id \notin used

Scheduled(rt, id, priority) ==
    [rt EXCEPT !.callbackNode = id, !.callbackPriority = priority]

(* ensureRootIsScheduled(r), when rs are the roots and wipLanes the lanes  *)
(* r is being rendered at.                                                 *)
EnsureRootIsScheduled(r, rs, wipLanes) ==
    LET rt == rs[r]
        nextLanes == NextLanes(rt, wipLanes)
        priority == HighestPriorityLane(nextLanes)
        others == {t \in tasks : t.id # rt.callbackNode}
        id == FreshId(others)
    IN  \/ /\ nextLanes = NoLanes
           /\ tasks' = others
           /\ root' = [rs EXCEPT ![r] = Scheduled(rt, NoNode, NoLane)]
           /\ UNCHANGED queueVars
        \/ /\ nextLanes # NoLanes /\ priority = rt.callbackPriority
           /\ root' = rs
           /\ UNCHANGED <<tasks, queueVars>>
        \/ /\ nextLanes # NoLanes /\ priority # rt.callbackPriority
           /\ priority = SyncLane
           /\ tasks' = others
           /\ root' = [rs EXCEPT ![r] = Scheduled(rt, NoNode, SyncLane)]
           /\ syncQueue' = Append(syncQueue, r)
           /\ microtask' = TRUE
        \/ /\ nextLanes # NoLanes /\ priority # rt.callbackPriority
           /\ priority # SyncLane
           /\ tasks' = others \cup {[id |-> id, root |-> r]}
           /\ root' = [rs EXCEPT ![r] = Scheduled(rt, id, priority)]
           /\ UNCHANGED queueVars

-----------------------------------------------------------------------------
(* Updates.                                                                *)

(* checkForNestedUpdates: past the limit an update throws instead. *)
UpdateMayBeMade == nested.count <= NestedUpdateLimit

(* scheduleUpdateOnFiber, outside of the render phase. *)
ScheduleUpdateOnFiber(r, lane) ==
    LET interleaved == r = wip.root
        w == IF interleaved
             THEN [wip EXCEPT !.interleavedUpdatedLanes = @ \cup {lane}]
             ELSE wip
        updated == MarkRootUpdated(MarkUpdateLaneFromFiberToRoot(r, root[r], lane), lane)
        rt == IF interleaved /\ wip.exitStatus = "SuspendedWithDelay"
              THEN SuspendLanes(updated, wip.lanes, w)
              ELSE updated
    IN  /\ UpdateMayBeMade
        /\ wip' = w
        /\ EnsureRootIsScheduled(r, [root EXCEPT ![r] = rt], WipLanes(r))

(* retryTimedOutBoundary and captureCommitPhaseErrorOnRoot: an update that *)
(* is not treated as one of an event.                                      *)
ScheduleWork(r, lane) ==
    LET rt == MarkRootUpdated(MarkUpdateLaneFromFiberToRoot(r, root[r], lane), lane)
    IN  EnsureRootIsScheduled(r, [root EXCEPT ![r] = rt], WipLanes(r))

(* requestUpdateLane for a transition: one lane per event, claimed from    *)
(* the cycle of transition lanes.                                          *)
TransitionLane ==
    IF event.transitionLane = NoLane THEN event.nextTransitionLane ELSE event.transitionLane

ClaimTransitionLane ==
    [event EXCEPT !.transitionLane = TransitionLane,
                  !.nextTransitionLane =
                      IF event.transitionLane = NoLane THEN NextInCycle(@, TransitionLanes) ELSE @]

(* User code sets state, at the priority of the event or in a transition.  *)
UserUpdate(r, lanes) ==
    /\ Input
    /\ \/ \E lane \in lanes : ScheduleUpdateOnFiber(r, lane) /\ UNCHANGED event
       \/ /\ TransitionLanes # NoLanes
          /\ ScheduleUpdateOnFiber(r, TransitionLane)
          /\ event' = ClaimTransitionLane

UpdateDepthExceeded ==
    /\ ~UpdateMayBeMade
    /\ nested' = [root |-> NoRoot, count |-> 0]

Update(r) ==
    /\ Idle
    /\ UserUpdate(r, EventLanes)
    /\ UNCHANGED <<stack, hostVars, isFlushingSyncQueue, passive, nested, promiseVars>>

(* flushSync(() => update): the sync queue is flushed before it returns. *)
FlushSync(r) ==
    /\ Idle
    /\ Input
    /\ ScheduleUpdateOnFiber(r, SyncLane)
    /\ stack' = <<Frame("flushSyncCallbacks", "begin", NoRoot)>>
    /\ UNCHANGED <<event, hostVars, isFlushingSyncQueue, passive, nested, promiseVars>>

(* An update outside of the effects, with the limit passed. *)
UpdateThrows ==
    /\ Idle
    /\ UpdateDepthExceeded
    /\ UNCHANGED <<root, wip, stack, tasks, hostVars, queueVars, isFlushingSyncQueue,
                   passive, event, promiseVars, inputs>>

-----------------------------------------------------------------------------
(* Promises.                                                               *)

Settled(w) == \A l \in listeners : l.wakeable # w

Resolve(w) ==
    /\ Idle
    /\ w \notin resolved
    /\ ~Settled(w)
    /\ resolved' = resolved \cup {w}
    /\ UNCHANGED <<root, wip, stack, tasks, hostVars, queueVars, isFlushingSyncQueue,
                   passive, nested, event, listeners, inputs>>

(* pingSuspendedRoot: restart the render if it would suspend anyway, or    *)
(* remember the ping for when it does.                                     *)
Ping(l) ==
    LET r == l.root
        rt == MarkRootPinged(root[r], l.lanes)
        rs == [root EXCEPT ![r] = rt]
        samePriority == wip.root = r /\ l.lanes \subseteq wip.lanes
        mustRestart == wip.exitStatus = "SuspendedWithDelay"
        mayRestart == wip.exitStatus = "Suspended" /\ IncludesOnlyRetries(wip.lanes)
        fresh == [FreshRoots(r, NoLanes) EXCEPT ![r].pingedLanes = rt.pingedLanes]
    IN  /\ l.kind = "ping"
        /\ \/ /\ samePriority /\ (mustRestart \/ mayRestart)
              /\ wip' = FreshWip(r, NoLanes)
              /\ EnsureRootIsScheduled(r, fresh, NoLanes)
           \/ /\ samePriority /\ ~mustRestart
              /\ wip' = [wip EXCEPT !.pingedLanes = @ \cup l.lanes]
              /\ EnsureRootIsScheduled(r, rs, WipLanes(r))
           \/ /\ ~samePriority
              /\ wip' = wip
              /\ EnsureRootIsScheduled(r, rs, WipLanes(r))
        /\ event' = event

(* resolveRetryWakeable: try the boundary again. *)
Retry(l) ==
    /\ l.kind = "retry"
    /\ ScheduleWork(l.root, event.nextRetryLane)
    /\ event' = [event EXCEPT !.nextRetryLane = NextInCycle(@, RetryLanes)]
    /\ wip' = wip

(* The listeners of a resolved promise are called in microtasks. *)
Notify(l) ==
    /\ Idle
    /\ l.wakeable \in resolved
    /\ Ping(l) \/ Retry(l)
    /\ listeners' = listeners \ {l}
    /\ UNCHANGED <<stack, hostVars, isFlushingSyncQueue, passive, nested, resolved, inputs>>

-----------------------------------------------------------------------------
(* What the host starts.                                                   *)

(* Microtasks go first. *)
NoMicrotasks == ~microtask /\ \A l \in listeners : l.wakeable \notin resolved

Start(frame) == stack' = <<frame>>

RunMicrotask ==
    /\ Idle /\ microtask
    /\ microtask' = FALSE
    /\ Start(Frame("flushSyncCallbacks", "begin", NoRoot))
    /\ UNCHANGED <<root, wip, tasks, hostVars, syncQueue, isFlushingSyncQueue, passive,
                   nested, event, promiseVars, inputs>>

(* The task is no longer in the scheduler while it runs. *)
RunTask(t) ==
    /\ Idle /\ NoMicrotasks
    /\ tasks' = tasks \ {t}
    /\ event' = [event EXCEPT !.transitionLane = NoLane]
    /\ Start([Frame("performConcurrentWorkOnRoot", "begin", t.root)
                 EXCEPT !.task = t.id, !.node = root[t.root].callbackNode])
    /\ UNCHANGED <<root, wip, hostVars, queueVars, isFlushingSyncQueue, passive,
                   nested, promiseVars, inputs>>

RunPassiveTask ==
    /\ Idle /\ NoMicrotasks /\ passiveTask
    /\ passiveTask' = FALSE
    /\ Start(Frame("flushPassiveEffects", "begin", NoRoot))
    /\ UNCHANGED <<root, wip, tasks, flushTask, queueVars, isFlushingSyncQueue, passive,
                   nested, event, promiseVars, inputs>>

RunFlushTask ==
    /\ Idle /\ NoMicrotasks /\ flushTask
    /\ flushTask' = FALSE
    /\ Start(Frame("flushSyncCallbacks", "begin", NoRoot))
    /\ UNCHANGED <<root, wip, tasks, passiveTask, queueVars, isFlushingSyncQueue, passive,
                   nested, event, promiseVars, inputs>>

(* The delay of a fallback is over.  The tasks it orphans are bounded. *)
TimeoutFires(r) ==
    /\ Idle /\ NoMicrotasks
    /\ root[r].timeoutHandle
    /\ Cardinality(tasks) < MaxTasks
    /\ root' = [root EXCEPT ![r].timeoutHandle = FALSE]
    /\ Start(Frame("commitRoot", "begin", r))
    /\ UNCHANGED <<wip, tasks, hostVars, queueVars, isFlushingSyncQueue, passive, nested,
                   event, promiseVars, inputs>>

-----------------------------------------------------------------------------
(* flushSyncCallbacks.                                                     *)

BeginFlush ==
    /\ At("flushSyncCallbacks", "begin")
    /\ IF isFlushingSyncQueue \/ syncQueue = << >>
       THEN Return /\ UNCHANGED isFlushingSyncQueue
       ELSE Goto("loop") /\ isFlushingSyncQueue' = TRUE
    /\ UNCHANGED <<root, wip, tasks, hostVars, queueVars, passive, nested, event,
                   promiseVars, inputs>>

NextSyncCallback ==
    /\ At("flushSyncCallbacks", "loop")
    /\ IF syncQueue = << >>
       THEN /\ Return
            /\ isFlushingSyncQueue' = FALSE
            /\ UNCHANGED syncQueue
       ELSE /\ Call("performSyncWorkOnRoot", Head(syncQueue), "loop")
            /\ syncQueue' = Tail(syncQueue)
            /\ UNCHANGED isFlushingSyncQueue
    /\ UNCHANGED <<root, wip, tasks, hostVars, microtask, passive, nested, event,
                   promiseVars, inputs>>

-----------------------------------------------------------------------------
(* flushPassiveEffects.                                                    *)

BeginPassiveEffects ==
    /\ At("flushPassiveEffects", "begin")
    /\ IF passive.root = NoRoot
       THEN Return /\ UNCHANGED passive
       ELSE /\ Continue([Top EXCEPT !.pc = "effects", !.root = passive.root])
            /\ passive' = [root |-> NoRoot, lanes |-> NoLanes]
    /\ UNCHANGED <<root, wip, tasks, hostVars, queueVars, isFlushingSyncQueue, nested,
                   event, promiseVars, inputs>>

EndPassiveEffects ==
    /\ At("flushPassiveEffects", "effects")
    /\ Call("flushSyncCallbacks", NoRoot, "end")
    /\ UNCHANGED <<root, wip, tasks, hostVars, queueVars, isFlushingSyncQueue, passive,
                   nested, event, promiseVars, inputs>>

ReturnFromPassiveEffects ==
    /\ At("flushPassiveEffects", "end")
    /\ Return
    /\ UNCHANGED <<root, wip, tasks, hostVars, queueVars, isFlushingSyncQueue, passive,
                   nested, event, promiseVars, inputs>>

(* What user code does in layout effects (updates are discrete there) and  *)
(* in passive effects.                                                     *)
EffectLanes == IF At("commitRoot", "layout") THEN {SyncLane} ELSE EventLanes

EffectUpdates(r) ==
    /\ At("commitRoot", "layout") \/ At("flushPassiveEffects", "effects")
    /\ UserUpdate(r, EffectLanes)
    /\ UNCHANGED <<stack, hostVars, isFlushingSyncQueue, passive, nested, promiseVars>>

(* An effect throws: captureCommitPhaseError updates an error boundary. *)
EffectThrows ==
    /\ At("commitRoot", "layout") \/ At("flushPassiveEffects", "effects")
    /\ CanError /\ Input
    /\ ScheduleWork(Top.root, SyncLane)
    /\ UNCHANGED <<wip, stack, hostVars, isFlushingSyncQueue, passive, nested, event,
                   promiseVars>>

(* An update of an effect passes the limit: so does the effect throw. *)
EffectUpdateThrows ==
    /\ At("commitRoot", "layout") \/ At("flushPassiveEffects", "effects")
    /\ UpdateDepthExceeded
    /\ ScheduleWork(Top.root, SyncLane)
    /\ UNCHANGED <<wip, stack, hostVars, isFlushingSyncQueue, passive, event,
                   promiseVars, inputs>>

-----------------------------------------------------------------------------
(* Rendering: performSyncWorkOnRoot and performConcurrentWorkOnRoot.       *)

Procs == {"performSyncWorkOnRoot", "performConcurrentWorkOnRoot"}
Performing(pc) == ~Idle /\ Top.proc \in Procs /\ Top.pc = pc

(* Passive effects go first.  They may replace the task that is running.   *)
BeginPerform ==
    /\ Performing("begin")
    /\ Call("flushPassiveEffects", NoRoot,
            IF Top.proc = "performConcurrentWorkOnRoot" /\ passive.root # NoRoot
            THEN "compare" ELSE "choose")
    /\ UNCHANGED <<root, wip, tasks, hostVars, queueVars, isFlushingSyncQueue, passive,
                   nested, event, promiseVars, inputs>>

CompareNode ==
    /\ Performing("compare")
    /\ IF root[Top.root].callbackNode = Top.node THEN Goto("choose") ELSE Return
    /\ UNCHANGED <<root, wip, tasks, hostVars, queueVars, isFlushingSyncQueue, passive,
                   nested, event, promiseVars, inputs>>

(* The beginning of renderRootSync and renderRootConcurrent: go on with    *)
(* the render in progress or start afresh.                                 *)
RenderRoot(frame, lanes) ==
    LET r == frame.root
    IN  /\ Continue([frame EXCEPT !.pc = "render", !.lanes = lanes])
        /\ IF wip.root # r \/ wip.lanes # lanes
           THEN root' = FreshRoots(r, lanes) /\ wip' = FreshWip(r, lanes)
           ELSE UNCHANGED <<root, wip>>

ChooseLanesSync ==
    LET r == Top.root
        lanes == NextLanes(root[r], NoLanes)
    IN  /\ At("performSyncWorkOnRoot", "choose")
        /\ \/ /\ SyncLane \in lanes
              /\ RenderRoot([Top EXCEPT !.sync = TRUE], lanes)
              /\ UNCHANGED <<tasks, queueVars>>
           \/ /\ SyncLane \notin lanes
              /\ EnsureRootIsScheduled(r, root, WipLanes(r))
              /\ Return
              /\ UNCHANGED wip
        /\ UNCHANGED <<hostVars, isFlushingSyncQueue, passive, nested, event, promiseVars,
                       inputs>>

(* A render is not sliced if its lanes forbid it, if one of them expired   *)
(* or if the task did: the last two may be at any time.                    *)
ChooseLanesConcurrent ==
    LET r == Top.root
        lanes == NextLanes(root[r], WipLanes(r))
    IN  /\ At("performConcurrentWorkOnRoot", "choose")
        /\ \/ /\ lanes # NoLanes
              /\ \E sync \in BOOLEAN :
                    /\ IncludesBlockingLane(lanes) => sync
                    /\ RenderRoot([Top EXCEPT !.sync = sync], lanes)
           \/ /\ lanes = NoLanes
              /\ Return
              /\ UNCHANGED <<root, wip>>
        /\ UNCHANGED <<tasks, queueVars, hostVars, isFlushingSyncQueue, passive, nested,
                       event, promiseVars, inputs>>

Rendering == Performing("render")

(* A component throws a promise that has not resolved, or a new one. *)
CanSuspendOn(w) ==
    w \in resolved => Settled(w) /\ \A r \in Roots : w \notin root[r].thrown

(* A ping for the lanes of the render, one for each wakeable and lanes.    *)
AttachWakeableListeners(r, w) ==
    listeners' = listeners \cup
        {[kind |-> "ping", wakeable |-> w, root |-> r, lanes |-> wip.lanes]}

(* throwException: a boundary catches it and will render its fallback. *)
Suspend(w) ==
    LET r == Top.root
    IN  /\ Rendering /\ Input
        /\ CanSuspendOn(w)
        /\ root' = [root EXCEPT ![r].thrown = @ \cup {w}]
        /\ wip' = [wip EXCEPT !.capturing = TRUE]
        /\ AttachWakeableListeners(r, w)
        /\ resolved' = resolved \ {w}
        /\ UNCHANGED <<stack, tasks, hostVars, queueVars, isFlushingSyncQueue, passive,
                       nested, event>>

Suspended(status) ==
    [wip EXCEPT !.capturing = FALSE,
                !.exitStatus =
                    IF @ = "Incomplete" \/ status = "SuspendedWithDelay" THEN status ELSE @]

(* The boundary completes with its fallback.  Nothing else happens if it   *)
(* showed that before (renderDidSuspend, if nothing has to be hidden for   *)
(* it, or renderDidSuspendDelayIfPossible, otherwise).  In the last case,  *)
(* if lanes were skipped that could unblock it, its own are suspended now. *)
FallbackCompletes ==
    LET r == Top.root
        skipped == (root[r].workLanes \ wip.lanes) \cup wip.interleavedUpdatedLanes
    IN  /\ Rendering /\ wip.capturing
        /\ \/ /\ wip' = [wip EXCEPT !.capturing = FALSE]
              /\ root' = root
           \/ /\ wip' = Suspended("Suspended")
              /\ root' = root
           \/ /\ wip' = Suspended("SuspendedWithDelay")
              /\ IncludesNonIdleWork(skipped)
              /\ root' = [q \in Roots |->
                             IF q = r THEN SuspendLanes(root[q], wip.lanes, wip) ELSE root[q]]
           \/ /\ wip' = Suspended("SuspendedWithDelay")
              /\ ~IncludesNonIdleWork(wip.interleavedUpdatedLanes)
              /\ root' = root
        /\ UNCHANGED <<stack, tasks, hostVars, queueVars, isFlushingSyncQueue, passive,
                       nested, event, promiseVars, inputs>>

(* A component throws an error that a boundary or the root will capture.   *)
ComponentThrows ==
    /\ Rendering /\ CanError /\ Input
    /\ wip' = [wip EXCEPT !.exitStatus = IF @ = "SuspendedWithDelay" THEN @ ELSE "Errored"]
    /\ UNCHANGED <<root, stack, tasks, hostVars, queueVars, isFlushingSyncQueue, passive,
                   nested, event, promiseVars>>

(* A component updates another while it renders: the update gets a lane    *)
(* that is being rendered, nothing is scheduled, and this render processes *)
(* it or not.                                                              *)
RenderPhaseUpdate ==
    LET r == Top.root
        lane == HighestPriorityLane(wip.lanes)
        marked == MarkUpdateLaneFromFiberToRoot(r, root[r], lane)
    IN  /\ Rendering /\ Input
        /\ UpdateMayBeMade
        /\ \E left \in {root[r].workLanes, marked.workLanes} :
              root' = [root EXCEPT ![r] =
                          MarkRootUpdated([marked EXCEPT !.workLanes = left], lane)]
        /\ wip' = [wip EXCEPT !.renderPhaseUpdatedLanes = @ \cup {lane}]
        /\ UNCHANGED <<stack, tasks, hostVars, queueVars, isFlushingSyncQueue, passive,
                       nested, event, promiseVars>>

(* With the limit passed it is the component that throws. *)
RenderUpdateThrows ==
    /\ Rendering
    /\ UpdateDepthExceeded
    /\ wip' = [wip EXCEPT !.exitStatus = IF @ = "SuspendedWithDelay" THEN @ ELSE "Errored"]
    /\ UNCHANGED <<root, stack, tasks, hostVars, queueVars, isFlushingSyncQueue, passive,
                   event, promiseVars, inputs>>

(* A hidden tree is left for later. *)
DeferHiddenTree ==
    LET r == Top.root
    IN  /\ Rendering /\ OffscreenLane \in Lane \ wip.lanes
        /\ OffscreenLane \notin root[r].workLanes
        /\ Input
        /\ root' = [root EXCEPT ![r].workLanes = @ \cup {OffscreenLane}]
        /\ UNCHANGED <<wip, stack, tasks, hostVars, queueVars, isFlushingSyncQueue, passive,
                       nested, event, promiseVars>>

(* The concurrent work loop yields to the host. *)
Yield ==
    /\ Rendering /\ ~Top.sync
    /\ Goto("exit")
    /\ UNCHANGED <<root, wip, tasks, hostVars, queueVars, isFlushingSyncQueue, passive,
                   nested, event, promiseVars, inputs>>

(* The tree is complete, or an error could not be handled at all. *)
CompleteTree(status) ==
    /\ Rendering
    /\ Goto(status)
    /\ wip' = [wip EXCEPT !.capturing = FALSE, !.root = NoRoot, !.lanes = NoLanes,
                          !.exitStatus = IF @ = "Incomplete" THEN "Completed" ELSE @]
    /\ UNCHANGED <<root, tasks, hostVars, queueVars, isFlushingSyncQueue, passive,
                   nested, event, promiseVars>>

RenderCompletes == ~wip.capturing /\ CompleteTree("rendered") /\ UNCHANGED inputs
RenderFails == CanError /\ Input /\ CompleteTree("fatal")

(* recoverFromConcurrentError: after an error, all that is pending is      *)
(* rendered once more, or several times if components update each other.   *)
ErrorLanes == LanesToRetrySynchronouslyOnError(root[Top.root])

Errored == Performing("rendered") /\ wip.exitStatus = "Errored"

RecoverFromConcurrentError ==
    /\ Errored
    /\ \/ /\ ~Top.recovering /\ ErrorLanes # NoLanes
          /\ RenderRoot([Top EXCEPT !.sync = TRUE, !.recovering = TRUE], ErrorLanes)
       \/ /\ Top.recovering /\ wip.renderPhaseUpdatedLanes # NoLanes
          /\ RenderRoot(Top, Top.lanes)
    /\ UNCHANGED <<tasks, hostVars, queueVars, isFlushingSyncQueue, passive, nested,
                   event, promiseVars, inputs>>

(* The last render stands. *)
Rendered == Performing("rendered") /\ (Errored /\ ErrorLanes # NoLanes => Top.recovering)

(* An external store has changed since it was read: the render is redone.  *)
RenderIsInconsistent ==
    /\ Rendered /\ HasStores /\ Input
    /\ Top.proc = "performConcurrentWorkOnRoot"
    /\ ~Top.checked /\ ~IncludesBlockingLane(Top.lanes)
    /\ RenderRoot([Top EXCEPT !.sync = TRUE, !.checked = TRUE, !.recovering = FALSE], Top.lanes)
    /\ UNCHANGED <<tasks, hostVars, queueVars, isFlushingSyncQueue, passive, nested,
                   event, promiseVars>>

(* The error goes to whoever called. *)
ThrowFatalError ==
    LET r == Top.root
        fresh == FreshRoots(r, NoLanes)
        rs == [q \in Roots |->
                  IF q = r THEN MarkRootSuspended(fresh[q], Top.lanes) ELSE fresh[q]]
    IN  /\ Performing("fatal")
        /\ wip' = FreshWip(r, NoLanes)
        /\ EnsureRootIsScheduled(r, rs, NoLanes)
        /\ Throw
        /\ UNCHANGED <<passiveTask, passive, nested, event, promiseVars, inputs>>

Finished(rt, lanes) == [rt EXCEPT !.finishedWork = TRUE, !.finishedLanes = lanes]

(* Nothing of a completed render is used after this but its tree. *)
FinishSyncRender ==
    LET r == Top.root
    IN  /\ Rendered /\ Top.proc = "performSyncWorkOnRoot"
        /\ root' = [root EXCEPT ![r] = Finished(@, Top.lanes)]
        /\ wip' = NoWip
        /\ Call("commitRoot", r, "exit")
        /\ UNCHANGED <<tasks, hostVars, queueVars, isFlushingSyncQueue, passive, nested,
                       event, promiseVars, inputs>>

(* finishConcurrentRender for a render that suspended with a placeholder   *)
(* that may be shown.  Retries are throttled: depending on the time they   *)
(* wait for other work, for a ping or for a timeout.                       *)
DelayFallback(rt, lanes) ==
    LET nextLanes == NextLanes(rt, NoLanes)
    IN  CASE nextLanes # NoLanes -> rt
          [] nextLanes = NoLanes /\ ~(lanes \subseteq rt.suspendedLanes) ->
                MarkRootPinged(rt, rt.suspendedLanes)
          [] OTHER -> [rt EXCEPT !.timeoutHandle = TRUE]

FinishConcurrentRender ==
    LET r == Top.root
        lanes == Top.lanes
        status == wip.exitStatus
        finished == Finished(root[r], lanes)
        suspended == SuspendLanes(finished, lanes, wip)
    IN  /\ Rendered /\ Top.proc = "performConcurrentWorkOnRoot"
        /\ \/ /\ status \in {"Completed", "Errored"}
              /\ root' = [root EXCEPT ![r] = finished]
              /\ Call("commitRoot", r, "exit")
           \/ /\ \/ status = "Suspended"
                 \/ status = "SuspendedWithDelay" /\ ~IncludesOnlyTransitions(lanes)
              /\ root' = [root EXCEPT ![r] = suspended]
              /\ Call("commitRoot", r, "exit")
           \/ /\ status = "Suspended" /\ IncludesOnlyRetries(lanes)
              /\ root' = [root EXCEPT ![r] = DelayFallback(suspended, lanes)]
              /\ Goto("exit")
           \/ /\ status = "SuspendedWithDelay"
              /\ root' = [root EXCEPT ![r] =
                             [suspended EXCEPT !.timeoutHandle = ~IncludesOnlyTransitions(lanes)]]
              /\ Goto("exit")
        /\ wip' = NoWip
        /\ UNCHANGED <<tasks, hostVars, queueVars, isFlushingSyncQueue, passive, nested,
                       event, promiseVars, inputs>>

ExitWithoutScheduling ==   \* mutant
    /\ Performing("exit")
    /\ Goto("return")
    /\ UNCHANGED <<root, wip, tasks, hostVars, queueVars, isFlushingSyncQueue, passive,
                   nested, event, promiseVars, inputs>>

(* Before it returns, each makes sure that the rest of the work is scheduled. *)
ExitPerform ==
    /\ Performing("exit")
    /\ EnsureRootIsScheduled(Top.root, root, WipLanes(Top.root))
    /\ Goto("return")
    /\ UNCHANGED <<wip, hostVars, isFlushingSyncQueue, passive, nested, event, promiseVars,
                   inputs>>

(* A task whose root still has the node it had goes on later. *)
GoesOn == Top.proc = "performConcurrentWorkOnRoot" /\ root[Top.root].callbackNode = Top.node

ReturnFromPerform ==
    /\ Performing("return")
    /\ IF GoesOn
       THEN tasks' = tasks \cup {[id |-> Top.task, root |-> Top.root]}
       ELSE UNCHANGED tasks
    /\ Return
    /\ UNCHANGED <<root, wip, hostVars, queueVars, isFlushingSyncQueue, passive, nested,
                   event, promiseVars, inputs>>

-----------------------------------------------------------------------------
(* commitRoot.                                                             *)

EffectsMayWait == TRUE   \* mutant

(* The effects of the commit before are flushed, until there are none. *)
EffectsAreFlushed == passive.root = NoRoot

FlushBeforeCommit ==
    /\ At("commitRoot", "begin")
    /\ passive.root # NoRoot
    /\ Call("flushPassiveEffects", NoRoot, "begin")
    /\ UNCHANGED <<root, wip, tasks, hostVars, queueVars, isFlushingSyncQueue, passive,
                   nested, event, promiseVars, inputs>>

(* Flushing the effects may have committed or discarded the tree. *)
NothingToCommit ==
    /\ At("commitRoot", "begin")
    /\ EffectsAreFlushed
    /\ ~root[Top.root].finishedWork
    /\ Return
    /\ UNCHANGED <<root, wip, tasks, hostVars, queueVars, isFlushingSyncQueue, passive,
                   nested, event, promiseVars, inputs>>

LanesNotRendered(rt) == rt.pendingLanes \ rt.finishedLanes   \* mutant

NothingDone(rt) == rt.pendingLanes   \* mutant

(* What still has work in it: not all that was not rendered, and some of   *)
(* what was.                                                               *)
RemainingLanes(rt) == rt.workLanes

(* Up to the mutation phase: the work tree becomes the current one, the    *)
(* lanes without work are no longer pending, and the boundaries that show  *)
(* a fallback will be retried.                                             *)
CommitMutationEffects ==
    LET r == Top.root
        rt == root[r]
    IN  /\ At("commitRoot", "begin")
        /\ EffectsAreFlushed
        /\ rt.finishedWork
        /\ \E hasPassiveEffects \in BOOLEAN :
              /\ passiveTask' = (passiveTask \/ hasPassiveEffects)
              /\ Continue([Top EXCEPT !.pc = "layout", !.lanes = rt.finishedLanes,
                                      !.passive = hasPassiveEffects])
        /\ root' = [root EXCEPT ![r] =
              [MarkRootFinished(Scheduled(rt, NoNode, NoLane), RemainingLanes(rt))
                  EXCEPT !.finishedWork = FALSE, !.finishedLanes = NoLanes,
                         !.currentLanes = rt.workLanes, !.workLanes = NoLanes, !.thrown = {}]]
        /\ wip' = IF wip.root = r THEN NoWip ELSE wip
        /\ listeners' = listeners \cup
              {[kind |-> "retry", wakeable |-> w, root |-> r, lanes |-> NoLanes] : w \in rt.thrown}
        /\ UNCHANGED <<tasks, flushTask, queueVars, isFlushingSyncQueue, passive, nested,
                       event, resolved, inputs>>

(* After the layout effects. *)
EndCommit ==
    LET r == Top.root
    IN  /\ At("commitRoot", "layout")
        /\ passive' = IF Top.passive THEN [root |-> r, lanes |-> Top.lanes] ELSE passive
        /\ EnsureRootIsScheduled(r, root, WipLanes(r))
        /\ Goto("scheduled")
        /\ UNCHANGED <<wip, hostVars, isFlushingSyncQueue, nested, event, promiseVars, inputs>>

(* An error that no boundary handled is rethrown. *)
ThrowUncaughtError ==
    /\ At("commitRoot", "scheduled")
    /\ CanError /\ Input
    /\ Throw
    /\ UNCHANGED <<root, wip, tasks, passiveTask, queueVars, passive, nested, event,
                   promiseVars>>

(* The effects of a discrete event are flushed at once. *)
FlushDiscreteEffects ==
    /\ At("commitRoot", "scheduled")
    /\ IF SyncLane \in passive.lanes
       THEN Call("flushPassiveEffects", NoRoot, "nested")
       ELSE Goto("nested")
    /\ UNCHANGED <<root, wip, tasks, hostVars, queueVars, isFlushingSyncQueue, passive,
                   nested, event, promiseVars, inputs>>

CountNestedUpdate ==
    LET r == Top.root
    IN  /\ At("commitRoot", "nested")
        /\ nested' = IF SyncLane \notin root[r].pendingLanes THEN [nested EXCEPT !.count = 0]
                     ELSE IF nested.root = r THEN [nested EXCEPT !.count = @ + 1]
                     ELSE [root |-> r, count |-> 0]
        /\ Call("flushSyncCallbacks", NoRoot, "end")
        /\ UNCHANGED <<root, wip, tasks, hostVars, queueVars, isFlushingSyncQueue, passive,
                       event, promiseVars, inputs>>

ReturnFromCommit ==
    /\ At("commitRoot", "end")
    /\ Return
    /\ UNCHANGED <<root, wip, tasks, hostVars, queueVars, isFlushingSyncQueue, passive,
                   nested, event, promiseVars, inputs>>

-----------------------------------------------------------------------------
Init ==
    /\ root = [r \in Roots |-> NewRoot]
    /\ wip = NoWip
    /\ stack = << >>
    /\ tasks = {}
    /\ passiveTask = FALSE /\ flushTask = FALSE /\ microtask = FALSE
    /\ syncQueue = << >> /\ isFlushingSyncQueue = FALSE
    /\ passive = [root |-> NoRoot, lanes |-> NoLanes]
    /\ nested = [root |-> NoRoot, count |-> 0]
    /\ event = [transitionLane |-> NoLane,
                nextTransitionLane |-> HighestPriorityLane(TransitionLanes),
                nextRetryLane |-> HighestPriorityLane(RetryLanes)]
    /\ listeners = {} /\ resolved = {}
    /\ inputs = 0

UserCode ==
    \/ \E r \in Roots : Update(r) \/ FlushSync(r) \/ EffectUpdates(r)
    \/ UpdateThrows \/ EffectUpdateThrows \/ RenderUpdateThrows \/ EffectThrows
    \/ \E w \in Wakeables : Suspend(w)
    \/ ComponentThrows \/ RenderPhaseUpdate \/ DeferHiddenTree
    \/ RenderFails \/ RenderIsInconsistent \/ ThrowUncaughtError

Host ==
    \/ RunMicrotask \/ RunPassiveTask \/ RunFlushTask
    \/ \E t \in tasks : RunTask(t)
    \/ \E r \in Roots : TimeoutFires(r)
    \/ \E w \in Wakeables : Resolve(w)
    \/ \E l \in listeners : Notify(l)

React ==
    \/ BeginFlush \/ NextSyncCallback
    \/ BeginPassiveEffects \/ EndPassiveEffects \/ ReturnFromPassiveEffects
    \/ BeginPerform \/ CompareNode \/ ChooseLanesSync \/ ChooseLanesConcurrent
    \/ Yield \/ FallbackCompletes \/ RenderCompletes \/ RecoverFromConcurrentError \/ ThrowFatalError
    \/ FinishSyncRender \/ FinishConcurrentRender \/ ExitPerform \/ ReturnFromPerform
    \/ FlushBeforeCommit \/ NothingToCommit \/ CommitMutationEffects \/ EndCommit
    \/ FlushDiscreteEffects \/ CountNestedUpdate \/ ReturnFromCommit

(* The inputs are used up and all that was scheduled has been done. *)
Quiescent ==
    /\ Idle /\ inputs = MaxInputs /\ tasks = {} /\ NoMicrotasks
    /\ \A r \in Roots : root[r].pendingLanes = NoLanes
    /\ UNCHANGED vars

Next == UserCode \/ Host \/ React \/ Quiescent

Spec == Init /\ [][Next]_vars

-----------------------------------------------------------------------------
(* Fairness: the host runs what was scheduled and promises resolve; React  *)
(* goes on once it was called; and a render is not sliced for ever: one    *)
(* that yields and is not interrupted resumes where it stopped             *)
(* (renderRootConcurrent), so that each slice has less left to render.     *)
(* Lanes that expire are not even sliced (includesExpiredLane), but those  *)
(* of retries, idle and offscreen work never do (computeExpirationTime).   *)
FairSpec == Spec /\ WF_vars(Host) /\ WF_vars(React) /\ SF_vars(FallbackCompletes \/ RenderCompletes)

-----------------------------------------------------------------------------
FrameType ==
    [proc : {"flushSyncCallbacks", "flushPassiveEffects", "performSyncWorkOnRoot",
             "performConcurrentWorkOnRoot", "commitRoot"},
     pc : {"begin", "loop", "effects", "end", "compare", "choose", "render", "rendered",
           "fatal", "exit", "return", "layout", "scheduled", "nested"},
     root : Roots \cup {NoRoot},
     task : TaskIds \cup {NoNode}, node : TaskIds \cup {NoNode},
     lanes : SUBSET Lane,
     sync : BOOLEAN, recovering : BOOLEAN, checked : BOOLEAN, passive : BOOLEAN]

RootType ==
    [pendingLanes : SUBSET Lane, suspendedLanes : SUBSET Lane, pingedLanes : SUBSET Lane,
     entangledLanes : SUBSET Lane, entanglements : [Lane -> SUBSET Lane],
     callbackNode : TaskIds \cup {NoNode}, callbackPriority : Lane \cup {NoLane},
     finishedWork : BOOLEAN, finishedLanes : SUBSET Lane, timeoutHandle : BOOLEAN,
     currentLanes : SUBSET Lane, workLanes : SUBSET Lane, thrown : SUBSET Wakeables]

WipType ==
    [root : Roots \cup {NoRoot}, lanes : SUBSET Lane, capturing : BOOLEAN,
     exitStatus : {"Incomplete", "Completed", "Suspended", "SuspendedWithDelay", "Errored"},
     interleavedUpdatedLanes : SUBSET Lane, renderPhaseUpdatedLanes : SUBSET Lane,
     pingedLanes : SUBSET Lane]

(* The types of the variables. *)
TypeOK ==
    /\ root \in [Roots -> RootType]
    /\ wip \in WipType
    /\ stack \in Seq(FrameType)
    /\ tasks \subseteq [id : TaskIds, root : Roots]
    /\ passiveTask \in BOOLEAN /\ flushTask \in BOOLEAN /\ microtask \in BOOLEAN
    /\ syncQueue \in Seq(Roots)
    /\ isFlushingSyncQueue \in BOOLEAN
    /\ passive \in [root : Roots \cup {NoRoot}, lanes : SUBSET Lane]
    /\ nested \in [root : Roots \cup {NoRoot}, count : Nat]
    /\ event \in [transitionLane : Lane \cup {NoLane}, nextTransitionLane : Lane \cup {NoLane},
                  nextRetryLane : RetryLanes]
    /\ listeners \subseteq [kind : {"ping", "retry"}, wakeable : Wakeables, root : Roots,
                            lanes : SUBSET Lane]
    /\ resolved \subseteq Wakeables
    /\ inputs \in 0..MaxInputs

(* No lane with work in it is forgotten by the root, even if it was        *)
(* updated while the tree was rendered or waited for its commit            *)
(* (commitRootImpl, markRootFinished).                                     *)
NoLaneLost ==
    \A r \in Roots : root[r].currentLanes \subseteq root[r].pendingLanes

(* Between host tasks, the priority of a root is that of its most urgent   *)
(* lane, except that the task of a transition, which a default update may  *)
(* not interrupt, may have been left to a default update, whose priority   *)
(* in the Scheduler is the same.  If it is SyncLane the root is in the     *)
(* sync queue and something will flush it, even after an error             *)
(* (ensureRootIsScheduled, getNextLanes, flushSyncCallbacks).              *)
IsQueued(r) ==
    /\ \E i \in DOMAIN syncQueue : syncQueue[i] = r
    /\ microtask \/ flushTask

SyncWorkScheduled ==
    Idle => \A r \in Roots :
        /\ LET lane == HighestPriorityLane(NextLanes(root[r], WipLanes(r)))
           IN  \/ root[r].callbackPriority = lane
               \/ root[r].callbackPriority \in TransitionLanes /\ lane = DefaultLane
        /\ root[r].callbackPriority = SyncLane => IsQueued(r)

(* Between host tasks, a root with unblocked work is in the queue or has a *)
(* live task (ensureRootIsScheduled).                                      *)
HasUnblockedWork(rt) ==
    LET idleMayRun == rt.pendingLanes \cap NonIdleLanes = NoLanes
    IN  \E lane \in rt.pendingLanes :
            /\ lane \notin rt.suspendedLanes \/ lane \in rt.pingedLanes
            /\ lane \in NonIdleLanes \/ idleMayRun

RootScheduled ==
    Idle => \A r \in Roots :
        HasUnblockedWork(root[r]) =>
            \/ root[r].callbackPriority = SyncLane /\ IsQueued(r)
            \/ [id |-> root[r].callbackNode, root |-> r] \in tasks

(* Suspended lanes wait for a promise that will ping them, or have been    *)
(* pinged: a ping that comes while the render goes on is not lost          *)
(* (pingSuspendedRoot, markRootSuspended, finishConcurrentRender).         *)
WillBePinged(r, lane) ==
    \E l \in listeners : l.kind = "ping" /\ l.root = r /\ lane \in l.lanes

SuspendedHasWakeup ==
    Idle => \A r \in Roots :
        \A lane \in (root[r].pendingLanes \cap root[r].suspendedLanes) \ root[r].pingedLanes :
            WillBePinged(r, lane)

(* The passive effects of a commit are not overwritten by those of the     *)
(* next (commitRootImpl, "do ... while").                                  *)
PassiveEffectsKept ==
    [][passive.root # NoRoot => passive'.root \in {passive.root, NoRoot}]_vars

(* Work leaves a root only by a commit that rendered it: what arrives      *)
(* while a finished tree waits for its commit, or while the layout effects *)
(* run, is not committed with it (commitRootImpl, prepareFreshStack).      *)
WorkLeavesByItsCommit ==
    [][\A r \in Roots :
          LET done == root[r].currentLanes \ root'[r].currentLanes
          IN  /\ done \subseteq root[r].finishedLanes
              /\ done # NoLanes => At("commitRoot", "begin") /\ Top.root = r]_vars

(* Every update is committed in the end, on every root: each lane that is  *)
(* pending leaves, whatever suspends, yields or is interrupted on the way. *)
AllWorkIsCommitted == <>[](\A r \in Roots : root[r].pendingLanes = NoLanes)
=============================================================================
