# React's work scheduling, in TLA+

Specifications, model checks and proofs for the parts of this repository (React 18
alpha, with annotated sources) that decide **what work runs when, and that none of it
is forgotten**: the scheduler, the scheduling half of the reconciler, the queues of
class components and hooks, the reconciliation of children, and the two streaming
servers with the Flight client.

## 1. Inventory of the system

The repository is a monorepo of packages under `src/packages`.

| Component | State it keeps | Operations | Talks to |
|---|---|---|---|
| `scheduler` (`forks/Scheduler.js`) | two heaps of tasks, the current task, wake-up flags, one message, timeouts | scheduleCallback, cancelCallback, pause/continue, requestPaint, forceFrameRate; message and timeout handlers | host (MessageChannel, setTimeout, clock); the callbacks it calls |
| `scheduler` (`SchedulerMinHeap.js`) | an array | push, peek, pop | Scheduler.js |
| `scheduler` (priority context) | the current priority level | runWithPriority, next, wrapCallback | user code |
| `scheduler` (`SchedulerMock.js`, `SchedulerPostTask.js`, profiling) | same as the browser fork, over a virtual clock or `postTask` | same | tests, browsers with `postTask` |
| reconciler: lanes (`ReactFiberLane`) | bit sets per root: pending, suspended, pinged, expired, entangled; times per lane | markRoot*, getNextLanes, claimNext* | root scheduling |
| reconciler: root scheduling (`ReactFiberWorkLoop`) | one callback node and priority per root, the work in progress, execution context, passive effects | scheduleUpdateOnFiber, ensureRootIsScheduled, performConcurrent/SyncWorkOnRoot, commitRoot, pings, retries | scheduler, sync queue, lanes, host config |
| reconciler: sync queue (`ReactFiberSyncTaskQueue`) | a queue, a re-entrance flag | scheduleSyncCallback, flushSyncCallbacks | root scheduling |
| reconciler: update queues (`ReactUpdateQueue`, `ReactFiberInterleavedUpdates`) | base, pending and interleaved updates of a class or root fiber, twice (current, work in progress) | enqueueUpdate, processUpdateQueue, commit | work loop |
| reconciler: hooks (`ReactFiberHooks`) | hook lists, their queues | dispatch, render, effects | work loop, lanes |
| reconciler: child reconciliation (`ReactChildFiber`) and commit (`ReactFiberCommitWork`) | the fibers of a parent, their keys, indices and Placement flags; the host nodes | reconcileChildFibers; commitDeletion, commitPlacement | host config |
| reconciler: begin/complete phases, hydration, context, suspense, cache, fiber stack | fibers | render of each kind of fiber | host config |
| `react` (`ReactLazy`, `act`, children, elements, context) | lazy payloads, act queue | | reconciler |
| `react-server` (`ReactFizzServer`) | a request: segments, boundaries, tasks, counters, three queues of boundaries | startWork, performWork, pings, startFlowing, flush, abort | a destination stream with back pressure, promises, user callbacks |
| `react-server` (`ReactFlightServer`), `react-client` (`ReactFlightClient`) | chunks and their queues; the chunks of a response with their listeners, modules | startWork, performWork, pings, flush; getChunk, resolve*, readRoot, close, reportGlobalError | streams, module loader, suspense |
| `react-cache`, `react-fetch`, `react-fs`, `react-pg` | an LRU list, caches of thenables | read, preload, evict | suspense |
| `use-subscription`, `use-sync-external-store`, `create-subscription`, mutable sources | a subscription and a snapshot | subscribe, getSnapshot | hooks |
| `react-dom` events and client, `react-art`, `react-native-renderer`, `react-noop-renderer`, `react-test-renderer` | DOM, event replay queues | host config, event dispatch | reconciler |
| devtools, eslint plugin, refresh, is, debug-tools, test utilities, fixtures, scripts | | | |

JavaScript runs one host task at a time, so nothing here is preempted. The hard
behaviours come from (1) the order in which the host runs messages, timeouts,
microtasks and events, (2) user code that is called in the middle of an operation and
calls back in, (3) exceptions that leave an operation half way, (4) work that is
interrupted, restarted and reordered by priority, (5) promises that resolve at any
time, also after what waited for them is gone.

What makes each component correct:

* scheduler: no task, timer or wake-up is ever lost; tasks run one at a time in the
  order of expiration and never early; nobody starves;
* heap: pop returns the least of what was pushed and not yet popped;
* lanes: work that is pending and not blocked is always chosen by someone; suspended
  work is retried when pinged; expired work is not starved; entangled lanes go together;
* root scheduling: a root with work always has exactly one callback, at the priority of
  its most urgent lane; a stale callback does nothing; passive effects are flushed
  before the next render or commit;
* sync queue: every callback queued runs once, also if one before it throws;
* update queues: no update is dropped or applied twice, and the final state is that of
  applying all updates in the order of insertion, whatever was skipped or interrupted;
* hooks: the same for hook queues, and an eagerly computed state is what the reducer
  would have given;
* child reconciliation and commit: the host shows what was rendered, keyed children keep
  their state, and no host call on the way refers to a node that is not there;
* Fizz and Flight: every segment or chunk is flushed once, after what it depends on, the
  counters of pending work reach zero once, and the stream ends; whoever waits is woken;
* caches and subscriptions: bounded size, no entry lost while in use, no missed change.


## 2. The modules and how they correspond to the code

| Module | Models | Code it stands for |
|---|---|---|
| `Scheduler` | the browser fork of the scheduler | `scheduler/src/forks/Scheduler.js`, the order of `SchedulerMinHeap.js` |
| `AbstractScheduler` | what the scheduler promises | (specification; `Scheduler` implements it) |
| `Lanes` | lane masks and the choice of the next lanes | `ReactFiberLane.new.js` |
| `RootScheduler` (extends `Lanes`) | root scheduling, sync queue, commits, effects, pings | `ReactFiberWorkLoop.new.js`, `ReactFiberSyncTaskQueue.new.js`, `throwException` |
| `UpdateQueue` (extends `Lanes`) | the update queue of a class component or root | `ReactUpdateQueue.new.js`, `ReactFiberInterleavedUpdates.new.js`, their callers in the class component and the work loop |
| `AbstractUpdateQueue` | what an update queue promises | (specification; `UpdateQueue` implements it) |
| `HookQueue` (extends `Lanes`) | the queue of a `useState` with its eager states | `dispatchSetState`, `updateReducer`, `bailoutHooks` of `ReactFiberHooks.new.js`, and their callers |
| `ChildFibers` | reconciliation of the children of a host parent, and the mutations that commit it | `ReactChildFiber.new.js`, deletion and placement of `ReactFiberCommitWork.new.js` |
| `Fizz` | a request of the streaming HTML server | `ReactFizzServer.js`, `ReactDOMFizzServerNode.js` |
| `Flight` | a request of the Flight server, the stream, and the client that reads it | `ReactFlightServer.js`, `ReactFlightClient.js`, the stream, DOM relay and Webpack parts of the client |
| `DataLemmas`, `SchedulerProofs` | the safety proofs about `Scheduler`, and that it implements `AbstractScheduler` | |
| `RootSchedulerProofs` | the safety proofs about `RootScheduler` and `Lanes` | |
| `UpdateQueueProofs` | the safety proofs about `UpdateQueue`, and that it implements `AbstractUpdateQueue` | |
| `HookQueueProofs` | the safety proofs about `HookQueue` | |
| `FlightProofs` | the safety proofs about `Flight` | |
| `FizzInvariant`, `FizzProofs` (extends the first) | the safety proofs about `Fizz` | |
| `MC*` | values of the constants for TLC | |

`PROJECT.json` names, for every definition, the lines it is translated from. Operators
marked `mutant` in a comment are the plausible bugs used to show that each property
can fail; no specification uses them.

### Scheduler

JavaScript runs to completion, so an action is one host task, or the part of one up to
the next call of user code. `pc` says where the thread is: `idle` (no scheduler code on
the stack), `loop` (at the head of the while loop of `workLoop`) or `callback` (inside
the callback of a task, which may call scheduleCallback, cancelCallback and the rest).
`UserStep` collects the calls of user code, which may come from a callback or from a
host task of its own; `PerformWorkUntilDeadline` is the handler of the message and
includes `flushWork` up to the loop; `RunTask`, `CompleteTask`, `ContinueTask` and
`ThrowTask` are the three ways a callback is called and left; `WorkLoopYield`,
`DropCancelledTask` and `WorkLoopDone` are the other paths of the loop.

* The heaps are sets. `Peek` chooses the least by `compare` (sort index, then id).
* `task[id].callback` is `"function"` or `"null"`, which is how the code cancels.
* `taskTimeoutID` holds the due time of the timeout it names, `leakedTimeouts` counts the
  armed timeouts nothing names any more (the code overwrites the identifier).
* The clock advances at any step, also inside a callback; it stops at `MaxTime`, and
  what would be due later is due then (`Due`).
* Throwing leaves `flushWork` through its `finally` and `performWorkUntilDeadline`
  through its own, with `hasMoreWork` still true.

### Lanes

A mask is a set of lane indices. `NextLanes` is `getNextLanes` with its four decisions as
separate operators: what is workable (unblocked or pinged, idle lanes last), whether the
render in progress goes on, the default lane that joins the input lane, and the
entanglements. The `markRoot*` functions are operators from a root record to a root
record. `NextInCycle` is the claim of transition and retry lanes in rotation.

### RootScheduler

The functions that call user code, or each other in the middle of their work, are frames
of `stack`; each frame has a `pc` for the points where something else runs first. So
`performConcurrentWorkOnRoot` is `begin` (flush passive effects), `compare` (is the node
still mine?), `choose`, `render`, `rendered`, `exit`, `return`, and `commitRoot` is
`begin`, `layout`, `scheduled`, `nested`. The host starts a task only when the stack is
empty. `executionContext` is not a variable: it is the frame on top.

* A fiber tree is two sets: the lanes with work in the current tree (`currentLanes`) and
  in its alternate (`workLanes`). An update adds its lane to both
  (`markUpdateLaneFromFiberToRoot`); rendering removes the lanes it renders from the
  alternate; the commit makes the alternate current and takes what remains from it.
  `RemainingLanes` is exactly `finishedWork.lanes | finishedWork.childLanes`.
* User code is a choice at each point where React calls it: an update, a promise that is
  thrown, an error, an inconsistent store, a hidden tree. At most `MaxInputs` times.
* Whether a concurrent render yields, and whether it is sliced at all, is a free choice:
  the clock, `didTimeout` and `expiredLanes` would only restrict it. So is whether a
  suspended commit is delayed (throttling and the "just noticeable difference").
* The scheduler is a set of live tasks, any of which may run next: `Scheduler` promises
  an order, and nothing here relies on it. A task is an id, which stands for the object
  the code compares by identity; a new one is any that no task, root or frame has.
* Passive effect and sync flush tasks are Booleans: several do what one does.

### UpdateQueue

One class component (or host root) with its current and work-in-progress queues, the
shared part of them, the lanes of the root and the lanes of the rest of the tree. The
state of the component *is* the sequence of updates applied to it, so that two states are
equal only if the same updates were applied in the same order: every merge of partial
states is a function of that sequence. `render.phase` follows the render from
`prepareFreshStack` over the component (`begun`, or `bailedOut`; `captured` when a child
throws) to the end of the tree (`done`, `suspended`) and to the commit. Events come
between tasks or while a concurrent render yields; after one the task chooses its lanes
again (`interrupted`). `forgotten` is a history field of a fiber: the updates that were kept
apart (interleaved) while a render of it found nothing to process, so that their lanes got
lost (section 3, `update_queue_lost`); no action looks at it.

`AbstractUpdateQueue` says what is kept of the comment at the head of `ReactUpdateQueue.new.js`:
no update is dropped or applied twice, skipped ones are rebased, and all that is ever shown is
the result of updates in one order that does not change. It does not say that this is the order
of insertion, which the same comment promises and the code breaks (`update_queue_order`).

### HookQueue

The render is that of `UpdateQueue`; what differs is the hook. The state is a *value* and
an action a function of it, because the two shortcuts of hooks compare values: `setState`
computes the next state at once if neither fiber has lanes, does not schedule anything if
it is the same, and lets the render use it otherwise; a render that arrives at the same
state bails out and (`bailoutHooks`) takes its lanes off the *current* fiber. Next to each
value the model keeps the updates that were applied to get it (a history), so that the
value can be compared with what their actions give. `alternate` is the other fiber at all
times: its lanes may be those of an earlier render, which is why `setState` looks at both.

### ChildFibers

`ReconcileChildrenArray` has the two loops of the code as one recursion over the new
children: slot by slot while the keys agree (`UpdateSlot`), by key afterwards
(`UpdateFromMap`); `reconcileSingleChild` has an operator of its own. Old fibers keep
their index, which has gaps where a slot was empty. `Render` computes the fibers and their
flags at once, and the commit then makes one host call per step: the deletions of a parent
before its children, the placements after them. `HostSibling` is `getHostSibling`: the
next node that stays, skipping what will be placed and going out of and into groups. A
group is a component or fragment: its host nodes belong to the same parent.

### Fizz

An action is one call of the code up to where user code may run; `calls` is what the
JavaScript stack has left to do, because `pipe`, `abort` and the callbacks `onReadyToStream`,
`onCompleteAll` and `onError` may come between. The tree is not a constant: wherever the
renderer looks at a node it may suspend, open a boundary, throw, or end. A task is named by
the segment it writes; `suspense[Root]` plays the request where that plays a boundary.
`client` is what the browser was told last of each boundary. `wrappers` are the places where it
has the boundary, one for each time `flushSegment` came to it, and what became of each: the
code gives a boundary a new `id` and a new `rootSegmentID` whenever it meets it pending, so
both are the number of the wrapper they were written in. A content segment keeps the
`rootSegmentID` it was sent under (`SegmentID`), and `CompleteBoundary` is the inline script of
that name (`ReactDOMServerFormatConfig.js`): it looks the content up by the id it is told, and
does nothing but fail if there is none. All placeholders have the id 1, since no two are the
same and the code only asks whether a segment has one.
Back pressure is a free choice at every write that looks at it. Left out or assumed:

* nothing in the code adds to `byteSize`, so the branch for large boundaries and the part
  of the flush that serves it are never taken;
* a set of tasks is aborted in any order: the code visits it in the order of insertion, and no
  property depends on which it is; so is the order in which the boundaries that one flush
  shows with some content ready enter `partialBoundaries`;
* promises settle between host tasks; `abort` is not called from inside itself; `onError`
  does not throw;
* the destination is a Node stream: `end` after `end` does nothing. What a flush that fails
  half way has written of a segment is not kept.

### Flight

Server, stream and client in one module, because each is the other's environment. A model
is the set of chunks it refers to, by value (`values`) or lazily (`lazies`); components on
the client are named by the chunk they read. `wire` is the stream of rows and `received` how
many the client has processed. The connection may close early, which the client learns as
an error, or as an end if all was sent. Left out or assumed: decoding; each module has its
own code; `fatalError`, `onError` and a destination that throws; within one flush a
destination that refused keeps refusing (it is corked), and the flush of the next queue
goes on all the same, as in the code.

### Composition

`RootScheduler`, `UpdateQueue` and `HookQueue` extend `Lanes` and use the same `NextLanes`,
`MarkRoot*` and `LanesToRetrySynchronouslyOnError`; a run of each checks those definitions
in context. They are views of one render: `RootScheduler` has many tasks, roots and commits
and a tree that is only its lanes; the other two have one root and a component whose lanes
are computed by its queue. `RootScheduler` *assumes* that rendering keeps the lane of an
update that arrives meanwhile. The other two show components that do not
(`update_queue_lost`, and the exception of `hooks`): there the invariant `NoLaneLost` of
`RootScheduler` still holds, because the tree has forgotten the lane as well.
`Flight` composes server and client over the stream. `Scheduler` and `RootScheduler` are
not composed: the second treats the first as a set of tasks any of which may run next,
which `AbstractScheduler` refines.

## 3. The runs

Each is TLC on the whole state space of its bounds.

| Run | What it shows | Bounds |
|---|---|---|
| `scheduler` | the wake-up invariants, no task lost, `Scheduler` implements `AbstractScheduler`, every task is run in the end | 2 tasks, 2 priorities, delay 1, time to 2; pausing, `isInputPending`, `requestPaint`, `forceFrameRate` |
| `root` | lanes, schedules, suspending and pings, passive effects; work leaves only by its commit; every update is committed | 2 roots, 1 promise, 7 kinds of lanes, 3 inputs, 2 tasks |
| `root_errors` | sync work stays scheduled, with errors and inconsistent stores | 2 roots, 5 inputs |
| `update_queue` | `UpdateQueue` implements `AbstractUpdateQueue`; each new update is called back once; what waits has its lane | 3 updates, sync and two transition lanes, 1 captured error |
| `update_queue_lost` | *violated:* a waiting update has a lane on the root | same |
| `update_queue_order` | *violated:* updates are shown in the order of insertion | 2 updates, no captured errors |
| `hooks` | eager states are right; in the end every action had its effect | 3 updates of 2 kinds, a sync and a transition lane |
| `children` | the host shows what was rendered; legal host calls; keyed state kept | every pair of lists of up to 3 children, 4 keyed ones, groups; 2 renders |
| `fizz` | counters, queues, the protocol with the browser; what a closed stream has sent; the stream ends | 6 segments, 5 with errors or an abort, 2 boundaries, 1 retry |
| `fizz_back_pressure` | *violated:* no internal check fails | 7 segments, 2 boundaries, no errors, no abort |
| `flight` | no row is lost or written twice, waiting components are woken, errors are real, every read ends | 3 chunks, 1 retry, the connection may fail |
| `flight_failure` | *violated:* a failure is reported to all chunks that are missing | same |

### Why the bounds are enough

* Two tasks are what the scheduler's decisions need in pairs: the one that runs and one that
  overtakes it or waits; a timer behind another. The proofs cover any number. The time
  allows a timer to be not yet due, due, and noticed late.
* Two roots are what `rootWithPendingPassiveEffects`, `workInProgressRoot` and the sync
  queue can confuse: each is one variable shared by all roots. Three inputs cover an update
  of each root and one that interrupts; five, in `root_errors`, an error in each of two
  phases on top.
* Lanes: one lane of each kind that the code distinguishes in a decision: sync, default, two
  transitions (so that a claim goes round), a retry lane, idle and offscreen.
* Three updates are needed for an update that is skipped, one that is rebased on top of it
  and one that is interleaved; two transition lanes for entanglement (`update_queue`). Hooks
  need two lanes: one render to interrupt another. With three
  lanes and three kinds of actions TLC found nothing in 16 million states, without finishing.
* Two kinds of actions for hooks: one that may change nothing and one that always does, so
  that the order of the two can be seen in a single bit.
* `NestedUpdateLimit` is 0: the code compares a count with it, and a larger limit needs more
  inputs to reach the same comparison.
* Children: the algorithm compares one old and one new child, or looks a key up; three
  positions give a node that stays between two that do not, and four keyed children every
  permutation for `lastPlacedIndex`. Groups are one level deep: `getHostSibling` goes out of
  and into a group with the same step at any depth.
* Fizz: a boundary nested in the content or the fallback of another needs two, and each has
  two segments beside the shell: five. A boundary that is met twice needs a sixth, a task that
  keeps it pending while its fallback waits; with six, errors and aborts are left out
  (`MaxFaulty`). The back-pressure defect needs seven segments, which is possible without
  errors and abort only. The proofs cover any number.
* Flight: a root, a module or symbol, and a chunk that refers to it, or that is referred to
  by two. Four chunks without failures were run once for the safety properties
  (2.4 million states).

TLC's coverage shows that the passing runs together fire every action and every disjunct.

### Fairness

`scheduler`: weak fairness of the host (the message is delivered, timeouts fire, time
passes) and of the loop, and strong fairness of a task's completion: a callback that
always returns a continuation or always throws starves the others, and the code does not
prevent it. A task is *not* promised to run while the scheduler is paused.

`root`: weak fairness of the host, which includes that promises resolve, and of React's own
steps once it is on the stack; strong fairness of the end of a render. A render that yields
and is not interrupted resumes where it stopped (`renderRootConcurrent` keeps `workInProgress`
if root and lanes are the same), so that every slice leaves less to render, and it is
interrupted only as often as there are inputs. Lanes that expire are not even sliced
(`markStarvedLanesAsExpired`, `includesExpiredLane`), but this cannot be the reason: retry,
idle and offscreen lanes never expire (`ReactFiberLane.new.js:368-385`). User code is not
fair: it may stop at any time.

`fizz`: JavaScript runs on, a full destination drains, every promise settles; but once the user
has aborted they may hang, since ending a request whose promises hang is what `abort` is for.

`flight`: the same on the server; what was sent arrives or the connection fails; the client
renders on and the code of modules loads or fails.

### What the violated runs say

* `update_queue_lost`: the lanes of interleaved updates are tracked only inside
  `if (firstBaseUpdate !== null)`. A component rendered with an empty queue loses the lane
  of an update that arrived while the render yielded; the update is shown only if the component
  gets another one. With the block moved out of the
  condition, as `updateReducer` of the hooks has it, TLC finds the property to hold.
* `update_queue_order`: a render yields, `setState` is interleaved, the render is committed, and
  a second `setState` goes to the pending queue at once. The next `prepareFreshStack` joins the
  interleaved update *behind* the pending one, and both are committed in the wrong order,
  although "new updates are always appended to the end of the list".
* `fizz_back_pressure`: a boundary leaves `partialBoundaries` while segments of it are still
  to be sent; when its outer boundary completes, the suspended ones are aborted, and the
  flush of the rest throws "This is a bug in React".
* `flight_failure`: the connection fails before a chunk is first asked for.
  `reportGlobalError` tells the chunks that exist; the one created later stays pending.

### What the properties except

Where the code breaks a property in one way, the property names that way, so that the run
still checks everything else.

* `NothingIsLost` and `EagerStateIsRight` of `HookQueue`, `forgotten`: `bailoutHooks` takes
  lanes off the current fiber during a render that may be thrown away. The shortest loss: a
  transition renders and yields; `setState` in the same transition; the component is visited
  with an empty queue, bails out, and its lane is taken off; the render suspends and starts
  again, and no fiber knows of the update. Likewise updates that cancel each other out are
  rendered, bail out, and are thrown away: now `setState` takes the queue for empty
  (`ReactFiberHooks.new.js:2250`) and computes an eager state that is wrong for a render that
  skips one of them.
* The same two, updates out of order: an update that was kept apart from a render is overtaken by
  one made after it ended, as in `update_queue_order`; if the overtaken one has an eager state,
  that overwrites the effect of the other.
* `SkippedUpdatesHaveLanes` of `UpdateQueue`, `forgotten`: the updates whose lane is lost as in
  `update_queue_lost`.
* `ClosedComplete` of `Fizz`, `ShownAgain`, and `QueuedOnce`, `ShownTwice`: a boundary `x` is shown
  as pending while its fallback, a task of its own, is suspended, so that a placeholder stands
  for the fallback. The fallback finishes and its segment is flushed with what it is in.
  `flushSegment` comes to `x` once more and takes it for new: if `x` is still pending, it gets a
  new id ("This is the first time we should have referenced this ID", `ReactFizzServer.js:1661`)
  and a new `rootSegmentID`; if it is complete (it may wait in `completedBoundaries` by now), it
  is sent inline as "a previously unvisited boundary" (1700). The instruction that completes `x`
  then names an id that is not in the page, where the script fails, or only the second wrapper.
  The first wrapper, around the second, stays pending when the stream is closed. Without the
  exception of `ClosedComplete` TLC finds this on the instance of `fizz`, without errors and
  aborts; five segments are too few. Of such boundaries the other parts of `ClosedComplete`,
  `ClientProtocol` and the rest of `QueuedOnce` are still checked.
* `EventuallyEnds` of `Fizz`, `Orphaned`: the content of a boundary throws, and its fallback
  suspends. The fallback's task is in an abort set that only tasks of the content lead to, and
  there are none: `abort` does not find it, and if its promise hangs the request never ends.
  (A request that is piped after it was closed by an abort does not end either; the
  property is about requests that are piped before.)
* `ClosedComplete` of `Fizz`: a placeholder may stay unfilled where something else is shown:
  its boundary is left to the client, or it stands in a fallback whose boundary shows its
  content.
* `WaitersWake` and `AllRead` of `Flight`, `LostSymbol`: `resolveSymbol` assumes its row comes
  before every row that refers to it and replaces the chunk that is there. Under back
  pressure a module row that is refused is followed by a JSON row all the same, and the
  symbol comes after it: a component that waits for the symbol is forgotten.
* `SyncWorkScheduled` of `RootScheduler`: the task of a transition may be left to a default
  update that another root's render kept from being chosen; both have the same priority in
  the scheduler.

### Seen while modelling, without a run

* An error that escapes from the flush of the sync queue, inside passive effects that the
  task of another root flushes first, unwinds that task before it touched its root.
  `callbackNode` still names it; `ensureRootIsScheduled` then reuses a task that is gone
  ("If we're going to re-use an existing task, it needs to exist"), and the root stalls until
  an update of another priority. TLC showed this in `RootScheduler` with two roots, errors,
  three tasks and five inputs (the invariant: between host tasks each `callbackNode` is that
  of a task in `tasks`).
* A commit called by a timeout clears `callbackNode` without cancelling the task; the root
  gets a second one, and one of them finds nothing ("never expected to happen"). Harmless.
* Timeouts armed by `workLoop` and `handleTimeout` of the scheduler do not set
  `isHostTimeoutScheduled`, so no flush cancels them. Harmless: `handleTimeout` checks.
* Cancelling the task that runs has no effect if it returns a continuation.
* `captureCommitPhaseError` schedules the update of an error boundary with `markRootUpdated`
  and `ensureRootIsScheduled` only (`ReactFiberWorkLoop.new.js:2478-2483`), so these updates
  are not counted by `checkForNestedUpdates` (2645).
* `processUpdateQueue` of classes has a reset of `shared.lanes` in an `else` that cannot be
  reached; the model never resets them.

## 4. What is proved

`SchedulerProofs` proves, for any number of tasks, any priorities, timeouts, delays, frame
rates and any setting of the flags, that `Spec` of `Scheduler` keeps `TypeOK`,
`MessageLoop`, `NoLostWakeup`, `TimerArmed`, `TimeoutFlagHonest` and `NoTaskLost`. The
only assumption is `SchedulerAssumption` in `Scheduler`: the constants have their types,
timeouts are at least -1 (`IMMEDIATE_PRIORITY_TIMEOUT`) and delays are naturals.

None of the six is inductive alone. The invariant `Inv` is their conjunction with two
parts that say what the work loop knows:

* `LoopState`: while `flushWork` runs both scheduled-flags are cleared (so whatever a
  callback schedules posts no second message), `currentTask` is the top of the heap at the
  loop's head, and identifiers in use are below the counter (so a new task is really new);
* `RunState`: the callback of the task that runs is null, so completing it loses nothing
  live; and the loop's clock is not ahead of the real one.

`NoLostWakeup` needs `MessageLoop` (posting is skipped only if one is under way) and the
flags of `LoopState`; `TimerArmed` needs that a set flag names an armed timeout
(`TimeoutFlagHonest`). There is one lemma per action (`ScheduleCallbackInv`, ...,
`WorkLoopDoneInv`), on top of lemmas about `Peek` (a least element exists, from
`DataLemmas`) and `AdvanceTimers` (no task leaves the two heaps, and none gets into
both).

The same module proves, for the same constants, that `Spec` implements
`AbstractScheduler` (`PromiseKept`). Each action is shown to be a step of the promise or
invisible to it: there is one lemma for each kind of step (`ScheduleRefines`,
`CancelRefines`, `RunTaskRefines`, `StopRefines`, `Invisible`), and `NextRefines` puts
them together. The hard one is `RunTask`: the top of `taskQueue` must expire first among
all tasks that had started at `currentTime`, also those that were delayed. `Inv` does
not say so, and `ClockState` adds what is missing: every queued task has started, and at
the loop's head no live timer is left that had started at `currentTime`, because each
change of `currentTime` is followed by `advanceTimers(currentTime)`.

### Flight

`FlightProofs` proves, for any numbers of chunks and retries and whichever failures are
allowed, that `Spec` of `Flight` keeps `TypeOK`, `ChunksExact`, `WaitersWake`,
`ErrorsAreReal` and `ChunkProtocol`. The assumptions are those of `Flight` on its
constants. The inductive invariant (`InductiveInvariant`) follows a chunk through server,
wire and client: every id that was issued is in one place only (a task to be rendered, one
of the three queues, the wire or the client), so that what `pendingChunks` counts is a set
whose cardinality each action changes by one; a row on the wire is that of a chunk the
server has rendered, and a settled chunk of the client was settled by such a row, by the
code of its module or by the end of the connection. `WaitersWake` needs in addition that
a component is on the list of listeners of the chunk it waits for until the chunk is
settled, through the chain chunk, module, code.

### Fizz

`FizzInvariant` and `FizzProofs` prove, for any number of segments, boundaries and retries,
with and without errors and aborts (`FizzAssumption`), that `Spec` of `Fizz` keeps `TypeOK`,
`CountersExact`, `QueuedOnce`, `ClosedComplete` and `ClientProtocol`. The exceptions the
properties make are those of section 3; nothing else is assumed, and the errors of
`NoInternalError` are among the behaviours. So are boundaries that are shown again: nothing is
claimed of their wrappers but that none is decided twice. TLC checked the inductive invariant itself with 5
and 6 segments, and with 7 without errors and abort, before it was proved. Its parts:

* `SegmentTree`, `BoundaryTree`, `RunState`, `OpenState`: the tree. What is rendered later has
  a greater number than what it is in; what is pinged, suspended or rendered is a task; the
  boundaries that are open are those around the node that is rendered.
* `CountState`: `allPendingTasks` is the number of tasks that are not over (`Live`) plus the
  calls of the last part of `finishedTask` that are still on the stack, and `pendingTasks` of a
  boundary is the number of live tasks that it blocks. `CountersExact` speaks of moments when
  nothing is left to do, and aborting a fallback takes many steps before that.
* `StackState`, `SetState`: the rest of an abort. A task that will be aborted is live and is on
  the stack once; a task in a set that can be aborted is live, or the stack has a call that
  clears the set. This holds because aborting the set of a boundary leads only to sets that come
  later in one order: those of the boundaries around it and of those in its fallback. The order
  is no variable of the model. `Placed` says that there is one: a rank for each boundary, and
  for each segment the boundaries whose fallback (`home`) and whose content (`reg`) it is in.
* `ShownState`: what is on the page is in something that is shown, and the segment around a
  boundary that is shown was sent.
* `ClientState`, `QueuedOnce`, `ReadyState`: what the browser was told agrees with the state of
  each boundary; what waits in `completedSegments` is complete and is the content of the
  boundary or can be found by its id.
* `RootState`, `OverState`, `FlowState`: nothing is shown before the shell; a task that is over
  was sent (`Written`), waits in `completedSegments`, or is replaced by something else; only
  the call on top of the stack flushes, and it takes the queues in their order.
* `WrapperState`, on top of the others: the wrapper that a pending or queued boundary names by
  its id is in the page and undecided; a boundary with one wrapper has one that agrees with
  `client`, and its content was sent under the `rootSegmentID` the instruction will name; one with
  more has a fallback that was a placeholder. What each action keeps of it is `WrappersKept`.

What a flush comes to (`Walk`) is a recursive function. The proofs need no induction over it:
`WalkExists` gives a function without recursion that satisfies its equation (all that is in
every closed set around a segment), so that `Walk` does; `WalkLeast` shows that it is the least
such set, because a flush goes on to greater segments only (`VisitsLarger`), so that a
counterexample would have a last one. What a write does is then said of every segment that is
written (`Wrote`), whatever the order. There is one lemma per action (`PingTaskStep`, ...,
`FlushPartialBoundaryStep`), on top of frames for the kinds of steps: those that leave the tree
alone (`ControlFrame`), that end a task (`EndFrame`), that make segments or boundaries
(`GrowStates`), that close a boundary (`CloseStates`) and that write (`WriteSegmentsStep`).

### Root scheduling

All of it holds for any set of lanes with their order (`LaneAssumption`), any roots and
promises, any number of tasks and inputs and any nesting limit (`RootSchedulerAssumption`:
the roots are finite, `SyncLane` and a retry lane exist).

`RootSchedulerProofs` proves `TypeOK`, `NoLaneLost`, `PassiveEffectsKept` and
`WorkLeavesByItsCommit`. The last three are about one tree, but need to know what runs.
`Inv` adds `StackOK` (below the frame on top all others wait for a call to return, so only
one renders, commits or runs layout effects), `WorkInv` (a tree that is rendered, or waits for
its commit, still holds the work it was not rendered at, an update that came
meanwhile included) and `TopInv` (the frame that renders agrees with
`workInProgressRoot`; when it commits, the passive effects of the commit before are gone).
That the id of a new task is really new is the pigeonhole principle (`FreshIdIsFresh`).

The second part of `RootSchedulerProofs` proves `SuspendedHasWakeup`. `WakeInv` says when a listener is owed:
for suspended lanes that were not pinged (`BlockedWake`), but already for the lanes of the
render in progress if it has suspended and got no ping (`WipWakes`), and for the lanes
of a render that is complete and not yet marked (`RenderedWakes`): the ping may come at
any time in between, and goes to `workInProgressRootPingedLanes` or to the root.

The third part proves `SyncWorkScheduled` and `RootScheduled`. These speak of moments
when nothing runs, so the invariant has to say what is owed while something does:

* `CallInv`: which function may have called which; that at most one frame flushes the queue,
  and the flag says so; where passive effects may be left waiting;
* `LanesInv`: suspended, pinged and rendered lanes are pending, and
  `performSyncWorkOnRoot` renders `SyncLane`;
* `FitInv`: the priority of a root fits `getNextLanes`, except in the window in which the
  function on top works on this root and has `ensureRootIsScheduled` still to call. It
  rests on lemmas about `NextLanes` (`NextLanesChoice`, `AbandonedFits`: what the choice is,
  and that giving up a render does not change the priority but for the one exception that the
  property names);
* `QueueInv`: a root with the priority `SyncLane` is in the queue, or `performSyncWorkOnRoot`
  or the commit it called is under way for it; and if the queue is not empty, a microtask,
  a task or a frame of the stack will flush it, also after an exception;
* `TaskInv`: a root has a callback node unless its priority is none or `SyncLane`, two roots
  never have the same, and the task of the node is in the scheduler or is the one that runs.

`SyncWorkScheduled` is proved with errors. `SuspendedHasWakeup` and `RootScheduled` are
proved under `~CanError` and are false without it: a fatal error suspends the lanes it was
rendered at with nobody to ping them, and ends the task that runs while its root may still
name it (section 3, *Seen while modelling*). `root`, which checks both, sets `CanError` to
`FALSE` too.

### Update queues

`UpdateQueueProofs` proves, for any set of lanes, any number of updates and captured errors,
and whether or not rendering updates state (`UpdateQueueAssumption`, `LaneAssumption`), that
`Spec` of `UpdateQueue` keeps `TypeOK`, `CallbacksOfNewUpdates` and `SkippedUpdatesHaveLanes`,
and that it implements `AbstractUpdateQueue` (`PromiseIsKept`). TLC checked the inductive
invariant on the instance of `update_queue` before it was proved. Its parts:

* `ShownInv`: the state a fiber shows is its base state and then, of its base queue, the
  updates that were rebased (those with no lane), in their order. So the base queue has
  forgotten nothing, and processing it again gives the same or more.
* `WaitingInv`: an update that no render has seen has a lane. No update without a lane is
  one that was never shown, which is how the code decides whom to call back.
* `IdsInv`: no update is in the queue twice, the one of a captured error included.
* `WipInv`: what is rendered has the updates of the current fiber in the same order. The
  update of an error is in the work in progress only, and pending updates may join behind it:
  it is *placed* somewhere behind all that is shown, as the abstract queue allows.
  The rendered state has all that is shown, and the effects are the difference.
* `PhaseInv`: when that update exists, that it is the last until the component renders again,
  and is applied then, since the render has its lane.

`SkippedUpdatesHaveLanes` is inductive as it stands, given the types and phases of `Inv`: every
place that puts an update into a queue, takes it out or swaps the fibers does the same to the lanes
(`LanesUpdate`, `LanesProcessed`, `LanesCaptured`, `LanesCommit`, ...). The one that does not,
`processUpdateQueue` with nothing to process, adds to `forgotten`, and that is the only way
into the exception (`ProcessLanes`).

The abstract variables are the line of the updates (`Order`) and what is shown. Each
action has one lemma (`UpdateStep`, `BeginStep`, `AgainStep`, `CommitStep`, ...), which gives
the invariant and what the abstract queue sees: nothing (`Quiet`), an update that is put into
the line, or the new state of a commit.

What `processUpdateQueue` computes is a function over the queue (`Only`), and the library's
induction theorems, which take an operator, cannot be used. The proofs do without:
`SequencesByAppend` is induction stated with a *set* of sequences, and follows from the least
length of a counterexample (`LeastNatural`); `KeptExists` and `KeptIsUnique` show with it that
the recursive function exists and is what its equation says. All that is said of queues of
any length (`OnlyConcat`, `OnlyIds`, `WeakenedIds`, `RebasedQueue`) rests on these.

### Hook queues

`HookQueueProofs` proves, for any set of lanes, any states and actions and any number of
updates (`HookQueueAssumption`, `LaneAssumption`), that `Spec` of `HookQueue` keeps `TypeOK`,
`EagerStateIsRight` and `NothingIsLost`, with the exceptions that the properties name
(section 3, *What the properties except*). TLC checked the inductive invariant on an instance
with two lanes, two states and three updates before it was proved. It is stated for one fiber
and what it will find in its queue (`FiberInv`), and holds of the current fiber and, once the
render has got to the component, of its alternate, which the commit makes current:

* `LaneInv`: an update that waits has its lane in the fiber, or stands behind a skipped one
  that has; or it was dropped, because it led from the base state to the base state.
* `EagerInv`: if an eager state is used in order, it was computed on the base state, and
  whatever is older and still waits was dropped. So a fiber that renders it gets the value its
  action gives, although that value was computed before anything else was rendered.
* `BaseInv`: a fiber that has no lanes, or skipped nothing, shows its base state, and that is
  `lastRenderedState`, on which `setState` computes.
* `CoverInv`: every update is in the base state or in the queue.
* `FiberRight`: the two states of the fiber are what the actions of their updates give.

In a render that bails out after taking lanes of waiting updates off the current fiber, only the
alternate satisfies `FiberInv`. If that render is thrown away nothing is claimed any more:
this is the exception `forgotten`, and the proof shows that it is the only one of its kind.

There is one lemma per action (`DispatchInv`, ..., `CommitInv`). `DispatchInv` needs that the
update fits both fibers (`UpdatedInv`), `RenderComponentInv` that what is rendered does
(`RenderedInv`, `RenderedRight`), and that so does the current fiber, which keeps the whole queue
as its base queue (`TransferredInv`). For `NothingIsLost` the invariant gives that, when no lane is
left, all that waits was dropped: increasing identifiers that are all those up to `n` are 1 to
`n` (`IncreasingIsAll`), so applying every action comes to the base state and then stays there.
The recursive functions `StateAfter` and `Result` are dealt with as in `UpdateQueueProofs`:
`IntervalInduction` is induction with a set of numbers, `RecursionExists` gives the function.

## 5. What is only model-checked

* Liveness (`EventuallyRun`, `AllWorkIsCommitted`, `EventuallyEnds`, `AllRead`): out of the
  prover's reach, as is everything with fairness.
* `ChildFibers`, its type invariant included. It is built from `SelectSeq` and `FlattenSeq` over
  trees of fibers: `SelectSeq` takes an operator, which the provers cannot instantiate, and the
  order of the flattened nodes through each step of the commit would have to be derived from
  the definitions of both. Nothing about it is claimed beyond the instance of the run
  `children`.

## 6. What is not modelled

* Times of lanes: event and expiration times (any slicing is allowed instead).
* Legacy roots, the `act` queue, profiling and devtools hooks, cache pools, hydration.
* What rendering does to each kind of fiber: only the lanes it leaves, and the queues and
  children named above.
* In the queues: the mount, `forceUpdate`, updates from inside an updater function; for hooks,
  updates during the render of the same component, reducers other than that of `useState`,
  effects, external stores, several hooks of one component.
* In reconciliation: iterators (a copy of the same algorithm), lazy elements, refs, duplicate
  keys, hidden trees, text and property updates.
* In Fizz and Flight what is listed under the modules.
* The array of the heap, priority contexts, other forks of the scheduler, lazy components,
  caches, subscriptions, the DOM and other renderers, tools. `PROJECT.json` lists each of them
  with the reason.

## 7. Plan

Done: the scheduler with the proofs of its safety and of its refinement; lanes, root
scheduling and sync queue with the proofs of all their safety properties; class update queues
with the proofs of their safety and of their refinement; hook queues with the proofs of their
safety; child reconciliation; Fizz and Flight with the proofs of their safety.

1. `MinHeap`: the array heap as an implementation of the set `Scheduler` uses, with a proof
   of the heap order.
2. Lanes with a clock: `markStarvedLanesAsExpired`, and whether a lane that suspends and is
   pinged again and again expires.
3. External stores and mutable sources: snapshot, subscription, the check before the commit.
