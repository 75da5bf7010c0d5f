------------------------------ MODULE Scheduler ------------------------------
(***************************************************************************)
(* The cooperative task scheduler of packages/scheduler: the browser fork, *)
(* scheduler/src/forks/Scheduler.js.  JavaScript is single threaded, so    *)
(* the interleavings are those of host tasks (a posted message, a fired    *)
(* setTimeout, other user code) and of the user callbacks the work loop    *)
(* calls, which may call back into the scheduler before they return.       *)
(*                                                                         *)
(* The two heaps are sets ordered by Earlier: push adds an element and pop *)
(* removes the least.  The host (message channel, setTimeout, clock) is    *)
(* external.                                                               *)
(***************************************************************************)
EXTENDS Integers

CONSTANTS
    MaxTasks,                  \* bound: tasks ever created
    MaxTime,                   \* bound: the clock stops here
    MaxLeaks,                  \* bound: see ContinueExecution
    Priorities,                \* the priority levels in use
    NormalPriority,
    Timeout,                   \* Timeout[p]: the *_PRIORITY_TIMEOUT of p
    Delays,                    \* the options.delay values in use
    Second,                    \* 1000 ms, in the model's ticks
    FrameRates,                \* the fps values forceFrameRate is called with
    frameYieldMs, maxInterval, \* maxInterval is maxYieldMs
    enableSchedulerDebugging,  \* feature flags
    enableIsInputPending

TaskIds == 1 .. MaxTasks
Time    == 0 .. MaxTime
NoTask    == 0                 \* the null of currentTask and of peek
NoTimeout == -1                \* the cleared taskTimeoutID

ASSUME SchedulerAssumption ==
    /\ MaxTasks \in Nat /\ MaxTime \in Nat /\ MaxLeaks \in Nat
    /\ NormalPriority \in Priorities
    /\ Timeout \in [Priorities -> Int] /\ \A p \in Priorities : Timeout[p] >= -1
    /\ Delays \subseteq Nat
    /\ Second \in Nat /\ FrameRates \subseteq Int
    /\ frameYieldMs \in Nat /\ maxInterval \in Nat
    /\ enableSchedulerDebugging \in BOOLEAN /\ enableIsInputPending \in BOOLEAN

VARIABLES
    now,                       \* what getCurrentTime() returns
    \* the tasks and the two heaps
    task, taskIdCounter, taskQueue, timerQueue,
    \* the work loop: module variables, flushWork's previousPriorityLevel and
    \* workLoop's local currentTime; pc says where the one thread is
    currentTask, currentPriorityLevel, previousPriorityLevel,
    isPerformingWork, currentTime, pc,
    isHostCallbackScheduled, isHostTimeoutScheduled, isSchedulerPaused,
    \* the host configuration; sliceStart is the module variable startTime
    isMessageLoopRunning, scheduledHostCallback, messages,
    sliceStart, frameInterval, needsPaint,
    \* taskTimeoutID holds the due time of the timeout it identifies;
    \* leakedTimeouts[t] counts the armed timeouts due at t it no longer names
    taskTimeoutID, leakedTimeouts

taskVars    == <<task, taskIdCounter, taskQueue, timerQueue>>
loopVars    == <<currentTask, currentPriorityLevel, previousPriorityLevel,
                 isPerformingWork, currentTime, pc, sliceStart>>
messageVars == <<isMessageLoopRunning, scheduledHostCallback, messages>>
timeoutVars == <<taskTimeoutID, leakedTimeouts>>
yieldVars   == <<frameInterval, needsPaint>>
vars == <<now, taskVars, loopVars, isHostCallbackScheduled,
          isHostTimeoutScheduled, isSchedulerPaused, messageVars,
          timeoutVars, yieldVars>>

-----------------------------------------------------------------------------
(* The heaps.                                                              *)

Earlier(a, b) ==                                        \* compare(a, b) < 0
    \/ task[a].sortIndex < task[b].sortIndex
    \/ task[a].sortIndex = task[b].sortIndex /\ a < b

Peek(queue) ==
    IF queue = {} THEN NoTask
    ELSE CHOOSE a \in queue : \A b \in queue \ {a} : Earlier(a, b)

Cancelled(id) == task[id].callback = "null"

(* advanceTimers(t) pops timers in start order until it meets one that is  *)
(* neither cancelled nor due; that one and all behind it stay.  What       *)
(* workLoop did just before to taskQueue and to the callback of the        *)
(* current task is passed along: queue and resumed.                        *)
BlockedEvenIfDue(t) ==                                         \* mutant
    {id \in timerQueue : ~Cancelled(id) /\ task[id].startTime >= t}

Blocked(t)    == {id \in timerQueue : ~Cancelled(id) /\ task[id].startTime > t}
Remaining(t)  == {id \in timerQueue : \E b \in Blocked(t) : b = id \/ Earlier(b, id)}
Fired(t)      == {id \in timerQueue \ Remaining(t) : ~Cancelled(id)}

AdvanceTimers(t, queue, resumed) ==
    /\ task' = [id \in TaskIds |->
                  IF id \in Fired(t)
                  THEN [task[id] EXCEPT !.sortIndex = task[id].expirationTime]
                  ELSE IF id \in resumed
                  THEN [task[id] EXCEPT !.callback = "function"]
                  ELSE task[id]]
    /\ timerQueue' = Remaining(t)
    /\ taskQueue'  = queue \cup Fired(t)

-----------------------------------------------------------------------------
(* The host: posting the one message, arming and clearing timeouts.        *)

PostAgain ==                                                   \* mutant
    /\ scheduledHostCallback' = "flushWork"
    /\ isMessageLoopRunning' = TRUE
    /\ messages' = messages + 1

RequestHostCallback ==
    /\ scheduledHostCallback' = "flushWork"
    /\ isMessageLoopRunning' = TRUE
    /\ messages' = IF isMessageLoopRunning THEN messages ELSE messages + 1

(* The clock stops at MaxTime: what would be due later is due then.        *)
Due(t) == IF t > MaxTime THEN MaxTime ELSE t

(* An armed timeout whose identifier is overwritten stays armed.           *)
Abandon(id, leaked) ==
    IF id = NoTimeout THEN leaked ELSE [leaked EXCEPT ![id] = @ + 1]

ArmNothing(ms) == UNCHANGED timeoutVars                        \* mutant

RequestHostTimeout(ms) ==
    /\ taskTimeoutID' = Due(now + ms)
    /\ leakedTimeouts' = Abandon(taskTimeoutID, leakedTimeouts)

CancelHostTimeout == taskTimeoutID' = NoTimeout /\ UNCHANGED leakedTimeouts

-----------------------------------------------------------------------------
(* User code runs as a host task of its own or inside a task's callback.   *)

UserCode == pc \in {"idle", "callback"}

NewTask(p, delay) ==
    [callback |-> "function", priorityLevel |-> p, startTime |-> now + delay,
     expirationTime |-> now + delay + Timeout[p],
     sortIndex |-> IF delay > 0 THEN now + delay
                                ELSE now + delay + Timeout[p]]

CreateTaskAnew(p, delay) ==                                    \* mutant
    /\ taskIdCounter \in TaskIds
    /\ task' = [task EXCEPT ![taskIdCounter] = NewTask(p, delay)]
    /\ UNCHANGED taskIdCounter

CreateTask(p, delay) ==
    /\ taskIdCounter \in TaskIds
    /\ task' = [task EXCEPT ![taskIdCounter] = NewTask(p, delay)]
    /\ taskIdCounter' = taskIdCounter + 1

ScheduleHostCallbackIfNeeded ==
    IF ~isHostCallbackScheduled /\ ~isPerformingWork
    THEN isHostCallbackScheduled' = TRUE /\ RequestHostCallback
    ELSE UNCHANGED <<isHostCallbackScheduled, messageVars>>

(* unstable_scheduleCallback, the branch of an immediate task              *)
ScheduleCallback(p) ==
    /\ UserCode
    /\ CreateTask(p, 0)
    /\ taskQueue' = taskQueue \cup {taskIdCounter}
    /\ ScheduleHostCallbackIfNeeded
    /\ UNCHANGED <<now, timerQueue, loopVars, isHostTimeoutScheduled,
                   isSchedulerPaused, timeoutVars, yieldVars>>

(* newTask === peek(timerQueue): the new id is the largest, so it is first *)
(* only with a start before all others'.                                   *)
StartsFirst(start) == \A other \in timerQueue : start < task[other].sortIndex

(* unstable_scheduleCallback, the branch of a delayed task                 *)
ScheduleDelayedCallback(p, delay) ==
    /\ UserCode
    /\ delay > 0
    /\ now + delay <= MaxTime
    /\ CreateTask(p, delay)
    /\ timerQueue' = timerQueue \cup {taskIdCounter}
    /\ IF taskQueue = {} /\ StartsFirst(now + delay)
       THEN /\ isHostTimeoutScheduled' = TRUE
            /\ taskTimeoutID' = now + delay
            /\ leakedTimeouts' = IF isHostTimeoutScheduled THEN leakedTimeouts
                                 ELSE Abandon(taskTimeoutID, leakedTimeouts)
       ELSE UNCHANGED <<isHostTimeoutScheduled, timeoutVars>>
    /\ UNCHANGED <<now, taskQueue, loopVars, isHostCallbackScheduled,
                   isSchedulerPaused, messageVars, yieldVars>>

CancelCallback(id) ==
    /\ UserCode
    /\ id < taskIdCounter
    /\ task' = [task EXCEPT ![id].callback = "null"]
    /\ UNCHANGED <<now, taskIdCounter, taskQueue, timerQueue, loopVars,
                   isHostCallbackScheduled, isHostTimeoutScheduled,
                   isSchedulerPaused, messageVars, timeoutVars, yieldVars>>

(* Without the flag nothing reads isSchedulerPaused; the guard then leaves  *)
(* it alone.                                                               *)
PauseExecution ==
    /\ UserCode
    /\ enableSchedulerDebugging
    /\ isSchedulerPaused' = TRUE
    /\ UNCHANGED <<now, taskVars, loopVars, isHostCallbackScheduled,
                   isHostTimeoutScheduled, messageVars, timeoutVars, yieldVars>>

(* Every extra flush may abandon one more timeout (see WorkLoopDone); the  *)
(* last guard is the bound that keeps their number finite.                 *)
ContinueExecution ==
    /\ UserCode
    /\ \A t \in Time : leakedTimeouts[t] < MaxLeaks
    /\ isSchedulerPaused' = FALSE
    /\ ScheduleHostCallbackIfNeeded
    /\ UNCHANGED <<now, taskVars, loopVars, isHostTimeoutScheduled,
                   timeoutVars, yieldVars>>

RequestPaint ==
    /\ UserCode
    /\ enableIsInputPending
    /\ needsPaint' = TRUE
    /\ UNCHANGED <<now, taskVars, loopVars, isHostCallbackScheduled,
                   isHostTimeoutScheduled, isSchedulerPaused, messageVars,
                   timeoutVars, frameInterval>>

ForceFrameRate(fps) ==
    /\ UserCode
    /\ fps \in 0 .. 125
    /\ frameInterval' = IF fps > 0 THEN Second \div fps ELSE frameYieldMs
    /\ UNCHANGED <<now, taskVars, loopVars, isHostCallbackScheduled,
                   isHostTimeoutScheduled, isSchedulerPaused, messageVars,
                   timeoutVars, needsPaint>>

UserStep ==
    \/ \E p \in Priorities : ScheduleCallback(p)
    \/ \E p \in Priorities, delay \in Delays : ScheduleDelayedCallback(p, delay)
    \/ \E id \in TaskIds : CancelCallback(id)
    \/ PauseExecution
    \/ ContinueExecution
    \/ RequestPaint
    \/ \E fps \in FrameRates : ForceFrameRate(fps)

-----------------------------------------------------------------------------
(* A message is delivered: performWorkUntilDeadline, the prologue of       *)
(* flushWork and of workLoop, up to the loop's first test.  Its branch for *)
(* a null scheduledHostCallback is dead code: see MessageLoop.             *)

PerformWorkUntilDeadline ==
    /\ pc = "idle" /\ messages > 0
    /\ scheduledHostCallback = "flushWork"
    /\ messages' = messages - 1
    /\ sliceStart' = now
    /\ isHostCallbackScheduled' = FALSE
    /\ IF isHostTimeoutScheduled THEN CancelHostTimeout ELSE UNCHANGED timeoutVars
    /\ isHostTimeoutScheduled' = FALSE
    /\ isPerformingWork' = TRUE
    /\ previousPriorityLevel' = currentPriorityLevel
    /\ currentTime' = now
    /\ AdvanceTimers(now, taskQueue, {})
    /\ currentTask' = Peek(taskQueue)'
    /\ pc' = "loop"
    /\ UNCHANGED <<now, taskIdCounter, currentPriorityLevel, isSchedulerPaused,
                   isMessageLoopRunning, scheduledHostCallback, yieldVars>>

(* The finally block of performWorkUntilDeadline                           *)
StopMessageLoop(hasMoreWork) ==                                \* mutant
    /\ isMessageLoopRunning' = FALSE
    /\ scheduledHostCallback' = "null"
    /\ UNCHANGED messages

EndMessage(hasMoreWork) ==
    IF hasMoreWork
    THEN /\ messages' = messages + 1
         /\ UNCHANGED <<isMessageLoopRunning, scheduledHostCallback>>
    ELSE /\ isMessageLoopRunning' = FALSE
         /\ scheduledHostCallback' = "null"
         /\ UNCHANGED messages

(* flushWork's finally block and the end of performWorkUntilDeadline       *)
LeaveFlushWork(hasMoreWork) ==
    /\ pc' = "idle"
    /\ currentTask' = NoTask
    /\ currentPriorityLevel' = previousPriorityLevel
    /\ isPerformingWork' = FALSE
    /\ EndMessage(hasMoreWork)
    /\ UNCHANGED <<previousPriorityLevel, currentTime, sliceStart>>

Paused == enableSchedulerDebugging /\ isSchedulerPaused

(* shouldYieldToHost; inputPending is the answer of isInputPending(), TRUE *)
(* where the browser has no such function                                  *)
YieldAtOnce(inputPending) == TRUE                              \* mutant

ShouldYieldToHost(inputPending) ==
    /\ now - sliceStart >= frameInterval
    /\ enableIsInputPending =>
          needsPaint \/ now - sliceStart >= maxInterval \/ inputPending

MustYield(inputPending) ==
    task[currentTask].expirationTime > currentTime /\ ShouldYieldToHost(inputPending)

InLoop == pc = "loop" /\ currentTask # NoTask

(* the loop stops with work left: paused, or out of time                   *)
WorkLoopYield ==
    /\ InLoop
    /\ Paused \/ \E inputPending \in BOOLEAN : MustYield(inputPending)
    /\ LeaveFlushWork(TRUE)
    /\ needsPaint' = FALSE
    /\ UNCHANGED <<now, taskVars, isHostCallbackScheduled,
                   isHostTimeoutScheduled, isSchedulerPaused, timeoutVars,
                   frameInterval>>

MayContinue ==
    InLoop /\ ~Paused /\ \E inputPending \in BOOLEAN : ~MustYield(inputPending)

(* the callback of the current task is called ...                          *)
RunTask ==
    /\ MayContinue
    /\ ~Cancelled(currentTask)
    /\ task' = [task EXCEPT ![currentTask].callback = "null"]
    /\ currentPriorityLevel' = task[currentTask].priorityLevel
    /\ pc' = "callback"
    /\ UNCHANGED <<now, taskIdCounter, taskQueue, timerQueue, currentTask,
                   previousPriorityLevel, isPerformingWork, currentTime,
                   sliceStart, isHostCallbackScheduled, isHostTimeoutScheduled,
                   isSchedulerPaused, messageVars, timeoutVars, yieldVars>>

(* ... or a cancelled task is popped                                       *)
DropCancelledTask ==
    /\ MayContinue
    /\ Cancelled(currentTask)
    /\ taskQueue' = taskQueue \ {Peek(taskQueue)} /\ UNCHANGED task
    /\ currentTask' = Peek(taskQueue)'
    /\ UNCHANGED <<now, taskIdCounter, timerQueue, currentPriorityLevel,
                   previousPriorityLevel, isPerformingWork, currentTime, pc,
                   sliceStart, isHostCallbackScheduled, isHostTimeoutScheduled,
                   isSchedulerPaused, messageVars, timeoutVars, yieldVars>>

(* The callback returns; then advanceTimers and the next peek.             *)
CallbackReturned ==
    /\ pc = "callback"
    /\ currentTime' = now
    /\ currentTask' = Peek(taskQueue)'
    /\ pc' = "loop"
    /\ UNCHANGED <<now, taskIdCounter, currentPriorityLevel,
                   previousPriorityLevel, isPerformingWork, sliceStart,
                   isHostCallbackScheduled, isHostTimeoutScheduled,
                   isSchedulerPaused, messageVars, timeoutVars, yieldVars>>

(* no continuation: the task is popped if it is still the first            *)
PopUnchecked(id) == taskQueue \ {Peek(taskQueue)}              \* mutant

PopCompleted(id) ==
    IF id = Peek(taskQueue) THEN taskQueue \ {id} ELSE taskQueue

CompleteTask(id) ==
    /\ id = currentTask
    /\ AdvanceTimers(now, PopCompleted(id), {})
    /\ CallbackReturned

(* a continuation: it becomes the task's callback                          *)
ContinueTask ==
    /\ AdvanceTimers(now, taskQueue, {currentTask})
    /\ CallbackReturned

(* The callback throws: the finally blocks run, with hasMoreWork still     *)
(* true, and the assignment to needsPaint that follows them does not.      *)
ThrowTask ==
    /\ pc = "callback"
    /\ LeaveFlushWork(TRUE)
    /\ UNCHANGED <<now, taskVars, isHostCallbackScheduled,
                   isHostTimeoutScheduled, isSchedulerPaused, timeoutVars,
                   yieldVars>>

(* Nothing is left to run: wait for the first timer, if there is one.      *)
WorkLoopDone ==
    /\ pc = "loop" /\ currentTask = NoTask
    /\ LeaveFlushWork(FALSE)
    /\ needsPaint' = FALSE
    /\ IF timerQueue # {}
       THEN RequestHostTimeout(task[Peek(timerQueue)].startTime - currentTime)
       ELSE UNCHANGED timeoutVars
    /\ UNCHANGED <<now, taskVars, isHostCallbackScheduled,
                   isHostTimeoutScheduled, isSchedulerPaused, frameInterval>>

-----------------------------------------------------------------------------
(* A timeout fires: handleTimeout(now).  id and leaked are what remains    *)
(* armed once it has fired.                                                *)

KeepFlag == UNCHANGED isHostTimeoutScheduled                   \* mutant

ClearFlag == isHostTimeoutScheduled' = FALSE

HandleTimeout(id, leaked) ==
    /\ ClearFlag
    /\ AdvanceTimers(now, taskQueue, {})
    /\ IF isHostCallbackScheduled \/ (taskQueue' = {} /\ timerQueue' = {})
       THEN /\ taskTimeoutID' = id /\ leakedTimeouts' = leaked
            /\ UNCHANGED <<isHostCallbackScheduled, messageVars>>
       ELSE IF taskQueue' # {}
       THEN /\ isHostCallbackScheduled' = TRUE
            /\ RequestHostCallback
            /\ taskTimeoutID' = id /\ leakedTimeouts' = leaked
       ELSE /\ taskTimeoutID' = Due(task[Peek(timerQueue)'].startTime)
            /\ leakedTimeouts' = Abandon(id, leaked)
            /\ UNCHANGED <<isHostCallbackScheduled, messageVars>>
    /\ UNCHANGED <<now, taskIdCounter, loopVars, isSchedulerPaused, yieldVars>>

TimeoutFires ==
    /\ pc = "idle"
    /\ taskTimeoutID # NoTimeout /\ taskTimeoutID <= now
    /\ HandleTimeout(NoTimeout, leakedTimeouts)

LeakedTimeoutFires(t) ==
    /\ pc = "idle"
    /\ t <= now /\ leakedTimeouts[t] > 0
    /\ HandleTimeout(taskTimeoutID, [leakedTimeouts EXCEPT ![t] = @ - 1])

Tick ==
    /\ now < MaxTime
    /\ now' = now + 1
    /\ UNCHANGED <<taskVars, loopVars, isHostCallbackScheduled,
                   isHostTimeoutScheduled, isSchedulerPaused, messageVars,
                   timeoutVars, yieldVars>>

-----------------------------------------------------------------------------
(* An id that scheduleCallback has not used yet                            *)
Unused == [callback |-> "null", priorityLevel |-> NormalPriority,
           startTime |-> 0, expirationTime |-> 0, sortIndex |-> 0]

Init ==
    /\ now = 0
    /\ task = [id \in TaskIds |-> Unused] /\ taskIdCounter = 1
    /\ taskQueue = {} /\ timerQueue = {}
    /\ currentTask = NoTask /\ isPerformingWork = FALSE
    /\ currentPriorityLevel = NormalPriority
    /\ previousPriorityLevel = NormalPriority
    /\ currentTime = 0 /\ pc = "idle" /\ sliceStart = -1
    /\ isHostCallbackScheduled = FALSE /\ isHostTimeoutScheduled = FALSE
    /\ isSchedulerPaused = FALSE
    /\ isMessageLoopRunning = FALSE /\ scheduledHostCallback = "null"
    /\ messages = 0
    /\ frameInterval = frameYieldMs /\ needsPaint = FALSE
    /\ taskTimeoutID = NoTimeout /\ leakedTimeouts = [t \in Time |-> 0]

LoopStep == WorkLoopYield \/ RunTask \/ DropCancelledTask \/ WorkLoopDone
AnyTimeoutFires == TimeoutFires \/ \E t \in Time : LeakedTimeoutFires(t)

Next ==
    \/ UserStep
    \/ PerformWorkUntilDeadline
    \/ LoopStep
    \/ \E id \in TaskIds : CompleteTask(id)
    \/ ContinueTask
    \/ ThrowTask
    \/ AnyTimeoutFires
    \/ Tick

Spec == Init /\ [][Next]_vars

(* The host delivers messages and fires timeouts, the loop goes on, time   *)
(* passes, and a task does not return a continuation for ever.             *)
Fairness ==
    /\ WF_vars(PerformWorkUntilDeadline)
    /\ WF_vars(LoopStep)
    /\ WF_vars(AnyTimeoutFires)
    /\ WF_vars(Tick)
    /\ \A id \in TaskIds : SF_vars(CompleteTask(id))

FairSpec == Spec /\ Fairness

-----------------------------------------------------------------------------
(* Properties.                                                             *)

Task == [callback : {"null", "function"}, priorityLevel : Priorities,
         startTime : Nat, expirationTime : Nat \cup {-1},
         sortIndex : Nat \cup {-1}]

TasksTypeOK ==
    /\ task \in [TaskIds -> Task]
    /\ taskIdCounter \in 1 .. MaxTasks + 1
    /\ taskQueue \subseteq TaskIds /\ timerQueue \subseteq TaskIds

LoopTypeOK ==
    /\ now \in Time /\ currentTime \in Time /\ sliceStart \in Time \cup {-1}
    /\ currentTask \in TaskIds \cup {NoTask}
    /\ currentPriorityLevel \in Priorities
    /\ previousPriorityLevel \in Priorities
    /\ pc \in {"idle", "loop", "callback"}

HostTypeOK ==
    /\ isPerformingWork \in BOOLEAN /\ isSchedulerPaused \in BOOLEAN
    /\ isHostCallbackScheduled \in BOOLEAN /\ isHostTimeoutScheduled \in BOOLEAN
    /\ isMessageLoopRunning \in BOOLEAN
    /\ scheduledHostCallback \in {"null", "flushWork"}
    /\ messages \in Nat
    /\ frameInterval \in Nat /\ needsPaint \in BOOLEAN
    /\ taskTimeoutID \in Time \cup {NoTimeout}
    /\ leakedTimeouts \in [Time -> Nat]

VariablesTypeOK == TasksTypeOK /\ LoopTypeOK /\ HostTypeOK

(* Every variable keeps its type, taskTimeoutID is a real due time, and    *)
(* what is queued was created: its id is not handed out again.             *)
TypeOK ==
    /\ VariablesTypeOK
    /\ \A id \in taskQueue \cup timerQueue : id < taskIdCounter

(* isMessageLoopRunning is set exactly while one message is on its way or  *)
(* being handled, there is never a second one, and then a host callback is *)
(* set: performWorkUntilDeadline never finds scheduledHostCallback null.   *)
MessageLoop ==
    /\ messages = IF isMessageLoopRunning /\ pc = "idle" THEN 1 ELSE 0
    /\ isMessageLoopRunning <=> scheduledHostCallback = "flushWork"
    /\ pc # "idle" => isMessageLoopRunning
    /\ isPerformingWork <=> pc # "idle"

(* Whenever the scheduler is not running and a task is ready, a message is *)
(* on its way, although scheduleCallback posts one only if it believes     *)
(* none is, and a callback may have thrown, yielded or been paused.        *)
NoLostWakeup ==
    /\ pc = "idle" /\ taskQueue # {} => messages = 1
    /\ isHostCallbackScheduled => messages = 1

(* Whenever the scheduler is not running and a delayed task waits, a       *)
(* message or a timeout will come, although timeouts are armed in three    *)
(* places, cancelled in two and skipped when one is believed to be armed.  *)
TimerArmed ==
    pc = "idle" /\ timerQueue # {} =>
        \/ messages = 1
        \/ taskTimeoutID # NoTimeout
        \/ \E t \in Time : leakedTimeouts[t] > 0

(* isHostTimeoutScheduled means that taskTimeoutID identifies an armed     *)
(* timeout, so that cancelHostTimeout never clears a dead identifier.      *)
TimeoutFlagHonest == isHostTimeoutScheduled => taskTimeoutID # NoTimeout

(* No live task is lost and none is queued twice; the task whose callback  *)
(* runs stays in taskQueue, whatever that callback schedules or cancels.   *)
NoTaskLost ==
    /\ taskQueue \cap timerQueue = {}
    /\ \A id \in TaskIds : ~Cancelled(id) => id \in taskQueue \cup timerQueue
    /\ pc = "callback" => currentTask \in taskQueue
    /\ \A id \in taskQueue : task[id].sortIndex = task[id].expirationTime
    /\ \A id \in timerQueue : task[id].sortIndex = task[id].startTime

(* What the work loop knows wherever it stands, and that the identifiers   *)
(* in use are those handed out: it completes the inductive invariant.      *)
LoopState ==
    /\ pc = "idle" => currentTask = NoTask
    /\ pc # "idle" => ~isHostCallbackScheduled /\ ~isHostTimeoutScheduled
    /\ pc = "loop" => \/ currentTask = NoTask /\ taskQueue = {}
                      \/ currentTask = Peek(taskQueue) /\ taskQueue # {}
    /\ \A id \in taskQueue \cup timerQueue : id < taskIdCounter

(* While a task runs its callback is null; the clock does not run back.    *)
RunState ==
    /\ pc = "callback" => Cancelled(currentTask)
    /\ currentTime <= now

(* The scheduler implements AbstractScheduler: one task at a time, in the  *)
(* order of expiration among all that have started, delayed ones included; *)
(* none early, and none again once it has finished or been cancelled.      *)
Promise == INSTANCE AbstractScheduler WITH
    Delays   <- Delays \cup {0},
    Timeouts <- {Timeout[p] : p \in Priorities},
    created  <- 1 .. taskIdCounter - 1,
    observed <- currentTime,
    start    <- [id \in TaskIds |-> task[id].startTime],
    expires  <- [id \in TaskIds |-> task[id].expirationTime],
    status   <- [id \in TaskIds |->
                   IF pc = "callback" /\ id = currentTask THEN "running"
                   ELSE IF Cancelled(id) THEN "over" ELSE "waiting"]

KeepsPromise == Promise!Spec

(* Every task that is scheduled is eventually run or cancelled, unless the *)
(* scheduler is paused: yields, throws, continuations, pauses that have    *)
(* ended and abandoned timeouts starve nobody.                             *)
EventuallyRun ==
    \A id \in TaskIds :
        id < taskIdCounter /\ ~Cancelled(id) ~> Cancelled(id) \/ isSchedulerPaused
=============================================================================
