--------------------------- MODULE SchedulerProofs ---------------------------
(***************************************************************************)
(* Proofs about Scheduler, for every number of tasks, set of priorities,   *)
(* delay and flag: what the runs check of it, and that it implements       *)
(* AbstractScheduler: each of its steps is a step of the promise or        *)
(* changes nothing that the promise speaks of.                             *)
(***************************************************************************)
EXTENDS Scheduler, DataLemmas, TLAPS

(* The inductive invariant.                                                *)
Inv ==
    /\ VariablesTypeOK
    /\ MessageLoop
    /\ NoLostWakeup
    /\ TimerArmed
    /\ TimeoutFlagHonest
    /\ NoTaskLost
    /\ LoopState
    /\ RunState

(* peek returns an element of a heap that is not empty.                    *)
LEMMA PeekInQueue ==
    ASSUME TasksTypeOK, NEW queue, queue \subseteq TaskIds, queue # {}
    PROVE  Peek(queue) \in queue
<1> DEFINE key == [a \in TaskIds |-> task[a].sortIndex]
<1>1. \A a \in queue : key[a] = task[a].sortIndex /\ key[a] \in Nat \cup {-1}
  BY DEF TasksTypeOK, Task
<1>2. queue \subseteq Nat
  BY SchedulerAssumption DEF TaskIds
<1> HIDE DEF key
<1>3. PICK a \in queue : \A b \in queue \ {a} :
         key[a] < key[b] \/ (key[a] = key[b] /\ a < b)
  BY <1>1, <1>2, FirstExists
<1>4. \A b \in queue \ {a} : Earlier(a, b)
  BY <1>1, <1>3 DEF Earlier
<1> QED
  BY <1>4 DEF Peek

(* The same of the heap that a step leaves behind.                         *)
LEMMA PeekInQueueNext ==
    ASSUME TasksTypeOK', taskQueue' # {}
    PROVE  Peek(taskQueue)' \in taskQueue'
<1> DEFINE key == [a \in TaskIds |-> task'[a].sortIndex]
<1>1. \A a \in taskQueue' : key[a] = task'[a].sortIndex /\ key[a] \in Nat \cup {-1}
  BY DEF TasksTypeOK, Task
<1>2. taskQueue' \subseteq Nat
  BY SchedulerAssumption DEF TaskIds, TasksTypeOK
<1> HIDE DEF key
<1>3. PICK a \in taskQueue' : \A b \in taskQueue' \ {a} :
         key[a] < key[b] \/ (key[a] = key[b] /\ a < b)
  BY <1>1, <1>2, FirstExists
<1>4. \A b \in taskQueue' \ {a} : Earlier(a, b)'
  BY <1>1, <1>3 DEF Earlier
<1> QED
  BY <1>4 DEF Peek

LEMMA PeekTimerNext ==
    ASSUME TasksTypeOK', timerQueue' # {}
    PROVE  Peek(timerQueue)' \in timerQueue'
<1> DEFINE key == [a \in TaskIds |-> task'[a].sortIndex]
<1>1. \A a \in timerQueue' : key[a] = task'[a].sortIndex /\ key[a] \in Nat \cup {-1}
  BY DEF TasksTypeOK, Task
<1>2. timerQueue' \subseteq Nat
  BY SchedulerAssumption DEF TaskIds, TasksTypeOK
<1> HIDE DEF key
<1>3. PICK a \in timerQueue' : \A b \in timerQueue' \ {a} :
         key[a] < key[b] \/ (key[a] = key[b] /\ a < b)
  BY <1>1, <1>2, FirstExists
<1>4. \A b \in timerQueue' \ {a} : Earlier(a, b)'
  BY <1>1, <1>3 DEF Earlier
<1> QED
  BY <1>4 DEF Peek

(* advanceTimers moves some timers to the queue, drops cancelled ones and  *)
(* keeps every task's callback, except the ones it is told to resume.      *)
LEMMA AdvanceTimersFacts ==
    ASSUME VariablesTypeOK, NEW t \in Time, NEW queue, queue \subseteq TaskIds,
           NEW resumed, resumed \subseteq TaskIds,
           AdvanceTimers(t, queue, resumed)
    PROVE  /\ task' \in [TaskIds -> Task]
           /\ taskQueue' = queue \cup Fired(t) /\ timerQueue' = Remaining(t)
           /\ Fired(t) \subseteq timerQueue /\ Remaining(t) \subseteq timerQueue
           /\ Fired(t) \cap Remaining(t) = {}
           /\ \A id \in timerQueue : id \in Fired(t) \cup Remaining(t) \/ Cancelled(id)
           /\ \A id \in TaskIds \ resumed : task'[id].callback = task[id].callback
           /\ \A id \in TaskIds :
                /\ task'[id].startTime = task[id].startTime
                /\ task'[id].expirationTime = task[id].expirationTime
                /\ task'[id].sortIndex = IF id \in Fired(t)
                                         THEN task[id].expirationTime
                                         ELSE task[id].sortIndex
<1>1. Fired(t) \subseteq timerQueue /\ Remaining(t) \subseteq timerQueue
  BY DEF Fired, Remaining
<1>2. Fired(t) \cap Remaining(t) = {}
  BY DEF Fired
<1>3. \A id \in timerQueue : id \in Fired(t) \cup Remaining(t) \/ Cancelled(id)
  BY DEF Fired
<1>4. ASSUME NEW id \in TaskIds
      PROVE  /\ task'[id] \in Task
             /\ id \notin resumed => task'[id].callback = task[id].callback
             /\ task'[id].startTime = task[id].startTime
             /\ task'[id].expirationTime = task[id].expirationTime
             /\ id \in Fired(t) => task'[id].sortIndex = task[id].expirationTime
             /\ id \notin Fired(t) => task'[id].sortIndex = task[id].sortIndex
  <2>1. task[id] \in Task
    BY DEF VariablesTypeOK, TasksTypeOK
  <2>2. task'[id] = IF id \in Fired(t)
                    THEN [task[id] EXCEPT !.sortIndex = task[id].expirationTime]
                    ELSE IF id \in resumed
                    THEN [task[id] EXCEPT !.callback = "function"]
                    ELSE task[id]
    BY DEF AdvanceTimers
  <2> QED BY <2>1, <2>2 DEF Task
<1>5. task' \in [TaskIds -> Task]
  BY <1>4 DEF AdvanceTimers
<1> QED
  BY <1>1, <1>2, <1>3, <1>4, <1>5 DEF AdvanceTimers

THEOREM InitInv == Init => Inv
<1> SUFFICES ASSUME Init PROVE Inv
  OBVIOUS
<1>1. TasksTypeOK
  <2>1. Unused \in Task
    BY SchedulerAssumption DEF Unused, Task
  <2> QED
    BY <2>1, SchedulerAssumption DEF Init, TasksTypeOK
<1>2. LoopTypeOK
  BY SchedulerAssumption DEF Init, LoopTypeOK, Time, NoTask
<1>3. HostTypeOK
  BY SchedulerAssumption DEF Init, HostTypeOK, NoTimeout
<1>4. NoTaskLost
  BY DEF Init, NoTaskLost, Cancelled, Unused
<1> QED
  BY <1>1, <1>2, <1>3, <1>4 DEF Init, Inv, VariablesTypeOK, MessageLoop, NoLostWakeup,
     TimerArmed, TimeoutFlagHonest, LoopState, RunState

-----------------------------------------------------------------------------
(* Each action preserves the invariant.                                    *)

LEMMA NewTaskFacts ==
    ASSUME Inv, NEW p \in Priorities, NEW delay \in Nat, CreateTask(p, delay)
    PROVE  /\ taskIdCounter \in TaskIds /\ taskIdCounter \notin timerQueue
           /\ task'[taskIdCounter] = NewTask(p, delay)
           /\ \A i \in TaskIds : i # taskIdCounter => task'[i] = task[i]
           /\ task' \in [TaskIds -> Task]
           /\ taskIdCounter' \in 1 .. MaxTasks + 1
           /\ taskIdCounter' = taskIdCounter + 1
<1>1. now \in Nat /\ Timeout[p] \in Int /\ Timeout[p] >= -1
  BY SchedulerAssumption DEF Inv, VariablesTypeOK, LoopTypeOK, Time
<1>2. now + delay \in Nat /\ now + delay + Timeout[p] \in Nat \cup {-1}
  BY <1>1
<1>3. NewTask(p, delay) \in Task
  BY <1>2 DEF NewTask, Task
<1>4. taskIdCounter \in TaskIds /\ taskIdCounter \notin timerQueue
  BY DEF CreateTask, Inv, LoopState, TaskIds
<1> QED
  BY <1>3, <1>4, SchedulerAssumption
     DEF CreateTask, Inv, VariablesTypeOK, TasksTypeOK, TaskIds

LEMMA AbandonType ==
    ASSUME NEW id \in Time \cup {NoTimeout}, NEW leaked \in [Time -> Nat]
    PROVE  Abandon(id, leaked) \in [Time -> Nat]
BY DEF Abandon, NoTimeout

LEMMA HostCallbackTypes ==
    ASSUME Inv, ScheduleHostCallbackIfNeeded
    PROVE  /\ isHostCallbackScheduled' \in BOOLEAN /\ isMessageLoopRunning' \in BOOLEAN
           /\ scheduledHostCallback' \in {"null", "flushWork"} /\ messages' \in Nat
<1>1. CASE ~isHostCallbackScheduled /\ ~isPerformingWork
  <2>1. RequestHostCallback /\ isHostCallbackScheduled' = TRUE
    BY <1>1 DEF ScheduleHostCallbackIfNeeded
  <2>2. messages \in Nat
    BY DEF Inv, VariablesTypeOK, HostTypeOK
  <2>3. messages' \in Nat
    BY <2>1, <2>2 DEF RequestHostCallback
  <2> QED
    BY <2>1, <2>3 DEF RequestHostCallback
<1>2. CASE ~(~isHostCallbackScheduled /\ ~isPerformingWork)
  <2>1. UNCHANGED <<isHostCallbackScheduled, messageVars>>
    BY <1>2 DEF ScheduleHostCallbackIfNeeded
  <2> QED
    BY <2>1 DEF Inv, VariablesTypeOK, HostTypeOK, messageVars
<1> QED
  BY <1>1, <1>2

LEMMA ScheduleCallbackInv ==
    ASSUME Inv, NEW p \in Priorities, ScheduleCallback(p)
    PROVE  Inv'
<1> DEFINE id == taskIdCounter
<1>1. CreateTask(p, 0)
  BY DEF ScheduleCallback
<1>2. /\ id \in TaskIds /\ id \notin timerQueue
      /\ task'[id] = NewTask(p, 0)
      /\ \A i \in TaskIds : i # id => task'[i] = task[i]
      /\ task' \in [TaskIds -> Task]
      /\ taskIdCounter' \in 1 .. MaxTasks + 1
      /\ taskIdCounter' = taskIdCounter + 1
  BY <1>1, NewTaskFacts
<1>3. TasksTypeOK'
  BY <1>2 DEF ScheduleCallback, Inv, VariablesTypeOK, TasksTypeOK
<1>4. LoopTypeOK'
  BY DEF ScheduleCallback, Inv, VariablesTypeOK, LoopTypeOK, loopVars
<1>5. ScheduleHostCallbackIfNeeded
  BY DEF ScheduleCallback
<1>6. HostTypeOK'
  BY <1>5, HostCallbackTypes DEF ScheduleCallback, Inv, VariablesTypeOK, HostTypeOK,
     loopVars, timeoutVars, yieldVars
<1>7. MessageLoop' /\ NoLostWakeup' /\ TimerArmed' /\ TimeoutFlagHonest'
  BY <1>5 DEF ScheduleCallback, ScheduleHostCallbackIfNeeded, RequestHostCallback,
     Inv, MessageLoop, NoLostWakeup, TimerArmed, TimeoutFlagHonest, loopVars,
     messageVars, timeoutVars
<1>8. NoTaskLost'
  <2>1. task'[id].sortIndex = task'[id].expirationTime
    BY <1>2, SchedulerAssumption DEF NewTask
  <2> QED
    BY <1>2, <2>1 DEF ScheduleCallback, Inv, NoTaskLost, Cancelled,
       VariablesTypeOK, TasksTypeOK, loopVars
<1>9. LoopState'
  <2>1. \A i \in TaskIds : i < taskIdCounter => i < taskIdCounter'
    BY <1>2 DEF TaskIds, Inv, VariablesTypeOK, TasksTypeOK
  <2> QED
    BY <1>2, <1>5, <2>1 DEF ScheduleCallback, ScheduleHostCallbackIfNeeded, Inv,
       LoopState, UserCode, MessageLoop,
       VariablesTypeOK, TasksTypeOK, loopVars, timeoutVars
<1>10. RunState'
  <2>1. pc = "callback" => currentTask \in TaskIds /\ currentTask # id
    <3>1. id \notin taskQueue
      BY <1>2 DEF Inv, LoopState, TaskIds
    <3>2. taskQueue \subseteq TaskIds
      BY DEF Inv, VariablesTypeOK, TasksTypeOK
    <3> QED
      BY <3>1, <3>2 DEF Inv, NoTaskLost
  <2> QED
    BY <1>2, <2>1 DEF ScheduleCallback, Inv, RunState, Cancelled, loopVars
<1> QED
  BY <1>3, <1>4, <1>6, <1>7, <1>8, <1>9, <1>10 DEF Inv, VariablesTypeOK

LEMMA ScheduleDelayedCallbackInv ==
    ASSUME Inv, NEW p \in Priorities, NEW delay \in Delays,
           ScheduleDelayedCallback(p, delay)
    PROVE  Inv'
<1> DEFINE id == taskIdCounter
<1>1. delay \in Nat /\ delay > 0 /\ CreateTask(p, delay)
  BY SchedulerAssumption DEF ScheduleDelayedCallback
<1>2. /\ id \in TaskIds /\ id \notin timerQueue
      /\ task'[id] = NewTask(p, delay)
      /\ \A i \in TaskIds : i # id => task'[i] = task[i]
      /\ task' \in [TaskIds -> Task]
      /\ taskIdCounter' \in 1 .. MaxTasks + 1
      /\ taskIdCounter' = taskIdCounter + 1
  BY <1>1, NewTaskFacts
<1>3. TasksTypeOK'
  BY <1>2 DEF ScheduleDelayedCallback, Inv, VariablesTypeOK, TasksTypeOK
<1>4. LoopTypeOK'
  BY DEF ScheduleDelayedCallback, Inv, VariablesTypeOK, LoopTypeOK, loopVars
<1>5. now + delay \in Time
  BY <1>1, SchedulerAssumption DEF ScheduleDelayedCallback, Inv, VariablesTypeOK,
     LoopTypeOK, Time
<1>6. /\ taskTimeoutID' \in Time \cup {NoTimeout} /\ leakedTimeouts' \in [Time -> Nat]
      /\ isHostTimeoutScheduled' \in BOOLEAN
  BY <1>5, AbandonType DEF ScheduleDelayedCallback, Inv, VariablesTypeOK, HostTypeOK, timeoutVars
<1>7. HostTypeOK'
  BY <1>6 DEF ScheduleDelayedCallback, Inv, VariablesTypeOK, HostTypeOK,
     loopVars, messageVars, yieldVars
<1>8. MessageLoop' /\ NoLostWakeup'
  BY DEF ScheduleDelayedCallback, Inv, MessageLoop, NoLostWakeup, loopVars, messageVars
<1>9. TimerArmed' /\ TimeoutFlagHonest'
  <2>1. CASE taskQueue = {} /\ StartsFirst(now + delay)
    <3>1. taskTimeoutID' \in Time
      BY <1>5, <2>1 DEF ScheduleDelayedCallback
    <3> QED
      BY <3>1, SchedulerAssumption DEF TimerArmed, TimeoutFlagHonest, Time, NoTimeout
  <2>2. CASE ~(taskQueue = {} /\ StartsFirst(now + delay))
    <3>1. UNCHANGED <<taskTimeoutID, leakedTimeouts, isHostTimeoutScheduled, pc, messages>>
      BY <2>2 DEF ScheduleDelayedCallback, timeoutVars, loopVars, messageVars
    <3>2. taskQueue # {} \/ timerQueue # {}
      BY <2>2 DEF StartsFirst
    <3> QED
      BY <3>1, <3>2 DEF Inv, TimerArmed, TimeoutFlagHonest, NoLostWakeup
  <2> QED BY <2>1, <2>2
<1>10. NoTaskLost'
  <2>1. task'[id].sortIndex = task'[id].startTime /\ id \notin taskQueue
    BY <1>1, <1>2 DEF NewTask, Inv, LoopState, TaskIds
  <2> QED
    BY <1>2, <2>1 DEF ScheduleDelayedCallback, Inv, NoTaskLost, Cancelled,
       VariablesTypeOK, TasksTypeOK, loopVars
<1>11. LoopState'
  <2>1. \A i \in TaskIds : i < taskIdCounter => i < taskIdCounter'
    BY <1>2 DEF TaskIds, Inv, VariablesTypeOK, TasksTypeOK
  <2>2. pc # "idle" => ~isHostTimeoutScheduled'
    BY DEF ScheduleDelayedCallback, Inv, LoopState, NoTaskLost, UserCode
  <2> QED
    BY <1>2, <2>1, <2>2 DEF ScheduleDelayedCallback, Inv, LoopState, UserCode,
       MessageLoop, VariablesTypeOK, TasksTypeOK, loopVars
<1>12. RunState'
  <2>1. pc = "callback" => currentTask \in TaskIds /\ currentTask # id
    <3>1. id \notin taskQueue
      BY <1>2 DEF Inv, LoopState, TaskIds
    <3>2. taskQueue \subseteq TaskIds
      BY DEF Inv, VariablesTypeOK, TasksTypeOK
    <3> QED
      BY <3>1, <3>2 DEF Inv, NoTaskLost
  <2> QED
    BY <1>2, <2>1 DEF ScheduleDelayedCallback, Inv, RunState, Cancelled, loopVars
<1> QED
  BY <1>3, <1>4, <1>7, <1>8, <1>9, <1>10, <1>11, <1>12 DEF Inv, VariablesTypeOK

LEMMA CancelCallbackInv ==
    ASSUME Inv, NEW id \in TaskIds, CancelCallback(id)
    PROVE  Inv'
<1>1. \A i \in TaskIds :
         /\ task'[i] \in Task
         /\ task'[i].callback = "null" \/ task'[i].callback = task[i].callback
         /\ task'[i].startTime = task[i].startTime
         /\ task'[i].expirationTime = task[i].expirationTime
         /\ task'[i].sortIndex = task[i].sortIndex
  BY DEF CancelCallback, Inv, VariablesTypeOK, TasksTypeOK, Task
<1>2. TasksTypeOK'
  BY <1>1 DEF CancelCallback, Inv, VariablesTypeOK, TasksTypeOK
<1>3. NoTaskLost'
  BY <1>1 DEF CancelCallback, Inv, VariablesTypeOK, TasksTypeOK, NoTaskLost, Cancelled, loopVars
<1>4. RunState'
  <2>1. pc = "callback" => currentTask \in TaskIds
    BY DEF Inv, NoTaskLost, VariablesTypeOK, TasksTypeOK
  <2> QED
    BY <1>1, <2>1 DEF CancelCallback, Inv, RunState, Cancelled, loopVars
<1> QED
  BY <1>2, <1>3, <1>4 DEF CancelCallback, Inv, VariablesTypeOK, LoopTypeOK, HostTypeOK,
     MessageLoop, NoLostWakeup, TimerArmed, TimeoutFlagHonest, LoopState, UserCode,
     loopVars, messageVars, timeoutVars, yieldVars

LEMMA ContinueExecutionInv ==
    ASSUME Inv, ContinueExecution
    PROVE  Inv'
<1>1. ScheduleHostCallbackIfNeeded
  BY DEF ContinueExecution
<1>2. HostTypeOK'
  BY <1>1, HostCallbackTypes DEF ContinueExecution, Inv, VariablesTypeOK, HostTypeOK,
     loopVars, timeoutVars, yieldVars
<1>3. MessageLoop' /\ NoLostWakeup' /\ TimerArmed' /\ TimeoutFlagHonest'
  BY <1>1 DEF ContinueExecution, ScheduleHostCallbackIfNeeded, RequestHostCallback,
     Inv, MessageLoop, NoLostWakeup, TimerArmed, TimeoutFlagHonest, loopVars,
     messageVars, timeoutVars, taskVars
<1>4. LoopState'
  BY <1>1 DEF ContinueExecution, ScheduleHostCallbackIfNeeded, Inv, LoopState,
     MessageLoop, UserCode, loopVars, taskVars
<1> QED
  BY <1>2, <1>3, <1>4 DEF ContinueExecution, Inv, VariablesTypeOK, TasksTypeOK, LoopTypeOK,
     NoTaskLost, RunState, Cancelled, taskVars, loopVars

(* Steps that change only a flag, the frame interval or the clock          *)
LEMMA OtherStepsInv ==
    ASSUME Inv, PauseExecution \/ RequestPaint \/ Tick \/ UNCHANGED vars
                \/ \E fps \in FrameRates : ForceFrameRate(fps)
    PROVE  Inv'
<1>1. UNCHANGED <<taskVars, loopVars, isHostCallbackScheduled,
                  isHostTimeoutScheduled, messageVars, timeoutVars>>
  BY DEF PauseExecution, RequestPaint, Tick, ForceFrameRate, vars, loopVars,
     taskVars, messageVars, timeoutVars
<1>2. now' \in Time
  BY SchedulerAssumption DEF PauseExecution, RequestPaint, Tick, ForceFrameRate,
     vars, Inv, VariablesTypeOK, LoopTypeOK, Time
<1>3. frameInterval' \in Nat
  <2>1. CASE \E fps \in FrameRates : ForceFrameRate(fps)
    <3>1. PICK fps \in FrameRates : ForceFrameRate(fps)
      BY <2>1
    <3>2. fps > 0 /\ fps \in Nat => Second \div fps \in Nat
      BY SchedulerAssumption
    <3> QED
      BY <3>1, <3>2, SchedulerAssumption DEF ForceFrameRate
  <2>2. CASE PauseExecution \/ RequestPaint \/ Tick \/ UNCHANGED vars
    BY <2>2 DEF PauseExecution, RequestPaint, Tick, vars, Inv, VariablesTypeOK, HostTypeOK,
       yieldVars
  <2> QED BY <2>1, <2>2
<1>4. isSchedulerPaused' \in BOOLEAN /\ needsPaint' \in BOOLEAN
  BY DEF PauseExecution, RequestPaint, Tick, ForceFrameRate, vars, Inv, VariablesTypeOK,
     HostTypeOK, yieldVars
<1>5. RunState'
  <2>1. now <= now'
    BY SchedulerAssumption DEF PauseExecution, RequestPaint, Tick, ForceFrameRate, vars,
       Inv, VariablesTypeOK, LoopTypeOK, Time
  <2>2. now \in Int /\ now' \in Int /\ currentTime \in Int
    BY <1>2, SchedulerAssumption DEF Inv, VariablesTypeOK, LoopTypeOK, Time
  <2> QED
    BY <1>1, <2>1, <2>2 DEF Inv, RunState, Cancelled, taskVars, loopVars
<1> QED
  BY <1>1, <1>2, <1>3, <1>4, <1>5 DEF Inv, VariablesTypeOK, TasksTypeOK, LoopTypeOK, HostTypeOK,
     MessageLoop, NoLostWakeup, TimerArmed, TimeoutFlagHonest, NoTaskLost,
     Cancelled, LoopState, Peek, Earlier, taskVars, loopVars, messageVars, timeoutVars

(* What advanceTimers does to the two heaps keeps every live task queued.  *)
LEMMA AdvanceTimersTasks ==
    ASSUME Inv, NEW t \in Time, NEW queue, queue \subseteq taskQueue,
           \A id \in taskQueue \ queue : Cancelled(id),
           NEW resumed, resumed \subseteq queue,
           AdvanceTimers(t, queue, resumed), UNCHANGED taskIdCounter
    PROVE  /\ TasksTypeOK'
           /\ taskQueue' \cap timerQueue' = {}
           /\ \A id \in TaskIds : ~Cancelled(id)' => id \in taskQueue' \cup timerQueue'
           /\ \A id \in taskQueue' : task'[id].sortIndex = task'[id].expirationTime
           /\ \A id \in timerQueue' : task'[id].sortIndex = task'[id].startTime
           /\ \A id \in taskQueue' \cup timerQueue' : id < taskIdCounter'
<1>1. queue \subseteq TaskIds /\ resumed \subseteq TaskIds /\ timerQueue \subseteq TaskIds
  BY DEF Inv, VariablesTypeOK, TasksTypeOK
<1> DEFINE Facts ==
           /\ task' \in [TaskIds -> Task]
           /\ taskQueue' = queue \cup Fired(t) /\ timerQueue' = Remaining(t)
           /\ Fired(t) \subseteq timerQueue /\ Remaining(t) \subseteq timerQueue
           /\ Fired(t) \cap Remaining(t) = {}
           /\ \A id \in timerQueue : id \in Fired(t) \cup Remaining(t) \/ Cancelled(id)
           /\ \A id \in TaskIds \ resumed : task'[id].callback = task[id].callback
           /\ \A id \in TaskIds :
                /\ task'[id].startTime = task[id].startTime
                /\ task'[id].expirationTime = task[id].expirationTime
                /\ task'[id].sortIndex = IF id \in Fired(t)
                                         THEN task[id].expirationTime
                                         ELSE task[id].sortIndex
<1>2. Facts
  BY <1>1, AdvanceTimersFacts DEF Inv
<1>3. TasksTypeOK'
  BY <1>1, <1>2 DEF Inv, VariablesTypeOK, TasksTypeOK
<1>4. taskQueue' \cap timerQueue' = {}
  BY <1>2 DEF Inv, NoTaskLost
<1>5. ASSUME NEW id \in TaskIds, ~Cancelled(id)'
      PROVE  id \in taskQueue' \cup timerQueue'
  <2>1. CASE id \in resumed
    BY <1>2, <2>1
  <2>2. CASE id \notin resumed
    <3>1. ~Cancelled(id)
      BY <1>2, <1>5, <2>2 DEF Cancelled
    <3>2. id \in queue \/ id \in timerQueue
      BY <3>1 DEF Inv, NoTaskLost
    <3> QED BY <1>2, <3>1, <3>2
  <2> QED BY <2>1, <2>2
<1>6. \A id \in taskQueue' : task'[id].sortIndex = task'[id].expirationTime
  BY <1>1, <1>2 DEF Inv, NoTaskLost
<1>7. \A id \in timerQueue' : task'[id].sortIndex = task'[id].startTime
  BY <1>1, <1>2 DEF Inv, NoTaskLost
<1>8. \A id \in taskQueue' \cup timerQueue' : id < taskIdCounter'
  BY <1>2 DEF Inv, LoopState
<1> QED
  BY <1>3, <1>4, <1>5, <1>6, <1>7, <1>8

(* The same where nothing else has touched the queue yet                   *)
LEMMA AdvanceTimersOnly ==
    ASSUME Inv, AdvanceTimers(now, taskQueue, {}), UNCHANGED taskIdCounter
    PROVE  /\ TasksTypeOK'
           /\ taskQueue' \cap timerQueue' = {}
           /\ \A id \in TaskIds : ~Cancelled(id)' => id \in taskQueue' \cup timerQueue'
           /\ \A id \in taskQueue' : task'[id].sortIndex = task'[id].expirationTime
           /\ \A id \in timerQueue' : task'[id].sortIndex = task'[id].startTime
           /\ \A id \in taskQueue' \cup timerQueue' : id < taskIdCounter'
<1>1. now \in Time /\ AdvanceTimers(now, taskQueue, {}) /\ UNCHANGED taskIdCounter
  BY DEF Inv, VariablesTypeOK, LoopTypeOK
<1>2. /\ taskQueue \subseteq taskQueue /\ {} \subseteq taskQueue
      /\ \A id \in taskQueue \ taskQueue : Cancelled(id)
  OBVIOUS
<1> QED
  BY <1>1, <1>2, AdvanceTimersTasks, SMTT(30)

(* currentTask = peek(taskQueue) at the head of the loop                   *)
LEMMA LoopHead ==
    ASSUME TasksTypeOK', currentTask' = Peek(taskQueue)'
    PROVE  /\ \/ currentTask' = NoTask /\ taskQueue' = {}
              \/ currentTask' \in taskQueue'
           /\ currentTask' \in TaskIds \cup {NoTask}
<1>1. CASE taskQueue' = {}
  BY <1>1 DEF Peek
<1>2. CASE taskQueue' # {}
  BY <1>2, PeekInQueueNext DEF TasksTypeOK
<1> QED BY <1>1, <1>2

LEMMA PerformWorkUntilDeadlineInv ==
    ASSUME Inv, PerformWorkUntilDeadline
    PROVE  Inv'
<1>1. now \in Time /\ AdvanceTimers(now, taskQueue, {}) /\ UNCHANGED taskIdCounter
  BY DEF PerformWorkUntilDeadline, Inv, VariablesTypeOK, LoopTypeOK
<1>2. /\ TasksTypeOK'
      /\ taskQueue' \cap timerQueue' = {}
      /\ \A id \in TaskIds : ~Cancelled(id)' => id \in taskQueue' \cup timerQueue'
      /\ \A id \in taskQueue' : task'[id].sortIndex = task'[id].expirationTime
      /\ \A id \in timerQueue' : task'[id].sortIndex = task'[id].startTime
      /\ \A id \in taskQueue' \cup timerQueue' : id < taskIdCounter'
  BY <1>1, AdvanceTimersOnly
<1>3. /\ \/ currentTask' = NoTask /\ taskQueue' = {}
         \/ currentTask' = Peek(taskQueue)' /\ taskQueue' # {}
      /\ currentTask' \in TaskIds \cup {NoTask}
  BY <1>2, LoopHead DEF PerformWorkUntilDeadline, Peek
<1>4. messages = 1 /\ messages' = 0 /\ isMessageLoopRunning
  BY DEF PerformWorkUntilDeadline, Inv, MessageLoop
<1>5. LoopTypeOK'
  BY <1>3 DEF PerformWorkUntilDeadline, Inv, VariablesTypeOK, LoopTypeOK
<1>6. HostTypeOK'
  <2>1. taskTimeoutID' \in Time \cup {NoTimeout} /\ leakedTimeouts' \in [Time -> Nat]
    BY DEF PerformWorkUntilDeadline, CancelHostTimeout, Inv, VariablesTypeOK, HostTypeOK,
       timeoutVars
  <2>2. messages' \in Nat
    BY <1>4
  <2> QED
    BY <2>1, <2>2 DEF PerformWorkUntilDeadline, Inv, VariablesTypeOK, HostTypeOK, yieldVars
<1>7. MessageLoop' /\ NoLostWakeup' /\ TimerArmed' /\ TimeoutFlagHonest'
  BY <1>4 DEF PerformWorkUntilDeadline, Inv, MessageLoop, NoLostWakeup, TimerArmed,
     TimeoutFlagHonest
<1>8. NoTaskLost' /\ LoopState' /\ RunState'
  <2>1. currentTime' <= now'
    BY SchedulerAssumption DEF PerformWorkUntilDeadline, Inv, VariablesTypeOK, LoopTypeOK, Time
  <2> QED
    BY <1>2, <1>3, <2>1 DEF PerformWorkUntilDeadline, NoTaskLost, LoopState, RunState
<1> QED
  BY <1>2, <1>5, <1>6, <1>7, <1>8 DEF Inv, VariablesTypeOK

(* What LeaveFlushWork leaves behind                                       *)
LEMMA LeaveFlushWorkFacts ==
    ASSUME Inv, NEW more \in BOOLEAN, LeaveFlushWork(more), pc # "idle"
    PROVE  /\ pc' = "idle" /\ currentTask' = NoTask /\ isPerformingWork' = FALSE
           /\ messages' = IF more THEN 1 ELSE 0
           /\ isMessageLoopRunning' = more
           /\ scheduledHostCallback' = IF more THEN "flushWork" ELSE "null"
           /\ currentPriorityLevel' \in Priorities
           /\ UNCHANGED <<previousPriorityLevel, currentTime, sliceStart>>
<1>1. messages = 0 /\ isMessageLoopRunning /\ scheduledHostCallback = "flushWork"
  BY DEF Inv, MessageLoop
<1>2. CASE more
  BY <1>1, <1>2 DEF LeaveFlushWork, EndMessage, Inv, VariablesTypeOK, HostTypeOK, LoopTypeOK
<1>3. CASE ~more
  BY <1>1, <1>3 DEF LeaveFlushWork, EndMessage, Inv, VariablesTypeOK, LoopTypeOK
<1> QED BY <1>2, <1>3

(* The work loop stops with work left, or a callback throws.               *)
LEMMA LeaveEarlyInv ==
    ASSUME Inv, WorkLoopYield \/ ThrowTask
    PROVE  Inv'
<1>1. /\ LeaveFlushWork(TRUE) /\ pc # "idle"
      /\ UNCHANGED <<now, taskVars, isHostCallbackScheduled, isHostTimeoutScheduled,
                     isSchedulerPaused, timeoutVars, frameInterval>>
      /\ needsPaint' \in BOOLEAN
  BY DEF WorkLoopYield, ThrowTask, InLoop, Inv, VariablesTypeOK, HostTypeOK, yieldVars
<1>2. /\ pc' = "idle" /\ currentTask' = NoTask /\ isPerformingWork' = FALSE
      /\ messages' = 1 /\ isMessageLoopRunning' = TRUE
      /\ scheduledHostCallback' = "flushWork"
      /\ currentPriorityLevel' \in Priorities
      /\ UNCHANGED <<previousPriorityLevel, currentTime, sliceStart>>
  BY <1>1, LeaveFlushWorkFacts
<1> QED
  BY <1>1, <1>2 DEF Inv, VariablesTypeOK, TasksTypeOK, LoopTypeOK, HostTypeOK, MessageLoop,
     NoLostWakeup, TimerArmed, TimeoutFlagHonest, NoTaskLost, Cancelled, LoopState,
     RunState, taskVars, timeoutVars

LEMMA RunTaskInv ==
    ASSUME Inv, RunTask
    PROVE  Inv'
<1>1. currentTask \in taskQueue /\ currentTask \in TaskIds
  BY PeekInQueue DEF RunTask, MayContinue, InLoop, Inv, LoopState, VariablesTypeOK, TasksTypeOK
<1>2. /\ task' \in [TaskIds -> Task]
      /\ \A i \in TaskIds :
         /\ task'[i].callback = "null" \/ task'[i].callback = task[i].callback
         /\ task'[i].startTime = task[i].startTime
         /\ task'[i].expirationTime = task[i].expirationTime
         /\ task'[i].sortIndex = task[i].sortIndex
  BY DEF RunTask, Inv, VariablesTypeOK, TasksTypeOK, Task
<1>3. currentPriorityLevel' \in Priorities
  BY <1>1 DEF RunTask, Inv, VariablesTypeOK, TasksTypeOK, Task
<1>4. TasksTypeOK' /\ LoopTypeOK' /\ HostTypeOK'
  BY <1>2, <1>3 DEF RunTask, Inv, VariablesTypeOK, TasksTypeOK, LoopTypeOK, HostTypeOK,
     messageVars, timeoutVars, yieldVars
<1>5. NoTaskLost'
  BY <1>1, <1>2 DEF RunTask, Inv, VariablesTypeOK, TasksTypeOK, NoTaskLost, Cancelled
<1>6. RunState'
  BY <1>1 DEF RunTask, Inv, VariablesTypeOK, TasksTypeOK, Task, RunState, Cancelled
<1> QED
  BY <1>4, <1>5, <1>6 DEF RunTask, MayContinue, InLoop, Inv, VariablesTypeOK, MessageLoop,
     NoLostWakeup, TimerArmed, TimeoutFlagHonest, LoopState, messageVars, timeoutVars

LEMMA DropCancelledTaskInv ==
    ASSUME Inv, DropCancelledTask
    PROVE  Inv'
<1>1. taskQueue' \subseteq taskQueue /\ pc = "loop" /\ pc' = "loop"
  BY DEF DropCancelledTask, MayContinue, InLoop
<1>2. TasksTypeOK'
  BY <1>1 DEF DropCancelledTask, Inv, VariablesTypeOK, TasksTypeOK
<1>3. /\ \/ currentTask' = NoTask /\ taskQueue' = {}
         \/ currentTask' = Peek(taskQueue)' /\ taskQueue' # {}
      /\ currentTask' \in TaskIds \cup {NoTask}
  BY <1>2, LoopHead DEF DropCancelledTask, Peek
<1>4. LoopTypeOK' /\ HostTypeOK'
  BY <1>3 DEF DropCancelledTask, Inv, VariablesTypeOK, LoopTypeOK, HostTypeOK, messageVars,
     timeoutVars, yieldVars
<1>5. currentTask = Peek(taskQueue)
  BY DEF DropCancelledTask, MayContinue, InLoop, Inv, LoopState
<1>6. NoTaskLost'
  <2>1. \A id \in taskQueue \ taskQueue' : Cancelled(id)
    BY <1>5 DEF DropCancelledTask
  <2> QED
    BY <1>1, <2>1 DEF DropCancelledTask, Inv, NoTaskLost, Cancelled
<1> QED
  BY <1>1, <1>2, <1>3, <1>4, <1>6 DEF DropCancelledTask, Inv, VariablesTypeOK, MessageLoop,
     NoLostWakeup, TimerArmed, TimeoutFlagHonest, LoopState, RunState, messageVars,
     timeoutVars

(* After a callback: what CompleteTask and ContinueTask have in common     *)
LEMMA CallbackReturnedInv ==
    ASSUME Inv, CallbackReturned,
           NEW queue, queue \subseteq taskQueue,
           \A id \in taskQueue \ queue : Cancelled(id),
           NEW resumed, resumed \subseteq queue,
           AdvanceTimers(now, queue, resumed)
    PROVE  Inv'
<1>1. now \in Time /\ UNCHANGED taskIdCounter
  BY DEF CallbackReturned, Inv, VariablesTypeOK, LoopTypeOK
<1>2. /\ TasksTypeOK'
      /\ taskQueue' \cap timerQueue' = {}
      /\ \A id \in TaskIds : ~Cancelled(id)' => id \in taskQueue' \cup timerQueue'
      /\ \A id \in taskQueue' : task'[id].sortIndex = task'[id].expirationTime
      /\ \A id \in timerQueue' : task'[id].sortIndex = task'[id].startTime
      /\ \A id \in taskQueue' \cup timerQueue' : id < taskIdCounter'
  BY <1>1, AdvanceTimersTasks
<1>3. /\ \/ currentTask' = NoTask /\ taskQueue' = {}
         \/ currentTask' = Peek(taskQueue)' /\ taskQueue' # {}
      /\ currentTask' \in TaskIds \cup {NoTask}
  BY <1>2, LoopHead DEF CallbackReturned, Peek
<1>4. LoopTypeOK'
  BY <1>3 DEF CallbackReturned, Inv, VariablesTypeOK, LoopTypeOK
<1>5. HostTypeOK'
  BY DEF CallbackReturned, Inv, VariablesTypeOK, HostTypeOK, messageVars, timeoutVars, yieldVars
<1>6. MessageLoop' /\ NoLostWakeup' /\ TimerArmed' /\ TimeoutFlagHonest'
  BY DEF CallbackReturned, Inv, MessageLoop, NoLostWakeup, TimerArmed,
     TimeoutFlagHonest, LoopState, messageVars, timeoutVars
<1>7. NoTaskLost' /\ LoopState' /\ RunState'
  <2>1. currentTime' <= now'
    BY SchedulerAssumption DEF CallbackReturned, Inv, VariablesTypeOK, LoopTypeOK, Time
  <2> QED
    BY <1>2, <1>3, <2>1 DEF CallbackReturned, NoTaskLost, LoopState, RunState, Inv
<1> QED
  BY <1>2, <1>4, <1>5, <1>6, <1>7 DEF Inv, VariablesTypeOK

LEMMA CompleteTaskInv ==
    ASSUME Inv, NEW id \in TaskIds, CompleteTask(id)
    PROVE  Inv'
<1>1. PopCompleted(id) \subseteq taskQueue
  BY DEF PopCompleted
<1>2. \A i \in taskQueue \ PopCompleted(id) : Cancelled(i)
  BY DEF PopCompleted, CompleteTask, CallbackReturned, Inv, RunState
<1> HIDE DEF PopCompleted
<1> QED
  BY <1>1, <1>2, CallbackReturnedInv DEF CompleteTask

LEMMA ContinueTaskInv ==
    ASSUME Inv, ContinueTask
    PROVE  Inv'
<1>1. {currentTask} \subseteq taskQueue
  BY DEF ContinueTask, CallbackReturned, Inv, NoTaskLost
<1> QED
  BY <1>1, CallbackReturnedInv DEF ContinueTask

LEMMA DueInTime ==
    ASSUME NEW t \in Int, t >= 0
    PROVE  Due(t) \in Time
BY SchedulerAssumption DEF Due, Time

LEMMA WorkLoopDoneInv ==
    ASSUME Inv, WorkLoopDone
    PROVE  Inv'
<1>1. /\ pc' = "idle" /\ currentTask' = NoTask /\ isPerformingWork' = FALSE
      /\ messages' = 0 /\ isMessageLoopRunning' = FALSE
      /\ scheduledHostCallback' = "null"
      /\ currentPriorityLevel' \in Priorities
      /\ UNCHANGED <<previousPriorityLevel, currentTime, sliceStart>>
  BY LeaveFlushWorkFacts DEF WorkLoopDone
<1>2. /\ taskTimeoutID' \in Time \cup {NoTimeout} /\ leakedTimeouts' \in [Time -> Nat]
      /\ timerQueue # {} => taskTimeoutID' # NoTimeout
  <2>1. CASE timerQueue = {}
    BY <2>1 DEF WorkLoopDone, Inv, VariablesTypeOK, HostTypeOK, timeoutVars
  <2>2. CASE timerQueue # {}
    <3> DEFINE ms == task[Peek(timerQueue)].startTime - currentTime
    <3>1. RequestHostTimeout(ms)
      BY <2>2 DEF WorkLoopDone
    <3>2. Due(now + ms) \in Time
      <4>1. Peek(timerQueue) \in timerQueue
        BY <2>2, PeekInQueue DEF Inv, VariablesTypeOK, TasksTypeOK
      <4>2. task[Peek(timerQueue)].startTime \in Nat
        BY <4>1 DEF Inv, VariablesTypeOK, TasksTypeOK, Task
      <4>3. now \in Nat /\ currentTime \in Nat /\ currentTime <= now
        BY SchedulerAssumption DEF Inv, VariablesTypeOK, LoopTypeOK, RunState, Time
      <4>4. now + ms \in Int /\ now + ms >= 0
        BY <4>2, <4>3
      <4> HIDE DEF ms
      <4> QED BY <4>4, DueInTime
    <3>3. leakedTimeouts' \in [Time -> Nat]
      BY <3>1, AbandonType DEF RequestHostTimeout, Inv, VariablesTypeOK, HostTypeOK
    <3> QED
      BY <3>1, <3>2, <3>3, SchedulerAssumption DEF RequestHostTimeout, Time, NoTimeout
  <2> QED BY <2>1, <2>2
<1>3. taskQueue = {}
  <2>1. NoTask \notin taskQueue
    BY SchedulerAssumption DEF Inv, VariablesTypeOK, TasksTypeOK, TaskIds, NoTask
  <2>2. taskQueue # {} => Peek(taskQueue) \in taskQueue
    BY PeekInQueue DEF Inv, VariablesTypeOK, TasksTypeOK
  <2> QED
    BY <2>1, <2>2 DEF WorkLoopDone, Inv, LoopState
<1>4. HostTypeOK'
  BY <1>1, <1>2 DEF WorkLoopDone, Inv, VariablesTypeOK, HostTypeOK
<1>5. MessageLoop' /\ NoLostWakeup' /\ TimerArmed' /\ TimeoutFlagHonest'
  BY <1>1, <1>2, <1>3 DEF WorkLoopDone, Inv, MessageLoop, NoLostWakeup, TimerArmed,
     TimeoutFlagHonest, LoopState, taskVars
<1> QED
  BY <1>1, <1>4, <1>5 DEF WorkLoopDone, Inv, VariablesTypeOK, TasksTypeOK, LoopTypeOK,
     NoTaskLost, Cancelled, LoopState, RunState, taskVars

(* A timeout that fires, whichever it was                                  *)
LEMMA HandleTimeoutInv ==
    ASSUME Inv, pc = "idle", NEW armed \in Time \cup {NoTimeout},
           NEW leaked \in [Time -> Nat], HandleTimeout(armed, leaked)
    PROVE  Inv'
<1>1. /\ now \in Time /\ AdvanceTimers(now, taskQueue, {}) /\ UNCHANGED taskIdCounter
      /\ UNCHANGED <<now, loopVars, isSchedulerPaused, yieldVars>>
      /\ isHostTimeoutScheduled' = FALSE
  BY DEF HandleTimeout, ClearFlag, Inv, VariablesTypeOK, LoopTypeOK
<1>2. /\ TasksTypeOK'
      /\ taskQueue' \cap timerQueue' = {}
      /\ \A id \in TaskIds : ~Cancelled(id)' => id \in taskQueue' \cup timerQueue'
      /\ \A id \in taskQueue' : task'[id].sortIndex = task'[id].expirationTime
      /\ \A id \in timerQueue' : task'[id].sortIndex = task'[id].startTime
      /\ \A id \in taskQueue' \cup timerQueue' : id < taskIdCounter'
  BY <1>1, AdvanceTimersOnly
<1>3. taskQueue \subseteq taskQueue'
  BY <1>1 DEF AdvanceTimers
<1>4. LoopTypeOK' /\ NoTaskLost' /\ LoopState' /\ RunState'
  BY <1>1, <1>2 DEF Inv, VariablesTypeOK, LoopTypeOK, NoTaskLost, LoopState, RunState, loopVars
<1>5. CASE isHostCallbackScheduled \/ (taskQueue' = {} /\ timerQueue' = {})
  <2>1. /\ taskTimeoutID' = armed /\ leakedTimeouts' = leaked
        /\ UNCHANGED <<isHostCallbackScheduled, messageVars>>
    BY <1>5 DEF HandleTimeout
  <2>2. HostTypeOK'
    BY <1>1, <2>1 DEF Inv, VariablesTypeOK, HostTypeOK, messageVars, yieldVars, loopVars
  <2>3. MessageLoop' /\ NoLostWakeup' /\ TimerArmed' /\ TimeoutFlagHonest'
    BY <1>1, <1>3, <1>5, <2>1 DEF Inv, MessageLoop, NoLostWakeup, TimerArmed,
       TimeoutFlagHonest, messageVars, loopVars
  <2> QED BY <1>2, <1>4, <2>2, <2>3 DEF Inv, VariablesTypeOK
<1>6. CASE ~isHostCallbackScheduled /\ taskQueue' # {}
  <2>1. /\ isHostCallbackScheduled' = TRUE /\ RequestHostCallback
        /\ taskTimeoutID' = armed /\ leakedTimeouts' = leaked
    BY <1>6 DEF HandleTimeout
  <2>2. messages' = 1
    BY <2>1 DEF RequestHostCallback, Inv, MessageLoop
  <2>3. isHostCallbackScheduled' \in BOOLEAN /\ isMessageLoopRunning' \in BOOLEAN
    BY <2>1 DEF RequestHostCallback
  <2>4. HostTypeOK'
    <3>1. messages' \in Nat /\ scheduledHostCallback' \in {"null", "flushWork"}
      BY <2>1, <2>2 DEF RequestHostCallback
    <3>2. /\ isPerformingWork' \in BOOLEAN /\ isSchedulerPaused' \in BOOLEAN
          /\ frameInterval' \in Nat /\ needsPaint' \in BOOLEAN
          /\ isHostTimeoutScheduled' \in BOOLEAN
      BY <1>1 DEF Inv, VariablesTypeOK, HostTypeOK, yieldVars, loopVars
    <3> QED
      BY <2>1, <2>3, <3>1, <3>2 DEF HostTypeOK
  <2>5. MessageLoop' /\ NoLostWakeup' /\ TimerArmed' /\ TimeoutFlagHonest'
    BY <1>1, <2>1, <2>2 DEF RequestHostCallback, Inv, MessageLoop, NoLostWakeup,
       TimerArmed, TimeoutFlagHonest, loopVars
  <2> QED BY <1>2, <1>4, <2>4, <2>5 DEF Inv, VariablesTypeOK
<1>7. CASE ~isHostCallbackScheduled /\ taskQueue' = {} /\ timerQueue' # {}
  <2>1. /\ taskTimeoutID' = Due(task[Peek(timerQueue)'].startTime)
        /\ leakedTimeouts' = Abandon(armed, leaked)
        /\ UNCHANGED <<isHostCallbackScheduled, messageVars>>
    BY <1>7 DEF HandleTimeout
  <2>2. taskTimeoutID' \in Time
    <3>1. Peek(timerQueue)' \in timerQueue'
      BY <1>2, <1>7, PeekTimerNext
    <3>2. task[Peek(timerQueue)'].startTime \in Nat
      BY <1>2, <3>1 DEF Inv, VariablesTypeOK, TasksTypeOK, Task
    <3> QED BY <2>1, <3>2, DueInTime
  <2>3. leakedTimeouts' \in [Time -> Nat]
    BY <2>1, AbandonType
  <2>4. HostTypeOK'
    BY <1>1, <2>1, <2>2, <2>3 DEF Inv, VariablesTypeOK, HostTypeOK, messageVars, yieldVars,
       loopVars
  <2>5. taskTimeoutID' # NoTimeout
    BY <2>2, SchedulerAssumption DEF Time, NoTimeout
  <2>6. MessageLoop' /\ NoLostWakeup' /\ TimerArmed' /\ TimeoutFlagHonest'
    BY <1>1, <1>7, <2>1, <2>5 DEF Inv, MessageLoop, NoLostWakeup, TimerArmed,
       TimeoutFlagHonest, messageVars, loopVars
  <2> QED BY <1>2, <1>4, <2>4, <2>6 DEF Inv, VariablesTypeOK
<1> QED
  BY <1>5, <1>6, <1>7

LEMMA AnyTimeoutFiresInv ==
    ASSUME Inv, AnyTimeoutFires
    PROVE  Inv'
<1>1. CASE TimeoutFires
  BY <1>1, HandleTimeoutInv DEF TimeoutFires, Inv, VariablesTypeOK, HostTypeOK
<1>2. CASE \E t \in Time : LeakedTimeoutFires(t)
  <2>1. PICK t \in Time : LeakedTimeoutFires(t)
    BY <1>2
  <2>2. leakedTimeouts[t] - 1 \in Nat
    BY <2>1 DEF LeakedTimeoutFires, Inv, VariablesTypeOK, HostTypeOK
  <2>3. [leakedTimeouts EXCEPT ![t] = @ - 1] \in [Time -> Nat]
    BY <2>2 DEF Inv, VariablesTypeOK, HostTypeOK
  <2> QED
    BY <2>1, <2>3, HandleTimeoutInv DEF LeakedTimeoutFires, Inv, VariablesTypeOK, HostTypeOK
<1> QED
  BY <1>1, <1>2 DEF AnyTimeoutFires

-----------------------------------------------------------------------------
THEOREM NextInv == Inv /\ [Next]_vars => Inv'
<1> SUFFICES ASSUME Inv, [Next]_vars PROVE Inv'
  OBVIOUS
<1>1. CASE \E p \in Priorities : ScheduleCallback(p)
  BY <1>1, ScheduleCallbackInv
<1>2. CASE \E p \in Priorities, delay \in Delays : ScheduleDelayedCallback(p, delay)
  BY <1>2, ScheduleDelayedCallbackInv
<1>3. CASE \E id \in TaskIds : CancelCallback(id)
  BY <1>3, CancelCallbackInv
<1>4. CASE ContinueExecution
  BY <1>4, ContinueExecutionInv
<1>5. CASE PauseExecution \/ RequestPaint \/ Tick \/ UNCHANGED vars
           \/ \E fps \in FrameRates : ForceFrameRate(fps)
  BY <1>5, OtherStepsInv
<1>6. CASE PerformWorkUntilDeadline
  BY <1>6, PerformWorkUntilDeadlineInv
<1>7. CASE WorkLoopYield \/ ThrowTask
  BY <1>7, LeaveEarlyInv
<1>8. CASE RunTask
  BY <1>8, RunTaskInv
<1>9. CASE DropCancelledTask
  BY <1>9, DropCancelledTaskInv
<1>10. CASE WorkLoopDone
  BY <1>10, WorkLoopDoneInv
<1>11. CASE \E id \in TaskIds : CompleteTask(id)
  BY <1>11, CompleteTaskInv
<1>12. CASE ContinueTask
  BY <1>12, ContinueTaskInv
<1>13. CASE AnyTimeoutFires
  BY <1>13, AnyTimeoutFiresInv
<1> QED
  BY <1>1, <1>2, <1>3, <1>4, <1>5, <1>6, <1>7, <1>8, <1>9, <1>10, <1>11, <1>12,
     <1>13 DEF Next, UserStep, LoopStep

(* The scheduler keeps every variable in its type, and hands out no id     *)
(* again that is queued.                                                   *)
THEOREM TypeCorrect == Spec => []TypeOK
<1>1. Inv => TypeOK
  BY DEF Inv, TypeOK, LoopState
<1> QED
  BY <1>1, InitInv, NextInv, PTL DEF Spec

(* There is one message at most, and it is there when it is needed.        *)
THEOREM MessageLoopCorrect == Spec => []MessageLoop
<1>1. Inv => MessageLoop
  BY DEF Inv
<1> QED
  BY <1>1, InitInv, NextInv, PTL DEF Spec

(* A ready task never waits without a message on its way.                  *)
THEOREM WakeupNeverLost == Spec => []NoLostWakeup
<1>1. Inv => NoLostWakeup
  BY DEF Inv
<1> QED
  BY <1>1, InitInv, NextInv, PTL DEF Spec

(* A delayed task never waits without a timeout or a message to come.      *)
THEOREM TimerAlwaysArmed == Spec => []TimerArmed
<1>1. Inv => TimerArmed
  BY DEF Inv
<1> QED
  BY <1>1, InitInv, NextInv, PTL DEF Spec

(* cancelHostTimeout clears an armed timeout whenever it is called.        *)
THEOREM FlagAlwaysHonest == Spec => []TimeoutFlagHonest
<1>1. Inv => TimeoutFlagHonest
  BY DEF Inv
<1> QED
  BY <1>1, InitInv, NextInv, PTL DEF Spec

(* No live task leaves the two heaps.                                      *)
THEOREM TaskNeverLost == Spec => []NoTaskLost
<1>1. Inv => NoTaskLost
  BY DEF Inv
<1> QED
  BY <1>1, InitInv, NextInv, PTL DEF Spec

-----------------------------------------------------------------------------
(* The clocks: what is queued has started, and at the head of the loop     *)
(* advanceTimers has left no live timer behind that had started when the   *)
(* loop looked at the clock.                                               *)
ClockState ==
    /\ \A id \in taskQueue : task[id].startTime <= now
    /\ pc = "loop" =>
         /\ \A id \in taskQueue : task[id].startTime <= currentTime
         /\ \A id \in timerQueue : ~Cancelled(id) => task[id].startTime > currentTime

-----------------------------------------------------------------------------
(* No element of a heap goes before the one that peek returns.             *)
LEMMA PeekIsFirst ==
    ASSUME TasksTypeOK, NEW queue, queue \subseteq TaskIds, queue # {}
    PROVE  \A b \in queue \ {Peek(queue)} : Earlier(Peek(queue), b)
<1> DEFINE key == [a \in TaskIds |-> task[a].sortIndex]
<1>1. \A a \in queue : key[a] = task[a].sortIndex /\ key[a] \in Nat \cup {-1}
  BY DEF TasksTypeOK, Task
<1>2. queue \subseteq Nat
  BY DEF TaskIds
<1> HIDE DEF key
<1>3. \E a \in queue : \A b \in queue \ {a} :
         key[a] < key[b] \/ (key[a] = key[b] /\ a < b)
  BY <1>1, <1>2, FirstExists
<1>4. \E a \in queue : \A b \in queue \ {a} : Earlier(a, b)
  BY <1>1, <1>3 DEF Earlier
<1> QED
  BY <1>4 DEF Peek

(* The timers that advanceTimers fires have started, those it keeps and    *)
(* that are alive have not.                                                *)
LEMMA AdvanceTimersClock ==
    ASSUME Inv, NEW t \in Time
    PROVE  /\ \A id \in Fired(t) : task[id].startTime <= t
           /\ \A id \in Remaining(t) : task[id].startTime > t
<1>1. \A id \in timerQueue : /\ task[id].sortIndex = task[id].startTime
                             /\ task[id].startTime \in Nat /\ id \in TaskIds
  BY DEF Inv, NoTaskLost, VariablesTypeOK, TasksTypeOK, Task
<1>2. t \in Nat
  BY SchedulerAssumption DEF Time
<1>3. ASSUME NEW id \in Fired(t) PROVE task[id].startTime <= t
  <2>1. id \in timerQueue /\ ~Cancelled(id) /\ id \notin Remaining(t)
    BY DEF Fired
  <2>2. id \notin Blocked(t)
    BY <2>1 DEF Remaining
  <2> QED BY <1>1, <1>2, <2>1, <2>2 DEF Blocked
<1>4. ASSUME NEW id \in Remaining(t) PROVE task[id].startTime > t
  <2>1. PICK b \in Blocked(t) : b = id \/ Earlier(b, id)
    BY DEF Remaining
  <2>2. b \in timerQueue /\ id \in timerQueue /\ task[b].startTime > t
    BY DEF Blocked, Remaining
  <2>3. task[b].sortIndex <= task[id].sortIndex
    BY <1>1, <2>1, <2>2 DEF Earlier
  <2> QED BY <1>1, <1>2, <2>2, <2>3
<1> QED
  BY <1>3, <1>4

-----------------------------------------------------------------------------
(* ClockState holds at first: both heaps are empty.                        *)
LEMMA InitClock == Init => ClockState
BY DEF Init, ClockState

(* advanceTimers(now) after which the queue holds only started tasks.      *)
LEMMA AdvanceTimersClockNext ==
    ASSUME Inv, ClockState, NEW queue, queue \subseteq taskQueue,
           NEW resumed, resumed \subseteq queue,
           AdvanceTimers(now, queue, resumed)
    PROVE  /\ \A id \in taskQueue' : task'[id].startTime <= now
           /\ \A id \in timerQueue' : task'[id].startTime > now
<1>1. queue \subseteq TaskIds /\ resumed \subseteq TaskIds /\ timerQueue \subseteq TaskIds
  BY DEF Inv, VariablesTypeOK, TasksTypeOK
<1>2. /\ \A id \in Fired(now) : task[id].startTime <= now
      /\ \A id \in Remaining(now) : task[id].startTime > now
  BY AdvanceTimersClock DEF Inv, VariablesTypeOK, LoopTypeOK
<1>3. /\ taskQueue' = queue \cup Fired(now) /\ timerQueue' = Remaining(now)
      /\ Fired(now) \subseteq timerQueue /\ Remaining(now) \subseteq timerQueue
      /\ \A id \in TaskIds : task'[id].startTime = task[id].startTime
  BY <1>1, AdvanceTimersFacts DEF Inv, VariablesTypeOK, LoopTypeOK
<1> QED
  BY <1>1, <1>2, <1>3 DEF ClockState

(* Every step keeps ClockState: a task enters taskQueue when it has         *)
(* started, and currentTime changes only with a new advanceTimers.         *)
LEMMA NextClock ==
    ASSUME Inv, ClockState, [Next]_vars
    PROVE  ClockState'
<1> USE DEF ClockState
<1>1. /\ now \in Nat /\ taskQueue \subseteq TaskIds /\ timerQueue \subseteq TaskIds
      /\ task \in [TaskIds -> Task]
  BY SchedulerAssumption DEF Inv, VariablesTypeOK, TasksTypeOK, LoopTypeOK, Time
<1>2. ASSUME NEW p \in Priorities, ScheduleCallback(p)
      PROVE  ClockState'
  <2>1. /\ task'[taskIdCounter] = NewTask(p, 0)
        /\ \A i \in TaskIds : i # taskIdCounter => task'[i] = task[i]
    BY <1>2, NewTaskFacts DEF ScheduleCallback
  <2>2. task'[taskIdCounter].startTime = now
    BY <1>1, <2>1 DEF NewTask
  <2>3. pc' # "loop" /\ taskQueue' = taskQueue \cup {taskIdCounter} /\ now' = now
    BY <1>2 DEF ScheduleCallback, UserCode, loopVars
  <2> QED BY <1>1, <2>1, <2>2, <2>3
<1>3. ASSUME NEW p \in Priorities, NEW delay \in Delays, ScheduleDelayedCallback(p, delay)
      PROVE  ClockState'
  <2>1. \A i \in TaskIds : i # taskIdCounter => task'[i] = task[i]
    BY <1>3, NewTaskFacts, SchedulerAssumption DEF ScheduleDelayedCallback
  <2>2. pc' # "loop" /\ taskQueue' = taskQueue /\ now' = now
    BY <1>3 DEF ScheduleDelayedCallback, UserCode, loopVars
  <2>3. \A i \in taskQueue : i # taskIdCounter
    BY DEF Inv, LoopState, VariablesTypeOK, TasksTypeOK, TaskIds
  <2> QED BY <1>1, <2>1, <2>2, <2>3
<1>4. ASSUME NEW id \in TaskIds, CancelCallback(id)
      PROVE  ClockState'
  <2>1. \A i \in TaskIds : task'[i].startTime = task[i].startTime
    BY <1>1, <1>4 DEF CancelCallback, Task
  <2>2. pc' # "loop" /\ taskQueue' = taskQueue /\ now' = now
    BY <1>4 DEF CancelCallback, UserCode, loopVars
  <2> QED BY <1>1, <2>1, <2>2
<1>5. CASE \/ PauseExecution \/ ContinueExecution \/ RequestPaint \/ UNCHANGED vars
           \/ \E fps \in FrameRates : ForceFrameRate(fps)
  <2>1. UNCHANGED <<task, taskQueue, timerQueue, now, pc, currentTime>>
    BY <1>5 DEF PauseExecution, ContinueExecution, RequestPaint, ForceFrameRate, vars,
       taskVars, loopVars
  <2> QED BY <2>1 DEF Cancelled
<1>6. CASE Tick
  <2>1. UNCHANGED <<task, taskQueue, timerQueue, pc, currentTime>> /\ now' = now + 1
    BY <1>6 DEF Tick, taskVars, loopVars
  <2>2. \A id \in taskQueue : task[id].startTime \in Nat
    BY <1>1 DEF Task
  <2>3. \A id \in taskQueue' : task'[id].startTime <= now'
    BY <1>1, <2>1, <2>2
  <2> QED BY <2>1, <2>3 DEF Cancelled
<1>7. CASE PerformWorkUntilDeadline
  <2>1. AdvanceTimers(now, taskQueue, {}) /\ currentTime' = now /\ now' = now
    BY <1>7 DEF PerformWorkUntilDeadline
  <2>2. /\ \A id \in taskQueue' : task'[id].startTime <= now
        /\ \A id \in timerQueue' : task'[id].startTime > now
    BY <2>1, AdvanceTimersClockNext
  <2> QED BY <2>1, <2>2
<1>8. CASE WorkLoopYield \/ ThrowTask \/ WorkLoopDone \/ RunTask
  <2>1. pc' # "loop" /\ taskQueue' = taskQueue /\ now' = now
    BY <1>8 DEF WorkLoopYield, ThrowTask, WorkLoopDone, RunTask, LeaveFlushWork, taskVars
  <2>2. task' = task \/ task' = [task EXCEPT ![currentTask].callback = "null"]
    BY <1>8 DEF WorkLoopYield, ThrowTask, WorkLoopDone, RunTask, taskVars
  <2>3. \A i \in TaskIds : task'[i].startTime = task[i].startTime
    BY <1>1, <2>2 DEF Task
  <2> QED BY <1>1, <2>1, <2>3
<1>9. CASE DropCancelledTask
  <2>1. /\ UNCHANGED <<task, timerQueue, now, currentTime, pc>> /\ pc = "loop"
        /\ taskQueue' \subseteq taskQueue
    BY <1>9 DEF DropCancelledTask, MayContinue, InLoop
  <2> QED BY <2>1 DEF Cancelled
<1>10. ASSUME NEW queue, queue \subseteq taskQueue, NEW resumed, resumed \subseteq queue,
              AdvanceTimers(now, queue, resumed), CallbackReturned
       PROVE  ClockState'
  <2>1. /\ \A id \in taskQueue' : task'[id].startTime <= now
        /\ \A id \in timerQueue' : task'[id].startTime > now
    BY <1>10, AdvanceTimersClockNext
  <2> QED BY <1>10, <2>1 DEF CallbackReturned
<1>11. ASSUME NEW id \in TaskIds, CompleteTask(id)
       PROVE  ClockState'
  <2>1. PopCompleted(id) \subseteq taskQueue
    BY DEF PopCompleted
  <2> QED BY <1>10, <1>11, <2>1 DEF CompleteTask
<1>12. CASE ContinueTask
  <2>1. {currentTask} \subseteq taskQueue
    BY <1>12 DEF ContinueTask, CallbackReturned, Inv, NoTaskLost
  <2> QED BY <1>10, <1>12, <2>1 DEF ContinueTask
<1>13. CASE AnyTimeoutFires
  <2>1. PICK id, leaked : HandleTimeout(id, leaked) /\ pc = "idle"
    BY <1>13 DEF AnyTimeoutFires, TimeoutFires, LeakedTimeoutFires
  <2>2. AdvanceTimers(now, taskQueue, {}) /\ now' = now /\ pc' = "idle"
    BY <2>1 DEF HandleTimeout, loopVars
  <2>3. \A i \in taskQueue' : task'[i].startTime <= now
    BY <2>2, AdvanceTimersClockNext
  <2> QED BY <2>2, <2>3
<1> QED
  BY <1>2, <1>3, <1>4, <1>5, <1>6, <1>7, <1>8, <1>9, <1>11, <1>12, <1>13
  DEF Next, UserStep, LoopStep

-----------------------------------------------------------------------------
(* The refinement mapping, state by state.                                 *)
StatusOf(id) ==
    IF pc = "callback" /\ id = currentTask THEN "running"
    ELSE IF Cancelled(id) THEN "over" ELSE "waiting"

status  == [id \in TaskIds |-> StatusOf(id)]
start   == [id \in TaskIds |-> task[id].startTime]
expires == [id \in TaskIds |-> task[id].expirationTime]
created == 1 .. taskIdCounter - 1

promiseVars == <<status, start, expires, created, now, currentTime>>

(* The mapping used here is the one that the runs use.                     *)
LEMMA Mapping ==
    /\ Promise!vars = promiseVars
    /\ status = [id \in TaskIds |->
                   IF pc = "callback" /\ id = currentTask THEN "running"
                   ELSE IF Cancelled(id) THEN "over" ELSE "waiting"]
BY DEF Promise!vars, promiseVars, status, start, expires, created, StatusOf

(* A step that keeps the tasks and only moves pc outside of a callback is  *)
(* not visible to the callers.                                             *)
LEMMA Invisible ==
    ASSUME UNCHANGED <<now, taskIdCounter, currentTime>>,
           pc # "callback", pc' # "callback",
           \A id \in TaskIds :
               /\ task'[id].callback = task[id].callback
               /\ task'[id].startTime = task[id].startTime
               /\ task'[id].expirationTime = task[id].expirationTime
    PROVE  UNCHANGED promiseVars
<1>1. status' = status
  BY DEF status, StatusOf, Cancelled
<1>2. start' = start /\ expires' = expires /\ created' = created
  BY DEF start, expires, created
<1> QED
  BY <1>1, <1>2 DEF promiseVars

(* The scheduler starts as the promise does.                               *)
THEOREM InitRefines == Init => Promise!Init
<1> SUFFICES ASSUME Init PROVE Promise!Init
  OBVIOUS
<1>1. created = {}
  BY DEF Init, created
<1>2. \A id \in TaskIds : /\ StatusOf(id) = "over"
                          /\ task[id].startTime = 0 /\ task[id].expirationTime = 0
  BY DEF Init, StatusOf, Cancelled, Unused
<1>3. /\ status = [id \in TaskIds |-> "over"]
      /\ start = [id \in TaskIds |-> 0] /\ expires = [id \in TaskIds |-> 0]
  BY <1>2 DEF status, start, expires
<1> QED
  BY <1>1, <1>3 DEF Init, Promise!Init, status, start, expires, created, StatusOf

-----------------------------------------------------------------------------
(* Each action of the scheduler, as the promise sees it.                   *)

(* A new task waits.                                                       *)
LEMMA ScheduleRefines ==
    ASSUME Inv, NEW p \in Priorities, NEW delay \in Delays \cup {0}, UserCode,
           CreateTask(p, delay), UNCHANGED <<now, pc, currentTask, currentTime>>
    PROVE  Promise!Schedule(taskIdCounter, delay, Timeout[p])
<1> DEFINE id == taskIdCounter
<1>1. /\ id \in TaskIds /\ task'[id] = NewTask(p, delay)
      /\ \A i \in TaskIds : i # id => task'[i] = task[i]
  BY NewTaskFacts, SchedulerAssumption
<1>2. pc = "callback" => currentTask # id
  BY DEF Inv, NoTaskLost, LoopState, VariablesTypeOK, TasksTypeOK, TaskIds
<1>3. status' = [status EXCEPT ![id] = "waiting"]
  <2>1. ASSUME NEW i \in TaskIds
        PROVE  StatusOf(i)' = IF i = id THEN "waiting" ELSE StatusOf(i)
    BY <1>1, <1>2 DEF StatusOf, Cancelled, NewTask
  <2> QED BY <2>1 DEF status
<1>4. start' = [start EXCEPT ![id] = now + delay]
  <2>1. \A i \in TaskIds : task'[i].startTime = IF i = id THEN now + delay
                                                ELSE task[i].startTime
    BY <1>1 DEF NewTask
  <2> QED BY <2>1 DEF start
<1>5. expires' = [expires EXCEPT ![id] = now + delay + Timeout[p]]
  <2>1. \A i \in TaskIds : task'[i].expirationTime = IF i = id THEN now + delay + Timeout[p]
                                                     ELSE task[i].expirationTime
    BY <1>1 DEF NewTask
  <2> QED BY <2>1 DEF expires
<1>6. created' = created \cup {id} /\ \A other \in created : other < id
  BY <1>1 DEF created, CreateTask, TaskIds
<1> QED
  BY <1>3, <1>4, <1>5, <1>6 DEF Promise!Schedule, status, start, expires, created, StatusOf

(* To cancel a task that waits ends it; otherwise nothing changes.         *)
LEMMA CancelRefines ==
    ASSUME Inv, NEW id \in TaskIds, CancelCallback(id)
    PROVE  Promise!Cancel(id) \/ UNCHANGED promiseVars
<1>1. \A i \in TaskIds :
         /\ task'[i].startTime = task[i].startTime
         /\ task'[i].expirationTime = task[i].expirationTime
         /\ task'[i].callback = IF i = id THEN "null" ELSE task[i].callback
  BY DEF CancelCallback, Inv, VariablesTypeOK, TasksTypeOK, Task
<1>2. UNCHANGED <<now, pc, currentTask, currentTime, taskIdCounter>>
  BY DEF CancelCallback, loopVars
<1>3. UNCHANGED <<start, expires, created, now, currentTime>>
  BY <1>1, <1>2 DEF start, expires, created
<1>4. CASE StatusOf(id) = "waiting"
  <2>1. ASSUME NEW i \in TaskIds
        PROVE  StatusOf(i)' = IF i = id THEN "over" ELSE StatusOf(i)
    BY <1>1, <1>2, <1>4 DEF StatusOf, Cancelled
  <2>2. status' = [status EXCEPT ![id] = "over"]
    BY <2>1 DEF status
  <2>3. Promise!Cancel(id)
    BY <1>3, <1>4, <2>2 DEF Promise!Cancel, Promise!Waiting, status, start, expires,
       created, StatusOf
  <2> QED BY <2>3
<1>5. CASE StatusOf(id) # "waiting"
  <2>1. ASSUME NEW i \in TaskIds PROVE StatusOf(i)' = StatusOf(i)
    BY <1>1, <1>2, <1>5 DEF StatusOf, Cancelled
  <2>2. status' = status
    BY <2>1 DEF status
  <2> QED BY <1>3, <2>2 DEF promiseVars
<1> QED
  BY <1>4, <1>5

(* The task at the top of the heap has started, and expires before all     *)
(* others that have.                                                       *)
LEMMA RunTaskRefines ==
    ASSUME Inv, ClockState, RunTask, NEW id \in TaskIds, id = currentTask
    PROVE  Promise!Run(id)
<1>1. /\ pc = "loop" /\ pc' = "callback" /\ ~Cancelled(currentTask)
      /\ task' = [task EXCEPT ![currentTask].callback = "null"]
      /\ UNCHANGED <<now, taskIdCounter, currentTask, currentTime>>
      /\ currentTask # NoTask
  BY DEF RunTask, MayContinue, InLoop
<1>2. /\ taskQueue \subseteq TaskIds /\ timerQueue \subseteq TaskIds
      /\ task \in [TaskIds -> Task]
  BY DEF Inv, VariablesTypeOK, TasksTypeOK
<1>3. currentTask = Peek(taskQueue) /\ taskQueue # {}
  BY <1>1 DEF Inv, LoopState
<1>4. currentTask \in taskQueue /\ currentTask \in TaskIds
  BY <1>2, <1>3, PeekInQueue DEF Inv, VariablesTypeOK
<1>5. task[currentTask].startTime <= currentTime
  BY <1>1, <1>4 DEF ClockState
<1>6. ASSUME NEW other \in TaskIds, ~Cancelled(other), task[other].startTime <= currentTime
      PROVE  \/ task[currentTask].expirationTime < task[other].expirationTime
             \/ (task[currentTask].expirationTime = task[other].expirationTime
                 /\ currentTask <= other)
  <2>1. other \in taskQueue
    <3>1. other \in taskQueue \cup timerQueue
      BY <1>6 DEF Inv, NoTaskLost
    <3>2. other \in timerQueue => task[other].startTime > currentTime
      BY <1>1, <1>6 DEF ClockState
    <3>3. task[other].startTime \in Nat /\ currentTime \in Nat
      BY <1>2, SchedulerAssumption DEF Task, Inv, VariablesTypeOK, LoopTypeOK, Time
    <3> QED BY <1>6, <3>1, <3>2, <3>3
  <2>2. /\ task[currentTask].sortIndex = task[currentTask].expirationTime
        /\ task[other].sortIndex = task[other].expirationTime
    BY <1>4, <2>1 DEF Inv, NoTaskLost
  <2>3. other # currentTask => Earlier(currentTask, other)
    BY <1>2, <1>3, <2>1, PeekIsFirst DEF Inv, VariablesTypeOK
  <2>4. currentTask \in Nat /\ other \in Nat
    BY <1>4 DEF TaskIds
  <2> QED BY <2>2, <2>3, <2>4 DEF Earlier
<1>7. /\ \A i \in TaskIds : StatusOf(i) # "running"
      /\ \A i \in TaskIds : StatusOf(i) = "waiting" <=> ~Cancelled(i)
  BY <1>1 DEF StatusOf
<1>8. status' = [status EXCEPT ![id] = "running"]
  <2>1. ASSUME NEW i \in TaskIds
        PROVE  StatusOf(i)' = IF i = currentTask THEN "running" ELSE StatusOf(i)
    BY <1>1, <1>2, <1>4 DEF StatusOf, Cancelled, Task
  <2> QED BY <2>1 DEF status
<1>9. UNCHANGED <<start, expires, created, now, currentTime>>
  <2>1. \A i \in TaskIds : /\ task'[i].startTime = task[i].startTime
                           /\ task'[i].expirationTime = task[i].expirationTime
    BY <1>1, <1>2 DEF Task
  <2> QED BY <1>1, <2>1 DEF start, expires, created
<1>10. /\ status[id] = "waiting" /\ start[id] <= currentTime
       /\ \A other \in TaskIds :
            /\ status[other] # "running"
            /\ status[other] = "waiting" /\ start[other] <= currentTime =>
                 \/ expires[id] < expires[other]
                 \/ (expires[id] = expires[other] /\ id <= other)
  BY <1>1, <1>4, <1>5, <1>6, <1>7 DEF status, start, expires
<1> QED
  BY <1>8, <1>9, <1>10 DEF Promise!Run, Promise!Waiting, Promise!Urgent, status, start,
     expires, created, StatusOf

(* The callback returns or throws: its task is over, or waits again.       *)
LEMMA StopRefines ==
    ASSUME Inv, pc = "callback", pc' # "callback",
           UNCHANGED <<now, taskIdCounter>>, currentTime' \in {currentTime, now},
           NEW resumed \in SUBSET {currentTask}, NEW own \in TaskIds, own = currentTask,
           \A id \in TaskIds :
               /\ task'[id].callback = IF id \in resumed THEN "function" ELSE task[id].callback
               /\ task'[id].startTime = task[id].startTime
               /\ task'[id].expirationTime = task[id].expirationTime
    PROVE  Promise!Stop(own, "over") \/ Promise!Stop(own, "waiting")
<1>1. Cancelled(own)
  BY DEF Inv, NoTaskLost, RunState
<1>2. \A i \in TaskIds :
         StatusOf(i)' = IF i # own THEN StatusOf(i)
                        ELSE IF own \in resumed THEN "waiting" ELSE "over"
  <2>1. SUFFICES ASSUME NEW i \in TaskIds
                 PROVE  StatusOf(i)' = IF i # own THEN StatusOf(i)
                                       ELSE IF own \in resumed THEN "waiting" ELSE "over"
    OBVIOUS
  <2>2. CASE i = own
    BY <1>1, <2>2 DEF StatusOf, Cancelled
  <2>3. CASE i # own
    BY <1>1, <2>3 DEF StatusOf, Cancelled
  <2> QED BY <2>2, <2>3
<1>3. UNCHANGED <<start, expires, created, now>>
  BY DEF start, expires, created
<1>4. status[own] = "running"
  BY DEF status, StatusOf
<1>5. CASE own \in resumed
  <2>1. status' = [status EXCEPT ![own] = "waiting"]
    BY <1>2, <1>5 DEF status
  <2> QED BY <1>3, <1>4, <2>1 DEF Promise!Stop, status, start, expires, created, StatusOf
<1>6. CASE own \notin resumed
  <2>1. status' = [status EXCEPT ![own] = "over"]
    BY <1>2, <1>6 DEF status
  <2> QED BY <1>3, <1>4, <2>1 DEF Promise!Stop, status, start, expires, created, StatusOf
<1> QED
  BY <1>5, <1>6

(* advanceTimers shows nothing but the callbacks it is told to resume ...  *)
LEMMA AdvanceTimersRefines ==
    ASSUME Inv, NEW queue, queue \subseteq taskQueue, NEW resumed, resumed \subseteq taskQueue,
           AdvanceTimers(now, queue, resumed)
    PROVE  \A id \in TaskIds :
               /\ task'[id].callback = IF id \in resumed THEN "function" ELSE task[id].callback
               /\ task'[id].startTime = task[id].startTime
               /\ task'[id].expirationTime = task[id].expirationTime
<1>1. queue \subseteq TaskIds /\ resumed \subseteq TaskIds /\ task \in [TaskIds -> Task]
  BY DEF Inv, VariablesTypeOK, TasksTypeOK
<1>2. Fired(now) \cap resumed = {}
  BY DEF Fired, Inv, NoTaskLost
<1>3. ASSUME NEW id \in TaskIds
      PROVE  task'[id].callback = IF id \in resumed THEN "function" ELSE task[id].callback
  BY <1>1, <1>2, <1>3 DEF AdvanceTimers, Task
<1>4. \A id \in TaskIds : /\ task'[id].startTime = task[id].startTime
                          /\ task'[id].expirationTime = task[id].expirationTime
  BY <1>1, AdvanceTimersFacts DEF Inv, VariablesTypeOK, LoopTypeOK
<1> QED
  BY <1>3, <1>4

(* ... and nothing at all if it is told of none.                           *)
LEMMA AdvanceTimersInvisible ==
    ASSUME Inv, NEW queue, queue \subseteq taskQueue,
           NEW resumed, resumed = {}, AdvanceTimers(now, queue, resumed)
    PROVE  \A id \in TaskIds :
               /\ task'[id].callback = task[id].callback
               /\ task'[id].startTime = task[id].startTime
               /\ task'[id].expirationTime = task[id].expirationTime
BY AdvanceTimersRefines

-----------------------------------------------------------------------------
(* Every step is a step of the promise, or invisible.                      *)
THEOREM NextRefines ==
    ASSUME Inv, ClockState, [Next]_vars
    PROVE  [Promise!Next]_(Promise!vars)
<1> SUFFICES Promise!Next \/ UNCHANGED promiseVars
  BY Mapping DEF Promise!vars, promiseVars, status, start, expires, created, StatusOf
<1>1. ASSUME NEW p \in Priorities, ScheduleCallback(p)
      PROVE  Promise!Next
  <2>1. Promise!Schedule(taskIdCounter, 0, Timeout[p])
    BY <1>1, ScheduleRefines DEF ScheduleCallback, loopVars
  <2>2. taskIdCounter \in TaskIds
    BY <1>1 DEF ScheduleCallback, CreateTask
  <2> QED BY <2>1, <2>2 DEF Promise!Next
<1>2. ASSUME NEW p \in Priorities, NEW delay \in Delays, ScheduleDelayedCallback(p, delay)
      PROVE  Promise!Next
  <2>1. Promise!Schedule(taskIdCounter, delay, Timeout[p])
    BY <1>2, ScheduleRefines DEF ScheduleDelayedCallback, loopVars
  <2>2. taskIdCounter \in TaskIds
    BY <1>2 DEF ScheduleDelayedCallback, CreateTask
  <2> QED BY <2>1, <2>2 DEF Promise!Next
<1>3. ASSUME NEW id \in TaskIds, CancelCallback(id)
      PROVE  Promise!Next \/ UNCHANGED promiseVars
  BY <1>3, CancelRefines DEF Promise!Next
<1>4. CASE \/ PauseExecution \/ ContinueExecution \/ RequestPaint \/ UNCHANGED vars
           \/ \E fps \in FrameRates : ForceFrameRate(fps)
  <2>1. UNCHANGED <<task, taskIdCounter, currentTask, now, pc, currentTime>>
    BY <1>4 DEF PauseExecution, ContinueExecution, RequestPaint, ForceFrameRate, vars,
       taskVars, loopVars
  <2>2. UNCHANGED promiseVars
    BY <2>1 DEF promiseVars, status, start, expires, created, StatusOf, Cancelled
  <2> QED BY <2>2
<1>5. CASE Tick
  <2>1. UNCHANGED <<task, taskIdCounter, currentTask, pc, currentTime>> /\ now' = now + 1
    BY <1>5 DEF Tick, taskVars, loopVars
  <2>2. Promise!Tick
    BY <2>1 DEF Promise!Tick, Cancelled
  <2> QED BY <2>2 DEF Promise!Next
<1>6. CASE PerformWorkUntilDeadline
  <2>1. /\ AdvanceTimers(now, taskQueue, {}) /\ currentTime' = now /\ now' = now
        /\ pc = "idle" /\ pc' = "loop" /\ taskIdCounter' = taskIdCounter
    BY <1>6 DEF PerformWorkUntilDeadline
  <2>2. \A id \in TaskIds : /\ task'[id].callback = task[id].callback
                            /\ task'[id].startTime = task[id].startTime
                            /\ task'[id].expirationTime = task[id].expirationTime
    BY <2>1, AdvanceTimersInvisible
  <2>3. UNCHANGED <<status, start, expires, created, now>>
    BY <2>1, <2>2 DEF status, start, expires, created, StatusOf, Cancelled
  <2>4. Promise!LookAtClock
    BY <2>1, <2>3 DEF Promise!LookAtClock, status, start, expires, created, StatusOf
  <2> QED BY <2>4 DEF Promise!Next
<1>7. CASE WorkLoopYield \/ WorkLoopDone \/ DropCancelledTask
  <2>1. /\ UNCHANGED <<task, now, taskIdCounter, currentTime>>
        /\ pc # "callback" /\ pc' # "callback"
    BY <1>7 DEF WorkLoopYield, WorkLoopDone, DropCancelledTask, MayContinue, InLoop,
       LeaveFlushWork, taskVars
  <2> QED BY <2>1, Invisible
<1>8. CASE RunTask
  <2>1. currentTask \in TaskIds
    BY <1>8 DEF RunTask, MayContinue, InLoop, Inv, VariablesTypeOK, LoopTypeOK
  <2>2. PICK id \in TaskIds : id = currentTask
    BY <2>1
  <2>3. Promise!Run(id)
    BY <1>8, <2>2, RunTaskRefines
  <2> QED BY <2>3 DEF Promise!Next
<1>9. ASSUME NEW resumed \in SUBSET {currentTask}, pc = "callback", pc' # "callback",
             UNCHANGED <<now, taskIdCounter>>, currentTime' \in {currentTime, now},
             \A id \in TaskIds :
                 /\ task'[id].callback = IF id \in resumed THEN "function"
                                         ELSE task[id].callback
                 /\ task'[id].startTime = task[id].startTime
                 /\ task'[id].expirationTime = task[id].expirationTime
      PROVE  Promise!Next
  <2>1. PICK own \in TaskIds : own = currentTask
    BY <1>9 DEF Inv, NoTaskLost, VariablesTypeOK, TasksTypeOK
  <2>2. Promise!Stop(own, "over") \/ Promise!Stop(own, "waiting")
    BY <1>9, <2>1, StopRefines
  <2> QED BY <2>2 DEF Promise!Next
<1>10. ASSUME NEW id \in TaskIds, CompleteTask(id)
       PROVE  Promise!Next
  <2>1. PopCompleted(id) \subseteq taskQueue
    BY DEF PopCompleted
  <2>2. \A i \in TaskIds : /\ task'[i].callback = task[i].callback
                           /\ task'[i].startTime = task[i].startTime
                           /\ task'[i].expirationTime = task[i].expirationTime
    BY <1>10, <2>1, AdvanceTimersInvisible DEF CompleteTask
  <2>3. /\ pc = "callback" /\ pc' # "callback" /\ UNCHANGED <<now, taskIdCounter>>
        /\ currentTime' = now
    BY <1>10 DEF CompleteTask, CallbackReturned
  <2>4. {} \in SUBSET {currentTask}
    OBVIOUS
  <2> QED BY <1>9, <2>2, <2>3, <2>4
<1>11. CASE ContinueTask
  <2>1. /\ pc = "callback" /\ pc' # "callback" /\ UNCHANGED <<now, taskIdCounter>>
        /\ currentTime' = now /\ AdvanceTimers(now, taskQueue, {currentTask})
    BY <1>11 DEF ContinueTask, CallbackReturned
  <2>2. {currentTask} \subseteq taskQueue
    BY <2>1 DEF Inv, NoTaskLost
  <2>3. \A i \in TaskIds :
           /\ task'[i].callback = IF i \in {currentTask} THEN "function" ELSE task[i].callback
           /\ task'[i].startTime = task[i].startTime
           /\ task'[i].expirationTime = task[i].expirationTime
    BY <2>1, <2>2, AdvanceTimersRefines
  <2> QED BY <1>9, <2>1, <2>3
<1>12. CASE ThrowTask
  <2>1. /\ pc = "callback" /\ pc' # "callback"
        /\ UNCHANGED <<task, now, taskIdCounter, currentTime>>
    BY <1>12 DEF ThrowTask, LeaveFlushWork, taskVars
  <2>2. {} \in SUBSET {currentTask}
    OBVIOUS
  <2> QED BY <1>9, <2>1, <2>2
<1>13. CASE AnyTimeoutFires
  <2>1. PICK id, leaked : HandleTimeout(id, leaked) /\ pc = "idle"
    BY <1>13 DEF AnyTimeoutFires, TimeoutFires, LeakedTimeoutFires
  <2>2. /\ AdvanceTimers(now, taskQueue, {})
        /\ UNCHANGED <<now, taskIdCounter, currentTime, pc>>
    BY <2>1 DEF HandleTimeout, loopVars
  <2>3. \A i \in TaskIds : /\ task'[i].callback = task[i].callback
                           /\ task'[i].startTime = task[i].startTime
                           /\ task'[i].expirationTime = task[i].expirationTime
    BY <2>2, AdvanceTimersInvisible
  <2> QED BY <2>1, <2>2, <2>3, Invisible
<1> QED
  BY <1>1, <1>2, <1>3, <1>4, <1>5, <1>6, <1>7, <1>8, <1>10, <1>11, <1>12, <1>13
  DEF Next, UserStep, LoopStep

(* The scheduler keeps its promise: tasks run one at a time, in the order  *)
(* of expiration among those that have started, none early and none again  *)
(* (scheduleCallback, workLoop, advanceTimers).                            *)
THEOREM PromiseKept == Spec => KeepsPromise
<1>1. Init => Inv /\ ClockState
  BY InitInv, InitClock
<1>2. Inv /\ ClockState /\ [Next]_vars => Inv' /\ ClockState'
  BY NextInv, NextClock
<1>3. Inv /\ ClockState /\ [Next]_vars => [Promise!Next]_(Promise!vars)
  BY NextRefines
<1> QED
  BY <1>1, <1>2, <1>3, InitRefines, PTL DEF Spec, KeepsPromise, Promise!Spec
=============================================================================
