\* Two tasks of two priorities, with isInputPending, pausing and forced frame rates.
SPECIFICATION FairSpec
CONSTANTS
    MaxTasks = 2
    MaxTime = 2
    MaxLeaks = 1
    Priorities <- TwoPriorities
    NormalPriority = "Normal"
    Timeout <- TwoTimeouts
    Delays = {1}
    Second = 2
    FrameRates = {0, 1, 126}
    frameYieldMs = 1
    maxInterval = 2
    enableSchedulerDebugging = TRUE
    enableIsInputPending = TRUE
INVARIANTS
    TypeOK
    MessageLoop
    NoLostWakeup
    TimerArmed
    TimeoutFlagHonest
    NoTaskLost
PROPERTY
    KeepsPromise
    EventuallyRun
CHECK_DEADLOCK FALSE
