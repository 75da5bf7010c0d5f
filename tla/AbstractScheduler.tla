-------------------------- MODULE AbstractScheduler --------------------------
(***************************************************************************)
(* What packages/scheduler promises its callers, without queues, messages  *)
(* or timeouts: tasks wait, run one at a time, and finish or wait again.   *)
(* A task runs only if it has started and if, among the waiting tasks that *)
(* had started when the scheduler last looked at the clock, it expires     *)
(* first (the older one if two expire together).  A task that has finished *)
(* or been cancelled never runs again.                                     *)
(***************************************************************************)
EXTENDS Integers

CONSTANTS TaskIds, Delays, Timeouts

VARIABLES status, start, expires, created, now, observed

vars == <<status, start, expires, created, now, observed>>

Status == {"waiting", "running", "over"}

Init ==
    /\ created = {} /\ now = 0 /\ observed = 0
    /\ status  = [id \in TaskIds |-> "over"]
    /\ start   = [id \in TaskIds |-> 0]
    /\ expires = [id \in TaskIds |-> 0]

(* A new task is younger than all the others.                              *)
Schedule(id, delay, timeout) ==
    /\ \A other \in created : other < id
    /\ created' = created \cup {id}
    /\ status'  = [status  EXCEPT ![id] = "waiting"]
    /\ start'   = [start   EXCEPT ![id] = now + delay]
    /\ expires' = [expires EXCEPT ![id] = now + delay + timeout]
    /\ UNCHANGED <<now, observed>>

Waiting(id) == status[id] = "waiting"

Urgent(id, other) ==
    \/ expires[id] < expires[other]
    \/ expires[id] = expires[other] /\ id <= other

Run(id) ==
    /\ Waiting(id) /\ start[id] <= observed
    /\ \A other \in TaskIds :
          /\ status[other] # "running"
          /\ Waiting(other) /\ start[other] <= observed => Urgent(id, other)
    /\ status' = [status EXCEPT ![id] = "running"]
    /\ UNCHANGED <<start, expires, created, now, observed>>

(* The scheduler looks at the clock before it chooses and after each run.  *)
LookAtClock ==
    /\ observed' = now
    /\ UNCHANGED <<status, start, expires, created, now>>

(* A run ends, in a return or a throw, or with a continuation.             *)
Stop(id, next) ==
    /\ status[id] = "running"
    /\ status' = [status EXCEPT ![id] = next]
    /\ observed' \in {observed, now}
    /\ UNCHANGED <<start, expires, created, now>>

(* To cancel a running task has no effect.                                 *)
Cancel(id) ==
    /\ Waiting(id)
    /\ status' = [status EXCEPT ![id] = "over"]
    /\ UNCHANGED <<start, expires, created, now, observed>>

Tick == now' = now + 1 /\ UNCHANGED <<status, start, expires, created, observed>>

Next ==
    \/ \E id \in TaskIds :
          \/ \E delay \in Delays, timeout \in Timeouts : Schedule(id, delay, timeout)
          \/ Run(id)
          \/ Stop(id, "over")
          \/ Stop(id, "waiting")
          \/ Cancel(id)
    \/ LookAtClock
    \/ Tick

Spec == Init /\ [][Next]_vars
=============================================================================
