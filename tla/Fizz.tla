--------------------------------- MODULE Fizz ---------------------------------
(***************************************************************************)
(* ReactFizzServer: a request renders a tree into segments, suspends on    *)
(* promises, and streams what is ready to a destination that may push      *)
(* back, while the user may pipe late, and abort.                          *)
(*                                                                         *)
(* What is rendered is left open: at each node the tree may suspend, open  *)
(* a Suspense boundary, throw or end.  A segment is what it is a part of   *)
(* and what has become of it; its HTML is left out.  A task is named by    *)
(* the segment it writes to.  Entry Root of `suspense' stands for the      *)
(* request where it plays the part of a boundary: pendingRootTasks,        *)
(* abortableTasks and completedRootSegment.  `calls' is what the           *)
(* JavaScript stack has left to do; user code may run between two calls.   *)
(*                                                                         *)
(* A boundary's id and rootSegmentID are always assigned together, one of  *)
(* each per wrapper: both are the number of the wrapper they are written   *)
(* in.  A content segment has the rootSegmentID it was sent under.  That   *)
(* of a placeholder is 1: no two segments share an id.                     *)
(***************************************************************************)
EXTENDS Integers, SequencesExt

CONSTANTS
    MaxSegments,    \* bound on the segments of the tree
    MaxFaulty,      \* ... if a component throws or the user aborts
    MaxBoundaries,  \* bound on its Suspense boundaries
    MaxRetries      \* bound on the tasks that suspend again at once

ASSUME FizzAssumption ==
    /\ MaxSegments \in Nat \ {0} /\ MaxFaulty \in Nat
    /\ MaxBoundaries \in Nat /\ MaxRetries \in Nat

VARIABLES
    segment,          \* the segments, each with the task that writes to it
    segments,         \* how many there are
    suspense,         \* the boundaries, and the request at Root
    boundaries,       \* how many there are
    allPendingTasks, pingedTasks,
    clientRenderedBoundaries, completedBoundaries, partialBoundaries,
    requestStatus,    \* request.status
    flowing,          \* is request.destination set?
    calls,            \* the calls under way or waiting on the stack
    next,             \* the index of performWork's loop, 0 outside of it
    running,          \* the task that renders, NoTask outside of retryTask
    opened,           \* the boundaries whose content it is rendering
    started,          \* has it written or spawned anything?
    scheduled,        \* how many performWork the host has been asked for
    piped, aborted,   \* has the user called pipe, and abort?
    ended,            \* how the destination was ended
    client,           \* what the browser has been told of each boundary last
    wrappers,         \* the wrappers it has of each, and what became of them
    thrown,           \* has an internal check failed?
    retries           \* how often a task suspended again

segmentVars == <<segment, segments>>
boundaryVars == <<suspense, boundaries>>
queueVars == <<clientRenderedBoundaries, completedBoundaries, partialBoundaries>>
renderVars == <<running, opened, started, retries>>
outVars == <<requestStatus, flowing, ended, client, wrappers, thrown>>
userVars == <<piped, aborted>>
vars == <<segmentVars, boundaryVars, allPendingTasks, pingedTasks, queueVars, outVars,
          calls, next, renderVars, scheduled, userVars>>

Segments == 1..MaxSegments
Boundaries == 1..MaxBoundaries
Root == 0
RootSegment == 1
NoTask == 0
NoSegment == 0
NoBoundary == 0
NoID == 0

NewSegment == [status |-> "PENDING", parentFlushed |-> FALSE, id |-> NoID,
               parent |-> NoSegment, boundary |-> NoBoundary,
               task |-> FALSE, blockedBoundary |-> Root, abortSet |-> Root,
               suspended |-> FALSE]

NewBoundary == [pendingTasks |-> 0, forceClientRender |-> FALSE, parentFlushed |-> FALSE,
                completedSegments |-> << >>, fallbackAbortableTasks |-> {},
                rootSegmentID |-> NoID, outer |-> Root,
                fallback |-> NoSegment, content |-> NoSegment]

Call(f, x) == [f |-> f, x |-> x]
CallAll(f, order) == [i \in DOMAIN order |-> Call(f, order[i])]
Flush == << Call("flushRoot", 0) >>

(* Nothing runs: the host may run a task of its own. *)
Idle == calls = << >> /\ next = 0 /\ running = NoTask

(* createRequest and startWork *)
Init ==
    /\ segment = [s \in Segments |->
                    IF s = RootSegment
                    THEN [NewSegment EXCEPT !.parentFlushed = TRUE, !.task = TRUE]
                    ELSE NewSegment]
    /\ suspense = [b \in Boundaries \cup {Root} |->
                     IF b = Root
                     THEN [NewBoundary EXCEPT !.pendingTasks = 1,
                                              !.fallbackAbortableTasks = {RootSegment}]
                     ELSE NewBoundary]
    /\ segments = 1 /\ boundaries = 0
    /\ allPendingTasks = 1 /\ pingedTasks = <<RootSegment>>
    /\ clientRenderedBoundaries = << >> /\ completedBoundaries = << >>
    /\ partialBoundaries = << >>
    /\ requestStatus = "OPEN" /\ flowing = FALSE
    /\ calls = << >> /\ next = 0 /\ running = NoTask /\ opened = << >> /\ started = FALSE
    /\ scheduled = 1 /\ piped = FALSE /\ aborted = FALSE /\ ended = "no"
    /\ client = [b \in Boundaries |-> "none"]
    /\ wrappers = [b \in Boundaries |-> << >>]
    /\ thrown = FALSE /\ retries = 0

-----------------------------------------------------------------------------
(* Rendering: one node at a time.                                          *)

Rendering == running # NoTask /\ calls = << >>
CurrentBoundary == IF opened = << >> THEN segment[running].blockedBoundary ELSE Last(opened)
CurrentSegment == IF opened = << >> THEN running ELSE suspense[Last(opened)].content

(* The bound on trees in which something goes wrong.                       *)
FaultsHappen == segments <= MaxFaulty
MayGrowTo(n) ==
    n <= MaxFaulty \/ ~(aborted \/ \E s \in Segments : segment[s].status = "ERRORED")

(* createTask for a segment, blocked on b and in the abort set of set.     *)
WithTask(b, set, s) ==
    [suspense EXCEPT ![b].pendingTasks = @ + 1,
                     ![set].fallbackAbortableTasks = @ \cup {s}]

(* A node that suspends once others were rendered, or below an array or an *)
(* element, is left to a task of its own.                                  *)
SpawnNewSuspendedTask ==
    LET s == segments + 1 IN
    /\ Rendering /\ s \in Segments /\ MayGrowTo(s)
    /\ segments' = s
    /\ segment' = [segment EXCEPT ![s] =
                     [NewSegment EXCEPT !.parent = CurrentSegment, !.task = TRUE,
                                        !.blockedBoundary = CurrentBoundary,
                                        !.abortSet = segment[running].abortSet,
                                        !.suspended = TRUE]]
    /\ suspense' = WithTask(CurrentBoundary, segment[running].abortSet, s)
    /\ allPendingTasks' = allPendingTasks + 1
    /\ started' = TRUE
    /\ UNCHANGED <<boundaries, pingedTasks, queueVars, outVars, calls, next, running, opened,
                   retries, scheduled, userVars>>

(* The node the task started with suspends: the task waits again.          *)
SuspendAgain ==
    /\ Rendering /\ ~started /\ retries < MaxRetries
    /\ retries' = retries + 1
    /\ segment' = [segment EXCEPT ![running].suspended = TRUE]
    /\ running' = NoTask
    /\ UNCHANGED <<segments, boundaryVars, allPendingTasks, pingedTasks, queueVars, outVars,
                   calls, next, opened, started, scheduled, userVars>>

(* renderSuspenseBoundary, up to the rendering of the content.             *)
OpenSuspenseBoundary ==
    LET b == boundaries + 1
        fallback == segments + 1
        content == segments + 2
    IN
    /\ Rendering /\ b \in Boundaries /\ content \in Segments /\ MayGrowTo(content)
    /\ boundaries' = b /\ segments' = content
    /\ segment' = [segment EXCEPT
         ![fallback] = [NewSegment EXCEPT !.parent = CurrentSegment, !.boundary = b],
         ![content]  = [NewSegment EXCEPT !.parentFlushed = TRUE]]
    /\ suspense' = [suspense EXCEPT ![b] =
         [NewBoundary EXCEPT !.outer = CurrentBoundary,
                             !.fallback = fallback, !.content = content]]
    /\ opened' = Append(opened, b) /\ started' = TRUE
    /\ UNCHANGED <<allPendingTasks, pingedTasks, queueVars, outVars, calls, next, running,
                   retries, scheduled, userVars>>

(* ... its end, after the content was rendered or threw an error.  The     *)
(* fallback is not needed if everything is there.                          *)
FallbackTask(b, content) ==
    LET s == suspense[b].fallback IN
    /\ segment' = [segment EXCEPT
         ![suspense[b].content].status = content,
         ![s].task = TRUE, ![s].blockedBoundary = suspense[b].outer, ![s].abortSet = b]
    /\ allPendingTasks' = allPendingTasks + 1
    /\ pingedTasks' = Append(pingedTasks, s)

CloseSuspenseBoundary ==
    LET b == Last(opened) IN
    /\ Rendering /\ opened # << >>
    /\ opened' = Front(opened)
    /\ IF suspense[b].pendingTasks = 0
       THEN /\ segment' = [segment EXCEPT ![suspense[b].content].status = "COMPLETED"]
            /\ suspense' = [suspense EXCEPT ![b].completedSegments = <<suspense[b].content>>]
            /\ UNCHANGED <<allPendingTasks, pingedTasks>>
       ELSE /\ FallbackTask(b, "COMPLETED")
            /\ suspense' = [WithTask(suspense[b].outer, b, suspense[b].fallback)
                              EXCEPT ![b].completedSegments = <<suspense[b].content>>]
    /\ UNCHANGED <<segments, boundaries, queueVars, outVars, calls, next, running, started,
                   retries, scheduled, userVars>>

ContentThrows ==
    LET b == Last(opened) IN
    /\ FaultsHappen /\ Rendering /\ opened # << >>
    /\ opened' = Front(opened)
    /\ FallbackTask(b, "ERRORED")
    /\ suspense' = [WithTask(suspense[b].outer, b, suspense[b].fallback)
                      EXCEPT ![b].forceClientRender = TRUE]
    /\ UNCHANGED <<segments, boundaries, queueVars, outVars, calls, next, running, started,
                   retries, scheduled, userVars>>

-----------------------------------------------------------------------------
(* The end of a task.                                                      *)

(* startFlowing, and then the calls of rest.                               *)
StartFlowing(rest) ==
    \/ /\ requestStatus = "CLOSING"
       /\ requestStatus' = "CLOSED" /\ ended' = "error" /\ calls' = rest
       /\ UNCHANGED flowing
    \/ /\ requestStatus = "CLOSED" /\ calls' = rest
       /\ UNCHANGED <<requestStatus, flowing, ended>>
    \/ /\ requestStatus = "OPEN"
       /\ flowing' = TRUE /\ calls' = Flush \o rest
       /\ UNCHANGED <<requestStatus, ended>>

(* onCompleteShell and onCompleteAll, in which the user may pipe.          *)
Callback(called, rest) ==
    \/ called /\ ~piped /\ piped' = TRUE /\ StartFlowing(rest)
    \/ calls' = rest /\ UNCHANGED <<piped, requestStatus, flowing, ended>>

FatalError ==
    IF flowing
    THEN requestStatus' = "CLOSED" /\ ended' = "error"
    ELSE requestStatus' = "CLOSING" /\ UNCHANGED ended

TaskDone == << Call("taskDone", 0) >>

(* finishedTask for a task of the root.                                    *)
FinishedRootTask(s, sus, rest) ==
    LET left == sus[Root].pendingTasks - 1 IN
    /\ suspense' = [sus EXCEPT
         ![Root].pendingTasks = left,
         ![Root].completedSegments = IF segment[s].parentFlushed THEN <<s>> ELSE @]
    /\ thrown' = (thrown \/ (segment[s].parentFlushed /\ sus[Root].completedSegments # << >>))
    /\ Callback(left = 0, TaskDone \o rest)
    /\ UNCHANGED <<completedBoundaries, partialBoundaries>>

(* ... and of a boundary: it may be complete, or have a new segment that   *)
(* can be sent ahead.                                                      *)
LastTask(left, b, sus) ==   \* mutant
    left = 0

Completes(left, b, sus) ==
    left = 0 /\ ~sus[b].forceClientRender

FinishedBoundaryTask(s, status, b, sus, rest) ==
    LET left == sus[b].pendingTasks - 1
        complete == Completes(left, b, sus)
        send == segment[s].parentFlushed /\ status = "COMPLETED" /\ ~sus[b].forceClientRender
        ready == IF send THEN Append(sus[b].completedSegments, s) ELSE sus[b].completedSegments
    IN
    /\ suspense' = [sus EXCEPT ![b].pendingTasks = left, ![b].completedSegments = ready]
    /\ completedBoundaries' =
         IF complete /\ sus[b].parentFlushed THEN Append(completedBoundaries, b)
                                             ELSE completedBoundaries
    /\ partialBoundaries' =
         IF ~complete /\ send /\ Len(ready) = 1 /\ sus[b].parentFlushed
         THEN Append(partialBoundaries, b) ELSE partialBoundaries
    /\ IF complete
       THEN \E order \in SetToSeqs(sus[b].fallbackAbortableTasks) :
               calls' = CallAll("abortTaskSoft", order) \o << Call("clear", b) >>
                          \o TaskDone \o rest
       ELSE calls' = TaskDone \o rest
    /\ UNCHANGED <<piped, requestStatus, flowing, ended, thrown>>

FinishedTask(s, status, sus, rest) ==
    LET b == segment[s].blockedBoundary IN
    /\ segment' = [segment EXCEPT ![s].status = status]
    /\ IF b = Root THEN FinishedRootTask(s, sus, rest)
                   ELSE FinishedBoundaryTask(s, status, b, sus, rest)
    /\ UNCHANGED <<segments, boundaries, allPendingTasks, clientRenderedBoundaries, client,
                   wrappers, aborted>>

WithTaskKept(s) ==   \* mutant
    suspense

(* What task s is deleted from when it ends in retryTask.                  *)
WithoutTask(s) ==
    [suspense EXCEPT ![segment[s].abortSet].fallbackAbortableTasks = @ \ {s}]

FinishTask ==
    /\ Rendering /\ opened = << >>
    /\ running' = NoTask
    /\ FinishedTask(running, "COMPLETED", WithoutTask(running), << >>)
    /\ UNCHANGED <<pingedTasks, next, opened, started, retries, scheduled>>

ForceClientRenderAgain(b, sus) ==   \* mutant
    /\ suspense' = [sus EXCEPT ![b].pendingTasks = @ - 1, ![b].forceClientRender = TRUE]
    /\ clientRenderedBoundaries' =
         IF sus[b].parentFlushed THEN Append(clientRenderedBoundaries, b)
                                 ELSE clientRenderedBoundaries

ForceClientRenderSilently(b, sus) ==   \* mutant
    /\ suspense' = [sus EXCEPT ![b].pendingTasks = @ - 1, ![b].forceClientRender = TRUE]
    /\ UNCHANGED clientRenderedBoundaries

(* erroredTask: the boundary is left to the client.                        *)
ForceClientRender(b, sus) ==
    /\ suspense' = [sus EXCEPT ![b].pendingTasks = @ - 1, ![b].forceClientRender = TRUE]
    /\ clientRenderedBoundaries' =
         IF ~sus[b].forceClientRender /\ sus[b].parentFlushed
         THEN Append(clientRenderedBoundaries, b) ELSE clientRenderedBoundaries

TaskThrows ==
    LET b == segment[running].blockedBoundary IN
    /\ FaultsHappen /\ Rendering /\ opened = << >>
    /\ running' = NoTask
    /\ segment' = [segment EXCEPT ![running].status = "ERRORED"]
    /\ IF b = Root
       THEN /\ FatalError /\ suspense' = WithoutTask(running)
            /\ UNCHANGED clientRenderedBoundaries
       ELSE /\ ForceClientRender(b, WithoutTask(running))
            /\ UNCHANGED <<requestStatus, ended>>
    /\ calls' = TaskDone
    /\ UNCHANGED <<segments, boundaries, allPendingTasks, pingedTasks, completedBoundaries,
                   partialBoundaries, flowing, client, wrappers, thrown, next, opened, started,
                   retries, scheduled, userVars>>

(* The call at the top of the stack.                                       *)
Calls(f) == calls # << >> /\ Head(calls).f = f
Arg == Head(calls).x
Rest == Tail(calls)

AbortTaskSoft ==
    /\ Calls("abortTaskSoft")
    /\ FinishedTask(Arg, "ABORTED", suspense, Rest)
    /\ UNCHANGED <<pingedTasks, next, renderVars, scheduled>>

(* abortTask.  If the root is aborted there is nothing to show.            *)
AbortTask ==
    LET b == segment[Arg].blockedBoundary IN
    /\ Calls("abortTask")
    /\ segment' = [segment EXCEPT ![Arg].status = "ABORTED"]
    /\ IF b = Root
       THEN /\ allPendingTasks' = allPendingTasks - 1
            /\ requestStatus' = "CLOSED"
            /\ ended' = IF requestStatus # "CLOSED" /\ flowing /\ ended = "no"
                        THEN "aborted" ELSE ended
            /\ calls' = Rest
            /\ UNCHANGED <<suspense, clientRenderedBoundaries>>
       ELSE /\ ForceClientRender(b, suspense)
            /\ \E order \in SetToSeqs(suspense[b].fallbackAbortableTasks) :
                  calls' = CallAll("abortTask", order) \o << Call("clear", b) >>
                             \o TaskDone \o Rest
            /\ UNCHANGED <<allPendingTasks, requestStatus, ended>>
    /\ UNCHANGED <<segments, boundaries, pingedTasks, completedBoundaries, partialBoundaries,
                   flowing, client, wrappers, thrown, next, renderVars, scheduled, userVars>>

KeepAbortableTasks ==   \* mutant
    /\ Calls("clear")
    /\ calls' = Rest
    /\ UNCHANGED <<segmentVars, boundaryVars, allPendingTasks, pingedTasks, queueVars, outVars,
                   next, renderVars, scheduled, userVars>>

(* fallbackAbortableTasks.clear(), and abortableTasks.clear()              *)
ClearAbortableTasks ==
    /\ Calls("clear")
    /\ suspense' = [suspense EXCEPT ![Arg].fallbackAbortableTasks = {}]
    /\ calls' = Rest
    /\ UNCHANGED <<segmentVars, boundaries, allPendingTasks, pingedTasks, queueVars, outVars,
                   next, renderVars, scheduled, userVars>>

(* The end of finishedTask, erroredTask and abortTask.                     *)
UncountTask ==
    /\ Calls("taskDone")
    /\ allPendingTasks' = allPendingTasks - 1
    /\ Callback(allPendingTasks = 1, Rest)
    /\ UNCHANGED <<segmentVars, boundaryVars, pingedTasks, queueVars, client, wrappers, thrown,
                   next, renderVars, scheduled, aborted>>

-----------------------------------------------------------------------------
(* Flushing: flushCompletedQueues, one item of a queue at a time.          *)

Children(s) == {c \in 1..segments : segment[c].parent = s}

(* Is the boundary still loading?                                          *)
Loading(b) == suspense[b].pendingTasks > 0

(* Does segment s stand for a boundary whose content is there already?  No *)
(* boundary is too large for that: nothing ever adds to byteSize.          *)
Inlined(s) ==
    LET b == segment[s].boundary IN
    b # NoBoundary /\ ~suspense[b].forceClientRender /\ ~Loading(b)

(* The segments that flushSegment(s) goes on to, and all that it comes to. *)
Visits(s) ==
    IF Inlined(s) THEN ToSet(suspense[segment[s].boundary].completedSegments)
    ELSE IF segment[s].status = "COMPLETED" THEN Children(s) ELSE {}

Walk[s \in Segments] == {s} \cup UNION {Walk[c] : c \in Visits(s)}

ClientOf(b) == IF suspense[b].forceClientRender THEN "client"
               ELSE IF Loading(b) THEN "pending" ELSE "completed"

(* The id segment s is sent under when boundary b flushes it by itself.    *)
SegmentID(s, b) == IF segment[s].id = NoID THEN suspense[b].rootSegmentID ELSE segment[s].id

(* flushSegment for each segment of starts, which boundary b has ready;    *)
(* after is the state without what is taken from it.  If an internal check *)
(* fails, the flush ends in an error.                                      *)
WriteSegments(b, starts, after, then, full) ==
    LET walked  == UNION {Walk[s] : s \in starts}
        written == {s \in walked : ~Inlined(s)}
        met     == {segment[s].boundary : s \in walked} \ {NoBoundary}
        pending == {x \in met : ClientOf(x) = "pending"}
        early   == {x \in pending : suspense[x].completedSegments # << >>}
        fails   == \/ \E s \in written : segment[s].status \notin {"PENDING", "COMPLETED"}
                   \/ \E s \in walked : Inlined(s) /\
                         Len(suspense[segment[s].boundary].completedSegments) # 1
                   \/ \E s \in starts : b # Root /\ SegmentID(s, b) = NoID
    IN
    \/ /\ fails
       /\ thrown' = TRUE
       /\ calls' = << Call("flushEnd", 0), Call("fatalError", 0) >> \o Rest
       /\ UNCHANGED <<segment, suspense, client, wrappers, completedBoundaries,
                      partialBoundaries, flowing>>
    \/ /\ ~fails
       /\ segment' = [s \in Segments |->
            IF s \notin written THEN segment[s]
            ELSE [segment[s] EXCEPT
                    !.parentFlushed = TRUE,
                    !.id = IF s \in starts THEN SegmentID(s, b)
                           ELSE IF segment[s].status = "PENDING" THEN 1 ELSE @,
                    !.status = IF @ = "COMPLETED" THEN "FLUSHED" ELSE @]]
       /\ suspense' = [x \in DOMAIN suspense |->
            [suspense[x] EXCEPT
               !.completedSegments = IF x = b THEN after.ready ELSE @,
               !.parentFlushed = @ \/ x \in met,
               !.rootSegmentID = IF x \in pending THEN Len(wrappers[x]) + 1 ELSE @]]
       /\ client' = [x \in Boundaries |-> IF x \in met THEN ClientOf(x) ELSE after.client[x]]
       /\ wrappers' = [x \in Boundaries |->
            IF x \in met THEN Append(after.wrappers[x], ClientOf(x)) ELSE after.wrappers[x]]
       /\ completedBoundaries' = after.completed
       /\ \E order \in SetToSeqs(early) : partialBoundaries' = after.partial \o order
       /\ calls' = << Call(IF full THEN "flushEnd" ELSE then, 0) >> \o Rest
       /\ flowing' = ~full
       /\ UNCHANGED thrown

NothingTaken(b) ==
    [ready |-> suspense[b].completedSegments, client |-> client,
     wrappers |-> wrappers, completed |-> completedBoundaries, partial |-> partialBoundaries]

(* The segments that were not flushed inline before.                       *)
Unflushed(set) == {s \in set : segment[s].status # "FLUSHED"}

(* The id under which the content of boundary b has been sent when what it *)
(* has ready is written.                                                   *)
ContentID(b) ==
    LET content == suspense[b].content IN
    IF content \in Unflushed(ToSet(suspense[b].completedSegments))
    THEN SegmentID(content, b) ELSE segment[content].id

(* completeBoundary in the browser: it looks the content up by its id, and *)
(* fails if it is not there.                                               *)
CompleteBoundary(b) ==
    IF ContentID(b) = suspense[b].rootSegmentID
    THEN [wrappers EXCEPT ![b][suspense[b].rootSegmentID] = "completed"]
    ELSE wrappers

(* clientRenderBoundary in the browser *)
ClientRenderBoundary(b) == [wrappers EXCEPT ![b][suspense[b].rootSegmentID] = "client"]

FlushRoot ==
    LET root == ToSet(suspense[Root].completedSegments) IN
    /\ Calls("flushRoot")
    /\ \/ /\ ~flowing /\ calls' = Rest
          /\ UNCHANGED <<segment, suspense, client, wrappers, thrown, completedBoundaries,
                         partialBoundaries, flowing>>
       \/ /\ flowing /\ suspense[Root].pendingTasks # 0
          /\ calls' = << Call("flushClientRendered", 0) >> \o Rest
          /\ UNCHANGED <<segment, suspense, client, wrappers, thrown, completedBoundaries,
                         partialBoundaries, flowing>>
       \/ /\ flowing /\ suspense[Root].pendingTasks = 0
          /\ WriteSegments(Root, root, [NothingTaken(Root) EXCEPT !.ready = << >>],
                           "flushClientRendered", FALSE)
    /\ UNCHANGED <<segments, boundaries, allPendingTasks, pingedTasks, clientRenderedBoundaries,
                   requestStatus, ended, next, renderVars, scheduled, userVars>>

FlushClientRenderedBoundary ==
    /\ Calls("flushClientRendered") /\ clientRenderedBoundaries # << >>
    /\ clientRenderedBoundaries' = Tail(clientRenderedBoundaries)
    /\ client' = [client EXCEPT ![Head(clientRenderedBoundaries)] = "client"]
    /\ wrappers' = ClientRenderBoundary(Head(clientRenderedBoundaries))
    /\ \/ UNCHANGED <<calls, flowing>>
       \/ calls' = << Call("flushEnd", 0) >> \o Rest /\ flowing' = FALSE
    /\ UNCHANGED <<segmentVars, boundaryVars, allPendingTasks, pingedTasks, completedBoundaries,
                   partialBoundaries, requestStatus, ended, thrown, next, renderVars,
                   scheduled, userVars>>

FlushCompletedBoundary ==
    LET b == Head(completedBoundaries) IN
    /\ Calls("flushCompleted") /\ completedBoundaries # << >>
    /\ \E full \in BOOLEAN :
          WriteSegments(b, Unflushed(ToSet(suspense[b].completedSegments)),
                        [ready |-> << >>, client |-> [client EXCEPT ![b] = "completed"],
                         wrappers |-> CompleteBoundary(b), completed |-> Tail(completedBoundaries),
                         partial |-> partialBoundaries],
                        "flushCompleted", full)
    /\ UNCHANGED <<segments, boundaries, allPendingTasks, pingedTasks, clientRenderedBoundaries,
                   requestStatus, ended, next, renderVars, scheduled, userVars>>

(* flushPartialBoundary, one segment at a time.  If the destination is     *)
(* full the boundary leaves the queue with what it still has ready.        *)
FlushPartialBoundary ==
    LET b == Head(partialBoundaries)
        ready == suspense[b].completedSegments
    IN
    /\ Calls("flushPartial") /\ partialBoundaries # << >>
    /\ \/ /\ ready = << >>
          /\ partialBoundaries' = Tail(partialBoundaries)
          /\ UNCHANGED <<segment, suspense, client, wrappers, thrown, calls,
                         completedBoundaries, flowing>>
       \/ /\ ready # << >>
          /\ \E full \in BOOLEAN :
                /\ full => Unflushed({Head(ready)}) # {}
                /\ WriteSegments(b, Unflushed({Head(ready)}),
                     [NothingTaken(b) EXCEPT !.ready = Tail(ready),
                        !.partial = IF full THEN Tail(partialBoundaries) ELSE @],
                     "flushPartial", full)
    /\ UNCHANGED <<segments, boundaries, allPendingTasks, pingedTasks, clientRenderedBoundaries,
                   requestStatus, ended, next, renderVars, scheduled, userVars>>

(* From one queue to the next.                                             *)
NextQueue ==
    /\ \/ /\ Calls("flushClientRendered") /\ clientRenderedBoundaries = << >>
          /\ calls' = << Call("flushCompleted", 0) >> \o Rest
       \/ /\ Calls("flushCompleted") /\ completedBoundaries = << >>
          /\ calls' = << Call("flushPartial", 0) >> \o Rest
       \/ /\ Calls("flushPartial") /\ partialBoundaries = << >>
          /\ calls' = << Call("flushEnd", 0) >> \o Rest
    /\ UNCHANGED <<segmentVars, boundaryVars, allPendingTasks, pingedTasks, queueVars, outVars,
                   next, renderVars, scheduled, userVars>>

NothingLeft ==
    /\ allPendingTasks = 0 /\ pingedTasks = << >>
    /\ clientRenderedBoundaries = << >> /\ completedBoundaries = << >>

(* The finally part: the request is over if nothing is left.               *)
CloseIfDone ==
    /\ Calls("flushEnd")
    /\ ended' = IF NothingLeft /\ ended = "no" THEN "closed" ELSE ended
    /\ calls' = Rest
    /\ UNCHANGED <<segmentVars, boundaryVars, allPendingTasks, pingedTasks, queueVars,
                   requestStatus, flowing, client, wrappers, thrown, next, renderVars, scheduled,
                   userVars>>

(* The catch of performWork, startFlowing and abort.                       *)
CatchError ==
    /\ Calls("fatalError")
    /\ FatalError
    /\ calls' = Rest
    /\ UNCHANGED <<segmentVars, boundaryVars, allPendingTasks, pingedTasks, queueVars,
                   flowing, client, wrappers, thrown, next, renderVars, scheduled, userVars>>

-----------------------------------------------------------------------------
(* The host and the user.                                                  *)

ScheduleWork ==
    IF pingedTasks = << >> THEN scheduled + 1 ELSE scheduled

(* pingTask: the promise a task waits for settles.                         *)
PingTask(s) ==
    /\ Idle /\ segment[s].suspended
    /\ segment' = [segment EXCEPT ![s].suspended = FALSE]
    /\ pingedTasks' = Append(pingedTasks, s)
    /\ scheduled' = ScheduleWork
    /\ UNCHANGED <<segments, boundaryVars, allPendingTasks, queueVars, outVars, calls, next,
                   renderVars, userVars>>

(* performWork, its loop over pingedTasks and what comes after it.         *)
PerformWork ==
    /\ Idle /\ scheduled > 0
    /\ scheduled' = scheduled - 1
    /\ next' = IF requestStatus = "CLOSED" THEN 0 ELSE 1
    /\ UNCHANGED <<segmentVars, boundaryVars, allPendingTasks, pingedTasks, queueVars, outVars,
                   calls, renderVars, userVars>>

RetryTask ==
    LET s == pingedTasks[next] IN
    /\ next > 0 /\ calls = << >> /\ running = NoTask /\ next <= Len(pingedTasks)
    /\ next' = next + 1
    /\ running' = IF segment[s].status = "PENDING" THEN s ELSE NoTask
    /\ opened' = << >> /\ started' = FALSE
    /\ UNCHANGED <<segmentVars, boundaryVars, allPendingTasks, pingedTasks, queueVars, outVars,
                   calls, retries, scheduled, userVars>>

FinishWork ==
    /\ next > 0 /\ calls = << >> /\ running = NoTask /\ next > Len(pingedTasks)
    /\ next' = 0 /\ pingedTasks' = << >>
    /\ calls' = Flush
    /\ UNCHANGED <<segmentVars, boundaryVars, allPendingTasks, queueVars, outVars, renderVars,
                   scheduled, userVars>>

(* The user pipes, outside of the callbacks.                               *)
Pipe ==
    /\ Idle /\ ~piped /\ piped' = TRUE
    /\ StartFlowing(<< >>)
    /\ UNCHANGED <<segmentVars, boundaryVars, allPendingTasks, pingedTasks, queueVars, client,
                   wrappers, thrown, next, renderVars, scheduled, aborted>>

(* The destination has room again.                                         *)
Drain ==
    /\ Idle /\ piped /\ ~flowing /\ requestStatus # "CLOSED"
    /\ StartFlowing(<< >>)
    /\ UNCHANGED <<segmentVars, boundaryVars, allPendingTasks, pingedTasks, queueVars, client,
                   wrappers, thrown, next, renderVars, scheduled, userVars>>

AbortQuietly(order) ==   \* mutant
    CallAll("abortTask", order) \o << Call("clear", Root) >>

AbortAndFlush(order) ==
    CallAll("abortTask", order) \o << Call("clear", Root) >> \o Flush

Abort ==
    /\ FaultsHappen /\ Idle /\ ~aborted /\ aborted' = TRUE
    /\ \E order \in SetToSeqs(suspense[Root].fallbackAbortableTasks) :
          calls' = AbortAndFlush(order)
    /\ UNCHANGED <<segmentVars, boundaryVars, allPendingTasks, pingedTasks, queueVars, outVars,
                   next, renderVars, scheduled, piped>>

Render == \/ SpawnNewSuspendedTask \/ SuspendAgain \/ OpenSuspenseBoundary
          \/ CloseSuspenseBoundary \/ ContentThrows \/ FinishTask \/ TaskThrows

Return == \/ AbortTaskSoft \/ AbortTask \/ ClearAbortableTasks \/ UncountTask
          \/ FlushRoot \/ FlushClientRenderedBoundary \/ FlushCompletedBoundary
          \/ FlushPartialBoundary \/ NextQueue \/ CloseIfDone \/ CatchError

Work == Render \/ Return \/ PerformWork \/ RetryTask \/ FinishWork

Next == Work \/ (\E s \in Segments : PingTask(s)) \/ Pipe \/ Drain \/ Abort

Spec == Init /\ [][Next]_vars

(* JavaScript runs on, and a destination that is full drains.              *)
HostIsFair == WF_vars(Work) /\ WF_vars(Drain)

(* Every promise settles, but once the user aborts they may hang: ending a *)
(* request whose promises hang is what abort is for.                       *)
PromisesSettle == \A s \in Segments : WF_vars(~aborted /\ PingTask(s))

FairSpec == Spec /\ HostIsFair /\ PromisesSettle

-----------------------------------------------------------------------------
Count(q, b) == Cardinality({i \in DOMAIN q : q[i] = b})

TypeOK ==
    /\ segments \in Segments /\ boundaries \in Boundaries \cup {Root}
    /\ segment \in [Segments ->
         [status : {"PENDING", "COMPLETED", "FLUSHED", "ABORTED", "ERRORED"},
          parentFlushed : BOOLEAN, id : Nat, parent : Segments \cup {NoSegment},
          boundary : Boundaries \cup {NoBoundary}, task : BOOLEAN,
          blockedBoundary : Boundaries \cup {Root}, abortSet : Boundaries \cup {Root},
          suspended : BOOLEAN]]
    /\ suspense \in [Boundaries \cup {Root} ->
         [pendingTasks : Nat, forceClientRender : BOOLEAN, parentFlushed : BOOLEAN,
          completedSegments : Seq(Segments), fallbackAbortableTasks : SUBSET Segments,
          rootSegmentID : Nat, outer : Boundaries \cup {Root},
          fallback : Segments \cup {NoSegment}, content : Segments \cup {NoSegment}]]
    /\ allPendingTasks \in Nat /\ pingedTasks \in Seq(Segments)
    /\ \A q \in {clientRenderedBoundaries, completedBoundaries, partialBoundaries} :
          q \in Seq(Boundaries)
    /\ requestStatus \in {"OPEN", "CLOSING", "CLOSED"} /\ flowing \in BOOLEAN
    /\ next \in Nat /\ running \in Segments \cup {NoTask} /\ opened \in Seq(Boundaries)
    /\ started \in BOOLEAN /\ scheduled \in Nat /\ piped \in BOOLEAN /\ aborted \in BOOLEAN
    /\ ended \in {"no", "closed", "error", "aborted"}
    /\ client \in [Boundaries -> {"none", "pending", "completed", "client"}]
    /\ wrappers \in [Boundaries -> Seq({"pending", "completed", "client"})]
    /\ thrown \in BOOLEAN /\ retries \in 0..MaxRetries

(* The tasks that are not over.                                            *)
Live == {s \in Segments : segment[s].task /\ segment[s].status = "PENDING"}

(* The counters say how many tasks there are: the request is not closed    *)
(* too early nor left open, and no boundary is shown before it is ready,   *)
(* however tasks are spawned, aborted, soft or not, throw and finish.      *)
CountersExact ==
    calls = << >> =>
        /\ allPendingTasks = Cardinality(Live)
        /\ \A b \in Boundaries : suspense[b].pendingTasks =
              Cardinality({s \in Live : segment[s].blockedBoundary = b})
        /\ requestStatus = "OPEN" => suspense[Root].pendingTasks =
              Cardinality({s \in Live : segment[s].blockedBoundary = Root})

(* Is boundary b shown as completed though it is still to be announced?    *)
(* Its fallback was a task that waited when b was first shown, a           *)
(* placeholder with an id, and then finished: the flush of that segment,   *)
(* or of what it is ready in, shows b again, inline.                       *)
ShownTwice(b) ==
    /\ client[b] = "completed"
    /\ segment[suspense[b].fallback].id # NoID
    /\ segment[suspense[b].fallback].status \in {"COMPLETED", "FLUSHED"}

(* A boundary the browser shows as pending is in a queue as soon as it has *)
(* been decided, once, and in the right one; all others are in none, but   *)
(* for those that are shown twice.                                         *)
QueuedOnce ==
    \A b \in Boundaries :
        /\ Count(clientRenderedBoundaries, b) =
             IF client[b] = "pending" /\ suspense[b].forceClientRender THEN 1 ELSE 0
        /\ \/ Count(completedBoundaries, b) =
                 IF client[b] = "pending" /\ ~suspense[b].forceClientRender
                      /\ suspense[b].pendingTasks = 0 THEN 1 ELSE 0
           \/ Count(completedBoundaries, b) = 1 /\ ShownTwice(b)

(* Has the browser a second wrapper of boundary b?  Its fallback was a     *)
(* placeholder, with an id, and was flushed when it had finished.          *)
ShownAgain(b) == Len(wrappers[b]) > 1 /\ segment[suspense[b].fallback].id # NoID

(* A stream that is closed is complete: every boundary that was shown was  *)
(* decided, its content was sent and the browser found it under the id it  *)
(* was told, so that no wrapper is left pending, but for the boundaries    *)
(* that were shown again; and every placeholder was filled, unless the     *)
(* client renders its boundary or shows the content of another one.        *)
ClosedComplete ==
    ended = "closed" /\ calls = << >> =>
        /\ segment[RootSegment].status = "FLUSHED"
        /\ \A b \in Boundaries :
              /\ suspense[b].parentFlushed => client[b] \in {"completed", "client"}
              /\ client[b] = "completed" => segment[suspense[b].content].status = "FLUSHED"
              /\ ShownAgain(b) \/ \A i \in DOMAIN wrappers[b] : wrappers[b][i] = client[b]
        /\ \A s \in 1..segments :
              segment[s].task /\ segment[s].parentFlushed =>
                  \/ segment[s].status = "FLUSHED"
                  \/ /\ segment[s].blockedBoundary # Root
                     /\ suspense[segment[s].blockedBoundary].forceClientRender
                  \/ /\ segment[s].status = "ABORTED" /\ segment[s].abortSet # Root
                     /\ client[segment[s].abortSet] = "completed"
                  \/ /\ segment[s].status = "COMPLETED" /\ segment[s].boundary # NoBoundary
                     /\ client[segment[s].boundary] = "completed"

(* What the inline scripts are told makes sense to the browser: a wrapper  *)
(* is first shown, then decided, once, and no instruction reaches one that *)
(* was decided before, also if the boundary has two of them.               *)
ClientProtocol ==
    [][\A b \in Boundaries : \A i \in DOMAIN wrappers[b] :
          /\ i \in DOMAIN wrappers'[b]
          /\ wrappers'[b][i] # wrappers[b][i] =>
                wrappers[b][i] = "pending" /\ wrappers'[b][i] \in {"completed", "client"}]_vars

(* "Aborted, errored or already flushed boundaries should not be flushed   *)
(* again. This is a bug in React."  No such check of flushSubtree,          *)
(* flushSegment or finishedTask fails unless a component throws, or the    *)
(* user aborts, at a bad moment.                                           *)
NoInternalError == ~thrown

(* Is s the task of a fallback that waits though no task of the content    *)
(* does?  If the content threw, such a fallback goes on, and abort, which  *)
(* finds fallbacks by the tasks their boundaries wait for, does not find   *)
(* it.                                                                     *)
Orphaned(s) ==
    LET b == segment[s].abortSet IN
    s \in Live /\ b # Root /\ suspense[b].forceClientRender /\ suspense[b].pendingTasks = 0

(* A request that is piped before it is closed ends, whatever suspends,    *)
(* throws, or pushes back, and also if it is aborted, "called to early     *)
(* terminate a request" (ReactFizzServer.js:1953), though its promises     *)
(* never settle then: unless it was aborted and waits for the fallback of  *)
(* a boundary whose content had failed, which abort cannot find.           *)
EventuallyEnds ==
    (piped /\ requestStatus # "CLOSED") ~>
        \/ ended # "no"
        \/ aborted /\ calls = << >> /\ \E s \in Segments : Orphaned(s)
=============================================================================
