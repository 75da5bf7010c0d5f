------------------------- MODULE RootSchedulerProofs -------------------------
(***************************************************************************)
(* What holds of the root scheduler for any set of lanes, roots and        *)
(* promises, whatever the bounds: proofs of the type invariant, of the     *)
(* safety invariant NoLaneLost, of the action properties                   *)
(* PassiveEffectsKept and WorkLeavesByItsCommit; in a second part, of      *)
(* SuspendedHasWakeup; in a third, of SyncWorkScheduled and RootScheduled. *)
(*                                                                         *)
(* The inductive invariant Inv says what is true between any two steps:    *)
(*   - StackOK: only the frame on top of the call stack renders, commits   *)
(*     or runs layout effects, the others wait for a call to return;       *)
(*   - WorkInv: what a tree that is rendered, or waits for its commit, did *)
(*     not render is still in it;                                          *)
(*   - TopInv: what the frame on top renders is what workInProgressRoot    *)
(*     says, and the effects of the commit before were flushed.            *)
(***************************************************************************)
EXTENDS RootScheduler, DataLemmas

(* Where a frame is when it has called another.                            *)
Waiting == {"begin", "loop", "end", "compare", "choose", "exit", "nested"}

FrameOK(frame) ==
    /\ frame.proc \in Procs \cup {"commitRoot"} \/ frame.pc = "effects" =>
           frame.root \in Roots
    /\ frame.proc = "performConcurrentWorkOnRoot" => frame.task # NoNode

StackOK(s) ==
    /\ s \in Seq(FrameType)
    /\ \A i \in 1..Len(s) : FrameOK(s[i])
    /\ \A i \in 1..(Len(s) - 1) : s[i].pc \in Waiting

EventInv == TransitionLanes # {} => event.nextTransitionLane \in TransitionLanes

(* The work of a root outside of the given lanes is in its work tree.      *)
Keeps(rt, lanes) == rt.currentLanes \ lanes \subseteq rt.workLanes

WorkOf(r, rt, w) ==
    /\ rt.currentLanes \subseteq rt.pendingLanes
    /\ rt.finishedWork => w.root # r /\ Keeps(rt, rt.finishedLanes)
    /\ w.root = r => Keeps(rt, w.lanes)

WorkInv == \A r \in Roots : WorkOf(r, root[r], wip)

TopInv ==
    /\ Performing("render") =>
           wip.root = Top.root /\ wip.lanes = Top.lanes /\ wip.lanes # NoLanes
    /\ Performing("rendered") => Top.lanes # NoLanes /\ Keeps(root[Top.root], Top.lanes)
    /\ At("commitRoot", "layout") => passive.root = NoRoot

Inv ==
    /\ TypeOK /\ IsFiniteSet(tasks)
    /\ EventInv
    /\ StackOK(stack)
    /\ WorkInv
    /\ TopInv

-----------------------------------------------------------------------------
(* Lanes.                                                                  *)

(* The most urgent of some lanes is one of them.                           *)
LEMMA HighestIsOne ==
    ASSUME NEW lanes \in SUBSET Lane, lanes # {}
    PROVE  HighestPriorityLane(lanes) \in lanes
<1>1. lanes \subseteq Nat
  BY LaneAssumption
<1>2. \E l \in lanes : \A m \in lanes : l <= m
  BY <1>1, LeastNatural
<1> QED
  BY <1>2 DEF HighestPriorityLane, NoLanes

LEMMA HighestType ==
    ASSUME NEW lanes \in SUBSET Lane
    PROVE  HighestPriorityLane(lanes) \in Lane \cup {NoLane}
<1>1. CASE lanes = {}
  BY <1>1 DEF HighestPriorityLane, NoLanes
<1>2. CASE lanes # {}
  BY <1>2, HighestIsOne
<1> QED
  BY <1>1, <1>2

(* A cycle of lanes does not leave them.                                   *)
LEMMA NextInCycleType ==
    ASSUME NEW group \in SUBSET Lane, group # {}, NEW lane
    PROVE  NextInCycle(lane, group) \in group
<1> DEFINE later == {l \in group : l > lane}
<1>1. CASE later = {}
  BY <1>1, HighestIsOne DEF NextInCycle
<1>2. CASE later # {}
  <2>1. HighestPriorityLane(later) \in later
    BY <1>2, HighestIsOne
  <2> QED BY <1>2, <2>1 DEF NextInCycle
<1> QED
  BY <1>1, <1>2

LEMMA LaneSets ==
    /\ TransitionLanes \in SUBSET Lane /\ RetryLanes \in SUBSET Lane
    /\ NonIdleLanes \in SUBSET Lane
    /\ SyncLane \in Lane /\ NoLanes \in SUBSET Lane
  BY RootSchedulerAssumption DEF TransitionLanes, RetryLanes, NonIdleLanes, NoLanes

LEMMA NextLanesType ==
    ASSUME NEW rt \in RootType, NEW lanes \in SUBSET Lane
    PROVE  NextLanes(rt, lanes) \in SUBSET Lane
<1>1. /\ rt.pendingLanes \in SUBSET Lane /\ rt.suspendedLanes \in SUBSET Lane
      /\ rt.pingedLanes \in SUBSET Lane
      /\ \A l \in Lane : rt.entanglements[l] \in SUBSET Lane
  BY DEF RootType
<1>2. Workable(rt) \in SUBSET Lane
  BY <1>1 DEF Workable, OrElse
<1>3. HighestPriorityLanes(Workable(rt)) \in SUBSET Lane
  BY <1>2 DEF HighestPriorityLanes
<1>4. WithDefault(rt, HighestPriorityLanes(Workable(rt))) \in SUBSET Lane
  BY <1>1, <1>3 DEF WithDefault
<1>5. \A ls \in SUBSET Lane : WithEntangled(rt, ls) \in SUBSET Lane
  BY <1>1 DEF WithEntangled
<1> QED
  BY <1>3, <1>4, <1>5 DEF NextLanes, NoLanes

-----------------------------------------------------------------------------
(* Roots.                                                                  *)

(* Two roots with the same work in their trees.                            *)
SameWork(rt, st) ==
    /\ rt.pendingLanes = st.pendingLanes
    /\ rt.currentLanes = st.currentLanes /\ rt.workLanes = st.workLanes
    /\ rt.finishedWork = st.finishedWork /\ rt.finishedLanes = st.finishedLanes

LEMMA ScheduledWork ==
    ASSUME NEW rt \in RootType, NEW id \in TaskIds \cup {NoNode},
           NEW priority \in Lane \cup {NoLane}
    PROVE  /\ Scheduled(rt, id, priority) \in RootType
           /\ SameWork(Scheduled(rt, id, priority), rt)
  BY DEF Scheduled, RootType, SameWork

LEMMA SuspendedWork ==
    ASSUME NEW rt \in RootType, NEW lanes \in SUBSET Lane
    PROVE  /\ MarkRootSuspended(rt, lanes) \in RootType
           /\ SameWork(MarkRootSuspended(rt, lanes), rt)
  BY DEF MarkRootSuspended, RootType, SameWork

LEMMA PingedWork ==
    ASSUME NEW rt \in RootType, NEW lanes \in SUBSET Lane
    PROVE  /\ MarkRootPinged(rt, lanes) \in RootType
           /\ SameWork(MarkRootPinged(rt, lanes), rt)
  BY DEF MarkRootPinged, RootType, SameWork

LEMMA UpdatedWork ==
    ASSUME NEW rt \in RootType, NEW lane \in Lane
    PROVE  LET st == MarkRootUpdated(rt, lane)
           IN  /\ st \in RootType
               /\ st.pendingLanes = rt.pendingLanes \cup {lane}
               /\ st.currentLanes = rt.currentLanes /\ st.workLanes = rt.workLanes
               /\ st.finishedWork = rt.finishedWork /\ st.finishedLanes = rt.finishedLanes
  BY DEF MarkRootUpdated, RootType, NoLanes

LEMMA FinishedLanesWork ==
    ASSUME NEW rt \in RootType, NEW lanes \in SUBSET Lane
    PROVE  LET st == MarkRootFinished(rt, lanes)
           IN  /\ st \in RootType
               /\ st.pendingLanes = lanes
               /\ st.currentLanes = rt.currentLanes /\ st.workLanes = rt.workLanes
               /\ st.finishedWork = rt.finishedWork /\ st.finishedLanes = rt.finishedLanes
<1>1. [l \in Lane |-> IF l \in rt.pendingLanes \ lanes THEN NoLanes ELSE rt.entanglements[l]]
        \in [Lane -> SUBSET Lane]
  BY DEF RootType, NoLanes
<1> QED
  BY <1>1 DEF MarkRootFinished, RootType, NoLanes

-----------------------------------------------------------------------------
(* New ids.                                                                *)

LEMMA ImageFinite ==
    ASSUME NEW S, IsFiniteSet(S), NEW f, DOMAIN f = S
    PROVE  IsFiniteSet({f[x] : x \in S})
<1> DEFINE T == {f[x] : x \in S}
<1>1. [x \in S |-> f[x]] \in Surjection(S, T)
  BY DEF Surjection
<1> HIDE DEF T
<1>2. IsFiniteSet(T)
  BY <1>1, FS_Surjection
<1> QED
  BY <1>2 DEF T

LEMMA UsedIdsFinite ==
    ASSUME NEW ts, IsFiniteSet(ts), stack \in Seq(FrameType)
    PROVE  IsFiniteSet(UsedIds(ts))
<1>1. IsFiniteSet({t.id : t \in ts})
  <2> DEFINE f == [t \in ts |-> t.id]
  <2>1. IsFiniteSet({f[t] : t \in ts})
    BY ImageFinite
  <2>2. {f[t] : t \in ts} = {t.id : t \in ts}
    OBVIOUS
  <2> QED BY <2>1, <2>2
<1>2. IsFiniteSet({root[r].callbackNode : r \in Roots})
  <2> DEFINE f == [r \in Roots |-> root[r].callbackNode]
  <2>1. IsFiniteSet({f[r] : r \in Roots})
    BY ImageFinite, RootSchedulerAssumption
  <2>2. {f[r] : r \in Roots} = {root[r].callbackNode : r \in Roots}
    OBVIOUS
  <2> QED BY <2>1, <2>2
<1>3. IsFiniteSet(DOMAIN stack)
  <2>1. DOMAIN stack = 1..Len(stack) /\ Len(stack) \in Nat
    BY LenProperties
  <2>2. IsFiniteSet(1..Len(stack))
    BY <2>1, FS_Interval
  <2> QED BY <2>1, <2>2
<1>4. IsFiniteSet({stack[i].task : i \in DOMAIN stack})
  <2> DEFINE f == [i \in DOMAIN stack |-> stack[i].task]
  <2>1. IsFiniteSet({f[i] : i \in DOMAIN stack})
    BY ImageFinite, <1>3
  <2>2. {f[i] : i \in DOMAIN stack} = {stack[i].task : i \in DOMAIN stack}
    OBVIOUS
  <2> QED BY <2>1, <2>2
<1>5. IsFiniteSet({stack[i].node : i \in DOMAIN stack})
  <2> DEFINE f == [i \in DOMAIN stack |-> stack[i].node]
  <2>1. IsFiniteSet({f[i] : i \in DOMAIN stack})
    BY ImageFinite, <1>3
  <2>2. {f[i] : i \in DOMAIN stack} = {stack[i].node : i \in DOMAIN stack}
    OBVIOUS
  <2> QED BY <2>1, <2>2
<1> QED
  BY <1>1, <1>2, <1>4, <1>5, FS_Union DEF UsedIds

(* There is an id that is not used.                                        *)
LEMMA FreshIdIsFresh ==
    ASSUME NEW ts, IsFiniteSet(ts), stack \in Seq(FrameType)
    PROVE  FreshId(ts) \in TaskIds /\ FreshId(ts) \notin UsedIds(ts)
<1> DEFINE used == UsedIds(ts)
           n == Cardinality(used)
<1>1. IsFiniteSet(used)
  BY UsedIdsFinite
<1> HIDE DEF used
<1>2. n \in Nat
  BY <1>1, FS_CardinalityType
<1>3. ~ (1..(n + 1) \subseteq used)
  <2>1. 1 \in Int /\ n + 1 \in Int /\ ~ (1 > n + 1)
    BY <1>2
  <2>2. Cardinality(1..(n + 1)) = n + 1
    <3>1. Cardinality(1..(n + 1)) = IF 1 > n + 1 THEN 0 ELSE (n + 1) - 1 + 1
      BY <2>1, FS_Interval, Zenon
    <3> QED BY <1>2, <2>1, <3>1
  <2>3. ASSUME 1..(n + 1) \subseteq used PROVE FALSE
    <3>1. Cardinality(1..(n + 1)) <= n
      BY <1>1, <2>3, FS_Subset
    <3> QED BY <1>2, <2>2, <3>1
  <2> QED BY <2>3
<1>4. \E id \in 1..(n + 1) : id \notin used
  BY <1>3
<1>5. FreshId(ts) = CHOOSE id \in 1..(n + 1) : id \notin used
  BY DEF FreshId, used
<1>6. FreshId(ts) \in 1..(n + 1) /\ FreshId(ts) \notin used
  BY <1>4, <1>5
<1> QED
  BY <1>2, <1>6 DEF TaskIds, NoNode, used

-----------------------------------------------------------------------------
(* ensureRootIsScheduled changes nothing of the work of the roots.         *)

TaskType == [id : TaskIds, root : Roots]

LEMMA EnsureTypes ==
    ASSUME TypeOK, IsFiniteSet(tasks),
           NEW r \in Roots, NEW rs \in [Roots -> RootType], NEW lanes \in SUBSET Lane,
           EnsureRootIsScheduled(r, rs, lanes)
    PROVE  /\ root' \in [Roots -> RootType]
           /\ \A q \in Roots : SameWork(root'[q], rs[q])
           /\ tasks' \subseteq TaskType /\ IsFiniteSet(tasks')
           /\ syncQueue' \in Seq(Roots) /\ microtask' \in BOOLEAN
<1> DEFINE rt == rs[r]
           next == NextLanes(rt, lanes)
           priority == HighestPriorityLane(next)
           others == {t \in tasks : t.id # rt.callbackNode}
           id == FreshId(others)
<1>1. rt \in RootType /\ tasks \subseteq TaskType /\ stack \in Seq(FrameType)
      /\ syncQueue \in Seq(Roots) /\ microtask \in BOOLEAN
  BY DEF TypeOK, TaskType
<1>2. priority \in Lane \cup {NoLane}
  BY <1>1, NextLanesType, HighestType
<1>3. others \subseteq TaskType /\ IsFiniteSet(others)
  BY <1>1, FS_Subset
<1>4. id \in TaskIds
  BY <1>1, <1>3, FreshIdIsFresh
<1>5. \A st \in RootType : SameWork(st, st)
  BY DEF SameWork
<1>6. ASSUME NEW st \in RootType, SameWork(st, rt), root' = [rs EXCEPT ![r] = st]
      PROVE  root' \in [Roots -> RootType] /\ \A q \in Roots : SameWork(root'[q], rs[q])
  BY <1>5, <1>6
<1>7. \A i \in TaskIds \cup {NoNode}, p \in Lane \cup {NoLane} :
        Scheduled(rt, i, p) \in RootType /\ SameWork(Scheduled(rt, i, p), rt)
  BY <1>1, ScheduledWork
<1>8. NoLane \in Lane \cup {NoLane} /\ SyncLane \in Lane \cup {NoLane}
  BY LaneSets
<1>9. [id |-> id, root |-> r] \in TaskType
  BY <1>4 DEF TaskType
<1>10. IsFiniteSet(others \cup {[id |-> id, root |-> r]})
  BY <1>3, FS_AddElement
<1>11. Append(syncQueue, r) \in Seq(Roots)
  BY <1>1, AppendProperties
<1>12. \/ /\ next = NoLanes
          /\ tasks' = others
          /\ root' = [rs EXCEPT ![r] = Scheduled(rt, NoNode, NoLane)]
          /\ UNCHANGED queueVars
       \/ /\ root' = rs
          /\ UNCHANGED <<tasks, queueVars>>
       \/ /\ tasks' = others
          /\ root' = [rs EXCEPT ![r] = Scheduled(rt, NoNode, SyncLane)]
          /\ syncQueue' = Append(syncQueue, r)
          /\ microtask' = TRUE
       \/ /\ tasks' = others \cup {[id |-> id, root |-> r]}
          /\ root' = [rs EXCEPT ![r] = Scheduled(rt, id, priority)]
          /\ UNCHANGED queueVars
  BY DEF EnsureRootIsScheduled
<1> HIDE DEF rt, next, priority, others, id
<1>13. CASE /\ next = NoLanes
            /\ tasks' = others
            /\ root' = [rs EXCEPT ![r] = Scheduled(rt, NoNode, NoLane)]
            /\ UNCHANGED queueVars
  BY <1>1, <1>3, <1>6, <1>7, <1>8, <1>13 DEF queueVars
<1>14. CASE root' = rs /\ UNCHANGED <<tasks, queueVars>>
  <2>1. \A q \in Roots : SameWork(root'[q], rs[q])
    BY <1>5, <1>14
  <2> QED BY <1>1, <1>14, <2>1 DEF queueVars
<1>15. CASE /\ tasks' = others
            /\ root' = [rs EXCEPT ![r] = Scheduled(rt, NoNode, SyncLane)]
            /\ syncQueue' = Append(syncQueue, r)
            /\ microtask' = TRUE
  BY <1>1, <1>3, <1>6, <1>7, <1>8, <1>11, <1>15
<1>16. CASE /\ tasks' = others \cup {[id |-> id, root |-> r]}
            /\ root' = [rs EXCEPT ![r] = Scheduled(rt, id, priority)]
            /\ UNCHANGED queueVars
  BY <1>1, <1>2, <1>3, <1>4, <1>6, <1>7, <1>9, <1>10, <1>16 DEF queueVars
<1> QED
  BY <1>12, <1>13, <1>14, <1>15, <1>16

-----------------------------------------------------------------------------
(* The call stack.                                                         *)

LEMMA StackTop ==
    ASSUME StackOK(stack), ~Idle
    PROVE  /\ Top \in FrameType /\ FrameOK(Top)
           /\ Len(stack) \in Nat \ {0}
           /\ Rest \in Seq(FrameType) /\ Len(Rest) = Len(stack) - 1
           /\ \A i \in 1..(Len(stack) - 1) :
                Rest[i] = stack[i] /\ FrameOK(Rest[i]) /\ Rest[i].pc \in Waiting
<1>1. stack \in Seq(FrameType) /\ Len(stack) \in Nat \ {0}
  BY EmptySeq DEF StackOK, Idle
<1>2. Len(stack) \in 1..Len(stack) /\ Len(stack) - 1 \in 0..Len(stack)
  BY <1>1
<1>3. Top \in FrameType
  BY <1>1, <1>2, LenProperties DEF Top
<1>4. FrameOK(Top)
  BY <1>2 DEF StackOK, Top
<1>5. Rest \in Seq(FrameType) /\ Len(Rest) = Len(stack) - 1
  BY <1>1, <1>2, SplitSeq DEF Rest
<1>6. \A i \in 1..(Len(stack) - 1) : Rest[i] = stack[i]
  <2>1. \A i \in 1..Len(stack) : stack[i] \in FrameType
    BY <1>1, LenProperties
  <2> DEFINE m == 1
             n == Len(stack) - 1
  <2>2. m \in 1..Len(stack) + 1 /\ n \in (m - 1)..Len(stack)
    BY <1>1
  <2>3. \A i \in 1..(n - m + 1) : SubSeq(stack, m, n)[i] = stack[m + i - 1]
    BY <1>1, <2>1, <2>2, SubSeqProperties
  <2>4. \A i \in 1..(Len(stack) - 1) : i \in 1..(n - m + 1) /\ m + i - 1 = i
    BY <1>1
  <2> QED BY <2>3, <2>4 DEF Rest
<1>7. \A i \in 1..(Len(stack) - 1) : i \in 1..Len(stack)
  BY <1>1
<1> QED
  BY <1>1, <1>3, <1>4, <1>5, <1>6, <1>7 DEF StackOK

LEMMA OneFrame ==
    ASSUME NEW frame \in FrameType, FrameOK(frame), stack' = <<frame>>
    PROVE  StackOK(stack)' /\ ~Idle' /\ Top' = frame
<1>1. stack' \in Seq(FrameType) /\ Len(stack') = 1 /\ stack'[1] = frame
  OBVIOUS
<1> QED
  BY <1>1 DEF StackOK, Idle, Top

LEMMA StackContinue ==
    ASSUME StackOK(stack), ~Idle, NEW frame \in FrameType, FrameOK(frame), Continue(frame)
    PROVE  StackOK(stack)' /\ ~Idle' /\ Top' = frame
<1> DEFINE n == Len(stack) - 1
<1>1. /\ n \in Nat /\ Rest \in Seq(FrameType) /\ Len(Rest) = n
      /\ \A i \in 1..n : FrameOK(Rest[i]) /\ Rest[i].pc \in Waiting
  BY StackTop
<1> HIDE DEF n
<1>2. /\ stack' \in Seq(FrameType) /\ Len(stack') = n + 1
      /\ \A i \in 1..n : stack'[i] = Rest[i]
      /\ stack'[n + 1] = frame
  BY <1>1, AppendProperties DEF Continue
<1>3. \A i \in 1..(n + 1) : i \in 1..n \/ i = n + 1
  BY <1>1
<1>4. (n + 1) - 1 = n
  BY <1>1
<1>5. stack' # << >>
  BY <1>1, <1>2, EmptySeq
<1> QED
  BY <1>1, <1>2, <1>3, <1>4, <1>5 DEF StackOK, Idle, Top

LEMMA StackReturn ==
    ASSUME StackOK(stack), ~Idle, Return
    PROVE  StackOK(stack)' /\ (~Idle' => Top'.pc \in Waiting)
<1> DEFINE n == Len(stack) - 1
<1>1. /\ n \in Nat /\ stack' \in Seq(FrameType) /\ Len(stack') = n
      /\ \A i \in 1..n : FrameOK(stack'[i]) /\ stack'[i].pc \in Waiting
  BY StackTop DEF Return
<1> HIDE DEF n
<1>2. \A i \in 1..(n - 1) : i \in 1..n
  BY <1>1
<1>3. stack' # << >> => n \in 1..n
  BY <1>1, EmptySeq
<1> QED
  BY <1>1, <1>2, <1>3 DEF StackOK, Idle, Top

LEMMA StackCall ==
    ASSUME StackOK(stack), ~Idle, NEW proc, NEW r, NEW pc \in Waiting,
           Frame(proc, "begin", r) \in FrameType, FrameOK(Frame(proc, "begin", r)),
           Call(proc, r, pc)
    PROVE  StackOK(stack)' /\ ~Idle' /\ Top' = Frame(proc, "begin", r)
<1> DEFINE n == Len(stack) - 1
           caller == [Top EXCEPT !.pc = pc]
           called == Frame(proc, "begin", r)
           two == <<caller, called>>
<1>1. /\ n \in Nat /\ Rest \in Seq(FrameType) /\ Len(Rest) = n
      /\ \A i \in 1..n : FrameOK(Rest[i]) /\ Rest[i].pc \in Waiting
      /\ Top \in FrameType /\ FrameOK(Top)
  BY StackTop
<1>2. /\ caller \in FrameType /\ caller.pc = pc /\ caller.proc = Top.proc /\ caller.root = Top.root
      /\ caller.task = Top.task
  BY <1>1 DEF FrameType, Waiting
<1>3. FrameOK(caller)
  BY <1>1, <1>2 DEF FrameOK, Waiting
<1>4. called \in FrameType /\ FrameOK(called)
  OBVIOUS
<1> HIDE DEF n, caller, called
<1>5. two \in Seq(FrameType) /\ Len(two) = 2 /\ two[1] = caller /\ two[2] = called
  BY <1>2, <1>4
<1>6. stack' = Rest \o two
  BY DEF Call, caller, called
<1> HIDE DEF two
<1>7. /\ stack' \in Seq(FrameType) /\ Len(stack') = n + 2
      /\ \A i \in 1..n : stack'[i] = Rest[i]
      /\ stack'[n + 1] = caller /\ stack'[n + 2] = called
  <2> DEFINE below == Rest
  <2>0. below \in Seq(FrameType) /\ stack' = below \o two
    BY <1>1, <1>6
  <2> HIDE DEF below
  <2>1. /\ below \o two \in Seq(FrameType) /\ Len(below \o two) = Len(below) + Len(two)
        /\ \A i \in 1..(Len(below) + Len(two)) :
              (below \o two)[i] = IF i <= Len(below) THEN below[i] ELSE two[i - Len(below)]
    BY <2>0, <1>5, ConcatProperties, Zenon
  <2>2. /\ stack' \in Seq(FrameType) /\ Len(stack') = n + 2
        /\ \A i \in 1..(n + 2) : stack'[i] = IF i <= n THEN Rest[i] ELSE two[i - n]
    BY <1>1, <1>5, <2>0, <2>1 DEF below
  <2>3. /\ \A i \in 1..n : i \in 1..(n + 2) /\ i <= n
        /\ n + 1 \in 1..(n + 2) /\ ~ (n + 1 <= n) /\ (n + 1) - n = 1
        /\ n + 2 \in 1..(n + 2) /\ ~ (n + 2 <= n) /\ (n + 2) - n = 2
    BY <1>1
  <2>4. \A i \in 1..n : stack'[i] = Rest[i]
    BY <2>2, <2>3
  <2>5. stack'[n + 1] = caller /\ stack'[n + 2] = called
    BY <1>5, <2>2, <2>3
  <2> QED
    BY <2>2, <2>4, <2>5
<1>8. \A i \in 1..(n + 2) : i \in 1..n \/ i = n + 1 \/ i = n + 2
  BY <1>1
<1>9. \A i \in 1..((n + 2) - 1) : i \in 1..n \/ i = n + 1
  BY <1>1
<1>10. stack' # << >>
  BY <1>1, <1>7, EmptySeq
<1> QED
  BY <1>1, <1>2, <1>3, <1>4, <1>7, <1>8, <1>9, <1>10 DEF StackOK, Idle, Top, called

-----------------------------------------------------------------------------
(* What every step does: it keeps Inv, and it takes no work and no effects *)
(* away, unless it is the commit.                                          *)

PassiveKept == passive.root # NoRoot => passive'.root \in {passive.root, NoRoot}

NoWorkLeaves == \A r \in Roots : root[r].currentLanes \subseteq root'[r].currentLanes

Good == Inv' /\ PassiveKept /\ NoWorkLeaves

(* The variables that Inv only gives a type.                               *)
HostOK ==
    /\ tasks \subseteq TaskType /\ IsFiniteSet(tasks)
    /\ passiveTask \in BOOLEAN /\ flushTask \in BOOLEAN /\ microtask \in BOOLEAN
    /\ syncQueue \in Seq(Roots)
    /\ isFlushingSyncQueue \in BOOLEAN
    /\ nested \in [root : Roots \cup {NoRoot}, count : Nat]
    /\ listeners \subseteq [kind : {"ping", "retry"}, wakeable : Wakeables, root : Roots,
                            lanes : SUBSET Lane]
    /\ resolved \subseteq Wakeables
    /\ inputs \in 0..MaxInputs

EventType == [transitionLane : Lane \cup {NoLane}, nextTransitionLane : Lane \cup {NoLane},
              nextRetryLane : RetryLanes]

EventOK == event \in EventType /\ EventInv

PassiveOK == passive \in [root : Roots \cup {NoRoot}, lanes : SUBSET Lane]

RootsOK == root \in [Roots -> RootType] /\ wip \in WipType /\ WorkInv

LEMMA InvParts == Inv <=> HostOK /\ EventOK /\ PassiveOK /\ RootsOK /\ StackOK(stack) /\ TopInv
  BY DEF Inv, TypeOK, HostOK, TaskType, EventOK, EventType, PassiveOK, RootsOK, StackOK

LEMMA InvPartsPrime ==
    Inv' <=> HostOK' /\ EventOK' /\ PassiveOK' /\ RootsOK' /\ StackOK(stack)' /\ TopInv'
  BY DEF Inv, TypeOK, HostOK, TaskType, EventOK, EventType, PassiveOK, RootsOK, StackOK

(* When the same work is rendered as before.                               *)
LEMMA SameRoots ==
    ASSUME RootsOK,
           root' \in [Roots -> RootType], \A r \in Roots : SameWork(root'[r], root[r]),
           wip' \in WipType, wip'.root = wip.root, wip'.lanes = wip.lanes
    PROVE  RootsOK' /\ NoWorkLeaves
<1>1. ASSUME NEW r \in Roots
      PROVE  WorkOf(r, root'[r], wip') /\ root[r].currentLanes \subseteq root'[r].currentLanes
  <2>1. WorkOf(r, root[r], wip) /\ SameWork(root'[r], root[r])
    BY DEF RootsOK, WorkInv
  <2> QED BY <2>1 DEF WorkOf, SameWork, Keeps
<1> QED
  BY <1>1 DEF RootsOK, WorkInv, NoWorkLeaves

LEMMA UnchangedRoots ==
    ASSUME RootsOK, UNCHANGED <<root, wip>>
    PROVE  RootsOK' /\ NoWorkLeaves
<1>1. \A r \in Roots : SameWork(root'[r], root[r])
  BY DEF SameWork
<1> QED
  BY <1>1, SameRoots DEF RootsOK

(* When the frame on top is at no place that TopInv is about.              *)
LEMMA TopElsewhere ==
    ASSUME ~Idle' => Top'.pc \notin {"render", "rendered", "layout"}
    PROVE  TopInv'
  BY DEF TopInv, Performing, At

LEMMA TopSame ==
    ASSUME TopInv, UNCHANGED <<stack, passive>>, RootsOK, StackOK(stack),
           \A r \in Roots : SameWork(root'[r], root[r]),
           wip'.root = wip.root, wip'.lanes = wip.lanes
    PROVE  TopInv'
<1>1. Top' = Top /\ Idle' = Idle
  BY DEF Top, Idle
<1>2. Performing("rendered") => Keeps(root'[Top.root], Top.lanes)
  <2> SUFFICES ASSUME Performing("rendered") PROVE Keeps(root'[Top.root], Top.lanes)
    OBVIOUS
  <2>1. Top.root \in Roots /\ Keeps(root[Top.root], Top.lanes)
    BY StackTop DEF Performing, FrameOK, TopInv
  <2> QED BY <2>1 DEF SameWork, Keeps
<1> QED
  BY <1>1, <1>2 DEF TopInv, Performing, At

-----------------------------------------------------------------------------
(* Frames.                                                                 *)

LEMMA NewFrame ==
    ASSUME NEW r \in Roots \cup {NoRoot},
           NEW proc \in {"flushSyncCallbacks", "flushPassiveEffects", "performSyncWorkOnRoot",
                         "commitRoot"},
           r = NoRoot => proc \in {"flushSyncCallbacks", "flushPassiveEffects"}
    PROVE  LET f == Frame(proc, "begin", r)
           IN  f \in FrameType /\ FrameOK(f) /\ f.pc = "begin" /\ f.root = r /\ f.proc = proc
  BY LaneSets DEF Frame, FrameType, FrameOK, Procs, NoNode, NoLanes

(* Somewhere else in the same function. *)
LEMMA StackGoto ==
    ASSUME StackOK(stack), ~Idle,
           NEW pc \in {"begin", "loop", "end", "compare", "choose", "render",
                       "rendered", "fatal", "exit", "return", "layout", "scheduled", "nested"},
           Goto(pc)
    PROVE  /\ StackOK(stack)' /\ ~Idle' /\ Top' = [Top EXCEPT !.pc = pc]
           /\ Top'.pc = pc /\ Top'.proc = Top.proc /\ Top'.root = Top.root
           /\ Top'.lanes = Top.lanes
<1>1. Top \in FrameType /\ FrameOK(Top)
  BY StackTop
<1> DEFINE g == [Top EXCEPT !.pc = pc]
<1>2. /\ g \in FrameType /\ g.pc = pc /\ g.proc = Top.proc /\ g.root = Top.root
      /\ g.task = Top.task /\ g.node = Top.node /\ g.lanes = Top.lanes
  BY <1>1 DEF FrameType
<1>3. FrameOK(g)
  BY <1>1, <1>2 DEF FrameOK
<1>4. Continue(g)
  BY DEF Goto
<1> HIDE DEF g
<1>5. StackOK(stack)' /\ ~Idle' /\ Top' = g
  BY <1>2, <1>3, <1>4, StackContinue
<1> QED
  BY <1>2, <1>5 DEF g

LEMMA StackEmpty ==
    ASSUME stack' = << >>
    PROVE  StackOK(stack)' /\ Idle'
  BY DEF StackOK, Idle

LEMMA StackCalls ==
    ASSUME StackOK(stack), ~Idle, NEW pc \in Waiting,
           NEW r \in Roots \cup {NoRoot},
           NEW proc \in {"flushSyncCallbacks", "flushPassiveEffects", "performSyncWorkOnRoot",
                         "commitRoot"},
           r = NoRoot => proc \in {"flushSyncCallbacks", "flushPassiveEffects"},
           Call(proc, r, pc)
    PROVE  StackOK(stack)' /\ TopInv' /\ ~Idle' /\ Top' = Frame(proc, "begin", r)
<1> DEFINE f == Frame(proc, "begin", r)
<1>1. f \in FrameType /\ FrameOK(f) /\ f.pc = "begin"
  BY NewFrame
<1>2. StackOK(stack)' /\ ~Idle' /\ Top' = f
  BY <1>1, StackCall
<1>3. TopInv'
  BY <1>1, <1>2, TopElsewhere
<1> QED
  BY <1>2, <1>3

LEMMA StackStarts ==
    ASSUME NEW r \in Roots \cup {NoRoot},
           NEW proc \in {"flushSyncCallbacks", "flushPassiveEffects", "performSyncWorkOnRoot",
                         "commitRoot"},
           r = NoRoot => proc \in {"flushSyncCallbacks", "flushPassiveEffects"},
           stack' = <<Frame(proc, "begin", r)>>
    PROVE  StackOK(stack)' /\ TopInv'
<1> DEFINE f == Frame(proc, "begin", r)
<1>1. f \in FrameType /\ FrameOK(f) /\ f.pc = "begin"
  BY NewFrame
<1>2. StackOK(stack)' /\ ~Idle' /\ Top' = f
  BY <1>1, OneFrame
<1> QED
  BY <1>1, <1>2, TopElsewhere

LEMMA StackReturns ==
    ASSUME StackOK(stack), ~Idle, Return
    PROVE  StackOK(stack)' /\ TopInv'
<1>1. StackOK(stack)' /\ (~Idle' => Top'.pc \in Waiting)
  BY StackReturn
<1> QED
  BY <1>1, TopElsewhere DEF Waiting

LEMMA StackGoes ==
    ASSUME StackOK(stack), ~Idle,
           NEW pc \in {"begin", "loop", "end", "compare", "choose",
                       "fatal", "exit", "return", "scheduled", "nested"},
           Goto(pc)
    PROVE  StackOK(stack)' /\ TopInv'
<1>1. StackOK(stack)' /\ Top'.pc = pc
  BY StackGoto
<1> QED
  BY <1>1, TopElsewhere

LEMMA StackThrows ==
    ASSUME Throw, isFlushingSyncQueue \in BOOLEAN, flushTask \in BOOLEAN
    PROVE  /\ StackOK(stack)' /\ TopInv'
           /\ flushTask' \in BOOLEAN /\ isFlushingSyncQueue' \in BOOLEAN
  BY StackEmpty, TopElsewhere DEF Throw

LEMMA StackStays ==
    ASSUME RootsOK, StackOK(stack), TopInv, UNCHANGED <<root, wip, stack, passive>>
    PROVE  StackOK(stack)' /\ TopInv'
<1>1. \A r \in Roots : SameWork(root'[r], root[r])
  BY DEF SameWork
<1>2. wip'.root = wip.root /\ wip'.lanes = wip.lanes
  OBVIOUS
<1> QED
  BY <1>1, <1>2, TopSame

(* A step that leaves the roots alone.                                     *)
LEMMA RootsAlone ==
    ASSUME Inv, HostOK', UNCHANGED <<root, wip, event, passive>>, StackOK(stack)', TopInv'
    PROVE  Good
<1>1. RootsOK' /\ NoWorkLeaves
  BY UnchangedRoots, InvParts
<1>2. EventOK' /\ PassiveOK' /\ PassiveKept
  BY InvParts DEF EventOK, EventInv, PassiveOK, PassiveKept
<1> QED
  BY <1>1, <1>2, InvPartsPrime DEF Good

-----------------------------------------------------------------------------
(* What the host starts, and promises.                                     *)

LEMMA UpdateThrowsGood == ASSUME Inv, UpdateThrows PROVE Good
<1> USE DEF UpdateThrows, UpdateDepthExceeded
<1>1. HostOK'
  BY InvParts DEF HostOK, hostVars, queueVars, promiseVars
<1>2. StackOK(stack)' /\ TopInv'
  BY InvParts, StackStays
<1> QED
  BY <1>1, <1>2, RootsAlone

LEMMA ResolveGood == ASSUME Inv, NEW w \in Wakeables, Resolve(w) PROVE Good
<1> USE DEF Resolve
<1>1. HostOK'
  BY InvParts DEF HostOK, hostVars, queueVars, promiseVars
<1>2. StackOK(stack)' /\ TopInv'
  BY InvParts, StackStays
<1> QED
  BY <1>1, <1>2, RootsAlone

LEMMA RunMicrotaskGood == ASSUME Inv, RunMicrotask PROVE Good
<1> USE DEF RunMicrotask
<1>1. HostOK'
  BY InvParts DEF HostOK, hostVars, promiseVars
<1>2. StackOK(stack)' /\ TopInv'
  BY StackStarts DEF Start
<1> QED
  BY <1>1, <1>2, RootsAlone

LEMMA RunPassiveTaskGood == ASSUME Inv, RunPassiveTask PROVE Good
<1> USE DEF RunPassiveTask
<1>1. HostOK'
  BY InvParts DEF HostOK, queueVars, promiseVars
<1>2. StackOK(stack)' /\ TopInv'
  BY StackStarts DEF Start
<1> QED
  BY <1>1, <1>2, RootsAlone

LEMMA RunFlushTaskGood == ASSUME Inv, RunFlushTask PROVE Good
<1> USE DEF RunFlushTask
<1>1. HostOK'
  BY InvParts DEF HostOK, queueVars, promiseVars
<1>2. StackOK(stack)' /\ TopInv'
  BY StackStarts DEF Start
<1> QED
  BY <1>1, <1>2, RootsAlone

LEMMA RunTaskGood == ASSUME Inv, NEW t \in tasks, RunTask(t) PROVE Good
<1> DEFINE f == Frame("performConcurrentWorkOnRoot", "begin", t.root)
           g == [f EXCEPT !.task = t.id, !.node = root[t.root].callbackNode]
<1>1. t.root \in Roots /\ t.id \in TaskIds /\ root[t.root].callbackNode \in TaskIds \cup {NoNode}
  BY InvParts DEF HostOK, TaskType, RootsOK, RootType
<1>2. f \in FrameType /\ f.root = t.root /\ f.pc = "begin"
  BY <1>1, LaneSets DEF Frame, FrameType, NoNode, NoLanes
<1> HIDE DEF f
<1>3. g \in FrameType /\ FrameOK(g) /\ g.pc = "begin"
  BY <1>1, <1>2 DEF FrameType, FrameOK, TaskIds
<1>4. stack' = <<g>>
  BY DEF RunTask, Start, f
<1> HIDE DEF g
<1>5. StackOK(stack)' /\ ~Idle' /\ Top' = g
  BY <1>3, <1>4, OneFrame
<1>6. TopInv'
  BY <1>3, <1>5, TopElsewhere
<1>7. HostOK'
  <2>1. tasks' \subseteq TaskType /\ IsFiniteSet(tasks')
    BY InvParts, FS_RemoveElement DEF HostOK, RunTask
  <2> QED
    BY <2>1, InvParts DEF HostOK, hostVars, queueVars, promiseVars, RunTask
<1>8. EventOK' /\ PassiveOK' /\ PassiveKept
  BY InvParts DEF EventOK, EventInv, EventType, PassiveOK, PassiveKept, RunTask
<1>9. RootsOK' /\ NoWorkLeaves
  BY UnchangedRoots, InvParts DEF RunTask
<1> QED
  BY <1>5, <1>6, <1>7, <1>8, <1>9, InvPartsPrime DEF Good

LEMMA TimeoutFiresGood == ASSUME Inv, NEW r \in Roots, TimeoutFires(r) PROVE Good
<1>1. root \in [Roots -> RootType]
  BY InvParts DEF RootsOK
<1>2. root' \in [Roots -> RootType] /\ \A q \in Roots : SameWork(root'[q], root[q])
  <2>1. [root[r] EXCEPT !.timeoutHandle = FALSE] \in RootType
    BY <1>1 DEF RootType
  <2>2. root' = [root EXCEPT ![r] = [root[r] EXCEPT !.timeoutHandle = FALSE]]
    BY DEF TimeoutFires
  <2>3. SameWork([root[r] EXCEPT !.timeoutHandle = FALSE], root[r])
    BY <1>1 DEF RootType, SameWork
  <2> QED BY <1>1, <2>1, <2>2, <2>3 DEF SameWork
<1>3. RootsOK' /\ NoWorkLeaves
  BY <1>2, InvParts, SameRoots DEF TimeoutFires, RootsOK
<1>4. StackOK(stack)' /\ TopInv'
  BY StackStarts, RootSchedulerAssumption DEF Start, TimeoutFires
<1>5. HostOK' /\ EventOK' /\ PassiveOK' /\ PassiveKept
  BY InvParts DEF HostOK, hostVars, queueVars, promiseVars, TimeoutFires, EventOK, EventInv,
                  PassiveOK, PassiveKept
<1> QED
  BY <1>3, <1>4, <1>5, InvPartsPrime DEF Good

-----------------------------------------------------------------------------
(* flushSyncCallbacks and flushPassiveEffects.                             *)

LEMMA BeginFlushGood == ASSUME Inv, BeginFlush PROVE Good
<1> USE DEF BeginFlush
<1>1. HostOK'
  BY InvParts DEF HostOK, hostVars, queueVars, promiseVars
<1>2. StackOK(stack)' /\ TopInv'
  BY InvParts, StackReturns, StackGoes DEF At
<1> QED
  BY <1>1, <1>2, RootsAlone

LEMMA NextSyncCallbackGood == ASSUME Inv, NextSyncCallback PROVE Good
<1> USE DEF NextSyncCallback
<1>1. syncQueue \in Seq(Roots) /\ ~Idle /\ StackOK(stack)
  BY InvParts DEF HostOK, At
<1>2. CASE syncQueue = << >>
  <2>1. HostOK'
    BY <1>2, InvParts DEF HostOK, hostVars, promiseVars
  <2>2. StackOK(stack)' /\ TopInv'
    BY <1>1, <1>2, StackReturns
  <2> QED BY <2>1, <2>2, RootsAlone
<1>3. CASE syncQueue # << >>
  <2>1. Head(syncQueue) \in Roots /\ Tail(syncQueue) \in Seq(Roots)
    BY <1>1, <1>3, RangeHeadTail
  <2>2. HostOK'
    BY <1>3, <2>1, InvParts DEF HostOK, hostVars, promiseVars
  <2>3. StackOK(stack)' /\ TopInv'
    BY <1>1, <1>3, <2>1, StackCalls, RootSchedulerAssumption DEF Waiting
  <2> QED BY <2>2, <2>3, RootsAlone
<1> QED
  BY <1>2, <1>3

LEMMA BeginPassiveEffectsGood == ASSUME Inv, BeginPassiveEffects PROVE Good
<1> USE DEF BeginPassiveEffects
<1>1. HostOK'
  BY InvParts DEF HostOK, hostVars, queueVars, promiseVars
<1>2. ~Idle /\ StackOK(stack) /\ PassiveOK
  BY InvParts DEF At
<1>3. CASE passive.root = NoRoot
  BY <1>1, <1>2, <1>3, StackReturns, RootsAlone
<1>4. CASE passive.root # NoRoot
  <2> DEFINE f == [Top EXCEPT !.pc = "effects", !.root = passive.root]
  <2>1. passive.root \in Roots /\ Top \in FrameType
    BY <1>2, <1>4, StackTop DEF PassiveOK
  <2>2. f \in FrameType /\ f.root \in Roots /\ f.pc = "effects" /\ f.proc = Top.proc
    BY <2>1 DEF FrameType
  <2>3. FrameOK(f)
    BY <2>2 DEF FrameOK, At
  <2>4. Continue(f)
    BY <1>4
  <2> HIDE DEF f
  <2>5. StackOK(stack)' /\ Top' = f
    BY <1>2, <2>2, <2>3, <2>4, StackContinue
  <2>6. TopInv'
    BY <2>2, <2>5, TopElsewhere
  <2>7. passive' = [root |-> NoRoot, lanes |-> NoLanes]
    BY <1>4
  <2>8. PassiveOK' /\ PassiveKept /\ EventOK'
    BY <2>7, LaneSets, InvParts DEF PassiveOK, PassiveKept, EventOK, EventInv
  <2>9. RootsOK' /\ NoWorkLeaves
    BY UnchangedRoots, InvParts
  <2> QED
    BY <1>1, <2>5, <2>6, <2>8, <2>9, InvPartsPrime DEF Good
<1> QED
  BY <1>3, <1>4

LEMMA EndPassiveEffectsGood == ASSUME Inv, EndPassiveEffects PROVE Good
<1> USE DEF EndPassiveEffects
<1>1. HostOK'
  BY InvParts DEF HostOK, hostVars, queueVars, promiseVars
<1>2. StackOK(stack)' /\ TopInv'
  BY InvParts, StackCalls DEF At, Waiting
<1> QED
  BY <1>1, <1>2, RootsAlone

LEMMA ReturnFromPassiveEffectsGood == ASSUME Inv, ReturnFromPassiveEffects PROVE Good
<1> USE DEF ReturnFromPassiveEffects
<1>1. HostOK'
  BY InvParts DEF HostOK, hostVars, queueVars, promiseVars
<1>2. StackOK(stack)' /\ TopInv'
  BY InvParts, StackReturns DEF At
<1> QED
  BY <1>1, <1>2, RootsAlone

-----------------------------------------------------------------------------
(* Steps of performSyncWorkOnRoot, performConcurrentWorkOnRoot and         *)
(* commitRoot that do not touch the trees.                                 *)

(* A function that runs for a root has one.                                *)
LEMMA TopHasRoot ==
    ASSUME StackOK(stack), ~Idle,
           Top.proc \in Procs \cup {"commitRoot"} \/ Top.pc = "effects"
    PROVE  Top.root \in Roots
  BY StackTop DEF FrameOK

LEMMA BeginPerformGood == ASSUME Inv, BeginPerform PROVE Good
<1> USE DEF BeginPerform
<1>1. HostOK'
  BY InvParts DEF HostOK, hostVars, queueVars, promiseVars
<1>2. StackOK(stack)' /\ TopInv'
  BY InvParts, StackCalls DEF Performing, Waiting
<1> QED
  BY <1>1, <1>2, RootsAlone

LEMMA CompareNodeGood == ASSUME Inv, CompareNode PROVE Good
<1> USE DEF CompareNode
<1>1. HostOK'
  BY InvParts DEF HostOK, hostVars, queueVars, promiseVars
<1>2. StackOK(stack)' /\ TopInv'
  BY InvParts, StackGoes, StackReturns DEF Performing
<1> QED
  BY <1>1, <1>2, RootsAlone

LEMMA YieldGood == ASSUME Inv, Yield PROVE Good
<1> USE DEF Yield
<1>1. HostOK'
  BY InvParts DEF HostOK, hostVars, queueVars, promiseVars
<1>2. StackOK(stack)' /\ TopInv'
  BY InvParts, StackGoes DEF Performing, Rendering
<1> QED
  BY <1>1, <1>2, RootsAlone

LEMMA ReturnFromPerformGood == ASSUME Inv, ReturnFromPerform PROVE Good
<1> USE DEF ReturnFromPerform
<1>1. CASE GoesOn
  <2>1. ~Idle /\ StackOK(stack) /\ Top \in FrameType /\ Top.root \in Roots
    BY InvParts, StackTop, TopHasRoot DEF Performing
  <2>2. Top.task \in TaskIds
    BY <1>1, <2>1, StackTop DEF FrameType, FrameOK, GoesOn, TaskIds
  <2>3. [id |-> Top.task, root |-> Top.root] \in TaskType
    BY <2>1, <2>2 DEF TaskType
  <2>4. tasks' \subseteq TaskType /\ IsFiniteSet(tasks')
    <3>1. tasks \subseteq TaskType /\ IsFiniteSet(tasks)
      BY InvParts DEF HostOK
    <3>2. tasks' = tasks \cup {[id |-> Top.task, root |-> Top.root]}
      BY <1>1
    <3> QED BY <2>3, <3>1, <3>2, FS_AddElement
  <2>5. HostOK'
    BY <2>4, InvParts DEF HostOK, hostVars, queueVars, promiseVars
  <2>6. StackOK(stack)' /\ TopInv'
    BY InvParts, StackReturns DEF Performing
  <2> QED BY <2>5, <2>6, RootsAlone
<1>2. CASE ~GoesOn
  <2>1. HostOK'
    BY <1>2, InvParts DEF HostOK, hostVars, queueVars, promiseVars
  <2>2. StackOK(stack)' /\ TopInv'
    BY InvParts, StackReturns DEF Performing
  <2> QED BY <2>1, <2>2, RootsAlone
<1> QED
  BY <1>1, <1>2

LEMMA FlushBeforeCommitGood == ASSUME Inv, FlushBeforeCommit PROVE Good
<1> USE DEF FlushBeforeCommit
<1>1. HostOK'
  BY InvParts DEF HostOK, hostVars, queueVars, promiseVars
<1>2. StackOK(stack)' /\ TopInv'
  BY InvParts, StackCalls DEF At, Waiting
<1> QED
  BY <1>1, <1>2, RootsAlone

LEMMA NothingToCommitGood == ASSUME Inv, NothingToCommit PROVE Good
<1> USE DEF NothingToCommit
<1>1. HostOK'
  BY InvParts DEF HostOK, hostVars, queueVars, promiseVars
<1>2. StackOK(stack)' /\ TopInv'
  BY InvParts, StackReturns DEF At
<1> QED
  BY <1>1, <1>2, RootsAlone

LEMMA ThrowUncaughtErrorGood == ASSUME Inv, ThrowUncaughtError PROVE Good
<1> USE DEF ThrowUncaughtError
<1>1. /\ StackOK(stack)' /\ TopInv'
      /\ flushTask' \in BOOLEAN /\ isFlushingSyncQueue' \in BOOLEAN
  BY InvParts, StackThrows DEF HostOK
<1>2. HostOK'
  BY <1>1, InvParts, RootSchedulerAssumption DEF HostOK, queueVars, promiseVars, Input
<1> QED
  BY <1>1, <1>2, RootsAlone

LEMMA FlushDiscreteEffectsGood == ASSUME Inv, FlushDiscreteEffects PROVE Good
<1> USE DEF FlushDiscreteEffects
<1>1. HostOK'
  BY InvParts DEF HostOK, hostVars, queueVars, promiseVars
<1>2. StackOK(stack)' /\ TopInv'
  BY InvParts, StackCalls, StackGoes DEF At, Waiting
<1> QED
  BY <1>1, <1>2, RootsAlone

LEMMA CountNestedUpdateGood == ASSUME Inv, CountNestedUpdate PROVE Good
<1> USE DEF CountNestedUpdate
<1>1. Top.root \in Roots
  BY InvParts, TopHasRoot DEF At
<1>2. nested' \in [root : Roots \cup {NoRoot}, count : Nat]
  BY <1>1, InvParts DEF HostOK
<1>3. HostOK'
  BY <1>2, InvParts DEF HostOK, hostVars, queueVars, promiseVars
<1>4. StackOK(stack)' /\ TopInv'
  BY InvParts, StackCalls DEF At, Waiting
<1> QED
  BY <1>3, <1>4, RootsAlone

LEMMA ReturnFromCommitGood == ASSUME Inv, ReturnFromCommit PROVE Good
<1> USE DEF ReturnFromCommit
<1>1. HostOK'
  BY InvParts DEF HostOK, hostVars, queueVars, promiseVars
<1>2. StackOK(stack)' /\ TopInv'
  BY InvParts, StackReturns DEF At
<1> QED
  BY <1>1, <1>2, RootsAlone

(* ensureRootIsScheduled by itself.                                        *)
LEMMA EnsureAlone ==
    ASSUME Inv, NEW r \in Roots, EnsureRootIsScheduled(r, root, WipLanes(r)), wip' = wip
    PROVE  /\ RootsOK' /\ NoWorkLeaves
           /\ tasks' \subseteq TaskType /\ IsFiniteSet(tasks')
           /\ syncQueue' \in Seq(Roots) /\ microtask' \in BOOLEAN
<1>1. TypeOK /\ IsFiniteSet(tasks) /\ RootsOK
  BY InvParts DEF Inv
<1>2. root \in [Roots -> RootType] /\ WipLanes(r) \in SUBSET Lane /\ wip \in WipType
  BY <1>1, LaneSets DEF RootsOK, WipType, WipLanes
<1>3. /\ root' \in [Roots -> RootType]
      /\ \A q \in Roots : SameWork(root'[q], root[q])
      /\ tasks' \subseteq TaskType /\ IsFiniteSet(tasks')
      /\ syncQueue' \in Seq(Roots) /\ microtask' \in BOOLEAN
  BY <1>1, <1>2, EnsureTypes
<1> QED
  BY <1>1, <1>2, <1>3, SameRoots

LEMMA ExitPerformGood == ASSUME Inv, ExitPerform PROVE Good
<1> USE DEF ExitPerform
<1>1. Top.root \in Roots
  BY InvParts, TopHasRoot DEF Performing
<1>2. /\ RootsOK' /\ NoWorkLeaves
      /\ tasks' \subseteq TaskType /\ IsFiniteSet(tasks')
      /\ syncQueue' \in Seq(Roots) /\ microtask' \in BOOLEAN
  BY <1>1, EnsureAlone
<1>3. StackOK(stack)' /\ TopInv'
  BY InvParts, StackGoes DEF Performing
<1>4. HostOK' /\ EventOK' /\ PassiveOK' /\ PassiveKept
  BY <1>2, InvParts DEF HostOK, hostVars, promiseVars, EventOK, EventInv, PassiveOK, PassiveKept
<1> QED
  BY <1>2, <1>3, <1>4, InvPartsPrime DEF Good

LEMMA EndCommitGood == ASSUME Inv, EndCommit PROVE Good
<1> USE DEF EndCommit
<1>1. Top.root \in Roots /\ Top \in FrameType
  BY InvParts, TopHasRoot, StackTop DEF At
<1>2. /\ RootsOK' /\ NoWorkLeaves
      /\ tasks' \subseteq TaskType /\ IsFiniteSet(tasks')
      /\ syncQueue' \in Seq(Roots) /\ microtask' \in BOOLEAN
  BY <1>1, EnsureAlone
<1>3. StackOK(stack)' /\ TopInv'
  BY InvParts, StackGoes DEF At
<1>4. HostOK' /\ EventOK'
  BY <1>2, InvParts DEF HostOK, hostVars, promiseVars, EventOK, EventInv
<1>5. PassiveKept
  BY InvParts DEF PassiveKept, TopInv
<1>6. PassiveOK'
  BY <1>1, InvParts DEF PassiveOK, FrameType
<1> QED
  BY <1>2, <1>3, <1>4, <1>5, <1>6, InvPartsPrime DEF Good

-----------------------------------------------------------------------------
(* Rendering.                                                              *)

(* Something happened in the render that is going on.                      *)
LEMMA RenderGoesOn ==
    ASSUME Inv, HostOK', UNCHANGED <<stack, passive, event>>,
           root' \in [Roots -> RootType], \A r \in Roots : SameWork(root'[r], root[r]),
           wip' \in WipType, wip'.root = wip.root, wip'.lanes = wip.lanes
    PROVE  Good
<1>1. RootsOK' /\ NoWorkLeaves
  BY InvParts, SameRoots
<1>2. TopInv'
  BY InvParts, TopSame
<1>3. EventOK' /\ PassiveOK' /\ PassiveKept /\ StackOK(stack)'
  BY InvParts DEF EventOK, EventInv, PassiveOK, PassiveKept
<1> QED
  BY <1>1, <1>2, <1>3, InvPartsPrime DEF Good

LEMMA SameWorkSelf == \A rt : SameWork(rt, rt)
  BY DEF SameWork

LEMMA SuspendGood == ASSUME Inv, NEW w \in Wakeables, Suspend(w) PROVE Good
<1> DEFINE r == Top.root
           rt == [root[r] EXCEPT !.thrown = @ \cup {w}]
<1>1. ~Idle /\ r \in Roots /\ root \in [Roots -> RootType] /\ wip \in WipType
  BY InvParts, TopHasRoot DEF Suspend, Rendering, Performing, RootsOK
<1>2. rt \in RootType /\ SameWork(rt, root[r])
  <2>1. \A st \in RootType :
          LET tt == [st EXCEPT !.thrown = @ \cup {w}]
          IN  tt \in RootType /\ SameWork(tt, st)
    BY DEF RootType, SameWork
  <2> QED BY <1>1, <2>1
<1>3. root' = [root EXCEPT ![r] = rt]
  BY DEF Suspend
<1> HIDE DEF rt
<1>4. root' \in [Roots -> RootType] /\ \A q \in Roots : SameWork(root'[q], root[q])
  BY <1>1, <1>2, <1>3, SameWorkSelf
<1>5. wip' \in WipType /\ wip'.root = wip.root /\ wip'.lanes = wip.lanes
  BY <1>1 DEF Suspend, WipType
<1>6. listeners' \subseteq [kind : {"ping", "retry"}, wakeable : Wakeables, root : Roots,
                            lanes : SUBSET Lane]
  BY <1>1, InvParts DEF Suspend, AttachWakeableListeners, HostOK, WipType
<1>7. HostOK'
  BY <1>6, InvParts, RootSchedulerAssumption DEF Suspend, Input, HostOK, hostVars, queueVars
<1> QED
  BY <1>4, <1>5, <1>7, RenderGoesOn DEF Suspend

LEMMA SuspendLanesWork ==
    ASSUME NEW rt \in RootType, NEW lanes \in SUBSET Lane, NEW w \in WipType
    PROVE  SuspendLanes(rt, lanes, w) \in RootType /\ SameWork(SuspendLanes(rt, lanes, w), rt)
  BY SuspendedWork DEF SuspendLanes, WipType

LEMMA FallbackCompletesGood == ASSUME Inv, FallbackCompletes PROVE Good
<1>1. ~Idle /\ Top.root \in Roots /\ root \in [Roots -> RootType] /\ wip \in WipType
  BY InvParts, TopHasRoot DEF FallbackCompletes, Rendering, Performing, RootsOK
<1>2. \A status \in {"Suspended", "SuspendedWithDelay"} :
        /\ Suspended(status) \in WipType
        /\ Suspended(status).root = wip.root /\ Suspended(status).lanes = wip.lanes
  BY <1>1 DEF Suspended, WipType
<1>3. wip' \in WipType /\ wip'.root = wip.root /\ wip'.lanes = wip.lanes
  BY <1>1, <1>2 DEF FallbackCompletes, WipType
<1>4. root' \in [Roots -> RootType] /\ \A q \in Roots : SameWork(root'[q], root[q])
  <2>1. CASE root' = root
    BY <1>1, <2>1, SameWorkSelf
  <2>2. CASE root' = [q \in Roots |-> IF q = Top.root THEN SuspendLanes(root[q], wip.lanes, wip)
                                      ELSE root[q]]
    <3>1. wip.lanes \in SUBSET Lane
      BY <1>1 DEF WipType
    <3>2. \A q \in Roots : /\ SuspendLanes(root[q], wip.lanes, wip) \in RootType
                           /\ SameWork(SuspendLanes(root[q], wip.lanes, wip), root[q])
      BY <1>1, <3>1, SuspendLanesWork
    <3> QED BY <1>1, <2>2, <3>2, SameWorkSelf
  <2> QED BY <2>1, <2>2 DEF FallbackCompletes
<1>5. HostOK'
  BY InvParts DEF FallbackCompletes, HostOK, hostVars, queueVars, promiseVars
<1> QED
  BY <1>3, <1>4, <1>5, RenderGoesOn DEF FallbackCompletes

LEMMA ComponentThrowsGood == ASSUME Inv, ComponentThrows PROVE Good
<1>1. wip \in WipType /\ root \in [Roots -> RootType]
  BY InvParts DEF RootsOK
<1>2. wip' \in WipType /\ wip'.root = wip.root /\ wip'.lanes = wip.lanes
  BY <1>1 DEF ComponentThrows, WipType
<1>3. HostOK'
  BY InvParts, RootSchedulerAssumption
     DEF ComponentThrows, Input, HostOK, hostVars, queueVars, promiseVars
<1> QED
  BY <1>1, <1>2, <1>3, RenderGoesOn, SameWorkSelf DEF ComponentThrows

LEMMA RenderUpdateThrowsGood == ASSUME Inv, RenderUpdateThrows PROVE Good
<1>1. wip \in WipType /\ root \in [Roots -> RootType]
  BY InvParts DEF RootsOK
<1>2. wip' \in WipType /\ wip'.root = wip.root /\ wip'.lanes = wip.lanes
  BY <1>1 DEF RenderUpdateThrows, WipType
<1>3. HostOK'
  BY InvParts
     DEF RenderUpdateThrows, UpdateDepthExceeded, HostOK, hostVars, queueVars, promiseVars
<1> QED
  BY <1>1, <1>2, <1>3, RenderGoesOn, SameWorkSelf DEF RenderUpdateThrows

-----------------------------------------------------------------------------
(* Updates.                                                                *)

LEMMA UpdateWork ==
    ASSUME NEW r \in Roots, NEW rt \in RootType, NEW lane \in Lane, NEW w,
           w.root = wip.root, w.lanes = wip.lanes, WorkOf(r, rt, wip)
    PROVE  LET st == MarkRootUpdated(MarkUpdateLaneFromFiberToRoot(r, rt, lane), lane)
           IN  st \in RootType /\ WorkOf(r, st, w) /\ rt.currentLanes \subseteq st.currentLanes
<1> DEFINE mt == MarkUpdateLaneFromFiberToRoot(r, rt, lane)
           st == MarkRootUpdated(mt, lane)
<1>1. /\ mt \in RootType
      /\ mt.pendingLanes = rt.pendingLanes
      /\ mt.currentLanes = rt.currentLanes \cup {lane}
      /\ rt.workLanes \subseteq mt.workLanes
      /\ wip.root = r \/ rt.finishedWork => mt.workLanes = rt.workLanes \cup {lane}
      /\ mt.finishedWork = rt.finishedWork /\ mt.finishedLanes = rt.finishedLanes
  BY DEF MarkUpdateLaneFromFiberToRoot, RootType
<1> HIDE DEF mt
<1>2. /\ st \in RootType
      /\ st.pendingLanes = mt.pendingLanes \cup {lane}
      /\ st.currentLanes = mt.currentLanes /\ st.workLanes = mt.workLanes
      /\ st.finishedWork = mt.finishedWork /\ st.finishedLanes = mt.finishedLanes
  BY <1>1, UpdatedWork
<1> HIDE DEF st
<1>3. WorkOf(r, st, w) /\ rt.currentLanes \subseteq st.currentLanes
  BY <1>1, <1>2 DEF WorkOf, Keeps
<1> QED
  BY <1>2, <1>3 DEF st, mt

LEMMA SameWorkOf ==
    ASSUME NEW r, NEW rt, NEW st, NEW w, SameWork(st, rt), WorkOf(r, rt, w)
    PROVE  WorkOf(r, st, w)
  BY DEF SameWork, WorkOf, Keeps

EnsureDone ==
    /\ RootsOK' /\ NoWorkLeaves
    /\ tasks' \subseteq TaskType /\ IsFiniteSet(tasks')
    /\ syncQueue' \in Seq(Roots) /\ microtask' \in BOOLEAN

(* ensureRootIsScheduled after a change of the roots.                      *)
LEMMA EnsureRoots ==
    ASSUME Inv, NEW r \in Roots, NEW rs \in [Roots -> RootType], NEW lanes \in SUBSET Lane,
           EnsureRootIsScheduled(r, rs, lanes), wip' \in WipType,
           \A q \in Roots : WorkOf(q, rs[q], wip')
                            /\ root[q].currentLanes \subseteq rs[q].currentLanes
    PROVE  EnsureDone
<1>1. /\ root' \in [Roots -> RootType]
      /\ \A q \in Roots : SameWork(root'[q], rs[q])
      /\ tasks' \subseteq TaskType /\ IsFiniteSet(tasks')
      /\ syncQueue' \in Seq(Roots) /\ microtask' \in BOOLEAN
  BY EnsureTypes DEF Inv
<1>2. ASSUME NEW q \in Roots
      PROVE  WorkOf(q, root'[q], wip') /\ root[q].currentLanes \subseteq root'[q].currentLanes
  <2>1. SameWork(root'[q], rs[q]) /\ WorkOf(q, rs[q], wip')
    BY <1>1
  <2>2. WorkOf(q, root'[q], wip')
    BY <2>1, SameWorkOf
  <2> QED BY <2>1, <2>2 DEF SameWork
<1> QED
  BY <1>1, <1>2 DEF EnsureDone, RootsOK, WorkInv, NoWorkLeaves

(* ensureRootIsScheduled after a change of one root.                       *)
LEMMA EnsureRoot ==
    ASSUME Inv, NEW r \in Roots, NEW rt \in RootType,
           EnsureRootIsScheduled(r, [root EXCEPT ![r] = rt], WipLanes(r)),
           wip' \in WipType, wip'.root = wip.root, wip'.lanes = wip.lanes,
           WorkOf(r, rt, wip'), root[r].currentLanes \subseteq rt.currentLanes
    PROVE  EnsureDone
<1> DEFINE rs == [root EXCEPT ![r] = rt]
<1>1. root \in [Roots -> RootType] /\ wip \in WipType /\ WorkInv
  BY InvParts DEF RootsOK
<1>2. WipLanes(r) \in SUBSET Lane
  BY <1>1, LaneSets DEF WipLanes, WipType
<1>3. rs \in [Roots -> RootType]
  BY <1>1
<1>4. ASSUME NEW q \in Roots
      PROVE  WorkOf(q, rs[q], wip') /\ root[q].currentLanes \subseteq rs[q].currentLanes
  BY <1>1 DEF WorkInv, WorkOf
<1> HIDE DEF rs
<1>5. EnsureRootIsScheduled(r, rs, WipLanes(r))
  BY DEF rs
<1> QED
  BY <1>2, <1>3, <1>4, <1>5, EnsureRoots

LEMMA ScheduleUpdateOnFiberDone ==
    ASSUME Inv, NEW r \in Roots, NEW lane \in Lane, ScheduleUpdateOnFiber(r, lane)
    PROVE  EnsureDone
<1> DEFINE interleaved == r = wip.root
           w == IF interleaved
                THEN [wip EXCEPT !.interleavedUpdatedLanes = @ \cup {lane}]
                ELSE wip
           updated == MarkRootUpdated(MarkUpdateLaneFromFiberToRoot(r, root[r], lane), lane)
           rt == IF interleaved /\ wip.exitStatus = "SuspendedWithDelay"
                 THEN SuspendLanes(updated, wip.lanes, w)
                 ELSE updated
<1>1. wip' = w /\ EnsureRootIsScheduled(r, [root EXCEPT ![r] = rt], WipLanes(r))
  BY DEF ScheduleUpdateOnFiber
<1>2. root[r] \in RootType /\ wip \in WipType /\ WorkOf(r, root[r], wip)
  BY InvParts DEF RootsOK, WorkInv
<1>3. w \in WipType /\ w.root = wip.root /\ w.lanes = wip.lanes /\ wip.lanes \in SUBSET Lane
  BY <1>2 DEF WipType
<1> HIDE DEF w
<1>4. /\ updated \in RootType /\ WorkOf(r, updated, w)
      /\ root[r].currentLanes \subseteq updated.currentLanes
  BY <1>2, <1>3, UpdateWork
<1> HIDE DEF updated
<1>5. /\ SuspendLanes(updated, wip.lanes, w) \in RootType
      /\ SameWork(SuspendLanes(updated, wip.lanes, w), updated)
  BY <1>3, <1>4, SuspendLanesWork
<1>6. rt \in RootType /\ WorkOf(r, rt, w) /\ root[r].currentLanes \subseteq rt.currentLanes
  BY <1>4, <1>5, SameWorkOf DEF SameWork
<1> HIDE DEF rt
<1> QED
  BY <1>1, <1>3, <1>6, EnsureRoot

LEMMA ScheduleWorkDone ==
    ASSUME Inv, NEW r \in Roots, NEW lane \in Lane, ScheduleWork(r, lane), wip' = wip
    PROVE  EnsureDone
<1> DEFINE rt == MarkRootUpdated(MarkUpdateLaneFromFiberToRoot(r, root[r], lane), lane)
<1>1. EnsureRootIsScheduled(r, [root EXCEPT ![r] = rt], WipLanes(r))
  BY DEF ScheduleWork
<1>2. root[r] \in RootType /\ wip \in WipType /\ WorkOf(r, root[r], wip)
  BY InvParts DEF RootsOK, WorkInv
<1>3. /\ rt \in RootType /\ WorkOf(r, rt, wip)
      /\ root[r].currentLanes \subseteq rt.currentLanes
  BY <1>2, UpdateWork
<1> HIDE DEF rt
<1> QED
  BY <1>1, <1>2, <1>3, EnsureRoot

LEMMA ClaimTransitionLaneType ==
    ASSUME EventOK, TransitionLanes # NoLanes
    PROVE  /\ TransitionLane \in Lane
           /\ event' = ClaimTransitionLane => EventOK'
<1>1. /\ event \in EventType /\ event.nextTransitionLane \in TransitionLanes
      /\ event.transitionLane \in Lane \cup {NoLane}
  BY DEF EventOK, EventInv, NoLanes, EventType
<1>2. TransitionLane \in Lane
  BY <1>1, LaneSets DEF TransitionLane
<1>3. \A l : NextInCycle(l, TransitionLanes) \in TransitionLanes
  BY LaneSets, NextInCycleType DEF NoLanes
<1>4. ASSUME event' = ClaimTransitionLane PROVE EventOK'
  <2>1. event' \in EventType /\ event'.nextTransitionLane \in TransitionLanes
    BY <1>1, <1>2, <1>3, <1>4, LaneSets DEF ClaimTransitionLane, EventType
  <2> QED BY <2>1 DEF EventOK, EventInv
<1> QED
  BY <1>2, <1>4

LEMMA UserUpdateDone ==
    ASSUME Inv, NEW r \in Roots, NEW lanes \in SUBSET Lane, UserUpdate(r, lanes)
    PROVE  EnsureDone /\ EventOK' /\ inputs' \in 0..MaxInputs
<1>1. EventOK
  BY InvParts
<1>2. inputs' \in 0..MaxInputs
  BY InvParts, RootSchedulerAssumption DEF UserUpdate, Input, HostOK
<1>3. CASE \E lane \in lanes : ScheduleUpdateOnFiber(r, lane) /\ UNCHANGED event
  <2>1. PICK lane \in Lane : ScheduleUpdateOnFiber(r, lane)
    BY <1>3
  <2>2. EnsureDone
    BY <2>1, ScheduleUpdateOnFiberDone
  <2> QED BY <1>1, <1>2, <1>3, <2>2 DEF EventOK, EventInv
<1>4. CASE /\ TransitionLanes # NoLanes
           /\ ScheduleUpdateOnFiber(r, TransitionLane)
           /\ event' = ClaimTransitionLane
  <2>1. TransitionLane \in Lane /\ EventOK'
    BY <1>1, <1>4, ClaimTransitionLaneType
  <2>2. EnsureDone
    BY <1>4, <2>1, ScheduleUpdateOnFiberDone
  <2> QED BY <1>2, <2>1, <2>2
<1> QED
  BY <1>3, <1>4 DEF UserUpdate

(* No frame renders.                                                       *)
LEMMA TopKept ==
    ASSUME TopInv, UNCHANGED <<stack, passive>>, StackOK(stack),
           ~Idle => Top.pc \notin {"render", "rendered"}
    PROVE  TopInv' /\ StackOK(stack)' /\ (PassiveOK => PassiveOK') /\ PassiveKept
<1>1. Top' = Top /\ Idle' = Idle
  BY DEF Top, Idle
<1> QED
  BY <1>1 DEF TopInv, Performing, At, PassiveOK, PassiveKept

LEMMA UpdateGood == ASSUME Inv, NEW r \in Roots, Update(r) PROVE Good
<1>1. EnsureDone /\ EventOK' /\ inputs' \in 0..MaxInputs
  BY UserUpdateDone, RootSchedulerAssumption DEF Update
<1>2. HostOK'
  BY <1>1, InvParts DEF Update, HostOK, hostVars, promiseVars, EnsureDone
<1>3. TopInv' /\ StackOK(stack)' /\ PassiveOK' /\ PassiveKept
  BY InvParts, TopKept DEF Update
<1> QED
  BY <1>1, <1>2, <1>3, InvPartsPrime DEF Good, EnsureDone

LEMMA FlushSyncGood == ASSUME Inv, NEW r \in Roots, FlushSync(r) PROVE Good
<1>1. EnsureDone /\ inputs' \in 0..MaxInputs
  BY ScheduleUpdateOnFiberDone, LaneSets, InvParts, RootSchedulerAssumption
     DEF FlushSync, Input, HostOK
<1>2. HostOK'
  BY <1>1, InvParts DEF FlushSync, HostOK, hostVars, promiseVars, EnsureDone
<1>3. StackOK(stack)' /\ TopInv'
  BY StackStarts DEF FlushSync
<1>4. EventOK' /\ PassiveOK' /\ PassiveKept
  BY InvParts DEF FlushSync, EventOK, EventInv, PassiveOK, PassiveKept
<1> QED
  BY <1>1, <1>2, <1>3, <1>4, InvPartsPrime DEF Good, EnsureDone

LEMMA EffectUpdatesGood == ASSUME Inv, NEW r \in Roots, EffectUpdates(r) PROVE Good
<1>1. EffectLanes \in SUBSET Lane
  BY LaneSets, RootSchedulerAssumption DEF EffectLanes
<1>2. EnsureDone /\ EventOK' /\ inputs' \in 0..MaxInputs
  BY <1>1, UserUpdateDone DEF EffectUpdates
<1>3. HostOK'
  BY <1>2, InvParts DEF EffectUpdates, HostOK, hostVars, promiseVars, EnsureDone
<1>4. TopInv' /\ StackOK(stack)' /\ PassiveOK' /\ PassiveKept
  BY InvParts, TopKept DEF EffectUpdates, At
<1> QED
  BY <1>2, <1>3, <1>4, InvPartsPrime DEF Good, EnsureDone

LEMMA EffectThrowsGood == ASSUME Inv, EffectThrows PROVE Good
<1>1. Top.root \in Roots
  BY InvParts, TopHasRoot DEF EffectThrows, At
<1>2. EnsureDone
  BY <1>1, LaneSets, ScheduleWorkDone DEF EffectThrows
<1>3. HostOK'
  BY <1>2, InvParts, RootSchedulerAssumption
     DEF EffectThrows, Input, HostOK, hostVars, promiseVars, EnsureDone
<1>4. TopInv' /\ StackOK(stack)' /\ PassiveOK' /\ PassiveKept
  BY InvParts, TopKept DEF EffectThrows, At
<1>5. EventOK'
  BY InvParts DEF EffectThrows, EventOK, EventInv
<1> QED
  BY <1>2, <1>3, <1>4, <1>5, InvPartsPrime DEF Good, EnsureDone

LEMMA EffectUpdateThrowsGood == ASSUME Inv, EffectUpdateThrows PROVE Good
<1>1. Top.root \in Roots
  BY InvParts, TopHasRoot DEF EffectUpdateThrows, At
<1>2. EnsureDone
  BY <1>1, LaneSets, ScheduleWorkDone DEF EffectUpdateThrows
<1>3. HostOK'
  BY <1>2, InvParts
     DEF EffectUpdateThrows, UpdateDepthExceeded, HostOK, hostVars, promiseVars, EnsureDone
<1>4. TopInv' /\ StackOK(stack)' /\ PassiveOK' /\ PassiveKept
  BY InvParts, TopKept DEF EffectUpdateThrows, At
<1>5. EventOK'
  BY InvParts DEF EffectUpdateThrows, EventOK, EventInv
<1> QED
  BY <1>2, <1>3, <1>4, <1>5, InvPartsPrime DEF Good, EnsureDone

(* Only the lanes of the tree that is rendered change.                     *)
LEMMA RenderUpdates ==
    ASSUME Inv, Rendering, HostOK', UNCHANGED <<stack, passive, event>>,
           NEW rt \in RootType, root' = [root EXCEPT ![Top.root] = rt],
           WorkOf(Top.root, rt, wip), root[Top.root].currentLanes \subseteq rt.currentLanes,
           wip' \in WipType, wip'.root = wip.root, wip'.lanes = wip.lanes
    PROVE  Good
<1> DEFINE r == Top.root
<1>1. ~Idle /\ r \in Roots /\ root \in [Roots -> RootType] /\ WorkInv /\ StackOK(stack) /\ TopInv
  BY InvParts, TopHasRoot DEF Rendering, Performing, RootsOK
<1>2. RootsOK' /\ NoWorkLeaves
  <2>1. root' \in [Roots -> RootType]
    BY <1>1
  <2>2. ASSUME NEW q \in Roots
        PROVE  WorkOf(q, root'[q], wip') /\ root[q].currentLanes \subseteq root'[q].currentLanes
    BY <1>1 DEF WorkInv, WorkOf
  <2> QED BY <2>1, <2>2 DEF RootsOK, WorkInv, NoWorkLeaves
<1>3. TopInv' /\ StackOK(stack)'
  <2>1. Top' = Top /\ Idle' = Idle
    BY DEF Top, Idle
  <2> QED BY <1>1, <2>1 DEF TopInv, Performing, At, Rendering
<1>4. EventOK' /\ PassiveOK' /\ PassiveKept
  BY InvParts DEF EventOK, EventInv, PassiveOK, PassiveKept
<1> QED
  BY <1>2, <1>3, <1>4, InvPartsPrime DEF Good

LEMMA RenderPhaseUpdateGood == ASSUME Inv, RenderPhaseUpdate PROVE Good
<1> DEFINE r == Top.root
           lane == HighestPriorityLane(wip.lanes)
           marked == MarkUpdateLaneFromFiberToRoot(r, root[r], lane)
<1>1. /\ Rendering /\ ~Idle /\ r \in Roots /\ root[r] \in RootType /\ wip \in WipType
      /\ root \in [Roots -> RootType] /\ WorkOf(r, root[r], wip)
      /\ wip.root = r /\ wip.lanes \in SUBSET Lane /\ wip.lanes # {}
  BY InvParts, TopHasRoot
     DEF RenderPhaseUpdate, Rendering, Performing, RootsOK, WorkInv, TopInv, WipType, NoLanes
<1>2. lane \in wip.lanes /\ lane \in Lane
  BY <1>1, HighestIsOne
<1>3. PICK left \in {root[r].workLanes, marked.workLanes} :
         root' = [root EXCEPT ![r] = MarkRootUpdated([marked EXCEPT !.workLanes = left], lane)]
  BY DEF RenderPhaseUpdate
<1>4. wip' = [wip EXCEPT !.renderPhaseUpdatedLanes = @ \cup {lane}]
  BY DEF RenderPhaseUpdate
<1> HIDE DEF lane
<1>5. /\ marked \in RootType
      /\ marked.pendingLanes = root[r].pendingLanes
      /\ marked.currentLanes = root[r].currentLanes \cup {lane}
      /\ root[r].workLanes \subseteq marked.workLanes
      /\ marked.finishedWork = root[r].finishedWork
      /\ marked.finishedLanes = root[r].finishedLanes
  BY <1>1, <1>2 DEF MarkUpdateLaneFromFiberToRoot, RootType
<1> HIDE DEF marked
<1> DEFINE mt == [marked EXCEPT !.workLanes = left]
           rt == MarkRootUpdated(mt, lane)
<1>6. /\ mt \in RootType /\ mt.workLanes = left
      /\ mt.pendingLanes = marked.pendingLanes /\ mt.currentLanes = marked.currentLanes
      /\ mt.finishedWork = marked.finishedWork /\ mt.finishedLanes = marked.finishedLanes
  BY <1>1, <1>5 DEF RootType
<1>7. root[r].workLanes \subseteq left
  BY <1>3, <1>5
<1> HIDE DEF mt
<1>8. /\ rt \in RootType
      /\ rt.pendingLanes = mt.pendingLanes \cup {lane}
      /\ rt.currentLanes = mt.currentLanes /\ rt.workLanes = mt.workLanes
      /\ rt.finishedWork = mt.finishedWork /\ rt.finishedLanes = mt.finishedLanes
  BY <1>2, <1>6, UpdatedWork
<1>9. root' = [root EXCEPT ![r] = rt]
  BY <1>3 DEF mt
<1> HIDE DEF rt
<1>10. WorkOf(r, rt, wip) /\ root[r].currentLanes \subseteq rt.currentLanes
  BY <1>1, <1>2, <1>5, <1>6, <1>7, <1>8 DEF WorkOf, Keeps
<1>11. wip' \in WipType /\ wip'.root = wip.root /\ wip'.lanes = wip.lanes
  BY <1>1, <1>2, <1>4 DEF WipType
<1>12. HostOK'
  BY InvParts, RootSchedulerAssumption
     DEF RenderPhaseUpdate, Input, HostOK, hostVars, queueVars, promiseVars
<1> QED
  BY <1>1, <1>8, <1>9, <1>10, <1>11, <1>12, RenderUpdates DEF RenderPhaseUpdate

LEMMA DeferHiddenTreeGood == ASSUME Inv, DeferHiddenTree PROVE Good
<1> DEFINE r == Top.root
           rt == [root[r] EXCEPT !.workLanes = @ \cup {OffscreenLane}]
<1>1. /\ Rendering /\ ~Idle /\ r \in Roots /\ root[r] \in RootType /\ wip \in WipType
      /\ root \in [Roots -> RootType] /\ WorkOf(r, root[r], wip)
  BY InvParts, TopHasRoot DEF DeferHiddenTree, Rendering, Performing, RootsOK, WorkInv
<1>2. OffscreenLane \in Lane
  BY DEF DeferHiddenTree
<1>3. \A st \in RootType :
         LET tt == [st EXCEPT !.workLanes = @ \cup {OffscreenLane}]
         IN  /\ tt \in RootType /\ tt.workLanes = st.workLanes \cup {OffscreenLane}
             /\ tt.pendingLanes = st.pendingLanes /\ tt.currentLanes = st.currentLanes
             /\ tt.finishedWork = st.finishedWork /\ tt.finishedLanes = st.finishedLanes
  BY <1>2 DEF RootType
<1>4. /\ rt \in RootType /\ rt.workLanes = root[r].workLanes \cup {OffscreenLane}
      /\ rt.pendingLanes = root[r].pendingLanes /\ rt.currentLanes = root[r].currentLanes
      /\ rt.finishedWork = root[r].finishedWork /\ rt.finishedLanes = root[r].finishedLanes
  BY <1>1, <1>3
<1>5. root' = [root EXCEPT ![r] = rt]
  BY DEF DeferHiddenTree
<1> HIDE DEF rt
<1>6. WorkOf(r, rt, wip) /\ root[r].currentLanes \subseteq rt.currentLanes
  BY <1>1, <1>4 DEF WorkOf, Keeps
<1>7. HostOK'
  BY InvParts, RootSchedulerAssumption
     DEF DeferHiddenTree, Input, HostOK, hostVars, queueVars, promiseVars
<1> QED
  BY <1>1, <1>4, <1>5, <1>6, <1>7, RenderUpdates DEF DeferHiddenTree

-----------------------------------------------------------------------------
(* Renders that start afresh.                                              *)

LEMMA FreshWipType ==
    ASSUME NEW r \in Roots, NEW lanes \in SUBSET Lane
    PROVE  /\ FreshWip(r, lanes) \in WipType
           /\ FreshWip(r, lanes).root = r /\ FreshWip(r, lanes).lanes = lanes
  BY LaneSets DEF FreshWip, NoWip, WipType

LEMMA NoWipType == NoWip \in WipType /\ NoWip.root = NoRoot
  BY LaneSets DEF NoWip, WipType

LEMMA FreshRootsWork ==
    ASSUME RootsOK, NEW r \in Roots, NEW lanes \in SUBSET Lane
    PROVE  /\ FreshRoots(r, lanes) \in [Roots -> RootType]
           /\ \A q \in Roots :
                /\ WorkOf(q, FreshRoots(r, lanes)[q], FreshWip(r, lanes))
                /\ root[q].currentLanes \subseteq FreshRoots(r, lanes)[q].currentLanes
<1> DEFINE fresh(q) == [root[q] EXCEPT !.finishedWork = FALSE, !.finishedLanes = NoLanes,
                                       !.timeoutHandle = FALSE,
                                       !.workLanes = root[q].currentLanes \ lanes,
                                       !.thrown = {}]
           left(q) == [root[q] EXCEPT !.workLanes = NoLanes, !.thrown = {}]
<1>1. ASSUME NEW q \in Roots
      PROVE  /\ FreshRoots(r, lanes)[q] \in RootType
             /\ WorkOf(q, FreshRoots(r, lanes)[q], FreshWip(r, lanes))
             /\ root[q].currentLanes \subseteq FreshRoots(r, lanes)[q].currentLanes
  <2>1. root[q] \in RootType /\ WorkOf(q, root[q], wip)
    BY DEF RootsOK, WorkInv
  <2>2. CASE q = r
    <3>1. FreshRoots(r, lanes)[q] = fresh(q)
      BY <2>2 DEF FreshRoots
    <3>2. fresh(q) \in RootType
      BY <2>1, LaneSets DEF RootType
    <3>3. /\ fresh(q).pendingLanes = root[q].pendingLanes
          /\ fresh(q).currentLanes = root[q].currentLanes
          /\ fresh(q).workLanes = root[q].currentLanes \ lanes
          /\ fresh(q).finishedWork = FALSE
      BY <2>1 DEF RootType
    <3> HIDE DEF fresh
    <3>4. WorkOf(q, fresh(q), FreshWip(r, lanes))
      BY <2>1, <3>3, FreshWipType DEF WorkOf, Keeps
    <3> QED BY <3>1, <3>2, <3>3, <3>4
  <2>3. CASE q = wip.root /\ q # r
    <3>1. FreshRoots(r, lanes)[q] = left(q)
      BY <2>3 DEF FreshRoots
    <3>2. left(q) \in RootType
      BY <2>1, LaneSets DEF RootType
    <3>3. /\ left(q).pendingLanes = root[q].pendingLanes
          /\ left(q).currentLanes = root[q].currentLanes
          /\ left(q).finishedWork = root[q].finishedWork
      BY <2>1 DEF RootType
    <3> HIDE DEF left
    <3>4. WorkOf(q, left(q), FreshWip(r, lanes))
      BY <2>1, <2>3, <3>3, FreshWipType DEF WorkOf
    <3> QED BY <3>1, <3>2, <3>3, <3>4
  <2>4. CASE q # wip.root /\ q # r
    <3>1. FreshRoots(r, lanes)[q] = root[q]
      BY <2>4 DEF FreshRoots
    <3>2. WorkOf(q, root[q], FreshWip(r, lanes))
      BY <2>1, <2>4, FreshWipType DEF WorkOf
    <3> QED BY <2>1, <3>1, <3>2
  <2> QED BY <2>2, <2>3, <2>4
<1>2. FreshRoots(r, lanes) \in [Roots -> RootType]
  <2>1. FreshRoots(r, lanes) = [q \in Roots |-> FreshRoots(r, lanes)[q]]
    BY DEF FreshRoots
  <2> QED BY <1>1, <2>1
<1> QED
  BY <1>1, <1>2

LEMMA RenderRootDone ==
    ASSUME RootsOK, StackOK(stack), ~Idle,
           NEW frame \in FrameType, FrameOK(frame), frame.proc \in Procs,
           NEW lanes \in SUBSET Lane, lanes # {}, RenderRoot(frame, lanes)
    PROVE  RootsOK' /\ NoWorkLeaves /\ StackOK(stack)' /\ TopInv'
<1> DEFINE r == frame.root
           f == [frame EXCEPT !.pc = "render", !.lanes = lanes]
<1>1. r \in Roots
  BY DEF FrameOK
<1>2. /\ f \in FrameType /\ f.pc = "render" /\ f.lanes = lanes /\ f.root = r
      /\ f.proc = frame.proc /\ f.task = frame.task
  BY DEF FrameType
<1>3. FrameOK(f)
  BY <1>1, <1>2 DEF FrameOK
<1>4. Continue(f)
  BY DEF RenderRoot
<1> HIDE DEF f
<1>5. StackOK(stack)' /\ ~Idle' /\ Top' = f
  BY <1>2, <1>3, <1>4, StackContinue
<1>6. RootsOK' /\ NoWorkLeaves /\ wip'.root = r /\ wip'.lanes = lanes
  <2>1. CASE root' = FreshRoots(r, lanes) /\ wip' = FreshWip(r, lanes)
    BY <1>1, <2>1, FreshRootsWork, FreshWipType DEF RootsOK, WorkInv, NoWorkLeaves
  <2>2. CASE wip.root = r /\ wip.lanes = lanes /\ UNCHANGED <<root, wip>>
    BY <2>2, UnchangedRoots
  <2> QED BY <2>1, <2>2 DEF RenderRoot
<1>7. TopInv'
  BY <1>2, <1>5, <1>6 DEF TopInv, Performing, At, NoLanes, Procs
<1> QED
  BY <1>5, <1>6, <1>7

LEMMA ChooseLanesSyncGood == ASSUME Inv, ChooseLanesSync PROVE Good
<1> DEFINE r == Top.root
           lanes == NextLanes(root[r], NoLanes)
<1>1. /\ ~Idle /\ r \in Roots /\ Top \in FrameType /\ FrameOK(Top) /\ StackOK(stack)
      /\ RootsOK /\ root[r] \in RootType /\ Top.proc = "performSyncWorkOnRoot"
  BY InvParts, TopHasRoot, StackTop DEF ChooseLanesSync, At, Procs, RootsOK
<1>2. lanes \in SUBSET Lane
  BY <1>1, LaneSets, NextLanesType
<1>3. CASE /\ SyncLane \in lanes
           /\ RenderRoot([Top EXCEPT !.sync = TRUE], lanes)
           /\ UNCHANGED <<tasks, queueVars>>
  <2> DEFINE f == [Top EXCEPT !.sync = TRUE]
  <2>1. /\ f \in FrameType /\ f.proc = Top.proc /\ f.pc = Top.pc /\ f.root = r
        /\ f.task = Top.task
    BY <1>1 DEF FrameType
  <2>2. FrameOK(f) /\ f.proc \in Procs
    BY <1>1, <2>1 DEF FrameOK, Procs
  <2>3. RenderRoot(f, lanes) /\ lanes # {}
    BY <1>3
  <2> HIDE DEF f, lanes
  <2>4. RootsOK' /\ NoWorkLeaves /\ StackOK(stack)' /\ TopInv'
    BY <1>1, <1>2, <2>1, <2>2, <2>3, RenderRootDone
  <2>5. HostOK' /\ EventOK' /\ PassiveOK' /\ PassiveKept
    BY <1>3, InvParts DEF ChooseLanesSync, HostOK, hostVars, queueVars, promiseVars,
                          EventOK, EventInv, PassiveOK, PassiveKept
  <2> QED BY <2>4, <2>5, InvPartsPrime DEF Good
<1>4. CASE /\ EnsureRootIsScheduled(r, root, WipLanes(r))
           /\ Return
           /\ UNCHANGED wip
  <2>1. /\ RootsOK' /\ NoWorkLeaves
        /\ tasks' \subseteq TaskType /\ IsFiniteSet(tasks')
        /\ syncQueue' \in Seq(Roots) /\ microtask' \in BOOLEAN
    BY <1>1, <1>4, EnsureAlone
  <2>2. StackOK(stack)' /\ TopInv'
    BY <1>1, <1>4, StackReturns
  <2>3. HostOK' /\ EventOK' /\ PassiveOK' /\ PassiveKept
    BY <2>1, InvParts DEF ChooseLanesSync, HostOK, hostVars, promiseVars,
                          EventOK, EventInv, PassiveOK, PassiveKept
  <2> QED BY <2>1, <2>2, <2>3, InvPartsPrime DEF Good
<1> QED
  BY <1>3, <1>4 DEF ChooseLanesSync

LEMMA ChooseLanesConcurrentGood == ASSUME Inv, ChooseLanesConcurrent PROVE Good
<1> DEFINE r == Top.root
           lanes == NextLanes(root[r], WipLanes(r))
<1>1. /\ ~Idle /\ r \in Roots /\ Top \in FrameType /\ FrameOK(Top) /\ StackOK(stack)
      /\ RootsOK /\ root[r] \in RootType /\ Top.proc = "performConcurrentWorkOnRoot"
      /\ wip \in WipType
  BY InvParts, TopHasRoot, StackTop DEF ChooseLanesConcurrent, At, Procs, RootsOK
<1>2. lanes \in SUBSET Lane
  <2>1. WipLanes(r) \in SUBSET Lane
    BY <1>1, LaneSets DEF WipLanes, WipType
  <2> QED BY <1>1, <2>1, NextLanesType
<1>3. HostOK' /\ EventOK' /\ PassiveOK' /\ PassiveKept
  BY InvParts DEF ChooseLanesConcurrent, HostOK, hostVars, queueVars, promiseVars,
                  EventOK, EventInv, PassiveOK, PassiveKept
<1>4. ASSUME NEW sync \in BOOLEAN, lanes # NoLanes, RenderRoot([Top EXCEPT !.sync = sync], lanes)
      PROVE  Good
  <2> DEFINE f == [Top EXCEPT !.sync = sync]
  <2>1. /\ f \in FrameType /\ f.proc = Top.proc /\ f.pc = Top.pc /\ f.root = r
        /\ f.task = Top.task
    BY <1>1 DEF FrameType
  <2>2. FrameOK(f) /\ f.proc \in Procs
    BY <1>1, <2>1 DEF FrameOK, Procs
  <2>3. RenderRoot(f, lanes) /\ lanes # {}
    BY <1>4 DEF NoLanes
  <2> HIDE DEF f, lanes
  <2>4. RootsOK' /\ NoWorkLeaves /\ StackOK(stack)' /\ TopInv'
    BY <1>1, <1>2, <2>1, <2>2, <2>3, RenderRootDone
  <2> QED BY <1>3, <2>4, InvPartsPrime DEF Good
<1>5. CASE Return /\ UNCHANGED <<root, wip>>
  <2>1. StackOK(stack)' /\ TopInv'
    BY <1>1, <1>5, StackReturns
  <2>2. RootsOK' /\ NoWorkLeaves
    BY <1>1, <1>5, UnchangedRoots
  <2> QED BY <1>3, <2>1, <2>2, InvPartsPrime DEF Good
<1> QED
  BY <1>4, <1>5 DEF ChooseLanesConcurrent

LEMMA RecoverFromConcurrentErrorGood == ASSUME Inv, RecoverFromConcurrentError PROVE Good
<1> DEFINE r == Top.root
<1>1. /\ ~Idle /\ r \in Roots /\ Top \in FrameType /\ FrameOK(Top) /\ StackOK(stack)
      /\ RootsOK /\ root[r] \in RootType /\ Top.proc \in Procs
      /\ Top.lanes # NoLanes
  BY InvParts, TopHasRoot, StackTop
     DEF RecoverFromConcurrentError, Errored, Performing, RootsOK, TopInv
<1>2. HostOK' /\ EventOK' /\ PassiveOK' /\ PassiveKept
  BY InvParts DEF RecoverFromConcurrentError, HostOK, hostVars, queueVars, promiseVars,
                  EventOK, EventInv, PassiveOK, PassiveKept
<1>3. RootsOK' /\ NoWorkLeaves /\ StackOK(stack)' /\ TopInv'
  <2>1. CASE ErrorLanes # NoLanes
             /\ RenderRoot([Top EXCEPT !.sync = TRUE, !.recovering = TRUE], ErrorLanes)
    <3> DEFINE f == [Top EXCEPT !.sync = TRUE, !.recovering = TRUE]
    <3>1. /\ f \in FrameType /\ f.proc = Top.proc /\ f.pc = Top.pc /\ f.root = r
          /\ f.task = Top.task
      BY <1>1 DEF FrameType
    <3>2. FrameOK(f) /\ f.proc \in Procs
      BY <1>1, <3>1 DEF FrameOK
    <3>3. ErrorLanes \in SUBSET Lane
      BY <1>1 DEF ErrorLanes, LanesToRetrySynchronouslyOnError, RootType
    <3>4. RenderRoot(f, ErrorLanes) /\ ErrorLanes # {}
      BY <2>1 DEF NoLanes
    <3> HIDE DEF f
    <3> QED BY <1>1, <3>1, <3>2, <3>3, <3>4, RenderRootDone
  <2>2. CASE RenderRoot(Top, Top.lanes)
    <3>1. Top.lanes \in SUBSET Lane /\ Top.lanes # {}
      BY <1>1 DEF FrameType, NoLanes
    <3> QED BY <1>1, <2>2, <3>1, RenderRootDone
  <2> QED BY <2>1, <2>2 DEF RecoverFromConcurrentError
<1> QED
  BY <1>2, <1>3, InvPartsPrime DEF Good

LEMMA RenderIsInconsistentGood == ASSUME Inv, RenderIsInconsistent PROVE Good
<1> DEFINE r == Top.root
           f == [Top EXCEPT !.sync = TRUE, !.checked = TRUE, !.recovering = FALSE]
<1>1. /\ ~Idle /\ r \in Roots /\ Top \in FrameType /\ FrameOK(Top) /\ StackOK(stack)
      /\ RootsOK /\ Top.proc \in Procs /\ Top.lanes # NoLanes
  BY InvParts, TopHasRoot, StackTop
     DEF RenderIsInconsistent, Rendered, Performing, RootsOK, TopInv
<1>2. HostOK' /\ EventOK' /\ PassiveOK' /\ PassiveKept
  BY InvParts, RootSchedulerAssumption
     DEF RenderIsInconsistent, Input, HostOK, hostVars, queueVars, promiseVars,
                  EventOK, EventInv, PassiveOK, PassiveKept
<1>3. /\ f \in FrameType /\ f.proc = Top.proc /\ f.pc = Top.pc /\ f.root = r
      /\ f.task = Top.task
  BY <1>1 DEF FrameType
<1>4. FrameOK(f) /\ f.proc \in Procs
  BY <1>1, <1>3 DEF FrameOK
<1>5. Top.lanes \in SUBSET Lane /\ Top.lanes # {}
  BY <1>1 DEF FrameType, NoLanes
<1>6. RenderRoot(f, Top.lanes)
  BY DEF RenderIsInconsistent
<1> HIDE DEF f
<1>7. RootsOK' /\ NoWorkLeaves /\ StackOK(stack)' /\ TopInv'
  BY <1>1, <1>3, <1>4, <1>5, <1>6, RenderRootDone
<1> QED
  BY <1>2, <1>7, InvPartsPrime DEF Good

LEMMA ThrowFatalErrorGood == ASSUME Inv, ThrowFatalError PROVE Good
<1> DEFINE r == Top.root
           fresh == FreshRoots(r, NoLanes)
           rs == [q \in Roots |->
                     IF q = r THEN MarkRootSuspended(fresh[q], Top.lanes) ELSE fresh[q]]
<1>1. ~Idle /\ r \in Roots /\ Top \in FrameType /\ RootsOK /\ Top.lanes \in SUBSET Lane
  BY InvParts, TopHasRoot, StackTop DEF ThrowFatalError, Performing, FrameType
<1>2. /\ fresh \in [Roots -> RootType]
      /\ \A q \in Roots : WorkOf(q, fresh[q], FreshWip(r, NoLanes))
                          /\ root[q].currentLanes \subseteq fresh[q].currentLanes
  BY <1>1, LaneSets, FreshRootsWork
<1>3. wip' = FreshWip(r, NoLanes) /\ EnsureRootIsScheduled(r, rs, NoLanes) /\ Throw
  BY DEF ThrowFatalError
<1> HIDE DEF fresh
<1>4. MarkRootSuspended(fresh[r], Top.lanes) \in RootType
      /\ SameWork(MarkRootSuspended(fresh[r], Top.lanes), fresh[r])
  BY <1>1, <1>2, SuspendedWork
<1>5. rs \in [Roots -> RootType]
  BY <1>1, <1>2, <1>4
<1>6. ASSUME NEW q \in Roots
      PROVE  WorkOf(q, rs[q], wip') /\ root[q].currentLanes \subseteq rs[q].currentLanes
  <2>1. CASE q = r
    <3>1. rs[q] = MarkRootSuspended(fresh[r], Top.lanes)
      BY <2>1
    <3> QED BY <1>2, <1>3, <1>4, <2>1, <3>1, SameWorkOf DEF SameWork
  <2>2. CASE q # r
    BY <1>2, <1>3, <2>2
  <2> QED BY <2>1, <2>2
<1>7. wip' \in WipType
  BY <1>1, <1>3, LaneSets, FreshWipType
<1> HIDE DEF rs
<1>8. EnsureDone
  BY <1>1, <1>3, <1>5, <1>6, <1>7, LaneSets, EnsureRoots
<1>9. /\ StackOK(stack)' /\ TopInv'
      /\ flushTask' \in BOOLEAN /\ isFlushingSyncQueue' \in BOOLEAN
  BY <1>3, InvParts, StackThrows DEF HostOK
<1>10. HostOK' /\ EventOK' /\ PassiveOK' /\ PassiveKept
  BY <1>8, <1>9, InvParts DEF ThrowFatalError, HostOK, promiseVars, EnsureDone,
                  EventOK, EventInv, PassiveOK, PassiveKept
<1> QED
  BY <1>8, <1>9, <1>10, InvPartsPrime DEF Good, EnsureDone

LEMMA PingDone ==
    ASSUME Inv, NEW l \in listeners, Ping(l)
    PROVE  EnsureDone
<1> DEFINE r == l.root
           rt == MarkRootPinged(root[r], l.lanes)
           rs == [root EXCEPT ![r] = rt]
           fresh == [FreshRoots(r, NoLanes) EXCEPT ![r].pingedLanes = rt.pingedLanes]
<1>1. r \in Roots /\ l.lanes \in SUBSET Lane
  BY InvParts DEF HostOK
<1>2. /\ RootsOK /\ root \in [Roots -> RootType] /\ root[r] \in RootType
      /\ wip \in WipType /\ WorkOf(r, root[r], wip)
  BY <1>1, InvParts DEF RootsOK, WorkInv
<1>3. rt \in RootType /\ SameWork(rt, root[r])
  BY <1>1, <1>2, PingedWork
<1>4. \/ wip' = FreshWip(r, NoLanes) /\ EnsureRootIsScheduled(r, fresh, NoLanes)
      \/ /\ wip' = wip \/ wip' = [wip EXCEPT !.pingedLanes = @ \cup l.lanes]
         /\ EnsureRootIsScheduled(r, rs, WipLanes(r))
  BY DEF Ping
<1> HIDE DEF rt
<1>5. CASE wip' = FreshWip(r, NoLanes) /\ EnsureRootIsScheduled(r, fresh, NoLanes)
  <2> DEFINE fs == FreshRoots(r, NoLanes)
             ft == [fs[r] EXCEPT !.pingedLanes = rt.pingedLanes]
  <2>1. /\ fs \in [Roots -> RootType]
        /\ \A q \in Roots : WorkOf(q, fs[q], FreshWip(r, NoLanes))
                            /\ root[q].currentLanes \subseteq fs[q].currentLanes
    BY <1>1, <1>2, LaneSets, FreshRootsWork
  <2>2. fresh = [fs EXCEPT ![r] = ft]
    BY <1>1, <2>1
  <2> HIDE DEF fs, fresh
  <2>3. ft \in RootType /\ SameWork(ft, fs[r])
    <3>1. rt.pingedLanes \in SUBSET Lane /\ fs[r] \in RootType
      BY <1>1, <1>3, <2>1 DEF RootType
    <3> QED BY <3>1 DEF RootType, SameWork
  <2> HIDE DEF ft
  <2>4. fresh \in [Roots -> RootType]
    BY <2>1, <2>2, <2>3
  <2>5. ASSUME NEW q \in Roots
        PROVE  WorkOf(q, fresh[q], wip') /\ root[q].currentLanes \subseteq fresh[q].currentLanes
    <3>1. CASE q = r
      BY <1>5, <2>1, <2>2, <2>3, <3>1, SameWorkOf DEF SameWork
    <3>2. CASE q # r
      BY <1>5, <2>1, <2>2, <3>2
    <3> QED BY <3>1, <3>2
  <2>6. wip' \in WipType
    BY <1>1, <1>5, LaneSets, FreshWipType
  <2> QED
    BY <1>1, <1>5, <2>4, <2>5, <2>6, LaneSets, EnsureRoots
<1>6. CASE /\ wip' = wip \/ wip' = [wip EXCEPT !.pingedLanes = @ \cup l.lanes]
           /\ EnsureRootIsScheduled(r, rs, WipLanes(r))
  <2>1. wip' \in WipType /\ wip'.root = wip.root /\ wip'.lanes = wip.lanes
    BY <1>1, <1>2, <1>6 DEF WipType
  <2>2. WorkOf(r, root[r], wip')
    BY <1>2, <2>1 DEF WorkOf
  <2>3. WorkOf(r, rt, wip')
    BY <1>3, <2>2, SameWorkOf
  <2>4. root[r].currentLanes \subseteq rt.currentLanes
    BY <1>3 DEF SameWork
  <2> QED BY <1>1, <1>3, <1>6, <2>1, <2>3, <2>4, EnsureRoot
<1> QED
  BY <1>4, <1>5, <1>6

LEMMA NotifyGood == ASSUME Inv, NEW l \in listeners, Notify(l) PROVE Good
<1>1. l.root \in Roots
  BY InvParts DEF HostOK
<1>2. EnsureDone /\ EventOK'
  <2>1. CASE Ping(l)
    BY <2>1, InvParts, PingDone DEF Ping, EventOK, EventInv
  <2>2. CASE Retry(l)
    <3>1. event \in EventType /\ event.nextRetryLane \in RetryLanes /\ EventInv
      BY InvParts DEF EventOK, EventType
    <3>2. EnsureDone
      BY <1>1, <2>2, <3>1, LaneSets, ScheduleWorkDone DEF Retry
    <3>3. NextInCycle(event.nextRetryLane, RetryLanes) \in RetryLanes
      BY LaneSets, NextInCycleType, RootSchedulerAssumption
    <3>4. EventOK'
      BY <2>2, <3>1, <3>3 DEF Retry, EventOK, EventInv, EventType
    <3> QED BY <3>2, <3>4
  <2> QED BY <2>1, <2>2 DEF Notify
<1>3. HostOK'
  BY <1>2, InvParts DEF Notify, HostOK, hostVars, EnsureDone
<1>4. TopInv' /\ StackOK(stack)' /\ PassiveOK' /\ PassiveKept
  BY InvParts, TopKept DEF Notify
<1> QED
  BY <1>2, <1>3, <1>4, InvPartsPrime DEF Good, EnsureDone

-----------------------------------------------------------------------------
(* Renders that end, and commits.                                          *)

LEMMA CompleteTreeDone ==
    ASSUME Inv, NEW status \in {"rendered", "fatal"}, CompleteTree(status)
    PROVE  RootsOK' /\ NoWorkLeaves /\ StackOK(stack)' /\ TopInv'
<1>1. /\ ~Idle /\ Top.root \in Roots /\ Top \in FrameType /\ StackOK(stack)
      /\ RootsOK /\ wip \in WipType
      /\ wip.root = Top.root /\ wip.lanes = Top.lanes /\ wip.lanes # NoLanes
  BY InvParts, TopHasRoot, StackTop DEF CompleteTree, Rendering, Performing, RootsOK, TopInv
<1>2. /\ wip' \in WipType /\ wip'.root = NoRoot
  BY <1>1, LaneSets DEF CompleteTree, WipType
<1>3. root' = root
  BY DEF CompleteTree
<1>4. RootsOK' /\ NoWorkLeaves
  BY <1>1, <1>2, <1>3, RootSchedulerAssumption DEF RootsOK, WorkInv, WorkOf, NoWorkLeaves
<1>5. /\ StackOK(stack)' /\ Top'.pc = status /\ Top'.root = Top.root
      /\ Top'.lanes = Top.lanes
  BY <1>1, StackGoto DEF CompleteTree
<1>6. Keeps(root[Top.root], wip.lanes)
  BY <1>1 DEF RootsOK, WorkInv, WorkOf
<1>7. TopInv'
  BY <1>1, <1>3, <1>5, <1>6 DEF TopInv, Performing, At
<1> QED
  BY <1>4, <1>5, <1>7

LEMMA RenderCompletesGood == ASSUME Inv, RenderCompletes PROVE Good
<1>1. RootsOK' /\ NoWorkLeaves /\ StackOK(stack)' /\ TopInv'
  BY CompleteTreeDone DEF RenderCompletes
<1>2. HostOK' /\ EventOK' /\ PassiveOK' /\ PassiveKept
  BY InvParts DEF RenderCompletes, CompleteTree, HostOK, hostVars, queueVars, promiseVars,
                  EventOK, EventInv, PassiveOK, PassiveKept
<1> QED
  BY <1>1, <1>2, InvPartsPrime DEF Good

LEMMA RenderFailsGood == ASSUME Inv, RenderFails PROVE Good
<1>1. RootsOK' /\ NoWorkLeaves /\ StackOK(stack)' /\ TopInv'
  BY CompleteTreeDone DEF RenderFails
<1>2. HostOK' /\ EventOK' /\ PassiveOK' /\ PassiveKept
  BY InvParts, RootSchedulerAssumption
     DEF RenderFails, Input, CompleteTree, HostOK, hostVars, queueVars, promiseVars,
                  EventOK, EventInv, PassiveOK, PassiveKept
<1> QED
  BY <1>1, <1>2, InvPartsPrime DEF Good

LEMMA FinishedWork ==
    ASSUME NEW rt \in RootType, NEW lanes \in SUBSET Lane
    PROVE  LET st == Finished(rt, lanes)
           IN  /\ st \in RootType
               /\ st.pendingLanes = rt.pendingLanes
               /\ st.currentLanes = rt.currentLanes /\ st.workLanes = rt.workLanes
               /\ st.finishedWork = TRUE /\ st.finishedLanes = lanes
  BY DEF Finished, RootType

LEMMA FinishDone ==
    ASSUME Inv, Performing("rendered"), wip' = NoWip,
           NEW rt \in RootType, SameWork(rt, Finished(root[Top.root], Top.lanes)),
           root' = [root EXCEPT ![Top.root] = rt]
    PROVE  RootsOK' /\ NoWorkLeaves
<1> DEFINE r == Top.root
<1>1. /\ r \in Roots /\ Top.lanes \in SUBSET Lane /\ root \in [Roots -> RootType] /\ WorkInv
      /\ root[r] \in RootType /\ Keeps(root[r], Top.lanes)
  BY InvParts, TopHasRoot, StackTop DEF Performing, FrameType, RootsOK, TopInv
<1>2. /\ rt.pendingLanes = root[r].pendingLanes
      /\ rt.currentLanes = root[r].currentLanes /\ rt.workLanes = root[r].workLanes
      /\ rt.finishedLanes = Top.lanes
  BY <1>1, FinishedWork DEF SameWork
<1>3. wip' \in WipType /\ \A q \in Roots : wip'.root # q
  BY NoWipType, RootSchedulerAssumption
<1>4. root' \in [Roots -> RootType]
  BY <1>1
<1>5. ASSUME NEW q \in Roots
      PROVE  WorkOf(q, root'[q], wip') /\ root[q].currentLanes \subseteq root'[q].currentLanes
  <2>1. CASE q = r
    BY <1>1, <1>2, <1>3, <2>1 DEF WorkInv, WorkOf, Keeps
  <2>2. CASE q # r
    BY <1>1, <1>3, <2>2 DEF WorkInv, WorkOf
  <2> QED BY <2>1, <2>2
<1> QED
  BY <1>3, <1>4, <1>5 DEF RootsOK, WorkInv, NoWorkLeaves

LEMMA FinishSyncRenderGood == ASSUME Inv, FinishSyncRender PROVE Good
<1> DEFINE r == Top.root
           rt == Finished(root[r], Top.lanes)
<1>1. /\ ~Idle /\ r \in Roots /\ Top.lanes \in SUBSET Lane /\ root[r] \in RootType
      /\ StackOK(stack) /\ Performing("rendered") /\ root \in [Roots -> RootType]
  BY InvParts, TopHasRoot, StackTop
     DEF FinishSyncRender, Rendered, Performing, FrameType, RootsOK
<1>2. rt \in RootType /\ SameWork(rt, rt)
  BY <1>1, FinishedWork DEF SameWork
<1>3. root' = [root EXCEPT ![r] = rt] /\ wip' = NoWip
  BY <1>1 DEF FinishSyncRender
<1>4. RootsOK' /\ NoWorkLeaves
  BY <1>1, <1>2, <1>3, FinishDone
<1>5. StackOK(stack)' /\ TopInv'
  BY <1>1, StackCalls, RootSchedulerAssumption DEF FinishSyncRender, Waiting
<1>6. HostOK' /\ EventOK' /\ PassiveOK' /\ PassiveKept
  BY InvParts DEF FinishSyncRender, HostOK, hostVars, queueVars, promiseVars,
                  EventOK, EventInv, PassiveOK, PassiveKept
<1> QED
  BY <1>4, <1>5, <1>6, InvPartsPrime DEF Good

LEMMA TimeoutWork ==
    ASSUME NEW rt \in RootType, NEW b \in BOOLEAN
    PROVE  /\ [rt EXCEPT !.timeoutHandle = b] \in RootType
           /\ SameWork([rt EXCEPT !.timeoutHandle = b], rt)
  BY DEF RootType, SameWork

LEMMA DelayFallbackWork ==
    ASSUME NEW rt \in RootType, NEW lanes
    PROVE  DelayFallback(rt, lanes) \in RootType /\ SameWork(DelayFallback(rt, lanes), rt)
<1>1. rt.suspendedLanes \in SUBSET Lane
  BY DEF RootType
<1>2. /\ MarkRootPinged(rt, rt.suspendedLanes) \in RootType
      /\ SameWork(MarkRootPinged(rt, rt.suspendedLanes), rt)
  BY <1>1, PingedWork
<1>3. \/ DelayFallback(rt, lanes) = rt
      \/ DelayFallback(rt, lanes) = MarkRootPinged(rt, rt.suspendedLanes)
      \/ DelayFallback(rt, lanes) = [rt EXCEPT !.timeoutHandle = TRUE]
  BY DEF DelayFallback
<1> QED
  BY <1>2, <1>3, TimeoutWork, SameWorkSelf

LEMMA FinishConcurrentRenderGood == ASSUME Inv, FinishConcurrentRender PROVE Good
<1> DEFINE r == Top.root
           lanes == Top.lanes
           finished == Finished(root[r], lanes)
           suspended == SuspendLanes(finished, lanes, wip)
           delayed == DelayFallback(suspended, lanes)
           waits == [suspended EXCEPT !.timeoutHandle = ~IncludesOnlyTransitions(lanes)]
<1>1. /\ ~Idle /\ r \in Roots /\ lanes \in SUBSET Lane /\ root[r] \in RootType
      /\ StackOK(stack) /\ Performing("rendered") /\ root \in [Roots -> RootType]
      /\ wip \in WipType
  BY InvParts, TopHasRoot, StackTop
     DEF FinishConcurrentRender, Rendered, Performing, FrameType, RootsOK
<1>2. /\ \/ /\ \/ root' = [root EXCEPT ![r] = finished]
               \/ root' = [root EXCEPT ![r] = suspended]
            /\ Call("commitRoot", r, "exit")
         \/ /\ \/ root' = [root EXCEPT ![r] = delayed]
               \/ root' = [root EXCEPT ![r] = waits]
            /\ Goto("exit")
      /\ wip' = NoWip
  BY DEF FinishConcurrentRender
<1>3. finished \in RootType /\ SameWork(finished, finished)
  BY <1>1, FinishedWork DEF SameWork
<1> HIDE DEF finished
<1>4. suspended \in RootType /\ SameWork(suspended, finished)
  BY <1>1, <1>3, SuspendLanesWork
<1> HIDE DEF suspended
<1>5. delayed \in RootType /\ SameWork(delayed, finished)
  BY <1>4, DelayFallbackWork DEF SameWork
<1>6. waits \in RootType /\ SameWork(waits, finished)
  <2>1. (~IncludesOnlyTransitions(lanes)) \in BOOLEAN
    BY Zenon DEF IncludesOnlyTransitions
  <2> QED BY <1>4, <2>1, TimeoutWork DEF SameWork
<1> HIDE DEF delayed, waits
<1>7. RootsOK' /\ NoWorkLeaves
  <2>1. PICK rt \in RootType : root' = [root EXCEPT ![r] = rt] /\ SameWork(rt, finished)
    BY <1>2, <1>3, <1>4, <1>5, <1>6
  <2> QED BY <1>1, <1>2, <2>1, FinishDone DEF finished
<1>8. StackOK(stack)' /\ TopInv'
  <2>1. CASE Call("commitRoot", r, "exit")
    BY <1>1, <2>1, StackCalls, RootSchedulerAssumption DEF Waiting
  <2>2. CASE Goto("exit")
    BY <1>1, <2>2, StackGoes
  <2> QED BY <1>2, <2>1, <2>2
<1>9. HostOK' /\ EventOK' /\ PassiveOK' /\ PassiveKept
  BY InvParts DEF FinishConcurrentRender, HostOK, hostVars, queueVars, promiseVars,
                  EventOK, EventInv, PassiveOK, PassiveKept
<1> QED
  BY <1>7, <1>8, <1>9, InvPartsPrime DEF Good

(* The work that leaves by a step.                                         *)
WorkStep ==
    \A r \in Roots :
        LET done == root[r].currentLanes \ root'[r].currentLanes
        IN  /\ done \subseteq root[r].finishedLanes
            /\ done # NoLanes => At("commitRoot", "begin") /\ Top.root = r

(* The work that leaves a root by its commit is what was rendered: the     *)
(* work tree, which becomes the current one, kept the rest.                *)
LEMMA CommitMutationEffectsGood ==
    ASSUME Inv, CommitMutationEffects
    PROVE  Inv' /\ PassiveKept /\ WorkStep
<1> DEFINE r == Top.root
           rt == root[r]
           st == Scheduled(rt, NoNode, NoLane)
           mt == MarkRootFinished(st, rt.workLanes)
           ct == [mt EXCEPT !.finishedWork = FALSE, !.finishedLanes = NoLanes,
                            !.currentLanes = rt.workLanes, !.workLanes = NoLanes,
                            !.thrown = {}]
<1>1. /\ ~Idle /\ r \in Roots /\ Top \in FrameType /\ FrameOK(Top) /\ StackOK(stack)
      /\ root \in [Roots -> RootType] /\ wip \in WipType /\ WorkInv
      /\ At("commitRoot", "begin") /\ Top.proc = "commitRoot"
  BY InvParts, TopHasRoot, StackTop DEF CommitMutationEffects, At, RootsOK
<1>2. rt \in RootType /\ WorkOf(r, rt, wip) /\ rt.finishedWork /\ passive.root = NoRoot
  BY <1>1 DEF WorkInv, CommitMutationEffects, EffectsAreFlushed
<1>3. rt.workLanes \in SUBSET Lane /\ rt.finishedLanes \in SUBSET Lane
      /\ rt.thrown \in SUBSET Wakeables
  BY <1>2 DEF RootType
<1>4. root' = [root EXCEPT ![r] = ct]
  BY DEF CommitMutationEffects, RemainingLanes
<1>5. st \in RootType
  BY <1>2, ScheduledWork
<1> HIDE DEF st
<1>6. mt \in RootType /\ mt.pendingLanes = rt.workLanes
  BY <1>3, <1>5, FinishedLanesWork
<1> HIDE DEF mt
<1>7. /\ ct \in RootType /\ ct.pendingLanes = rt.workLanes /\ ct.currentLanes = rt.workLanes
      /\ ct.finishedWork = FALSE
  BY <1>3, <1>6, LaneSets DEF RootType
<1> HIDE DEF ct
<1>8. wip' = wip /\ wip.root # r
  BY <1>2 DEF CommitMutationEffects, WorkOf
<1>9. RootsOK'
  <2>1. root' \in [Roots -> RootType]
    BY <1>1, <1>4, <1>7
  <2>2. ASSUME NEW q \in Roots PROVE WorkOf(q, root'[q], wip')
    <3>1. CASE q = r
      BY <1>1, <1>4, <1>7, <1>8, <3>1 DEF WorkOf
    <3>2. CASE q # r
      BY <1>1, <1>4, <1>8, <3>2 DEF WorkInv
    <3> QED BY <3>1, <3>2
  <2> QED BY <1>1, <1>8, <2>1, <2>2 DEF RootsOK, WorkInv
<1>10. WorkStep
  <2>1. ASSUME NEW q \in Roots, q # r PROVE root'[q] = root[q]
    BY <1>1, <1>4, <2>1
  <2>2. root'[r].currentLanes = rt.workLanes
    BY <1>1, <1>4, <1>7
  <2>3. rt.currentLanes \ rt.workLanes \subseteq rt.finishedLanes
    BY <1>2 DEF WorkOf, Keeps
  <2> QED BY <1>1, <2>1, <2>2, <2>3 DEF WorkStep, NoLanes
<1>11. PICK e \in BOOLEAN :
         /\ passiveTask' = (passiveTask \/ e)
         /\ Continue([Top EXCEPT !.pc = "layout", !.lanes = rt.finishedLanes, !.passive = e])
  BY DEF CommitMutationEffects
<1> DEFINE f == [Top EXCEPT !.pc = "layout", !.lanes = rt.finishedLanes, !.passive = e]
<1>12. /\ f \in FrameType /\ f.pc = "layout" /\ f.proc = Top.proc /\ f.root = r
       /\ f.task = Top.task
  BY <1>1, <1>3 DEF FrameType
<1>13. FrameOK(f)
  BY <1>1, <1>12 DEF FrameOK
<1>14. Continue(f)
  BY <1>11
<1> HIDE DEF f
<1>15. StackOK(stack)' /\ Top' = f
  BY <1>1, <1>12, <1>13, <1>14, StackContinue
<1>16. UNCHANGED passive
  BY DEF CommitMutationEffects
<1>17. TopInv'
  BY <1>1, <1>2, <1>12, <1>15, <1>16 DEF TopInv, Performing, At, Procs
<1>18. listeners' \subseteq [kind : {"ping", "retry"}, wakeable : Wakeables, root : Roots,
                            lanes : SUBSET Lane]
  BY <1>1, <1>3, LaneSets, InvParts DEF CommitMutationEffects, HostOK
<1>19. passiveTask' \in BOOLEAN
  BY <1>11, InvParts DEF HostOK
<1>20. HostOK'
  BY <1>18, <1>19, InvParts DEF CommitMutationEffects, HostOK, queueVars
<1>21. EventOK' /\ PassiveOK' /\ PassiveKept
  BY <1>16, InvParts
     DEF CommitMutationEffects, EventOK, EventInv, PassiveOK, PassiveKept
<1> QED
  BY <1>9, <1>10, <1>15, <1>17, <1>20, <1>21, InvPartsPrime

-----------------------------------------------------------------------------
(* The theorems.                                                           *)

LEMMA InitInv == Init => Inv
<1> SUFFICES ASSUME Init PROVE Inv
  OBVIOUS
<1> USE DEF Init
<1>1. NewRoot \in RootType
  BY LaneSets DEF NewRoot, RootType, NoNode, NoLanes
<1>2. RootsOK
  <2>1. \A r \in Roots : WorkOf(r, NewRoot, NoWip)
    BY NoWipType, RootSchedulerAssumption DEF WorkOf, NewRoot
  <2> QED BY <1>1, <2>1, NoWipType DEF RootsOK, WorkInv
<1>3. HostOK
  <2>1. tasks \subseteq TaskType /\ IsFiniteSet(tasks)
    BY FS_EmptySet
  <2>2. nested \in [root : Roots \cup {NoRoot}, count : Nat] /\ inputs \in 0..MaxInputs
    BY RootSchedulerAssumption
  <2>3. syncQueue \in Seq(Roots)
    OBVIOUS
  <2>4. /\ passiveTask \in BOOLEAN /\ flushTask \in BOOLEAN /\ microtask \in BOOLEAN
        /\ isFlushingSyncQueue \in BOOLEAN
        /\ listeners = {} /\ resolved = {}
    OBVIOUS
  <2> QED
    BY <2>1, <2>2, <2>3, <2>4 DEF HostOK
<1>4. EventOK
  <2>1. HighestPriorityLane(RetryLanes) \in RetryLanes
    BY LaneSets, HighestIsOne, RootSchedulerAssumption
  <2>2. HighestPriorityLane(TransitionLanes) \in Lane \cup {NoLane}
    BY LaneSets, HighestType
  <2>3. TransitionLanes # {} => HighestPriorityLane(TransitionLanes) \in TransitionLanes
    BY LaneSets, HighestIsOne
  <2> QED BY <2>1, <2>2, <2>3 DEF EventOK, EventType, EventInv
<1>5. PassiveOK
  BY LaneSets DEF PassiveOK
<1>6. StackOK(stack) /\ TopInv
  BY DEF StackOK, TopInv, Performing, At, Idle
<1> QED
  BY <1>2, <1>3, <1>4, <1>5, <1>6, InvParts

LEMMA GoodSteps == Good => Inv' /\ PassiveKept /\ WorkStep
  BY DEF Good, NoWorkLeaves, WorkStep, NoLanes

LEMMA StutterGood == ASSUME Inv, UNCHANGED vars PROVE Good
<1>1. HostOK'
  BY InvParts DEF vars, HostOK
<1>2. StackOK(stack)' /\ TopInv'
  BY InvParts, StackStays DEF vars
<1> QED
  BY <1>1, <1>2, RootsAlone DEF vars

(* Every step keeps the invariant, takes no passive effects away before    *)
(* they were run, and no work but what a commit rendered.                  *)
LEMMA NextKeeps ==
    ASSUME Inv, [Next]_vars
    PROVE  Inv' /\ PassiveKept /\ WorkStep
<1>1. CASE UserCode
  BY <1>1, GoodSteps, UpdateGood, FlushSyncGood, EffectUpdatesGood, UpdateThrowsGood,
     EffectUpdateThrowsGood, RenderUpdateThrowsGood, EffectThrowsGood, SuspendGood,
     ComponentThrowsGood, RenderPhaseUpdateGood, DeferHiddenTreeGood, RenderFailsGood,
     RenderIsInconsistentGood, ThrowUncaughtErrorGood
     DEF UserCode
<1>2. CASE Host
  BY <1>2, GoodSteps, RunMicrotaskGood, RunPassiveTaskGood, RunFlushTaskGood, RunTaskGood,
     TimeoutFiresGood, ResolveGood, NotifyGood
     DEF Host
<1>3. CASE React
  BY <1>3, GoodSteps, BeginFlushGood, NextSyncCallbackGood, BeginPassiveEffectsGood,
     EndPassiveEffectsGood, ReturnFromPassiveEffectsGood, BeginPerformGood, CompareNodeGood,
     ChooseLanesSyncGood, ChooseLanesConcurrentGood, YieldGood, FallbackCompletesGood,
     RenderCompletesGood, RecoverFromConcurrentErrorGood, ThrowFatalErrorGood,
     FinishSyncRenderGood, FinishConcurrentRenderGood, ExitPerformGood, ReturnFromPerformGood,
     FlushBeforeCommitGood, NothingToCommitGood, CommitMutationEffectsGood, EndCommitGood,
     FlushDiscreteEffectsGood, CountNestedUpdateGood, ReturnFromCommitGood
     DEF React
<1>4. CASE Quiescent \/ UNCHANGED vars
  BY <1>4, GoodSteps, StutterGood DEF Quiescent
<1> QED
  BY <1>1, <1>2, <1>3, <1>4 DEF Next

(* The invariant holds in every state of every execution.                  *)
THEOREM InductiveInvariant == Spec => []Inv
<1>1. Inv /\ [Next]_vars => Inv'
  BY NextKeeps
<1> QED
  BY InitInv, <1>1, PTL DEF Spec

(* The variables have their types: the lanes of a root, of the render in   *)
(* progress and of an event are lanes of the instance, and the task of a   *)
(* root has an id (ensureRootIsScheduled, scheduleCallback).               *)
THEOREM TypeCorrect == Spec => []TypeOK
<1>1. Inv => TypeOK
  BY DEF Inv
<1> QED
  BY InductiveInvariant, <1>1, PTL

(* No lane with work in it is forgotten by its root, whatever is updated   *)
(* while the tree is rendered, waits for its commit or is thrown away      *)
(* (markRootUpdated, markRootFinished, commitRootImpl).                    *)
THEOREM LanesAreKept == Spec => []NoLaneLost
<1>1. Inv => NoLaneLost
  BY DEF Inv, WorkInv, WorkOf, NoLaneLost
<1> QED
  BY InductiveInvariant, <1>1, PTL

(* The passive effects of a commit are never replaced by those of another  *)
(* before they were run: commitRootImpl flushes them first.                *)
THEOREM EffectsAreKept == Spec => PassiveEffectsKept
<1>1. Inv /\ [Next]_vars => [passive.root # NoRoot => passive'.root \in {passive.root, NoRoot}]_vars
  BY NextKeeps DEF PassiveKept
<1> QED
  BY InductiveInvariant, <1>1, PTL DEF Spec, PassiveEffectsKept

(* Work leaves a root only by the commit of a tree that was rendered at    *)
(* its lanes (prepareFreshStack, commitRootImpl).                          *)
THEOREM WorkIsCommitted == Spec => WorkLeavesByItsCommit
<1> DEFINE A == \A r \in Roots :
                    LET done == root[r].currentLanes \ root'[r].currentLanes
                    IN  /\ done \subseteq root[r].finishedLanes
                        /\ done # NoLanes => At("commitRoot", "begin") /\ Top.root = r
<1>1. Inv /\ [Next]_vars => [A]_vars
  BY NextKeeps DEF WorkStep
<1>2. WorkLeavesByItsCommit <=> [][A]_vars
  BY DEF WorkLeavesByItsCommit
<1> HIDE DEF A
<1> QED
  BY InductiveInvariant, <1>1, <1>2, PTL DEF Spec

-----------------------------------------------------------------------------
(***************************************************************************)
(* The second part: what the root scheduler promises about work that       *)
(* waits, that suspended lanes will be pinged.  WakeInv, which says when a *)
(* listener is owed, stands on Inv.                                        *)
(***************************************************************************)

(* What lanes a root has, which of them may run, and for whom.             *)
SameLanes(rt, st) ==
    /\ rt.pendingLanes = st.pendingLanes
    /\ rt.suspendedLanes = st.suspendedLanes /\ rt.pingedLanes = st.pingedLanes
    /\ rt.entangledLanes = st.entangledLanes /\ rt.entanglements = st.entanglements

LEMMA SameLanesSelf == \A rt : SameLanes(rt, rt)
  BY DEF SameLanes

(* ensureRootIsScheduled changes only what is scheduled.                   *)
LEMMA EnsureSameLanes ==
    ASSUME NEW r \in Roots, NEW rs \in [Roots -> RootType], NEW lanes,
           EnsureRootIsScheduled(r, rs, lanes)
    PROVE  \A q \in Roots : SameLanes(root'[q], rs[q])
<1>1. \A st \in RootType : \A id, priority : SameLanes(Scheduled(st, id, priority), st)
  BY DEF Scheduled, RootType, SameLanes
<1>2. \/ root' = rs
      \/ \E id, priority : root' = [rs EXCEPT ![r] = Scheduled(rs[r], id, priority)]
  BY DEF EnsureRootIsScheduled
<1>3. ASSUME NEW id, NEW priority, root' = [rs EXCEPT ![r] = Scheduled(rs[r], id, priority)],
             NEW q \in Roots
      PROVE  SameLanes(root'[q], rs[q])
  <2>1. CASE q = r
    BY <1>1, <1>3, <2>1
  <2>2. CASE q # r
    BY <1>3, <2>2, SameLanesSelf
  <2> QED BY <2>1, <2>2
<1> QED
  BY <1>2, <1>3, SameLanesSelf

-----------------------------------------------------------------------------
(* Suspended lanes wait for a ping.                                        *)

Blocked(rt) == rt.suspendedLanes \ rt.pingedLanes

HasSuspended == wip.capturing \/ wip.exitStatus \in {"Suspended", "SuspendedWithDelay"}

(* Who waits for the lanes of a render, or that they were pinged in it.    *)
Wakes(r, lanes) ==
    \/ lanes \subseteq wip.pingedLanes
    \/ \E l \in listeners : l.kind = "ping" /\ l.root = r /\ l.lanes = lanes

BlockedWake == \A r \in Roots : \A lane \in Blocked(root[r]) : WillBePinged(r, lane)
WipWakes == wip.root # NoRoot /\ HasSuspended => Wakes(wip.root, wip.lanes)
RenderedWakes == Performing("rendered") /\ HasSuspended => Wakes(Top.root, Top.lanes)
NoFatal == ~Performing("fatal")

WakeInv == BlockedWake /\ WipWakes /\ RenderedWakes /\ NoFatal

(* No frame has completed a tree, or is rendering one.                     *)
TopQuiet == ~Idle => Top.pc \notin {"rendered", "fatal"}
TopCalm == ~Idle => Top.pc \notin {"render", "rendered", "fatal"}

LEMMA CalmIsQuiet == TopCalm' => TopQuiet'
  BY DEF TopCalm, TopQuiet

LEMMA QuietTop == ASSUME TopQuiet' PROVE RenderedWakes' /\ NoFatal'
  BY DEF TopQuiet, RenderedWakes, NoFatal, Performing

LEMMA QuietStart == ASSUME NEW f, f.pc = "begin", stack' = <<f>> PROVE TopCalm'
<1>1. Len(stack') = 1 /\ stack'[1] = f
  OBVIOUS
<1> QED
  BY <1>1 DEF TopCalm, Top

LEMMA QuietReturn == ASSUME StackOK(stack), ~Idle, Return PROVE TopCalm'
  BY StackReturn DEF TopCalm, Waiting

LEMMA QuietGoto ==
    ASSUME StackOK(stack), ~Idle,
           NEW pc \in {"begin", "loop", "end", "compare", "choose",
                       "exit", "return", "scheduled", "nested"},
           Goto(pc)
    PROVE  TopCalm'
<1>1. Top'.pc = pc
  BY StackGoto
<1> QED
  BY <1>1 DEF TopCalm

LEMMA QuietCall ==
    ASSUME StackOK(stack), ~Idle, NEW pc \in Waiting,
           NEW r \in Roots \cup {NoRoot},
           NEW proc \in {"flushSyncCallbacks", "flushPassiveEffects", "performSyncWorkOnRoot",
                         "commitRoot"},
           r = NoRoot => proc \in {"flushSyncCallbacks", "flushPassiveEffects"},
           Call(proc, r, pc)
    PROVE  TopCalm'
<1>1. Top' = Frame(proc, "begin", r)
  BY StackCalls
<1> QED
  BY <1>1 DEF TopCalm, Frame

LEMMA QuietContinue ==
    ASSUME StackOK(stack), ~Idle, NEW f, f.pc \notin {"rendered", "fatal"}, Continue(f)
    PROVE  TopQuiet' /\ (f.pc # "render" => TopCalm')
<1> DEFINE below == Rest
<1>1. below \in Seq(FrameType) /\ stack' = Append(below, f)
  BY StackTop DEF Continue
<1> HIDE DEF below
<1>2. Len(stack') = Len(below) + 1 /\ Len(below) \in Nat
  BY <1>1, LenProperties
<1>3. stack'[Len(below) + 1] = f
  BY <1>1
<1> QED
  BY <1>2, <1>3 DEF TopCalm, TopQuiet, Top

LEMMA QuietStays ==
    ASSUME UNCHANGED stack
    PROVE  (TopQuiet => TopQuiet') /\ (TopCalm => TopCalm')
  BY DEF TopCalm, TopQuiet, Top, Idle

-----------------------------------------------------------------------------
(* The steps that leave the roots, the render and the listeners alone.     *)

LEMMA QuietSteps ==
    ASSUME Inv,
           \/ UpdateThrows \/ \E w \in Wakeables : Resolve(w)
           \/ RunMicrotask \/ RunPassiveTask \/ RunFlushTask \/ \E t \in tasks : RunTask(t)
           \/ BeginFlush \/ NextSyncCallback
           \/ BeginPassiveEffects \/ EndPassiveEffects \/ ReturnFromPassiveEffects
           \/ BeginPerform \/ CompareNode \/ Yield \/ ReturnFromPerform
           \/ FlushBeforeCommit \/ NothingToCommit \/ ThrowUncaughtError
           \/ FlushDiscreteEffects \/ CountNestedUpdate \/ ReturnFromCommit
    PROVE  UNCHANGED <<root, wip, listeners>> /\ TopCalm'
<1>1. StackOK(stack) /\ TypeOK /\ syncQueue \in Seq(Roots)
  BY DEF Inv, TypeOK
<1>2. CASE UpdateThrows \/ \E w \in Wakeables : Resolve(w)
  BY <1>2, QuietStays DEF UpdateThrows, Resolve, TopCalm, promiseVars
<1>3. CASE RunMicrotask \/ RunPassiveTask \/ RunFlushTask
  <2>1. \A proc, r : Frame(proc, "begin", r).pc = "begin"
    BY DEF Frame
  <2> QED
    BY <1>3, <2>1, QuietStart
       DEF RunMicrotask, RunPassiveTask, RunFlushTask, Start, promiseVars
<1>4. ASSUME NEW t \in tasks, RunTask(t) PROVE UNCHANGED <<root, wip, listeners>> /\ TopCalm'
  <2> DEFINE f == [Frame("performConcurrentWorkOnRoot", "begin", t.root)
                      EXCEPT !.task = t.id, !.node = root[t.root].callbackNode]
  <2>1. f.pc = "begin"
    BY DEF Frame
  <2>2. stack' = <<f>>
    BY <1>4 DEF RunTask, Start
  <2> HIDE DEF f
  <2> QED BY <1>4, <2>1, <2>2, QuietStart DEF RunTask, promiseVars
<1>5. CASE BeginFlush
  BY <1>1, <1>5, QuietReturn, QuietGoto DEF BeginFlush, At, promiseVars
<1>6. CASE NextSyncCallback
  <2>1. syncQueue # << >> => Head(syncQueue) \in Roots
    BY <1>1, RangeHeadTail
  <2> QED
    BY <1>1, <1>6, <2>1, QuietReturn, QuietCall, RootSchedulerAssumption
       DEF NextSyncCallback, At, Waiting, promiseVars
<1>7. CASE BeginPassiveEffects
  <2>1. CASE passive.root = NoRoot
    BY <1>1, <1>7, <2>1, QuietReturn DEF BeginPassiveEffects, At, promiseVars
  <2>2. CASE passive.root # NoRoot
    <3> DEFINE f == [Top EXCEPT !.pc = "effects", !.root = passive.root]
    <3>1. Top \in FrameType /\ ~Idle
      BY <1>1, <1>7, StackTop DEF BeginPassiveEffects, At
    <3>2. f.pc = "effects"
      BY <3>1 DEF FrameType
    <3>3. Continue(f)
      BY <1>7, <2>2 DEF BeginPassiveEffects
    <3> HIDE DEF f
    <3> QED BY <1>1, <1>7, <3>1, <3>2, <3>3, QuietContinue DEF BeginPassiveEffects, promiseVars
  <2> QED BY <2>1, <2>2
<1>8. CASE EndPassiveEffects
  BY <1>1, <1>8, QuietCall DEF EndPassiveEffects, At, Waiting, promiseVars
<1>9. CASE ReturnFromPassiveEffects
  BY <1>1, <1>9, QuietReturn DEF ReturnFromPassiveEffects, At, promiseVars
<1>10. CASE BeginPerform
  BY <1>1, <1>10, QuietCall DEF BeginPerform, Performing, Waiting, promiseVars
<1>11. CASE CompareNode
  BY <1>1, <1>11, QuietReturn, QuietGoto DEF CompareNode, Performing, promiseVars
<1>12. CASE Yield
  BY <1>1, <1>12, QuietGoto DEF Yield, Rendering, Performing, promiseVars
<1>13. CASE ReturnFromPerform
  BY <1>1, <1>13, QuietReturn DEF ReturnFromPerform, Performing, promiseVars
<1>14. CASE FlushBeforeCommit
  BY <1>1, <1>14, QuietCall DEF FlushBeforeCommit, At, Waiting, promiseVars
<1>15. CASE NothingToCommit
  BY <1>1, <1>15, QuietReturn DEF NothingToCommit, At, promiseVars
<1>16. CASE ThrowUncaughtError
  BY <1>16 DEF ThrowUncaughtError, Throw, TopCalm, Idle, promiseVars
<1>17. CASE FlushDiscreteEffects
  BY <1>1, <1>17, QuietCall, QuietGoto DEF FlushDiscreteEffects, At, Waiting, promiseVars
<1>18. CASE CountNestedUpdate
  BY <1>1, <1>18, QuietCall DEF CountNestedUpdate, At, Waiting, promiseVars
<1>19. CASE ReturnFromCommit
  BY <1>1, <1>19, QuietReturn DEF ReturnFromCommit, At, promiseVars
<1> QED
  BY <1>2, <1>3, <1>4, <1>5, <1>6, <1>7, <1>8, <1>9, <1>10, <1>11, <1>12, <1>13, <1>14,
     <1>15, <1>16, <1>17, <1>18, <1>19

-----------------------------------------------------------------------------
(* How suspended lanes come to be: only those that someone waits for.      *)

(* What is blocked was before, or is a lane of which a ping is to come.    *)
Covered(q, st) == \A lane \in Blocked(st) : lane \in Blocked(root[q]) \/ WillBePinged(q, lane)

AllCovered == \A q \in Roots : Covered(q, root'[q])

LEMMA CoveredStep ==
    ASSUME BlockedWake, listeners \subseteq listeners', AllCovered
    PROVE  BlockedWake'
  BY DEF BlockedWake, AllCovered, Covered, WillBePinged

LEMMA CoveredLanes ==
    ASSUME NEW q, NEW rt, NEW st, SameLanes(st, rt), Covered(q, rt)
    PROVE  Covered(q, st)
  BY DEF SameLanes, Covered, Blocked

LEMMA CoveredSelf == \A q \in Roots : Covered(q, root[q])
  BY DEF Covered

(* An update unblocks everything, or nothing.                              *)
LEMMA CoveredUpdate ==
    ASSUME NEW q \in Roots, root \in [Roots -> RootType], NEW st \in RootType, NEW lane \in Lane,
           st.suspendedLanes = root[q].suspendedLanes, st.pingedLanes = root[q].pingedLanes
    PROVE  Covered(q, MarkRootUpdated(st, lane))
<1>1. LET mt == MarkRootUpdated(st, lane)
      IN  \/ mt.suspendedLanes = {}
          \/ /\ mt.suspendedLanes = root[q].suspendedLanes
             /\ mt.pingedLanes = root[q].pingedLanes
  BY DEF MarkRootUpdated, RootType, NoLanes
<1> QED
  BY <1>1 DEF Covered, Blocked

(* The lanes of a render that suspended wait for what it threw.            *)
LEMMA CoveredSuspend ==
    ASSUME NEW q \in Roots, NEW st \in RootType, Covered(q, st), NEW w, NEW lanes \in SUBSET Lane,
           w.pingedLanes = wip.pingedLanes, Wakes(q, lanes)
    PROVE  Covered(q, SuspendLanes(st, lanes, w))
<1> DEFINE new == (lanes \ w.pingedLanes) \ w.interleavedUpdatedLanes
           mt == MarkRootSuspended(st, new)
<1>1. /\ mt.suspendedLanes = st.suspendedLanes \cup new
      /\ mt.pingedLanes = st.pingedLanes \ new
  BY DEF MarkRootSuspended, RootType
<1>2. \A lane \in new : WillBePinged(q, lane)
  BY DEF Wakes, WillBePinged
<1>3. SuspendLanes(st, lanes, w) = mt
  BY DEF SuspendLanes
<1> HIDE DEF mt, new
<1> QED
  BY <1>1, <1>2, <1>3 DEF Covered, Blocked

(* More pings.                                                             *)
LEMMA CoveredPing ==
    ASSUME NEW q \in Roots, NEW st \in RootType, NEW lanes, Covered(q, st)
    PROVE  Covered(q, MarkRootPinged(st, lanes))
<1>1. /\ MarkRootPinged(st, lanes).suspendedLanes = st.suspendedLanes
      /\ st.pingedLanes \subseteq MarkRootPinged(st, lanes).pingedLanes
  BY DEF MarkRootPinged, RootType
<1> QED
  BY <1>1 DEF Covered, Blocked

-----------------------------------------------------------------------------
(* The render in progress.                                                 *)

(* It goes on, with no more to wait for than before.                       *)
WipKept ==
    /\ wip'.root = wip.root /\ wip'.lanes = wip.lanes
    /\ wip.pingedLanes \subseteq wip'.pingedLanes
    /\ HasSuspended' => HasSuspended
    /\ listeners \subseteq listeners'

WipFresh == ~HasSuspended'

LEMMA WipKeptWakes ==
    ASSUME WipKept PROVE \A r, lanes : Wakes(r, lanes) => Wakes(r, lanes)'
  BY DEF WipKept, Wakes

LEMMA WipStays ==
    ASSUME UNCHANGED wip, listeners \subseteq listeners'
    PROVE  WipKept
  BY DEF WipKept, HasSuspended

(* A step during which nothing completes.                                  *)
LEMMA WakeStep ==
    ASSUME WakeInv, AllCovered, listeners \subseteq listeners', WipKept \/ WipFresh, TopQuiet'
    PROVE  WakeInv'
<1>1. RenderedWakes' /\ NoFatal'
  BY QuietTop
<1>2. WipWakes'
  <2>1. CASE WipKept
    BY <2>1, WipKeptWakes DEF WakeInv, WipWakes, WipKept
  <2>2. CASE WipFresh
    BY <2>2 DEF WipFresh, WipWakes
  <2> QED BY <2>1, <2>2
<1>3. BlockedWake'
  BY CoveredStep DEF WakeInv
<1> QED
  BY <1>1, <1>2, <1>3 DEF WakeInv

LEMMA FreshSuspended ==
    /\ \A r, lanes : ~FreshWip(r, lanes).capturing /\ FreshWip(r, lanes).exitStatus = "Incomplete"
    /\ ~NoWip.capturing /\ NoWip.exitStatus = "Incomplete"
  BY DEF FreshWip, NoWip

(* When one root is updated.                                               *)
LEMMA WakeEnsure ==
    ASSUME Inv, WakeInv, NEW r \in Roots, NEW rt \in RootType, Covered(r, rt), NEW lanes,
           EnsureRootIsScheduled(r, [root EXCEPT ![r] = rt], lanes)
    PROVE  AllCovered
<1> DEFINE rs == [root EXCEPT ![r] = rt]
<1>1. root \in [Roots -> RootType]
  BY DEF Inv, TypeOK
<1>2. rs \in [Roots -> RootType] /\ \A q \in Roots : rs[q] = IF q = r THEN rt ELSE root[q]
  BY <1>1
<1> HIDE DEF rs
<1>3. \A q \in Roots : SameLanes(root'[q], rs[q])
  <2>1. EnsureRootIsScheduled(r, rs, lanes)
    BY DEF rs
  <2> QED BY <1>2, <2>1, EnsureSameLanes
<1>4. ASSUME NEW q \in Roots PROVE Covered(q, root'[q])
  <2>1. Covered(q, rs[q])
    BY <1>2, CoveredSelf
  <2> QED BY <1>3, <2>1, CoveredLanes
<1> QED
  BY <1>4 DEF AllCovered

LEMMA MarkedType ==
    ASSUME NEW r \in Roots, NEW rt \in RootType, NEW lane \in Lane
    PROVE  LET mt == MarkUpdateLaneFromFiberToRoot(r, rt, lane)
           IN  mt \in RootType /\ SameLanes(mt, rt)
  BY DEF MarkUpdateLaneFromFiberToRoot, RootType, SameLanes

LEMMA UpdatedCovered ==
    ASSUME Inv, NEW r \in Roots, NEW lane \in Lane
    PROVE  LET rt == MarkRootUpdated(MarkUpdateLaneFromFiberToRoot(r, root[r], lane), lane)
           IN  rt \in RootType /\ Covered(r, rt)
<1>1. root \in [Roots -> RootType] /\ root[r] \in RootType
  BY DEF Inv, TypeOK
<1> DEFINE mt == MarkUpdateLaneFromFiberToRoot(r, root[r], lane)
<1>2. /\ mt \in RootType
      /\ mt.suspendedLanes = root[r].suspendedLanes /\ mt.pingedLanes = root[r].pingedLanes
  BY <1>1, MarkedType DEF SameLanes
<1> HIDE DEF mt
<1>3. MarkRootUpdated(mt, lane) \in RootType /\ Covered(r, MarkRootUpdated(mt, lane))
  BY <1>1, <1>2, UpdatedWork, CoveredUpdate
<1> QED
  BY <1>3 DEF mt

LEMMA ScheduleUpdateWakes ==
    ASSUME Inv, WakeInv, NEW r \in Roots, NEW lane \in Lane, ScheduleUpdateOnFiber(r, lane),
           UNCHANGED listeners
    PROVE  AllCovered /\ WipKept
<1> DEFINE interleaved == r = wip.root
           w == IF interleaved
                THEN [wip EXCEPT !.interleavedUpdatedLanes = @ \cup {lane}]
                ELSE wip
           updated == MarkRootUpdated(MarkUpdateLaneFromFiberToRoot(r, root[r], lane), lane)
           rt == IF interleaved /\ wip.exitStatus = "SuspendedWithDelay"
                 THEN SuspendLanes(updated, wip.lanes, w)
                 ELSE updated
<1>1. wip' = w /\ EnsureRootIsScheduled(r, [root EXCEPT ![r] = rt], WipLanes(r))
  BY DEF ScheduleUpdateOnFiber
<1>2. wip \in WipType /\ wip.lanes \in SUBSET Lane
  BY DEF Inv, TypeOK, WipType
<1>3. /\ w \in WipType /\ w.root = wip.root /\ w.lanes = wip.lanes
      /\ w.pingedLanes = wip.pingedLanes /\ w.capturing = wip.capturing
      /\ w.exitStatus = wip.exitStatus
  BY <1>2 DEF WipType
<1> HIDE DEF w
<1>4. updated \in RootType /\ Covered(r, updated)
  BY UpdatedCovered
<1> HIDE DEF updated
<1>5. interleaved /\ wip.exitStatus = "SuspendedWithDelay" => Wakes(r, wip.lanes)
  BY RootSchedulerAssumption DEF WakeInv, WipWakes, HasSuspended
<1>6. rt \in RootType /\ Covered(r, rt)
  BY <1>2, <1>3, <1>4, <1>5, SuspendLanesWork, CoveredSuspend
<1> HIDE DEF rt
<1>7. AllCovered
  BY <1>1, <1>6, WakeEnsure
<1>8. WipKept
  BY <1>1, <1>3 DEF WipKept, HasSuspended
<1> QED
  BY <1>7, <1>8

LEMMA ScheduleWorkWakes ==
    ASSUME Inv, WakeInv, NEW r \in Roots, NEW lane \in Lane, ScheduleWork(r, lane)
    PROVE  AllCovered
<1> DEFINE rt == MarkRootUpdated(MarkUpdateLaneFromFiberToRoot(r, root[r], lane), lane)
<1>1. EnsureRootIsScheduled(r, [root EXCEPT ![r] = rt], WipLanes(r))
  BY DEF ScheduleWork
<1>2. rt \in RootType /\ Covered(r, rt)
  BY UpdatedCovered
<1> HIDE DEF rt
<1> QED
  BY <1>1, <1>2, WakeEnsure

LEMMA UserUpdateWakes ==
    ASSUME Inv, WakeInv, NEW r \in Roots, NEW lanes \in SUBSET Lane, UserUpdate(r, lanes),
           UNCHANGED listeners
    PROVE  AllCovered /\ WipKept
<1>1. TransitionLanes # NoLanes => TransitionLane \in Lane
  BY InvParts, ClaimTransitionLaneType
<1>2. PICK lane \in Lane : ScheduleUpdateOnFiber(r, lane)
  BY <1>1 DEF UserUpdate
<1> QED
  BY <1>2, ScheduleUpdateWakes

LEMMA UpdateWakes == ASSUME Inv, WakeInv, NEW r \in Roots, Update(r) PROVE WakeInv'
<1>1. AllCovered /\ WipKept
  BY UserUpdateWakes, RootSchedulerAssumption DEF Update, promiseVars
<1> QED
  BY <1>1, QuietStays, WakeStep DEF WipKept, Update, TopQuiet

LEMMA FlushSyncWakes == ASSUME Inv, WakeInv, NEW r \in Roots, FlushSync(r) PROVE WakeInv'
<1>1. AllCovered /\ WipKept
  BY ScheduleUpdateWakes, LaneSets DEF FlushSync, promiseVars
<1>2. TopQuiet'
  BY QuietStart, CalmIsQuiet DEF FlushSync, Frame
<1> QED
  BY <1>1, <1>2, WakeStep DEF WipKept

LEMMA EffectUpdatesWakes == ASSUME Inv, WakeInv, NEW r \in Roots, EffectUpdates(r) PROVE WakeInv'
<1>1. EffectLanes \in SUBSET Lane
  BY LaneSets, RootSchedulerAssumption DEF EffectLanes
<1>2. AllCovered /\ WipKept
  BY <1>1, UserUpdateWakes DEF EffectUpdates, promiseVars
<1> QED
  BY <1>2, QuietStays, WakeStep DEF WipKept, EffectUpdates, At, TopQuiet

LEMMA EffectUpdateThrowsWakes == ASSUME Inv, WakeInv, EffectUpdateThrows PROVE WakeInv'
<1>1. Top.root \in Roots
  BY InvParts, TopHasRoot DEF EffectUpdateThrows, At
<1>2. AllCovered /\ WipKept
  BY <1>1, ScheduleWorkWakes, WipStays, LaneSets DEF EffectUpdateThrows, promiseVars
<1> QED
  BY <1>2, QuietStays, WakeStep DEF WipKept, EffectUpdateThrows, At, TopQuiet

(* ensureRootIsScheduled by itself.                                        *)
LEMMA EnsureWakes ==
    ASSUME Inv, WakeInv, NEW r \in Roots, EnsureRootIsScheduled(r, root, WipLanes(r))
    PROVE  AllCovered
<1>1. root \in [Roots -> RootType]
  BY DEF Inv, TypeOK
<1>2. \A q \in Roots : SameLanes(root'[q], root[q])
  BY <1>1, EnsureSameLanes
<1>3. \A q \in Roots : Covered(q, root'[q])
  BY <1>2, CoveredSelf, CoveredLanes
<1> QED
  BY <1>3 DEF AllCovered

LEMMA ExitPerformWakes == ASSUME Inv, WakeInv, ExitPerform PROVE WakeInv'
<1>1. Top.root \in Roots /\ StackOK(stack) /\ ~Idle
  BY InvParts, TopHasRoot DEF ExitPerform, Performing
<1>2. AllCovered /\ WipKept
  BY <1>1, EnsureWakes, WipStays DEF ExitPerform, promiseVars
<1> QED
  BY <1>1, <1>2, QuietGoto, CalmIsQuiet, WakeStep DEF WipKept, ExitPerform

LEMMA EndCommitWakes == ASSUME Inv, WakeInv, EndCommit PROVE WakeInv'
<1>1. Top.root \in Roots /\ StackOK(stack) /\ ~Idle
  BY InvParts, TopHasRoot DEF EndCommit, At
<1>2. AllCovered /\ WipKept
  BY <1>1, EnsureWakes, WipStays DEF EndCommit, promiseVars
<1> QED
  BY <1>1, <1>2, QuietGoto, CalmIsQuiet, WakeStep DEF WipKept, EndCommit

(* A listener is called: what it was to ping is pinged, or restarted.      *)
LEMMA PingWakes ==
    ASSUME Inv, WakeInv, NEW l \in listeners, Ping(l), listeners' = listeners \ {l}
    PROVE  BlockedWake' /\ WipWakes'
<1> DEFINE r == l.root
           rt == MarkRootPinged(root[r], l.lanes)
           rs == [root EXCEPT ![r] = rt]
           fs == FreshRoots(r, NoLanes)
           fresh == [fs EXCEPT ![r].pingedLanes = rt.pingedLanes]
           samePriority == wip.root = r /\ l.lanes \subseteq wip.lanes
<1>1. /\ r \in Roots /\ root \in [Roots -> RootType] /\ root[r] \in RootType /\ wip \in WipType
      /\ l.kind = "ping" /\ RootsOK
  BY InvParts DEF HostOK, RootsOK, Ping
<1>2. /\ rt.suspendedLanes = root[r].suspendedLanes
      /\ rt.pingedLanes = root[r].pingedLanes \cup (root[r].suspendedLanes \cap l.lanes)
      /\ rt \in RootType
  <2>1. l.lanes \in SUBSET Lane
    BY InvParts DEF HostOK
  <2> QED BY <1>1, <2>1, PingedWork DEF MarkRootPinged, RootType
<1>3. \/ wip' = FreshWip(r, NoLanes) /\ EnsureRootIsScheduled(r, fresh, NoLanes)
      \/ /\ samePriority /\ wip' = [wip EXCEPT !.pingedLanes = @ \cup l.lanes]
         /\ EnsureRootIsScheduled(r, rs, WipLanes(r))
      \/ ~samePriority /\ wip' = wip /\ EnsureRootIsScheduled(r, rs, WipLanes(r))
  BY DEF Ping
<1> HIDE DEF rt, samePriority
<1>4. /\ fresh \in [Roots -> RootType] /\ rs \in [Roots -> RootType]
      /\ \A q \in Roots : SameLanes(fresh[q], rs[q])
  <2>1. fs \in [Roots -> RootType]
    BY <1>1, LaneSets, FreshRootsWork
  <2>2. \A q \in Roots : SameLanes(fs[q], root[q])
    BY <1>1 DEF FreshRoots, RootType, SameLanes
  <2> HIDE DEF fs
  <2> DEFINE ft == [fs[r] EXCEPT !.pingedLanes = rt.pingedLanes]
  <2>3. fresh = [fs EXCEPT ![r] = ft]
    BY <1>1, <2>1
  <2>4. fs[r] \in RootType /\ rt.pingedLanes \in SUBSET Lane
    BY <1>1, <1>2, <2>1 DEF RootType
  <2>5. /\ ft \in RootType /\ ft.pendingLanes = fs[r].pendingLanes
        /\ ft.suspendedLanes = fs[r].suspendedLanes /\ ft.pingedLanes = rt.pingedLanes
        /\ ft.entangledLanes = fs[r].entangledLanes
        /\ ft.entanglements = fs[r].entanglements
    BY <2>4 DEF RootType
  <2> HIDE DEF ft, fresh
  <2>6. /\ rt.pendingLanes = root[r].pendingLanes
        /\ rt.entangledLanes = root[r].entangledLanes
        /\ rt.entanglements = root[r].entanglements
    BY <1>1 DEF rt, MarkRootPinged, RootType
  <2>7. SameLanes(ft, rt)
    BY <1>1, <1>2, <2>2, <2>5, <2>6 DEF SameLanes
  <2> QED BY <1>1, <1>2, <2>1, <2>2, <2>3, <2>5, <2>7
<1> HIDE DEF fresh
<1>5. \A q \in Roots : SameLanes(root'[q], rs[q])
  <2>1. CASE EnsureRootIsScheduled(r, fresh, NoLanes)
    <3>1. \A q \in Roots : SameLanes(root'[q], fresh[q])
      BY <1>1, <1>4, <2>1, EnsureSameLanes
    <3> QED BY <1>4, <3>1 DEF SameLanes
  <2>2. CASE EnsureRootIsScheduled(r, rs, WipLanes(r))
    <3> HIDE DEF rs
    <3> QED BY <1>1, <1>4, <2>2, EnsureSameLanes
  <2> QED BY <1>3, <2>1, <2>2
<1>6. BlockedWake'
  <2> SUFFICES ASSUME NEW q \in Roots, NEW lane \in Blocked(root'[q])
               PROVE  WillBePinged(q, lane)'
    BY DEF BlockedWake
  <2>1. /\ lane \in Blocked(root[q])
        /\ q = r => lane \notin l.lanes
    BY <1>1, <1>2, <1>5 DEF SameLanes, Blocked
  <2>2. PICK m \in listeners : m.kind = "ping" /\ m.root = q /\ lane \in m.lanes
    BY <2>1 DEF WakeInv, BlockedWake, WillBePinged
  <2>3. m # l
    BY <2>1, <2>2
  <2> QED BY <2>2, <2>3 DEF WillBePinged
<1>7. WipWakes'
  <2>1. CASE wip' = FreshWip(r, NoLanes)
    <3>1. ~wip'.capturing /\ wip'.exitStatus = "Incomplete"
      BY <2>1, FreshSuspended
    <3> QED BY <3>1 DEF WipWakes, HasSuspended
  <2>2. CASE samePriority /\ wip' = [wip EXCEPT !.pingedLanes = @ \cup l.lanes]
    <3> SUFFICES ASSUME wip'.root # NoRoot /\ HasSuspended' PROVE Wakes(wip.root, wip.lanes)'
      BY DEF WipWakes
    <3>1. /\ wip'.root = wip.root /\ wip'.lanes = wip.lanes
          /\ wip'.pingedLanes = wip.pingedLanes \cup l.lanes
          /\ wip'.capturing = wip.capturing /\ wip'.exitStatus = wip.exitStatus
      BY <1>1, <2>2 DEF WipType
    <3>2. Wakes(wip.root, wip.lanes)
      BY <3>1 DEF WakeInv, WipWakes, HasSuspended
    <3>3. CASE wip.lanes \subseteq wip.pingedLanes
      <4>1. wip'.lanes \subseteq wip'.pingedLanes
        BY <3>1, <3>3
      <4> QED BY <4>1 DEF Wakes
    <3>4. ASSUME NEW m \in listeners, m.kind = "ping", m.root = wip.root, m.lanes = wip.lanes
          PROVE  Wakes(wip.root, wip.lanes)'
      <4>1. CASE m = l
        <5>1. wip'.lanes \subseteq wip'.pingedLanes
          BY <3>1, <3>4, <4>1
        <5> QED BY <5>1 DEF Wakes
      <4>2. CASE m # l
        <5>1. m \in listeners' /\ m.root = wip'.root /\ m.lanes = wip'.lanes
          BY <3>1, <3>4, <4>2
        <5> QED BY <3>4, <5>1 DEF Wakes
      <4> QED BY <4>1, <4>2
    <3> QED BY <3>2, <3>3, <3>4 DEF Wakes
  <2>3. CASE ~samePriority /\ wip' = wip
    BY <2>3 DEF WakeInv, WipWakes, Wakes, HasSuspended, samePriority
  <2> QED BY <1>3, <2>1, <2>2, <2>3
<1> QED
  BY <1>6, <1>7

LEMMA NotifyWakes == ASSUME Inv, WakeInv, NEW l \in listeners, Notify(l) PROVE WakeInv'
<1>1. listeners' = listeners \ {l} /\ TopQuiet'
  BY QuietStays DEF Notify, TopQuiet
<1>2. BlockedWake' /\ WipWakes'
  <2>1. CASE Ping(l)
    BY <1>1, <2>1, PingWakes
  <2>2. CASE Retry(l)
    <3>1. l.root \in Roots /\ l.kind = "retry" /\ event.nextRetryLane \in Lane
      BY <2>2, InvParts, LaneSets DEF HostOK, Retry, EventOK, EventType
    <3>2. AllCovered /\ wip' = wip
      BY <2>2, <3>1, ScheduleWorkWakes DEF Retry
    <3>3. \A m \in listeners : m.kind = "ping" => m \in listeners'
      BY <1>1, <3>1
    <3>4. BlockedWake'
      BY <3>2, <3>3 DEF WakeInv, BlockedWake, AllCovered, Covered, WillBePinged
    <3>5. WipWakes'
      BY <3>2, <3>3 DEF WakeInv, WipWakes, Wakes, HasSuspended
    <3> QED BY <3>4, <3>5
  <2> QED BY <2>1, <2>2 DEF Notify
<1> QED
  BY <1>1, <1>2, QuietTop DEF WakeInv

-----------------------------------------------------------------------------
(* Rendering.                                                              *)

LEMMA TopRenders ==
    ASSUME Inv, Rendering
    PROVE  /\ ~Idle /\ Top.root \in Roots /\ StackOK(stack) /\ TopQuiet
           /\ root \in [Roots -> RootType] /\ root[Top.root] \in RootType /\ wip \in WipType
           /\ wip.root = Top.root /\ wip.lanes = Top.lanes /\ wip.lanes \in SUBSET Lane
           /\ wip.root # NoRoot
  BY InvParts, TopHasRoot, RootSchedulerAssumption
     DEF Rendering, Performing, RootsOK, TopInv, WipType, TopQuiet

LEMMA SuspendWakes == ASSUME Inv, WakeInv, NEW w \in Wakeables, Suspend(w) PROVE WakeInv'
<1> DEFINE r == Top.root
           l == [kind |-> "ping", wakeable |-> w, root |-> r, lanes |-> wip.lanes]
<1>1. /\ Rendering /\ UNCHANGED stack /\ listeners' = listeners \cup {l}
      /\ root' = [root EXCEPT ![r].thrown = @ \cup {w}]
      /\ wip' = [wip EXCEPT !.capturing = TRUE]
  BY DEF Suspend, AttachWakeableListeners
<1>2. /\ TopQuiet /\ root \in [Roots -> RootType] /\ r \in Roots /\ wip \in WipType
      /\ wip.root = r
  BY <1>1, TopRenders
<1>3. \A q \in Roots : SameLanes(root'[q], root[q])
  BY <1>1, <1>2 DEF SameLanes, RootType
<1>4. AllCovered
  BY <1>3, CoveredSelf, CoveredLanes DEF AllCovered
<1>5. BlockedWake'
  BY <1>1, <1>4, CoveredStep DEF WakeInv
<1>6. WipWakes'
  <2>1. wip'.root = r /\ wip'.lanes = wip.lanes
    BY <1>1, <1>2 DEF WipType
  <2>2. l \in listeners' /\ l.kind = "ping" /\ l.root = wip'.root /\ l.lanes = wip'.lanes
    BY <1>1, <2>1
  <2> QED BY <2>2 DEF WipWakes, Wakes
<1>7. RenderedWakes' /\ NoFatal'
  BY <1>1, <1>2, QuietStays, QuietTop
<1> QED
  BY <1>5, <1>6, <1>7 DEF WakeInv

LEMMA FallbackCompletesWakes == ASSUME Inv, WakeInv, FallbackCompletes PROVE WakeInv'
<1>1. /\ Rendering /\ wip.capturing /\ UNCHANGED <<stack, listeners>>
  BY DEF FallbackCompletes, promiseVars
<1>2. /\ TopQuiet /\ root \in [Roots -> RootType] /\ Top.root \in Roots /\ wip \in WipType
      /\ wip.root = Top.root /\ wip.root # NoRoot /\ wip.lanes \in SUBSET Lane
  BY <1>1, TopRenders
<1>3. \A status \in {"Suspended", "SuspendedWithDelay"} :
        /\ Suspended(status).root = wip.root /\ Suspended(status).lanes = wip.lanes
        /\ Suspended(status).pingedLanes = wip.pingedLanes
  BY <1>2 DEF Suspended, WipType
<1>4. wip'.root = wip.root /\ wip'.lanes = wip.lanes /\ wip'.pingedLanes = wip.pingedLanes
  BY <1>2, <1>3 DEF FallbackCompletes, WipType
<1>5. WipKept
  BY <1>1, <1>4 DEF WipKept, HasSuspended
<1>6. AllCovered
  <2>1. CASE root' = root
    BY <2>1, CoveredSelf DEF AllCovered
  <2>2. CASE root' = [q \in Roots |-> IF q = Top.root THEN SuspendLanes(root[q], wip.lanes, wip)
                                      ELSE root[q]]
    <3>1. Wakes(Top.root, wip.lanes)
      BY <1>1, <1>2 DEF WakeInv, WipWakes, HasSuspended
    <3>2. Covered(Top.root, SuspendLanes(root[Top.root], wip.lanes, wip))
      BY <1>2, <3>1, CoveredSelf, CoveredSuspend
    <3> QED BY <2>2, <3>2, CoveredSelf DEF AllCovered
  <2> QED BY <2>1, <2>2 DEF FallbackCompletes
<1> QED
  BY <1>1, <1>2, <1>5, <1>6, QuietStays, WakeStep

LEMMA RenderUpdateThrowsWakes == ASSUME Inv, WakeInv, RenderUpdateThrows PROVE WakeInv'
<1>1. /\ Rendering /\ UNCHANGED <<root, stack, listeners>>
      /\ wip' = [wip EXCEPT !.exitStatus = IF @ = "SuspendedWithDelay" THEN @ ELSE "Errored"]
  BY DEF RenderUpdateThrows, promiseVars
<1>2. TopQuiet /\ wip \in WipType
  BY <1>1, TopRenders
<1>3. WipKept
  BY <1>1, <1>2 DEF WipKept, HasSuspended, WipType
<1>4. AllCovered
  BY <1>1, CoveredSelf DEF AllCovered
<1> QED
  BY <1>1, <1>2, <1>3, <1>4, QuietStays, WakeStep

LEMMA RenderPhaseUpdateWakes == ASSUME Inv, WakeInv, RenderPhaseUpdate PROVE WakeInv'
<1> DEFINE r == Top.root
           lane == HighestPriorityLane(wip.lanes)
           marked == MarkUpdateLaneFromFiberToRoot(r, root[r], lane)
<1>1. Rendering /\ UNCHANGED <<stack, listeners>>
      /\ wip' = [wip EXCEPT !.renderPhaseUpdatedLanes = @ \cup {lane}]
  BY DEF RenderPhaseUpdate, promiseVars
<1>2. /\ TopQuiet /\ root \in [Roots -> RootType] /\ r \in Roots /\ wip \in WipType
      /\ wip.lanes \in SUBSET Lane /\ wip.lanes # {} /\ root[r] \in RootType
  BY <1>1, TopRenders, InvParts DEF Rendering, TopInv, NoLanes
<1>3. PICK left \in {root[r].workLanes, marked.workLanes} :
         root' = [root EXCEPT ![r] = MarkRootUpdated([marked EXCEPT !.workLanes = left], lane)]
  BY DEF RenderPhaseUpdate
<1>4. lane \in Lane
  BY <1>2, HighestIsOne
<1> HIDE DEF lane
<1>5. marked \in RootType /\ SameLanes(marked, root[r])
  BY <1>2, <1>4, MarkedType
<1> HIDE DEF marked
<1> DEFINE mt == [marked EXCEPT !.workLanes = left]
<1>6. /\ mt \in RootType
      /\ mt.suspendedLanes = root[r].suspendedLanes /\ mt.pingedLanes = root[r].pingedLanes
  BY <1>2, <1>5 DEF RootType, SameLanes
<1> HIDE DEF mt
<1>7. Covered(r, MarkRootUpdated(mt, lane))
  BY <1>2, <1>4, <1>6, CoveredUpdate
<1>8. root' = [root EXCEPT ![r] = MarkRootUpdated(mt, lane)]
  BY <1>3 DEF mt
<1>9. AllCovered
  BY <1>2, <1>7, <1>8, CoveredSelf DEF AllCovered
<1>10. WipKept
  BY <1>1, <1>2 DEF WipKept, HasSuspended, WipType
<1> QED
  BY <1>1, <1>2, <1>9, <1>10, QuietStays, WakeStep

LEMMA DeferHiddenTreeWakes == ASSUME Inv, WakeInv, DeferHiddenTree PROVE WakeInv'
<1>1. /\ Rendering /\ UNCHANGED <<wip, stack, listeners>>
      /\ root' = [root EXCEPT ![Top.root].workLanes = @ \cup {OffscreenLane}]
  BY DEF DeferHiddenTree, promiseVars
<1>2. TopQuiet /\ root \in [Roots -> RootType] /\ Top.root \in Roots
  BY <1>1, TopRenders
<1>3. \A q \in Roots : SameLanes(root'[q], root[q])
  BY <1>1, <1>2 DEF SameLanes, RootType
<1>4. AllCovered
  BY <1>3, CoveredSelf, CoveredLanes DEF AllCovered
<1> QED
  BY <1>1, <1>2, <1>4, QuietStays, WipStays, WakeStep

(* A render starts or starts afresh, or goes on.                           *)
LEMMA FreshSameLanes ==
    ASSUME root \in [Roots -> RootType], NEW r, NEW lanes
    PROVE  \A q \in Roots : SameLanes(FreshRoots(r, lanes)[q], root[q])
  BY DEF FreshRoots, RootType, SameLanes

LEMMA RenderRootWakes ==
    ASSUME Inv, WakeInv, StackOK(stack), ~Idle, NEW frame \in FrameType, NEW lanes \in SUBSET Lane,
           RenderRoot(frame, lanes), UNCHANGED listeners
    PROVE  WakeInv'
<1> DEFINE f == [frame EXCEPT !.pc = "render", !.lanes = lanes]
<1>1. f.pc = "render" /\ Continue(f)
  BY DEF RenderRoot, FrameType
<1> HIDE DEF f
<1>2. TopQuiet'
  BY <1>1, QuietContinue
<1>3. root \in [Roots -> RootType]
  BY DEF Inv, TypeOK
<1>4. AllCovered /\ (WipKept \/ WipFresh)
  <2>1. CASE root' = FreshRoots(frame.root, lanes) /\ wip' = FreshWip(frame.root, lanes)
    <3>1. AllCovered
      BY <1>3, <2>1, FreshSameLanes, CoveredSelf, CoveredLanes DEF AllCovered
    <3>2. ~wip'.capturing /\ wip'.exitStatus = "Incomplete"
      BY <2>1, FreshSuspended
    <3> QED BY <3>1, <3>2 DEF WipFresh, HasSuspended
  <2>2. CASE UNCHANGED <<root, wip>>
    BY <2>2, CoveredSelf, WipStays DEF AllCovered
  <2> QED BY <2>1, <2>2 DEF RenderRoot
<1> QED
  BY <1>2, <1>4, WakeStep

LEMMA ChooseLanesSyncWakes == ASSUME Inv, WakeInv, ChooseLanesSync PROVE WakeInv'
<1> DEFINE r == Top.root
           lanes == NextLanes(root[r], NoLanes)
<1>1. /\ ~Idle /\ r \in Roots /\ Top \in FrameType /\ StackOK(stack)
      /\ root[r] \in RootType /\ UNCHANGED listeners
  BY InvParts, TopHasRoot, StackTop DEF ChooseLanesSync, At, Procs, RootsOK, promiseVars
<1>2. lanes \in SUBSET Lane
  BY <1>1, LaneSets, NextLanesType
<1>3. CASE RenderRoot([Top EXCEPT !.sync = TRUE], lanes)
  <2> DEFINE f == [Top EXCEPT !.sync = TRUE]
  <2>1. f \in FrameType
    BY <1>1 DEF FrameType
  <2> HIDE DEF f, lanes
  <2>2. RenderRoot(f, lanes)
    BY <1>3 DEF f
  <2> QED BY <1>1, <1>2, <2>1, <2>2, RenderRootWakes
<1>4. CASE EnsureRootIsScheduled(r, root, WipLanes(r)) /\ Return /\ UNCHANGED wip
  BY <1>1, <1>4, EnsureWakes, WipStays, QuietReturn, CalmIsQuiet, WakeStep
<1> QED
  BY <1>3, <1>4 DEF ChooseLanesSync

LEMMA ChooseLanesConcurrentWakes == ASSUME Inv, WakeInv, ChooseLanesConcurrent PROVE WakeInv'
<1> DEFINE r == Top.root
           lanes == NextLanes(root[r], WipLanes(r))
<1>1. /\ ~Idle /\ r \in Roots /\ Top \in FrameType /\ StackOK(stack)
      /\ root[r] \in RootType /\ UNCHANGED listeners /\ wip \in WipType
  BY InvParts, TopHasRoot, StackTop DEF ChooseLanesConcurrent, At, Procs, RootsOK, promiseVars
<1>2. lanes \in SUBSET Lane
  <2>1. WipLanes(r) \in SUBSET Lane
    BY <1>1, LaneSets DEF WipLanes, WipType
  <2> QED BY <1>1, <2>1, NextLanesType
<1>3. ASSUME NEW sync \in BOOLEAN, RenderRoot([Top EXCEPT !.sync = sync], lanes) PROVE WakeInv'
  <2> DEFINE f == [Top EXCEPT !.sync = sync]
  <2>1. f \in FrameType
    BY <1>1 DEF FrameType
  <2> HIDE DEF f, lanes
  <2>2. RenderRoot(f, lanes)
    BY <1>3 DEF f
  <2> QED BY <1>1, <1>2, <2>1, <2>2, RenderRootWakes
<1>4. CASE Return /\ UNCHANGED <<root, wip>>
  <2>1. AllCovered
    BY <1>4, CoveredSelf DEF AllCovered
  <2> QED BY <1>1, <1>4, <2>1, WipStays, QuietReturn, CalmIsQuiet, WakeStep
<1> QED
  BY <1>3, <1>4 DEF ChooseLanesConcurrent

LEMMA RecoverFromConcurrentErrorWakes ==
    ASSUME Inv, WakeInv, RecoverFromConcurrentError PROVE WakeInv'
<1>1. /\ ~Idle /\ Top \in FrameType /\ StackOK(stack) /\ Top.root \in Roots
      /\ root[Top.root] \in RootType /\ UNCHANGED listeners /\ Top.lanes \in SUBSET Lane
  BY InvParts, TopHasRoot, StackTop
     DEF RecoverFromConcurrentError, Errored, Performing, RootsOK, promiseVars, FrameType
<1>2. ErrorLanes \in SUBSET Lane
  BY <1>1 DEF ErrorLanes, LanesToRetrySynchronouslyOnError, RootType
<1>3. CASE RenderRoot([Top EXCEPT !.sync = TRUE, !.recovering = TRUE], ErrorLanes)
  <2> DEFINE f == [Top EXCEPT !.sync = TRUE, !.recovering = TRUE]
  <2>1. f \in FrameType
    BY <1>1 DEF FrameType
  <2> HIDE DEF f
  <2>2. RenderRoot(f, ErrorLanes)
    BY <1>3 DEF f
  <2> QED BY <1>1, <1>2, <2>1, <2>2, RenderRootWakes
<1>4. CASE RenderRoot(Top, Top.lanes)
  BY <1>1, <1>4, RenderRootWakes
<1> QED
  BY <1>3, <1>4 DEF RecoverFromConcurrentError

LEMMA RenderIsInconsistentWakes == ASSUME Inv, WakeInv, RenderIsInconsistent PROVE WakeInv'
<1> DEFINE f == [Top EXCEPT !.sync = TRUE, !.checked = TRUE, !.recovering = FALSE]
<1>1. /\ ~Idle /\ Top \in FrameType /\ StackOK(stack) /\ UNCHANGED listeners
      /\ Top.lanes \in SUBSET Lane
  BY InvParts, StackTop DEF RenderIsInconsistent, Rendered, Performing, promiseVars, FrameType
<1>2. f \in FrameType
  BY <1>1 DEF FrameType
<1>3. RenderRoot(f, Top.lanes)
  BY DEF RenderIsInconsistent
<1> HIDE DEF f
<1> QED
  BY <1>1, <1>2, <1>3, RenderRootWakes

(* The render is over: what it waits for is what its frame waits for.      *)
LEMMA RenderCompletesWakes == ASSUME Inv, WakeInv, RenderCompletes PROVE WakeInv'
<1>1. /\ Rendering /\ Goto("rendered") /\ UNCHANGED <<root, listeners>> /\ ~wip.capturing
      /\ wip' = [wip EXCEPT !.capturing = FALSE, !.root = NoRoot, !.lanes = NoLanes,
                            !.exitStatus = IF @ = "Incomplete" THEN "Completed" ELSE @]
  BY DEF RenderCompletes, CompleteTree, promiseVars
<1>2. /\ StackOK(stack) /\ ~Idle /\ wip \in WipType /\ wip.root = Top.root
      /\ wip.lanes = Top.lanes /\ wip.root # NoRoot
  BY <1>1, TopRenders
<1>3. Top'.pc = "rendered" /\ Top'.root = Top.root /\ Top'.lanes = Top.lanes
  BY <1>1, <1>2, StackGoto
<1>4. /\ wip'.root = NoRoot /\ wip'.pingedLanes = wip.pingedLanes
      /\ HasSuspended' => HasSuspended
  BY <1>1, <1>2 DEF WipType, HasSuspended
<1>5. AllCovered
  BY <1>1, CoveredSelf DEF AllCovered
<1>6. BlockedWake' /\ WipWakes' /\ NoFatal'
  BY <1>1, <1>3, <1>4, <1>5, CoveredStep DEF WakeInv, WipWakes, NoFatal, Performing
<1>7. RenderedWakes'
  <2> SUFFICES ASSUME HasSuspended' PROVE Wakes(Top.root, Top.lanes)'
    BY DEF RenderedWakes
  <2>1. Wakes(Top.root, Top.lanes)
    BY <1>2, <1>4 DEF WakeInv, WipWakes
  <2> QED BY <1>1, <1>3, <1>4, <2>1 DEF Wakes
<1> QED
  BY <1>6, <1>7 DEF WakeInv

LEMMA FinishedLanes ==
    ASSUME NEW rt \in RootType, NEW lanes \in SUBSET Lane
    PROVE  Finished(rt, lanes) \in RootType /\ SameLanes(Finished(rt, lanes), rt)
  BY DEF Finished, RootType, SameLanes

LEMMA FinishWakes ==
    ASSUME Inv, WakeInv, Performing("rendered"), NEW rt, Covered(Top.root, rt),
           root' = [root EXCEPT ![Top.root] = rt], wip' = NoWip, UNCHANGED listeners, TopQuiet'
    PROVE  WakeInv'
<1>1. root \in [Roots -> RootType]
  BY DEF Inv, TypeOK
<1>2. AllCovered
  BY <1>1, CoveredSelf DEF AllCovered
<1>3. ~wip'.capturing /\ wip'.exitStatus = "Incomplete"
  BY FreshSuspended
<1> QED
  BY <1>2, <1>3, WakeStep DEF WipFresh, HasSuspended

LEMMA FinishSyncRenderWakes == ASSUME Inv, WakeInv, FinishSyncRender PROVE WakeInv'
<1>1. /\ ~Idle /\ Top.root \in Roots /\ Top.lanes \in SUBSET Lane /\ root[Top.root] \in RootType
      /\ StackOK(stack) /\ Performing("rendered") /\ UNCHANGED listeners
  BY InvParts, TopHasRoot, StackTop
     DEF FinishSyncRender, Rendered, Performing, FrameType, RootsOK, promiseVars
<1>2. Covered(Top.root, Finished(root[Top.root], Top.lanes))
  BY <1>1, FinishedLanes, CoveredSelf, CoveredLanes
<1>3. root' = [root EXCEPT ![Top.root] = Finished(root[Top.root], Top.lanes)] /\ wip' = NoWip
  BY DEF FinishSyncRender
<1>4. TopQuiet'
  BY <1>1, QuietCall, CalmIsQuiet, RootSchedulerAssumption DEF FinishSyncRender, Waiting
<1> QED
  BY <1>1, <1>2, <1>3, <1>4, FinishWakes

LEMMA FinishConcurrentRenderWakes == ASSUME Inv, WakeInv, FinishConcurrentRender PROVE WakeInv'
<1> DEFINE r == Top.root
           lanes == Top.lanes
           finished == Finished(root[r], lanes)
           suspended == SuspendLanes(finished, lanes, wip)
           delayed == DelayFallback(suspended, lanes)
           waits == [suspended EXCEPT !.timeoutHandle = ~IncludesOnlyTransitions(lanes)]
<1>1. /\ ~Idle /\ r \in Roots /\ lanes \in SUBSET Lane /\ root[r] \in RootType
      /\ StackOK(stack) /\ Performing("rendered") /\ wip \in WipType /\ UNCHANGED listeners
  BY InvParts, TopHasRoot, StackTop
     DEF FinishConcurrentRender, Rendered, Performing, FrameType, RootsOK, promiseVars
<1>2. /\ \/ root' = [root EXCEPT ![r] = finished]
         \/ /\ HasSuspended
            /\ \/ root' = [root EXCEPT ![r] = suspended]
               \/ root' = [root EXCEPT ![r] = delayed]
               \/ root' = [root EXCEPT ![r] = waits]
      /\ wip' = NoWip
      /\ Call("commitRoot", r, "exit") \/ Goto("exit")
  BY DEF FinishConcurrentRender, HasSuspended
<1>3. finished \in RootType /\ Covered(r, finished)
  BY <1>1, FinishedLanes, CoveredSelf, CoveredLanes
<1> HIDE DEF finished
<1>4. HasSuspended => Wakes(r, lanes)
  BY <1>1 DEF WakeInv, RenderedWakes
<1>5. suspended \in RootType /\ (HasSuspended => Covered(r, suspended))
  BY <1>1, <1>3, <1>4, SuspendLanesWork, CoveredSuspend
<1> HIDE DEF suspended
<1>6. HasSuspended => Covered(r, delayed)
  <2>1. \/ delayed = suspended
        \/ delayed = MarkRootPinged(suspended, suspended.suspendedLanes)
        \/ delayed = [suspended EXCEPT !.timeoutHandle = TRUE]
    BY DEF DelayFallback
  <2>2. SameLanes([suspended EXCEPT !.timeoutHandle = TRUE], suspended)
    BY <1>5 DEF SameLanes, RootType
  <2> QED BY <1>1, <1>5, <2>1, <2>2, CoveredPing, CoveredLanes
<1>7. HasSuspended => Covered(r, waits)
  <2>1. SameLanes(waits, suspended)
    BY <1>5 DEF SameLanes, RootType
  <2> QED BY <1>5, <2>1, CoveredLanes
<1> HIDE DEF delayed, waits
<1>8. PICK rt : root' = [root EXCEPT ![r] = rt] /\ Covered(r, rt)
  BY <1>2, <1>3, <1>5, <1>6, <1>7
<1>9. TopQuiet'
  BY <1>1, <1>2, QuietCall, QuietGoto, CalmIsQuiet, RootSchedulerAssumption DEF Waiting
<1> QED
  BY <1>1, <1>2, <1>8, <1>9, FinishWakes

LEMMA CommitMutationEffectsWakes == ASSUME Inv, WakeInv, CommitMutationEffects PROVE WakeInv'
<1> DEFINE r == Top.root
<1>1. /\ ~Idle /\ r \in Roots /\ Top \in FrameType /\ StackOK(stack)
      /\ root \in [Roots -> RootType]
  BY InvParts, TopHasRoot, StackTop DEF CommitMutationEffects, At, RootsOK
<1>2. /\ listeners \subseteq listeners'
      /\ wip' = NoWip \/ wip' = wip
  BY DEF CommitMutationEffects
<1>3. WipKept \/ WipFresh
  BY <1>2, WipStays, FreshSuspended DEF WipFresh, HasSuspended
<1>4. AllCovered
  <2> DEFINE st == Scheduled(root[r], NoNode, NoLane)
             mt == MarkRootFinished(st, root[r].workLanes)
             ct == [mt EXCEPT !.finishedWork = FALSE, !.finishedLanes = NoLanes,
                              !.currentLanes = root[r].workLanes, !.workLanes = NoLanes,
                              !.thrown = {}]
  <2>1. root' = [root EXCEPT ![r] = ct]
    BY DEF CommitMutationEffects, RemainingLanes
  <2>2. st \in RootType /\ root[r].workLanes \in SUBSET Lane
    BY <1>1, ScheduledWork DEF RootType
  <2> HIDE DEF st
  <2>3. mt \in RootType /\ mt.suspendedLanes = {}
    <3>1. mt \in RootType
      BY <2>2, FinishedLanesWork
    <3>2. mt.suspendedLanes = {}
      BY <2>2 DEF MarkRootFinished, RootType, NoLanes
    <3> QED BY <3>1, <3>2
  <2> HIDE DEF mt
  <2>4. ct.suspendedLanes = {}
    BY <2>3 DEF RootType
  <2> HIDE DEF ct
  <2>5. Covered(r, ct)
    BY <2>4 DEF Covered, Blocked
  <2> QED BY <1>1, <2>1, <2>5, CoveredSelf DEF AllCovered
<1>5. TopQuiet'
  <2>1. PICK e \in BOOLEAN :
          Continue([Top EXCEPT !.pc = "layout", !.lanes = root[r].finishedLanes, !.passive = e])
    BY DEF CommitMutationEffects
  <2> DEFINE f == [Top EXCEPT !.pc = "layout", !.lanes = root[r].finishedLanes, !.passive = e]
  <2>2. f.pc = "layout" /\ Continue(f)
    BY <1>1, <2>1 DEF FrameType
  <2> HIDE DEF f
  <2> QED BY <1>1, <2>2, QuietContinue
<1> QED
  BY <1>2, <1>3, <1>4, <1>5, WakeStep

LEMMA TimeoutFiresWakes == ASSUME Inv, WakeInv, NEW r \in Roots, TimeoutFires(r) PROVE WakeInv'
<1>1. /\ root \in [Roots -> RootType] /\ UNCHANGED <<wip, listeners>>
      /\ root' = [root EXCEPT ![r].timeoutHandle = FALSE]
  BY DEF Inv, TypeOK, TimeoutFires, promiseVars
<1>2. \A q \in Roots : SameLanes(root'[q], root[q])
  BY <1>1 DEF SameLanes, RootType
<1>3. AllCovered
  BY <1>2, CoveredSelf, CoveredLanes DEF AllCovered
<1>4. TopQuiet'
  BY QuietStart, CalmIsQuiet DEF TimeoutFires, Start, Frame
<1> QED
  BY <1>1, <1>3, <1>4, WipStays, WakeStep

LEMMA QuietWakes ==
    ASSUME WakeInv, UNCHANGED <<root, wip, listeners>>, TopCalm'
    PROVE  WakeInv'
<1>1. AllCovered
  BY CoveredSelf DEF AllCovered
<1> QED
  BY <1>1, CalmIsQuiet, WipStays, WakeStep

LEMMA StutterWakes == ASSUME WakeInv, UNCHANGED vars PROVE WakeInv'
<1>1. Top' = Top /\ Idle' = Idle
  BY DEF vars, Top, Idle
<1> QED
  BY <1>1 DEF vars, WakeInv, BlockedWake, WillBePinged, WipWakes, RenderedWakes, NoFatal,
              HasSuspended, Wakes, Performing

LEMMA InitWakes == Init => WakeInv
<1> SUFFICES ASSUME Init PROVE WakeInv
  OBVIOUS
<1>1. BlockedWake
  BY DEF Init, BlockedWake, Blocked, NewRoot, NoLanes
<1>2. WipWakes
  BY DEF Init, WipWakes, NoWip
<1>3. RenderedWakes /\ NoFatal
  BY DEF Init, RenderedWakes, NoFatal, Performing, Idle
<1> QED
  BY <1>1, <1>2, <1>3 DEF WakeInv

(* With no errors no step forgets whom a suspended lane waits for.         *)
LEMMA NextWakes ==
    ASSUME ~CanError, Inv, WakeInv, [Next]_vars
    PROVE  WakeInv'
<1>1. CASE UserCode
  BY <1>1, QuietSteps, QuietWakes, UpdateWakes, FlushSyncWakes, EffectUpdatesWakes,
     EffectUpdateThrowsWakes, RenderUpdateThrowsWakes, SuspendWakes, RenderPhaseUpdateWakes,
     DeferHiddenTreeWakes, RenderIsInconsistentWakes
     DEF UserCode, EffectThrows, ComponentThrows, RenderFails
<1>2. CASE Host
  BY <1>2, QuietSteps, QuietWakes, TimeoutFiresWakes, NotifyWakes DEF Host
<1>3. CASE React
  <2>1. ~ThrowFatalError
    BY DEF ThrowFatalError, WakeInv, NoFatal
  <2> QED
    BY <1>3, <2>1, QuietSteps, QuietWakes, ChooseLanesSyncWakes, ChooseLanesConcurrentWakes,
       FallbackCompletesWakes, RenderCompletesWakes, RecoverFromConcurrentErrorWakes,
       FinishSyncRenderWakes, FinishConcurrentRenderWakes, ExitPerformWakes,
       CommitMutationEffectsWakes, EndCommitWakes
       DEF React
<1>4. CASE Quiescent \/ UNCHANGED vars
  BY <1>4, StutterWakes DEF Quiescent
<1> QED
  BY <1>1, <1>2, <1>3, <1>4 DEF Next

(* If components throw no errors, every lane that suspended waits for a    *)
(* promise that will ping it, or has been pinged: no ping is lost while    *)
(* the render that will suspend goes on (pingSuspendedRoot,                *)
(* markRootSuspended, attachPingListener).                                 *)
THEOREM SuspendedIsWoken ==
    ASSUME ~CanError
    PROVE  Spec => []SuspendedHasWakeup
<1>1. Inv /\ WakeInv /\ [Next]_vars => WakeInv'
  BY NextWakes
<1>2. WakeInv => SuspendedHasWakeup
  BY DEF WakeInv, BlockedWake, Blocked, SuspendedHasWakeup
<1> QED
  BY InductiveInvariant, InitWakes, <1>1, <1>2, PTL DEF Spec

-----------------------------------------------------------------------------
(***************************************************************************)
(* The third part: the work of every root is scheduled between any two     *)
(* tasks of the host, at its priority, and flushed if it is synchronous    *)
(* (SyncWorkScheduled), errors included; and, without errors, as a task    *)
(* that is in the scheduler if it is not (RootScheduled).                  *)
(*                                                                         *)
(* On top of Inv the inductive invariant says                              *)
(*   - CallInv: which function may have called which, that one frame at a  *)
(*     time flushes the sync queue, and where passive effects may wait;    *)
(*   - LanesInv: lanes that are suspended, or rendered, are pending;       *)
(*   - FitInv: the priority of a root is right, except while the frame on  *)
(*     top works on that root and will call ensureRootIsScheduled;         *)
(*   - QueueInv: a root with the priority SyncLane is in the sync queue or *)
(*     being worked on, and something will flush the queue;                *)
(*   - TaskInv: the task a root names is in the scheduler or runs, and no  *)
(*     two roots name the same.                                            *)
(***************************************************************************)

-----------------------------------------------------------------------------
(* The call stack: who calls whom, and when passive effects may wait.      *)

IsLoop(f) == f.proc = "flushSyncCallbacks" /\ f.pc = "loop"

(* Frame f, which waits for a call to return, may have called g.           *)
MayCall(f, g) ==
    /\ g.proc # "performConcurrentWorkOnRoot"
    /\ g.proc = "performSyncWorkOnRoot" => IsLoop(f)
    /\ g.proc = "commitRoot" => f.proc \in Procs /\ f.pc = "exit" /\ f.root = g.root
    /\ g.proc = "flushSyncCallbacks" => f.pc = "end"
    /\ f.proc = "performSyncWorkOnRoot" => f.pc \in {"choose", "exit"}
    /\ f.pc = "begin" => f.proc = "commitRoot"

Calls ==
    /\ \A i \in 1..(Len(stack) - 1) : MayCall(stack[i], stack[i + 1])
    /\ ~Idle => stack[1].proc # "performSyncWorkOnRoot"
    /\ \A i \in 2..(Len(stack) - 1) : stack[i].pc # "begin"

(* The sync queue is flushed by one frame at a time.                       *)
Flushing ==
    /\ isFlushingSyncQueue <=> \E i \in 1..Len(stack) : IsLoop(stack[i])
    /\ \A i, j \in 1..Len(stack) : IsLoop(stack[i]) /\ IsLoop(stack[j]) => i = j

(* Frame i is a commit that no performSyncWorkOnRoot called.               *)
Outer(i) == i = 1 \/ stack[i - 1].proc = "performConcurrentWorkOnRoot"

(* Passive effects only wait where they are about to be flushed or nothing *)
(* but the end of an outer commit is under way.                            *)
PassiveMayWait ==
    LET n == Len(stack)
    IN  \/ Top.proc \in Procs \cup {"flushPassiveEffects"} /\ Top.pc = "begin"
        \/ Top.proc = "performConcurrentWorkOnRoot" /\ Top.pc \in {"exit", "return"}
        \/ Top.proc = "commitRoot" /\ Top.pc = "begin" /\ n = 1
        \/ Top.proc = "commitRoot" /\ Top.pc = "scheduled" /\ SyncLane \in passive.lanes
        \/ Top.proc = "commitRoot" /\ Top.pc \in {"scheduled", "nested", "end"} /\ Outer(n)
        \/ /\ Top.proc = "flushSyncCallbacks" /\ Top.pc \in {"begin", "loop"}
           /\ n = 1 \/ (stack[n - 1].proc = "commitRoot" /\ Outer(n - 1))

PassiveInv == passive.root # NoRoot /\ ~Idle => PassiveMayWait

(* What performSyncWorkOnRoot commits includes SyncLane.                   *)
CommitsSync ==
    Len(stack) > 1 /\ stack[Len(stack) - 1].proc = "performSyncWorkOnRoot" =>
        /\ At("commitRoot", "begin") =>
              root[Top.root].finishedWork /\ SyncLane \in root[Top.root].finishedLanes
        /\ At("commitRoot", "layout") => SyncLane \in Top.lanes

CallInv == Calls /\ Flushing /\ PassiveInv /\ CommitsSync

(* The frames after a step.                                                *)
LEMMA StartShape ==
    ASSUME NEW f, stack' = <<f>>
    PROVE  Len(stack') = 1 /\ stack'[1] = f /\ Top' = f /\ ~Idle'
<1>1. Len(stack') = 1 /\ stack'[1] = f
  OBVIOUS
<1> QED
  BY <1>1 DEF Top, Idle

LEMMA ReturnShape ==
    ASSUME StackOK(stack), ~Idle, Return
    PROVE  /\ Len(stack) \in Nat \ {0} /\ Len(stack') = Len(stack) - 1
           /\ \A i \in 1..(Len(stack) - 1) : stack'[i] = stack[i]
           /\ Idle' <=> Len(stack) = 1
           /\ ~Idle' => Top' = stack[Len(stack) - 1]
<1> DEFINE n == Len(stack)
<1>1. /\ n \in Nat \ {0} /\ stack' \in Seq(FrameType) /\ Len(stack') = n - 1
      /\ \A i \in 1..(n - 1) : stack'[i] = stack[i]
  BY StackTop DEF Return
<1> HIDE DEF n
<1>2. Idle' <=> n = 1
  BY <1>1, EmptySeq DEF Idle
<1>3. n # 1 => n - 1 \in 1..(n - 1)
  BY <1>1
<1> QED
  BY <1>1, <1>2, <1>3 DEF Top, n

LEMMA ContinueShape ==
    ASSUME StackOK(stack), ~Idle, NEW f, Continue(f)
    PROVE  /\ Len(stack) \in Nat \ {0} /\ Len(stack') = Len(stack)
           /\ \A i \in 1..(Len(stack) - 1) : stack'[i] = stack[i]
           /\ stack'[Len(stack)] = f /\ Top' = f /\ ~Idle'
<1> DEFINE n == Len(stack)
           below == Rest
<1>1. /\ n \in Nat \ {0} /\ below \in Seq(FrameType) /\ Len(below) = n - 1
      /\ \A i \in 1..(n - 1) : below[i] = stack[i]
      /\ stack' = Append(below, f)
  BY StackTop DEF Continue
<1> HIDE DEF below
<1>2. /\ Len(stack') = Len(below) + 1
      /\ \A i \in 1..Len(below) : stack'[i] = below[i]
      /\ stack'[Len(below) + 1] = f
      /\ stack' # << >>
  BY <1>1
<1>3. (n - 1) + 1 = n
  BY <1>1
<1> QED
  BY <1>1, <1>2, <1>3 DEF Top, Idle

LEMMA CallShape ==
    ASSUME StackOK(stack), ~Idle, NEW proc, NEW r, NEW pc, Call(proc, r, pc)
    PROVE  /\ Len(stack) \in Nat \ {0} /\ Len(stack') = Len(stack) + 1
           /\ \A i \in 1..(Len(stack) - 1) : stack'[i] = stack[i]
           /\ stack'[Len(stack)] = [Top EXCEPT !.pc = pc]
           /\ stack'[Len(stack) + 1] = Frame(proc, "begin", r)
           /\ Top' = Frame(proc, "begin", r) /\ ~Idle'
<1> DEFINE n == Len(stack)
           below == Rest
           f == [Top EXCEPT !.pc = pc]
           g == Frame(proc, "begin", r)
           A == FrameType \cup {f, g}
           two == <<f, g>>
<1>1. /\ n \in Nat \ {0} /\ below \in Seq(FrameType) /\ Len(below) = n - 1
      /\ \A i \in 1..(n - 1) : below[i] = stack[i]
      /\ stack' = below \o two
  BY StackTop DEF Call
<1> HIDE DEF below, f, g
<1>2. two \in Seq(A) /\ Len(two) = 2 /\ two[1] = f /\ two[2] = g
  OBVIOUS
<1>3. below \in Seq(A)
  <2>1. \A i \in 1..Len(below) : below[i] \in A
    BY <1>1, ElementOfSeq
  <2>2. below = [i \in 1..Len(below) |-> below[i]] /\ Len(below) \in Nat
    BY <1>1, SeqDef
  <2> HIDE DEF A
  <2> QED BY <2>1, <2>2, IsASeq
<1> HIDE DEF two, A
<1>4. /\ Len(below \o two) = Len(below) + Len(two)
      /\ \A i \in 1..(Len(below) + Len(two)) :
            (below \o two)[i] = IF i <= Len(below) THEN below[i] ELSE two[i - Len(below)]
  BY <1>2, <1>3, ConcatProperties, Zenon
<1>5. /\ Len(stack') = n + 1
      /\ \A i \in 1..(n + 1) : stack'[i] = IF i <= n - 1 THEN below[i] ELSE two[i - (n - 1)]
  BY <1>1, <1>2, <1>4
<1>6. /\ \A i \in 1..(n - 1) : i \in 1..(n + 1) /\ i <= n - 1
      /\ n \in 1..(n + 1) /\ ~ (n <= n - 1) /\ n - (n - 1) = 1
      /\ n + 1 \in 1..(n + 1) /\ ~ (n + 1 <= n - 1) /\ (n + 1) - (n - 1) = 2
  BY <1>1
<1>7. \A i \in 1..(n - 1) : stack'[i] = stack[i]
  BY <1>1, <1>5, <1>6
<1>8. stack'[n] = f /\ stack'[n + 1] = g
  BY <1>2, <1>5, <1>6
<1>9. stack' # << >>
  BY <1>1, <1>5, EmptySeq
<1> QED
  BY <1>1, <1>5, <1>7, <1>8, <1>9 DEF Top, Idle, f, g

-----------------------------------------------------------------------------
(* What a step does to the stack.                                          *)

LEMMA CallStart ==
    ASSUME Idle, CallInv, NEW f, f.pc = "begin", UNCHANGED isFlushingSyncQueue,
           f.proc \in {"flushSyncCallbacks", "flushPassiveEffects",
                       "performConcurrentWorkOnRoot", "commitRoot"},
           stack' = <<f>>
    PROVE  CallInv'
<1>1. Len(stack') = 1 /\ stack'[1] = f /\ Top' = f /\ ~Idle'
  BY StartShape
<1>2. Len(stack) = 0
  BY DEF Idle
<1>3. Flushing'
  BY <1>1, <1>2 DEF CallInv, Flushing, IsLoop
<1>4. Calls' /\ CommitsSync'
  BY <1>1 DEF Calls, CommitsSync
<1>5. PassiveInv'
  BY <1>1 DEF PassiveInv, PassiveMayWait, Procs
<1> QED
  BY <1>3, <1>4, <1>5 DEF CallInv

LEMMA CallEmpty ==
    ASSUME stack' = << >>, ~isFlushingSyncQueue'
    PROVE  CallInv'
<1>1. Len(stack') = 0
  OBVIOUS
<1> QED
  BY <1>1 DEF CallInv, Calls, Flushing, PassiveInv, CommitsSync, Idle

LEMMA CallStays ==
    ASSUME CallInv, UNCHANGED <<stack, isFlushingSyncQueue, passive>>, ~At("commitRoot", "begin")
    PROVE  CallInv'
<1>1. Top' = Top /\ Idle' = Idle
  BY DEF Top, Idle
<1>2. Calls' /\ Flushing'
  BY <1>1 DEF CallInv, Calls, Flushing
<1>3. PassiveInv'
  BY <1>1 DEF CallInv, PassiveInv, PassiveMayWait, Outer
<1>4. CommitsSync'
  BY <1>1 DEF CallInv, CommitsSync, At
<1> QED
  BY <1>2, <1>3, <1>4 DEF CallInv

LEMMA CallReturn ==
    ASSUME StackOK(stack), ~Idle, CallInv, Return,
           IF IsLoop(Top) THEN isFlushingSyncQueue' = FALSE ELSE UNCHANGED isFlushingSyncQueue
    PROVE  Calls' /\ Flushing' /\ CommitsSync'
<1> DEFINE n == Len(stack)
<1>1. /\ n \in Nat \ {0} /\ Len(stack') = n - 1
      /\ \A i \in 1..(n - 1) : stack'[i] = stack[i]
      /\ Idle' <=> n = 1
      /\ ~Idle' => Top' = stack[n - 1]
  BY ReturnShape
<1>2. Top = stack[n] /\ n \in 1..n
  BY <1>1 DEF Top
<1>3. Calls'
  <2>1. \A i \in 1..((n - 1) - 1) : /\ i \in 1..(n - 1) /\ i + 1 \in 1..(n - 1)
    BY <1>1
  <2>2. n # 1 => 1 \in 1..(n - 1)
    BY <1>1
  <2>3. \A i \in 2..((n - 1) - 1) : i \in 2..(n - 1) /\ i \in 1..(n - 1)
    BY <1>1
  <2> QED BY <1>1, <2>1, <2>2, <2>3 DEF CallInv, Calls
<1>4. Flushing'
  <2>1. \A i \in 1..(n - 1) : i \in 1..n /\ i # n
    BY <1>1
  <2>2. \A i \in 1..n : i = n \/ i \in 1..(n - 1)
    BY <1>1
  <2> QED BY <1>1, <1>2, <2>1, <2>2 DEF CallInv, Flushing
<1>5. CommitsSync'
  <2> SUFFICES ASSUME Len(stack') > 1,
                      At("commitRoot", "begin")' \/ At("commitRoot", "layout")'
               PROVE  FALSE
    BY DEF CommitsSync
  <2>1. Top' = stack[n - 1] /\ n - 1 \in 2..(n - 1) /\ n - 1 \in 1..(n - 1)
    BY <1>1
  <2>2. Top'.pc \in Waiting
    BY <1>1, StackReturn
  <2>3. Top'.pc # "begin"
    BY <2>1 DEF CallInv, Calls
  <2> QED BY <2>2, <2>3 DEF At, Waiting
<1> QED
  BY <1>3, <1>4, <1>5

LEMMA MayCallSame ==
    ASSUME NEW f, NEW g, NEW h, MayCall(f, g),
           h.proc = g.proc, g.proc = "commitRoot" => h.root = g.root
    PROVE  MayCall(f, h)
  BY DEF MayCall

LEMMA CallContinue ==
    ASSUME StackOK(stack), ~Idle, CallInv, NEW f, Continue(f),
           f.proc = Top.proc, f.proc = "commitRoot" => f.root = Top.root,
           IF IsLoop(f) THEN ~isFlushingSyncQueue /\ isFlushingSyncQueue'
           ELSE ~IsLoop(Top) /\ UNCHANGED isFlushingSyncQueue
    PROVE  Calls' /\ Flushing' /\ Top' = f /\ ~Idle' /\ Len(stack') = Len(stack)
<1> DEFINE n == Len(stack)
<1>1. /\ n \in Nat \ {0} /\ Len(stack') = n
      /\ \A i \in 1..(n - 1) : stack'[i] = stack[i]
      /\ stack'[n] = f /\ Top' = f /\ ~Idle'
  BY ContinueShape
<1>2. Top = stack[n] /\ n \in 1..n
  BY <1>1 DEF Top
<1>3. Calls'
  <2>1. \A i \in 1..(n - 1) : i + 1 \in 1..(n - 1) \/ i + 1 = n
    BY <1>1
  <2>2. \A i \in 1..(n - 1) : MayCall(stack'[i], stack'[i + 1])
    <3> TAKE i \in 1..(n - 1)
    <3>1. MayCall(stack[i], stack[i + 1])
      BY DEF CallInv, Calls
    <3>2. CASE i + 1 \in 1..(n - 1)
      BY <1>1, <3>1, <3>2
    <3>3. CASE i + 1 = n
      BY <1>1, <1>2, <3>1, <3>3, MayCallSame
    <3> QED BY <2>1, <3>2, <3>3
  <2>3. n = 1 \/ 1 \in 1..(n - 1)
    BY <1>1
  <2>4. \A i \in 2..(n - 1) : i \in 1..(n - 1)
    BY <1>1
  <2>5. stack'[1].proc # "performSyncWorkOnRoot"
    BY <1>1, <1>2, <2>3 DEF CallInv, Calls
  <2> QED BY <1>1, <2>2, <2>4, <2>5 DEF CallInv, Calls
<1>4. Flushing'
  <2>1. \A i \in 1..(n - 1) : i \in 1..n /\ i # n
    BY <1>1
  <2>2. \A i \in 1..n : i = n \/ i \in 1..(n - 1)
    BY <1>1
  <2> QED BY <1>1, <1>2, <2>1, <2>2 DEF CallInv, Flushing
<1> QED
  BY <1>1, <1>3, <1>4

LEMMA CallCall ==
    ASSUME StackOK(stack), ~Idle, CallInv, NEW proc, NEW r, NEW pc,
           Call(proc, r, pc),
           MayCall([Top EXCEPT !.pc = pc], Frame(proc, "begin", r)),
           pc = "begin" => Len(stack) = 1,
           pc = "loop" <=> Top.pc = "loop",
           UNCHANGED isFlushingSyncQueue
    PROVE  /\ Calls' /\ Flushing' /\ ~Idle' /\ Top' = Frame(proc, "begin", r)
           /\ Len(stack) \in Nat \ {0} /\ Len(stack') = Len(stack) + 1
           /\ stack'[Len(stack)] = [Top EXCEPT !.pc = pc]
           /\ \A i \in 1..(Len(stack) - 1) : stack'[i] = stack[i]
<1> DEFINE n == Len(stack)
           f == [Top EXCEPT !.pc = pc]
           g == Frame(proc, "begin", r)
<1>1. /\ n \in Nat \ {0} /\ Len(stack') = n + 1
      /\ \A i \in 1..(n - 1) : stack'[i] = stack[i]
      /\ stack'[n] = f /\ stack'[n + 1] = g /\ Top' = g /\ ~Idle'
  BY CallShape
<1>2. Top = stack[n] /\ n \in 1..n
  BY <1>1 DEF Top
<1>3. f.pc = pc /\ f.proc = Top.proc /\ f.root = Top.root /\ g.pc = "begin"
  BY StackTop DEF FrameType, Frame
<1>4. MayCall(f, g) /\ (IsLoop(f) <=> IsLoop(Top)) /\ ~IsLoop(g)
  BY <1>3 DEF IsLoop
<1> HIDE DEF f, g
<1>5. Calls'
  <2>0. n \in Nat \ {0}
    BY <1>1
  <2> HIDE DEF n
  <2>1. \A i \in 1..((n + 1) - 1) :
          \/ i \in 1..(n - 1) /\ i + 1 \in 1..(n - 1)
          \/ i \in 1..(n - 1) /\ i + 1 = n
          \/ i = n /\ i + 1 = n + 1
    BY <2>0
  <2>2. ASSUME NEW i \in 1..((n + 1) - 1) PROVE MayCall(stack'[i], stack'[i + 1])
    <3>1. i \in 1..(n - 1) => MayCall(stack[i], stack[i + 1])
      BY DEF CallInv, Calls, n
    <3>2. CASE i \in 1..(n - 1) /\ i + 1 \in 1..(n - 1)
      BY <1>1, <3>1, <3>2
    <3>3. CASE i \in 1..(n - 1) /\ i + 1 = n
      <4>1. MayCall(stack[i], f)
        BY <1>2, <1>3, <3>1, <3>3, MayCallSame
      <4> QED BY <1>1, <3>3, <4>1
    <3>4. CASE i = n /\ i + 1 = n + 1
      BY <1>1, <1>4, <3>4
    <3> QED BY <2>1, <3>2, <3>3, <3>4
  <2>3. n = 1 \/ 1 \in 1..(n - 1)
    BY <2>0
  <2>4. \A i \in 2..((n + 1) - 1) : (i \in 2..(n - 1) /\ i \in 1..(n - 1)) \/ (i = n /\ n # 1)
    BY <2>0
  <2>5. stack'[1].proc # "performSyncWorkOnRoot"
    BY <1>1, <1>2, <1>3, <2>3 DEF CallInv, Calls
  <2>6. ASSUME NEW i \in 2..((n + 1) - 1) PROVE stack'[i].pc # "begin"
    BY <1>1, <1>3, <2>4 DEF CallInv, Calls, n
  <2> QED BY <1>1, <2>2, <2>5, <2>6 DEF Calls
<1>6. Flushing'
  <2>1. \A i \in 1..(n - 1) : i \in 1..n /\ i # n /\ i \in 1..(n + 1)
    BY <1>1
  <2>2. \A i \in 1..(n + 1) : i = n + 1 \/ i = n \/ (i \in 1..(n - 1) /\ i \in 1..n)
    BY <1>1
  <2>3. \A i \in 1..(n + 1) : IsLoop(stack'[i]) <=> i \in 1..n /\ IsLoop(stack[i])
    <3> TAKE i \in 1..(n + 1)
    <3>1. n + 1 \notin 1..n
      BY <1>1
    <3> QED BY <1>1, <1>2, <1>4, <2>2, <3>1
  <2>4. \A i \in 1..n : i \in 1..(n + 1)
    BY <1>1
  <2> QED BY <1>1, <2>3, <2>4 DEF CallInv, Flushing
<1> QED
  BY <1>1, <1>5, <1>6 DEF f, g

-----------------------------------------------------------------------------
(* Every step keeps CallInv.                                               *)

LEMMA FrameFields ==
    \A proc, r : /\ Frame(proc, "begin", r).proc = proc /\ Frame(proc, "begin", r).pc = "begin"
                 /\ Frame(proc, "begin", r).root = r
  BY DEF Frame

LEMMA TopAt ==
    ASSUME StackOK(stack), ~Idle
    PROVE  /\ \A pc : /\ [Top EXCEPT !.pc = pc].pc = pc
                      /\ [Top EXCEPT !.pc = pc].proc = Top.proc
                      /\ [Top EXCEPT !.pc = pc].root = Top.root
                      /\ [Top EXCEPT !.pc = pc].lanes = Top.lanes
           /\ Len(stack) \in Nat \ {0} /\ Top = stack[Len(stack)]
  BY StackTop DEF FrameType, Top

LEMMA NoEffects ==
    ASSUME CallInv, ~Idle,
           \/ Top.pc \in {"effects", "compare", "choose", "render", "rendered", "fatal", "layout"}
           \/ Top.proc = "flushPassiveEffects" /\ Top.pc = "end"
           \/ Top.proc = "performSyncWorkOnRoot" /\ Top.pc # "begin"
    PROVE  passive.root = NoRoot
  BY DEF CallInv, PassiveInv, PassiveMayWait, Procs

LEMMA EffectsStayNone ==
    ASSUME passive.root = NoRoot, UNCHANGED passive
    PROVE  PassiveInv'
  BY DEF PassiveInv

(* The frame below a call. *)
LEMMA Caller ==
    ASSUME StackOK(stack), CallInv, ~Idle, Len(stack) # 1
    PROVE  /\ Len(stack) - 1 \in 1..(Len(stack) - 1)
           /\ MayCall(stack[Len(stack) - 1], Top)
           /\ stack[Len(stack) - 1] \in FrameType
<1>0. PICK n \in Nat \ {0} : n = Len(stack)
  BY TopAt
<1>1. n # 1 /\ Top = stack[n]
  BY <1>0, TopAt
<1>2. MayCall(stack[n - 1], stack[(n - 1) + 1])
  <2>1. n - 1 \in 1..(n - 1)
    BY <1>1
  <2> QED BY <1>0, <2>1 DEF CallInv, Calls
<1>3. (n - 1) + 1 = n /\ n - 1 \in 1..n /\ n - 1 \in 1..(n - 1)
  BY <1>1
<1>4. stack[n - 1] \in FrameType
  BY <1>0, <1>3, ElementOfSeq DEF StackOK
<1> QED
  BY <1>0, <1>1, <1>2, <1>3, <1>4

(* A concurrent render is called by no one. *)
LEMMA ConcurrentIsFirst ==
    ASSUME StackOK(stack), CallInv, ~Idle, Top.proc = "performConcurrentWorkOnRoot"
    PROVE  Len(stack) = 1
  BY Caller DEF MayCall

LEMMA BeginFlushCalls == ASSUME Inv, CallInv, BeginFlush PROVE CallInv'
<1>0. PICK n \in Nat \ {0} : n = Len(stack)
  BY InvParts, TopAt DEF BeginFlush, At
<1>1. /\ StackOK(stack) /\ ~Idle /\ Top.proc = "flushSyncCallbacks" /\ Top.pc = "begin"
      /\ Len(stack) = n /\ Top = stack[n]
  BY <1>0, InvParts, TopAt DEF BeginFlush, At
<1>2. UNCHANGED passive /\ ~IsLoop(Top)
  BY <1>1 DEF BeginFlush, IsLoop
<1>3. passive.root # NoRoot => n = 1 \/ (stack[n - 1].proc = "commitRoot" /\ Outer(n - 1))
  BY <1>0, <1>1 DEF CallInv, PassiveInv, PassiveMayWait, Procs
<1>4. n # 1 => stack[n - 1].pc = "end"
  BY <1>0, <1>1, Caller DEF MayCall
<1>5. CASE isFlushingSyncQueue \/ syncQueue = << >>
  <2>1. Return /\ UNCHANGED isFlushingSyncQueue
    BY <1>5 DEF BeginFlush
  <2>2. /\ Len(stack') = n - 1
        /\ \A i \in 1..(n - 1) : stack'[i] = stack[i]
        /\ Idle' <=> n = 1
        /\ ~Idle' => Top' = stack[n - 1]
    BY <1>1, <2>1, ReturnShape
  <2>3. PassiveInv'
    <3> SUFFICES ASSUME passive'.root # NoRoot, ~Idle' PROVE PassiveMayWait'
      BY DEF PassiveInv
    <3>1. Top'.proc = "commitRoot" /\ Top'.pc = "end" /\ Outer(n - 1)
      BY <1>2, <1>3, <1>4, <2>2
    <3>2. n - 1 = 1 \/ ((n - 1) - 1 \in 1..(n - 1))
      BY <1>1, <2>2
    <3>3. Outer(n - 1)'
      BY <2>2, <3>1, <3>2 DEF Outer
    <3> QED BY <2>2, <3>1, <3>3 DEF PassiveMayWait
  <2> QED BY <1>1, <1>2, <2>1, <2>3, CallReturn DEF CallInv
<1>6. CASE ~(isFlushingSyncQueue \/ syncQueue = << >>)
  <2> DEFINE f == [Top EXCEPT !.pc = "loop"]
  <2>1. f.proc = Top.proc /\ f.pc = "loop" /\ Continue(f) /\ isFlushingSyncQueue'
    BY <1>1, <1>6, TopAt DEF BeginFlush, Goto
  <2> HIDE DEF f
  <2>2. IsLoop(f) /\ f.proc # "commitRoot"
    BY <1>1, <2>1 DEF IsLoop
  <2>3. Calls' /\ Flushing' /\ Top' = f /\ ~Idle' /\ Len(stack') = n
    BY <1>1, <1>6, <2>1, <2>2, CallContinue
  <2>4. \A i \in 1..(n - 1) : stack'[i] = stack[i]
    BY <1>1, <2>1, ContinueShape
  <2>5. CommitsSync'
    BY <1>1, <2>1, <2>3 DEF CommitsSync, At
  <2>6. PassiveInv'
    <3> SUFFICES ASSUME passive'.root # NoRoot PROVE PassiveMayWait'
      BY DEF PassiveInv
    <3>1. CASE n = 1
      BY <1>1, <2>1, <2>3, <3>1 DEF PassiveMayWait
    <3>2. CASE n # 1
      <4>1. stack[n - 1].proc = "commitRoot" /\ Outer(n - 1)
        BY <1>2, <1>3, <3>2
      <4>2. n - 1 \in 1..(n - 1) /\ (n - 1 = 1 \/ (n - 1) - 1 \in 1..(n - 1))
        BY <1>1, <3>2
      <4>3. Outer(n - 1)'
        BY <2>4, <4>1, <4>2 DEF Outer
      <4> QED BY <1>1, <2>1, <2>3, <2>4, <4>1, <4>2, <4>3 DEF PassiveMayWait
    <3> QED BY <3>1, <3>2
  <2> QED BY <2>3, <2>5, <2>6 DEF CallInv
<1> QED
  BY <1>5, <1>6

LEMMA NextSyncCallbackCalls == ASSUME Inv, CallInv, NextSyncCallback PROVE CallInv'
<1>0. PICK n \in Nat \ {0} : n = Len(stack)
  BY InvParts, TopAt DEF NextSyncCallback, At
<1>1. /\ StackOK(stack) /\ ~Idle /\ Top.proc = "flushSyncCallbacks" /\ Top.pc = "loop"
      /\ Len(stack) = n /\ Top = stack[n]
  BY <1>0, InvParts, TopAt DEF NextSyncCallback, At
<1>2. UNCHANGED passive /\ IsLoop(Top)
  BY <1>1 DEF NextSyncCallback, IsLoop
<1>3. passive.root # NoRoot => n = 1 \/ (stack[n - 1].proc = "commitRoot" /\ Outer(n - 1))
  BY <1>0, <1>1 DEF CallInv, PassiveInv, PassiveMayWait, Procs
<1>4. n # 1 => stack[n - 1].pc = "end"
  BY <1>0, <1>1, Caller DEF MayCall
<1>5. CASE syncQueue = << >>
  <2>1. Return /\ isFlushingSyncQueue' = FALSE
    BY <1>5 DEF NextSyncCallback
  <2>2. /\ Len(stack') = n - 1
        /\ \A i \in 1..(n - 1) : stack'[i] = stack[i]
        /\ Idle' <=> n = 1
        /\ ~Idle' => Top' = stack[n - 1]
    BY <1>1, <2>1, ReturnShape
  <2>3. PassiveInv'
    <3> SUFFICES ASSUME passive'.root # NoRoot, ~Idle' PROVE PassiveMayWait'
      BY DEF PassiveInv
    <3>1. Top'.proc = "commitRoot" /\ Top'.pc = "end" /\ Outer(n - 1)
      BY <1>2, <1>3, <1>4, <2>2
    <3>2. n - 1 = 1 \/ ((n - 1) - 1 \in 1..(n - 1))
      BY <1>1, <2>2
    <3>3. Outer(n - 1)'
      BY <2>2, <3>1, <3>2 DEF Outer
    <3> QED BY <2>2, <3>1, <3>3 DEF PassiveMayWait
  <2> QED BY <1>1, <1>2, <2>1, <2>3, CallReturn DEF CallInv
<1>6. CASE syncQueue # << >>
  <2> DEFINE f == [Top EXCEPT !.pc = "loop"]
             q == Head(syncQueue)
             g == Frame("performSyncWorkOnRoot", "begin", q)
  <2>1. Call("performSyncWorkOnRoot", q, "loop") /\ UNCHANGED isFlushingSyncQueue
    BY <1>6 DEF NextSyncCallback
  <2>2. g.proc = "performSyncWorkOnRoot" /\ g.pc = "begin"
    BY FrameFields
  <2>3. MayCall(f, g)
    BY <1>1, <2>2, TopAt DEF MayCall, IsLoop
  <2> HIDE DEF q
  <2>4. Calls' /\ Flushing' /\ ~Idle' /\ Top' = g
    BY <1>1, <2>1, <2>3, CallCall
  <2>5. CommitsSync' /\ PassiveInv'
    BY <2>2, <2>4 DEF CommitsSync, PassiveInv, PassiveMayWait, At, Procs
  <2> QED BY <2>4, <2>5 DEF CallInv
<1> QED
  BY <1>5, <1>6

(* A call of flushPassiveEffects, before which they may wait. *)
LEMMA CallEffects ==
    ASSUME StackOK(stack), ~Idle, CallInv, NEW pc,
           Call("flushPassiveEffects", NoRoot, pc),
           Top.proc = "performSyncWorkOnRoot" => pc \in {"choose", "exit"},
           pc = "begin" => Top.proc = "commitRoot" /\ Len(stack) = 1,
           pc # "loop", Top.pc # "loop",
           UNCHANGED isFlushingSyncQueue
    PROVE  CallInv'
<1> DEFINE g == Frame("flushPassiveEffects", "begin", NoRoot)
<1>1. g.proc = "flushPassiveEffects" /\ g.pc = "begin"
  BY FrameFields
<1>2. MayCall([Top EXCEPT !.pc = pc], g)
  BY <1>1, TopAt DEF MayCall, Procs
<1>3. Calls' /\ Flushing' /\ ~Idle' /\ Top' = g
  BY <1>2, CallCall
<1>4. CommitsSync' /\ PassiveInv'
  BY <1>1, <1>3 DEF CommitsSync, PassiveInv, PassiveMayWait, At
<1> QED
  BY <1>3, <1>4 DEF CallInv

(* A step of a function that calls nothing and has no effects waiting. *)
LEMMA CallGoes ==
    ASSUME StackOK(stack), ~Idle, CallInv, NEW f, Continue(f),
           f.proc = Top.proc, f.proc = "commitRoot" => f.root = Top.root,
           f.proc # "flushSyncCallbacks", f.proc = "commitRoot" => f.pc \notin {"begin", "layout"},
           UNCHANGED isFlushingSyncQueue, passive'.root = NoRoot
    PROVE  CallInv'
<1>1. ~IsLoop(f) /\ ~IsLoop(Top)
  BY DEF IsLoop
<1>2. Calls' /\ Flushing' /\ Top' = f
  BY <1>1, CallContinue
<1>3. CommitsSync'
  BY <1>2 DEF CommitsSync, At
<1>4. PassiveInv'
  BY DEF PassiveInv
<1> QED
  BY <1>2, <1>3, <1>4 DEF CallInv

LEMMA CallGoto ==
    ASSUME StackOK(stack), ~Idle, CallInv, NEW pc, Goto(pc),
           Top.proc \in Procs, UNCHANGED <<isFlushingSyncQueue, passive>>, passive.root = NoRoot
    PROVE  CallInv'
<1> DEFINE f == [Top EXCEPT !.pc = pc]
<1>1. f.proc = Top.proc /\ f.root = Top.root /\ f.pc = pc /\ Continue(f)
  BY TopAt DEF Goto
<1> HIDE DEF f
<1> QED
  BY <1>1, CallGoes DEF Procs

LEMMA CallReturns ==
    ASSUME StackOK(stack), ~Idle, CallInv, Return, ~IsLoop(Top),
           UNCHANGED <<isFlushingSyncQueue, passive>>,
           passive.root = NoRoot \/ Len(stack) = 1
    PROVE  CallInv'
<1>1. Calls' /\ Flushing' /\ CommitsSync'
  BY CallReturn
<1>2. PassiveInv'
  BY ReturnShape DEF PassiveInv
<1> QED
  BY <1>1, <1>2 DEF CallInv

LEMMA PassiveCalls ==
    ASSUME Inv, CallInv, BeginPassiveEffects \/ EndPassiveEffects \/ ReturnFromPassiveEffects
    PROVE  CallInv'
<1>1. StackOK(stack) /\ ~Idle /\ Top.proc = "flushPassiveEffects" /\ ~IsLoop(Top)
      /\ UNCHANGED isFlushingSyncQueue
  BY InvParts DEF BeginPassiveEffects, EndPassiveEffects, ReturnFromPassiveEffects, At, IsLoop
<1>2. CASE BeginPassiveEffects
  <2>1. CASE passive.root = NoRoot
    BY <1>1, <1>2, <2>1, CallReturns DEF BeginPassiveEffects
  <2>2. CASE passive.root # NoRoot
    <3> DEFINE f == [Top EXCEPT !.pc = "effects", !.root = passive.root]
    <3>1. f.proc = Top.proc
      BY <1>1, StackTop DEF FrameType
    <3>2. Continue(f) /\ passive'.root = NoRoot
      BY <1>2, <2>2 DEF BeginPassiveEffects
    <3> HIDE DEF f
    <3> QED BY <1>1, <3>1, <3>2, CallGoes
  <2> QED BY <2>1, <2>2
<1>3. CASE EndPassiveEffects
  <2> DEFINE g == Frame("flushSyncCallbacks", "begin", NoRoot)
  <2>1. g.proc = "flushSyncCallbacks" /\ g.pc = "begin"
    BY FrameFields
  <2>2. Top.pc = "effects" /\ passive.root = NoRoot /\ UNCHANGED passive
        /\ Call("flushSyncCallbacks", NoRoot, "end")
    BY <1>1, <1>3, NoEffects DEF EndPassiveEffects, At
  <2>3. MayCall([Top EXCEPT !.pc = "end"], g)
    BY <1>1, <2>1, TopAt DEF MayCall
  <2>4. Calls' /\ Flushing' /\ ~Idle' /\ Top' = g
    BY <1>1, <2>2, <2>3, CallCall
  <2>5. CommitsSync' /\ PassiveInv'
    BY <2>1, <2>2, <2>4, EffectsStayNone DEF CommitsSync, At
  <2> QED BY <2>4, <2>5 DEF CallInv
<1>4. CASE ReturnFromPassiveEffects
  BY <1>1, <1>4, NoEffects, CallReturns DEF ReturnFromPassiveEffects, At
<1> QED
  BY <1>2, <1>3, <1>4

LEMMA RenderRootCalls ==
    ASSUME StackOK(stack), ~Idle, CallInv, NEW frame \in FrameType, NEW lanes,
           RenderRoot(frame, lanes), frame.proc = Top.proc, Top.proc \in Procs,
           UNCHANGED <<isFlushingSyncQueue, passive>>, passive.root = NoRoot
    PROVE  CallInv'
<1> DEFINE f == [frame EXCEPT !.pc = "render", !.lanes = lanes]
<1>1. f.proc = Top.proc /\ Continue(f)
  BY DEF RenderRoot, FrameType
<1> HIDE DEF f
<1> QED
  BY <1>1, CallGoes DEF Procs

(* The lanes of a root, and of what is rendered.  No lanes are entangled.  *)
LanesOf(rt) ==
    /\ rt.entangledLanes = NoLanes
    /\ rt.suspendedLanes \subseteq rt.pendingLanes /\ rt.pingedLanes \subseteq rt.pendingLanes

WipLanesOf == wip.root # NoRoot => wip.lanes \subseteq root[wip.root].pendingLanes

RenderedLanesOf ==
    Performing("rendered") \/ Performing("fatal") =>
        wip.root = NoRoot /\ Top.lanes \subseteq root[Top.root].pendingLanes

(* performSyncWorkOnRoot renders SyncLane, and is not time-sliced.         *)
SyncRenders ==
    ~Idle /\ Top.proc = "performSyncWorkOnRoot" /\ Top.pc \in {"render", "rendered", "fatal"} =>
        Top.sync /\ SyncLane \in Top.lanes

LanesInv ==
    /\ \A r \in Roots : LanesOf(root[r])
    /\ WipLanesOf /\ RenderedLanesOf /\ SyncRenders

LEMMA StartsCalls ==
    ASSUME CallInv,
           \/ RunMicrotask \/ RunPassiveTask \/ RunFlushTask \/ \E t \in tasks : RunTask(t)
           \/ \E r \in Roots : TimeoutFires(r) \/ FlushSync(r)
    PROVE  CallInv'
<1>1. PICK f : /\ f.pc = "begin" /\ stack' = <<f>>
               /\ f.proc \in {"flushSyncCallbacks", "flushPassiveEffects",
                              "performConcurrentWorkOnRoot", "commitRoot"}
  <2>1. CASE RunMicrotask \/ RunPassiveTask \/ RunFlushTask
             \/ \E r \in Roots : TimeoutFires(r) \/ FlushSync(r)
    BY <2>1, FrameFields
       DEF RunMicrotask, RunPassiveTask, RunFlushTask, TimeoutFires, FlushSync, Start
  <2>2. ASSUME NEW t \in tasks, RunTask(t)
        PROVE  \E f : /\ f.pc = "begin" /\ stack' = <<f>>
                      /\ f.proc \in {"flushSyncCallbacks", "flushPassiveEffects",
                                     "performConcurrentWorkOnRoot", "commitRoot"}
    <3> DEFINE f == [Frame("performConcurrentWorkOnRoot", "begin", t.root)
                        EXCEPT !.task = t.id, !.node = root[t.root].callbackNode]
    <3>1. f.pc = "begin" /\ f.proc = "performConcurrentWorkOnRoot"
      BY DEF Frame
    <3>2. stack' = <<f>>
      BY <2>2 DEF RunTask, Start
    <3> HIDE DEF f
    <3> QED BY <3>1, <3>2
  <2> QED BY <2>1, <2>2
<1>2. Idle /\ UNCHANGED isFlushingSyncQueue
  BY DEF RunMicrotask, RunPassiveTask, RunFlushTask, RunTask, TimeoutFires, FlushSync
<1> QED
  BY <1>1, <1>2, CallStart

LEMMA StackStaysCalls ==
    ASSUME CallInv,
           \/ \E r \in Roots : Update(r) \/ EffectUpdates(r)
           \/ UpdateThrows \/ EffectUpdateThrows \/ RenderUpdateThrows \/ EffectThrows
           \/ \E w \in Wakeables : Suspend(w) \/ Resolve(w)
           \/ \E l \in listeners : Notify(l)
           \/ ComponentThrows \/ RenderPhaseUpdate \/ DeferHiddenTree \/ FallbackCompletes
    PROVE  CallInv'
<1>1. UNCHANGED <<stack, isFlushingSyncQueue, passive>>
  BY DEF Update, EffectUpdates, UpdateThrows, EffectUpdateThrows, RenderUpdateThrows, EffectThrows,
         Suspend, Resolve, Notify, ComponentThrows, RenderPhaseUpdate, DeferHiddenTree,
         FallbackCompletes
<1>2. ~At("commitRoot", "begin")
  BY DEF Update, EffectUpdates, UpdateThrows, EffectUpdateThrows, RenderUpdateThrows, EffectThrows,
         Suspend, Resolve, Notify, ComponentThrows, RenderPhaseUpdate, DeferHiddenTree,
         FallbackCompletes, Rendering, Performing, Procs, At
<1> QED
  BY <1>1, <1>2, CallStays

LEMMA BeginPerformCalls == ASSUME Inv, CallInv, BeginPerform PROVE CallInv'
<1>1. StackOK(stack) /\ ~Idle /\ Top.proc \in Procs /\ Top.pc = "begin"
  BY InvParts DEF BeginPerform, Performing
<1>2. PICK pc \in {"compare", "choose"} :
        /\ Call("flushPassiveEffects", NoRoot, pc)
        /\ Top.proc = "performSyncWorkOnRoot" => pc = "choose"
  BY DEF BeginPerform
<1> QED
  BY <1>1, <1>2, CallEffects DEF BeginPerform

LEMMA PerformCalls ==
    ASSUME Inv, CallInv, CompareNode \/ Yield \/ RenderCompletes \/ RenderFails
    PROVE  CallInv'
<1>1. StackOK(stack) /\ ~Idle /\ Top.proc \in Procs /\ passive.root = NoRoot
  BY InvParts, NoEffects
     DEF CompareNode, Yield, RenderCompletes, RenderFails, CompleteTree, Rendering, Performing
<1>2. UNCHANGED <<isFlushingSyncQueue, passive>>
  BY DEF CompareNode, Yield, RenderCompletes, RenderFails, CompleteTree
<1>3. Return \/ \E pc : Goto(pc)
  BY DEF CompareNode, Yield, RenderCompletes, RenderFails, CompleteTree
<1>4. ~IsLoop(Top)
  BY <1>1 DEF IsLoop, Procs
<1> QED
  BY <1>1, <1>2, <1>3, <1>4, CallGoto, CallReturns

LEMMA ChooseLanesSyncCalls == ASSUME Inv, CallInv, ChooseLanesSync PROVE CallInv'
<1> DEFINE lanes == NextLanes(root[Top.root], NoLanes)
           f == [Top EXCEPT !.sync = TRUE]
<1>1. /\ StackOK(stack) /\ ~Idle /\ Top.proc \in Procs /\ passive.root = NoRoot
      /\ UNCHANGED <<isFlushingSyncQueue, passive>> /\ Top \in FrameType
  BY InvParts, StackTop, NoEffects DEF ChooseLanesSync, At, Procs
<1>2. f \in FrameType /\ f.proc = Top.proc
  BY <1>1 DEF FrameType
<1>3. ~IsLoop(Top)
  BY <1>1 DEF IsLoop, Procs
<1>4. RenderRoot(f, lanes) \/ Return
  BY DEF ChooseLanesSync
<1> HIDE DEF f, lanes
<1> QED
  BY <1>1, <1>2, <1>3, <1>4, RenderRootCalls, CallReturns

LEMMA ChooseLanesConcurrentCalls == ASSUME Inv, CallInv, ChooseLanesConcurrent PROVE CallInv'
<1> DEFINE lanes == NextLanes(root[Top.root], WipLanes(Top.root))
<1>1. /\ StackOK(stack) /\ ~Idle /\ Top.proc \in Procs /\ passive.root = NoRoot
      /\ UNCHANGED <<isFlushingSyncQueue, passive>> /\ Top \in FrameType
  BY InvParts, StackTop, NoEffects DEF ChooseLanesConcurrent, At, Procs
<1>2. ~IsLoop(Top)
  BY <1>1 DEF IsLoop, Procs
<1>3. Return \/ \E sync \in BOOLEAN : RenderRoot([Top EXCEPT !.sync = sync], lanes)
  BY DEF ChooseLanesConcurrent
<1>4. ASSUME NEW sync \in BOOLEAN, RenderRoot([Top EXCEPT !.sync = sync], lanes) PROVE CallInv'
  <2> DEFINE f == [Top EXCEPT !.sync = sync]
  <2>1. f \in FrameType /\ f.proc = Top.proc
    BY <1>1 DEF FrameType
  <2> HIDE DEF f, lanes
  <2>2. RenderRoot(f, lanes)
    BY <1>4 DEF f
  <2> QED BY <1>1, <2>1, <2>2, RenderRootCalls
<1> QED
  BY <1>1, <1>2, <1>3, <1>4, CallReturns

LEMMA RenderAgainCalls ==
    ASSUME Inv, CallInv, RecoverFromConcurrentError \/ RenderIsInconsistent
    PROVE  CallInv'
<1>1. /\ StackOK(stack) /\ ~Idle /\ Top.proc \in Procs /\ passive.root = NoRoot
      /\ UNCHANGED <<isFlushingSyncQueue, passive>> /\ Top \in FrameType
  BY InvParts, StackTop, NoEffects
     DEF RecoverFromConcurrentError, RenderIsInconsistent, Errored, Rendered, Performing
<1> DEFINE f == [Top EXCEPT !.sync = TRUE, !.recovering = TRUE]
           g == [Top EXCEPT !.sync = TRUE, !.checked = TRUE, !.recovering = FALSE]
<1>2. f \in FrameType /\ f.proc = Top.proc /\ g \in FrameType /\ g.proc = Top.proc
  BY <1>1 DEF FrameType
<1>3. RenderRoot(f, ErrorLanes) \/ RenderRoot(Top, Top.lanes) \/ RenderRoot(g, Top.lanes)
  BY DEF RecoverFromConcurrentError, RenderIsInconsistent
<1> HIDE DEF f, g
<1> QED
  BY <1>1, <1>2, <1>3, RenderRootCalls

LEMMA FinishCalls ==
    ASSUME Inv, LanesInv, CallInv, FinishSyncRender \/ FinishConcurrentRender
    PROVE  CallInv'
<1> DEFINE n == Len(stack)
           r == Top.root
           f == [Top EXCEPT !.pc = "exit"]
           g == Frame("commitRoot", "begin", r)
<1>1. /\ StackOK(stack) /\ ~Idle /\ Top.proc \in Procs /\ passive.root = NoRoot
      /\ UNCHANGED <<isFlushingSyncQueue, passive>> /\ Performing("rendered")
      /\ r \in Roots /\ root[r] \in RootType /\ Top.pc = "rendered"
  BY InvParts, NoEffects, TopHasRoot
     DEF FinishSyncRender, FinishConcurrentRender, Rendered, Performing, RootsOK
<1>2. CASE Goto("exit")
  BY <1>1, <1>2, CallGoto
<1>3. CASE Call("commitRoot", r, "exit")
  <2>1. f.pc = "exit" /\ f.proc = Top.proc /\ f.root = r
    BY <1>1, TopAt
  <2>2. g.proc = "commitRoot" /\ g.pc = "begin" /\ g.root = r
    BY FrameFields
  <2>3. MayCall(f, g)
    BY <1>1, <2>1, <2>2 DEF MayCall
  <2>4. /\ Calls' /\ Flushing' /\ ~Idle' /\ Top' = g
        /\ n \in Nat \ {0} /\ Len(stack') = n + 1 /\ stack'[n] = f
    BY <1>1, <1>3, <2>3, CallCall
  <2>5. PassiveInv'
    BY <1>1, EffectsStayNone
  <2>6. CommitsSync'
    <3>1. Len(stack') - 1 = n
      BY <2>4
    <3>2. CASE Top.proc # "performSyncWorkOnRoot"
      BY <2>1, <2>4, <3>1, <3>2 DEF CommitsSync
    <3>3. CASE Top.proc = "performSyncWorkOnRoot"
      <4>1. SyncLane \in Top.lanes
        BY <1>1, <3>3 DEF LanesInv, SyncRenders
      <4>2. root' = [root EXCEPT ![r] = Finished(root[r], Top.lanes)]
        BY <3>3 DEF FinishSyncRender, FinishConcurrentRender
      <4>3. root'[r] = Finished(root[r], Top.lanes)
        BY <1>1, <4>2, InvParts DEF RootsOK
      <4>4. root'[r].finishedWork /\ root'[r].finishedLanes = Top.lanes
        BY <1>1, <4>3 DEF Finished, RootType
      <4> QED BY <2>2, <2>4, <4>1, <4>4 DEF CommitsSync, At
    <3> QED BY <3>2, <3>3
  <2> QED BY <2>4, <2>5, <2>6 DEF CallInv
<1> QED
  BY <1>2, <1>3 DEF FinishSyncRender, FinishConcurrentRender

LEMMA ExitPerformCalls == ASSUME Inv, CallInv, ExitPerform PROVE CallInv'
<1>1. /\ StackOK(stack) /\ ~Idle /\ Top.proc \in Procs /\ Top.pc = "exit"
      /\ UNCHANGED <<isFlushingSyncQueue, passive>> /\ Goto("return")
  BY InvParts DEF ExitPerform, Performing
<1>2. CASE passive.root = NoRoot
  BY <1>1, <1>2, CallGoto
<1>3. CASE Top.proc = "performConcurrentWorkOnRoot"
  <2> DEFINE f == [Top EXCEPT !.pc = "return"]
  <2>1. f.proc = Top.proc /\ f.pc = "return" /\ Continue(f)
    BY <1>1, TopAt DEF Goto
  <2> HIDE DEF f
  <2>2. Calls' /\ Flushing' /\ Top' = f
    BY <1>1, <1>3, <2>1, CallContinue DEF IsLoop
  <2>3. CommitsSync' /\ PassiveInv'
    BY <1>3, <2>1, <2>2 DEF CommitsSync, PassiveInv, PassiveMayWait, At
  <2> QED BY <2>2, <2>3 DEF CallInv
<1> QED
  BY <1>1, <1>2, <1>3, NoEffects DEF Procs

LEMMA ReturnFromPerformCalls == ASSUME Inv, CallInv, ReturnFromPerform PROVE CallInv'
<1>1. /\ StackOK(stack) /\ ~Idle /\ Top.proc \in Procs /\ Top.pc = "return"
      /\ UNCHANGED <<isFlushingSyncQueue, passive>> /\ Return /\ ~IsLoop(Top)
  BY InvParts DEF ReturnFromPerform, Performing, IsLoop
<1> QED
  BY <1>1, NoEffects, ConcurrentIsFirst, CallReturns DEF Procs

LEMMA FlushBeforeCommitCalls == ASSUME Inv, CallInv, FlushBeforeCommit PROVE CallInv'
<1>1. /\ StackOK(stack) /\ ~Idle /\ Top.proc = "commitRoot" /\ Top.pc = "begin"
      /\ UNCHANGED <<isFlushingSyncQueue, passive>> /\ passive.root # NoRoot
      /\ Call("flushPassiveEffects", NoRoot, "begin")
  BY InvParts DEF FlushBeforeCommit, At
<1>2. Len(stack) = 1
  BY <1>1 DEF CallInv, PassiveInv, PassiveMayWait, Procs
<1> QED
  BY <1>1, <1>2, CallEffects

LEMMA NothingToCommitCalls == ASSUME Inv, CallInv, NothingToCommit PROVE CallInv'
<1>1. /\ StackOK(stack) /\ ~Idle /\ ~IsLoop(Top)
      /\ UNCHANGED <<isFlushingSyncQueue, passive>> /\ passive.root = NoRoot /\ Return
  BY InvParts DEF NothingToCommit, At, EffectsAreFlushed, IsLoop
<1> QED
  BY <1>1, CallReturns

(* A commit goes on. *)
LEMMA CommitGoes ==
    ASSUME StackOK(stack), ~Idle, CallInv, NEW f, Continue(f), Top.proc = "commitRoot",
           f.proc = "commitRoot", f.root = Top.root, UNCHANGED isFlushingSyncQueue,
           f.pc # "begin", f.pc = "layout" => CommitsSync'
    PROVE  /\ Calls' /\ Flushing' /\ CommitsSync'
           /\ Top' = f /\ ~Idle' /\ Len(stack') = Len(stack)
           /\ \A i \in 1..(Len(stack) - 1) : stack'[i] = stack[i]
<1>1. ~IsLoop(f) /\ ~IsLoop(Top)
  BY DEF IsLoop
<1>2. Calls' /\ Flushing' /\ Top' = f /\ ~Idle' /\ Len(stack') = Len(stack)
  BY <1>1, CallContinue
<1>3. f.pc # "layout" => CommitsSync'
  BY <1>2 DEF CommitsSync, At
<1> QED
  BY <1>2, <1>3, ContinueShape

(* Where a commit that was called was called. *)
LEMMA CommitCaller ==
    ASSUME StackOK(stack), CallInv, ~Idle, Top.proc = "commitRoot", ~Outer(Len(stack))
    PROVE  /\ Len(stack) > 1 /\ Len(stack) - 1 \in 1..(Len(stack) - 1)
           /\ stack[Len(stack) - 1].proc = "performSyncWorkOnRoot"
<1>1. PICK n \in Nat \ {0} : n = Len(stack)
  BY TopAt
<1>2. n # 1 /\ stack[n - 1].proc # "performConcurrentWorkOnRoot"
  BY <1>1 DEF Outer
<1>3. MayCall(stack[n - 1], Top)
  BY <1>1, <1>2, Caller
<1>4. n > 1 /\ n - 1 \in 1..(n - 1)
  BY <1>2
<1> QED
  BY <1>1, <1>2, <1>3, <1>4 DEF MayCall, Procs

LEMMA OuterStays ==
    ASSUME StackOK(stack), ~Idle, Len(stack') = Len(stack),
           \A i \in 1..(Len(stack) - 1) : stack'[i] = stack[i]
    PROVE  Outer(Len(stack)) <=> Outer(Len(stack))'
<1>1. PICK n \in Nat \ {0} : n = Len(stack)
  BY TopAt
<1>2. n = 1 \/ n - 1 \in 1..(n - 1)
  OBVIOUS
<1> QED
  BY <1>1, <1>2 DEF Outer

LEMMA CommitMutationEffectsCalls == ASSUME Inv, CallInv, CommitMutationEffects PROVE CallInv'
<1> DEFINE r == Top.root
<1>1. /\ StackOK(stack) /\ ~Idle /\ Top.proc = "commitRoot" /\ Top.pc = "begin"
      /\ Top \in FrameType /\ passive.root = NoRoot
      /\ UNCHANGED <<isFlushingSyncQueue, passive>>
  BY InvParts, StackTop DEF CommitMutationEffects, At, EffectsAreFlushed
<1>2. PICK e \in BOOLEAN :
        Continue([Top EXCEPT !.pc = "layout", !.lanes = root[r].finishedLanes, !.passive = e])
  BY DEF CommitMutationEffects
<1> DEFINE f == [Top EXCEPT !.pc = "layout", !.lanes = root[r].finishedLanes, !.passive = e]
<1>3. /\ Continue(f) /\ f.proc = "commitRoot" /\ f.pc = "layout" /\ f.root = r
      /\ f.lanes = root[r].finishedLanes
  BY <1>1, <1>2 DEF FrameType
<1> HIDE DEF f
<1>4. PICK n \in Nat \ {0} : n = Len(stack)
  BY <1>1, TopAt
<1>5. /\ Len(stack') = n /\ Top' = f /\ ~Idle'
      /\ \A i \in 1..(n - 1) : stack'[i] = stack[i]
  BY <1>1, <1>3, <1>4, ContinueShape
<1>6. CommitsSync'
  <2> SUFFICES ASSUME n > 1, stack'[n - 1].proc = "performSyncWorkOnRoot"
               PROVE  SyncLane \in f.lanes
    BY <1>3, <1>5 DEF CommitsSync, At
  <2>1. n - 1 \in 1..(n - 1)
    OBVIOUS
  <2>2. stack[n - 1].proc = "performSyncWorkOnRoot"
    BY <1>5, <2>1
  <2>3. SyncLane \in root[r].finishedLanes
    BY <1>1, <1>4, <2>2 DEF CallInv, CommitsSync, At
  <2> QED BY <1>3, <2>3
<1>7. Calls' /\ Flushing'
  BY <1>1, <1>3, <1>6, CommitGoes
<1> QED
  BY <1>1, <1>6, <1>7, EffectsStayNone DEF CallInv

LEMMA EndCommitCalls == ASSUME Inv, CallInv, EndCommit PROVE CallInv'
<1>1. /\ StackOK(stack) /\ ~Idle /\ Top.proc = "commitRoot" /\ Top.pc = "layout"
      /\ Goto("scheduled") /\ UNCHANGED isFlushingSyncQueue /\ passive.root = NoRoot
      /\ passive' = IF Top.passive THEN [root |-> Top.root, lanes |-> Top.lanes] ELSE passive
  BY InvParts, NoEffects DEF EndCommit, At
<1> DEFINE f == [Top EXCEPT !.pc = "scheduled"]
<1>2. f.proc = Top.proc /\ f.root = Top.root /\ f.pc = "scheduled" /\ Continue(f)
  BY <1>1, TopAt DEF Goto
<1> HIDE DEF f
<1>3. /\ Calls' /\ Flushing' /\ CommitsSync'
      /\ Top' = f /\ ~Idle' /\ Len(stack') = Len(stack)
      /\ \A i \in 1..(Len(stack) - 1) : stack'[i] = stack[i]
  BY <1>1, <1>2, CommitGoes
<1>4. PassiveInv'
  <2> SUFFICES ASSUME passive'.root # NoRoot PROVE PassiveMayWait'
    BY DEF PassiveInv
  <2>1. passive'.lanes = Top.lanes
    BY <1>1
  <2>2. CASE Outer(Len(stack))
    BY <1>1, <1>2, <1>3, <2>2, OuterStays DEF PassiveMayWait
  <2>3. CASE ~Outer(Len(stack))
    <3>1. SyncLane \in Top.lanes
      BY <1>1, <2>3, CommitCaller DEF CallInv, CommitsSync, At
    <3> QED BY <1>1, <1>2, <1>3, <2>1, <3>1 DEF PassiveMayWait
  <2> QED BY <2>2, <2>3
<1> QED
  BY <1>3, <1>4 DEF CallInv

LEMMA FlushDiscreteEffectsCalls == ASSUME Inv, CallInv, FlushDiscreteEffects PROVE CallInv'
<1>1. /\ StackOK(stack) /\ ~Idle /\ Top.proc = "commitRoot" /\ Top.pc = "scheduled"
      /\ UNCHANGED <<isFlushingSyncQueue, passive>>
  BY InvParts DEF FlushDiscreteEffects, At
<1>2. CASE SyncLane \in passive.lanes
  <2>1. Call("flushPassiveEffects", NoRoot, "nested")
    BY <1>2 DEF FlushDiscreteEffects
  <2> QED BY <1>1, <2>1, CallEffects
<1>3. CASE SyncLane \notin passive.lanes
  <2> DEFINE f == [Top EXCEPT !.pc = "nested"]
  <2>1. f.proc = Top.proc /\ f.root = Top.root /\ f.pc = "nested" /\ Continue(f)
    BY <1>1, <1>3, TopAt DEF FlushDiscreteEffects, Goto
  <2> HIDE DEF f
  <2>2. /\ Calls' /\ Flushing' /\ CommitsSync'
        /\ Top' = f /\ ~Idle' /\ Len(stack') = Len(stack)
        /\ \A i \in 1..(Len(stack) - 1) : stack'[i] = stack[i]
    BY <1>1, <2>1, CommitGoes
  <2>3. PassiveInv'
    <3> SUFFICES ASSUME passive'.root # NoRoot PROVE PassiveMayWait'
      BY DEF PassiveInv
    <3>1. Outer(Len(stack))
      BY <1>1, <1>3 DEF CallInv, PassiveInv, PassiveMayWait, Procs
    <3> QED BY <1>1, <2>1, <2>2, <3>1, OuterStays DEF PassiveMayWait
  <2> QED BY <2>2, <2>3 DEF CallInv
<1> QED
  BY <1>2, <1>3

LEMMA CountNestedUpdateCalls == ASSUME Inv, CallInv, CountNestedUpdate PROVE CallInv'
<1>1. /\ StackOK(stack) /\ ~Idle /\ Top.proc = "commitRoot" /\ Top.pc = "nested"
      /\ UNCHANGED <<isFlushingSyncQueue, passive>> /\ Call("flushSyncCallbacks", NoRoot, "end")
  BY InvParts DEF CountNestedUpdate, At
<1> DEFINE f == [Top EXCEPT !.pc = "end"]
           g == Frame("flushSyncCallbacks", "begin", NoRoot)
<1>2. g.proc = "flushSyncCallbacks" /\ g.pc = "begin"
  BY FrameFields
<1>3. MayCall(f, g) /\ f.proc = "commitRoot"
  BY <1>1, <1>2, TopAt DEF MayCall
<1>4. PICK n \in Nat \ {0} : n = Len(stack)
  BY <1>1, TopAt
<1>5. /\ Calls' /\ Flushing' /\ ~Idle' /\ Top' = g
      /\ Len(stack') = n + 1 /\ stack'[n].proc = "commitRoot"
      /\ \A i \in 1..(n - 1) : stack'[i] = stack[i]
  <2>1. /\ Calls' /\ Flushing' /\ ~Idle' /\ Top' = g
        /\ Len(stack') = Len(stack) + 1 /\ stack'[Len(stack)] = f
        /\ \A i \in 1..(Len(stack) - 1) : stack'[i] = stack[i]
    BY <1>1, <1>3, CallCall
  <2> HIDE DEF f, g
  <2> QED BY <1>3, <1>4, <2>1
<1>6. CommitsSync'
  BY <1>2, <1>5 DEF CommitsSync, At
<1>7. PassiveInv'
  <2> SUFFICES ASSUME passive'.root # NoRoot PROVE PassiveMayWait'
    BY DEF PassiveInv
  <2>1. n = 1 \/ (n - 1 \in 1..(n - 1) /\ stack[n - 1].proc = "performConcurrentWorkOnRoot")
    <3>1. Outer(n)
      BY <1>1, <1>4 DEF CallInv, PassiveInv, PassiveMayWait, Procs
    <3>2. n = 1 \/ n - 1 \in 1..(n - 1)
      OBVIOUS
    <3> QED BY <3>1, <3>2 DEF Outer
  <2>2. n = 1 \/ stack'[n - 1].proc = "performConcurrentWorkOnRoot"
    BY <1>5, <2>1
  <2>3. (n + 1) - 1 = n /\ Len(stack') - 1 = n
    BY <1>5
  <2> QED BY <1>2, <1>5, <2>2, <2>3 DEF PassiveMayWait, Outer
<1> QED
  BY <1>5, <1>6, <1>7 DEF CallInv

LEMMA ReturnFromCommitCalls == ASSUME Inv, CallInv, ReturnFromCommit PROVE CallInv'
<1>1. /\ StackOK(stack) /\ ~Idle /\ Top.proc = "commitRoot" /\ Top.pc = "end"
      /\ UNCHANGED <<isFlushingSyncQueue, passive>> /\ Return /\ ~IsLoop(Top)
  BY InvParts DEF ReturnFromCommit, At, IsLoop
<1>2. Calls' /\ Flushing' /\ CommitsSync'
  BY <1>1, CallReturn
<1>3. PassiveInv'
  <2> SUFFICES ASSUME passive'.root # NoRoot, ~Idle' PROVE PassiveMayWait'
    BY DEF PassiveInv
  <2>1. Len(stack) # 1 /\ Top' = stack[Len(stack) - 1]
    BY <1>1, ReturnShape
  <2>2. Outer(Len(stack))
    BY <1>1 DEF CallInv, PassiveInv, PassiveMayWait, Procs
  <2>3. Top'.proc = "performConcurrentWorkOnRoot" /\ Top'.pc = "exit"
    BY <1>1, <2>1, <2>2, Caller DEF Outer, MayCall
  <2> QED BY <2>3 DEF PassiveMayWait
<1> QED
  BY <1>2, <1>3 DEF CallInv

LEMMA ThrowCalls == ASSUME Throw PROVE CallInv'
  BY CallEmpty DEF Throw

LEMMA StutterCalls == ASSUME CallInv, UNCHANGED vars PROVE CallInv'
<1>1. Top' = Top /\ Idle' = Idle
  BY DEF vars, Top, Idle
<1> QED
  BY <1>1 DEF vars, CallInv, Calls, Flushing, PassiveInv, PassiveMayWait, Outer, CommitsSync, At

LEMMA InitCalls == Init => CallInv
  BY DEF Init, CallInv, Calls, Flushing, PassiveInv, CommitsSync, Idle

LEMMA NextCalls == ASSUME Inv, LanesInv, CallInv, [Next]_vars PROVE CallInv'
<1>1. CASE UserCode
  <2>1. CASE RenderFails
    BY <2>1, PerformCalls
  <2>2. CASE RenderIsInconsistent
    BY <2>2, RenderAgainCalls
  <2>3. CASE ThrowUncaughtError
    BY <2>3, ThrowCalls DEF ThrowUncaughtError
  <2>4. CASE \E r \in Roots : FlushSync(r)
    BY <2>4, StartsCalls
  <2> QED BY <1>1, <2>1, <2>2, <2>3, <2>4, StackStaysCalls DEF UserCode
<1>2. CASE Host
  BY <1>2, StartsCalls, StackStaysCalls DEF Host
<1>3. CASE React
  <2>1. CASE ThrowFatalError
    BY <2>1, ThrowCalls DEF ThrowFatalError
  <2> QED
    BY <1>3, <2>1, BeginFlushCalls, NextSyncCallbackCalls, PassiveCalls, BeginPerformCalls,
       PerformCalls, ChooseLanesSyncCalls, ChooseLanesConcurrentCalls, StackStaysCalls,
       RenderAgainCalls, FinishCalls, ExitPerformCalls, ReturnFromPerformCalls,
       FlushBeforeCommitCalls, NothingToCommitCalls, CommitMutationEffectsCalls, EndCommitCalls,
       FlushDiscreteEffectsCalls, CountNestedUpdateCalls, ReturnFromCommitCalls
       DEF React
<1>4. CASE Quiescent \/ UNCHANGED vars
  BY <1>4, StutterCalls DEF Quiescent
<1> QED
  BY <1>1, <1>2, <1>3, <1>4 DEF Next

-----------------------------------------------------------------------------
(* The priority of a root.                                                 *)

LaneNow(rt, lanes) == HighestPriorityLane(NextLanes(rt, lanes))

LEMMA LaneInts == \A l \in Lane : l \in Int /\ l \in 0..30
  BY LaneAssumption

LEMMA HighestIsLeast ==
    ASSUME NEW lanes \in SUBSET Lane, lanes # {}
    PROVE  /\ HighestPriorityLane(lanes) \in lanes
           /\ \A l \in lanes : HighestPriorityLane(lanes) <= l
<1>1. lanes \subseteq Nat
  BY LaneAssumption
<1>2. \E l \in lanes : \A m \in lanes : l <= m
  BY <1>1, LeastNatural
<1> QED
  BY <1>2 DEF HighestPriorityLane, NoLanes

LEMMA LeastIsHighest ==
    ASSUME NEW lanes \in SUBSET Lane, NEW m \in lanes, \A l \in lanes : m <= l
    PROVE  HighestPriorityLane(lanes) = m
<1>1. HighestPriorityLane(lanes) \in lanes /\ HighestPriorityLane(lanes) <= m
  BY HighestIsLeast
<1>2. m <= HighestPriorityLane(lanes)
  BY <1>1
<1>3. m \in Int /\ HighestPriorityLane(lanes) \in Int
  <2>1. m \in Lane /\ HighestPriorityLane(lanes) \in Lane
    BY <1>1
  <2> QED BY <2>1, LaneInts
<1> QED
  BY <1>1, <1>2, <1>3

LEMMA NoLaneHighest == HighestPriorityLane({}) = NoLane
  BY DEF HighestPriorityLane, NoLanes

(* The lanes rendered together begin with the most urgent.                 *)
LEMMA GroupHighest ==
    ASSUME NEW lanes \in SUBSET Lane
    PROVE  /\ HighestPriorityLanes(lanes) \subseteq lanes
           /\ lanes # {} => HighestPriorityLanes(lanes) # {}
           /\ HighestPriorityLane(HighestPriorityLanes(lanes)) = HighestPriorityLane(lanes)
<1> DEFINE m == HighestPriorityLane(lanes)
<1>1. HighestPriorityLanes(lanes) \subseteq lanes
  BY DEF HighestPriorityLanes
<1>2. CASE lanes = {}
  BY <1>1, <1>2
<1>3. CASE lanes # {}
  <2>1. m \in lanes /\ \A l \in lanes : m <= l
    BY <1>3, HighestIsLeast
  <2> HIDE DEF m
  <2>2. m \in LaneGroup(m)
    BY DEF LaneGroup
  <2>3. m \in HighestPriorityLanes(lanes)
    BY <2>1, <2>2 DEF HighestPriorityLanes, m
  <2>4. HighestPriorityLanes(lanes) \in SUBSET Lane
    BY <1>1
  <2>5. HighestPriorityLane(HighestPriorityLanes(lanes)) = m
    BY <1>1, <2>1, <2>3, <2>4, LeastIsHighest
  <2> QED BY <1>1, <2>3, <2>5 DEF m
<1> QED
  BY <1>2, <1>3

LEMMA WorkableLanes ==
    ASSUME NEW rt \in RootType, LanesOf(rt)
    PROVE  Workable(rt) \in SUBSET Lane /\ Workable(rt) \subseteq rt.pendingLanes
  BY DEF LanesOf, Workable, OrElse, RootType, NoLanes

(* What is added to the most urgent lanes is no more urgent.               *)
LEMMA WithOthers ==
    ASSUME NEW rt \in RootType, LanesOf(rt), NEW next \in SUBSET Lane, next # {},
           next \subseteq rt.pendingLanes
    PROVE  LET all == WithEntangled(rt, WithDefault(rt, next))
           IN  /\ all \in SUBSET Lane /\ all \subseteq rt.pendingLanes /\ all # {}
               /\ HighestPriorityLane(all) = HighestPriorityLane(next)
               /\ all \subseteq next \cup {DefaultLane}
<1> DEFINE all == WithDefault(rt, next)
           m == HighestPriorityLane(next)
<1>1. WithEntangled(rt, all) = all
  BY DEF WithEntangled, LanesOf, NoLanes
<1>2. rt.pendingLanes \in SUBSET Lane
  BY DEF RootType
<1>3. /\ all \in SUBSET Lane /\ all \subseteq rt.pendingLanes /\ next \subseteq all
      /\ \A l \in all : l \in next \/ (l = DefaultLane /\ InputContinuousLane \in next)
  BY <1>2 DEF WithDefault
<1>4. m \in next /\ \A l \in next : m <= l
  BY HighestIsLeast
<1>5. m \in Int
  <2>1. m \in Lane
    BY <1>4
  <2> QED BY <2>1, LaneInts
<1>6. \A l \in all : m <= l
  <2> TAKE l \in all
  <2>1. CASE l = DefaultLane /\ InputContinuousLane \in next
    <3>1. m <= 2
      BY <1>4, <2>1 DEF InputContinuousLane
    <3> QED BY <1>5, <2>1, <3>1 DEF DefaultLane
  <2> QED BY <1>3, <1>4, <2>1
<1> HIDE DEF all, m
<1>7. HighestPriorityLane(all) = m
  BY <1>3, <1>4, <1>6, LeastIsHighest
<1> QED
  BY <1>1, <1>3, <1>4, <1>7 DEF all, m

(* getNextLanes: the most urgent workable lane, unless a render goes on.   *)
LEMMA NextLanesChoice ==
    ASSUME NEW rt \in RootType, LanesOf(rt), NEW w \in SUBSET Lane
    PROVE  LET next == HighestPriorityLanes(Workable(rt))
               goesOn == next # {} /\ DoNotInterrupt(rt, w, next)
           IN  /\ LaneNow(rt, w) = IF goesOn THEN HighestPriorityLane(w)
                                   ELSE HighestPriorityLane(Workable(rt))
               /\ ~goesOn => NextLanes(rt, w) \subseteq Workable(rt) \cup {DefaultLane}
               /\ ~goesOn => NextLanes(rt, w) \subseteq rt.pendingLanes
               /\ goesOn => NextLanes(rt, w) = w
               /\ NextLanes(rt, w) \in SUBSET Lane
<1> DEFINE work == Workable(rt)
           next == HighestPriorityLanes(work)
           all == WithEntangled(rt, WithDefault(rt, next))
           goesOn == next # {} /\ DoNotInterrupt(rt, w, next)
<1>1. work \in SUBSET Lane /\ work \subseteq rt.pendingLanes
  BY WorkableLanes
<1>2. /\ next \subseteq work /\ (work # {} => next # {})
      /\ HighestPriorityLane(next) = HighestPriorityLane(work)
  BY <1>1, GroupHighest
<1>3. next # {} => /\ all \in SUBSET Lane /\ all \subseteq rt.pendingLanes
                   /\ HighestPriorityLane(all) = HighestPriorityLane(work)
                   /\ all \subseteq work \cup {DefaultLane}
  <2> SUFFICES ASSUME next # {}
               PROVE  /\ all \in SUBSET Lane /\ all \subseteq rt.pendingLanes
                      /\ HighestPriorityLane(all) = HighestPriorityLane(work)
                      /\ all \subseteq work \cup {DefaultLane}
    OBVIOUS
  <2>1. next \in SUBSET Lane /\ next \subseteq rt.pendingLanes
    BY <1>1, <1>2
  <2> HIDE DEF next
  <2>2. /\ all \in SUBSET Lane /\ all \subseteq rt.pendingLanes
        /\ HighestPriorityLane(all) = HighestPriorityLane(next)
        /\ all \subseteq next \cup {DefaultLane}
    BY <2>1, WithOthers
  <2> QED BY <1>2, <2>2
<1>4. next # {} => rt.pendingLanes # {}
  BY <1>1, <1>2
<1>5. NextLanes(rt, w) = IF next = {} THEN {} ELSE IF goesOn THEN w ELSE all
  <2> HIDE DEF all
  <2>1. NextLanes(rt, w) = CASE rt.pendingLanes = {} \/ next = {} -> {}
                             [] DoNotInterrupt(rt, w, next) -> w
                             [] OTHER -> all
    BY DEF NextLanes, NoLanes, all
  <2> HIDE DEF next
  <2>2. CASE next = {}
    <3>1. w # {} => HighestPriorityLane(w) \in Int /\ HighestPriorityLane(w) >= 0
      <4>1. w # {} => HighestPriorityLane(w) \in Lane
        BY HighestIsLeast
      <4> QED BY <4>1, LaneInts
    <3>2. ~DoNotInterrupt(rt, w, next)
      BY <2>2, <3>1, NoLaneHighest DEF DoNotInterrupt, NoLane, NoLanes, DefaultLane
    <3> QED BY <2>1, <2>2, <3>2
  <2>3. CASE next # {} /\ DoNotInterrupt(rt, w, next)
    BY <1>4, <2>1, <2>3
  <2>4. CASE next # {} /\ ~DoNotInterrupt(rt, w, next)
    BY <1>4, <2>1, <2>4
  <2> QED BY <2>2, <2>3, <2>4
<1> HIDE DEF work, next, all, goesOn
<1>6. LaneNow(rt, w) = IF goesOn THEN HighestPriorityLane(w) ELSE HighestPriorityLane(work)
  BY <1>2, <1>3, <1>5 DEF LaneNow, goesOn
<1>7. /\ ~goesOn => NextLanes(rt, w) \subseteq work \cup {DefaultLane}
      /\ ~goesOn => NextLanes(rt, w) \subseteq rt.pendingLanes
      /\ goesOn => NextLanes(rt, w) = w
      /\ NextLanes(rt, w) \in SUBSET Lane
  BY <1>3, <1>5 DEF goesOn
<1> QED
  BY <1>6, <1>7 DEF work, next, goesOn

LEMMA NextLanesPending ==
    ASSUME NEW rt \in RootType, LanesOf(rt), NEW w \in SUBSET Lane, w \subseteq rt.pendingLanes
    PROVE  NextLanes(rt, w) \subseteq rt.pendingLanes
  BY NextLanesChoice

LEMMA NoRenderNext ==
    ASSUME NEW rt \in RootType, LanesOf(rt)
    PROVE  /\ LaneNow(rt, NoLanes) = HighestPriorityLane(Workable(rt))
           /\ NextLanes(rt, NoLanes) \subseteq Workable(rt) \cup {DefaultLane}
<1>1. ~DoNotInterrupt(rt, NoLanes, HighestPriorityLanes(Workable(rt))) /\ NoLanes \in SUBSET Lane
  BY DEF DoNotInterrupt, NoLanes
<1> QED
  BY <1>1, NextLanesChoice

(* A lane being rendered that is not suspended is workable, unless more    *)
(* urgent ones are.                                                        *)
LEMMA RenderedIsWorkable ==
    ASSUME NEW rt \in RootType, NEW lane \in rt.pendingLanes, lane \notin rt.suspendedLanes
    PROVE  lane \in Workable(rt) \/ (lane \notin NonIdleLanes /\ Workable(rt) \subseteq NonIdleLanes)
  BY DEF Workable, OrElse, NoLanes

(* The task of a transition may be left to a default update.               *)
Fits(priority, lane) == priority = lane \/ (priority \in TransitionLanes /\ lane = DefaultLane)

(* If a render is abandoned for another root, what was scheduled fits.     *)
LEMMA AbandonedFits ==
    ASSUME NEW rt \in RootType, LanesOf(rt), NEW w \in SUBSET Lane, w \subseteq rt.pendingLanes,
           NEW priority, Fits(priority, LaneNow(rt, w))
    PROVE  Fits(priority, LaneNow(rt, NoLanes))
<1> DEFINE work == Workable(rt)
           next == HighestPriorityLanes(work)
           goesOn == next # {} /\ DoNotInterrupt(rt, w, next)
           wipLane == HighestPriorityLane(w)
           nextLane == HighestPriorityLane(work)
<1>1. /\ LaneNow(rt, w) = IF goesOn THEN wipLane ELSE nextLane
      /\ LaneNow(rt, NoLanes) = nextLane
  BY NextLanesChoice, NoRenderNext
<1>2. SUFFICES ASSUME goesOn, Fits(priority, wipLane) PROVE Fits(priority, nextLane)
  BY <1>1
<1>3. work \in SUBSET Lane /\ work \subseteq rt.pendingLanes
  BY WorkableLanes
<1>4. HighestPriorityLane(next) = nextLane /\ work # {}
  BY <1>2, <1>3, GroupHighest
<1>5. /\ w # {} /\ w \cap rt.suspendedLanes = {}
      /\ nextLane >= wipLane \/ (nextLane = DefaultLane /\ wipLane \in TransitionLanes)
  BY <1>2, <1>4 DEF DoNotInterrupt, NoLanes
<1>6. wipLane \in w /\ nextLane \in work /\ \A l \in work : nextLane <= l
  BY <1>3, <1>4, <1>5, HighestIsLeast
<1>7. wipLane \in Lane /\ nextLane \in Lane /\ wipLane \in 0..30 /\ nextLane \in 0..30
  BY <1>3, <1>6, LaneAssumption
<1> HIDE DEF wipLane, nextLane, work, next, goesOn
<1>8. CASE nextLane = DefaultLane /\ wipLane \in TransitionLanes
  BY <1>2, <1>8 DEF Fits, TransitionLanes, DefaultLane
<1>9. CASE nextLane >= wipLane
  <2>1. wipLane \in work \/ (wipLane \notin NonIdleLanes /\ work \subseteq NonIdleLanes)
    BY <1>5, <1>6, RenderedIsWorkable DEF work
  <2>2. CASE wipLane \in work
    BY <1>2, <1>6, <1>7, <1>9, <2>2
  <2>3. CASE wipLane \notin NonIdleLanes /\ work \subseteq NonIdleLanes
    BY <1>6, <1>7, <1>9, <2>3 DEF NonIdleLanes
  <2> QED BY <2>1, <2>2, <2>3
<1> QED
  BY <1>5, <1>8, <1>9

LEMMA SameLanesNow ==
    ASSUME NEW rt, NEW st, SameLanes(st, rt)
    PROVE  /\ LanesOf(rt) => LanesOf(st)
           /\ \A w : NextLanes(st, w) = NextLanes(rt, w) /\ LaneNow(st, w) = LaneNow(rt, w)
<1>1. Workable(st) = Workable(rt)
  BY DEF SameLanes, Workable
<1>2. \A w, next : DoNotInterrupt(st, w, next) <=> DoNotInterrupt(rt, w, next)
  BY DEF SameLanes, DoNotInterrupt
<1>3. \A next : WithEntangled(st, WithDefault(st, next)) = WithEntangled(rt, WithDefault(rt, next))
  BY DEF SameLanes, WithEntangled, WithDefault
<1>4. st.pendingLanes = rt.pendingLanes
  BY DEF SameLanes
<1>5. \A w : NextLanes(st, w) = NextLanes(rt, w)
  BY <1>1, <1>2, <1>3, <1>4 DEF NextLanes
<1> QED
  BY <1>5 DEF LaneNow, LanesOf, SameLanes

-----------------------------------------------------------------------------
(* What ensureRootIsScheduled does.                                        *)

InQueue(r) == r \in Range(syncQueue)

Ensured(r, rs, lanes) ==
    /\ \A q \in Roots : q # r => root'[q] = rs[q]
    /\ SameLanes(root'[r], rs[r])
    /\ root'[r].callbackPriority = LaneNow(rs[r], lanes)
    /\ root'[r].callbackPriority = SyncLane => rs[r].callbackPriority = SyncLane \/ InQueue(r)'
    /\ \A q \in Roots : InQueue(q) => InQueue(q)'
    /\ UNCHANGED queueVars \/ microtask'

LEMMA ScheduledPriority ==
    \A rt \in RootType : \A id, priority :
        /\ Scheduled(rt, id, priority).callbackPriority = priority
        /\ SameLanes(Scheduled(rt, id, priority), rt)
  BY DEF Scheduled, RootType, SameLanes

LEMMA Ensures ==
    ASSUME syncQueue \in Seq(Roots), NEW r \in Roots, NEW rs \in [Roots -> RootType], NEW lanes,
           EnsureRootIsScheduled(r, rs, lanes)
    PROVE  Ensured(r, rs, lanes)
<1>1. rs[r] \in RootType
  OBVIOUS
<1>2. NextLanes(rs[r], lanes) = NoLanes => LaneNow(rs[r], lanes) = NoLane /\ NoLane # SyncLane
  BY NoLaneHighest DEF LaneNow, NoLanes, NoLane, SyncLane
<1>3. ASSUME NEW id, NEW p, root' = [rs EXCEPT ![r] = Scheduled(rs[r], id, p)]
      PROVE  /\ \A q \in Roots : q # r => root'[q] = rs[q]
             /\ SameLanes(root'[r], rs[r]) /\ root'[r].callbackPriority = p
  <2>1. root'[r] = Scheduled(rs[r], id, p)
    BY <1>3
  <2> QED BY <1>1, <1>3, <2>1, ScheduledPriority
<1>4. UNCHANGED queueVars => \A q \in Roots : InQueue(q) => InQueue(q)'
  BY DEF queueVars, InQueue
<1>5. syncQueue' = Append(syncQueue, r) =>
        InQueue(r)' /\ \A q \in Roots : InQueue(q) => InQueue(q)'
  BY RangeAppend DEF InQueue
<1>6. \/ /\ root' = rs /\ LaneNow(rs[r], lanes) = rs[r].callbackPriority
         /\ UNCHANGED queueVars
      \/ /\ \E id : root' = [rs EXCEPT ![r] = Scheduled(rs[r], id, LaneNow(rs[r], lanes))]
         /\ \/ UNCHANGED queueVars /\ LaneNow(rs[r], lanes) # SyncLane
            \/ syncQueue' = Append(syncQueue, r) /\ microtask' = TRUE
  BY <1>2 DEF EnsureRootIsScheduled, LaneNow
<1>7. CASE /\ root' = rs /\ LaneNow(rs[r], lanes) = rs[r].callbackPriority
           /\ UNCHANGED queueVars
  BY <1>4, <1>7, SameLanesSelf DEF Ensured
<1>8. ASSUME NEW id, root' = [rs EXCEPT ![r] = Scheduled(rs[r], id, LaneNow(rs[r], lanes))],
             \/ UNCHANGED queueVars /\ LaneNow(rs[r], lanes) # SyncLane
             \/ syncQueue' = Append(syncQueue, r) /\ microtask' = TRUE
      PROVE  Ensured(r, rs, lanes)
  <2>1. /\ \A q \in Roots : q # r => root'[q] = rs[q]
        /\ SameLanes(root'[r], rs[r]) /\ root'[r].callbackPriority = LaneNow(rs[r], lanes)
    BY <1>3, <1>8
  <2> QED BY <1>4, <1>5, <1>8, <2>1 DEF Ensured
<1> QED
  BY <1>6, <1>7, <1>8

-----------------------------------------------------------------------------
(* What is scheduled for a root fits its lanes, except while the function  *)
(* on top works on it, which will schedule it anew.                        *)

FitsNow(r) == Fits(root[r].callbackPriority, LaneNow(root[r], WipLanes(r)))

WorksOn(f) ==
    \/ f.proc \in Procs /\ f.pc \in {"render", "rendered", "fatal", "exit"}
    \/ f.proc = "commitRoot" /\ f.pc \in {"begin", "layout"}

Window(r) == ~Idle /\ WorksOn(Top) /\ Top.root = r

CommitFits ==
    At("commitRoot", "begin") =>
        (passive.root = NoRoot /\ root[Top.root].finishedWork) \/ FitsNow(Top.root)

FitInv == (\A r \in Roots : Window(r) \/ FitsNow(r)) /\ CommitFits

AllFit == \A q \in Roots : FitsNow(q)
OthersFit(r) == \A q \in Roots : q # r => FitsNow(q)

LEMMA FitAll == ASSUME FitInv, Idle \/ ~WorksOn(Top) PROVE AllFit
  BY DEF FitInv, AllFit, Window

LEMMA FitOthers == ASSUME FitInv, ~Idle PROVE OthersFit(Top.root)
  BY DEF FitInv, OthersFit, Window

LEMMA AllFitStep ==
    ASSUME StackOK(stack)', AllFit'
    PROVE  FitInv'
<1>1. At("commitRoot", "begin")' => Top'.root \in Roots
  <2> SUFFICES ASSUME At("commitRoot", "begin")' PROVE Top'.root \in Roots
    OBVIOUS
  <2>1. ~Idle' /\ Top'.proc = "commitRoot"
    BY DEF At
  <2>2. FrameOK(Top')
    <3>1. stack' # << >> /\ stack' \in Seq(FrameType) /\ \A i \in 1..Len(stack') : FrameOK(stack'[i])
      BY <2>1 DEF StackOK, Idle
    <3>2. Len(stack') \in 1..Len(stack')
      BY <3>1, EmptySeq
    <3> QED BY <3>1, <3>2 DEF Top
  <2> QED BY <2>1, <2>2 DEF FrameOK
<1> QED
  BY <1>1 DEF FitInv, AllFit, CommitFits

LEMMA WindowStep ==
    ASSUME NEW r, ~Idle', WorksOn(Top'), Top'.root = r, OthersFit(r)',
           At("commitRoot", "begin")' => passive'.root = NoRoot /\ root'[r].finishedWork
    PROVE  FitInv'
  BY DEF FitInv, OthersFit, Window, CommitFits

(* What is scheduled for a root, and for what, is as it was.               *)
SameSchedule(q) ==
    /\ SameLanes(root'[q], root[q])
    /\ root'[q].callbackPriority = root[q].callbackPriority
    /\ WipLanes(q)' = WipLanes(q)

LEMMA SameScheduleFits == ASSUME NEW q \in Roots, SameSchedule(q), FitsNow(q) PROVE FitsNow(q)'
<1>1. LaneNow(root[q], WipLanes(q))' = LaneNow(root[q], WipLanes(q))
  <2>1. \A w : LaneNow(root'[q], w) = LaneNow(root[q], w)
    BY SameLanesNow DEF SameSchedule
  <2> QED BY <2>1 DEF SameSchedule
<1> QED
  BY <1>1 DEF FitsNow, SameSchedule

LEMMA EnsuredFits ==
    ASSUME NEW r \in Roots, NEW rs, NEW lanes, Ensured(r, rs, lanes), WipLanes(r)' = lanes
    PROVE  FitsNow(r)'
<1>1. LaneNow(root'[r], lanes) = LaneNow(rs[r], lanes)
  BY SameLanesNow DEF Ensured
<1>2. root'[r].callbackPriority = LaneNow(root[r], WipLanes(r))'
  BY <1>1 DEF Ensured
<1> QED
  BY <1>2 DEF FitsNow, Fits

-----------------------------------------------------------------------------
(* How the lanes of a root change.                                         *)

Grown(rt, st) == LanesOf(st) /\ rt.pendingLanes \subseteq st.pendingLanes

LEMMA GrownSame == ASSUME NEW rt, NEW st, LanesOf(rt), SameLanes(st, rt) PROVE Grown(rt, st)
  BY DEF LanesOf, SameLanes, Grown

LEMMA GrownMore ==
    ASSUME NEW rt, NEW st, NEW mt, Grown(rt, st), Grown(st, mt) PROVE Grown(rt, mt)
  BY DEF Grown

LEMMA GrownUpdate ==
    ASSUME NEW rt \in RootType, NEW lane \in Lane, LanesOf(rt)
    PROVE  Grown(rt, MarkRootUpdated(rt, lane))
<1> DEFINE st == MarkRootUpdated(rt, lane)
<1>1. /\ st.pendingLanes = rt.pendingLanes \cup {lane}
      /\ st.entangledLanes = rt.entangledLanes
      /\ st.suspendedLanes = {} \/ st.suspendedLanes = rt.suspendedLanes
      /\ st.pingedLanes = {} \/ st.pingedLanes = rt.pingedLanes
  BY DEF MarkRootUpdated, RootType, NoLanes
<1> HIDE DEF st
<1>2. Grown(rt, st)
  BY <1>1 DEF Grown, LanesOf
<1> QED
  BY <1>2 DEF st

LEMMA GrownSuspend ==
    ASSUME NEW rt \in RootType, NEW lanes \in SUBSET rt.pendingLanes, LanesOf(rt)
    PROVE  Grown(rt, MarkRootSuspended(rt, lanes))
<1> DEFINE st == MarkRootSuspended(rt, lanes)
<1>1. /\ st.pendingLanes = rt.pendingLanes
      /\ st.entangledLanes = rt.entangledLanes
      /\ st.suspendedLanes = rt.suspendedLanes \cup lanes
      /\ st.pingedLanes = rt.pingedLanes \ lanes
  BY DEF MarkRootSuspended, RootType
<1> HIDE DEF st
<1>2. Grown(rt, st)
  BY <1>1 DEF Grown, LanesOf
<1> QED
  BY <1>2 DEF st

LEMMA GrownPing ==
    ASSUME NEW rt \in RootType, NEW lanes, LanesOf(rt)
    PROVE  Grown(rt, MarkRootPinged(rt, lanes))
<1> DEFINE st == MarkRootPinged(rt, lanes)
<1>1. /\ st.pendingLanes = rt.pendingLanes
      /\ st.entangledLanes = rt.entangledLanes
      /\ st.suspendedLanes = rt.suspendedLanes
      /\ st.pingedLanes = rt.pingedLanes \cup (rt.suspendedLanes \cap lanes)
  BY DEF MarkRootPinged, RootType
<1> HIDE DEF st
<1>2. Grown(rt, st)
  BY <1>1 DEF Grown, LanesOf
<1> QED
  BY <1>2 DEF st

(* The root and the lanes of the render stay, or there are none.           *)
WipKeeps == (wip'.root = wip.root /\ wip'.lanes = wip.lanes) \/ wip'.lanes = NoLanes

AllGrown == \A q \in Roots : Grown(root[q], root'[q])

LEMMA WipLanesStay ==
    ASSUME LanesInv, wip.root \in Roots \cup {NoRoot}, AllGrown, WipKeeps
    PROVE  (\A q \in Roots : LanesOf(root'[q])) /\ WipLanesOf'
  BY DEF LanesInv, WipLanesOf, AllGrown, Grown, WipKeeps, NoLanes

LEMMA LanesCalm ==
    ASSUME Inv, LanesInv, AllGrown, WipKeeps, TopCalm'
    PROVE  LanesInv'
<1>1. wip.root \in Roots \cup {NoRoot}
  BY InvParts DEF RootsOK, WipType
<1>2. RenderedLanesOf' /\ SyncRenders'
  BY DEF TopCalm, RenderedLanesOf, SyncRenders, Performing
<1> QED
  BY <1>1, <1>2, WipLanesStay DEF LanesInv

LEMMA LanesSame ==
    ASSUME Inv, LanesInv, AllGrown, UNCHANGED stack, wip'.root = wip.root, wip'.lanes = wip.lanes
    PROVE  LanesInv'
<1>1. wip.root \in Roots \cup {NoRoot} /\ StackOK(stack)
  BY InvParts DEF RootsOK, WipType
<1>2. Top' = Top /\ Idle' = Idle
  BY DEF Top, Idle
<1>3. SyncRenders'
  BY <1>2 DEF LanesInv, SyncRenders
<1>4. RenderedLanesOf'
  <2> SUFFICES ASSUME (Performing("rendered") \/ Performing("fatal"))'
               PROVE  wip'.root = NoRoot /\ Top.lanes \subseteq root'[Top.root].pendingLanes
    BY <1>2 DEF RenderedLanesOf
  <2>1. Performing("rendered") \/ Performing("fatal")
    BY <1>2 DEF Performing
  <2>2. Top.root \in Roots
    BY <1>1, <2>1, TopHasRoot DEF Performing
  <2>3. wip.root = NoRoot /\ Top.lanes \subseteq root[Top.root].pendingLanes
    BY <2>1 DEF LanesInv, RenderedLanesOf
  <2> QED BY <2>2, <2>3 DEF AllGrown, Grown
<1> QED
  BY <1>1, <1>3, <1>4, WipLanesStay DEF LanesInv, WipKeeps

-----------------------------------------------------------------------------
(* What a step that schedules a root does.                                 *)

QueueGrows ==
    /\ \A q \in Roots : InQueue(q) => InQueue(q)'
    /\ UNCHANGED queueVars \/ microtask'

EnsuredStep(r) ==
    /\ AllGrown /\ WipKeeps
    /\ \A q \in Roots : q # r => SameSchedule(q)
    /\ FitsNow(r)'
    /\ root'[r].callbackPriority = SyncLane => root[r].callbackPriority = SyncLane \/ InQueue(r)'
    /\ QueueGrows

LEMMA SameScheduleSelf ==
    ASSUME NEW q \in Roots, root'[q] = root[q], WipLanes(q)' = WipLanes(q)
    PROVE  SameSchedule(q)
  BY SameLanesSelf DEF SameSchedule

(* The one root that changes, its render going on.                         *)
LEMMA EnsureOne ==
    ASSUME Inv, LanesInv, NEW r \in Roots, NEW rt \in RootType,
           EnsureRootIsScheduled(r, [root EXCEPT ![r] = rt], WipLanes(r)),
           wip'.root = wip.root, wip'.lanes = wip.lanes,
           Grown(root[r], rt), rt.callbackPriority = root[r].callbackPriority
    PROVE  EnsuredStep(r)
<1> DEFINE rs == [root EXCEPT ![r] = rt]
<1>1. root \in [Roots -> RootType] /\ syncQueue \in Seq(Roots)
  BY InvParts DEF RootsOK, HostOK
<1>2. rs \in [Roots -> RootType] /\ rs[r] = rt /\ \A q \in Roots : q # r => rs[q] = root[q]
  BY <1>1
<1> HIDE DEF rs
<1>3. EnsureRootIsScheduled(r, rs, WipLanes(r))
  BY DEF rs
<1>4. Ensured(r, rs, WipLanes(r))
  BY <1>1, <1>2, <1>3, Ensures
<1>5. \A q \in Roots : WipLanes(q)' = WipLanes(q)
  BY DEF WipLanes
<1>6. \A q \in Roots : q # r => SameSchedule(q)
  BY <1>2, <1>4, <1>5, SameScheduleSelf DEF Ensured
<1>7. FitsNow(r)'
  BY <1>4, <1>5, EnsuredFits
<1>8. AllGrown
  <2> SUFFICES ASSUME NEW q \in Roots PROVE Grown(root[q], root'[q])
    BY DEF AllGrown
  <2>1. CASE q = r
    <3>1. Grown(rt, root'[r])
      BY <1>2, <1>4, GrownSame DEF Ensured, Grown
    <3> QED BY <2>1, <3>1, GrownMore
  <2>2. CASE q # r
    BY <1>2, <1>4, <2>2, GrownSame, SameLanesSelf DEF Ensured, LanesInv
  <2> QED BY <2>1, <2>2
<1> QED
  BY <1>2, <1>4, <1>6, <1>7, <1>8 DEF EnsuredStep, QueueGrows, Ensured, WipKeeps

LEMMA EnsureSelf ==
    ASSUME Inv, LanesInv, NEW r \in Roots, EnsureRootIsScheduled(r, root, WipLanes(r)),
           wip' = wip
    PROVE  EnsuredStep(r)
<1>1. root \in [Roots -> RootType]
  BY InvParts DEF RootsOK
<1>2. [root EXCEPT ![r] = root[r]] = root /\ root[r] \in RootType
  BY <1>1
<1>3. Grown(root[r], root[r])
  BY GrownSame, SameLanesSelf DEF LanesInv
<1>4. EnsureRootIsScheduled(r, [root EXCEPT ![r] = root[r]], WipLanes(r))
  BY <1>2
<1> QED
  BY <1>2, <1>3, <1>4, EnsureOne

LEMMA UpdatedGrown ==
    ASSUME Inv, LanesInv, NEW r \in Roots, NEW lane \in Lane
    PROVE  LET rt == MarkRootUpdated(MarkUpdateLaneFromFiberToRoot(r, root[r], lane), lane)
           IN  /\ rt \in RootType /\ Grown(root[r], rt)
               /\ rt.callbackPriority = root[r].callbackPriority
<1>1. root[r] \in RootType
  BY InvParts DEF RootsOK
<1> DEFINE mt == MarkUpdateLaneFromFiberToRoot(r, root[r], lane)
<1>2. mt \in RootType /\ SameLanes(mt, root[r])
  BY <1>1, MarkedType
<1>3. mt.callbackPriority = root[r].callbackPriority
  BY <1>1 DEF MarkUpdateLaneFromFiberToRoot, RootType
<1> HIDE DEF mt
<1>4. Grown(root[r], mt)
  BY <1>2, GrownSame DEF LanesInv
<1>5. Grown(mt, MarkRootUpdated(mt, lane)) /\ MarkRootUpdated(mt, lane) \in RootType
  BY <1>2, <1>4, GrownUpdate, UpdatedWork DEF Grown
<1>6. MarkRootUpdated(mt, lane).callbackPriority = mt.callbackPriority
  BY <1>2 DEF MarkRootUpdated, RootType
<1>7. Grown(root[r], MarkRootUpdated(mt, lane))
  BY <1>4, <1>5, GrownMore
<1> QED
  BY <1>3, <1>5, <1>6, <1>7 DEF mt

LEMMA ScheduleUpdateStep ==
    ASSUME Inv, LanesInv, NEW r \in Roots, NEW lane \in Lane, ScheduleUpdateOnFiber(r, lane)
    PROVE  EnsuredStep(r) /\ wip'.root = wip.root /\ wip'.lanes = wip.lanes
<1> DEFINE interleaved == r = wip.root
           w == IF interleaved
                THEN [wip EXCEPT !.interleavedUpdatedLanes = @ \cup {lane}]
                ELSE wip
           updated == MarkRootUpdated(MarkUpdateLaneFromFiberToRoot(r, root[r], lane), lane)
           rt == IF interleaved /\ wip.exitStatus = "SuspendedWithDelay"
                 THEN SuspendLanes(updated, wip.lanes, w)
                 ELSE updated
<1>1. wip' = w /\ EnsureRootIsScheduled(r, [root EXCEPT ![r] = rt], WipLanes(r))
  BY DEF ScheduleUpdateOnFiber
<1>2. wip \in WipType /\ wip.lanes \in SUBSET Lane
  BY InvParts DEF RootsOK, WipType
<1>3. w \in WipType /\ w.root = wip.root /\ w.lanes = wip.lanes
  BY <1>2 DEF WipType
<1> HIDE DEF w
<1>4. /\ updated \in RootType /\ Grown(root[r], updated)
      /\ updated.callbackPriority = root[r].callbackPriority
  BY UpdatedGrown
<1> HIDE DEF updated
<1>5. CASE interleaved /\ wip.exitStatus = "SuspendedWithDelay"
  <2> DEFINE new == (wip.lanes \ w.pingedLanes) \ w.interleavedUpdatedLanes
  <2>1. wip.lanes \subseteq updated.pendingLanes
    BY <1>4, <1>5, RootSchedulerAssumption DEF LanesInv, WipLanesOf, Grown
  <2>2. new \in SUBSET updated.pendingLanes
    BY <2>1
  <2> HIDE DEF new
  <2>3. Grown(updated, MarkRootSuspended(updated, new))
    BY <1>4, <2>2, GrownSuspend DEF Grown
  <2>4. rt = MarkRootSuspended(updated, new)
    BY <1>5 DEF SuspendLanes, new
  <2>5. rt \in RootType
    BY <1>2, <1>3, <1>4, SuspendLanesWork
  <2>6. rt.callbackPriority = updated.callbackPriority
    BY <1>4, <2>4 DEF MarkRootSuspended, RootType
  <2>7. Grown(root[r], rt)
    BY <1>4, <2>3, <2>4, GrownMore
  <2> HIDE DEF rt
  <2> QED BY <1>1, <1>3, <1>4, <2>5, <2>6, <2>7, EnsureOne
<1>6. CASE ~(interleaved /\ wip.exitStatus = "SuspendedWithDelay")
  <2>1. rt = updated
    BY <1>6
  <2> HIDE DEF rt
  <2> QED BY <1>1, <1>3, <1>4, <2>1, EnsureOne
<1> QED
  BY <1>5, <1>6

LEMMA ScheduleWorkStep ==
    ASSUME Inv, LanesInv, NEW r \in Roots, NEW lane \in Lane, ScheduleWork(r, lane), wip' = wip
    PROVE  EnsuredStep(r)
<1> DEFINE rt == MarkRootUpdated(MarkUpdateLaneFromFiberToRoot(r, root[r], lane), lane)
<1>1. EnsureRootIsScheduled(r, [root EXCEPT ![r] = rt], WipLanes(r))
  BY DEF ScheduleWork
<1>2. /\ rt \in RootType /\ Grown(root[r], rt)
      /\ rt.callbackPriority = root[r].callbackPriority
  BY UpdatedGrown
<1> HIDE DEF rt
<1> QED
  BY <1>1, <1>2, EnsureOne

LEMMA UserUpdateStep ==
    ASSUME Inv, LanesInv, NEW r \in Roots, NEW lanes \in SUBSET Lane, UserUpdate(r, lanes)
    PROVE  EnsuredStep(r) /\ wip'.root = wip.root /\ wip'.lanes = wip.lanes
<1>1. TransitionLanes # NoLanes => TransitionLane \in Lane
  BY InvParts, ClaimTransitionLaneType
<1>2. PICK lane \in Lane : ScheduleUpdateOnFiber(r, lane)
  BY <1>1 DEF UserUpdate
<1> QED
  BY <1>2, ScheduleUpdateStep

(* When the render in progress, if any, is the root's and is given up.     *)
LEMMA EnsureFresh ==
    ASSUME Inv, LanesInv, NEW r \in Roots, NEW rs \in [Roots -> RootType],
           EnsureRootIsScheduled(r, rs, NoLanes), wip' = FreshWip(r, NoLanes),
           wip.root \in {r, NoRoot},
           \A q \in Roots : q # r => rs[q] = root[q],
           Grown(root[r], rs[r]), rs[r].callbackPriority = root[r].callbackPriority
    PROVE  EnsuredStep(r) /\ SameLanes(root'[r], rs[r]) /\ WipLanes(r)' = NoLanes
<1>1. syncQueue \in Seq(Roots)
  BY InvParts DEF HostOK
<1>2. Ensured(r, rs, NoLanes)
  BY <1>1, Ensures
<1>3. wip'.root = r /\ wip'.lanes = NoLanes
  BY FreshWipType, LaneSets
<1>4. \A q \in Roots : q # r => WipLanes(q)' = WipLanes(q)
  BY <1>3, RootSchedulerAssumption DEF WipLanes
<1>5. WipLanes(r)' = NoLanes
  BY <1>3 DEF WipLanes
<1>6. \A q \in Roots : q # r => SameSchedule(q)
  BY <1>2, <1>4, SameScheduleSelf DEF Ensured
<1>7. FitsNow(r)'
  BY <1>2, <1>5, EnsuredFits
<1>8. AllGrown
  <2> SUFFICES ASSUME NEW q \in Roots PROVE Grown(root[q], root'[q])
    BY DEF AllGrown
  <2>1. CASE q = r
    <3>1. Grown(rs[r], root'[r])
      BY <1>2, GrownSame DEF Ensured, Grown
    <3> QED BY <2>1, <3>1, GrownMore
  <2>2. CASE q # r
    BY <1>2, <2>2, GrownSame, SameLanesSelf DEF Ensured, LanesInv
  <2> QED BY <2>1, <2>2
<1> QED
  BY <1>2, <1>3, <1>5, <1>6, <1>7, <1>8 DEF EnsuredStep, QueueGrows, Ensured, WipKeeps

LEMMA FreshRootsOf ==
    ASSUME Inv, NEW r \in Roots, NEW lanes \in SUBSET Lane
    PROVE  /\ FreshRoots(r, lanes) \in [Roots -> RootType]
           /\ \A q \in Roots :
                /\ SameLanes(FreshRoots(r, lanes)[q], root[q])
                /\ FreshRoots(r, lanes)[q].callbackPriority = root[q].callbackPriority
                /\ q # r /\ q # wip.root => FreshRoots(r, lanes)[q] = root[q]
<1>1. RootsOK /\ root \in [Roots -> RootType]
  BY InvParts DEF RootsOK
<1>2. FreshRoots(r, lanes) \in [Roots -> RootType]
  BY <1>1, FreshRootsWork
<1>3. \A q \in Roots : SameLanes(FreshRoots(r, lanes)[q], root[q])
  BY <1>1, FreshSameLanes
<1>4. \A q \in Roots : FreshRoots(r, lanes)[q].callbackPriority = root[q].callbackPriority
  BY <1>1 DEF FreshRoots, RootType
<1>5. \A q \in Roots : q # r /\ q # wip.root => FreshRoots(r, lanes)[q] = root[q]
  BY DEF FreshRoots
<1> QED
  BY <1>2, <1>3, <1>4, <1>5

(* A listener is called.                                                   *)
LEMMA PingStep ==
    ASSUME Inv, LanesInv, NEW l \in listeners, Ping(l)
    PROVE  EnsuredStep(l.root)
           /\ ((wip'.root = wip.root /\ wip'.lanes = wip.lanes) \/ wip.root # NoRoot)
<1> DEFINE r == l.root
           rt == MarkRootPinged(root[r], l.lanes)
           rs == [root EXCEPT ![r] = rt]
           fs == FreshRoots(r, NoLanes)
           ft == [fs[r] EXCEPT !.pingedLanes = rt.pingedLanes]
           fresh == [fs EXCEPT ![r].pingedLanes = rt.pingedLanes]
<1>1. /\ r \in Roots /\ root \in [Roots -> RootType] /\ root[r] \in RootType /\ wip \in WipType
      /\ l.lanes \in SUBSET Lane
  BY InvParts DEF HostOK, RootsOK
<1>2. /\ rt \in RootType /\ Grown(root[r], rt)
      /\ rt.callbackPriority = root[r].callbackPriority
      /\ rt.pendingLanes = root[r].pendingLanes /\ rt.suspendedLanes = root[r].suspendedLanes
      /\ rt.entangledLanes = root[r].entangledLanes
  BY <1>1, PingedWork, GrownPing DEF LanesInv, MarkRootPinged, RootType
<1>3. \/ /\ wip.root = r /\ wip' = FreshWip(r, NoLanes)
         /\ EnsureRootIsScheduled(r, fresh, NoLanes)
      \/ /\ wip' = [wip EXCEPT !.pingedLanes = @ \cup l.lanes]
         /\ EnsureRootIsScheduled(r, rs, WipLanes(r))
      \/ wip' = wip /\ EnsureRootIsScheduled(r, rs, WipLanes(r))
  BY DEF Ping
<1> HIDE DEF rt
<1>4. CASE /\ wip.root = r /\ wip' = FreshWip(r, NoLanes)
           /\ EnsureRootIsScheduled(r, fresh, NoLanes)
  <2>1. /\ fs \in [Roots -> RootType]
        /\ SameLanes(fs[r], root[r]) /\ fs[r].callbackPriority = root[r].callbackPriority
        /\ \A q \in Roots : q # r => fs[q] = root[q]
    BY <1>1, <1>4, LaneSets, FreshRootsOf
  <2> HIDE DEF fs
  <2>2. fresh = [fs EXCEPT ![r] = ft]
    BY <1>1, <2>1
  <2>3. fs[r] \in RootType /\ rt.pingedLanes \in SUBSET Lane
    BY <1>1, <1>2, <2>1 DEF RootType
  <2>4. /\ ft \in RootType /\ ft.pendingLanes = fs[r].pendingLanes
        /\ ft.suspendedLanes = fs[r].suspendedLanes /\ ft.pingedLanes = rt.pingedLanes
        /\ ft.entangledLanes = fs[r].entangledLanes
        /\ ft.callbackPriority = fs[r].callbackPriority
    BY <2>3 DEF RootType
  <2> HIDE DEF ft, fresh
  <2>5. Grown(root[r], ft) /\ ft.callbackPriority = root[r].callbackPriority
    BY <1>2, <2>1, <2>4 DEF Grown, LanesOf, SameLanes
  <2>6. /\ fresh \in [Roots -> RootType] /\ fresh[r] = ft
        /\ \A q \in Roots : q # r => fresh[q] = root[q]
    BY <1>1, <2>1, <2>2, <2>4
  <2> HIDE DEF r
  <2>7. EnsuredStep(r)
    BY <1>1, <1>4, <2>5, <2>6, EnsureFresh
  <2>8. wip.root # NoRoot
    BY <1>1, <1>4, RootSchedulerAssumption
  <2> QED BY <2>7, <2>8 DEF r
<1>5. CASE wip'.root = wip.root /\ wip'.lanes = wip.lanes
           /\ EnsureRootIsScheduled(r, rs, WipLanes(r))
  BY <1>1, <1>2, <1>5, EnsureOne
<1>6. /\ [wip EXCEPT !.pingedLanes = @ \cup l.lanes].root = wip.root
      /\ [wip EXCEPT !.pingedLanes = @ \cup l.lanes].lanes = wip.lanes
  BY <1>1 DEF WipType
<1> QED
  BY <1>3, <1>4, <1>5, <1>6

LEMMA NotifyStep ==
    ASSUME Inv, LanesInv, NEW l \in listeners, Notify(l)
    PROVE  EnsuredStep(l.root) /\ l.root \in Roots
<1>1. l.root \in Roots /\ event.nextRetryLane \in Lane
  BY InvParts, LaneSets DEF HostOK, EventOK, EventType
<1>2. CASE Ping(l)
  BY <1>1, <1>2, PingStep
<1>3. CASE Retry(l)
  BY <1>1, <1>3, ScheduleWorkStep DEF Retry
<1> QED
  BY <1>1, <1>2, <1>3 DEF Notify

(* The lanes of a render that failed for good are suspended.               *)
LEMMA FatalStep ==
    ASSUME Inv, LanesInv, ThrowFatalError, NEW r \in Roots, Top.root = r
    PROVE  EnsuredStep(r) /\ (SyncLane \in Top.lanes => root'[r].callbackPriority # SyncLane)
<1> DEFINE fresh == FreshRoots(r, NoLanes)
           st == MarkRootSuspended(fresh[r], Top.lanes)
           rs == [q \in Roots |->
                     IF q = r THEN MarkRootSuspended(fresh[q], Top.lanes) ELSE fresh[q]]
<1>1. /\ ~Idle /\ root[r] \in RootType /\ Performing("fatal")
      /\ Top.lanes \in SUBSET Lane
  BY InvParts, StackTop DEF ThrowFatalError, Performing, FrameType, RootsOK
<1>2. wip' = FreshWip(r, NoLanes) /\ EnsureRootIsScheduled(r, rs, NoLanes)
  BY DEF ThrowFatalError
<1>3. wip.root = NoRoot /\ Top.lanes \subseteq root[r].pendingLanes
  BY <1>1 DEF LanesInv, RenderedLanesOf
<1>4. /\ fresh \in [Roots -> RootType] /\ SameLanes(fresh[r], root[r])
      /\ fresh[r].callbackPriority = root[r].callbackPriority
      /\ \A q \in Roots : q # r => fresh[q] = root[q]
  BY <1>1, <1>3, LaneSets, FreshRootsOf, RootSchedulerAssumption
<1> HIDE DEF fresh
<1>5. fresh[r] \in RootType /\ Grown(root[r], fresh[r])
  BY <1>1, <1>4, GrownSame DEF LanesInv
<1>6. Top.lanes \in SUBSET fresh[r].pendingLanes
  BY <1>3, <1>4 DEF SameLanes
<1>7. /\ st \in RootType /\ Grown(fresh[r], st)
      /\ st.callbackPriority = root[r].callbackPriority
      /\ st.suspendedLanes = fresh[r].suspendedLanes \cup Top.lanes
      /\ st.pingedLanes = fresh[r].pingedLanes \ Top.lanes
  <2>1. st \in RootType
    BY <1>1, <1>5, SuspendedWork
  <2>2. Grown(fresh[r], st)
    BY <1>5, <1>6, GrownSuspend DEF Grown
  <2>3. /\ st.callbackPriority = fresh[r].callbackPriority
        /\ st.suspendedLanes = fresh[r].suspendedLanes \cup Top.lanes
        /\ st.pingedLanes = fresh[r].pingedLanes \ Top.lanes
    BY <1>5 DEF MarkRootSuspended, RootType
  <2> QED BY <1>4, <2>1, <2>2, <2>3
<1> HIDE DEF st
<1>8. /\ rs \in [Roots -> RootType] /\ rs[r] = st
      /\ \A q \in Roots : q # r => rs[q] = root[q]
  <2>1. rs = [q \in Roots |-> IF q = r THEN st ELSE fresh[q]]
    BY DEF st
  <2> HIDE DEF rs
  <2> QED BY <1>1, <1>4, <1>7, <2>1
<1> HIDE DEF rs
<1>9. Grown(root[r], st)
  BY <1>5, <1>7, GrownMore
<1>10. EnsuredStep(r) /\ SameLanes(root'[r], st) /\ WipLanes(r)' = NoLanes
  BY <1>1, <1>2, <1>3, <1>7, <1>8, <1>9, EnsureFresh
<1>11. ASSUME SyncLane \in Top.lanes, root'[r].callbackPriority = SyncLane PROVE FALSE
  <2>1. LaneNow(root'[r], NoLanes) = SyncLane
    BY <1>10, <1>11 DEF EnsuredStep, FitsNow, Fits, TransitionLanes, SyncLane
  <2>2. LaneNow(st, NoLanes) = SyncLane /\ LanesOf(st)
    BY <1>7, <1>10, <2>1, SameLanesNow DEF Grown
  <2>3. HighestPriorityLane(Workable(st)) = SyncLane
    BY <1>7, <2>2, NoRenderNext
  <2>4. Workable(st) \in SUBSET Lane
    BY <1>7, <2>2, WorkableLanes
  <2>5. SyncLane \in Workable(st)
    BY <2>3, <2>4, HighestIsLeast, NoLaneHighest DEF NoLane, SyncLane
  <2>6. SyncLane \in st.suspendedLanes /\ SyncLane \notin st.pingedLanes
    BY <1>7, <1>11
  <2> QED BY <2>5, <2>6 DEF Workable, OrElse, NoLanes
<1> QED
  BY <1>10, <1>11

-----------------------------------------------------------------------------
(* A render begins, or begins afresh.                                      *)

LEMMA RenderRootStep ==
    ASSUME Inv, LanesInv, NEW r \in Roots, NEW frame \in FrameType, frame.root = r,
           NEW lanes \in SUBSET root[r].pendingLanes, RenderRoot(frame, lanes), OthersFit(r)
    PROVE  /\ AllGrown /\ wip'.root = r /\ wip'.lanes = lanes
           /\ \A q \in Roots : root'[q].callbackPriority = root[q].callbackPriority
           /\ OthersFit(r)'
<1>1. /\ root \in [Roots -> RootType] /\ lanes \in SUBSET Lane /\ wip \in WipType
      /\ wip.root \in Roots \cup {NoRoot} /\ wip.lanes \in SUBSET Lane
  BY InvParts DEF RootsOK, RootType, WipType
<1>2. \/ root' = FreshRoots(r, lanes) /\ wip' = FreshWip(r, lanes)
      \/ UNCHANGED <<root, wip>> /\ wip.root = r /\ wip.lanes = lanes
  BY DEF RenderRoot
<1>3. wip'.root = r /\ wip'.lanes = lanes
  BY <1>1, <1>2, FreshWipType
<1>4. \A q \in Roots : /\ SameLanes(root'[q], root[q])
                       /\ root'[q].callbackPriority = root[q].callbackPriority
  BY <1>1, <1>2, FreshRootsOf, SameLanesSelf
<1>5. AllGrown
  BY <1>4, GrownSame DEF AllGrown, LanesInv
<1>6. ASSUME NEW q \in Roots, q # r PROVE FitsNow(q)'
  <2>1. WipLanes(q)' = NoLanes
    BY <1>3, <1>6 DEF WipLanes
  <2>2. FitsNow(q) /\ LanesOf(root[q]) /\ root[q] \in RootType
    BY <1>1, <1>6 DEF OthersFit, LanesInv
  <2>3. WipLanes(q) \in SUBSET Lane /\ WipLanes(q) \subseteq root[q].pendingLanes
    BY <1>1, RootSchedulerAssumption DEF WipLanes, NoLanes, LanesInv, WipLanesOf
  <2>4. Fits(root[q].callbackPriority, LaneNow(root[q], NoLanes))
    BY <2>2, <2>3, AbandonedFits DEF FitsNow
  <2>5. LaneNow(root'[q], NoLanes) = LaneNow(root[q], NoLanes)
    BY <1>4, SameLanesNow
  <2> QED BY <1>4, <2>1, <2>4, <2>5 DEF FitsNow
<1> QED
  BY <1>3, <1>4, <1>5, <1>6 DEF OthersFit

-----------------------------------------------------------------------------
(* Every step keeps LanesInv and FitInv, and priorities change only where  *)
(* a root is scheduled or committed.                                       *)

FitLanes == LanesInv /\ FitInv

Unscheduled == \A q \in Roots : root'[q].callbackPriority = root[q].callbackPriority

LEMMA EnsuredAll ==
    ASSUME NEW r \in Roots, EnsuredStep(r), OthersFit(r)
    PROVE  AllFit'
  BY SameScheduleFits DEF EnsuredStep, OthersFit, AllFit

LEMMA AllOthers == ASSUME AllFit, NEW r PROVE OthersFit(r)
  BY DEF AllFit, OthersFit

LEMMA CalmEnsured ==
    ASSUME Inv, Inv', LanesInv, NEW r \in Roots, EnsuredStep(r), OthersFit(r), TopCalm'
    PROVE  FitLanes'
<1>1. AllFit' /\ StackOK(stack)'
  BY EnsuredAll DEF Inv
<1> QED
  BY <1>1, AllFitStep, LanesCalm DEF FitLanes, EnsuredStep

LEMMA StaysEnsured ==
    ASSUME Inv, FitLanes, NEW r \in Roots, EnsuredStep(r), UNCHANGED stack,
           TopCalm, ~At("commitRoot", "begin")
    PROVE  FitLanes'
<1>1. Top' = Top /\ Idle' = Idle /\ TopCalm'
  BY QuietStays DEF Top, Idle
<1>2. LanesInv'
  BY <1>1, LanesCalm DEF FitLanes, EnsuredStep
<1>3. \A q \in Roots : Window(q)' <=> Window(q)
  BY <1>1 DEF Window, WorksOn
<1>4. \A q \in Roots : FitsNow(q) => FitsNow(q)'
  BY SameScheduleFits DEF EnsuredStep
<1> QED
  BY <1>1, <1>2, <1>3, <1>4 DEF FitLanes, FitInv, CommitFits, At

(* A function that was called from an empty stack, or the host, schedules. *)
LEMMA UpdateFits == ASSUME Inv, FitLanes, NEW r \in Roots, Update(r) PROVE FitLanes'
<1>1. Idle /\ UNCHANGED stack /\ UserUpdate(r, EventLanes)
  BY DEF Update
<1>2. EnsuredStep(r)
  BY <1>1, UserUpdateStep, RootSchedulerAssumption DEF FitLanes
<1> QED
  BY <1>1, <1>2, StaysEnsured DEF TopCalm, At

LEMMA NotifyFits == ASSUME Inv, FitLanes, NEW l \in listeners, Notify(l) PROVE FitLanes'
<1>1. Idle /\ UNCHANGED stack
  BY DEF Notify
<1>2. EnsuredStep(l.root) /\ l.root \in Roots
  BY NotifyStep DEF FitLanes
<1>3. PICK r \in Roots : EnsuredStep(r)
  BY <1>2
<1> QED
  BY <1>1, <1>3, StaysEnsured DEF TopCalm, At

LEMMA EffectsStep ==
    ASSUME Inv, LanesInv, (\E r \in Roots : EffectUpdates(r)) \/ EffectThrows \/ EffectUpdateThrows
    PROVE  /\ \E r \in Roots : EnsuredStep(r)
           /\ UNCHANGED stack /\ ~Idle /\ Top.pc \in {"layout", "effects"}
           /\ Top.proc \in {"commitRoot", "flushPassiveEffects"}
<1>1. /\ UNCHANGED stack /\ ~Idle /\ Top.pc \in {"layout", "effects"}
      /\ Top.proc \in {"commitRoot", "flushPassiveEffects"}
  BY DEF EffectUpdates, EffectThrows, EffectUpdateThrows, At
<1>2. ASSUME NEW r \in Roots, EffectUpdates(r) PROVE EnsuredStep(r)
  <2>1. EffectLanes \in SUBSET Lane
    BY RootSchedulerAssumption DEF EffectLanes
  <2> QED BY <1>2, <2>1, UserUpdateStep DEF EffectUpdates
<1>3. CASE EffectThrows \/ EffectUpdateThrows
  <2>0. Top.root \in Roots
    <3>1. Top.proc = "commitRoot" \/ Top.pc = "effects"
      BY <1>3 DEF EffectThrows, EffectUpdateThrows, At
    <3> QED BY <1>1, <3>1, InvParts, TopHasRoot
  <2>1. PICK r \in Roots : r = Top.root
    BY <2>0
  <2>2. ScheduleWork(r, SyncLane) /\ wip' = wip
    BY <1>3, <2>1 DEF EffectThrows, EffectUpdateThrows
  <2>3. EnsuredStep(r)
    BY <2>2, ScheduleWorkStep, RootSchedulerAssumption
  <2> QED BY <1>1, <2>3
<1> QED
  BY <1>1, <1>2, <1>3

LEMMA EffectsFits ==
    ASSUME Inv, FitLanes, (\E r \in Roots : EffectUpdates(r)) \/ EffectThrows \/ EffectUpdateThrows
    PROVE  FitLanes'
<1>1. /\ \E r \in Roots : EnsuredStep(r)
      /\ UNCHANGED stack /\ ~Idle /\ Top.pc \in {"layout", "effects"}
  BY EffectsStep DEF FitLanes
<1> QED
  BY <1>1, StaysEnsured DEF TopCalm, At

LEMMA FlushSyncStep ==
    ASSUME Inv, LanesInv, NEW r \in Roots, FlushSync(r)
    PROVE  EnsuredStep(r)
  BY ScheduleUpdateStep, RootSchedulerAssumption DEF FlushSync

LEMMA FlushSyncFits == ASSUME Inv, Inv', FitLanes, NEW r \in Roots, FlushSync(r) PROVE FitLanes'
<1>1. Idle /\ stack' = <<Frame("flushSyncCallbacks", "begin", NoRoot)>> /\ TopCalm'
  BY QuietStart, FrameFields DEF FlushSync
<1>2. OthersFit(r)
  BY <1>1, FitAll, AllOthers DEF FitLanes
<1> QED
  BY <1>1, <1>2, FlushSyncStep, CalmEnsured DEF FitLanes

LEMMA ExitStep ==
    ASSUME Inv, LanesInv, ExitPerform \/ EndCommit, NEW r \in Roots, r = Top.root
    PROVE  EnsuredStep(r)
  BY EnsureSelf DEF ExitPerform, EndCommit

LEMMA ExitFits == ASSUME Inv, Inv', FitLanes, ExitPerform \/ EndCommit PROVE FitLanes'
<1>1. StackOK(stack) /\ ~Idle /\ TopCalm' /\ Top.root \in Roots
  BY InvParts, QuietGoto, TopHasRoot DEF ExitPerform, EndCommit, Performing, At
<1>2. PICK r \in Roots : r = Top.root
  BY <1>1
<1>3. OthersFit(r)
  BY <1>1, <1>2, FitOthers DEF FitLanes
<1> QED
  BY <1>1, <1>2, <1>3, ExitStep, CalmEnsured DEF FitLanes

LEMMA FatalFits == ASSUME Inv, Inv', FitLanes, ThrowFatalError PROVE FitLanes'
<1>1. ~Idle /\ Top.root \in Roots /\ TopCalm'
  BY InvParts, TopHasRoot DEF ThrowFatalError, Performing, Throw, TopCalm, Idle
<1>2. PICK r \in Roots : r = Top.root
  BY <1>1
<1>3. OthersFit(r)
  BY <1>1, <1>2, FitOthers DEF FitLanes
<1> QED
  BY <1>1, <1>2, <1>3, FatalStep, CalmEnsured DEF FitLanes

-----------------------------------------------------------------------------
(* Steps after which everything fits as it did.                            *)

LEMMA SameRootsFit ==
    ASSUME Inv, Inv', FitLanes, AllFit, TopCalm', UNCHANGED wip,
           \A q \in Roots : /\ SameLanes(root'[q], root[q])
                            /\ root'[q].callbackPriority = root[q].callbackPriority
    PROVE  FitLanes'
<1>1. \A q \in Roots : SameSchedule(q)
  BY DEF SameSchedule, WipLanes
<1>2. AllFit'
  BY <1>1, SameScheduleFits DEF AllFit
<1>3. AllGrown
  BY GrownSame DEF FitLanes, LanesInv, AllGrown
<1> QED
  BY <1>2, <1>3, AllFitStep, LanesCalm DEF FitLanes, WipKeeps, Inv

LEMMA TimeoutFiresFits ==
    ASSUME Inv, Inv', FitLanes, NEW r \in Roots, TimeoutFires(r) PROVE FitLanes'
<1>1. Idle /\ UNCHANGED wip /\ root' = [root EXCEPT ![r].timeoutHandle = FALSE] /\ TopCalm'
  BY QuietStart, FrameFields DEF TimeoutFires, Start
<1>2. \A q \in Roots : /\ SameLanes(root'[q], root[q])
                       /\ root'[q].callbackPriority = root[q].callbackPriority
  BY <1>1 DEF Inv, TypeOK, RootType, SameLanes
<1> QED
  BY <1>1, <1>2, FitAll, SameRootsFit DEF FitLanes

LEMMA QuietFits ==
    ASSUME Inv, Inv', FitLanes,
           \/ UpdateThrows \/ \E w \in Wakeables : Resolve(w)
           \/ RunMicrotask \/ RunPassiveTask \/ RunFlushTask \/ \E t \in tasks : RunTask(t)
           \/ BeginFlush \/ NextSyncCallback
           \/ BeginPassiveEffects \/ EndPassiveEffects \/ ReturnFromPassiveEffects
           \/ BeginPerform \/ CompareNode \/ ReturnFromPerform
           \/ FlushBeforeCommit \/ NothingToCommit \/ ThrowUncaughtError
           \/ FlushDiscreteEffects \/ CountNestedUpdate \/ ReturnFromCommit
    PROVE  FitLanes'
<1>1. UNCHANGED <<root, wip>> /\ TopCalm'
  BY QuietSteps
<1>2. AllFit
  <2>1. CASE FlushBeforeCommit \/ NothingToCommit
    <3>1. ~Idle /\ At("commitRoot", "begin")
          /\ (passive.root # NoRoot \/ ~root[Top.root].finishedWork)
      BY <2>1 DEF FlushBeforeCommit, NothingToCommit, At
    <3>2. FitsNow(Top.root) /\ OthersFit(Top.root)
      BY <3>1, FitOthers DEF FitLanes, FitInv, CommitFits
    <3> QED BY <3>2 DEF OthersFit, AllFit
  <2>2. CASE ~(FlushBeforeCommit \/ NothingToCommit)
    <3>1. Idle \/ ~WorksOn(Top)
      BY <2>2
         DEF UpdateThrows, Resolve, RunMicrotask, RunPassiveTask, RunFlushTask, RunTask,
             BeginFlush, NextSyncCallback, BeginPassiveEffects, EndPassiveEffects,
             ReturnFromPassiveEffects, BeginPerform, CompareNode, ReturnFromPerform,
             ThrowUncaughtError, FlushDiscreteEffects, CountNestedUpdate, ReturnFromCommit,
             WorksOn, Procs, Performing, At
    <3> QED BY <3>1, FitAll DEF FitLanes
  <2> QED BY <2>1, <2>2
<1> QED
  BY <1>1, <1>2, SameRootsFit, SameLanesSelf

LEMMA YieldFits == ASSUME Inv, FitLanes, Yield PROVE FitLanes'
<1>1. /\ StackOK(stack) /\ ~Idle /\ Goto("exit") /\ UNCHANGED <<root, wip>> /\ Top.pc = "render"
      /\ Top.proc \in Procs /\ TopCalm' /\ Top.root \in Roots
  BY InvParts, QuietGoto, TopHasRoot DEF Yield, Rendering, Performing
<1>2. Top'.pc = "exit" /\ Top'.proc = Top.proc /\ Top'.root = Top.root /\ ~Idle'
  BY <1>1, StackGoto
<1>3. PICK r \in Roots : r = Top.root
  BY <1>1
<1>4. OthersFit(r)
  BY <1>1, <1>3, FitOthers DEF FitLanes
<1>5. OthersFit(r)'
  BY <1>1, <1>4 DEF OthersFit, FitsNow, WipLanes
<1>6. FitInv'
  BY <1>1, <1>2, <1>3, <1>5, WindowStep DEF WorksOn, At, Procs
<1>7. AllGrown /\ WipKeeps
  BY <1>1, GrownSame, SameLanesSelf DEF FitLanes, LanesInv, AllGrown, WipKeeps
<1> QED
  BY <1>1, <1>6, <1>7, LanesCalm DEF FitLanes

-----------------------------------------------------------------------------
(* While a root renders, its lanes change and the others stay as they are. *)

LEMMA RenderStays ==
    ASSUME Inv, FitLanes, Rendering, UNCHANGED stack,
           wip'.root = wip.root, wip'.lanes = wip.lanes,
           NEW r \in Roots, r = Top.root,
           \A q \in Roots : q # r => root'[q] = root[q],
           Grown(root[r], root'[r]), root'[r].callbackPriority = root[r].callbackPriority
    PROVE  FitLanes' /\ Unscheduled
<1>1. Top' = Top /\ Idle' = Idle /\ ~Idle /\ Top.pc = "render" /\ Top.proc \in Procs
  BY DEF Top, Idle, Rendering, Performing
<1>2. AllGrown
  BY GrownSame, SameLanesSelf DEF AllGrown, FitLanes, LanesInv
<1>3. LanesInv'
  BY <1>2, LanesSame DEF FitLanes
<1>4. OthersFit(r)'
  <2>1. OthersFit(r)
    BY <1>1, FitOthers DEF FitLanes
  <2>2. \A q \in Roots : q # r => SameSchedule(q)
    BY SameScheduleSelf DEF WipLanes
  <2> QED BY <2>1, <2>2, SameScheduleFits DEF OthersFit
<1>5. FitInv'
  BY <1>1, <1>4, WindowStep DEF WorksOn, At, Procs
<1> QED
  BY <1>3, <1>5 DEF FitLanes, Unscheduled

LEMMA SuspendFits == ASSUME Inv, FitLanes, NEW w \in Wakeables, Suspend(w) PROVE FitLanes' /\ Unscheduled
<1>1. /\ Rendering /\ UNCHANGED stack /\ wip' = [wip EXCEPT !.capturing = TRUE]
      /\ root' = [root EXCEPT ![Top.root].thrown = @ \cup {w}]
  BY DEF Suspend
<1>2. Top.root \in Roots /\ root \in [Roots -> RootType] /\ wip \in WipType
  BY <1>1, TopRenders
<1>3. PICK r \in Roots : r = Top.root
  BY <1>2
<1>4. wip'.root = wip.root /\ wip'.lanes = wip.lanes
  BY <1>1, <1>2 DEF WipType
<1>5. /\ \A q \in Roots : q # r => root'[q] = root[q]
      /\ SameLanes(root'[r], root[r]) /\ root'[r].callbackPriority = root[r].callbackPriority
  BY <1>1, <1>2, <1>3 DEF RootType, SameLanes
<1>6. Grown(root[r], root'[r])
  BY <1>5, GrownSame DEF FitLanes, LanesInv
<1> QED
  BY <1>1, <1>3, <1>4, <1>5, <1>6, RenderStays

(* The lanes of the render that are suspended are pending.                 *)
LEMMA GrownSuspendLanes ==
    ASSUME NEW rt \in RootType, NEW lanes \in SUBSET rt.pendingLanes, NEW w, LanesOf(rt)
    PROVE  /\ Grown(rt, SuspendLanes(rt, lanes, w))
           /\ SuspendLanes(rt, lanes, w).callbackPriority = rt.callbackPriority
<1> DEFINE less == (lanes \ w.pingedLanes) \ w.interleavedUpdatedLanes
<1>1. less \in SUBSET rt.pendingLanes
  OBVIOUS
<1> HIDE DEF less
<1>2. MarkRootSuspended(rt, less).callbackPriority = rt.callbackPriority
  BY DEF MarkRootSuspended, RootType
<1>3. Grown(rt, MarkRootSuspended(rt, less))
  BY <1>1, GrownSuspend
<1> QED
  BY <1>2, <1>3 DEF SuspendLanes, less

LEMMA FallbackCompletesFits == ASSUME Inv, FitLanes, FallbackCompletes PROVE FitLanes' /\ Unscheduled
<1>1. Rendering /\ UNCHANGED stack
  BY DEF FallbackCompletes
<1>2. /\ root \in [Roots -> RootType] /\ Top.root \in Roots /\ wip \in WipType
      /\ wip.root = Top.root /\ wip.root # NoRoot
  BY <1>1, TopRenders
<1>3. PICK r \in Roots : r = Top.root
  BY <1>2
<1>4. \A status \in {"Suspended", "SuspendedWithDelay"} :
        Suspended(status).root = wip.root /\ Suspended(status).lanes = wip.lanes
  BY <1>2 DEF Suspended, WipType
<1>5. wip'.root = wip.root /\ wip'.lanes = wip.lanes
  BY <1>2, <1>4 DEF FallbackCompletes, WipType
<1>6. wip.lanes \in SUBSET root[r].pendingLanes /\ LanesOf(root[r]) /\ root[r] \in RootType
  BY <1>2, <1>3 DEF FitLanes, LanesInv, WipLanesOf
<1>7. /\ Grown(root[r], SuspendLanes(root[r], wip.lanes, wip))
      /\ SuspendLanes(root[r], wip.lanes, wip).callbackPriority = root[r].callbackPriority
  BY <1>6, GrownSuspendLanes
<1>8. /\ \A q \in Roots : q # r => root'[q] = root[q]
      /\ root'[r] \in {root[r], SuspendLanes(root[r], wip.lanes, wip)}
  BY <1>3 DEF FallbackCompletes
<1>9. Grown(root[r], root[r])
  BY <1>6, GrownSame, SameLanesSelf
<1>10. Grown(root[r], root'[r]) /\ root'[r].callbackPriority = root[r].callbackPriority
  BY <1>7, <1>8, <1>9
<1> QED
  BY <1>1, <1>3, <1>5, <1>8, <1>10, RenderStays

LEMMA ErrorFits ==
    ASSUME Inv, FitLanes, ComponentThrows \/ RenderUpdateThrows PROVE FitLanes' /\ Unscheduled
<1>1. /\ Rendering /\ UNCHANGED <<root, stack>>
      /\ wip' = [wip EXCEPT !.exitStatus = IF @ = "SuspendedWithDelay" THEN @ ELSE "Errored"]
  BY DEF ComponentThrows, RenderUpdateThrows
<1>2. Top.root \in Roots /\ wip \in WipType
  BY <1>1, TopRenders
<1>3. PICK r \in Roots : r = Top.root
  BY <1>2
<1>4. wip'.root = wip.root /\ wip'.lanes = wip.lanes
  BY <1>1, <1>2 DEF WipType
<1>5. Grown(root[r], root[r])
  BY GrownSame, SameLanesSelf DEF FitLanes, LanesInv
<1> QED
  BY <1>1, <1>3, <1>4, <1>5, RenderStays

LEMMA RenderPhaseUpdateFits == ASSUME Inv, FitLanes, RenderPhaseUpdate PROVE FitLanes' /\ Unscheduled
<1>1. /\ Rendering /\ UNCHANGED stack
      /\ wip' = [wip EXCEPT !.renderPhaseUpdatedLanes = @ \cup {HighestPriorityLane(wip.lanes)}]
  BY DEF RenderPhaseUpdate
<1>2. /\ root \in [Roots -> RootType] /\ Top.root \in Roots /\ wip \in WipType
      /\ wip.lanes \in SUBSET Lane /\ wip.lanes # {}
  BY <1>1, TopRenders, InvParts DEF Rendering, TopInv, NoLanes
<1>3. PICK r \in Roots : r = Top.root
  BY <1>2
<1>4. PICK lane \in Lane : lane = HighestPriorityLane(wip.lanes)
  BY <1>2, HighestIsOne
<1> DEFINE marked == MarkUpdateLaneFromFiberToRoot(r, root[r], lane)
<1>5. /\ marked \in RootType /\ SameLanes(marked, root[r])
      /\ marked.callbackPriority = root[r].callbackPriority
  <2>1. root[r] \in RootType
    BY <1>2
  <2>2. marked \in RootType /\ SameLanes(marked, root[r])
    BY <2>1, MarkedType
  <2>3. marked.callbackPriority = root[r].callbackPriority
    BY <2>1 DEF MarkUpdateLaneFromFiberToRoot, RootType
  <2> QED BY <2>2, <2>3
<1>6. PICK left \in {root[r].workLanes, marked.workLanes} :
         root' = [root EXCEPT ![r] = MarkRootUpdated([marked EXCEPT !.workLanes = left], lane)]
  BY <1>3, <1>4 DEF RenderPhaseUpdate
<1> HIDE DEF marked
<1> DEFINE mt == [marked EXCEPT !.workLanes = left]
<1>7. /\ mt \in RootType /\ SameLanes(mt, marked)
      /\ mt.callbackPriority = marked.callbackPriority
  BY <1>2, <1>5, <1>6 DEF RootType, SameLanes
<1>8. root' = [root EXCEPT ![r] = MarkRootUpdated(mt, lane)]
  BY <1>6
<1> HIDE DEF mt
<1>9. SameLanes(mt, root[r])
  BY <1>5, <1>7 DEF SameLanes
<1>10. Grown(root[r], mt)
  BY <1>9, GrownSame DEF FitLanes, LanesInv
<1>11. Grown(mt, MarkRootUpdated(mt, lane))
  BY <1>7, <1>10, GrownUpdate DEF Grown
<1>12. MarkRootUpdated(mt, lane).callbackPriority = mt.callbackPriority
  BY <1>7 DEF MarkRootUpdated, RootType
<1>13. /\ \A q \in Roots : q # r => root'[q] = root[q]
       /\ root'[r] = MarkRootUpdated(mt, lane)
  BY <1>2, <1>8
<1>14. Grown(root[r], root'[r]) /\ root'[r].callbackPriority = root[r].callbackPriority
  BY <1>5, <1>7, <1>10, <1>11, <1>12, <1>13, GrownMore
<1>15. wip'.root = wip.root /\ wip'.lanes = wip.lanes
  BY <1>1, <1>2 DEF WipType
<1> QED
  BY <1>1, <1>3, <1>13, <1>14, <1>15, RenderStays

LEMMA DeferHiddenTreeFits == ASSUME Inv, FitLanes, DeferHiddenTree PROVE FitLanes' /\ Unscheduled
<1>1. /\ Rendering /\ UNCHANGED <<wip, stack>>
      /\ root' = [root EXCEPT ![Top.root].workLanes = @ \cup {OffscreenLane}]
  BY DEF DeferHiddenTree
<1>2. Top.root \in Roots /\ root \in [Roots -> RootType]
  BY <1>1, TopRenders
<1>3. PICK r \in Roots : r = Top.root
  BY <1>2
<1>4. /\ \A q \in Roots : q # r => root'[q] = root[q]
      /\ SameLanes(root'[r], root[r]) /\ root'[r].callbackPriority = root[r].callbackPriority
  BY <1>1, <1>2, <1>3 DEF RootType, SameLanes
<1>5. Grown(root[r], root'[r])
  BY <1>4, GrownSame DEF FitLanes, LanesInv
<1> QED
  BY <1>1, <1>3, <1>4, <1>5, RenderStays

(* A render is over.                                                       *)
LEMMA CompleteTreeFits ==
    ASSUME Inv, FitLanes, RenderCompletes \/ RenderFails PROVE FitLanes' /\ Unscheduled
<1>1. PICK status \in {"rendered", "fatal"} : CompleteTree(status)
  BY DEF RenderCompletes, RenderFails
<1>2. /\ Rendering /\ Goto(status) /\ UNCHANGED root
      /\ wip' = [wip EXCEPT !.capturing = FALSE, !.root = NoRoot, !.lanes = NoLanes,
                            !.exitStatus = IF @ = "Incomplete" THEN "Completed" ELSE @]
  BY <1>1 DEF CompleteTree
<1>3. /\ StackOK(stack) /\ ~Idle /\ wip \in WipType /\ wip.root = Top.root /\ Top.root \in Roots
      /\ wip.lanes = Top.lanes /\ wip.root # NoRoot /\ Top.proc \in Procs /\ Top.pc = "render"
      /\ Top \in FrameType
  BY <1>2, TopRenders, StackTop DEF Rendering, Performing
<1>4. wip'.root = NoRoot /\ wip'.lanes = NoLanes
  BY <1>2, <1>3 DEF WipType
<1>5. /\ ~Idle' /\ Top' = [Top EXCEPT !.pc = status]
      /\ Top'.pc = status /\ Top'.proc = Top.proc /\ Top'.root = Top.root /\ Top'.lanes = Top.lanes
  BY <1>2, <1>3, StackGoto
<1>6. Top'.sync = Top.sync
  BY <1>3, <1>5 DEF FrameType
<1>7. Top.lanes \subseteq root[Top.root].pendingLanes
  BY <1>3 DEF FitLanes, LanesInv, WipLanesOf
<1>8. WipLanesOf' /\ RenderedLanesOf'
  BY <1>2, <1>4, <1>5, <1>7 DEF WipLanesOf, RenderedLanesOf
<1>9. SyncRenders'
  BY <1>3, <1>5, <1>6 DEF FitLanes, LanesInv, SyncRenders
<1>10. LanesInv'
  BY <1>2, <1>8, <1>9 DEF FitLanes, LanesInv
<1>11. PICK r \in Roots : r = Top.root
  BY <1>3
<1>12. OthersFit(r)'
  <2>1. OthersFit(r)
    BY <1>3, <1>11, FitOthers DEF FitLanes
  <2>2. \A q \in Roots : q # r => SameSchedule(q)
    BY <1>2, <1>3, <1>4, <1>11, SameScheduleSelf, RootSchedulerAssumption DEF WipLanes
  <2> QED BY <2>1, <2>2, SameScheduleFits DEF OthersFit
<1>13. FitInv'
  BY <1>3, <1>5, <1>11, <1>12, WindowStep DEF WorksOn, At, Procs
<1> QED
  BY <1>2, <1>10, <1>13 DEF FitLanes, Unscheduled

-----------------------------------------------------------------------------
(* A render begins.                                                        *)

LEMMA RenderFits ==
    ASSUME Inv, FitLanes, ~Idle, NEW r \in Roots, r = Top.root,
           NEW frame \in FrameType, frame.root = r, frame.proc = Top.proc, Top.proc \in Procs,
           NEW lanes \in SUBSET root[r].pendingLanes, RenderRoot(frame, lanes),
           Top.proc = "performSyncWorkOnRoot" => frame.sync /\ SyncLane \in lanes
    PROVE  FitLanes' /\ Unscheduled
<1> DEFINE f == [frame EXCEPT !.pc = "render", !.lanes = lanes]
<1>1. /\ f.pc = "render" /\ f.lanes = lanes /\ f.proc = frame.proc /\ f.root = frame.root
      /\ f.sync = frame.sync /\ Continue(f)
  BY DEF RenderRoot, FrameType
<1> HIDE DEF f
<1>2. StackOK(stack)
  BY InvParts
<1>3. Top' = f /\ ~Idle'
  BY <1>1, <1>2, ContinueShape
<1>4. OthersFit(r)
  BY FitOthers DEF FitLanes
<1>5. /\ AllGrown /\ wip'.root = r /\ wip'.lanes = lanes
      /\ \A q \in Roots : root'[q].callbackPriority = root[q].callbackPriority
      /\ OthersFit(r)'
  BY <1>4, RenderRootStep DEF FitLanes
<1>6. FitInv'
  BY <1>1, <1>3, <1>5, WindowStep DEF WorksOn, At, Procs
<1>7. lanes \subseteq root'[r].pendingLanes /\ \A q \in Roots : LanesOf(root'[q])
  BY <1>5 DEF AllGrown, Grown
<1>8. WipLanesOf'
  BY <1>5, <1>7 DEF WipLanesOf
<1>9. RenderedLanesOf'
  BY <1>1, <1>3 DEF RenderedLanesOf, Performing
<1>10. SyncRenders'
  BY <1>1, <1>3 DEF SyncRenders
<1>11. LanesInv'
  BY <1>7, <1>8, <1>9, <1>10 DEF LanesInv
<1> QED
  BY <1>5, <1>6, <1>11 DEF FitLanes, Unscheduled

LEMMA WipLanesPending ==
    ASSUME Inv, FitLanes, NEW r \in Roots
    PROVE  WipLanes(r) \in SUBSET Lane /\ WipLanes(r) \subseteq root[r].pendingLanes
  BY InvParts, RootSchedulerAssumption
     DEF RootsOK, WipType, WipLanes, NoLanes, FitLanes, LanesInv, WipLanesOf


LEMMA ChooseLanesSyncRenders ==
    ASSUME Inv, FitLanes, ChooseLanesSync, SyncLane \in NextLanes(root[Top.root], NoLanes)
    PROVE  FitLanes' /\ Unscheduled
<1>1. /\ ~Idle /\ Top.root \in Roots /\ Top \in FrameType /\ StackOK(stack)
      /\ Top.proc = "performSyncWorkOnRoot" /\ Top.proc \in Procs
      /\ root \in [Roots -> RootType]
  BY InvParts, TopHasRoot, StackTop DEF ChooseLanesSync, At, Procs, RootsOK
<1>2. PICK r \in Roots : r = Top.root
  BY <1>1
<1>3. PICK lanes \in SUBSET root[r].pendingLanes : lanes = NextLanes(root[r], NoLanes)
  <2>1. NoLanes \in SUBSET Lane /\ NoLanes \subseteq root[r].pendingLanes
    BY DEF NoLanes
  <2>2. NextLanes(root[r], NoLanes) \subseteq root[r].pendingLanes
    BY <1>1, <2>1, NextLanesPending DEF FitLanes, LanesInv
  <2> QED BY <2>2
<1>4. PICK f \in FrameType : f = [Top EXCEPT !.sync = TRUE]
  BY <1>1 DEF FrameType
<1>5. f.sync /\ f.root = r /\ f.proc = Top.proc
  BY <1>1, <1>2, <1>4 DEF FrameType
<1>6. RenderRoot(f, lanes) /\ SyncLane \in lanes
  BY <1>2, <1>3, <1>4 DEF ChooseLanesSync
<1> QED
  BY <1>1, <1>2, <1>5, <1>6, RenderFits

LEMMA ChooseLanesSyncLeaves ==
    ASSUME Inv, FitLanes, ChooseLanesSync, SyncLane \notin NextLanes(root[Top.root], NoLanes),
           NEW r \in Roots, r = Top.root
    PROVE  EnsuredStep(r) /\ OthersFit(r) /\ Return /\ wip' = wip /\ TopCalm' /\ ~Idle
<1>1. /\ ~Idle /\ StackOK(stack) /\ Top.proc = "performSyncWorkOnRoot" /\ Top.pc = "choose"
  BY InvParts DEF ChooseLanesSync, At
<1>2. EnsureRootIsScheduled(r, root, WipLanes(r)) /\ Return /\ wip' = wip
  BY DEF ChooseLanesSync
<1>3. OthersFit(r)
  BY <1>1, FitOthers DEF FitLanes
<1>4. EnsuredStep(r)
  BY <1>2, EnsureSelf DEF FitLanes
<1> QED
  BY <1>1, <1>2, <1>3, <1>4, QuietReturn

LEMMA ChooseLanesSyncFits == ASSUME Inv, Inv', FitLanes, ChooseLanesSync PROVE FitLanes'
<1>1. Top.root \in Roots
  BY InvParts, TopHasRoot DEF ChooseLanesSync, At, Procs
<1>2. PICK r \in Roots : r = Top.root
  BY <1>1
<1>3. CASE SyncLane \in NextLanes(root[Top.root], NoLanes)
  BY <1>3, ChooseLanesSyncRenders
<1>4. CASE SyncLane \notin NextLanes(root[Top.root], NoLanes)
  <2>1. EnsuredStep(r) /\ OthersFit(r) /\ TopCalm'
    BY <1>2, <1>4, ChooseLanesSyncLeaves
  <2> QED BY <2>1, CalmEnsured DEF FitLanes
<1> QED
  BY <1>3, <1>4

LEMMA ChooseLanesConcurrentFits ==
    ASSUME Inv, Inv', FitLanes, ChooseLanesConcurrent PROVE FitLanes' /\ Unscheduled
<1>1. /\ ~Idle /\ Top.root \in Roots /\ Top \in FrameType /\ StackOK(stack)
      /\ Top.proc = "performConcurrentWorkOnRoot" /\ Top.proc \in Procs /\ Top.pc = "choose"
      /\ root \in [Roots -> RootType]
  BY InvParts, TopHasRoot, StackTop DEF ChooseLanesConcurrent, At, Procs, RootsOK
<1>2. PICK r \in Roots : r = Top.root
  BY <1>1
<1>3. PICK lanes \in SUBSET root[r].pendingLanes : lanes = NextLanes(root[r], WipLanes(r))
  <2>1. WipLanes(r) \in SUBSET Lane /\ WipLanes(r) \subseteq root[r].pendingLanes
    BY WipLanesPending
  <2>2. NextLanes(root[r], WipLanes(r)) \subseteq root[r].pendingLanes
    BY <1>1, <2>1, NextLanesPending DEF FitLanes, LanesInv
  <2> QED BY <2>2
<1>4. CASE Return /\ UNCHANGED <<root, wip>>
  <2>1. TopCalm'
    BY <1>1, <1>4, QuietReturn
  <2>2. AllFit
    BY <1>1, FitAll DEF FitLanes, WorksOn
  <2> QED BY <1>4, <2>1, <2>2, SameRootsFit, SameLanesSelf DEF Unscheduled
<1>5. CASE \E sync \in BOOLEAN : RenderRoot([Top EXCEPT !.sync = sync], lanes)
  <2>1. PICK sync \in BOOLEAN : RenderRoot([Top EXCEPT !.sync = sync], lanes)
    BY <1>5
  <2>2. PICK f \in FrameType : f = [Top EXCEPT !.sync = sync]
    BY <1>1 DEF FrameType
  <2>3. f.root = r /\ f.proc = Top.proc /\ RenderRoot(f, lanes)
    BY <1>1, <1>2, <2>1, <2>2 DEF FrameType
  <2> QED BY <1>1, <1>2, <2>3, RenderFits
<1> QED
  BY <1>2, <1>3, <1>4, <1>5 DEF ChooseLanesConcurrent

LEMMA RecoverFromConcurrentErrorFits ==
    ASSUME Inv, FitLanes, RecoverFromConcurrentError PROVE FitLanes' /\ Unscheduled
<1>1. /\ ~Idle /\ Top \in FrameType /\ StackOK(stack) /\ Top.root \in Roots /\ Top.proc \in Procs
      /\ Top.pc = "rendered" /\ Performing("rendered")
  BY InvParts, TopHasRoot, StackTop DEF RecoverFromConcurrentError, Errored, Performing
<1>2. PICK r \in Roots : r = Top.root
  BY <1>1
<1>3. /\ Top.lanes \in SUBSET root[r].pendingLanes
      /\ Top.proc = "performSyncWorkOnRoot" => Top.sync /\ SyncLane \in Top.lanes
  BY <1>1, <1>2 DEF FitLanes, LanesInv, RenderedLanesOf, SyncRenders
<1>4. PICK lanes \in SUBSET root[r].pendingLanes : lanes = ErrorLanes
  BY <1>2 DEF ErrorLanes, LanesToRetrySynchronouslyOnError
<1>5. SyncLane \in Top.lanes => SyncLane \in lanes
  BY <1>2, <1>3, <1>4
     DEF ErrorLanes, LanesToRetrySynchronouslyOnError, SyncLane, OffscreenLane
<1>6. CASE RenderRoot([Top EXCEPT !.sync = TRUE, !.recovering = TRUE], ErrorLanes)
  <2>1. PICK f \in FrameType : f = [Top EXCEPT !.sync = TRUE, !.recovering = TRUE]
    BY <1>1 DEF FrameType
  <2>2. f.root = r /\ f.proc = Top.proc /\ f.sync /\ RenderRoot(f, lanes)
    BY <1>1, <1>2, <1>4, <1>6, <2>1 DEF FrameType
  <2> QED BY <1>1, <1>2, <1>3, <1>5, <2>2, RenderFits
<1>7. CASE RenderRoot(Top, Top.lanes)
  BY <1>1, <1>2, <1>3, <1>7, RenderFits
<1> QED
  BY <1>6, <1>7 DEF RecoverFromConcurrentError

LEMMA RenderIsInconsistentFits ==
    ASSUME Inv, FitLanes, RenderIsInconsistent PROVE FitLanes' /\ Unscheduled
<1>1. /\ ~Idle /\ Top \in FrameType /\ StackOK(stack) /\ Top.root \in Roots /\ Top.proc \in Procs
      /\ Performing("rendered") /\ Top.proc = "performConcurrentWorkOnRoot"
  BY InvParts, TopHasRoot, StackTop DEF RenderIsInconsistent, Rendered, Performing
<1>2. PICK r \in Roots : r = Top.root
  BY <1>1
<1>3. Top.lanes \in SUBSET root[r].pendingLanes
  BY <1>1, <1>2 DEF FitLanes, LanesInv, RenderedLanesOf
<1>4. PICK f \in FrameType : f = [Top EXCEPT !.sync = TRUE, !.checked = TRUE, !.recovering = FALSE]
  BY <1>1 DEF FrameType
<1>5. f.root = r /\ f.proc = Top.proc /\ RenderRoot(f, Top.lanes)
  BY <1>1, <1>2, <1>4 DEF FrameType, RenderIsInconsistent
<1> QED
  BY <1>1, <1>2, <1>3, <1>5, RenderFits

-----------------------------------------------------------------------------
(* A render finishes: its tree is committed, or it waits.                  *)

LEMMA FinishedGrown ==
    ASSUME NEW rt \in RootType, LanesOf(rt), NEW lanes \in SUBSET rt.pendingLanes
    PROVE  LET finished == Finished(rt, lanes)
               suspended == SuspendLanes(finished, lanes, wip)
           IN  /\ Grown(rt, finished) /\ finished.callbackPriority = rt.callbackPriority
               /\ finished \in RootType /\ finished.finishedWork
               /\ wip \in WipType =>
                      /\ Grown(rt, suspended) /\ suspended.callbackPriority = rt.callbackPriority
                      /\ suspended \in RootType /\ suspended.finishedWork
<1> DEFINE finished == Finished(rt, lanes)
           suspended == SuspendLanes(finished, lanes, wip)
<1>1. lanes \in SUBSET Lane
  BY DEF RootType
<1>2. /\ finished \in RootType /\ SameLanes(finished, rt) /\ finished.finishedWork
      /\ finished.callbackPriority = rt.callbackPriority /\ finished.pendingLanes = rt.pendingLanes
  BY <1>1 DEF Finished, RootType, SameLanes
<1> HIDE DEF finished
<1>3. Grown(rt, finished) /\ LanesOf(finished)
  BY <1>2, GrownSame DEF Grown
<1>4. ASSUME wip \in WipType
      PROVE  /\ Grown(rt, suspended) /\ suspended.callbackPriority = rt.callbackPriority
             /\ suspended \in RootType /\ suspended.finishedWork
  <2>1. lanes \in SUBSET finished.pendingLanes
    BY <1>2
  <2>2. Grown(finished, suspended) /\ suspended.callbackPriority = finished.callbackPriority
    BY <1>2, <1>3, <2>1, GrownSuspendLanes
  <2>3. suspended \in RootType
    BY <1>1, <1>2, <1>4, SuspendLanesWork
  <2>4. suspended.finishedWork = finished.finishedWork
    BY <1>2 DEF SuspendLanes, MarkRootSuspended, RootType
  <2>5. Grown(rt, suspended)
    BY <1>3, <2>2, GrownMore
  <2> QED BY <1>2, <2>2, <2>3, <2>4, <2>5
<1> QED
  BY <1>2, <1>3, <1>4 DEF finished

LEMMA DelayedGrown ==
    ASSUME NEW rt \in RootType, LanesOf(rt), NEW lanes
    PROVE  /\ Grown(rt, DelayFallback(rt, lanes))
           /\ DelayFallback(rt, lanes).callbackPriority = rt.callbackPriority
<1>1. Grown(rt, rt)
  BY GrownSame, SameLanesSelf
<1>2. /\ Grown(rt, MarkRootPinged(rt, rt.suspendedLanes))
      /\ MarkRootPinged(rt, rt.suspendedLanes).callbackPriority = rt.callbackPriority
  <2>1. MarkRootPinged(rt, rt.suspendedLanes).callbackPriority = rt.callbackPriority
    BY DEF MarkRootPinged, RootType
  <2> QED BY <2>1, GrownPing
<1>3. ASSUME NEW b
      PROVE  /\ Grown(rt, [rt EXCEPT !.timeoutHandle = b])
             /\ [rt EXCEPT !.timeoutHandle = b].callbackPriority = rt.callbackPriority
  <2>1. /\ SameLanes([rt EXCEPT !.timeoutHandle = b], rt)
        /\ [rt EXCEPT !.timeoutHandle = b].callbackPriority = rt.callbackPriority
    BY DEF RootType, SameLanes
  <2> QED BY <2>1, GrownSame
<1> QED
  BY <1>1, <1>2, <1>3 DEF DelayFallback

LEMMA FinishStep ==
    ASSUME Inv, CallInv, FitLanes, Performing("rendered"), NEW r \in Roots, r = Top.root,
           NEW rt, root' = [root EXCEPT ![r] = rt], wip' = NoWip, UNCHANGED passive,
           Grown(root[r], rt), rt.callbackPriority = root[r].callbackPriority,
           Goto("exit") \/ (Call("commitRoot", r, "exit") /\ rt.finishedWork)
    PROVE  FitLanes' /\ Unscheduled
<1>1. /\ StackOK(stack) /\ ~Idle /\ Top.proc \in Procs /\ Top.pc = "rendered"
      /\ root \in [Roots -> RootType]
  BY InvParts DEF Performing, RootsOK
<1>2. wip.root = NoRoot /\ passive.root = NoRoot
  BY <1>1, NoEffects DEF FitLanes, LanesInv, RenderedLanesOf
<1>3. wip'.root = NoRoot /\ wip'.lanes = NoLanes
  BY DEF NoWip
<1>4. root'[r] = rt /\ \A q \in Roots : q # r => root'[q] = root[q]
  BY <1>1
<1>5. AllGrown /\ Unscheduled
  <2>1. \A q \in Roots : Grown(root[q], root[q])
    BY GrownSame, SameLanesSelf DEF FitLanes, LanesInv
  <2> QED BY <1>4, <2>1 DEF AllGrown, Unscheduled
<1>6. TopCalm' /\ ~Idle' /\ WorksOn(Top') /\ Top'.root = r
      /\ (At("commitRoot", "begin")' => rt.finishedWork)
  <2>1. CASE Goto("exit")
    <3>1. Top'.pc = "exit" /\ Top'.proc = Top.proc /\ Top'.root = r /\ ~Idle'
      BY <1>1, <2>1, StackGoto
    <3> QED BY <1>1, <3>1 DEF TopCalm, WorksOn, At, Procs
  <2>2. CASE Call("commitRoot", r, "exit") /\ rt.finishedWork
    <3>1. Top' = Frame("commitRoot", "begin", r) /\ ~Idle'
      BY <1>1, <2>2, CallShape
    <3>2. Top'.pc = "begin" /\ Top'.proc = "commitRoot" /\ Top'.root = r
      BY <3>1, FrameFields
    <3> QED BY <2>2, <3>1, <3>2 DEF TopCalm, WorksOn
  <2> QED BY <2>1, <2>2
<1>7. OthersFit(r)'
  <2>1. OthersFit(r)
    BY <1>1, FitOthers DEF FitLanes
  <2>2. \A q \in Roots : q # r => SameSchedule(q)
    BY <1>2, <1>3, <1>4, SameScheduleSelf, RootSchedulerAssumption DEF WipLanes
  <2> QED BY <2>1, <2>2, SameScheduleFits DEF OthersFit
<1>8. FitInv'
  BY <1>2, <1>4, <1>6, <1>7, WindowStep
<1>9. LanesInv'
  BY <1>3, <1>5, <1>6, LanesCalm DEF FitLanes, WipKeeps
<1> QED
  BY <1>5, <1>8, <1>9 DEF FitLanes

LEMMA RenderedTop ==
    ASSUME Inv, FitLanes, Performing("rendered"), NEW r \in Roots, r = Top.root
    PROVE  /\ root[r] \in RootType /\ LanesOf(root[r]) /\ Top.lanes \in SUBSET root[r].pendingLanes
           /\ wip \in WipType
  BY InvParts DEF RootsOK, FitLanes, LanesInv, RenderedLanesOf

LEMMA FinishSyncRenderFits ==
    ASSUME Inv, CallInv, FitLanes, FinishSyncRender PROVE FitLanes' /\ Unscheduled
<1>1. Performing("rendered") /\ Top.root \in Roots
  BY InvParts, TopHasRoot DEF FinishSyncRender, Rendered, Performing
<1>2. PICK r \in Roots : r = Top.root
  BY <1>1
<1>3. PICK lanes \in SUBSET root[r].pendingLanes : lanes = Top.lanes
  BY <1>1, <1>2, RenderedTop
<1> DEFINE rt == Finished(root[r], lanes)
<1>4. /\ Grown(root[r], rt) /\ rt.callbackPriority = root[r].callbackPriority
      /\ rt \in RootType /\ rt.finishedWork
  BY <1>1, <1>2, RenderedTop, FinishedGrown
<1>5. /\ root' = [root EXCEPT ![r] = rt] /\ wip' = NoWip /\ UNCHANGED passive
      /\ Call("commitRoot", r, "exit")
  BY <1>2, <1>3 DEF FinishSyncRender
<1> HIDE DEF rt
<1> QED
  BY <1>1, <1>2, <1>4, <1>5, FinishStep

LEMMA FinishConcurrentRenderFits ==
    ASSUME Inv, CallInv, FitLanes, FinishConcurrentRender PROVE FitLanes' /\ Unscheduled
<1>1. Performing("rendered") /\ Top.root \in Roots
  BY InvParts, TopHasRoot DEF FinishConcurrentRender, Rendered, Performing
<1>2. PICK r \in Roots : r = Top.root
  BY <1>1
<1>3. PICK lanes \in SUBSET root[r].pendingLanes : lanes = Top.lanes
  BY <1>1, <1>2, RenderedTop
<1> DEFINE finished == Finished(root[r], lanes)
           suspended == SuspendLanes(finished, lanes, wip)
           delayed == DelayFallback(suspended, lanes)
           waits == [suspended EXCEPT !.timeoutHandle = ~IncludesOnlyTransitions(lanes)]
<1>4. /\ Grown(root[r], finished) /\ finished.callbackPriority = root[r].callbackPriority
      /\ finished \in RootType /\ finished.finishedWork
      /\ Grown(root[r], suspended) /\ suspended.callbackPriority = root[r].callbackPriority
      /\ suspended \in RootType /\ suspended.finishedWork
  BY <1>1, <1>2, RenderedTop, FinishedGrown
<1>5. /\ \/ (root' = [root EXCEPT ![r] = finished] \/ root' = [root EXCEPT ![r] = suspended])
            /\ Call("commitRoot", r, "exit")
         \/ (root' = [root EXCEPT ![r] = delayed] \/ root' = [root EXCEPT ![r] = waits])
            /\ Goto("exit")
      /\ wip' = NoWip /\ UNCHANGED passive
  BY <1>2, <1>3 DEF FinishConcurrentRender
<1> HIDE DEF finished, suspended
<1>6. Grown(root[r], delayed) /\ delayed.callbackPriority = root[r].callbackPriority
  BY <1>4, DelayedGrown, GrownMore DEF Grown
<1>7. Grown(root[r], waits) /\ waits.callbackPriority = root[r].callbackPriority
  <2>1. SameLanes(waits, suspended) /\ waits.callbackPriority = suspended.callbackPriority
    BY <1>4 DEF SameLanes, RootType
  <2> HIDE DEF waits
  <2> QED BY <1>4, <2>1, GrownSame, GrownMore DEF Grown
<1> HIDE DEF delayed, waits
<1> QED
  BY <1>1, <1>2, <1>4, <1>5, <1>6, <1>7, FinishStep

(* The commit of a root leaves nothing scheduled for it.                   *)
LEMMA CommitStep ==
    ASSUME Inv, CommitMutationEffects, NEW r \in Roots, r = Top.root
    PROVE  /\ root'[r].callbackPriority = NoLane
           /\ root'[r].entangledLanes \subseteq root[r].entangledLanes
           /\ root'[r].suspendedLanes = {} /\ root'[r].pingedLanes = {}
           /\ \A q \in Roots : q # r => root'[q] = root[q]
           /\ wip' = IF wip.root = r THEN NoWip ELSE wip
<1>1. root \in [Roots -> RootType] /\ root[r] \in RootType
  BY InvParts DEF RootsOK
<1> DEFINE st == Scheduled(root[r], NoNode, NoLane)
           mt == MarkRootFinished(st, root[r].workLanes)
           ct == [mt EXCEPT !.finishedWork = FALSE, !.finishedLanes = NoLanes,
                            !.currentLanes = root[r].workLanes, !.workLanes = NoLanes,
                            !.thrown = {}]
<1>2. root' = [root EXCEPT ![r] = ct] /\ wip' = IF wip.root = r THEN NoWip ELSE wip
  BY DEF CommitMutationEffects, RemainingLanes
<1>3. /\ st \in RootType /\ root[r].workLanes \in SUBSET Lane /\ st.callbackPriority = NoLane
      /\ st.entangledLanes = root[r].entangledLanes
  <2>1. st \in RootType /\ root[r].workLanes \in SUBSET Lane
    BY <1>1, ScheduledWork DEF RootType
  <2> QED BY <1>1, <2>1 DEF Scheduled, RootType
<1> HIDE DEF st
<1>4. /\ mt \in RootType /\ mt.callbackPriority = NoLane
      /\ mt.entangledLanes \subseteq st.entangledLanes
      /\ mt.suspendedLanes = {} /\ mt.pingedLanes = {}
  <2>1. mt \in RootType
    BY <1>3, FinishedLanesWork
  <2> QED BY <1>3, <2>1 DEF MarkRootFinished, RootType, NoLanes
<1> HIDE DEF mt
<1>5. /\ ct.callbackPriority = NoLane /\ ct.entangledLanes = mt.entangledLanes
      /\ ct.suspendedLanes = {} /\ ct.pingedLanes = {}
  BY <1>4 DEF RootType
<1> HIDE DEF ct
<1>6. root'[r] = ct /\ \A q \in Roots : q # r => root'[q] = root[q]
  BY <1>1, <1>2
<1> QED
  BY <1>2, <1>3, <1>4, <1>5, <1>6

LEMMA CommitMutationEffectsFits ==
    ASSUME Inv, FitLanes, CommitMutationEffects PROVE FitLanes'
<1>1. /\ ~Idle /\ Top.root \in Roots /\ Top \in FrameType /\ StackOK(stack)
      /\ Top.proc = "commitRoot"
  BY InvParts, TopHasRoot, StackTop DEF CommitMutationEffects, At
<1>2. PICK r \in Roots : r = Top.root
  BY <1>1
<1>3. /\ root'[r].callbackPriority = NoLane
      /\ root'[r].entangledLanes \subseteq root[r].entangledLanes
      /\ root'[r].suspendedLanes = {} /\ root'[r].pingedLanes = {}
      /\ \A q \in Roots : q # r => root'[q] = root[q]
      /\ wip' = IF wip.root = r THEN NoWip ELSE wip
  BY <1>2, CommitStep
<1>4. ~Idle' /\ Top'.pc = "layout" /\ Top'.proc = "commitRoot" /\ Top'.root = r
  <2>1. PICK e \in BOOLEAN :
          Continue([Top EXCEPT !.pc = "layout", !.lanes = root[Top.root].finishedLanes, !.passive = e])
    BY DEF CommitMutationEffects
  <2> DEFINE f == [Top EXCEPT !.pc = "layout", !.lanes = root[Top.root].finishedLanes, !.passive = e]
  <2>2. f.pc = "layout" /\ f.proc = "commitRoot" /\ f.root = r /\ Continue(f)
    BY <1>1, <1>2, <2>1 DEF FrameType
  <2> HIDE DEF f
  <2>3. Top' = f /\ ~Idle'
    BY <1>1, <2>2, ContinueShape
  <2> QED BY <2>2, <2>3
<1>5. \A q \in Roots : LanesOf(root'[q])
  BY <1>3 DEF FitLanes, LanesInv, LanesOf, NoLanes
<1>6. NoWip.root = NoRoot /\ NoWip.lanes = NoLanes
  BY DEF NoWip
<1>7. WipLanesOf'
  <2> SUFFICES ASSUME wip'.root # NoRoot PROVE wip'.lanes \subseteq root'[wip'.root].pendingLanes
    BY DEF WipLanesOf
  <2>1. wip' = wip /\ wip.root # r /\ wip.root # NoRoot /\ wip.root \in Roots
    BY <1>3, <1>6, InvParts DEF RootsOK, WipType
  <2> QED BY <1>3, <2>1 DEF FitLanes, LanesInv, WipLanesOf
<1>8. RenderedLanesOf' /\ SyncRenders'
  BY <1>4 DEF RenderedLanesOf, SyncRenders, Performing
<1>9. OthersFit(r)'
  <2>1. OthersFit(r)
    BY <1>1, <1>2, FitOthers DEF FitLanes
  <2>2. \A q \in Roots : q # r => SameSchedule(q)
    BY <1>3, <1>6, SameScheduleSelf, RootSchedulerAssumption DEF WipLanes
  <2> QED BY <2>1, <2>2, SameScheduleFits DEF OthersFit
<1>10. FitInv'
  BY <1>4, <1>9, WindowStep DEF WorksOn, At
<1> QED
  BY <1>5, <1>7, <1>8, <1>10 DEF FitLanes, LanesInv

-----------------------------------------------------------------------------
LEMMA StutterFits == ASSUME FitLanes, UNCHANGED vars PROVE FitLanes'
<1>1. Top' = Top /\ Idle' = Idle
  BY DEF vars, Top, Idle
<1>2. \A q \in Roots : SameSchedule(q)
  BY SameScheduleSelf DEF vars, WipLanes
<1>3. LanesInv'
  BY <1>1 DEF FitLanes, LanesInv, WipLanesOf, RenderedLanesOf, SyncRenders, Performing, vars
<1>4. \A q \in Roots : FitsNow(q) => FitsNow(q)'
  BY <1>2, SameScheduleFits
<1>5. FitInv'
  <2>1. \A q \in Roots : Window(q)' \/ FitsNow(q)'
    BY <1>1, <1>4 DEF FitLanes, FitInv, Window, WorksOn
  <2>2. CommitFits'
    BY <1>1 DEF FitLanes, FitInv, CommitFits, At, FitsNow, WipLanes, vars
  <2> QED BY <2>1, <2>2 DEF FitInv
<1> QED
  BY <1>3, <1>5 DEF FitLanes

LEMMA InitFits == Init => FitLanes
<1> SUFFICES ASSUME Init PROVE FitLanes
  OBVIOUS
<1>1. Idle /\ \A r \in Roots : root[r] = NewRoot
  BY DEF Init, Idle
<1>2. \A r \in Roots : LanesOf(root[r])
  BY <1>1 DEF NewRoot, LanesOf, NoLanes
<1>3. ASSUME NEW r \in Roots PROVE FitsNow(r)
  <2>1. root[r] \in RootType /\ WipLanes(r) = NoLanes
    BY InitInv, InvParts DEF RootsOK, Init, NoWip, WipLanes
  <2>2. Workable(root[r]) = {} /\ root[r].callbackPriority = NoLane
    BY <1>1 DEF NewRoot, Workable, OrElse, NoLanes
  <2>3. LaneNow(root[r], NoLanes) = NoLane
    BY <1>2, <2>1, <2>2, NoRenderNext, NoLaneHighest
  <2> QED BY <2>1, <2>2, <2>3 DEF FitsNow, Fits
<1>7. WipLanesOf /\ RenderedLanesOf /\ SyncRenders
  BY <1>1 DEF Init, NoWip, WipLanesOf, RenderedLanesOf, SyncRenders, Performing
<1> QED
  BY <1>1, <1>2, <1>3, <1>7 DEF FitLanes, LanesInv, FitInv, CommitFits, At

LEMMA NextFits == ASSUME Inv, Inv', CallInv, FitLanes, [Next]_vars PROVE FitLanes'
<1>1. CASE UserCode
  BY <1>1, UpdateFits, FlushSyncFits, EffectsFits, QuietFits, ErrorFits, SuspendFits,
     RenderPhaseUpdateFits, DeferHiddenTreeFits, CompleteTreeFits, RenderIsInconsistentFits
     DEF UserCode
<1>2. CASE Host
  BY <1>2, QuietFits, TimeoutFiresFits, NotifyFits DEF Host
<1>3. CASE React
  BY <1>3, QuietFits, ChooseLanesSyncFits, ChooseLanesConcurrentFits, YieldFits,
     FallbackCompletesFits, CompleteTreeFits, RecoverFromConcurrentErrorFits, FatalFits,
     FinishSyncRenderFits, FinishConcurrentRenderFits, ExitFits, CommitMutationEffectsFits
     DEF React
<1>4. CASE Quiescent \/ UNCHANGED vars
  BY <1>4, StutterFits DEF Quiescent
<1> QED
  BY <1>1, <1>2, <1>3, <1>4 DEF Next

-----------------------------------------------------------------------------
(* A root whose work is synchronous is in the queue until                  *)
(* performSyncWorkOnRoot works on it, and something flushes the queue.     *)

Works(f) ==
    f.proc = "performSyncWorkOnRoot" /\ f.pc \in {"begin", "choose", "render", "rendered", "fatal"}

CalledBySync == Len(stack) > 1 /\ stack[Len(stack) - 1].proc = "performSyncWorkOnRoot"

Underway(r) ==
    \/ \E i \in 1..Len(stack) : Works(stack[i]) /\ stack[i].root = r
    \/ At("commitRoot", "begin") /\ Top.root = r /\ CalledBySync

Drains(f) == f.proc = "flushSyncCallbacks" /\ f.pc \in {"begin", "loop"}

Draining == \E i \in 1..Len(stack) : Drains(stack[i])

WillFlush == microtask \/ flushTask \/ Draining

QueueInv ==
    /\ \A r \in Roots : root[r].callbackPriority = SyncLane => InQueue(r) \/ Underway(r)
    /\ syncQueue # << >> => WillFlush

(* What a step may do with the queue if it does not flush it.              *)
CalmQueue ==
    /\ \A q \in Roots : root'[q].callbackPriority = SyncLane =>
           root[q].callbackPriority = SyncLane \/ InQueue(q)'
    /\ \A q \in Roots : InQueue(q) => InQueue(q)'
    /\ syncQueue' = syncQueue \/ microtask'

LEMMA QueueStep ==
    ASSUME QueueInv, CalmQueue, WillFlush => WillFlush',
           \A r \in Roots : Underway(r) /\ root'[r].callbackPriority = SyncLane =>
               Underway(r)' \/ InQueue(r)'
    PROVE  QueueInv'
<1>1. syncQueue' # << >> => WillFlush'
  BY DEF CalmQueue, QueueInv, WillFlush
<1>2. ASSUME NEW r \in Roots, root'[r].callbackPriority = SyncLane
      PROVE  InQueue(r)' \/ Underway(r)'
  BY <1>2 DEF CalmQueue, QueueInv
<1> QED
  BY <1>1, <1>2 DEF QueueInv

LEMMA EnsuredQueue == ASSUME NEW r \in Roots, EnsuredStep(r) PROVE CalmQueue /\ (microtask => microtask')
  BY DEF EnsuredStep, QueueGrows, SameSchedule, CalmQueue, queueVars

LEMMA CalmSame == ASSUME Unscheduled, UNCHANGED queueVars PROVE CalmQueue /\ (microtask => microtask')
  BY DEF Unscheduled, CalmQueue, InQueue, queueVars

LEMMA CalmRoots == ASSUME UNCHANGED <<root, queueVars>> PROVE CalmQueue /\ (microtask => microtask')
  BY CalmSame DEF Unscheduled

(* The stack stays as it is.                                               *)
LEMMA QueueStays ==
    ASSUME QueueInv, CalmQueue, microtask => microtask', flushTask => flushTask', UNCHANGED stack
    PROVE  QueueInv'
<1>1. Top' = Top /\ Idle' = Idle
  BY DEF Top, Idle
<1>2. \A r \in Roots : Underway(r) => Underway(r)'
  BY <1>1 DEF Underway, CalledBySync, At
<1>3. WillFlush => WillFlush'
  BY DEF WillFlush, Draining
<1> QED
  BY <1>2, <1>3, QueueStep

(* The frames below the top stay as they are.                              *)
BelowKept ==
    /\ Len(stack) \in Nat \ {0} /\ Len(stack') \in Nat /\ Len(stack) - 1 <= Len(stack')
    /\ \A i \in 1..(Len(stack) - 1) : stack'[i] = stack[i]

LEMMA KeptBelow ==
    ASSUME StackOK(stack), ~Idle,
           \/ Return \/ \E f : Continue(f) \/ \E pc : Goto(pc)
           \/ \E proc, r, pc : Call(proc, r, pc)
    PROVE  BelowKept
<1>1. CASE Return
  <2>1. /\ Len(stack) \in Nat \ {0} /\ Len(stack') = Len(stack) - 1
        /\ \A i \in 1..(Len(stack) - 1) : stack'[i] = stack[i]
    BY <1>1, ReturnShape
  <2> QED BY <2>1 DEF BelowKept
<1>2. ASSUME NEW f, Continue(f) PROVE BelowKept
  <2>1. /\ Len(stack) \in Nat \ {0} /\ Len(stack') = Len(stack)
        /\ \A i \in 1..(Len(stack) - 1) : stack'[i] = stack[i]
    BY <1>2, ContinueShape
  <2> QED BY <2>1 DEF BelowKept
<1>3. ASSUME NEW proc, NEW r, NEW pc, Call(proc, r, pc) PROVE BelowKept
  <2>1. /\ Len(stack) \in Nat \ {0} /\ Len(stack') = Len(stack) + 1
        /\ \A i \in 1..(Len(stack) - 1) : stack'[i] = stack[i]
    BY <1>3, CallShape
  <2> QED BY <2>1 DEF BelowKept
<1>4. (\E pc : Goto(pc)) => \E f : Continue(f)
  BY DEF Goto
<1> QED
  BY <1>1, <1>2, <1>3, <1>4

LEMMA BelowWorks ==
    ASSUME BelowKept, NEW r,
           \E i \in 1..Len(stack) : Works(stack[i]) /\ stack[i].root = r,
           Works(Top) /\ Top.root = r =>
               /\ Len(stack) <= Len(stack')
               /\ Works(stack'[Len(stack)]) /\ stack'[Len(stack)].root = r
    PROVE  Underway(r)'
<1>1. PICK n \in Nat \ {0} : n = Len(stack)
  BY DEF BelowKept
<1>2. PICK i \in 1..n : Works(stack[i]) /\ stack[i].root = r
  BY <1>1
<1>3. CASE i = n
  <2>1. n <= Len(stack') /\ Works(stack'[n]) /\ stack'[n].root = r
    BY <1>1, <1>2, <1>3 DEF Top
  <2>2. n \in 1..Len(stack')
    BY <2>1 DEF BelowKept
  <2> QED BY <2>1, <2>2 DEF Underway
<1>4. CASE i # n
  <2>1. i \in 1..(n - 1)
    BY <1>4
  <2>2. stack'[i] = stack[i] /\ i \in 1..Len(stack')
    BY <1>1, <2>1 DEF BelowKept
  <2> QED BY <1>2, <2>2 DEF Underway
<1> QED
  BY <1>3, <1>4

LEMMA BelowDrains ==
    ASSUME BelowKept, Draining, Drains(Top) => Draining'
    PROVE  Draining'
<1>1. PICK n \in Nat \ {0} : n = Len(stack)
  BY DEF BelowKept
<1>2. PICK i \in 1..n : Drains(stack[i])
  BY <1>1 DEF Draining
<1>3. CASE i = n
  BY <1>1, <1>2, <1>3 DEF Top
<1>4. CASE i # n
  <2>1. i \in 1..(n - 1)
    BY <1>4
  <2>2. stack'[i] = stack[i] /\ i \in 1..Len(stack')
    BY <1>1, <2>1 DEF BelowKept
  <2> QED BY <1>2, <2>2 DEF Draining
<1> QED
  BY <1>3, <1>4

(* A function goes on, calls or returns, and if it works on a root of the  *)
(* queue it still does.                                                    *)
LEMMA QueueBelow ==
    ASSUME QueueInv, CalmQueue, microtask => microtask', flushTask => flushTask', BelowKept,
           ~At("commitRoot", "begin"), ~Drains(Top),
           Works(Top) => /\ Len(stack) <= Len(stack') /\ Works(stack'[Len(stack)])
                         /\ stack'[Len(stack)].root = Top.root
    PROVE  QueueInv'
<1>1. \A r \in Roots : Underway(r) => Underway(r)'
  <2> SUFFICES ASSUME NEW r \in Roots, Underway(r) PROVE Underway(r)'
    OBVIOUS
  <2>1. \E i \in 1..Len(stack) : Works(stack[i]) /\ stack[i].root = r
    BY DEF Underway
  <2> QED BY <2>1, BelowWorks
<1>2. WillFlush => WillFlush'
  BY BelowDrains DEF WillFlush
<1> QED
  BY <1>1, <1>2, QueueStep

(* performSyncWorkOnRoot is only called in the loop of flushSyncCallbacks, *)
(* so it works on one root at a time.                                      *)
LEMMA SyncIsOne ==
    ASSUME CallInv, ~Idle, Len(stack) \in Nat, NEW i \in 1..Len(stack), NEW j \in 1..Len(stack),
           stack[i].proc = "performSyncWorkOnRoot", stack[j].proc = "performSyncWorkOnRoot"
    PROVE  i = j
<1>1. PICK n \in Nat : n = Len(stack)
  OBVIOUS
<1>2. ASSUME NEW k \in 1..n, stack[k].proc = "performSyncWorkOnRoot"
      PROVE  k - 1 \in 1..n /\ IsLoop(stack[k - 1])
  <2>1. k # 1
    BY <1>2 DEF CallInv, Calls
  <2>2. k - 1 \in 1..(n - 1) /\ (k - 1) + 1 = k /\ k - 1 \in 1..n
    BY <2>1
  <2>3. MayCall(stack[k - 1], stack[(k - 1) + 1])
    BY <1>1, <2>2 DEF CallInv, Calls
  <2> QED BY <1>2, <2>2, <2>3 DEF MayCall
<1>3. i - 1 = j - 1
  BY <1>1, <1>2 DEF CallInv, Flushing
<1> QED
  BY <1>3

LEMMA ConcurrentIsBottom ==
    ASSUME CallInv, Len(stack) \in Nat, NEW i \in 1..Len(stack),
           stack[i].proc = "performConcurrentWorkOnRoot"
    PROVE  i = 1
<1>1. PICK n \in Nat : n = Len(stack)
  OBVIOUS
<1>2. ASSUME i # 1 PROVE FALSE
  <2>1. i - 1 \in 1..(n - 1) /\ (i - 1) + 1 = i
    BY <1>1, <1>2
  <2>2. MayCall(stack[i - 1], stack[(i - 1) + 1])
    BY <1>1, <2>1 DEF CallInv, Calls
  <2> QED BY <2>1, <2>2 DEF MayCall
<1> QED
  BY <1>2

(* flushSyncCallbacks is at its beginning only on top of the stack.        *)
LEMMA BeginIsTop ==
    ASSUME CallInv, Len(stack) \in Nat, NEW i \in 1..Len(stack), Drains(stack[i]),
           i # Len(stack)
    PROVE  IsLoop(stack[i])
<1>1. PICK n \in Nat : n = Len(stack)
  OBVIOUS
<1>2. i \in 1..(n - 1)
  BY <1>1
<1>3. MayCall(stack[i], stack[i + 1])
  BY <1>1, <1>2 DEF CallInv, Calls
<1> QED
  BY <1>3 DEF MayCall, Drains, IsLoop

-----------------------------------------------------------------------------
(* Every step keeps QueueInv.  First those that leave the stack, or start  *)
(* something on an empty one.                                              *)

LEMMA StaysQueue ==
    ASSUME Inv, FitLanes, QueueInv,
           \/ \E r \in Roots : Update(r) \/ EffectUpdates(r)
           \/ EffectThrows \/ EffectUpdateThrows \/ UpdateThrows
           \/ \E w \in Wakeables : Resolve(w) \/ Suspend(w)
           \/ \E l \in listeners : Notify(l)
           \/ FallbackCompletes \/ ComponentThrows \/ RenderUpdateThrows \/ RenderPhaseUpdate
           \/ DeferHiddenTree
    PROVE  QueueInv'
<1>1. CASE \E r \in Roots : Update(r)
  <2>1. PICK r \in Roots : Update(r)
    BY <1>1
  <2>2. EnsuredStep(r) /\ UNCHANGED <<stack, flushTask>>
    BY <2>1, UserUpdateStep, RootSchedulerAssumption DEF Update, FitLanes, hostVars
  <2> QED BY <2>2, EnsuredQueue, QueueStays
<1>2. CASE (\E r \in Roots : EffectUpdates(r)) \/ EffectThrows \/ EffectUpdateThrows
  <2>1. PICK r \in Roots : EnsuredStep(r)
    BY <1>2, EffectsStep DEF FitLanes
  <2>2. UNCHANGED <<stack, flushTask>>
    BY <1>2 DEF EffectUpdates, EffectThrows, EffectUpdateThrows, hostVars
  <2> QED BY <2>1, <2>2, EnsuredQueue, QueueStays
<1>3. CASE \E l \in listeners : Notify(l)
  <2>1. PICK l \in listeners : Notify(l)
    BY <1>3
  <2>2. EnsuredStep(l.root) /\ l.root \in Roots
    BY <2>1, NotifyStep DEF FitLanes
  <2>3. PICK r \in Roots : EnsuredStep(r)
    BY <2>2
  <2>4. UNCHANGED <<stack, flushTask>>
    BY <2>1 DEF Notify, hostVars
  <2> QED BY <2>3, <2>4, EnsuredQueue, QueueStays
<1>4. CASE UpdateThrows \/ \E w \in Wakeables : Resolve(w)
  <2>1. UNCHANGED <<stack, root, queueVars, flushTask>>
    BY <1>4 DEF UpdateThrows, Resolve, hostVars
  <2> QED BY <2>1, CalmRoots, QueueStays
<1>5. CASE \/ \E w \in Wakeables : Suspend(w)
           \/ FallbackCompletes \/ ComponentThrows \/ RenderUpdateThrows \/ RenderPhaseUpdate
           \/ DeferHiddenTree
  <2>1. Unscheduled
    BY <1>5, SuspendFits, FallbackCompletesFits, ErrorFits, RenderPhaseUpdateFits,
       DeferHiddenTreeFits
  <2>2. UNCHANGED <<stack, queueVars, flushTask>>
    BY <1>5 DEF Suspend, FallbackCompletes, ComponentThrows, RenderUpdateThrows,
                RenderPhaseUpdate, DeferHiddenTree, hostVars
  <2> QED BY <2>1, <2>2, CalmSame, QueueStays
<1> QED
  BY <1>1, <1>2, <1>3, <1>4, <1>5

LEMMA IdleQueue ==
    ASSUME Idle, QueueInv, CalmQueue, microtask \/ flushTask => WillFlush'
    PROVE  QueueInv'
<1>1. Len(stack) = 0
  BY EmptySeq DEF Idle
<1>2. (\A r \in Roots : ~Underway(r)) /\ ~Draining
  BY <1>1 DEF Underway, Draining, At
<1> QED
  BY <1>2, QueueStep DEF WillFlush

LEMMA StartDrains ==
    ASSUME NEW r, stack' = <<Frame("flushSyncCallbacks", "begin", r)>>
    PROVE  WillFlush'
<1> DEFINE f == Frame("flushSyncCallbacks", "begin", r)
<1>1. Drains(f)
  BY FrameFields DEF Drains
<1> HIDE DEF f
<1>2. Len(stack') = 1 /\ stack'[1] = f
  BY StartShape DEF f
<1>3. Draining'
  BY <1>1, <1>2 DEF Draining
<1> QED
  BY <1>3 DEF WillFlush

LEMMA StartsQueue ==
    ASSUME Inv, FitLanes, QueueInv,
           \/ \E r \in Roots : FlushSync(r) \/ TimeoutFires(r)
           \/ RunMicrotask \/ RunPassiveTask \/ RunFlushTask \/ \E t \in tasks : RunTask(t)
    PROVE  QueueInv'
<1>1. CASE \E r \in Roots : FlushSync(r)
  <2>1. PICK r \in Roots : FlushSync(r)
    BY <1>1
  <2>2. CalmQueue
    BY <2>1, FlushSyncStep, EnsuredQueue DEF FitLanes
  <2>3. Idle /\ WillFlush'
    BY <2>1, StartDrains DEF FlushSync
  <2> QED BY <2>2, <2>3, IdleQueue
<1>2. CASE RunMicrotask \/ RunFlushTask
  <2>1. Idle /\ WillFlush'
    BY <1>2, StartDrains DEF RunMicrotask, RunFlushTask, Start
  <2>2. root' = root /\ syncQueue' = syncQueue
    BY <1>2 DEF RunMicrotask, RunFlushTask, queueVars
  <2>3. CalmQueue
    BY <2>2 DEF CalmQueue, InQueue
  <2> QED BY <2>1, <2>3, IdleQueue
<1>3. CASE (\E r \in Roots : TimeoutFires(r)) \/ RunPassiveTask \/ \E t \in tasks : RunTask(t)
  <2>1. Idle /\ UNCHANGED <<queueVars, flushTask>>
    BY <1>3 DEF TimeoutFires, RunPassiveTask, RunTask, hostVars
  <2>2. \A q \in Roots : root'[q].callbackPriority = root[q].callbackPriority
    <3>1. ASSUME NEW r \in Roots, TimeoutFires(r)
          PROVE  \A q \in Roots : root'[q].callbackPriority = root[q].callbackPriority
      <4>1. root' = [root EXCEPT ![r].timeoutHandle = FALSE] /\ root \in [Roots -> RootType]
        BY <3>1, InvParts DEF TimeoutFires, RootsOK
      <4> QED BY <4>1 DEF RootType
    <3> QED BY <1>3, <3>1 DEF RunPassiveTask, RunTask
  <2>3. CalmQueue
    BY <2>1, <2>2, CalmSame DEF Unscheduled
  <2> QED BY <2>1, <2>3, IdleQueue DEF WillFlush, queueVars
<1> QED
  BY <1>1, <1>2, <1>3

-----------------------------------------------------------------------------
(* The functions that do not work on a root of the queue.                  *)

LEMMA ElsewhereQueue ==
    ASSUME Inv, QueueInv,
           \/ BeginPassiveEffects \/ EndPassiveEffects \/ ReturnFromPassiveEffects
           \/ CompareNode \/ ReturnFromPerform \/ FlushDiscreteEffects \/ CountNestedUpdate
           \/ ReturnFromCommit \/ BeginPerform
    PROVE  QueueInv'
<1>1. /\ ~Idle /\ StackOK(stack) /\ ~At("commitRoot", "begin") /\ ~Drains(Top)
      /\ UNCHANGED <<root, queueVars, flushTask>>
  BY InvParts
     DEF BeginPassiveEffects, EndPassiveEffects, ReturnFromPassiveEffects, CompareNode,
         ReturnFromPerform, FlushDiscreteEffects, CountNestedUpdate, ReturnFromCommit,
         BeginPerform, Performing, Procs, At, Drains, hostVars
<1>2. BelowKept
  <2>1. \/ Return \/ \E f : Continue(f) \/ \E pc : Goto(pc)
        \/ \E proc, r, pc : Call(proc, r, pc)
    BY DEF BeginPassiveEffects, EndPassiveEffects, ReturnFromPassiveEffects, CompareNode,
           ReturnFromPerform, FlushDiscreteEffects, CountNestedUpdate, ReturnFromCommit,
           BeginPerform
  <2> QED BY <1>1, <2>1, KeptBelow
<1>3. CalmQueue /\ (microtask => microtask')
  BY <1>1, CalmRoots
<1>4. CASE BeginPerform /\ Works(Top)
  <2>1. Call("flushPassiveEffects", NoRoot, "choose") /\ Top.proc = "performSyncWorkOnRoot"
    BY <1>4 DEF BeginPerform, Works
  <2> DEFINE f == [Top EXCEPT !.pc = "choose"]
  <2>2. Works(f) /\ f.root = Top.root
    BY <1>1, <2>1, TopAt DEF Works
  <2> HIDE DEF f
  <2>3. stack'[Len(stack)] = f /\ Len(stack) <= Len(stack')
    <3>1. /\ Len(stack) \in Nat /\ Len(stack') = Len(stack) + 1
          /\ stack'[Len(stack)] = [Top EXCEPT !.pc = "choose"]
      BY <1>1, <2>1, CallShape
    <3> QED BY <3>1 DEF f
  <2> QED BY <1>1, <1>2, <1>3, <2>2, <2>3, QueueBelow
<1>5. CASE ~(BeginPerform /\ Works(Top))
  <2>1. ~Works(Top)
    BY <1>5
       DEF BeginPassiveEffects, EndPassiveEffects, ReturnFromPassiveEffects, CompareNode,
           ReturnFromPerform, FlushDiscreteEffects, CountNestedUpdate, ReturnFromCommit,
           Performing, At, Works
  <2> QED BY <1>1, <1>2, <1>3, <2>1, QueueBelow
<1> QED
  BY <1>4, <1>5

-----------------------------------------------------------------------------
(* The functions that may work on a root of the queue.                     *)

LEMMA SyncGoesOn ==
    ASSUME Inv, QueueInv, CalmQueue, UNCHANGED <<microtask, flushTask>>, ~Idle,
           Top.proc \in Procs, NEW f, Continue(f), f.root = Top.root,
           Works(Top) => Works(f)
    PROVE  QueueInv'
<1>1. StackOK(stack) /\ ~At("commitRoot", "begin") /\ ~Drains(Top)
  BY InvParts DEF At, Drains, Procs
<1>2. BelowKept
  BY <1>1, KeptBelow
<1>3. Len(stack) \in Nat /\ Len(stack') = Len(stack) /\ stack'[Len(stack)] = f
  BY <1>1, ContinueShape
<1> QED
  BY <1>1, <1>2, <1>3, QueueBelow

LEMMA RenderRootQueue ==
    ASSUME Inv, QueueInv, Unscheduled, UNCHANGED <<queueVars, flushTask>>, ~Idle,
           Top.proc \in Procs, NEW frame \in FrameType, frame.root = Top.root,
           frame.proc = Top.proc, NEW lanes, RenderRoot(frame, lanes)
    PROVE  QueueInv'
<1> DEFINE f == [frame EXCEPT !.pc = "render", !.lanes = lanes]
<1>1. f.pc = "render" /\ f.proc = Top.proc /\ f.root = Top.root /\ Continue(f)
  BY DEF RenderRoot, FrameType
<1> HIDE DEF f
<1>2. Works(Top) => Works(f)
  BY <1>1 DEF Works
<1> QED
  BY <1>1, <1>2, CalmSame, SyncGoesOn DEF queueVars

LEMMA RenderAgainQueue ==
    ASSUME Inv, FitLanes, QueueInv, RecoverFromConcurrentError \/ RenderIsInconsistent
    PROVE  QueueInv'
<1>1. ~Idle /\ Top.proc \in Procs /\ Top \in FrameType
  BY InvParts, StackTop
     DEF RecoverFromConcurrentError, RenderIsInconsistent, Rendered, Errored, Performing
<1>2. Unscheduled /\ UNCHANGED <<queueVars, flushTask>>
  BY RecoverFromConcurrentErrorFits, RenderIsInconsistentFits
     DEF RecoverFromConcurrentError, RenderIsInconsistent, hostVars
<1>3. PICK frame \in FrameType :
        frame.root = Top.root /\ frame.proc = Top.proc /\ \E lanes : RenderRoot(frame, lanes)
  <2>1. CASE RenderIsInconsistent
    <3>1. PICK f \in FrameType :
            f = [Top EXCEPT !.sync = TRUE, !.checked = TRUE, !.recovering = FALSE]
      BY <1>1 DEF FrameType
    <3>2. f.root = Top.root /\ f.proc = Top.proc
      BY <1>1, <3>1 DEF FrameType
    <3>3. RenderRoot(f, Top.lanes)
      BY <2>1, <3>1 DEF RenderIsInconsistent
    <3> QED BY <3>2, <3>3
  <2>2. CASE RecoverFromConcurrentError
    <3>1. PICK f \in FrameType : f = [Top EXCEPT !.sync = TRUE, !.recovering = TRUE]
      BY <1>1 DEF FrameType
    <3>2. f.root = Top.root /\ f.proc = Top.proc
      BY <1>1, <3>1 DEF FrameType
    <3>3. RenderRoot(f, ErrorLanes) \/ RenderRoot(Top, Top.lanes)
      BY <2>2, <3>1 DEF RecoverFromConcurrentError
    <3> QED BY <1>1, <3>2, <3>3
  <2> QED BY <2>1, <2>2
<1> QED
  BY <1>1, <1>2, <1>3, RenderRootQueue

LEMMA CompleteTreeQueue ==
    ASSUME Inv, FitLanes, QueueInv, RenderCompletes \/ RenderFails PROVE QueueInv'
<1>1. PICK status \in {"rendered", "fatal"} : CompleteTree(status)
  BY DEF RenderCompletes, RenderFails
<1>2. ~Idle /\ Top.proc \in Procs /\ Goto(status) /\ UNCHANGED <<queueVars, flushTask>>
      /\ StackOK(stack)
  BY <1>1, InvParts DEF CompleteTree, Rendering, Performing, hostVars
<1> DEFINE f == [Top EXCEPT !.pc = status]
<1>3. f.pc = status /\ f.proc = Top.proc /\ f.root = Top.root /\ Continue(f)
  BY <1>2, TopAt DEF Goto
<1> HIDE DEF f
<1>4. Works(Top) => Works(f)
  BY <1>3 DEF Works
<1> QED
  BY <1>2, <1>3, <1>4, CompleteTreeFits, CalmSame, SyncGoesOn DEF queueVars

(* A concurrent render is time-sliced, a synchronous one is not.           *)
LEMMA YieldQueue == ASSUME Inv, FitLanes, QueueInv, Yield PROVE QueueInv'
<1>1. /\ ~Idle /\ Top.proc \in Procs /\ Goto("exit") /\ UNCHANGED <<root, queueVars, flushTask>>
      /\ StackOK(stack) /\ Top.pc = "render" /\ ~Top.sync
  BY InvParts DEF Yield, Rendering, Performing, hostVars
<1> DEFINE f == [Top EXCEPT !.pc = "exit"]
<1>2. f.root = Top.root /\ Continue(f)
  BY <1>1, TopAt DEF Goto
<1> HIDE DEF f
<1>3. ~Works(Top)
  BY <1>1 DEF FitLanes, LanesInv, SyncRenders, Works
<1> QED
  BY <1>1, <1>2, <1>3, CalmRoots, SyncGoesOn DEF queueVars

LEMMA ChooseLanesConcurrentQueue ==
    ASSUME Inv, Inv', FitLanes, QueueInv, ChooseLanesConcurrent PROVE QueueInv'
<1>1. /\ ~Idle /\ Top.proc = "performConcurrentWorkOnRoot" /\ Top.pc = "choose"
      /\ StackOK(stack) /\ UNCHANGED <<queueVars, flushTask>>
  BY InvParts DEF ChooseLanesConcurrent, At, hostVars
<1>2. ~At("commitRoot", "begin") /\ ~Drains(Top) /\ ~Works(Top)
  BY <1>1 DEF At, Drains, Works
<1>3. BelowKept
  <2>1. Return \/ \E f : Continue(f)
    BY DEF ChooseLanesConcurrent, RenderRoot
  <2> QED BY <1>1, <2>1, KeptBelow
<1> QED
  BY <1>1, <1>2, <1>3, ChooseLanesConcurrentFits, CalmSame, QueueBelow DEF queueVars

LEMMA ExitQueue == ASSUME Inv, FitLanes, QueueInv, ExitPerform \/ EndCommit PROVE QueueInv'
<1>1. /\ ~Idle /\ StackOK(stack) /\ Top.root \in Roots /\ UNCHANGED flushTask
      /\ Top.pc \in {"exit", "layout"} /\ (\E pc : Goto(pc))
  BY InvParts, TopHasRoot DEF ExitPerform, EndCommit, Performing, At, hostVars
<1>2. PICK r \in Roots : r = Top.root
  BY <1>1
<1>3. EnsuredStep(r)
  BY <1>2, ExitStep DEF FitLanes
<1>4. ~At("commitRoot", "begin") /\ ~Drains(Top) /\ ~Works(Top)
  BY <1>1 DEF At, Drains, Works
<1> QED
  BY <1>1, <1>3, <1>4, KeptBelow, EnsuredQueue, QueueBelow

(* performSyncWorkOnRoot renders, or leaves what is left to the others.    *)
LEMMA SyncLeaves ==
    ASSUME Inv, Inv', FitLanes, FitLanes', ChooseLanesSync, NEW r \in Roots, r = Top.root,
           SyncLane \notin NextLanes(root[r], NoLanes)
    PROVE  root'[r].callbackPriority # SyncLane
<1>1. EnsureRootIsScheduled(r, root, WipLanes(r)) /\ Return /\ wip' = wip
  BY DEF ChooseLanesSync
<1>2. syncQueue \in Seq(Roots) /\ root \in [Roots -> RootType] /\ root' \in [Roots -> RootType]
  BY InvParts, InvPartsPrime DEF HostOK, RootsOK
<1>3. SameLanes(root'[r], root[r])
  BY <1>1, <1>2, Ensures DEF Ensured
<1>4. FitsNow(r)'
  <2>1. EnsuredStep(r)
    BY ChooseLanesSyncLeaves
  <2> QED BY <2>1 DEF EnsuredStep
<1>5. PICK rt \in RootType : rt = root'[r]
  BY <1>2
<1>6. PICK w \in SUBSET Lane : w = WipLanes(r)' /\ w \subseteq rt.pendingLanes
  <2>1. WipLanes(r) \in SUBSET Lane /\ WipLanes(r) \subseteq root[r].pendingLanes
    BY WipLanesPending
  <2>2. WipLanes(r)' = WipLanes(r)
    BY <1>1 DEF WipLanes
  <2> QED BY <1>3, <1>5, <2>1, <2>2 DEF SameLanes
<1>7. Fits(rt.callbackPriority, LaneNow(rt, w)) /\ LanesOf(rt)
  BY <1>4, <1>5, <1>6 DEF FitsNow, FitLanes, LanesInv
<1>8. Fits(rt.callbackPriority, LaneNow(rt, NoLanes))
  BY <1>6, <1>7, AbandonedFits
<1>9. LaneNow(rt, NoLanes) # SyncLane
  <2>1. NextLanes(rt, NoLanes) = NextLanes(root[r], NoLanes)
    BY <1>3, <1>5, SameLanesNow
  <2>2. NextLanes(rt, NoLanes) \in SUBSET Lane
    <3>1. NoLanes \in SUBSET Lane
      BY DEF NoLanes
    <3> QED BY <1>7, <3>1, NextLanesChoice
  <2>3. NextLanes(rt, NoLanes) # {} => LaneNow(rt, NoLanes) \in NextLanes(rt, NoLanes)
    BY <2>2, HighestIsLeast DEF LaneNow
  <2>4. NextLanes(rt, NoLanes) = {} => LaneNow(rt, NoLanes) = NoLane
    BY NoLaneHighest DEF LaneNow
  <2> QED BY <2>1, <2>3, <2>4 DEF NoLane, SyncLane
<1> QED
  BY <1>5, <1>8, <1>9 DEF Fits, TransitionLanes, SyncLane

LEMMA ChooseLanesSyncQueue ==
    ASSUME Inv, Inv', CallInv, FitLanes, FitLanes', QueueInv, ChooseLanesSync PROVE QueueInv'
<1>1. /\ ~Idle /\ Top.proc = "performSyncWorkOnRoot" /\ Top.pc = "choose" /\ Top \in FrameType
      /\ StackOK(stack) /\ UNCHANGED flushTask /\ Top.root \in Roots /\ Top.proc \in Procs
  BY InvParts, StackTop, TopHasRoot DEF ChooseLanesSync, At, Procs, hostVars
<1>2. PICK r \in Roots : r = Top.root
  BY <1>1
<1>3. CASE SyncLane \in NextLanes(root[r], NoLanes)
  <2>1. RenderRoot([Top EXCEPT !.sync = TRUE], NextLanes(root[r], NoLanes)) /\ UNCHANGED queueVars
    BY <1>2, <1>3 DEF ChooseLanesSync
  <2>2. Unscheduled
    BY <1>2, <1>3, ChooseLanesSyncRenders
  <2>3. PICK f \in FrameType : f = [Top EXCEPT !.sync = TRUE]
    BY <1>1 DEF FrameType
  <2>4. f.root = Top.root /\ f.proc = Top.proc
    BY <1>1, <2>3 DEF FrameType
  <2> QED BY <1>1, <2>1, <2>2, <2>3, <2>4, RenderRootQueue
<1>4. CASE SyncLane \notin NextLanes(root[r], NoLanes)
  <2>1. EnsuredStep(r) /\ Return
    BY <1>2, <1>4, ChooseLanesSyncLeaves
  <2>2. root'[r].callbackPriority # SyncLane
    BY <1>2, <1>4, SyncLeaves
  <2>3. BelowKept /\ CalmQueue /\ (microtask => microtask')
    BY <1>1, <2>1, KeptBelow, EnsuredQueue
  <2>4. ~At("commitRoot", "begin") /\ ~Drains(Top)
    BY <1>1 DEF At, Drains
  <2>5. ASSUME NEW q \in Roots, Underway(q), root'[q].callbackPriority = SyncLane
        PROVE  Underway(q)'
    <3>1. \E i \in 1..Len(stack) : Works(stack[i]) /\ stack[i].root = q
      BY <2>4, <2>5 DEF Underway
    <3>2. q # r
      BY <2>2, <2>5
    <3> QED BY <1>2, <2>3, <3>1, <3>2, BelowWorks
  <2>6. WillFlush => WillFlush'
    BY <1>1, <2>3, <2>4, BelowDrains DEF WillFlush
  <2> QED BY <2>3, <2>5, <2>6, QueueStep
<1> QED
  BY <1>3, <1>4

-----------------------------------------------------------------------------
(* From the render of a root of the queue to its commit.                   *)

LEMMA FinishSyncRenderQueue ==
    ASSUME Inv, CallInv, FitLanes, QueueInv, FinishSyncRender PROVE QueueInv'
<1>1. /\ ~Idle /\ Top.proc = "performSyncWorkOnRoot" /\ Top.pc = "rendered" /\ Top.root \in Roots
      /\ StackOK(stack) /\ UNCHANGED <<queueVars, flushTask>> /\ Top.proc \in Procs
  BY InvParts, TopHasRoot DEF FinishSyncRender, Rendered, Performing, hostVars, Procs
<1>2. Call("commitRoot", Top.root, "exit")
  BY DEF FinishSyncRender
<1>3. CalmQueue /\ (microtask => microtask')
  BY <1>1, FinishSyncRenderFits, CalmSame
<1>4. BelowKept
  BY <1>1, <1>2, KeptBelow
<1>5. WillFlush => WillFlush'
  BY <1>1, <1>3, <1>4, BelowDrains DEF WillFlush, Drains
<1>6. PICK r \in Roots : r = Top.root
  BY <1>1
<1>7. Underway(r)'
  <2>1. PICK n \in Nat \ {0} : n = Len(stack)
    BY <1>1, TopAt
  <2> DEFINE f == [Top EXCEPT !.pc = "exit"]
             g == Frame("commitRoot", "begin", r)
  <2>2. /\ Len(stack') = n + 1 /\ stack'[n] = f /\ Top' = g /\ ~Idle'
    BY <1>1, <1>2, <1>6, <2>1, CallShape
  <2>3. f.proc = "performSyncWorkOnRoot" /\ g.proc = "commitRoot" /\ g.pc = "begin" /\ g.root = r
    BY <1>1, TopAt, FrameFields
  <2> HIDE DEF f, g
  <2>4. CalledBySync'
    BY <2>2, <2>3 DEF CalledBySync
  <2> QED BY <2>2, <2>3, <2>4 DEF Underway, At
<1>8. ASSUME NEW q \in Roots, Underway(q) PROVE Underway(q)'
  <2>1. \E i \in 1..Len(stack) : Works(stack[i]) /\ stack[i].root = q
    BY <1>1, <1>8 DEF Underway, At
  <2>2. CASE q = r
    BY <1>7, <2>2
  <2>3. CASE q # r
    BY <1>4, <1>6, <2>1, <2>3, BelowWorks
  <2> QED BY <2>2, <2>3
<1> QED
  BY <1>3, <1>5, <1>8, QueueStep

(* A commit that performSyncWorkOnRoot called takes the root.              *)
LEMMA CommitBeginQueue ==
    ASSUME Inv, CallInv, QueueInv, FlushBeforeCommit \/ NothingToCommit \/ CommitMutationEffects
    PROVE  QueueInv'
<1>1. /\ ~Idle /\ Top.proc = "commitRoot" /\ Top.pc = "begin" /\ Top.root \in Roots
      /\ StackOK(stack) /\ UNCHANGED <<queueVars, flushTask>> /\ At("commitRoot", "begin")
  BY InvParts, TopHasRoot
     DEF FlushBeforeCommit, NothingToCommit, CommitMutationEffects, At, hostVars
<1>2. PICK r \in Roots : r = Top.root
  BY <1>1
<1>3. BelowKept
  <2>1. \/ Return \/ \E f : Continue(f)
        \/ \E proc, q, pc : Call(proc, q, pc)
    BY DEF FlushBeforeCommit, NothingToCommit, CommitMutationEffects
  <2> QED BY <1>1, <2>1, KeptBelow
<1>4. /\ \A q \in Roots : root'[q].callbackPriority \in {root[q].callbackPriority, NoLane}
      /\ CommitMutationEffects => root'[r].callbackPriority = NoLane
  <2>1. CASE CommitMutationEffects
    <3>1. /\ root'[r].callbackPriority = NoLane
          /\ \A q \in Roots : q # r => root'[q] = root[q]
      BY <1>2, <2>1, CommitStep
    <3> QED BY <3>1
  <2>2. CASE FlushBeforeCommit \/ NothingToCommit
    <3>1. root' = root
      BY <2>2 DEF FlushBeforeCommit, NothingToCommit
    <3>2. ~CommitMutationEffects
      BY <2>2 DEF FlushBeforeCommit, NothingToCommit, CommitMutationEffects, EffectsAreFlushed
    <3> QED BY <3>1, <3>2
  <2> QED BY <2>1, <2>2
<1>5. CalmQueue
  BY <1>1, <1>4 DEF CalmQueue, InQueue, queueVars, NoLane, SyncLane
<1>6. WillFlush => WillFlush'
  BY <1>1, <1>3, BelowDrains DEF WillFlush, Drains, queueVars
<1>7. ASSUME NEW q \in Roots, Underway(q), root'[q].callbackPriority = SyncLane
      PROVE  Underway(q)'
  <2>1. CASE \E i \in 1..Len(stack) : Works(stack[i]) /\ stack[i].root = q
    <3>1. ~Works(Top)
      BY <1>1 DEF Works
    <3> QED BY <1>3, <2>1, <3>1, BelowWorks
  <2>2. CASE q = r /\ CalledBySync
    <3>1. ~CommitMutationEffects
      BY <1>4, <1>7, <2>2 DEF NoLane, SyncLane
    <3>2. ~FlushBeforeCommit
      <4>1. Len(stack) # 1
        BY <1>1, <2>2, TopAt DEF CalledBySync
      <4>2. ~PassiveMayWait
        BY <1>1, <4>1 DEF PassiveMayWait, Procs
      <4> QED BY <1>1, <4>2 DEF FlushBeforeCommit, CallInv, PassiveInv
    <3>3. ~NothingToCommit
      BY <1>1, <2>2 DEF NothingToCommit, CallInv, CommitsSync, CalledBySync
    <3> QED BY <3>1, <3>2, <3>3
  <2> QED BY <1>2, <1>7, <2>1, <2>2 DEF Underway
<1> QED
  BY <1>5, <1>6, <1>7, QueueStep

LEMMA FinishConcurrentRenderQueue ==
    ASSUME Inv, CallInv, FitLanes, QueueInv, FinishConcurrentRender PROVE QueueInv'
<1>1. /\ ~Idle /\ Top.proc = "performConcurrentWorkOnRoot" /\ StackOK(stack)
      /\ UNCHANGED <<queueVars, flushTask>>
  BY InvParts DEF FinishConcurrentRender, Rendered, Performing, hostVars
<1>2. BelowKept
  <2>1. (\E pc : Goto(pc)) \/ \E proc, r, pc : Call(proc, r, pc)
    BY DEF FinishConcurrentRender
  <2> QED BY <1>1, <2>1, KeptBelow
<1>3. ~At("commitRoot", "begin") /\ ~Drains(Top) /\ ~Works(Top)
  BY <1>1 DEF At, Drains, Works
<1> QED
  BY <1>1, <1>2, <1>3, FinishConcurrentRenderFits, CalmSame, QueueBelow DEF queueVars

-----------------------------------------------------------------------------
(* The queue is flushed.                                                   *)

LEMMA BeginFlushQueue == ASSUME Inv, CallInv, QueueInv, BeginFlush PROVE QueueInv'
<1>1. /\ ~Idle /\ Top.proc = "flushSyncCallbacks" /\ Top.pc = "begin"
      /\ StackOK(stack) /\ UNCHANGED <<root, queueVars, flushTask>>
  BY InvParts DEF BeginFlush, At, hostVars
<1>2. PICK n \in Nat \ {0} : n = Len(stack)
  BY <1>1, TopAt
<1>3. BelowKept
  <2>1. Return \/ \E pc : Goto(pc)
    BY DEF BeginFlush
  <2> QED BY <1>1, <2>1, KeptBelow
<1>4. CalmQueue
  BY <1>1, CalmRoots
<1>5. ~Works(Top) /\ ~At("commitRoot", "begin")
  BY <1>1 DEF Works, At
<1>6. ASSUME NEW q \in Roots, Underway(q) PROVE Underway(q)'
  BY <1>3, <1>5, <1>6, BelowWorks DEF Underway
<1>7. CASE isFlushingSyncQueue
  <2>1. PICK i \in 1..n : IsLoop(stack[i])
    BY <1>2, <1>7 DEF CallInv, Flushing
  <2>2. i # n
    BY <1>1, <1>2, <2>1 DEF IsLoop, Top
  <2>3. i \in 1..(n - 1)
    BY <2>2
  <2>4. stack'[i] = stack[i] /\ i \in 1..Len(stack')
    BY <1>2, <1>3, <2>3 DEF BelowKept
  <2>5. Draining'
    BY <2>1, <2>4 DEF Draining, Drains, IsLoop
  <2> QED BY <1>4, <1>6, <2>5, QueueStep DEF WillFlush
<1>8. CASE ~isFlushingSyncQueue /\ syncQueue # << >>
  <2>1. Goto("loop")
    BY <1>8 DEF BeginFlush
  <2> DEFINE f == [Top EXCEPT !.pc = "loop"]
  <2>2. Drains(f)
    BY <1>1, TopAt DEF Drains
  <2> HIDE DEF f
  <2>3. stack'[n] = f /\ Len(stack') = n
    BY <1>1, <1>2, <2>1, ContinueShape DEF Goto, f
  <2>4. n \in 1..Len(stack')
    BY <2>3
  <2>5. Draining'
    BY <2>2, <2>3, <2>4 DEF Draining
  <2> QED BY <1>4, <1>6, <2>5, QueueStep DEF WillFlush
<1>9. CASE syncQueue = << >>
  <2>1. syncQueue' = << >>
    BY <1>1, <1>9 DEF queueVars
  <2>2. \A q \in Roots : root'[q].callbackPriority = SyncLane => InQueue(q)' \/ Underway(q)'
    BY <1>1, <1>6 DEF QueueInv, InQueue, queueVars
  <2> QED BY <2>1, <2>2 DEF QueueInv
<1> QED
  BY <1>7, <1>8, <1>9

LEMMA NextSyncCallbackQueue == ASSUME Inv, QueueInv, NextSyncCallback PROVE QueueInv'
<1>1. /\ ~Idle /\ Top.proc = "flushSyncCallbacks" /\ Top.pc = "loop"
      /\ StackOK(stack) /\ UNCHANGED root /\ syncQueue \in Seq(Roots)
  BY InvParts DEF NextSyncCallback, At, HostOK
<1>2. PICK n \in Nat \ {0} : n = Len(stack)
  BY <1>1, TopAt
<1>3. BelowKept
  <2>1. Return \/ \E proc, r, pc : Call(proc, r, pc)
    BY DEF NextSyncCallback
  <2> QED BY <1>1, <2>1, KeptBelow
<1>4. ~Works(Top) /\ ~At("commitRoot", "begin")
  BY <1>1 DEF Works, At
<1>5. ASSUME NEW q \in Roots, Underway(q) PROVE Underway(q)'
  BY <1>3, <1>4, <1>5, BelowWorks DEF Underway
<1>6. CASE syncQueue = << >>
  <2>1. syncQueue' = << >>
    BY <1>6 DEF NextSyncCallback
  <2>2. \A q \in Roots : ~InQueue(q)
    BY <1>6, RangeEmpty DEF InQueue
  <2>3. \A q \in Roots : root'[q].callbackPriority = SyncLane => Underway(q)'
    BY <1>1, <1>5, <2>2 DEF QueueInv
  <2> QED BY <2>1, <2>3 DEF QueueInv
<1>7. CASE syncQueue # << >>
  <2>1. /\ Call("performSyncWorkOnRoot", Head(syncQueue), "loop")
        /\ syncQueue' = Tail(syncQueue)
    BY <1>7 DEF NextSyncCallback
  <2> DEFINE f == [Top EXCEPT !.pc = "loop"]
             g == Frame("performSyncWorkOnRoot", "begin", Head(syncQueue))
  <2>2. Drains(f) /\ Works(g) /\ g.root = Head(syncQueue)
    BY <1>1, TopAt, FrameFields DEF Drains, Works
  <2>3. stack'[n] = f /\ stack'[n + 1] = g /\ Len(stack') = n + 1
    BY <1>1, <1>2, <2>1, CallShape
  <2> HIDE DEF f, g
  <2>4. n \in 1..Len(stack') /\ n + 1 \in 1..Len(stack')
    BY <2>3
  <2>5. Draining'
    BY <2>2, <2>3, <2>4 DEF Draining
  <2>6. \A q \in Roots : q = Head(syncQueue) => Underway(q)'
    BY <2>2, <2>3, <2>4 DEF Underway
  <2>7. \A q \in Roots : InQueue(q) => q = Head(syncQueue) \/ InQueue(q)'
    BY <1>1, <1>7, <2>1, RangeHeadTail DEF InQueue
  <2>8. \A q \in Roots : root'[q].callbackPriority = SyncLane => InQueue(q)' \/ Underway(q)'
    BY <1>1, <1>5, <2>6, <2>7 DEF QueueInv
  <2> QED BY <2>5, <2>8 DEF QueueInv, WillFlush
<1> QED
  BY <1>6, <1>7

-----------------------------------------------------------------------------
(* An exception leaves the stack, and a task flushes what is left of the   *)
(* queue.                                                                  *)

(* What is drained below the top is drained by a flush in progress.        *)
LEMMA ThrowDrains ==
    ASSUME Inv, CallInv, ~Idle, Throw, ~Drains(Top), microtask => microtask', WillFlush
    PROVE  WillFlush'
<1>1. CASE microtask \/ flushTask
  BY <1>1 DEF Throw, WillFlush
<1>2. CASE Draining
  <2>1. PICK n \in Nat \ {0} : n = Len(stack)
    BY InvParts, StackTop
  <2>2. PICK i \in 1..n : Drains(stack[i])
    BY <1>2, <2>1 DEF Draining
  <2>3. i # n
    BY <2>1, <2>2 DEF Top
  <2>4. IsLoop(stack[i])
    BY <2>1, <2>2, <2>3, BeginIsTop
  <2>5. isFlushingSyncQueue
    BY <2>1, <2>4 DEF CallInv, Flushing
  <2> QED BY <2>5 DEF Throw, WillFlush
<1> QED
  BY <1>1, <1>2 DEF WillFlush

LEMMA ThrowFatalErrorQueue ==
    ASSUME Inv, CallInv, FitLanes, QueueInv, ThrowFatalError PROVE QueueInv'
<1>1. /\ ~Idle /\ Top.proc \in Procs /\ Top.pc = "fatal" /\ Throw
      /\ StackOK(stack) /\ Top.root \in Roots
  BY InvParts, TopHasRoot DEF ThrowFatalError, Performing, Procs
<1>2. PICK r \in Roots : r = Top.root
  BY <1>1
<1>3. PICK n \in Nat \ {0} : n = Len(stack)
  BY <1>1, StackTop
<1>4. EnsuredStep(r) /\ (SyncLane \in Top.lanes => root'[r].callbackPriority # SyncLane)
  BY <1>2, FatalStep DEF FitLanes
<1>5. CalmQueue /\ (microtask => microtask')
  BY <1>4, EnsuredQueue
<1>6. ~Drains(Top) /\ ~At("commitRoot", "begin")
  BY <1>1 DEF Drains, At, Procs
<1>7. WillFlush => WillFlush'
  BY <1>1, <1>5, <1>6, ThrowDrains
<1>8. ASSUME NEW q \in Roots, Underway(q) PROVE root'[q].callbackPriority # SyncLane
  <2>1. PICK i \in 1..n : Works(stack[i]) /\ stack[i].root = q
    BY <1>3, <1>6, <1>8 DEF Underway
  <2>2. Top.proc = "performSyncWorkOnRoot"
    <3>1. CASE Top.proc = "performConcurrentWorkOnRoot"
      <4>1. n = 1
        BY <1>1, <1>3, <3>1, ConcurrentIsFirst
      <4>2. stack[1].proc = "performSyncWorkOnRoot"
        BY <2>1, <4>1 DEF Works
      <4> QED BY <1>1, <4>2 DEF CallInv, Calls
    <3> QED BY <1>1, <3>1 DEF Procs
  <2>3. n \in 1..n /\ Top = stack[n]
    BY <1>3 DEF Top
  <2>4. i = n
    BY <1>1, <1>3, <2>1, <2>2, <2>3, SyncIsOne DEF Works
  <2>5. q = r
    BY <1>2, <2>1, <2>3, <2>4
  <2>6. SyncLane \in Top.lanes
    BY <1>1, <2>2 DEF FitLanes, LanesInv, SyncRenders
  <2> QED BY <1>4, <2>5, <2>6
<1> QED
  BY <1>5, <1>7, <1>8, QueueStep

LEMMA ThrowUncaughtErrorQueue ==
    ASSUME Inv, CallInv, QueueInv, ThrowUncaughtError PROVE QueueInv'
<1>1. /\ ~Idle /\ Top.proc = "commitRoot" /\ Top.pc = "scheduled" /\ Throw
      /\ StackOK(stack) /\ UNCHANGED <<root, queueVars>>
  BY InvParts DEF ThrowUncaughtError, At
<1>2. PICK n \in Nat \ {0} : n = Len(stack)
  BY <1>1, StackTop
<1>3. CalmQueue /\ (microtask => microtask')
  BY <1>1, CalmRoots
<1>4. ~Drains(Top) /\ ~At("commitRoot", "begin") /\ ~Works(Top)
  BY <1>1 DEF Drains, At, Works
<1>5. WillFlush => WillFlush'
  BY <1>1, <1>3, <1>4, ThrowDrains
<1>6. ASSUME NEW q \in Roots, Underway(q) PROVE FALSE
  <2>1. PICK i \in 1..n : Works(stack[i]) /\ stack[i].root = q
    BY <1>2, <1>4, <1>6 DEF Underway
  <2>2. i # n
    BY <1>2, <1>4, <2>1 DEF Top
  <2>3. n - 1 \in 1..n /\ n - 1 \in 1..(n - 1) /\ (n - 1) + 1 = n
    BY <2>1, <2>2
  <2>4. MayCall(stack[n - 1], stack[(n - 1) + 1])
    BY <1>2, <2>3 DEF CallInv, Calls
  <2>5. stack[n - 1].proc \in Procs /\ stack[n - 1].pc = "exit"
    BY <1>1, <1>2, <2>3, <2>4 DEF MayCall, Top
  <2>6. CASE stack[n - 1].proc = "performSyncWorkOnRoot"
    <3>1. i = n - 1
      BY <1>1, <1>2, <2>1, <2>3, <2>6, SyncIsOne DEF Works
    <3> QED BY <2>1, <2>5, <3>1 DEF Works
  <2>7. CASE stack[n - 1].proc = "performConcurrentWorkOnRoot"
    <3>1. n - 1 = 1
      BY <1>2, <2>3, <2>7, ConcurrentIsBottom
    <3>2. i = 1
      BY <2>2, <3>1
    <3> QED BY <2>1, <2>7, <3>1, <3>2 DEF Works
  <2> QED BY <2>5, <2>6, <2>7 DEF Procs
<1> QED
  BY <1>3, <1>5, <1>6, QueueStep

-----------------------------------------------------------------------------
LEMMA InitQueue == Init => QueueInv
<1> SUFFICES ASSUME Init PROVE QueueInv
  OBVIOUS
<1>1. \A r \in Roots : root[r].callbackPriority # SyncLane
  BY DEF Init, NewRoot, NoLane, SyncLane
<1> QED
  BY <1>1 DEF Init, QueueInv

LEMMA NextQueue ==
    ASSUME Inv, Inv', CallInv, FitLanes, FitLanes', QueueInv, [Next]_vars PROVE QueueInv'
<1>1. CASE UserCode
  BY <1>1, StaysQueue, StartsQueue, CompleteTreeQueue, RenderAgainQueue, ThrowUncaughtErrorQueue
     DEF UserCode
<1>2. CASE Host
  BY <1>2, StaysQueue, StartsQueue DEF Host
<1>3. CASE React
  BY <1>3, StaysQueue, ElsewhereQueue, BeginFlushQueue, NextSyncCallbackQueue, ChooseLanesSyncQueue,
     ChooseLanesConcurrentQueue, YieldQueue, CompleteTreeQueue, RenderAgainQueue,
     ThrowFatalErrorQueue, FinishSyncRenderQueue, FinishConcurrentRenderQueue, ExitQueue,
     CommitBeginQueue
     DEF React
<1>4. CASE Quiescent \/ UNCHANGED vars
  <2>1. UNCHANGED <<stack, root, queueVars, flushTask>>
    BY <1>4 DEF Quiescent, vars, queueVars
  <2> QED BY <2>1, CalmRoots, QueueStays
<1> QED
  BY <1>1, <1>2, <1>3, <1>4 DEF Next

(* The inductive invariant.                                                *)
SyncInv == Inv /\ CallInv /\ FitLanes /\ QueueInv

(* Nothing is under way between host tasks, so what has to be flushed is   *)
(* in the queue, and a microtask or a task flushes it.                     *)
LEMMA SyncInvScheduled == SyncInv => SyncWorkScheduled
<1> SUFFICES ASSUME SyncInv, Idle, NEW r \in Roots
             PROVE  /\ LET lane == HighestPriorityLane(NextLanes(root[r], WipLanes(r)))
                       IN  \/ root[r].callbackPriority = lane
                           \/ root[r].callbackPriority \in TransitionLanes /\ lane = DefaultLane
                    /\ root[r].callbackPriority = SyncLane => IsQueued(r)
  BY DEF SyncWorkScheduled
<1>1. FitsNow(r)
  BY FitAll DEF SyncInv, AllFit, FitLanes
<1>2. Len(stack) = 0
  BY EmptySeq DEF Idle
<1>3. ~Underway(r) /\ ~Draining
  BY <1>2 DEF Underway, Draining, At
<1>4. ASSUME root[r].callbackPriority = SyncLane PROVE IsQueued(r)
  <2>1. InQueue(r)
    BY <1>3, <1>4 DEF SyncInv, QueueInv
  <2>2. \E i \in DOMAIN syncQueue : syncQueue[i] = r
    BY <2>1 DEF InQueue, Range
  <2>3. syncQueue # << >>
    BY <2>1, RangeEmpty DEF InQueue
  <2> QED BY <1>3, <2>2, <2>3 DEF SyncInv, QueueInv, WillFlush, IsQueued
<1> QED
  BY <1>1, <1>4 DEF FitsNow, Fits, LaneNow

(* Between host tasks the priority of every root is that of its most       *)
(* urgent lane, and a root whose work is synchronous is in the sync queue, *)
(* which a microtask or a task will flush, even if an error was thrown     *)
(* while it was flushed (ensureRootIsScheduled, getNextLanes,              *)
(* flushSyncCallbacks).                                                    *)
THEOREM SyncWorkIsScheduled == Spec => []SyncWorkScheduled
<1>1. Init => SyncInv
  BY InitInv, InitCalls, InitFits, InitQueue DEF SyncInv
<1>2. SyncInv /\ [Next]_vars => SyncInv'
  <2> SUFFICES ASSUME SyncInv, [Next]_vars PROVE SyncInv'
    OBVIOUS
  <2>1. Inv' /\ CallInv'
    BY NextKeeps, NextCalls DEF SyncInv, FitLanes
  <2>2. FitLanes'
    BY <2>1, NextFits DEF SyncInv
  <2> QED BY <2>1, <2>2, NextQueue DEF SyncInv
<1> QED
  BY <1>1, <1>2, SyncInvScheduled, PTL DEF Spec

-----------------------------------------------------------------------------
(* The task of a root is in the scheduler, or runs.                        *)

TaskOf(r) == [id |-> root[r].callbackNode, root |-> r]

(* The frame that runs a task, which is the first one, is that of root r.  *)
RunsTask(r) ==
    /\ ~Idle
    /\ stack[1].proc = "performConcurrentWorkOnRoot" /\ stack[1].root = r
    /\ stack[1].task = root[r].callbackNode /\ stack[1].node = root[r].callbackNode

HasTask(r) == TaskOf(r) \in tasks \/ RunsTask(r)

NodesOf(rs) ==
    /\ \A r \in Roots : rs[r].callbackNode = NoNode <=> rs[r].callbackPriority \in {NoLane, SyncLane}
    /\ \A q, r \in Roots : q # r /\ rs[q].callbackNode = rs[r].callbackNode =>
           rs[q].callbackNode = NoNode

TaskInv == NodesOf(root) /\ \A r \in Roots : root[r].callbackNode # NoNode => HasTask(r)

SameNode(st, rt) ==
    st.callbackNode = rt.callbackNode /\ st.callbackPriority = rt.callbackPriority

SameNodes(rs) == \A q \in Roots : SameNode(rs[q], root[q])

LEMMA NodesSame == ASSUME NEW rs, SameNodes(rs), NodesOf(root) PROVE NodesOf(rs)
  BY DEF SameNodes, SameNode, NodesOf

(* A step keeps TaskInv if the tasks it cancels are those of the roots it  *)
(* schedules, and the task that runs goes on, is put back or is not needed *)
(* any more.                                                               *)
LEMMA TaskStep ==
    ASSUME TaskInv, NodesOf(root'),
           \A r \in Roots : root'[r].callbackNode # NoNode =>
               \/ TaskOf(r)' \in tasks'
               \/ /\ root'[r].callbackNode = root[r].callbackNode
                  /\ TaskOf(r) \in tasks => TaskOf(r) \in tasks'
                  /\ RunsTask(r) => HasTask(r)'
    PROVE  TaskInv'
<1> SUFFICES ASSUME NEW r \in Roots, root'[r].callbackNode # NoNode PROVE HasTask(r)'
  BY DEF TaskInv, NodesOf
<1>1. CASE TaskOf(r)' \in tasks'
  BY <1>1 DEF HasTask
<1>2. CASE /\ root'[r].callbackNode = root[r].callbackNode
           /\ TaskOf(r) \in tasks => TaskOf(r) \in tasks'
           /\ RunsTask(r) => HasTask(r)'
  <2>1. HasTask(r) /\ TaskOf(r)' = TaskOf(r)
    BY <1>2 DEF TaskInv, TaskOf
  <2> QED BY <1>2, <2>1 DEF HasTask
<1> QED
  BY <1>1, <1>2

(* What ensureRootIsScheduled(r) does to the tasks of all roots.           *)
TasksKept ==
    /\ NodesOf(root')
    /\ \A q \in Roots : root'[q].callbackNode # NoNode =>
           \/ TaskOf(q)' \in tasks'
           \/ /\ root'[q].callbackNode = root[q].callbackNode
              /\ TaskOf(q) \in tasks => TaskOf(q) \in tasks'

Ensuring ==
    \E r \in Roots : \E rs \in [Roots -> RootType] : \E lanes \in SUBSET Lane :
        /\ SameNodes(rs) /\ LanesOf(rs[r])
        /\ EnsureRootIsScheduled(r, rs, lanes)

LEMMA EnsuringKeeps == ASSUME Inv, TaskInv, Ensuring PROVE TasksKept
<1>1. PICK r \in Roots, rs \in [Roots -> RootType], lanes \in SUBSET Lane :
        SameNodes(rs) /\ LanesOf(rs[r]) /\ EnsureRootIsScheduled(r, rs, lanes)
  BY DEF Ensuring
<1> DEFINE rt == rs[r]
           next == NextLanes(rt, lanes)
           priority == HighestPriorityLane(next)
           others == {t \in tasks : t.id # rt.callbackNode}
           id == FreshId(others)
<1>2. /\ TypeOK /\ tasks \subseteq TaskType /\ IsFiniteSet(tasks) /\ stack \in Seq(FrameType)
      /\ rt \in RootType /\ root \in [Roots -> RootType]
  BY InvParts DEF Inv, TypeOK, TaskType, HostOK
<1>3. others \subseteq TaskType /\ IsFiniteSet(others)
  BY <1>2, FS_Subset
<1>4. id \in TaskIds /\ \A q \in Roots : id # root[q].callbackNode
  <2>1. id \in TaskIds /\ id \notin UsedIds(others)
    BY <1>2, <1>3, FreshIdIsFresh
  <2> HIDE DEF id
  <2> QED BY <2>1 DEF UsedIds
<1>5. next # {} => priority \in Lane
  <2>1. next \in SUBSET Lane
    BY <1>1, <1>2, NextLanesChoice
  <2> QED BY <2>1, HighestIsLeast
<1>6. NodesOf(rs)
  BY <1>1, NodesSame DEF TaskInv
<1>7. \A i, p : Scheduled(rt, i, p).callbackNode = i /\ Scheduled(rt, i, p).callbackPriority = p
  BY <1>2 DEF Scheduled, RootType
<1>8. ASSUME NEW q \in Roots, root[q].callbackNode # NoNode, q # r, TaskOf(q) \in tasks
      PROVE  TaskOf(q) \in others
  <2>1. root[q].callbackNode # root[r].callbackNode
    BY <1>8 DEF TaskInv, NodesOf
  <2>2. rt.callbackNode = root[r].callbackNode /\ TaskOf(q).id = root[q].callbackNode
    BY <1>1 DEF SameNodes, SameNode, TaskOf
  <2> QED BY <1>8, <2>1, <2>2
<1>9. \/ /\ next = {} /\ tasks' = others
         /\ root' = [rs EXCEPT ![r] = Scheduled(rt, NoNode, NoLane)]
      \/ root' = rs /\ tasks' = tasks
      \/ /\ tasks' = others
         /\ root' = [rs EXCEPT ![r] = Scheduled(rt, NoNode, SyncLane)]
      \/ /\ next # {} /\ priority # SyncLane
         /\ tasks' = others \cup {[id |-> id, root |-> r]}
         /\ root' = [rs EXCEPT ![r] = Scheduled(rt, id, priority)]
  BY <1>1 DEF EnsureRootIsScheduled, NoLanes
<1> HIDE DEF rt, next, priority, others, id
<1>10. CASE root' = rs /\ tasks' = tasks
  BY <1>1, <1>6, <1>10 DEF TasksKept, SameNodes, SameNode
<1>11. ASSUME NEW p \in {NoLane, SyncLane}, tasks' = others,
              root' = [rs EXCEPT ![r] = Scheduled(rt, NoNode, p)]
       PROVE  TasksKept
  <2>1. /\ root'[r].callbackNode = NoNode /\ root'[r].callbackPriority = p
        /\ \A q \in Roots : q # r => root'[q] = rs[q]
    BY <1>7, <1>11
  <2>2. NodesOf(root')
    BY <1>6, <1>11, <2>1 DEF NodesOf
  <2> QED BY <1>1, <1>8, <1>11, <2>1, <2>2 DEF TasksKept, SameNodes, SameNode
<1>12. CASE /\ next # {} /\ priority # SyncLane
            /\ tasks' = others \cup {[id |-> id, root |-> r]}
            /\ root' = [rs EXCEPT ![r] = Scheduled(rt, id, priority)]
  <2>1. /\ root'[r].callbackNode = id /\ root'[r].callbackPriority = priority
        /\ \A q \in Roots : q # r => root'[q] = rs[q]
    BY <1>7, <1>12
  <2>2. priority \notin {NoLane, SyncLane} /\ id # NoNode
    <3>1. priority \in 0..30
      BY <1>5, <1>12, LaneInts
    <3> QED BY <1>4, <1>12, <3>1 DEF NoLane, TaskIds
  <2>3. \A q \in Roots : rs[q].callbackNode # id
    BY <1>1, <1>4 DEF SameNodes, SameNode
  <2>4. NodesOf(root')
    BY <1>6, <2>1, <2>2, <2>3 DEF NodesOf
  <2>5. TaskOf(r)' \in tasks'
    BY <1>12, <2>1 DEF TaskOf
  <2> QED BY <1>1, <1>8, <1>12, <2>1, <2>4, <2>5 DEF TasksKept, SameNodes, SameNode
<1> QED
  BY <1>9, <1>10, <1>11, <1>12

(* What is done to the lanes or to the tree of a root leaves its task.     *)
LEMMA NodeStays ==
    ASSUME NEW rt \in RootType
    PROVE  /\ SameNode(rt, rt)
           /\ \A lane : SameNode(MarkRootUpdated(rt, lane), rt)
           /\ \A lanes : SameNode(MarkRootSuspended(rt, lanes), rt)
           /\ \A lanes : SameNode(MarkRootPinged(rt, lanes), rt)
           /\ \A lanes, w : SameNode(SuspendLanes(rt, lanes, w), rt)
           /\ \A r, lane : SameNode(MarkUpdateLaneFromFiberToRoot(r, rt, lane), rt)
           /\ \A lanes : SameNode(Finished(rt, lanes), rt)
           /\ \A b : SameNode([rt EXCEPT !.timeoutHandle = b], rt)
           /\ \A ws : SameNode([rt EXCEPT !.thrown = ws], rt)
           /\ \A lanes : SameNode([rt EXCEPT !.workLanes = lanes], rt)
           /\ \A lanes : SameNode([rt EXCEPT !.pingedLanes = lanes], rt)
<1>1. \A lanes : SameNode(MarkRootSuspended(rt, lanes), rt)
  BY DEF MarkRootSuspended, SameNode, RootType
<1>2. \A lanes, w : SameNode(SuspendLanes(rt, lanes, w), rt)
  BY <1>1 DEF SuspendLanes
<1>3. /\ \A lane : SameNode(MarkRootUpdated(rt, lane), rt)
      /\ \A lanes : SameNode(MarkRootPinged(rt, lanes), rt)
  BY DEF MarkRootUpdated, MarkRootPinged, SameNode, RootType
<1>4. /\ \A r, lane : SameNode(MarkUpdateLaneFromFiberToRoot(r, rt, lane), rt)
      /\ \A lanes : SameNode(Finished(rt, lanes), rt)
  BY DEF MarkUpdateLaneFromFiberToRoot, Finished, SameNode, RootType
<1>5. /\ SameNode(rt, rt)
      /\ \A b : SameNode([rt EXCEPT !.timeoutHandle = b], rt)
      /\ \A ws : SameNode([rt EXCEPT !.thrown = ws], rt)
      /\ \A lanes : SameNode([rt EXCEPT !.workLanes = lanes], rt)
      /\ \A lanes : SameNode([rt EXCEPT !.pingedLanes = lanes], rt)
  BY DEF SameNode, RootType
<1> QED
  BY <1>1, <1>2, <1>3, <1>4, <1>5

LEMMA NodeMore ==
    ASSUME NEW rt, NEW st, NEW mt, SameNode(st, rt), SameNode(mt, st) PROVE SameNode(mt, rt)
  BY DEF SameNode

LEMMA FreshNodes ==
    ASSUME Inv, NEW r, NEW lanes PROVE SameNodes(FreshRoots(r, lanes))
<1>1. \A q \in Roots : root[q] \in RootType
  BY InvParts DEF RootsOK
<1> QED
  BY <1>1 DEF FreshRoots, SameNodes, SameNode, RootType

LEMMA EnsuringOne ==
    ASSUME Inv, NEW r \in Roots, NEW rt \in RootType, SameNode(rt, root[r]), LanesOf(rt),
           NEW lanes \in SUBSET Lane, EnsureRootIsScheduled(r, [root EXCEPT ![r] = rt], lanes)
    PROVE  Ensuring
<1> DEFINE rs == [root EXCEPT ![r] = rt]
<1>1. root \in [Roots -> RootType]
  BY InvParts DEF RootsOK
<1>2. rs \in [Roots -> RootType] /\ rs[r] = rt /\ SameNodes(rs)
  BY <1>1 DEF SameNodes, SameNode
<1>3. EnsureRootIsScheduled(r, rs, lanes)
  OBVIOUS
<1> HIDE DEF rs
<1> QED
  BY <1>2, <1>3 DEF Ensuring

LEMMA EnsuringSelf ==
    ASSUME Inv, LanesInv, NEW r \in Roots, NEW lanes \in SUBSET Lane,
           EnsureRootIsScheduled(r, root, lanes)
    PROVE  Ensuring
<1>1. root \in [Roots -> RootType] /\ SameNodes(root)
  BY InvParts DEF RootsOK, SameNodes, SameNode
<1> QED
  BY <1>1 DEF Ensuring, LanesInv

LEMMA WipLanesType == ASSUME Inv, NEW r PROVE WipLanes(r) \in SUBSET Lane
  BY InvParts DEF RootsOK, WipType, WipLanes, NoLanes

LEMMA UpdatedNode ==
    ASSUME Inv, LanesInv, NEW r \in Roots, NEW lane \in Lane
    PROVE  LET rt == MarkRootUpdated(MarkUpdateLaneFromFiberToRoot(r, root[r], lane), lane)
           IN  rt \in RootType /\ LanesOf(rt) /\ SameNode(rt, root[r])
<1> DEFINE mt == MarkUpdateLaneFromFiberToRoot(r, root[r], lane)
           rt == MarkRootUpdated(mt, lane)
<1>1. root[r] \in RootType
  BY InvParts DEF RootsOK
<1>2. mt \in RootType /\ SameNode(mt, root[r])
  BY <1>1, MarkedType, NodeStays
<1> HIDE DEF mt
<1>3. SameNode(rt, root[r])
  BY <1>2, NodeStays, NodeMore
<1>4. rt \in RootType /\ LanesOf(rt)
  BY UpdatedGrown DEF Grown, mt
<1> QED
  BY <1>3, <1>4 DEF mt

LEMMA ScheduleWorkEnsures ==
    ASSUME Inv, LanesInv, NEW r \in Roots, NEW lane \in Lane, ScheduleWork(r, lane)
    PROVE  Ensuring
<1> DEFINE rt == MarkRootUpdated(MarkUpdateLaneFromFiberToRoot(r, root[r], lane), lane)
<1>1. EnsureRootIsScheduled(r, [root EXCEPT ![r] = rt], WipLanes(r))
  BY DEF ScheduleWork
<1>2. rt \in RootType /\ LanesOf(rt) /\ SameNode(rt, root[r])
  BY UpdatedNode
<1> HIDE DEF rt
<1> QED
  BY <1>1, <1>2, WipLanesType, EnsuringOne

LEMMA ScheduleUpdateEnsures ==
    ASSUME Inv, LanesInv, NEW r \in Roots, NEW lane \in Lane, ScheduleUpdateOnFiber(r, lane)
    PROVE  Ensuring
<1> DEFINE interleaved == r = wip.root
           w == IF interleaved
                THEN [wip EXCEPT !.interleavedUpdatedLanes = @ \cup {lane}]
                ELSE wip
           updated == MarkRootUpdated(MarkUpdateLaneFromFiberToRoot(r, root[r], lane), lane)
           st == SuspendLanes(updated, wip.lanes, w)
<1>1. \/ EnsureRootIsScheduled(r, [root EXCEPT ![r] = updated], WipLanes(r))
      \/ interleaved /\ EnsureRootIsScheduled(r, [root EXCEPT ![r] = st], WipLanes(r))
  BY DEF ScheduleUpdateOnFiber
<1>2. wip \in WipType /\ w \in WipType
  BY InvParts DEF RootsOK, WipType
<1> HIDE DEF w
<1>3. updated \in RootType /\ LanesOf(updated) /\ SameNode(updated, root[r])
  BY UpdatedNode
<1>4. Grown(root[r], updated)
  BY UpdatedGrown
<1> HIDE DEF updated
<1>5. ASSUME interleaved PROVE st \in RootType /\ LanesOf(st) /\ SameNode(st, root[r])
  <2>1. wip.lanes \in SUBSET updated.pendingLanes
    BY <1>4, <1>5, RootSchedulerAssumption DEF LanesInv, WipLanesOf, Grown
  <2>2. st \in RootType
    BY <1>2, <1>3, SuspendLanesWork DEF WipType
  <2>3. Grown(updated, st)
    BY <1>3, <2>1, GrownSuspendLanes
  <2>4. SameNode(st, updated)
    BY <1>3, NodeStays
  <2> HIDE DEF st
  <2>5. SameNode(st, root[r])
    BY <1>3, <2>4, NodeMore
  <2> QED BY <2>2, <2>3, <2>5 DEF Grown
<1> HIDE DEF st
<1> QED
  BY <1>1, <1>3, <1>5, WipLanesType, EnsuringOne

LEMMA UserUpdateEnsures ==
    ASSUME Inv, LanesInv, NEW r \in Roots, NEW lanes \in SUBSET Lane, UserUpdate(r, lanes)
    PROVE  Ensuring
<1>1. TransitionLanes # NoLanes => TransitionLane \in Lane
  BY InvParts, ClaimTransitionLaneType
<1>2. PICK lane \in Lane : ScheduleUpdateOnFiber(r, lane)
  BY <1>1 DEF UserUpdate
<1> QED
  BY <1>2, ScheduleUpdateEnsures

LEMMA PingEnsures == ASSUME Inv, LanesInv, NEW l \in listeners, Ping(l) PROVE Ensuring
<1>1. PICK r \in Roots : r = l.root
  BY InvParts DEF HostOK
<1> DEFINE rt == MarkRootPinged(root[r], l.lanes)
           fs == FreshRoots(r, NoLanes)
           ft == [fs[r] EXCEPT !.pingedLanes = rt.pingedLanes]
           fresh == [fs EXCEPT ![r].pingedLanes = rt.pingedLanes]
<1>2. /\ root \in [Roots -> RootType] /\ root[r] \in RootType /\ l.lanes \in SUBSET Lane
      /\ LanesOf(root[r])
  BY InvParts DEF HostOK, RootsOK, LanesInv
<1>3. /\ rt \in RootType /\ LanesOf(rt) /\ SameNode(rt, root[r])
      /\ rt.pendingLanes = root[r].pendingLanes /\ rt.suspendedLanes = root[r].suspendedLanes
      /\ rt.entangledLanes = root[r].entangledLanes
  <2>1. rt \in RootType /\ SameNode(rt, root[r])
    BY <1>2, PingedWork, NodeStays
  <2>2. LanesOf(rt)
    BY <1>2, GrownPing DEF Grown
  <2> QED BY <1>2, <2>1, <2>2 DEF MarkRootPinged, RootType
<1>4. \/ EnsureRootIsScheduled(r, fresh, NoLanes)
      \/ EnsureRootIsScheduled(r, [root EXCEPT ![r] = rt], WipLanes(r))
  BY <1>1 DEF Ping
<1> HIDE DEF rt
<1>5. CASE EnsureRootIsScheduled(r, [root EXCEPT ![r] = rt], WipLanes(r))
  BY <1>3, <1>5, WipLanesType, EnsuringOne
<1>6. CASE EnsureRootIsScheduled(r, fresh, NoLanes)
  <2>1. NoLanes \in SUBSET Lane
    BY DEF NoLanes
  <2>2. fs \in [Roots -> RootType] /\ SameLanes(fs[r], root[r]) /\ SameNodes(fs)
    BY <2>1, FreshRootsOf, FreshNodes
  <2> HIDE DEF fs
  <2>3. fresh = [fs EXCEPT ![r] = ft] /\ fs[r] \in RootType /\ rt.pingedLanes \in SUBSET Lane
    BY <1>3, <2>2 DEF RootType
  <2>4. /\ ft \in RootType /\ ft.pendingLanes = fs[r].pendingLanes
        /\ ft.suspendedLanes = fs[r].suspendedLanes /\ ft.pingedLanes = rt.pingedLanes
        /\ ft.entangledLanes = fs[r].entangledLanes
    BY <2>3 DEF RootType
  <2>5. SameNode(ft, fs[r])
    BY <2>3, NodeStays
  <2> HIDE DEF ft, fresh
  <2>6. LanesOf(ft)
    BY <1>3, <2>2, <2>4 DEF LanesOf, SameLanes
  <2>7. fresh \in [Roots -> RootType] /\ fresh[r] = ft /\ \A q \in Roots : q # r => fresh[q] = fs[q]
    BY <2>2, <2>3, <2>4
  <2>8. SameNodes(fresh)
    BY <2>2, <2>5, <2>7, NodeMore DEF SameNodes
  <2> QED BY <1>6, <2>1, <2>6, <2>7, <2>8 DEF Ensuring
<1> QED
  BY <1>4, <1>5, <1>6

LEMMA NotifyEnsures == ASSUME Inv, LanesInv, NEW l \in listeners, Notify(l) PROVE Ensuring
<1>1. PICK r \in Roots : r = l.root
  BY InvParts DEF HostOK
<1>2. event.nextRetryLane \in Lane
  BY InvParts, LaneSets DEF EventOK, EventType
<1>3. CASE Retry(l)
  BY <1>1, <1>2, <1>3, ScheduleWorkEnsures DEF Retry
<1> QED
  BY <1>3, PingEnsures DEF Notify

LEMMA EffectsEnsure ==
    ASSUME Inv, LanesInv, (\E r \in Roots : EffectUpdates(r)) \/ EffectThrows \/ EffectUpdateThrows
    PROVE  Ensuring
<1>1. EffectLanes \in SUBSET Lane
  BY RootSchedulerAssumption DEF EffectLanes
<1>2. CASE \E r \in Roots : EffectUpdates(r)
  BY <1>1, <1>2, UserUpdateEnsures DEF EffectUpdates
<1>3. CASE EffectThrows \/ EffectUpdateThrows
  <2>1. ~Idle /\ (Top.proc = "commitRoot" \/ Top.pc = "effects") /\ ScheduleWork(Top.root, SyncLane)
    BY <1>3 DEF EffectThrows, EffectUpdateThrows, At
  <2>2. PICK r \in Roots : r = Top.root
    BY <2>1, InvParts, TopHasRoot
  <2> QED BY <2>1, <2>2, ScheduleWorkEnsures, RootSchedulerAssumption
<1> QED
  BY <1>2, <1>3

(* The steps of a render keep what is scheduled.                           *)
LEMMA NodeOfOne ==
    ASSUME Inv, NEW r \in Roots, NEW rt, SameNode(rt, root[r]),
           \/ root' = [root EXCEPT ![r] = rt]
           \/ root'[r] = rt /\ \A q \in Roots : q # r => root'[q] = root[q]
    PROVE  SameNodes(root')
<1>1. root'[r] = rt /\ \A q \in Roots : q # r => root'[q] = root[q]
  BY InvParts DEF RootsOK
<1> QED
  BY <1>1 DEF SameNodes, SameNode

LEMMA RenderRootNodes ==
    ASSUME Inv, NEW frame, NEW lanes, RenderRoot(frame, lanes) PROVE SameNodes(root')
<1>1. root' = FreshRoots(frame.root, lanes) \/ root' = root
  BY DEF RenderRoot
<1> QED
  BY <1>1, FreshNodes DEF SameNodes, SameNode

LEMMA RenderNodes ==
    ASSUME Inv, \/ \E w \in Wakeables : Suspend(w)
                \/ FallbackCompletes \/ RenderPhaseUpdate \/ DeferHiddenTree
    PROVE  SameNodes(root')
<1>1. Top.root \in Roots /\ root \in [Roots -> RootType] /\ Rendering
  BY TopRenders DEF Suspend, FallbackCompletes, RenderPhaseUpdate, DeferHiddenTree
<1>2. PICK r \in Roots : r = Top.root
  BY <1>1
<1>3. root[r] \in RootType
  BY <1>1
<1>4. CASE \E w \in Wakeables : Suspend(w)
  <2>1. PICK ws : root' = [root EXCEPT ![r] = [root[r] EXCEPT !.thrown = ws]]
    BY <1>2, <1>4 DEF Suspend
  <2> QED BY <1>3, <2>1, NodeStays, NodeOfOne
<1>5. CASE FallbackCompletes
  <2>1. \/ root' = root
        \/ root' = [q \in Roots |->
              IF q = r THEN SuspendLanes(root[q], wip.lanes, wip) ELSE root[q]]
    BY <1>2, <1>5 DEF FallbackCompletes
  <2>2. \A q \in Roots : SameNode(SuspendLanes(root[q], wip.lanes, wip), root[q])
    BY <1>1, NodeStays
  <2> QED BY <2>1, <2>2 DEF SameNodes, SameNode
<1>6. CASE RenderPhaseUpdate
  <2> DEFINE lane == HighestPriorityLane(wip.lanes)
             marked == MarkUpdateLaneFromFiberToRoot(r, root[r], lane)
  <2>1. PICK left \in {root[r].workLanes, marked.workLanes} :
           root' = [root EXCEPT ![r] = MarkRootUpdated([marked EXCEPT !.workLanes = left], lane)]
    BY <1>2, <1>6 DEF RenderPhaseUpdate
  <2>2. lane \in Lane
    <3>1. wip.lanes \in SUBSET Lane /\ wip.lanes # {}
      BY <1>1, InvParts, TopRenders DEF RootsOK, WipType, Rendering, TopInv, NoLanes
    <3> QED BY <3>1, HighestIsOne
  <2> HIDE DEF lane
  <2>3. marked \in RootType /\ SameNode(marked, root[r])
    BY <1>3, <2>2, MarkedType, NodeStays
  <2> HIDE DEF marked
  <2> DEFINE mt == [marked EXCEPT !.workLanes = left]
  <2>4. mt \in RootType /\ SameNode(mt, marked)
    BY <1>3, <2>1, <2>3, NodeStays DEF RootType
  <2>5. root' = [root EXCEPT ![r] = MarkRootUpdated(mt, lane)]
    BY <2>1
  <2> HIDE DEF mt
  <2>6. SameNode(MarkRootUpdated(mt, lane), mt)
    BY <2>4, NodeStays
  <2>7. SameNode(MarkRootUpdated(mt, lane), root[r])
    BY <2>3, <2>4, <2>6, NodeMore
  <2> QED BY <2>5, <2>7, NodeOfOne
<1>7. CASE DeferHiddenTree
  <2>1. PICK lanes : root' = [root EXCEPT ![r] = [root[r] EXCEPT !.workLanes = lanes]]
    BY <1>2, <1>7 DEF DeferHiddenTree
  <2> QED BY <1>3, <2>1, NodeStays, NodeOfOne
<1> QED
  BY <1>4, <1>5, <1>6, <1>7

LEMMA FinishNodes == ASSUME Inv, FinishSyncRender \/ FinishConcurrentRender PROVE SameNodes(root')
<1>1. /\ ~Idle /\ Top \in FrameType /\ Top.root \in Roots /\ root \in [Roots -> RootType]
      /\ wip \in WipType
  BY InvParts, TopHasRoot, StackTop
     DEF FinishSyncRender, FinishConcurrentRender, Rendered, Performing, RootsOK
<1>2. PICK r \in Roots : r = Top.root
  BY <1>1
<1> DEFINE lanes == Top.lanes
           finished == Finished(root[r], lanes)
           suspended == SuspendLanes(finished, lanes, wip)
           delayed == DelayFallback(suspended, lanes)
           waits == [suspended EXCEPT !.timeoutHandle = ~IncludesOnlyTransitions(lanes)]
<1>3. root[r] \in RootType /\ lanes \in SUBSET Lane
  BY <1>1 DEF FrameType
<1>4. \/ root' = [root EXCEPT ![r] = finished] \/ root' = [root EXCEPT ![r] = suspended]
      \/ root' = [root EXCEPT ![r] = delayed] \/ root' = [root EXCEPT ![r] = waits]
  BY <1>2 DEF FinishSyncRender, FinishConcurrentRender
<1> HIDE DEF lanes
<1>5. finished \in RootType /\ SameNode(finished, root[r])
  BY <1>3, NodeStays DEF Finished, RootType
<1> HIDE DEF finished
<1>6. suspended \in RootType /\ SameNode(suspended, root[r])
  <2>1. suspended \in RootType
    BY <1>1, <1>3, <1>5, SuspendLanesWork
  <2>2. SameNode(suspended, finished)
    BY <1>5, NodeStays
  <2> QED BY <1>5, <2>1, <2>2, NodeMore
<1> HIDE DEF suspended
<1>7. SameNode(waits, root[r])
  BY <1>6, NodeStays, NodeMore
<1>8. SameNode(delayed, suspended)
  BY <1>6, NodeStays DEF DelayFallback
<1>9. SameNode(delayed, root[r])
  BY <1>6, <1>8, NodeMore
<1> HIDE DEF waits, delayed
<1> QED
  BY <1>4, <1>5, <1>6, <1>7, <1>9, NodeOfOne

LEMMA NodesKept == ASSUME TaskInv, SameNodes(root'), UNCHANGED tasks PROVE TasksKept
<1>1. NodesOf(root')
  BY NodesSame DEF TaskInv
<1> QED
  BY <1>1 DEF TasksKept, SameNodes, SameNode

(* The commit of a root leaves it without a task.                          *)
LEMMA CommitNodes == ASSUME Inv, TaskInv, CommitMutationEffects PROVE TasksKept
<1>1. Top.root \in Roots /\ root \in [Roots -> RootType] /\ tasks' = tasks
  BY InvParts, TopHasRoot DEF CommitMutationEffects, At, RootsOK
<1>2. PICK r \in Roots : r = Top.root
  BY <1>1
<1>3. root'[r].callbackPriority = NoLane /\ \A q \in Roots : q # r => root'[q] = root[q]
  BY <1>2, CommitStep
<1>4. root'[r].callbackNode = NoNode
  <2> DEFINE st == Scheduled(root[r], NoNode, NoLane)
             mt == MarkRootFinished(st, root[r].workLanes)
             ct == [mt EXCEPT !.finishedWork = FALSE, !.finishedLanes = NoLanes,
                              !.currentLanes = root[r].workLanes, !.workLanes = NoLanes,
                              !.thrown = {}]
  <2>1. root'[r] = ct
    BY <1>1, <1>2 DEF CommitMutationEffects, RemainingLanes
  <2>2. st \in RootType /\ root[r].workLanes \in SUBSET Lane /\ st.callbackNode = NoNode
    <3>1. root[r] \in RootType
      BY <1>1
    <3>2. st \in RootType /\ root[r].workLanes \in SUBSET Lane
      BY <3>1, ScheduledWork DEF RootType
    <3> QED BY <3>1, <3>2 DEF Scheduled, RootType
  <2> HIDE DEF st
  <2>3. mt \in RootType /\ mt.callbackNode = NoNode
    <3>1. mt \in RootType
      BY <2>2, FinishedLanesWork
    <3> QED BY <2>2, <3>1 DEF MarkRootFinished, RootType
  <2> HIDE DEF mt
  <2> QED BY <2>1, <2>3 DEF RootType
<1>5. NodesOf(root')
  BY <1>3, <1>4 DEF TaskInv, NodesOf
<1> QED
  BY <1>1, <1>3, <1>4, <1>5 DEF TasksKept, TaskOf

-----------------------------------------------------------------------------
(* Every step keeps TaskInv.                                               *)

LEMMA IdleTasks == ASSUME Idle, TaskInv, TasksKept PROVE TaskInv'
  BY TaskStep DEF TasksKept, RunsTask

LEMMA StackStaysTasks == ASSUME TaskInv, TasksKept, UNCHANGED stack PROVE TaskInv'
<1>1. \A r \in Roots : root'[r].callbackNode = root[r].callbackNode /\ RunsTask(r) => RunsTask(r)'
  BY DEF RunsTask, Idle
<1> QED
  BY <1>1, TaskStep DEF TasksKept, HasTask

(* The task that runs goes on running.                                     *)
SameRunner(f, g) == f.proc = g.proc /\ f.root = g.root /\ f.task = g.task /\ f.node = g.node

RunnerGoes ==
    \/ Top.proc # "performConcurrentWorkOnRoot"
    \/ Len(stack) <= Len(stack') /\ SameRunner(stack'[Len(stack)], Top)

LEMMA RunnerStays ==
    ASSUME ~Idle, BelowKept, RunnerGoes, NEW r, RunsTask(r),
           root'[r].callbackNode = root[r].callbackNode
    PROVE  RunsTask(r)'
<1>1. PICK n \in Nat \ {0} : n = Len(stack)
  BY DEF BelowKept
<1>2. Len(stack') \in Nat /\ Len(stack') # 0 /\ SameRunner(stack'[1], stack[1])
  <2>1. CASE n = 1
    <3>1. Top = stack[1] /\ Top.proc = "performConcurrentWorkOnRoot"
      BY <1>1, <2>1 DEF Top, RunsTask
    <3>2. 1 <= Len(stack') /\ SameRunner(stack'[1], Top) /\ Len(stack') \in Nat
      BY <1>1, <2>1, <3>1 DEF RunnerGoes, BelowKept
    <3> QED BY <3>1, <3>2
  <2>2. CASE n # 1
    <3>1. 1 \in 1..(n - 1)
      BY <2>2
    <3>2. stack'[1] = stack[1] /\ n - 1 <= Len(stack') /\ Len(stack') \in Nat
      BY <1>1, <3>1 DEF BelowKept
    <3> QED BY <2>2, <3>2 DEF SameRunner
  <2> QED BY <2>1, <2>2
<1>3. ~Idle'
  BY <1>2 DEF Idle
<1> QED
  BY <1>2, <1>3 DEF RunsTask, SameRunner

LEMMA RunnerTasks == ASSUME ~Idle, TaskInv, TasksKept, BelowKept, RunnerGoes PROVE TaskInv'
  BY RunnerStays, TaskStep DEF TasksKept, HasTask

(* A function goes on or calls another.                                    *)
LEMMA GoesOnTasks ==
    ASSUME Inv, ~Idle, TaskInv, TasksKept,
           \/ \E pc : Goto(pc)
           \/ \E proc, r, pc : Call(proc, r, pc)
    PROVE  TaskInv'
<1>1. StackOK(stack) /\ Top \in FrameType
  BY InvParts, StackTop
<1>2. PICK n \in Nat \ {0} : n = Len(stack)
  BY <1>1, StackTop
<1>3. ASSUME NEW pc, \/ Goto(pc)
                    \/ \E proc, r : Call(proc, r, pc)
      PROVE  TaskInv'
  <2>1. PICK f : f = [Top EXCEPT !.pc = pc]
    OBVIOUS
  <2>2. SameRunner(f, Top)
    BY <1>1, <2>1 DEF FrameType, SameRunner
  <2>3. CASE Goto(pc)
    <3>1. Len(stack') = n /\ stack'[n] = f
      BY <1>1, <1>2, <2>1, <2>3, ContinueShape DEF Goto
    <3>2. BelowKept /\ RunnerGoes
      BY <1>1, <1>2, <2>2, <2>3, <3>1, KeptBelow DEF RunnerGoes
    <3> QED BY <3>2, RunnerTasks
  <2>4. ASSUME NEW proc, NEW r, Call(proc, r, pc) PROVE TaskInv'
    <3>1. Len(stack') = n + 1 /\ stack'[n] = f
      BY <1>1, <1>2, <2>1, <2>4, CallShape
    <3>2. BelowKept /\ RunnerGoes
      BY <1>1, <1>2, <2>2, <2>4, <3>1, KeptBelow DEF RunnerGoes
    <3> QED BY <3>2, RunnerTasks
  <2> QED BY <1>3, <2>3, <2>4
<1> QED
  BY <1>3

LEMMA ContinueTasks ==
    ASSUME Inv, ~Idle, TaskInv, TasksKept, NEW f, Continue(f), SameRunner(f, Top)
    PROVE  TaskInv'
<1>1. StackOK(stack)
  BY InvParts
<1>2. Len(stack) \in Nat /\ Len(stack') = Len(stack) /\ stack'[Len(stack)] = f
  BY <1>1, ContinueShape
<1>3. BelowKept /\ RunnerGoes
  BY <1>1, <1>2, KeptBelow DEF RunnerGoes
<1> QED
  BY <1>3, RunnerTasks

(* One that does not run a task may return.                                *)
LEMMA OtherTasks ==
    ASSUME Inv, ~Idle, TaskInv, TasksKept, Top.proc # "performConcurrentWorkOnRoot",
           Return \/ \E f : Continue(f)
    PROVE  TaskInv'
<1>1. BelowKept
  BY InvParts, KeptBelow
<1> QED
  BY <1>1, RunnerTasks DEF RunnerGoes

LEMMA StaysTasks ==
    ASSUME Inv, LanesInv, TaskInv,
           \/ \E r \in Roots : Update(r) \/ EffectUpdates(r)
           \/ EffectThrows \/ EffectUpdateThrows \/ UpdateThrows
           \/ \E w \in Wakeables : Resolve(w) \/ Suspend(w)
           \/ \E l \in listeners : Notify(l)
           \/ FallbackCompletes \/ ComponentThrows \/ RenderUpdateThrows \/ RenderPhaseUpdate
           \/ DeferHiddenTree
    PROVE  TaskInv'
<1>1. UNCHANGED stack
  BY DEF Update, EffectUpdates, EffectThrows, EffectUpdateThrows, UpdateThrows, Resolve, Suspend,
         Notify, FallbackCompletes, ComponentThrows, RenderUpdateThrows, RenderPhaseUpdate,
         DeferHiddenTree
<1>2. CASE \E r \in Roots : Update(r)
  BY <1>1, <1>2, UserUpdateEnsures, EnsuringKeeps, StackStaysTasks, RootSchedulerAssumption
     DEF Update
<1>3. CASE (\E r \in Roots : EffectUpdates(r)) \/ EffectThrows \/ EffectUpdateThrows
  BY <1>1, <1>3, EffectsEnsure, EnsuringKeeps, StackStaysTasks
<1>4. CASE \E l \in listeners : Notify(l)
  BY <1>1, <1>4, NotifyEnsures, EnsuringKeeps, StackStaysTasks
<1>5. CASE UpdateThrows \/ ComponentThrows \/ RenderUpdateThrows \/ \E w \in Wakeables : Resolve(w)
  <2>1. root' = root /\ tasks' = tasks
    BY <1>5 DEF UpdateThrows, ComponentThrows, RenderUpdateThrows, Resolve
  <2>2. SameNodes(root')
    BY <2>1 DEF SameNodes, SameNode
  <2> QED BY <1>1, <2>1, <2>2, NodesKept, StackStaysTasks
<1>6. CASE (\E w \in Wakeables : Suspend(w)) \/ FallbackCompletes \/ RenderPhaseUpdate
           \/ DeferHiddenTree
  <2>1. tasks' = tasks
    BY <1>6 DEF Suspend, FallbackCompletes, RenderPhaseUpdate, DeferHiddenTree
  <2> QED BY <1>1, <1>6, <2>1, RenderNodes, NodesKept, StackStaysTasks
<1> QED
  BY <1>2, <1>3, <1>4, <1>5, <1>6

-----------------------------------------------------------------------------
(* What the host starts.                                                   *)

LEMMA SameTasks == ASSUME Inv, TaskInv, UNCHANGED <<root, tasks>> PROVE TasksKept
  BY NodesKept DEF SameNodes, SameNode

LEMMA StartsTasks ==
    ASSUME Inv, LanesInv, TaskInv,
           \/ \E r \in Roots : FlushSync(r) \/ TimeoutFires(r)
           \/ RunMicrotask \/ RunPassiveTask \/ RunFlushTask
    PROVE  TaskInv'
<1>1. ASSUME NEW r \in Roots, FlushSync(r) PROVE TaskInv'
  <2>1. Idle /\ ScheduleUpdateOnFiber(r, SyncLane) /\ SyncLane \in Lane
    BY <1>1, RootSchedulerAssumption DEF FlushSync
  <2> QED BY <2>1, ScheduleUpdateEnsures, EnsuringKeeps, IdleTasks
<1>2. ASSUME NEW r \in Roots, TimeoutFires(r) PROVE TaskInv'
  <2>1. /\ Idle /\ root' = [root EXCEPT ![r] = [root[r] EXCEPT !.timeoutHandle = FALSE]]
        /\ UNCHANGED tasks
    BY <1>2 DEF TimeoutFires
  <2>2. root[r] \in RootType
    BY InvParts DEF RootsOK
  <2>3. SameNodes(root')
    BY <2>1, <2>2, NodeStays, NodeOfOne
  <2> QED BY <2>1, <2>3, NodesKept, IdleTasks
<1>3. CASE RunMicrotask \/ RunPassiveTask \/ RunFlushTask
  <2>1. Idle /\ UNCHANGED <<root, tasks>>
    BY <1>3 DEF RunMicrotask, RunPassiveTask, RunFlushTask
  <2> QED BY <2>1, SameTasks, IdleTasks
<1> QED
  BY <1>1, <1>2, <1>3

LEMMA RunTaskTasks == ASSUME Inv, TaskInv, NEW t \in tasks, RunTask(t) PROVE TaskInv'
<1> DEFINE f == [Frame("performConcurrentWorkOnRoot", "begin", t.root)
                    EXCEPT !.task = t.id, !.node = root[t.root].callbackNode]
<1>1. Idle /\ root' = root /\ tasks' = tasks \ {t} /\ stack' = <<f>>
  BY DEF RunTask, Start
<1>2. /\ f.proc = "performConcurrentWorkOnRoot" /\ f.root = t.root /\ f.task = t.id
      /\ f.node = root[t.root].callbackNode
  BY DEF Frame
<1> HIDE DEF f
<1>3. stack'[1] = f /\ ~Idle'
  BY <1>1, StartShape
<1>4. ASSUME NEW r \in Roots, root[r].callbackNode # NoNode PROVE HasTask(r)'
  <2>1. TaskOf(r) \in tasks /\ TaskOf(r)' = TaskOf(r)
    BY <1>1, <1>4 DEF TaskInv, HasTask, RunsTask, TaskOf
  <2>2. CASE TaskOf(r) # t
    BY <1>1, <2>1, <2>2 DEF HasTask
  <2>3. CASE TaskOf(r) = t
    <3>1. t.root = r /\ t.id = root[r].callbackNode
      BY <2>3 DEF TaskOf
    <3> QED BY <1>1, <1>2, <1>3, <3>1 DEF HasTask, RunsTask
  <2> QED BY <2>2, <2>3
<1> QED
  BY <1>1, <1>4 DEF TaskInv, NodesOf

-----------------------------------------------------------------------------
(* What goes on or returns while a task runs.                              *)

LEMMA ElsewhereTasks ==
    ASSUME Inv, TaskInv,
           \/ BeginFlush \/ NextSyncCallback
           \/ BeginPassiveEffects \/ EndPassiveEffects \/ ReturnFromPassiveEffects
           \/ BeginPerform \/ FlushBeforeCommit \/ NothingToCommit
           \/ FlushDiscreteEffects \/ CountNestedUpdate \/ ReturnFromCommit
           \/ Yield \/ RenderCompletes
    PROVE  TaskInv'
<1>1. ~Idle /\ UNCHANGED <<root, tasks>>
  BY DEF BeginFlush, NextSyncCallback, BeginPassiveEffects, EndPassiveEffects,
         ReturnFromPassiveEffects, BeginPerform, FlushBeforeCommit, NothingToCommit,
         FlushDiscreteEffects, CountNestedUpdate, ReturnFromCommit, Yield, RenderCompletes,
         CompleteTree, Rendering, Performing, At
<1>2. CASE BeginFlush \/ NextSyncCallback
  <2>1. (\E pc : Goto(pc)) \/ (\E proc, r, pc : Call(proc, r, pc))
        \/ (Return /\ Top.proc # "performConcurrentWorkOnRoot")
    BY <1>2 DEF BeginFlush, NextSyncCallback, At
  <2> QED BY <1>1, <2>1, SameTasks, GoesOnTasks, OtherTasks
<1>3. CASE BeginPassiveEffects \/ ReturnFromPassiveEffects \/ NothingToCommit \/ ReturnFromCommit
  <2>1. (Return \/ \E f : Continue(f)) /\ Top.proc # "performConcurrentWorkOnRoot"
    BY <1>3 DEF BeginPassiveEffects, ReturnFromPassiveEffects, NothingToCommit, ReturnFromCommit, At
  <2> QED BY <1>1, <2>1, SameTasks, OtherTasks
<1>4. CASE \/ EndPassiveEffects \/ BeginPerform \/ FlushBeforeCommit \/ FlushDiscreteEffects
           \/ CountNestedUpdate \/ Yield \/ RenderCompletes
  <2>1. (\E pc : Goto(pc)) \/ (\E proc, r, pc : Call(proc, r, pc))
    BY <1>4 DEF EndPassiveEffects, BeginPerform, FlushBeforeCommit, FlushDiscreteEffects,
                CountNestedUpdate, Yield, RenderCompletes, CompleteTree
  <2> QED BY <1>1, <2>1, SameTasks, GoesOnTasks
<1> QED
  BY <1>2, <1>3, <1>4

LEMMA RenderRootTasks ==
    ASSUME Inv, TaskInv, ~Idle, NEW frame \in FrameType, SameRunner(frame, Top), NEW lanes,
           RenderRoot(frame, lanes), UNCHANGED tasks
    PROVE  TaskInv'
<1>1. TasksKept
  BY RenderRootNodes, NodesKept
<1>2. PICK f : f = [frame EXCEPT !.pc = "render", !.lanes = lanes]
  OBVIOUS
<1>3. SameRunner(f, Top) /\ Continue(f)
  BY <1>2 DEF SameRunner, FrameType, RenderRoot
<1> QED
  BY <1>1, <1>3, ContinueTasks

LEMMA RenderAgainTasks ==
    ASSUME Inv, TaskInv, RecoverFromConcurrentError \/ RenderIsInconsistent PROVE TaskInv'
<1>1. ~Idle /\ Top \in FrameType /\ UNCHANGED tasks
  BY InvParts, StackTop
     DEF RecoverFromConcurrentError, RenderIsInconsistent, Rendered, Errored, Performing
<1>2. PICK frame \in FrameType : SameRunner(frame, Top) /\ \E lanes : RenderRoot(frame, lanes)
  <2>1. CASE RenderIsInconsistent
    <3>1. PICK f \in FrameType :
            f = [Top EXCEPT !.sync = TRUE, !.checked = TRUE, !.recovering = FALSE]
      BY <1>1 DEF FrameType
    <3>2. SameRunner(f, Top)
      BY <1>1, <3>1 DEF FrameType, SameRunner
    <3>3. RenderRoot(f, Top.lanes)
      BY <2>1, <3>1 DEF RenderIsInconsistent
    <3> QED BY <3>2, <3>3
  <2>2. CASE RecoverFromConcurrentError
    <3>1. PICK f \in FrameType : f = [Top EXCEPT !.sync = TRUE, !.recovering = TRUE]
      BY <1>1 DEF FrameType
    <3>2. SameRunner(f, Top) /\ SameRunner(Top, Top)
      BY <1>1, <3>1 DEF FrameType, SameRunner
    <3>3. RenderRoot(f, ErrorLanes) \/ RenderRoot(Top, Top.lanes)
      BY <2>2, <3>1 DEF RecoverFromConcurrentError
    <3> QED BY <1>1, <3>2, <3>3
  <2> QED BY <2>1, <2>2
<1> QED
  BY <1>1, <1>2, RenderRootTasks

LEMMA ChooseLanesSyncTasks == ASSUME Inv, LanesInv, TaskInv, ChooseLanesSync PROVE TaskInv'
<1>1. /\ ~Idle /\ Top.proc = "performSyncWorkOnRoot" /\ Top \in FrameType /\ Top.root \in Roots
  BY InvParts, StackTop, TopHasRoot DEF ChooseLanesSync, At, Procs
<1>2. PICK r \in Roots : r = Top.root
  BY <1>1
<1>3. PICK f \in FrameType : f = [Top EXCEPT !.sync = TRUE]
  BY <1>1 DEF FrameType
<1>4. SameRunner(f, Top)
  BY <1>1, <1>3 DEF FrameType, SameRunner
<1>5. \/ RenderRoot(f, NextLanes(root[r], NoLanes)) /\ UNCHANGED tasks
      \/ EnsureRootIsScheduled(r, root, WipLanes(r)) /\ Return
  BY <1>2, <1>3 DEF ChooseLanesSync
<1>6. CASE RenderRoot(f, NextLanes(root[r], NoLanes)) /\ UNCHANGED tasks
  BY <1>1, <1>4, <1>6, RenderRootTasks
<1>7. CASE EnsureRootIsScheduled(r, root, WipLanes(r)) /\ Return
  <2>1. TasksKept
    BY <1>7, WipLanesType, EnsuringSelf, EnsuringKeeps
  <2> QED BY <1>1, <1>7, <2>1, OtherTasks
<1> QED
  BY <1>5, <1>6, <1>7

(* A task ends: its root does not need it, or it is put back.              *)
LEMMA TaskEnds ==
    ASSUME Inv, CallInv, TaskInv, ~Idle, Top.proc = "performConcurrentWorkOnRoot",
           root' = root, tasks \subseteq tasks', NEW r \in Roots, r = Top.root,
           RunsTask(r) /\ root[r].callbackNode # NoNode => TaskOf(r) \in tasks'
    PROVE  TaskInv'
<1>1. stack[1].root = r
  <2>1. Len(stack) = 1
    BY InvParts, ConcurrentIsFirst
  <2> QED BY <2>1 DEF Top
<1>2. ASSUME NEW q \in Roots, root[q].callbackNode # NoNode PROVE HasTask(q)'
  <2>1. TaskOf(q) \in tasks'
    BY <1>1, <1>2 DEF TaskInv, HasTask, RunsTask
  <2>2. TaskOf(q)' = TaskOf(q)
    BY DEF TaskOf
  <2> QED BY <2>1, <2>2 DEF HasTask
<1> QED
  BY <1>2 DEF TaskInv, NodesOf

LEMMA ChooseLanesConcurrentTasks ==
    ASSUME Inv, CallInv, FitLanes, TaskInv, ChooseLanesConcurrent PROVE TaskInv'
<1>1. /\ ~Idle /\ Top.proc = "performConcurrentWorkOnRoot" /\ Top.pc = "choose"
      /\ Top \in FrameType /\ Top.root \in Roots /\ UNCHANGED tasks
  BY InvParts, StackTop, TopHasRoot DEF ChooseLanesConcurrent, At, Procs
<1>2. PICK r \in Roots : r = Top.root
  BY <1>1
<1>3. ASSUME NEW sync \in BOOLEAN, NEW lanes, RenderRoot([Top EXCEPT !.sync = sync], lanes)
      PROVE  TaskInv'
  <2>1. PICK f \in FrameType : f = [Top EXCEPT !.sync = sync]
    BY <1>1 DEF FrameType
  <2>2. SameRunner(f, Top)
    BY <1>1, <2>1 DEF FrameType, SameRunner
  <2> QED BY <1>1, <1>3, <2>1, <2>2, RenderRootTasks
<1>4. CASE NextLanes(root[r], WipLanes(r)) = NoLanes /\ root' = root
  <2>1. AllFit
    BY <1>1, FitAll DEF FitLanes, WorksOn
  <2>2. LaneNow(root[r], WipLanes(r)) = NoLane
    BY <1>4, NoLaneHighest DEF LaneNow, NoLanes
  <2>3. root[r].callbackPriority = NoLane
    BY <2>1, <2>2 DEF AllFit, FitsNow, Fits, NoLane, DefaultLane
  <2>4. root[r].callbackNode = NoNode
    BY <2>3 DEF TaskInv, NodesOf
  <2> QED BY <1>1, <1>2, <1>4, <2>4, TaskEnds
<1> QED
  BY <1>2, <1>3, <1>4 DEF ChooseLanesConcurrent

LEMMA CompareNodeTasks == ASSUME Inv, CallInv, TaskInv, CompareNode PROVE TaskInv'
<1>1. ~Idle /\ Top.root \in Roots /\ root' = root /\ tasks' = tasks
  BY InvParts, TopHasRoot DEF CompareNode, Performing
<1>2. PICK r \in Roots : r = Top.root
  BY <1>1
<1>3. CASE Goto("choose")
  BY <1>1, <1>3, SameTasks, GoesOnTasks
<1>4. CASE Return /\ root[r].callbackNode # Top.node
  <2>1. CASE Top.proc = "performConcurrentWorkOnRoot"
    <3>1. ~RunsTask(r)
      <4>1. Len(stack) = 1
        BY <1>1, <2>1, InvParts, ConcurrentIsFirst
      <4> QED BY <1>4, <4>1 DEF RunsTask, Top
    <3> QED BY <1>1, <1>2, <2>1, <3>1, TaskEnds
  <2>2. CASE Top.proc # "performConcurrentWorkOnRoot"
    BY <1>1, <1>4, <2>2, SameTasks, OtherTasks
  <2> QED BY <2>1, <2>2
<1> QED
  BY <1>2, <1>3, <1>4 DEF CompareNode

LEMMA ReturnFromPerformTasks == ASSUME Inv, CallInv, TaskInv, ReturnFromPerform PROVE TaskInv'
<1>1. ~Idle /\ Top.root \in Roots /\ root' = root /\ Return /\ tasks \subseteq tasks'
  BY InvParts, TopHasRoot DEF ReturnFromPerform, Performing
<1>2. PICK r \in Roots : r = Top.root
  BY <1>1
<1>3. CASE Top.proc = "performConcurrentWorkOnRoot"
  <2>1. ASSUME RunsTask(r) PROVE TaskOf(r) \in tasks'
    <3>1. Top = stack[1]
      <4>1. Len(stack) = 1
        BY <1>1, <1>3, InvParts, ConcurrentIsFirst
      <4> QED BY <4>1 DEF Top
    <3>2. Top.node = root[r].callbackNode /\ Top.task = root[r].callbackNode
      BY <2>1, <3>1 DEF RunsTask
    <3> QED BY <1>2, <1>3, <3>2 DEF ReturnFromPerform, GoesOn, TaskOf
  <2> QED BY <1>1, <1>2, <1>3, <2>1, TaskEnds
<1>4. CASE Top.proc # "performConcurrentWorkOnRoot"
  <2>1. UNCHANGED tasks
    BY <1>4 DEF ReturnFromPerform, GoesOn
  <2> QED BY <1>1, <1>4, <2>1, SameTasks, OtherTasks
<1> QED
  BY <1>3, <1>4

LEMMA FinishTasks ==
    ASSUME Inv, TaskInv, FinishSyncRender \/ FinishConcurrentRender PROVE TaskInv'
<1>1. /\ ~Idle /\ UNCHANGED tasks
      /\ (\E pc : Goto(pc)) \/ (\E proc, r, pc : Call(proc, r, pc))
  BY DEF FinishSyncRender, FinishConcurrentRender, Rendered, Performing
<1> QED
  BY <1>1, FinishNodes, NodesKept, GoesOnTasks

LEMMA ExitTasks == ASSUME Inv, LanesInv, TaskInv, ExitPerform \/ EndCommit PROVE TaskInv'
<1>1. ~Idle /\ Top.root \in Roots /\ \E pc : Goto(pc)
  BY InvParts, TopHasRoot DEF ExitPerform, EndCommit, Performing, At
<1>2. PICK r \in Roots : r = Top.root
  BY <1>1
<1>3. EnsureRootIsScheduled(r, root, WipLanes(r))
  BY <1>2 DEF ExitPerform, EndCommit
<1>4. TasksKept
  BY <1>3, WipLanesType, EnsuringSelf, EnsuringKeeps
<1> QED
  BY <1>1, <1>4, GoesOnTasks

LEMMA CommitTasks == ASSUME Inv, TaskInv, CommitMutationEffects PROVE TaskInv'
<1>1. ~Idle /\ Top.proc # "performConcurrentWorkOnRoot" /\ \E f : Continue(f)
  BY DEF CommitMutationEffects, At
<1> QED
  BY <1>1, CommitNodes, OtherTasks

-----------------------------------------------------------------------------
LEMMA InitTasks == Init => TaskInv
<1> SUFFICES ASSUME Init PROVE TaskInv
  OBVIOUS
<1>1. \A r \in Roots : root[r].callbackNode = NoNode /\ root[r].callbackPriority = NoLane
  BY DEF Init, NewRoot
<1> QED
  BY <1>1 DEF TaskInv, NodesOf

(* With no errors no task is lost.                                         *)
LEMMA NextTasks ==
    ASSUME ~CanError, Inv, CallInv, FitLanes, WakeInv, TaskInv, [Next]_vars PROVE TaskInv'
<1>1. LanesInv
  BY DEF FitLanes
<1>2. CASE UserCode
  BY <1>1, <1>2, StaysTasks, StartsTasks, RenderAgainTasks
     DEF UserCode, RenderFails, ThrowUncaughtError
<1>3. CASE Host
  BY <1>1, <1>3, StaysTasks, StartsTasks, RunTaskTasks DEF Host
<1>4. CASE React
  <2>1. ~ThrowFatalError
    BY DEF ThrowFatalError, WakeInv, NoFatal
  <2> QED
    BY <1>1, <1>4, <2>1, StaysTasks, ElsewhereTasks, CompareNodeTasks, ChooseLanesSyncTasks,
       ChooseLanesConcurrentTasks, RenderAgainTasks, FinishTasks, ExitTasks,
       ReturnFromPerformTasks, CommitTasks
       DEF React
<1>5. CASE Quiescent \/ UNCHANGED vars
  <2>1. UNCHANGED <<stack, root, tasks>>
    BY <1>5 DEF Quiescent, vars
  <2> QED BY <2>1, SameTasks, StackStaysTasks
<1> QED
  BY <1>2, <1>3, <1>4, <1>5 DEF Next

(* getNextLanes finds unblocked work, if there is any.                     *)
LEMMA UnblockedNext ==
    ASSUME NEW rt \in RootType, LanesOf(rt), HasUnblockedWork(rt), NEW w \in SUBSET Lane
    PROVE  LaneNow(rt, w) \in Lane
<1>1. Workable(rt) \in SUBSET Lane
  BY WorkableLanes
<1>2. Workable(rt) # {}
  <2>1. PICK lane \in rt.pendingLanes :
          /\ lane \notin rt.suspendedLanes \/ lane \in rt.pingedLanes
          /\ lane \in NonIdleLanes \/ rt.pendingLanes \cap NonIdleLanes = {}
    BY DEF HasUnblockedWork, NoLanes
  <2>2. CASE rt.pendingLanes \cap NonIdleLanes = {}
    BY <2>1, <2>2 DEF Workable, OrElse, NoLanes
  <2>3. CASE lane \in NonIdleLanes
    BY <2>1, <2>3 DEF Workable, OrElse, NoLanes
  <2> QED BY <2>1, <2>2, <2>3
<1>3. HighestPriorityLane(Workable(rt)) \in Lane
  BY <1>1, <1>2, HighestIsOne
<1>4. w # {} => HighestPriorityLane(w) \in Lane
  BY HighestIsOne
<1>5. DoNotInterrupt(rt, w, HighestPriorityLanes(Workable(rt))) => w # {}
  BY DEF DoNotInterrupt, NoLanes
<1> QED
  BY <1>3, <1>4, <1>5, NextLanesChoice

(* Nothing runs between host tasks, so the task of a root that has to be   *)
(* rendered is in the scheduler.                                           *)
LEMMA TaskInvScheduled == ASSUME SyncInv, TaskInv PROVE RootScheduled
<1> SUFFICES ASSUME Idle, NEW r \in Roots, HasUnblockedWork(root[r])
             PROVE  \/ root[r].callbackPriority = SyncLane /\ IsQueued(r)
                    \/ TaskOf(r) \in tasks
  BY DEF RootScheduled, TaskOf
<1>1. root[r] \in RootType /\ LanesOf(root[r]) /\ WipLanes(r) \in SUBSET Lane
  BY InvParts, WipLanesType DEF SyncInv, RootsOK, FitLanes, LanesInv
<1>2. LaneNow(root[r], WipLanes(r)) \in Lane
  BY <1>1, UnblockedNext
<1>3. FitsNow(r)
  BY FitAll DEF SyncInv, AllFit, FitLanes
<1>4. root[r].callbackPriority \in Lane
  BY <1>2, <1>3 DEF FitsNow, Fits, TransitionLanes
<1>5. root[r].callbackPriority # NoLane
  BY <1>4, LaneInts DEF NoLane
<1>6. CASE root[r].callbackPriority = SyncLane
  BY <1>6, SyncInvScheduled DEF SyncWorkScheduled
<1>7. CASE root[r].callbackPriority # SyncLane
  BY <1>5, <1>7 DEF TaskInv, NodesOf, HasTask, RunsTask
<1> QED
  BY <1>6, <1>7

(* If components throw no errors then, between host tasks, every root that *)
(* has work that nothing blocks is in the sync queue or has a task in the  *)
(* scheduler: no render that is interrupted, yields, is left to a newer    *)
(* task or ends with more to do leaves its root without one                *)
(* (ensureRootIsScheduled, performConcurrentWorkOnRoot, commitRootImpl).   *)
(* An error that could not be handled ends the task it is thrown in.       *)
THEOREM RootIsScheduled ==
    ASSUME ~CanError
    PROVE  Spec => []RootScheduled
<1> DEFINE All == SyncInv /\ WakeInv /\ TaskInv
<1>1. Init => All
  BY InitInv, InitCalls, InitFits, InitQueue, InitWakes, InitTasks DEF SyncInv
<1>2. All /\ [Next]_vars => All'
  <2> SUFFICES ASSUME All, [Next]_vars PROVE All'
    OBVIOUS
  <2>1. Inv' /\ CallInv'
    BY NextKeeps, NextCalls DEF SyncInv, FitLanes
  <2>2. FitLanes'
    BY <2>1, NextFits DEF SyncInv
  <2>3. QueueInv'
    BY <2>1, <2>2, NextQueue DEF SyncInv
  <2>4. WakeInv' /\ TaskInv'
    BY NextWakes, NextTasks DEF SyncInv
  <2> QED BY <2>1, <2>2, <2>3, <2>4 DEF SyncInv
<1>3. All => RootScheduled
  BY TaskInvScheduled
<1> HIDE DEF All
<1> QED
  BY <1>1, <1>2, <1>3, PTL DEF Spec
=============================================================================
