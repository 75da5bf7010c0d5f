------------------------------ MODULE FizzProofs ------------------------------
(*****************************************************************************)
(* Proofs about Fizz, for every number of segments, boundaries and retries,  *)
(* whether components throw and the user aborts or not: rendering, flushing, *)
(* and what follows from the invariant.                                      *)
(*****************************************************************************)
EXTENDS FizzInvariant

-----------------------------------------------------------------------------
(* Rendering.                                                              *)
LEMMA RenderFlow ==
    ASSUME Inv, running # NoTask, calls' = << >>, UNCHANGED <<flowing, requestStatus, ended>>
    PROVE  FlowState'
<1>1. ended # "closed"
  BY ClosedState
<1>2. DOMAIN calls' = {}
  BY EmptyCalls
<1>3. flowing => requestStatus = "OPEN" \/ ended # "no"
  BY DEF Inv, FlowState
<1>4. Quiet(calls)'
  BY <1>2 DEF Quiet
<1> QED BY <1>1, <1>3, <1>4, FlowQuiet

IsOpened(b) == \E i \in DOMAIN opened : opened[i] = b

LEMMA RunningTask ==
    ASSUME Inv, Rendering
    PROVE  /\ running \in Segments /\ running \in Live /\ segment[running].task
           /\ segment[running].status = "PENDING" /\ running <= segments /\ calls = << >>
           /\ segment[running].blockedBoundary \in BoundaryIds
           /\ segment[running].blockedBoundary <= boundaries
           /\ segment[running].abortSet \in BoundaryIds
           /\ segment[running].abortSet <= boundaries
           /\ suspense[segment[running].blockedBoundary].pendingTasks # 0
           /\ segment[RootSegment].status = "FLUSHED" => segment[running].blockedBoundary # Root
<1>0. TypeOK
  BY DEF Inv
<1>1. running # NoTask /\ calls = << >>
  BY DEF Rendering
<1>2. running \in Live
  BY <1>1 DEF Inv, RunState
<1>3. running \in Segments /\ segment[running].task /\ segment[running].status = "PENDING"
  BY <1>2 DEF Live
<1>4. running <= segments
  BY <1>0, <1>3, TaskIsMade
<1>5. /\ segment[running].blockedBoundary \in BoundaryIds
      /\ segment[running].abortSet \in BoundaryIds
  BY <1>0, <1>3, InvTypes DEF BoundaryIds
<1>6. segment[running].blockedBoundary <= boundaries /\ segment[running].abortSet <= boundaries
  BY <1>3 DEF Inv, SegmentTree
<1>7. /\ suspense[segment[running].blockedBoundary].pendingTasks \in Nat
      /\ suspense[segment[running].blockedBoundary].pendingTasks - 1 \in Nat
  BY <1>2, EndPending
<1>8. segment[RootSegment].status = "FLUSHED" => segment[running].blockedBoundary # Root
  BY <1>2, EndPending
<1>9. suspense[segment[running].blockedBoundary].pendingTasks # 0
  BY <1>7
<1> QED BY <1>1, <1>2, <1>3, <1>4, <1>5, <1>6, <1>8, <1>9

(* Where the node is that is rendered.                                     *)
LEMMA CurrentNode ==
    ASSUME Inv, Rendering
    PROVE  /\ CurrentSegment \in Segments /\ CurrentSegment <= segments
           /\ CurrentBoundary \in BoundaryIds /\ CurrentBoundary <= boundaries
           /\ CurrentBoundary # Root =>
                 /\ suspense[CurrentBoundary].fallback \in Segments
                 /\ suspense[CurrentBoundary].fallback <= segments
           /\ CurrentBoundary \in Boundaries =>
                 IsOpened(CurrentBoundary) \/ suspense[CurrentBoundary].pendingTasks # 0
           /\ segment[RootSegment].status = "FLUSHED" => CurrentBoundary # Root
           /\ opened # << >> => CurrentBoundary = opened[Len(opened)] /\ CurrentBoundary # Root
           /\ opened = << >> => CurrentBoundary = segment[running].blockedBoundary
           /\ \A place \in Places : PlaceOf(place) =>
                 /\ Before(place.rank, segment[running].abortSet, CurrentBoundary)
                 /\ place.reg[CurrentSegment] = CurrentBoundary
                 /\ segment[running].abortSet = IF segment[CurrentSegment].boundary # NoBoundary
                                                THEN segment[CurrentSegment].boundary
                                                ELSE place.home[CurrentSegment]
<1>0. TypeOK
  BY DEF Inv
<1> DEFINE a == segment[running].abortSet
           cs == CurrentSegment
           cb == CurrentBoundary
<1>1. /\ running \in Segments /\ segment[running].task /\ running <= segments
      /\ segment[running].blockedBoundary \in BoundaryIds
      /\ segment[running].blockedBoundary <= boundaries
      /\ a \in BoundaryIds /\ a <= boundaries
      /\ suspense[segment[running].blockedBoundary].pendingTasks # 0
      /\ segment[RootSegment].status = "FLUSHED" => segment[running].blockedBoundary # Root
  BY RunningTask
<1>2. CASE opened = << >>
  <2>1. cs = running /\ cb = segment[running].blockedBoundary
    BY <1>2 DEF CurrentSegment, CurrentBoundary
  <2> HIDE DEF cs, cb
  <2>2. cb # Root => suspense[cb].fallback \in Segments /\ suspense[cb].fallback <= segments
    <3> SUFFICES ASSUME cb # Root PROVE suspense[cb].fallback \in Segments /\ suspense[cb].fallback <= segments
      OBVIOUS
    <3>1. cb \in Boundaries
      BY <1>1, <2>1 DEF BoundaryIds
    <3>2. /\ suspense[cb].fallback \in Segments /\ suspense[cb].content \in Segments
          /\ suspense[cb].content = suspense[cb].fallback + 1 /\ suspense[cb].content <= segments
      BY <1>1, <2>1, <3>1 DEF Inv, BoundaryTree
    <3>3. segments \in Nat /\ suspense[cb].fallback \in Nat
      BY <1>0, <3>2, InvTypes
    <3> QED BY <3>2, <3>3
  <2>3. ASSUME NEW place \in Places, PlaceOf(place)
        PROVE  /\ Before(place.rank, a, cb) /\ place.reg[cs] = cb
               /\ a = IF segment[cs].boundary # NoBoundary THEN segment[cs].boundary
                                                           ELSE place.home[cs]
    <3>1. place.reg[cs] = cb
      BY <1>1, <2>1, <2>3 DEF PlaceOf
    <3>2. Before(place.rank, a, cb)
      BY <1>1, <2>1, <2>3, RankOfTask DEF Before
    <3>3. segment[cs].boundary # NoBoundary => a = segment[cs].boundary
      BY <1>1, <2>1 DEF Inv, SegmentTree
    <3>4. segment[cs].boundary = NoBoundary => a = place.home[cs]
      BY <1>1, <2>1, <2>3 DEF PlaceOf
    <3> QED BY <3>1, <3>2, <3>3, <3>4
  <2> QED BY <1>1, <1>2, <2>1, <2>2, <2>3 DEF cs, cb
<1>3. CASE opened # << >>
  <2> DEFINE n == Len(opened)
             o == opened[n]
  <2>1. n \in DOMAIN opened /\ Last(opened) = o /\ o \in Boundaries
    <3>1. opened \in Seq(Boundaries)
      BY <1>0, ControlTypes
    <3>2. n \in Nat /\ DOMAIN opened = 1..n /\ n # 0
      BY <1>3, <3>1, LenProperties, EmptySeq
    <3>3. n \in DOMAIN opened
      BY <3>2
    <3>4. Last(opened) = opened[Len(opened)]
      BY DEF Last
    <3>5. opened[n] \in Boundaries
      BY <3>1, <3>3, ElementOfSeq
    <3> QED BY <3>3, <3>4, <3>5
  <2>2. cb = o /\ cs = suspense[o].content
    BY <1>3, <2>1 DEF CurrentSegment, CurrentBoundary
  <2>3. o <= boundaries
    BY <2>1 DEF Inv, OpenState
  <2>4. /\ suspense[o].fallback \in Segments /\ suspense[o].content \in Segments
        /\ suspense[o].content = suspense[o].fallback + 1 /\ suspense[o].content <= segments
        /\ segment[suspense[o].content].boundary = NoBoundary
    BY <2>1, <2>3 DEF Inv, BoundaryTree
  <2>5. suspense[o].fallback <= segments
    <3>1. segments \in Nat /\ suspense[o].fallback \in Nat
      BY <1>0, <2>4, InvTypes
    <3> QED BY <2>4, <3>1
  <2>6. o # Root /\ o \in BoundaryIds /\ IsOpened(o)
    <3>1. o # Root
      BY <1>0, <2>1, InvTypes
    <3> QED BY <2>1, <3>1 DEF BoundaryIds, IsOpened
  <2> HIDE DEF n
  <2>7. ASSUME NEW place \in Places, PlaceOf(place)
        PROVE  /\ Before(place.rank, a, o) /\ place.reg[cs] = o
               /\ a = place.home[cs] /\ segment[cs].boundary = NoBoundary
    <3>1. place.home[suspense[opened[n]].content] = segment[running].abortSet
      BY <2>1, <2>7 DEF PlaceOf
    <3>2. place.reg[suspense[o].content] = o
      BY <2>1, <2>3, <2>7 DEF PlaceOf
    <3>3. Before(place.rank, place.home[cs], place.reg[cs])
      BY <2>2, <2>4, <2>7 DEF PlaceOf
    <3> QED BY <2>2, <2>4, <3>1, <3>2, <3>3
  <2> QED BY <1>3, <2>2, <2>3, <2>4, <2>5, <2>6, <2>7 DEF n
<1> QED BY <1>2, <1>3

(* The tree grows by segments and boundaries that are being rendered.      *)
Grown ==
    /\ segments <= segments' /\ boundaries <= boundaries'
    /\ \A s \in Segments : s <= segments => segment'[s] = segment[s]
    /\ \A s \in Segments : s > segments =>
          /\ segment'[s].status = "PENDING"
          /\ segment'[s].task \/ segment'[s].boundary # NoBoundary => ~segment'[s].parentFlushed
          /\ segment'[s].boundary # NoBoundary => segment'[s].boundary > boundaries
    /\ \A b \in BoundaryIds : b <= boundaries =>
          /\ suspense'[b].forceClientRender = suspense[b].forceClientRender
          /\ suspense'[b].parentFlushed = suspense[b].parentFlushed
          /\ suspense'[b].completedSegments = suspense[b].completedSegments
          /\ suspense'[b].outer = suspense[b].outer
          /\ suspense'[b].fallback = suspense[b].fallback
          /\ suspense'[b].content = suspense[b].content
          /\ ~IsOpened(b) => (suspense'[b].pendingTasks = 0 <=> suspense[b].pendingTasks = 0)
    /\ \A b \in Boundaries : b > boundaries =>
          /\ ~suspense'[b].parentFlushed /\ ~suspense'[b].forceClientRender
          /\ suspense'[b].completedSegments = << >>
          /\ b <= boundaries' => \E i \in DOMAIN opened' : opened'[i] = b
    /\ \A i \in DOMAIN opened' : opened'[i] > boundaries \/ IsOpened(opened'[i])
    /\ \A b : IsOpened(b) => \E i \in DOMAIN opened' : opened'[i] = b
    /\ segment[RootSegment].status = "FLUSHED" =>
          (suspense'[Root].pendingTasks = 0 <=> suspense[Root].pendingTasks = 0)

(* What is known of segments and boundaries that are not there yet.        *)
LEMMA NotThere ==
    ASSUME Inv
    PROVE  /\ \A s \in Segments : s > segments =>
                 /\ segment[s] = NewSegment
                 /\ segment[s].status = "PENDING" /\ ~segment[s].task
                 /\ segment[s].boundary = NoBoundary /\ segment[s].parent = NoSegment
                 /\ ~segment[s].parentFlushed
           /\ \A b \in Boundaries : b > boundaries =>
                 /\ suspense[b] = NewBoundary
                 /\ client[b] = "none" /\ ~IsOpened(b)
                 /\ suspense[b].pendingTasks = 0 /\ ~suspense[b].forceClientRender
                 /\ suspense[b].fallbackAbortableTasks = {}
           /\ \A b \in Boundaries : b <= boundaries =>
                 /\ suspense[b].fallback \in Segments /\ suspense[b].fallback <= segments
                 /\ suspense[b].content \in Segments /\ suspense[b].content <= segments
           /\ RootSegment <= segments
<1>0. TypeOK
  BY DEF Inv
<1>1. ASSUME NEW s \in Segments, s > segments
      PROVE  /\ segment[s] = NewSegment
             /\ segment[s].status = "PENDING" /\ ~segment[s].task
             /\ segment[s].boundary = NoBoundary /\ segment[s].parent = NoSegment
             /\ ~segment[s].parentFlushed
  <2>1. segment[s] = NewSegment
    BY <1>1 DEF Inv, SegmentTree
  <2> QED BY <2>1 DEF NewSegment
<1>2. ASSUME NEW b \in Boundaries, b > boundaries
      PROVE  /\ suspense[b] = NewBoundary
             /\ client[b] = "none" /\ ~IsOpened(b)
             /\ suspense[b].pendingTasks = 0 /\ ~suspense[b].forceClientRender
             /\ suspense[b].fallbackAbortableTasks = {}
  <2>1. suspense[b] = NewBoundary
    BY <1>2 DEF Inv, BoundaryTree
  <2>2. /\ ~suspense[b].parentFlushed /\ suspense[b].pendingTasks = 0
        /\ ~suspense[b].forceClientRender /\ suspense[b].fallbackAbortableTasks = {}
    BY <2>1 DEF NewBoundary
  <2>3. client[b] = "none"
    BY <2>2 DEF Inv, ClientState
  <2>4. ~IsOpened(b)
    <3>1. \A i \in DOMAIN opened : opened[i] <= boundaries
      BY DEF Inv, OpenState
    <3>2. b \in Nat /\ boundaries \in Nat
      BY <1>0, InvTypes
    <3>3. ~(b <= boundaries)
      BY <1>2, <3>2
    <3> QED BY <3>1, <3>3 DEF IsOpened
  <2> QED BY <2>1, <2>2, <2>3, <2>4
<1>3. ASSUME NEW b \in Boundaries, b <= boundaries
      PROVE  /\ suspense[b].fallback \in Segments /\ suspense[b].fallback <= segments
             /\ suspense[b].content \in Segments /\ suspense[b].content <= segments
  <2>1. /\ suspense[b].fallback \in Segments /\ suspense[b].content \in Segments
        /\ suspense[b].content = suspense[b].fallback + 1 /\ suspense[b].content <= segments
    BY <1>3 DEF Inv, BoundaryTree
  <2>2. segments \in Nat /\ suspense[b].fallback \in Nat
    BY <1>0, <2>1, InvTypes
  <2> QED BY <2>1, <2>2
<1>4. RootSegment <= segments
  BY <1>0, InvTypes
<1> QED BY <1>1, <1>2, <1>3, <1>4

LEMMA GrowSets ==
    ASSUME Inv, TypeOK', Grown, client' = client
    PROVE  /\ Complete' = Complete /\ Shown' = Shown /\ Reached' = Reached
           /\ Written' = Written
           /\ \A s \in Reached : s <= segments
           /\ \A home, reg, h, r : ShownState(home, reg)
                 /\ (\A s \in Segments : s <= segments => h[s] = home[s] /\ r[s] = reg[s])
                 => ShownState(h, r)'
<1>0. TypeOK
  BY DEF Inv
<1>a. /\ segments \in Nat /\ boundaries \in Nat /\ segments' \in Nat /\ boundaries' \in Nat
      /\ \A s \in Segments : s \in Nat
      /\ \A b \in BoundaryIds : b \in Nat
  <2>1. /\ segments \in Nat /\ boundaries \in Nat
        /\ Segments \subseteq Nat /\ BoundaryIds \subseteq Nat
    BY <1>0, InvTypes DEF BoundaryIds
  <2>2. segments' \in Segments /\ boundaries' \in BoundaryIds
    BY TypeOK' DEF TypeOK, BoundaryIds
  <2> QED BY <2>1, <2>2
<1>1. Complete' = Complete
  <2>1. ASSUME NEW b \in Boundaries PROVE b \in Complete' <=> b \in Complete
    <3>1. CASE b > boundaries
      <4>1. b \notin Complete
        BY <1>a, <2>1, <3>1 DEF Complete, BoundaryIds
      <4>2. b <= boundaries' => \E i \in DOMAIN opened' : opened'[i] = b
        BY <3>1 DEF Grown
      <4>3. b \notin Complete'
        BY <4>2 DEF Complete
      <4> QED BY <4>1, <4>3
    <3>2. CASE b <= boundaries
      <4>0. b \in BoundaryIds
        BY DEF BoundaryIds
      <4>1. /\ suspense'[b].forceClientRender = suspense[b].forceClientRender
            /\ ~IsOpened(b) => (suspense'[b].pendingTasks = 0 <=> suspense[b].pendingTasks = 0)
        BY <3>2, <4>0 DEF Grown
      <4>2. IsOpened(b) <=> \E i \in DOMAIN opened' : opened'[i] = b
        <5>1. IsOpened(b) => \E i \in DOMAIN opened' : opened'[i] = b
          BY DEF Grown
        <5>2. ASSUME NEW i \in DOMAIN opened', opened'[i] = b PROVE IsOpened(b)
          <6>1. ~(opened'[i] > boundaries)
            BY <1>a, <3>2, <4>0, <5>2
          <6> QED BY <5>2, <6>1 DEF Grown
        <5> QED BY <5>1, <5>2
      <4>3. b <= boundaries'
        <5>1. boundaries <= boundaries'
          BY DEF Grown
        <5> QED BY <1>a, <3>2, <4>0, <5>1
      <4> QED BY <3>2, <4>1, <4>2, <4>3 DEF Complete, IsOpened
    <3> QED BY <1>a, <3>1, <3>2 DEF BoundaryIds
  <2> QED BY <2>1 DEF Complete
<1>2. Shown' = Shown
  BY DEF Shown
<1>3. ASSUME NEW s \in Segments, s > segments
      PROVE  s \notin Reached /\ s \notin Reached'
  <2>1. s \notin Reached
    BY <1>3, NotThere DEF Reached
  <2>2. /\ segment'[s].task \/ segment'[s].boundary # NoBoundary => ~segment'[s].parentFlushed
        /\ segment'[s].boundary # NoBoundary => segment'[s].boundary > boundaries
    BY <1>3 DEF Grown
  <2>3. segment'[s].boundary # NoBoundary => segment'[s].boundary \in Boundaries
    BY TypeOK' DEF TypeOK
  <2>4. segment'[s].boundary # NoBoundary => segment'[s].boundary \notin Shown'
    <3> SUFFICES ASSUME segment'[s].boundary # NoBoundary
                 PROVE  segment'[s].boundary \notin Shown'
      OBVIOUS
    <3>1. client[segment'[s].boundary] = "none"
      BY <2>2, <2>3, NotThere
    <3>2. segment'[s].boundary # Root
      BY <1>0, <2>3, InvTypes
    <3> QED BY <3>1, <3>2 DEF Shown
  <2> QED BY <2>1, <2>2, <2>4 DEF Reached
<1>4. ASSUME NEW s \in Segments, s <= segments
      PROVE  /\ segment'[s] = segment[s]
             /\ s \in Reached' <=> s \in Reached
  <2>1. segment'[s] = segment[s]
    BY <1>4 DEF Grown
  <2> QED BY <1>2, <2>1 DEF Reached
<1>5. \A s \in Segments : s > segments \/ s <= segments
  BY <1>a
<1>6. Reached' = Reached
  <2>1. Reached \subseteq Segments /\ Reached' \subseteq Segments
    BY DEF Reached
  <2>2. \A s \in Segments : s \in Reached' <=> s \in Reached
    BY <1>3, <1>4, <1>5
  <2> QED BY <2>1, <2>2
<1>7. \A s \in Reached : s <= segments
  BY <1>3, <1>5 DEF Reached
<1>8. Written' = Written
  <2>1. ASSUME NEW s \in Segments PROVE s \in Written' <=> s \in Written
    <3>1. CASE s <= segments
      <4>1. segment'[s] = segment[s]
        BY <3>1, <1>4
      <4> QED BY <4>1 DEF Written
    <3>2. CASE s > segments
      <4>1. segment'[s].status = "PENDING"
        BY <3>2 DEF Grown
      <4>2. segment[s].status = "PENDING"
        BY <3>2, NotThere
      <4> QED BY <4>1, <4>2 DEF Written
    <3> QED BY <1>5, <3>1, <3>2
  <2> QED BY <2>1 DEF Written
<1>9. ASSUME NEW home, NEW reg, NEW h, NEW r, ShownState(home, reg),
             \A s \in Segments : s <= segments => h[s] = home[s] /\ r[s] = reg[s]
      PROVE  ShownState(h, r)'
  <2>1. ASSUME NEW s \in Segments, s \in Reached PROVE h[s] \in Shown /\ r[s] \in Shown
    BY <1>7, <1>9, <2>1 DEF ShownState
  <2>2. ASSUME NEW s \in Segments, segment'[s].boundary # NoBoundary, segment'[s].parentFlushed
        PROVE  s \in Reached
    <3>1. ~(s > segments)
      BY <2>2 DEF Grown
    <3>2. segment'[s] = segment[s]
      BY <1>4, <1>5, <3>1
    <3> QED BY <1>9, <2>2, <3>2 DEF ShownState
  <2>3. ASSUME NEW s \in Segments, segment'[s].boundary # NoBoundary, s \in Reached
        PROVE  segment'[segment'[s].parent].status = "FLUSHED"
    <3>1. s <= segments /\ segment'[s] = segment[s]
      BY <1>4, <1>7, <2>3
    <3>2. segment[segment[s].parent].status = "FLUSHED"
      BY <1>9, <2>3, <3>1 DEF ShownState
    <3>3. segment[s].parent \in Segments /\ segment[s].parent < s
      <4>1. segment[s].parent # NoSegment /\ segment[s].parent < s
        BY <2>3, <3>1 DEF Inv, SegmentTree
      <4> QED BY <1>0, <4>1, InvTypes
    <3>4. segment[s].parent <= segments
      BY <1>a, <3>1, <3>3
    <3> QED BY <1>4, <3>1, <3>2, <3>3, <3>4
  <2> QED BY <1>2, <1>6, <2>1, <2>2, <2>3 DEF ShownState
<1> QED BY <1>1, <1>2, <1>6, <1>7, <1>8, <1>9

LEMMA GrowStates ==
    ASSUME Inv, TypeOK', Grown, UNCHANGED <<client, wrappers, queueVars, requestStatus>>
    PROVE  ClientState' /\ QueuedOnce' /\ RootState' /\ ReadyState' /\ OverState'
<1>0. TypeOK
  BY DEF Inv
<1>a. /\ segments \in Nat /\ boundaries \in Nat
      /\ \A s \in Segments : s \in Nat
      /\ \A b \in BoundaryIds : b \in Nat
      /\ Boundaries \subseteq BoundaryIds /\ Root \in BoundaryIds
  BY <1>0, InvTypes DEF BoundaryIds
<1>b. \A s \in Segments : s > segments \/ s <= segments
  BY <1>a
<1>c. \A b \in Boundaries : b > boundaries \/ b <= boundaries
  BY <1>a
<1>d. UNCHANGED <<clientRenderedBoundaries, completedBoundaries, partialBoundaries>>
  BY DEF queueVars
<1>1. Complete' = Complete /\ Written' = Written
  BY GrowSets
<1>2. \A s \in Segments : s <= segments => segment'[s] = segment[s]
  BY DEF Grown
<1>3. \A b \in Boundaries : b <= boundaries =>
          /\ suspense'[b].forceClientRender = suspense[b].forceClientRender
          /\ suspense'[b].parentFlushed = suspense[b].parentFlushed
          /\ suspense'[b].completedSegments = suspense[b].completedSegments
          /\ suspense'[b].fallback = suspense[b].fallback
          /\ suspense'[b].content = suspense[b].content
  BY <1>a DEF Grown
<1>4. \A b \in Boundaries : b > boundaries =>
          /\ ~suspense'[b].parentFlushed /\ client[b] = "none"
          /\ ~suspense[b].forceClientRender /\ ~suspense'[b].forceClientRender
          /\ suspense'[b].completedSegments = << >>
  BY NotThere DEF Grown
<1>5. ClientState'
  <2>1. ASSUME NEW b \in Boundaries
        PROVE  /\ client'[b] # "none" <=> suspense'[b].parentFlushed
               /\ client'[b] = "client" => suspense'[b].forceClientRender
               /\ client'[b] = "completed" => b \in Complete'
    <3>1. CASE b > boundaries
      BY <1>4, <3>1
    <3>2. CASE b <= boundaries
      <4>1. /\ client[b] # "none" <=> suspense[b].parentFlushed
            /\ client[b] = "client" => suspense[b].forceClientRender
            /\ client[b] = "completed" => b \in Complete
        BY DEF Inv, ClientState
      <4> QED BY <1>1, <1>3, <3>2, <4>1
    <3> QED BY <1>c, <3>1, <3>2
  <2>2. ASSUME NEW b \in ToSet(clientRenderedBoundaries)
        PROVE  suspense'[b].forceClientRender /\ client[b] # "none"
    <3>1. suspense[b].forceClientRender /\ client[b] # "none"
      BY DEF Inv, ClientState
    <3>2. b \in Boundaries
      BY <1>0 DEF TypeOK, ToSet
    <3> QED BY <1>3, <1>4, <1>c, <3>1, <3>2
  <2> QED BY <1>1, <1>d, <2>1, <2>2 DEF Inv, ClientState
<1>6. QueuedOnce'
  <2> SUFFICES ASSUME NEW b \in Boundaries
        PROVE  /\ Count(clientRenderedBoundaries, b) =
                    IF client[b] = "pending" /\ suspense'[b].forceClientRender THEN 1 ELSE 0
               /\ \/ Count(completedBoundaries, b) =
                        IF client[b] = "pending" /\ ~suspense'[b].forceClientRender
                             /\ suspense'[b].pendingTasks = 0 THEN 1 ELSE 0
                  \/ Count(completedBoundaries, b) = 1 /\ ShownTwice(b)'
    BY <1>d DEF QueuedOnce
  <2>1. /\ Count(clientRenderedBoundaries, b) =
             IF client[b] = "pending" /\ suspense[b].forceClientRender THEN 1 ELSE 0
        /\ \/ Count(completedBoundaries, b) =
                 IF client[b] = "pending" /\ ~suspense[b].forceClientRender
                      /\ suspense[b].pendingTasks = 0 THEN 1 ELSE 0
           \/ Count(completedBoundaries, b) = 1 /\ ShownTwice(b)
    BY DEF Inv, QueuedOnce
  <2>2. CASE b > boundaries
    <3>1. client[b] = "none" /\ ~ShownTwice(b)
      BY <1>4, <2>2 DEF ShownTwice
    <3> QED BY <2>1, <3>1
  <2>3. CASE b <= boundaries
    <3>1. ShownTwice(b)' <=> ShownTwice(b)
      <4>1. segment'[suspense[b].fallback] = segment[suspense[b].fallback]
        BY <1>2, <2>3, NotThere
      <4> QED BY <1>3, <2>3, <4>1 DEF ShownTwice
    <3>2. client[b] = "pending" => ~IsOpened(b)
      BY DEF Inv, OpenState, IsOpened
    <3>3. client[b] = "pending" => (suspense'[b].pendingTasks = 0 <=> suspense[b].pendingTasks = 0)
      BY <1>a, <2>3, <3>2 DEF Grown
    <3>4. suspense'[b].forceClientRender = suspense[b].forceClientRender
      BY <1>3, <2>3
    <3> HIDE DEF ShownTwice
    <3>5. CASE client[b] = "pending"
      BY <2>1, <3>1, <3>3, <3>4, <3>5
    <3>6. CASE client[b] # "pending"
      BY <2>1, <3>1, <3>6
    <3> QED BY <3>5, <3>6
  <2> QED BY <1>c, <2>2, <2>3
<1>7. RootState'
  <2>1. segment'[RootSegment] = segment[RootSegment]
    BY <1>0, <1>2, NotThere, InvTypes
  <2>2. suspense'[Root].completedSegments = suspense[Root].completedSegments
    BY <1>a, <1>0, InvTypes DEF Grown
  <2>3. segment[RootSegment].status = "FLUSHED" => suspense'[Root].pendingTasks = 0
    BY DEF Inv, RootState, Grown
  <2>4. ASSUME segment[RootSegment].status # "FLUSHED", NEW s \in Segments \ {RootSegment},
               segment'[s].task
        PROVE  ~segment'[s].parentFlushed
    <3>1. CASE s > segments
      BY <2>4, <3>1 DEF Grown
    <3>2. CASE s <= segments
      BY <1>2, <2>4, <3>2 DEF Inv, RootState
    <3> QED BY <1>b, <3>1, <3>2
  <2> QED BY <2>1, <2>2, <2>3, <2>4 DEF Inv, RootState
<1>8. ReadyState'
  <2> SUFFICES ASSUME NEW b \in Boundaries, b <= boundaries'
        PROVE  /\ \A s \in ToSet(suspense'[b].completedSegments) :
                     /\ s > suspense'[b].fallback /\ s <= segments'
                     /\ segment'[s].status \in {"COMPLETED", "FLUSHED"}
                     /\ \/ s = suspense'[b].content
                        \/ /\ segment'[s].task /\ segment'[s].blockedBoundary = b
                           /\ segment'[s].parentFlushed /\ segment'[s].id # NoID
               /\ (\A i \in DOMAIN opened' : opened'[i] # b) /\ ~suspense'[b].forceClientRender =>
                     \/ suspense'[b].content \in ToSet(suspense'[b].completedSegments)
                     \/ segment'[suspense'[b].content].status = "FLUSHED"
               /\ client'[b] = "completed" =>
                     \A s \in ToSet(suspense'[b].completedSegments) : s \in Written'
    BY DEF ReadyState
  <2>1. CASE b > boundaries
    <3>1. suspense'[b].completedSegments = << >> /\ client'[b] = "none"
      BY <1>4, <2>1
    <3>2. ToSet(<< >>) = {}
      BY DEF ToSet
    <3>3. \E i \in DOMAIN opened' : opened'[i] = b
      BY <2>1 DEF Grown
    <3> QED BY <3>1, <3>2, <3>3
  <2>2. CASE b <= boundaries
    <3>1. /\ \A s \in ToSet(suspense[b].completedSegments) :
                 /\ s > suspense[b].fallback /\ s <= segments
                 /\ segment[s].status \in {"COMPLETED", "FLUSHED"}
                 /\ \/ s = suspense[b].content
                    \/ /\ segment[s].task /\ segment[s].blockedBoundary = b
                       /\ segment[s].parentFlushed /\ segment[s].id # NoID
          /\ (\A i \in DOMAIN opened : opened[i] # b) /\ ~suspense[b].forceClientRender =>
                 \/ suspense[b].content \in ToSet(suspense[b].completedSegments)
                 \/ segment[suspense[b].content].status = "FLUSHED"
          /\ client[b] = "completed" =>
                 \A s \in ToSet(suspense[b].completedSegments) : s \in Written
      BY <2>2 DEF Inv, ReadyState
    <3>2. ASSUME NEW s \in ToSet(suspense[b].completedSegments)
          PROVE  s <= segments' /\ s \in Segments /\ segment'[s] = segment[s]
      <4>1. s \in Segments
        <5>1. suspense[b].completedSegments \in Seq(Segments)
          BY <1>0, <1>a, InvTypes
        <5> QED BY <5>1 DEF ToSet
      <4>2. segments <= segments' /\ segments' \in Nat
        <5>1. segments' \in Segments
          BY TypeOK' DEF TypeOK
        <5> QED BY <1>a, <5>1 DEF Grown
      <4>3. s <= segments'
        BY <1>a, <3>1, <4>1, <4>2
      <4> QED BY <1>2, <3>1, <4>1, <4>3
    <3>3. (\A i \in DOMAIN opened' : opened'[i] # b) => \A i \in DOMAIN opened : opened[i] # b
      BY DEF Grown, IsOpened
    <3>4. segment'[suspense[b].content] = segment[suspense[b].content]
      BY <1>2, <2>2, NotThere
    <3>5. /\ suspense'[b].forceClientRender = suspense[b].forceClientRender
          /\ suspense'[b].completedSegments = suspense[b].completedSegments
          /\ suspense'[b].fallback = suspense[b].fallback
          /\ suspense'[b].content = suspense[b].content
      BY <1>3, <2>2
    <3> QED BY <1>1, <3>1, <3>2, <3>3, <3>4, <3>5
  <2> QED BY <1>c, <2>1, <2>2
<1>9. OverState'
  <2> SUFFICES ASSUME NEW s \in Segments, segment'[s].task
        PROVE  LET b == segment'[s].blockedBoundary
                   a == segment'[s].abortSet
               IN
               /\ segment'[s].parentFlushed /\ s # RootSegment =>
                     segment'[s].id # NoID \/ segment'[s].status = "FLUSHED"
               /\ segment'[s].status = "ABORTED" =>
                     \/ requestStatus # "OPEN"
                     \/ b # Root /\ suspense'[b].forceClientRender
                     \/ a \in Complete'
               /\ segment'[s].status = "ERRORED" =>
                     \/ requestStatus # "OPEN"
                     \/ b # Root /\ suspense'[b].forceClientRender
               /\ segment'[s].status = "COMPLETED" /\ segment'[s].parentFlushed =>
                     \/ b = Root /\ s = RootSegment
                     \/ /\ b # Root
                        /\ \/ suspense'[b].forceClientRender
                           \/ s \in ToSet(suspense'[b].completedSegments)
                           \/ s \in Written'
    BY DEF OverState
  <2>1. CASE s > segments
    <3>1. segment'[s].status = "PENDING" /\ ~segment'[s].parentFlushed
      BY <2>1 DEF Grown
    <3> QED BY <3>1
  <2>2. CASE s <= segments
    <3>1. segment'[s] = segment[s]
      BY <1>2, <2>2
    <3> DEFINE b == segment[s].blockedBoundary
    <3>2. b # Root => /\ suspense'[b].forceClientRender = suspense[b].forceClientRender
                      /\ suspense'[b].completedSegments = suspense[b].completedSegments
      <4> SUFFICES ASSUME b # Root
                   PROVE  /\ suspense'[b].forceClientRender = suspense[b].forceClientRender
                          /\ suspense'[b].completedSegments = suspense[b].completedSegments
        OBVIOUS
      <4>1. b \in Boundaries
        BY <1>0, InvTypes
      <4>2. b <= boundaries
        BY DEF Inv, SegmentTree
      <4> QED BY <1>3, <4>1, <4>2
    <3>3. LET a == segment[s].abortSet
          IN
          /\ segment[s].parentFlushed /\ s # RootSegment =>
                segment[s].id # NoID \/ segment[s].status = "FLUSHED"
          /\ segment[s].status = "ABORTED" =>
                \/ requestStatus # "OPEN"
                \/ b # Root /\ suspense[b].forceClientRender
                \/ a \in Complete
          /\ segment[s].status = "ERRORED" =>
                \/ requestStatus # "OPEN"
                \/ b # Root /\ suspense[b].forceClientRender
          /\ segment[s].status = "COMPLETED" /\ segment[s].parentFlushed =>
                \/ b = Root /\ s = RootSegment
                \/ /\ b # Root
                   /\ \/ suspense[b].forceClientRender
                      \/ s \in ToSet(suspense[b].completedSegments)
                      \/ s \in Written
      <4>1. segment[s].task
        BY <3>1
      <4> QED BY <4>1 DEF Inv, OverState
    <3> QED BY <1>1, <3>1, <3>2, <3>3
  <2> QED BY <1>b, <2>1, <2>2
<1> QED BY <1>5, <1>6, <1>7, <1>8, <1>9

(* A task is added to those that boundary b waits for, and to a set.       *)
TaskAdded(p, b, set, s) ==
    \A x \in BoundaryIds :
        /\ p[x].pendingTasks = suspense[x].pendingTasks + IF x = b THEN 1 ELSE 0
        /\ p[x].fallbackAbortableTasks =
              suspense[x].fallbackAbortableTasks \cup IF x = set THEN {s} ELSE {}
        /\ p[x].forceClientRender = suspense[x].forceClientRender
        /\ p[x].parentFlushed = suspense[x].parentFlushed
        /\ p[x].completedSegments = suspense[x].completedSegments
        /\ p[x].outer = suspense[x].outer /\ p[x].fallback = suspense[x].fallback
        /\ p[x].content = suspense[x].content
        /\ p[x].rootSegmentID = suspense[x].rootSegmentID

LEMMA AddTask ==
    ASSUME TypeOK, NEW b \in BoundaryIds, NEW set \in BoundaryIds, NEW s \in Segments,
           NEW p, p = WithTask(b, set, s)
    PROVE  p \in [BoundaryIds -> BoundaryRecord] /\ TaskAdded(p, b, set, s)
<1> DEFINE q == [suspense EXCEPT ![b].pendingTasks = @ + 1]
<1>1. suspense \in [BoundaryIds -> BoundaryRecord]
  BY ControlTypes DEF BoundaryIds
<1>2. suspense[b].pendingTasks + 1 \in Nat
  BY <1>1 DEF BoundaryRecord
<1>3. /\ q \in [BoundaryIds -> BoundaryRecord]
      /\ \A x \in BoundaryIds : x # b => q[x] = suspense[x]
      /\ q[b] = [suspense[b] EXCEPT !.pendingTasks = suspense[b].pendingTasks + 1]
  BY <1>1, <1>2 DEF BoundaryRecord
<1>4. \A x \in BoundaryIds :
        /\ q[x].pendingTasks = suspense[x].pendingTasks + IF x = b THEN 1 ELSE 0
        /\ q[x].fallbackAbortableTasks = suspense[x].fallbackAbortableTasks
        /\ q[x].forceClientRender = suspense[x].forceClientRender
        /\ q[x].parentFlushed = suspense[x].parentFlushed
        /\ q[x].completedSegments = suspense[x].completedSegments
        /\ q[x].outer = suspense[x].outer /\ q[x].fallback = suspense[x].fallback
        /\ q[x].content = suspense[x].content
        /\ q[x].rootSegmentID = suspense[x].rootSegmentID
  <2>1. ASSUME NEW x \in BoundaryIds, x = b
        PROVE  /\ q[x].pendingTasks = suspense[x].pendingTasks + 1
               /\ q[x].fallbackAbortableTasks = suspense[x].fallbackAbortableTasks
               /\ q[x].forceClientRender = suspense[x].forceClientRender
               /\ q[x].parentFlushed = suspense[x].parentFlushed
               /\ q[x].completedSegments = suspense[x].completedSegments
               /\ q[x].outer = suspense[x].outer /\ q[x].fallback = suspense[x].fallback
               /\ q[x].content = suspense[x].content
               /\ q[x].rootSegmentID = suspense[x].rootSegmentID
    BY <1>1, <1>3, <2>1 DEF BoundaryRecord
  <2>2. ASSUME NEW x \in BoundaryIds, x # b
        PROVE  q[x] = suspense[x] /\ suspense[x].pendingTasks + 0 = suspense[x].pendingTasks
    <3>1. suspense[x].pendingTasks \in Nat
      BY <1>1 DEF BoundaryRecord
    <3> QED BY <1>3, <2>2, <3>1
  <2> QED BY <2>1, <2>2
<1>5. p = [q EXCEPT ![set].fallbackAbortableTasks = @ \cup {s}]
  BY DEF WithTask
<1> HIDE DEF q
<1>6. q[set].fallbackAbortableTasks \cup {s} \in SUBSET Segments
  BY <1>3 DEF BoundaryRecord
<1>7. /\ p \in [BoundaryIds -> BoundaryRecord]
      /\ \A x \in BoundaryIds : x # set => p[x] = q[x]
      /\ p[set] = [q[set] EXCEPT !.fallbackAbortableTasks = q[set].fallbackAbortableTasks \cup {s}]
  <2> DEFINE r == [q[set] EXCEPT !.fallbackAbortableTasks = q[set].fallbackAbortableTasks \cup {s}]
  <2>1. q[set] \in BoundaryRecord
    BY <1>3
  <2>2. r \in BoundaryRecord
    BY <1>6, <2>1 DEF BoundaryRecord
  <2>3. p = [q EXCEPT ![set] = r]
    BY <1>5
  <2> HIDE DEF r
  <2>4. /\ p \in [BoundaryIds -> BoundaryRecord]
        /\ \A x \in BoundaryIds : x # set => p[x] = q[x]
        /\ p[set] = r
    BY <1>3, <2>2, <2>3
  <2> QED BY <2>4 DEF r
<1>8. /\ p[set].fallbackAbortableTasks = q[set].fallbackAbortableTasks \cup {s}
      /\ p[set].pendingTasks = q[set].pendingTasks
      /\ p[set].forceClientRender = q[set].forceClientRender
      /\ p[set].parentFlushed = q[set].parentFlushed
      /\ p[set].completedSegments = q[set].completedSegments
      /\ p[set].outer = q[set].outer /\ p[set].fallback = q[set].fallback
      /\ p[set].content = q[set].content
      /\ p[set].rootSegmentID = q[set].rootSegmentID
  BY <1>3, <1>7 DEF BoundaryRecord
<1>9. TaskAdded(p, b, set, s)
  <2>1. ASSUME NEW x \in BoundaryIds
        PROVE  /\ p[x].pendingTasks = q[x].pendingTasks
               /\ p[x].fallbackAbortableTasks =
                    q[x].fallbackAbortableTasks \cup IF x = set THEN {s} ELSE {}
               /\ p[x].forceClientRender = q[x].forceClientRender
               /\ p[x].parentFlushed = q[x].parentFlushed
               /\ p[x].completedSegments = q[x].completedSegments
               /\ p[x].outer = q[x].outer /\ p[x].fallback = q[x].fallback
               /\ p[x].content = q[x].content
               /\ p[x].rootSegmentID = q[x].rootSegmentID
    BY <1>7, <1>8
  <2> QED BY <1>4, <2>1 DEF TaskAdded
<1> QED BY <1>7, <1>9

(* There is one task more.                                                 *)
LEMMA AddCounts ==
    ASSUME Inv, TypeOK', calls = << >>, calls' = << >>, NEW s \in Segments, s \notin Live,
           NEW c, Live' = Live \cup {s},
           \A x : BlockedBy(x)' = BlockedBy(x) \cup IF x = c THEN {s} ELSE {},
           allPendingTasks' = allPendingTasks + 1,
           \A x \in BoundaryIds :
              suspense'[x].pendingTasks = suspense[x].pendingTasks + IF x = c THEN 1 ELSE 0,
           requestStatus' = requestStatus,
           segment'[RootSegment].status = segment[RootSegment].status
    PROVE  CountState'
<1>0. TypeOK
  BY DEF Inv
<1>1. /\ allPendingTasks = Cardinality(Live) /\ Count(calls, TD) = 0 /\ Count(calls', TD) = 0
  BY NoCalls, EmptyCalls
<1>2. Cardinality(Live') = Cardinality(Live) + 1 /\ Cardinality(Live) \in Nat
  <2>1. IsFiniteSet(Live) /\ Cardinality(Live) \in Nat
    BY Sets
  <2>2. Cardinality(Live \cup {s}) = Cardinality(Live) + 1
    BY <2>1, FS_AddElement
  <2> QED BY <2>1, <2>2
<1>3. ASSUME NEW x
      PROVE  /\ Cardinality(BlockedBy(x)) \in Nat
             /\ Cardinality(BlockedBy(x)') = Cardinality(BlockedBy(x)) + IF x = c THEN 1 ELSE 0
  <2>1. IsFiniteSet(BlockedBy(x)) /\ Cardinality(BlockedBy(x)) \in Nat
    BY Sets
  <2>2. s \notin BlockedBy(x)
    BY DEF BlockedBy
  <2>3. CASE x = c
    <3>1. BlockedBy(x)' = BlockedBy(x) \cup {s}
      BY <2>3
    <3>2. Cardinality(BlockedBy(x) \cup {s}) = Cardinality(BlockedBy(x)) + 1
      BY <2>1, <2>2, FS_AddElement
    <3> QED BY <2>1, <2>3, <3>1, <3>2
  <2>4. CASE x # c
    <3>1. BlockedBy(x)' = BlockedBy(x)
      BY <2>4
    <3> QED BY <2>1, <2>4, <3>1
  <2> QED BY <2>3, <2>4
<1>4. \A x \in BoundaryIds : suspense[x].pendingTasks \in Nat
  BY <1>0, InvTypes DEF BoundaryIds
<1>5. allPendingTasks' = Cardinality(Live') + Count(calls', TD)
  BY <1>1, <1>2
<1>6. ASSUME NEW b \in Boundaries PROVE suspense'[b].pendingTasks = Cardinality(BlockedBy(b)')
  <2>1. b \in BoundaryIds /\ suspense[b].pendingTasks = Cardinality(BlockedBy(b))
    BY DEF BoundaryIds, Inv, CountState
  <2> QED BY <1>3, <2>1
<1>7. /\ suspense'[Root].pendingTasks >= Cardinality(BlockedBy(Root)')
      /\ requestStatus' = "OPEN" => suspense'[Root].pendingTasks = Cardinality(BlockedBy(Root)')
      /\ segment'[RootSegment].status \in {"ABORTED", "ERRORED"} =>
            suspense'[Root].pendingTasks > Cardinality(BlockedBy(Root)')
  <2>1. /\ suspense[Root].pendingTasks >= Cardinality(BlockedBy(Root))
        /\ requestStatus = "OPEN" => suspense[Root].pendingTasks = Cardinality(BlockedBy(Root))
        /\ segment[RootSegment].status \in {"ABORTED", "ERRORED"} =>
              suspense[Root].pendingTasks > Cardinality(BlockedBy(Root))
    BY DEF Inv, CountState
  <2>2. Root \in BoundaryIds
    BY DEF BoundaryIds
  <2>3. /\ suspense[Root].pendingTasks \in Nat /\ Cardinality(BlockedBy(Root)) \in Nat
        /\ suspense'[Root].pendingTasks = suspense[Root].pendingTasks + IF Root = c THEN 1 ELSE 0
        /\ Cardinality(BlockedBy(Root)') = Cardinality(BlockedBy(Root)) + IF Root = c THEN 1 ELSE 0
    BY <1>3, <1>4, <2>2
  <2>4. CASE Root = c
    BY <2>1, <2>3, <2>4
  <2>5. CASE Root # c
    BY <2>1, <2>3, <2>5
  <2> QED BY <2>4, <2>5
<1> HIDE DEF TD
<1> QED BY <1>5, <1>6, <1>7 DEF CountState, TD

(* The new task is in the set it may be aborted with.                      *)
LEMMA AddedSet ==
    ASSUME Inv, calls = << >>, calls' = << >>, NEW s \in Segments, NEW a \in BoundaryIds,
           \A x \in BoundaryIds : suspense'[x].fallbackAbortableTasks =
              suspense[x].fallbackAbortableTasks \cup IF x = a THEN {s} ELSE {},
           s \in Live', segment'[s].task, segment'[s].abortSet = a,
           \A t \in Live : /\ t \in Live' /\ segment'[t].task
                           /\ segment'[t].abortSet = segment[t].abortSet
    PROVE  SetState'
<1>1. DOMAIN calls = {} /\ DOMAIN calls' = {}
  BY EmptyCalls
<1>2. ASSUME NEW x \in BoundaryIds, NEW t \in suspense'[x].fallbackAbortableTasks
      PROVE  segment'[t].task /\ segment'[t].abortSet = x /\ t \in Live'
  <2>1. CASE t \in suspense[x].fallbackAbortableTasks
    <3>1. segment[t].task /\ segment[t].abortSet = x /\ t \in Live
      BY <1>1, <1>2, <2>1 DEF Inv, SetState, BoundaryIds
    <3> QED BY <3>1
  <2>2. CASE t \notin suspense[x].fallbackAbortableTasks
    <3>1. t = s /\ x = a
      BY <1>2, <2>2
    <3> QED BY <3>1
  <2> QED BY <2>1, <2>2
<1> QED BY <1>1, <1>2 DEF SetState, BoundaryIds

SpawnedSegment(s) ==
    [NewSegment EXCEPT !.parent = CurrentSegment, !.task = TRUE,
                       !.blockedBoundary = CurrentBoundary,
                       !.abortSet = segment[running].abortSet,
                       !.suspended = TRUE]

LEMMA SpawnNewSuspendedTaskStep ==
    ASSUME Inv, SpawnNewSuspendedTask
    PROVE  Inv'
<1> DEFINE n == segments + 1
           cs == CurrentSegment
           cb == CurrentBoundary
           a == segment[running].abortSet
<1>0. TypeOK
  BY DEF Inv
<1>1. /\ Rendering /\ n \in Segments /\ segments' = n
      /\ segment' = [segment EXCEPT ![n] = SpawnedSegment(n)]
      /\ suspense' = WithTask(cb, a, n)
      /\ allPendingTasks' = allPendingTasks + 1 /\ started' = TRUE
      /\ UNCHANGED <<boundaries, pingedTasks, clientRenderedBoundaries, completedBoundaries,
                     partialBoundaries, requestStatus, flowing, ended, client, wrappers, thrown, calls,
                     next, running, opened, retries, scheduled, piped, aborted>>
  BY DEF SpawnNewSuspendedTask, SpawnedSegment, queueVars, outVars, userVars
<1>2. /\ running \in Segments /\ running \in Live /\ segment[running].task
      /\ segment[running].status = "PENDING" /\ running <= segments /\ calls = << >>
      /\ a \in BoundaryIds /\ a <= boundaries
  BY <1>1, RunningTask
<1>3. /\ cs \in Segments /\ cs <= segments
      /\ cb \in BoundaryIds /\ cb <= boundaries
      /\ cb # Root => suspense[cb].fallback \in Segments /\ suspense[cb].fallback <= segments
      /\ cb \in Boundaries => IsOpened(cb) \/ suspense[cb].pendingTasks # 0
      /\ segment[RootSegment].status = "FLUSHED" => cb # Root
      /\ \A place \in Places : PlaceOf(place) =>
            /\ Before(place.rank, a, cb)
            /\ place.reg[cs] = cb
            /\ a = IF segment[cs].boundary # NoBoundary THEN segment[cs].boundary
                                                        ELSE place.home[cs]
  BY <1>1, CurrentNode
<1> HIDE DEF cs, cb, a, n
<1>4. /\ segments \in Nat /\ n \in Nat /\ segments < n /\ boundaries \in Nat
      /\ \A s \in Segments : s \in Nat /\ (s > segments \/ s <= segments)
      /\ \A b \in BoundaryIds : b \in Nat
      /\ n = segments + 1
  BY <1>0, InvTypes DEF n, BoundaryIds
<1>5. segment \in [Segments -> SegmentRecord]
  BY <1>0, ControlTypes
<1>6. /\ SpawnedSegment(n) \in SegmentRecord
      /\ SpawnedSegment(n).status = "PENDING" /\ SpawnedSegment(n).task
      /\ SpawnedSegment(n).parent = cs /\ SpawnedSegment(n).blockedBoundary = cb
      /\ SpawnedSegment(n).abortSet = a /\ SpawnedSegment(n).boundary = NoBoundary
      /\ ~SpawnedSegment(n).parentFlushed
  <2>1. cs \in Segments /\ cb \in BoundaryIds /\ a \in BoundaryIds
    BY <1>2, <1>3
  <2> QED BY <2>1 DEF SpawnedSegment, NewSegment, SegmentRecord, NoID, cs, cb, a, BoundaryIds
<1> HIDE DEF SpawnedSegment
<1>7. /\ segment' \in [Segments -> SegmentRecord]
      /\ segment'[n] = SpawnedSegment(n)
      /\ \A s \in Segments : s # n => segment'[s] = segment[s]
  BY <1>1, <1>5, <1>6
<1>8. suspense' \in [BoundaryIds -> BoundaryRecord] /\ TaskAdded(suspense', cb, a, n)
  <2>1. cb \in BoundaryIds /\ a \in BoundaryIds /\ n \in Segments /\ suspense' = WithTask(cb, a, n)
    BY <1>1, <1>2, <1>3
  <2> QED BY <1>0, <2>1, AddTask
<1>9. TypeOK'
  <2>1. allPendingTasks' \in Nat /\ started' \in BOOLEAN
    BY <1>0, <1>1, ControlTypes
  <2>2. suspense' \in [Boundaries \cup {Root} -> BoundaryRecord]
    BY <1>8 DEF BoundaryIds
  <2> QED BY <1>0, <1>1, <1>7, <2>1, <2>2, ControlTypes, TypeNext
<1>10. \A x \in BoundaryIds :
        /\ suspense'[x].pendingTasks = suspense[x].pendingTasks + IF x = cb THEN 1 ELSE 0
        /\ suspense'[x].fallbackAbortableTasks =
              suspense[x].fallbackAbortableTasks \cup IF x = a THEN {n} ELSE {}
        /\ suspense'[x].forceClientRender = suspense[x].forceClientRender
        /\ suspense'[x].parentFlushed = suspense[x].parentFlushed
        /\ suspense'[x].completedSegments = suspense[x].completedSegments
        /\ suspense'[x].outer = suspense[x].outer /\ suspense'[x].fallback = suspense[x].fallback
        /\ suspense'[x].content = suspense[x].content
        /\ suspense[x].pendingTasks \in Nat
  <2>1. \A x \in BoundaryIds : suspense[x].pendingTasks \in Nat
    BY <1>0, InvTypes DEF BoundaryIds
  <2> QED BY <1>8, <2>1 DEF TaskAdded
<1>11. Grown
  <2>1. segments <= segments' /\ boundaries <= boundaries'
    BY <1>1, <1>4
  <2>2. \A s \in Segments : s <= segments => segment'[s] = segment[s]
    BY <1>4, <1>7
  <2>3. ASSUME NEW s \in Segments, s > segments
        PROVE  /\ segment'[s].status = "PENDING"
               /\ segment'[s].task \/ segment'[s].boundary # NoBoundary => ~segment'[s].parentFlushed
               /\ segment'[s].boundary # NoBoundary => segment'[s].boundary > boundaries
    <3>1. CASE s = n
      BY <1>6, <1>7, <3>1
    <3>2. CASE s # n
      BY <1>7, <2>3, <3>2, NotThere
    <3> QED BY <3>1, <3>2
  <2>4. ASSUME NEW b \in BoundaryIds, ~IsOpened(b)
        PROVE  suspense'[b].pendingTasks = 0 <=> suspense[b].pendingTasks = 0
    <3>1. CASE b = cb
      <4>1. CASE b = Root
        <5>1. segment[RootSegment].status # "FLUSHED"
          BY <1>3, <3>1, <4>1
        <5>2. suspense[Root].pendingTasks # 0
          <6>1. running \in BlockedBy(Root) \/ cb # segment[running].blockedBoundary
            BY <1>2, <3>1, <4>1 DEF BlockedBy
          <6> QED BY <1>1, <1>2, <3>1, <4>1, RunningTask, CurrentNode DEF cb
        <5> QED BY <1>10, <3>1, <4>1, <5>2
      <4>2. CASE b # Root
        <5>1. suspense[b].pendingTasks # 0
          BY <1>3, <2>4, <3>1, <4>2 DEF BoundaryIds
        <5> QED BY <1>10, <3>1, <5>1
      <4> QED BY <4>1, <4>2
    <3>2. CASE b # cb
      BY <1>10, <3>2
    <3> QED BY <3>1, <3>2
  <2>5. ASSUME NEW b \in Boundaries, b > boundaries
        PROVE  /\ ~suspense'[b].parentFlushed /\ ~suspense'[b].forceClientRender
               /\ suspense'[b].completedSegments = << >>
               /\ ~(b <= boundaries')
    <3>1. suspense[b] = NewBoundary
      BY <2>5, NotThere
    <3>2. b \in BoundaryIds
      BY DEF BoundaryIds
    <3>3. ~suspense[b].parentFlushed /\ ~suspense[b].forceClientRender /\ suspense[b].completedSegments = << >>
      BY <3>1 DEF NewBoundary
    <3> QED BY <1>1, <1>4, <1>10, <2>5, <3>2, <3>3
  <2>6. segment[RootSegment].status = "FLUSHED" =>
          (suspense'[Root].pendingTasks = 0 <=> suspense[Root].pendingTasks = 0)
    <3>1. Root \in BoundaryIds
      BY DEF BoundaryIds
    <3> QED BY <1>3, <1>10, <3>1
  <2>7. opened' = opened
    BY <1>1
  <2> QED BY <1>10, <2>1, <2>2, <2>3, <2>4, <2>5, <2>6, <2>7 DEF Grown, IsOpened
<1>12. ClientState' /\ QueuedOnce' /\ RootState' /\ ReadyState' /\ OverState'
  BY <1>1, <1>9, <1>11, GrowStates DEF queueVars
<1>13. Live' = Live \cup {n} /\ n \notin Live
  <2>1. n \notin Live
    BY <1>4, NotThere DEF Live
  <2>2. \A s \in Segments : s # n => (s \in Live' <=> s \in Live)
    BY <1>7 DEF Live
  <2>3. n \in Live'
    BY <1>1, <1>6, <1>7 DEF Live
  <2> QED BY <2>1, <2>2, <2>3 DEF Live
<1>14. \A x : BlockedBy(x)' = BlockedBy(x) \cup IF x = cb THEN {n} ELSE {}
  <2> SUFFICES ASSUME NEW x PROVE BlockedBy(x)' = BlockedBy(x) \cup IF x = cb THEN {n} ELSE {}
    OBVIOUS
  <2>1. \A s \in Live : s # n /\ segment'[s] = segment[s]
    BY <1>7, <1>13 DEF Live
  <2>2. segment'[n].blockedBoundary = cb
    BY <1>6, <1>7
  <2> QED BY <1>13, <2>1, <2>2 DEF BlockedBy
<1>15. CountState'
  <2>1. segment'[RootSegment].status = segment[RootSegment].status
    BY <1>0, <1>4, <1>7, NotThere, InvTypes
  <2>2. \A x \in BoundaryIds :
          suspense'[x].pendingTasks = suspense[x].pendingTasks + IF x = cb THEN 1 ELSE 0
    BY <1>10
  <2>3. calls = << >> /\ calls' = << >> /\ requestStatus' = requestStatus
    BY <1>1, <1>2
  <2> QED BY <1>1, <1>9, <1>13, <1>14, <2>1, <2>2, <2>3, AddCounts
<1>16. SetState'
  <2>1. \A t \in Live : /\ t \in Live' /\ segment'[t].task
                        /\ segment'[t].abortSet = segment[t].abortSet
    <3>1. \A t \in Live : t \in Segments /\ t # n /\ segment[t].task
      BY <1>13 DEF Live
    <3> QED BY <1>7, <1>13, <3>1
  <2>2. n \in Live' /\ segment'[n].task /\ segment'[n].abortSet = a
    BY <1>6, <1>7, <1>13
  <2>3. \A x \in BoundaryIds : suspense'[x].fallbackAbortableTasks =
              suspense[x].fallbackAbortableTasks \cup IF x = a THEN {n} ELSE {}
    BY <1>10
  <2> QED BY <1>1, <1>2, <2>1, <2>2, <2>3, AddedSet
<1>17. FlowState'
  <2>1. calls' = << >> /\ UNCHANGED <<flowing, requestStatus, ended>>
    BY <1>1, <1>2
  <2> QED BY <1>1, <2>1, RenderFlow DEF Rendering
<1>18. SegmentTree'
  <2>1. segment'[RootSegment] = segment[RootSegment]
    BY <1>0, <1>4, <1>7, NotThere, InvTypes
  <2>2. ASSUME NEW s \in Segments
        PROVE  /\ s > segments' => segment'[s] = NewSegment
               /\ segment'[s].parent < s
               /\ segment'[s].boundary <= boundaries'
               /\ segment'[s].blockedBoundary <= boundaries'
               /\ segment'[s].abortSet <= boundaries'
               /\ segment'[s].boundary # NoBoundary =>
                     /\ segment'[s].parent # NoSegment
                     /\ suspense'[segment'[s].boundary].fallback = s
                     /\ segment'[s].task =>
                           /\ segment'[s].abortSet = segment'[s].boundary
                           /\ segment'[s].blockedBoundary = suspense'[segment'[s].boundary].outer
               /\ segment'[s].task /\ segment'[s].blockedBoundary # Root =>
                     suspense'[segment'[s].blockedBoundary].fallback < s
    <3>1. CASE s = n
      <4>1. /\ segment'[s].parent = cs /\ segment'[s].boundary = NoBoundary
            /\ segment'[s].blockedBoundary = cb /\ segment'[s].abortSet = a
        BY <1>6, <1>7, <3>1
      <4>2. cs < n /\ NoBoundary <= boundaries /\ ~(n > segments')
        BY <1>1, <1>3, <1>4, <1>0, InvTypes
      <4>3. cb # Root => suspense'[cb].fallback < n
        <5> SUFFICES ASSUME cb # Root PROVE suspense'[cb].fallback < n
          OBVIOUS
        <5>1. suspense'[cb].fallback = suspense[cb].fallback
          BY <1>3, <1>10
        <5>2. suspense[cb].fallback \in Nat /\ suspense[cb].fallback <= segments
          BY <1>3, <1>4
        <5> QED BY <1>4, <5>1, <5>2
      <4>4. boundaries' = boundaries /\ cb <= boundaries /\ a <= boundaries
        BY <1>1, <1>2, <1>3
      <4> QED BY <3>1, <4>1, <4>2, <4>3, <4>4
    <3>2. CASE s # n
      <4>1. segment'[s] = segment[s] /\ boundaries' = boundaries
        BY <1>1, <1>7, <3>2
      <4>2. segment[s].boundary \in BoundaryIds /\ segment[s].blockedBoundary \in BoundaryIds
        BY <1>0, InvTypes DEF BoundaryIds
      <4>3. \A x \in BoundaryIds : /\ suspense'[x].outer = suspense[x].outer
                                   /\ suspense'[x].fallback = suspense[x].fallback
        BY <1>10
      <4>4. s > segments' => s > segments
        BY <1>1, <1>4
      <4> QED BY <4>1, <4>2, <4>3, <4>4 DEF Inv, SegmentTree
    <3> QED BY <3>1, <3>2
  <2> QED BY <2>1, <2>2 DEF Inv, SegmentTree
<1>19. BoundaryTree'
  <2> SUFFICES ASSUME NEW b \in Boundaries
      PROVE  LET fallback == suspense'[b].fallback
                 content  == suspense'[b].content
                 outer    == suspense'[b].outer
             IN
             /\ b > boundaries' => suspense'[b] = NewBoundary
             /\ b <= boundaries' =>
                   /\ fallback \in Segments /\ content \in Segments
                   /\ content = fallback + 1 /\ content <= segments'
                   /\ segment'[fallback].boundary = b
                   /\ segment'[content].boundary = NoBoundary /\ ~segment'[content].task
                   /\ segment'[content].parent = NoSegment
                   /\ outer < b
                   /\ outer # Root => suspense'[outer].fallback < fallback
    BY DEF BoundaryTree
  <2>1. b \in BoundaryIds /\ boundaries' = boundaries
    BY <1>1 DEF BoundaryIds
  <2>2. CASE b > boundaries
    <3>1. suspense'[b] = suspense[b]
      <4>1. b # cb /\ b # a
        BY <1>2, <1>3, <1>4, <2>1, <2>2
      <4>2. suspense'[b] \in BoundaryRecord /\ suspense[b] \in BoundaryRecord
        BY <1>0, <1>8, <2>1, ControlTypes DEF BoundaryIds
      <4>3. suspense'[b].pendingTasks = suspense[b].pendingTasks
        BY <1>10, <2>1, <4>1
      <4>4. suspense'[b].fallbackAbortableTasks = suspense[b].fallbackAbortableTasks
        BY <1>10, <2>1, <4>1
      <4>5. /\ suspense'[b].forceClientRender = suspense[b].forceClientRender
            /\ suspense'[b].parentFlushed = suspense[b].parentFlushed
            /\ suspense'[b].completedSegments = suspense[b].completedSegments
            /\ suspense'[b].outer = suspense[b].outer
            /\ suspense'[b].fallback = suspense[b].fallback
            /\ suspense'[b].content = suspense[b].content
            /\ suspense'[b].rootSegmentID = suspense[b].rootSegmentID
        BY <1>8, <2>1 DEF TaskAdded
      <4> QED BY <4>2, <4>3, <4>4, <4>5, SameBoundary
    <3>2. ~(b <= boundaries)
      BY <1>4, <2>1, <2>2
    <3> QED BY <2>1, <2>2, <3>1, <3>2, NotThere
  <2>3. CASE b <= boundaries
    <3>1. /\ suspense[b].fallback \in Segments /\ suspense[b].content \in Segments
          /\ suspense[b].content = suspense[b].fallback + 1 /\ suspense[b].content <= segments
          /\ segment[suspense[b].fallback].boundary = b
          /\ segment[suspense[b].content].boundary = NoBoundary /\ ~segment[suspense[b].content].task
          /\ segment[suspense[b].content].parent = NoSegment
          /\ suspense[b].outer < b
          /\ suspense[b].outer # Root => suspense[suspense[b].outer].fallback < suspense[b].fallback
      BY <2>3 DEF Inv, BoundaryTree
    <3>2. suspense[b].outer \in BoundaryIds
      BY <1>0, InvTypes DEF BoundaryIds
    <3>3. suspense[b].fallback # n /\ suspense[b].content # n
      BY <1>4, <2>3, NotThere
    <3>4. suspense[b].content <= segments' /\ ~(b > boundaries)
      <4>1. suspense[b].content \in Nat /\ b \in Nat
        BY <1>4, <2>1, <3>1
      <4> QED BY <1>1, <1>4, <2>3, <3>1, <4>1
    <3>5. /\ suspense'[b].outer = suspense[b].outer /\ suspense'[b].fallback = suspense[b].fallback
          /\ suspense'[b].content = suspense[b].content
          /\ suspense'[suspense[b].outer].fallback = suspense[suspense[b].outer].fallback
      BY <1>10, <2>1, <3>2
    <3>6. /\ segment'[suspense[b].fallback] = segment[suspense[b].fallback]
          /\ segment'[suspense[b].content] = segment[suspense[b].content]
      BY <1>7, <3>1, <3>3
    <3> QED BY <2>1, <3>1, <3>4, <3>5, <3>6
  <2> QED BY <1>4, <2>1, <2>2, <2>3
<1>20. RunState'
  <2>1. \A i \in DOMAIN pingedTasks : segment'[pingedTasks[i]].task
    <3>1. ASSUME NEW i \in DOMAIN pingedTasks PROVE segment'[pingedTasks[i]].task
      <4>1. segment[pingedTasks[i]].task
        BY DEF Inv, RunState
      <4>2. pingedTasks[i] \in Segments
        BY <1>0, ControlTypes, ElementOfSeq
      <4> QED BY <1>6, <1>7, <4>1, <4>2
    <3> QED BY <3>1
  <2>2. ASSUME NEW s \in Segments, segment'[s].suspended PROVE segment'[s].task
    BY <1>6, <1>7, <2>2 DEF Inv, RunState
  <2>3. running \in Live' /\ running # NoTask
    BY <1>1, <1>2, <1>13 DEF Rendering
  <2> QED BY <1>1, <1>2, <2>1, <2>2, <2>3 DEF RunState
<1>21. OpenState'
  <2> SUFFICES ASSUME NEW i \in DOMAIN opened
      PROVE  LET b == opened[i] IN
             /\ b <= boundaries'
             /\ suspense'[b].outer = IF i = 1 THEN segment'[running].blockedBoundary ELSE opened[i - 1]
             /\ \A j \in DOMAIN opened : j < i => opened[j] < b
             /\ ~segment'[suspense'[b].fallback].task
             /\ segment'[suspense'[b].fallback].status = "PENDING"
             /\ segment'[suspense'[b].content].status = "PENDING"
             /\ ~suspense'[b].forceClientRender /\ suspense'[b].completedSegments = << >>
             /\ client[b] = "none"
    BY <1>1 DEF OpenState
  <2> DEFINE b == opened[i]
  <2>1. /\ b <= boundaries
        /\ suspense[b].outer = IF i = 1 THEN segment[running].blockedBoundary ELSE opened[i - 1]
        /\ \A j \in DOMAIN opened : j < i => opened[j] < b
        /\ ~segment[suspense[b].fallback].task
        /\ segment[suspense[b].fallback].status = "PENDING"
        /\ segment[suspense[b].content].status = "PENDING"
        /\ ~suspense[b].forceClientRender /\ suspense[b].completedSegments = << >>
        /\ client[b] = "none"
    BY DEF Inv, OpenState
  <2>2. b \in Boundaries
    BY <1>0, ControlTypes, ElementOfSeq
  <2>3. b \in BoundaryIds
    BY <2>2 DEF BoundaryIds
  <2>4. /\ segment'[suspense[b].fallback] = segment[suspense[b].fallback]
        /\ segment'[suspense[b].content] = segment[suspense[b].content]
        /\ segment'[running] = segment[running]
    BY <1>2, <1>4, <1>7, <2>1, <2>2, NotThere
  <2> HIDE DEF b
  <2>5. /\ suspense'[b].outer = suspense[b].outer /\ suspense'[b].fallback = suspense[b].fallback
        /\ suspense'[b].content = suspense[b].content
        /\ suspense'[b].forceClientRender = suspense[b].forceClientRender
        /\ suspense'[b].completedSegments = suspense[b].completedSegments
    BY <1>10, <2>3
  <2>6. boundaries' = boundaries
    BY <1>1
  <2> QED BY <2>1, <2>4, <2>5, <2>6 DEF b
<1>22. Placed'
  <2>1. PICK place \in Places : /\ PlaceOf(place)
                                /\ StackState(place.rank)
                                /\ ShownState(place.home, place.reg)
    BY DEF Inv, Placed
  <2> DEFINE h == [place.home EXCEPT ![n] = a]
             r == [place.reg EXCEPT ![n] = cb]
  <2>2. /\ h \in [Segments -> BoundaryIds] /\ r \in [Segments -> BoundaryIds]
        /\ place.rank \in Ranks
        /\ h[n] = a /\ r[n] = cb
        /\ \A s \in Segments : s # n => h[s] = place.home[s] /\ r[s] = place.reg[s]
    <3>1. /\ place.home \in [Segments -> BoundaryIds] /\ place.reg \in [Segments -> BoundaryIds]
          /\ place.rank \in Ranks
      BY <2>1 DEF Places, BoundaryIds
    <3> QED BY <1>1, <1>2, <1>3, <3>1
  <2>3. PICK p \in Places :
           /\ p.rank = place.rank /\ p.home[n] = a /\ p.reg[n] = cb
           /\ \A s \in Segments : s # n => p.home[s] = place.home[s] /\ p.reg[s] = place.reg[s]
    <3> DEFINE q == [home |-> h, reg |-> r, rank |-> place.rank]
    <3>1. q \in Places /\ q.home = h /\ q.reg = r /\ q.rank = place.rank
      BY <2>2 DEF Places, BoundaryIds
    <3> HIDE DEF q, h, r
    <3> QED BY <2>2, <3>1
  <2>4. StackState(p.rank)'
    <3>1. DOMAIN calls' = {}
      BY <1>1, <1>2, EmptyCalls
    <3> QED BY <3>1 DEF StackState
  <2>5. ShownState(p.home, p.reg)'
    <3>1. \A s \in Segments : s <= segments => p.home[s] = place.home[s] /\ p.reg[s] = place.reg[s]
      BY <1>4, <2>3
    <3>2. client' = client
      BY <1>1
    <3> QED BY <1>9, <1>11, <2>1, <3>1, <3>2, GrowSets
  <2>6. PlaceOf(p)'
    <3>1. /\ p.home[RootSegment] = Root /\ p.reg[RootSegment] = Root /\ place.rank[Root] = 0
      <4>1. RootSegment # n /\ RootSegment \in Segments
        BY <1>0, <1>4, NotThere, InvTypes
      <4> QED BY <2>1, <2>3, <4>1 DEF PlaceOf
    <3>2. ASSUME NEW s \in Segments, s <= n
          PROVE  /\ p.home[s] <= boundaries /\ p.reg[s] <= boundaries
                 /\ Before(place.rank, p.home[s], p.reg[s])
                 /\ segment'[s].task => p.reg[s] = segment'[s].blockedBoundary
                 /\ segment'[s].task /\ segment'[s].boundary = NoBoundary =>
                       p.home[s] = segment'[s].abortSet
                 /\ segment'[s].boundary # NoBoundary =>
                       p.reg[s] = suspense'[segment'[s].boundary].outer
                 /\ segment'[s].parent # NoSegment =>
                       /\ p.reg[s] = p.reg[segment'[s].parent]
                       /\ p.home[s] = IF segment'[segment'[s].parent].boundary # NoBoundary
                                 THEN segment'[segment'[s].parent].boundary
                                 ELSE p.home[segment'[s].parent]
      <4>1. CASE s = n
        <5>1. /\ segment'[s].parent = cs /\ segment'[s].boundary = NoBoundary
              /\ segment'[s].blockedBoundary = cb /\ segment'[s].abortSet = a
          BY <1>6, <1>7, <4>1
        <5>2. cs # n /\ cs \in Segments
          BY <1>3, <1>4
        <5>3. p.home[cs] = place.home[cs] /\ p.reg[cs] = place.reg[cs] /\ segment'[cs] = segment[cs]
          BY <1>7, <2>3, <5>2
        <5>4. /\ Before(place.rank, a, cb)
              /\ place.reg[cs] = cb
              /\ a = IF segment[cs].boundary # NoBoundary THEN segment[cs].boundary
                                                          ELSE place.home[cs]
          BY <1>3, <2>1
        <5>5. a <= boundaries /\ cb <= boundaries
          BY <1>2, <1>3
        <5> HIDE DEF Before
        <5> QED BY <2>3, <4>1, <5>1, <5>3, <5>4, <5>5
      <4>2. CASE s # n
        <5>1. p.home[s] = place.home[s] /\ p.reg[s] = place.reg[s] /\ segment'[s] = segment[s]
          BY <1>7, <2>3, <4>2
        <5>2. s <= segments
          BY <1>4, <3>2, <4>2
        <5>3. segment[s].parent # NoSegment =>
                 /\ p.home[segment[s].parent] = place.home[segment[s].parent]
                 /\ p.reg[segment[s].parent] = place.reg[segment[s].parent]
                 /\ segment'[segment[s].parent] = segment[segment[s].parent]
          <6> SUFFICES ASSUME segment[s].parent # NoSegment
              PROVE  /\ p.home[segment[s].parent] = place.home[segment[s].parent]
                     /\ p.reg[segment[s].parent] = place.reg[segment[s].parent]
                     /\ segment'[segment[s].parent] = segment[segment[s].parent]
            OBVIOUS
          <6>1. segment[s].parent \in Segments /\ segment[s].parent < s
            BY <1>0, InvTypes DEF Inv, SegmentTree
          <6>2. segment[s].parent # n
            BY <1>4, <5>2, <6>1
          <6> QED BY <1>7, <2>3, <6>1, <6>2
        <5>4. segment[s].boundary # NoBoundary =>
                 suspense'[segment[s].boundary].outer = suspense[segment[s].boundary].outer
          <6>1. segment[s].boundary \in BoundaryIds
            BY <1>0, InvTypes DEF BoundaryIds
          <6> QED BY <1>10, <6>1
        <5>5. /\ place.home[s] <= boundaries /\ place.reg[s] <= boundaries
              /\ Before(place.rank, place.home[s], place.reg[s])
              /\ segment[s].task => place.reg[s] = segment[s].blockedBoundary
              /\ segment[s].task /\ segment[s].boundary = NoBoundary =>
                    place.home[s] = segment[s].abortSet
              /\ segment[s].boundary # NoBoundary =>
                    place.reg[s] = suspense[segment[s].boundary].outer
              /\ segment[s].parent # NoSegment =>
                    /\ place.reg[s] = place.reg[segment[s].parent]
                    /\ place.home[s] = IF segment[segment[s].parent].boundary # NoBoundary
                                       THEN segment[segment[s].parent].boundary
                                       ELSE place.home[segment[s].parent]
          BY <2>1, <5>2 DEF PlaceOf
        <5> HIDE DEF Before
        <5> QED BY <5>1, <5>3, <5>4, <5>5
      <4> QED BY <4>1, <4>2
    <3>3. ASSUME NEW b \in Boundaries, b <= boundaries
          PROVE  /\ Before(place.rank, b, suspense'[b].outer)
                 /\ p.reg[suspense'[b].content] = b
                 /\ p.home[suspense'[b].content] = p.home[suspense'[b].fallback]
      <4>1. b \in BoundaryIds
        BY DEF BoundaryIds
      <4>2. /\ Before(place.rank, b, suspense[b].outer)
            /\ place.reg[suspense[b].content] = b
            /\ place.home[suspense[b].content] = place.home[suspense[b].fallback]
        BY <2>1, <3>3 DEF PlaceOf
      <4>3. /\ suspense[b].fallback \in Segments /\ suspense[b].fallback # n
            /\ suspense[b].content \in Segments /\ suspense[b].content # n
        BY <1>4, <3>3, NotThere
      <4>4. /\ suspense'[b].outer = suspense[b].outer /\ suspense'[b].fallback = suspense[b].fallback
            /\ suspense'[b].content = suspense[b].content
        BY <1>10, <4>1
      <4> QED BY <2>3, <4>2, <4>3, <4>4
    <3>4. ASSUME NEW i \in DOMAIN opened
          PROVE  p.home[suspense'[opened[i]].content] = segment'[running].abortSet
      <4>1. opened[i] \in Boundaries
        BY <1>0, ControlTypes, ElementOfSeq
      <4>2. opened[i] <= boundaries /\ opened[i] \in BoundaryIds
        BY <4>1 DEF Inv, OpenState, BoundaryIds
      <4>3. place.home[suspense[opened[i]].content] = segment[running].abortSet
        BY <2>1 DEF PlaceOf
      <4>4. suspense[opened[i]].content \in Segments /\ suspense[opened[i]].content # n
        BY <1>4, <4>1, <4>2, NotThere
      <4>5. suspense'[opened[i]].content = suspense[opened[i]].content
        BY <1>10, <4>2
      <4>6. segment'[running] = segment[running]
        BY <1>2, <1>4, <1>7
      <4> QED BY <2>3, <4>3, <4>4, <4>5, <4>6
    <3>5. segments' = n /\ boundaries' = boundaries /\ opened' = opened /\ running' = running
      BY <1>1
    <3> HIDE DEF Before
    <3> QED BY <2>3, <3>1, <3>2, <3>3, <3>4, <3>5 DEF PlaceOf
  <2> QED BY <2>3, <2>4, <2>5, <2>6 DEF Placed
<1>23. calls' \in Seq(CallType)
  BY <1>1 DEF Inv
<1> QED BY <1>9, <1>12, <1>15, <1>16, <1>17, <1>18, <1>19, <1>20, <1>21, <1>22, <1>23, Zenon DEF Inv

FallbackSegment(b) == [NewSegment EXCEPT !.parent = CurrentSegment, !.boundary = b]
ContentSegment == [NewSegment EXCEPT !.parentFlushed = TRUE]
OpenedBoundary(f, c) ==
    [NewBoundary EXCEPT !.outer = CurrentBoundary, !.fallback = f, !.content = c]

LEMMA OpenSuspenseBoundaryStep ==
    ASSUME Inv, OpenSuspenseBoundary
    PROVE  Inv'
<1> DEFINE b == boundaries + 1
           f == segments + 1
           c == segments + 2
           cs == CurrentSegment
           cb == CurrentBoundary
           a == segment[running].abortSet
<1>0. TypeOK
  BY DEF Inv
<1>1. /\ Rendering /\ b \in Boundaries /\ c \in Segments
      /\ boundaries' = b /\ segments' = c
      /\ segment' = [segment EXCEPT ![f] = FallbackSegment(b), ![c] = ContentSegment]
      /\ suspense' = [suspense EXCEPT ![b] = OpenedBoundary(f, c)]
      /\ opened' = Append(opened, b) /\ started' = TRUE
      /\ UNCHANGED <<allPendingTasks, pingedTasks, clientRenderedBoundaries, completedBoundaries,
                     partialBoundaries, requestStatus, flowing, ended, client, wrappers, thrown, calls,
                     next, running, retries, scheduled, piped, aborted>>
  BY DEF OpenSuspenseBoundary, FallbackSegment, ContentSegment, OpenedBoundary, queueVars, outVars,
         userVars
<1>2. /\ running \in Segments /\ running \in Live /\ segment[running].task
      /\ segment[running].status = "PENDING" /\ running <= segments /\ calls = << >>
      /\ a \in BoundaryIds /\ a <= boundaries
  BY <1>1, RunningTask
<1>3. /\ cs \in Segments /\ cs <= segments
      /\ cb \in BoundaryIds /\ cb <= boundaries
      /\ cb # Root => suspense[cb].fallback \in Segments /\ suspense[cb].fallback <= segments
      /\ opened # << >> => cb = opened[Len(opened)]
      /\ opened = << >> => cb = segment[running].blockedBoundary
      /\ \A place \in Places : PlaceOf(place) =>
            /\ Before(place.rank, a, cb)
            /\ place.reg[cs] = cb
            /\ a = IF segment[cs].boundary # NoBoundary THEN segment[cs].boundary
                                                        ELSE place.home[cs]
  BY <1>1, CurrentNode
<1> HIDE DEF cs, cb, a, f, c, b
<1>4. /\ segments \in Nat /\ f \in Nat /\ c \in Nat /\ f = segments + 1 /\ c = f + 1
      /\ segments < f /\ f < c /\ segments <= c
      /\ boundaries \in Nat /\ b \in Nat /\ b = boundaries + 1 /\ boundaries < b
      /\ \A s \in Segments : s \in Nat /\ (s > segments \/ s <= segments)
      /\ \A x \in BoundaryIds : x \in Nat /\ (x > boundaries \/ x <= boundaries)
      /\ b \in BoundaryIds /\ b # Root /\ b # NoBoundary
      /\ f \in Segments /\ c \in Segments /\ f # NoSegment
  <2>1. /\ segments \in Nat /\ boundaries \in Nat /\ Segments = 1..MaxSegments /\ MaxSegments \in Nat
        /\ Boundaries = 1..MaxBoundaries /\ MaxBoundaries \in Nat
        /\ segments \in Segments /\ Root = 0 /\ NoBoundary = 0 /\ NoSegment = 0
    BY <1>0, InvTypes
  <2>2. segments + 2 \in 1..MaxSegments /\ boundaries + 1 \in 1..MaxBoundaries
    BY <1>1, <2>1 DEF c, b
  <2> QED BY <2>1, <2>2 DEF f, c, b, BoundaryIds
<1>5. segment \in [Segments -> SegmentRecord] /\ suspense \in [BoundaryIds -> BoundaryRecord]
  BY <1>0, ControlTypes DEF BoundaryIds
<1>6. /\ FallbackSegment(b) \in SegmentRecord
      /\ FallbackSegment(b).status = "PENDING" /\ ~FallbackSegment(b).task
      /\ FallbackSegment(b).parent = cs /\ FallbackSegment(b).blockedBoundary = Root
      /\ FallbackSegment(b).abortSet = Root /\ FallbackSegment(b).boundary = b
      /\ ~FallbackSegment(b).parentFlushed /\ ~FallbackSegment(b).suspended
  <2>1. cs \in Segments /\ b \in Boundaries
    BY <1>1, <1>3
  <2> QED BY <2>1 DEF FallbackSegment, NewSegment, SegmentRecord, NoID, cs
<1>7. /\ ContentSegment \in SegmentRecord
      /\ ContentSegment.status = "PENDING" /\ ~ContentSegment.task
      /\ ContentSegment.parent = NoSegment /\ ContentSegment.blockedBoundary = Root
      /\ ContentSegment.abortSet = Root /\ ContentSegment.boundary = NoBoundary
      /\ ~ContentSegment.suspended
  BY DEF ContentSegment, NewSegment, SegmentRecord, NoID
<1>8. /\ OpenedBoundary(f, c) \in BoundaryRecord
      /\ OpenedBoundary(f, c).pendingTasks = 0
      /\ ~OpenedBoundary(f, c).forceClientRender /\ ~OpenedBoundary(f, c).parentFlushed
      /\ OpenedBoundary(f, c).completedSegments = << >>
      /\ OpenedBoundary(f, c).fallbackAbortableTasks = {}
      /\ OpenedBoundary(f, c).outer = cb
      /\ OpenedBoundary(f, c).fallback = f /\ OpenedBoundary(f, c).content = c
  <2>1. /\ cb \in BoundaryIds /\ f \in Segments /\ c \in Segments /\ 0 \in Nat
        /\ << >> \in Seq(Segments) /\ {} \in SUBSET Segments
    BY <1>3, <1>4
  <2> QED BY <2>1 DEF OpenedBoundary, NewBoundary, BoundaryRecord, NoID, cb, BoundaryIds
<1> HIDE DEF FallbackSegment, ContentSegment, OpenedBoundary
<1>9. /\ segment' \in [Segments -> SegmentRecord]
      /\ segment'[f] = FallbackSegment(b) /\ segment'[c] = ContentSegment
      /\ \A s \in Segments : s # f /\ s # c => segment'[s] = segment[s]
  <2>1. f # c /\ f \in Segments /\ c \in Segments
    BY <1>4
  <2> QED BY <1>1, <1>5, <1>6, <1>7, <2>1
<1>10. /\ suspense' \in [BoundaryIds -> BoundaryRecord]
       /\ suspense'[b] = OpenedBoundary(f, c)
       /\ \A x \in BoundaryIds : x # b => suspense'[x] = suspense[x]
  BY <1>1, <1>4, <1>5, <1>8
<1>11. /\ opened' \in Seq(Boundaries) /\ Len(opened) \in Nat /\ DOMAIN opened = 1..Len(opened)
       /\ DOMAIN opened' = 1..(Len(opened) + 1)
       /\ \A i \in DOMAIN opened : i \in DOMAIN opened' /\ opened'[i] = opened[i]
       /\ Len(opened) + 1 \in DOMAIN opened' /\ opened'[Len(opened) + 1] = b
       /\ \A i \in DOMAIN opened' : i \in DOMAIN opened \/ i = Len(opened) + 1
  <2>1. opened \in Seq(Boundaries)
    BY <1>0, ControlTypes
  <2>2. /\ Append(opened, b) \in Seq(Boundaries) /\ Len(opened) \in Nat /\ DOMAIN opened = 1..Len(opened)
        /\ DOMAIN Append(opened, b) = 1..(Len(opened) + 1)
        /\ \A i \in DOMAIN opened : Append(opened, b)[i] = opened[i]
        /\ Append(opened, b)[Len(opened) + 1] = b
    BY <1>1, <2>1, AppendElements
  <2> QED BY <1>1, <2>2
<1>12. TypeOK'
  <2>1. started' \in BOOLEAN /\ segments' \in Segments /\ boundaries' \in Boundaries \cup {Root}
    BY <1>1
  <2>2. suspense' \in [Boundaries \cup {Root} -> BoundaryRecord]
    BY <1>10 DEF BoundaryIds
  <2> QED BY <1>0, <1>1, <1>9, <1>11, <2>1, <2>2, ControlTypes, TypeNext
<1>13. /\ \A s \in Segments : s <= segments => segment'[s] = segment[s]
       /\ \A x \in BoundaryIds : x <= boundaries => suspense'[x] = suspense[x]
  <2>1. ASSUME NEW s \in Segments, s <= segments PROVE s # f /\ s # c
    BY <1>4, <2>1
  <2>2. ASSUME NEW x \in BoundaryIds, x <= boundaries PROVE x # b
    BY <1>4, <2>2
  <2> QED BY <1>9, <1>10, <2>1, <2>2
<1>14. Grown
  <2>1. segments <= segments' /\ boundaries <= boundaries'
    BY <1>1, <1>4
  <2>2. ASSUME NEW s \in Segments, s > segments
        PROVE  /\ segment'[s].status = "PENDING"
               /\ segment'[s].task \/ segment'[s].boundary # NoBoundary => ~segment'[s].parentFlushed
               /\ segment'[s].boundary # NoBoundary => segment'[s].boundary > boundaries
    <3>1. CASE s = f
      BY <1>4, <1>6, <1>9, <3>1
    <3>2. CASE s = c
      BY <1>7, <1>9, <3>2
    <3>3. CASE s # f /\ s # c
      BY <1>9, <2>2, <3>3, NotThere
    <3> QED BY <3>1, <3>2, <3>3
  <2>3. ASSUME NEW x \in Boundaries, x > boundaries
        PROVE  /\ ~suspense'[x].parentFlushed /\ ~suspense'[x].forceClientRender
               /\ suspense'[x].completedSegments = << >>
               /\ x <= boundaries' => \E i \in DOMAIN opened' : opened'[i] = x
    <3>1. CASE x = b
      BY <1>8, <1>10, <1>11, <3>1
    <3>2. CASE x # b
      <4>1. x \in BoundaryIds
        BY DEF BoundaryIds
      <4>2. suspense'[x] = NewBoundary
        BY <1>10, <2>3, <3>2, <4>1, NotThere
      <4>3. ~(x <= boundaries')
        BY <1>1, <1>4, <2>3, <3>2, <4>1
      <4>4. ~NewBoundary.parentFlushed /\ ~NewBoundary.forceClientRender /\ NewBoundary.completedSegments = << >>
        BY DEF NewBoundary
      <4> QED BY <4>2, <4>3, <4>4
    <3> QED BY <3>1, <3>2
  <2>4. \A i \in DOMAIN opened' : opened'[i] > boundaries \/ IsOpened(opened'[i])
    <3>1. b > boundaries
      BY <1>4
    <3> QED BY <1>11, <3>1 DEF IsOpened
  <2>5. \A x : IsOpened(x) => \E i \in DOMAIN opened' : opened'[i] = x
    BY <1>11 DEF IsOpened
  <2>6. suspense'[Root] = suspense[Root]
    <3>1. Root \in BoundaryIds /\ Root # b
      BY <1>4 DEF BoundaryIds
    <3> QED BY <1>10, <3>1
  <2> QED BY <1>13, <2>1, <2>2, <2>3, <2>4, <2>5, <2>6 DEF Grown
<1>15. ClientState' /\ QueuedOnce' /\ RootState' /\ ReadyState' /\ OverState'
  BY <1>1, <1>12, <1>14, GrowStates DEF queueVars
<1>16. Live' = Live /\ \A x : BlockedBy(x)' = BlockedBy(x)
  <2>1. ASSUME NEW s \in Segments
        PROVE  /\ s \in Live' <=> s \in Live
               /\ s \in Live => segment'[s] = segment[s]
    <3>1. CASE s = f \/ s = c
      <4>1. ~segment'[s].task /\ s > segments
        BY <1>4, <1>6, <1>7, <1>9, <3>1
      <4>2. ~segment[s].task
        BY <4>1, NotThere
      <4> QED BY <4>1, <4>2 DEF Live
    <3>2. CASE s # f /\ s # c
      BY <1>9, <3>2 DEF Live
    <3> QED BY <3>1, <3>2
  <2>2. Live' = Live
    BY <2>1 DEF Live
  <2> QED BY <2>1, <2>2 DEF BlockedBy, Live
<1>17. /\ \A x \in BoundaryIds :
             /\ suspense'[x].pendingTasks = suspense[x].pendingTasks
             /\ suspense'[x].fallbackAbortableTasks = suspense[x].fallbackAbortableTasks
       /\ segment'[RootSegment] = segment[RootSegment] /\ suspense'[Root] = suspense[Root]
  <2>1. /\ suspense'[b].pendingTasks = suspense[b].pendingTasks
        /\ suspense'[b].fallbackAbortableTasks = suspense[b].fallbackAbortableTasks
    <3>1. suspense[b].pendingTasks = 0 /\ suspense[b].fallbackAbortableTasks = {}
      BY <1>1, <1>4, NotThere
    <3> QED BY <1>8, <1>10, <3>1
  <2>2. Root \in BoundaryIds /\ Root # b /\ RootSegment \in Segments /\ RootSegment <= segments
    BY <1>0, <1>4, NotThere, InvTypes DEF BoundaryIds
  <2> QED BY <1>10, <1>13, <2>1, <2>2
<1>18. CountState'
  <2>1. \A x \in Boundaries : suspense'[x].pendingTasks = Cardinality(BlockedBy(x))
    BY <1>17 DEF Inv, CountState, BoundaryIds
  <2>2. UNCHANGED <<allPendingTasks, calls, requestStatus>>
    BY <1>1
  <2>3. \A x : Cardinality(BlockedBy(x)') = Cardinality(BlockedBy(x))
    BY <1>16
  <2> QED BY <1>16, <1>17, <2>1, <2>2, <2>3 DEF Inv, CountState
<1>19. SetState'
  <2>1. DOMAIN calls = {} /\ DOMAIN calls' = {}
    BY <1>1, <1>2, EmptyCalls
  <2>2. ASSUME NEW x \in BoundaryIds, NEW t \in suspense[x].fallbackAbortableTasks
        PROVE  segment'[t].task /\ segment'[t].abortSet = x /\ t \in Live
    <3>1. segment[t].task /\ segment[t].abortSet = x /\ t \in Live
      BY <2>1, <2>2 DEF Inv, SetState, BoundaryIds
    <3>2. t \in Segments /\ t <= segments
      BY <3>1, TaskIsMade DEF Live
    <3> QED BY <1>13, <3>1, <3>2
  <2> QED BY <1>16, <1>17, <2>1, <2>2 DEF SetState, BoundaryIds
<1>20. FlowState'
  <2>1. calls' = << >> /\ UNCHANGED <<flowing, requestStatus, ended>>
    BY <1>1, <1>2
  <2> QED BY <1>1, <2>1, RenderFlow DEF Rendering
<1>21. SegmentTree'
  <2>1. ASSUME NEW s \in Segments
        PROVE  /\ s > segments' => segment'[s] = NewSegment
               /\ segment'[s].parent < s
               /\ segment'[s].boundary <= boundaries'
               /\ segment'[s].blockedBoundary <= boundaries'
               /\ segment'[s].abortSet <= boundaries'
               /\ segment'[s].boundary # NoBoundary =>
                     /\ segment'[s].parent # NoSegment
                     /\ suspense'[segment'[s].boundary].fallback = s
                     /\ segment'[s].task =>
                           /\ segment'[s].abortSet = segment'[s].boundary
                           /\ segment'[s].blockedBoundary = suspense'[segment'[s].boundary].outer
               /\ segment'[s].task /\ segment'[s].blockedBoundary # Root =>
                     suspense'[segment'[s].blockedBoundary].fallback < s
    <3>0. Root <= boundaries' /\ NoBoundary <= boundaries' /\ b <= boundaries' /\ boundaries' = b
      BY <1>0, <1>1, <1>4, InvTypes
    <3>1. CASE s = f
      <4>1. /\ segment'[s].parent = cs /\ segment'[s].boundary = b /\ ~segment'[s].task
            /\ segment'[s].blockedBoundary = Root /\ segment'[s].abortSet = Root
        BY <1>6, <1>9, <3>1
      <4>2. cs < f /\ ~(f > segments') /\ cs # NoSegment
        BY <1>0, <1>1, <1>3, <1>4, InvTypes
      <4>3. suspense'[b].fallback = f
        BY <1>8, <1>10
      <4> QED BY <3>0, <3>1, <4>1, <4>2, <4>3
    <3>2. CASE s = c
      <4>1. /\ segment'[s].parent = NoSegment /\ segment'[s].boundary = NoBoundary
            /\ ~segment'[s].task
            /\ segment'[s].blockedBoundary = Root /\ segment'[s].abortSet = Root
        BY <1>7, <1>9, <3>2
      <4>2. NoSegment < c /\ ~(c > segments')
        BY <1>0, <1>1, <1>4, InvTypes
      <4> QED BY <3>0, <3>2, <4>1, <4>2
    <3>3. CASE s # f /\ s # c
      <4>1. segment'[s] = segment[s]
        BY <1>9, <3>3
      <4>2. segment[s].boundary \in BoundaryIds /\ segment[s].blockedBoundary \in BoundaryIds
            /\ segment[s].abortSet \in BoundaryIds
        BY <1>0, InvTypes DEF BoundaryIds
      <4>3. /\ segment[s].parent < s
            /\ segment[s].boundary <= boundaries
            /\ segment[s].blockedBoundary <= boundaries /\ segment[s].abortSet <= boundaries
            /\ segment[s].boundary # NoBoundary =>
                  /\ segment[s].parent # NoSegment
                  /\ suspense[segment[s].boundary].fallback = s
                  /\ segment[s].task =>
                        /\ segment[s].abortSet = segment[s].boundary
                        /\ segment[s].blockedBoundary = suspense[segment[s].boundary].outer
            /\ segment[s].task /\ segment[s].blockedBoundary # Root =>
                  suspense[segment[s].blockedBoundary].fallback < s
            /\ s > segments => segment[s] = NewSegment
        BY DEF Inv, SegmentTree
      <4>4. /\ suspense'[segment[s].boundary] = suspense[segment[s].boundary]
            /\ suspense'[segment[s].blockedBoundary] = suspense[segment[s].blockedBoundary]
        BY <1>13, <4>2, <4>3
      <4>5. s > segments' => s > segments
        BY <1>1, <1>4
      <4>6. /\ segment[s].boundary <= boundaries' /\ segment[s].blockedBoundary <= boundaries'
            /\ segment[s].abortSet <= boundaries'
        <5>1. \A i, j, k \in Nat : i <= j /\ j < k => i <= k
          OBVIOUS
        <5>2. \A x \in BoundaryIds : x \in Nat /\ (x <= boundaries => x <= boundaries')
          BY <1>4, <3>0, <5>1
        <5> QED BY <4>2, <4>3, <5>2
      <4> QED BY <4>1, <4>3, <4>4, <4>5, <4>6
    <3> QED BY <3>1, <3>2, <3>3
  <2> QED BY <1>17, <2>1 DEF Inv, SegmentTree
<1>22. BoundaryTree'
  <2> SUFFICES ASSUME NEW x \in Boundaries
      PROVE  LET fallback == suspense'[x].fallback
                 content  == suspense'[x].content
                 outer    == suspense'[x].outer
             IN
             /\ x > boundaries' => suspense'[x] = NewBoundary
             /\ x <= boundaries' =>
                   /\ fallback \in Segments /\ content \in Segments
                   /\ content = fallback + 1 /\ content <= segments'
                   /\ segment'[fallback].boundary = x
                   /\ segment'[content].boundary = NoBoundary /\ ~segment'[content].task
                   /\ segment'[content].parent = NoSegment
                   /\ outer < x
                   /\ outer # Root => suspense'[outer].fallback < fallback
    BY DEF BoundaryTree
  <2>1. x \in BoundaryIds /\ x \in Nat /\ boundaries' = b /\ segments' = c
    BY <1>1, <1>4 DEF BoundaryIds
  <2>2. CASE x = b
    <3>1. suspense'[x].fallback = f /\ suspense'[x].content = c /\ suspense'[x].outer = cb
      BY <1>8, <1>10, <2>2
    <3>2. /\ segment'[f].boundary = b /\ segment'[c].boundary = NoBoundary /\ ~segment'[c].task
          /\ segment'[c].parent = NoSegment
      BY <1>6, <1>7, <1>9
    <3>3. cb < b
      BY <1>3, <1>4
    <3>4. cb # Root => suspense'[cb].fallback < f
      <4> SUFFICES ASSUME cb # Root PROVE suspense'[cb].fallback < f
        OBVIOUS
      <4>1. suspense'[cb] = suspense[cb]
        BY <1>3, <1>13
      <4>2. suspense[cb].fallback \in Nat /\ suspense[cb].fallback <= segments
        BY <1>3, <1>4
      <4> QED BY <1>4, <4>1, <4>2
    <3>5. c <= segments' /\ ~(x > boundaries')
      BY <1>4, <2>1, <2>2
    <3> QED BY <1>4, <2>2, <3>1, <3>2, <3>3, <3>4, <3>5
  <2>3. CASE x > boundaries /\ x # b
    <3>1. suspense'[x] = NewBoundary
      BY <1>10, <2>1, <2>3, NotThere
    <3>2. ~(x <= boundaries')
      BY <1>4, <2>1, <2>3
    <3> QED BY <3>1, <3>2
  <2>4. CASE x <= boundaries
    <3>1. /\ suspense[x].fallback \in Segments /\ suspense[x].content \in Segments
          /\ suspense[x].content = suspense[x].fallback + 1 /\ suspense[x].content <= segments
          /\ segment[suspense[x].fallback].boundary = x
          /\ segment[suspense[x].content].boundary = NoBoundary /\ ~segment[suspense[x].content].task
          /\ segment[suspense[x].content].parent = NoSegment
          /\ suspense[x].outer < x
          /\ suspense[x].outer # Root => suspense[suspense[x].outer].fallback < suspense[x].fallback
      BY <2>4 DEF Inv, BoundaryTree
    <3>2. suspense[x].outer \in BoundaryIds
      BY <1>0, InvTypes DEF BoundaryIds
    <3>3. suspense[x].outer <= boundaries
      <4>1. \A i, j, k \in Nat : i < j /\ j <= k => i <= k
        OBVIOUS
      <4>2. suspense[x].outer \in Nat /\ boundaries \in Nat
        BY <1>4, <3>2
      <4> QED BY <2>1, <2>4, <3>1, <4>1, <4>2
    <3>4. suspense[x].content <= segments' /\ ~(x > boundaries')
      <4>1. suspense[x].content \in Nat
        BY <1>4, <3>1
      <4> QED BY <1>4, <2>1, <2>4, <3>1, <4>1
    <3>5. suspense'[x] = suspense[x] /\ suspense'[suspense[x].outer] = suspense[suspense[x].outer]
      BY <1>13, <2>1, <2>4, <3>2, <3>3
    <3>6. /\ segment'[suspense[x].fallback] = segment[suspense[x].fallback]
          /\ segment'[suspense[x].content] = segment[suspense[x].content]
      BY <1>13, <2>4, NotThere
    <3> QED BY <3>1, <3>4, <3>5, <3>6
  <2> QED BY <1>4, <2>1, <2>2, <2>3, <2>4
<1>23. RunState'
  <2>1. ASSUME NEW i \in DOMAIN pingedTasks PROVE segment'[pingedTasks[i]].task
    <3>1. segment[pingedTasks[i]].task
      BY DEF Inv, RunState
    <3>2. pingedTasks[i] \in Segments
      BY <1>0, ControlTypes, ElementOfSeq
    <3>3. pingedTasks[i] <= segments
      BY <3>1, <3>2, TaskIsMade
    <3> QED BY <1>13, <3>1, <3>2, <3>3
  <2>2. ASSUME NEW s \in Segments, segment'[s].suspended PROVE segment'[s].task
    <3>1. s # f /\ s # c
      BY <1>6, <1>7, <1>9, <2>2
    <3> QED BY <1>9, <2>2, <3>1 DEF Inv, RunState
  <2>3. running \in Live' /\ running # NoTask
    BY <1>1, <1>2, <1>16 DEF Rendering
  <2> QED BY <1>1, <1>2, <2>1, <2>2, <2>3 DEF RunState
<1>24. OpenState'
  <2>a. running' = running /\ client' = client
    BY <1>1
  <2> SUFFICES ASSUME NEW i \in DOMAIN opened'
      PROVE  LET x == opened'[i] IN
             /\ x <= boundaries'
             /\ suspense'[x].outer = IF i = 1 THEN segment'[running].blockedBoundary ELSE opened'[i - 1]
             /\ \A j \in DOMAIN opened' : j < i => opened'[j] < x
             /\ ~segment'[suspense'[x].fallback].task
             /\ segment'[suspense'[x].fallback].status = "PENDING"
             /\ segment'[suspense'[x].content].status = "PENDING"
             /\ ~suspense'[x].forceClientRender /\ suspense'[x].completedSegments = << >>
             /\ client[x] = "none"
    BY <2>a, Zenon DEF OpenState
  <2>0. segment'[running] = segment[running]
    BY <1>2, <1>13
  <2>1. CASE i \in DOMAIN opened
    <3> DEFINE x == opened[i]
    <3>1. /\ x <= boundaries
          /\ suspense[x].outer = IF i = 1 THEN segment[running].blockedBoundary ELSE opened[i - 1]
          /\ \A j \in DOMAIN opened : j < i => opened[j] < x
          /\ ~segment[suspense[x].fallback].task
          /\ segment[suspense[x].fallback].status = "PENDING"
          /\ segment[suspense[x].content].status = "PENDING"
          /\ ~suspense[x].forceClientRender /\ suspense[x].completedSegments = << >>
          /\ client[x] = "none"
      BY <2>1 DEF Inv, OpenState
    <3>2. x \in Boundaries
      BY <1>0, <2>1, ControlTypes, ElementOfSeq
    <3>3. x \in BoundaryIds /\ opened'[i] = x
      BY <1>11, <2>1, <3>2 DEF BoundaryIds
    <3> HIDE DEF x
    <3>4. /\ suspense'[x] = suspense[x]
          /\ segment'[suspense[x].fallback] = segment[suspense[x].fallback]
          /\ segment'[suspense[x].content] = segment[suspense[x].content]
      BY <1>13, <3>1, <3>2, <3>3, NotThere
    <3>5. x <= boundaries'
      <4>1. \A m, j, k \in Nat : m <= j /\ j < k => m <= k
        OBVIOUS
      <4> QED BY <1>1, <1>4, <3>1, <3>3, <4>1
    <3>6. i # 1 => opened'[i - 1] = opened[i - 1]
      BY <1>11, <2>1
    <3>7. ASSUME NEW j \in DOMAIN opened', j < i PROVE opened'[j] < x
      <4>1. j \in DOMAIN opened
        BY <1>11, <2>1, <3>7
      <4> QED BY <1>11, <3>1, <3>7, <4>1
    <3> QED BY <2>0, <3>1, <3>3, <3>4, <3>5, <3>6, <3>7
  <2>2. CASE i = Len(opened) + 1
    <3>1. opened'[i] = b
      BY <1>11, <2>2
    <3>2. /\ b <= boundaries' /\ client[b] = "none"
      BY <1>1, <1>4, NotThere
    <3>3. /\ ~segment'[f].task /\ segment'[f].status = "PENDING" /\ segment'[c].status = "PENDING"
          /\ suspense'[b].fallback = f /\ suspense'[b].content = c /\ suspense'[b].outer = cb
          /\ ~suspense'[b].forceClientRender /\ suspense'[b].completedSegments = << >>
      BY <1>6, <1>7, <1>8, <1>9, <1>10
    <3>4. cb = IF i = 1 THEN segment[running].blockedBoundary ELSE opened'[i - 1]
      <4>1. CASE opened = << >>
        <5>1. i = 1
          BY <2>2, <4>1
        <5> QED BY <1>3, <4>1, <5>1
      <4>2. CASE opened # << >>
        <5>1. Len(opened) # 0
          BY <1>0, <4>2, ControlTypes, EmptySeq
        <5>2. i # 1 /\ i - 1 = Len(opened) /\ Len(opened) \in DOMAIN opened
          BY <1>11, <2>2, <5>1
        <5>3. opened'[i - 1] = opened[Len(opened)]
          BY <1>11, <5>2
        <5> QED BY <1>3, <4>2, <5>2, <5>3
      <4> QED BY <4>1, <4>2
    <3>5. ASSUME NEW j \in DOMAIN opened', j < i PROVE opened'[j] < b
      <4>1. j \in DOMAIN opened
        BY <1>11, <2>2, <3>5
      <4>2. opened[j] \in BoundaryIds /\ opened[j] <= boundaries
        <5>1. opened[j] \in Boundaries
          BY <1>0, <4>1, ControlTypes, ElementOfSeq
        <5> QED BY <4>1, <5>1 DEF Inv, OpenState, BoundaryIds
      <4>3. \A m, k, l \in Nat : m <= k /\ k < l => m < l
        OBVIOUS
      <4>4. opened[j] < b
        BY <1>4, <4>2, <4>3
      <4> QED BY <1>11, <4>1, <4>4
    <3> QED BY <2>0, <3>1, <3>2, <3>3, <3>4, <3>5
  <2> QED BY <1>11, <2>1, <2>2
<1>25. Placed'
  <2>1. PICK place \in Places : /\ PlaceOf(place)
                                /\ StackState(place.rank)
                                /\ ShownState(place.home, place.reg)
    BY DEF Inv, Placed
  <2>2. /\ place.home \in [Segments -> BoundaryIds] /\ place.reg \in [Segments -> BoundaryIds]
        /\ place.rank \in [BoundaryIds -> Nat]
    BY <2>1 DEF Places, Ranks, BoundaryIds
  <2>3. PICK p \in Places :
           /\ p.home[f] = a /\ p.reg[f] = cb /\ p.home[c] = a /\ p.reg[c] = b
           /\ \A s \in Segments : s <= segments => p.home[s] = place.home[s] /\ p.reg[s] = place.reg[s]
           /\ p.rank[b] = 2 * place.rank[a] + 1
           /\ \A x \in BoundaryIds : x # b => p.rank[x] = 2 * place.rank[x]
    <3> DEFINE h == [place.home EXCEPT ![f] = a, ![c] = a]
               r == [place.reg EXCEPT ![f] = cb, ![c] = b]
               k == [x \in BoundaryIds |-> IF x = b THEN 2 * place.rank[a] + 1 ELSE 2 * place.rank[x]]
               q == [home |-> h, reg |-> r, rank |-> k]
    <3>1. h \in [Segments -> BoundaryIds] /\ r \in [Segments -> BoundaryIds]
      BY <1>2, <1>3, <1>4, <2>2
    <3>2. k \in [BoundaryIds -> Nat]
      <4>1. place.rank[a] \in Nat /\ \A x \in BoundaryIds : place.rank[x] \in Nat
        BY <1>2, <2>2
      <4> QED BY <4>1
    <3>3. /\ h[f] = a /\ r[f] = cb /\ h[c] = a /\ r[c] = b
          /\ \A s \in Segments : s <= segments => h[s] = place.home[s] /\ r[s] = place.reg[s]
      <4>1. f # c /\ \A s \in Segments : s <= segments => s # f /\ s # c
        BY <1>4
      <4> QED BY <1>4, <2>2, <4>1
    <3>4. /\ k[b] = 2 * place.rank[a] + 1
          /\ \A x \in BoundaryIds : x # b => k[x] = 2 * place.rank[x]
      BY <1>4
    <3> HIDE DEF h, r, k
    <3>5. q \in Places /\ q.home = h /\ q.reg = r /\ q.rank = k
      BY <3>1, <3>2 DEF Places, Ranks, BoundaryIds
    <3> HIDE DEF q
    <3> QED BY <3>3, <3>4, <3>5
  <2>4. StackState(p.rank)'
    <3>1. DOMAIN calls' = {}
      BY <1>1, <1>2, EmptyCalls
    <3> QED BY <3>1 DEF StackState
  <2>5. ShownState(p.home, p.reg)'
    <3>1. client' = client
      BY <1>1
    <3> QED BY <1>12, <1>14, <2>1, <2>3, <3>1, GrowSets
  <2>6. /\ \A x, y \in BoundaryIds :
              x <= boundaries /\ y <= boundaries /\ Before(place.rank, x, y) => Before(p.rank, x, y)
        /\ Before(p.rank, a, b)
        /\ Before(p.rank, b, cb)
    <3>1. \A x \in BoundaryIds : x <= boundaries => x # b
      BY <1>4
    <3>2. \A x \in BoundaryIds : place.rank[x] \in Nat
      BY <2>2
    <3>3. \A i, j \in Nat : i < j => 2 * i < 2 * j /\ 2 * i + 1 < 2 * j /\ 2 * i < 2 * i + 1
      OBVIOUS
    <3>4. \A i \in Nat : 2 * i < 2 * i + 1
      OBVIOUS
    <3>5. ASSUME NEW x \in BoundaryIds, NEW y \in BoundaryIds, x <= boundaries, y <= boundaries,
                 Before(place.rank, x, y)
          PROVE  Before(p.rank, x, y)
      <4>1. p.rank[x] = 2 * place.rank[x] /\ p.rank[y] = 2 * place.rank[y]
        BY <2>3, <3>1, <3>5
      <4> QED BY <3>2, <3>3, <3>5, <4>1 DEF Before
    <3>6. Before(p.rank, a, b)
      <4>1. p.rank[a] = 2 * place.rank[a] /\ place.rank[a] \in Nat
        BY <1>2, <2>3, <3>1, <3>2
      <4> QED BY <2>3, <3>4, <4>1 DEF Before
    <3>7. Before(p.rank, b, cb)
      <4>1. cb # Root => p.rank[cb] = 2 * place.rank[cb]
        BY <1>3, <2>3, <3>1
      <4>2. Before(place.rank, a, cb)
        BY <1>3, <2>1
      <4>3. place.rank[cb] \in Nat /\ place.rank[a] \in Nat
        BY <1>2, <1>3, <3>2
      <4> QED BY <2>3, <3>3, <4>1, <4>2, <4>3 DEF Before
    <3> QED BY <3>5, <3>6, <3>7
  <2>7. PlaceOf(p)'
    <3> HIDE DEF Before
    <3>0. \A x \in BoundaryIds : x <= boundaries => x <= boundaries'
      <4>1. \A m, j, k \in Nat : m <= j /\ j < k => m <= k
        OBVIOUS
      <4> QED BY <1>1, <1>4, <4>1
    <3>1. /\ p.home[RootSegment] = Root /\ p.reg[RootSegment] = Root /\ p.rank[Root] = 0
      <4>1. RootSegment \in Segments /\ RootSegment <= segments /\ Root \in BoundaryIds
        BY <1>0, NotThere, InvTypes DEF BoundaryIds
      <4>2. place.home[RootSegment] = Root /\ place.reg[RootSegment] = Root /\ place.rank[Root] = 0
        BY <2>1 DEF PlaceOf
      <4>3. 2 * 0 = 0
        OBVIOUS
      <4> QED BY <1>4, <2>3, <4>1, <4>2, <4>3
    <3>2. ASSUME NEW s \in Segments, s <= segments'
          PROVE  /\ p.home[s] <= boundaries' /\ p.reg[s] <= boundaries'
                 /\ Before(p.rank, p.home[s], p.reg[s])
                 /\ segment'[s].task => p.reg[s] = segment'[s].blockedBoundary
                 /\ segment'[s].task /\ segment'[s].boundary = NoBoundary =>
                       p.home[s] = segment'[s].abortSet
                 /\ segment'[s].boundary # NoBoundary =>
                       p.reg[s] = suspense'[segment'[s].boundary].outer
                 /\ segment'[s].parent # NoSegment =>
                       /\ p.reg[s] = p.reg[segment'[s].parent]
                       /\ p.home[s] = IF segment'[segment'[s].parent].boundary # NoBoundary
                                      THEN segment'[segment'[s].parent].boundary
                                      ELSE p.home[segment'[s].parent]
      <4>1. CASE s = f
        <5>1. /\ segment'[s].parent = cs /\ segment'[s].boundary = b /\ ~segment'[s].task
          BY <1>6, <1>9, <4>1
        <5>2. p.home[cs] = place.home[cs] /\ p.reg[cs] = place.reg[cs] /\ segment'[cs] = segment[cs]
          BY <1>3, <1>13, <2>3
        <5>3. /\ Before(place.rank, a, cb)
              /\ place.reg[cs] = cb
              /\ a = IF segment[cs].boundary # NoBoundary THEN segment[cs].boundary
                                                          ELSE place.home[cs]
          BY <1>3, <2>1
        <5>4. a <= boundaries' /\ cb <= boundaries'
          BY <1>2, <1>3, <3>0
        <5>5. Before(p.rank, a, cb)
          BY <1>2, <1>3, <2>6, <5>3
        <5>6. suspense'[b].outer = cb
          BY <1>8, <1>10
        <5> QED BY <2>3, <4>1, <5>1, <5>2, <5>3, <5>4, <5>5, <5>6
      <4>2. CASE s = c
        <5>1. /\ segment'[s].parent = NoSegment /\ segment'[s].boundary = NoBoundary /\ ~segment'[s].task
          BY <1>7, <1>9, <4>2
        <5>2. a <= boundaries' /\ b <= boundaries'
          BY <1>1, <1>2, <1>4, <3>0
        <5> QED BY <2>3, <2>6, <4>2, <5>1, <5>2
      <4>3. CASE s <= segments
        <5>1. p.home[s] = place.home[s] /\ p.reg[s] = place.reg[s] /\ segment'[s] = segment[s]
          BY <1>13, <2>3, <4>3
        <5>2. segment[s].parent # NoSegment =>
                 /\ p.home[segment[s].parent] = place.home[segment[s].parent]
                 /\ p.reg[segment[s].parent] = place.reg[segment[s].parent]
                 /\ segment'[segment[s].parent] = segment[segment[s].parent]
          <6> SUFFICES ASSUME segment[s].parent # NoSegment
              PROVE  /\ p.home[segment[s].parent] = place.home[segment[s].parent]
                     /\ p.reg[segment[s].parent] = place.reg[segment[s].parent]
                     /\ segment'[segment[s].parent] = segment[segment[s].parent]
            OBVIOUS
          <6>1. segment[s].parent \in Segments /\ segment[s].parent < s
            BY <1>0, InvTypes DEF Inv, SegmentTree
          <6>2. segment[s].parent <= segments
            <7>1. \A m, j, k \in Nat : m < j /\ j <= k => m <= k
              OBVIOUS
            <7> QED BY <1>4, <4>3, <6>1, <7>1
          <6> QED BY <1>13, <2>3, <6>1, <6>2
        <5>3. segment[s].boundary # NoBoundary =>
                 suspense'[segment[s].boundary] = suspense[segment[s].boundary]
          <6>1. segment[s].boundary \in BoundaryIds /\ segment[s].boundary <= boundaries
            BY <1>0, InvTypes DEF BoundaryIds, Inv, SegmentTree
          <6> QED BY <1>13, <6>1
        <5>4. /\ place.home[s] <= boundaries /\ place.reg[s] <= boundaries
              /\ Before(place.rank, place.home[s], place.reg[s])
              /\ segment[s].task => place.reg[s] = segment[s].blockedBoundary
              /\ segment[s].task /\ segment[s].boundary = NoBoundary =>
                    place.home[s] = segment[s].abortSet
              /\ segment[s].boundary # NoBoundary =>
                    place.reg[s] = suspense[segment[s].boundary].outer
              /\ segment[s].parent # NoSegment =>
                    /\ place.reg[s] = place.reg[segment[s].parent]
                    /\ place.home[s] = IF segment[segment[s].parent].boundary # NoBoundary
                                       THEN segment[segment[s].parent].boundary
                                       ELSE place.home[segment[s].parent]
          BY <2>1, <4>3 DEF PlaceOf
        <5>5. place.home[s] \in BoundaryIds /\ place.reg[s] \in BoundaryIds
          BY <2>2
        <5>6. /\ place.home[s] <= boundaries' /\ place.reg[s] <= boundaries'
              /\ Before(p.rank, place.home[s], place.reg[s])
          BY <2>6, <3>0, <5>4, <5>5
        <5> QED BY <5>1, <5>2, <5>3, <5>4, <5>6
      <4>4. s = f \/ s = c \/ s <= segments
        BY <1>1, <1>4, <3>2
      <4> QED BY <4>1, <4>2, <4>3, <4>4
    <3>3. ASSUME NEW x \in Boundaries, x <= boundaries'
          PROVE  /\ Before(p.rank, x, suspense'[x].outer)
                 /\ p.reg[suspense'[x].content] = x
                 /\ p.home[suspense'[x].content] = p.home[suspense'[x].fallback]
      <4>0. x \in BoundaryIds
        BY DEF BoundaryIds
      <4>1. CASE x = b
        <5>1. suspense'[x].fallback = f /\ suspense'[x].content = c /\ suspense'[x].outer = cb
          BY <1>8, <1>10, <4>1
        <5> QED BY <2>3, <2>6, <4>1, <5>1
      <4>2. CASE x <= boundaries
        <5>1. suspense'[x] = suspense[x]
          BY <1>13, <4>0, <4>2
        <5>2. /\ Before(place.rank, x, suspense[x].outer)
              /\ place.reg[suspense[x].content] = x
              /\ place.home[suspense[x].content] = place.home[suspense[x].fallback]
          BY <2>1, <4>2 DEF PlaceOf
        <5>3. suspense[x].outer \in BoundaryIds /\ suspense[x].outer < x
          BY <1>0, <4>2, InvTypes DEF BoundaryIds, Inv, BoundaryTree
        <5>4. suspense[x].outer <= boundaries
          <6>1. \A m, j, k \in Nat : m < j /\ j <= k => m <= k
            OBVIOUS
          <6> QED BY <1>4, <4>0, <4>2, <5>3, <6>1
        <5>5. Before(p.rank, x, suspense[x].outer)
          BY <2>6, <4>0, <4>2, <5>2, <5>3, <5>4
        <5>6. /\ p.reg[suspense[x].content] = place.reg[suspense[x].content]
              /\ p.home[suspense[x].content] = place.home[suspense[x].content]
              /\ p.home[suspense[x].fallback] = place.home[suspense[x].fallback]
          BY <2>3, <4>2, NotThere
        <5> QED BY <5>1, <5>2, <5>5, <5>6
      <4>3. x = b \/ x <= boundaries
        BY <1>1, <1>4, <3>3, <4>0
      <4> QED BY <4>1, <4>2, <4>3
    <3>4. ASSUME NEW i \in DOMAIN opened'
          PROVE  p.home[suspense'[opened'[i]].content] = segment'[running].abortSet
      <4>0. segment'[running] = segment[running]
        BY <1>2, <1>13
      <4>1. CASE i \in DOMAIN opened
        <5>1. opened[i] \in Boundaries
          BY <1>0, <4>1, ControlTypes, ElementOfSeq
        <5>2. opened[i] <= boundaries /\ opened[i] \in BoundaryIds
          BY <4>1, <5>1 DEF Inv, OpenState, BoundaryIds
        <5>3. place.home[suspense[opened[i]].content] = segment[running].abortSet
          BY <2>1, <4>1 DEF PlaceOf
        <5>4. p.home[suspense[opened[i]].content] = place.home[suspense[opened[i]].content]
          BY <2>3, <5>1, <5>2, NotThere
        <5>5. suspense'[opened[i]] = suspense[opened[i]] /\ opened'[i] = opened[i]
          BY <1>11, <1>13, <4>1, <5>2
        <5> QED BY <4>0, <5>3, <5>4, <5>5
      <4>2. CASE i = Len(opened) + 1
        <5>1. opened'[i] = b /\ suspense'[b].content = c
          BY <1>8, <1>10, <1>11, <4>2
        <5> QED BY <2>3, <4>0, <5>1 DEF a
      <4> QED BY <1>11, <4>1, <4>2
    <3>5. running' = running
      BY <1>1
    <3> QED BY <3>1, <3>2, <3>3, <3>4, <3>5 DEF PlaceOf
  <2> QED BY <2>4, <2>5, <2>7 DEF Placed
<1>26. calls' \in Seq(CallType)
  BY <1>1 DEF Inv
<1> QED BY <1>12, <1>15, <1>18, <1>19, <1>20, <1>21, <1>22, <1>23, <1>24, <1>25, <1>26, Zenon DEF Inv

(* The end of a boundary's content: it is there, or it threw, and if t     *)
(* the fallback becomes a task.                                            *)
Closes(o, c, f, u, t, st) ==
    /\ o = Last(opened) /\ c = suspense[o].content /\ f = suspense[o].fallback
    /\ u = suspense[o].outer
    /\ t \in BOOLEAN /\ st \in {"COMPLETED", "ERRORED"} /\ (t \/ st = "COMPLETED")
    /\ Rendering /\ opened # << >> /\ opened' = Front(opened)
    /\ UNCHANGED <<segments, boundaries, client, wrappers, queueVars, running, started, requestStatus,
                   flowing, ended, calls>>
    /\ pingedTasks' = IF t THEN Append(pingedTasks, f) ELSE pingedTasks
    /\ allPendingTasks' = allPendingTasks + IF t THEN 1 ELSE 0
    /\ segment'[c] = [segment[c] EXCEPT !.status = st]
    /\ segment'[f] = IF t THEN [segment[f] EXCEPT !.task = TRUE, !.blockedBoundary = u,
                                                  !.abortSet = o]
                     ELSE segment[f]
    /\ \A s \in Segments : s # c /\ s # f => segment'[s] = segment[s]
    /\ ~t => suspense[o].pendingTasks = 0
    /\ \A x \in BoundaryIds :
          /\ suspense'[x].pendingTasks = suspense[x].pendingTasks + IF t /\ x = u THEN 1 ELSE 0
          /\ suspense'[x].fallbackAbortableTasks =
                suspense[x].fallbackAbortableTasks \cup IF t /\ x = o THEN {f} ELSE {}
          /\ suspense'[x].forceClientRender =
                IF x = o /\ st = "ERRORED" THEN TRUE ELSE suspense[x].forceClientRender
          /\ suspense'[x].completedSegments =
                IF x = o /\ st = "COMPLETED" THEN <<c>> ELSE suspense[x].completedSegments
          /\ suspense'[x].parentFlushed = suspense[x].parentFlushed
          /\ suspense'[x].rootSegmentID = suspense[x].rootSegmentID
          /\ suspense'[x].outer = suspense[x].outer /\ suspense'[x].fallback = suspense[x].fallback
          /\ suspense'[x].content = suspense[x].content

(* What is known of a boundary whose content is being rendered.            *)
LEMMA InnermostBoundary ==
    ASSUME Inv, Rendering, opened # << >>,
           NEW o, o = Last(opened), NEW c, c = suspense[o].content,
           NEW f, f = suspense[o].fallback, NEW u, u = suspense[o].outer
    PROVE  /\ o \in Boundaries /\ o \in BoundaryIds /\ o <= boundaries
           /\ Len(opened) \in Nat \ {0} /\ o = opened[Len(opened)] /\ IsOpened(o)
           /\ DOMAIN opened = 1..Len(opened)
           /\ Front(opened) \in Seq(Boundaries)
           /\ DOMAIN Front(opened) = 1..(Len(opened) - 1)
           /\ \A i \in 1..(Len(opened) - 1) :
                 /\ i \in DOMAIN opened /\ Front(opened)[i] = opened[i] /\ opened[i] # o
           /\ f \in Segments /\ c \in Segments /\ c = f + 1 /\ c # f /\ f < c
           /\ f <= segments /\ c <= segments
           /\ segment[f].boundary = o /\ segment[f].status = "PENDING" /\ ~segment[f].task
           /\ segment[f].parent # NoSegment
           /\ segment[c].boundary = NoBoundary /\ segment[c].status = "PENDING" /\ ~segment[c].task
           /\ segment[c].parent = NoSegment
           /\ u \in BoundaryIds /\ u # o /\ u <= boundaries /\ u \notin Complete
           /\ u # Root => suspense[u].fallback < f
           /\ u \in Boundaries => IsOpened(u) \/ suspense[u].pendingTasks # 0
           /\ segment[RootSegment].status = "FLUSHED" => u # Root
           /\ ~suspense[o].forceClientRender /\ suspense[o].completedSegments = << >>
           /\ client[o] = "none" /\ o \notin Complete
           /\ ~segment[f].parentFlushed
           /\ \A x \in Boundaries : x # o /\ x <= boundaries =>
                 /\ suspense[x].fallback # f /\ suspense[x].fallback # c
                 /\ suspense[x].content # f /\ suspense[x].content # c
           /\ running # c /\ running # f /\ RootSegment # c /\ RootSegment # f
<1>0. TypeOK
  BY DEF Inv
<1> DEFINE n == Len(opened)
<1>1. /\ o \in Boundaries /\ n \in Nat \ {0} /\ o = opened[n] /\ DOMAIN opened = 1..n
      /\ Front(opened) \in Seq(Boundaries) /\ DOMAIN Front(opened) = 1..(n - 1)
      /\ \A i \in 1..(n - 1) : Front(opened)[i] = opened[i]
  <2>1. opened \in Seq(Boundaries)
    BY <1>0, ControlTypes
  <2> QED BY <2>1, FrontElements
<1> HIDE DEF n
<1>2. n \in DOMAIN opened /\ IsOpened(o)
  <2>1. n \in DOMAIN opened
    BY <1>1
  <2> QED BY <1>1, <2>1 DEF IsOpened
<1>3. /\ o <= boundaries
      /\ u = IF n = 1 THEN segment[running].blockedBoundary ELSE opened[n - 1]
      /\ \A j \in DOMAIN opened : j < n => opened[j] < o
      /\ ~segment[f].task /\ segment[f].status = "PENDING" /\ segment[c].status = "PENDING"
      /\ ~suspense[o].forceClientRender /\ suspense[o].completedSegments = << >>
      /\ client[o] = "none"
  BY <1>1, <1>2 DEF Inv, OpenState
<1>4. /\ f \in Segments /\ c \in Segments
      /\ c = f + 1 /\ c <= segments
      /\ segment[f].boundary = o
      /\ segment[c].boundary = NoBoundary /\ ~segment[c].task
      /\ segment[c].parent = NoSegment
      /\ u < o
      /\ u # Root => suspense[u].fallback < f
  BY <1>1, <1>3 DEF Inv, BoundaryTree
<1>5. /\ o \in BoundaryIds /\ o \in Nat /\ u \in BoundaryIds /\ u \in Nat /\ boundaries \in Nat
      /\ f \in Nat /\ c \in Nat /\ segments \in Nat
  <2>1. u \in BoundaryIds
    BY <1>0, <1>1, InvTypes DEF BoundaryIds
  <2>2. /\ boundaries \in Nat /\ segments \in Nat /\ Segments \subseteq Nat
        /\ BoundaryIds \subseteq Nat /\ o \in BoundaryIds
    BY <1>0, <1>1, InvTypes DEF BoundaryIds
  <2> QED BY <1>4, <2>1, <2>2
<1>6. c # f /\ f < c /\ f <= segments /\ u # o /\ u <= boundaries
  BY <1>3, <1>4, <1>5
<1>7. \A i \in 1..(n - 1) : i \in DOMAIN opened /\ opened[i] # o
  <2> SUFFICES ASSUME NEW i \in 1..(n - 1) PROVE i \in DOMAIN opened /\ opened[i] # o
    OBVIOUS
  <2>1. i \in DOMAIN opened /\ i < n
    BY <1>1
  <2>2. opened[i] < o /\ opened[i] \in Boundaries
    BY <1>0, <1>3, <2>1, ControlTypes, ElementOfSeq
  <2>3. opened[i] \in Nat
    BY <1>0, <2>2, InvTypes
  <2> QED BY <1>5, <2>1, <2>2, <2>3
<1>8. /\ running \in Segments /\ running # c /\ running # f
      /\ segment[running].blockedBoundary \in BoundaryIds
      /\ suspense[segment[running].blockedBoundary].pendingTasks # 0
      /\ segment[RootSegment].status = "FLUSHED" => segment[running].blockedBoundary # Root
  BY <1>3, <1>4, RunningTask
<1>9. n = 1 => /\ suspense[u].pendingTasks # 0
               /\ segment[RootSegment].status = "FLUSHED" => u # Root
  BY <1>3, <1>8
<1>10. n # 1 => u \in Boundaries /\ IsOpened(u) /\ u # Root
  <2> SUFFICES ASSUME n # 1 PROVE u \in Boundaries /\ IsOpened(u) /\ u # Root
    OBVIOUS
  <2>1. n - 1 \in DOMAIN opened /\ u = opened[n - 1]
    BY <1>1, <1>3
  <2>2. u \in Boundaries
    BY <1>0, <2>1, ControlTypes, ElementOfSeq
  <2> QED BY <1>0, <2>1, <2>2, InvTypes DEF IsOpened
<1>11. /\ u \in Boundaries => IsOpened(u) \/ suspense[u].pendingTasks # 0
       /\ segment[RootSegment].status = "FLUSHED" => u # Root
  <2>1. CASE n = 1
    BY <1>9, <2>1, Zenon
  <2>2. CASE n # 1
    BY <1>10, <2>2, Zenon
  <2> QED BY <2>1, <2>2
<1>12. u \notin Complete /\ o \notin Complete
  BY <1>2, <1>11 DEF Complete, IsOpened
<1>13. segment[f].parent # NoSegment /\ ~segment[f].parentFlushed
  <2>1. o # NoBoundary
    BY <1>0, <1>1, InvTypes
  <2>2. segment[f].parent # NoSegment
    BY <1>4, <2>1 DEF Inv, SegmentTree
  <2>3. PICK place \in Places : ShownState(place.home, place.reg)
    BY DEF Inv, Placed
  <2>4. segment[f].parentFlushed => f \in Reached
    BY <1>4, <2>1, <2>3 DEF ShownState
  <2>5. f \notin Reached
    <3>1. o \notin Shown
      BY <1>0, <1>1, <1>3, InvTypes DEF Shown
    <3> QED BY <1>4, <2>1, <3>1 DEF Reached
  <2>6. segment[f].parentFlushed \in BOOLEAN
    BY <1>0, <1>4, InvTypes
  <2> QED BY <2>2, <2>4, <2>5, <2>6
<1>14. ASSUME NEW x \in Boundaries, x # o, x <= boundaries
       PROVE  /\ suspense[x].fallback # f /\ suspense[x].fallback # c
              /\ suspense[x].content # f /\ suspense[x].content # c
  <2>1. /\ suspense[x].fallback \in Segments /\ suspense[x].content = suspense[x].fallback + 1
        /\ segment[suspense[x].fallback].boundary = x
        /\ segment[suspense[x].content].boundary = NoBoundary
    BY <1>14 DEF Inv, BoundaryTree
  <2>2. x # NoBoundary /\ o # NoBoundary
    BY <1>0, <1>1, InvTypes
  <2>3. suspense[x].fallback # f /\ suspense[x].fallback # c /\ suspense[x].content # f
    BY <1>4, <1>14, <2>1, <2>2
  <2>4. suspense[x].content # c
    <3>1. suspense[x].fallback \in Nat
      BY <1>0, <2>1, InvTypes
    <3> QED BY <1>4, <1>5, <2>1, <2>3, <3>1
  <2> QED BY <2>3, <2>4
<1>15. RootSegment # c /\ RootSegment # f
  <2>1. segment[RootSegment].task
    BY DEF Inv, SegmentTree
  <2> QED BY <1>3, <1>4, <2>1
<1>16. \A i \in 1..(n - 1) : Front(opened)[i] = opened[i] /\ i \in DOMAIN opened /\ opened[i] # o
  BY <1>1, <1>7
<1> QED BY <1>1, <1>2, <1>3, <1>4, <1>5, <1>6, <1>8, <1>11, <1>12, <1>13, <1>14, <1>15, <1>16, Zenon DEF n

(* What the two actions do to the segments and the boundaries.             *)
WithStatus(c, st) == [segment EXCEPT ![c].status = st]
WithFallback(c, f, u, o, st) ==
    [segment EXCEPT ![c].status = st, ![f].task = TRUE, ![f].blockedBoundary = u,
                    ![f].abortSet = o]
WithReady(sus, o, q) == [sus EXCEPT ![o].completedSegments = q]
WithForce(sus, o) == [sus EXCEPT ![o].forceClientRender = TRUE]

ReadyIs(p, sus, o, q) ==
    \A x \in BoundaryIds :
        /\ p[x].completedSegments = IF x = o THEN q ELSE sus[x].completedSegments
        /\ p[x].pendingTasks = sus[x].pendingTasks
        /\ p[x].fallbackAbortableTasks = sus[x].fallbackAbortableTasks
        /\ p[x].forceClientRender = sus[x].forceClientRender
        /\ p[x].parentFlushed = sus[x].parentFlushed
        /\ p[x].rootSegmentID = sus[x].rootSegmentID
        /\ p[x].outer = sus[x].outer /\ p[x].fallback = sus[x].fallback
        /\ p[x].content = sus[x].content

ForceIs(p, sus, o) ==
    \A x \in BoundaryIds :
        /\ p[x].forceClientRender = IF x = o THEN TRUE ELSE sus[x].forceClientRender
        /\ p[x].completedSegments = sus[x].completedSegments
        /\ p[x].pendingTasks = sus[x].pendingTasks
        /\ p[x].fallbackAbortableTasks = sus[x].fallbackAbortableTasks
        /\ p[x].parentFlushed = sus[x].parentFlushed
        /\ p[x].rootSegmentID = sus[x].rootSegmentID
        /\ p[x].outer = sus[x].outer /\ p[x].fallback = sus[x].fallback
        /\ p[x].content = sus[x].content

StatusIs(g, c, st) ==
    /\ g \in [Segments -> SegmentRecord]
    /\ g[c] = [segment[c] EXCEPT !.status = st]
    /\ \A s \in Segments : s # c => g[s] = segment[s]

FallbackIs(g, c, f, u, o, st) ==
    /\ g \in [Segments -> SegmentRecord]
    /\ g[c] = [segment[c] EXCEPT !.status = st]
    /\ g[f] = [segment[f] EXCEPT !.task = TRUE, !.blockedBoundary = u, !.abortSet = o]
    /\ \A s \in Segments : s # c /\ s # f => g[s] = segment[s]

LEMMA StatusUpdate ==
    ASSUME TypeOK, NEW c \in Segments,
           NEW st \in {"COMPLETED", "ERRORED"}, NEW g, g = WithStatus(c, st)
    PROVE  StatusIs(g, c, st)
<1>1. segment \in [Segments -> SegmentRecord]
  BY ControlTypes
<1> DEFINE r == [segment[c] EXCEPT !.status = st]
<1>2. r \in SegmentRecord
  BY <1>1 DEF SegmentRecord
<1>3. g = [segment EXCEPT ![c] = r]
  BY DEF WithStatus
<1> HIDE DEF r
<1>4. g \in [Segments -> SegmentRecord] /\ g[c] = r /\ \A s \in Segments : s # c => g[s] = segment[s]
  BY <1>1, <1>2, <1>3
<1> QED BY <1>4 DEF r, StatusIs

LEMMA FallbackUpdate ==
    ASSUME TypeOK, NEW c \in Segments, NEW f \in Segments, c # f,
           NEW u \in BoundaryIds, NEW o \in BoundaryIds, NEW st \in {"COMPLETED", "ERRORED"},
           NEW g, g = WithFallback(c, f, u, o, st)
    PROVE  FallbackIs(g, c, f, u, o, st)
<1>1. segment \in [Segments -> SegmentRecord]
  BY ControlTypes
<1> DEFINE r == [segment[c] EXCEPT !.status = st]
           q == [segment[f] EXCEPT !.task = TRUE, !.blockedBoundary = u, !.abortSet = o]
<1>2. r \in SegmentRecord
  BY <1>1 DEF SegmentRecord
<1>3. q \in SegmentRecord
  BY <1>1 DEF SegmentRecord, BoundaryIds
<1> DEFINE h == [segment EXCEPT ![c] = r]
<1>4. g = [h EXCEPT ![f] = q]
  BY <1>1 DEF WithFallback
<1>6. h \in [Segments -> SegmentRecord] /\ h[c] = r /\ \A s \in Segments : s # c => h[s] = segment[s]
  <2> HIDE DEF r, q
  <2> QED BY <1>1, <1>2
<1> HIDE DEF r, q, h
<1>5. /\ g \in [Segments -> SegmentRecord] /\ g[c] = r /\ g[f] = q
      /\ \A s \in Segments : s # c /\ s # f => g[s] = segment[s]
  BY <1>3, <1>4, <1>6
<1> QED BY <1>5 DEF r, q, FallbackIs

LEMMA ReadyUpdate ==
    ASSUME NEW sus \in [BoundaryIds -> BoundaryRecord], NEW o \in BoundaryIds,
           NEW q \in Seq(Segments), NEW p, p = WithReady(sus, o, q)
    PROVE  p \in [BoundaryIds -> BoundaryRecord] /\ ReadyIs(p, sus, o, q)
<1> DEFINE r == [sus[o] EXCEPT !.completedSegments = q]
<1>1. r \in BoundaryRecord
  BY DEF BoundaryRecord
<1>2. /\ r.completedSegments = q
      /\ r.pendingTasks = sus[o].pendingTasks
      /\ r.fallbackAbortableTasks = sus[o].fallbackAbortableTasks
      /\ r.forceClientRender = sus[o].forceClientRender
      /\ r.parentFlushed = sus[o].parentFlushed
      /\ r.rootSegmentID = sus[o].rootSegmentID
      /\ r.outer = sus[o].outer /\ r.fallback = sus[o].fallback
      /\ r.content = sus[o].content
  BY DEF BoundaryRecord
<1>3. p = [sus EXCEPT ![o] = r]
  BY DEF WithReady
<1> HIDE DEF r
<1>4. /\ p \in [BoundaryIds -> BoundaryRecord] /\ p[o] = r
      /\ \A x \in BoundaryIds : x # o => p[x] = sus[x]
  BY <1>1, <1>3
<1> QED BY <1>2, <1>4 DEF ReadyIs

LEMMA ForceUpdate ==
    ASSUME NEW sus \in [BoundaryIds -> BoundaryRecord], NEW o \in BoundaryIds,
           NEW p, p = WithForce(sus, o)
    PROVE  p \in [BoundaryIds -> BoundaryRecord] /\ ForceIs(p, sus, o)
<1> DEFINE r == [sus[o] EXCEPT !.forceClientRender = TRUE]
<1>1. r \in BoundaryRecord
  BY DEF BoundaryRecord
<1>2. /\ r.forceClientRender = TRUE
      /\ r.completedSegments = sus[o].completedSegments
      /\ r.pendingTasks = sus[o].pendingTasks
      /\ r.fallbackAbortableTasks = sus[o].fallbackAbortableTasks
      /\ r.parentFlushed = sus[o].parentFlushed
      /\ r.rootSegmentID = sus[o].rootSegmentID
      /\ r.outer = sus[o].outer /\ r.fallback = sus[o].fallback
      /\ r.content = sus[o].content
  BY DEF BoundaryRecord
<1>3. p = [sus EXCEPT ![o] = r]
  BY DEF WithForce
<1> HIDE DEF r
<1>4. /\ p \in [BoundaryIds -> BoundaryRecord] /\ p[o] = r
      /\ \A x \in BoundaryIds : x # o => p[x] = sus[x]
  BY <1>1, <1>3
<1> QED BY <1>2, <1>4 DEF ForceIs

LEMMA CloseEffect ==
    ASSUME Inv, CloseSuspenseBoundary \/ ContentThrows
    PROVE  /\ TypeOK'
           /\ \E o, c, f, u, t, st : Closes(o, c, f, u, t, st)
<1> DEFINE o == Last(opened)
           c == suspense[o].content
           f == suspense[o].fallback
           u == suspense[o].outer
<1>0. TypeOK
  BY DEF Inv
<1>1. Rendering /\ opened # << >>
  BY DEF CloseSuspenseBoundary, ContentThrows
<1>2. /\ o \in BoundaryIds /\ u \in BoundaryIds /\ c \in Segments /\ f \in Segments /\ c # f
      /\ Front(opened) \in Seq(Boundaries) /\ <<c>> \in Seq(Segments)
  <2>1. /\ o \in BoundaryIds /\ u \in BoundaryIds /\ c \in Segments /\ f \in Segments /\ c # f
        /\ Front(opened) \in Seq(Boundaries)
    BY <1>1, InnermostBoundary
  <2> QED BY <2>1
<1> HIDE DEF o, c, f, u
<1>3. /\ opened' = Front(opened)
      /\ UNCHANGED <<segments, boundaries, client, wrappers, clientRenderedBoundaries, completedBoundaries,
                     partialBoundaries, running, started, requestStatus,
                     flowing, ended, calls, next, retries, scheduled, piped, aborted, thrown>>
  BY DEF CloseSuspenseBoundary, ContentThrows, queueVars, outVars, userVars
<1>4. /\ suspense \in [BoundaryIds -> BoundaryRecord] /\ allPendingTasks \in Nat
      /\ pingedTasks \in Seq(Segments)
      /\ \A x \in BoundaryIds : suspense[x].pendingTasks \in Nat
  BY <1>0, ControlTypes, InvTypes DEF BoundaryIds
<1>5. ASSUME segment' \in [Segments -> SegmentRecord], suspense' \in [BoundaryIds -> BoundaryRecord],
             allPendingTasks' \in Nat, pingedTasks' \in Seq(Segments)
      PROVE  TypeOK'
  <2>1. suspense' \in [Boundaries \cup {Root} -> BoundaryRecord]
    BY <1>5 DEF BoundaryIds
  <2>2. opened' \in Seq(Boundaries)
    BY <1>2, <1>3
  <2> QED BY <1>0, <1>3, <1>5, <2>1, <2>2, ControlTypes, TypeNext
<1>6. CASE CloseSuspenseBoundary /\ suspense[o].pendingTasks = 0
  <2>1. /\ segment' = WithStatus(c, "COMPLETED")
        /\ suspense' = WithReady(suspense, o, <<c>>)
        /\ UNCHANGED <<allPendingTasks, pingedTasks>>
    BY <1>6 DEF CloseSuspenseBoundary, o, c, WithStatus, WithReady
  <2>2. StatusIs(segment', c, "COMPLETED")
    BY <1>0, <1>2, <2>1, StatusUpdate
  <2>3. suspense' \in [BoundaryIds -> BoundaryRecord] /\ ReadyIs(suspense', suspense, o, <<c>>)
    BY <1>2, <1>4, <2>1, ReadyUpdate
  <2>4. \A x \in BoundaryIds : suspense'[x].pendingTasks = suspense[x].pendingTasks + 0
    BY <1>4, <2>3 DEF ReadyIs
  <2>5. segment'[f] = segment[f]
    BY <1>2, <2>2 DEF StatusIs
  <2>6. allPendingTasks' = allPendingTasks + 0
    BY <1>4, <2>1
  <2>7. Closes(o, c, f, u, FALSE, "COMPLETED")
    BY <1>1, <1>3, <1>6, <2>1, <2>2, <2>3, <2>4, <2>5, <2>6 DEF Closes, FallbackIs, StatusIs, ReadyIs, o, c, f, u, queueVars
  <2> QED BY <1>4, <1>5, <2>1, <2>2, <2>3, <2>7 DEF StatusIs
<1>7. CASE CloseSuspenseBoundary /\ suspense[o].pendingTasks # 0
  <2> DEFINE w == WithTask(u, o, f)
  <2>1. /\ FallbackTask(o, "COMPLETED")
        /\ suspense' = WithReady(w, o, <<c>>)
    BY <1>7 DEF CloseSuspenseBoundary, o, c, f, u, WithReady
  <2>2. /\ segment' = WithFallback(c, f, u, o, "COMPLETED")
        /\ allPendingTasks' = allPendingTasks + 1 /\ pingedTasks' = Append(pingedTasks, f)
    BY <2>1, Zenon DEF FallbackTask, c, f, u, WithFallback
  <2>3. FallbackIs(segment', c, f, u, o, "COMPLETED")
    BY <1>0, <1>2, <2>2, FallbackUpdate
  <2>4. w \in [BoundaryIds -> BoundaryRecord] /\ TaskAdded(w, u, o, f)
    BY <1>0, <1>2, AddTask
  <2> HIDE DEF w
  <2>5. suspense' \in [BoundaryIds -> BoundaryRecord] /\ ReadyIs(suspense', w, o, <<c>>)
    BY <1>2, <2>1, <2>4, ReadyUpdate
  <2>6. \A x \in BoundaryIds :
          /\ suspense'[x].pendingTasks = suspense[x].pendingTasks + IF x = u THEN 1 ELSE 0
          /\ suspense'[x].fallbackAbortableTasks =
                suspense[x].fallbackAbortableTasks \cup IF x = o THEN {f} ELSE {}
          /\ suspense'[x].forceClientRender = suspense[x].forceClientRender
          /\ suspense'[x].completedSegments = IF x = o THEN <<c>> ELSE suspense[x].completedSegments
          /\ suspense'[x].parentFlushed = suspense[x].parentFlushed
          /\ suspense'[x].rootSegmentID = suspense[x].rootSegmentID
          /\ suspense'[x].outer = suspense[x].outer /\ suspense'[x].fallback = suspense[x].fallback
          /\ suspense'[x].content = suspense[x].content
    BY <2>4, <2>5 DEF TaskAdded, ReadyIs
  <2>7. Closes(o, c, f, u, TRUE, "COMPLETED")
    BY <1>1, <1>3, <2>2, <2>3, <2>6 DEF Closes, FallbackIs, o, c, f, u, queueVars
  <2>8. allPendingTasks' \in Nat /\ pingedTasks' \in Seq(Segments)
    BY <1>2, <1>4, <2>2
  <2>11. segment' \in [Segments -> SegmentRecord]
    BY <2>3 DEF FallbackIs
  <2>12. TypeOK'
    BY <1>5, <2>5, <2>8, <2>11
  <2> QED BY <2>7, <2>12
<1>8. CASE ContentThrows
  <2> DEFINE w == WithTask(u, o, f)
  <2>1. /\ FallbackTask(o, "ERRORED")
        /\ suspense' = WithForce(w, o)
    BY <1>8 DEF ContentThrows, o, c, f, u, WithForce
  <2>2. /\ segment' = WithFallback(c, f, u, o, "ERRORED")
        /\ allPendingTasks' = allPendingTasks + 1 /\ pingedTasks' = Append(pingedTasks, f)
    BY <2>1, Zenon DEF FallbackTask, c, f, u, WithFallback
  <2>3. FallbackIs(segment', c, f, u, o, "ERRORED")
    BY <1>0, <1>2, <2>2, FallbackUpdate
  <2>4. w \in [BoundaryIds -> BoundaryRecord] /\ TaskAdded(w, u, o, f)
    BY <1>0, <1>2, AddTask
  <2> HIDE DEF w
  <2>5. suspense' \in [BoundaryIds -> BoundaryRecord] /\ ForceIs(suspense', w, o)
    BY <1>2, <2>1, <2>4, ForceUpdate
  <2>10. \A x \in BoundaryIds :
          /\ suspense'[x].completedSegments = w[x].completedSegments
          /\ suspense'[x].pendingTasks = w[x].pendingTasks
          /\ suspense'[x].fallbackAbortableTasks = w[x].fallbackAbortableTasks
          /\ suspense'[x].parentFlushed = w[x].parentFlushed
          /\ suspense'[x].rootSegmentID = w[x].rootSegmentID
          /\ suspense'[x].outer = w[x].outer /\ suspense'[x].fallback = w[x].fallback
          /\ suspense'[x].content = w[x].content
    BY <2>5, Zenon DEF ForceIs
  <2>6. \A x \in BoundaryIds :
          /\ suspense'[x].pendingTasks = suspense[x].pendingTasks + IF x = u THEN 1 ELSE 0
          /\ suspense'[x].fallbackAbortableTasks =
                suspense[x].fallbackAbortableTasks \cup IF x = o THEN {f} ELSE {}
          /\ suspense'[x].completedSegments = suspense[x].completedSegments
          /\ suspense'[x].parentFlushed = suspense[x].parentFlushed
          /\ suspense'[x].rootSegmentID = suspense[x].rootSegmentID
          /\ suspense'[x].outer = suspense[x].outer /\ suspense'[x].fallback = suspense[x].fallback
          /\ suspense'[x].content = suspense[x].content
    BY <2>4, <2>10 DEF TaskAdded
  <2>9. \A x \in BoundaryIds :
          suspense'[x].forceClientRender = IF x = o THEN TRUE ELSE suspense[x].forceClientRender
    <3>1. \A x \in BoundaryIds : w[x].forceClientRender = suspense[x].forceClientRender
      BY <2>4, Zenon DEF TaskAdded
    <3>2. \A x \in BoundaryIds :
            suspense'[x].forceClientRender = IF x = o THEN TRUE ELSE w[x].forceClientRender
      BY <2>5, Zenon DEF ForceIs
    <3> QED BY <3>1, <3>2
  <2>7. Closes(o, c, f, u, TRUE, "ERRORED")
    BY <1>1, <1>3, <2>2, <2>3, <2>6, <2>9 DEF Closes, FallbackIs, o, c, f, u, queueVars
  <2>8. allPendingTasks' \in Nat /\ pingedTasks' \in Seq(Segments)
    BY <1>2, <1>4, <2>2
  <2>11. segment' \in [Segments -> SegmentRecord]
    BY <2>3 DEF FallbackIs
  <2>12. TypeOK'
    BY <1>5, <2>5, <2>8, <2>11
  <2> QED BY <2>7, <2>12
<1> QED BY <1>6, <1>7, <1>8

(* How the segments and boundaries compare before and after.               *)
LEMMA CloseSegments ==
    ASSUME Inv, TypeOK', NEW o, NEW c, NEW f, NEW u, NEW t, NEW st, Closes(o, c, f, u, t, st)
    PROVE  /\ segment'[c].status = st /\ segment'[c].parentFlushed = segment[c].parentFlushed
           /\ segment'[c].id = segment[c].id /\ segment'[c].parent = segment[c].parent
           /\ segment'[c].boundary = segment[c].boundary /\ segment'[c].task = segment[c].task
           /\ segment'[c].blockedBoundary = segment[c].blockedBoundary
           /\ segment'[c].abortSet = segment[c].abortSet
           /\ segment'[c].suspended = segment[c].suspended
           /\ segment'[f].status = segment[f].status
           /\ segment'[f].parentFlushed = segment[f].parentFlushed
           /\ segment'[f].id = segment[f].id /\ segment'[f].parent = segment[f].parent
           /\ segment'[f].boundary = segment[f].boundary
           /\ segment'[f].suspended = segment[f].suspended
           /\ ~t => segment'[f] = segment[f]
           /\ t => /\ segment'[f].task /\ segment'[f].blockedBoundary = u
                   /\ segment'[f].abortSet = o
           /\ \A s \in Segments : s # c /\ s # f => segment'[s] = segment[s]
<1>0. TypeOK
  BY DEF Inv
<1>1. segment \in [Segments -> SegmentRecord] /\ segment[c] \in SegmentRecord /\ segment[f] \in SegmentRecord
  <2>1. c \in Segments /\ f \in Segments
    BY InnermostBoundary DEF Closes
  <2> QED BY <1>0, <2>1, ControlTypes
<1>2. /\ segment'[c] = [segment[c] EXCEPT !.status = st]
      /\ segment'[f] = IF t THEN [segment[f] EXCEPT !.task = TRUE, !.blockedBoundary = u,
                                                    !.abortSet = o]
                       ELSE segment[f]
      /\ t \in BOOLEAN
      /\ \A s \in Segments : s # c /\ s # f => segment'[s] = segment[s]
  BY Zenon DEF Closes
<1>3. /\ segment'[c].status = st /\ segment'[c].parentFlushed = segment[c].parentFlushed
      /\ segment'[c].id = segment[c].id /\ segment'[c].parent = segment[c].parent
      /\ segment'[c].boundary = segment[c].boundary /\ segment'[c].task = segment[c].task
      /\ segment'[c].blockedBoundary = segment[c].blockedBoundary
      /\ segment'[c].abortSet = segment[c].abortSet
      /\ segment'[c].suspended = segment[c].suspended
  BY <1>1, <1>2 DEF SegmentRecord
<1>4. CASE t
  <2>1. segment'[f] = [segment[f] EXCEPT !.task = TRUE, !.blockedBoundary = u, !.abortSet = o]
    BY <1>2, <1>4
  <2>2. /\ segment'[f].status = segment[f].status
        /\ segment'[f].parentFlushed = segment[f].parentFlushed
        /\ segment'[f].id = segment[f].id /\ segment'[f].parent = segment[f].parent
        /\ segment'[f].boundary = segment[f].boundary
        /\ segment'[f].suspended = segment[f].suspended
        /\ segment'[f].task = TRUE /\ segment'[f].blockedBoundary = u
        /\ segment'[f].abortSet = o
    BY <1>1, <2>1 DEF SegmentRecord
  <2> QED BY <1>2, <1>3, <1>4, <2>2
<1>5. CASE ~t
  <2>1. segment'[f] = segment[f]
    BY <1>2, <1>5
  <2> QED BY <1>2, <1>3, <1>5, <2>1
<1> QED BY <1>2, <1>4, <1>5

LEMMA CloseBoundaries ==
    ASSUME Inv, TypeOK', NEW o, NEW c, NEW f, NEW u, NEW t, NEW st, Closes(o, c, f, u, t, st)
    PROVE  /\ \A x \in BoundaryIds :
                 /\ suspense'[x].parentFlushed = suspense[x].parentFlushed
                 /\ suspense'[x].outer = suspense[x].outer /\ suspense'[x].fallback = suspense[x].fallback
                 /\ suspense'[x].content = suspense[x].content
                 /\ suspense'[x].fallbackAbortableTasks =
                       suspense[x].fallbackAbortableTasks \cup IF t /\ x = o THEN {f} ELSE {}
                 /\ suspense'[x].pendingTasks = suspense[x].pendingTasks + IF t /\ x = u THEN 1 ELSE 0
                 /\ suspense[x].pendingTasks \in Nat
           /\ \A x \in BoundaryIds : x # o =>
                 /\ suspense'[x].forceClientRender = suspense[x].forceClientRender
                 /\ suspense'[x].completedSegments = suspense[x].completedSegments
           /\ st = "COMPLETED" => /\ suspense'[o].completedSegments = <<c>>
                                  /\ suspense'[o].forceClientRender = suspense[o].forceClientRender
           /\ st # "COMPLETED" => /\ suspense'[o].completedSegments = << >>
                                  /\ suspense'[o].forceClientRender
           /\ \A x \in Boundaries : x > boundaries => suspense'[x] = suspense[x]
<1>0. TypeOK
  BY DEF Inv
<1>1. \A x \in BoundaryIds :
          /\ suspense'[x].pendingTasks = suspense[x].pendingTasks + IF t /\ x = u THEN 1 ELSE 0
          /\ suspense'[x].fallbackAbortableTasks =
                suspense[x].fallbackAbortableTasks \cup IF t /\ x = o THEN {f} ELSE {}
          /\ suspense'[x].completedSegments =
                IF x = o /\ st = "COMPLETED" THEN <<c>> ELSE suspense[x].completedSegments
          /\ suspense'[x].parentFlushed = suspense[x].parentFlushed
          /\ suspense'[x].rootSegmentID = suspense[x].rootSegmentID
          /\ suspense'[x].outer = suspense[x].outer /\ suspense'[x].fallback = suspense[x].fallback
          /\ suspense'[x].content = suspense[x].content
  BY Zenon DEF Closes
<1>2. \A x \in BoundaryIds :
         suspense'[x].forceClientRender =
                IF x = o /\ st = "ERRORED" THEN TRUE ELSE suspense[x].forceClientRender
  BY Zenon DEF Closes
<1>3. /\ o \in BoundaryIds /\ o <= boundaries /\ u \in BoundaryIds /\ u <= boundaries
      /\ suspense[o].completedSegments = << >>
  BY InnermostBoundary DEF Closes
<1>4. \A x \in BoundaryIds : suspense[x].pendingTasks \in Nat
  BY <1>0, InvTypes DEF BoundaryIds
<1>5. \A x \in BoundaryIds : x # o =>
                 /\ suspense'[x].forceClientRender = suspense[x].forceClientRender
                 /\ suspense'[x].completedSegments = suspense[x].completedSegments
  BY <1>1, <1>2
<1>6. st = "COMPLETED" \/ st = "ERRORED"
  BY DEF Closes
<1>7. /\ st = "COMPLETED" => /\ suspense'[o].completedSegments = <<c>>
                             /\ suspense'[o].forceClientRender = suspense[o].forceClientRender
      /\ st # "COMPLETED" => /\ suspense'[o].completedSegments = << >>
                             /\ suspense'[o].forceClientRender
  <2>1. CASE st = "COMPLETED"
    BY <1>1, <1>2, <1>3, <2>1
  <2>2. CASE st = "ERRORED"
    BY <1>1, <1>2, <1>3, <2>2
  <2> QED BY <1>6, <2>1, <2>2
<1>8. ASSUME NEW x \in Boundaries, x > boundaries PROVE suspense'[x] = suspense[x]
  <2>1. x \in BoundaryIds /\ x # o /\ x # u
    <3>1. x \in BoundaryIds
      BY DEF BoundaryIds
    <3>2. x \in Nat /\ boundaries \in Nat /\ o \in Nat /\ u \in Nat
      BY <1>0, <1>3, InvTypes DEF BoundaryIds
    <3> QED BY <1>3, <1>8, <3>1, <3>2
  <2>2. suspense'[x] \in BoundaryRecord /\ suspense[x] \in BoundaryRecord
    BY <1>0, RecordTypes
  <2>3. suspense'[x].pendingTasks = suspense[x].pendingTasks
    BY <1>1, <1>4, <2>1
  <2>4. suspense'[x].fallbackAbortableTasks = suspense[x].fallbackAbortableTasks
    BY <1>1, <2>1
  <2> QED BY <1>1, <1>5, <2>1, <2>2, <2>3, <2>4, SameBoundary
<1> QED BY <1>1, <1>4, <1>5, <1>7, <1>8

LEMMA CloseTree ==
    ASSUME Inv, TypeOK', NEW o, NEW c, NEW f, NEW u, NEW t, NEW st, Closes(o, c, f, u, t, st)
    PROVE  SegmentTree' /\ BoundaryTree' /\ RunState' /\ OpenState'
<1>0. TypeOK
  BY DEF Inv
<1>1. /\ o = Last(opened) /\ c = suspense[o].content /\ f = suspense[o].fallback
      /\ u = suspense[o].outer /\ Rendering /\ opened # << >> /\ opened' = Front(opened)
      /\ t \in BOOLEAN
      /\ UNCHANGED <<segments, boundaries, client, wrappers, running, started, calls>>
      /\ pingedTasks' = IF t THEN Append(pingedTasks, f) ELSE pingedTasks
  BY Zenon DEF Closes
<1>2. /\ o \in Boundaries /\ o \in BoundaryIds /\ o <= boundaries
      /\ f \in Segments /\ c \in Segments /\ f < c /\ f <= segments /\ c <= segments
      /\ segment[f].boundary = o /\ segment[f].status = "PENDING" /\ ~segment[f].task
      /\ segment[f].parent # NoSegment
      /\ segment[c].boundary = NoBoundary /\ ~segment[c].task
      /\ segment[c].parent = NoSegment
      /\ u \in BoundaryIds /\ u # o /\ u <= boundaries
      /\ u # Root => suspense[u].fallback < f
      /\ \A x \in Boundaries : x # o /\ x <= boundaries =>
            /\ suspense[x].fallback # f /\ suspense[x].fallback # c
            /\ suspense[x].content # f /\ suspense[x].content # c
      /\ running # c /\ running # f /\ RootSegment # c /\ RootSegment # f /\ c # f
  BY <1>1, InnermostBoundary
<1>3. /\ segment'[c].status = st /\ segment'[c].parent = segment[c].parent
      /\ segment'[c].boundary = segment[c].boundary /\ segment'[c].task = segment[c].task
      /\ segment'[c].blockedBoundary = segment[c].blockedBoundary
      /\ segment'[c].abortSet = segment[c].abortSet
      /\ segment'[c].suspended = segment[c].suspended
      /\ segment'[f].status = segment[f].status /\ segment'[f].parent = segment[f].parent
      /\ segment'[f].boundary = segment[f].boundary
      /\ segment'[f].suspended = segment[f].suspended
      /\ ~t => segment'[f] = segment[f]
      /\ t => segment'[f].task /\ segment'[f].blockedBoundary = u /\ segment'[f].abortSet = o
      /\ \A s \in Segments : s # c /\ s # f => segment'[s] = segment[s]
  BY CloseSegments
<1>4. /\ \A x \in BoundaryIds :
            /\ suspense'[x].outer = suspense[x].outer /\ suspense'[x].fallback = suspense[x].fallback
            /\ suspense'[x].content = suspense[x].content
      /\ \A x \in BoundaryIds : x # o =>
            /\ suspense'[x].forceClientRender = suspense[x].forceClientRender
            /\ suspense'[x].completedSegments = suspense[x].completedSegments
      /\ \A x \in Boundaries : x > boundaries => suspense'[x] = suspense[x]
  BY CloseBoundaries
<1>5. Root \notin Boundaries /\ o # NoBoundary
  BY <1>0, <1>2, InvTypes
<1>6. SegmentTree'
  <2>1. segment'[RootSegment] = segment[RootSegment]
    BY <1>0, <1>2, <1>3, InvTypes
  <2>2. ASSUME NEW s \in Segments
        PROVE  /\ s > segments => segment'[s] = NewSegment
               /\ segment'[s].parent < s
               /\ segment'[s].boundary <= boundaries
               /\ segment'[s].blockedBoundary <= boundaries
               /\ segment'[s].abortSet <= boundaries
               /\ segment'[s].boundary # NoBoundary =>
                     /\ segment'[s].parent # NoSegment
                     /\ suspense'[segment'[s].boundary].fallback = s
                     /\ segment'[s].task =>
                           /\ segment'[s].abortSet = segment'[s].boundary
                           /\ segment'[s].blockedBoundary = suspense'[segment'[s].boundary].outer
               /\ segment'[s].task /\ segment'[s].blockedBoundary # Root =>
                     suspense'[segment'[s].blockedBoundary].fallback < s
    <3>1. /\ s > segments => segment[s] = NewSegment
          /\ segment[s].parent < s
          /\ segment[s].boundary <= boundaries
          /\ segment[s].blockedBoundary <= boundaries
          /\ segment[s].abortSet <= boundaries
          /\ segment[s].boundary # NoBoundary =>
                /\ segment[s].parent # NoSegment
                /\ suspense[segment[s].boundary].fallback = s
                /\ segment[s].task =>
                      /\ segment[s].abortSet = segment[s].boundary
                      /\ segment[s].blockedBoundary = suspense[segment[s].boundary].outer
          /\ segment[s].task /\ segment[s].blockedBoundary # Root =>
                suspense[segment[s].blockedBoundary].fallback < s
      BY DEF Inv, SegmentTree
    <3>2. segment[s].boundary \in BoundaryIds /\ segment[s].blockedBoundary \in BoundaryIds
      BY <1>0, InvTypes DEF BoundaryIds
    <3>3. /\ suspense'[segment[s].boundary].fallback = suspense[segment[s].boundary].fallback
          /\ suspense'[segment[s].boundary].outer = suspense[segment[s].boundary].outer
          /\ suspense'[segment[s].blockedBoundary].fallback = suspense[segment[s].blockedBoundary].fallback
      BY <1>4, <3>2
    <3>4. s = c \/ s = f => ~(s > segments)
      <4>1. s \in Nat /\ segments \in Nat
        BY <1>0, InvTypes
      <4> QED BY <1>2, <4>1
    <3>5. CASE s # f
      <4>1. /\ segment'[s].parent = segment[s].parent /\ segment'[s].boundary = segment[s].boundary
            /\ segment'[s].task = segment[s].task
            /\ segment'[s].blockedBoundary = segment[s].blockedBoundary
            /\ segment'[s].abortSet = segment[s].abortSet
            /\ s > segments => segment'[s] = segment[s]
        BY <1>3, <3>4, <3>5
      <4> QED BY <3>1, <3>3, <4>1
    <3>6. CASE s = f /\ ~t
      <4>1. segment'[s] = segment[s]
        BY <1>3, <3>6
      <4> QED BY <3>1, <3>3, <4>1
    <3>7. CASE s = f /\ t
      <4>1. /\ segment'[s].parent = segment[s].parent /\ segment'[s].boundary = segment[s].boundary
            /\ segment'[s].task /\ segment'[s].blockedBoundary = u /\ segment'[s].abortSet = o
        BY <1>3, <3>7
      <4>2. segment[s].boundary = o
        BY <1>2, <3>7
      <4>3. suspense'[u].fallback = suspense[u].fallback /\ suspense'[o].outer = u
        BY <1>1, <1>2, <1>4
      <4> QED BY <1>2, <3>1, <3>3, <3>4, <3>7, <4>1, <4>2, <4>3
    <3> QED BY <1>1, <3>5, <3>6, <3>7
  <2>3. segments' = segments /\ boundaries' = boundaries
    BY <1>1
  <2> QED BY <2>1, <2>2, <2>3 DEF Inv, SegmentTree
<1>7. BoundaryTree'
  <2> SUFFICES ASSUME NEW x \in Boundaries
      PROVE  LET fallback == suspense'[x].fallback
                 content  == suspense'[x].content
                 outer    == suspense'[x].outer
             IN
             /\ x > boundaries => suspense'[x] = NewBoundary
             /\ x <= boundaries =>
                   /\ fallback \in Segments /\ content \in Segments
                   /\ content = fallback + 1 /\ content <= segments
                   /\ segment'[fallback].boundary = x
                   /\ segment'[content].boundary = NoBoundary /\ ~segment'[content].task
                   /\ segment'[content].parent = NoSegment
                   /\ outer < x
                   /\ outer # Root => suspense'[outer].fallback < fallback
    <3>1. segments' = segments /\ boundaries' = boundaries
      BY <1>1
    <3> QED BY <3>1 DEF BoundaryTree
  <2>1. /\ x > boundaries => suspense[x] = NewBoundary
        /\ x <= boundaries =>
              /\ suspense[x].fallback \in Segments /\ suspense[x].content \in Segments
              /\ suspense[x].content = suspense[x].fallback + 1 /\ suspense[x].content <= segments
              /\ segment[suspense[x].fallback].boundary = x
              /\ segment[suspense[x].content].boundary = NoBoundary
              /\ ~segment[suspense[x].content].task
              /\ segment[suspense[x].content].parent = NoSegment
              /\ suspense[x].outer < x
              /\ suspense[x].outer # Root => suspense[suspense[x].outer].fallback < suspense[x].fallback
    BY DEF Inv, BoundaryTree
  <2>2. x \in BoundaryIds /\ suspense[x].outer \in BoundaryIds
    BY <1>0, InvTypes DEF BoundaryIds
  <2>3. /\ suspense'[x].outer = suspense[x].outer /\ suspense'[x].fallback = suspense[x].fallback
        /\ suspense'[x].content = suspense[x].content
        /\ suspense'[suspense[x].outer].fallback = suspense[suspense[x].outer].fallback
    BY <1>4, <2>2
  <2>4. x > boundaries => suspense'[x] = suspense[x]
    BY <1>4
  <2>5. ASSUME x <= boundaries
        PROVE  /\ segment'[suspense[x].fallback].boundary = segment[suspense[x].fallback].boundary
               /\ segment'[suspense[x].content].boundary = segment[suspense[x].content].boundary
               /\ segment'[suspense[x].content].task = segment[suspense[x].content].task
               /\ segment'[suspense[x].content].parent = segment[suspense[x].content].parent
    <3>1. suspense[x].content # f
      BY <1>1, <1>2, <2>5
    <3> QED BY <1>3, <2>1, <2>5, <3>1
  <2> QED BY <2>1, <2>3, <2>4, <2>5
<1>8. RunState'
  <2>1. ASSUME NEW s \in Segments, segment[s].task PROVE segment'[s].task
    <3>1. s # c /\ s # f
      BY <1>2, <2>1
    <3> QED BY <1>3, <2>1, <3>1
  <2>2. ASSUME NEW i \in DOMAIN pingedTasks' PROVE segment'[pingedTasks'[i]].task
    <3>0. pingedTasks \in Seq(Segments)
      BY <1>0, ControlTypes
    <3>1. ASSUME NEW j \in DOMAIN pingedTasks PROVE segment'[pingedTasks[j]].task
      <4>1. segment[pingedTasks[j]].task /\ pingedTasks[j] \in Segments
        BY <3>0, ElementOfSeq DEF Inv, RunState
      <4> QED BY <2>1, <4>1
    <3>2. CASE ~t
      BY <1>1, <2>2, <3>1, <3>2
    <3>3. CASE t
      <4>1. pingedTasks' = Append(pingedTasks, f)
        BY <1>1, <3>3
      <4>2. /\ Len(pingedTasks) \in Nat /\ DOMAIN pingedTasks = 1..Len(pingedTasks)
            /\ DOMAIN Append(pingedTasks, f) = 1..(Len(pingedTasks) + 1)
            /\ \A j \in DOMAIN pingedTasks : Append(pingedTasks, f)[j] = pingedTasks[j]
            /\ Append(pingedTasks, f)[Len(pingedTasks) + 1] = f
        BY <1>2, <3>0, AppendElements
      <4>3. i \in DOMAIN pingedTasks \/ i = Len(pingedTasks) + 1
        BY <2>2, <4>1, <4>2
      <4>4. segment'[f].task
        BY <1>3, <3>3
      <4>5. CASE i \in DOMAIN pingedTasks
        <5>1. pingedTasks'[i] = pingedTasks[i]
          BY <4>1, <4>2, <4>5
        <5> QED BY <3>1, <4>5, <5>1
      <4>6. CASE i = Len(pingedTasks) + 1
        <5>1. pingedTasks'[i] = f
          BY <4>1, <4>2, <4>6
        <5> QED BY <4>4, <5>1
      <4> QED BY <4>3, <4>5, <4>6
    <3> QED BY <1>1, <3>2, <3>3
  <2>3. ASSUME NEW s \in Segments, segment'[s].suspended PROVE segment'[s].task
    <3>1. segment[s].suspended
      BY <1>3, <2>3
    <3>2. segment[s].task
      BY <3>1 DEF Inv, RunState
    <3> QED BY <2>1, <3>2
  <2>4. running \in Live' /\ running # NoTask
    <3>1. running \in Segments /\ segment[running].task /\ segment[running].status = "PENDING"
      BY <1>1, RunningTask
    <3> QED BY <1>1, <1>2, <1>3, <3>1 DEF Live, Rendering
  <2>5. running' = running /\ calls' = << >> /\ started' /\ running' \in Live'
    <3>1. started
      BY <1>1 DEF Inv, RunState
    <3> QED BY <1>1, <2>4, <3>1 DEF Rendering
  <2> QED BY <2>2, <2>3, <2>4, <2>5 DEF RunState
<1>9. OpenState'
  <2>0. /\ Len(opened) \in Nat \ {0} /\ DOMAIN opened = 1..Len(opened)
        /\ DOMAIN opened' = 1..(Len(opened) - 1)
        /\ \A i \in DOMAIN opened' : i \in DOMAIN opened /\ opened'[i] = opened[i] /\ opened[i] # o
    BY <1>1, InnermostBoundary
  <2>a. running' = running /\ client' = client /\ boundaries' = boundaries
    BY <1>1
  <2> SUFFICES ASSUME NEW i \in DOMAIN opened'
      PROVE  LET x == opened'[i] IN
             /\ x <= boundaries
             /\ suspense'[x].outer = IF i = 1 THEN segment'[running].blockedBoundary ELSE opened'[i - 1]
             /\ \A j \in DOMAIN opened' : j < i => opened'[j] < x
             /\ ~segment'[suspense'[x].fallback].task
             /\ segment'[suspense'[x].fallback].status = "PENDING"
             /\ segment'[suspense'[x].content].status = "PENDING"
             /\ ~suspense'[x].forceClientRender /\ suspense'[x].completedSegments = << >>
             /\ client[x] = "none"
    BY <2>a, Zenon DEF OpenState
  <2> DEFINE x == opened[i]
  <2>1. i \in DOMAIN opened /\ opened'[i] = x /\ x # o
    BY <2>0
  <2>2. /\ x <= boundaries
        /\ suspense[x].outer = IF i = 1 THEN segment[running].blockedBoundary ELSE opened[i - 1]
        /\ \A j \in DOMAIN opened : j < i => opened[j] < x
        /\ ~segment[suspense[x].fallback].task
        /\ segment[suspense[x].fallback].status = "PENDING"
        /\ segment[suspense[x].content].status = "PENDING"
        /\ ~suspense[x].forceClientRender /\ suspense[x].completedSegments = << >>
        /\ client[x] = "none"
    BY <2>1 DEF Inv, OpenState
  <2>3. x \in Boundaries
    BY <1>0, <2>1, ControlTypes, ElementOfSeq
  <2>4. x \in BoundaryIds
    BY <2>3 DEF BoundaryIds
  <2> HIDE DEF x
  <2>5. /\ suspense'[x].outer = suspense[x].outer /\ suspense'[x].fallback = suspense[x].fallback
        /\ suspense'[x].content = suspense[x].content
        /\ suspense'[x].forceClientRender = suspense[x].forceClientRender
        /\ suspense'[x].completedSegments = suspense[x].completedSegments
    BY <1>4, <2>1, <2>4
  <2>6. /\ segment'[suspense[x].fallback] = segment[suspense[x].fallback]
        /\ segment'[suspense[x].content] = segment[suspense[x].content]
    BY <1>2, <1>3, <2>1, <2>2, <2>3, NotThere
  <2>7. segment'[running] = segment[running]
    BY <1>1, <1>2, <1>3, RunningTask
  <2>8. i # 1 => opened'[i - 1] = opened[i - 1]
    BY <2>0
  <2>9. \A j \in DOMAIN opened' : j < i => opened'[j] < x
    BY <2>0, <2>2
  <2> QED BY <2>1, <2>2, <2>5, <2>6, <2>7, <2>8, <2>9
<1> QED BY <1>6, <1>7, <1>8, <1>9

(* What the end of a boundary's content does to the sets.                  *)
LEMMA CloseSets ==
    ASSUME Inv, TypeOK', NEW o, NEW c, NEW f, NEW u, NEW t, NEW st, Closes(o, c, f, u, t, st)
    PROVE  /\ f \notin Live
           /\ Live' = Live \cup (IF t THEN {f} ELSE {})
           /\ \A x : BlockedBy(x)' = BlockedBy(x) \cup IF t /\ x = u THEN {f} ELSE {}
           /\ Complete \subseteq Complete'
           /\ Shown' = Shown /\ Reached' = Reached /\ Written' = Written
<1>0. TypeOK
  BY DEF Inv
<1>1. /\ o = Last(opened) /\ c = suspense[o].content /\ f = suspense[o].fallback
      /\ u = suspense[o].outer /\ Rendering /\ opened # << >> /\ opened' = Front(opened)
      /\ t \in BOOLEAN /\ st \in {"COMPLETED", "ERRORED"}
      /\ UNCHANGED <<segments, boundaries, client, wrappers, running, started, calls>>
  BY Zenon DEF Closes
<1>2. /\ o \in Boundaries /\ o \in BoundaryIds
      /\ f \in Segments /\ c \in Segments /\ f # c
      /\ segment[f].boundary = o /\ segment[f].status = "PENDING" /\ ~segment[f].task
      /\ segment[c].boundary = NoBoundary /\ ~segment[c].task /\ segment[c].status = "PENDING"
      /\ u \in BoundaryIds /\ u # o /\ u \notin Complete /\ o \notin Complete
      /\ DOMAIN opened = 1..Len(opened) /\ Len(opened) \in Nat \ {0}
      /\ DOMAIN Front(opened) = 1..(Len(opened) - 1)
      /\ \A i \in 1..(Len(opened) - 1) :
            i \in DOMAIN opened /\ Front(opened)[i] = opened[i]
      /\ o # NoBoundary
  <2>1. /\ o \in Boundaries /\ o \in BoundaryIds
      /\ f \in Segments /\ c \in Segments /\ f # c
      /\ segment[f].boundary = o /\ segment[f].status = "PENDING" /\ ~segment[f].task
      /\ segment[c].boundary = NoBoundary /\ ~segment[c].task /\ segment[c].status = "PENDING"
      /\ u \in BoundaryIds /\ u # o /\ u \notin Complete /\ o \notin Complete
      /\ DOMAIN opened = 1..Len(opened) /\ Len(opened) \in Nat \ {0}
      /\ DOMAIN Front(opened) = 1..(Len(opened) - 1)
      /\ \A i \in 1..(Len(opened) - 1) :
            i \in DOMAIN opened /\ Front(opened)[i] = opened[i]
    BY <1>1, InnermostBoundary
  <2>2. o # NoBoundary
    BY <1>0, <2>1, InvTypes
  <2> QED BY <2>1, <2>2
<1>3. /\ segment'[c].status = st /\ segment'[c].task = segment[c].task
      /\ segment'[c].boundary = segment[c].boundary
      /\ segment'[f].status = segment[f].status
      /\ segment'[f].boundary = segment[f].boundary
      /\ ~t => segment'[f] = segment[f]
      /\ t => /\ segment'[f].task /\ segment'[f].blockedBoundary = u
      /\ \A s \in Segments : s # c /\ s # f => segment'[s] = segment[s]
  BY CloseSegments
<1>4. ASSUME NEW s \in Segments
      PROVE  /\ s \in Live' <=> s \in Live \/ (t /\ s = f)
             /\ s \in Live /\ s \in Live' => segment'[s].blockedBoundary = segment[s].blockedBoundary
  <2>1. CASE s = c
    BY <1>2, <1>3, <2>1 DEF Live
  <2>2. CASE s = f
    BY <1>2, <1>3, <2>2 DEF Live
  <2>3. CASE s # c /\ s # f
    BY <1>3, <2>3 DEF Live
  <2> QED BY <2>1, <2>2, <2>3
<1>5. f \notin Live
  BY <1>2 DEF Live
<1>6. Live \subseteq Segments /\ Live' \subseteq Segments
  BY DEF Live
<1>7. Live' = Live \cup (IF t THEN {f} ELSE {})
  BY <1>1, <1>2, <1>4, <1>6
<1>8. ASSUME NEW x
      PROVE  BlockedBy(x)' = BlockedBy(x) \cup IF t /\ x = u THEN {f} ELSE {}
  <2>1. BlockedBy(x)' = {s \in Live' : segment'[s].blockedBoundary = x}
    BY DEF BlockedBy
  <2>2. BlockedBy(x) = {s \in Live : segment[s].blockedBoundary = x}
    BY DEF BlockedBy
  <2>3. CASE t
    <3>1. Live' = Live \cup {f} /\ segment'[f].blockedBoundary = u
      BY <1>3, <1>7, <2>3
    <3> QED BY <1>4, <1>5, <1>6, <2>1, <2>2, <2>3, <3>1
  <2>4. CASE ~t
    <3>1. Live' = Live
      BY <1>7, <2>4
    <3> QED BY <1>4, <1>6, <2>1, <2>2, <2>4, <3>1
  <2> QED BY <2>3, <2>4, <1>1
<1>9. Complete \subseteq Complete'
  <2> SUFFICES ASSUME NEW x \in Complete PROVE x \in Complete'
    OBVIOUS
  <2>1. /\ x \in Boundaries /\ x <= boundaries /\ suspense[x].pendingTasks = 0
        /\ ~suspense[x].forceClientRender /\ \A i \in DOMAIN opened : opened[i] # x
    BY DEF Complete
  <2>2. x \in BoundaryIds /\ x # o /\ x # u
    BY <1>2, <2>1 DEF BoundaryIds
  <2>3. /\ suspense'[x].pendingTasks = suspense[x].pendingTasks + 0
        /\ suspense'[x].forceClientRender = suspense[x].forceClientRender
    BY <2>2, CloseBoundaries
  <2>4. \A i \in DOMAIN opened' : opened'[i] # x
    BY <1>1, <1>2, <2>1
  <2>5. suspense'[x].pendingTasks = 0
    BY <2>1, <2>3
  <2>6. boundaries' = boundaries
    BY <1>1
  <2> QED BY <2>1, <2>3, <2>4, <2>5, <2>6 DEF Complete
<1>10. Shown' = Shown
  BY <1>1 DEF Shown
<1>11. Reached' = Reached /\ Written' = Written
  <2>1. ASSUME NEW s \in Segments
        PROVE  s \in Reached' <=> s \in Reached
    <3>1. CASE s = c
      BY <1>2, <1>3, <3>1 DEF Reached
    <3>2. CASE s = f
      BY <1>2, <1>3, <1>10, <3>2 DEF Reached
    <3>3. CASE s # c /\ s # f
      BY <1>3, <1>10, <3>3 DEF Reached
    <3> QED BY <3>1, <3>2, <3>3
  <2>2. ASSUME NEW s \in Segments
        PROVE  s \in Written' <=> s \in Written
    <3>1. CASE s = c
      BY <1>1, <1>2, <1>3, <3>1 DEF Written
    <3>2. CASE s = f
      BY <1>1, <1>2, <1>3, <3>2 DEF Written
    <3>3. CASE s # c /\ s # f
      BY <1>1, <1>3, <3>3 DEF Written
    <3> QED BY <3>1, <3>2, <3>3
  <2>3. Reached \subseteq Segments /\ Reached' \subseteq Segments
        /\ Written \subseteq Segments /\ Written' \subseteq Segments
    BY DEF Reached, Written
  <2> QED BY <2>1, <2>2, <2>3
<1> QED BY <1>5, <1>7, <1>8, <1>9, <1>10, <1>11

LEMMA CloseStates ==
    ASSUME Inv, TypeOK', NEW o, NEW c, NEW f, NEW u, NEW t, NEW st, Closes(o, c, f, u, t, st)
    PROVE  ClientState' /\ QueuedOnce' /\ RootState' /\ ReadyState' /\ OverState'
<1>0. TypeOK
  BY DEF Inv
<1>1. /\ o = Last(opened) /\ c = suspense[o].content /\ f = suspense[o].fallback
      /\ u = suspense[o].outer /\ Rendering /\ opened # << >> /\ opened' = Front(opened)
      /\ t \in BOOLEAN /\ st \in {"COMPLETED", "ERRORED"}
      /\ UNCHANGED <<segments, boundaries, client, wrappers, requestStatus>>
      /\ UNCHANGED queueVars
  BY Zenon DEF Closes
<1>2. /\ o \in Boundaries /\ o \in BoundaryIds /\ o <= boundaries
      /\ f \in Segments /\ c \in Segments /\ f # c /\ f < c /\ c <= segments
      /\ segment[f].boundary = o /\ segment[f].status = "PENDING" /\ ~segment[f].task
      /\ segment[c].boundary = NoBoundary /\ ~segment[c].task /\ segment[c].status = "PENDING"
      /\ u \in BoundaryIds /\ u # o
      /\ u \in Boundaries => IsOpened(u) \/ suspense[u].pendingTasks # 0
      /\ segment[RootSegment].status = "FLUSHED" => u # Root
      /\ ~suspense[o].forceClientRender /\ suspense[o].completedSegments = << >>
      /\ client[o] = "none" /\ ~segment[f].parentFlushed
      /\ RootSegment # c /\ RootSegment # f
      /\ o = opened[Len(opened)]
      /\ DOMAIN opened = 1..Len(opened) /\ Len(opened) \in Nat \ {0}
      /\ DOMAIN Front(opened) = 1..(Len(opened) - 1)
      /\ \A i \in 1..(Len(opened) - 1) :
            i \in DOMAIN opened /\ Front(opened)[i] = opened[i]
  BY <1>1, InnermostBoundary
<1>3. /\ segment'[c].status = st /\ segment'[c].task = segment[c].task
      /\ segment'[c].boundary = segment[c].boundary
      /\ segment'[c].parentFlushed = segment[c].parentFlushed
      /\ segment'[f].parentFlushed = segment[f].parentFlushed
      /\ segment'[f].status = segment[f].status
      /\ segment'[f].boundary = segment[f].boundary
      /\ \A s \in Segments : s # c /\ s # f => segment'[s] = segment[s]
  BY CloseSegments
<1>4. /\ \A x \in BoundaryIds :
            /\ suspense'[x].parentFlushed = suspense[x].parentFlushed
            /\ suspense'[x].outer = suspense[x].outer /\ suspense'[x].fallback = suspense[x].fallback
            /\ suspense'[x].content = suspense[x].content
      /\ \A x \in BoundaryIds : x # o =>
            /\ suspense'[x].forceClientRender = suspense[x].forceClientRender
            /\ suspense'[x].completedSegments = suspense[x].completedSegments
      /\ st = "COMPLETED" => suspense'[o].completedSegments = <<c>>
      /\ st # "COMPLETED" => /\ suspense'[o].completedSegments = << >>
                             /\ suspense'[o].forceClientRender
  BY CloseBoundaries
<1>5. Complete \subseteq Complete' /\ Shown' = Shown /\ Written' = Written
  BY CloseSets
<1>6. Boundaries \subseteq BoundaryIds /\ Root \in BoundaryIds /\ o # Root
  BY <1>0, <1>2, InvTypes DEF BoundaryIds
<1>7. \A x \in BoundaryIds : suspense[x].forceClientRender => suspense'[x].forceClientRender
  BY <1>2, <1>4
<1>8. ASSUME NEW x \in BoundaryIds
      PROVE  x # u => suspense'[x].pendingTasks = suspense[x].pendingTasks
  <2>1. /\ suspense'[x].pendingTasks = suspense[x].pendingTasks + IF t /\ x = u THEN 1 ELSE 0
        /\ suspense[x].pendingTasks \in Nat
    BY CloseBoundaries
  <2> QED BY <2>1
<1>9. ASSUME NEW x \in BoundaryIds, suspense[x].pendingTasks # 0
      PROVE  suspense'[x].pendingTasks # 0
  <2>1. /\ suspense'[x].pendingTasks = suspense[x].pendingTasks + IF t /\ x = u THEN 1 ELSE 0
        /\ suspense[x].pendingTasks \in Nat
    BY CloseBoundaries
  <2> QED BY <1>9, <2>1
<1>10. ClientState'
  <2>1. /\ \A b \in Boundaries :
            /\ client[b] # "none" <=> suspense[b].parentFlushed
            /\ client[b] = "client" => suspense[b].forceClientRender
            /\ client[b] = "completed" => b \in Complete
        /\ \A b \in ToSet(clientRenderedBoundaries) :
              suspense[b].forceClientRender /\ client[b] # "none"
        /\ \A b \in ToSet(completedBoundaries) : b \in Complete /\ client[b] # "none"
        /\ \A b \in ToSet(partialBoundaries) : client[b] # "none"
    BY DEF Inv, ClientState
  <2>2. ToSet(clientRenderedBoundaries) \subseteq Boundaries
    BY <1>0, ControlTypes, RangeOfSet DEF ToSet, Range
  <2>3. UNCHANGED <<client, wrappers, clientRenderedBoundaries, completedBoundaries, partialBoundaries>>
    BY <1>1 DEF queueVars
  <2>4. \A b \in Boundaries :
            /\ client[b] # "none" <=> suspense'[b].parentFlushed
            /\ client[b] = "client" => suspense'[b].forceClientRender
            /\ client[b] = "completed" => b \in Complete'
    BY <1>4, <1>5, <1>6, <1>7, <2>1
  <2>5. \A b \in ToSet(clientRenderedBoundaries) :
              suspense'[b].forceClientRender /\ client[b] # "none"
    BY <1>6, <1>7, <2>1, <2>2
  <2>6. \A b \in ToSet(completedBoundaries) : b \in Complete' /\ client[b] # "none"
    BY <1>5, <2>1
  <2> QED BY <2>1, <2>3, <2>4, <2>5, <2>6 DEF ClientState
<1>11. QueuedOnce'
  <2> SUFFICES ASSUME NEW b \in Boundaries
               PROVE
        /\ Count(clientRenderedBoundaries', b) =
             IF client'[b] = "pending" /\ suspense'[b].forceClientRender THEN 1 ELSE 0
        /\ \/ Count(completedBoundaries', b) =
                 IF client'[b] = "pending" /\ ~suspense'[b].forceClientRender
                      /\ suspense'[b].pendingTasks = 0 THEN 1 ELSE 0
           \/ Count(completedBoundaries', b) = 1 /\ ShownTwice(b)'
    BY Zenon DEF QueuedOnce
  <2>1. UNCHANGED <<client, wrappers, clientRenderedBoundaries, completedBoundaries>>
    BY <1>1 DEF queueVars
  <2>2. client[b] = "pending" => /\ suspense'[b].forceClientRender = suspense[b].forceClientRender
                                 /\ suspense'[b].pendingTasks = 0 <=> suspense[b].pendingTasks = 0
    <3> SUFFICES ASSUME client[b] = "pending"
        PROVE  /\ suspense'[b].forceClientRender = suspense[b].forceClientRender
               /\ suspense'[b].pendingTasks = 0 <=> suspense[b].pendingTasks = 0
      OBVIOUS
    <3>1. b # o /\ b \in BoundaryIds
      BY <1>2, <1>6
    <3>2. ~IsOpened(b)
      BY DEF IsOpened, Inv, OpenState
    <3>3. b = u => suspense[b].pendingTasks # 0
      BY <1>2, <3>2
    <3> QED BY <1>4, <1>8, <1>9, <3>1, <3>3
  <2>3. ShownTwice(b) => ShownTwice(b)'
    <3> SUFFICES ASSUME ShownTwice(b) PROVE ShownTwice(b)'
      OBVIOUS
    <3>1. client[b] = "completed" /\ segment[suspense[b].fallback].id # NoID
          /\ segment[suspense[b].fallback].status \in {"COMPLETED", "FLUSHED"}
      BY DEF ShownTwice
    <3>2. b <= boundaries
      BY <3>1 DEF Inv, ClientState, Complete
    <3>3. suspense[b].fallback \in Segments
      BY <3>2 DEF Inv, BoundaryTree
    <3>4. suspense[b].fallback # c /\ suspense[b].fallback # f
      BY <1>2, <3>1
    <3>5. segment'[suspense[b].fallback] = segment[suspense[b].fallback]
          /\ suspense'[b].fallback = suspense[b].fallback
      BY <1>3, <1>4, <1>6, <3>3, <3>4
    <3> QED BY <2>1, <3>1, <3>5 DEF ShownTwice
  <2>4. /\ Count(clientRenderedBoundaries, b) =
             IF client[b] = "pending" /\ suspense[b].forceClientRender THEN 1 ELSE 0
        /\ \/ Count(completedBoundaries, b) =
                 IF client[b] = "pending" /\ ~suspense[b].forceClientRender
                      /\ suspense[b].pendingTasks = 0 THEN 1 ELSE 0
           \/ Count(completedBoundaries, b) = 1 /\ ShownTwice(b)
    BY DEF Inv, QueuedOnce
  <2> QED BY <2>1, <2>2, <2>3, <2>4
<1>12. RootState'
  <2>1. RootSegment \in Segments
    BY <1>0, InvTypes
  <2>2. segment'[RootSegment] = segment[RootSegment]
    BY <1>2, <1>3, <2>1
  <2>3. suspense'[Root].completedSegments = suspense[Root].completedSegments
    BY <1>4, <1>6
  <2>4. segment[RootSegment].status = "FLUSHED" => suspense'[Root].pendingTasks = 0
    BY <1>2, <1>6, <1>8 DEF Inv, RootState
  <2>5. ASSUME segment[RootSegment].status # "FLUSHED", NEW s \in Segments \ {RootSegment},
               segment'[s].task
        PROVE  ~segment'[s].parentFlushed
    <3>1. CASE s = c
      BY <1>2, <1>3, <2>5, <3>1
    <3>2. CASE s = f
      BY <1>2, <1>3, <3>2
    <3>3. CASE s # c /\ s # f
      BY <1>3, <2>5, <3>3 DEF Inv, RootState
    <3> QED BY <3>1, <3>2, <3>3
  <2>6. client' = client
    BY <1>1
  <2> QED BY <2>2, <2>3, <2>4, <2>5, <2>6 DEF Inv, RootState
<1>13. ReadyState'
  <2> SUFFICES ASSUME NEW b \in Boundaries, b <= boundaries'
      PROVE
        /\ \A s \in ToSet(suspense'[b].completedSegments) :
              /\ s > suspense'[b].fallback /\ s <= segments'
              /\ segment'[s].status \in {"COMPLETED", "FLUSHED"}
              /\ \/ s = suspense'[b].content
                 \/ /\ segment'[s].task /\ segment'[s].blockedBoundary = b
                    /\ segment'[s].parentFlushed /\ segment'[s].id # NoID
        /\ (\A i \in DOMAIN opened' : opened'[i] # b) /\ ~suspense'[b].forceClientRender =>
              \/ suspense'[b].content \in ToSet(suspense'[b].completedSegments)
              \/ segment'[suspense'[b].content].status = "FLUSHED"
        /\ client'[b] = "completed" =>
              \A s \in ToSet(suspense'[b].completedSegments) : s \in Written'
    BY Zenon DEF ReadyState
  <2>1. b <= boundaries /\ b \in BoundaryIds /\ segments' = segments /\ client' = client
    BY <1>1, <1>6
  <2>2. /\ suspense'[b].fallback = suspense[b].fallback
        /\ suspense'[b].content = suspense[b].content
    BY <1>4, <2>1
  <2>3. CASE b = o
    <3>1. CASE st = "COMPLETED"
      <4>1. suspense'[b].completedSegments = <<c>> /\ ToSet(<<c>>) = {c}
        <5>1. ToSet(<<c>>) = {c}
          BY DEF ToSet
        <5> QED BY <1>4, <2>3, <3>1, <5>1
      <4>2. c > f
        BY <1>0, <1>2, InvTypes
      <4>3. /\ c > suspense'[b].fallback /\ c <= segments' /\ c = suspense'[b].content
            /\ segment'[c].status \in {"COMPLETED", "FLUSHED"}
        BY <1>1, <1>2, <1>3, <2>1, <2>2, <2>3, <3>1, <4>2
      <4>4. client'[b] # "completed"
        BY <1>2, <2>1, <2>3
      <4> QED BY <4>1, <4>3, <4>4
    <3>2. CASE st # "COMPLETED"
      <4>1. suspense'[b].completedSegments = << >> /\ ToSet(<< >>) = {} /\ suspense'[b].forceClientRender
        <5>1. ToSet(<< >>) = {}
          BY DEF ToSet
        <5> QED BY <1>4, <2>3, <3>2, <5>1
      <4> QED BY <4>1
    <3> QED BY <3>1, <3>2
  <2>4. CASE b # o
    <3>1. /\ suspense'[b].forceClientRender = suspense[b].forceClientRender
          /\ suspense'[b].completedSegments = suspense[b].completedSegments
      BY <1>4, <2>1, <2>4
    <3>2. /\ \A s \in ToSet(suspense[b].completedSegments) :
                /\ s > suspense[b].fallback /\ s <= segments
                /\ segment[s].status \in {"COMPLETED", "FLUSHED"}
                /\ \/ s = suspense[b].content
                   \/ /\ segment[s].task /\ segment[s].blockedBoundary = b
                      /\ segment[s].parentFlushed /\ segment[s].id # NoID
          /\ (\A i \in DOMAIN opened : opened[i] # b) /\ ~suspense[b].forceClientRender =>
                \/ suspense[b].content \in ToSet(suspense[b].completedSegments)
                \/ segment[suspense[b].content].status = "FLUSHED"
          /\ client[b] = "completed" =>
                \A s \in ToSet(suspense[b].completedSegments) : s \in Written
      BY <2>1 DEF Inv, ReadyState
    <3>3. ToSet(suspense[b].completedSegments) \subseteq Segments
      <4>1. suspense[b].completedSegments \in Seq(Segments)
        BY <1>0, <2>1, InvTypes DEF BoundaryIds
      <4> QED BY <4>1, RangeOfSet DEF ToSet, Range
    <3>4. \A s \in Segments : segment[s].status # "PENDING" => segment'[s] = segment[s]
      BY <1>2, <1>3
    <3>5. suspense[b].content \in Segments
      BY <2>1 DEF Inv, BoundaryTree
    <3>6. (\A i \in DOMAIN opened' : opened'[i] # b) => \A i \in DOMAIN opened : opened[i] # b
      <4>0. \A n \in Nat : \A i \in 1..n : i = n \/ i \in 1..(n - 1)
        OBVIOUS
      <4>1. \A i \in 1..Len(opened) : i = Len(opened) \/ i \in 1..(Len(opened) - 1)
        BY <1>2, <4>0, Zenon
      <4>2. opened' = Front(opened)
        BY <1>1
      <4>3. \A i \in 1..(Len(opened) - 1) : i \in DOMAIN opened' /\ opened'[i] = opened[i]
        BY <1>2, <4>2
      <4>4. DOMAIN opened = 1..Len(opened) /\ opened[Len(opened)] # b
        BY <1>2, <2>4
      <4> QED BY <4>1, <4>3, <4>4
    <3>7. \A s \in ToSet(suspense[b].completedSegments) : segment'[s] = segment[s]
      BY <3>2, <3>3, <3>4
    <3>8. segment[suspense[b].content].status = "FLUSHED" =>
             segment'[suspense[b].content] = segment[suspense[b].content]
      BY <3>4, <3>5
    <3> QED BY <1>5, <2>1, <2>2, <3>1, <3>2, <3>6, <3>7, <3>8
  <2> QED BY <2>3, <2>4
<1>14. OverState'
  <2> SUFFICES ASSUME NEW s \in Segments, segment'[s].task
      PROVE
        LET b == segment'[s].blockedBoundary
            a == segment'[s].abortSet
        IN
        /\ segment'[s].parentFlushed /\ s # RootSegment =>
              segment'[s].id # NoID \/ segment'[s].status = "FLUSHED"
        /\ segment'[s].status = "ABORTED" =>
              \/ requestStatus' # "OPEN"
              \/ b # Root /\ suspense'[b].forceClientRender
              \/ a \in Complete'
        /\ segment'[s].status = "ERRORED" =>
              \/ requestStatus' # "OPEN"
              \/ b # Root /\ suspense'[b].forceClientRender
        /\ segment'[s].status = "COMPLETED" /\ segment'[s].parentFlushed =>
              \/ b = Root /\ s = RootSegment
              \/ /\ b # Root
                 /\ \/ suspense'[b].forceClientRender
                    \/ s \in ToSet(suspense'[b].completedSegments)
                    \/ s \in Written'
    BY Zenon DEF OverState
  <2>1. CASE s = f
    BY <1>2, <1>3, <2>1
  <2>2. s # c
    BY <1>2, <1>3
  <2>3. CASE s # f
    <3>1. segment'[s] = segment[s]
      BY <1>3, <2>2, <2>3
    <3>2. segment[s].blockedBoundary \in BoundaryIds
      BY <1>0, InvTypes DEF BoundaryIds
    <3>3. \A x \in BoundaryIds : ToSet(suspense[x].completedSegments) \subseteq ToSet(suspense'[x].completedSegments)
      <4>1. ToSet(<< >>) = {}
        BY DEF ToSet
      <4> QED BY <1>2, <1>4, <4>1
    <3>4. LET b == segment[s].blockedBoundary
              a == segment[s].abortSet
          IN
          /\ segment[s].parentFlushed /\ s # RootSegment =>
                segment[s].id # NoID \/ segment[s].status = "FLUSHED"
          /\ segment[s].status = "ABORTED" =>
                \/ requestStatus # "OPEN"
                \/ b # Root /\ suspense[b].forceClientRender
                \/ a \in Complete
          /\ segment[s].status = "ERRORED" =>
                \/ requestStatus # "OPEN"
                \/ b # Root /\ suspense[b].forceClientRender
          /\ segment[s].status = "COMPLETED" /\ segment[s].parentFlushed =>
                \/ b = Root /\ s = RootSegment
                \/ /\ b # Root
                   /\ \/ suspense[b].forceClientRender
                      \/ s \in ToSet(suspense[b].completedSegments)
                      \/ s \in Written
      BY <3>1 DEF Inv, OverState
    <3> QED BY <1>1, <1>5, <1>7, <3>1, <3>2, <3>3, <3>4
  <2> QED BY <2>1, <2>3
<1> QED BY <1>10, <1>11, <1>12, <1>13, <1>14

LEMMA CloseStep ==
    ASSUME Inv, TypeOK', NEW o, NEW c, NEW f, NEW u, NEW t, NEW st, Closes(o, c, f, u, t, st)
    PROVE  Inv'
<1>0. TypeOK
  BY DEF Inv
<1>1. /\ o = Last(opened) /\ c = suspense[o].content /\ f = suspense[o].fallback
      /\ u = suspense[o].outer /\ Rendering /\ opened # << >> /\ opened' = Front(opened)
      /\ t \in BOOLEAN /\ st \in {"COMPLETED", "ERRORED"}
      /\ allPendingTasks' = allPendingTasks + IF t THEN 1 ELSE 0
      /\ UNCHANGED <<segments, boundaries, client, wrappers, running, requestStatus, flowing, ended, calls>>
  BY Zenon DEF Closes
<1>2. /\ o \in Boundaries /\ o \in BoundaryIds /\ o <= boundaries
      /\ f \in Segments /\ c \in Segments /\ f # c
      /\ segment[f].boundary = o
      /\ segment[c].boundary = NoBoundary /\ ~segment[c].task /\ segment[c].status = "PENDING"
      /\ u \in BoundaryIds
      /\ RootSegment # c /\ RootSegment # f /\ running # c /\ running # f
      /\ DOMAIN Front(opened) = 1..(Len(opened) - 1)
      /\ \A i \in 1..(Len(opened) - 1) :
            i \in DOMAIN opened /\ Front(opened)[i] = opened[i]
  BY <1>1, InnermostBoundary
<1>3. /\ segment'[c].parent = segment[c].parent
      /\ segment'[c].boundary = segment[c].boundary /\ segment'[c].task = segment[c].task
      /\ segment'[c].abortSet = segment[c].abortSet
      /\ segment'[c].blockedBoundary = segment[c].blockedBoundary
      /\ segment'[c].parentFlushed = segment[c].parentFlushed
      /\ segment'[f].parent = segment[f].parent
      /\ segment'[f].boundary = segment[f].boundary
      /\ segment'[f].status = segment[f].status
      /\ segment'[f].parentFlushed = segment[f].parentFlushed
      /\ ~t => segment'[f] = segment[f]
      /\ t => /\ segment'[f].task /\ segment'[f].blockedBoundary = u
              /\ segment'[f].abortSet = o
      /\ \A s \in Segments : s # c /\ s # f => segment'[s] = segment[s]
  BY CloseSegments
<1>4. \A x \in BoundaryIds :
            /\ suspense'[x].outer = suspense[x].outer /\ suspense'[x].fallback = suspense[x].fallback
            /\ suspense'[x].content = suspense[x].content
            /\ suspense'[x].fallbackAbortableTasks =
                       suspense[x].fallbackAbortableTasks \cup IF t /\ x = o THEN {f} ELSE {}
            /\ suspense'[x].pendingTasks = suspense[x].pendingTasks + IF t /\ x = u THEN 1 ELSE 0
            /\ suspense[x].pendingTasks \in Nat
  BY CloseBoundaries
<1>5. /\ f \notin Live
      /\ Live' = Live \cup (IF t THEN {f} ELSE {})
      /\ \A x : BlockedBy(x)' = BlockedBy(x) \cup IF t /\ x = u THEN {f} ELSE {}
      /\ Shown' = Shown /\ Reached' = Reached
  BY CloseSets
<1>6. calls = << >> /\ calls' = << >> /\ running \in Segments /\ running # NoTask
      /\ DOMAIN calls = {} /\ DOMAIN calls' = {}
  <2>1. calls = << >> /\ running \in Segments /\ running # NoTask
    BY <1>1, RunningTask DEF Rendering
  <2> QED BY <1>1, <2>1, EmptyCalls
<1>7. Boundaries \subseteq BoundaryIds /\ Root \in BoundaryIds /\ RootSegment \in Segments
  BY <1>0, InvTypes DEF BoundaryIds
<1>8. SegmentTree' /\ BoundaryTree' /\ RunState' /\ OpenState'
  BY CloseTree
<1>9. ClientState' /\ QueuedOnce' /\ RootState' /\ ReadyState' /\ OverState'
  BY CloseStates
<1>10. CountState'
  <2>0. /\ segment'[RootSegment].status = segment[RootSegment].status
        /\ requestStatus' = requestStatus
    BY <1>1, <1>2, <1>3, <1>7
  <2>1. CASE t
    <3>1. /\ Live' = Live \cup {f}
          /\ \A x : BlockedBy(x)' = BlockedBy(x) \cup IF x = u THEN {f} ELSE {}
      BY <1>5, <2>1
    <3>2. allPendingTasks' = allPendingTasks + 1
      BY <1>1, <2>1
    <3>3. \A x \in BoundaryIds :
             suspense'[x].pendingTasks = suspense[x].pendingTasks + IF x = u THEN 1 ELSE 0
      BY <1>4, <2>1
    <3> QED BY <1>2, <1>5, <1>6, <2>0, <3>1, <3>2, <3>3, AddCounts
  <2>2. CASE ~t
    <3>1. Live' = Live /\ \A x : BlockedBy(x)' = BlockedBy(x)
      BY <1>5, <2>2
    <3>2. allPendingTasks' = allPendingTasks
      <4>1. allPendingTasks \in Nat /\ allPendingTasks' = allPendingTasks + 0
        BY <1>0, <1>1, <2>2, ControlTypes
      <4> QED BY <4>1
    <3>3. \A x \in BoundaryIds : suspense'[x].pendingTasks = suspense[x].pendingTasks
      <4>1. \A x \in BoundaryIds : /\ suspense[x].pendingTasks \in Nat
                                   /\ suspense'[x].pendingTasks = suspense[x].pendingTasks + 0
        BY <1>4, <2>2
      <4> QED BY <4>1
    <3>4. \A x \in Boundaries : suspense'[x].pendingTasks = Cardinality(BlockedBy(x))
      BY <1>7, <3>3 DEF Inv, CountState
    <3>5. \A x : Cardinality(BlockedBy(x)') = Cardinality(BlockedBy(x))
      BY <3>1
    <3>6. suspense'[Root].pendingTasks = suspense[Root].pendingTasks /\ calls' = calls
      BY <1>6, <1>7, <3>3
    <3>7. /\ allPendingTasks = Cardinality(Live) + Count(calls, Call("taskDone", 0))
          /\ suspense[Root].pendingTasks >= Cardinality(BlockedBy(Root))
          /\ requestStatus = "OPEN" => suspense[Root].pendingTasks = Cardinality(BlockedBy(Root))
          /\ segment[RootSegment].status \in {"ABORTED", "ERRORED"} =>
                suspense[Root].pendingTasks > Cardinality(BlockedBy(Root))
      BY DEF Inv, CountState
    <3> QED BY <2>0, <3>1, <3>2, <3>4, <3>5, <3>6, <3>7 DEF CountState
  <2> QED BY <1>1, <2>1, <2>2
<1>11. SetState'
  <2>1. \A s \in Live : /\ s \in Live' /\ segment'[s].task
                        /\ segment'[s].abortSet = segment[s].abortSet
    <3> SUFFICES ASSUME NEW s \in Live
        PROVE  s \in Live' /\ segment'[s].task /\ segment'[s].abortSet = segment[s].abortSet
      OBVIOUS
    <3>1. s \in Segments /\ segment[s].task /\ s # f /\ s # c
      BY <1>2, <1>5 DEF Live
    <3> QED BY <1>3, <1>5, <3>1
  <2>2. CASE t
    <3>1. \A x \in BoundaryIds : suspense'[x].fallbackAbortableTasks =
              suspense[x].fallbackAbortableTasks \cup IF x = o THEN {f} ELSE {}
      BY <1>4, <2>2
    <3>2. f \in Live'
      BY <1>5, <2>2
    <3>3. segment'[f].task /\ segment'[f].abortSet = o
      BY <1>3, <2>2
    <3> QED BY <1>2, <1>6, <2>1, <3>1, <3>2, <3>3, AddedSet
  <2>3. CASE ~t
    <3>1. \A x \in BoundaryIds : suspense'[x].fallbackAbortableTasks = suspense[x].fallbackAbortableTasks
      BY <1>4, <2>3
    <3>2. ASSUME NEW x \in BoundaryIds, NEW s \in suspense[x].fallbackAbortableTasks
          PROVE  s \in Live /\ segment[s].abortSet = x
      BY <1>6, <3>2 DEF Inv, SetState, BoundaryIds
    <3> QED BY <1>6, <2>1, <3>1, <3>2 DEF SetState, BoundaryIds
  <2> QED BY <1>1, <2>2, <2>3
<1>12. FlowState'
  BY <1>1, <1>6, RenderFlow DEF Rendering
<1>13. Placed'
  <2>1. PICK place \in Places : /\ PlaceOf(place)
                                /\ StackState(place.rank)
                                /\ ShownState(place.home, place.reg)
    BY DEF Inv, Placed
  <2>2. PlaceOf(place)'
    <3>1. /\ place.home[RootSegment] = Root /\ place.reg[RootSegment] = Root
          /\ place.rank[Root] = 0
      BY <2>1 DEF PlaceOf
    <3>2. ASSUME NEW s \in Segments, s <= segments'
          PROVE  /\ place.home[s] <= boundaries' /\ place.reg[s] <= boundaries'
                 /\ Before(place.rank, place.home[s], place.reg[s])
                 /\ segment'[s].task => place.reg[s] = segment'[s].blockedBoundary
                 /\ segment'[s].task /\ segment'[s].boundary = NoBoundary =>
                       place.home[s] = segment'[s].abortSet
                 /\ segment'[s].boundary # NoBoundary =>
                       place.reg[s] = suspense'[segment'[s].boundary].outer
                 /\ segment'[s].parent # NoSegment =>
                       /\ place.reg[s] = place.reg[segment'[s].parent]
                       /\ place.home[s] = IF segment'[segment'[s].parent].boundary # NoBoundary
                                          THEN segment'[segment'[s].parent].boundary
                                          ELSE place.home[segment'[s].parent]
      <4>1. /\ place.home[s] <= boundaries /\ place.reg[s] <= boundaries
            /\ Before(place.rank, place.home[s], place.reg[s])
            /\ segment[s].task => place.reg[s] = segment[s].blockedBoundary
            /\ segment[s].task /\ segment[s].boundary = NoBoundary =>
                  place.home[s] = segment[s].abortSet
            /\ segment[s].boundary # NoBoundary =>
                  place.reg[s] = suspense[segment[s].boundary].outer
            /\ segment[s].parent # NoSegment =>
                  /\ place.reg[s] = place.reg[segment[s].parent]
                  /\ place.home[s] = IF segment[segment[s].parent].boundary # NoBoundary
                                     THEN segment[segment[s].parent].boundary
                                     ELSE place.home[segment[s].parent]
        BY <1>1, <2>1, <3>2 DEF PlaceOf
      <4>2. segment'[s].parent = segment[s].parent /\ segment'[s].boundary = segment[s].boundary
        BY <1>3
      <4>3. segment[s].parent # NoSegment =>
               segment'[segment[s].parent].boundary = segment[segment[s].parent].boundary
        <5>1. segment[s].parent \in Segments \cup {NoSegment}
          BY <1>0, InvTypes
        <5> QED BY <1>3, <5>1
      <4>4. segment'[s].boundary # NoBoundary =>
               suspense'[segment'[s].boundary].outer = suspense[segment[s].boundary].outer
        <5>1. segment[s].boundary \in BoundaryIds
          BY <1>0, InvTypes DEF BoundaryIds
        <5> QED BY <1>4, <4>2, <5>1
      <4>5. /\ segment'[s].task => place.reg[s] = segment'[s].blockedBoundary
            /\ segment'[s].task /\ segment'[s].boundary = NoBoundary =>
                  place.home[s] = segment'[s].abortSet
        <5>1. CASE s = f
          <6>1. place.reg[s] = u
            <7>1. segment[s].boundary # NoBoundary /\ segment[s].boundary = o
              BY <1>0, <1>2, <5>1, InvTypes
            <7> QED BY <1>1, <4>1, <7>1
          <6>2. segment'[s].boundary # NoBoundary
            BY <1>0, <1>2, <4>2, <5>1, InvTypes
          <6>3. CASE t
            BY <1>3, <5>1, <6>1, <6>2, <6>3
          <6>4. CASE ~t
            BY <1>3, <4>1, <5>1, <6>2, <6>4
          <6> QED BY <1>1, <6>3, <6>4
        <5>2. CASE s = c
          BY <1>2, <1>3, <5>2
        <5>3. CASE s # f /\ s # c
          BY <1>3, <4>1, <5>3
        <5> QED BY <5>1, <5>2, <5>3
      <4>6. boundaries' = boundaries
        BY <1>1
      <4> QED BY <4>1, <4>2, <4>3, <4>4, <4>5, <4>6
    <3>3. ASSUME NEW b \in Boundaries, b <= boundaries'
          PROVE  /\ Before(place.rank, b, suspense'[b].outer)
                 /\ place.reg[suspense'[b].content] = b
                 /\ place.home[suspense'[b].content] = place.home[suspense'[b].fallback]
      <4>1. /\ Before(place.rank, b, suspense[b].outer)
            /\ place.reg[suspense[b].content] = b
            /\ place.home[suspense[b].content] = place.home[suspense[b].fallback]
        BY <1>1, <2>1, <3>3 DEF PlaceOf
      <4> QED BY <1>4, <1>7, <4>1
    <3>4. ASSUME NEW i \in DOMAIN opened'
          PROVE  place.home[suspense'[opened'[i]].content] = segment'[running].abortSet
      <4>1. i \in DOMAIN opened /\ opened'[i] = opened[i]
        BY <1>1, <1>2
      <4>2. opened[i] \in Boundaries
        BY <1>0, <4>1, ControlTypes, ElementOfSeq
      <4>3. suspense'[opened[i]].content = suspense[opened[i]].content
        BY <1>4, <1>7, <4>2
      <4>4. segment'[running] = segment[running]
        BY <1>2, <1>3, <1>6
      <4>5. place.home[suspense[opened[i]].content] = segment[running].abortSet
        BY <2>1, <4>1 DEF PlaceOf
      <4> QED BY <4>1, <4>3, <4>4, <4>5
    <3>5. running' = running
      BY <1>1
    <3> QED BY <3>1, <3>2, <3>3, <3>4, <3>5, Zenon DEF PlaceOf
  <2>3. StackState(place.rank)'
    BY <1>6 DEF StackState
  <2>4. ShownState(place.home, place.reg)'
    <3> SUFFICES ASSUME NEW s \in Segments
        PROVE  /\ s \in Reached' => place.home[s] \in Shown' /\ place.reg[s] \in Shown'
               /\ segment'[s].boundary # NoBoundary /\ segment'[s].parentFlushed =>
                     s \in Reached'
               /\ segment'[s].boundary # NoBoundary /\ s \in Reached' =>
                     segment'[segment'[s].parent].status = "FLUSHED"
      BY Zenon DEF ShownState
    <3>1. /\ s \in Reached => place.home[s] \in Shown /\ place.reg[s] \in Shown
          /\ segment[s].boundary # NoBoundary /\ segment[s].parentFlushed =>
                s \in Reached
          /\ segment[s].boundary # NoBoundary /\ s \in Reached =>
                segment[segment[s].parent].status = "FLUSHED"
      BY <2>1 DEF ShownState
    <3>2. /\ segment'[s].parent = segment[s].parent /\ segment'[s].boundary = segment[s].boundary
          /\ segment'[s].parentFlushed = segment[s].parentFlushed
      BY <1>3
    <3>3. segment[s].boundary # NoBoundary /\ s \in Reached =>
             segment'[segment[s].parent].status = "FLUSHED"
      <4> SUFFICES ASSUME segment[s].boundary # NoBoundary, s \in Reached
          PROVE  segment'[segment[s].parent].status = "FLUSHED"
        OBVIOUS
      <4>1. segment[s].parent # NoSegment
        BY DEF Inv, SegmentTree
      <4>2. segment[s].parent \in Segments
        BY <1>0, <4>1, InvTypes
      <4>3. segment[segment[s].parent].status = "FLUSHED"
        BY <3>1
      <4>4. segment[s].parent # c
        BY <1>2, <4>3
      <4>5. CASE segment[s].parent = f
        BY <1>3, <4>3, <4>5
      <4>6. CASE segment[s].parent # f
        BY <1>3, <4>2, <4>3, <4>4, <4>6
      <4> QED BY <4>5, <4>6
    <3> QED BY <1>5, <3>1, <3>2, <3>3
  <2> QED BY <2>1, <2>2, <2>3, <2>4, Zenon DEF Placed
<1>14. calls' \in Seq(CallType)
  BY <1>1 DEF Inv
<1> QED BY <1>8, <1>9, <1>10, <1>11, <1>12, <1>13, <1>14, Zenon DEF Inv

LEMMA CloseSuspenseBoundaryStep ==
    ASSUME Inv, CloseSuspenseBoundary
    PROVE  Inv'
BY CloseEffect, CloseStep

LEMMA ContentThrowsStep ==
    ASSUME Inv, ContentThrows
    PROVE  Inv'
BY CloseEffect, CloseStep
-----------------------------------------------------------------------------
(* The segments that a flush walks over.                                   *)

LEMMA VisitsLarger ==
    ASSUME Inv, NEW s \in Segments, NEW c \in Visits(s)
    PROVE  c \in Segments /\ s < c /\ c <= segments
<1>0. TypeOK
  BY DEF Inv
<1>1. /\ segments \in Segments /\ Segments = 1..MaxSegments /\ MaxSegments \in Nat
      /\ NoBoundary \notin Boundaries
  BY <1>0, InvTypes
<1>2. CASE Inlined(s)
  <2> DEFINE b == segment[s].boundary
  <2>1. b # NoBoundary /\ b \in Boundaries
    BY <1>0, <1>2, InvTypes DEF Inlined, Loading
  <2>2. b <= boundaries /\ suspense[b].fallback = s
    BY <2>1 DEF Inv, SegmentTree
  <2>3. c \in ToSet(suspense[b].completedSegments)
    BY <1>2 DEF Visits
  <2>4. c > s /\ c <= segments
    BY <2>1, <2>2, <2>3 DEF Inv, ReadyState
  <2>5. c \in Segments
    <3>1. suspense[b].completedSegments \in Seq(Segments)
      BY <1>0, <2>1, InvTypes
    <3> QED BY <2>3, <3>1, RangeOfSet DEF ToSet, Range
  <2>6. s \in Nat /\ c \in Nat
    BY <1>1, <2>5
  <2> QED BY <2>4, <2>5, <2>6
<1>3. CASE ~Inlined(s)
  <2>1. c \in Children(s)
    BY <1>3 DEF Visits
  <2>2. c \in 1..segments /\ segment[c].parent = s
    BY <2>1 DEF Children
  <2>3. c \in Segments /\ c <= segments
    BY <1>1, <2>2
  <2>4. segment[c].parent < c
    BY <2>3 DEF Inv, SegmentTree
  <2> QED BY <2>2, <2>3, <2>4
<1> QED BY <1>2, <1>3

(* What is visited from a set that is closed stays in it.                  *)
IsClosed(set) == \A s \in set : Visits(s) \subseteq set

Reach(s) == {x \in Segments : \A T \in SUBSET Segments : s \in T /\ IsClosed(T) => x \in T}

LEMMA WalkExists ==
    ASSUME Inv
    PROVE  \A s \in Segments : Walk[s] = {s} \cup UNION {Walk[c] : c \in Visits(s)}
<1> DEFINE f == [s \in Segments |-> Reach(s)]
<1>1. \A s \in Segments : Visits(s) \subseteq Segments
  BY VisitsLarger
<1>2. ASSUME NEW s \in Segments
      PROVE  Reach(s) = {s} \cup UNION {Reach(c) : c \in Visits(s)}
  <2> DEFINE R == {s} \cup UNION {Reach(c) : c \in Visits(s)}
  <2>1. R \subseteq Reach(s)
    BY <1>1 DEF Reach, IsClosed
  <2>2. R \in SUBSET Segments /\ s \in R
    BY DEF Reach
  <2>3. \A c \in Segments : c \in Reach(c)
    BY DEF Reach
  <2>4. ASSUME NEW c \in Segments, NEW x \in Reach(c)
        PROVE  Visits(x) \subseteq Reach(c)
    <3>1. x \in Segments
      BY <2>4 DEF Reach
    <3> QED BY <1>1, <2>4, <3>1 DEF Reach, IsClosed
  <2>5. ASSUME NEW x \in R PROVE Visits(x) \subseteq R
    <3>1. CASE x = s
      BY <1>1, <2>3, <3>1
    <3>2. CASE \E c \in Visits(s) : x \in Reach(c)
      <4>1. PICK c \in Visits(s) : x \in Reach(c)
        BY <3>2
      <4>2. Visits(x) \subseteq Reach(c)
        BY <1>1, <2>4, <4>1
      <4> QED BY <4>1, <4>2
    <3> QED BY <3>1, <3>2
  <2>6. Reach(s) \subseteq R
    <3> HIDE DEF R
    <3>1. IsClosed(R)
      BY <2>5 DEF IsClosed
    <3> QED BY <2>2, <3>1 DEF Reach
  <2> QED BY <2>1, <2>6
<1>3. f = [s \in Segments |-> {s} \cup UNION {f[c] : c \in Visits(s)}]
  <2>1. \A s \in Segments : {Reach(c) : c \in Visits(s)} = {f[c] : c \in Visits(s)}
    BY <1>1
  <2>2. \A s \in Segments : f[s] = {s} \cup UNION {f[c] : c \in Visits(s)}
    BY <1>2, <2>1
  <2> QED BY <2>2
<1> HIDE DEF f
<1>4. Walk = [s \in Segments |-> {s} \cup UNION {Walk[c] : c \in Visits(s)}]
  <2>1. \E g : g = [s \in Segments |-> {s} \cup UNION {g[c] : c \in Visits(s)}]
    BY <1>3
  <2> QED BY <2>1 DEF Walk
<1> QED BY <1>4

(* The last element of a set of segments with some property.               *)
LEMMA LastSegment ==
    ASSUME TypeOK, NEW T, T \subseteq Segments, T # {}
    PROVE  \E s \in T : \A x \in T : x <= s
<1>1. Segments = 1..MaxSegments /\ MaxSegments \in Nat
  BY InvTypes
<1> DEFINE U == {MaxSegments - s : s \in T}
<1>2. U \subseteq Nat /\ U # {}
  <2>1. \A s \in 1..MaxSegments : MaxSegments - s \in Nat
    BY <1>1
  <2>2. \A s \in T : MaxSegments - s \in Nat
    BY <1>1, <2>1
  <2>3. U # {}
    OBVIOUS
  <2> QED BY <2>2, <2>3, Zenon
<1>3. PICK u \in U : \A v \in U : u <= v
  <2> HIDE DEF U
  <2> QED BY <1>2, LeastNatural
<1>4. PICK s \in T : u = MaxSegments - s
  BY <1>3
<1>5. ASSUME NEW x \in T PROVE x <= s
  <2>1. MaxSegments - s <= MaxSegments - x
    BY <1>3, <1>4
  <2>2. x \in Nat /\ s \in Nat
    BY <1>1
  <2> QED BY <1>1, <2>1, <2>2
<1> QED BY <1>5

LEMMA WalkLeast ==
    ASSUME Inv
    PROVE  /\ \A s \in Segments : s \in Walk[s] /\ IsClosed(Walk[s])
           /\ \A T : T \subseteq Segments /\ IsClosed(T) => \A s \in T : Walk[s] \subseteq T
<1>0. TypeOK
  BY DEF Inv
<1>1. \A s \in Segments : Walk[s] = {s} \cup UNION {Walk[c] : c \in Visits(s)}
  BY WalkExists
<1>2. \A s \in Segments : \A c \in Visits(s) : c \in Segments /\ s < c
  BY VisitsLarger
<1>3. \A s \in Segments : s \in Nat
  BY <1>0, InvTypes
<1>4. \A m, n \in Nat : ~(m < n /\ n <= m)
  OBVIOUS
<1>5. ASSUME NEW T, T \subseteq Segments, IsClosed(T), NEW s0 \in T
      PROVE  Walk[s0] \subseteq T
  <2> DEFINE B == {s \in T : ~(Walk[s] \subseteq T)}
  <2>1. SUFFICES ASSUME B # {} PROVE FALSE
    BY <1>5
  <2>2. B \subseteq Segments
    BY <1>5
  <2>3. PICK s \in B : \A x \in B : x <= s
    <3> HIDE DEF B
    <3> QED BY <1>0, <2>1, <2>2, LastSegment
  <2>4. \A c \in Visits(s) : c \in T /\ Walk[c] \subseteq T
    <3> SUFFICES ASSUME NEW c \in Visits(s) PROVE c \in T /\ Walk[c] \subseteq T
      OBVIOUS
    <3>1. c \in T
      BY <1>5, <2>3 DEF IsClosed
    <3>2. s < c /\ s \in Segments /\ c \in Segments
      BY <1>2, <2>2, <2>3
    <3>3. c \notin B
      BY <1>3, <1>4, <2>3, <3>2
    <3> QED BY <3>1, <3>3
  <2>5. Walk[s] \subseteq T
    <3>1. s \in T /\ s \in Segments
      BY <2>2, <2>3
    <3>2. Walk[s] = {s} \cup UNION {Walk[c] : c \in Visits(s)}
      BY <1>1, <3>1
    <3> QED BY <2>4, <3>1, <3>2
  <2> QED BY <2>3, <2>5
<1>6. ASSUME NEW s0 \in Segments
      PROVE  s0 \in Walk[s0] /\ IsClosed(Walk[s0])
  <2>1. \A s \in Segments : s \in Walk[s]
    BY <1>1
  <2> DEFINE B == {s \in Segments : ~IsClosed(Walk[s])}
  <2>2. SUFFICES ASSUME B # {} PROVE FALSE
    BY <2>1
  <2>3. B \subseteq Segments
    OBVIOUS
  <2>4. PICK s \in B : \A x \in B : x <= s
    <3> HIDE DEF B
    <3> QED BY <1>0, <2>2, <2>3, LastSegment
  <2>5. \A c \in Visits(s) : c \in Walk[c] /\ IsClosed(Walk[c]) /\ Walk[c] \subseteq Walk[s]
    <3> SUFFICES ASSUME NEW c \in Visits(s)
        PROVE c \in Walk[c] /\ IsClosed(Walk[c]) /\ Walk[c] \subseteq Walk[s]
      OBVIOUS
    <3>1. s < c /\ s \in Segments /\ c \in Segments
      BY <1>2, <2>3, <2>4
    <3>2. c \notin B
      BY <1>3, <1>4, <2>4, <3>1
    <3>3. IsClosed(Walk[c])
      BY <3>1, <3>2
    <3>4. Walk[c] \subseteq Walk[s]
      BY <1>1, <3>1
    <3> QED BY <2>1, <3>1, <3>3, <3>4
  <2>6. ASSUME NEW x \in Walk[s]
        PROVE  Visits(x) \subseteq Walk[s]
    <3>1. x = s \/ \E c \in Visits(s) : x \in Walk[c]
      BY <1>1, <2>3, <2>4, <2>6
    <3>2. CASE x = s
      BY <2>5, <3>2
    <3>3. CASE \E c \in Visits(s) : x \in Walk[c]
      <4>1. PICK c \in Visits(s) : x \in Walk[c]
        BY <3>3
      <4>2. Visits(x) \subseteq Walk[c]
        BY <2>5, <4>1 DEF IsClosed
      <4> QED BY <2>5, <4>1, <4>2
    <3> QED BY <3>1, <3>2, <3>3
  <2>7. IsClosed(Walk[s])
    BY <2>6 DEF IsClosed
  <2> QED BY <2>4, <2>7
<1> QED BY <1>5, <1>6

(* W is what is visited from starts.                                       *)
Visited(starts, W) ==
    /\ starts \subseteq W /\ W \subseteq Segments /\ IsClosed(W)
    /\ \A s \in W : s <= segments
    /\ \A s \in W : s \in starts \/ \E p \in W : s \in Visits(p)
    /\ \A T : T \subseteq Segments /\ starts \subseteq T /\ IsClosed(T) => W \subseteq T

LEMMA WalkedSet ==
    ASSUME Inv, NEW starts, starts \subseteq Segments, \A s \in starts : s <= segments
    PROVE  Visited(starts, UNION {Walk[s] : s \in starts})
<1> DEFINE W == UNION {Walk[s] : s \in starts}
<1>0. TypeOK
  BY DEF Inv
<1>1. /\ \A s \in Segments : s \in Walk[s] /\ IsClosed(Walk[s])
      /\ \A T : T \subseteq Segments /\ IsClosed(T) => \A s \in T : Walk[s] \subseteq T
  BY WalkLeast
<1>2. \A s \in Segments : \A c \in Visits(s) : c \in Segments /\ c <= segments
  BY VisitsLarger
<1>3. IsClosed(Segments)
  BY <1>2 DEF IsClosed
<1>4. starts \subseteq W /\ W \subseteq Segments
  BY <1>1, <1>3
<1>5. IsClosed(W)
  <2> SUFFICES ASSUME NEW x \in W, NEW c \in Visits(x) PROVE c \in W
    BY DEF IsClosed
  <2>1. PICK s \in starts : x \in Walk[s]
    OBVIOUS
  <2>2. c \in Walk[s]
    BY <1>1, <2>1 DEF IsClosed
  <2> QED BY <2>2
<1>6. \A T : T \subseteq Segments /\ starts \subseteq T /\ IsClosed(T) => W \subseteq T
  BY <1>1
<1> HIDE DEF W
<1>7. \A s \in W : s <= segments
  <2> DEFINE T == {s \in Segments : s <= segments}
  <2>1. IsClosed(T) /\ T \subseteq Segments /\ starts \subseteq T
    BY <1>2 DEF IsClosed
  <2> HIDE DEF T
  <2>2. W \subseteq T
    BY <1>6, <2>1
  <2> QED BY <2>2 DEF T
<1>8. ASSUME NEW s \in W PROVE s \in starts \/ \E p \in W : s \in Visits(p)
  <2> SUFFICES ASSUME s \notin starts, \A p \in W : s \notin Visits(p) PROVE FALSE
    OBVIOUS
  <2> DEFINE T == W \ {s}
  <2>1. IsClosed(T) /\ T \subseteq Segments /\ starts \subseteq T
    BY <1>4, <1>5 DEF IsClosed
  <2>2. W \subseteq T
    <3> HIDE DEF T
    <3> QED BY <1>6, <2>1
  <2> QED BY <2>2
<1>9. Visited(starts, W)
  BY <1>4, <1>5, <1>6, <1>7, <1>8 DEF Visited
<1> QED BY <1>9 DEF W
-----------------------------------------------------------------------------
(* Writing segments.                                                       *)

Flushing == {"flushRoot", "flushClientRendered", "flushCompleted", "flushPartial"}

LEMMA FlushRest ==
    ASSUME Inv, calls # << >>, Head(calls).f \in Flushing
    PROVE  /\ Quiet(Rest) /\ ~Matters(Head(calls)) /\ Head(calls) # TD
           /\ Rest \in Seq(CallType) /\ SameMatters(calls, Rest, 1)
           /\ Count(Rest, TD) = Count(calls, TD) /\ Count(Rest, TD) \in Nat
           /\ running = NoTask /\ opened = << >>
<1>1. calls \in Seq(CallType)
  BY DEF Inv
<1>2. ~Matters(Head(calls)) /\ Head(calls) # TD
  BY DEF Matters, AbortCall, TD, Call, Flushing
<1>3. /\ Rest \in Seq(CallType) /\ SameMatters(calls, Rest, 1)
      /\ Count(calls, TD) = Count(Rest, TD) + 0 /\ Count(Rest, TD) \in Nat
  BY <1>2, Pop
<1>4. Count(Rest, TD) = Count(calls, TD)
  BY <1>3
<1>5. /\ calls[1] = Head(calls) /\ Len(Rest) \in Nat /\ DOMAIN Rest = 1..Len(Rest)
      /\ DOMAIN calls = 1..(Len(Rest) + 1)
      /\ \A i \in DOMAIN Rest : i + 1 \in DOMAIN calls /\ calls[i + 1] = Rest[i]
  BY <1>1, PopCall DEF Rest
<1>6. Quiet(Rest)
  <2>1. \A i \in DOMAIN calls :
          /\ calls[i].f \in FlushCalls => i = 1
          /\ calls[i].f = "fatalError" => (i = 1 \/ (i = 2 /\ calls[1].f = "flushEnd"))
    BY DEF Inv, FlowState
  <2>2. calls[1].f # "flushEnd"
    BY <1>5 DEF Flushing
  <2>3. \A i \in DOMAIN Rest : i + 1 # 1
    BY <1>5
  <2> QED BY <1>5, <2>1, <2>2, <2>3 DEF Quiet
<1> QED BY <1>2, <1>3, <1>4, <1>6, WithCalls

(* An internal check fails.                                                *)
LEMMA FlushFails ==
    ASSUME Inv, calls # << >>, Head(calls).f \in Flushing, flowing, UNCHANGED treeVars,
           UNCHANGED <<allPendingTasks, pingedTasks, next, renderVars, scheduled, userVars,
                       requestStatus, flowing, ended>>,
           thrown' = TRUE,
           calls' = << Call("flushEnd", 0), Call("fatalError", 0) >> \o Rest
    PROVE  Inv'
<1>0. TypeOK
  BY DEF Inv
<1> DEFINE e == Call("flushEnd", 0)
           a == Call("fatalError", 0)
           r == << a >> \o Rest
           q == << e >> \o r
<1>1. /\ Quiet(Rest) /\ Rest \in Seq(CallType) /\ SameMatters(calls, Rest, 1)
      /\ Count(Rest, TD) = Count(calls, TD) /\ Count(Rest, TD) \in Nat
      /\ running = NoTask /\ opened = << >>
  BY FlushRest
<1>2. /\ e \in CallType /\ a \in CallType /\ e.f = "flushEnd" /\ a.f = "fatalError"
      /\ ~Matters(e) /\ ~Matters(a) /\ e # TD /\ a # TD
  <2>1. "flushEnd" \in FlushCalls
    BY DEF FlushCalls
  <2>2. e \in CallType /\ a \in CallType
    BY <2>1, CallTypes
  <2> QED BY <2>2 DEF Matters, AbortCall, TD, Call
<1> HIDE DEF e, a
<1>3. /\ r \in Seq(CallType) /\ Count(r, TD) = Count(Rest, TD) + 0
      /\ SameMatters(calls, r, 1 + (-1))
  BY <1>1, <1>2, Push
<1>4. /\ r[1] = a /\ DOMAIN r = 1..(Len(Rest) + 1) /\ Len(Rest) \in Nat
      /\ \A i \in DOMAIN r : i = 1 \/ (i - 1 \in DOMAIN Rest /\ r[i] = Rest[i - 1])
      /\ Len(r) \in Nat /\ Len(r) = Len(Rest) + 1
  <2>1. /\ r[1] = a /\ DOMAIN r = 1..(Len(Rest) + 1) /\ Len(Rest) \in Nat
        /\ \A i \in DOMAIN r : i = 1 \/ (i - 1 \in DOMAIN Rest /\ r[i] = Rest[i - 1])
        /\ Len(r) = Len(Rest) + 1
    BY <1>1, <1>2, PushCall
  <2> QED BY <2>1
<1> HIDE DEF r
<1>5. /\ q \in Seq(CallType) /\ Count(q, TD) = Count(r, TD) + 0
      /\ SameMatters(calls, q, 1 + (-1) + (-1))
  BY <1>2, <1>3, Push
<1>6. /\ q[1] = e /\ DOMAIN q = 1..(Len(r) + 1) /\ Len(q) = Len(r) + 1
      /\ \A i \in DOMAIN q : i = 1 \/ (i - 1 \in DOMAIN r /\ q[i] = r[i - 1])
      /\ \A i \in DOMAIN r : i + 1 \in DOMAIN q /\ q[i + 1] = r[i]
  BY <1>2, <1>3, PushCall
<1>7. calls' = q
  <2>1. << e, a >> = << e >> \o << a >>
    <3>1. << e, a >> \in Seq(CallType) /\ << a >> \in Seq(CallType) /\ Len(<< a >>) = 1
          /\ Len(<< e, a >>) = 2 /\ << e, a >>[1] = e /\ << e, a >>[2] = a /\ << a >>[1] = a
      BY <1>2
    <3>2. LET p == << e >> \o << a >> IN
          /\ p \in Seq(CallType) /\ p[1] = e /\ Len(p) = Len(<< a >>) + 1
          /\ \A i \in DOMAIN << a >> : i + 1 \in DOMAIN p /\ p[i + 1] = << a >>[i]
      BY <1>2, <3>1, PushCall
    <3> DEFINE p == << e >> \o << a >>
    <3>3. /\ p \in Seq(CallType) /\ p[1] = e /\ Len(p) = Len(<< a >>) + 1
          /\ \A i \in DOMAIN << a >> : i + 1 \in DOMAIN p /\ p[i + 1] = << a >>[i]
      BY <3>2
    <3> HIDE DEF p
    <3>4. 1 \in DOMAIN << a >> /\ 1 + 1 = 2
      OBVIOUS
    <3>5. p[2] = a /\ Len(p) = 2
      BY <3>1, <3>3, <3>4
    <3>6. p = << e, a >>
      BY <3>1, <3>3, <3>5, SeqEqual
    <3> QED BY <3>6 DEF p
  <2>2. << e >> \in Seq(CallType) /\ << a >> \in Seq(CallType)
    BY <1>2
  <2>3. (<< e >> \o << a >>) \o Rest = << e >> \o (<< a >> \o Rest)
    BY <1>1, <2>2, ConcatAssociative
  <2> QED BY <2>1, <2>3 DEF q, r, e, a
<1> HIDE DEF q
<1>8. TypeOK'
  <2>1. UNCHANGED <<allPendingTasks, pingedTasks, next, running, started, scheduled, piped,
                    aborted, requestStatus, flowing, ended, retries>>
    BY DEF renderVars, userVars
  <2> QED BY <1>0, <2>1, ControlTypes, TypeFrame
<1>9. Count(calls', TD) = Count(calls, TD)
  <2>1. \A j, k, m \in Nat : j = k + 0 /\ m = j + 0 => m = k
    OBVIOUS
  <2>2. Count(r, TD) \in Nat /\ Count(q, TD) \in Nat
    BY <1>3, <1>5, CountType
  <2> QED BY <1>1, <1>3, <1>5, <1>7, <2>1, <2>2
<1>10. FlowState'
  <2>1. UNCHANGED <<segment, suspense, clientRenderedBoundaries, completedBoundaries,
                    requestStatus, flowing, ended, allPendingTasks>>
    BY DEF treeVars, segmentVars, boundaryVars, queueVars
  <2>2. /\ requestStatus = "OPEN" \/ ended # "no"
        /\ ended = "closed" =>
              /\ requestStatus = "OPEN" /\ allPendingTasks = 0
              /\ clientRenderedBoundaries = << >> /\ completedBoundaries = << >>
    BY DEF Inv, FlowState
  <2>3. Len(calls') > 1 /\ calls'[1].f = "flushEnd" /\ calls'[2].f = "fatalError"
        /\ 2 \in DOMAIN calls'
    <3>1. \A m, n, k \in Nat : n = m + 1 /\ k = n + 1 => k > 1 /\ 2 \in 1..k /\ 1 \in 1..n /\ 1 + 1 = 2
      OBVIOUS
    <3>2. Len(calls') \in Nat /\ Len(calls') = Len(r) + 1 /\ DOMAIN calls' = 1..(Len(r) + 1)
      BY <1>4, <1>6, <1>7
    <3>3. Len(calls') > 1 /\ 2 \in DOMAIN calls' /\ 1 \in DOMAIN r /\ 1 + 1 = 2
      BY <1>4, <3>1, <3>2
    <3>4. calls'[2] = r[1]
      BY <1>6, <1>7, <3>3
    <3> QED BY <1>2, <1>4, <1>6, <1>7, <3>3, <3>4
  <2>4. \A i \in DOMAIN calls' :
           i = 1 \/ i = 2 \/ calls'[i].f \notin FlushCalls \cup {"fatalError"}
    <3> SUFFICES ASSUME NEW i \in DOMAIN calls', i # 1, i # 2
        PROVE  calls'[i].f \notin FlushCalls \cup {"fatalError"}
      OBVIOUS
    <3>1. i - 1 \in DOMAIN r /\ calls'[i] = r[i - 1]
      BY <1>6, <1>7
    <3>2. i - 1 # 1
      BY <1>4, <1>6, <1>7
    <3>3. (i - 1) - 1 \in DOMAIN Rest /\ r[i - 1] = Rest[(i - 1) - 1]
      BY <1>4, <3>1, <3>2
    <3> QED BY <1>1, <3>1, <3>3 DEF Quiet
  <2>5. "fatalError" \notin FlushCalls /\ "flushEnd" \in FlushCalls
    BY DEF FlushCalls
  <2>6. \A i \in DOMAIN calls' :
          /\ calls'[i].f \in FlushCalls => i = 1 /\ calls'[i].f = "flushEnd"
          /\ calls'[i].f = "fatalError" => i = 2
    BY <2>3, <2>4, <2>5
  <2>7. /\ flowing' => requestStatus' = "OPEN" \/ ended' # "no"
        /\ \A i \in DOMAIN calls' :
              /\ calls'[i].f \in FlushCalls => i = 1
              /\ calls'[i].f \in FlushCalls \ {"flushEnd"} => flowing'
              /\ calls'[i].f \in FlushCalls =>
                    /\ requestStatus' = "OPEN" \/ ended' # "no"
                    /\ \/ suspense'[Root].pendingTasks > 0 \/ segment'[RootSegment].status = "FLUSHED"
                       \/ Len(calls') > 1 /\ calls'[2].f = "fatalError"
              /\ calls'[i].f \notin {"flushCompleted", "flushPartial"}
              /\ calls'[i].f = "fatalError" =>
                    flowing' /\ (i = 1 \/ (i = 2 /\ calls'[1].f = "flushEnd"))
    <3>1. {"flushCompleted", "flushPartial"} \subseteq FlushCalls
      BY DEF FlushCalls
    <3>2. flowing' /\ (requestStatus' = "OPEN" \/ ended' # "no")
      BY <2>1, <2>2
    <3> QED BY <2>3, <2>6, <3>1, <3>2
  <2>8. ended' = "closed" =>
          /\ requestStatus' = "OPEN" /\ allPendingTasks' = 0
          /\ clientRenderedBoundaries' = << >> /\ completedBoundaries' = << >>
          /\ \E i \in DOMAIN calls' : calls'[i].f = "fatalError"
    BY <2>1, <2>2, <2>3
  <2> QED BY <2>7, <2>8 DEF FlowState
<1>11. \E d : SameMatters(calls, calls', d)
  BY <1>5, <1>7
<1>12. /\ \A i \in DOMAIN pingedTasks' : segment[pingedTasks'[i]].task
       /\ requestStatus' = requestStatus /\ running' = NoTask
       /\ allPendingTasks' = allPendingTasks /\ allPendingTasks \in Nat
  BY <1>0, <1>1, ControlTypes DEF renderVars, Inv, RunState
<1>13. calls' \in Seq(CallType)
  BY <1>5, <1>7
<1>14. allPendingTasks' + Count(calls, TD) = allPendingTasks + Count(calls', TD)
  BY <1>9, <1>12
<1> QED BY <1>1, <1>8, <1>10, <1>11, <1>12, <1>13, <1>14, ControlStack

(* The segments of W that are written, and the boundaries met on the way.  *)
Out(W) == {s \in W : ~Inlined(s)}
Met(W) == {segment[s].boundary : s \in W} \ {NoBoundary}

(* What is flushed for boundary b, or for the root: starts is what it has  *)
(* ready, but for what stays ready and what was flushed inline before.     *)
FlushOf(b, starts, ready, shown) ==
    /\ b \in BoundaryIds /\ b <= boundaries
    /\ starts \subseteq ToSet(suspense[b].completedSegments)
    /\ ready \in Seq(Segments) /\ ToSet(ready) \subseteq ToSet(suspense[b].completedSegments)
    /\ \A s \in ToSet(suspense[b].completedSegments) :
          s \in ToSet(ready) \/ s \in starts \/ segment[s].status = "FLUSHED"
    /\ b = Root => /\ suspense[Root].pendingTasks = 0
                   /\ starts = ToSet(suspense[Root].completedSegments) /\ ready = << >>
    /\ b # Root => client[b] # "none"
    /\ \A x \in Boundaries :
          \/ shown[x] = client[x]
          \/ x = b /\ b \in Complete /\ shown[x] = "completed" /\ ready = << >>

(* The segments that are sent under an id.                                 *)
GetsID(s, b, starts, W) ==
    s \in Out(W) /\ IF s \in starts THEN b # Root ELSE segment[s].status = "PENDING"

Writes(b, starts, ready, shown, W) ==
    /\ opened = << >> /\ opened' = << >> /\ running = NoTask /\ running' = NoTask
    /\ UNCHANGED <<segments, boundaries, pingedTasks, requestStatus, clientRenderedBoundaries>>
    /\ Visited(starts, W)
    /\ FlushOf(b, starts, ready, shown)
    /\ \A s \in Out(W) : segment[s].status \in {"PENDING", "COMPLETED"}
    /\ \A s \in Segments :
          /\ segment'[s].status = IF s \in Out(W) /\ segment[s].status = "COMPLETED"
                                  THEN "FLUSHED" ELSE segment[s].status
          /\ segment'[s].parentFlushed <=> segment[s].parentFlushed \/ s \in Out(W)
          /\ segment[s].id # NoID => segment'[s].id # NoID
          /\ GetsID(s, b, starts, W) => segment'[s].id # NoID
          /\ s \notin Out(W) => segment'[s] = segment[s]
          /\ segment'[s].parent = segment[s].parent
          /\ segment'[s].boundary = segment[s].boundary
          /\ segment'[s].task = segment[s].task
          /\ segment'[s].blockedBoundary = segment[s].blockedBoundary
          /\ segment'[s].abortSet = segment[s].abortSet
          /\ segment'[s].suspended = segment[s].suspended
    /\ \A x \in BoundaryIds :
          /\ suspense'[x].completedSegments =
                IF x = b THEN ready ELSE suspense[x].completedSegments
          /\ suspense'[x].parentFlushed <=> suspense[x].parentFlushed \/ x \in Met(W)
          /\ x \notin Met(W) /\ x # b => suspense'[x] = suspense[x]
          /\ suspense'[x].pendingTasks = suspense[x].pendingTasks
          /\ suspense'[x].forceClientRender = suspense[x].forceClientRender
          /\ suspense'[x].fallbackAbortableTasks = suspense[x].fallbackAbortableTasks
          /\ suspense'[x].outer = suspense[x].outer
          /\ suspense'[x].fallback = suspense[x].fallback
          /\ suspense'[x].content = suspense[x].content
    /\ \A x \in Boundaries : client'[x] = IF x \in Met(W) THEN ClientOf(x) ELSE shown[x]

(* What is met, and shown.                                                 *)
LEMMA MetBoundaries ==
    ASSUME Inv, NEW starts, NEW W, Visited(starts, W)
    PROVE  /\ \A x \in Met(W) :
                 /\ x \in Boundaries /\ x \in BoundaryIds /\ x <= boundaries /\ x # NoBoundary
                 /\ x # Root
                 /\ suspense[x].fallback \in W /\ segment[suspense[x].fallback].boundary = x
           /\ \A s \in W : segment[s].boundary # NoBoundary => segment[s].boundary \in Met(W)
           /\ \A s \in Segments : segment[s].boundary # NoBoundary =>
                 (Inlined(s) <=> ClientOf(segment[s].boundary) = "completed")
           /\ \A s \in Segments : segment[s].boundary = NoBoundary => ~Inlined(s)
<1>0. TypeOK
  BY DEF Inv
<1>1. ASSUME NEW x \in Met(W)
      PROVE  /\ x \in Boundaries /\ x \in BoundaryIds /\ x <= boundaries /\ x # NoBoundary
             /\ x # Root
             /\ suspense[x].fallback \in W /\ segment[suspense[x].fallback].boundary = x
  <2>1. PICK s \in W : x = segment[s].boundary /\ x # NoBoundary
    BY DEF Met
  <2>2. s \in Segments
    BY DEF Visited
  <2>3. x \in Boundaries /\ x \in BoundaryIds /\ x # Root
    BY <1>0, <2>1, <2>2, InvTypes DEF BoundaryIds
  <2>4. x <= boundaries /\ suspense[x].fallback = s
    BY <2>1, <2>2 DEF Inv, SegmentTree
  <2> QED BY <2>1, <2>3, <2>4
<1>2. ASSUME NEW s \in Segments, segment[s].boundary # NoBoundary
      PROVE  Inlined(s) <=> ClientOf(segment[s].boundary) = "completed"
  <2>1. segment[s].boundary \in Boundaries
    BY <1>0, <1>2, InvTypes
  <2>2. suspense[segment[s].boundary].pendingTasks \in Nat
    BY <1>0, <2>1, InvTypes
  <2>3. suspense[segment[s].boundary].pendingTasks > 0
           <=> suspense[segment[s].boundary].pendingTasks # 0
    BY <2>2
  <2> QED BY <1>2, <2>3 DEF Inlined, ClientOf, Loading
<1>3. \A s \in Segments : segment[s].boundary = NoBoundary => ~Inlined(s)
  BY DEF Inlined, Loading
<1> QED BY <1>1, <1>2, <1>3 DEF Met

LEMMA WritesShape ==
    ASSUME Inv, TypeOK', NEW b, NEW starts, NEW ready, NEW shown, NEW W,
           Writes(b, starts, ready, shown, W)
    PROVE  SameShape /\ SameNest /\ NewKept /\ SegmentTree' /\ BoundaryTree'
<1>0. TypeOK
  BY DEF Inv
<1>1. /\ UNCHANGED <<segments, boundaries>> /\ Visited(starts, W)
      /\ b \in BoundaryIds /\ b <= boundaries
      /\ \A s \in Segments : s \notin Out(W) => segment'[s] = segment[s]
      /\ \A x \in BoundaryIds : x \notin Met(W) /\ x # b => suspense'[x] = suspense[x]
  BY Zenon DEF Writes, FlushOf
<1>2. SameShape
  BY Zenon DEF Writes, SameShape
<1>3. SameNest
  BY Zenon DEF Writes, SameNest, BoundaryIds
<1>4. \A s \in Segments : s \in Nat /\ segments \in Nat
  BY <1>0, InvTypes
<1>5. \A x \in BoundaryIds : x \in Nat /\ boundaries \in Nat
  BY <1>0, InvTypes DEF BoundaryIds
<1>6. \A m, n \in Nat : ~(m > n /\ m <= n)
  OBVIOUS
<1>7. NewKept
  <2>1. ASSUME NEW s \in Segments, s > segments PROVE segment'[s] = NewSegment
    <3>1. s \notin Out(W)
      BY <1>1, <1>4, <1>6, <2>1 DEF Out, Visited
    <3>2. segment[s] = NewSegment
      BY <2>1 DEF Inv, SegmentTree
    <3> QED BY <1>1, <3>1, <3>2
  <2>2. ASSUME NEW x \in Boundaries, x > boundaries PROVE suspense'[x] = NewBoundary
    <3>1. x \in BoundaryIds
      BY DEF BoundaryIds
    <3>2. x # b
      BY <1>1, <1>5, <1>6, <2>2, <3>1
    <3>3. x \notin Met(W)
      <4>1. x \in Met(W) => x <= boundaries
        BY <1>1, MetBoundaries
      <4> QED BY <1>5, <1>6, <2>2, <3>1, <4>1
    <3>4. suspense[x] = NewBoundary
      BY <2>2 DEF Inv, BoundaryTree
    <3> QED BY <1>1, <3>1, <3>2, <3>3, <3>4
  <2> QED BY <2>1, <2>2 DEF NewKept
<1> QED BY <1>2, <1>3, <1>7, ShapeFrame

LEMMA WritesSets ==
    ASSUME Inv, TypeOK', NEW b, NEW starts, NEW ready, NEW shown, NEW W,
           Writes(b, starts, ready, shown, W)
    PROVE  /\ Live' = Live /\ \A x : BlockedBy(x)' = BlockedBy(x)
           /\ Complete' = Complete /\ Shown' = Shown \cup Met(W)
           /\ Written \subseteq Written'
           /\ \A s \in W : segment[s].status \in {"COMPLETED", "FLUSHED"} => s \in Written'
           /\ \A x \in Met(W) : ClientOf(x) = "completed" =>
                 \A s \in ToSet(suspense[x].completedSegments) : s \in Written'
           /\ \A x \in Met(W) : client[x] = "completed" => ClientOf(x) = "completed"
<1>0. TypeOK
  BY DEF Inv
<1>1. /\ opened = << >> /\ opened' = << >> /\ UNCHANGED boundaries
      /\ Visited(starts, W)
      /\ b # Root => client[b] # "none"
      /\ b \in BoundaryIds
      /\ \A x \in Boundaries :
            \/ shown[x] = client[x]
            \/ x = b /\ b \in Complete /\ shown[x] = "completed"
      /\ \A s \in Out(W) : segment[s].status \in {"PENDING", "COMPLETED"}
      /\ \A x \in Boundaries : client'[x] = IF x \in Met(W) THEN ClientOf(x) ELSE shown[x]
  BY Zenon DEF Writes, FlushOf
<1>2. \A s \in Segments :
          /\ segment'[s].status = IF s \in Out(W) /\ segment[s].status = "COMPLETED"
                                  THEN "FLUSHED" ELSE segment[s].status
          /\ segment'[s].boundary = segment[s].boundary
          /\ segment'[s].task = segment[s].task
          /\ segment'[s].blockedBoundary = segment[s].blockedBoundary
  BY Zenon DEF Writes
<1>3. \A x \in BoundaryIds :
          /\ suspense'[x].pendingTasks = suspense[x].pendingTasks
          /\ suspense'[x].forceClientRender = suspense[x].forceClientRender
  BY Zenon DEF Writes
<1>4. /\ \A x \in Met(W) :
            /\ x \in Boundaries /\ x <= boundaries
            /\ suspense[x].fallback \in W /\ segment[suspense[x].fallback].boundary = x
            /\ x # NoBoundary
      /\ \A s \in W : segment[s].boundary # NoBoundary => segment[s].boundary \in Met(W)
      /\ \A s \in Segments : segment[s].boundary # NoBoundary =>
            (Inlined(s) <=> ClientOf(segment[s].boundary) = "completed")
      /\ \A s \in Segments : segment[s].boundary = NoBoundary => ~Inlined(s)
  BY <1>1, MetBoundaries
<1>5. Live' = Live
  BY <1>2 DEF Live
<1>6. \A x : BlockedBy(x)' = BlockedBy(x)
  BY <1>2, <1>5 DEF BlockedBy, Live
<1>7. Complete' = Complete
  <2>1. Boundaries \subseteq BoundaryIds
    BY DEF BoundaryIds
  <2> QED BY <1>1, <1>3, <2>1 DEF Complete
<1>8. \A x : ClientOf(x) # "none"
  BY DEF ClientOf, Loading
<1>9. Shown' = Shown \cup Met(W)
  <2>1. ASSUME NEW x \in Boundaries
        PROVE  client'[x] # "none" <=> client[x] # "none" \/ x \in Met(W)
    <3>1. CASE x \in Met(W)
      BY <1>1, <1>8, <3>1
    <3>2. CASE x \notin Met(W)
      <4>1. client'[x] = shown[x]
        BY <1>1, <3>2
      <4>2. CASE shown[x] = client[x]
        BY <3>2, <4>1, <4>2
      <4>3. CASE x = b /\ shown[x] = "completed"
        <5>1. b # Root
          BY <1>0, <4>3, InvTypes
        <5> QED BY <1>1, <4>1, <4>3, <5>1
      <4> QED BY <1>1, <4>2, <4>3
    <3> QED BY <3>1, <3>2
  <2> QED BY <1>4, <2>1 DEF Shown
<1>10. ASSUME NEW x \in Boundaries, client[x] = "completed"
       PROVE  ClientOf(x) = "completed" /\ client'[x] = "completed"
  <2>1. x \in Complete
    BY <1>10 DEF Inv, ClientState
  <2>2. suspense[x].pendingTasks = 0 /\ ~suspense[x].forceClientRender
    BY <2>1 DEF Complete
  <2>3. ~(0 > 0)
    OBVIOUS
  <2>4. ClientOf(x) = "completed"
    BY <2>2, <2>3 DEF ClientOf, Loading
  <2> QED BY <1>1, <1>10, <2>4
<1>11. ASSUME NEW s \in Written PROVE s \in Written'
  <2>0. s \in Segments
    BY DEF Written
  <2>1. CASE segment[s].status = "FLUSHED"
    BY <1>2, <2>0, <2>1 DEF Written
  <2>2. CASE /\ segment[s].status = "COMPLETED" /\ segment[s].boundary # NoBoundary
             /\ client[segment[s].boundary] = "completed"
    <3>1. segment[s].boundary \in Boundaries
      BY <1>0, <2>0, <2>2, InvTypes
    <3>2. client'[segment[s].boundary] = "completed"
      BY <1>10, <2>2, <3>1
    <3> QED BY <1>2, <2>0, <2>2, <3>2 DEF Written
  <2> QED BY <2>1, <2>2 DEF Written
<1>12. ASSUME NEW s \in W, segment[s].status \in {"COMPLETED", "FLUSHED"}
       PROVE  s \in Written'
  <2>0. s \in Segments
    BY <1>1 DEF Visited
  <2>1. CASE s \in Out(W)
    BY <1>2, <1>12, <2>0, <2>1 DEF Written
  <2>2. CASE s \notin Out(W)
    <3>1. Inlined(s)
      BY <2>2 DEF Out
    <3>2. segment[s].boundary # NoBoundary /\ ClientOf(segment[s].boundary) = "completed"
      BY <1>4, <2>0, <3>1
    <3>3. segment[s].boundary \in Met(W) /\ segment[s].boundary \in Boundaries
      BY <1>4, <3>2
    <3>4. client'[segment[s].boundary] = "completed"
      BY <1>1, <3>2, <3>3
    <3> QED BY <1>2, <1>12, <2>0, <2>2, <3>2, <3>4 DEF Written
  <2> QED BY <2>1, <2>2
<1>13. ASSUME NEW x \in Met(W), ClientOf(x) = "completed",
              NEW s \in ToSet(suspense[x].completedSegments)
       PROVE  s \in Written'
  <2> DEFINE p == suspense[x].fallback
  <2>1. p \in W /\ segment[p].boundary = x /\ p \in Segments /\ x \in Boundaries /\ x <= boundaries
        /\ x # NoBoundary
    BY <1>1, <1>4 DEF Visited
  <2>2. Inlined(p)
    BY <1>4, <1>13, <2>1
  <2>3. s \in Visits(p)
    BY <2>1, <2>2 DEF Visits
  <2>4. s \in W
    BY <1>1, <2>1, <2>3 DEF Visited, IsClosed
  <2>5. segment[s].status \in {"COMPLETED", "FLUSHED"}
    BY <2>1 DEF Inv, ReadyState
  <2> QED BY <1>12, <2>4, <2>5
<1> QED BY <1>4, <1>5, <1>6, <1>7, <1>9, <1>10, <1>11, <1>12, <1>13

(* Where the segments are that a boundary has ready.                       *)
LEMMA ReadyPlace ==
    ASSUME Inv, NEW place \in Places, PlaceOf(place), ShownState(place.home, place.reg),
           NEW x \in Boundaries, x <= boundaries, NEW S, Shown \subseteq S, x \in S,
           place.home[suspense[x].fallback] \in S,
           NEW s \in ToSet(suspense[x].completedSegments)
    PROVE  /\ place.home[s] \in S /\ place.reg[s] \in S
           /\ segment[s].boundary # NoBoundary =>
                 segment[segment[s].parent].status = "FLUSHED"
<1>0. TypeOK
  BY DEF Inv
<1>1. s \in Segments
  <2>1. suspense[x].completedSegments \in Seq(Segments)
    BY <1>0, InvTypes
  <2> QED BY <2>1, RangeOfSet DEF ToSet, Range
<1>2. \/ s = suspense[x].content
      \/ /\ segment[s].task /\ segment[s].blockedBoundary = x /\ segment[s].parentFlushed
  BY DEF Inv, ReadyState
<1>3. CASE s = suspense[x].content
  <2>1. segment[s].boundary = NoBoundary
    BY <1>3 DEF Inv, BoundaryTree
  <2>2. place.reg[s] = x /\ place.home[s] = place.home[suspense[x].fallback]
    BY <1>3 DEF PlaceOf
  <2> QED BY <2>1, <2>2
<1>4. CASE segment[s].task /\ segment[s].blockedBoundary = x /\ segment[s].parentFlushed
  <2>1. s \in Reached
    <3>1. CASE segment[s].boundary = NoBoundary
      BY <1>1, <1>4, <3>1 DEF Reached
    <3>2. CASE segment[s].boundary # NoBoundary
      BY <1>1, <1>4, <3>2 DEF ShownState
    <3> QED BY <3>1, <3>2
  <2> QED BY <1>1, <2>1 DEF ShownState
<1> QED BY <1>2, <1>3, <1>4

LEMMA WritesShown ==
    ASSUME Inv, TypeOK', NEW b, NEW starts, NEW ready, NEW shown, NEW W,
           Writes(b, starts, ready, shown, W),
           NEW place \in Places, PlaceOf(place), ShownState(place.home, place.reg)
    PROVE  ShownState(place.home, place.reg)'
<1>0. TypeOK
  BY DEF Inv
<1>1. /\ Visited(starts, W)
      /\ b \in BoundaryIds /\ b <= boundaries
      /\ starts \subseteq ToSet(suspense[b].completedSegments)
      /\ b # Root => client[b] # "none"
  BY Zenon DEF Writes, FlushOf
<1>2. \A s \in Segments :
          /\ segment'[s].status = IF s \in Out(W) /\ segment[s].status = "COMPLETED"
                                  THEN "FLUSHED" ELSE segment[s].status
          /\ segment'[s].parentFlushed <=> segment[s].parentFlushed \/ s \in Out(W)
          /\ segment'[s].parent = segment[s].parent
          /\ segment'[s].boundary = segment[s].boundary
          /\ segment'[s].task = segment[s].task
  BY Zenon DEF Writes
<1>3. /\ \A x \in Met(W) :
            /\ x \in Boundaries /\ x <= boundaries /\ x # Root
            /\ suspense[x].fallback \in W /\ segment[suspense[x].fallback].boundary = x
      /\ \A s \in W : segment[s].boundary # NoBoundary => segment[s].boundary \in Met(W)
      /\ \A s \in Segments : segment[s].boundary = NoBoundary => ~Inlined(s)
  BY <1>1, MetBoundaries
<1>4. Shown' = Shown \cup Met(W)
  BY WritesSets
<1> DEFINE S == Shown \cup Met(W)
           In(s) == /\ place.home[s] \in S /\ place.reg[s] \in S
                    /\ segment[s].boundary # NoBoundary =>
                          segment'[segment[s].parent].status = "FLUSHED"
           T == {s \in W : In(s)}
<1>5. ASSUME NEW s \in Segments, segment[s].boundary # NoBoundary,
             segment[segment[s].parent].status = "FLUSHED"
      PROVE  segment'[segment[s].parent].status = "FLUSHED"
  <2>1. segment[s].parent # NoSegment
    BY <1>5 DEF Inv, SegmentTree
  <2>2. segment[s].parent \in Segments
    BY <1>0, <2>1, InvTypes
  <2> QED BY <1>2, <1>5, <2>2
<1>6. starts \subseteq T
  <2> SUFFICES ASSUME NEW s \in starts PROVE s \in T
    OBVIOUS
  <2>1. s \in W /\ s \in Segments /\ s \in ToSet(suspense[b].completedSegments)
    BY <1>1 DEF Visited
  <2>2. CASE b = Root
    <3>1. s = RootSegment
      <4>1. suspense[Root].completedSegments # << >>
        BY <2>1, <2>2 DEF ToSet
      <4>2. suspense[Root].completedSegments = << RootSegment >>
        BY <4>1 DEF Inv, RootState
      <4> QED BY <2>1, <2>2, <4>2 DEF ToSet
    <3>2. segment[s].boundary = NoBoundary
      BY <3>1 DEF Inv, SegmentTree
    <3>3. place.home[s] = Root /\ place.reg[s] = Root
      BY <3>1 DEF PlaceOf
    <3> QED BY <2>1, <3>2, <3>3 DEF Shown
  <2>3. CASE b # Root
    <3>1. b \in Boundaries /\ b \in Shown
      BY <1>1, <2>3 DEF BoundaryIds, Shown
    <3>2. suspense[b].fallback \in Reached
      <4>1. suspense[b].fallback \in Segments /\ segment[suspense[b].fallback].boundary = b
        BY <1>1, <3>1 DEF Inv, BoundaryTree
      <4>2. b # NoBoundary
        BY <1>0, <3>1, InvTypes
      <4> QED BY <3>1, <4>1, <4>2 DEF Reached
    <3>3. place.home[suspense[b].fallback] \in S
      BY <3>2 DEF ShownState, Reached
    <3>4. Shown \subseteq S /\ b \in S
      BY <3>1
    <3> HIDE DEF S
    <3>5. /\ place.home[s] \in S /\ place.reg[s] \in S
          /\ segment[s].boundary # NoBoundary =>
                 segment[segment[s].parent].status = "FLUSHED"
      BY <1>1, <2>1, <3>1, <3>3, <3>4, ReadyPlace
    <3> QED BY <1>5, <2>1, <3>5
  <2> QED BY <2>2, <2>3
<1>7. IsClosed(T)
  <2> SUFFICES ASSUME NEW s \in T, NEW c \in Visits(s) PROVE c \in T
    BY DEF IsClosed
  <2>1. s \in W /\ s \in Segments /\ In(s) /\ c \in W /\ c \in Segments
    BY <1>1 DEF Visited, IsClosed
  <2>2. CASE Inlined(s)
    <3> DEFINE x == segment[s].boundary
    <3>1. x # NoBoundary /\ c \in ToSet(suspense[x].completedSegments)
      BY <2>2 DEF Inlined, Visits, Loading
    <3>2. x \in Met(W) /\ x \in Boundaries /\ x <= boundaries
      BY <1>3, <2>1, <3>1
    <3>3. suspense[x].fallback = s
      BY <2>1, <3>1 DEF Inv, SegmentTree
    <3>4. place.home[suspense[x].fallback] \in S /\ Shown \subseteq S /\ x \in S
      BY <2>1, <3>2, <3>3
    <3> HIDE DEF S, x
    <3>5. /\ place.home[c] \in S /\ place.reg[c] \in S
          /\ segment[c].boundary # NoBoundary =>
                 segment[segment[c].parent].status = "FLUSHED"
      BY <3>1, <3>2, <3>4, ReadyPlace
    <3> QED BY <1>5, <2>1, <3>5
  <2>3. CASE ~Inlined(s)
    <3>1. segment[s].status = "COMPLETED" /\ c \in Children(s)
      BY <2>3 DEF Visits
    <3>2. c \in 1..segments /\ segment[c].parent = s
      BY <3>1 DEF Children
    <3>3. segment'[s].status = "FLUSHED"
      BY <1>2, <2>1, <2>3, <3>1 DEF Out
    <3>4. segment[c].parent # NoSegment /\ c <= segments
      BY <1>0, <2>1, <3>2, InvTypes
    <3>5. /\ place.reg[c] = place.reg[s]
          /\ place.home[c] = IF segment[s].boundary # NoBoundary THEN segment[s].boundary
                             ELSE place.home[s]
      BY <2>1, <3>2, <3>4 DEF PlaceOf
    <3>6. segment[s].boundary # NoBoundary => segment[s].boundary \in S
      BY <1>3, <2>1
    <3> QED BY <2>1, <3>2, <3>3, <3>5, <3>6
  <2> QED BY <2>2, <2>3
<1>8. W \subseteq T
  <2>1. T \subseteq Segments
    BY <1>1 DEF Visited
  <2> HIDE DEF T
  <2> QED BY <1>1, <1>6, <1>7, <2>1 DEF Visited
<1>9. \A s \in W : In(s)
  BY <1>8
<1> HIDE DEF In, T, S
<1> SUFFICES ASSUME NEW s \in Segments
    PROVE  /\ s \in Reached' => place.home[s] \in Shown' /\ place.reg[s] \in Shown'
           /\ segment'[s].boundary # NoBoundary /\ segment'[s].parentFlushed =>
                 s \in Reached'
           /\ segment'[s].boundary # NoBoundary /\ s \in Reached' =>
                 segment'[segment'[s].parent].status = "FLUSHED"
  BY Zenon DEF ShownState
<1>10. /\ s \in Reached => place.home[s] \in Shown /\ place.reg[s] \in Shown
       /\ segment[s].boundary # NoBoundary /\ segment[s].parentFlushed => s \in Reached
       /\ segment[s].boundary # NoBoundary /\ s \in Reached =>
             segment[segment[s].parent].status = "FLUSHED"
  BY DEF ShownState
<1>11. s \in Reached' => s \in Reached \/ s \in W
  <2> SUFFICES ASSUME s \in Reached' PROVE s \in Reached \/ s \in W
    OBVIOUS
  <2>1. CASE segment[s].boundary # NoBoundary
    <3>1. segment[s].boundary \in Shown'
      BY <1>2, <2>1 DEF Reached
    <3>2. CASE segment[s].boundary \in Shown
      BY <2>1, <3>2 DEF Reached
    <3>3. CASE segment[s].boundary \in Met(W)
      <4>1. suspense[segment[s].boundary].fallback = s
        BY <2>1 DEF Inv, SegmentTree
      <4> QED BY <1>3, <3>3, <4>1
    <3> QED BY <1>4, <3>1, <3>2, <3>3
  <2>2. CASE segment[s].boundary = NoBoundary
    <3>1. segment'[s].task /\ segment'[s].parentFlushed
      BY <1>2, <2>2 DEF Reached
    <3> QED BY <1>2, <2>2, <3>1 DEF Reached, Out
  <2> QED BY <2>1, <2>2
<1>12. s \in Reached' => place.home[s] \in Shown' /\ place.reg[s] \in Shown'
  BY <1>4, <1>9, <1>10, <1>11 DEF In, S
<1>13. segment'[s].boundary # NoBoundary /\ segment'[s].parentFlushed => s \in Reached'
  <2> SUFFICES ASSUME segment'[s].boundary # NoBoundary, segment'[s].parentFlushed
      PROVE  s \in Reached'
    OBVIOUS
  <2>1. segment[s].boundary # NoBoundary /\ (segment[s].parentFlushed \/ s \in Out(W))
    BY <1>2
  <2>2. segment[s].boundary \in Shown'
    <3>1. CASE segment[s].parentFlushed
      BY <1>4, <1>10, <2>1, <3>1 DEF Reached
    <3>2. CASE s \in Out(W)
      BY <1>3, <1>4, <2>1, <3>2 DEF Out
    <3> QED BY <2>1, <3>1, <3>2
  <2> QED BY <1>2, <2>1, <2>2 DEF Reached
<1>14. segment'[s].boundary # NoBoundary /\ s \in Reached' =>
             segment'[segment'[s].parent].status = "FLUSHED"
  <2>1. segment'[s].parent = segment[s].parent /\ segment'[s].boundary = segment[s].boundary
    BY <1>2
  <2> QED BY <1>5, <1>9, <1>10, <1>11, <2>1 DEF In
<1> QED BY <1>12, <1>13, <1>14

(* The root is on the page, before or after.                               *)
LEMMA WritesRoot ==
    ASSUME Inv, TypeOK', NEW b, NEW starts, NEW ready, NEW shown, NEW W,
           Writes(b, starts, ready, shown, W)
    PROVE  /\ segment'[RootSegment].status = "FLUSHED"
           /\ b = Root /\ W # {} => \A x \in Boundaries : client[x] = "none"
           /\ RootState'
<1>0. TypeOK
  BY DEF Inv
<1>1. /\ Visited(starts, W) /\ b \in BoundaryIds
      /\ b = Root => /\ suspense[Root].pendingTasks = 0
                     /\ starts = ToSet(suspense[Root].completedSegments) /\ ready = << >>
      /\ b # Root => client[b] # "none"
      /\ suspense'[Root].pendingTasks = suspense[Root].pendingTasks
      /\ suspense'[Root].completedSegments =
            IF b = Root THEN ready ELSE suspense[Root].completedSegments
  <2>1. Root \in BoundaryIds
    BY DEF BoundaryIds
  <2> QED BY <2>1, Zenon DEF Writes, FlushOf
<1>2. RootSegment \in Segments
  BY <1>0, InvTypes
<1>3. /\ segment'[RootSegment].status =
            IF RootSegment \in Out(W) /\ segment[RootSegment].status = "COMPLETED"
            THEN "FLUSHED" ELSE segment[RootSegment].status
      /\ segment'[RootSegment].parentFlushed <=>
            segment[RootSegment].parentFlushed \/ RootSegment \in Out(W)
  BY <1>2, Zenon DEF Writes
<1>4. /\ suspense[Root].completedSegments # << >> =>
            /\ suspense[Root].completedSegments = << RootSegment >>
            /\ segment[RootSegment].status = "COMPLETED"
      /\ segment[RootSegment].status = "COMPLETED" =>
            suspense[Root].completedSegments = << RootSegment >>
      /\ segment[RootSegment].parentFlushed
      /\ segment[RootSegment].status = "FLUSHED" => suspense[Root].pendingTasks = 0
      /\ segment[RootSegment].status # "FLUSHED" => \A x \in Boundaries : client[x] = "none"
  BY DEF Inv, RootState
<1>5. segment[RootSegment].boundary = NoBoundary /\ segment[RootSegment].task
      /\ segment[RootSegment].blockedBoundary = Root
  BY DEF Inv, SegmentTree
<1>6. CASE b = Root /\ suspense[Root].completedSegments # << >>
  <2>1. segment[RootSegment].status = "COMPLETED" /\ RootSegment \in starts
    BY <1>1, <1>4, <1>6 DEF ToSet
  <2>2. RootSegment \in Out(W)
    BY <1>1, <1>5, <2>1 DEF Visited, Out, Inlined, Loading
  <2>3. segment'[RootSegment].status = "FLUSHED"
    BY <1>3, <2>1, <2>2
  <2>4. suspense'[Root].completedSegments = << >> /\ suspense'[Root].pendingTasks = 0
    BY <1>1, <1>6
  <2>5. \A x \in Boundaries : client[x] = "none"
    BY <1>4, <2>1
  <2> QED BY <1>3, <1>4, <2>3, <2>4, <2>5 DEF RootState
<1>7. CASE b = Root /\ suspense[Root].completedSegments = << >>
  <2>1. W = {}
    <3>1. starts = {}
      BY <1>1, <1>7 DEF ToSet
    <3>2. {} \subseteq Segments /\ IsClosed({})
      BY DEF IsClosed
    <3> QED BY <1>1, <3>1, <3>2 DEF Visited
  <2>2. segment[RootSegment].status # "COMPLETED"
    BY <1>4, <1>7
  <2>3. segment[RootSegment].status # "PENDING"
    <3> SUFFICES ASSUME segment[RootSegment].status = "PENDING" PROVE FALSE
      OBVIOUS
    <3>1. RootSegment \in BlockedBy(Root)
      BY <1>2, <1>5 DEF BlockedBy, Live
    <3>2. IsFiniteSet(BlockedBy(Root)) /\ Cardinality(BlockedBy(Root)) \in Nat
      BY Sets
    <3>3. Cardinality(BlockedBy(Root)) # 0
      BY <3>1, <3>2, FS_EmptySet
    <3>4. 0 >= Cardinality(BlockedBy(Root))
      BY <1>1, <1>7 DEF Inv, CountState
    <3> QED BY <3>2, <3>3, <3>4
  <2>4. segment[RootSegment].status \notin {"ABORTED", "ERRORED"}
    <3> SUFFICES ASSUME segment[RootSegment].status \in {"ABORTED", "ERRORED"} PROVE FALSE
      OBVIOUS
    <3>1. Cardinality(BlockedBy(Root)) \in Nat
      BY Sets
    <3>2. 0 > Cardinality(BlockedBy(Root))
      BY <1>1, <1>7 DEF Inv, CountState
    <3> QED BY <3>1, <3>2
  <2>5. segment[RootSegment].status = "FLUSHED"
    <3>1. segment[RootSegment].status \in {"PENDING", "COMPLETED", "FLUSHED", "ABORTED", "ERRORED"}
      BY <1>0, <1>2, InvTypes
    <3> QED BY <2>2, <2>3, <2>4, <3>1
  <2>6. segment'[RootSegment].status = "FLUSHED"
    BY <1>3, <2>5
  <2>7. suspense'[Root].completedSegments = << >> /\ suspense'[Root].pendingTasks = 0
    BY <1>1, <1>7
  <2> QED BY <1>3, <1>4, <2>1, <2>6, <2>7 DEF RootState
<1>8. CASE b # Root
  <2>1. segment[RootSegment].status = "FLUSHED"
    BY <1>1, <1>4, <1>8 DEF BoundaryIds
  <2>2. segment'[RootSegment].status = "FLUSHED" /\ segment'[RootSegment].parentFlushed
    BY <1>3, <1>4, <2>1
  <2>3. suspense[Root].completedSegments = << >> /\ suspense[Root].pendingTasks = 0
    BY <1>4, <2>1
  <2>4. suspense'[Root].completedSegments = << >> /\ suspense'[Root].pendingTasks = 0
    BY <1>1, <1>8, <2>3
  <2> QED BY <1>8, <2>2, <2>4 DEF RootState
<1> QED BY <1>6, <1>7, <1>8

LEMMA WritesReady ==
    ASSUME Inv, TypeOK', NEW b, NEW starts, NEW ready, NEW shown, NEW W,
           Writes(b, starts, ready, shown, W)
    PROVE  ReadyState'
<1>0. TypeOK
  BY DEF Inv
<1>1. /\ UNCHANGED <<segments, boundaries>> /\ opened = << >> /\ opened' = << >>
      /\ Visited(starts, W)
      /\ starts \subseteq ToSet(suspense[b].completedSegments)
      /\ ToSet(ready) \subseteq ToSet(suspense[b].completedSegments)
      /\ \A s \in ToSet(suspense[b].completedSegments) :
            s \in ToSet(ready) \/ s \in starts \/ segment[s].status = "FLUSHED"
      /\ \A x \in Boundaries :
            \/ shown[x] = client[x]
            \/ x = b /\ b \in Complete /\ shown[x] = "completed" /\ ready = << >>
      /\ \A x \in Boundaries : client'[x] = IF x \in Met(W) THEN ClientOf(x) ELSE shown[x]
  BY Zenon DEF Writes, FlushOf
<1>2. \A s \in Segments :
          /\ segment'[s].status = IF s \in Out(W) /\ segment[s].status = "COMPLETED"
                                  THEN "FLUSHED" ELSE segment[s].status
          /\ segment'[s].parentFlushed <=> segment[s].parentFlushed \/ s \in Out(W)
          /\ segment[s].id # NoID => segment'[s].id # NoID
          /\ segment'[s].task = segment[s].task
          /\ segment'[s].blockedBoundary = segment[s].blockedBoundary
  BY Zenon DEF Writes
<1>3. \A x \in BoundaryIds :
          /\ suspense'[x].completedSegments =
                IF x = b THEN ready ELSE suspense[x].completedSegments
          /\ suspense'[x].forceClientRender = suspense[x].forceClientRender
          /\ suspense'[x].fallback = suspense[x].fallback
          /\ suspense'[x].content = suspense[x].content
  BY Zenon DEF Writes
<1>4. /\ Written \subseteq Written'
      /\ \A x \in Met(W) : ClientOf(x) = "completed" =>
            \A s \in ToSet(suspense[x].completedSegments) : s \in Written'
  BY WritesSets
<1> SUFFICES ASSUME NEW x \in Boundaries, x <= boundaries'
    PROVE
      /\ \A s \in ToSet(suspense'[x].completedSegments) :
            /\ s > suspense'[x].fallback /\ s <= segments'
            /\ segment'[s].status \in {"COMPLETED", "FLUSHED"}
            /\ \/ s = suspense'[x].content
               \/ /\ segment'[s].task /\ segment'[s].blockedBoundary = x
                  /\ segment'[s].parentFlushed /\ segment'[s].id # NoID
      /\ (\A i \in DOMAIN opened' : opened'[i] # x) /\ ~suspense'[x].forceClientRender =>
            \/ suspense'[x].content \in ToSet(suspense'[x].completedSegments)
            \/ segment'[suspense'[x].content].status = "FLUSHED"
      /\ client'[x] = "completed" =>
            \A s \in ToSet(suspense'[x].completedSegments) : s \in Written'
  BY Zenon DEF ReadyState
<1>5. x <= boundaries /\ x \in BoundaryIds
  BY <1>1 DEF BoundaryIds
<1>6. /\ \A s \in ToSet(suspense[x].completedSegments) :
            /\ s > suspense[x].fallback /\ s <= segments
            /\ segment[s].status \in {"COMPLETED", "FLUSHED"}
            /\ \/ s = suspense[x].content
               \/ /\ segment[s].task /\ segment[s].blockedBoundary = x
                  /\ segment[s].parentFlushed /\ segment[s].id # NoID
      /\ ~suspense[x].forceClientRender =>
            \/ suspense[x].content \in ToSet(suspense[x].completedSegments)
            \/ segment[suspense[x].content].status = "FLUSHED"
      /\ client[x] = "completed" =>
            \A s \in ToSet(suspense[x].completedSegments) : s \in Written
  BY <1>1, <1>5 DEF Inv, ReadyState
<1>7. ToSet(suspense'[x].completedSegments) \subseteq ToSet(suspense[x].completedSegments)
  BY <1>1, <1>3, <1>5
<1>8. ToSet(suspense[x].completedSegments) \subseteq Segments
  <2>1. suspense[x].completedSegments \in Seq(Segments)
    BY <1>0, <1>5, InvTypes DEF BoundaryIds
  <2> QED BY <2>1, RangeOfSet DEF ToSet, Range
<1>9. ASSUME NEW s \in ToSet(suspense'[x].completedSegments)
      PROVE  /\ s > suspense'[x].fallback /\ s <= segments'
             /\ segment'[s].status \in {"COMPLETED", "FLUSHED"}
             /\ \/ s = suspense'[x].content
                \/ /\ segment'[s].task /\ segment'[s].blockedBoundary = x
                   /\ segment'[s].parentFlushed /\ segment'[s].id # NoID
  <2>1. s \in ToSet(suspense[x].completedSegments) /\ s \in Segments
    BY <1>7, <1>8, <1>9
  <2>2. segment'[s].status \in {"COMPLETED", "FLUSHED"}
    BY <1>2, <1>6, <2>1
  <2>3. \/ s = suspense'[x].content
        \/ /\ segment'[s].task /\ segment'[s].blockedBoundary = x
           /\ segment'[s].parentFlushed /\ segment'[s].id # NoID
    BY <1>2, <1>3, <1>5, <1>6, <2>1
  <2> QED BY <1>1, <1>3, <1>5, <1>6, <2>1, <2>2, <2>3
<1>10. ASSUME ~suspense'[x].forceClientRender
       PROVE  \/ suspense'[x].content \in ToSet(suspense'[x].completedSegments)
              \/ segment'[suspense'[x].content].status = "FLUSHED"
  <2> DEFINE c == suspense[x].content
  <2>1. suspense'[x].content = c /\ c \in Segments /\ segment[c].boundary = NoBoundary
    BY <1>3, <1>5 DEF Inv, BoundaryTree
  <2>2. c \in ToSet(suspense[x].completedSegments) \/ segment[c].status = "FLUSHED"
    BY <1>3, <1>5, <1>6, <1>10
  <2>3. CASE segment[c].status = "FLUSHED"
    BY <1>2, <2>1, <2>3
  <2>4. CASE c \in ToSet(suspense[x].completedSegments) /\ x # b
    BY <1>3, <1>5, <2>1, <2>4
  <2>5. CASE c \in ToSet(suspense[x].completedSegments) /\ x = b
    <3>1. suspense'[x].completedSegments = ready
      BY <1>3, <1>5, <2>5
    <3>2. CASE c \in ToSet(ready)
      BY <2>1, <3>1, <3>2
    <3>3. CASE c \in starts
      <4>1. c \in Out(W)
        BY <1>1, <2>1, <3>3 DEF Visited, Out, Inlined, Loading
      <4>2. segment[c].status \in {"COMPLETED", "FLUSHED"}
        BY <1>6, <2>5
      <4> QED BY <1>2, <2>1, <4>1, <4>2
    <3> QED BY <1>1, <2>3, <2>5, <3>2, <3>3
  <2> QED BY <2>2, <2>3, <2>4, <2>5
<1>11. ASSUME client'[x] = "completed", NEW s \in ToSet(suspense'[x].completedSegments)
       PROVE  s \in Written'
  <2>0. s \in ToSet(suspense[x].completedSegments)
    BY <1>7, <1>11
  <2>1. CASE x \in Met(W)
    <3>1. ClientOf(x) = "completed"
      BY <1>1, <1>11, <2>1
    <3> QED BY <1>4, <2>0, <2>1, <3>1
  <2>2. CASE x \notin Met(W) /\ shown[x] = client[x]
    <3>1. client[x] = "completed"
      BY <1>1, <1>11, <2>2
    <3> QED BY <1>4, <1>6, <2>0, <3>1
  <2>3. CASE x = b /\ ready = << >>
    <3>1. suspense'[x].completedSegments = << >>
      BY <1>3, <1>5, <2>3
    <3> QED BY <1>11, <3>1 DEF ToSet
  <2> QED BY <1>1, <2>1, <2>2, <2>3
<1> QED BY <1>9, <1>10, <1>11

LEMMA WritesOver ==
    ASSUME Inv, TypeOK', NEW b, NEW starts, NEW ready, NEW shown, NEW W,
           Writes(b, starts, ready, shown, W)
    PROVE  OverState'
<1>0. TypeOK
  BY DEF Inv
<1>1. /\ requestStatus' = requestStatus /\ starts \subseteq W
      /\ \A s \in ToSet(suspense[b].completedSegments) :
            s \in ToSet(ready) \/ s \in starts \/ segment[s].status = "FLUSHED"
      /\ \A x \in BoundaryIds :
            /\ suspense'[x].completedSegments =
                  IF x = b THEN ready ELSE suspense[x].completedSegments
            /\ suspense'[x].forceClientRender = suspense[x].forceClientRender
  BY Zenon DEF Writes, FlushOf, Visited
<1>2. \A s \in Segments :
          /\ segment'[s].status = IF s \in Out(W) /\ segment[s].status = "COMPLETED"
                                  THEN "FLUSHED" ELSE segment[s].status
          /\ segment'[s].parentFlushed <=> segment[s].parentFlushed \/ s \in Out(W)
          /\ segment[s].id # NoID => segment'[s].id # NoID
          /\ GetsID(s, b, starts, W) => segment'[s].id # NoID
          /\ segment'[s].task = segment[s].task
          /\ segment'[s].blockedBoundary = segment[s].blockedBoundary
          /\ segment'[s].abortSet = segment[s].abortSet
  BY Zenon DEF Writes
<1>3. \A s \in Out(W) : segment[s].status \in {"PENDING", "COMPLETED"}
  BY Zenon DEF Writes
<1>4. /\ Complete' = Complete /\ Written \subseteq Written'
      /\ \A s \in W : segment[s].status \in {"COMPLETED", "FLUSHED"} => s \in Written'
  BY WritesSets
<1> SUFFICES ASSUME NEW s \in Segments, segment'[s].task
    PROVE
      /\ segment'[s].parentFlushed /\ s # RootSegment =>
            segment'[s].id # NoID \/ segment'[s].status = "FLUSHED"
      /\ segment'[s].status = "ABORTED" =>
            \/ requestStatus' # "OPEN"
            \/ segment'[s].blockedBoundary # Root
               /\ suspense'[segment'[s].blockedBoundary].forceClientRender
            \/ segment'[s].abortSet \in Complete'
      /\ segment'[s].status = "ERRORED" =>
            \/ requestStatus' # "OPEN"
            \/ segment'[s].blockedBoundary # Root
               /\ suspense'[segment'[s].blockedBoundary].forceClientRender
      /\ segment'[s].status = "COMPLETED" /\ segment'[s].parentFlushed =>
            \/ segment'[s].blockedBoundary = Root /\ s = RootSegment
            \/ /\ segment'[s].blockedBoundary # Root
               /\ \/ suspense'[segment'[s].blockedBoundary].forceClientRender
                  \/ s \in ToSet(suspense'[segment'[s].blockedBoundary].completedSegments)
                  \/ s \in Written'
  BY Zenon DEF OverState
<1> DEFINE y == segment[s].blockedBoundary
<1>5. segment[s].task /\ segment'[s].blockedBoundary = y /\ y \in BoundaryIds
  BY <1>0, <1>2, InvTypes DEF BoundaryIds
<1>6. /\ segment[s].parentFlushed /\ s # RootSegment =>
            segment[s].id # NoID \/ segment[s].status = "FLUSHED"
      /\ segment[s].status = "ABORTED" =>
            \/ requestStatus # "OPEN"
            \/ y # Root /\ suspense[y].forceClientRender
            \/ segment[s].abortSet \in Complete
      /\ segment[s].status = "ERRORED" =>
            \/ requestStatus # "OPEN"
            \/ y # Root /\ suspense[y].forceClientRender
      /\ segment[s].status = "COMPLETED" /\ segment[s].parentFlushed =>
            \/ y = Root /\ s = RootSegment
            \/ /\ y # Root
               /\ \/ suspense[y].forceClientRender
                  \/ s \in ToSet(suspense[y].completedSegments)
                  \/ s \in Written
  BY <1>5 DEF Inv, OverState
<1> HIDE DEF y
<1>7. segment'[s].parentFlushed /\ s # RootSegment =>
          segment'[s].id # NoID \/ segment'[s].status = "FLUSHED"
  <2>1. b = Root /\ s \in starts => s = RootSegment
    <3>1. suspense[Root].completedSegments # << >> =>
             suspense[Root].completedSegments = << RootSegment >>
      BY DEF Inv, RootState
    <3>2. b = Root => starts \subseteq ToSet(suspense[Root].completedSegments)
      BY Zenon DEF Writes, FlushOf
    <3> QED BY <3>1, <3>2 DEF ToSet
  <2>2. s \in Out(W) /\ s # RootSegment =>
            GetsID(s, b, starts, W) \/ segment[s].status = "COMPLETED"
    BY <1>3, <2>1 DEF GetsID
  <2> QED BY <1>2, <1>6, <2>2
<1>8. segment'[s].status \in {"ABORTED", "ERRORED"} => segment[s].status = segment'[s].status
  BY <1>2
<1>9. ASSUME segment'[s].status = "COMPLETED", segment'[s].parentFlushed
      PROVE  \/ y = Root /\ s = RootSegment
             \/ /\ y # Root
                /\ \/ suspense'[y].forceClientRender
                   \/ s \in ToSet(suspense'[y].completedSegments)
                   \/ s \in Written'
  <2>1. segment[s].status = "COMPLETED" /\ segment[s].parentFlushed
    BY <1>2, <1>9
  <2>2. CASE s \in ToSet(suspense[y].completedSegments) /\ y # Root
    <3>1. CASE y # b
      BY <1>1, <1>5, <2>2, <3>1
    <3>2. CASE y = b
      <4>1. s \in ToSet(ready) \/ s \in starts
        BY <1>1, <2>1, <2>2, <3>2
      <4>2. s \in starts => s \in Written'
        BY <1>1, <1>4, <2>1
      <4>3. suspense'[y].completedSegments = ready
        BY <1>1, <1>5, <3>2
      <4> QED BY <2>2, <4>1, <4>2, <4>3
    <3> QED BY <3>1, <3>2
  <2> QED BY <1>1, <1>4, <1>5, <1>6, <2>1, <2>2
<1>10. /\ segment'[s].status = "ABORTED" =>
             \/ requestStatus' # "OPEN"
             \/ y # Root /\ suspense'[y].forceClientRender
             \/ segment'[s].abortSet \in Complete'
       /\ segment'[s].status = "ERRORED" =>
             \/ requestStatus' # "OPEN"
             \/ y # Root /\ suspense'[y].forceClientRender
  BY <1>1, <1>2, <1>4, <1>5, <1>6, <1>8
<1> QED BY <1>5, <1>7, <1>9, <1>10, Zenon

(* What the queues hold after it.                                          *)
Takes(W) ==
    /\ completedBoundaries' \in Seq(Boundaries) /\ partialBoundaries' \in Seq(Boundaries)
    /\ ToSet(completedBoundaries') \subseteq ToSet(completedBoundaries)
    /\ \A x \in ToSet(partialBoundaries') : x \in ToSet(partialBoundaries) \/ x \in Met(W)

LEMMA WritesClient ==
    ASSUME Inv, TypeOK', NEW b, NEW starts, NEW ready, NEW shown, NEW W,
           Writes(b, starts, ready, shown, W), Takes(W)
    PROVE  ClientState'
<1>0. TypeOK
  BY DEF Inv
<1>1. /\ clientRenderedBoundaries' = clientRenderedBoundaries /\ opened = << >>
      /\ Visited(starts, W) /\ b \in BoundaryIds
      /\ b # Root => client[b] # "none"
      /\ \A x \in Boundaries :
            \/ shown[x] = client[x]
            \/ x = b /\ b \in Complete /\ shown[x] = "completed" /\ ready = << >>
      /\ \A x \in BoundaryIds :
            /\ suspense'[x].parentFlushed <=> suspense[x].parentFlushed \/ x \in Met(W)
            /\ suspense'[x].pendingTasks = suspense[x].pendingTasks
            /\ suspense'[x].forceClientRender = suspense[x].forceClientRender
      /\ \A x \in Boundaries : client'[x] = IF x \in Met(W) THEN ClientOf(x) ELSE shown[x]
  BY Zenon DEF Writes, FlushOf
<1>2. Complete' = Complete
  BY WritesSets
<1>3. \A x \in Met(W) : x \in Boundaries /\ x <= boundaries
  BY <1>1, MetBoundaries
<1>4. /\ \A x \in Boundaries :
            /\ client[x] # "none" <=> suspense[x].parentFlushed
            /\ client[x] = "client" => suspense[x].forceClientRender
            /\ client[x] = "completed" => x \in Complete
      /\ \A x \in ToSet(clientRenderedBoundaries) :
            suspense[x].forceClientRender /\ client[x] # "none"
      /\ \A x \in ToSet(completedBoundaries) : x \in Complete /\ client[x] # "none"
      /\ \A x \in ToSet(partialBoundaries) : client[x] # "none"
  BY DEF Inv, ClientState
<1>5. \A x \in Boundaries : x \in BoundaryIds /\ x # Root
  BY <1>0, InvTypes, Zenon DEF BoundaryIds
<1>6. \A x \in Boundaries : ClientOf(x) # "none"
  BY DEF ClientOf, Loading
<1>7. \A x \in Boundaries : client[x] # "none" => client'[x] # "none"
  BY <1>1, <1>6
<1>8. ASSUME NEW x \in Boundaries
      PROVE  /\ client'[x] # "none" <=> suspense'[x].parentFlushed
             /\ client'[x] = "client" => suspense'[x].forceClientRender
             /\ client'[x] = "completed" => x \in Complete'
  <2>1. CASE x \in Met(W)
    <3>1. client'[x] = ClientOf(x) /\ suspense'[x].parentFlushed
      BY <1>1, <1>5, <2>1
    <3>2. ClientOf(x) = "client" => suspense[x].forceClientRender
      BY DEF ClientOf, Loading
    <3>3. suspense[x].pendingTasks \in Nat
      BY <1>0, <1>5, InvTypes DEF BoundaryIds
    <3>4. ClientOf(x) = "completed" =>
             ~suspense[x].forceClientRender /\ ~(suspense[x].pendingTasks > 0)
      BY Zenon DEF ClientOf, Loading
    <3>5. ClientOf(x) = "completed" => x \in Complete
      <4>1. ClientOf(x) = "completed" => suspense[x].pendingTasks = 0
        BY <3>3, <3>4
      <4>2. x <= boundaries /\ \A i \in DOMAIN opened : opened[i] # x
        BY <1>1, <1>3, <2>1
      <4> QED BY <3>4, <4>1, <4>2, Zenon DEF Complete
    <3> QED BY <1>1, <1>2, <1>5, <1>6, <3>1, <3>2, <3>5
  <2>2. CASE x \notin Met(W) /\ shown[x] = client[x]
    BY <1>1, <1>2, <1>4, <1>5, <2>2
  <2>3. CASE x \notin Met(W) /\ x = b /\ b \in Complete /\ shown[x] = "completed"
    BY <1>1, <1>2, <1>4, <1>5, <2>3
  <2> QED BY <1>1, <2>1, <2>2, <2>3
<1>9. /\ ToSet(clientRenderedBoundaries) \subseteq Boundaries
      /\ ToSet(completedBoundaries) \subseteq Boundaries
      /\ ToSet(partialBoundaries) \subseteq Boundaries
  BY <1>0, ControlTypes, RangeOfSet DEF ToSet, Range
<1>10. \A x \in ToSet(clientRenderedBoundaries') :
          suspense'[x].forceClientRender /\ client'[x] # "none"
  BY <1>1, <1>4, <1>5, <1>7, <1>9
<1>11. \A x \in ToSet(completedBoundaries') : x \in Complete' /\ client'[x] # "none"
  BY <1>2, <1>4, <1>7, <1>9 DEF Takes
<1>12. \A x \in ToSet(partialBoundaries') : client'[x] # "none"
  <2>1. \A x \in Met(W) : client'[x] # "none"
    BY <1>1, <1>3, <1>6
  <2> QED BY <1>4, <1>7, <1>9, <2>1 DEF Takes
<1> QED BY <1>8, <1>10, <1>11, <1>12, Zenon DEF ClientState

(* The fallback of a boundary that is shown, and met again, was a task     *)
(* that waited when the boundary was shown.                                *)
LEMMA MetAgain ==
    ASSUME Inv, NEW b \in Boundaries, b <= boundaries, NEW starts, NEW W, Visited(starts, W),
           starts \subseteq ToSet(suspense[b].completedSegments),
           NEW x \in Met(W), client[x] # "none"
    PROVE  /\ segment[suspense[x].fallback].id # NoID
           /\ segment[suspense[x].fallback].status \in {"COMPLETED", "FLUSHED"}
<1>0. TypeOK
  BY DEF Inv
<1> DEFINE s == suspense[x].fallback
<1>1. /\ x \in Boundaries /\ x <= boundaries /\ x # NoBoundary /\ s \in W
      /\ segment[s].boundary = x /\ s \in Segments
  BY MetBoundaries DEF Visited
<1> HIDE DEF s
<1>2. ASSUME NEW y \in Boundaries, y <= boundaries, s \in ToSet(suspense[y].completedSegments)
      PROVE  segment[s].id # NoID /\ segment[s].status \in {"COMPLETED", "FLUSHED"}
  <2>1. /\ segment[s].status \in {"COMPLETED", "FLUSHED"}
        /\ s = suspense[y].content \/ segment[s].id # NoID
    BY <1>2 DEF Inv, ReadyState
  <2>2. segment[suspense[y].content].boundary = NoBoundary
    BY <1>2 DEF Inv, BoundaryTree
  <2> QED BY <1>1, <2>1, <2>2
<1>3. CASE s \in starts
  <2>1. s \in ToSet(suspense[b].completedSegments)
    BY <1>3
  <2> QED BY <1>2, <2>1 DEF s
<1>4. CASE s \notin starts
  <2>1. PICK p \in W : s \in Visits(p)
    BY <1>1, <1>4 DEF Visited
  <2>2. p \in Segments
    BY DEF Visited
  <2>3. CASE Inlined(p)
    <3> DEFINE y == segment[p].boundary
    <3>1. y # NoBoundary /\ s \in ToSet(suspense[y].completedSegments)
      BY <2>1, <2>3 DEF Visits, Inlined, Loading
    <3>2. y \in Boundaries
      BY <1>0, <2>2, <3>1, InvTypes
    <3>3. y <= boundaries
      BY <2>2 DEF Inv, SegmentTree
    <3> HIDE DEF y
    <3> QED BY <1>2, <3>1, <3>2, <3>3 DEF s
  <2>4. CASE ~Inlined(p)
    <3>1. segment[p].status = "COMPLETED" /\ segment[s].parent = p
      BY <2>1, <2>4 DEF Visits, Children
    <3>2. PICK place \in Places : ShownState(place.home, place.reg)
      BY DEF Inv, Placed
    <3>3. s \in Reached
      <4>1. x \in Shown
        BY <1>1 DEF Shown
      <4> QED BY <1>1, <4>1 DEF Reached
    <3>4. segment[segment[s].parent].status = "FLUSHED"
      BY <1>1, <3>2, <3>3 DEF ShownState
    <3> QED BY <3>1, <3>4
  <2> QED BY <2>3, <2>4
<1> QED BY <1>3, <1>4

(* What is taken from the queue of completed boundaries.                   *)
TakesFirst(b, shown) ==
    /\ clientRenderedBoundaries = << >>
    /\ completedBoundaries # << >> /\ b = Head(completedBoundaries)
    /\ completedBoundaries' = Tail(completedBoundaries)
    /\ shown[b] = "completed"

TakesNone(b, shown) ==
    /\ b # Root => clientRenderedBoundaries = << >> /\ completedBoundaries = << >>
    /\ UNCHANGED completedBoundaries
    /\ \A x \in Boundaries : shown[x] = client[x]

LEMMA WritesQueued ==
    ASSUME Inv, TypeOK', NEW b, NEW starts, NEW ready, NEW shown, NEW W,
           Writes(b, starts, ready, shown, W),
           TakesFirst(b, shown) \/ TakesNone(b, shown)
    PROVE  QueuedOnce'
<1>0. TypeOK
  BY DEF Inv
<1>1. /\ clientRenderedBoundaries' = clientRenderedBoundaries
      /\ Visited(starts, W) /\ b \in BoundaryIds /\ b <= boundaries
      /\ starts \subseteq ToSet(suspense[b].completedSegments)
      /\ \A x \in Boundaries :
            \/ shown[x] = client[x]
            \/ x = b /\ b \in Complete /\ shown[x] = "completed" /\ ready = << >>
      /\ \A x \in BoundaryIds :
            /\ suspense'[x].pendingTasks = suspense[x].pendingTasks
            /\ suspense'[x].forceClientRender = suspense[x].forceClientRender
            /\ suspense'[x].fallback = suspense[x].fallback
      /\ \A x \in Boundaries : client'[x] = IF x \in Met(W) THEN ClientOf(x) ELSE shown[x]
  BY Zenon DEF Writes, FlushOf
<1>2. \A s \in Segments :
          /\ segment'[s].status = IF s \in Out(W) /\ segment[s].status = "COMPLETED"
                                  THEN "FLUSHED" ELSE segment[s].status
          /\ segment[s].id # NoID => segment'[s].id # NoID
  BY Zenon DEF Writes
<1>3. \A x \in Boundaries : x \in BoundaryIds /\ x # Root
  BY <1>0, InvTypes, Zenon DEF BoundaryIds
<1>4. \A x \in Met(W) : x \in Boundaries /\ x <= boundaries
  BY <1>1, MetBoundaries
<1>5. /\ \A x \in Met(W) : client[x] = "completed" => ClientOf(x) = "completed"
      /\ b = Root /\ W # {} => \A x \in Boundaries : client[x] = "none"
  BY WritesSets, WritesRoot
<1>6. /\ \A x \in Boundaries : client[x] = "completed" => x \in Complete
      /\ \A x \in ToSet(completedBoundaries) : x \in Complete /\ client[x] # "none"
  BY DEF Inv, ClientState
<1>7. \A x \in Boundaries :
          /\ ClientOf(x) \in {"client", "pending", "completed"}
          /\ ClientOf(x) = "pending" => ~suspense[x].forceClientRender
          /\ ClientOf(x) = "pending" => suspense[x].pendingTasks > 0
          /\ x \in Complete => ClientOf(x) = "completed"
          /\ suspense[x].pendingTasks \in Nat
  <2>1. \A x \in Boundaries : suspense[x].pendingTasks \in Nat
    BY <1>0, <1>3, InvTypes DEF BoundaryIds
  <2>2. \A x \in Boundaries : x \in Complete => ClientOf(x) = "completed"
    BY DEF Complete, ClientOf, Loading
  <2> QED BY <2>1, <2>2, Zenon DEF ClientOf, Loading
<1>8. ASSUME NEW x \in Boundaries, ShownTwice(x)
      PROVE  ShownTwice(x)'
  <2>1. client[x] = "completed" /\ x \in Complete
    BY <1>6, <1>8 DEF ShownTwice
  <2>2. x <= boundaries
    BY <2>1 DEF Complete
  <2>3. suspense[x].fallback \in Segments /\ suspense'[x].fallback = suspense[x].fallback
    BY <1>1, <1>3, <2>2 DEF Inv, BoundaryTree
  <2>4. client'[x] = "completed"
    BY <1>1, <1>5, <2>1
  <2>5. /\ segment[suspense[x].fallback].id # NoID
        /\ segment[suspense[x].fallback].status \in {"COMPLETED", "FLUSHED"}
    BY <1>8 DEF ShownTwice
  <2>6. /\ segment'[suspense'[x].fallback].id # NoID
        /\ segment'[suspense'[x].fallback].status \in {"COMPLETED", "FLUSHED"}
    BY <1>2, <2>3, <2>5
  <2> QED BY <2>4, <2>6 DEF ShownTwice
<1> DEFINE Waits(x) == client[x] = "pending" /\ ~suspense[x].forceClientRender
                       /\ suspense[x].pendingTasks = 0
           Left(x)  == client[x] = "pending" /\ suspense[x].forceClientRender
<1>9. \A x \in Boundaries :
          /\ Count(clientRenderedBoundaries, x) = IF Left(x) THEN 1 ELSE 0
          /\ \/ Count(completedBoundaries, x) = IF Waits(x) THEN 1 ELSE 0
             \/ Count(completedBoundaries, x) = 1 /\ ShownTwice(x)
  BY DEF Inv, QueuedOnce
<1>10. \A x \in Boundaries : ShownTwice(x) => client[x] = "completed"
  BY DEF ShownTwice
<1> DEFINE Waits2(x) == client'[x] = "pending" /\ ~suspense'[x].forceClientRender
                        /\ suspense'[x].pendingTasks = 0
           Left2(x)  == client'[x] = "pending" /\ suspense'[x].forceClientRender
<1>11. SUFFICES ASSUME NEW x \in Boundaries
       PROVE  /\ Count(clientRenderedBoundaries', x) = IF Left2(x) THEN 1 ELSE 0
              /\ \/ Count(completedBoundaries', x) = IF Waits2(x) THEN 1 ELSE 0
                 \/ Count(completedBoundaries', x) = 1 /\ ShownTwice(x)'
  BY Zenon DEF QueuedOnce
<1>12. (Left2(x) <=> client'[x] = "pending" /\ suspense[x].forceClientRender)
       /\ (Waits2(x) <=> client'[x] = "pending" /\ ~suspense[x].forceClientRender
                         /\ suspense[x].pendingTasks = 0)
  BY <1>1, <1>3, Zenon
<1>13. x \in Met(W) => ~Left2(x) /\ ~Waits2(x) /\ client'[x] # "none"
  <2> SUFFICES ASSUME x \in Met(W) PROVE ~Left2(x) /\ ~Waits2(x) /\ client'[x] # "none"
    OBVIOUS
  <2>1. client'[x] = ClientOf(x)
    BY <1>1
  <2>2. ClientOf(x) = "pending" => ~suspense[x].forceClientRender /\ suspense[x].pendingTasks # 0
    BY <1>7
  <2> QED BY <1>7, <1>12, <2>1, <2>2
<1>14. x \notin Met(W) /\ shown[x] = client[x] => (Left2(x) <=> Left(x)) /\ (Waits2(x) <=> Waits(x))
  BY <1>1, <1>12
<1> HIDE DEF Waits, Left, Waits2, Left2
<1>15. CASE x \notin Met(W) /\ shown[x] = client[x] /\ Count(completedBoundaries', x) = Count(completedBoundaries, x)
  BY <1>1, <1>8, <1>9, <1>14, <1>15
<1>16. CASE x \in Met(W) /\ b = Root
  <2>1. W # {}
    BY <1>16 DEF Met
  <2>2. client[x] = "none"
    BY <1>5, <1>16, <2>1
  <2>3. ~Left(x) /\ ~Waits(x) /\ ~ShownTwice(x)
    BY <1>10, <2>2 DEF Left, Waits
  <2>4. b \notin Boundaries
    BY <1>3, <1>16
  <2>5. completedBoundaries' = completedBoundaries
    <3>1. ~TakesFirst(b, shown)
      <4> SUFFICES ASSUME TakesFirst(b, shown) PROVE FALSE
        OBVIOUS
      <4>1. b \in Boundaries
        BY <1>0, ControlTypes, TailElements DEF TakesFirst
      <4> QED BY <2>4, <4>1
    <3> QED BY <3>1 DEF TakesNone
  <2> QED BY <1>1, <1>9, <1>13, <1>16, <2>3, <2>5
<1>17. CASE x \in Met(W) /\ b # Root /\ TakesNone(b, shown)
  <2>1. completedBoundaries' = << >> /\ clientRenderedBoundaries' = << >>
    BY <1>1, <1>17 DEF TakesNone
  <2>2. Count(<< >>, x) = 0
    BY CountEmpty
  <2> QED BY <1>13, <1>17, <2>1, <2>2
<1>18. CASE TakesFirst(b, shown)
  <2>1. /\ clientRenderedBoundaries' = << >> /\ Count(<< >>, x) = 0
        /\ completedBoundaries \in Seq(Boundaries) /\ completedBoundaries # << >>
        /\ b = Head(completedBoundaries) /\ completedBoundaries' = Tail(completedBoundaries)
        /\ shown[b] = "completed"
    BY <1>0, <1>1, <1>18, CountEmpty, ControlTypes DEF TakesFirst
  <2>2. /\ b \in Boundaries /\ b \in ToSet(completedBoundaries)
        /\ Count(completedBoundaries, x) =
              Count(completedBoundaries', x) + IF b = x THEN 1 ELSE 0
        /\ Count(completedBoundaries', x) \in Nat
    BY <2>1, TailElements, CountTail
  <2>3. b \in Complete
    BY <1>6, <2>2
  <2>4. CASE x = b
    <3>1. client'[x] = "completed"
      BY <1>1, <1>7, <2>1, <2>3, <2>4
    <3>2. ~Left2(x) /\ ~Waits2(x)
      BY <3>1 DEF Left2, Waits2
    <3>3. Count(completedBoundaries, x) \in {0, 1}
      BY <1>9
    <3>4. Count(completedBoundaries', x) = 0
      BY <2>2, <2>4, <3>3
    <3> QED BY <2>1, <3>2, <3>4
  <2>5. CASE x # b
    <3>1. Count(completedBoundaries', x) = Count(completedBoundaries, x)
      BY <2>2, <2>5
    <3>2. shown[x] = client[x]
      BY <1>1, <2>5
    <3>3. CASE x \in Met(W)
      <4>1. Count(clientRenderedBoundaries', x) = 0 /\ ~Left2(x) /\ ~Waits2(x)
        BY <1>13, <2>1, <3>3
      <4>2. CASE Waits(x)
        <5>1. client[x] = "pending" /\ ~suspense[x].forceClientRender
              /\ suspense[x].pendingTasks = 0
          BY <4>2 DEF Waits
        <5>2. client'[x] = "completed"
          <6>1. ClientOf(x) = "completed"
            BY <5>1 DEF ClientOf, Loading
          <6> QED BY <1>1, <3>3, <6>1
        <5>3. /\ segment[suspense[x].fallback].id # NoID
              /\ segment[suspense[x].fallback].status \in {"COMPLETED", "FLUSHED"}
          BY <1>1, <2>2, <3>3, <5>1, MetAgain
        <5>4. suspense[x].fallback \in Segments /\ suspense'[x].fallback = suspense[x].fallback
          BY <1>1, <1>3, <1>4, <3>3 DEF Inv, BoundaryTree
        <5>5. /\ segment'[suspense'[x].fallback].id # NoID
              /\ segment'[suspense'[x].fallback].status \in {"COMPLETED", "FLUSHED"}
          BY <1>2, <5>3, <5>4
        <5>6. ShownTwice(x)'
          BY <5>2, <5>5 DEF ShownTwice
        <5>7. ~ShownTwice(x)
          BY <1>10, <5>1
        <5> QED BY <1>9, <3>1, <4>1, <4>2, <5>6, <5>7
      <4>3. CASE ~Waits(x)
        BY <1>8, <1>9, <3>1, <4>1, <4>3
      <4> QED BY <4>2, <4>3
    <3> QED BY <1>15, <3>1, <3>2, <3>3
  <2> QED BY <2>4, <2>5
<1>19. CASE TakesNone(b, shown) /\ x \notin Met(W)
  BY <1>15, <1>19 DEF TakesNone
<1> QED BY <1>16, <1>17, <1>18, <1>19

(* The calls of an abort stay, and so do the tasks and the sets they are   *)
(* about.                                                                  *)
LEMMA SetKept ==
    ASSUME Inv, NEW d, SameMatters(calls, calls', d), Live' = Live,
           \A s \in Segments : /\ segment'[s].task = segment[s].task
                               /\ segment'[s].abortSet = segment[s].abortSet,
           \A a \in BoundaryIds :
              suspense'[a].fallbackAbortableTasks = suspense[a].fallbackAbortableTasks
    PROVE  SetState'
<1>0. TypeOK
  BY DEF Inv
<1>1. SUFFICES ASSUME NEW a \in Boundaries \cup {Root},
                      NEW s \in suspense'[a].fallbackAbortableTasks
      PROVE  /\ segment'[s].task /\ segment'[s].abortSet = a
             /\ \/ s \in Live' /\ \A i \in DOMAIN calls' : AbortCall(calls'[i]) => calls'[i].x # s
                \/ \E i \in DOMAIN calls' : calls'[i] = Call("clear", a)
  BY Zenon DEF SetState
<1>2. a \in BoundaryIds /\ s \in suspense[a].fallbackAbortableTasks
  BY <1>1 DEF BoundaryIds
<1>3. s \in Segments
  BY <1>0, <1>2, InvTypes DEF BoundaryIds
<1>4. /\ segment[s].task /\ segment[s].abortSet = a
      /\ \/ s \in Live /\ \A i \in DOMAIN calls : AbortCall(calls[i]) => calls[i].x # s
         \/ \E i \in DOMAIN calls : calls[i] = Call("clear", a)
  BY <1>2 DEF Inv, SetState, BoundaryIds
<1>5. ASSUME NEW i \in DOMAIN calls', AbortCall(calls'[i])
      PROVE  \E j \in DOMAIN calls : calls[j] = calls'[i]
  BY <1>5 DEF SameMatters, Matters
<1>6. ASSUME NEW i \in DOMAIN calls, calls[i] = Call("clear", a)
      PROVE  \E j \in DOMAIN calls' : calls'[j] = Call("clear", a)
  <2>1. Matters(calls[i])
    BY <1>6 DEF Matters, Call
  <2> QED BY <1>6, <2>1 DEF SameMatters
<1>7. CASE s \in Live /\ \A i \in DOMAIN calls : AbortCall(calls[i]) => calls[i].x # s
  <2>1. \A i \in DOMAIN calls' : AbortCall(calls'[i]) => calls'[i].x # s
    BY <1>5, <1>7
  <2> QED BY <1>3, <1>4, <1>7, <2>1
<1> QED BY <1>3, <1>4, <1>6, <1>7

LEMMA RanksKept ==
    ASSUME Inv, NEW d, SameMatters(calls, calls', d), Live' = Live, Complete' = Complete,
           \A s \in Segments : segment'[s].abortSet = segment[s].abortSet,
           NEW rank \in Ranks, StackState(rank)
    PROVE  StackState(rank)'
<1>1. /\ d \in Int /\ DOMAIN calls \subseteq Int /\ (DOMAIN calls)' \subseteq Int
      /\ \A i \in DOMAIN calls' : Matters(calls'[i]) =>
            i + d \in DOMAIN calls /\ calls[i + d] = calls'[i]
  BY DEF SameMatters
<1>2. \A i \in DOMAIN calls' : AbortCall(calls'[i]) =>
         /\ calls'[i].x \in Live'
         /\ segment'[calls'[i].x].abortSet = segment[calls'[i].x].abortSet
  <2> SUFFICES ASSUME NEW i \in DOMAIN calls', AbortCall(calls'[i])
      PROVE  /\ calls'[i].x \in Live'
             /\ segment'[calls'[i].x].abortSet = segment[calls'[i].x].abortSet
    OBVIOUS
  <2>1. \E j \in DOMAIN calls : calls[j] = calls'[i]
    BY <1>1 DEF Matters
  <2>2. \A j \in DOMAIN calls : AbortCall(calls[j]) => calls[j].x \in Live
    BY Zenon DEF StackState
  <2>3. calls'[i].x \in Live
    BY <2>1, <2>2, Zenon
  <2>4. Live \subseteq Segments
    BY DEF Live
  <2> QED BY <2>3, <2>4
<1>3. Complete \subseteq Complete'
  OBVIOUS
<1> QED BY <1>1, <1>2, <1>3, StackShift

(* The step, whatever is flushed.                                          *)
LEMMA WritesStep ==
    ASSUME Inv, TypeOK', NEW b, NEW starts, NEW ready, NEW shown, NEW W,
           Writes(b, starts, ready, shown, W), Takes(W),
           TakesFirst(b, shown) \/ TakesNone(b, shown),
           UNCHANGED <<allPendingTasks, ended>>,
           calls # << >>, Head(calls).f \in Flushing, flowing,
           NEW f \in FlushCalls, calls' = << Call(f, 0) >> \o Rest,
           f # "flushEnd" => flowing',
           f \in {"flushCompleted", "flushPartial"} => clientRenderedBoundaries' = << >>,
           f = "flushPartial" => completedBoundaries' = << >>
    PROVE  Inv'
<1>0. TypeOK /\ calls \in Seq(CallType)
  BY DEF Inv
<1>1. /\ opened = << >> /\ opened' = << >> /\ running = NoTask /\ running' = NoTask
      /\ UNCHANGED <<segments, boundaries, pingedTasks, requestStatus, clientRenderedBoundaries>>
      /\ \A s \in Segments :
            /\ segment'[s].task = segment[s].task
            /\ segment'[s].abortSet = segment[s].abortSet
            /\ segment'[s].suspended = segment[s].suspended
      /\ \A x \in BoundaryIds :
            /\ suspense'[x].pendingTasks = suspense[x].pendingTasks
            /\ suspense'[x].fallbackAbortableTasks = suspense[x].fallbackAbortableTasks
  BY Zenon DEF Writes
<1>2. /\ Quiet(Rest) /\ ~Matters(Head(calls)) /\ Head(calls) # TD
      /\ Rest \in Seq(CallType)
  BY FlushRest
<1>3. /\ calls' \in Seq(CallType) /\ Count(calls', TD) = Count(calls, TD)
      /\ \E d : SameMatters(calls, calls', d)
      /\ calls'[1].f = f /\ \A i \in DOMAIN calls' : i # 1 => calls'[i] = calls[i]
  BY <1>2, Swap
<1>4. SameShape /\ SameNest /\ NewKept /\ SegmentTree' /\ BoundaryTree'
  BY WritesShape
<1>5. /\ Live' = Live /\ (\A x : BlockedBy(x)' = BlockedBy(x)) /\ Complete' = Complete
  BY WritesSets
<1>6. segment'[RootSegment].status = "FLUSHED" /\ RootState'
  BY WritesRoot
<1>7. ReadyState' /\ OverState' /\ ClientState' /\ QueuedOnce'
  BY WritesReady, WritesOver, WritesClient, WritesQueued
<1>8. PICK d : SameMatters(calls, calls', d)
  BY <1>3
<1>9. SetState'
  BY <1>1, <1>5, <1>8, SetKept
<1>10. Placed'
  <2>1. PICK place \in Places :
            PlaceOf(place) /\ StackState(place.rank) /\ ShownState(place.home, place.reg)
    BY DEF Inv, Placed
  <2>2. PlaceOf(place)'
    BY <1>1, <1>4, <2>1, PlaceFrame
  <2>3. place.rank \in Ranks
    BY DEF Places
  <2>4. StackState(place.rank)'
    BY <1>1, <1>5, <1>8, <2>1, <2>3, RanksKept
  <2>5. ShownState(place.home, place.reg)'
    BY <2>1, WritesShown
  <2>6. place \in Places'
    BY DEF Places, Ranks
  <2> QED BY <2>2, <2>4, <2>5, <2>6, Zenon DEF Placed
<1>11. RunState' /\ OpenState'
  <2>1. \A i \in DOMAIN pingedTasks' : segment'[pingedTasks'[i]].task
    <3>1. \A i \in DOMAIN pingedTasks : pingedTasks[i] \in Segments
      BY <1>0, ControlTypes
    <3>2. \A i \in DOMAIN pingedTasks : segment[pingedTasks[i]].task
      BY DEF Inv, RunState
    <3> QED BY <1>1, <3>1, <3>2
  <2>2. \A s \in Segments : segment'[s].suspended => segment'[s].task
    BY <1>1 DEF Inv, RunState
  <2>3. opened' = << >> /\ running' = NoTask
    BY <1>1
  <2>4. DOMAIN opened' = {}
    BY <2>3
  <2>5. OpenState'
    BY <2>4, Zenon DEF OpenState
  <2> QED BY <2>1, <2>2, <2>3, <2>5, Zenon DEF RunState
<1>12. CountState'
  <2>1. /\ allPendingTasks = Cardinality(Live) + Count(calls, TD)
        /\ \A x \in Boundaries : suspense[x].pendingTasks = Cardinality(BlockedBy(x))
        /\ suspense[Root].pendingTasks >= Cardinality(BlockedBy(Root))
        /\ requestStatus = "OPEN" =>
              suspense[Root].pendingTasks = Cardinality(BlockedBy(Root))
    BY DEF Inv, CountState, TD
  <2>2. \A x \in Boundaries \cup {Root} : suspense'[x].pendingTasks = suspense[x].pendingTasks
    BY <1>1 DEF BoundaryIds
  <2>3. allPendingTasks' = Cardinality(Live') + Count(calls', Call("taskDone", 0))
    BY <1>3, <1>5, <2>1 DEF TD
  <2>4. \A x \in Boundaries : suspense'[x].pendingTasks = Cardinality(BlockedBy(x)')
    BY <1>5, <2>1, <2>2
  <2>5. /\ suspense'[Root].pendingTasks >= Cardinality(BlockedBy(Root)')
        /\ requestStatus' = "OPEN" =>
              suspense'[Root].pendingTasks = Cardinality(BlockedBy(Root)')
    BY <1>1, <1>5, <2>1, <2>2
  <2>6. segment'[RootSegment].status \notin {"ABORTED", "ERRORED"}
    BY <1>6
  <2> QED BY <2>3, <2>4, <2>5, <2>6, Zenon DEF CountState
<1>13. FlowState'
  <2>1. /\ requestStatus = "OPEN" \/ ended # "no"
        /\ ended = "closed" =>
             /\ requestStatus = "OPEN" /\ allPendingTasks = 0
             /\ clientRenderedBoundaries = << >> /\ completedBoundaries = << >>
    BY DEF Inv, FlowState
  <2>2. requestStatus' = "OPEN" \/ ended' # "no"
    BY <1>1, <2>1
  <2>3. ended' = "closed" =>
          /\ requestStatus' = "OPEN" /\ allPendingTasks' = 0
          /\ clientRenderedBoundaries' = << >> /\ completedBoundaries' = << >>
    <3>1. ended = "closed" => completedBoundaries' = completedBoundaries
      BY <2>1 DEF TakesFirst, TakesNone
    <3> QED BY <1>1, <2>1, <3>1
  <2>4. ASSUME NEW i \in DOMAIN calls', i # 1
        PROVE  calls'[i].f \notin FlushCalls \cup {"fatalError"}
    <3>1. Call(f, 0) \in CallType
      BY CallTypes
    <3>2. i - 1 \in DOMAIN Rest /\ calls'[i] = Rest[i - 1]
      BY <1>2, <2>4, <3>1, PushCall
    <3> QED BY <1>2, <3>2 DEF Quiet
  <2>5. ASSUME NEW i \in DOMAIN calls'
        PROVE
          /\ calls'[i].f \in FlushCalls => i = 1
          /\ calls'[i].f \in FlushCalls \ {"flushEnd"} => flowing'
          /\ calls'[i].f \in FlushCalls =>
                /\ requestStatus' = "OPEN" \/ ended' # "no"
                /\ \/ suspense'[Root].pendingTasks > 0 \/ segment'[RootSegment].status = "FLUSHED"
                   \/ Len(calls') > 1 /\ calls'[2].f = "fatalError"
          /\ calls'[i].f \in {"flushCompleted", "flushPartial"} =>
                clientRenderedBoundaries' = << >>
          /\ calls'[i].f = "flushPartial" => completedBoundaries' = << >>
          /\ calls'[i].f = "fatalError" =>
                flowing' /\ (i = 1 \/ (i = 2 /\ calls'[1].f = "flushEnd"))
    <3>1. CASE i # 1
      <4>1. calls'[i].f \notin FlushCalls \cup {"fatalError"}
        BY <2>4, <3>1
      <4> QED BY <4>1 DEF FlushCalls
    <3>2. CASE i = 1
      <4>1. calls'[i].f = f /\ f # "fatalError"
        BY <1>3, <3>2 DEF FlushCalls
      <4> QED BY <1>6, <2>2, <3>2, <4>1
    <3> QED BY <3>1, <3>2
  <2>6. ended' = "closed" =>
          \/ segment'[RootSegment].status = "FLUSHED"
          \/ \E i \in DOMAIN calls' : calls'[i].f = "fatalError"
    BY <1>6
  <2> QED BY <2>2, <2>3, <2>5, <2>6, Zenon DEF FlowState
<1> QED
  BY <1>3, <1>4, <1>6, <1>7, <1>9, <1>10, <1>11, <1>12, <1>13, Zenon DEF Inv

(* What WriteSegments does when no internal check fails, after the walk.   *)
Wrote(b, starts, after, then, full, W) ==
    LET written == Out(W)
        met     == Met(W)
        pending == {x \in met : ClientOf(x) = "pending"}
        early   == {x \in pending : suspense[x].completedSegments # << >>}
    IN
    /\ \A s \in written : segment[s].status \in {"PENDING", "COMPLETED"}
    /\ \A s \in starts : b # Root => SegmentID(s, b) # NoID
    /\ segment' = [s \in Segments |->
         IF s \notin written THEN segment[s]
         ELSE [segment[s] EXCEPT
                 !.parentFlushed = TRUE,
                 !.id = IF s \in starts THEN SegmentID(s, b)
                        ELSE IF segment[s].status = "PENDING" THEN 1 ELSE @,
                 !.status = IF @ = "COMPLETED" THEN "FLUSHED" ELSE @]]
    /\ suspense' = [x \in DOMAIN suspense |->
         [suspense[x] EXCEPT
            !.completedSegments = IF x = b THEN after.ready ELSE @,
            !.parentFlushed = @ \/ x \in met,
            !.rootSegmentID = IF x \in pending THEN Len(wrappers[x]) + 1 ELSE @]]
    /\ client' = [x \in Boundaries |-> IF x \in met THEN ClientOf(x) ELSE after.client[x]]
    /\ wrappers' = [x \in Boundaries |->
         IF x \in met THEN Append(after.wrappers[x], ClientOf(x)) ELSE after.wrappers[x]]
    /\ completedBoundaries' = after.completed
    /\ \E order \in SetToSeqs(early) : partialBoundaries' = after.partial \o order
    /\ calls' = << Call(IF full THEN "flushEnd" ELSE then, 0) >> \o Rest
    /\ flowing' = ~full
    /\ UNCHANGED thrown

LEMMA WriteCases ==
    ASSUME NEW b, NEW starts, NEW after, NEW then, NEW full,
           WriteSegments(b, starts, after, then, full)
    PROVE  \/ /\ thrown' = TRUE
              /\ calls' = << Call("flushEnd", 0), Call("fatalError", 0) >> \o Rest
              /\ UNCHANGED <<segment, suspense, client, wrappers, completedBoundaries, partialBoundaries,
                             flowing>>
           \/ Wrote(b, starts, after, then, full, UNION {Walk[s] : s \in starts})
<1> DEFINE W == UNION {Walk[s] : s \in starts}
<1>1. Out(W) = {s \in W : ~Inlined(s)} /\ Met(W) = {segment[s].boundary : s \in W} \ {NoBoundary}
  BY DEF Out, Met
<1> HIDE DEF W
<1> QED BY <1>1 DEF WriteSegments, Wrote, W

LEMMA WroteTypes ==
    ASSUME Inv, NEW b \in BoundaryIds, NEW starts, NEW after, NEW then, NEW full \in BOOLEAN,
           NEW W, Visited(starts, W), Wrote(b, starts, after, then, full, W),
           after.ready \in Seq(Segments),
           \A x \in Boundaries : after.client[x] \in {"none", "pending", "completed", "client"},
           \A x \in Boundaries : after.wrappers[x] \in Wrappers,
           after.completed \in Seq(Boundaries), after.partial \in Seq(Boundaries),
           ToSet(after.partial) \subseteq ToSet(partialBoundaries),
           ToSet(after.completed) \subseteq ToSet(completedBoundaries),
           UNCHANGED <<segments, boundaries, allPendingTasks, pingedTasks,
                       clientRenderedBoundaries, requestStatus, ended, next, renderVars,
                       scheduled, userVars>>
    PROVE  TypeOK' /\ Takes(W)
<1>0. TypeOK
  BY DEF Inv
<1>1. segment \in [Segments -> SegmentRecord] /\ suspense \in [BoundaryIds -> BoundaryRecord]
  BY <1>0, RecordTypes DEF BoundaryIds
<1> DEFINE pending == {x \in Met(W) : ClientOf(x) = "pending"}
           early   == {x \in pending : suspense[x].completedSegments # << >>}
<1>2. early \in SUBSET Boundaries /\ early \subseteq Met(W)
  BY MetBoundaries
<1>3. segment' \in [Segments -> SegmentRecord]
  <2>1. segment' = [s \in Segments |->
         IF s \notin Out(W) THEN segment[s]
         ELSE [segment[s] EXCEPT
                 !.parentFlushed = TRUE,
                 !.id = IF s \in starts THEN SegmentID(s, b)
                        ELSE IF segment[s].status = "PENDING" THEN 1 ELSE @,
                 !.status = IF @ = "COMPLETED" THEN "FLUSHED" ELSE @]]
    BY DEF Wrote
  <2>2. ASSUME NEW s \in Segments
        PROVE  [segment[s] EXCEPT
                 !.parentFlushed = TRUE,
                 !.id = IF s \in starts THEN SegmentID(s, b)
                        ELSE IF segment[s].status = "PENDING" THEN 1 ELSE @,
                 !.status = IF @ = "COMPLETED" THEN "FLUSHED" ELSE @] \in SegmentRecord
    <3> DEFINE r == segment[s]
               i == IF s \in starts THEN SegmentID(s, b)
                    ELSE IF r.status = "PENDING" THEN 1 ELSE r.id
    <3>1. r \in SegmentRecord /\ i \in Nat
      <4>1. r \in SegmentRecord /\ r.id \in Nat
        BY <1>1 DEF SegmentRecord
      <4>2. suspense[b].rootSegmentID \in Nat
        BY <1>1 DEF BoundaryRecord
      <4>3. SegmentID(s, b) \in Nat
        BY <4>1, <4>2 DEF SegmentID
      <4> QED BY <4>1, <4>3
    <3> HIDE DEF r, i
    <3>2. [r EXCEPT !.parentFlushed = TRUE, !.id = i,
                    !.status = IF @ = "COMPLETED" THEN "FLUSHED" ELSE @] \in SegmentRecord
      BY <3>1 DEF SegmentRecord
    <3> QED BY <3>2 DEF r, i
  <2> QED BY <1>1, <2>1, <2>2
<1>4. suspense' \in [BoundaryIds -> BoundaryRecord]
  <2>1. suspense' = [x \in BoundaryIds |->
         [suspense[x] EXCEPT
            !.completedSegments = IF x = b THEN after.ready ELSE @,
            !.parentFlushed = @ \/ x \in Met(W),
            !.rootSegmentID = IF x \in pending THEN Len(wrappers[x]) + 1 ELSE @]]
    BY <1>1 DEF Wrote
  <2>2. ASSUME NEW x \in BoundaryIds
        PROVE  [suspense[x] EXCEPT
                  !.completedSegments = IF x = b THEN after.ready ELSE @,
                  !.parentFlushed = @ \/ x \in Met(W),
                  !.rootSegmentID = IF x \in pending THEN Len(wrappers[x]) + 1 ELSE @] \in BoundaryRecord
    <3> DEFINE r == suspense[x]
               c == IF x = b THEN after.ready ELSE r.completedSegments
               p == r.parentFlushed \/ x \in Met(W)
               i == IF x \in pending THEN Len(wrappers[x]) + 1 ELSE r.rootSegmentID
    <3>1. r \in BoundaryRecord /\ p \in BOOLEAN /\ i \in Nat
      <4>1. x \in pending => Len(wrappers[x]) \in Nat
        <5>1. x \in pending => x \in Boundaries
          BY MetBoundaries
        <5>2. x \in Boundaries => wrappers[x] \in Seq({"pending", "completed", "client"})
          BY <1>0, ControlTypes
        <5> QED BY <5>1, <5>2, LenProperties
      <4>2. r \in BoundaryRecord /\ r.rootSegmentID \in Nat
        BY <1>1 DEF BoundaryRecord
      <4> QED BY <1>1, <4>1, <4>2
    <3>2. c \in Seq(Segments)
      BY <1>1 DEF BoundaryRecord
    <3> HIDE DEF r, c, p, i
    <3>3. [r EXCEPT !.completedSegments = c, !.parentFlushed = p, !.rootSegmentID = i]
             \in BoundaryRecord
      BY <3>1, <3>2 DEF BoundaryRecord
    <3> QED BY <3>3 DEF r, c, p, i
  <2> QED BY <2>1, <2>2
<1>5. client' \in [Boundaries -> {"none", "pending", "completed", "client"}]
  <2>1. client' = [x \in Boundaries |-> IF x \in Met(W) THEN ClientOf(x) ELSE after.client[x]]
    BY DEF Wrote
  <2>2. \A x : ClientOf(x) \in {"none", "pending", "completed", "client"}
    BY DEF ClientOf, Loading
  <2> QED BY <2>1, <2>2
<1>9. wrappers' \in [Boundaries -> Wrappers]
  <2>1. wrappers' = [x \in Boundaries |->
           IF x \in Met(W) THEN Append(after.wrappers[x], ClientOf(x)) ELSE after.wrappers[x]]
    BY DEF Wrote
  <2>2. \A x : ClientOf(x) \in {"pending", "completed", "client"}
    BY DEF ClientOf, Loading
  <2>3. ASSUME NEW x \in Boundaries
        PROVE  Append(after.wrappers[x], ClientOf(x)) \in Wrappers
    <3> DEFINE w == after.wrappers[x]
               v == ClientOf(x)
    <3>1. w \in Wrappers /\ v \in {"pending", "completed", "client"}
      BY <2>2
    <3> HIDE DEF w, v
    <3>2. Append(w, v) \in Wrappers
      BY <3>1, AppendProperties DEF Wrappers
    <3> QED BY <3>2 DEF w, v
  <2> QED BY <2>1, <2>3
<1>6. Takes(W)
  <2>1. completedBoundaries' = after.completed
    BY DEF Wrote
  <2>2. PICK order \in SetToSeqs(early) : partialBoundaries' = after.partial \o order
    BY DEF Wrote
  <2> HIDE DEF early, pending
  <2>3. IsFiniteSet(early)
    <3>1. IsFiniteSet(Boundaries \cup {Root}) /\ early \subseteq Boundaries \cup {Root}
      BY <1>2, Sets
    <3> QED BY <3>1, FS_Subset
  <2>4. order \in Seq(Boundaries) /\ order \in Seq(early)
    BY <1>2, <2>3, OrderOfSet
  <2>5. ToSet(order) \subseteq early
    BY <2>4, RangeOfSet DEF ToSet, Range
  <2>6. /\ partialBoundaries' \in Seq(Boundaries)
        /\ ToSet(partialBoundaries') = ToSet(after.partial) \cup ToSet(order)
    BY <2>2, <2>4, ConcatElements
  <2> QED BY <1>2, <2>1, <2>5, <2>6 DEF Takes
<1>7. flowing' \in BOOLEAN /\ thrown' \in BOOLEAN
  <2>1. flowing' = ~full /\ thrown' = thrown
    BY DEF Wrote
  <2> QED BY <1>0, <2>1, ControlTypes
<1>8. TypeOK'
  <2>1. /\ segments' \in Segments /\ boundaries' \in Boundaries \cup {Root}
        /\ allPendingTasks' \in Nat /\ pingedTasks' \in Seq(Segments)
        /\ clientRenderedBoundaries' \in Seq(Boundaries)
        /\ requestStatus' \in {"OPEN", "CLOSING", "CLOSED"}
        /\ UNCHANGED next /\ running' \in Segments \cup {NoTask} /\ opened' \in Seq(Boundaries)
        /\ started' \in BOOLEAN /\ scheduled' \in Nat /\ piped' \in BOOLEAN /\ UNCHANGED aborted
        /\ ended' \in {"no", "closed", "error", "aborted"} /\ retries' \in 0..MaxRetries
    BY <1>0, ControlTypes DEF renderVars, userVars
  <2>2. completedBoundaries' \in Seq(Boundaries) /\ partialBoundaries' \in Seq(Boundaries)
    BY <1>6 DEF Takes
  <2>3. suspense' \in [Boundaries \cup {Root} -> BoundaryRecord]
    BY <1>4 DEF BoundaryIds
  <2>4. wrappers' \in [Boundaries -> Seq({"pending", "completed", "client"})]
    BY <1>9 DEF Wrappers
  <2> QED BY <1>0, <1>3, <1>5, <1>7, <2>1, <2>2, <2>3, <2>4, TypeNext
<1> QED BY <1>6, <1>8

LEMMA WroteWrites ==
    ASSUME Inv, NEW b, NEW starts, NEW after, NEW then, NEW full, NEW W,
           Visited(starts, W), Wrote(b, starts, after, then, full, W),
           FlushOf(b, starts, after.ready, after.client),
           opened = << >>, running = NoTask,
           UNCHANGED <<segments, boundaries, pingedTasks, clientRenderedBoundaries,
                       requestStatus, running, opened>>
    PROVE  Writes(b, starts, after.ready, after.client, W)
<1>0. TypeOK
  BY DEF Inv
<1>1. segment \in [Segments -> SegmentRecord] /\ suspense \in [BoundaryIds -> BoundaryRecord]
  BY <1>0, RecordTypes DEF BoundaryIds
<1> DEFINE pending == {x \in Met(W) : ClientOf(x) = "pending"}
<1>2. \A s \in Segments :
          /\ segment'[s].status = IF s \in Out(W) /\ segment[s].status = "COMPLETED"
                                  THEN "FLUSHED" ELSE segment[s].status
          /\ segment'[s].parentFlushed <=> segment[s].parentFlushed \/ s \in Out(W)
          /\ segment[s].id # NoID => segment'[s].id # NoID
          /\ GetsID(s, b, starts, W) => segment'[s].id # NoID
          /\ s \notin Out(W) => segment'[s] = segment[s]
          /\ segment'[s].parent = segment[s].parent
          /\ segment'[s].boundary = segment[s].boundary
          /\ segment'[s].task = segment[s].task
          /\ segment'[s].blockedBoundary = segment[s].blockedBoundary
          /\ segment'[s].abortSet = segment[s].abortSet
          /\ segment'[s].suspended = segment[s].suspended
  <2>1. segment' = [s \in Segments |->
         IF s \notin Out(W) THEN segment[s]
         ELSE [segment[s] EXCEPT
                 !.parentFlushed = TRUE,
                 !.id = IF s \in starts THEN SegmentID(s, b)
                        ELSE IF segment[s].status = "PENDING" THEN 1 ELSE @,
                 !.status = IF @ = "COMPLETED" THEN "FLUSHED" ELSE @]]
    BY DEF Wrote
  <2> SUFFICES ASSUME NEW s \in Segments
      PROVE
          /\ segment'[s].status = IF s \in Out(W) /\ segment[s].status = "COMPLETED"
                                  THEN "FLUSHED" ELSE segment[s].status
          /\ segment'[s].parentFlushed <=> segment[s].parentFlushed \/ s \in Out(W)
          /\ segment[s].id # NoID => segment'[s].id # NoID
          /\ GetsID(s, b, starts, W) => segment'[s].id # NoID
          /\ s \notin Out(W) => segment'[s] = segment[s]
          /\ segment'[s].parent = segment[s].parent
          /\ segment'[s].boundary = segment[s].boundary
          /\ segment'[s].task = segment[s].task
          /\ segment'[s].blockedBoundary = segment[s].blockedBoundary
          /\ segment'[s].abortSet = segment[s].abortSet
          /\ segment'[s].suspended = segment[s].suspended
    OBVIOUS
  <2>2. CASE s \notin Out(W)
    <3>1. segment'[s] = segment[s]
      BY <2>1, <2>2
    <3> QED BY <2>2, <3>1 DEF GetsID
  <2>3. CASE s \in Out(W)
    <3> DEFINE k == SegmentID(s, b)
    <3>1. segment[s] \in SegmentRecord
      BY <1>1
    <3>0. s \in starts => b = Root \/ k # NoID
      BY DEF Wrote
    <3>3. s \in starts /\ segment[s].id # NoID => k # NoID
      BY DEF SegmentID
    <3>4. NoID = 0
      BY DEF NoID
    <3>2. segment'[s] = [segment[s] EXCEPT
                 !.parentFlushed = TRUE,
                 !.id = IF s \in starts THEN SegmentID(s, b)
                        ELSE IF segment[s].status = "PENDING" THEN 1 ELSE @,
                 !.status = IF @ = "COMPLETED" THEN "FLUSHED" ELSE @]
      BY <2>1, <2>3
    <3> DEFINE r == segment[s]
               i == IF s \in starts THEN k ELSE IF r.status = "PENDING" THEN 1 ELSE r.id
    <3>5. segment'[s] = [r EXCEPT !.parentFlushed = TRUE, !.id = i,
                                  !.status = IF @ = "COMPLETED" THEN "FLUSHED" ELSE @]
      BY <3>2
    <3>6. r.id # NoID => i # NoID
      BY <3>3, <3>4
    <3>7. GetsID(s, b, starts, W) => i # NoID
      BY <3>0, <3>4 DEF GetsID
    <3> HIDE DEF k, r, i
    <3>8. /\ segment'[s].parentFlushed /\ segment'[s].id = i
          /\ segment'[s].status = IF r.status = "COMPLETED" THEN "FLUSHED" ELSE r.status
          /\ segment'[s].parent = r.parent /\ segment'[s].boundary = r.boundary
          /\ segment'[s].task = r.task /\ segment'[s].blockedBoundary = r.blockedBoundary
          /\ segment'[s].abortSet = r.abortSet /\ segment'[s].suspended = r.suspended
      BY <3>1, <3>5 DEF SegmentRecord, r
    <3> QED BY <2>3, <3>6, <3>7, <3>8 DEF r
  <2> QED BY <2>2, <2>3
<1>3. \A x \in BoundaryIds :
          /\ suspense'[x].completedSegments =
                IF x = b THEN after.ready ELSE suspense[x].completedSegments
          /\ suspense'[x].parentFlushed <=> suspense[x].parentFlushed \/ x \in Met(W)
          /\ x \notin Met(W) /\ x # b => suspense'[x] = suspense[x]
          /\ suspense'[x].pendingTasks = suspense[x].pendingTasks
          /\ suspense'[x].forceClientRender = suspense[x].forceClientRender
          /\ suspense'[x].fallbackAbortableTasks = suspense[x].fallbackAbortableTasks
          /\ suspense'[x].outer = suspense[x].outer
          /\ suspense'[x].fallback = suspense[x].fallback
          /\ suspense'[x].content = suspense[x].content
  <2>1. suspense' = [x \in BoundaryIds |->
         [suspense[x] EXCEPT
            !.completedSegments = IF x = b THEN after.ready ELSE @,
            !.parentFlushed = @ \/ x \in Met(W),
            !.rootSegmentID = IF x \in pending THEN Len(wrappers[x]) + 1 ELSE @]]
    BY <1>1 DEF Wrote
  <2> SUFFICES ASSUME NEW x \in BoundaryIds
      PROVE
          /\ suspense'[x].completedSegments =
                IF x = b THEN after.ready ELSE suspense[x].completedSegments
          /\ suspense'[x].parentFlushed <=> suspense[x].parentFlushed \/ x \in Met(W)
          /\ x \notin Met(W) /\ x # b => suspense'[x] = suspense[x]
          /\ suspense'[x].pendingTasks = suspense[x].pendingTasks
          /\ suspense'[x].forceClientRender = suspense[x].forceClientRender
          /\ suspense'[x].fallbackAbortableTasks = suspense[x].fallbackAbortableTasks
          /\ suspense'[x].outer = suspense[x].outer
          /\ suspense'[x].fallback = suspense[x].fallback
          /\ suspense'[x].content = suspense[x].content
    OBVIOUS
  <2>2. suspense[x] \in BoundaryRecord
    BY <1>1
  <2>3. suspense'[x] = [suspense[x] EXCEPT
            !.completedSegments = IF x = b THEN after.ready ELSE @,
            !.parentFlushed = @ \/ x \in Met(W),
            !.rootSegmentID = IF x \in pending THEN Len(wrappers[x]) + 1 ELSE @]
    BY <2>1
  <2>4. x \notin Met(W) => x \notin pending
    OBVIOUS
  <2> HIDE DEF pending
  <2>5. x \notin Met(W) /\ x # b => suspense'[x] = suspense[x]
    <3> SUFFICES ASSUME x \notin Met(W), x # b PROVE suspense'[x] = suspense[x]
      OBVIOUS
    <3> DEFINE r == suspense[x]
    <3>1. suspense'[x] = [r EXCEPT !.completedSegments = r.completedSegments,
                                   !.parentFlushed = r.parentFlushed \/ FALSE,
                                   !.rootSegmentID = r.rootSegmentID]
      BY <2>3, <2>4
    <3>2. r.parentFlushed \in BOOLEAN /\ r.rootSegmentID \in Nat /\ r \in BoundaryRecord
      BY <2>2 DEF BoundaryRecord
    <3> HIDE DEF r
    <3>3. suspense'[x] = [r EXCEPT !.completedSegments = r.completedSegments,
                                   !.parentFlushed = r.parentFlushed,
                                   !.rootSegmentID = r.rootSegmentID]
      BY <3>1, <3>2
    <3>4. suspense'[x] = r
      BY <3>2, <3>3 DEF BoundaryRecord
    <3> QED BY <3>4 DEF r
  <2>6. /\ suspense'[x].completedSegments =
              IF x = b THEN after.ready ELSE suspense[x].completedSegments
        /\ suspense'[x].parentFlushed <=> suspense[x].parentFlushed \/ x \in Met(W)
        /\ suspense'[x].pendingTasks = suspense[x].pendingTasks
        /\ suspense'[x].forceClientRender = suspense[x].forceClientRender
        /\ suspense'[x].fallbackAbortableTasks = suspense[x].fallbackAbortableTasks
        /\ suspense'[x].outer = suspense[x].outer
        /\ suspense'[x].fallback = suspense[x].fallback
        /\ suspense'[x].content = suspense[x].content
    BY <2>2, <2>3 DEF BoundaryRecord
  <2> QED BY <2>5, <2>6
<1>4. \A x \in Boundaries : client'[x] = IF x \in Met(W) THEN ClientOf(x) ELSE after.client[x]
  BY DEF Wrote
<1>5. \A s \in Out(W) : segment[s].status \in {"PENDING", "COMPLETED"}
  BY DEF Wrote
<1>6. /\ opened = << >> /\ opened' = << >> /\ running = NoTask /\ running' = NoTask
      /\ UNCHANGED <<segments, boundaries, pingedTasks, requestStatus, clientRenderedBoundaries>>
  OBVIOUS
<1> QED BY <1>2, <1>3, <1>4, <1>5, <1>6, Zenon DEF Writes

-----------------------------------------------------------------------------
(* What the browser has of each boundary: the wrapper that can be decided  *)
(* is the one whose number the boundary and, unless there are two of them, *)
(* its content were sent under.                                            *)
WrapperOf(b) ==
    LET w  == wrappers[b]
        id == suspense[b].rootSegmentID
    IN
    /\ client[b] = "none" <=> Len(w) = 0
    /\ client[b] = "none" => id = NoID
    /\ Len(w) = 1 => w[1] = client[b]
    /\ client[b] = "pending" \/ b \in ToSet(completedBoundaries) =>
          id \in DOMAIN w /\ w[id] = "pending"
    /\ Len(w) = 1 /\ client[b] = "pending" => id = 1

ContentOf(b) ==
    LET content == segment[suspense[b].content] IN
    b <= boundaries =>
       /\ client[b] = "none" => content.id = NoID /\ content.status # "FLUSHED"
       /\ Len(wrappers[b]) = 1 /\ client[b] = "pending" =>
             content.id = IF content.status = "FLUSHED" THEN 1 ELSE NoID
       /\ Len(wrappers[b]) > 1 => segment[suspense[b].fallback].id # NoID

WrapperState == \A b \in Boundaries : WrapperOf(b) /\ ContentOf(b)

(* A wrapper that was shown stays, and is decided once.                    *)
Decides(b) ==
    \A i \in DOMAIN wrappers[b] :
        /\ i \in DOMAIN wrappers'[b]
        /\ wrappers'[b][i] # wrappers[b][i] =>
              wrappers[b][i] = "pending" /\ wrappers'[b][i] \in {"completed", "client"}

WrappersKept == \A b \in Boundaries : WrapperOf(b)' /\ ContentOf(b)' /\ Decides(b)

LEMMA WrapperTypes ==
    ASSUME TypeOK, NEW b \in Boundaries
    PROVE  /\ wrappers[b] \in Wrappers /\ Len(wrappers[b]) \in Nat
           /\ DOMAIN wrappers[b] = 1..Len(wrappers[b])
           /\ client[b] \in {"none", "pending", "completed", "client"}
           /\ suspense[b].rootSegmentID \in Nat /\ NoID = 0
<1>1. wrappers \in [Boundaries -> Wrappers]
      /\ client \in [Boundaries -> {"none", "pending", "completed", "client"}]
  BY ControlTypes DEF Wrappers
<1>2. wrappers[b] \in Wrappers
  BY <1>1
<1> QED BY <1>1, <1>2, InvTypes, LenProperties DEF Wrappers, NoID

(* The content of a boundary is written with what the boundary has ready,  *)
(* by itself or in place of the boundary's fallback.                       *)
LEMMA ContentOut ==
    ASSUME Inv, NEW b \in BoundaryIds, b <= boundaries, NEW starts, NEW W, Visited(starts, W),
           starts \subseteq ToSet(suspense[b].completedSegments),
           NEW x \in Boundaries, x <= boundaries, suspense[x].content \in W
    PROVE  \/ x = b /\ suspense[x].content \in starts
           \/ x \in Met(W) /\ ClientOf(x) = "completed"
<1> DEFINE c == suspense[x].content
<1>0. TypeOK
  BY DEF Inv
<1>1. /\ c \in Segments /\ segment[c].boundary = NoBoundary /\ ~segment[c].task
      /\ segment[c].parent = NoSegment /\ c = suspense[x].fallback + 1
      /\ suspense[x].fallback \in Segments
  BY DEF Inv, BoundaryTree
<1>2. /\ \A y \in Met(W) : y \in Boundaries /\ y <= boundaries
      /\ \A s \in W : segment[s].boundary # NoBoundary => segment[s].boundary \in Met(W)
      /\ \A s \in Segments : segment[s].boundary # NoBoundary =>
            (Inlined(s) <=> ClientOf(segment[s].boundary) = "completed")
  BY MetBoundaries
<1>3. ASSUME NEW y \in BoundaryIds, y <= boundaries, c \in ToSet(suspense[y].completedSegments)
      PROVE  y = x
  <2>1. CASE y = Root
    <3>1. c = RootSegment
      <4>1. suspense[Root].completedSegments # << >>
        BY <1>3, <2>1 DEF ToSet
      <4>2. suspense[Root].completedSegments = << RootSegment >>
        BY <4>1 DEF Inv, RootState
      <4> QED BY <1>3, <2>1, <4>2 DEF ToSet
    <3> HIDE DEF c
    <3> QED BY <1>1, <3>1 DEF Inv, SegmentTree
  <2>2. CASE y \in Boundaries
    <3>1. c = suspense[y].content
      BY <1>1, <1>3, <2>2 DEF Inv, ReadyState
    <3>2. c = suspense[y].fallback + 1 /\ suspense[y].fallback \in Segments
          /\ segment[suspense[y].fallback].boundary = y
      BY <1>3, <2>2, <3>1 DEF Inv, BoundaryTree
    <3>3. segment[suspense[x].fallback].boundary = x
      BY DEF Inv, BoundaryTree
    <3> HIDE DEF c
    <3>4. suspense[y].fallback = suspense[x].fallback
      BY <1>0, <1>1, <3>2, InvTypes
    <3> QED BY <3>2, <3>3, <3>4
  <2> QED BY <1>3, <2>1, <2>2 DEF BoundaryIds
<1>4. SUFFICES ASSUME ~(x = b /\ c \in starts), ~(x \in Met(W) /\ ClientOf(x) = "completed")
      PROVE  FALSE
  OBVIOUS
<1> DEFINE T == W \ {c}
<1>5. starts \subseteq T
  <2>1. c \notin starts
    BY <1>3, <1>4
  <2> QED BY <2>1 DEF Visited
<1>6. IsClosed(T)
  <2> SUFFICES ASSUME NEW s \in T, c \in Visits(s) PROVE FALSE
    BY DEF IsClosed, Visited
  <2>1. s \in W /\ s \in Segments
    BY DEF Visited
  <2>2. CASE Inlined(s)
    <3> DEFINE y == segment[s].boundary
    <3>1. y # NoBoundary /\ c \in ToSet(suspense[y].completedSegments)
      BY <2>2 DEF Inlined, Visits
    <3>2. y \in Met(W) /\ y \in Boundaries /\ y <= boundaries /\ y \in BoundaryIds
      BY <1>2, <2>1, <3>1 DEF BoundaryIds
    <3>3. ClientOf(y) = "completed"
      BY <1>2, <2>1, <2>2, <3>1
    <3> HIDE DEF c, y
    <3>4. y = x
      BY <1>3, <3>1, <3>2
    <3> QED BY <1>4, <3>2, <3>3, <3>4
  <2>3. CASE ~Inlined(s)
    <3>1. c \in Children(s)
      BY <2>3 DEF Visits
    <3>2. segment[c].parent = s
      BY <3>1 DEF Children
    <3> HIDE DEF c, T
    <3>3. s # NoSegment
      BY <1>0, <2>1, InvTypes
    <3> QED BY <1>1, <3>2, <3>3
  <2> QED BY <2>2, <2>3
<1>7. T \subseteq Segments
  BY DEF Visited
<1>8. W \subseteq T
  <2> HIDE DEF T
  <2> QED BY <1>5, <1>6, <1>7 DEF Visited
<1> QED BY <1>8

(* What the browser does with the instruction to show boundary b.          *)
LEMMA CompletedWrapper ==
    ASSUME TypeOK, NEW b \in Boundaries
    PROVE  LET w == CompleteBoundary(b) IN
           /\ w \in [Boundaries -> Wrappers]
           /\ \A x \in Boundaries : x # b => w[x] = wrappers[x]
           /\ Len(w[b]) = Len(wrappers[b]) /\ DOMAIN w[b] = DOMAIN wrappers[b]
           /\ \A i \in DOMAIN wrappers[b] :
                 w[b][i] = IF i = suspense[b].rootSegmentID /\ ContentID(b) = i
                           THEN "completed" ELSE wrappers[b][i]
<1> DEFINE k == suspense[b].rootSegmentID
<1>1. CASE ContentID(b) = k
  <2> HIDE DEF k
  <2>1. CompleteBoundary(b) = [wrappers EXCEPT ![b][k] = "completed"]
    BY <1>1 DEF CompleteBoundary, k
  <2>2. LET w == [wrappers EXCEPT ![b][k] = "completed"] IN
        /\ w \in [Boundaries -> Wrappers]
        /\ \A x \in Boundaries : x # b => w[x] = wrappers[x]
        /\ Len(w[b]) = Len(wrappers[b]) /\ DOMAIN w[b] = DOMAIN wrappers[b]
        /\ \A i \in DOMAIN wrappers[b] : w[b][i] = IF i = k THEN "completed" ELSE wrappers[b][i]
    BY DecideWrapper
  <2> QED BY <1>1, <2>1, <2>2 DEF k
<1>2. CASE ContentID(b) # k
  <2>1. CompleteBoundary(b) = wrappers
    BY <1>2 DEF CompleteBoundary
  <2>2. wrappers \in [Boundaries -> Wrappers]
    BY ControlTypes DEF Wrappers
  <2> QED BY <1>2, <2>1, <2>2
<1> QED BY <1>1, <1>2

(* What is sent for boundary b: its segments, or the instruction to show   *)
(* it, if it is the first that is complete.                                *)
SentAs(b, starts, after) ==
    \/ /\ \A x \in Boundaries : after.client[x] = client[x]
       /\ after.wrappers = wrappers /\ after.completed = completedBoundaries
    \/ /\ completedBoundaries # << >> /\ b = Head(completedBoundaries)
       /\ after.completed = Tail(completedBoundaries)
       /\ starts = Unflushed(ToSet(suspense[b].completedSegments))
       /\ after.client[b] = "completed"
       /\ \A x \in Boundaries : x # b => after.client[x] = client[x]
       /\ after.wrappers = CompleteBoundary(b)

(* The wrappers after it, but for those that are shown by it.              *)
LEMMA SentEffect ==
    ASSUME Inv, WrapperState, NEW b, NEW starts, NEW after, SentAs(b, starts, after),
           NEW x \in Boundaries
    PROVE  /\ after.wrappers[x] \in Wrappers /\ Len(after.wrappers[x]) = Len(wrappers[x])
           /\ DOMAIN after.wrappers[x] = DOMAIN wrappers[x]
           /\ \/ after.wrappers[x] = wrappers[x] /\ after.client[x] = client[x]
                 /\ (x \in ToSet(after.completed) => x \in ToSet(completedBoundaries))
              \/ /\ x = b /\ x \in ToSet(completedBoundaries) /\ x \notin ToSet(after.completed)
                 /\ after.client[x] = "completed"
                 /\ starts = Unflushed(ToSet(suspense[b].completedSegments))
                 /\ \A i \in DOMAIN wrappers[x] :
                       after.wrappers[x][i] = IF i = suspense[x].rootSegmentID /\ ContentID(x) = i
                                              THEN "completed" ELSE wrappers[x][i]
<1>0. TypeOK
  BY DEF Inv
<1>1. wrappers[x] \in Wrappers
  BY <1>0, WrapperTypes
<1>2. CASE after.wrappers = wrappers /\ after.completed = completedBoundaries
           /\ after.client[x] = client[x]
  BY <1>1, <1>2
<1>3. CASE /\ completedBoundaries # << >> /\ b = Head(completedBoundaries)
           /\ after.completed = Tail(completedBoundaries)
           /\ starts = Unflushed(ToSet(suspense[b].completedSegments))
           /\ after.client[b] = "completed"
           /\ \A y \in Boundaries : y # b => after.client[y] = client[y]
           /\ after.wrappers = CompleteBoundary(b)
  <2>1. completedBoundaries \in Seq(Boundaries)
    BY <1>0, ControlTypes
  <2>2. /\ b \in Boundaries /\ b \in ToSet(completedBoundaries)
        /\ ToSet(after.completed) \subseteq ToSet(completedBoundaries)
        /\ after.completed \in Seq(Boundaries)
    BY <1>3, <2>1, TailElements
  <2>3. b \notin ToSet(after.completed)
    <3>1. Count(completedBoundaries, b) \in {0, 1}
      BY <2>2 DEF Inv, QueuedOnce
    <3>2. Count(completedBoundaries, b) = 1 + Count(Tail(completedBoundaries), b)
      BY <1>3, <2>1, CountTail
    <3> DEFINE q == Tail(completedBoundaries)
    <3>3. q \in Seq(Boundaries)
      BY <1>3, <2>2
    <3> HIDE DEF q
    <3>4. Count(q, b) \in Nat /\ (Count(q, b) = 0 <=> \A i \in DOMAIN q : q[i] # b)
      BY <3>3, CountType
    <3>5. \A i \in DOMAIN q : q[i] # b
      BY <3>1, <3>2, <3>4 DEF q
    <3> QED BY <1>3, <3>5 DEF ToSet, q
  <2>4. LET w == CompleteBoundary(b) IN
        /\ w \in [Boundaries -> Wrappers]
        /\ \A y \in Boundaries : y # b => w[y] = wrappers[y]
        /\ Len(w[b]) = Len(wrappers[b]) /\ DOMAIN w[b] = DOMAIN wrappers[b]
        /\ \A i \in DOMAIN wrappers[b] :
              w[b][i] = IF i = suspense[b].rootSegmentID /\ ContentID(b) = i
                        THEN "completed" ELSE wrappers[b][i]
    BY <1>0, <2>2, CompletedWrapper
  <2>5. CASE x # b
    BY <1>3, <2>2, <2>4, <2>5
  <2>6. CASE x = b
    BY <1>3, <2>2, <2>3, <2>4, <2>6
  <2> QED BY <2>5, <2>6
<1> QED BY <1>2, <1>3 DEF SentAs

(* The ids it is sent under.                                               *)
LEMMA SentIDs ==
    ASSUME Inv, NEW b, NEW starts, NEW after, NEW then, NEW full, NEW W,
           Wrote(b, starts, after, then, full, W), NEW x \in Boundaries
    PROVE  /\ suspense'[x].rootSegmentID =
                 IF x \in Met(W) /\ ClientOf(x) = "pending" THEN Len(wrappers[x]) + 1
                 ELSE suspense[x].rootSegmentID
           /\ client'[x] = IF x \in Met(W) THEN ClientOf(x) ELSE after.client[x]
           /\ wrappers'[x] = IF x \in Met(W) THEN Append(after.wrappers[x], ClientOf(x))
                             ELSE after.wrappers[x]
           /\ completedBoundaries' = after.completed
           /\ \A s \in Segments : s \in Out(W) /\ s \in starts =>
                 segment'[s].id = SegmentID(s, b)
<1>0. TypeOK
  BY DEF Inv
<1>1. segment \in [Segments -> SegmentRecord] /\ suspense \in [BoundaryIds -> BoundaryRecord]
  BY <1>0, RecordTypes DEF BoundaryIds
<1> DEFINE pending == {y \in Met(W) : ClientOf(y) = "pending"}
<1>2. suspense' = [y \in BoundaryIds |->
         [suspense[y] EXCEPT
            !.completedSegments = IF y = b THEN after.ready ELSE @,
            !.parentFlushed = @ \/ y \in Met(W),
            !.rootSegmentID = IF y \in pending THEN Len(wrappers[y]) + 1 ELSE @]]
  BY <1>1 DEF Wrote
<1>3. segment' = [s \in Segments |->
         IF s \notin Out(W) THEN segment[s]
         ELSE [segment[s] EXCEPT
                 !.parentFlushed = TRUE,
                 !.id = IF s \in starts THEN SegmentID(s, b)
                        ELSE IF segment[s].status = "PENDING" THEN 1 ELSE @,
                 !.status = IF @ = "COMPLETED" THEN "FLUSHED" ELSE @]]
  BY DEF Wrote
<1>4. /\ client' = [y \in Boundaries |-> IF y \in Met(W) THEN ClientOf(y) ELSE after.client[y]]
      /\ wrappers' = [y \in Boundaries |->
           IF y \in Met(W) THEN Append(after.wrappers[y], ClientOf(y)) ELSE after.wrappers[y]]
      /\ completedBoundaries' = after.completed
  BY DEF Wrote
<1>5. x \in BoundaryIds /\ (x \in pending <=> x \in Met(W) /\ ClientOf(x) = "pending")
  BY DEF BoundaryIds
<1> HIDE DEF pending
<1>6. suspense'[x].rootSegmentID =
         IF x \in pending THEN Len(wrappers[x]) + 1 ELSE suspense[x].rootSegmentID
  <2> DEFINE r == suspense[x]
             c == IF x = b THEN after.ready ELSE r.completedSegments
             p == r.parentFlushed \/ x \in Met(W)
             i == IF x \in pending THEN Len(wrappers[x]) + 1 ELSE r.rootSegmentID
  <2>1. r \in BoundaryRecord
    BY <1>1, <1>5
  <2>2. suspense'[x] = [r EXCEPT !.completedSegments = c, !.parentFlushed = p,
                                 !.rootSegmentID = i]
    BY <1>2, <1>5
  <2> HIDE DEF r, c, p, i
  <2>3. suspense'[x].rootSegmentID = i
    BY <2>1, <2>2 DEF BoundaryRecord
  <2> QED BY <2>3 DEF i, r
<1>7. ASSUME NEW s \in Segments, s \in Out(W), s \in starts
      PROVE  segment'[s].id = SegmentID(s, b)
  <2> DEFINE r == segment[s]
             k == SegmentID(s, b)
  <2>1. r \in SegmentRecord
    BY <1>1
  <2>2. segment'[s] = [r EXCEPT !.parentFlushed = TRUE, !.id = k,
                                !.status = IF @ = "COMPLETED" THEN "FLUSHED" ELSE @]
    BY <1>3, <1>7
  <2> HIDE DEF r, k
  <2>3. segment'[s].id = k
    BY <2>1, <2>2 DEF SegmentRecord
  <2> QED BY <2>3 DEF k
<1> QED BY <1>4, <1>5, <1>6, <1>7

(* The wrappers fit what is shown after it, and were decided once.         *)
LEMMA SentWrapper ==
    ASSUME Inv, WrapperState, NEW b, NEW starts, NEW after, NEW then, NEW full, NEW W,
           Wrote(b, starts, after, then, full, W), SentAs(b, starts, after),
           NEW x \in Boundaries
    PROVE  WrapperOf(x)' /\ Decides(x)
<1> DEFINE w == wrappers[x]
           u == after.wrappers[x]
           v == ClientOf(x)
           id == suspense[x].rootSegmentID
<1>0. TypeOK
  BY DEF Inv
<1>1. /\ w \in Wrappers /\ Len(w) \in Nat /\ DOMAIN w = 1..Len(w)
      /\ client[x] \in {"none", "pending", "completed", "client"} /\ id \in Nat /\ NoID = 0
  BY <1>0, WrapperTypes
<1>2. /\ u \in Wrappers /\ Len(u) = Len(w) /\ DOMAIN u = DOMAIN w
      /\ \/ u = w /\ after.client[x] = client[x]
            /\ (x \in ToSet(after.completed) => x \in ToSet(completedBoundaries))
         \/ /\ x = b /\ x \in ToSet(completedBoundaries) /\ x \notin ToSet(after.completed)
            /\ after.client[x] = "completed"
            /\ starts = Unflushed(ToSet(suspense[b].completedSegments))
            /\ \A i \in DOMAIN w :
                  u[i] = IF i = id /\ ContentID(x) = i THEN "completed" ELSE w[i]
  BY SentEffect
<1>3. /\ suspense'[x].rootSegmentID =
            IF x \in Met(W) /\ v = "pending" THEN Len(w) + 1 ELSE id
      /\ client'[x] = IF x \in Met(W) THEN v ELSE after.client[x]
      /\ wrappers'[x] = IF x \in Met(W) THEN Append(u, v) ELSE u
      /\ completedBoundaries' = after.completed
  BY SentIDs
<1>4. /\ client[x] = "none" <=> Len(w) = 0
      /\ client[x] = "none" => id = NoID
      /\ Len(w) = 1 => w[1] = client[x]
      /\ client[x] = "pending" \/ x \in ToSet(completedBoundaries) =>
            id \in DOMAIN w /\ w[id] = "pending"
      /\ Len(w) = 1 /\ client[x] = "pending" => id = 1
  BY DEF WrapperState, WrapperOf
<1>5. v \in {"client", "pending", "completed"}
  BY DEF ClientOf
<1>6. /\ Append(u, v) \in Wrappers /\ Len(Append(u, v)) = Len(w) + 1
      /\ DOMAIN Append(u, v) = 1..(Len(w) + 1)
      /\ Append(u, v)[Len(w) + 1] = v
      /\ \A i \in DOMAIN w : Append(u, v)[i] = u[i]
  <2> DEFINE r == Append(u, v)
             n == Len(w)
  <2>1. u \in Seq({"pending", "completed", "client"}) /\ v \in {"pending", "completed", "client"}
        /\ Len(u) = n /\ n \in Nat
    BY <1>1, <1>2, <1>5 DEF Wrappers
  <2>2. DOMAIN w = 1..n
    BY <1>1
  <2> HIDE DEF u, v, n, w
  <2>3. /\ r \in Seq({"pending", "completed", "client"}) /\ Len(r) = n + 1
        /\ \A i \in 1..n : r[i] = u[i]
        /\ r[n + 1] = v
    BY <2>1, AppendProperties
  <2>4. DOMAIN r = 1..(n + 1)
    BY <2>3, LenProperties
  <2> QED BY <2>2, <2>3, <2>4 DEF Wrappers, n
<1>7. ASSUME x \in ToSet(completedBoundaries)
      PROVE  x \in Complete /\ client[x] # "none"
  BY <1>7 DEF Inv, ClientState
<1> HIDE DEF w, u, v, id
<1>8. ASSUME Len(w) = 1, x \in ToSet(completedBoundaries),
             \A i \in DOMAIN w : u[i] = IF i = id /\ ContentID(x) = i THEN "completed" ELSE w[i]
      PROVE  u[1] = "completed"
  <2>1. /\ x \in ToSet(completedBoundaries)
        /\ \A i \in DOMAIN w : u[i] = IF i = id /\ ContentID(x) = i THEN "completed" ELSE w[i]
    BY <1>8
  <2>2. DOMAIN w = {1} /\ id = 1 /\ client[x] = "pending"
    BY <1>1, <1>4, <1>8
  <2>3. ContentID(x) = 1
    <3> DEFINE c == suspense[x].content
    <3>1. x <= boundaries /\ ~suspense[x].forceClientRender
          /\ \A i \in DOMAIN opened : opened[i] # x
      BY <1>7, <2>1 DEF Complete
    <3>2. segment[c].id = IF segment[c].status = "FLUSHED" THEN 1 ELSE NoID
      BY <1>8, <2>2, <3>1 DEF WrapperState, ContentOf, w
    <3>3. c \in ToSet(suspense[x].completedSegments) \/ segment[c].status = "FLUSHED"
      BY <3>1 DEF Inv, ReadyState
    <3>4. CASE segment[c].status = "FLUSHED"
      BY <3>2, <3>4 DEF ContentID, Unflushed
    <3>5. CASE segment[c].status # "FLUSHED"
      BY <2>2, <3>2, <3>3, <3>5 DEF ContentID, Unflushed, SegmentID, id
    <3> QED BY <3>4, <3>5
  <2> QED BY <2>1, <2>2, <2>3
<1>9. CASE x \in Met(W)
  <2>1. /\ client'[x] = v /\ wrappers'[x] = Append(u, v)
        /\ suspense'[x].rootSegmentID = IF v = "pending" THEN Len(w) + 1 ELSE id
    BY <1>3, <1>9
  <2>2. Len(w) + 1 # 0 /\ Len(w) + 1 \in 1..(Len(w) + 1) /\ (Len(w) + 1 = 1 => Len(w) = 0)
    BY <1>1
  <2>3. v # "pending" /\ x \in ToSet(after.completed) =>
            id \in DOMAIN w /\ u[id] = "pending"
    BY <1>2, <1>4
  <2>4. DOMAIN w \subseteq 1..(Len(w) + 1)
    BY <1>1
  <2>5. WrapperOf(x)'
    <3>1. (Append(u, v)[1] = v /\ Len(w) = 0) \/ Len(w) # 0
      BY <1>6
    <3>2. v = "pending" \/ x \in ToSet(after.completed) =>
             LET k == IF v = "pending" THEN Len(w) + 1 ELSE id IN
             k \in 1..(Len(w) + 1) /\ Append(u, v)[k] = "pending"
      BY <1>6, <2>2, <2>3, <2>4
    <3> QED BY <1>3, <1>5, <1>6, <2>1, <2>2, <3>1, <3>2 DEF WrapperOf
  <2>6. Decides(x)
    <3>1. \A i \in DOMAIN w : u[i] # w[i] => w[i] = "pending" /\ u[i] = "completed"
      BY <1>2, <1>4
    <3> QED BY <1>6, <2>1, <2>4, <3>1 DEF Decides, w
  <2> QED BY <2>5, <2>6
<1>10. CASE x \notin Met(W)
  <2>1. /\ client'[x] = after.client[x] /\ wrappers'[x] = u
        /\ suspense'[x].rootSegmentID = id
    BY <1>3, <1>10
  <2>2. WrapperOf(x)'
    <3>1. CASE u = w /\ after.client[x] = client[x]
               /\ (x \in ToSet(after.completed) => x \in ToSet(completedBoundaries))
      BY <1>3, <1>4, <2>1, <3>1 DEF WrapperOf
    <3>2. CASE /\ x \in ToSet(completedBoundaries) /\ x \notin ToSet(after.completed)
               /\ after.client[x] = "completed"
               /\ \A i \in DOMAIN w :
                     u[i] = IF i = id /\ ContentID(x) = i THEN "completed" ELSE w[i]
      <4>1. Len(u) # 0 /\ (Len(u) = 1 => u[1] = "completed")
        BY <1>2, <1>4, <1>7, <1>8, <3>2
      <4> QED BY <1>3, <2>1, <3>2, <4>1 DEF WrapperOf
    <3> QED BY <1>2, <3>1, <3>2
  <2>3. Decides(x)
    <3>1. \A i \in DOMAIN w : u[i] # w[i] => w[i] = "pending" /\ u[i] = "completed"
      BY <1>2, <1>4
    <3> QED BY <1>2, <2>1, <3>1 DEF Decides, w
  <2> QED BY <2>2, <2>3
<1> QED BY <1>9, <1>10

(* The content was sent under the number of the only wrapper, and with two *)
(* of them the fallback is a placeholder.                                  *)
LEMMA SentContent ==
    ASSUME Inv, TypeOK', WrapperState, NEW b, NEW starts, NEW after, NEW then, NEW full, NEW W,
           Wrote(b, starts, after, then, full, W), SentAs(b, starts, after),
           Writes(b, starts, after.ready, after.client, W),
           NEW x \in Boundaries
    PROVE  ContentOf(x)'
<1> DEFINE w == wrappers[x]
           u == after.wrappers[x]
           v == ClientOf(x)
           id == suspense[x].rootSegmentID
           c == suspense[x].content
           f == suspense[x].fallback
<1>0. TypeOK
  BY DEF Inv
<1>1. /\ Len(w) \in Nat /\ NoID = 0 /\ client[x] \in {"none", "pending", "completed", "client"}
  BY <1>0, WrapperTypes
<1>2. /\ u \in Wrappers /\ Len(u) = Len(w)
      /\ \/ after.client[x] = client[x]
         \/ after.client[x] = "completed"
  BY SentEffect
<1>3. /\ client'[x] = IF x \in Met(W) THEN v ELSE after.client[x]
      /\ wrappers'[x] = IF x \in Met(W) THEN Append(u, v) ELSE u
      /\ \A s \in Segments : s \in Out(W) /\ s \in starts =>
            segment'[s].id = SegmentID(s, b)
  BY SentIDs
<1>4. Len(wrappers'[x]) = IF x \in Met(W) THEN Len(w) + 1 ELSE Len(w)
  <2>1. v \in {"client", "pending", "completed"}
    BY DEF ClientOf
  <2>2. Len(Append(u, v)) = Len(u) + 1
    BY <1>2, <2>1, AppendProperties DEF Wrappers
  <2> QED BY <1>2, <1>3, <2>2
<1>5. /\ b \in BoundaryIds /\ b <= boundaries /\ boundaries' = boundaries
      /\ Visited(starts, W) /\ starts \subseteq ToSet(suspense[b].completedSegments)
      /\ b # Root => client[b] # "none"
      /\ b = Root => starts = ToSet(suspense[Root].completedSegments)
  BY Zenon DEF Writes, FlushOf
<1>6. x \in BoundaryIds /\ suspense'[x].content = c /\ suspense'[x].fallback = f
  <2>1. x \in BoundaryIds
    BY DEF BoundaryIds
  <2> QED BY <2>1, Zenon DEF Writes
<1> SUFFICES ASSUME x <= boundaries
    PROVE  /\ client'[x] = "none" => segment'[c].id = NoID /\ segment'[c].status # "FLUSHED"
           /\ Len(wrappers'[x]) = 1 /\ client'[x] = "pending" =>
                 segment'[c].id = IF segment'[c].status = "FLUSHED" THEN 1 ELSE NoID
           /\ Len(wrappers'[x]) > 1 => segment'[f].id # NoID
  BY <1>5, <1>6 DEF ContentOf
<1>7. /\ c \in Segments /\ f \in Segments /\ segment[c].boundary = NoBoundary /\ ~segment[c].task
  BY DEF Inv, BoundaryTree
<1>8. /\ \A s \in Segments : s \notin Out(W) => segment'[s] = segment[s]
      /\ \A s \in Segments : segment[s].id # NoID => segment'[s].id # NoID
      /\ \A s \in Segments : segment'[s].status =
            IF s \in Out(W) /\ segment[s].status = "COMPLETED" THEN "FLUSHED" ELSE segment[s].status
      /\ \A s \in Out(W) : segment[s].status \in {"PENDING", "COMPLETED"}
  BY Zenon DEF Writes
<1>9. /\ client[x] = "none" => id = NoID /\ Len(w) = 0
      /\ client[x] # "none" => Len(w) # 0
      /\ Len(w) = 1 /\ client[x] = "pending" => id = 1
      /\ client[x] = "none" => segment[c].id = NoID /\ segment[c].status # "FLUSHED"
      /\ Len(w) = 1 /\ client[x] = "pending" =>
             segment[c].id = IF segment[c].status = "FLUSHED" THEN 1 ELSE NoID
      /\ Len(w) > 1 => segment[f].id # NoID
  BY DEF WrapperState, WrapperOf, ContentOf
<1>10. c \in W => \/ x = b /\ c \in starts
                  \/ x \in Met(W) /\ v = "completed"
  BY <1>5, ContentOut
<1>11. x \in Met(W) => b # Root \/ client[x] = "none"
  <2>1. x \in Met(W) => W # {}
    BY DEF Met
  <2> QED BY <2>1, WritesRoot
<1>12. x \in Met(W) /\ client[x] # "none" => segment[f].id # NoID
  <2> SUFFICES ASSUME x \in Met(W), client[x] # "none" PROVE segment[f].id # NoID
    OBVIOUS
  <2>1. b \in Boundaries
    BY <1>5, <1>11 DEF BoundaryIds
  <2> QED BY <1>5, <2>1, MetAgain
<1>13. x = b => b # Root
  BY <1>0, InvTypes
<1> HIDE DEF w, u, v, id, c, f
<1>14. ASSUME client'[x] = "none"
       PROVE  segment'[c].id = NoID /\ segment'[c].status # "FLUSHED"
  <2>1. x \notin Met(W)
    BY <1>3, <1>14 DEF v, ClientOf
  <2>2. client[x] = "none" /\ x # b
    BY <1>2, <1>3, <1>5, <1>13, <1>14, <2>1
  <2>3. c \notin Out(W)
    BY <1>10, <2>1, <2>2 DEF Out
  <2> QED BY <1>7, <1>8, <1>9, <2>2, <2>3
<1>15. ASSUME Len(wrappers'[x]) = 1, client'[x] = "pending"
       PROVE  segment'[c].id = IF segment'[c].status = "FLUSHED" THEN 1 ELSE NoID
  <2>1. CASE x \in Met(W)
    <3>1. v = "pending" /\ Len(w) = 0 /\ client[x] = "none"
      BY <1>1, <1>3, <1>4, <1>9, <1>15, <2>1
    <3>2. c \notin Out(W)
      BY <1>5, <1>10, <1>13, <3>1 DEF Out
    <3> QED BY <1>7, <1>8, <1>9, <3>1, <3>2
  <2>2. CASE x \notin Met(W)
    <3>1. client[x] = "pending" /\ Len(w) = 1 /\ id = 1
      BY <1>2, <1>3, <1>4, <1>9, <1>15, <2>2
    <3>2. CASE c \in Out(W)
      <4>1. x = b /\ c \in starts
        BY <1>10, <2>2, <3>2 DEF Out
      <4>2. segment[c].status = "COMPLETED"
        <5>1. segment[c].status \in {"COMPLETED", "FLUSHED"}
          BY <1>5, <4>1 DEF Inv, ReadyState
        <5> QED BY <1>8, <3>2, <5>1
      <4>3. segment[c].id = NoID
        BY <1>9, <3>1, <4>2
      <4>4. segment'[c].id = id
        BY <1>3, <1>7, <3>2, <4>1, <4>3 DEF SegmentID, id
      <4>5. segment'[c].status = "FLUSHED"
        BY <1>7, <1>8, <3>2, <4>2
      <4> QED BY <3>1, <4>4, <4>5
    <3>3. CASE c \notin Out(W)
      BY <1>7, <1>8, <1>9, <3>1, <3>3
    <3> QED BY <3>2, <3>3
  <2> QED BY <2>1, <2>2
<1>16. ASSUME Len(wrappers'[x]) > 1
       PROVE  segment'[f].id # NoID
  <2>1. segment[f].id # NoID
    BY <1>1, <1>4, <1>9, <1>12, <1>16
  <2> QED BY <1>7, <1>8, <2>1
<1> QED BY <1>14, <1>15, <1>16

(* A step that writes nothing.                                             *)
WritesNothing ==
    /\ client' = client /\ wrappers' = wrappers
    /\ \A s \in Segments : segment'[s].id = segment[s].id
    /\ \A x \in Boundaries :
          /\ suspense'[x].rootSegmentID = suspense[x].rootSegmentID
          /\ x \in ToSet(completedBoundaries') =>
                x \in ToSet(completedBoundaries) \/ client[x] = "pending"
          /\ x <= boundaries =>
                /\ suspense'[x].fallback = suspense[x].fallback
                /\ suspense'[x].content = suspense[x].content
                /\ segment'[suspense[x].content].status = "FLUSHED" <=>
                      segment[suspense[x].content].status = "FLUSHED"
          /\ x > boundaries /\ x <= boundaries' =>
                /\ segment'[suspense'[x].content].id = NoID
                /\ segment'[suspense'[x].content].status # "FLUSHED"

LEMMA KeepsWrappers ==
    ASSUME Inv, WrapperState, WritesNothing
    PROVE  WrappersKept
<1> SUFFICES ASSUME NEW x \in Boundaries
    PROVE  WrapperOf(x)' /\ ContentOf(x)' /\ Decides(x)
  BY DEF WrappersKept
<1>0. TypeOK
  BY DEF Inv
<1>1. WrapperOf(x) /\ ContentOf(x)
  BY DEF WrapperState
<1>2. Decides(x)
  BY DEF WritesNothing, Decides
<1>3. WrapperOf(x)'
  BY <1>1 DEF WritesNothing, WrapperOf
<1>4. x \in Nat /\ boundaries \in Nat
  BY <1>0, InvTypes
<1>5. CASE x <= boundaries
  <2>1. suspense[x].fallback \in Segments /\ suspense[x].content \in Segments
    BY <1>5 DEF Inv, BoundaryTree
  <2> QED BY <1>1, <1>2, <1>3, <1>5, <2>1 DEF WritesNothing, ContentOf
<1>6. CASE x > boundaries
  <2>1. client[x] = "none"
    <3>1. suspense[x] = NewBoundary
      BY <1>6 DEF Inv, BoundaryTree
    <3> QED BY <3>1 DEF Inv, ClientState, NewBoundary
  <2>2. Len(wrappers[x]) = 0
    BY <1>1, <2>1 DEF WrapperOf
  <2>3. client'[x] = "none" /\ Len(wrappers'[x]) = 0
    BY <2>1, <2>2 DEF WritesNothing
  <2>4. x <= boundaries' => /\ segment'[suspense'[x].content].id = NoID
                            /\ segment'[suspense'[x].content].status # "FLUSHED"
    BY <1>6 DEF WritesNothing
  <2> QED BY <1>2, <1>3, <2>3, <2>4 DEF ContentOf
<1> QED BY <1>4, <1>5, <1>6

(* All that is the same.                                                   *)
LEMMA NothingWritten ==
    ASSUME Inv, UNCHANGED <<segment, suspense, boundaries, client, wrappers, completedBoundaries>>
    PROVE  WritesNothing
<1>1. \A x \in Boundaries : x \in Nat /\ boundaries \in Nat
  BY InvTypes DEF Inv
<1> QED BY <1>1 DEF WritesNothing

LEMMA WriteSegmentsStep ==
    ASSUME Inv, NEW b, NEW starts, NEW after, NEW then \in FlushCalls \ {"flushEnd"},
           NEW full \in BOOLEAN, WriteSegments(b, starts, after, then, full),
           FlushOf(b, starts, after.ready, after.client),
           \/ /\ clientRenderedBoundaries = << >> /\ completedBoundaries # << >>
              /\ b = Head(completedBoundaries) /\ after.completed = Tail(completedBoundaries)
              /\ after.client[b] = "completed" /\ after.wrappers = CompleteBoundary(b)
              /\ starts = Unflushed(ToSet(suspense[b].completedSegments))
              /\ \A x \in Boundaries : x # b => after.client[x] = client[x]
           \/ /\ b # Root => clientRenderedBoundaries = << >> /\ completedBoundaries = << >>
              /\ after.completed = completedBoundaries
              /\ \A x \in Boundaries : after.client[x] = client[x]
              /\ after.wrappers = wrappers,
           after.partial \in Seq(Boundaries), after.wrappers \in [Boundaries -> Wrappers],
           ToSet(after.partial) \subseteq ToSet(partialBoundaries),
           calls # << >>, Head(calls).f \in Flushing, flowing,
           then \in {"flushCompleted", "flushPartial"} => clientRenderedBoundaries = << >>,
           then = "flushPartial" => after.completed = << >>,
           UNCHANGED <<segments, boundaries, allPendingTasks, pingedTasks,
                       clientRenderedBoundaries, requestStatus, ended, next, renderVars,
                       scheduled, userVars>>
    PROVE  Inv' /\ (WrapperState => WrappersKept)
<1>0. TypeOK
  BY DEF Inv
<1> DEFINE W == UNION {Walk[s] : s \in starts}
<1>1. \/ /\ thrown' = TRUE
         /\ calls' = << Call("flushEnd", 0), Call("fatalError", 0) >> \o Rest
         /\ UNCHANGED <<segment, suspense, client, wrappers, completedBoundaries, partialBoundaries,
                        flowing>>
      \/ Wrote(b, starts, after, then, full, W)
  BY WriteCases
<1>2. b \in BoundaryIds /\ b <= boundaries /\ starts \subseteq ToSet(suspense[b].completedSegments)
      /\ after.ready \in Seq(Segments)
  BY DEF FlushOf
<1>3. running = NoTask /\ opened = << >>
  BY FlushRest
<1>4. CASE thrown' = TRUE /\ calls' = << Call("flushEnd", 0), Call("fatalError", 0) >> \o Rest
           /\ UNCHANGED <<segment, suspense, client, wrappers, completedBoundaries, partialBoundaries,
                          flowing>>
  <2>1. UNCHANGED treeVars
    BY <1>4 DEF treeVars, segmentVars, boundaryVars, queueVars, renderVars
  <2>2. UNCHANGED <<allPendingTasks, pingedTasks, next, renderVars, scheduled, userVars,
                    requestStatus, flowing, ended>>
    BY <1>4
  <2>3. WrapperState => WrappersKept
    BY <1>4, NothingWritten, KeepsWrappers
  <2> QED BY <1>4, <2>1, <2>2, <2>3, FlushFails
<1>5. CASE Wrote(b, starts, after, then, full, W)
  <2>1. starts \subseteq Segments /\ \A s \in starts : s <= segments
    <3>1. suspense[b].completedSegments \in Seq(Segments)
      BY <1>0, <1>2, InvTypes DEF BoundaryIds
    <3>2. ToSet(suspense[b].completedSegments) \subseteq Segments
      BY <3>1, RangeOfSet DEF ToSet, Range
    <3>3. ASSUME NEW s \in starts
          PROVE  s <= segments
      <4>1. s \in ToSet(suspense[b].completedSegments)
        BY <1>2, <3>3
      <4>2. CASE b \in Boundaries
        BY <1>2, <4>1, <4>2 DEF Inv, ReadyState
      <4>3. CASE b = Root
        <5>1. suspense[Root].completedSegments = << RootSegment >>
          <6>1. suspense[Root].completedSegments # << >>
            BY <4>1, <4>3 DEF ToSet
          <6> QED BY <6>1 DEF Inv, RootState
        <5>2. s = RootSegment
          BY <4>1, <4>3, <5>1 DEF ToSet
        <5>3. segments \in Nat \ {0} /\ RootSegment = 1
          BY <1>0, InvTypes
        <5> QED BY <5>2, <5>3
      <4> QED BY <1>2, <4>2, <4>3 DEF BoundaryIds
    <3> QED BY <1>2, <3>2, <3>3
  <2>2. Visited(starts, W)
    BY <2>1, WalkedSet
  <2> HIDE DEF W
  <2>3. \A x \in Boundaries : after.client[x] \in {"none", "pending", "completed", "client"}
    <3>1. \A x \in Boundaries : after.client[x] = client[x] \/ after.client[x] = "completed"
      BY Zenon DEF FlushOf
    <3>2. client \in [Boundaries -> {"none", "pending", "completed", "client"}]
      BY <1>0, ControlTypes
    <3> QED BY <3>1, <3>2
  <2>4. /\ after.completed \in Seq(Boundaries)
        /\ ToSet(after.completed) \subseteq ToSet(completedBoundaries)
    <3>1. completedBoundaries \in Seq(Boundaries)
      BY <1>0, ControlTypes
    <3>2. CASE completedBoundaries # << >> /\ after.completed = Tail(completedBoundaries)
      BY <3>1, <3>2, TailElements
    <3> QED BY <3>1, <3>2
  <2>5. TypeOK' /\ Takes(W)
    BY <1>2, <1>5, <2>2, <2>3, <2>4, WroteTypes
  <2>6. running' = running /\ opened' = opened
    BY DEF renderVars
  <2>7. Writes(b, starts, after.ready, after.client, W)
    BY <1>3, <1>5, <2>2, <2>6, WroteWrites
  <2>8. /\ completedBoundaries' = after.completed
        /\ calls' = << Call(IF full THEN "flushEnd" ELSE then, 0) >> \o Rest
        /\ flowing' = ~full
    BY <1>5 DEF Wrote
  <2>9. TakesFirst(b, after.client) \/ TakesNone(b, after.client)
    BY <2>8 DEF TakesFirst, TakesNone
  <2> DEFINE f == IF full THEN "flushEnd" ELSE then
  <2>10. f \in FlushCalls /\ (f # "flushEnd" => flowing')
    BY <2>8 DEF FlushCalls
  <2>11. /\ f \in {"flushCompleted", "flushPartial"} => clientRenderedBoundaries' = << >>
         /\ f = "flushPartial" => completedBoundaries' = << >>
    BY <2>8
  <2>12. calls' = << Call(f, 0) >> \o Rest
    BY <2>8
  <2>13. SentAs(b, starts, after)
    BY DEF SentAs
  <2>14. ASSUME WrapperState, NEW x \in Boundaries
         PROVE  WrapperOf(x)' /\ ContentOf(x)' /\ Decides(x)
    <3>1. WrapperOf(x)' /\ Decides(x)
      BY <1>5, <2>13, <2>14, SentWrapper
    <3>2. ContentOf(x)'
      BY <1>5, <2>5, <2>7, <2>13, <2>14, SentContent
    <3> QED BY <3>1, <3>2
  <2> HIDE DEF f
  <2>15. Inv'
    BY <2>5, <2>7, <2>9, <2>10, <2>11, <2>12, WritesStep
  <2> QED BY <2>14, <2>15 DEF WrappersKept
<1> QED BY <1>1, <1>4, <1>5

LEMMA FlushRootStep ==
    ASSUME Inv, FlushRoot
    PROVE  Inv' /\ (WrapperState => WrappersKept)
<1>0. TypeOK
  BY DEF Inv
<1>1. CASE ~flowing \/ suspense[Root].pendingTasks # 0
  <2>1. Inv'
    BY <1>1, FlushRootWaits
  <2>2. UNCHANGED <<segment, suspense, boundaries, client, wrappers, completedBoundaries>>
    BY <1>1 DEF FlushRoot
  <2> QED BY <2>1, <2>2, NothingWritten, KeepsWrappers
<1>2. CASE flowing /\ suspense[Root].pendingTasks = 0
  <2> DEFINE root  == ToSet(suspense[Root].completedSegments)
             after == [NothingTaken(Root) EXCEPT !.ready = << >>]
  <2>1. /\ calls # << >> /\ Head(calls).f = "flushRoot"
        /\ WriteSegments(Root, root, after, "flushClientRendered", FALSE)
        /\ UNCHANGED <<segments, boundaries, allPendingTasks, pingedTasks,
                       clientRenderedBoundaries, requestStatus, ended, next, renderVars,
                       scheduled, userVars>>
    BY <1>2 DEF FlushRoot, Calls
  <2>2. /\ after.ready = << >> /\ after.client = client /\ after.wrappers = wrappers
        /\ after.completed = completedBoundaries /\ after.partial = partialBoundaries
    BY DEF NothingTaken
  <2>3. Head(calls).f \in Flushing
    BY <2>1 DEF Flushing
  <2>4. FlushOf(Root, root, after.ready, after.client)
    <3>1. Root \in BoundaryIds /\ Root <= boundaries
      BY <1>0, InvTypes DEF BoundaryIds
    <3>2. << >> \in Seq(Segments) /\ ToSet(<< >>) = {}
      BY DEF ToSet
    <3> QED BY <1>2, <2>2, <3>1, <3>2 DEF FlushOf
  <2>5. partialBoundaries \in Seq(Boundaries) /\ wrappers \in [Boundaries -> Wrappers]
    BY <1>0, ControlTypes DEF Wrappers
  <2> HIDE DEF after, root
  <2>6. "flushClientRendered" \in FlushCalls \ {"flushEnd"}
    BY DEF FlushCalls
  <2> QED BY <1>2, <2>1, <2>2, <2>3, <2>4, <2>5, <2>6, WriteSegmentsStep
<1> QED BY <1>1, <1>2

LEMMA FlushFlows ==
    ASSUME Inv, calls # << >>, Head(calls).f \in {"flushCompleted", "flushPartial"}
    PROVE  /\ flowing /\ clientRenderedBoundaries = << >> /\ Head(calls).f \in Flushing
           /\ Head(calls).f = "flushPartial" => completedBoundaries = << >>
<1>1. 1 \in DOMAIN calls /\ calls[1] = Head(calls)
  <2>1. calls \in Seq(CallType)
    BY DEF Inv
  <2> QED BY <2>1, PopCall
<1>2. /\ calls[1].f \in FlushCalls \ {"flushEnd"} => flowing
      /\ calls[1].f \in {"flushCompleted", "flushPartial"} => clientRenderedBoundaries = << >>
      /\ calls[1].f = "flushPartial" => completedBoundaries = << >>
  BY <1>1 DEF Inv, FlowState
<1> QED BY <1>1, <1>2 DEF FlushCalls, Flushing

LEMMA FlushCompletedBoundaryStep ==
    ASSUME Inv, FlushCompletedBoundary
    PROVE  Inv' /\ (WrapperState => WrappersKept)
<1>0. TypeOK
  BY DEF Inv
<1> DEFINE b      == Head(completedBoundaries)
           done   == ToSet(suspense[b].completedSegments)
           starts == Unflushed(done)
           after  == [ready |-> << >>, client |-> [client EXCEPT ![b] = "completed"],
                      wrappers |-> CompleteBoundary(b),
                      completed |-> Tail(completedBoundaries), partial |-> partialBoundaries]
<1>1. /\ calls # << >> /\ Head(calls).f = "flushCompleted" /\ completedBoundaries # << >>
      /\ UNCHANGED <<segments, boundaries, allPendingTasks, pingedTasks,
                     clientRenderedBoundaries, requestStatus, ended, next, renderVars,
                     scheduled, userVars>>
  BY DEF FlushCompletedBoundary, Calls
<1>2. PICK full \in BOOLEAN : WriteSegments(b, starts, after, "flushCompleted", full)
  BY DEF FlushCompletedBoundary
<1>3. flowing /\ clientRenderedBoundaries = << >> /\ Head(calls).f \in Flushing
  BY <1>1, FlushFlows
<1>4. completedBoundaries \in Seq(Boundaries) /\ partialBoundaries \in Seq(Boundaries)
      /\ client \in [Boundaries -> {"none", "pending", "completed", "client"}]
  BY <1>0, ControlTypes
<1>5. b \in Boundaries /\ b \in ToSet(completedBoundaries)
  BY <1>1, <1>4, TailElements
<1> HIDE DEF b
<1>6. b \in Complete /\ client[b] # "none" /\ b <= boundaries
  BY <1>5 DEF Inv, ClientState, Complete
<1>7. /\ after.ready = << >> /\ after.completed = Tail(completedBoundaries)
      /\ after.partial = partialBoundaries /\ after.client[b] = "completed"
      /\ \A x \in Boundaries : x # b => after.client[x] = client[x]
      /\ after.wrappers = CompleteBoundary(b)
  BY <1>4, <1>5
<1>12. CompleteBoundary(b) \in [Boundaries -> Wrappers]
  BY <1>0, <1>5, CompletedWrapper
<1>8. starts \subseteq done /\ \A s \in done : s \in starts \/ segment[s].status = "FLUSHED"
  BY DEF Unflushed
<1> HIDE DEF starts, after
<1>9. FlushOf(b, starts, after.ready, after.client)
  <2>1. b \in BoundaryIds /\ b # Root
    BY <1>0, <1>5, InvTypes DEF BoundaryIds
  <2>2. << >> \in Seq(Segments) /\ ToSet(<< >>) = {}
    BY DEF ToSet
  <2> QED BY <1>6, <1>7, <1>8, <2>1, <2>2 DEF FlushOf
<1>10. "flushCompleted" \in FlushCalls \ {"flushEnd"} /\ "flushCompleted" # "flushPartial"
  BY DEF FlushCalls
<1>11. b = Head(completedBoundaries) /\ starts = Unflushed(ToSet(suspense[b].completedSegments))
  BY DEF b, starts
<1> QED
  BY <1>1, <1>2, <1>3, <1>4, <1>7, <1>9, <1>10, <1>11, <1>12, WriteSegmentsStep

(* A boundary that has nothing ready leaves the queue.                     *)
LEMMA PartialIsEmpty ==
    ASSUME Inv, partialBoundaries # << >>, partialBoundaries' = Tail(partialBoundaries),
           UNCHANGED <<segmentVars, boundaryVars, allPendingTasks, pingedTasks,
                       clientRenderedBoundaries, completedBoundaries, outVars, calls, next,
                       renderVars, scheduled, userVars>>
    PROVE  Inv'
<1>1. /\ partialBoundaries \in Seq(Boundaries) /\ TypeOK
  BY ControlTypes DEF Inv
<1>2. /\ Tail(partialBoundaries) \in Seq(Boundaries)
      /\ ToSet(Tail(partialBoundaries)) \subseteq ToSet(partialBoundaries)
  BY <1>1, TailElements
<1>3. /\ UNCHANGED <<segment, segments, suspense, boundaries, allPendingTasks, pingedTasks>>
      /\ UNCHANGED <<clientRenderedBoundaries, completedBoundaries, requestStatus, flowing>>
      /\ UNCHANGED <<ended, client, wrappers, thrown, calls, next, running, opened, started, retries>>
      /\ UNCHANGED <<scheduled, piped, aborted>>
  BY DEF segmentVars, boundaryVars, outVars, renderVars, userVars
<1>4. TypeOK'
  <2>1. /\ segment' \in [Segments -> SegmentRecord] /\ segments' \in Segments
        /\ suspense' \in [Boundaries \cup {Root} -> BoundaryRecord]
        /\ boundaries' \in Boundaries \cup {Root}
        /\ allPendingTasks' \in Nat /\ pingedTasks' \in Seq(Segments)
        /\ clientRenderedBoundaries' \in Seq(Boundaries)
        /\ completedBoundaries' \in Seq(Boundaries) /\ partialBoundaries' \in Seq(Boundaries)
        /\ requestStatus' \in {"OPEN", "CLOSING", "CLOSED"} /\ flowing' \in BOOLEAN
        /\ UNCHANGED next /\ running' \in Segments \cup {NoTask} /\ opened' \in Seq(Boundaries)
        /\ started' \in BOOLEAN /\ scheduled' \in Nat /\ piped' \in BOOLEAN /\ UNCHANGED aborted
        /\ ended' \in {"no", "closed", "error", "aborted"}
        /\ client' \in [Boundaries -> {"none", "pending", "completed", "client"}]
        /\ wrappers' \in [Boundaries -> Seq({"pending", "completed", "client"})]
        /\ thrown' \in BOOLEAN /\ retries' \in 0..MaxRetries
    BY <1>1, <1>2, <1>3, ControlTypes
  <2> QED BY <1>1, <2>1, TypeNext
<1>5. SameShape /\ SameFate /\ SameNest /\ SameProgress /\ NewKept
  BY <1>3 DEF Inv, SegmentTree, BoundaryTree, SameShape, SameFate, SameNest, SameProgress, NewKept
<1>6. /\ Live' = Live /\ Complete' = Complete /\ Written' = Written
      /\ Shown' = Shown /\ Reached' = Reached /\ \A b : BlockedBy(b)' = BlockedBy(b)
  BY <1>3 DEF Live, Complete, Written, Shown, Reached, BlockedBy
<1>7. SegmentTree' /\ BoundaryTree' /\ RunState' /\ OpenState'
  BY <1>3, <1>6 DEF Inv, SegmentTree, BoundaryTree, RunState, OpenState
<1>8. CountState' /\ SetState' /\ FlowState'
  BY <1>3, <1>6 DEF Inv, CountState, SetState, FlowState
<1>9. QueuedOnce' /\ RootState' /\ ReadyState' /\ OverState'
  BY <1>3, <1>6 DEF Inv, QueuedOnce, ShownTwice, RootState, ReadyState, OverState
<1>10. Placed'
  <2>1. PICK place \in Places :
            PlaceOf(place) /\ StackState(place.rank) /\ ShownState(place.home, place.reg)
    BY DEF Inv, Placed
  <2>2. PlaceOf(place)'
    BY <1>3, <2>1 DEF PlaceOf
  <2>3. StackState(place.rank)'
    BY <1>3, <1>6, <2>1 DEF StackState
  <2>4. ShownState(place.home, place.reg)'
    BY <1>3, <1>6, <2>1 DEF ShownState
  <2>5. place \in Places'
    BY DEF Places, Ranks
  <2> QED BY <2>2, <2>3, <2>4, <2>5, Zenon DEF Placed
<1>11. ClientState'
  BY <1>2, <1>3, <1>6 DEF Inv, ClientState
<1>12. calls' \in Seq(CallType)
  BY <1>3 DEF Inv
<1> QED BY <1>4, <1>7, <1>8, <1>9, <1>10, <1>11, <1>12 DEF Inv

LEMMA FlushPartialBoundaryStep ==
    ASSUME Inv, FlushPartialBoundary
    PROVE  Inv' /\ (WrapperState => WrappersKept)
<1>0. TypeOK
  BY DEF Inv
<1> DEFINE b     == Head(partialBoundaries)
           ready == suspense[b].completedSegments
<1>1. /\ calls # << >> /\ Head(calls).f = "flushPartial" /\ partialBoundaries # << >>
      /\ UNCHANGED <<segments, boundaries, allPendingTasks, pingedTasks,
                     clientRenderedBoundaries, requestStatus, ended, next, renderVars,
                     scheduled, userVars>>
  BY DEF FlushPartialBoundary, Calls
<1>2. CASE /\ partialBoundaries' = Tail(partialBoundaries)
           /\ UNCHANGED <<segment, suspense, client, wrappers, thrown, calls, completedBoundaries, flowing>>
  <2>1. UNCHANGED <<segmentVars, boundaryVars, allPendingTasks, pingedTasks,
                    clientRenderedBoundaries, completedBoundaries, outVars, calls, next,
                    renderVars, scheduled, userVars>>
    BY <1>1, <1>2 DEF segmentVars, boundaryVars, outVars
  <2>2. Inv'
    BY <1>1, <1>2, <2>1, PartialIsEmpty
  <2>3. WrapperState => WrappersKept
    BY <1>1, <1>2, NothingWritten, KeepsWrappers
  <2> QED BY <2>2, <2>3
<1>3. ASSUME ready # << >>, NEW full \in BOOLEAN,
             WriteSegments(b, Unflushed({Head(ready)}),
                     [NothingTaken(b) EXCEPT !.ready = Tail(ready),
                        !.partial = IF full THEN Tail(partialBoundaries) ELSE @],
                     "flushPartial", full)
      PROVE  Inv' /\ (WrapperState => WrappersKept)
  <2> DEFINE starts == Unflushed({Head(ready)})
             after  == [NothingTaken(b) EXCEPT !.ready = Tail(ready),
                          !.partial = IF full THEN Tail(partialBoundaries) ELSE @]
  <2>1. WriteSegments(b, starts, after, "flushPartial", full)
    BY <1>3
  <2>2. flowing /\ clientRenderedBoundaries = << >> /\ completedBoundaries = << >>
        /\ Head(calls).f \in Flushing
    BY <1>1, FlushFlows
  <2>3. partialBoundaries \in Seq(Boundaries)
    BY <1>0, ControlTypes
  <2>4. /\ b \in Boundaries /\ b \in ToSet(partialBoundaries)
        /\ Tail(partialBoundaries) \in Seq(Boundaries)
        /\ ToSet(Tail(partialBoundaries)) \subseteq ToSet(partialBoundaries)
    BY <1>1, <2>3, TailElements
  <2> HIDE DEF b
  <2>5. client[b] # "none" /\ b <= boundaries
    <3>1. client[b] # "none" /\ suspense[b].parentFlushed
      BY <2>4 DEF Inv, ClientState
    <3>2. ~NewBoundary.parentFlushed
      BY DEF NewBoundary
    <3>3. b \in Nat /\ boundaries \in Nat
      BY <1>0, <2>4, InvTypes
    <3>4. ~(b > boundaries)
      BY <2>4, <3>1, <3>2 DEF Inv, BoundaryTree
    <3> QED BY <3>1, <3>3, <3>4
  <2>6. ready \in Seq(Segments) /\ ready # << >>
    BY <1>0, <1>3, <2>4, InvTypes
  <2> HIDE DEF ready
  <2>7. /\ Tail(ready) \in Seq(Segments)
        /\ ToSet(ready) = {Head(ready)} \cup ToSet(Tail(ready))
    BY <2>6, TailElements
  <2>8. /\ after.ready = Tail(ready) /\ after.client = client /\ after.wrappers = wrappers
        /\ after.completed = completedBoundaries
        /\ after.partial = IF full THEN Tail(partialBoundaries) ELSE partialBoundaries
    BY DEF NothingTaken
  <2>9. /\ starts \subseteq ToSet(ready)
        /\ \A s \in ToSet(ready) :
              s \in ToSet(Tail(ready)) \/ s \in starts \/ segment[s].status = "FLUSHED"
    BY <2>7 DEF Unflushed
  <2> HIDE DEF starts, after
  <2>10. FlushOf(b, starts, after.ready, after.client)
    <3>1. b \in BoundaryIds /\ b # Root
      BY <1>0, <2>4, InvTypes DEF BoundaryIds
    <3>2. ToSet(ready) = ToSet(suspense[b].completedSegments)
      BY DEF ready
    <3> QED BY <2>5, <2>7, <2>8, <2>9, <3>1, <3>2 DEF FlushOf
  <2>11. "flushPartial" \in FlushCalls \ {"flushEnd"}
    BY DEF FlushCalls
  <2>12. /\ after.partial \in Seq(Boundaries)
         /\ ToSet(after.partial) \subseteq ToSet(partialBoundaries)
    BY <2>3, <2>4, <2>8
  <2>13. wrappers \in [Boundaries -> Wrappers]
    BY <1>0, ControlTypes DEF Wrappers
  <2> QED BY <1>1, <2>1, <2>2, <2>8, <2>10, <2>11, <2>12, <2>13, WriteSegmentsStep
<1>4. \/ /\ partialBoundaries' = Tail(partialBoundaries)
         /\ UNCHANGED <<segment, suspense, client, wrappers, thrown, calls, completedBoundaries, flowing>>
      \/ /\ ready # << >>
         /\ \E full \in BOOLEAN :
               WriteSegments(b, Unflushed({Head(ready)}),
                     [NothingTaken(b) EXCEPT !.ready = Tail(ready),
                        !.partial = IF full THEN Tail(partialBoundaries) ELSE @],
                     "flushPartial", full)
  BY DEF FlushPartialBoundary
<1> HIDE DEF b, ready
<1> QED BY <1>2, <1>3, <1>4

-----------------------------------------------------------------------------
(* The invariant holds at first, and every step keeps it.                  *)
LEMMA InitType ==
    ASSUME Init
    PROVE  TypeOK
<1>1. MaxSegments \in Nat \ {0} /\ MaxBoundaries \in Nat /\ MaxRetries \in Nat
  BY FizzAssumption
<1>2. RootSegment \in Segments /\ segments \in Segments /\ 1 = RootSegment
  BY <1>1 DEF Segments, RootSegment, Init
<1>3. NewSegment \in SegmentRecord
  BY DEF NewSegment, SegmentRecord, NoSegment, NoBoundary, NoID, Root
<1>4. << >> \in Seq(Segments) /\ << >> \in Seq(Boundaries) /\ << RootSegment >> \in Seq(Segments)
  BY <1>2
<1>5. NewBoundary \in BoundaryRecord
  BY <1>4 DEF NewBoundary, BoundaryRecord, NoSegment, NoID, Root
<1>6. [NewSegment EXCEPT !.parentFlushed = TRUE, !.task = TRUE] \in SegmentRecord
  BY <1>3 DEF SegmentRecord
<1>7. [NewBoundary EXCEPT !.pendingTasks = 1, !.fallbackAbortableTasks = {RootSegment}]
         \in BoundaryRecord
  BY <1>2, <1>5 DEF BoundaryRecord
<1>8. segment \in [Segments -> SegmentRecord]
  BY <1>3, <1>6 DEF Init
<1>9. suspense \in [Boundaries \cup {Root} -> BoundaryRecord]
  BY <1>5, <1>7 DEF Init
<1>10. /\ boundaries \in Boundaries \cup {Root} /\ allPendingTasks \in Nat
       /\ pingedTasks \in Seq(Segments)
       /\ \A q \in {clientRenderedBoundaries, completedBoundaries, partialBoundaries} :
             q \in Seq(Boundaries)
       /\ opened \in Seq(Boundaries)
  BY <1>4 DEF Init, Root
<1>11. /\ requestStatus \in {"OPEN", "CLOSING", "CLOSED"} /\ flowing \in BOOLEAN
       /\ next \in Nat /\ running \in Segments \cup {NoTask}
       /\ started \in BOOLEAN /\ scheduled \in Nat /\ piped \in BOOLEAN /\ aborted \in BOOLEAN
       /\ ended \in {"no", "closed", "error", "aborted"}
       /\ client \in [Boundaries -> {"none", "pending", "completed", "client"}]
       /\ wrappers \in [Boundaries -> Seq({"pending", "completed", "client"})]
       /\ thrown \in BOOLEAN /\ retries \in 0..MaxRetries
  <2>1. flowing = FALSE /\ started = FALSE /\ piped = FALSE /\ aborted = FALSE /\ thrown = FALSE
    BY Zenon DEF Init
  <2>2. next = 0 /\ scheduled = 1 /\ retries = 0 /\ running = NoTask
    BY Zenon DEF Init
  <2>3. requestStatus = "OPEN" /\ ended = "no" /\ client = [b \in Boundaries |-> "none"]
    BY Zenon DEF Init
  <2>4. next \in Nat /\ scheduled \in Nat /\ retries \in 0..MaxRetries
    BY <1>1, <2>2
  <2>5. client \in [Boundaries -> {"none", "pending", "completed", "client"}]
    BY <2>3
  <2>6. wrappers \in [Boundaries -> Seq({"pending", "completed", "client"})]
    <3>1. wrappers = [b \in Boundaries |-> << >>]
      BY Zenon DEF Init
    <3>2. << >> \in Seq({"pending", "completed", "client"})
      OBVIOUS
    <3> QED BY <3>1, <3>2
  <2> QED BY <2>1, <2>2, <2>3, <2>4, <2>5, <2>6
<1> QED BY <1>2, <1>8, <1>9, <1>10, <1>11 DEF TypeOK, SegmentRecord, BoundaryRecord

LEMMA InitInv ==
    ASSUME Init
    PROVE  Inv
<1>0. TypeOK
  BY InitType
<1>1. /\ segments = 1 /\ boundaries = 0 /\ allPendingTasks = 1
      /\ pingedTasks = << RootSegment >>
      /\ clientRenderedBoundaries = << >> /\ completedBoundaries = << >>
      /\ partialBoundaries = << >> /\ requestStatus = "OPEN" /\ flowing = FALSE
      /\ calls = << >> /\ running = NoTask /\ opened = << >> /\ ended = "no"
  BY DEF Init
<1>2. /\ MaxSegments \in Nat \ {0} /\ MaxBoundaries \in Nat /\ RootSegment = 1 /\ Root = 0
      /\ RootSegment \in Segments /\ Segments \subseteq Nat \ {0} /\ Boundaries \subseteq Nat \ {0}
      /\ Root \notin Boundaries /\ NoSegment = 0 /\ NoBoundary = 0
  BY <1>0, InvTypes
<1>3. /\ NewSegment.status = "PENDING" /\ ~NewSegment.parentFlushed /\ NewSegment.id = NoID
      /\ NewSegment.parent = 0 /\ NewSegment.boundary = 0 /\ ~NewSegment.task
      /\ NewSegment.blockedBoundary = 0 /\ NewSegment.abortSet = 0 /\ ~NewSegment.suspended
  BY DEF NewSegment, NoSegment, NoBoundary, Root
<1>4. \A s \in Segments : s # RootSegment => segment[s] = NewSegment
  BY DEF Init
<1>5. LET root == segment[RootSegment] IN
      /\ root.status = "PENDING" /\ root.parentFlushed /\ root.id = NoID
      /\ root.parent = 0 /\ root.boundary = 0 /\ root.task
      /\ root.blockedBoundary = 0 /\ root.abortSet = 0 /\ ~root.suspended
  <2>1. segment[RootSegment] = [NewSegment EXCEPT !.parentFlushed = TRUE, !.task = TRUE]
    BY <1>2 DEF Init
  <2> QED BY <2>1 DEF NewSegment, NoSegment, NoBoundary, Root
<1>6. \A b \in Boundaries : suspense[b] = NewBoundary
  BY <1>2 DEF Init
<1>7. /\ NewBoundary.pendingTasks = 0 /\ ~NewBoundary.forceClientRender
      /\ ~NewBoundary.parentFlushed /\ NewBoundary.completedSegments = << >>
      /\ NewBoundary.fallbackAbortableTasks = {} /\ NewBoundary.outer = 0
  BY DEF NewBoundary, Root
<1>8. /\ suspense[Root].pendingTasks = 1 /\ suspense[Root].completedSegments = << >>
      /\ suspense[Root].fallbackAbortableTasks = {RootSegment}
  <2>1. suspense[Root] = [NewBoundary EXCEPT !.pendingTasks = 1,
                                             !.fallbackAbortableTasks = {RootSegment}]
    BY DEF Init
  <2> QED BY <2>1 DEF NewBoundary
<1>9. \A b \in Boundaries : client[b] = "none"
  BY DEF Init
<1>10. DOMAIN calls = {} /\ DOMAIN opened = {} /\ calls \in Seq(CallType)
  BY <1>1
<1>11. SegmentTree
  <2>1. ASSUME NEW s \in Segments
        PROVE  /\ s > segments => segment[s] = NewSegment
               /\ segment[s].parent = 0 /\ segment[s].boundary = 0
               /\ segment[s].blockedBoundary = 0 /\ segment[s].abortSet = 0
    <3>1. s > 1 => s # RootSegment
      BY <1>2
    <3> QED BY <1>1, <1>3, <1>4, <1>5, <3>1
  <2>2. ASSUME NEW s \in Segments
        PROVE  /\ s > segments => segment[s] = NewSegment
               /\ segment[s].parent < s
               /\ segment[s].boundary <= boundaries
               /\ segment[s].blockedBoundary <= boundaries /\ segment[s].abortSet <= boundaries
               /\ segment[s].boundary = NoBoundary /\ segment[s].blockedBoundary = Root
    <3>1. 0 < s /\ 0 <= boundaries
      BY <1>1, <1>2
    <3> QED BY <1>2, <2>1, <3>1
  <2>3. LET root == segment[RootSegment] IN
           /\ root.parent = NoSegment /\ root.boundary = NoBoundary /\ root.task
           /\ root.blockedBoundary = Root /\ root.abortSet = Root
    BY <1>2, <1>5
  <2> QED BY <2>2, <2>3, Zenon DEF SegmentTree
<1>12. BoundaryTree
  <2>1. \A b \in Boundaries : ~(b <= boundaries)
    BY <1>1, <1>2
  <2> QED BY <1>6, <2>1, Zenon DEF BoundaryTree
<1>13. RunState /\ OpenState
  <2>1. \A i \in DOMAIN pingedTasks : segment[pingedTasks[i]].task
    BY <1>1, <1>5
  <2>2. \A s \in Segments : segment[s].suspended => segment[s].task
    BY <1>3, <1>4, <1>5
  <2>3. OpenState
    BY <1>10, Zenon DEF OpenState
  <2> QED BY <1>1, <2>1, <2>2, <2>3 DEF RunState
<1>14. Live = {RootSegment}
  BY <1>2, <1>3, <1>4, <1>5 DEF Live
<1>15. BlockedBy(Root) = {RootSegment} /\ \A b \in Boundaries : BlockedBy(b) = {}
  <2>1. segment[RootSegment].blockedBoundary = Root
    BY <1>2, <1>5
  <2> QED BY <1>2, <1>14, <2>1 DEF BlockedBy
<1>16. Cardinality({}) = 0 /\ Cardinality({RootSegment}) = 1
  BY FS_EmptySet, FS_Singleton
<1>17. CountState
  <2>1. Count(calls, Call("taskDone", 0)) = 0
    BY <1>1, CountEmpty
  <2>2. allPendingTasks = Cardinality(Live) + Count(calls, Call("taskDone", 0))
    BY <1>1, <1>14, <1>16, <2>1
  <2>3. \A b \in Boundaries : suspense[b].pendingTasks = Cardinality(BlockedBy(b))
    BY <1>6, <1>7, <1>15, <1>16
  <2>4. suspense[Root].pendingTasks = Cardinality(BlockedBy(Root))
    BY <1>8, <1>15, <1>16
  <2>5. suspense[Root].pendingTasks >= Cardinality(BlockedBy(Root))
    BY <1>8, <1>15, <1>16
  <2> QED BY <1>5, <2>2, <2>3, <2>4, <2>5 DEF CountState
<1>18. Shown = {Root} /\ Reached \subseteq {RootSegment}
  BY <1>2, <1>3, <1>4, <1>5, <1>9 DEF Shown, Reached
<1>19. Placed
  <2> DEFINE place == [home |-> [s \in Segments |-> Root], reg |-> [s \in Segments |-> Root],
                       rank |-> [b \in Boundaries \cup {Root} |-> 0]]
  <2>1. place \in Places
    BY <1>2 DEF Places, Ranks
  <2>2. /\ \A s \in Segments : place.home[s] = Root /\ place.reg[s] = Root
        /\ place.rank[Root] = 0
    OBVIOUS
  <2> HIDE DEF place
  <2>3. PlaceOf(place)
    <3>1. \A s \in Segments : s <= segments => s = RootSegment
      BY <1>1, <1>2
    <3>2. \A b \in Boundaries : ~(b <= boundaries)
      BY <1>1, <1>2
    <3>3. Root <= boundaries
      BY <1>1, <1>2
    <3>4. \A a : Before(place.rank, a, Root)
      BY DEF Before
    <3>5. /\ segment[RootSegment].task /\ segment[RootSegment].blockedBoundary = Root
          /\ segment[RootSegment].abortSet = Root
          /\ segment[RootSegment].boundary = NoBoundary
          /\ segment[RootSegment].parent = NoSegment
      BY <1>2, <1>5
    <3>6. \A i \in DOMAIN opened :
             place.home[suspense[opened[i]].content] = segment[running].abortSet
      BY <1>10
    <3> QED BY <1>2, <2>2, <3>1, <3>2, <3>3, <3>4, <3>5, <3>6, Zenon DEF PlaceOf
  <2>4. StackState(place.rank)
    BY <1>10, Zenon DEF StackState
  <2>5. ShownState(place.home, place.reg)
    <3>1. \A s \in Segments : segment[s].boundary = NoBoundary
      BY <1>2, <1>3, <1>4, <1>5
    <3> QED BY <1>18, <2>2, <3>1 DEF ShownState
  <2> QED BY <2>1, <2>3, <2>4, <2>5 DEF Placed
<1>20. SetState
  <2> SUFFICES ASSUME NEW a \in Boundaries \cup {Root},
                      NEW s \in suspense[a].fallbackAbortableTasks
      PROVE  /\ segment[s].task /\ segment[s].abortSet = a
             /\ s \in Live /\ \A i \in DOMAIN calls : AbortCall(calls[i]) => calls[i].x # s
    BY DEF SetState
  <2>1. a = Root /\ s = RootSegment
    BY <1>6, <1>7, <1>8
  <2> QED BY <1>2, <1>5, <1>10, <1>14, <2>1
<1>21. FlowState
  BY <1>1, <1>10 DEF FlowState
<1>22. ClientState
  <2>1. ToSet(<< >>) = {}
    BY DEF ToSet
  <2> QED BY <1>1, <1>6, <1>7, <1>9, <2>1 DEF ClientState
<1>23. QueuedOnce
  <2>1. \A b : Count(<< >>, b) = 0
    BY CountEmpty
  <2> QED BY <1>1, <1>9, <2>1 DEF QueuedOnce
<1>24. RootState
  <2>1. \A s \in Segments \ {RootSegment} : ~segment[s].task
    BY <1>3, <1>4
  <2> QED BY <1>5, <1>8, <1>9, <2>1 DEF RootState
<1>25. ReadyState
  <2>1. \A b \in Boundaries : ~(b <= boundaries)
    BY <1>1, <1>2
  <2> QED BY <2>1, Zenon DEF ReadyState
<1>26. OverState
  <2>1. \A s \in Segments : segment[s].task => s = RootSegment
    BY <1>3, <1>4
  <2>2. segment[RootSegment].status = "PENDING"
    BY <1>5
  <2> QED BY <2>1, <2>2 DEF OverState
<1> QED
  BY <1>0, <1>10, <1>11, <1>12, <1>13, <1>17, <1>19, <1>20, <1>21, <1>22, <1>23, <1>24,
     <1>25, <1>26 DEF Inv

LEMMA NothingHappens ==
    ASSUME Inv, UNCHANGED vars
    PROVE  Inv'
<1>1. /\ UNCHANGED treeVars
      /\ UNCHANGED <<segment, segments, suspense, boundaries, allPendingTasks, pingedTasks>>
      /\ UNCHANGED <<clientRenderedBoundaries, completedBoundaries, requestStatus, flowing>>
      /\ UNCHANGED <<partialBoundaries>>
      /\ UNCHANGED <<ended, client, wrappers, thrown, calls, next, running, opened, started, retries>>
      /\ UNCHANGED <<scheduled, piped, aborted>>
  BY DEF vars, treeVars, segmentVars, boundaryVars, queueVars, outVars, renderVars, userVars
<1>2. TypeOK /\ calls \in Seq(CallType) /\ SetState /\ FlowState
  BY DEF Inv
<1>3. TypeOK'
  BY <1>1, <1>2, ControlTypes, TypeFrame
<1>4. calls' \in Seq(CallType)
  BY <1>1, <1>2
<1>5. /\ running' # NoTask => running' \in Live /\ calls' = << >>
      /\ opened # << >> => running' = running /\ started'
      /\ \A i \in DOMAIN pingedTasks' : segment[pingedTasks'[i]].task
  BY <1>1 DEF Inv, RunState
<1>6. Live' = Live /\ Complete' = Complete
  BY <1>1 DEF Live, Complete
<1>7. \A rank \in Ranks : StackState(rank) => StackState(rank)'
  BY <1>1, <1>6 DEF StackState
<1>8. SetState' /\ FlowState'
  BY <1>1, <1>2, <1>6 DEF SetState, FlowState
<1>9. allPendingTasks' + Count(calls, TD) = allPendingTasks + Count(calls', TD)
  BY <1>1
<1> QED BY <1>1, <1>3, <1>4, <1>5, <1>7, <1>8, <1>9, ControlFrame

LEMMA InvNext ==
    ASSUME Inv, [Next]_vars
    PROVE  Inv'
<1>1. CASE Render
  <2>1. CASE SpawnNewSuspendedTask
    BY <2>1, SpawnNewSuspendedTaskStep
  <2>2. CASE SuspendAgain
    BY <2>2, SuspendAgainStep
  <2>3. CASE OpenSuspenseBoundary
    BY <2>3, OpenSuspenseBoundaryStep
  <2>4. CASE CloseSuspenseBoundary
    BY <2>4, CloseSuspenseBoundaryStep
  <2>5. CASE ContentThrows
    BY <2>5, ContentThrowsStep
  <2>6. CASE FinishTask
    BY <2>6, FinishTaskStep
  <2>7. CASE TaskThrows
    BY <2>7, TaskThrowsStep
  <2> QED BY <1>1, <2>1, <2>2, <2>3, <2>4, <2>5, <2>6, <2>7, Zenon DEF Render
<1>2. CASE Return
  <2>1. CASE AbortTaskSoft
    BY <2>1, AbortTaskSoftStep
  <2>2. CASE AbortTask
    BY <2>2, AbortTaskStep
  <2>3. CASE ClearAbortableTasks
    BY <2>3, ClearAbortableTasksStep
  <2>4. CASE UncountTask
    BY <2>4, UncountTaskStep
  <2>5. CASE FlushRoot
    BY <2>5, FlushRootStep
  <2>6. CASE FlushClientRenderedBoundary
    BY <2>6, FlushClientRenderedStep
  <2>7. CASE FlushCompletedBoundary
    BY <2>7, FlushCompletedBoundaryStep
  <2>8. CASE FlushPartialBoundary
    BY <2>8, FlushPartialBoundaryStep
  <2>9. CASE NextQueue
    BY <2>9, NextQueueStep
  <2>10. CASE CloseIfDone
    BY <2>10, CloseIfDoneStep
  <2>11. CASE CatchError
    BY <2>11, CatchErrorStep
  <2> QED
    BY <1>2, <2>1, <2>2, <2>3, <2>4, <2>5, <2>6, <2>7, <2>8, <2>9, <2>10, <2>11, Zenon
    DEF Return
<1>3. CASE PerformWork \/ RetryTask \/ FinishWork
  BY <1>3, PerformWorkStep
<1>4. CASE \E s \in Segments : PingTask(s)
  BY <1>4, PingTaskStep
<1>5. CASE Pipe \/ Drain
  BY <1>5, PipeStep
<1>6. CASE Abort
  BY <1>6, AbortStep
<1>7. CASE UNCHANGED vars
  BY <1>7, NothingHappens
<1> QED BY <1>1, <1>2, <1>3, <1>4, <1>5, <1>6, <1>7, Zenon DEF Next, Work

-----------------------------------------------------------------------------
(* What the browser has fits what was sent, at every step.                 *)
FieldsKept(p, q) ==
    \A x \in Boundaries : /\ p[x].rootSegmentID = q[x].rootSegmentID
                          /\ p[x].fallback = q[x].fallback /\ p[x].content = q[x].content
                          /\ p[x].parentFlushed = q[x].parentFlushed

LEMMA EndWritesNothing ==
    ASSUME Inv, NEW s \in Live, NEW st \in {"COMPLETED", "ABORTED", "ERRORED"},
           segment' = [segment EXCEPT ![s].status = st],
           UNCHANGED <<boundaries, client, wrappers>>, FieldsKept(suspense', suspense),
           \A x \in Boundaries : x \in ToSet(completedBoundaries') =>
              \/ x \in ToSet(completedBoundaries)
              \/ /\ x = segment[s].blockedBoundary
                 /\ suspense[x].parentFlushed /\ ~suspense[x].forceClientRender
    PROVE  WritesNothing
<1>0. TypeOK
  BY DEF Inv
<1>1. /\ s \in Segments /\ segment[s].task /\ segment[s].status = "PENDING"
      /\ segment \in [Segments -> SegmentRecord]
  BY <1>0, ControlTypes DEF Live
<1>2. ASSUME NEW x \in Segments
      PROVE  /\ segment'[x].id = segment[x].id
             /\ segment'[x].status = IF x = s THEN st ELSE segment[x].status
  BY <1>1, <1>2 DEF SegmentRecord
<1>3. ASSUME NEW x \in Boundaries, x = segment[s].blockedBoundary, suspense[x].parentFlushed,
             ~suspense[x].forceClientRender
      PROVE  client[x] = "pending"
  <2>1. s \in BlockedBy(x)
    BY <1>1, <1>3 DEF BlockedBy, Live
  <2>2. IsFiniteSet(BlockedBy(x)) /\ Cardinality(BlockedBy(x)) \in Nat
    BY Sets
  <2>3. Cardinality(BlockedBy(x)) # 0
    BY <2>1, <2>2, FS_EmptySet
  <2>4. x \notin Complete
    BY <2>3 DEF Complete, Inv, CountState
  <2>5. client[x] \in {"none", "pending", "completed", "client"}
    BY <1>0, WrapperTypes
  <2> QED BY <1>3, <2>4, <2>5 DEF Inv, ClientState
<1>4. ASSUME NEW x \in Boundaries
      PROVE  x \in Nat /\ boundaries \in Nat
             /\ (x <= boundaries => suspense[x].content \in Segments /\ suspense[x].content # s)
  BY <1>0, <1>1, InvTypes DEF Inv, BoundaryTree
<1>5. ASSUME NEW x \in Boundaries, x \in ToSet(completedBoundaries')
      PROVE  x \in ToSet(completedBoundaries) \/ client[x] = "pending"
  BY <1>3, <1>5
<1> QED BY <1>1, <1>2, <1>4, <1>5 DEF WritesNothing, FieldsKept

LEMMA FinishedWritesNothing ==
    ASSUME Inv, NEW s \in Live, NEW st \in {"COMPLETED", "ABORTED", "ERRORED"},
           NEW sus \in [BoundaryIds -> BoundaryRecord], FieldsKept(sus, suspense),
           \A x \in Boundaries : sus[x].forceClientRender = suspense[x].forceClientRender,
           NEW rest, FinishedTask(s, st, sus, rest)
    PROVE  WritesNothing
<1> DEFINE b == segment[s].blockedBoundary
<1>0. TypeOK
  BY DEF Inv
<1>1. b \in BoundaryIds /\ Root \in BoundaryIds /\ Boundaries \subseteq BoundaryIds
  BY <1>0, InvTypes DEF Live, BoundaryIds
<1>2. /\ segment' = [segment EXCEPT ![s].status = st]
      /\ UNCHANGED <<boundaries, client, wrappers>>
      /\ IF b = Root THEN FinishedRootTask(s, sus, rest)
                     ELSE FinishedBoundaryTask(s, st, b, sus, rest)
  BY DEF FinishedTask
<1>3. CASE b = Root
  <2> DEFINE n == sus[Root].pendingTasks - 1
             q == IF segment[s].parentFlushed THEN <<s>> ELSE sus[Root].completedSegments
  <2>1. /\ suspense' = [sus EXCEPT ![Root].pendingTasks = n, ![Root].completedSegments = q]
        /\ completedBoundaries' = completedBoundaries
    <3>1. FinishedRootTask(s, sus, rest)
      BY <1>2, <1>3
    <3>2. [sus EXCEPT ![Root].pendingTasks = n, ![Root].completedSegments = q]
           = [sus EXCEPT ![Root].pendingTasks = sus[Root].pendingTasks - 1,
                         ![Root].completedSegments = IF segment[s].parentFlushed THEN <<s>> ELSE @]
      OBVIOUS
    <3> QED BY <3>1, <3>2 DEF FinishedRootTask
  <2>2. \A x \in Boundaries : x # Root
    BY <1>0, InvTypes
  <2> HIDE DEF n, q
  <2>3. \A x \in Boundaries : suspense'[x] = sus[x]
    BY <1>1, <2>1, <2>2
  <2>4. FieldsKept(suspense', suspense)
    BY <2>3 DEF FieldsKept
  <2> QED BY <1>2, <2>1, <2>4, EndWritesNothing
<1>4. CASE b # Root
  <2> HIDE DEF b
  <2>1. \E n, q : suspense' = [sus EXCEPT ![b].pendingTasks = n, ![b].completedSegments = q]
    BY <1>2, <1>4 DEF FinishedBoundaryTask
  <2>2. \/ completedBoundaries' = completedBoundaries
        \/ /\ completedBoundaries' = Append(completedBoundaries, b)
           /\ ~sus[b].forceClientRender /\ sus[b].parentFlushed
    BY <1>2, <1>4 DEF FinishedBoundaryTask, Completes
  <2>3. FieldsKept(suspense', suspense)
    <3>1. ASSUME NEW x \in Boundaries
          PROVE  /\ suspense'[x].rootSegmentID = sus[x].rootSegmentID
                 /\ suspense'[x].fallback = sus[x].fallback /\ suspense'[x].content = sus[x].content
                 /\ suspense'[x].parentFlushed = sus[x].parentFlushed
      <4>1. sus[x] \in BoundaryRecord /\ sus[b] \in BoundaryRecord
        BY <1>1
      <4> QED BY <1>1, <2>1, <4>1 DEF BoundaryRecord
    <3> QED BY <3>1 DEF FieldsKept
  <2>4. b \in Boundaries
    BY <1>1, <1>4 DEF BoundaryIds, b
  <2>5. \A x \in Boundaries : x \in ToSet(completedBoundaries') =>
              \/ x \in ToSet(completedBoundaries)
              \/ /\ x = b /\ suspense[x].parentFlushed /\ ~suspense[x].forceClientRender
    <3>1. completedBoundaries \in Seq(Boundaries)
      BY <1>0, ControlTypes
    <3>2. ToSet(Append(completedBoundaries, b)) = ToSet(completedBoundaries) \cup {b}
      BY <2>4, <3>1, AppendElements
    <3> QED BY <2>2, <2>4, <3>2 DEF FieldsKept
  <2> QED BY <1>2, <2>3, <2>5, EndWritesNothing DEF b
<1> QED BY <1>3, <1>4

LEMMA RunningKept ==
    ASSUME Inv, running \in Live
    PROVE  /\ WithoutTask(running) \in [BoundaryIds -> BoundaryRecord]
           /\ FieldsKept(WithoutTask(running), suspense)
           /\ \A x \in Boundaries :
                 WithoutTask(running)[x].forceClientRender = suspense[x].forceClientRender
<1> DEFINE a == segment[running].abortSet
<1>0. TypeOK
  BY DEF Inv
<1>1. a \in BoundaryIds /\ Boundaries \subseteq BoundaryIds
      /\ suspense \in [BoundaryIds -> BoundaryRecord]
  BY <1>0, ControlTypes, InvTypes DEF Live, BoundaryIds
<1>2. WithoutTask(running) = [suspense EXCEPT ![a].fallbackAbortableTasks = @ \ {running}]
  BY DEF WithoutTask
<1> HIDE DEF a
<1>3. WithoutTask(running) \in [BoundaryIds -> BoundaryRecord]
  <2>1. suspense[a] \in BoundaryRecord /\ suspense[a].fallbackAbortableTasks \in SUBSET Segments
    BY <1>1 DEF BoundaryRecord
  <2>2. [suspense[a] EXCEPT !.fallbackAbortableTasks = @ \ {running}] \in BoundaryRecord
    BY <2>1 DEF BoundaryRecord
  <2> QED BY <1>1, <1>2, <2>2
<1>4. ASSUME NEW x \in Boundaries
      PROVE  /\ WithoutTask(running)[x].rootSegmentID = suspense[x].rootSegmentID
             /\ WithoutTask(running)[x].fallback = suspense[x].fallback
             /\ WithoutTask(running)[x].content = suspense[x].content
             /\ WithoutTask(running)[x].parentFlushed = suspense[x].parentFlushed
             /\ WithoutTask(running)[x].forceClientRender = suspense[x].forceClientRender
  <2>1. suspense[x] \in BoundaryRecord
    BY <1>1
  <2> QED BY <1>1, <1>2, <2>1 DEF BoundaryRecord
<1> QED BY <1>3, <1>4 DEF FieldsKept

LEMMA InitWrappers ==
    ASSUME Init
    PROVE  WrapperState
<1>1. \A b \in Boundaries : client[b] = "none" /\ wrappers[b] = << >> /\ boundaries = 0
  BY DEF Init
<1>2. \A b \in Boundaries : b \in Nat \ {0} /\ b # Root
  BY InitType, InvTypes
<1>3. \A b \in Boundaries : suspense[b].rootSegmentID = NoID
  BY <1>2 DEF Init, NewBoundary
<1>4. completedBoundaries = << >>
  BY DEF Init
<1> QED BY <1>1, <1>2, <1>3, <1>4 DEF WrapperState, WrapperOf, ContentOf, ToSet

LEMMA RenderWritesNothing ==
    ASSUME Inv, Render
    PROVE  WritesNothing
<1>0. TypeOK
  BY DEF Inv
<1>1. /\ segment \in [Segments -> SegmentRecord] /\ suspense \in [BoundaryIds -> BoundaryRecord]
      /\ segments \in Nat /\ boundaries \in Nat
      /\ \A x \in Boundaries : x \in Nat /\ x \in BoundaryIds
  BY <1>0, ControlTypes, InvTypes DEF BoundaryIds
<1>2. \A x \in Boundaries : x <= boundaries =>
         /\ suspense[x].content \in Segments /\ suspense[x].content <= segments
         /\ suspense[x].fallback \in Segments
  BY DEF Inv, BoundaryTree
<1>3. \A s \in Segments : s \in Nat /\ (s > segments => segment[s] = NewSegment)
  BY <1>0, InvTypes DEF Inv, SegmentTree
<1>4. NewSegment.id = NoID /\ NewSegment.status = "PENDING" /\ NewSegment \in SegmentRecord
  BY DEF NewSegment, SegmentRecord, NoID, NoSegment, NoBoundary, Root
<1>5. CASE SpawnNewSuspendedTask
  <2> DEFINE n == segments + 1
             cb == CurrentBoundary
             a == segment[running].abortSet
  <2>1. /\ n \in Segments /\ UNCHANGED <<boundaries, client, wrappers, completedBoundaries>>
        /\ \E p, t, bb, at : segment' = [segment EXCEPT ![n] =
              [NewSegment EXCEPT !.parent = p, !.task = t, !.blockedBoundary = bb,
                                 !.abortSet = at, !.suspended = TRUE]]
        /\ suspense' = WithTask(cb, a, n)
    BY <1>5 DEF SpawnNewSuspendedTask, queueVars, outVars
  <2> HIDE DEF cb, a
  <2>2. ASSUME NEW x \in Boundaries
        PROVE  /\ suspense'[x].rootSegmentID = suspense[x].rootSegmentID
               /\ suspense'[x].fallback = suspense[x].fallback
               /\ suspense'[x].content = suspense[x].content
    <3>1. suspense[x] \in BoundaryRecord /\ x \in BoundaryIds
      BY <1>1
    <3>2. a \in BoundaryIds /\ cb \in BoundaryIds
      BY <1>5, RunningTask, CurrentNode, Zenon DEF SpawnNewSuspendedTask, a, cb
    <3> QED BY <1>1, <2>1, <3>1, <3>2 DEF WithTask, BoundaryRecord
  <2>3. n > segments /\ \A m \in Nat : m <= segments => m # n
    BY <1>1
  <2> HIDE DEF n
  <2>4. \A s \in Segments : /\ segment'[s].id = segment[s].id
                            /\ s # n => segment'[s] = segment[s]
    BY <1>1, <1>3, <1>4, <2>1, <2>3 DEF SegmentRecord
  <2>5. \A x \in Boundaries : x <= boundaries => suspense[x].content # n
    BY <1>2, <1>3, <2>3
  <2> QED BY <1>1, <1>2, <2>1, <2>2, <2>4, <2>5 DEF WritesNothing
<1>6. CASE SuspendAgain
  <2>1. /\ UNCHANGED <<boundaries, client, wrappers, completedBoundaries, suspense>>
        /\ segment' = [segment EXCEPT ![running].suspended = TRUE]
    BY <1>6 DEF SuspendAgain, boundaryVars, queueVars, outVars
  <2>2. \A s \in Segments : segment'[s].id = segment[s].id /\ segment'[s].status = segment[s].status
    BY <1>1, <2>1 DEF SegmentRecord
  <2> QED BY <1>1, <1>2, <2>1, <2>2 DEF WritesNothing
<1>7. CASE OpenSuspenseBoundary
  <2> DEFINE b == boundaries + 1
             f == segments + 1
             c == segments + 2
             g == [NewSegment EXCEPT !.parent = CurrentSegment, !.boundary = b]
             h == [NewSegment EXCEPT !.parentFlushed = TRUE]
             y == [NewBoundary EXCEPT !.outer = CurrentBoundary, !.fallback = f, !.content = c]
  <2>1. /\ b \in Boundaries /\ c \in Segments /\ boundaries' = b
        /\ UNCHANGED <<client, wrappers, completedBoundaries>>
        /\ segment' = [segment EXCEPT ![f] = g, ![c] = h]
        /\ suspense' = [suspense EXCEPT ![b] = y]
    BY <1>7 DEF OpenSuspenseBoundary, queueVars, outVars
  <2>2. /\ g.id = NoID /\ h.id = NoID /\ h.status = "PENDING"
        /\ y.rootSegmentID = NoID /\ y.content = c
    BY DEF NewSegment, NewBoundary
  <2>3. f > segments /\ c > segments /\ f # c /\ b > boundaries
    BY <1>1
  <2>4. \A x \in Boundaries : x > boundaries /\ x <= boundaries + 1 => x = boundaries + 1
    BY <1>1
  <2> HIDE DEF b, f, c, g, h, y
  <2>5. suspense[b].rootSegmentID = NoID
    <3>1. suspense[b] = NewBoundary
      BY <2>1, <2>3 DEF Inv, BoundaryTree
    <3> QED BY <3>1 DEF NewBoundary
  <2>6. \A x \in Boundaries : x # b => suspense'[x] = suspense[x]
    BY <1>1, <2>1
  <2>7. suspense'[b] = y
    BY <1>1, <2>1
  <2>8. \A s \in Segments : s # f /\ s # c => segment'[s] = segment[s]
    BY <1>1, <2>1
  <2>9. segment'[c] = h /\ (f \in Segments => segment'[f] = g)
    BY <1>1, <2>1, <2>3
  <2>10. \A s \in Segments : segment'[s].id = segment[s].id
    BY <1>3, <1>4, <2>1, <2>2, <2>3, <2>8, <2>9
  <2>11. \A x \in Boundaries : x <= boundaries =>
            x # b /\ suspense[x].content # f /\ suspense[x].content # c
    BY <1>1, <1>2, <1>3, <2>3
  <2>12. \A x \in Boundaries : x > boundaries /\ x <= boundaries' => x = b
    BY <2>1, <2>4 DEF b
  <2> QED BY <1>2, <2>1, <2>2, <2>5, <2>6, <2>7, <2>8, <2>9, <2>10, <2>11, <2>12
          DEF WritesNothing
<1>8. CASE CloseSuspenseBoundary \/ ContentThrows
  <2> DEFINE o == Last(opened)
             c == suspense[o].content
             f == suspense[o].fallback
             u == suspense[o].outer
  <2>1. Rendering /\ opened # << >> /\ UNCHANGED <<boundaries, client, wrappers, completedBoundaries>>
    BY <1>8 DEF CloseSuspenseBoundary, ContentThrows, queueVars, outVars
  <2>2. /\ o \in Boundaries /\ o \in BoundaryIds /\ c \in Segments /\ f \in Segments
        /\ segment[c].status = "PENDING" /\ u \in BoundaryIds /\ c # f
        /\ \A x \in Boundaries : x # o /\ x <= boundaries => suspense[x].content # c
    BY <2>1, InnermostBoundary
  <2>3. \E st \in {"COMPLETED", "ERRORED"} :
           \/ segment' = [segment EXCEPT ![c].status = st]
           \/ segment' = [segment EXCEPT ![c].status = st, ![f].task = TRUE,
                            ![f].blockedBoundary = u, ![f].abortSet = o]
    BY <1>8 DEF CloseSuspenseBoundary, ContentThrows, FallbackTask
  <2>4. \E q : \/ suspense' = [suspense EXCEPT ![o].completedSegments = q]
              \/ suspense' = [WithTask(u, o, f) EXCEPT ![o].completedSegments = q]
              \/ suspense' = [WithTask(u, o, f) EXCEPT ![o].forceClientRender = TRUE]
    BY <1>8 DEF CloseSuspenseBoundary, ContentThrows
  <2> HIDE DEF o, c, f, u
  <2>5. \A s \in Segments : /\ segment'[s].id = segment[s].id
                            /\ segment'[s].status = "FLUSHED" <=> segment[s].status = "FLUSHED"
    BY <1>1, <2>2, <2>3 DEF SegmentRecord
  <2>6. ASSUME NEW x \in Boundaries
        PROVE  /\ suspense'[x].rootSegmentID = suspense[x].rootSegmentID
               /\ suspense'[x].fallback = suspense[x].fallback
               /\ suspense'[x].content = suspense[x].content
    <3>1. suspense[x] \in BoundaryRecord /\ x \in BoundaryIds
      BY <1>1
    <3>2. PICK q : \/ suspense' = [suspense EXCEPT ![o].completedSegments = q]
                   \/ suspense' = [WithTask(u, o, f) EXCEPT ![o].completedSegments = q]
                   \/ suspense' = [WithTask(u, o, f) EXCEPT ![o].forceClientRender = TRUE]
      BY <2>4
    <3>3. CASE suspense' = [suspense EXCEPT ![o].completedSegments = q]
      BY <1>1, <2>2, <3>1, <3>3 DEF BoundaryRecord
    <3>4. CASE suspense' = [WithTask(u, o, f) EXCEPT ![o].completedSegments = q]
      BY <1>1, <2>2, <3>1, <3>4 DEF WithTask, BoundaryRecord
    <3>5. CASE suspense' = [WithTask(u, o, f) EXCEPT ![o].forceClientRender = TRUE]
      BY <1>1, <2>2, <3>1, <3>5 DEF WithTask, BoundaryRecord
    <3> QED BY <3>2, <3>3, <3>4, <3>5
  <2> QED BY <1>1, <1>2, <2>1, <2>5, <2>6 DEF WritesNothing
<1>9. CASE FinishTask
  <2>1. running \in Live
    BY <1>9, RunningTask DEF FinishTask
  <2>3. FieldsKept(WithoutTask(running), suspense)
        /\ \A x \in Boundaries : WithoutTask(running)[x].forceClientRender = suspense[x].forceClientRender
    BY <2>1, RunningKept
  <2> DEFINE sus == WithoutTask(running)
  <2>4. FinishedTask(running, "COMPLETED", sus, << >>)
    BY <1>9 DEF FinishTask
  <2>5. sus \in [BoundaryIds -> BoundaryRecord]
    BY <2>1, RunningKept
  <2> HIDE DEF sus
  <2> QED BY <2>1, <2>3, <2>4, <2>5, FinishedWritesNothing DEF sus
<1>10. CASE TaskThrows
  <2>1. running \in Live /\ segment[running].blockedBoundary \in BoundaryIds
    BY <1>10, RunningTask DEF TaskThrows
  <2>2. /\ segment' = [segment EXCEPT ![running].status = "ERRORED"]
        /\ UNCHANGED <<boundaries, client, wrappers, completedBoundaries>>
        /\ \/ suspense' = WithoutTask(running)
           \/ \E n : suspense' = [WithoutTask(running) EXCEPT
                  ![segment[running].blockedBoundary].pendingTasks = n,
                  ![segment[running].blockedBoundary].forceClientRender = TRUE]
    BY <1>10 DEF TaskThrows, ForceClientRender
  <2>3. FieldsKept(WithoutTask(running), suspense)
        /\ WithoutTask(running) \in [BoundaryIds -> BoundaryRecord]
    BY <2>1, RunningKept
  <2>4. FieldsKept(suspense', suspense)
    <3> DEFINE sus == WithoutTask(running)
               b == segment[running].blockedBoundary
    <3> HIDE DEF sus, b
    <3>1. \/ suspense' = sus
          \/ \E n : suspense' = [sus EXCEPT ![b].pendingTasks = n, ![b].forceClientRender = TRUE]
      BY <2>2 DEF sus, b
    <3>2. FieldsKept(sus, suspense) /\ sus \in [BoundaryIds -> BoundaryRecord] /\ b \in BoundaryIds
      BY <2>1, <2>3 DEF sus, b
    <3>3. ASSUME NEW x \in Boundaries
          PROVE  /\ suspense'[x].rootSegmentID = sus[x].rootSegmentID
                 /\ suspense'[x].fallback = sus[x].fallback /\ suspense'[x].content = sus[x].content
                 /\ suspense'[x].parentFlushed = sus[x].parentFlushed
      <4>1. sus[x] \in BoundaryRecord /\ x \in BoundaryIds
        BY <1>1, <3>2
      <4>2. CASE suspense' = sus
        BY <4>2
      <4>3. ASSUME NEW n,
                   suspense' = [sus EXCEPT ![b].pendingTasks = n, ![b].forceClientRender = TRUE]
            PROVE  /\ suspense'[x].rootSegmentID = sus[x].rootSegmentID
                   /\ suspense'[x].fallback = sus[x].fallback
                   /\ suspense'[x].content = sus[x].content
                   /\ suspense'[x].parentFlushed = sus[x].parentFlushed
        BY <3>2, <4>1, <4>3 DEF BoundaryRecord
      <4> QED BY <3>1, <4>2, <4>3
    <3> QED BY <3>2, <3>3 DEF FieldsKept
  <2> QED BY <2>1, <2>2, <2>4, EndWritesNothing
<1> QED BY <1>5, <1>6, <1>7, <1>8, <1>9, <1>10, Zenon DEF Render

LEMMA ReturnWritesNothing ==
    ASSUME Inv, AbortTaskSoft \/ AbortTask \/ ClearAbortableTasks \/ UncountTask \/ NextQueue
                \/ CloseIfDone \/ CatchError
    PROVE  WritesNothing
<1>0. TypeOK
  BY DEF Inv
<1>1. /\ suspense \in [BoundaryIds -> BoundaryRecord]
      /\ \A x \in Boundaries : x \in Nat /\ boundaries \in Nat /\ x \in BoundaryIds
      /\ \A x \in BoundaryIds : suspense[x] \in BoundaryRecord
  BY <1>0, ControlTypes, InvTypes DEF BoundaryIds
<1>2. ASSUME calls # << >>, AbortCall(Head(calls))
      PROVE  Arg \in Live
  BY <1>2, LeftOfAbort
<1>3. CASE AbortTaskSoft
  <2>1. Arg \in Live /\ FinishedTask(Arg, "ABORTED", suspense, Rest)
    BY <1>2, <1>3 DEF AbortTaskSoft, Calls, AbortCall
  <2>2. FieldsKept(suspense, suspense)
    BY DEF FieldsKept
  <2> QED BY <1>1, <2>1, <2>2, FinishedWritesNothing
<1>4. CASE AbortTask
  <2> DEFINE b == segment[Arg].blockedBoundary
  <2>1. Arg \in Live
    BY <1>2, <1>4 DEF AbortTask, Calls, AbortCall
  <2>2. b \in BoundaryIds
    BY <1>0, <2>1, InvTypes DEF Live, BoundaryIds
  <2>3. /\ segment' = [segment EXCEPT ![Arg].status = "ABORTED"]
        /\ UNCHANGED <<boundaries, client, wrappers, completedBoundaries>>
        /\ \/ suspense' = suspense
           \/ \E n : suspense' = [suspense EXCEPT ![b].pendingTasks = n,
                                                  ![b].forceClientRender = TRUE]
    BY <1>4 DEF AbortTask, ForceClientRender
  <2> HIDE DEF b
  <2>4. FieldsKept(suspense', suspense)
    <3>1. ASSUME NEW x \in Boundaries
          PROVE  /\ suspense'[x].rootSegmentID = suspense[x].rootSegmentID
                 /\ suspense'[x].fallback = suspense[x].fallback
                 /\ suspense'[x].content = suspense[x].content
                 /\ suspense'[x].parentFlushed = suspense[x].parentFlushed
      <4>1. suspense[x] \in BoundaryRecord /\ x \in BoundaryIds
        BY <1>1
      <4>2. CASE suspense' = suspense
        BY <4>2
      <4>3. ASSUME NEW n,
                   suspense' = [suspense EXCEPT ![b].pendingTasks = n, ![b].forceClientRender = TRUE]
            PROVE  /\ suspense'[x].rootSegmentID = suspense[x].rootSegmentID
                   /\ suspense'[x].fallback = suspense[x].fallback
                   /\ suspense'[x].content = suspense[x].content
                   /\ suspense'[x].parentFlushed = suspense[x].parentFlushed
        BY <1>1, <2>2, <4>1, <4>3 DEF BoundaryRecord
      <4> QED BY <2>3, <4>2, <4>3
    <3> QED BY <3>1 DEF FieldsKept
  <2> QED BY <2>1, <2>3, <2>4, EndWritesNothing
<1>5. CASE ClearAbortableTasks
  <2>1. /\ UNCHANGED <<segment, boundaries, client, wrappers, completedBoundaries>>
        /\ suspense' = [suspense EXCEPT ![Arg].fallbackAbortableTasks = {}]
    BY <1>5 DEF ClearAbortableTasks, segmentVars, queueVars, outVars
  <2>2. \A x \in Boundaries : /\ suspense'[x].rootSegmentID = suspense[x].rootSegmentID
                              /\ suspense'[x].fallback = suspense[x].fallback
                              /\ suspense'[x].content = suspense[x].content
    BY <1>1, <2>1 DEF BoundaryRecord
  <2> QED BY <1>1, <2>1, <2>2 DEF WritesNothing
<1>6. CASE UncountTask \/ NextQueue \/ CloseIfDone \/ CatchError
  <2>1. UNCHANGED <<segment, suspense, boundaries, client, wrappers, completedBoundaries>>
    BY <1>6, Zenon DEF UncountTask, NextQueue, CloseIfDone, CatchError, segmentVars, boundaryVars,
                       queueVars, outVars
  <2> QED BY <2>1, NothingWritten
<1> QED BY <1>3, <1>4, <1>5, <1>6

LEMMA HostWritesNothing ==
    ASSUME Inv, \/ PerformWork \/ RetryTask \/ FinishWork \/ Pipe \/ Drain \/ Abort
                \/ UNCHANGED vars \/ (\E s \in Segments : PingTask(s))
    PROVE  WritesNothing
<1>1. CASE PerformWork \/ RetryTask \/ FinishWork
  <2>1. UNCHANGED <<segment, suspense, boundaries, client, wrappers, completedBoundaries>>
    BY <1>1, Zenon DEF PerformWork, RetryTask, FinishWork, segmentVars, boundaryVars, queueVars, outVars
  <2> QED BY <2>1, NothingWritten
<1>2. CASE Pipe \/ Drain \/ Abort
  <2>1. UNCHANGED <<segment, suspense, boundaries, client, wrappers, completedBoundaries>>
    BY <1>2, Zenon DEF Pipe, Drain, Abort, segmentVars, boundaryVars, queueVars, outVars
  <2> QED BY <2>1, NothingWritten
<1>3. CASE UNCHANGED vars
  <2>1. UNCHANGED <<segment, suspense, boundaries, client, wrappers, completedBoundaries>>
    BY <1>3, Zenon DEF vars, segmentVars, boundaryVars, queueVars, outVars
  <2> QED BY <2>1, NothingWritten
<1>4. CASE \E s \in Segments : PingTask(s)
  <2>1. /\ UNCHANGED <<boundaries, client, wrappers, completedBoundaries, suspense>>
        /\ \E s \in Segments : segment' = [segment EXCEPT ![s].suspended = FALSE]
    BY <1>4, Zenon DEF PingTask, boundaryVars, queueVars, outVars
  <2>2. segment \in [Segments -> SegmentRecord]
        /\ \A x \in Boundaries : x \in Nat /\ boundaries \in Nat
    BY ControlTypes, InvTypes DEF Inv
  <2>3. \A s \in Segments : segment'[s].id = segment[s].id /\ segment'[s].status = segment[s].status
    BY <2>1, <2>2 DEF SegmentRecord
  <2>4. \A x \in Boundaries : x <= boundaries => suspense[x].content \in Segments
    BY DEF Inv, BoundaryTree
  <2> QED BY <2>1, <2>2, <2>3, <2>4 DEF WritesNothing
<1> QED BY <1>1, <1>2, <1>3, <1>4

(* A boundary that is left to the client is pending until then.            *)
LEMMA ClientRenderedWrappers ==
    ASSUME Inv, WrapperState, FlushClientRenderedBoundary
    PROVE  WrappersKept
<1>0. TypeOK
  BY DEF Inv
<1> DEFINE h == Head(clientRenderedBoundaries)
           k == suspense[h].rootSegmentID
<1>1. /\ clientRenderedBoundaries # << >>
      /\ client' = [client EXCEPT ![h] = "client"]
      /\ wrappers' = [wrappers EXCEPT ![h][k] = "client"]
      /\ UNCHANGED <<segment, suspense, boundaries, completedBoundaries>>
  BY DEF FlushClientRenderedBoundary, ClientRenderBoundary, segmentVars, boundaryVars
<1>2. clientRenderedBoundaries \in Seq(Boundaries)
      /\ client \in [Boundaries -> {"none", "pending", "completed", "client"}]
  BY <1>0, ControlTypes
<1>3. 1 \in DOMAIN clientRenderedBoundaries /\ clientRenderedBoundaries[1] = h /\ h \in Boundaries
  BY <1>1, <1>2, TailElements
<1>4. client[h] = "pending" /\ h \notin ToSet(completedBoundaries)
  <2>1. Count(clientRenderedBoundaries, h) # 0
    BY <1>1, <1>2, <1>3, CountType
  <2>2. client[h] = "pending" /\ suspense[h].forceClientRender
    BY <1>3, <2>1 DEF Inv, QueuedOnce
  <2>3. h \notin Complete
    BY <2>2 DEF Complete
  <2> QED BY <2>2, <2>3 DEF Inv, ClientState
<1> HIDE DEF h, k
<1>5. LET w == [wrappers EXCEPT ![h][k] = "client"] IN
      /\ w \in [Boundaries -> Wrappers]
      /\ \A x \in Boundaries : x # h => w[x] = wrappers[x]
      /\ Len(w[h]) = Len(wrappers[h]) /\ DOMAIN w[h] = DOMAIN wrappers[h]
      /\ \A i \in DOMAIN wrappers[h] : w[h][i] = IF i = k THEN "client" ELSE wrappers[h][i]
  BY <1>0, <1>3, DecideWrapper
<1>6. /\ \A x \in Boundaries : x # h => wrappers'[x] = wrappers[x] /\ client'[x] = client[x]
      /\ Len(wrappers'[h]) = Len(wrappers[h]) /\ DOMAIN wrappers'[h] = DOMAIN wrappers[h]
      /\ \A i \in DOMAIN wrappers[h] : wrappers'[h][i] = IF i = k THEN "client" ELSE wrappers[h][i]
      /\ client'[h] = "client"
  BY <1>1, <1>2, <1>3, <1>5
<1> SUFFICES ASSUME NEW x \in Boundaries
    PROVE  WrapperOf(x)' /\ ContentOf(x)' /\ Decides(x)
  BY DEF WrappersKept
<1>7. WrapperOf(x) /\ ContentOf(x)
  BY DEF WrapperState
<1>8. CASE x # h
  BY <1>1, <1>6, <1>7, <1>8 DEF WrapperOf, ContentOf, Decides
<1>9. CASE x = h
  <2>1. k \in DOMAIN wrappers[h] /\ wrappers[h][k] = "pending" /\ Len(wrappers[h]) # 0
    BY <1>4, <1>7, <1>9 DEF WrapperOf, k
  <2>2. Decides(x)
    BY <1>6, <1>9, <2>1 DEF Decides
  <2>3. WrapperOf(x)'
    <3>1. Len(wrappers[h]) = 1 => k = 1
      BY <1>4, <1>7, <1>9 DEF WrapperOf, k
    <3>2. Len(wrappers[h]) = 1 => wrappers'[h][1] = "client"
      BY <1>6, <2>1, <3>1
    <3> QED BY <1>1, <1>4, <1>6, <1>9, <2>1, <3>2 DEF WrapperOf
  <2>4. ContentOf(x)'
    BY <1>1, <1>6, <1>7, <1>9 DEF ContentOf
  <2> QED BY <2>2, <2>3, <2>4
<1> QED BY <1>8, <1>9

LEMMA NextWrappers ==
    ASSUME Inv, WrapperState, [Next]_vars
    PROVE  WrappersKept
<1>1. CASE FlushRoot
  BY <1>1, FlushRootStep
<1>2. CASE FlushClientRenderedBoundary
  BY <1>2, ClientRenderedWrappers
<1>3. CASE FlushCompletedBoundary
  BY <1>3, FlushCompletedBoundaryStep
<1>4. CASE FlushPartialBoundary
  BY <1>4, FlushPartialBoundaryStep
<1>5. CASE Render
  BY <1>5, RenderWritesNothing, KeepsWrappers
<1>6. CASE AbortTaskSoft \/ AbortTask \/ ClearAbortableTasks \/ UncountTask \/ NextQueue
           \/ CloseIfDone \/ CatchError
  BY <1>6, ReturnWritesNothing, KeepsWrappers
<1>7. CASE \/ PerformWork \/ RetryTask \/ FinishWork \/ Pipe \/ Drain \/ Abort
           \/ UNCHANGED vars \/ (\E s \in Segments : PingTask(s))
  BY <1>7, HostWritesNothing, KeepsWrappers
<1> QED BY <1>1, <1>2, <1>3, <1>4, <1>5, <1>6, <1>7, Zenon DEF Next, Work, Return

(* A stream that is closed left nothing out.                               *)
LEMMA ClosedIsComplete ==
    ASSUME Inv, WrapperState
    PROVE  ClosedComplete
<1>0. TypeOK
  BY DEF Inv
<1> SUFFICES ASSUME ended = "closed", calls = << >> PROVE ClosedComplete
  BY DEF ClosedComplete
<1>1. /\ Live = {} /\ allPendingTasks = 0 /\ requestStatus = "OPEN" /\ running = NoTask
      /\ clientRenderedBoundaries = << >> /\ completedBoundaries = << >>
  BY ClosedState
<1>2. opened = << >> /\ DOMAIN opened = {}
  BY <1>1 DEF Inv, RunState
<1>3. segment[RootSegment].status = "FLUSHED"
  <2>1. Quiet(calls)
    BY DEF Quiet
  <2> QED BY <2>1, QuietClosed
<1>4. ASSUME NEW b \in Boundaries, client[b] # "none"
      PROVE  /\ client[b] \in {"completed", "client"}
             /\ client[b] = "client" => suspense[b].forceClientRender
             /\ client[b] = "completed" => b \in Complete
  <2>1. client[b] \in {"none", "pending", "completed", "client"}
    BY <1>0, ControlTypes
  <2>2. client[b] # "pending"
    <3> SUFFICES ASSUME client[b] = "pending" PROVE FALSE
      OBVIOUS
    <3>1. Count(clientRenderedBoundaries, b) = 0 /\ Count(completedBoundaries, b) = 0
      BY <1>1, CountEmpty
    <3>2. ~suspense[b].forceClientRender
      BY <3>1 DEF Inv, QueuedOnce
    <3>3. suspense[b].pendingTasks = 0
      <4>1. BlockedBy(b) = {}
        BY <1>1 DEF BlockedBy
      <4>2. suspense[b].pendingTasks = Cardinality(BlockedBy(b))
        BY DEF Inv, CountState
      <4> QED BY <4>1, <4>2, FS_EmptySet
    <3>4. Count(completedBoundaries, b) = 1
      BY <3>2, <3>3 DEF Inv, QueuedOnce
    <3> QED BY <3>1, <3>4
  <2> QED BY <1>4, <2>1, <2>2 DEF Inv, ClientState
<1>5. ASSUME NEW b \in Boundaries
      PROVE  /\ suspense[b].parentFlushed => client[b] \in {"completed", "client"}
             /\ client[b] = "completed" => segment[suspense[b].content].status = "FLUSHED"
  <2>1. suspense[b].parentFlushed => client[b] # "none"
    BY DEF Inv, ClientState
  <2>2. ASSUME client[b] = "completed"
        PROVE  segment[suspense[b].content].status = "FLUSHED"
    <3>1. b \in Complete
      BY <1>4, <2>2
    <3>2. b <= boundaries /\ ~suspense[b].forceClientRender
      BY <3>1 DEF Complete
    <3>3. \/ suspense[b].content \in ToSet(suspense[b].completedSegments)
          \/ segment[suspense[b].content].status = "FLUSHED"
      BY <1>2, <3>2 DEF Inv, ReadyState
    <3>4. suspense[b].content \in ToSet(suspense[b].completedSegments) =>
             suspense[b].content \in Written
      BY <2>2, <3>2 DEF Inv, ReadyState
    <3>5. segment[suspense[b].content].boundary = NoBoundary
      BY <3>2 DEF Inv, BoundaryTree
    <3> QED BY <3>3, <3>4, <3>5 DEF Written
  <2> QED BY <1>4, <2>1, <2>2
<1>6. ASSUME NEW s \in Segments, segment[s].task, segment[s].parentFlushed
      PROVE
        \/ segment[s].status = "FLUSHED"
        \/ /\ segment[s].blockedBoundary # Root
           /\ suspense[segment[s].blockedBoundary].forceClientRender
        \/ /\ segment[s].status = "ABORTED" /\ segment[s].abortSet # Root
           /\ client[segment[s].abortSet] = "completed"
        \/ /\ segment[s].status = "COMPLETED" /\ segment[s].boundary # NoBoundary
           /\ client[segment[s].boundary] = "completed"
  <2> DEFINE b == segment[s].blockedBoundary
             a == segment[s].abortSet
  <2>1. /\ segment[s].status \in {"PENDING", "COMPLETED", "FLUSHED", "ABORTED", "ERRORED"}
        /\ segment[s].boundary \in Boundaries \cup {NoBoundary}
        /\ b \in Boundaries \cup {Root} /\ a \in Boundaries \cup {Root}
    BY <1>0, InvTypes
  <2>2. segment[s].status # "PENDING"
    BY <1>1, <1>6 DEF Live
  <2>3. PICK place \in Places : PlaceOf(place) /\ ShownState(place.home, place.reg)
    BY DEF Inv, Placed
  <2>4. s <= segments
    BY <1>6, TaskIsMade
  <2>5. s \in Reached
    <3>1. CASE segment[s].boundary = NoBoundary
      BY <1>6, <3>1 DEF Reached
    <3>2. CASE segment[s].boundary # NoBoundary
      BY <1>6, <2>3, <3>2 DEF ShownState
    <3> QED BY <3>1, <3>2
  <2>6. place.home[s] \in Shown /\ place.reg[s] \in Shown
    BY <2>3, <2>5 DEF ShownState
  <2>7. b \in Shown
    BY <1>6, <2>3, <2>4, <2>6 DEF PlaceOf
  <2>8. a \in Shown
    <3>1. CASE segment[s].boundary = NoBoundary
      BY <1>6, <2>3, <2>4, <2>6, <3>1 DEF PlaceOf
    <3>2. CASE segment[s].boundary # NoBoundary
      <4>1. segment[s].boundary \in Shown
        BY <2>5, <3>2 DEF Reached
      <4>2. a = segment[s].boundary
        BY <1>6, <3>2 DEF Inv, SegmentTree
      <4> QED BY <4>1, <4>2
    <3> QED BY <3>1, <3>2
  <2>9. /\ segment[s].status = "ABORTED" =>
              \/ b # Root /\ suspense[b].forceClientRender
              \/ a \in Complete
        /\ segment[s].status = "ERRORED" => b # Root /\ suspense[b].forceClientRender
        /\ segment[s].status = "COMPLETED" =>
              \/ b = Root /\ s = RootSegment
              \/ /\ b # Root
                 /\ \/ suspense[b].forceClientRender
                    \/ s \in ToSet(suspense[b].completedSegments)
                    \/ s \in Written
    BY <1>1, <1>6 DEF Inv, OverState
  <2> HIDE DEF a, b
  <2>10. ASSUME a \in Complete
         PROVE  a # Root /\ client[a] = "completed"
    <3>1. a \in Boundaries /\ ~suspense[a].forceClientRender
      BY <2>10 DEF Complete
    <3>2. a # Root
      BY <1>0, <3>1, InvTypes
    <3>3. client[a] # "none"
      BY <2>8, <3>2 DEF Shown
    <3> QED BY <1>4, <3>1, <3>2, <3>3
  <2>11. ASSUME segment[s].status = "COMPLETED", b # Root, ~suspense[b].forceClientRender
         PROVE  s \in Written
    <3>1. b \in Boundaries /\ client[b] # "none"
      BY <2>1, <2>7, <2>11 DEF Shown
    <3>2. client[b] = "completed"
      BY <1>4, <2>11, <3>1
    <3>3. b <= boundaries
      <4>1. b \in Complete
        BY <1>4, <3>1, <3>2
      <4> QED BY <4>1 DEF Complete
    <3>4. s \in ToSet(suspense[b].completedSegments) => s \in Written
      BY <3>1, <3>2, <3>3 DEF Inv, ReadyState
    <3> QED BY <2>9, <2>11, <3>4
  <2>12. s \in Written =>
           \/ segment[s].status = "FLUSHED"
           \/ /\ segment[s].status = "COMPLETED" /\ segment[s].boundary # NoBoundary
              /\ client[segment[s].boundary] = "completed"
    BY DEF Written
  <2>13. s = RootSegment => segment[s].status = "FLUSHED"
    BY <1>3
  <2>14. \/ segment[s].status = "FLUSHED"
         \/ b # Root /\ suspense[b].forceClientRender
         \/ segment[s].status = "ABORTED" /\ a # Root /\ client[a] = "completed"
         \/ segment[s].status = "COMPLETED" /\ segment[s].boundary # NoBoundary
            /\ client[segment[s].boundary] = "completed"
    BY <2>1, <2>2, <2>9, <2>10, <2>11, <2>12, <2>13
  <2> QED BY <2>14, Zenon DEF a, b
<1>7. 1..segments \subseteq Segments
  <2>1. segments \in Segments /\ Segments = 1..MaxSegments /\ MaxSegments \in Nat
    BY <1>0, InvTypes
  <2> QED BY <2>1
<1>8. ASSUME NEW b \in Boundaries
      PROVE  ShownAgain(b) \/ \A i \in DOMAIN wrappers[b] : wrappers[b][i] = client[b]
  <2> DEFINE w == wrappers[b]
  <2>1. Len(w) \in Nat /\ DOMAIN w = 1..Len(w)
    BY <1>0, WrapperTypes
  <2>2. /\ client[b] = "none" <=> Len(w) = 0
        /\ Len(w) = 1 => w[1] = client[b]
        /\ b <= boundaries /\ Len(w) > 1 => segment[suspense[b].fallback].id # NoID
    BY DEF WrapperState, WrapperOf, ContentOf
  <2>3. Len(w) > 1 => b <= boundaries
    <3>1. client[b] # "none" => suspense[b] # NewBoundary
      BY DEF Inv, ClientState, NewBoundary
    <3>2. b \in Nat /\ boundaries \in Nat
      BY <1>0, InvTypes
    <3>3. b > boundaries => suspense[b] = NewBoundary
      BY DEF Inv, BoundaryTree
    <3> QED BY <2>1, <2>2, <3>1, <3>2, <3>3
  <2>4. CASE Len(w) > 1
    BY <2>2, <2>3, <2>4 DEF ShownAgain
  <2>5. CASE Len(w) \in {0, 1}
    BY <2>1, <2>2, <2>5
  <2> HIDE DEF w
  <2>6. Len(w) > 1 \/ Len(w) \in {0, 1}
    BY <2>1
  <2> QED BY <2>4, <2>5, <2>6, Zenon
<1> QED BY <1>3, <1>5, <1>6, <1>7, <1>8, Zenon DEF ClosedComplete

LEMMA CountersAgree ==
    ASSUME Inv
    PROVE  CountersExact
<1>1. Count(<< >>, Call("taskDone", 0)) = 0
  BY CountEmpty
<1>2. \A b : BlockedBy(b) = {s \in Live : segment[s].blockedBoundary = b}
  BY DEF BlockedBy
<1>3. Cardinality(Live) \in Nat
  BY Sets
<1>4. ASSUME calls = << >>
      PROVE  allPendingTasks = Cardinality(Live)
  <2>1. allPendingTasks = Cardinality(Live) + 0
    BY <1>1, <1>4 DEF Inv, CountState
  <2> QED BY <1>3, <2>1
<1>5. /\ \A b \in Boundaries : suspense[b].pendingTasks = Cardinality(BlockedBy(b))
      /\ requestStatus = "OPEN" =>
            suspense[Root].pendingTasks = Cardinality(BlockedBy(Root))
  BY DEF Inv, CountState
<1> QED BY <1>2, <1>4, <1>5, Zenon DEF CountersExact

-----------------------------------------------------------------------------
(* What is where, and who waits for what, at every step of a request: the  *)
(* counters agree with the tasks that are not over and the calls that are  *)
(* left, the sets that can be aborted with the calls of an abort, what is  *)
(* shown with what was decided, and the ids of a boundary and its content  *)
(* with the wrappers that the browser has.                                 *)
THEOREM InductiveInvariant == Spec => [](Inv /\ WrapperState)
<1>1. Init => Inv /\ WrapperState
  BY InitInv, InitWrappers
<1>2. Inv /\ WrapperState /\ [Next]_vars => (Inv /\ WrapperState)'
  <2>1. WrappersKept => WrapperState'
    BY DEF WrappersKept, WrapperState
  <2> QED BY <2>1, InvNext, NextWrappers
<1> QED
  BY <1>1, <1>2, PTL DEF Spec

(* The request, its segments and its boundaries have the values that the   *)
(* code gives them; no counter is ever negative.                           *)
THEOREM TypeCorrect == Spec => []TypeOK
<1>1. Inv /\ WrapperState => TypeOK
  BY DEF Inv
<1> QED
  BY <1>1, InductiveInvariant, PTL

(* allPendingTasks and pendingTasks are the numbers of the tasks that are  *)
(* not over, between any two calls.                                        *)
THEOREM CountersAreExact == Spec => []CountersExact
<1>1. Inv /\ WrapperState => CountersExact
  BY CountersAgree
<1> QED
  BY <1>1, InductiveInvariant, PTL

(* A boundary that is shown as pending is queued once it is decided, once  *)
(* and in the right queue.                                                 *)
THEOREM BoundariesAreQueued == Spec => []QueuedOnce
<1>1. Inv /\ WrapperState => QueuedOnce
  BY DEF Inv
<1> QED
  BY <1>1, InductiveInvariant, PTL

(* When the stream is closed, everything that was promised to the browser  *)
(* is there, and the browser found it: only a boundary that was shown      *)
(* again, with a fallback that had been a placeholder, may have a wrapper  *)
(* that stays as it is.                                                    *)
THEOREM StreamIsComplete == Spec => []ClosedComplete
<1>1. Inv /\ WrapperState => ClosedComplete
  BY ClosedIsComplete
<1> QED
  BY <1>1, InductiveInvariant, PTL

(* A wrapper is first shown, then decided, and never again after that.     *)
THEOREM BoundariesAreDecidedOnce == Spec => ClientProtocol
<1>1. Inv /\ WrapperState /\ [Next]_vars =>
         [\A b \in Boundaries : \A i \in DOMAIN wrappers[b] :
             /\ i \in DOMAIN wrappers'[b]
             /\ wrappers'[b][i] # wrappers[b][i] =>
                   wrappers[b][i] = "pending" /\ wrappers'[b][i] \in {"completed", "client"}]_vars
  BY NextWrappers DEF WrappersKept, Decides
<1> QED
  BY <1>1, InductiveInvariant, PTL DEF Spec, ClientProtocol
=============================================================================
