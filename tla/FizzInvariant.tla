---------------------------- MODULE FizzInvariant -----------------------------
(*****************************************************************************)
(* The invariant of Fizz, and the operations of a request that render no     *)
(* component: its tasks begin, are suspended, end, throw and are aborted,    *)
(* for every number of segments, boundaries and retries, whether components  *)
(* throw and the user aborts or not.                                         *)
(*****************************************************************************)
EXTENDS Fizz, DataLemmas

(* The tree of segments and boundaries, as far as it has been rendered.    *)
SegmentTree ==
    /\ LET root == segment[RootSegment] IN
          /\ root.parent = NoSegment /\ root.boundary = NoBoundary /\ root.task
          /\ root.blockedBoundary = Root /\ root.abortSet = Root
    /\ \A s \in Segments :
          /\ s > segments => segment[s] = NewSegment
          /\ segment[s].parent < s
          /\ segment[s].boundary <= boundaries
          /\ segment[s].blockedBoundary <= boundaries /\ segment[s].abortSet <= boundaries
          /\ segment[s].boundary # NoBoundary =>
                /\ segment[s].parent # NoSegment
                /\ suspense[segment[s].boundary].fallback = s
                /\ segment[s].task =>
                      /\ segment[s].abortSet = segment[s].boundary
                      /\ segment[s].blockedBoundary = suspense[segment[s].boundary].outer
          /\ segment[s].task /\ segment[s].blockedBoundary # Root =>
                suspense[segment[s].blockedBoundary].fallback < s

BoundaryTree ==
    \A b \in Boundaries :
        LET fallback == suspense[b].fallback
            content  == suspense[b].content
            outer    == suspense[b].outer
        IN
        /\ b > boundaries => suspense[b] = NewBoundary
        /\ b <= boundaries =>
              /\ fallback \in Segments /\ content \in Segments
              /\ content = fallback + 1 /\ content <= segments
              /\ segment[fallback].boundary = b
              /\ segment[content].boundary = NoBoundary /\ ~segment[content].task
              /\ segment[content].parent = NoSegment
              /\ outer < b
              /\ outer # Root => suspense[outer].fallback < fallback

(* What is pinged, suspended or rendered is a task, and boundaries are     *)
(* open only inside of the task that renders.                              *)
RunState ==
    /\ \A i \in DOMAIN pingedTasks : segment[pingedTasks[i]].task
    /\ \A s \in Segments : segment[s].suspended => segment[s].task
    /\ running # NoTask => running \in Live /\ calls = << >>
    /\ opened # << >> => running # NoTask /\ started

OpenState ==
    \A i \in DOMAIN opened :
        LET b == opened[i] IN
        /\ b <= boundaries
        /\ suspense[b].outer = IF i = 1 THEN segment[running].blockedBoundary ELSE opened[i - 1]
        /\ \A j \in DOMAIN opened : j < i => opened[j] < b
        /\ ~segment[suspense[b].fallback].task
        /\ segment[suspense[b].fallback].status = "PENDING"
        /\ segment[suspense[b].content].status = "PENDING"
        /\ ~suspense[b].forceClientRender /\ suspense[b].completedSegments = << >>
        /\ client[b] = "none"

(* Where a segment is: in the fallback of home, in the content of reg.     *)
(* Neither home nor reg is recorded for every segment, so that they are    *)
(* bound in the invariant.  rank orders the boundaries so that an abort    *)
(* leads from a set to sets of greater rank only.                          *)
Before(rank, a, b) == b = Root \/ rank[a] < rank[b]

Ranks == [Boundaries \cup {Root} -> Nat]

Places ==
    [home : [Segments -> Boundaries \cup {Root}], reg : [Segments -> Boundaries \cup {Root}],
     rank : Ranks]

PlaceOf(place) ==
    /\ place.home[RootSegment] = Root /\ place.reg[RootSegment] = Root
    /\ place.rank[Root] = 0
    /\ \A s \in Segments : s <= segments =>
          /\ place.home[s] <= boundaries /\ place.reg[s] <= boundaries
          /\ Before(place.rank, place.home[s], place.reg[s])
          /\ segment[s].task => place.reg[s] = segment[s].blockedBoundary
          /\ segment[s].task /\ segment[s].boundary = NoBoundary =>
                place.home[s] = segment[s].abortSet
          /\ segment[s].boundary # NoBoundary =>
                place.reg[s] = suspense[segment[s].boundary].outer
          /\ segment[s].parent # NoSegment =>
                /\ place.reg[s] = place.reg[segment[s].parent]
                /\ place.home[s] = IF segment[segment[s].parent].boundary # NoBoundary
                                   THEN segment[segment[s].parent].boundary
                                   ELSE place.home[segment[s].parent]
    /\ \A b \in Boundaries : b <= boundaries =>
          /\ Before(place.rank, b, suspense[b].outer)
          /\ place.reg[suspense[b].content] = b
          /\ place.home[suspense[b].content] = place.home[suspense[b].fallback]
    /\ \A i \in DOMAIN opened :
          place.home[suspense[opened[i]].content] = segment[running].abortSet

(* The counters, at every step.                                            *)
BlockedBy(b) == {s \in Live : segment[s].blockedBoundary = b}

CountState ==
    /\ allPendingTasks = Cardinality(Live) + Count(calls, Call("taskDone", 0))
    /\ \A b \in Boundaries : suspense[b].pendingTasks = Cardinality(BlockedBy(b))
    /\ suspense[Root].pendingTasks >= Cardinality(BlockedBy(Root))
    /\ requestStatus = "OPEN" => suspense[Root].pendingTasks = Cardinality(BlockedBy(Root))
    /\ segment[RootSegment].status \in {"ABORTED", "ERRORED"} =>
          suspense[Root].pendingTasks > Cardinality(BlockedBy(Root))

(* A boundary that is complete stays so.                                   *)
Complete ==
    {b \in Boundaries :
        /\ b <= boundaries /\ suspense[b].pendingTasks = 0 /\ ~suspense[b].forceClientRender
        /\ \A i \in DOMAIN opened : opened[i] # b}

(* What is left of an abort: tasks that are not over, each once, and then  *)
(* the sets they are from.                                                 *)
AbortCall(c) == c.f \in {"abortTask", "abortTaskSoft"}

StackState(rank) ==
    \A i \in DOMAIN calls : AbortCall(calls[i]) =>
        /\ calls[i].x \in Live
        /\ \A j \in DOMAIN calls : AbortCall(calls[j]) /\ calls[j].x = calls[i].x => j = i
        /\ \A j \in DOMAIN calls : j > i /\ calls[j].f = "clear" =>
              rank[calls[j].x] <= rank[segment[calls[i].x].abortSet]
        /\ calls[i].f = "abortTaskSoft" =>
              segment[calls[i].x].abortSet \in Complete

SetState ==
    \A a \in Boundaries \cup {Root} : \A s \in suspense[a].fallbackAbortableTasks :
        /\ segment[s].task /\ segment[s].abortSet = a
        /\ \/ s \in Live /\ \A i \in DOMAIN calls : AbortCall(calls[i]) => calls[i].x # s
           \/ \E i \in DOMAIN calls : calls[i] = Call("clear", a)

(* The flush under way is on top of the stack, and writes.                 *)
FlushCalls == {"flushClientRendered", "flushCompleted", "flushPartial", "flushEnd"}

FlowState ==
    /\ flowing => requestStatus = "OPEN" \/ ended # "no"
    /\ \A i \in DOMAIN calls :
          /\ calls[i].f \in FlushCalls => i = 1
          /\ calls[i].f \in FlushCalls \ {"flushEnd"} => flowing
          /\ calls[i].f \in FlushCalls =>
                /\ requestStatus = "OPEN" \/ ended # "no"
                /\ \/ suspense[Root].pendingTasks > 0 \/ segment[RootSegment].status = "FLUSHED"
                   \/ Len(calls) > 1 /\ calls[2].f = "fatalError"
          /\ calls[i].f \in {"flushCompleted", "flushPartial"} => clientRenderedBoundaries = << >>
          /\ calls[i].f = "flushPartial" => completedBoundaries = << >>
          /\ calls[i].f = "fatalError" => flowing /\ (i = 1 \/ (i = 2 /\ calls[1].f = "flushEnd"))
    /\ ended = "closed" =>
          /\ requestStatus = "OPEN" /\ allPendingTasks = 0
          /\ clientRenderedBoundaries = << >> /\ completedBoundaries = << >>
          /\ \/ segment[RootSegment].status = "FLUSHED"
             \/ \E i \in DOMAIN calls : calls[i].f = "fatalError"

(* What the browser shows is what was decided.                             *)
ClientState ==
    /\ \A b \in Boundaries :
          /\ client[b] # "none" <=> suspense[b].parentFlushed
          /\ client[b] = "client" => suspense[b].forceClientRender
          /\ client[b] = "completed" => b \in Complete
    /\ \A b \in ToSet(clientRenderedBoundaries) :
          suspense[b].forceClientRender /\ client[b] # "none"
    /\ \A b \in ToSet(completedBoundaries) : b \in Complete /\ client[b] # "none"
    /\ \A b \in ToSet(partialBoundaries) : client[b] # "none"

(* Nothing is shown before the root, or before what is around it.          *)
RootState ==
    /\ segment[RootSegment].status = "FLUSHED" => suspense[Root].pendingTasks = 0
    /\ segment[RootSegment].status # "FLUSHED" =>
          /\ \A b \in Boundaries : client[b] = "none"
          /\ \A s \in Segments \ {RootSegment} : segment[s].task => ~segment[s].parentFlushed
    /\ suspense[Root].completedSegments # << >> =>
          /\ suspense[Root].completedSegments = << RootSegment >>
          /\ segment[RootSegment].status = "COMPLETED"
    /\ segment[RootSegment].status = "COMPLETED" =>
          suspense[Root].completedSegments = << RootSegment >>
    /\ segment[RootSegment].parentFlushed

Shown == {Root} \cup {b \in Boundaries : client[b] # "none"}

Reached ==
    {s \in Segments :
        IF segment[s].boundary # NoBoundary THEN segment[s].boundary \in Shown
        ELSE segment[s].task /\ segment[s].parentFlushed}

ShownState(home, reg) ==
    \A s \in Segments :
        /\ s \in Reached => home[s] \in Shown /\ reg[s] \in Shown
        /\ segment[s].boundary # NoBoundary /\ segment[s].parentFlushed =>
              s \in Reached
        /\ segment[s].boundary # NoBoundary /\ s \in Reached =>
              segment[segment[s].parent].status = "FLUSHED"

(* The segments that are on the page, or were replaced by the content of   *)
(* the boundary they stood for.                                            *)
Written ==
    {s \in Segments :
        \/ segment[s].status = "FLUSHED"
        \/ /\ segment[s].status = "COMPLETED" /\ segment[s].boundary # NoBoundary
           /\ client[segment[s].boundary] = "completed"}

(* What is complete is kept until it is written.                           *)
ReadyState ==
    \A b \in Boundaries : b <= boundaries =>
        /\ \A s \in ToSet(suspense[b].completedSegments) :
              /\ s > suspense[b].fallback /\ s <= segments
              /\ segment[s].status \in {"COMPLETED", "FLUSHED"}
              /\ \/ s = suspense[b].content
                 \/ /\ segment[s].task /\ segment[s].blockedBoundary = b
                    /\ segment[s].parentFlushed /\ segment[s].id # NoID
        /\ (\A i \in DOMAIN opened : opened[i] # b) /\ ~suspense[b].forceClientRender =>
              \/ suspense[b].content \in ToSet(suspense[b].completedSegments)
              \/ segment[suspense[b].content].status = "FLUSHED"
        /\ client[b] = "completed" =>
              \A s \in ToSet(suspense[b].completedSegments) : s \in Written

(* Why a task is over.                                                     *)
OverState ==
    \A s \in Segments : segment[s].task =>
        LET b == segment[s].blockedBoundary
            a == segment[s].abortSet
        IN
        /\ segment[s].parentFlushed /\ s # RootSegment =>
              segment[s].id # NoID \/ segment[s].status = "FLUSHED"
        /\ segment[s].status = "ABORTED" =>
              \/ requestStatus # "OPEN"
              \/ b # Root /\ suspense[b].forceClientRender
              \/ a \in Complete
        /\ segment[s].status = "ERRORED" =>
              \/ requestStatus # "OPEN"
              \/ b # Root /\ suspense[b].forceClientRender
        /\ segment[s].status = "COMPLETED" /\ segment[s].parentFlushed =>
              \/ b = Root /\ s = RootSegment
              \/ /\ b # Root
                 /\ \/ suspense[b].forceClientRender
                    \/ s \in ToSet(suspense[b].completedSegments)
                    \/ s \in Written

(* What the stack holds.                                                   *)
CallType ==
    [f : {"abortTask", "abortTaskSoft"}, x : Segments]
    \cup [f : {"clear"}, x : Boundaries \cup {Root}]
    \cup [f : FlushCalls \cup {"flushRoot", "fatalError", "taskDone"}, x : {0}]

(* The inductive invariant.                                                *)
Placed ==
    \E place \in Places :
        /\ PlaceOf(place)
        /\ StackState(place.rank)
        /\ ShownState(place.home, place.reg)

Inv ==
    /\ TypeOK /\ calls \in Seq(CallType)
    /\ SegmentTree /\ BoundaryTree
    /\ RunState /\ OpenState
    /\ CountState
    /\ Placed /\ SetState
    /\ FlowState
    /\ ClientState /\ QueuedOnce
    /\ RootState /\ ReadyState /\ OverState

-----------------------------------------------------------------------------
(* Sequences, and how often they hold an element.                          *)

LEMMA CountType ==
    ASSUME NEW S, NEW q \in Seq(S), NEW e
    PROVE  /\ Count(q, e) \in Nat
           /\ IsFiniteSet({i \in DOMAIN q : q[i] = e})
           /\ Count(q, e) = 0 <=> \A i \in DOMAIN q : q[i] # e
<1>1. Len(q) \in Nat /\ DOMAIN q = 1..Len(q)
  BY LenProperties
<1>2. IsFiniteSet(1..Len(q))
  BY <1>1, FS_Interval
<1>3. IsFiniteSet({i \in DOMAIN q : q[i] = e})
  BY <1>1, <1>2, FS_Subset
<1> QED
  BY <1>3, FS_CardinalityType, FS_EmptySet DEF Count

LEMMA CountEmpty == ASSUME NEW e PROVE Count(<< >>, e) = 0
  BY FS_EmptySet DEF Count

LEMMA CountOne == ASSUME NEW x, NEW e PROVE Count(<<x>>, e) = IF x = e THEN 1 ELSE 0
<1>1. DOMAIN <<x>> = {1} /\ <<x>>[1] = x
  OBVIOUS
<1>2. CASE x = e
  <2>1. {i \in DOMAIN <<x>> : <<x>>[i] = e} = {1}
    BY <1>1, <1>2
  <2> QED BY <1>2, <2>1, FS_Singleton DEF Count
<1>3. CASE x # e
  <2>1. {i \in DOMAIN <<x>> : <<x>>[i] = e} = {}
    BY <1>1, <1>3
  <2> QED BY <1>3, <2>1, FS_EmptySet DEF Count
<1> QED BY <1>2, <1>3

LEMMA CountConcat ==
    ASSUME NEW S, NEW q \in Seq(S), NEW r \in Seq(S), NEW e
    PROVE  Count(q \o r, e) = Count(q, e) + Count(r, e)
<1> DEFINE A == {i \in DOMAIN q : q[i] = e}
           B == {i \in DOMAIN r : r[i] = e}
           n == Len(q)
           C == {n + i : i \in B}
<1>1. /\ n \in Nat /\ DOMAIN q = 1..n /\ Len(r) \in Nat /\ DOMAIN r = 1..Len(r)
      /\ DOMAIN (q \o r) = 1..(n + Len(r))
      /\ \A i \in 1..(n + Len(r)) : (q \o r)[i] = IF i <= n THEN q[i] ELSE r[i - n]
  <2>1. Len(q \o r) = n + Len(r) /\ q \o r \in Seq(S)
    BY ConcatProperties
  <2> QED BY <2>1, LenProperties, ConcatProperties
<1>2. {i \in DOMAIN (q \o r) : (q \o r)[i] = e} = A \cup C
  <2>1. ASSUME NEW i \in 1..(n + Len(r)), (q \o r)[i] = e PROVE i \in A \cup C
    <3>1. CASE i <= n
      BY <1>1, <2>1, <3>1
    <3>2. CASE i > n
      <4>1. i - n \in B /\ i = n + (i - n)
        BY <1>1, <2>1, <3>2
      <4> QED BY <4>1
    <3> QED BY <1>1, <3>1, <3>2
  <2>2. ASSUME NEW i \in A PROVE i \in 1..(n + Len(r)) /\ (q \o r)[i] = e
    BY <1>1
  <2>3. ASSUME NEW j \in B PROVE n + j \in 1..(n + Len(r)) /\ (q \o r)[n + j] = e
    BY <1>1
  <2> QED BY <1>1, <2>1, <2>2, <2>3
<1>3. IsFiniteSet(A) /\ IsFiniteSet(B)
  BY CountType
<1>4. IsFiniteSet(C) /\ Cardinality(C) = Cardinality(B)
  <2> DEFINE f == [i \in B |-> n + i]
  <2>1. f \in Bijection(B, C)
    <3>1. f \in Injection(B, C)
      BY <1>1 DEF Injection, IsInjective
    <3>2. f \in Surjection(B, C)
      BY <1>1 DEF Surjection
    <3> QED BY <3>1, <3>2 DEF Bijection
  <2> HIDE DEF f, B, C
  <2> QED BY <1>3, <2>1, FS_Bijection DEF ExistsBijection
<1>5. A \cap C = {}
  BY <1>1
<1>6. Cardinality(A \cup C) = Cardinality(A) + Cardinality(C)
  <2> HIDE DEF A, C
  <2>1. Cardinality(A \cap C) = 0 /\ Cardinality(A) \in Nat /\ Cardinality(C) \in Nat
    BY <1>3, <1>4, <1>5, FS_EmptySet, FS_CardinalityType
  <2>2. Cardinality(A \cup C) = Cardinality(A) + Cardinality(C) - Cardinality(A \cap C)
    BY <1>3, <1>4, FS_Union
  <2> QED BY <2>1, <2>2
<1> QED
  BY <1>2, <1>4, <1>6 DEF Count

LEMMA CountAppend ==
    ASSUME NEW S, NEW q \in Seq(S), NEW x \in S, NEW e
    PROVE  Count(Append(q, x), e) = Count(q, e) + IF x = e THEN 1 ELSE 0
<1>1. Append(q, x) = q \o <<x>> /\ <<x>> \in Seq(S)
  BY AppendIsConcat
<1>2. Count(q \o <<x>>, e) = Count(q, e) + Count(<<x>>, e)
  BY <1>1, CountConcat
<1> QED BY <1>1, <1>2, CountOne

LEMMA CountTail ==
    ASSUME NEW S, NEW q \in Seq(S), q # << >>, NEW e
    PROVE  /\ Count(q, e) = Count(Tail(q), e) + IF Head(q) = e THEN 1 ELSE 0
           /\ Count(Tail(q), e) \in Nat
<1>1. q = <<Head(q)>> \o Tail(q) /\ Head(q) \in S /\ Tail(q) \in Seq(S)
  BY HeadTailProperties
<1>2. <<Head(q)>> \in Seq(S)
  BY <1>1
<1>3. Count(<<Head(q)>> \o Tail(q), e) = Count(<<Head(q)>>, e) + Count(Tail(q), e)
  BY <1>1, <1>2, CountConcat
<1>4. Count(Tail(q), e) \in Nat /\ Count(<<Head(q)>>, e) = IF Head(q) = e THEN 1 ELSE 0
  BY <1>1, CountType, CountOne
<1>5. Count(q, e) = Count(<<Head(q)>> \o Tail(q), e)
  BY <1>1
<1> QED BY <1>3, <1>4, <1>5

(* The order in which the elements of a set are taken.                     *)
LEMMA OrderOfSet ==
    ASSUME NEW S, NEW set \in SUBSET S, IsFiniteSet(set), NEW order \in SetToSeqs(set)
    PROVE  /\ order \in Seq(S) /\ order \in Seq(set)
           /\ \A x \in set : \E i \in DOMAIN order : order[i] = x
           /\ \A i, j \in DOMAIN order : order[i] = order[j] => i = j
           /\ \A e : Count(order, e) = IF e \in set THEN 1 ELSE 0
<1> DEFINE n == Cardinality(set)
<1>1. /\ n \in Nat /\ order \in [1..n -> set]
      /\ \A i, j \in 1..n : order[i] = order[j] => i = j
  BY FS_CardinalityType DEF SetToSeqs
<1>2. order \in Seq(set) /\ order \in Seq(S) /\ DOMAIN order = 1..n
  BY <1>1, SeqDef
<1>3. order \in Injection(1..n, set) /\ IsFiniteSet(1..n) /\ Cardinality(1..n) = n
  <2>1. /\ IsFiniteSet(1..n) /\ Cardinality(1..n) = IF 1 > n THEN 0 ELSE n - 1 + 1
    <3>1. 1 \in Int /\ n \in Int
      BY <1>1
    <3> HIDE DEF n
    <3> QED BY <3>1, FS_Interval, Zenon
  <2>2. Cardinality(1..n) = n
    BY <1>1, <2>1
  <2> QED BY <1>1, <2>1, <2>2 DEF Injection, IsInjective
<1>4. order \in Surjection(1..n, set)
  <2>1. order \in Bijection(1..n, set)
    BY <1>3, FS_Injection DEF Bijection
  <2> QED BY <2>1 DEF Bijection
<1>5. \A x \in set : \E i \in 1..n : order[i] = x
  BY <1>4 DEF Surjection
<1>6. ASSUME NEW e PROVE Count(order, e) = IF e \in set THEN 1 ELSE 0
  <2>1. CASE e \in set
    <3>1. PICK i \in 1..n : order[i] = e
      BY <1>5, <2>1
    <3>2. {j \in DOMAIN order : order[j] = e} = {i}
      BY <1>1, <1>2, <3>1
    <3> QED BY <2>1, <3>2, FS_Singleton DEF Count
  <2>2. CASE e \notin set
    <3>1. {j \in DOMAIN order : order[j] = e} = {}
      BY <1>1, <1>2, <2>2
    <3> QED BY <2>2, <3>1, FS_EmptySet DEF Count
  <2> QED BY <2>1, <2>2
<1> QED BY <1>1, <1>2, <1>5, <1>6

(* The elements of sequences that are made of others.                      *)
LEMMA AppendElements ==
    ASSUME NEW S, NEW q \in Seq(S), NEW x \in S
    PROVE  /\ Append(q, x) \in Seq(S) /\ Len(q) \in Nat /\ DOMAIN q = 1..Len(q)
           /\ Len(Append(q, x)) = Len(q) + 1 /\ DOMAIN Append(q, x) = 1..(Len(q) + 1)
           /\ \A i \in DOMAIN q : Append(q, x)[i] = q[i]
           /\ Append(q, x)[Len(q) + 1] = x
           /\ ToSet(Append(q, x)) = ToSet(q) \cup {x}
<1>1. /\ Append(q, x) \in Seq(S) /\ Len(q) \in Nat /\ DOMAIN q = 1..Len(q)
      /\ Len(Append(q, x)) = Len(q) + 1 /\ DOMAIN Append(q, x) = 1..(Len(q) + 1)
      /\ \A i \in DOMAIN q : Append(q, x)[i] = q[i]
      /\ Append(q, x)[Len(q) + 1] = x
  BY AppendProperties, LenProperties
<1>2. Range(Append(q, x)) = Range(q) \cup {x}
  BY RangeAppend
<1> QED BY <1>1, <1>2 DEF ToSet, Range

LEMMA TailElements ==
    ASSUME NEW S, NEW q \in Seq(S), q # << >>
    PROVE  /\ Head(q) \in S /\ Head(q) = q[1] /\ Tail(q) \in Seq(S)
           /\ Len(q) \in Nat \ {0} /\ Len(Tail(q)) = Len(q) - 1
           /\ DOMAIN q = 1..Len(q) /\ DOMAIN Tail(q) = 1..(Len(q) - 1)
           /\ \A i \in 1..(Len(q) - 1) : Tail(q)[i] = q[i + 1]
           /\ ToSet(q) = {Head(q)} \cup ToSet(Tail(q))
<1>1. /\ Head(q) \in S /\ Head(q) = q[1] /\ Tail(q) \in Seq(S)
      /\ Len(q) \in Nat \ {0} /\ Len(Tail(q)) = Len(q) - 1
      /\ DOMAIN q = 1..Len(q) /\ DOMAIN Tail(q) = 1..(Len(q) - 1)
      /\ \A i \in 1..(Len(q) - 1) : Tail(q)[i] = q[i + 1]
  BY HeadTailProperties, EmptySeq, LenProperties
<1>2. Range(q) = {Head(q)} \cup Range(Tail(q))
  BY RangeHeadTail
<1> QED BY <1>1, <1>2 DEF ToSet, Range

LEMMA ConcatElements ==
    ASSUME NEW S, NEW q \in Seq(S), NEW r \in Seq(S)
    PROVE  /\ q \o r \in Seq(S) /\ Len(q) \in Nat /\ Len(r) \in Nat
           /\ Len(q \o r) = Len(q) + Len(r)
           /\ DOMAIN q = 1..Len(q) /\ DOMAIN r = 1..Len(r)
           /\ DOMAIN (q \o r) = 1..(Len(q) + Len(r))
           /\ \A i \in 1..(Len(q) + Len(r)) :
                 (q \o r)[i] = IF i <= Len(q) THEN q[i] ELSE r[i - Len(q)]
           /\ ToSet(q \o r) = ToSet(q) \cup ToSet(r)
<1>1. /\ q \o r \in Seq(S) /\ Len(q) \in Nat /\ Len(r) \in Nat
      /\ Len(q \o r) = Len(q) + Len(r)
      /\ DOMAIN q = 1..Len(q) /\ DOMAIN r = 1..Len(r)
      /\ DOMAIN (q \o r) = 1..(Len(q) + Len(r))
      /\ \A i \in 1..(Len(q) + Len(r)) :
            (q \o r)[i] = IF i <= Len(q) THEN q[i] ELSE r[i - Len(q)]
  BY ConcatProperties, LenProperties
<1>2. Range(q \o r) = Range(q) \cup Range(r)
  BY RangeConcatenation
<1> QED BY <1>1, <1>2 DEF ToSet, Range

LEMMA FrontElements ==
    ASSUME NEW S, NEW q \in Seq(S), q # << >>
    PROVE  /\ Last(q) \in S /\ Last(q) = q[Len(q)] /\ Front(q) \in Seq(S)
           /\ Len(q) \in Nat \ {0} /\ Len(Front(q)) = Len(q) - 1
           /\ DOMAIN q = 1..Len(q) /\ DOMAIN Front(q) = 1..(Len(q) - 1)
           /\ \A i \in 1..(Len(q) - 1) : Front(q)[i] = q[i]
<1>1. /\ Len(q) \in Nat \ {0} /\ DOMAIN q = 1..Len(q) /\ \A i \in 1..Len(q) : q[i] \in S
  BY EmptySeq, LenProperties
<1>2. /\ Front(q) \in Seq(S) /\ Len(Front(q)) = Len(q) - 1
      /\ \A i \in 1..(Len(q) - 1) : Front(q)[i] = q[i]
  BY <1>1, SubSeqProperties DEF Front
<1> QED BY <1>1, <1>2, LenProperties DEF Last

-----------------------------------------------------------------------------
(* The stack of calls.                                                     *)

TD == Call("taskDone", 0)

LEMMA CallTypes ==
    /\ TD \in CallType /\ Call("flushRoot", 0) \in CallType /\ Call("fatalError", 0) \in CallType
    /\ \A f \in FlushCalls : Call(f, 0) \in CallType
    /\ \A b \in Boundaries \cup {Root} : Call("clear", b) \in CallType
    /\ \A f \in {"abortTask", "abortTaskSoft"}, s \in Segments : Call(f, s) \in CallType
    /\ \A f, x : Call(f, x).f = f /\ Call(f, x).x = x
    /\ \A c \in CallType : c = Call(c.f, c.x) /\ (AbortCall(c) => c.x \in Segments)
                           /\ (c.f = "clear" => c.x \in Boundaries \cup {Root})
                           /\ (c.f \notin {"clear", "abortTask", "abortTaskSoft"} => c.x = 0)
  BY DEF CallType, TD, Call, FlushCalls, AbortCall, Segments, Boundaries

LEMMA PushCall ==
    ASSUME NEW c \in CallType, NEW r \in Seq(CallType)
    PROVE  LET q == <<c>> \o r IN
           /\ q \in Seq(CallType) /\ q # << >> /\ q[1] = c
           /\ Len(r) \in Nat /\ DOMAIN r = 1..Len(r) /\ DOMAIN q = 1..(Len(r) + 1)
           /\ Len(q) = Len(r) + 1
           /\ \A i \in DOMAIN r : i + 1 \in DOMAIN q /\ q[i + 1] = r[i]
           /\ \A i \in DOMAIN q : i = 1 \/ (i - 1 \in DOMAIN r /\ q[i] = r[i - 1])
           /\ Count(q, TD) = Count(r, TD) + IF c = TD THEN 1 ELSE 0
           /\ Count(r, TD) \in Nat
<1>1. <<c>> \in Seq(CallType) /\ Len(<<c>>) = 1 /\ <<c>>[1] = c
  OBVIOUS
<1>2. Count(<<c>>, TD) = IF c = TD THEN 1 ELSE 0
  BY CountOne
<1>3. /\ Count(<<c>> \o r, TD) = Count(<<c>>, TD) + Count(r, TD)
      /\ Count(r, TD) \in Nat
  <2>1. Count(<<c>> \o r, TD) = Count(<<c>>, TD) + Count(r, TD)
    BY <1>1, CountConcat
  <2> QED BY <2>1, CountType
<1>4. /\ <<c>> \o r \in Seq(CallType) /\ Len(r) \in Nat /\ DOMAIN r = 1..Len(r)
      /\ Len(<<c>> \o r) = 1 + Len(r) /\ DOMAIN (<<c>> \o r) = 1..(1 + Len(r))
      /\ \A i \in 1..(1 + Len(r)) :
            (<<c>> \o r)[i] = IF i <= 1 THEN <<c>>[i] ELSE r[i - 1]
  BY <1>1, ConcatElements
<1> DEFINE q == <<c>> \o r
<1>5. q[1] = c
  BY <1>1, <1>4
<1>6. q # << >>
  BY <1>4
<1>7. Count(q, TD) = Count(r, TD) + IF c = TD THEN 1 ELSE 0
  BY <1>2, <1>3
<1> QED BY <1>3, <1>4, <1>5, <1>6, <1>7

LEMMA PopCall ==
    ASSUME NEW q \in Seq(CallType), q # << >>
    PROVE  LET r == Tail(q) IN
           /\ Head(q) \in CallType /\ r \in Seq(CallType) /\ q[1] = Head(q)
           /\ Len(r) \in Nat /\ DOMAIN r = 1..Len(r) /\ DOMAIN q = 1..(Len(r) + 1)
           /\ Len(q) = Len(r) + 1
           /\ \A i \in DOMAIN r : i + 1 \in DOMAIN q /\ q[i + 1] = r[i]
           /\ \A i \in DOMAIN q : i = 1 \/ (i - 1 \in DOMAIN r /\ q[i] = r[i - 1])
           /\ Count(q, TD) = Count(r, TD) + IF Head(q) = TD THEN 1 ELSE 0
           /\ Count(r, TD) \in Nat
<1>1. /\ Count(q, TD) = Count(Tail(q), TD) + IF Head(q) = TD THEN 1 ELSE 0
      /\ Count(Tail(q), TD) \in Nat
  BY CountTail
<1>2. /\ Head(q) \in CallType /\ Head(q) = q[1] /\ Tail(q) \in Seq(CallType)
      /\ Len(q) \in Nat \ {0} /\ Len(Tail(q)) = Len(q) - 1
      /\ DOMAIN q = 1..Len(q) /\ DOMAIN Tail(q) = 1..(Len(q) - 1)
      /\ \A i \in 1..(Len(q) - 1) : Tail(q)[i] = q[i + 1]
  BY TailElements
<1> QED BY <1>1, <1>2

LEMMA PushAll ==
    ASSUME NEW f \in {"abortTask", "abortTaskSoft"}, NEW order \in Seq(Segments),
           NEW r \in Seq(CallType)
    PROVE  LET q == CallAll(f, order) \o r
               n == Len(order) IN
           /\ CallAll(f, order) \in Seq(CallType)
           /\ q \in Seq(CallType) /\ n \in Nat
           /\ Len(r) \in Nat /\ DOMAIN r = 1..Len(r) /\ DOMAIN q = 1..(n + Len(r))
           /\ DOMAIN order = 1..n
           /\ \A i \in DOMAIN order : i \in DOMAIN q /\ q[i] = Call(f, order[i])
           /\ \A i \in DOMAIN r : n + i \in DOMAIN q /\ q[n + i] = r[i]
           /\ \A i \in DOMAIN q : i \in DOMAIN order \/ (i - n \in DOMAIN r /\ q[i] = r[i - n])
           /\ Count(q, TD) = Count(r, TD)
<1> DEFINE a == CallAll(f, order)
           n == Len(order)
<1>1. n \in Nat /\ DOMAIN order = 1..n /\ \A i \in 1..n : order[i] \in Segments
  BY LenProperties
<1>2. /\ a \in Seq(CallType) /\ Len(a) = n
      /\ \A i \in 1..n : a[i] = Call(f, order[i])
  <2>1. a = [i \in 1..n |-> Call(f, order[i])]
    BY <1>1 DEF CallAll
  <2>2. \A i \in 1..n : Call(f, order[i]) \in CallType
    BY <1>1, CallTypes
  <2> QED BY <1>1, <2>1, <2>2
<1>3. Count(a, TD) = 0
  <2>1. \A i \in DOMAIN a : a[i] # TD
    <3>1. \A x : Call(f, x) # TD
      BY DEF Call, TD
    <3> QED BY <1>2, <3>1
  <2> HIDE DEF a
  <2> QED BY <1>2, <2>1, CountType
<1>4. Count(a \o r, TD) = Count(a, TD) + Count(r, TD) /\ Count(r, TD) \in Nat
  <2>1. a \in Seq(CallType)
    BY <1>2
  <2> HIDE DEF a
  <2>2. Count(a \o r, TD) = Count(a, TD) + Count(r, TD)
    BY <2>1, CountConcat
  <2> QED BY <2>2, CountType
<1>5. /\ a \o r \in Seq(CallType) /\ Len(r) \in Nat /\ DOMAIN r = 1..Len(r)
      /\ DOMAIN (a \o r) = 1..(n + Len(r))
      /\ \A i \in 1..(n + Len(r)) : (a \o r)[i] = IF i <= n THEN a[i] ELSE r[i - n]
  <2>1. a \in Seq(CallType)
    BY <1>2
  <2> HIDE DEF a
  <2>2. /\ a \o r \in Seq(CallType) /\ Len(a) \in Nat /\ Len(r) \in Nat
        /\ DOMAIN r = 1..Len(r)
        /\ DOMAIN (a \o r) = 1..(Len(a) + Len(r))
        /\ \A i \in 1..(Len(a) + Len(r)) :
              (a \o r)[i] = IF i <= Len(a) THEN a[i] ELSE r[i - Len(a)]
    BY <2>1, ConcatElements
  <2> QED BY <1>2, <2>2
<1>6. Count(a \o r, TD) = Count(r, TD)
  <2> HIDE DEF a
  <2> QED BY <1>3, <1>4
<1> HIDE DEF a
<1> QED BY <1>1, <1>2, <1>5, <1>6 DEF a
-----------------------------------------------------------------------------
(* Steps that leave the tree, the queues and the client alone.             *)

treeVars == <<segmentVars, boundaryVars, client, wrappers, queueVars, opened>>

LEMMA Sets ==
    /\ IsFiniteSet(Segments) /\ IsFiniteSet(Live) /\ IsFiniteSet(Boundaries \cup {Root})
    /\ \A T \in SUBSET Segments : IsFiniteSet(T) /\ Cardinality(T) \in Nat
    /\ Cardinality(Live) \in Nat
    /\ \A b : IsFiniteSet(BlockedBy(b)) /\ Cardinality(BlockedBy(b)) \in Nat
<1>1. MaxSegments \in Nat \ {0} /\ MaxBoundaries \in Nat
  BY FizzAssumption
<1>2. IsFiniteSet(Segments) /\ IsFiniteSet(Boundaries)
  BY <1>1, FS_Interval DEF Segments, Boundaries
<1>3. \A T \in SUBSET Segments : IsFiniteSet(T) /\ Cardinality(T) \in Nat
  BY <1>2, FS_Subset, FS_CardinalityType
<1>4. Live \in SUBSET Segments /\ \A b : BlockedBy(b) \in SUBSET Segments
  BY DEF Live, BlockedBy
<1>5. IsFiniteSet(Boundaries \cup {Root})
  BY <1>2, FS_AddElement
<1> QED BY <1>2, <1>3, <1>4, <1>5

(* The stream is closed when nothing runs.                                 *)
LEMMA ClosedState ==
    ASSUME Inv, ended = "closed"
    PROVE  /\ Live = {} /\ Count(calls, TD) = 0 /\ allPendingTasks = 0
           /\ requestStatus = "OPEN"
           /\ clientRenderedBoundaries = << >> /\ completedBoundaries = << >>
           /\ \A i \in DOMAIN calls : calls[i] # TD /\ ~AbortCall(calls[i])
           /\ running = NoTask
<1>1. /\ allPendingTasks = 0 /\ requestStatus = "OPEN"
      /\ clientRenderedBoundaries = << >> /\ completedBoundaries = << >>
  BY DEF Inv, FlowState
<1>2. calls \in Seq(CallType) /\ Count(calls, TD) \in Nat
  BY CountType DEF Inv
<1>3. Cardinality(Live) = 0 /\ Count(calls, TD) = 0
  BY <1>1, <1>2, Sets DEF Inv, CountState, TD
<1>4. Live = {}
  BY <1>3, Sets, FS_EmptySet
<1>5. \A i \in DOMAIN calls : calls[i] # TD
  BY <1>2, <1>3, CountType
<1>6. \A i \in DOMAIN calls : ~AbortCall(calls[i])
  BY <1>4 DEF Inv, Placed, StackState
<1>7. running = NoTask
  BY <1>4 DEF Inv, RunState
<1> QED BY <1>1, <1>3, <1>4, <1>5, <1>6, <1>7

(* Between two tasks, and when the call on top is none of a flush, there   *)
(* is no call of a flush.                                                  *)
Quiet(q) == \A i \in DOMAIN q : q[i].f \notin FlushCalls \cup {"fatalError"}

LEMMA QuietRest ==
    ASSUME Inv, calls # << >>, Head(calls).f \notin FlushCalls \cup {"fatalError"}
    PROVE  Quiet(Tail(calls)) /\ Quiet(calls)
<1>1. calls \in Seq(CallType)
  BY DEF Inv
<1>2. /\ Len(Tail(calls)) \in Nat /\ DOMAIN Tail(calls) = 1..Len(Tail(calls))
      /\ DOMAIN calls = 1..(Len(Tail(calls)) + 1) /\ calls[1] = Head(calls)
      /\ \A i \in DOMAIN Tail(calls) : i + 1 \in DOMAIN calls /\ calls[i + 1] = Tail(calls)[i]
  BY <1>1, PopCall
<1>3. \A i \in DOMAIN calls : calls[i].f \notin FlushCalls \cup {"fatalError"}
  <2>1. ASSUME NEW i \in DOMAIN calls, calls[i].f \in FlushCalls PROVE FALSE
    BY <1>2, <2>1 DEF Inv, FlowState
  <2>2. ASSUME NEW i \in DOMAIN calls, calls[i].f = "fatalError" PROVE FALSE
    BY <1>2, <2>2 DEF Inv, FlowState, FlushCalls
  <2> QED BY <2>1, <2>2
<1> QED BY <1>2, <1>3 DEF Quiet

LEMMA FlowQuiet ==
    ASSUME Quiet(calls)', flowing' => requestStatus' = "OPEN" \/ ended' # "no",
           ended' = "closed" =>
              /\ requestStatus' = "OPEN" /\ allPendingTasks' = 0
              /\ clientRenderedBoundaries' = << >> /\ completedBoundaries' = << >>
              /\ segment'[RootSegment].status = "FLUSHED"
    PROVE  FlowState'
  BY DEF FlowState, Quiet, FlushCalls

LEMMA QuietClosed ==
    ASSUME Inv, Quiet(calls), ended = "closed"
    PROVE  segment[RootSegment].status = "FLUSHED"
  BY DEF Inv, FlowState, Quiet

(* The calls of an abort stay in their order.                              *)
Matters(c) == AbortCall(c) \/ c.f = "clear"

LEMMA StackShift ==
    ASSUME NEW rank, StackState(rank), NEW d \in Int,
           DOMAIN calls \subseteq Int, (DOMAIN calls)' \subseteq Int,
           \A i \in DOMAIN calls' : Matters(calls'[i]) =>
              i + d \in DOMAIN calls /\ calls[i + d] = calls'[i],
           \A i \in DOMAIN calls' : AbortCall(calls'[i]) =>
              /\ calls'[i].x \in Live'
              /\ segment'[calls'[i].x].abortSet = segment[calls'[i].x].abortSet,
           Complete \subseteq Complete'
    PROVE  StackState(rank)'
<1> SUFFICES ASSUME NEW i \in DOMAIN calls', AbortCall(calls'[i])
             PROVE  /\ calls'[i].x \in Live'
                    /\ \A j \in DOMAIN calls' :
                          AbortCall(calls'[j]) /\ calls'[j].x = calls'[i].x => j = i
                    /\ \A j \in DOMAIN calls' : j > i /\ calls'[j].f = "clear" =>
                          rank[calls'[j].x] <= rank[segment'[calls'[i].x].abortSet]
                    /\ calls'[i].f = "abortTaskSoft" =>
                          segment'[calls'[i].x].abortSet \in Complete'
  BY DEF StackState, AbortCall
<1>1. /\ i + d \in DOMAIN calls /\ calls[i + d] = calls'[i] /\ AbortCall(calls[i + d])
      /\ i \in Int /\ i + d \in Int
  BY DEF Matters, AbortCall
<1>2. ASSUME NEW j \in DOMAIN calls', AbortCall(calls'[j]), calls'[j].x = calls'[i].x
      PROVE  j = i
  <2>1. j + d \in DOMAIN calls /\ calls[j + d] = calls'[j] /\ AbortCall(calls[j + d]) /\ j \in Int
    BY <1>2 DEF Matters, AbortCall
  <2>2. j + d = i + d
    <3>1. AbortCall(calls[i + d]) /\ AbortCall(calls[j + d]) /\ calls[j + d].x = calls[i + d].x
      BY <1>1, <1>2, <2>1
    <3> QED BY <1>1, <2>1, <3>1 DEF StackState
  <2>3. j \in Int /\ d \in Int /\ i \in Int
    BY <1>1, <2>1
  <2>4. \A x, y, z \in Int : x + z = y + z => x = y
    OBVIOUS
  <2> QED BY <2>2, <2>3, <2>4, Zenon
<1>3. ASSUME NEW j \in DOMAIN calls', j > i, calls'[j].f = "clear"
      PROVE  rank[calls'[j].x] <= rank[segment'[calls'[i].x].abortSet]
  <2>1. j + d \in DOMAIN calls /\ calls[j + d] = calls'[j] /\ j \in Int
    BY <1>3 DEF Matters
  <2>2. j + d > i + d
    BY <1>1, <1>3, <2>1
  <2>3. rank[calls[j + d].x] <= rank[segment[calls[i + d].x].abortSet]
    BY <1>1, <1>3, <2>1, <2>2 DEF StackState
  <2> QED BY <1>1, <2>1, <2>3
<1>4. ASSUME calls'[i].f = "abortTaskSoft"
      PROVE  segment'[calls'[i].x].abortSet \in Complete'
  BY <1>1, <1>4 DEF StackState
<1> QED BY <1>2, <1>3, <1>4
LEMMA SetShift ==
    ASSUME SetState, UNCHANGED <<segment, suspense>>,
           \A i \in DOMAIN calls' : AbortCall(calls'[i]) =>
              \E j \in DOMAIN calls : calls[j] = calls'[i],
           \A i \in DOMAIN calls : calls[i].f = "clear" =>
              \E j \in DOMAIN calls' : calls'[j] = calls[i]
    PROVE  SetState'
<1> SUFFICES ASSUME NEW a \in Boundaries \cup {Root},
                    NEW s \in suspense[a].fallbackAbortableTasks
             PROVE  /\ segment[s].task /\ segment[s].abortSet = a
                    /\ \/ s \in Live /\ \A i \in DOMAIN calls' : AbortCall(calls'[i]) => calls'[i].x # s
                       \/ \E i \in DOMAIN calls' : calls'[i] = Call("clear", a)
  BY DEF SetState, Live, AbortCall
<1>1. segment[s].task /\ segment[s].abortSet = a
  BY DEF SetState
<1>2. CASE s \in Live /\ \A i \in DOMAIN calls : AbortCall(calls[i]) => calls[i].x # s
  BY <1>1, <1>2
<1>3. CASE \E i \in DOMAIN calls : calls[i] = Call("clear", a)
  <2>1. PICK i \in DOMAIN calls : calls[i] = Call("clear", a)
    BY <1>3
  <2>2. calls[i].f = "clear"
    BY <2>1 DEF Call
  <2> QED BY <1>1, <2>1, <2>2
<1> QED BY <1>1, <1>2, <1>3 DEF SetState

LEMMA TypeFrame ==
    ASSUME TypeOK, UNCHANGED treeVars,
           allPendingTasks' \in Nat, pingedTasks' \in Seq(Segments),
           requestStatus' \in {"OPEN", "CLOSING", "CLOSED"}, flowing' \in BOOLEAN,
           next' \in Nat, running' \in Segments \cup {NoTask}, started' \in BOOLEAN,
           scheduled' \in Nat, piped' \in BOOLEAN, aborted' \in BOOLEAN,
           ended' \in {"no", "closed", "error", "aborted"}, thrown' \in BOOLEAN,
           retries' \in 0..MaxRetries
    PROVE  TypeOK'
  BY DEF TypeOK, treeVars, segmentVars, boundaryVars, queueVars

LEMMA ControlFrame ==
    ASSUME Inv, UNCHANGED treeVars, TypeOK', calls' \in Seq(CallType),
           requestStatus' = "OPEN" => requestStatus = "OPEN",
           running' # NoTask => running' \in Live /\ calls' = << >>,
           opened # << >> => running' = running /\ started',
           \A i \in DOMAIN pingedTasks' : segment[pingedTasks'[i]].task,
           allPendingTasks' + Count(calls, TD) = allPendingTasks + Count(calls', TD),
           \A rank \in Ranks : StackState(rank) => StackState(rank)',
           SetState', FlowState'
    PROVE  Inv'
<1> USE DEF treeVars, segmentVars, boundaryVars, queueVars
<1>1. SegmentTree' /\ BoundaryTree'
  BY DEF Inv, SegmentTree, BoundaryTree
<1>2. Live' = Live /\ Complete' = Complete /\ Shown' = Shown /\ Reached' = Reached
      /\ Written' = Written /\ \A b : BlockedBy(b)' = BlockedBy(b)
  BY DEF Live, Complete, Shown, Reached, Written, BlockedBy
<1>3. RunState'
  BY <1>2 DEF Inv, RunState
<1>4. OpenState'
  <2>1. CASE opened = << >>
    BY <2>1 DEF OpenState
  <2>2. CASE opened # << >>
    BY <2>2 DEF Inv, OpenState
  <2> QED BY <2>1, <2>2
<1>5. CountState'
  <2>1. /\ Count(calls, TD) \in Nat /\ Count(calls', TD) \in Nat
        /\ Cardinality(Live) \in Nat /\ allPendingTasks \in Nat /\ allPendingTasks' \in Nat
    BY CountType, Sets DEF Inv, TypeOK
  <2>2. /\ Live' = Live /\ suspense' = suspense /\ segment' = segment
        /\ \A b : BlockedBy(b)' = BlockedBy(b)
    BY <1>2 DEF treeVars, segmentVars
  <2>3. allPendingTasks = Cardinality(Live) + Count(calls, TD)
    BY DEF Inv, CountState, TD
  <2>4. allPendingTasks' = Cardinality(Live) + Count(calls', TD)
    BY <2>1, <2>3
  <2>5. /\ \A b \in Boundaries : suspense[b].pendingTasks = Cardinality(BlockedBy(b))
        /\ suspense[Root].pendingTasks >= Cardinality(BlockedBy(Root))
        /\ requestStatus = "OPEN" => suspense[Root].pendingTasks = Cardinality(BlockedBy(Root))
        /\ segment[RootSegment].status \in {"ABORTED", "ERRORED"} =>
              suspense[Root].pendingTasks > Cardinality(BlockedBy(Root))
    BY DEF Inv, CountState
  <2> QED BY <2>2, <2>4, <2>5, Zenon DEF CountState, TD
<1>6. Placed'
  <2>1. PICK place \in Places : /\ PlaceOf(place)
                                /\ StackState(place.rank)
                                /\ ShownState(place.home, place.reg)
    BY DEF Inv, Placed
  <2>2. PlaceOf(place)'
    <3>1. CASE opened = << >>
      BY <2>1, <3>1 DEF PlaceOf
    <3>2. CASE opened # << >>
      BY <2>1, <3>2 DEF PlaceOf
    <3> QED BY <3>1, <3>2
  <2>3. StackState(place.rank)'
    BY <2>1 DEF Places
  <2>4. ShownState(place.home, place.reg)'
    BY <1>2, <2>1 DEF ShownState
  <2> QED BY <2>2, <2>3, <2>4, Zenon DEF Placed
<1>7. ClientState' /\ QueuedOnce'
  <2>1. ClientState'
    BY <1>2 DEF Inv, ClientState
  <2>2. QueuedOnce'
    BY DEF Inv, QueuedOnce, ShownTwice
  <2> QED BY <2>1, <2>2
<1>8. RootState' /\ ReadyState' /\ OverState'
  <2>1. RootState'
    BY DEF Inv, RootState
  <2>2. ReadyState'
    BY <1>2 DEF Inv, ReadyState
  <2>3. OverState'
    BY <1>2 DEF Inv, OverState
  <2> QED BY <2>1, <2>2, <2>3
<1> QED BY <1>1, <1>3, <1>4, <1>5, <1>6, <1>7, <1>8, Zenon DEF Inv

(* The calls of an abort are the same in q and r.                          *)
SameMatters(q, r, d) ==
    /\ d \in Int /\ DOMAIN q \subseteq Int /\ DOMAIN r \subseteq Int
    /\ \A i \in DOMAIN r : Matters(r[i]) => i + d \in DOMAIN q /\ q[i + d] = r[i]
    /\ \A i \in DOMAIN q : Matters(q[i]) => i - d \in DOMAIN r /\ r[i - d] = q[i]

LEMMA MattersPop ==
    ASSUME NEW q \in Seq(CallType), q # << >>, ~Matters(Head(q))
    PROVE  SameMatters(q, Tail(q), 1)
<1> DEFINE r == Tail(q)
<1>1. /\ q[1] = Head(q) /\ Len(r) \in Nat /\ DOMAIN r = 1..Len(r) /\ DOMAIN q = 1..(Len(r) + 1)
      /\ \A i \in DOMAIN r : i + 1 \in DOMAIN q /\ q[i + 1] = r[i]
      /\ \A i \in DOMAIN q : i = 1 \/ (i - 1 \in DOMAIN r /\ q[i] = r[i - 1])
  BY PopCall
<1>2. \A i \in DOMAIN q : Matters(q[i]) => i - 1 \in DOMAIN r /\ r[i - 1] = q[i]
  BY <1>1
<1> QED BY <1>1, <1>2 DEF SameMatters

LEMMA MattersPush ==
    ASSUME NEW c \in CallType, ~Matters(c), NEW r \in Seq(CallType)
    PROVE  SameMatters(r, <<c>> \o r, -1)
<1> DEFINE q == <<c>> \o r
<1>1. /\ q[1] = c /\ Len(r) \in Nat /\ DOMAIN r = 1..Len(r) /\ DOMAIN q = 1..(Len(r) + 1)
      /\ \A i \in DOMAIN r : i + 1 \in DOMAIN q /\ q[i + 1] = r[i]
      /\ \A i \in DOMAIN q : i = 1 \/ (i - 1 \in DOMAIN r /\ q[i] = r[i - 1])
  BY PushCall
<1> HIDE DEF q
<1>2. \A i \in DOMAIN q : Matters(q[i]) => i - 1 \in DOMAIN r /\ r[i - 1] = q[i]
  BY <1>1
<1>3. \A i \in Int : i + (-1) = i - 1 /\ i - (-1) = i + 1
  OBVIOUS
<1>4. DOMAIN q \subseteq Int /\ DOMAIN r \subseteq Int
  BY <1>1
<1>5. SameMatters(r, q, -1)
  BY <1>1, <1>2, <1>3, <1>4 DEF SameMatters
<1> QED BY <1>5 DEF q

LEMMA MattersTrans ==
    ASSUME NEW q, NEW r, NEW s, NEW d, NEW e, SameMatters(q, r, d), SameMatters(r, s, e)
    PROVE  SameMatters(q, s, d + e)
<1>1. d \in Int /\ e \in Int /\ DOMAIN q \subseteq Int /\ DOMAIN s \subseteq Int
  BY DEF SameMatters
<1>2. ASSUME NEW i \in DOMAIN s, Matters(s[i])
      PROVE  i + (d + e) \in DOMAIN q /\ q[i + (d + e)] = s[i]
  <2>1. i \in Int /\ i + e \in DOMAIN r /\ r[i + e] = s[i] /\ Matters(r[i + e])
    BY <1>1, <1>2 DEF SameMatters
  <2>2. (i + e) + d \in DOMAIN q /\ q[(i + e) + d] = s[i]
    BY <2>1 DEF SameMatters
  <2>3. (i + e) + d = i + (d + e)
    BY <1>1, <2>1
  <2> QED BY <2>2, <2>3
<1>3. ASSUME NEW i \in DOMAIN q, Matters(q[i])
      PROVE  i - (d + e) \in DOMAIN s /\ s[i - (d + e)] = q[i]
  <2>1. i \in Int /\ i - d \in DOMAIN r /\ r[i - d] = q[i] /\ Matters(r[i - d])
    BY <1>1, <1>3 DEF SameMatters
  <2>2. (i - d) - e \in DOMAIN s /\ s[(i - d) - e] = q[i]
    BY <2>1 DEF SameMatters
  <2>3. (i - d) - e = i - (d + e)
    BY <1>1, <2>1
  <2> QED BY <2>2, <2>3
<1> QED BY <1>1, <1>2, <1>3 DEF SameMatters

LEMMA MattersNone ==
    ASSUME NEW q \in Seq(CallType), NEW r \in Seq(CallType),
           \A i \in DOMAIN q : ~Matters(q[i]), \A i \in DOMAIN r : ~Matters(r[i])
    PROVE  SameMatters(q, r, 0)
<1>1. DOMAIN q \subseteq Int /\ DOMAIN r \subseteq Int
  <2>1. Len(q) \in Nat /\ Len(r) \in Nat /\ DOMAIN q = 1..Len(q) /\ DOMAIN r = 1..Len(r)
    BY LenProperties
  <2> QED BY <2>1
<1> QED BY <1>1 DEF SameMatters

LEMMA StackKept ==
    ASSUME NEW d, SameMatters(calls, calls', d), Inv,
           UNCHANGED <<segment, suspense>>, Complete' = Complete
    PROVE  (\A rank \in Ranks : StackState(rank) => StackState(rank)') /\ SetState'
<1>1. ASSUME NEW rank \in Ranks, StackState(rank) PROVE StackState(rank)'
  <2>1. Live' = Live
    BY DEF Live
  <2>2. \A i \in DOMAIN calls' : Matters(calls'[i]) =>
           i + d \in DOMAIN calls /\ calls[i + d] = calls'[i]
    BY DEF SameMatters
  <2>3. \A i \in DOMAIN calls' : AbortCall(calls'[i]) => calls'[i].x \in Live
    BY <1>1, <2>2 DEF StackState, Matters
  <2>4. d \in Int /\ DOMAIN calls \subseteq Int /\ DOMAIN calls' \subseteq Int
    BY DEF SameMatters
  <2> QED BY <1>1, <2>1, <2>2, <2>3, <2>4, StackShift
<1>2. SetState'
  <2>1. \A i \in DOMAIN calls' : AbortCall(calls'[i]) =>
           \E j \in DOMAIN calls : calls[j] = calls'[i]
    BY DEF SameMatters, Matters
  <2>2. \A i \in DOMAIN calls : calls[i].f = "clear" =>
           \E j \in DOMAIN calls' : calls'[j] = calls[i]
    BY DEF SameMatters, Matters
  <2>3. SetState
    BY DEF Inv
  <2> QED BY <2>1, <2>2, <2>3, SetShift
<1> QED BY <1>1, <1>2

LEMMA EmptyCalls == << >> \in Seq(CallType) /\ Count(<< >>, TD) = 0 /\ DOMAIN << >> = {}
  BY CountEmpty

LEMMA Pop ==
    ASSUME Inv, calls # << >>
    PROVE  /\ Rest \in Seq(CallType) /\ Head(calls) \in CallType
           /\ Count(calls, TD) = Count(Rest, TD) + IF Head(calls) = TD THEN 1 ELSE 0
           /\ Count(Rest, TD) \in Nat
           /\ ~Matters(Head(calls)) => SameMatters(calls, Rest, 1)
           /\ Head(calls) = Call(Head(calls).f, Head(calls).x)
<1>1. calls \in Seq(CallType)
  BY DEF Inv
<1> QED BY <1>1, PopCall, MattersPop, CallTypes DEF Rest

LEMMA Push ==
    ASSUME NEW c \in CallType, NEW q, NEW r \in Seq(CallType), ~Matters(c),
           NEW d, SameMatters(q, r, d)
    PROVE  /\ <<c>> \o r \in Seq(CallType)
           /\ Count(<<c>> \o r, TD) = Count(r, TD) + IF c = TD THEN 1 ELSE 0
           /\ SameMatters(q, <<c>> \o r, d + (-1))
<1>1. SameMatters(r, <<c>> \o r, -1)
  BY MattersPush
<1>2. SameMatters(q, <<c>> \o r, d + (-1))
  <2> DEFINE s == <<c>> \o r
  <2>1. SameMatters(r, s, -1)
    BY <1>1
  <2> HIDE DEF s
  <2>2. SameMatters(q, s, d + (-1))
    BY <2>1, MattersTrans
  <2> QED BY <2>2 DEF s
<1> QED BY <1>2, PushCall

(* What startFlowing and the callbacks do.                                 *)
Piping(rest) ==
    \/ calls' = rest /\ UNCHANGED <<requestStatus, flowing, ended>>
    \/ /\ calls' = rest /\ requestStatus # "OPEN" /\ requestStatus' = "CLOSED"
       /\ ended' = "error" /\ UNCHANGED flowing
    \/ /\ calls' = Flush \o rest /\ requestStatus = "OPEN" /\ flowing' = TRUE
       /\ UNCHANGED <<requestStatus, ended>>

LEMMA PipingOf ==
    ASSUME NEW rest
    PROVE  /\ StartFlowing(rest) => Piping(rest)
           /\ \A called : TypeOK /\ Callback(called, rest) =>
                 Piping(rest) /\ piped' \in BOOLEAN
  BY DEF StartFlowing, Callback, Piping, TypeOK

LEMMA PipingEffect ==
    ASSUME NEW rest \in Seq(CallType), Piping(rest), TypeOK,
           flowing => requestStatus = "OPEN" \/ ended # "no"
    PROVE  /\ calls' \in Seq(CallType) /\ Count(calls', TD) = Count(rest, TD)
           /\ \A q, d : SameMatters(q, rest, d) => \E e : SameMatters(q, calls', e)
           /\ Quiet(rest) => Quiet(calls)'
           /\ requestStatus' \in {"OPEN", "CLOSING", "CLOSED"} /\ flowing' \in BOOLEAN
           /\ ended' \in {"no", "closed", "error", "aborted"}
           /\ requestStatus' = "OPEN" <=> requestStatus = "OPEN"
           /\ flowing' => requestStatus' = "OPEN" \/ ended' # "no"
           /\ ended' = "closed" => ended = "closed" /\ requestStatus' = requestStatus
<1>1. /\ requestStatus' \in {"OPEN", "CLOSING", "CLOSED"} /\ flowing' \in BOOLEAN
      /\ ended' \in {"no", "closed", "error", "aborted"}
      /\ requestStatus' = "OPEN" <=> requestStatus = "OPEN"
      /\ flowing' => requestStatus' = "OPEN" \/ ended' # "no"
      /\ ended' = "closed" => ended = "closed" /\ requestStatus' = requestStatus
  <2>1. /\ requestStatus \in {"OPEN", "CLOSING", "CLOSED"} /\ flowing \in BOOLEAN
        /\ ended \in {"no", "closed", "error", "aborted"}
    BY DEF TypeOK
  <2>2. CASE UNCHANGED <<requestStatus, flowing, ended>>
    BY <2>1, <2>2
  <2>3. CASE /\ requestStatus # "OPEN" /\ requestStatus' = "CLOSED"
             /\ ended' = "error" /\ UNCHANGED flowing
    BY <2>1, <2>3
  <2>4. CASE requestStatus = "OPEN" /\ flowing' = TRUE /\ UNCHANGED <<requestStatus, ended>>
    BY <2>1, <2>4
  <2> QED BY <2>2, <2>3, <2>4 DEF Piping
<1>2. CASE calls' = rest
  <2>1. \A q, d : SameMatters(q, rest, d) => \E e : SameMatters(q, calls', e)
    BY <1>2
  <2>2. calls' \in Seq(CallType) /\ Count(calls', TD) = Count(rest, TD)
    BY <1>2
  <2>3. Quiet(rest) => Quiet(calls)'
    BY <1>2 DEF Quiet
  <2> QED BY <1>1, <2>1, <2>2, <2>3
<1>3. CASE calls' = Flush \o rest
  <2> DEFINE c == Call("flushRoot", 0)
  <2>1. calls' = <<c>> \o rest /\ c \in CallType /\ ~Matters(c) /\ c # TD
        /\ c.f = "flushRoot"
    BY <1>3, CallTypes DEF Flush, Matters, AbortCall, TD, Call
  <2>2. \A q, d : SameMatters(q, rest, d) => \E e : SameMatters(q, calls', e)
    <3> SUFFICES ASSUME NEW q, NEW d, SameMatters(q, rest, d)
                 PROVE  \E e : SameMatters(q, calls', e)
      OBVIOUS
    <3> HIDE DEF c
    <3>1. SameMatters(q, <<c>> \o rest, d + (-1))
      BY <2>1, Push
    <3> QED BY <2>1, <3>1
  <2> HIDE DEF c
  <2>3. /\ <<c>> \o rest \in Seq(CallType) /\ Count(<<c>> \o rest, TD) = Count(rest, TD)
        /\ (<<c>> \o rest)[1] = c
        /\ \A i \in DOMAIN (<<c>> \o rest) :
              i = 1 \/ (i - 1 \in DOMAIN rest /\ (<<c>> \o rest)[i] = rest[i - 1])
    BY <2>1, PushCall
  <2>4. Quiet(rest) => Quiet(calls)'
    BY <2>1, <2>3 DEF Quiet, FlushCalls
  <2> QED BY <1>1, <2>1, <2>2, <2>3, <2>4
<1> QED BY <1>2, <1>3 DEF Piping

LEMMA ControlStack ==
    ASSUME Inv, UNCHANGED treeVars, TypeOK', calls' \in Seq(CallType),
           requestStatus' = "OPEN" => requestStatus = "OPEN",
           running' # NoTask => running' \in Live /\ calls' = << >>,
           opened # << >> => running' = running /\ started',
           \A i \in DOMAIN pingedTasks' : segment[pingedTasks'[i]].task,
           allPendingTasks' + Count(calls, TD) = allPendingTasks + Count(calls', TD),
           \E d : SameMatters(calls, calls', d), FlowState'
    PROVE  Inv'
<1>1. UNCHANGED <<segment, suspense>> /\ Complete' = Complete
  BY DEF treeVars, segmentVars, boundaryVars, Complete
<1>2. (\A rank \in Ranks : StackState(rank) => StackState(rank)') /\ SetState'
  BY <1>1, StackKept
<1> QED BY <1>2, ControlFrame

(* What holds while there are calls on the stack, and in between.          *)
LEMMA WithCalls ==
    ASSUME Inv, calls # << >>
    PROVE  running = NoTask /\ opened = << >>
  BY DEF Inv, RunState

LEMMA NoCalls ==
    ASSUME Inv, calls = << >>
    PROVE  /\ Quiet(calls) /\ Count(calls, TD) = 0 /\ DOMAIN calls = {}
           /\ allPendingTasks = Cardinality(Live)
  <1>1. DOMAIN calls = {} /\ Count(calls, TD) = 0
    BY EmptyCalls
  <1>2. Cardinality(Live) \in Nat /\ allPendingTasks = Cardinality(Live) + Count(calls, TD)
    BY Sets DEF Inv, CountState, TD
  <1> QED BY <1>1, <1>2 DEF Quiet

LEMMA UncountTaskStep ==
    ASSUME Inv, UncountTask
    PROVE  Inv'
<1>1. /\ calls # << >> /\ Head(calls).f = "taskDone"
      /\ allPendingTasks' = allPendingTasks - 1 /\ UNCHANGED treeVars
      /\ UNCHANGED <<pingedTasks, thrown, next, running, started, retries, scheduled, aborted>>
  BY DEF UncountTask, Calls, treeVars, renderVars
<1>2. Piping(Rest) /\ piped' \in BOOLEAN
  BY PipingOf DEF UncountTask, Inv
<1>3. /\ Rest \in Seq(CallType) /\ Head(calls) \in CallType /\ Head(calls) = TD
      /\ Count(calls, TD) = Count(Rest, TD) + 1
      /\ Count(Rest, TD) \in Nat
      /\ SameMatters(calls, Rest, 1)
  <2>1. Head(calls) \in CallType /\ ~Matters(Head(calls))
    BY <1>1, Pop DEF Matters, AbortCall
  <2>2. Head(calls) = TD
    BY <1>1, <2>1, CallTypes DEF TD, CallType, Call
  <2> QED BY <1>1, <2>1, <2>2, Pop
<1>4. Quiet(Rest) /\ Quiet(calls)
  BY <1>1, QuietRest DEF FlushCalls, Rest
<1>5. /\ calls' \in Seq(CallType) /\ Count(calls', TD) = Count(Rest, TD)
      /\ \E e : SameMatters(calls, calls', e)
      /\ Quiet(calls)'
      /\ requestStatus' \in {"OPEN", "CLOSING", "CLOSED"} /\ flowing' \in BOOLEAN
      /\ ended' \in {"no", "closed", "error", "aborted"}
      /\ requestStatus' = "OPEN" <=> requestStatus = "OPEN"
      /\ flowing' => requestStatus' = "OPEN" \/ ended' # "no"
      /\ ended' = "closed" => ended = "closed" /\ requestStatus' = requestStatus
  BY <1>2, <1>3, <1>4, PipingEffect DEF Inv, FlowState
<1>6. allPendingTasks = Cardinality(Live) + Count(calls, TD) /\ Cardinality(Live) \in Nat
  BY Sets DEF Inv, CountState, TD
<1>7. ended' # "closed"
  BY <1>3, <1>5, ClosedState
<1>8. FlowState'
  BY <1>5, <1>7, FlowQuiet
<1>9. TypeOK'
  <2>1. allPendingTasks' \in Nat
    BY <1>1, <1>3, <1>6
  <2> QED BY <1>1, <1>2, <1>5, <2>1, TypeFrame DEF Inv, TypeOK
<1>10. running' = NoTask /\ opened = << >>
  BY <1>1, WithCalls
<1>11. \A i \in DOMAIN pingedTasks' : segment[pingedTasks'[i]].task
  BY <1>1 DEF Inv, RunState
<1>12. allPendingTasks' + Count(calls, TD) = allPendingTasks + Count(calls', TD)
  BY <1>1, <1>3, <1>5, <1>6
<1> QED BY <1>1, <1>5, <1>8, <1>9, <1>10, <1>11, <1>12, ControlStack

LEMMA PerformWorkStep ==
    ASSUME Inv, PerformWork \/ RetryTask \/ FinishWork
    PROVE  Inv'
<1>1. /\ calls = << >> /\ running = NoTask /\ opened = << >> /\ UNCHANGED treeVars
      /\ UNCHANGED <<allPendingTasks, requestStatus, flowing, ended, thrown, retries, userVars>>
  <2>1. calls = << >> /\ running = NoTask /\ opened = << >>
    BY DEF PerformWork, RetryTask, FinishWork, Idle, Inv, RunState
  <2>2. CASE PerformWork
    BY <2>1, <2>2 DEF PerformWork, treeVars, renderVars, outVars
  <2>3. CASE RetryTask
    BY <2>1, <2>3 DEF RetryTask, treeVars, outVars
  <2>4. CASE FinishWork
    BY <2>1, <2>4 DEF FinishWork, treeVars, renderVars, outVars
  <2> QED BY <2>1, <2>2, <2>3, <2>4
<1>2. calls' \in Seq(CallType) /\ Count(calls', TD) = 0 /\ Quiet(calls)'
      /\ \E d : SameMatters(calls, calls', d)
  <2>1. << >> \in Seq(CallType) /\ Count(<< >>, TD) = 0 /\ DOMAIN << >> = {}
    BY EmptyCalls
  <2>2. SameMatters(<< >>, << >>, 0)
    BY <2>1, MattersNone
  <2>3. CASE calls' = << >>
    BY <1>1, <2>1, <2>2, <2>3 DEF Quiet
  <2>4. CASE FinishWork
    <3> DEFINE c == Call("flushRoot", 0)
    <3>2. c \in CallType /\ ~Matters(c) /\ c # TD /\ c.f = "flushRoot"
      BY CallTypes DEF Matters, AbortCall, TD, Call
    <3>3. calls' = <<c>>
      BY <2>4 DEF FinishWork, Flush
    <3> HIDE DEF c
    <3>4. <<c>> \in Seq(CallType) /\ DOMAIN <<c>> = {1} /\ <<c>>[1] = c
      BY <3>2
    <3>5. Count(<<c>>, TD) = 0
      BY <3>2, CountOne
    <3>6. SameMatters(<< >>, <<c>>, 0)
      BY <2>1, <3>2, <3>4, MattersNone
    <3>7. Quiet(calls)'
      BY <3>2, <3>3, <3>4 DEF Quiet, FlushCalls
    <3> QED BY <1>1, <3>3, <3>4, <3>5, <3>6, <3>7
  <2> QED BY <1>1, <2>3, <2>4 DEF PerformWork, RetryTask
<1>3. running' # NoTask => running' \in Live /\ calls' = << >>
  <2>1. CASE RetryTask
    <3>1. calls' = << >>
      BY <1>1, <2>1 DEF RetryTask
    <3>2. next \in DOMAIN pingedTasks /\ pingedTasks[next] \in Segments
      <4>1. pingedTasks \in Seq(Segments) /\ next \in Nat
        BY DEF Inv, TypeOK
      <4>2. DOMAIN pingedTasks = 1..Len(pingedTasks) /\ Len(pingedTasks) \in Nat
            /\ \A i \in 1..Len(pingedTasks) : pingedTasks[i] \in Segments
        BY <4>1, LenProperties
      <4> QED BY <2>1, <4>1, <4>2 DEF RetryTask
    <3>3. running' = IF segment[pingedTasks[next]].status = "PENDING"
                     THEN pingedTasks[next] ELSE NoTask
      BY <2>1 DEF RetryTask
    <3> QED BY <3>1, <3>2, <3>3 DEF Live, Inv, RunState
  <2> QED BY <1>1, <2>1 DEF PerformWork, FinishWork, renderVars
<1>4. \A i \in DOMAIN pingedTasks' : segment[pingedTasks'[i]].task
  <2>1. pingedTasks' = pingedTasks \/ pingedTasks' = << >>
    BY DEF PerformWork, RetryTask, FinishWork
  <2> QED BY <2>1, EmptyCalls DEF Inv, RunState
<1>5. TypeOK'
  <2>1. << >> \in Seq(Segments)
    OBVIOUS
  <2>2. pingedTasks' \in Seq(Segments) /\ next' \in Nat /\ scheduled' \in Nat
        /\ started' \in BOOLEAN
    <3>1. pingedTasks \in Seq(Segments) /\ next \in Nat /\ scheduled \in Nat
          /\ started \in BOOLEAN
      BY DEF Inv, TypeOK
    <3>2. CASE PerformWork
      <4>1. /\ pingedTasks' = pingedTasks /\ started' = started
            /\ scheduled > 0 /\ scheduled' = scheduled - 1 /\ next' \in {0, 1}
        BY <3>2 DEF PerformWork, renderVars
      <4> QED BY <3>1, <4>1
    <3>3. CASE RetryTask
      <4>1. /\ pingedTasks' = pingedTasks /\ started' = FALSE
            /\ scheduled' = scheduled /\ next' = next + 1
        BY <3>3 DEF RetryTask
      <4>2. next' \in Nat
        BY <3>1, <4>1
      <4> QED BY <3>1, <4>1, <4>2, Zenon
    <3>4. CASE FinishWork
      <4>1. /\ pingedTasks' = << >> /\ started' = started
            /\ scheduled' = scheduled /\ next' = 0
        BY <3>4 DEF FinishWork, renderVars
      <4> QED BY <2>1, <3>1, <4>1
    <3> QED BY <3>2, <3>3, <3>4
  <2>3. running' \in Segments \cup {NoTask}
    BY <1>3 DEF Live
  <2>4. UNCHANGED <<allPendingTasks, requestStatus, flowing, ended, thrown, retries, piped, aborted>>
    BY <1>1 DEF userVars
  <2> QED BY <1>1, <2>2, <2>3, <2>4, TypeFrame DEF Inv, TypeOK
<1>6. FlowState'
  <2>1. Quiet(calls) /\ (flowing => requestStatus = "OPEN" \/ ended # "no")
    BY <1>1, NoCalls DEF Inv, FlowState
  <2>2. ended = "closed" =>
              /\ requestStatus = "OPEN" /\ allPendingTasks = 0
              /\ clientRenderedBoundaries = << >> /\ completedBoundaries = << >>
              /\ segment[RootSegment].status = "FLUSHED"
    BY <2>1, ClosedState, QuietClosed
  <2> QED BY <1>1, <1>2, <2>1, <2>2, FlowQuiet DEF treeVars, segmentVars, queueVars
<1>7. Count(calls, TD) = 0 /\ allPendingTasks' = allPendingTasks
  BY <1>1, NoCalls
<1> QED BY <1>1, <1>2, <1>3, <1>4, <1>5, <1>6, <1>7, ControlStack

LEMMA PipeStep ==
    ASSUME Inv, Pipe \/ Drain
    PROVE  Inv'
<1>1. /\ calls = << >> /\ running = NoTask /\ opened = << >> /\ UNCHANGED treeVars
      /\ UNCHANGED <<allPendingTasks, pingedTasks, next, running, started, scheduled, thrown,
                     retries, aborted>>
      /\ piped' \in BOOLEAN
  BY DEF Pipe, Drain, Idle, Inv, RunState, TypeOK, treeVars, renderVars, userVars
<1>2. Piping(<< >>)
  BY PipingOf DEF Pipe, Drain
<1>3. << >> \in Seq(CallType) /\ Count(<< >>, TD) = 0 /\ DOMAIN << >> = {}
  BY EmptyCalls
<1>4. SameMatters(<< >>, << >>, 0) /\ Quiet(<< >>)
  BY <1>3, MattersNone DEF Quiet
<1>5. /\ calls' \in Seq(CallType) /\ Count(calls', TD) = 0
      /\ \E e : SameMatters(calls, calls', e)
      /\ Quiet(calls)'
      /\ requestStatus' \in {"OPEN", "CLOSING", "CLOSED"} /\ flowing' \in BOOLEAN
      /\ ended' \in {"no", "closed", "error", "aborted"}
      /\ requestStatus' = "OPEN" <=> requestStatus = "OPEN"
      /\ flowing' => requestStatus' = "OPEN" \/ ended' # "no"
      /\ ended' = "closed" => ended = "closed" /\ requestStatus' = requestStatus
  BY <1>1, <1>2, <1>3, <1>4, PipingEffect DEF Inv, FlowState
<1>6. FlowState'
  <2>1. ended = "closed" =>
              /\ requestStatus = "OPEN" /\ allPendingTasks = 0
              /\ clientRenderedBoundaries = << >> /\ completedBoundaries = << >>
              /\ segment[RootSegment].status = "FLUSHED"
    BY <1>1, <1>4, ClosedState, QuietClosed
  <2> QED BY <1>1, <1>5, <2>1, FlowQuiet DEF treeVars, segmentVars, queueVars
<1>7. TypeOK'
  BY <1>1, <1>5, TypeFrame DEF Inv, TypeOK
<1>8. \A i \in DOMAIN pingedTasks' : segment[pingedTasks'[i]].task
  BY <1>1 DEF Inv, RunState
<1>9. allPendingTasks' + Count(calls, TD) = allPendingTasks + Count(calls', TD)
  BY <1>1, <1>3, <1>5
<1> QED BY <1>1, <1>5, <1>6, <1>7, <1>8, <1>9, ControlStack

(* The top of the stack is replaced by another call.                       *)
LEMMA Swap ==
    ASSUME Inv, calls # << >>, ~Matters(Head(calls)), Head(calls) # TD,
           NEW f \in FlushCalls
    PROVE  LET q == <<Call(f, 0)>> \o Rest IN
           /\ q \in Seq(CallType) /\ Count(q, TD) = Count(calls, TD)
           /\ \E d : SameMatters(calls, q, d)
           /\ DOMAIN q = DOMAIN calls /\ Len(q) = Len(calls) /\ q # << >>
           /\ Len(calls) \in Nat /\ DOMAIN calls = 1..Len(calls)
           /\ q[1].f = f /\ \A i \in DOMAIN q : i # 1 => q[i] = calls[i]
<1> DEFINE c == Call(f, 0)
           q == <<c>> \o Rest
<1>1. c \in CallType /\ c.f = f /\ c # TD /\ ~Matters(c)
  BY CallTypes DEF TD, Call, FlushCalls, Matters, AbortCall
<1>2. /\ Rest \in Seq(CallType)
      /\ Count(calls, TD) = Count(Rest, TD) /\ Count(Rest, TD) \in Nat
      /\ SameMatters(calls, Rest, 1)
  <2>1. Count(Rest, TD) \in Nat /\ Count(calls, TD) = Count(Rest, TD) + 0
    BY Pop
  <2> QED BY <2>1, Pop
<1> HIDE DEF c
<1>3. Count(<<c>> \o Rest, TD) = Count(Rest, TD) /\ SameMatters(calls, <<c>> \o Rest, 1 + (-1))
  <2>1. Count(<<c>> \o Rest, TD) = Count(Rest, TD) + IF c = TD THEN 1 ELSE 0
    BY <1>1, <1>2, Push
  <2>2. SameMatters(calls, <<c>> \o Rest, 1 + (-1))
    BY <1>1, <1>2, Push
  <2> QED BY <1>1, <1>2, <2>1, <2>2
<1>4. /\ calls[1] = Head(calls)
      /\ Len(Rest) \in Nat /\ DOMAIN Rest = 1..Len(Rest) /\ DOMAIN calls = 1..(Len(Rest) + 1)
      /\ Len(calls) = Len(Rest) + 1
      /\ \A i \in DOMAIN calls : i = 1 \/ (i - 1 \in DOMAIN Rest /\ calls[i] = Rest[i - 1])
  <2>1. calls \in Seq(CallType)
    BY DEF Inv
  <2> QED BY <2>1, PopCall DEF Rest
<1>5. /\ q \in Seq(CallType) /\ q # << >> /\ q[1] = c
      /\ DOMAIN q = 1..(Len(Rest) + 1) /\ Len(q) = Len(Rest) + 1
      /\ \A i \in DOMAIN q : i = 1 \/ (i - 1 \in DOMAIN Rest /\ q[i] = Rest[i - 1])
  BY <1>1, <1>2, PushCall
<1>6. \E d : SameMatters(calls, q, d)
  BY <1>3
<1>7. Count(q, TD) = Count(calls, TD)
  BY <1>2, <1>3
<1> HIDE DEF q
<1>8. \A i \in DOMAIN q : i # 1 => q[i] = calls[i]
  BY <1>4, <1>5
<1>9. DOMAIN q = DOMAIN calls /\ Len(q) = Len(calls) /\ Len(calls) \in Nat
      /\ DOMAIN calls = 1..Len(calls)
  BY <1>4, <1>5
<1>10. q[1].f = f
  BY <1>1, <1>5
<1> QED BY <1>5, <1>6, <1>7, <1>8, <1>9, <1>10 DEF q, c

(* A step of a flush that takes nothing.                                   *)
LEMMA FlushControl ==
    ASSUME Inv, calls # << >>, ~Matters(Head(calls)), Head(calls) # TD, UNCHANGED treeVars,
           UNCHANGED <<allPendingTasks, pingedTasks, next, renderVars, scheduled, userVars, thrown>>,
           TypeOK', calls' \in Seq(CallType), Count(calls', TD) = Count(calls, TD),
           requestStatus' = "OPEN" => requestStatus = "OPEN",
           \E d : SameMatters(calls, calls', d), FlowState'
    PROVE  Inv'
<1>1. running' = NoTask /\ opened = << >>
  BY WithCalls DEF renderVars
<1>2. \A i \in DOMAIN pingedTasks' : segment[pingedTasks'[i]].task
  BY DEF Inv, RunState
<1>3. allPendingTasks' + Count(calls, TD) = allPendingTasks + Count(calls', TD)
  OBVIOUS
<1> QED BY <1>1, <1>2, <1>3, ControlStack

LEMMA OutType ==
    ASSUME Inv, UNCHANGED treeVars,
           UNCHANGED <<allPendingTasks, pingedTasks, next, renderVars, scheduled, userVars, thrown>>,
           requestStatus' \in {"OPEN", "CLOSING", "CLOSED"}, flowing' \in BOOLEAN,
           ended' \in {"no", "closed", "error", "aborted"}
    PROVE  TypeOK'
<1>1. UNCHANGED <<running, started, retries, piped, aborted>>
  BY DEF renderVars, userVars
<1>2. /\ TypeOK /\ allPendingTasks \in Nat /\ pingedTasks \in Seq(Segments) /\ next \in Nat
      /\ running \in Segments \cup {NoTask} /\ started \in BOOLEAN /\ scheduled \in Nat
      /\ piped \in BOOLEAN /\ aborted \in BOOLEAN /\ thrown \in BOOLEAN /\ retries \in 0..MaxRetries
  BY DEF Inv, TypeOK
<1> QED BY <1>1, <1>2, TypeFrame

LEMMA NextQueueStep ==
    ASSUME Inv, NextQueue
    PROVE  Inv'
<1>1. PICK f \in FlushCalls \ {"flushClientRendered"} :
        /\ calls' = <<Call(f, 0)>> \o Rest
        /\ Head(calls).f \in FlushCalls \ {"flushEnd"} /\ calls # << >>
        /\ f \in {"flushCompleted", "flushPartial"} => clientRenderedBoundaries = << >>
        /\ f = "flushPartial" => completedBoundaries = << >>
  <2>1. calls # << >> => calls[1] = Head(calls) /\ 1 \in DOMAIN calls
    <3>1. calls \in Seq(CallType)
      BY DEF Inv
    <3> QED BY <3>1, TailElements
  <2>2. CASE Calls("flushClientRendered")
    BY <2>2 DEF NextQueue, Calls, FlushCalls
  <2>3. CASE Calls("flushCompleted")
    BY <2>1, <2>3 DEF NextQueue, Calls, FlushCalls, Inv, FlowState
  <2>4. CASE Calls("flushPartial")
    BY <2>1, <2>4 DEF NextQueue, Calls, FlushCalls, Inv, FlowState
  <2> QED BY <2>2, <2>3, <2>4 DEF NextQueue
<1>2. ~Matters(Head(calls)) /\ Head(calls) # TD
  BY <1>1 DEF Matters, AbortCall, TD, Call, FlushCalls
<1>3. /\ UNCHANGED treeVars
      /\ UNCHANGED <<allPendingTasks, pingedTasks, next, renderVars, scheduled, userVars, thrown>>
      /\ UNCHANGED <<requestStatus, flowing, ended>>
  BY DEF NextQueue, treeVars, outVars, renderVars
<1> DEFINE q == <<Call(f, 0)>> \o Rest
<1>4. /\ q \in Seq(CallType) /\ Count(q, TD) = Count(calls, TD)
      /\ \E d : SameMatters(calls, q, d)
      /\ DOMAIN q = DOMAIN calls /\ Len(q) = Len(calls) /\ q # << >>
      /\ Len(calls) \in Nat /\ DOMAIN calls = 1..Len(calls)
      /\ q[1].f = f /\ \A i \in DOMAIN q : i # 1 => q[i] = calls[i]
  BY <1>1, <1>2, Swap
<1>5. calls' = q
  BY <1>1
<1> HIDE DEF q
<1>6. calls[1] = Head(calls) /\ 1 \in DOMAIN calls
  <2>1. calls \in Seq(CallType)
    BY DEF Inv
  <2> QED BY <1>1, <2>1, TailElements
<1>7. FlowState
  BY DEF Inv
<1>8. FlowState'
  <2>1. \A i \in DOMAIN calls : i # 1 => calls[i].f \notin FlushCalls
    BY <1>7 DEF FlowState
  <2>2. \A i \in DOMAIN calls : calls[i].f = "fatalError" => FALSE
    BY <1>1, <1>6, <1>7 DEF FlowState, FlushCalls
  <2>3. /\ flowing /\ (requestStatus = "OPEN" \/ ended # "no")
        /\ suspense[Root].pendingTasks > 0 \/ segment[RootSegment].status = "FLUSHED"
    <3>1. calls[1].f \in FlushCalls \ {"flushEnd"}
      BY <1>1, <1>6
    <3>2. ~ (Len(calls) > 1 /\ calls[2].f = "fatalError")
      BY <1>4, <2>2
    <3> QED BY <1>6, <1>7, <3>1, <3>2 DEF FlowState
  <2>4. \A i \in DOMAIN calls' : i # 1 => calls'[i].f \notin FlushCalls \cup {"fatalError"}
    BY <1>4, <1>5, <2>1, <2>2
  <2>5. calls'[1].f = f
    BY <1>4, <1>5
  <2>6. \A i \in DOMAIN calls' :
          /\ calls'[i].f \in FlushCalls => i = 1
          /\ calls'[i].f # "fatalError"
          /\ calls'[i].f \in {"flushCompleted", "flushPartial"} => clientRenderedBoundaries = << >>
          /\ calls'[i].f = "flushPartial" => completedBoundaries = << >>
    BY <1>1, <2>4, <2>5 DEF FlushCalls
  <2>7. ended = "closed" =>
          /\ requestStatus = "OPEN" /\ allPendingTasks = 0
          /\ clientRenderedBoundaries = << >> /\ completedBoundaries = << >>
          /\ segment[RootSegment].status = "FLUSHED"
    BY <1>7, <2>2 DEF FlowState
  <2>8. UNCHANGED <<segment, suspense, clientRenderedBoundaries, completedBoundaries>>
    BY <1>3 DEF treeVars, segmentVars, boundaryVars, queueVars
  <2> QED BY <1>3, <2>3, <2>6, <2>7, <2>8 DEF FlowState
<1>9. TypeOK'
  <2>1. /\ requestStatus \in {"OPEN", "CLOSING", "CLOSED"} /\ flowing \in BOOLEAN
        /\ ended \in {"no", "closed", "error", "aborted"}
    BY DEF Inv, TypeOK
  <2> QED BY <1>3, <2>1, OutType
<1> QED BY <1>1, <1>2, <1>3, <1>4, <1>5, <1>8, <1>9, FlushControl

LEMMA FlushRootWaits ==
    ASSUME Inv, FlushRoot, ~flowing \/ suspense[Root].pendingTasks # 0
    PROVE  Inv'
<1>1. /\ calls # << >> /\ Head(calls).f = "flushRoot" /\ UNCHANGED treeVars
      /\ UNCHANGED <<allPendingTasks, pingedTasks, next, renderVars, scheduled, userVars, thrown>>
      /\ UNCHANGED <<requestStatus, flowing, ended>>
      /\ \/ ~flowing /\ calls' = Rest
         \/ /\ flowing /\ suspense[Root].pendingTasks # 0
            /\ calls' = <<Call("flushClientRendered", 0)>> \o Rest
  <2>1. calls # << >> /\ Head(calls).f = "flushRoot"
    BY DEF FlushRoot, Calls
  <2>2. CASE ~flowing
    BY <2>1, <2>2 DEF FlushRoot, treeVars, segmentVars, boundaryVars, queueVars, outVars, renderVars
  <2>3. CASE flowing /\ suspense[Root].pendingTasks # 0
    BY <2>1, <2>3 DEF FlushRoot, treeVars, segmentVars, boundaryVars, queueVars, outVars, renderVars
  <2> QED BY <2>2, <2>3
<1>2. ~Matters(Head(calls)) /\ Head(calls) # TD
  BY <1>1 DEF Matters, AbortCall, TD, Call
<1>3. Quiet(Rest) /\ Quiet(calls)
  BY <1>1, QuietRest DEF FlushCalls, Rest
<1>4. /\ flowing => requestStatus = "OPEN" \/ ended # "no"
      /\ ended = "closed" =>
              /\ requestStatus = "OPEN" /\ allPendingTasks = 0
              /\ clientRenderedBoundaries = << >> /\ completedBoundaries = << >>
              /\ segment[RootSegment].status = "FLUSHED"
  BY <1>3, ClosedState, QuietClosed DEF Inv, FlowState
<1>5. UNCHANGED <<segment, suspense, clientRenderedBoundaries, completedBoundaries>>
  BY <1>1 DEF treeVars, segmentVars, boundaryVars, queueVars
<1>6. TypeOK'
  <2>1. /\ requestStatus \in {"OPEN", "CLOSING", "CLOSED"} /\ flowing \in BOOLEAN
        /\ ended \in {"no", "closed", "error", "aborted"}
    BY DEF Inv, TypeOK
  <2> QED BY <1>1, <2>1, OutType
<1>7. CASE calls' = Rest
  <2>1. /\ Rest \in Seq(CallType) /\ SameMatters(calls, Rest, 1)
        /\ Count(calls, TD) = Count(Rest, TD) + 0 /\ Count(Rest, TD) \in Nat
    BY <1>1, <1>2, Pop
  <2>2. Count(calls', TD) = Count(calls, TD) /\ Quiet(calls)'
    BY <1>3, <1>7, <2>1 DEF Quiet
  <2>3. FlowState'
    BY <1>1, <1>4, <1>5, <2>2, FlowQuiet
  <2> QED BY <1>1, <1>2, <1>6, <1>7, <2>1, <2>2, <2>3, FlushControl
<1>8. CASE flowing /\ suspense[Root].pendingTasks # 0
           /\ calls' = <<Call("flushClientRendered", 0)>> \o Rest
  <2> DEFINE q == <<Call("flushClientRendered", 0)>> \o Rest
  <2>1. /\ q \in Seq(CallType) /\ Count(q, TD) = Count(calls, TD)
        /\ \E d : SameMatters(calls, q, d)
        /\ DOMAIN q = DOMAIN calls /\ q # << >>
        /\ q[1].f = "flushClientRendered" /\ \A i \in DOMAIN q : i # 1 => q[i] = calls[i]
    <3>1. "flushClientRendered" \in FlushCalls
      BY DEF FlushCalls
    <3> QED BY <1>1, <1>2, <3>1, Swap
  <2>2. calls' = q
    BY <1>8
  <2> HIDE DEF q
  <2>3. \A i \in DOMAIN calls' : i # 1 => calls'[i].f \notin FlushCalls \cup {"fatalError"}
    BY <1>3, <2>1, <2>2 DEF Quiet
  <2>4. calls'[1].f = "flushClientRendered"
    BY <2>1, <2>2
  <2>5. \A i \in DOMAIN calls' :
          /\ calls'[i].f \in FlushCalls => i = 1
          /\ calls'[i].f # "fatalError"
          /\ calls'[i].f \notin {"flushCompleted", "flushPartial"}
    BY <2>3, <2>4 DEF FlushCalls
  <2>6. suspense[Root].pendingTasks > 0
    <3>1. suspense[Root].pendingTasks \in Nat
      BY DEF Inv, TypeOK
    <3> QED BY <1>8, <3>1
  <2>7. FlowState'
    BY <1>1, <1>4, <1>5, <1>8, <2>5, <2>6 DEF FlowState
  <2> QED BY <1>1, <1>2, <1>6, <2>1, <2>2, <2>7, FlushControl
<1> QED BY <1>1, <1>7, <1>8

LEMMA CloseIfDoneStep ==
    ASSUME Inv, CloseIfDone
    PROVE  Inv'
<1>1. /\ calls # << >> /\ Head(calls).f = "flushEnd" /\ UNCHANGED treeVars
      /\ UNCHANGED <<allPendingTasks, pingedTasks, next, renderVars, scheduled, userVars, thrown>>
      /\ UNCHANGED <<requestStatus, flowing>>
      /\ calls' = Rest
      /\ ended' = IF NothingLeft /\ ended = "no" THEN "closed" ELSE ended
  BY DEF CloseIfDone, Calls, treeVars, renderVars
<1>2. ~Matters(Head(calls)) /\ Head(calls) # TD
  BY <1>1 DEF Matters, AbortCall, TD, Call
<1>3. /\ Rest \in Seq(CallType) /\ SameMatters(calls, Rest, 1)
      /\ Count(calls, TD) = Count(Rest, TD) + 0 /\ Count(Rest, TD) \in Nat
  BY <1>1, <1>2, Pop
<1>4. Count(calls', TD) = Count(calls, TD)
  BY <1>1, <1>3
<1>5. /\ calls[1] = Head(calls) /\ 1 \in DOMAIN calls
      /\ Len(Rest) \in Nat /\ DOMAIN Rest = 1..Len(Rest) /\ DOMAIN calls = 1..(Len(Rest) + 1)
      /\ Len(calls) = Len(Rest) + 1
      /\ \A i \in DOMAIN Rest : i + 1 \in DOMAIN calls /\ calls[i + 1] = Rest[i]
      /\ \A i \in DOMAIN calls : i = 1 \/ (i - 1 \in DOMAIN Rest /\ calls[i] = Rest[i - 1])
  <2>1. calls \in Seq(CallType)
    BY DEF Inv
  <2> QED BY <1>1, <2>1, PopCall DEF Rest
<1>6. FlowState
  BY DEF Inv
<1>7. UNCHANGED <<segment, suspense, clientRenderedBoundaries, completedBoundaries>>
  BY <1>1 DEF treeVars, segmentVars, boundaryVars, queueVars
<1>8. ASSUME NEW i \in DOMAIN Rest
      PROVE  /\ Rest[i].f \notin FlushCalls
             /\ Rest[i].f = "fatalError" => flowing /\ i = 1
  <2>1. i \in Nat /\ i + 1 \in DOMAIN calls /\ calls[i + 1] = Rest[i] /\ i + 1 # 1
    BY <1>5
  <2>2. Rest[i].f \notin FlushCalls
    BY <1>6, <2>1 DEF FlowState
  <2>3. Rest[i].f = "fatalError" => flowing /\ (i + 1 = 1 \/ i + 1 = 2)
    BY <1>6, <2>1 DEF FlowState
  <2>4. i + 1 = 2 => i = 1
    BY <2>1
  <2> QED BY <2>1, <2>2, <2>3, <2>4
<1>9. ASSUME segment[RootSegment].status # "FLUSHED", \E i \in DOMAIN calls : calls[i].f = "fatalError"
      PROVE  \E i \in DOMAIN Rest : Rest[i].f = "fatalError"
  <2>1. PICK i \in DOMAIN calls : calls[i].f = "fatalError"
    BY <1>9
  <2>2. i # 1
    BY <1>1, <1>5, <2>1
  <2> QED BY <1>5, <2>1, <2>2
<1>10. flowing => requestStatus = "OPEN" \/ ended' # "no"
  <2>1. requestStatus = "OPEN" \/ ended # "no"
    BY <1>1, <1>5, <1>6 DEF FlowState, FlushCalls
  <2> QED BY <1>1, <2>1
<1>11. ASSUME ended' = "closed"
       PROVE  /\ requestStatus = "OPEN" /\ allPendingTasks = 0
              /\ clientRenderedBoundaries = << >> /\ completedBoundaries = << >>
              /\ \/ segment[RootSegment].status = "FLUSHED"
                 \/ \E i \in DOMAIN Rest : Rest[i].f = "fatalError"
  <2>1. CASE ended = "closed"
    BY <1>6, <1>9, <2>1 DEF FlowState
  <2>2. CASE ended # "closed"
    <3>1. NothingLeft /\ ended = "no"
      BY <1>1, <1>11, <2>2
    <3>2. requestStatus = "OPEN"
      BY <1>1, <1>5, <1>6, <3>1 DEF FlowState, FlushCalls
    <3>3. suspense[Root].pendingTasks = 0
      <4>1. Cardinality(Live) = 0
        <5>1. /\ allPendingTasks = Cardinality(Live) + Count(calls, TD)
              /\ Cardinality(Live) \in Nat /\ Count(calls, TD) \in Nat
          BY <1>3, Sets DEF Inv, CountState, TD
        <5> QED BY <3>1, <5>1 DEF NothingLeft
      <4>2. Live = {}
        BY <4>1, Sets, FS_EmptySet
      <4>3. BlockedBy(Root) = {}
        BY <4>2 DEF BlockedBy
      <4>4. Cardinality(BlockedBy(Root)) = 0
        BY <4>3, FS_EmptySet
      <4> QED BY <3>2, <4>4 DEF Inv, CountState
    <3>4. \/ segment[RootSegment].status = "FLUSHED"
          \/ Len(calls) > 1 /\ calls[2].f = "fatalError"
      BY <1>1, <1>5, <1>6, <3>3 DEF FlowState, FlushCalls
    <3>5. Len(calls) > 1 => 2 \in DOMAIN calls
      BY <1>5
    <3> QED BY <1>9, <3>1, <3>2, <3>4, <3>5 DEF NothingLeft
  <2> QED BY <2>1, <2>2
<1>12. FlowState'
  <2>1. \A i \in DOMAIN calls' :
          /\ calls'[i].f \notin FlushCalls
          /\ calls'[i].f \notin {"flushCompleted", "flushPartial"}
          /\ calls'[i].f = "fatalError" => flowing /\ i = 1
    BY <1>1, <1>8 DEF FlushCalls
  <2> QED BY <1>1, <1>7, <1>10, <1>11, <2>1 DEF FlowState
<1>13. TypeOK'
  <2>1. /\ requestStatus \in {"OPEN", "CLOSING", "CLOSED"} /\ flowing \in BOOLEAN
        /\ ended \in {"no", "closed", "error", "aborted"}
    BY DEF Inv, TypeOK
  <2>2. ended' \in {"no", "closed", "error", "aborted"}
    BY <1>1, <2>1
  <2> QED BY <1>1, <2>1, <2>2, OutType
<1> QED BY <1>1, <1>2, <1>3, <1>4, <1>12, <1>13, FlushControl

LEMMA CatchErrorStep ==
    ASSUME Inv, CatchError
    PROVE  Inv'
<1>1. /\ calls # << >> /\ Head(calls).f = "fatalError" /\ UNCHANGED treeVars
      /\ UNCHANGED <<allPendingTasks, pingedTasks, next, renderVars, scheduled, userVars, thrown>>
      /\ UNCHANGED flowing /\ calls' = Rest
      /\ FatalError
  BY DEF CatchError, Calls, treeVars, renderVars
<1>2. ~Matters(Head(calls)) /\ Head(calls) # TD
  BY <1>1 DEF Matters, AbortCall, TD, Call
<1>3. /\ Rest \in Seq(CallType) /\ SameMatters(calls, Rest, 1)
      /\ Count(calls, TD) = Count(Rest, TD) + 0 /\ Count(Rest, TD) \in Nat
  BY <1>1, <1>2, Pop
<1>4. Count(calls', TD) = Count(calls, TD)
  BY <1>1, <1>3
<1>5. /\ calls[1] = Head(calls) /\ 1 \in DOMAIN calls
      /\ Len(Rest) \in Nat /\ DOMAIN Rest = 1..Len(Rest)
      /\ \A i \in DOMAIN Rest : i + 1 \in DOMAIN calls /\ calls[i + 1] = Rest[i]
  <2>1. calls \in Seq(CallType)
    BY DEF Inv
  <2>2. DOMAIN calls = 1..(Len(Rest) + 1) /\ Len(Rest) \in Nat
    BY <1>1, <2>1, PopCall DEF Rest
  <2> QED BY <1>1, <2>1, <2>2, PopCall DEF Rest
<1>6. Quiet(calls)'
  <2>1. ASSUME NEW i \in DOMAIN Rest PROVE Rest[i].f \notin FlushCalls \cup {"fatalError"}
    <3>1. i \in Nat /\ i + 1 \in DOMAIN calls /\ calls[i + 1] = Rest[i] /\ i + 1 # 1
      BY <1>5
    <3>2. calls[1].f # "flushEnd"
      BY <1>1, <1>5
    <3> QED BY <3>1, <3>2 DEF Inv, FlowState
  <2> QED BY <1>1, <2>1 DEF Quiet
<1>7. requestStatus' = "CLOSED" /\ ended' = "error"
  <2>1. flowing
    BY <1>1, <1>5 DEF Inv, FlowState
  <2> QED BY <1>1, <2>1 DEF FatalError
<1>8. FlowState'
  BY <1>6, <1>7, FlowQuiet
<1>9. TypeOK'
  <2>1. flowing \in BOOLEAN
    BY DEF Inv, TypeOK
  <2> QED BY <1>1, <1>7, <2>1, OutType
<1> QED BY <1>1, <1>2, <1>3, <1>4, <1>7, <1>8, <1>9, FlushControl

-----------------------------------------------------------------------------
(* Steps that change the tree only in who waits and who would be aborted.  *)

SameShape ==
    /\ segments' = segments
    /\ \A s \in Segments :
          /\ segment'[s].parent = segment[s].parent
          /\ segment'[s].boundary = segment[s].boundary
          /\ segment'[s].task = segment[s].task
          /\ segment'[s].blockedBoundary = segment[s].blockedBoundary
          /\ segment'[s].abortSet = segment[s].abortSet

SameFate ==
    \A s \in Segments :
        /\ segment'[s].status = segment[s].status
        /\ segment'[s].parentFlushed = segment[s].parentFlushed
        /\ segment'[s].id = segment[s].id

SameNest ==
    /\ boundaries' = boundaries
    /\ \A b \in Boundaries \cup {Root} :
          /\ suspense'[b].outer = suspense[b].outer
          /\ suspense'[b].fallback = suspense[b].fallback
          /\ suspense'[b].content = suspense[b].content

SameProgress ==
    \A b \in Boundaries \cup {Root} :
        /\ suspense'[b].pendingTasks = suspense[b].pendingTasks
        /\ suspense'[b].forceClientRender = suspense[b].forceClientRender
        /\ suspense'[b].parentFlushed = suspense[b].parentFlushed
        /\ suspense'[b].completedSegments = suspense[b].completedSegments
        /\ suspense'[b].rootSegmentID = suspense[b].rootSegmentID

NewKept ==
    /\ \A s \in Segments : s > segments => segment'[s] = NewSegment
    /\ \A b \in Boundaries : b > boundaries => suspense'[b] = NewBoundary

LEMMA InvTypes ==
    ASSUME TypeOK
    PROVE  /\ segments \in Segments /\ boundaries \in Boundaries \cup {Root}
           /\ \A s \in Segments :
                 /\ segment[s].status \in {"PENDING", "COMPLETED", "FLUSHED", "ABORTED", "ERRORED"}
                 /\ segment[s].parentFlushed \in BOOLEAN /\ segment[s].id \in Nat
                 /\ segment[s].parent \in Segments \cup {NoSegment}
                 /\ segment[s].boundary \in Boundaries \cup {NoBoundary}
                 /\ segment[s].task \in BOOLEAN
                 /\ segment[s].blockedBoundary \in Boundaries \cup {Root}
                 /\ segment[s].abortSet \in Boundaries \cup {Root}
                 /\ segment[s].suspended \in BOOLEAN
           /\ \A b \in Boundaries \cup {Root} :
                 /\ suspense[b].pendingTasks \in Nat /\ suspense[b].forceClientRender \in BOOLEAN
                 /\ suspense[b].parentFlushed \in BOOLEAN
                 /\ suspense[b].completedSegments \in Seq(Segments)
                 /\ suspense[b].fallbackAbortableTasks \in SUBSET Segments
                 /\ suspense[b].rootSegmentID \in Nat
                 /\ suspense[b].outer \in Boundaries \cup {Root}
                 /\ suspense[b].fallback \in Segments \cup {NoSegment}
                 /\ suspense[b].content \in Segments \cup {NoSegment}
           /\ Segments \subseteq Nat \ {0} /\ Boundaries \subseteq Nat \ {0}
           /\ RootSegment \in Segments /\ Root \notin Boundaries /\ Root = 0
           /\ RootSegment = 1 /\ NoSegment = 0 /\ NoBoundary = 0 /\ NoTask = 0
           /\ Segments = 1..MaxSegments /\ Boundaries = 1..MaxBoundaries
           /\ MaxSegments \in Nat \ {0} /\ MaxBoundaries \in Nat
<1>1. MaxSegments \in Nat \ {0} /\ MaxBoundaries \in Nat
  BY FizzAssumption
<1>2. /\ Segments \subseteq Nat \ {0} /\ Boundaries \subseteq Nat \ {0}
      /\ RootSegment \in Segments /\ Root \notin Boundaries /\ Root = 0
      /\ RootSegment = 1 /\ NoSegment = 0 /\ NoBoundary = 0 /\ NoTask = 0
      /\ Segments = 1..MaxSegments /\ Boundaries = 1..MaxBoundaries
  BY <1>1 DEF Segments, Boundaries, RootSegment, Root, NoSegment, NoBoundary, NoTask
<1>3. segments \in Segments /\ boundaries \in Boundaries \cup {Root}
  BY DEF TypeOK
<1>4. \A s \in Segments :
                 /\ segment[s].status \in {"PENDING", "COMPLETED", "FLUSHED", "ABORTED", "ERRORED"}
                 /\ segment[s].parentFlushed \in BOOLEAN /\ segment[s].id \in Nat
                 /\ segment[s].parent \in Segments \cup {NoSegment}
                 /\ segment[s].boundary \in Boundaries \cup {NoBoundary}
                 /\ segment[s].task \in BOOLEAN
                 /\ segment[s].blockedBoundary \in Boundaries \cup {Root}
                 /\ segment[s].abortSet \in Boundaries \cup {Root}
                 /\ segment[s].suspended \in BOOLEAN
  BY DEF TypeOK
<1>5. \A b \in Boundaries \cup {Root} :
                 /\ suspense[b].pendingTasks \in Nat /\ suspense[b].forceClientRender \in BOOLEAN
                 /\ suspense[b].parentFlushed \in BOOLEAN
                 /\ suspense[b].completedSegments \in Seq(Segments)
                 /\ suspense[b].fallbackAbortableTasks \in SUBSET Segments
                 /\ suspense[b].rootSegmentID \in Nat
                 /\ suspense[b].outer \in Boundaries \cup {Root}
                 /\ suspense[b].fallback \in Segments \cup {NoSegment}
                 /\ suspense[b].content \in Segments \cup {NoSegment}
  BY DEF TypeOK
<1> QED BY <1>1, <1>2, <1>3, <1>4, <1>5

(* The shape of the tree is all that these parts of the invariant are      *)
(* about.                                                                  *)
LEMMA ShapeFrame ==
    ASSUME Inv, SameShape, SameNest, NewKept
    PROVE  SegmentTree' /\ BoundaryTree'
<1>0. TypeOK /\ SegmentTree /\ BoundaryTree
  BY DEF Inv
<1>1. SegmentTree'
  <2>1. ASSUME NEW s \in Segments
        PROVE /\ s > segments' => segment'[s] = NewSegment
              /\ segment'[s].parent < s
              /\ segment'[s].boundary <= boundaries'
              /\ segment'[s].blockedBoundary <= boundaries' /\ segment'[s].abortSet <= boundaries'
              /\ segment'[s].boundary # NoBoundary =>
                    /\ segment'[s].parent # NoSegment
                    /\ suspense'[segment'[s].boundary].fallback = s
                    /\ segment'[s].task =>
                          /\ segment'[s].abortSet = segment'[s].boundary
                          /\ segment'[s].blockedBoundary = suspense'[segment'[s].boundary].outer
              /\ segment'[s].task /\ segment'[s].blockedBoundary # Root =>
                    suspense'[segment'[s].blockedBoundary].fallback < s
    <3>1. /\ segment[s].boundary \in Boundaries \cup {Root}
          /\ segment[s].blockedBoundary \in Boundaries \cup {Root}
      BY <1>0, InvTypes
    <3>2. /\ suspense'[segment[s].boundary].fallback = suspense[segment[s].boundary].fallback
          /\ suspense'[segment[s].boundary].outer = suspense[segment[s].boundary].outer
          /\ suspense'[segment[s].blockedBoundary].fallback
                = suspense[segment[s].blockedBoundary].fallback
          /\ boundaries' = boundaries
      BY <3>1 DEF SameNest
    <3>3. /\ segments' = segments
          /\ segment'[s].parent = segment[s].parent
          /\ segment'[s].boundary = segment[s].boundary
          /\ segment'[s].task = segment[s].task
          /\ segment'[s].blockedBoundary = segment[s].blockedBoundary
          /\ segment'[s].abortSet = segment[s].abortSet
          /\ s > segments => segment'[s] = NewSegment
      BY DEF SameShape, NewKept
    <3>4. /\ segment[s].parent < s
          /\ segment[s].boundary <= boundaries
          /\ segment[s].blockedBoundary <= boundaries /\ segment[s].abortSet <= boundaries
          /\ segment[s].boundary # NoBoundary =>
                /\ segment[s].parent # NoSegment
                /\ suspense[segment[s].boundary].fallback = s
                /\ segment[s].task =>
                      /\ segment[s].abortSet = segment[s].boundary
                      /\ segment[s].blockedBoundary = suspense[segment[s].boundary].outer
          /\ segment[s].task /\ segment[s].blockedBoundary # Root =>
                suspense[segment[s].blockedBoundary].fallback < s
      BY <1>0 DEF SegmentTree
    <3> QED BY <3>2, <3>3, <3>4
  <2>2. LET root == segment'[RootSegment] IN
          /\ root.parent = NoSegment /\ root.boundary = NoBoundary /\ root.task
          /\ root.blockedBoundary = Root /\ root.abortSet = Root
    BY <1>0, InvTypes DEF SegmentTree, SameShape
  <2> QED BY <2>1, <2>2 DEF SegmentTree
<1>2. BoundaryTree'
  <2>1. ASSUME NEW b \in Boundaries
        PROVE /\ b > boundaries' => suspense'[b] = NewBoundary
              /\ b <= boundaries' =>
                    /\ suspense'[b].fallback \in Segments /\ suspense'[b].content \in Segments
                    /\ suspense'[b].content = suspense'[b].fallback + 1
                    /\ suspense'[b].content <= segments'
                    /\ segment'[suspense'[b].fallback].boundary = b
                    /\ segment'[suspense'[b].content].boundary = NoBoundary
                    /\ ~segment'[suspense'[b].content].task
                    /\ segment'[suspense'[b].content].parent = NoSegment
                    /\ suspense'[b].outer < b
                    /\ suspense'[b].outer # Root =>
                          suspense'[suspense'[b].outer].fallback < suspense'[b].fallback
    <3>1. suspense[b].outer \in Boundaries \cup {Root}
      BY <1>0, InvTypes
    <3>2. /\ suspense'[b].outer = suspense[b].outer
          /\ suspense'[b].fallback = suspense[b].fallback
          /\ suspense'[b].content = suspense[b].content
          /\ suspense'[suspense[b].outer].fallback = suspense[suspense[b].outer].fallback
          /\ boundaries' = boundaries /\ segments' = segments
          /\ b > boundaries => suspense'[b] = NewBoundary
      BY <3>1 DEF SameNest, SameShape, NewKept
    <3>3. b <= boundaries =>
              /\ suspense[b].fallback \in Segments /\ suspense[b].content \in Segments
              /\ suspense[b].content = suspense[b].fallback + 1
              /\ suspense[b].content <= segments
              /\ segment[suspense[b].fallback].boundary = b
              /\ segment[suspense[b].content].boundary = NoBoundary
              /\ ~segment[suspense[b].content].task
              /\ segment[suspense[b].content].parent = NoSegment
              /\ suspense[b].outer < b
              /\ suspense[b].outer # Root =>
                    suspense[suspense[b].outer].fallback < suspense[b].fallback
      BY <1>0 DEF BoundaryTree
    <3>4. b <= boundaries =>
              /\ segment'[suspense[b].fallback].boundary = b
              /\ segment'[suspense[b].content].boundary = NoBoundary
              /\ ~segment'[suspense[b].content].task
              /\ segment'[suspense[b].content].parent = NoSegment
      BY <3>3 DEF SameShape
    <3> QED BY <3>2, <3>3, <3>4
  <2> QED BY <2>1 DEF BoundaryTree
<1> QED BY <1>1, <1>2

LEMMA PlaceFrame ==
    ASSUME Inv, SameShape, SameNest, NEW place \in Places, PlaceOf(place),
           opened' = << >> \/ (opened' = opened /\ running' = running /\ running \in Segments)
    PROVE  PlaceOf(place)'
<1>0. TypeOK /\ SegmentTree /\ BoundaryTree /\ OpenState /\ RunState
  BY DEF Inv
<1>1. /\ place.home[RootSegment] = Root /\ place.reg[RootSegment] = Root
      /\ place.rank[Root] = 0
  BY DEF PlaceOf
<1>2. ASSUME NEW s \in Segments, s <= segments'
      PROVE
          /\ place.home[s] <= boundaries' /\ place.reg[s] <= boundaries'
          /\ Before(place.rank, place.home[s], place.reg[s])
          /\ segment'[s].task => place.reg[s] = segment'[s].blockedBoundary
          /\ segment'[s].task /\ segment'[s].boundary = NoBoundary =>
                place.home[s] = segment'[s].abortSet
          /\ segment'[s].boundary # NoBoundary =>
                place.reg[s] = suspense'[segment'[s].boundary].outer
          /\ segment'[s].parent # NoSegment =>
                /\ place.reg[s] = place.reg[segment'[s].parent]
                /\ place.home[s] = IF segment'[segment'[s].parent].boundary # NoBoundary
                                   THEN segment'[segment'[s].parent].boundary
                                   ELSE place.home[segment'[s].parent]
  <2>1. /\ segment[s].boundary \in Boundaries \cup {Root}
        /\ segment[s].parent \in Segments \cup {NoSegment}
    BY <1>0, InvTypes
  <2>2. /\ segments' = segments /\ boundaries' = boundaries
        /\ segment'[s].parent = segment[s].parent
        /\ segment'[s].boundary = segment[s].boundary
        /\ segment'[s].task = segment[s].task
        /\ segment'[s].blockedBoundary = segment[s].blockedBoundary
        /\ segment'[s].abortSet = segment[s].abortSet
        /\ suspense'[segment[s].boundary].outer = suspense[segment[s].boundary].outer
        /\ segment[s].parent # NoSegment =>
              segment'[segment[s].parent].boundary = segment[segment[s].parent].boundary
    BY <2>1 DEF SameShape, SameNest
  <2>3. /\ place.home[s] <= boundaries /\ place.reg[s] <= boundaries
        /\ Before(place.rank, place.home[s], place.reg[s])
        /\ segment[s].task => place.reg[s] = segment[s].blockedBoundary
        /\ segment[s].task /\ segment[s].boundary = NoBoundary =>
              place.home[s] = segment[s].abortSet
        /\ segment[s].boundary # NoBoundary =>
              place.reg[s] = suspense[segment[s].boundary].outer
        /\ segment[s].parent # NoSegment =>
              /\ place.reg[s] = place.reg[segment[s].parent]
              /\ place.home[s] = IF segment[segment[s].parent].boundary # NoBoundary
                                 THEN segment[segment[s].parent].boundary
                                 ELSE place.home[segment[s].parent]
    BY <1>2, <2>2 DEF PlaceOf
  <2> QED BY <2>2, <2>3
<1>3. ASSUME NEW b \in Boundaries, b <= boundaries'
      PROVE
          /\ Before(place.rank, b, suspense'[b].outer)
          /\ place.reg[suspense'[b].content] = b
          /\ place.home[suspense'[b].content] = place.home[suspense'[b].fallback]
  <2>1. boundaries' = boundaries /\ b \in Boundaries \cup {Root}
        /\ suspense'[b].outer = suspense[b].outer
        /\ suspense'[b].fallback = suspense[b].fallback
        /\ suspense'[b].content = suspense[b].content
    BY DEF SameNest
  <2>2. /\ Before(place.rank, b, suspense[b].outer)
        /\ place.reg[suspense[b].content] = b
        /\ place.home[suspense[b].content] = place.home[suspense[b].fallback]
    BY <1>3, <2>1 DEF PlaceOf
  <2> QED BY <2>1, <2>2
<1>4. ASSUME NEW i \in DOMAIN opened'
      PROVE  place.home[suspense'[opened'[i]].content] = segment'[running'].abortSet
  <2>1. opened' = opened /\ running' = running /\ running \in Segments
    BY <1>4, EmptyCalls
  <2>2. opened[i] \in Boundaries /\ i \in DOMAIN opened
    <3>1. opened \in Seq(Boundaries)
      BY <1>0 DEF TypeOK
    <3> QED BY <1>4, <2>1, <3>1, LenProperties
  <2>3. place.home[suspense[opened[i]].content] = segment[running].abortSet
    BY <2>2 DEF PlaceOf
  <2> QED BY <2>1, <2>2, <2>3 DEF SameShape, SameNest
<1> QED BY <1>1, <1>2, <1>3, <1>4 DEF PlaceOf, Before

LEMMA FateFrame ==
    ASSUME Inv, TypeOK', SameShape, SameFate, SameNest, SameProgress,
           UNCHANGED <<client, wrappers, queueVars, opened>>,
           requestStatus' = "OPEN" => requestStatus = "OPEN"
    PROVE  /\ Live' = Live /\ Complete' = Complete /\ Shown' = Shown /\ Reached' = Reached
           /\ Written' = Written /\ \A b : BlockedBy(b)' = BlockedBy(b)
           /\ \A home, reg : ShownState(home, reg) => ShownState(home, reg)'
           /\ ClientState' /\ QueuedOnce'
           /\ RootState' /\ ReadyState' /\ OverState'
<1>0. TypeOK /\ SegmentTree /\ BoundaryTree
  BY DEF Inv
<1>1. Live' = Live /\ \A b : BlockedBy(b)' = BlockedBy(b)
  <2>1. Live' = Live
    BY DEF Live, SameShape, SameFate
  <2>2. Live \subseteq Segments
    BY DEF Live
  <2> QED BY <2>1, <2>2 DEF BlockedBy, SameShape
<1>2. Complete' = Complete
  BY DEF Complete, SameNest, SameProgress
<1>3. Shown' = Shown /\ Reached' = Reached
  BY DEF Shown, Reached, SameShape, SameFate
<1>4. Written' = Written
  BY DEF Written, SameShape, SameFate
<1>5. ASSUME NEW home, NEW reg, ShownState(home, reg) PROVE ShownState(home, reg)'
  <2>1. ASSUME NEW s \in Segments
        PROVE /\ s \in Reached => home[s] \in Shown /\ reg[s] \in Shown
              /\ segment'[s].boundary # NoBoundary /\ segment'[s].parentFlushed =>
                    s \in Reached
              /\ segment'[s].boundary # NoBoundary /\ s \in Reached =>
                    segment'[segment'[s].parent].status = "FLUSHED"
    <3>1. segment[s].boundary # NoBoundary => segment[s].parent \in Segments
      BY <1>0, InvTypes DEF SegmentTree
    <3>2. segment[s].boundary # NoBoundary =>
             segment'[segment[s].parent].status = segment[segment[s].parent].status
      BY <3>1 DEF SameFate
    <3> QED BY <1>5, <3>2 DEF ShownState, SameShape, SameFate
  <2> QED BY <1>3, <2>1 DEF ShownState
<1>6. ClientState'
  <2>1. /\ clientRenderedBoundaries \in Seq(Boundaries) /\ completedBoundaries \in Seq(Boundaries)
        /\ partialBoundaries \in Seq(Boundaries)
    BY <1>0 DEF TypeOK
  <2>2. /\ ToSet(clientRenderedBoundaries) \subseteq Boundaries
    BY <2>1, RangeOfSet DEF ToSet, Range
  <2> QED BY <1>2, <2>2 DEF ClientState, Inv, SameProgress, queueVars
<1>7. QueuedOnce'
  <2> SUFFICES ASSUME NEW b \in Boundaries
               PROVE
        /\ Count(clientRenderedBoundaries', b) =
             IF client'[b] = "pending" /\ suspense'[b].forceClientRender THEN 1 ELSE 0
        /\ \/ Count(completedBoundaries', b) =
                 IF client'[b] = "pending" /\ ~suspense'[b].forceClientRender
                      /\ suspense'[b].pendingTasks = 0 THEN 1 ELSE 0
           \/ Count(completedBoundaries', b) = 1 /\ ShownTwice(b)'
    BY Zenon DEF QueuedOnce
  <2>1. /\ Count(clientRenderedBoundaries, b) =
             IF client[b] = "pending" /\ suspense[b].forceClientRender THEN 1 ELSE 0
        /\ \/ Count(completedBoundaries, b) =
                 IF client[b] = "pending" /\ ~suspense[b].forceClientRender
                      /\ suspense[b].pendingTasks = 0 THEN 1 ELSE 0
           \/ Count(completedBoundaries, b) = 1 /\ ShownTwice(b)
    BY DEF Inv, QueuedOnce
  <2>2. ShownTwice(b) => ShownTwice(b)'
    <3> SUFFICES ASSUME ShownTwice(b) PROVE ShownTwice(b)'
      OBVIOUS
    <3>1. client[b] = "completed"
      BY DEF ShownTwice
    <3>2. b <= boundaries
      BY <3>1 DEF Inv, ClientState, Complete
    <3>3. suspense[b].fallback \in Segments
      BY <1>0, <3>2 DEF BoundaryTree
    <3> QED BY <3>3 DEF ShownTwice, SameNest, SameFate
  <2>3. /\ client'[b] = client[b] /\ clientRenderedBoundaries' = clientRenderedBoundaries
        /\ completedBoundaries' = completedBoundaries
        /\ suspense'[b].forceClientRender = suspense[b].forceClientRender
        /\ suspense'[b].pendingTasks = suspense[b].pendingTasks
    BY DEF SameProgress, queueVars
  <2> QED BY <2>1, <2>2, <2>3
<1>8. RootState'
  <2>1. RootSegment \in Segments /\ Root \in Boundaries \cup {Root}
    BY <1>0, InvTypes
  <2>2. /\ segment'[RootSegment].status = segment[RootSegment].status
        /\ segment'[RootSegment].parentFlushed = segment[RootSegment].parentFlushed
        /\ suspense'[Root].pendingTasks = suspense[Root].pendingTasks
        /\ suspense'[Root].completedSegments = suspense[Root].completedSegments
    BY <2>1 DEF SameFate, SameProgress
  <2>3. \A s \in Segments : /\ segment'[s].task = segment[s].task
                            /\ segment'[s].parentFlushed = segment[s].parentFlushed
    BY DEF SameShape, SameFate
  <2>4. RootState /\ client' = client
    BY DEF Inv
  <2> QED BY <2>2, <2>3, <2>4 DEF RootState
<1>9. ReadyState'
  <2>1. ASSUME NEW b \in Boundaries, b <= boundaries'
        PROVE
        /\ \A s \in ToSet(suspense'[b].completedSegments) :
              /\ s > suspense'[b].fallback /\ s <= segments'
              /\ segment'[s].status \in {"COMPLETED", "FLUSHED"}
              /\ \/ s = suspense'[b].content
                 \/ /\ segment'[s].task /\ segment'[s].blockedBoundary = b
                    /\ segment'[s].parentFlushed /\ segment'[s].id # NoID
        /\ (\A i \in DOMAIN opened' : opened'[i] # b) /\ ~suspense'[b].forceClientRender =>
              \/ suspense'[b].content \in ToSet(suspense'[b].completedSegments)
              \/ segment'[suspense'[b].content].status = "FLUSHED"
        /\ client'[b] = "completed" =>
              \A s \in ToSet(suspense'[b].completedSegments) : s \in Written'
    <3>1. b <= boundaries /\ segments' = segments
      BY <2>1 DEF SameNest, SameShape
    <3>2. ToSet(suspense[b].completedSegments) \subseteq Segments /\ suspense[b].content \in Segments
      <4>1. suspense[b].completedSegments \in Seq(Segments)
        BY <1>0, InvTypes
      <4> QED BY <1>0, <3>1, <4>1, RangeOfSet DEF ToSet, Range, BoundaryTree
    <3>3. /\ suspense'[b].completedSegments = suspense[b].completedSegments
          /\ suspense'[b].fallback = suspense[b].fallback /\ suspense'[b].content = suspense[b].content
          /\ suspense'[b].forceClientRender = suspense[b].forceClientRender
      BY DEF SameNest, SameProgress
    <3>4. \A s \in Segments : /\ segment'[s].status = segment[s].status
                              /\ segment'[s].task = segment[s].task
                              /\ segment'[s].blockedBoundary = segment[s].blockedBoundary
                              /\ segment'[s].parentFlushed = segment[s].parentFlushed
                              /\ segment'[s].id = segment[s].id
      BY DEF SameShape, SameFate
    <3>5. /\ \A s \in ToSet(suspense[b].completedSegments) :
              /\ s > suspense[b].fallback /\ s <= segments
              /\ segment[s].status \in {"COMPLETED", "FLUSHED"}
              /\ \/ s = suspense[b].content
                 \/ /\ segment[s].task /\ segment[s].blockedBoundary = b
                    /\ segment[s].parentFlushed /\ segment[s].id # NoID
          /\ (\A i \in DOMAIN opened : opened[i] # b) /\ ~suspense[b].forceClientRender =>
              \/ suspense[b].content \in ToSet(suspense[b].completedSegments)
              \/ segment[suspense[b].content].status = "FLUSHED"
          /\ client[b] = "completed" =>
              \A s \in ToSet(suspense[b].completedSegments) : s \in Written
      BY <3>1 DEF Inv, ReadyState
    <3>6. opened' = opened /\ client' = client /\ completedBoundaries' = completedBoundaries
      BY DEF queueVars
    <3> QED BY <1>4, <3>1, <3>2, <3>3, <3>4, <3>5, <3>6
  <2> QED BY <2>1 DEF ReadyState
<1>10. OverState'
  <2>1. ASSUME NEW s \in Segments, segment'[s].task
        PROVE
        /\ segment'[s].parentFlushed /\ s # RootSegment =>
              segment'[s].id # NoID \/ segment'[s].status = "FLUSHED"
        /\ segment'[s].status = "ABORTED" =>
              \/ requestStatus' # "OPEN"
              \/ segment'[s].blockedBoundary # Root
                   /\ suspense'[segment'[s].blockedBoundary].forceClientRender
              \/ segment'[s].abortSet \in Complete
        /\ segment'[s].status = "ERRORED" =>
              \/ requestStatus' # "OPEN"
              \/ segment'[s].blockedBoundary # Root
                   /\ suspense'[segment'[s].blockedBoundary].forceClientRender
        /\ segment'[s].status = "COMPLETED" /\ segment'[s].parentFlushed =>
              \/ segment'[s].blockedBoundary = Root /\ s = RootSegment
              \/ /\ segment'[s].blockedBoundary # Root
                 /\ \/ suspense'[segment'[s].blockedBoundary].forceClientRender
                    \/ s \in ToSet(suspense'[segment'[s].blockedBoundary].completedSegments)
                    \/ s \in Written
    <3>1. segment[s].blockedBoundary \in Boundaries \cup {Root}
      BY <1>0, InvTypes
    <3> QED BY <2>1, <3>1 DEF Inv, OverState, SameShape, SameFate, SameProgress
  <2> QED BY <1>2, <1>4, <2>1 DEF OverState
<1> QED BY <1>1, <1>2, <1>3, <1>4, <1>5, <1>6, <1>7, <1>8, <1>9, <1>10

SegmentRecord ==
    [status : {"PENDING", "COMPLETED", "FLUSHED", "ABORTED", "ERRORED"},
     parentFlushed : BOOLEAN, id : Nat, parent : Segments \cup {NoSegment},
     boundary : Boundaries \cup {NoBoundary}, task : BOOLEAN,
     blockedBoundary : Boundaries \cup {Root}, abortSet : Boundaries \cup {Root},
     suspended : BOOLEAN]

BoundaryRecord ==
    [pendingTasks : Nat, forceClientRender : BOOLEAN, parentFlushed : BOOLEAN,
     completedSegments : Seq(Segments), fallbackAbortableTasks : SUBSET Segments,
     rootSegmentID : Nat, outer : Boundaries \cup {Root},
     fallback : Segments \cup {NoSegment}, content : Segments \cup {NoSegment}]

LEMMA RecordTypes ==
    /\ TypeOK => /\ segment \in [Segments -> SegmentRecord]
                 /\ suspense \in [Boundaries \cup {Root} -> BoundaryRecord]
    /\ TypeOK' => /\ segment' \in [Segments -> SegmentRecord]
                  /\ suspense' \in [Boundaries \cup {Root} -> BoundaryRecord]
  BY DEF TypeOK, SegmentRecord, BoundaryRecord

LEMMA TypeNext ==
    ASSUME TypeOK,
           segment' \in [Segments -> SegmentRecord], segments' \in Segments,
           suspense' \in [Boundaries \cup {Root} -> BoundaryRecord],
           boundaries' \in Boundaries \cup {Root},
           allPendingTasks' \in Nat, pingedTasks' \in Seq(Segments),
           clientRenderedBoundaries' \in Seq(Boundaries),
           completedBoundaries' \in Seq(Boundaries), partialBoundaries' \in Seq(Boundaries),
           requestStatus' \in {"OPEN", "CLOSING", "CLOSED"}, flowing' \in BOOLEAN,
           UNCHANGED next, running' \in Segments \cup {NoTask}, opened' \in Seq(Boundaries),
           started' \in BOOLEAN, scheduled' \in Nat, piped' \in BOOLEAN, UNCHANGED aborted,
           ended' \in {"no", "closed", "error", "aborted"},
           client' \in [Boundaries -> {"none", "pending", "completed", "client"}],
           wrappers' \in [Boundaries -> Seq({"pending", "completed", "client"})],
           thrown' \in BOOLEAN, retries' \in 0..MaxRetries
    PROVE  TypeOK'
  BY DEF TypeOK, SegmentRecord, BoundaryRecord

LEMMA ControlTypes ==
    ASSUME TypeOK
    PROVE  /\ segment \in [Segments -> SegmentRecord] /\ segments \in Segments
           /\ suspense \in [Boundaries \cup {Root} -> BoundaryRecord]
           /\ boundaries \in Boundaries \cup {Root}
           /\ allPendingTasks \in Nat /\ pingedTasks \in Seq(Segments)
           /\ clientRenderedBoundaries \in Seq(Boundaries)
           /\ completedBoundaries \in Seq(Boundaries) /\ partialBoundaries \in Seq(Boundaries)
           /\ requestStatus \in {"OPEN", "CLOSING", "CLOSED"} /\ flowing \in BOOLEAN
           /\ next \in Nat /\ running \in Segments \cup {NoTask} /\ opened \in Seq(Boundaries)
           /\ started \in BOOLEAN /\ scheduled \in Nat /\ piped \in BOOLEAN /\ aborted \in BOOLEAN
           /\ ended \in {"no", "closed", "error", "aborted"}
           /\ client \in [Boundaries -> {"none", "pending", "completed", "client"}]
           /\ wrappers \in [Boundaries -> Seq({"pending", "completed", "client"})]
           /\ thrown \in BOOLEAN /\ retries \in 0..MaxRetries
  BY DEF TypeOK, SegmentRecord, BoundaryRecord

LEMMA TaskIsMade ==
    ASSUME Inv, NEW s \in Segments, segment[s].task
    PROVE  s <= segments
<1>1. s \in Nat /\ segments \in Nat
  BY InvTypes DEF Inv
<1>2. ~ NewSegment.task
  BY DEF NewSegment
<1> QED BY <1>1, <1>2 DEF Inv, SegmentTree

(* A step between calls that changes no task.                              *)
LEMMA WaitFrame ==
    ASSUME Inv, TypeOK', calls = << >>, calls' = << >>, SameShape, SameFate, NewKept,
           UNCHANGED <<suspense, boundaries, client, wrappers, queueVars, opened, allPendingTasks,
                       requestStatus, flowing, ended>>,
           opened = << >> \/ running' = running,
           running' # NoTask => running' = running,
           \A i \in DOMAIN pingedTasks' : segment[pingedTasks'[i]].task,
           pingedTasks' \in Seq(Segments),
           \A s \in Segments : segment'[s].suspended => segment[s].task,
           opened # << >> => started'
    PROVE  Inv'
<1>0. TypeOK /\ SameNest /\ SameProgress
  BY DEF Inv, SameNest, SameProgress
<1>1. /\ Live' = Live /\ Complete' = Complete /\ Shown' = Shown /\ Reached' = Reached
      /\ Written' = Written /\ \A b : BlockedBy(b)' = BlockedBy(b)
      /\ \A home, reg : ShownState(home, reg) => ShownState(home, reg)'
      /\ ClientState' /\ QueuedOnce'
      /\ RootState' /\ ReadyState' /\ OverState'
  BY <1>0, FateFrame
<1>2. SegmentTree' /\ BoundaryTree'
  BY <1>0, ShapeFrame
<1>3. RunState'
  <2>1. \A i \in DOMAIN pingedTasks' : pingedTasks'[i] \in Segments
    BY LenProperties
  <2>2. \A i \in DOMAIN pingedTasks' : segment'[pingedTasks'[i]].task
    BY <2>1 DEF SameShape
  <2>3. \A s \in Segments : segment'[s].suspended => segment'[s].task
    BY DEF SameShape
  <2>4. /\ running' # NoTask => running' \in Live' /\ calls' = << >>
        /\ opened' # << >> => running' # NoTask /\ started'
    BY <1>1 DEF Inv, RunState
  <2> QED BY <2>2, <2>3, <2>4 DEF RunState
<1>4. OpenState'
  <2>1. CASE opened = << >>
    <3>1. DOMAIN opened' = {}
      BY <2>1
    <3> QED BY <3>1 DEF OpenState
  <2>2. CASE opened # << >>
    <3>1. opened' = opened /\ running' = running /\ running \in Segments
      BY <2>2 DEF Inv, RunState, Live
    <3>2. \A i \in DOMAIN opened : opened[i] \in Boundaries /\ opened[i] <= boundaries
      BY <1>0, LenProperties DEF TypeOK, Inv, OpenState
    <3>3. \A i \in DOMAIN opened :
             suspense[opened[i]].fallback \in Segments /\ suspense[opened[i]].content \in Segments
      BY <3>2 DEF Inv, BoundaryTree
    <3> QED BY <3>1, <3>2, <3>3 DEF Inv, OpenState, SameShape, SameFate
  <2> QED BY <2>1, <2>2
<1>5. CountState'
  <2>1. segment'[RootSegment].status = segment[RootSegment].status
    <3>1. RootSegment \in Segments
      BY <1>0, InvTypes
    <3> QED BY <3>1 DEF SameFate
  <2> QED BY <1>1, <2>1 DEF Inv, CountState
<1>6. Placed'
  <2>1. PICK place \in Places : /\ PlaceOf(place)
                                /\ StackState(place.rank)
                                /\ ShownState(place.home, place.reg)
    BY DEF Inv, Placed
  <2>2. opened' = << >> \/ (opened' = opened /\ running' = running /\ running \in Segments)
    BY DEF Inv, RunState, Live
  <2>3. PlaceOf(place)'
    BY <1>0, <2>1, <2>2, PlaceFrame
  <2>4. StackState(place.rank)'
    BY EmptyCalls DEF StackState
  <2> QED BY <1>1, <2>1, <2>3, <2>4, Zenon DEF Placed
<1>7. SetState'
  <2>1. DOMAIN calls = {} /\ DOMAIN calls' = {}
    BY EmptyCalls
  <2>2. ASSUME NEW a \in Boundaries \cup {Root}, NEW s \in suspense[a].fallbackAbortableTasks
        PROVE segment'[s].task /\ segment'[s].abortSet = a /\ s \in Live
    <3>1. s \in Segments
      BY <1>0, InvTypes
    <3>2. segment[s].task /\ segment[s].abortSet = a /\ s \in Live
      BY <2>1 DEF Inv, SetState
    <3> QED BY <3>1, <3>2 DEF SameShape
  <2> QED BY <1>1, <2>1, <2>2 DEF SetState
<1>8. FlowState'
  <2>1. /\ Quiet(calls) /\ (flowing => requestStatus = "OPEN" \/ ended # "no")
    BY NoCalls DEF Inv, FlowState
  <2>2. ended = "closed" =>
              /\ requestStatus = "OPEN" /\ allPendingTasks = 0
              /\ clientRenderedBoundaries = << >> /\ completedBoundaries = << >>
              /\ segment[RootSegment].status = "FLUSHED"
    BY <2>1, ClosedState, QuietClosed
  <2>3. segment'[RootSegment].status = segment[RootSegment].status
    BY <1>0, InvTypes DEF SameFate
  <2>4. Quiet(calls)'
    BY <2>1 DEF Quiet
  <2> QED BY <2>1, <2>2, <2>3, <2>4, FlowQuiet DEF queueVars
<1>9. calls' \in Seq(CallType)
  BY EmptyCalls
<1> QED BY <1>1, <1>2, <1>3, <1>4, <1>5, <1>6, <1>7, <1>8, <1>9, Zenon DEF Inv

LEMMA PingTaskStep ==
    ASSUME Inv, NEW s \in Segments, PingTask(s)
    PROVE  Inv'
<1>0. TypeOK
  BY DEF Inv
<1>1. /\ calls = << >> /\ running = NoTask /\ opened = << >> /\ segment[s].suspended
      /\ segment' = [segment EXCEPT ![s].suspended = FALSE]
      /\ pingedTasks' = Append(pingedTasks, s)
      /\ scheduled' \in {scheduled, scheduled + 1}
      /\ UNCHANGED <<segments, boundaryVars, allPendingTasks, queueVars, outVars, calls, next,
                     renderVars, userVars>>
  BY DEF PingTask, Idle, Inv, RunState, ScheduleWork
<1>2. segment[s].task
  BY <1>1 DEF Inv, RunState
<1>3. /\ \A t \in Segments : t # s => segment'[t] = segment[t]
      /\ segment'[s] = [segment[s] EXCEPT !.suspended = FALSE]
      /\ segment' \in [Segments -> SegmentRecord]
  <2>1. segment \in [Segments -> SegmentRecord]
    BY <1>0, ControlTypes
  <2>2. [segment[s] EXCEPT !.suspended = FALSE] \in SegmentRecord
    BY <2>1 DEF SegmentRecord
  <2> QED BY <1>1, <2>1, <2>2
<1>4. /\ segment'[s].parent = segment[s].parent /\ segment'[s].boundary = segment[s].boundary
      /\ segment'[s].task = segment[s].task
      /\ segment'[s].blockedBoundary = segment[s].blockedBoundary
      /\ segment'[s].abortSet = segment[s].abortSet
      /\ segment'[s].status = segment[s].status
      /\ segment'[s].parentFlushed = segment[s].parentFlushed
      /\ segment'[s].id = segment[s].id
      /\ segment'[s].suspended = FALSE
  <2>1. segment[s] \in SegmentRecord
    BY <1>0, ControlTypes
  <2> QED BY <1>3, <2>1 DEF SegmentRecord
<1>5. SameShape
  BY <1>1, <1>3, <1>4 DEF SameShape
<1>6. SameFate
  BY <1>3, <1>4 DEF SameFate
<1>7. NewKept
  <2>1. s <= segments /\ s \in Nat /\ segments \in Nat
    BY <1>0, <1>2, TaskIsMade, InvTypes
  <2>2. \A t \in Segments : t > segments => t # s
    BY <2>1
  <2> QED BY <1>1, <1>3, <2>2 DEF NewKept, Inv, SegmentTree, BoundaryTree, boundaryVars
<1>8. /\ pingedTasks' \in Seq(Segments)
      /\ \A i \in DOMAIN pingedTasks' : segment[pingedTasks'[i]].task
  <2>1. pingedTasks \in Seq(Segments)
    BY <1>0, ControlTypes
  <2>2. /\ Append(pingedTasks, s) \in Seq(Segments) /\ Len(pingedTasks) \in Nat
        /\ DOMAIN pingedTasks = 1..Len(pingedTasks)
        /\ DOMAIN Append(pingedTasks, s) = 1..(Len(pingedTasks) + 1)
        /\ \A i \in DOMAIN pingedTasks : Append(pingedTasks, s)[i] = pingedTasks[i]
        /\ Append(pingedTasks, s)[Len(pingedTasks) + 1] = s
    BY <2>1, AppendElements
  <2>3. ASSUME NEW i \in DOMAIN pingedTasks' PROVE segment[pingedTasks'[i]].task
    <3>1. CASE i \in DOMAIN pingedTasks
      BY <1>1, <2>2, <3>1 DEF Inv, RunState
    <3>2. CASE i = Len(pingedTasks) + 1
      BY <1>1, <1>2, <2>2, <3>2
    <3>3. i \in 1..(Len(pingedTasks) + 1)
      BY <1>1, <2>2
    <3>4. i \in DOMAIN pingedTasks \/ i = Len(pingedTasks) + 1
      BY <2>2, <3>3
    <3> QED BY <3>1, <3>2, <3>4
  <2> QED BY <1>1, <2>2, <2>3
<1>9. TypeOK'
  <2>1. scheduled \in Nat
    BY <1>0, ControlTypes
  <2>2. scheduled' \in Nat
    BY <1>1, <2>1
  <2> QED BY <1>0, <1>1, <1>3, <1>8, <2>2, ControlTypes, TypeNext
        DEF boundaryVars, queueVars, outVars, renderVars, userVars
<1>10. /\ UNCHANGED <<suspense, boundaries, client, wrappers, queueVars, opened, allPendingTasks,
                      requestStatus, flowing, ended, running, calls>>
  BY <1>1 DEF boundaryVars, outVars, renderVars
<1>11. \A t \in Segments : segment'[t].suspended => segment[t].task
  BY <1>3, <1>4 DEF Inv, RunState
<1> QED BY <1>1, <1>5, <1>6, <1>7, <1>8, <1>9, <1>10, <1>11, WaitFrame

LEMMA SuspendAgainStep ==
    ASSUME Inv, SuspendAgain
    PROVE  Inv'
<1>0. TypeOK
  BY DEF Inv
<1>1. /\ calls = << >> /\ running \in Live /\ opened = << >>
      /\ segment' = [segment EXCEPT ![running].suspended = TRUE]
      /\ retries < MaxRetries /\ retries' = retries + 1 /\ running' = NoTask
      /\ UNCHANGED <<segments, boundaryVars, allPendingTasks, pingedTasks, queueVars, outVars,
                     calls, next, opened, started, scheduled, userVars>>
  BY DEF SuspendAgain, Rendering, Inv, RunState
<1> DEFINE s == running
<1>2. s \in Segments /\ segment[s].task
  BY <1>1 DEF Live
<1> HIDE DEF s
<1>3. /\ \A t \in Segments : t # s => segment'[t] = segment[t]
      /\ segment'[s] = [segment[s] EXCEPT !.suspended = TRUE]
      /\ segment' \in [Segments -> SegmentRecord]
  <2>1. segment \in [Segments -> SegmentRecord]
    BY <1>0, ControlTypes
  <2>2. [segment[s] EXCEPT !.suspended = TRUE] \in SegmentRecord
    BY <1>2, <2>1 DEF SegmentRecord
  <2> QED BY <1>1, <1>2, <2>1, <2>2 DEF s
<1>4. /\ segment'[s].parent = segment[s].parent /\ segment'[s].boundary = segment[s].boundary
      /\ segment'[s].task = segment[s].task
      /\ segment'[s].blockedBoundary = segment[s].blockedBoundary
      /\ segment'[s].abortSet = segment[s].abortSet
      /\ segment'[s].status = segment[s].status
      /\ segment'[s].parentFlushed = segment[s].parentFlushed
      /\ segment'[s].id = segment[s].id
  <2>1. segment[s] \in SegmentRecord
    BY <1>0, <1>2, ControlTypes
  <2> QED BY <1>3, <2>1 DEF SegmentRecord
<1>5. SameShape
  BY <1>1, <1>3, <1>4 DEF SameShape
<1>6. SameFate
  BY <1>3, <1>4 DEF SameFate
<1>7. NewKept
  <2>1. s <= segments /\ s \in Nat /\ segments \in Nat
    BY <1>0, <1>2, TaskIsMade, InvTypes
  <2>2. \A t \in Segments : t > segments => t # s
    BY <2>1
  <2> QED BY <1>1, <1>3, <2>2 DEF NewKept, Inv, SegmentTree, BoundaryTree, boundaryVars
<1>8. TypeOK'
  <2>1. retries \in 0..MaxRetries /\ MaxRetries \in Nat
    BY <1>0, ControlTypes, FizzAssumption
  <2>2. retries' \in 0..MaxRetries
    BY <1>1, <2>1
  <2> QED BY <1>0, <1>1, <1>3, <2>2, ControlTypes, TypeNext
        DEF boundaryVars, queueVars, outVars, userVars
<1>9. /\ UNCHANGED <<suspense, boundaries, client, wrappers, queueVars, opened, allPendingTasks,
                     requestStatus, flowing, ended, pingedTasks, calls>>
      /\ pingedTasks \in Seq(Segments)
  BY <1>0, <1>1, ControlTypes DEF boundaryVars, outVars
<1>10. \A t \in Segments : segment'[t].suspended => segment[t].task
  BY <1>2, <1>3 DEF Inv, RunState
<1>11. \A i \in DOMAIN pingedTasks' : segment[pingedTasks'[i]].task
  BY <1>9 DEF Inv, RunState
<1> QED BY <1>1, <1>5, <1>6, <1>7, <1>8, <1>9, <1>10, <1>11, WaitFrame

(* A step of the stack that changes no task.                               *)
LEMMA StackFrame ==
    ASSUME Inv, TypeOK', SameShape, SameFate, SameNest, SameProgress, NewKept,
           UNCHANGED <<client, wrappers, queueVars, opened, requestStatus, pingedTasks>>,
           opened = << >>, running' = NoTask, calls' \in Seq(CallType),
           \A s \in Segments : segment'[s].suspended => segment[s].task,
           allPendingTasks' + Count(calls, TD) = allPendingTasks + Count(calls', TD),
           \A rank \in Ranks : rank[Root] = 0 /\ StackState(rank) => StackState(rank)',
           SetState', FlowState'
    PROVE  Inv'
<1>0. TypeOK
  BY DEF Inv
<1>1. /\ Live' = Live /\ Complete' = Complete /\ Shown' = Shown /\ Reached' = Reached
      /\ Written' = Written /\ \A b : BlockedBy(b)' = BlockedBy(b)
      /\ \A home, reg : ShownState(home, reg) => ShownState(home, reg)'
      /\ ClientState' /\ QueuedOnce'
      /\ RootState' /\ ReadyState' /\ OverState'
  BY <1>0, FateFrame
<1>2. SegmentTree' /\ BoundaryTree'
  BY <1>0, ShapeFrame
<1>3. RunState'
  <2>1. \A i \in DOMAIN pingedTasks : pingedTasks[i] \in Segments
    BY <1>0, ControlTypes, LenProperties
  <2>2. \A i \in DOMAIN pingedTasks' : segment'[pingedTasks'[i]].task
    BY <2>1 DEF SameShape, Inv, RunState
  <2>3. \A s \in Segments : segment'[s].suspended => segment'[s].task
    BY DEF SameShape
  <2> QED BY <2>2, <2>3 DEF RunState
<1>4. OpenState'
  <2>1. DOMAIN opened' = {}
    OBVIOUS
  <2> QED BY <2>1 DEF OpenState
<1>5. CountState'
  <2>1. /\ Count(calls, TD) \in Nat /\ Count(calls', TD) \in Nat
        /\ Cardinality(Live) \in Nat /\ allPendingTasks \in Nat /\ allPendingTasks' \in Nat
    BY CountType, Sets, ControlTypes DEF Inv, TypeOK
  <2>2. allPendingTasks = Cardinality(Live) + Count(calls, TD)
    BY DEF Inv, CountState, TD
  <2>3. allPendingTasks' = Cardinality(Live) + Count(calls', TD)
    BY <2>1, <2>2
  <2>4. /\ \A b \in Boundaries : suspense'[b].pendingTasks = Cardinality(BlockedBy(b))
        /\ suspense'[Root].pendingTasks >= Cardinality(BlockedBy(Root))
        /\ requestStatus = "OPEN" => suspense'[Root].pendingTasks = Cardinality(BlockedBy(Root))
    BY DEF Inv, CountState, SameProgress
  <2>5. segment'[RootSegment].status \in {"ABORTED", "ERRORED"} =>
           suspense'[Root].pendingTasks > Cardinality(BlockedBy(Root))
    <3>1. RootSegment \in Segments
      BY <1>0, InvTypes
    <3> QED BY <3>1 DEF Inv, CountState, SameProgress, SameFate
  <2> QED BY <1>1, <2>3, <2>4, <2>5, Zenon DEF CountState, TD
<1>6. Placed'
  <2>1. PICK place \in Places : /\ PlaceOf(place)
                                /\ StackState(place.rank)
                                /\ ShownState(place.home, place.reg)
    BY DEF Inv, Placed
  <2>2. PlaceOf(place)'
    BY <1>0, <2>1, PlaceFrame
  <2>3. StackState(place.rank)'
    <3>1. place.rank \in Ranks /\ place.rank[Root] = 0
      BY <2>1 DEF Places, PlaceOf
    <3> QED BY <2>1, <3>1
  <2> QED BY <1>1, <2>1, <2>2, <2>3, Zenon DEF Placed
<1> QED BY <1>1, <1>2, <1>3, <1>4, <1>5, <1>6, Zenon DEF Inv

LEMMA SameBoundary ==
    ASSUME NEW r \in BoundaryRecord, NEW q \in BoundaryRecord,
           r.pendingTasks = q.pendingTasks, r.forceClientRender = q.forceClientRender,
           r.parentFlushed = q.parentFlushed, r.completedSegments = q.completedSegments,
           r.fallbackAbortableTasks = q.fallbackAbortableTasks,
           r.rootSegmentID = q.rootSegmentID, r.outer = q.outer,
           r.fallback = q.fallback, r.content = q.content
    PROVE  r = q
  BY DEF BoundaryRecord

LEMMA ClearAbortableTasksStep ==
    ASSUME Inv, ClearAbortableTasks
    PROVE  Inv'
<1>0. TypeOK
  BY DEF Inv
<1>1. /\ calls # << >> /\ Head(calls).f = "clear" /\ calls' = Rest
      /\ suspense' = [suspense EXCEPT ![Arg].fallbackAbortableTasks = {}]
      /\ UNCHANGED <<segmentVars, boundaries, allPendingTasks, pingedTasks, queueVars, outVars,
                     next, renderVars, scheduled, userVars>>
  BY DEF ClearAbortableTasks, Calls
<1> DEFINE a == Arg
<1>2. /\ Rest \in Seq(CallType) /\ Head(calls) = Call("clear", a) /\ a \in Boundaries \cup {Root}
      /\ Count(calls, TD) = Count(Rest, TD) + 0 /\ Count(Rest, TD) \in Nat
      /\ Quiet(Rest)
  <2>1. Head(calls) \in CallType /\ Head(calls) = Call(Head(calls).f, Head(calls).x)
    BY <1>1, Pop
  <2>2. a \in Boundaries \cup {Root}
    BY <1>1, <2>1, CallTypes DEF Arg
  <2>3. Head(calls) # TD
    BY <1>1 DEF TD, Call
  <2>4. Quiet(Rest)
    BY <1>1, QuietRest DEF FlushCalls, Rest
  <2> QED BY <1>1, <2>1, <2>2, <2>3, <2>4, Pop DEF Arg
<1> HIDE DEF a
<1>3. /\ \A b \in Boundaries \cup {Root} : b # a => suspense'[b] = suspense[b]
      /\ suspense'[a] = [suspense[a] EXCEPT !.fallbackAbortableTasks = {}]
      /\ suspense' \in [Boundaries \cup {Root} -> BoundaryRecord]
  <2>1. suspense \in [Boundaries \cup {Root} -> BoundaryRecord]
    BY <1>0, ControlTypes
  <2> DEFINE r == [suspense[a] EXCEPT !.fallbackAbortableTasks = {}]
  <2>2. suspense[a] \in BoundaryRecord /\ a \in Boundaries \cup {Root}
    BY <1>2, <2>1
  <2>3. r \in BoundaryRecord
    BY <2>2 DEF BoundaryRecord
  <2>4. suspense' = [suspense EXCEPT ![a] = r]
    BY <1>1 DEF a
  <2> HIDE DEF r
  <2>5. /\ \A b \in Boundaries \cup {Root} : b # a => suspense'[b] = suspense[b]
        /\ suspense'[a] = r
        /\ suspense' \in [Boundaries \cup {Root} -> BoundaryRecord]
    BY <2>1, <2>2, <2>3, <2>4
  <2> QED BY <2>5 DEF r
<1>4. /\ suspense'[a].pendingTasks = suspense[a].pendingTasks
      /\ suspense'[a].forceClientRender = suspense[a].forceClientRender
      /\ suspense'[a].parentFlushed = suspense[a].parentFlushed
      /\ suspense'[a].completedSegments = suspense[a].completedSegments
      /\ suspense'[a].rootSegmentID = suspense[a].rootSegmentID
      /\ suspense'[a].outer = suspense[a].outer
      /\ suspense'[a].fallback = suspense[a].fallback
      /\ suspense'[a].content = suspense[a].content
      /\ suspense'[a].fallbackAbortableTasks = {}
  <2>1. suspense[a] \in BoundaryRecord
    BY <1>0, <1>2, ControlTypes
  <2> QED BY <1>3, <2>1 DEF BoundaryRecord
<1>5. SameNest /\ SameProgress
  BY <1>1, <1>3, <1>4 DEF SameNest, SameProgress
<1>6. SameShape /\ SameFate
  BY <1>1 DEF SameShape, SameFate, segmentVars
<1>7. NewKept
  <2>1. ASSUME NEW b \in Boundaries, b > boundaries PROVE suspense'[b] = NewBoundary
    <3>1. suspense[b] = NewBoundary
      BY <2>1 DEF Inv, BoundaryTree
    <3>2. CASE b = a
      <4>1. suspense[a].fallbackAbortableTasks = {}
        BY <3>1, <3>2 DEF NewBoundary
      <4>2. suspense[a] \in BoundaryRecord /\ suspense'[a] \in BoundaryRecord
        BY <1>0, <1>2, <1>3, ControlTypes
      <4>3. suspense'[a] = suspense[a]
        BY <1>4, <4>1, <4>2, SameBoundary
      <4> QED BY <3>1, <3>2, <4>3
    <3> QED BY <1>3, <3>1, <3>2
  <2> QED BY <1>1, <2>1 DEF NewKept, Inv, SegmentTree, segmentVars
<1>8. TypeOK'
  BY <1>0, <1>1, <1>3, ControlTypes, TypeNext
     DEF segmentVars, queueVars, outVars, renderVars, userVars
<1>9. /\ calls[1] = Head(calls) /\ 1 \in DOMAIN calls
      /\ Len(Rest) \in Nat /\ DOMAIN Rest = 1..Len(Rest) /\ DOMAIN calls = 1..(Len(Rest) + 1)
      /\ \A i \in DOMAIN Rest : i + 1 \in DOMAIN calls /\ calls[i + 1] = Rest[i]
      /\ \A i \in DOMAIN calls : i = 1 \/ (i - 1 \in DOMAIN Rest /\ calls[i] = Rest[i - 1])
  <2>1. calls \in Seq(CallType)
    BY DEF Inv
  <2> QED BY <1>1, <2>1, PopCall DEF Rest
<1>10. ASSUME NEW rank, StackState(rank) PROVE StackState(rank)'
  <2>1. \A i \in DOMAIN calls' : Matters(calls'[i]) => i + 1 \in DOMAIN calls /\ calls[i + 1] = calls'[i]
    BY <1>1, <1>9
  <2>2. Live' = Live /\ Complete \subseteq Complete' /\ segment' = segment
    <3>1. segment' = segment /\ opened' = opened /\ boundaries' = boundaries
      BY <1>1 DEF segmentVars, renderVars
    <3> QED BY <1>5, <3>1 DEF Live, Complete, SameProgress
  <2>3. \A i \in DOMAIN calls' : AbortCall(calls'[i]) => calls'[i].x \in Live
    BY <1>10, <2>1 DEF StackState, Matters
  <2>4. DOMAIN calls \subseteq Int /\ DOMAIN calls' \subseteq Int /\ 1 \in Int
    BY <1>1, <1>9
  <2> QED BY <1>10, <2>1, <2>2, <2>3, <2>4, StackShift
<1>11. SetState'
  <2>1. Live' = Live /\ segment' = segment
    BY <1>1 DEF Live, segmentVars
  <2>2. ASSUME NEW b \in Boundaries \cup {Root}, NEW s \in suspense'[b].fallbackAbortableTasks
        PROVE  /\ segment[s].task /\ segment[s].abortSet = b
               /\ \/ s \in Live /\ \A i \in DOMAIN calls' : AbortCall(calls'[i]) => calls'[i].x # s
                  \/ \E i \in DOMAIN calls' : calls'[i] = Call("clear", b)
    <3>1. b # a /\ s \in suspense[b].fallbackAbortableTasks
      BY <1>3, <1>4, <2>2
    <3>2. segment[s].task /\ segment[s].abortSet = b
      BY <3>1 DEF Inv, SetState
    <3>3. CASE s \in Live /\ \A i \in DOMAIN calls : AbortCall(calls[i]) => calls[i].x # s
      BY <1>1, <1>9, <3>2, <3>3
    <3>4. CASE \E i \in DOMAIN calls : calls[i] = Call("clear", b)
      <4>1. PICK i \in DOMAIN calls : calls[i] = Call("clear", b)
        BY <3>4
      <4>2. i # 1
        BY <1>2, <1>9, <3>1, <4>1 DEF Call
      <4>3. i - 1 \in DOMAIN calls' /\ calls'[i - 1] = Call("clear", b)
        BY <1>1, <1>9, <4>1, <4>2
      <4> QED BY <3>2, <4>3
    <3> QED BY <3>1, <3>3, <3>4 DEF Inv, SetState
  <2> QED BY <2>1, <2>2 DEF SetState, AbortCall
<1>12. FlowState'
  <2>1. Quiet(calls) /\ Quiet(calls)'
    BY <1>1, <1>2, QuietRest DEF FlushCalls, Quiet
  <2>2. /\ flowing => requestStatus = "OPEN" \/ ended # "no"
        /\ ended = "closed" =>
              /\ requestStatus = "OPEN" /\ allPendingTasks = 0
              /\ clientRenderedBoundaries = << >> /\ completedBoundaries = << >>
              /\ segment[RootSegment].status = "FLUSHED"
    BY <2>1, ClosedState, QuietClosed DEF Inv, FlowState
  <2> QED BY <1>1, <2>1, <2>2, FlowQuiet DEF segmentVars, queueVars, outVars
<1>13. running = NoTask /\ opened = << >>
  BY <1>1, WithCalls
<1>14. UNCHANGED <<client, wrappers, queueVars, opened, requestStatus, pingedTasks, allPendingTasks, running, segment>>
  BY <1>1 DEF outVars, renderVars, segmentVars
<1>15. allPendingTasks' + Count(calls, TD) = allPendingTasks + Count(calls', TD)
  BY <1>1, <1>2, <1>14
<1>16. \A s \in Segments : segment'[s].suspended => segment[s].task
  BY <1>14 DEF Inv, RunState
<1> QED BY <1>1, <1>2, <1>5, <1>6, <1>7, <1>8, <1>10, <1>11, <1>12, <1>13, <1>14, <1>15, <1>16,
           StackFrame

(* The calls that abort a set.                                             *)
SetPushed(q, f, order, b, r) ==
    /\ \A i \in 1..Len(order) : q[i] = Call(f, order[i])
    /\ q[Len(order) + 1] = Call("clear", b)
    /\ \A i \in 1..Len(r) : q[Len(order) + 1 + i] = r[i]

AbortAll(f, order, b, r) == CallAll(f, order) \o (<< Call("clear", b) >> \o r)

LEMMA PushSet ==
    ASSUME NEW f \in {"abortTask", "abortTaskSoft"}, NEW order \in Seq(Segments),
           NEW b \in Boundaries \cup {Root}, NEW r \in Seq(CallType)
    PROVE  LET q == AbortAll(f, order, b, r) IN
           /\ q \in Seq(CallType) /\ Len(order) \in Nat /\ Len(r) \in Nat
           /\ Len(q) = Len(order) + 1 + Len(r)
           /\ Count(q, TD) = Count(r, TD)
           /\ CallAll(f, order) \in Seq(CallType) /\ << Call("clear", b) >> \in Seq(CallType)
           /\ SetPushed(q, f, order, b, r)
<1> DEFINE c == Call("clear", b)
           m == <<c>> \o r
           n == Len(order)
<1>1. c \in CallType /\ c # TD
  BY CallTypes DEF TD, Call
<1>2. <<c>> \in Seq(CallType)
  BY <1>1
<1> HIDE DEF c
<1>3. /\ m \in Seq(CallType) /\ m[1] = c
      /\ Len(r) \in Nat /\ DOMAIN r = 1..Len(r) /\ DOMAIN m = 1..(Len(r) + 1)
      /\ \A i \in DOMAIN r : m[i + 1] = r[i]
      /\ Count(m, TD) = Count(r, TD)
  <2>1. /\ m \in Seq(CallType) /\ m[1] = c
        /\ Len(r) \in Nat /\ DOMAIN r = 1..Len(r) /\ DOMAIN m = 1..(Len(r) + 1)
        /\ \A i \in DOMAIN r : m[i + 1] = r[i]
        /\ Count(m, TD) = Count(r, TD) + IF c = TD THEN 1 ELSE 0
        /\ Count(r, TD) \in Nat
    BY <1>1, PushCall
  <2> QED BY <1>1, <2>1
<1> HIDE DEF m
<1>4. /\ CallAll(f, order) \in Seq(CallType)
      /\ CallAll(f, order) \o m \in Seq(CallType) /\ n \in Nat
      /\ Len(m) \in Nat /\ DOMAIN m = 1..Len(m) /\ DOMAIN (CallAll(f, order) \o m) = 1..(n + Len(m))
      /\ DOMAIN order = 1..n
      /\ \A i \in DOMAIN order : (CallAll(f, order) \o m)[i] = Call(f, order[i])
      /\ \A i \in DOMAIN m : (CallAll(f, order) \o m)[n + i] = m[i]
      /\ Count(CallAll(f, order) \o m, TD) = Count(m, TD)
  <2>1. m \in Seq(CallType)
    BY <1>3
  <2>2. LET q == CallAll(f, order) \o m
            k == Len(order) IN
        /\ CallAll(f, order) \in Seq(CallType)
        /\ q \in Seq(CallType) /\ k \in Nat
        /\ Len(m) \in Nat /\ DOMAIN m = 1..Len(m) /\ DOMAIN q = 1..(k + Len(m))
        /\ DOMAIN order = 1..k
        /\ \A i \in DOMAIN order : i \in DOMAIN q /\ q[i] = Call(f, order[i])
        /\ \A i \in DOMAIN m : k + i \in DOMAIN q /\ q[k + i] = m[i]
        /\ \A i \in DOMAIN q : i \in DOMAIN order \/ (i - k \in DOMAIN m /\ q[i] = m[i - k])
        /\ Count(q, TD) = Count(m, TD)
    BY <2>1, PushAll, Zenon
  <2> QED BY <2>2
<1> DEFINE q == CallAll(f, order) \o m
<1> HIDE DEF q, n
<1>5. Len(m) = Len(r) + 1
  BY <1>3, <1>4
<1>6. /\ DOMAIN q = 1..(n + 1 + Len(r))
      /\ q[n + 1] = m[1]
      /\ \A i \in DOMAIN r : q[n + 1 + i] = m[i + 1]
  <2>1. 1 \in DOMAIN m /\ \A i \in DOMAIN r : i + 1 \in DOMAIN m /\ n + (i + 1) = n + 1 + i
    BY <1>3, <1>4
  <2>2. (\A i \in DOMAIN m : q[n + i] = m[i]) /\ DOMAIN q = 1..(n + Len(m)) /\ n \in Nat
    BY <1>4 DEF q
  <2>3. \A i \in DOMAIN r : q[n + (i + 1)] = m[i + 1]
    BY <2>1, <2>2
  <2>4. q[n + 1] = m[1]
    BY <2>1, <2>2
  <2>5. DOMAIN q = 1..(n + 1 + Len(r))
    BY <1>3, <1>5, <2>2
  <2> QED BY <2>1, <2>3, <2>4, <2>5
<1>8. /\ q \in Seq(CallType) /\ DOMAIN order = 1..n /\ n \in Nat
      /\ \A i \in 1..n : q[i] = Call(f, order[i])
      /\ q[n + 1] = c
      /\ \A i \in DOMAIN r : q[n + 1 + i] = r[i]
      /\ Count(q, TD) = Count(r, TD)
  <2>1. q \in Seq(CallType) /\ DOMAIN order = 1..n /\ n \in Nat
    BY <1>4 DEF q
  <2>2. \A i \in DOMAIN order : q[i] = Call(f, order[i])
    BY <1>4 DEF q
  <2>3. Count(q, TD) = Count(r, TD)
    BY <1>3, <1>4 DEF q
  <2> QED BY <1>3, <1>6, <2>1, <2>2, <2>3
<1>9. q = AbortAll(f, order, b, r)
  BY DEF AbortAll, q, m, c
<1>10. Len(q) = n + 1 + Len(r)
  BY <1>3, <1>6, <1>8, LenProperties
<1>11. \A i \in 1..Len(r) : q[n + 1 + i] = r[i]
  BY <1>3, <1>8
<1>12. Count(q, TD) = Count(r, TD)
  BY <1>8
<1>13. n \in Nat /\ Len(r) \in Nat /\ q \in Seq(CallType)
  BY <1>3, <1>8
<1>14. CallAll(f, order) \in Seq(CallType) /\ <<c>> \in Seq(CallType)
  BY <1>2, <1>4
<1>15. (\A i \in 1..n : q[i] = Call(f, order[i])) /\ q[n + 1] = c
  BY <1>8
<1> HIDE DEF AbortAll
<1>16. SetPushed(q, f, order, b, r)
  BY <1>11, <1>15 DEF SetPushed, c, n
<1> QED BY <1>9, <1>10, <1>12, <1>13, <1>14, <1>16 DEF c, n

LEMMA AbortStep ==
    ASSUME Inv, Abort
    PROVE  Inv'
<1>0. TypeOK
  BY DEF Inv
<1> DEFINE set == suspense[Root].fallbackAbortableTasks
<1>1. /\ calls = << >> /\ running = NoTask /\ opened = << >> /\ aborted' = TRUE
      /\ \E order \in SetToSeqs(set) :
            calls' = CallAll("abortTask", order) \o << Call("clear", Root) >> \o Flush
      /\ UNCHANGED <<segmentVars, boundaryVars, allPendingTasks, pingedTasks, queueVars, outVars,
                     next, renderVars, scheduled, piped>>
  BY DEF Abort, AbortAndFlush, Idle, Inv, RunState
<1>2. PICK order \in SetToSeqs(set) :
            calls' = CallAll("abortTask", order) \o << Call("clear", Root) >> \o Flush
  BY <1>1
<1>3. /\ order \in Seq(Segments) /\ order \in Seq(set)
      /\ \A i, j \in DOMAIN order : order[i] = order[j] => i = j
  <2>1. set \in SUBSET Segments /\ IsFiniteSet(set)
    BY <1>0, InvTypes, Sets
  <2> HIDE DEF set
  <2> QED BY <2>1, OrderOfSet
<1>4. \A i \in DOMAIN order : order[i] \in Live /\ segment[order[i]].abortSet = Root
  <2>1. \A s \in set : s \in Live /\ segment[s].abortSet = Root
    BY <1>1, EmptyCalls DEF Inv, SetState
  <2>2. \A i \in DOMAIN order : order[i] \in set
    <3> HIDE DEF set
    <3> QED BY <1>3, LenProperties
  <2> QED BY <2>1, <2>2
<1> DEFINE n == Len(order)
<1>5. /\ Flush \in Seq(CallType) /\ Count(Flush, TD) = 0 /\ Len(Flush) = 1
      /\ Flush[1] = Call("flushRoot", 0)
  <2>1. Call("flushRoot", 0) \in CallType /\ Call("flushRoot", 0) # TD
    BY CallTypes DEF TD, Call
  <2> QED BY <2>1, CountOne DEF Flush
<1> DEFINE q == AbortAll("abortTask", order, Root, Flush)
<1>6. /\ q \in Seq(CallType) /\ n \in Nat /\ Len(q) = n + 2 /\ Count(q, TD) = 0
      /\ \A i \in 1..n : q[i] = Call("abortTask", order[i])
      /\ q[n + 1] = Call("clear", Root) /\ q[n + 1 + 1] = Call("flushRoot", 0)
      /\ CallAll("abortTask", order) \in Seq(CallType)
      /\ << Call("clear", Root) >> \in Seq(CallType)
  <2> DEFINE f == "abortTask"
             b == Root
  <2>1. /\ f \in {"abortTask", "abortTaskSoft"} /\ b \in Boundaries \cup {Root}
        /\ order \in Seq(Segments) /\ Flush \in Seq(CallType)
    BY <1>3, <1>5
  <2> HIDE DEF f, b
  <2>2. /\ CallAll(f, order) \in Seq(CallType)
        /\ << Call("clear", b) >> \in Seq(CallType)
        /\ AbortAll(f, order, b, Flush) \in Seq(CallType) /\ n \in Nat
        /\ Len(AbortAll(f, order, b, Flush)) = n + 1 + Len(Flush)
        /\ Count(AbortAll(f, order, b, Flush), TD) = Count(Flush, TD)
    BY <2>1, PushSet
  <2>3. SetPushed(AbortAll(f, order, b, Flush), f, order, b, Flush)
    BY <2>1, PushSet
  <2>4. /\ \A i \in 1..n : AbortAll(f, order, b, Flush)[i] = Call(f, order[i])
        /\ AbortAll(f, order, b, Flush)[n + 1] = Call("clear", b)
    BY <2>3 DEF SetPushed
  <2>5. \A i \in 1..Len(Flush) : AbortAll(f, order, b, Flush)[n + 1 + i] = Flush[i]
    BY <2>3 DEF SetPushed
  <2>6. AbortAll(f, order, b, Flush)[n + 1 + 1] = Call("flushRoot", 0)
    BY <1>5, <2>5
  <2> QED BY <1>5, <2>2, <2>4, <2>6 DEF f, b
<1>21. calls' = AbortAll("abortTask", order, Root, Flush)
  <2> DEFINE p == CallAll("abortTask", order)
             c == << Call("clear", Root) >>
  <2>1. p \in Seq(CallType) /\ c \in Seq(CallType) /\ Flush \in Seq(CallType)
    BY <1>5, <1>6
  <2> HIDE DEF p, c
  <2>2. (p \o c) \o Flush = p \o (c \o Flush)
    BY <2>1
  <2> QED BY <1>2, <2>2 DEF p, c, AbortAll
<1>7. /\ calls' \in Seq(CallType) /\ n \in Nat
      /\ DOMAIN calls' = 1..(n + 2) /\ DOMAIN order = 1..n
      /\ \A i \in 1..n : calls'[i] = Call("abortTask", order[i])
      /\ calls'[n + 1] = Call("clear", Root) /\ calls'[n + 2] = Call("flushRoot", 0)
      /\ Count(calls', TD) = 0
  <2> HIDE DEF q
  <2>1. DOMAIN q = 1..Len(q) /\ DOMAIN order = 1..n
    BY <1>3, <1>6, LenProperties
  <2>2. n + 1 + 1 = n + 2
    BY <1>6
  <2> QED BY <1>6, <1>21, <2>1, <2>2 DEF q
<1>8. \A i \in DOMAIN calls' :
        /\ AbortCall(calls'[i]) => i \in 1..n /\ calls'[i].x = order[i] /\ calls'[i].f = "abortTask"
        /\ calls'[i].f = "clear" => calls'[i].x = Root
        /\ calls'[i].f \notin FlushCalls \cup {"fatalError"}
  <2>1. \A i \in DOMAIN calls' : i \in 1..n \/ i = n + 1 \/ i = n + 2
    BY <1>7
  <2> SUFFICES ASSUME NEW i \in DOMAIN calls'
      PROVE /\ AbortCall(calls'[i]) => i \in 1..n /\ calls'[i].x = order[i] /\ calls'[i].f = "abortTask"
            /\ calls'[i].f = "clear" => calls'[i].x = Root
            /\ calls'[i].f \notin FlushCalls \cup {"fatalError"}
    OBVIOUS
  <2>2. CASE i \in 1..n
    <3>1. calls'[i].f = "abortTask" /\ calls'[i].x = order[i]
      BY <1>7, <2>2, CallTypes
    <3> QED BY <2>2, <3>1 DEF FlushCalls
  <2>3. CASE i = n + 1
    <3>1. calls'[i].f = "clear" /\ calls'[i].x = Root
      BY <1>7, <2>3, CallTypes
    <3> QED BY <3>1 DEF FlushCalls, AbortCall
  <2>4. CASE i = n + 2
    <3>1. calls'[i].f = "flushRoot"
      BY <1>7, <2>4, CallTypes
    <3> QED BY <3>1 DEF FlushCalls, AbortCall
  <2> QED BY <2>1, <2>2, <2>3, <2>4
<1>9. UNCHANGED <<segment, suspense, opened, segments, boundaries>>
  BY <1>1 DEF segmentVars, boundaryVars, renderVars
<1>10. Live' = Live
  BY <1>9 DEF Live
<1>11. ASSUME NEW rank \in Ranks PROVE StackState(rank)'
  <2> SUFFICES ASSUME NEW i \in DOMAIN calls', AbortCall(calls'[i])
      PROVE /\ calls'[i].x \in Live
            /\ \A j \in DOMAIN calls' : AbortCall(calls'[j]) /\ calls'[j].x = calls'[i].x => j = i
            /\ \A j \in DOMAIN calls' : j > i /\ calls'[j].f = "clear" =>
                  rank[calls'[j].x] <= rank[segment[calls'[i].x].abortSet]
            /\ calls'[i].f # "abortTaskSoft"
    BY <1>9, <1>10 DEF StackState, AbortCall
  <2>1. i \in 1..n /\ calls'[i].x = order[i] /\ calls'[i].f = "abortTask"
    BY <1>8
  <2>2. calls'[i].x \in Live /\ segment[calls'[i].x].abortSet = Root
    BY <1>4, <1>7, <2>1
  <2>3. \A j \in DOMAIN calls' : AbortCall(calls'[j]) /\ calls'[j].x = calls'[i].x => j = i
    BY <1>3, <1>7, <1>8, <2>1
  <2>4. rank[Root] \in Nat
    BY DEF Ranks
  <2>5. rank[Root] <= rank[Root]
    BY <2>4
  <2>6. \A j \in DOMAIN calls' : j > i /\ calls'[j].f = "clear" =>
                  rank[calls'[j].x] <= rank[segment[calls'[i].x].abortSet]
    BY <1>8, <2>2, <2>5
  <2> QED BY <2>1, <2>2, <2>3, <2>6
<1>12. SetState'
  <2>1. ASSUME NEW b \in Boundaries \cup {Root}, NEW s \in suspense[b].fallbackAbortableTasks
        PROVE  /\ segment[s].task /\ segment[s].abortSet = b
               /\ \/ s \in Live /\ \A i \in DOMAIN calls' : AbortCall(calls'[i]) => calls'[i].x # s
                  \/ \E i \in DOMAIN calls' : calls'[i] = Call("clear", b)
    <3>1. segment[s].task /\ segment[s].abortSet = b /\ s \in Live
      BY <1>1, EmptyCalls DEF Inv, SetState
    <3>2. CASE b = Root
      <4>1. n + 1 \in DOMAIN calls'
        BY <1>7
      <4> QED BY <1>7, <3>1, <3>2, <4>1
    <3>3. CASE b # Root
      <4>1. \A i \in DOMAIN calls' : AbortCall(calls'[i]) => segment[calls'[i].x].abortSet = Root
        BY <1>4, <1>7, <1>8
      <4> QED BY <3>1, <3>3, <4>1
    <3> QED BY <3>2, <3>3
  <2> QED BY <1>9, <1>10, <2>1 DEF SetState, AbortCall
<1>13. FlowState'
  <2>1. /\ Quiet(calls) /\ (flowing => requestStatus = "OPEN" \/ ended # "no")
    BY <1>1, NoCalls DEF Inv, FlowState
  <2>2. ended = "closed" =>
              /\ requestStatus = "OPEN" /\ allPendingTasks = 0
              /\ clientRenderedBoundaries = << >> /\ completedBoundaries = << >>
              /\ segment[RootSegment].status = "FLUSHED"
    BY <2>1, ClosedState, QuietClosed
  <2>3. Quiet(calls)'
    BY <1>8 DEF Quiet
  <2> QED BY <1>1, <2>1, <2>2, <2>3, FlowQuiet DEF queueVars, outVars, segmentVars
<1>14. SameShape /\ SameFate /\ SameNest /\ SameProgress
  BY <1>9 DEF SameShape, SameFate, SameNest, SameProgress
<1>15. NewKept
  BY <1>9 DEF NewKept, Inv, SegmentTree, BoundaryTree
<1>16. TypeOK'
  <2>1. UNCHANGED treeVars
    BY <1>1 DEF treeVars, renderVars, outVars
  <2> QED BY <1>0, <1>1, <2>1, ControlTypes, TypeFrame DEF renderVars, outVars
<1>17. Count(calls, TD) = 0
  BY <1>1, NoCalls
<1>18. allPendingTasks' + Count(calls, TD) = allPendingTasks + Count(calls', TD)
  BY <1>1, <1>7, <1>17
<1>19. UNCHANGED <<client, wrappers, queueVars, opened, requestStatus, pingedTasks>> /\ running' = NoTask
  BY <1>1 DEF outVars, renderVars
<1>20. \A s \in Segments : segment'[s].suspended => segment[s].task
  BY <1>9 DEF Inv, RunState
<1> QED BY <1>1, <1>7, <1>11, <1>12, <1>13, <1>14, <1>15, <1>16, <1>18, <1>19, <1>20, StackFrame

(* A wrapper is decided.                                                   *)
Wrappers == Seq({"pending", "completed", "client"})

LEMMA DecideWrapper ==
    ASSUME TypeOK, NEW b \in Boundaries, NEW k, NEW v \in {"pending", "completed", "client"}
    PROVE  LET w == [wrappers EXCEPT ![b][k] = v] IN
           /\ w \in [Boundaries -> Wrappers]
           /\ \A x \in Boundaries : x # b => w[x] = wrappers[x]
           /\ Len(w[b]) = Len(wrappers[b]) /\ DOMAIN w[b] = DOMAIN wrappers[b]
           /\ \A i \in DOMAIN wrappers[b] : w[b][i] = IF i = k THEN v ELSE wrappers[b][i]
<1> DEFINE q == wrappers[b]
           r == [q EXCEPT ![k] = v]
           w == [wrappers EXCEPT ![b] = r]
<1>1. wrappers \in [Boundaries -> Wrappers] /\ q \in Wrappers
  BY ControlTypes DEF Wrappers
<1>2. /\ r \in Wrappers /\ Len(r) = Len(q) /\ DOMAIN r = DOMAIN q
      /\ \A i \in DOMAIN q : r[i] = IF i = k THEN v ELSE q[i]
  <2> HIDE DEF q
  <2>1. /\ q \in [1..Len(q) -> {"pending", "completed", "client"}] /\ Len(q) \in Nat
        /\ DOMAIN q = 1..Len(q)
    BY <1>1, LenProperties DEF Wrappers
  <2>2. r \in [1..Len(q) -> {"pending", "completed", "client"}] /\ DOMAIN r = 1..Len(q)
    BY <2>1
  <2>3. r \in Wrappers
    BY <2>1, <2>2, SeqDef DEF Wrappers
  <2>4. Len(r) = Len(q)
    BY <2>1, <2>2, <2>3, LenProperties DEF Wrappers
  <2> QED BY <2>1, <2>2, <2>3, <2>4
<1>3. [wrappers EXCEPT ![b][k] = v] = w
  OBVIOUS
<1> HIDE DEF q, r
<1>4. w \in [Boundaries -> Wrappers] /\ w[b] = r /\ \A x \in Boundaries : x # b => w[x] = wrappers[x]
  BY <1>1, <1>2
<1> QED BY <1>2, <1>3, <1>4 DEF q

(* The first boundary of clientRenderedBoundaries is left to the client.   *)
LEMMA FlushClientRenderedStep ==
    ASSUME Inv, FlushClientRenderedBoundary
    PROVE  Inv'
<1>0. TypeOK
  BY DEF Inv
<1> DEFINE h == Head(clientRenderedBoundaries)
           q == clientRenderedBoundaries
<1>1. /\ calls # << >> /\ Head(calls).f = "flushClientRendered" /\ q # << >>
      /\ clientRenderedBoundaries' = Tail(q)
      /\ client' = [client EXCEPT ![h] = "client"]
      /\ wrappers' = ClientRenderBoundary(h)
      /\ \/ UNCHANGED <<calls, flowing>>
         \/ calls' = << Call("flushEnd", 0) >> \o Rest /\ flowing' = FALSE
      /\ UNCHANGED <<segment, segments, suspense, boundaries, allPendingTasks, pingedTasks,
                     completedBoundaries, partialBoundaries, requestStatus, ended, thrown, next,
                     running, opened, started, retries, scheduled, piped, aborted>>
  BY DEF FlushClientRenderedBoundary, Calls, segmentVars, boundaryVars, renderVars, userVars
<1>2. /\ q \in Seq(Boundaries) /\ h \in Boundaries /\ Tail(q) \in Seq(Boundaries)
      /\ ToSet(q) = {h} \cup ToSet(Tail(q))
      /\ \A x : Count(q, x) = Count(Tail(q), x) + (IF h = x THEN 1 ELSE 0) /\ Count(Tail(q), x) \in Nat
  <2>1. q \in Seq(Boundaries) /\ q # << >>
    BY <1>0, <1>1, ControlTypes
  <2> HIDE DEF q
  <2>2. Head(q) \in Boundaries /\ Tail(q) \in Seq(Boundaries) /\ ToSet(q) = {Head(q)} \cup ToSet(Tail(q))
    BY <2>1, TailElements
  <2>3. \A x : Count(q, x) = Count(Tail(q), x) + (IF Head(q) = x THEN 1 ELSE 0) /\ Count(Tail(q), x) \in Nat
    BY <2>1, CountTail
  <2> QED BY <2>1, <2>2, <2>3 DEF q
<1> HIDE DEF h
<1>3. /\ client[h] = "pending" /\ suspense[h].forceClientRender
      /\ Count(Tail(q), h) = 0 /\ Count(completedBoundaries, h) = 0
  <2>1. Count(q, h) = Count(Tail(q), h) + 1 /\ Count(Tail(q), h) \in Nat
    BY <1>2
  <2>2. Count(q, h) = IF client[h] = "pending" /\ suspense[h].forceClientRender THEN 1 ELSE 0
    BY <1>2 DEF Inv, QueuedOnce
  <2>3. client[h] = "pending" /\ suspense[h].forceClientRender
    BY <2>1, <2>2
  <2>4. \/ Count(completedBoundaries, h) = 0
        \/ ShownTwice(h)
    BY <1>2, <2>3 DEF Inv, QueuedOnce
  <2>5. ~ShownTwice(h)
    BY <2>3 DEF ShownTwice
  <2> QED BY <2>1, <2>2, <2>3, <2>4, <2>5
<1>4. /\ client' \in [Boundaries -> {"none", "pending", "completed", "client"}]
      /\ client'[h] = "client" /\ \A b \in Boundaries : b # h => client'[b] = client[b]
  BY <1>0, <1>1, <1>2, ControlTypes
<1>5. TypeOK'
  <2>2. wrappers' \in [Boundaries -> Wrappers]
    <3> DEFINE k == suspense[h].rootSegmentID
    <3>1. wrappers' = [wrappers EXCEPT ![h][k] = "client"]
      BY <1>1 DEF ClientRenderBoundary
    <3> HIDE DEF k
    <3> QED BY <1>0, <1>2, <3>1, DecideWrapper
  <2>1. /\ segment' \in [Segments -> SegmentRecord] /\ segments' \in Segments
        /\ suspense' \in [Boundaries \cup {Root} -> BoundaryRecord]
        /\ boundaries' \in Boundaries \cup {Root}
        /\ allPendingTasks' \in Nat /\ pingedTasks' \in Seq(Segments)
        /\ clientRenderedBoundaries' \in Seq(Boundaries)
        /\ completedBoundaries' \in Seq(Boundaries) /\ partialBoundaries' \in Seq(Boundaries)
        /\ requestStatus' \in {"OPEN", "CLOSING", "CLOSED"} /\ flowing' \in BOOLEAN
        /\ UNCHANGED next /\ running' \in Segments \cup {NoTask} /\ opened' \in Seq(Boundaries)
        /\ started' \in BOOLEAN /\ scheduled' \in Nat /\ piped' \in BOOLEAN /\ UNCHANGED aborted
        /\ ended' \in {"no", "closed", "error", "aborted"}
        /\ client' \in [Boundaries -> {"none", "pending", "completed", "client"}]
        /\ thrown' \in BOOLEAN /\ retries' \in 0..MaxRetries
    BY <1>0, <1>1, <1>2, <1>4, ControlTypes
  <2> QED BY <1>0, <2>1, <2>2, TypeNext DEF Wrappers
<1>6. /\ Live' = Live /\ \A b : BlockedBy(b)' = BlockedBy(b)
  BY <1>1 DEF Live, BlockedBy
<1>7. Complete' = Complete /\ Shown' = Shown
  BY <1>1, <1>3, <1>4 DEF Complete, Shown
<1>8. Reached' = Reached
  BY <1>1, <1>7 DEF Reached
<1>9. Written' = Written
  <2>1. \A b \in Boundaries : client'[b] = "completed" <=> client[b] = "completed"
    BY <1>3, <1>4
  <2>2. \A s \in Segments : segment[s].boundary # NoBoundary => segment[s].boundary \in Boundaries
    BY <1>0, InvTypes
  <2> QED BY <1>1, <2>1, <2>2 DEF Written
<1>10. SegmentTree' /\ BoundaryTree' /\ RunState'
  <2>1. SegmentTree'
    BY <1>1 DEF Inv, SegmentTree
  <2>2. BoundaryTree'
    BY <1>1 DEF Inv, BoundaryTree
  <2>3. running = NoTask /\ opened = << >>
    BY <1>1, WithCalls
  <2>4. RunState'
    BY <1>1, <1>6, <2>3 DEF Inv, RunState
  <2> QED BY <2>1, <2>2, <2>4
<1>11. OpenState'
  <2>1. opened' = << >>
    BY <1>1, WithCalls
  <2> QED BY <2>1 DEF OpenState
<1>12. ~Matters(Head(calls)) /\ Head(calls) # TD
  BY <1>1 DEF Matters, AbortCall, TD, Call
<1>13. /\ calls' \in Seq(CallType) /\ Count(calls', TD) = Count(calls, TD)
       /\ \E d : SameMatters(calls, calls', d)
       /\ DOMAIN calls' = DOMAIN calls /\ calls' # << >> /\ 1 \in DOMAIN calls
       /\ Len(calls') = Len(calls) /\ Len(calls) \in Nat /\ DOMAIN calls = 1..Len(calls)
       /\ \A i \in DOMAIN calls : i # 1 => calls'[i] = calls[i]
       /\ \/ UNCHANGED <<calls, flowing>> /\ calls'[1].f = "flushClientRendered"
          \/ calls'[1].f = "flushEnd" /\ flowing' = FALSE
  <2>0. calls \in Seq(CallType)
    BY DEF Inv
  <2>1. /\ Len(calls) \in Nat /\ DOMAIN calls = 1..Len(calls) /\ 1 \in DOMAIN calls /\ calls[1] = Head(calls)
    BY <1>1, <2>0, TailElements
  <2>2. CASE UNCHANGED <<calls, flowing>>
    <3>1. SameMatters(calls, calls, 0)
      BY <2>1 DEF SameMatters
    <3> QED BY <1>1, <2>0, <2>1, <2>2, <3>1
  <2>3. CASE calls' = << Call("flushEnd", 0) >> \o Rest /\ flowing' = FALSE
    <3>1. "flushEnd" \in FlushCalls
      BY DEF FlushCalls
    <3> DEFINE p == << Call("flushEnd", 0) >> \o Rest
    <3>2. /\ p \in Seq(CallType) /\ Count(p, TD) = Count(calls, TD)
           /\ \E d : SameMatters(calls, p, d)
           /\ DOMAIN p = DOMAIN calls /\ Len(p) = Len(calls) /\ p # << >>
           /\ p[1].f = "flushEnd" /\ \A i \in DOMAIN p : i # 1 => p[i] = calls[i]
      BY <1>1, <1>12, <3>1, Swap
    <3> HIDE DEF p
    <3>3. calls' = p
      BY <2>3 DEF p
    <3>4. \A i \in DOMAIN calls : i # 1 => calls'[i] = calls[i]
      BY <3>2, <3>3
    <3>5. \E d : SameMatters(calls, calls', d)
      BY <3>2, <3>3
    <3>6. /\ calls' \in Seq(CallType) /\ Count(calls', TD) = Count(calls, TD)
          /\ DOMAIN calls' = DOMAIN calls /\ Len(calls') = Len(calls) /\ calls' # << >>
          /\ calls'[1].f = "flushEnd"
      BY <3>2, <3>3
    <3> QED BY <2>1, <2>3, <3>4, <3>5, <3>6
  <2> QED BY <1>1, <2>2, <2>3
<1>14. CountState'
  <2>1. allPendingTasks = Cardinality(Live) + Count(calls, TD)
    BY DEF Inv, CountState, TD
  <2>2. /\ \A b \in Boundaries : suspense[b].pendingTasks = Cardinality(BlockedBy(b))
        /\ suspense[Root].pendingTasks >= Cardinality(BlockedBy(Root))
        /\ requestStatus = "OPEN" => suspense[Root].pendingTasks = Cardinality(BlockedBy(Root))
        /\ segment[RootSegment].status \in {"ABORTED", "ERRORED"} =>
              suspense[Root].pendingTasks > Cardinality(BlockedBy(Root))
    BY DEF Inv, CountState
  <2>3. /\ UNCHANGED <<segment, suspense, requestStatus, allPendingTasks>>
        /\ Count(calls', TD) = Count(calls, TD)
    BY <1>1, <1>13
  <2> QED BY <1>6, <2>1, <2>2, <2>3, Zenon DEF CountState, TD
<1>15. (\A rank \in Ranks : StackState(rank) => StackState(rank)') /\ SetState'
  <2>1. UNCHANGED <<segment, suspense>> /\ Complete' = Complete
    BY <1>1, <1>7
  <2>2. /\ calls' \in Seq(CallType) /\ Count(calls', TD) = Count(calls, TD)
        /\ \E d : SameMatters(calls, calls', d)
    BY <1>13
  <2> QED BY <2>1, <2>2, StackKept
<1>16. Placed'
  <2>1. PICK place \in Places : /\ PlaceOf(place)
                                /\ StackState(place.rank)
                                /\ ShownState(place.home, place.reg)
    BY DEF Inv, Placed
  <2>2. PlaceOf(place)'
    BY <1>1, <2>1 DEF PlaceOf
  <2>3. StackState(place.rank)'
    <3>1. place.rank \in Ranks
      BY <2>1 DEF Places
    <3> QED BY <1>15, <2>1, <3>1
  <2>4. ShownState(place.home, place.reg)'
    BY <1>1, <1>7, <1>8, <2>1 DEF ShownState
  <2> QED BY <2>1, <2>2, <2>3, <2>4, Zenon DEF Placed
<1>17. FlowState'
  <2>1. ended # "closed"
    BY <1>1 DEF Inv, FlowState
  <2>2. calls[1].f = "flushClientRendered" /\ 1 \in DOMAIN calls
    <3>1. calls \in Seq(CallType)
      BY DEF Inv
    <3> QED BY <1>1, <1>13, <3>1, TailElements
  <2>3. /\ flowing
        /\ requestStatus = "OPEN" \/ ended # "no"
        /\ \/ suspense[Root].pendingTasks > 0 \/ segment[RootSegment].status = "FLUSHED"
           \/ Len(calls) > 1 /\ calls[2].f = "fatalError"
    BY <2>2 DEF Inv, FlowState, FlushCalls
  <2>4. \A i \in DOMAIN calls : i # 1 => calls[i].f \notin FlushCalls \cup {"fatalError"}
    BY <2>2 DEF Inv, FlowState
  <2>5. suspense[Root].pendingTasks > 0 \/ segment[RootSegment].status = "FLUSHED"
    BY <1>13, <2>3, <2>4
  <2>6. \A i \in DOMAIN calls' : i # 1 => calls'[i].f \notin FlushCalls \cup {"fatalError"}
    BY <1>13, <2>4
  <2>7. calls'[1].f \in {"flushClientRendered", "flushEnd"}
        /\ (calls'[1].f = "flushClientRendered" => flowing')
    BY <1>13, <2>3
  <2>8. \A i \in DOMAIN calls' :
          /\ calls'[i].f \in FlushCalls => i = 1
          /\ calls'[i].f \in FlushCalls \ {"flushEnd"} => flowing'
          /\ calls'[i].f \notin {"flushCompleted", "flushPartial", "fatalError"}
    BY <2>6, <2>7 DEF FlushCalls
  <2>9. flowing' => requestStatus' = "OPEN" \/ ended' # "no"
    BY <1>1, <2>3
  <2>10. UNCHANGED <<suspense, segment, requestStatus, ended>>
    BY <1>1
  <2> QED BY <2>1, <2>3, <2>5, <2>8, <2>9, <2>10 DEF FlowState
<1>18. ClientState'
  <2>1. /\ \A b \in Boundaries :
            /\ client'[b] # "none" <=> suspense'[b].parentFlushed
            /\ client'[b] = "client" => suspense'[b].forceClientRender
            /\ client'[b] = "completed" => b \in Complete
    BY <1>1, <1>3, <1>4 DEF Inv, ClientState
  <2>2. \A b \in Boundaries : client[b] # "none" => client'[b] # "none"
    BY <1>4
  <2>3. /\ ToSet(q) \subseteq Boundaries /\ ToSet(completedBoundaries) \subseteq Boundaries
        /\ ToSet(partialBoundaries) \subseteq Boundaries
    BY <1>0, ControlTypes, RangeOfSet DEF ToSet, Range
  <2>4. \A b \in ToSet(clientRenderedBoundaries') : suspense'[b].forceClientRender /\ client'[b] # "none"
    BY <1>1, <1>2, <2>2, <2>3 DEF Inv, ClientState
  <2>5. \A b \in ToSet(completedBoundaries') : b \in Complete /\ client'[b] # "none"
    BY <1>1, <2>2, <2>3 DEF Inv, ClientState
  <2>6. \A b \in ToSet(partialBoundaries') : client'[b] # "none"
    BY <1>1, <2>2, <2>3 DEF Inv, ClientState
  <2> QED BY <1>7, <2>1, <2>4, <2>5, <2>6 DEF ClientState
<1>19. QueuedOnce'
  <2> SUFFICES ASSUME NEW b \in Boundaries
               PROVE
        /\ Count(clientRenderedBoundaries', b) =
             IF client'[b] = "pending" /\ suspense'[b].forceClientRender THEN 1 ELSE 0
        /\ \/ Count(completedBoundaries', b) =
                 IF client'[b] = "pending" /\ ~suspense'[b].forceClientRender
                      /\ suspense'[b].pendingTasks = 0 THEN 1 ELSE 0
           \/ Count(completedBoundaries', b) = 1 /\ ShownTwice(b)'
    BY Zenon DEF QueuedOnce
  <2>1. CASE b = h
    BY <1>1, <1>3, <1>4, <2>1
  <2>2. CASE b # h
    <3>1. client'[b] = client[b] /\ suspense' = suspense /\ completedBoundaries' = completedBoundaries
          /\ segment' = segment
      BY <1>1, <1>4, <2>2
    <3>2. Count(clientRenderedBoundaries', b) = Count(q, b)
      <4>1. Count(q, b) = Count(Tail(q), b) + 0 /\ Count(Tail(q), b) \in Nat
        BY <1>2, <2>2
      <4> QED BY <1>1, <4>1
    <3>3. ShownTwice(b)' <=> ShownTwice(b)
      BY <3>1 DEF ShownTwice
    <3>4. /\ Count(q, b) = IF client[b] = "pending" /\ suspense[b].forceClientRender THEN 1 ELSE 0
          /\ \/ Count(completedBoundaries, b) =
                   IF client[b] = "pending" /\ ~suspense[b].forceClientRender
                        /\ suspense[b].pendingTasks = 0 THEN 1 ELSE 0
             \/ Count(completedBoundaries, b) = 1 /\ ShownTwice(b)
      BY DEF Inv, QueuedOnce
    <3> QED BY <3>1, <3>2, <3>3, <3>4
  <2> QED BY <2>1, <2>2
<1>20. RootState'
  <2>1. segment[RootSegment].status = "FLUSHED"
    BY <1>2, <1>3 DEF Inv, RootState
  <2> QED BY <1>1, <2>1 DEF Inv, RootState
<1>21. ReadyState'
  <2>1. \A b \in Boundaries : client'[b] = "completed" => client[b] = "completed"
    BY <1>3, <1>4
  <2> QED BY <1>1, <1>9, <2>1 DEF Inv, ReadyState
<1>22. OverState'
  BY <1>1, <1>7, <1>9 DEF Inv, OverState
<1> QED BY <1>5, <1>10, <1>11, <1>13, <1>14, <1>16, <1>15, <1>17, <1>18, <1>19, <1>20, <1>21,
           <1>22, Zenon DEF Inv
-----------------------------------------------------------------------------
(* The end of a task s: it finishes, throws or is aborted.                 *)
Ends(s, st) ==
    /\ UNCHANGED <<segments, boundaries, client, wrappers, pingedTasks>>
    /\ opened = << >> /\ opened' = << >> /\ running' = NoTask
    /\ st \in {"COMPLETED", "ABORTED", "ERRORED"}
    /\ segment' = [segment EXCEPT ![s].status = st]
    /\ \A x \in Boundaries \cup {Root} :
          /\ suspense'[x].outer = suspense[x].outer
          /\ suspense'[x].fallback = suspense[x].fallback
          /\ suspense'[x].content = suspense[x].content
          /\ suspense'[x].parentFlushed = suspense[x].parentFlushed
          /\ suspense[x].forceClientRender => suspense'[x].forceClientRender
          /\ x \notin {segment[s].blockedBoundary, segment[s].abortSet} => suspense'[x] = suspense[x]
          /\ x # segment[s].blockedBoundary =>
                /\ suspense'[x].pendingTasks = suspense[x].pendingTasks
                /\ suspense'[x].forceClientRender = suspense[x].forceClientRender
                /\ suspense'[x].completedSegments = suspense[x].completedSegments
    /\ requestStatus' = "OPEN" => requestStatus = "OPEN"

LEMMA EndTree ==
    ASSUME Inv, TypeOK', NEW s \in Live, NEW st, Ends(s, st)
    PROVE  /\ s \in Segments /\ segment[s].task /\ segment[s].status = "PENDING"
           /\ segment'[s].status = st
           /\ segment'[s].parentFlushed = segment[s].parentFlushed
           /\ segment'[s].id = segment[s].id
           /\ \A t \in Segments : t # s => segment'[t] = segment[t]
           /\ SameShape /\ SameNest
           /\ SegmentTree' /\ BoundaryTree' /\ RunState' /\ OpenState'
           /\ Live' = Live \ {s} /\ \A x : BlockedBy(x)' = BlockedBy(x) \ {s}
<1>0. TypeOK
  BY DEF Inv
<1>1. s \in Segments /\ segment[s].task /\ segment[s].status = "PENDING"
  BY DEF Live
<1>2. /\ segment'[s].status = st /\ segment'[s].parentFlushed = segment[s].parentFlushed
      /\ segment'[s].id = segment[s].id
      /\ segment'[s].parent = segment[s].parent /\ segment'[s].boundary = segment[s].boundary
      /\ segment'[s].task = segment[s].task
      /\ segment'[s].blockedBoundary = segment[s].blockedBoundary
      /\ segment'[s].abortSet = segment[s].abortSet
      /\ segment'[s].suspended = segment[s].suspended
      /\ \A t \in Segments : t # s => segment'[t] = segment[t]
  <2>1. segment \in [Segments -> SegmentRecord] /\ segment[s] \in SegmentRecord
    BY <1>0, <1>1, ControlTypes
  <2>2. segment' = [segment EXCEPT ![s].status = st]
    BY DEF Ends
  <2>3. segment'[s] = [segment[s] EXCEPT !.status = st] /\ \A t \in Segments : t # s => segment'[t] = segment[t]
    BY <1>1, <2>1, <2>2
  <2> QED BY <2>1, <2>3 DEF SegmentRecord
<1>3. SameShape
  BY <1>2 DEF SameShape, Ends
<1>4. SameNest
  BY DEF SameNest, Ends
<1>5. NewKept
  <2>1. s <= segments
    BY <1>0, <1>1, TaskIsMade
  <2>2. segment[s].blockedBoundary <= boundaries /\ segment[s].abortSet <= boundaries
    BY <1>1 DEF Inv, SegmentTree
  <2>3. \A t \in Segments : t > segments => segment'[t] = NewSegment
    <3>1. s \in Nat /\ segments \in Nat
      BY <1>0, <1>1, InvTypes
    <3>2. \A t \in Segments : t > segments => t # s
      BY <2>1, <3>1, InvTypes
    <3> QED BY <1>2, <3>2 DEF Inv, SegmentTree
  <2>4. \A b \in Boundaries : b > boundaries => suspense'[b] = NewBoundary
    <3> SUFFICES ASSUME NEW b \in Boundaries, b > boundaries PROVE suspense'[b] = NewBoundary
      OBVIOUS
    <3>1. /\ b \in Nat /\ boundaries \in Nat /\ segment[s].blockedBoundary \in Nat
          /\ segment[s].abortSet \in Nat
      <4>1. /\ boundaries \in Boundaries \cup {Root} /\ segment[s].blockedBoundary \in Boundaries \cup {Root}
            /\ segment[s].abortSet \in Boundaries \cup {Root}
        BY <1>0, <1>1, InvTypes
      <4>2. Boundaries \cup {Root} \subseteq Nat
        BY <1>0, InvTypes
      <4> QED BY <4>1, <4>2
    <3>2. b \notin {segment[s].blockedBoundary, segment[s].abortSet}
      BY <2>2, <3>1
    <3>3. suspense'[b] = suspense[b]
      BY <3>2 DEF Ends
    <3> QED BY <3>3 DEF Inv, BoundaryTree
  <2> QED BY <2>3, <2>4 DEF NewKept
<1>6. SegmentTree' /\ BoundaryTree'
  BY <1>3, <1>4, <1>5, ShapeFrame
<1>7. Live' = Live \ {s} /\ \A x : BlockedBy(x)' = BlockedBy(x) \ {s}
  <2>1. st # "PENDING"
    BY DEF Ends
  <2>2. Live' = Live \ {s}
    BY <1>1, <1>2, <2>1 DEF Live
  <2>3. \A t \in Segments : segment'[t].blockedBoundary = segment[t].blockedBoundary
    BY <1>3 DEF SameShape
  <2> QED BY <2>2, <2>3 DEF BlockedBy, Live
<1>8. RunState'
  <2>1. \A i \in DOMAIN pingedTasks : pingedTasks[i] \in Segments
    BY <1>0, ControlTypes, LenProperties
  <2>2. pingedTasks' = pingedTasks /\ opened' = << >> /\ running' = NoTask
    BY DEF Ends
  <2>3. \A i \in DOMAIN pingedTasks' : segment'[pingedTasks'[i]].task
    BY <1>3, <2>1, <2>2 DEF SameShape, Inv, RunState
  <2>4. \A t \in Segments : segment'[t].suspended => segment'[t].task
    BY <1>2 DEF Inv, RunState
  <2> QED BY <2>2, <2>3, <2>4 DEF RunState
<1>9. OpenState'
  <2>1. opened' = << >>
    BY DEF Ends
  <2> QED BY <2>1 DEF OpenState
<1> QED BY <1>1, <1>2, <1>3, <1>4, <1>6, <1>7, <1>8, <1>9

LEMMA EndCounts ==
    ASSUME Inv, NEW s \in Live, Live' = Live \ {s}, \A x : BlockedBy(x)' = BlockedBy(x) \ {s}
    PROVE  /\ Cardinality(Live') = Cardinality(Live) - 1 /\ Cardinality(Live) \in Nat \ {0}
           /\ \A x : Cardinality(BlockedBy(x)) \in Nat
           /\ \A x : x # segment[s].blockedBoundary =>
                 Cardinality(BlockedBy(x)') = Cardinality(BlockedBy(x))
           /\ \A x : x = segment[s].blockedBoundary =>
                 /\ Cardinality(BlockedBy(x)) # 0
                 /\ Cardinality(BlockedBy(x)') = Cardinality(BlockedBy(x)) - 1
<1>1. IsFiniteSet(Live) /\ Cardinality(Live) \in Nat
      /\ \A b : IsFiniteSet(BlockedBy(b)) /\ Cardinality(BlockedBy(b)) \in Nat
  BY Sets
<1>2. Cardinality(Live \ {s}) = Cardinality(Live) - 1 /\ Cardinality(Live) # 0
  BY <1>1, FS_RemoveElement, FS_EmptySet
<1>3. ASSUME NEW x, x = segment[s].blockedBoundary
      PROVE  /\ Cardinality(BlockedBy(x) \ {s}) = Cardinality(BlockedBy(x)) - 1
             /\ Cardinality(BlockedBy(x)) # 0
  <2>1. s \in BlockedBy(x)
    BY <1>3 DEF BlockedBy
  <2> QED BY <1>1, <2>1, FS_RemoveElement, FS_EmptySet
<1>4. \A x : x # segment[s].blockedBoundary => BlockedBy(x) \ {s} = BlockedBy(x)
  BY DEF BlockedBy
<1>5. Cardinality(Live') = Cardinality(Live) - 1
  BY <1>2
<1>6. ASSUME NEW x
      PROVE /\ Cardinality(BlockedBy(x)) \in Nat
            /\ x # segment[s].blockedBoundary =>
                  Cardinality(BlockedBy(x)') = Cardinality(BlockedBy(x))
            /\ x = segment[s].blockedBoundary =>
                  /\ Cardinality(BlockedBy(x)) # 0
                  /\ Cardinality(BlockedBy(x)') = Cardinality(BlockedBy(x)) - 1
  BY <1>1, <1>3, <1>4
<1> QED BY <1>1, <1>2, <1>5, <1>6

(* What was decided stays decided.                                         *)
LEMMA EndKeeps ==
    ASSUME Inv, TypeOK', NEW s \in Live, NEW st, Ends(s, st)
    PROVE  /\ segment[s].blockedBoundary \notin Complete
           /\ Complete \subseteq Complete'
           /\ Shown' = Shown /\ Reached' = Reached /\ Written \subseteq Written'
           /\ \A home, reg : ShownState(home, reg) => ShownState(home, reg)'
<1>0. TypeOK
  BY DEF Inv
<1>1. /\ s \in Segments /\ segment[s].task /\ segment[s].status = "PENDING"
      /\ segment'[s].status = st
      /\ segment'[s].parentFlushed = segment[s].parentFlushed
      /\ \A t \in Segments : t # s => segment'[t] = segment[t]
      /\ SameShape /\ SameNest
      /\ Live' = Live \ {s} /\ \A x : BlockedBy(x)' = BlockedBy(x) \ {s}
  BY EndTree
<1>2. segment[s].blockedBoundary \notin Complete
  <2>1. \A x : x = segment[s].blockedBoundary => Cardinality(BlockedBy(x)) # 0
    <3>1. Live' = Live \ {s} /\ \A x : BlockedBy(x)' = BlockedBy(x) \ {s}
      BY <1>1
    <3> QED BY <3>1, EndCounts
  <2>2. segment[s].blockedBoundary \in Boundaries =>
           suspense[segment[s].blockedBoundary].pendingTasks
             = Cardinality(BlockedBy(segment[s].blockedBoundary))
    BY DEF Inv, CountState
  <2> QED BY <2>1, <2>2 DEF Complete
<1>3. Complete \subseteq Complete'
  <2> SUFFICES ASSUME NEW x \in Complete PROVE x \in Complete'
    OBVIOUS
  <2>1. x \in Boundaries /\ x # segment[s].blockedBoundary
    BY <1>2 DEF Complete
  <2>2. /\ suspense'[x].pendingTasks = suspense[x].pendingTasks
        /\ suspense'[x].forceClientRender = suspense[x].forceClientRender
        /\ boundaries' = boundaries /\ opened' = << >>
    BY <2>1 DEF Ends
  <2> QED BY <2>1, <2>2 DEF Complete
<1>4. client' = client
  BY DEF Ends
<1>5. Shown' = Shown
  BY <1>4 DEF Shown
<1>6. \A t \in Segments : /\ segment'[t].parentFlushed = segment[t].parentFlushed
                          /\ segment'[t].boundary = segment[t].boundary
                          /\ segment'[t].task = segment[t].task
                          /\ segment'[t].parent = segment[t].parent
                          /\ segment[t].status # "PENDING" => segment'[t].status = segment[t].status
  BY <1>1 DEF SameShape
<1>7. Reached' = Reached
  BY <1>5, <1>6 DEF Reached
<1>8. Written \subseteq Written'
  BY <1>4, <1>6 DEF Written
<1>9. ASSUME NEW home, NEW reg, ShownState(home, reg) PROVE ShownState(home, reg)'
  <2> SUFFICES ASSUME NEW t \in Segments
        PROVE /\ t \in Reached => home[t] \in Shown /\ reg[t] \in Shown
              /\ segment'[t].boundary # NoBoundary /\ segment'[t].parentFlushed => t \in Reached
              /\ segment'[t].boundary # NoBoundary /\ t \in Reached =>
                    segment'[segment'[t].parent].status = "FLUSHED"
    BY <1>5, <1>7 DEF ShownState
  <2>1. segment[t].boundary # NoBoundary => segment[t].parent \in Segments
    BY <1>0, InvTypes DEF Inv, SegmentTree
  <2>2. segment[t].boundary # NoBoundary /\ t \in Reached =>
           segment[segment[t].parent].status = "FLUSHED"
    BY <1>9 DEF ShownState
  <2> QED BY <1>6, <1>9, <2>1, <2>2 DEF ShownState
<1> QED BY <1>2, <1>3, <1>5, <1>7, <1>8, <1>9
(* The queues: boundary b, which the task was blocked on, may be decided.  *)
LEMMA EndQueued ==
    ASSUME Inv, TypeOK', NEW s \in Live, NEW st, Ends(s, st), NEW b, b = segment[s].blockedBoundary,
           \A x \in Boundaries : x # b =>
              /\ Count(clientRenderedBoundaries', x) = Count(clientRenderedBoundaries, x)
              /\ Count(completedBoundaries', x) = Count(completedBoundaries, x),
           b \in Boundaries =>
              /\ Count(clientRenderedBoundaries', b) =
                    IF client[b] = "pending" /\ suspense'[b].forceClientRender THEN 1 ELSE 0
              /\ Count(completedBoundaries', b) =
                    IF client[b] = "pending" /\ ~suspense'[b].forceClientRender
                         /\ suspense'[b].pendingTasks = 0 THEN 1 ELSE 0
    PROVE  QueuedOnce'
<1>0. TypeOK
  BY DEF Inv
<1>1. /\ s \in Segments /\ segment[s].status = "PENDING"
      /\ \A t \in Segments : t # s => segment'[t] = segment[t]
      /\ SameNest
  BY EndTree
<1>2. client' = client
  BY DEF Ends
<1> SUFFICES ASSUME NEW x \in Boundaries
             PROVE
        /\ Count(clientRenderedBoundaries', x) =
             IF client'[x] = "pending" /\ suspense'[x].forceClientRender THEN 1 ELSE 0
        /\ \/ Count(completedBoundaries', x) =
                 IF client'[x] = "pending" /\ ~suspense'[x].forceClientRender
                      /\ suspense'[x].pendingTasks = 0 THEN 1 ELSE 0
           \/ Count(completedBoundaries', x) = 1 /\ ShownTwice(x)'
  BY Zenon DEF QueuedOnce
<1>3. CASE x = b
  BY <1>2, <1>3
<1>4. CASE x # b
  <2>1. /\ suspense'[x].pendingTasks = suspense[x].pendingTasks
        /\ suspense'[x].forceClientRender = suspense[x].forceClientRender
    BY <1>4 DEF Ends
  <2>2. ShownTwice(x) => ShownTwice(x)'
    <3> SUFFICES ASSUME ShownTwice(x) PROVE ShownTwice(x)'
      OBVIOUS
    <3>1. x <= boundaries
      BY DEF ShownTwice, Inv, ClientState, Complete
    <3>2. suspense[x].fallback \in Segments
      BY <3>1 DEF Inv, BoundaryTree
    <3>3. segment[suspense[x].fallback].status # "PENDING"
      BY DEF ShownTwice
    <3>4. segment'[suspense[x].fallback] = segment[suspense[x].fallback]
      BY <1>1, <3>2, <3>3
    <3>5. suspense'[x].fallback = suspense[x].fallback
      BY <1>1 DEF SameNest
    <3> QED BY <1>2, <3>4, <3>5 DEF ShownTwice
  <2>3. /\ Count(clientRenderedBoundaries, x) =
             IF client[x] = "pending" /\ suspense[x].forceClientRender THEN 1 ELSE 0
        /\ \/ Count(completedBoundaries, x) =
                 IF client[x] = "pending" /\ ~suspense[x].forceClientRender
                      /\ suspense[x].pendingTasks = 0 THEN 1 ELSE 0
           \/ Count(completedBoundaries, x) = 1 /\ ShownTwice(x)
    BY DEF Inv, QueuedOnce
  <2>4. /\ Count(clientRenderedBoundaries', x) = Count(clientRenderedBoundaries, x)
        /\ Count(completedBoundaries', x) = Count(completedBoundaries, x)
    BY <1>4
  <2> QED BY <1>2, <2>1, <2>2, <2>3, <2>4
<1> QED BY <1>3, <1>4

LEMMA EndClient ==
    ASSUME Inv, TypeOK', NEW s \in Live, NEW st, Ends(s, st), NEW b, b = segment[s].blockedBoundary,
           \A x \in ToSet(clientRenderedBoundaries') :
              \/ x \in ToSet(clientRenderedBoundaries)
              \/ x = b /\ b \in Boundaries /\ suspense'[b].forceClientRender /\ client[b] # "none",
           \A x \in ToSet(completedBoundaries') :
              x \in ToSet(completedBoundaries) \/ (x = b /\ b \in Complete' /\ client[b] # "none"),
           \A x \in ToSet(partialBoundaries') :
              x \in ToSet(partialBoundaries) \/ (x = b /\ client[b] # "none")
    PROVE  ClientState'
<1>0. TypeOK
  BY DEF Inv
<1>1. Complete \subseteq Complete'
  BY EndKeeps
<1>2. client' = client
  BY DEF Ends
<1>3. \A x \in Boundaries :
        /\ suspense'[x].parentFlushed = suspense[x].parentFlushed
        /\ suspense[x].forceClientRender => suspense'[x].forceClientRender
  BY DEF Ends
<1>4. /\ ToSet(clientRenderedBoundaries) \subseteq Boundaries
      /\ ToSet(completedBoundaries) \subseteq Boundaries
      /\ ToSet(partialBoundaries) \subseteq Boundaries
  BY <1>0, ControlTypes, RangeOfSet DEF ToSet, Range
<1>5. /\ \A x \in Boundaries :
            /\ client'[x] # "none" <=> suspense'[x].parentFlushed
            /\ client'[x] = "client" => suspense'[x].forceClientRender
            /\ client'[x] = "completed" => x \in Complete'
  BY <1>1, <1>2, <1>3 DEF Inv, ClientState
<1>6. \A x \in ToSet(clientRenderedBoundaries') : suspense'[x].forceClientRender /\ client'[x] # "none"
  BY <1>2, <1>3, <1>4 DEF Inv, ClientState
<1>7. \A x \in ToSet(completedBoundaries') : x \in Complete' /\ client'[x] # "none"
  BY <1>1, <1>2, <1>4 DEF Inv, ClientState
<1>8. \A x \in ToSet(partialBoundaries') : client'[x] # "none"
  BY <1>2, <1>4 DEF Inv, ClientState
<1> QED BY <1>5, <1>6, <1>7, <1>8, Zenon DEF ClientState

LEMMA EndReady ==
    ASSUME Inv, TypeOK', NEW s \in Live, NEW st, Ends(s, st), NEW b, b = segment[s].blockedBoundary,
           b \in Boundaries =>
              \/ suspense'[b].completedSegments = suspense[b].completedSegments
              \/ /\ suspense'[b].completedSegments = Append(suspense[b].completedSegments, s)
                 /\ segment[s].parentFlushed /\ st = "COMPLETED"
    PROVE  /\ ReadyState'
           /\ \A x \in Boundaries :
                 ToSet(suspense[x].completedSegments) \subseteq ToSet(suspense'[x].completedSegments)
<1>0. TypeOK
  BY DEF Inv
<1>1. /\ s \in Segments /\ segment[s].task /\ segment[s].status = "PENDING"
      /\ segment'[s].status = st
      /\ segment'[s].parentFlushed = segment[s].parentFlushed
      /\ segment'[s].id = segment[s].id
      /\ \A t \in Segments : t # s => segment'[t] = segment[t]
      /\ SameShape /\ SameNest
  BY EndTree
<1>2. Written \subseteq Written'
  BY EndKeeps
<1>3. \A x \in Boundaries :
        /\ suspense[x].completedSegments \in Seq(Segments)
        /\ ToSet(suspense[x].completedSegments) \subseteq Segments
  BY <1>0, InvTypes, RangeOfSet DEF ToSet, Range
<1>4. \A x \in Boundaries :
        \/ ToSet(suspense'[x].completedSegments) = ToSet(suspense[x].completedSegments)
        \/ /\ ToSet(suspense'[x].completedSegments) = ToSet(suspense[x].completedSegments) \cup {s}
           /\ x = b /\ segment[s].parentFlushed /\ st = "COMPLETED"
  <2> SUFFICES ASSUME NEW x \in Boundaries
      PROVE
        \/ ToSet(suspense'[x].completedSegments) = ToSet(suspense[x].completedSegments)
        \/ /\ ToSet(suspense'[x].completedSegments) = ToSet(suspense[x].completedSegments) \cup {s}
           /\ x = b /\ segment[s].parentFlushed /\ st = "COMPLETED"
    OBVIOUS
  <2>1. CASE x # b
    BY <2>1 DEF Ends
  <2>2. CASE x = b
    <3>1. CASE suspense'[x].completedSegments = suspense[x].completedSegments
      BY <3>1
    <3>2. CASE suspense'[x].completedSegments = Append(suspense[x].completedSegments, s)
               /\ segment[s].parentFlushed /\ st = "COMPLETED"
      <4>1. suspense[x].completedSegments \in Seq(Segments)
        BY <1>3
      <4>2. ToSet(Append(suspense[x].completedSegments, s)) = ToSet(suspense[x].completedSegments) \cup {s}
        BY <1>1, <4>1, AppendElements
      <4> QED BY <2>2, <3>2, <4>2
    <3> QED BY <2>2, <3>1, <3>2
  <2> QED BY <2>1, <2>2
<1>5. \A t \in Segments : segment[t].status # "PENDING" => segment'[t].status = segment[t].status
  BY <1>1
<1>6. ASSUME NEW x \in Boundaries, x <= boundaries'
      PROVE
        /\ \A t \in ToSet(suspense'[x].completedSegments) :
              /\ t > suspense'[x].fallback /\ t <= segments'
              /\ segment'[t].status \in {"COMPLETED", "FLUSHED"}
              /\ \/ t = suspense'[x].content
                 \/ /\ segment'[t].task /\ segment'[t].blockedBoundary = x
                    /\ segment'[t].parentFlushed /\ segment'[t].id # NoID
        /\ (\A i \in DOMAIN opened' : opened'[i] # x) /\ ~suspense'[x].forceClientRender =>
              \/ suspense'[x].content \in ToSet(suspense'[x].completedSegments)
              \/ segment'[suspense'[x].content].status = "FLUSHED"
        /\ client'[x] = "completed" =>
              \A t \in ToSet(suspense'[x].completedSegments) : t \in Written'
  <2>1. /\ x <= boundaries /\ segments' = segments /\ client' = client
        /\ suspense'[x].fallback = suspense[x].fallback /\ suspense'[x].content = suspense[x].content
        /\ suspense[x].forceClientRender => suspense'[x].forceClientRender
        /\ opened = << >>
    BY <1>6 DEF Ends
  <2>2. /\ \A t \in ToSet(suspense[x].completedSegments) :
              /\ t > suspense[x].fallback /\ t <= segments
              /\ segment[t].status \in {"COMPLETED", "FLUSHED"}
              /\ \/ t = suspense[x].content
                 \/ /\ segment[t].task /\ segment[t].blockedBoundary = x
                    /\ segment[t].parentFlushed /\ segment[t].id # NoID
        /\ (\A i \in DOMAIN opened : opened[i] # x) /\ ~suspense[x].forceClientRender =>
              \/ suspense[x].content \in ToSet(suspense[x].completedSegments)
              \/ segment[suspense[x].content].status = "FLUSHED"
        /\ client[x] = "completed" =>
              \A t \in ToSet(suspense[x].completedSegments) : t \in Written
    BY <2>1 DEF Inv, ReadyState
  <2>3. suspense[x].content \in Segments
    BY <2>1 DEF Inv, BoundaryTree
  <2>4. ASSUME NEW t \in ToSet(suspense[x].completedSegments)
        PROVE /\ t > suspense'[x].fallback /\ t <= segments'
              /\ segment'[t].status \in {"COMPLETED", "FLUSHED"}
              /\ \/ t = suspense'[x].content
                 \/ /\ segment'[t].task /\ segment'[t].blockedBoundary = x
                    /\ segment'[t].parentFlushed /\ segment'[t].id # NoID
    <3>1. t \in Segments /\ t # s
      BY <1>1, <1>3, <2>2
    <3> QED BY <1>1, <2>1, <2>2, <3>1
  <2>5. ASSUME x = b, segment[s].parentFlushed, st = "COMPLETED"
        PROVE /\ s > suspense'[x].fallback /\ s <= segments'
              /\ segment'[s].status \in {"COMPLETED", "FLUSHED"}
              /\ segment'[s].task /\ segment'[s].blockedBoundary = x
              /\ segment'[s].parentFlushed /\ segment'[s].id # NoID
    <3>1. s <= segments
      BY <1>0, <1>1, TaskIsMade
    <3>2. b # Root
      BY <1>0, <2>5, InvTypes
    <3>3. suspense[x].fallback < s
      BY <1>1, <2>5, <3>2 DEF Inv, SegmentTree
    <3>4. s # RootSegment
      BY <2>5, <3>2 DEF Inv, SegmentTree
    <3>5. segment[s].id # NoID
      BY <1>1, <2>5, <3>4 DEF Inv, OverState
    <3>6. segment'[s].task /\ segment'[s].blockedBoundary = x
      BY <1>1, <2>5 DEF SameShape
    <3>7. s \in Nat /\ suspense[x].fallback \in Nat
      <4>1. s \in Segments /\ suspense[x].fallback \in Segments
        BY <1>1, <2>1 DEF Inv, BoundaryTree
      <4> QED BY <1>0, <4>1, InvTypes
    <3> QED BY <1>1, <2>1, <2>5, <3>1, <3>3, <3>5, <3>6, <3>7
  <2>6. \A t \in ToSet(suspense'[x].completedSegments) :
              /\ t > suspense'[x].fallback /\ t <= segments'
              /\ segment'[t].status \in {"COMPLETED", "FLUSHED"}
              /\ \/ t = suspense'[x].content
                 \/ /\ segment'[t].task /\ segment'[t].blockedBoundary = x
                    /\ segment'[t].parentFlushed /\ segment'[t].id # NoID
    <3>1. \A t \in ToSet(suspense'[x].completedSegments) :
             t \in ToSet(suspense[x].completedSegments)
               \/ (t = s /\ x = b /\ segment[s].parentFlushed /\ st = "COMPLETED")
      BY <1>4
    <3> QED BY <2>4, <2>5, <3>1
  <2>7. (\A i \in DOMAIN opened' : opened'[i] # x) /\ ~suspense'[x].forceClientRender =>
              \/ suspense'[x].content \in ToSet(suspense'[x].completedSegments)
              \/ segment'[suspense'[x].content].status = "FLUSHED"
    <3>1. opened' = opened
      BY DEF Ends
    <3> QED BY <1>4, <1>5, <2>1, <2>2, <2>3, <3>1
  <2>8. client'[x] = "completed" =>
              \A t \in ToSet(suspense'[x].completedSegments) : t \in Written'
    <3> SUFFICES ASSUME client'[x] = "completed"
                 PROVE \A t \in ToSet(suspense'[x].completedSegments) : t \in Written'
      OBVIOUS
    <3>1. x \in Complete
      BY <2>1 DEF Inv, ClientState
    <3>2. x # b
      BY <3>1, EndKeeps
    <3> QED BY <1>2, <1>4, <2>1, <2>2, <3>2
  <2> QED BY <2>6, <2>7, <2>8
<1>7. ReadyState'
  BY <1>6 DEF ReadyState
<1> QED BY <1>4, <1>7

LEMMA EndOver ==
    ASSUME Inv, TypeOK', NEW s \in Live, NEW st, Ends(s, st), NEW b, b = segment[s].blockedBoundary,
           \A x \in Boundaries :
              ToSet(suspense[x].completedSegments) \subseteq ToSet(suspense'[x].completedSegments),
           st = "ABORTED" =>
              \/ requestStatus' # "OPEN"
              \/ b # Root /\ suspense'[b].forceClientRender
              \/ segment[s].abortSet \in Complete',
           st = "ERRORED" =>
              requestStatus' # "OPEN" \/ (b # Root /\ suspense'[b].forceClientRender),
           st = "COMPLETED" /\ segment[s].parentFlushed =>
              \/ b = Root /\ s = RootSegment
              \/ /\ b # Root
                 /\ \/ suspense'[b].forceClientRender
                    \/ s \in ToSet(suspense'[b].completedSegments)
    PROVE  OverState'
<1>0. TypeOK
  BY DEF Inv
<1>1. /\ s \in Segments /\ segment[s].task /\ segment[s].status = "PENDING"
      /\ segment'[s].status = st
      /\ segment'[s].parentFlushed = segment[s].parentFlushed
      /\ segment'[s].id = segment[s].id
      /\ \A t \in Segments : t # s => segment'[t] = segment[t]
      /\ SameShape /\ SameNest
  BY EndTree
<1>2. Written \subseteq Written' /\ Complete \subseteq Complete'
  BY EndKeeps
<1>3. \A x \in Boundaries : suspense[x].forceClientRender => suspense'[x].forceClientRender
  BY DEF Ends
<1>4. requestStatus' = "OPEN" => requestStatus = "OPEN"
  BY DEF Ends
<1> SUFFICES ASSUME NEW t \in Segments, segment'[t].task
    PROVE
      LET c == segment'[t].blockedBoundary
          a == segment'[t].abortSet
      IN
        /\ segment'[t].parentFlushed /\ t # RootSegment =>
              segment'[t].id # NoID \/ segment'[t].status = "FLUSHED"
        /\ segment'[t].status = "ABORTED" =>
              \/ requestStatus' # "OPEN"
              \/ c # Root /\ suspense'[c].forceClientRender
              \/ a \in Complete'
        /\ segment'[t].status = "ERRORED" =>
              \/ requestStatus' # "OPEN"
              \/ c # Root /\ suspense'[c].forceClientRender
        /\ segment'[t].status = "COMPLETED" /\ segment'[t].parentFlushed =>
              \/ c = Root /\ t = RootSegment
              \/ /\ c # Root
                 /\ \/ suspense'[c].forceClientRender
                    \/ t \in ToSet(suspense'[c].completedSegments)
                    \/ t \in Written'
  BY DEF OverState
<1>5. segment'[t].blockedBoundary = segment[t].blockedBoundary /\ segment'[t].abortSet = segment[t].abortSet
  BY <1>1 DEF SameShape
<1>6. CASE t = s
  <2>1. segment[s].parentFlushed /\ s # RootSegment => segment[s].id # NoID
    BY <1>1 DEF Inv, OverState
  <2> QED BY <1>1, <1>5, <1>6, <2>1
<1>7. CASE t # s
  <2>1. segment'[t] = segment[t]
    BY <1>1, <1>7
  <2> DEFINE c == segment[t].blockedBoundary
             a == segment[t].abortSet
  <2>2. /\ segment[t].parentFlushed /\ t # RootSegment =>
              segment[t].id # NoID \/ segment[t].status = "FLUSHED"
        /\ segment[t].status = "ABORTED" =>
              \/ requestStatus # "OPEN"
              \/ c # Root /\ suspense[c].forceClientRender
              \/ a \in Complete
        /\ segment[t].status = "ERRORED" =>
              \/ requestStatus # "OPEN"
              \/ c # Root /\ suspense[c].forceClientRender
        /\ segment[t].status = "COMPLETED" /\ segment[t].parentFlushed =>
              \/ c = Root /\ t = RootSegment
              \/ /\ c # Root
                 /\ \/ suspense[c].forceClientRender
                    \/ t \in ToSet(suspense[c].completedSegments)
                    \/ t \in Written
    BY <2>1 DEF Inv, OverState
  <2>3. c # Root => c \in Boundaries
    BY <1>0, InvTypes
  <2>4. c # Root => /\ suspense[c].forceClientRender => suspense'[c].forceClientRender
                    /\ ToSet(suspense[c].completedSegments) \subseteq ToSet(suspense'[c].completedSegments)
    BY <1>3, <2>3
  <2> QED BY <1>2, <1>4, <2>1, <2>2, <2>4
<1> QED BY <1>6, <1>7

(* All of it: what may be left to the client, or become complete or        *)
(* partial, is the boundary b that the task was blocked on.                *)
EndsQueued(b, c, d, e) ==
    /\ c \in BOOLEAN /\ d \in BOOLEAN /\ e \in BOOLEAN
    /\ clientRenderedBoundaries' =
         IF c THEN Append(clientRenderedBoundaries, b) ELSE clientRenderedBoundaries
    /\ completedBoundaries' = IF d THEN Append(completedBoundaries, b) ELSE completedBoundaries
    /\ partialBoundaries' = IF e THEN Append(partialBoundaries, b) ELSE partialBoundaries
    /\ b = Root => ~c /\ ~d /\ ~e
    /\ b # Root =>
          /\ c <=> /\ suspense[b].parentFlushed /\ ~suspense[b].forceClientRender
                   /\ suspense'[b].forceClientRender
          /\ d <=> /\ suspense[b].parentFlushed /\ ~suspense'[b].forceClientRender
                   /\ suspense'[b].pendingTasks = 0
          /\ e => suspense[b].parentFlushed

LEMMA EndsQueuedEffect ==
    ASSUME Inv, TypeOK', NEW s \in Live, NEW st, Ends(s, st), NEW b, b = segment[s].blockedBoundary,
           NEW c, NEW d, NEW e, EndsQueued(b, c, d, e)
    PROVE  QueuedOnce' /\ ClientState'
<1>0. TypeOK
  BY DEF Inv
<1>1. /\ clientRenderedBoundaries \in Seq(Boundaries) /\ completedBoundaries \in Seq(Boundaries)
      /\ partialBoundaries \in Seq(Boundaries)
  BY <1>0, ControlTypes
<1>2. b \in Boundaries \cup {Root} /\ Root \notin Boundaries /\ (b \in Boundaries <=> b # Root)
  <2>1. s \in Segments
    BY DEF Live
  <2> QED BY <1>0, <2>1, InvTypes
<1>3. ASSUME NEW q \in Seq(Boundaries), NEW yes \in BOOLEAN, NEW p, p = IF yes THEN Append(q, b) ELSE q,
             b = Root => ~yes
      PROVE  /\ \A x \in ToSet(p) : x \in ToSet(q) \/ (x = b /\ yes)
             /\ \A x : Count(p, x) = Count(q, x) + IF yes /\ x = b THEN 1 ELSE 0
             /\ \A x : Count(q, x) \in Nat
  <2>1. \A x : Count(q, x) \in Nat
    BY CountType
  <2>2. CASE yes
    <3>1. b \in Boundaries
      BY <1>2, <1>3, <2>2
    <3>2. ToSet(Append(q, b)) = ToSet(q) \cup {b}
      BY <3>1, AppendElements
    <3>3. \A x : Count(Append(q, b), x) = Count(q, x) + IF b = x THEN 1 ELSE 0
      BY <3>1, CountAppend
    <3> QED BY <1>3, <2>1, <2>2, <3>2, <3>3
  <2>3. CASE ~yes
    BY <1>3, <2>1, <2>3
  <2> QED BY <2>2, <2>3
<1>4. /\ \A x \in ToSet(clientRenderedBoundaries') : x \in ToSet(clientRenderedBoundaries) \/ (x = b /\ c)
      /\ \A x : Count(clientRenderedBoundaries', x)
                  = Count(clientRenderedBoundaries, x) + IF c /\ x = b THEN 1 ELSE 0
      /\ \A x : Count(clientRenderedBoundaries, x) \in Nat
  <2>1. c \in BOOLEAN /\ clientRenderedBoundaries' = (IF c THEN Append(clientRenderedBoundaries, b) ELSE clientRenderedBoundaries) /\ (b = Root => ~c)
    BY DEF EndsQueued
  <2>2. \A x \in ToSet(clientRenderedBoundaries') : x \in ToSet(clientRenderedBoundaries) \/ (x = b /\ c)
    BY <1>1, <1>3, <2>1
  <2>3. \A x : Count(clientRenderedBoundaries', x) = Count(clientRenderedBoundaries, x) + IF c /\ x = b THEN 1 ELSE 0
    <3>1. CASE c
      <4>1. b \in Boundaries /\ clientRenderedBoundaries' = Append(clientRenderedBoundaries, b)
        BY <1>2, <2>1, <3>1
      <4>2. \A x : Count(Append(clientRenderedBoundaries, b), x) = Count(clientRenderedBoundaries, x) + IF b = x THEN 1 ELSE 0
        BY <1>1, <4>1, CountAppend
      <4> QED BY <3>1, <4>1, <4>2
    <3>2. CASE ~c
      <4>1. \A x : Count(clientRenderedBoundaries, x) \in Nat
        BY <1>1, CountType
      <4> QED BY <2>1, <3>2, <4>1
    <3> QED BY <2>1, <3>1, <3>2
  <2>4. \A x : Count(clientRenderedBoundaries, x) \in Nat
    BY <1>1, CountType
  <2> QED BY <2>2, <2>3, <2>4
<1>5. /\ \A x \in ToSet(completedBoundaries') : x \in ToSet(completedBoundaries) \/ (x = b /\ d)
      /\ \A x : Count(completedBoundaries', x)
                  = Count(completedBoundaries, x) + IF d /\ x = b THEN 1 ELSE 0
      /\ \A x : Count(completedBoundaries, x) \in Nat
  <2>1. d \in BOOLEAN /\ completedBoundaries' = (IF d THEN Append(completedBoundaries, b) ELSE completedBoundaries) /\ (b = Root => ~d)
    BY DEF EndsQueued
  <2>2. \A x \in ToSet(completedBoundaries') : x \in ToSet(completedBoundaries) \/ (x = b /\ d)
    BY <1>1, <1>3, <2>1
  <2>3. \A x : Count(completedBoundaries', x) = Count(completedBoundaries, x) + IF d /\ x = b THEN 1 ELSE 0
    <3>1. CASE d
      <4>1. b \in Boundaries /\ completedBoundaries' = Append(completedBoundaries, b)
        BY <1>2, <2>1, <3>1
      <4>2. \A x : Count(Append(completedBoundaries, b), x) = Count(completedBoundaries, x) + IF b = x THEN 1 ELSE 0
        BY <1>1, <4>1, CountAppend
      <4> QED BY <3>1, <4>1, <4>2
    <3>2. CASE ~d
      <4>1. \A x : Count(completedBoundaries, x) \in Nat
        BY <1>1, CountType
      <4> QED BY <2>1, <3>2, <4>1
    <3> QED BY <2>1, <3>1, <3>2
  <2>4. \A x : Count(completedBoundaries, x) \in Nat
    BY <1>1, CountType
  <2> QED BY <2>2, <2>3, <2>4
<1>6. /\ \A x \in ToSet(partialBoundaries') : x \in ToSet(partialBoundaries) \/ (x = b /\ e)
  BY <1>1, <1>3 DEF EndsQueued
<1>7. ASSUME b \in Boundaries
      PROVE  /\ suspense[b].parentFlushed <=> client[b] # "none"
             /\ client[b] # "completed" /\ (client[b] = "client" => suspense[b].forceClientRender)
             /\ client[b] \in {"none", "pending", "completed", "client"}
             /\ Count(clientRenderedBoundaries, b) =
                  IF client[b] = "pending" /\ suspense[b].forceClientRender THEN 1 ELSE 0
             /\ Count(completedBoundaries, b) = 0
             /\ suspense[b].forceClientRender => suspense'[b].forceClientRender
             /\ suspense[b].forceClientRender \in BOOLEAN /\ suspense'[b].forceClientRender \in BOOLEAN
             /\ suspense[b].parentFlushed \in BOOLEAN
  <2>1. b \notin Complete
    BY EndKeeps
  <2>2. client[b] # "completed"
    BY <1>7, <2>1 DEF Inv, ClientState
  <2>3. /\ suspense[b].parentFlushed <=> client[b] # "none"
        /\ (client[b] = "client" => suspense[b].forceClientRender)
    BY <1>7 DEF Inv, ClientState
  <2>4. /\ client[b] \in {"none", "pending", "completed", "client"}
        /\ suspense[b].forceClientRender \in BOOLEAN /\ suspense'[b].forceClientRender \in BOOLEAN
        /\ suspense[b].parentFlushed \in BOOLEAN
    <3>1. suspense'[b] \in BoundaryRecord
      BY <1>7, RecordTypes
    <3>2. suspense'[b].forceClientRender \in BOOLEAN
      BY <3>1 DEF BoundaryRecord
    <3> QED BY <1>0, <1>7, <3>2, ControlTypes, InvTypes
  <2>5. ~ShownTwice(b)
    BY <2>2 DEF ShownTwice
  <2>6. /\ Count(clientRenderedBoundaries, b) =
             IF client[b] = "pending" /\ suspense[b].forceClientRender THEN 1 ELSE 0
        /\ Count(completedBoundaries, b) =
             IF client[b] = "pending" /\ ~suspense[b].forceClientRender
                  /\ suspense[b].pendingTasks = 0 THEN 1 ELSE 0
    BY <1>7, <2>5 DEF Inv, QueuedOnce
  <2>7. ~(~suspense[b].forceClientRender /\ suspense[b].pendingTasks = 0)
    <3>1. b <= boundaries /\ opened = << >>
      BY DEF Inv, SegmentTree, Live, Ends
    <3> QED BY <1>7, <2>1, <3>1 DEF Complete
  <2>8. suspense[b].forceClientRender => suspense'[b].forceClientRender
    BY <1>7 DEF Ends
  <2>9. Count(completedBoundaries, b) = 0
    BY <2>6, <2>7
  <2>10. Count(clientRenderedBoundaries, b) =
             IF client[b] = "pending" /\ suspense[b].forceClientRender THEN 1 ELSE 0
    BY <2>6
  <2> QED BY <2>2, <2>3, <2>4, <2>8, <2>9, <2>10
<1>8. b # Root => /\ c <=> /\ suspense[b].parentFlushed /\ ~suspense[b].forceClientRender
                           /\ suspense'[b].forceClientRender
                  /\ d <=> /\ suspense[b].parentFlushed /\ ~suspense'[b].forceClientRender
                           /\ suspense'[b].pendingTasks = 0
                  /\ e => suspense[b].parentFlushed
  BY DEF EndsQueued
<1>9. b = Root => ~c /\ ~d /\ ~e
  BY DEF EndsQueued
<1>10. \A x \in Boundaries : x # b =>
              /\ Count(clientRenderedBoundaries', x) = Count(clientRenderedBoundaries, x)
              /\ Count(completedBoundaries', x) = Count(completedBoundaries, x)
  BY <1>4, <1>5
<1>11. ASSUME b \in Boundaries
       PROVE  /\ Count(clientRenderedBoundaries', b) =
                    IF client[b] = "pending" /\ suspense'[b].forceClientRender THEN 1 ELSE 0
              /\ Count(completedBoundaries', b) =
                    IF client[b] = "pending" /\ ~suspense'[b].forceClientRender
                         /\ suspense'[b].pendingTasks = 0 THEN 1 ELSE 0
  <2>1. /\ c <=> /\ suspense[b].parentFlushed /\ ~suspense[b].forceClientRender
                 /\ suspense'[b].forceClientRender
        /\ d <=> /\ suspense[b].parentFlushed /\ ~suspense'[b].forceClientRender
                 /\ suspense'[b].pendingTasks = 0
    BY <1>2, <1>8, <1>11
  <2>2. Count(clientRenderedBoundaries', b) = Count(clientRenderedBoundaries, b) + IF c THEN 1 ELSE 0
    BY <1>4
  <2>3. Count(completedBoundaries', b) = Count(completedBoundaries, b) + IF d THEN 1 ELSE 0
    BY <1>5
  <2>4. c => client[b] = "pending" /\ ~suspense[b].forceClientRender /\ suspense'[b].forceClientRender
    BY <1>7, <1>11, <2>1
  <2>5. ~c => ((client[b] = "pending" /\ suspense'[b].forceClientRender)
                <=> (client[b] = "pending" /\ suspense[b].forceClientRender))
    BY <1>7, <1>11, <2>1
  <2>6. d <=> client[b] = "pending" /\ ~suspense'[b].forceClientRender /\ suspense'[b].pendingTasks = 0
    BY <1>7, <1>11, <2>1
  <2>7. Count(clientRenderedBoundaries', b) =
                    IF client[b] = "pending" /\ suspense'[b].forceClientRender THEN 1 ELSE 0
    BY <1>7, <1>11, <2>2, <2>4, <2>5
  <2>8. Count(completedBoundaries', b) =
                    IF client[b] = "pending" /\ ~suspense'[b].forceClientRender
                         /\ suspense'[b].pendingTasks = 0 THEN 1 ELSE 0
    BY <1>7, <1>11, <2>3, <2>6
  <2> QED BY <2>7, <2>8
<1>12. QueuedOnce'
  BY <1>10, <1>11, EndQueued
<1>13. \A x \in ToSet(clientRenderedBoundaries') :
              \/ x \in ToSet(clientRenderedBoundaries)
              \/ x = b /\ b \in Boundaries /\ suspense'[b].forceClientRender /\ client[b] # "none"
  BY <1>2, <1>4, <1>7, <1>8, <1>9
<1>14. d => b \in Complete' /\ client[b] # "none"
  <2> SUFFICES ASSUME d PROVE b \in Complete' /\ client[b] # "none"
    OBVIOUS
  <2>1. b # Root /\ b \in Boundaries
    BY <1>2, <1>9
  <2>2. suspense[b].parentFlushed /\ ~suspense'[b].forceClientRender /\ suspense'[b].pendingTasks = 0
    BY <1>8, <2>1
  <2>3. b <= boundaries /\ boundaries' = boundaries /\ opened' = << >>
    BY DEF Inv, SegmentTree, Live, Ends
  <2> QED BY <1>7, <2>1, <2>2, <2>3 DEF Complete
<1>15. \A x \in ToSet(completedBoundaries') :
              x \in ToSet(completedBoundaries) \/ (x = b /\ b \in Complete' /\ client[b] # "none")
  BY <1>5, <1>14
<1>16. \A x \in ToSet(partialBoundaries') :
              x \in ToSet(partialBoundaries) \/ (x = b /\ client[b] # "none")
  BY <1>2, <1>6, <1>7, <1>8, <1>9
<1>17. ClientState'
  BY <1>13, <1>15, <1>16, EndClient
<1> QED BY <1>12, <1>17

LEMMA EndRoot ==
    ASSUME Inv, TypeOK', NEW s \in Live, NEW st, Ends(s, st), NEW b, b = segment[s].blockedBoundary,
           allPendingTasks' = Cardinality(Live) - 1 + Count(calls', TD),
           b # Root => suspense'[b].pendingTasks = suspense[b].pendingTasks - 1,
           b = Root =>
              \/ /\ suspense'[Root].pendingTasks = suspense[Root].pendingTasks - 1
                 /\ s = RootSegment => st = "COMPLETED"
              \/ /\ suspense'[Root].pendingTasks = suspense[Root].pendingTasks
                 /\ requestStatus' # "OPEN" /\ st # "COMPLETED",
           suspense'[Root].completedSegments =
              IF s = RootSegment /\ st = "COMPLETED" THEN << RootSegment >>
              ELSE suspense[Root].completedSegments
    PROVE  CountState' /\ RootState'
<1>0. TypeOK
  BY DEF Inv
<1>1. /\ s \in Segments /\ segment[s].task /\ segment[s].status = "PENDING"
      /\ segment'[s].status = st
      /\ segment'[s].parentFlushed = segment[s].parentFlushed
      /\ \A t \in Segments : t # s => segment'[t] = segment[t]
      /\ SameShape
      /\ Live' = Live \ {s} /\ \A x : BlockedBy(x)' = BlockedBy(x) \ {s}
  BY EndTree
<1>2. /\ Cardinality(Live') = Cardinality(Live) - 1 /\ Cardinality(Live) \in Nat \ {0}
      /\ \A x : Cardinality(BlockedBy(x)) \in Nat
      /\ \A x : x # segment[s].blockedBoundary =>
            Cardinality(BlockedBy(x)') = Cardinality(BlockedBy(x))
      /\ \A x : x = segment[s].blockedBoundary =>
            /\ Cardinality(BlockedBy(x)) # 0
            /\ Cardinality(BlockedBy(x)') = Cardinality(BlockedBy(x)) - 1
  BY <1>1, EndCounts
<1>3. b \in Boundaries \cup {Root} /\ Root \notin Boundaries /\ RootSegment \in Segments
  BY <1>0, <1>1, InvTypes
<1>4. \A x \in Boundaries \cup {Root} : x # b => suspense'[x].pendingTasks = suspense[x].pendingTasks
  BY DEF Ends
<1>5. \A x \in Boundaries \cup {Root} : suspense[x].pendingTasks \in Nat
  BY <1>0, InvTypes
<1>6. \A x \in Boundaries : suspense'[x].pendingTasks = Cardinality(BlockedBy(x)')
  <2> SUFFICES ASSUME NEW x \in Boundaries PROVE suspense'[x].pendingTasks = Cardinality(BlockedBy(x)')
    OBVIOUS
  <2>1. suspense[x].pendingTasks = Cardinality(BlockedBy(x))
    BY DEF Inv, CountState
  <2> QED BY <1>2, <1>3, <1>4, <2>1
<1> DEFINE n == Cardinality(BlockedBy(Root))
           m == Cardinality(BlockedBy(Root)')
<1>7. /\ suspense[Root].pendingTasks >= n
      /\ requestStatus = "OPEN" => suspense[Root].pendingTasks = n
      /\ segment[RootSegment].status \in {"ABORTED", "ERRORED"} => suspense[Root].pendingTasks > n
  BY DEF Inv, CountState
<1>8. n \in Nat /\ m \in Nat /\ (b # Root => m = n) /\ (b = Root => n # 0 /\ m = n - 1)
  BY <1>2
<1>9. requestStatus' = "OPEN" => requestStatus = "OPEN"
  BY DEF Ends
<1>10. b = Root \/ s # RootSegment
  BY DEF Inv, SegmentTree
<1> HIDE DEF n, m
<1>11. /\ suspense'[Root].pendingTasks >= m
       /\ requestStatus' = "OPEN" => suspense'[Root].pendingTasks = m
  <2>1. CASE b # Root
    BY <1>4, <1>5, <1>7, <1>8, <1>9, <2>1
  <2>2. CASE b = Root
    BY <1>5, <1>7, <1>8, <1>9, <2>2
  <2> QED BY <2>1, <2>2
<1>12. segment'[RootSegment].status \in {"ABORTED", "ERRORED"} => suspense'[Root].pendingTasks > m
  <2> SUFFICES ASSUME segment'[RootSegment].status \in {"ABORTED", "ERRORED"}
               PROVE  suspense'[Root].pendingTasks > m
    OBVIOUS
  <2>1. CASE s = RootSegment
    <3>1. b = Root /\ st # "COMPLETED"
      BY <1>1, <1>10, <2>1
    <3> QED BY <1>5, <1>7, <1>8, <2>1, <3>1
  <2>2. CASE s # RootSegment
    <3>1. segment'[RootSegment] = segment[RootSegment]
      BY <1>1, <1>3, <2>2
    <3>2. suspense[Root].pendingTasks > n
      BY <1>7, <3>1
    <3>3. CASE b # Root
      BY <1>4, <1>8, <3>2, <3>3
    <3>4. CASE b = Root
      BY <1>5, <1>8, <2>2, <3>2, <3>4
    <3> QED BY <3>3, <3>4
  <2> QED BY <2>1, <2>2
<1>13. allPendingTasks' = Cardinality(Live') + Count(calls', TD)
  BY <1>2
<1>14. CountState'
  <2>1. TD = Call("taskDone", 0)
    BY DEF TD
  <2> QED BY <1>6, <1>11, <1>12, <1>13, <2>1 DEF CountState, n, m
<1>15. segment[RootSegment].status = "FLUSHED" => b # Root /\ s # RootSegment
  <2> SUFFICES ASSUME segment[RootSegment].status = "FLUSHED" PROVE b # Root /\ s # RootSegment
    OBVIOUS
  <2>1. suspense[Root].pendingTasks = 0
    BY DEF Inv, RootState
  <2>2. b # Root
    BY <1>5, <1>7, <1>8, <2>1
  <2> QED BY <1>10, <2>2
<1>16. segment'[RootSegment].status = "FLUSHED" <=> segment[RootSegment].status = "FLUSHED"
  <2>1. st # "FLUSHED"
    BY DEF Ends
  <2> QED BY <1>1, <1>3, <1>15, <2>1
<1>17. segment'[RootSegment].status = "FLUSHED" => suspense'[Root].pendingTasks = 0
  BY <1>4, <1>15, <1>16 DEF Inv, RootState
<1>18. segment'[RootSegment].status # "FLUSHED" =>
          /\ \A x \in Boundaries : client'[x] = "none"
          /\ \A t \in Segments \ {RootSegment} : segment'[t].task => ~segment'[t].parentFlushed
  <2>1. client' = client
    BY DEF Ends
  <2>2. \A t \in Segments : segment'[t].parentFlushed = segment[t].parentFlushed /\ segment'[t].task = segment[t].task
    BY <1>1 DEF SameShape
  <2> QED BY <1>16, <2>1, <2>2 DEF Inv, RootState
<1>19. s # RootSegment => segment'[RootSegment] = segment[RootSegment]
  BY <1>1, <1>3
<1>20. /\ suspense[Root].completedSegments # << >> =>
          /\ suspense[Root].completedSegments = << RootSegment >>
          /\ segment[RootSegment].status = "COMPLETED"
       /\ segment[RootSegment].status = "COMPLETED" =>
          suspense[Root].completedSegments = << RootSegment >>
       /\ segment[RootSegment].parentFlushed
  BY DEF Inv, RootState
<1>21. /\ suspense'[Root].completedSegments # << >> =>
          /\ suspense'[Root].completedSegments = << RootSegment >>
          /\ segment'[RootSegment].status = "COMPLETED"
       /\ segment'[RootSegment].status = "COMPLETED" =>
          suspense'[Root].completedSegments = << RootSegment >>
       /\ segment'[RootSegment].parentFlushed
  <2>1. CASE s = RootSegment
    BY <1>1, <1>20, <2>1
  <2>2. CASE s # RootSegment
    BY <1>19, <1>20, <2>2
  <2> QED BY <2>1, <2>2
<1>22. RootState'
  BY <1>17, <1>18, <1>21 DEF RootState
<1> QED BY <1>14, <1>22

LEMMA EndFrame ==
    ASSUME Inv, TypeOK', NEW s \in Live, NEW st, Ends(s, st), NEW b, b = segment[s].blockedBoundary,
           calls' \in Seq(CallType),
           allPendingTasks' = Cardinality(Live) - 1 + Count(calls', TD),
           b # Root => suspense'[b].pendingTasks = suspense[b].pendingTasks - 1,
           b = Root =>
              \/ /\ suspense'[Root].pendingTasks = suspense[Root].pendingTasks - 1
                 /\ s = RootSegment => st = "COMPLETED"
              \/ /\ suspense'[Root].pendingTasks = suspense[Root].pendingTasks
                 /\ requestStatus' # "OPEN" /\ st # "COMPLETED",
           suspense'[Root].completedSegments =
              IF s = RootSegment /\ st = "COMPLETED" THEN << RootSegment >>
              ELSE suspense[Root].completedSegments,
           NEW c, NEW d, NEW e, EndsQueued(b, c, d, e),
           b # Root =>
              \/ suspense'[b].completedSegments = suspense[b].completedSegments
              \/ /\ suspense'[b].completedSegments = Append(suspense[b].completedSegments, s)
                 /\ segment[s].parentFlushed /\ st = "COMPLETED",
           st = "ABORTED" =>
              \/ requestStatus' # "OPEN"
              \/ b # Root /\ suspense'[b].forceClientRender
              \/ segment[s].abortSet \in Complete',
           st = "ERRORED" =>
              requestStatus' # "OPEN" \/ (b # Root /\ suspense'[b].forceClientRender),
           st = "COMPLETED" /\ segment[s].parentFlushed =>
              \/ b = Root /\ s = RootSegment
              \/ /\ b # Root
                 /\ \/ suspense'[b].forceClientRender
                    \/ s \in ToSet(suspense'[b].completedSegments),
           \A place \in Places : PlaceOf(place) /\ StackState(place.rank) => StackState(place.rank)',
           SetState', FlowState'
    PROVE  Inv'
<1>0. TypeOK
  BY DEF Inv
<1>1. SameShape /\ SameNest /\ SegmentTree' /\ BoundaryTree' /\ RunState' /\ OpenState'
  BY EndTree
<1>2. CountState' /\ RootState'
  BY EndRoot
<1>3. QueuedOnce' /\ ClientState'
  BY EndsQueuedEffect
<1>4. b \in Boundaries => b # Root
  BY <1>0, InvTypes
<1>5. /\ ReadyState'
      /\ \A x \in Boundaries :
            ToSet(suspense[x].completedSegments) \subseteq ToSet(suspense'[x].completedSegments)
  BY <1>4, EndReady
<1>6. OverState'
  BY <1>5, EndOver
<1>7. opened' = << >>
  BY DEF Ends
<1>8. Placed'
  <2>1. PICK place \in Places : /\ PlaceOf(place)
                                /\ StackState(place.rank)
                                /\ ShownState(place.home, place.reg)
    BY DEF Inv, Placed
  <2>2. PlaceOf(place)'
    BY <1>1, <1>7, <2>1, PlaceFrame
  <2>3. StackState(place.rank)'
    BY <2>1
  <2>4. ShownState(place.home, place.reg)'
    BY <2>1, EndKeeps
  <2> QED BY <2>2, <2>3, <2>4 DEF Placed
<1> QED BY <1>1, <1>2, <1>3, <1>5, <1>6, <1>8, Zenon DEF Inv

(* What is left of the aborts under way, on the stack q, when task s ends  *)
(* and is taken from the sets of sus.                                      *)
StackLeft(rank, q, s) ==
    /\ \A i \in DOMAIN q : AbortCall(q[i]) =>
          /\ q[i].x \in Live /\ q[i].x # s
          /\ \A j \in DOMAIN q : AbortCall(q[j]) /\ q[j].x = q[i].x => j = i
          /\ \A j \in DOMAIN q : j > i /\ q[j].f = "clear" =>
                rank[q[j].x] <= rank[segment[q[i].x].abortSet]
          /\ q[i].f = "abortTaskSoft" => segment[q[i].x].abortSet \in Complete
    /\ \A i \in DOMAIN q : q[i].f = "clear" => rank[q[i].x] <= rank[segment[s].abortSet]

SetsLeft(q, s, sus) ==
    \A a \in Boundaries \cup {Root} : \A t \in sus[a].fallbackAbortableTasks :
        /\ segment[t].task /\ segment[t].abortSet = a
        /\ \/ t \in Live /\ t # s /\ \A i \in DOMAIN q : AbortCall(q[i]) => q[i].x # t
           \/ \E i \in DOMAIN q : q[i] = Call("clear", a)

LEMMA LeftOfAbort ==
    ASSUME Inv, calls # << >>, AbortCall(Head(calls))
    PROVE  /\ \A rank : StackState(rank) => StackLeft(rank, Rest, Arg)
           /\ SetsLeft(Rest, Arg, suspense)
           /\ Arg \in Live
           /\ Head(calls).f = "abortTaskSoft" => segment[Arg].abortSet \in Complete
<1>0. calls \in Seq(CallType)
  BY DEF Inv
<1> DEFINE q == calls
           r == Tail(calls)
           s == Head(calls).x
<1>1. /\ Head(q) \in CallType /\ r \in Seq(CallType) /\ q[1] = Head(q)
      /\ Len(r) \in Nat /\ DOMAIN r = 1..Len(r) /\ DOMAIN q = 1..(Len(r) + 1)
      /\ \A i \in DOMAIN r : i + 1 \in DOMAIN q /\ q[i + 1] = r[i]
      /\ \A i \in DOMAIN q : i = 1 \/ (i - 1 \in DOMAIN r /\ q[i] = r[i - 1])
  BY <1>0, PopCall
<1>2. 1 \in DOMAIN q /\ \A i \in DOMAIN r : i + 1 # 1 /\ i \in Nat
  BY <1>1
<1>3. /\ s = Arg /\ r = Rest /\ q[1].x = s /\ AbortCall(q[1]) /\ q[1].f # "clear"
  BY <1>1 DEF Arg, Rest, AbortCall
<1> HIDE DEF r, s
<1>4. ASSUME NEW rank, StackState(rank) PROVE StackLeft(rank, r, s)
  <2>1. \A i \in DOMAIN q : AbortCall(q[i]) =>
          /\ q[i].x \in Live
          /\ \A j \in DOMAIN q : AbortCall(q[j]) /\ q[j].x = q[i].x => j = i
          /\ \A j \in DOMAIN q : j > i /\ q[j].f = "clear" =>
                rank[q[j].x] <= rank[segment[q[i].x].abortSet]
          /\ q[i].f = "abortTaskSoft" => segment[q[i].x].abortSet \in Complete
    BY <1>4 DEF StackState
  <2>2. ASSUME NEW i \in DOMAIN r, AbortCall(r[i])
        PROVE  /\ r[i].x \in Live /\ r[i].x # s
               /\ \A j \in DOMAIN r : AbortCall(r[j]) /\ r[j].x = r[i].x => j = i
               /\ \A j \in DOMAIN r : j > i /\ r[j].f = "clear" =>
                     rank[r[j].x] <= rank[segment[r[i].x].abortSet]
               /\ r[i].f = "abortTaskSoft" => segment[r[i].x].abortSet \in Complete
    <3>1. i + 1 \in DOMAIN q /\ q[i + 1] = r[i] /\ i + 1 # 1
      BY <1>1, <1>2
    <3>2. r[i].x # s
      BY <1>2, <1>3, <2>1, <2>2, <3>1
    <3>3. \A j \in DOMAIN r : AbortCall(r[j]) /\ r[j].x = r[i].x => j = i
      <4> SUFFICES ASSUME NEW j \in DOMAIN r, AbortCall(r[j]), r[j].x = r[i].x PROVE j = i
        OBVIOUS
      <4>1. j + 1 \in DOMAIN q /\ q[j + 1] = r[j]
        BY <1>1
      <4>2. j + 1 = i + 1
        BY <2>1, <2>2, <3>1, <4>1
      <4> QED BY <1>2, <4>2
    <3>4. \A j \in DOMAIN r : j > i /\ r[j].f = "clear" =>
                     rank[r[j].x] <= rank[segment[r[i].x].abortSet]
      <4> SUFFICES ASSUME NEW j \in DOMAIN r, j > i, r[j].f = "clear"
                   PROVE  rank[r[j].x] <= rank[segment[r[i].x].abortSet]
        OBVIOUS
      <4>1. j + 1 \in DOMAIN q /\ q[j + 1] = r[j] /\ j + 1 > i + 1
        BY <1>1, <1>2
      <4>2. AbortCall(q[i + 1]) /\ q[j + 1].f = "clear"
        BY <2>2, <3>1, <4>1
      <4>3. rank[q[j + 1].x] <= rank[segment[q[i + 1].x].abortSet]
        BY <2>1, <3>1, <4>1, <4>2
      <4> QED BY <3>1, <4>1, <4>3
    <3> QED BY <2>1, <2>2, <3>1, <3>2, <3>3, <3>4
  <2>3. \A j \in DOMAIN r : r[j].f = "clear" => rank[r[j].x] <= rank[segment[s].abortSet]
    <3> SUFFICES ASSUME NEW j \in DOMAIN r, r[j].f = "clear"
                 PROVE  rank[r[j].x] <= rank[segment[s].abortSet]
      OBVIOUS
    <3>1. j + 1 \in DOMAIN q /\ q[j + 1] = r[j] /\ j + 1 > 1
      BY <1>1, <1>2
    <3>2. rank[q[j + 1].x] <= rank[segment[q[1].x].abortSet]
      BY <1>2, <1>3, <2>1, <3>1
    <3> QED BY <1>3, <3>1, <3>2
  <2> QED BY <2>2, <2>3 DEF StackLeft
<1>5. PICK rank : StackState(rank)
  BY DEF Inv, Placed
<1>6. Arg \in Live /\ (Head(calls).f = "abortTaskSoft" => segment[Arg].abortSet \in Complete)
  BY <1>1, <1>2, <1>3, <1>5 DEF StackState
<1>7. SetsLeft(r, s, suspense)
  <2> SUFFICES ASSUME NEW a \in Boundaries \cup {Root}, NEW t \in suspense[a].fallbackAbortableTasks
      PROVE  /\ segment[t].task /\ segment[t].abortSet = a
             /\ \/ t \in Live /\ t # s /\ \A i \in DOMAIN r : AbortCall(r[i]) => r[i].x # t
                \/ \E i \in DOMAIN r : r[i] = Call("clear", a)
    BY DEF SetsLeft
  <2>1. /\ segment[t].task /\ segment[t].abortSet = a
        /\ \/ t \in Live /\ \A i \in DOMAIN q : AbortCall(q[i]) => q[i].x # t
           \/ \E i \in DOMAIN q : q[i] = Call("clear", a)
    BY DEF Inv, SetState
  <2>2. CASE t \in Live /\ \A i \in DOMAIN q : AbortCall(q[i]) => q[i].x # t
    <3>1. t # s
      BY <1>2, <1>3, <2>2
    <3>2. \A i \in DOMAIN r : AbortCall(r[i]) => r[i].x # t
      BY <1>1, <2>2
    <3> QED BY <2>1, <2>2, <3>1, <3>2
  <2>3. CASE \E i \in DOMAIN q : q[i] = Call("clear", a)
    <3>1. PICK i \in DOMAIN q : q[i] = Call("clear", a)
      BY <2>3
    <3>2. q[i].f = "clear"
      BY <3>1 DEF Call
    <3>3. i # 1
      BY <1>3, <3>2
    <3>4. i - 1 \in DOMAIN r /\ r[i - 1] = Call("clear", a)
      BY <1>1, <3>1, <3>3
    <3> QED BY <2>1, <3>4
  <2> QED BY <2>1, <2>2, <2>3
<1> QED BY <1>3, <1>4, <1>6, <1>7

LEMMA LeftShift ==
    ASSUME NEW q, NEW r, NEW d, SameMatters(q, r, d), NEW s, NEW sus
    PROVE  /\ \A rank : StackLeft(rank, q, s) => StackLeft(rank, r, s)
           /\ SetsLeft(q, s, sus) => SetsLeft(r, s, sus)
<1>1. /\ d \in Int /\ DOMAIN q \subseteq Int /\ DOMAIN r \subseteq Int
      /\ \A i \in DOMAIN r : Matters(r[i]) => i + d \in DOMAIN q /\ q[i + d] = r[i]
      /\ \A i \in DOMAIN q : Matters(q[i]) => i - d \in DOMAIN r /\ r[i - d] = q[i]
  BY DEF SameMatters
<1>2. \A c : (AbortCall(c) => Matters(c)) /\ (c.f = "clear" => Matters(c))
  BY DEF Matters
<1>3. ASSUME NEW rank, StackLeft(rank, q, s) PROVE StackLeft(rank, r, s)
  <2>1. /\ \A i \in DOMAIN q : AbortCall(q[i]) =>
          /\ q[i].x \in Live /\ q[i].x # s
          /\ \A j \in DOMAIN q : AbortCall(q[j]) /\ q[j].x = q[i].x => j = i
          /\ \A j \in DOMAIN q : j > i /\ q[j].f = "clear" =>
                rank[q[j].x] <= rank[segment[q[i].x].abortSet]
          /\ q[i].f = "abortTaskSoft" => segment[q[i].x].abortSet \in Complete
        /\ \A i \in DOMAIN q : q[i].f = "clear" => rank[q[i].x] <= rank[segment[s].abortSet]
    BY <1>3 DEF StackLeft
  <2>2. ASSUME NEW i \in DOMAIN r, AbortCall(r[i])
        PROVE  /\ r[i].x \in Live /\ r[i].x # s
               /\ \A j \in DOMAIN r : AbortCall(r[j]) /\ r[j].x = r[i].x => j = i
               /\ \A j \in DOMAIN r : j > i /\ r[j].f = "clear" =>
                     rank[r[j].x] <= rank[segment[r[i].x].abortSet]
               /\ r[i].f = "abortTaskSoft" => segment[r[i].x].abortSet \in Complete
    <3>1. i + d \in DOMAIN q /\ q[i + d] = r[i] /\ i \in Int
      BY <1>1, <1>2, <2>2
    <3>3. \A j \in DOMAIN r : AbortCall(r[j]) /\ r[j].x = r[i].x => j = i
      <4> SUFFICES ASSUME NEW j \in DOMAIN r, AbortCall(r[j]), r[j].x = r[i].x PROVE j = i
        OBVIOUS
      <4>1. j + d \in DOMAIN q /\ q[j + d] = r[j] /\ j \in Int
        BY <1>1, <1>2
      <4>2. j + d = i + d
        BY <2>1, <2>2, <3>1, <4>1
      <4>3. i \in Int /\ j \in Int /\ d \in Int
        BY <1>1, <3>1, <4>1
      <4>4. \A a, b, c \in Int : a + c = b + c => a = b
        OBVIOUS
      <4> QED BY <4>2, <4>3, <4>4
    <3>4. \A j \in DOMAIN r : j > i /\ r[j].f = "clear" =>
                     rank[r[j].x] <= rank[segment[r[i].x].abortSet]
      <4> SUFFICES ASSUME NEW j \in DOMAIN r, j > i, r[j].f = "clear"
                   PROVE  rank[r[j].x] <= rank[segment[r[i].x].abortSet]
        OBVIOUS
      <4>1. j + d \in DOMAIN q /\ q[j + d] = r[j] /\ j \in Int
        BY <1>1, <1>2
      <4>2. j + d > i + d
        BY <1>1, <3>1, <4>1
      <4>3. rank[q[j + d].x] <= rank[segment[q[i + d].x].abortSet]
        BY <2>1, <2>2, <3>1, <4>1, <4>2
      <4> QED BY <3>1, <4>1, <4>3
    <3> QED BY <2>1, <2>2, <3>1, <3>3, <3>4
  <2>3. \A j \in DOMAIN r : r[j].f = "clear" => rank[r[j].x] <= rank[segment[s].abortSet]
    BY <1>1, <1>2, <2>1
  <2> QED BY <2>2, <2>3 DEF StackLeft
<1>4. ASSUME SetsLeft(q, s, sus) PROVE SetsLeft(r, s, sus)
  <2> SUFFICES ASSUME NEW a \in Boundaries \cup {Root}, NEW t \in sus[a].fallbackAbortableTasks
      PROVE  /\ segment[t].task /\ segment[t].abortSet = a
             /\ \/ t \in Live /\ t # s /\ \A i \in DOMAIN r : AbortCall(r[i]) => r[i].x # t
                \/ \E i \in DOMAIN r : r[i] = Call("clear", a)
    BY DEF SetsLeft
  <2>1. /\ segment[t].task /\ segment[t].abortSet = a
        /\ \/ t \in Live /\ t # s /\ \A i \in DOMAIN q : AbortCall(q[i]) => q[i].x # t
           \/ \E i \in DOMAIN q : q[i] = Call("clear", a)
    BY <1>4 DEF SetsLeft
  <2>2. CASE t \in Live /\ t # s /\ \A i \in DOMAIN q : AbortCall(q[i]) => q[i].x # t
    <3>1. \A i \in DOMAIN r : AbortCall(r[i]) => r[i].x # t
      BY <1>1, <1>2, <2>2
    <3> QED BY <2>1, <2>2, <3>1
  <2>3. CASE \E i \in DOMAIN q : q[i] = Call("clear", a)
    <3>1. PICK i \in DOMAIN q : q[i] = Call("clear", a)
      BY <2>3
    <3>2. Matters(q[i])
      BY <3>1 DEF Call, Matters
    <3>3. i - d \in DOMAIN r /\ r[i - d] = Call("clear", a)
      BY <1>1, <3>1, <3>2
    <3> QED BY <2>1, <3>3
  <2> QED BY <2>1, <2>2, <2>3
<1> QED BY <1>3, <1>4

(* Nothing else is aborted.                                                *)
LEMMA EndStackKept ==
    ASSUME Inv, TypeOK', NEW s \in Live, NEW st, Ends(s, st),
           NEW sus, \A x \in Boundaries \cup {Root} :
              suspense'[x].fallbackAbortableTasks \subseteq sus[x].fallbackAbortableTasks,
           \A rank : StackState(rank) => StackLeft(rank, calls', s),
           SetsLeft(calls', s, sus)
    PROVE  /\ \A place \in Places : PlaceOf(place) /\ StackState(place.rank) => StackState(place.rank)'
           /\ SetState'
<1>1. /\ SameShape /\ Live' = Live \ {s} /\ Complete \subseteq Complete'
  BY EndTree, EndKeeps
<1>2. \A t \in Segments : segment'[t].task = segment[t].task /\ segment'[t].abortSet = segment[t].abortSet
  BY <1>1 DEF SameShape
<1>3. Live \subseteq Segments
  BY DEF Live
<1>4. ASSUME NEW rank, StackState(rank) PROVE StackState(rank)'
  <2>1. StackLeft(rank, calls', s)
    BY <1>4
  <2>2. \A i \in DOMAIN calls' : AbortCall(calls'[i]) => calls'[i].x \in Segments
    BY <1>3, <2>1 DEF StackLeft
  <2> QED BY <1>1, <1>2, <2>1, <2>2 DEF StackState, StackLeft
<1>5. SetState'
  <2>1. \A a \in Boundaries \cup {Root} : \A t \in suspense'[a].fallbackAbortableTasks :
           /\ t \in sus[a].fallbackAbortableTasks /\ t \in Segments
    <3>1. \A a \in Boundaries \cup {Root} : suspense'[a] \in BoundaryRecord
      BY RecordTypes
    <3> QED BY <3>1 DEF BoundaryRecord
  <2> QED BY <1>1, <1>2, <2>1 DEF SetState, SetsLeft
<1> QED BY <1>4, <1>5

(* A task is aborted from a set that ranks lower than what it is blocked   *)
(* on.                                                                     *)
LEMMA RankOfTask ==
    ASSUME Inv, NEW place \in Places, PlaceOf(place), NEW s \in Segments, segment[s].task,
           segment[s].blockedBoundary # Root
    PROVE  /\ place.rank[segment[s].abortSet] < place.rank[segment[s].blockedBoundary]
           /\ \A x \in Boundaries \cup {Root} : place.rank[x] \in Nat
<1>0. TypeOK
  BY DEF Inv
<1>1. s <= segments
  BY <1>0, TaskIsMade
<1>2. \A x \in Boundaries \cup {Root} : place.rank[x] \in Nat
  BY DEF Places, Ranks
<1>3. /\ Before(place.rank, place.home[s], place.reg[s])
      /\ place.reg[s] = segment[s].blockedBoundary
      /\ segment[s].boundary = NoBoundary => place.home[s] = segment[s].abortSet
  BY <1>1 DEF PlaceOf
<1>4. CASE segment[s].boundary = NoBoundary
  BY <1>2, <1>3, <1>4 DEF Before
<1>5. CASE segment[s].boundary # NoBoundary
  <2> DEFINE y == segment[s].boundary
  <2>1. y \in Boundaries /\ y <= boundaries
    <3>1. y \in Boundaries \cup {NoBoundary}
      BY <1>0, InvTypes
    <3> QED BY <1>5, <3>1 DEF Inv, SegmentTree
  <2>2. segment[s].abortSet = y /\ segment[s].blockedBoundary = suspense[y].outer
    BY <1>5 DEF Inv, SegmentTree
  <2> HIDE DEF y
  <2>3. Before(place.rank, y, suspense[y].outer)
    BY <2>1 DEF PlaceOf
  <2> QED BY <1>2, <2>2, <2>3 DEF Before
<1> QED BY <1>4, <1>5

(* The tasks of boundary b are aborted with it.                            *)
LEMMA EndStackPush ==
    ASSUME Inv, TypeOK', NEW s \in Live, NEW st, Ends(s, st),
           NEW b \in Boundaries, b = segment[s].blockedBoundary,
           NEW sus, \A x \in Boundaries \cup {Root} :
              suspense'[x].fallbackAbortableTasks \subseteq sus[x].fallbackAbortableTasks,
           sus[b].fallbackAbortableTasks \subseteq Segments,
           NEW q \in Seq(CallType),
           \A rank : StackState(rank) => StackLeft(rank, q, s), SetsLeft(q, s, sus),
           NEW f \in {"abortTask", "abortTaskSoft"},
           NEW order \in SetToSeqs(sus[b].fallbackAbortableTasks),
           calls' = AbortAll(f, order, b, q),
           f = "abortTaskSoft" => b \in Complete'
    PROVE  /\ calls' \in Seq(CallType) /\ Count(calls', TD) = Count(q, TD)
           /\ Quiet(q) => Quiet(calls)'
           /\ \A place \in Places : PlaceOf(place) /\ StackState(place.rank) => StackState(place.rank)'
           /\ SetState'
<1>0. TypeOK
  BY DEF Inv
<1> DEFINE set == sus[b].fallbackAbortableTasks
           n == Len(order)
<1>1. /\ SameShape /\ Live' = Live \ {s} /\ Complete \subseteq Complete'
      /\ segment[s].task /\ s \in Segments
  BY EndTree, EndKeeps
<1>2. \A t \in Segments : segment'[t].task = segment[t].task /\ segment'[t].abortSet = segment[t].abortSet
  BY <1>1 DEF SameShape
<1>3. IsFiniteSet(set)
  BY Sets
<1>4. /\ order \in Seq(Segments) /\ order \in Seq(set)
      /\ \A x \in set : \E i \in DOMAIN order : order[i] = x
      /\ \A i, j \in DOMAIN order : order[i] = order[j] => i = j
  BY <1>3, OrderOfSet
<1> HIDE DEF set
<1>5. /\ calls' \in Seq(CallType) /\ n \in Nat /\ Len(q) \in Nat
      /\ Len(calls') = n + 1 + Len(q)
      /\ Count(calls', TD) = Count(q, TD)
      /\ SetPushed(calls', f, order, b, q)
  BY <1>4, PushSet
<1>6. /\ \A i \in 1..n : calls'[i] = Call(f, order[i])
      /\ calls'[n + 1] = Call("clear", b)
      /\ \A i \in 1..Len(q) : calls'[n + 1 + i] = q[i]
  BY <1>5 DEF SetPushed
<1>7. /\ DOMAIN calls' = 1..(n + 1 + Len(q)) /\ DOMAIN q = 1..Len(q) /\ DOMAIN order = 1..n
  <2>1. DOMAIN order = 1..n
    BY <1>4, LenProperties
  <2>2. DOMAIN q = 1..Len(q)
    BY LenProperties
  <2>3. DOMAIN calls' = 1..Len(calls')
    BY <1>5, LenProperties
  <2> QED BY <1>5, <2>1, <2>2, <2>3
<1>8. \A i \in 1..n : order[i] \in set
  BY <1>4, <1>7, ElementOfSeq
<1>9. \A i \in DOMAIN calls' :
        \/ i \in 1..n
        \/ i = n + 1
        \/ i - (n + 1) \in DOMAIN q /\ calls'[i] = q[i - (n + 1)] /\ i > n + 1
  <2> SUFFICES ASSUME NEW i \in DOMAIN calls', i \notin 1..n, i # n + 1
               PROVE  i - (n + 1) \in DOMAIN q /\ calls'[i] = q[i - (n + 1)] /\ i > n + 1
    OBVIOUS
  <2>1. i \in Int /\ i >= 1 /\ i <= n + 1 + Len(q) /\ i > n + 1
    BY <1>5, <1>7
  <2>2. i - (n + 1) \in 1..Len(q) /\ n + 1 + (i - (n + 1)) = i
    BY <1>5, <2>1
  <2>3. calls'[n + 1 + (i - (n + 1))] = q[i - (n + 1)]
    BY <1>6, <2>2
  <2> QED BY <1>7, <2>1, <2>2, <2>3
<1>10. \A i \in 1..n : calls'[i].f = f /\ calls'[i].x = order[i]
  <2>1. \A i \in 1..n : calls'[i] = Call(f, order[i])
    BY <1>6
  <2>2. \A x : Call(f, x).f = f /\ Call(f, x).x = x
    BY CallTypes
  <2> HIDE DEF n
  <2> QED BY <2>1, <2>2
<1>11. calls'[n + 1].f = "clear" /\ calls'[n + 1].x = b /\ n + 1 \in DOMAIN calls'
  BY <1>5, <1>6, <1>7 DEF Call
<1>12. \A c : AbortCall(c) => c.f # "clear"
  BY DEF AbortCall
<1> HIDE DEF n
<1>13. Quiet(q) => Quiet(calls)'
  <2> SUFFICES ASSUME Quiet(q), NEW i \in DOMAIN calls'
               PROVE  calls'[i].f \notin FlushCalls \cup {"fatalError"}
    BY DEF Quiet
  <2>1. CASE i \in 1..n
    BY <1>10, <2>1 DEF FlushCalls
  <2>2. CASE i = n + 1
    BY <1>11, <2>2 DEF FlushCalls
  <2>3. CASE i - (n + 1) \in DOMAIN q /\ calls'[i] = q[i - (n + 1)]
    BY <2>3 DEF Quiet
  <2> QED BY <1>9, <2>1, <2>2, <2>3
<1>14. ASSUME NEW place \in Places, PlaceOf(place), StackState(place.rank)
       PROVE  /\ StackState(place.rank)'
              /\ \A t \in set : t \in Live /\ t # s /\ \A i \in DOMAIN q : AbortCall(q[i]) => q[i].x # t
  <2> DEFINE rank == place.rank
             low == rank[segment[s].abortSet]
             top == rank[b]
  <2>1. b # Root
    BY <1>0, InvTypes
  <2>2. low < top /\ \A x \in Boundaries \cup {Root} : rank[x] \in Nat
    BY <1>1, <1>14, <2>1, RankOfTask
  <2>3. low \in Nat /\ top \in Nat
    <3>1. segment[s].abortSet \in Boundaries \cup {Root}
      BY <1>0, <1>1, InvTypes
    <3> QED BY <2>2, <3>1
  <2>4. StackLeft(rank, q, s)
    BY <1>14
  <2>5. \A i \in DOMAIN q : q[i].f = "clear" => rank[q[i].x] <= low
    BY <2>4 DEF StackLeft
  <2>6. \A i \in DOMAIN q : AbortCall(q[i]) =>
          /\ q[i].x \in Live /\ q[i].x # s
          /\ \A j \in DOMAIN q : AbortCall(q[j]) /\ q[j].x = q[i].x => j = i
          /\ \A j \in DOMAIN q : j > i /\ q[j].f = "clear" =>
                rank[q[j].x] <= rank[segment[q[i].x].abortSet]
          /\ q[i].f = "abortTaskSoft" => segment[q[i].x].abortSet \in Complete
    BY <2>4 DEF StackLeft
  <2> HIDE DEF rank, low, top
  <2>7. \A i \in DOMAIN q : q[i].f = "clear" => rank[q[i].x] \in Nat
    <3>1. \A i \in DOMAIN q : q[i] \in CallType
      BY ElementOfSeq
    <3>2. \A i \in DOMAIN q : q[i].f = "clear" => q[i].x \in Boundaries \cup {Root}
      BY <3>1, CallTypes
    <3> QED BY <2>2, <3>2
  <2>8. \A i \in DOMAIN q : q[i] # Call("clear", b)
    <3> SUFFICES ASSUME NEW i \in DOMAIN q, q[i] = Call("clear", b) PROVE FALSE
      OBVIOUS
    <3>1. q[i].f = "clear" /\ q[i].x = b
      BY DEF Call
    <3>2. top <= low
      BY <2>5, <3>1 DEF top
    <3> QED BY <2>2, <2>3, <3>2
  <2>9. \A t \in set : /\ segment[t].abortSet = b /\ t \in Segments
                       /\ t \in Live /\ t # s /\ \A i \in DOMAIN q : AbortCall(q[i]) => q[i].x # t
    BY <2>8 DEF SetsLeft, set
  <2> DEFINE p == calls'
  <2>10. ASSUME NEW i \in 1..n
         PROVE  /\ p[i].x \in Live' /\ p[i].x \in Segments
                /\ \A j \in DOMAIN p : AbortCall(p[j]) /\ p[j].x = p[i].x => j = i
                /\ \A j \in DOMAIN p : j > i /\ p[j].f = "clear" =>
                      rank[p[j].x] <= rank[segment[p[i].x].abortSet]
                /\ p[i].f = "abortTaskSoft" => segment[p[i].x].abortSet \in Complete'
    <3>1. p[i].x = order[i] /\ order[i] \in set
      BY <1>8, <1>10
    <3>2. \A j \in DOMAIN p : AbortCall(p[j]) /\ p[j].x = p[i].x => j = i
      <4> SUFFICES ASSUME NEW j \in DOMAIN p, AbortCall(p[j]), p[j].x = p[i].x PROVE j = i
        OBVIOUS
      <4>1. CASE j \in 1..n
        BY <1>4, <1>7, <1>10, <3>1, <4>1
      <4>2. CASE j = n + 1
        BY <1>11, <1>12, <4>2
      <4>3. CASE j - (n + 1) \in DOMAIN q /\ p[j] = q[j - (n + 1)]
        BY <2>9, <3>1, <4>3
      <4> QED BY <1>9, <4>1, <4>2, <4>3
    <3>3. \A j \in DOMAIN p : j > i /\ p[j].f = "clear" =>
                      rank[p[j].x] <= rank[segment[p[i].x].abortSet]
      <4> SUFFICES ASSUME NEW j \in DOMAIN p, p[j].f = "clear" PROVE rank[p[j].x] <= top
        BY <2>9, <3>1 DEF top
      <4>1. CASE j \in 1..n
        BY <1>10, <4>1
      <4>2. CASE j = n + 1
        BY <1>11, <2>3, <4>2 DEF top
      <4>3. CASE j - (n + 1) \in DOMAIN q /\ p[j] = q[j - (n + 1)]
        BY <2>2, <2>3, <2>5, <2>7, <4>3
      <4> QED BY <1>9, <4>1, <4>2, <4>3
    <3>4. p[i].f = "abortTaskSoft" => segment[p[i].x].abortSet \in Complete'
      BY <1>10, <2>9, <3>1
    <3> QED BY <1>1, <2>9, <3>1, <3>2, <3>3, <3>4
  <2>11. ASSUME NEW i \in DOMAIN p, i > n + 1, i - (n + 1) \in DOMAIN q, p[i] = q[i - (n + 1)], AbortCall(p[i])
         PROVE  /\ p[i].x \in Live' /\ p[i].x \in Segments
                /\ \A j \in DOMAIN p : AbortCall(p[j]) /\ p[j].x = p[i].x => j = i
                /\ \A j \in DOMAIN p : j > i /\ p[j].f = "clear" =>
                      rank[p[j].x] <= rank[segment[p[i].x].abortSet]
                /\ p[i].f = "abortTaskSoft" => segment[p[i].x].abortSet \in Complete'
    <3> DEFINE k == i - (n + 1)
    <3>1. k \in DOMAIN q /\ p[i] = q[k] /\ AbortCall(q[k]) /\ i = k + (n + 1) /\ k \in Int /\ n \in Int /\ i \in Int
      BY <1>5, <1>7, <2>11 DEF n
    <3> HIDE DEF k
    <3>2. \A j \in DOMAIN p : AbortCall(p[j]) /\ p[j].x = p[i].x => j = i
      <4> SUFFICES ASSUME NEW j \in DOMAIN p, AbortCall(p[j]), p[j].x = p[i].x PROVE j = i
        OBVIOUS
      <4>1. CASE j \in 1..n
        <5>1. p[j].x \in set
          BY <1>8, <1>10, <4>1
        <5> QED BY <2>9, <3>1, <5>1
      <4>2. CASE j = n + 1
        BY <1>11, <1>12, <4>2
      <4>3. CASE j - (n + 1) \in DOMAIN q /\ p[j] = q[j - (n + 1)]
        <5>1. j - (n + 1) = k
          BY <2>6, <3>1, <4>3
        <5>2. j \in Int
          BY <1>7
        <5> QED BY <3>1, <5>1, <5>2
      <4> QED BY <1>9, <4>1, <4>2, <4>3
    <3>3. \A j \in DOMAIN p : j > i /\ p[j].f = "clear" =>
                      rank[p[j].x] <= rank[segment[p[i].x].abortSet]
      <4> SUFFICES ASSUME NEW j \in DOMAIN p, j > i, p[j].f = "clear"
                   PROVE  rank[p[j].x] <= rank[segment[p[i].x].abortSet]
        OBVIOUS
      <4>1. j \in Int /\ j > n + 1
        BY <1>7, <2>11, <3>1
      <4>2. j \notin 1..n /\ j # n + 1
        BY <3>1, <4>1
      <4>3. j - (n + 1) \in DOMAIN q /\ p[j] = q[j - (n + 1)]
        BY <1>9, <4>2
      <4>4. j - (n + 1) > k
        BY <3>1, <4>1
      <4> QED BY <2>6, <3>1, <4>3, <4>4
    <3> QED BY <1>1, <2>6, <3>1, <3>2, <3>3 DEF Live
  <2>12. ASSUME NEW i \in DOMAIN p, AbortCall(p[i])
         PROVE  /\ p[i].x \in Live' /\ p[i].x \in Segments
                /\ \A j \in DOMAIN p : AbortCall(p[j]) /\ p[j].x = p[i].x => j = i
                /\ \A j \in DOMAIN p : j > i /\ p[j].f = "clear" =>
                      rank[p[j].x] <= rank[segment[p[i].x].abortSet]
                /\ p[i].f = "abortTaskSoft" => segment[p[i].x].abortSet \in Complete'
    <3>1. i # n + 1
      BY <1>11, <1>12, <2>12
    <3>2. CASE i \in 1..n
      BY <2>10, <3>2
    <3>3. CASE i - (n + 1) \in DOMAIN q /\ p[i] = q[i - (n + 1)] /\ i > n + 1
      BY <2>11, <2>12, <3>3
    <3> QED BY <1>9, <3>1, <3>2, <3>3
  <2>13. StackState(rank)'
    BY <1>2, <2>12 DEF StackState
  <2> QED BY <2>9, <2>13 DEF rank
<1>15. SetState'
  <2>1. PICK place \in Places : PlaceOf(place) /\ StackState(place.rank)
    BY DEF Inv, Placed
  <2>2. \A t \in set : t \in Live /\ t # s
    BY <1>14, <2>1
  <2>3. \A a \in Boundaries \cup {Root} : \A t \in suspense'[a].fallbackAbortableTasks :
           /\ t \in sus[a].fallbackAbortableTasks /\ t \in Segments
    <3>1. \A a \in Boundaries \cup {Root} : suspense'[a] \in BoundaryRecord
      BY RecordTypes
    <3> QED BY <3>1 DEF BoundaryRecord
  <2> SUFFICES ASSUME NEW a \in Boundaries \cup {Root}, NEW t \in suspense'[a].fallbackAbortableTasks
      PROVE  /\ segment'[t].task /\ segment'[t].abortSet = a
             /\ \/ t \in Live' /\ \A i \in DOMAIN calls' : AbortCall(calls'[i]) => calls'[i].x # t
                \/ \E i \in DOMAIN calls' : calls'[i] = Call("clear", a)
    BY DEF SetState
  <2>4. t \in sus[a].fallbackAbortableTasks /\ t \in Segments
    BY <2>3
  <2>5. /\ segment[t].task /\ segment[t].abortSet = a
        /\ \/ t \in Live /\ t # s /\ \A i \in DOMAIN q : AbortCall(q[i]) => q[i].x # t
           \/ \E i \in DOMAIN q : q[i] = Call("clear", a)
    BY <2>4 DEF SetsLeft
  <2>6. segment'[t].task /\ segment'[t].abortSet = a
    BY <1>2, <2>4, <2>5
  <2>7. CASE a = b
    BY <1>6, <1>11, <2>6, <2>7
  <2>8. CASE \E i \in DOMAIN q : q[i] = Call("clear", a)
    <3>1. PICK i \in DOMAIN q : q[i] = Call("clear", a)
      BY <2>8
    <3>2. i \in 1..Len(q) /\ calls'[n + 1 + i] = q[i]
      BY <1>6, <1>7 DEF n
    <3>3. n + 1 + i \in DOMAIN calls'
      BY <1>5, <1>7, <3>2 DEF n
    <3> QED BY <2>6, <3>1, <3>2, <3>3
  <2>9. CASE a # b /\ t \in Live /\ t # s /\ \A i \in DOMAIN q : AbortCall(q[i]) => q[i].x # t
    <3>1. t \in Live'
      BY <1>1, <2>9
    <3>2. \A u \in set : segment[u].abortSet = b
      BY DEF SetsLeft, set
    <3>3. \A i \in DOMAIN calls' : AbortCall(calls'[i]) => calls'[i].x # t
      <4> SUFFICES ASSUME NEW i \in DOMAIN calls', AbortCall(calls'[i]) PROVE calls'[i].x # t
        OBVIOUS
      <4>1. CASE i \in 1..n
        <5>1. calls'[i].x \in set
          BY <1>8, <1>10, <4>1
        <5> QED BY <2>5, <2>9, <3>2, <5>1
      <4>2. CASE i = n + 1
        BY <1>11, <1>12, <4>2
      <4>3. CASE i - (n + 1) \in DOMAIN q /\ calls'[i] = q[i - (n + 1)]
        BY <2>9, <4>3
      <4> QED BY <1>9, <4>1, <4>2, <4>3
    <3> QED BY <2>6, <3>1, <3>3
  <2> QED BY <2>5, <2>7, <2>8, <2>9
<1> QED BY <1>5, <1>13, <1>14, <1>15

(* The boundaries after task s was taken from the set it is in.            *)
BoundaryIds == Boundaries \cup {Root}

TakenFrom(sus, s) ==
    /\ sus \in [BoundaryIds -> BoundaryRecord]
    /\ \A x \in BoundaryIds :
          /\ sus[x].pendingTasks = suspense[x].pendingTasks
          /\ sus[x].forceClientRender = suspense[x].forceClientRender
          /\ sus[x].parentFlushed = suspense[x].parentFlushed
          /\ sus[x].completedSegments = suspense[x].completedSegments
          /\ sus[x].outer = suspense[x].outer
          /\ sus[x].fallback = suspense[x].fallback
          /\ sus[x].content = suspense[x].content
          /\ x # segment[s].abortSet => sus[x] = suspense[x]

LEMMA WithoutRunning ==
    ASSUME Inv, running # NoTask
    PROVE  /\ running \in Live /\ TakenFrom(WithoutTask(running), running)
           /\ \A rank : StackLeft(rank, << >>, running)
           /\ SetsLeft(<< >>, running, WithoutTask(running))
<1>0. TypeOK
  BY DEF Inv
<1> DEFINE s == running
           a == segment[s].abortSet
           sus == WithoutTask(s)
<1>1. s \in Live /\ calls = << >> /\ s \in Segments
  BY DEF Inv, RunState, Live
<1>2. a \in BoundaryIds
  BY <1>0, <1>1, InvTypes DEF BoundaryIds
<1>3. suspense \in [BoundaryIds -> BoundaryRecord]
  BY <1>0, ControlTypes DEF BoundaryIds
<1>4. sus = [suspense EXCEPT ![a].fallbackAbortableTasks = @ \ {s}]
  BY DEF WithoutTask
<1>5. /\ \A x \in BoundaryIds : x # a => sus[x] = suspense[x]
      /\ sus[a] = [suspense[a] EXCEPT !.fallbackAbortableTasks = @ \ {s}]
      /\ DOMAIN sus = BoundaryIds
      /\ sus = [x \in BoundaryIds |-> sus[x]]
  BY <1>2, <1>3, <1>4
<1> HIDE DEF sus, a
<1>6. suspense[a] \in BoundaryRecord
  BY <1>2, <1>3
<1>7. /\ sus[a] \in BoundaryRecord
      /\ sus[a].pendingTasks = suspense[a].pendingTasks
      /\ sus[a].forceClientRender = suspense[a].forceClientRender
      /\ sus[a].parentFlushed = suspense[a].parentFlushed
      /\ sus[a].completedSegments = suspense[a].completedSegments
      /\ sus[a].outer = suspense[a].outer
      /\ sus[a].fallback = suspense[a].fallback
      /\ sus[a].content = suspense[a].content
      /\ sus[a].fallbackAbortableTasks = suspense[a].fallbackAbortableTasks \ {s}
  BY <1>5, <1>6 DEF BoundaryRecord
<1>8. sus \in [BoundaryIds -> BoundaryRecord]
  BY <1>3, <1>5, <1>7
<1>9. TakenFrom(sus, s)
  <2>1. \A x \in BoundaryIds :
          /\ sus[x].pendingTasks = suspense[x].pendingTasks
          /\ sus[x].forceClientRender = suspense[x].forceClientRender
          /\ sus[x].parentFlushed = suspense[x].parentFlushed
          /\ sus[x].completedSegments = suspense[x].completedSegments
          /\ sus[x].outer = suspense[x].outer
          /\ sus[x].fallback = suspense[x].fallback
          /\ sus[x].content = suspense[x].content
          /\ x # segment[s].abortSet => sus[x] = suspense[x]
    BY <1>5, <1>7 DEF a
  <2> QED BY <1>8, <2>1 DEF TakenFrom
<1>10. DOMAIN << >> = {}
  BY EmptyCalls
<1>11. \A rank : StackLeft(rank, << >>, s)
  BY <1>10 DEF StackLeft
<1>12. SetsLeft(<< >>, s, sus)
  <2> SUFFICES ASSUME NEW c \in BoundaryIds, NEW t \in sus[c].fallbackAbortableTasks
      PROVE  segment[t].task /\ segment[t].abortSet = c /\ t \in Live /\ t # s
    BY <1>10 DEF SetsLeft, BoundaryIds
  <2>1. t \in suspense[c].fallbackAbortableTasks /\ (c = a => t # s)
    BY <1>5, <1>7
  <2>2. segment[t].task /\ segment[t].abortSet = c /\ t \in Live
    BY <1>1, <1>10, <2>1 DEF Inv, SetState, BoundaryIds
  <2>3. t # s
    BY <2>1, <2>2 DEF a
  <2> QED BY <2>2, <2>3
<1> QED BY <1>1, <1>9, <1>11, <1>12 DEF sus

Updated(sus, b, n, q) == [sus EXCEPT ![b].pendingTasks = n, ![b].completedSegments = q]

LEMMA UpdateBoundary ==
    ASSUME NEW sus \in [BoundaryIds -> BoundaryRecord], NEW b \in BoundaryIds,
           NEW n \in Nat, NEW q \in Seq(Segments), NEW p, p = Updated(sus, b, n, q)
    PROVE  /\ p \in [BoundaryIds -> BoundaryRecord]
           /\ \A x \in BoundaryIds : x # b => p[x] = sus[x]
           /\ p[b].pendingTasks = n /\ p[b].completedSegments = q
           /\ p[b].forceClientRender = sus[b].forceClientRender
           /\ p[b].parentFlushed = sus[b].parentFlushed
           /\ p[b].outer = sus[b].outer /\ p[b].fallback = sus[b].fallback
           /\ p[b].content = sus[b].content
           /\ p[b].fallbackAbortableTasks = sus[b].fallbackAbortableTasks
<1>1. /\ \A x \in BoundaryIds : x # b => p[x] = sus[x]
      /\ p[b] = [sus[b] EXCEPT !.pendingTasks = n, !.completedSegments = q]
      /\ p = [x \in BoundaryIds |-> p[x]]
  BY DEF Updated
<1>2. /\ p[b] \in BoundaryRecord
      /\ p[b].pendingTasks = n /\ p[b].completedSegments = q
      /\ p[b].forceClientRender = sus[b].forceClientRender
      /\ p[b].parentFlushed = sus[b].parentFlushed
      /\ p[b].outer = sus[b].outer /\ p[b].fallback = sus[b].fallback
      /\ p[b].content = sus[b].content
      /\ p[b].fallbackAbortableTasks = sus[b].fallbackAbortableTasks
  <2>1. sus[b] \in BoundaryRecord
    OBVIOUS
  <2> QED BY <1>1, <2>1 DEF BoundaryRecord
<1>3. p \in [BoundaryIds -> BoundaryRecord]
  BY <1>1, <1>2
<1> QED BY <1>1, <1>2, <1>3

Forced(sus, b) == [sus EXCEPT ![b].pendingTasks = @ - 1, ![b].forceClientRender = TRUE]

ForcedTo(p, sus, b, n) ==
    /\ \A x \in BoundaryIds : x # b => p[x] = sus[x]
    /\ p[b].pendingTasks = n /\ p[b].forceClientRender
    /\ p[b].completedSegments = sus[b].completedSegments
    /\ p[b].parentFlushed = sus[b].parentFlushed
    /\ p[b].outer = sus[b].outer /\ p[b].fallback = sus[b].fallback
    /\ p[b].content = sus[b].content
    /\ p[b].fallbackAbortableTasks = sus[b].fallbackAbortableTasks

LEMMA UpdateForce ==
    ASSUME NEW sus \in [BoundaryIds -> BoundaryRecord], NEW b \in BoundaryIds,
           NEW n \in Nat, n = sus[b].pendingTasks - 1, NEW p, p = Forced(sus, b)
    PROVE  p \in [BoundaryIds -> BoundaryRecord] /\ ForcedTo(p, sus, b, n)
<1>1. /\ \A x \in BoundaryIds : x # b => p[x] = sus[x]
      /\ p[b] = [sus[b] EXCEPT !.pendingTasks = n, !.forceClientRender = TRUE]
      /\ p = [x \in BoundaryIds |-> p[x]]
  BY DEF Forced
<1>3. /\ p[b] \in BoundaryRecord
      /\ p[b].pendingTasks = n /\ p[b].forceClientRender
      /\ p[b].completedSegments = sus[b].completedSegments
      /\ p[b].parentFlushed = sus[b].parentFlushed
      /\ p[b].outer = sus[b].outer /\ p[b].fallback = sus[b].fallback
      /\ p[b].content = sus[b].content
      /\ p[b].fallbackAbortableTasks = sus[b].fallbackAbortableTasks
  <2>1. sus[b] \in BoundaryRecord
    OBVIOUS
  <2> QED BY <1>1, <2>1 DEF BoundaryRecord
<1>4. p \in [BoundaryIds -> BoundaryRecord]
  BY <1>1, <1>3
<1> QED BY <1>1, <1>3, <1>4 DEF ForcedTo

(* The frame of the end of a task.                                         *)
DecidesOnly(b, sus) ==
    /\ \A x \in BoundaryIds : x # b => suspense'[x] = sus[x]
    /\ \/ suspense'[b].forceClientRender = TRUE
       \/ suspense'[b].forceClientRender = sus[b].forceClientRender
    /\ suspense'[b].parentFlushed = sus[b].parentFlushed
    /\ suspense'[b].outer = sus[b].outer /\ suspense'[b].fallback = sus[b].fallback
    /\ suspense'[b].content = sus[b].content

LEMMA EndsOf ==
    ASSUME Inv, NEW s \in Live, NEW st \in {"COMPLETED", "ABORTED", "ERRORED"},
           NEW sus, TakenFrom(sus, s), NEW b, b = segment[s].blockedBoundary,
           segment' = [segment EXCEPT ![s].status = st],
           UNCHANGED <<segments, boundaries, client, wrappers, pingedTasks>>,
           opened = << >>, opened' = << >>, running' = NoTask,
           DecidesOnly(b, sus),
           requestStatus' = "OPEN" => requestStatus = "OPEN"
    PROVE  Ends(s, st)
<1>0. TypeOK
  BY DEF Inv
<1>1. b \in BoundaryIds
  BY <1>0, InvTypes DEF Live, BoundaryIds
<1>2. ASSUME NEW x \in BoundaryIds
      PROVE
          /\ suspense'[x].outer = suspense[x].outer
          /\ suspense'[x].fallback = suspense[x].fallback
          /\ suspense'[x].content = suspense[x].content
          /\ suspense'[x].parentFlushed = suspense[x].parentFlushed
          /\ suspense[x].forceClientRender => suspense'[x].forceClientRender
          /\ x \notin {segment[s].blockedBoundary, segment[s].abortSet} => suspense'[x] = suspense[x]
          /\ x # segment[s].blockedBoundary =>
                /\ suspense'[x].pendingTasks = suspense[x].pendingTasks
                /\ suspense'[x].forceClientRender = suspense[x].forceClientRender
                /\ suspense'[x].completedSegments = suspense[x].completedSegments
  BY <1>1 DEF TakenFrom, DecidesOnly
<1>3. \A x \in Boundaries \cup {Root} :
          /\ suspense'[x].outer = suspense[x].outer
          /\ suspense'[x].fallback = suspense[x].fallback
          /\ suspense'[x].content = suspense[x].content
          /\ suspense'[x].parentFlushed = suspense[x].parentFlushed
          /\ suspense[x].forceClientRender => suspense'[x].forceClientRender
          /\ x \notin {segment[s].blockedBoundary, segment[s].abortSet} => suspense'[x] = suspense[x]
          /\ x # segment[s].blockedBoundary =>
                /\ suspense'[x].pendingTasks = suspense[x].pendingTasks
                /\ suspense'[x].forceClientRender = suspense[x].forceClientRender
                /\ suspense'[x].completedSegments = suspense[x].completedSegments
  BY <1>2 DEF BoundaryIds
<1> QED BY <1>3 DEF Ends

LEMMA EndSegment ==
    ASSUME TypeOK, NEW s \in Segments, NEW st \in {"COMPLETED", "ABORTED", "ERRORED"},
           segment' = [segment EXCEPT ![s].status = st]
    PROVE  segment' \in [Segments -> SegmentRecord]
<1>1. segment \in [Segments -> SegmentRecord] /\ segment[s] \in SegmentRecord
  BY ControlTypes
<1>2. [segment[s] EXCEPT !.status = st] \in SegmentRecord
  BY <1>1 DEF SegmentRecord
<1> QED BY <1>1, <1>2

(* How many tasks the boundary still waits for.                            *)
LEMMA EndPending ==
    ASSUME Inv, NEW s \in Live, NEW b, b = segment[s].blockedBoundary
    PROVE  /\ b \in BoundaryIds /\ suspense[b].pendingTasks \in Nat
           /\ suspense[b].pendingTasks - 1 \in Nat
           /\ ended # "closed" /\ Cardinality(Live) \in Nat
           /\ b = Root => segment[RootSegment].status # "FLUSHED"
<1>0. TypeOK
  BY DEF Inv
<1>1. s \in Segments /\ b \in BoundaryIds
  BY <1>0, InvTypes DEF Live, BoundaryIds
<1>2. s \in BlockedBy(b)
  BY <1>1 DEF BlockedBy
<1>3. Cardinality(BlockedBy(b)) \in Nat /\ Cardinality(BlockedBy(b)) # 0
  <2>1. IsFiniteSet(BlockedBy(b)) /\ Cardinality(BlockedBy(b)) \in Nat
    BY Sets
  <2> QED BY <1>2, <2>1, FS_EmptySet
<1>4. suspense[b].pendingTasks \in Nat
  BY <1>0, <1>1, InvTypes DEF BoundaryIds
<1>5. suspense[b].pendingTasks >= Cardinality(BlockedBy(b))
  <2>1. CASE b = Root
    BY <2>1 DEF Inv, CountState
  <2>2. CASE b \in Boundaries
    BY <1>3, <1>4, <2>2 DEF Inv, CountState
  <2> QED BY <1>1, <2>1, <2>2 DEF BoundaryIds
<1>6. suspense[b].pendingTasks - 1 \in Nat
  BY <1>3, <1>4, <1>5
<1>7. ended # "closed"
  BY ClosedState
<1>8. b = Root => segment[RootSegment].status # "FLUSHED"
  BY <1>3, <1>4, <1>5 DEF Inv, RootState
<1> QED BY <1>1, <1>4, <1>6, <1>7, <1>8, Sets

(* What the stack and the output are like when task s ends.                *)
EndsWith(s, sus, rest) ==
    /\ s \in Live /\ TakenFrom(sus, s) /\ rest \in Seq(CallType) /\ Quiet(rest)
    /\ allPendingTasks = Cardinality(Live) + Count(rest, TD)
    /\ \A rank : StackState(rank) => StackLeft(rank, rest, s)
    /\ SetsLeft(rest, s, sus)
    /\ opened = << >> /\ opened' = << >> /\ running' = NoTask
    /\ UNCHANGED <<segments, boundaries, client, wrappers, pingedTasks, next, started, retries, scheduled>>

LEMMA RunningEndsWith ==
    ASSUME Inv, Rendering, opened = << >>, running' = NoTask,
           UNCHANGED <<segments, boundaries, client, wrappers, pingedTasks, next, opened, started, retries,
                       scheduled>>
    PROVE  EndsWith(running, WithoutTask(running), << >>)
<1>1. calls = << >> /\ running # NoTask
  BY DEF Rendering
<1>2. << >> \in Seq(CallType) /\ Count(<< >>, TD) = 0 /\ DOMAIN << >> = {}
  BY EmptyCalls
<1>3. allPendingTasks = Cardinality(Live) + Count(<< >>, TD)
  BY <1>1 DEF Inv, CountState, TD
<1>4. Quiet(<< >>)
  BY <1>2 DEF Quiet
<1> QED BY <1>1, <1>2, <1>3, <1>4, WithoutRunning DEF EndsWith

LEMMA AbortEndsWith ==
    ASSUME Inv, calls # << >>, AbortCall(Head(calls)),
           UNCHANGED <<segments, boundaries, client, wrappers, pingedTasks, next, renderVars, scheduled>>
    PROVE  EndsWith(Arg, suspense, Rest)
<1>0. TypeOK
  BY DEF Inv
<1>1. /\ \A rank : StackState(rank) => StackLeft(rank, Rest, Arg)
      /\ SetsLeft(Rest, Arg, suspense) /\ Arg \in Live
  BY LeftOfAbort
<1>2. Rest \in Seq(CallType) /\ Count(calls, TD) = Count(Rest, TD) + IF Head(calls) = TD THEN 1 ELSE 0
  BY Pop
<1>3. Head(calls) # TD
  BY DEF AbortCall, TD, Call
<1>4. Head(calls).f \notin FlushCalls \cup {"fatalError"}
  BY DEF AbortCall, FlushCalls
<1>5. Quiet(Rest)
  BY <1>4, QuietRest DEF Rest
<1>6. allPendingTasks = Cardinality(Live) + Count(Rest, TD)
  <2>1. Count(calls, TD) = Count(Rest, TD)
    <3>1. Count(Rest, TD) \in Nat
      BY Pop
    <3> QED BY <1>2, <1>3, <3>1
  <2> QED BY <2>1 DEF Inv, CountState, TD
<1>7. opened = << >> /\ running = NoTask
  BY WithCalls
<1>8. TakenFrom(suspense, Arg)
  BY <1>0, ControlTypes DEF TakenFrom, BoundaryIds
<1> QED BY <1>1, <1>2, <1>5, <1>6, <1>7, <1>8 DEF EndsWith, renderVars

(* taskDone is left to do.                                                 *)
LEMMA TaskDoneLeft ==
    ASSUME NEW rest \in Seq(CallType), Quiet(rest)
    PROVE  /\ TaskDone \o rest \in Seq(CallType) /\ Quiet(TaskDone \o rest)
           /\ Count(TaskDone \o rest, TD) = Count(rest, TD) + 1 /\ Count(rest, TD) \in Nat
           /\ SameMatters(rest, TaskDone \o rest, -1)
<1>1. TaskDone = << TD >>
  BY DEF TaskDone, TD
<1>2. TD \in CallType /\ ~Matters(TD) /\ TD.f = "taskDone"
  BY CallTypes DEF Matters, AbortCall, TD, Call
<1> DEFINE q == << TD >> \o rest
<1>3. /\ q \in Seq(CallType) /\ q[1] = TD
      /\ \A i \in DOMAIN q : i = 1 \/ (i - 1 \in DOMAIN rest /\ q[i] = rest[i - 1])
      /\ Count(q, TD) = Count(rest, TD) + IF TD = TD THEN 1 ELSE 0
      /\ Count(rest, TD) \in Nat
  BY <1>2, PushCall
<1>4. SameMatters(rest, q, -1)
  BY <1>2, MattersPush
<1> HIDE DEF q
<1>5. Quiet(q)
  BY <1>2, <1>3 DEF Quiet, FlushCalls
<1>6. Count(q, TD) = Count(rest, TD) + 1
  BY <1>3
<1> QED BY <1>1, <1>3, <1>4, <1>5, <1>6 DEF q

LEMMA FinishedRootTaskStep ==
    ASSUME Inv, NEW s, NEW st \in {"COMPLETED", "ABORTED"}, NEW sus, NEW rest,
           EndsWith(s, sus, rest), segment[s].blockedBoundary = Root,
           st = "ABORTED" => segment[s].abortSet \in Complete,
           segment' = [segment EXCEPT ![s].status = st],
           FinishedRootTask(s, sus, rest),
           UNCHANGED <<allPendingTasks, clientRenderedBoundaries, aborted>>
    PROVE  Inv'
<1>0. TypeOK
  BY DEF Inv
<1>1. /\ s \in Live /\ TakenFrom(sus, s) /\ rest \in Seq(CallType) /\ Quiet(rest)
      /\ allPendingTasks = Cardinality(Live) + Count(rest, TD)
      /\ \A rank : StackState(rank) => StackLeft(rank, rest, s)
      /\ SetsLeft(rest, s, sus)
      /\ opened = << >> /\ opened' = << >> /\ running' = NoTask
      /\ UNCHANGED <<segments, boundaries, client, wrappers, pingedTasks, next, started, retries, scheduled>>
  BY DEF EndsWith
<1> DEFINE left == sus[Root].pendingTasks - 1
           ready == IF segment[s].parentFlushed THEN <<s>> ELSE sus[Root].completedSegments
           called == left = 0
           q == TaskDone \o rest
<1>2. /\ suspense' = [sus EXCEPT ![Root].pendingTasks = left, ![Root].completedSegments = ready]
      /\ thrown' = (thrown \/ (segment[s].parentFlushed /\ sus[Root].completedSegments # << >>))
      /\ Callback(called, q)
      /\ UNCHANGED <<completedBoundaries, partialBoundaries>>
  BY DEF FinishedRootTask
<1>3. /\ Root \in BoundaryIds /\ suspense[Root].pendingTasks \in Nat
      /\ suspense[Root].pendingTasks - 1 \in Nat
      /\ ended # "closed" /\ Cardinality(Live) \in Nat
      /\ segment[RootSegment].status # "FLUSHED"
  BY <1>1, EndPending
<1>4. /\ s \in Segments /\ RootSegment \in Segments /\ segment[s].task
      /\ segment[s].parentFlushed \in BOOLEAN
  BY <1>0, <1>1, InvTypes DEF Live
<1>5. segment[s].parentFlushed <=> s = RootSegment
  BY <1>3, <1>4 DEF Inv, RootState
<1>6. s = RootSegment => st = "COMPLETED"
  <2> SUFFICES ASSUME s = RootSegment, st = "ABORTED" PROVE FALSE
    OBVIOUS
  <2>1. segment[s].abortSet = Root
    BY DEF Inv, SegmentTree
  <2>2. Root \in Boundaries
    BY <2>1 DEF Complete
  <2> QED BY <1>0, <2>2, InvTypes
<1>7. /\ sus \in [BoundaryIds -> BoundaryRecord]
      /\ sus[Root].pendingTasks = suspense[Root].pendingTasks
      /\ sus[Root].completedSegments = suspense[Root].completedSegments
      /\ sus[Root].forceClientRender = suspense[Root].forceClientRender
  BY <1>1, <1>3 DEF TakenFrom
<1>8. left \in Nat
  BY <1>3, <1>7
<1>9. ready \in Seq(Segments) /\ sus[Root].completedSegments \in Seq(Segments)
  <2>1. sus[Root] \in BoundaryRecord
    BY <1>3, <1>7
  <2>2. sus[Root].completedSegments \in Seq(Segments)
    BY <2>1 DEF BoundaryRecord
  <2> QED BY <1>4, <2>2
<1> HIDE DEF left, ready, called, q
<1>10. /\ suspense' \in [BoundaryIds -> BoundaryRecord]
       /\ \A x \in BoundaryIds : x # Root => suspense'[x] = sus[x]
       /\ suspense'[Root].pendingTasks = left /\ suspense'[Root].completedSegments = ready
       /\ suspense'[Root].forceClientRender = sus[Root].forceClientRender
       /\ suspense'[Root].parentFlushed = sus[Root].parentFlushed
       /\ suspense'[Root].outer = sus[Root].outer /\ suspense'[Root].fallback = sus[Root].fallback
       /\ suspense'[Root].content = sus[Root].content
       /\ suspense'[Root].fallbackAbortableTasks = sus[Root].fallbackAbortableTasks
  <2>1. suspense' = Updated(sus, Root, left, ready)
    BY <1>2 DEF Updated
  <2>2. Root \in BoundaryIds /\ sus \in [BoundaryIds -> BoundaryRecord] /\ left \in Nat /\ ready \in Seq(Segments)
    BY <1>3, <1>7, <1>8, <1>9
  <2> QED BY <2>1, <2>2, UpdateBoundary
<1>11. /\ q \in Seq(CallType) /\ Quiet(q)
       /\ Count(q, TD) = Count(rest, TD) + 1 /\ Count(rest, TD) \in Nat
       /\ SameMatters(rest, q, -1)
  BY <1>1, TaskDoneLeft DEF q
<1>12. Piping(q) /\ piped' \in BOOLEAN
  BY <1>0, <1>2, PipingOf
<1>13. flowing => requestStatus = "OPEN" \/ ended # "no"
  BY DEF Inv, FlowState
<1>14. /\ calls' \in Seq(CallType) /\ Count(calls', TD) = Count(q, TD)
       /\ \A p, d : SameMatters(p, q, d) => \E e : SameMatters(p, calls', e)
       /\ Quiet(q) => Quiet(calls)'
       /\ requestStatus' \in {"OPEN", "CLOSING", "CLOSED"} /\ flowing' \in BOOLEAN
       /\ ended' \in {"no", "closed", "error", "aborted"}
       /\ requestStatus' = "OPEN" <=> requestStatus = "OPEN"
       /\ flowing' => requestStatus' = "OPEN" \/ ended' # "no"
       /\ ended' = "closed" => ended = "closed" /\ requestStatus' = requestStatus
  BY <1>0, <1>11, <1>12, <1>13, PipingEffect
<1>15. segment' \in [Segments -> SegmentRecord]
  BY <1>0, <1>4, EndSegment
<1>16. TypeOK'
  <2>1. BoundaryIds = Boundaries \cup {Root}
    BY DEF BoundaryIds
  <2>2. thrown' \in BOOLEAN
    BY <1>0, <1>2, <1>4, ControlTypes
  <2>3. running' \in Segments \cup {NoTask} /\ opened' \in Seq(Boundaries)
    BY <1>0, <1>1, ControlTypes
  <2> QED BY <1>0, <1>1, <1>2, <1>10, <1>12, <1>14, <1>15, <2>1, <2>2, <2>3, ControlTypes, TypeNext
<1>17. Ends(s, st)
  <2>1. st \in {"COMPLETED", "ABORTED", "ERRORED"} /\ s \in Live /\ TakenFrom(sus, s)
    BY <1>1
  <2>2. /\ UNCHANGED <<segments, boundaries, client, wrappers, pingedTasks>>
        /\ opened = << >> /\ opened' = << >> /\ running' = NoTask
        /\ requestStatus' = "OPEN" => requestStatus = "OPEN"
    BY <1>1, <1>14
  <2>3. DecidesOnly(Root, sus)
    BY <1>10 DEF DecidesOnly
  <2> QED BY <2>1, <2>2, <2>3, EndsOf
<1>18. FlowState'
  BY <1>3, <1>11, <1>14, FlowQuiet
<1>19. /\ \A place \in Places : PlaceOf(place) /\ StackState(place.rank) => StackState(place.rank)'
       /\ SetState'
  <2>1. PICK e : SameMatters(rest, calls', e)
    BY <1>11, <1>14
  <2>2. /\ \A rank : StackState(rank) => StackLeft(rank, calls', s)
        /\ SetsLeft(calls', s, sus)
    BY <1>1, <2>1, LeftShift
  <2>3. \A x \in Boundaries \cup {Root} :
           suspense'[x].fallbackAbortableTasks \subseteq sus[x].fallbackAbortableTasks
    BY <1>10 DEF BoundaryIds
  <2> QED BY <1>1, <1>16, <1>17, <2>2, <2>3, EndStackKept
<1>20. EndsQueued(Root, FALSE, FALSE, FALSE)
  BY <1>2 DEF EndsQueued
<1>21. suspense'[Root].pendingTasks = suspense[Root].pendingTasks - 1
  BY <1>7, <1>10 DEF left
<1>22. suspense'[Root].completedSegments =
              IF s = RootSegment /\ st = "COMPLETED" THEN << RootSegment >>
              ELSE suspense[Root].completedSegments
  BY <1>5, <1>6, <1>7, <1>10 DEF ready
<1>23. allPendingTasks' = Cardinality(Live) - 1 + Count(calls', TD)
  <2>1. allPendingTasks' = allPendingTasks
    OBVIOUS
  <2> QED BY <1>1, <1>3, <1>11, <1>14, <2>1
<1>24. st = "ABORTED" => segment[s].abortSet \in Complete'
  BY <1>1, <1>16, <1>17, EndKeeps
<1> QED BY <1>1, <1>5, <1>6, <1>14, <1>16, <1>17, <1>18, <1>19, <1>20, <1>21, <1>22, <1>23, <1>24, EndFrame

LEMMA SetAborted ==
    ASSUME NEW f, NEW order, NEW b, NEW rest \in Seq(CallType),
           CallAll(f, order) \in Seq(CallType), << Call("clear", b) >> \in Seq(CallType)
    PROVE  CallAll(f, order) \o << Call("clear", b) >> \o TaskDone \o rest
             = AbortAll(f, order, b, TaskDone \o rest)
<1> DEFINE p == CallAll(f, order)
           c == << Call("clear", b) >>
<1>1. p \in Seq(CallType) /\ c \in Seq(CallType) /\ TaskDone \in Seq(CallType)
  BY CallTypes DEF TaskDone, TD
<1> SUFFICES p \o c \o TaskDone \o rest = p \o (c \o (TaskDone \o rest))
  BY Zenon DEF AbortAll
<1> HIDE DEF p, c
<1>2. p \o c \in Seq(CallType) /\ TaskDone \o rest \in Seq(CallType)
  BY <1>1, ConcatProperties
<1>3. ((p \o c) \o TaskDone) \o rest = (p \o c) \o (TaskDone \o rest)
  <2> DEFINE pc == p \o c
  <2>1. pc \in Seq(CallType)
    BY <1>2
  <2> HIDE DEF pc
  <2>2. (pc \o TaskDone) \o rest = pc \o (TaskDone \o rest)
    BY <1>1, <2>1
  <2> QED BY <2>2 DEF pc
<1>4. (p \o c) \o (TaskDone \o rest) = p \o (c \o (TaskDone \o rest))
  <2> DEFINE tr == TaskDone \o rest
  <2>1. tr \in Seq(CallType)
    BY <1>2
  <2> HIDE DEF tr
  <2>2. (p \o c) \o tr = p \o (c \o tr)
    BY <1>1, <2>1
  <2> QED BY <2>2 DEF tr
<1> QED BY <1>3, <1>4, Zenon

LEMMA FinishedBoundaryTaskStep ==
    ASSUME Inv, NEW s, NEW st \in {"COMPLETED", "ABORTED"}, NEW sus, NEW rest,
           EndsWith(s, sus, rest), NEW b, b = segment[s].blockedBoundary, b # Root,
           st = "ABORTED" => segment[s].abortSet \in Complete,
           segment' = [segment EXCEPT ![s].status = st],
           FinishedBoundaryTask(s, st, b, sus, rest),
           UNCHANGED <<allPendingTasks, clientRenderedBoundaries, aborted>>
    PROVE  Inv'
<1>0. TypeOK
  BY DEF Inv
<1>1. /\ s \in Live /\ TakenFrom(sus, s) /\ rest \in Seq(CallType) /\ Quiet(rest)
      /\ allPendingTasks = Cardinality(Live) + Count(rest, TD)
      /\ \A rank : StackState(rank) => StackLeft(rank, rest, s)
      /\ SetsLeft(rest, s, sus)
      /\ opened = << >> /\ opened' = << >> /\ running' = NoTask
      /\ UNCHANGED <<segments, boundaries, client, wrappers, pingedTasks, next, started, retries, scheduled>>
  BY DEF EndsWith
<1> DEFINE left == sus[b].pendingTasks - 1
           complete == Completes(left, b, sus)
           send == segment[s].parentFlushed /\ st = "COMPLETED" /\ ~sus[b].forceClientRender
           ready == IF send THEN Append(sus[b].completedSegments, s) ELSE sus[b].completedSegments
           q == TaskDone \o rest
           d == complete /\ sus[b].parentFlushed
           e == ~complete /\ send /\ Len(ready) = 1 /\ sus[b].parentFlushed
           order0 == SetToSeqs(sus[b].fallbackAbortableTasks)
<1>2. /\ suspense' = [sus EXCEPT ![b].pendingTasks = left, ![b].completedSegments = ready]
      /\ completedBoundaries' = IF d THEN Append(completedBoundaries, b) ELSE completedBoundaries
      /\ partialBoundaries' = IF e THEN Append(partialBoundaries, b) ELSE partialBoundaries
      /\ complete => \E order \in order0 :
               calls' = CallAll("abortTaskSoft", order) \o << Call("clear", b) >>
                          \o TaskDone \o rest
      /\ ~complete => calls' = q
      /\ UNCHANGED <<piped, requestStatus, flowing, ended, thrown>>
  <2>1. suspense' = [sus EXCEPT ![b].pendingTasks = left, ![b].completedSegments = ready]
    BY DEF FinishedBoundaryTask
  <2>2. completedBoundaries' = IF d THEN Append(completedBoundaries, b) ELSE completedBoundaries
    BY DEF FinishedBoundaryTask
  <2>3. partialBoundaries' = IF e THEN Append(partialBoundaries, b) ELSE partialBoundaries
    BY DEF FinishedBoundaryTask
  <2>4. complete => \E order \in order0 :
               calls' = CallAll("abortTaskSoft", order) \o << Call("clear", b) >>
                          \o TaskDone \o rest
    BY Zenon DEF FinishedBoundaryTask
  <2>5. ~complete => calls' = q
    BY DEF FinishedBoundaryTask
  <2>6. UNCHANGED <<piped, requestStatus, flowing, ended, thrown>>
    BY DEF FinishedBoundaryTask
  <2> QED BY <2>1, <2>2, <2>3, <2>4, <2>5, <2>6
<1>3. /\ b \in BoundaryIds /\ suspense[b].pendingTasks \in Nat
      /\ suspense[b].pendingTasks - 1 \in Nat
      /\ ended # "closed" /\ Cardinality(Live) \in Nat
  BY <1>1, EndPending
<1>4. /\ s \in Segments /\ segment[s].task /\ segment[s].parentFlushed \in BOOLEAN
      /\ b \in Boundaries
  BY <1>0, <1>1, <1>3, InvTypes DEF Live, BoundaryIds
<1>5. /\ sus \in [BoundaryIds -> BoundaryRecord]
      /\ sus[b].pendingTasks = suspense[b].pendingTasks
      /\ sus[b].completedSegments = suspense[b].completedSegments
      /\ sus[b].forceClientRender = suspense[b].forceClientRender
      /\ sus[b].parentFlushed = suspense[b].parentFlushed
  BY <1>1, <1>3 DEF TakenFrom
<1>6. left \in Nat
  BY <1>3, <1>5
<1>7. /\ sus[b].forceClientRender \in BOOLEAN /\ sus[b].parentFlushed \in BOOLEAN
      /\ sus[b].completedSegments \in Seq(Segments) /\ sus[b].fallbackAbortableTasks \subseteq Segments
  <2>1. sus[b] \in BoundaryRecord
    BY <1>3, <1>5
  <2> QED BY <2>1 DEF BoundaryRecord
<1>8. ready \in Seq(Segments)
  <2>1. Append(sus[b].completedSegments, s) \in Seq(Segments)
    BY <1>4, <1>7, AppendElements
  <2> QED BY <1>7, <2>1
<1>9. send \in BOOLEAN /\ complete \in BOOLEAN /\ d \in BOOLEAN /\ e \in BOOLEAN
  BY <1>7, Zenon DEF Completes
<1>10. complete <=> left = 0 /\ ~suspense[b].forceClientRender
  BY <1>5 DEF Completes
<1>11. ready = suspense[b].completedSegments
       \/ /\ ready = Append(suspense[b].completedSegments, s)
          /\ segment[s].parentFlushed /\ st = "COMPLETED"
  BY <1>5
<1>12. st = "COMPLETED" /\ segment[s].parentFlushed =>
          suspense[b].forceClientRender \/ s \in ToSet(ready)
  <2> SUFFICES ASSUME st = "COMPLETED", segment[s].parentFlushed, ~suspense[b].forceClientRender
               PROVE  s \in ToSet(ready)
    OBVIOUS
  <2>1. ready = Append(sus[b].completedSegments, s)
    BY <1>5
  <2>2. ToSet(Append(sus[b].completedSegments, s)) = ToSet(sus[b].completedSegments) \cup {s}
    BY <1>4, <1>7, AppendElements
  <2> HIDE DEF ready
  <2> QED BY <2>1, <2>2
<1>13. e => suspense[b].parentFlushed
  BY <1>5
<1>14. d <=> complete /\ suspense[b].parentFlushed
  BY <1>5
<1> HIDE DEF left, ready, q, d, e, order0, send, complete
<1>15. /\ suspense' \in [BoundaryIds -> BoundaryRecord]
       /\ \A x \in BoundaryIds : x # b => suspense'[x] = sus[x]
       /\ suspense'[b].pendingTasks = left /\ suspense'[b].completedSegments = ready
       /\ suspense'[b].forceClientRender = sus[b].forceClientRender
       /\ suspense'[b].parentFlushed = sus[b].parentFlushed
       /\ suspense'[b].outer = sus[b].outer /\ suspense'[b].fallback = sus[b].fallback
       /\ suspense'[b].content = sus[b].content
       /\ suspense'[b].fallbackAbortableTasks = sus[b].fallbackAbortableTasks
  <2>1. suspense' = Updated(sus, b, left, ready)
    BY <1>2 DEF Updated
  <2>2. b \in BoundaryIds /\ sus \in [BoundaryIds -> BoundaryRecord] /\ left \in Nat /\ ready \in Seq(Segments)
    BY <1>3, <1>5, <1>6, <1>8
  <2> QED BY <2>1, <2>2, UpdateBoundary
<1>16. /\ q \in Seq(CallType) /\ Quiet(q)
       /\ Count(q, TD) = Count(rest, TD) + 1 /\ Count(rest, TD) \in Nat
       /\ SameMatters(rest, q, -1)
  BY <1>1, TaskDoneLeft DEF q
<1>17. /\ \A rank : StackState(rank) => StackLeft(rank, q, s)
       /\ SetsLeft(q, s, sus)
  BY <1>1, <1>16, LeftShift
<1>18. segment' \in [Segments -> SegmentRecord]
  BY <1>0, <1>4, EndSegment
<1>19. completedBoundaries' \in Seq(Boundaries) /\ partialBoundaries' \in Seq(Boundaries)
  <2>1. completedBoundaries \in Seq(Boundaries) /\ partialBoundaries \in Seq(Boundaries)
    BY <1>0, ControlTypes
  <2>2. Append(completedBoundaries, b) \in Seq(Boundaries) /\ Append(partialBoundaries, b) \in Seq(Boundaries)
    BY <1>4, <2>1, AppendElements
  <2> QED BY <1>2, <2>1, <2>2
<1>20. TypeOK'
  <2>1. BoundaryIds = Boundaries \cup {Root}
    BY DEF BoundaryIds
  <2>3. running' \in Segments \cup {NoTask} /\ opened' \in Seq(Boundaries)
    BY <1>0, <1>1, ControlTypes
  <2> QED BY <1>0, <1>1, <1>2, <1>15, <1>18, <1>19, <2>1, <2>3, ControlTypes, TypeNext
<1>21. Ends(s, st)
  <2>1. st \in {"COMPLETED", "ABORTED", "ERRORED"} /\ s \in Live /\ TakenFrom(sus, s)
    BY <1>1
  <2>2. /\ UNCHANGED <<segments, boundaries, client, wrappers, pingedTasks>>
        /\ opened = << >> /\ opened' = << >> /\ running' = NoTask
        /\ requestStatus' = "OPEN" => requestStatus = "OPEN"
    BY <1>1, <1>2
  <2>3. DecidesOnly(b, sus)
    BY <1>15 DEF DecidesOnly
  <2> QED BY <2>1, <2>2, <2>3, EndsOf
<1>22. complete => b \in Complete'
  <2> SUFFICES ASSUME complete PROVE b \in Complete'
    OBVIOUS
  <2>1. b <= boundaries /\ boundaries' = boundaries
    BY <1>1, <1>4 DEF Inv, SegmentTree
  <2>2. suspense'[b].pendingTasks = 0 /\ ~suspense'[b].forceClientRender
    BY <1>5, <1>10, <1>15
  <2>3. DOMAIN opened' = {}
    BY <1>1
  <2> QED BY <1>4, <2>1, <2>2, <2>3 DEF Complete
<1>23. \A x \in Boundaries \cup {Root} :
           suspense'[x].fallbackAbortableTasks \subseteq sus[x].fallbackAbortableTasks
  BY <1>15 DEF BoundaryIds
<1>24. /\ calls' \in Seq(CallType) /\ Count(calls', TD) = Count(q, TD)
       /\ Quiet(calls)'
       /\ \A place \in Places : PlaceOf(place) /\ StackState(place.rank) => StackState(place.rank)'
       /\ SetState'
  <2>1. CASE complete
    <3>1. PICK order \in order0 : calls' = CallAll("abortTaskSoft", order) \o << Call("clear", b) >>
                          \o TaskDone \o rest
      BY <1>2, <2>1
    <3>2. IsFiniteSet(sus[b].fallbackAbortableTasks)
      BY <1>7, Sets
    <3>3. order \in Seq(Segments)
      BY <1>7, <3>1, <3>2, OrderOfSet DEF order0
    <3>4. CallAll("abortTaskSoft", order) \in Seq(CallType) /\ << Call("clear", b) >> \in Seq(CallType)
      BY <1>4, <1>16, <3>3, PushSet
    <3>5. TaskDone \in Seq(CallType)
      BY CallTypes DEF TaskDone, TD
    <3>6. calls' = AbortAll("abortTaskSoft", order, b, q)
      <4>1. CallAll("abortTaskSoft", order) \o << Call("clear", b) >> \o TaskDone \o rest = AbortAll("abortTaskSoft", order, b, TaskDone \o rest)
        BY <1>1, <3>4, SetAborted
      <4> QED BY <3>1, <4>1, Zenon DEF q
    <3>7. order \in SetToSeqs(sus[b].fallbackAbortableTasks)
      BY <3>1 DEF order0
    <3>8. /\ calls' \in Seq(CallType) /\ Count(calls', TD) = Count(q, TD)
          /\ Quiet(q) => Quiet(calls)'
          /\ \A place \in Places : PlaceOf(place) /\ StackState(place.rank) => StackState(place.rank)'
          /\ SetState'
      BY <1>1, <1>4, <1>7, <1>16, <1>17, <1>20, <1>21, <1>22, <1>23, <2>1, <3>6, <3>7, EndStackPush
    <3> QED BY <1>16, <3>8
  <2>2. CASE ~complete
    <3>1. calls' = q
      BY <1>2, <2>2
    <3>2. /\ \A place \in Places : PlaceOf(place) /\ StackState(place.rank) => StackState(place.rank)'
          /\ SetState'
      BY <1>1, <1>17, <1>20, <1>21, <1>23, <3>1, EndStackKept
    <3>3. Quiet(calls)'
      BY <1>16, <3>1 DEF Quiet
    <3> QED BY <1>16, <3>1, <3>2, <3>3
  <2> QED BY <2>1, <2>2
<1>25. FlowState'
  <2>1. flowing => requestStatus = "OPEN" \/ ended # "no"
    BY DEF Inv, FlowState
  <2> QED BY <1>2, <1>3, <1>24, <2>1, FlowQuiet
<1>26. EndsQueued(b, FALSE, d, e)
  <2>1. clientRenderedBoundaries' = clientRenderedBoundaries
    OBVIOUS
  <2>2. suspense'[b].forceClientRender = suspense[b].forceClientRender /\ suspense'[b].pendingTasks = left
    BY <1>5, <1>15
  <2>3. d <=> /\ suspense[b].parentFlushed /\ ~suspense'[b].forceClientRender
              /\ suspense'[b].pendingTasks = 0
    BY <1>10, <1>14, <2>2
  <2>4. ~(~suspense[b].forceClientRender /\ suspense'[b].forceClientRender)
    BY <2>2
  <2> QED BY <1>2, <1>9, <1>13, <2>1, <2>3, <2>4 DEF EndsQueued
<1>27. suspense'[b].pendingTasks = suspense[b].pendingTasks - 1
  BY <1>5, <1>15 DEF left
<1>28. suspense'[Root].completedSegments = suspense[Root].completedSegments
  <2>1. Root \in BoundaryIds
    BY DEF BoundaryIds
  <2> QED BY <1>1, <1>15, <2>1 DEF TakenFrom
<1>29. s # RootSegment
  <2>1. segment[RootSegment].blockedBoundary = Root
    BY DEF Inv, SegmentTree
  <2> QED BY <2>1
<1>30. allPendingTasks' = Cardinality(Live) - 1 + Count(calls', TD)
  <2>1. allPendingTasks' = allPendingTasks
    OBVIOUS
  <2> QED BY <1>1, <1>3, <1>16, <1>24, <2>1
<1>31. st = "ABORTED" => segment[s].abortSet \in Complete'
  BY <1>1, <1>20, <1>21, EndKeeps
<1>32. suspense'[b].completedSegments = suspense[b].completedSegments
         \/ /\ suspense'[b].completedSegments = Append(suspense[b].completedSegments, s)
            /\ segment[s].parentFlushed /\ st = "COMPLETED"
  BY <1>11, <1>15
<1>33. st = "COMPLETED" /\ segment[s].parentFlushed =>
          suspense'[b].forceClientRender \/ s \in ToSet(suspense'[b].completedSegments)
  BY <1>5, <1>12, <1>15
<1> QED BY <1>1, <1>20, <1>21, <1>24, <1>25, <1>26, <1>27, <1>28, <1>29, <1>30, <1>31, <1>32, <1>33, EndFrame

LEMMA FinishTaskStep ==
    ASSUME Inv, FinishTask
    PROVE  Inv'
<1> DEFINE s == running
           sus == WithoutTask(s)
<1>1. /\ Rendering /\ opened = << >> /\ running' = NoTask
      /\ FinishedTask(s, "COMPLETED", sus, << >>)
      /\ UNCHANGED <<pingedTasks, next, opened, started, retries, scheduled>>
  BY DEF FinishTask
<1>2. /\ segment' = [segment EXCEPT ![s].status = "COMPLETED"]
      /\ UNCHANGED <<segments, boundaries, allPendingTasks, clientRenderedBoundaries, client, wrappers, aborted>>
      /\ segment[s].blockedBoundary = Root => FinishedRootTask(s, sus, << >>)
      /\ segment[s].blockedBoundary # Root =>
            FinishedBoundaryTask(s, "COMPLETED", segment[s].blockedBoundary, sus, << >>)
  BY <1>1 DEF FinishedTask
<1>3. EndsWith(s, sus, << >>)
  BY <1>1, <1>2, RunningEndsWith
<1> HIDE DEF sus
<1>4. CASE segment[s].blockedBoundary = Root
  BY <1>2, <1>3, <1>4, FinishedRootTaskStep
<1>5. CASE segment[s].blockedBoundary # Root
  BY <1>2, <1>3, <1>5, FinishedBoundaryTaskStep
<1> QED BY <1>4, <1>5

LEMMA AbortTaskSoftStep ==
    ASSUME Inv, AbortTaskSoft
    PROVE  Inv'
<1> DEFINE s == Arg
           rest == Rest
<1>1. /\ calls # << >> /\ Head(calls).f = "abortTaskSoft"
      /\ FinishedTask(s, "ABORTED", suspense, rest)
      /\ UNCHANGED <<pingedTasks, next, renderVars, scheduled>>
  BY DEF AbortTaskSoft, Calls
<1>2. /\ segment' = [segment EXCEPT ![s].status = "ABORTED"]
      /\ UNCHANGED <<segments, boundaries, allPendingTasks, clientRenderedBoundaries, client, wrappers, aborted>>
      /\ segment[s].blockedBoundary = Root => FinishedRootTask(s, suspense, rest)
      /\ segment[s].blockedBoundary # Root =>
            FinishedBoundaryTask(s, "ABORTED", segment[s].blockedBoundary, suspense, rest)
  BY <1>1 DEF FinishedTask
<1>3. AbortCall(Head(calls))
  BY <1>1 DEF AbortCall
<1>4. EndsWith(s, suspense, rest)
  BY <1>1, <1>2, <1>3, AbortEndsWith
<1>5. segment[s].abortSet \in Complete
  BY <1>1, <1>3, LeftOfAbort
<1> HIDE DEF s, rest
<1>6. CASE segment[s].blockedBoundary = Root
  BY <1>2, <1>4, <1>5, <1>6, FinishedRootTaskStep
<1>7. CASE segment[s].blockedBoundary # Root
  BY <1>2, <1>4, <1>5, <1>7, FinishedBoundaryTaskStep
<1> QED BY <1>6, <1>7

(* A boundary is left to the client, and its tasks may be aborted.         *)
LEMMA ForceClientRenderStep ==
    ASSUME Inv, NEW s, NEW st \in {"ABORTED", "ERRORED"}, NEW sus, NEW rest,
           EndsWith(s, sus, rest), NEW b, b = segment[s].blockedBoundary, b # Root,
           segment' = [segment EXCEPT ![s].status = st],
           ForceClientRender(b, sus),
           \/ calls' = TaskDone \o rest
           \/ \E order \in SetToSeqs(sus[b].fallbackAbortableTasks) :
                 calls' = CallAll("abortTask", order) \o << Call("clear", b) >> \o TaskDone \o rest,
           UNCHANGED <<allPendingTasks, completedBoundaries, partialBoundaries, requestStatus,
                       flowing, ended, thrown, piped, aborted>>
    PROVE  Inv'
<1>0. TypeOK
  BY DEF Inv
<1>1. /\ s \in Live /\ TakenFrom(sus, s) /\ rest \in Seq(CallType) /\ Quiet(rest)
      /\ allPendingTasks = Cardinality(Live) + Count(rest, TD)
      /\ \A rank : StackState(rank) => StackLeft(rank, rest, s)
      /\ SetsLeft(rest, s, sus)
      /\ opened = << >> /\ opened' = << >> /\ running' = NoTask
      /\ UNCHANGED <<segments, boundaries, client, wrappers, pingedTasks, next, started, retries, scheduled>>
  BY DEF EndsWith
<1> DEFINE q == TaskDone \o rest
           c == ~sus[b].forceClientRender /\ sus[b].parentFlushed
<1>2. /\ suspense' = Forced(sus, b)
      /\ clientRenderedBoundaries' = IF c THEN Append(clientRenderedBoundaries, b)
                                          ELSE clientRenderedBoundaries
  BY DEF ForceClientRender, Forced
<1>3. /\ b \in BoundaryIds /\ suspense[b].pendingTasks \in Nat
      /\ suspense[b].pendingTasks - 1 \in Nat
      /\ ended # "closed" /\ Cardinality(Live) \in Nat
  BY <1>1, EndPending
<1>4. s \in Segments /\ segment[s].task /\ b \in Boundaries
  BY <1>1, <1>3 DEF Live, BoundaryIds
<1>5. /\ sus \in [BoundaryIds -> BoundaryRecord]
      /\ sus[b].pendingTasks = suspense[b].pendingTasks
      /\ sus[b].completedSegments = suspense[b].completedSegments
      /\ sus[b].forceClientRender = suspense[b].forceClientRender
      /\ sus[b].parentFlushed = suspense[b].parentFlushed
  BY <1>1, <1>3 DEF TakenFrom
<1>6. /\ sus[b].forceClientRender \in BOOLEAN /\ sus[b].parentFlushed \in BOOLEAN
      /\ sus[b].fallbackAbortableTasks \subseteq Segments
  <2>1. sus[b] \in BoundaryRecord
    BY <1>3, <1>5
  <2> QED BY <2>1 DEF BoundaryRecord
<1>7. c \in BOOLEAN
  BY <1>6, Zenon
<1>8. c <=> ~suspense[b].forceClientRender /\ suspense[b].parentFlushed
  BY <1>5
<1> HIDE DEF q, c
<1>9. /\ suspense' \in [BoundaryIds -> BoundaryRecord]
      /\ \A x \in BoundaryIds : x # b => suspense'[x] = sus[x]
      /\ suspense'[b].pendingTasks = sus[b].pendingTasks - 1
      /\ suspense'[b].forceClientRender
      /\ suspense'[b].completedSegments = sus[b].completedSegments
      /\ suspense'[b].parentFlushed = sus[b].parentFlushed
      /\ suspense'[b].outer = sus[b].outer /\ suspense'[b].fallback = sus[b].fallback
      /\ suspense'[b].content = sus[b].content
      /\ suspense'[b].fallbackAbortableTasks = sus[b].fallbackAbortableTasks
  <2> DEFINE n == sus[b].pendingTasks - 1
  <2>1. n \in Nat /\ n = sus[b].pendingTasks - 1
    BY <1>3, <1>5
  <2> HIDE DEF n
  <2>2. /\ suspense' = Forced(sus, b) /\ sus \in [BoundaryIds -> BoundaryRecord] /\ b \in BoundaryIds
    BY <1>2, <1>3, <1>5
  <2>3. suspense' \in [BoundaryIds -> BoundaryRecord]
    BY <2>1, <2>2, UpdateForce, Zenon
  <2>5. ForcedTo(suspense', sus, b, n)
    BY <2>1, <2>2, UpdateForce, Zenon
  <2>4. /\ \A x \in BoundaryIds : x # b => suspense'[x] = sus[x]
        /\ suspense'[b].pendingTasks = n
        /\ suspense'[b].forceClientRender
        /\ suspense'[b].completedSegments = sus[b].completedSegments
        /\ suspense'[b].parentFlushed = sus[b].parentFlushed
        /\ suspense'[b].outer = sus[b].outer /\ suspense'[b].fallback = sus[b].fallback
        /\ suspense'[b].content = sus[b].content
        /\ suspense'[b].fallbackAbortableTasks = sus[b].fallbackAbortableTasks
    BY <2>5 DEF ForcedTo
  <2> QED BY <2>1, <2>3, <2>4
<1>10. /\ q \in Seq(CallType) /\ Quiet(q)
       /\ Count(q, TD) = Count(rest, TD) + 1 /\ Count(rest, TD) \in Nat
       /\ SameMatters(rest, q, -1)
  BY <1>1, TaskDoneLeft DEF q
<1>11. /\ \A rank : StackState(rank) => StackLeft(rank, q, s)
       /\ SetsLeft(q, s, sus)
  BY <1>1, <1>10, LeftShift
<1>12. segment' \in [Segments -> SegmentRecord]
  BY <1>0, <1>4, EndSegment
<1>13. clientRenderedBoundaries' \in Seq(Boundaries)
  <2>1. clientRenderedBoundaries \in Seq(Boundaries)
    BY <1>0, ControlTypes
  <2>2. Append(clientRenderedBoundaries, b) \in Seq(Boundaries)
    BY <1>4, <2>1, AppendElements
  <2> QED BY <1>2, <2>1, <2>2
<1>14. TypeOK'
  <2>1. BoundaryIds = Boundaries \cup {Root}
    BY DEF BoundaryIds
  <2>3. running' \in Segments \cup {NoTask} /\ opened' \in Seq(Boundaries)
    BY <1>0, <1>1, ControlTypes
  <2> QED BY <1>0, <1>1, <1>9, <1>12, <1>13, <2>1, <2>3, ControlTypes, TypeNext
<1>15. Ends(s, st)
  <2>1. st \in {"COMPLETED", "ABORTED", "ERRORED"} /\ s \in Live /\ TakenFrom(sus, s)
    BY <1>1
  <2>2. /\ UNCHANGED <<segments, boundaries, client, wrappers, pingedTasks>>
        /\ opened = << >> /\ opened' = << >> /\ running' = NoTask
        /\ requestStatus' = "OPEN" => requestStatus = "OPEN"
    BY <1>1
  <2>3. DecidesOnly(b, sus)
    BY <1>9 DEF DecidesOnly
  <2> QED BY <2>1, <2>2, <2>3, EndsOf
<1>16. \A x \in Boundaries \cup {Root} :
           suspense'[x].fallbackAbortableTasks \subseteq sus[x].fallbackAbortableTasks
  BY <1>9 DEF BoundaryIds
<1>17. /\ calls' \in Seq(CallType) /\ Count(calls', TD) = Count(q, TD)
       /\ Quiet(calls)'
       /\ \A place \in Places : PlaceOf(place) /\ StackState(place.rank) => StackState(place.rank)'
       /\ SetState'
  <2>1. CASE \E order \in SetToSeqs(sus[b].fallbackAbortableTasks) :
                calls' = CallAll("abortTask", order) \o << Call("clear", b) >> \o TaskDone \o rest
    <3>1. PICK order \in SetToSeqs(sus[b].fallbackAbortableTasks) :
                calls' = CallAll("abortTask", order) \o << Call("clear", b) >> \o TaskDone \o rest
      BY <2>1
    <3>2. IsFiniteSet(sus[b].fallbackAbortableTasks)
      BY <1>6, Sets
    <3>3. order \in Seq(Segments)
      BY <1>6, <3>1, <3>2, OrderOfSet
    <3>4. CallAll("abortTask", order) \in Seq(CallType) /\ << Call("clear", b) >> \in Seq(CallType)
      BY <1>4, <1>10, <3>3, PushSet
    <3>5. CallAll("abortTask", order) \o << Call("clear", b) >> \o TaskDone \o rest
             = AbortAll("abortTask", order, b, TaskDone \o rest)
      BY <1>1, <3>4, SetAborted
    <3>6. calls' = AbortAll("abortTask", order, b, q)
      BY <3>1, <3>5, Zenon DEF q
    <3>7. order \in SetToSeqs(sus[b].fallbackAbortableTasks)
      BY <3>1
    <3>8. "abortTask" \in {"abortTask", "abortTaskSoft"} /\ "abortTask" # "abortTaskSoft"
      OBVIOUS
    <3>9. /\ calls' \in Seq(CallType) /\ Count(calls', TD) = Count(q, TD)
          /\ Quiet(q) => Quiet(calls)'
          /\ \A place \in Places : PlaceOf(place) /\ StackState(place.rank) => StackState(place.rank)'
          /\ SetState'
      BY <1>1, <1>4, <1>6, <1>10, <1>11, <1>14, <1>15, <1>16, <3>6, <3>7, <3>8, EndStackPush
    <3> QED BY <1>10, <3>9
  <2>2. CASE calls' = TaskDone \o rest
    <3>1. calls' = q
      BY <2>2 DEF q
    <3>2. /\ \A place \in Places : PlaceOf(place) /\ StackState(place.rank) => StackState(place.rank)'
          /\ SetState'
      BY <1>1, <1>11, <1>14, <1>15, <1>16, <3>1, EndStackKept
    <3>3. Quiet(calls)'
      BY <1>10, <3>1 DEF Quiet
    <3> QED BY <1>10, <3>1, <3>2, <3>3
  <2> QED BY <2>1, <2>2
<1>18. FlowState'
  <2>1. flowing => requestStatus = "OPEN" \/ ended # "no"
    BY DEF Inv, FlowState
  <2> QED BY <1>3, <1>17, <2>1, FlowQuiet
<1>19. EndsQueued(b, c, FALSE, FALSE)
  <2>1. /\ completedBoundaries' = completedBoundaries /\ partialBoundaries' = partialBoundaries
    OBVIOUS
  <2>2. suspense'[b].forceClientRender
    BY <1>9
  <2> QED BY <1>2, <1>7, <1>8, <2>1, <2>2 DEF EndsQueued
<1>20. suspense'[b].pendingTasks = suspense[b].pendingTasks - 1
  BY <1>5, <1>9
<1>21. suspense'[Root].completedSegments = suspense[Root].completedSegments
  <2>1. Root \in BoundaryIds
    BY DEF BoundaryIds
  <2> QED BY <1>1, <1>9, <2>1 DEF TakenFrom
<1>22. allPendingTasks' = Cardinality(Live) - 1 + Count(calls', TD)
  <2>1. allPendingTasks' = allPendingTasks
    OBVIOUS
  <2> QED BY <1>1, <1>3, <1>10, <1>17, <2>1
<1>23. suspense'[b].completedSegments = suspense[b].completedSegments /\ suspense'[b].forceClientRender
  BY <1>5, <1>9
<1>24. st # "COMPLETED"
  OBVIOUS
<1> QED BY <1>1, <1>14, <1>15, <1>17, <1>18, <1>19, <1>20, <1>21, <1>22, <1>23, <1>24, EndFrame

(* A task of the root that does not finish is the end of the request.      *)
LEMMA RootFailsStep ==
    ASSUME Inv, NEW s, NEW st \in {"ABORTED", "ERRORED"}, NEW sus, NEW rest,
           EndsWith(s, sus, rest), segment[s].blockedBoundary = Root,
           segment' = [segment EXCEPT ![s].status = st], suspense' = sus,
           \/ calls' = TaskDone \o rest /\ allPendingTasks' = allPendingTasks
           \/ calls' = rest /\ allPendingTasks' = allPendingTasks - 1,
           requestStatus' \in {"CLOSING", "CLOSED"},
           ended' = ended \/ ended' \in {"error", "aborted"}, flowing => ended' # "no",
           UNCHANGED <<queueVars, flowing, thrown, piped, aborted>>
    PROVE  Inv'
<1>0. TypeOK
  BY DEF Inv
<1>1. /\ s \in Live /\ TakenFrom(sus, s) /\ rest \in Seq(CallType) /\ Quiet(rest)
      /\ allPendingTasks = Cardinality(Live) + Count(rest, TD)
      /\ \A rank : StackState(rank) => StackLeft(rank, rest, s)
      /\ SetsLeft(rest, s, sus)
      /\ opened = << >> /\ opened' = << >> /\ running' = NoTask
      /\ UNCHANGED <<segments, boundaries, client, wrappers, pingedTasks, next, started, retries, scheduled>>
  BY DEF EndsWith
<1>2. UNCHANGED <<clientRenderedBoundaries, completedBoundaries, partialBoundaries>>
  BY DEF queueVars
<1>3. /\ Root \in BoundaryIds /\ ended # "closed" /\ Cardinality(Live) \in Nat
  BY <1>1, EndPending
<1>4. s \in Segments
  BY <1>1 DEF Live
<1>5. /\ suspense' \in [BoundaryIds -> BoundaryRecord]
      /\ suspense'[Root].pendingTasks = suspense[Root].pendingTasks
      /\ suspense'[Root].completedSegments = suspense[Root].completedSegments
  BY <1>1, <1>3 DEF TakenFrom
<1> DEFINE q == TaskDone \o rest
<1>6. /\ q \in Seq(CallType) /\ Quiet(q)
      /\ Count(q, TD) = Count(rest, TD) + 1 /\ Count(rest, TD) \in Nat
      /\ SameMatters(rest, q, -1)
  BY <1>1, TaskDoneLeft
<1>7. /\ \A rank : StackState(rank) => StackLeft(rank, q, s)
      /\ SetsLeft(q, s, sus)
  BY <1>1, <1>6, LeftShift
<1> HIDE DEF q
<1>8. \/ calls' = q /\ allPendingTasks' = allPendingTasks
      \/ calls' = rest /\ allPendingTasks' = allPendingTasks - 1
  BY DEF q
<1>9. /\ calls' \in Seq(CallType)
      /\ \A rank : StackState(rank) => StackLeft(rank, calls', s)
      /\ SetsLeft(calls', s, sus)
      /\ allPendingTasks' = Cardinality(Live) - 1 + Count(calls', TD)
      /\ allPendingTasks' \in Nat
  <2>1. CASE calls' = q /\ allPendingTasks' = allPendingTasks
    <3>1. allPendingTasks' \in Nat
      BY <1>0, <2>1, ControlTypes
    <3>2. allPendingTasks' = Cardinality(Live) - 1 + Count(calls', TD)
      BY <1>1, <1>3, <1>6, <2>1
    <3> QED BY <1>6, <1>7, <2>1, <3>1, <3>2
  <2>2. CASE calls' = rest /\ allPendingTasks' = allPendingTasks - 1
    <3>1. Cardinality(Live) # 0
      <4>1. IsFiniteSet(Live)
        BY Sets
      <4> QED BY <1>1, <4>1, FS_EmptySet
    <3>2. allPendingTasks' = Cardinality(Live) - 1 + Count(calls', TD) /\ allPendingTasks' \in Nat
      BY <1>1, <1>3, <1>6, <2>2, <3>1
    <3> QED BY <1>1, <2>2, <3>2
  <2> QED BY <1>8, <2>1, <2>2
<1>10. Quiet(calls)'
  <2>1. Quiet(calls')
    BY <1>1, <1>6, <1>8
  <2> QED BY <2>1 DEF Quiet
<1>11. segment' \in [Segments -> SegmentRecord]
  BY <1>0, <1>4, EndSegment
<1>12. TypeOK'
  <2>1. BoundaryIds = Boundaries \cup {Root}
    BY DEF BoundaryIds
  <2>2. running' \in Segments \cup {NoTask} /\ opened' \in Seq(Boundaries)
    BY <1>0, <1>1, ControlTypes
  <2>3. ended' \in {"no", "closed", "error", "aborted"} /\ requestStatus' \in {"OPEN", "CLOSING", "CLOSED"}
    BY <1>0, ControlTypes
  <2> QED BY <1>0, <1>1, <1>2, <1>5, <1>9, <1>11, <2>1, <2>2, <2>3, ControlTypes, TypeNext
<1>13. requestStatus' # "OPEN"
  OBVIOUS
<1>14. Ends(s, st)
  <2>1. st \in {"COMPLETED", "ABORTED", "ERRORED"} /\ s \in Live /\ TakenFrom(sus, s)
    BY <1>1
  <2>2. /\ UNCHANGED <<segments, boundaries, client, wrappers, pingedTasks>>
        /\ opened = << >> /\ opened' = << >> /\ running' = NoTask
        /\ requestStatus' = "OPEN" => requestStatus = "OPEN"
    BY <1>1, <1>13
  <2>3. DecidesOnly(Root, sus)
    BY DEF DecidesOnly
  <2> QED BY <2>1, <2>2, <2>3, EndsOf
<1>15. /\ \A place \in Places : PlaceOf(place) /\ StackState(place.rank) => StackState(place.rank)'
       /\ SetState'
  BY <1>1, <1>9, <1>12, <1>14, EndStackKept
<1>16. FlowState'
  <2>1. flowing' => requestStatus' = "OPEN" \/ ended' # "no"
    OBVIOUS
  <2>2. ended' # "closed"
    BY <1>3
  <2> QED BY <1>10, <2>1, <2>2, FlowQuiet
<1>17. EndsQueued(Root, FALSE, FALSE, FALSE)
  BY <1>2 DEF EndsQueued
<1>18. st # "COMPLETED"
  OBVIOUS
<1>19. suspense'[Root].completedSegments =
              IF s = RootSegment /\ st = "COMPLETED" THEN << RootSegment >>
              ELSE suspense[Root].completedSegments
  BY <1>5, <1>18
<1> QED BY <1>1, <1>5, <1>9, <1>12, <1>13, <1>14, <1>15, <1>16, <1>17, <1>18, <1>19, EndFrame

LEMMA TaskThrowsStep ==
    ASSUME Inv, TaskThrows
    PROVE  Inv'
<1> DEFINE s == running
           b == segment[s].blockedBoundary
           sus == WithoutTask(s)
<1>1. /\ Rendering /\ opened = << >> /\ running' = NoTask
      /\ segment' = [segment EXCEPT ![s].status = "ERRORED"]
      /\ b = Root => FatalError /\ suspense' = sus /\ UNCHANGED clientRenderedBoundaries
      /\ b # Root => ForceClientRender(b, sus) /\ UNCHANGED <<requestStatus, ended>>
      /\ calls' = TaskDone
      /\ UNCHANGED <<segments, boundaries, allPendingTasks, pingedTasks, completedBoundaries,
                     partialBoundaries, flowing, client, wrappers, thrown, next, opened, started,
                     retries, scheduled, piped, aborted>>
  BY DEF TaskThrows, userVars
<1>2. EndsWith(s, sus, << >>)
  BY <1>1, RunningEndsWith
<1>3. calls' = TaskDone \o << >>
  <2>1. TaskDone \in Seq(CallType)
    BY CallTypes DEF TaskDone, TD
  <2> QED BY <1>1, <2>1, ConcatEmptySeq
<1> HIDE DEF sus, b, s
<1>4. CASE b = Root
  <2>1. FatalError /\ suspense' = sus
    BY <1>1, <1>4
  <2>2. UNCHANGED <<queueVars, flowing, thrown, piped, aborted>>
    BY <1>1, <1>4 DEF queueVars
  <2>3. requestStatus' \in {"CLOSING", "CLOSED"}
    BY <2>1 DEF FatalError
  <2>4. (ended' = ended \/ ended' \in {"error", "aborted"}) /\ (flowing => ended' # "no")
    BY <2>1 DEF FatalError
  <2>5. segment[s].blockedBoundary = Root /\ allPendingTasks' = allPendingTasks
    BY <1>1, <1>4 DEF b
  <2>6. "ERRORED" \in {"ABORTED", "ERRORED"}
    OBVIOUS
  <2> QED BY <1>1, <1>2, <1>3, <2>1, <2>2, <2>3, <2>4, <2>5, <2>6, RootFailsStep
<1>5. CASE b # Root
  <2>1. ForceClientRender(b, sus)
    BY <1>1, <1>5
  <2>2. UNCHANGED <<allPendingTasks, completedBoundaries, partialBoundaries, requestStatus,
                    flowing, ended, thrown, piped, aborted>>
    BY <1>1, <1>5
  <2>3. b = segment[s].blockedBoundary
    BY DEF b
  <2>4. "ERRORED" \in {"ABORTED", "ERRORED"}
    OBVIOUS
  <2> QED BY <1>1, <1>2, <1>3, <1>5, <2>1, <2>2, <2>3, <2>4, ForceClientRenderStep
<1> QED BY <1>4, <1>5

LEMMA AbortTaskStep ==
    ASSUME Inv, AbortTask
    PROVE  Inv'
<1> DEFINE s == Arg
           b == segment[s].blockedBoundary
           rest == Rest
<1>1. /\ calls # << >> /\ Head(calls).f = "abortTask"
      /\ segment' = [segment EXCEPT ![s].status = "ABORTED"]
      /\ b = Root =>
            /\ allPendingTasks' = allPendingTasks - 1
            /\ requestStatus' = "CLOSED"
            /\ ended' = IF requestStatus # "CLOSED" /\ flowing /\ ended = "no"
                        THEN "aborted" ELSE ended
            /\ calls' = rest
            /\ UNCHANGED <<suspense, clientRenderedBoundaries>>
      /\ b # Root =>
            /\ ForceClientRender(b, suspense)
            /\ \E order \in SetToSeqs(suspense[b].fallbackAbortableTasks) :
                  calls' = CallAll("abortTask", order) \o << Call("clear", b) >> \o TaskDone \o rest
            /\ UNCHANGED <<allPendingTasks, requestStatus, ended>>
      /\ UNCHANGED <<segments, boundaries, pingedTasks, completedBoundaries, partialBoundaries,
                     flowing, client, wrappers, thrown, next, renderVars, scheduled, piped, aborted>>
  BY Zenon DEF AbortTask, Calls, userVars
<1>2. AbortCall(Head(calls))
  BY <1>1 DEF AbortCall
<1>3. EndsWith(s, suspense, rest)
  BY <1>1, <1>2, AbortEndsWith
<1> HIDE DEF b, s, rest
<1>4. CASE b = Root
  <2>1. /\ allPendingTasks' = allPendingTasks - 1
        /\ requestStatus' = "CLOSED"
        /\ ended' = IF requestStatus # "CLOSED" /\ flowing /\ ended = "no" THEN "aborted" ELSE ended
        /\ calls' = rest /\ suspense' = suspense
    BY <1>1, <1>4
  <2>2. UNCHANGED <<queueVars, flowing, thrown, piped, aborted>>
    BY <1>1, <1>4 DEF queueVars
  <2>3. requestStatus' \in {"CLOSING", "CLOSED"}
    BY <2>1
  <2>4. flowing => requestStatus = "OPEN" \/ ended # "no"
    BY DEF Inv, FlowState
  <2>5. (ended' = ended \/ ended' \in {"error", "aborted"}) /\ (flowing => ended' # "no")
    BY <2>1, <2>4
  <2>6. segment[s].blockedBoundary = Root
    BY <1>4 DEF b
  <2>7. "ABORTED" \in {"ABORTED", "ERRORED"}
    OBVIOUS
  <2> QED BY <1>1, <1>3, <2>1, <2>2, <2>3, <2>5, <2>6, <2>7, RootFailsStep
<1>5. CASE b # Root
  <2>1. /\ ForceClientRender(b, suspense)
        /\ \E order \in SetToSeqs(suspense[b].fallbackAbortableTasks) :
              calls' = CallAll("abortTask", order) \o << Call("clear", b) >> \o TaskDone \o rest
    BY <1>1, <1>5
  <2>2. UNCHANGED <<allPendingTasks, completedBoundaries, partialBoundaries, requestStatus,
                    flowing, ended, thrown, piped, aborted>>
    BY <1>1, <1>5
  <2>3. b = segment[s].blockedBoundary
    BY DEF b
  <2>4. "ABORTED" \in {"ABORTED", "ERRORED"}
    OBVIOUS
  <2> QED BY <1>1, <1>3, <1>5, <2>1, <2>2, <2>3, <2>4, ForceClientRenderStep
<1> QED BY <1>4, <1>5
=============================================================================
