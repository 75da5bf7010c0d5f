--------------------------- MODULE HookQueueProofs ---------------------------
(***************************************************************************)
(* What holds of the queue of a useState for any set of lanes, states and  *)
(* actions and any number of updates: the type invariant, that eager       *)
(* states are what the actions give (EagerStateIsRight), and that nothing  *)
(* is lost (NothingIsLost).                                                *)
(*                                                                         *)
(* The inductive invariant Inv says of each fiber that may be committed    *)
(* (FiberInv), and of what it will find in its queue:                      *)
(*   - LaneInv: an update that waits has its lane in the fiber or goes     *)
(*     with one that does, or it was dropped because it led to the state   *)
(*     it found, which is the base state;                                  *)
(*   - EagerInv: an eager state that will be used in order was computed on *)
(*     the base state, and all that is older and waits led to that state;  *)
(*   - BaseInv: a fiber without lanes, or without skipped updates, shows   *)
(*     its base state, and it is the one setState compares with;           *)
(*   - CoverInv: an update is in the base state or in the queue;           *)
(* and of its two states that they are right (FiberRight).                 *)
(*                                                                         *)
(* What is computed from a queue is proved by induction over an interval   *)
(* of numbers, stated with a set (IntervalInduction), as is that recursive *)
(* functions exist (RecursionExists).                                      *)
(***************************************************************************)
EXTENDS HookQueue, DataLemmas

-----------------------------------------------------------------------------
(* Induction over an interval and functions that are defined with it.      *)

(* Induction for a set of naturals.                                        *)
LEMMA IntervalInduction ==
    ASSUME NEW n \in Nat, NEW P, 0 \in P, \A i \in 1..n : i - 1 \in P => i \in P
    PROVE  \A i \in 0..n : i \in P
<1> SUFFICES ASSUME NEW k \in 0..n, k \notin P PROVE FALSE
  OBVIOUS
<1> DEFINE Bad == {i \in 0..n : i \notin P}
<1>1. PICK i \in Bad : \A j \in Bad : i <= j
  <2>1. Bad \subseteq Nat /\ Bad # {}
    OBVIOUS
  <2> HIDE DEF Bad
  <2> QED BY <2>1, LeastNatural
<1>2. i \in 1..n /\ i - 1 \in 0..n /\ i - 1 < i
  BY <1>1
<1>3. i - 1 \in P
  <2>1. i - 1 \notin Bad
    <3>1. i \in Int /\ i - 1 \in Int /\ ~(i <= i - 1)
      BY <1>2
    <3> HIDE DEF Bad
    <3> QED BY <1>1, <3>1
  <2> QED BY <1>2, <2>1
<1> QED
  BY <1>1, <1>2, <1>3

(* A function that is defined by recursion exists.                         *)
Recursion(f, S, s, n, step) ==
    f \in [0..n -> S] /\ f[0] = s /\ \A i \in 1..n : f[i] = step[<<i, f[i - 1]>>]

LEMMA RecursionExists ==
    ASSUME NEW S, NEW s \in S, NEW n \in Nat, NEW step \in [(1..n) \X S -> S]
    PROVE  \E f : Recursion(f, S, s, n, step)
<1> DEFINE P == {m \in 0..n : \E f : Recursion(f, S, s, m, step)}
<1>1. 0 \in P
  <2>1. Recursion([i \in 0..0 |-> s], S, s, 0, step)
    BY DEF Recursion
  <2> QED BY <2>1
<1>2. ASSUME NEW m \in 1..n, m - 1 \in P PROVE m \in P
  <2>1. PICK f : Recursion(f, S, s, m - 1, step)
    BY <1>2
  <2> DEFINE g == [i \in 0..m |-> IF i < m THEN f[i] ELSE step[<<m, f[m - 1]>>]]
  <2>2. f[m - 1] \in S /\ step[<<m, f[m - 1]>>] \in S
    BY <2>1 DEF Recursion
  <2>3. g \in [0..m -> S]
    BY <2>1, <2>2 DEF Recursion
  <2>4. g[0] = s
    BY <2>1 DEF Recursion
  <2>5. ASSUME NEW i \in 1..m PROVE g[i] = step[<<i, g[i - 1]>>]
    <3>1. g[i - 1] = f[i - 1]
      OBVIOUS
    <3>2. CASE i < m
      <4>1. i \in 1..(m - 1) /\ g[i] = f[i]
        BY <3>2
      <4> QED BY <2>1, <3>1, <4>1 DEF Recursion
    <3>3. CASE i = m
      <4>1. g[i] = step[<<m, f[m - 1]>>]
        BY <3>3
      <4> HIDE DEF g
      <4> QED BY <3>1, <3>3, <4>1
    <3> QED BY <3>2, <3>3
  <2> HIDE DEF g
  <2>6. Recursion(g, S, s, m, step)
    BY <2>3, <2>4, <2>5 DEF Recursion
  <2> QED BY <2>6
<1> HIDE DEF P
<1>3. n \in P
  BY <1>1, <1>2, IntervalInduction
<1> QED
  BY <1>3 DEF P

-----------------------------------------------------------------------------
(* The states of a hook.                                                   *)

ActionsOK == actions \in Seq(Actions)
Known(list, acts) == \A i \in 1..Len(list) : list[i].id \in 1..Len(acts)

LEMMA ActionType ==
    ASSUME NEW acts \in Seq(Actions), NEW i \in 1..Len(acts), NEW v \in State
    PROVE  acts[i][v] \in State
<1>1. acts[i] \in Actions
  BY LenProperties
<1> QED
  BY <1>1, HookQueueAssumption

LEMMA EagerType ==
    ASSUME NEW v \in State
    PROVE  Head(<<v>>) = v /\ <<v>> # << >>
<1>1. <<v>> \in Seq(State) /\ <<v>> # << >> /\ <<v>>[1] = v
  OBVIOUS
<1> QED
  BY <1>1, HeadTailProperties

LEMMA UpdateFields ==
    ASSUME NEW u \in UpdateSet
    PROVE  /\ u.id \in Ids /\ u.id \in Nat /\ u.lane \in Lane \cup {NoLane}
           /\ u.eager = << >> \/ \E v \in State : u.eager = <<v>>
  BY HookQueueAssumption DEF UpdateSet, Ids

LEMMA EagerValue == \A x, u : \A v \in State : u.eager = <<v>> => Process(x, u).value = v
<1> SUFFICES ASSUME NEW x, NEW u, NEW v \in State, u.eager = <<v>>
             PROVE  Process(x, u).value = v
  OBVIOUS
<1> QED
  BY EagerType DEF Process

LEMMA ProcessType ==
    ASSUME NEW x \in StateSet, NEW u \in UpdateSet, ActionsOK, u.id \in 1..Len(actions)
    PROVE  Process(x, u) \in StateSet
<1>1. x.value \in State /\ x.applied \in Seq(Ids)
  BY DEF StateSet
<1>2. Append(x.applied, u.id) \in Seq(Ids)
  BY <1>1, UpdateFields, AppendProperties
<1>3. actions[u.id][x.value] \in State
  BY <1>1, ActionType DEF ActionsOK
<1>4. \A v \in State : u.eager = <<v>> => Process(x, u).value = v
  BY EagerValue
<1>5. u.eager = << >> => Process(x, u).value = actions[u.id][x.value]
  BY DEF Process
<1>6. Process(x, u).value \in State
  BY <1>3, <1>4, <1>5, UpdateFields
<1> QED
  BY <1>2, <1>6 DEF Process, StateSet

(* The states StateAfter goes through.                                     *)
LEMMA StatesAfter ==
    ASSUME NEW s \in StateSet, NEW list \in Seq(UpdateSet), ActionsOK, Known(list, actions),
           NEW n \in 0..Len(list)
    PROVE  \E f \in [0..n -> StateSet] :
              /\ f[0] = s
              /\ \A i \in 1..n : f[i] = IF Sufficient(list[i]) THEN Process(f[i - 1], list[i])
                                        ELSE f[i - 1]
              /\ StateAfter(s, list, n) = f[n]
<1> DEFINE Is(f) == f = [i \in 0..n |->
                            IF i = 0 THEN s
                            ELSE IF Sufficient(list[i]) THEN Process(f[i - 1], list[i])
                            ELSE f[i - 1]]
           step == [p \in (1..n) \X StateSet |->
                       IF Sufficient(list[p[1]]) THEN Process(p[2], list[p[1]]) ELSE p[2]]
           kept == CHOOSE f : Is(f)
<1>1. Len(list) \in Nat /\ n \in Nat /\ \A i \in 1..n : list[i] \in UpdateSet
                                           /\ list[i].id \in 1..Len(actions)
  BY LenProperties DEF Known
<1>2. step \in [(1..n) \X StateSet -> StateSet]
  <2>1. ASSUME NEW p \in (1..n) \X StateSet
        PROVE  (IF Sufficient(list[p[1]]) THEN Process(p[2], list[p[1]]) ELSE p[2]) \in StateSet
    <3>1. p[1] \in 1..n /\ p[2] \in StateSet
      OBVIOUS
    <3> QED BY <1>1, <3>1, ProcessType
  <2> QED BY <2>1
<1>3. \A i \in 1..n : \A x \in StateSet :
         step[<<i, x>>] = IF Sufficient(list[i]) THEN Process(x, list[i]) ELSE x
  OBVIOUS
<1> HIDE DEF step
<1>4. PICK f : Recursion(f, StateSet, s, n, step)
  BY <1>1, <1>2, RecursionExists
<1>5. Is(f)
  <2>1. ASSUME NEW i \in 0..n, i # 0
        PROVE  f[i] = IF Sufficient(list[i]) THEN Process(f[i - 1], list[i]) ELSE f[i - 1]
    <3>1. i \in 1..n /\ i - 1 \in 0..n
      BY <1>1, <2>1
    <3>2. f[i - 1] \in StateSet
      BY <1>4, <3>1 DEF Recursion
    <3> QED BY <1>3, <1>4, <3>1, <3>2 DEF Recursion
  <2> QED BY <1>4, <2>1 DEF Recursion
<1>6. Is(kept)
  BY <1>5
<1>7. StateAfter(s, list, n) = kept[n]
  BY DEF StateAfter
<1> HIDE DEF kept
<1>8. kept[0] = s
  BY <1>1, <1>6
<1>9. ASSUME NEW i \in 1..n
      PROVE  kept[i] = IF Sufficient(list[i]) THEN Process(kept[i - 1], list[i]) ELSE kept[i - 1]
  <2>1. i \in 0..n /\ i # 0
    BY <1>1
  <2> QED BY <1>6, <2>1
<1>10. \A i \in 0..n : kept[i] \in StateSet
  <2> DEFINE P == {i \in 0..n : kept[i] \in StateSet}
  <2>1. 0 \in P
    BY <1>1, <1>8
  <2>2. ASSUME NEW i \in 1..n, i - 1 \in P PROVE i \in P
    <3>1. kept[i - 1] \in StateSet /\ i \in 0..n
      BY <1>1, <2>2
    <3>2. Process(kept[i - 1], list[i]) \in StateSet
      BY <1>1, <3>1, ProcessType
    <3> QED BY <1>9, <3>1, <3>2
  <2> HIDE DEF P
  <2>3. \A i \in 0..n : i \in P
    BY <1>1, <2>1, <2>2, IntervalInduction
  <2> QED BY <2>3 DEF P
<1>11. kept \in [0..n -> StateSet]
  <2>1. kept = [i \in 0..n |-> kept[i]]
    BY <1>6
  <2> QED BY <1>10, <2>1
<1> QED
  BY <1>7, <1>8, <1>9, <1>11

(* What the given actions make of the initial state, for the updates ids.  *)
ResultOf(acts, ids) ==
    LET after[i \in 0..Len(ids)] == IF i = 0 THEN InitialState ELSE acts[ids[i]][after[i - 1]]
    IN  after[Len(ids)]

LEMMA ResultIsResultOf ==
    /\ \A ids : Result(ids) = ResultOf(actions, ids)
    /\ \A ids : Result(ids)' = ResultOf(actions', ids)
  BY DEF Result, ResultOf

Dispatched(ids, acts) == ids \in Seq(Ids) /\ \A i \in 1..Len(ids) : ids[i] \in 1..Len(acts)

Results(f, acts, ids, n) ==
    /\ f \in [0..n -> State] /\ f[0] = InitialState
    /\ \A i \in 1..n : f[i] = acts[ids[i]][f[i - 1]]

LEMMA ResultExists ==
    ASSUME NEW acts \in Seq(Actions), NEW ids, Dispatched(ids, acts)
    PROVE  \E f : Results(f, acts, ids, Len(ids)) /\ ResultOf(acts, ids) = f[Len(ids)]
<1> DEFINE n == Len(ids)
           Is(f) == f = [i \in 0..n |->
                            IF i = 0 THEN InitialState ELSE acts[ids[i]][f[i - 1]]]
           step == [p \in (1..n) \X State |-> acts[ids[p[1]]][p[2]]]
           kept == CHOOSE f : Is(f)
<1>1. n \in Nat /\ \A i \in 1..n : ids[i] \in 1..Len(acts)
  BY LenProperties DEF Dispatched
<1>2. ResultOf(acts, ids) = kept[n]
  BY DEF ResultOf
<1> HIDE DEF n
<1>3. step \in [(1..n) \X State -> State]
  <2>1. ASSUME NEW p \in (1..n) \X State PROVE acts[ids[p[1]]][p[2]] \in State
    <3>1. p[1] \in 1..n /\ p[2] \in State
      OBVIOUS
    <3> QED BY <1>1, <3>1, ActionType
  <2> QED BY <2>1
<1>4. \A i \in 1..n : \A x \in State : step[<<i, x>>] = acts[ids[i]][x]
  OBVIOUS
<1> HIDE DEF step
<1>5. PICK f : Recursion(f, State, InitialState, n, step)
  BY <1>1, <1>3, RecursionExists, HookQueueAssumption
<1>6. Is(f)
  <2>1. ASSUME NEW i \in 0..n, i # 0 PROVE f[i] = acts[ids[i]][f[i - 1]]
    <3>1. i \in 1..n /\ i - 1 \in 0..n
      BY <1>1, <2>1
    <3> QED BY <1>4, <1>5, <3>1 DEF Recursion
  <2> QED BY <1>5, <2>1 DEF Recursion
<1>7. Is(kept)
  BY <1>6
<1> HIDE DEF kept
<1>8. kept[0] = InitialState
  BY <1>1, <1>7
<1>9. ASSUME NEW i \in 1..n PROVE kept[i] = acts[ids[i]][kept[i - 1]]
  <2>1. i \in 0..n /\ i # 0
    BY <1>1
  <2> QED BY <1>7, <2>1
<1>10. \A i \in 0..n : kept[i] \in State
  <2> DEFINE P == {i \in 0..n : kept[i] \in State}
  <2>1. 0 \in P
    BY <1>1, <1>8, HookQueueAssumption
  <2>2. ASSUME NEW i \in 1..n, i - 1 \in P PROVE i \in P
    BY <1>1, <1>9, <2>2, ActionType
  <2> HIDE DEF P
  <2>3. \A i \in 0..n : i \in P
    BY <1>1, <2>1, <2>2, IntervalInduction
  <2> QED BY <2>3 DEF P
<1>11. kept \in [0..n -> State]
  <2>1. kept = [i \in 0..n |-> kept[i]]
    BY <1>7
  <2> QED BY <1>10, <2>1
<1>12. Results(kept, acts, ids, n)
  BY <1>8, <1>9, <1>11 DEF Results
<1> QED
  BY <1>2, <1>12 DEF n

(* Results depend only on the actions that lead to them.                   *)
SamePrefix(ids, more, m, n) ==
    n \in Nat /\ m \in 0..n /\ \A i \in 1..m : ids[i] = more[i]

LEMMA ResultsPrefix ==
    \A acts, ids, more, f, g, n, m :
        Results(g, acts, ids, m) /\ Results(f, acts, more, n) /\ SamePrefix(ids, more, m, n)
        => g[m] = f[m]
<1> SUFFICES ASSUME NEW acts, NEW ids, NEW more, NEW f, NEW g,
                    NEW n \in Nat, NEW m \in 0..n,
                    Results(g, acts, ids, m), Results(f, acts, more, n),
                    \A i \in 1..m : ids[i] = more[i]
             PROVE  g[m] = f[m]
  BY DEF SamePrefix
<1> DEFINE P == {i \in 0..m : g[i] = f[i]}
<1>1. 0 \in P
  BY DEF Results
<1>2. ASSUME NEW i \in 1..m, i - 1 \in P PROVE i \in P
  <2>1. f[i - 1] = g[i - 1] /\ i \in 1..n
    BY <1>2
  <2> QED BY <2>1 DEF Results
<1> HIDE DEF P
<1>3. \A i \in 0..m : i \in P
  BY <1>1, <1>2, IntervalInduction
<1> QED
  BY <1>3 DEF P

SameActions(acts, others, ids, n) ==
    n \in Nat /\ \A i \in 1..n : acts[ids[i]] = others[ids[i]]

LEMMA ResultsAgree ==
    \A acts, others, ids, f, g, n :
        Results(f, acts, ids, n) /\ Results(g, others, ids, n) /\ SameActions(acts, others, ids, n)
        => f[n] = g[n]
<1> SUFFICES ASSUME NEW acts, NEW others, NEW ids, NEW f, NEW g, NEW n \in Nat,
                    Results(f, acts, ids, n), Results(g, others, ids, n),
                    \A i \in 1..n : acts[ids[i]] = others[ids[i]]
             PROVE  f[n] = g[n]
  BY DEF SameActions
<1> DEFINE P == {i \in 0..n : f[i] = g[i]}
<1>1. 0 \in P
  BY DEF Results
<1>2. ASSUME NEW i \in 1..n, i - 1 \in P PROVE i \in P
  <2>1. f[i - 1] = g[i - 1]
    BY <1>2
  <2> QED BY <2>1 DEF Results
<1> HIDE DEF P
<1>3. \A i \in 0..n : i \in P
  BY <1>1, <1>2, IntervalInduction
<1> QED
  BY <1>3 DEF P

LEMMA ResultAppend ==
    ASSUME NEW acts \in Seq(Actions), NEW ids, Dispatched(ids, acts), NEW id \in Ids,
           id \in 1..Len(acts)
    PROVE  /\ Dispatched(Append(ids, id), acts)
           /\ ResultOf(acts, Append(ids, id)) = acts[id][ResultOf(acts, ids)]
<1> DEFINE more == Append(ids, id)
<1>1. /\ more \in Seq(Ids) /\ Len(ids) \in Nat /\ Len(more) = Len(ids) + 1
      /\ more[Len(ids) + 1] = id /\ \A i \in 1..Len(ids) : more[i] = ids[i]
  BY AppendProperties, LenProperties DEF Dispatched
<1> HIDE DEF more
<1>2. Dispatched(more, acts)
  <2>1. ASSUME NEW i \in 1..Len(more) PROVE more[i] \in 1..Len(acts)
    <3>1. i \in 1..Len(ids) \/ i = Len(ids) + 1
      BY <1>1
    <3> QED BY <1>1, <3>1 DEF Dispatched
  <2> QED BY <1>1, <2>1 DEF Dispatched
<1>3. PICK f : Results(f, acts, ids, Len(ids)) /\ ResultOf(acts, ids) = f[Len(ids)]
  BY ResultExists
<1>4. PICK g : Results(g, acts, more, Len(more)) /\ ResultOf(acts, more) = g[Len(more)]
  BY <1>2, ResultExists
<1>5. f[Len(ids)] = g[Len(ids)]
  <2> DEFINE n == Len(more)
             m == Len(ids)
  <2>1. SamePrefix(ids, more, m, n)
    BY <1>1 DEF SamePrefix
  <2>2. Results(f, acts, ids, m) /\ Results(g, acts, more, n)
    BY <1>3, <1>4
  <2> HIDE DEF m, n
  <2>3. f[m] = g[m]
    BY <2>1, <2>2, ResultsPrefix
  <2> QED BY <2>3 DEF m
<1>6. g[Len(more)] = acts[more[Len(more)]][g[Len(more) - 1]]
  <2>1. Len(more) \in 1..Len(more)
    BY <1>1
  <2> QED BY <1>4, <2>1 DEF Results
<1>7. Len(more) - 1 = Len(ids)
  BY <1>1
<1> QED
  BY <1>1, <1>2, <1>3, <1>4, <1>5, <1>6, <1>7 DEF more

(* What was dispatched later does not change a result.                     *)
LEMMA ResultKept ==
    ASSUME NEW acts \in Seq(Actions), NEW a \in Actions, NEW ids, Dispatched(ids, acts)
    PROVE  /\ Dispatched(ids, Append(acts, a))
           /\ ResultOf(Append(acts, a), ids) = ResultOf(acts, ids)
<1> DEFINE more == Append(acts, a)
<1>1. /\ more \in Seq(Actions) /\ Len(acts) \in Nat /\ Len(more) = Len(acts) + 1
      /\ \A i \in 1..Len(acts) : more[i] = acts[i]
  BY AppendProperties, LenProperties
<1> HIDE DEF more
<1>2. Dispatched(ids, more)
  BY <1>1 DEF Dispatched
<1>3. PICK f : Results(f, acts, ids, Len(ids)) /\ ResultOf(acts, ids) = f[Len(ids)]
  BY ResultExists
<1>4. PICK g : Results(g, more, ids, Len(ids)) /\ ResultOf(more, ids) = g[Len(ids)]
  BY <1>1, <1>2, ResultExists
<1>5. f[Len(ids)] = g[Len(ids)]
  <2> DEFINE n == Len(ids)
  <2>1. SameActions(acts, more, ids, n)
    BY <1>1, LenProperties DEF Dispatched, SameActions
  <2>2. Results(f, acts, ids, n) /\ Results(g, more, ids, n)
    BY <1>3, <1>4
  <2> HIDE DEF n
  <2>3. f[n] = g[n]
    BY <2>1, <2>2, ResultsAgree
  <2> QED BY <2>3 DEF n
<1> QED
  BY <1>2, <1>3, <1>4, <1>5 DEF more

-----------------------------------------------------------------------------
(* What a render makes of a state.                                         *)

Right(x, acts) == Increasing(x.applied) => x.value = ResultOf(acts, x.applied)

(* The updates of a list that were computed eagerly were computed on the   *)
(* state s, if it is older, and what is older than they are and still      *)
(* waits led to s when it was dispatched.                                  *)
EagerOn(s, us, acts) ==
    \A u \in us :
        u.eager # << >> /\ (\A id \in Range(s.applied) : id < u.id) =>
            /\ u.eager = <<acts[u.id][s.value]>>
            /\ \A v \in us : v.id < u.id => v.eager = <<s.value>>

SufficientIds(list, n) == {list[i].id : i \in {j \in 1..n : Sufficient(list[j])}}

LEMMA IncreasingAppend ==
    ASSUME NEW q \in Seq(Ids), NEW id \in Ids, Increasing(Append(q, id))
    PROVE  Increasing(q) /\ \A x \in Range(q) : x < id
<1> DEFINE more == Append(q, id)
<1>1. /\ Len(q) \in Nat /\ DOMAIN q = 1..Len(q) /\ DOMAIN more = 1..(Len(q) + 1)
      /\ more[Len(q) + 1] = id /\ \A i \in 1..Len(q) : more[i] = q[i]
  BY AppendProperties, LenProperties
<1>2. \A i, j \in 1..(Len(q) + 1) : i < j => more[i] < more[j]
  BY <1>1 DEF Increasing
<1> HIDE DEF more
<1>3. Increasing(q)
  BY <1>1, <1>2 DEF Increasing
<1>4. ASSUME NEW i \in 1..Len(q) PROVE q[i] < id
  <2>1. i \in 1..(Len(q) + 1) /\ Len(q) + 1 \in 1..(Len(q) + 1) /\ i < Len(q) + 1
    BY <1>1
  <2>2. more[i] < more[Len(q) + 1]
    BY <1>2, <2>1
  <2> QED BY <1>1, <2>2
<1> QED
  BY <1>1, <1>3, <1>4 DEF Range

LEMMA AfterApplied ==
    ASSUME NEW s \in StateSet, NEW list \in Seq(UpdateSet), ActionsOK, Known(list, actions),
           NEW n \in 0..Len(list)
    PROVE  /\ StateAfter(s, list, n) \in StateSet
           /\ Range(StateAfter(s, list, n).applied) = Range(s.applied) \cup SufficientIds(list, n)
<1>1. PICK f \in [0..n -> StateSet] :
              /\ f[0] = s
              /\ \A i \in 1..n : f[i] = IF Sufficient(list[i]) THEN Process(f[i - 1], list[i])
                                        ELSE f[i - 1]
              /\ StateAfter(s, list, n) = f[n]
  BY StatesAfter
<1>2. Len(list) \in Nat /\ n \in Nat /\ \A i \in 1..n : list[i] \in UpdateSet
                                           /\ list[i].id \in 1..Len(actions)
  BY LenProperties DEF Known
<1> DEFINE P == {i \in 0..n : Range(f[i].applied) = Range(s.applied) \cup SufficientIds(list, i)}
<1>3. 0 \in P
  <2>1. SufficientIds(list, 0) = {}
    BY DEF SufficientIds
  <2> QED BY <1>1, <1>2, <2>1
<1>4. ASSUME NEW i \in 1..n, i - 1 \in P PROVE i \in P
  <2>1. Range(f[i - 1].applied) = Range(s.applied) \cup SufficientIds(list, i - 1)
    BY <1>4
  <2>2. f[i - 1] \in StateSet /\ f[i - 1].applied \in Seq(Ids) /\ list[i] \in UpdateSet
        /\ i \in 0..n /\ list[i].id \in Ids
    <3>1. f[i - 1] \in StateSet /\ i \in 0..n /\ list[i] \in UpdateSet
      BY <1>2
    <3> QED BY <3>1, UpdateFields DEF StateSet
  <2>3. 1..i = 1..(i - 1) \cup {i}
    BY <1>2
  <2>4. CASE Sufficient(list[i])
    <3>1. SufficientIds(list, i) = SufficientIds(list, i - 1) \cup {list[i].id}
      BY <2>3, <2>4 DEF SufficientIds
    <3>2. f[i].applied = Append(f[i - 1].applied, list[i].id)
      <4>1. f[i] = Process(f[i - 1], list[i])
        BY <1>1, <2>4
      <4>2. Process(f[i - 1], list[i]).applied = Append(f[i - 1].applied, list[i].id)
        BY DEF Process
      <4> QED BY <4>1, <4>2
    <3>3. Range(f[i].applied) = Range(f[i - 1].applied) \cup {list[i].id}
      BY <2>2, <3>2, RangeAppend
    <3> QED BY <2>1, <2>2, <3>1, <3>3
  <2>5. CASE ~Sufficient(list[i])
    <3>1. SufficientIds(list, i) = SufficientIds(list, i - 1)
      BY <2>3, <2>5 DEF SufficientIds
    <3>2. f[i] = f[i - 1]
      BY <1>1, <2>5
    <3> QED BY <2>1, <2>2, <3>1, <3>2
  <2> QED BY <2>4, <2>5
<1> HIDE DEF P
<1>5. n \in P
  <2>1. \A i \in 0..n : i \in P
    BY <1>2, <1>3, <1>4, IntervalInduction
  <2> QED BY <2>1, <1>2
<1> QED
  BY <1>1, <1>2, <1>5 DEF P

(* Updates that led to the same state before do so again.                  *)
LEMMA AfterSame ==
    ASSUME NEW s \in StateSet, NEW list \in Seq(UpdateSet), ActionsOK, Known(list, actions),
           NEW n \in 0..Len(list),
           \A i \in 1..n : Sufficient(list[i]) => list[i].eager = <<s.value>>
    PROVE  StateAfter(s, list, n).value = s.value
<1>1. PICK f \in [0..n -> StateSet] :
              /\ f[0] = s
              /\ \A i \in 1..n : f[i] = IF Sufficient(list[i]) THEN Process(f[i - 1], list[i])
                                        ELSE f[i - 1]
              /\ StateAfter(s, list, n) = f[n]
  BY StatesAfter
<1>2. Len(list) \in Nat /\ n \in Nat /\ \A i \in 1..n : list[i] \in UpdateSet
                                           /\ list[i].id \in 1..Len(actions)
  BY LenProperties DEF Known
<1> DEFINE P == {i \in 0..n : f[i].value = s.value}
<1>3. 0 \in P
  BY <1>1, <1>2
<1>4. ASSUME NEW i \in 1..n, i - 1 \in P PROVE i \in P
  <2>1. f[i - 1] \in StateSet /\ list[i] \in UpdateSet /\ i \in 0..n /\ s.value \in State
    BY <1>2 DEF StateSet
  <2>2. CASE Sufficient(list[i])
    <3>1. f[i].value = s.value
      <4>1. f[i] = Process(f[i - 1], list[i]) /\ list[i].eager = <<s.value>>
        BY <1>1, <2>2
      <4>2. Process(f[i - 1], list[i]).value = s.value
        BY <1>2, <2>1, <4>1, EagerValue
      <4> QED BY <4>1, <4>2
    <3> QED BY <2>1, <3>1
  <2>3. CASE ~Sufficient(list[i])
    BY <1>1, <1>4, <2>1, <2>3
  <2> QED BY <2>2, <2>3
<1> HIDE DEF P
<1>5. n \in P
  <2>1. \A i \in 0..n : i \in P
    BY <1>2, <1>3, <1>4, IntervalInduction
  <2> QED BY <2>1, <1>2
<1> QED
  BY <1>1, <1>5 DEF P

LEMMA AfterRight ==
    ASSUME NEW s \in StateSet, NEW list \in Seq(UpdateSet), ActionsOK, Known(list, actions),
           NEW n \in 0..Len(list), Dispatched(s.applied, actions),
           Right(s, actions), EagerOn(s, Range(list), actions)
    PROVE  /\ Dispatched(StateAfter(s, list, n).applied, actions)
           /\ Right(StateAfter(s, list, n), actions)
<1>1. Len(list) \in Nat /\ n \in Nat /\ \A i \in 1..n : list[i] \in UpdateSet
                              /\ list[i] \in Range(list) /\ list[i].id \in 1..Len(actions)
  BY LenProperties DEF Known, Range
<1>2. PICK f \in [0..n -> StateSet] :
              /\ f[0] = s
              /\ \A i \in 1..n : f[i] = IF Sufficient(list[i]) THEN Process(f[i - 1], list[i])
                                        ELSE f[i - 1]
              /\ StateAfter(s, list, n) = f[n]
  BY StatesAfter
<1> DEFINE Same(i) == \A j \in 1..i : Sufficient(list[j]) => list[j].eager = <<s.value>>
           P == {i \in 0..n : /\ Range(f[i].applied) = Range(s.applied) \cup SufficientIds(list, i)
                              /\ Same(i) => f[i].value = s.value
                              /\ Dispatched(f[i].applied, actions) /\ Right(f[i], actions)}
<1>3. 0 \in P
  <2>1. SufficientIds(list, 0) = {}
    BY DEF SufficientIds
  <2> QED BY <1>1, <1>2, <2>1
<1>4. ASSUME NEW i \in 1..n, i - 1 \in P PROVE i \in P
  <2>1. /\ f[i - 1] \in StateSet /\ f[i - 1].applied \in Seq(Ids) /\ list[i] \in UpdateSet
        /\ f[i - 1].value \in State /\ s.value \in State
        /\ i \in 0..n /\ list[i].id \in Ids /\ list[i].id \in 1..Len(actions)
    <3>1. f[i - 1] \in StateSet /\ i \in 0..n /\ list[i] \in UpdateSet
      BY <1>1
    <3> QED BY <1>1, <3>1, UpdateFields DEF StateSet
  <2>2. /\ Range(f[i - 1].applied) = Range(s.applied) \cup SufficientIds(list, i - 1)
        /\ Same(i - 1) => f[i - 1].value = s.value
        /\ Dispatched(f[i - 1].applied, actions) /\ Right(f[i - 1], actions)
    BY <1>4
  <2>3. 1..i = 1..(i - 1) \cup {i}
    BY <1>1
  <2>4. Same(i) => Same(i - 1) /\ (Sufficient(list[i]) => list[i].eager = <<s.value>>)
    BY <2>3
  <2>5. CASE Sufficient(list[i])
    <3> DEFINE u == list[i]
               a == f[i - 1].applied
    <3>1. SufficientIds(list, i) = SufficientIds(list, i - 1) \cup {u.id}
      BY <2>3, <2>5 DEF SufficientIds
    <3>2. f[i] = Process(f[i - 1], u)
      BY <1>2, <2>5
    <3>3. /\ f[i].applied = Append(a, u.id)
          /\ u.eager = << >> => f[i].value = actions[u.id][f[i - 1].value]
          /\ \A v \in State : u.eager = <<v>> => f[i].value = v
      <4>1. Process(f[i - 1], u).applied = Append(a, u.id)
        BY DEF Process
      <4>2. u.eager = << >> => Process(f[i - 1], u).value = actions[u.id][f[i - 1].value]
        BY DEF Process
      <4>3. \A v \in State : u.eager = <<v>> => Process(f[i - 1], u).value = v
        BY EagerValue
      <4> HIDE DEF u, a
      <4> QED BY <3>2, <4>1, <4>2, <4>3
    <3>4. Range(f[i].applied) = Range(a) \cup {u.id}
      BY <2>1, <3>3, RangeAppend
    <3>5. /\ Dispatched(f[i].applied, actions)
          /\ ResultOf(actions, f[i].applied) = actions[u.id][ResultOf(actions, a)]
      BY <2>1, <2>2, <3>3, ResultAppend DEF ActionsOK
    <3>6. Same(i) => f[i].value = s.value
      BY <2>1, <2>4, <2>5, <3>3
    <3>7. ASSUME Increasing(f[i].applied) PROVE f[i].value = ResultOf(actions, f[i].applied)
      <4>1. Increasing(a) /\ \A x \in Range(a) : x < u.id
        BY <2>1, <3>3, <3>7, IncreasingAppend
      <4>2. f[i - 1].value = ResultOf(actions, a)
        BY <2>2, <4>1 DEF Right
      <4>3. CASE u.eager = << >>
        BY <3>3, <3>5, <4>2, <4>3
      <4>4. CASE u.eager # << >>
        <5>1. \A id \in Range(s.applied) : id < u.id
          BY <2>2, <4>1
        <5>2. /\ u.eager = <<actions[u.id][s.value]>>
              /\ \A v \in Range(list) : v.id < u.id => v.eager = <<s.value>>
          <6>1. u \in Range(list)
            BY <1>1
          <6> HIDE DEF u
          <6> QED BY <4>4, <5>1, <6>1 DEF EagerOn
        <5>3. Same(i - 1)
          <6> SUFFICES ASSUME NEW j \in 1..(i - 1), Sufficient(list[j])
                       PROVE  list[j].eager = <<s.value>>
            OBVIOUS
          <6>1. list[j].id \in SufficientIds(list, i - 1)
            BY DEF SufficientIds
          <6>2. list[j] \in Range(list)
            BY <1>1
          <6> QED BY <2>2, <4>1, <5>2, <6>1, <6>2
        <5>4. actions[u.id][s.value] \in State
          BY <2>1, ActionType DEF ActionsOK
        <5>5. f[i].value = actions[u.id][s.value] /\ f[i - 1].value = s.value
          BY <2>2, <3>3, <5>2, <5>3, <5>4
        <5> QED BY <3>5, <4>2, <5>5
      <4> QED BY <4>3, <4>4
    <3> HIDE DEF u, a
    <3> QED BY <2>1, <2>2, <3>1, <3>4, <3>5, <3>6, <3>7 DEF Right, a
  <2>6. CASE ~Sufficient(list[i])
    <3>1. SufficientIds(list, i) = SufficientIds(list, i - 1)
      BY <2>3, <2>6 DEF SufficientIds
    <3>2. f[i] = f[i - 1]
      BY <1>2, <2>6
    <3> QED BY <2>1, <2>2, <2>4, <3>1, <3>2
  <2> QED BY <2>5, <2>6
<1> HIDE DEF P
<1>5. n \in P
  <2>1. \A i \in 0..n : i \in P
    BY <1>1, <1>3, <1>4, IntervalInduction
  <2> QED BY <2>1, <1>1
<1> QED
  BY <1>1, <1>2, <1>5 DEF P

-----------------------------------------------------------------------------
(* What a render leaves in the queue.                                      *)

LEMMA NoLaneIsNone == NoLane \notin Lane
  BY LaneAssumption DEF NoLane

LEMMA FirstSkippedIs ==
    ASSUME NEW list \in Seq(UpdateSet)
    PROVE  /\ FirstSkipped(list) \in 1..(Len(list) + 1)
           /\ \A i \in 1..(FirstSkipped(list) - 1) : Sufficient(list[i])
           /\ FirstSkipped(list) # Len(list) + 1 =>
                 FirstSkipped(list) \in 1..Len(list) /\ ~Sufficient(list[FirstSkipped(list)])
<1> DEFINE skipped == {i \in DOMAIN list : ~Sufficient(list[i])}
           first == CHOOSE i \in skipped : \A j \in skipped : i <= j
<1>1. Len(list) \in Nat /\ DOMAIN list = 1..Len(list)
  BY LenProperties
<1>2. FirstSkipped(list) = IF skipped = {} THEN Len(list) + 1 ELSE first
  BY DEF FirstSkipped
<1>3. CASE skipped = {}
  <2>1. \A i \in 1..Len(list) : Sufficient(list[i])
    BY <1>1, <1>3
  <2>2. FirstSkipped(list) = Len(list) + 1
    BY <1>2, <1>3
  <2> QED BY <1>1, <2>1, <2>2
<1>4. CASE skipped # {}
  <2>1. \E i \in skipped : \A j \in skipped : i <= j
    <3>1. skipped \subseteq Nat
      BY <1>1
    <3> HIDE DEF skipped
    <3> QED BY <1>4, <3>1, LeastNatural
  <2>2. first \in skipped /\ \A j \in skipped : first <= j
    <3> HIDE DEF skipped
    <3> QED BY <2>1
  <2> HIDE DEF first
  <2>3. first \in 1..Len(list) /\ ~Sufficient(list[first])
    BY <1>1, <2>2
  <2>4. \A i \in 1..(first - 1) : Sufficient(list[i])
    BY <1>1, <2>2, <2>3
  <2>5. FirstSkipped(list) = first
    BY <1>2, <1>4
  <2> QED BY <1>1, <2>3, <2>4, <2>5
<1> QED
  BY <1>3, <1>4

(* What becomes of an update: only its lane may be taken away.             *)
Rebases(v, u) == v.id = u.id /\ v.eager = u.eager
                 /\ (v.lane = NoLane \/ (v = u /\ ~Sufficient(u)))

LEMMA RebasedIs ==
    ASSUME NEW list \in Seq(UpdateSet)
    PROVE  /\ Rebased(list) \in Seq(UpdateSet)
           /\ \A v \in Range(Rebased(list)) :
                 \E i \in FirstSkipped(list)..Len(list) : Rebases(v, list[i])
           /\ \A i \in FirstSkipped(list)..Len(list) :
                 \E v \in Range(Rebased(list)) : Rebases(v, list[i])
           /\ Rebased(list) = << >> <=> FirstSkipped(list) = Len(list) + 1
           /\ Rebased(list) # << >> => Rebased(list)[1] = list[FirstSkipped(list)]
<1> DEFINE k == FirstSkipped(list)
           rest == SubSeq(list, k, Len(list))
           of(u) == IF Sufficient(u) THEN [u EXCEPT !.lane = NoLane] ELSE u
           b == [i \in DOMAIN rest |-> of(rest[i])]
<1>1. /\ Len(list) \in Nat /\ k \in 1..(Len(list) + 1)
      /\ \A i \in 1..Len(list) : list[i] \in UpdateSet
  BY FirstSkippedIs, LenProperties
<1>2. k # Len(list) + 1 => k \in 1..Len(list) /\ ~Sufficient(list[k])
  BY FirstSkippedIs
<1>3. Rebased(list) = b
  BY DEF Rebased
<1> HIDE DEF k
<1>4. rest \in Seq(UpdateSet) /\ Len(rest) = Len(list) - k + 1
      /\ \A i \in 1..Len(rest) : rest[i] = list[k + i - 1]
  BY <1>1, SubSeqProperties
<1>5. DOMAIN rest = 1..Len(rest) /\ Len(rest) \in Nat
  BY <1>4, LenProperties
<1>6. \A u \in UpdateSet : of(u) \in UpdateSet /\ Rebases(of(u), u)
                           /\ (~Sufficient(u) => of(u) = u)
  BY DEF UpdateSet, Rebases
<1> HIDE DEF rest, of
<1>7. \A i \in 1..Len(rest) : k + i - 1 \in k..Len(list) /\ k + i - 1 \in 1..Len(list)
  BY <1>1, <1>4
<1>8. b \in [1..Len(rest) -> UpdateSet]
  BY <1>1, <1>4, <1>5, <1>6, <1>7
<1>9. b \in Seq(UpdateSet) /\ Len(b) = Len(rest)
  BY <1>5, <1>8, LenProperties
<1>10. \A i \in 1..Len(rest) : b[i] = of(list[k + i - 1])
  BY <1>4, <1>5
<1>11. DOMAIN b = 1..Len(rest)
  BY <1>5
<1> HIDE DEF b
<1>12. ASSUME NEW v \in Range(b) PROVE \E i \in k..Len(list) : Rebases(v, list[i])
  <2>1. PICK i \in 1..Len(rest) : v = of(list[k + i - 1])
    BY <1>10, <1>11 DEF Range
  <2>2. Rebases(v, list[k + i - 1])
    BY <1>1, <1>6, <1>7, <2>1
  <2> QED BY <1>7, <2>2
<1>13. ASSUME NEW i \in k..Len(list) PROVE \E v \in Range(b) : Rebases(v, list[i])
  <2>1. i - k + 1 \in 1..Len(rest) /\ k + (i - k + 1) - 1 = i /\ i \in 1..Len(list)
    BY <1>1, <1>4
  <2>2. b[i - k + 1] = of(list[i]) /\ b[i - k + 1] \in Range(b)
    BY <1>10, <1>11, <2>1 DEF Range
  <2> QED BY <1>1, <1>6, <2>1, <2>2
<1>14. b = << >> <=> k = Len(list) + 1
  <2>1. b = << >> <=> Len(b) = 0
    BY <1>9, EmptySeq
  <2> QED BY <1>1, <1>4, <1>9, <2>1
<1>15. ASSUME b # << >> PROVE b[1] = list[k]
  <2>1. 1 \in 1..Len(rest) /\ k + 1 - 1 = k /\ k # Len(list) + 1
    BY <1>1, <1>4, <1>5, <1>9, <1>14, <1>15
  <2> QED BY <1>1, <1>2, <1>6, <1>10, <2>1
<1> QED
  BY <1>3, <1>9, <1>12, <1>13, <1>14, <1>15 DEF k

LEMMA LanesOfIs ==
    ASSUME NEW list \in Seq(UpdateSet)
    PROVE  /\ LanesOf(list) \subseteq Lane
           /\ \A u \in Range(list) : u.lane \in Lane => u.lane \in LanesOf(list)
           /\ SkippedLanes(list) \subseteq Lane
           /\ \A i \in 1..Len(list) : ~Sufficient(list[i]) => list[i].lane \in SkippedLanes(list)
<1>1. DOMAIN list = 1..Len(list) /\ \A i \in 1..Len(list) : list[i] \in UpdateSet
  BY LenProperties
<1>2. \A i \in 1..Len(list) : list[i].lane \in Lane \cup {NoLane}
  BY <1>1, UpdateFields
<1>3. \A u \in Range(list) : \E i \in 1..Len(list) : u = list[i]
  BY <1>1 DEF Range
<1>4. \A u \in Range(list) : u.lane \in Lane => u.lane \in LanesOf(list)
  BY <1>1, <1>3, NoLaneIsNone DEF LanesOf
<1>5. LanesOf(list) \subseteq Lane
  BY <1>1, <1>2 DEF LanesOf
<1>6. SkippedLanes(list) \subseteq Lane
  BY <1>1, <1>2 DEF SkippedLanes, Sufficient
<1>7. \A i \in 1..Len(list) : ~Sufficient(list[i]) => list[i].lane \in SkippedLanes(list)
  BY <1>1 DEF SkippedLanes
<1> QED
  BY <1>4, <1>5, <1>6, <1>7

-----------------------------------------------------------------------------
(* The inductive invariant.                                                *)

(* The render has got to the component.                                    *)
Visited == render.phase \in {"visited", "done", "suspended"}

(* The updates that a fiber will find in its queue.                        *)
Queued(f, q) == Range(f.baseQueue) \cup Range(q.pending) \cup Range(q.interleaved)

(* An update that waits has its lane in the fiber, or goes with one that   *)
(* does; or it was not scheduled, because it led to the state it found.    *)
LaneInv(f, q) ==
    \A u \in Queued(f, q) :
        \/ u.lane \in f.lanes
        \/ f.baseQueue # << >> /\ f.baseQueue[1].lane \in f.lanes
        \/ u.lane # NoLane /\ u.eager = <<f.baseState.value>>

EagerInv(f, q, acts) == EagerOn(f.baseState, Queued(f, q), acts)

(* Without work there is one state, and setState knows it.                 *)
BaseInv(f, q) ==
    f.lanes = NoLanes \/ f.baseQueue = << >> =>
        f.baseState.value = q.lastRenderedState /\ f.memoizedState.value = f.baseState.value

(* No update is lost.                                                      *)
CoverInv(f, q, acts) ==
    Range(f.baseState.applied) \cup {u.id : u \in Queued(f, q)} = 1..Len(acts)

FiberInv(f, q, acts) ==
    LaneInv(f, q) /\ EagerInv(f, q, acts) /\ BaseInv(f, q) /\ CoverInv(f, q, acts)

FiberRight(f, acts) == Right(f.baseState, acts) /\ Right(f.memoizedState, acts)

FiberKnown(f, acts) ==
    /\ Dispatched(f.baseState.applied, acts) /\ Dispatched(f.memoizedState.applied, acts)
    /\ Known(f.baseQueue, acts)

QueueKnown(q, acts) ==
    /\ Known(q.pending, acts) /\ Known(q.interleaved, acts)
    /\ \A u \in Range(q.pending) \cup Range(q.interleaved) : u.lane \in Lane

KnownInv ==
    /\ FiberKnown(current, actions) /\ FiberKnown(alternate, actions)
    /\ QueueKnown(queue, actions) /\ Len(actions) <= MaxUpdates

(* Until a render that has taken lanes of waiting updates off the current  *)
(* fiber is committed, only its work in progress is right.                 *)
ValueInv ==
    ~forgotten =>
        /\ FiberRight(current, actions) /\ FiberRight(alternate, actions)
        /\ ~render.forgets => FiberInv(current, queue, actions)
        /\ Visited => FiberInv(alternate, queue, actions)

WorkInv ==
    /\ current.lanes \subseteq root.pendingLanes
    /\ render.forgets => Visited

Inv == TypeOK /\ KnownInv /\ WorkInv /\ ValueInv

-----------------------------------------------------------------------------
(* The component is rendered.                                              *)

List == current.baseQueue \o queue.pending

LEMMA ConcatIs ==
    ASSUME NEW S, NEW b \in Seq(S), NEW p \in Seq(S)
    PROVE  /\ b \o p \in Seq(S) /\ Range(b \o p) = Range(b) \cup Range(p)
           /\ b \o p = << >> => b = << >> /\ p = << >>
           /\ b # << >> => b \o p # << >> /\ (b \o p)[1] = b[1]
           /\ b \o p # << >> => (b \o p)[1] \in Range(b \o p) /\ 1 \in 1..Len(b \o p)
<1> DEFINE l == b \o p
<1>1. l \in Seq(S) /\ Len(l) = Len(b) + Len(p) /\ \A i \in 1..Len(b) : l[i] = b[i]
  BY ConcatProperties
<1>2. Range(l) = Range(b) \cup Range(p)
  BY RangeConcatenation
<1> HIDE DEF l
<1>3. Len(b) \in Nat /\ Len(p) \in Nat /\ Len(l) \in Nat /\ DOMAIN l = 1..Len(l)
  BY <1>1, LenProperties
<1>4. (b = << >> <=> Len(b) = 0) /\ (p = << >> <=> Len(p) = 0) /\ (l = << >> <=> Len(l) = 0)
  BY <1>1, EmptySeq
<1>5. (l # << >> => 1 \in 1..Len(l)) /\ (b # << >> => 1 \in 1..Len(b) /\ l # << >>)
      /\ (l = << >> => b = << >> /\ p = << >>)
  BY <1>1, <1>3, <1>4
<1>6. l # << >> => l[1] \in Range(l)
  BY <1>3, <1>5 DEF Range
<1> QED
  BY <1>1, <1>2, <1>5, <1>6 DEF l

LEMMA KnownUpdates ==
    ASSUME NEW list \in Seq(UpdateSet), NEW acts
    PROVE  Known(list, acts) <=> \A u \in Range(list) : u.id \in 1..Len(acts)
<1>1. Range(list) = {list[i] : i \in 1..Len(list)}
  BY LenProperties DEF Range
<1> QED
  BY <1>1 DEF Known

LEMMA DispatchedIds ==
    ASSUME NEW ids \in Seq(Ids), NEW acts
    PROVE  Dispatched(ids, acts) <=> Range(ids) \subseteq 1..Len(acts)
<1>1. Range(ids) = {ids[i] : i \in 1..Len(ids)}
  BY LenProperties DEF Range
<1> QED
  BY <1>1 DEF Dispatched

LEMMA ListIs ==
    ASSUME TypeOK, KnownInv
    PROVE  /\ List \in Seq(UpdateSet) /\ Known(List, actions) /\ ActionsOK
           /\ Range(List) = Range(current.baseQueue) \cup Range(queue.pending)
           /\ Queued(current, queue) = Range(List) \cup Range(queue.interleaved)
           /\ List = << >> => current.baseQueue = << >>
           /\ current.baseQueue # << >> => List # << >> /\ List[1] = current.baseQueue[1]
           /\ List # << >> => List[1] \in Range(List) /\ 1 \in 1..Len(List)
<1>1. /\ current.baseQueue \in Seq(UpdateSet) /\ queue.pending \in Seq(UpdateSet)
      /\ ActionsOK
  BY DEF TypeOK, FiberSet, QueueSet, ActionsOK
<1>2. List \in Seq(UpdateSet)
  BY <1>1, ConcatIs DEF List
<1>3. /\ Range(List) = Range(current.baseQueue) \cup Range(queue.pending)
      /\ List = << >> => current.baseQueue = << >>
      /\ current.baseQueue # << >> => List # << >> /\ List[1] = current.baseQueue[1]
      /\ List # << >> => List[1] \in Range(List) /\ 1 \in 1..Len(List)
  <2> DEFINE b == current.baseQueue
             p == queue.pending
  <2>1. b \in Seq(UpdateSet) /\ p \in Seq(UpdateSet) /\ List = b \o p
    BY <1>1 DEF List
  <2> HIDE DEF b, p
  <2>2. /\ Range(b \o p) = Range(b) \cup Range(p)
        /\ b \o p = << >> => b = << >> /\ p = << >>
        /\ b # << >> => b \o p # << >> /\ (b \o p)[1] = b[1]
        /\ b \o p # << >> => (b \o p)[1] \in Range(b \o p) /\ 1 \in 1..Len(b \o p)
    BY <2>1, ConcatIs
  <2> QED BY <2>1, <2>2 DEF b, p
<1>4. Known(current.baseQueue, actions) /\ Known(queue.pending, actions)
  BY DEF KnownInv, FiberKnown, QueueKnown
<1>5. \A u \in Range(List) : u.id \in 1..Len(actions)
  BY <1>1, <1>3, <1>4, KnownUpdates
<1>6. Known(List, actions)
  BY <1>2, <1>5, KnownUpdates
<1> QED
  BY <1>1, <1>2, <1>3, <1>6 DEF Queued

(* The fiber that is rendered, and the queue without what was pending.     *)
Rendered == UpdateReducer(List)

Transferred(q) ==
    /\ q \in QueueSet /\ q.pending = << >> /\ q.interleaved = queue.interleaved
    /\ q.lastRenderedState = IF List = << >> THEN queue.lastRenderedState
                             ELSE Rendered.memoizedState.value

LEMMA RenderedFields ==
    /\ Rendered.lanes = SkippedLanes(List) \cup LanesOf(queue.interleaved)
    /\ List = << >> => Rendered.memoizedState = current.memoizedState
    /\ List # << >> => Rendered.memoizedState = StateAfter(current.baseState, List, Len(List))
    /\ Rendered.baseState = StateAfter(current.baseState, List, FirstSkipped(List) - 1)
    /\ Rendered.baseQueue = Rebased(List)
  BY DEF Rendered, UpdateReducer

LEMMA SufficientAreKnown ==
    ASSUME TypeOK, KnownInv, NEW n \in 0..Len(List)
    PROVE  /\ StateAfter(current.baseState, List, n) \in StateSet
           /\ Dispatched(StateAfter(current.baseState, List, n).applied, actions)
           /\ Range(StateAfter(current.baseState, List, n).applied) =
                 Range(current.baseState.applied) \cup SufficientIds(List, n)
<1>1. current.baseState \in StateSet /\ current.baseState.applied \in Seq(Ids)
  BY DEF TypeOK, FiberSet, StateSet
<1>2. List \in Seq(UpdateSet) /\ Known(List, actions) /\ ActionsOK
  BY ListIs
<1> DEFINE r == StateAfter(current.baseState, List, n)
<1>3. /\ r \in StateSet
      /\ Range(r.applied) = Range(current.baseState.applied) \cup SufficientIds(List, n)
  BY <1>1, <1>2, AfterApplied
<1>4. Range(current.baseState.applied) \subseteq 1..Len(actions)
  BY <1>1, DispatchedIds DEF KnownInv, FiberKnown
<1>5. SufficientIds(List, n) \subseteq 1..Len(actions)
  <2>1. Len(List) \in Nat
    BY <1>2, LenProperties
  <2> QED BY <1>2, <2>1 DEF SufficientIds, Known
<1> HIDE DEF r
<1>6. r.applied \in Seq(Ids)
  BY <1>3 DEF StateSet
<1>7. Dispatched(r.applied, actions)
  BY <1>3, <1>4, <1>5, <1>6, DispatchedIds
<1> QED
  BY <1>3, <1>7 DEF r

LEMMA RenderedType ==
    ASSUME TypeOK, KnownInv
    PROVE  Rendered \in FiberSet /\ FiberKnown(Rendered, actions)
<1>1. /\ List \in Seq(UpdateSet) /\ Known(List, actions)
      /\ FirstSkipped(List) - 1 \in 0..Len(List) /\ Len(List) \in 0..Len(List)
      /\ FirstSkipped(List) \in 1..(Len(List) + 1) /\ Len(List) \in Nat
  <2>1. List \in Seq(UpdateSet) /\ Known(List, actions)
    BY ListIs
  <2>2. FirstSkipped(List) \in 1..(Len(List) + 1) /\ Len(List) \in Nat
    BY <2>1, FirstSkippedIs, LenProperties
  <2> QED BY <2>1, <2>2
<1>2. /\ Rendered.baseState \in StateSet
      /\ Dispatched(Rendered.baseState.applied, actions)
  BY <1>1, SufficientAreKnown, RenderedFields
<1>3. /\ Rendered.memoizedState \in StateSet
      /\ Dispatched(Rendered.memoizedState.applied, actions)
  <2>1. /\ current.memoizedState \in StateSet
        /\ Dispatched(current.memoizedState.applied, actions)
    BY DEF TypeOK, FiberSet, KnownInv, FiberKnown
  <2>2. /\ StateAfter(current.baseState, List, Len(List)) \in StateSet
        /\ Dispatched(StateAfter(current.baseState, List, Len(List)).applied, actions)
    BY <1>1, SufficientAreKnown
  <2> QED BY <2>1, <2>2, RenderedFields
<1>4. Rendered.baseQueue \in Seq(UpdateSet) /\ Known(Rendered.baseQueue, actions)
  <2>1. /\ Rebased(List) \in Seq(UpdateSet)
        /\ \A v \in Range(Rebased(List)) :
              \E i \in FirstSkipped(List)..Len(List) : Rebases(v, List[i])
    BY <1>1, RebasedIs
  <2>2. ASSUME NEW v \in Range(Rebased(List)) PROVE v.id \in 1..Len(actions)
    <3>1. PICK i \in FirstSkipped(List)..Len(List) : Rebases(v, List[i])
      BY <2>1
    <3>2. i \in 1..Len(List)
      BY <1>1
    <3> QED BY <1>1, <3>1, <3>2 DEF Known, Rebases
  <2>3. Known(Rebased(List), actions)
    BY <2>1, <2>2, KnownUpdates
  <2> QED BY <2>1, <2>3, RenderedFields
<1>5. Rendered.lanes \in SUBSET Lane
  <2>1. queue.interleaved \in Seq(UpdateSet)
    BY DEF TypeOK, QueueSet
  <2>2. SkippedLanes(List) \subseteq Lane /\ LanesOf(queue.interleaved) \subseteq Lane
    BY <1>1, <2>1, LanesOfIs
  <2> QED BY <2>2, RenderedFields
<1>6. Rendered = [lanes |-> Rendered.lanes, memoizedState |-> Rendered.memoizedState,
                  baseState |-> Rendered.baseState, baseQueue |-> Rendered.baseQueue]
  BY DEF Rendered, UpdateReducer
<1>7. Rendered \in FiberSet
  <2> DEFINE r == Rendered
  <2> HIDE DEF r
  <2>1. r.lanes \in SUBSET Lane /\ r.memoizedState \in StateSet /\ r.baseState \in StateSet
        /\ r.baseQueue \in Seq(UpdateSet)
        /\ r = [lanes |-> r.lanes, memoizedState |-> r.memoizedState,
                baseState |-> r.baseState, baseQueue |-> r.baseQueue]
    BY <1>2, <1>3, <1>4, <1>5, <1>6 DEF r
  <2>2. r \in FiberSet
    BY <2>1 DEF FiberSet
  <2> QED BY <2>2 DEF r
<1> QED
  BY <1>2, <1>3, <1>4, <1>7 DEF FiberKnown

(* If all that waits led to the base state, rendering does not change it.  *)
LEMMA RenderedSame ==
    ASSUME TypeOK, KnownInv,
           \A u \in Range(List) : u.eager = <<current.baseState.value>>
    PROVE  List # << >> => Rendered.memoizedState.value = current.baseState.value
<1>1. List \in Seq(UpdateSet) /\ Known(List, actions) /\ ActionsOK
  BY ListIs
<1>2. Len(List) \in Nat /\ \A i \in 1..Len(List) : List[i] \in Range(List)
  BY <1>1, LenProperties DEF Range
<1>3. current.baseState \in StateSet
  BY DEF TypeOK, FiberSet
<1>4. Len(List) \in 0..Len(List)
  BY <1>2
<1>5. StateAfter(current.baseState, List, Len(List)).value = current.baseState.value
  BY <1>1, <1>2, <1>3, <1>4, AfterSame
<1> QED
  BY <1>5, RenderedFields

LEMMA RenderedRight ==
    ASSUME TypeOK, KnownInv, FiberRight(current, actions), FiberInv(current, queue, actions)
    PROVE  FiberRight(Rendered, actions)
<1>1. List \in Seq(UpdateSet) /\ Known(List, actions) /\ ActionsOK
      /\ Range(List) \subseteq Queued(current, queue)
  BY ListIs DEF Queued
<1>2. current.baseState \in StateSet /\ Dispatched(current.baseState.applied, actions)
      /\ Right(current.baseState, actions) /\ Right(current.memoizedState, actions)
  BY DEF TypeOK, FiberSet, KnownInv, FiberKnown, FiberRight
<1>3. EagerOn(current.baseState, Range(List), actions)
  BY <1>1 DEF FiberInv, EagerInv, EagerOn
<1>4. FirstSkipped(List) - 1 \in 0..Len(List) /\ Len(List) \in 0..Len(List)
  <2>1. FirstSkipped(List) \in 1..(Len(List) + 1) /\ Len(List) \in Nat
    BY <1>1, FirstSkippedIs, LenProperties
  <2> QED BY <2>1
<1>5. \A n \in 0..Len(List) : Right(StateAfter(current.baseState, List, n), actions)
  BY <1>1, <1>2, <1>3, AfterRight
<1>6. Right(Rendered.baseState, actions)
  BY <1>4, <1>5, RenderedFields
<1>7. Right(Rendered.memoizedState, actions)
  BY <1>2, <1>4, <1>5, RenderedFields
<1> QED
  BY <1>6, <1>7 DEF FiberRight

LEMMA RenderedQueued ==
    ASSUME TypeOK, KnownInv, NEW q, Transferred(q)
    PROVE  /\ \A v \in Queued(Rendered, q) :
                 \/ \E i \in FirstSkipped(List)..Len(List) : Rebases(v, List[i])
                 \/ v \in Range(queue.interleaved)
           /\ \A v \in Queued(Rendered, q) :
                 \E w \in Queued(current, queue) : w.id = v.id /\ w.eager = v.eager
           /\ \A i \in FirstSkipped(List)..Len(List) :
                 \E v \in Queued(Rendered, q) : v.id = List[i].id
           /\ Range(queue.interleaved) \subseteq Queued(Rendered, q)
           /\ FirstSkipped(List) \in 1..(Len(List) + 1) /\ Len(List) \in Nat
           /\ \A i \in 1..Len(List) : List[i] \in Range(List)
<1>1. List \in Seq(UpdateSet) /\ Queued(current, queue) = Range(List) \cup Range(queue.interleaved)
  BY ListIs
<1>2. FirstSkipped(List) \in 1..(Len(List) + 1) /\ Len(List) \in Nat
      /\ \A i \in 1..Len(List) : List[i] \in Range(List)
  BY <1>1, FirstSkippedIs, LenProperties DEF Range
<1>3. Queued(Rendered, q) = Range(Rebased(List)) \cup Range(queue.interleaved)
  <2>1. q.pending = << >> /\ q.interleaved = queue.interleaved
    BY DEF Transferred
  <2> QED BY <2>1, RangeEmpty, RenderedFields DEF Queued
<1>4. /\ \A v \in Range(Rebased(List)) :
            \E i \in FirstSkipped(List)..Len(List) : Rebases(v, List[i])
      /\ \A i \in FirstSkipped(List)..Len(List) :
            \E v \in Range(Rebased(List)) : Rebases(v, List[i])
  BY <1>1, RebasedIs
<1>5. ASSUME NEW v \in Range(Rebased(List))
      PROVE  \E w \in Queued(current, queue) : w.id = v.id /\ w.eager = v.eager
  <2>1. PICK i \in FirstSkipped(List)..Len(List) : Rebases(v, List[i])
    BY <1>4
  <2>2. i \in 1..Len(List)
    BY <1>2
  <2>3. List[i] \in Queued(current, queue)
    BY <1>1, <1>2, <2>2
  <2> QED BY <2>1, <2>3 DEF Rebases
<1>6. ASSUME NEW i \in FirstSkipped(List)..Len(List)
      PROVE  \E v \in Queued(Rendered, q) : v.id = List[i].id
  BY <1>3, <1>4 DEF Rebases
<1> QED
  BY <1>1, <1>2, <1>3, <1>4, <1>5, <1>6

LEMMA RenderedLaneInv ==
    ASSUME TypeOK, KnownInv, NEW q, Transferred(q)
    PROVE  LaneInv(Rendered, q)
<1>1. List \in Seq(UpdateSet) /\ queue.interleaved \in Seq(UpdateSet)
  BY ListIs DEF TypeOK, QueueSet
<1> SUFFICES ASSUME NEW v \in Queued(Rendered, q)
             PROVE  \/ v.lane \in Rendered.lanes
                    \/ /\ Rendered.baseQueue # << >>
                       /\ Rendered.baseQueue[1].lane \in Rendered.lanes
  BY DEF LaneInv
<1>2. CASE v \in Range(queue.interleaved)
  <2>1. v.lane \in Lane
    BY <1>2 DEF KnownInv, QueueKnown
  <2>2. v.lane \in LanesOf(queue.interleaved)
    BY <1>1, <1>2, <2>1, LanesOfIs
  <2> QED BY <2>2, RenderedFields
<1>3. CASE \E i \in FirstSkipped(List)..Len(List) : Rebases(v, List[i])
  <2> DEFINE k == FirstSkipped(List)
  <2>1. k # Len(List) + 1 /\ Len(List) \in Nat
    BY <1>3, RenderedQueued
  <2>2. k \in 1..Len(List) /\ ~Sufficient(List[k])
    BY <1>1, <2>1, FirstSkippedIs
  <2>3. List[k].lane \in SkippedLanes(List)
    BY <1>1, <2>2, LanesOfIs
  <2>4. Rebased(List) # << >> /\ Rebased(List)[1] = List[k]
    BY <1>1, <2>1, RebasedIs
  <2> QED BY <2>3, <2>4, RenderedFields
<1> QED
  BY <1>2, <1>3, RenderedQueued

LEMMA RenderedCover ==
    ASSUME TypeOK, KnownInv, NEW q, Transferred(q), CoverInv(current, queue, actions)
    PROVE  CoverInv(Rendered, q, actions)
<1> DEFINE k == FirstSkipped(List)
           n == k - 1
<1>1. /\ List \in Seq(UpdateSet) /\ k \in 1..(Len(List) + 1) /\ Len(List) \in Nat
      /\ Queued(current, queue) = Range(List) \cup Range(queue.interleaved)
      /\ \A i \in 1..(k - 1) : Sufficient(List[i])
      /\ \A i \in 1..Len(List) : List[i] \in Range(List)
      /\ \A u \in Range(List) : \E i \in 1..Len(List) : u = List[i]
  <2>1. List \in Seq(UpdateSet)
        /\ Queued(current, queue) = Range(List) \cup Range(queue.interleaved)
    BY ListIs
  <2>2. DOMAIN List = 1..Len(List)
    BY <2>1, LenProperties
  <2> QED BY <2>1, <2>2, FirstSkippedIs, LenProperties DEF Range
<1>2. n \in 0..Len(List)
  BY <1>1
<1>3. Range(Rendered.baseState.applied) =
         Range(current.baseState.applied) \cup SufficientIds(List, n)
  BY <1>2, SufficientAreKnown, RenderedFields
<1>4. SufficientIds(List, n) = {List[i].id : i \in 1..n}
  BY <1>1 DEF SufficientIds
<1>5. /\ \A v \in Queued(Rendered, q) :
            \E w \in Queued(current, queue) : w.id = v.id /\ w.eager = v.eager
      /\ \A i \in k..Len(List) : \E v \in Queued(Rendered, q) : v.id = List[i].id
      /\ Range(queue.interleaved) \subseteq Queued(Rendered, q)
  BY RenderedQueued
<1> HIDE DEF k
<1> DEFINE old == Range(current.baseState.applied) \cup {u.id : u \in Queued(current, queue)}
           new == Range(Rendered.baseState.applied) \cup {u.id : u \in Queued(Rendered, q)}
<1>6. ASSUME NEW x \in old PROVE x \in new
  <2>1. CASE x \in Range(current.baseState.applied)
    BY <1>3, <2>1
  <2>2. CASE \E u \in Range(List) : x = u.id
    <3>1. PICK i \in 1..Len(List) : x = List[i].id
      BY <1>1, <2>2
    <3>2. CASE i \in 1..n
      BY <1>3, <1>4, <3>1, <3>2
    <3>3. CASE i \in k..Len(List)
      BY <1>5, <3>1, <3>3
    <3> QED BY <1>1, <3>2, <3>3
  <2>3. CASE \E u \in Range(queue.interleaved) : x = u.id
    BY <1>5, <2>3
  <2> QED BY <1>1, <2>1, <2>2, <2>3
<1>7. ASSUME NEW x \in new PROVE x \in old
  <2>1. CASE x \in Range(current.baseState.applied)
    BY <2>1
  <2>2. CASE x \in SufficientIds(List, n)
    <3>1. PICK i \in 1..n : x = List[i].id
      BY <1>4, <2>2
    <3>2. List[i] \in Queued(current, queue)
      BY <1>1, <1>2
    <3> QED BY <3>1, <3>2
  <2>3. CASE \E v \in Queued(Rendered, q) : x = v.id
    BY <1>5, <2>3
  <2> QED BY <1>3, <2>1, <2>2, <2>3
<1>8. new = old
  BY <1>6, <1>7
<1> QED
  BY <1>8 DEF CoverInv

LEMMA RenderedEager ==
    ASSUME TypeOK, KnownInv, NEW q, Transferred(q), EagerInv(current, queue, actions)
    PROVE  EagerInv(Rendered, q, actions)
<1> SUFFICES ASSUME NEW u \in Queued(Rendered, q), u.eager # << >>,
                    \A id \in Range(Rendered.baseState.applied) : id < u.id
             PROVE  /\ u.eager = <<actions[u.id][Rendered.baseState.value]>>
                    /\ \A v \in Queued(Rendered, q) :
                          v.id < u.id => v.eager = <<Rendered.baseState.value>>
  BY DEF EagerInv, EagerOn
<1> DEFINE k == FirstSkipped(List)
           n == k - 1
           s == current.baseState
<1>1. /\ List \in Seq(UpdateSet) /\ Known(List, actions) /\ ActionsOK
      /\ k \in 1..(Len(List) + 1) /\ Len(List) \in Nat /\ n \in 0..Len(List)
      /\ Queued(current, queue) = Range(List) \cup Range(queue.interleaved)
      /\ \A i \in 1..n : Sufficient(List[i]) /\ List[i] \in Range(List)
  <2>1. /\ List \in Seq(UpdateSet) /\ Known(List, actions) /\ ActionsOK
        /\ Queued(current, queue) = Range(List) \cup Range(queue.interleaved)
    BY ListIs
  <2>2. k \in 1..(Len(List) + 1) /\ Len(List) \in Nat
        /\ \A i \in 1..n : Sufficient(List[i])
    BY <2>1, FirstSkippedIs, LenProperties
  <2>3. \A i \in 1..Len(List) : List[i] \in Range(List)
    BY RenderedQueued
  <2> QED BY <2>1, <2>2, <2>3
<1>2. Range(Rendered.baseState.applied) = Range(s.applied) \cup SufficientIds(List, n)
  BY <1>1, SufficientAreKnown, RenderedFields
<1>3. PICK w \in Queued(current, queue) : w.id = u.id /\ w.eager = u.eager
  BY RenderedQueued
<1>4. /\ u.eager = <<actions[u.id][s.value]>>
      /\ \A v \in Queued(current, queue) : v.id < u.id => v.eager = <<s.value>>
  <2>1. \A id \in Range(s.applied) : id < w.id
    BY <1>2, <1>3
  <2> QED BY <1>3, <2>1 DEF EagerInv, EagerOn
<1>5. \A i \in 1..n : Sufficient(List[i]) => List[i].eager = <<s.value>>
  <2> SUFFICES ASSUME NEW i \in 1..n PROVE List[i].eager = <<s.value>>
    OBVIOUS
  <2>1. List[i].id \in SufficientIds(List, n) /\ List[i] \in Queued(current, queue)
    BY <1>1 DEF SufficientIds
  <2> QED BY <1>2, <1>4, <2>1
<1>6. Rendered.baseState.value = s.value
  <2>1. s \in StateSet
    BY DEF TypeOK, FiberSet
  <2>2. StateAfter(s, List, n).value = s.value
    BY <1>1, <1>5, <2>1, AfterSame
  <2> QED BY <2>2, RenderedFields
<1>7. ASSUME NEW v \in Queued(Rendered, q), v.id < u.id PROVE v.eager = <<s.value>>
  <2>1. PICK x \in Queued(current, queue) : x.id = v.id /\ x.eager = v.eager
    BY RenderedQueued
  <2> QED BY <1>4, <1>7, <2>1
<1> QED
  BY <1>4, <1>6, <1>7

LEMMA RenderedBase ==
    ASSUME TypeOK, KnownInv, NEW q, Transferred(q), BaseInv(current, queue)
    PROVE  BaseInv(Rendered, q)
<1> SUFFICES ASSUME Rendered.lanes = NoLanes \/ Rendered.baseQueue = << >>
             PROVE  /\ Rendered.baseState.value = q.lastRenderedState
                    /\ Rendered.memoizedState.value = Rendered.baseState.value
  BY DEF BaseInv
<1> DEFINE k == FirstSkipped(List)
<1>1. List \in Seq(UpdateSet) /\ Len(List) \in Nat
  BY ListIs, LenProperties
<1>2. k = Len(List) + 1
  <2> SUFFICES ASSUME k # Len(List) + 1 PROVE FALSE
    OBVIOUS
  <2>1. k \in 1..Len(List) /\ ~Sufficient(List[k])
    BY <1>1, FirstSkippedIs
  <2>2. List[k].lane \in SkippedLanes(List)
    BY <1>1, <2>1, LanesOfIs
  <2>3. Rebased(List) # << >>
    BY <1>1, RebasedIs
  <2> QED BY <2>2, <2>3, RenderedFields DEF NoLanes
<1>3. Rendered.baseState = StateAfter(current.baseState, List, Len(List))
  <2>1. k - 1 = Len(List)
    BY <1>1, <1>2
  <2> QED BY <2>1, RenderedFields
<1>4. CASE List # << >>
  <2>1. Rendered.memoizedState = Rendered.baseState
    BY <1>3, <1>4, RenderedFields
  <2> QED BY <1>4, <2>1 DEF Transferred
<1>5. CASE List = << >>
  <2>1. current.baseQueue = << >> /\ Len(List) = 0
    BY <1>5, ListIs, EmptySeq
  <2>2. Rendered.baseState.value = current.baseState.value
    <3>1. ActionsOK /\ Known(List, actions) /\ current.baseState \in StateSet
      BY ListIs DEF TypeOK, FiberSet
    <3>2. Len(List) \in 0..Len(List) /\ \A i \in 1..Len(List) : FALSE
      BY <2>1
    <3>3. StateAfter(current.baseState, List, Len(List)).value = current.baseState.value
      BY <1>1, <3>1, <3>2, AfterSame
    <3> QED BY <1>3, <3>3
  <2>3. /\ Rendered.memoizedState = current.memoizedState
        /\ q.lastRenderedState = queue.lastRenderedState
    BY <1>5, RenderedFields DEF Transferred
  <2> QED BY <2>1, <2>2, <2>3 DEF BaseInv
<1> QED
  BY <1>4, <1>5

(* What is rendered can be committed.                                      *)
LEMMA RenderedInv ==
    ASSUME TypeOK, KnownInv, NEW q, Transferred(q), FiberInv(current, queue, actions)
    PROVE  FiberInv(Rendered, q, actions)
  BY RenderedLaneInv, RenderedCover, RenderedEager, RenderedBase DEF FiberInv

(* The current fiber keeps all that waits, and may lose the lanes of a     *)
(* render that does not change the state.                                  *)
LEMMA TransferredInv ==
    ASSUME TypeOK, KnownInv, NEW q, Transferred(q), FiberInv(current, queue, actions),
           NEW c \in FiberSet, c.baseQueue = List,
           c.baseState = current.baseState, c.memoizedState = current.memoizedState,
           \/ c.lanes = current.lanes
           \/ /\ c.lanes = current.lanes \ render.lanes
              /\ render.lanes \cap LanesOf(List \o queue.interleaved) = NoLanes
              /\ Rendered.memoizedState.value = current.memoizedState.value
    PROVE  FiberInv(c, q, actions)
<1>1. /\ List \in Seq(UpdateSet) /\ queue.interleaved \in Seq(UpdateSet)
      /\ Queued(current, queue) = Range(List) \cup Range(queue.interleaved)
      /\ List = << >> => current.baseQueue = << >>
      /\ current.baseQueue # << >> => List # << >> /\ List[1] = current.baseQueue[1]
      /\ List # << >> => List[1] \in Range(List)
  BY ListIs DEF TypeOK, QueueSet
<1>2. Queued(c, q) = Queued(current, queue)
  <2>1. q.pending = << >> /\ q.interleaved = queue.interleaved
    BY DEF Transferred
  <2> QED BY <1>1, <2>1, RangeEmpty DEF Queued
<1>3. \A u \in Queued(current, queue) : u.lane \in current.lanes => u.lane \in c.lanes
  <2>1. CASE c.lanes = current.lanes
    BY <2>1
  <2>2. CASE /\ c.lanes = current.lanes \ render.lanes
             /\ render.lanes \cap LanesOf(List \o queue.interleaved) = NoLanes
    <3> DEFINE all == List \o queue.interleaved
    <3>1. all \in Seq(UpdateSet) /\ Range(all) = Queued(current, queue)
      BY <1>1, ConcatIs
    <3>2. render.lanes \cap LanesOf(all) = NoLanes
      BY <2>2
    <3>3. current.lanes \subseteq Lane
      BY DEF TypeOK, FiberSet
    <3> HIDE DEF all
    <3>4. \A u \in Range(all) : u.lane \in Lane => u.lane \in LanesOf(all)
      BY <3>1, LanesOfIs
    <3> QED BY <2>2, <3>1, <3>2, <3>3, <3>4 DEF NoLanes
  <2> QED BY <2>1, <2>2
<1>4. LaneInv(c, q)
  <2> SUFFICES ASSUME NEW u \in Queued(current, queue)
               PROVE  \/ u.lane \in c.lanes
                      \/ c.baseQueue # << >> /\ c.baseQueue[1].lane \in c.lanes
                      \/ u.lane # NoLane /\ u.eager = <<c.baseState.value>>
    BY <1>2 DEF LaneInv
  <2>1. \/ u.lane \in current.lanes
        \/ current.baseQueue # << >> /\ current.baseQueue[1].lane \in current.lanes
        \/ u.lane # NoLane /\ u.eager = <<current.baseState.value>>
    BY DEF FiberInv, LaneInv
  <2>2. CASE current.baseQueue # << >> /\ current.baseQueue[1].lane \in current.lanes
    <3>1. List # << >> /\ List[1].lane \in current.lanes /\ List[1] \in Queued(current, queue)
      BY <1>1, <2>2
    <3> QED BY <1>3, <3>1
  <2> QED BY <1>3, <2>1, <2>2
<1>5. EagerInv(c, q, actions) /\ CoverInv(c, q, actions)
  BY <1>2 DEF FiberInv, EagerInv, CoverInv
<1>6. BaseInv(c, q)
  <2> SUFFICES ASSUME c.lanes = NoLanes \/ List = << >>
               PROVE  /\ current.baseState.value = q.lastRenderedState
                      /\ current.memoizedState.value = current.baseState.value
    BY DEF BaseInv
  <2>1. CASE List = << >>
    <3>1. q.lastRenderedState = queue.lastRenderedState
      BY <2>1 DEF Transferred
    <3> QED BY <1>1, <2>1, <3>1 DEF FiberInv, BaseInv
  <2>2. CASE List # << >> /\ c.lanes = NoLanes
    <3>1. \A u \in Range(List) : u.eager = <<current.baseState.value>>
      BY <1>1, <1>2, <1>4, <2>2 DEF LaneInv, NoLanes
    <3>2. Rendered.memoizedState.value = current.baseState.value
      BY <2>2, <3>1, RenderedSame
    <3>3. q.lastRenderedState = Rendered.memoizedState.value
      BY <2>2 DEF Transferred
    <3>4. current.memoizedState.value = current.baseState.value
      BY <2>2, <3>2 DEF FiberInv, BaseInv
    <3> QED BY <3>2, <3>3, <3>4
  <2> QED BY <2>1, <2>2
<1> QED
  BY <1>4, <1>5, <1>6 DEF FiberInv

-----------------------------------------------------------------------------
(* An update is dispatched.                                                *)

AppendAction(acts, a, more) ==
    /\ more \in Seq(Actions) /\ Len(acts) \in Nat /\ Len(more) = Len(acts) + 1
    /\ more[Len(acts) + 1] = a /\ \A i \in 1..Len(acts) : more[i] = acts[i]

LEMMA AppendActionIs ==
    ASSUME NEW acts \in Seq(Actions), NEW a \in Actions
    PROVE  AppendAction(acts, a, Append(acts, a))
  BY AppendProperties, LenProperties DEF AppendAction

(* The fiber g is f after the update u of the action a was queued: either  *)
(* it changes nothing, or it was scheduled.                                *)
Updates(f, q, g, r, u, acts, a) ==
    /\ f \in FiberSet /\ u.id = Len(acts) + 1 /\ u.lane \in Lane
    /\ Queued(g, r) = Queued(f, q) \cup {u} /\ r.lastRenderedState = q.lastRenderedState
    /\ g.baseState = f.baseState /\ g.memoizedState = f.memoizedState /\ g.baseQueue = f.baseQueue
    /\ \/ /\ g.lanes = f.lanes /\ f.lanes = NoLanes
          /\ u.eager = <<q.lastRenderedState>> /\ a[q.lastRenderedState] = q.lastRenderedState
       \/ /\ g.lanes = f.lanes \cup {u.lane}
          /\ u.eager = << >> \/ (f.lanes = NoLanes /\ u.eager = <<a[q.lastRenderedState]>>)

LEMMA UpdatedInv ==
    ASSUME NEW f, NEW q, NEW g, NEW r, NEW u, NEW acts, NEW a, NEW more,
           Updates(f, q, g, r, u, acts, a), AppendAction(acts, a, more),
           FiberInv(f, q, acts)
    PROVE  FiberInv(g, r, more)
<1>1. /\ u.id = Len(acts) + 1 /\ u.lane # NoLane
      /\ Queued(g, r) = Queued(f, q) \cup {u} /\ r.lastRenderedState = q.lastRenderedState
      /\ g.baseState = f.baseState /\ g.memoizedState = f.memoizedState
      /\ g.baseQueue = f.baseQueue
      /\ \/ /\ g.lanes = f.lanes /\ f.lanes = NoLanes
            /\ u.eager = <<q.lastRenderedState>> /\ a[q.lastRenderedState] = q.lastRenderedState
         \/ /\ g.lanes = f.lanes \cup {u.lane}
            /\ u.eager = << >> \/ (f.lanes = NoLanes /\ u.eager = <<a[q.lastRenderedState]>>)
  BY NoLaneIsNone DEF Updates
<1>2. /\ Len(acts) \in Nat /\ Len(more) = Len(acts) + 1
      /\ more[Len(acts) + 1] = a /\ \A i \in 1..Len(acts) : more[i] = acts[i]
  BY DEF AppendAction
<1>3. /\ LaneInv(f, q) /\ EagerInv(f, q, acts) /\ BaseInv(f, q)
      /\ Range(f.baseState.applied) \cup {v.id : v \in Queued(f, q)} = 1..Len(acts)
  BY DEF FiberInv, CoverInv
<1>4. \A v \in Queued(f, q) : v.id \in 1..Len(acts)
  BY <1>3
<1>5. f.lanes = NoLanes => /\ f.baseState.value = q.lastRenderedState
                           /\ \A v \in Queued(f, q) : v.eager = <<f.baseState.value>>
  BY <1>3 DEF BaseInv, LaneInv, NoLanes
<1>6. f.lanes \subseteq g.lanes /\ (u.eager # << >> => f.lanes = NoLanes)
      /\ (u.eager # << >> => u.eager = <<a[q.lastRenderedState]>>)
  BY <1>1
<1>7. LaneInv(g, r)
  <2> SUFFICES ASSUME NEW v \in Queued(g, r)
               PROVE  \/ v.lane \in g.lanes
                      \/ g.baseQueue # << >> /\ g.baseQueue[1].lane \in g.lanes
                      \/ v.lane # NoLane /\ v.eager = <<g.baseState.value>>
    BY DEF LaneInv
  <2>1. CASE v \in Queued(f, q)
    BY <1>1, <1>3, <1>6, <2>1 DEF LaneInv
  <2>2. CASE v = u
    BY <1>1, <1>5, <2>2
  <2> QED BY <1>1, <2>1, <2>2
<1>8. EagerInv(g, r, more)
  <2> SUFFICES ASSUME NEW v \in Queued(g, r), v.eager # << >>,
                      \A id \in Range(f.baseState.applied) : id < v.id
               PROVE  /\ v.eager = <<more[v.id][f.baseState.value]>>
                      /\ \A w \in Queued(g, r) :
                            w.id < v.id => w.eager = <<f.baseState.value>>
    BY <1>1 DEF EagerInv, EagerOn
  <2>1. CASE v \in Queued(f, q)
    <3>1. /\ v.eager = <<acts[v.id][f.baseState.value]>>
          /\ \A w \in Queued(f, q) : w.id < v.id => w.eager = <<f.baseState.value>>
      BY <1>3, <2>1 DEF EagerInv, EagerOn
    <3>2. v.id \in 1..Len(acts) /\ more[v.id] = acts[v.id] /\ ~(u.id < v.id)
      BY <1>1, <1>2, <1>4, <2>1
    <3> QED BY <1>1, <3>1, <3>2
  <2>2. CASE v = u
    <3>1. /\ u.eager = <<more[u.id][f.baseState.value]>>
      BY <1>1, <1>2, <1>5, <1>6, <2>2
    <3>2. ~(u.id < u.id)
      BY <1>1, <1>2
    <3> QED BY <1>1, <1>5, <1>6, <2>2, <3>1, <3>2
  <2> QED BY <1>1, <2>1, <2>2
<1>9. BaseInv(g, r)
  <2> SUFFICES ASSUME g.lanes = NoLanes \/ f.baseQueue = << >>
               PROVE  /\ f.baseState.value = q.lastRenderedState
                      /\ f.memoizedState.value = f.baseState.value
    BY <1>1 DEF BaseInv
  <2>1. f.lanes = NoLanes \/ f.baseQueue = << >>
    BY <1>6 DEF NoLanes
  <2> QED BY <1>3, <2>1 DEF BaseInv
<1>10. CoverInv(g, r, more)
  <2>1. 1..Len(more) = 1..Len(acts) \cup {u.id}
    BY <1>1, <1>2
  <2>2. {v.id : v \in Queued(g, r)} = {v.id : v \in Queued(f, q)} \cup {u.id}
    BY <1>1
  <2> QED BY <1>1, <1>3, <2>1, <2>2 DEF CoverInv
<1> QED
  BY <1>7, <1>8, <1>9, <1>10 DEF FiberInv

(* What was known or right remains so when there are more actions.         *)
LEMMA FiberKept ==
    ASSUME NEW f, NEW g, NEW acts \in Seq(Actions), NEW a \in Actions,
           g.baseState = f.baseState, g.memoizedState = f.memoizedState,
           g.baseQueue = f.baseQueue, FiberKnown(f, acts)
    PROVE  /\ FiberKnown(g, Append(acts, a))
           /\ FiberRight(f, acts) => FiberRight(g, Append(acts, a))
<1> DEFINE b == f.baseState.applied
           m == f.memoizedState.applied
           more == Append(acts, a)
<1>1. Dispatched(b, acts) /\ Dispatched(m, acts) /\ Known(f.baseQueue, acts)
  BY DEF FiberKnown
<1>2. AppendAction(acts, a, more)
  BY AppendActionIs
<1> HIDE DEF b, m
<1>3. \A x \in {b, m} : Dispatched(x, more) /\ ResultOf(more, x) = ResultOf(acts, x)
  <2> SUFFICES ASSUME NEW x \in {b, m}
               PROVE  Dispatched(x, more) /\ ResultOf(more, x) = ResultOf(acts, x)
    OBVIOUS
  <2>1. Dispatched(x, acts)
    BY <1>1
  <2> QED BY <2>1, ResultKept
<1> HIDE DEF more
<1>4. Known(f.baseQueue, more)
  BY <1>1, <1>2 DEF Known, AppendAction
<1>5. FiberKnown(g, more)
  BY <1>3, <1>4 DEF FiberKnown, b, m
<1>6. FiberRight(f, acts) => FiberRight(g, more)
  BY <1>3 DEF FiberRight, Right, b, m
<1> QED
  BY <1>5, <1>6 DEF more

-----------------------------------------------------------------------------
(* Lanes and the root.                                                     *)

LEMMA HighestIsOne ==
    ASSUME NEW lanes \in SUBSET Lane, lanes # {}
    PROVE  HighestPriorityLane(lanes) \in lanes
<1>1. lanes \subseteq Nat
  BY LaneAssumption
<1>2. \E l \in lanes : \A m \in lanes : l <= m
  BY <1>1, LeastNatural
<1> QED
  BY <1>2 DEF HighestPriorityLane, NoLanes

LEMMA NextLanesType ==
    ASSUME NEW rt \in RootSet, NEW lanes \in SUBSET Lane
    PROVE  NextLanes(rt, lanes) \in SUBSET Lane
<1>1. /\ rt.pendingLanes \in SUBSET Lane /\ rt.suspendedLanes \in SUBSET Lane
      /\ rt.pingedLanes \in SUBSET Lane
      /\ \A l \in Lane : rt.entanglements[l] \in SUBSET Lane
  BY DEF RootSet
<1>2. Workable(rt) \in SUBSET Lane
  BY <1>1 DEF Workable, OrElse
<1>3. HighestPriorityLanes(Workable(rt)) \in SUBSET Lane
  BY <1>2 DEF HighestPriorityLanes
<1>4. WithDefault(rt, HighestPriorityLanes(Workable(rt))) \in SUBSET Lane
  BY <1>1, <1>3 DEF WithDefault
<1>5. \A ls \in SUBSET Lane : WithEntangled(rt, ls) \in SUBSET Lane
  BY <1>1 DEF WithEntangled
<1> QED
  BY <1>3, <1>4, <1>5 DEF NextLanes, NoLanes

LEMMA RootTypes ==
    ASSUME NEW rt \in RootSet, NEW lanes \in SUBSET Lane, NEW lane \in Lane
    PROVE  /\ MarkRootUpdated(rt, lane) \in RootSet
           /\ MarkRootSuspended(rt, lanes) \in RootSet
           /\ MarkRootPinged(rt, lanes) \in RootSet
           /\ MarkRootFinished(rt, lanes) \in RootSet
           /\ MarkRootEntangled(rt, lanes) \in RootSet
<1>1. MarkRootUpdated(rt, lane) \in RootSet
  BY DEF MarkRootUpdated, RootSet, NoLanes
<1>2. MarkRootSuspended(rt, lanes) \in RootSet /\ MarkRootPinged(rt, lanes) \in RootSet
  BY DEF MarkRootSuspended, MarkRootPinged, RootSet
<1>3. MarkRootFinished(rt, lanes) \in RootSet
  <2>1. [l \in Lane |-> IF l \in rt.pendingLanes \ lanes THEN NoLanes ELSE rt.entanglements[l]]
          \in [Lane -> SUBSET Lane]
    BY DEF RootSet, NoLanes
  <2> QED BY <2>1 DEF MarkRootFinished, RootSet, NoLanes
<1>4. MarkRootEntangled(rt, lanes) \in RootSet
  <2> DEFINE all == rt.entangledLanes \cup lanes
             joins(l) == l \in lanes \/ rt.entanglements[l] \cap lanes # NoLanes
             f == [l \in Lane |-> IF l \in all /\ joins(l) THEN rt.entanglements[l] \cup lanes
                                  ELSE rt.entanglements[l]]
  <2>1. f \in [Lane -> SUBSET Lane]
    BY DEF RootSet
  <2>2. all \in SUBSET Lane
    BY DEF RootSet
  <2>3. MarkRootEntangled(rt, lanes) = [rt EXCEPT !.entangledLanes = all, !.entanglements = f]
    BY DEF MarkRootEntangled, RootSet
  <2> HIDE DEF all, f
  <2> QED BY <2>1, <2>2, <2>3 DEF RootSet
<1> QED
  BY <1>1, <1>2, <1>3, <1>4

-----------------------------------------------------------------------------
(* The update of a setState.                                               *)

NewUpdate(lane, action) ==
    [id |-> Len(actions) + 1, lane |-> lane, eager |-> EagerState(action)]

LEMMA NewUpdateIs ==
    ASSUME TypeOK, NEW lane \in EventLanes, NEW action \in Actions, Len(actions) < MaxUpdates
    PROVE  /\ NewUpdate(lane, action) \in UpdateSet
           /\ NewUpdate(lane, action).id = Len(actions) + 1
           /\ NewUpdate(lane, action).lane = lane /\ lane \in Lane
           /\ NewUpdate(lane, action).eager = EagerState(action)
           /\ Len(actions) \in Nat /\ Len(actions) + 1 \in Ids
           /\ \/ EagerState(action) = << >>
              \/ HasNoWork /\ EagerState(action) = <<action[queue.lastRenderedState]>>
           /\ action[queue.lastRenderedState] \in State
<1>1. lane \in Lane /\ action[queue.lastRenderedState] \in State
  BY HookQueueAssumption DEF TypeOK, QueueSet
<1>2. Len(actions) \in Nat
  BY LenProperties DEF TypeOK
<1>3. Len(actions) + 1 \in Ids
  BY <1>2, HookQueueAssumption DEF Ids
<1>4. \/ EagerState(action) = << >>
      \/ HasNoWork /\ EagerState(action) = <<action[queue.lastRenderedState]>>
  BY DEF EagerState
<1>5. EagerState(action) \in {<< >>} \cup {<<s>> : s \in State}
  BY <1>1, <1>4
<1>6. NewUpdate(lane, action) \in UpdateSet
  BY <1>1, <1>3, <1>5 DEF NewUpdate, UpdateSet
<1> QED
  BY <1>1, <1>2, <1>3, <1>4, <1>6 DEF NewUpdate

Enqueued(u) ==
    /\ queue' \in QueueSet /\ queue'.lastRenderedState = queue.lastRenderedState
    /\ Range(queue'.pending) \cup Range(queue'.interleaved) =
          Range(queue.pending) \cup Range(queue.interleaved) \cup {u}

LEMMA EnqueuedIs ==
    ASSUME TypeOK, NEW u \in UpdateSet, NEW lanes \in SUBSET TransitionLanes,
           EnqueueUpdate(u, lanes)
    PROVE  Enqueued(u)
<1> DEFINE p == queue.pending
           i == queue.interleaved
<1>1. p \in Seq(UpdateSet) /\ i \in Seq(UpdateSet) /\ queue \in QueueSet
  BY DEF TypeOK, QueueSet
<1>2. /\ Append(p, u) \in Seq(UpdateSet) /\ Append(i, u) \in Seq(UpdateSet)
      /\ Range(Append(p, u)) = Range(p) \cup {u} /\ Range(Append(i, u)) = Range(i) \cup {u}
  <2> HIDE DEF p, i
  <2> QED BY <1>1, RangeAppend
<1>3. CASE Rendering
  <2>1. queue' = [queue EXCEPT !.interleaved = Append(i, u), !.lanes = lanes]
    BY <1>3 DEF EnqueueUpdate
  <2>2. queue' \in QueueSet /\ queue'.pending = p /\ queue'.interleaved = Append(i, u)
        /\ queue'.lastRenderedState = queue.lastRenderedState
    BY <1>1, <1>2, <2>1 DEF QueueSet
  <2> QED BY <1>2, <2>2 DEF Enqueued
<1>4. CASE ~Rendering
  <2>1. queue' = [queue EXCEPT !.pending = Append(p, u), !.lanes = lanes]
    BY <1>4 DEF EnqueueUpdate
  <2>2. queue' \in QueueSet /\ queue'.pending = Append(p, u) /\ queue'.interleaved = i
        /\ queue'.lastRenderedState = queue.lastRenderedState
    BY <1>1, <1>2, <2>1 DEF QueueSet
  <2> QED BY <1>2, <2>2 DEF Enqueued
<1> QED
  BY <1>3, <1>4

LEMMA DispatchIs ==
    ASSUME TypeOK, NEW lane \in EventLanes, NEW action \in Actions,
           DispatchSetState(lane, action)
    PROVE  /\ Len(actions) < MaxUpdates /\ actions' = Append(actions, action)
           /\ UNCHANGED <<elsewhere, forgotten>>
           /\ Enqueued(NewUpdate(lane, action))
           /\ \/ /\ EagerState(action) = <<queue.lastRenderedState>>
                 /\ UNCHANGED <<root, current, alternate, render>>
              \/ /\ ScheduleUpdate(lane) /\ EntangledLanes(lane) \in SUBSET TransitionLanes
<1>1. /\ Len(actions) < MaxUpdates /\ actions' = Append(actions, action)
      /\ UNCHANGED <<elsewhere, forgotten>>
      /\ \/ /\ EagerState(action) = <<queue.lastRenderedState>>
            /\ EnqueueUpdate(NewUpdate(lane, action), queue.lanes)
            /\ UNCHANGED <<root, current, alternate, render>>
         \/ /\ EnqueueUpdate(NewUpdate(lane, action), EntangledLanes(lane))
            /\ ScheduleUpdate(lane)
  BY DEF DispatchSetState, NewUpdate, BailsOut
<1>2. queue.lanes \in SUBSET TransitionLanes /\ EntangledLanes(lane) \in SUBSET TransitionLanes
  BY DEF TypeOK, QueueSet, EntangledLanes
<1>3. NewUpdate(lane, action) \in UpdateSet
  BY <1>1, NewUpdateIs
<1>4. Enqueued(NewUpdate(lane, action))
  BY <1>1, <1>2, <1>3, EnqueuedIs
<1> QED
  BY <1>1, <1>2, <1>4

(* The lanes of a scheduled update are in the fibers and in the root.      *)
LEMMA ScheduledIs ==
    ASSUME TypeOK, NEW lane \in Lane, EntangledLanes(lane) \in SUBSET TransitionLanes,
           ScheduleUpdate(lane)
    PROVE  /\ root' \in RootSet /\ root'.pendingLanes = root.pendingLanes \cup {lane}
           /\ current' = [current EXCEPT !.lanes = @ \cup {lane}]
           /\ alternate' = [alternate EXCEPT !.lanes = @ \cup {lane}]
           /\ Interrupt(lane)
<1> DEFINE updated == MarkRootUpdated(root, lane)
           entangled == MarkRootEntangled(updated, EntangledLanes(lane))
<1>1. /\ root' = IF lane \in TransitionLanes THEN entangled ELSE updated
      /\ current' = [current EXCEPT !.lanes = @ \cup {lane}]
      /\ alternate' = [alternate EXCEPT !.lanes = @ \cup {lane}]
      /\ Interrupt(lane)
  BY DEF ScheduleUpdate, MarkUpdateLaneFromFiberToRoot
<1>2. updated \in RootSet /\ updated.pendingLanes = root.pendingLanes \cup {lane}
  <2>1. root \in RootSet
    BY DEF TypeOK
  <2>2. updated \in RootSet
    BY <2>1, RootTypes
  <2>3. updated.pendingLanes = root.pendingLanes \cup {lane}
    BY <2>1 DEF MarkRootUpdated, RootSet
  <2> QED BY <2>2, <2>3
<1> HIDE DEF updated
<1>3. entangled \in RootSet /\ entangled.pendingLanes = updated.pendingLanes
  <2>1. EntangledLanes(lane) \in SUBSET Lane
    BY DEF TransitionLanes
  <2>2. entangled \in RootSet
    BY <1>2, <2>1, RootTypes
  <2>3. entangled.pendingLanes = updated.pendingLanes
    BY <1>2 DEF MarkRootEntangled, RootSet
  <2> QED BY <2>2, <2>3
<1> HIDE DEF entangled
<1> QED
  BY <1>1, <1>2, <1>3

LEMMA InterruptType ==
    ASSUME TypeOK, NEW lane \in Lane, Interrupt(lane)
    PROVE  render' \in RenderSet /\ render'.phase = render.phase
           /\ render'.forgets = render.forgets /\ render'.lanes = render.lanes
  BY DEF Interrupt, TypeOK, RenderSet

-----------------------------------------------------------------------------
(* Every step keeps the invariant.                                         *)

LEMMA FiberInvSame ==
    ASSUME NEW f, NEW q, NEW r, NEW acts, FiberInv(f, q, acts),
           Queued(f, r) = Queued(f, q), r.lastRenderedState = q.lastRenderedState
    PROVE  FiberInv(f, r, acts)
  BY DEF FiberInv, LaneInv, EagerInv, BaseInv, CoverInv

LEMMA QueueKnownIs ==
    ASSUME NEW q \in QueueSet, NEW acts
    PROVE  QueueKnown(q, acts) <=>
              \A u \in Range(q.pending) \cup Range(q.interleaved) :
                 u.id \in 1..Len(acts) /\ u.lane \in Lane
<1>1. q.pending \in Seq(UpdateSet) /\ q.interleaved \in Seq(UpdateSet)
  BY DEF QueueSet
<1>2. /\ Known(q.pending, acts) <=> \A u \in Range(q.pending) : u.id \in 1..Len(acts)
      /\ Known(q.interleaved, acts) <=> \A u \in Range(q.interleaved) : u.id \in 1..Len(acts)
  <2> DEFINE p == q.pending
             i == q.interleaved
  <2>1. p \in Seq(UpdateSet) /\ i \in Seq(UpdateSet)
    BY <1>1
  <2> HIDE DEF p, i
  <2>2. /\ Known(p, acts) <=> \A u \in Range(p) : u.id \in 1..Len(acts)
        /\ Known(i, acts) <=> \A u \in Range(i) : u.id \in 1..Len(acts)
    BY <2>1, KnownUpdates
  <2> QED BY <2>2 DEF p, i
<1> QED
  BY <1>2 DEF QueueKnown

LEMMA FiberLanes ==
    ASSUME NEW f \in FiberSet, NEW lanes \in SUBSET Lane, NEW g, g = [f EXCEPT !.lanes = lanes]
    PROVE  /\ g \in FiberSet /\ g.lanes = lanes
           /\ g.baseState = f.baseState /\ g.memoizedState = f.memoizedState
           /\ g.baseQueue = f.baseQueue
  BY DEF FiberSet

(* How setState changes the fibers.                                        *)
LEMMA DispatchFibers ==
    ASSUME Inv, NEW lane \in EventLanes, NEW action \in Actions,
           DispatchSetState(lane, action)
    PROVE  /\ root' \in RootSet /\ render' \in RenderSet
           /\ render'.phase = render.phase /\ render'.forgets = render.forgets
           /\ current' \in FiberSet /\ alternate' \in FiberSet
           /\ current'.lanes \subseteq root'.pendingLanes
           /\ Updates(current, queue, current', queue', NewUpdate(lane, action),
                      actions, action)
           /\ Updates(alternate, queue, alternate', queue', NewUpdate(lane, action),
                      actions, action)
<1> DEFINE u == NewUpdate(lane, action)
<1>1. TypeOK /\ WorkInv /\ current \in FiberSet /\ alternate \in FiberSet
      /\ root \in RootSet /\ render \in RenderSet
  BY DEF Inv, TypeOK
<1>2. /\ Len(actions) < MaxUpdates /\ Enqueued(u)
      /\ \/ /\ EagerState(action) = <<queue.lastRenderedState>>
            /\ UNCHANGED <<root, current, alternate, render>>
         \/ ScheduleUpdate(lane) /\ EntangledLanes(lane) \in SUBSET TransitionLanes
  BY <1>1, DispatchIs
<1>3. /\ u.id = Len(actions) + 1 /\ u.lane = lane /\ lane \in Lane
      /\ u.eager = EagerState(action)
      /\ \/ EagerState(action) = << >>
         \/ HasNoWork /\ EagerState(action) = <<action[queue.lastRenderedState]>>
      /\ action[queue.lastRenderedState] \in State
  BY <1>1, <1>2, NewUpdateIs
<1> HIDE DEF u
<1>4. /\ queue'.lastRenderedState = queue.lastRenderedState
      /\ Range(queue'.pending) \cup Range(queue'.interleaved) =
            Range(queue.pending) \cup Range(queue.interleaved) \cup {u}
  BY <1>2 DEF Enqueued
<1>5. CASE /\ EagerState(action) = <<queue.lastRenderedState>>
           /\ UNCHANGED <<root, current, alternate, render>>
  <2>1. u.eager = <<queue.lastRenderedState>>
        /\ action[queue.lastRenderedState] = queue.lastRenderedState
        /\ current.lanes = NoLanes /\ alternate.lanes = NoLanes
    <3>1. EagerState(action) # << >> /\ queue.lastRenderedState \in State
      BY <1>1, <1>5 DEF TypeOK, QueueSet
    <3>2. HasNoWork /\ <<queue.lastRenderedState>> = <<action[queue.lastRenderedState]>>
      BY <1>3, <1>5, <3>1
    <3> QED BY <1>3, <1>5, <3>2 DEF HasNoWork
  <2>2. \A f \in {current, alternate} :
           Updates(f, queue, f, queue', u, actions, action)
    BY <1>1, <1>3, <1>4, <2>1 DEF Updates, Queued
  <2> QED BY <1>1, <1>5, <2>2 DEF WorkInv, u
<1>6. CASE ScheduleUpdate(lane) /\ EntangledLanes(lane) \in SUBSET TransitionLanes
  <2>1. /\ root' \in RootSet /\ root'.pendingLanes = root.pendingLanes \cup {lane}
        /\ current' = [current EXCEPT !.lanes = current.lanes \cup {lane}]
        /\ alternate' = [alternate EXCEPT !.lanes = alternate.lanes \cup {lane}]
        /\ Interrupt(lane)
    BY <1>1, <1>3, <1>6, ScheduledIs
  <2>2. render' \in RenderSet /\ render'.phase = render.phase /\ render'.forgets = render.forgets
    BY <1>1, <1>3, <2>1, InterruptType
  <2>3. /\ current.lanes \cup {lane} \in SUBSET Lane
        /\ alternate.lanes \cup {lane} \in SUBSET Lane
    BY <1>1, <1>3 DEF FiberSet
  <2>4. /\ current' \in FiberSet /\ current'.lanes = current.lanes \cup {lane}
        /\ current'.baseState = current.baseState
        /\ current'.memoizedState = current.memoizedState
        /\ current'.baseQueue = current.baseQueue
    BY <1>1, <2>1, <2>3 DEF FiberSet
  <2>5. /\ alternate' \in FiberSet /\ alternate'.lanes = alternate.lanes \cup {lane}
        /\ alternate'.baseState = alternate.baseState
        /\ alternate'.memoizedState = alternate.memoizedState
        /\ alternate'.baseQueue = alternate.baseQueue
    BY <1>1, <2>1, <2>3 DEF FiberSet
  <2>6. \/ u.eager = << >>
        \/ /\ current.lanes = NoLanes /\ alternate.lanes = NoLanes
           /\ u.eager = <<action[queue.lastRenderedState]>>
    BY <1>3 DEF HasNoWork
  <2>7. Updates(current, queue, current', queue', u, actions, action)
    BY <1>1, <1>3, <1>4, <2>4, <2>6 DEF Updates, Queued
  <2>8. Updates(alternate, queue, alternate', queue', u, actions, action)
    BY <1>1, <1>3, <1>4, <2>5, <2>6 DEF Updates, Queued
  <2>9. current'.lanes \subseteq root'.pendingLanes
    BY <1>1, <2>1, <2>4 DEF WorkInv
  <2> QED BY <2>1, <2>2, <2>4, <2>5, <2>7, <2>8, <2>9 DEF u
<1> QED
  BY <1>2, <1>5, <1>6

LEMMA DispatchInv ==
    ASSUME Inv, NEW lane \in EventLanes, NEW action \in Actions,
           DispatchSetState(lane, action)
    PROVE  Inv'
<1> DEFINE u == NewUpdate(lane, action)
<1>1. /\ TypeOK /\ KnownInv /\ WorkInv /\ ValueInv
      /\ actions \in Seq(Actions) /\ queue \in QueueSet
  BY DEF Inv, TypeOK
<1>2. /\ Len(actions) < MaxUpdates /\ actions' = Append(actions, action)
      /\ elsewhere' = elsewhere /\ forgotten' = forgotten /\ Enqueued(u)
  BY <1>1, DispatchIs
<1>3. /\ u \in UpdateSet /\ u.id = Len(actions) + 1 /\ u.lane = lane /\ lane \in Lane
      /\ Len(actions) \in Nat
  BY <1>1, <1>2, NewUpdateIs
<1>4. /\ root' \in RootSet /\ render' \in RenderSet
      /\ render'.phase = render.phase /\ render'.forgets = render.forgets
      /\ current' \in FiberSet /\ alternate' \in FiberSet
      /\ current'.lanes \subseteq root'.pendingLanes
      /\ Updates(current, queue, current', queue', u, actions, action)
      /\ Updates(alternate, queue, alternate', queue', u, actions, action)
  BY DispatchFibers
<1> HIDE DEF u
<1>5. AppendAction(actions, action, actions')
  BY <1>1, <1>2, AppendActionIs
<1>6. actions' \in Seq(Actions) /\ Len(actions') = Len(actions) + 1
  BY <1>5 DEF AppendAction
<1>7. queue' \in QueueSet
  BY <1>2 DEF Enqueued
<1>8. TypeOK'
  BY <1>1, <1>2, <1>4, <1>6, <1>7 DEF TypeOK
<1>9. QueueKnown(queue', actions')
  <2>1. \A v \in Range(queue.pending) \cup Range(queue.interleaved) :
           v.id \in 1..Len(actions) /\ v.lane \in Lane
    BY <1>1, QueueKnownIs DEF KnownInv
  <2>2. \A v \in Range(queue'.pending) \cup Range(queue'.interleaved) :
           v.id \in 1..Len(actions') /\ v.lane \in Lane
    BY <1>2, <1>3, <1>6, <2>1 DEF Enqueued
  <2> QED BY <1>7, <2>2, QueueKnownIs
<1>10. /\ FiberKnown(current', actions')
       /\ FiberRight(current, actions) => FiberRight(current', actions')
  <2>1. /\ current'.baseState = current.baseState
        /\ current'.memoizedState = current.memoizedState
        /\ current'.baseQueue = current.baseQueue /\ FiberKnown(current, actions)
    BY <1>1, <1>4 DEF Updates, KnownInv
  <2> QED BY <1>1, <1>2, <2>1, FiberKept
<1>11. /\ FiberKnown(alternate', actions')
       /\ FiberRight(alternate, actions) => FiberRight(alternate', actions')
  <2>1. /\ alternate'.baseState = alternate.baseState
        /\ alternate'.memoizedState = alternate.memoizedState
        /\ alternate'.baseQueue = alternate.baseQueue /\ FiberKnown(alternate, actions)
    BY <1>1, <1>4 DEF Updates, KnownInv
  <2> QED BY <1>1, <1>2, <2>1, FiberKept
<1>12. KnownInv'
  <2>1. Len(actions') <= MaxUpdates
    BY <1>2, <1>3, <1>6, HookQueueAssumption
  <2> QED BY <1>9, <1>10, <1>11, <2>1 DEF KnownInv
<1>13. WorkInv'
  BY <1>1, <1>4 DEF WorkInv, Visited
<1>14. /\ FiberInv(current, queue, actions) => FiberInv(current', queue', actions')
       /\ FiberInv(alternate, queue, actions) => FiberInv(alternate', queue', actions')
  BY <1>4, <1>5, UpdatedInv
<1>15. ValueInv'
  BY <1>1, <1>2, <1>4, <1>10, <1>11, <1>14 DEF ValueInv, Visited
<1> QED
  BY <1>8, <1>12, <1>13, <1>15 DEF Inv

LEMMA UpdateElsewhereInv ==
    ASSUME Inv, NEW lane \in EventLanes, UpdateElsewhere(lane)
    PROVE  Inv'
<1>1. /\ TypeOK /\ KnownInv /\ WorkInv /\ ValueInv /\ root \in RootSet /\ lane \in Lane
  BY HookQueueAssumption DEF Inv, TypeOK
<1>2. /\ elsewhere' = elsewhere \cup {lane} /\ root' = MarkRootUpdated(root, lane)
      /\ Interrupt(lane)
      /\ UNCHANGED <<current, alternate, queue, actions, forgotten>>
  BY DEF UpdateElsewhere, history
<1>3. root' \in RootSet /\ root'.pendingLanes = root.pendingLanes \cup {lane}
  <2>1. MarkRootUpdated(root, lane).pendingLanes = root.pendingLanes \cup {lane}
    BY <1>1 DEF MarkRootUpdated, RootSet
  <2> QED BY <1>1, <1>2, <2>1, RootTypes
<1>4. render' \in RenderSet /\ render'.phase = render.phase /\ render'.forgets = render.forgets
  BY <1>1, <1>2, InterruptType
<1>5. TypeOK'
  BY <1>1, <1>2, <1>3, <1>4 DEF TypeOK
<1>6. KnownInv' /\ WorkInv' /\ ValueInv'
  BY <1>1, <1>2, <1>3, <1>4 DEF KnownInv, WorkInv, ValueInv, Visited
<1> QED
  BY <1>5, <1>6 DEF Inv

LEMMA StartRenderInv ==
    ASSUME Inv, StartRender
    PROVE  Inv'
<1>1. /\ TypeOK /\ KnownInv /\ WorkInv /\ ValueInv /\ root \in RootSet /\ queue \in QueueSet
      /\ render \in RenderSet
  BY DEF Inv, TypeOK
<1> DEFINE wipLanes == IF Rendering THEN render.lanes ELSE NoLanes
           lanes == NextLanes(root, wipLanes)
           p == queue.pending
           i == queue.interleaved
<1>2. /\ render' = [NoRender EXCEPT !.phase = "started", !.lanes = lanes,
                       !.sync = SyncLane \in lanes \/ IncludesBlockingLane(lanes)]
      /\ queue' = [queue EXCEPT !.pending = p \o i, !.interleaved = << >>]
      /\ forgotten' = (forgotten \/ render.forgets)
      /\ UNCHANGED <<root, elsewhere, current, alternate, actions>>
  BY DEF StartRender
<1>3. lanes \in SUBSET Lane
  <2>1. wipLanes \in SUBSET Lane
    BY <1>1 DEF RenderSet, NoLanes
  <2> QED BY <1>1, <2>1, NextLanesType
<1> HIDE DEF lanes
<1>4. render' \in RenderSet /\ render'.phase = "started" /\ render'.forgets = FALSE
  BY <1>2, <1>3 DEF NoRender, RenderSet, IncludesBlockingLane, NoLanes
<1>5. p \in Seq(UpdateSet) /\ i \in Seq(UpdateSet)
  BY <1>1 DEF QueueSet
<1>6. p \o i \in Seq(UpdateSet) /\ Range(p \o i) = Range(p) \cup Range(i)
  <2> HIDE DEF p, i
  <2> QED BY <1>5, ConcatIs
<1>7. /\ queue' \in QueueSet /\ queue'.pending = p \o i /\ queue'.interleaved = << >>
      /\ queue'.lastRenderedState = queue.lastRenderedState
  <2> DEFINE all == p \o i
  <2>1. all \in Seq(UpdateSet) /\ << >> \in Seq(UpdateSet)
        /\ queue' = [queue EXCEPT !.pending = all, !.interleaved = << >>]
    BY <1>2, <1>6
  <2> HIDE DEF all
  <2>2. /\ queue' \in QueueSet /\ queue'.pending = all /\ queue'.interleaved = << >>
        /\ queue'.lastRenderedState = queue.lastRenderedState
    BY <1>1, <2>1 DEF QueueSet
  <2> QED BY <2>2 DEF all
<1>8. Range(queue'.pending) \cup Range(queue'.interleaved) =
         Range(queue.pending) \cup Range(queue.interleaved)
  BY <1>6, <1>7, RangeEmpty
<1>9. TypeOK'
  BY <1>1, <1>2, <1>4, <1>7 DEF TypeOK, RenderSet
<1>10. KnownInv'
  <2>1. QueueKnown(queue', actions)
    <3>1. \A v \in Range(queue.pending) \cup Range(queue.interleaved) :
             v.id \in 1..Len(actions) /\ v.lane \in Lane
      BY <1>1, QueueKnownIs DEF KnownInv
    <3>2. \A v \in Range(queue'.pending) \cup Range(queue'.interleaved) :
             v.id \in 1..Len(actions) /\ v.lane \in Lane
      BY <1>8, <3>1
    <3> QED BY <1>7, <3>2, QueueKnownIs
  <2> QED BY <1>1, <1>2, <2>1 DEF KnownInv
<1>11. WorkInv'
  BY <1>1, <1>2, <1>4 DEF WorkInv
<1>12. FiberInv(current, queue, actions) => FiberInv(current, queue', actions)
  <2>1. Queued(current, queue') = Queued(current, queue)
    BY <1>8 DEF Queued
  <2> QED BY <1>7, <2>1, FiberInvSame
<1>13. ValueInv'
  <2>1. ~Visited'
    BY <1>4 DEF Visited
  <2> QED BY <1>1, <1>2, <1>12, <2>1 DEF ValueInv
<1> QED
  BY <1>9, <1>10, <1>11, <1>13 DEF Inv

LEMMA BailOutInv ==
    ASSUME Inv, BailOut
    PROVE  Inv'
<1>1. /\ TypeOK /\ KnownInv /\ WorkInv /\ ValueInv /\ render \in RenderSet
      /\ render.phase = "started"
  BY DEF Inv, TypeOK, BailOut, InRender
<1>2. /\ alternate' = current /\ render' = [render EXCEPT !.phase = "visited"]
      /\ UNCHANGED <<root, elsewhere, current, queue, actions, forgotten>>
  BY DEF BailOut, history
<1>3. render' \in RenderSet /\ render'.phase = "visited" /\ render'.forgets = render.forgets
  BY <1>1, <1>2 DEF RenderSet
<1>4. ~render.forgets
  BY <1>1 DEF WorkInv, Visited
<1>5. TypeOK'
  BY <1>1, <1>2, <1>3 DEF TypeOK
<1>6. KnownInv' /\ WorkInv' /\ ValueInv'
  BY <1>1, <1>2, <1>3, <1>4 DEF KnownInv, WorkInv, ValueInv, Visited
<1> QED
  BY <1>5, <1>6 DEF Inv

(* What a render of the component changes.                                 *)
LEMMA RenderIs ==
    ASSUME Inv, NEW newProps \in BOOLEAN, RenderComponent(newProps)
    PROVE  /\ render.phase = "started" /\ render' \in RenderSet /\ render'.phase = "visited"
           /\ alternate' = Rendered /\ current' \in FiberSet
           /\ current'.baseQueue = List /\ current'.baseState = current.baseState
           /\ current'.memoizedState = current.memoizedState
           /\ current'.lanes \subseteq current.lanes
           /\ ~render'.forgets =>
                 \/ current'.lanes = current.lanes
                 \/ /\ current'.lanes = current.lanes \ render.lanes
                    /\ render.lanes \cap LanesOf(List \o queue.interleaved) = NoLanes
                    /\ Rendered.memoizedState.value = current.memoizedState.value
           /\ Transferred(queue')
           /\ UNCHANGED <<root, elsewhere, actions, forgotten>>
<1> DEFINE transferred == [current EXCEPT !.baseQueue = List]
           bailsOut == ~newProps /\ Rendered.memoizedState.value = current.memoizedState.value
           meets == render.lanes \cap LanesOf(List \o queue.interleaved) # NoLanes
<1>1. /\ TypeOK /\ KnownInv /\ current \in FiberSet /\ queue \in QueueSet
      /\ render \in RenderSet /\ List \in Seq(UpdateSet) /\ Rendered \in FiberSet
  BY ListIs, RenderedType DEF Inv, TypeOK
<1>2. /\ render.phase = "started" /\ alternate' = Rendered
      /\ current' = IF bailsOut THEN BailoutHooks(transferred) ELSE transferred
      /\ queue' = [queue EXCEPT
             !.pending = << >>,
             !.lanes = IF List = << >> /\ queue.interleaved = << >> THEN NoLanes
                       ELSE queue.lanes,
             !.lastRenderedState = IF List = << >> THEN queue.lastRenderedState
                                   ELSE Rendered.memoizedState.value]
      /\ render' = [render EXCEPT !.phase = "visited", !.forgets = bailsOut /\ meets]
      /\ UNCHANGED <<root, elsewhere, actions, forgotten>>
  BY DEF RenderComponent, InRender, List, Rendered, history
<1>3. /\ transferred \in FiberSet /\ transferred.lanes = current.lanes
      /\ transferred.baseQueue = List /\ transferred.baseState = current.baseState
      /\ transferred.memoizedState = current.memoizedState
  BY <1>1 DEF FiberSet
<1> HIDE DEF transferred
<1>4. /\ current' \in FiberSet
      /\ current'.baseQueue = List /\ current'.baseState = current.baseState
      /\ current'.memoizedState = current.memoizedState
      /\ current'.lanes = IF bailsOut THEN current.lanes \ render.lanes ELSE current.lanes
  <2>1. CASE bailsOut
    <3>1. current' = [transferred EXCEPT !.lanes = transferred.lanes \ render.lanes]
      BY <1>2, <2>1 DEF BailoutHooks
    <3>2. current' \in FiberSet /\ current'.lanes = transferred.lanes \ render.lanes
          /\ current'.baseQueue = transferred.baseQueue
          /\ current'.baseState = transferred.baseState
          /\ current'.memoizedState = transferred.memoizedState
      BY <1>3, <3>1 DEF FiberSet
    <3> QED BY <1>3, <2>1, <3>2
  <2>2. CASE ~bailsOut
    BY <1>2, <1>3, <2>2
  <2> QED BY <2>1, <2>2
<1>5. render' \in RenderSet /\ render'.phase = "visited"
      /\ (~render'.forgets => ~bailsOut \/ ~meets)
  <2> HIDE DEF bailsOut, meets
  <2>1. (bailsOut /\ meets) \in BOOLEAN
    BY DEF bailsOut, meets
  <2> DEFINE both == bailsOut /\ meets
  <2>2. render' = [render EXCEPT !.phase = "visited", !.forgets = both] /\ both \in BOOLEAN
    BY <1>2, <2>1
  <2> HIDE DEF both
  <2>3. render' \in RenderSet /\ render'.phase = "visited" /\ render'.forgets = both
    BY <1>1, <2>2 DEF RenderSet
  <2> QED BY <2>3 DEF both
<1>6. Transferred(queue')
  <2> DEFINE last == IF List = << >> THEN queue.lastRenderedState
                     ELSE Rendered.memoizedState.value
             lanes == IF List = << >> /\ queue.interleaved = << >> THEN NoLanes
                      ELSE queue.lanes
  <2>1. last \in State /\ lanes \in SUBSET TransitionLanes
    BY <1>1 DEF QueueSet, FiberSet, StateSet, NoLanes
  <2>2. queue' = [queue EXCEPT !.pending = << >>, !.lanes = lanes, !.lastRenderedState = last]
    BY <1>2
  <2> HIDE DEF last, lanes
  <2>3. << >> \in Seq(UpdateSet)
    OBVIOUS
  <2>4. /\ queue' \in QueueSet /\ queue'.pending = << >>
        /\ queue'.interleaved = queue.interleaved /\ queue'.lastRenderedState = last
    BY <1>1, <2>1, <2>2, <2>3 DEF QueueSet
  <2> QED BY <2>4 DEF Transferred, last
<1> QED
  BY <1>2, <1>4, <1>5, <1>6

LEMMA RenderComponentInv ==
    ASSUME Inv, NEW newProps \in BOOLEAN, RenderComponent(newProps)
    PROVE  Inv'
<1>1. TypeOK /\ KnownInv /\ WorkInv /\ ValueInv
  BY DEF Inv
<1>2. /\ render.phase = "started" /\ render' \in RenderSet /\ render'.phase = "visited"
      /\ alternate' = Rendered /\ current' \in FiberSet
      /\ current'.baseQueue = List /\ current'.baseState = current.baseState
      /\ current'.memoizedState = current.memoizedState
      /\ current'.lanes \subseteq current.lanes
      /\ ~render'.forgets =>
            \/ current'.lanes = current.lanes
            \/ /\ current'.lanes = current.lanes \ render.lanes
               /\ render.lanes \cap LanesOf(List \o queue.interleaved) = NoLanes
               /\ Rendered.memoizedState.value = current.memoizedState.value
      /\ Transferred(queue')
      /\ UNCHANGED <<root, elsewhere, actions, forgotten>>
  BY RenderIs
<1>3. /\ queue' \in QueueSet /\ queue'.pending = << >>
      /\ queue'.interleaved = queue.interleaved
  BY <1>2 DEF Transferred
<1>4. /\ Rendered \in FiberSet /\ FiberKnown(Rendered, actions)
      /\ Known(List, actions)
  BY <1>1, RenderedType, ListIs
<1>5. TypeOK'
  BY <1>1, <1>2, <1>3, <1>4 DEF TypeOK
<1>6. KnownInv'
  <2>1. FiberKnown(current', actions)
    BY <1>1, <1>2, <1>4 DEF KnownInv, FiberKnown
  <2>2. QueueKnown(queue', actions)
    <3>1. \A v \in Range(queue.interleaved) : v.id \in 1..Len(actions) /\ v.lane \in Lane
      BY <1>1, QueueKnownIs DEF KnownInv, TypeOK
    <3>2. \A v \in Range(queue'.pending) \cup Range(queue'.interleaved) :
             v.id \in 1..Len(actions) /\ v.lane \in Lane
      BY <1>3, <3>1, RangeEmpty
    <3> QED BY <1>3, <3>2, QueueKnownIs
  <2> QED BY <1>1, <1>2, <1>4, <2>1, <2>2 DEF KnownInv
<1>7. WorkInv'
  BY <1>1, <1>2 DEF WorkInv, Visited
<1>8. ValueInv'
  <2> SUFFICES ASSUME ~forgotten
               PROVE  /\ FiberRight(current', actions) /\ FiberRight(Rendered, actions)
                      /\ ~render'.forgets => FiberInv(current', queue', actions)
                      /\ FiberInv(Rendered, queue', actions)
    BY <1>2 DEF ValueInv
  <2>1. /\ FiberRight(current, actions) /\ FiberInv(current, queue, actions)
    BY <1>1, <1>2 DEF ValueInv, WorkInv, Visited
  <2>2. FiberRight(current', actions)
    BY <1>2, <2>1 DEF FiberRight
  <2>3. FiberRight(Rendered, actions)
    BY <1>1, <2>1, RenderedRight
  <2>4. FiberInv(Rendered, queue', actions)
    BY <1>1, <1>2, <2>1, RenderedInv
  <2>5. ASSUME ~render'.forgets PROVE FiberInv(current', queue', actions)
    <3> DEFINE c == current'
    <3>1. /\ c \in FiberSet /\ c.baseQueue = List
          /\ c.baseState = current.baseState /\ c.memoizedState = current.memoizedState
          /\ \/ c.lanes = current.lanes
             \/ /\ c.lanes = current.lanes \ render.lanes
                /\ render.lanes \cap LanesOf(List \o queue.interleaved) = NoLanes
                /\ Rendered.memoizedState.value = current.memoizedState.value
      BY <1>2, <2>5
    <3> HIDE DEF c
    <3>2. FiberInv(c, queue', actions)
      BY <1>1, <1>2, <2>1, <3>1, TransferredInv
    <3> QED BY <3>2 DEF c
  <2> QED BY <2>2, <2>3, <2>4, <2>5
<1> QED
  BY <1>5, <1>6, <1>7, <1>8 DEF Inv

LEMMA CompleteInv ==
    ASSUME Inv, Complete \/ CompleteSuspended
    PROVE  Inv'
<1>1. /\ TypeOK /\ KnownInv /\ WorkInv /\ ValueInv /\ render \in RenderSet /\ root \in RootSet
      /\ render.phase = "visited"
  BY DEF Inv, TypeOK, Complete, CompleteSuspended, InRender
<1>2. /\ UNCHANGED <<elsewhere, current, alternate, queue, actions, forgotten>>
      /\ \E phase \in {"done", "suspended"} : render' = [render EXCEPT !.phase = phase]
  BY DEF Complete, CompleteSuspended, history
<1>3. /\ render' \in RenderSet /\ render'.phase \in {"done", "suspended"}
      /\ render'.forgets = render.forgets
  BY <1>1, <1>2 DEF RenderSet
<1>4. root' \in RootSet /\ root'.pendingLanes = root.pendingLanes
  <2>1. CASE Complete
    BY <1>1, <2>1 DEF Complete
  <2>2. CASE CompleteSuspended
    <3> DEFINE lanes == render.lanes \ render.updated
    <3>1. root' = MarkRootSuspended(root, lanes)
      BY <2>2 DEF CompleteSuspended
    <3>2. lanes \in SUBSET Lane
      BY <1>1 DEF RenderSet
    <3>3. MarkRootSuspended(root, lanes) \in RootSet
      BY <1>1, <3>2, RootTypes, LaneAssumption DEF MarkRootSuspended, RootSet
    <3>4. MarkRootSuspended(root, lanes).pendingLanes = root.pendingLanes
      BY <1>1 DEF MarkRootSuspended, RootSet
    <3> QED BY <3>1, <3>3, <3>4
  <2> QED BY <2>1, <2>2
<1>5. TypeOK'
  BY <1>1, <1>2, <1>3, <1>4 DEF TypeOK
<1>6. KnownInv' /\ WorkInv' /\ ValueInv'
  BY <1>1, <1>2, <1>3, <1>4 DEF KnownInv, WorkInv, ValueInv, Visited
<1> QED
  BY <1>5, <1>6 DEF Inv

LEMMA PingInv ==
    ASSUME Inv, Ping
    PROVE  Inv'
<1>1. /\ TypeOK /\ KnownInv /\ WorkInv /\ ValueInv /\ root \in RootSet
  BY DEF Inv, TypeOK
<1>2. /\ root' = MarkRootPinged(root, root.suspendedLanes)
      /\ UNCHANGED <<elsewhere, current, alternate, queue, render, actions, forgotten>>
  BY DEF Ping, history
<1>3. root' \in RootSet /\ root'.pendingLanes = root.pendingLanes
  BY <1>1, <1>2 DEF MarkRootPinged, RootSet
<1>4. TypeOK'
  BY <1>1, <1>2, <1>3 DEF TypeOK
<1>5. KnownInv' /\ WorkInv' /\ ValueInv'
  BY <1>1, <1>2, <1>3 DEF KnownInv, WorkInv, ValueInv, Visited
<1> QED
  BY <1>4, <1>5 DEF Inv

LEMMA CommitInv ==
    ASSUME Inv, Commit
    PROVE  Inv'
<1> DEFINE left == (elsewhere \ render.lanes) \cup (elsewhere \cap render.updated)
           remaining == alternate.lanes \cup left
<1>1. /\ TypeOK /\ KnownInv /\ WorkInv /\ ValueInv /\ root \in RootSet
      /\ alternate \in FiberSet /\ elsewhere \subseteq Lane
  BY DEF Inv, TypeOK
<1>2. /\ render.phase \in {"done", "suspended"}
      /\ current' = alternate /\ alternate' = current /\ elsewhere' = left
      /\ root' = MarkRootFinished(root, remaining) /\ render' = NoRender
      /\ UNCHANGED <<queue, actions, forgotten>>
  BY DEF Commit, history
<1>3. left \in SUBSET Lane /\ remaining \in SUBSET Lane /\ alternate.lanes \subseteq remaining
  BY <1>1 DEF FiberSet
<1>4. root' \in RootSet /\ root'.pendingLanes = remaining
  <2> HIDE DEF remaining
  <2>1. [l \in Lane |-> IF l \in root.pendingLanes \ remaining THEN NoLanes
                        ELSE root.entanglements[l]] \in [Lane -> SUBSET Lane]
    BY <1>1 DEF RootSet, NoLanes
  <2> QED BY <1>1, <1>2, <1>3, <2>1 DEF MarkRootFinished, RootSet, NoLanes
<1> HIDE DEF remaining, left
<1>5. render' \in RenderSet /\ render'.phase = "none" /\ render'.forgets = FALSE
  BY <1>2 DEF NoRender, RenderSet, NoLanes
<1>6. TypeOK'
  BY <1>1, <1>2, <1>3, <1>4, <1>5 DEF TypeOK
<1>7. KnownInv'
  BY <1>1, <1>2 DEF KnownInv
<1>8. WorkInv'
  BY <1>2, <1>3, <1>4, <1>5 DEF WorkInv
<1>9. ValueInv'
  <2>1. Visited /\ ~Visited'
    BY <1>2, <1>5 DEF Visited
  <2> QED BY <1>1, <1>2, <2>1 DEF ValueInv
<1> QED
  BY <1>6, <1>7, <1>8, <1>9 DEF Inv

LEMMA InitInv ==
    ASSUME Init
    PROVE  Inv
<1>1. /\ root = [pendingLanes |-> NoLanes, suspendedLanes |-> NoLanes, pingedLanes |-> NoLanes,
                 entangledLanes |-> NoLanes, entanglements |-> [l \in Lane |-> NoLanes]]
      /\ elsewhere = NoLanes /\ current = NoWork /\ alternate = NoWork
      /\ queue = [pending |-> << >>, interleaved |-> << >>, lanes |-> NoLanes,
                  lastRenderedState |-> InitialState]
      /\ render = NoRender /\ actions = << >> /\ forgotten = FALSE
  BY DEF Init
<1>2. << >> \in Seq(UpdateSet) /\ << >> \in Seq(Ids) /\ << >> \in Seq(Actions)
      /\ Len(<< >>) = 0 /\ InitialState \in State
  BY HookQueueAssumption
<1>3. NoWork \in FiberSet /\ queue \in QueueSet /\ render \in RenderSet /\ root \in RootSet
  <2>1. NoUpdates \in StateSet
    BY <1>2 DEF NoUpdates, StateSet
  <2>2. NoWork \in FiberSet
    BY <1>2, <2>1 DEF NoWork, FiberSet, NoLanes
  <2>3. queue \in QueueSet
    BY <1>1, <1>2 DEF QueueSet, NoLanes
  <2>4. render \in RenderSet
    BY <1>1 DEF NoRender, RenderSet, NoLanes
  <2>5. root \in RootSet
    BY <1>1 DEF RootSet, NoLanes
  <2> QED BY <2>2, <2>3, <2>4, <2>5
<1>4. TypeOK
  BY <1>1, <1>2, <1>3 DEF TypeOK, NoLanes
<1>5. /\ NoWork.lanes = NoLanes /\ NoWork.baseQueue = << >>
      /\ NoWork.baseState.applied = << >> /\ NoWork.memoizedState.applied = << >>
      /\ NoWork.baseState.value = InitialState /\ NoWork.memoizedState.value = InitialState
  BY DEF NoWork, NoUpdates
<1>6. \A x : x.applied = << >> /\ x.value = InitialState => Right(x, << >>)
  <2>1. Dispatched(<< >>, << >>)
    BY <1>2 DEF Dispatched
  <2>2. PICK f : Results(f, << >>, << >>, Len(<< >>)) /\ ResultOf(<< >>, << >>) = f[Len(<< >>)]
    BY <1>2, <2>1, ResultExists
  <2>3. ResultOf(<< >>, << >>) = InitialState
    BY <1>2, <2>2 DEF Results
  <2> QED BY <2>3 DEF Right
<1>7. FiberKnown(NoWork, << >>) /\ FiberRight(NoWork, << >>)
  BY <1>2, <1>5, <1>6 DEF FiberKnown, FiberRight, Dispatched, Known
<1>8. KnownInv
  <2>1. QueueKnown(queue, << >>)
    BY <1>1, <1>2, RangeEmpty DEF QueueKnown, Known
  <2> QED BY <1>1, <1>2, <1>7, <2>1, HookQueueAssumption DEF KnownInv
<1>9. WorkInv
  BY <1>1, <1>5 DEF WorkInv, NoRender, NoLanes
<1>10. FiberInv(NoWork, queue, << >>)
  <2>1. Queued(NoWork, queue) = {}
    BY <1>1, <1>5, RangeEmpty DEF Queued
  <2>2. BaseInv(NoWork, queue)
    BY <1>1, <1>5 DEF BaseInv
  <2>3. CoverInv(NoWork, queue, << >>)
    BY <1>2, <1>5, <2>1, RangeEmpty DEF CoverInv
  <2> QED BY <2>1, <2>2, <2>3 DEF FiberInv, LaneInv, EagerInv, EagerOn
<1>11. ValueInv
  BY <1>1, <1>7, <1>10 DEF ValueInv
<1> QED
  BY <1>4, <1>8, <1>9, <1>11 DEF Inv

LEMMA StepInv ==
    ASSUME Inv, [Next]_vars
    PROVE  Inv'
<1>1. ASSUME NEW lane \in EventLanes, NEW action \in Actions, DispatchSetState(lane, action)
      PROVE  Inv'
  BY <1>1, DispatchInv
<1>2. ASSUME NEW lane \in EventLanes, UpdateElsewhere(lane)
      PROVE  Inv'
  BY <1>2, UpdateElsewhereInv
<1>3. CASE StartRender
  BY <1>3, StartRenderInv
<1>4. CASE BailOut
  BY <1>4, BailOutInv
<1>5. ASSUME NEW newProps \in BOOLEAN, RenderComponent(newProps)
      PROVE  Inv'
  BY <1>5, RenderComponentInv
<1>6. CASE Complete \/ CompleteSuspended
  BY <1>6, CompleteInv
<1>7. CASE Ping
  BY <1>7, PingInv
<1>8. CASE Commit
  BY <1>8, CommitInv
<1>9. CASE UNCHANGED vars
  BY <1>9 DEF vars, Inv, TypeOK, KnownInv, WorkInv, ValueInv, Visited
<1> QED
  BY <1>1, <1>2, <1>3, <1>4, <1>5, <1>6, <1>7, <1>8, <1>9 DEF Next

(* The invariant holds in every state of every behaviour.                  *)
THEOREM InductiveInvariant == Spec => []Inv
<1>1. Init => Inv
  BY InitInv
<1>2. Inv /\ [Next]_vars => Inv'
  BY StepInv
<1> QED
  BY <1>1, <1>2, PTL DEF Spec

(* Lanes, updates and states are what they should be: among others, every  *)
(* state that updateReducer computes is one of the hook, and the lanes of  *)
(* the queue stay transitions.                                             *)
THEOREM TypeCorrect == Spec => []TypeOK
<1>1. Inv => TypeOK
  BY DEF Inv
<1> QED
  BY <1>1, InductiveInvariant, PTL

(* The states of both fibers are what their updates' actions give, if they *)
(* were applied in order and no component with work has lost its lane: an  *)
(* eager state that dispatchSetState computed stays right in every render. *)
THEOREM EagerStatesAreRight == Spec => []EagerStateIsRight
<1>1. Inv => EagerStateIsRight
  BY ResultIsResultOf DEF Inv, ValueInv, FiberRight, Right, EagerStateIsRight
<1> QED
  BY <1>1, InductiveInvariant, PTL

-----------------------------------------------------------------------------
(* Nothing is lost.                                                        *)

(* Increasing numbers that are all those up to n come as 1, 2, ... n.      *)
LEMMA IncreasingIsAll ==
    ASSUME NEW s \in Seq(Ids), NEW n \in Nat, Increasing(s), Range(s) = 1..n
    PROVE  Len(s) = n /\ \A i \in 1..n : s[i] = i
<1>1. /\ Len(s) \in Nat /\ \A i \in 1..Len(s) : s[i] \in 1..n
      /\ \A x \in 1..n : \E i \in 1..Len(s) : x = s[i]
      /\ \A i, j \in 1..Len(s) : i < j => s[i] < s[j]
  <2>1. DOMAIN s = 1..Len(s) /\ Len(s) \in Nat
    BY LenProperties
  <2> QED BY <2>1 DEF Range, Increasing
<1> DEFINE P == {i \in 0..Len(s) : \A j \in 1..i : s[j] = j}
<1>2. 0 \in P
  BY <1>1
<1>3. ASSUME NEW i \in 1..Len(s), i - 1 \in P PROVE i \in P
  <2>1. \A j \in 1..(i - 1) : s[j] = j
    BY <1>3
  <2>2. s[i] >= i
    <3>1. CASE i = 1
      BY <1>1, <3>1
    <3>2. CASE i # 1
      <4>1. i - 1 \in 1..(i - 1) /\ i - 1 \in 1..Len(s) /\ i - 1 < i
        BY <1>1, <3>2
      <4>2. s[i - 1] = i - 1 /\ s[i - 1] < s[i]
        BY <1>1, <2>1, <4>1
      <4> QED BY <1>1, <4>2
    <3> QED BY <3>1, <3>2
  <2>3. i \in 1..n
    BY <1>1, <2>2
  <2>4. PICK k \in 1..Len(s) : i = s[k]
    BY <1>1, <2>3
  <2>5. k = i
    <3>1. ~(k < i)
      <4> SUFFICES ASSUME k < i PROVE FALSE
        OBVIOUS
      <4>1. k \in 1..(i - 1)
        BY <1>1
      <4> QED BY <2>1, <2>4, <4>1
    <3>2. ~(i < k)
      <4> SUFFICES ASSUME i < k PROVE FALSE
        OBVIOUS
      <4>1. s[i] < s[k] /\ s[i] \in Int
        BY <1>1
      <4> QED BY <2>2, <2>4, <4>1
    <3> QED BY <1>1, <3>1, <3>2
  <2>6. ASSUME NEW j \in 1..i PROVE s[j] = j
    <3>1. j \in 1..(i - 1) \/ j = i
      OBVIOUS
    <3> QED BY <2>1, <2>4, <2>5, <3>1
  <2> QED BY <1>1, <2>6
<1> HIDE DEF P
<1>4. \A i \in 0..Len(s) : i \in P
  BY <1>1, <1>2, <1>3, IntervalInduction
<1>5. \A i \in 1..Len(s) : s[i] = i
  <2>1. Len(s) \in P
    BY <1>1, <1>4
  <2> QED BY <2>1 DEF P
<1>6. Len(s) = n
  <2>1. Len(s) <= n
    <3> SUFFICES ASSUME Len(s) > n PROVE FALSE
      BY <1>1
    <3>1. Len(s) \in 1..Len(s)
      BY <1>1
    <3>2. s[Len(s)] = Len(s) /\ s[Len(s)] \in 1..n
      BY <1>1, <1>5, <3>1
    <3> QED BY <1>1, <3>2
  <2>2. n <= Len(s)
    <3> SUFFICES ASSUME n > Len(s) PROVE FALSE
      BY <1>1
    <3>1. n \in 1..n
      BY <1>1
    <3>2. PICK i \in 1..Len(s) : n = s[i]
      BY <1>1, <3>1
    <3>3. n = i
      BY <1>5, <3>2
    <3> QED BY <1>1, <3>3
  <2> QED BY <1>1, <2>1, <2>2
<1> QED
  BY <1>5, <1>6

(* The ids of the updates of a queue.                                      *)
IdsOf(list) == [i \in DOMAIN list |-> list[i].id]

LEMMA IdsOfIs ==
    ASSUME NEW list \in Seq(UpdateSet)
    PROVE  IdsOf(list) \in Seq(Ids) /\ Range(IdsOf(list)) = {u.id : u \in Range(list)}
<1>1. DOMAIN list = 1..Len(list) /\ Len(list) \in Nat
      /\ \A i \in 1..Len(list) : list[i] \in UpdateSet
  BY LenProperties
<1>2. IdsOf(list) \in [1..Len(list) -> Ids]
  <2>1. \A i \in 1..Len(list) : list[i].id \in Ids
    BY <1>1, UpdateFields
  <2> QED BY <1>1, <2>1 DEF IdsOf
<1>3. IdsOf(list) \in Seq(Ids)
  BY <1>1, <1>2
<1>4. Range(IdsOf(list)) = {list[i].id : i \in 1..Len(list)}
  BY <1>1 DEF Range, IdsOf
<1>5. Range(list) = {list[i] : i \in 1..Len(list)}
  BY <1>1 DEF Range
<1> QED
  BY <1>3, <1>4, <1>5

LEMMA WaitingIs ==
    ASSUME TypeOK
    PROVE  Waiting \in Seq(Ids) /\ Range(Waiting) = {u.id : u \in Queued(current, queue)}
<1> DEFINE b == IdsOf(current.baseQueue)
           p == IdsOf(queue.pending)
           i == IdsOf(queue.interleaved)
<1>1. /\ current.baseQueue \in Seq(UpdateSet) /\ queue.pending \in Seq(UpdateSet)
      /\ queue.interleaved \in Seq(UpdateSet)
  BY DEF TypeOK, FiberSet, QueueSet
<1>2. /\ b \in Seq(Ids) /\ Range(b) = {u.id : u \in Range(current.baseQueue)}
      /\ p \in Seq(Ids) /\ Range(p) = {u.id : u \in Range(queue.pending)}
      /\ i \in Seq(Ids) /\ Range(i) = {u.id : u \in Range(queue.interleaved)}
  BY <1>1, IdsOfIs
<1>3. Waiting = (b \o p) \o i
  BY DEF Waiting, IdsOf
<1> HIDE DEF b, p, i
<1>4. b \o p \in Seq(Ids) /\ Range(b \o p) = Range(b) \cup Range(p)
  BY <1>2, ConcatIs
<1> DEFINE bp == b \o p
<1> HIDE DEF bp
<1>5. bp \in Seq(Ids)
  BY <1>4 DEF bp
<1>6. bp \o i \in Seq(Ids) /\ Range(bp \o i) = Range(bp) \cup Range(i)
  BY <1>2, <1>5, ConcatIs
<1>7. Waiting \in Seq(Ids) /\ Range(Waiting) = Range(b) \cup Range(p) \cup Range(i)
  BY <1>3, <1>4, <1>6 DEF bp
<1> QED
  BY <1>2, <1>7 DEF Queued

(* All actions, one after the other, on the initial state.                 *)
All == [i \in DOMAIN actions |-> i]

LEMMA AllIs ==
    ASSUME TypeOK, KnownInv
    PROVE  /\ Dispatched(All, actions) /\ Len(All) = Len(actions) /\ Len(actions) \in Nat
           /\ \A i \in 1..Len(actions) : All[i] = i
<1>1. DOMAIN actions = 1..Len(actions) /\ Len(actions) \in Nat
  BY LenProperties DEF TypeOK
<1>2. 1..Len(actions) \subseteq Ids
  BY <1>1, HookQueueAssumption DEF KnownInv, Ids
<1>3. \A i \in 1..Len(actions) : All[i] = i
  BY <1>1 DEF All
<1>4. All \in [1..Len(actions) -> Ids]
  BY <1>1, <1>2 DEF All
<1>5. All \in Seq(Ids) /\ Len(All) = Len(actions)
  BY <1>1, <1>4, LenProperties
<1> QED
  BY <1>1, <1>3, <1>5 DEF Dispatched

LEMMA NothingLost ==
    ASSUME Inv
    PROVE  NothingIsLost
<1> SUFFICES ASSUME render.phase = "none", root.pendingLanes = NoLanes, ~forgotten,
                    Increasing(current.baseState.applied \o Waiting)
             PROVE  current.memoizedState.value = ResultOf(actions, All)
  BY ResultIsResultOf DEF NothingIsLost, All
<1> DEFINE base == current.baseState
           b == base.applied
           n == Len(actions)
           m == Len(b)
<1>1. /\ TypeOK /\ KnownInv /\ WorkInv /\ ValueInv /\ actions \in Seq(Actions)
      /\ base \in StateSet /\ b \in Seq(Ids) /\ base.value \in State
      /\ Dispatched(b, actions)
  BY DEF Inv, TypeOK, FiberSet, StateSet, KnownInv, FiberKnown
<1>2. current.lanes = NoLanes
  BY <1>1 DEF WorkInv, NoLanes
<1>3. FiberRight(current, actions) /\ FiberInv(current, queue, actions)
  BY <1>1 DEF WorkInv, ValueInv, Visited
<1>4. current.memoizedState.value = base.value
  BY <1>2, <1>3 DEF FiberInv, BaseInv
<1>5. \A u \in Queued(current, queue) : u.eager = <<base.value>>
  BY <1>2, <1>3 DEF FiberInv, LaneInv, NoLanes
<1>6. /\ Dispatched(All, actions) /\ Len(All) = n /\ n \in Nat
      /\ \A i \in 1..n : All[i] = i
  BY <1>1, AllIs
<1> HIDE DEF b
<1> DEFINE line == b \o Waiting
<1>7. /\ line \in Seq(Ids) /\ Range(line) = 1..n /\ Increasing(line)
      /\ m \in Nat /\ Len(line) \in Nat /\ m <= Len(line)
      /\ \A i \in 1..m : line[i] = b[i]
  <2>1. Waiting \in Seq(Ids) /\ Range(Waiting) = {u.id : u \in Queued(current, queue)}
    BY <1>1, WaitingIs
  <2>2. line \in Seq(Ids) /\ Range(line) = Range(b) \cup Range(Waiting)
    BY <1>1, <2>1, ConcatIs
  <2>3. Len(line) = Len(b) + Len(Waiting) /\ \A i \in 1..Len(b) : line[i] = b[i]
    BY <1>1, <2>1, ConcatProperties
  <2>4. Range(line) = 1..n
    BY <1>3, <2>1, <2>2 DEF FiberInv, CoverInv, b
  <2>5. Len(b) \in Nat /\ Len(Waiting) \in Nat
    BY <1>1, <2>1, LenProperties
  <2>6. Increasing(line)
    BY DEF b
  <2> HIDE DEF line
  <2> QED BY <2>2, <2>3, <2>4, <2>5, <2>6
<1> HIDE DEF line, n
<1>8. Len(line) = n /\ \A i \in 1..n : line[i] = i
  BY <1>6, <1>7, IncreasingIsAll
<1>9. m \in 0..n /\ \A i \in 1..m : b[i] = i
  BY <1>6, <1>7, <1>8
<1>10. Range(b) = 1..m
  <2>1. Range(b) = {b[i] : i \in 1..m}
    BY <1>1, LenProperties DEF Range
  <2> QED BY <1>9, <2>1
<1>11. PICK f : Results(f, actions, All, n) /\ ResultOf(actions, All) = f[n]
  BY <1>1, <1>6, ResultExists
<1>12. PICK g : Results(g, actions, b, m) /\ ResultOf(actions, b) = g[m]
  BY <1>1, ResultExists
<1> HIDE DEF m
<1>13. f[m] = base.value
  <2>1. g[m] = f[m]
    <3>1. SamePrefix(b, All, m, n)
      BY <1>6, <1>9 DEF SamePrefix
    <3> QED BY <1>11, <1>12, <3>1, ResultsPrefix
  <2>2. Increasing(b)
    <3>1. DOMAIN b = 1..m
      BY <1>1, LenProperties DEF m
    <3> QED BY <1>9, <3>1 DEF Increasing
  <2>3. base.value = ResultOf(actions, b)
    BY <1>3, <2>2 DEF FiberRight, Right, b
  <2> QED BY <1>12, <2>1, <2>3
<1>14. ASSUME NEW i \in 1..n, i > m PROVE actions[i][base.value] = base.value
  <2>1. i \notin Range(b)
    BY <1>6, <1>9, <1>10, <1>14
  <2>2. PICK u \in Queued(current, queue) : u.id = i
    <3>1. i \in Range(b) \cup {v.id : v \in Queued(current, queue)}
      BY <1>3 DEF FiberInv, CoverInv, n, b
    <3> QED BY <2>1, <3>1
  <2>3. \A id \in Range(b) : id < u.id
    BY <1>6, <1>9, <1>10, <1>14, <2>2
  <2>4. u.eager = <<base.value>>
    BY <1>5
  <2>5. u.eager = <<actions[i][base.value]>>
    <3>1. u.eager # << >>
      BY <1>1, <2>4
    <3> QED BY <1>3, <2>2, <2>3, <3>1 DEF FiberInv, EagerInv, EagerOn, b
  <2>6. actions[i][base.value] \in State
    BY <1>1, ActionType DEF n
  <2> HIDE DEF base
  <2> QED BY <1>1, <2>4, <2>5, <2>6
<1> DEFINE P == {i \in 0..n : i >= m => f[i] = base.value}
<1>15. 0 \in P
  BY <1>6, <1>9, <1>13
<1>16. ASSUME NEW i \in 1..n, i - 1 \in P PROVE i \in P
  <2> SUFFICES ASSUME i >= m PROVE f[i] = base.value
    BY <1>6
  <2>1. CASE i = m
    BY <1>13, <2>1
  <2>2. CASE i > m
    <3>1. f[i - 1] = base.value
      BY <1>6, <1>9, <1>16, <2>2
    <3>2. f[i] = actions[All[i]][f[i - 1]]
      BY <1>11 DEF Results
    <3> QED BY <1>6, <1>14, <2>2, <3>1, <3>2
  <2> QED BY <1>6, <1>9, <2>1, <2>2
<1> HIDE DEF P
<1>17. \A i \in 0..n : i \in P
  BY <1>6, <1>15, <1>16, IntervalInduction
<1>18. f[n] = base.value
  <2>1. n \in P
    BY <1>6, <1>17
  <2> QED BY <1>6, <1>9, <2>1 DEF P
<1> QED
  BY <1>4, <1>11, <1>18

(* A component whose root has no lane left shows what all its actions give *)
(* in order: setState dropped only what changes nothing, and renders that  *)
(* bailed out or were thrown away lost nothing.  Two cases, which the code *)
(* reaches, are excepted: updates that are applied out of order, because   *)
(* one that was kept apart from a render was overtaken, and a bailoutHooks *)
(* that took the lane of a waiting update off the current fiber.           *)
THEOREM NoUpdateIsLost == Spec => []NothingIsLost
<1>1. Inv => NothingIsLost
  BY NothingLost
<1> QED
  BY <1>1, InductiveInvariant, PTL
=============================================================================
