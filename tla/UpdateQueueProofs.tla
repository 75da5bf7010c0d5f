-------------------------- MODULE UpdateQueueProofs --------------------------
(***************************************************************************)
(* What holds of the update queue of a class component or root for any set *)
(* of lanes, whatever the bounds: the type invariant, the callbacks, the   *)
(* lanes of skipped updates, and that UpdateQueue implements               *)
(* AbstractUpdateQueue.                                                    *)
(*                                                                         *)
(* The inductive invariant Inv says what is true between any two steps:    *)
(*   - ShownInv: the state of a fiber is its base state and, of its base   *)
(*     queue, the updates that were rebased, in their order;               *)
(*   - WaitingInv: an update that was not rendered yet has its lane, so that *)
(*     only rebased updates have none;                                     *)
(*   - IdsInv: no update is in the queue twice;                            *)
(*   - WipInv: what is rendered has the updates of the current fiber in the *)
(*     same order, and the one of a captured error where it can be inserted, *)
(*     shows what the current fiber shows, and calls back what it does not; *)
(*   - PhaseInv: when the update of a captured error is there, and pending. *)
(* SkippedUpdatesHaveLanes is inductive by itself as far as the types and  *)
(* the phases of Inv are known.                                            *)
(*                                                                         *)
(* What is computed from a queue (the updates applied, their identifiers,  *)
(* the first that is skipped) is proved by induction over its length:      *)
(* SequencesByAppend takes a set of sequences that has the empty one and is *)
(* closed under Append.                                                    *)
(***************************************************************************)
EXTENDS UpdateQueue, DataLemmas

(* Induction over the length of a sequence, for a set of sequences.        *)
LEMMA SequencesByAppend ==
    ASSUME NEW S, NEW P, << >> \in P,
           \A s \in Seq(S) : \A e \in S : s \in P => Append(s, e) \in P
    PROVE  \A s \in Seq(S) : s \in P
<1> SUFFICES ASSUME NEW s0 \in Seq(S), s0 \notin P PROVE FALSE
  OBVIOUS
<1> DEFINE Lengths == {Len(s) : s \in Seq(S) \ P}
<1>1. PICK n \in Lengths : \A m \in Lengths : n <= m
  <2>1. Lengths \subseteq Nat
    BY LenProperties
  <2>2. Len(s0) \in Lengths
    OBVIOUS
  <2> HIDE DEF Lengths
  <2> QED BY <2>1, <2>2, LeastNatural
<1>2. PICK s \in Seq(S) \ P : n = Len(s)
  BY <1>1
<1>3. PICK t \in Seq(S), e \in S : s = Append(t, e)
  BY <1>2, SequenceEmptyOrAppend
<1>4. t \notin P
  BY <1>2, <1>3
<1>5. Len(t) \in Lengths
  BY <1>4
<1>6. Len(s) = Len(t) + 1 /\ Len(t) \in Nat
  BY <1>3, AppendProperties, LenProperties
<1> QED
  BY <1>1, <1>2, <1>5, <1>6

LEMMA ConcatAppend ==
    ASSUME NEW S, NEW s \in Seq(S), NEW t \in Seq(S), NEW e \in S
    PROVE  s \o Append(t, e) = Append(s \o t, e)
<1>1. <<e>> \in Seq(S) /\ s \o t \in Seq(S)
  BY ConcatProperties
<1>2. Append(t, e) = t \o <<e>> /\ Append(s \o t, e) = (s \o t) \o <<e>>
  BY <1>1, AppendIsConcat
<1> QED
  BY <1>1, <1>2, ConcatAssociative

-----------------------------------------------------------------------------
(* The elements of a sequence that are in a set.                           *)

(* f is the function with which Only is computed for s.                    *)
IsKept(f, s, set) ==
    f = [i \in 0..Len(s) |->
            IF i = 0 THEN << >>
            ELSE IF s[i] \in set THEN Append(f[i - 1], s[i]) ELSE f[i - 1]]

LEMMA KeptIsUnique ==
    ASSUME NEW S, NEW s \in Seq(S), NEW set, NEW f, NEW g,
           IsKept(f, s, set), IsKept(g, s, set)
    PROVE  f = g
<1>1. Len(s) \in Nat
  BY LenProperties
<1>2. ASSUME NEW n \in 0..Len(s), f[n] # g[n] PROVE FALSE
  <2> DEFINE Bad == {i \in 0..Len(s) : f[i] # g[i]}
  <2>1. PICK i \in Bad : \A j \in Bad : i <= j
    <3>1. Bad \subseteq Nat /\ Bad # {}
      BY <1>1, <1>2
    <3> HIDE DEF Bad
    <3> QED BY <3>1, LeastNatural
  <2>2. i # 0
    BY <2>1 DEF IsKept
  <2>3. i - 1 \in 0..Len(s) /\ i - 1 < i
    BY <1>1, <2>1, <2>2
  <2>4. f[i - 1] = g[i - 1]
    BY <2>1, <2>3
  <2>5. f[i] = g[i]
    BY <2>1, <2>2, <2>4 DEF IsKept
  <2> QED BY <2>1, <2>5
<1>3. f = [i \in 0..Len(s) |-> f[i]] /\ g = [i \in 0..Len(s) |-> g[i]]
  BY DEF IsKept
<1> QED
  BY <1>2, <1>3

LEMMA KeptOfAppend ==
    ASSUME NEW S, NEW s \in Seq(S), NEW e \in S, NEW set, NEW f, IsKept(f, s, set)
    PROVE  LET last == IF e \in set THEN Append(f[Len(s)], e) ELSE f[Len(s)]
               g == [i \in 0..(Len(s) + 1) |-> IF i <= Len(s) THEN f[i] ELSE last]
           IN  IsKept(g, Append(s, e), set) /\ g[Len(s) + 1] = last
<1> DEFINE last == IF e \in set THEN Append(f[Len(s)], e) ELSE f[Len(s)]
           g == [i \in 0..(Len(s) + 1) |-> IF i <= Len(s) THEN f[i] ELSE last]
           t == Append(s, e)
           h(i) == IF i = 0 THEN << >>
                   ELSE IF t[i] \in set THEN Append(g[i - 1], t[i]) ELSE g[i - 1]
<1>1. Len(s) \in Nat /\ Len(t) = Len(s) + 1
      /\ (\A i \in 1..Len(s) : t[i] = s[i]) /\ t[Len(s) + 1] = e
  BY LenProperties, AppendProperties
<1>2. ASSUME NEW i \in 0..(Len(s) + 1) PROVE g[i] = h(i)
  <2>1. CASE i = 0
    <3>1. g[i] = f[i]
      BY <1>1, <2>1
    <3> QED BY <3>1, <2>1, <1>1 DEF IsKept
  <2>2. CASE i \in 1..Len(s)
    <3>1. g[i] = f[i] /\ g[i - 1] = f[i - 1] /\ t[i] = s[i]
      BY <1>1, <2>2
    <3>2. f[i] = IF s[i] \in set THEN Append(f[i - 1], s[i]) ELSE f[i - 1]
      <4>1. i \in 0..Len(s) /\ i # 0
        BY <1>1, <2>2
      <4> QED BY <4>1 DEF IsKept
    <3> QED BY <2>2, <3>1, <3>2
  <2>3. CASE i = Len(s) + 1
    <3>1. g[i] = last /\ g[i - 1] = f[Len(s)] /\ t[i] = e /\ i # 0
      BY <1>1, <2>3
    <3> QED BY <3>1
  <2> QED BY <1>1, <2>1, <2>2, <2>3
<1>3. g = [i \in 0..Len(t) |-> h(i)]
  BY <1>1, <1>2
<1>4. IsKept(g, t, set)
  BY <1>3 DEF IsKept
<1>5. g[Len(s) + 1] = last
  BY <1>1
<1> QED
  BY <1>4, <1>5

LEMMA KeptExists ==
    ASSUME NEW S, NEW s \in Seq(S), NEW set
    PROVE  \E f : IsKept(f, s, set)
<1> DEFINE P == {q \in Seq(S) : \E f : IsKept(f, q, set)}
<1>1. << >> \in P
  <2>1. IsKept([i \in {0} |-> << >>], << >>, set)
    BY EmptySeq DEF IsKept
  <2> QED BY <2>1, EmptySeq
<1>2. ASSUME NEW q \in Seq(S), NEW e \in S, q \in P PROVE Append(q, e) \in P
  <2>1. PICK f : IsKept(f, q, set)
    BY <1>2
  <2>2. \E g : IsKept(g, Append(q, e), set)
    BY <2>1, KeptOfAppend
  <2> QED BY <2>2, AppendProperties
<1> HIDE DEF P
<1>3. s \in P
  BY <1>1, <1>2, SequencesByAppend
<1> QED
  BY <1>3 DEF P

LEMMA OnlyIsKept ==
    ASSUME NEW S, NEW s \in Seq(S), NEW set, NEW f, IsKept(f, s, set)
    PROVE  Only(s, set) = f[Len(s)]
<1> DEFINE kept == CHOOSE g : IsKept(g, s, set)
<1>1. IsKept(kept, s, set)
  BY KeptExists
<1>2. kept = f
  <2> HIDE DEF kept
  <2> QED BY <1>1, KeptIsUnique
<1>3. Only(s, set) = kept[Len(s)]
  BY DEF Only, IsKept
<1> QED
  BY <1>2, <1>3

LEMMA OnlyEmpty ==
    ASSUME NEW set
    PROVE  Only(<< >>, set) = << >>
<1>1. IsKept([i \in {0} |-> << >>], << >>, set)
  BY EmptySeq DEF IsKept
<1>2. << >> \in Seq({}) /\ Len(<< >>) = 0
  BY EmptySeq
<1> QED BY <1>1, <1>2, OnlyIsKept

LEMMA OnlyAppend ==
    ASSUME NEW S, NEW s \in Seq(S), NEW e \in S, NEW set
    PROVE  Only(Append(s, e), set) =
              IF e \in set THEN Append(Only(s, set), e) ELSE Only(s, set)
<1>1. PICK f : IsKept(f, s, set)
  BY KeptExists
<1>2. Only(s, set) = f[Len(s)]
  BY <1>1, OnlyIsKept
<1> DEFINE last == IF e \in set THEN Append(f[Len(s)], e) ELSE f[Len(s)]
           g == [i \in 0..(Len(s) + 1) |-> IF i <= Len(s) THEN f[i] ELSE last]
<1>3. IsKept(g, Append(s, e), set) /\ g[Len(s) + 1] = last
  BY <1>1, KeptOfAppend
<1>4. Append(s, e) \in Seq(S) /\ Len(Append(s, e)) = Len(s) + 1
  BY AppendProperties
<1> HIDE DEF g
<1>5. Only(Append(s, e), set) = g[Len(s) + 1]
  BY <1>3, <1>4, OnlyIsKept
<1> QED
  BY <1>2, <1>3, <1>5

-----------------------------------------------------------------------------
(* The elements of a sequence, and sequences without duplicates.           *)

(* No element is in the sequence twice.                                    *)
Distinct(s) == \A i, j \in DOMAIN s : s[i] = s[j] => i = j

LEMMA ElementsEmpty ==
    ElementsOf(<< >>) = {} /\ Distinct(<< >>)
  BY DEF ElementsOf, Distinct

LEMMA ElementsAppend ==
    ASSUME NEW S, NEW s \in Seq(S), NEW e \in S
    PROVE  /\ Append(s, e) \in Seq(S)
           /\ ElementsOf(Append(s, e)) = ElementsOf(s) \cup {e}
           /\ Distinct(Append(s, e)) <=> Distinct(s) /\ e \notin ElementsOf(s)
<1>1. ElementsOf(Append(s, e)) = ElementsOf(s) \cup {e}
  BY RangeAppend DEF Range, ElementsOf
<1>2. /\ Append(s, e) \in Seq(S) /\ Len(Append(s, e)) = Len(s) + 1 /\ Len(s) \in Nat
      /\ (\A i \in 1..Len(s) : Append(s, e)[i] = s[i]) /\ Append(s, e)[Len(s) + 1] = e
  BY AppendProperties, LenProperties
<1>3. DOMAIN s = 1..Len(s) /\ DOMAIN Append(s, e) = 1..(Len(s) + 1)
  BY <1>2, LenProperties
<1>4. ASSUME Distinct(Append(s, e)) PROVE Distinct(s) /\ e \notin ElementsOf(s)
  <2>1. \A i, j \in 1..(Len(s) + 1) : Append(s, e)[i] = Append(s, e)[j] => i = j
    BY <1>3, <1>4 DEF Distinct
  <2>2. Distinct(s)
    BY <1>2, <1>3, <2>1 DEF Distinct
  <2>3. \A i \in 1..Len(s) : s[i] # e
    BY <1>2, <2>1
  <2> QED BY <1>3, <2>2, <2>3 DEF ElementsOf
<1>5. ASSUME Distinct(s), e \notin ElementsOf(s) PROVE Distinct(Append(s, e))
  <2>1. \A i, j \in 1..Len(s) : s[i] = s[j] => i = j
    BY <1>3, <1>5 DEF Distinct
  <2>2. \A i \in 1..Len(s) : s[i] # e
    BY <1>3, <1>5 DEF ElementsOf
  <2>3. \A i \in 1..(Len(s) + 1) : i \in 1..Len(s) \/ i = Len(s) + 1
    BY <1>2
  <2> HIDE DEF ElementsOf
  <2>4. ASSUME NEW i \in 1..(Len(s) + 1), NEW j \in 1..(Len(s) + 1),
               Append(s, e)[i] = Append(s, e)[j]
        PROVE  i = j
    BY <1>2, <2>1, <2>2, <2>3, <2>4
  <2> QED BY <1>3, <2>4 DEF Distinct
<1> QED
  BY <1>1, <1>2, <1>4, <1>5

LEMMA ElementsType ==
    ASSUME NEW S, NEW s \in Seq(S)
    PROVE  ElementsOf(s) \subseteq S
  BY RangeOfSet DEF Range, ElementsOf

LEMMA ElementsConcat ==
    ASSUME NEW S, NEW s \in Seq(S), NEW t \in Seq(S)
    PROVE  /\ s \o t \in Seq(S)
           /\ ElementsOf(s \o t) = ElementsOf(s) \cup ElementsOf(t)
           /\ Distinct(s \o t) <=>
                 Distinct(s) /\ Distinct(t) /\ ElementsOf(s) \cap ElementsOf(t) = {}
<1> DEFINE P == {q \in Seq(S) :
                   /\ ElementsOf(s \o q) = ElementsOf(s) \cup ElementsOf(q)
                   /\ Distinct(s \o q) <=>
                         Distinct(s) /\ Distinct(q) /\ ElementsOf(s) \cap ElementsOf(q) = {}}
<1>1. << >> \in P
  <2>1. s \o << >> = s /\ << >> \in Seq(S)
    BY ConcatEmptySeq, EmptySeq
  <2> QED BY <2>1, ElementsEmpty
<1>2. ASSUME NEW q \in Seq(S), NEW e \in S, q \in P PROVE Append(q, e) \in P
  <2>1. s \o q \in Seq(S)
    BY ConcatProperties
  <2>2. s \o Append(q, e) = Append(s \o q, e)
    BY ConcatAppend
  <2>3. /\ ElementsOf(Append(s \o q, e)) = ElementsOf(s \o q) \cup {e}
        /\ Distinct(Append(s \o q, e)) <=> Distinct(s \o q) /\ e \notin ElementsOf(s \o q)
    BY <2>1, ElementsAppend
  <2>4. /\ Append(q, e) \in Seq(S)
        /\ ElementsOf(Append(q, e)) = ElementsOf(q) \cup {e}
        /\ Distinct(Append(q, e)) <=> Distinct(q) /\ e \notin ElementsOf(q)
    BY ElementsAppend
  <2> QED BY <1>2, <2>2, <2>3, <2>4
<1> HIDE DEF P
<1>3. t \in P
  BY <1>1, <1>2, SequencesByAppend
<1> QED
  BY <1>3, ConcatProperties DEF P

-----------------------------------------------------------------------------
(* What Only keeps.                                                        *)

LEMMA OnlyElements ==
    ASSUME NEW S, NEW s \in Seq(S), NEW set
    PROVE  /\ Only(s, set) \in Seq(S)
           /\ ElementsOf(Only(s, set)) = ElementsOf(s) \cap set
           /\ ElementsOf(s) \subseteq set => Only(s, set) = s
           /\ ElementsOf(s) \cap set = {} => Only(s, set) = << >>
<1> DEFINE P == {q \in Seq(S) :
                   /\ Only(q, set) \in Seq(S)
                   /\ ElementsOf(Only(q, set)) = ElementsOf(q) \cap set
                   /\ ElementsOf(q) \subseteq set => Only(q, set) = q
                   /\ ElementsOf(q) \cap set = {} => Only(q, set) = << >>}
<1>1. << >> \in P
  BY OnlyEmpty, EmptySeq, ElementsEmpty
<1>2. ASSUME NEW q \in Seq(S), NEW e \in S, q \in P PROVE Append(q, e) \in P
  <2>1. Only(Append(q, e), set) = IF e \in set THEN Append(Only(q, set), e) ELSE Only(q, set)
    BY OnlyAppend
  <2>2. Append(q, e) \in Seq(S) /\ ElementsOf(Append(q, e)) = ElementsOf(q) \cup {e}
    BY ElementsAppend
  <2>3. Append(Only(q, set), e) \in Seq(S)
        /\ ElementsOf(Append(Only(q, set), e)) = ElementsOf(Only(q, set)) \cup {e}
    BY <1>2, ElementsAppend
  <2> QED BY <1>2, <2>1, <2>2, <2>3
<1> HIDE DEF P
<1>3. s \in P
  BY <1>1, <1>2, SequencesByAppend
<1> QED
  BY <1>3 DEF P

LEMMA OnlyConcat ==
    ASSUME NEW S, NEW s \in Seq(S), NEW t \in Seq(S), NEW set
    PROVE  Only(s \o t, set) = Only(s, set) \o Only(t, set)
<1> DEFINE P == {q \in Seq(S) : Only(s \o q, set) = Only(s, set) \o Only(q, set)}
<1>1. << >> \in P
  <2>1. s \o << >> = s /\ << >> \in Seq(S)
    BY ConcatEmptySeq, EmptySeq
  <2>2. Only(s, set) \o << >> = Only(s, set)
    BY OnlyElements, ConcatEmptySeq
  <2> QED BY <2>1, <2>2, OnlyEmpty
<1>2. ASSUME NEW q \in Seq(S), NEW e \in S, q \in P PROVE Append(q, e) \in P
  <2>1. Append(q, e) \in Seq(S) /\ s \o q \in Seq(S)
    BY ElementsAppend, ConcatProperties
  <2>2. s \o Append(q, e) = Append(s \o q, e)
    BY ConcatAppend
  <2>3. Only(s \o Append(q, e), set) =
           IF e \in set THEN Append(Only(s \o q, set), e) ELSE Only(s \o q, set)
    BY <2>1, <2>2, OnlyAppend
  <2>4. Only(Append(q, e), set) = IF e \in set THEN Append(Only(q, set), e) ELSE Only(q, set)
    BY OnlyAppend
  <2>5. Only(s, set) \o Append(Only(q, set), e) = Append(Only(s, set) \o Only(q, set), e)
    BY OnlyElements, ConcatAppend
  <2> QED BY <1>2, <2>1, <2>3, <2>4, <2>5
<1> HIDE DEF P
<1>3. t \in P
  BY <1>1, <1>2, SequencesByAppend
<1> QED
  BY <1>3 DEF P

-----------------------------------------------------------------------------
(* The identifiers of updates.                                             *)

LEMMA UpdateFields ==
    ASSUME NEW u \in UpdateSet
    PROVE  u.id \in Ids /\ u.lane \in Lane \cup {NoLane}
  BY DEF UpdateSet

LEMMA IdsType ==
    ASSUME NEW s \in Seq(UpdateSet)
    PROVE  /\ IdsOf(s) \in Seq(Ids) /\ Len(IdsOf(s)) = Len(s)
           /\ ElementsOf(IdsOf(s)) = {u.id : u \in ElementsOf(s)}
           /\ \A i \in DOMAIN s : IdsOf(s)[i] = s[i].id
<1>1. DOMAIN s = 1..Len(s) /\ Len(s) \in Nat /\ \A i \in 1..Len(s) : s[i].id \in Ids
  <2>1. DOMAIN s = 1..Len(s) /\ Len(s) \in Nat /\ \A i \in 1..Len(s) : s[i] \in UpdateSet
    BY LenProperties
  <2> QED BY <2>1, UpdateFields
<1>2. IdsOf(s) \in [1..Len(s) -> Ids]
  BY <1>1 DEF IdsOf
<1>3. IdsOf(s) \in Seq(Ids)
  BY <1>1, <1>2, SeqDef
<1>4. DOMAIN IdsOf(s) = DOMAIN s
  BY DEF IdsOf
<1>5. Len(IdsOf(s)) = Len(s)
  BY <1>1, <1>3, <1>4, LenProperties
<1>6. \A i \in DOMAIN s : IdsOf(s)[i] = s[i].id
  BY DEF IdsOf
<1>7. ElementsOf(IdsOf(s)) = {u.id : u \in ElementsOf(s)}
  BY <1>4, <1>6 DEF ElementsOf
<1> QED
  BY <1>3, <1>5, <1>6, <1>7

LEMMA IdsEmpty ==
    << >> \in Seq(UpdateSet) /\ IdsOf(<< >>) = << >>
<1>1. << >> \in Seq(UpdateSet) /\ Len(<< >>) = 0
  BY EmptySeq
<1>2. IdsOf(<< >>) \in Seq(Ids) /\ Len(IdsOf(<< >>)) = 0
  BY <1>1, IdsType
<1> QED
  BY <1>1, <1>2, EmptySeq

LEMMA IdsAppend ==
    ASSUME NEW s \in Seq(UpdateSet), NEW u \in UpdateSet
    PROVE  IdsOf(Append(s, u)) = Append(IdsOf(s), u.id)
<1>1. /\ Append(s, u) \in Seq(UpdateSet) /\ Len(Append(s, u)) = Len(s) + 1
      /\ (\A i \in 1..Len(s) : Append(s, u)[i] = s[i]) /\ Append(s, u)[Len(s) + 1] = u
      /\ DOMAIN s = 1..Len(s) /\ Len(s) \in Nat
  BY AppendProperties, LenProperties
<1>2. DOMAIN Append(s, u) = 1..(Len(s) + 1)
  BY <1>1, LenProperties
<1>3. u.id \in Ids
  BY DEF UpdateSet
<1>4. IdsOf(s) \in Seq(Ids) /\ Len(IdsOf(s)) = Len(s) /\ \A i \in 1..Len(s) : IdsOf(s)[i] = s[i].id
  BY <1>1, IdsType
<1>5. IdsOf(Append(s, u)) \in Seq(Ids) /\ Len(IdsOf(Append(s, u))) = Len(s) + 1
      /\ \A i \in 1..(Len(s) + 1) : IdsOf(Append(s, u))[i] = Append(s, u)[i].id
  BY <1>1, <1>2, IdsType
<1>6. /\ Append(IdsOf(s), u.id) \in Seq(Ids) /\ Len(Append(IdsOf(s), u.id)) = Len(s) + 1
      /\ (\A i \in 1..Len(s) : Append(IdsOf(s), u.id)[i] = IdsOf(s)[i])
      /\ Append(IdsOf(s), u.id)[Len(s) + 1] = u.id
  BY <1>3, <1>4, AppendProperties
<1>7. ASSUME NEW i \in 1..(Len(s) + 1)
      PROVE  IdsOf(Append(s, u))[i] = Append(IdsOf(s), u.id)[i]
  <2>1. i \in 1..Len(s) \/ i = Len(s) + 1
    BY <1>1
  <2> QED BY <1>1, <1>4, <1>5, <1>6, <2>1
<1> QED
  BY <1>5, <1>6, <1>7, SeqEqual

LEMMA IdsConcat ==
    ASSUME NEW s \in Seq(UpdateSet), NEW t \in Seq(UpdateSet)
    PROVE  IdsOf(s \o t) = IdsOf(s) \o IdsOf(t)
<1> DEFINE P == {q \in Seq(UpdateSet) : IdsOf(s \o q) = IdsOf(s) \o IdsOf(q)}
<1>1. << >> \in P
  <2>1. s \o << >> = s
    BY ConcatEmptySeq
  <2>2. IdsOf(s) \o << >> = IdsOf(s)
    BY IdsType, ConcatEmptySeq
  <2> QED BY <2>1, <2>2, IdsEmpty
<1>2. ASSUME NEW q \in Seq(UpdateSet), NEW u \in UpdateSet, q \in P
      PROVE  Append(q, u) \in P
  <2>1. Append(q, u) \in Seq(UpdateSet) /\ s \o q \in Seq(UpdateSet) /\ u.id \in Ids
    BY ElementsAppend, ConcatProperties DEF UpdateSet
  <2>2. s \o Append(q, u) = Append(s \o q, u)
    BY ConcatAppend
  <2>3. IdsOf(s \o Append(q, u)) = Append(IdsOf(s \o q), u.id)
    BY <2>1, <2>2, IdsAppend
  <2>4. IdsOf(Append(q, u)) = Append(IdsOf(q), u.id)
    BY IdsAppend
  <2>5. IdsOf(s) \o Append(IdsOf(q), u.id) = Append(IdsOf(s) \o IdsOf(q), u.id)
    BY <2>1, IdsType, ConcatAppend
  <2> QED BY <1>2, <2>1, <2>3, <2>4, <2>5
<1> HIDE DEF P
<1>3. t \in P
  BY <1>1, <1>2, SequencesByAppend
<1> QED
  BY <1>3 DEF P

(* The identifiers of the updates in a set are the ones in its identifiers.*)
LEMMA OnlyIds ==
    ASSUME NEW s \in Seq(UpdateSet), NEW set, NEW ids,
           \A u \in ElementsOf(s) : u \in set <=> u.id \in ids
    PROVE  Only(IdsOf(s), ids) = IdsOf(Only(s, set))
<1> DEFINE P == {q \in Seq(UpdateSet) :
                   (\A u \in ElementsOf(q) : u \in set <=> u.id \in ids)
                      => Only(IdsOf(q), ids) = IdsOf(Only(q, set))}
<1>1. << >> \in P
  BY IdsEmpty, OnlyEmpty
<1>2. ASSUME NEW q \in Seq(UpdateSet), NEW u \in UpdateSet, q \in P
      PROVE  Append(q, u) \in P
  <2>1. Append(q, u) \in Seq(UpdateSet) /\ u.id \in Ids
        /\ ElementsOf(Append(q, u)) = ElementsOf(q) \cup {u}
    BY ElementsAppend, UpdateFields
  <2> SUFFICES ASSUME \A v \in ElementsOf(q) \cup {u} : v \in set <=> v.id \in ids
               PROVE  Only(IdsOf(Append(q, u)), ids) = IdsOf(Only(Append(q, u), set))
    BY <2>1
  <2>2. Only(IdsOf(q), ids) = IdsOf(Only(q, set)) /\ (u \in set <=> u.id \in ids)
    BY <1>2
  <2>3. IdsOf(Append(q, u)) = Append(IdsOf(q), u.id)
    BY IdsAppend
  <2>4. Only(Append(IdsOf(q), u.id), ids) =
           IF u.id \in ids THEN Append(Only(IdsOf(q), ids), u.id) ELSE Only(IdsOf(q), ids)
    <3>1. IdsOf(q) \in Seq(Ids)
      BY IdsType
    <3>2. ASSUME NEW t \in Seq(Ids), NEW e \in Ids
          PROVE  Only(Append(t, e), ids) =
                    IF e \in ids THEN Append(Only(t, ids), e) ELSE Only(t, ids)
      BY OnlyAppend
    <3> QED BY <2>1, <3>1, <3>2
  <2>5. Only(Append(q, u), set) = IF u \in set THEN Append(Only(q, set), u) ELSE Only(q, set)
    BY OnlyAppend
  <2>6. IdsOf(Append(Only(q, set), u)) = Append(IdsOf(Only(q, set)), u.id)
    BY OnlyElements, IdsAppend
  <2> QED BY <2>2, <2>3, <2>4, <2>5, <2>6
<1> HIDE DEF P
<1>3. s \in P
  BY <1>1, <1>2, SequencesByAppend
<1> QED
  BY <1>3 DEF P

LEMMA OnlyDistinct ==
    ASSUME NEW s \in Seq(UpdateSet), NEW set, Distinct(IdsOf(s))
    PROVE  /\ Distinct(IdsOf(Only(s, set)))
           /\ \A u, v \in ElementsOf(s) : u.id = v.id => u = v
<1> DEFINE P == {q \in Seq(UpdateSet) :
                   Distinct(IdsOf(q)) =>
                      /\ Distinct(IdsOf(Only(q, set)))
                      /\ \A u, v \in ElementsOf(q) : u.id = v.id => u = v}
<1>1. << >> \in P
  BY IdsEmpty, OnlyEmpty, ElementsEmpty
<1>2. ASSUME NEW q \in Seq(UpdateSet), NEW u \in UpdateSet, q \in P
      PROVE  Append(q, u) \in P
  <2>1. Append(q, u) \in Seq(UpdateSet) /\ u.id \in Ids
        /\ ElementsOf(Append(q, u)) = ElementsOf(q) \cup {u}
    BY ElementsAppend, UpdateFields
  <2> SUFFICES ASSUME Distinct(IdsOf(Append(q, u)))
               PROVE  /\ Distinct(IdsOf(Only(Append(q, u), set)))
                      /\ \A v, w \in ElementsOf(q) \cup {u} : v.id = w.id => v = w
    BY <2>1
  <2>2. Distinct(IdsOf(q)) /\ u.id \notin ElementsOf(IdsOf(q))
    <3>1. IdsOf(q) \in Seq(Ids) /\ IdsOf(Append(q, u)) = Append(IdsOf(q), u.id)
      BY IdsType, IdsAppend
    <3> QED BY <2>1, <3>1, ElementsAppend
  <2>3. /\ Distinct(IdsOf(Only(q, set)))
        /\ \A v, w \in ElementsOf(q) : v.id = w.id => v = w
    BY <1>2, <2>2
  <2>4. \A v \in ElementsOf(q) : v.id # u.id
    BY <2>2, IdsType
  <2>5. Only(q, set) \in Seq(UpdateSet) /\ ElementsOf(Only(q, set)) \subseteq ElementsOf(q)
    BY OnlyElements
  <2>6. u.id \notin ElementsOf(IdsOf(Only(q, set)))
    <3>1. ElementsOf(IdsOf(Only(q, set))) = {v.id : v \in ElementsOf(Only(q, set))}
      BY <2>5, IdsType
    <3> QED BY <2>4, <2>5, <3>1
  <2>7. Distinct(Append(IdsOf(Only(q, set)), u.id))
    BY <2>1, <2>3, <2>5, <2>6, IdsType, ElementsAppend
  <2>8. IdsOf(Append(Only(q, set), u)) = Append(IdsOf(Only(q, set)), u.id)
    BY <2>5, IdsAppend
  <2>9. Only(Append(q, u), set) = IF u \in set THEN Append(Only(q, set), u) ELSE Only(q, set)
    BY OnlyAppend
  <2> QED BY <2>3, <2>4, <2>7, <2>8, <2>9
<1> HIDE DEF P
<1>3. s \in P
  BY <1>1, <1>2, SequencesByAppend
<1> QED
  BY <1>3 DEF P

-----------------------------------------------------------------------------
(* What processUpdateQueue makes of a queue.                               *)

(* The updates of a fiber, applied or not, in their order.                 *)
Line(fiber) == fiber.baseState \o IdsOf(fiber.base)
(* The updates that were rebased: they wait for one before them, and are   *)
(* applied at any lanes.                                                   *)
Waits == {u \in UpdateSet : u.lane = NoLane}
Kept(s) == Only(s, Waits)
(* The updates that the lanes of the render include.                       *)
Enough == {u \in UpdateSet : Sufficient(u)}

(* What the base queue keeps of an update behind one that was skipped.     *)
Weakened(u) == IF Sufficient(u) THEN [u EXCEPT !.lane = NoLane] ELSE u
WeakenedAll(s) == [i \in DOMAIN s |-> Weakened(s[i])]

LEMMA WeakenedType ==
    ASSUME NEW u \in UpdateSet
    PROVE  /\ Weakened(u) \in UpdateSet /\ Weakened(u).id = u.id
           /\ Weakened(u) \in Waits <=> u \in Enough
           /\ Weakened(u).lane = NoLane \/ (Weakened(u) = u /\ ~Sufficient(u))
<1>1. CASE Sufficient(u)
  <2>1. Weakened(u) = [u EXCEPT !.lane = NoLane]
    BY <1>1 DEF Weakened
  <2>2. [u EXCEPT !.lane = NoLane] \in UpdateSet /\ [u EXCEPT !.lane = NoLane].id = u.id
        /\ [u EXCEPT !.lane = NoLane].lane = NoLane
    BY DEF UpdateSet
  <2> QED BY <1>1, <2>1, <2>2 DEF Waits, Enough
<1>2. CASE ~Sufficient(u)
  <2>1. Weakened(u) = u
    BY <1>2 DEF Weakened
  <2>2. u.lane # NoLane
    BY <1>2 DEF Sufficient
  <2> QED BY <1>2, <2>1, <2>2 DEF Waits, Enough
<1> QED
  BY <1>1, <1>2

LEMMA WeakenedSeq ==
    ASSUME NEW s \in Seq(UpdateSet)
    PROVE  /\ WeakenedAll(s) \in Seq(UpdateSet) /\ Len(WeakenedAll(s)) = Len(s)
           /\ \A i \in 1..Len(s) : WeakenedAll(s)[i] = Weakened(s[i])
<1>1. DOMAIN s = 1..Len(s) /\ Len(s) \in Nat /\ \A i \in 1..Len(s) : s[i] \in UpdateSet
  BY LenProperties
<1>2. \A i \in 1..Len(s) : Weakened(s[i]) \in UpdateSet
  BY <1>1, WeakenedType
<1>3. WeakenedAll(s) \in [1..Len(s) -> UpdateSet]
  BY <1>1, <1>2 DEF WeakenedAll
<1>4. WeakenedAll(s) \in Seq(UpdateSet)
  BY <1>1, <1>3, SeqDef
<1>5. DOMAIN WeakenedAll(s) = 1..Len(s)
  BY <1>1 DEF WeakenedAll
<1>6. Len(WeakenedAll(s)) = Len(s)
  BY <1>1, <1>4, <1>5, LenProperties
<1> QED
  BY <1>1, <1>4, <1>6 DEF WeakenedAll

LEMMA WeakenedAppend ==
    ASSUME NEW s \in Seq(UpdateSet), NEW u \in UpdateSet
    PROVE  WeakenedAll(Append(s, u)) = Append(WeakenedAll(s), Weakened(u))
<1>1. /\ Append(s, u) \in Seq(UpdateSet) /\ Len(Append(s, u)) = Len(s) + 1 /\ Len(s) \in Nat
      /\ (\A i \in 1..Len(s) : Append(s, u)[i] = s[i]) /\ Append(s, u)[Len(s) + 1] = u
  BY AppendProperties, LenProperties
<1>2. /\ WeakenedAll(Append(s, u)) \in Seq(UpdateSet)
      /\ Len(WeakenedAll(Append(s, u))) = Len(s) + 1
      /\ \A i \in 1..(Len(s) + 1) : WeakenedAll(Append(s, u))[i] = Weakened(Append(s, u)[i])
  BY <1>1, WeakenedSeq
<1>3. WeakenedAll(s) \in Seq(UpdateSet) /\ Len(WeakenedAll(s)) = Len(s)
      /\ \A i \in 1..Len(s) : WeakenedAll(s)[i] = Weakened(s[i])
  BY WeakenedSeq
<1>4. Weakened(u) \in UpdateSet
  BY WeakenedType
<1> DEFINE t == Append(WeakenedAll(s), Weakened(u))
<1>5. /\ t \in Seq(UpdateSet) /\ Len(t) = Len(s) + 1
      /\ (\A i \in 1..Len(s) : t[i] = WeakenedAll(s)[i]) /\ t[Len(s) + 1] = Weakened(u)
  BY <1>3, <1>4, AppendProperties
<1>6. ASSUME NEW i \in 1..(Len(s) + 1) PROVE WeakenedAll(Append(s, u))[i] = t[i]
  <2>1. i \in 1..Len(s) \/ i = Len(s) + 1
    BY <1>1
  <2> HIDE DEF t
  <2> QED BY <1>1, <1>2, <1>3, <1>5, <2>1
<1> HIDE DEF t
<1>7. WeakenedAll(Append(s, u)) = t
  BY <1>2, <1>5, <1>6, SeqEqual
<1> QED
  BY <1>7 DEF t

LEMMA WeakenedIds ==
    ASSUME NEW s \in Seq(UpdateSet)
    PROVE  /\ IdsOf(WeakenedAll(s)) = IdsOf(s)
           /\ IdsOf(Kept(WeakenedAll(s))) = IdsOf(Only(s, Enough))
           /\ LanesOf(WeakenedAll(s)) \subseteq {u.lane : u \in {v \in ElementsOf(s) : ~Sufficient(v)}}
<1> DEFINE P == {q \in Seq(UpdateSet) :
                   /\ IdsOf(WeakenedAll(q)) = IdsOf(q)
                   /\ IdsOf(Kept(WeakenedAll(q))) = IdsOf(Only(q, Enough))}
<1>1. << >> \in P
  <2>1. << >> \in Seq(UpdateSet) /\ Len(<< >>) = 0
    BY EmptySeq
  <2>2. WeakenedAll(<< >>) = << >>
    BY <2>1, WeakenedSeq, EmptySeq
  <2> QED BY <2>1, <2>2, OnlyEmpty DEF Kept
<1>2. ASSUME NEW q \in Seq(UpdateSet), NEW u \in UpdateSet, q \in P
      PROVE  Append(q, u) \in P
  <2>1. Append(q, u) \in Seq(UpdateSet)
        /\ WeakenedAll(Append(q, u)) = Append(WeakenedAll(q), Weakened(u))
    BY WeakenedAppend, AppendProperties
  <2>2. /\ WeakenedAll(q) \in Seq(UpdateSet) /\ Weakened(u) \in UpdateSet
        /\ Weakened(u).id = u.id /\ (Weakened(u) \in Waits <=> u \in Enough)
    BY WeakenedSeq, WeakenedType
  <2>3. IdsOf(WeakenedAll(Append(q, u))) = IdsOf(Append(q, u))
    BY <1>2, <2>1, <2>2, IdsAppend
  <2>4. Kept(WeakenedAll(Append(q, u))) =
           IF u \in Enough THEN Append(Kept(WeakenedAll(q)), Weakened(u)) ELSE Kept(WeakenedAll(q))
    BY <2>1, <2>2, OnlyAppend DEF Kept
  <2>5. Only(Append(q, u), Enough) =
           IF u \in Enough THEN Append(Only(q, Enough), u) ELSE Only(q, Enough)
    BY OnlyAppend
  <2>6. Kept(WeakenedAll(q)) \in Seq(UpdateSet) /\ Only(q, Enough) \in Seq(UpdateSet)
    BY <2>2, OnlyElements DEF Kept
  <2>7. /\ IdsOf(Append(Kept(WeakenedAll(q)), Weakened(u))) = Append(IdsOf(Kept(WeakenedAll(q))), u.id)
        /\ IdsOf(Append(Only(q, Enough), u)) = Append(IdsOf(Only(q, Enough)), u.id)
    BY <2>2, <2>6, IdsAppend
  <2> QED BY <1>2, <2>1, <2>3, <2>4, <2>5, <2>7
<1> HIDE DEF P
<1>3. s \in P
  BY <1>1, <1>2, SequencesByAppend
<1>4. LanesOf(WeakenedAll(s)) \subseteq {u.lane : u \in {v \in ElementsOf(s) : ~Sufficient(v)}}
  <2>1. DOMAIN WeakenedAll(s) = DOMAIN s /\ DOMAIN s = 1..Len(s)
    BY LenProperties DEF WeakenedAll
  <2>2. \A i \in DOMAIN s : s[i] \in UpdateSet /\ s[i] \in ElementsOf(s)
                            /\ WeakenedAll(s)[i] = Weakened(s[i])
    BY <2>1, LenProperties, WeakenedSeq DEF ElementsOf
  <2>3. ASSUME NEW i \in DOMAIN s, WeakenedAll(s)[i].lane # NoLane
        PROVE  WeakenedAll(s)[i] = s[i] /\ ~Sufficient(s[i])
    BY <2>2, <2>3, WeakenedType
  <2> QED BY <2>1, <2>2, <2>3 DEF LanesOf
<1> QED
  BY <1>3, <1>4 DEF P

LEMMA FirstSkippedType ==
    ASSUME NEW s \in Seq(UpdateSet)
    PROVE  /\ FirstSkipped(s) \in 1..(Len(s) + 1)
           /\ \A i \in 1..(FirstSkipped(s) - 1) : Sufficient(s[i])
<1> DEFINE skipped == {i \in DOMAIN s : ~Sufficient(s[i])}
<1>1. DOMAIN s = 1..Len(s) /\ Len(s) \in Nat
  BY LenProperties
<1>2. CASE skipped = {}
  <2>1. FirstSkipped(s) = Len(s) + 1
    BY <1>2 DEF FirstSkipped
  <2> QED BY <1>1, <1>2, <2>1
<1>3. CASE skipped # {}
  <2>1. FirstSkipped(s) = CHOOSE i \in skipped : \A j \in skipped : i <= j
    BY <1>3 DEF FirstSkipped
  <2>2. \E i \in skipped : \A j \in skipped : i <= j
    <3>1. skipped \subseteq Nat
      BY <1>1
    <3> HIDE DEF skipped
    <3> QED BY <1>3, <3>1, LeastNatural
  <2>3. FirstSkipped(s) \in skipped /\ \A j \in skipped : FirstSkipped(s) <= j
    <3> HIDE DEF skipped
    <3> QED BY <2>1, <2>2
  <2>4. ASSUME NEW i \in 1..(FirstSkipped(s) - 1) PROVE Sufficient(s[i])
    BY <1>1, <2>3
  <2> QED BY <1>1, <2>3, <2>4
<1> QED
  BY <1>2, <1>3

(* The list is cut where the first update is skipped: what comes before is *)
(* applied for good, the rest stays.                                       *)
LEMMA RebasedQueue ==
    ASSUME NEW s \in Seq(UpdateSet)
    PROVE  LET before == SubSeq(s, 1, FirstSkipped(s) - 1)
           IN  /\ before \in Seq(UpdateSet) /\ Rebased(s) \in Seq(UpdateSet)
               /\ IdsOf(s) = IdsOf(before) \o IdsOf(Rebased(s))
               /\ IdsOf(Applied(s)) = IdsOf(before) \o IdsOf(Kept(Rebased(s)))
               /\ LanesOf(Rebased(s)) \subseteq SkippedLanes(s)
<1> DEFINE k == FirstSkipped(s)
           before == SubSeq(s, 1, k - 1)
           rest == SubSeq(s, k, Len(s))
<1>1. k \in 1..(Len(s) + 1) /\ Len(s) \in Nat
  BY FirstSkippedType, LenProperties
<1>2. /\ before \in Seq(UpdateSet) /\ rest \in Seq(UpdateSet) /\ before \o rest = s
      /\ Len(before) = k - 1
  <2>1. k - 1 \in 0..Len(s) /\ k - 1 + 1 = k
    BY <1>1
  <2> HIDE DEF k
  <2> QED BY <2>1, SplitSeq
<1>3. ElementsOf(before) \subseteq Enough
  <2>1. \A i \in 1..(k - 1) : s[i] \in UpdateSet
    BY <1>1, ElementOfSeq
  <2>2. \A i \in 1..(k - 1) : before[i] = s[i]
    <3>1. \A i \in 1..(k - 1) : i \in 1..(k - 1) - 1 + 1 /\ 1 + i - 1 = i
      BY <1>1
    <3>2. \A i \in 1..(k - 1) - 1 + 1 : before[i] = s[1 + i - 1]
      <4>1. 1 \in Int /\ k - 1 \in Int
        BY <1>1
      <4> HIDE DEF k
      <4> QED BY <2>1, <4>1, SubSeqProperties
    <3> QED BY <3>1, <3>2
  <2>3. DOMAIN before = 1..(k - 1)
    BY <1>2, LenProperties
  <2>4. \A i \in 1..(k - 1) : s[i] \in Enough
    BY <2>1, FirstSkippedType DEF Enough
  <2> HIDE DEF before
  <2> QED BY <2>2, <2>3, <2>4 DEF ElementsOf
<1>4. Rebased(s) = WeakenedAll(rest)
  BY DEF Rebased, WeakenedAll, Weakened
<1>5. Applied(s) = before \o Only(rest, Enough)
  <2>1. Applied(s) = Only(s, Enough)
    BY DEF Applied, Enough
  <2>2. Only(before, Enough) = before
    BY <1>2, <1>3, OnlyElements
  <2> HIDE DEF before, rest
  <2>3. Only(before \o rest, Enough) = Only(before, Enough) \o Only(rest, Enough)
    <3>1. before \in Seq(UpdateSet) /\ rest \in Seq(UpdateSet)
      BY <1>2
    <3> QED BY <3>1, OnlyConcat
  <2> QED BY <1>2, <2>1, <2>2, <2>3
<1> HIDE DEF before, rest
<1>6. Only(rest, Enough) \in Seq(UpdateSet)
  BY <1>2, OnlyElements
<1>7. IdsOf(s) = IdsOf(before) \o IdsOf(rest)
      /\ IdsOf(Applied(s)) = IdsOf(before) \o IdsOf(Only(rest, Enough))
  BY <1>2, <1>5, <1>6, IdsConcat
<1>8. ElementsOf(rest) \subseteq ElementsOf(s)
  <2>1. ElementsOf(before \o rest) = ElementsOf(before) \cup ElementsOf(rest)
    <3>1. before \in Seq(UpdateSet) /\ rest \in Seq(UpdateSet)
      BY <1>2
    <3> QED BY <3>1, ElementsConcat
  <2> QED BY <1>2, <2>1
<1>9. LanesOf(Rebased(s)) \subseteq SkippedLanes(s)
  <2>1. LanesOf(Rebased(s)) \subseteq {u.lane : u \in {v \in ElementsOf(rest) : ~Sufficient(v)}}
    BY <1>2, <1>4, WeakenedIds
  <2> QED BY <1>8, <2>1 DEF SkippedLanes
<1> QED
  BY <1>2, <1>4, <1>7, <1>9, WeakenedIds, WeakenedSeq DEF before

LEMMA LanesOfType ==
    ASSUME NEW s \in Seq(UpdateSet)
    PROVE  /\ LanesOf(s) \subseteq Lane
           /\ LanesOf(s) = {u.lane : u \in ElementsOf(s)} \ {NoLane}
<1>1. \A i \in DOMAIN s : s[i].lane \in Lane \cup {NoLane}
  <2>1. \A i \in DOMAIN s : s[i] \in UpdateSet
    BY LenProperties
  <2> QED BY <2>1, UpdateFields
<1>2. LanesOf(s) = {u.lane : u \in ElementsOf(s)} \ {NoLane}
  BY DEF LanesOf, ElementsOf
<1> QED
  BY <1>1, <1>2 DEF LanesOf

LEMMA AssociativeIds ==
    \A a, b, c \in Seq(Ids) : a \o (b \o c) = (a \o b) \o c
<1> SUFFICES ASSUME NEW a \in Seq(Ids), NEW b \in Seq(Ids), NEW c \in Seq(Ids)
             PROVE  a \o (b \o c) = (a \o b) \o c
  OBVIOUS
<1> QED
  BY ConcatAssociative

LEMMA NoLaneIsNoLane == NoLane \notin Lane
  BY LaneAssumption DEF NoLane

(* A fiber shows its base state and the rebased updates.                   *)
Shown(fiber) == fiber.memoizedState = fiber.baseState \o IdsOf(Kept(fiber.base))

(* What the state of a fiber has applied.                                  *)
LEMMA ShownElements ==
    ASSUME NEW f \in FiberSet, Shown(f)
    PROVE  /\ ElementsOf(f.memoizedState) =
                 ElementsOf(f.baseState) \cup {u.id : u \in ElementsOf(f.base) \cap Waits}
           /\ ElementsOf(f.memoizedState) \subseteq ElementsOf(Line(f))
           /\ ElementsOf(Line(f)) =
                 ElementsOf(f.baseState) \cup {u.id : u \in ElementsOf(f.base)}
           /\ Line(f) \in Seq(Ids)
<1>1. f.baseState \in Seq(Ids) /\ f.base \in Seq(UpdateSet)
  BY DEF FiberSet
<1>2. /\ Kept(f.base) \in Seq(UpdateSet)
      /\ ElementsOf(Kept(f.base)) = ElementsOf(f.base) \cap Waits
  BY <1>1, OnlyElements DEF Kept
<1>3. /\ IdsOf(Kept(f.base)) \in Seq(Ids)
      /\ ElementsOf(IdsOf(Kept(f.base))) = {u.id : u \in ElementsOf(f.base) \cap Waits}
  BY <1>2, IdsType
<1>4. /\ IdsOf(f.base) \in Seq(Ids)
      /\ ElementsOf(IdsOf(f.base)) = {u.id : u \in ElementsOf(f.base)}
  BY <1>1, IdsType
<1>5. ElementsOf(f.memoizedState) = ElementsOf(f.baseState) \cup ElementsOf(IdsOf(Kept(f.base)))
  BY <1>1, <1>3, ElementsConcat DEF Shown
<1>6. ElementsOf(Line(f)) = ElementsOf(f.baseState) \cup ElementsOf(IdsOf(f.base))
      /\ Line(f) \in Seq(Ids)
  BY <1>1, <1>4, ElementsConcat DEF Line
<1> QED
  BY <1>3, <1>4, <1>5, <1>6

(* The list processUpdateQueue goes through.                               *)
ListOf(fiber) == fiber.base \o shared.pending

LEMMA ListLine ==
    ASSUME NEW f \in FiberSet, shared \in SharedSet
    PROVE  /\ ListOf(f) \in Seq(UpdateSet)
           /\ ElementsOf(ListOf(f)) = ElementsOf(f.base) \cup ElementsOf(shared.pending)
           /\ f.baseState \o IdsOf(ListOf(f)) = Line(f) \o IdsOf(shared.pending)
<1>1. /\ f.baseState \in Seq(Ids) /\ f.base \in Seq(UpdateSet)
      /\ shared.pending \in Seq(UpdateSet)
  BY DEF FiberSet, SharedSet
<1>2. IdsOf(f.base) \in Seq(Ids) /\ IdsOf(shared.pending) \in Seq(Ids)
  BY <1>1, IdsType
<1>3. ListOf(f) \in Seq(UpdateSet)
      /\ ElementsOf(ListOf(f)) = ElementsOf(f.base) \cup ElementsOf(shared.pending)
  BY <1>1, ElementsConcat DEF ListOf
<1>4. IdsOf(ListOf(f)) = IdsOf(f.base) \o IdsOf(shared.pending)
  BY <1>1, IdsConcat DEF ListOf
<1>5. f.baseState \o (IdsOf(f.base) \o IdsOf(shared.pending)) =
         (f.baseState \o IdsOf(f.base)) \o IdsOf(shared.pending)
  BY <1>1, <1>2, AssociativeIds
<1> QED
  BY <1>3, <1>4, <1>5 DEF Line

(* processUpdateQueue with an empty list changes only the lanes.           *)
LEMMA ProcessNothing ==
    ASSUME NEW f \in FiberSet, shared \in SharedSet, ListOf(f) = << >>
    PROVE  LET p == ProcessUpdateQueue(f)
           IN  /\ p \in FiberSet
               /\ f.base = << >> /\ shared.pending = << >>
               /\ p.base = << >> /\ Line(p) = Line(f) /\ p.effects = f.effects
               /\ p.memoizedState = f.memoizedState /\ (Shown(f) => Shown(p))
               /\ p.forgotten = ElementsOf(IdsOf(shared.interleaved))
<1>1. f.base \in Seq(UpdateSet) /\ shared.pending \in Seq(UpdateSet)
  BY DEF FiberSet, SharedSet
<1>2. f.base = << >> /\ shared.pending = << >>
  BY <1>1, ConcatEqualIffEmpty DEF ListOf
<1> DEFINE p == [f EXCEPT !.lanes = NoLanes,
                          !.forgotten = ElementsOf(IdsOf(shared.interleaved))]
<1>3. ProcessUpdateQueue(f) = p
  BY DEF ProcessUpdateQueue, ListOf
<1>4. /\ p \in FiberSet /\ p.base = f.base /\ p.baseState = f.baseState
      /\ p.memoizedState = f.memoizedState /\ p.effects = f.effects
      /\ p.forgotten = ElementsOf(IdsOf(shared.interleaved))
  <2>1. IdsOf(shared.interleaved) \in Seq(Ids)
    BY IdsType DEF SharedSet
  <2>2. ElementsOf(IdsOf(shared.interleaved)) \subseteq Ids
    BY <2>1, ElementsType
  <2> QED BY <2>2 DEF FiberSet, NoLanes
<1> QED
  BY <1>2, <1>3, <1>4 DEF Line, Shown

(* processUpdateQueue keeps the line of the updates, applies what has      *)
(* enough priority and leaves lanes for the others.                        *)
LEMMA ProcessFields ==
    ASSUME NEW f \in FiberSet, shared \in SharedSet, ListOf(f) # << >>, render.lanes \subseteq Lane
    PROVE  LET p == ProcessUpdateQueue(f)
           IN  /\ p \in FiberSet /\ Shown(p)
               /\ Line(p) = Line(f) \o IdsOf(shared.pending)
               /\ LanesOf(p.base) \cup LanesOf(shared.interleaved) \subseteq p.lanes
               /\ p.memoizedState = f.baseState \o IdsOf(Applied(ListOf(f)))
               /\ p.effects = f.effects \o IdsOf(CalledBack(ListOf(f)))
<1> DEFINE p == ProcessUpdateQueue(f)
           s == ListOf(f)
           before == SubSeq(s, 1, FirstSkipped(s) - 1)
<1>1. s \in Seq(UpdateSet) /\ f.baseState \o IdsOf(s) = Line(f) \o IdsOf(shared.pending)
  BY ListLine
<1>2. p = [lanes |-> SkippedLanes(s) \cup LanesOf(shared.interleaved),
           forgotten |-> {},
           memoizedState |-> f.baseState \o IdsOf(Applied(s)),
           baseState |-> f.baseState \o IdsOf(before),
           base |-> Rebased(s),
           effects |-> f.effects \o IdsOf(CalledBack(s))]
  BY DEF ProcessUpdateQueue, ListOf
<1> HIDE DEF p, s
<1>3. /\ f.baseState \in Seq(Ids) /\ f.effects \in Seq(Ids)
      /\ shared.interleaved \in Seq(UpdateSet)
  BY DEF FiberSet, SharedSet
<1>4. /\ before \in Seq(UpdateSet) /\ Rebased(s) \in Seq(UpdateSet)
      /\ IdsOf(s) = IdsOf(before) \o IdsOf(Rebased(s))
      /\ IdsOf(Applied(s)) = IdsOf(before) \o IdsOf(Kept(Rebased(s)))
      /\ LanesOf(Rebased(s)) \subseteq SkippedLanes(s)
  BY <1>1, RebasedQueue
<1> HIDE DEF before
<1>5. Kept(Rebased(s)) \in Seq(UpdateSet)
  BY <1>4, OnlyElements DEF Kept
<1>6. IdsOf(before) \in Seq(Ids) /\ IdsOf(Rebased(s)) \in Seq(Ids) /\ IdsOf(Kept(Rebased(s))) \in Seq(Ids)
  BY <1>4, <1>5, IdsType
<1>7. Applied(s) \in Seq(UpdateSet) /\ CalledBack(s) \in Seq(UpdateSet)
  BY <1>1, OnlyElements DEF Applied, CalledBack
<1>8. IdsOf(Applied(s)) \in Seq(Ids) /\ IdsOf(CalledBack(s)) \in Seq(Ids)
  BY <1>7, IdsType
<1>9. /\ f.baseState \o IdsOf(Applied(s)) \in Seq(Ids)
      /\ f.baseState \o IdsOf(before) \in Seq(Ids)
      /\ f.effects \o IdsOf(CalledBack(s)) \in Seq(Ids)
  BY <1>3, <1>6, <1>8, ConcatProperties
<1>10. SkippedLanes(s) \subseteq Lane
  <2>1. ASSUME NEW u \in ElementsOf(s), ~Sufficient(u) PROVE u.lane \in Lane
    <3>1. u \in UpdateSet
      BY <1>1, ElementsType
    <3>2. u.lane \in Lane \cup {NoLane}
      BY <3>1, UpdateFields
    <3> QED BY <2>1, <3>2 DEF Sufficient
  <2> QED BY <2>1 DEF SkippedLanes
<1>11. LanesOf(shared.interleaved) \subseteq Lane
  BY <1>3, LanesOfType
<1>12. p \in FiberSet
  BY <1>2, <1>4, <1>9, <1>10, <1>11 DEF FiberSet
<1>13. /\ f.baseState \o (IdsOf(before) \o IdsOf(Kept(Rebased(s)))) =
             (f.baseState \o IdsOf(before)) \o IdsOf(Kept(Rebased(s)))
       /\ f.baseState \o (IdsOf(before) \o IdsOf(Rebased(s))) =
             (f.baseState \o IdsOf(before)) \o IdsOf(Rebased(s))
  BY <1>3, <1>6, AssociativeIds
<1>14. Shown(p) /\ Line(p) = f.baseState \o IdsOf(s)
  BY <1>2, <1>4, <1>13 DEF Shown, Line
<1>15. /\ LanesOf(p.base) \cup LanesOf(shared.interleaved) \subseteq p.lanes
       /\ p.memoizedState = f.baseState \o IdsOf(Applied(s))
       /\ p.effects = f.effects \o IdsOf(CalledBack(s))
       /\ Line(p) = Line(f) \o IdsOf(shared.pending)
  BY <1>1, <1>2, <1>4, <1>14
<1> QED
  BY <1>12, <1>14, <1>15 DEF p, s

(* What is applied is what was applied and the updates with enough         *)
(* priority; the callbacks are those of the updates applied now.           *)
LEMMA ProcessElements ==
    ASSUME NEW f \in FiberSet, shared \in SharedSet, render.lanes \subseteq Lane, Shown(f),
           Distinct(Line(f) \o IdsOf(shared.pending)),
           \A u \in ElementsOf(shared.pending) : u.lane \in Lane
    PROVE  LET p == ProcessUpdateQueue(f)
           IN  /\ p \in FiberSet /\ Shown(p)
               /\ Line(p) = Line(f) \o IdsOf(shared.pending)
               /\ ElementsOf(f.memoizedState) \subseteq ElementsOf(p.memoizedState)
               /\ \A u \in ElementsOf(ListOf(f)) :
                     Sufficient(u) => u.id \in ElementsOf(p.memoizedState)
               /\ \E e \in Seq(Ids) :
                     /\ p.effects = f.effects \o e /\ Distinct(e)
                     /\ ElementsOf(e) = ElementsOf(p.memoizedState) \ ElementsOf(f.memoizedState)
<1> DEFINE p == ProcessUpdateQueue(f)
           s == ListOf(f)
<1>1. CASE s = << >>
  <2>1. /\ p \in FiberSet /\ shared.pending = << >>
        /\ p.base = << >> /\ Line(p) = Line(f) /\ p.effects = f.effects
        /\ p.memoizedState = f.memoizedState /\ Shown(p)
    BY <1>1, ProcessNothing
  <2>2. Line(f) \in Seq(Ids) /\ f.effects \in Seq(Ids)
    BY ShownElements DEF FiberSet
  <2>3. /\ Line(f) \o IdsOf(shared.pending) = Line(f) /\ f.effects \o << >> = f.effects
        /\ << >> \in Seq(Ids)
    BY <2>1, <2>2, IdsEmpty, ConcatEmptySeq, EmptySeq
  <2>4. ElementsOf(s) = {}
    BY <1>1, ElementsEmpty
  <2>5. ElementsOf(<< >>) = ElementsOf(p.memoizedState) \ ElementsOf(f.memoizedState)
    BY <2>1, ElementsEmpty
  <2> HIDE DEF p, s
  <2>6. \E e \in Seq(Ids) :
           /\ p.effects = f.effects \o e /\ Distinct(e)
           /\ ElementsOf(e) = ElementsOf(p.memoizedState) \ ElementsOf(f.memoizedState)
    <3> WITNESS << >> \in Seq(Ids)
    <3> QED BY <2>1, <2>3, <2>5, ElementsEmpty
  <2> QED BY <2>1, <2>3, <2>4, <2>6 DEF p, s
<1>2. CASE s # << >>
  <2>1. /\ p \in FiberSet /\ Shown(p)
        /\ Line(p) = Line(f) \o IdsOf(shared.pending)
        /\ p.memoizedState = f.baseState \o IdsOf(Applied(s))
        /\ p.effects = f.effects \o IdsOf(CalledBack(s))
    BY <1>2, ProcessFields
  <2>2. /\ s \in Seq(UpdateSet)
        /\ ElementsOf(s) = ElementsOf(f.base) \cup ElementsOf(shared.pending)
        /\ f.baseState \o IdsOf(s) = Line(f) \o IdsOf(shared.pending)
    BY ListLine
  <2> HIDE DEF p, s
  <2>3. f.baseState \in Seq(Ids) /\ IdsOf(s) \in Seq(Ids) /\ \A u \in ElementsOf(s) : u \in UpdateSet
    BY <2>2, IdsType, ElementsType DEF FiberSet
  <2>4. /\ Distinct(IdsOf(s)) /\ ElementsOf(f.baseState) \cap ElementsOf(IdsOf(s)) = {}
        /\ ElementsOf(IdsOf(s)) = {u.id : u \in ElementsOf(s)}
    <3>1. Distinct(f.baseState \o IdsOf(s))
      BY <2>2
    <3>2. Distinct(IdsOf(s)) /\ ElementsOf(f.baseState) \cap ElementsOf(IdsOf(s)) = {}
      BY <2>3, <3>1, ElementsConcat
    <3> QED BY <2>2, <3>2, IdsType
  <2>5. /\ Applied(s) \in Seq(UpdateSet) /\ CalledBack(s) \in Seq(UpdateSet)
        /\ ElementsOf(Applied(s)) = ElementsOf(s) \cap {u \in UpdateSet : Sufficient(u)}
        /\ ElementsOf(CalledBack(s)) = ElementsOf(s) \cap {u \in UpdateSet : New(u)}
    BY <2>2, OnlyElements DEF Applied, CalledBack
  <2> DEFINE e == IdsOf(CalledBack(s))
  <2>6. e \in Seq(Ids) /\ ElementsOf(e) = {u.id : u \in ElementsOf(CalledBack(s))}
    BY <2>5, IdsType
  <2>7. /\ IdsOf(Applied(s)) \in Seq(Ids)
        /\ ElementsOf(IdsOf(Applied(s))) = {u.id : u \in ElementsOf(Applied(s))}
    BY <2>5, IdsType
  <2>8. ElementsOf(p.memoizedState) =
           ElementsOf(f.baseState) \cup {u.id : u \in ElementsOf(Applied(s))}
    BY <2>1, <2>3, <2>7, ElementsConcat
  <2>9. Distinct(e) /\ \A u, v \in ElementsOf(s) : u.id = v.id => u = v
    BY <2>2, <2>4, OnlyDistinct DEF CalledBack
  <2>10. /\ ElementsOf(f.memoizedState) =
              ElementsOf(f.baseState) \cup {u.id : u \in ElementsOf(f.base) \cap Waits}
    BY ShownElements
  <2>11. \A u \in ElementsOf(s) : Sufficient(u) => u \in ElementsOf(Applied(s))
    BY <2>3, <2>5
  <2>12. \A u \in ElementsOf(f.base) \cap Waits : u \in ElementsOf(Applied(s))
    BY <2>2, <2>11 DEF Waits, Sufficient
  <2>13. ASSUME NEW x \in ElementsOf(e)
         PROVE  x \in ElementsOf(p.memoizedState) /\ x \notin ElementsOf(f.memoizedState)
    <3>1. PICK u \in ElementsOf(CalledBack(s)) : x = u.id
      BY <2>6
    <3>2. u \in ElementsOf(s) /\ New(u)
      BY <2>5, <3>1
    <3>3. Sufficient(u) /\ u.lane # NoLane
      BY <3>2 DEF New, Sufficient
    <3>4. x \in ElementsOf(p.memoizedState)
      BY <2>8, <2>11, <3>1, <3>2, <3>3
    <3>5. x \notin ElementsOf(f.baseState)
      BY <2>4, <3>1, <3>2
    <3>6. ASSUME NEW v \in ElementsOf(f.base) \cap Waits PROVE x # v.id
      BY <2>2, <2>9, <3>1, <3>2, <3>3 DEF Waits
    <3> QED BY <2>10, <3>4, <3>5, <3>6
  <2>14. ASSUME NEW x \in ElementsOf(p.memoizedState), x \notin ElementsOf(f.memoizedState)
         PROVE  x \in ElementsOf(e)
    <3>1. PICK u \in ElementsOf(Applied(s)) : x = u.id
      BY <2>8, <2>10, <2>14
    <3>2. u \in ElementsOf(s) /\ Sufficient(u) /\ u \in UpdateSet
      BY <2>5, <3>1
    <3>3. u.lane # NoLane
      <4> SUFFICES ASSUME u.lane = NoLane PROVE FALSE
        OBVIOUS
      <4>1. u \notin ElementsOf(shared.pending)
        BY NoLaneIsNoLane
      <4>2. u \in ElementsOf(f.base) \cap Waits
        BY <2>2, <3>2, <4>1 DEF Waits
      <4> QED BY <2>10, <2>14, <3>1, <4>2
    <3>4. New(u)
      BY <3>2, <3>3 DEF New, Sufficient
    <3> QED BY <2>5, <2>6, <3>1, <3>2, <3>4
  <2>15. ElementsOf(f.memoizedState) \subseteq ElementsOf(p.memoizedState)
    BY <2>8, <2>10, <2>12
  <2>16. \A u \in ElementsOf(s) : Sufficient(u) => u.id \in ElementsOf(p.memoizedState)
    BY <2>8, <2>11
  <2>17. ElementsOf(e) = ElementsOf(p.memoizedState) \ ElementsOf(f.memoizedState)
    BY <2>13, <2>14
  <2>18. p.effects = f.effects \o e
    BY <2>1
  <2> HIDE DEF e
  <2> QED BY <2>1, <2>6, <2>9, <2>15, <2>16, <2>17, <2>18 DEF p, s
<1> QED
  BY <1>1, <1>2

-----------------------------------------------------------------------------
(* Lanes and the root.                                                     *)

LEMMA HighestIsOne ==
    ASSUME NEW lanes \in SUBSET Lane, lanes # {}
    PROVE  HighestPriorityLane(lanes) \in lanes
<1>1. lanes \subseteq Nat
  BY LaneAssumption
<1>2. \E l \in lanes : \A m \in lanes : l <= m
  BY <1>1, LeastNatural
<1> QED
  BY <1>2 DEF HighestPriorityLane, NoLanes

LEMMA NextLanesType ==
    ASSUME NEW rt \in RootSet, NEW lanes \in SUBSET Lane
    PROVE  NextLanes(rt, lanes) \in SUBSET Lane
<1>1. /\ rt.pendingLanes \in SUBSET Lane /\ rt.suspendedLanes \in SUBSET Lane
      /\ rt.pingedLanes \in SUBSET Lane
      /\ \A l \in Lane : rt.entanglements[l] \in SUBSET Lane
  BY DEF RootSet
<1>2. Workable(rt) \in SUBSET Lane
  BY <1>1 DEF Workable, OrElse
<1>3. HighestPriorityLanes(Workable(rt)) \in SUBSET Lane
  BY <1>2 DEF HighestPriorityLanes
<1>4. WithDefault(rt, HighestPriorityLanes(Workable(rt))) \in SUBSET Lane
  BY <1>1, <1>3 DEF WithDefault
<1>5. \A ls \in SUBSET Lane : WithEntangled(rt, ls) \in SUBSET Lane
  BY <1>1 DEF WithEntangled
<1> QED
  BY <1>3, <1>4, <1>5 DEF NextLanes, NoLanes

LEMMA RootTypes ==
    ASSUME NEW rt \in RootSet, NEW lanes \in SUBSET Lane, NEW lane \in Lane
    PROVE  /\ MarkRootUpdated(rt, lane) \in RootSet
           /\ MarkRootSuspended(rt, lanes) \in RootSet
           /\ MarkRootPinged(rt, lanes) \in RootSet
           /\ MarkRootFinished(rt, lanes) \in RootSet
           /\ MarkRootEntangled(rt, lanes) \in RootSet
<1>1. MarkRootUpdated(rt, lane) \in RootSet
  BY DEF MarkRootUpdated, RootSet, NoLanes
<1>2. MarkRootSuspended(rt, lanes) \in RootSet /\ MarkRootPinged(rt, lanes) \in RootSet
  BY DEF MarkRootSuspended, MarkRootPinged, RootSet
<1>3. MarkRootFinished(rt, lanes) \in RootSet
  <2>1. [l \in Lane |-> IF l \in rt.pendingLanes \ lanes THEN NoLanes ELSE rt.entanglements[l]]
          \in [Lane -> SUBSET Lane]
    BY DEF RootSet, NoLanes
  <2> QED BY <2>1 DEF MarkRootFinished, RootSet, NoLanes
<1>4. MarkRootEntangled(rt, lanes) \in RootSet
  <2> DEFINE all == rt.entangledLanes \cup lanes
             joins(l) == l \in lanes \/ rt.entanglements[l] \cap lanes # NoLanes
             f == [l \in Lane |-> IF l \in all /\ joins(l) THEN rt.entanglements[l] \cup lanes
                                  ELSE rt.entanglements[l]]
  <2>1. f \in [Lane -> SUBSET Lane]
    BY DEF RootSet
  <2>2. all \in SUBSET Lane
    BY DEF RootSet
  <2>3. MarkRootEntangled(rt, lanes) = [rt EXCEPT !.entangledLanes = all, !.entanglements = f]
    BY DEF MarkRootEntangled, RootSet
  <2> HIDE DEF all, f
  <2> QED BY <2>1, <2>2, <2>3 DEF RootSet
<1> QED
  BY <1>1, <1>2, <1>3, <1>4

LEMMA ProcessType ==
    ASSUME NEW f \in FiberSet, shared \in SharedSet, render.lanes \subseteq Lane
    PROVE  ProcessUpdateQueue(f) \in FiberSet
<1>1. CASE ListOf(f) = << >>
  BY <1>1, ProcessNothing
<1>2. CASE ListOf(f) # << >>
  BY <1>2, ProcessFields
<1> QED
  BY <1>1, <1>2

LEMMA NewUpdateType ==
    ASSUME TypeOK, NEW lane \in Lane, updates < MaxUpdates
    PROVE  /\ NewUpdate(lane) \in UpdateSet /\ updates + 1 \in Ids
           /\ updates + 1 \in 0..MaxUpdates
  BY UpdateQueueAssumption DEF TypeOK, NewUpdate, UpdateSet, Ids

LEMMA CapturedType ==
    ASSUME TypeOK, captures < MaxCaptures, NEW lane \in Lane
    PROVE  /\ [id |-> MaxUpdates + captures + 1, lane |-> lane] \in UpdateSet
           /\ MaxUpdates + captures + 1 \in Ids
           /\ captures + 1 \in 0..MaxCaptures
  BY UpdateQueueAssumption DEF TypeOK, UpdateSet, Ids

-----------------------------------------------------------------------------
(* The type invariant.                                                     *)

LEMMA TypeUpdate ==
    ASSUME TypeOK, NEW lane \in Lane, updates < MaxUpdates,
           EnqueuePending(lane) \/ EnqueueInterleaved(lane), Schedule(lane)
    PROVE  /\ root' \in RootSet /\ current' \in FiberSet /\ wip' \in FiberSet
           /\ shared' \in SharedSet /\ updates' \in 0..MaxUpdates
<1>1. NewUpdate(lane) \in UpdateSet /\ updates' \in 0..MaxUpdates
  BY NewUpdateType DEF Schedule
<1>2. QueueLanes(lane) \subseteq TransitionLanes /\ TransitionLanes \subseteq Lane
  BY DEF TypeOK, SharedSet, RootSet, QueueLanes, TransitionLanes
<1>3. shared' \in SharedSet
  <2>1. shared.pending \in Seq(UpdateSet) /\ shared.interleaved \in Seq(UpdateSet)
    BY DEF TypeOK, SharedSet
  <2>2. Append(shared.pending, NewUpdate(lane)) \in Seq(UpdateSet)
        /\ Append(shared.interleaved, NewUpdate(lane)) \in Seq(UpdateSet)
    BY <1>1, <2>1, AppendProperties
  <2> QED BY <1>2, <2>2 DEF EnqueuePending, EnqueueInterleaved, TypeOK, SharedSet
<1>4. current' \in FiberSet /\ wip' \in FiberSet
  BY DEF Schedule, MarkUpdateLaneFromFiberToRoot, TypeOK, FiberSet
<1>5. root' \in RootSet
  <2>1. MarkRootUpdated(root, lane) \in RootSet
    BY RootTypes DEF TypeOK
  <2>2. MarkRootEntangled(MarkRootUpdated(root, lane), QueueLanes(lane)) \in RootSet
    BY <1>2, <2>1, RootTypes
  <2> QED BY <2>1, <2>2 DEF Schedule, EntangleTransitions
<1> QED
  BY <1>1, <1>3, <1>4, <1>5

LEMMA TypeInterrupt ==
    ASSUME TypeOK, NEW lane \in Lane, Interrupt(lane)
    PROVE  render' \in RenderSet /\ render'.phase = render.phase /\ render'.lanes = render.lanes
           /\ render'.didCapture = render.didCapture
  BY DEF TypeOK, RenderSet, Interrupt

LEMMA TypeFresh ==
    ASSUME TypeOK, NEW lanes \in SUBSET Lane, lanes # NoLanes, NEW sync \in BOOLEAN,
           NEW retried \in BOOLEAN, PrepareFreshStack(lanes, sync, retried)
    PROVE  TypeOK'
<1>1. render' \in RenderSet /\ (render'.phase # "none" => render'.lanes # NoLanes)
  BY DEF PrepareFreshStack, NoRender, RenderSet, NoLanes
<1>2. shared' \in SharedSet
  <2>1. shared.pending \o shared.interleaved \in Seq(UpdateSet) /\ << >> \in Seq(UpdateSet)
    BY ConcatProperties, EmptySeq DEF TypeOK, SharedSet
  <2> QED BY <2>1 DEF PrepareFreshStack, EnqueueInterleavedUpdates, TypeOK, SharedSet
<1>3. wip' \in FiberSet
  <2>1. << >> \in Seq(Ids) /\ << >> \in Seq(UpdateSet)
    BY EmptySeq
  <2> QED BY <2>1 DEF PrepareFreshStack, NoFiber, FiberSet, NoLanes
<1> QED
  BY <1>1, <1>2, <1>3 DEF PrepareFreshStack, TypeOK, counters

LEMMA TypeTransfer ==
    ASSUME TypeOK, TransferPending
    PROVE  current' \in FiberSet /\ shared' \in SharedSet
<1>1. current.base \o shared.pending \in Seq(UpdateSet) /\ << >> \in Seq(UpdateSet)
  BY ConcatProperties, EmptySeq DEF TypeOK, FiberSet, SharedSet
<1> QED
  BY <1>1 DEF TransferPending, TypeOK, FiberSet, SharedSet

LEMMA TypeInit == Init => TypeOK
<1> SUFFICES ASSUME Init PROVE TypeOK
  OBVIOUS
<1>1. << >> \in Seq(Ids) /\ << >> \in Seq(UpdateSet)
  BY EmptySeq
<1>2. root \in RootSet
  BY DEF Init, RootSet, NoLanes
<1>3. current \in FiberSet /\ wip \in FiberSet /\ shared \in SharedSet
  BY <1>1 DEF Init, NoFiber, FiberSet, SharedSet, NoLanes
<1>4. render \in RenderSet /\ render.phase = "none"
  BY DEF Init, NoRender, RenderSet, NoLanes
<1> QED
  BY <1>2, <1>3, <1>4, UpdateQueueAssumption DEF Init, TypeOK, NoLanes

LEMMA TypeNext == TypeOK /\ [Next]_vars => TypeOK'
<1> SUFFICES ASSUME TypeOK, [Next]_vars PROVE TypeOK'
  OBVIOUS
<1>1. ASSUME NEW lane \in EventLanes, Update(lane) PROVE TypeOK'
  <2>1. lane \in Lane
    BY UpdateQueueAssumption
  <2>2. /\ root' \in RootSet /\ current' \in FiberSet /\ wip' \in FiberSet
        /\ shared' \in SharedSet /\ updates' \in 0..MaxUpdates
    BY <1>1, <2>1, TypeUpdate DEF Update
  <2>3. render' \in RenderSet /\ render'.phase = render.phase /\ render'.lanes = render.lanes
    BY <1>1, <2>1, TypeInterrupt DEF Update
  <2> QED BY <1>1, <2>2, <2>3 DEF Update, TypeOK
<1>2. ASSUME NEW lane \in EventLanes, UpdateElsewhere(lane) PROVE TypeOK'
  <2>1. lane \in Lane
    BY UpdateQueueAssumption
  <2>2. root' \in RootSet
    BY <1>2, <2>1, RootTypes DEF UpdateElsewhere, TypeOK
  <2>3. render' \in RenderSet /\ render'.phase = render.phase /\ render'.lanes = render.lanes
    BY <1>2, <2>1, TypeInterrupt DEF UpdateElsewhere
  <2> QED BY <1>2, <2>1, <2>2, <2>3 DEF UpdateElsewhere, TypeOK
<1>3. CASE RenderPhaseUpdate
  <2>1. HighestPriorityLane(render.lanes) \in Lane
    BY <1>3, HighestIsOne DEF RenderPhaseUpdate, Rendering, TypeOK, RenderSet, NoLanes
  <2>2. /\ root' \in RootSet /\ current' \in FiberSet /\ wip' \in FiberSet
        /\ shared' \in SharedSet /\ updates' \in 0..MaxUpdates
    BY <1>3, <2>1, TypeUpdate DEF RenderPhaseUpdate
  <2> QED BY <1>3, <2>2 DEF RenderPhaseUpdate, TypeOK
<1>4. CASE StartRender
  <2> DEFINE wipLanes == IF Rendering THEN render.lanes ELSE NoLanes
             lanes == NextLanes(root, wipLanes)
             sync == SyncLane \in lanes \/ IncludesBlockingLane(lanes)
  <2>1. wipLanes \in SUBSET Lane
    BY DEF TypeOK, RenderSet, NoLanes
  <2>2. lanes \in SUBSET Lane
    BY <2>1, NextLanesType DEF TypeOK
  <2>3. lanes # NoLanes /\ PrepareFreshStack(lanes, sync, FALSE)
    BY <1>4 DEF StartRender
  <2>4. sync \in BOOLEAN
    BY DEF IncludesBlockingLane
  <2> HIDE DEF lanes, sync
  <2> QED BY <2>2, <2>3, <2>4, TypeFresh
<1>5. CASE RetryAfterError
  <2> DEFINE lanes == LanesToRetrySynchronouslyOnError(root)
  <2>1. lanes \in SUBSET Lane
    BY DEF TypeOK, RootSet, LanesToRetrySynchronouslyOnError
  <2>2. lanes # NoLanes /\ PrepareFreshStack(lanes, TRUE, TRUE)
    BY <1>5 DEF RetryAfterError, MustRetry
  <2> HIDE DEF lanes
  <2> QED BY <2>1, <2>2, TypeFresh
<1>6. CASE BailOut
  BY <1>6 DEF BailOut, TypeOK, RenderSet, counters, InRender
<1>7. CASE BeginWork
  <2>1. wip' \in FiberSet
    BY <1>7, ProcessType DEF BeginWork, TypeOK, RenderSet
  <2>2. current' \in FiberSet /\ shared' \in SharedSet
    BY <1>7, TypeTransfer DEF BeginWork
  <2> QED BY <1>7, <2>1, <2>2 DEF BeginWork, TypeOK, RenderSet, counters, InRender
<1>8. CASE EnqueueCapturedUpdate
  <2> DEFINE lane == HighestPriorityLane(render.lanes)
             u == [id |-> MaxUpdates + captures + 1, lane |-> lane]
  <2>1. lane \in Lane
    BY <1>8, HighestIsOne DEF EnqueueCapturedUpdate, InRender, TypeOK, RenderSet, NoLanes
  <2>2. u \in UpdateSet /\ captures' \in 0..MaxCaptures
    BY <1>8, <2>1, CapturedType DEF EnqueueCapturedUpdate
  <2>3. wip' = [wip EXCEPT !.lanes = @ \cup {lane}, !.base = Append(@, u)]
    BY <1>8 DEF EnqueueCapturedUpdate
  <2> HIDE DEF u, lane
  <2>4. Append(wip.base, u) \in Seq(UpdateSet)
    BY <2>2, AppendProperties DEF TypeOK, FiberSet
  <2>5. wip' \in FiberSet
    BY <2>1, <2>3, <2>4 DEF TypeOK, FiberSet
  <2>6. render' \in RenderSet /\ render'.lanes = render.lanes /\ render.phase # "none"
    BY <1>8 DEF EnqueueCapturedUpdate, TypeOK, RenderSet, InRender
  <2> QED BY <1>8, <2>2, <2>5, <2>6 DEF EnqueueCapturedUpdate, TypeOK
<1>9. CASE BeginWorkAgain
  <2>1. wip' \in FiberSet
    BY <1>9, ProcessType DEF BeginWorkAgain, TypeOK, RenderSet
  <2>2. current' \in FiberSet /\ shared' \in SharedSet
    BY <1>9, TypeTransfer DEF BeginWorkAgain
  <2> QED BY <1>9, <2>1, <2>2 DEF BeginWorkAgain, TypeOK, RenderSet, counters, InRender
<1>10. CASE Complete
  BY <1>10 DEF Complete, TypeOK, RenderSet, counters, InRender
<1>11. CASE CompleteSuspended
  <2>1. root' \in RootSet
    <3>1. render.lanes \ render.updated \in SUBSET Lane
      BY DEF TypeOK, RenderSet
    <3>2. \A l \in Lane : MarkRootSuspended(root, render.lanes \ render.updated) \in RootSet
      BY <3>1, RootTypes DEF TypeOK
    <3>3. PICK l \in render.lanes : l \in Lane
      BY <1>11 DEF CompleteSuspended, InRender, TypeOK, RenderSet, NoLanes
    <3> QED BY <1>11, <3>2, <3>3 DEF CompleteSuspended
  <2> QED BY <1>11, <2>1 DEF CompleteSuspended, TypeOK, RenderSet, counters, InRender
<1>12. CASE Ping
  <2>1. root' \in RootSet
    BY <1>12 DEF Ping, MarkRootPinged, TypeOK, RootSet
  <2> QED BY <1>12, <2>1 DEF Ping, TypeOK, counters
<1>13. CASE Commit
  <2> DEFINE left == (elsewhere \ render.lanes) \cup (elsewhere \cap render.updated)
  <2>1. left \subseteq Lane /\ wip.lanes \cup left \in SUBSET Lane
    BY DEF TypeOK, FiberSet
  <2>2. root' \in RootSet
    <3>1. \A l \in Lane : MarkRootFinished(root, wip.lanes \cup left) \in RootSet
      BY <2>1, RootTypes DEF TypeOK
    <3>2. PICK l \in render.lanes : l \in Lane
      BY <1>13 DEF Commit, TypeOK, RenderSet, NoLanes
    <3> QED BY <1>13, <3>1, <3>2 DEF Commit
  <2>3. << >> \in Seq(Ids) /\ << >> \in Seq(UpdateSet)
    BY EmptySeq
  <2>4. current' \in FiberSet /\ wip' \in FiberSet
    BY <1>13, <2>3 DEF Commit, TypeOK, FiberSet, NoFiber, NoLanes
  <2>5. render' \in RenderSet /\ render'.phase = "none"
    BY <1>13 DEF Commit, NoRender, RenderSet, NoLanes
  <2> QED BY <1>13, <2>1, <2>2, <2>4, <2>5 DEF Commit, TypeOK, counters
<1>14. CASE UNCHANGED vars
  BY <1>14 DEF vars, TypeOK
<1> QED
  BY <1>1, <1>2, <1>3, <1>4, <1>5, <1>6, <1>7, <1>8, <1>9, <1>10, <1>11, <1>12, <1>13, <1>14
     DEF Next

(* The queues hold updates, the lanes of fibers and root are masks, and a  *)
(* render has lanes.                                                       *)
THEOREM TypeCorrect == Spec => []TypeOK
<1> QED
  BY TypeInit, TypeNext, PTL DEF Spec

-----------------------------------------------------------------------------
(* The inductive invariant.                                                *)

(* An identifier put into a line, behind all the members of a set.         *)
Placed(line, set, id) ==
    {Abstract!Insert(line, k, id) : k \in {k \in 0..Len(line) :
        ElementsOf(SubSeq(line, k + 1, Len(line))) \cap set = {}}}

(* The identifier of the last update that captured an error.               *)
Captured == MaxUpdates + captures

(* Has the component been rendered? *)
HasWip == render.phase \notin {"none", "started"}

(* The state of a fiber is its base state and the rebased updates.         *)
ShownInv == Shown(current) /\ Shown(wip) /\ current.effects = << >>

WaitingInv ==
    \A u \in ElementsOf(shared.pending) \cup ElementsOf(shared.interleaved) : u.lane \in Lane

IdsInv ==
    /\ Distinct(Order)
    /\ \A id \in ElementsOf(Order) : id <= updates \/ id \in (MaxUpdates + 1)..Captured
    /\ render.didCapture => captures > 0 /\ Captured \notin ElementsOf(Order)

(* The line of the work in progress is that of the current fiber, with the *)
(* update of the error it captured; it shows more, and calls back what it  *)
(* shows for the first time.                                               *)
WipInv ==
    /\ Line(wip) \in IF render.didCapture
                     THEN Placed(Line(current), ElementsOf(current.memoizedState), Captured)
                     ELSE {Line(current)}
    /\ ElementsOf(current.memoizedState) \subseteq ElementsOf(wip.memoizedState)
    /\ ElementsOf(wip.effects) =
          ElementsOf(wip.memoizedState) \ ElementsOf(current.memoizedState)
    /\ Distinct(wip.effects)

(* An error was captured by the phase only, its update comes last until the *)
(* component renders again, and is then applied.                           *)
PhaseInv ==
    /\ render.phase \in {"none", "started", "bailedOut", "suspended"} => ~render.didCapture
    /\ render.phase = "captured" =>
          /\ render.didCapture
          /\ Line(wip) = Append(Line(current), Captured)
          /\ \E u \in ElementsOf(wip.base) : u.id = Captured /\ u.lane \in render.lanes
    /\ render.phase \in {"begun", "done"} /\ render.didCapture =>
          Captured \in ElementsOf(wip.memoizedState)

Inv ==
    /\ TypeOK /\ ShownInv /\ WaitingInv /\ IdsInv /\ PhaseInv
    /\ HasWip => WipInv

-----------------------------------------------------------------------------
(* The order of the updates.                                               *)

(* Order, for other values of the variables.                               *)
OrderOf(fiber, sh) == Line(fiber) \o IdsOf(sh.pending) \o IdsOf(sh.interleaved)

LEMMA OrderIsOrderOf ==
    /\ Order = OrderOf(current, shared)
    /\ Order' = OrderOf(current', shared')
  BY DEF Order, OrderOf, Line

LEMMA OrderParts ==
    ASSUME NEW f \in FiberSet, NEW sh \in SharedSet
    PROVE  LET l == Line(f)
               p == IdsOf(sh.pending)
               i == IdsOf(sh.interleaved)
           IN  /\ l \in Seq(Ids) /\ p \in Seq(Ids) /\ i \in Seq(Ids) /\ l \o p \in Seq(Ids)
               /\ OrderOf(f, sh) \in Seq(Ids)
               /\ ElementsOf(OrderOf(f, sh)) = ElementsOf(l) \cup ElementsOf(p) \cup ElementsOf(i)
               /\ Distinct(l \o p) <=>
                     Distinct(l) /\ Distinct(p) /\ ElementsOf(l) \cap ElementsOf(p) = {}
               /\ Distinct(OrderOf(f, sh)) <=>
                     /\ Distinct(l \o p) /\ Distinct(i)
                     /\ (ElementsOf(l) \cup ElementsOf(p)) \cap ElementsOf(i) = {}
<1> DEFINE l == Line(f)
           p == IdsOf(sh.pending)
           i == IdsOf(sh.interleaved)
<1>1. l \in Seq(Ids) /\ p \in Seq(Ids) /\ i \in Seq(Ids)
  <2>1. /\ f.baseState \in Seq(Ids) /\ f.base \in Seq(UpdateSet)
        /\ sh.pending \in Seq(UpdateSet) /\ sh.interleaved \in Seq(UpdateSet)
    BY DEF FiberSet, SharedSet
  <2>2. IdsOf(f.base) \in Seq(Ids) /\ p \in Seq(Ids) /\ i \in Seq(Ids)
    BY <2>1, IdsType
  <2> QED BY <2>1, <2>2, ConcatProperties DEF Line
<1>2. OrderOf(f, sh) = (l \o p) \o i
  BY DEF OrderOf
<1> HIDE DEF l, p, i
<1>3. /\ l \o p \in Seq(Ids) /\ ElementsOf(l \o p) = ElementsOf(l) \cup ElementsOf(p)
      /\ Distinct(l \o p) <=>
            Distinct(l) /\ Distinct(p) /\ ElementsOf(l) \cap ElementsOf(p) = {}
  BY <1>1, ElementsConcat
<1>4. /\ (l \o p) \o i \in Seq(Ids)
      /\ ElementsOf((l \o p) \o i) = ElementsOf(l \o p) \cup ElementsOf(i)
      /\ Distinct((l \o p) \o i) <=>
            Distinct(l \o p) /\ Distinct(i) /\ ElementsOf(l \o p) \cap ElementsOf(i) = {}
  BY <1>1, <1>3, ElementsConcat
<1> QED
  BY <1>1, <1>2, <1>3, <1>4 DEF l, p, i

(* Two fibers with the same updates, applied or not.                       *)
Alike(f, g) ==
    f.baseState = g.baseState /\ f.base = g.base /\ f.memoizedState = g.memoizedState

LEMMA AlikeFibers ==
    ASSUME NEW f, NEW g, Alike(f, g)
    PROVE  /\ Line(f) = Line(g) /\ (Shown(f) <=> Shown(g))
           /\ \A sh : OrderOf(f, sh) = OrderOf(g, sh)
  BY DEF Alike, Line, Shown, OrderOf

LEMMA SplitConcat ==
    ASSUME NEW S, NEW a \in Seq(S), NEW b \in Seq(S)
    PROVE  /\ SubSeq(a \o b, 1, Len(a)) = a
           /\ SubSeq(a \o b, Len(a) + 1, Len(a \o b)) = b
           /\ Len(a) \in 0..Len(a \o b) /\ a \o b \in Seq(S)
<1> DEFINE s == a \o b
           n == Len(a)
           c == SubSeq(s, 1, n)
           d == SubSeq(s, n + 1, Len(s))
<1>1. /\ s \in Seq(S) /\ Len(s) = Len(a) + Len(b) /\ Len(a) \in Nat /\ Len(b) \in Nat
      /\ \A i \in 1..Len(a) + Len(b) : s[i] = IF i <= Len(a) THEN a[i] ELSE b[i - Len(a)]
  BY ConcatProperties, LenProperties
<1>2. n \in 0..Len(s)
  BY <1>1
<1>3. \A i \in 1..Len(s) : s[i] \in S
  BY <1>1, ElementOfSeq
<1> HIDE DEF s
<1>4. /\ c \in Seq(S) /\ Len(c) = n /\ \A i \in 1..n : c[i] = s[i]
  <2>1. 1 \in Int /\ n \in Int /\ \A i \in 1..n : s[i] \in S
    BY <1>1, <1>3
  <2>2. /\ c \in Seq(S) /\ Len(c) = IF 1 <= n THEN n - 1 + 1 ELSE 0
        /\ \A i \in 1..n - 1 + 1 : c[i] = s[1 + i - 1]
    <3> HIDE DEF n
    <3> QED BY <2>1, SubSeqProperties
  <2>3. \A i \in 1..n : i \in 1..n - 1 + 1 /\ 1 + i - 1 = i
    BY <1>1
  <2> HIDE DEF c
  <2> QED BY <1>1, <2>2, <2>3
<1>5. d \in Seq(S) /\ c \o d = s
  BY <1>1, <1>2, SplitSeq
<1>6. c = a
  <2>1. \A i \in 1..Len(c) : c[i] = a[i]
    BY <1>1, <1>4
  <2> HIDE DEF c
  <2> QED BY <1>4, <2>1, SeqEqual
<1>7. d = b
  <2>1. a \o d = a \o b
    BY <1>5, <1>6 DEF s
  <2> HIDE DEF d
  <2>2. d \in Seq(S)
    BY <1>5
  <2> QED BY <2>1, <2>2, ConcatSimplifications
<1> QED
  BY <1>1, <1>2, <1>6, <1>7 DEF s

(* What Placed means, without positions.                                   *)
(* new is line with id put into it, behind all the members of the set.     *)
Between(line, set, id, new) ==
    \E a, b \in Seq(Ids) :
        line = a \o b /\ new = a \o <<id>> \o b /\ ElementsOf(b) \cap set = {}

LEMMA PlacedBetween ==
    ASSUME NEW line \in Seq(Ids), NEW set, NEW id \in Ids, NEW new \in Placed(line, set, id)
    PROVE  Between(line, set, id, new)
<1>1. PICK k \in 0..Len(line) :
         /\ new = Abstract!Insert(line, k, id)
         /\ ElementsOf(SubSeq(line, k + 1, Len(line))) \cap set = {}
  BY DEF Placed
<1> DEFINE a == SubSeq(line, 1, k)
           b == SubSeq(line, k + 1, Len(line))
<1>2. a \in Seq(Ids) /\ b \in Seq(Ids) /\ a \o b = line
  BY SplitSeq
<1>3. new = a \o <<id>> \o b
  BY <1>1 DEF Abstract!Insert
<1> QED
  BY <1>1, <1>2, <1>3 DEF Between

LEMMA BetweenIsPlaced ==
    ASSUME NEW a \in Seq(Ids), NEW b \in Seq(Ids), NEW id \in Ids, NEW set,
           ElementsOf(b) \cap set = {}
    PROVE  a \o <<id>> \o b \in Placed(a \o b, set, id)
<1> DEFINE s == a \o b
           k == Len(a)
<1>1. /\ SubSeq(s, 1, k) = a /\ SubSeq(s, k + 1, Len(s)) = b /\ k \in 0..Len(s)
  BY SplitConcat
<1>2. a \o <<id>> \o b = Abstract!Insert(s, k, id)
  <2> HIDE DEF s, k
  <2> QED BY <1>1 DEF Abstract!Insert
<1> HIDE DEF s, k
<1>3. a \o <<id>> \o b \in Placed(s, set, id)
  BY <1>1, <1>2 DEF Placed
<1> QED
  BY <1>3 DEF s

LEMMA PlacedElements ==
    ASSUME NEW a \in Seq(Ids), NEW b \in Seq(Ids), NEW id \in Ids
    PROVE  /\ a \o <<id>> \o b \in Seq(Ids) /\ a \o <<id>> = Append(a, id)
           /\ ElementsOf(a \o <<id>> \o b) = ElementsOf(a \o b) \cup {id}
           /\ Distinct(a \o <<id>> \o b) <=> Distinct(a \o b) /\ id \notin ElementsOf(a \o b)
<1>1. a \o <<id>> = Append(a, id)
  BY AppendIsConcat
<1>2. /\ Append(a, id) \in Seq(Ids) /\ ElementsOf(Append(a, id)) = ElementsOf(a) \cup {id}
      /\ Distinct(Append(a, id)) <=> Distinct(a) /\ id \notin ElementsOf(a)
  BY ElementsAppend
<1>3. /\ ElementsOf(a \o b) = ElementsOf(a) \cup ElementsOf(b)
      /\ Distinct(a \o b) <=> Distinct(a) /\ Distinct(b) /\ ElementsOf(a) \cap ElementsOf(b) = {}
  BY ElementsConcat
<1> DEFINE c == Append(a, id)
<1>4. /\ c \o b \in Seq(Ids) /\ ElementsOf(c \o b) = ElementsOf(c) \cup ElementsOf(b)
      /\ Distinct(c \o b) <=> Distinct(c) /\ Distinct(b) /\ ElementsOf(c) \cap ElementsOf(b) = {}
  <2> HIDE DEF c
  <2>1. c \in Seq(Ids)
    BY <1>2 DEF c
  <2> QED BY <2>1, ElementsConcat
<1> HIDE DEF c
<1>5. a \o <<id>> \o b = c \o b
  BY <1>1 DEF c
<1> QED
  BY <1>1, <1>2, <1>3, <1>4, <1>5 DEF c

LEMMA SameOperators ==
    ASSUME NEW s, NEW set
    PROVE  Abstract!ElementsOf(s) = ElementsOf(s) /\ Abstract!Only(s, set) = Only(s, set)
<1>1. Abstract!ElementsOf(s) = ElementsOf(s)
  BY DEF Abstract!ElementsOf, ElementsOf
<1>2. Abstract!Only(s, set) = Only(s, set)
  BY DEF Abstract!Only, Only
<1> QED
  BY <1>1, <1>2

(* A place behind all that is shown is one where the promise allows a new  *)
(* update.                                                                 *)
LEMMA PlacedIsNewOrder ==
    ASSUME Order \in Seq(Ids), NEW id,
           NEW new \in Placed(Order, ElementsOf(current.memoizedState), id)
    PROVE  new \in Abstract!NewOrder(id)
<1> DEFINE set == ElementsOf(current.memoizedState)
<1>1. PICK k \in 0..Len(Order) :
         /\ new = Abstract!Insert(Order, k, id)
         /\ ElementsOf(SubSeq(Order, k + 1, Len(Order))) \cap set = {}
  BY DEF Placed
<1> DEFINE b == SubSeq(Order, k + 1, Len(Order))
<1>2. Len(Order) \in Nat /\ DOMAIN Order = 1..Len(Order)
  BY LenProperties
<1>3. ASSUME NEW i \in DOMAIN Order, Order[i] \in set PROVE i <= k
  <2> SUFFICES ASSUME k < i PROVE FALSE
    BY <1>1, <1>2
  <2>1. k + 1 \in Int /\ Len(Order) \in Int /\ \A j \in k + 1..Len(Order) : Order[j] \in Ids
    BY <1>1, <1>2, ElementOfSeq
  <2>2. /\ b \in Seq(Ids)
        /\ Len(b) = IF k + 1 <= Len(Order) THEN Len(Order) - (k + 1) + 1 ELSE 0
        /\ \A j \in 1..Len(Order) - (k + 1) + 1 : b[j] = Order[k + 1 + j - 1]
    BY <2>1, SubSeqProperties
  <2>3. i - k \in 1..Len(Order) - (k + 1) + 1 /\ k + 1 + (i - k) - 1 = i
        /\ k + 1 <= Len(Order)
    BY <1>1, <1>2, <1>3
  <2> HIDE DEF b
  <2>4. b[i - k] = Order[i] /\ i - k \in 1..Len(b)
    BY <2>2, <2>3
  <2>5. Order[i] \in ElementsOf(b)
    BY <2>2, <2>4, LenProperties DEF ElementsOf
  <2> QED BY <1>1, <1>3, <2>5 DEF b
<1>4. \A i \in DOMAIN Order :
         Order[i] \in Abstract!ElementsOf(current.memoizedState) => i <= k
  BY <1>3, SameOperators
<1> QED
  BY <1>1, <1>4 DEF Abstract!NewOrder

-----------------------------------------------------------------------------
(* Every step keeps the invariant, and is a step of the promise or none.   *)

LEMMA InvFacts ==
    ASSUME Inv
    PROVE  /\ current \in FiberSet /\ wip \in FiberSet /\ shared \in SharedSet
           /\ render.lanes \subseteq Lane
           /\ updates \in 0..MaxUpdates /\ captures \in 0..MaxCaptures
           /\ MaxUpdates \in Nat /\ MaxCaptures \in Nat
           /\ Order = OrderOf(current, shared) /\ Order \in Seq(Ids) /\ Distinct(Order)
           /\ ElementsOf(current.memoizedState) \subseteq ElementsOf(Line(current))
           /\ current.memoizedState \in Seq(Ids) /\ wip.memoizedState \in Seq(Ids)
<1>1. /\ current \in FiberSet /\ wip \in FiberSet /\ shared \in SharedSet /\ render \in RenderSet
      /\ updates \in 0..MaxUpdates /\ captures \in 0..MaxCaptures
  BY DEF Inv, TypeOK
<1>2. render.lanes \subseteq Lane
  BY <1>1 DEF RenderSet
<1>3. current.memoizedState \in Seq(Ids) /\ wip.memoizedState \in Seq(Ids)
  BY <1>1 DEF FiberSet
<1>4. Order = OrderOf(current, shared) /\ Order \in Seq(Ids)
  BY <1>1, OrderIsOrderOf, OrderParts
<1>5. ElementsOf(current.memoizedState) \subseteq ElementsOf(Line(current))
  BY <1>1, ShownElements DEF Inv, ShownInv
<1> QED
  BY <1>1, <1>2, <1>3, <1>4, <1>5, UpdateQueueAssumption DEF Inv, IdsInv

LEMMA CurrentOrder ==
    ASSUME Inv
    PROVE  LET l == Line(current)
               p == IdsOf(shared.pending)
               i == IdsOf(shared.interleaved)
           IN  /\ l \in Seq(Ids) /\ p \in Seq(Ids) /\ i \in Seq(Ids) /\ l \o p \in Seq(Ids)
               /\ Order = l \o p \o i
               /\ ElementsOf(Order) = ElementsOf(l) \cup ElementsOf(p) \cup ElementsOf(i)
               /\ Distinct(l) /\ Distinct(p) /\ ElementsOf(l) \cap ElementsOf(p) = {}
               /\ Distinct(l \o p)
               /\ (ElementsOf(l) \cup ElementsOf(p)) \cap ElementsOf(i) = {}
<1>1. current \in FiberSet /\ shared \in SharedSet /\ Order = OrderOf(current, shared)
      /\ Distinct(OrderOf(current, shared))
  BY InvFacts
<1>2. Order = Line(current) \o IdsOf(shared.pending) \o IdsOf(shared.interleaved)
  BY <1>1 DEF OrderOf
<1> QED
  BY <1>1, <1>2, OrderParts

LEMMA InitInv == Init => Inv
<1> SUFFICES ASSUME Init PROVE Inv
  OBVIOUS
<1>1. TypeOK
  BY TypeInit
<1>2. current = NoFiber /\ wip = NoFiber /\ shared.pending = << >> /\ shared.interleaved = << >>
      /\ render.phase = "none" /\ ~render.didCapture
  BY DEF Init, NoRender
<1>3. << >> \in Seq(Ids) /\ << >> \o << >> = << >>
  BY EmptySeq, ConcatEmptySeq
<1>4. Kept(<< >>) = << >> /\ IdsOf(<< >>) = << >> /\ ElementsOf(<< >>) = {} /\ Distinct(<< >>)
  BY OnlyEmpty, IdsEmpty, ElementsEmpty DEF Kept
<1>5. ShownInv
  BY <1>2, <1>3, <1>4 DEF ShownInv, Shown, NoFiber
<1>6. Order = << >>
  BY <1>2, <1>3, <1>4 DEF Order, NoFiber
<1>7. WaitingInv /\ IdsInv /\ PhaseInv
  BY <1>2, <1>4, <1>6 DEF WaitingInv, IdsInv, PhaseInv
<1> QED
  BY <1>1, <1>2, <1>5, <1>7 DEF Inv, HasWip

(* An update joins the line of those that wait.                            *)
LEMMA UpdateStep ==
    ASSUME Inv, TypeOK', NEW lane \in Lane, updates < MaxUpdates,
           EnqueuePending(lane) \/ EnqueueInterleaved(lane), Schedule(lane),
           render'.phase = render.phase, render'.didCapture = render.didCapture,
           render'.lanes = render.lanes, captures' = captures
    PROVE  /\ Inv'
           /\ updates + 1 \in Ids /\ updates + 1 \notin ElementsOf(Order)
           /\ Order' \in Abstract!NewOrder(updates + 1)
           /\ current'.memoizedState = current.memoizedState
<1> DEFINE id == updates + 1
           u == NewUpdate(lane)
           l == Line(current)
           p == IdsOf(shared.pending)
           i == IdsOf(shared.interleaved)
<1>1. /\ current \in FiberSet /\ wip \in FiberSet /\ shared \in SharedSet
      /\ current' \in FiberSet /\ wip' \in FiberSet /\ shared' \in SharedSet
      /\ updates \in 0..MaxUpdates /\ captures \in 0..MaxCaptures
      /\ MaxUpdates \in Nat /\ MaxCaptures \in Nat
  BY InvFacts DEF TypeOK
<1>2. /\ u \in UpdateSet /\ id \in Ids /\ u.id = id /\ u.lane = lane /\ updates' = id
      /\ lane # NoLane
  BY NewUpdateType, NoLaneIsNoLane DEF Inv, NewUpdate, Schedule
<1>3. /\ Alike(current', current) /\ current'.effects = current.effects
      /\ Alike(wip', wip) /\ wip'.effects = wip.effects
      /\ HasWip => wip'.lanes = wip.lanes \cup {lane}
  BY <1>1 DEF Schedule, MarkUpdateLaneFromFiberToRoot, Alike, FiberSet, HasWip
<1>4. /\ l \in Seq(Ids) /\ p \in Seq(Ids) /\ i \in Seq(Ids) /\ l \o p \in Seq(Ids)
      /\ Order = l \o p \o i /\ Order \in Seq(Ids) /\ Distinct(Order)
      /\ ElementsOf(Order) = ElementsOf(l) \cup ElementsOf(p) \cup ElementsOf(i)
      /\ (ElementsOf(l) \cup ElementsOf(p)) \cap ElementsOf(i) = {}
      /\ ElementsOf(current.memoizedState) \subseteq ElementsOf(l)
  BY InvFacts, CurrentOrder
<1>5. id \notin ElementsOf(Order) /\ \A x \in ElementsOf(Order) : x <= id \/ x \in (MaxUpdates + 1)..Captured
  <2>1. \A x \in ElementsOf(Order) :
           x \in Ids /\ (x <= updates \/ x \in (MaxUpdates + 1)..Captured)
    BY <1>4, ElementsType DEF Inv, IdsInv
  <2> QED BY <1>1, <2>1 DEF Ids
<1>6. shared.pending \in Seq(UpdateSet) /\ shared.interleaved \in Seq(UpdateSet)
  BY <1>1 DEF SharedSet
<1>7. /\ Line(current') = l /\ Line(wip') = Line(wip)
      /\ OrderOf(current', shared') = OrderOf(current, shared')
      /\ current'.memoizedState = current.memoizedState
      /\ wip'.memoizedState = wip.memoizedState /\ wip'.base = wip.base
      /\ (Shown(current') <=> Shown(current)) /\ (Shown(wip') <=> Shown(wip))
  BY <1>3, AlikeFibers DEF Alike
<1>8. /\ Order' \in Placed(Order, ElementsOf(current.memoizedState), id)
      /\ ElementsOf(Order') = ElementsOf(Order) \cup {id}
      /\ Distinct(Order')
      /\ \A v \in ElementsOf(shared'.pending) \cup ElementsOf(shared'.interleaved) :
            v \in ElementsOf(shared.pending) \cup ElementsOf(shared.interleaved) \cup {u}
      /\ \/ EnqueuePending(lane) /\ ElementsOf(shared'.pending) = ElementsOf(shared.pending) \cup {u}
         \/ shared'.pending = shared.pending
  <2>1. CASE EnqueuePending(lane)
    <3>1. shared'.pending = Append(shared.pending, u) /\ shared'.interleaved = shared.interleaved
      BY <1>1, <2>1 DEF EnqueuePending, SharedSet
    <3>2. IdsOf(shared'.pending) = Append(p, id)
          /\ ElementsOf(shared'.pending) = ElementsOf(shared.pending) \cup {u}
      BY <1>2, <1>6, <3>1, IdsAppend, ElementsAppend
    <3>3. Order' = l \o Append(p, id) \o i
      BY <1>7, <3>1, <3>2, OrderIsOrderOf DEF OrderOf
    <3> DEFINE a == l \o p
    <3>4. l \o Append(p, id) = a \o <<id>>
      <4>1. l \o Append(p, id) = Append(a, id)
        BY <1>2, <1>4, ConcatAppend
      <4> QED BY <1>2, <1>4, <4>1, AppendIsConcat
    <3>5. a \in Seq(Ids) /\ a \o i = Order /\ Order' = a \o <<id>> \o i
      BY <1>4, <3>3, <3>4
    <3>6. ElementsOf(i) \cap ElementsOf(current.memoizedState) = {}
      BY <1>4
    <3> HIDE DEF a, p, l, i
    <3>7. Order' \in Placed(Order, ElementsOf(current.memoizedState), id)
      <4>1. a \o <<id>> \o i \in Placed(a \o i, ElementsOf(current.memoizedState), id)
        BY <1>2, <1>4, <3>5, <3>6, BetweenIsPlaced
      <4> QED BY <3>5, <4>1
    <3>8. /\ ElementsOf(a \o <<id>> \o i) = ElementsOf(a \o i) \cup {id}
          /\ Distinct(a \o <<id>> \o i) <=> Distinct(a \o i) /\ id \notin ElementsOf(a \o i)
      <4>1. a \in Seq(Ids) /\ i \in Seq(Ids) /\ id \in Ids
        BY <1>2, <1>4, <3>5
      <4> HIDE DEF id
      <4> QED BY <4>1, PlacedElements
    <3> QED BY <1>4, <1>5, <2>1, <3>1, <3>2, <3>5, <3>7, <3>8
  <2>2. CASE EnqueueInterleaved(lane)
    <3>1. shared'.interleaved = Append(shared.interleaved, u) /\ shared'.pending = shared.pending
      BY <1>1, <2>2 DEF EnqueueInterleaved, SharedSet
    <3>2. IdsOf(shared'.interleaved) = Append(i, id)
          /\ ElementsOf(shared'.interleaved) = ElementsOf(shared.interleaved) \cup {u}
      BY <1>2, <1>6, <3>1, IdsAppend, ElementsAppend
    <3>3. Order' = l \o p \o Append(i, id)
      BY <1>7, <3>1, <3>2, OrderIsOrderOf DEF OrderOf
    <3>4. l \o p \o Append(i, id) = Append(Order, id)
      <4>1. (l \o p) \o Append(i, id) = Append((l \o p) \o i, id)
        <5> DEFINE a == l \o p
        <5>1. a \in Seq(Ids)
          BY <1>4
        <5> HIDE DEF a, i, id
        <5> QED BY <1>2, <1>4, <5>1, ConcatAppend
      <4> QED BY <1>4, <4>1
    <3>5. /\ ElementsOf(Append(Order, id)) = ElementsOf(Order) \cup {id}
          /\ Distinct(Append(Order, id)) <=> Distinct(Order) /\ id \notin ElementsOf(Order)
      <4>1. Order \in Seq(Ids) /\ id \in Ids
        BY <1>2, <1>4
      <4> HIDE DEF id
      <4> QED BY <4>1, ElementsAppend
    <3>6. Append(Order, id) \in Placed(Order, ElementsOf(current.memoizedState), id)
      <4>1. << >> \in Seq(Ids) /\ ElementsOf(<< >>) = {}
        BY EmptySeq, ElementsEmpty
      <4>2. Order \o << >> = Order /\ Append(Order, id) \in Seq(Ids)
            /\ Append(Order, id) = Order \o <<id>>
        BY <1>2, <1>4, ConcatEmptySeq, AppendIsConcat, AppendProperties
      <4>3. Append(Order, id) \o << >> = Append(Order, id)
        BY <4>2, ConcatEmptySeq
      <4>4. Order \o <<id>> \o << >> \in Placed(Order \o << >>, ElementsOf(current.memoizedState), id)
        BY <1>2, <1>4, <4>1, BetweenIsPlaced
      <4> QED BY <4>2, <4>3, <4>4
    <3> QED BY <1>4, <1>5, <3>1, <3>2, <3>3, <3>4, <3>5, <3>6
  <2> QED BY <2>1, <2>2
<1>9. ShownInv'
  BY <1>3, <1>7 DEF Inv, ShownInv
<1>10. WaitingInv'
  BY <1>2, <1>8 DEF Inv, WaitingInv
<1>11. IdsInv'
  <2>1. Captured' = Captured /\ (captures > 0 => Captured # id)
    BY <1>1 DEF Captured
  <2> QED BY <1>2, <1>5, <1>8, <2>1 DEF Inv, IdsInv
<1>12. PhaseInv'
  BY <1>7 DEF Inv, PhaseInv, Captured
<1>13. HasWip' => WipInv'
  BY <1>3, <1>7 DEF Inv, HasWip, WipInv, Captured
<1>15. Inv'
  BY <1>9, <1>10, <1>11, <1>12, <1>13 DEF Inv
<1>16. Order' \in Abstract!NewOrder(id)
  BY <1>4, <1>8, PlacedIsNewOrder
<1> QED
  BY <1>2, <1>5, <1>7, <1>15, <1>16

(* A step the abstract queue does not see.                                 *)
Quiet == Order' = Order /\ current'.memoizedState = current.memoizedState

(* The component is as it was, but for what was said of the render.        *)
LEMMA FreshStep ==
    ASSUME Inv, TypeOK', NEW lanes, NEW sync, NEW retried, PrepareFreshStack(lanes, sync, retried)
    PROVE  Inv' /\ Quiet
<1>1. /\ current' = current /\ wip' = NoFiber /\ captures' = captures /\ updates' = updates
      /\ shared' = [shared EXCEPT !.pending = @ \o shared.interleaved, !.interleaved = << >>]
      /\ render'.phase = "started" /\ ~render'.didCapture
  BY DEF PrepareFreshStack, EnqueueInterleavedUpdates, NoRender, counters
<1>2. /\ shared.pending \in Seq(UpdateSet) /\ shared.interleaved \in Seq(UpdateSet)
      /\ shared'.pending = shared.pending \o shared.interleaved /\ shared'.interleaved = << >>
  BY <1>1, InvFacts DEF SharedSet
<1>3. Order' = Order
  <2> DEFINE l == Line(current)
             p == IdsOf(shared.pending)
             i == IdsOf(shared.interleaved)
  <2>1. Order' = l \o IdsOf(shared'.pending) \o IdsOf(shared'.interleaved)
    BY <1>1, OrderIsOrderOf DEF OrderOf
  <2>2. IdsOf(shared'.pending) = p \o i /\ IdsOf(shared'.interleaved) = << >>
    BY <1>2, IdsConcat, IdsEmpty
  <2>3. l \in Seq(Ids) /\ p \in Seq(Ids) /\ i \in Seq(Ids) /\ Order = l \o p \o i
    BY CurrentOrder
  <2> HIDE DEF l, p, i
  <2>4. l \o (p \o i) = (l \o p) \o i
    BY <2>3, AssociativeIds
  <2>5. Order' = l \o (p \o i) \o << >> /\ l \o (p \o i) \in Seq(Ids)
    BY <2>1, <2>2, <2>3, ConcatProperties
  <2>6. l \o (p \o i) \o << >> = l \o (p \o i)
    BY <2>5, ConcatEmptySeq
  <2> QED BY <2>3, <2>4, <2>5, <2>6
<1>4. Shown(NoFiber)
  <2>1. << >> \in Seq(Ids) /\ << >> \o << >> = << >>
    BY EmptySeq, ConcatEmptySeq
  <2>2. Kept(<< >>) = << >> /\ IdsOf(<< >>) = << >>
    BY OnlyEmpty, IdsEmpty DEF Kept
  <2> QED BY <2>1, <2>2 DEF Shown, NoFiber
<1>5. ShownInv'
  BY <1>1, <1>4 DEF Inv, ShownInv
<1>6. WaitingInv'
  <2>1. /\ ElementsOf(shared'.pending) = ElementsOf(shared.pending) \cup ElementsOf(shared.interleaved)
        /\ ElementsOf(shared'.interleaved) = {}
    BY <1>2, ElementsConcat, ElementsEmpty
  <2> QED BY <2>1 DEF Inv, WaitingInv
<1>7. IdsInv' /\ PhaseInv'
  BY <1>1, <1>3 DEF Inv, IdsInv, PhaseInv, Captured
<1>8. ~HasWip'
  BY <1>1 DEF HasWip
<1> QED
  BY <1>1, <1>3, <1>5, <1>6, <1>7, <1>8 DEF Inv, Quiet

(* Only the lanes of the tree, or the phase of the render, change.         *)
LEMMA RenderStep ==
    ASSUME Inv, TypeOK', UNCHANGED <<current, wip, shared, updates, captures>>,
           render'.lanes = render.lanes, render'.didCapture = render.didCapture,
           \/ render'.phase = render.phase
           \/ /\ render.phase \in {"begun", "bailedOut"} /\ render'.phase = "done"
           \/ /\ render.phase \in {"begun", "bailedOut"} /\ render'.phase = "suspended"
              /\ ~render.didCapture
    PROVE  Inv' /\ Quiet
<1>1. Order' = Order
  BY DEF Order
<1>2. ShownInv' /\ WaitingInv' /\ IdsInv'
  BY <1>1 DEF Inv, ShownInv, WaitingInv, IdsInv, Captured
<1>3. PhaseInv'
  BY DEF Inv, PhaseInv, Captured
<1>4. HasWip' => WipInv'
  BY DEF Inv, HasWip, WipInv, Captured
<1> QED
  BY <1>1, <1>2, <1>3, <1>4 DEF Inv, Quiet

LEMMA BailOutStep ==
    ASSUME Inv, TypeOK', BailOut
    PROVE  Inv' /\ Quiet
<1>1. /\ current' = current /\ wip' = current /\ shared' = shared
      /\ updates' = updates /\ captures' = captures
      /\ render.phase = "started" /\ render'.phase = "bailedOut"
      /\ render'.didCapture = render.didCapture
  BY DEF BailOut, counters, InRender, Inv, TypeOK, RenderSet
<1>2. Order' = Order
  BY <1>1 DEF Order
<1>3. ShownInv' /\ WaitingInv' /\ IdsInv' /\ PhaseInv'
  BY <1>1, <1>2 DEF Inv, ShownInv, WaitingInv, IdsInv, PhaseInv, Captured
<1>4. WipInv'
  <2>1. Line(wip') = Line(current') /\ ~render'.didCapture
    BY <1>1 DEF Inv, PhaseInv
  <2>2. wip'.effects = << >>
    BY <1>1 DEF Inv, ShownInv
  <2> QED BY <1>1, <2>1, <2>2, ElementsEmpty DEF WipInv
<1> QED
  BY <1>1, <1>2, <1>3, <1>4 DEF Inv, Quiet

LEMMA KeptConcat ==
    ASSUME NEW s \in Seq(UpdateSet), NEW t \in Seq(UpdateSet)
    PROVE  /\ Kept(s \o t) = Kept(s) \o Kept(t) /\ Kept(s) \in Seq(UpdateSet)
           /\ ElementsOf(t) \cap Waits = {} => Kept(s \o t) = Kept(s)
<1>1. Only(s \o t, Waits) = Only(s, Waits) \o Only(t, Waits)
  BY OnlyConcat
<1>2. /\ Only(s, Waits) \in Seq(UpdateSet)
      /\ ElementsOf(t) \cap Waits = {} => Only(t, Waits) = << >>
  BY OnlyElements
<1> QED
  BY <1>1, <1>2, ConcatEmptySeq DEF Kept

(* The pending updates join the current queue; the line is the same.       *)
LEMMA TransferStep ==
    ASSUME Inv, TransferPending
    PROVE  /\ Shown(current') /\ current'.effects = << >>
           /\ Line(current') = Line(current) \o IdsOf(shared.pending)
           /\ current'.memoizedState = current.memoizedState
           /\ shared'.pending = << >>
           /\ WaitingInv' /\ Order' = Order
<1>1. current \in FiberSet /\ shared \in SharedSet
  BY InvFacts
<1>2. /\ current.base \in Seq(UpdateSet) /\ shared.pending \in Seq(UpdateSet)
      /\ current.baseState \in Seq(Ids)
  BY <1>1 DEF FiberSet, SharedSet
<1>3. /\ current'.base = current.base \o shared.pending
      /\ current'.baseState = current.baseState /\ current'.effects = current.effects
      /\ current'.memoizedState = current.memoizedState
      /\ shared'.pending = << >> /\ shared'.interleaved = shared.interleaved
  BY <1>1 DEF TransferPending, FiberSet, SharedSet
<1>4. Kept(current.base \o shared.pending) = Kept(current.base)
  <2>1. ElementsOf(shared.pending) \cap Waits = {}
    BY NoLaneIsNoLane DEF Inv, WaitingInv, Waits
  <2> QED BY <1>2, <2>1, KeptConcat
<1>5. Shown(current') /\ current'.effects = << >>
  BY <1>3, <1>4 DEF Inv, ShownInv, Shown
<1>6. Line(current') = Line(current) \o IdsOf(shared.pending)
  <2>1. IdsOf(current.base) \in Seq(Ids) /\ IdsOf(shared.pending) \in Seq(Ids)
    BY <1>2, IdsType
  <2>2. IdsOf(current'.base) = IdsOf(current.base) \o IdsOf(shared.pending)
    BY <1>2, <1>3, IdsConcat
  <2>3. current.baseState \o (IdsOf(current.base) \o IdsOf(shared.pending)) =
           (current.baseState \o IdsOf(current.base)) \o IdsOf(shared.pending)
    BY <1>2, <2>1, AssociativeIds
  <2> QED BY <1>3, <2>2, <2>3 DEF Line
<1>7. WaitingInv'
  BY <1>3, ElementsEmpty DEF Inv, WaitingInv
<1>8. Order' = Order
  <2> DEFINE l == Line(current)
             p == IdsOf(shared.pending)
             i == IdsOf(shared.interleaved)
  <2>1. Order' = l \o p \o IdsOf(shared'.pending) \o IdsOf(shared'.interleaved)
    BY <1>6, OrderIsOrderOf DEF OrderOf
  <2>2. IdsOf(shared'.pending) = << >> /\ IdsOf(shared'.interleaved) = i
    BY <1>3, IdsEmpty
  <2>3. l \o p \in Seq(Ids) /\ Order = l \o p \o i
    BY CurrentOrder
  <2>4. (l \o p) \o << >> = l \o p
    BY <2>3, ConcatEmptySeq
  <2> QED BY <2>1, <2>2, <2>3, <2>4
<1> QED
  BY <1>3, <1>5, <1>6, <1>7, <1>8

LEMMA BeginStep ==
    ASSUME Inv, TypeOK', BeginWork
    PROVE  Inv' /\ Quiet
<1>1. /\ wip' = ProcessUpdateQueue(current) /\ TransferPending
      /\ updates' = updates /\ captures' = captures
      /\ render.phase = "started" /\ render'.phase = "begun"
      /\ render'.didCapture = render.didCapture /\ ~render.didCapture
  BY DEF BeginWork, counters, InRender, Inv, TypeOK, RenderSet, PhaseInv
<1>2. /\ Shown(current') /\ current'.effects = << >>
      /\ Line(current') = Line(current) \o IdsOf(shared.pending)
      /\ current'.memoizedState = current.memoizedState
      /\ shared'.pending = << >>
      /\ WaitingInv' /\ Order' = Order
  BY <1>1, TransferStep
<1>3. /\ current \in FiberSet /\ shared \in SharedSet /\ render.lanes \subseteq Lane
      /\ Shown(current) /\ current.effects = << >>
      /\ Distinct(Line(current) \o IdsOf(shared.pending))
      /\ \A u \in ElementsOf(shared.pending) : u.lane \in Lane
  BY InvFacts, CurrentOrder DEF Inv, ShownInv, WaitingInv
<1>4. /\ Shown(wip')
      /\ Line(wip') = Line(current) \o IdsOf(shared.pending)
      /\ ElementsOf(current.memoizedState) \subseteq ElementsOf(wip'.memoizedState)
  BY <1>1, <1>3, ProcessElements
<1>5. PICK e \in Seq(Ids) :
         /\ wip'.effects = current.effects \o e /\ Distinct(e)
         /\ ElementsOf(e) = ElementsOf(wip'.memoizedState) \ ElementsOf(current.memoizedState)
  BY <1>1, <1>3, ProcessElements
<1>6. wip'.effects = e
  BY <1>3, <1>5, ConcatEmptySeq
<1>7. WipInv'
  BY <1>1, <1>2, <1>4, <1>5, <1>6 DEF WipInv
<1>8. ShownInv' /\ IdsInv' /\ PhaseInv'
  BY <1>1, <1>2, <1>4 DEF Inv, ShownInv, IdsInv, PhaseInv, Captured
<1> QED
  BY <1>2, <1>7, <1>8 DEF Inv, Quiet

(* The update that handles an error joins the queue of the work in         *)
(* progress, behind the others.                                            *)
LEMMA CapturedStep ==
    ASSUME Inv, TypeOK', EnqueueCapturedUpdate
    PROVE  Inv' /\ Quiet
<1> DEFINE lane == HighestPriorityLane(render.lanes)
           u == [id |-> MaxUpdates + captures + 1, lane |-> lane]
           c == MaxUpdates + captures + 1
<1>1. /\ render.phase \in {"begun", "bailedOut"} /\ ~render.didCapture /\ captures < MaxCaptures
      /\ captures' = captures + 1
      /\ wip' = [wip EXCEPT !.lanes = @ \cup {lane}, !.base = Append(@, u)]
      /\ current' = current /\ shared' = shared /\ updates' = updates
      /\ render'.phase = "captured" /\ render'.didCapture /\ render'.lanes = render.lanes
  BY DEF EnqueueCapturedUpdate, InRender, Inv, TypeOK, RenderSet
<1>2. lane \in render.lanes /\ lane \in Lane
  BY <1>1, HighestIsOne DEF Inv, TypeOK, RenderSet, NoLanes
<1>3. /\ u \in UpdateSet /\ u.id = c /\ u.lane = lane /\ u \notin Waits /\ c \in Ids
      /\ Captured' = c /\ captures' > 0 /\ c = Captured + 1
      /\ Captured \in Nat /\ MaxUpdates <= Captured /\ updates <= MaxUpdates /\ updates \in Nat /\ MaxUpdates \in Nat
  <2>1. u \in UpdateSet /\ c \in Ids
    BY <1>1, <1>2, CapturedType DEF Inv
  <2> QED BY <1>1, <1>2, <2>1, InvFacts, NoLaneIsNoLane DEF Waits, Captured
<1> HIDE DEF u, c, lane
<1>4. /\ wip \in FiberSet /\ wip.base \in Seq(UpdateSet) /\ wip.baseState \in Seq(Ids)
  BY InvFacts DEF FiberSet
<1>5. /\ wip'.base = Append(wip.base, u) /\ wip'.baseState = wip.baseState
      /\ wip'.memoizedState = wip.memoizedState /\ wip'.effects = wip.effects
  BY <1>1, <1>4 DEF FiberSet
<1>6. Kept(wip'.base) = Kept(wip.base)
  BY <1>3, <1>4, <1>5, OnlyAppend DEF Kept
<1>7. ShownInv'
  BY <1>1, <1>5, <1>6 DEF Inv, ShownInv, Shown
<1>8. Line(wip) = Line(current) /\ Line(current) \in Seq(Ids) /\ WipInv
  BY <1>1, CurrentOrder DEF Inv, HasWip, WipInv
<1>9. Line(wip') = Append(Line(current), c)
  <2>1. IdsOf(wip.base) \in Seq(Ids) /\ IdsOf(wip'.base) = Append(IdsOf(wip.base), c)
    BY <1>3, <1>4, <1>5, IdsType, IdsAppend
  <2>2. wip.baseState \o Append(IdsOf(wip.base), c) = Append(wip.baseState \o IdsOf(wip.base), c)
    <3>1. \A a, b \in Seq(Ids) : a \o Append(b, c) = Append(a \o b, c)
      <4> SUFFICES ASSUME NEW a \in Seq(Ids), NEW b \in Seq(Ids)
                   PROVE  a \o Append(b, c) = Append(a \o b, c)
        OBVIOUS
      <4> QED BY <1>3, ConcatAppend
    <3> QED BY <1>4, <2>1, <3>1
  <2> QED BY <1>5, <1>8, <2>1, <2>2 DEF Line
<1>10. Append(Line(current), c) \in Placed(Line(current), ElementsOf(current.memoizedState), c)
  <2> DEFINE l == Line(current)
  <2>1. l \in Seq(Ids) /\ << >> \in Seq(Ids) /\ ElementsOf(<< >>) = {}
    BY <1>8, EmptySeq, ElementsEmpty
  <2> HIDE DEF l
  <2>2. /\ l \o << >> = l /\ Append(l, c) \in Seq(Ids) /\ Append(l, c) = l \o <<c>>
    BY <1>3, <2>1, ConcatEmptySeq, AppendIsConcat, AppendProperties
  <2>3. Append(l, c) \o << >> = Append(l, c)
    BY <2>2, ConcatEmptySeq
  <2>4. l \o <<c>> \o << >> \in Placed(l \o << >>, ElementsOf(current.memoizedState), c)
    BY <1>3, <2>1, BetweenIsPlaced
  <2>5. Append(l, c) \in Placed(l, ElementsOf(current.memoizedState), c)
    BY <2>2, <2>3, <2>4
  <2> QED BY <2>5 DEF l
<1>11. WipInv'
  BY <1>1, <1>3, <1>5, <1>8, <1>9, <1>10 DEF WipInv
<1>12. Order' = Order
  BY <1>1 DEF Order
<1>13. IdsInv'
  <2>1. \A x \in ElementsOf(Order) : x <= updates \/ x \in (MaxUpdates + 1)..Captured
    BY DEF Inv, IdsInv
  <2>2. \A x \in ElementsOf(Order) : x \in Nat
    BY InvFacts, ElementsType DEF Ids
  <2>3. \A x \in ElementsOf(Order) : x # c /\ (x <= updates \/ x \in (MaxUpdates + 1)..c)
    BY <1>3, <2>1, <2>2
  <2> QED BY <1>1, <1>3, <1>12, <2>3 DEF Inv, IdsInv
<1>14. PhaseInv'
  <2>1. u \in ElementsOf(wip'.base)
    BY <1>3, <1>4, <1>5, ElementsAppend
  <2> QED BY <1>1, <1>2, <1>3, <1>9, <2>1 DEF PhaseInv
<1>15. WaitingInv'
  BY <1>1 DEF Inv, WaitingInv
<1> QED
  BY <1>1, <1>7, <1>11, <1>12, <1>13, <1>14, <1>15 DEF Inv, Quiet

(* The boundary is rendered again, with the update it captured.            *)
LEMMA AgainStep ==
    ASSUME Inv, TypeOK', BeginWorkAgain
    PROVE  Inv' /\ Quiet
<1> DEFINE l == Line(current)
           p == IdsOf(shared.pending)
<1>1. /\ wip' = ProcessUpdateQueue(wip) /\ TransferPending
      /\ updates' = updates /\ captures' = captures
      /\ render.phase = "captured" /\ render'.phase = "begun"
      /\ render'.didCapture = render.didCapture /\ render.didCapture
      /\ Line(wip) = Append(l, Captured)
  BY DEF BeginWorkAgain, counters, InRender, Inv, TypeOK, RenderSet, PhaseInv
<1>2. /\ Shown(current') /\ current'.effects = << >>
      /\ Line(current') = l \o p
      /\ current'.memoizedState = current.memoizedState
      /\ shared'.pending = << >>
      /\ WaitingInv' /\ Order' = Order
  BY <1>1, TransferStep
<1>3. /\ l \in Seq(Ids) /\ p \in Seq(Ids) /\ l \o p \in Seq(Ids) /\ Distinct(l \o p)
      /\ ElementsOf(l) \cap ElementsOf(p) = {}
      /\ ElementsOf(l) \cup ElementsOf(p) \subseteq ElementsOf(Order)
  BY CurrentOrder
<1>4. Captured \notin ElementsOf(l) \cup ElementsOf(p) /\ Captured \in Ids /\ Captured' = Captured
  BY <1>1, <1>3, InvFacts DEF Inv, IdsInv, Captured, Ids
<1> HIDE DEF l, p
<1>5. /\ Append(l, Captured) \o p = l \o <<Captured>> \o p
      /\ Distinct(Append(l, Captured) \o p)
  <2>1. /\ l \o <<Captured>> = Append(l, Captured)
        /\ Distinct(l \o <<Captured>> \o p) <=> Distinct(l \o p) /\ Captured \notin ElementsOf(l \o p)
    BY <1>3, <1>4, PlacedElements
  <2>2. ElementsOf(l \o p) = ElementsOf(l) \cup ElementsOf(p)
    BY <1>3, ElementsConcat
  <2> QED BY <1>3, <1>4, <2>1, <2>2
<1>6. /\ wip \in FiberSet /\ shared \in SharedSet /\ render.lanes \subseteq Lane /\ Shown(wip)
      /\ Distinct(Line(wip) \o IdsOf(shared.pending))
      /\ \A u \in ElementsOf(shared.pending) : u.lane \in Lane
  BY <1>1, <1>5, InvFacts DEF Inv, ShownInv, WaitingInv, p
<1>7. /\ Shown(wip')
      /\ Line(wip') = l \o <<Captured>> \o p
      /\ ElementsOf(wip.memoizedState) \subseteq ElementsOf(wip'.memoizedState)
      /\ \A u \in ElementsOf(ListOf(wip)) : Sufficient(u) => u.id \in ElementsOf(wip'.memoizedState)
  <2>1. /\ Shown(wip')
        /\ Line(wip') = Line(wip) \o IdsOf(shared.pending)
          /\ ElementsOf(wip.memoizedState) \subseteq ElementsOf(wip'.memoizedState)
        /\ \A u \in ElementsOf(ListOf(wip)) : Sufficient(u) => u.id \in ElementsOf(wip'.memoizedState)
    BY <1>1, <1>6, ProcessElements
  <2> QED BY <1>1, <1>5, <2>1 DEF p
<1>8. PICK e \in Seq(Ids) :
         /\ wip'.effects = wip.effects \o e /\ Distinct(e)
         /\ ElementsOf(e) = ElementsOf(wip'.memoizedState) \ ElementsOf(wip.memoizedState)
  BY <1>1, <1>6, ProcessElements
<1>9. /\ WipInv /\ wip.effects \in Seq(Ids)
      /\ ElementsOf(current.memoizedState) \subseteq ElementsOf(l)
  BY <1>1, <1>6, InvFacts DEF Inv, HasWip, FiberSet, l
<1>10. /\ ElementsOf(wip'.effects) = ElementsOf(wip'.memoizedState) \ ElementsOf(current.memoizedState)
       /\ Distinct(wip'.effects)
       /\ ElementsOf(current.memoizedState) \subseteq ElementsOf(wip'.memoizedState)
  <2>1. /\ ElementsOf(current.memoizedState) \subseteq ElementsOf(wip.memoizedState)
        /\ ElementsOf(wip.effects) =
              ElementsOf(wip.memoizedState) \ ElementsOf(current.memoizedState)
        /\ Distinct(wip.effects)
    BY <1>9 DEF WipInv
  <2>2. /\ ElementsOf(wip.effects \o e) = ElementsOf(wip.effects) \cup ElementsOf(e)
        /\ Distinct(wip.effects \o e) <=>
              Distinct(wip.effects) /\ Distinct(e) /\ ElementsOf(wip.effects) \cap ElementsOf(e) = {}
    BY <1>9, ElementsConcat
  <2> QED BY <1>7, <1>8, <2>1, <2>2
<1>11. WipInv'
  <2>1. l \o <<Captured>> \o p \in Placed(l \o p, ElementsOf(current.memoizedState), Captured)
    BY <1>3, <1>4, <1>9, BetweenIsPlaced
  <2> QED BY <1>1, <1>2, <1>4, <1>7, <1>10, <2>1 DEF WipInv
<1>12. Captured \in ElementsOf(wip'.memoizedState)
  <2>1. PICK u \in ElementsOf(wip.base) : u.id = Captured /\ u.lane \in render.lanes
    BY <1>1 DEF Inv, PhaseInv
  <2>2. u \in ElementsOf(ListOf(wip)) /\ Sufficient(u)
    BY <1>6, <2>1, ListLine DEF Sufficient
  <2> QED BY <1>7, <2>1, <2>2
<1>13. ShownInv' /\ IdsInv' /\ PhaseInv'
  BY <1>1, <1>2, <1>4, <1>7, <1>12 DEF Inv, ShownInv, IdsInv, PhaseInv
<1> QED
  BY <1>2, <1>11, <1>13 DEF Inv, Quiet

(* What a fiber shows is a part of the line, in its order.                 *)
LEMMA ShownIsOnly ==
    ASSUME NEW f \in FiberSet, NEW sh \in SharedSet, Shown(f), Distinct(OrderOf(f, sh))
    PROVE  f.memoizedState = Only(OrderOf(f, sh), ElementsOf(f.memoizedState))
<1> DEFINE ids == ElementsOf(f.memoizedState)
           b == f.baseState
           q == IdsOf(f.base)
           p == IdsOf(sh.pending)
           i == IdsOf(sh.interleaved)
           l == Line(f)
<1>1. b \in Seq(Ids) /\ f.base \in Seq(UpdateSet)
  BY DEF FiberSet
<1>2. q \in Seq(Ids) /\ ElementsOf(q) = {u.id : u \in ElementsOf(f.base)} /\ l = b \o q
  BY <1>1, IdsType DEF Line
<1>3. /\ l \in Seq(Ids) /\ p \in Seq(Ids) /\ i \in Seq(Ids) /\ l \o p \in Seq(Ids)
      /\ Distinct(l)
      /\ ElementsOf(l) \cap ElementsOf(p) = {}
      /\ (ElementsOf(l) \cup ElementsOf(p)) \cap ElementsOf(i) = {}
  BY OrderParts
<1>4. /\ ids = ElementsOf(b) \cup {u.id : u \in ElementsOf(f.base) \cap Waits}
      /\ ids \subseteq ElementsOf(l)
  BY ShownElements
<1> HIDE DEF b, l, p, i, ids
<1>5. Distinct(q) /\ ElementsOf(b) \cap ElementsOf(q) = {}
  <2> HIDE DEF q
  <2>1. Distinct(b \o q) <=> Distinct(b) /\ Distinct(q) /\ ElementsOf(b) \cap ElementsOf(q) = {}
    BY <1>1, <1>2, ElementsConcat
  <2> QED BY <1>2, <1>3, <2>1
<1>6. Only(q, ids) = IdsOf(Kept(f.base))
  <2>1. \A u, v \in ElementsOf(f.base) : u.id = v.id => u = v
    BY <1>1, <1>5, OnlyDistinct
  <2>2. ASSUME NEW u \in ElementsOf(f.base) PROVE u \in Waits <=> u.id \in ids
    BY <1>2, <1>4, <1>5, <2>1
  <2> QED BY <1>1, <2>2, OnlyIds DEF Kept
<1> HIDE DEF q
<1>7. Only(b, ids) = b
  BY <1>1, <1>4, OnlyElements
<1>8. Only(p, ids) = << >>
  BY <1>3, <1>4, OnlyElements
<1>9. Only(i, ids) = << >>
  BY <1>3, <1>4, OnlyElements
<1>10. Only(l, ids) = b \o IdsOf(Kept(f.base))
  <2>1. Only(b \o q, ids) = Only(b, ids) \o Only(q, ids)
    BY <1>1, <1>2, OnlyConcat
  <2> QED BY <1>2, <1>6, <1>7, <2>1
<1>11. Only(l, ids) \in Seq(Ids)
  BY <1>3, OnlyElements
<1>12. Only(l \o p, ids) = Only(l, ids)
  <2>1. Only(l \o p, ids) = Only(l, ids) \o Only(p, ids)
    BY <1>3, OnlyConcat
  <2> QED BY <1>8, <1>11, <2>1, ConcatEmptySeq
<1>13. Only((l \o p) \o i, ids) = Only(l, ids)
  <2> DEFINE a == l \o p
  <2>1. a \in Seq(Ids)
    BY <1>3
  <2>2. Only(a, ids) = Only(l, ids)
    BY <1>12
  <2> HIDE DEF a
  <2>3. Only(a \o i, ids) = Only(a, ids) \o Only(i, ids)
    BY <1>3, <2>1, OnlyConcat
  <2>4. Only(a \o i, ids) = Only(l, ids)
    BY <1>9, <1>11, <2>2, <2>3, ConcatEmptySeq
  <2> QED BY <2>4 DEF a
<1>14. OrderOf(f, sh) = (l \o p) \o i
  BY DEF OrderOf, l, p, i
<1>15. f.memoizedState = b \o IdsOf(Kept(f.base))
  BY DEF Shown, b
<1>16. f.memoizedState = Only(OrderOf(f, sh), ids)
  BY <1>10, <1>13, <1>14, <1>15
<1> QED
  BY <1>16 DEF ids

(* Concatenation may be put in brackets either way.                        *)
SameConcat(a, b, p, i) == a \o b \o p \o i = a \o (b \o p \o i)

LEMMA AssociativeFour ==
    ASSUME NEW a \in Seq(Ids), NEW b \in Seq(Ids), NEW p \in Seq(Ids), NEW i \in Seq(Ids)
    PROVE  SameConcat(a, b, p, i)
<1>1. (a \o b) \o p = a \o (b \o p)
  BY ConcatAssociative
<1>2. b \o p \in Seq(Ids)
  BY ConcatProperties
<1> DEFINE bp == b \o p
<1>3. (a \o bp) \o i = a \o (bp \o i)
  <2>1. bp \in Seq(Ids)
    BY <1>2
  <2> HIDE DEF bp
  <2> QED BY <2>1, ConcatAssociative
<1> QED
  BY <1>1, <1>3 DEF SameConcat

(* A commit shows what was rendered; an update that captured an error      *)
(* takes its place in the order.                                           *)
LEMMA CommitStep ==
    ASSUME Inv, TypeOK', Commit
    PROVE  /\ Inv'
           /\ \E ids \in SUBSET Ids :
                 Abstract!Show(ids) \/ \E id \in Ids : Abstract!ShowCaptured(id, ids)
<1> DEFINE l == Line(current)
           p == IdsOf(shared.pending)
           i == IdsOf(shared.interleaved)
           set == ElementsOf(current.memoizedState)
           ids == ElementsOf(wip.memoizedState)
<1>1. /\ current' = [wip EXCEPT !.effects = << >>] /\ wip' = NoFiber
      /\ shared' = shared /\ updates' = updates /\ captures' = captures
      /\ render'.phase = "none" /\ ~render'.didCapture
      /\ render.phase \in {"done", "suspended"}
  BY DEF Commit, counters, NoRender
<1>2. /\ current'.base = wip.base /\ current'.baseState = wip.baseState
      /\ current'.memoizedState = wip.memoizedState /\ current'.effects = << >>
      /\ current' \in FiberSet /\ shared \in SharedSet
  BY <1>1, InvFacts DEF FiberSet, TypeOK
<1>3. /\ Line(current') = Line(wip) /\ Shown(current')
  BY <1>2 DEF Line, Shown, Inv, ShownInv
<1>4. WipInv
  BY <1>1 DEF Inv, HasWip
<1>5. /\ l \in Seq(Ids) /\ p \in Seq(Ids) /\ i \in Seq(Ids)
      /\ Order = l \o p \o i /\ Order \in Seq(Ids) /\ Distinct(Order)
      /\ ElementsOf(p) \cap set = {} /\ ElementsOf(i) \cap set = {}
  BY CurrentOrder, InvFacts
<1>6. Order' = Line(wip) \o p \o i
  BY <1>1, <1>3, OrderIsOrderOf DEF OrderOf
<1>7. set \subseteq ids /\ ids \subseteq Ids
  BY <1>4, InvFacts, ElementsType DEF WipInv
<1> HIDE DEF l, p, i, set
<1>8. Distinct(Order') => wip.memoizedState = Only(Order', ids)
  BY <1>1, <1>2, <1>3, ShownIsOnly, OrderIsOrderOf
<1> HIDE DEF ids
<1>9. Shown(NoFiber)
  <2>1. << >> \in Seq(Ids) /\ << >> \o << >> = << >>
    BY EmptySeq, ConcatEmptySeq
  <2>2. Kept(<< >>) = << >> /\ IdsOf(<< >>) = << >>
    BY OnlyEmpty, IdsEmpty DEF Kept
  <2> QED BY <2>1, <2>2 DEF Shown, NoFiber
<1>10. /\ ShownInv' /\ WaitingInv' /\ PhaseInv' /\ ~HasWip'
  BY <1>1, <1>2, <1>3, <1>9 DEF Inv, ShownInv, WaitingInv, PhaseInv, HasWip
<1>11. CASE ~render.didCapture
  <2>1. Order' = Order
    BY <1>4, <1>5, <1>6, <1>11 DEF WipInv, l
  <2>2. IdsInv'
    BY <1>1, <2>1 DEF Inv, IdsInv, Captured
  <2>3. Abstract!Show(ids)
    <3>1. Abstract!ElementsOf(current.memoizedState) \subseteq ids
      BY <1>7, SameOperators DEF set
    <3>2. current'.memoizedState = Abstract!Only(Order, ids)
      BY <1>2, <1>5, <1>8, <2>1, SameOperators
    <3> QED BY <2>1, <3>1, <3>2 DEF Abstract!Show
  <2> QED BY <1>7, <1>10, <2>2, <2>3 DEF Inv
<1>12. CASE render.didCapture
  <2>1. /\ Line(wip) \in Placed(l, set, Captured) /\ Captured \in Ids
        /\ Captured \notin ElementsOf(Order) /\ captures > 0
        /\ Captured \in (MaxUpdates + 1)..Captured /\ Captured' = Captured
    BY <1>1, <1>4, <1>12, InvFacts DEF WipInv, Inv, IdsInv, Captured, Ids, l, set
  <2>2. Captured \in ids
    BY <1>1, <1>12 DEF Inv, PhaseInv, ids
  <2>3. PICK a, b \in Seq(Ids) :
           l = a \o b /\ Line(wip) = a \o <<Captured>> \o b /\ ElementsOf(b) \cap set = {}
    <3>1. l \in Seq(Ids) /\ Captured \in Ids /\ Line(wip) \in Placed(l, set, Captured)
      BY <1>5, <2>1
    <3>2. Between(l, set, Captured, Line(wip))
      BY <3>1, PlacedBetween
    <3> QED BY <3>2 DEF Between
  <2> DEFINE d == b \o p \o i
             c == Captured
             ac == a \o <<c>>
  <2>4. /\ b \o p \in Seq(Ids) /\ d \in Seq(Ids) /\ ElementsOf(d) \cap set = {}
        /\ ElementsOf(d) = ElementsOf(b) \cup ElementsOf(p) \cup ElementsOf(i)
    <3> DEFINE e == b \o p
    <3>1. e \in Seq(Ids) /\ ElementsOf(e) = ElementsOf(b) \cup ElementsOf(p)
      BY <1>5, <2>3, ElementsConcat
    <3> HIDE DEF e
    <3>2. e \o i \in Seq(Ids) /\ ElementsOf(e \o i) = ElementsOf(e) \cup ElementsOf(i)
      BY <1>5, <3>1, ElementsConcat
    <3>3. d = e \o i
      BY DEF e
    <3> QED BY <1>5, <2>3, <3>1, <3>2, <3>3 DEF e
  <2>5. /\ a \o <<c>> \o d \in Seq(Ids) /\ a \o <<c>> = Append(a, c)
        /\ ElementsOf(a \o <<c>> \o d) = ElementsOf(a \o d) \cup {c}
        /\ Distinct(a \o <<c>> \o d) <=> Distinct(a \o d) /\ c \notin ElementsOf(a \o d)
    <3> HIDE DEF d, c
    <3>1. c \in Ids
      BY <2>1 DEF c
    <3> QED BY <2>4, <3>1, PlacedElements
  <2>6. a \o <<c>> \o d \in Placed(a \o d, set, c)
    <3> HIDE DEF d, c
    <3>1. c \in Ids
      BY <2>1 DEF c
    <3> QED BY <2>4, <3>1, BetweenIsPlaced
  <2>7. Order = a \o d
    <3>1. a \in Seq(Ids) /\ b \in Seq(Ids) /\ p \in Seq(Ids) /\ i \in Seq(Ids)
      BY <1>5
    <3>2. SameConcat(a, b, p, i)
      BY <3>1, AssociativeFour
    <3> QED BY <1>5, <2>3, <3>2 DEF SameConcat
  <2>8. Order' = a \o <<c>> \o d
    <3>1. /\ ac \in Seq(Ids) /\ b \in Seq(Ids) /\ p \in Seq(Ids) /\ i \in Seq(Ids)
      BY <1>5, <2>1, <2>5, AppendProperties
    <3>2. SameConcat(ac, b, p, i)
      <4> HIDE DEF ac
      <4> QED BY <3>1, AssociativeFour
    <3> QED BY <1>6, <2>3, <3>2 DEF SameConcat
  <2> HIDE DEF d
  <2>9. Distinct(Order') /\ ElementsOf(Order') = ElementsOf(Order) \cup {Captured}
    BY <1>5, <2>1, <2>5, <2>7, <2>8
  <2>10. IdsInv'
    BY <1>1, <2>1, <2>9 DEF Inv, IdsInv
  <2>11. Order' \in Abstract!NewOrder(Captured)
    BY <1>5, <2>6, <2>7, <2>8, PlacedIsNewOrder DEF set
  <2>12. Abstract!ShowCaptured(Captured, ids)
    <3>1. /\ Captured \notin Abstract!ElementsOf(Order)
          /\ Abstract!ElementsOf(current.memoizedState) \cup {Captured} \subseteq ids
      BY <1>7, <2>1, <2>2, SameOperators DEF set
    <3>2. current'.memoizedState = Abstract!Only(Order', ids)
      BY <1>2, <1>8, <2>9, SameOperators
    <3> QED BY <2>11, <3>1, <3>2 DEF Abstract!ShowCaptured
  <2> QED BY <1>7, <1>10, <2>1, <2>10, <2>12 DEF Inv
<1> QED
  BY <1>11, <1>12

(* An update of an event or of the code that is rendered.                  *)
LEMMA EnqueueStep ==
    ASSUME Inv, TypeOK', RenderPhaseUpdate \/ \E lane \in EventLanes : Update(lane)
    PROVE  Inv' /\ \E id \in Ids : Abstract!Enqueue(id)
<1>1. PICK lane \in Lane :
         /\ EnqueuePending(lane) \/ EnqueueInterleaved(lane)
         /\ Schedule(lane) /\ updates < MaxUpdates /\ captures' = captures
         /\ render'.phase = render.phase /\ render'.didCapture = render.didCapture
         /\ render'.lanes = render.lanes
  <2>1. CASE RenderPhaseUpdate
    <3>1. HighestPriorityLane(render.lanes) \in Lane
      BY <2>1, HighestIsOne DEF RenderPhaseUpdate, Rendering, Inv, TypeOK, RenderSet, NoLanes
    <3> QED BY <2>1, <3>1 DEF RenderPhaseUpdate
  <2>2. ASSUME NEW lane \in EventLanes, Update(lane)
        PROVE  /\ lane \in Lane
               /\ EnqueuePending(lane) \/ EnqueueInterleaved(lane)
               /\ Schedule(lane) /\ updates < MaxUpdates /\ captures' = captures
               /\ render'.phase = render.phase /\ render'.didCapture = render.didCapture
               /\ render'.lanes = render.lanes
    <3>1. lane \in Lane
      BY UpdateQueueAssumption
    <3>2. /\ render'.phase = render.phase /\ render'.didCapture = render.didCapture
          /\ render'.lanes = render.lanes
      BY <2>2, <3>1, TypeInterrupt DEF Update, Inv
    <3> QED BY <2>2, <3>1, <3>2 DEF Update
  <2> QED BY <2>1, <2>2
<1>2. /\ Inv'
      /\ updates + 1 \in Ids /\ updates + 1 \notin ElementsOf(Order)
      /\ Order' \in Abstract!NewOrder(updates + 1)
      /\ current'.memoizedState = current.memoizedState
  BY <1>1, UpdateStep
<1>3. Abstract!Enqueue(updates + 1)
  BY <1>2, SameOperators DEF Abstract!Enqueue
<1> QED
  BY <1>2, <1>3

LEMMA ElsewhereStep ==
    ASSUME Inv, TypeOK', NEW lane \in EventLanes, UpdateElsewhere(lane)
    PROVE  Inv' /\ Quiet
<1>1. lane \in Lane
  BY UpdateQueueAssumption
<1>2. /\ render'.phase = render.phase /\ render'.didCapture = render.didCapture
      /\ render'.lanes = render.lanes
  BY <1>1, TypeInterrupt DEF UpdateElsewhere, Inv
<1> QED
  BY <1>2, RenderStep DEF UpdateElsewhere

LEMMA PhaseStep ==
    ASSUME Inv, TypeOK', Complete \/ CompleteSuspended \/ Ping
    PROVE  Inv' /\ Quiet
<1>1. /\ UNCHANGED <<current, wip, shared, updates, captures>>
      /\ render'.lanes = render.lanes /\ render'.didCapture = render.didCapture
      /\ \/ render'.phase = render.phase
         \/ /\ render.phase \in {"begun", "bailedOut"} /\ render'.phase = "done"
         \/ /\ render.phase \in {"begun", "bailedOut"} /\ render'.phase = "suspended"
            /\ ~render.didCapture
  BY DEF Complete, CompleteSuspended, Ping, counters, InRender, Inv, TypeOK, RenderSet
<1> QED
  BY <1>1, RenderStep

LEMMA StutterStep ==
    ASSUME Inv, UNCHANGED vars
    PROVE  Inv' /\ Quiet
<1>1. Order' = Order /\ Inv'
  BY DEF vars, Order, Inv, TypeOK, ShownInv, WaitingInv, IdsInv, PhaseInv, HasWip, WipInv,
         Captured
<1> QED
  BY <1>1 DEF Quiet, vars

(* Each step is one of the promise, or changes nothing that it speaks of.  *)
LEMMA NextStep ==
    ASSUME Inv, [Next]_vars
    PROVE  Inv' /\ (Quiet \/ Abstract!Next)
<1>1. TypeOK'
  BY TypeNext DEF Inv
<1>2. CASE RenderPhaseUpdate \/ \E lane \in EventLanes : Update(lane)
  BY <1>1, <1>2, EnqueueStep DEF Abstract!Next
<1>3. ASSUME NEW lane \in EventLanes, UpdateElsewhere(lane) PROVE Inv' /\ Quiet
  BY <1>1, <1>3, ElsewhereStep
<1>4. CASE StartRender \/ RetryAfterError
  <2>1. \E lanes, sync, retried : PrepareFreshStack(lanes, sync, retried)
    BY <1>4 DEF StartRender, RetryAfterError
  <2> QED BY <1>1, <2>1, FreshStep
<1>5. CASE BailOut
  BY <1>1, <1>5, BailOutStep
<1>6. CASE BeginWork
  BY <1>1, <1>6, BeginStep
<1>7. CASE EnqueueCapturedUpdate
  BY <1>1, <1>7, CapturedStep
<1>8. CASE BeginWorkAgain
  BY <1>1, <1>8, AgainStep
<1>9. CASE Complete \/ CompleteSuspended \/ Ping
  BY <1>1, <1>9, PhaseStep
<1>10. CASE Commit
  BY <1>1, <1>10, CommitStep DEF Abstract!Next
<1>11. CASE UNCHANGED vars
  BY <1>11, StutterStep
<1> QED
  BY <1>2, <1>3, <1>4, <1>5, <1>6, <1>7, <1>8, <1>9, <1>10, <1>11 DEF Next

(* Between any two steps the queues hold what their updates need.          *)
THEOREM InductiveInvariant == Spec => []Inv
<1>1. Inv /\ [Next]_vars => Inv'
  BY NextStep
<1> QED
  BY InitInv, <1>1, PTL DEF Spec

(* A finished render calls back exactly the updates it shows for the first *)
(* time, each once.                                                        *)
THEOREM NewUpdatesAreCalledBack == Spec => []CallbacksOfNewUpdates
<1>1. Inv => CallbacksOfNewUpdates
  BY DEF Inv, HasWip, WipInv, Distinct, CallbacksOfNewUpdates
<1> QED
  BY InductiveInvariant, <1>1, PTL

-----------------------------------------------------------------------------
(* The lanes of the updates that wait.                                     *)

(* Have the updates of a set lanes in the fiber?  See LanesKept.           *)
HaveLanes(set, f) ==
    \A u \in set : u.lane \in f.lanes \cup {NoLane} \/ u.id \in f.forgotten

(* processUpdateQueue leaves lanes for what it keeps, and for what is kept *)
(* apart unless there was nothing to process.                              *)
LEMMA ProcessLanes ==
    ASSUME NEW f \in FiberSet, shared \in SharedSet, render.lanes \subseteq Lane
    PROVE  LET p == ProcessUpdateQueue(f)
           IN  HaveLanes(ElementsOf(p.base) \cup ElementsOf(shared.interleaved), p)
<1> DEFINE p == ProcessUpdateQueue(f)
           i == shared.interleaved
<1>1. i \in Seq(UpdateSet)
  BY DEF SharedSet
<1>2. CASE ListOf(f) = << >>
  <2>1. p.base = << >> /\ p.forgotten = ElementsOf(IdsOf(i))
    BY <1>2, ProcessNothing
  <2>2. ElementsOf(p.base) = {}
    BY <2>1, ElementsEmpty
  <2>3. ElementsOf(IdsOf(i)) = {u.id : u \in ElementsOf(i)}
    BY <1>1, IdsType
  <2> HIDE DEF p, i
  <2> QED BY <2>1, <2>2, <2>3 DEF HaveLanes, p, i
<1>3. CASE ListOf(f) # << >>
  <2>1. p \in FiberSet /\ LanesOf(p.base) \cup LanesOf(i) \subseteq p.lanes
    BY <1>3, ProcessFields
  <2>2. p.base \in Seq(UpdateSet)
    BY <2>1 DEF FiberSet
  <2>3. \A s \in Seq(UpdateSet) : \A u \in ElementsOf(s) : u.lane \in LanesOf(s) \cup {NoLane}
    BY DEF ElementsOf, LanesOf
  <2> HIDE DEF p, i
  <2> QED BY <1>1, <2>1, <2>2, <2>3 DEF HaveLanes, p, i
<1> QED
  BY <1>2, <1>3

LEMMA InitLanes == Init => SkippedUpdatesHaveLanes
<1> SUFFICES ASSUME Init PROVE SkippedUpdatesHaveLanes
  OBVIOUS
<1>1. current.base = << >> /\ shared.pending = << >> /\ shared.interleaved = << >>
      /\ current.lanes = {} /\ render.phase = "none"
  BY DEF Init, NoFiber, NoRender, NoLanes
<1>2. Waiting(current) = {}
  BY <1>1, ElementsEmpty DEF Waiting
<1> QED
  BY <1>1, <1>2 DEF SkippedUpdatesHaveLanes, LanesKept

(* A new update gets its lane in both fibers and in the root.              *)
LEMMA LanesUpdate ==
    ASSUME Inv, SkippedUpdatesHaveLanes, TypeOK', NEW lane \in Lane, updates < MaxUpdates,
           EnqueuePending(lane) \/ EnqueueInterleaved(lane), Schedule(lane),
           render'.phase = render.phase
    PROVE  SkippedUpdatesHaveLanes'
<1> DEFINE u == NewUpdate(lane)
<1>1. /\ current \in FiberSet /\ wip \in FiberSet /\ shared \in SharedSet /\ root \in RootSet
      /\ shared.pending \in Seq(UpdateSet) /\ shared.interleaved \in Seq(UpdateSet)
  BY DEF Inv, TypeOK, SharedSet
<1>2. u \in UpdateSet /\ u.lane = lane
  BY NewUpdateType DEF Inv, NewUpdate
<1>3. /\ current'.base = current.base /\ current'.forgotten = current.forgotten
      /\ current'.lanes = current.lanes \cup {lane}
      /\ HasWip => /\ wip'.base = wip.base /\ wip'.forgotten = wip.forgotten
                   /\ wip'.lanes = wip.lanes \cup {lane}
  BY <1>1 DEF Schedule, MarkUpdateLaneFromFiberToRoot, FiberSet, HasWip
<1>4. root'.pendingLanes = root.pendingLanes \cup {lane}
  BY <1>1 DEF Schedule, EntangleTransitions, MarkRootUpdated, MarkRootEntangled, RootSet
<1> HIDE DEF u
<1>5. ElementsOf(shared'.pending) \cup ElementsOf(shared'.interleaved) =
         ElementsOf(shared.pending) \cup ElementsOf(shared.interleaved) \cup {u}
  <2>1. CASE EnqueuePending(lane)
    <3>1. shared'.pending = Append(shared.pending, u) /\ shared'.interleaved = shared.interleaved
      BY <1>1, <2>1 DEF EnqueuePending, SharedSet, u
    <3>2. ElementsOf(shared'.pending) = ElementsOf(shared.pending) \cup {u}
      BY <1>1, <1>2, <3>1, ElementsAppend
    <3> QED BY <3>1, <3>2
  <2>2. CASE EnqueueInterleaved(lane)
    <3>1. shared'.interleaved = Append(shared.interleaved, u) /\ shared'.pending = shared.pending
      BY <1>1, <2>2 DEF EnqueueInterleaved, SharedSet, u
    <3>2. ElementsOf(shared'.interleaved) = ElementsOf(shared.interleaved) \cup {u}
      BY <1>1, <1>2, <3>1, ElementsAppend
    <3> QED BY <3>1, <3>2
  <2> QED BY <2>1, <2>2
<1>6. LanesKept(current)'
  BY <1>2, <1>3, <1>5 DEF SkippedUpdatesHaveLanes, LanesKept, Waiting
<1>7. HasWip' => LanesKept(wip)'
  BY <1>2, <1>3, <1>5 DEF SkippedUpdatesHaveLanes, LanesKept, Waiting, HasWip
<1> QED
  BY <1>3, <1>4, <1>6, <1>7 DEF SkippedUpdatesHaveLanes, HasWip

(* The pending updates join the current queue with their lanes.            *)
LEMMA LanesTransfer ==
    ASSUME Inv, SkippedUpdatesHaveLanes, TransferPending
    PROVE  /\ LanesKept(current)' /\ current'.lanes = current.lanes
           /\ ElementsOf(shared'.pending) = {} /\ shared'.interleaved = shared.interleaved
<1>1. current \in FiberSet /\ shared \in SharedSet
  BY InvFacts
<1>2. current.base \in Seq(UpdateSet) /\ shared.pending \in Seq(UpdateSet)
  BY <1>1 DEF FiberSet, SharedSet
<1>3. /\ current'.base = current.base \o shared.pending
      /\ current'.lanes = current.lanes /\ current'.forgotten = current.forgotten
      /\ shared'.pending = << >> /\ shared'.interleaved = shared.interleaved
  BY <1>1 DEF TransferPending, FiberSet, SharedSet
<1>4. /\ ElementsOf(current'.base) = ElementsOf(current.base) \cup ElementsOf(shared.pending)
      /\ ElementsOf(shared'.pending) = {}
  BY <1>2, <1>3, ElementsConcat, ElementsEmpty
<1> QED
  BY <1>3, <1>4 DEF SkippedUpdatesHaveLanes, LanesKept, Waiting

LEMMA LanesProcessed ==
    ASSUME Inv, SkippedUpdatesHaveLanes, BeginWork \/ BeginWorkAgain
    PROVE  SkippedUpdatesHaveLanes'
<1>1. /\ TransferPending /\ root' = root
      /\ wip' = ProcessUpdateQueue(current) \/ wip' = ProcessUpdateQueue(wip)
  BY DEF BeginWork, BeginWorkAgain
<1>2. /\ LanesKept(current)' /\ current'.lanes = current.lanes
      /\ ElementsOf(shared'.pending) = {} /\ shared'.interleaved = shared.interleaved
  BY <1>1, LanesTransfer
<1>3. /\ current \in FiberSet /\ wip \in FiberSet /\ shared \in SharedSet
      /\ render.lanes \subseteq Lane
  BY InvFacts
<1>4. HaveLanes(ElementsOf(wip'.base) \cup ElementsOf(shared.interleaved), wip')
  BY <1>1, <1>3, ProcessLanes
<1>5. LanesKept(wip)'
  BY <1>2, <1>4 DEF LanesKept, Waiting, HaveLanes
<1> QED
  BY <1>1, <1>2, <1>5 DEF SkippedUpdatesHaveLanes

LEMMA LanesCaptured ==
    ASSUME Inv, SkippedUpdatesHaveLanes, EnqueueCapturedUpdate
    PROVE  SkippedUpdatesHaveLanes'
<1> DEFINE lane == HighestPriorityLane(render.lanes)
           u == [id |-> MaxUpdates + captures + 1, lane |-> lane]
<1>1. /\ render.phase \in {"begun", "bailedOut"} /\ captures < MaxCaptures
      /\ wip' = [wip EXCEPT !.lanes = @ \cup {lane}, !.base = Append(@, u)]
      /\ current' = current /\ shared' = shared /\ root' = root
  BY DEF EnqueueCapturedUpdate, InRender
<1>2. lane \in Lane
  BY <1>1, HighestIsOne DEF Inv, TypeOK, RenderSet, NoLanes
<1>3. u \in UpdateSet /\ u.lane = lane
  BY <1>1, <1>2, CapturedType DEF Inv
<1> HIDE DEF u, lane
<1>4. wip \in FiberSet /\ wip.base \in Seq(UpdateSet)
  BY InvFacts DEF FiberSet
<1>5. /\ wip'.base = Append(wip.base, u) /\ wip'.forgotten = wip.forgotten
      /\ wip'.lanes = wip.lanes \cup {lane}
  BY <1>1, <1>4 DEF FiberSet
<1>6. ElementsOf(wip'.base) = ElementsOf(wip.base) \cup {u}
  BY <1>3, <1>4, <1>5, ElementsAppend
<1>7. LanesKept(wip)'
  BY <1>1, <1>3, <1>5, <1>6 DEF SkippedUpdatesHaveLanes, LanesKept, Waiting
<1>8. LanesKept(current)'
  BY <1>1 DEF SkippedUpdatesHaveLanes, LanesKept, Waiting
<1> QED
  BY <1>1, <1>7, <1>8 DEF SkippedUpdatesHaveLanes

(* The steps that take no update from where it is.                         *)
LEMMA LanesStay ==
    ASSUME Inv, SkippedUpdatesHaveLanes, current' = current,
           ElementsOf(shared'.pending) \cup ElementsOf(shared'.interleaved) =
              ElementsOf(shared.pending) \cup ElementsOf(shared.interleaved),
           root.pendingLanes \subseteq root'.pendingLanes,
           \/ render'.phase \in {"none", "started"}
           \/ wip' = current
           \/ wip' = wip /\ render.phase \notin {"none", "started"}
    PROVE  SkippedUpdatesHaveLanes'
<1>1. LanesKept(current)' /\ current'.lanes \subseteq root'.pendingLanes
  BY DEF SkippedUpdatesHaveLanes, LanesKept, Waiting
<1>2. CASE wip' = current
  BY <1>1, <1>2 DEF SkippedUpdatesHaveLanes, LanesKept, Waiting
<1>3. CASE wip' = wip /\ render.phase \notin {"none", "started"}
  BY <1>1, <1>3 DEF SkippedUpdatesHaveLanes, LanesKept, Waiting
<1>4. CASE render'.phase \in {"none", "started"}
  BY <1>1, <1>4 DEF SkippedUpdatesHaveLanes
<1> QED
  BY <1>2, <1>3, <1>4

LEMMA LanesCommit ==
    ASSUME Inv, SkippedUpdatesHaveLanes, Commit
    PROVE  SkippedUpdatesHaveLanes'
<1>1. /\ current' = [wip EXCEPT !.effects = << >>] /\ shared' = shared
      /\ render.phase \in {"done", "suspended"} /\ render'.phase = "none"
      /\ wip.lanes \subseteq root'.pendingLanes
  <2>1. root \in RootSet
    BY DEF Inv, TypeOK
  <2> QED BY <2>1 DEF Commit, NoRender, MarkRootFinished, RootSet
<1>2. current'.base = wip.base /\ current'.lanes = wip.lanes /\ current'.forgotten = wip.forgotten
  BY <1>1, InvFacts DEF FiberSet
<1>3. LanesKept(wip)
  BY <1>1 DEF SkippedUpdatesHaveLanes
<1>4. LanesKept(current)'
  BY <1>1, <1>2, <1>3 DEF LanesKept, Waiting
<1> QED
  BY <1>1, <1>2, <1>4 DEF SkippedUpdatesHaveLanes

LEMMA LanesStep ==
    ASSUME Inv, SkippedUpdatesHaveLanes, [Next]_vars
    PROVE  SkippedUpdatesHaveLanes'
<1>1. TypeOK' /\ root \in RootSet
  BY TypeNext DEF Inv, TypeOK
<1>2. CASE RenderPhaseUpdate
  <2>1. HighestPriorityLane(render.lanes) \in Lane
    BY <1>2, HighestIsOne DEF RenderPhaseUpdate, Rendering, Inv, TypeOK, RenderSet, NoLanes
  <2> QED BY <1>1, <1>2, <2>1, LanesUpdate DEF RenderPhaseUpdate
<1>3. ASSUME NEW lane \in EventLanes, Update(lane)
      PROVE  SkippedUpdatesHaveLanes'
  <2>1. lane \in Lane
    BY UpdateQueueAssumption
  <2>2. render'.phase = render.phase
    BY <1>3, <2>1, TypeInterrupt DEF Update, Inv
  <2> QED BY <1>1, <1>3, <2>1, <2>2, LanesUpdate DEF Update
<1>4. ASSUME NEW lane \in EventLanes, UpdateElsewhere(lane)
      PROVE  SkippedUpdatesHaveLanes'
  <2>1. lane \in Lane
    BY UpdateQueueAssumption
  <2>2. render'.phase = render.phase
    BY <1>4, <2>1, TypeInterrupt DEF UpdateElsewhere, Inv
  <2>3. root.pendingLanes \subseteq root'.pendingLanes
    BY <1>1, <1>4 DEF UpdateElsewhere, MarkRootUpdated, RootSet
  <2> QED BY <1>4, <2>2, <2>3, LanesStay DEF UpdateElsewhere
<1>5. CASE StartRender \/ RetryAfterError
  <2>1. /\ current' = current /\ root' = root /\ render'.phase = "started"
        /\ shared' = [shared EXCEPT !.pending = @ \o shared.interleaved, !.interleaved = << >>]
    BY <1>5 DEF StartRender, RetryAfterError, PrepareFreshStack, EnqueueInterleavedUpdates, NoRender
  <2>2. /\ shared.pending \in Seq(UpdateSet) /\ shared.interleaved \in Seq(UpdateSet)
        /\ shared'.pending = shared.pending \o shared.interleaved /\ shared'.interleaved = << >>
    BY <2>1, InvFacts DEF SharedSet
  <2>3. /\ ElementsOf(shared'.pending) = ElementsOf(shared.pending) \cup ElementsOf(shared.interleaved)
        /\ ElementsOf(shared'.interleaved) = {}
    BY <2>2, ElementsConcat, ElementsEmpty
  <2> QED BY <2>1, <2>3, LanesStay
<1>6. CASE BailOut
  BY <1>6, LanesStay DEF BailOut
<1>7. CASE BeginWork \/ BeginWorkAgain
  BY <1>7, LanesProcessed
<1>8. CASE EnqueueCapturedUpdate
  BY <1>8, LanesCaptured
<1>9. CASE Complete \/ CompleteSuspended \/ Ping
  <2>1. /\ UNCHANGED <<current, wip, shared>>
        /\ root.pendingLanes \subseteq root'.pendingLanes
        /\ render'.phase \in {"none", "started"} \/ render.phase \notin {"none", "started"}
    BY <1>1, <1>9 DEF Complete, CompleteSuspended, Ping, InRender, MarkRootSuspended,
                      MarkRootPinged, RootSet
  <2> QED BY <2>1, LanesStay
<1>10. CASE Commit
  BY <1>10, LanesCommit
<1>11. CASE UNCHANGED vars
  BY <1>11, LanesStay DEF vars
<1> QED
  BY <1>2, <1>3, <1>4, <1>5, <1>6, <1>7, <1>8, <1>9, <1>10, <1>11 DEF Next

(* Every update that waits, skipped, pending or interleaved, has its lane  *)
(* in the fiber on the screen, on the root, and, from the moment a render  *)
(* gets to the component, in the fiber it may leave there; unless it was   *)
(* kept apart from a render that found the queue empty.                    *)
THEOREM SkippedLanesAreKept == Spec => []SkippedUpdatesHaveLanes
<1>1. Inv /\ SkippedUpdatesHaveLanes /\ [Next]_vars => SkippedUpdatesHaveLanes'
  BY LanesStep
<1> QED
  BY InitLanes, InductiveInvariant, <1>1, PTL DEF Spec

-----------------------------------------------------------------------------

(* What is on the screen is at any time the result of updates in one       *)
(* order, in which none is lost, applied twice or undone: the queue        *)
(* implements AbstractUpdateQueue.                                         *)
THEOREM PromiseIsKept == Spec => KeepsPromise
<1>1. Init => Abstract!Init
  <2> SUFFICES ASSUME Init PROVE Abstract!Init
    OBVIOUS
  <2>1. << >> \in Seq(Ids) /\ << >> \o << >> = << >> /\ IdsOf(<< >>) = << >>
    BY EmptySeq, ConcatEmptySeq, IdsEmpty
  <2>2. Order = << >> /\ current.memoizedState = << >>
    BY <2>1 DEF Init, NoFiber, Order
  <2> QED BY <2>2 DEF Abstract!Init
<1>2. Inv /\ [Next]_vars => [Abstract!Next]_(Abstract!vars)
  <2> SUFFICES ASSUME Inv, [Next]_vars PROVE [Abstract!Next]_(Abstract!vars)
    OBVIOUS
  <2>1. Quiet \/ Abstract!Next
    BY NextStep
  <2>2. Quiet => UNCHANGED Abstract!vars
    BY DEF Quiet, Abstract!vars
  <2> QED BY <2>1, <2>2
<1> QED
  BY <1>1, <1>2, InductiveInvariant, PTL DEF Spec, KeepsPromise, Abstract!Spec
=============================================================================
