----------------------------- MODULE DataLemmas -----------------------------
(***************************************************************************)
(* Lemmas about the data of the models: the least elements that they       *)
(* choose with CHOOSE, and the elements of sequences.                      *)
(***************************************************************************)
EXTENDS Integers, SequenceTheorems, FunctionTheorems, FiniteSetTheorems,
        WellFoundedInduction, TLAPS

(* Every nonempty set of naturals has a least element.                     *)
LEMMA LeastNatural ==
    ASSUME NEW T, T \subseteq Nat, T # {}
    PROVE  \E x \in T : \A y \in T : x <= y
<1> DEFINE R == OpToRel(<, Nat)
<1>1. IsWellFoundedOn(R, Nat)
  BY NatLessThanWellFounded
<1>2. \A x, y \in Nat : <<y, x>> \in R <=> y < x
  BY DEF OpToRel
<1> HIDE DEF R
<1>3. PICK x \in T : \A y \in T : ~ (<<y, x>> \in R)
  BY <1>1, WFMin
<1>4. ASSUME NEW y \in T PROVE x <= y
  <2>1. x \in Nat /\ y \in Nat
    OBVIOUS
  <2>2. ~ (y < x)
    BY <1>2, <1>3, <2>1
  <2> QED BY <2>1, <2>2
<1> QED
  BY <1>4

(* A nonempty set of tasks has a first one in the order of compare: by     *)
(* sort index, then by id.                                                 *)
LEMMA FirstExists ==
    ASSUME NEW queue, queue \subseteq Nat, queue # {},
           NEW key, \A a \in queue : key[a] \in Nat \cup {-1}
    PROVE  \E a \in queue : \A b \in queue \ {a} :
              key[a] < key[b] \/ (key[a] = key[b] /\ a < b)
<1> DEFINE Keys == {key[a] + 1 : a \in queue}
<1>1. PICK m \in Keys : \A n \in Keys : m <= n
  <2>1. Keys \subseteq Nat
    <3> SUFFICES ASSUME NEW n \in Keys PROVE n \in Nat
      OBVIOUS
    <3>1. PICK a \in queue : n = key[a] + 1
      OBVIOUS
    <3> QED BY <3>1
  <2>2. Keys # {}
    OBVIOUS
  <2> HIDE DEF Keys
  <2> QED BY <2>1, <2>2, LeastNatural
<1> DEFINE First == {a \in queue : key[a] + 1 = m}
<1>2. PICK a \in First : \A b \in First : a <= b
  <2>1. First \subseteq Nat /\ First # {}
    BY <1>1
  <2> HIDE DEF First
  <2> QED BY <2>1, LeastNatural
<1>3. ASSUME NEW b \in queue \ {a}
      PROVE  key[a] < key[b] \/ (key[a] = key[b] /\ a < b)
  <2>1. key[b] + 1 \in Keys /\ key[a] + 1 = m /\ a \in queue
    BY <1>2
  <2>2. key[a] <= key[b] /\ key[a] \in Int /\ key[b] \in Int
    BY <1>1, <2>1
  <2>3. CASE key[a] < key[b]
    BY <2>3
  <2>4. CASE key[a] = key[b]
    <3>1. b \in First
      BY <2>1, <2>4
    <3> QED BY <1>2, <2>1, <2>4, <3>1
  <2> QED BY <2>2, <2>3, <2>4
<1> QED
  BY <1>2, <1>3

-----------------------------------------------------------------------------
(* The elements of a sequence.                                             *)

LEMMA RangeEmpty == Range(<< >>) = {}
  BY DEF Range

LEMMA RangeOfSet ==
    ASSUME NEW S, NEW s \in Seq(S)
    PROVE  Range(s) \subseteq S
  BY DEF Range

LEMMA RangeAppend ==
    ASSUME NEW S, NEW s \in Seq(S), NEW e \in S
    PROVE  /\ Append(s, e) \in Seq(S)
           /\ Len(Append(s, e)) = Len(s) + 1
           /\ Range(Append(s, e)) = Range(s) \cup {e}
<1>1. Append(s, e) \in Seq(S) /\ Len(Append(s, e)) = Len(s) + 1
  BY AppendProperties
<1>2. \A i \in 1..Len(s) : Append(s, e)[i] = s[i]
  BY AppendProperties
<1>3. Append(s, e)[Len(s) + 1] = e
  BY AppendProperties
<1>4. DOMAIN s = 1..Len(s) /\ DOMAIN Append(s, e) = 1..(Len(s) + 1) /\ Len(s) \in Nat
  BY <1>1, LenProperties
<1>5. \A i \in 1..(Len(s) + 1) : i \in 1..Len(s) \/ i = Len(s) + 1
  BY <1>4
<1>6. Len(s) + 1 \in 1..(Len(s) + 1) /\ 1..Len(s) \subseteq 1..(Len(s) + 1)
  BY <1>4
<1>7. Range(Append(s, e)) = Range(s) \cup {e}
  <2>1. ASSUME NEW i \in 1..(Len(s) + 1) PROVE Append(s, e)[i] \in Range(s) \cup {e}
    BY <1>2, <1>3, <1>4, <1>5 DEF Range
  <2>2. ASSUME NEW x \in Range(s) \cup {e} PROVE x \in Range(Append(s, e))
    BY <1>2, <1>3, <1>4, <1>6 DEF Range
  <2>3. Range(Append(s, e)) = {Append(s, e)[i] : i \in 1..(Len(s) + 1)}
    BY <1>4 DEF Range
  <2> QED
    BY <2>1, <2>2, <2>3
<1> QED
  BY <1>1, <1>7

LEMMA RangeHeadTail ==
    ASSUME NEW S, NEW s \in Seq(S), s # << >>
    PROVE  /\ Head(s) \in S /\ Tail(s) \in Seq(S)
           /\ Len(s) \in Nat \ {0} /\ Len(Tail(s)) = Len(s) - 1
           /\ Range(s) = {Head(s)} \cup Range(Tail(s))
<1>1. Head(s) \in S /\ Tail(s) \in Seq(S) /\ Len(Tail(s)) = Len(s) - 1
  BY HeadTailProperties
<1>2. \A i \in 1..Len(Tail(s)) : Tail(s)[i] = s[i + 1]
  BY HeadTailProperties
<1>3. Head(s) = s[1] /\ Len(s) \in Nat \ {0}
  BY EmptySeq
<1>4. DOMAIN s = 1..Len(s) /\ DOMAIN Tail(s) = 1..(Len(s) - 1)
  BY <1>1, LenProperties
<1>5. \A i \in 1..Len(s) : i = 1 \/ (i - 1 \in 1..(Len(s) - 1) /\ s[i] = Tail(s)[i - 1])
  BY <1>1, <1>2, <1>3
<1>6. 1 \in 1..Len(s) /\ \A i \in 1..(Len(s) - 1) : i + 1 \in 1..Len(s)
  BY <1>3
<1>7. Range(s) = {Head(s)} \cup Range(Tail(s))
  <2>1. ASSUME NEW i \in 1..Len(s) PROVE s[i] \in {Head(s)} \cup Range(Tail(s))
    BY <1>3, <1>4, <1>5 DEF Range
  <2>2. ASSUME NEW i \in 1..(Len(s) - 1) PROVE Tail(s)[i] \in Range(s)
    BY <1>1, <1>2, <1>4, <1>6 DEF Range
  <2>3. Head(s) \in Range(s)
    BY <1>3, <1>4, <1>6 DEF Range
  <2>4. /\ Range(s) = {s[i] : i \in 1..Len(s)}
        /\ Range(Tail(s)) = {Tail(s)[i] : i \in 1..(Len(s) - 1)}
    BY <1>4 DEF Range
  <2> QED
    BY <2>1, <2>2, <2>3, <2>4
<1> QED
  BY <1>1, <1>3, <1>7

(* A sequence cut in two.                                                  *)
LEMMA SplitSeq ==
    ASSUME NEW S, NEW s \in Seq(S), NEW n \in 0..Len(s)
    PROVE  /\ SubSeq(s, 1, n) \in Seq(S) /\ SubSeq(s, n + 1, Len(s)) \in Seq(S)
           /\ Len(SubSeq(s, 1, n)) = n /\ Len(SubSeq(s, n + 1, Len(s))) = Len(s) - n
           /\ SubSeq(s, 1, n) \o SubSeq(s, n + 1, Len(s)) = s
           /\ Range(s) = Range(SubSeq(s, 1, n)) \cup Range(SubSeq(s, n + 1, Len(s)))
<1>1. Len(s) \in Nat /\ \A i \in 1..Len(s) : s[i] \in S
  BY LenProperties
<1>2. SubSeq(s, 1, n) \in Seq(S) /\ Len(SubSeq(s, 1, n)) = n
  BY <1>1, SubSeqProperties
<1>3. SubSeq(s, n + 1, Len(s)) \in Seq(S) /\ Len(SubSeq(s, n + 1, Len(s))) = Len(s) - n
  BY <1>1, SubSeqProperties
<1>4. SubSeq(s, 1, n) \o SubSeq(s, n + 1, Len(s)) = SubSeq(s, 1, Len(s))
  <2>1. 1 \in 1..Len(s) + 1 /\ n \in (1 - 1)..Len(s) /\ Len(s) \in n..Len(s)
    BY <1>1
  <2> QED BY <2>1, ConcatAdjacentSubSeq
<1>5. SubSeq(s, 1, Len(s)) = s
  BY SubSeqFull
<1> DEFINE a == SubSeq(s, 1, n)
           b == SubSeq(s, n + 1, Len(s))
<1>6. Range(a \o b) = Range(a) \cup Range(b)
  <2> HIDE DEF a, b
  <2> QED BY <1>2, <1>3, RangeConcatenation DEF a, b
<1> QED
  BY <1>2, <1>3, <1>4, <1>5, <1>6

(* There are no more elements than places, and as many only if none is     *)
(* there twice.                                                            *)
LEMMA RangeFinite ==
    ASSUME NEW S, NEW s \in Seq(S)
    PROVE  /\ IsFiniteSet(Range(s)) /\ Cardinality(Range(s)) \in 0..Len(s)
           /\ Cardinality(Range(s)) = Len(s) =>
                \A i, j \in 1..Len(s) : s[i] = s[j] => i = j
<1>1. s \in [1..Len(s) -> S] /\ Len(s) \in Nat
  BY LenProperties
<1>2. IsFiniteSet(1..Len(s)) /\ Cardinality(1..Len(s)) = Len(s)
  <2>1. 1 \in Int /\ Len(s) \in Int
    BY <1>1
  <2>2. /\ IsFiniteSet(1..Len(s))
        /\ Cardinality(1..Len(s)) = IF 1 > Len(s) THEN 0 ELSE Len(s) - 1 + 1
    BY <2>1, FS_Interval, Zenon
  <2> QED BY <1>1, <2>2
<1>3. s \in Surjection(1..Len(s), Range(s))
  BY <1>1, Fun_RangeProperties
<1>4. /\ IsFiniteSet(Range(s)) /\ Cardinality(Range(s)) <= Len(s)
      /\ Cardinality(Range(s)) = Len(s) => s \in Injection(1..Len(s), Range(s))
  BY <1>2, <1>3, FS_Surjection
<1>5. s \in Injection(1..Len(s), Range(s)) =>
         \A i, j \in 1..Len(s) : s[i] = s[j] => i = j
  BY DEF Injection, IsInjective
<1> QED
  BY <1>1, <1>4, <1>5, FS_CardinalityType
=============================================================================
