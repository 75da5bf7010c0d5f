----------------------------- MODULE FlightProofs -----------------------------
(***************************************************************************)
(* Proofs about Flight, for every number of chunks and retries, whether    *)
(* the connection may fail or not.                                         *)
(***************************************************************************)
EXTENDS Flight, DataLemmas

(* performWork runs whenever a segment is taken or rendered, and is asked  *)
(* for whenever one is pinged.                                             *)
WorkState ==
    /\ ~working => work = << >> /\ running = NoChunk
    /\ scheduled = IF pingedSegments = << >> THEN 0 ELSE 1

(* What the models refer to was given an ID, and what will still be        *)
(* rendered is a model.                                                    *)
Unrendered == suspended \cup Current \cup ToSet(pingedSegments) \cup ToSet(work)

ChunkState ==
    /\ \A c \in Chunks : chunk[c].values \cup chunk[c].lazies \subseteq Issued
    /\ \A c \in Chunks \ Issued : chunk[c] = NewChunk("none")
    /\ \A c \in Unrendered : chunk[c].kind = "model"

(* The stream ends when everything was written.                            *)
EndState == ended => pendingChunks = 0

(* The client knows chunks that the server has made, and has resolved      *)
(* those whose rows it has processed.                                      *)
ResponseState ==
    /\ \A c \in Chunks : status[c] # "absent" => c \in Issued
    /\ \A c \in Chunks : reader[c] # "idle" => c \in Issued
    /\ connection = "open" =>
          \A c \in Chunks : status[c] \notin {"absent", "pending"} <=>
                             \E i \in 1..received : wire[i] = c
    /\ \A c \in Chunks : code[c] # "none" =>
          chunk[c].kind = "module" /\ status[c] \notin {"absent", "pending"}

(* A component listens to the one chunk it waits for.                      *)
ListenerState ==
    /\ \A t \in Chunks : \A c \in listeners[t] :
          status[t] = "pending" /\ reader[c] = "waiting" /\ awaits[c] = t
    /\ \A c \in Chunks : reader[c] = "waiting" => awaits[c] \in Chunks

(* The inductive invariant, of the server and of the client.               *)
ServerInv ==
    /\ ServerTypeOK
    /\ ChunksExact
    /\ WorkState
    /\ ChunkState
    /\ EndState

ClientInv ==
    /\ ClientTypeOK
    /\ ResponseState
    /\ ListenerState
    /\ WaitersWake
    /\ ErrorsAreReal

Inv == ServerInv /\ ClientInv

-----------------------------------------------------------------------------
(* Where the chunks are.                                                   *)

RangeOfAll(a, b, c, d, e, f) ==
    Range(a) \cup Range(b) \cup Range(c) \cup Range(d) \cup Range(e) \cup Range(f)

Places == RangeOfAll(pingedSegments, work, completedModuleChunks, completedJSONChunks,
                     completedErrorChunks, wire)

Lengths == Len(pingedSegments) + Len(work) + Len(completedModuleChunks)
               + Len(completedJSONChunks) + Len(completedErrorChunks) + Len(wire)

InHand == IF running = NoChunk THEN 0 ELSE 1

(* ChunksExact, queue by queue.                                            *)
Exact ==
    /\ Places \cup suspended \cup Current = Issued
    /\ Lengths + Cardinality(suspended) + InHand = nextChunkId
    /\ pendingChunks = nextChunkId - Len(wire)

LEMMA SixQueues ==
    ASSUME NEW S, NEW a \in Seq(S), NEW b \in Seq(S), NEW c \in Seq(S), NEW d \in Seq(S),
           NEW e \in Seq(S), NEW f \in Seq(S)
    PROVE  /\ Len(a \o b \o c \o d \o e \o f)
                  = Len(a) + Len(b) + Len(c) + Len(d) + Len(e) + Len(f)
           /\ Range(a \o b \o c \o d \o e \o f) = RangeOfAll(a, b, c, d, e, f)
<1>1. \A x, y \in Seq(S) : /\ x \o y \in Seq(S)
                           /\ Len(x \o y) = Len(x) + Len(y)
                           /\ Range(x \o y) = Range(x) \cup Range(y)
  BY ConcatProperties, RangeConcatenation
<1>2. PICK s2 \in Seq(S) : /\ s2 = a \o b
                         /\ Len(s2) = Len(a) + Len(b)
                         /\ Range(s2) = Range(a) \cup Range(b)
  BY <1>1, Zenon
<1>3. PICK s3 \in Seq(S) : /\ s3 = s2 \o c
                         /\ Len(s3) = Len(s2) + Len(c)
                         /\ Range(s3) = Range(s2) \cup Range(c)
  BY <1>1, Zenon
<1>4. PICK s4 \in Seq(S) : /\ s4 = s3 \o d
                         /\ Len(s4) = Len(s3) + Len(d)
                         /\ Range(s4) = Range(s3) \cup Range(d)
  BY <1>1, Zenon
<1>5. PICK s5 \in Seq(S) : /\ s5 = s4 \o e
                         /\ Len(s5) = Len(s4) + Len(e)
                         /\ Range(s5) = Range(s4) \cup Range(e)
  BY <1>1, Zenon
<1>6. PICK s6 \in Seq(S) : /\ s6 = s5 \o f
                         /\ Len(s6) = Len(s5) + Len(f)
                         /\ Range(s6) = Range(s5) \cup Range(f)
  BY <1>1, Zenon
<1>7. s6 = a \o b \o c \o d \o e \o f
  BY <1>2, <1>3, <1>4, <1>5, <1>6, Zenon
<1>8. Len(s6) = Len(a) + Len(b) + Len(c) + Len(d) + Len(e) + Len(f)
  BY <1>2, <1>3, <1>4, <1>5, <1>6, Zenon
<1>9. Range(s6) = Range(a) \cup Range(b) \cup Range(c) \cup Range(d) \cup Range(e) \cup Range(f)
  BY <1>2, <1>3, <1>4, <1>5, <1>6, Zenon
<1> QED
  BY <1>7, <1>8, <1>9, Zenon DEF RangeOfAll

LEMMA ExactNow ==
    ASSUME ServerTypeOK
    PROVE  (ChunksExact <=> Exact) /\ Range(Queued) = Places
<1>1. /\ pingedSegments \in Seq(Issued) /\ work \in Seq(Issued)
      /\ completedModuleChunks \in Seq(Issued) /\ completedJSONChunks \in Seq(Issued)
      /\ completedErrorChunks \in Seq(Issued) /\ wire \in Seq(Issued)
  BY DEF ServerTypeOK
<1>2. Range(Queued) = Places /\ Len(Queued) = Lengths
  <2>1. Range(Queued) = Places
    BY <1>1, SixQueues DEF Queued, Places
  <2>2. Len(Queued) = Lengths
    BY <1>1, SixQueues DEF Queued, Lengths
  <2> QED
    BY <2>1, <2>2
<1>3. ToSet(Queued) = Range(Queued)
  BY DEF ToSet, Range
<1>4. Cardinality(Current) = InHand
  <2>1. \A x : Cardinality({x}) = 1 /\ Cardinality({}) = 0
    BY FS_Singleton, FS_EmptySet
  <2>2. Current = IF running = NoChunk THEN {} ELSE {running}
    BY DEF Current
  <2> QED
    BY <2>1, <2>2 DEF InHand
<1> QED
  BY <1>2, <1>3, <1>4 DEF ChunksExact, Exact

LEMMA ExactNext ==
    ASSUME ServerTypeOK'
    PROVE  ChunksExact' <=> Exact'
<1>1. /\ pingedSegments' \in Seq(Issued') /\ work' \in Seq(Issued')
      /\ completedModuleChunks' \in Seq(Issued') /\ completedJSONChunks' \in Seq(Issued')
      /\ completedErrorChunks' \in Seq(Issued') /\ wire' \in Seq(Issued')
  BY DEF ServerTypeOK
<1>2. Range(Queued') = Places' /\ Len(Queued') = Lengths'
  <2>1. Range(Queued') = Places'
    BY <1>1, SixQueues DEF Queued, Places
  <2>2. Len(Queued') = Lengths'
    BY <1>1, SixQueues DEF Queued, Lengths
  <2> QED
    BY <2>1, <2>2
<1>3. ToSet(Queued)' = Range(Queued')
  BY DEF ToSet, Range
<1>4. Cardinality(Current') = InHand'
  <2>1. \A x : Cardinality({x}) = 1 /\ Cardinality({}) = 0
    BY FS_Singleton, FS_EmptySet
  <2>2. Current' = IF running' = NoChunk THEN {} ELSE {running'}
    BY DEF Current
  <2> QED
    BY <2>1, <2>2 DEF InHand
<1> QED
  BY <1>2, <1>3, <1>4 DEF ChunksExact, Exact

(* The chunk in the hands of retrySegment is nowhere else: there are as    *)
(* many places as chunks.                                                  *)
LEMMA CurrentIsNowhereElse ==
    ASSUME ServerTypeOK, ChunksExact, running # NoChunk
    PROVE  running \notin suspended \cup Range(Queued)
<1> SUFFICES ASSUME running \in suspended \cup Range(Queued) PROVE FALSE
  OBVIOUS
<1>1. nextChunkId \in Nat /\ suspended \subseteq Issued
  BY DEF ServerTypeOK
<1>2. IsFiniteSet(Issued) /\ Cardinality(Issued) = nextChunkId
  <2>1. 0 \in Int /\ nextChunkId - 1 \in Int
    BY <1>1
  <2>2. /\ IsFiniteSet(0..(nextChunkId - 1))
        /\ Cardinality(0..(nextChunkId - 1))
              = IF 0 > nextChunkId - 1 THEN 0 ELSE nextChunkId - 1 - 0 + 1
    BY <2>1, FS_Interval, Zenon
  <2> QED
    BY <1>1, <2>2 DEF Issued
<1>3. Queued \in Seq(Issued)
  <2>1. /\ pingedSegments \in Seq(Issued) /\ work \in Seq(Issued)
        /\ completedModuleChunks \in Seq(Issued) /\ completedJSONChunks \in Seq(Issued)
        /\ completedErrorChunks \in Seq(Issued) /\ wire \in Seq(Issued)
    BY DEF ServerTypeOK
  <2>2. \A x, y \in Seq(Issued) : x \o y \in Seq(Issued)
    BY ConcatProperties
  <2> QED
    BY <2>1, <2>2, Zenon DEF Queued
<1>4. IsFiniteSet(Range(Queued)) /\ Cardinality(Range(Queued)) <= Len(Queued) /\ Len(Queued) \in Nat
  BY <1>3, RangeFinite, LenProperties
<1>5. IsFiniteSet(suspended) /\ Cardinality(suspended) \in Nat
  BY <1>1, <1>2, FS_Subset, FS_CardinalityType
<1>6. Issued = Range(Queued) \cup suspended
  BY DEF ChunksExact, Current, ToSet, Range
<1>7. Cardinality(Issued) <= Cardinality(Range(Queued)) + Cardinality(suspended)
  <2>1. /\ Cardinality(Range(Queued) \cup suspended)
            = Cardinality(Range(Queued)) + Cardinality(suspended)
                - Cardinality(Range(Queued) \cap suspended)
        /\ Cardinality(Range(Queued) \cap suspended) \in Nat
        /\ Cardinality(Range(Queued)) \in Nat
    BY <1>4, <1>5, FS_Union, FS_Intersection, FS_CardinalityType
  <2> QED
    BY <1>5, <1>6, <2>1
<1>8. Cardinality(Current) = 1
  <2>1. Current = {running}
    BY DEF Current
  <2> QED
    BY <2>1, FS_Singleton
<1> QED
  BY <1>1, <1>2, <1>4, <1>5, <1>7, <1>8, FS_CardinalityType DEF ChunksExact

(* No row is written twice.                                                *)
LEMMA RowsAreDistinct ==
    ASSUME ServerTypeOK, ChunksExact
    PROVE  \A i, j \in 1..Len(wire) : wire[i] = wire[j] => i = j
<1> DEFINE unwritten == pingedSegments \o work \o completedModuleChunks \o completedJSONChunks
                           \o completedErrorChunks
<1>1. nextChunkId \in Nat /\ suspended \subseteq Issued /\ wire \in Seq(Issued)
  BY DEF ServerTypeOK
<1>2. IsFiniteSet(Issued) /\ Cardinality(Issued) = nextChunkId
  <2>1. 0 \in Int /\ nextChunkId - 1 \in Int
    BY <1>1
  <2>2. /\ IsFiniteSet(0..(nextChunkId - 1))
        /\ Cardinality(0..(nextChunkId - 1))
              = IF 0 > nextChunkId - 1 THEN 0 ELSE nextChunkId - 1 - 0 + 1
    BY <2>1, FS_Interval, Zenon
  <2> QED
    BY <1>1, <2>2 DEF Issued
<1>3. unwritten \in Seq(Issued) /\ Queued = unwritten \o wire
  <2>1. /\ pingedSegments \in Seq(Issued) /\ work \in Seq(Issued)
        /\ completedModuleChunks \in Seq(Issued) /\ completedJSONChunks \in Seq(Issued)
        /\ completedErrorChunks \in Seq(Issued)
    BY DEF ServerTypeOK
  <2>2. \A x, y \in Seq(Issued) : x \o y \in Seq(Issued)
    BY ConcatProperties
  <2>3. unwritten \in Seq(Issued)
    BY <2>1, <2>2, Zenon
  <2> QED
    BY <2>3, Zenon DEF Queued
<1> HIDE DEF unwritten
<1>4. /\ Queued \in Seq(Issued) /\ Len(Queued) = Len(unwritten) + Len(wire)
      /\ \A i \in 1..Len(Queued) :
            Queued[i] = IF i <= Len(unwritten) THEN unwritten[i] ELSE wire[i - Len(unwritten)]
      /\ Len(unwritten) \in Nat /\ Len(wire) \in Nat
  BY <1>1, <1>3, ConcatProperties, LenProperties
<1>5. /\ IsFiniteSet(Range(Queued)) /\ Cardinality(Range(Queued)) \in 0..Len(Queued)
      /\ Cardinality(Range(Queued)) = Len(Queued) =>
            \A i, j \in 1..Len(Queued) : Queued[i] = Queued[j] => i = j
  BY <1>4, RangeFinite
<1>6. /\ IsFiniteSet(suspended) /\ Cardinality(suspended) \in Nat
      /\ IsFiniteSet(Current) /\ Cardinality(Current) \in Nat
  <2>1. IsFiniteSet({running}) /\ Current \subseteq {running}
    BY FS_Singleton DEF Current
  <2> QED
    BY <1>1, <1>2, <2>1, FS_Subset, FS_CardinalityType
<1>7. Cardinality(Issued)
        <= Cardinality(Range(Queued)) + Cardinality(suspended) + Cardinality(Current)
  <2>1. \A A, B : IsFiniteSet(A) /\ IsFiniteSet(B) =>
           /\ IsFiniteSet(A \cup B)
           /\ Cardinality(A \cup B) <= Cardinality(A) + Cardinality(B)
    <3> SUFFICES ASSUME NEW A, NEW B, IsFiniteSet(A), IsFiniteSet(B)
                 PROVE  /\ IsFiniteSet(A \cup B)
                        /\ Cardinality(A \cup B) <= Cardinality(A) + Cardinality(B)
      OBVIOUS
    <3>1. /\ IsFiniteSet(A \cup B)
          /\ Cardinality(A \cup B) = Cardinality(A) + Cardinality(B) - Cardinality(A \cap B)
          /\ Cardinality(A \cap B) \in Nat /\ Cardinality(A) \in Nat /\ Cardinality(B) \in Nat
      BY FS_Union, FS_Intersection, FS_CardinalityType
    <3> QED
      BY <3>1
  <2>2. Issued = (Range(Queued) \cup suspended) \cup Current
    BY DEF ChunksExact, ToSet, Range
  <2>3. /\ IsFiniteSet(Range(Queued) \cup suspended)
        /\ Cardinality(Range(Queued) \cup suspended)
             <= Cardinality(Range(Queued)) + Cardinality(suspended)
    BY <1>5, <1>6, <2>1
  <2>4. Cardinality(Issued) <= Cardinality(Range(Queued) \cup suspended) + Cardinality(Current)
    BY <1>6, <2>1, <2>2, <2>3
  <2>5. Cardinality(Range(Queued) \cup suspended) \in Nat
    BY <2>3, FS_CardinalityType
  <2> QED
    BY <1>1, <1>2, <1>5, <1>6, <2>3, <2>4, <2>5
<1>8. Cardinality(Range(Queued)) = Len(Queued)
  BY <1>1, <1>2, <1>4, <1>5, <1>6, <1>7 DEF ChunksExact
<1>9. ASSUME NEW i \in 1..Len(wire), NEW j \in 1..Len(wire), wire[i] = wire[j]
      PROVE  i = j
  <2>1. ASSUME NEW k \in 1..Len(wire)
        PROVE  Len(unwritten) + k \in 1..Len(Queued) /\ Queued[Len(unwritten) + k] = wire[k]
    <3>1. /\ Len(unwritten) + k \in 1..Len(Queued) /\ ~ (Len(unwritten) + k <= Len(unwritten))
          /\ Len(unwritten) + k - Len(unwritten) = k
      BY <1>4
    <3> QED
      BY <1>4, <3>1
  <2>2. Len(unwritten) + i = Len(unwritten) + j
    BY <1>5, <1>8, <1>9, <2>1
  <2> QED
    BY <1>4, <2>2
<1> QED
  BY <1>9

(* How the set of suspended segments grows and shrinks.                    *)
LEMMA SuspendedFinite ==
    ASSUME ServerTypeOK
    PROVE  /\ IsFiniteSet(suspended) /\ Cardinality(suspended) \in Nat
           /\ \A c : /\ c \notin suspended =>
                            Cardinality(suspended \cup {c}) = Cardinality(suspended) + 1
                     /\ c \in suspended =>
                            Cardinality(suspended \ {c}) = Cardinality(suspended) - 1
<1>1. IsFiniteSet(Issued)
  <2>1. 0 \in Int /\ nextChunkId - 1 \in Int
    BY DEF ServerTypeOK
  <2> QED
    BY <2>1, FS_Interval, Zenon DEF Issued
<1>2. IsFiniteSet(suspended)
  BY <1>1, FS_Subset DEF ServerTypeOK
<1> QED
  BY <1>2, FS_CardinalityType, FS_AddElement, FS_RemoveElement

LEMMA QueuesNow ==
    ASSUME ServerTypeOK
    PROVE  /\ pingedSegments \in Seq(Issued) /\ work \in Seq(Issued)
           /\ completedModuleChunks \in Seq(Issued) /\ completedJSONChunks \in Seq(Issued)
           /\ completedErrorChunks \in Seq(Issued) /\ wire \in Seq(Issued)
           /\ Len(pingedSegments) \in Nat /\ Len(work) \in Nat
           /\ Len(completedModuleChunks) \in Nat /\ Len(completedJSONChunks) \in Nat
           /\ Len(completedErrorChunks) \in Nat /\ Len(wire) \in Nat
           /\ nextChunkId \in Nat \ {0} /\ MaxChunks \in Nat
           /\ Issued \subseteq Chunks /\ running \in Issued \cup {NoChunk}
           /\ suspended \subseteq Issued
<1>1. /\ pingedSegments \in Seq(Issued) /\ work \in Seq(Issued)
      /\ completedModuleChunks \in Seq(Issued) /\ completedJSONChunks \in Seq(Issued)
      /\ completedErrorChunks \in Seq(Issued) /\ wire \in Seq(Issued)
  BY DEF ServerTypeOK
<1>2. \A q \in Seq(Issued) : Len(q) \in Nat
  BY LenProperties
<1>3. MaxChunks \in Nat /\ nextChunkId \in 1..MaxChunks
  BY FlightAssumption DEF ServerTypeOK
<1>4. Issued \subseteq Chunks
  BY <1>3 DEF Issued, Chunks
<1> QED
  BY <1>1, <1>2, <1>3, <1>4 DEF ServerTypeOK

-----------------------------------------------------------------------------
(* The steps of the server keep its invariant.                             *)

(* What a step of the server may do to what the client sees: chunks are    *)
(* added, rows are added, and a model refers to more or becomes an error.  *)
Grows ==
    /\ Issued \subseteq Issued'
    /\ Len(wire) <= Len(wire') /\ \A i \in 1..Len(wire) : wire'[i] = wire[i]
    /\ \A c \in Issued :
          /\ chunk[c].kind # "model" => chunk'[c].kind = chunk[c].kind
          /\ chunk'[c].kind # "error" => chunk[c].values \subseteq chunk'[c].values

LEMMA ReferFacts ==
    ASSUME ServerInv, NEW kind \in {"model", "error", "module", "symbol"}, NEW how,
           Refer(kind, how)
    PROVE  /\ nextChunkId' = nextChunkId + 1 /\ nextChunkId' \in 1..MaxChunks
           /\ nextChunkId \notin Issued /\ Issued' = Issued \cup {nextChunkId}
           /\ pendingChunks' = pendingChunks + 1 /\ pendingChunks' \in 0..MaxChunks
           /\ \A q \in Seq(Issued) : q \in Seq(Issued')
           /\ chunk' \in [Chunks -> [kind : {"none", "model", "error", "module", "symbol"},
                                     values : SUBSET Chunks, lazies : SUBSET Chunks]]
           /\ \A c \in Chunks : chunk'[c].values \cup chunk'[c].lazies \subseteq Issued'
           /\ \A c \in Chunks \ Issued' : chunk'[c] = NewChunk("none")
           /\ chunk'[nextChunkId].kind = kind
           /\ \A c \in Issued : chunk'[c].kind = chunk[c].kind
           /\ EndState' /\ running # NoChunk
           /\ Grows
<1>1. /\ nextChunkId \in Nat \ {0} /\ nextChunkId \in Chunks /\ running \in Issued
      /\ MaxChunks \in Nat /\ Issued \subseteq Chunks /\ Len(wire) \in Nat
  BY QueuesNow DEF ServerInv, Refer
<1>2. /\ nextChunkId' = nextChunkId + 1 /\ nextChunkId' \in 1..MaxChunks
      /\ nextChunkId \notin Issued /\ Issued' = Issued \cup {nextChunkId}
  BY <1>1 DEF Refer, Issued, Chunks
<1>3. /\ pendingChunks = nextChunkId - Len(wire) /\ pendingChunks \in 0..MaxChunks
      /\ pendingChunks' = pendingChunks + 1
  BY DEF ServerInv, ServerTypeOK, ChunksExact, Refer
<1>4. pendingChunks' \in 0..MaxChunks
  BY <1>1, <1>2, <1>3
<1>5. \A q \in Seq(Issued) : q \in Seq(Issued')
  BY <1>2, SeqMonotonic
<1>6. /\ chunk \in [Chunks -> [kind : {"none", "model", "error", "module", "symbol"},
                               values : SUBSET Chunks, lazies : SUBSET Chunks]]
      /\ \A c \in Chunks : chunk[c].values \cup chunk[c].lazies \subseteq Issued
      /\ \A c \in Chunks \ Issued : chunk[c] = NewChunk("none")
  BY DEF ServerInv, ServerTypeOK, ChunkState
<1>7. PICK v \in SUBSET Issued', l \in SUBSET Issued' :
         /\ chunk[running].values \subseteq v
         /\ chunk' = [chunk EXCEPT ![running] = [@ EXCEPT !.values = v, !.lazies = l],
                                  ![nextChunkId] = NewChunk(kind)]
  <2> DEFINE v == IF how = "value" THEN chunk[running].values \cup {nextChunkId}
                  ELSE chunk[running].values
             l == IF how = "lazy" THEN chunk[running].lazies \cup {nextChunkId}
                  ELSE chunk[running].lazies
  <2>1. v \in SUBSET Issued' /\ l \in SUBSET Issued' /\ chunk[running].values \subseteq v
    BY <1>1, <1>2, <1>6
  <2>2. chunk' = [chunk EXCEPT ![running] = [@ EXCEPT !.values = v, !.lazies = l],
                               ![nextChunkId] = NewChunk(kind)]
    BY <1>1, <1>2, <1>6 DEF Refer
  <2> HIDE DEF v, l
  <2> QED
    BY <2>1, <2>2
<1>8. /\ chunk'[nextChunkId] = NewChunk(kind)
      /\ chunk'[running].kind = chunk[running].kind
      /\ chunk'[running].values = v /\ chunk'[running].lazies = l
      /\ \A c \in Chunks \ {running, nextChunkId} : chunk'[c] = chunk[c]
      /\ DOMAIN chunk' = Chunks
  <2>1. /\ chunk[running] \in [kind : {"none", "model", "error", "module", "symbol"},
                               values : SUBSET Chunks, lazies : SUBSET Chunks]
        /\ DOMAIN chunk = Chunks /\ running \in Chunks /\ running # nextChunkId
    BY <1>1, <1>2, <1>6
  <2>2. chunk'[running] = [chunk[running] EXCEPT !.values = v, !.lazies = l]
    BY <1>1, <1>7, <2>1
  <2>3. /\ chunk'[running].kind = chunk[running].kind
        /\ chunk'[running].values = v /\ chunk'[running].lazies = l
    BY <2>1, <2>2
  <2> QED
    BY <1>1, <1>7, <2>1, <2>3
<1>11. chunk' \in [Chunks -> [kind : {"none", "model", "error", "module", "symbol"},
                             values : SUBSET Chunks, lazies : SUBSET Chunks]]
  <2>1. NewChunk(kind) \in [kind : {"none", "model", "error", "module", "symbol"},
                             values : SUBSET Chunks, lazies : SUBSET Chunks]
    BY DEF NewChunk
  <2>2. /\ chunk[running].kind \in {"none", "model", "error", "module", "symbol"}
        /\ v \in SUBSET Chunks /\ l \in SUBSET Chunks
    BY <1>1, <1>2, <1>6
  <2>3. ASSUME NEW c \in Chunks
        PROVE  chunk'[c] \in [kind : {"none", "model", "error", "module", "symbol"},
                              values : SUBSET Chunks, lazies : SUBSET Chunks]
    <3>1. CASE c = running
      <4>1. chunk[running] \in [kind : {"none", "model", "error", "module", "symbol"},
                                values : SUBSET Chunks, lazies : SUBSET Chunks]
        BY <1>1, <1>6
      <4>2. chunk'[running] = [chunk[running] EXCEPT !.values = v, !.lazies = l]
        BY <1>1, <1>2, <1>6, <1>7
      <4> QED
        BY <2>2, <3>1, <4>1, <4>2
    <3> QED
      BY <1>6, <1>8, <2>1, <3>1
  <2>4. chunk' = [c \in Chunks |-> chunk'[c]]
    BY <1>6, <1>7
  <2> QED
    BY <2>3, <2>4
<1>12. /\ \A c \in Chunks : chunk'[c].values \cup chunk'[c].lazies \subseteq Issued'
       /\ \A c \in Chunks \ Issued' : chunk'[c] = NewChunk("none")
       /\ chunk'[nextChunkId].kind = kind
       /\ \A c \in Issued : chunk'[c].kind = chunk[c].kind
  <2>1. /\ chunk'[nextChunkId].values = {} /\ chunk'[nextChunkId].lazies = {}
        /\ chunk'[nextChunkId].kind = kind
    BY <1>8 DEF NewChunk
  <2> QED
    BY <1>1, <1>2, <1>6, <1>8, <2>1
<1>9. EndState'
  <2>1. wire' = wire /\ ended' = ended /\ running # NoChunk
    BY DEF Refer, destinationVars
  <2>2. ended => Len(wire) = nextChunkId
    BY <1>1, <1>3 DEF ServerInv, EndState
  <2>3. Len(wire) # nextChunkId
    <3>1. Exact
      BY ExactNow DEF ServerInv
    <3>2. Len(wire) + InHand <= nextChunkId
      BY <3>1, QueuesNow, SuspendedFinite DEF ServerInv, Exact, Lengths, InHand
    <3> QED
      BY <1>1, <2>1, <3>2 DEF InHand
  <2> QED
    BY <2>1, <2>2, <2>3 DEF EndState
<1>10. Grows
  <2>1. wire' = wire
    BY DEF Refer, destinationVars
  <2>2. ASSUME NEW c \in Issued PROVE chunk[c].values \subseteq chunk'[c].values
    BY <1>1, <1>2, <1>7, <1>8
  <2> QED
    BY <1>1, <1>2, <1>12, <2>1, <2>2 DEF Grows
<1>13. running # NoChunk
  BY DEF Refer
<1> QED
  BY <1>2, <1>3, <1>4, <1>5, <1>9, <1>10, <1>11, <1>12, <1>13

(* A chunk that is complete as soon as it is referred to.                  *)
LEMMA ElementThrowsKeeps ==
    ASSUME ServerInv, ElementThrows
    PROVE  ServerInv' /\ Grows
<1>1. PICK how : Refer("error", how)
  BY DEF ElementThrows
<1>2. /\ nextChunkId' = nextChunkId + 1 /\ nextChunkId' \in 1..MaxChunks
      /\ nextChunkId \notin Issued /\ Issued' = Issued \cup {nextChunkId}
      /\ pendingChunks' = pendingChunks + 1 /\ pendingChunks' \in 0..MaxChunks
      /\ \A q \in Seq(Issued) : q \in Seq(Issued')
      /\ chunk' \in [Chunks -> [kind : {"none", "model", "error", "module", "symbol"},
                                values : SUBSET Chunks, lazies : SUBSET Chunks]]
      /\ \A c \in Chunks : chunk'[c].values \cup chunk'[c].lazies \subseteq Issued'
      /\ \A c \in Chunks \ Issued' : chunk'[c] = NewChunk("none")
      /\ \A c \in Issued : chunk'[c].kind = chunk[c].kind
      /\ EndState' /\ running # NoChunk /\ Grows
  BY <1>1, ReferFacts
<1>3. /\ completedErrorChunks' = Append(completedErrorChunks, nextChunkId)
      /\ completedModuleChunks' = completedModuleChunks /\ completedJSONChunks' = completedJSONChunks
      /\ suspended' = suspended /\ running' = running /\ retries' = retries
      /\ pingedSegments' = pingedSegments /\ work' = work /\ working' = working
      /\ scheduled' = scheduled /\ wire' = wire
      /\ piped' = piped /\ flowing' = flowing /\ ended' = ended
  BY <1>1 DEF ElementThrows, Refer, taskVars, destinationVars
<1>4. /\ completedErrorChunks' \in Seq(Issued')
      /\ Len(completedErrorChunks') = Len(completedErrorChunks) + 1
      /\ Range(completedErrorChunks') = Range(completedErrorChunks) \cup {nextChunkId}
  <2>1. completedErrorChunks \in Seq(Issued') /\ nextChunkId \in Issued'
    BY <1>2, QueuesNow DEF ServerInv
  <2> QED
    BY <1>3, <2>1, RangeAppend
<1>5. ServerTypeOK'
  BY <1>2, <1>3, <1>4, QueuesNow DEF ServerInv, ServerTypeOK
<1>6. ChunksExact'
  <2>1. Exact
    BY ExactNow DEF ServerInv
  <2>2. Places' = Places \cup {nextChunkId}
    BY <1>3, <1>4 DEF Places, RangeOfAll
  <2>3. Lengths' = Lengths + 1
    BY <1>3, <1>4, QueuesNow DEF ServerInv, Lengths
  <2>4. /\ Lengths \in Nat /\ Cardinality(suspended) \in Nat /\ InHand \in Nat
        /\ nextChunkId \in Nat /\ Len(wire) \in Nat
    BY QueuesNow, SuspendedFinite DEF ServerInv, Lengths, InHand
  <2>5. Exact'
    BY <1>2, <1>3, <2>1, <2>2, <2>3, <2>4 DEF Exact, InHand, Current
  <2> QED
    BY <1>5, <2>5, ExactNext
<1>7. WorkState'
  BY <1>3 DEF ServerInv, WorkState
<1>8. ChunkState'
  <2>1. Unrendered' = Unrendered /\ Unrendered \subseteq Issued
    BY <1>3, QueuesNow, RangeOfSet DEF ServerInv, Unrendered, Current, ToSet, Range
  <2> QED
    BY <1>2, <2>1 DEF ServerInv, ChunkState
<1> QED
  BY <1>2, <1>5, <1>6, <1>7, <1>8 DEF ServerInv

LEMMA ReferToModuleKeeps ==
    ASSUME ServerInv, ReferToModule
    PROVE  ServerInv' /\ Grows
<1>1. PICK how : Refer("module", how)
  BY DEF ReferToModule
<1>2. /\ nextChunkId' = nextChunkId + 1 /\ nextChunkId' \in 1..MaxChunks
      /\ nextChunkId \notin Issued /\ Issued' = Issued \cup {nextChunkId}
      /\ pendingChunks' = pendingChunks + 1 /\ pendingChunks' \in 0..MaxChunks
      /\ \A q \in Seq(Issued) : q \in Seq(Issued')
      /\ chunk' \in [Chunks -> [kind : {"none", "model", "error", "module", "symbol"},
                                values : SUBSET Chunks, lazies : SUBSET Chunks]]
      /\ \A c \in Chunks : chunk'[c].values \cup chunk'[c].lazies \subseteq Issued'
      /\ \A c \in Chunks \ Issued' : chunk'[c] = NewChunk("none")
      /\ \A c \in Issued : chunk'[c].kind = chunk[c].kind
      /\ EndState' /\ running # NoChunk /\ Grows
  BY <1>1, ReferFacts
<1>3. /\ completedModuleChunks' = Append(completedModuleChunks, nextChunkId)
      /\ completedJSONChunks' = completedJSONChunks /\ completedErrorChunks' = completedErrorChunks
      /\ suspended' = suspended /\ running' = running /\ retries' = retries
      /\ pingedSegments' = pingedSegments /\ work' = work /\ working' = working
      /\ scheduled' = scheduled /\ wire' = wire
      /\ piped' = piped /\ flowing' = flowing /\ ended' = ended
  BY <1>1 DEF ReferToModule, Refer, taskVars, destinationVars
<1>4. /\ completedModuleChunks' \in Seq(Issued')
      /\ Len(completedModuleChunks') = Len(completedModuleChunks) + 1
      /\ Range(completedModuleChunks') = Range(completedModuleChunks) \cup {nextChunkId}
  <2>1. completedModuleChunks \in Seq(Issued') /\ nextChunkId \in Issued'
    BY <1>2, QueuesNow DEF ServerInv
  <2> QED
    BY <1>3, <2>1, RangeAppend
<1>5. ServerTypeOK'
  BY <1>2, <1>3, <1>4, QueuesNow DEF ServerInv, ServerTypeOK
<1>6. ChunksExact'
  <2>1. Exact
    BY ExactNow DEF ServerInv
  <2>2. Places' = Places \cup {nextChunkId}
    BY <1>3, <1>4 DEF Places, RangeOfAll
  <2>3. Lengths' = Lengths + 1
    BY <1>3, <1>4, QueuesNow DEF ServerInv, Lengths
  <2>4. /\ Lengths \in Nat /\ Cardinality(suspended) \in Nat /\ InHand \in Nat
        /\ nextChunkId \in Nat /\ Len(wire) \in Nat
    BY QueuesNow, SuspendedFinite DEF ServerInv, Lengths, InHand
  <2>5. Exact'
    BY <1>2, <1>3, <2>1, <2>2, <2>3, <2>4 DEF Exact, InHand, Current
  <2> QED
    BY <1>5, <2>5, ExactNext
<1>7. WorkState'
  BY <1>3 DEF ServerInv, WorkState
<1>8. ChunkState'
  <2>1. Unrendered' = Unrendered /\ Unrendered \subseteq Issued
    BY <1>3, QueuesNow, RangeOfSet DEF ServerInv, Unrendered, Current, ToSet, Range
  <2> QED
    BY <1>2, <2>1 DEF ServerInv, ChunkState
<1> QED
  BY <1>2, <1>5, <1>6, <1>7, <1>8 DEF ServerInv

LEMMA ReferToSymbolKeeps ==
    ASSUME ServerInv, ReferToSymbol
    PROVE  ServerInv' /\ Grows
<1>1. Refer("symbol", "value")
  BY DEF ReferToSymbol
<1>2. /\ nextChunkId' = nextChunkId + 1 /\ nextChunkId' \in 1..MaxChunks
      /\ nextChunkId \notin Issued /\ Issued' = Issued \cup {nextChunkId}
      /\ pendingChunks' = pendingChunks + 1 /\ pendingChunks' \in 0..MaxChunks
      /\ \A q \in Seq(Issued) : q \in Seq(Issued')
      /\ chunk' \in [Chunks -> [kind : {"none", "model", "error", "module", "symbol"},
                                values : SUBSET Chunks, lazies : SUBSET Chunks]]
      /\ \A c \in Chunks : chunk'[c].values \cup chunk'[c].lazies \subseteq Issued'
      /\ \A c \in Chunks \ Issued' : chunk'[c] = NewChunk("none")
      /\ \A c \in Issued : chunk'[c].kind = chunk[c].kind
      /\ EndState' /\ running # NoChunk /\ Grows
  BY <1>1, ReferFacts
<1>3. /\ completedModuleChunks' = Append(completedModuleChunks, nextChunkId)
      /\ completedJSONChunks' = completedJSONChunks /\ completedErrorChunks' = completedErrorChunks
      /\ suspended' = suspended /\ running' = running /\ retries' = retries
      /\ pingedSegments' = pingedSegments /\ work' = work /\ working' = working
      /\ scheduled' = scheduled /\ wire' = wire
      /\ piped' = piped /\ flowing' = flowing /\ ended' = ended
  BY <1>1 DEF ReferToSymbol, Refer, taskVars, destinationVars
<1>4. /\ completedModuleChunks' \in Seq(Issued')
      /\ Len(completedModuleChunks') = Len(completedModuleChunks) + 1
      /\ Range(completedModuleChunks') = Range(completedModuleChunks) \cup {nextChunkId}
  <2>1. completedModuleChunks \in Seq(Issued') /\ nextChunkId \in Issued'
    BY <1>2, QueuesNow DEF ServerInv
  <2> QED
    BY <1>3, <2>1, RangeAppend
<1>5. ServerTypeOK'
  BY <1>2, <1>3, <1>4, QueuesNow DEF ServerInv, ServerTypeOK
<1>6. ChunksExact'
  <2>1. Exact
    BY ExactNow DEF ServerInv
  <2>2. Places' = Places \cup {nextChunkId}
    BY <1>3, <1>4 DEF Places, RangeOfAll
  <2>3. Lengths' = Lengths + 1
    BY <1>3, <1>4, QueuesNow DEF ServerInv, Lengths
  <2>4. /\ Lengths \in Nat /\ Cardinality(suspended) \in Nat /\ InHand \in Nat
        /\ nextChunkId \in Nat /\ Len(wire) \in Nat
    BY QueuesNow, SuspendedFinite DEF ServerInv, Lengths, InHand
  <2>5. Exact'
    BY <1>2, <1>3, <2>1, <2>2, <2>3, <2>4 DEF Exact, InHand, Current
  <2> QED
    BY <1>5, <2>5, ExactNext
<1>7. WorkState'
  BY <1>3 DEF ServerInv, WorkState
<1>8. ChunkState'
  <2>1. Unrendered' = Unrendered /\ Unrendered \subseteq Issued
    BY <1>3, QueuesNow, RangeOfSet DEF ServerInv, Unrendered, Current, ToSet, Range
  <2> QED
    BY <1>2, <2>1 DEF ServerInv, ChunkState
<1> QED
  BY <1>2, <1>5, <1>6, <1>7, <1>8 DEF ServerInv

LEMMA ElementSuspendsKeeps ==
    ASSUME ServerInv, ElementSuspends
    PROVE  ServerInv' /\ Grows
<1>1. Refer("model", "lazy")
  BY DEF ElementSuspends
<1>2. /\ nextChunkId' = nextChunkId + 1 /\ nextChunkId' \in 1..MaxChunks
      /\ nextChunkId \notin Issued /\ Issued' = Issued \cup {nextChunkId}
      /\ pendingChunks' = pendingChunks + 1 /\ pendingChunks' \in 0..MaxChunks
      /\ \A q \in Seq(Issued) : q \in Seq(Issued')
      /\ chunk' \in [Chunks -> [kind : {"none", "model", "error", "module", "symbol"},
                                values : SUBSET Chunks, lazies : SUBSET Chunks]]
      /\ \A c \in Chunks : chunk'[c].values \cup chunk'[c].lazies \subseteq Issued'
      /\ \A c \in Chunks \ Issued' : chunk'[c] = NewChunk("none")
      /\ chunk'[nextChunkId].kind = "model"
      /\ \A c \in Issued : chunk'[c].kind = chunk[c].kind
      /\ EndState' /\ running # NoChunk /\ Grows
  BY <1>1, ReferFacts
<1>3. /\ suspended' = suspended \cup {nextChunkId}
      /\ completedModuleChunks' = completedModuleChunks
      /\ completedJSONChunks' = completedJSONChunks
      /\ completedErrorChunks' = completedErrorChunks
      /\ running' = running /\ retries' = retries
      /\ pingedSegments' = pingedSegments /\ work' = work /\ working' = working
      /\ scheduled' = scheduled /\ wire' = wire
      /\ piped' = piped /\ flowing' = flowing /\ ended' = ended
  BY <1>1 DEF ElementSuspends, Refer, taskVars, completedVars, destinationVars
<1>4. ServerTypeOK'
  BY <1>2, <1>3, QueuesNow DEF ServerInv, ServerTypeOK
<1>5. ChunksExact'
  <2>1. Exact
    BY ExactNow DEF ServerInv
  <2>2. Places' = Places /\ Lengths' = Lengths
    BY <1>3 DEF Places, RangeOfAll, Lengths
  <2>3. /\ Cardinality(suspended \cup {nextChunkId}) = Cardinality(suspended) + 1
        /\ Cardinality(suspended) \in Nat
    BY <1>2, QueuesNow, SuspendedFinite DEF ServerInv
  <2>4. /\ Lengths \in Nat /\ InHand \in Nat /\ nextChunkId \in Nat /\ Len(wire) \in Nat
    BY QueuesNow DEF ServerInv, Lengths, InHand
  <2>5. Exact'
    BY <1>2, <1>3, <2>1, <2>2, <2>3, <2>4 DEF Exact, InHand, Current
  <2> QED
    BY <1>4, <2>5, ExactNext
<1>6. WorkState'
  BY <1>3 DEF ServerInv, WorkState
<1>7. ChunkState'
  <2>1. Unrendered' = Unrendered \cup {nextChunkId} /\ Unrendered \subseteq Issued
    BY <1>3, QueuesNow, RangeOfSet DEF ServerInv, Unrendered, Current, ToSet, Range
  <2> QED
    BY <1>2, <2>1 DEF ServerInv, ChunkState
<1> QED
  BY <1>2, <1>4, <1>5, <1>6, <1>7 DEF ServerInv

LEMMA ReferAgainKeeps ==
    ASSUME ServerInv, ReferAgain
    PROVE  ServerInv' /\ Grows
<1>1. /\ nextChunkId' = nextChunkId /\ pendingChunks' = pendingChunks
      /\ suspended' = suspended /\ running' = running /\ retries' = retries
      /\ pingedSegments' = pingedSegments /\ work' = work /\ working' = working
      /\ scheduled' = scheduled /\ wire' = wire
      /\ completedModuleChunks' = completedModuleChunks
      /\ completedJSONChunks' = completedJSONChunks
      /\ completedErrorChunks' = completedErrorChunks
      /\ piped' = piped /\ flowing' = flowing /\ ended' = ended
  BY DEF ReferAgain, taskVars, completedVars, destinationVars
<1>2. Issued' = Issued /\ Issued \subseteq Chunks /\ running \in Issued
  BY <1>1, QueuesNow DEF ServerInv, ReferAgain, Issued
<1>3. /\ chunk \in [Chunks -> [kind : {"none", "model", "error", "module", "symbol"},
                               values : SUBSET Chunks, lazies : SUBSET Chunks]]
      /\ \A c \in Chunks : chunk[c].values \cup chunk[c].lazies \subseteq Issued
  BY DEF ServerInv, ServerTypeOK, ChunkState
<1>4. PICK c \in Issued : \/ chunk' = [chunk EXCEPT ![running].values = @ \cup {c}]
                         \/ chunk' = [chunk EXCEPT ![running].lazies = @ \cup {c}]
  BY DEF ReferAgain, Issued
<1>5. /\ \A d \in Chunks : /\ chunk'[d].kind = chunk[d].kind
                          /\ chunk[d].values \subseteq chunk'[d].values
                          /\ chunk'[d].values \cup chunk'[d].lazies \subseteq Issued
      /\ \A d \in Chunks \ Issued : chunk'[d] = chunk[d]
  BY <1>2, <1>3, <1>4
<1>6. chunk' \in [Chunks -> [kind : {"none", "model", "error", "module", "symbol"},
                             values : SUBSET Chunks, lazies : SUBSET Chunks]]
  BY <1>2, <1>3, <1>4
<1>7. ServerTypeOK'
  BY <1>1, <1>2, <1>6 DEF ServerInv, ServerTypeOK
<1>8. ChunksExact'
  BY <1>1, <1>2 DEF ServerInv, ChunksExact, Queued, Current
<1>9. ChunkState'
  <2>1. Unrendered' = Unrendered /\ Unrendered \subseteq Chunks
    BY <1>1, <1>2, QueuesNow, RangeOfSet DEF ServerInv, Unrendered, Current, ToSet, Range
  <2> QED
    BY <1>2, <1>5, <2>1 DEF ServerInv, ChunkState
<1>10. Grows
  BY <1>1, <1>2, <1>5, QueuesNow DEF ServerInv, Grows
<1> QED
  BY <1>1, <1>7, <1>8, <1>9, <1>10 DEF ServerInv, WorkState, EndState

(* The end of retrySegment: the chunk in its hands goes elsewhere.         *)
LEMMA FinishSegmentKeeps ==
    ASSUME ServerInv, FinishSegment
    PROVE  ServerInv' /\ Grows
<1>1. /\ chunk' = chunk /\ nextChunkId' = nextChunkId /\ pendingChunks' = pendingChunks
      /\ suspended' = suspended /\ retries' = retries
      /\ pingedSegments' = pingedSegments /\ work' = work /\ working' = working
      /\ scheduled' = scheduled /\ wire' = wire
      /\ completedModuleChunks' = completedModuleChunks
      /\ completedJSONChunks' = Append(completedJSONChunks, running)
      /\ completedErrorChunks' = completedErrorChunks
      /\ running # NoChunk /\ running' = NoChunk
      /\ piped' = piped /\ flowing' = flowing /\ ended' = ended
  BY DEF FinishSegment, taskVars, destinationVars
<1>2. Issued' = Issued /\ Issued \subseteq Chunks /\ running \in Issued
  BY <1>1, QueuesNow DEF ServerInv, Issued
<1>3. /\ completedJSONChunks' \in Seq(Issued)
      /\ Len(completedJSONChunks') = Len(completedJSONChunks) + 1
      /\ Range(completedJSONChunks') = Range(completedJSONChunks) \cup {running}
  BY <1>1, <1>2, QueuesNow, RangeAppend DEF ServerInv
<1>4. ServerTypeOK'
  BY <1>1, <1>2, <1>3 DEF ServerInv, ServerTypeOK
<1>5. ChunksExact'
  <2>1. Exact
    BY ExactNow DEF ServerInv
  <2>2. Places' = Places \cup {running}
    BY <1>1, <1>3 DEF Places, RangeOfAll
  <2>3. Lengths' = Lengths + 1
    BY <1>1, <1>3, QueuesNow DEF ServerInv, Lengths
  <2>4. /\ Lengths \in Nat /\ Cardinality(suspended) \in Nat
        /\ nextChunkId \in Nat /\ Len(wire) \in Nat
    BY QueuesNow, SuspendedFinite DEF ServerInv, Lengths
  <2>5. Exact'
    BY <1>1, <1>2, <2>1, <2>2, <2>3, <2>4 DEF Exact, InHand, Current
  <2> QED
    BY <1>4, <2>5, ExactNext
<1>6. ChunkState'
  <2>1. Unrendered' \subseteq Unrendered
    BY <1>1 DEF Unrendered, Current
  <2> QED
    BY <1>1, <1>2, <2>1 DEF ServerInv, ChunkState
<1>7. Grows
  BY <1>1, <1>2, QueuesNow DEF ServerInv, Grows
<1> QED
  BY <1>1, <1>4, <1>5, <1>6, <1>7 DEF ServerInv, WorkState, EndState

LEMMA SegmentThrowsKeeps ==
    ASSUME ServerInv, SegmentThrows
    PROVE  ServerInv' /\ Grows
<1>1. /\ chunk' = [chunk EXCEPT ![running] = NewChunk("error")]
      /\ nextChunkId' = nextChunkId /\ pendingChunks' = pendingChunks
      /\ suspended' = suspended /\ retries' = retries
      /\ pingedSegments' = pingedSegments /\ work' = work /\ working' = working
      /\ scheduled' = scheduled /\ wire' = wire
      /\ completedModuleChunks' = completedModuleChunks
      /\ completedJSONChunks' = completedJSONChunks
      /\ completedErrorChunks' = Append(completedErrorChunks, running)
      /\ running # NoChunk /\ running' = NoChunk
      /\ piped' = piped /\ flowing' = flowing /\ ended' = ended
  BY DEF SegmentThrows, taskVars, destinationVars
<1>2. Issued' = Issued /\ Issued \subseteq Chunks /\ running \in Issued
  BY <1>1, QueuesNow DEF ServerInv, Issued
<1>3. /\ completedErrorChunks' \in Seq(Issued)
      /\ Len(completedErrorChunks') = Len(completedErrorChunks) + 1
      /\ Range(completedErrorChunks') = Range(completedErrorChunks) \cup {running}
  BY <1>1, <1>2, QueuesNow, RangeAppend DEF ServerInv
<1>4. /\ \A c \in Chunks \ {running} : chunk'[c] = chunk[c]
      /\ chunk'[running] = [kind |-> "error", values |-> {}, lazies |-> {}]
      /\ chunk' \in [Chunks -> [kind : {"none", "model", "error", "module", "symbol"},
                                values : SUBSET Chunks, lazies : SUBSET Chunks]]
  BY <1>1, <1>2 DEF ServerInv, ServerTypeOK, NewChunk
<1>5. ServerTypeOK'
  BY <1>1, <1>2, <1>3, <1>4 DEF ServerInv, ServerTypeOK
<1>6. Exact
  BY ExactNow DEF ServerInv
<1>7. ChunksExact'
  <2>1. Places' = Places \cup {running}
    BY <1>1, <1>3 DEF Places, RangeOfAll
  <2>2. Lengths' = Lengths + 1
    BY <1>1, <1>3, QueuesNow DEF ServerInv, Lengths
  <2>3. /\ Lengths \in Nat /\ Cardinality(suspended) \in Nat
        /\ nextChunkId \in Nat /\ Len(wire) \in Nat
    BY QueuesNow, SuspendedFinite DEF ServerInv, Lengths
  <2>4. Exact'
    BY <1>1, <1>2, <1>6, <2>1, <2>2, <2>3 DEF Exact, InHand, Current
  <2> QED
    BY <1>5, <2>4, ExactNext
<1>8. ChunkState'
  <2>1. running \notin Unrendered'
    <3>1. running \notin suspended \cup Places
      BY <1>1, CurrentIsNowhereElse, ExactNow DEF ServerInv
    <3> QED
      BY <1>1, <3>1 DEF Unrendered, Current, Places, RangeOfAll, ToSet, Range
  <2>2. Unrendered' \subseteq Unrendered /\ Unrendered' \subseteq Issued
    BY <1>1, <1>2, QueuesNow, RangeOfSet DEF ServerInv, Unrendered, Current, ToSet, Range
  <2> QED
    BY <1>1, <1>2, <1>4, <2>1, <2>2 DEF ServerInv, ChunkState
<1>9. Grows
  <2>1. chunk[running].kind = "model"
    BY <1>1 DEF ServerInv, ChunkState, Unrendered, Current
  <2> QED
    BY <1>1, <1>2, <1>4, <2>1, QueuesNow DEF ServerInv, Grows
<1> QED
  BY <1>1, <1>5, <1>7, <1>8, <1>9 DEF ServerInv, WorkState, EndState

LEMMA SuspendAgainKeeps ==
    ASSUME ServerInv, SuspendAgain
    PROVE  ServerInv' /\ Grows
<1>1. /\ chunk' = chunk /\ nextChunkId' = nextChunkId /\ pendingChunks' = pendingChunks
      /\ suspended' = suspended \cup {running} /\ retries' \in 0..MaxRetries
      /\ pingedSegments' = pingedSegments /\ work' = work /\ working' = working
      /\ scheduled' = scheduled /\ wire' = wire
      /\ completedModuleChunks' = completedModuleChunks
      /\ completedJSONChunks' = completedJSONChunks
      /\ completedErrorChunks' = completedErrorChunks
      /\ running # NoChunk /\ running' = NoChunk
      /\ piped' = piped /\ flowing' = flowing /\ ended' = ended
  BY FlightAssumption
     DEF SuspendAgain, taskVars, completedVars, destinationVars, ServerInv, ServerTypeOK
<1>2. Issued' = Issued /\ Issued \subseteq Chunks /\ running \in Issued
  BY <1>1, QueuesNow DEF ServerInv, Issued
<1>3. running \notin suspended
  BY <1>1, CurrentIsNowhereElse DEF ServerInv
<1>4. ServerTypeOK'
  BY <1>1, <1>2 DEF ServerInv, ServerTypeOK
<1>5. ChunksExact'
  <2>1. Exact
    BY ExactNow DEF ServerInv
  <2>2. Places' = Places /\ Lengths' = Lengths
    BY <1>1 DEF Places, RangeOfAll, Lengths
  <2>3. /\ Cardinality(suspended \cup {running}) = Cardinality(suspended) + 1
        /\ Cardinality(suspended) \in Nat
    BY <1>3, SuspendedFinite DEF ServerInv
  <2>4. Lengths \in Nat /\ nextChunkId \in Nat /\ Len(wire) \in Nat
    BY QueuesNow DEF ServerInv, Lengths
  <2>5. Exact'
    BY <1>1, <1>2, <2>1, <2>2, <2>3, <2>4 DEF Exact, InHand, Current
  <2> QED
    BY <1>4, <2>5, ExactNext
<1>6. ChunkState'
  <2>1. Unrendered' = Unrendered
    BY <1>1 DEF Unrendered, Current
  <2> QED
    BY <1>1, <1>2, <2>1 DEF ServerInv, ChunkState
<1>7. Grows
  BY <1>1, <1>2, QueuesNow DEF ServerInv, Grows
<1> QED
  BY <1>1, <1>4, <1>5, <1>6, <1>7 DEF ServerInv, WorkState, EndState

(* performWork and pingSegment.                                            *)
LEMMA PerformWorkKeeps ==
    ASSUME ServerInv, PerformWork
    PROVE  ServerInv' /\ Grows
<1>1. /\ chunk' = chunk /\ nextChunkId' = nextChunkId /\ pendingChunks' = pendingChunks
      /\ suspended' = suspended /\ retries' = retries /\ running' = running
      /\ work = << >> /\ work' = pingedSegments /\ pingedSegments' = << >>
      /\ ~working /\ working' = TRUE
      /\ scheduled = 1 /\ scheduled' = 0 /\ wire' = wire
      /\ completedModuleChunks' = completedModuleChunks
      /\ completedJSONChunks' = completedJSONChunks
      /\ completedErrorChunks' = completedErrorChunks
      /\ piped' = piped /\ flowing' = flowing /\ ended' = ended
  BY DEF PerformWork, Idle, renderVars, completedVars, destinationVars, ServerInv,
         ServerTypeOK, WorkState
<1>2. Issued' = Issued /\ Issued \subseteq Chunks
  BY <1>1, QueuesNow DEF ServerInv, Issued
<1>3. << >> \in Seq(Issued) /\ Len(<< >>) = 0 /\ Range(<< >>) = {}
  BY EmptySeq, RangeEmpty
<1>4. ServerTypeOK'
  BY <1>1, <1>2, <1>3 DEF ServerInv, ServerTypeOK
<1>5. ChunksExact'
  <2>1. Exact
    BY ExactNow DEF ServerInv
  <2>2. Places' = Places
    BY <1>1 DEF Places, RangeOfAll
  <2>3. Lengths' = Lengths
    BY <1>1, <1>3, QueuesNow DEF ServerInv, Lengths
  <2>4. Exact'
    BY <1>1, <1>2, <2>1, <2>2, <2>3 DEF Exact, InHand, Current
  <2> QED
    BY <1>4, <2>4, ExactNext
<1>6. ChunkState'
  <2>1. Unrendered' = Unrendered
    BY <1>1 DEF Unrendered, Current
  <2> QED
    BY <1>1, <1>2, <2>1 DEF ServerInv, ChunkState
<1>7. Grows
  BY <1>1, <1>2, QueuesNow DEF ServerInv, Grows
<1> QED
  BY <1>1, <1>4, <1>5, <1>6, <1>7 DEF ServerInv, WorkState, EndState

LEMMA RetrySegmentKeeps ==
    ASSUME ServerInv, RetrySegment
    PROVE  ServerInv' /\ Grows
<1>1. /\ chunk' = chunk /\ nextChunkId' = nextChunkId /\ pendingChunks' = pendingChunks
      /\ suspended' = suspended /\ retries' = retries
      /\ running = NoChunk /\ running' = Head(work)
      /\ work # << >> /\ work' = Tail(work) /\ pingedSegments' = pingedSegments
      /\ working' = working /\ scheduled' = scheduled /\ wire' = wire
      /\ completedModuleChunks' = completedModuleChunks
      /\ completedJSONChunks' = completedJSONChunks
      /\ completedErrorChunks' = completedErrorChunks
      /\ piped' = piped /\ flowing' = flowing /\ ended' = ended
  BY DEF RetrySegment, completedVars, destinationVars
<1>2. Issued' = Issued /\ Issued \subseteq Chunks /\ NoChunk \notin Issued
  BY <1>1, QueuesNow DEF ServerInv, Issued, NoChunk
<1>3. /\ Head(work) \in Issued /\ Tail(work) \in Seq(Issued)
      /\ Len(work) = Len(Tail(work)) + 1 /\ Len(Tail(work)) \in Nat
      /\ Range(work) = {Head(work)} \cup Range(Tail(work))
  BY <1>1, QueuesNow, RangeHeadTail DEF ServerInv
<1>4. ServerTypeOK'
  BY <1>1, <1>2, <1>3 DEF ServerInv, ServerTypeOK
<1>5. ChunksExact'
  <2>1. Exact
    BY ExactNow DEF ServerInv
  <2>2. Places = Places' \cup {Head(work)}
    BY <1>1, <1>3 DEF Places, RangeOfAll
  <2>3. Lengths = Lengths' + 1 /\ Lengths' \in Nat /\ Cardinality(suspended) \in Nat
    BY <1>1, <1>3, QueuesNow, SuspendedFinite DEF ServerInv, Lengths
  <2>4. Exact'
    BY <1>1, <1>2, <1>3, <2>1, <2>2, <2>3 DEF Exact, InHand, Current
  <2> QED
    BY <1>4, <2>4, ExactNext
<1>6. ChunkState'
  <2>1. Unrendered' = Unrendered
    <3>1. ToSet(work) = {Head(work)} \cup ToSet(work')
      BY <1>1, <1>3 DEF ToSet, Range
    <3> QED
      BY <1>1, <1>2, <1>3, <3>1 DEF Unrendered, Current
  <2> QED
    BY <1>1, <1>2, <2>1 DEF ServerInv, ChunkState
<1>7. Grows
  BY <1>1, <1>2, QueuesNow DEF ServerInv, Grows
<1> QED
  BY <1>1, <1>4, <1>5, <1>6, <1>7 DEF ServerInv, WorkState, EndState

LEMMA PingSegmentKeeps ==
    ASSUME ServerInv, NEW c \in Chunks, PingSegment(c)
    PROVE  ServerInv' /\ Grows
<1>1. /\ chunk' = chunk /\ nextChunkId' = nextChunkId /\ pendingChunks' = pendingChunks
      /\ c \in suspended /\ suspended' = suspended \ {c} /\ retries' = retries
      /\ running' = running /\ work' = work
      /\ pingedSegments' = Append(pingedSegments, c)
      /\ working' = working /\ scheduled' = 1 /\ wire' = wire
      /\ completedModuleChunks' = completedModuleChunks
      /\ completedJSONChunks' = completedJSONChunks
      /\ completedErrorChunks' = completedErrorChunks
      /\ piped' = piped /\ flowing' = flowing /\ ended' = ended
  BY DEF PingSegment, ScheduleWork, completedVars, destinationVars, ServerInv, WorkState
<1>2. Issued' = Issued /\ Issued \subseteq Chunks /\ c \in Issued
  BY <1>1, QueuesNow DEF ServerInv, Issued
<1>3. /\ pingedSegments' \in Seq(Issued)
      /\ Len(pingedSegments') = Len(pingedSegments) + 1
      /\ Range(pingedSegments') = Range(pingedSegments) \cup {c}
  BY <1>1, <1>2, QueuesNow, RangeAppend DEF ServerInv
<1>4. ServerTypeOK'
  BY <1>1, <1>2, <1>3 DEF ServerInv, ServerTypeOK
<1>5. ChunksExact'
  <2>1. Exact
    BY ExactNow DEF ServerInv
  <2>2. Places' = Places \cup {c}
    BY <1>1, <1>3 DEF Places, RangeOfAll
  <2>3. Lengths' = Lengths + 1 /\ Lengths \in Nat
    BY <1>1, <1>3, QueuesNow DEF ServerInv, Lengths
  <2>4. /\ Cardinality(suspended \ {c}) = Cardinality(suspended) - 1
        /\ Cardinality(suspended) \in Nat /\ nextChunkId \in Nat /\ InHand \in Nat
    BY <1>1, SuspendedFinite, QueuesNow DEF ServerInv, InHand
  <2>5. Exact'
    BY <1>1, <1>2, <2>1, <2>2, <2>3, <2>4 DEF Exact, InHand, Current
  <2> QED
    BY <1>4, <2>5, ExactNext
<1>6. ChunkState'
  <2>1. Unrendered' = Unrendered
    <3>1. ToSet(pingedSegments') = ToSet(pingedSegments) \cup {c}
      BY <1>1, <1>3 DEF ToSet, Range
    <3> QED
      BY <1>1, <3>1 DEF Unrendered, Current
  <2> QED
    BY <1>1, <1>2, <2>1 DEF ServerInv, ChunkState
<1>7. Grows
  BY <1>1, <1>2, QueuesNow DEF ServerInv, Grows
<1>8. pingedSegments' # << >>
  BY <1>3, QueuesNow, EmptySeq DEF ServerInv
<1> QED
  BY <1>1, <1>4, <1>5, <1>6, <1>7, <1>8 DEF ServerInv, WorkState, EndState

(* flushCompletedChunks moves rows from the three queues to the stream.    *)
LEMMA WrittenIsOfQueue ==
    ASSUME NEW S, NEW q \in Seq(S), NEW room \in Nat
    PROVE  WrittenOf(q, room) \in 0..Len(q) /\ RoomAfter(q, room) \in Nat
<1>1. Len(q) \in Nat
  BY LenProperties
<1> QED
  BY <1>1 DEF WrittenOf, RoomAfter

LEMMA FlushFacts ==
    ASSUME ServerInv, FlushCompletedChunks
    PROVE  /\ completedModuleChunks' \in Seq(Issued) /\ completedJSONChunks' \in Seq(Issued)
           /\ completedErrorChunks' \in Seq(Issued) /\ wire' \in Seq(Issued)
           /\ Len(completedModuleChunks') + Len(completedJSONChunks')
                + Len(completedErrorChunks') + Len(wire')
              = Len(completedModuleChunks) + Len(completedJSONChunks)
                + Len(completedErrorChunks) + Len(wire)
           /\ Range(completedModuleChunks') \cup Range(completedJSONChunks')
                \cup Range(completedErrorChunks') \cup Range(wire')
              = Range(completedModuleChunks) \cup Range(completedJSONChunks)
                \cup Range(completedErrorChunks) \cup Range(wire)
           /\ pendingChunks' = nextChunkId - Len(wire')
           /\ Len(wire) <= Len(wire') /\ \A i \in 1..Len(wire) : wire'[i] = wire[i]
           /\ flowing' \in BOOLEAN /\ ended' \in BOOLEAN
           /\ ended' = (ended \/ pendingChunks' = 0)
<1>1. /\ completedModuleChunks \in Seq(Issued) /\ completedJSONChunks \in Seq(Issued)
      /\ completedErrorChunks \in Seq(Issued) /\ wire \in Seq(Issued)
      /\ Len(completedModuleChunks) \in Nat /\ Len(completedJSONChunks) \in Nat
      /\ Len(completedErrorChunks) \in Nat /\ Len(wire) \in Nat /\ nextChunkId \in Nat
      /\ pendingChunks = nextChunkId - Len(wire) /\ pendingChunks \in Nat
      /\ ended \in BOOLEAN
  BY QueuesNow DEF ServerInv, ServerTypeOK, ChunksExact
<1>2. PICK m \in 0..Len(completedModuleChunks), j \in 0..Len(completedJSONChunks),
           e \in 0..Len(completedErrorChunks) :
         /\ wire' = wire \o UpTo(completedModuleChunks, m) \o UpTo(completedJSONChunks, j)
                         \o UpTo(completedErrorChunks, e)
         /\ completedModuleChunks' = After(completedModuleChunks, m)
         /\ completedJSONChunks' = After(completedJSONChunks, j)
         /\ completedErrorChunks' = After(completedErrorChunks, e)
         /\ pendingChunks' = pendingChunks - m - j - e
         /\ flowing' \in BOOLEAN /\ ended' = (ended \/ pendingChunks' = 0)
  <2>1. PICK room, roomJSON, roomError, m, j, e :
           /\ room \in 0..pendingChunks
           /\ roomJSON = RoomAfter(completedModuleChunks, room)
           /\ roomError = RoomAfter(completedJSONChunks, roomJSON)
           /\ m = WrittenOf(completedModuleChunks, room)
           /\ j = WrittenOf(completedJSONChunks, roomJSON)
           /\ e = WrittenOf(completedErrorChunks, roomError)
           /\ wire' = wire \o UpTo(completedModuleChunks, m) \o UpTo(completedJSONChunks, j)
                           \o UpTo(completedErrorChunks, e)
           /\ completedModuleChunks' = After(completedModuleChunks, m)
           /\ completedJSONChunks' = After(completedJSONChunks, j)
           /\ completedErrorChunks' = After(completedErrorChunks, e)
           /\ pendingChunks' = ChunksLeft(pendingChunks, m, j, e)
           /\ flowing' = (m + j + e <= room)
           /\ ended' = (ended \/ AllWritten(pendingChunks'))
    BY Zenon DEF FlushCompletedChunks
  <2>2. room \in Nat /\ roomJSON \in Nat /\ roomError \in Nat
    <3>1. room \in Nat
      BY <1>1, <2>1
    <3>2. roomJSON \in Nat
      BY <1>1, <2>1, <3>1, WrittenIsOfQueue
    <3> QED
      BY <1>1, <2>1, <3>1, <3>2, WrittenIsOfQueue
  <2>3. /\ m \in 0..Len(completedModuleChunks) /\ j \in 0..Len(completedJSONChunks)
        /\ e \in 0..Len(completedErrorChunks)
    BY <1>1, <2>1, <2>2, WrittenIsOfQueue
  <2>4. /\ pendingChunks' = pendingChunks - m - j - e
        /\ flowing' \in BOOLEAN /\ ended' = (ended \/ pendingChunks' = 0)
    BY <2>1 DEF ChunksLeft, AllWritten
  <2> QED
    BY <2>1, <2>3, <2>4, Zenon
<1>3. \A q \in Seq(Issued) : \A n \in 0..Len(q) :
         /\ UpTo(q, n) \in Seq(Issued) /\ After(q, n) \in Seq(Issued)
         /\ Len(UpTo(q, n)) = n /\ Len(After(q, n)) = Len(q) - n
         /\ Range(q) = Range(UpTo(q, n)) \cup Range(After(q, n))
  BY SplitSeq DEF UpTo, After
<1>4. /\ \A x, y \in Seq(Issued) : /\ x \o y \in Seq(Issued)
                                   /\ Len(x \o y) = Len(x) + Len(y)
                                   /\ Range(x \o y) = Range(x) \cup Range(y)
      /\ \A x, y \in Seq(Issued) : \A i \in 1..Len(x) : (x \o y)[i] = x[i]
  BY ConcatProperties, RangeConcatenation
<1>5. PICK a \in Seq(Issued) :
         /\ a = UpTo(completedModuleChunks, m) /\ Len(a) = m
         /\ completedModuleChunks' \in Seq(Issued)
         /\ Len(completedModuleChunks') = Len(completedModuleChunks) - m
         /\ Range(completedModuleChunks) = Range(a) \cup Range(completedModuleChunks')
  BY <1>1, <1>2, <1>3, Zenon
<1>6. PICK b \in Seq(Issued) :
         /\ b = UpTo(completedJSONChunks, j) /\ Len(b) = j
         /\ completedJSONChunks' \in Seq(Issued)
         /\ Len(completedJSONChunks') = Len(completedJSONChunks) - j
         /\ Range(completedJSONChunks) = Range(b) \cup Range(completedJSONChunks')
  BY <1>1, <1>2, <1>3, Zenon
<1>7. PICK c \in Seq(Issued) :
         /\ c = UpTo(completedErrorChunks, e) /\ Len(c) = e
         /\ completedErrorChunks' \in Seq(Issued)
         /\ Len(completedErrorChunks') = Len(completedErrorChunks) - e
         /\ Range(completedErrorChunks) = Range(c) \cup Range(completedErrorChunks')
  BY <1>1, <1>2, <1>3, Zenon
<1>8. PICK w \in Seq(Issued) : /\ w = wire \o a /\ Len(w) = Len(wire) + Len(a)
                              /\ Range(w) = Range(wire) \cup Range(a)
                              /\ \A i \in 1..Len(wire) : w[i] = wire[i]
  <2>1. wire \in Seq(Issued)
    BY <1>1
  <2>2. /\ wire \o a \in Seq(Issued) /\ Len(wire \o a) = Len(wire) + Len(a)
        /\ Range(wire \o a) = Range(wire) \cup Range(a)
    BY <1>4, <2>1, Zenon
  <2>3. \A i \in 1..Len(wire) : (wire \o a)[i] = wire[i]
    BY <1>4, <2>1, Zenon
  <2> QED
    BY <2>2, <2>3, Zenon
<1>9. PICK x \in Seq(Issued) : /\ x = w \o b /\ Len(x) = Len(w) + Len(b)
                              /\ Range(x) = Range(w) \cup Range(b)
                              /\ \A i \in 1..Len(w) : x[i] = w[i]
  <2>1. /\ w \o b \in Seq(Issued) /\ Len(w \o b) = Len(w) + Len(b)
        /\ Range(w \o b) = Range(w) \cup Range(b)
    BY <1>4, Zenon
  <2>2. \A i \in 1..Len(w) : (w \o b)[i] = w[i]
    BY <1>4, Zenon
  <2> QED
    BY <2>1, <2>2, Zenon
<1>10. /\ wire' \in Seq(Issued) /\ Len(wire') = Len(x) + Len(c)
       /\ Range(wire') = Range(x) \cup Range(c)
       /\ \A i \in 1..Len(x) : wire'[i] = x[i]
  <2>1. wire' = x \o c
    BY <1>2, <1>5, <1>6, <1>7, <1>8, <1>9, Zenon
  <2> QED
    BY <1>4, <2>1, Zenon
<1>11. Len(wire') = Len(wire) + m + j + e
  BY <1>1, <1>2, <1>5, <1>6, <1>7, <1>8, <1>9, <1>10
<1>13. \A i \in 1..Len(wire) : wire'[i] = wire[i]
  <2>1. Len(wire) \in Nat /\ Len(a) \in Nat /\ Len(b) \in Nat
    BY <1>1, LenProperties
  <2>2. \A i \in 1..Len(wire) : i \in 1..Len(w) /\ i \in 1..Len(x)
    BY <1>8, <1>9, <2>1
  <2> QED
    BY <1>8, <1>9, <1>10, <2>2
<1>12. Range(completedModuleChunks') \cup Range(completedJSONChunks')
                \cup Range(completedErrorChunks') \cup Range(wire')
              = Range(completedModuleChunks) \cup Range(completedJSONChunks)
                \cup Range(completedErrorChunks) \cup Range(wire)
  BY <1>5, <1>6, <1>7, <1>8, <1>9, <1>10
<1>14. Len(completedModuleChunks') + Len(completedJSONChunks')
                + Len(completedErrorChunks') + Len(wire')
              = Len(completedModuleChunks) + Len(completedJSONChunks)
                + Len(completedErrorChunks) + Len(wire)
  BY <1>1, <1>5, <1>6, <1>7, <1>11
<1>15. pendingChunks' = nextChunkId - Len(wire') /\ Len(wire) <= Len(wire')
  BY <1>1, <1>2, <1>11
<1> QED
  BY <1>2, <1>5, <1>6, <1>7, <1>10, <1>12, <1>13, <1>14, <1>15, Zenon

LEMMA FlushKeeps ==
    ASSUME ServerInv, FlushCompletedChunks, working' \in BOOLEAN, piped' \in BOOLEAN,
           UNCHANGED <<chunk, nextChunkId, suspended, running, retries, pingedSegments, work,
                       scheduled>>
    PROVE  ServerTypeOK' /\ ChunksExact' /\ ChunkState' /\ EndState' /\ Grows
<1>1. Issued' = Issued /\ Issued \subseteq Chunks
  BY QueuesNow DEF ServerInv, Issued
<1>2. Exact /\ Lengths \in Nat /\ InHand \in Nat /\ Cardinality(suspended) \in Nat
  BY ExactNow, QueuesNow, SuspendedFinite DEF ServerInv, Lengths, InHand
<1>3. Places' = Places
  BY FlushFacts DEF Places, RangeOfAll
<1>4. /\ Len(completedModuleChunks') \in Nat /\ Len(completedJSONChunks') \in Nat
      /\ Len(completedErrorChunks') \in Nat /\ Len(wire') \in Nat
  BY FlushFacts, LenProperties
<1>5. Lengths' = Lengths
  <2>1. Len(completedModuleChunks') + Len(completedJSONChunks')
          + Len(completedErrorChunks') + Len(wire')
        = Len(completedModuleChunks) + Len(completedJSONChunks)
          + Len(completedErrorChunks) + Len(wire)
    BY FlushFacts
  <2>2. /\ Len(completedModuleChunks) \in Nat /\ Len(completedJSONChunks) \in Nat
        /\ Len(completedErrorChunks) \in Nat /\ Len(wire) \in Nat
        /\ Len(pingedSegments) \in Nat /\ Len(work) \in Nat
    BY QueuesNow DEF ServerInv
  <2>3. pingedSegments' = pingedSegments /\ work' = work
    OBVIOUS
  <2> QED
    BY <1>4, <2>1, <2>2, <2>3 DEF Lengths
<1>6. InHand' = InHand /\ Current' = Current /\ Cardinality(suspended') = Cardinality(suspended)
  BY DEF InHand, Current
<1>7. Exact'
  BY <1>1, <1>2, <1>3, <1>5, <1>6, FlushFacts DEF Exact
<1>8. pendingChunks' \in 0..MaxChunks
  <2>1. Lengths' \in Nat /\ Len(wire') <= Lengths'
    BY <1>4, QueuesNow DEF ServerInv, Lengths
  <2>2. Lengths' <= nextChunkId
    BY <1>2, <1>5, QueuesNow DEF ServerInv, Exact
  <2>3. nextChunkId \in 1..MaxChunks /\ MaxChunks \in Nat
    BY QueuesNow DEF ServerInv, ServerTypeOK
  <2> QED
    BY <1>4, <2>1, <2>2, <2>3, FlushFacts
<1>9. ServerTypeOK'
  BY <1>1, <1>8, FlushFacts DEF ServerInv, ServerTypeOK
<1>10. ChunksExact'
  BY <1>7, <1>9, ExactNext
<1>11. ChunkState'
  <2>1. Unrendered' = Unrendered
    BY DEF Unrendered, Current
  <2> QED
    BY <1>1, <2>1 DEF ServerInv, ChunkState
<1>12. EndState'
  <2>1. CASE ended
    <3>1. Len(wire) = nextChunkId
      BY <2>1, QueuesNow DEF ServerInv, EndState, ChunksExact
    <3>2. Len(wire') <= nextChunkId /\ pendingChunks' = nextChunkId - Len(wire')
      BY <1>4, <1>8, FlushFacts, QueuesNow DEF ServerInv
    <3>3. Len(wire) <= Len(wire')
      BY FlushFacts
    <3> QED
      BY <1>4, <3>1, <3>2, <3>3, QueuesNow DEF ServerInv, EndState
  <2> QED
    BY <2>1, FlushFacts DEF EndState
<1>13. Grows
  BY <1>1, FlushFacts DEF Grows
<1> QED
  BY <1>9, <1>10, <1>11, <1>12, <1>13

LEMMA FinishWorkKeeps ==
    ASSUME ServerInv, FinishWork
    PROVE  ServerInv' /\ Grows
<1>1. UNCHANGED <<chunk, nextChunkId, suspended, running, retries, pingedSegments, work,
                  scheduled, piped>>
  BY DEF FinishWork
<1>2. working' = FALSE /\ running = NoChunk /\ work = << >> /\ piped' \in BOOLEAN
  BY DEF FinishWork, ServerInv, ServerTypeOK
<1>3. CASE FlushCompletedChunks
  BY <1>1, <1>2, <1>3, FlushKeeps DEF ServerInv, WorkState
<1>4. CASE UNCHANGED <<pendingChunks, completedVars, flowing, ended, wire>>
  <2>1. Issued' = Issued /\ Unrendered' = Unrendered
    BY <1>1 DEF Issued, Unrendered, Current
  <2>2. ServerTypeOK' /\ ChunksExact'
    BY <1>1, <1>2, <1>4, <2>1
       DEF ServerInv, ServerTypeOK, ChunksExact, Queued, Current, completedVars
  <2>3. WorkState' /\ ChunkState' /\ EndState'
    BY <1>1, <1>2, <1>4, <2>1 DEF ServerInv, WorkState, ChunkState, EndState
  <2>4. Grows
    BY <1>1, <1>4, <2>1, QueuesNow DEF ServerInv, Grows
  <2> QED
    BY <2>2, <2>3, <2>4 DEF ServerInv
<1> QED
  BY <1>3, <1>4 DEF FinishWork

LEMMA StartFlowingKeeps ==
    ASSUME ServerInv, StartFlowing, piped' \in BOOLEAN
    PROVE  ServerInv' /\ Grows
<1>1. /\ UNCHANGED <<chunk, nextChunkId, suspended, running, retries, pingedSegments, work,
                     scheduled>>
      /\ FlushCompletedChunks /\ working' = working /\ working \in BOOLEAN
  BY DEF StartFlowing, taskVars, ServerInv, ServerTypeOK
<1> QED
  BY <1>1, FlushKeeps DEF ServerInv, WorkState

-----------------------------------------------------------------------------
(* What the server does leaves the client's invariant alone.               *)

ServerStep ==
    \/ Server \/ Pipe \/ Drain
    \/ \E c \in Chunks : PingSegment(c)

LEMMA ServerStepKeeps ==
    ASSUME ServerInv, ServerStep
    PROVE  ServerInv' /\ Grows /\ UNCHANGED clientVars
<1>1. CASE Render
  <2>1. UNCHANGED clientVars
    BY <1>1 DEF Render, ElementSuspends, ElementThrows, ReferToModule, ReferToSymbol, Refer,
                ReferAgain, FinishSegment, SegmentThrows, SuspendAgain
  <2>2. ServerInv' /\ Grows
    BY <1>1, ElementSuspendsKeeps, ElementThrowsKeeps, ReferToModuleKeeps,
       ReferToSymbolKeeps, ReferAgainKeeps, FinishSegmentKeeps, SegmentThrowsKeeps,
       SuspendAgainKeeps DEF Render
  <2> QED
    BY <2>1, <2>2
<1>2. CASE PerformWork
  BY <1>2, PerformWorkKeeps DEF PerformWork
<1>3. CASE RetrySegment
  BY <1>3, RetrySegmentKeeps DEF RetrySegment
<1>4. CASE FinishWork
  BY <1>4, FinishWorkKeeps DEF FinishWork
<1>5. CASE Pipe
  BY <1>5, StartFlowingKeeps DEF Pipe, StartFlowing
<1>6. CASE Drain
  BY <1>6, StartFlowingKeeps DEF Drain, StartFlowing, ServerInv, ServerTypeOK
<1>7. ASSUME NEW c \in Chunks, PingSegment(c)
      PROVE  ServerInv' /\ Grows /\ UNCHANGED clientVars
  BY <1>7, PingSegmentKeeps DEF PingSegment
<1> QED
  BY <1>1, <1>2, <1>3, <1>4, <1>5, <1>6, <1>7 DEF ServerStep, Server

LEMMA GrowsKeepsClient ==
    ASSUME Inv, ServerInv', Grows, UNCHANGED clientVars
    PROVE  ClientInv'
<1>1. /\ received' = received /\ connection' = connection /\ status' = status
      /\ listeners' = listeners /\ code' = code /\ reader' = reader /\ awaits' = awaits
  BY DEF clientVars, responseVars, readerVars
<1>2. /\ Issued \subseteq Issued' /\ Issued \subseteq Chunks
      /\ Len(wire) \in Nat /\ Len(wire') \in Nat /\ Len(wire) <= Len(wire')
      /\ \A i \in 1..Len(wire) : wire'[i] = wire[i]
      /\ received \in 0..Len(wire)
  <2>1. Len(wire') \in Nat
    BY LenProperties DEF ServerInv, ServerTypeOK
  <2> QED
    BY <2>1, QueuesNow DEF Inv, ServerInv, ClientInv, ClientTypeOK, Grows
<1>3. \A c \in Chunks : chunk[c].kind # "none" => c \in Issued
  BY DEF Inv, ServerInv, ChunkState, NewChunk
<1>4. \A c \in Issued : \A k \in {"error", "module", "symbol"} :
         chunk[c].kind = k => chunk'[c].kind = k
  BY DEF Grows
<1>5. ClientTypeOK'
  BY <1>1, <1>2 DEF Inv, ClientInv, ClientTypeOK
<1>6. ResponseState'
  <2>1. \A c \in Chunks : status[c] # "absent" => c \in Issued'
    BY <1>2 DEF Inv, ClientInv, ResponseState
  <2>2. \A c \in Chunks : reader[c] # "idle" => c \in Issued'
    BY <1>2 DEF Inv, ClientInv, ResponseState
  <2>3. connection = "open" =>
          \A c \in Chunks : status[c] \notin {"absent", "pending"} <=>
                             \E i \in 1..received : wire'[i] = c
    BY <1>2 DEF Inv, ClientInv, ResponseState
  <2>4. \A c \in Chunks : code[c] # "none" =>
          chunk'[c].kind = "module" /\ status[c] \notin {"absent", "pending"}
    BY <1>3, <1>4 DEF Inv, ClientInv, ResponseState
  <2> QED
    BY <1>1, <2>1, <2>2, <2>3, <2>4 DEF ResponseState
<1>7. ListenerState'
  BY <1>1 DEF Inv, ClientInv, ListenerState
<1>8. WaitersWake'
  <2>1. ASSUME NEW c \in Chunks, reader[c] = "waiting"
        PROVE  \/ status[awaits[c]] = "pending" /\ c \in listeners[awaits[c]]
               \/ Required(awaits[c], "loading")
               \/ chunk'[awaits[c]].kind = "symbol" /\ status[awaits[c]] = "initialized"
    BY <1>3, <1>4, <2>1 DEF Inv, ClientInv, WaitersWake, LostSymbol, ListenerState
  <2> QED
    BY <1>1, <2>1 DEF WaitersWake, LostSymbol, Required
<1>9. ErrorsAreReal'
  <2> SUFFICES ASSUME connection # "failed", NEW c \in Chunks
               PROVE  /\ status[c] = "errored" => chunk'[c].kind = "error"
                      /\ reader[c] = "error" =>
                           \E t \in chunk'[c].values \cup {c} :
                              chunk'[t].kind = "error" \/ code[t] = "failed"
    BY <1>1 DEF ErrorsAreReal
  <2>1. status[c] = "errored" => chunk'[c].kind = "error"
    BY <1>3, <1>4 DEF Inv, ClientInv, ErrorsAreReal
  <2>2. ASSUME reader[c] = "error"
        PROVE  \E t \in chunk'[c].values \cup {c} :
                   chunk'[t].kind = "error" \/ code[t] = "failed"
    <3>1. c \in Issued
      BY <2>2 DEF Inv, ClientInv, ResponseState
    <3>2. PICK t \in chunk[c].values \cup {c} : chunk[t].kind = "error" \/ code[t] = "failed"
      BY <2>2 DEF Inv, ClientInv, ErrorsAreReal
    <3>3. t \in Chunks
      BY <1>2, <3>2 DEF Inv, ServerInv, ChunkState
    <3>4. chunk'[t].kind = "error" \/ code[t] = "failed"
      BY <1>3, <1>4, <3>2, <3>3
    <3> QED
      BY <3>1, <3>2, <3>4 DEF Grows
  <2> QED
    BY <2>1, <2>2
<1> QED
  BY <1>5, <1>6, <1>7, <1>8, <1>9 DEF ClientInv

-----------------------------------------------------------------------------
(* What the client does.                                                   *)

Protocol ==
    \A c \in Chunks : status'[c] # status[c] => Rank(status'[c]) > Rank(status[c])

LEMMA ServerSame ==
    ASSUME ServerInv, UNCHANGED serverVars
    PROVE  ServerInv' /\ chunk' = chunk /\ wire' = wire /\ Issued' = Issued
<1>1. /\ UNCHANGED <<chunk, nextChunkId, pendingChunks, suspended, running, retries>>
      /\ UNCHANGED <<pingedSegments, work, working, scheduled>>
      /\ UNCHANGED <<completedModuleChunks, completedJSONChunks, completedErrorChunks>>
      /\ UNCHANGED <<piped, flowing, ended, wire>>
  BY DEF serverVars, renderVars, taskVars, completedVars, destinationVars
<1>2. Issued' = Issued /\ Queued' = Queued /\ Current' = Current /\ Unrendered' = Unrendered
  BY <1>1 DEF Issued, Queued, Current, Unrendered
<1>3. ServerTypeOK' /\ ChunksExact'
  BY <1>1, <1>2 DEF ServerInv, ServerTypeOK, ChunksExact
<1>4. WorkState' /\ ChunkState' /\ EndState'
  BY <1>1, <1>2 DEF ServerInv, WorkState, ChunkState, EndState
<1> QED
  BY <1>1, <1>2, <1>3, <1>4 DEF ServerInv

(* wakeChunk tells those who wait for the chunks of the set, and nobody    *)
(* else.                                                                   *)
LEMMA WakeFacts ==
    ASSUME Inv, NEW set \in SUBSET Chunks, WakeChunks(set),
           chunk' = chunk,
           \A t \in set : status[t] \in {"absent", "pending"},
           \A t \in Chunks \ set : status'[t] = status[t] /\ code'[t] = code[t]
    PROVE  /\ listeners' \in [Chunks -> SUBSET Chunks]
           /\ reader' \in [Chunks -> {"idle", "reading", "waiting", "done", "error"}]
           /\ awaits' \in [Chunks -> Chunks \cup {NoChunk}]
           /\ \A c \in Chunks : /\ reader'[c] # "idle" => reader[c] # "idle"
                                /\ reader'[c] = "error" => reader[c] = "error"
           /\ ListenerState' /\ WaitersWake'
<1>1. ClientTypeOK /\ ListenerState /\ WaitersWake
  BY DEF Inv, ClientInv
<1> DEFINE woken == UNION {listeners[c] : c \in set}
<1>2. /\ listeners' = [c \in Chunks |-> IF c \in set THEN {} ELSE listeners[c]]
      /\ reader' = [c \in Chunks |-> IF c \in woken THEN "reading" ELSE reader[c]]
      /\ awaits' = [c \in Chunks |-> IF c \in woken THEN NoChunk ELSE awaits[c]]
  BY DEF WakeChunks, Awake, NotWaiting
<1>3. \A d : d \in woken <=> \E t \in set : d \in listeners[t]
  OBVIOUS
<1>4. \A d \in woken : d \in Chunks /\ reader[d] = "waiting" /\ awaits[d] \in set
  BY <1>1, <1>3 DEF ClientTypeOK, ListenerState
<1> HIDE DEF woken
<1>5. /\ listeners' \in [Chunks -> SUBSET Chunks]
      /\ reader' \in [Chunks -> {"idle", "reading", "waiting", "done", "error"}]
      /\ awaits' \in [Chunks -> Chunks \cup {NoChunk}]
  BY <1>1, <1>2 DEF ClientTypeOK
<1>6. \A c \in Chunks : /\ reader'[c] # "idle" => reader[c] # "idle"
                        /\ reader'[c] = "error" => reader[c] = "error"
                        /\ reader'[c] = "waiting" =>
                              c \notin woken /\ reader[c] = "waiting" /\ awaits'[c] = awaits[c]
  BY <1>2, <1>4
<1>7. ListenerState'
  <2>1. ASSUME NEW t \in Chunks, NEW c \in listeners'[t]
        PROVE  status'[t] = "pending" /\ reader'[c] = "waiting" /\ awaits'[c] = t
    <3>1. t \notin set /\ c \in listeners[t] /\ c \in Chunks
      BY <1>1, <1>2 DEF ClientTypeOK
    <3>2. status[t] = "pending" /\ reader[c] = "waiting" /\ awaits[c] = t
      BY <1>1, <3>1 DEF ListenerState
    <3> QED
      BY <1>2, <1>4, <3>1, <3>2
  <2> QED
    BY <1>1, <1>6, <2>1 DEF ListenerState
<1>8. WaitersWake'
  <2>1. ASSUME NEW c \in Chunks, reader'[c] = "waiting"
        PROVE  \/ status'[awaits'[c]] = "pending" /\ c \in listeners'[awaits'[c]]
               \/ status'[awaits'[c]] = "module" /\ code'[awaits'[c]] = "loading"
               \/ /\ chunk'[awaits'[c]].kind = "symbol"
                  /\ status'[awaits'[c]] = "initialized"
    <3>1. PICK t \in Chunks : t = awaits[c] /\ t = awaits'[c] /\ reader[c] = "waiting"
      BY <1>1, <1>6, <2>1 DEF ListenerState
    <3>2. \/ status[t] = "pending" /\ c \in listeners[t]
          \/ status[t] = "module" /\ code[t] = "loading"
          \/ chunk[t].kind = "symbol" /\ status[t] = "initialized"
      <4>1. \/ status[awaits[c]] = "pending" /\ c \in listeners[awaits[c]]
            \/ status[awaits[c]] = "module" /\ code[awaits[c]] = "loading"
            \/ chunk[awaits[c]].kind = "symbol" /\ status[awaits[c]] = "initialized"
        BY <1>1, <3>1 DEF WaitersWake, Required, LostSymbol
      <4> QED
        BY <3>1, <4>1
    <3>3. t \notin set
      BY <1>3, <1>6, <2>1, <3>2
    <3> QED
      BY <1>2, <3>1, <3>2, <3>3
  <2> QED
    BY <2>1 DEF WaitersWake, Required, LostSymbol
<1> QED
  BY <1>5, <1>6, <1>7, <1>8

(* An error for every pending chunk                                        *)
LEMMA ReportFacts ==
    ASSUME Inv, ReportGlobalError, UNCHANGED <<serverVars, received, code>>,
           connection' \in {"closed", "failed"},
           connection' = "closed" => PendingChunks = {} /\ connection # "failed"
    PROVE  ClientInv' /\ Protocol
<1>1. chunk' = chunk /\ wire' = wire /\ Issued' = Issued
  BY ServerSame DEF Inv
<1>2. received' = received /\ code' = code /\ ClientTypeOK
  BY DEF Inv, ClientInv
<1>3. status' = [c \in Chunks |-> IF c \in PendingChunks THEN "errored" ELSE status[c]]
  BY DEF ReportGlobalError
<1>4. /\ PendingChunks \in SUBSET Chunks
      /\ \A t \in PendingChunks : status[t] \in {"absent", "pending"}
      /\ \A t \in Chunks \ PendingChunks : status'[t] = status[t] /\ code'[t] = code[t]
  BY <1>2, <1>3 DEF PendingChunks
<1>5. /\ listeners' \in [Chunks -> SUBSET Chunks]
      /\ reader' \in [Chunks -> {"idle", "reading", "waiting", "done", "error"}]
      /\ awaits' \in [Chunks -> Chunks \cup {NoChunk}]
      /\ \A c \in Chunks : /\ reader'[c] # "idle" => reader[c] # "idle"
                           /\ reader'[c] = "error" => reader[c] = "error"
      /\ ListenerState' /\ WaitersWake'
  BY <1>1, <1>4, WakeFacts DEF ReportGlobalError
<1>6. ClientTypeOK'
  BY <1>1, <1>2, <1>3, <1>5 DEF ClientTypeOK
<1>7. ResponseState'
  BY <1>1, <1>2, <1>3, <1>5 DEF Inv, ClientInv, ResponseState, PendingChunks
<1>8. ErrorsAreReal'
  BY <1>1, <1>2, <1>3, <1>5 DEF Inv, ClientInv, ErrorsAreReal
<1>9. Protocol
  BY <1>3 DEF Protocol, PendingChunks, Rank
<1> QED
  BY <1>5, <1>6, <1>7, <1>8, <1>9 DEF ClientInv

LEMMA ConnectionFailsKeeps ==
    ASSUME Inv, ConnectionFails
    PROVE  ClientInv' /\ Protocol
  BY ReportFacts DEF ConnectionFails

(* When the stream has ended and all of its rows were received, every      *)
(* chunk was resolved.                                                     *)
LEMMA CloseKeeps ==
    ASSUME Inv, Close
    PROVE  ClientInv' /\ Protocol
<1>1. Len(wire) = nextChunkId /\ nextChunkId \in Nat
  BY QueuesNow DEF Close, Inv, ServerInv, EndState, ChunksExact
<1>2. Range(wire) = Issued
  <2>1. Exact
    BY ExactNow DEF Inv, ServerInv
  <2>2. /\ Len(pingedSegments) = 0 /\ Len(work) = 0 /\ Len(completedModuleChunks) = 0
        /\ Len(completedJSONChunks) = 0 /\ Len(completedErrorChunks) = 0
        /\ Cardinality(suspended) = 0 /\ InHand = 0
    BY <1>1, <2>1, QueuesNow, SuspendedFinite DEF Inv, ServerInv, Exact, Lengths, InHand
  <2>3. /\ pingedSegments = << >> /\ work = << >> /\ completedModuleChunks = << >>
        /\ completedJSONChunks = << >> /\ completedErrorChunks = << >>
    BY <2>2, QueuesNow, EmptySeq DEF Inv, ServerInv
  <2>4. suspended = {} /\ Current = {}
    BY <2>2, SuspendedFinite, FS_EmptySet DEF Inv, ServerInv, InHand, Current
  <2> QED
    BY <2>1, <2>3, <2>4, RangeEmpty DEF Exact, Places, RangeOfAll
<1>3. \A c \in Issued : \E i \in 1..received : wire[i] = c
  <2>1. Range(wire) = {wire[i] : i \in 1..Len(wire)}
    BY LenProperties DEF Range, Inv, ServerInv, ServerTypeOK
  <2> QED
    BY <1>2, <2>1 DEF Close
<1>4. PendingChunks = {}
  BY <1>3 DEF PendingChunks, Close, Inv, ClientInv, ResponseState
<1> QED
  BY <1>4, ReportFacts DEF Close

(* processFullRow.  The row is the first of its chunk, so while the        *)
(* connection is open the chunk was not resolved.                          *)
LEMMA ProcessFullRowKeeps ==
    ASSUME Inv, ProcessFullRow
    PROVE  ClientInv' /\ Protocol
<1> DEFINE c == wire[received + 1]
<1>1. /\ chunk' = chunk /\ wire' = wire /\ Issued' = Issued
      /\ ClientTypeOK /\ ListenerState /\ WaitersWake /\ ResponseState /\ ErrorsAreReal
      /\ connection = "open" /\ connection' = "open"
      /\ received \in Nat /\ received < Len(wire) /\ received' = received + 1
      /\ Len(wire) \in Nat /\ Issued \subseteq Chunks
  BY ServerSame, QueuesNow DEF Inv, ServerInv, ClientInv, ClientTypeOK, ProcessFullRow
<1>2. c \in Issued /\ c \in Chunks
  BY <1>1, ElementOfSeq, QueuesNow DEF Inv, ServerInv
<1>3. status[c] \in {"absent", "pending"}
  <2>1. ~ \E i \in 1..received : wire[i] = c
    <3> SUFFICES ASSUME NEW i \in 1..received, wire[i] = wire[received + 1] PROVE FALSE
      OBVIOUS
    <3>1. i \in 1..Len(wire) /\ received + 1 \in 1..Len(wire) /\ i # received + 1
      BY <1>1
    <3> QED
      BY <3>1, RowsAreDistinct DEF Inv, ServerInv
  <2> QED
    BY <1>1, <1>2, <2>1 DEF ResponseState
<1>4. PICK how \in {"model", "module", "initialized", "errored"} :
         /\ status' = [status EXCEPT ![c] = how]
         /\ how = "errored" => chunk[c].kind = "error"
  BY <1>3 DEF ProcessFullRow, Resolve, ResolveSymbol
<1>5. /\ code' \in [Chunks -> {"none", "loading", "loaded", "failed"}]
      /\ \A t \in Chunks \ {c} : code'[t] = code[t]
      /\ code'[c] # "none" => chunk[c].kind = "module"
      /\ code[c] = "none" /\ code'[c] # "failed"
  <2>1. code[c] = "none"
    BY <1>1, <1>2, <1>3 DEF ResponseState
  <2>2. code' = code \/ (code' = [code EXCEPT ![c] = "loading"] /\ chunk[c].kind = "module")
    BY DEF ProcessFullRow, ResolveSymbol
  <2> QED
    BY <1>1, <1>2, <2>1, <2>2 DEF ClientTypeOK
<1>6. /\ \A t \in Chunks \ {c} : status'[t] = status[t]
      /\ status'[c] = how
      /\ status' \in [Chunks -> {"absent", "pending", "model", "module", "initialized",
                                 "errored"}]
  BY <1>1, <1>2, <1>4 DEF ClientTypeOK
<1>7. /\ listeners' \in [Chunks -> SUBSET Chunks]
      /\ reader' \in [Chunks -> {"idle", "reading", "waiting", "done", "error"}]
      /\ awaits' \in [Chunks -> Chunks \cup {NoChunk}]
      /\ \A d \in Chunks : /\ reader'[d] # "idle" => reader[d] # "idle"
                           /\ reader'[d] = "error" => reader[d] = "error"
      /\ ListenerState' /\ WaitersWake'
  <2>1. CASE WakeChunks({c})
    BY <1>1, <1>2, <1>3, <1>5, <1>6, <2>1, WakeFacts
  <2>2. CASE chunk[c].kind = "symbol" /\ ResolveSymbol(c)
    <3>1. /\ listeners' = [listeners EXCEPT ![c] = {}]
          /\ reader' = reader /\ awaits' = awaits /\ code' = code
          /\ status'[c] = "initialized"
      BY <1>1, <1>2, <2>2 DEF ResolveSymbol, readerVars, ClientTypeOK
    <3>2. ListenerState'
      BY <1>1, <1>2, <1>6, <3>1 DEF ListenerState, ClientTypeOK
    <3>3. WaitersWake'
      <4>1. ASSUME NEW d \in Chunks, reader[d] = "waiting"
            PROVE  \/ status'[awaits[d]] = "pending" /\ d \in listeners'[awaits[d]]
                   \/ status'[awaits[d]] = "module" /\ code[awaits[d]] = "loading"
                   \/ chunk[awaits[d]].kind = "symbol" /\ status'[awaits[d]] = "initialized"
        <5>1. awaits[d] \in Chunks
          BY <1>1, <4>1 DEF ListenerState
        <5>2. CASE awaits[d] = c
          BY <2>2, <3>1, <5>2
        <5>3. CASE awaits[d] # c
          <6>1. /\ status'[awaits[d]] = status[awaits[d]]
                /\ listeners'[awaits[d]] = listeners[awaits[d]]
            BY <1>1, <1>6, <3>1, <5>1, <5>3 DEF ClientTypeOK
          <6> QED
            BY <1>1, <4>1, <6>1 DEF WaitersWake, Required, LostSymbol
        <5> QED
          BY <5>2, <5>3
      <4> QED
        BY <1>1, <3>1, <4>1 DEF WaitersWake, Required, LostSymbol
    <3> QED
      BY <1>1, <3>1, <3>2, <3>3 DEF ClientTypeOK
  <2> QED
    BY <1>3, <2>1, <2>2 DEF ProcessFullRow, Resolve
<1> HIDE DEF c
<1>8. ClientTypeOK'
  BY <1>1, <1>5, <1>6, <1>7 DEF ClientTypeOK
<1>9. ResponseState'
  <2>1. ASSUME NEW d \in Chunks
        PROVE  status'[d] \notin {"absent", "pending"} <=> \E i \in 1..received' : wire[i] = d
    <3>1. CASE d = c
      <4>1. received + 1 \in 1..received' /\ wire[received + 1] = c
        BY <1>1 DEF c
      <4> QED
        BY <1>6, <3>1, <4>1
    <3>2. CASE d # c
      <4>1. \A i \in 1..received' : i \in 1..received \/ i = received + 1
        BY <1>1
      <4>2. \A i \in 1..received : i \in 1..received'
        BY <1>1
      <4>3. wire[received + 1] # d
        BY <3>2 DEF c
      <4> QED
        BY <1>1, <1>6, <3>2, <4>1, <4>2, <4>3 DEF ResponseState
    <3> QED
      BY <3>1, <3>2
  <2>2. \A d \in Chunks : status'[d] # "absent" => d \in Issued
    BY <1>1, <1>2, <1>6 DEF ResponseState
  <2>3. \A d \in Chunks : reader'[d] # "idle" => d \in Issued
    BY <1>1, <1>7 DEF ResponseState
  <2>4. \A d \in Chunks : code'[d] # "none" =>
          chunk[d].kind = "module" /\ status'[d] \notin {"absent", "pending"}
    BY <1>1, <1>5, <1>6 DEF ResponseState
  <2> QED
    BY <1>1, <2>1, <2>2, <2>3, <2>4 DEF ResponseState
<1>10. ErrorsAreReal'
  <2>1. \A d \in Chunks : status'[d] = "errored" => chunk[d].kind = "error"
    BY <1>1, <1>4, <1>6 DEF ErrorsAreReal
  <2>2. \A d \in Chunks : code[d] = "failed" => code'[d] = "failed"
    BY <1>5
  <2>3. ASSUME NEW d \in Chunks, reader'[d] = "error"
        PROVE  \E t \in chunk[d].values \cup {d} :
                   chunk[t].kind = "error" \/ code'[t] = "failed"
    <3>1. PICK t \in chunk[d].values \cup {d} : chunk[t].kind = "error" \/ code[t] = "failed"
      BY <1>1, <1>7, <2>3 DEF ErrorsAreReal
    <3>2. t \in Chunks
      BY <1>1, <3>1 DEF Inv, ServerInv, ChunkState
    <3> QED
      BY <2>2, <3>1, <3>2
  <2> QED
    BY <1>1, <2>1, <2>3 DEF ErrorsAreReal
<1>11. Protocol
  BY <1>3, <1>6 DEF Protocol, Rank
<1> QED
  BY <1>7, <1>8, <1>9, <1>10, <1>11 DEF ClientInv

(* What reading may do to the chunks: those that the client did not know   *)
(* become pending, those that it can read initialized.                     *)
StatusMap(map) ==
    /\ map \in [Chunks -> {"absent", "pending", "model", "module", "initialized", "errored"}]
    /\ \A t \in Chunks :
          \/ map[t] = status[t]
          \/ status[t] = "absent" /\ map[t] = "pending" /\ t \in Issued
          \/ (status[t] = "model" \/ Readable(t)) /\ map[t] = "initialized"

(* It takes nothing from those who wait.                                   *)
LEMMA StatusMapFacts ==
    ASSUME Inv, StatusMap(status')
    PROVE  /\ Protocol
           /\ \A t \in Chunks :
                 /\ status'[t] # "absent" => t \in Issued
                 /\ status'[t] \in {"absent", "pending"} <=> status[t] \in {"absent", "pending"}
                 /\ status[t] = "pending" => status'[t] = "pending"
                 /\ Required(t, "loading") => status'[t] = "module"
                 /\ status[t] = "initialized" => status'[t] = "initialized"
                 /\ status'[t] = "errored" => status[t] = "errored"
<1>1. \A t \in Chunks : status[t] # "absent" => t \in Issued
  BY DEF Inv, ClientInv, ResponseState
<1>2. Protocol
  BY DEF Protocol, Rank, StatusMap, Readable, Required
<1> QED
  BY <1>1, <1>2 DEF StatusMap, Readable, Required

(* The component has read the chunk.                                       *)
LEMMA DoneKeeps ==
    ASSUME Inv, NEW c \in Chunks, Reading(c), StatusMap(status'),
           NEW lazies \in SUBSET Issued, Done(c, lazies), UNCHANGED <<listeners, awaits>>
    PROVE  ClientInv' /\ Protocol
<1>1. /\ chunk' = chunk /\ wire' = wire /\ Issued' = Issued
      /\ received' = received /\ connection' = connection /\ code' = code
      /\ reader[c] = "reading"
      /\ ClientTypeOK /\ ListenerState /\ WaitersWake /\ ResponseState /\ ErrorsAreReal
  BY ServerSame DEF Inv, ClientInv, Reading
<1>2. /\ reader' \in [Chunks -> {"idle", "reading", "waiting", "done", "error"}]
      /\ \A d \in Chunks : /\ reader'[d] # "idle" => reader[d] # "idle" \/ d \in Issued
                           /\ reader'[d] = "waiting" <=> reader[d] = "waiting"
                           /\ reader'[d] = "error" => reader[d] = "error"
  BY <1>1 DEF Done, ClientTypeOK
<1>3. ClientTypeOK'
  BY <1>1, <1>2 DEF ClientTypeOK, StatusMap
<1>4. ResponseState'
  <2>1. \A d \in Chunks : status'[d] # "absent" => d \in Issued
    BY StatusMapFacts
  <2>2. \A d \in Chunks : status'[d] \in {"absent", "pending"}
                             <=> status[d] \in {"absent", "pending"}
    BY StatusMapFacts
  <2>3. \A d \in Chunks : reader'[d] # "idle" => d \in Issued
    BY <1>1, <1>2 DEF ResponseState
  <2> QED
    BY <1>1, <2>1, <2>2, <2>3 DEF ResponseState
<1>5. ListenerState'
  BY <1>1, <1>2, StatusMapFacts DEF ListenerState, ClientTypeOK
<1>6. WaitersWake'
  <2>1. ASSUME NEW d \in Chunks, reader'[d] = "waiting"
        PROVE  \/ status'[awaits[d]] = "pending" /\ d \in listeners[awaits[d]]
               \/ status'[awaits[d]] = "module" /\ code[awaits[d]] = "loading"
               \/ chunk[awaits[d]].kind = "symbol" /\ status'[awaits[d]] = "initialized"
    <3>1. reader[d] = "waiting" /\ awaits[d] \in Chunks
      BY <1>1, <1>2, <2>1 DEF ListenerState
    <3> QED
      BY <1>1, <3>1, StatusMapFacts DEF WaitersWake, Required, LostSymbol
  <2> QED
    BY <1>1, <2>1 DEF WaitersWake, Required, LostSymbol
<1>7. ErrorsAreReal'
  BY <1>1, <1>2, StatusMapFacts DEF ErrorsAreReal
<1> QED
  BY <1>3, <1>4, <1>5, <1>6, <1>7, StatusMapFacts DEF ClientInv

(* The component waits for chunk t, or fails with its error.               *)
LEMMA BlockedKeeps ==
    ASSUME Inv, NEW c \in Chunks, Reading(c), NEW map, StatusMap(map),
           NEW t \in chunk[c].values \cup {c}, Blocked(c, t, map)
    PROVE  ClientInv' /\ Protocol
<1>1. /\ chunk' = chunk /\ wire' = wire /\ Issued' = Issued
      /\ received' = received /\ connection' = connection /\ code' = code
      /\ reader[c] = "reading"
      /\ ClientTypeOK /\ ListenerState /\ WaitersWake /\ ResponseState /\ ErrorsAreReal
  BY ServerSame DEF Inv, ClientInv, Reading
<1>2. c \in Issued /\ t \in Issued /\ t \in Chunks
  <2>1. c \in Issued
    BY <1>1 DEF ResponseState
  <2>2. chunk[c].values \subseteq Issued /\ Issued \subseteq Chunks
    BY QueuesNow DEF Inv, ServerInv, ChunkState
  <2> QED
    BY <2>1, <2>2
<1>3. \A d \in Chunks : c \notin listeners[d]
  BY <1>1 DEF ListenerState
<1>4. StatusMap(status')
  <2>1. CASE status[t] \in {"absent", "pending"} /\ status' = [map EXCEPT ![t] = "pending"]
    BY <1>2, <2>1 DEF StatusMap
  <2>2. CASE status' = map
    BY <2>2
  <2> QED
    BY <2>1, <2>2 DEF Blocked
<1>5. /\ reader' \in [Chunks -> {"idle", "reading", "waiting", "done", "error"}]
      /\ awaits' \in [Chunks -> Chunks \cup {NoChunk}]
      /\ listeners' \in [Chunks -> SUBSET Chunks]
      /\ \A d \in Chunks \ {c} : reader'[d] = reader[d] /\ awaits'[d] = awaits[d]
      /\ \A d \in Chunks \ {t} : listeners'[d] = listeners[d]
      /\ listeners'[t] = listeners[t] \/ listeners'[t] = listeners[t] \cup {c}
  BY <1>1, <1>2 DEF Blocked, ClientTypeOK
<1>6. \/ /\ reader'[c] = "waiting" /\ awaits'[c] = t
         /\ c \in listeners'[t] /\ status'[t] = "pending"
      \/ /\ reader'[c] = "waiting" /\ awaits'[c] = t
         /\ listeners' = listeners /\ Required(t, "loading")
      \/ /\ reader'[c] = "error" /\ listeners' = listeners /\ Broken(t)
  <2>1. /\ DOMAIN reader = Chunks /\ DOMAIN awaits = Chunks /\ DOMAIN listeners = Chunks
        /\ DOMAIN map = Chunks
    BY <1>1 DEF ClientTypeOK, StatusMap
  <2> QED
    BY <1>2, <2>1 DEF Blocked
<1>7. ClientTypeOK'
  BY <1>1, <1>4, <1>5 DEF ClientTypeOK, StatusMap
<1>8. ResponseState'
  <2>1. \A d \in Chunks : status'[d] # "absent" => d \in Issued
    BY <1>4, StatusMapFacts
  <2>2. \A d \in Chunks : status'[d] \in {"absent", "pending"}
                             <=> status[d] \in {"absent", "pending"}
    BY <1>4, StatusMapFacts
  <2>3. \A d \in Chunks : reader'[d] # "idle" => d \in Issued
    BY <1>1, <1>2, <1>5 DEF ResponseState
  <2> QED
    BY <1>1, <2>1, <2>2, <2>3 DEF ResponseState
<1>9. ListenerState'
  <2>1. ASSUME NEW u \in Chunks, NEW d \in listeners'[u]
        PROVE  status'[u] = "pending" /\ reader'[d] = "waiting" /\ awaits'[d] = u
    <3>1. CASE d = c
      BY <1>3, <1>5, <1>6, <2>1, <3>1
    <3>2. CASE d # c
      <4>1. d \in listeners[u] /\ d \in Chunks
        BY <1>1, <1>5, <2>1, <3>2 DEF ClientTypeOK
      <4> QED
        BY <1>1, <1>4, <1>5, <3>2, <4>1, StatusMapFacts DEF ListenerState
    <3> QED
      BY <3>1, <3>2
  <2>2. \A d \in Chunks : reader'[d] = "waiting" => awaits'[d] \in Chunks
    BY <1>1, <1>2, <1>5, <1>6 DEF ListenerState
  <2> QED
    BY <1>5, <2>1, <2>2 DEF ListenerState
<1>10. WaitersWake'
  <2>1. ASSUME NEW d \in Chunks, reader'[d] = "waiting"
        PROVE  \/ status'[awaits'[d]] = "pending" /\ d \in listeners'[awaits'[d]]
               \/ status'[awaits'[d]] = "module" /\ code[awaits'[d]] = "loading"
               \/ chunk[awaits'[d]].kind = "symbol" /\ status'[awaits'[d]] = "initialized"
    <3>1. CASE d = c
      BY <1>2, <1>4, <1>6, <2>1, <3>1, StatusMapFacts DEF Required
    <3>2. CASE d # c
      <4>1. /\ reader[d] = "waiting" /\ awaits'[d] = awaits[d] /\ awaits[d] \in Chunks
            /\ listeners[awaits[d]] \subseteq listeners'[awaits[d]]
        BY <1>1, <1>5, <2>1, <3>2 DEF ListenerState
      <4> QED
        BY <1>1, <1>4, <4>1, StatusMapFacts DEF WaitersWake, Required, LostSymbol
    <3> QED
      BY <3>1, <3>2
  <2> QED
    BY <1>1, <2>1 DEF WaitersWake, Required, LostSymbol
<1>11. ErrorsAreReal'
  <2> SUFFICES ASSUME connection # "failed", NEW d \in Chunks
               PROVE  /\ status'[d] = "errored" => chunk[d].kind = "error"
                      /\ reader'[d] = "error" =>
                           \E u \in chunk[d].values \cup {d} :
                              chunk[u].kind = "error" \/ code[u] = "failed"
    BY <1>1 DEF ErrorsAreReal
  <2>1. status'[d] = "errored" => chunk[d].kind = "error"
    BY <1>1, <1>4, StatusMapFacts DEF ErrorsAreReal
  <2>2. ASSUME reader'[d] = "error"
        PROVE  \E u \in chunk[d].values \cup {d} :
                   chunk[u].kind = "error" \/ code[u] = "failed"
    <3>1. CASE d = c
      <4>1. Broken(t)
        BY <1>6, <2>2, <3>1
      <4>2. chunk[t].kind = "error" \/ code[t] = "failed"
        BY <1>1, <1>2, <4>1 DEF Broken, Required, ErrorsAreReal
      <4> QED
        BY <3>1, <4>2
    <3>2. CASE d # c
      BY <1>1, <1>5, <2>2, <3>2 DEF ErrorsAreReal
    <3> QED
      BY <3>1, <3>2
  <2> QED
    BY <2>1, <2>2
<1>12. Protocol
  BY <1>4, StatusMapFacts
<1> QED
  BY <1>7, <1>8, <1>9, <1>10, <1>11, <1>12 DEF ClientInv

LEMMA ReadChunkKeeps ==
    ASSUME Inv, NEW c \in Chunks, ReadChunk(c)
    PROVE  ClientInv' /\ Protocol
<1>1. /\ Reading(c) /\ ClientTypeOK
      /\ \A d \in Chunks : chunk[d].lazies \subseteq Issued
  BY DEF ReadChunk, Inv, ClientInv, ServerInv, ChunkState
<1>2. StatusMap(status)
  BY <1>1 DEF StatusMap, ClientTypeOK
<1>3. CASE Blocked(c, c, status)
  BY <1>1, <1>2, <1>3, BlockedKeeps
<1>4. CASE /\ Readable(c)
           /\ status' = [status EXCEPT ![c] = "initialized"] /\ UNCHANGED <<listeners, awaits>>
           /\ Done(c, IF chunk[c].kind = "model" THEN chunk[c].lazies ELSE {})
  <2>1. StatusMap(status')
    BY <1>1, <1>4 DEF StatusMap, ClientTypeOK
  <2>2. (IF chunk[c].kind = "model" THEN chunk[c].lazies ELSE {}) \in SUBSET Issued
    BY <1>1
  <2> QED
    BY <1>1, <1>4, <2>1, <2>2, DoneKeeps
<1> QED
  BY <1>3, <1>4 DEF ReadChunk

LEMMA InitializeModelChunkKeeps ==
    ASSUME Inv, NEW c \in Chunks, InitializeModelChunk(c)
    PROVE  ClientInv' /\ Protocol
<1> DEFINE values == chunk[c].values
           lazies == chunk[c].lazies
           blocking == {t \in values : ~Readable(t)}
<1>1. /\ Reading(c) /\ status[c] = "model" /\ ClientTypeOK
      /\ values \subseteq Issued /\ lazies \subseteq Issued /\ Issued \subseteq Chunks
  BY QueuesNow DEF InitializeModelChunk, Inv, ClientInv, ServerInv, ChunkState
<1>2. \A v \in SUBSET (values \ blocking), l \in SUBSET lazies : StatusMap(Touched(v, l))
  <2> SUFFICES ASSUME NEW v \in SUBSET (values \ blocking), NEW l \in SUBSET lazies
               PROVE  StatusMap(Touched(v, l))
    OBVIOUS
  <2>1. \A t \in v : Readable(t)
    OBVIOUS
  <2>2. \A t \in l : t \in Issued
    BY <1>1
  <2> QED
    BY <1>1, <2>1, <2>2 DEF StatusMap, Touched, ClientTypeOK
<1>3. CASE /\ blocking = {}
           /\ status' = [Touched(values, lazies) EXCEPT ![c] = "initialized"]
           /\ Done(c, lazies) /\ UNCHANGED <<listeners, awaits>>
  <2>1. StatusMap(Touched(values, lazies))
    BY <1>2, <1>3
  <2>2. StatusMap(status')
    BY <1>1, <1>3, <2>1 DEF StatusMap
  <2> QED
    BY <1>1, <1>3, <2>2, DoneKeeps
<1>4. CASE \E t \in blocking, v \in SUBSET (values \ blocking), l \in SUBSET lazies :
             Blocked(c, t, Touched(v, l))
  <2>1. PICK t \in blocking, v \in SUBSET (values \ blocking), l \in SUBSET lazies :
             Blocked(c, t, Touched(v, l))
    BY <1>4
  <2>2. t \in chunk[c].values \cup {c}
    OBVIOUS
  <2>3. StatusMap(Touched(v, l))
    BY <1>2
  <2> QED
    BY <1>1, <2>1, <2>2, <2>3, BlockedKeeps
<1> QED
  BY <1>3, <1>4 DEF InitializeModelChunk

LEMMA ReadRootKeeps ==
    ASSUME Inv, ReadRoot
    PROVE  ClientInv' /\ Protocol
<1>1. /\ chunk' = chunk /\ wire' = wire /\ Issued' = Issued
      /\ received' = received /\ connection' = connection /\ code' = code
      /\ status' = status /\ listeners' = listeners /\ awaits' = awaits
      /\ reader[RootChunk] = "idle" /\ reader' = [reader EXCEPT ![RootChunk] = "reading"]
      /\ ClientTypeOK /\ ListenerState /\ WaitersWake /\ ResponseState /\ ErrorsAreReal
  BY ServerSame DEF Inv, ClientInv, ReadRoot, responseVars
<1>2. RootChunk \in Issued /\ RootChunk \in Chunks
  BY QueuesNow DEF Inv, ServerInv, RootChunk, Issued, Chunks
<1>3. \A d \in Chunks : /\ reader'[d] # "idle" => reader[d] # "idle" \/ d \in Issued
                        /\ reader'[d] = "waiting" <=> reader[d] = "waiting"
                        /\ reader'[d] = "error" => reader[d] = "error"
  BY <1>1, <1>2 DEF ClientTypeOK
<1>4. ClientTypeOK'
  BY <1>1, <1>2 DEF ClientTypeOK
<1>5. ResponseState' /\ ListenerState'
  BY <1>1, <1>3 DEF ResponseState, ListenerState, ClientTypeOK
<1>6. WaitersWake' /\ ErrorsAreReal'
  BY <1>1, <1>3 DEF WaitersWake, Required, LostSymbol, ErrorsAreReal
<1>7. Protocol
  BY <1>1 DEF Protocol
<1> QED
  BY <1>4, <1>5, <1>6, <1>7 DEF ClientInv

LEMMA LoadModuleKeeps ==
    ASSUME Inv, NEW c \in Chunks, LoadModule(c)
    PROVE  ClientInv' /\ Protocol
<1> DEFINE woken == {d \in Chunks : reader[d] = "waiting" /\ awaits[d] = c}
<1>1. /\ chunk' = chunk /\ wire' = wire /\ Issued' = Issued
      /\ received' = received /\ connection' = connection
      /\ status' = status /\ listeners' = listeners /\ code[c] = "loading"
      /\ reader' = [d \in Chunks |-> IF d \in woken THEN "reading" ELSE reader[d]]
      /\ awaits' = [d \in Chunks |-> IF d \in woken THEN NoChunk ELSE awaits[d]]
      /\ ClientTypeOK /\ ListenerState /\ WaitersWake /\ ResponseState /\ ErrorsAreReal
  BY ServerSame DEF Inv, ClientInv, LoadModule, Awake, NotWaiting
<1>2. PICK how \in {"loaded", "failed"} : code' = [code EXCEPT ![c] = how]
  BY DEF LoadModule
<1>3. status[c] \notin {"absent", "pending"}
  BY <1>1 DEF ResponseState
<1>4. \A d \in Chunks : /\ reader'[d] # "idle" => reader[d] # "idle"
                        /\ reader'[d] = "error" => reader[d] = "error"
                        /\ reader'[d] = "waiting" =>
                              /\ reader[d] = "waiting" /\ awaits[d] # c
                              /\ awaits'[d] = awaits[d]
  BY <1>1
<1>5. \A t \in Chunks : \A d \in listeners[t] :
         d \in Chunks /\ reader'[d] = reader[d] /\ awaits'[d] = awaits[d]
  <2> SUFFICES ASSUME NEW t \in Chunks, NEW d \in listeners[t]
               PROVE  d \in Chunks /\ reader'[d] = reader[d] /\ awaits'[d] = awaits[d]
    OBVIOUS
  <2>1. d \in Chunks /\ awaits[d] = t /\ status[t] = "pending"
    BY <1>1 DEF ListenerState, ClientTypeOK
  <2> QED
    BY <1>1, <1>3, <2>1
<1> HIDE DEF woken
<1>6. ClientTypeOK'
  BY <1>1, <1>2 DEF ClientTypeOK
<1>7. ResponseState'
  BY <1>1, <1>2, <1>4 DEF ResponseState, ClientTypeOK
<1>8. ListenerState'
  BY <1>1, <1>4, <1>5 DEF ListenerState
<1>9. WaitersWake'
  <2>1. ASSUME NEW d \in Chunks, reader'[d] = "waiting"
        PROVE  \/ status[awaits'[d]] = "pending" /\ d \in listeners[awaits'[d]]
               \/ status[awaits'[d]] = "module" /\ code'[awaits'[d]] = "loading"
               \/ chunk[awaits'[d]].kind = "symbol" /\ status[awaits'[d]] = "initialized"
    <3>1. /\ awaits'[d] = awaits[d] /\ reader[d] = "waiting" /\ awaits[d] \in Chunks
          /\ code'[awaits[d]] = code[awaits[d]]
      BY <1>1, <1>2, <1>4, <2>1 DEF ListenerState, ClientTypeOK
    <3> QED
      BY <1>1, <3>1 DEF WaitersWake, Required, LostSymbol
  <2> QED
    BY <1>1, <2>1 DEF WaitersWake, Required, LostSymbol
<1>10. ErrorsAreReal'
  <2>1. \A t \in Chunks : code[t] = "failed" => code'[t] = "failed"
    BY <1>1, <1>2 DEF ClientTypeOK
  <2>2. ASSUME connection # "failed", NEW d \in Chunks, reader'[d] = "error"
        PROVE  \E t \in chunk[d].values \cup {d} :
                   chunk[t].kind = "error" \/ code'[t] = "failed"
    <3>1. PICK t \in chunk[d].values \cup {d} : chunk[t].kind = "error" \/ code[t] = "failed"
      BY <1>1, <1>4, <2>2 DEF ErrorsAreReal
    <3>2. t \in Chunks
      BY <3>1, QueuesNow DEF Inv, ServerInv, ChunkState
    <3> QED
      BY <2>1, <3>1, <3>2
  <2> QED
    BY <1>1, <2>2 DEF ErrorsAreReal
<1>11. Protocol
  BY <1>1 DEF Protocol
<1> QED
  BY <1>6, <1>7, <1>8, <1>9, <1>10, <1>11 DEF ClientInv

-----------------------------------------------------------------------------
(* The theorems.                                                           *)

LEMMA InitInv == ASSUME Init PROVE Inv
<1>1. /\ MaxChunks \in Nat \ {0} /\ nextChunkId = 1 /\ Issued = {0} /\ RootChunk \in Chunks
      /\ RootChunk = 0 /\ NoChunk = -1 /\ NoChunk \notin Issued
  BY FlightAssumption DEF Init, Issued, Chunks, RootChunk, NoChunk
<1>2. << >> \in Seq(Issued) /\ Len(<< >>) = 0 /\ Range(<< >>) = {}
  BY EmptySeq, RangeEmpty
<1>3. /\ pingedSegments \in Seq(Issued) /\ Len(pingedSegments) = 1
      /\ Range(pingedSegments) = {0} /\ pingedSegments # << >>
  <2>1. pingedSegments = <<0>>
    BY DEF Init, RootChunk
  <2> QED
    BY <1>1, <2>1 DEF Range
<1>4. ServerTypeOK
  <2>1. chunk \in [Chunks -> [kind : {"none", "model", "error", "module", "symbol"},
                             values : SUBSET Chunks, lazies : SUBSET Chunks]]
    BY DEF Init, NewChunk
  <2>2. /\ nextChunkId \in 1..MaxChunks /\ pendingChunks \in 0..MaxChunks
        /\ suspended \subseteq Issued /\ running \in Issued \cup {NoChunk}
        /\ scheduled \in 0..1 /\ working \in BOOLEAN /\ retries \in 0..MaxRetries
        /\ piped \in BOOLEAN /\ flowing \in BOOLEAN /\ ended \in BOOLEAN
    BY <1>1, FlightAssumption DEF Init
  <2>3. /\ work \in Seq(Issued) /\ completedModuleChunks \in Seq(Issued)
        /\ completedJSONChunks \in Seq(Issued) /\ completedErrorChunks \in Seq(Issued)
        /\ wire \in Seq(Issued)
    BY <1>2 DEF Init
  <2> QED
    BY <1>3, <2>1, <2>2, <2>3 DEF ServerTypeOK
<1>5. ChunksExact
  <2>1. Places = {0} /\ Lengths = 1
    BY <1>2, <1>3 DEF Init, Places, RangeOfAll, Lengths
  <2>2. suspended = {} /\ Cardinality(suspended) = 0 /\ Current = {} /\ InHand = 0
    BY FS_EmptySet DEF Init, Current, InHand
  <2>3. Exact
    BY <1>1, <1>2, <2>1, <2>2 DEF Init, Exact
  <2> QED
    BY <1>4, <2>3, ExactNow
<1>6. WorkState
  BY <1>3 DEF Init, WorkState
<1>7. ChunkState
  <2>1. Unrendered \subseteq {0}
    BY <1>2, <1>3 DEF Init, Unrendered, Current, ToSet, Range
  <2> QED
    BY <1>1, <2>1 DEF Init, ChunkState, NewChunk
<1>8. EndState
  BY DEF Init, EndState
<1>9. ClientInv
  BY <1>2 DEF Init, ClientInv, ClientTypeOK, ResponseState, ListenerState, WaitersWake,
              ErrorsAreReal
<1> QED
  BY <1>4, <1>5, <1>6, <1>7, <1>8, <1>9 DEF Inv, ServerInv

LEMMA NextInv == ASSUME Inv, [Next]_vars PROVE Inv' /\ Protocol
<1>1. CASE ServerStep
  <2>1. ServerInv' /\ Grows /\ UNCHANGED clientVars
    BY <1>1, ServerStepKeeps DEF Inv
  <2>2. ClientInv'
    BY <2>1, GrowsKeepsClient
  <2>3. Protocol
    BY <2>1 DEF Protocol, clientVars, responseVars
  <2> QED
    BY <2>1, <2>2, <2>3 DEF Inv
<1>2. ASSUME UNCHANGED serverVars, ClientInv', Protocol PROVE Inv' /\ Protocol
  BY <1>2, ServerSame DEF Inv
<1>3. CASE Receive
  BY <1>2, <1>3, ProcessFullRowKeeps, CloseKeeps DEF Receive, ProcessFullRow, Close
<1>4. CASE ConnectionFails
  BY <1>2, <1>4, ConnectionFailsKeeps DEF ConnectionFails
<1>5. CASE Read
  BY <1>2, <1>5, ReadChunkKeeps, InitializeModelChunkKeeps
     DEF Read, ReadChunk, InitializeModelChunk, Reading
<1>6. CASE ReadRoot
  BY <1>2, <1>6, ReadRootKeeps DEF ReadRoot
<1>7. CASE \E c \in Chunks : LoadModule(c)
  BY <1>2, <1>7, LoadModuleKeeps DEF LoadModule
<1>8. CASE UNCHANGED vars
  <2>1. UNCHANGED serverVars /\ UNCHANGED clientVars
    BY <1>8 DEF vars
  <2>2. ServerInv' /\ chunk' = chunk /\ wire' = wire /\ Issued' = Issued
    BY <2>1, ServerSame DEF Inv
  <2>3. Grows
    BY <2>2, QueuesNow DEF Grows, Inv, ServerInv
  <2>4. ClientInv'
    BY <2>1, <2>2, <2>3, GrowsKeepsClient
  <2> QED
    BY <2>1, <2>2, <2>4 DEF Inv, Protocol, clientVars, responseVars
<1> QED
  BY <1>1, <1>3, <1>4, <1>5, <1>6, <1>7, <1>8 DEF Next, ServerStep

THEOREM InductiveInvariant == Spec => []Inv
<1>1. Init => Inv
  BY InitInv
<1>2. Inv /\ [Next]_vars => Inv'
  BY NextInv
<1> QED
  BY <1>1, <1>2, PTL DEF Spec

(* The request, the response and the components only ever have the values  *)
(* that the code gives them.                                               *)
THEOREM TypeCorrect == Spec => []TypeOK
<1>1. Inv => TypeOK
  BY DEF Inv, ServerInv, ClientInv, TypeOK
<1> QED
  BY <1>1, InductiveInvariant, PTL

(* No row is lost or written twice, and pendingChunks counts those that    *)
(* were not written, so the stream ends at the last.                       *)
THEOREM ChunksAreExact == Spec => []ChunksExact
<1>1. Inv => ChunksExact
  BY DEF Inv, ServerInv
<1> QED
  BY <1>1, InductiveInvariant, PTL

(* A component that waits is among those that will be told, unless         *)
(* resolveSymbol forgot it.                                                *)
THEOREM WaitersAreTold == Spec => []WaitersWake
<1>1. Inv => WaitersWake
  BY DEF Inv, ClientInv
<1> QED
  BY <1>1, InductiveInvariant, PTL

(* The errors that the client reports happened: the end of the stream      *)
(* makes none.                                                             *)
THEOREM ErrorsHappened == Spec => []ErrorsAreReal
<1>1. Inv => ErrorsAreReal
  BY DEF Inv, ClientInv
<1> QED
  BY <1>1, InductiveInvariant, PTL

(* A chunk of the response is resolved at most once and stays so.          *)
THEOREM ChunksResolveOnce == Spec => ChunkProtocol
<1>1. Inv /\ [Next]_vars =>
         [\A c \in Chunks : status'[c] # status[c] => Rank(status'[c]) > Rank(status[c])]_vars
  BY NextInv DEF Protocol
<1> QED
  BY <1>1, InductiveInvariant, PTL DEF Spec, ChunkProtocol
=============================================================================
