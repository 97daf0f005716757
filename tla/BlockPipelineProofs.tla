------------------------ MODULE BlockPipelineProofs -------------------------
(***************************************************************************)
(* Theorems about BlockPipeline, for every value of its constants.         *)
(***************************************************************************)
EXTENDS BlockPipeline, FiniteSetTheorems, SequenceTheorems, TLAPS

-----------------------------------------------------------------------------
(* The sizes and ranges of the loops. *)

\* Rounding a batch size gives a natural number at every scale.
LEMMA RoundedSizeNat ==
  ASSUME NEW scale \in 0 .. 10
  PROVE  RoundedSize(scale) \in Nat
<1> DEFINE n == 2 * scale * BatchSize + 10
<1>1. BatchSize \in Nat
  BY ConstantsOK
<1>2. n \in Nat
  BY <1>1
<1>3. n \div 20 \in Nat
  <2> HIDE DEF n
  <2> QED BY <1>2
<1> QED BY <1>3 DEF RoundedSize

\* The batch of heights is never empty and always fits an empty queue's room
\* bound: it is at least one.
LEMMA ScaledBatchSizePos ==
  ASSUME NEW scale \in 0 .. 10
  PROVE  ScaledBatchSize(scale) \in Nat \ {0}
<1>1. RoundedSize(scale) \in Nat
  BY RoundedSizeNat
<1>2. Least(MINIMUM_BATCH_SIZE, MaxSize) \in Nat \ {0}
  BY ConstantsOK DEF Least, MINIMUM_BATCH_SIZE, MaxSize
<1> QED BY <1>1, <1>2 DEF ScaledBatchSize

LEMMA MaxSizeNat == MaxSize \in Nat
BY ConstantsOK DEF MaxSize

\* lodash's range over natural bounds is a sequence of naturals, of as many
\* members as the bounds are apart.
LEMMA LodashRangeSeq ==
  ASSUME NEW a \in Nat, NEW b \in Nat
  PROVE  /\ LodashRange(a, b) \in Seq(Nat)
         /\ Len(LodashRange(a, b)) = IF a <= b THEN b - a ELSE a - b
<1>1. CASE a <= b
  <2>1. LodashRange(a, b) = [i \in 1 .. (b - a) |-> a + i - 1]
    BY <1>1 DEF LodashRange
  <2>2. b - a \in Nat
    BY <1>1
  <2>3. \A i \in 1 .. (b - a) : a + i - 1 \in Nat
    OBVIOUS
  <2> QED BY <1>1, <2>1, <2>2, <2>3
<1>2. CASE ~ (a <= b)
  <2>1. LodashRange(a, b) = [i \in 1 .. (a - b) |-> a - i + 1]
    BY <1>2 DEF LodashRange
  <2>2. a - b \in Nat
    BY <1>2
  <2>3. \A i \in 1 .. (a - b) : a - i + 1 \in Nat
    BY <1>2
  <2> QED BY <1>2, <2>1, <2>2, <2>3
<1> QED BY <1>1, <1>2

\* The matches of an interval are a finite set of naturals.
LEMMA NeededInFinite ==
  ASSUME NEW lo \in Nat, NEW hi \in Nat, NEW ds \in BOOLEAN
  PROVE  /\ IsFiniteSet(NeededIn(lo, hi, ds))
         /\ Cardinality(NeededIn(lo, hi, ds)) \in Nat
         /\ NeededIn(lo, hi, ds) \subseteq Nat
<1>1. IsFiniteSet(lo .. hi)
  BY FS_Interval
<1>2. NeededIn(lo, hi, ds) \subseteq lo .. hi
  BY DEF NeededIn
<1>3. IsFiniteSet(NeededIn(lo, hi, ds))
  BY <1>1, <1>2, FS_Subset
<1> QED BY <1>2, <1>3, FS_CardinalityType

\* A function from 1..n is a sequence of length n.
LEMMA EnumerationSeq ==
  ASSUME NEW n \in Nat, NEW S, S \subseteq Nat, NEW f \in [1 .. n -> S]
  PROVE  f \in Seq(Nat) /\ Len(f) = n
<1>1. f \in [1 .. n -> Nat]
  OBVIOUS
<1>2. f \in Seq(Nat)
  BY <1>1, SeqDef
<1>3. Len(f) = n
  BY <1>1, <1>2, LenProperties
<1> QED BY <1>2, <1>3

\* A batch that enumerates a non-empty set of matches is a non-empty sequence
\* of naturals.
LEMMA BatchSeq ==
  ASSUME NEW lo \in Nat, NEW hi \in Nat, NEW ds \in BOOLEAN,
         NeededIn(lo, hi, ds) # {},
         NEW batch \in [1 .. Cardinality(NeededIn(lo, hi, ds)) -> NeededIn(lo, hi, ds)]
  PROVE  /\ batch \in Seq(Nat)
         /\ Len(batch) = Cardinality(NeededIn(lo, hi, ds))
         /\ Len(batch) \in Nat \ {0}
         /\ batch[Len(batch)] \in NeededIn(lo, hi, ds)
<1> DEFINE S == NeededIn(lo, hi, ds)
<1>1. IsFiniteSet(S) /\ Cardinality(S) \in Nat /\ S \subseteq Nat
  BY NeededInFinite
<1>2. Cardinality(S) # 0
  BY <1>1, FS_EmptySet
<1> HIDE DEF S
<1>3. batch \in [1 .. Cardinality(S) -> S]
  BY DEF S
<1>4. batch \in Seq(Nat) /\ Len(batch) = Cardinality(S)
  BY <1>1, <1>3, EnumerationSeq
<1>5. batch[Len(batch)] \in S
  <2>1. Len(batch) \in 1 .. Cardinality(S)
    BY <1>1, <1>2, <1>4
  <2> QED BY <2>1, <1>3
<1> QED BY <1>1, <1>2, <1>4, <1>5 DEF S

\* takeAll splits a queue in two: nothing is lost, doubled or reordered.
LEMMA TakenRest ==
  ASSUME NEW q \in Seq(Nat), NEW max \in Nat
  PROVE  /\ Taken(q, max) \in Seq(Nat) /\ Rest(q, max) \in Seq(Nat)
         /\ Len(Taken(q, max)) <= max
         /\ Len(Taken(q, max)) + Len(Rest(q, max)) = Len(q)
         /\ Taken(q, max) \o Rest(q, max) = q
<1> DEFINE n == Least(max, Len(q))
           s == SubSeq(q, 1, n)
           t == SubSeq(q, n + 1, Len(q))
<1>1. Len(q) \in Nat /\ q \in [1 .. Len(q) -> Nat]
  BY LenProperties
<1>2. n \in Nat /\ n <= max /\ n <= Len(q)
  BY <1>1 DEF Least
<1>3. Taken(q, max) = s /\ Rest(q, max) = t
  BY DEF Taken, Rest
<1> HIDE DEF n
<1>4. s \in Seq(Nat) /\ Len(s) = IF 1 <= n THEN n - 1 + 1 ELSE 0
  <2>1. \A i \in 1 .. n : q[i] \in Nat
    BY <1>1, <1>2
  <2> QED BY <1>2, <2>1, SubSeqProperties
<1>5. t \in Seq(Nat) /\ Len(t) = IF n + 1 <= Len(q) THEN Len(q) - (n + 1) + 1 ELSE 0
  <2>1. \A i \in n + 1 .. Len(q) : q[i] \in Nat
    BY <1>1, <1>2
  <2>2. n + 1 \in Int /\ Len(q) \in Int
    BY <1>1, <1>2
  <2> QED BY <2>1, <2>2, SubSeqProperties
<1>6. s \o t = q
  <2>1. s \o t = SubSeq(q, 1, Len(q))
    <3>1. 1 \in 1 .. Len(q) + 1 /\ n \in 1 - 1 .. Len(q) /\ Len(q) \in n .. Len(q)
      BY <1>1, <1>2
    <3> QED BY <3>1, ConcatAdjacentSubSeq
  <2> QED BY <2>1, SubSeqFull
<1> HIDE DEF s, t
<1>7. Len(s) = n /\ Len(t) = Len(q) - n
  <2> DEFINE l == Len(q)
             ls == Len(s)
             lt == Len(t)
  <2>1. l \in Nat /\ n \in Nat /\ n <= l
    BY <1>1, <1>2
  <2>2. ls = IF 1 <= n THEN n - 1 + 1 ELSE 0
    BY <1>4
  <2>3. lt = IF n + 1 <= l THEN l - (n + 1) + 1 ELSE 0
    BY <1>5
  <2> HIDE DEF l, ls, lt
  <2>4. ls = n /\ lt = l - n
    BY <2>1, <2>2, <2>3
  <2> QED BY <2>4 DEF l, ls, lt
<1>8. Len(s) <= max /\ Len(s) + Len(t) = Len(q)
  BY <1>1, <1>2, <1>7
<1> QED BY <1>3, <1>4, <1>5, <1>6, <1>8

LEMMA EmptyQueue == <<>> \in Seq(Nat) /\ Len(<<>>) = 0
BY EmptySeq

LEMMA IdleTypes ==
  /\ NoQuery \in [start : Nat, size : Nat, ds : BOOLEAN]
  /\ NoFetch \in [blocks : Seq(Nat), bufferedHeight : Nat]
  /\ NoFetch.blocks = <<>>
  /\ NoBlock \in [height : Nat, newDs : BOOLEAN]
BY EmptyQueue DEF NoQuery, NoFetch, NoBlock

-----------------------------------------------------------------------------
(* Type correctness. *)

\* TypeOK alone is not inductive: that the end of a range is a natural number
\* needs its start and its size to be positive, and that a batch is cut from the
\* number queue needs the room of the block queue not to be negative.
TypeInv ==
  /\ TypeOK
  /\ BlocksFit
  /\ up => initBlockHeight >= 1
  /\ query # NoQuery => query.start >= 1 /\ query.size >= 1

\* The start of the next batch is a positive height while the process runs.
LEMMA StartHeightPos ==
  ASSUME TypeInv, up
  PROVE  GetStartBlockHeight \in Nat \ {0}
BY DEF TypeInv, TypeOK, GetStartBlockHeight

\* Filling by range keeps the number queue a sequence of heights.
LEMMA PutRangeType ==
  ASSUME TypeOK, NEW start \in Nat \ {0}, NEW size \in Nat \ {0}, PutRange(start, size)
  PROVE  /\ blockNumberBuffer' \in Seq(Nat)
         /\ latestBufferedHeight' \in Nat
<1> DEFINE end == NextEndBlockHeight(start, size)
<1>1. end \in Nat
  BY DEF TypeOK, NextEndBlockHeight
<1>2. LodashRange(start, end + 1) \in Seq(Nat)
  BY <1>1, LodashRangeSeq
<1>3. /\ blockNumberBuffer' = blockNumberBuffer \o LodashRange(start, end + 1)
      /\ latestBufferedHeight' = end
  BY DEF PutRange, PutAll
<1>4. blockNumberBuffer \in Seq(Nat)
  BY DEF TypeOK
<1> HIDE DEF end
<1> QED BY <1>1, <1>2, <1>3, <1>4, ConcatProperties

LEMMA TypeInvInit == Init => TypeInv
<1> SUFFICES ASSUME Init PROVE TypeInv
  OBVIOUS
<1>1. TypeOK
  <2>1. /\ blockNumberBuffer \in Seq(Nat) /\ blockBuffer \in Seq(Nat)
        /\ query \in [start : Nat, size : Nat, ds : BOOLEAN]
        /\ fetching \in [blocks : Seq(Nat), bufferedHeight : Nat]
        /\ indexing \in [height : Nat, newDs : BOOLEAN]
    BY EmptyQueue, IdleTypes DEF Init
  <2>2. /\ chainHeight \in Nat /\ lastProcessedHeight \in Nat
        /\ initBlockHeight \in Nat /\ latestFinalizedHeight \in Nat
        /\ batchSizeScale \in 0 .. 10 /\ latestBufferedHeight \in Nat
    BY ConstantsOK DEF Init
  <2>3. /\ dsStored \in BOOLEAN /\ up \in BOOLEAN
        /\ dictionaryOn \in BOOLEAN /\ dsLoaded \in BOOLEAN
    BY Zenon DEF Init
  <2> QED BY <2>1, <2>2, <2>3 DEF TypeOK
<1>2. BlocksFit
  <2>1. blockBuffer = <<>> /\ fetching.blocks = <<>>
    BY DEF Init, NoFetch
  <2> QED BY <2>1, EmptyQueue, MaxSizeNat DEF BlocksFit
<1> QED BY <1>1, <1>2 DEF Init, TypeInv

\* One step of the next-state relation keeps TypeInv.
LEMMA TypeInvStep == TypeInv /\ [Next]_vars => TypeInv'
<1> SUFFICES ASSUME TypeInv, [Next]_vars PROVE TypeInv'
  OBVIOUS
<1> USE DEF TypeInv, TypeOK, BlocksFit, durable, control, queues, sources
<1>1. CASE ChainGrows
  BY <1>1 DEF ChainGrows
<1>2. CASE GetLatestBlockHead
  BY <1>2 DEF GetLatestBlockHead, ReportedHeads
<1>3. CASE CheckBatchScale
  BY <1>3 DEF CheckBatchScale
<1>4. CASE FillByRange
  <2>1. GetStartBlockHeight \in Nat \ {0}
    BY <1>4, StartHeightPos DEF FillByRange, CanFill
  <2>2. ScaledBatchSize(batchSizeScale) \in Nat \ {0}
    BY ScaledBatchSizePos
  <2>3. PutRange(GetStartBlockHeight, ScaledBatchSize(batchSizeScale))
    BY <1>4 DEF FillByRange
  <2>4. blockNumberBuffer' \in Seq(Nat) /\ latestBufferedHeight' \in Nat
    BY <2>1, <2>2, <2>3, PutRangeType
  <2> QED BY <1>4, <2>4 DEF FillByRange
<1>5. CASE QueryDictionary
  <2>1. GetStartBlockHeight \in Nat \ {0}
    BY <1>5, StartHeightPos DEF QueryDictionary, CanFill
  <2>2. ScaledBatchSize(batchSizeScale) \in Nat \ {0}
    BY ScaledBatchSizePos
  <2> QED BY <1>5, <2>1, <2>2 DEF QueryDictionary
<1>6. CASE DiscardDictionary
  BY <1>6 DEF DiscardDictionary, NoQuery
<1>7. CASE DictionaryEmpty
  <2>1. latestBufferedHeight' \in Nat
    BY <1>7, ConstantsOK DEF DictionaryEmpty, AnswerArrives, Horizon, Least
  <2> QED BY <1>7, <2>1 DEF DictionaryEmpty, AnswerArrives, NoQuery
<1>8. CASE DictionaryMatches
  <2>1. PICK last \in query.start .. Least(query.start + QuerySize - 1, chainHeight) :
          LET found == NeededIn(query.start, last, query.ds)
          IN  /\ last \in found
              /\ \E batch \in [1 .. Cardinality(found) -> found] :
                   /\ Lists(batch, found)
                   /\ DictionaryBatch(batch) \/ DictionaryOverflow(batch)
    BY <1>8 DEF DictionaryMatches
  <2> DEFINE found == NeededIn(query.start, last, query.ds)
  <2>2. PICK batch \in [1 .. Cardinality(found) -> found] :
          DictionaryBatch(batch) \/ DictionaryOverflow(batch)
    BY <2>1
  <2>3. last \in Nat /\ query.start \in Nat /\ query.ds \in BOOLEAN /\ found # {}
    BY <2>1
  <2>4. batch \in Seq(Nat) /\ Len(batch) \in Nat \ {0} /\ batch[Len(batch)] \in Nat
    BY <2>2, <2>3, BatchSeq, NeededInFinite
  <2>5. blockNumberBuffer' \in Seq(Nat) /\ latestBufferedHeight' \in Nat
    <3>1. CASE DictionaryBatch(batch)
      BY <3>1, <2>4, ConcatProperties DEF DictionaryBatch, PutAll
    <3>2. CASE DictionaryOverflow(batch)
      <4>1. query.start \in Nat \ {0} /\ query.size \in Nat \ {0}
        BY <1>8 DEF DictionaryMatches, AnswerArrives
      <4> QED BY <3>2, <4>1, PutRangeType DEF DictionaryOverflow
    <3> QED BY <2>2, <3>1, <3>2
  <2> QED BY <1>8, <2>5 DEF DictionaryMatches, AnswerArrives, NoQuery
<1>9. CASE DictionaryFails
  <2>1. query.start \in Nat \ {0} /\ query.size \in Nat \ {0}
    BY <1>9 DEF DictionaryFails, AnswerArrives
  <2>2. blockNumberBuffer' \in Seq(Nat) /\ latestBufferedHeight' \in Nat
    BY <1>9, <2>1, PutRangeType DEF DictionaryFails
  <2> QED BY <1>9, <2>2 DEF DictionaryFails, AnswerArrives, NoQuery
<1>10. CASE TakeNumbers
  <2>1. TakeCount \in Nat /\ TakeCount + Len(blockBuffer) <= MaxSize
    <3>1. RoundedSize(batchSizeScale) \in Nat
      BY RoundedSizeNat
    <3>2. Len(blockBuffer) \in Nat /\ Len(fetching.blocks) \in Nat
      BY LenProperties
    <3> QED BY <3>1, <3>2, MaxSizeNat DEF TakeCount, FreeSize, Least
  <2>2. /\ Taken(blockNumberBuffer, TakeCount) \in Seq(Nat)
        /\ Rest(blockNumberBuffer, TakeCount) \in Seq(Nat)
        /\ Len(Taken(blockNumberBuffer, TakeCount)) <= TakeCount
    BY <2>1, TakenRest
  <2>3. TypeOK'
    BY <1>10, <2>2 DEF TakeNumbers
  <2>4. BlocksFit'
    <3>1. Len(Taken(blockNumberBuffer, TakeCount)) \in Nat /\ Len(blockBuffer) \in Nat
      BY <2>2, LenProperties
    <3> QED BY <1>10, <2>1, <2>2, <3>1, MaxSizeNat DEF TakeNumbers
  <2> QED BY <1>10, <2>3, <2>4 DEF TakeNumbers
<1>11. CASE BlocksArrive
  <2>1. /\ blockBuffer' \in Seq(Nat)
        /\ Len(blockBuffer') = Len(blockBuffer) + Len(fetching.blocks)
    BY <1>11, ConcatProperties DEF BlocksArrive, PutAll
  <2> QED BY <1>11, <2>1, EmptyQueue DEF BlocksArrive, NoFetch
<1>12. CASE BlocksDiscarded
  BY <1>12, EmptyQueue, LenProperties, MaxSizeNat DEF BlocksDiscarded, NoFetch
<1>13. CASE TakeBlock
  <2>1. /\ Head(blockBuffer) \in Nat /\ Tail(blockBuffer) \in Seq(Nat)
        /\ Len(Tail(blockBuffer)) = Len(blockBuffer) - 1
    BY <1>13, HeadTailProperties DEF TakeBlock
  <2>2. Len(blockBuffer) \in Nat /\ Len(fetching.blocks) \in Nat
    BY LenProperties
  <2> QED BY <1>13, <2>1, <2>2, MaxSizeNat DEF TakeBlock
<1>14. CASE CreateDynamicDatasource
  <2>1. Len(blockBuffer) \in Nat /\ Len(fetching.blocks) \in Nat
    BY LenProperties
  <2>2. TypeOK'
    BY <1>14, ConstantsOK, EmptyQueue DEF CreateDynamicDatasource
  <2>3. BlocksFit'
    <3>1. blockBuffer' = <<>> /\ fetching' = fetching
      BY <1>14 DEF CreateDynamicDatasource
    <3>2. Len(blockBuffer') = 0
      BY <3>1, EmptyQueue
    <3> QED BY <3>1, <3>2, <2>1, MaxSizeNat
  <2> QED BY <1>14, <2>2, <2>3 DEF CreateDynamicDatasource
<1>15. CASE CommitBlock
  BY <1>15 DEF CommitBlock, NoBlock
<1>16. CASE Exit
  <2>1. TypeOK'
    <3>1. /\ blockNumberBuffer' \in Seq(Nat) /\ blockBuffer' \in Seq(Nat)
          /\ query' \in [start : Nat, size : Nat, ds : BOOLEAN]
          /\ fetching' \in [blocks : Seq(Nat), bufferedHeight : Nat]
          /\ indexing' \in [height : Nat, newDs : BOOLEAN]
      BY <1>16, EmptyQueue, IdleTypes DEF Exit
    <3>2. /\ initBlockHeight' \in Nat /\ latestFinalizedHeight' \in Nat
          /\ batchSizeScale' \in 0 .. 10 /\ latestBufferedHeight' \in Nat
      BY <1>16 DEF Exit
    <3>3. up' \in BOOLEAN /\ dictionaryOn' \in BOOLEAN /\ dsLoaded' \in BOOLEAN
      BY <1>16, Zenon DEF Exit
    <3>4. /\ chainHeight' \in Nat /\ lastProcessedHeight' \in Nat
          /\ dsStored' \in BOOLEAN
      BY <1>16, Zenon DEF Exit
    <3> QED BY <3>1, <3>2, <3>3, <3>4
  <2>2. BlocksFit'
    <3>1. Len(blockBuffer') = 0 /\ Len(fetching'.blocks) = 0
      BY <1>16, EmptyQueue DEF Exit, NoFetch
    <3> QED BY <3>1, MaxSizeNat
  <2> QED BY <1>16, <2>1, <2>2 DEF Exit
<1>17. CASE Start
  <2>1. initBlockHeight' \in Nat \ {0}
    BY <1>17, ConstantsOK DEF Start, GetStartHeight
  <2>2. latestFinalizedHeight' \in Nat
    BY <1>17 DEF Start, ReportedHeads
  <2> QED BY <1>17, <2>1, <2>2, ConstantsOK DEF Start
<1>18. CASE UNCHANGED vars
  BY <1>18 DEF vars
<1> QED
  BY <1>1, <1>2, <1>3, <1>4, <1>5, <1>6, <1>7, <1>8, <1>9, <1>10, <1>11, <1>12,
     <1>13, <1>14, <1>15, <1>16, <1>17, <1>18
  DEF Next, Fill, Fetch, IndexStep, FetchFails, IndexFails, Crash

\* Every variable keeps the shape its code gives it, whatever the batch size,
\* the data sources and the dictionary, through resets, exits and restarts.
THEOREM TypeCorrect == Spec => []TypeOK
<1>1. TypeInv => TypeOK
  BY DEF TypeInv
<1> QED BY <1>1, TypeInvInit, TypeInvStep, PTL DEF Spec

-----------------------------------------------------------------------------
(* The queues never overflow. *)

\* A process that is down has nothing under way.
Idle ==
  /\ latestBufferedHeight = 0 /\ blockNumberBuffer = <<>> /\ blockBuffer = <<>>
  /\ query = NoQuery /\ fetching = NoFetch /\ indexing = NoBlock
DownIdle == ~ up => Idle

LEMMA DownIdleStep == DownIdle /\ [Next]_vars => DownIdle'
<1> SUFFICES ASSUME DownIdle, [Next]_vars PROVE DownIdle'
  OBVIOUS
<1> USE DEF DownIdle, Idle, durable, control, queues, sources
<1>1. CASE ChainGrows
  BY <1>1 DEF ChainGrows
<1>2. CASE GetLatestBlockHead \/ CheckBatchScale
  BY <1>2 DEF GetLatestBlockHead, CheckBatchScale
<1>3. CASE Fill
  BY <1>3 DEF Fill, FillByRange, QueryDictionary, DiscardDictionary, DictionaryEmpty,
              DictionaryMatches, DictionaryFails, CanFill, AnswerArrives
<1>4. CASE Fetch
  BY <1>4 DEF Fetch, TakeNumbers, BlocksArrive, BlocksDiscarded
<1>5. CASE IndexStep
  BY <1>5 DEF IndexStep, TakeBlock, CreateDynamicDatasource, CommitBlock
<1>6. CASE Exit
  BY <1>6 DEF Exit
<1>7. CASE Start
  BY <1>7 DEF Start
<1>8. CASE UNCHANGED vars
  BY <1>8 DEF vars
<1> QED
  BY <1>1, <1>2, <1>3, <1>4, <1>5, <1>6, <1>7, <1>8
  DEF Next, FetchFails, IndexFails, Crash

\* The head a loop knows is one the chain has reached; while a dictionary is in
\* use it is known, and a query that waits for its answer starts below it.
HeadInv ==
  /\ latestFinalizedHeight <= chainHeight
  /\ dictionaryOn => UseDictionary
  /\ query # NoQuery => /\ UseDictionary
                        /\ query.start <= latestFinalizedHeight
  /\ up /\ UseDictionary => latestFinalizedHeight >= 1

FitInv == TypeInv /\ DownIdle /\ HeadInv /\ NumbersFit

\* A range that starts below a known head, or before any head is known, runs
\* upwards and holds at most the batch size.
LEMMA PutRangeFits ==
  ASSUME TypeOK, NEW start \in Nat \ {0}, NEW size \in Nat \ {0}, PutRange(start, size),
         latestFinalizedHeight = 0 \/ start <= latestFinalizedHeight
  PROVE  /\ latestBufferedHeight' \in Nat
         /\ start <= latestBufferedHeight'
         /\ LodashRange(start, latestBufferedHeight' + 1) \in Seq(Nat)
         /\ Len(LodashRange(start, latestBufferedHeight' + 1)) = latestBufferedHeight' + 1 - start
         /\ latestBufferedHeight' + 1 - start <= size
         /\ blockNumberBuffer' = blockNumberBuffer \o LodashRange(start, latestBufferedHeight' + 1)
<1> DEFINE end == NextEndBlockHeight(start, size)
<1>1. end \in Nat /\ start <= end /\ end + 1 - start <= size
  BY DEF TypeOK, NextEndBlockHeight
<1>2. /\ blockNumberBuffer' = blockNumberBuffer \o LodashRange(start, end + 1)
      /\ latestBufferedHeight' = end
  BY DEF PutRange, PutAll
<1> HIDE DEF end
<1>3. /\ LodashRange(start, end + 1) \in Seq(Nat)
      /\ Len(LodashRange(start, end + 1)) = end + 1 - start
  <2> DEFINE next == end + 1
  <2>1. next \in Nat /\ start <= next
    BY <1>1
  <2> HIDE DEF next
  <2>2. /\ LodashRange(start, next) \in Seq(Nat)
        /\ Len(LodashRange(start, next)) = next - start
    BY <2>1, LodashRangeSeq
  <2> QED BY <2>2, <1>1 DEF next
<1> QED BY <1>1, <1>2, <1>3

LEMMA FitInvInit == Init => FitInv
<1> SUFFICES ASSUME Init PROVE FitInv
  OBVIOUS
<1>1. HeadInv
  BY DEF Init, HeadInv
<1>2. NumbersFit
  <2>1. Len(blockNumberBuffer) = 0
    BY EmptyQueue DEF Init
  <2> QED BY <2>1, MaxSizeNat DEF Init, NumbersFit
<1>3. DownIdle
  BY DEF Init, DownIdle, Idle
<1> QED BY <1>1, <1>2, <1>3, TypeInvInit DEF FitInv

\* A steady head is the chain's.
LEMMA SteadyPoll ==
  ASSUME TypeOK, SteadyHead, UseDictionary, NEW h \in ReportedHeads
  PROVE  h = chainHeight
<1>1. Lag = 0
  BY DEF SteadyHead
<1>2. chainHeight \in Nat
  BY DEF TypeOK
<1>3. h \in 1 .. chainHeight /\ h + Lag >= chainHeight
  BY DEF ReportedHeads
<1> QED BY <1>1, <1>2, <1>3

\* With a steady head the last poll never takes the known head back.
LEMMA HeadInvStep ==
  ASSUME SteadyHead, TypeInv, DownIdle, HeadInv, [Next]_vars
  PROVE  HeadInv'
<1> USE DEF TypeInv, TypeOK, HeadInv, durable, control, queues, sources
<1>1. CASE ChainGrows
  BY <1>1 DEF ChainGrows
<1>2. CASE GetLatestBlockHead
  <2>1. latestFinalizedHeight' \in 1 .. chainHeight
    BY <1>2 DEF GetLatestBlockHead, ReportedHeads
  <2>2. CASE UseDictionary
    <3>1. latestFinalizedHeight' = chainHeight
      BY <1>2, <2>2, SteadyPoll DEF GetLatestBlockHead
    <3> QED BY <1>2, <2>1, <2>2, <3>1 DEF GetLatestBlockHead
  <2>3. CASE ~ UseDictionary
    BY <1>2, <2>1, <2>3 DEF GetLatestBlockHead
  <2> QED BY <2>2, <2>3
<1>3. CASE CheckBatchScale
  BY <1>3 DEF CheckBatchScale
<1>4. CASE FillByRange
  BY <1>4 DEF FillByRange, CanFill
<1>5. CASE QueryDictionary
  <2>1. UseDictionary /\ latestFinalizedHeight >= 1 /\ GetStartBlockHeight <= latestFinalizedHeight
    BY <1>5, StartHeightPos DEF QueryDictionary, CanFill
  <2> QED BY <1>5, <2>1 DEF QueryDictionary
<1>6. CASE DiscardDictionary
  BY <1>6 DEF DiscardDictionary
<1>7. CASE DictionaryEmpty
  BY <1>7 DEF DictionaryEmpty, AnswerArrives
<1>8. CASE DictionaryMatches
  BY <1>8 DEF DictionaryMatches, AnswerArrives
<1>9. CASE DictionaryFails
  BY <1>9 DEF DictionaryFails, AnswerArrives
<1>10. CASE TakeNumbers
  BY <1>10 DEF TakeNumbers
<1>11. CASE BlocksArrive
  BY <1>11 DEF BlocksArrive
<1>12. CASE BlocksDiscarded
  BY <1>12 DEF BlocksDiscarded
<1>13. CASE TakeBlock
  BY <1>13 DEF TakeBlock
<1>14. CASE CreateDynamicDatasource
  BY <1>14 DEF CreateDynamicDatasource
<1>15. CASE CommitBlock
  BY <1>15 DEF CommitBlock
<1>16. CASE Exit
  BY <1>16 DEF Exit
<1>17. CASE Start
  <2>1. latestFinalizedHeight' \in Nat /\ latestFinalizedHeight' <= chainHeight
    BY <1>17 DEF Start, ReportedHeads
  <2>2. UseDictionary => latestFinalizedHeight' >= 1
    BY <1>17 DEF Start, ReportedHeads, SteadyHead
  <2>3. UNCHANGED chainHeight /\ query' = NoQuery /\ dictionaryOn' = UseDictionary /\ up'
    BY <1>17 DEF Start, DownIdle, Idle
  <2>4. query' # NoQuery => /\ UseDictionary
                            /\ query'.start <= latestFinalizedHeight'
    BY <2>3
  <2>5. dictionaryOn' => UseDictionary
    BY <2>3, Zenon
  <2> QED BY <2>1, <2>2, <2>3, <2>4, <2>5
<1>18. CASE UNCHANGED vars
  BY <1>18 DEF vars
<1> QED
  BY <1>1, <1>2, <1>3, <1>4, <1>5, <1>6, <1>7, <1>8, <1>9, <1>10, <1>11, <1>12,
     <1>13, <1>14, <1>15, <1>16, <1>17, <1>18
  DEF Next, Fill, Fetch, IndexStep, FetchFails, IndexFails, Crash

\* A range put into a number queue that has room for its size still fits.
LEMMA PutRangeKeepsFit ==
  ASSUME TypeOK, NEW start \in Nat \ {0}, NEW size \in Nat \ {0}, PutRange(start, size),
         latestFinalizedHeight = 0 \/ start <= latestFinalizedHeight,
         Len(blockNumberBuffer) + size <= MaxSize
  PROVE  Len(blockNumberBuffer') <= MaxSize
<1> DEFINE range == LodashRange(start, latestBufferedHeight' + 1)
           put   == latestBufferedHeight' + 1 - start
<1>1. /\ range \in Seq(Nat) /\ Len(range) = put /\ put <= size
      /\ blockNumberBuffer' = blockNumberBuffer \o range
  BY PutRangeFits
<1>2. put \in Int
  BY PutRangeFits
<1> HIDE DEF range, put
<1>3. blockNumberBuffer \in Seq(Nat) /\ Len(blockNumberBuffer) \in Nat
  BY LenProperties DEF TypeOK
<1>4. Len(blockNumberBuffer') = Len(blockNumberBuffer) + Len(range)
  BY <1>1, <1>3, ConcatProperties
<1> QED BY <1>1, <1>2, <1>3, <1>4, MaxSizeNat

LEMMA NumbersFitStep ==
  ASSUME SteadyHead, TypeInv, DownIdle, HeadInv, NumbersFit, [Next]_vars
  PROVE  NumbersFit'
<1> USE DEF NumbersFit, durable, control, queues, sources
<1>len. Len(blockNumberBuffer) \in Nat /\ blockNumberBuffer \in Seq(Nat)
  BY LenProperties DEF TypeInv, TypeOK
<1>query. query # NoQuery => /\ query.start \in Nat \ {0} /\ query.size \in Nat \ {0}
                             /\ query.start <= latestFinalizedHeight
  BY DEF TypeInv, TypeOK, HeadInv
<1>1. CASE ChainGrows
  BY <1>1 DEF ChainGrows
<1>2. CASE GetLatestBlockHead
  BY <1>2 DEF GetLatestBlockHead
<1>3. CASE CheckBatchScale
  BY <1>3 DEF CheckBatchScale
<1>4. CASE FillByRange
  <2> DEFINE start == GetStartBlockHeight
             size  == ScaledBatchSize(batchSizeScale)
  <2>1. start \in Nat \ {0} /\ size \in Nat \ {0}
    BY <1>4, StartHeightPos, ScaledBatchSizePos DEF FillByRange, CanFill, TypeInv, TypeOK
  <2>2. /\ PutRange(start, size) /\ query' = NoQuery
        /\ MaxSize - Len(blockNumberBuffer) >= size
        /\ ~ (latestFinalizedHeight # 0 /\ start > latestFinalizedHeight)
    BY <1>4 DEF FillByRange, CanFill, FreeSize
  <2> HIDE DEF start, size
  <2>3. Len(blockNumberBuffer) + size <= MaxSize
    BY <2>1, <2>2, <1>len, MaxSizeNat
  <2>4. latestFinalizedHeight = 0 \/ start <= latestFinalizedHeight
    BY <2>1, <2>2 DEF TypeInv, TypeOK
  <2>5. Len(blockNumberBuffer') <= MaxSize
    BY <2>1, <2>2, <2>3, <2>4, PutRangeKeepsFit DEF TypeInv
  <2> QED BY <2>2, <2>5
<1>5. CASE QueryDictionary
  <2> DEFINE size == ScaledBatchSize(batchSizeScale)
  <2>1. size \in Nat
    BY ScaledBatchSizePos DEF TypeInv, TypeOK
  <2>2. /\ MaxSize - Len(blockNumberBuffer) >= size
        /\ query'.size = size /\ blockNumberBuffer' = blockNumberBuffer
    BY <1>5 DEF QueryDictionary, CanFill, FreeSize
  <2> HIDE DEF size
  <2> QED BY <2>1, <2>2, <1>len, MaxSizeNat
<1>6. CASE DiscardDictionary
  BY <1>6 DEF DiscardDictionary
<1>7. CASE DictionaryEmpty
  BY <1>7 DEF DictionaryEmpty, AnswerArrives
<1>8. CASE DictionaryMatches
  <2>1. query # NoQuery /\ query' = NoQuery
    BY <1>8 DEF DictionaryMatches, AnswerArrives
  <2>2. PICK last \in query.start .. Least(query.start + QuerySize - 1, chainHeight) :
          LET found == NeededIn(query.start, last, query.ds)
          IN  /\ last \in found
              /\ \E batch \in [1 .. Cardinality(found) -> found] :
                   /\ Lists(batch, found)
                   /\ DictionaryBatch(batch) \/ DictionaryOverflow(batch)
    BY <1>8 DEF DictionaryMatches
  <2> DEFINE found == NeededIn(query.start, last, query.ds)
  <2>3. PICK batch \in [1 .. Cardinality(found) -> found] :
          DictionaryBatch(batch) \/ DictionaryOverflow(batch)
    BY <2>2
  <2>4. batch \in Seq(Nat)
    <3>1. last \in Nat /\ query.start \in Nat /\ query.ds \in BOOLEAN /\ found # {}
      BY <2>2, <2>1, <1>query DEF TypeInv, TypeOK
    <3> QED BY <2>3, <3>1, BatchSeq
  <2>5. CASE DictionaryBatch(batch)
    <3>1. /\ Len(blockNumberBuffer) + Len(batch) <= MaxSize
          /\ blockNumberBuffer' = blockNumberBuffer \o batch
      BY <2>5 DEF DictionaryBatch, Fits, PutAll
    <3>2. Len(blockNumberBuffer') = Len(blockNumberBuffer) + Len(batch)
      BY <3>1, <2>4, <1>len, ConcatProperties
    <3> QED BY <3>1, <3>2, <2>1
  <2>6. CASE DictionaryOverflow(batch)
    <3>1. Len(blockNumberBuffer') <= MaxSize
      BY <2>6, <2>1, <1>query, PutRangeKeepsFit DEF DictionaryOverflow, TypeInv
    <3> QED BY <3>1, <2>1
  <2> QED BY <2>3, <2>5, <2>6
<1>9. CASE DictionaryFails
  <2>1. query # NoQuery /\ query' = NoQuery /\ PutRange(query.start, query.size)
    BY <1>9 DEF DictionaryFails, AnswerArrives
  <2>2. Len(blockNumberBuffer') <= MaxSize
    BY <2>1, <1>query, PutRangeKeepsFit DEF TypeInv
  <2> QED BY <2>1, <2>2
<1>10. CASE TakeNumbers
  <2>1. TakeCount \in Nat
    <3>1. RoundedSize(batchSizeScale) \in Nat
      BY RoundedSizeNat DEF TypeInv, TypeOK
    <3>2. Len(blockBuffer) \in Nat /\ Len(fetching.blocks) \in Nat
      BY LenProperties DEF TypeInv, TypeOK
    <3>3. Len(blockBuffer) + Len(fetching.blocks) <= MaxSize
      BY DEF TypeInv, BlocksFit
    <3> QED BY <3>1, <3>2, <3>3, MaxSizeNat DEF TakeCount, FreeSize, Least
  <2> DEFINE t == Taken(blockNumberBuffer, TakeCount)
             r == Rest(blockNumberBuffer, TakeCount)
  <2>2. t \in Seq(Nat) /\ r \in Seq(Nat) /\ Len(t) + Len(r) = Len(blockNumberBuffer)
    BY <2>1, <1>len, TakenRest
  <2>3. blockNumberBuffer' = r /\ query' = query
    BY <1>10 DEF TakeNumbers
  <2> HIDE DEF t, r
  <2>4. Len(t) \in Nat /\ Len(r) \in Nat
    BY <2>2, LenProperties
  <2>5. Len(blockNumberBuffer') <= Len(blockNumberBuffer)
    BY <2>2, <2>3, <2>4
  <2>6. Len(blockNumberBuffer') \in Nat
    BY <2>3, <2>4
  <2> QED BY <2>3, <2>5, <2>6, <1>len, <1>query, MaxSizeNat
<1>11. CASE BlocksArrive
  BY <1>11 DEF BlocksArrive
<1>12. CASE BlocksDiscarded
  BY <1>12 DEF BlocksDiscarded
<1>13. CASE TakeBlock
  BY <1>13 DEF TakeBlock
<1>14. CASE CreateDynamicDatasource
  <2>1. Len(blockNumberBuffer') = 0 /\ query' = query
    BY <1>14, EmptyQueue DEF CreateDynamicDatasource
  <2> QED BY <2>1, <1>len, <1>query, MaxSizeNat
<1>15. CASE CommitBlock
  BY <1>15 DEF CommitBlock
<1>16. CASE Exit
  <2>1. Len(blockNumberBuffer') = 0 /\ query' = NoQuery
    BY <1>16, EmptyQueue DEF Exit
  <2> QED BY <2>1, MaxSizeNat
<1>17. CASE Start
  BY <1>17 DEF Start
<1>18. CASE UNCHANGED vars
  BY <1>18 DEF vars
<1> QED
  BY <1>1, <1>2, <1>3, <1>4, <1>5, <1>6, <1>7, <1>8, <1>9, <1>10, <1>11, <1>12,
     <1>13, <1>14, <1>15, <1>16, <1>17, <1>18
  DEF Next, Fill, Fetch, IndexStep, FetchFails, IndexFails, Crash

\* Whatever the sizes, the sources and the dictionary, no put exceeds a queue's
\* capacity, as long as a head used with a dictionary is steady.
THEOREM QueuesNeverOverflow ==
  ASSUME SteadyHead
  PROVE  Spec => []QueuesFit
<1>1. FitInv /\ [Next]_vars => FitInv'
  BY TypeInvStep, DownIdleStep, HeadInvStep, NumbersFitStep DEF FitInv
<1>2. FitInv => QueuesFit
  BY DEF FitInv, TypeInv, QueuesFit
<1> QED BY <1>1, <1>2, FitInvInit, PTL DEF Spec
=============================================================================
