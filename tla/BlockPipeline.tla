--------------------------- MODULE BlockPipeline ----------------------------
(***************************************************************************)
(* The block pipeline of the indexer node: FetchService (two loops that    *)
(* fill two bounded queues), IndexerManager (takes blocks one by one and   *)
(* commits each in a transaction), the head poller, the batch scale, the   *)
(* reset of the queues when a handler creates a data source from a         *)
(* template, and the process that exits on any failure and is restarted by *)
(* its supervisor (docker `restart: always`).                              *)
(*                                                                         *)
(* JavaScript runs one callback at a time: what lies between two awaits    *)
(* that wait for the network, the database or a timer is one action.       *)
(*                                                                         *)
(* `undefined` heights are 0: block heights start at 1, and the code's own *)
(* test of latestBufferedHeight is truthiness.                             *)
(***************************************************************************)
EXTENDS BlockedQueue, FiniteSets

CONSTANTS
  StartBlock,       \* least startBlock of the project's data sources
  BatchSize,        \* nodeConfig.batchSize
  ScaleBatch,       \* argv scale-batch-size
  UseDictionary,    \* a dictionary is configured and every handler has a filter
  QuerySize,        \* DICTIONARY_MAX_QUERY_SIZE
  Matches,          \* heights that hold what the project's data sources ask for
  TemplateMatches,  \* heights that hold what a data source of a template asks for
  NewDsHeights,     \* heights whose handlers create such a data source
  Lag,              \* how far behind the chain a reported head may be
  FirstPollMayFail, \* the poll of the head made at start-up may fail
  MaxHeight         \* bound: the chain does not grow past it

ASSUME ConstantsOK ==
  /\ StartBlock \in Nat \ {0} /\ BatchSize \in Nat \ {0} /\ QuerySize \in Nat \ {0}
  /\ ScaleBatch \in BOOLEAN /\ UseDictionary \in BOOLEAN
  /\ Matches \subseteq Nat /\ TemplateMatches \subseteq Nat /\ NewDsHeights \subseteq Nat
  /\ Lag \in Nat /\ FirstPollMayFail \in BOOLEAN /\ MaxHeight \in Nat \ {0}

VARIABLES
  \* the chain and the database survive the process
  chainHeight,            \* height of the chain
  lastProcessedHeight,    \* metadata row lastProcessedHeight, 0 when absent
  dsStored,               \* metadata row dynamicDatasources is not empty
  \* memory of the process
  up,                     \* the process runs
  initBlockHeight,        \* argument of startLoop
  latestFinalizedHeight,  \* last head polled, 0 while undefined
  latestBufferedHeight,   \* last height put in the number queue, 0 while undefined
  batchSizeScale,         \* in tenths: 0..10
  dictionaryOn,           \* FetchService.useDictionary
  dsLoaded,               \* dictionaryQueryEntries include those of the template
  blockNumberBuffer,      \* heights to fetch
  query,                  \* dictionary query under way
  fetching,               \* blocks under way in fetchBlocksBatches
  blockBuffer,            \* fetched blocks, each represented by its height
  indexing                \* block handed to indexBlock

durable == <<chainHeight, lastProcessedHeight, dsStored>>
control == <<up, initBlockHeight, latestFinalizedHeight, batchSizeScale>>
queues  == <<latestBufferedHeight, blockNumberBuffer, blockBuffer>>
sources == <<dictionaryOn, dsLoaded>>
vars    == <<durable, control, queues, sources, query, fetching, indexing>>

NoQuery == [start |-> 0, size |-> 0, ds |-> FALSE]
NoFetch == [blocks |-> <<>>, bufferedHeight |-> 0]
NoBlock == [height |-> 0, newDs |-> FALSE]

-----------------------------------------------------------------------------
(* Sizes and ranges. *)

MINIMUM_BATCH_SIZE == 5
MaxSize == BatchSize * 3            \* capacity of both queues

\* Math.round(batchSizeScale * batchSize), the scale counted in tenths
RoundedSize(scale) == (2 * scale * BatchSize + 10) \div 20

ScaledBatchSize(scale) ==
  LET least == Least(MINIMUM_BATCH_SIZE, MaxSize)
  IN  IF RoundedSize(scale) > least THEN RoundedSize(scale) ELSE least

TakeCount_IgnoresRoom == RoundedSize(batchSizeScale)
TakeCount == Least(FreeSize(blockBuffer, MaxSize), RoundedSize(batchSizeScale))

GetStartBlockHeight_Repeats ==
  IF latestBufferedHeight # 0 THEN latestBufferedHeight ELSE initBlockHeight

GetStartBlockHeight ==
  IF latestBufferedHeight # 0 THEN latestBufferedHeight + 1 ELSE initBlockHeight

\* Comparisons with an undefined head are false, so the end is not capped then.
NextEndBlockHeight(start, size) ==
  LET end == start + size - 1
  IN  IF latestFinalizedHeight # 0 /\ end > latestFinalizedHeight
      THEN latestFinalizedHeight ELSE end

\* lodash range(a, b): counts down when b is below a
LodashRange(a, b) ==
  IF a <= b THEN [i \in 1 .. (b - a) |-> a + i - 1]
            ELSE [i \in 1 .. (a - b) |-> a - i + 1]

Needed(h, ds) == h \in Matches \/ (ds /\ h \in TemplateMatches)
NeededIn(lo, hi, ds) == {h \in lo .. hi : Needed(h, ds)}

\* s holds the members of S, each once, in ascending order
Ascending(s) == \A i, j \in 1 .. Len(s) : i < j => s[i] < s[j]
Lists(s, S) == Ascending(s) /\ {s[i] : i \in 1 .. Len(s)} = S

-----------------------------------------------------------------------------
(* The chain, the head poller and the memory check. *)

ChainGrows ==
  /\ chainHeight < MaxHeight
  /\ chainHeight' = chainHeight + 1
  /\ UNCHANGED <<lastProcessedHeight, dsStored, control, queues, sources, query, fetching, indexing>>

ReportedHeads == {h \in 1 .. chainHeight : h + Lag >= chainHeight}

GetLatestBlockHead_OnlyOnce ==
  /\ up /\ latestFinalizedHeight = 0
  /\ latestFinalizedHeight' \in ReportedHeads
  /\ UNCHANGED <<durable, up, initBlockHeight, batchSizeScale, queues, sources, query, fetching, indexing>>

\* A poll that fails is logged and changes nothing.
GetLatestBlockHead ==
  /\ up
  /\ latestFinalizedHeight' \in ReportedHeads
  /\ UNCHANGED <<durable, up, initBlockHeight, batchSizeScale, queues, sources, query, fetching, indexing>>

CheckBatchScale_NoClamp ==
  /\ up /\ ScaleBatch
  /\ batchSizeScale' \in {batchSizeScale - 1, batchSizeScale + 1}
  /\ UNCHANGED <<durable, up, initBlockHeight, latestFinalizedHeight, queues, sources, query, fetching, indexing>>

\* Heap above 85%: a tenth less; below 60%: a tenth more; between: no change.
CheckBatchScale ==
  /\ up /\ ScaleBatch
  /\ batchSizeScale' \in {batchSizeScale - 1, batchSizeScale + 1} \cap (0 .. 10)
  /\ UNCHANGED <<durable, up, initBlockHeight, latestFinalizedHeight, queues, sources, query, fetching, indexing>>

-----------------------------------------------------------------------------
(* fillNextBlockBuffer: heights into the number queue. *)

CanFill ==
  /\ up /\ query = NoQuery
  /\ FreeSize(blockNumberBuffer, MaxSize) >= ScaledBatchSize(batchSizeScale)
  /\ ~ (latestFinalizedHeight # 0 /\ GetStartBlockHeight > latestFinalizedHeight)

PutRange_EndNotCapped(start, size) ==
  /\ blockNumberBuffer' = PutAll(blockNumberBuffer,
                                  LodashRange(start, NextEndBlockHeight(start, size) + 1))
  /\ latestBufferedHeight' = start + size - 1

\* "the original method": the next batch of consecutive heights
PutRange(start, size) ==
  LET end == NextEndBlockHeight(start, size)
  IN  /\ blockNumberBuffer' = PutAll(blockNumberBuffer, LodashRange(start, end + 1))
      /\ latestBufferedHeight' = end

FillByRange ==
  /\ CanFill /\ ~ dictionaryOn
  /\ PutRange(GetStartBlockHeight, ScaledBatchSize(batchSizeScale))
  /\ UNCHANGED <<durable, control, sources, query, fetching, blockBuffer, indexing>>

QueryDictionary ==
  /\ CanFill /\ dictionaryOn
  /\ query' = [start |-> GetStartBlockHeight,
               size  |-> ScaledBatchSize(batchSizeScale),
               ds    |-> dsLoaded]
  /\ UNCHANGED <<durable, control, queues, sources, fetching, indexing>>

\* The start moved while the query was under way: its result is discarded.
DiscardDictionary ==
  /\ up /\ query # NoQuery /\ query.start # GetStartBlockHeight
  /\ query' = NoQuery
  /\ UNCHANGED <<durable, control, queues, sources, fetching, indexing>>

AnswerArrives ==
  /\ up /\ query # NoQuery /\ query.start = GetStartBlockHeight
  /\ query' = NoQuery
  /\ UNCHANGED <<durable, control, dsLoaded, fetching, blockBuffer, indexing>>

\* Last height of the query's range that the dictionary, at height d, has indexed
Horizon(d) == Least(query.start + QuerySize - 1, d)

DictionaryEmpty_BeyondItsHead ==
  /\ AnswerArrives
  /\ \E d \in query.start .. chainHeight :
       /\ NeededIn(query.start, Horizon(d), query.ds) = {}
       /\ latestBufferedHeight' = query.start + QuerySize - 1
  /\ UNCHANGED <<blockNumberBuffer, dictionaryOn>>

DictionaryEmpty ==
  /\ AnswerArrives
  /\ \E d \in query.start .. chainHeight :
       /\ NeededIn(query.start, Horizon(d), query.ds) = {}
       /\ latestBufferedHeight' = Horizon(d)
  /\ UNCHANGED <<blockNumberBuffer, dictionaryOn>>

DictionaryBatch_Unchecked(batch) ==
  /\ blockNumberBuffer' = PutAll(blockNumberBuffer, batch)
  /\ latestBufferedHeight' = batch[Len(batch)]
DictionaryBatch_FromFirst(batch) ==
  /\ Fits(blockNumberBuffer, batch, MaxSize)
  /\ blockNumberBuffer' = PutAll(blockNumberBuffer, batch)
  /\ latestBufferedHeight' = batch[1]
DictionaryBatch_ToQueryEnd(batch) ==
  /\ Fits(blockNumberBuffer, batch, MaxSize)
  /\ blockNumberBuffer' = PutAll(blockNumberBuffer, batch)
  /\ latestBufferedHeight' = query.start + QuerySize - 1

\* A batch is every match up to one of the matches; more than fits is refused
\* by putAll, and the loop falls back to the range.
DictionaryBatch(batch) ==
  /\ Fits(blockNumberBuffer, batch, MaxSize)
  /\ blockNumberBuffer' = PutAll(blockNumberBuffer, batch)
  /\ latestBufferedHeight' = batch[Len(batch)]
DictionaryOverflow(batch) ==
  /\ ~ Fits(blockNumberBuffer, batch, MaxSize)
  /\ PutRange(query.start, query.size)

DictionaryMatches ==
  /\ AnswerArrives
  /\ \E last \in query.start .. Least(query.start + QuerySize - 1, chainHeight) :
       LET found == NeededIn(query.start, last, query.ds)
       IN  /\ last \in found
           /\ \E batch \in [1 .. Cardinality(found) -> found] :
                /\ Lists(batch, found)
                /\ DictionaryBatch(batch) \/ DictionaryOverflow(batch)
  /\ UNCHANGED dictionaryOn

\* No answer, one of a dictionary behind the indexer, or one of another chain
\* (which turns the dictionary off): the range is used.
DictionaryFails ==
  /\ AnswerArrives
  /\ dictionaryOn' \in {dictionaryOn, FALSE}
  /\ PutRange(query.start, query.size)

-----------------------------------------------------------------------------
(* fillBlockBuffer: the heights' blocks into the block queue. *)

TakeNumbers ==
  /\ up /\ fetching = NoFetch
  /\ blockNumberBuffer # <<>> /\ TakeCount # 0
  /\ fetching' = [blocks |-> Taken(blockNumberBuffer, TakeCount),
                  bufferedHeight |-> latestBufferedHeight]
  /\ blockNumberBuffer' = Rest(blockNumberBuffer, TakeCount)
  /\ UNCHANGED <<durable, control, sources, query, latestBufferedHeight, blockBuffer, indexing>>

\* The chain's node only serves blocks it has.
BlocksServed == \A i \in 1 .. Len(fetching.blocks) : fetching.blocks[i] <= chainHeight

BlocksArrive ==
  /\ up /\ fetching # NoFetch /\ BlocksServed
  /\ ~ (fetching.bufferedHeight > latestBufferedHeight)
  /\ blockBuffer' = PutAll(blockBuffer, fetching.blocks)
  /\ fetching' = NoFetch
  /\ UNCHANGED <<durable, control, sources, query, latestBufferedHeight, blockNumberBuffer, indexing>>

\* "Queue was reset for new DS, discarding fetched blocks"
BlocksDiscarded ==
  /\ up /\ fetching # NoFetch /\ BlocksServed
  /\ fetching.bufferedHeight > latestBufferedHeight
  /\ fetching' = NoFetch
  /\ UNCHANGED <<durable, control, sources, query, queues, indexing>>

-----------------------------------------------------------------------------
(* register and indexBlock: one block at a time, each in a transaction. *)

TakeBlock ==
  /\ up /\ indexing = NoBlock /\ blockBuffer # <<>>
  /\ indexing' = [height |-> Head(blockBuffer), newDs |-> FALSE]
  /\ blockBuffer' = Tail(blockBuffer)
  /\ UNCHANGED <<durable, control, sources, query, fetching, latestBufferedHeight, blockNumberBuffer>>

CreateDynamicDatasource_NoRefill ==
  /\ up /\ indexing.height \in NewDsHeights /\ ~ indexing.newDs
  /\ indexing' = [indexing EXCEPT !.newDs = TRUE]
  /\ dsLoaded' = TRUE
  /\ blockBuffer' = <<>> /\ blockNumberBuffer' = <<>>
  /\ dictionaryOn' = UseDictionary
  /\ UNCHANGED <<durable, control, query, fetching, latestBufferedHeight>>

\* createDynamicDatasource, called by a handler of the block, then resetForNewDs
CreateDynamicDatasource ==
  /\ up /\ indexing.height \in NewDsHeights /\ ~ indexing.newDs
  /\ indexing' = [indexing EXCEPT !.newDs = TRUE]
  /\ dsLoaded' = TRUE
  /\ blockBuffer' = <<>> /\ blockNumberBuffer' = <<>>
  /\ latestBufferedHeight' = indexing.height
  /\ dictionaryOn' = UseDictionary       \* updateDictionary
  /\ UNCHANGED <<durable, control, query, fetching>>

\* The handlers' writes, lastProcessedHeight and the new data source commit together.
CommitBlock ==
  /\ up /\ indexing # NoBlock
  /\ indexing.height \in NewDsHeights => indexing.newDs
  /\ lastProcessedHeight' = indexing.height
  /\ dsStored' = (dsStored \/ indexing.newDs)
  /\ indexing' = NoBlock
  /\ UNCHANGED <<chainHeight, control, queues, sources, query, fetching>>

-----------------------------------------------------------------------------
(* Exits and restarts. *)

\* All memory is lost and the open transaction is rolled back.
Exit ==
  /\ up' = FALSE
  /\ initBlockHeight' = 0 /\ latestFinalizedHeight' = 0 /\ batchSizeScale' = 10
  /\ latestBufferedHeight' = 0 /\ blockNumberBuffer' = <<>> /\ blockBuffer' = <<>>
  /\ dictionaryOn' = FALSE /\ dsLoaded' = FALSE
  /\ query' = NoQuery /\ fetching' = NoFetch /\ indexing' = NoBlock
  /\ UNCHANGED durable

FetchFails   == up /\ fetching # NoFetch /\ Exit    \* startLoop's catch
IndexFails   == up /\ indexing # NoBlock /\ Exit    \* register's catch
Crash        == up /\ Exit                          \* killed at any point

GetStartHeight_SkipsOne == IF lastProcessedHeight # 0 THEN lastProcessedHeight + 2 ELSE StartBlock
GetStartHeight == IF lastProcessedHeight # 0 THEN lastProcessedHeight + 1 ELSE StartBlock

\* IndexerManager.start; a first poll that fails leaves the head undefined.
Start ==
  /\ ~ up
  /\ up' = TRUE
  /\ initBlockHeight' = GetStartHeight
  /\ \/ latestFinalizedHeight' \in ReportedHeads
     \/ FirstPollMayFail /\ latestFinalizedHeight' = 0
  /\ dsLoaded' = dsStored
  /\ dictionaryOn' = UseDictionary
  /\ UNCHANGED <<durable, batchSizeScale, queues, query, fetching, indexing>>

-----------------------------------------------------------------------------
Init ==
  /\ chainHeight \in 1 .. MaxHeight
  /\ lastProcessedHeight = 0 /\ dsStored = FALSE
  /\ up = FALSE
  /\ initBlockHeight = 0 /\ latestFinalizedHeight = 0 /\ batchSizeScale = 10
  /\ latestBufferedHeight = 0 /\ blockNumberBuffer = <<>> /\ blockBuffer = <<>>
  /\ dictionaryOn = FALSE /\ dsLoaded = FALSE
  /\ query = NoQuery /\ fetching = NoFetch /\ indexing = NoBlock

Fill == FillByRange \/ QueryDictionary \/ DiscardDictionary \/ DictionaryEmpty
        \/ DictionaryMatches \/ DictionaryFails
Fetch == TakeNumbers \/ BlocksArrive \/ BlocksDiscarded
IndexStep == TakeBlock \/ CreateDynamicDatasource \/ CommitBlock

Next ==
  \/ ChainGrows \/ GetLatestBlockHead \/ CheckBatchScale
  \/ Fill \/ Fetch \/ IndexStep
  \/ FetchFails \/ IndexFails \/ Crash \/ Start

Spec == Init /\ [][Next]_vars

(***************************************************************************)
(* Fairness.  The supervisor restarts the process; the event loop runs     *)
(* each loop's continuation; the chain's node, the dictionary and the      *)
(* database answer or fail, and blocks the chain does not have are         *)
(* refused; the head poller's timer fires.  Nothing forces the chain to    *)
(* grow, the process to fail, or the heap to shrink.                       *)
(***************************************************************************)
FetchRefused == ~ BlocksServed /\ FetchFails

Fairness ==
  /\ WF_vars(Start) /\ WF_vars(Fill) /\ WF_vars(Fetch) /\ WF_vars(FetchRefused)
  /\ WF_vars(IndexStep) /\ WF_vars(GetLatestBlockHead)

FairSpec == Spec /\ Fairness

-----------------------------------------------------------------------------
(* Properties. *)

\* Where a dictionary is used, the head of the chain is known before the first
\* query and never reported lower than before.  Without this a range may end
\* before it starts: lodash then counts down, and heights are queued twice.
SteadyHead == UseDictionary => Lag = 0 /\ ~ FirstPollMayFail

\* No handler creates a data source: the queues are never reset.
NoNewSources == NewDsHeights = {}

\* Every variable has the shape its code gives it.
TypeOK ==
  /\ chainHeight \in Nat /\ lastProcessedHeight \in Nat /\ dsStored \in BOOLEAN
  /\ up \in BOOLEAN /\ initBlockHeight \in Nat /\ latestFinalizedHeight \in Nat
  /\ batchSizeScale \in 0 .. 10
  /\ latestBufferedHeight \in Nat
  /\ dictionaryOn \in BOOLEAN /\ dsLoaded \in BOOLEAN
  /\ blockNumberBuffer \in Seq(Nat) /\ blockBuffer \in Seq(Nat)
  /\ query \in [start : Nat, size : Nat, ds : BOOLEAN]
  /\ fetching \in [blocks : Seq(Nat), bufferedHeight : Nat]
  /\ indexing \in [height : Nat, newDs : BOOLEAN]

\* No put ever exceeds a queue's capacity, although the room is tested before
\* an await and the items are put after it: putAll's throw in fillBlockBuffer
\* and in the range path of fillNextBlockBuffer, which would end the process,
\* cannot happen.
NumbersFit == /\ Len(blockNumberBuffer) <= MaxSize
              /\ query # NoQuery => Len(blockNumberBuffer) + query.size <= MaxSize
BlocksFit  == Len(blockBuffer) + Len(fetching.blocks) <= MaxSize
QueuesFit  == NumbersFit /\ BlocksFit

\* What is on its way to the database, the next block first
Current == IF indexing = NoBlock THEN <<>> ELSE <<indexing.height>>
Pipeline == Current \o (blockBuffer \o (fetching.blocks \o blockNumberBuffer))

\* The height everything up to which has been dealt with
Base == IF lastProcessedHeight # 0 THEN lastProcessedHeight ELSE StartBlock - 1

\* Blocks travel in ascending order through both queues, the fetch under way
\* and the indexer; none is on its way twice, none that is already committed is
\* on its way again, and none is beyond the height the loops count as buffered.
InOrder(s, lo, hi) == Ascending(s) /\ \A i \in 1 .. Len(s) : lo < s[i] /\ s[i] <= hi
PipelineInOrder == InOrder(Pipeline, Base, latestBufferedHeight)

\* Every height that holds something a data source asks for and that the loops
\* count as buffered is either committed or still on its way.
Covers(s, lo, hi, ds) ==
  \A h \in (lo + 1) .. hi : Needed(h, ds) => \E i \in 1 .. Len(s) : s[i] = h
NothingSkipped == Covers(Pipeline, Base, latestBufferedHeight, dsStored)

\* Commits happen in chain order, never beyond the chain, and never jump over a
\* block that is asked for: the pipeline, with its prefetching, its crashes and
\* its restarts, implements InOrderIndexing.
Order == INSTANCE InOrderIndexing
           WITH chain <- chainHeight, done <- Base, created <- dsStored

CommitsInOrder == Order!Spec

\* If the process eventually stays up and the batch scale eventually leaves room
\* for at least one block per batch, every block that a data source asks for is
\* committed once the chain has grown past it by what a reported head may lag:
\* lastProcessedHeight is h only while block h is the last one committed.
\* (Without --scale-batch-size the scale is always 1.)
RoomForBlocks == batchSizeScale \in {scale \in 0 .. 10 : RoundedSize(scale) > 0}
Reached(h)    == chainHeight >= h + Lag /\ h >= StartBlock
Committed(h)  == lastProcessedHeight = h

EveryMatchIndexed ==
  <>[](up /\ RoomForBlocks) => \A h \in Matches : <>Reached(h) => <>Committed(h)

\* An answer asked for before a reset that passes the comparison meant to
\* discard it, since the loops have got back to the height it was asked at.
StaleQuery == query # NoQuery /\ query.start = GetStartBlockHeight /\ dsLoaded /\ ~ query.ds
StaleFetch == /\ fetching # NoFetch /\ ~ (fetching.bufferedHeight > latestBufferedHeight)
              /\ ~ Ascending(Pipeline)

\* What the new data source asks for after the block that creates it
TemplateBlocksDue == {t \in TemplateMatches : \E n \in NewDsHeights : n < t}

\* A reset of the queues for a new data source, at any point of a query, a fetch
\* or a put, loses no block of the old data sources and none of the new one,
\* through the discarded answers, the refill, the crashes and the restarts: each
\* is committed, unless a stale answer passes its comparison (the runs that
\* violate NothingSkipped and CommitsInOrder show what happens then).
ResetsLoseNothing ==
  /\ <>[](up /\ RoomForBlocks)
  /\ [](~ StaleQuery /\ ~ StaleFetch)
  => \A h \in Matches \cup TemplateBlocksDue : <>Reached(h) => <>Committed(h)
=============================================================================
