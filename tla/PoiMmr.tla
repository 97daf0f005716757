------------------------------- MODULE PoiMmr -------------------------------
(***************************************************************************)
(* Proof of index (--proof-of-index).  IndexerManager writes one _poi row  *)
(* for every block that changes an entity, each linked to the one before   *)
(* (PoiService, PoiBlock); MmrService follows the rows concurrently,       *)
(* appends one leaf per height to a Merkle mountain range kept in a file,  *)
(* and writes the root after each row's leaf back to the row.  The rows    *)
(* live in the database and commit with their block; the file does not.    *)
(*                                                                         *)
(* Hashes are injective: the hash of a row is the sequence of heights from *)
(* the first row to it, DEFAULT_LEAF and DEFAULT_PARENT_HASH are <<>>, and *)
(* the root after n leaves is the sequence of those leaves.  `undefined`   *)
(* heights are 0.                                                          *)
(***************************************************************************)
EXTENDS Integers, Sequences, FiniteSets

CONSTANTS
  Changing,    \* heights of the blocks that change an entity
  FetchRange,  \* DEFAULT_FETCH_RANGE
  MaxHeight,   \* bound: height of the chain
  MaxCrashes   \* bound on the number of times the process dies

ASSUME ConstantsOK ==
  /\ Changing \subseteq Nat \ {0} /\ FetchRange \in Nat \ {0}
  /\ MaxHeight \in Nat /\ MaxCrashes \in Nat

VARIABLES
  \* database
  lastProcessedHeight, lastPoiHeight,   \* metadata rows, 0 when absent
  offsetStored,        \* metadata row blockOffset, -1 when absent
  poi,                 \* the _poi table: height -> row
  \* file
  mmr,                 \* leaves of the mountain range
  \* memory of the indexer
  up,
  blockOffset,         \* ProjectService.blockOffset, -1 while undefined
  latestPoiBlockHash,
  block,               \* block in _indexBlock and what its transaction holds
  \* memory of syncFileBaseFromPoi
  sync,                \* where the loop is, and what it read
  nextMmrBlockHeight,
  crashes              \* counts the deaths of the process

database == <<lastProcessedHeight, lastPoiHeight, offsetStored, poi>>
indexer  == <<blockOffset, latestPoiBlockHash, block>>
vars == <<database, mmr, up, indexer, sync, nextMmrBlockHeight, crashes>>

None == -1
DEFAULT_LEAF == <<>>
NULL_ROOT == <<<<0>>>>      \* no row has height 0

NoRow   == [hash |-> <<>>, parent |-> <<>>, root |-> NULL_ROOT]
NoBlock == [height |-> 0, offset |-> None, row |-> NoRow, at |-> "none"]
SyncOff == [at |-> "off", batch |-> <<>>, upTo |-> 0]

LeafLength == Len(mmr)
Root(n) == SubSeq(mmr, 1, n)
LeafIndex(h) == h - blockOffset - 1

-----------------------------------------------------------------------------
(* The indexer. *)

BeginBlock_EmptyToo ==
  /\ up /\ block = NoBlock
  /\ \E h \in (lastProcessedHeight + 1) .. MaxHeight :
       /\ \A k \in (lastProcessedHeight + 1) .. (h - 1) : k \notin Changing
       /\ block' = [NoBlock EXCEPT !.height = h, !.at = "offset"]
  /\ UNCHANGED <<database, mmr, up, blockOffset, latestPoiBlockHash, sync, nextMmrBlockHeight, crashes>>

\* Blocks without a match are skipped where a dictionary is used.
BeginBlock ==
  /\ up /\ block = NoBlock
  /\ \E h \in (lastProcessedHeight + 1) .. MaxHeight :
       /\ \A k \in (lastProcessedHeight + 1) .. (h - 1) : k \notin Changing
       /\ block' = [NoBlock EXCEPT !.height = h,
                                !.at = IF h \in Changing THEN "offset" ELSE "commit"]
  /\ UNCHANGED <<database, mmr, up, blockOffset, latestPoiBlockHash, sync, nextMmrBlockHeight, crashes>>

\* setBlockOffset starts the synchronisation before the block has committed.
FirstOffset ==
  /\ up /\ block.at = "offset" /\ blockOffset = None
  /\ block' = [block EXCEPT !.offset = block.height - 1, !.at = "poi"]
  /\ blockOffset' = block.height - 1
  /\ sync' = [SyncOff EXCEPT !.at = "open"]
  /\ UNCHANGED <<database, mmr, up, latestPoiBlockHash, nextMmrBlockHeight, crashes>>

OffsetKnown ==
  /\ up /\ block.at = "offset" /\ blockOffset # None
  /\ block' = [block EXCEPT !.at = "poi"]
  /\ UNCHANGED <<database, mmr, up, blockOffset, latestPoiBlockHash, sync, nextMmrBlockHeight, crashes>>

PoiRow(h, parent) == [hash |-> Append(parent, h), parent |-> parent, root |-> NULL_ROOT]

CreatePoi ==
  /\ up /\ block.at = "poi"
  /\ block' = [block EXCEPT !.row = PoiRow(block.height, latestPoiBlockHash), !.at = "commit"]
  /\ latestPoiBlockHash' = Append(latestPoiBlockHash, block.height)
  /\ UNCHANGED <<database, mmr, up, blockOffset, sync, nextMmrBlockHeight, crashes>>

CommitBlock ==
  /\ up /\ block.at = "commit"
  /\ lastProcessedHeight' = block.height
  /\ IF block.row = NoRow
     THEN UNCHANGED <<lastPoiHeight, poi>>
     ELSE /\ lastPoiHeight' = block.height
          /\ poi' = [h \in DOMAIN poi \cup {block.height} |->
                       IF h = block.height THEN block.row ELSE poi[h]]
  /\ offsetStored' = IF block.offset # None THEN block.offset ELSE offsetStored
  /\ block' = NoBlock
  /\ UNCHANGED <<mmr, up, blockOffset, latestPoiBlockHash, sync, nextMmrBlockHeight, crashes>>

-----------------------------------------------------------------------------
(* syncFileBaseFromPoi. *)

Greatest(S) == CHOOSE h \in S : \A k \in S : k <= h
WithRoot == {h \in DOMAIN poi : poi[h].root # NULL_ROOT}

OpenFile_FromLastLeaf ==
  /\ up /\ sync.at = "open"
  /\ nextMmrBlockHeight' = LeafLength + blockOffset
  /\ sync' = [sync EXCEPT !.at = "fetch"]
  /\ UNCHANGED <<database, mmr, up, indexer, crashes>>

\* The file tells where to go on; the latest row with a root must agree with it.
OpenFile ==
  /\ up /\ sync.at = "open"
  /\ nextMmrBlockHeight' = LeafLength + blockOffset + 1
  /\ WithRoot # {} => poi[Greatest(WithRoot)].root = Root(LeafIndex(Greatest(WithRoot)) + 1)
  /\ sync' = [sync EXCEPT !.at = "fetch"]
  /\ UNCHANGED <<database, mmr, up, indexer, crashes>>

Rows_Beyond == {h \in DOMAIN poi : h > nextMmrBlockHeight}
Rows == {h \in DOMAIN poi : h >= nextMmrBlockHeight}
InRange(h) == h \in Rows /\ Cardinality({k \in Rows : k < h}) < FetchRange

\* getPoiBlocksByRange: the batch is in ascending order.
FetchRows ==
  /\ up /\ sync.at = "fetch" /\ Rows # {}
  /\ \E batch \in [1 .. Cardinality({h \in Rows : InRange(h)}) -> {h \in Rows : InRange(h)}] :
       /\ \A i, j \in DOMAIN batch : i < j => batch[i] < batch[j]
       /\ sync' = [sync EXCEPT !.at = "row", !.batch = batch]
  /\ UNCHANGED <<database, mmr, up, indexer, nextMmrBlockHeight, crashes>>

NoRows ==
  /\ up /\ sync.at = "fetch" /\ Rows = {}
  /\ sync' = [sync EXCEPT !.at = "meta"]
  /\ UNCHANGED <<database, mmr, up, indexer, nextMmrBlockHeight, crashes>>

\* Heights without a row before the next row
FillGap ==
  /\ up /\ sync.at = "row" /\ nextMmrBlockHeight < Head(sync.batch)
  /\ mmr' = Append(mmr, DEFAULT_LEAF)
  /\ nextMmrBlockHeight' = nextMmrBlockHeight + 1
  /\ UNCHANGED <<database, up, indexer, sync, crashes>>

\* appendMmrNode refuses a leaf that is not the next one.
AppendsAtEnd(h) == LeafIndex(h) = LeafLength

AppendLeaf ==
  /\ up /\ sync.at = "row" /\ ~ (nextMmrBlockHeight < Head(sync.batch))
  /\ AppendsAtEnd(Head(sync.batch))
  /\ mmr' = Append(mmr, poi[Head(sync.batch)].hash)
  /\ sync' = [sync EXCEPT !.at = "root"]
  /\ UNCHANGED <<database, up, indexer, nextMmrBlockHeight, crashes>>

\* updatePoiMmrRoot writes the root of a row that has none and checks the others.
RootAgrees(h) == poi[h].root \in {NULL_ROOT, Root(LeafIndex(h) + 1)}

AfterRow == IF Tail(sync.batch) = <<>> THEN [SyncOff EXCEPT !.at = "fetch"]
            ELSE [sync EXCEPT !.at = "row", !.batch = Tail(sync.batch)]

UpdateRoot_ShortOfItsLeaf ==
  /\ up /\ sync.at = "root"
  /\ poi' = [poi EXCEPT ![Head(sync.batch)].root = Root(LeafIndex(Head(sync.batch)))]
  /\ nextMmrBlockHeight' = Head(sync.batch) + 1
  /\ sync' = AfterRow
  /\ UNCHANGED <<lastProcessedHeight, lastPoiHeight, offsetStored, mmr, up, indexer, crashes>>

UpdateRoot ==
  /\ up /\ sync.at = "root" /\ RootAgrees(Head(sync.batch))
  /\ poi' = [poi EXCEPT ![Head(sync.batch)].root = Root(LeafIndex(Head(sync.batch)) + 1)]
  /\ nextMmrBlockHeight' = Head(sync.batch) + 1
  /\ sync' = AfterRow
  /\ UNCHANGED <<lastProcessedHeight, lastPoiHeight, offsetStored, mmr, up, indexer, crashes>>

ReadMetadata_ProcessedOnly ==
  /\ up /\ sync.at = "meta"
  /\ sync' = IF nextMmrBlockHeight <= lastProcessedHeight
             THEN [sync EXCEPT !.at = "tail", !.upTo = lastProcessedHeight]
             ELSE [sync EXCEPT !.at = "fetch"]
  /\ UNCHANGED <<database, mmr, up, indexer, nextMmrBlockHeight, crashes>>

ReadMetadata_NoTail ==
  /\ up /\ sync.at = "meta"
  /\ sync' = [sync EXCEPT !.at = "fetch"]
  /\ UNCHANGED <<database, mmr, up, indexer, nextMmrBlockHeight, crashes>>

\* No row left: the heights processed since the last row get default leaves.
\* A comparison with an undefined lastPoiHeight is false.
ReadMetadata ==
  /\ up /\ sync.at = "meta"
  /\ sync' = IF /\ lastPoiHeight # 0 /\ nextMmrBlockHeight > lastPoiHeight
                /\ nextMmrBlockHeight <= lastProcessedHeight
             THEN [sync EXCEPT !.at = "tail", !.upTo = lastProcessedHeight]
             ELSE [sync EXCEPT !.at = "fetch"]
  /\ UNCHANGED <<database, mmr, up, indexer, nextMmrBlockHeight, crashes>>

FillTail ==
  /\ up /\ sync.at = "tail"
  /\ mmr' = Append(mmr, DEFAULT_LEAF)
  /\ nextMmrBlockHeight' = nextMmrBlockHeight + 1
  /\ sync' = IF nextMmrBlockHeight = sync.upTo THEN [SyncOff EXCEPT !.at = "fetch"] ELSE sync
  /\ UNCHANGED <<database, up, indexer, crashes>>

-----------------------------------------------------------------------------
(* Exits and restarts.  A synchronisation that throws ends the process. *)

Exit ==
  /\ up' = FALSE
  /\ blockOffset' = None /\ latestPoiBlockHash' = <<>> /\ block' = NoBlock
  /\ sync' = SyncOff /\ nextMmrBlockHeight' = 0
  /\ UNCHANGED <<database, mmr>>

Crash == up /\ crashes < MaxCrashes /\ Exit /\ crashes' = crashes + 1

SyncRefuses ==
  \/ sync.at = "open" /\ WithRoot # {}
       /\ poi[Greatest(WithRoot)].root # Root(LeafIndex(Greatest(WithRoot)) + 1)
  \/ sync.at = "row" /\ ~ (nextMmrBlockHeight < Head(sync.batch)) /\ ~ AppendsAtEnd(Head(sync.batch))
  \/ sync.at = "root" /\ ~ RootAgrees(Head(sync.batch))

Start_NewChain ==
  /\ ~ up /\ up' = TRUE
  /\ blockOffset' = offsetStored
  /\ sync' = IF offsetStored # None THEN [SyncOff EXCEPT !.at = "open"] ELSE SyncOff
  /\ latestPoiBlockHash' = <<>>
  /\ UNCHANGED <<database, mmr, block, nextMmrBlockHeight, crashes>>

\* ProjectService.init: the offset starts the synchronisation, and the chain of
\* rows goes on from the last one stored.
Start ==
  /\ ~ up /\ up' = TRUE
  /\ blockOffset' = offsetStored
  /\ sync' = IF offsetStored # None THEN [SyncOff EXCEPT !.at = "open"] ELSE SyncOff
  /\ latestPoiBlockHash' = IF DOMAIN poi = {} THEN <<>> ELSE poi[Greatest(DOMAIN poi)].hash
  /\ UNCHANGED <<database, mmr, block, nextMmrBlockHeight, crashes>>

-----------------------------------------------------------------------------
Init ==
  /\ lastProcessedHeight = 0 /\ lastPoiHeight = 0 /\ offsetStored = None
  /\ poi = <<>> /\ mmr = <<>>
  /\ up = FALSE /\ blockOffset = None /\ latestPoiBlockHash = <<>>
  /\ block = NoBlock /\ sync = SyncOff /\ nextMmrBlockHeight = 0 /\ crashes = 0

IndexBlock == FirstOffset \/ OffsetKnown \/ CreatePoi \/ CommitBlock
SyncFileBaseFromPoi == OpenFile \/ FetchRows \/ NoRows \/ FillGap \/ AppendLeaf \/ UpdateRoot
                       \/ ReadMetadata \/ FillTail

Next == BeginBlock \/ IndexBlock \/ SyncFileBaseFromPoi \/ Crash \/ Start

Spec == Init /\ [][Next]_vars

\* The supervisor restarts the process, a block that is begun is finished, and
\* the synchronisation goes on.  Nothing forces blocks to arrive.
FairSpec == Spec /\ WF_vars(Start) /\ WF_vars(IndexBlock) /\ WF_vars(SyncFileBaseFromPoi)

-----------------------------------------------------------------------------
(* Properties. *)
Rowed == DOMAIN poi

TypeOK ==
  /\ lastProcessedHeight \in Nat /\ lastPoiHeight \in Nat /\ offsetStored \in Nat \cup {None}
  /\ Rowed \subseteq Changing
  /\ \A h \in Rowed : poi[h].hash \in Seq(Nat) /\ poi[h].parent \in Seq(Nat)
  /\ mmr \in Seq(Seq(Nat))
  /\ up \in BOOLEAN /\ blockOffset \in Nat \cup {None} /\ latestPoiBlockHash \in Seq(Nat)
  /\ block.height \in Nat /\ block.at \in {"none", "offset", "poi", "commit"}
  /\ sync.at \in {"off", "open", "fetch", "row", "root", "meta", "tail"}
  /\ nextMmrBlockHeight \in Nat /\ crashes \in Nat

\* The rows form one chain: each links to the row of the greatest height below
\* it, the first to the default parent, across crashes between the step that
\* advances the hash in memory and the commit.
RowsFormAChain ==
  \A h \in Rowed :
    LET below == {k \in Rowed : k < h}
    IN  poi[h].parent = IF below = {} THEN <<>> ELSE poi[Greatest(below)].hash

\* The file holds, for every height above the offset it has reached, the hash of
\* that height's row or the default leaf when it has none; it never runs ahead
\* of the blocks committed, so no row is ever committed behind it.
LeavesFollowRows ==
  mmr # <<>> =>
    /\ offsetStored # None
    /\ offsetStored + LeafLength <= lastProcessedHeight
    /\ \A i \in 1 .. LeafLength :
         LET h == offsetStored + i
         IN  mmr[i] = IF h \in Rowed THEN poi[h].hash ELSE DEFAULT_LEAF

\* A root in a row is the root of the file right after that row's leaf.
RootsAreRoots ==
  \A h \in WithRoot : /\ h - offsetStored <= LeafLength
                      /\ poi[h].root = Root(h - offsetStored)

\* The checks of the synchronisation (a leaf that is not the next, a root that
\* differs from the one stored), each of which ends the process, never fail:
\* no crash leaves the file and the table in a state that blocks every restart.
SyncNeverRefuses == ~ SyncRefuses

\* A row whose leaf is in the file lacks its root for good only when the process
\* died between the append and the update: at most one row for each death, and
\* the one the synchronisation is at.
Rootless == {h \in Rowed : h - offsetStored <= LeafLength /\ poi[h].root = NULL_ROOT}
RootsLostOnlyByCrashes ==
  Cardinality(Rootless) <= crashes + (IF sync.at = "root" THEN 1 ELSE 0)

\* Every committed height above the offset gets its leaf.
EveryHeightGetsALeaf ==
  \A h \in 1 .. MaxHeight :
    (lastProcessedHeight >= h /\ offsetStored # None) ~> (offsetStored + LeafLength >= h)
=============================================================================
