---------------------------- MODULE PoiMmrProofs ----------------------------
(***************************************************************************)
(* Proofs about PoiMmr: one invariant, from which the types, the chain of  *)
(* the rows, the agreement of the file with the table and the absence of   *)
(* refusals follow.                                                        *)
(***************************************************************************)
EXTENDS PoiMmr, FiniteSetTheorems, SequenceTheorems, WellFoundedInduction, TLAPS

RowType == [hash : Seq(Nat), parent : Seq(Nat), root : Seq(Seq(Nat))]
BlockType == [height : Nat, offset : Nat \cup {None}, row : RowType,
              at : {"none", "offset", "poi", "commit"}]
SyncType == [at : {"off", "open", "fetch", "row", "root", "meta", "tail"},
             batch : Seq(Nat), upTo : Nat]
Types ==
  /\ lastProcessedHeight \in Nat /\ lastPoiHeight \in Nat /\ offsetStored \in Nat \cup {None}
  /\ Rowed \subseteq Changing /\ poi \in [Rowed -> RowType]
  /\ mmr \in Seq(Seq(Nat))
  /\ up \in BOOLEAN /\ blockOffset \in Nat \cup {None} /\ latestPoiBlockHash \in Seq(Nat)
  /\ block \in BlockType /\ sync \in SyncType
  /\ nextMmrBlockHeight \in Nat /\ crashes \in Nat

\* The rows: the metadata point at the last one, and the offset is before the first.
LastHash == IF Rowed = {} THEN <<>> ELSE poi[lastPoiHeight].hash
GreatestIn(S, m) == m \in S /\ \A k \in S : k <= m
HasGreatest(S) == S # {} => \E m \in S : GreatestIn(S, m)
Below(h) == {k \in Rowed : k < h}
RowsInv ==
  /\ \A h \in Rowed : h <= lastProcessedHeight /\ h > offsetStored
  /\ Rowed # {} => lastPoiHeight \in Rowed /\ \A h \in Rowed : h <= lastPoiHeight
  /\ Rowed = {} => lastPoiHeight = 0 /\ offsetStored = None
  /\ Rowed # {} => offsetStored # None
  /\ \A h \in Rowed : HasGreatest(Below(h))
  /\ RowsFormAChain

\* The block under way: a row that is not committed yet follows the last one, and an
\* offset that is not stored yet is that of the first row's block.
RowUnderWay == block.at = "commit" /\ block.row # NoRow
BlockInv ==
  /\ ~ up => block = NoBlock /\ sync = SyncOff
  /\ block.at = "none" <=> block = NoBlock
  /\ block.at # "none" => block.height > lastProcessedHeight
  /\ block.at \in {"offset", "poi"} => block.height \in Changing /\ block.row = NoRow
  /\ block.at = "poi" => blockOffset # None
  /\ RowUnderWay =>
       /\ block.height \in Changing /\ blockOffset # None
       /\ block.row = PoiRow(block.height, LastHash)
       /\ latestPoiBlockHash = Append(LastHash, block.height)
  /\ up /\ ~ RowUnderWay => latestPoiBlockHash = LastHash
OffsetInv ==
  /\ block.offset # None => block.at = "poi" \/ RowUnderWay
  /\ up /\ offsetStored # None => blockOffset = offsetStored /\ block.offset = None
  /\ up /\ offsetStored = None =>
       block.offset = blockOffset /\ (blockOffset # None => block.height = blockOffset + 1)

\* The file and the synchronisation: where the loop is tells how the next height
\* and the leaves go together, and the batch misses no row.
BatchInv ==
  /\ sync.batch # <<>>
  /\ \A i \in 1 .. Len(sync.batch) :
       sync.batch[i] \in Rowed /\ sync.batch[i] >= nextMmrBlockHeight
  /\ \A i, j \in 1 .. Len(sync.batch) : i < j => sync.batch[i] < sync.batch[j]
  /\ \A h \in Rowed : nextMmrBlockHeight <= h /\ h <= sync.batch[Len(sync.batch)] =>
       \E i \in 1 .. Len(sync.batch) : h = sync.batch[i]
TailInv ==
  /\ nextMmrBlockHeight <= sync.upTo /\ sync.upTo <= lastProcessedHeight
  /\ \A h \in Rowed : h < nextMmrBlockHeight \/ h > sync.upTo
  /\ offsetStored # None
SyncInv ==
  /\ sync.at # "off" => blockOffset # None
  /\ offsetStored = None => sync.at \in {"off", "open", "fetch", "meta"}
  /\ sync.at \in {"fetch", "row", "meta", "tail"} =>
       nextMmrBlockHeight = LeafLength + blockOffset + 1
  /\ sync.at = "root" => /\ nextMmrBlockHeight = LeafLength + blockOffset
                         /\ Head(sync.batch) = nextMmrBlockHeight
                         /\ poi[nextMmrBlockHeight].root = NULL_ROOT
  /\ sync.at \in {"row", "root"} => BatchInv
  /\ sync.at = "tail" => TailInv

LeafOf(h) == IF h \in Rowed THEN poi[h].hash ELSE DEFAULT_LEAF
FileInv ==
  /\ offsetStored = None => mmr = <<>>
  /\ offsetStored # None =>
       /\ offsetStored + LeafLength <= lastProcessedHeight
       /\ \A i \in 1 .. LeafLength : mmr[i] = LeafOf(offsetStored + i)
  /\ RootsAreRoots
  /\ HasGreatest(WithRoot)

Inv == Types /\ RowsInv /\ BlockInv /\ OffsetInv /\ SyncInv /\ FileInv

-----------------------------------------------------------------------------
(* What the invariant gives. *)

LEMMA NoneIsNoNat == None \notin Nat /\ None \in Int
  BY DEF None

LEMMA RowedNat == ASSUME Types PROVE Rowed \subseteq Nat \ {0}
  BY ConstantsOK DEF Types

LEMMA NoRowType == NoRow \in RowType /\ NULL_ROOT \in Seq(Seq(Nat)) /\ <<>> \in Seq(Nat)
<1>1. <<0>> \in Seq(Nat) /\ <<>> \in Seq(Nat)
  OBVIOUS
<1>2. NULL_ROOT \in Seq(Seq(Nat))
  BY <1>1 DEF NULL_ROOT
<1> QED
  BY <1>1, <1>2 DEF NoRow, RowType

LEMMA NoBlockType == NoBlock \in BlockType
  BY NoRowType DEF NoBlock, BlockType

LEMMA SyncOffType == SyncOff \in SyncType
  BY EmptySeq DEF SyncOff, SyncType

LEMMA PoiRowType ==
  ASSUME NEW h \in Nat, NEW p \in Seq(Nat)
  PROVE  PoiRow(h, p) \in RowType /\ PoiRow(h, p).hash = Append(p, h)
         /\ PoiRow(h, p).parent = p /\ PoiRow(h, p).root = NULL_ROOT /\ PoiRow(h, p) # NoRow
<1>1. Append(p, h) \in Seq(Nat) /\ Append(p, h) # <<>>
  BY AppendProperties
<1> QED
  BY <1>1, NoRowType DEF PoiRow, RowType, NoRow

LEMMA GreatestUnique ==
  ASSUME NEW S \in SUBSET Nat, NEW m, GreatestIn(S, m)
  PROVE  Greatest(S) = m
<1>1. m \in S /\ \A k \in S : k <= m
  BY DEF GreatestIn
<1>2. \A x \in S : (\A k \in S : k <= x) => x = m
  BY <1>1
<1> QED
  BY <1>1, <1>2 DEF Greatest

LEMMA InvTypeOK == Inv => TypeOK
  BY DEF Inv, Types, TypeOK, RowType, BlockType, SyncType

LEMMA InvLeaves == Inv => LeavesFollowRows
  BY DEF Inv, FileInv, LeavesFollowRows, LeafOf

LEMMA InvNeverRefuses == Inv => SyncNeverRefuses
<1> SUFFICES ASSUME Inv
             PROVE  ~ SyncRefuses
  BY DEF SyncNeverRefuses
<1> USE DEF Inv
<1>1. \A h \in WithRoot : h \in Nat /\ h \in Rowed /\ poi[h].root # NULL_ROOT
  BY RowedNat DEF WithRoot, Rowed
<1>2. ASSUME sync.at \in {"open", "row", "root"}, Rowed # {}
      PROVE  blockOffset = offsetStored /\ offsetStored \in Nat
  BY <1>2 DEF BlockInv, OffsetInv, SyncInv, RowsInv, Types, SyncOff
<1>3. ASSUME sync.at \in {"open", "row", "root"}, NEW h \in WithRoot
      PROVE  poi[h].root = Root(LeafIndex(h) + 1)
  <2>1. blockOffset = offsetStored /\ offsetStored \in Nat /\ h \in Nat
    BY <1>1, <1>2, <1>3
  <2>2. LeafIndex(h) + 1 = h - offsetStored
    BY <2>1 DEF LeafIndex
  <2> QED
    BY <2>2 DEF FileInv, RootsAreRoots
<1>4. ASSUME sync.at = "open", WithRoot # {}
      PROVE  poi[Greatest(WithRoot)].root = Root(LeafIndex(Greatest(WithRoot)) + 1)
  <2>1. PICK m \in WithRoot : GreatestIn(WithRoot, m)
    BY <1>4 DEF FileInv, HasGreatest
  <2>2. Greatest(WithRoot) = m
    BY <1>1, <2>1, GreatestUnique
  <2> QED
    BY <1>3, <1>4, <2>2
<1>5. ASSUME sync.at \in {"row", "root"}
      PROVE  Head(sync.batch) \in Rowed /\ Head(sync.batch) \in Nat
             /\ Head(sync.batch) >= nextMmrBlockHeight
  BY <1>5, RowedNat, LenProperties DEF SyncInv, BatchInv, Types, SyncType
<1>6. ASSUME sync.at = "row", ~ (nextMmrBlockHeight < Head(sync.batch))
      PROVE  AppendsAtEnd(Head(sync.batch))
  <2>1. Head(sync.batch) = nextMmrBlockHeight
    BY <1>5, <1>6 DEF Types
  <2>2. nextMmrBlockHeight = LeafLength + blockOffset + 1 /\ blockOffset \in Nat
    BY <1>6 DEF SyncInv, Types
  <2>3. LeafLength \in Nat
    BY LenProperties DEF Types, LeafLength
  <2> QED
    BY <2>1, <2>2, <2>3 DEF AppendsAtEnd, LeafIndex
<1>7. ASSUME sync.at = "root"
      PROVE  RootAgrees(Head(sync.batch))
  BY <1>7 DEF SyncInv, RootAgrees
<1> QED
  BY <1>4, <1>6, <1>7 DEF SyncRefuses

-----------------------------------------------------------------------------
(* Frames. *)

LEMMA InitInv == Init => Inv
<1> SUFFICES ASSUME Init
             PROVE  Inv
  OBVIOUS
<1> USE DEF Init
<1>1. Rowed = {} /\ WithRoot = {} /\ LeafLength = 0
  BY DEF Rowed, WithRoot, LeafLength
<1>2. Types
  <2>1. poi \in [Rowed -> RowType]
    BY <1>1
  <2>2. mmr \in Seq(Seq(Nat)) /\ latestPoiBlockHash \in Seq(Nat)
    OBVIOUS
  <2> QED
    BY <1>1, <2>1, <2>2, NoBlockType, SyncOffType DEF Types
<1>3. RowsInv
  BY <1>1 DEF RowsInv, RowsFormAChain
<1>4. BlockInv /\ OffsetInv /\ SyncInv
  BY DEF BlockInv, OffsetInv, SyncInv, NoBlock, SyncOff, RowUnderWay, None
<1>5. FileInv
  BY <1>1 DEF FileInv, RootsAreRoots, HasGreatest
<1> QED
  BY <1>2, <1>3, <1>4, <1>5 DEF Inv

LEMMA RowsKept ==
  ASSUME RowsInv, UNCHANGED database
  PROVE  RowsInv'
  BY DEF RowsInv, database, Rowed, HasGreatest, GreatestIn, Below, RowsFormAChain, Greatest

LEMMA FileKept ==
  ASSUME FileInv, UNCHANGED <<database, mmr>>
  PROVE  FileInv'
  BY DEF FileInv, database, Rowed, HasGreatest, GreatestIn, RootsAreRoots, WithRoot, LeafOf,
         LeafLength, Root

\* Steps of the synchronisation leave the indexer alone.
LEMMA IndexerKept ==
  ASSUME BlockInv, OffsetInv, UNCHANGED <<database, up, indexer>>, up
  PROVE  BlockInv' /\ OffsetInv'
<1>1. LastHash' = LastHash /\ RowUnderWay' = RowUnderWay
  BY DEF LastHash, RowUnderWay, database, indexer, Rowed
<1> QED
  BY <1>1 DEF BlockInv, OffsetInv, database, indexer

\* While the synchronisation runs, and there are rows, the offset is the stored one.
LEMMA Offsets ==
  ASSUME Inv, sync.at # "off"
  PROVE  /\ up /\ blockOffset \in Nat
         /\ offsetStored # None => offsetStored = blockOffset
         /\ LeafLength \in Nat
         /\ sync.at \in {"row", "root", "tail"} => offsetStored # None
<1>1. LeafLength \in Nat
  BY LenProperties DEF Inv, Types, LeafLength
<1>2. up /\ blockOffset \in Nat
  BY DEF Inv, BlockInv, SyncInv, SyncOff, Types
<1> QED
  BY <1>1, <1>2 DEF Inv, OffsetInv, SyncInv

\* The batch is in ascending order, and its first row is the next one.
LEMMA BatchFirst ==
  ASSUME Inv, sync.at \in {"row", "root"}
  PROVE  /\ sync.batch \in Seq(Nat) /\ Len(sync.batch) \in Nat \ {0}
         /\ Head(sync.batch) = sync.batch[1] /\ Head(sync.batch) \in Rowed
         /\ Head(sync.batch) \in Nat
         /\ \A i \in 1 .. Len(sync.batch) :
              sync.batch[i] \in Nat /\ Head(sync.batch) <= sync.batch[i]
              /\ (i # 1 => Head(sync.batch) < sync.batch[i])
         /\ \A h \in Rowed : nextMmrBlockHeight <= h => Head(sync.batch) <= h
<1> DEFINE b == sync.batch
<1>1. b \in Seq(Nat) /\ b # <<>> /\ BatchInv
  BY DEF Inv, Types, SyncType, SyncInv, BatchInv
<1>2. Len(b) \in Nat \ {0} /\ Head(b) = b[1] /\ \A i \in 1 .. Len(b) : b[i] \in Nat
  BY <1>1
<1>3. \A i \in 1 .. Len(b) : b[i] \in Rowed
  BY <1>1 DEF BatchInv
<1>4. \A i \in 1 .. Len(b) : i # 1 => b[1] < b[i]
  <2> SUFFICES ASSUME NEW i \in 1 .. Len(b), i # 1
               PROVE  b[1] < b[i]
    OBVIOUS
  <2>1. 1 \in 1 .. Len(b) /\ 1 < i
    BY <1>2
  <2> QED
    BY <1>1, <2>1 DEF BatchInv
<1>5. ASSUME NEW h \in Rowed, nextMmrBlockHeight <= h
      PROVE  b[1] <= h
  <2>1. h \in Nat
    BY RowedNat DEF Inv
  <2>2. Len(b) \in 1 .. Len(b) /\ 1 \in 1 .. Len(b)
    BY <1>2
  <2>3. b[1] <= b[Len(b)] /\ b[1] \in Nat /\ b[Len(b)] \in Nat
    BY <1>2, <1>4, <2>2
  <2>4. CASE h <= b[Len(b)]
    <3>1. PICK i \in 1 .. Len(b) : h = b[i]
      BY <1>1, <1>5, <2>4 DEF BatchInv
    <3> QED
      BY <1>2, <1>4, <3>1
  <2>5. CASE ~ (h <= b[Len(b)])
    BY <2>1, <2>3, <2>5
  <2> QED
    BY <2>4, <2>5
<1>6. 1 \in 1 .. Len(b)
  BY <1>2
<1> QED
  BY <1>1, <1>2, <1>3, <1>4, <1>5, <1>6

\* Appending the leaf of the next committed height keeps the file in step.
LEMMA AppendKeeps ==
  ASSUME Inv, offsetStored # None, UNCHANGED database,
         NEW leaf \in Seq(Nat), mmr' = Append(mmr, leaf),
         leaf = LeafOf(offsetStored + LeafLength + 1),
         offsetStored + LeafLength + 1 <= lastProcessedHeight
  PROVE  FileInv' /\ mmr' \in Seq(Seq(Nat)) /\ LeafLength' = LeafLength + 1
<1>1. mmr \in Seq(Seq(Nat)) /\ mmr' \in Seq(Seq(Nat)) /\ Len(mmr') = Len(mmr) + 1
      /\ Len(mmr) \in Nat
  BY AppendProperties DEF Inv, Types
<1>2. mmr'[Len(mmr) + 1] = leaf /\ \A i \in 1 .. Len(mmr) : mmr'[i] = mmr[i]
  BY <1>1, AppendProperties
<1>3. Rowed' = Rowed /\ WithRoot' = WithRoot /\ poi' = poi /\ offsetStored' = offsetStored
      /\ lastProcessedHeight' = lastProcessedHeight /\ offsetStored \in Nat
  BY DEF database, Rowed, WithRoot, Inv, Types
<1>4. offsetStored' + LeafLength' <= lastProcessedHeight'
  BY <1>1, <1>3 DEF LeafLength
<1>5. \A i \in 1 .. LeafLength' : mmr'[i] = LeafOf(offsetStored + i)'
  <2> SUFFICES ASSUME NEW i \in 1 .. Len(mmr) + 1
               PROVE  mmr'[i] = LeafOf(offsetStored + i)
    BY <1>1, <1>3 DEF LeafLength, LeafOf
  <2>1. CASE i = Len(mmr) + 1
    <3>1. offsetStored + i = offsetStored + LeafLength + 1
      BY <1>1, <1>3, <2>1 DEF LeafLength
    <3> QED
      BY <1>2, <2>1, <3>1
  <2>2. CASE i # Len(mmr) + 1
    <3>1. i \in 1 .. Len(mmr)
      BY <1>1, <2>2
    <3> QED
      BY <1>2, <1>3, <3>1 DEF Inv, FileInv, LeafLength
  <2> QED
    BY <2>1, <2>2
<1>6. RootsAreRoots'
  <2> SUFFICES ASSUME NEW h \in WithRoot
               PROVE  /\ h - offsetStored <= LeafLength'
                      /\ poi[h].root = Root(h - offsetStored)'
    BY <1>3 DEF RootsAreRoots, Root
  <2>1. h \in Nat /\ h > offsetStored
    BY RowedNat DEF Inv, RowsInv, WithRoot, Rowed
  <2>2. h - offsetStored <= LeafLength /\ poi[h].root = Root(h - offsetStored)
    BY DEF Inv, FileInv, RootsAreRoots
  <2>3. h - offsetStored \in 1 .. Len(mmr)
    BY <1>1, <1>3, <2>1, <2>2 DEF LeafLength
  <2>4. \A n \in 1 .. Len(mmr) : SubSeq(mmr', 1, n) = SubSeq(mmr, 1, n)
    <3> SUFFICES ASSUME NEW n \in 1 .. Len(mmr)
                 PROVE  SubSeq(mmr', 1, n) = SubSeq(mmr, 1, n)
      OBVIOUS
    <3> DEFINE d == mmr
    <3>1. SubSeq(Append(d, leaf), 1, n) = SubSeq(d, 1, n)
      BY <1>1
    <3> QED
      BY <3>1
  <2>5. Root(h - offsetStored)' = Root(h - offsetStored)
    BY <1>3, <2>3, <2>4 DEF Root
  <2> QED
    BY <1>1, <1>3, <2>1, <2>2, <2>5 DEF LeafLength
<1>7. HasGreatest(WithRoot)'
  BY <1>3 DEF Inv, FileInv, HasGreatest, GreatestIn
<1> QED
  BY <1>1, <1>3, <1>4, <1>5, <1>6, <1>7 DEF FileInv, LeafLength

-----------------------------------------------------------------------------
(* The indexer's steps. *)

LEMMA BeginBlockKeeps == Inv /\ BeginBlock => Inv'
<1> SUFFICES ASSUME Inv, BeginBlock
             PROVE  Inv'
  OBVIOUS
<1>0. PICK h \in (lastProcessedHeight + 1) .. MaxHeight :
        block' = [NoBlock EXCEPT !.height = h, !.at = IF h \in Changing THEN "offset" ELSE "commit"]
  BY DEF BeginBlock
<1>1. /\ up /\ block = NoBlock
      /\ UNCHANGED <<database, mmr, up, blockOffset, latestPoiBlockHash, sync, nextMmrBlockHeight, crashes>>
  BY DEF BeginBlock
<1>2. h \in Nat /\ h > lastProcessedHeight
  BY ConstantsOK DEF Inv, Types
<1>3. /\ block'.height = h /\ block'.offset = None /\ block'.row = NoRow
      /\ h \in Changing => block'.at = "offset"
      /\ h \notin Changing => block'.at = "commit"
      /\ block' \in BlockType
  BY <1>0, <1>2, NoBlockType DEF NoBlock, BlockType
<1>4. Types'
  BY <1>1, <1>3 DEF Inv, Types, database, Rowed
<1>5. RowsInv' /\ FileInv'
  BY <1>1, RowsKept, FileKept DEF Inv
<1>6. ~ RowUnderWay /\ ~ RowUnderWay' /\ LastHash' = LastHash
  BY <1>1, <1>3 DEF RowUnderWay, NoBlock, LastHash, database, Rowed
<1>7. BlockInv'
  <2>1. block' # NoBlock /\ block'.at # "none" /\ block'.at # "poi"
    BY <1>3 DEF NoBlock
  <2> QED
    BY <1>1, <1>2, <1>3, <1>6, <2>1 DEF Inv, BlockInv, database
<1>8. OffsetInv'
  BY <1>1, <1>3 DEF Inv, OffsetInv, database, NoBlock
<1>9. SyncInv'
  BY <1>1 DEF Inv, SyncInv, BatchInv, TailInv, database, Rowed, LeafLength
<1> QED
  BY <1>4, <1>5, <1>7, <1>8, <1>9 DEF Inv

LEMMA FirstOffsetKeeps == Inv /\ FirstOffset => Inv'
<1> SUFFICES ASSUME Inv, FirstOffset
             PROVE  Inv'
  OBVIOUS
<1>1. /\ up /\ block.at = "offset" /\ blockOffset = None
      /\ block' = [block EXCEPT !.offset = block.height - 1, !.at = "poi"]
      /\ blockOffset' = block.height - 1
      /\ sync' = [SyncOff EXCEPT !.at = "open"]
      /\ UNCHANGED <<database, mmr, up, latestPoiBlockHash, nextMmrBlockHeight, crashes>>
  BY DEF FirstOffset
<1>2. block.height \in Changing /\ block.height - 1 \in Nat /\ block.row = NoRow
      /\ block.height > lastProcessedHeight
  BY <1>1, ConstantsOK DEF Inv, BlockInv
<1>3. /\ block'.height = block.height /\ block'.offset = block.height - 1
      /\ block'.row = NoRow /\ block'.at = "poi" /\ block' \in BlockType
  BY <1>1, <1>2 DEF Inv, Types, BlockType
<1>4. sync'.at = "open" /\ sync' \in SyncType
  BY <1>1, SyncOffType DEF SyncOff, SyncType
<1>5. Types'
  BY <1>1, <1>2, <1>3, <1>4 DEF Inv, Types, database, Rowed
<1>6. RowsInv' /\ FileInv'
  BY <1>1, RowsKept, FileKept DEF Inv
<1>7. ~ RowUnderWay /\ ~ RowUnderWay' /\ LastHash' = LastHash
  BY <1>1, <1>3 DEF RowUnderWay, LastHash, database, Rowed
<1>8. offsetStored = None /\ blockOffset' # None
  BY <1>1, <1>2 DEF Inv, OffsetInv, None
<1>9. BlockInv'
  <2>1. block' # NoBlock
    BY <1>3 DEF NoBlock
  <2> QED
    BY <1>1, <1>2, <1>3, <1>7, <1>8, <2>1 DEF Inv, BlockInv, database
<1>10. OffsetInv'
  <2>1. block.height = blockOffset' + 1
    BY <1>1, <1>2 DEF Inv, Types, BlockType
  <2> QED
    BY <1>1, <1>3, <1>8, <2>1 DEF OffsetInv, database
<1>11. SyncInv'
  BY <1>4, <1>8 DEF SyncInv
<1> QED
  BY <1>5, <1>6, <1>9, <1>10, <1>11 DEF Inv

LEMMA OffsetKnownKeeps == Inv /\ OffsetKnown => Inv'
<1> SUFFICES ASSUME Inv, OffsetKnown
             PROVE  Inv'
  OBVIOUS
<1>1. /\ up /\ block.at = "offset" /\ blockOffset # None
      /\ block' = [block EXCEPT !.at = "poi"]
      /\ UNCHANGED <<database, mmr, up, blockOffset, latestPoiBlockHash, sync, nextMmrBlockHeight, crashes>>
  BY DEF OffsetKnown
<1>2. /\ block'.height = block.height /\ block'.offset = block.offset
      /\ block'.row = block.row /\ block'.at = "poi" /\ block' \in BlockType
  BY <1>1 DEF Inv, Types, BlockType
<1>3. Types'
  BY <1>1, <1>2 DEF Inv, Types, database, Rowed
<1>4. RowsInv' /\ FileInv'
  BY <1>1, RowsKept, FileKept DEF Inv
<1>5. ~ RowUnderWay /\ ~ RowUnderWay' /\ LastHash' = LastHash
  BY <1>1, <1>2 DEF RowUnderWay, LastHash, database, Rowed
<1>6. BlockInv'
  <2>1. block' # NoBlock
    BY <1>2 DEF NoBlock
  <2> QED
    BY <1>1, <1>2, <1>5, <2>1 DEF Inv, BlockInv, database
<1>7. OffsetInv'
  BY <1>1, <1>2 DEF Inv, OffsetInv, database
<1>8. SyncInv'
  BY <1>1 DEF Inv, SyncInv, BatchInv, TailInv, database, Rowed, LeafLength
<1> QED
  BY <1>3, <1>4, <1>6, <1>7, <1>8 DEF Inv

LEMMA CreatePoiKeeps == Inv /\ CreatePoi => Inv'
<1> SUFFICES ASSUME Inv, CreatePoi
             PROVE  Inv'
  OBVIOUS
<1>1. /\ up /\ block.at = "poi"
      /\ block' = [block EXCEPT !.row = PoiRow(block.height, latestPoiBlockHash), !.at = "commit"]
      /\ latestPoiBlockHash' = Append(latestPoiBlockHash, block.height)
      /\ UNCHANGED <<database, mmr, up, blockOffset, sync, nextMmrBlockHeight, crashes>>
  BY DEF CreatePoi
<1>2. /\ block.height \in Nat /\ latestPoiBlockHash \in Seq(Nat)
      /\ latestPoiBlockHash' \in Seq(Nat)
  BY <1>1, AppendProperties DEF Inv, Types, BlockType
<1>3. /\ block'.height = block.height /\ block'.offset = block.offset /\ block'.at = "commit"
      /\ block'.row = PoiRow(block.height, latestPoiBlockHash) /\ block'.row # NoRow
      /\ block' \in BlockType
  <2> HIDE DEF PoiRow
  <2>1. PoiRow(block.height, latestPoiBlockHash) \in RowType
        /\ PoiRow(block.height, latestPoiBlockHash) # NoRow
    BY <1>2, PoiRowType
  <2> QED
    BY <1>1, <2>1 DEF Inv, Types, BlockType
<1>4. Types'
  BY <1>1, <1>2, <1>3 DEF Inv, Types, database, Rowed
<1>5. RowsInv' /\ FileInv'
  BY <1>1, RowsKept, FileKept DEF Inv
<1>6. ~ RowUnderWay /\ RowUnderWay' /\ LastHash' = LastHash
  BY <1>1, <1>3 DEF RowUnderWay, LastHash, database, Rowed
<1>7. latestPoiBlockHash = LastHash
  BY <1>1, <1>6 DEF Inv, BlockInv
<1>8. BlockInv'
  <2>1. block' # NoBlock
    BY <1>3 DEF NoBlock
  <2>2. block'.row = PoiRow(block'.height, LastHash')
    BY <1>3, <1>6, <1>7
  <2>3. latestPoiBlockHash' = Append(LastHash', block'.height)
    BY <1>1, <1>3, <1>6, <1>7
  <2> HIDE DEF PoiRow
  <2> QED
    BY <1>1, <1>3, <1>6, <2>1, <2>2, <2>3 DEF Inv, BlockInv, database
<1>9. OffsetInv'
  BY <1>1, <1>3, <1>6 DEF Inv, OffsetInv, database
<1>10. SyncInv'
  BY <1>1 DEF Inv, SyncInv, BatchInv, TailInv, database, Rowed, LeafLength
<1> QED
  BY <1>4, <1>5, <1>8, <1>9, <1>10 DEF Inv

\* A block that changes no entity leaves the rows and the offset alone.
LEMMA CommitEmptyKeeps ==
  ASSUME Inv, CommitBlock, block.row = NoRow
  PROVE  Inv'
<1>1. /\ up /\ block.at = "commit" /\ lastProcessedHeight' = block.height /\ block' = NoBlock
      /\ UNCHANGED <<lastPoiHeight, poi, mmr, up, blockOffset, latestPoiBlockHash, sync,
                     nextMmrBlockHeight, crashes>>
  BY DEF CommitBlock
<1>2. ~ RowUnderWay /\ ~ RowUnderWay' /\ LastHash' = LastHash
  BY <1>1 DEF RowUnderWay, LastHash, Rowed, NoBlock
<1>3. block.offset = None /\ offsetStored' = offsetStored
  BY <1>1, <1>2 DEF CommitBlock, Inv, OffsetInv
<1>4. /\ block.height \in Nat /\ block.height > lastProcessedHeight
      /\ lastProcessedHeight \in Nat
  BY <1>1 DEF Inv, BlockInv, Types, BlockType
<1>5. Rowed' = Rowed /\ WithRoot' = WithRoot /\ LeafLength' = LeafLength /\ LeafLength \in Nat
  BY <1>1, LenProperties DEF Rowed, WithRoot, LeafLength, Inv, Types
<1>6. Types'
  BY <1>1, <1>3, <1>4, <1>5, NoBlockType DEF Inv, Types
<1>7. RowsInv'
  <2>1. \A h \in Rowed : h <= lastProcessedHeight'
    BY <1>1, <1>4, RowedNat DEF Inv, RowsInv
  <2>2. RowsFormAChain' /\ \A h \in Rowed : HasGreatest(Below(h))'
    BY <1>1, <1>5 DEF Inv, RowsInv, RowsFormAChain, Greatest, HasGreatest, GreatestIn, Below
  <2> QED
    BY <1>1, <1>3, <1>5, <2>1, <2>2 DEF Inv, RowsInv
<1>8. BlockInv'
  <2>1. block'.at = "none"
    BY <1>1 DEF NoBlock
  <2> QED
    BY <1>1, <1>2, <2>1 DEF Inv, BlockInv
<1>9. OffsetInv'
  <2>1. block'.offset = None
    BY <1>1 DEF NoBlock
  <2> QED
    BY <1>1, <1>3, <2>1 DEF Inv, OffsetInv
<1>10. SyncInv'
  <2>1. TailInv => TailInv'
    BY <1>1, <1>3, <1>4, <1>5 DEF TailInv, Inv, Types, SyncType
  <2>2. BatchInv => BatchInv'
    BY <1>1, <1>5 DEF BatchInv
  <2> QED
    BY <1>1, <1>3, <1>5, <2>1, <2>2 DEF Inv, SyncInv
<1>11. FileInv'
  <2>1. offsetStored # None => offsetStored' + LeafLength' <= lastProcessedHeight'
    BY <1>1, <1>3, <1>4, <1>5 DEF Inv, FileInv, Types
  <2>2. RootsAreRoots' /\ HasGreatest(WithRoot)'
    BY <1>1, <1>3, <1>5 DEF Inv, FileInv, RootsAreRoots, HasGreatest, GreatestIn, Root
  <2> QED
    BY <1>1, <1>3, <1>5, <2>1, <2>2 DEF Inv, FileInv, LeafOf
<1> QED
  BY <1>6, <1>7, <1>8, <1>9, <1>10, <1>11 DEF Inv

\* A block that changes an entity adds the last row of the chain.
LEMMA CommitRowKeeps ==
  ASSUME Inv, CommitBlock, block.row # NoRow
  PROVE  Inv'
<1> DEFINE b == block.height
<1>1. /\ up /\ block.at = "commit" /\ lastProcessedHeight' = b /\ lastPoiHeight' = b
      /\ block' = NoBlock
      /\ poi' = [h \in Rowed \cup {b} |-> IF h = b THEN block.row ELSE poi[h]]
      /\ UNCHANGED <<mmr, up, blockOffset, latestPoiBlockHash, sync, nextMmrBlockHeight, crashes>>
  BY DEF CommitBlock, Rowed
<1>2. RowUnderWay /\ ~ RowUnderWay'
  BY <1>1 DEF RowUnderWay, NoBlock
<1>3. /\ b \in Nat /\ b > lastProcessedHeight /\ lastProcessedHeight \in Nat
      /\ b \in Changing /\ blockOffset \in Nat
      /\ block.row = PoiRow(b, LastHash) /\ latestPoiBlockHash = Append(LastHash, b)
  <2> HIDE DEF PoiRow
  <2> QED
    BY <1>1, <1>2 DEF Inv, BlockInv, Types, BlockType
<1>4. \A h \in Rowed : h \in Nat /\ h < b /\ h # b
  BY <1>3, RowedNat DEF Inv, RowsInv
<1>5. /\ Rowed' = Rowed \cup {b} /\ poi'[b] = block.row
      /\ \A h \in Rowed : poi'[h] = poi[h]
  BY <1>1, <1>4 DEF Rowed
<1>6. LastHash \in Seq(Nat)
  BY DEF LastHash, Inv, Types, RowsInv, RowType
<1>7. /\ block.row \in RowType /\ block.row.hash = Append(LastHash, b)
      /\ block.row.parent = LastHash /\ block.row.root = NULL_ROOT
  <2> HIDE DEF PoiRow
  <2> QED
    BY <1>3, <1>6, PoiRowType
<1>8. /\ offsetStored # None => offsetStored' = offsetStored /\ offsetStored = blockOffset
      /\ offsetStored = None => offsetStored' = blockOffset /\ b = blockOffset + 1
      /\ offsetStored' = blockOffset
  BY <1>1, <1>3 DEF CommitBlock, Inv, OffsetInv, None
<1>9. WithRoot' = WithRoot
  BY <1>4, <1>5, <1>7 DEF WithRoot, Rowed
<1>10. LeafLength' = LeafLength /\ LeafLength \in Nat /\ (offsetStored = None => LeafLength = 0)
  BY <1>1, LenProperties DEF LeafLength, Inv, Types, FileInv
<1>11. blockOffset < b /\ blockOffset + LeafLength <= b
  <2>1. CASE offsetStored = None
    BY <1>3, <1>8, <1>10, <2>1
  <2>2. CASE offsetStored # None
    <3>1. offsetStored + LeafLength <= lastProcessedHeight
      BY <2>2 DEF Inv, FileInv
    <3> QED
      BY <1>3, <1>8, <1>10, <2>2, <3>1
  <2> QED
    BY <2>1, <2>2
<1>12. Types'
  <2>1. poi' \in [Rowed' -> RowType]
    <3>1. \A h \in Rowed \cup {b} : (IF h = b THEN block.row ELSE poi[h]) \in RowType
      BY <1>7 DEF Inv, Types
    <3> QED
      BY <1>1, <1>5, <3>1
  <2> QED
    BY <1>1, <1>3, <1>5, <1>8, <2>1, NoBlockType DEF Inv, Types
<1>13. RowsInv'
  <2>1. \A h \in Rowed' : h <= b /\ h > offsetStored'
    <3>1. ASSUME NEW h \in Rowed PROVE h <= b /\ h > offsetStored'
      <4>1. offsetStored # None /\ h > offsetStored
        BY DEF Inv, RowsInv
      <4> QED
        BY <1>3, <1>4, <1>8, <4>1
    <3> QED
      BY <1>3, <1>5, <1>8, <1>11, <3>1
  <2> DEFINE NewBelow(h) == {k \in Rowed' : k < h}
  <2>2. NewBelow(b) = Rowed /\ \A h \in Rowed : NewBelow(h) = Below(h)
    BY <1>3, <1>4, <1>5 DEF Below
  <2> HIDE DEF NewBelow
  <2>3. HasGreatest(Rowed)
    BY DEF Inv, RowsInv, HasGreatest, GreatestIn
  <2>4. \A h \in Rowed' : HasGreatest(NewBelow(h))
    BY <1>5, <2>2, <2>3 DEF Inv, RowsInv
  <2>5. RowsFormAChain'
    <3>1. ASSUME NEW h \in Rowed
          PROVE  poi'[h].parent = IF Below(h) = {} THEN <<>> ELSE poi'[Greatest(Below(h))].hash
      <4>1. poi[h].parent = IF Below(h) = {} THEN <<>> ELSE poi[Greatest(Below(h))].hash
        BY DEF Inv, RowsInv, RowsFormAChain, Below
      <4>2. Below(h) # {} => Greatest(Below(h)) \in Rowed
        <5> SUFFICES ASSUME Below(h) # {} PROVE Greatest(Below(h)) \in Rowed
          OBVIOUS
        <5>1. PICK m \in Below(h) : GreatestIn(Below(h), m)
          BY DEF Inv, RowsInv, HasGreatest
        <5>2. Below(h) \in SUBSET Nat /\ m \in Rowed
          BY <1>4 DEF Below
        <5>3. Greatest(Below(h)) = m
          BY <5>1, <5>2, GreatestUnique
        <5> QED
          BY <5>2, <5>3
      <4> QED
        BY <1>5, <4>1, <4>2
    <3>2. poi'[b].parent = IF Rowed = {} THEN <<>> ELSE poi'[Greatest(Rowed)].hash
      <4>1. CASE Rowed = {}
        BY <1>5, <1>7, <4>1 DEF LastHash
      <4>2. CASE Rowed # {}
        <5>1. lastPoiHeight \in Rowed /\ GreatestIn(Rowed, lastPoiHeight)
          BY <4>2 DEF Inv, RowsInv, GreatestIn
        <5>2. Greatest(Rowed) = lastPoiHeight
          BY <1>4, <5>1, GreatestUnique
        <5> QED
          BY <1>5, <1>7, <4>2, <5>1, <5>2 DEF LastHash
      <4> QED
        BY <4>1, <4>2
    <3>3. \A h \in Rowed' :
            poi'[h].parent = IF NewBelow(h) = {} THEN <<>> ELSE poi'[Greatest(NewBelow(h))].hash
      BY <1>5, <2>2, <3>1, <3>2
    <3> QED
      BY <3>3 DEF RowsFormAChain, NewBelow, Greatest
  <2>6. \A h \in Rowed' : HasGreatest(Below(h))'
    BY <2>4 DEF HasGreatest, GreatestIn, NewBelow, Below
  <2>7. Rowed' # {} /\ b \in Rowed' /\ offsetStored' # None
    BY <1>3, <1>5, <1>8, NoneIsNoNat
  <2> QED
    BY <1>1, <2>1, <2>5, <2>6, <2>7 DEF RowsInv
<1>14. BlockInv'
  <2>1. block'.at = "none"
    BY <1>1 DEF NoBlock
  <2>2. LastHash' = Append(LastHash, b)
    BY <1>1, <1>5, <1>7 DEF LastHash
  <2>3. latestPoiBlockHash' = LastHash'
    BY <1>1, <1>3, <2>2
  <2> QED
    BY <1>1, <1>2, <2>1, <2>3 DEF Inv, BlockInv
<1>15. OffsetInv'
  <2>1. block'.offset = None
    BY <1>1 DEF NoBlock
  <2> QED
    BY <1>1, <1>3, <1>8, <2>1, NoneIsNoNat DEF OffsetInv
<1>16. SyncInv'
  <2>1. TailInv => TailInv'
    <3> SUFFICES ASSUME TailInv
                 PROVE  TailInv'
      OBVIOUS
    <3>1. sync.upTo \in Nat /\ sync.upTo < b
      BY <1>3 DEF TailInv, Inv, Types, SyncType
    <3>2. \A h \in Rowed' : h < nextMmrBlockHeight \/ h > sync.upTo
      BY <1>3, <1>5, <3>1 DEF TailInv
    <3> QED
      BY <1>1, <1>3, <1>8, <3>1, <3>2, NoneIsNoNat DEF TailInv
  <2>2. sync.at \in {"row", "root"} => BatchInv'
    <3> SUFFICES ASSUME sync.at \in {"row", "root"}
                 PROVE  BatchInv'
      OBVIOUS
    <3>1. BatchInv
      BY DEF Inv, SyncInv
    <3>2. Len(sync.batch) \in 1 .. Len(sync.batch)
      BY BatchFirst
    <3>3. sync.batch[Len(sync.batch)] \in Rowed
      BY <3>1, <3>2 DEF BatchInv
    <3>4. ~ (b <= sync.batch[Len(sync.batch)])
      BY <1>3, <1>4, <3>3
    <3>5. \A h \in Rowed' : nextMmrBlockHeight <= h /\ h <= sync.batch[Len(sync.batch)] =>
            \E i \in 1 .. Len(sync.batch) : h = sync.batch[i]
      BY <1>5, <3>1, <3>4 DEF BatchInv
    <3> QED
      BY <1>1, <1>5, <3>1, <3>5 DEF BatchInv
  <2>3. sync.at = "root" => poi'[nextMmrBlockHeight].root = NULL_ROOT
    BY <1>5, BatchFirst DEF Inv, SyncInv
  <2> QED
    BY <1>1, <1>3, <1>8, <1>10, <2>1, <2>2, <2>3, NoneIsNoNat DEF Inv, SyncInv
<1>17. FileInv'
  <2>1. offsetStored' # None /\ offsetStored' + LeafLength' <= lastProcessedHeight'
    BY <1>1, <1>3, <1>8, <1>10, <1>11, NoneIsNoNat
  <2>2. \A i \in 1 .. LeafLength : mmr[i] = LeafOf(blockOffset + i)'
    <3> SUFFICES ASSUME NEW i \in 1 .. LeafLength
                 PROVE  mmr[i] = LeafOf(blockOffset + i)'
      OBVIOUS
    <3>1. offsetStored # None /\ offsetStored = blockOffset
      BY <1>8, <1>10
    <3>2. blockOffset + LeafLength <= lastProcessedHeight /\ mmr[i] = LeafOf(blockOffset + i)
      BY <3>1 DEF Inv, FileInv
    <3>3. blockOffset + i # b
      BY <1>3, <1>10, <3>2
    <3> QED
      BY <1>1, <1>5, <3>2, <3>3 DEF LeafOf
  <2>3. RootsAreRoots'
    <3> SUFFICES ASSUME NEW h \in WithRoot
                 PROVE  /\ h - offsetStored' <= LeafLength'
                        /\ poi'[h].root = Root(h - offsetStored)'
      BY <1>9 DEF RootsAreRoots
    <3>1. h \in Rowed /\ offsetStored' = offsetStored
      BY <1>8 DEF WithRoot, Rowed, Inv, RowsInv
    <3> QED
      BY <1>1, <1>5, <1>10, <3>1 DEF Inv, FileInv, RootsAreRoots, Root
  <2>4. HasGreatest(WithRoot)'
    BY <1>9 DEF Inv, FileInv, HasGreatest, GreatestIn
  <2> QED
    BY <1>1, <1>8, <1>10, <2>1, <2>2, <2>3, <2>4 DEF FileInv, LeafOf
<1> QED
  BY <1>12, <1>13, <1>14, <1>15, <1>16, <1>17 DEF Inv

LEMMA CommitBlockKeeps == Inv /\ CommitBlock => Inv'
  BY CommitEmptyKeeps, CommitRowKeeps

-----------------------------------------------------------------------------
(* The synchronisation's steps. *)

LEMMA OpenFileKeeps == Inv /\ OpenFile => Inv'
<1> SUFFICES ASSUME Inv, OpenFile
             PROVE  Inv'
  OBVIOUS
<1>1. /\ up /\ sync.at = "open" /\ nextMmrBlockHeight' = LeafLength + blockOffset + 1
      /\ sync' = [sync EXCEPT !.at = "fetch"]
      /\ UNCHANGED <<database, mmr, up, indexer, crashes>>
  BY DEF OpenFile
<1>2. blockOffset \in Nat /\ LeafLength \in Nat
  BY <1>1, Offsets
<1>3. sync'.at = "fetch" /\ sync' \in SyncType
  BY <1>1 DEF Inv, Types, SyncType
<1>4. Types'
  BY <1>1, <1>2, <1>3 DEF Inv, Types, database, indexer, Rowed
<1>5. RowsInv' /\ FileInv' /\ BlockInv' /\ OffsetInv'
  BY <1>1, RowsKept, FileKept, IndexerKept DEF Inv
<1>6. SyncInv'
  BY <1>1, <1>2, <1>3, NoneIsNoNat DEF SyncInv, LeafLength, indexer
<1> QED
  BY <1>4, <1>5, <1>6 DEF Inv

LEMMA LeastOf ==
  ASSUME NEW S \in SUBSET Nat, S # {}
  PROVE  \E m \in S : \A k \in S : m <= k
<1> DEFINE R == OpToRel(<, Nat)
<1>1. IsWellFoundedOn(R, Nat)
  BY NatLessThanWellFounded
<1>2. \A x, y \in Nat : x < y => <<x, y>> \in R
  BY DEF OpToRel
<1> HIDE DEF R
<1>3. PICK m \in S : \A k \in S : ~ (<<k, m>> \in R)
  BY <1>1, WFMin
<1>4. \A k \in S : ~ (k < m)
  BY <1>2, <1>3
<1> QED
  BY <1>4

\* The batch has n rows in ascending order out of a set of n: it misses none of them.
LEMMA FetchRowsKeeps == Inv /\ FetchRows => Inv'
<1> SUFFICES ASSUME Inv, FetchRows
             PROVE  Inv'
  OBVIOUS
<1> DEFINE S == {h \in Rows : InRange(h)}
           n == Cardinality(S)
<1>1. PICK batch \in [1 .. n -> S] :
        /\ \A i, j \in DOMAIN batch : i < j => batch[i] < batch[j]
        /\ sync' = [sync EXCEPT !.at = "row", !.batch = batch]
  BY DEF FetchRows
<1>2. /\ up /\ sync.at = "fetch" /\ Rows # {}
      /\ UNCHANGED <<database, mmr, up, indexer, nextMmrBlockHeight, crashes>>
  BY DEF FetchRows
<1>3. Rows \subseteq Rowed /\ Rows \subseteq Nat /\ \A h \in Rows : h >= nextMmrBlockHeight
  BY RowedNat DEF Rows, Rowed, Inv
<1>4. IsFiniteSet(Rows)
  <2>1. Rows \subseteq 0 .. lastProcessedHeight
    BY <1>3 DEF Inv, RowsInv, Types
  <2>2. IsFiniteSet(0 .. lastProcessedHeight)
    BY FS_Interval DEF Inv, Types
  <2> QED
    BY <2>1, <2>2, FS_Subset
<1>5. IsFiniteSet(S) /\ n = Cardinality(S) /\ n \in Nat /\ S \subseteq Rows
  BY <1>4, FS_Subset, FS_CardinalityType
<1> HIDE DEF S, n
<1>6. \A i, j \in 1 .. n : i < j => batch[i] < batch[j]
  BY <1>1
<1>7. \A h \in S : \E i \in 1 .. n : h = batch[i]
  <2>1. Cardinality(1 .. n) = n
    BY <1>5, FS_Interval
  <2>2. batch \in Injection(1 .. n, S)
    <3>1. batch \in [1 .. n -> S]
      BY <1>1
    <3>2. ASSUME NEW i \in 1 .. n, NEW j \in 1 .. n, batch[i] = batch[j] PROVE i = j
      <4>1. batch[i] \in Nat /\ batch[j] \in Nat
        BY <1>1, <1>3, <1>5
      <4>2. CASE i < j
        BY <1>6, <3>2, <4>1, <4>2
      <4>3. CASE j < i
        BY <1>6, <3>2, <4>1, <4>3
      <4> QED
        BY <1>5, <4>2, <4>3
    <3> QED
      BY <3>1, <3>2 DEF Injection, IsInjective
  <2>3. batch \in Surjection(1 .. n, S)
    BY <1>5, <2>1, <2>2, FS_Injection
  <2> QED
    BY <2>3 DEF Surjection
<1>8. \A h \in Rows, k \in S : h <= k => h \in S
  <2> SUFFICES ASSUME NEW h \in Rows, NEW k \in S, h <= k
               PROVE  h \in S
    OBVIOUS
  <2> DEFINE lh == {x \in Rows : x < h}
             lk == {x \in Rows : x < k}
  <2>1. lh \subseteq lk /\ lk \subseteq Rows
    <3>1. k \in Nat /\ h \in Nat /\ \A x \in Rows : x \in Nat
      BY <1>3, <1>5
    <3>2. \A x \in Rows : x < h => x < k
      BY <3>1
    <3> QED
      BY <3>2
  <2>2. IsFiniteSet(lk) /\ IsFiniteSet(lh) /\ Cardinality(lh) <= Cardinality(lk)
    BY <1>4, <2>1, FS_Subset
  <2>3. Cardinality(lk) < FetchRange /\ Cardinality(lh) \in Nat /\ Cardinality(lk) \in Nat
    BY <2>2, FS_CardinalityType DEF InRange, S
  <2>4. Cardinality(lh) < FetchRange
    BY <2>2, <2>3, ConstantsOK
  <2> QED
    BY <2>4 DEF InRange, S
<1>9. n # 0
  <2>1. PICK m \in Rows : \A k \in Rows : m <= k
    BY <1>2, <1>3, LeastOf
  <2>2. {x \in Rows : x < m} = {}
    <3>1. \A x \in Rows : ~ (x < m)
      BY <1>3, <2>1
    <3> QED
      BY <3>1
  <2>3. Cardinality({x \in Rows : x < m}) = 0
    BY <2>2, FS_EmptySet
  <2>4. m \in S
    BY <2>3, ConstantsOK DEF InRange, S
  <2> QED
    BY <1>5, <2>4, FS_EmptySet DEF n
<1>10. /\ sync'.at = "row" /\ sync'.batch = batch /\ batch \in Seq(Nat) /\ Len(batch) = n
       /\ sync' \in SyncType
  <2>1. batch \in Seq(Nat) /\ Len(batch) = n
    <3>1. batch \in [1 .. n -> Nat]
      BY <1>1, <1>3, <1>5
    <3> QED
      BY <1>5, <3>1
  <2> QED
    BY <1>1, <2>1 DEF Inv, Types, SyncType
<1>11. Types'
  BY <1>2, <1>10 DEF Inv, Types, database, indexer, Rowed
<1>12. RowsInv' /\ FileInv' /\ BlockInv' /\ OffsetInv'
  BY <1>2, RowsKept, FileKept, IndexerKept DEF Inv
<1>13. BatchInv'
  <2>1. Rowed' = Rowed /\ nextMmrBlockHeight' = nextMmrBlockHeight /\ nextMmrBlockHeight \in Nat
    BY <1>2 DEF database, Rowed, Inv, Types
  <2>2. batch # <<>>
    BY <1>9, <1>10
  <2>3. \A i \in 1 .. n : batch[i] \in S /\ batch[i] \in Rows /\ batch[i] \in Rowed
                          /\ batch[i] >= nextMmrBlockHeight
    BY <1>1, <1>3, <1>5
  <2>4. ASSUME NEW h \in Rowed, nextMmrBlockHeight <= h, h <= batch[n]
        PROVE  \E i \in 1 .. n : h = batch[i]
    <3>1. n \in 1 .. n
      BY <1>5, <1>9
    <3>2. h \in Rows
      BY <2>1, <2>4, RowedNat DEF Rows, Rowed, Inv
    <3>3. h \in S
      BY <1>8, <2>3, <2>4, <3>1, <3>2
    <3> QED
      BY <1>7, <3>3
  <2> QED
    BY <1>6, <1>10, <2>1, <2>2, <2>3, <2>4 DEF BatchInv
<1>14. SyncInv'
  <2>1. offsetStored # None
    BY <1>2, <1>3 DEF Inv, RowsInv
  <2> QED
    BY <1>2, <1>10, <1>13, <2>1 DEF Inv, SyncInv, LeafLength, database, indexer
<1> QED
  BY <1>11, <1>12, <1>14 DEF Inv

LEMMA NoRowsKeeps == Inv /\ NoRows => Inv'
<1> SUFFICES ASSUME Inv, NoRows
             PROVE  Inv'
  OBVIOUS
<1>1. /\ up /\ sync.at = "fetch" /\ sync' = [sync EXCEPT !.at = "meta"]
      /\ UNCHANGED <<database, mmr, up, indexer, nextMmrBlockHeight, crashes>>
  BY DEF NoRows
<1>2. sync'.at = "meta" /\ sync' \in SyncType
  BY <1>1 DEF Inv, Types, SyncType
<1>3. Types'
  BY <1>1, <1>2 DEF Inv, Types, database, indexer, Rowed
<1>4. RowsInv' /\ FileInv' /\ BlockInv' /\ OffsetInv'
  BY <1>1, RowsKept, FileKept, IndexerKept DEF Inv
<1>5. SyncInv'
  BY <1>1, <1>2 DEF Inv, SyncInv, LeafLength, indexer, database
<1> QED
  BY <1>3, <1>4, <1>5 DEF Inv

\* The next height has no row, and the rows of the batch are committed.
LEMMA FillGapKeeps == Inv /\ FillGap => Inv'
<1> SUFFICES ASSUME Inv, FillGap
             PROVE  Inv'
  OBVIOUS
<1>1. /\ up /\ sync.at = "row" /\ nextMmrBlockHeight < Head(sync.batch)
      /\ mmr' = Append(mmr, DEFAULT_LEAF) /\ nextMmrBlockHeight' = nextMmrBlockHeight + 1
      /\ UNCHANGED <<database, up, indexer, sync, crashes>>
  BY DEF FillGap
<1>2. /\ offsetStored # None /\ blockOffset = offsetStored /\ blockOffset \in Nat
      /\ LeafLength \in Nat /\ nextMmrBlockHeight \in Nat
      /\ nextMmrBlockHeight = LeafLength + blockOffset + 1
  BY <1>1, Offsets DEF Inv, SyncInv, Types
<1>3. Head(sync.batch) \in Rowed /\ Head(sync.batch) \in Nat
  BY <1>1, BatchFirst
<1>4. nextMmrBlockHeight \notin Rowed
  <2>1. nextMmrBlockHeight \in Rowed => Head(sync.batch) <= nextMmrBlockHeight
    BY <1>1, <1>2, BatchFirst
  <2> QED
    BY <1>1, <1>2, <1>3, <2>1
<1>5. FileInv' /\ mmr' \in Seq(Seq(Nat)) /\ LeafLength' = LeafLength + 1
  <2>1. Head(sync.batch) <= lastProcessedHeight /\ lastProcessedHeight \in Nat
    BY <1>3 DEF Inv, RowsInv, Types
  <2>2. /\ offsetStored + LeafLength + 1 = nextMmrBlockHeight
        /\ offsetStored + LeafLength + 1 <= lastProcessedHeight
    BY <1>1, <1>2, <1>3, <2>1
  <2>3. DEFAULT_LEAF = LeafOf(offsetStored + LeafLength + 1) /\ DEFAULT_LEAF \in Seq(Nat)
    BY <1>4, <2>2 DEF LeafOf, DEFAULT_LEAF
  <2> QED
    BY <1>1, <1>2, <2>2, <2>3, AppendKeeps
<1>6. Types'
  BY <1>1, <1>2, <1>5 DEF Inv, Types, database, indexer, Rowed
<1>7. RowsInv' /\ BlockInv' /\ OffsetInv'
  BY <1>1, RowsKept, IndexerKept DEF Inv
<1>8. BatchInv'
  <2>1. \A i \in 1 .. Len(sync.batch) : sync.batch[i] >= nextMmrBlockHeight + 1
    <3> SUFFICES ASSUME NEW i \in 1 .. Len(sync.batch)
                 PROVE  sync.batch[i] >= nextMmrBlockHeight + 1
      OBVIOUS
    <3>1. sync.batch[i] \in Nat /\ Head(sync.batch) <= sync.batch[i]
      BY <1>1, BatchFirst
    <3> QED
      BY <1>1, <1>2, <1>3, <3>1
  <2>2. BatchInv /\ Rowed' = Rowed /\ sync' = sync
    BY <1>1 DEF Inv, SyncInv, database, Rowed
  <2>3. \A h \in Rowed : nextMmrBlockHeight + 1 <= h => nextMmrBlockHeight <= h
    BY <1>2, RowedNat DEF Inv
  <2> QED
    BY <1>1, <2>1, <2>2, <2>3 DEF BatchInv
<1>9. SyncInv'
  BY <1>1, <1>2, <1>5, <1>8, NoneIsNoNat DEF SyncInv, indexer, database
<1> QED
  BY <1>5, <1>6, <1>7, <1>9 DEF Inv

\* The leaf of a row is appended where its height puts it.
LEMMA AppendLeafKeeps == Inv /\ AppendLeaf => Inv'
<1> SUFFICES ASSUME Inv, AppendLeaf
             PROVE  Inv'
  OBVIOUS
<1> DEFINE h == Head(sync.batch)
<1>1. /\ up /\ sync.at = "row" /\ ~ (nextMmrBlockHeight < h)
      /\ mmr' = Append(mmr, poi[h].hash) /\ sync' = [sync EXCEPT !.at = "root"]
      /\ UNCHANGED <<database, up, indexer, nextMmrBlockHeight, crashes>>
  BY DEF AppendLeaf
<1>2. /\ offsetStored # None /\ blockOffset = offsetStored /\ blockOffset \in Nat
      /\ LeafLength \in Nat /\ nextMmrBlockHeight \in Nat
      /\ nextMmrBlockHeight = LeafLength + blockOffset + 1
  BY <1>1, Offsets DEF Inv, SyncInv, Types
<1>3. h \in Rowed /\ h \in Nat /\ h = sync.batch[1] /\ 1 \in 1 .. Len(sync.batch)
  BY <1>1, BatchFirst
<1>4. h = nextMmrBlockHeight
  <2>1. h >= nextMmrBlockHeight
    BY <1>1, <1>3 DEF Inv, SyncInv, BatchInv
  <2> QED
    BY <1>1, <1>2, <1>3, <2>1
<1> HIDE DEF h
<1>5. FileInv' /\ mmr' \in Seq(Seq(Nat)) /\ LeafLength' = LeafLength + 1
  <2>1. h <= lastProcessedHeight
    BY <1>3 DEF Inv, RowsInv
  <2>2. offsetStored + LeafLength + 1 = h /\ offsetStored + LeafLength + 1 <= lastProcessedHeight
    BY <1>2, <1>4, <2>1
  <2>3. poi[h].hash = LeafOf(offsetStored + LeafLength + 1) /\ poi[h].hash \in Seq(Nat)
    BY <1>3, <2>2 DEF LeafOf, Inv, Types, RowType
  <2> QED
    BY <1>1, <1>2, <2>2, <2>3, AppendKeeps
<1>6. /\ sync'.at = "root" /\ sync'.batch = sync.batch /\ sync' \in SyncType
  BY <1>1 DEF Inv, Types, SyncType
<1>7. Types'
  BY <1>1, <1>5, <1>6 DEF Inv, Types, database, indexer, Rowed
<1>8. RowsInv' /\ BlockInv' /\ OffsetInv'
  BY <1>1, RowsKept, IndexerKept DEF Inv
<1>9. poi[h].root = NULL_ROOT
  <2>1. h \in WithRoot => h - offsetStored <= LeafLength
    BY DEF Inv, FileInv, RootsAreRoots
  <2>2. h \notin WithRoot
    BY <1>2, <1>4, <2>1
  <2> QED
    BY <1>3, <2>2 DEF WithRoot, Rowed
<1>10. BatchInv'
  <2>1. BatchInv /\ Rowed' = Rowed
    BY <1>1 DEF Inv, SyncInv, database, Rowed
  <2> QED
    BY <1>1, <1>6, <2>1 DEF BatchInv
<1>11. SyncInv'
  <2>1. Head(sync'.batch) = nextMmrBlockHeight'
    BY <1>1, <1>4, <1>6 DEF h
  <2>2. nextMmrBlockHeight' = LeafLength' + blockOffset'
    BY <1>1, <1>2, <1>5 DEF indexer
  <2> QED
    BY <1>1, <1>2, <1>4, <1>6, <1>9, <1>10, <2>1, <2>2, NoneIsNoNat DEF SyncInv, indexer, database
<1> QED
  BY <1>5, <1>7, <1>8, <1>11 DEF Inv

\* Only the root of one row changes: the chain and what the indexer holds stay.
LEMMA UpdateRootKeepsRows ==
  ASSUME Inv, UpdateRoot
  PROVE  /\ RowsInv' /\ BlockInv' /\ OffsetInv' /\ Rowed' = Rowed
         /\ poi' \in [Rowed -> RowType]
         /\ \A h \in Rowed : poi'[h].hash = poi[h].hash
         /\ \A h \in Rowed : h # Head(sync.batch) => poi'[h] = poi[h]
         /\ poi'[Head(sync.batch)].root = Root(LeafIndex(Head(sync.batch)) + 1)
<1> DEFINE h == Head(sync.batch)
           r == Root(LeafIndex(h) + 1)
<1>1. /\ up /\ sync.at = "root" /\ poi' = [poi EXCEPT ![h].root = r]
      /\ UNCHANGED <<lastProcessedHeight, lastPoiHeight, offsetStored, mmr, up, indexer, crashes>>
  BY DEF UpdateRoot
<1>2. h \in Rowed /\ h \in Nat /\ poi \in [Rowed -> RowType]
  BY <1>1, BatchFirst DEF Inv, Types
<1>3. r \in Seq(Seq(Nat))
  <2>1. blockOffset \in Nat /\ mmr \in Seq(Seq(Nat)) /\ LeafLength \in Nat
        /\ nextMmrBlockHeight = LeafLength + blockOffset /\ h = nextMmrBlockHeight
    BY <1>1, Offsets DEF Inv, Types, SyncInv
  <2>2. LeafIndex(h) + 1 = Len(mmr)
    BY <2>1 DEF LeafIndex, LeafLength
  <2>3. SubSeq(mmr, 1, Len(mmr)) \in Seq(Seq(Nat))
    BY <2>1
  <2> QED
    BY <2>2, <2>3 DEF Root
<1> HIDE DEF h, r
<1>4. /\ Rowed' = Rowed /\ poi' \in [Rowed -> RowType]
      /\ \A k \in Rowed : poi'[k].hash = poi[k].hash /\ poi'[k].parent = poi[k].parent
      /\ \A k \in Rowed : k # h => poi'[k] = poi[k]
      /\ poi'[h].root = r
  <2> DEFINE new == [poi[h] EXCEPT !.root = r]
  <2>1. poi[h] \in RowType
    BY <1>2
  <2>2. /\ new \in RowType /\ new.hash = poi[h].hash /\ new.parent = poi[h].parent
        /\ new.root = r
    BY <1>3, <2>1 DEF RowType
  <2>3. poi' = [poi EXCEPT ![h] = new]
    BY <1>1
  <2> HIDE DEF new
  <2>4. Rowed' = Rowed /\ poi'[h] = new /\ \A k \in Rowed : k # h => poi'[k] = poi[k]
    BY <1>2, <2>3 DEF Rowed
  <2>5. poi' \in [Rowed -> RowType]
    BY <1>2, <2>2, <2>3
  <2> QED
    BY <2>2, <2>4, <2>5
<1>5. LastHash' = LastHash
  BY <1>1, <1>4 DEF LastHash, Inv, RowsInv
<1>6. RowsInv'
  <2>1. RowsFormAChain'
    <3>1. ASSUME NEW k \in Rowed
          PROVE  poi'[k].parent = IF Below(k) = {} THEN <<>> ELSE poi'[Greatest(Below(k))].hash
      <4>1. poi[k].parent = IF Below(k) = {} THEN <<>> ELSE poi[Greatest(Below(k))].hash
        BY DEF Inv, RowsInv, RowsFormAChain, Below
      <4>2. Below(k) # {} => Greatest(Below(k)) \in Rowed
        <5> SUFFICES ASSUME Below(k) # {} PROVE Greatest(Below(k)) \in Rowed
          OBVIOUS
        <5>1. PICK m \in Below(k) : GreatestIn(Below(k), m)
          BY DEF Inv, RowsInv, HasGreatest
        <5>2. Below(k) \in SUBSET Nat /\ m \in Rowed
          BY RowedNat DEF Below, Inv
        <5>3. Greatest(Below(k)) = m
          BY <5>1, <5>2, GreatestUnique
        <5> QED
          BY <5>2, <5>3
      <4> QED
        BY <1>4, <4>1, <4>2
    <3> QED
      BY <1>4, <3>1 DEF RowsFormAChain, Below, Greatest
  <2>2. \A k \in Rowed' : HasGreatest(Below(k))'
    BY <1>4 DEF Inv, RowsInv, HasGreatest, GreatestIn, Below
  <2> QED
    BY <1>1, <1>4, <2>1, <2>2 DEF Inv, RowsInv
<1>7. BlockInv' /\ OffsetInv'
  <2>1. RowUnderWay' = RowUnderWay
    BY <1>1 DEF RowUnderWay, indexer
  <2> QED
    BY <1>1, <1>5, <2>1 DEF Inv, BlockInv, OffsetInv, indexer
<1> QED
  BY <1>4, <1>6, <1>7 DEF h, r

LEMMA UpdateRootKeeps == Inv /\ UpdateRoot => Inv'
<1> SUFFICES ASSUME Inv, UpdateRoot
             PROVE  Inv'
  OBVIOUS
<1> DEFINE h == Head(sync.batch)
           b == sync.batch
           t == Tail(sync.batch)
<1>1. /\ up /\ sync.at = "root" /\ nextMmrBlockHeight' = h + 1 /\ sync' = AfterRow
      /\ UNCHANGED <<lastProcessedHeight, lastPoiHeight, offsetStored, mmr, up, indexer, crashes>>
  BY DEF UpdateRoot
<1>2. /\ RowsInv' /\ BlockInv' /\ OffsetInv' /\ Rowed' = Rowed
      /\ poi' \in [Rowed -> RowType]
      /\ \A k \in Rowed : poi'[k].hash = poi[k].hash
      /\ \A k \in Rowed : k # h => poi'[k] = poi[k]
      /\ poi'[h].root = Root(LeafIndex(h) + 1)
  BY UpdateRootKeepsRows
<1>3. /\ offsetStored # None /\ blockOffset = offsetStored /\ blockOffset \in Nat
      /\ LeafLength \in Nat /\ LeafLength' = LeafLength
      /\ h = LeafLength + blockOffset /\ h = nextMmrBlockHeight /\ poi[h].root = NULL_ROOT
  BY <1>1, Offsets DEF Inv, SyncInv, LeafLength
<1>4. /\ b \in Seq(Nat) /\ Len(b) \in Nat \ {0} /\ h = b[1] /\ h \in Rowed /\ h \in Nat
      /\ \A i \in 1 .. Len(b) : b[i] \in Nat /\ h <= b[i] /\ (i # 1 => h < b[i])
  BY <1>1, BatchFirst
<1>5. BatchInv
  BY <1>1 DEF Inv, SyncInv
<1>6. /\ t \in Seq(Nat) /\ Len(t) = Len(b) - 1 /\ \A i \in 1 .. Len(t) : t[i] = b[i + 1]
  BY <1>4, HeadTailProperties
<1> HIDE DEF h, b, t
<1>7. ASSUME t = <<>>
      PROVE  SyncInv' /\ sync' \in SyncType
  <2>1. sync' = [SyncOff EXCEPT !.at = "fetch"]
    BY <1>1, <1>7 DEF AfterRow, t
  <2>2. sync'.at = "fetch" /\ sync' \in SyncType
    BY <2>1, SyncOffType DEF SyncType, SyncOff
  <2>3. SyncInv'
    BY <1>1, <1>3, <2>2, NoneIsNoNat DEF SyncInv, indexer
  <2> QED
    BY <2>2, <2>3
<1>8. ASSUME t # <<>>
      PROVE  SyncInv' /\ sync' \in SyncType
  <2>1. sync' = [sync EXCEPT !.at = "row", !.batch = t]
    BY <1>1, <1>8 DEF AfterRow, t
  <2>2. sync'.at = "row" /\ sync'.batch = t /\ sync' \in SyncType
    BY <1>6, <2>1 DEF SyncType, Inv, Types
  <2>3. Len(t) \in Nat \ {0}
    BY <1>4, <1>6, <1>8
  <2>4. \A i \in 1 .. Len(t) : i + 1 \in 1 .. Len(b) /\ i + 1 # 1
    BY <1>4, <1>6
  <2>5. \A i \in 1 .. Len(t) : t[i] \in Rowed /\ t[i] >= h + 1
    <3> SUFFICES ASSUME NEW i \in 1 .. Len(t) PROVE t[i] \in Rowed /\ t[i] >= h + 1
      OBVIOUS
    <3>1. t[i] = b[i + 1] /\ b[i + 1] \in Nat /\ h < b[i + 1]
      BY <1>4, <1>6, <2>4
    <3>2. b[i + 1] \in Rowed
      BY <1>5, <2>4 DEF BatchInv, b
    <3> QED
      BY <1>4, <3>1, <3>2
  <2>6. \A i, j \in 1 .. Len(t) : i < j => t[i] < t[j]
    <3> SUFFICES ASSUME NEW i \in 1 .. Len(t), NEW j \in 1 .. Len(t), i < j
                 PROVE  t[i] < t[j]
      OBVIOUS
    <3>1. i + 1 \in 1 .. Len(b) /\ j + 1 \in 1 .. Len(b) /\ i + 1 < j + 1
      BY <2>4
    <3>2. b[i + 1] < b[j + 1]
      BY <1>5, <3>1 DEF BatchInv, b
    <3> QED
      BY <1>6, <3>2
  <2>7. ASSUME NEW k \in Rowed, h + 1 <= k, k <= t[Len(t)]
        PROVE  \E i \in 1 .. Len(t) : k = t[i]
    <3>1. k \in Nat /\ h <= k /\ k # h
      BY <1>4, <2>7, RowedNat DEF Inv
    <3>2. t[Len(t)] = b[Len(b)]
      BY <1>4, <1>6, <2>3
    <3>3. PICK i \in 1 .. Len(b) : k = b[i]
      BY <1>3, <1>5, <2>7, <3>1, <3>2 DEF BatchInv, b
    <3>4. i # 1
      BY <1>4, <3>1, <3>3
    <3>5. i - 1 \in 1 .. Len(t) /\ (i - 1) + 1 = i
      BY <1>4, <1>6, <3>4
    <3>6. t[i - 1] = b[i]
      BY <1>6, <3>5
    <3> QED
      BY <3>3, <3>5, <3>6
  <2>8. BatchInv'
    BY <1>1, <1>2, <1>8, <2>2, <2>5, <2>6, <2>7 DEF BatchInv
  <2>9. SyncInv'
    <3>1. nextMmrBlockHeight' = LeafLength' + blockOffset' + 1
      BY <1>1, <1>3 DEF indexer
    <3> QED
      BY <1>1, <1>3, <2>2, <2>8, <3>1, NoneIsNoNat DEF SyncInv, indexer
  <2> QED
    BY <2>2, <2>9
<1>9. SyncInv' /\ sync' \in SyncType
  BY <1>7, <1>8
<1>10. Types'
  BY <1>1, <1>2, <1>4, <1>9 DEF Inv, Types, indexer
<1>11. FileInv'
  <2>1. WithRoot \subseteq WithRoot' /\ WithRoot' \subseteq WithRoot \cup {h} /\ h \notin WithRoot
    <3>1. h \notin WithRoot
      BY <1>3 DEF WithRoot
    <3>2. \A k \in Rowed : k # h => (k \in WithRoot <=> k \in WithRoot')
      BY <1>2 DEF WithRoot, Rowed
    <3>3. WithRoot \subseteq Rowed /\ WithRoot' \subseteq Rowed
      BY <1>2 DEF WithRoot, Rowed
    <3> QED
      BY <3>1, <3>2, <3>3
  <2>2. \A n \in Int : Root(n)' = Root(n)
    BY <1>1 DEF Root
  <2>3. LeafIndex(h) + 1 = h - offsetStored /\ h - offsetStored = LeafLength
    BY <1>3, <1>4 DEF LeafIndex
  <2>4. RootsAreRoots'
    <3> SUFFICES ASSUME NEW k \in WithRoot'
                 PROVE  k - offsetStored <= LeafLength /\ poi'[k].root = Root(k - offsetStored)
      BY <1>1, <1>3 DEF RootsAreRoots, Root
    <3>1. CASE k = h
      BY <1>2, <1>3, <2>3, <3>1
    <3>2. CASE k # h
      <4>1. k \in WithRoot /\ k \in Rowed
        BY <2>1, <3>2 DEF WithRoot, Rowed
      <4> QED
        BY <1>2, <3>2, <4>1 DEF Inv, FileInv, RootsAreRoots
    <3> QED
      BY <3>1, <3>2
  <2>5. HasGreatest(WithRoot')
    <3>1. CASE h \notin WithRoot'
      <4>1. WithRoot' = WithRoot
        BY <2>1, <3>1
      <4> QED
        BY <4>1 DEF Inv, FileInv
    <3>2. CASE h \in WithRoot'
      <4>1. \A k \in WithRoot : k <= h
        <5> SUFFICES ASSUME NEW k \in WithRoot PROVE k <= h
          OBVIOUS
        <5>1. k \in Nat /\ k - offsetStored <= LeafLength
          BY RowedNat DEF Inv, FileInv, RootsAreRoots, WithRoot, Rowed
        <5> QED
          BY <1>3, <1>4, <5>1
      <4>2. GreatestIn(WithRoot', h)
        BY <1>4, <2>1, <3>2, <4>1 DEF GreatestIn
      <4> QED
        BY <3>2, <4>2 DEF HasGreatest
    <3> QED
      BY <3>1, <3>2
  <2>6. HasGreatest(WithRoot)'
    BY <2>5 DEF HasGreatest, GreatestIn
  <2>7. offsetStored + LeafLength <= lastProcessedHeight
        /\ \A i \in 1 .. LeafLength : mmr[i] = LeafOf(offsetStored + i)
    BY <1>3 DEF Inv, FileInv
  <2>8. \A x : LeafOf(x)' = LeafOf(x)
    BY <1>2 DEF LeafOf
  <2> QED
    BY <1>1, <1>3, <2>4, <2>6, <2>7, <2>8 DEF FileInv, LeafOf
<1> QED
  BY <1>2, <1>9, <1>10, <1>11 DEF Inv

LEMMA ReadMetadataKeeps == Inv /\ ReadMetadata => Inv'
<1> SUFFICES ASSUME Inv, ReadMetadata
             PROVE  Inv'
  OBVIOUS
<1> DEFINE reaches == /\ lastPoiHeight # 0 /\ nextMmrBlockHeight > lastPoiHeight
                      /\ nextMmrBlockHeight <= lastProcessedHeight
<1>1. /\ up /\ sync.at = "meta"
      /\ reaches => sync' = [sync EXCEPT !.at = "tail", !.upTo = lastProcessedHeight]
      /\ ~ reaches => sync' = [sync EXCEPT !.at = "fetch"]
      /\ UNCHANGED <<database, mmr, up, indexer, nextMmrBlockHeight, crashes>>
  BY DEF ReadMetadata
<1>2. /\ reaches => sync'.at = "tail" /\ sync'.upTo = lastProcessedHeight
      /\ ~ reaches => sync'.at = "fetch"
      /\ sync' \in SyncType
  BY <1>1 DEF Inv, Types, SyncType
<1>3. Types'
  BY <1>1, <1>2 DEF Inv, Types, database, indexer, Rowed
<1>4. RowsInv' /\ FileInv' /\ BlockInv' /\ OffsetInv'
  BY <1>1, RowsKept, FileKept, IndexerKept DEF Inv
<1>5. reaches => TailInv'
  <2> SUFFICES ASSUME reaches
               PROVE  TailInv'
    OBVIOUS
  <2>1. Rowed # {} /\ offsetStored # None
    BY DEF Inv, RowsInv
  <2>2. lastPoiHeight \in Nat /\ nextMmrBlockHeight \in Nat /\ lastProcessedHeight \in Nat
    BY DEF Inv, Types
  <2>3. \A h \in Rowed : h < nextMmrBlockHeight
    <3> SUFFICES ASSUME NEW h \in Rowed PROVE h < nextMmrBlockHeight
      OBVIOUS
    <3>1. h \in Nat /\ h <= lastPoiHeight
      BY RowedNat DEF Inv, RowsInv
    <3> QED
      BY <2>2, <3>1
  <2> QED
    BY <1>1, <1>2, <2>1, <2>2, <2>3 DEF TailInv, database, Rowed
<1>6. SyncInv'
  <2>1. blockOffset # None /\ nextMmrBlockHeight = LeafLength + blockOffset + 1
    BY <1>1 DEF Inv, SyncInv
  <2>2. reaches => offsetStored' # None
    BY <1>5 DEF TailInv
  <2> HIDE DEF reaches
  <2> QED
    BY <1>1, <1>2, <1>5, <2>1, <2>2 DEF SyncInv, LeafLength, indexer
<1> QED
  BY <1>3, <1>4, <1>6 DEF Inv

\* No row lies between the next height and the height the loop read.
LEMMA FillTailKeeps == Inv /\ FillTail => Inv'
<1> SUFFICES ASSUME Inv, FillTail
             PROVE  Inv'
  OBVIOUS
<1>1. /\ up /\ sync.at = "tail" /\ mmr' = Append(mmr, DEFAULT_LEAF)
      /\ nextMmrBlockHeight' = nextMmrBlockHeight + 1
      /\ nextMmrBlockHeight = sync.upTo => sync' = [SyncOff EXCEPT !.at = "fetch"]
      /\ nextMmrBlockHeight # sync.upTo => sync' = sync
      /\ UNCHANGED <<database, up, indexer, crashes>>
  BY DEF FillTail
<1>2. /\ offsetStored # None /\ blockOffset = offsetStored /\ blockOffset \in Nat
      /\ LeafLength \in Nat /\ nextMmrBlockHeight \in Nat
      /\ nextMmrBlockHeight = LeafLength + blockOffset + 1
      /\ sync.upTo \in Nat /\ sync \in SyncType /\ TailInv
  BY <1>1, Offsets DEF Inv, SyncInv, Types, SyncType
<1>3. FileInv' /\ mmr' \in Seq(Seq(Nat)) /\ LeafLength' = LeafLength + 1
  <2>1. nextMmrBlockHeight \notin Rowed /\ nextMmrBlockHeight <= lastProcessedHeight
        /\ lastProcessedHeight \in Nat
    <3>1. lastProcessedHeight \in Nat
      BY DEF Inv, Types
    <3>2. nextMmrBlockHeight <= sync.upTo /\ sync.upTo <= lastProcessedHeight
          /\ \A h \in Rowed : h < nextMmrBlockHeight \/ h > sync.upTo
      BY <1>2 DEF TailInv
    <3>3. nextMmrBlockHeight \notin Rowed
      BY <1>2, <3>2
    <3> QED
      BY <1>2, <3>1, <3>2, <3>3
  <2>2. /\ offsetStored + LeafLength + 1 = nextMmrBlockHeight
        /\ offsetStored + LeafLength + 1 <= lastProcessedHeight
    BY <1>2, <2>1
  <2>3. DEFAULT_LEAF = LeafOf(offsetStored + LeafLength + 1) /\ DEFAULT_LEAF \in Seq(Nat)
    BY <2>1, <2>2 DEF LeafOf, DEFAULT_LEAF
  <2> QED
    BY <1>1, <1>2, <2>2, <2>3, AppendKeeps
<1>4. /\ nextMmrBlockHeight = sync.upTo => sync'.at = "fetch"
      /\ sync' \in SyncType
  BY <1>1, <1>2, SyncOffType DEF SyncType, SyncOff
<1>5. Types'
  BY <1>1, <1>2, <1>3, <1>4 DEF Inv, Types, database, indexer, Rowed
<1>6. RowsInv' /\ BlockInv' /\ OffsetInv'
  BY <1>1, RowsKept, IndexerKept DEF Inv
<1>7. nextMmrBlockHeight # sync.upTo => TailInv'
  <2> SUFFICES ASSUME nextMmrBlockHeight # sync.upTo
               PROVE  TailInv'
    OBVIOUS
  <2>1. nextMmrBlockHeight + 1 <= sync.upTo
    BY <1>2 DEF TailInv
  <2>2. \A h \in Rowed : h < nextMmrBlockHeight + 1 \/ h > sync.upTo
    BY <1>2, RowedNat DEF TailInv, Inv
  <2> QED
    BY <1>1, <1>2, <2>1, <2>2 DEF TailInv, database, Rowed
<1>8. SyncInv'
  <2>1. nextMmrBlockHeight' = LeafLength' + blockOffset' + 1 /\ blockOffset' # None
        /\ offsetStored' # None
    BY <1>1, <1>2, <1>3, NoneIsNoNat DEF indexer, database
  <2>2. CASE nextMmrBlockHeight = sync.upTo
    BY <1>4, <2>1, <2>2 DEF SyncInv
  <2>3. CASE nextMmrBlockHeight # sync.upTo
    BY <1>1, <1>7, <2>1, <2>3 DEF SyncInv
  <2> QED
    BY <2>2, <2>3
<1> QED
  BY <1>3, <1>5, <1>6, <1>8 DEF Inv

-----------------------------------------------------------------------------
(* Exits and restarts. *)

LEMMA CrashKeeps == Inv /\ Crash => Inv'
<1> SUFFICES ASSUME Inv, Crash
             PROVE  Inv'
  OBVIOUS
<1>1. /\ up' = FALSE /\ blockOffset' = None /\ latestPoiBlockHash' = <<>> /\ block' = NoBlock
      /\ sync' = SyncOff /\ nextMmrBlockHeight' = 0 /\ crashes' = crashes + 1
      /\ UNCHANGED <<database, mmr>>
  BY DEF Crash, Exit
<1>2. Types'
  <2>1. crashes' \in Nat /\ None \in Nat \cup {None} /\ nextMmrBlockHeight' \in Nat
    BY <1>1 DEF Inv, Types
  <2>2. latestPoiBlockHash' \in Seq(Nat)
    BY <1>1, NoRowType
  <2> QED
    <3>1. block' \in BlockType /\ sync' \in SyncType /\ blockOffset' \in Nat \cup {None}
          /\ up' \in BOOLEAN
      BY <1>1, <2>1, NoBlockType, SyncOffType
    <3> QED
      BY <1>1, <2>1, <2>2, <3>1 DEF Inv, Types, database, Rowed
<1>3. RowsInv' /\ FileInv'
  BY <1>1, RowsKept, FileKept DEF Inv
<1>4. BlockInv' /\ OffsetInv' /\ SyncInv'
  BY <1>1 DEF BlockInv, OffsetInv, SyncInv, RowUnderWay, NoBlock, SyncOff
<1> QED
  BY <1>2, <1>3, <1>4 DEF Inv

\* The chain goes on from the last row stored.
LEMMA StartKeeps == Inv /\ Start => Inv'
<1> SUFFICES ASSUME Inv, Start
             PROVE  Inv'
  OBVIOUS
<1>1. /\ ~ up /\ up' = TRUE /\ blockOffset' = offsetStored
      /\ offsetStored # None => sync' = [SyncOff EXCEPT !.at = "open"]
      /\ offsetStored = None => sync' = SyncOff
      /\ latestPoiBlockHash' = IF Rowed = {} THEN <<>> ELSE poi[Greatest(Rowed)].hash
      /\ UNCHANGED <<database, mmr, block, nextMmrBlockHeight, crashes>>
  BY DEF Start, Rowed
<1>2. /\ offsetStored # None => sync'.at = "open"
      /\ offsetStored = None => sync'.at = "off"
      /\ sync' \in SyncType
  BY <1>1, SyncOffType DEF SyncOff, SyncType
<1>3. latestPoiBlockHash' = LastHash /\ LastHash \in Seq(Nat)
  <2>1. CASE Rowed = {}
    BY <1>1, <2>1, NoRowType DEF LastHash
  <2>2. CASE Rowed # {}
    <3>1. lastPoiHeight \in Rowed /\ GreatestIn(Rowed, lastPoiHeight)
      BY <2>2 DEF Inv, RowsInv, GreatestIn
    <3>2. Greatest(Rowed) = lastPoiHeight
      BY <3>1, RowedNat, GreatestUnique DEF Inv
    <3>3. poi[lastPoiHeight].hash \in Seq(Nat)
      BY <3>1 DEF Inv, Types, RowType
    <3> QED
      BY <1>1, <2>2, <3>2, <3>3 DEF LastHash
  <2> QED
    BY <2>1, <2>2
<1>4. Types'
  BY <1>1, <1>2, <1>3 DEF Inv, Types, database, Rowed
<1>5. RowsInv' /\ FileInv'
  BY <1>1, RowsKept, FileKept DEF Inv
<1>6. block' = NoBlock /\ ~ RowUnderWay' /\ LastHash' = LastHash
  BY <1>1 DEF Inv, BlockInv, RowUnderWay, NoBlock, LastHash, database, Rowed
<1>7. BlockInv' /\ OffsetInv'
  <2>1. block'.at = "none" /\ block'.offset = None
    BY <1>6 DEF NoBlock
  <2> QED
    BY <1>1, <1>3, <1>6, <2>1 DEF BlockInv, OffsetInv, database
<1>8. SyncInv'
  BY <1>1, <1>2 DEF SyncInv, database
<1> QED
  BY <1>4, <1>5, <1>7, <1>8 DEF Inv

LEMMA StutterKeeps == Inv /\ UNCHANGED vars => Inv'
<1> SUFFICES ASSUME Inv, UNCHANGED vars
             PROVE  Inv'
  OBVIOUS
<1>1. UNCHANGED <<database, mmr, up, indexer, sync, nextMmrBlockHeight, crashes>>
  BY DEF vars
<1>2. RowsInv' /\ FileInv'
  BY <1>1, RowsKept, FileKept DEF Inv
<1>3. Types'
  BY <1>1 DEF Inv, Types, database, indexer, Rowed
<1>4. LastHash' = LastHash /\ RowUnderWay' = RowUnderWay
  BY <1>1 DEF LastHash, RowUnderWay, database, indexer, Rowed
<1>5. BlockInv' /\ OffsetInv'
  BY <1>1, <1>4 DEF Inv, BlockInv, OffsetInv, database, indexer
<1>6. SyncInv'
  BY <1>1 DEF Inv, SyncInv, BatchInv, TailInv, database, indexer, Rowed, LeafLength
<1> QED
  BY <1>2, <1>3, <1>5, <1>6 DEF Inv

-----------------------------------------------------------------------------
(* Roots that are lost. *)

\* A hash ends with the height of its row, so no root is the default one.
HashInv ==
  /\ \A h \in Rowed : poi[h].hash = Append(poi[h].parent, h)
  /\ block.row # NoRow => block.row.hash = Append(block.row.parent, block.height)
AtRoot == IF sync.at = "root" THEN 1 ELSE 0
LostInv == HashInv /\ IsFiniteSet(Rootless) /\ Cardinality(Rootless) <= crashes + AtRoot

LEMMA HashIsNotZero ==
  ASSUME NEW p \in Seq(Nat), NEW h \in Nat \ {0}
  PROVE  Append(p, h) # << 0 >>
<1>1. Len(Append(p, h)) = Len(p) + 1 /\ Append(p, h)[Len(p) + 1] = h /\ Len(p) \in Nat
  BY AppendProperties
<1>2. ASSUME Append(p, h) = << 0 >> PROVE FALSE
  <2> DEFINE a == Append(p, h)
  <2>1. Len(a) = 1 /\ a[1] = 0
    BY <1>2
  <2> HIDE DEF a
  <2>2. Len(p) + 1 = 1
    BY <1>1, <2>1 DEF a
  <2>3. a[Len(p) + 1] = h
    BY <1>1 DEF a
  <2> QED
    BY <2>1, <2>2, <2>3
<1> QED
  BY <1>2

LEMMA HashKept ==
  ASSUME Inv, HashInv, [Next]_vars
  PROVE  HashInv'
<1>1. ASSUME poi' = poi, block'.row = NoRow \/ (block'.row = block.row /\ block'.height = block.height)
      PROVE  HashInv'
  BY <1>1 DEF HashInv, Rowed
<1>2. block.row # NoRow => block.at # "none"
  BY DEF Inv, BlockInv, NoBlock
<1>3. CASE BeginBlock
  <2>1. poi' = poi /\ block'.row = NoRow
    BY <1>3 DEF BeginBlock, database, NoBlock
  <2> QED
    BY <1>1, <2>1
<1>4. CASE FirstOffset \/ OffsetKnown
  <2>1. poi' = poi /\ block'.row = block.row /\ block'.height = block.height
    BY <1>4 DEF FirstOffset, OffsetKnown, database, Inv, Types, BlockType
  <2> QED
    BY <1>1, <2>1
<1>5. CASE CreatePoi
  <2>1. /\ poi' = poi /\ block'.height = block.height
        /\ block'.row = PoiRow(block.height, latestPoiBlockHash)
    BY <1>5 DEF CreatePoi, database, Inv, Types, BlockType
  <2>2. block'.row.hash = Append(block'.row.parent, block'.height)
    BY <2>1 DEF PoiRow
  <2> QED
    BY <2>1, <2>2 DEF HashInv, Rowed
<1>6. CASE CommitBlock
  <2>1. block'.row = NoRow
    BY <1>6 DEF CommitBlock, NoBlock
  <2>2. CASE block.row = NoRow
    BY <1>1, <1>6, <2>1, <2>2 DEF CommitBlock
  <2>3. CASE block.row # NoRow
    <3>1. poi' = [h \in Rowed \cup {block.height} |->
                    IF h = block.height THEN block.row ELSE poi[h]]
      BY <1>6, <2>3 DEF CommitBlock, Rowed
    <3> QED
      BY <2>1, <2>3, <3>1 DEF HashInv, Rowed
  <2> QED
    BY <2>2, <2>3
<1>7. CASE UpdateRoot
  <2>1. block' = block /\ poi' = [poi EXCEPT ![Head(sync.batch)].root =
                                   Root(LeafIndex(Head(sync.batch)) + 1)]
    BY <1>7 DEF UpdateRoot, indexer
  <2>2. Rowed' = Rowed /\ \A h \in Rowed : poi'[h].hash = poi[h].hash /\ poi'[h].parent = poi[h].parent
    BY <2>1 DEF Rowed, Inv, Types, RowType
  <2> QED
    BY <2>1, <2>2 DEF HashInv
<1>8. CASE OpenFile \/ FetchRows \/ NoRows \/ FillGap \/ AppendLeaf \/ ReadMetadata \/ FillTail
           \/ Start \/ UNCHANGED vars
  <2>1. poi' = poi /\ block' = block
    BY <1>8 DEF OpenFile, FetchRows, NoRows, FillGap, AppendLeaf, ReadMetadata, FillTail, Start,
                vars, database, indexer
  <2> QED
    BY <1>1, <2>1
<1>9. CASE Crash
  <2>1. poi' = poi /\ block'.row = NoRow
    BY <1>9 DEF Crash, Exit, database, NoBlock
  <2> QED
    BY <1>1, <2>1
<1> QED
  BY <1>3, <1>4, <1>5, <1>6, <1>7, <1>8, <1>9 DEF Next, IndexBlock, SyncFileBaseFromPoi

\* A step that touches neither the table nor the file loses no root.
LEMMA RootlessKept ==
  ASSUME LostInv, UNCHANGED <<poi, offsetStored, mmr>>
  PROVE  Rootless' = Rootless
  BY DEF Rootless, Rowed, LeafLength

\* Nor does a commit: the row's leaf is not in the file yet.
LEMMA CommitLosesNoRoot ==
  ASSUME Inv, CommitBlock
  PROVE  Rootless' = Rootless
<1> DEFINE b == block.height
<1>1. CASE block.row = NoRow
  <2>1. poi' = poi /\ mmr' = mmr /\ block.offset = None
    BY <1>1 DEF CommitBlock, Inv, OffsetInv, RowUnderWay
  <2> QED
    BY <2>1 DEF CommitBlock, Rootless, Rowed, LeafLength
<1>2. CASE block.row # NoRow
  <2>1. /\ up /\ poi' = [h \in Rowed \cup {b} |-> IF h = b THEN block.row ELSE poi[h]]
        /\ mmr' = mmr /\ RowUnderWay
        /\ offsetStored' = IF block.offset # None THEN block.offset ELSE offsetStored
    BY <1>2 DEF CommitBlock, Rowed, RowUnderWay
  <2>2. /\ b \in Nat /\ b > lastProcessedHeight /\ lastProcessedHeight \in Nat /\ blockOffset \in Nat
    BY <2>1 DEF Inv, BlockInv, RowUnderWay, Types, BlockType
  <2>3. /\ offsetStored # None => offsetStored' = offsetStored /\ offsetStored = blockOffset
        /\ offsetStored = None => offsetStored' = blockOffset /\ b = blockOffset + 1
    BY <2>1, <2>2 DEF Inv, OffsetInv, None
  <2>4. LeafLength' = LeafLength /\ LeafLength \in Nat /\ (offsetStored = None => LeafLength = 0)
    BY <2>1, LenProperties DEF LeafLength, Inv, Types, FileInv
  <2>5. \A h \in Rowed : h # b
    BY <2>2, RowedNat DEF Inv, RowsInv
  <2>6. ~ (b - offsetStored' <= LeafLength)
    <3>1. CASE offsetStored = None
      BY <2>2, <2>3, <2>4, <3>1
    <3>2. CASE offsetStored # None
      <4>1. offsetStored + LeafLength <= lastProcessedHeight
        BY <3>2 DEF Inv, FileInv
      <4> QED
        BY <2>2, <2>3, <2>4, <3>2, <4>1
    <3> QED
      BY <3>1, <3>2
  <2>7. \A h \in Rowed : poi'[h] = poi[h] /\ offsetStored' = offsetStored
    BY <2>1, <2>3, <2>5 DEF Inv, RowsInv
  <2>8. Rowed' = Rowed \cup {b}
    BY <2>1 DEF Rowed
  <2> HIDE DEF b
  <2> QED
    BY <2>4, <2>6, <2>7, <2>8 DEF Rootless
<1> QED
  BY <1>1, <1>2

\* A leaf more takes in at most the row of the next height.
LEMMA LeafMore ==
  ASSUME Inv, offsetStored \in Nat, UNCHANGED database, NEW leaf, mmr' = Append(mmr, leaf)
  PROVE  Rootless' \subseteq Rootless \cup ({offsetStored + LeafLength + 1} \cap Rowed)
         /\ Rootless \subseteq Rootless'
<1>1. LeafLength' = LeafLength + 1 /\ LeafLength \in Nat
  <2>1. mmr \in Seq(Seq(Nat))
    BY DEF Inv, Types
  <2> QED
    BY <2>1 DEF LeafLength
<1>2. Rowed' = Rowed /\ poi' = poi /\ offsetStored' = offsetStored /\ Rowed \subseteq Nat
  BY RowedNat DEF database, Rowed, Inv
<1>3. \A h \in Rowed : /\ h - offsetStored <= LeafLength => h - offsetStored <= LeafLength'
                       /\ h - offsetStored <= LeafLength' =>
                            h - offsetStored <= LeafLength \/ h = offsetStored + LeafLength + 1
  BY <1>1, <1>2
<1> QED
  BY <1>2, <1>3 DEF Rootless

LEMMA GapHasNoRow ==
  ASSUME Inv, FillGap \/ FillTail
  PROVE  offsetStored \in Nat /\ offsetStored + LeafLength + 1 \notin Rowed
<1>1. sync.at \in {"row", "tail"}
  BY DEF FillGap, FillTail
<1>2. /\ offsetStored \in Nat /\ blockOffset = offsetStored /\ LeafLength \in Nat
      /\ nextMmrBlockHeight \in Nat /\ offsetStored + LeafLength + 1 = nextMmrBlockHeight
  <2>1. /\ offsetStored # None /\ blockOffset = offsetStored /\ blockOffset \in Nat
        /\ LeafLength \in Nat /\ nextMmrBlockHeight = LeafLength + blockOffset + 1
    BY <1>1, Offsets DEF Inv, SyncInv
  <2> QED
    BY <2>1 DEF Inv, Types
<1>3. CASE FillGap
  <2>1. nextMmrBlockHeight < Head(sync.batch) /\ sync.at = "row"
    BY <1>3 DEF FillGap
  <2>2. Head(sync.batch) \in Nat
        /\ (nextMmrBlockHeight \in Rowed => Head(sync.batch) <= nextMmrBlockHeight)
    BY <1>2, <2>1, BatchFirst
  <2>3. nextMmrBlockHeight \notin Rowed
    BY <1>2, <2>1, <2>2
  <2> QED
    BY <1>2, <2>3
<1>4. CASE FillTail
  <2>1. TailInv
    BY <1>4 DEF FillTail, Inv, SyncInv
  <2>2. sync.upTo \in Nat
    BY DEF Inv, Types, SyncType
  <2>3. nextMmrBlockHeight \notin Rowed
    BY <1>2, <2>1, <2>2 DEF TailInv
  <2> QED
    BY <1>2, <2>3
<1> QED
  BY <1>3, <1>4

LEMMA FillLosesNoRoot ==
  ASSUME Inv, FillGap \/ FillTail
  PROVE  Rootless' = Rootless
<1>1. offsetStored \in Nat /\ offsetStored + LeafLength + 1 \notin Rowed
  BY GapHasNoRow
<1>2. UNCHANGED database /\ mmr' = Append(mmr, DEFAULT_LEAF)
  BY DEF FillGap, FillTail
<1> QED
  BY <1>1, <1>2, LeafMore

\* The root written is a root: the leaf it ends with is the hash of a row.
LEMMA WrittenRootIsARoot ==
  ASSUME Inv, HashInv, UpdateRoot
  PROVE  Root(LeafIndex(Head(sync.batch)) + 1) # NULL_ROOT
<1> DEFINE h == Head(sync.batch)
<1>1. /\ sync.at = "root" /\ h \in Rowed /\ h \in Nat \ {0} /\ h = nextMmrBlockHeight
      /\ h = LeafLength + blockOffset /\ blockOffset = offsetStored /\ offsetStored # None
      /\ blockOffset \in Nat /\ LeafLength \in Nat /\ mmr \in Seq(Seq(Nat))
  <2>1. sync.at = "root"
    BY DEF UpdateRoot
  <2> QED
    BY <2>1, BatchFirst, RowedNat, Offsets DEF Inv, SyncInv, Types
<1> HIDE DEF h
<1>2. LeafIndex(h) + 1 = LeafLength
  BY <1>1 DEF LeafIndex
<1>3. LeafLength > 0
  <2>1. h > offsetStored
    BY <1>1 DEF Inv, RowsInv
  <2> QED
    BY <1>1, <2>1
<1>4. mmr[LeafLength] = poi[h].hash
  <2>1. LeafLength \in 1 .. LeafLength /\ offsetStored + LeafLength = h
    BY <1>1, <1>3
  <2>2. mmr[LeafLength] = LeafOf(offsetStored + LeafLength)
    BY <1>1, <2>1 DEF Inv, FileInv
  <2> QED
    BY <1>1, <2>1, <2>2 DEF LeafOf
<1>5. poi[h].hash # <<0>>
  <2>1. poi[h].hash = Append(poi[h].parent, h) /\ poi[h].parent \in Seq(Nat)
    BY <1>1 DEF HashInv, Inv, Types, RowType
  <2> QED
    BY <1>1, <2>1, HashIsNotZero
<1>6. SubSeq(mmr, 1, Len(mmr)) = mmr
  BY <1>1
<1>7. Root(LeafLength) = mmr
  BY <1>6 DEF Root, LeafLength
<1>8. ASSUME mmr = NULL_ROOT PROVE FALSE
  <2>1. LeafLength = 1 /\ mmr[1] = <<0>>
    BY <1>8 DEF NULL_ROOT, LeafLength
  <2> QED
    BY <1>4, <1>5, <2>1
<1> QED
  BY <1>2, <1>7, <1>8 DEF h

LEMMA SumGrows ==
  ASSUME NEW c \in Nat, NEW r \in Nat, NEW n \in Nat, r <= n
  PROVE  c + n >= c + r /\ c + n \in Nat
  OBVIOUS

LEMMA LostKept ==
  ASSUME Inv, LostInv, [Next]_vars
  PROVE  LostInv'
<1>1. HashInv'
  BY HashKept DEF LostInv
<1>2. crashes \in Nat /\ AtRoot \in {0, 1} /\ IsFiniteSet(Rootless) /\ Cardinality(Rootless) \in Nat
      /\ Cardinality(Rootless) <= crashes + AtRoot
  BY FS_CardinalityType DEF AtRoot, LostInv, Inv, Types
<1>3. ASSUME Rootless' = Rootless, crashes' + AtRoot' >= crashes + AtRoot, crashes' + AtRoot' \in Nat
      PROVE  LostInv'
  BY <1>1, <1>2, <1>3 DEF LostInv
<1>4. CASE BeginBlock \/ OffsetKnown \/ CreatePoi
  <2>1. Rootless' = Rootless /\ AtRoot' = AtRoot /\ crashes' = crashes
    BY <1>4, RootlessKept DEF BeginBlock, OffsetKnown, CreatePoi, database, AtRoot
  <2> QED
    BY <1>2, <1>3, <2>1
<1>5. CASE FirstOffset
  <2>1. sync.at = "off"
    BY <1>5 DEF FirstOffset, Inv, SyncInv
  <2>2. Rootless' = Rootless /\ AtRoot' = AtRoot /\ crashes' = crashes
    BY <1>5, <2>1, RootlessKept DEF FirstOffset, database, AtRoot, SyncOff
  <2> QED
    BY <1>2, <1>3, <2>2
<1>6. CASE CommitBlock
  <2>1. Rootless' = Rootless /\ AtRoot' = AtRoot /\ crashes' = crashes
    BY <1>6, CommitLosesNoRoot DEF CommitBlock, AtRoot
  <2> QED
    BY <1>2, <1>3, <2>1
<1>7. CASE OpenFile \/ FetchRows \/ NoRows \/ ReadMetadata
  <2>1. Rootless' = Rootless /\ crashes' = crashes /\ sync.at # "root"
    BY <1>7, RootlessKept DEF OpenFile, FetchRows, NoRows, ReadMetadata, database
  <2>2. AtRoot <= AtRoot' /\ AtRoot \in Nat /\ AtRoot' \in Nat
    BY <2>1 DEF AtRoot
  <2>3. crashes' + AtRoot' >= crashes + AtRoot /\ crashes' + AtRoot' \in Nat
    <3>1. crashes \in Nat /\ crashes' = crashes
      BY <1>2, <2>1
    <3> QED
      BY <2>2, <3>1, SumGrows
  <2> QED
    BY <1>3, <2>1, <2>3
<1>8. CASE FillGap \/ FillTail
  <2>1. Rootless' = Rootless
    BY <1>8, FillLosesNoRoot
  <2>2. crashes' = crashes /\ sync.at # "root"
    BY <1>8 DEF FillGap, FillTail
  <2>3. AtRoot <= AtRoot' /\ AtRoot \in Nat /\ AtRoot' \in Nat
    BY <2>2 DEF AtRoot
  <2>4. crashes' + AtRoot' >= crashes + AtRoot /\ crashes' + AtRoot' \in Nat
    <3>1. crashes \in Nat /\ crashes' = crashes
      BY <1>2, <2>2
    <3> QED
      BY <2>3, <3>1, SumGrows
  <2> QED
    BY <1>3, <2>1, <2>4
<1>9. CASE AppendLeaf
  <2> DEFINE k == offsetStored + LeafLength + 1
  <2>1. /\ UNCHANGED database /\ mmr' = Append(mmr, poi[Head(sync.batch)].hash)
        /\ crashes' = crashes /\ sync.at = "row" /\ sync' = [sync EXCEPT !.at = "root"]
    BY <1>9 DEF AppendLeaf
  <2>2. offsetStored \in Nat
    BY <2>1, Offsets DEF Inv, Types
  <2>3. AtRoot = 0 /\ AtRoot' = 1
    BY <2>1 DEF AtRoot, Inv, Types, SyncType
  <2>4. Rootless' \subseteq Rootless \cup {k} /\ Rootless \subseteq Rootless'
    BY <2>1, <2>2, LeafMore
  <2> HIDE DEF k
  <2>5. IsFiniteSet(Rootless \cup {k}) /\ Cardinality(Rootless \cup {k}) <= Cardinality(Rootless) + 1
        /\ Cardinality(Rootless \cup {k}) \in Nat
    <3>1. IsFiniteSet(Rootless \cup {k})
          /\ Cardinality(Rootless \cup {k}) =
               IF k \in Rootless THEN Cardinality(Rootless) ELSE Cardinality(Rootless) + 1
      BY <1>2, FS_AddElement
    <3> QED
      BY <1>2, <3>1
  <2>6. IsFiniteSet(Rootless') /\ Cardinality(Rootless') <= Cardinality(Rootless \cup {k})
        /\ Cardinality(Rootless') \in Nat
    BY <2>4, <2>5, FS_Subset, FS_CardinalityType
  <2>7. Cardinality(Rootless') <= crashes' + AtRoot'
    BY <1>2, <2>1, <2>3, <2>5, <2>6
  <2> QED
    BY <1>1, <2>6, <2>7 DEF LostInv
<1>10. CASE UpdateRoot
  <2> DEFINE h == Head(sync.batch)
  <2>1. /\ sync.at = "root" /\ sync' = AfterRow /\ crashes' = crashes
        /\ offsetStored' = offsetStored /\ mmr' = mmr
    BY <1>10 DEF UpdateRoot
  <2>2. /\ Rowed' = Rowed /\ \A k \in Rowed : k # h => poi'[k] = poi[k]
        /\ poi'[h].root # NULL_ROOT
    BY <1>10, UpdateRootKeepsRows, WrittenRootIsARoot DEF LostInv
  <2>3. /\ h \in Rowed /\ h \in Nat /\ poi[h].root = NULL_ROOT /\ h - offsetStored <= LeafLength
    <3>1. h \in Rowed /\ h \in Nat /\ h = nextMmrBlockHeight /\ poi[h].root = NULL_ROOT
      BY <2>1, BatchFirst DEF Inv, SyncInv
    <3>2. h = LeafLength + offsetStored /\ offsetStored \in Nat /\ LeafLength \in Nat
      BY <2>1, <3>1, Offsets DEF Inv, SyncInv, Types
    <3> HIDE DEF h
    <3> QED
      BY <3>1, <3>2
  <2> HIDE DEF h
  <2>4. h \in Rootless /\ Rootless' = Rootless \ {h}
    BY <2>1, <2>2, <2>3 DEF Rootless, LeafLength
  <2>5. IsFiniteSet(Rootless') /\ Cardinality(Rootless') = Cardinality(Rootless) - 1
    BY <1>2, <2>4, FS_RemoveElement
  <2>6. AtRoot = 1 /\ AtRoot' = 0
    BY <2>1 DEF AtRoot, AfterRow, SyncOff, Inv, Types, SyncType
  <2>7. Cardinality(Rootless') <= crashes' + AtRoot'
    BY <1>2, <2>1, <2>5, <2>6
  <2> QED
    BY <1>1, <2>5, <2>7 DEF LostInv
<1>11. CASE Crash
  <2>1. Rootless' = Rootless /\ crashes' = crashes + 1
    BY <1>11, RootlessKept DEF Crash, Exit, database
  <2>2. AtRoot' = 0
    BY <1>11 DEF Crash, Exit, SyncOff, AtRoot
  <2> QED
    BY <1>2, <1>3, <2>1, <2>2
<1>12. CASE Start
  <2>1. Rootless' = Rootless /\ crashes' = crashes /\ ~ up
    BY <1>12, RootlessKept DEF Start, database
  <2>2. AtRoot <= AtRoot' /\ AtRoot \in Nat /\ AtRoot' \in Nat
    BY <2>1 DEF AtRoot, Inv, BlockInv, SyncOff
  <2>3. crashes' + AtRoot' >= crashes + AtRoot /\ crashes' + AtRoot' \in Nat
    <3>1. crashes \in Nat /\ crashes' = crashes
      BY <1>2, <2>1
    <3> QED
      BY <2>2, <3>1, SumGrows
  <2> QED
    BY <1>3, <2>1, <2>3
<1>13. CASE UNCHANGED vars
  <2>1. Rootless' = Rootless /\ crashes' = crashes /\ AtRoot' = AtRoot
    BY <1>13, RootlessKept DEF vars, database, AtRoot
  <2> QED
    BY <1>2, <1>3, <2>1
<1> QED
  BY <1>4, <1>5, <1>6, <1>7, <1>8, <1>9, <1>10, <1>11, <1>12, <1>13
  DEF Next, IndexBlock, SyncFileBaseFromPoi

-----------------------------------------------------------------------------
(* The theorems. *)

LEMMA InvHolds == Spec => []Inv
<1>1. Inv /\ [Next]_vars => Inv'
  <2> SUFFICES ASSUME Inv, [Next]_vars
               PROVE  Inv'
    OBVIOUS
  <2>1. CASE BeginBlock
    BY <2>1, BeginBlockKeeps
  <2>2. CASE IndexBlock
    BY <2>2, FirstOffsetKeeps, OffsetKnownKeeps, CreatePoiKeeps, CommitBlockKeeps DEF IndexBlock
  <2>3. CASE SyncFileBaseFromPoi
    BY <2>3, OpenFileKeeps, FetchRowsKeeps, NoRowsKeeps, FillGapKeeps, AppendLeafKeeps,
       UpdateRootKeeps, ReadMetadataKeeps, FillTailKeeps DEF SyncFileBaseFromPoi
  <2>4. CASE Crash
    BY <2>4, CrashKeeps
  <2>5. CASE Start
    BY <2>5, StartKeeps
  <2>6. CASE UNCHANGED vars
    BY <2>6, StutterKeeps
  <2> QED
    BY <2>1, <2>2, <2>3, <2>4, <2>5, <2>6 DEF Next
<1> QED
  BY <1>1, InitInv, PTL DEF Spec

\* Every variable keeps its type: the rows are those of blocks that change an entity.
THEOREM PoiTypes == Spec => []TypeOK
  BY InvHolds, InvTypeOK, PTL

\* createPoi links every row to the one committed before it, whatever blocks lie between
\* and however often the process dies between the hash in memory and the commit.
THEOREM RowsAreChained == Spec => []RowsFormAChain
<1>1. Inv => RowsFormAChain
  BY DEF Inv, RowsInv
<1> QED
  BY <1>1, InvHolds, PTL

\* The leaves the synchronisation appends are those of the committed blocks, in order,
\* for every batch size and however the two interleave.
THEOREM LeavesAreThoseOfTheRows == Spec => []LeavesFollowRows
  BY InvHolds, InvLeaves, PTL

\* The root written back to a row is that of the leaves up to the row's own.
THEOREM RootsStayRight == Spec => []RootsAreRoots
<1>1. Inv => RootsAreRoots
  BY DEF Inv, FileInv
<1> QED
  BY <1>1, InvHolds, PTL

\* None of the checks that end the process ever fails.
THEOREM SyncGoesOn == Spec => []SyncNeverRefuses
  BY InvHolds, InvNeverRefuses, PTL

\* Each death of the process costs at most one row its root.
THEOREM OneRootPerCrash == Spec => []RootsLostOnlyByCrashes
<1>1. Init => LostInv
  <2> SUFFICES ASSUME Init PROVE LostInv
    OBVIOUS
  <2>1. Rootless = {} /\ Rowed = {}
    BY DEF Init, Rootless, Rowed
  <2>2. block.row = NoRow /\ crashes = 0 /\ AtRoot = 0
    BY DEF Init, NoBlock, AtRoot, SyncOff
  <2> QED
    BY <2>1, <2>2, FS_EmptySet DEF LostInv, HashInv
<1>2. Inv /\ LostInv /\ [Next]_vars => LostInv'
  BY LostKept
<1>3. LostInv => RootsLostOnlyByCrashes
  BY DEF LostInv, RootsLostOnlyByCrashes, AtRoot
<1> QED
  BY <1>1, <1>2, <1>3, InvHolds, PTL DEF Spec
=============================================================================
