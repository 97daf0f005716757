--------------------------- MODULE HistoricalStore ---------------------------
(***************************************************************************)
(* StoreService: the entities' tables, with or without history.            *)
(*                                                                         *)
(* With history a table keeps one row per version of an entity, live over  *)
(* a range of heights [lo, hi); saving an entity is three statements       *)
(* (update the version of this block, or close the live version and create *)
(* the next), between which other handlers of the block may run            *)
(* (transformAndExecuteCustomDs starts its handlers together).  Without    *)
(* history it is one upsert.  The mode is chosen at the first start and    *)
(* remembered in the metadata.                                             *)
(*                                                                         *)
(* The statements of a block are one database transaction; a statement     *)
(* that fails ends the process, whose restart finds the last commit.       *)
(***************************************************************************)
EXTENDS Naturals, FiniteSets

CONSTANTS
  Ids, Values,   \* entities and what they may hold
  Writers,       \* handlers that may run at the same time
  MaxHeight      \* bound: height of the chain

ASSUME ConstantsOK == MaxHeight \in Nat /\ "absent" \notin Values

VARIABLES
  \* database
  tables,               \* shape of the tables: "none", "plain" or "ranged"
  modeStored,           \* metadata row historicalStateEnabled: "absent", "historical" or "plain"
  lastProcessedHeight,  \* metadata row, 0 when absent
  stored,               \* rows committed
  \* process
  phase,                \* "down", "sync", "record", "idle" or "block"
  historical,
  blockHeight,
  rows,                 \* rows as the open transaction sees them
  op,                   \* the save each handler is in the middle of
  draft                 \* history variable: what the completed saves of the block leave

database == <<tables, modeStored, lastProcessedHeight, stored>>
vars == <<database, phase, historical, blockHeight, rows, op, draft>>

Open == 0                                   \* a range without an upper bound
Absent == "absent"
NoRows == {}
Idle == [at |-> "idle", id |-> Absent, val |-> Absent]
NoOps == [w \in Writers |-> Idle]
Nothing == [id \in Ids |-> Absent]

\* _block_range @> height; a range that ends where it starts is empty
Contains(r, h) == r.lo <= h /\ (r.hi = Open \/ h < r.hi)

\* the entities as of height h
AsOf(S, h) ==
  [id \in Ids |->
     IF \E r \in S : r.id = id /\ Contains(r, h)
     THEN (CHOOSE r \in S : r.id = id /\ Contains(r, h)).val
     ELSE Absent]

-----------------------------------------------------------------------------
(* Set-up. *)

ModeOf(b) == IF b THEN "historical" ELSE "plain"

HistoricalStateEnabled_ByArgument(disable) == ~ disable

\* No metadata table: the first start, and the command line decides.  A table
\* without the row means "no history".
HistoricalStateEnabled(disable) ==
  IF tables = "none" THEN ~ disable ELSE modeStored = "historical"

Start ==
  /\ phase = "down" /\ phase' = "sync"
  /\ \E disable \in BOOLEAN : historical' = HistoricalStateEnabled(disable)
  /\ UNCHANGED <<database, blockHeight, rows, op, draft>>

\* syncSchema creates what does not exist and alters nothing.
SyncTables ==
  /\ phase = "sync" /\ phase' = "record"
  /\ tables' = IF tables # "none" THEN tables ELSE IF historical THEN "ranged" ELSE "plain"
  /\ UNCHANGED <<modeStored, lastProcessedHeight, stored, historical, blockHeight, rows, op, draft>>

RecordMode ==
  /\ phase = "record" /\ phase' = "idle"
  /\ modeStored' = ModeOf(historical)
  /\ UNCHANGED <<tables, lastProcessedHeight, stored, historical, blockHeight, rows, op, draft>>

-----------------------------------------------------------------------------
(* Blocks. *)

BeginBlock ==
  /\ phase = "idle" /\ phase' = "block"
  /\ blockHeight' \in (lastProcessedHeight + 1) .. MaxHeight
  /\ rows' = stored
  /\ draft' = AsOf(stored, lastProcessedHeight)
  /\ UNCHANGED <<database, historical, op>>

InBlock == phase = "block"

\* Statements that name the columns of the other shape fail.
ShapeFits == historical <=> (tables = "ranged")

Version(id, val) == [id |-> id, val |-> val, lo |-> blockHeight, hi |-> Open]
Plain(id, val)   == [id |-> id, val |-> val, lo |-> 0, hi |-> Open]
RowsOf(id) == {r \in rows : r.id = id}

\* The exclusion constraint on (id, _block_range)
Overlaps(r, s) == \E h \in {r.lo, s.lo} : Contains(r, h) /\ Contains(s, h)
Conflicts(id, val) == {r \in RowsOf(id) : Overlaps(r, Version(id, val))}

SavedThisBlock_AnyVersion(id) == {r \in RowsOf(id) : r.hi = Open}

\* lower(_block_range) = height; an empty range has no lower bound
SavedThisBlock(id) == {r \in RowsOf(id) : r.lo = blockHeight /\ r.hi # blockHeight}

WithValue(S, val) == {[r EXCEPT !.val = val] : r \in S}

\* set: "If entity was already saved in current block, update that entity instead"
SetUpdates(w, id, val) ==
  /\ InBlock /\ ShapeFits /\ historical /\ op[w] = Idle
  /\ SavedThisBlock(id) # {}
  /\ rows' = (rows \ SavedThisBlock(id)) \cup WithValue(SavedThisBlock(id), val)
  /\ draft' = [draft EXCEPT ![id] = val]
  /\ UNCHANGED <<database, phase, historical, blockHeight, op>>

SetFindsNone(w, id, val) ==
  /\ InBlock /\ ShapeFits /\ historical /\ op[w] = Idle
  /\ SavedThisBlock(id) = {}
  /\ op' = [op EXCEPT ![w] = [at |-> "close", id |-> id, val |-> val]]
  /\ UNCHANGED <<database, phase, historical, blockHeight, rows, draft>>

Closed_Kept(id) == rows

\* markAsDeleted: the version live at this height ends here.
Closed(id) ==
  LET live == {r \in RowsOf(id) : Contains(r, blockHeight)}
  IN  (rows \ live) \cup {[r EXCEPT !.hi = blockHeight] : r \in live}

SetCloses(w) ==
  /\ InBlock /\ op[w].at = "close"
  /\ rows' = Closed(op[w].id)
  /\ op' = [op EXCEPT ![w].at = "create"]
  /\ UNCHANGED <<database, phase, historical, blockHeight, draft>>

SetCreates(w) ==
  /\ InBlock /\ op[w].at = "create"
  /\ Conflicts(op[w].id, op[w].val) = {}
  /\ rows' = rows \cup {Version(op[w].id, op[w].val)}
  /\ draft' = [draft EXCEPT ![op[w].id] = op[w].val]
  /\ op' = [op EXCEPT ![w] = Idle]
  /\ UNCHANGED <<database, phase, historical, blockHeight>>

SetUpserts(w, id, val) ==
  /\ InBlock /\ ShapeFits /\ ~ historical /\ op[w] = Idle
  /\ rows' = (rows \ RowsOf(id)) \cup {Plain(id, val)}
  /\ draft' = [draft EXCEPT ![id] = val]
  /\ UNCHANGED <<database, phase, historical, blockHeight, op>>

NewRow_NextBlock(id, val) ==
  IF historical THEN [Version(id, val) EXCEPT !.lo = blockHeight + 1] ELSE Plain(id, val)
NewRow(id, val) == IF historical THEN Version(id, val) ELSE Plain(id, val)

\* bulkCreate inserts; an entity that exists makes the statement fail.
BulkCreate(w, ids, val) ==
  /\ InBlock /\ ShapeFits /\ op[w] = Idle
  /\ \A id \in ids : IF historical THEN Conflicts(id, val) = {} ELSE RowsOf(id) = {}
  /\ rows' = rows \cup {NewRow(id, val) : id \in ids}
  /\ draft' = [id \in Ids |-> IF id \in ids THEN val ELSE draft[id]]
  /\ UNCHANGED <<database, phase, historical, blockHeight, op>>

Remove(w, id) ==
  /\ InBlock /\ ShapeFits /\ op[w] = Idle
  /\ rows' = IF historical THEN Closed(id) ELSE rows \ RowsOf(id)
  /\ draft' = [draft EXCEPT ![id] = Absent]
  /\ UNCHANGED <<database, phase, historical, blockHeight, op>>

CommitBlock ==
  /\ InBlock /\ op = NoOps
  /\ stored' = rows /\ lastProcessedHeight' = blockHeight
  /\ phase' = "idle" /\ rows' = NoRows /\ draft' = Nothing
  /\ UNCHANGED <<tables, modeStored, historical, blockHeight, op>>

\* A failed statement or handler, or a crash: the transaction is rolled back.
Exit ==
  /\ phase # "down" /\ phase' = "down"
  /\ rows' = NoRows /\ op' = NoOps /\ draft' = Nothing
  /\ blockHeight' = 0 /\ historical' = FALSE
  /\ UNCHANGED database

-----------------------------------------------------------------------------
Init ==
  /\ tables = "none" /\ modeStored = "absent" /\ lastProcessedHeight = 0 /\ stored = NoRows
  /\ phase = "down" /\ historical = FALSE /\ blockHeight = 0
  /\ rows = NoRows /\ op = NoOps /\ draft = Nothing

Save(w) ==
  \/ \E id \in Ids, val \in Values :
       SetUpdates(w, id, val) \/ SetFindsNone(w, id, val) \/ SetUpserts(w, id, val)
  \/ SetCloses(w) \/ SetCreates(w)

Next ==
  \/ Start \/ SyncTables \/ RecordMode
  \/ BeginBlock \/ CommitBlock \/ Exit
  \/ \E w \in Writers :
       \/ Save(w)
       \/ \E id \in Ids : Remove(w, id)
       \/ \E ids \in SUBSET Ids \ {{}}, val \in Values : BulkCreate(w, ids, val)

Spec == Init /\ [][Next]_vars

-----------------------------------------------------------------------------
(* Properties. *)

Row == [id : Ids, val : Values, lo : Nat, hi : Nat]

\* No row of a committed block starts or ends above it: the next block finds
\* nothing in its way, whatever crashes lie between.
NothingFromTheFuture ==
  /\ \A r \in stored : r.lo <= lastProcessedHeight /\ r.hi <= lastProcessedHeight
  /\ InBlock => blockHeight > lastProcessedHeight
                /\ \A r \in rows : r.lo <= blockHeight /\ r.hi <= blockHeight

\* The creation that ends a save can only be refused because of a version that
\* a concurrent handler of the same block created since the save began, never
\* because of a version of an earlier block.
OnlyOwnBlockConflicts ==
  \A w \in Writers :
    op[w].at = "create" => \A r \in Conflicts(op[w].id, op[w].val) : r.lo = blockHeight

\* Whatever interleaving of the statements of concurrent saves: the entities
\* as of any committed height are what that block's completed saves left, and
\* no later block, crash or restart changes them.
Versions == INSTANCE VersionedStore
              WITH latest <- lastProcessedHeight,
                   keepsPast <- tables = "ranged",
                   past <- [k \in IF tables = "ranged" THEN 0 .. lastProcessedHeight
                                  ELSE {lastProcessedHeight} |-> AsOf(stored, k)],
                   open <- InBlock

ReadsAsOf == Versions!Spec

\* The mode, once recorded, is that of every later start, whatever the command
\* line says then.
ModeIsKept == [][modeStored # Absent => modeStored' = modeStored]_vars
=============================================================================
