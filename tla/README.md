# Verification of the ledger indexer

TLA+ models of Fetch.ai's ledger SubQuery indexer: the node that follows the chain
(`docker/node-cosmos/dist`, compiled JavaScript) and the mapping handlers it runs
(`src/mappings`, TypeScript). Paths below are relative to the root of the repository.
`PROJECT.json` maps every definition to the lines it stands for; TLC checks each `.cfg`, and
TLAPS checks the `*Proofs` modules.

    tlc -config PipelineRange.cfg MCBlockPipeline.tla      # a run
    tlapm BlockPipelineProofs.tla                          # a proof

## 1. The system

One process indexes one chain into one PostgreSQL schema; a supervisor restarts it whenever it
exits (`docker-compose.yml:29`, `restart: always`). JavaScript runs one callback at a time, so the
concurrency is between continuations: what lies between two awaits is atomic, everything else
interleaves.

| component | state | operations | talks to |
|---|---|---|---|
| FetchService (`fetch.service.js`) | `latestBufferedHeight`, `latestFinalizedHeight`, number queue, block queue, batch scale | two endless loops (heights into one queue, blocks into the other), head poller, memory check, `resetForNewDs` | dictionary, chain node, IndexerManager through the block queue |
| BlockedQueue | a bounded FIFO | `put`, `putAll` (throw when full), `take`, `takeAll` (poll) | both loops |
| IndexerManager (`indexer.manager.js`) | the transaction of the block | `indexBlock`: handlers, metadata, proof of index, commit or roll back and exit | store, handlers, MMR, FetchService |
| ProjectService | start height, block offset | reads the metadata, decides where to start | metadata rows |
| DictionaryService | a client | a query for the heights that match; may be late, short, absent or of another chain | FetchService |
| DynamicDsService | data sources from templates | created by a handler, stored with the block | metadata rows, FetchService (reset) |
| StoreService (`store.service.js`) | current transaction, block height, mode (with or without history) | `get`, `set`, `bulkCreate`, `remove` | the tables |
| PoiService, PoiBlock | hash of the latest row | one row per block that changes an entity | `_poi` table |
| MmrService (`mmr.service.js`) | a file of leaves, the next height | follows the `_poi` rows, appends leaves, writes roots back | file, `_poi` table, metadata |
| Block decoding (`utils/cosmos.js`) | none | wraps a block into transactions, messages and events; filters | handlers |
| Mapping handlers (`src/mappings`) | none; rows | one function per kind of event, wrapped in `attemptHandling` | store |
| Genesis processor (`src/genesis`, Python) | none; rows | a Kubernetes job: one SELECT and one COPY for each of accounts, balances and contracts of the genesis file, retried when it fails | the node's `/ready`, the same tables |
| Entry point and migrations (`node-entrypoint.sh`, `migrations/src`) | the database | at every start of the container: ask postgres whether migrations are recorded, erase the database if not, run the nine migrations that are missing, start the node | PostgreSQL, before anything else runs |
| Configuration, health and meta endpoints, sandbox, benchmark | | see section 8 | |

What is hard about it:

- **Hand-over.** Room in a queue is tested before an await and used after it; a counter of
  buffered heights is set in four places; a reset may fall between any two of them.
- **Crashes.** Every failure ends the process. Prefetched blocks are lost, the transaction is
  rolled back, and a file (the mountain range) is not.
- **Two writers of one transaction.** A handler that throws is caught, its record is written by a
  promise nobody awaits, and a *statement* that fails has already doomed the transaction.
- **Stale answers.** Blocks and dictionary answers asked for before a reset arrive after it.
- **Two processes on one table.** The genesis job reads the ids of a table and then copies the rest,
  while the node inserts rows of the same table.
- **Starts on a database that holds rows.** A start that gets no answer from postgres takes the
  database for a new one and erases it; the migrations page through tables with `LIMIT`, `OFFSET`
  and no `ORDER BY`, so that no page need be the one that follows the last.
- **Identity.** Rows are overwritten by id, and ids are built from indices.

`PROJECT.json` lists these as hazards, each at its line.

## 2. Modules

| module | models | how |
|---|---|---|
| `BlockedQueue` | `BlockedQueue.js` | operators on sequences |
| `BlockPipeline` | both loops of FetchService, the poller, the scale, the dictionary, resets, IndexerManager's commits, exits and restarts | one action per continuation |
| `InOrderIndexing` | what the pipeline promises | abstract specification; `BlockPipeline` implements it |
| `BlockPipelineProofs`, `BlockPipelineOrderProofs` | theorems about `BlockPipeline` | TLAPS |
| `PoiMmr` | proof-of-index rows, block offset, the mountain range and its synchronisation | one action per await of either coroutine |
| `PoiMmrProofs` | theorems about `PoiMmr` | TLAPS |
| `HistoricalStore` | StoreService with and without history, the choice of the mode | one action per SQL statement of a save, several handlers at once |
| `VersionedStore` | what the store promises its readers | abstract specification; `HistoricalStore` implements it |
| `HistoricalStoreProofs` | theorems about `HistoricalStore`, the refinement among them | TLAPS |
| `BlockHandlers` | the handlers' calls over a block, the rows they save, failures and their records, commit and restart | one action per handler call |
| `ContractInterfaces` | the guess at a contract's interface from the message that instantiated it | operators over payloads, used by `BlockHandlers` |
| `BlockHandlersProofs`, `BlockRowsProofs` | theorems about `BlockHandlers`: failures and completeness; what the rows say | TLAPS |
| `GenesisImport` | the genesis job beside the node's start-up and its blocks, over three tables | one action per statement of either transaction |
| `GenesisImportProofs` | theorems about `GenesisImport` | TLAPS |
| `Migrations` | the entry point of the container and the nine migrations | one action per command, and per page of a migration that pages |
| `MigrationsProofs` | theorems about `Migrations` | TLAPS |
| `MC*` | | constants and symmetry for TLC |

`BlockPipeline` sees a block as its height; `BlockHandlers`, `HistoricalStore` and `PoiMmr` each
open up the step that `BlockPipeline` calls `CommitBlock`, from one side each: the order of
handlers and their rows, the statements of a save, and the proof-of-index row. The composition is
through that step: all four have the same commit (everything with `lastProcessedHeight`, or
nothing) and the same exit (memory gone, database kept). `GenesisImport` puts a second process beside
that step, and of the node keeps only its start-up and the keys that a block writes. `Migrations`
is what happens before: it ends where the node's process starts.

### BlockPipeline

`fillNextBlockBuffer` is `Fill`: `FillByRange` in range mode, otherwise `QueryDictionary` followed,
after the await, by one of `DiscardDictionary`, `DictionaryEmpty`, `DictionaryMatches`,
`DictionaryFails`. `fillBlockBuffer` is `Fetch`: `TakeNumbers`, then `BlocksArrive` or
`BlocksDiscarded`. `register` and `_indexBlock` are `TakeBlock`, `CreateDynamicDatasource` and
`CommitBlock`. `undefined` heights are 0. The batch scale is counted in tenths (the code adds and
subtracts 0.1; `RoundedSize` is `Math.round` of the product). A dictionary answers with every match
up to one of the matches, as `getDictionary` sets its last height (`dictionary.service.js:116-147`),
or with none up to its own head. `getChainId` (`fetch.service.js:319`) is cached, and
`resetForNewDs` awaits only what is in memory: neither is a point where another callback runs.

### PoiMmr

The indexer goes through `BeginBlock`, `FirstOffset` or `OffsetKnown`, `CreatePoi`, `CommitBlock`;
the synchronisation started by `setBlockOffset` goes through `OpenFile`, `FetchRows`/`NoRows`,
`FillGap`, `AppendLeaf`, `UpdateRoot`, `ReadMetadata`, `FillTail`. The rows are in the database and
disappear with a rolled-back block; `mmr` is in a file and does not. Hashes are injective terms.

### HistoricalStore

With history `set` is three statements: update the version of this block; if none was updated,
close the live version and insert a new one. Handlers of a block may interleave between them
(the store is shared and a handler may save several entities with `Promise.all`). Ranges `[lo, hi)`
follow PostgreSQL: a version closed in the block that opened it has an empty range, which contains
nothing and overlaps nothing.

### BlockHandlers

The calls of a block are kept in the set `todo` and made in the order of `_indexBlockData`
(blocks, transactions, messages, events; within an event the order of `project.yaml`): `IsNext`.
Each handler is an operator that gives the rows it saves with the ids they refer to; the foreign
keys are those of the tables without history, which is how the node is deployed
(`yargs.js:146-151`: history is disabled unless asked for). `HandlerThrows` is an exception of the
handler's own (what it saved stays, the failure record starts), `StatementFails` a statement the
database refuses (the transaction is aborted), `HandlerEscapes` either of them in
`handleCw20BalanceBurn`, the one handler that is not wrapped. `FilterFails` is a filter that throws:
the filters of all handlers are tried on an event before any is called, and outside
`attemptHandling`. `TrackUnprocessed` is the record,
written at any later moment before the metadata: without history it is one statement, which the
connection queues before those of the metadata.

Abstractions: one denomination; attribute rows belong to their event's row; an account is created
together with the first row that needs it; messages that do not decode are of types that no handler
asks for, or execute messages. `complete` says of a message or an event whether the fields a handler
asks for are there (otherwise it warns and returns), `subs` is the list inside an authorisation. What
a contract is told is arbitrary JSON: no object at all (`NotAnObject`), one without names
(`NoMethod`), or a call whose amount is written as a whole number, a fraction, in hexadecimal or as a
word (`digits`). `BigInt` in the CW20 balance handlers and the numeric column of
`handleCw20Transfer` take different ones of these. The amount of a bridge swap is not of this kind:
`bridge.ts:20-21` reads it from the coins the message sends along, which the chain only accepts
whole. The other fields (recipients) are strings where they are there. Where the
code takes the first row of a query whose order it leaves open (the claim a reward belongs to), any
of the rows may come; *RewardsReachClaims* is about transactions with one claim per validator.

`handleContractInstantiateEvent` asks `ContractInterfaces` which interface the new contract has.
`getJaccardResult` compares the names of the message's properties with those of each known structure
and gives a point more for a property of the right type; a payload here maps names to what `typeof`
says of their values, and quotients are compared by cross-multiplication. Of the bridge's structure
the types say `bigint`, which a value parsed from JSON never has, so its points come from the names
alone.

### GenesisImport

The job is `WaitForNode` (the init container), `EnsureTables` (the managers' constructors) and for
each table `SelectIds`, a `CopyRow` per row and `CommitTable`; `CopyFails` is a broken key or
reference or a NULL, after which `Restart` begins again (`restartPolicy: OnFailure`). The rows of a table are a
function from their places in the file (number of the entry, number of the coin) to keys, and the job
copies the places it still has in the order of the file (`Precedes`). The node is
`EnsureProject`, `SyncSchema`, `Listen` of `bootstrap()`, and for each block `GetAccount` and `Save`
per row and `CommitBlock`. Tables that were there when the node started are those of the migrations
(`"migrated"`) wherever the node runs behind its entry point, or of an earlier start without it
(`"synced"`): `initial_schema.sql:258-263` has the two message ids of a contract NOT NULL, no later
migration relaxes them and `sync()` does not alter a table, while the node alone creates them
nullable. The import knows no messages and copies NULL for both (`contracts.py:38-41`), which
`Accepted` refuses. A row is its key and its writer, which is what tells a contract a block
described from an "Uncertain" one. What the database does is modelled from its documented behaviour
at READ COMMITTED: uncommitted rows are invisible but their keys are waited for, and a cycle of
waits (`Deadlocked`) fails one of the two transactions and lets the other go on.

### Migrations

`CheckMigrations` and `Reset` are the entry point: `psql` asks whether the table of
`graphile-migrate` is there, and no answer reads as no. `BeginMigration` and `CommitMigration` are
the transaction that `graphile-migrate` puts around each migration, with the number of the migration
in the same commit; between them the migration itself. `MigrationAddAuthzSupport` (000001) gives up on
the first message of an authorisation: it asks for one column and reads the third. `RunStatement` is
a migration that is one statement, with the constraint that may refuse it. `ExpandBatch` and
`DropAttributesColumn` are 000003 (the attributes of the events become rows of their own),
`RegisterBatch` and `RegisterEnds` are 000009 (the events of the almanac become registrations).
`PostgresGoes`, `PostgresComes` and `Crash` are the faults; each failure ends the container, which
starts again from the entry point with what was committed.

A page is any set of rows of its size, at each call anew (`Pages`): without `ORDER BY` the database
owes nothing more. What keeps the pages apart is the primary key of the rows written, which refuses
an event that an earlier page had. Where the order of an event's rows is left open and two of its
attributes have one key, either may be the one that counts (`Readings`).

What the migrations rewrite without any property here depending on it is left out: the text of
messages (000002), the renaming of columns (000004 to 000007), the definition of the tables that
000009 drops and creates before it fills them.

## 3. What is checked

| run | question | result |
|---|---|---|
| `pipeline_range` | Do the loops, queues and crashes in range mode keep every block, in order, once, and index all of them? | holds |
| `pipeline_dictionary` | The same with a dictionary that is empty, partial, too long, absent or wrong | holds |
| `pipeline_new_source` | Do resets by a new data source overflow a queue, or lose a block of the old or the new data source? | no, unless a stale answer gets through |
| `pipeline_stale_blocks` | Are blocks fetched across a reset discarded? | **violated** |
| `pipeline_stale_answer` | Are dictionary answers asked before a reset discarded? | **violated** |
| `poi_mmr` | Do rows, leaves and roots agree whenever the process dies, and does the file catch up? | holds |
| `historical_store` | Do versions tile the heights, and do readers see what each block left? | holds |
| `block_handlers` | Do failures leave a record, are committed blocks complete, do balances and tokens add up, do contracts get the interface they resemble, is every block that can be indexed committed? | holds |
| `genesis_import` | Does the import lose nothing, overwrite nothing, fail only because of races and NULLs, and complete? | holds |
| `migrations` | Does a start lose rows, do the attributes and registrations come through the migrations whatever dies, does the node run in the end? | holds |
| `event_ids` | Does each event have a row under its message's id? | **violated** |
| `indexer_stops` | Does a message that cannot be processed let the indexer go on: one for a contract without a row, a burn of a fraction, a string? | **violated** |

Every property of a passing run has a mutant: a plausible slip in one definition (an off-by-one, a
dropped guard, a missing reset) with which TLC finds the property violated. The mutated forms are
in the modules, named `<definition>_<slip>`.

### The properties

- *QueuesFit*: no put exceeds a queue although the room was tested before the await.
- *PipelineInOrder*, *NothingSkipped*: what is committed, being indexed, in the block queue, being
  fetched and in the number queue is one ascending sequence that holds every match below
  `latestBufferedHeight`.
- *CommitsInOrder*: the pipeline implements `InOrderIndexing` (refinement mapping: `done` is
  the last height dealt with, which a restart recomputes).
- *EveryMatchIndexed*: if the process eventually stays up and the scale leaves room for a block,
  every match far enough below the head is committed: there is a moment at which it is the last
  block committed, which a later height does not replace.
- *ResetsLoseNothing*: the same with data sources created on the way, for the blocks of the old data
  sources and those that a new one asks for above the block that creates it. It supposes that no
  answer passes the comparison meant to discard it (`StaleQuery`, `StaleFetch`): the comparisons do
  let some pass, as the two runs after it show, and then a crash makes the loss permanent.
- *RowsFormAChain*, *LeavesFollowRows*, *RootsAreRoots*: the three stores of the proof of index
  agree. *SyncNeverRefuses*: none of the checks that end the process can fail, so no crash makes
  every later start fail. *RootsLostOnlyByCrashes*: a row lacks its root for good only when the
  process died between the append and the update. *EveryHeightGetsALeaf*: the file catches up.
- *NothingFromTheFuture*, *OnlyOwnBlockConflicts*, *ReadsAsOf* (`HistoricalStore` implements
  `VersionedStore`), *ModeIsKept*.
- *FailuresAreRecorded*: a transaction in which a handler threw is recorded with its block.
  *CommittedBlocksAreComplete*: every transaction and message of a committed block has its row,
  messages inside an authorisation included, except in recorded transactions, and nothing of an
  uncommitted block has one. *BalancesAddUp*, *Cw20Conserved*: the balance changes of an account,
  fees included, and those of a token add up to what the chain moved. *RewardsReachClaims*: a
  withdrawn reward is on the claim of its own transaction and validator. *InterfacesFit*: a contract
  has an interface only if more than a quarter of the names of its payload and of the interface are
  common to both, and has the one with which more than half are. *BlocksCommit*: every block that
  can be indexed is, and no other. `Indexable` names what it takes, and nothing else may stop the
  indexer: amounts told to a mint or a transfer that BigInt does not take, undecodable messages and
  odd coins must not. A run reports one counterexample, so `indexer_stops` shows one of its three
  chains; that the other two are never passed either is the second half of this property.
- *TablesHaveKeys*: the job never creates a table (it would have no primary key). *DoneMeansImported*:
  whatever was in the tables, a finished job has put every row of the file there.
  *NothingIndexedIsLost*: no row goes away and none that a block wrote is overwritten.
  *FailsOnlyByRaceOrNull*: an attempt fails only on a row a block wrote after the attempt looked, or
  on a contract that the tables refuse without its messages.
  *ImportCompletes*: with crashes and races fewer than the retries, the job finishes if the tables
  take its contracts (`Importable`: the node made them, or the contracts are there), and the blocks
  finish beside any job.
- *AttributesSurvive*: from a database whose events each have an attribute, expanding them loses
  none and changes none, whatever each page's query sees and wherever the container dies.
  *RegistrationsAgree*: once all migrations have run, the registrations are those
  `handleAlmanacRegistration` would have saved from the same events. *RowsSurviveStarts*: a start
  takes a row away only where the entry point had no answer, or migrations were never recorded.
  *NodeRunsInTheEnd*: on a database the migrations accept (`Migratable`), the node runs in the end.

The premises of these four say what the code does otherwise: an event without attributes may push
another off every page, and the page whose events have none is an INSERT of nothing, which fails; an
event with a quote in its attributes, two registrations of one agent, or a message of an
authorisation stop every start at the same migration. The migrations are not idempotent, although
the checklist of `.github/pull_request_template.md:10` asks for it; that they run once rests on the
number recorded with each commit.

### Bounds

- Pipeline: capacity is `3 * BatchSize`, so 3 (as deployed, `--batch-size=1`) or 6; chains of 6 to 8
  blocks fill both queues, leave a fetch under way and still have heights to queue. With
  `BatchSize = 1` and the minimum of 5 capped by the capacity, a batch is the whole queue: the
  boundary at which room matters. Query size 3 to 5 gives answers longer than the room. Crashes
  are not bounded: the restart state is one of finitely many.
- Proof of index: heights 1..8 with rows at 2, 4, 5, 7 (a gap before, between and after rows),
  batches of 2 rows, 3 crashes.
- Store: 2 entities, 2 values, 2 concurrent handlers, 2 blocks, any number of crashes. Two
  versions of one entity need two blocks; a conflict needs two handlers.
- Pipeline with a new data source: eight heights with the matches 2, 4, 5 and 7 of the old data
  sources and 3 and 6 of the new one, which block 4 creates: 6 is due, 3 is not.
- Handlers: 120 chains of two blocks of up to two transactions, 2 crashes without a cause. Two
  blocks suffice for a row of an earlier block to be needed (a contract, its code) and for a
  restart to meet a block again; two transactions for one to fail beside one that works. 37 more
  chains instantiate up to ten contracts in one transaction, with every number of names of both
  interfaces and of others, and the payloads of the repository's own test.
- Import: tables that the node creates, finds as an earlier start left them or finds migrated; two
  accounts, the first with two denominations (a file row whose account is there but whose id is
  not), one contract; every content of the tables the foreign key allows at the start; one block
  that meets the two accounts in the other order (a deadlock needs two keys), one that instantiates
  the contract; 2 crashes; 6 retries, the default of a Kubernetes job.
- Migrations: 46 databases. 20 lists of at most three events, each before and after its expansion:
  registrations that are whole, double, of one agent, without a field or with a malformed one, beside
  events of other kinds, without attributes and with a quote; and databases that each of the other
  migrations refuses. Pages of 2 rows, so that three make a second, partial page; 2 outages of
  postgres and 1 crash.

`CHECK_DEADLOCK FALSE` is set in the runs of `BlockHandlers`, `GenesisImport` and `Migrations` alone:
their chains are finite and the system stops when the last block is committed and the job has ended,
or where the model ends because the node runs.

### Fairness

- Pipeline: weak fairness of `Start` (the supervisor), of each loop's continuation (the event loop
  runs what is ready; the network answers or fails), of the indexer and of the head poller's timer.
  Strong fairness is not assumed: the process may crash for ever, which is why
  *EveryMatchIndexed* has the premise that it eventually stays up. The chain need not grow and
  the heap need not shrink.
- Proof of index: weak fairness of the restart, of a block that has begun, and of the
  synchronisation; crashes are bounded.
- Handlers: weak fairness of the indexer, which includes the restart; crashes are bounded.
- Import: weak fairness of the job (Kubernetes restarts it), of the node (its supervisor does) and of
  the database's look for deadlocks; crashes are bounded. Who survives a deadlock gets the key it
  waited for at once, as the database's queues give it: without that a slow node could lose to the
  job's retries again and again.
- Migrations: weak fairness of the container (it is restarted whenever it ends, and goes on) and of
  the return of postgres; outages and crashes are bounded.

## 4. What is proved

For every value of the constants, by TLAPS:

| module | theorem | statement |
|---|---|---|
| `BlockPipelineProofs` | `TypeCorrect` | `Spec => []TypeOK` |
| | `QueuesNeverOverflow` | `SteadyHead` implies `Spec => []QueuesFit` |
| `BlockPipelineOrderProofs` | `BlocksTravelInOrder` | `NoNewSources` and `SteadyHead` imply `Spec => []PipelineInOrder` |
| | `NoBlockIsSkipped` | likewise `Spec => []NothingSkipped` |
| | `PipelineImplementsOrder` | likewise `Spec => CommitsInOrder` |
| `PoiMmrProofs` | `PoiTypes` | `Spec => []TypeOK` |
| | `RowsAreChained` | `Spec => []RowsFormAChain` |
| | `LeavesAreThoseOfTheRows` | `Spec => []LeavesFollowRows` |
| | `RootsStayRight` | `Spec => []RootsAreRoots` |
| | `SyncGoesOn` | `Spec => []SyncNeverRefuses` |
| | `OneRootPerCrash` | `Spec => []RootsLostOnlyByCrashes` |
| `HistoricalStoreProofs` | `RowsOfThePast` | `Spec => []NothingFromTheFuture` |
| | `CollidesWithOwnBlock` | `Spec => []OnlyOwnBlockConflicts` |
| | `ModeStays` | `Spec => ModeIsKept` |
| | `StoreImplementsVersions` | `Spec => ReadsAsOf` |
| `BlockHandlersProofs` | `FailuresLeaveRecords` | `Spec => []FailuresAreRecorded` |
| | `BlocksAreComplete` | `Spec => []CommittedBlocksAreComplete` |
| `BlockRowsProofs` | `BalancesFollowTheChain` | `Spec => []BalancesAddUp` |
| | `TransfersConserveTokens` | `Spec => []Cw20Conserved` |
| | `RewardsReachTheirClaims` | `Spec => []RewardsReachClaims` |
| | `ContractsHaveTheirInterface` | `Spec => []InterfacesFit` |
| `GenesisImportProofs` | `TablesAreKeyed` | `Spec => []TablesHaveKeys` |
| | `IndexedRowsStay` | `Spec => NothingIndexedIsLost` |
| | `DoneIsImported` | `Spec => []DoneMeansImported` |
| | `OnlyRacesAndNullsFail` | `Spec => FailsOnlyByRaceOrNull` |
| `MigrationsProofs` | `StartsLoseNoRows` | `Spec => RowsSurviveStarts` |
| | `AttributesAreNeverLost` | `Spec => []AttributesSurvive` |
| | `RegistrationsAreTheHandlers` | `Spec => []RegistrationsAgree` |

Assumptions: each module's `ConstantsOK`, and `ChainsOK` of `BlockHandlers`, `DatabasesOK` and
`RowsOK` of `Migrations` (types of the constants, and what the tables' own constraints say of a
database that is found). `ChainsOK` says of the blocks what JSON and the chain guarantee: lists are
finite, amounts in events and fees whole numbers (those told to contracts are not assumed to be), only an
authorisation has messages inside, and the `withdraw_rewards`
event that answers a `MsgWithdrawDelegatorReward` names the validator of the message, as the staking
chain's distribution module emits it. `SteadyHead` (with a dictionary, the head is known before the first query
and never reported lower; without a dictionary nothing is assumed) and `NoNewSources` (no data
source from a template: with one the properties are false, as `pipeline_stale_blocks` and
`pipeline_stale_answer` show) are premises of the theorems that name them.

*Queues.* `QueuesFit` is not inductive: a range put needs the free room of the moment before, which
the batch size guarantees only if the range runs upwards. `FitInv` adds that a process that is down
has nothing under way (`DownIdle`), that a known head is below the chain's and a pending query
starts below it (`HeadInv`), and the types.

*Order.* `OrderInv` is about `Buffered`, `latestBufferedHeight` or, before the first put, the last
height dealt with: the concatenation of all queues is ascending between `Base` and `Buffered` and
holds every match in between, and the next range starts right after `Buffered`. Each fill extends
the interval (`OrderInvExtend`), moves between queues keep the concatenation
(`MovesKeepPipeline`), a commit removes its first element (`CommitFirst`), and a crash makes the
interval empty at the height the restart computes. `ServedInv` (fetched blocks exist) and
`NoResetInv` are what the refinement step for `CommitBlock` needs besides: the committed block is on
the chain and no match lies between it and the last.

*Proof of index.* `Inv` says of the rows that the metadata point at the last one and the offset lies
before the first (`RowsInv`), of the block under way what its row is built on (`BlockInv`,
`OffsetInv`), of the synchronisation how the next height and the number of leaves go together at
each await, that its batch misses no row and that its tail has none (`SyncInv`), and of the file
that its leaves are those of the rows (`FileInv`). The last needs the others: a gap may be filled with default
leaves only because no row can appear in it any more. `LostInv` counts the rows without a root
against the crashes and an append whose root is still to be written.

*Store.* `StoreInv` says of the versions that they do not overlap and none is of a later block
(`TableInv`), of a save between two of its statements what it has left in the table (`SaveInv`), and
of the open transaction that its past is the committed one and its present the handlers' draft, but
for the entities whose next version is still to be inserted (`ViewInv`). The refinement maps the
abstract past to `AsOf` of the committed versions; each statement is a stutter or, at the last one,
the abstract write.

*Handlers.* `BlockInv` follows a block through its calls: a call that is no longer in `todo` has left
its row, or its transaction has failed, or the database transaction is lost (`ProgressInv`); a
failure has its record, is about to write it, or the transaction is lost (`RecordInv`). That no
handler overwrites what another block's left rests on `OwnSaves`: every row saved has the height of
its block in its id, but for contracts, accounts and agents.

*Rows.* None of the four properties of `BlockRowsProofs` is inductive. `TablesInv` says what a row
means: it fits the blocks (`Fits`), which gives the place of the event, the message or the payload
that its amount, its account or its interface was read from; no credit of a transfer is without its
debit; and the open transaction has the rows of earlier blocks as the database has them.
`ChangesInv` is the converse: of an event whose call is no longer in `todo`, every move and the fee
have their rows, or the transaction has failed. `RewardsInv` follows the two calls of a withdrawal:
before the first there is no claim, between them it carries -1, and after the second the event's
reward; that no third call touches the claim is `OthersLeaveClaim`, which needs that the validator
of the claim is that of one withdrawal alone. They are kept by every call (`SavesAreSound`,
`MovesSaved`, `RewardIsPaid`), carried into the committed blocks by `CommitBlock`, where a failed
transaction has become a recorded one, and survive an exit because the database does. All three were
checked by TLC on the chains of `block_handlers` before they were proved.

From them the rows of an account's moves are the image of the places of these moves, one to one, and
the debits of a contract the image of its credits, so the sums agree (`SumOfImage`, `SumOfUnion`).
The sum is a fold over a set, and the library's induction theorems are out of the provers' reach;
the lemmas take instead a smallest subset for which the claim fails (`SmallestSet`, from the
theorem on well-founded subset order of finite sets) and show that one element less, it fails too.
The fold over the two known interfaces is unfolded by hand (`ResultOfTwo`); that a score lies
between the names in common and twice as many (`ScoreBounds`) then decides every case.

*Import.* `TablesInv` ties the tables to where the node and the job are: the job is past its wait only
if the node has listened, and tables do not go away. `KeysInv` is what keeps rows: a key the job has
copied and not committed is absent from the table and not in the node's open transaction. The waits
preserve it when a row is copied or saved, a rollback empties one side; without it neither commit
could be shown to leave the other's rows alone. `ImportInv` adds that the tables before the current
one are complete, that each place of the current one is still to be copied, copied or in the table
already, and that what is still to be copied was not written by an import. Then a row that does not
fit was written by a block, the accounts that balances refer to are there (`AccountsInFile`), and
what is left to fail is a NULL.

*Migrations.* `RowsInv` says that the transaction of a migration has every row of the database and
that the database is about to be erased only after a blind question or with nothing recorded. `AInv` and `RInv` hold for 000003 and
000009 that the pages so far are disjoint and count `size` rows each: the primary key keeps them
apart, and when as many rows have been read as there are, none is left out (`CountStep`, `CountAll`).
This is the argument for paging without an order, and it fails for events without attributes, whose
pages the key does not tell apart.

*Only model-checked*: liveness (out of the prover's reach, with fairness and ENABLED):
*EveryMatchIndexed*, *ResetsLoseNothing*, *EveryHeightGetsALeaf*, *BlocksCommit*, *ImportCompletes*,
*NodeRunsInTheEnd*. Every
invariant and action property of the passing runs is proved. No module with theorems reaches a
recursive operator.

## 5. Findings

1. *Stale blocks* (`fetch.service.js:358`). Fetched blocks are discarded only while
   `latestBufferedHeight` is below the height noted before the fetch. The filler may have
   climbed back to it by the time the fetch returns; the old blocks are then queued behind or
   before the new ones. The comment says they are discarded. After a crash the loss is permanent: the
   restart begins above the last block committed, which was one of the old ones.
2. *Stale answer* (`fetch.service.js:314`). The answer is dropped when the start height moved. It
   does not move when the block that creates the data source is the one just below the query.
   Both need a project with dynamic data sources; this project has none.
3. *Event ids* (`src/mappings/utils.ts:18`). For an event `msg.idx` is the event's own index, so the
   first events of two messages of one transaction share an id and the later row replaces the
   earlier, as do the native balance changes named after it. *BalancesAddUp* is therefore stated
   for transactions of one message.
4. *Unknown contracts* (`src/mappings/utils.ts:60`). An execution of a contract that has no row (its
   code was stored before the start block or by genesis, or another contract instantiated it)
   breaks a foreign key. The catch cannot help: the transaction is aborted, the record fails with
   it, and the indexer meets the same block after every restart. *BlocksCommit* is stated for
   chains without such executions (`Indexable`), and without those of findings 5 and 6.
5. *Burned fraction* (`src/mappings/wasm/cw20.ts:87`). `BigInt` throws for an amount that is not
   written as an integer, in the one handler that is not wrapped. The JSON a contract is told is the
   sender's, so such a message ends the process at every attempt to index its block.
6. *Unit message* (`docker/node-cosmos/dist/utils/cosmos.js:33`). The filter of a contract call looks
   the call up with `in`, which throws where the execute message is a string (in CosmWasm a variant
   without fields), outside every handler. The comparison one line above shows that strings were
   expected.

Conditions under which the checked properties are stated, because the code does otherwise: a head
that falls while a dictionary is in use (`lodash range` counts down; `SteadyHead`); a first start
with history that dies between creating the tables and recording the mode (`HistoricalStore`
reaches it, no save works afterwards, no property forbids it); and the import of contracts into
tables that the migrations created. It copies NULL for the two message ids of a contract
(`src/genesis/processing/contracts.py:40`), which `initial_schema.sql:258-263` has NOT NULL, although
`schema.graphql:102-103` has them nullable: on a database that the entry point prepared, every
attempt fails at the first contract that no block recorded, with accounts and balances imported,
until the job runs out of retries. *ImportCompletes* excludes it by `Importable`,
*FailsOnlyByRaceOrNull* names it.

## 6. Plan

Done in this order: pipeline, its proofs, proof of index, store, handlers, import, migrations,
contract interfaces, and the proofs of all of these. What is left, most important first:

1. `BlockHandlers`: the same handlers with history, where the failure record takes three round trips
   and races the commit.
2. `NodeHealth`: the health endpoint against the pipeline's progress.
3. `DynamicDs`: two data sources created in one block, whose metadata row is read outside the
   transaction.

## 7. Layout

`<Module>.tla` is a specification, `MC<Module>.tla` its constants for TLC, `<Run>.cfg` a run
(`Pipeline*.cfg` of `MCBlockPipeline`; `BlockHandlers.cfg`, `EventIds.cfg`, `IndexerStops.cfg` of
`MCBlockHandlers`; the others of the module they are named after), `<Module>*Proofs.tla` its
theorems. Properties stand at the end of each specification, each with what it means for the code.

## 8. Not modelled

- Operations hash (`StoreOperations.js`): hashing; blocks are told apart by having operations or not.
- Sandbox and data source processors: they run or load code; the project has no custom source.
- Start-up, configuration, logging, profiling, benchmark: no state that a property is about.
- Schema creation: DDL; the tables' keys and foreign keys are used. Of the migrations, what section 2
  says under Migrations.
- `cosmjs/proto/ibc.ts` and `types/messages.ts`: generated code and declarations of types.
- Read-only endpoints of the mountain range and `getByField`: no change of state.
- Health and meta endpoints: no change of state but a metadata row; health is planned, section 6.
