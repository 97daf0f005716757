--------------------------- MODULE GenesisImport ---------------------------
(***************************************************************************)
(* The genesis processor beside the indexer.  A Kubernetes job waits until *)
(* the node answers /ready and copies the accounts, the balances and the   *)
(* contracts of a genesis file to the tables the node has prepared, one    *)
(* transaction per table, while the node indexes blocks that write rows of *)
(* the same tables, one transaction per block.                             *)
(*                                                                         *)
(* A row is its key and who wrote it.  The database runs READ COMMITTED: a *)
(* transaction sees what is committed and its own writes; an insert waits  *)
(* for the open transaction that wrote the key, and the database breaks a  *)
(* cycle of waits by failing one of the two.  An upsert of the node writes *)
(* over the row it finds, a COPY of the job fails on it.                   *)
(***************************************************************************)
EXTENDS Naturals, Sequences, SequencesExt

CONSTANTS
  Balances,     \* app_state.bank.balances: sequence of [address, coins]
  Contracts,    \* app_state.wasm.contracts: sequence of addresses
  Blocks,       \* what each block writes, in order: keys of these tables
  BackoffLimit, \* failures after which Kubernetes gives the job up
  MaxCrashes    \* bound on the deaths of the two processes

\* The keys of the rows each manager makes of the file, by their place in it: the
\* number of the entry and, of a balance, that of the coin.
AccountRows == [p \in (DOMAIN Balances) \X {0} |-> <<"accounts", Balances[p[1]].address>>]
BalanceRows ==
  [p \in UNION {{i} \X (DOMAIN Balances[i].coins) : i \in DOMAIN Balances} |->
     <<"balances", Balances[p[1]].address, Balances[p[1]].coins[p[2]]>>]
ContractRows == [p \in (DOMAIN Contracts) \X {0} |-> <<"contracts", Contracts[p[1]]>>]
Precedes(p, q) == p[1] < q[1] \/ (p[1] = q[1] /\ p[2] < q[2])

\* process_genesis takes the tables in this order.
Tables == <<AccountRows, BalanceRows, ContractRows>>

GenesisKeys == UNION {ToSet(Tables[i]) : i \in DOMAIN Tables}
Keys == GenesisKeys \union UNION {ToSet(Blocks[i]) : i \in DOMAIN Blocks}
AccountOf(balance) == <<"accounts", balance[2]>>

\* The chain refuses a genesis file that names an address or a denom twice.
ASSUME ConstantsOK ==
  /\ \A i \in DOMAIN Tables : IsInjective(Tables[i])
  /\ \A i \in DOMAIN Blocks, k \in Keys : k \in ToSet(Blocks[i]) => k[1] # "balances"
  /\ BackoffLimit \in Nat /\ MaxCrashes \in Nat

VARIABLES
  \* database
  tables,     \* "none"; as the migrations leave them, "migrated"; as the node alone
              \* creates them, "synced"; as the job creates them, "bare"
  db,         \* committed rows: key -> who wrote it, "absent" if there is none
  \* the job
  job,        \* where it is, its table, the places left to copy and the rows copied
  failures,   \* failed attempts of the job
  \* the node
  node,       \* where bootstrap() is
  processed,  \* blocks committed
  tx,         \* the open block: its next write, whether get found nothing, its writes
  crashes     \* counts the deaths

vars == <<tables, db, job, failures, node, processed, tx, crashes>>

Writers == {"absent", "genesis", "indexed"}
NoTx == [op |-> 1, missing |-> FALSE, wrote |-> {}]
Job(at, table, todo, wrote) == [at |-> at, table |-> table, todo |-> todo, wrote |-> wrote]

\* The import knows the messages of no contract and copies NULL for them; the
\* migrations have the two columns NOT NULL, the node alone makes them nullable.
Accepted(k) == ~ (tables = "migrated" /\ k[1] = "contracts")

\* Earlier imports and blocks may have left rows, balances only of known accounts.
Init ==
  /\ db \in {d \in [Keys -> Writers] : \A k \in Keys :
               k[1] = "balances" => /\ d[k] # "indexed"
                                    /\ d[k] # "absent" => d[AccountOf(k)] # "absent"}
  /\ tables \in {"none", "synced", "migrated"}
  /\ tables = "none" => \A k \in Keys : db[k] = "absent"
  /\ \A k \in Keys : db[k] = "genesis" => Accepted(k)
  /\ job = Job("waiting", 1, {}, {}) /\ failures = 0
  /\ node = "down" /\ processed = 0 /\ tx = NoTx
  /\ crashes = 0

-----------------------------------------------------------------------------
(* The node. *)

\* ensureProject announces Ready before initDbSchema creates the tables.
EnsureProject ==
  /\ node = "down" /\ node' = "schema"
  /\ UNCHANGED <<tables, db, job, failures, processed, tx, crashes>>

SyncSchema ==
  /\ node = "schema" /\ node' = "indexing"
  /\ tables' = IF tables = "none" THEN "synced" ELSE tables
  /\ UNCHANGED <<db, job, failures, processed, tx, crashes>>

Listen ==
  /\ node = "indexing" /\ node' = "listening"
  /\ UNCHANGED <<tables, db, job, failures, processed, tx, crashes>>

\* Mutant: bootstrap() listens before it starts the indexer.
AnswersReady_OnEvent == node # "down"

\* /ready is announced first, but nothing answers before bootstrap() listens.
AnswersReady == node = "listening"

Indexing == node \in {"indexing", "listening"} /\ processed < Len(Blocks)
Ops == Blocks[processed + 1]
HasOp == Indexing /\ tx.op <= Len(Ops)

\* checkBalancesAccount saves an account only when get finds none.
GetAccount ==
  /\ HasOp /\ Ops[tx.op][1] = "accounts" /\ ~ tx.missing
  /\ tx' = IF db[Ops[tx.op]] = "absent" /\ Ops[tx.op] \notin tx.wrote
             THEN [tx EXCEPT !.missing = TRUE]
             ELSE [tx EXCEPT !.op = @ + 1]
  /\ UNCHANGED <<tables, db, job, failures, node, processed, crashes>>

WantsToSave == HasOp /\ (Ops[tx.op][1] = "accounts" => tx.missing)

Saved == [op |-> tx.op + 1, missing |-> FALSE, wrote |-> tx.wrote \union {Ops[tx.op]}]

Save ==
  /\ WantsToSave /\ Ops[tx.op] \notin job.wrote
  /\ tx' = Saved
  /\ UNCHANGED <<tables, db, job, failures, node, processed, crashes>>

CommitBlock ==
  /\ Indexing /\ tx.op > Len(Ops)
  /\ db' = [k \in Keys |-> IF k \in tx.wrote THEN "indexed" ELSE db[k]]
  /\ processed' = processed + 1 /\ tx' = NoTx
  /\ UNCHANGED <<tables, job, failures, node, crashes>>

\* The process exits, its transaction is rolled back and it is started again.
Exit ==
  /\ node' = "down" /\ tx' = NoTx
  /\ UNCHANGED <<tables, db, processed>>

-----------------------------------------------------------------------------
(* The job. *)

WaitForNode ==
  /\ job.at = "waiting" /\ AnswersReady
  /\ job' = [job EXCEPT !.at = "started"]
  /\ UNCHANGED <<tables, db, failures, node, processed, tx, crashes>>

\* The constructors of the three managers; nothing changes where tables exist.
EnsureTables ==
  /\ job.at = "started"
  /\ tables' = IF tables = "none" THEN "bare" ELSE tables
  /\ job' = Job("selecting", 1, {}, {})
  /\ UNCHANGED <<db, failures, node, processed, tx, crashes>>

\* Mutants: the rows of an address any of whose rows is there are left out; the
\* rows that are there are not left out.
NewRows_ByAccount(rows) ==
  {p \in DOMAIN rows : \A q \in DOMAIN rows : rows[q][2] = rows[p][2] => db[rows[q]] = "absent"}
NewRows_All(rows) == DOMAIN rows

\* Where in the file the rows are whose id is not in the table
NewRows(rows) == {p \in DOMAIN rows : db[rows[p]] = "absent"}

SelectIds ==
  /\ job.at = "selecting"
  /\ job' = Job("copying", job.table, NewRows(Tables[job.table]), {})
  /\ UNCHANGED <<tables, db, failures, node, processed, tx, crashes>>

Row(p) == Tables[job.table][p]
Copying(p) ==
  /\ job.at = "copying" /\ p \in job.todo
  /\ \A q \in job.todo \ {p} : Precedes(p, q)
\* Mutant: the import writes over the rows it finds.
Fits_Overwrites(k) == TRUE

Fits(k) == db[k] = "absent"
Copied(p) == [job EXCEPT !.todo = @ \ {p}, !.wrote = @ \union {Row(p)}]

CopyRow(p) ==
  /\ Copying(p) /\ Accepted(Row(p)) /\ Row(p) \notin tx.wrote /\ Fits(Row(p))
  /\ job' = Copied(p)
  /\ UNCHANGED <<tables, db, failures, node, processed, tx, crashes>>

\* The foreign key of the balances is looked at when the statement ends.
AccountsThere == \A k \in job.wrote : k[1] = "balances" => db[AccountOf(k)] # "absent"

CommitTable ==
  /\ job.at = "copying" /\ job.todo = {} /\ AccountsThere
  /\ db' = [k \in Keys |-> IF k \in job.wrote THEN "genesis" ELSE db[k]]
  /\ job' = IF job.table = Len(Tables) THEN Job("done", 1, {}, {})
                                       ELSE Job("selecting", job.table + 1, {}, {})
  /\ UNCHANGED <<tables, failures, node, processed, tx, crashes>>

\* An exception leaves main(): the open transaction is rolled back.
Fail ==
  /\ job' = Job("failed", 1, {}, {})
  /\ failures' = failures + 1
  /\ UNCHANGED <<tables, db>>

\* A row is refused for a NULL at once, for its key when the key's writer is done.
CopyFails ==
  /\ \/ \E p \in job.todo : Copying(p) /\ ~ Accepted(Row(p))
     \/ \E p \in job.todo : Copying(p) /\ Row(p) \notin tx.wrote /\ ~ Fits(Row(p))
     \/ job.at = "copying" /\ job.todo = {} /\ ~ AccountsThere
  /\ Fail
  /\ UNCHANGED <<node, processed, tx, crashes>>

\* Mutant: restartPolicy: Never.
Restart_Never == job.at = "failed" /\ failures < 1 /\ UNCHANGED vars

\* restartPolicy: OnFailure starts the container again, past the wait for the node.
Restart ==
  /\ job.at = "failed" /\ failures <= BackoffLimit
  /\ job' = [job EXCEPT !.at = "started"]
  /\ UNCHANGED <<tables, db, failures, node, processed, tx, crashes>>

-----------------------------------------------------------------------------
(* Both. *)

\* Each waits for a key the other wrote: the database fails one of them, and
\* the wait of the other, which is next in the queue for the key, ends.
Deadlocked(p) ==
  /\ Copying(p) /\ Accepted(Row(p)) /\ Row(p) \in tx.wrote
  /\ WantsToSave /\ Ops[tx.op] \in job.wrote

BreakDeadlock(p) ==
  /\ Deadlocked(p)
  /\ \/ Fail /\ tx' = Saved /\ UNCHANGED <<node, processed>>
     \/ Exit /\ IF Fits(Row(p)) THEN job' = Copied(p) /\ UNCHANGED failures ELSE Fail
  /\ UNCHANGED crashes

Crash ==
  /\ crashes < MaxCrashes /\ crashes' = crashes + 1
  /\ \/ job.at \in {"started", "selecting", "copying"} /\ Fail /\ UNCHANGED <<node, processed, tx>>
     \/ node # "down" /\ Exit /\ UNCHANGED <<job, failures>>

Copy == \E p \in job.todo : CopyRow(p)
BreakDeadlocks == \E p \in job.todo : BreakDeadlock(p)
JobStep == WaitForNode \/ EnsureTables \/ SelectIds \/ Copy \/ CommitTable \/ CopyFails \/ Restart
NodeStep == EnsureProject \/ SyncSchema \/ Listen \/ GetAccount \/ Save \/ CommitBlock
Next == JobStep \/ NodeStep \/ BreakDeadlocks \/ Crash

Spec == Init /\ [][Next]_vars
\* The two processes and the database's look for deadlocks go on on their own.
FairSpec == Spec /\ WF_vars(JobStep) /\ WF_vars(NodeStep) /\ WF_vars(BreakDeadlocks)

-----------------------------------------------------------------------------
(* Properties. *)

\* The tables have the keys that both the job's COPY and the node's upsert rely
\* on: the job, which creates missing tables without any, never comes first.
TablesHaveKeys == tables # "bare"

\* A job that ends well has put every row of the genesis file in the database,
\* whatever earlier imports, failed attempts and blocks left there.
DoneMeansImported ==
  job.at = "done" => \A k \in GenesisKeys : db[k] # "absent"

\* The import never takes away a row nor writes "Uncertain" over a contract
\* whose interface and messages a block recorded.
NothingIndexedIsLost ==
  [][\A k \in Keys : /\ db[k] # "absent" => db'[k] # "absent"
                     /\ db[k] = "indexed" => db'[k] = "indexed"]_vars

\* An attempt that was not killed fails only on a row that a block wrote after
\* the attempt looked for it, or on a contract that the tables refuse without its
\* messages: the file's other rows, their order, the rows of earlier attempts and
\* the foreign key of the balances never fail it.
FailsOnlyByRaceOrNull ==
  [][job.at = "copying" /\ job'.at = "failed" /\ crashes' = crashes
       => \E p \in job.todo : /\ Copying(p)
                              /\ \/ db[Row(p)] = "indexed" \/ Row(p) \in tx.wrote
                                 \/ ~ Accepted(Row(p))]_vars

\* The tables take every contract of the file that is not there.
Importable == \A p \in DOMAIN ContractRows :
                db[ContractRows[p]] = "absent" => Accepted(ContractRows[p])

\* As long as the node's blocks and the crashes do not fail it more often than
\* Kubernetes retries, a job whose contracts the tables take from the start
\* succeeds; the node commits all its blocks beside any job.
ImportCompletes == /\ Importable => <>(job.at = "done")
                   /\ <>(processed = Len(Blocks))
=============================================================================
