------------------------ MODULE GenesisImportProofs ------------------------
(***************************************************************************)
(* What the genesis job and the node may not do to each other, and what a  *)
(* job that is done has done, for every genesis file, every sequence of    *)
(* blocks and any number of crashes.                                       *)
(***************************************************************************)
EXTENDS GenesisImport, TLAPS

\* The job gets past its wait only when the node has created the tables.
TablesInv ==
  /\ tables \in {"none", "synced", "migrated"}
  /\ node \in {"indexing", "listening"} => tables # "none"
  /\ job.at # "waiting" => tables # "none"

LEMMA TablesInvInit == Init => TablesInv
BY DEF Init, TablesInv, Job

LEMMA TablesInvStep == TablesInv /\ [Next]_vars => TablesInv'
<1> SUFFICES ASSUME TablesInv, [Next]_vars PROVE TablesInv'
  OBVIOUS
<1> USE DEF TablesInv
<1>1. CASE EnsureProject
  BY <1>1 DEF EnsureProject
<1>2. CASE SyncSchema
  BY <1>2 DEF SyncSchema
<1>3. CASE Listen
  BY <1>3 DEF Listen
<1>4. CASE GetAccount \/ Save \/ CommitBlock
  BY <1>4 DEF GetAccount, Save, CommitBlock
<1>5. CASE WaitForNode
  BY <1>5 DEF WaitForNode, AnswersReady
<1>6. CASE EnsureTables
  BY <1>6 DEF EnsureTables
<1>7. CASE SelectIds \/ Copy \/ CommitTable \/ CopyFails \/ Restart
  BY <1>7 DEF SelectIds, Copy, CopyRow, Copied, Copying, CommitTable, CopyFails, Fail, Restart
<1>8. CASE BreakDeadlocks
  BY <1>8 DEF BreakDeadlocks, BreakDeadlock, Deadlocked, Copying, Copied, Fail, Exit
<1>9. CASE Crash
  BY <1>9 DEF Crash, Fail, Exit
<1>10. CASE UNCHANGED vars
  BY <1>10 DEF vars
<1> QED
  BY <1>1, <1>2, <1>3, <1>4, <1>5, <1>6, <1>7, <1>8, <1>9, <1>10 DEF Next, NodeStep, JobStep

\* The job never creates a table, although it can: the tables keep the primary
\* keys that the COPY and the upserts rely on.
THEOREM TablesAreKeyed == Spec => []TablesHaveKeys
<1>1. TablesInv => TablesHaveKeys
  BY DEF TablesInv, TablesHaveKeys
<1> QED BY TablesInvInit, TablesInvStep, <1>1, PTL DEF Spec

-----------------------------------------------------------------------------
(* The open transactions of the two never hold the same key, and the job   *)
(* holds only keys of rows that are not there.                             *)

KeysInv ==
  /\ job = Job(job.at, job.table, job.todo, job.wrote)
  /\ db \in [Keys -> Writers]
  /\ \A k \in Keys : k \in job.wrote => db[k] = "absent" /\ k \notin tx.wrote

LEMMA KeysInvInit == Init => KeysInv
BY DEF Init, KeysInv, Job

LEMMA KeysInvStep == KeysInv /\ [Next]_vars => KeysInv'
<1> SUFFICES ASSUME KeysInv, [Next]_vars PROVE KeysInv'
  OBVIOUS
<1> USE DEF KeysInv
<1>1. CASE EnsureProject \/ SyncSchema \/ Listen
  BY <1>1 DEF EnsureProject, SyncSchema, Listen, Job
<1>2. CASE GetAccount
  BY <1>2 DEF GetAccount, Job
<1>3. CASE Save
  BY <1>3 DEF Save, Saved, Job
<1>4. CASE CommitBlock
  BY <1>4 DEF CommitBlock, NoTx, Writers, Job
<1>5. CASE WaitForNode \/ Restart
  BY <1>5 DEF WaitForNode, Restart, Job
<1>6. CASE EnsureTables \/ SelectIds \/ CopyFails
  BY <1>6 DEF EnsureTables, SelectIds, CopyFails, Fail, Job
<1>7. CASE Copy
  <2>1. PICK p \in job.todo : CopyRow(p)
    BY <1>7 DEF Copy
  <2> QED BY <2>1 DEF CopyRow, Copied, Fits, Job
<1>8. CASE CommitTable
  BY <1>8 DEF CommitTable, Job, Writers
<1>9. CASE BreakDeadlocks
  <2>0. PICK p \in job.todo : BreakDeadlock(p)
    BY <1>9 DEF BreakDeadlocks
  <2>1. CASE Fail /\ tx' = Saved
    BY <2>1 DEF Fail, Saved, Job
  <2>2. CASE Exit /\ Fits(Row(p)) /\ job' = Copied(p)
    BY <2>2 DEF Exit, NoTx, Fits, Copied, Job
  <2>3. CASE Exit /\ Fail
    BY <2>3 DEF Exit, NoTx, Fail, Job
  <2> QED BY <2>0, <2>1, <2>2, <2>3 DEF BreakDeadlock
<1>10. CASE Crash
  BY <1>10 DEF Crash, Fail, Exit, NoTx, Job
<1>11. CASE UNCHANGED vars
  BY <1>11 DEF vars, Job
<1> QED
  BY <1>1, <1>2, <1>3, <1>4, <1>5, <1>6, <1>7, <1>8, <1>9, <1>10, <1>11 DEF Next, NodeStep, JobStep

\* One step keeps every row, and the rows the blocks wrote as they are.
KeepsRows ==
  \A k \in Keys : /\ db[k] # "absent" => db'[k] # "absent"
                  /\ db[k] = "indexed" => db'[k] = "indexed"

LEMMA StepKeepsRows == KeysInv /\ [Next]_vars => KeepsRows
<1> SUFFICES ASSUME KeysInv, [Next]_vars PROVE KeepsRows
  OBVIOUS
<1>1. CASE db' = db
  BY <1>1 DEF KeepsRows
<1>2. CASE CommitBlock
  BY <1>2 DEF CommitBlock, KeepsRows
<1>3. CASE CommitTable
  BY <1>3 DEF CommitTable, KeepsRows, KeysInv
<1>4. db' = db \/ CommitBlock \/ CommitTable
  BY DEF Next, NodeStep, JobStep, EnsureProject, SyncSchema, Listen, GetAccount, Save,
         WaitForNode, EnsureTables, SelectIds, Copy, CopyRow, CopyFails, Restart, BreakDeadlocks, BreakDeadlock,
         Crash, Fail, Exit, vars
<1> QED BY <1>1, <1>2, <1>3, <1>4

\* The import takes no row away and writes over none that a block wrote,
\* wherever the attempts fail and whichever side a deadlock fails.
THEOREM IndexedRowsStay == Spec => NothingIndexedIsLost
<1>1. KeysInv /\ [Next]_vars => [KeepsRows]_vars
  BY StepKeepsRows
<1> QED BY KeysInvInit, KeysInvStep, <1>1, PTL DEF Spec, NothingIndexedIsLost, KeepsRows

-----------------------------------------------------------------------------
(* What the job has dealt with is there, and what is still to be copied is  *)
(* missing unless a block wrote it.                                         *)

There(i) == \A p \in DOMAIN Tables[i] : db[Tables[i][p]] # "absent"

AtTable ==
  job.at \in {"selecting", "copying"} =>
    job.table \in 1 .. 3 /\ \A i \in 1 .. 3 : i < job.table => There(i)
\* What is left to copy and what is copied are rows of the table.
Left ==
  job.at = "copying" =>
    /\ job.todo \subseteq DOMAIN Tables[job.table]
    /\ \A k \in job.wrote : \E p \in DOMAIN Tables[job.table] : k = Row(p)
DealtWith ==
  job.at = "copying" =>
    \A p \in DOMAIN Tables[job.table] :
      p \in job.todo \/ Row(p) \in job.wrote \/ db[Row(p)] # "absent"
LeftMissing ==
  job.at = "copying" => \A p \in job.todo : db[Row(p)] # "genesis"
Done == job.at = "done" => \A i \in 1 .. 3 : There(i)

ImportInv ==
  KeysInv /\ crashes \in Nat /\ AtTable /\ Left /\ DealtWith /\ LeftMissing /\ Done

LEMMA ThreeTables ==
  /\ DOMAIN Tables = 1 .. 3 /\ Len(Tables) = 3
  /\ Tables[1] = AccountRows /\ Tables[2] = BalanceRows /\ Tables[3] = ContractRows
BY DEF Tables

LEMMA RowsAreKeys ==
  ASSUME NEW i \in 1 .. 3, NEW p \in DOMAIN Tables[i]
  PROVE  Tables[i][p] \in Keys /\ Tables[i][p] \in GenesisKeys
<1>1. Tables[i][p] \in ToSet(Tables[i])
  BY DEF ToSet
<1> QED BY <1>1, ThreeTables DEF GenesisKeys, Keys

LEMMA KeysAreRows ==
  ASSUME NEW k \in GenesisKeys
  PROVE  \E i \in 1 .. 3 : \E p \in DOMAIN Tables[i] : k = Tables[i][p]
BY ThreeTables DEF GenesisKeys, ToSet

\* A balance in the file is that of an account in the file.
LEMMA AccountsInFile ==
  ASSUME NEW i \in 1 .. 3, NEW p \in DOMAIN Tables[i], Tables[i][p][1] = "balances"
  PROVE  i = 2 /\ \E q \in DOMAIN Tables[1] : AccountOf(Tables[i][p]) = Tables[1][q]
<1>1. i = 2
  <2>1. CASE i = 1
    BY <2>1, ThreeTables DEF AccountRows
  <2>2. CASE i = 3
    BY <2>2, ThreeTables DEF ContractRows
  <2> QED BY <2>1, <2>2
<1>2. p \in UNION {{j} \X (DOMAIN Balances[j].coins) : j \in DOMAIN Balances}
  BY <1>1, ThreeTables DEF BalanceRows
<1>3. PICK j \in DOMAIN Balances : p \in {j} \X (DOMAIN Balances[j].coins)
  BY <1>2
<1>4. p[1] = j
  BY <1>3
<1>5. Tables[2][p] = <<"balances", Balances[j].address, Balances[j].coins[p[2]]>>
  BY <1>2, <1>4, ThreeTables DEF BalanceRows
<1>6. AccountOf(Tables[2][p]) = <<"accounts", Balances[j].address>>
  BY <1>5 DEF AccountOf
<1>7. <<j, 0>> \in DOMAIN Tables[1] /\ Tables[1][<<j, 0>>] = <<"accounts", Balances[j].address>>
  BY ThreeTables DEF AccountRows
<1> QED BY <1>1, <1>6, <1>7

LEMMA ImportInvInit == Init => ImportInv
<1> SUFFICES ASSUME Init PROVE ImportInv
  OBVIOUS
<1>1. job.at = "waiting" /\ crashes = 0
  BY DEF Init, Job
<1> QED
  BY <1>1, KeysInvInit DEF ImportInv, AtTable, Left, DealtWith, LeftMissing, Done

\* A row that is there stays there.
LEMMA StaysThere ==
  ASSUME KeysInv, [Next]_vars, NEW i \in 1 .. 3, There(i)
  PROVE  There(i)'
<1>1. KeepsRows
  BY StepKeepsRows
<1> SUFFICES ASSUME NEW p \in DOMAIN Tables[i]
             PROVE  db'[Tables[i][p]] # "absent"
  BY DEF There
<1> QED BY <1>1, RowsAreKeys DEF There, KeepsRows

\* Steps that leave the job, or take it out of its table
LEMMA JobKept ==
  ASSUME ImportInv, [Next]_vars, job' = job, crashes' \in Nat,
         \A k \in Keys : db'[k] = "genesis" => db[k] = "genesis"
  PROVE  ImportInv'
<1>1. KeysInv' /\ KeepsRows
  BY KeysInvStep, StepKeepsRows DEF ImportInv
<1>2. AtTable'
  BY StaysThere DEF ImportInv, AtTable
<1>3. Done'
  BY StaysThere DEF ImportInv, Done
<1>4. Left'
  BY DEF ImportInv, Left, Row
<1>5. ASSUME job.at = "copying", NEW p \in DOMAIN Tables[job.table]
      PROVE  Row(p) \in Keys
  BY <1>5, RowsAreKeys DEF ImportInv, AtTable, Row
<1>6. DealtWith'
  BY <1>1, <1>5 DEF ImportInv, DealtWith, Row, KeepsRows
<1>7. LeftMissing'
  BY <1>5 DEF ImportInv, LeftMissing, Left, Row
<1> QED BY <1>1, <1>2, <1>3, <1>4, <1>6, <1>7 DEF ImportInv

LEMMA JobElsewhere ==
  ASSUME ImportInv, [Next]_vars, crashes' \in Nat, job'.at \in {"waiting", "started", "failed"}
  PROVE  ImportInv'
<1>1. KeysInv'
  BY KeysInvStep DEF ImportInv
<1> QED BY <1>1 DEF ImportInv, AtTable, Left, DealtWith, LeftMissing, Done

LEMMA RowCopied ==
  ASSUME ImportInv, [Next]_vars, NEW p \in job.todo, job.at = "copying", job' = Copied(p),
         db' = db, crashes' = crashes
  PROVE  ImportInv'
<1>1. KeysInv'
  BY KeysInvStep DEF ImportInv
<1>2. /\ job'.at = "copying" /\ job'.table = job.table /\ job'.todo = job.todo \ {p}
      /\ job'.wrote = job.wrote \cup {Row(p)}
  BY DEF Copied, ImportInv, KeysInv, Job
<1>3. \A q : Row(q)' = Row(q)
  BY <1>2 DEF Row
<1>4. AtTable'
  BY <1>2 DEF ImportInv, AtTable, There
<1>5. Left'
  BY <1>2, <1>3 DEF ImportInv, Left
<1>6. DealtWith'
  BY <1>2, <1>3 DEF ImportInv, DealtWith
<1>7. LeftMissing'
  BY <1>2, <1>3 DEF ImportInv, LeftMissing
<1>8. Done'
  BY <1>2 DEF Done
<1> QED BY <1>1, <1>4, <1>5, <1>6, <1>7, <1>8 DEF ImportInv

LEMMA ImportInvStep == ImportInv /\ [Next]_vars => ImportInv'
<1> SUFFICES ASSUME ImportInv, [Next]_vars PROVE ImportInv'
  OBVIOUS
<1>1. CASE NodeStep \/ UNCHANGED vars
  <2>1. job' = job /\ crashes' = crashes
    BY <1>1 DEF NodeStep, EnsureProject, SyncSchema, Listen, GetAccount, Save, CommitBlock, vars
  <2>2. \A k \in Keys : db'[k] = "genesis" => db[k] = "genesis"
    BY <1>1 DEF NodeStep, EnsureProject, SyncSchema, Listen, GetAccount, Save, CommitBlock, vars
  <2> QED BY <2>1, <2>2, JobKept DEF ImportInv
<1>2. CASE WaitForNode \/ Restart
  <2>1. job'.at = "started" /\ crashes' = crashes
    BY <1>2 DEF WaitForNode, Restart, ImportInv, KeysInv, Job
  <2> QED BY <2>1, JobElsewhere DEF ImportInv
<1>3. CASE EnsureTables
  <2>1. job' = Job("selecting", 1, {}, {}) /\ crashes' = crashes
    BY <1>3 DEF EnsureTables
  <2> QED BY <2>1, KeysInvStep
          DEF Job, ImportInv, AtTable, Left, DealtWith, LeftMissing, Done
<1>4. CASE SelectIds
  <2>1. /\ job.at = "selecting" /\ job'.at = "copying" /\ job'.table = job.table
        /\ job'.todo = NewRows(Tables[job.table]) /\ job'.wrote = {}
        /\ db' = db /\ crashes' = crashes
    BY <1>4 DEF SelectIds, Job
  <2>2. \A q : Row(q)' = Tables[job.table][q]
    BY <2>1 DEF Row
  <2>3. KeysInv'
    BY KeysInvStep DEF ImportInv
  <2>4. AtTable' /\ Done'
    BY <2>1 DEF ImportInv, AtTable, There, Done
  <2>5. Left' /\ DealtWith' /\ LeftMissing'
    BY <2>1, <2>2 DEF Left, DealtWith, LeftMissing, NewRows
  <2> QED BY <2>1, <2>3, <2>4, <2>5 DEF ImportInv
<1>5. CASE Copy
  <2>1. PICK p \in job.todo : CopyRow(p)
    BY <1>5 DEF Copy
  <2> QED BY <2>1, RowCopied DEF CopyRow, Copying
<1>6. CASE CommitTable
  <2>1. /\ job.at = "copying" /\ job.todo = {} /\ crashes' = crashes
        /\ db' = [k \in Keys |-> IF k \in job.wrote THEN "genesis" ELSE db[k]]
    BY <1>6 DEF CommitTable
  <2>2. job.table \in 1 .. 3 /\ \A i \in 1 .. 3 : i < job.table => There(i)'
    BY <2>1, StaysThere DEF ImportInv, AtTable
  <2>3. \A p \in DOMAIN Tables[job.table] : db'[Tables[job.table][p]] # "absent"
    <3> SUFFICES ASSUME NEW p \in DOMAIN Tables[job.table]
                 PROVE  db'[Tables[job.table][p]] # "absent"
      OBVIOUS
    <3>1. Tables[job.table][p] \in Keys
      BY <2>2, RowsAreKeys
    <3>2. Row(p) \in job.wrote \/ db[Row(p)] # "absent"
      BY <2>1 DEF ImportInv, DealtWith
    <3> QED BY <2>1, <3>1, <3>2 DEF Row
  <2>4. \A i \in 1 .. 3 : i = job.table => There(i)'
    BY <2>3 DEF There
  <2>5. KeysInv'
    BY KeysInvStep DEF ImportInv
  <2>6. CASE job.table = 3
    <3>1. job'.at = "done"
      BY <1>6, <2>6, ThreeTables DEF CommitTable, Job
    <3>2. \A i \in 1 .. 3 : There(i)'
      BY <2>2, <2>4, <2>6
    <3> QED BY <2>1, <2>5, <3>1, <3>2 DEF ImportInv, AtTable, Left, DealtWith, LeftMissing, Done
  <2>7. CASE job.table # 3
    <3>1. job'.at = "selecting" /\ job'.table = job.table + 1
      BY <1>6, <2>7, ThreeTables DEF CommitTable, Job
    <3>2. job'.table \in 1 .. 3
      BY <2>2, <2>7, <3>1
    <3>3. \A i \in 1 .. 3 : i < job'.table => i < job.table \/ i = job.table
      BY <2>2, <3>1
    <3>4. \A i \in 1 .. 3 : i < job'.table => There(i)'
      BY <2>2, <2>4, <3>3
    <3> QED BY <2>1, <2>5, <3>1, <3>2, <3>4 DEF ImportInv, AtTable, Left, DealtWith, LeftMissing, Done
  <2> QED BY <2>6, <2>7
<1>7. CASE CopyFails
  <2>1. job'.at = "failed" /\ crashes' = crashes
    BY <1>7 DEF CopyFails, Fail, Job
  <2> QED BY <2>1, JobElsewhere DEF ImportInv
<1>8. CASE BreakDeadlocks
  <2>1. PICK p \in job.todo : BreakDeadlock(p)
    BY <1>8 DEF BreakDeadlocks
  <2>2. job.at = "copying" /\ crashes' = crashes /\ db' = db
    BY <2>1 DEF BreakDeadlock, Deadlocked, Copying, Fail, Exit
  <2>3. CASE Fail
    <3>1. job'.at = "failed"
      BY <2>3 DEF Fail, Job
    <3> QED BY <2>2, <3>1, JobElsewhere DEF ImportInv
  <2>4. CASE job' = Copied(p)
    BY <2>2, <2>4, RowCopied
  <2> QED BY <2>1, <2>3, <2>4 DEF BreakDeadlock
<1>9. CASE Crash
  <2>1. crashes' \in Nat /\ db' = db
    BY <1>9 DEF Crash, Fail, Exit, ImportInv
  <2>2. CASE Fail
    <3>1. job'.at = "failed"
      BY <2>2 DEF Fail, Job
    <3> QED BY <2>1, <3>1, JobElsewhere
  <2>3. CASE job' = job
    BY <2>1, <2>3, JobKept
  <2> QED BY <1>9, <2>2, <2>3 DEF Crash
<1> QED
  BY <1>1, <1>2, <1>3, <1>4, <1>5, <1>6, <1>7, <1>8, <1>9 DEF Next, JobStep

\* A job that ends well has put every row of the file there: the attempts that
\* failed, the tables they had committed and the rows the node wrote beside it
\* leave none out.
THEOREM DoneIsImported == Spec => []DoneMeansImported
<1>1. ImportInv => DoneMeansImported
  <2> SUFFICES ASSUME ImportInv, job.at = "done", NEW k \in GenesisKeys
               PROVE  db[k] # "absent"
    BY DEF DoneMeansImported
  <2>1. PICK i \in 1 .. 3 : \E p \in DOMAIN Tables[i] : k = Tables[i][p]
    BY KeysAreRows
  <2>2. There(i)
    BY DEF ImportInv, Done
  <2> QED BY <2>1, <2>2 DEF There
<1> QED BY ImportInvInit, ImportInvStep, <1>1, PTL DEF Spec

\* The accounts of the balances the job copies are there: their table is committed.
LEMMA AccountsHold ==
  ASSUME ImportInv, job.at = "copying"
  PROVE  AccountsThere
<1> SUFFICES ASSUME NEW k \in job.wrote, k[1] = "balances"
             PROVE  db[AccountOf(k)] # "absent"
  BY DEF AccountsThere
<1>1. PICK p \in DOMAIN Tables[job.table] : k = Tables[job.table][p]
  BY DEF ImportInv, Left, Row
<1>2. job.table \in 1 .. 3
  BY DEF ImportInv, AtTable
<1>3. job.table = 2 /\ \E q \in DOMAIN Tables[1] : AccountOf(k) = Tables[1][q]
  BY <1>1, <1>2, AccountsInFile
<1>4. There(1)
  BY <1>3 DEF ImportInv, AtTable
<1> QED BY <1>3, <1>4 DEF There

FailsOnBlocksRowOrNull ==
  job.at = "copying" /\ job'.at = "failed" /\ crashes' = crashes
    => \E p \in job.todo : /\ Copying(p)
                           /\ \/ db[Row(p)] = "indexed" \/ Row(p) \in tx.wrote
                              \/ ~ Accepted(Row(p))

LEMMA StepFailsOnBlocksRowOrNull == ImportInv /\ [Next]_vars => FailsOnBlocksRowOrNull
<1> SUFFICES ASSUME ImportInv, [Next]_vars, job.at = "copying", job'.at = "failed", crashes' = crashes
             PROVE  \E p \in job.todo : /\ Copying(p)
                                       /\ \/ db[Row(p)] = "indexed" \/ Row(p) \in tx.wrote
                                          \/ ~ Accepted(Row(p))
  BY DEF FailsOnBlocksRowOrNull
<1>1. CASE CopyFails
  <2>1. PICK p \in job.todo : Copying(p) /\ (~ Accepted(Row(p)) \/ ~ Fits(Row(p)))
    BY <1>1, AccountsHold DEF CopyFails
  <2> SUFFICES ASSUME Accepted(Row(p)) PROVE db[Row(p)] = "indexed"
    BY <2>1
  <2>2. Row(p) \in Keys
    BY RowsAreKeys DEF ImportInv, AtTable, Left, Row
  <2>3. db[Row(p)] \in Writers /\ db[Row(p)] # "absent" /\ db[Row(p)] # "genesis"
    BY <2>1, <2>2 DEF ImportInv, KeysInv, LeftMissing, Fits
  <2> QED BY <2>1, <2>3 DEF Writers
<1>2. CASE BreakDeadlocks
  BY <1>2 DEF BreakDeadlocks, BreakDeadlock, Deadlocked
<1>3. CASE Crash
  BY <1>3 DEF Crash, ImportInv
<1>4. CASE NodeStep \/ UNCHANGED vars
  BY <1>4 DEF NodeStep, EnsureProject, SyncSchema, Listen, GetAccount, Save, CommitBlock, vars
<1>5. CASE WaitForNode \/ EnsureTables \/ SelectIds \/ Restart
  BY <1>5 DEF WaitForNode, EnsureTables, SelectIds, Restart
<1>6. CASE Copy
  <2>1. PICK p \in job.todo : job' = Copied(p)
    BY <1>6 DEF Copy, CopyRow
  <2> QED BY <2>1 DEF Copied, ImportInv, KeysInv, Job
<1>7. CASE CommitTable
  BY <1>7 DEF CommitTable, Job
<1> QED
  BY <1>1, <1>2, <1>3, <1>4, <1>5, <1>6, <1>7 DEF Next, JobStep

\* An attempt that nobody kills fails only on a row a block wrote after the
\* attempt looked for it or on a contract without messages in tables that want
\* them, for every file and every sequence of blocks.
THEOREM OnlyRacesAndNullsFail == Spec => FailsOnlyByRaceOrNull
<1>1. ImportInv /\ [Next]_vars => [FailsOnBlocksRowOrNull]_vars
  BY StepFailsOnBlocksRowOrNull
<1> QED BY ImportInvInit, ImportInvStep, <1>1, PTL DEF Spec, FailsOnlyByRaceOrNull, FailsOnBlocksRowOrNull
=============================================================================
