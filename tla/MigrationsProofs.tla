-------------------------- MODULE MigrationsProofs --------------------------
(***************************************************************************)
(* Proofs about Migrations: a start loses no rows, expanding the           *)
(* attributes loses none of them, and the registrations are the handlers'. *)
(***************************************************************************)
EXTENDS Migrations, FiniteSetTheorems, TLAPS

\* A database has the fields of the initial one.
Shape(d) == DOMAIN d = DOMAIN Initial

LEMMA FieldNames ==
  DOMAIN Initial = {"recorded", "level", "authz", "events", "contracts", "uses", "attributes",
                    "agents", "records", "registrations"}
  BY DEF Initial

LEMMA InitialShape == Shape(Initial)
  BY DEF Shape

\* What an assignment to one field leaves alone
LEMMA SetRecorded ==
  ASSUME NEW d, Shape(d), NEW x
  PROVE  LET n == [d EXCEPT !.recorded = x]
         IN  /\ Shape(n) /\ n.recorded = x /\ n.level = d.level /\ n.events = d.events
             /\ n.contracts = d.contracts /\ n.attributes = d.attributes
             /\ n.registrations = d.registrations
  BY FieldNames DEF Shape

LEMMA SetLevel ==
  ASSUME NEW d, Shape(d), NEW x
  PROVE  LET n == [d EXCEPT !.level = x]
         IN  /\ Shape(n) /\ n.level = x /\ n.events = d.events
             /\ n.contracts = d.contracts /\ n.attributes = d.attributes
             /\ n.registrations = d.registrations
  BY FieldNames DEF Shape

LEMMA SetAttributes ==
  ASSUME NEW d, Shape(d), NEW x
  PROVE  LET n == [d EXCEPT !.attributes = x]
         IN  /\ Shape(n) /\ n.level = d.level /\ n.events = d.events
             /\ n.contracts = d.contracts /\ n.attributes = x
             /\ n.registrations = d.registrations
  BY FieldNames DEF Shape

LEMMA SetEvents ==
  ASSUME NEW d, Shape(d)
  PROVE  LET n == [d EXCEPT !.events =
                     [e \in DOMAIN @ |-> [wasm |-> @[e].wasm, attrs |-> <<>>]]]
         IN  /\ Shape(n) /\ n.level = d.level /\ DOMAIN n.events = DOMAIN d.events
             /\ n.contracts = d.contracts /\ n.attributes = d.attributes
             /\ n.registrations = d.registrations
  BY FieldNames DEF Shape

-----------------------------------------------------------------------------
(* Rows: the transaction of a migration has all rows of the database.        *)

Keeps(d, n) ==
  /\ DOMAIN n.events = DOMAIN d.events /\ DOMAIN n.contracts = DOMAIN d.contracts
  /\ DOMAIN d.registrations \subseteq DOMAIN n.registrations

RowsInv ==
  /\ Shape(db) /\ Shape(tx)
  /\ step = "reset" => blind \/ ~ db.recorded
  /\ step = "transaction" => Keeps(db, tx)

Loses(d, n) ==
  \/ DOMAIN d.events \ DOMAIN n.events # {} \/ DOMAIN d.contracts \ DOMAIN n.contracts # {}
  \/ DOMAIN d.registrations \ DOMAIN n.registrations # {}

RowsStep == Loses(db, db') => blind \/ ~ db.recorded

LEMMA KeepsLosesNothing ==
  ASSUME NEW d, NEW n, Keeps(d, n)
  PROVE  ~ Loses(d, n)
  BY DEF Keeps, Loses

LEMMA KeepsItself == \A d : Keeps(d, d)
  BY DEF Keeps

\* A migration that writes only to its transaction keeps the database's rows.
LEMMA WritesKeepRows ==
  ASSUME RowsInv, step = "transaction", NEW n, Writes(n), Shape(n), Keeps(tx, n)
  PROVE  RowsInv' /\ db' = db
<1>1. Keeps(db, n)
  BY DEF RowsInv, Keeps
<1>2. db' = db /\ step' = "transaction" /\ tx' = n
  BY DEF Writes
<1> QED
  BY <1>1, <1>2 DEF RowsInv

LEMMA RestartsKeepRows ==
  ASSUME RowsInv, Restarts
  PROVE  RowsInv' /\ db' = db
  BY InitialShape DEF RowsInv, Restarts

LEMMA RowsInit == Init => RowsInv
  BY DatabasesOK, InitialShape DEF Init, RowsInv, Shape

LEMMA RowsNext ==
  ASSUME RowsInv, [Next]_vars
  PROVE  RowsInv' /\ RowsStep
<1> SUFFICES RowsInv' /\ (db' = db \/ Keeps(db, db') \/ (step = "reset" /\ RowsInv))
  BY KeepsLosesNothing, KeepsItself DEF RowsStep, RowsInv
<1>1. CASE CheckMigrations
  BY <1>1 DEF CheckMigrations, HasMigrations, RowsInv, migration
<1>2. CASE Reset
  BY <1>2, InitialShape DEF Reset, RowsInv, migration
<1>3. CASE BeginMigration
  BY <1>3, SetRecorded DEF BeginMigration, RowsInv, Keeps
<1>4. CASE CommitMigration
  <2>1. Keeps(db, tx) /\ Shape(tx)
    BY <1>4 DEF CommitMigration, RowsInv
  <2>2. Shape(db') /\ Keeps(tx, db')
    BY <1>4, <2>1, SetLevel DEF CommitMigration, Keeps
  <2> QED
    BY <1>4, <2>1, <2>2, InitialShape DEF CommitMigration, RowsInv, Keeps
<1>5. CASE RunNode
  BY <1>5 DEF RunNode, RowsInv, migration
<1>6. CASE MigrationAddAuthzSupport
  <2>1. CASE tx.authz = {}
    BY <1>6, <2>1, KeepsItself, WritesKeepRows DEF MigrationAddAuthzSupport, Runs, RowsInv
  <2>2. CASE tx.authz # {}
    BY <1>6, <2>2, RestartsKeepRows DEF MigrationAddAuthzSupport, Aborts
  <2> QED
    BY <2>1, <2>2
<1>7. ASSUME NEW k \in {2} \cup 4 .. 8, RunStatement(k)
      PROVE  RowsInv' /\ db' = db
  <2>1. CASE StatementHolds(k)
    BY <1>7, <2>1, KeepsItself, WritesKeepRows DEF RunStatement, Runs, RowsInv
  <2>2. CASE ~ StatementHolds(k)
    BY <1>7, <2>2, RestartsKeepRows DEF RunStatement, Aborts
  <2> QED
    BY <2>1, <2>2
<1>8. CASE ExpandBatch
  <2>1. PICK S \in SelectEventsBatch :
          IF InsertsEventAttributes(S)
          THEN NextPage /\ Writes([tx EXCEPT !.attributes = Expanded(S)])
          ELSE Aborts
    BY <1>8 DEF ExpandBatch
  <2>2. CASE InsertsEventAttributes(S)
    <3> DEFINE n == [tx EXCEPT !.attributes = Expanded(S)]
    <3>1. Shape(n) /\ Keeps(tx, n)
      BY SetAttributes DEF RowsInv, Keeps
    <3> QED
      BY <1>8, <2>1, <2>2, <3>1, WritesKeepRows DEF ExpandBatch, Runs
  <2>3. CASE ~ InsertsEventAttributes(S)
    BY <2>1, <2>3, RestartsKeepRows DEF Aborts
  <2> QED
    BY <2>2, <2>3
<1>9. CASE DropAttributesColumn
  <2> DEFINE n == [tx EXCEPT !.events =
                     [e \in DOMAIN @ |-> [wasm |-> @[e].wasm, attrs |-> <<>>]]]
  <2>1. Shape(n) /\ Keeps(tx, n)
    BY SetEvents DEF RowsInv, Keeps
  <2> QED
    BY <1>9, <2>1, WritesKeepRows DEF DropAttributesColumn, Runs
<1>10. CASE RegisterBatch
  <2>1. PICK S \in RegisterEventIds : \E R \in Readings({a[1] : a \in S}) :
          IF /\ InsertsAgents(R, {a[1] : a \in S}) /\ InsertsRecords(R, {a[1] : a \in S})
             /\ InsertsRegistrations(R, {a[1] : a \in S})
          THEN NextPage /\ Writes([tx EXCEPT
                 !.agents = @ \cup {Value(R, e, "agent_address") : e \in {a[1] : a \in S}},
                 !.records = @ \cup {a[1] : a \in S},
                 !.registrations = Registered(R, {a[1] : a \in S})])
          ELSE Aborts
    BY <1>10 DEF RegisterBatch
  <2> DEFINE E == {a[1] : a \in S}
  <2>2. PICK R \in Readings(E) :
          IF InsertsAgents(R, E) /\ InsertsRecords(R, E) /\ InsertsRegistrations(R, E)
          THEN NextPage /\ Writes([tx EXCEPT
                 !.agents = @ \cup {Value(R, e, "agent_address") : e \in E},
                 !.records = @ \cup E,
                 !.registrations = Registered(R, E)])
          ELSE Aborts
    BY <2>1
  <2> HIDE DEF E
  <2>3. CASE InsertsAgents(R, E) /\ InsertsRecords(R, E) /\ InsertsRegistrations(R, E)
    <3> DEFINE n == [tx EXCEPT
                 !.agents = @ \cup {Value(R, e, "agent_address") : e \in E},
                 !.records = @ \cup E,
                 !.registrations = Registered(R, E)]
    <3>1. DOMAIN tx.registrations \subseteq DOMAIN Registered(R, E)
      BY DEF Registered
    <3> DEFINE x == tx.agents \cup {Value(R, e, "agent_address") : e \in E}
               y == tx.records \cup E
               z == Registered(R, E)
               m == [tx EXCEPT !.agents = x, !.records = y, !.registrations = z]
    <3>2. n = m
      OBVIOUS
    <3>3. Shape(tx)
      BY DEF RowsInv
    <3> HIDE DEF x, y, z, n
    <3>4. Shape(m) /\ m.events = tx.events /\ m.contracts = tx.contracts /\ m.registrations = z
      BY <3>3, FieldNames DEF Shape
    <3>5. Keeps(tx, m)
      BY <3>1, <3>4 DEF Keeps, z
    <3>6. step = "transaction" /\ Writes(n)
      BY <1>10, <2>2, <2>3 DEF RegisterBatch, Runs, n
    <3> QED
      BY <3>2, <3>4, <3>5, <3>6, WritesKeepRows
  <2>4. CASE ~ (InsertsAgents(R, E) /\ InsertsRecords(R, E) /\ InsertsRegistrations(R, E))
    BY <2>2, <2>4, RestartsKeepRows DEF Aborts
  <2> QED
    BY <2>3, <2>4
<1>11. CASE RegisterEnds
  BY <1>11, KeepsItself, WritesKeepRows DEF RegisterEnds, Runs, RowsInv
<1>12. CASE PostgresGoes
  <2>1. CASE step = "reset"
    BY <1>12, <2>1 DEF PostgresGoes, RowsInv, migration
  <2>2. CASE step # "reset"
    BY <1>12, <2>2, RestartsKeepRows DEF PostgresGoes
  <2> QED
    BY <2>1, <2>2
<1>13. CASE PostgresComes
  BY <1>13 DEF PostgresComes, RowsInv, migration
<1>14. CASE CommandFails
  BY <1>14, RestartsKeepRows DEF CommandFails
<1>15. CASE Crash
  BY <1>15, RestartsKeepRows DEF Crash
<1>16. CASE UNCHANGED vars
  BY <1>16 DEF vars, RowsInv, migration
<1> QED
  BY <1>1, <1>2, <1>3, <1>4, <1>5, <1>6, <1>7, <1>8, <1>9, <1>10, <1>11, <1>12, <1>13, <1>14,
     <1>15, <1>16 DEF Next, Start, Migrate

\* However many databases, pages, outages and crashes there are, no step of a
\* start loses a row unless the entry point's question went unanswered or the
\* database has no record of migrations (node-entrypoint.sh erases it then).
THEOREM StartsLoseNoRows == Spec => RowsSurviveStarts
<1>1. Init => RowsInv
  BY RowsInit
<1>2. RowsInv /\ [Next]_vars => RowsInv'
  BY RowsNext
<1>3. RowsInv /\ [Next]_vars => [RowsStep]_vars
  BY RowsNext
<1>4. RowsStep =
        (DOMAIN db.events \ DOMAIN db'.events # {} \/ DOMAIN db.contracts \ DOMAIN db'.contracts # {}
         \/ DOMAIN db.registrations \ DOMAIN db'.registrations # {}
           => blind \/ ~ db.recorded)
  BY DEF RowsStep, Loses
<1>5. RowsInv /\ [Next]_vars =>
        [DOMAIN db.events \ DOMAIN db'.events # {} \/ DOMAIN db.contracts \ DOMAIN db'.contracts # {}
         \/ DOMAIN db.registrations \ DOMAIN db'.registrations # {}
           => blind \/ ~ db.recorded]_vars
  BY <1>3, <1>4
<1> QED
  BY <1>1, <1>2, <1>5, PTL DEF Spec, RowsSurviveStarts

-----------------------------------------------------------------------------
(* Pages: as many rows as k pages have, if no page repeats a row.            *)

\* A set of rows of as many as k pages have
Counted(S, rows, size, k) ==
  /\ size * k <= Cardinality(rows) => Cardinality(S) = size * k
  /\ size * k >= Cardinality(rows) => Cardinality(S) = Cardinality(rows)

LEMMA MinOfTwo ==
  ASSUME NEW a \in Int, NEW b \in Int
  PROVE  /\ a <= b => Min({a, b}) = a
         /\ b <= a => Min({a, b}) = b
<1>1. CASE a <= b
  <2>1. a \in {a, b} /\ \A y \in {a, b} : a <= y
    BY <1>1
  <2>2. \A x \in {a, b} : (\A y \in {a, b} : x <= y) => x = a
    BY <1>1
  <2>3. Min({a, b}) = a
    BY <2>1, <2>2 DEF Min
  <2> QED
    BY <1>1, <2>3
<1>2. CASE b <= a
  <2>1. b \in {a, b} /\ \A y \in {a, b} : b <= y
    BY <1>2
  <2>2. \A x \in {a, b} : (\A y \in {a, b} : x <= y) => x = b
    BY <1>2
  <2>3. Min({a, b}) = b
    BY <2>1, <2>2 DEF Min
  <2> QED
    BY <1>2, <2>3
<1> QED
  BY <1>1, <1>2

LEMMA NoneCounted ==
  ASSUME NEW rows, NEW size \in Nat, IsFiniteSet(rows)
  PROVE  Counted({}, rows, size, 0)
<1>1. Cardinality(rows) \in Nat /\ Cardinality({}) = 0 /\ size * 0 = 0
  BY FS_CardinalityType, FS_EmptySet
<1> QED
  BY <1>1 DEF Counted

\* A page of rows that no page had before
LEMMA CountStep ==
  ASSUME NEW rows, NEW size \in Nat \ {0}, NEW S, NEW T, IsFiniteSet(rows), page \in Nat,
         S \in SUBSET rows, T \in Pages(rows, size), S \cap T = {}, ~ NoMore(rows, size),
         Counted(S, rows, size, page)
  PROVE  S \cup T \in SUBSET rows /\ Counted(S \cup T, rows, size, page + 1)
<1> DEFINE n == Cardinality(rows)
           k == size * page
           m == PageSize(rows, size)
<1>1. T \in SUBSET rows /\ Cardinality(T) = m
  BY DEF Pages, kSubset
<1>2. n \in Nat /\ k \in Nat /\ size \in Nat /\ size > 0
  BY FS_CardinalityType
<1>3. size * (page + 1) = k + size
  BY <1>2
<1>4. Cardinality(S \cup T) = Cardinality(S) + m
  <2>1. IsFiniteSet(S) /\ IsFiniteSet(T)
    BY <1>1, FS_Subset
  <2>2. Cardinality(S) \in Nat /\ Cardinality(T) \in Nat
    BY <2>1, FS_CardinalityType
  <2>3. Cardinality(S \cup T) = Cardinality(S) + Cardinality(T) - Cardinality({})
    BY <2>1, FS_Union
  <2>4. Cardinality({}) = 0
    BY FS_EmptySet
  <2> QED
    BY <1>1, <2>2, <2>3, <2>4
<1>5. m = Min({size, n - k})
  BY DEF PageSize
<1>6. ~ (m <= 0)
  BY DEF NoMore
<1>7. /\ k <= n => Cardinality(S) = k
      /\ k >= n => Cardinality(S) = n
  BY DEF Counted
<1> HIDE DEF n, k, m
<1>8. /\ size <= n - k => m = size
      /\ n - k <= size => m = n - k
  BY <1>2, <1>5, MinOfTwo
<1>9. k < n
  BY <1>2, <1>6, <1>8
<1>10. /\ k + size <= n => Cardinality(S \cup T) = k + size
       /\ k + size >= n => Cardinality(S \cup T) = n
  BY <1>2, <1>4, <1>7, <1>8, <1>9
<1>11. Counted(S \cup T, rows, size, page + 1)
  BY <1>3, <1>10 DEF Counted, n
<1> QED
  BY <1>1, <1>11

\* No page is left: all rows were on one.
LEMMA CountAll ==
  ASSUME NEW rows, NEW size \in Nat \ {0}, NEW S, IsFiniteSet(rows), page \in Nat,
         S \in SUBSET rows, NoMore(rows, size), Counted(S, rows, size, page)
  PROVE  S = rows
<1> DEFINE n == Cardinality(rows)
           k == size * page
<1>1. n \in Nat /\ k \in Nat /\ size \in Nat /\ size > 0
  BY FS_CardinalityType
<1>2. Min({size, n - k}) <= 0
  BY DEF NoMore, PageSize
<1>3. k >= n => Cardinality(S) = n
  BY DEF Counted
<1> HIDE DEF k
<1>4. k >= n
  <2> HIDE DEF n
  <2>1. \/ size <= n - k /\ Min({size, n - k}) = size
        \/ n - k <= size /\ Min({size, n - k}) = n - k
    BY <1>1, MinOfTwo
  <2> QED
    BY <1>1, <1>2, <2>1
<1> QED
  BY <1>3, <1>4, FS_Subset

-----------------------------------------------------------------------------
(* Attributes: after k pages the table has those of as many events as k      *)
(* pages have rows, because the primary key refuses to expand an event twice *)
(* and each event has something to refuse.                                   *)

Expanding ==
  \E S \in SUBSET DOMAIN tx.events :
    /\ tx.attributes = [a \in AttributesOf(tx, S) |-> Attribute(tx, a)]
    /\ Counted(S, DOMAIN tx.events, ExpandSize, page)

LevelsInv ==
  /\ page \in Nat /\ original \in Databases /\ db.level \in 0 .. 9
  /\ step = "transaction" => tx.level = db.level /\ db.level < 9
  /\ ~ erased => original.level <= db.level

Untouched == tx.events = db.events /\ tx.attributes = db.attributes
InMigration3 ==
  IF done THEN tx.attributes = Known(original) ELSE tx.events = db.events /\ Expanding
AttributesInv ==
  ~ erased =>
    /\ db.level < 3 => db.events = original.events /\ db.attributes = <<>>
    /\ db.level >= 3 /\ Complete => db.attributes = Known(original)
    /\ step = "transaction" =>
         /\ tx.level < 2 => Untouched
         /\ tx.level = 2 /\ Complete => InMigration3
         /\ tx.level > 2 => tx.attributes = db.attributes

\* The attributes of disjoint sets of events
LEMMA AttributesOfUnion ==
  ASSUME NEW d, NEW S, NEW T
  PROVE  AttributesOf(d, S \cup T) = AttributesOf(d, S) \cup AttributesOf(d, T)
  BY DEF AttributesOf

LEMMA ExpandedApart ==
  ASSUME NEW d, NEW S \in SUBSET DOMAIN d.events, NEW T \in SUBSET DOMAIN d.events,
         EachHasAttributes(d), AttributesOf(d, S) \cap AttributesOf(d, T) = {}
  PROVE  S \cap T = {}
<1> SUFFICES ASSUME NEW e \in S \cap T
             PROVE  FALSE
  OBVIOUS
<1>1. PICK i \in DOMAIN d.events[e].attrs : TRUE
  BY DEF EachHasAttributes
<1>2. <<e, i>> \in AttributesOf(d, S) /\ <<e, i>> \in AttributesOf(d, T)
  BY <1>1 DEF AttributesOf
<1> QED
  BY <1>2

LEMMA ExpandStep ==
  ASSUME Shape(tx), IsFiniteSet(DOMAIN tx.events), EachHasAttributes(tx), page \in Nat,
         Expanding, ~ NoMore(DOMAIN tx.events, ExpandSize),
         NEW T \in SelectEventsBatch, InsertsEventAttributes(T), NextPage,
         tx' = [tx EXCEPT !.attributes = Expanded(T)]
  PROVE  Expanding'
<1>1. PICK S \in SUBSET DOMAIN tx.events :
        /\ tx.attributes = [a \in AttributesOf(tx, S) |-> Attribute(tx, a)]
        /\ Counted(S, DOMAIN tx.events, ExpandSize, page)
  BY DEF Expanding
<1>2. T \in Pages(DOMAIN tx.events, ExpandSize) /\ T \in SUBSET DOMAIN tx.events
  BY DEF SelectEventsBatch, Pages, kSubset
<1>3. tx'.events = tx.events /\ tx'.attributes = Expanded(T)
  BY SetAttributes
<1>4. AttributesOf(tx, S) \cap AttributesOf(tx, T) = {}
  BY <1>1 DEF InsertsEventAttributes
<1>5. S \cap T = {}
  BY <1>2, <1>4, ExpandedApart
<1>6. \A U : AttributesOf(tx', U) = AttributesOf(tx, U)
  BY <1>3 DEF AttributesOf
<1>7. \A a : Attribute(tx', a) = Attribute(tx, a)
  BY <1>3 DEF Attribute
<1>8. tx'.attributes = [a \in AttributesOf(tx', S \cup T) |-> Attribute(tx', a)]
  <2>1. DOMAIN tx.attributes = AttributesOf(tx, S)
    BY <1>1
  <2>2. Expanded(T) = [a \in AttributesOf(tx, S \cup T) |-> Attribute(tx, a)]
    <3>1. \A a \in AttributesOf(tx, S) : tx.attributes[a] = Attribute(tx, a)
      BY <1>1
    <3> QED
      BY <2>1, <3>1, AttributesOfUnion DEF Expanded
  <2> QED
    BY <1>3, <1>6, <1>7, <2>2
<1>9. /\ S \cup T \in SUBSET DOMAIN tx.events
      /\ Counted(S \cup T, DOMAIN tx.events, ExpandSize, page + 1)
  BY <1>1, <1>2, <1>5, CountStep, ConstantsOK
<1> QED
  BY <1>3, <1>8, <1>9 DEF Expanding, NextPage

\* All pages read: every event is expanded.
LEMMA AllExpanded ==
  ASSUME IsFiniteSet(DOMAIN tx.events), page \in Nat,
         Expanding, NoMore(DOMAIN tx.events, ExpandSize)
  PROVE  tx.attributes = [a \in AttributesOf(tx, DOMAIN tx.events) |-> Attribute(tx, a)]
<1>1. PICK S \in SUBSET DOMAIN tx.events :
        /\ tx.attributes = [a \in AttributesOf(tx, S) |-> Attribute(tx, a)]
        /\ Counted(S, DOMAIN tx.events, ExpandSize, page)
  BY DEF Expanding
<1>2. S = DOMAIN tx.events
  BY <1>1, CountAll, ConstantsOK
<1> QED
  BY <1>1, <1>2

LEMMA KnownOfSameEvents ==
  ASSUME NEW d, d.level < 3, original.level < 3, d.events = original.events
  PROVE  Known(original) = [a \in AttributesOf(d, DOMAIN d.events) |-> Attribute(d, a)]
  BY DEF Known, AttributesOf, Attribute

AInv == RowsInv /\ LevelsInv /\ AttributesInv

LEMMA OriginalOK ==
  ASSUME LevelsInv
  PROVE  /\ Shape(original) /\ original.level \in 0 .. 9 /\ IsFiniteSet(DOMAIN original.events)
         /\ original.level < 3 => original.attributes = <<>>
  BY DatabasesOK DEF LevelsInv, Shape, LastMigration, Initial

LEMMA AInit == Init => AInv
<1> SUFFICES ASSUME Init
             PROVE  AInv
  OBVIOUS
<1>1. RowsInv
  BY RowsInit
<1>2. original.level \in 0 .. 9 /\ (original.level < 3 => original.attributes = <<>>)
  BY DatabasesOK DEF Init, LastMigration, Initial
<1>3. LevelsInv
  BY <1>2 DEF Init, LevelsInv
<1>4. AttributesInv
  BY <1>2 DEF Init, AttributesInv, Known
<1> QED
  BY <1>1, <1>3, <1>4 DEF AInv

\* A container that dies loses the transaction, not the database.
LEMMA ARestarts ==
  ASSUME AInv, Restarts
  PROVE  AInv'
<1>1. RowsInv'
  BY RestartsKeepRows DEF AInv
<1>2. db' = db /\ original' = original /\ erased' = erased /\ step' = "stopped" /\ page' = 0
  BY DEF Restarts, history
<1>3. LevelsInv'
  BY <1>2 DEF AInv, LevelsInv
<1>4. AttributesInv'
  BY <1>2 DEF AInv, AttributesInv, Known, AttributesOf, Attribute, Complete, EachHasAttributes
<1> QED
  BY <1>1, <1>3, <1>4 DEF AInv

\* A migration other than the third, and the steps of the container between two
\* migrations, leave events and attributes alone.
LEMMA AElsewhere ==
  ASSUME AInv, RowsInv', UNCHANGED <<db, original, erased>>, page' \in Nat,
         step' = "transaction" =>
           /\ step = "transaction" /\ tx.level # 2
           /\ tx'.level = tx.level /\ tx'.events = tx.events /\ tx'.attributes = tx.attributes
  PROVE  AInv'
<1>1. LevelsInv'
  BY DEF AInv, LevelsInv
<1>2. AttributesInv'
  BY DEF AInv, LevelsInv, AttributesInv, Known, AttributesOf, Attribute, Complete,
         EachHasAttributes, Untouched
<1> QED
  BY <1>1, <1>2 DEF AInv

\* The third migration starts with no event expanded.
LEMMA ABegin ==
  ASSUME AInv, RowsInv', BeginMigration
  PROVE  AInv'
<1>1. /\ step' = "transaction" /\ page' = 0 /\ done' = FALSE /\ tx' = db'
      /\ db.level < 9 /\ original' = original /\ erased' = erased
  BY DEF BeginMigration, history, LastMigration
<1>2. db'.level = db.level /\ db'.events = db.events /\ db'.attributes = db.attributes
  BY SetRecorded DEF BeginMigration, AInv, RowsInv
<1>3. LevelsInv'
  BY <1>1, <1>2 DEF AInv, LevelsInv
<1>4. Complete' = Complete /\ Known(original)' = Known(original)
  BY <1>1 DEF Complete, EachHasAttributes, Known, AttributesOf, Attribute
<1>5. ASSUME ~ erased, tx'.level = 2
      PROVE  Expanding'
  <2>1. tx'.attributes = <<>>
    BY <1>1, <1>2, <1>5 DEF AInv, AttributesInv
  <2>2. tx'.attributes = [a \in AttributesOf(tx', {}) |-> Attribute(tx', a)]
    <3>1. AttributesOf(tx', {}) = {}
      BY DEF AttributesOf
    <3> QED
      BY <2>1, <3>1
  <2>3. IsFiniteSet(DOMAIN tx'.events)
    BY <1>1, <1>2, <1>5, OriginalOK DEF AInv, AttributesInv
  <2>4. Counted({}, DOMAIN tx'.events, ExpandSize, page')
    BY <1>1, <2>3, NoneCounted, ConstantsOK
  <2> QED
    BY <2>2, <2>4 DEF Expanding
<1>6. AttributesInv'
  BY <1>1, <1>2, <1>4, <1>5 DEF AInv, LevelsInv, AttributesInv, Untouched, InMigration3
<1> QED
  BY <1>3, <1>6 DEF AInv

LEMMA ACommit ==
  ASSUME AInv, RowsInv', CommitMigration
  PROVE  AInv'
<1>1. /\ step = "transaction" /\ done /\ step' = "migrate" /\ page' = 0
      /\ original' = original /\ erased' = erased /\ db.level \in 0 .. 8 /\ tx.level = db.level
  BY DEF CommitMigration, history, AInv, LevelsInv
<1>2. db'.level = tx.level + 1 /\ db'.events = tx.events /\ db'.attributes = tx.attributes
  BY <1>1, SetLevel DEF CommitMigration, AInv, RowsInv
<1>3. LevelsInv'
  BY <1>1, <1>2, OriginalOK DEF AInv, LevelsInv
<1>4. Complete' = Complete /\ Known(original)' = Known(original)
  BY <1>1 DEF Complete, EachHasAttributes, Known, AttributesOf, Attribute
<1>5. AttributesInv'
  BY <1>1, <1>2, <1>4 DEF AInv, LevelsInv, AttributesInv, Untouched, InMigration3
<1> QED
  BY <1>3, <1>5 DEF AInv

\* In the third migration, with the database as it was found
LEMMA AThird ==
  ASSUME AInv, Runs(3), ~ erased, Complete
  PROVE  /\ EachHasAttributes(tx) /\ IsFiniteSet(DOMAIN tx.events) /\ Expanding
         /\ tx.events = original.events /\ tx.level = 2 /\ original.level < 3
<1>1. step = "transaction" /\ tx.level = 2 /\ db.level = 2 /\ ~ done
  BY DEF Runs, Number, AInv, LevelsInv
<1>2. original.level < 3
  BY <1>1, OriginalOK DEF AInv, LevelsInv
<1>3. tx.events = original.events /\ Expanding
  BY <1>1 DEF AInv, AttributesInv, InMigration3
<1>4. EachHasAttributes(tx)
  BY <1>2, <1>3 DEF Complete, EachHasAttributes
<1> QED
  BY <1>1, <1>2, <1>3, <1>4, OriginalOK DEF AInv

LEMMA AExpand ==
  ASSUME AInv, RowsInv', ExpandBatch
  PROVE  AInv'
<1>1. Runs(3) /\ ~ NoMore(DOMAIN tx.events, ExpandSize)
  BY DEF ExpandBatch
<1>2. PICK T \in SelectEventsBatch :
        IF InsertsEventAttributes(T)
        THEN NextPage /\ Writes([tx EXCEPT !.attributes = Expanded(T)])
        ELSE Aborts
  BY DEF ExpandBatch
<1>3. CASE ~ InsertsEventAttributes(T)
  BY <1>2, <1>3, ARestarts DEF Aborts
<1>4. CASE InsertsEventAttributes(T)
  <2>1. /\ NextPage /\ db' = db /\ step' = step /\ original' = original /\ erased' = erased
        /\ tx' = [tx EXCEPT !.attributes = Expanded(T)]
    BY <1>2, <1>4 DEF Writes, history
  <2>2. Shape(tx) /\ page \in Nat /\ page' \in Nat /\ done' = FALSE
    BY <2>1 DEF AInv, RowsInv, LevelsInv, NextPage
  <2>3. step = "transaction" /\ tx.level = 2 /\ tx.level = db.level /\ ~ done
    BY <1>1 DEF Runs, Number, AInv, LevelsInv
  <2>4. tx'.level = tx.level /\ tx'.events = tx.events
    BY <2>1, <2>2, SetAttributes
  <2>5. LevelsInv'
    BY <2>1, <2>2, <2>3, <2>4 DEF AInv, LevelsInv
  <2>6. Complete' = Complete /\ Known(original)' = Known(original)
    BY <2>1 DEF Complete, EachHasAttributes, Known, AttributesOf, Attribute
  <2>7. ASSUME ~ erased, Complete
        PROVE  Expanding' /\ tx'.events = db'.events
    <3>1. EachHasAttributes(tx) /\ IsFiniteSet(DOMAIN tx.events) /\ Expanding
      BY <1>1, <2>7, AThird
    <3>2. Expanding'
      BY <1>1, <1>4, <2>1, <2>2, <3>1, ExpandStep
    <3>3. tx.events = db.events
      BY <2>3, <2>7 DEF AInv, AttributesInv, InMigration3
    <3> QED
      BY <2>1, <2>4, <3>2, <3>3
  <2>8. AttributesInv'
    BY <2>1, <2>2, <2>3, <2>4, <2>6, <2>7 DEF AInv, AttributesInv, InMigration3
  <2> QED
    BY <2>5, <2>8 DEF AInv
<1> QED
  BY <1>3, <1>4

LEMMA ADrop ==
  ASSUME AInv, RowsInv', DropAttributesColumn
  PROVE  AInv'
<1>1. Runs(3) /\ NoMore(DOMAIN tx.events, ExpandSize)
  BY DEF DropAttributesColumn
<1>2. /\ db' = db /\ step' = step /\ original' = original /\ erased' = erased
      /\ page' = page /\ done' = TRUE
      /\ tx' = [tx EXCEPT !.events = [e \in DOMAIN @ |-> [wasm |-> @[e].wasm, attrs |-> <<>>]]]
  BY DEF DropAttributesColumn, Writes, Returns, history
<1>3. tx'.level = tx.level /\ tx'.attributes = tx.attributes
  BY <1>2, SetEvents DEF AInv, RowsInv
<1>4. step = "transaction" /\ tx.level = 2 /\ tx.level = db.level
  BY <1>1 DEF Runs, Number, AInv, LevelsInv
<1>5. LevelsInv'
  BY <1>2, <1>3 DEF AInv, LevelsInv
<1>6. Complete' = Complete /\ Known(original)' = Known(original)
  BY <1>2 DEF Complete, EachHasAttributes, Known, AttributesOf, Attribute
<1>7. ASSUME ~ erased, Complete
      PROVE  tx.attributes = Known(original)
  <2>1. /\ IsFiniteSet(DOMAIN tx.events) /\ Expanding
        /\ tx.events = original.events /\ original.level < 3
    BY <1>1, <1>7, AThird
  <2>2. tx.attributes = [a \in AttributesOf(tx, DOMAIN tx.events) |-> Attribute(tx, a)]
    BY <1>1, <2>1, AllExpanded DEF AInv, LevelsInv
  <2> QED
    BY <1>4, <2>1, <2>2, KnownOfSameEvents
<1>8. AttributesInv'
  BY <1>2, <1>3, <1>4, <1>6, <1>7 DEF AInv, AttributesInv, InMigration3
<1> QED
  BY <1>5, <1>8 DEF AInv

LEMMA AStutter ==
  ASSUME AInv, RowsInv', UNCHANGED <<db, step, tx, page, done, original, erased>>
  PROVE  AInv'
<1>1. LevelsInv'
  BY DEF AInv, LevelsInv
<1>2. Complete' = Complete /\ Known(original)' = Known(original) /\ Untouched' = Untouched
  BY DEF Complete, EachHasAttributes, Known, AttributesOf, Attribute, Untouched
<1>3. Expanding' = Expanding
  BY DEF Expanding, AttributesOf, Attribute
<1>4. InMigration3' = InMigration3
  BY <1>2, <1>3 DEF InMigration3
<1>5. AttributesInv'
  BY <1>2, <1>4 DEF AInv, AttributesInv
<1> QED
  BY <1>1, <1>5 DEF AInv

LEMMA ANext ==
  ASSUME AInv, [Next]_vars
  PROVE  AInv'
<1>0. RowsInv' /\ page \in Nat /\ page + 1 \in Nat /\ Shape(tx)
  BY RowsNext DEF AInv, LevelsInv, RowsInv
<1>1. CASE CheckMigrations
  BY <1>0, <1>1, AElsewhere DEF CheckMigrations, migration, history
<1>2. CASE Reset
  <2>1. /\ db' = Initial /\ erased' /\ original' = original /\ page' = page
        /\ step' = "migrate"
    BY <1>2 DEF Reset, migration
  <2>2. db'.level = 0
    BY <2>1 DEF Initial
  <2> QED
    BY <1>0, <2>1, <2>2 DEF AInv, LevelsInv, AttributesInv
<1>3. CASE BeginMigration
  BY <1>0, <1>3, ABegin
<1>4. CASE CommitMigration
  BY <1>0, <1>4, ACommit
<1>5. CASE RunNode
  BY <1>0, <1>5, AElsewhere DEF RunNode, migration, history
<1>6. CASE MigrationAddAuthzSupport
  <2>1. CASE tx.authz = {}
    BY <1>0, <1>6, <2>1, AElsewhere
       DEF MigrationAddAuthzSupport, Runs, Number, Returns, Writes, history, AInv, LevelsInv
  <2>2. CASE tx.authz # {}
    BY <1>6, <2>2, ARestarts DEF MigrationAddAuthzSupport, Aborts
  <2> QED
    BY <2>1, <2>2
<1>7. ASSUME NEW k \in {2} \cup 4 .. 8, RunStatement(k)
      PROVE  AInv'
  <2>1. CASE StatementHolds(k)
    BY <1>0, <1>7, <2>1, AElsewhere
       DEF RunStatement, Runs, Number, Returns, Writes, history, AInv, LevelsInv
  <2>2. CASE ~ StatementHolds(k)
    BY <1>7, <2>2, ARestarts DEF RunStatement, Aborts
  <2> QED
    BY <2>1, <2>2
<1>8. CASE ExpandBatch
  BY <1>0, <1>8, AExpand
<1>9. CASE DropAttributesColumn
  BY <1>0, <1>9, ADrop
<1>10. CASE RegisterBatch
  <2>1. PICK S \in RegisterEventIds : \E R \in Readings({a[1] : a \in S}) :
          IF /\ InsertsAgents(R, {a[1] : a \in S}) /\ InsertsRecords(R, {a[1] : a \in S})
             /\ InsertsRegistrations(R, {a[1] : a \in S})
          THEN NextPage /\ Writes([tx EXCEPT
                 !.agents = @ \cup {Value(R, e, "agent_address") : e \in {a[1] : a \in S}},
                 !.records = @ \cup {a[1] : a \in S},
                 !.registrations = Registered(R, {a[1] : a \in S})])
          ELSE Aborts
    BY <1>10 DEF RegisterBatch
  <2>2. \/ Aborts
        \/ \E x, y, z :
             NextPage /\ Writes([tx EXCEPT !.agents = x, !.records = y, !.registrations = z])
    BY <2>1
  <2>3. ASSUME NEW x, NEW y, NEW z,
               NextPage, Writes([tx EXCEPT !.agents = x, !.records = y, !.registrations = z])
        PROVE  AInv'
    <3> DEFINE n == [tx EXCEPT !.agents = x, !.records = y, !.registrations = z]
    <3>1. n.level = tx.level /\ n.events = tx.events /\ n.attributes = tx.attributes
      BY <1>0, FieldNames DEF Shape
    <3>2. /\ UNCHANGED <<db, original, erased>> /\ tx' = n /\ page' \in Nat
          /\ step = "transaction" /\ tx.level # 2
      BY <1>0, <1>10, <2>3
         DEF RegisterBatch, Runs, Number, Writes, NextPage, history, AInv, LevelsInv
    <3> HIDE DEF n
    <3> QED
      BY <1>0, <3>1, <3>2, AElsewhere
  <2> QED
    BY <2>2, <2>3, ARestarts DEF Aborts
<1>11. CASE RegisterEnds
  BY <1>0, <1>11, AElsewhere
     DEF RegisterEnds, Runs, Number, Returns, Writes, history, AInv, LevelsInv
<1>12. CASE PostgresGoes
  <2>1. CASE step = "reset"
    BY <1>0, <1>12, <2>1, AElsewhere DEF PostgresGoes, migration, history
  <2>2. CASE step # "reset"
    BY <1>12, <2>2, ARestarts DEF PostgresGoes
  <2> QED
    BY <2>1, <2>2
<1>13. CASE PostgresComes
  BY <1>0, <1>13, AStutter DEF PostgresComes, migration, history
<1>14. CASE CommandFails
  BY <1>14, ARestarts DEF CommandFails
<1>15. CASE Crash
  BY <1>15, ARestarts DEF Crash
<1>16. CASE UNCHANGED vars
  BY <1>0, <1>16, AStutter DEF vars, migration, history
<1> QED
  BY <1>1, <1>2, <1>3, <1>4, <1>5, <1>6, <1>7, <1>8, <1>9, <1>10, <1>11, <1>12, <1>13, <1>14,
     <1>15, <1>16 DEF Next, Start, Migrate

\* Expanding the attributes loses none, whatever the size of a page, the order
\* in which each page's query sees the rows, and the moments of the failures.
THEOREM AttributesAreNeverLost == Spec => []AttributesSurvive
<1>1. Init => AInv
  BY AInit
<1>2. AInv /\ [Next]_vars => AInv'
  BY ANext
<1>3. AInv => AttributesSurvive
  <2> SUFFICES ASSUME AInv, ~ erased, Complete
               PROVE  Known(db) = Known(original)
    BY DEF AttributesSurvive, Complete
  <2>1. CASE db.level < 3
    <3>1. original.level < 3 /\ db.events = original.events
      BY <2>1, OriginalOK DEF AInv, LevelsInv, AttributesInv
    <3> QED
      BY <2>1, <3>1, KnownOfSameEvents DEF Known
  <2>2. CASE ~ (db.level < 3)
    BY <2>2 DEF AInv, LevelsInv, AttributesInv, Known
  <2> QED
    BY <2>1, <2>2
<1> QED
  BY <1>1, <1>2, <1>3, PTL DEF Spec
-----------------------------------------------------------------------------
(* Registrations: after k pages the table has those of as many attributes as *)
(* k pages have rows, because the primary key of the records refuses to      *)
(* register an event twice.                                                  *)

\* The attributes that make an event a registration
Marks(d) ==
  {a \in DOMAIN Known(d) :
     /\ d.events[a[1]].wasm /\ Known(d)[a] = [key |-> "action", text |-> "register"]}
EventsOf(S) == {a[1] : a \in S}
AgreesOn(d, e, registration) ==
  Distinct(d, e) /\ "signature" \in Keys(d, e) =>
    HandlerSaves(d, e) /\ registration = HandlersRegistration(d, e)
\* Registrations r of the events E
AreOf(d, E, r) == DOMAIN r = E /\ \A e \in E : AgreesOn(d, e, r[e])
\* What the migrations leave alone
SameEvents(d, n) ==
  /\ DOMAIN n.events = DOMAIN d.events /\ n.contracts = d.contracts
  /\ \A e \in DOMAIN d.events : n.events[e].wasm = d.events[e].wasm

Registering9 ==
  \E S \in SUBSET Marks(original) :
    /\ EventsOf(S) \subseteq tx.records
    /\ AreOf(original, EventsOf(S), tx.registrations)
    /\ Counted(S, Marks(original), RegisterSize, page)

RegistrationsInv ==
  ~ erased =>
    /\ SameEvents(original, db)
    /\ step = "transaction" => SameEvents(original, tx)
    /\ original.level < 9 /\ Complete =>
         /\ db.level < 9 => db.registrations = <<>>
         /\ db.level = 9 => AreOf(original, EventsOf(Marks(original)), db.registrations)
         /\ step = "transaction" /\ tx.level < 8 => tx.registrations = <<>>
         /\ step = "transaction" /\ tx.level = 8 =>
              IF done THEN AreOf(original, EventsOf(Marks(original)), tx.registrations)
              ELSE Registering9

RInv == AInv /\ RegistrationsInv

\* In the ninth migration, with the database as it was found
LEMMA RNinth ==
  ASSUME RInv, Runs(9), ~ erased, Complete, original.level < 9
  PROVE  /\ tx.attributes = Known(original) /\ tx.contracts = original.contracts
         /\ RegisterEventIds_All = Marks(original) /\ IsFiniteSet(Marks(original))
         /\ Registering9
<1>1. step = "transaction" /\ tx.level = 8 /\ db.level = 8 /\ ~ done
  BY DEF Runs, Number, RInv, AInv, LevelsInv
<1>2. tx.attributes = Known(original)
  BY <1>1 DEF RInv, AInv, AttributesInv
<1>3. SameEvents(original, tx) /\ Registering9
  BY <1>1 DEF RInv, RegistrationsInv
<1>4. /\ IsFiniteSet(DOMAIN Known(original))
      /\ \A a \in DOMAIN Known(original) : a[1] \in DOMAIN original.events
  BY RowsOK DEF RInv, AInv, LevelsInv
<1>5. RegisterEventIds_All = Marks(original)
  BY <1>2, <1>3, <1>4 DEF RegisterEventIds_All, Marks, SameEvents
<1>6. IsFiniteSet(Marks(original))
  <2>1. Marks(original) \in SUBSET DOMAIN Known(original)
    BY DEF Marks
  <2> QED
    BY <1>4, <2>1, FS_Subset
<1> QED
  BY <1>2, <1>3, <1>5, <1>6 DEF SameEvents

\* Whatever the order of the rows, an event with one attribute of each key is
\* read as its handler reads it.
LEMMA ReadAsHandled ==
  ASSUME NEW E, NEW R \in Readings(E), NEW e \in E, tx.attributes = Known(original),
         Distinct(original, e), NEW key
  PROVE  /\ key \in Keys(original, e) => Value(R, e, key) = Field(original, e, key)
         /\ key \notin Keys(original, e) => Value(R, e, key) = Undefined
<1> DEFINE K == Known(original)
           is(a) == a[1] = e /\ K[a].key = key
<1>1. PICK overwritten \in SUBSET Twins(E) : R = RegisterEventData(E) \ overwritten
  BY DEF Readings
<1>2. R \subseteq DOMAIN K
  BY <1>1 DEF RegisterEventData
<1>3. \A a \in DOMAIN K : a[1] = e => a \in R
  <2> SUFFICES ASSUME NEW a \in DOMAIN K, a[1] = e
               PROVE  a \in R
    OBVIOUS
  <2>1. a \in RegisterEventData(E)
    BY DEF RegisterEventData
  <2>2. a \notin Twins(E)
    BY DEF Twins, SameKey, RegisterEventData, Distinct
  <2> QED
    BY <1>1, <2>1, <2>2
<1>4. key \in Keys(original, e) <=> \E a \in DOMAIN K : is(a)
  BY DEF Keys
<1>5. (\E a \in R : is(a)) <=> (\E a \in DOMAIN K : is(a))
  BY <1>2, <1>3
<1>6. ASSUME \E a \in DOMAIN K : is(a)
      PROVE  (CHOOSE a \in R : is(a)) = (CHOOSE a \in DOMAIN K : is(a))
  <2>1. PICK a \in DOMAIN K : is(a)
    BY <1>6
  <2>2. \A b \in DOMAIN K : is(b) => b = a
    BY <2>1 DEF Distinct
  <2>3. a \in R /\ \A b \in R : is(b) => b = a
    BY <1>2, <1>3, <2>1, <2>2
  <2> QED
    BY <2>1, <2>2, <2>3
<1>7. Value(R, e, key) = IF \E a \in R : is(a) THEN K[CHOOSE a \in R : is(a)].text ELSE Undefined
  BY DEF Value
<1>8. Field(original, e, key) = K[CHOOSE a \in DOMAIN K : is(a)].text
  BY DEF Field
<1> QED
  BY <1>4, <1>5, <1>6, <1>7, <1>8

\* A batch that is inserted has the registrations of the handlers.
LEMMA BatchAgrees ==
  ASSUME NEW E, NEW R \in Readings(E), NEW e \in E, LevelsInv,
         tx.attributes = Known(original), tx.contracts = original.contracts,
         InsertsRecords(R, E), InsertsRegistrations(R, E)
  PROVE  AgreesOn(original, e, Registration(R, e))
<1> SUFFICES ASSUME Distinct(original, e), "signature" \in Keys(original, e)
             PROVE  /\ HandlerSaves(original, e)
                    /\ Registration(R, e) = HandlersRegistration(original, e)
  BY DEF AgreesOn
<1>1. \A key : /\ key \in Keys(original, e) => Value(R, e, key) = Field(original, e, key)
               /\ key \notin Keys(original, e) => Value(R, e, key) = Undefined
  BY ReadAsHandled
<1>2. Undefined \notin DOMAIN original.contracts
  BY RowsOK DEF LevelsInv
<1>3. /\ Value(R, e, "expiry_height") # Undefined /\ Value(R, e, "sequence") # Undefined
      /\ Value(R, e, "agent_address") # Undefined
      /\ Value(R, e, "_contract_address") \in DOMAIN original.contracts
  BY DEF InsertsRegistrations
<1>4. Value(R, e, "record") # Undefined /\ Value(R, e, "record") # Garbage
  BY DEF InsertsRecords
<1>5. Needed \cup {"_contract_address"} \subseteq Keys(original, e)
  BY <1>1, <1>2, <1>3, <1>4 DEF Needed
<1>6. \A key \in Needed \cup {"_contract_address"} : Value(R, e, key) = Field(original, e, key)
  BY <1>1, <1>5
<1>7. HandlerSaves(original, e)
  BY <1>3, <1>4, <1>5, <1>6 DEF HandlerSaves, Needed
<1>8. Registration(R, e) = HandlersRegistration(original, e)
  BY <1>6 DEF Registration, HandlersRegistration, Needed
<1> QED
  BY <1>7, <1>8
\* One more batch is registered.
LEMMA RegisterStep ==
  ASSUME RInv, Runs(9), ~ erased, Complete, original.level < 9,
         ~ NoMore(RegisterEventIds_All, RegisterSize),
         NEW T \in RegisterEventIds, NEW R \in Readings(EventsOf(T)),
         InsertsRecords(R, EventsOf(T)), InsertsRegistrations(R, EventsOf(T)), NextPage,
         tx'.records = tx.records \cup EventsOf(T), original' = original,
         tx'.registrations = Registered(R, EventsOf(T))
  PROVE  Registering9'
<1> DEFINE E == EventsOf(T)
           M == Marks(original)
           new == Registered(R, E)
<1>1. /\ tx.attributes = Known(original) /\ tx.contracts = original.contracts
      /\ RegisterEventIds_All = M /\ IsFiniteSet(M) /\ Registering9
  BY RNinth
<1>2. PICK S \in SUBSET M :
        /\ EventsOf(S) \subseteq tx.records
        /\ AreOf(original, EventsOf(S), tx.registrations)
        /\ Counted(S, M, RegisterSize, page)
  BY <1>1 DEF Registering9
<1>3. E \cap tx.records = {}
  BY DEF InsertsRecords
<1>4. S \cap T = {}
  BY <1>2, <1>3 DEF EventsOf
<1>5. S \cup T \in SUBSET M /\ Counted(S \cup T, M, RegisterSize, page + 1)
  <2>1. RegisterSize \in Nat \ {0} /\ page \in Nat
    BY ConstantsOK DEF RInv, AInv, LevelsInv
  <2>2. T \in Pages(M, RegisterSize) /\ ~ NoMore(M, RegisterSize)
    BY <1>1 DEF RegisterEventIds
  <2> QED
    BY <1>1, <1>2, <1>4, <2>1, <2>2, CountStep
<1>6. EventsOf(S \cup T) = EventsOf(S) \cup E
  BY DEF EventsOf
<1>7. AreOf(original, EventsOf(S) \cup E, new)
  <2>1. DOMAIN tx.registrations = EventsOf(S)
    BY <1>2 DEF AreOf
  <2>2. DOMAIN new = EventsOf(S) \cup E
    BY <2>1 DEF Registered
  <2>3. \A e \in E : new[e] = Registration(R, e)
    BY <2>1 DEF Registered
  <2>4. \A e \in EventsOf(S) \ E : new[e] = tx.registrations[e]
    BY <2>1 DEF Registered
  <2>5. \A e \in E : AgreesOn(original, e, Registration(R, e))
    BY <1>1, BatchAgrees DEF RInv, AInv
  <2>6. \A e \in EventsOf(S) : AgreesOn(original, e, tx.registrations[e])
    BY <1>2 DEF AreOf
  <2> HIDE DEF new, E
  <2>7. \A e \in EventsOf(S) \cup E : AgreesOn(original, e, new[e])
    BY <2>3, <2>4, <2>5, <2>6
  <2> QED
    BY <2>2, <2>7 DEF AreOf
<1>8. page' = page + 1
  BY DEF NextPage
<1>9. EventsOf(S \cup T) \subseteq tx'.records
  BY <1>2, <1>6
<1>10. /\ AreOf(original', EventsOf(S \cup T), tx'.registrations)
       /\ Counted(S \cup T, Marks(original'), RegisterSize, page')
       /\ S \cup T \in SUBSET Marks(original')
  BY <1>5, <1>6, <1>7, <1>8
<1> QED
  BY <1>9, <1>10 DEF Registering9

LEMMA SetRegistrations ==
  ASSUME NEW d, Shape(d), NEW x, NEW y, NEW z
  PROVE  LET n == [d EXCEPT !.agents = x, !.records = y, !.registrations = z]
         IN  /\ n.level = d.level /\ n.events = d.events /\ n.contracts = d.contracts
             /\ n.records = y /\ n.registrations = z
  BY FieldNames DEF Shape

LEMMA RInit == Init => RInv
<1> SUFFICES ASSUME Init
             PROVE  RInv
  OBVIOUS
<1>1. original = db /\ original \in Databases /\ step = "stopped"
  BY DEF Init
<1>2. original.level < 9 => original.registrations = <<>>
  BY <1>1, DatabasesOK DEF LastMigration, Initial
<1>3. original.level \in 0 .. 9
  BY <1>1, DatabasesOK DEF LastMigration
<1>4. RegistrationsInv
  BY <1>1, <1>2, <1>3 DEF RegistrationsInv, SameEvents
<1> QED
  BY <1>4, AInit DEF RInv

\* The steps that write no registration
LEMMA RElsewhere ==
  ASSUME RInv, AInv', UNCHANGED <<db, original>>, erased' = erased,
         step' = "transaction" =>
           /\ step = "transaction" /\ tx.level # 8
           /\ tx'.level = tx.level /\ tx'.registrations = tx.registrations
           /\ SameEvents(tx, tx')
  PROVE  RInv'
<1>1. Complete' = Complete
  BY DEF Complete
<1>2. step' = "transaction" /\ SameEvents(original, tx) => SameEvents(original', tx')
  BY DEF SameEvents
<1>3. RegistrationsInv'
  BY <1>1, <1>2 DEF RInv, RegistrationsInv
<1> QED
  BY <1>3 DEF RInv

LEMMA RStutter ==
  ASSUME RInv, AInv', UNCHANGED <<db, step, tx, page, done, original, erased>>
  PROVE  RInv'
<1>1. Complete' = Complete /\ Registering9' = Registering9
  BY DEF Complete, Registering9
<1>2. RegistrationsInv'
  BY <1>1 DEF RInv, RegistrationsInv
<1> QED
  BY <1>2 DEF RInv

LEMMA RBegin ==
  ASSUME RInv, AInv', BeginMigration
  PROVE  RInv'
<1>1. /\ step' = "transaction" /\ page' = 0 /\ done' = FALSE /\ tx' = db'
      /\ db.level < 9 /\ original' = original /\ erased' = erased
  BY DEF BeginMigration, history, LastMigration
<1>2. /\ db'.level = db.level /\ db'.events = db.events /\ db'.contracts = db.contracts
      /\ db'.registrations = db.registrations
  BY SetRecorded DEF BeginMigration, RInv, AInv, RowsInv
<1>3. Complete' = Complete
  BY <1>1 DEF Complete
<1>4. ASSUME ~ erased, original.level < 9, Complete
      PROVE  tx'.registrations = <<>> /\ Registering9'
  <2>1. tx'.registrations = <<>>
    BY <1>1, <1>2, <1>4 DEF RInv, RegistrationsInv
  <2>2. EventsOf({}) = {}
    BY DEF EventsOf
  <2>3. AreOf(original, EventsOf({}), tx'.registrations)
    BY <2>1, <2>2 DEF AreOf
  <2>4. Counted({}, Marks(original), RegisterSize, 0)
    <3>1. IsFiniteSet(Marks(original))
      <4>1. Marks(original) \in SUBSET DOMAIN Known(original) /\ IsFiniteSet(DOMAIN Known(original))
        BY RowsOK DEF Marks, RInv, AInv, LevelsInv
      <4> QED
        BY <4>1, FS_Subset
    <3> QED
      BY <3>1, NoneCounted, ConstantsOK
  <2> QED
    BY <1>1, <2>1, <2>2, <2>3, <2>4 DEF Registering9
<1>5. SameEvents(original, db) => SameEvents(original', db')
  BY <1>1, <1>2 DEF SameEvents
<1>6. RegistrationsInv'
  BY <1>1, <1>2, <1>3, <1>4, <1>5 DEF RInv, RegistrationsInv
<1> QED
  BY <1>6 DEF RInv

LEMMA RCommit ==
  ASSUME RInv, AInv', CommitMigration
  PROVE  RInv'
<1>1. /\ step = "transaction" /\ done /\ step' = "migrate"
      /\ original' = original /\ erased' = erased /\ db.level \in 0 .. 8 /\ tx.level = db.level
  BY DEF CommitMigration, history, RInv, AInv, LevelsInv
<1>2. /\ db'.level = tx.level + 1 /\ db'.events = tx.events /\ db'.contracts = tx.contracts
      /\ db'.registrations = tx.registrations
  BY <1>1, SetLevel DEF CommitMigration, RInv, AInv, RowsInv
<1>3. Complete' = Complete
  BY <1>1 DEF Complete
<1>4. SameEvents(original, tx) => SameEvents(original', db')
  BY <1>1, <1>2 DEF SameEvents
<1>5. RegistrationsInv'
  BY <1>1, <1>2, <1>3, <1>4 DEF RInv, RegistrationsInv
<1> QED
  BY <1>5 DEF RInv

LEMMA RRestarts ==
  ASSUME RInv, AInv', Restarts
  PROVE  RInv'
<1>1. UNCHANGED <<db, original, erased>> /\ step' = "stopped"
  BY DEF Restarts, history
<1> QED
  BY <1>1, RElsewhere

LEMMA RRegister ==
  ASSUME RInv, AInv', RegisterBatch
  PROVE  RInv'
<1>1. Runs(9) /\ ~ NoMore(RegisterEventIds_All, RegisterSize)
  BY DEF RegisterBatch
<1>2. PICK T \in RegisterEventIds : \E R \in Readings(EventsOf(T)) :
        IF /\ InsertsAgents(R, EventsOf(T)) /\ InsertsRecords(R, EventsOf(T))
           /\ InsertsRegistrations(R, EventsOf(T))
        THEN NextPage /\ Writes([tx EXCEPT
               !.agents = @ \cup {Value(R, e, "agent_address") : e \in EventsOf(T)},
               !.records = @ \cup EventsOf(T),
               !.registrations = Registered(R, EventsOf(T))])
        ELSE Aborts
  BY DEF RegisterBatch, EventsOf
<1> DEFINE E == EventsOf(T)
<1>3. PICK R \in Readings(E) :
        IF InsertsAgents(R, E) /\ InsertsRecords(R, E) /\ InsertsRegistrations(R, E)
        THEN NextPage /\ Writes([tx EXCEPT
               !.agents = @ \cup {Value(R, e, "agent_address") : e \in E},
               !.records = @ \cup E,
               !.registrations = Registered(R, E)])
        ELSE Aborts
  BY <1>2
<1>4. CASE Aborts
  BY <1>4, RRestarts DEF Aborts
<1>5. CASE /\ InsertsRecords(R, E) /\ InsertsRegistrations(R, E) /\ NextPage
           /\ Writes([tx EXCEPT
                !.agents = @ \cup {Value(R, e, "agent_address") : e \in E},
                !.records = @ \cup E,
                !.registrations = Registered(R, E)])
  <2> DEFINE x == tx.agents \cup {Value(R, e, "agent_address") : e \in E}
             n == [tx EXCEPT !.agents = x, !.records = tx.records \cup E,
                             !.registrations = Registered(R, E)]
  <2>1. /\ tx' = n /\ db' = db /\ step' = step /\ original' = original /\ erased' = erased
        /\ done' = FALSE
    BY <1>5 DEF Writes, history, NextPage
  <2>2. Shape(tx) /\ step = "transaction" /\ tx.level = 8 /\ db.level = 8 /\ ~ done
    BY <1>1 DEF Runs, Number, RInv, AInv, RowsInv, LevelsInv
  <2> HIDE DEF x
  <2>3. /\ tx'.level = tx.level /\ tx'.events = tx.events /\ tx'.contracts = tx.contracts
        /\ tx'.records = tx.records \cup E /\ tx'.registrations = Registered(R, E)
    BY <2>1, <2>2, SetRegistrations
  <2> HIDE DEF n
  <2>4. ASSUME ~ erased, original.level < 9, Complete
        PROVE  Registering9'
    BY <1>1, <1>5, <2>1, <2>3, <2>4, RegisterStep
  <2>5. Complete' = Complete
    BY <2>1 DEF Complete
  <2>6. SameEvents(original, tx) => SameEvents(original', tx')
    BY <2>1, <2>3 DEF SameEvents
  <2>7. RegistrationsInv'
    BY <2>1, <2>2, <2>3, <2>4, <2>5, <2>6 DEF RInv, RegistrationsInv
  <2> QED
    BY <2>7 DEF RInv
<1> QED
  BY <1>3, <1>4, <1>5

LEMMA REnds ==
  ASSUME RInv, AInv', RegisterEnds
  PROVE  RInv'
<1>1. Runs(9) /\ NoMore(RegisterEventIds_All, RegisterSize)
  BY DEF RegisterEnds
<1>2. UNCHANGED <<db, step, tx, page, original, erased>> /\ done' = TRUE
  BY DEF RegisterEnds, Writes, Returns, history
<1>3. ASSUME ~ erased, original.level < 9, Complete
      PROVE  AreOf(original, EventsOf(Marks(original)), tx.registrations)
  <2>1. /\ RegisterEventIds_All = Marks(original) /\ IsFiniteSet(Marks(original))
        /\ Registering9
    BY <1>1, <1>3, RNinth
  <2>2. PICK S \in SUBSET Marks(original) :
          /\ AreOf(original, EventsOf(S), tx.registrations)
          /\ Counted(S, Marks(original), RegisterSize, page)
    BY <2>1 DEF Registering9
  <2>3. RegisterSize \in Nat \ {0} /\ page \in Nat
    BY ConstantsOK DEF RInv, AInv, LevelsInv
  <2>4. S = Marks(original)
    BY <1>1, <2>1, <2>2, <2>3, CountAll
  <2> QED
    BY <2>2, <2>4
<1>4. step = "transaction" /\ tx.level = 8 /\ db.level = 8
  BY <1>1 DEF Runs, Number, RInv, AInv, LevelsInv
<1>5. Complete' = Complete
  BY <1>2 DEF Complete
<1>6. RegistrationsInv'
  BY <1>2, <1>3, <1>4, <1>5 DEF RInv, RegistrationsInv
<1> QED
  BY <1>6 DEF RInv

LEMMA RDrop ==
  ASSUME RInv, AInv', DropAttributesColumn
  PROVE  RInv'
<1>1. /\ Runs(3) /\ UNCHANGED <<db, step, original, erased>>
      /\ tx' = [tx EXCEPT !.events = [e \in DOMAIN @ |-> [wasm |-> @[e].wasm, attrs |-> <<>>]]]
  BY DEF DropAttributesColumn, Writes, history
<1>2. Shape(tx) /\ step = "transaction" /\ tx.level # 8
  BY <1>1 DEF Runs, Number, RInv, AInv, RowsInv, LevelsInv
<1>3. /\ tx'.level = tx.level /\ tx'.registrations = tx.registrations
      /\ tx'.contracts = tx.contracts /\ DOMAIN tx'.events = DOMAIN tx.events
  BY <1>1, <1>2, SetEvents
<1>4. \A e \in DOMAIN tx.events : tx'.events[e].wasm = tx.events[e].wasm
  <2>1. tx'.events = [e \in DOMAIN tx.events |-> [wasm |-> tx.events[e].wasm, attrs |-> <<>>]]
    BY <1>1, <1>2, FieldNames DEF Shape
  <2> QED
    BY <2>1
<1>5. SameEvents(tx, tx')
  BY <1>3, <1>4 DEF SameEvents
<1> QED
  BY <1>1, <1>2, <1>3, <1>5, RElsewhere

LEMMA RNext ==
  ASSUME RInv, [Next]_vars
  PROVE  RInv'
<1>0. AInv' /\ Shape(tx) /\ SameEvents(tx, tx)
  BY ANext DEF RInv, AInv, RowsInv, SameEvents
<1>1. CASE CheckMigrations
  BY <1>0, <1>1, RElsewhere DEF CheckMigrations, migration, history
<1>2. CASE Reset
  BY <1>0, <1>2 DEF Reset, RInv, RegistrationsInv
<1>3. CASE BeginMigration
  BY <1>0, <1>3, RBegin
<1>4. CASE CommitMigration
  BY <1>0, <1>4, RCommit
<1>5. CASE RunNode
  BY <1>0, <1>5, RElsewhere DEF RunNode, migration, history
<1>6. CASE MigrationAddAuthzSupport
  <2>1. CASE tx.authz = {}
    BY <1>0, <1>6, <2>1, RElsewhere
       DEF MigrationAddAuthzSupport, Runs, Number, Returns, Writes, history, RInv, AInv, LevelsInv
  <2>2. CASE tx.authz # {}
    BY <1>0, <1>6, <2>2, RRestarts DEF MigrationAddAuthzSupport, Aborts
  <2> QED
    BY <2>1, <2>2
<1>7. ASSUME NEW k \in {2} \cup 4 .. 8, RunStatement(k)
      PROVE  RInv'
  <2>1. CASE StatementHolds(k)
    BY <1>0, <1>7, <2>1, RElsewhere
       DEF RunStatement, Runs, Number, Returns, Writes, history, RInv, AInv, LevelsInv
  <2>2. CASE ~ StatementHolds(k)
    BY <1>0, <1>7, <2>2, RRestarts DEF RunStatement, Aborts
  <2> QED
    BY <2>1, <2>2
<1>8. CASE ExpandBatch
  <2>1. PICK T \in SelectEventsBatch :
          IF InsertsEventAttributes(T)
          THEN NextPage /\ Writes([tx EXCEPT !.attributes = Expanded(T)])
          ELSE Aborts
    BY <1>8 DEF ExpandBatch
  <2>2. CASE Aborts
    BY <1>0, <2>2, RRestarts DEF Aborts
  <2>3. CASE Writes([tx EXCEPT !.attributes = Expanded(T)])
    <3>1. /\ UNCHANGED <<db, step, original, erased>>
          /\ tx' = [tx EXCEPT !.attributes = Expanded(T)]
      BY <2>3 DEF Writes, history
    <3>2. step = "transaction" /\ tx.level # 8
      BY <1>8 DEF ExpandBatch, Runs, Number, RInv, AInv, LevelsInv
    <3>3. /\ tx'.level = tx.level /\ tx'.registrations = tx.registrations
          /\ tx'.contracts = tx.contracts /\ tx'.events = tx.events
      BY <1>0, <3>1, SetAttributes
    <3>4. SameEvents(tx, tx')
      BY <3>3 DEF SameEvents
    <3> QED
      BY <1>0, <3>1, <3>2, <3>3, <3>4, RElsewhere
  <2> QED
    BY <2>1, <2>2, <2>3
<1>9. CASE DropAttributesColumn
  BY <1>0, <1>9, RDrop
<1>10. CASE RegisterBatch
  BY <1>0, <1>10, RRegister
<1>11. CASE RegisterEnds
  BY <1>0, <1>11, REnds
<1>12. CASE PostgresGoes
  <2>1. CASE step = "reset"
    BY <1>0, <1>12, <2>1, RElsewhere DEF PostgresGoes, migration, history
  <2>2. CASE step # "reset"
    BY <1>0, <1>12, <2>2, RRestarts DEF PostgresGoes
  <2> QED
    BY <2>1, <2>2
<1>13. CASE PostgresComes
  BY <1>0, <1>13, RStutter DEF PostgresComes, migration, history
<1>14. CASE CommandFails
  BY <1>0, <1>14, RRestarts DEF CommandFails
<1>15. CASE Crash
  BY <1>0, <1>15, RRestarts DEF Crash
<1>16. CASE UNCHANGED vars
  BY <1>0, <1>16, RStutter DEF vars, migration, history
<1> QED
  BY <1>1, <1>2, <1>3, <1>4, <1>5, <1>6, <1>7, <1>8, <1>9, <1>10, <1>11, <1>12, <1>13, <1>14,
     <1>15, <1>16 DEF Next, Start, Migrate

\* Once the ninth migration has committed, the registrations are those the
\* handler saves from the same events, whatever the size of a page, the order in
\* which each query sees the rows, and the moments of the failures.
THEOREM RegistrationsAreTheHandlers == Spec => []RegistrationsAgree
<1>1. RInv => RegistrationsAgree
  <2> SUFFICES ASSUME RInv, ~ erased, Complete, original.level < 9, db.level = 9
               PROVE  /\ DOMAIN db.registrations \subseteq
                           {e \in DOMAIN original.events : Registers(original, e)}
                      /\ \A e \in DOMAIN original.events :
                           Registers(original, e) /\ Distinct(original, e)
                             /\ "signature" \in Keys(original, e) =>
                             /\ HandlerSaves(original, e) /\ e \in DOMAIN db.registrations
                             /\ db.registrations[e] = HandlersRegistration(original, e)
    BY DEF RegistrationsAgree, LastMigration
  <2>1. AreOf(original, EventsOf(Marks(original)), db.registrations)
    BY DEF RInv, RegistrationsInv
  <2>2. \A a \in DOMAIN Known(original) : a[1] \in DOMAIN original.events
    BY RowsOK DEF RInv, AInv, LevelsInv
  <2>3. EventsOf(Marks(original)) = {e \in DOMAIN original.events : Registers(original, e)}
    BY <2>2 DEF EventsOf, Marks, Registers
  <2> QED
    BY <2>1, <2>3 DEF AreOf, AgreesOn
<1> QED
  BY <1>1, RInit, RNext, PTL DEF Spec
=============================================================================
