----------------------------- MODULE Migrations -----------------------------
(***************************************************************************)
(* The start of the node's container on a database that may hold rows: the *)
(* entry point asks postgres whether migrations were ever recorded, erases *)
(* the database if it reads that they were not, runs the committed         *)
(* migrations that are not recorded, each in a transaction of its own, and *)
(* starts the node.  Any step that fails ends the container, which is      *)
(* started again.                                                          *)
(*                                                                         *)
(* The rows are those the migrations read or write.  A query without ORDER *)
(* BY returns its rows in any order, another at every call: a page that    *)
(* LIMIT and OFFSET cut out is any set of rows of its size.                *)
(***************************************************************************)
EXTENDS Integers, FiniteSetsExt

CONSTANTS
  Databases,     \* what the container may find, see below
  ExpandSize,    \* rows of a page of migration 3 (2000)
  RegisterSize,  \* rows of a page of migration 9 (500)
  MaxOutages,    \* bound on how often postgres goes away
  MaxCrashes     \* bound on how often the container dies for no other reason

ASSUME ConstantsOK ==
  /\ ExpandSize \in Nat \ {0} /\ RegisterSize \in Nat \ {0}
  /\ MaxOutages \in Nat /\ MaxCrashes \in Nat

(***************************************************************************)
(* A database is a record of                                               *)
(*   recorded    whether graphile_migrate's table is there                 *)
(*   level       the number of migrations applied                          *)
(*   authz       the MsgExec messages                                      *)
(*   events      id -> [wasm, attrs], attrs: number -> [key, text]         *)
(*   contracts   id -> how many interfaces it has                          *)
(*   uses        migration -> the contracts that its table mentions        *)
(*   attributes  <<event, number>> -> [key, text]                          *)
(*   agents, records, registrations                                        *)
(***************************************************************************)
LastMigration == 9
Initial ==
  [recorded |-> FALSE, level |-> 0, authz |-> {}, events |-> <<>>, contracts |-> <<>>,
   uses |-> [k \in 4 .. 7 |-> {}], attributes |-> <<>>, agents |-> {}, records |-> {},
   registrations |-> <<>>]

\* 000003 creates the table of attributes, 000009 those of the almanac.
ASSUME DatabasesOK ==
  \A d \in Databases :
    /\ DOMAIN d = DOMAIN Initial /\ d.level \in 0 .. LastMigration
    /\ IsFiniteSet(DOMAIN d.events)
    /\ d.level < 3 => d.attributes = Initial.attributes
    /\ d.level < LastMigration => d.registrations = Initial.registrations

VARIABLES
  db,          \* the committed database
  postgres,    \* it answers
  step,        \* of the container
  tx,          \* the database as the transaction of a migration sees it
  page,        \* pages the migration has processed
  done,        \* the migration has returned
  original,    \* history: the database at first
  blind,       \* history: the entry point asked when postgres was away
  erased,      \* history: the database was dropped
  outages, crashes

migration == <<tx, page, done>>
history == <<original, erased>>
faults == <<postgres, outages, crashes>>
vars == <<db, step, migration, history, blind, faults>>

Undefined == "undefined"
Restarts == /\ step' = "stopped" /\ tx' = Initial /\ page' = 0 /\ done' = FALSE
            /\ UNCHANGED <<db, history, blind>>

-----------------------------------------------------------------------------
(* node-entrypoint.sh *)

\* Without an answer psql prints nothing, and grep and wc count no line.
HasMigrations_UpToDate == postgres /\ db.recorded /\ db.level = LastMigration
HasMigrations == postgres /\ db.recorded
CheckMigrations ==
  /\ step = "stopped"
  /\ blind' = ~ postgres
  /\ step' = IF HasMigrations THEN "migrate" ELSE "reset"
  /\ UNCHANGED <<db, migration, history, faults>>

\* graphile-migrate reset --erase: drop, create, load the initial schema.  When
\* the container dies on the way, the next start finds no migrations either.
Reset ==
  /\ step = "reset" /\ postgres
  /\ db' = Initial /\ erased' = TRUE /\ step' = "migrate"
  /\ UNCHANGED <<migration, original, blind, faults>>

BeginMigration ==
  /\ step = "migrate" /\ postgres /\ db.level < LastMigration
  /\ db' = [db EXCEPT !.recorded = TRUE]
  /\ tx' = db' /\ page' = 0 /\ done' = FALSE /\ step' = "transaction"
  /\ UNCHANGED <<history, blind, faults>>

CommitMigration ==
  /\ step = "transaction" /\ postgres /\ done
  /\ db' = [tx EXCEPT !.level = @ + 1] /\ step' = "migrate"
  /\ tx' = Initial /\ page' = 0 /\ done' = FALSE
  /\ UNCHANGED <<history, blind, faults>>

RunNode ==
  /\ step = "migrate" /\ postgres /\ db.level = LastMigration
  /\ step' = "running"
  /\ UNCHANGED <<db, migration, history, blind, faults>>

-----------------------------------------------------------------------------
(* The migrations. *)

Number == tx.level + 1
Runs(k) == step = "transaction" /\ postgres /\ ~ done /\ Number = k
Writes(new) == tx' = new /\ UNCHANGED <<db, step, history, blind, faults>>
Returns == done' = TRUE /\ page' = page
NextPage == page' = page + 1 /\ done' = FALSE
Aborts == Restarts /\ UNCHANGED faults

PageSize(rows, size) == Min({size, Cardinality(rows) - size * page})
Pages(rows, size) == kSubset(PageSize(rows, size), rows)
NoMore_WhenOneIsLeft(rows, size) == PageSize(rows, size) <= 1
NoMore_AfterAPage(rows, size) == Cardinality(rows) < size * page
NoMore(rows, size) == PageSize(rows, size) <= 0

\* 000001: the select names one column, a row of six values, and a result is the
\* sequence of its columns: the third, the message's json, is undefined, and
\* parsing it throws.
AuthzColumns == 1
MigrationAddAuthzSupport ==
  /\ Runs(1)
  /\ IF tx.authz = {} THEN Returns /\ Writes(tx) ELSE AuthzColumns < 3 /\ Aborts

\* 000002 rewrites the text of messages, 000004 to 000007 add the foreign key of
\* a table to the contracts, 000008 keeps the first interface, which must be one.
Interfaces(c) == tx.contracts[c]
StatementHolds(k) ==
  CASE k = 2 -> TRUE
    [] k \in 4 .. 7 -> tx.uses[k] \subseteq DOMAIN tx.contracts
    [] k = 8 -> \A c \in DOMAIN tx.contracts : Interfaces(c) > 0
RunStatement(k) ==
  /\ Runs(k)
  /\ IF StatementHolds(k) THEN Returns /\ Writes(tx) ELSE Aborts

\* 000003: the attributes of a page of events, written into one INSERT without
\* escaping; the primary key refuses those of an event that is already expanded,
\* the grammar an INSERT of nothing and a text that ends its own quotes.
Quote == "'"
AttributesOf(d, S) == UNION {{<<e, i>> : i \in DOMAIN d.events[e].attrs} : e \in S}
Attribute(d, a) == d.events[a[1]].attrs[a[2]]
Expanded(S) ==
  [a \in DOMAIN tx.attributes \cup AttributesOf(tx, S) |->
     IF a \in AttributesOf(tx, S) THEN Attribute(tx, a) ELSE tx.attributes[a]]
InsertsEventAttributes_AnyId(S) ==
  /\ AttributesOf(tx, S) # {}
  /\ \A a \in AttributesOf(tx, S) : Attribute(tx, a).text # Quote
InsertsEventAttributes(S) ==
  /\ AttributesOf(tx, S) # {}
  /\ \A a \in AttributesOf(tx, S) : Attribute(tx, a).text # Quote
  /\ AttributesOf(tx, S) \cap DOMAIN tx.attributes = {}

SelectEventsBatch == Pages(DOMAIN tx.events, ExpandSize)
ExpandBatch ==
  /\ Runs(3)
  /\ ~ NoMore(DOMAIN tx.events, ExpandSize)
  /\ \E S \in SelectEventsBatch :
       IF InsertsEventAttributes(S)
       THEN NextPage /\ Writes([tx EXCEPT !.attributes = Expanded(S)])
       ELSE Aborts
DropAttributesColumn ==
  /\ Runs(3) /\ NoMore(DOMAIN tx.events, ExpandSize)
  /\ Returns
  /\ Writes([tx EXCEPT !.events = [e \in DOMAIN @ |-> [wasm |-> @[e].wasm, attrs |-> <<>>]]])

\* 000009: one row for each attribute that says the event is a registration
RegisterEventIds_All == {a \in DOMAIN tx.attributes :
                           /\ tx.events[a[1]].wasm
                           /\ tx.attributes[a] = [key |-> "action", text |-> "register"]}
RegisterEventIds == Pages(RegisterEventIds_All, RegisterSize)

\* Of the attributes of an event with one key, that of the last row counts, and
\* the order of the rows is any.
RegisterEventData(E) == {a \in DOMAIN tx.attributes : a[1] \in E}
SameKey(a, b) == a[1] = b[1] /\ tx.attributes[a].key = tx.attributes[b].key
Twins(E) ==
  {a \in RegisterEventData(E) : \E b \in RegisterEventData(E) \ {a} : SameKey(a, b)}
Readings(E) ==
  {RegisterEventData(E) \ overwritten :
     overwritten \in {S \in SUBSET Twins(E) :
       \A a \in Twins(E) : Cardinality({b \in Twins(E) \ S : SameKey(a, b)}) = 1}}
Value(R, e, key) ==
  IF \E a \in R : a[1] = e /\ tx.attributes[a].key = key
  THEN tx.attributes[CHOOSE a \in R : a[1] = e /\ tx.attributes[a].key = key].text
  ELSE Undefined

Garbage == "garbage"      \* neither a number nor JSON
Agents(R, E) == {e \in E : Value(R, e, "agent_address") # Undefined}
InsertsAgents(R, E) ==
  /\ Agents(R, E) # {}
  /\ \A e \in Agents(R, E) :
       /\ Value(R, e, "agent_address") \notin tx.agents
       /\ \A f \in Agents(R, E) \ {e} :
            Value(R, e, "agent_address") # Value(R, f, "agent_address")
InsertsRecords(R, E) ==
  /\ E \cap tx.records = {}
  /\ \A e \in E : Value(R, e, "record") \notin {Garbage, Undefined}
\* A missing signature becomes the text "undefined", which the column accepts.
InsertsRegistrations(R, E) ==
  \A e \in E : /\ Value(R, e, "expiry_height") \notin {Garbage, Undefined}
               /\ Value(R, e, "sequence") \notin {Garbage, Undefined}
               /\ Value(R, e, "agent_address") # Undefined
               /\ Value(R, e, "_contract_address") \in DOMAIN tx.contracts
Registration(R, e) ==
  [agent |-> Value(R, e, "agent_address"), contract |-> Value(R, e, "_contract_address"),
   record |-> Value(R, e, "record"), signature |-> Value(R, e, "signature")]
Registered(R, E) ==
  [e \in DOMAIN tx.registrations \cup E |->
     IF e \in E THEN Registration(R, e) ELSE tx.registrations[e]]

RegisterBatch ==
  /\ Runs(9)
  /\ ~ NoMore(RegisterEventIds_All, RegisterSize)
  /\ \E S \in RegisterEventIds :
       LET E == {a[1] : a \in S}
       IN  \E R \in Readings(E) :
             IF InsertsAgents(R, E) /\ InsertsRecords(R, E) /\ InsertsRegistrations(R, E)
             THEN NextPage /\ Writes([tx EXCEPT
                    !.agents = @ \cup {Value(R, e, "agent_address") : e \in E},
                    !.records = @ \cup E,
                    !.registrations = Registered(R, E)])
             ELSE Aborts
RegisterEnds ==
  /\ Runs(9) /\ NoMore(RegisterEventIds_All, RegisterSize)
  /\ Returns /\ Writes(tx)

-----------------------------------------------------------------------------
(* Faults: what is not committed is gone. *)

PostgresGoes ==
  /\ postgres /\ outages < MaxOutages
  /\ postgres' = FALSE /\ outages' = outages + 1
  /\ IF step = "reset" THEN UNCHANGED <<db, step, migration, history, blind>> ELSE Restarts
  /\ UNCHANGED crashes
PostgresComes ==
  /\ ~ postgres /\ postgres' = TRUE
  /\ UNCHANGED <<db, step, migration, history, blind, outages, crashes>>

\* A command that does not reach postgres ends the container, and so does a
\* database that cannot be dropped because others use it.
CommandFails ==
  /\ ~ postgres /\ step \in {"reset", "migrate"}
  /\ Restarts /\ UNCHANGED faults
Crash ==
  /\ step # "stopped" /\ crashes < MaxCrashes
  /\ crashes' = crashes + 1
  /\ Restarts /\ UNCHANGED <<postgres, outages>>

-----------------------------------------------------------------------------
Init ==
  /\ db \in Databases /\ original = db
  /\ postgres = TRUE /\ step = "stopped"
  /\ tx = Initial /\ page = 0 /\ done = FALSE
  /\ blind = FALSE /\ erased = FALSE /\ outages = 0 /\ crashes = 0

Migrate ==
  \/ BeginMigration \/ CommitMigration
  \/ MigrationAddAuthzSupport \/ (\E k \in {2} \cup 4 .. 8 : RunStatement(k))
  \/ ExpandBatch \/ DropAttributesColumn \/ RegisterBatch \/ RegisterEnds
Start == CheckMigrations \/ Reset \/ Migrate \/ RunNode \/ CommandFails

Next == Start \/ PostgresGoes \/ PostgresComes \/ Crash
Spec == Init /\ [][Next]_vars

\* The container and postgres are restarted and go on, and faults are finitely
\* many.
FairSpec == Spec /\ WF_vars(Start) /\ WF_vars(PostgresComes)
-----------------------------------------------------------------------------
(* Properties. *)

\* The attributes that a database knows, under the ids of their rows
Known(d) ==
  IF d.level < 3
  THEN [a \in AttributesOf(d, DOMAIN d.events) |-> Attribute(d, a)]
  ELSE d.attributes

\* Attributes are finitely many and refer to events (a foreign key), and the
\* address of a contract is not the text that stands for a missing one.
ASSUME RowsOK ==
  \A d \in Databases :
    /\ IsFiniteSet(DOMAIN Known(d)) /\ (\A a \in DOMAIN Known(d) : a[1] \in DOMAIN d.events)
    /\ Undefined \notin DOMAIN d.contracts

\* Expanding the attributes loses none, adds none and changes none, whatever
\* order each page's query sees and wherever the container dies: as long as each
\* event has attributes, the primary key refuses to expand an event twice, and
\* with as many rows read as there are none is left out.
EachHasAttributes(d) == \A e \in DOMAIN d.events : DOMAIN d.events[e].attrs # {}
Complete == original.level < 3 => EachHasAttributes(original)
AttributesSurvive == ~ erased /\ Complete => Known(db) = Known(original)

\* What handleAlmanacRegistration saves for an event, whose attributes it reads in
\* the order of the event; an event with two attributes of one key and one that
\* has no signature are treated otherwise by the migration.
Keys(d, e) == {Known(d)[a].key : a \in {b \in DOMAIN Known(d) : b[1] = e}}
Field(d, e, key) ==
  Known(d)[CHOOSE a \in DOMAIN Known(d) : a[1] = e /\ Known(d)[a].key = key].text
Registers(d, e) ==
  /\ d.events[e].wasm
  /\ \E a \in DOMAIN Known(d) :
       a[1] = e /\ Known(d)[a] = [key |-> "action", text |-> "register"]
Distinct(d, e) ==
  \A a, b \in DOMAIN Known(d) :
    a[1] = e /\ b[1] = e /\ Known(d)[a].key = Known(d)[b].key => a = b
Needed == {"agent_address", "signature", "sequence", "expiry_height", "record"}
HandlerSaves(d, e) ==
  /\ Needed \subseteq Keys(d, e) /\ Field(d, e, "record") # Garbage
  /\ "_contract_address" \in Keys(d, e) /\ Field(d, e, "_contract_address") \in DOMAIN d.contracts
HandlersRegistration(d, e) ==
  [agent |-> Field(d, e, "agent_address"), contract |-> Field(d, e, "_contract_address"),
   record |-> Field(d, e, "record"), signature |-> Field(d, e, "signature")]

\* Once all migrations have run, the registrations are those the handler would
\* have saved from the same events: none is missing, none comes from another
\* event or carries another's fields.  Events without attributes may push one
\* that registers off every page of 000003.
RegistrationsAgree ==
  ~ erased /\ Complete /\ original.level < LastMigration /\ db.level = LastMigration =>
    /\ DOMAIN db.registrations \subseteq {e \in DOMAIN original.events : Registers(original, e)}
    /\ \A e \in DOMAIN original.events :
         Registers(original, e) /\ Distinct(original, e) /\ "signature" \in Keys(original, e) =>
           /\ HandlerSaves(original, e) /\ e \in DOMAIN db.registrations
           /\ db.registrations[e] = HandlersRegistration(original, e)

\* A start loses no row, however often postgres or the container dies, except
\* where the entry point had no answer to its question, or the database was
\* indexed before there were migrations: then it erases the database.
RowsSurviveStarts ==
  [][ DOMAIN db.events \ DOMAIN db'.events # {} \/ DOMAIN db.contracts \ DOMAIN db'.contracts # {}
      \/ DOMAIN db.registrations \ DOMAIN db'.registrations # {}
        => blind \/ ~ db.recorded ]_vars

\* The node runs in the end on a database without authorisations, whose tables
\* mention known contracts with an interface, whose events fit on one page and
\* have attributes without quotes, and whose registrations fit on one page, are
\* whole and each of another agent.
Registering == {e \in DOMAIN original.events : Registers(original, e)}
WholeRegistrations ==
  /\ Cardinality(Registering) <= RegisterSize
  /\ \A e \in Registering :
       /\ Distinct(original, e) /\ HandlerSaves(original, e)
       /\ {Field(original, e, "expiry_height"), Field(original, e, "sequence")} \cap {Garbage} = {}
       /\ \A f \in Registering \ {e} :
            Field(original, e, "agent_address") # Field(original, f, "agent_address")
Migratable ==
  /\ original.level < 1 => original.authz = {}
  /\ original.level < 3 =>
       /\ Cardinality(DOMAIN original.events) <= ExpandSize
       /\ Complete
       /\ \A a \in DOMAIN Known(original) : Known(original)[a].text # Quote
  /\ \A k \in 4 .. 7 : original.level < k => original.uses[k] \subseteq DOMAIN original.contracts
  /\ original.level < 8 => \A c \in DOMAIN original.contracts : original.contracts[c] > 0
  /\ original.level < LastMigration => WholeRegistrations
NodeRunsInTheEnd == Migratable => <>[](step = "running")
=============================================================================
