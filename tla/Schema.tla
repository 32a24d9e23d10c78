------------------------------- MODULE Schema -------------------------------
(***************************************************************************)
(* Schema descriptions (data/sql_util/schema): an ordered list of tables   *)
(* and the foreign keys between them, built call by call, turned into      *)
(* CREATE TABLE statements (db_and_table_operations.cpp) and read back     *)
(* from the catalog of a running database (database_metadata.cpp).         *)
(*                                                                         *)
(* A call of the builder is a record; a script is the sequence of table    *)
(* builders an application runs, each a sequence of calls.                 *)
(***************************************************************************)
EXTENDS Naturals, Sequences, SequencesExt, FiniteSets, Functions

CONSTANTS
  Scripts,      \* the builders run: sequences of sequences of calls
  FreeCalls,    \* calls an application may add after its script
  MaxFree,      \* bound on the number of added calls
  SmallDatabase \* the tables of a database read with every allowed list, in every order

VARIABLES
  script,       \* the builders that have not run yet
  free,         \* number of added calls
  info,         \* the DatabaseInfo being built
  db,           \* the tables of the database
  phase,        \* "describe", "created", "reading", "read"; "threw" after an exception
  allowed,      \* the allowed tables of the introspection
  todo,         \* its list of child tables not yet added
  back          \* the DatabaseInfo it builds

vars == <<script, free, info, db, phase, allowed, todo, back>>

----------------------------------------------------------------------------
(* Column types and their three spellings.                                 *)

DatabaseTypes == {"INT", "SERIAL", "BOOL", "DOUBLE", "STRING", "JSON", "BYTES", "DATE", "TIME",
                  "UUID", "TIMESTAMP", "TIMESTAMPTZ", "BIGINT", "BIGSERIAL", "CITEXT"}

\* The type of a CREATE TABLE column.
SqlTypeFromDatabaseType ==
  [t \in DatabaseTypes |-> CASE t = "DOUBLE" -> "FLOAT8" [] t = "STRING" -> "VARCHAR"
                             [] t = "BYTES" -> "BYTEA" [] OTHER -> t]

\* What the catalog query answers for a column declared with an SQL type: the
\* sequence behind a SERIAL is recognised, the rest goes through format_type.
FormatType(sql) ==
  CASE sql = "INT" -> "integer" [] sql = "BOOL" -> "boolean" [] sql = "FLOAT8" -> "double precision"
    [] sql = "VARCHAR" -> "character varying" [] sql = "TIME" -> "time without time zone"
    [] sql = "TIMESTAMP" -> "timestamp without time zone"
    [] sql = "TIMESTAMPTZ" -> "timestamp with time zone" [] OTHER -> sql

\* The type a catalog answer stands for.
DatabaseTypesFromDatabaseColumnInfo(dataType) ==
  CASE dataType = "integer" -> "INT" [] dataType = "boolean" -> "BOOL"
    [] dataType = "double precision" -> "DOUBLE" [] dataType = "character varying" -> "STRING"
    [] dataType = "time without time zone" -> "TIME" [] dataType = "BYTEA" -> "BYTES"
    [] dataType = "timestamp without time zone" -> "TIMESTAMP"
    [] dataType = "timestamp with time zone" -> "TIMESTAMPTZ" [] OTHER -> dataType

\* A column that refers to an auto-increment column holds a plain number.
Referencing(t) == CASE t = "SERIAL" -> "INT" [] t = "BIGSERIAL" -> "BIGINT" [] OTHER -> t

----------------------------------------------------------------------------
(* DatabaseInfo, TableInfo and ForeignKeyManager. A DatabaseInfo lists its  *)
(* tables in the order of AddTable; a call that throws leaves what it had   *)
(* done before.                                                             *)

ColumnInfo(c, t) == [name |-> c, type |-> t, pk |-> FALSE, unique |-> FALSE, nullable |-> FALSE,
                     dflt |-> FALSE]

EmptyInfo == [tables |-> <<>>, columns |-> <<>>, uniques |-> <<>>, refs |-> <<>>, threw |-> FALSE]

Names(cols) == {cols[k].name : k \in DOMAIN cols}
ColumnOf(cols, c) == cols[CHOOSE k \in DOMAIN cols : cols[k].name = c]
Throw(i) == [i EXCEPT !.threw = TRUE]

\* Mutant: a table may be added twice.
AddTableTwice(i, t) ==
  [i EXCEPT !.tables = Append(@, t), !.columns = (t :> <<>>) @@ @, !.uniques = (t :> {}) @@ @]

AddTable(i, t) ==
  IF Contains(i.tables, t) THEN Throw(i)
  ELSE [i EXCEPT !.tables = Append(@, t), !.columns = (t :> <<>>) @@ @, !.uniques = (t :> {}) @@ @]

AddColumn(i, t, col) ==
  IF ~Contains(i.tables, t) \/ col.name \in Names(i.columns[t]) THEN Throw(i)
  ELSE [i EXCEPT !.columns[t] = Append(@, col)]

\* One reference per child column: a second one is ignored, and refused only if
\* neither its table nor its column is the one on record.
AddForeignKeyReference(i, parent, child, nullable) ==
  LET old == {k \in DOMAIN i.refs : i.refs[k].child = child} IN
  IF old = {} THEN [i EXCEPT !.refs = Append(@, [parent |-> parent, child |-> child,
                                                 nullable |-> nullable])]
  ELSE LET was == i.refs[CHOOSE k \in old : TRUE].parent IN
       IF was[1] # parent[1] /\ was[2] # parent[2] THEN Throw(i) ELSE i

AddColumnForeignKeyRef(i, p, pc, t, c, nullable) ==
  IF ~Contains(i.tables, p) \/ ~Contains(i.tables, t) THEN Throw(i)
  ELSE IF pc \notin Names(i.columns[p]) THEN Throw(i)
  ELSE LET with == AddForeignKeyReference(i, <<p, pc>>, <<t, c>>, nullable)
           col  == ColumnInfo(c, Referencing(ColumnOf(i.columns[p], pc).type))
       IN IF with.threw THEN with ELSE AddColumn(with, t, [col EXCEPT !.nullable = nullable])

\* The references of a child table: GetForeignReferenceFields, HasForeignReference and
\* GetForeignReferenceOfField look them up in the list.
ForeignReferences(i, t) == {r \in Range(i.refs) : r.child[1] = t}

AddUniqueConstraint(i, t, cols) ==
  IF ~Contains(i.tables, t) \/ cols = {} THEN Throw(i)
  ELSE [i EXCEPT !.uniques[t] = @ \cup {cols}]

Call(i, c) ==
  IF i.threw THEN i
  ELSE CASE c.op = "table"  -> AddTable(i, c.table)
         [] c.op = "column" -> AddColumn(i, c.table, c.col)
         [] c.op = "ref"    -> AddColumnForeignKeyRef(i, c.parent, c.pcol, c.table, c.col, c.nullable)
         [] c.op = "unique" -> AddUniqueConstraint(i, c.table, c.cols)

Calls(i, cs) == FoldLeft(Call, i, cs)

----------------------------------------------------------------------------
(* The database: per table its columns in order, the primary key, the       *)
(* unique constraints and the foreign keys. NoDatabase is the outcome of a  *)
(* statement PostgreSQL refuses; the transaction rolls everything back.     *)

NoDatabase == [refused |-> TRUE]
EmptyDatabase == <<>>

ForeignKey(c, p, pc) == [col |-> c, parent |-> p, pcol |-> pc]

\* The table a generated CREATE TABLE statement describes.
GenerateCreateTableSql(i, t) ==
  LET cols == i.columns[t]
      plain == {k \in DOMAIN cols : ~cols[k].pk}
  IN [columns |-> [k \in DOMAIN cols |->
                     [name |-> cols[k].name, sql |-> SqlTypeFromDatabaseType[cols[k].type],
                      notnull |-> cols[k].pk \/ (~cols[k].unique /\ ~cols[k].nullable),
                      dflt |-> cols[k].dflt /\ ~cols[k].pk]],
      key     |-> {cols[k].name : k \in DOMAIN cols \ plain},
      uniques |-> i.uniques[t] \cup {{cols[k].name} : k \in {k \in plain : cols[k].unique}},
      fks     |-> {ForeignKey(r.child[2], r.parent[1], r.parent[2]) :
                     r \in {r \in ForeignReferences(i, t) :
                              \E k \in plain : cols[k].name = r.child[2]}}]

\* PostgreSQL: one primary key, foreign keys to a keyed column of a table that
\* exists, possibly the table itself.
Acceptable(d, t, new) ==
  LET keyed(tab, c) == tab.key = {c} \/ {c} \in tab.uniques IN
  /\ t \notin DOMAIN d
  /\ Cardinality(new.key) <= 1
  /\ \A u \in new.uniques : u \subseteq Names(new.columns)
  /\ \A f \in new.fks : \/ f.parent = t /\ keyed(new, f.pcol)
                        \/ f.parent \in DOMAIN d /\ keyed(d[f.parent], f.pcol)

CreateTable(d, i, t) ==
  LET new == GenerateCreateTableSql(i, t) IN
  IF d = NoDatabase THEN d
  ELSE IF Acceptable(d, t, new) THEN (t :> new) @@ d ELSE NoDatabase

\* DROP TABLE IF EXISTS ... CASCADE takes the foreign keys of other tables with it.
DropTable(d, t) ==
  IF d = NoDatabase THEN d
  ELSE [u \in DOMAIN d \ {t} |-> [d[u] EXCEPT !.fks = {f \in @ : f.parent # t}]]

\* Mutant: CREATE TABLE IF NOT EXISTS instead.
CreateTableIfNotExists(d, i, t) == IF t \in DOMAIN d THEN d ELSE CreateTable(d, i, t)

DropIfExistsAndCreateTable(d, i, t) == CreateTable(DropTable(d, t), i, t)

CreateTables(d, i, order) ==
  FoldLeft(LAMBDA acc, t : IF Contains(i.tables, t) THEN DropIfExistsAndCreateTable(acc, i, t)
                           ELSE NoDatabase, d, order)

----------------------------------------------------------------------------
(* The catalog.                                                            *)

ListTables(d) == DOMAIN d
ListParentTables(d, t) == {f.parent : f \in d[t].fks}
ListRootTables(d) == {t \in DOMAIN d : d[t].fks = {}}

\* The foreign keys between two tables; the reader takes the first row.
GetParentChildForeignKeyColumns(d, p, t) == {f \in d[t].fks : f.parent = p}

\* Mutant: is_nullable is compared with the other word.
IsForeignKeyNullableNo(d, t, c) == ColumnOf(d[t].columns, c).notnull

IsForeignKeyNullable(d, t, c) == ~ColumnOf(d[t].columns, c).notnull

\* One row a column: PostgreSQL merges a UNIQUE with the primary key it repeats.
ListColumns(d, t) ==
  [k \in DOMAIN d[t].columns |->
     LET c == d[t].columns[k] IN
     [name |-> c.name, dataType |-> FormatType(c.sql), pk |-> c.name \in d[t].key,
      unique |-> {c.name} \in d[t].uniques /\ c.name \notin d[t].key]]

\* The choices of one row for each parent (MakeForeignKeyTable).
MakeForeignKeyTables(d, t, parents) ==
  {Range(pick) : pick \in {g \in [parents -> d[t].fks] :
                             \A p \in parents : g[p] \in GetParentChildForeignKeyColumns(d, p, t)}}

AddTableToDatabaseInfo(d, i, t, fkTable) ==
  LET add(acc, row) ==
        LET refs == {f \in fkTable : f.col = row.name}
            col  == ColumnInfo(row.name, DatabaseTypesFromDatabaseColumnInfo(row.dataType))
        IN IF acc.threw THEN acc
           ELSE IF refs # {} THEN LET f == CHOOSE f \in refs : TRUE
                                  IN AddColumnForeignKeyRef(acc, f.parent, f.pcol, t, f.col,
                                                            IsForeignKeyNullable(d, t, f.col))
           ELSE IF row.pk THEN AddColumn(acc, t, [col EXCEPT !.pk = TRUE])
           ELSE IF row.unique THEN AddColumn(acc, t, [col EXCEPT !.unique = TRUE])
           ELSE AddColumn(acc, t, col)
      filled == FoldLeft(add, AddTable(i, t), ListColumns(d, t))
  IN FoldSet(LAMBDA u, acc : IF acc.threw THEN acc ELSE AddUniqueConstraint(acc, t, u),
             filled, {u \in d[t].uniques : Cardinality(u) > 1})

\* Mutant: only root tables count as added.
AreAllParentsRoots(i, t) == \A p \in ListParentTables(db, t) : p \in ListRootTables(db) \cap allowed

\* Mutant: one parent is enough.
IsAParentAdded(i, t) == \E p \in ListParentTables(db, t) : Contains(i.tables, p)

AreAllParentsAdded(i, t) == \A p \in ListParentTables(db, t) : Contains(i.tables, p)

\* The catalog lists tables in no particular order.
CatalogOrders(tables) ==
  IF Cardinality(tables) <= SmallDatabase THEN SetToSeqs(tables)
  ELSE {FoldSet(LAMBDA t, list : Append(list, t), <<>>, tables)}

\* The places of the list the next turn of the loop may take.
Ready == {k \in DOMAIN todo : AreAllParentsAdded(back, todo[k])}

----------------------------------------------------------------------------
Init == /\ script \in Scripts
        /\ free = 0 /\ info = EmptyInfo /\ db = EmptyDatabase /\ phase = "describe"
        /\ allowed = {} /\ todo = <<>> /\ back = EmptyInfo

\* The next table builder of the script.
MakeTable ==
  /\ phase = "describe" /\ script # <<>>
  /\ script' = Tail(script)
  /\ info' = Calls(info, Head(script))
  /\ phase' = IF info'.threw THEN "threw" ELSE phase
  /\ UNCHANGED <<free, db, allowed, todo, back>>

\* A call of the application, or of its next version on the same database.
MakeMore ==
  /\ phase \in {"describe", "created"} /\ script = <<>> /\ free < MaxFree
  /\ \E c \in FreeCalls : LET i == Call(info, c) IN
       info' = i /\ phase' = IF i.threw THEN "threw" ELSE "describe"
  /\ free' = free + 1
  /\ UNCHANGED <<script, db, allowed, todo, back>>

\* The tables are dropped and created in a list's order, over whatever an earlier
\* run left, in one transaction.
Create(order) ==
  /\ phase \in {"describe", "created"} /\ script = <<>>
  /\ LET new == CreateTables(db, info, order) IN
     IF new = NoDatabase THEN phase' = "threw" /\ db' = db ELSE phase' = "created" /\ db' = new
  /\ UNCHANGED <<script, free, info, allowed, todo, back>>

\* DatabaseInfoFromDatabase: the roots are added, the children are listed.
StartReading(tables) ==
  /\ phase = "created"
  /\ allowed' = tables
  /\ LET roots == ListRootTables(db) \cap tables IN
     /\ back' = FoldSet(LAMBDA t, acc : AddTableToDatabaseInfo(db, acc, t, {}), EmptyInfo, roots)
     /\ \E list \in CatalogOrders((ListTables(db) \cap tables) \ roots) : todo' = list
  /\ phase' = "reading"
  /\ UNCHANGED <<script, free, info, db>>

\* One turn of its loop: the first table of the list whose parents are all there
\* is added and leaves the list.
AddChild ==
  /\ phase = "reading" /\ Ready # {}
  /\ LET k == Min(Ready)
         t == todo[k]
     IN /\ \E fkTable \in MakeForeignKeyTables(db, t, ListParentTables(db, t)) :
             back' = AddTableToDatabaseInfo(db, back, t, fkTable)
        /\ todo' = RemoveAt(todo, k)
  /\ UNCHANGED <<script, free, info, db, phase, allowed>>

\* A turn that finds none leaves everything as it is, and there is always another.
Spin == /\ phase = "reading" /\ todo # <<>> /\ Ready = {}
        /\ UNCHANGED vars

Finish == /\ phase = "reading" /\ todo = <<>>
          /\ phase' = "read"
          /\ UNCHANGED <<script, free, info, db, allowed, todo, back>>

AllowedLists == IF Cardinality(DOMAIN db) <= SmallDatabase THEN SUBSET DOMAIN db ELSE {DOMAIN db}

ReadDatabase == \E tables \in AllowedLists : StartReading(tables)

\* A turn of the reader as seen in its list and its return.
Turn == /\ phase = "reading"
        /\ \/ Ready # {} /\ todo' = RemoveAt(todo, Min(Ready)) /\ phase' = phase
           \/ todo = <<>> /\ phase' = "read" /\ todo' = todo

----------------------------------------------------------------------------
(* Properties.                                                             *)

TypeOK ==
  /\ phase \in {"describe", "created", "reading", "read", "threw"}
  /\ \A i \in {info, back} :
       /\ DOMAIN i.columns = Range(i.tables) /\ IsInjective(i.tables)
       /\ \A t \in Range(i.tables) : \A k \in DOMAIN i.columns[t] :
            i.columns[t][k].type \in DatabaseTypes
  /\ Range(todo) \subseteq DOMAIN db

\* The reference the reading loop is held to: every ancestor of an allowed table
\* is allowed, and none is its own ancestor.
Ancestors(d, t) ==
  FoldSet(LAMBDA u, near : near \cup UNION {ListParentTables(d, v) : v \in near},
          ListParentTables(d, t), DOMAIN d)

Readable(d, tables) ==
  \A t \in tables \cap DOMAIN d : Ancestors(d, t) \subseteq tables \ {t}

\* The foreign keys of the description that a creation in the order of its tables
\* leaves in the database: over tables of an earlier run, a reference to a table
\* further down is accepted, and taken away again when that table is dropped.
Lasting(i, t) ==
  {ForeignKey(r.child[2], r.parent[1], r.parent[2]) :
     r \in {r \in ForeignReferences(i, t) :
              Contains(SubSeq(i.tables, 1, CHOOSE k \in DOMAIN i.tables : i.tables[k] = t),
                       r.parent[1])}}

\* After a complete creation, also over tables of an earlier run or an earlier
\* version, exactly the described tables exist and every reference to the same or an
\* earlier table is a foreign key (db_and_table_operations.cpp:124).
ForeignKeysInstalled ==
  phase = "created" => /\ DOMAIN db = Range(info.tables)
                       /\ \A t \in DOMAIN db : db[t].fks = Lasting(info, t)

\* The reading loop finds no table exactly when the allowed tables refer to one
\* that is not allowed, or in a circle, such as a table to itself: it then never
\* ends (database_metadata.cpp:561).
StuckOnlyIfUnreadable ==
  phase = "reading" /\ todo # <<>> => (Ready = {} => ~Readable(db, allowed))

\* A description read back lists the allowed tables once, parents first, so that
\* it can be created again, and the tables so created have the columns, the types
\* and the key of the ones read.
Recreatable ==
  phase = "read" =>
    LET again == CreateTables(EmptyDatabase, back, back.tables)
        typed(d, t) == [k \in DOMAIN d[t].columns |-> <<d[t].columns[k].name, d[t].columns[k].sql>>]
    IN /\ again # NoDatabase
       /\ DOMAIN again = allowed \cap DOMAIN db
       /\ \A t \in DOMAIN again : typed(again, t) = typed(db, t) /\ again[t].key = db[t].key

\* What reading back loses of the foreign keys: between two tables one of them
\* survives, with the nullability it has, and none is made up.
ForeignKeysReadBack ==
  phase = "read" =>
    LET again == CreateTables(EmptyDatabase, back, back.tables) IN
    \A t \in DOMAIN again :
      /\ again[t].fks \subseteq db[t].fks
      /\ \A p \in ListParentTables(db, t) : Cardinality({f \in again[t].fks : f.parent = p}) = 1
      /\ \A f \in again[t].fks : IsForeignKeyNullable(again, t, f.col) = IsForeignKeyNullable(db, t, f.col)

\* Reading a database whose allowed tables are closed and free of circles ends
\* (database_metadata.cpp:561).
ReadingEnds == (phase = "reading" /\ Readable(db, allowed)) ~> (phase = "read")

\* GetDatabaseInfo returns the tables of the catalog, except for what it is
\* known to lose, or does not end.
ReadsWhatIsThere ==
  /\ StuckOnlyIfUnreadable
  /\ Recreatable
  /\ ForeignKeysReadBack
=============================================================================
