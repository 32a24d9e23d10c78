------------------------------- MODULE Tables -------------------------------
(* The rows of a PostgreSQL database and the statements DbCrud and           *)
(* DatabaseRESTHelper run on them.  Every value is a string, as in the       *)
(* program's KeyValueTable: a key is one of Ids, NULL stands for SQL NULL.   *)
(* Every statement is an operator from a database to the database it leaves, *)
(* or to Refused when C++ throws or PostgreSQL rejects it: the transaction   *)
(* it is part of then changes nothing.                                       *)
EXTENDS Integers, Sequences, FiniteSets, FiniteSetsExt, SequencesExt, Functions

CONSTANTS
  DatabaseInfo,   \* table -> [columns: the ColumnInfos, unique: sets of columns]
  Ids,            \* the values of a serial column, in order
  Collation,      \* every value, in sorting order
  IntBits         \* the width of a C++ int (32 in the build)

NULL == "NULL"
NoParent == ""   \* of a column that refers to no table
Refused == [refused |-> TRUE]
OK(s) == s # Refused

TableNames == DOMAIN DatabaseInfo
Columns(t) == Range(DatabaseInfo[t].columns)
ColumnNames(t) == { c.name : c \in Columns(t) }
Column(t, n) == CHOOSE c \in Columns(t) : c.name = n
PrimaryKey(t) == (CHOOSE c \in Columns(t) : c.key).name
-----------------------------------------------------------------------------
\* What PostgreSQL guards: types, NOT NULL (a UNIQUE column is created without
\* it), uniqueness and foreign keys.
Castable(t, n, v) == Column(t, n).type = "STRING" \/ v \in Range(Ids)

NotNull(t, c) == c.key \/ ~(c.nullable \/ c.unique)

Keys(t) == {{PrimaryKey(t)}} \cup {{c.name} : c \in {d \in Columns(t) : d.unique}} \cup DatabaseInfo[t].unique

RowsAccepted(d, t) ==
  /\ \A r \in d[t], c \in Columns(t) :
        /\ r[c.name] = NULL => ~NotNull(t, c)
        /\ c.parent # NoParent /\ r[c.name] # NULL =>
             \E p \in d[c.parent] : p[PrimaryKey(c.parent)] = r[c.name]
  /\ \A r, s \in d[t], k \in Keys(t) :
        (\A n \in k : r[n] = s[n] /\ r[n] # NULL) => r = s

\* The rows that a changed row of table t is checked against.
Touched(t) == {t} \cup { u \in TableNames : \E c \in Columns(u) : c.parent = t }
Commit(d, t) == IF \A u \in Touched(t) : RowsAccepted(d, u) THEN d ELSE Refused

\* The rows that refer to a row of the last level.
Children(d, last) ==
  { x \in UNION { {u} \X d[u] : u \in TableNames } :
      \E g \in last : \E c \in Columns(x[1]) : c.parent = g[1] /\ x[2][c.name] = g[2][PrimaryKey(g[1])] }

NextLevel(d, s) ==
  LET new == IF s.last = {} THEN {} ELSE Children(d, s.last) \ s.gone
  IN  [gone |-> s.gone \cup new, last |-> new]

\* ON DELETE CASCADE, level by level.
Cascade(d, t, rows) ==
  LET Level[n \in 0 .. Cardinality(TableNames)] ==
        IF n = 0 THEN [gone |-> {t} \X rows, last |-> {t} \X rows] ELSE NextLevel(d, Level[n - 1])
  IN  Level[Cardinality(TableNames)].gone
-----------------------------------------------------------------------------
\* DbCrud.
CheckKeysInTable(t, kv) == DOMAIN kv \subseteq ColumnNames(t)

\* WHERE column = value, and WHERE with a value for each of several columns.
Where(column, value) == [n \in {column} |-> value]
Matching(d, t, kv) == { r \in d[t] : \A n \in DOMAIN kv : r[n] = kv[n] }

InsertedRow(t, kv, id) ==
  [n \in ColumnNames(t) |-> CASE n \in DOMAIN kv -> kv[n]
                              [] n \notin DOMAIN kv /\ Column(t, n).type = "BIGSERIAL" -> id
                              [] OTHER -> NULL]

DrawsId(t, kv) ==
  CheckKeysInTable(t, kv) /\ \E c \in Columns(t) : c.type = "BIGSERIAL" /\ c.name \notin DOMAIN kv

\* AddRowToTable, and the three variants that return the new key.
AddRowToTable(d, t, kv, id) ==
  IF CheckKeysInTable(t, kv) /\ \A n \in DOMAIN kv : Castable(t, n, kv[n])
       /\ ~ \E r \in d[t] : r[PrimaryKey(t)] = InsertedRow(t, kv, id)[PrimaryKey(t)]
  THEN Commit([d EXCEPT ![t] = @ \cup {InsertedRow(t, kv, id)}], t)
  ELSE Refused

\* GenerateUpdateRowSql: one value for every row the WHERE selects.
UpdateRow(d, t, column, value, kv) ==
  LET old == Matching(d, t, Where(column, value))
      new == { [n \in DOMAIN r |-> IF n \in DOMAIN kv THEN kv[n] ELSE r[n]] : r \in old }
  IN  IF /\ CheckKeysInTable(t, kv) /\ column \in ColumnNames(t)
         /\ Castable(t, column, value) /\ \A n \in DOMAIN kv : Castable(t, n, kv[n])
         /\ Cardinality(new) = Cardinality(old) /\ Cardinality((d[t] \ old) \cup new) = Cardinality(d[t])
      THEN Commit([d EXCEPT ![t] = (@ \ old) \cup new], t)
      ELSE Refused

\* DeleteRow by one column or by several.
DeleteRow(d, t, kv) ==
  IF DOMAIN kv # {} /\ CheckKeysInTable(t, kv) /\ \A n \in DOMAIN kv : Castable(t, n, kv[n])
  THEN LET gone == Cascade(d, t, Matching(d, t, kv))
       IN  [u \in TableNames |-> { r \in d[u] : <<u, r>> \notin gone }]
  ELSE Refused

\* SQL NULL comes back as the empty string.
Text(v) == IF v = NULL THEN "" ELSE v
Fetched(r) == [n \in DOMAIN r |-> Text(r[n])]

\* RunSqlStatementReturningOneRowHelper takes the first row of an unordered
\* result: any of them.  No row is the empty table.
OneRow(rows) == IF rows = {} THEN {<<>>} ELSE { Fetched(r) : r \in rows }

LookupRowByValues(d, t, kv) ==
  IF \A n \in DOMAIN kv : n \in ColumnNames(t) /\ Castable(t, n, kv[n])
  THEN OneRow(Matching(d, t, kv)) ELSE {}

LookupRowByValue(d, t, column, value) == LookupRowByValues(d, t, Where(column, value))

GetTableRows(d, t) == { Fetched(r) : r \in d[t] }
LookupRowsByPrimaryKeyValues(d, t, values) == { Fetched(r) : r \in { x \in d[t] : x[PrimaryKey(t)] \in values } }
GetRowsByValuesWithOrderBy(d, t, kv) == { Fetched(r) : r \in Matching(d, t, kv) }
-----------------------------------------------------------------------------
\* Paging.  ORDER BY leaves the order of equal values open; NULLs sort last.
Rank(v) == IF v = NULL THEN Len(Collation) + 1 ELSE CHOOSE i \in DOMAIN Collation : Collation[i] = v

Orders(rows, column, asc) ==
  { s \in SetToSeqs(rows) : \A i \in 1 .. Len(s) - 1 :
      IF asc THEN Rank(s[i][column]) <= Rank(s[i + 1][column])
             ELSE Rank(s[i][column]) >= Rank(s[i + 1][column]) }

\* page * pageSize in a C++ int.
Offset(page, size) == LET w == 2 ^ IntBits IN ((page * size + w \div 2) % w) - w \div 2

\* Mutant: the limit is the index of the last row.
PageInclusive(s, limit, offset) == SubSeq(s, offset + 1, Min({Len(s), offset + limit + 1}))

Page(s, limit, offset) == SubSeq(s, offset + 1, Min({Len(s), offset + limit}))

NullIf0(size, rows) == IF size = 0 THEN Cardinality(rows) ELSE size

\* Every answer the query may give: the page and the total it reports.
Pages(rows, column, asc, limit, offset, total) ==
  IF offset < 0 \/ limit < 0 THEN {}
  ELSE { [rows |-> Page(s, limit, offset), total |-> total[Page(s, limit, offset) = <<>>]]
         : s \in Orders(rows, column, asc) }

\* COUNT(*) OVER() is read from the first row: a page past the end reports 0.
ExtractTotalCount(rows) == [e \in BOOLEAN |-> IF e THEN 0 ELSE Cardinality(rows)]

\* LIMIT pageSize, and a separate COUNT(*) of the table.
GetRowsByColumnWithCount(d, t, column, asc, size, page) ==
  Pages(d[t], column, asc, size, Offset(page, size), [e \in BOOLEAN |-> Cardinality(d[t])])

\* LIMIT NULLIF(pageSize, 0) is no limit.
GetRowsByValues(d, t, column, kv, asc, size, page) ==
  LET rows == Matching(d, t, kv)
  IN  Pages(rows, column, asc, NullIf0(size, rows), Offset(page, size), ExtractTotalCount(rows))

\* ILIKE '%text%' on single words: a value contains a text when it is the text.
SearchRowsByILike(d, t, key, columns, text, size) ==
  LET rows == { r \in d[t] : columns = {} \/ \E n \in columns : r[n] = text }
  IN  IF columns \subseteq ColumnNames(t)
      THEN Pages(rows, key, TRUE, NullIf0(size, rows), 0, ExtractTotalCount(rows))
      ELSE {}
-----------------------------------------------------------------------------
\* Display templates: a sequence of pieces, a "{column}" or a word.  A column
\* that the row does not have is left as it stands in the template.
ParseTemplateColumns(template) == { p.text : p \in { q \in Range(template) : q.column } }

FormatString(template, row) ==
  [i \in DOMAIN template |->
     IF template[i].column /\ template[i].text \in DOMAIN row THEN row[template[i].text] ELSE template[i].text]

ResolveDisplayValues(rows, key, template) ==
  [v \in { r[key] : r \in rows } |->
     LET r == CHOOSE x \in rows : x[key] = v
     IN  IF template = <<>> THEN <<v>> ELSE FormatString(template, r)]
=============================================================================
