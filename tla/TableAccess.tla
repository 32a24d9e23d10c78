----------------------------- MODULE TableAccess -----------------------------
(* The generic table endpoints and what decides who may call them: the roles *)
(* and permissions, which are rows of tables that the same endpoints edit.   *)
(* A request is a transaction of two steps, the check and the write: another *)
(* request may commit in between.  Photos are rows of table_item_photos,     *)
(* which names its item by table and id without a foreign key.               *)
EXTENDS Tables

CONSTANTS
  Users,          \* the people.id of a session, or NoUser
  FirstRows,      \* what the application adds to PopulateFrameworkTables
  Requests,       \* [op, table, column, value, json]
  HelperCalls,    \* calls of the table helpers by other server code
  MaxOpen,        \* bound on the requests between their check and their write
  MaxWrites       \* bound on the statements that may change rows

ASSUME BoundsAssumption == MaxOpen \in Nat /\ MaxWrites \in Nat

\* A request names a table that the program knows (DatabaseInfo::GetTableInfo).
ASSUME RequestsAssumption ==
  /\ \A q \in Requests : /\ q.op \in {"add", "add_key", "update", "delete", "upload", "remove"}
                         /\ q.table \in TableNames
  /\ \A c \in HelperCalls : c.op \in {"add", "delete", "set"} /\ c.table \in TableNames

VARIABLES
  db,             \* table -> rows
  next,           \* table -> index in Ids of the next serial value
  photos,         \* table_item_photos: pairs of a table and an id
  redactions,     \* WebApp.columnRedactions_, loaded once at startup
  request,        \* user -> the request that passed its check, or NoRequest
  writes          \* how many statements changed rows

accessVars == << db, next, photos, redactions, request, writes >>

NoUser == ""
NoRequest == [op |-> "none"]
Authority == {"people", "roles", "permissions", "role_assignments", "role_permissions",
              "admin_table_permissions", "allowed_tables", "admin_top_level_tables",
              "admin_nested_tables"}

\* The framework's tables: those of Authority refer to one another only, a
\* permission to nothing and an implication, always, to a permission.
ASSUME TablesAssumption ==
  /\ IsFiniteSet(TableNames) /\ NoParent \notin TableNames
  /\ \A t \in TableNames : DatabaseInfo[t].columns \in Seq(Columns(t))
  /\ Authority \cup {"permission_implications"} \subseteq TableNames
  /\ \A t \in Authority : \A c \in Columns(t) : c.parent \in Authority \cup {NoParent}
  /\ \A c \in Columns("permissions") : c.parent = NoParent
  /\ PrimaryKey("permissions") = "id"
  /\ \E c \in Columns("permission_implications") :
       /\ c.name = "implies_permission_id" /\ c.parent = "permissions"
       /\ NotNull("permission_implications", c)
-----------------------------------------------------------------------------
\* The table helpers: each is one DbCrud call.
Call(op, t, kv) == [op |-> op, table |-> t, kv |-> kv]
AddRole(name) == Call("add", "roles", "name" :> name)
DeleteRole(id) == Call("delete", "roles", "id" :> id)
AddPermission(name) == Call("add", "permissions", "name" :> name)
DeletePermission(id) == Call("delete", "permissions", "id" :> id)
AddRolePermission(role, perm) == Call("add", "role_permissions", "role_id" :> role @@ "permission_id" :> perm)
DeleteRolePermission(id) == Call("delete", "role_permissions", "id" :> id)
AddRoleAssignment(person, role) == Call("add", "role_assignments", "person_id" :> person @@ "role_id" :> role)
DeleteRoleAssignment(id) == Call("delete", "role_assignments", "id" :> id)
AddImplication(perm, implied) ==
  Call("add", "permission_implications", "permission_id" :> perm @@ "implies_permission_id" :> implied)
DeleteImplication(id) == Call("delete", "permission_implications", "id" :> id)
AddAdminTablePermission(t, perm) ==
  Call("add", "admin_table_permissions", "table_name" :> t @@ "permission_id" :> perm)
DeleteAdminTablePermission(id) == Call("delete", "admin_table_permissions", "id" :> id)
AddAllowedTable(t) == Call("add", "allowed_tables", "name" :> t)
DeleteAllowedTable(t) == Call("delete", "allowed_tables", "name" :> t)
AddAdminTopLevelTable(t) == Call("add", "admin_top_level_tables", "name" :> t)
DeleteAdminTopLevelTable(t) == Call("delete", "admin_top_level_tables", "name" :> t)
AddAdminNestedTable(t) == Call("add", "admin_nested_tables", "name" :> t)
DeleteAdminNestedTable(t) == Call("delete", "admin_nested_tables", "name" :> t)
SetDisplayTemplate(t, template) == Call("add", "admin_table_display_template", "name" :> t @@ "template" :> template)
DeleteDisplayTemplate(t) == Call("delete", "admin_table_display_template", "name" :> t)
AddPhotoSupportTable(t) == Call("add", "photo_support_tables", "table_name" :> t)
DeletePhotoSupportTable(t) == Call("delete", "photo_support_tables", "table_name" :> t)
AddAdminColumnRedaction(t, c) == Call("add", "admin_column_redactions", "table_name" :> t @@ "column_name" :> c)
DeleteAdminColumnRedaction(t, c) ==
  Call("delete", "admin_column_redactions", "table_name" :> t @@ "column_name" :> c)
AddAdminColumnDataInfo(t, c, type) ==
  Call("add", "admin_column_data_info", "table_name" :> t @@ "column_name" :> c @@ "html_input_type" :> type)
DeleteAdminColumnDataInfo(t, c) ==
  Call("delete", "admin_column_data_info", "table_name" :> t @@ "column_name" :> c)
AddAdminEnum(name) == Call("add", "admin_enums", "name" :> name)
DeleteAdminEnum(id) == Call("delete", "admin_enums", "id" :> id)
AddAdminEnumValue(enum, name) == Call("add", "admin_enum_values", "admin_enum_id" :> enum @@ "name" :> name)
DeleteAdminEnumValue(id) == Call("delete", "admin_enum_values", "id" :> id)
AddAdminColumnEnum(enum, info) ==
  Call("add", "admin_column_enums", "admin_enum_id" :> enum @@ "admin_column_data_info_id" :> info)
DeleteAdminColumnEnum(id) == Call("delete", "admin_column_enums", "id" :> id)

\* SetName and its like first make sure the row exists.
SetName(t, id, name) == [op |-> "set", table |-> t, id |-> id, kv |-> "name" :> name]
-----------------------------------------------------------------------------
\* PopulateFrameworkTables, then the application's own rows.
PopulateRolesAndPermissions ==
  << AddRole("admin"), AddRole("user"), AddPermission("admin_portal"), AddPermission("staff_access"),
     AddRolePermission("1", "1"), AddRolePermission("1", "2") >>

PopulateTableLists ==
  << AddAllowedTable("permission_implications"), AddPhotoSupportTable("people"),
     AddAdminColumnRedaction("people", "password_hash"),
     AddAdminTopLevelTable("permission_implications"), AddAdminTopLevelTable("people"),
     AddAdminTopLevelTable("permissions"), AddAdminTopLevelTable("roles"),
     AddAdminTopLevelTable("role_assignments"), AddAdminTopLevelTable("role_permissions"),
     AddAdminNestedTable("role_assignments"), AddAdminNestedTable("role_permissions") >>

PopulateColumnDataInfo ==
  << AddAdminColumnDataInfo("permission_implications", "permission_id", "number"),
     AddAdminColumnDataInfo("permission_implications", "implies_permission_id", "number"),
     AddAdminColumnDataInfo("people", "email", "text"),
     AddAdminColumnDataInfo("people", "password_hash", "text"),
     AddAdminColumnDataInfo("permissions", "name", "text"),
     AddAdminColumnDataInfo("roles", "name", "text"),
     AddAdminColumnDataInfo("role_permissions", "role_id", "number"),
     AddAdminColumnDataInfo("role_permissions", "permission_id", "number"),
     AddAdminColumnDataInfo("role_assignments", "person_id", "number"),
     AddAdminColumnDataInfo("role_assignments", "role_id", "number") >>

PopulateDisplayTemplates ==
  << SetDisplayTemplate("people", "{email}"), SetDisplayTemplate("roles", "{name}"),
     SetDisplayTemplate("permission_implications", "{permission_id} -> {implies_permission_id}"),
     SetDisplayTemplate("role_permissions", "{role_id} - {permission_id}"),
     SetDisplayTemplate("permissions", "{name}"),
     SetDisplayTemplate("role_assignments", "{person_id} - {role_id}") >>

\* The pieces of a template's text.
Col(n) == [column |-> TRUE, text |-> n]
Word(w) == [column |-> FALSE, text |-> w]
Pieces(template) ==
  CASE template = "{email}" -> << Col("email") >>
    [] template = "{name}" -> << Col("name") >>
    [] template = "{permission_id} -> {implies_permission_id}" ->
         << Col("permission_id"), Word("->"), Col("implies_permission_id") >>
    [] template = "{role_id} - {permission_id}" -> << Col("role_id"), Word("-"), Col("permission_id") >>
    [] template = "{person_id} - {role_id}" -> << Col("person_id"), Word("-"), Col("role_id") >>
    [] template = "{title} {note}" -> << Col("title"), Word(" "), Col("note") >>
    [] template = "{missing}" -> << Col("missing") >>
    [] OTHER -> <<>>

\* One helper call on rows d, with the id its INSERT would draw.
Perform(d, c, id) ==
  CASE c.op = "add" -> AddRowToTable(d, c.table, c.kv, id)
    [] c.op = "delete" -> DeleteRow(d, c.table, c.kv)
    [] c.op = "set" -> IF Matching(d, c.table, "id" :> c.id) = {} THEN Refused
                       ELSE UpdateRow(d, c.table, "id", c.id, c.kv)

Draws(c) == c.op = "add" /\ DrawsId(c.table, c.kv)

Populate(from, calls) ==
  LET Step(s, c) == [rows |-> Perform(s.rows, c, Ids[s.next[c.table]]),
                     next |-> IF Draws(c) THEN [s.next EXCEPT ![c.table] = @ + 1] ELSE s.next]
  IN  FoldLeft(Step, from, calls)

EmptyTables == [rows |-> [t \in TableNames |-> {}], next |-> [t \in TableNames |-> 1]]
WithRoles == Populate(EmptyTables, PopulateRolesAndPermissions)
WithLists == Populate(WithRoles, PopulateTableLists)
WithInfo == Populate(WithLists, PopulateColumnDataInfo)
WithTemplates == Populate(WithInfo, PopulateDisplayTemplates)
Populated == Populate(WithTemplates, FirstRows)

\* A server whose database could not be populated does not start.
ASSUME PopulationAssumption ==
  /\ Populated.rows = [t \in TableNames |-> Populated.rows[t]]
  /\ \A t \in TableNames : /\ IsFiniteSet(Populated.rows[t]) /\ RowsAccepted(Populated.rows, t)
                           /\ \A r \in Populated.rows[t] : r = [n \in ColumnNames(t) |-> r[n]]

\* Mutant: the pair the other way round.
LoadColumnRedactionSetSwapped(d) == { <<r["column_name"], r["table_name"]>> : r \in d["admin_column_redactions"] }

LoadColumnRedactionSet(d) == { <<r["table_name"], r["column_name"]>> : r \in d["admin_column_redactions"] }
-----------------------------------------------------------------------------
\* Roles and permissions.  roles.name and permissions.name are not unique, and
\* a lookup by name takes whichever row the database returns first.
GetRole(d, name) == { r \in d["roles"] : r["name"] = name }
GetPermission(d, name) == { r \in d["permissions"] : r["name"] = name }
RolesOf(d, u) == { a["role_id"] : a \in Matching(d, "role_assignments", "person_id" :> u) }
PermissionsOf(d, u) ==
  { g["permission_id"] : g \in { x \in d["role_permissions"] : x["role_id"] \in RolesOf(d, u) } }

\* Mutant: the first role assigned to the user decides.
ActiveUserHasRoleFirst(d, u, name) ==
  IF RolesOf(d, u) = {} THEN {"no"}
  ELSE { IF r["name"] = name THEN "yes" ELSE "no" : r \in { x \in d["roles"] : x["id"] \in RolesOf(d, u) } }

\* ActiveUserHasRole: "throws" when no role has the name.
ActiveUserHasRole(d, u, name) ==
  IF GetRole(d, name) = {} THEN {"throws"}
  ELSE { IF r["id"] \in RolesOf(d, u) THEN "yes" ELSE "no" : r \in GetRole(d, name) }
IsAdmin(d, u) == ActiveUserHasRole(d, u, "admin")

ActiveUserHasPermission(d, u, name) ==
  IF GetPermission(d, name) = {} THEN {"throws"}
  ELSE { IF r["id"] \in PermissionsOf(d, u) THEN "yes" ELSE "no" : r \in GetPermission(d, name) }

\* RequirePermission fails closed.
RequirePermission(d, u, name) == u # NoUser /\ "yes" \in ActiveUserHasPermission(d, u, name)

\* Mutant: one round only.
ExpandClosureOnce(d, seeds) ==
  seeds \cup { r["implies_permission_id"] : r \in { x \in d["permission_implications"] : x["permission_id"] \in seeds } }

\* A round joins only the rows the last one added.
NextRound(d, s) ==
  LET new == { r["implies_permission_id"] : r \in
                 { x \in d["permission_implications"] : x["permission_id"] \in s.working } } \ s.closure
  IN  [closure |-> s.closure \cup new, working |-> new]

\* ExpandClosure: WITH RECURSIVE ... UNION stops when a round adds none.
ExpandClosure(d, seeds) ==
  LET Round[n \in 0 .. Cardinality(d["permissions"])] ==
        IF n = 0 THEN [closure |-> seeds, working |-> seeds] ELSE NextRound(d, Round[n - 1])
  IN  Round[Cardinality(d["permissions"])].closure

\* GetPermissionGrantedTables: the permissions held directly, not ExpandClosure.
GetTablesForPermissionId(d, perm) ==
  { r["table_name"] : r \in Matching(d, "admin_table_permissions", "permission_id" :> perm) }
\* Mutant: implied permissions grant tables too.
GetPermissionGrantedTablesImplied(d, u) ==
  IF u = NoUser THEN {} ELSE UNION { GetTablesForPermissionId(d, p) : p \in ExpandClosure(d, PermissionsOf(d, u)) }

GetPermissionGrantedTables(d, u) ==
  IF u = NoUser THEN {} ELSE UNION { GetTablesForPermissionId(d, p) : p \in PermissionsOf(d, u) }

NamesIn(d, t) == { r["name"] : r \in d[t] }

\* GetAllowedTables: what goes wrong after the base list is read is swallowed.
GetAllowedTables(d, u) ==
  LET base == NamesIn(d, "allowed_tables")
  IN  IF u = NoUser THEN {base}
      ELSE { CASE a = "yes" -> base \cup NamesIn(d, "admin_top_level_tables") \cup NamesIn(d, "admin_nested_tables")
               [] a = "no" -> base \cup GetPermissionGrantedTables(d, u)
               [] a = "throws" -> base : a \in IsAdmin(d, u) }

IsTableAllowed(d, u, t) == \E allowed \in GetAllowedTables(d, u) : t \in allowed

\* Mutant: a failed role lookup is taken for "no".
RequireTableWriteAccessOpen(d, u, t) ==
  u # NoUser /\ \E a \in IsAdmin(d, u) : a = "yes" \/ t \in GetPermissionGrantedTables(d, u)

\* RequireTableWriteAccess: the photo endpoints' check.
RequireTableWriteAccess(d, u, t) ==
  /\ u # NoUser
  /\ \E a \in IsAdmin(d, u) : a = "yes" \/ (a = "no" /\ t \in GetPermissionGrantedTables(d, u))
-----------------------------------------------------------------------------
\* The write endpoints.
\* An empty value of a request is stored as NULL, except where it is a value.
NoValue == ""
KeepsEmptyString(t, n) == ~Column(t, n).nullable /\ Column(t, n).type = "STRING"

ValidJson(t, json) == DOMAIN json # {} /\ CheckKeysInTable(t, json)

\* UPDATE ... SET n = NULL WHERE column = value
SetNull(d, t, column, value, n) ==
  LET old == Matching(d, t, Where(column, value))
  IN  IF ~OK(d) \/ column \notin ColumnNames(t) \/ ~Castable(t, column, value) THEN Refused
      ELSE IF \E r \in old : Cardinality(old) > 1 /\ n = PrimaryKey(t) THEN Refused
      ELSE Commit([d EXCEPT ![t] = (@ \ old) \cup { [r EXCEPT ![n] = NULL] : r \in old }], t)

\* Mutant: the empty values are left out and nothing else happens.
UpdateTableValueNoNulls(d, t, column, value, json) ==
  LET kv == Restrict(json, { n \in DOMAIN json : json[n] # NoValue \/ KeepsEmptyString(t, n) })
  IN  IF DOMAIN kv = {} THEN d ELSE UpdateRow(d, t, column, value, kv)

\* The values first, in one statement; then, column by column, the NULLs.
UpdateTableValue(d, t, column, value, json) ==
  LET nulls == { n \in DOMAIN json : json[n] = NoValue /\ ~KeepsEmptyString(t, n) }
      kv == Restrict(json, DOMAIN json \ nulls)
      columns == DatabaseInfo[t].columns
      first == IF DOMAIN kv = {} THEN d ELSE UpdateRow(d, t, column, value, kv)
      Nulled[i \in 0 .. Len(columns)] ==
        IF i = 0 THEN first
        ELSE IF columns[i].name \notin nulls THEN Nulled[i - 1]
        ELSE SetNull(Nulled[i - 1], t, column, value, columns[i].name)
  IN  Nulled[Len(columns)]

IsPhotoSupportedForTable(d, t) == \E r \in d["photo_support_tables"] : r["table_name"] = t

\* DeleteItem: first the photo of the item whose id the value is taken for
\* (std::stoll throws when it is no number), then the rows.
DeleteItem(d, q) ==
  IF IsPhotoSupportedForTable(d, q.table) /\ q.value \notin Range(Ids) THEN Refused
  ELSE IF q.column \in ColumnNames(q.table) THEN DeleteRow(d, q.table, Where(q.column, q.value)) ELSE Refused

AddItem(d, q, id) == IF ValidJson(q.table, q.json) THEN AddRowToTable(d, q.table, q.json, id) ELSE Refused

\* The key is answered as an integer: a table keyed by text is rolled back.
AddItemFetchPrimaryKey(d, q, id) ==
  IF ValidJson(q.table, q.json) /\ InsertedRow(q.table, q.json, id)[PrimaryKey(q.table)] \in Range(Ids)
  THEN AddRowToTable(d, q.table, q.json, id) ELSE Refused

UpdateItem(d, q) ==
  IF ValidJson(q.table, q.json) THEN UpdateTableValue(d, q.table, q.column, q.value, q.json) ELSE Refused

Statement(d, q, id) ==
  CASE q.op = "add" -> AddItem(d, q, id)
    [] q.op = "add_key" -> AddItemFetchPrimaryKey(d, q, id)
    [] q.op = "update" -> UpdateItem(d, q)
    [] q.op = "delete" -> DeleteItem(d, q)
    [] OTHER -> d

\* One photo per item: an upload replaces the one before.
UploadPhoto(q) == IF IsPhotoSupportedForTable(db, q.table) THEN photos \cup {<<q.table, q.value>>} ELSE photos
DeletePhoto(q) == photos \ {<<q.table, q.value>>}

\* Mutants: the photo stays when the row goes; every write removes it.
PhotosAfterKept(q) ==
  CASE q.op = "upload" -> UploadPhoto(q) [] q.op = "remove" -> DeletePhoto(q) [] OTHER -> photos
PhotosAfterAnyWrite(q) == IF q.op = "upload" THEN UploadPhoto(q) ELSE DeletePhoto(q)

PhotosAfter(q) ==
  CASE q.op = "upload" -> UploadPhoto(q)
    [] q.op = "remove" -> DeletePhoto(q)
    [] q.op = "delete" /\ IsPhotoSupportedForTable(db, q.table) -> DeletePhoto(q)
    [] OTHER -> photos

\* What may start: the generic endpoints ask IsTableAllowed, the photo
\* endpoints RequireTableWriteAccess (one's own photo excepted).
MayStart(d, u, q) ==
  CASE q.op \in {"add", "add_key", "update", "delete"} -> IsTableAllowed(d, u, q.table)
    [] q.op = "upload" -> RequireTableWriteAccess(d, u, q.table)
    [] q.op = "remove" -> u # NoUser /\ ((q.table = "people" /\ q.value = u) \/ RequireTableWriteAccess(d, u, q.table))
-----------------------------------------------------------------------------
\* The read endpoints: every answer the database allows.  Rows pass
\* ApplyRedactions; the labels of the foreign-key pickers do not.
ApplyRedactions(t, row) == Restrict(row, { n \in DOMAIN row : <<t, n>> \notin redactions })

GetTableValues(t) == { ApplyRedactions(t, r) : r \in GetTableRows(db, t) }
GetRow(t, column, value) == { ApplyRedactions(t, r) : r \in LookupRowByValue(db, t, column, value) }
GetRowByValues(t, kv) ==
  IF DOMAIN kv = {} THEN {} ELSE { ApplyRedactions(t, r) : r \in LookupRowByValues(db, t, kv) }

RowsOf(answers) == UNION { Range(a.rows) : a \in answers }
GetRowsByColumn(t, column, asc, size, page) ==
  { ApplyRedactions(t, Fetched(r)) : r \in RowsOf(GetRowsByColumnWithCount(db, t, column, asc, size, page)) }
\* Mutant: the rows are not passed through ApplyRedactions.
GetFilteredTableRowsBare(t, column, kv, asc, size, page) ==
  { Fetched(r) : r \in RowsOf(GetRowsByValues(db, t, column, kv, asc, size, page)) }

GetFilteredTableRows(t, column, kv, asc, size, page) ==
  { ApplyRedactions(t, Fetched(r)) : r \in RowsOf(GetRowsByValues(db, t, column, kv, asc, size, page)) }

\* No row of the table means no template.
GetDisplayTemplate(t) ==
  LET rows == Matching(db, "admin_table_display_template", "name" :> t)
  IN  IF rows = {} THEN <<>> ELSE Pieces((CHOOSE r \in rows : TRUE)["template"])

\* Mutant: the search looks at the key and the label comes from the template.
GetFkOptionsByKey(t, text, size) ==
  { [total |-> a.total,
     options |-> ResolveDisplayValues({ Fetched(r) : r \in Range(a.rows) }, PrimaryKey(t), GetDisplayTemplate(t))]
    : a \in SearchRowsByILike(db, t, PrimaryKey(t), {PrimaryKey(t)}, text, size) }

\* The key and the label of every option; without a search text all of them.
GetFkOptions(t, text, size) ==
  LET template == GetDisplayTemplate(t)
      columns == IF ParseTemplateColumns(template) = {} THEN {PrimaryKey(t)} ELSE ParseTemplateColumns(template)
      answers == IF text = "" THEN GetRowsByValues(db, t, PrimaryKey(t), <<>>, TRUE, size, 0)
                 ELSE SearchRowsByILike(db, t, PrimaryKey(t), columns, text, size)
      Labels(rows) == ResolveDisplayValues({ Fetched(r) : r \in rows }, PrimaryKey(t), template)
  IN  { [total |-> a.total, options |-> Labels(Range(a.rows))] : a \in answers }

ResolveFkDisplay(t, values) ==
  ResolveDisplayValues(LookupRowsByPrimaryKeyValues(db, t, values), PrimaryKey(t), GetDisplayTemplate(t))

\* LoadAdminMetadataCache: every table once, the last row read of a key wins.
LastRead(rows, Key(_)) == [k \in { Key(r) : r \in rows } |-> CHOOSE r \in rows : Key(r) = k]
\* Mutant: the enum bindings are kept by enum.
LoadAdminMetadataCacheByEnum(d) ==
  [info |-> LastRead(d["admin_column_data_info"], LAMBDA r : <<r["table_name"], r["column_name"]>>),
   enums |-> LastRead(d["admin_column_enums"], LAMBDA r : r["admin_enum_id"]),
   values |-> [e \in { r["admin_enum_id"] : r \in d["admin_column_enums"] } |->
                 { v["name"] : v \in Matching(d, "admin_enum_values", "admin_enum_id" :> e) }]]

LoadAdminMetadataCache(d) ==
  LET enums == LastRead(d["admin_column_enums"], LAMBDA r : r["admin_column_data_info_id"])
  IN  [info |-> LastRead(d["admin_column_data_info"], LAMBDA r : <<r["table_name"], r["column_name"]>>),
       enums |-> enums,
       values |-> [e \in { r["admin_enum_id"] : r \in d["admin_column_enums"] } |->
                     { v["name"] : v \in Matching(d, "admin_enum_values", "admin_enum_id" :> e) }]]

\* GenerateColumnMetadata: the input type and, for an enum, its values.
GenerateColumnMetadata(cache, t, n) ==
  IF <<t, n>> \notin DOMAIN cache.info THEN [type |-> "", values |-> {}]
  ELSE LET row == cache.info[<<t, n>>]
       IN  IF row["id"] \notin DOMAIN cache.enums
           THEN [type |-> Text(row["html_input_type"]), values |-> {}]
           ELSE [type |-> "enum", values |-> cache.values[cache.enums[row["id"]]["admin_enum_id"]]]

\* DatabaseMetadata: the allowed tables that the program knows, and of them
\* the ones the portal shows at the top and the ones it nests.
DatabaseMetadata(d, u) ==
  { [tables |-> allowed \cap TableNames,
     root |-> NamesIn(d, "admin_top_level_tables") \cap allowed,
     nested |-> NamesIn(d, "admin_nested_tables") \cap allowed,
     columns |-> [t \in allowed \cap TableNames |->
                    [n \in ColumnNames(t) |-> GenerateColumnMetadata(LoadAdminMetadataCache(d), t, n)]],
     keys |-> [t \in allowed \cap TableNames |->
                 { <<c.name, c.parent>> : c \in { x \in Columns(t) : x.parent # NoParent } }]]
    : allowed \in GetAllowedTables(d, u) }
-----------------------------------------------------------------------------
HasRow(d, p) == \E r \in d[p[1]] : r[PrimaryKey(p[1])] = p[2]

AccessInit ==
  /\ db = Populated.rows
  /\ next = Populated.next
  /\ photos = {}
  /\ redactions = LoadColumnRedactionSet(Populated.rows)
  /\ request = [u \in Users |-> NoRequest]
  /\ writes = 0

\* A request begins its transaction and passes its check.
Check(u, q) ==
  /\ request[u] = NoRequest
  /\ writes < MaxWrites /\ Cardinality({ v \in Users : request[v] # NoRequest }) < MaxOpen
  /\ MayStart(db, u, q)
  /\ request' = [request EXCEPT ![u] = q]
  /\ UNCHANGED << db, next, photos, redactions, writes >>

\* ... and does its work and commits, or is rolled back.
Write(u) ==
  /\ request[u] # NoRequest
  /\ writes < MaxWrites
  /\ LET q == request[u]
         after == Statement(db, q, Ids[next[q.table]])
     IN  /\ IF OK(after)
            THEN db' = after /\ photos' = PhotosAfter(q)
            ELSE UNCHANGED << db, photos >>
         /\ next' = IF q.op \in {"add", "add_key"} /\ ValidJson(q.table, q.json) /\ DrawsId(q.table, q.json)
                    THEN [next EXCEPT ![q.table] = @ + 1] ELSE next
  /\ request' = [request EXCEPT ![u] = NoRequest]
  /\ writes' = writes + 1
  /\ UNCHANGED redactions

\* Other server code calls a table helper.
HelperCall(c) ==
  /\ writes < MaxWrites
  /\ LET after == Perform(db, c, Ids[next[c.table]])
     IN  db' = IF OK(after) THEN after ELSE db
  /\ next' = IF Draws(c) THEN [next EXCEPT ![c.table] = @ + 1] ELSE next
  /\ writes' = writes + 1
  /\ UNCHANGED << photos, redactions, request >>

\* The server is stopped and started: open transactions are rolled back and the
\* redactions are read again.
Restart ==
  /\ request # [u \in Users |-> NoRequest] \/ redactions # LoadColumnRedactionSet(db)
  /\ request' = [u \in Users |-> NoRequest]
  /\ redactions' = LoadColumnRedactionSet(db)
  /\ UNCHANGED << db, next, photos, writes >>

AccessNext ==
  \/ \E u \in Users, q \in Requests : Check(u, q)
  \/ \E u \in Users : Write(u)
  \/ \E c \in HelperCalls : HelperCall(c)
  \/ Restart

AccessSpec == AccessInit /\ [][AccessNext]_accessVars
-----------------------------------------------------------------------------
\* Every row has the columns of its table; sequences stay within their bound.
AccessTypeOK ==
  /\ \A t \in TableNames : \A r \in db[t] : DOMAIN r = ColumnNames(t)
  /\ next \in [TableNames -> 1 .. Len(Ids)]
  /\ photos \subseteq TableNames \X Range(Ids)
  /\ redactions \subseteq TableNames \X STRING
  /\ request \in [Users -> Requests \cup {NoRequest}]
  /\ writes \in 0 .. MaxWrites

\* Whatever somebody is allowed changes only through a table that decides
\* about it: a request changes the allowed tables of anyone only when it was
\* let through for such a table, ON DELETE CASCADE included; so do the
\* permissions that RequirePermission asks for.
GrantsChangeThroughAuthority ==
  [][\A u \in Users : Write(u) =>
       \/ request[u].table \in Authority
       \/ \A v \in Users :
            /\ GetAllowedTables(db', v) = GetAllowedTables(db, v)
            /\ \A p \in {"admin_portal", "edit"} : RequirePermission(db', v, p) <=> RequirePermission(db, v, p)]_accessVars

\* The two checks agree: whoever may photograph a table's rows without being an
\* administrator may edit the rows, also when the role "admin" was renamed,
\* deleted or doubled.
WriteAccessImpliesAllowed ==
  \A u \in Users, t \in TableNames :
    RequireTableWriteAccess(db, u, t) /\ "yes" \notin IsAdmin(db, u) => IsTableAllowed(db, u, t)

\* A check has two possible answers only while two roles are named "admin":
\* roles.name is not unique and the lookup takes any of them.
OneAnswerPerRoleName ==
  \A u \in Users : Cardinality(GetAllowedTables(db, u)) > 1 => Cardinality(GetRole(db, "admin")) > 1

\* UpdateItem gives the selected rows every value asked for, NULL for the
\* empty ones, and leaves all others alone, or changes nothing: as long as the
\* request does not change the very column it selects by.
UpdatesAreWhole ==
  [][\A u \in Users :
       LET q == request[u]
           selected == Matching(db, q.table, Where(q.column, q.value))
           Asked(n) == IF q.json[n] = NoValue /\ ~KeepsEmptyString(q.table, n) THEN NULL ELSE q.json[n]
       IN  q.op = "update" /\ q.column \notin DOMAIN q.json /\ Write(u) /\ db' # db =>
             db'[q.table] = (db[q.table] \ selected) \cup
               { [n \in DOMAIN r |-> IF n \in DOMAIN q.json THEN Asked(n) ELSE r[n]] : r \in selected }]_accessVars

\* Deleting an item by its key takes the item's photo along exactly when the
\* item goes: not when the deletion is rolled back, and not the item alone.
PhotoGoesWithItsRow ==
  [][\A u \in Users :
       LET q == request[u]
           p == <<q.table, q.value>>
       IN  q.op = "delete" /\ q.column = PrimaryKey(q.table) /\ p \in photos /\ HasRow(db, p)
             /\ IsPhotoSupportedForTable(db, q.table) /\ Write(u)
           => (p \in photos' <=> HasRow(db', p))]_accessVars

\* A photo is lost with its row, or because its removal was asked for; the one
\* other way is a deletion by a column that is not the key, whose value is
\* taken for an id.
PhotosAreNotTakenFromOthers ==
  [][\A p \in photos \ photos' :
       \E u \in Users : LET q == request[u]
                        IN  \/ q.op = "remove" /\ <<q.table, q.value>> = p
                            \/ q.op = "delete" /\ (~HasRow(db', p) \/ q.column # PrimaryKey(q.table))]_accessVars

\* Read page by page over a unique column, the rows come once each and in order. For
\* every page and size whose product an int can hold, a page has the rows that are
\* left, at most its size, and the total is the table's; past the end the filtered
\* total is 0. Size 0 is no limit on the filtered path and no row on the other
\* (database_crud_helpers.cpp:268, :520). A product that wraps is refused, or answers
\* with the rows of another page: of it nothing is claimed.
PagesAreExact ==
  /\ \A t \in {"roles", "items"}, asc \in BOOLEAN, size \in 1 .. 2 :
       LET key == PrimaryKey(t)
           One(page) == GetRowsByValues(db, t, key, <<>>, asc, size, page)
           Whole == FoldLeft(LAMBDA s, i : s \o (CHOOSE a \in One(i - 1) : TRUE).rows, <<>>,
                             [i \in 1 .. Cardinality(db[t]) + 1 |-> i])
       IN  Whole \in Orders(db[t], key, asc)
  /\ \A t \in {"roles", "items"}, size \in {0, 1, 2, 2 ^ (IntBits - 2)}, page \in 0 .. 4 :
       LET key == PrimaryKey(t)
           count == Cardinality(db[t])
           left == Max({0, count - page * size})
       IN  page * size < 2 ^ (IntBits - 1) =>
             /\ \A a \in GetRowsByValues(db, t, key, <<>>, TRUE, size, page) :
                  /\ Len(a.rows) = IF size = 0 THEN count ELSE Min({size, left})
                  /\ a.total = IF left = 0 THEN 0 ELSE count
             /\ \A a \in GetRowsByColumnWithCount(db, t, key, TRUE, size, page) :
                  Len(a.rows) = Min({size, left}) /\ a.total = count

\* No read endpoint answers with a column whose redaction was loaded, and the label
\* of a foreign-key option is made of the other columns only, as long as the table's
\* display template and its key do not name a redacted one: GetFkOptions and
\* ResolveFkDisplay redact nothing (database_rest_helper.cpp:566, :621).
ReadsHideRedactedColumns ==
  \A t \in {"people", "roles", "items"} :
    LET hidden == { n \in ColumnNames(t) : <<t, n>> \in redactions }
        template == GetDisplayTemplate(t)
        rows == GetTableValues(t) \cup GetRow(t, PrimaryKey(t), Ids[1]) \cup GetRowByValues(t, PrimaryKey(t) :> Ids[2])
                  \cup GetRowsByColumn(t, PrimaryKey(t), TRUE, 2, 0)
                  \cup GetFilteredTableRows(t, PrimaryKey(t), <<>>, FALSE, 0, 0)
        Redacted == ResolveDisplayValues(GetTableValues(t), PrimaryKey(t), template)
    IN  /\ \A r \in rows : DOMAIN r \cap hidden = {}
        /\ (ParseTemplateColumns(template) \cup {PrimaryKey(t)}) \cap hidden = {} =>
             /\ \A a \in GetFkOptions(t, "", 0) : a.options = Redacted
             /\ ResolveFkDisplay(t, Range(Ids)) = Redacted

\* ExpandClosure is the least set that contains the seeds and is closed under
\* implication, and it is reached in as many rounds as there are permissions,
\* cycles included.
ClosureIsLeast ==
  LET perms == { r["id"] : r \in db["permissions"] }
      edges == db["permission_implications"]
      Closed(S) == \A e \in edges : e["permission_id"] \in S => e["implies_permission_id"] \in S
  IN  \A seeds \in SUBSET perms :
        LET c == ExpandClosure(db, seeds)
        IN  seeds \subseteq c /\ Closed(c) /\ \A S \in SUBSET perms : seeds \subseteq S /\ Closed(S) => c \subseteq S

\* An option found by a search shows the text that was searched for.
FoundOptionsShowTheText ==
  \A t \in {"people", "roles", "items"}, text \in {"1", "x", "y", "admin"} :
    \A a \in GetFkOptions(t, text, 0) : \A v \in DOMAIN a.options : text \in Range(a.options[v])

\* The metadata read from the cache is what the helpers answer for the column:
\* a row of the column, and the values of the enum bound to that very row.
MetadataAgreesWithLookups ==
  \A u \in Users : \A m \in DatabaseMetadata(db, u) : \A t \in m.tables : \A n \in ColumnNames(t) :
    LET infos == LookupRowByValues(db, "admin_column_data_info", "table_name" :> t @@ "column_name" :> n)
        Bound(i) == LookupRowByValue(db, "admin_column_enums", "admin_column_data_info_id", i["id"])
        Values(e) == { v["name"] : v \in GetRowsByValuesWithOrderBy(db, "admin_enum_values",
                                            "admin_enum_id" :> e["admin_enum_id"]) }
        Answers(i) == UNION { IF e = <<>> THEN {[type |-> i["html_input_type"], values |-> {}]}
                              ELSE {[type |-> "enum", values |-> Values(e)]} : e \in Bound(i) }
    IN  m.columns[t][n] \in UNION { IF i = <<>> THEN {[type |-> "", values |-> {}]} ELSE Answers(i) : i \in infos }

\* The answers about roles, permissions and tables agree with each other
\* whatever is edited through the endpoints they guard.
AuthorityIsConsistent ==
  /\ WriteAccessImpliesAllowed
  /\ OneAnswerPerRoleName
  /\ ClosureIsLeast

\* A write changes its own row, with its photo, entirely or not at all.
WritesAreWhole ==
  /\ UpdatesAreWhole
  /\ PhotoGoesWithItsRow
  /\ PhotosAreNotTakenFromOthers

\* A read gives the rows, columns, options and metadata asked for, and no
\* redacted value but in the labels of a table whose display template names one.
ReadsAreExact ==
  /\ AccessTypeOK
  /\ PagesAreExact
  /\ ReadsHideRedactedColumns
  /\ FoundOptionsShowTheText
  /\ MetadataAgreesWithLookups
=============================================================================
