--------------------------- MODULE MCTableAccess ---------------------------
(* The framework's own tables and one table of an application, items, with a *)
(* unique code, a note that may be empty and a parent item.  Two people: the *)
(* first is an administrator, the second may edit items.                     *)
EXTENDS TableAccess

Serial == [name |-> "id", type |-> "BIGSERIAL", key |-> TRUE, unique |-> FALSE, nullable |-> FALSE, parent |-> ""]
Key(n) == [name |-> n, type |-> "STRING", key |-> TRUE, unique |-> FALSE, nullable |-> FALSE, parent |-> ""]
Simple(n) == [name |-> n, type |-> "STRING", key |-> FALSE, unique |-> FALSE, nullable |-> FALSE, parent |-> ""]
Nullable(n) == [Simple(n) EXCEPT !.nullable = TRUE]
Unique(n) == [Simple(n) EXCEPT !.unique = TRUE]
Ref(n, p) == [Simple(n) EXCEPT !.type = "BIGINT", !.parent = p]
NameRef(n, p) == [Simple(n) EXCEPT !.parent = p]
Table(columns) == [columns |-> columns, unique |-> {}]
Together(columns, names) == [columns |-> columns, unique |-> {names}]

MCDatabaseInfo ==
  [t \in {"roles", "permissions"} |-> Table(<< Serial, Simple("name") >>)]
  @@ [t \in {"allowed_tables", "admin_top_level_tables", "admin_nested_tables"} |-> Table(<< Key("name") >>)]
  @@ "people" :> Table(<< Unique("email"), Serial, Simple("password_hash") >>)
  @@ "role_assignments" :> Together(<< Serial, Ref("person_id", "people"), Ref("role_id", "roles") >>,
                                    {"person_id", "role_id"})
  @@ "role_permissions" :> Together(<< Serial, Ref("permission_id", "permissions"), Ref("role_id", "roles") >>,
                                    {"role_id", "permission_id"})
  @@ "permission_implications" :>
       Together(<< Serial, Ref("implies_permission_id", "permissions"), Ref("permission_id", "permissions") >>,
                {"permission_id", "implies_permission_id"})
  @@ "admin_table_permissions" :> Table(<< Serial, Ref("permission_id", "permissions"), Simple("table_name") >>)
  @@ "admin_table_display_template" :> Table(<< Key("name"), Simple("template") >>)
  @@ "photo_support_tables" :> Table(<< Key("table_name") >>)
  @@ "admin_column_redactions" :> Table(<< Simple("column_name"), Serial, Simple("table_name") >>)
  @@ "admin_column_data_info" :> Table(<< Simple("column_name"), Nullable("html_input_type"), Serial,
                                         NameRef("table_name", "admin_top_level_tables") >>)
  @@ "admin_enums" :> Table(<< Serial, Unique("name") >>)
  @@ "admin_enum_values" :> Table(<< Ref("admin_enum_id", "admin_enums"), Serial, Simple("name") >>)
  @@ "admin_column_enums" :> Table(<< Ref("admin_column_data_info_id", "admin_column_data_info"),
                                      Ref("admin_enum_id", "admin_enums"), Serial >>)
  @@ "items" :> Table(<< Unique("code"), Serial, Nullable("note"),
                         [Ref("parent_id", "items") EXCEPT !.nullable = TRUE], Simple("title") >>)

MCIds == << "1", "2", "3", "4", "5", "6", "7", "8", "9", "10", "11", "12", "13", "14", "15", "16" >>
MCCollation == MCIds \o << "", "admin", "user", "x", "y", "z" >>

MCFirstRows ==
  << Call("add", "people", "email" :> "x" @@ "password_hash" :> "h1"),
     Call("add", "people", "email" :> "y" @@ "password_hash" :> "h2"),
     AddRoleAssignment("1", "1"), AddRoleAssignment("2", "2"),
     AddPermission("edit"), AddRolePermission("2", "3"), AddAdminTablePermission("items", "3"),
     AddPhotoSupportTable("items"), SetDisplayTemplate("items", "{title} {note}"), AddImplication("3", "1"),
     AddImplication("1", "2"),
     AddAdminTopLevelTable("items"), AddAdminEnum("x"), AddAdminEnumValue("1", "y"),
     Call("add", "items", "title" :> "x" @@ "code" :> "2" @@ "note" :> "y"),
     Call("add", "items", "title" :> "y" @@ "code" :> "y" @@ "parent_id" :> "1") >>

Req(op, t, column, value, json) == [op |-> op, table |-> t, column |-> column, value |-> value, json |-> json]
None == <<>>

MCRequests ==
  { Req("add", "items", "", "", "title" :> "x" @@ "id" :> "3"),
    Req("update", "items", "id", "1", "title" :> "" @@ "note" :> "" @@ "code" :> "x"),
    Req("update", "items", "title", "x", "note" :> "" @@ "parent_id" :> ""),
    Req("update", "items", "id", "2", "id" :> "4"),
    Req("delete", "items", "id", "2", None),
    Req("delete", "items", "code", "2", None),
    Req("upload", "items", "", "2", None),
    Req("remove", "items", "", "2", None),
    Req("update", "roles", "id", "1", "name" :> "x"),
    Req("add_key", "role_assignments", "", "", "person_id" :> "2" @@ "role_id" :> "1"),
    Req("delete", "people", "id", "2", None),
    Req("add", "permission_implications", "", "", "permission_id" :> "1" @@ "implies_permission_id" :> "3") }

MCHelperCalls ==
  { AddRole("admin"), SetName("roles", "2", "admin"), DeletePermission("3"),
    AddAdminColumnRedaction("items", "code"), DeleteDisplayTemplate("items"),
    AddAdminColumnRedaction("items", "note"),
    AddAdminColumnDataInfo("items", "title", "text"), AddAdminColumnDataInfo("roles", "name", "date"),
    AddAdminColumnEnum("1", "6"), DeleteAdminTopLevelTable("roles"), DeleteAdminEnum("1") }
=============================================================================
