--------------------------- MODULE FrameworkSchema ---------------------------
(***************************************************************************)
(* The tables of the framework (platform/db_schema), one builder a table,  *)
(* and the order they are created in (create_framework_tables.cpp), run    *)
(* through the builder, the creation and the reader of module Schema.      *)
(* Default values are abstracted to there being one.                       *)
(***************************************************************************)
EXTENDS Schema

Column(col) == [op |-> "column", table |-> "", col |-> col]

Serial(c)      == Column([ColumnInfo(c, "BIGSERIAL") EXCEPT !.pk = TRUE])
PrimaryKey(c, t) == Column([ColumnInfo(c, t) EXCEPT !.pk = TRUE])
Simple(c, t)   == Column(ColumnInfo(c, t))
Unique(c, t)   == Column([ColumnInfo(c, t) EXCEPT !.unique = TRUE])
Nullable(c, t) == Column([ColumnInfo(c, t) EXCEPT !.nullable = TRUE])
Default(c, t)  == Column([ColumnInfo(c, t) EXCEPT !.dflt = TRUE])
Ref(c, p, pc)  == [op |-> "ref", table |-> "", col |-> c, parent |-> p, pcol |-> pc,
                   nullable |-> FALSE]
RefNullable(c, p, pc) == [Ref(c, p, pc) EXCEPT !.nullable = TRUE]
Together(cols) == [op |-> "unique", table |-> "", cols |-> cols]

On(t, call)    == [call EXCEPT !.table = t]
Table(t, calls) == <<[op |-> "table", table |-> t]>> \o [k \in DOMAIN calls |-> On(t, calls[k])]

----------------------------------------------------------------------------
MakeSchemaMigrationsTable ==
  Table("schema_migrations",
    << PrimaryKey("id", "STRING"), Default("applied_at_us", "BIGINT") >>)

MakeAdminAlertsTable ==
  Table("admin_alerts",
    << Serial("id"), Default("created_at", "BIGINT"), Simple("description", "STRING") >>)

MakeAdminTopLevelTablesTable ==
  Table("admin_top_level_tables",
    << PrimaryKey("name", "STRING") >>)

MakeAdminNestedTablesTable ==
  Table("admin_nested_tables",
    << PrimaryKey("name", "STRING") >>)

MakeAdminColumnDataInfoTable ==
  Table("admin_column_data_info",
    << Serial("column_data_info_id"), Ref("table_name", "admin_top_level_tables", "name"),
       Simple("column_name", "STRING"), Nullable("label", "STRING"), Nullable("hint", "STRING"),
       Nullable("place_holder", "STRING"), Nullable("regex", "STRING"),
       Nullable("html_input_type", "STRING"), Nullable("required", "BOOL"),
       Nullable("max_length", "INT"), Nullable("default_value", "STRING"),
       Nullable("rows", "INT"), Nullable("hidden", "BOOL"), Nullable("readonly", "BOOL") >>)

MakeAdminColumnRedactionsTable ==
  Table("admin_column_redactions",
    << Serial("id"), Simple("table_name", "STRING"), Simple("column_name", "STRING") >>)

MakeAdminEnumsTable ==
  Table("admin_enums",
    << Serial("id"), Unique("name", "STRING") >>)

MakeAdminEnumValuesTable ==
  Table("admin_enum_values",
    << Serial("id"), Ref("admin_enum_id", "admin_enums", "id"), Simple("name", "STRING"),
       Simple("value", "INT") >>)

MakeAdminColumnEnumsTable ==
  Table("admin_column_enums",
    << Serial("id"), Ref("admin_enum_id", "admin_enums", "id"),
       Ref("admin_column_data_info_id", "admin_column_data_info", "column_data_info_id") >>)

MakeAdminColumnFriendlyNamesTable ==
  Table("admin_column_friendly_names",
    << Serial("column_friendly_name_id"), Ref("table_name", "admin_top_level_tables", "name"),
       Simple("column_name", "STRING"), Simple("friendly_name", "STRING") >>)

MakeAdminTableFriendlyNamesTable ==
  Table("admin_table_friendly_names",
    << Serial("table_friendly_name_id"), Unique("name", "STRING"),
       Simple("friendly_name", "STRING"), Simple("description", "STRING") >>)

MakeAdminTableDisplayTemplateTable ==
  Table("admin_table_display_template",
    << PrimaryKey("name", "STRING"), Simple("display_template", "STRING") >>)

MakeAllowedTablesTable ==
  Table("allowed_tables",
    << PrimaryKey("name", "STRING") >>)

MakeConfigSecretsTable ==
  Table("config_secrets",
    << Serial("id"), Unique("name", "STRING"), Simple("value", "STRING") >>)

MakePeopleTable ==
  Table("people",
    << Serial("id"), Unique("email", "CITEXT"), Simple("first_name", "STRING"),
       Simple("last_name", "STRING"), Simple("password_hash", "STRING"),
       Nullable("email_verified_at", "BIGINT"), Default("must_change_password", "BOOL"),
       Default("created_at", "BIGINT"), Default("updated_at", "BIGINT"),
       Default("failed_login_attempts", "BIGINT"), Nullable("locked_until", "BIGINT") >>)

MakeRolesTable ==
  Table("roles",
    << Serial("id"), Simple("name", "STRING"), Simple("description", "STRING") >>)

MakePermissionsTable ==
  Table("permissions",
    << Serial("id"), Simple("name", "STRING"), Simple("description", "STRING"),
       Default("is_pricing_eligible", "BOOL") >>)

MakeAdminTablePermissionsTable ==
  Table("admin_table_permissions",
    << Serial("id"), Simple("table_name", "STRING"), Ref("permission_id", "permissions", "id") >>)

MakeRoleAssignmentsTable ==
  Table("role_assignments",
    << Serial("id"), Ref("person_id", "people", "id"), Ref("role_id", "roles", "id"),
       Together({"person_id", "role_id"}) >>)

MakeRolePermissionsTable ==
  Table("role_permissions",
    << Serial("id"), Ref("role_id", "roles", "id"), Ref("permission_id", "permissions", "id"),
       Together({"role_id", "permission_id"}) >>)

MakePermissionImplicationsTable ==
  Table("permission_implications",
    << Serial("id"), Ref("permission_id", "permissions", "id"),
       Ref("implies_permission_id", "permissions", "id"),
       Together({"permission_id", "implies_permission_id"}) >>)

MakeSessionsTable ==
  Table("sessions",
    << Serial("id"), Default("uuid", "UUID"), Ref("person_id", "people", "id"),
       Default("created_at", "BIGINT"), Default("last_seen_at", "BIGINT"),
       Simple("expires_at", "BIGINT"), Default("revoked", "BOOL"), Together({"uuid"}) >>)

MakeDeviceTokensTable ==
  Table("device_tokens",
    << Serial("id"), Default("uuid", "UUID"), Ref("person_id", "people", "id"),
       Unique("secret_hash", "STRING"), Default("created_at", "BIGINT"),
       Nullable("last_used_at", "BIGINT"), Simple("expires_at", "BIGINT"),
       Default("revoked", "BOOL"), Together({"uuid"}) >>)

MakeEmailVerificationsTable ==
  Table("email_verifications",
    << Serial("id"), Ref("person_id", "people", "id"), Simple("token_hash", "STRING"),
       Simple("expires_at", "BIGINT"), Default("attempts", "INT"), Together({"person_id"}) >>)

MakePasswordResetTokensTable ==
  Table("password_reset_tokens",
    << Serial("id"), Ref("person_id", "people", "id"), Simple("token_hash", "STRING"),
       Simple("expires_at", "BIGINT"), Default("attempts", "INT"),
       Default("created_at", "BIGINT"), Together({"person_id"}) >>)

MakePhotoSupportTablesTable ==
  Table("photo_support_tables",
    << PrimaryKey("table_name", "STRING") >>)

MakePhotoInstancesTable ==
  Table("photo_instances",
    << Serial("photo_instance_id"), Simple("photo", "BYTES"), Simple("type", "STRING"),
       Simple("width", "INT"), Simple("height", "INT"), Default("created_at_us", "BIGINT"),
       Default("last_updated_at_us", "BIGINT") >>)

MakeSourcePhotosTable ==
  Table("source_photos",
    << Serial("source_photo_id"),
       Ref("photo_instance_id", "photo_instances", "photo_instance_id"),
       Default("created_at_us", "BIGINT"), Default("last_updated_at_us", "BIGINT") >>)

MakeScaledPhotosTable ==
  Table("scaled_photos",
    << Serial("scaled_photo_id"), Ref("source_photo_id", "source_photos", "source_photo_id"),
       Ref("photo_instance_id", "photo_instances", "photo_instance_id"), Simple("width", "INT"),
       Simple("height", "INT"), Default("created_at_us", "BIGINT"),
       Default("last_used_at_us", "BIGINT") >>)

MakeTableItemPhotosTable ==
  Table("table_item_photos",
    << Serial("id"), Ref("table_name", "photo_support_tables", "table_name"),
       Simple("table_item_id", "BIGINT"),
       Ref("source_photo_id", "source_photos", "source_photo_id"),
       Together({"table_name", "table_item_id"}) >>)

MakeSiteFontSourcesTable ==
  Table("site_font_sources",
    << Serial("site_font_source_id"), Unique("source_key", "STRING"),
       Simple("display_name", "STRING"), Simple("base_url", "STRING"),
       Nullable("query_suffix", "STRING"), Nullable("preconnect_lines", "STRING"),
       Default("active", "BOOL"), Default("created_at_us", "BIGINT"),
       Default("last_updated_at_us", "BIGINT") >>)

MakeSiteFontsTable ==
  Table("site_fonts",
    << Serial("site_font_id"), Simple("family", "STRING"), Simple("fallback", "STRING"),
       Simple("source_kind", "STRING"), Nullable("font_source_id", "BIGINT"),
       Nullable("spec", "STRING"), Default("ordinal", "INT"), Default("active", "BOOL"),
       Default("created_at_us", "BIGINT"), Default("last_updated_at_us", "BIGINT") >>)

MakeSiteFontFacesTable ==
  Table("site_font_faces",
    << Serial("site_font_face_id"), Ref("site_font_id", "site_fonts", "site_font_id"),
       Default("weight", "INT"), Default("style", "STRING"), Simple("format", "STRING"),
       Simple("bytes", "BYTES"), Default("created_at_us", "BIGINT"),
       Default("last_updated_at_us", "BIGINT") >>)

MakeSiteAssetsTable ==
  Table("site_assets",
    << Serial("site_asset_id"), Unique("name", "STRING"), Simple("type", "STRING"),
       Simple("bytes", "BYTES"), Default("created_at_us", "BIGINT"),
       Default("last_updated_at_us", "BIGINT") >>)

MakeIdempotencyKeysTable ==
  Table("idempotency_keys",
    << Serial("id"), Simple("scope", "STRING"), Simple("key", "STRING"),
       Simple("endpoint", "STRING"), Nullable("request_hash", "STRING"),
       Simple("status", "STRING"), Nullable("response_json", "STRING"),
       Default("created_us", "BIGINT"), Simple("expires_us", "BIGINT"),
       Together({"scope", "key", "endpoint"}) >>)

MakeLoginAttemptsTable ==
  Table("login_attempts",
    << Serial("id"), Simple("email_lower", "CITEXT"), Simple("ip", "STRING"),
       Simple("attempted_at", "BIGINT"), Simple("success", "BOOL"), Simple("kind", "STRING") >>)

MakeAuthEventsTable ==
  Table("auth_events",
    << Serial("id"), Simple("kind", "STRING"), Nullable("person_id", "BIGINT"),
       Simple("ip", "STRING"), Simple("user_agent", "STRING"), Simple("when_us", "BIGINT"),
       Simple("detail_json", "STRING") >>)

\* The control database: its own two tables (make_control_database_info.cpp).
MakeTenantsTable ==
  Table("tenants",
    << Serial("id"), Unique("site_key", "STRING"), Unique("database_name", "STRING"),
       Simple("display_name", "STRING"), Default("status", "STRING"),
       Default("max_connections", "BIGINT"), Default("created_us", "BIGINT"),
       Default("updated_us", "BIGINT") >>)

MakeFrameworkTables ==
  << MakeSchemaMigrationsTable, MakeAdminAlertsTable, MakeAdminTopLevelTablesTable,
     MakeAdminNestedTablesTable, MakeAdminColumnDataInfoTable, MakeAdminColumnRedactionsTable,
     MakeAdminEnumsTable, MakeAdminEnumValuesTable, MakeAdminColumnEnumsTable,
     MakeAdminColumnFriendlyNamesTable, MakeAdminTableFriendlyNamesTable,
     MakeAdminTableDisplayTemplateTable, MakeAllowedTablesTable, MakeConfigSecretsTable,
     MakePeopleTable, MakeRolesTable, MakePermissionsTable, MakeAdminTablePermissionsTable,
     MakeRoleAssignmentsTable, MakeRolePermissionsTable, MakePermissionImplicationsTable,
     MakeSessionsTable, MakeDeviceTokensTable, MakeEmailVerificationsTable,
     MakePasswordResetTokensTable, MakePhotoSupportTablesTable, MakePhotoInstancesTable,
     MakeSourcePhotosTable, MakeScaledPhotosTable, MakeTableItemPhotosTable,
     MakeSiteFontSourcesTable, MakeSiteFontsTable, MakeSiteFontFacesTable,
     MakeSiteAssetsTable, MakeIdempotencyKeysTable, MakeLoginAttemptsTable,
     MakeAuthEventsTable >>

MakeControlDatabaseInfo == << MakeTenantsTable, MakeSchemaMigrationsTable >>

\* Mutant: site_assets is registered but not in the list, as it once was.
FrameworkTableCreationOrderOnce ==
  [k \in 1..Len(MakeFrameworkTables)-1 |->
     LET names == SelectSeq([j \in DOMAIN MakeFrameworkTables |-> Head(MakeFrameworkTables[j]).table],
                            LAMBDA t : t # "site_assets")
     IN names[k]]

FrameworkTableCreationOrder ==
  << "schema_migrations", "admin_alerts", "admin_top_level_tables", "admin_nested_tables",
     "admin_column_data_info", "admin_column_redactions", "admin_enums", "admin_enum_values",
     "admin_column_enums", "admin_column_friendly_names", "admin_table_friendly_names",
     "admin_table_display_template", "allowed_tables", "config_secrets", "people", "roles",
     "permissions", "admin_table_permissions", "role_assignments", "role_permissions",
     "permission_implications", "sessions", "device_tokens", "email_verifications",
     "password_reset_tokens", "photo_support_tables", "photo_instances", "source_photos",
     "scaled_photos", "table_item_photos", "site_font_sources", "site_fonts",
     "site_font_faces", "site_assets", "idempotency_keys", "login_attempts", "auth_events" >>

----------------------------------------------------------------------------
IsFramework == Contains(info.tables, "people")

\* The framework's own list; the control database goes by the description.
CreateFrameworkTables == IsFramework /\ Create(FrameworkTableCreationOrder)
CreateDescribed == ~IsFramework /\ Create(info.tables)

\* What an application adds to the framework, it also creates; its calls are seen
\* on small schemas of its own.
ApplicationCall == ~IsFramework /\ MakeMore

Next == MakeTable \/ ApplicationCall \/ CreateFrameworkTables \/ CreateDescribed
        \/ ReadDatabase \/ AddChild \/ Spin \/ Finish

\* The reader is one call on one thread: it keeps taking turns.
Spec == Init /\ [][Next]_vars /\ WF_<<todo, phase>>(Turn)

----------------------------------------------------------------------------
\* The framework's builders never throw, its creation order is accepted, and it
\* creates exactly the tables that are registered, with every foreign key: a table
\* left out of the order, or listed before a table it refers to, fails here
\* (create_framework_tables.cpp:76).
FrameworkCreates ==
  script = <<>> /\ IsFramework =>
    /\ phase # "threw"
    /\ phase \in {"created", "reading", "read"} =>
         /\ DOMAIN db = Range(info.tables)
         /\ \A r \in Range(info.refs) :
              ForeignKey(r.child[2], r.parent[1], r.parent[2]) \in db[r.child[1]].fks

(***************************************************************************)
(* Creating tables leaves what is described, foreign keys included, over   *)
(* whatever was there; the order of the framework is one that works.       *)
(***************************************************************************)
CreatesWhatIsDescribed ==
  /\ TypeOK
  /\ ForeignKeysInstalled
  /\ FrameworkCreates
=============================================================================
