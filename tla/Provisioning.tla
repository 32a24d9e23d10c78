----------------------------- MODULE Provisioning -----------------------------
(***************************************************************************)
(* Operators stand up tenants and migrate their databases: ProvisionTenant,*)
(* EnsureControlDatabase, MigrateAllTenants and RunMigrateCommand. Each    *)
(* command is a process of its own that may die between any two steps; its *)
(* steps over the control database, the server's list of databases and a   *)
(* tenant's database are separate transactions. DROP and CREATE DATABASE   *)
(* run outside any transaction.                                            *)
(*                                                                         *)
(* A tenant's database is reduced to what the migrations look at: the two  *)
(* tables they create, the read-only flag of the role pickers, how often   *)
(* the application's own (not idempotent) migration took effect, and the   *)
(* ids in schema_migrations in the order of applied_at_us.                 *)
(***************************************************************************)
EXTENDS Naturals, Sequences, FiniteSets

CONSTANTS
    Operators,      \* operator processes that may run at the same time
    Sites,          \* site keys
    Databases,      \* names of tenant databases
    NoValue,        \* stands for an unset field of a command
    MaxCommands,    \* bound: commands started
    MaxFaults       \* bound: commands that die or throw half way

ASSUME ProvisioningAssumption ==
    /\ NoValue \notin Sites \cup Databases
    /\ Sites # {} /\ Databases # {}    \* of the tenant that is there from the start
    /\ MaxCommands \in Nat /\ MaxFaults \in Nat

VARIABLES
    control,    \* the control database: "absent", "empty" or "ready"
    tenants,    \* rows of the tenants table, in the order of their ids
    dbs,        \* what each tenant database holds
    op,         \* the command each operator process is in
    started, faults,
    forced      \* ghost: databases a forced provisioning was allowed to rebuild

vars == <<control, tenants, dbs, op, started, faults, forced>>

\* The composed migration list: the framework's three, then the application's.
Migrations == <<"0001_site_assets", "0002_password_reset_tokens",
                "0003_role_pickers", "app_0001">>

FrameworkTables == {"site_assets", "password_reset_tokens"}

Ids == {Migrations[i] : i \in 1 .. Len(Migrations)}

\* The table a migration creates unless it finds it there.
CreatedBy(id) ==
    CASE id = "0001_site_assets" -> {"site_assets"}
      [] id = "0002_password_reset_tokens" -> {"password_reset_tokens"}
      [] OTHER -> {}

Absent == [exists |-> FALSE, schema |-> FALSE, tables |-> {}, readonly |-> FALSE,
           bumped |-> 0, ids |-> <<>>, data |-> FALSE]

\* CREATE DATABASE: no tables at all.
Empty == [Absent EXCEPT !.exists = TRUE]

\* CreateFrameworkTables drops and creates every table of its list and
\* PopulateFrameworkTables seeds them: schema_migrations is empty, the role
\* pickers are writable, no user data is left.
Fresh == [Empty EXCEPT !.schema = TRUE, !.tables = FrameworkTables]

\* A database installed before any of the framework's migrations was written.
Old == [Fresh EXCEPT !.tables = {}, !.readonly = TRUE, !.data = TRUE]

Idle == [pc |-> "idle", site |-> NoValue, db |-> NoValue, force |-> FALSE,
         allowed |-> FALSE, todo |-> <<>>, next |-> 1,
         missing |-> {}, ifNotExists |-> FALSE]

Row(s, d) == [site |-> s, db |-> d, status |-> "active"]

Rows == [site : Sites, db : Databases, status : {"active", "suspended"}]

\* Tenants::LookupBySiteKey
LookupBySiteKey(s) == {i \in 1 .. Len(tenants) : tenants[i].site = s}

\* Tenants::ListActive, in the order of the ids.
ListActive == SelectSeq(tenants, LAMBDA row : row.status = "active")

TypeOK ==
    /\ control \in {"absent", "empty", "ready"}
    /\ tenants \in Seq(Rows)
    /\ \A d \in Databases :
         /\ dbs[d].tables \subseteq FrameworkTables
         /\ dbs[d].bumped \in Nat
         /\ dbs[d].ids \in Seq(Ids)
         /\ {dbs[d].exists, dbs[d].schema, dbs[d].readonly, dbs[d].data} \subseteq BOOLEAN
         /\ ~dbs[d].exists => dbs[d] = Absent
         /\ ~dbs[d].schema => dbs[d].tables = {} /\ dbs[d].ids = <<>>
    /\ \A o \in Operators :
         op[o].pc \in {"idle", "countControl", "makeControl", "controlTables",
                       "check", "count", "make", "remake", "connect", "populate",
                       "record", "next", "apply", "commit"}
    /\ started \in 0 .. MaxCommands /\ faults \in 0 .. MaxFaults
    /\ forced \subseteq Databases

\* One tenant was installed long ago; any other database does not exist yet.
Init ==
    /\ control \in {"absent", "ready"}
    /\ LET s == CHOOSE x \in Sites : TRUE
           d == CHOOSE x \in Databases : TRUE IN
         /\ tenants = IF control = "ready" THEN <<Row(s, d)>> ELSE <<>>
         /\ dbs = [x \in Databases |->
                      IF control = "ready" /\ x = d THEN Old ELSE Absent]
    /\ op = [o \in Operators |-> Idle]
    /\ started = 0 /\ faults = 0
    /\ forced = {}

-------------------------------------------------------------------------------
(* Starting, ending and dying.                                             *)

Start(o, cmd) ==
    /\ op[o].pc = "idle"
    /\ started < MaxCommands
    /\ started' = started + 1
    /\ op' = [op EXCEPT ![o] = [cmd EXCEPT !.ifNotExists = op[o].ifNotExists]]
    /\ UNCHANGED <<control, tenants, dbs, faults, forced>>

Goto(o, pc) == op' = [op EXCEPT ![o].pc = pc]

\* The command returns or throws; the process-wide mode of CreateTable stays.
Ends(o) == op' = [op EXCEPT ![o] = [Idle EXCEPT !.ifNotExists = op[o].ifNotExists]]

\* The process dies, or a statement throws for a reason of its own (the server is
\* unreachable, the disk is full). An open transaction is rolled back. Only a
\* throw leaves the process, and so its mode, alive.
Aborts(o) ==
    /\ op[o].pc # "idle"
    /\ faults < MaxFaults
    /\ faults' = faults + 1
    /\ \/ op' = [op EXCEPT ![o] = Idle]
       \/ Ends(o)
    /\ UNCHANGED <<control, tenants, dbs, started, forced>>

\* Connections keep a database from being dropped.
InUse(d) == \E p \in Operators : op[p].db = d /\ op[p].pc \in {"populate", "apply", "commit"}

-------------------------------------------------------------------------------
(* EnsureControlDatabase                                                   *)

EnsureControlDatabase(o) == Start(o, [Idle EXCEPT !.pc = "countControl"])

CountControl(o) ==
    /\ op[o].pc = "countControl"
    /\ Goto(o, IF control = "absent" THEN "makeControl" ELSE "controlTables")
    /\ UNCHANGED <<control, tenants, dbs, started, faults, forced>>

\* CREATE DATABASE throws when another process was faster.
MakeControl(o) ==
    /\ op[o].pc = "makeControl"
    /\ IF control = "absent"
       THEN control' = "empty" /\ Goto(o, "controlTables")
       ELSE Ends(o) /\ UNCHANGED control
    /\ UNCHANGED <<tenants, dbs, started, faults, forced>>

\* SetIfNotExistsMode(true), then CREATE TABLE IF NOT EXISTS for each table, in
\* one transaction. A throw skips the reset of the mode.
CreateControlTables(o) ==
    /\ op[o].pc = "controlTables"
    /\ \/ control' = "ready" /\ Ends(o) /\ UNCHANGED faults
       \/ /\ faults < MaxFaults
          /\ faults' = faults + 1
          /\ op' = [op EXCEPT ![o] = [Idle EXCEPT !.ifNotExists = TRUE]]
          /\ UNCHANGED control
    /\ UNCHANGED <<tenants, dbs, started, forced>>

-------------------------------------------------------------------------------
(* ProvisionTenant                                                         *)

\* allowed: HONUWARE_ALLOW_DESTRUCTIVE is "1" in the operator's environment.
ProvisionTenant(o, s, d, force, allowed) ==
    /\ control = "ready"
    /\ allowed => force     \* the guard is consulted on the forced path only
    /\ Start(o, [Idle EXCEPT !.pc = "check", !.site = s, !.db = d,
                             !.force = force, !.allowed = allowed])

\* An existing site key is refused unless forced.
CheckSiteKey(o) ==
    /\ op[o].pc = "check"
    /\ IF LookupBySiteKey(op[o].site) # {} /\ ~op[o].force
       THEN Ends(o)
       ELSE Goto(o, "count")
    /\ UNCHANGED <<control, tenants, dbs, started, faults, forced>>

\* The pg_database check: create, recreate (behind the destructive guard) or throw.
CountDatabase(o) ==
    LET exists == dbs[op[o].db].exists IN
    /\ op[o].pc = "count"
    /\ IF ~exists THEN Goto(o, "make") /\ UNCHANGED forced
       ELSE IF op[o].force /\ op[o].allowed
       THEN Goto(o, "remake") /\ forced' = forced \cup {op[o].db}
       ELSE Ends(o) /\ UNCHANGED forced
    /\ UNCHANGED <<control, tenants, dbs, started, faults>>

\* Mutant: the existence check is dropped, CREATE becomes DROP and CREATE.
MakeDatabaseOver(o) ==
    /\ op[o].pc = "make"
    /\ dbs' = [dbs EXCEPT ![op[o].db] = Empty] /\ Goto(o, "connect")
    /\ UNCHANGED <<control, tenants, started, faults, forced>>

\* CREATE DATABASE: throws when the name is taken by now.
MakeDatabase(o) ==
    /\ op[o].pc = "make"
    /\ IF dbs[op[o].db].exists
       THEN Ends(o) /\ UNCHANGED dbs
       ELSE dbs' = [dbs EXCEPT ![op[o].db] = Empty] /\ Goto(o, "connect")
    /\ UNCHANGED <<control, tenants, started, faults, forced>>

\* Mutant: DROP DATABASE is followed by a write to the dropped database.
ClearDatabaseHalf(o) ==
    /\ op[o].pc = "remake"
    /\ dbs' = [dbs EXCEPT ![op[o].db].exists = FALSE] /\ Goto(o, "make")
    /\ UNCHANGED <<control, tenants, started, faults, forced>>

\* DROP DATABASE IF EXISTS: throws while someone is connected; then CREATE.
ClearDatabase(o) ==
    /\ op[o].pc = "remake"
    /\ IF InUse(op[o].db)
       THEN Ends(o) /\ UNCHANGED dbs
       ELSE dbs' = [dbs EXCEPT ![op[o].db] = Absent] /\ Goto(o, "make")
    /\ UNCHANGED <<control, tenants, started, faults, forced>>

\* MakeProductionDatabaseHelper connects, or throws when the database is gone.
ConnectToTenant(o) ==
    /\ op[o].pc = "connect"
    /\ IF dbs[op[o].db].exists THEN Goto(o, "populate") ELSE Ends(o)
    /\ UNCHANGED <<control, tenants, dbs, started, faults, forced>>

\* Mutant: the row is written before the schema is installed.
PopulateBecomesNoOp(o) ==
    /\ op[o].pc = "populate"
    /\ Goto(o, "record")
    /\ UNCHANGED <<control, tenants, dbs, started, faults, forced>>

\* createPopulate, the application's callback around CreateFrameworkTables and
\* PopulateFrameworkTables: one transaction.
CreatePopulate(o) ==
    /\ op[o].pc = "populate"
    /\ dbs' = [dbs EXCEPT ![op[o].db] = Fresh]
    /\ Goto(o, "record")
    /\ UNCHANGED <<control, tenants, started, faults, forced>>

\* The row is kept when it is there; else inserted, unless another row names the
\* same database (UNIQUE).
RecordTenant(o) ==
    /\ op[o].pc = "record"
    /\ Ends(o)
    /\ tenants' =
         IF LookupBySiteKey(op[o].site) # {} \/ \E i \in 1 .. Len(tenants) : tenants[i].db = op[o].db
         THEN tenants
         ELSE Append(tenants, Row(op[o].site, op[o].db))
    /\ UNCHANGED <<control, dbs, started, faults, forced>>

\* Tenants::SetStatus
SetStatus(i, status) ==
    /\ i \in 1 .. Len(tenants)
    /\ started < MaxCommands
    /\ started' = started + 1
    /\ tenants' = [tenants EXCEPT ![i].status = status]
    /\ UNCHANGED <<control, dbs, op, faults, forced>>

-------------------------------------------------------------------------------
(* MigrateAllTenants and RunMigrateCommand                                 *)

MigrateAllTenants(o) ==
    /\ control = "ready"
    /\ Start(o, [Idle EXCEPT !.pc = "next",
                     !.todo = [i \in 1 .. Len(ListActive) |-> ListActive[i].db]])

\* One deployment without tenants migrates the one database it is configured for.
RunMigrateCommand(o, d) ==
    /\ dbs[d].schema
    /\ Start(o, [Idle EXCEPT !.pc = "next", !.todo = <<d>>])

\* Mutant: a database that is gone is tried again and again.
MigrateNextRetries(o) ==
    /\ op[o].pc = "next"
    /\ IF op[o].todo # <<>> /\ dbs[Head(op[o].todo)].exists
       THEN op' = [op EXCEPT ![o].pc = "apply", ![o].next = 1,
                             ![o].db = Head(op[o].todo), ![o].todo = Tail(op[o].todo)]
       ELSE op[o].todo = <<>> /\ Ends(o)
    /\ UNCHANGED <<control, tenants, dbs, started, faults, forced>>

\* The next tenant of the list: connect to its database, or throw.
MigrateNext(o) ==
    /\ op[o].pc = "next"
    /\ IF op[o].todo # <<>> /\ dbs[Head(op[o].todo)].exists
       THEN op' = [op EXCEPT ![o].pc = "apply", ![o].next = 1,
                             ![o].db = Head(op[o].todo), ![o].todo = Tail(op[o].todo)]
       ELSE Ends(o)
    /\ UNCHANGED <<control, tenants, dbs, started, faults, forced>>

\* ApplyOne reads: skip what schema_migrations lists, else look for the table the
\* migration would create. A database without schema_migrations makes it throw.
ApplyOne(o) ==
    LET d  == op[o].db
        id == Migrations[op[o].next] IN
    /\ op[o].pc = "apply"
    /\ IF op[o].next > Len(Migrations)
       THEN Goto(o, "next")
       ELSE IF ~dbs[d].schema
       THEN Ends(o)
       ELSE IF \E i \in 1 .. Len(dbs[d].ids) : dbs[d].ids[i] = id
       THEN op' = [op EXCEPT ![o].next = @ + 1]
       ELSE op' = [op EXCEPT ![o].pc = "commit",
                             ![o].missing = CreatedBy(id) \ dbs[d].tables]
    /\ UNCHANGED <<control, tenants, dbs, started, faults, forced>>

\* Mutant: the flag of the role pickers is not cleared, tables are forgotten.
MigratedOnlyRecorded(db, id, missing) == [db EXCEPT !.ids = Append(@, id)]

\* What the migration leaves behind, its schema_migrations row included.
Migrated(db, id, missing) ==
    [db EXCEPT !.tables = @ \cup missing,
               !.readonly = @ /\ id # "0003_role_pickers",
               !.bumped = IF id = "app_0001" THEN @ + 1 ELSE @,
               !.ids = Append(@, id)]

\* Mutant: RecordApplied becomes an INSERT ... ON CONFLICT DO NOTHING.
RecordNeverConflicts(db, id) == FALSE

\* The primary key of schema_migrations.
RecordConflicts(db, id) == \E i \in 1 .. Len(db.ids) : db.ids[i] = id

\* CREATE TABLE throws when another runner made the table, unless the mode adds
\* IF NOT EXISTS.
CreateConflicts(o, db) == ~op[o].ifNotExists /\ op[o].missing \cap db.tables # {}

\* Mutant: a failed migration is logged and the runner goes on.
CommitOneContinues(o) ==
    LET d  == op[o].db
        id == Migrations[op[o].next] IN
    /\ op[o].pc = "commit"
    /\ \/ dbs' = [dbs EXCEPT ![d] = Migrated(@, id, op[o].missing)]
       \/ UNCHANGED dbs
    /\ op' = [op EXCEPT ![o].pc = "apply", ![o].next = @ + 1, ![o].missing = {}]
    /\ UNCHANGED <<control, tenants, started, faults, forced>>

\* The writes and the COMMIT; on a conflict everything of this migration is rolled
\* back, MigrationFailure leaves ApplyPending and no later tenant is touched.
CommitOne(o) ==
    LET d  == op[o].db
        id == Migrations[op[o].next] IN
    /\ op[o].pc = "commit"
    /\ IF \/ ~dbs[d].schema
          \/ CreateConflicts(o, dbs[d])
          \/ RecordConflicts(dbs[d], id)
       THEN Ends(o) /\ UNCHANGED dbs
       ELSE /\ dbs' = [dbs EXCEPT ![d] = Migrated(@, id, op[o].missing)]
            /\ op' = [op EXCEPT ![o].pc = "apply", ![o].next = @ + 1, ![o].missing = {}]
    /\ UNCHANGED <<control, tenants, started, faults, forced>>

\* The tenant's site is used: its database now holds something worth keeping.
TenantWrites(row) ==
    /\ row.status = "active"
    /\ dbs[row.db].schema
    /\ dbs' = [dbs EXCEPT ![row.db].data = TRUE]
    /\ UNCHANGED <<control, tenants, op, started, faults, forced>>

-------------------------------------------------------------------------------
Step(o) ==
    \/ CountControl(o) \/ MakeControl(o) \/ CreateControlTables(o)
    \/ CheckSiteKey(o) \/ CountDatabase(o) \/ MakeDatabase(o) \/ ClearDatabase(o)
    \/ ConnectToTenant(o) \/ CreatePopulate(o) \/ RecordTenant(o)
    \/ MigrateNext(o) \/ ApplyOne(o) \/ CommitOne(o)

Next ==
    \/ \E o \in Operators :
         \/ EnsureControlDatabase(o)
         \/ \E s \in Sites, d \in Databases, force, allowed \in BOOLEAN :
              ProvisionTenant(o, s, d, force, allowed)
         \/ MigrateAllTenants(o)
         \/ \E d \in Databases : RunMigrateCommand(o, d)
         \/ Step(o)
         \/ Aborts(o)
    \/ \E i \in 1 .. Len(tenants), status \in {"active", "suspended"} : SetStatus(i, status)
    \/ \E i \in 1 .. Len(tenants) : TenantWrites(tenants[i])

Spec == Init /\ [][Next]_vars

\* A command that has begun goes on.
FairSpec == Spec /\ \A o \in Operators : WF_vars(Step(o))

-------------------------------------------------------------------------------
(* Properties                                                              *)

\* A migration that schema_migrations lists is in effect, once, and one that is
\* not listed has not changed the database: two runners at once, a runner that
\* dies and one that is started again included (migration_runner.cpp:28).
RecordedMeansInEffect ==
    \A d \in Databases :
        LET listed(id) == \E i \in 1 .. Len(dbs[d].ids) : dbs[d].ids[i] = id IN
        /\ \A id \in Ids : listed(id) => CreatedBy(id) \subseteq dbs[d].tables
        /\ listed("0003_role_pickers") => ~dbs[d].readonly
        /\ dbs[d].bumped = IF listed("app_0001") THEN 1 ELSE 0

\* schema_migrations grows in the order of the list, one id at a time, and only a
\* rebuilt database starts again (migration_runner.cpp:38). Nothing is promised of
\* a database once a forced provisioning chose it: a runner that connects between
\* its CREATE DATABASE and its tables goes on where the old list ended.
History == INSTANCE MigrationHistory
           WITH history <- [d \in Databases |-> IF d \in forced THEN <<>> ELSE dbs[d].ids]

MigrationsInOrder == History!Spec

\* Nobody's data is lost by provisioning, migrating, dying and retrying, unless a
\* forced and allowed provisioning chose that database (provisioning.cpp:37).
DataLossNeedsForce ==
    [][\A d \in Databases : dbs[d].data /\ ~dbs'[d].data => d \in forced]_vars

\* An active tenant's database has its schema, whatever step a provisioning died
\* at, unless a forced one took it apart (provisioning.cpp:63, step 4 is last).
ActiveHasSchema ==
    \A i \in 1 .. Len(tenants) : tenants[i].db \in forced \/ dbs[tenants[i].db].schema

\* Every command returns or throws; no two of them wait for each other.
CommandsEnd == \A o \in Operators : op[o].pc # "idle" ~> op[o].pc = "idle"

\* Whatever step a command died at: a database holds what its schema_migrations
\* and its tenants row say.
DatabasesAreSound ==
  /\ TypeOK
  /\ RecordedMeansInEffect
  /\ ActiveHasSchema
===============================================================================
