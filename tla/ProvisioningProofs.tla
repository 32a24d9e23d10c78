-------------------------- MODULE ProvisioningProofs --------------------------
(***************************************************************************)
(* Provisioning for any number of operators, sites and databases and any   *)
(* bound on commands and faults: the databases are sound, data is lost     *)
(* only by force, and the migrations implement MigrationHistory.           *)
(***************************************************************************)
EXTENDS Provisioning, SequenceTheorems, TLAPS

-------------------------------------------------------------------------------
(* The inductive invariant                                                 *)

PCs == {"idle", "countControl", "makeControl", "controlTables", "check", "count",
        "make", "remake", "connect", "populate", "record", "next", "apply", "commit"}
Provisions == {"check", "count", "make", "remake", "connect", "populate", "record"}
Building == {"connect", "populate"}

DbType == [exists : BOOLEAN, schema : BOOLEAN, tables : SUBSET FrameworkTables,
           readonly : BOOLEAN, bumped : Nat, ids : Seq(Ids), data : BOOLEAN]

\* A command is a record of these fields. Of its list of databases nothing is
\* known and nothing is needed.
Fields == {"pc", "site", "db", "force", "allowed", "todo", "next", "missing", "ifNotExists"}

OpShape ==
  /\ op = [o \in Operators |-> op[o]]
  /\ \A o \in Operators :
       op[o] = [f \in Fields |-> op[o][f]]

StateType ==
  /\ control \in {"absent", "empty", "ready"}
  /\ tenants \in Seq(Rows)
  /\ dbs \in [Databases -> DbType]
  /\ OpShape
  /\ started \in 0 .. MaxCommands /\ faults \in 0 .. MaxFaults
  /\ forced \subseteq Databases

Listed(d, id) == \E i \in 1 .. Len(dbs[d].ids) : dbs[d].ids[i] = id

\* A database: what it lists is in effect, without a schema it holds nothing, and
\* unless it was forced it has the first migrations of the list.
DbSound(d) ==
  /\ ~dbs[d].exists => dbs[d] = Absent
  /\ ~dbs[d].schema => dbs[d].tables = {} /\ dbs[d].ids = <<>> /\ ~dbs[d].data
  /\ \A id \in Ids : Listed(d, id) => CreatedBy(id) \subseteq dbs[d].tables
  /\ Listed(d, "0003_role_pickers") => ~dbs[d].readonly
  /\ dbs[d].bumped = IF Listed(d, "app_0001") THEN 1 ELSE 0
  /\ d \notin forced =>
       /\ Len(dbs[d].ids) <= Len(Migrations)
       /\ \A i \in 1 .. Len(dbs[d].ids) : dbs[d].ids[i] = Migrations[i]

\* A provisioning command: its arguments, and what it may rely on. Unless it was
\* forced, a database is populated by the one command that made it, before anyone
\* else finds a schema in it; the row is written after that.
ProvisionSound(o) ==
  LET d == op[o].db IN
  /\ op[o].pc \in Provisions => op[o].site \in Sites /\ d \in Databases
  /\ op[o].pc = "remake" => d \in forced
  /\ op[o].pc = "populate" => dbs[d].exists
  /\ op[o].pc \in Building /\ d \notin forced =>
       /\ dbs[d].exists /\ ~dbs[d].schema
       /\ \A p \in Operators : p # o /\ op[p].db = d => op[p].pc \notin Building
  /\ op[o].pc = "record" /\ d \notin forced => dbs[d].schema

\* A runner: the database it is connected to is there, the table it found missing
\* is missing or was made by someone else, and unless the database was forced the
\* runner is at most one past the last migration listed.
RunnerSound(o) ==
  LET d == op[o].db IN
  /\ op[o].pc \in {"apply", "commit"} =>
       /\ op[o].next \in 1 .. Len(Migrations) + 1
       /\ d \in Databases => dbs[d].exists
       /\ d \in Databases \ forced => op[o].next - 1 <= Len(dbs[d].ids)
  /\ op[o].pc = "commit" =>
       /\ op[o].next \in 1 .. Len(Migrations)
       /\ op[o].missing \subseteq FrameworkTables
       /\ d \in Databases =>
            CreatedBy(Migrations[op[o].next]) \subseteq dbs[d].tables \cup op[o].missing

OpSound(o) == op[o].pc \in PCs /\ ProvisionSound(o) /\ RunnerSound(o)

Inv ==
  /\ StateType
  /\ \A d \in Databases : DbSound(d)
  /\ \A o \in Operators : OpSound(o)
  /\ ActiveHasSchema

-------------------------------------------------------------------------------
(* What a step does to the commands                                        *)

\* The fields of a command, for a step that writes all of them at once.
IsCommand(c) ==
  c = [f \in Fields |-> c[f]]

\* The command of one operator becomes c, every other one stays.
Becomes(o, c) ==
  /\ OpShape'
  /\ op'[o] = c
  /\ \A p \in Operators \ {o} : op'[p] = op[p]

LEMMA OpBecomes ==
  ASSUME OpShape, NEW o \in Operators, NEW c, IsCommand(c),
         op' = [op EXCEPT ![o] = c]
  PROVE  Becomes(o, c)
  BY DEF OpShape, IsCommand, Becomes

\* Goto changes the program counter only.
LEMMA GotoMoves ==
  ASSUME OpShape, NEW o \in Operators, NEW pc, Goto(o, pc)
  PROVE  Becomes(o, [op[o] EXCEPT !.pc = pc])
<1>1. op' = [op EXCEPT ![o] = [op[o] EXCEPT !.pc = pc]]
  BY DEF Goto, OpShape
<1>2. IsCommand([op[o] EXCEPT !.pc = pc])
  BY DEF OpShape, IsCommand, Fields
<1> QED
  BY <1>1, <1>2, OpBecomes

\* A command that ends leaves the operator idle.
LEMMA EndsIdle ==
  ASSUME OpShape, NEW o \in Operators, Ends(o)
  PROVE  \E c : Becomes(o, c) /\ c.pc = "idle" /\ c.db = NoValue
<1> DEFINE c == [Idle EXCEPT !.ifNotExists = op[o].ifNotExists]
<1>1. IsCommand(c) /\ c.pc = "idle" /\ c.db = NoValue
  BY DEF Idle, IsCommand, Fields
<1>2. op' = [op EXCEPT ![o] = c]
  BY DEF Ends
<1> HIDE DEF c
<1>3. Becomes(o, c)
  BY <1>1, <1>2, OpBecomes
<1> QED
  BY <1>1, <1>3

(***************************************************************************)
(* A step that leaves the databases alone keeps the invariant if the       *)
(* operator that moved and the rows are sound afterwards. More databases   *)
(* may be forced.                                                          *)
(***************************************************************************)
LEMMA OpAndRowsMove ==
  ASSUME Inv, NEW o \in Operators, NEW c, Becomes(o, c),
         UNCHANGED dbs, tenants' \in Seq(Rows), ActiveHasSchema',
         control' \in {"absent", "empty", "ready"},
         started' \in 0 .. MaxCommands, faults' \in 0 .. MaxFaults,
         forced \subseteq forced', forced' \subseteq Databases,
         OpSound(o)'
  PROVE  Inv'
<1>1. StateType'
  BY DEF Inv, StateType, Becomes
<1>2. \A d \in Databases : DbSound(d)'
  BY DEF Inv, DbSound, Listed
<1>3. ASSUME NEW p \in Operators, p # o PROVE OpSound(p)'
  <2>1. OpSound(p) /\ OpSound(o)' /\ op'[p] = op[p]
    BY <1>3 DEF Inv, Becomes
  <2>2. ProvisionSound(p)'
    BY <1>3, <2>1 DEF OpSound, ProvisionSound, Becomes, Building
  <2>3. RunnerSound(p)'
    BY <2>1 DEF OpSound, RunnerSound
  <2> QED
    BY <2>1, <2>2, <2>3 DEF OpSound
<1> QED
  BY <1>1, <1>2, <1>3 DEF Inv

LEMMA OnlyOpMoves ==
  ASSUME Inv, NEW o \in Operators, NEW c, Becomes(o, c),
         UNCHANGED <<tenants, dbs>>,
         control' \in {"absent", "empty", "ready"},
         started' \in 0 .. MaxCommands, faults' \in 0 .. MaxFaults,
         forced \subseteq forced', forced' \subseteq Databases,
         OpSound(o)'
  PROVE  Inv'
<1>1. ActiveHasSchema'
  BY DEF Inv, ActiveHasSchema
<1> QED
  BY <1>1, OpAndRowsMove DEF Inv, StateType

\* In particular when the operator is idle afterwards, or about to do something
\* that relies on nothing.
LEMMA MovesFreely ==
  ASSUME Inv, NEW o \in Operators, NEW c, Becomes(o, c),
         c.pc \in PCs \ {"remake", "connect", "populate", "record", "apply", "commit"},
         c.pc \in Provisions => c.site \in Sites /\ c.db \in Databases,
         UNCHANGED <<tenants, dbs, forced>>,
         control' \in {"absent", "empty", "ready"},
         started' \in 0 .. MaxCommands, faults' \in 0 .. MaxFaults
  PROVE  Inv'
<1>1. OpSound(o)'
  BY DEF OpSound, ProvisionSound, RunnerSound, Becomes, Building, Provisions, PCs
<1> QED
  BY <1>1, OnlyOpMoves DEF Inv, StateType

-------------------------------------------------------------------------------
(* Initial states and steps                                                *)

\* The contents a step may give a database as a whole.
LEMMA DbTypes == {Absent, Empty, Fresh, Old} \subseteq DbType
<1>1. Absent \in DbType
  <2>1. <<>> \in Seq(Ids)
    OBVIOUS
  <2> QED
    BY <2>1 DEF Absent, DbType
<1>2. Empty \in DbType
  BY <1>1 DEF Empty, DbType
<1>3. Fresh \in DbType
  BY <1>2 DEF Fresh, DbType
<1>4. Old \in DbType
  BY <1>3 DEF Old, DbType
<1> QED
  BY <1>1, <1>2, <1>3, <1>4

LEMMA InvInit == Init => Inv
<1> SUFFICES ASSUME Init PROVE Inv
  OBVIOUS
<1> DEFINE s == CHOOSE x \in Sites : TRUE
           d == CHOOSE x \in Databases : TRUE
<1>1. s \in Sites /\ d \in Databases
  BY ProvisioningAssumption
<1>2. /\ control \in {"absent", "ready"}
      /\ tenants = IF control = "ready" THEN <<Row(s, d)>> ELSE <<>>
      /\ dbs = [x \in Databases |-> IF control = "ready" /\ x = d THEN Old ELSE Absent]
  BY DEF Init
<1> HIDE DEF s, d
<1>3. Old \in DbType /\ Absent \in DbType
  BY DbTypes
<1>4. OpShape
  BY DEF Init, OpShape, Idle, Fields
<1>5. StateType
  <2>1. Row(s, d) \in Rows
    BY <1>1 DEF Row, Rows
  <2>2. tenants \in Seq(Rows)
    BY <1>2, <2>1
  <2> QED
    BY <1>2, <1>3, <1>4, <2>2, ProvisioningAssumption DEF Init, StateType
<1>6. ASSUME NEW x \in Databases PROVE DbSound(x)
  <2>1. dbs[x].ids = <<>> /\ ~Listed(x, "app_0001") /\ ~Listed(x, "0003_role_pickers")
        /\ \A id \in Ids : ~Listed(x, id)
    BY <1>2 DEF Listed, Old, Fresh, Empty, Absent
  <2> QED
    BY <1>2, <2>1 DEF DbSound, Old, Fresh, Empty, Absent, Migrations
<1>7. \A o \in Operators : OpSound(o)
  BY DEF Init, OpSound, ProvisionSound, RunnerSound, Idle, PCs, Provisions, Building
<1>8. ActiveHasSchema
  BY <1>1, <1>2 DEF ActiveHasSchema, Row, Old, Fresh, Empty, Absent
<1> QED
  BY <1>5, <1>6, <1>7, <1>8 DEF Inv

\* A command begins.
LEMMA StartKeeps ==
  ASSUME Inv, NEW o \in Operators, NEW cmd, IsCommand(cmd), Start(o, cmd),
         cmd.pc \in {"countControl", "check", "next"},
         cmd.pc = "check" => cmd.site \in Sites /\ cmd.db \in Databases
  PROVE  Inv'
<1> DEFINE c == [cmd EXCEPT !.ifNotExists = op[o].ifNotExists]
<1>1. /\ IsCommand(c) /\ c.pc = cmd.pc /\ c.site = cmd.site /\ c.db = cmd.db
      /\ op' = [op EXCEPT ![o] = c]
  BY DEF Start, IsCommand, Fields
<1> HIDE DEF c
<1>2. Becomes(o, c)
  BY <1>1, OpBecomes DEF Inv, StateType
<1>3. started' \in 0 .. MaxCommands
  BY ProvisioningAssumption DEF Start, Inv, StateType
<1> QED
  BY <1>1, <1>2, <1>3, MovesFreely DEF Start, Inv, StateType, PCs, Provisions

\* A command ends or dies.
LEMMA IdleKeeps ==
  ASSUME Inv, NEW o \in Operators, NEW c, Becomes(o, c), c.pc = "idle",
         UNCHANGED <<tenants, dbs, forced>>,
         control' \in {"absent", "empty", "ready"},
         started' \in 0 .. MaxCommands, faults' \in 0 .. MaxFaults
  PROVE  Inv'
  BY MovesFreely DEF PCs, Provisions

LEMMA EndsKeeps ==
  ASSUME Inv, NEW o \in Operators, Ends(o),
         UNCHANGED <<tenants, dbs, forced>>,
         control' \in {"absent", "empty", "ready"},
         started' \in 0 .. MaxCommands, faults' \in 0 .. MaxFaults
  PROVE  Inv'
  BY EndsIdle, IdleKeeps DEF Inv, StateType

LEMMA AbortsKeeps ==
  ASSUME Inv, NEW o \in Operators, Aborts(o)
  PROVE  Inv'
<1>1. /\ UNCHANGED <<tenants, dbs, forced>>
      /\ control' \in {"absent", "empty", "ready"}
      /\ started' \in 0 .. MaxCommands /\ faults' \in 0 .. MaxFaults
  BY ProvisioningAssumption DEF Aborts, Inv, StateType
<1>2. CASE op' = [op EXCEPT ![o] = Idle]
  <2>1. IsCommand(Idle) /\ Idle.pc = "idle"
    BY DEF IsCommand, Idle, Fields
  <2> QED
    BY <1>1, <1>2, <2>1, OpBecomes, IdleKeeps DEF Inv, StateType
<1>3. CASE Ends(o)
  BY <1>1, <1>3, EndsKeeps
<1> QED
  BY <1>2, <1>3 DEF Aborts

LEMMA GotoKeeps ==
  ASSUME Inv, NEW o \in Operators, NEW pc, Goto(o, pc),
         pc \in {"makeControl", "controlTables", "count", "make", "next"},
         pc \in Provisions => op[o].pc \in Provisions,
         UNCHANGED <<tenants, dbs, forced>>,
         control' \in {"absent", "empty", "ready"},
         started' \in 0 .. MaxCommands, faults' \in 0 .. MaxFaults
  PROVE  Inv'
<1> DEFINE c == [op[o] EXCEPT !.pc = pc]
<1>1. Becomes(o, c)
  BY GotoMoves DEF Inv, StateType
<1>2. c.pc = pc /\ c.site = op[o].site /\ c.db = op[o].db
  BY DEF Inv, StateType, OpShape, Fields
<1>3. pc \in Provisions => op[o].site \in Sites /\ op[o].db \in Databases
  BY DEF Inv, OpSound, ProvisionSound
<1> HIDE DEF c
<1> QED
  BY <1>1, <1>2, <1>3, MovesFreely DEF PCs

LEMMA EnsureControlKeeps ==
  ASSUME Inv, NEW o \in Operators,
         CountControl(o) \/ MakeControl(o) \/ CreateControlTables(o)
  PROVE  Inv'
<1> USE DEF Inv, StateType
<1>1. CASE CountControl(o)
  BY <1>1, GotoKeeps DEF CountControl, Provisions
<1>2. CASE MakeControl(o)
  BY <1>2, GotoKeeps, EndsKeeps DEF MakeControl, Provisions
<1>3. CASE CreateControlTables(o)
  <2>1. CASE control' = "ready" /\ Ends(o) /\ UNCHANGED faults
    BY <1>3, <2>1, EndsKeeps DEF CreateControlTables
  <2>2. CASE /\ faults < MaxFaults /\ faults' = faults + 1
             /\ op' = [op EXCEPT ![o] = [Idle EXCEPT !.ifNotExists = TRUE]]
             /\ UNCHANGED control
    <3> DEFINE c == [Idle EXCEPT !.ifNotExists = TRUE]
    <3>1. IsCommand(c) /\ c.pc = "idle"
      BY DEF IsCommand, Idle, Fields
    <3> HIDE DEF c
    <3>2. Becomes(o, c)
      BY <2>2, <3>1, OpBecomes DEF c
    <3>3. faults' \in 0 .. MaxFaults
      BY <2>2, ProvisioningAssumption
    <3> QED
      BY <1>3, <2>2, <3>1, <3>2, <3>3, IdleKeeps DEF CreateControlTables
  <2> QED
    BY <1>3, <2>1, <2>2 DEF CreateControlTables
<1> QED
  BY <1>1, <1>2, <1>3

LEMMA CheckKeeps ==
  ASSUME Inv, NEW o \in Operators, CheckSiteKey(o) \/ CountDatabase(o)
  PROVE  Inv'
<1> USE DEF Inv, StateType
<1>1. CASE CheckSiteKey(o)
  BY <1>1, GotoKeeps, EndsKeeps DEF CheckSiteKey, Provisions
<1>2. CASE CountDatabase(o)
  <2>1. CASE ~dbs[op[o].db].exists
    BY <1>2, <2>1, GotoKeeps DEF CountDatabase, Provisions
  <2>2. CASE dbs[op[o].db].exists /\ ~(op[o].force /\ op[o].allowed)
    BY <1>2, <2>2, EndsKeeps DEF CountDatabase
  <2>3. CASE dbs[op[o].db].exists /\ op[o].force /\ op[o].allowed
    <3> DEFINE c == [op[o] EXCEPT !.pc = "remake"]
    <3>1. Becomes(o, c) /\ forced' = forced \cup {op[o].db}
      BY <1>2, <2>3, GotoMoves DEF CountDatabase
    <3>2. c.pc = "remake" /\ c.site = op[o].site /\ c.db = op[o].db
      BY DEF OpShape, Fields
    <3>3. op[o].site \in Sites /\ op[o].db \in Databases
      BY <1>2 DEF CountDatabase, OpSound, ProvisionSound, Provisions
    <3> HIDE DEF c
    <3>4. OpSound(o)'
      BY <3>1, <3>2, <3>3
      DEF OpSound, ProvisionSound, RunnerSound, Becomes, PCs, Provisions, Building
    <3> QED
      BY <1>2, <3>1, <3>3, <3>4, OnlyOpMoves DEF CountDatabase
  <2> QED
    BY <2>1, <2>2, <2>3
<1> QED
  BY <1>1, <1>2

(***************************************************************************)
(* A step that rewrites one database keeps the invariant if that database  *)
(* and the commands that are about it are sound afterwards, and it takes a *)
(* schema away from a forced database only.                                *)
(***************************************************************************)
LEMMA OneDatabaseMoves ==
  ASSUME Inv, NEW d \in Databases, NEW new \in DbType,
         dbs' = [dbs EXCEPT ![d] = new],
         OpShape', UNCHANGED <<control, tenants, started, faults, forced>>,
         \A p \in Operators : op'[p] = op[p] \/ op'[p].db = d,
         DbSound(d)',
         \A p \in Operators : op'[p].db = d => OpSound(p)',
         d \in forced \/ (dbs[d].schema => new.schema)
  PROVE  Inv'
<1>1. StateType'
  BY DEF Inv, StateType
<1>2. \A e \in Databases \ {d} : dbs'[e] = dbs[e]
  BY DEF Inv, StateType
<1>3. dbs'[d] = new
  BY DEF Inv, StateType
<1>4. ASSUME NEW e \in Databases PROVE DbSound(e)'
  <2>1. CASE e = d
    BY <2>1
  <2>2. CASE e # d
    BY <1>2, <2>2 DEF Inv, DbSound, Listed
  <2> QED
    BY <2>1, <2>2
<1>5. ASSUME NEW p \in Operators PROVE OpSound(p)'
  <2>1. CASE op'[p].db = d
    BY <2>1
  <2>2. CASE op'[p].db # d
    <3>1. OpSound(p) /\ op'[p] = op[p]
      BY <2>2 DEF Inv
    <3>2. op[p].db \in Databases => dbs'[op[p].db] = dbs[op[p].db]
      BY <1>2, <2>2, <3>1
    <3>3. \A q \in Operators : op'[q].db = op[p].db => op'[q] = op[q]
      BY <2>2, <3>1
    <3>4. ProvisionSound(p)'
      BY <3>1, <3>2, <3>3 DEF OpSound, ProvisionSound, Provisions, Building
    <3>5. RunnerSound(p)'
      BY <3>1, <3>2 DEF OpSound, RunnerSound
    <3> QED
      BY <3>1, <3>4, <3>5 DEF OpSound
  <2> QED
    BY <2>1, <2>2
<1>6. ActiveHasSchema'
  <2> SUFFICES ASSUME NEW i \in 1 .. Len(tenants), tenants[i].db \notin forced
               PROVE  dbs'[tenants[i].db].schema
    BY DEF ActiveHasSchema
  <2>1. tenants[i].db \in Databases /\ dbs[tenants[i].db].schema
    <3>1. tenants[i] \in Rows
      BY DEF Inv, StateType
    <3> QED
      BY <3>1 DEF Inv, ActiveHasSchema, Rows
  <2> QED
    BY <1>2, <1>3, <2>1
<1> QED
  BY <1>1, <1>4, <1>5, <1>6 DEF Inv

\* A database as a command makes or leaves it lists nothing, and is sound.
LEMMA NewIsSound ==
  ASSUME NEW d \in Databases, dbs'[d] \in {Absent, Empty, Fresh}
  PROVE  DbSound(d)'
<1>1. /\ dbs'[d].ids = <<>> /\ dbs'[d].bumped = 0 /\ ~dbs'[d].readonly /\ ~dbs'[d].data
      /\ ~dbs'[d].exists => dbs'[d] = Absent
      /\ ~dbs'[d].schema => dbs'[d].tables = {}
  <2>1. CASE dbs'[d] = Absent
    BY <2>1 DEF Absent
  <2>2. CASE dbs'[d] = Empty
    BY <2>2 DEF Absent, Empty
  <2>3. CASE dbs'[d] = Fresh
    BY <2>3 DEF Absent, Empty, Fresh
  <2> QED
    BY <2>1, <2>2, <2>3
<1>2. \A id : ~Listed(d, id)'
  BY <1>1 DEF Listed
<1> QED
  BY <1>1, <1>2 DEF DbSound, Migrations

\* CREATE DATABASE: nobody is connected to, or relies on, a database that is not
\* there.
LEMMA MakeKeeps ==
  ASSUME Inv, NEW o \in Operators, MakeDatabase(o)
  PROVE  Inv'
<1>1. PICK d \in Databases : op[o].db = d /\ op[o].pc = "make" /\ op[o].site \in Sites
  BY DEF MakeDatabase, Inv, OpSound, ProvisionSound, Provisions
<1>2. CASE dbs[d].exists
  BY <1>1, <1>2, EndsKeeps DEF MakeDatabase, Inv, StateType
<1>3. CASE ~dbs[d].exists
  <2>1. dbs' = [dbs EXCEPT ![d] = Empty] /\ Goto(o, "connect")
        /\ UNCHANGED <<control, tenants, started, faults, forced>>
    BY <1>1, <1>3 DEF MakeDatabase
  <2> DEFINE c == [op[o] EXCEPT !.pc = "connect"]
  <2>2. Becomes(o, c)
    BY <2>1, GotoMoves DEF Inv, StateType
  <2>3. c.pc = "connect" /\ c.site = op[o].site /\ c.db = d
    BY <1>1 DEF Inv, StateType, OpShape, Fields
  <2> HIDE DEF c
  <2>4. dbs'[d] = Empty /\ Empty \in DbType
    BY <1>1, <2>1, DbTypes DEF Inv, StateType
  <2>5. DbSound(d)'
    BY <2>4, NewIsSound
  <2>6. dbs[d].schema = FALSE
    BY <1>1, <1>3 DEF Inv, DbSound, Absent
  <2>7. ASSUME NEW p \in Operators, p # o, op[p].db = d PROVE OpSound(p)'
    <3>1. OpSound(p) /\ op'[p] = op[p]
      BY <2>2, <2>7 DEF Inv, Becomes
    <3>2. op[p].pc \notin {"populate", "apply", "commit"}
          /\ (op[p].pc \in Building \cup {"record"} => d \in forced)
      BY <1>1, <1>3, <2>6, <2>7, <3>1
      DEF OpSound, ProvisionSound, RunnerSound, Building
    <3> QED
      BY <2>1, <2>7, <3>1, <3>2
      DEF OpSound, ProvisionSound, RunnerSound, Building
  <2>8. OpSound(o)'
    <3>1. ASSUME NEW p \in Operators, p # o, op[p].db = d, d \notin forced
          PROVE  op'[p].pc \notin Building
      <4>1. op'[p] = op[p] /\ OpSound(p)
        BY <2>2, <3>1 DEF Becomes, Inv
      <4> QED
        BY <1>3, <3>1, <4>1 DEF OpSound, ProvisionSound
    <3>2. op'[o].pc = "connect" /\ op'[o].site \in Sites /\ op'[o].db = d
      BY <1>1, <2>2, <2>3 DEF Becomes
    <3>3. dbs'[d].exists /\ ~dbs'[d].schema
      BY <2>4 DEF Empty, Absent
    <3>4. \A p \in Operators : p # o => op'[p] = op[p]
      BY <2>2 DEF Becomes
    <3> QED
      BY <1>1, <2>1, <3>1, <3>2, <3>3, <3>4
      DEF OpSound, ProvisionSound, RunnerSound, PCs, Provisions, Building
  <2>9. OpShape' /\ \A p \in Operators : p # o => op'[p] = op[p]
    BY <2>2 DEF Becomes
  <2>10. op'[o].db = d
    BY <2>2, <2>3 DEF Becomes
  <2> QED
    BY <1>1, <2>1, <2>4, <2>5, <2>6, <2>7, <2>8, <2>9, <2>10, OneDatabaseMoves
<1> QED
  BY <1>2, <1>3

\* DROP DATABASE: only a forced provisioning gets here, and nobody is connected.
LEMMA ClearKeeps ==
  ASSUME Inv, NEW o \in Operators, ClearDatabase(o)
  PROVE  Inv'
<1>1. PICK d \in Databases : /\ op[o].db = d /\ op[o].pc = "remake"
                             /\ op[o].site \in Sites /\ d \in forced
  BY DEF ClearDatabase, Inv, OpSound, ProvisionSound, Provisions
<1>2. CASE InUse(d)
  BY <1>1, <1>2, EndsKeeps DEF ClearDatabase, Inv, StateType
<1>3. CASE ~InUse(d)
  <2>1. dbs' = [dbs EXCEPT ![d] = Absent] /\ Goto(o, "make")
        /\ UNCHANGED <<control, tenants, started, faults, forced>>
    BY <1>1, <1>3 DEF ClearDatabase
  <2> DEFINE c == [op[o] EXCEPT !.pc = "make"]
  <2>2. Becomes(o, c)
    BY <2>1, GotoMoves DEF Inv, StateType
  <2>3. c.pc = "make" /\ c.site = op[o].site /\ c.db = d
    BY <1>1 DEF Inv, StateType, OpShape, Fields
  <2> HIDE DEF c
  <2>4. dbs'[d] = Absent /\ Absent \in DbType
    BY <1>1, <2>1, DbTypes DEF Inv, StateType
  <2>5. DbSound(d)'
    BY <2>4, NewIsSound
  <2>6. ASSUME NEW p \in Operators, p # o, op[p].db = d PROVE OpSound(p)'
    <3>1. OpSound(p) /\ op'[p] = op[p]
      BY <2>2, <2>6 DEF Inv, Becomes
    <3>2. op[p].pc \notin {"populate", "apply", "commit"}
      BY <1>3, <2>6 DEF InUse
    <3> QED
      BY <1>1, <2>1, <2>6, <3>1, <3>2
      DEF OpSound, ProvisionSound, RunnerSound, Building
  <2>7. OpSound(o)'
    <3>1. op'[o].pc = "make" /\ op'[o].site \in Sites /\ op'[o].db = d
      BY <1>1, <2>2, <2>3 DEF Becomes
    <3> QED
      BY <1>1, <3>1 DEF OpSound, ProvisionSound, RunnerSound, PCs, Provisions, Building
  <2>8. /\ OpShape' /\ \A p \in Operators : p # o => op'[p] = op[p]
        /\ op'[o].db = d
    BY <2>2, <2>3 DEF Becomes
  <2> QED
    BY <1>1, <2>1, <2>4, <2>5, <2>6, <2>7, <2>8, OneDatabaseMoves
<1> QED
  BY <1>2, <1>3

LEMMA ConnectKeeps ==
  ASSUME Inv, NEW o \in Operators, ConnectToTenant(o)
  PROVE  Inv'
<1>1. PICK d \in Databases : op[o].db = d /\ op[o].pc = "connect" /\ op[o].site \in Sites
  BY DEF ConnectToTenant, Inv, OpSound, ProvisionSound, Provisions
<1>2. CASE ~dbs[d].exists
  BY <1>1, <1>2, EndsKeeps DEF ConnectToTenant, Inv, StateType
<1>3. CASE dbs[d].exists
  <2>1. Goto(o, "populate") /\ UNCHANGED <<control, tenants, dbs, started, faults, forced>>
    BY <1>1, <1>3 DEF ConnectToTenant
  <2> DEFINE c == [op[o] EXCEPT !.pc = "populate"]
  <2>2. Becomes(o, c)
    BY <2>1, GotoMoves DEF Inv, StateType
  <2>3. c.pc = "populate" /\ c.site = op[o].site /\ c.db = d
    BY <1>1 DEF Inv, StateType, OpShape, Fields
  <2> HIDE DEF c
  <2>4. OpSound(o) /\ op'[o] = c /\ \A p \in Operators : p # o => op'[p] = op[p]
    BY <2>2 DEF Inv, Becomes
  <2>5. ProvisionSound(o)'
    BY <1>1, <1>3, <2>1, <2>3, <2>4 DEF OpSound, ProvisionSound, Provisions, Building
  <2>6. OpSound(o)'
    BY <2>3, <2>4, <2>5 DEF OpSound, RunnerSound, PCs
  <2> QED
    BY <2>1, <2>2, <2>6, OnlyOpMoves DEF Inv, StateType
<1> QED
  BY <1>2, <1>3

\* createPopulate: unless the database was forced this is its first schema, so
\* every runner connected to it is at the first migration.
LEMMA PopulateKeeps ==
  ASSUME Inv, NEW o \in Operators, CreatePopulate(o)
  PROVE  Inv'
<1>1. PICK d \in Databases : op[o].db = d /\ op[o].pc = "populate" /\ op[o].site \in Sites
  BY DEF CreatePopulate, Inv, OpSound, ProvisionSound, Provisions
<1>2. dbs' = [dbs EXCEPT ![d] = Fresh] /\ Goto(o, "record")
      /\ UNCHANGED <<control, tenants, started, faults, forced>>
  BY <1>1 DEF CreatePopulate
<1> DEFINE c == [op[o] EXCEPT !.pc = "record"]
<1>3. Becomes(o, c)
  BY <1>2, GotoMoves DEF Inv, StateType
<1>4. c.pc = "record" /\ c.site = op[o].site /\ c.db = d
  BY <1>1 DEF Inv, StateType, OpShape, Fields
<1> HIDE DEF c
<1>5. dbs'[d] = Fresh /\ Fresh \in DbType
  BY <1>1, <1>2, DbTypes DEF Inv, StateType
<1>6. /\ dbs'[d].exists /\ dbs'[d].schema
      /\ dbs'[d].tables = FrameworkTables /\ dbs'[d].ids = <<>>
  BY <1>5 DEF Fresh, Empty, Absent
<1>7. DbSound(d)'
  BY <1>5, NewIsSound
<1>8. d \notin forced => dbs[d].ids = <<>>
  BY <1>1 DEF Inv, OpSound, ProvisionSound, Building, DbSound
<1>9. ASSUME NEW p \in Operators, p # o, op[p].db = d PROVE OpSound(p)'
  <2>1. OpSound(p) /\ op'[p] = op[p]
    BY <1>3, <1>9 DEF Inv, Becomes
  <2>2. d \notin forced => op[p].pc \notin Building
    BY <1>1, <1>9 DEF Inv, OpSound, ProvisionSound, Building
  <2>3. ProvisionSound(p)'
    BY <1>2, <1>6, <1>9, <2>1, <2>2 DEF OpSound, ProvisionSound
  <2>4. \A i : CreatedBy(Migrations[i]) \subseteq FrameworkTables
    BY DEF CreatedBy, FrameworkTables
  <2>5. RunnerSound(p)'
    BY <1>2, <1>6, <1>8, <1>9, <2>1, <2>4 DEF OpSound, RunnerSound
  <2> QED
    BY <2>1, <2>3, <2>5 DEF OpSound
<1>10. OpSound(o)'
  <2>1. op'[o].pc = "record" /\ op'[o].site \in Sites /\ op'[o].db = d
    BY <1>1, <1>3, <1>4 DEF Becomes
  <2> QED
    BY <1>6, <2>1 DEF OpSound, ProvisionSound, RunnerSound, PCs, Provisions, Building
<1>11. /\ OpShape' /\ \A p \in Operators : p # o => op'[p] = op[p]
       /\ op'[o].db = d
  BY <1>3, <1>4 DEF Becomes
<1>12. Fresh.schema /\ \A p \in Operators : op'[p].db = d => OpSound(p)'
  BY <1>5, <1>6, <1>9, <1>10, <1>11
<1> QED
  BY <1>2, <1>5, <1>7, <1>11, <1>12, OneDatabaseMoves

\* The row comes last: the database it names has its schema, or was forced.
LEMMA RecordKeeps ==
  ASSUME Inv, NEW o \in Operators, RecordTenant(o)
  PROVE  Inv'
<1>1. PICK d \in Databases : op[o].db = d /\ op[o].pc = "record" /\ op[o].site \in Sites
  BY DEF RecordTenant, Inv, OpSound, ProvisionSound, Provisions
<1>2. d \in forced \/ dbs[d].schema
  BY <1>1 DEF Inv, OpSound, ProvisionSound
<1> DEFINE row == Row(op[o].site, d)
<1>3. row \in Rows /\ row.db = d
  BY <1>1 DEF Row, Rows
<1>4. tenants' = tenants \/ tenants' = Append(tenants, row)
  BY <1>1 DEF RecordTenant
<1> HIDE DEF row
<1>5. PICK c : Becomes(o, c) /\ c.pc = "idle"
  BY EndsIdle DEF RecordTenant, Inv, StateType
<1>6. tenants' \in Seq(Rows)
  BY <1>3, <1>4 DEF Inv, StateType
<1>7. ActiveHasSchema'
  <2>1. CASE tenants' = tenants
    BY <2>1 DEF Inv, ActiveHasSchema, RecordTenant
  <2>2. CASE tenants' = Append(tenants, row)
    <3> SUFFICES ASSUME NEW i \in 1 .. Len(tenants')
                 PROVE  tenants'[i].db \in forced \/ dbs[tenants'[i].db].schema
      BY DEF ActiveHasSchema, RecordTenant
    <3>1. tenants \in Seq(Rows)
      BY DEF Inv, StateType
    <3>2. i = Len(tenants) + 1 \/ i \in 1 .. Len(tenants)
      BY <2>2, <3>1
    <3>3. CASE i = Len(tenants) + 1
      BY <1>2, <1>3, <2>2, <3>1, <3>3
    <3>4. CASE i \in 1 .. Len(tenants)
      <4>1. tenants'[i] = tenants[i]
        BY <2>2, <3>1, <3>4
      <4> QED
        BY <3>4, <4>1 DEF Inv, ActiveHasSchema
    <3> QED
      BY <3>2, <3>3, <3>4
  <2> QED
    BY <1>4, <2>1, <2>2
<1>8. OpSound(o)'
  BY <1>5 DEF Becomes, OpSound, ProvisionSound, RunnerSound, PCs, Provisions, Building
<1> QED
  BY <1>5, <1>6, <1>7, <1>8, OpAndRowsMove DEF RecordTenant, Inv, StateType

LEMMA SetStatusKeeps ==
  ASSUME Inv, NEW i \in 1 .. Len(tenants), NEW status \in {"active", "suspended"},
         SetStatus(i, status)
  PROVE  Inv'
<1>1. tenants \in Seq(Rows) /\ tenants' = [tenants EXCEPT ![i].status = status]
  BY DEF Inv, StateType, SetStatus
<1>2. /\ Len(tenants') = Len(tenants) /\ tenants' \in Seq(Rows)
      /\ \A j \in 1 .. Len(tenants) : tenants'[j].db = tenants[j].db
  <2> DEFINE row == [tenants[i] EXCEPT !.status = status]
  <2>0. tenants[i] \in Rows
    BY <1>1
  <2>1. row \in Rows /\ row.db = tenants[i].db
    BY <2>0 DEF Rows
  <2>2. tenants' = [tenants EXCEPT ![i] = row]
    BY <1>1
  <2> HIDE DEF row
  <2>3. /\ tenants' \in Seq(Rows) /\ Len(tenants') = Len(tenants)
        /\ \A j \in 1 .. Len(tenants) : tenants'[j] = IF j = i THEN row ELSE tenants[j]
    BY <1>1, <2>1, <2>2, ExceptSeq
  <2> QED
    BY <2>1, <2>3
<1>3. started' \in 0 .. MaxCommands
  BY ProvisioningAssumption DEF SetStatus, Inv, StateType
<1>4. UNCHANGED <<control, dbs, op, faults, forced>>
  BY DEF SetStatus
<1>5. StateType'
  BY <1>2, <1>3, <1>4 DEF Inv, StateType, OpShape
<1>6. \A d \in Databases : DbSound(d)'
  BY <1>4 DEF Inv, DbSound, Listed
<1>7. \A o \in Operators : OpSound(o)'
  BY <1>4 DEF Inv, OpSound, ProvisionSound, RunnerSound
<1>8. ActiveHasSchema'
  BY <1>2, <1>4 DEF Inv, ActiveHasSchema
<1> QED
  BY <1>5, <1>6, <1>7, <1>8 DEF Inv

LEMMA WritesKeeps ==
  ASSUME Inv, NEW i \in 1 .. Len(tenants), TenantWrites(tenants[i])
  PROVE  Inv'
<1>1. PICK d \in Databases : tenants[i].db = d
  <2>1. tenants[i] \in Rows
    BY DEF Inv, StateType
  <2> QED
    BY <2>1 DEF Rows
<1> DEFINE new == [dbs[d] EXCEPT !.data = TRUE]
<1>2. /\ dbs[d] \in DbType /\ dbs[d].schema
      /\ dbs' = [dbs EXCEPT ![d] = new]
      /\ UNCHANGED <<control, tenants, op, started, faults, forced>>
  BY <1>1 DEF Inv, StateType, TenantWrites
<1>3. /\ new \in DbType /\ new.exists = dbs[d].exists /\ new.schema = dbs[d].schema
      /\ new.tables = dbs[d].tables /\ new.ids = dbs[d].ids
      /\ new.bumped = dbs[d].bumped /\ new.readonly = dbs[d].readonly
  BY <1>2 DEF DbType
<1> HIDE DEF new
<1>4. dbs'[d] = new
  BY <1>2 DEF Inv, StateType
<1>5. DbSound(d) /\ dbs[d].exists
  BY <1>2 DEF Inv, DbSound, Absent
<1>6. DbSound(d)'
  <2>1. \A id : Listed(d, id)' <=> Listed(d, id)
    BY <1>3, <1>4 DEF Listed
  <2>2. dbs'[d].exists /\ dbs'[d].schema /\ (dbs'[d].readonly => dbs[d].readonly)
    BY <1>2, <1>3, <1>4, <1>5
  <2> QED
    BY <1>2, <1>3, <1>4, <1>5, <2>1, <2>2 DEF DbSound
<1>7. ASSUME NEW p \in Operators, op'[p].db = d PROVE OpSound(p)'
  <2>1. OpSound(p)
    BY DEF Inv
  <2> QED
    BY <1>2, <1>3, <1>4, <1>7, <2>1 DEF OpSound, ProvisionSound, RunnerSound
<1>8. OpShape' /\ \A p \in Operators : op'[p] = op[p]
  BY <1>2 DEF Inv, StateType, OpShape
<1>9. new \in DbType /\ (dbs[d].schema => new.schema)
  BY <1>3
<1> QED
  BY <1>2, <1>6, <1>7, <1>8, <1>9, OneDatabaseMoves

LEMMA MigrateNextKeeps ==
  ASSUME Inv, NEW o \in Operators, MigrateNext(o)
  PROVE  Inv'
<1> DEFINE d == Head(op[o].todo)
<1>1. CASE ~(op[o].todo # <<>> /\ dbs[d].exists)
  BY <1>1, EndsKeeps DEF MigrateNext, Inv, StateType
<1>2. CASE op[o].todo # <<>> /\ dbs[d].exists
  <2> DEFINE c == [op[o] EXCEPT !.pc = "apply", !.next = 1, !.db = d, !.todo = Tail(op[o].todo)]
  <2>1. OpShape
    BY DEF Inv, StateType
  <2>2. op' = [op EXCEPT ![o] = c]
    BY <1>2, <2>1 DEF MigrateNext, OpShape, Fields
  <2>3. IsCommand(c) /\ c.pc = "apply" /\ c.next = 1 /\ c.db = d
    BY <2>1 DEF OpShape, IsCommand, Fields
  <2> HIDE DEF c
  <2>4. Becomes(o, c)
    BY <2>1, <2>2, <2>3, OpBecomes
  <2>5. \A e \in Databases : Len(dbs[e].ids) \in Nat
    BY DEF Inv, StateType, DbType
  <2>6. UNCHANGED <<control, tenants, dbs, started, faults, forced>>
    BY DEF MigrateNext
  <2> HIDE DEF d
  <2>7. PICK e : e = d
    OBVIOUS
  <2>8. op'[o].pc = "apply" /\ op'[o].next = 1 /\ op'[o].db = e
    BY <2>3, <2>4, <2>7 DEF Becomes
  <2>9. RunnerSound(o)'
    BY <1>2, <2>5, <2>6, <2>7, <2>8 DEF RunnerSound, Migrations
  <2>10. OpSound(o)'
    BY <2>8, <2>9 DEF OpSound, ProvisionSound, Provisions, Building, PCs
  <2> QED
    BY <2>4, <2>6, <2>10, OnlyOpMoves DEF Inv, StateType
<1> QED
  BY <1>1, <1>2

\* A migration that is skipped is listed, so the runner stays at most one past the
\* last one listed; one that is not gets its table from this runner or has it.
LEMMA ApplyKeeps ==
  ASSUME Inv, NEW o \in Operators, ApplyOne(o)
  PROVE  Inv'
<1>1. PICK d : d = op[o].db
  OBVIOUS
<1>2. PICK n \in 1 .. 5 : n = op[o].next
  BY DEF ApplyOne, Inv, OpSound, RunnerSound, Migrations
<1>3. /\ op[o].pc = "apply" /\ OpShape
      /\ UNCHANGED <<control, tenants, dbs, started, faults, forced>>
      /\ d \in Databases => dbs[d].exists
      /\ d \in Databases \ forced => n - 1 <= Len(dbs[d].ids)
      /\ d \in Databases => DbSound(d) /\ dbs[d] \in DbType
  BY <1>1, <1>2 DEF ApplyOne, Inv, OpSound, RunnerSound, StateType
<1>4. CASE n > Len(Migrations)
  BY <1>2, <1>3, <1>4, GotoKeeps DEF ApplyOne, Inv, StateType, Provisions
<1>5. CASE n <= Len(Migrations) /\ ~dbs[d].schema
  BY <1>1, <1>2, <1>3, <1>5, EndsKeeps DEF ApplyOne, Inv, StateType, Migrations
<1>6. CASE /\ n <= Len(Migrations) /\ dbs[d].schema
           /\ \E i \in 1 .. Len(dbs[d].ids) : dbs[d].ids[i] = Migrations[n]
  <2> DEFINE c == [op[o] EXCEPT !.next = n + 1]
  <2>1. op' = [op EXCEPT ![o] = c]
    BY <1>1, <1>2, <1>3, <1>6 DEF ApplyOne, OpShape, Fields, Migrations
  <2>2. IsCommand(c) /\ c.pc = "apply" /\ c.next = n + 1 /\ c.db = d
    BY <1>1, <1>3 DEF OpShape, IsCommand, Fields
  <2> HIDE DEF c
  <2>3. Becomes(o, c)
    BY <1>3, <2>1, <2>2, OpBecomes
  <2>4. op'[o].pc = "apply" /\ op'[o].next = n + 1 /\ op'[o].db = d
    BY <2>2, <2>3 DEF Becomes
  <2>5. n + 1 \in 1 .. Len(Migrations) + 1 /\ n \in 1 .. 4
    BY <1>6 DEF Migrations
  <2>6. d \in Databases \ forced => n <= Len(dbs[d].ids)
    <3> SUFFICES ASSUME d \in Databases, d \notin forced PROVE n <= Len(dbs[d].ids)
      OBVIOUS
    <3>1. PICK i \in 1 .. Len(dbs[d].ids) : dbs[d].ids[i] = Migrations[n]
      BY <1>6
    <3>2. /\ Len(dbs[d].ids) \in Nat /\ Len(dbs[d].ids) <= 4
          /\ dbs[d].ids[i] = Migrations[i]
      BY <1>3 DEF DbSound, DbType, Migrations
    <3>3. i \in 1 .. 4 /\ Migrations[i] = Migrations[n]
      BY <3>1, <3>2
    <3>4. i = n
      BY <2>5, <3>3 DEF Migrations
    <3> QED
      BY <3>1, <3>2, <3>4
  <2>7. RunnerSound(o)'
    BY <1>3, <2>4, <2>5, <2>6 DEF RunnerSound
  <2>8. OpSound(o)'
    BY <2>4, <2>7 DEF OpSound, ProvisionSound, Provisions, Building, PCs
  <2> QED
    BY <1>3, <2>3, <2>8, OnlyOpMoves DEF Inv, StateType
<1>7. CASE /\ n <= Len(Migrations) /\ dbs[d].schema
           /\ ~\E i \in 1 .. Len(dbs[d].ids) : dbs[d].ids[i] = Migrations[n]
  <2>0. PICK m : m = CreatedBy(Migrations[n]) \ dbs[d].tables
    OBVIOUS
  <2> DEFINE c == [op[o] EXCEPT !.pc = "commit", !.missing = m]
  <2>1. op' = [op EXCEPT ![o] = c]
    BY <1>1, <1>2, <1>3, <1>7, <2>0 DEF ApplyOne, OpShape, Fields, Migrations
  <2>2. IsCommand(c) /\ c.pc = "commit" /\ c.next = n /\ c.db = d /\ c.missing = m
    BY <1>1, <1>2, <1>3 DEF OpShape, IsCommand, Fields
  <2>3. m \subseteq FrameworkTables
    BY <2>0 DEF CreatedBy, FrameworkTables
  <2> HIDE DEF c
  <2>4. Becomes(o, c)
    BY <1>3, <2>1, <2>2, OpBecomes
  <2>5. op'[o].pc = "commit" /\ op'[o].next = n /\ op'[o].db = d /\ op'[o].missing = m
    BY <2>2, <2>4 DEF Becomes
  <2>6. n \in 1 .. Len(Migrations) /\ n \in 1 .. Len(Migrations) + 1
    BY <1>7 DEF Migrations
  <2>7. RunnerSound(o)'
    BY <1>3, <2>0, <2>3, <2>5, <2>6 DEF RunnerSound
  <2>8. OpSound(o)'
    BY <2>5, <2>7 DEF OpSound, ProvisionSound, Provisions, Building, PCs
  <2> QED
    BY <1>3, <2>4, <2>8, OnlyOpMoves DEF Inv, StateType
<1>8. Len(Migrations) \in Nat
  BY DEF Migrations
<1> QED
  BY <1>4, <1>5, <1>6, <1>7, <1>8

\* The migrations of a database that was not forced are recorded in the order of
\* the list: what is not listed, and at most one past the end, is the next one.
LEMMA NextInOrder ==
  ASSUME NEW d \in Databases \ forced, DbSound(d), dbs[d] \in DbType,
         NEW n \in 1 .. 4, n - 1 <= Len(dbs[d].ids), ~Listed(d, Migrations[n])
  PROVE  n = Len(dbs[d].ids) + 1
<1>1. Len(dbs[d].ids) \in Nat
  BY DEF DbType
<1>2. n \notin 1 .. Len(dbs[d].ids)
  BY DEF DbSound, Listed
<1> QED
  BY <1>1, <1>2

\* What Migrated writes, field by field.
LEMMA MigratedFields ==
  ASSUME NEW db \in DbType, NEW id \in Ids, NEW missing \in SUBSET FrameworkTables
  PROVE  LET new == Migrated(db, id, missing) IN
         /\ new \in DbType
         /\ new.exists = db.exists /\ new.schema = db.schema /\ new.data = db.data
         /\ new.tables = db.tables \cup missing
         /\ new.ids = Append(db.ids, id)
         /\ new.readonly <=> db.readonly /\ id # "0003_role_pickers"
         /\ new.bumped = IF id = "app_0001" THEN db.bumped + 1 ELSE db.bumped
<1>1. Append(db.ids, id) \in Seq(Ids) /\ db.tables \cup missing \in SUBSET FrameworkTables
  BY DEF DbType
<1>2. (IF id = "app_0001" THEN db.bumped + 1 ELSE db.bumped) \in Nat
  BY DEF DbType
<1>3. (db.readonly /\ id # "0003_role_pickers") \in BOOLEAN
  OBVIOUS
<1> QED
  BY <1>1, <1>2, <1>3 DEF DbType, Migrated

\* A migration that commits is in effect and is listed once, the next of the list
\* unless the database was forced; nobody was building that database.
LEMMA CommitKeeps ==
  ASSUME Inv, NEW o \in Operators, CommitOne(o)
  PROVE  Inv'
<1>1. PICK d : d = op[o].db
  OBVIOUS
<1>2. PICK n \in 1 .. 4 : n = op[o].next
  BY DEF CommitOne, Inv, OpSound, RunnerSound, Migrations
<1>3. PICK m \in SUBSET FrameworkTables : m = op[o].missing
  BY DEF CommitOne, Inv, OpSound, RunnerSound
<1> DEFINE id == Migrations[n]
<1>4. /\ op[o].pc = "commit" /\ OpShape
      /\ UNCHANGED <<control, tenants, started, faults, forced>>
      /\ d \in Databases => dbs[d].exists
      /\ d \in Databases \ forced => n - 1 <= Len(dbs[d].ids)
      /\ d \in Databases => CreatedBy(id) \subseteq dbs[d].tables \cup m
      /\ d \in Databases => DbSound(d) /\ dbs[d] \in DbType
  BY <1>1, <1>2, <1>3 DEF CommitOne, Inv, OpSound, RunnerSound, StateType
<1>5. id \in Ids
  BY DEF Ids, Migrations
<1>6. CASE Ends(o) /\ UNCHANGED dbs
  BY <1>4, <1>6, EndsKeeps DEF Inv, StateType
<1>7. CASE /\ dbs[d].schema /\ ~RecordConflicts(dbs[d], id)
           /\ dbs' = [dbs EXCEPT ![d] = Migrated(dbs[d], id, m)]
           /\ op' = [op EXCEPT ![o].pc = "apply", ![o].next = @ + 1, ![o].missing = {}]
  <2> DEFINE c == [op[o] EXCEPT !.pc = "apply", !.next = n + 1, !.missing = {}]
  <2>1. op' = [op EXCEPT ![o] = c]
    BY <1>2, <1>4, <1>7 DEF OpShape, Fields
  <2>2. IsCommand(c) /\ c.pc = "apply" /\ c.next = n + 1 /\ c.db = d
    BY <1>1, <1>4 DEF OpShape, IsCommand, Fields
  <2> HIDE DEF c
  <2>3. Becomes(o, c)
    BY <1>4, <2>1, <2>2, OpBecomes
  <2>4. /\ op'[o].pc = "apply" /\ op'[o].next = n + 1 /\ op'[o].db = d
        /\ OpShape' /\ \A p \in Operators : p # o => op'[p] = op[p]
    BY <2>2, <2>3 DEF Becomes
  <2>5. n + 1 \in 1 .. Len(Migrations) + 1
    BY DEF Migrations
  <2>6. CASE d \notin Databases
    <3>1. dbs' = dbs
      BY <1>7, <2>6 DEF Inv, StateType
    <3>2. OpSound(o)'
      BY <2>4, <2>5, <2>6
      DEF OpSound, ProvisionSound, RunnerSound, Provisions, Building, PCs
    <3> QED
      BY <1>4, <2>3, <3>1, <3>2, OnlyOpMoves DEF Inv, StateType
  <2>7. CASE d \in Databases
    <3> DEFINE new == Migrated(dbs[d], id, m)
    <3>1. /\ new \in DbType
          /\ new.exists = dbs[d].exists /\ new.schema = dbs[d].schema
          /\ new.tables = dbs[d].tables \cup m
          /\ new.ids = Append(dbs[d].ids, id)
          /\ new.readonly <=> dbs[d].readonly /\ id # "0003_role_pickers"
          /\ new.bumped = IF id = "app_0001" THEN dbs[d].bumped + 1 ELSE dbs[d].bumped
      BY <1>4, <1>5, <2>7, MigratedFields
    <3>2. dbs'[d] = new /\ dbs' = [dbs EXCEPT ![d] = new]
      BY <1>7, <2>7 DEF Inv, StateType
    <3> HIDE DEF new
    <3>3. dbs'[d].exists /\ dbs'[d].schema /\ new.schema
      BY <1>4, <1>7, <2>7, <3>1, <3>2
    <3>4. dbs[d].ids \in Seq(Ids) /\ Len(dbs[d].ids) \in Nat
      BY <1>4, <2>7 DEF DbType
    <3>5. Len(dbs'[d].ids) = Len(dbs[d].ids) + 1
      BY <1>5, <3>1, <3>2, <3>4
    <3>6. \A i \in 1 .. Len(dbs[d].ids) : dbs'[d].ids[i] = dbs[d].ids[i]
      BY <1>5, <3>1, <3>2, <3>4
    <3>7. dbs'[d].ids[Len(dbs[d].ids) + 1] = id
      BY <1>5, <3>1, <3>2, <3>4
    <3> HIDE DEF id
    <3>8. \A x : Listed(d, x)' <=> Listed(d, x) \/ x = id
      <4> SUFFICES ASSUME NEW x PROVE Listed(d, x)' <=> Listed(d, x) \/ x = id
        OBVIOUS
      <4>1. \A i \in 1 .. Len(dbs'[d].ids) : i \in 1 .. Len(dbs[d].ids) \/ i = Len(dbs[d].ids) + 1
        BY <3>4, <3>5
      <4>2. Listed(d, x)' => Listed(d, x) \/ x = id
        BY <3>6, <3>7, <4>1 DEF Listed
      <4>3. Len(dbs[d].ids) + 1 \in 1 .. Len(dbs'[d].ids)
            /\ \A i \in 1 .. Len(dbs[d].ids) : i \in 1 .. Len(dbs'[d].ids)
        BY <3>4, <3>5
      <4>4. Listed(d, x) \/ x = id => Listed(d, x)'
        BY <3>6, <3>7, <4>3 DEF Listed
      <4> QED
        BY <4>2, <4>4
    <3>9. ~Listed(d, id)
      BY <1>7 DEF RecordConflicts, Listed
    <3>10. d \notin forced => n = Len(dbs[d].ids) + 1
      BY <1>4, <2>7, <3>9, NextInOrder DEF id
    <3>11. DbSound(d)'
      <4>1. \A x \in Ids : Listed(d, x)' => CreatedBy(x) \subseteq dbs'[d].tables
        BY <1>4, <2>7, <3>1, <3>2, <3>8 DEF DbSound
      <4>2. Listed(d, "0003_role_pickers")' => ~dbs'[d].readonly
        BY <1>4, <2>7, <3>1, <3>2, <3>8 DEF DbSound
      <4>3. dbs'[d].bumped = IF Listed(d, "app_0001")' THEN 1 ELSE 0
        BY <1>4, <2>7, <3>1, <3>2, <3>8, <3>9 DEF DbSound
      <4>4. d \notin forced =>
              /\ Len(dbs'[d].ids) <= Len(Migrations)
              /\ \A i \in 1 .. Len(dbs'[d].ids) : dbs'[d].ids[i] = Migrations[i]
        <5> SUFFICES ASSUME d \notin forced
                     PROVE  /\ Len(dbs'[d].ids) <= Len(Migrations)
                            /\ \A i \in 1 .. Len(dbs'[d].ids) : dbs'[d].ids[i] = Migrations[i]
          OBVIOUS
        <5>1. Len(dbs'[d].ids) = n /\ n <= Len(Migrations)
          BY <3>5, <3>10 DEF Migrations
        <5>2. \A i \in 1 .. Len(dbs[d].ids) : dbs[d].ids[i] = Migrations[i]
          BY <1>4, <2>7 DEF DbSound
        <5>3. dbs'[d].ids[n] = Migrations[n]
          BY <3>7, <3>10 DEF id
        <5>4. \A i \in 1 .. n : i = n \/ i \in 1 .. Len(dbs[d].ids)
          BY <3>4, <3>10
        <5> QED
          BY <3>6, <5>1, <5>2, <5>3, <5>4
      <4> QED
        BY <1>4, <3>3, <4>1, <4>2, <4>3, <4>4 DEF DbSound
    <3>12. ASSUME NEW p \in Operators, p # o, op[p].db = d PROVE OpSound(p)'
      <4>1. OpSound(p) /\ op'[p] = op[p]
        BY <2>4, <3>12 DEF Inv
      <4>2. op[p].pc \in Building => d \in forced
        BY <1>7, <3>12, <4>1 DEF OpSound, ProvisionSound
      <4>3. ProvisionSound(p)'
        BY <1>4, <3>3, <3>12, <4>1, <4>2 DEF OpSound, ProvisionSound
      <4>4. RunnerSound(p)'
        BY <1>4, <3>1, <3>2, <3>3, <3>4, <3>5, <3>12, <4>1 DEF OpSound, RunnerSound, Migrations
      <4> QED
        BY <4>1, <4>3, <4>4 DEF OpSound
    <3>13. OpSound(o)'
      <4>1. d \notin forced => n <= Len(dbs'[d].ids)
        BY <3>4, <3>5, <3>10
      <4> QED
        BY <1>4, <2>4, <2>5, <3>3, <4>1
        DEF OpSound, ProvisionSound, RunnerSound, Provisions, Building, PCs
    <3>14. /\ \A p \in Operators : op'[p].db = d => OpSound(p)'
           /\ \A p \in Operators : op'[p] = op[p] \/ op'[p].db = d
      BY <2>4, <3>12, <3>13
    <3>15. new \in DbType /\ OpShape' /\ (d \in forced \/ (dbs[d].schema => new.schema))
      BY <2>4, <3>1, <3>3
    <3> QED
      BY <1>4, <2>7, <3>2, <3>11, <3>14, <3>15, OneDatabaseMoves
  <2> QED
    BY <2>6, <2>7
<1> QED
  BY <1>1, <1>2, <1>3, <1>6, <1>7 DEF CommitOne

\* The commands an operator may give.
LEMMA CommandKeeps ==
  ASSUME Inv, NEW o \in Operators,
         \/ EnsureControlDatabase(o)
         \/ \E s \in Sites, d \in Databases, force, allowed \in BOOLEAN :
              ProvisionTenant(o, s, d, force, allowed)
         \/ MigrateAllTenants(o)
         \/ \E d \in Databases : RunMigrateCommand(o, d)
  PROVE  Inv' /\ UNCHANGED <<dbs, forced>>
<1>1. CASE EnsureControlDatabase(o)
  <2> DEFINE c == [Idle EXCEPT !.pc = "countControl"]
  <2>1. IsCommand(c) /\ c.pc = "countControl"
    BY DEF IsCommand, Idle, Fields
  <2> HIDE DEF c
  <2> QED
    BY <1>1, <2>1, StartKeeps DEF EnsureControlDatabase, Start, c
<1>2. ASSUME NEW s \in Sites, NEW d \in Databases,
             NEW force \in BOOLEAN, NEW allowed \in BOOLEAN,
             ProvisionTenant(o, s, d, force, allowed)
      PROVE  Inv' /\ UNCHANGED <<dbs, forced>>
  <2> DEFINE c == [Idle EXCEPT !.pc = "check", !.site = s, !.db = d,
                               !.force = force, !.allowed = allowed]
  <2>1. IsCommand(c) /\ c.pc = "check" /\ c.site = s /\ c.db = d
    BY DEF IsCommand, Idle, Fields
  <2>2. Start(o, c)
    BY <1>2 DEF ProvisionTenant
  <2> HIDE DEF c
  <2> QED
    BY <2>1, <2>2, StartKeeps DEF Start
<1>3. ASSUME NEW todo, Start(o, [Idle EXCEPT !.pc = "next", !.todo = todo])
      PROVE  Inv' /\ UNCHANGED <<dbs, forced>>
  <2> DEFINE c == [Idle EXCEPT !.pc = "next", !.todo = todo]
  <2>1. IsCommand(c) /\ c.pc = "next"
    BY DEF IsCommand, Idle, Fields
  <2>2. Start(o, c)
    BY <1>3
  <2> HIDE DEF c
  <2> QED
    BY <2>1, <2>2, StartKeeps DEF Start
<1>4. CASE MigrateAllTenants(o)
  BY <1>3, <1>4 DEF MigrateAllTenants
<1>5. ASSUME NEW d \in Databases, RunMigrateCommand(o, d)
      PROVE  Inv' /\ UNCHANGED <<dbs, forced>>
  BY <1>3, <1>5 DEF RunMigrateCommand
<1> QED
  BY <1>1, <1>2, <1>4, <1>5

LEMMA InvStutters ==
  ASSUME Inv, UNCHANGED vars
  PROVE  Inv'
<1> USE DEF Inv, vars
<1>1. StateType'
  BY DEF StateType, OpShape
<1>2. \A d \in Databases : DbSound(d)'
  BY DEF DbSound, Listed
<1>3. \A o \in Operators : OpSound(o)'
  BY DEF OpSound, ProvisionSound, RunnerSound
<1>4. ActiveHasSchema'
  BY DEF ActiveHasSchema
<1> QED
  BY <1>1, <1>2, <1>3, <1>4

LEMMA InvNext ==
  ASSUME Inv, [Next]_vars
  PROVE  Inv'
<1>1. ASSUME NEW o \in Operators, Step(o) PROVE Inv'
  BY <1>1, EnsureControlKeeps, CheckKeeps, MakeKeeps, ClearKeeps, ConnectKeeps,
     PopulateKeeps, RecordKeeps, MigrateNextKeeps, ApplyKeeps, CommitKeeps
  DEF Step
<1>2. ASSUME NEW o \in Operators, Aborts(o) PROVE Inv'
  BY <1>2, AbortsKeeps
<1> QED
  BY <1>1, <1>2, CommandKeeps, SetStatusKeeps, WritesKeeps, InvStutters DEF Next

-------------------------------------------------------------------------------
(* Theorems                                                                *)

LEMMA Invariance == Spec => []Inv
  BY InvInit, InvNext, PTL DEF Spec

LEMMA InvImpliesSound == Inv => DatabasesAreSound
<1> SUFFICES ASSUME Inv PROVE DatabasesAreSound
  OBVIOUS
<1>1. TypeOK
  BY DEF Inv, StateType, DbType, DbSound, OpSound, PCs, TypeOK
<1>2. RecordedMeansInEffect
  BY DEF Inv, DbSound, Listed, RecordedMeansInEffect
<1>3. ActiveHasSchema
  BY DEF Inv
<1> QED
  BY <1>1, <1>2, <1>3 DEF DatabasesAreSound

(***************************************************************************)
(* Whatever step a command dies at, and however many operators run         *)
(* commands at the same time, a migration that schema_migrations lists is  *)
(* in effect, once, one that it does not list is not, and the database of  *)
(* a row of tenants has its schema unless a forced provisioning took it    *)
(* apart (MigrationRunner::ApplyOne, ProvisionTenant).                     *)
(***************************************************************************)
THEOREM ProvisioningIsSound == Spec => []DatabasesAreSound
  BY Invariance, InvImpliesSound, PTL

(***************************************************************************)
(* What a step does to the contents of the databases: forcing apart, it    *)
(* loses neither ids nor data, and gives at most one database its next id. *)
(***************************************************************************)
Kept(d) == d \in forced \/ (dbs'[d].ids = dbs[d].ids /\ (dbs[d].data => dbs'[d].data))

Advanced(d) ==
  /\ d \notin forced
  /\ dbs[d].data => dbs'[d].data
  /\ Len(dbs[d].ids) < Len(Migrations)
  /\ dbs'[d].ids = Append(dbs[d].ids, Migrations[Len(dbs[d].ids) + 1])

Effect ==
  \E d \in Databases :
    \/ /\ forced' = forced \cup {d}
       /\ \A e \in Databases : Kept(e)
    \/ /\ forced' = forced
       /\ Kept(d) \/ Advanced(d)
       /\ \A e \in Databases : e # d => Kept(e)

LEMMA NoEffect ==
  ASSUME UNCHANGED <<dbs, forced>>
  PROVE  Effect
  BY ProvisioningAssumption DEF Effect, Kept

LEMMA OneEffect ==
  ASSUME Inv, NEW d \in Databases, NEW new, dbs' = [dbs EXCEPT ![d] = new],
         forced' = forced, Kept(d) \/ Advanced(d)
  PROVE  Effect
<1>1. \A e \in Databases : e # d => dbs'[e] = dbs[e]
  BY DEF Inv, StateType
<1> QED
  BY <1>1 DEF Effect, Kept

LEMMA CommitEffect ==
  ASSUME Inv, NEW o \in Operators, CommitOne(o)
  PROVE  Effect
<1>1. PICK d : d = op[o].db
  OBVIOUS
<1>2. PICK n \in 1 .. 4 : n = op[o].next
  BY DEF CommitOne, Inv, OpSound, RunnerSound, Migrations
<1>3. PICK m \in SUBSET FrameworkTables : m = op[o].missing
  BY DEF CommitOne, Inv, OpSound, RunnerSound
<1> DEFINE id == Migrations[n]
           new == Migrated(dbs[d], id, m)
<1>4. /\ forced' = forced /\ op[o].pc = "commit"
      /\ \/ UNCHANGED dbs
         \/ dbs' = [dbs EXCEPT ![d] = new] /\ ~RecordConflicts(dbs[d], id)
  BY <1>1, <1>2, <1>3 DEF CommitOne
<1>5. CASE UNCHANGED dbs
  BY <1>4, <1>5, NoEffect
<1>6. CASE d \notin Databases /\ dbs' = [dbs EXCEPT ![d] = new]
  <2>1. dbs' = dbs
    BY <1>6 DEF Inv, StateType
  <2> QED
    BY <1>4, <2>1, NoEffect
<1>7. CASE /\ d \in Databases /\ dbs' = [dbs EXCEPT ![d] = new]
           /\ ~RecordConflicts(dbs[d], id)
  <2>1. dbs[d] \in DbType /\ DbSound(d) /\ id \in Ids
    BY <1>7 DEF Inv, StateType, Ids, Migrations
  <2>2. new.ids = Append(dbs[d].ids, id) /\ new.data = dbs[d].data
    BY <2>1, MigratedFields
  <2>3. dbs'[d] = new
    BY <1>7 DEF Inv, StateType
  <2> HIDE DEF new
  <2>4. CASE d \in forced
    BY <1>4, <1>7, <2>4, OneEffect DEF Kept
  <2>5. CASE d \notin forced
    <3>1. n - 1 <= Len(dbs[d].ids)
      BY <1>1, <1>2, <1>4, <1>7, <2>5 DEF Inv, OpSound, RunnerSound
    <3>2. ~Listed(d, id)
      BY <1>7 DEF RecordConflicts, Listed
    <3>3. n = Len(dbs[d].ids) + 1
      BY <1>7, <2>1, <2>5, <3>1, <3>2, NextInOrder
    <3>4. Len(dbs[d].ids) \in Nat
      BY <2>1 DEF DbType
    <3>5. Len(dbs[d].ids) < Len(Migrations)
      BY <3>3, <3>4 DEF Migrations
    <3>6. Advanced(d)
      BY <2>2, <2>3, <2>5, <3>3, <3>5 DEF Advanced
    <3> QED
      BY <1>4, <1>7, <3>6, OneEffect
  <2> QED
    BY <2>4, <2>5
<1> QED
  BY <1>4, <1>5, <1>6, <1>7

LEMMA StepEffect ==
  ASSUME Inv, [Next]_vars
  PROVE  Effect
<1>1. ASSUME NEW o \in Operators,
             \/ CountControl(o) \/ MakeControl(o) \/ CreateControlTables(o)
             \/ CheckSiteKey(o) \/ ConnectToTenant(o) \/ RecordTenant(o)
             \/ MigrateNext(o) \/ ApplyOne(o) \/ Aborts(o)
      PROVE  Effect
  <2>1. UNCHANGED <<dbs, forced>>
    BY <1>1 DEF CountControl, MakeControl, CreateControlTables, CheckSiteKey,
                ConnectToTenant, RecordTenant, MigrateNext, ApplyOne, Aborts
  <2> QED
    BY <2>1, NoEffect
<1>2. ASSUME NEW o \in Operators, CountDatabase(o) PROVE Effect
  <2>1. op[o].db \in Databases
    BY <1>2 DEF CountDatabase, Inv, OpSound, ProvisionSound, Provisions
  <2>2. dbs' = dbs /\ (forced' = forced \/ forced' = forced \cup {op[o].db})
    BY <1>2 DEF CountDatabase
  <2> QED
    BY <2>1, <2>2 DEF Effect, Kept
<1>3. ASSUME NEW o \in Operators, MakeDatabase(o) PROVE Effect
  <2>1. PICK d \in Databases : d = op[o].db
    BY <1>3 DEF MakeDatabase, Inv, OpSound, ProvisionSound, Provisions
  <2>2. CASE dbs[d].exists
    BY <1>3, <2>1, <2>2, NoEffect DEF MakeDatabase
  <2>3. CASE ~dbs[d].exists
    <3>1. dbs' = [dbs EXCEPT ![d] = Empty] /\ forced' = forced
      BY <1>3, <2>1, <2>3 DEF MakeDatabase
    <3>2. dbs'[d] = Empty /\ dbs[d] = Absent
      BY <2>3, <3>1 DEF Inv, StateType, DbSound
    <3>3. dbs'[d].ids = dbs[d].ids /\ ~dbs[d].data
      BY <3>2 DEF Empty, Absent
    <3> QED
      BY <3>1, <3>3, OneEffect DEF Kept
  <2> QED
    BY <2>2, <2>3
<1>4. ASSUME NEW o \in Operators, ClearDatabase(o) PROVE Effect
  <2>1. PICK d \in Databases : d = op[o].db /\ d \in forced
    BY <1>4 DEF ClearDatabase, Inv, OpSound, ProvisionSound, Provisions
  <2>2. forced' = forced /\ (dbs' = dbs \/ dbs' = [dbs EXCEPT ![d] = Absent])
    BY <1>4, <2>1 DEF ClearDatabase
  <2> QED
    BY <2>1, <2>2, NoEffect, OneEffect DEF Kept
<1>5. ASSUME NEW o \in Operators, CreatePopulate(o) PROVE Effect
  <2>1. PICK d \in Databases : d = op[o].db
    BY <1>5 DEF CreatePopulate, Inv, OpSound, ProvisionSound, Provisions
  <2>2. forced' = forced /\ dbs' = [dbs EXCEPT ![d] = Fresh] /\ op[o].pc = "populate"
    BY <1>5, <2>1 DEF CreatePopulate
  <2>3. dbs'[d] = Fresh
    BY <2>2 DEF Inv, StateType
  <2>4. d \notin forced => dbs[d].ids = <<>> /\ ~dbs[d].data
    BY <2>1, <2>2 DEF Inv, OpSound, ProvisionSound, Building, DbSound
  <2>5. Kept(d)
    BY <2>3, <2>4 DEF Kept, Fresh, Empty, Absent
  <2> QED
    BY <2>2, <2>5, OneEffect
<1>6. ASSUME NEW i \in 1 .. Len(tenants), TenantWrites(tenants[i]) PROVE Effect
  <2>1. PICK d \in Databases : tenants[i].db = d
    <3>1. tenants[i] \in Rows
      BY DEF Inv, StateType
    <3> QED
      BY <3>1 DEF Rows
  <2> DEFINE new == [dbs[d] EXCEPT !.data = TRUE]
  <2>2. dbs' = [dbs EXCEPT ![d] = new] /\ forced' = forced /\ dbs[d] \in DbType
    BY <1>6, <2>1 DEF TenantWrites, Inv, StateType
  <2>3. new.ids = dbs[d].ids /\ new.data
    BY <2>2 DEF DbType
  <2> HIDE DEF new
  <2>4. dbs'[d] = new
    BY <2>2 DEF Inv, StateType
  <2> QED
    BY <2>2, <2>3, <2>4, OneEffect DEF Kept
<1>7. ASSUME NEW i, NEW status, SetStatus(i, status) PROVE Effect
  BY <1>7, NoEffect DEF SetStatus
<1>8. CASE UNCHANGED vars
  BY <1>8, NoEffect DEF vars
<1>9. ASSUME NEW o \in Operators, Step(o) PROVE Effect
  BY <1>1, <1>2, <1>3, <1>4, <1>5, <1>9, CommitEffect DEF Step
<1> QED
  BY <1>1, <1>6, <1>7, <1>8, <1>9, CommandKeeps, NoEffect DEF Next

(***************************************************************************)
(* A step loses a tenant's data only in a database that a forced and       *)
(* allowed provisioning has chosen before that step (ProvisionTenant,      *)
(* provisioning.cpp:37).                                                   *)
(***************************************************************************)
THEOREM NothingLostWithoutForce == Spec => DataLossNeedsForce
<1>1. ASSUME Inv, [Next]_vars
      PROVE  [\A d \in Databases : dbs[d].data /\ ~dbs'[d].data => d \in forced]_vars
  BY <1>1, StepEffect DEF Effect, Kept, Advanced
<1> QED
  BY <1>1, Invariance, PTL DEF Spec, DataLossNeedsForce

\* The history of MigrationHistory that a state stands for.
Hist == [d \in Databases |-> IF d \in forced THEN <<>> ELSE dbs[d].ids]

LEMMA RefinesInit == Init => History!Init
<1> SUFFICES ASSUME Init PROVE History!Init
  OBVIOUS
<1>1. \A d \in Databases : dbs[d].ids = <<>>
  BY DEF Init, Old, Fresh, Empty, Absent
<1>2. SubSeq(Migrations, 1, 0) = <<>> /\ 0 \in 0 .. Len(Migrations)
  BY DEF Migrations
<1> QED
  BY <1>1, <1>2 DEF History!Init

LEMMA RefinesStep ==
  ASSUME Inv, Effect
  PROVE  [History!Next]_Hist
<1>1. PICK d \in Databases :
        \/ /\ forced' = forced \cup {d}
           /\ \A e \in Databases : Kept(e)
        \/ /\ forced' = forced
           /\ Kept(d) \/ Advanced(d)
           /\ \A e \in Databases : e # d => Kept(e)
  BY DEF Effect
<1>2. CASE forced' = forced \cup {d} /\ \A e \in Databases : Kept(e)
  <2>1. Hist' = [Hist EXCEPT ![d] = <<>>]
    BY <1>2 DEF Hist, Kept
  <2> QED
    BY <2>1 DEF Hist, History!Next, History!Reset
<1>3. CASE forced' = forced /\ \A e \in Databases : Kept(e)
  BY <1>3 DEF Hist, Kept
<1>4. CASE /\ forced' = forced /\ Advanced(d)
           /\ \A e \in Databases : e # d => Kept(e)
  <2>1. Hist[d] = dbs[d].ids
    BY <1>4 DEF Hist, Advanced
  <2>2. Hist' = [Hist EXCEPT ![d] = Append(Hist[d], Migrations[Len(Hist[d]) + 1])]
    BY <1>4, <2>1 DEF Hist, Advanced, Kept
  <2>3. Len(Hist[d]) < Len(Migrations)
    BY <1>4, <2>1 DEF Advanced
  <2> QED
    BY <2>2, <2>3 DEF Hist, History!Next, History!Apply
<1> QED
  BY <1>1, <1>2, <1>3, <1>4

(***************************************************************************)
(* Provisioning implements MigrationHistory: of a database that no forced  *)
(* provisioning chose, schema_migrations grows by the next id of the list  *)
(* and never otherwise (MigrationRunner::ApplyPending).                    *)
(***************************************************************************)
THEOREM ImplementsMigrationHistory == Spec => MigrationsInOrder
<1>1. ASSUME Inv, [Next]_vars PROVE [History!Next]_Hist
  BY <1>1, StepEffect, RefinesStep
<1> QED
  BY <1>1, RefinesInit, Invariance, PTL DEF Spec, MigrationsInOrder, History!Spec, Hist
===============================================================================
