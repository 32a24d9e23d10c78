# A TLA+ verification of server_components

server_components is a C++ library for multi-tenant web servers: Crow endpoints
over PostgreSQL (libpqxx), one database per tenant, a connection pool per
database, accounts with sessions and remember-me tokens, generic endpoints over
the tables, photos, a studio's branding, settings encrypted at rest, and a
scheduler process that calls job endpoints over HTTP. The modules here model its
own logic: what depends on the order in which threads, transactions, timers,
operators and editors act, and the algorithms whose results other parts rely on.
`PROJECT.json` is the index: components, runs, mutants, the map from definitions
to source lines, hazards and theorems. Paths below are relative to
`src/components/`.

## 1. Inventory

| Component | State | Operations | What is hard | What makes it correct |
|---|---|---|---|---|
| Connection pool (`data/sql_util/database_access/pooled_transaction_provider.cpp`, `production_transaction_provider.cpp`) | free slots, created count, one connection per slot | acquire, wait, reconnect, begin, run, commit, release | mutex and condition variable, exceptions on every path, connections that die while idle | a slot has one user, none is lost, no waiter sleeps beside a free slot, work is never run twice |
| Tenant resolution (`platform/endpoints/tenant_resolution_guard.cpp`, `endpoint_auth_helper.cpp`, `platform/business_logic/tenancy/tenant_resolver.cpp`, `tenant_resources.cpp`) | resolver cache, registry of per-tenant resources, services built once, process-wide connection count | resolve (twice per request), get or create, ensure services, invalidate, evict | lookups outside the mutex, `call_once` with a throwing builder, operator changes under traffic | a request is served on its own tenant's database or not at all; one pool per tenant |
| Scheduler (`scheduler/scheduler/*.cpp`) | job list, timers, ready queue, sessions per target | initialise, run, run for, tick, reload, signal | expired timers that cannot be cancelled, partial login failures | every job keeps its next tick and its credentials |
| Credentials (`platform/business_logic/auth/person.cpp`, `session.cpp`, `password_reset_helper.cpp`, their table helpers and endpoints) | password hash, sessions, device tokens, verification and reset links | log in, remember, log out, change and reset the password, verify, clean up | a quarter-second hash check between read and write, links and tokens replaced while in use | a reset signs everyone out; every secret works once |
| Login gate and lockout (`login_gate.cpp`, `person.cpp`, `login_attempts.cpp`, `endpoints/login.cpp`) | failure counter, lock, attempts table, task queue | check, count, lock, clear, record behind the response, purge | logins already past the gate, lost or late records | the lock ends guessing, one audit event per lock, counts are complete |
| Account creation and service accounts (`auth/person.cpp`, `quick_account_helper.cpp`, `service_account.cpp`) | people, activation links, roles and their assignments, mail already sent | register, activate, create by staff, ensure the scheduler's account, change address, delete | lookup then insert, mail that leaves before the COMMIT, expired links | one account per address, mailed links and passwords work |
| Provisioning and migrations (`tenancy/provisioning.cpp`, `control_database.cpp`, `migration/*.cpp`) | tenants table, databases, schema_migrations | ensure, provision, force, suspend, migrate one, migrate all | steps over two databases that fail half way, a process that dies, two runners at once | a migration takes effect once and in order; data is lost only by force |
| Schema descriptions (`data/sql_util/schema`, `db_and_table_operations.cpp`, `database_metadata.cpp`) and the framework's tables (`platform/db_schema`) | a description, the catalog | build, create, read back | creation over an older database, a reading loop without a bound | what is described exists; reading ends and gives it back |
| Table access (`database_crud_helpers.cpp`, `json/database_rest_helper.cpp`, `platform/endpoints/*`, authorization table helpers) | the rows, authorization among them | every generic read and write, photos, pickers, portal metadata | the tables that decide who may write are edited through the endpoints they guard | authority changes only through authority; writes whole, reads exact |
| Images (`business_logic/images/image_helper.cpp`, photo endpoints) | photos, instances, scaled copies, associations | upload, replace, delete, scale on demand, prune | copies made while their source goes | what is served is current; bytes leak only by overlap |
| Branding (`business_logic/branding/*.cpp`, the site endpoints) | settings, fonts, faces, pictures | edit, export, validate, import | imports of many parts, some of them unusable | export and import agree, refusals leave nothing, nothing is dropped silently |
| Settings (`services/util/secrets`, `auth/server_config.cpp`, `auth_cookies.cpp`, `manage_site_theme.cpp`) | rows of config_secrets, keys, the mode of a server, a browser's cookies | start, seal, save, edit by hand, log in, log out, build a mail helper | a sealing pass beside saves, keys that differ, settings that change under cookies | no value is lost, production is guarded, cookies pair up |
| Foundation utilities, HTTP and Square clients, mail transport, thread pool | little or none | conversions, one call each | encodings, remote failures | see section 7 |

Requests run on Crow's worker threads. The guard middleware resolves the tenant,
the handler's `EndpointAuthHelper` resolves it again, takes the tenant's
resources and runs every transaction through that tenant's pool. Work behind
the response (login attempts, last-seen times, mail) goes to an eight-thread
pool. The scheduler is another process with one thread; it is a client of the
same login endpoint. Operators change the control database from tools, and edit
config_secrets with SQL.

## 2. Modules

| Module | Models | State and actions against the code |
|---|---|---|
| `ConnectionPool` | the pool and the provider in each slot | one `pc` per thread inside `RunInTransaction`; each section under `mutex_` is an action, `notify_one` (called without the mutex) is one of its own; a connection is up, lost (libpq has not noticed) or closed; the ghost `mishaps` tells the calls to which something happened after they held a connection from those that merely found a dead one |
| `Scheduler` | `Scheduler`, `JobScheduler`, `ApiClient` | `ready` is the io_context's queue; a handler with its blocking calls is one action; timers expire between handlers. A wait and its handler remember the job whose interval the wait was set to, as a ghost: the code keeps an index |
| `Tenancy` | guard, resolver, registry, lazily built services | every mutex block, transaction and `call_once` is an action; `mode` is the deployment's TenancyMode; the operator is external |
| `Credentials` | one account's password, sessions, tokens and links | a transaction is one action where a conditional UPDATE takes the row lock first, and two where the code reads, hashes and then writes; `era` and `authored` are ghosts that remember after which reset a password was proved |
| `LoginLockout` | gate, lock, counter, write-behind recorder | lock check, count check and outcome of a login are three actions; `queue` is the thread pool; records are numbered, so that the counts are cardinalities; `late`, `attempted` and `lost` are ghosts |
| `MigrationHistory` | what `MigrationRunner` promises: the ids recorded are the first of the list, in order | the abstract specification that `Provisioning` implements |
| `Provisioning` | `ProvisionTenant`, `EnsureControlDatabase`, `SetStatus`, `MigrateAllTenants` | a command is a process; every transaction and every DROP or CREATE DATABASE is a step, death and an exception are possible before each |
| `Images` | photos of table rows | a request is a transaction, two actions where it reads, resizes and writes; bytes are the upload they came from and a size. Pruning goes as the code does: pruning by age lists the copies and deletes them afterwards by id, pruning to a size asks for the total and then for the oldest copy in turns; `prune` keeps what was read |
| `Branding` | the look of a studio | one request is one step; a value is told apart by what the importer does with it, and the validators look at that kind; `answer` is what the last request was told |
| `Schema` | descriptions, CREATE TABLE, the catalog reader | a builder call is a record, a script the builders an application runs; creation and every turn of the reading loop are actions |
| `FrameworkSchema` | the framework's and the control database's tables, one operator a table builder | extends `Schema` with their scripts and the specification |
| `Tables` | rows, and the statements of `DbCrud` and `DatabaseRESTHelper` | a statement is an operator from a database to the one it leaves, or to `Refused`; pages are computed in the width of an int; a cascade and the closure over implications are recursive functions, level by level |
| `TableAccess` | the generic endpoints and the authorization tables | a request is two steps, check and write; roles and grants are rows of the same database. Assumptions: requests name known tables; the authority tables refer only to one another; the start-up population succeeded |
| `Accounts` | how accounts come to be | each statement another transaction can see is an action; an INSERT waits for an open one of the same address, compared as CITEXT does |
| `Settings` | config_secrets, the start of a server, cookies | transactions statement by statement under READ COMMITTED; a sealed value is a key and a text. Savers and the sealing pass take the slots in the order of the registry; a deployment has one master key, which an environment may lack. A login or logout makes its cookies one after another, each with an address it reads itself, and its answer carries those made so far; the browser has one such request at a time |

`TableAccess` extends `Tables`, `FrameworkSchema` extends `Schema`, and
`Provisioning` instantiates `MigrationHistory` with the ids of each database as
its history. `XProofs` holds the theorems about `X`; those about `LoginLockout` and
`Settings` are in `SignInProofs`, those about `TableAccess` in `AccountsProofs`,
those about `Branding` in `ImagesProofs` (section 5). The `MC*` modules give constants their values. A definition whose
comment begins with "Mutant:" is a plausible bug used to confirm that a property
can fail; no specification uses it.

Invariants are conjunctions of named parts. A run checks the conjunction
(`ResourcesAccounted`, say), each part has its own comment, and each has a mutant
of its own that breaks it.

Abstractions. Passwords, links and tokens are numbers and always fresh. HTTP
headers are reduced to the key they carry. SQL runs at READ COMMITTED; of its
text only what decides an outcome is kept. Event and log wording and JSON
parsing are left out; a value that a validator refuses is a value of its own. The
environment variable HONUWARE_DB_NAME (`tenant_resources.h:79`,
`control_database.h:17`) is taken as unset. The composition root (`main.cpp`) is
outside this repository: what it passes for isProd is chosen freely.

## 3. Runs

| Run | Instance | Shows |
|---|---|---|
| `pool` | 3 threads, 1 slot, 2 hang-ups, 2 refusals | `SlotsAccounted` (types, exclusive slots, no leak), `NoLostWakeup`, `WorkRunsAtMostOnce`, `IdleLossIsMasked`, `EveryCallReturns` |
| `scheduler` | two lists that change length, tenants and first job; 2 reloads, 1 failure, 1 expired session, 1 RunFor | `EachJobItsTick`, `SessionsFollowJobs`, and `LoopServes`: jobs succeed again and again, a signal ends the loop |
| `tenancy` | 2 requests, 1 tenant, 2 operator changes, 1 exception, 2 connections, both modes | `TenantChangesTakeEffect` (the cache is stale only through an overlapping lookup, a settled suspension takes effect, the fixed mode never serves on the global database), `ResourcesAccounted` (one pool per tenant, exact accounting, services ready), `EveryRequestEnds` |
| `credentials` | 2 clients, 1 connection, 4 secrets, 2 resets, 3 times | `SignedInIsEntitled` (a reset signs everyone out, nobody is in before the address is proved), `SecretsAreSpent` (single use, bounded guesses) |
| `lockout` | 3 logins in flight, threshold 2, 3 failures, 3 ticks | `LockStopsGuessing`, `OneLockEvent`, `CountsAreComplete` |
| `provisioning` | 2 operators, 2 sites, 2 databases, 3 commands, 1 death or exception | `DatabasesAreSound` (what is recorded is in effect, an active tenant has its schema), `MigrationsInOrder` (`MigrationHistory!Spec`), `DataLossNeedsForce`, `CommandsEnd` |
| `images` | 2 connections, 1 item, uploads beyond the limits, 2 boxes, 7 clock values | `ServedIsCurrent` (a 304 is never given for other bytes, sizes keep their limits), `OrphansOnlyByOverlap`, `PhotosSurvive` (only a delete leaves an item without its photo; pruning takes what was unused for longest when it was picked) |
| `branding` | 2 families with one file stem, 1 service, 2 slots, 10 theme files, 6 inventories, one family to give the text | `RoundTrip`, `ImportIsFaithful` (nothing of the old look, nothing dropped silently), `InventoryIntact`, `RefusedChangesNothing` |
| `schema` | the framework's 37 tables, the control database, two applications with up to 3 more calls | `CreatesWhatIsDescribed`, `ReadsWhatIsThere`, `ReadingEnds` |
| `tables` | the authorization tables and one application table, 3 users, 2 writes, pages 0 to 4 of 0, 1, 2 and 64 rows in an int of 8 bits | `GrantsChangeThroughAuthority`, `AuthorityIsConsistent`, `WritesAreWhole`, `ReadsAreExact` |
| `accounts` | 2 clients, an address in two spellings and the scheduler's, 3 people | `AccountsAreReachable`, `SchedulerIsReady`, `TransactionsEnd` |
| `settings` | 2 servers, 2 editors, 3 operations, 5 environments | `SavesComplete` (kept, sealed, no deadlock), `StartIsSafe` (mode, guards, key, mail password), `CookiesPaired` (a session has its CSRF companion, a logout that came to clear leaves nothing) |

Bounds. Three threads on one slot give two waiters, or a waiter and a newcomer
that takes the slot the waiter was woken for; the theorems cover any number of
slots. Two reloads give a leftover handler of a list before the last. Two
operator changes give a suspension and a reactivation around one request. Four
secrets give a registration link, a reset link and a token that is rotated. Three
failures at a threshold of two give a crossing and a failure beyond it. Three
commands let a provisioning die, be retried, and a migration run beside it. Seven
clock values give two uploads and a scaled copy of each, or one with two copies of
which one is used while a pruning has it on its list. The theme files are one
of each kind the importer treats apart, and every export of a reachable look is
imported too. Two writes let the second be judged by what the first changed. In an
eight-bit int page 1 of 64 rows is the last whose offset fits and page 2 wraps;
pages past the end and a page size of 0 are among those asked for. Three people
give two who compete and one after them. Three operations (starts,
edits and logins) give two saves and a sealing pass, or a login with an edit of the
address before, during or after it; a start behind a browser that has cookies is not
counted, so that the mode can change between a login and the logout. Each of the
five environments lacks, hides or spoils one variable, the proxy setting among them. Runs whose bounds on time, ids or operations can be used up set
`CHECK_DEADLOCK FALSE`; `pool`, `scheduler` and `tenancy` check for deadlock.

Fairness. `ConnectionPool`: a thread that can move does, and the caller's work
ends; nothing is assumed about which waiter wakes or who gets the mutex.
`Scheduler`: the loop dispatches what is ready and armed timers expire; a handler
ends, which rests on HTTP calls being answered or failing (`http_client.cpp:40`
sets no timeout, so this is an assumption about the servers). `Tenancy`: a worker
thread goes on with its request; nothing is assumed of arrivals or operators.
`Provisioning`: a command that runs takes its next step (death is a step too).
`Accounts`: an open transaction goes on; PostgreSQL wakes a blocked INSERT when
the other transaction ends. `FrameworkSchema`: the reading loop goes round.

## 4. Where the code and its words, or its intent, part

The models contain these behaviours; the properties are stated so that they hold
beside them, and say how far they reach.

Scheduler, tenancy and credentials:

* `job_scheduler.cpp:205`: a timer runs the first job of its name. With one job
  of the same name per tenant, the list `scheduler_test.cpp:55` builds, only the
  first tenant's job runs, and twice as often. `job_scheduler.h:77` says a timer
  "runs the job". `TimerRunsItsJob` is checked for lists of distinct names.
* `job_scheduler.cpp:198`: a handler returns on `operation_aborted` or when
  `started_` is false. A wait that had completed before `Stop` has no error, and
  `Scheduler::Refresh` calls `Start` in the same handler, so such a handler, left
  over in the queue, runs the job that the new list has at its index and sets that
  timer again. `job_scheduler.h:80` says of `Stop` that pending callbacks fire "with
  an operation_aborted error, which the implementation handles silently". The run
  reaches such handlers (`stale`); `TimerRunsItsJob` says that nothing else runs a job
  its wait was not set for.
* `job_scheduler.cpp:205`: after a reload to a shorter list a leftover handler
  indexes `jobs_` past its end (action `JobHandlerOutOfRange`).
* `scheduler.cpp:100`: a login that throws during a reload leaves `Run()`.
* `tenant_resources.cpp:75`: a factory that throws ends the request in an error,
  outside the `try` that lets a failed session read go on as signed out; nothing is
  registered, and the next request tries again (`FactoryThrows`).
* `endpoint_auth_helper.cpp:46`: a tenant suspended between guard and handler is
  served on the deployment's global database in control mode; the comment at
  line 35 calls a miss there "tenancy is inert". `FixedNeverGlobal` is what
  holds.
* `tenant_resolver.cpp:52`: a lookup that began before an Invalidate stores its
  answer after it, and the entry has no expiry.
* `endpoint_auth_helper.cpp:139` reads `mailHelper` while another request's
  `call_once` may write it: a data race, not modelled.
* `person.cpp:330`, `update_user_password.cpp:104`: the hash is read without a
  lock. Over two connections a login that overlaps a reset leaves a session of
  the old password; `password_reset_helper.cpp:187` says everyone is signed out.
  It is true over one connection, the default of `tenants.max_connections`.
* `person.cpp:78`: a device token's expiry is now + now + duration, so that it
  never expires; `device_tokens.h:62` names the parameter `microsUntilExpires`.
* `login.cpp:81`: in control mode failures are recorded in the deployment's
  database while the gate counts in the tenant's; line 218 says the counts are
  accurate. `RecorderOnTenant` is the case that is checked.
* `person.cpp:374`: every failure beyond the threshold renews the lock, which the
  comment at line 401 denies.

Accounts and settings:

* `service_account.cpp:110`: deleting the scheduler's account and running the
  helper again, as `service_account.h:58` has operators rotate its password,
  always fails: the role kept its permissions, and (role_id, permission_id) is
  unique. `EnsureFailsOnLeftovers` says that this and a taken address are the
  only reasons.
* The helper returns silently when an unverified person has the address; staff
  are told that an existing unverified account exists; an expired activation link
  is never sent again, and only a password reset opens such an account, for it
  verifies the person (`password_reset_helper.cpp:170`). A reset leaves the activation
  link in place, so that the link may outlive a later change of the address; by then
  the account is verified, and `LinksReachTheirAddress` speaks of those that are not.
  `SetUserInfo` changes the
  address of a verified account without verification; mail leaves before COMMIT;
  the address in an activation link is URL-decoded twice.
* `secrets_at_rest.cpp:265`: the sealing pass writes back what it read and
  overwrites a value committed meanwhile (`SavesAreKept` excuses exactly this).
  The second of two concurrent writers of one secret fails on the unique name,
  and an operator's UPDATE that waits for a row being sealed changes nothing.
* A typed value that begins with "v1:" is neither sealed nor readable. A primary
  environment variable set to "" hides the legacy one. A mail password is cached
  per server until restart.
* `cloudfront_origin_guard.cpp:54`: every path that begins with `/api/health` passes
  without the CDN's secret, as its header says. `ProductionIsGuarded` says that no
  other does.
* `session.cpp:242`: the session cookie and csrft read the website address each by a
  statement of its own, and another edit of it may be committed in between: they then
  have different domains. A login that fails after the first cookie answers with an
  error and sets that cookie all the same. `SessionHasCsrf` excuses these two cases,
  both of which the run reaches, and no other.
* `logout.cpp:23` and `:127`: a logout that meets any exception (an address that cannot
  be read, a lost connection, a COMMIT that fails) answers 200 and clears only the
  cookies made before. Cookies are not cleared either when the address or the mode
  changed since the login. `LogoutClears` speaks of a logout that came to make all its
  clearing cookies, under the address and mode of the login.

Provisioning, schema and tables:

* `provisioning.cpp:26`: two unforced provisionings of a site under two database
  names leave one database without a row. `control_database.cpp:61`: an
  exception between SetIfNotExistsMode(true) and its reset leaves it on.
* A creation order that an empty database refuses succeeds over an old one, and
  the foreign key is lost when its parent is dropped (CASCADE). The catalog
  reader loops for ever on a table that refers to itself or to one that is not
  allowed (`database_metadata.cpp:561`), and returns one of two foreign keys to
  the same parent, so permission_implications does not come back. A UNIQUE column
  comes back nullable.
* The generic write endpoints ask only IsTableAllowed, while
  `endpoint_auth_helper.cpp:296` says only grants confer write access. Role and
  permission names are not unique; without the role "admin" IsAdmin throws, which
  is swallowed. An administrator does not get the tables a permission grants.
  GetPermissionGrantedTables ignores implications (ExpandClosure has no caller).
* `delete_item.cpp:80` takes the value as a photo's item whatever the column.
  Redactions are loaded at start. Foreign-key pickers and display values redact
  nothing (`database_rest_helper.cpp:566`, `:621`): a display template that names a
  redacted column shows it, and `ReadsHideRedactedColumns` claims of labels only what
  they show where template and key name none.
* The filtered total past the last page is 0. Page size 0 is no limit on the filtered
  path and no row on the other. Page times page size is an int: one that wraps to a
  negative number is refused by PostgreSQL, one that wraps to a positive number answers
  with the rows of another page; `PagesAreExact` claims nothing of either.

Images and branding:

* A copy made while its source is deleted leaves bytes without an owner, and two
  requests may store the same copy twice (scaled_photos has no unique key).
* `image_helper.cpp:517` and `:555`: pruning lists the copies (one at a time, when it
  prunes to a size) and deletes them by id. A copy that a request used in between goes
  all the same, so "unused" is as of when it was picked: `RecentlyUsedSurvive`
  compares the stamps the pruning read with those of the copies it spared.
* `theme_bundle_export.h:20` wants export, import, export to be byte-identical. A
  slot whose picture is gone is cleared on the way; a family saved before its
  first file, or whose service was removed, is exported and then pruned, so that
  a strict import refuses a file this server wrote. `RoundTrip` speaks of looks
  without such loose ends.
* A family that is not "uploaded" may store a face that is no font, after which
  every export fails; a slot that names a bundled font file passes the pruning;
  a second entry of a name makes the importer forget the first; the logo is not
  validated; merging may bring two picture names that differ in case, after which
  exports fail; a forced export to a directory leaves stale files.

## 5. Proofs

Every theorem is about its module's specification (`Spec`, `SettingsSpec`,
`AccessSpec`, `BrandingSpec`) and holds for every value of the constants that the module's named
assumptions allow; four name a hypothesis more, given below. Each
rests on an inductive invariant: `Init` implies it, every action keeps it (one
lemma or step per action), it implies the property, and the last step is temporal
logic. `PROJECT.json` lists 34, in eight modules; the properties they state are those
the runs check, or named parts of them.

| Module | Theorem | States | For every |
|---|---|---|---|
| `ConnectionPoolProofs` | `PoolSlotsAccounted` (from `PoolTypeCorrect`, `PoolSlotsExclusive`, `PoolNoSlotLeaks`), `PoolNoLostWakeup`, `PoolWorkRunsAtMostOnce`, `PoolMasksIdleLoss` | `SlotsAccounted`, `NoLostWakeup`, `WorkRunsAtMostOnce`, `IdleLossIsMasked` | finite set of threads, pool size, number of hang-ups and refusals |
| `SchedulerProofs` | `SessionsAlwaysFollowJobs`, `NoJobLosesItsTick`, `EachJobGetsItsTick` | `SessionsFollowJobs`, `EveryJobHasATick`, `EachJobItsTick` | set of job lists, targets, number of reloads and failures |
| `TenancyProofs` | `ResourcesAlwaysAccounted`, `TenantChangesAlwaysTakeEffect` | `ResourcesAccounted`, `TenantChangesTakeEffect` | requests, sites, operator changes, both modes |
| `CredentialsProofs` | `SecretsAlwaysSpent`, `NoUnverifiedSignIn`, `SignedInAlwaysEntitled` | `SecretsAreSpent`, `VerifiedBeforeSignedIn`, `SignedInIsEntitled` | clients, secrets, resets, lifetimes |
| `SignInProofs` (lockout) | `OneLockEventHolds`, `LockStopsGuessingHolds`, `CountsAlwaysComplete` | `OneLockEvent`, `LockStopsGuessing`, `CountsAreComplete` | clients, addresses, limits, window and purge age |
| `SignInProofs` (settings) | `SavesCompleteHolds`, `StartIsSafeHolds`, `CookiesPairedHolds` | `SavesComplete`, `StartIsSafe`, `CookiesPaired` | servers, editors, secrets and their registry order, environments, operations |
| `ProvisioningProofs` | `ProvisioningIsSound`, `NothingLostWithoutForce`, `ImplementsMigrationHistory` | `DatabasesAreSound`, `DataLossNeedsForce`, `MigrationsInOrder` (the refinement of `MigrationHistory`) | operators, sites, databases, commands, deaths |
| `AccountsProofs` (accounts) | `AccountsAlwaysReachable`, `SchedulerAlwaysAuthorized`, `SchedulerAlwaysReady` | `AccountsAreReachable`, `SchedulerIsAuthorized` and `OneSchedulerRole`, `SchedulerIsReady` | clients, addresses, ids |
| `AccountsProofs` (tables) | `GrantsAlwaysThroughAuthority`, `AuthorityAlwaysConsistent`, `WritesAlwaysWhole` | `GrantsChangeThroughAuthority`, `AuthorityIsConsistent`, `WritesAreWhole` | tables, first rows, users, requests, helper calls |
| `ImagesProofs` (images) | `PhotosServedAreCurrent`, `PhotosKeepOwners`, `PhotosAlwaysSurvive` | `ServedIsCurrent`, `OrphansOnlyByOverlap`, `PhotosSurvive` | connections, items, sizes, boxes |
| `ImagesProofs` (branding) | `RowsStayIntact`, `RefusalsChangeNothing`, `ImportsStayFaithful`, `ExportsComeBack` | `InventoryIntact`, `RefusedChangesNothing`, `ImportIsFaithful`, `RoundTrip` | theme files, inventories, families, services, finite set of slots |

Hypotheses beyond the assumptions. `EachJobGetsItsTick` needs `UniqueNames` (no
catalog uses the name of an enabled job twice), for a timer runs the first job of
its name; handlers that a `Stop` left in the queue are excepted in the property itself. `SignedInAlwaysEntitled` needs `MaxConnections = 1`, the default of
`tenants.max_connections`; over two connections it is false. `SchedulerAlwaysReady`
needs `"manage_subscriptions" \in Seeded`, which `service_account.h` presumes.
`CountsAlwaysComplete` needs `RecorderOnTenant`, which control mode does not give.
Section 4 says what the code does without them.

The arguments:

* Pool. Free and held slots partition `1..createdCount` (`SlotInv`; a thread that
  pushes must hold a slot, so the type invariant carries `HoldersHaveSlots`). No
  lost wakeup balances waiters against free slots, woken threads and threads
  between push and notify. `WorkInv` ties `ran` and `outcome` to the location.
  `MaskInv` is kept call by call, so that it holds for pools of any size and any
  number of hang-ups: a call that fails before its work has had a mishap of its own,
  and so has one whose reopened connection is lost before the second BEGIN. Hang-ups on
  other connections, or before the call came, do not count.
* Scheduler. While the process lives, between two `RunFor` calls too, jobs have
  credentials and equal the list the next refresh compares with
  (`AliveHasSessions`); every index has an armed timer or a queued handler that is
  not a leftover. `WaitsFitJobs`: a pending wait, and a queued handler that no `Stop`
  left behind, was set for the very job that is at its index now; `EachJobGetsItsTick`
  follows, for with distinct names the lookup by name comes back to that index.
  `EnabledIsSelection` shows that the sequence of enabled jobs is an
  order-preserving selection, through `InOrder`, the enumeration of a finite set of
  numbers; this is why `Enabled` is written with `InOrder` and not with a fold.
* Tenancy. `ResInv`: from GetOrCreate on a request keeps its resources alive, the
  once-flag has one builder, and the process-wide count is the cardinality of the
  connections of live pools (a set of numbered connections, so that a step that
  adds or destroys some is a statement about sets). `ResolverInv`: a lookup that no
  Invalidate overtook stores the present row, or the operator is still to
  invalidate; a request barred on arrival stays before the guard's decision.
* Credentials. `SecretsInv`: secrets are issued in order, each is stored at most
  once over tokens and links, and a link's attempts column is the number of
  comparisons made. `EraInv`: with one connection the transaction that proved a
  password began after the last reset.
* Lockout. A comparison takes one login out of `PastGate` as it adds one to
  `late`, and nobody enters while the account is locked (`LockInv`). `CountInv`: if
  nothing was lost, every numbered attempt of the last window waits in the pool or
  has a row that is not older than itself; a purge spares such a row because
  `PurgeAge >= Window`. The counts then follow by an injection from attempts to rows.
* Settings. `SInv` holds together six parts. `TxInv` says what each transaction is
  for and how far it is, `Exclusive` that two open transactions never hold one row.
  `SealInv` is the heart of `SavesComplete`: what a sealing pass holds of a row is what
  the row still has, or a value committed meanwhile, which `SavesAreKept` excuses. No
  two savers wait for each other, for both take their slots in the order of the
  registry (`RegistryOrder`). `RowsInv` and `ServersInv` say which keys a stored value
  and a running server can have, and give the guards of `StartIsSafe`; `CookieInv`
  relates a browser's cookies to the settings of the server that set them. `VisitInv`
  is about a login or logout half way: the cookies made so far are those whose turn has
  passed, the server that answers goes on in an unchanged mode, and they are all of the
  present domain unless the address was written during the visit.
* Table access. `AccessInv`: every table has finitely many rows with its columns, every
  implication leads to a permission, and what passed a check is a request. `Effect`
  sums up what any statement does: rows change only in its own table and in those a
  cascade reaches, and no cascade from outside reaches `Authority`, whose tables refer
  only to one another; `GrantsChangeThroughAuthority` follows. For
  `AuthorityIsConsistent` a round of `ExpandClosure` that adds something makes the
  closure larger, so that it ends within as many rounds as there are permissions
  (`GoodRound`). For `WritesAreWhole` an update selects its rows again after it wrote
  them (`KnownAt`), also where the value it selects by is NULL. What these recursive
  functions compute is shown by taking the least round that would go wrong (`LeastNat`,
  from `WFMin` of `WellFoundedInduction`).
* Provisioning. What a database lists is in effect, and unless it was forced it has
  a prefix of the list (`DbSound`); unless it was forced, a database is populated by
  the one command that made it (`ProvisionSound`); a runner is at most one past the
  last migration listed (`RunnerSound`). `StepEffect` sums up what any step does to a
  database; the refinement and `DataLossNeedsForce` follow from it.
* Accounts. Ids and folded addresses are unique over committed and open rows
  together (`UniqueRows`); what a transaction holds is known from how far it has
  come (`OpenInv`); the ids still to be drawn are within the bound (`RoomKept`).
  `SchedulerInv`: the transaction that holds the scheduler's address is the only one
  that may hold its role.
* Images. Ids come from the clock, so a source is told from every later one by its
  id (`Drawn`); a copy's bytes are its source's, scaled (`Contents`); what a
  transaction read earlier still holds of the rows that are left (`TxCurrent`), in
  particular the instances a delete listed belong to the source it found and its
  copies. `DeletedIsWhole` is the heart: whatever came between list and delete, no
  reference dangles and what lost its owner was overlapped. `PruneInv`: a copy that a
  pruning has picked, as it read it, is no younger in use than any copy it had seen and
  has not picked. Uses in between only raise stamps, and copies made in between are not
  among those seen, so whatever comes between pick and DELETE keeps it.
* Branding. `SiteInv`: every family has one row, every other slot than the logo
  holds a valid value, and a family's service is stored. What the loops over a theme
  file have done after i turns (`SourcesFit`, `FamiliesFit`) is stated by the value of
  the recursive function at i and shown by the least turn that would go wrong
  (`LeastNumber`, `UpToBound`). `Sorted` enumerates any finite set that its order
  orders strictly (`SortedExists`), so the tables read back in one order only. After
  a replacing import the families have distinct ordinals: what the site shows does
  not depend on the ids its rows had (`ReplaceForgetsThePrevious`). For `RoundTrip` the
  loops of the export are described name by name (`Describes`): the file name a face
  claims is free, by a pigeonhole over its candidates (`ClaimFresh`), so nothing is
  overwritten (`AddsFonts`). Such a file passes the pruning whole (`DescribedWhole`);
  what it brings back is the same look with its families numbered in their order and
  its faces sorted (`SameSite`), and an order has only one enumeration (`SortedIs`), so
  the second export makes the same file.

`ImagesInv`, the largest of these invariants over shared rows, was also checked with
TLC, on the run's instance and on three connections with two items; `SInv` and
`AccessInv` (without the form of its rows) on the instance of their run.

Only model-checked:

* liveness (`EveryCallReturns`, `LoopServes`, `EveryRequestEnds`, `CommandsEnd`,
  `TransactionsEnd`, `ReadingEnds`): it needs fairness and ENABLED;
* `ReadsWhatIsThere` of `Schema` and `CreatesWhatIsDescribed` of `FrameworkSchema`: they
  say what folds over a script or a catalog compute, which needs induction over data
  through operators of the community modules, and the provers here cannot instantiate
  the theorems for it;
* `ReadsAreExact` of `TableAccess`, which is about pages, orders and folds over rows in
  the same way.

## 6. Plan

Built so far: the pool, the scheduler, tenancy, credentials, lockout, provisioning
with its refinement, images, branding, schema, tables, accounts and settings; proofs
of the safety properties of the first seven, of accounts, of settings, of tables
(reads excepted) and of branding. What is left, most important first:

1. An abstract pool (exclusive slots, a bounded number) that `ConnectionPool`
   refines, used by a composition with `Tenancy`.
2. The verify, remember, forgot- and reset-password gates in `LoginLockout`.
3. `ThreadPool` with its unsynchronised `GetInstance`; the log throttle.
4. Proofs about `Schema`, with its folds written as recursive functions.

## 7. Not modelled

Listed in `PROJECT.json` with reasons. Stored procedures and SQL text: strings.
The idempotency-key helper: nothing in the repository calls it. Audit log and
alerts: inserts that nothing reads back, the lock's event excepted. Hashing and
random tokens: cryptographic calls, whose results are fresh values here. Route
and middleware registration: done once before the server starts. The thread
pool, HTTP, Square and mail transport: one library call each; their failures
are outcomes of the modules that call them. Foundation utilities: formatting,
parsing, dates and logging without state. The directory form of a theme (a
command-line tool), CORS and the client address are left out of their modules.
Tests, vendored code and build files are not part of the system.
