------------------------------- MODULE Tenancy -------------------------------
(***************************************************************************)
(* How a request finds its tenant: TenantResolutionGuard (the middleware)  *)
(* and EndpointAuthHelper (the handler's prologue) both call the resolver, *)
(* whose cache sits in front of the control database's tenants table; the  *)
(* handler then takes the tenant's resources from TenantResourceRegistry   *)
(* and opens its first transaction on the tenant's own pool.               *)
(*                                                                         *)
(* Requests run on Crow's worker threads, so every mutex-protected block,  *)
(* transaction and call_once is a step of its own.  An operator onboards,  *)
(* suspends and reactivates tenants meanwhile, calling Invalidate and      *)
(* Evict after each change.                                                *)
(***************************************************************************)
EXTENDS Integers, Sequences, FiniteSets

CONSTANTS
  Sites,           \* site keys of (possible) tenants; one tenant id each
  NoKey,           \* the empty X-Site header
  OtherKey,        \* a header that names no tenant
  Requests,        \* requests, each handled once
  Modes,           \* the TenancyMode the deployment may be started in
  FixedSite,       \* the tenant of the fixed mode
  MaxConnections,  \* tenants.max_connections
  MaxChanges,      \* bound: operator changes
  MaxFaults        \* bound: exceptions thrown by a database or mail setup

ASSUME TenancyAssumption ==
  /\ {NoKey, OtherKey} \cap Sites = {} /\ FixedSite \in Sites
  /\ Modes \subseteq {"control", "fixed"}
  /\ MaxConnections \in Nat \ {0}
  /\ MaxChanges \in Nat /\ MaxFaults \in Nat

Keys == Sites \cup {NoKey, OtherKey}
Statuses == {"none", "active", "suspended"}

VARIABLES
  mode,       \* TenancyMode, set at startup
  row,        \* tenants.status by site key ("none": no row)
  cache,      \* ControlDbTenantResolver::cache_ ("none": no entry)
  overlapped, \* sites whose cache entry was read before the last Invalidate
  pending,    \* the calls the operator still has to make for a change
  req,        \* one record per request
  registry,   \* TenantResourceRegistry::resources_, 0 if absent
  objs,       \* every TenantResources object built so far
  evicted,    \* objects that Evict dropped from the registry
  total,      \* g_totalPooledConnections
  changes, faults

rowVars == <<mode, row, pending, changes>>
cacheVars == <<cache, overlapped>>
objVars == <<registry, objs, evicted, total>>
vars == <<rowVars, cacheVars, req, objVars, faults>>

(***************************************************************************)
(* A request: key is its X-Site header, stage the caller of Resolve, ctx   *)
(* the status Resolve returned, old whether an Invalidate came between the *)
(* lookup and now, obj its tenantResources_ (0: the global provider), and  *)
(* barred whether it started when its site was known not to be active.     *)
(***************************************************************************)
Stages == {"guard", "route"}
PCs == {"idle", "find", "lookup", "store", "decide", "init", "inTx", "building",
        "serving", "done"}
Outcomes == {"open", "ok", "signedOut", "missing", "unknown", "suspended",
             "mismatch", "error"}

TypeOK ==
  /\ mode \in Modes
  /\ row \in [Keys -> Statuses]
  /\ cache \in [Keys -> Statuses]
  /\ overlapped \subseteq Keys
  /\ pending \in [Sites -> SUBSET {"invalidate", "evict"}]
  /\ req \in [Requests -> [key : Keys, stage : Stages, pc : PCs, ctx : Statuses,
                           old : BOOLEAN, obj : 0..Len(objs), barred : BOOLEAN,
                           outcome : Outcomes]]
  /\ registry \in [Sites -> 0..Len(objs)]
  /\ objs \in Seq([site : Sites, created : 0..MaxConnections,
                   services : {"none", "building", "built"}])
  /\ evicted \subseteq DOMAIN objs
  /\ total \in Nat
  /\ changes \in 0..MaxChanges /\ faults \in 0..MaxFaults

Init ==
  /\ mode \in Modes
  /\ row \in [Keys -> Statuses] /\ row[NoKey] = "none" /\ row[OtherKey] = "none"
  /\ mode = "fixed" => row = [k \in Keys |-> "none"]  \* no control database
  /\ cache = [k \in Keys |-> "none"] /\ overlapped = {}
  /\ pending = [s \in Sites |-> {}]
  /\ req = [r \in Requests |->
              [key |-> NoKey, stage |-> "guard", pc |-> "idle", ctx |-> "none",
               old |-> FALSE, obj |-> 0, barred |-> FALSE, outcome |-> "open"]]
  /\ registry = [s \in Sites |-> 0] /\ objs = <<>> /\ evicted = {} /\ total = 0
  /\ changes = 0 /\ faults = 0

Fault == faults < MaxFaults /\ faults' = faults + 1
At(r, pc) == req[r].pc = pc
Move(r, pc) == req' = [req EXCEPT ![r].pc = pc]
Fails(r, outcome) ==
  req' = [req EXCEPT ![r].pc = "done", ![r].outcome = outcome]

Holders(o) == {r \in Requests : req[r].obj = o /\ req[r].pc # "done"}
Live(o) == (\E s \in Sites : registry[s] = o) \/ Holders(o) # {}
InTransaction == {"inTx", "building"}
Busy(o) == {r \in Holders(o) : req[r].pc \in InTransaction}

-----------------------------------------------------------------------------
(* The operator *)

(***************************************************************************)
(* A tenant is onboarded (ProvisionTenant's last step inserts its row),    *)
(* suspended or reactivated (SetStatus).  One change at a time per site.   *)
(***************************************************************************)
ChangeTenant(s, status) ==
  /\ mode = "control"
  /\ changes < MaxChanges
  /\ changes' = changes + 1
  /\ pending[s] = {}
  /\ row[s] # status
  /\ row[s] = "none" => status = "active"
  /\ row' = [row EXCEPT ![s] = status]
  /\ pending' = [pending EXCEPT ![s] = {"invalidate", "evict"}]
  /\ req' = [r \in Requests |->
               IF req[r].key = s THEN [req[r] EXCEPT !.barred = FALSE] ELSE req[r]]
  /\ UNCHANGED <<mode, cacheVars, objVars, faults>>

OnboardTenant(s) == row[s] = "none" /\ ChangeTenant(s, "active")
SuspendTenant(s) == ChangeTenant(s, "suspended")
ReactivateTenant(s) == row[s] = "suspended" /\ ChangeTenant(s, "active")

\* What an Invalidate of the keys K does to the lookups under way.
MarkOverlapped(K) ==
  req' = [r \in Requests |-> [req[r] EXCEPT !.old =
                                @ \/ (req[r].pc = "store" /\ req[r].key \in K)]]

\* Mutant: Invalidate erases nothing.
InvalidateNothing(s) ==
  /\ UNCHANGED cacheVars
  /\ MarkOverlapped({s})

Invalidate(s) ==
  /\ cache' = [cache EXCEPT ![s] = "none"]
  /\ overlapped' = overlapped \ {s}
  /\ MarkOverlapped({s})

InvalidateAll ==
  /\ cache' = [k \in Keys |-> "none"]
  /\ overlapped' = {}
  /\ MarkOverlapped(Keys)

OperatorInvalidates(s) ==
  /\ "invalidate" \in pending[s]
  /\ pending' = [pending EXCEPT ![s] = @ \ {"invalidate"}]
  /\ Invalidate(s) \/ InvalidateAll
  /\ UNCHANGED <<mode, row, changes, objVars, faults>>

\* Mutant: ~PooledTransactionProvider leaves the aggregate counter alone.
DestroyUncounted(o, stillLive) == total' = total

\* Mutant: Evict and the last request both give the connections back.
DestroyTwice(o, stillLive) ==
  total' = IF o = 0 THEN total ELSE total - objs[o].created

(***************************************************************************)
(* The last reference to a TenantResources object is gone: its pool is     *)
(* destroyed and OnConnectionsDestroyed(createdCount_) runs.               *)
(***************************************************************************)
Destroy(o, stillLive) ==
  total' = IF o = 0 \/ stillLive THEN total ELSE total - objs[o].created

OperatorEvicts(s) ==
  /\ "evict" \in pending[s]
  /\ pending' = [pending EXCEPT ![s] = @ \ {"evict"}]
  /\ registry' = [registry EXCEPT ![s] = 0]
  /\ evicted' = evicted \cup ({registry[s]} \ {0})
  /\ Destroy(registry[s], Holders(registry[s]) # {})
  /\ UNCHANGED <<mode, row, changes, cacheVars, req, objs, faults>>

-----------------------------------------------------------------------------
(* The resolver *)

\* The site is not active, everyone has been told, and no lookup under way
\* holds an older answer.
Settled(k) ==
  /\ row[k] # "active"
  /\ k \in Sites => pending[k] = {}
  /\ cache[k] \in {"none", row[k]}
  /\ \A r \in Requests : req[r].key = k /\ At(r, "store") => req[r].ctx = row[k]

Arrive(r, k) ==
  /\ At(r, "idle")
  /\ req' = [req EXCEPT ![r].key = k, ![r].pc = "find",
                        ![r].barred = mode = "control" /\ Settled(k)]
  /\ UNCHANGED <<rowVars, cacheVars, objVars, faults>>

\* A health probe: the guard lets it through without a tenant.
Probe(r) ==
  /\ At(r, "idle")
  /\ Fails(r, "ok")
  /\ UNCHANGED <<rowVars, cacheVars, objVars, faults>>

Control(r, pc) == mode = "control" /\ At(r, pc)

ResolveFixed(r) ==
  /\ mode = "fixed" /\ At(r, "find")
  /\ req' = [req EXCEPT ![r].pc = "decide",
       ![r].ctx = IF req[r].key \in {NoKey, FixedSite} THEN "active" ELSE "none"]
  /\ UNCHANGED <<rowVars, cacheVars, objVars, faults>>

CacheHit(r) ==
  /\ Control(r, "find")
  /\ cache[req[r].key] # "none"
  /\ req' = [req EXCEPT ![r].pc = "decide", ![r].ctx = cache[req[r].key]]
  /\ UNCHANGED <<rowVars, cacheVars, objVars, faults>>

CacheMiss(r) ==
  /\ Control(r, "find")
  /\ cache[req[r].key] = "none"
  /\ Move(r, "lookup")
  /\ UNCHANGED <<rowVars, cacheVars, objVars, faults>>

LookupBySiteKey(r) ==
  /\ At(r, "lookup")
  /\ req' = [req EXCEPT ![r].ctx = row[req[r].key], ![r].old = FALSE,
       ![r].pc = IF row[req[r].key] = "none" THEN "decide" ELSE "store"]
  /\ UNCHANGED <<rowVars, cacheVars, objVars, faults>>

\* The control database throws; the request ends in a 500.
LookupThrows(r) ==
  /\ At(r, "lookup")
  /\ Fault
  /\ Fails(r, "error")
  /\ UNCHANGED <<rowVars, cacheVars, objVars>>

StoreResolved(r) ==
  /\ At(r, "store")
  /\ cache' = [cache EXCEPT ![req[r].key] = req[r].ctx]
  /\ overlapped' = IF req[r].old THEN overlapped \cup {req[r].key}
                                 ELSE overlapped \ {req[r].key}
  /\ Move(r, "decide")
  /\ UNCHANGED <<rowVars, objVars, faults>>

-----------------------------------------------------------------------------
(* TenantResolutionGuard::before_handle *)

Decides(r, stage) == At(r, "decide") /\ req[r].stage = stage

\* Mutant: the guard lets every site through.
GuardPassesAny(r) ==
  /\ Decides(r, "guard")
  /\ req' = [req EXCEPT ![r].pc = "find", ![r].stage = "route"]
  /\ UNCHANGED <<rowVars, cacheVars, objVars, faults>>

GuardPasses(r) ==
  /\ Decides(r, "guard")
  /\ req[r].ctx = "active"
  /\ req' = [req EXCEPT ![r].pc = "find", ![r].stage = "route"]
  /\ UNCHANGED <<rowVars, cacheVars, objVars, faults>>

Rejection(r) ==
  CASE mode = "fixed" -> "mismatch"
    [] req[r].ctx = "suspended" -> "suspended"
    [] req[r].key = NoKey -> "missing"
    [] OTHER -> "unknown"

GuardRejects(r) ==
  /\ Decides(r, "guard")
  /\ req[r].ctx # "active"
  /\ Fails(r, Rejection(r))
  /\ UNCHANGED <<rowVars, cacheVars, objVars, faults>>

-----------------------------------------------------------------------------
(* EndpointAuthHelper::ResolveTenant and Initialize *)

TenantOf(k) == IF mode = "fixed" THEN FixedSite ELSE k
NewObj(s) == [site |-> s, created |-> 0, services |-> "none"]

\* Mutant: the registry is not searched before the factory runs.
AlwaysCreate(r, s) ==
  /\ objs' = Append(objs, NewObj(s))
  /\ registry' = [registry EXCEPT ![s] = Len(objs) + 1]
  /\ req' = [req EXCEPT ![r].pc = "init", ![r].obj = Len(objs) + 1]

(***************************************************************************)
(* TenantResourceRegistry::GetOrCreate, under the registry's mutex.        *)
(***************************************************************************)
GetOrCreate(r, s) ==
  IF registry[s] # 0
    THEN /\ req' = [req EXCEPT ![r].pc = "init", ![r].obj = registry[s]]
         /\ UNCHANGED <<objs, registry>>
    ELSE /\ objs' = Append(objs, NewObj(s))
         /\ registry' = [registry EXCEPT ![s] = Len(objs) + 1]
         /\ req' = [req EXCEPT ![r].pc = "init", ![r].obj = Len(objs) + 1]

RouteToTenant(r) ==
  /\ Decides(r, "route")
  /\ req[r].ctx = "active"
  /\ GetOrCreate(r, TenantOf(req[r].key))
  /\ UNCHANGED <<rowVars, cacheVars, evicted, total, faults>>

\* The factory throws out of GetOrCreate and ResolveTenant: the request ends in an error.
FactoryThrows(r) ==
  /\ Decides(r, "route")
  /\ req[r].ctx = "active" /\ registry[TenantOf(req[r].key)] = 0
  /\ Fault
  /\ Fails(r, "error")
  /\ UNCHANGED <<rowVars, cacheVars, objVars>>

\* The second Resolve found no active tenant: tenantResources_ stays null.
RouteToGlobal(r) ==
  /\ Decides(r, "route")
  /\ req[r].ctx # "active"
  /\ Move(r, "init")
  /\ UNCHANGED <<rowVars, cacheVars, objVars, faults>>

(***************************************************************************)
(* Initialize's transaction on the tenant's pool (module ConnectionPool):  *)
(* a free connection, a new one below the limit, or wait.                  *)
(***************************************************************************)
BeginOnIdleConnection(r) ==
  LET o == req[r].obj IN
  /\ At(r, "init") /\ o # 0
  /\ Cardinality(Busy(o)) < objs[o].created
  /\ Move(r, "inTx")
  /\ UNCHANGED <<rowVars, cacheVars, objVars, faults>>

BeginOnNewConnection(r) ==
  LET o == req[r].obj IN
  /\ At(r, "init") /\ o # 0
  /\ Cardinality(Busy(o)) = objs[o].created
  /\ objs[o].created < MaxConnections
  /\ objs' = [objs EXCEPT ![o].created = @ + 1]
  /\ total' = total + 1
  /\ Move(r, "inTx")
  /\ UNCHANGED <<rowVars, cacheVars, registry, evicted, faults>>

\* On the global provider there are no tenant services to build.
InitializeOnGlobal(r) ==
  /\ At(r, "init") /\ req[r].obj = 0
  /\ req' = [req EXCEPT ![r].pc = "serving", ![r].outcome = "ok"]
  /\ UNCHANGED <<rowVars, cacheVars, objVars, faults>>

\* The transaction throws before EnsureServices: swallowed, signed out.
SessionSetupThrows(r) ==
  /\ At(r, "inTx")
  /\ Fault
  /\ req' = [req EXCEPT ![r].pc = "serving", ![r].outcome = "signedOut"]
  /\ UNCHANGED <<rowVars, cacheVars, objVars>>

ServicesAre(r, state) == At(r, "inTx") /\ objs[req[r].obj].services = state

\* Mutant: the once-flag is set before the services are built.
ServicesFlaggedEarly(r) ==
  /\ ServicesAre(r, "built") \/ ServicesAre(r, "building")
  /\ req' = [req EXCEPT ![r].pc = "serving", ![r].outcome = "ok"]
  /\ UNCHANGED <<rowVars, cacheVars, objVars, faults>>

(***************************************************************************)
(* EnsureServices is a call_once inside the transaction: one caller builds *)
(* the mail and app services, callers that meet it wait (their connection  *)
(* in hand), and a builder that throws leaves the flag unset.              *)
(***************************************************************************)
ServicesAlreadyBuilt(r) ==
  /\ ServicesAre(r, "built")
  /\ req' = [req EXCEPT ![r].pc = "serving", ![r].outcome = "ok"]
  /\ UNCHANGED <<rowVars, cacheVars, objVars, faults>>

BuildServicesBegins(r) ==
  /\ ServicesAre(r, "none")
  /\ objs' = [objs EXCEPT ![req[r].obj].services = "building"]
  /\ Move(r, "building")
  /\ UNCHANGED <<rowVars, cacheVars, registry, evicted, total, faults>>

BuildServicesEnds(r) ==
  /\ At(r, "building")
  /\ objs' = [objs EXCEPT ![req[r].obj].services = "built"]
  /\ req' = [req EXCEPT ![r].pc = "serving", ![r].outcome = "ok"]
  /\ UNCHANGED <<rowVars, cacheVars, registry, evicted, total, faults>>

\* Mutant: a builder that throws leaves the others waiting for it.
BuildServicesStuck(r) ==
  /\ At(r, "building")
  /\ Fault
  /\ req' = [req EXCEPT ![r].pc = "serving", ![r].outcome = "signedOut"]
  /\ UNCHANGED <<rowVars, cacheVars, objVars>>

BuildServicesThrows(r) ==
  /\ At(r, "building")
  /\ Fault
  /\ objs' = [objs EXCEPT ![req[r].obj].services = "none"]
  /\ req' = [req EXCEPT ![r].pc = "serving", ![r].outcome = "signedOut"]
  /\ UNCHANGED <<rowVars, cacheVars, registry, evicted, total>>

\* The endpoint returns; its EndpointAuthHelper lets go of the resources.
Finish(r) ==
  LET o == req[r].obj IN
  /\ At(r, "serving")
  /\ Move(r, "done")
  /\ Destroy(o, Holders(o) # {r} \/ \E s \in Sites : registry[s] = o)
  /\ UNCHANGED <<rowVars, cacheVars, registry, objs, evicted, faults>>

-----------------------------------------------------------------------------
Resolves(r) ==
  ResolveFixed(r) \/ CacheHit(r) \/ CacheMiss(r) \/ LookupBySiteKey(r)
  \/ LookupThrows(r) \/ StoreResolved(r)

Initializes(r) ==
  \/ BeginOnIdleConnection(r) \/ BeginOnNewConnection(r)
  \/ InitializeOnGlobal(r) \/ SessionSetupThrows(r)
  \/ ServicesAlreadyBuilt(r) \/ BuildServicesBegins(r)
  \/ BuildServicesEnds(r) \/ BuildServicesThrows(r)

Handles(r) ==
  \/ Resolves(r) \/ GuardPasses(r) \/ GuardRejects(r)
  \/ RouteToTenant(r) \/ FactoryThrows(r) \/ RouteToGlobal(r)
  \/ Initializes(r) \/ Finish(r)

Operates(s) ==
  OnboardTenant(s) \/ SuspendTenant(s) \/ ReactivateTenant(s)
  \/ OperatorInvalidates(s) \/ OperatorEvicts(s)

\* All requests are done and the operator rests.
Rests == (\A r \in Requests : At(r, "done")) /\ UNCHANGED vars

Next ==
  \/ \E r \in Requests, k \in Keys : Arrive(r, k)
  \/ \E r \in Requests : Probe(r) \/ Handles(r)
  \/ \E s \in Sites : Operates(s)
  \/ Rests

Spec == Init /\ [][Next]_vars

(***************************************************************************)
(* A worker thread keeps going with its request.  Nothing is assumed of    *)
(* arrivals or of the operator.                                            *)
(***************************************************************************)
FairSpec == Spec /\ \A r \in Requests : WF_vars(Handles(r))

-----------------------------------------------------------------------------
(* Properties *)

Stale(k) == cache[k] # "none" /\ cache[k] # row[k]

(***************************************************************************)
(* The cache disagrees with the table only until the change is             *)
(* invalidated, or because a lookup that began before the Invalidate       *)
(* stored its answer after it.                                             *)
(***************************************************************************)
StaleOnlyByOverlap ==
  \A s \in Sites : Stale(s) => "invalidate" \in pending[s] \/ s \in overlapped

(***************************************************************************)
(* A suspension (or a missing row) that has settled, every call made and   *)
(* no older lookup under way, takes effect: no request that arrives later  *)
(* is let past the guard until the tenant is changed again.                *)
(***************************************************************************)
SuspensionTakesEffect ==
  \A r \in Requests : req[r].barred => req[r].stage = "guard" /\ req[r].obj = 0

(***************************************************************************)
(* endpoint_auth_helper.cpp, ResolveTenant: the guard has already rejected *)
(* every unknown or suspended site, so with a resolver installed a request *)
(* is never served on the deployment's global database.                    *)
(***************************************************************************)
NeverServedOnGlobal ==
  \A r \in Requests : At(r, "serving") => req[r].obj # 0

(***************************************************************************)
(* In the fixed mode it does hold: the right header or none is served on   *)
(* the one tenant's database, every other header is rejected.              *)
(***************************************************************************)
FixedNeverGlobal == mode = "fixed" => NeverServedOnGlobal

(***************************************************************************)
(* A live resources object (with its connection pool) that the registry    *)
(* does not know was evicted: between two evictions all requests of a      *)
(* tenant share one pool, which is what max_connections bounds.  And no    *)
(* request runs on another tenant's pool.                                  *)
(***************************************************************************)
OnePoolPerTenant ==
  /\ \A o \in DOMAIN objs : Live(o) =>
       registry[objs[o].site] = o \/ o \in evicted
  /\ \A r \in Requests : req[r].obj # 0 =>
       objs[req[r].obj].site = TenantOf(req[r].key)

\* The n-th connection of object o, for the pools that are alive.
LiveConnections ==
  {c \in (DOMAIN objs) \X (1 .. MaxConnections) :
     Live(c[1]) /\ c[2] <= objs[c[1]].created}

(***************************************************************************)
(* The process-wide connection count is what the live pools hold, through  *)
(* evictions that outlive the requests using the evicted pool.             *)
(***************************************************************************)
AccountingExact == total = Cardinality(LiveConnections)

(***************************************************************************)
(* A request of a tenant whose setup did not fail has the tenant's mail    *)
(* and app services, however many requests raced to build them and         *)
(* whichever builders threw; and the once-flag is held by one live builder.*)
(***************************************************************************)
ServicesReady ==
  /\ \A r \in Requests :
       At(r, "serving") /\ req[r].outcome = "ok" /\ req[r].obj # 0
         => objs[req[r].obj].services = "built"
  /\ \A o \in DOMAIN objs : objs[o].services = "building" <=>
       Cardinality({r \in Busy(o) : At(r, "building")}) = 1

(***************************************************************************)
(* Every request that arrives is answered, whatever the pool's limit, the  *)
(* builders that throw and the operator's changes.                         *)
(***************************************************************************)
EveryRequestEnds == \A r \in Requests : At(r, "find") ~> At(r, "done")

(***************************************************************************)
(* What an operator changes reaches the requests: the resolver cache of    *)
(* the control mode, and the fixed tenant.                                 *)
(***************************************************************************)
TenantChangesTakeEffect ==
  /\ StaleOnlyByOverlap
  /\ SuspensionTakesEffect
  /\ FixedNeverGlobal

(***************************************************************************)
(* TenantResourceRegistry: one pool per tenant, counted exactly, with its  *)
(* services built before use, through races, exceptions and evictions.     *)
(***************************************************************************)
ResourcesAccounted ==
  /\ TypeOK
  /\ OnePoolPerTenant
  /\ AccountingExact
  /\ ServicesReady
=============================================================================
