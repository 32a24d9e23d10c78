---------------------------- MODULE TenancyProofs ----------------------------
(***************************************************************************)
(* Tenancy for any sites, any number of requests and connections and any   *)
(* bounds: what an operator changes reaches the requests, and a tenant has *)
(* one pool, counted exactly, whose services are built before use.         *)
(***************************************************************************)
EXTENDS Tenancy, FiniteSetTheorems, SequenceTheorems, TLAPS

-----------------------------------------------------------------------------
(* Types *)

ReqType == [key : Keys, stage : Stages, pc : PCs, ctx : Statuses, old : BOOLEAN,
            obj : Nat, barred : BOOLEAN, outcome : Outcomes]

ObjType == [site : Sites, created : 0 .. MaxConnections,
            services : {"none", "building", "built"}]

StateType ==
  /\ mode \in Modes
  /\ row \in [Keys -> Statuses]
  /\ cache \in [Keys -> Statuses]
  /\ overlapped \subseteq Keys
  /\ pending \in [Sites -> SUBSET {"invalidate", "evict"}]
  /\ req \in [Requests -> ReqType]
  /\ \A r \in Requests : req[r].obj <= Len(objs)
  /\ registry \in [Sites -> 0 .. Len(objs)]
  /\ objs \in Seq(ObjType)
  /\ evicted \subseteq DOMAIN objs
  /\ changes \in 0 .. MaxChanges /\ faults \in 0 .. MaxFaults


LEMMA TypeInit == Init => StateType
<1> SUFFICES ASSUME Init PROVE StateType
  OBVIOUS
<1>1. objs \in Seq(ObjType) /\ Len(objs) = 0
  <2>1. <<>> \in Seq(ObjType)
    OBVIOUS
  <2> QED
    BY <2>1 DEF Init
<1>2. req \in [Requests -> ReqType] /\ \A r \in Requests : req[r].obj = 0
  <2> DEFINE q == [key |-> NoKey, stage |-> "guard", pc |-> "idle", ctx |-> "none",
                   old |-> FALSE, obj |-> 0, barred |-> FALSE, outcome |-> "open"]
  <2>1. q \in ReqType /\ q.obj = 0
    BY DEF ReqType, Keys, PCs, Stages, Statuses, Outcomes
  <2>2. req = [r \in Requests |-> q]
    BY DEF Init
  <2> HIDE DEF q
  <2> QED
    BY <2>1, <2>2
<1>3. cache \in [Keys -> Statuses] /\ pending \in [Sites -> SUBSET {"invalidate", "evict"}]
  BY DEF Init, Statuses
<1>4. registry \in [Sites -> 0 .. Len(objs)] /\ row \in [Keys -> Statuses]
  BY <1>1 DEF Init
<1>5. \A r \in Requests : req[r].obj <= Len(objs)
  BY <1>1, <1>2
<1>6. /\ mode \in Modes /\ overlapped = {} /\ evicted = {}
      /\ changes \in 0 .. MaxChanges /\ faults \in 0 .. MaxFaults
  BY TenancyAssumption DEF Init
<1> QED
  BY <1>1, <1>2, <1>3, <1>4, <1>5, <1>6 DEF StateType

LEMMA FaultCounts ==
  ASSUME StateType, Fault
  PROVE  faults' \in 0 .. MaxFaults
  BY TenancyAssumption DEF StateType, Fault

\* A step that leaves the resources alone.
LEMMA ReqType1 ==
  ASSUME StateType, UNCHANGED objVars, UNCHANGED mode, row' \in [Keys -> Statuses],
         cache' \in [Keys -> Statuses], overlapped' \subseteq Keys,
         pending' \in [Sites -> SUBSET {"invalidate", "evict"}],
         changes' \in 0 .. MaxChanges, faults' \in 0 .. MaxFaults,
         req' \in [Requests -> ReqType],
         \A r \in Requests : req'[r].obj = req[r].obj
  PROVE  StateType'
  BY DEF StateType, objVars

\* A request as a record of its fields, and what a step leaves of it.
Fields == {"key", "stage", "pc", "ctx", "old", "obj", "barred", "outcome"}

Keeps(r, F) == \A f \in Fields \ F : req'[r][f] = req[r][f]

OnlyReq(r) ==
  /\ req' \in [Requests -> ReqType]
  /\ \A p \in Requests : p # r => req'[p] = req[p]

LEMMA OneRequest ==
  ASSUME StateType, NEW r \in Requests, NEW q \in ReqType, req' = [req EXCEPT ![r] = q]
  PROVE  OnlyReq(r) /\ req'[r] = q
  BY DEF StateType, OnlyReq

LEMMA ArriveMoves ==
  ASSUME StateType, NEW r \in Requests, NEW k \in Keys, Arrive(r, k)
  PROVE  /\ OnlyReq(r) /\ Keeps(r, {"key", "pc", "barred"})
         /\ req'[r].pc = "find" /\ req'[r].key = k
         /\ req'[r].barred => mode = "control" /\ Settled(k)
<1>0. PICK b \in BOOLEAN : b = (mode = "control" /\ Settled(k))
  OBVIOUS
<1> DEFINE q == [req[r] EXCEPT !.key = k, !.pc = "find", !.barred = b]
<1>1. req[r] \in ReqType /\ req' = [req EXCEPT ![r] = q]
  BY <1>0 DEF StateType, Arrive
<1>2. q \in ReqType
  BY <1>0, <1>1 DEF ReqType, PCs, Stages
<1>3. q.key = k /\ q.pc = "find" /\ q.barred = b
      /\ \A f \in Fields \ {"key", "pc", "barred"} : q[f] = req[r][f]
  BY <1>1 DEF ReqType, Fields
<1> HIDE DEF q
<1>4. OnlyReq(r) /\ req'[r] = q
  BY <1>1, <1>2, OneRequest
<1> QED
  BY <1>0, <1>3, <1>4 DEF Keeps

LEMMA FailsMoves ==
  ASSUME StateType, NEW r \in Requests, NEW out \in Outcomes, Fails(r, out)
  PROVE  /\ OnlyReq(r) /\ Keeps(r, {"pc", "outcome"})
         /\ req'[r].pc = "done"
<1> DEFINE q == [req[r] EXCEPT !.pc = "done", !.outcome = out]
<1>1. req[r] \in ReqType /\ req' = [req EXCEPT ![r] = q]
  BY DEF StateType, Fails
<1>2. q \in ReqType
  BY <1>1 DEF ReqType, PCs, Stages
<1>3. q.pc = "done" /\ q.outcome = out
      /\ \A f \in Fields \ {"pc", "outcome"} : q[f] = req[r][f]
  BY <1>1 DEF ReqType, Fields
<1> HIDE DEF q
<1>4. OnlyReq(r) /\ req'[r] = q
  BY <1>1, <1>2, OneRequest
<1> QED
  BY <1>3, <1>4 DEF Keeps

LEMMA MoveMoves ==
  ASSUME StateType, NEW r \in Requests, NEW pc \in PCs, Move(r, pc)
  PROVE  /\ OnlyReq(r) /\ Keeps(r, {"pc"})
         /\ req'[r].pc = pc
<1> DEFINE q == [req[r] EXCEPT !.pc = pc]
<1>1. req[r] \in ReqType /\ req' = [req EXCEPT ![r] = q]
  BY DEF StateType, Move
<1>2. q \in ReqType
  BY <1>1 DEF ReqType, PCs, Stages
<1>3. q.pc = pc
      /\ \A f \in Fields \ {"pc"} : q[f] = req[r][f]
  BY <1>1 DEF ReqType, Fields
<1> HIDE DEF q
<1>4. OnlyReq(r) /\ req'[r] = q
  BY <1>1, <1>2, OneRequest
<1> QED
  BY <1>3, <1>4 DEF Keeps

LEMMA DecideMoves ==
  ASSUME StateType, NEW r \in Requests, NEW ctx \in Statuses,
         req' = [req EXCEPT ![r].pc = "decide", ![r].ctx = ctx]
  PROVE  /\ OnlyReq(r) /\ Keeps(r, {"pc", "ctx"})
         /\ req'[r].pc = "decide" /\ req'[r].ctx = ctx
<1> DEFINE q == [req[r] EXCEPT !.pc = "decide", !.ctx = ctx]
<1>1. req[r] \in ReqType /\ req' = [req EXCEPT ![r] = q]
  BY DEF StateType
<1>2. q \in ReqType
  BY <1>1 DEF ReqType, PCs, Stages
<1>3. q.pc = "decide" /\ q.ctx = ctx
      /\ \A f \in Fields \ {"pc", "ctx"} : q[f] = req[r][f]
  BY <1>1 DEF ReqType, Fields
<1> HIDE DEF q
<1>4. OnlyReq(r) /\ req'[r] = q
  BY <1>1, <1>2, OneRequest
<1> QED
  BY <1>3, <1>4 DEF Keeps

LEMMA LookupMoves ==
  ASSUME StateType, NEW r \in Requests, LookupBySiteKey(r)
  PROVE  /\ OnlyReq(r) /\ Keeps(r, {"ctx", "old", "pc"})
         /\ req'[r].ctx = row[req[r].key] /\ ~req'[r].old
         /\ req'[r].pc \in {"decide", "store"}
         /\ req'[r].pc = "store" => row[req[r].key] # "none"
<1>0. req[r].key \in Keys
  BY DEF StateType, ReqType
<1>b. PICK ctx \in Statuses : ctx = row[req[r].key]
  BY <1>0 DEF StateType
<1>c. PICK pc \in {"decide", "store"} : pc = IF row[req[r].key] = "none" THEN "decide" ELSE "store"
  OBVIOUS
<1> DEFINE q == [req[r] EXCEPT !.ctx = ctx, !.old = FALSE, !.pc = pc]
<1>1. req[r] \in ReqType /\ req' = [req EXCEPT ![r] = q]
  BY <1>b, <1>c DEF StateType, LookupBySiteKey
<1>2. q \in ReqType
  BY <1>b, <1>c, <1>1 DEF ReqType, PCs, Stages
<1>3. q.ctx = ctx /\ q.old = FALSE /\ q.pc = pc
      /\ \A f \in Fields \ {"ctx", "old", "pc"} : q[f] = req[r][f]
  BY <1>1 DEF ReqType, Fields
<1> HIDE DEF q
<1>4. OnlyReq(r) /\ req'[r] = q
  BY <1>1, <1>2, OneRequest
<1> QED
  BY <1>b, <1>c, <1>3, <1>4 DEF Keeps

LEMMA GuardPassesMoves ==
  ASSUME StateType, NEW r \in Requests, GuardPasses(r)
  PROVE  /\ OnlyReq(r) /\ Keeps(r, {"pc", "stage"})
         /\ req'[r].pc = "find" /\ req'[r].stage = "route"
<1> DEFINE q == [req[r] EXCEPT !.pc = "find", !.stage = "route"]
<1>1. req[r] \in ReqType /\ req' = [req EXCEPT ![r] = q]
  BY DEF StateType, GuardPasses
<1>2. q \in ReqType
  BY <1>1 DEF ReqType, PCs, Stages
<1>3. q.pc = "find" /\ q.stage = "route"
      /\ \A f \in Fields \ {"pc", "stage"} : q[f] = req[r][f]
  BY <1>1 DEF ReqType, Fields
<1> HIDE DEF q
<1>4. OnlyReq(r) /\ req'[r] = q
  BY <1>1, <1>2, OneRequest
<1> QED
  BY <1>3, <1>4 DEF Keeps

LEMMA ServesMoves ==
  ASSUME StateType, NEW r \in Requests, NEW out \in Outcomes,
         req' = [req EXCEPT ![r].pc = "serving", ![r].outcome = out]
  PROVE  /\ OnlyReq(r) /\ Keeps(r, {"pc", "outcome"})
         /\ req'[r].pc = "serving" /\ req'[r].outcome = out
<1> DEFINE q == [req[r] EXCEPT !.pc = "serving", !.outcome = out]
<1>1. req[r] \in ReqType /\ req' = [req EXCEPT ![r] = q]
  BY DEF StateType
<1>2. q \in ReqType
  BY <1>1 DEF ReqType, PCs, Stages
<1>3. q.pc = "serving" /\ q.outcome = out
      /\ \A f \in Fields \ {"pc", "outcome"} : q[f] = req[r][f]
  BY <1>1 DEF ReqType, Fields
<1> HIDE DEF q
<1>4. OnlyReq(r) /\ req'[r] = q
  BY <1>1, <1>2, OneRequest
<1> QED
  BY <1>3, <1>4 DEF Keeps

LEMMA TakesMoves ==
  ASSUME StateType, NEW r \in Requests, NEW o \in Nat,
         req' = [req EXCEPT ![r].pc = "init", ![r].obj = o]
  PROVE  /\ OnlyReq(r) /\ Keeps(r, {"pc", "obj"})
         /\ req'[r].pc = "init" /\ req'[r].obj = o
<1> DEFINE q == [req[r] EXCEPT !.pc = "init", !.obj = o]
<1>1. req[r] \in ReqType /\ req' = [req EXCEPT ![r] = q]
  BY DEF StateType
<1>2. q \in ReqType
  BY <1>1 DEF ReqType, PCs, Stages
<1>3. q.pc = "init" /\ q.obj = o
      /\ \A f \in Fields \ {"pc", "obj"} : q[f] = req[r][f]
  BY <1>1 DEF ReqType, Fields
<1> HIDE DEF q
<1>4. OnlyReq(r) /\ req'[r] = q
  BY <1>1, <1>2, OneRequest
<1> QED
  BY <1>3, <1>4 DEF Keeps

\* Operators touch every request, but only its marks.
LEMMA ChangeTenantMoves ==
  ASSUME StateType, NEW s \in Sites, NEW status, ChangeTenant(s, status)
  PROVE  /\ req' \in [Requests -> ReqType]
         /\ \A r \in Requests : Keeps(r, {"barred"}) /\ (req'[r].barred => req[r].barred /\ req[r].key # s)
<1>1. ASSUME NEW r \in Requests
      PROVE  /\ req'[r] \in ReqType /\ Keeps(r, {"barred"})
             /\ req'[r].barred => req[r].barred /\ req[r].key # s
  <2>1. req[r] \in ReqType
    BY DEF StateType
  <2>2. CASE req[r].key = s
    <3>1. req'[r] = [req[r] EXCEPT !.barred = FALSE]
      BY <2>2 DEF ChangeTenant
    <3> QED
      BY <2>1, <3>1 DEF ReqType, Keeps, Fields
  <2>3. CASE req[r].key # s
    <3>1. req'[r] = req[r]
      BY <2>3 DEF ChangeTenant
    <3> QED
      BY <2>1, <2>3, <3>1 DEF Keeps
  <2> QED
    BY <2>2, <2>3
<1>2. req' = [r \in Requests |-> req'[r]]
  BY DEF ChangeTenant
<1> QED
  BY <1>1, <1>2

LEMMA MarkMoves ==
  ASSUME StateType, NEW K, MarkOverlapped(K)
  PROVE  /\ req' \in [Requests -> ReqType]
         /\ \A r \in Requests :
              /\ Keeps(r, {"old"})
              /\ req'[r].old <=> req[r].old \/ (req[r].pc = "store" /\ req[r].key \in K)
<1>1. ASSUME NEW r \in Requests
      PROVE  /\ req'[r] \in ReqType /\ Keeps(r, {"old"})
             /\ req'[r].old <=> req[r].old \/ (req[r].pc = "store" /\ req[r].key \in K)
  <2>1. req[r] \in ReqType
    BY DEF StateType
  <2>2. PICK b \in BOOLEAN : b <=> req[r].old \/ (req[r].pc = "store" /\ req[r].key \in K)
    OBVIOUS
  <2>3. req'[r] = [req[r] EXCEPT !.old = b]
    BY <2>1, <2>2 DEF MarkOverlapped, ReqType
  <2> QED
    BY <2>1, <2>2, <2>3 DEF ReqType, Keeps, Fields
<1>2. req' = [r \in Requests |-> req'[r]]
  BY DEF MarkOverlapped
<1> QED
  BY <1>1, <1>2

-----------------------------------------------------------------------------
(* The resources: inductive invariant *)

\* A request has its resources from GetOrCreate on; what it may rely on.
Routed(r) ==
  LET o == req[r].obj IN
  /\ req[r].pc \in {"idle", "find", "lookup", "store", "decide"} => o = 0
  /\ req[r].pc \in {"inTx", "building"} => o # 0
  /\ req[r].pc = "building" => objs[o].services = "building"
  /\ req[r].pc = "serving" /\ req[r].outcome = "ok" /\ o # 0 => objs[o].services = "built"

Registered == \A s \in Sites : registry[s] # 0 => objs[registry[s]].site = s

\* The once-flag is held by exactly one builder.
OneBuilder ==
  /\ \A p, r \in Requests :
       req[p].pc = "building" /\ req[r].pc = "building" /\ req[p].obj = req[r].obj => p = r
  /\ \A o \in DOMAIN objs : objs[o].services = "building" =>
       \E r \in Requests : req[r].pc = "building" /\ req[r].obj = o

ResInv ==
  /\ StateType
  /\ \A r \in Requests : Routed(r)
  /\ Registered
  /\ OnePoolPerTenant
  /\ OneBuilder
  /\ AccountingExact

\* What is alive decides the count: the same objects with the same connections
\* are the same count.
LEMMA SameConnections ==
  ASSUME DOMAIN objs' = DOMAIN objs,
         \A o \in DOMAIN objs : objs'[o].created = objs[o].created,
         \A o \in DOMAIN objs : Live(o)' <=> Live(o)
  PROVE  LiveConnections' = LiveConnections
  BY DEF LiveConnections

LEMMA SameLive ==
  ASSUME StateType, UNCHANGED registry,
         \A r \in Requests : req'[r].obj = req[r].obj,
         \A r \in Requests : req[r].obj # 0 => (req'[r].pc = "done" <=> req[r].pc = "done")
  PROVE  \A o \in DOMAIN objs : Live(o)' <=> Live(o)
<1> TAKE o \in DOMAIN objs
<1>1. o # 0
  BY DEF StateType
<1> QED
  BY <1>1 DEF Live, Holders

\* Steps of requests and operators that leave the resources alone.
LEMMA QuietKeeps ==
  ASSUME ResInv, StateType', UNCHANGED <<mode, objVars>>,
         \A r \in Requests :
           /\ req'[r].obj = req[r].obj
           /\ req[r].obj # 0 => req'[r].key = req[r].key
           /\ req[r].obj # 0 => (req'[r].pc = "done" <=> req[r].pc = "done")
           /\ req'[r].pc = "building" <=> req[r].pc = "building"
           /\ Routed(r)'
  PROVE  ResInv'
<1>1. UNCHANGED <<mode, registry, objs, evicted, total>>
  BY DEF objVars
<1>2. \A o \in DOMAIN objs : Live(o)' <=> Live(o)
  BY <1>1, SameLive DEF ResInv
<1>3. Registered'
  BY <1>1 DEF ResInv, Registered
<1>4. OnePoolPerTenant'
  BY <1>1, <1>2 DEF ResInv, OnePoolPerTenant, TenantOf
<1>5. OneBuilder'
  BY <1>1 DEF ResInv, OneBuilder
<1>6. AccountingExact'
  BY <1>1, <1>2, SameConnections DEF ResInv, AccountingExact
<1> QED
  BY <1>3, <1>4, <1>5, <1>6 DEF ResInv

\* The same for a step of one request.
LEMMA QuietRequest ==
  ASSUME ResInv, StateType', UNCHANGED <<mode, objVars>>, NEW r \in Requests, OnlyReq(r),
         req'[r].obj = req[r].obj,
         req[r].obj # 0 => req'[r].key = req[r].key,
         req[r].obj # 0 => (req'[r].pc = "done" <=> req[r].pc = "done"),
         req'[r].pc # "building", req[r].pc # "building",
         Routed(r)'
  PROVE  ResInv'
<1>1. UNCHANGED objs
  BY DEF objVars
<1>2. ASSUME NEW p \in Requests, p # r PROVE Routed(p)' /\ req'[p] = req[p]
  BY <1>1, <1>2 DEF ResInv, OnlyReq, Routed
<1> QED
  BY <1>2, QuietKeeps

LEMMA QuietType ==
  ASSUME StateType, NEW r \in Requests, OnlyReq(r), req'[r].obj = req[r].obj,
         UNCHANGED <<rowVars, objVars>>,
         cache' \in [Keys -> Statuses], overlapped' \subseteq Keys,
         faults' \in 0 .. MaxFaults
  PROVE  StateType' /\ UNCHANGED <<mode, objVars>>
<1>1. \A p \in Requests : req'[p].obj = req[p].obj
  BY DEF OnlyReq
<1>2. UNCHANGED <<mode, row, pending, changes>>
  BY DEF rowVars
<1> QED
  BY <1>1, <1>2, ReqType1 DEF StateType, OnlyReq

\* Before a request has resources: whatever it does, it may rely on nothing.
LEMMA UnroutedKeeps ==
  ASSUME ResInv, NEW r \in Requests, OnlyReq(r), req'[r].obj = req[r].obj,
         req[r].pc \in {"idle", "find", "lookup", "store", "decide"},
         req'[r].pc \in {"find", "lookup", "store", "decide", "done", "init"},
         UNCHANGED <<rowVars, objVars>>,
         cache' \in [Keys -> Statuses], overlapped' \subseteq Keys,
         faults' \in 0 .. MaxFaults
  PROVE  ResInv'
<1>1. req[r].obj = 0
  BY DEF ResInv, Routed
<1>2. StateType' /\ UNCHANGED <<mode, objVars>>
  BY QuietType DEF ResInv
<1>3. Routed(r)'
  BY <1>1 DEF Routed
<1> QED
  BY <1>1, <1>2, <1>3, QuietRequest

LEMMA ResolvesKeeps ==
  ASSUME ResInv, NEW r \in Requests,
         \/ \E k \in Keys : Arrive(r, k)
         \/ Probe(r) \/ Resolves(r) \/ GuardPasses(r) \/ GuardRejects(r)
         \/ FactoryThrows(r) \/ RouteToGlobal(r)
  PROVE  ResInv'
<1>1. /\ StateType /\ faults \in 0 .. MaxFaults
      /\ cache \in [Keys -> Statuses] /\ overlapped \subseteq Keys
      /\ req[r].key \in Keys /\ req[r].ctx \in Statuses
  BY DEF ResInv, StateType, ReqType
<1>2. ASSUME NEW k \in Keys, Arrive(r, k) PROVE ResInv'
  <2>1. req[r].pc = "idle" /\ UNCHANGED <<rowVars, objVars, cache, overlapped, faults>>
    BY <1>2 DEF Arrive, At, cacheVars
  <2>2. OnlyReq(r) /\ req'[r].obj = req[r].obj /\ req'[r].pc = "find"
    BY <1>1, <1>2, ArriveMoves DEF Keeps, Fields
  <2> QED
    BY <1>1, <2>1, <2>2, UnroutedKeeps
<1>3. ASSUME NEW out \in Outcomes, Fails(r, out),
             req[r].pc \in {"idle", "lookup", "decide"},
             UNCHANGED <<rowVars, objVars, cache, overlapped>>, faults' \in 0 .. MaxFaults
      PROVE  ResInv'
  <2>1. OnlyReq(r) /\ req'[r].obj = req[r].obj /\ req'[r].pc = "done"
    BY <1>1, <1>3, FailsMoves DEF Keeps, Fields
  <2> QED
    BY <1>1, <1>3, <2>1, UnroutedKeeps
<1>4. CASE Probe(r)
  BY <1>1, <1>3, <1>4 DEF Probe, At, cacheVars, Outcomes
<1>5. ASSUME NEW ctx \in Statuses, req[r].pc = "find",
             req' = [req EXCEPT ![r].pc = "decide", ![r].ctx = ctx],
             UNCHANGED <<rowVars, objVars, cache, overlapped, faults>>
      PROVE  ResInv'
  <2>1. OnlyReq(r) /\ req'[r].obj = req[r].obj /\ req'[r].pc = "decide"
    BY <1>1, <1>5, DecideMoves DEF Keeps, Fields
  <2> QED
    BY <1>1, <1>5, <2>1, UnroutedKeeps
<1>6. CASE ResolveFixed(r)
  <2>1. (IF req[r].key \in {NoKey, FixedSite} THEN "active" ELSE "none") \in Statuses
    BY DEF Statuses
  <2> QED
    BY <1>5, <1>6, <2>1 DEF ResolveFixed, At, cacheVars
<1>7. CASE CacheHit(r)
  <2>1. cache[req[r].key] \in Statuses
    BY <1>1
  <2> QED
    BY <1>5, <1>7, <2>1 DEF CacheHit, Control, At, cacheVars
<1>8. ASSUME NEW pc \in {"lookup", "init"}, Move(r, pc), req[r].pc \in {"find", "decide"},
             UNCHANGED <<rowVars, objVars, cache, overlapped, faults>>
      PROVE  ResInv'
  <2>1. OnlyReq(r) /\ req'[r].obj = req[r].obj /\ req'[r].pc = pc
    BY <1>1, <1>8, MoveMoves DEF Keeps, Fields, PCs
  <2> QED
    BY <1>1, <1>8, <2>1, UnroutedKeeps
<1>9. CASE CacheMiss(r)
  BY <1>8, <1>9 DEF CacheMiss, Control, At, cacheVars
<1>10. CASE RouteToGlobal(r)
  BY <1>8, <1>10 DEF RouteToGlobal, Decides, At, cacheVars
<1>11. CASE LookupBySiteKey(r)
  <2>1. OnlyReq(r) /\ req'[r].obj = req[r].obj /\ req'[r].pc \in {"decide", "store"}
    BY <1>1, <1>11, LookupMoves DEF Keeps, Fields
  <2> QED
    BY <1>1, <1>11, <2>1, UnroutedKeeps DEF LookupBySiteKey, At, cacheVars
<1>12. CASE LookupThrows(r)
  BY <1>1, <1>3, <1>12, FaultCounts DEF LookupThrows, At, cacheVars, Outcomes
<1>13. CASE StoreResolved(r)
  <2>1. OnlyReq(r) /\ req'[r].obj = req[r].obj /\ req'[r].pc = "decide"
    BY <1>1, <1>13, MoveMoves DEF StoreResolved, Keeps, Fields, PCs
  <2>2. cache' \in [Keys -> Statuses] /\ overlapped' \subseteq Keys
    BY <1>1, <1>13 DEF StoreResolved
  <2> QED
    BY <1>1, <1>13, <2>1, <2>2, UnroutedKeeps DEF StoreResolved, At
<1>14. CASE GuardPasses(r)
  <2>1. OnlyReq(r) /\ req'[r].obj = req[r].obj /\ req'[r].pc = "find"
    BY <1>1, <1>14, GuardPassesMoves DEF Keeps, Fields
  <2> QED
    BY <1>1, <1>14, <2>1, UnroutedKeeps DEF GuardPasses, Decides, At, cacheVars
<1>15. CASE GuardRejects(r)
  <2>1. Rejection(r) \in Outcomes
    BY DEF Rejection, Outcomes
  <2> QED
    BY <1>1, <1>3, <1>15, <2>1 DEF GuardRejects, Decides, At, cacheVars
<1>16. CASE FactoryThrows(r)
  BY <1>1, <1>3, <1>16, FaultCounts DEF FactoryThrows, Decides, At, cacheVars, Outcomes
<1> QED
  BY <1>2, <1>4, <1>6, <1>7, <1>9, <1>10, <1>11, <1>12, <1>13, <1>14, <1>15, <1>16
  DEF Resolves

-----------------------------------------------------------------------------
(* The resources: initially, and in the steps that leave them alone *)

LEMMA ResInit == Init => ResInv
<1> SUFFICES ASSUME Init PROVE ResInv
  OBVIOUS
<1>1. StateType
  BY TypeInit
<1>2. \A r \in Requests : req[r].obj = 0 /\ req[r].pc = "idle"
  BY DEF Init
<1>3. DOMAIN objs = {} /\ total = 0 /\ \A s \in Sites : registry[s] = 0
  BY DEF Init
<1>4. LiveConnections = {}
  BY <1>3 DEF LiveConnections
<1>5. AccountingExact
  BY <1>3, <1>4, FS_EmptySet DEF AccountingExact
<1> QED
  BY <1>1, <1>2, <1>3, <1>5 DEF ResInv, Routed, Registered, OnePoolPerTenant, OneBuilder

LEMMA ResStutter ==
  ASSUME ResInv, UNCHANGED vars
  PROVE  ResInv'
<1>1. /\ UNCHANGED <<mode, row, pending, changes, cache, overlapped, req, faults>>
      /\ UNCHANGED objVars
      /\ UNCHANGED objs
  BY DEF vars, rowVars, cacheVars, objVars
<1>2. StateType'
  BY <1>1 DEF ResInv, StateType, objVars
<1>3. \A r \in Requests : Routed(r)'
  BY <1>1 DEF ResInv, Routed
<1> QED
  BY <1>1, <1>2, <1>3, QuietKeeps

\* A request in its prologue that touches no object.
LEMMA PrologueKeeps ==
  ASSUME ResInv, NEW r \in Requests,
         \/ BeginOnIdleConnection(r) \/ InitializeOnGlobal(r)
         \/ SessionSetupThrows(r) \/ ServicesAlreadyBuilt(r)
  PROVE  ResInv'
<1>1. /\ StateType /\ faults \in 0 .. MaxFaults
      /\ cache \in [Keys -> Statuses] /\ overlapped \subseteq Keys
  BY DEF ResInv, StateType
<1>2. ASSUME OnlyReq(r), Keeps(r, {"pc", "outcome"}), req[r].pc \in {"init", "inTx"},
             req'[r].pc \in {"inTx", "serving"},
             UNCHANGED <<rowVars, objVars, cache, overlapped>>, faults' \in 0 .. MaxFaults,
             Routed(r)'
      PROVE  ResInv'
  <2>1. req'[r].obj = req[r].obj /\ req'[r].key = req[r].key
    BY <1>2 DEF Keeps, Fields
  <2>2. StateType' /\ UNCHANGED <<mode, objVars>>
    BY <1>1, <1>2, <2>1, QuietType
  <2> QED
    BY <1>2, <2>1, <2>2, QuietRequest
<1>3. CASE BeginOnIdleConnection(r)
  <2>1. OnlyReq(r) /\ Keeps(r, {"pc"}) /\ req'[r].pc = "inTx"
    BY <1>1, <1>3, MoveMoves DEF BeginOnIdleConnection, PCs
  <2>2. Keeps(r, {"pc", "outcome"}) /\ req'[r].obj = req[r].obj
    BY <2>1 DEF Keeps, Fields
  <2>3. Routed(r)'
    BY <1>3, <2>1, <2>2 DEF Routed, BeginOnIdleConnection
  <2> QED
    BY <1>1, <1>2, <1>3, <2>1, <2>2, <2>3 DEF BeginOnIdleConnection, At, cacheVars
<1>4. ASSUME NEW out \in {"ok", "signedOut"}, req[r].pc \in {"init", "inTx"},
             req' = [req EXCEPT ![r].pc = "serving", ![r].outcome = out],
             out = "ok" /\ req[r].obj # 0 => objs[req[r].obj].services = "built",
             UNCHANGED <<rowVars, objVars, cache, overlapped>>, faults' \in 0 .. MaxFaults
      PROVE  ResInv'
  <2>1. /\ OnlyReq(r) /\ Keeps(r, {"pc", "outcome"})
        /\ req'[r].pc = "serving" /\ req'[r].outcome = out
    BY <1>1, <1>4, ServesMoves DEF Outcomes
  <2>2. req'[r].obj = req[r].obj /\ objs' = objs
    BY <1>4, <2>1 DEF Keeps, Fields, objVars
  <2>3. Routed(r)'
    BY <1>4, <2>1, <2>2 DEF Routed
  <2> QED
    BY <1>2, <1>4, <2>1, <2>3
<1>5. CASE InitializeOnGlobal(r)
  BY <1>1, <1>4, <1>5 DEF InitializeOnGlobal, At, cacheVars
<1>6. CASE SessionSetupThrows(r)
  BY <1>1, <1>4, <1>6, FaultCounts DEF SessionSetupThrows, At, cacheVars
<1>7. CASE ServicesAlreadyBuilt(r)
  BY <1>1, <1>4, <1>7 DEF ServicesAlreadyBuilt, ServicesAre, At, cacheVars
<1> QED
  BY <1>3, <1>5, <1>6, <1>7

\* The operator's steps, but for the eviction.
LEMMA OperatorKeeps ==
  ASSUME ResInv, NEW s \in Sites,
         \/ OnboardTenant(s) \/ SuspendTenant(s) \/ ReactivateTenant(s)
         \/ OperatorInvalidates(s)
  PROVE  ResInv'
<1>1. StateType
  BY DEF ResInv
<1>2. ASSUME NEW f \in {"barred", "old"}, \A r \in Requests : Keeps(r, {f}),
             StateType', UNCHANGED <<mode, objVars>>
      PROVE  ResInv'
  <2>1. ASSUME NEW r \in Requests
        PROVE  /\ req'[r].obj = req[r].obj /\ req'[r].key = req[r].key
               /\ req'[r].pc = req[r].pc /\ req'[r].outcome = req[r].outcome
    BY <1>2, <2>1 DEF Keeps, Fields
  <2>2. objs' = objs
    BY <1>2 DEF objVars
  <2>3. \A r \in Requests : Routed(r)'
    BY <2>1, <2>2 DEF Routed, ResInv
  <2> QED
    BY <1>2, <2>1, <2>3, QuietKeeps
<1>3. ASSUME NEW status \in Statuses, ChangeTenant(s, status) PROVE ResInv'
  <2>1. /\ req' \in [Requests -> ReqType]
        /\ \A r \in Requests : Keeps(r, {"barred"})
    BY <1>1, <1>3, ChangeTenantMoves
  <2>2. \A r \in Requests : req'[r].obj = req[r].obj
    BY <2>1 DEF Keeps, Fields
  <2>3. row' \in [Keys -> Statuses] /\ pending' \in [Sites -> SUBSET {"invalidate", "evict"}]
    BY <1>1, <1>3 DEF ChangeTenant, StateType, Keys
  <2>4. changes' \in 0 .. MaxChanges
    BY <1>1, <1>3, TenancyAssumption DEF ChangeTenant, StateType
  <2>5. UNCHANGED <<mode, objVars, cache, overlapped, faults>>
    BY <1>3 DEF ChangeTenant, cacheVars
  <2>6. StateType'
    BY <1>1, <2>1, <2>2, <2>3, <2>4, <2>5, ReqType1 DEF StateType
  <2> QED
    BY <1>2, <2>1, <2>5, <2>6
<1>4. CASE OperatorInvalidates(s)
  <2>1. PICK K \in {{s}, Keys} :
          /\ MarkOverlapped(K)
          /\ cache' \in [Keys -> Statuses] /\ overlapped' \subseteq Keys
    BY <1>1, <1>4 DEF OperatorInvalidates, Invalidate, InvalidateAll, StateType, Statuses
  <2>2. /\ req' \in [Requests -> ReqType]
        /\ \A r \in Requests : Keeps(r, {"old"})
    BY <1>1, <2>1, MarkMoves
  <2>3. \A r \in Requests : req'[r].obj = req[r].obj
    BY <2>2 DEF Keeps, Fields
  <2>4. pending' \in [Sites -> SUBSET {"invalidate", "evict"}]
    BY <1>1, <1>4 DEF OperatorInvalidates, StateType
  <2>5. UNCHANGED <<mode, row, changes, objVars, faults>>
    BY <1>4 DEF OperatorInvalidates
  <2>6. StateType'
    BY <1>1, <2>1, <2>2, <2>3, <2>4, <2>5, ReqType1 DEF StateType
  <2> QED
    BY <1>2, <2>2, <2>5, <2>6
<1> QED
  BY <1>3, <1>4 DEF OnboardTenant, SuspendTenant, ReactivateTenant, Statuses

-----------------------------------------------------------------------------
(* The resources: steps that change an object *)

\* The object a request holds is one that was built.
LEMMA HeldObject ==
  ASSUME StateType, NEW r \in Requests, req[r].obj # 0
  PROVE  /\ req[r].obj \in 1 .. Len(objs) /\ req[r].obj \in DOMAIN objs
         /\ objs[req[r].obj] \in ObjType
<1>1. req[r] \in ReqType /\ req[r].obj <= Len(objs) /\ objs \in Seq(ObjType)
  BY DEF StateType
<1>2. req[r].obj \in Nat
  BY <1>1 DEF ReqType
<1>3. req[r].obj \in 1 .. Len(objs) /\ DOMAIN objs = 1 .. Len(objs)
  BY <1>1, <1>2
<1> QED
  BY <1>1, <1>3

LEMMA ObjectsTyped ==
  ASSUME StateType, NEW q \in DOMAIN objs
  PROVE  objs[q].site \in Sites
<1>1. objs[q] \in ObjType
  BY DEF StateType
<1> QED
  BY <1>1 DEF ObjType

LEMMA ObjectChanges ==
  ASSUME StateType, NEW o \in DOMAIN objs, NEW e \in ObjType,
         objs' = [objs EXCEPT ![o] = e]
  PROVE  /\ objs' \in Seq(ObjType) /\ Len(objs') = Len(objs)
         /\ DOMAIN objs' = DOMAIN objs
         /\ objs'[o] = e
         /\ \A p \in DOMAIN objs : p # o => objs'[p] = objs[p]
<1>1. objs \in Seq(ObjType) /\ DOMAIN objs = 1 .. Len(objs)
  BY DEF StateType
<1>2. /\ objs' \in Seq(ObjType) /\ Len(objs') = Len(objs)
      /\ \A j \in 1 .. Len(objs) : objs'[j] = IF j = o THEN e ELSE objs[j]
  BY <1>1, ExceptSeq
<1> QED
  BY <1>1, <1>2

\* The types, when a request and its object change.
LEMMA ObjectType ==
  ASSUME StateType, NEW r \in Requests, OnlyReq(r), req'[r].obj = req[r].obj,
         objs' \in Seq(ObjType), Len(objs') = Len(objs), DOMAIN objs' = DOMAIN objs,
         UNCHANGED <<rowVars, cacheVars, registry, evicted>>, faults' \in 0 .. MaxFaults
  PROVE  StateType' /\ UNCHANGED mode
<1>1. UNCHANGED <<mode, row, pending, changes, cache, overlapped>>
  BY DEF rowVars, cacheVars
<1>2. \A p \in Requests : req'[p].obj = req[p].obj
  BY DEF OnlyReq
<1> QED
  BY <1>1, <1>2 DEF StateType, OnlyReq

\* A step of a request that holds an object, where only its pc, its outcome and
\* the object's services change.
LEMMA ServicesKeeps ==
  ASSUME ResInv, NEW r \in Requests, req[r].obj # 0,
         NEW v \in {"none", "building", "built"},
         objs' = [objs EXCEPT ![req[r].obj].services = v],
         OnlyReq(r), Keeps(r, {"pc", "outcome"}),
         UNCHANGED <<rowVars, cacheVars, registry, evicted, total>>,
         faults' \in 0 .. MaxFaults,
         \/ /\ req[r].pc = "inTx" /\ objs[req[r].obj].services = "none"
            /\ req'[r].pc = "building" /\ v = "building"
         \/ /\ req[r].pc = "building" /\ req'[r].pc = "serving"
            /\ v = "built" \/ (v = "none" /\ req'[r].outcome = "signedOut")
  PROVE  ResInv'
<1>1. PICK o \in DOMAIN objs : o = req[r].obj /\ o # 0 /\ objs[o] \in ObjType
  BY HeldObject DEF ResInv
<1>2. req'[r].obj = o /\ req'[r].key = req[r].key
  BY <1>1 DEF Keeps, Fields
<1> DEFINE e == [objs[o] EXCEPT !.services = v]
<1>3. /\ e \in ObjType /\ e.site = objs[o].site /\ e.created = objs[o].created
      /\ e.services = v
  BY <1>1 DEF ObjType
<1>4. objs' = [objs EXCEPT ![o] = e]
  BY <1>1
<1> HIDE DEF e
<1>5. /\ objs' \in Seq(ObjType) /\ Len(objs') = Len(objs) /\ DOMAIN objs' = DOMAIN objs
      /\ objs'[o] = e /\ \A p \in DOMAIN objs : p # o => objs'[p] = objs[p]
  BY <1>3, <1>4, ObjectChanges DEF ResInv
<1>6. StateType' /\ UNCHANGED mode
  BY <1>1, <1>2, <1>5, ObjectType DEF ResInv
<1>7. \A p \in Requests : p # r => req'[p] = req[p]
  BY DEF OnlyReq
<1>8. \A q \in DOMAIN objs : Live(q)' <=> Live(q)
  BY <1>1, <1>2, <1>7, SameLive DEF ResInv
<1>9. \A q \in DOMAIN objs : objs'[q].site = objs[q].site /\ objs'[q].created = objs[q].created
  BY <1>3, <1>5
<1>10. objs[o].services \in {"none", "building"}
  BY <1>1 DEF ResInv, Routed
<1>11. ASSUME NEW p \in Requests PROVE Routed(p)'
  <2>1. CASE p = r
    BY <1>1, <1>2, <1>3, <1>5, <2>1 DEF Routed
  <2>2. CASE p # r /\ req[p].obj # o
    <3>1. req[p].obj # 0 => req[p].obj \in DOMAIN objs
      BY HeldObject DEF ResInv
    <3>2. req'[p] = req[p] /\ (req[p].obj # 0 => objs'[req[p].obj] = objs[req[p].obj])
      BY <1>5, <1>7, <2>2, <3>1
    <3>3. Routed(p)
      BY DEF ResInv
    <3> QED
      BY <3>2, <3>3 DEF Routed
  <2>3. CASE p # r /\ req[p].obj = o
    <3>1. req[p].pc # "building"
      BY <1>1, <2>3 DEF ResInv, Routed, OneBuilder
    <3>2. ~(req[p].pc = "serving" /\ req[p].outcome = "ok")
      BY <1>1, <1>10, <2>3 DEF ResInv, Routed
    <3> QED
      BY <1>7, <2>3, <3>1, <3>2 DEF ResInv, Routed
  <2> QED
    BY <2>1, <2>2, <2>3
<1>12. Registered'
  <2>1. \A s \in Sites : registry[s] # 0 => registry[s] \in DOMAIN objs
    BY DEF ResInv, StateType
  <2> QED
    BY <1>9, <2>1 DEF ResInv, Registered
<1>13. OnePoolPerTenant'
  <2>1. \A p \in Requests : /\ req'[p].obj = req[p].obj /\ req'[p].key = req[p].key
                            /\ req[p].obj # 0 => req[p].obj \in DOMAIN objs
    BY <1>1, <1>2, <1>7, HeldObject DEF ResInv
  <2> QED
    BY <1>5, <1>6, <1>8, <1>9, <2>1 DEF ResInv, OnePoolPerTenant, TenantOf
<1>14. OneBuilder'
  <2>1. ASSUME NEW p \in Requests, p # r, req'[p].pc = "building"
        PROVE  req[p].pc = "building" /\ req'[p].obj = req[p].obj /\ req[p].obj # o
    <3>1. req[p].pc = "building" /\ req'[p].obj = req[p].obj
      BY <1>7, <2>1
    <3> QED
      BY <1>1, <2>1, <3>1 DEF ResInv, Routed, OneBuilder
  <2>2. \A p, q \in Requests :
          req'[p].pc = "building" /\ req'[q].pc = "building" /\ req'[p].obj = req'[q].obj => p = q
    BY <1>2, <2>1 DEF ResInv, OneBuilder
  <2>3. ASSUME NEW q \in DOMAIN objs, objs'[q].services = "building"
        PROVE  \E p \in Requests : req'[p].pc = "building" /\ req'[p].obj = q
    <3>1. CASE q = o
      BY <1>2, <1>3, <1>5, <2>3, <3>1
    <3>2. CASE q # o
      <4>1. PICK p \in Requests : req[p].pc = "building" /\ req[p].obj = q
        BY <1>5, <2>3, <3>2 DEF ResInv, OneBuilder
      <4>2. p # r
        BY <1>1, <3>2, <4>1
      <4> QED
        BY <1>7, <4>1, <4>2
    <3> QED
      BY <3>1, <3>2
  <2> QED
    BY <1>5, <2>2, <2>3 DEF OneBuilder
<1>15. AccountingExact'
  BY <1>5, <1>8, <1>9, SameConnections DEF ResInv, AccountingExact
<1> QED
  BY <1>6, <1>11, <1>12, <1>13, <1>14, <1>15 DEF ResInv

LEMMA BuildKeeps ==
  ASSUME ResInv, NEW r \in Requests,
         BuildServicesBegins(r) \/ BuildServicesEnds(r) \/ BuildServicesThrows(r)
  PROVE  ResInv'
<1>1. StateType /\ faults \in 0 .. MaxFaults /\ (req[r].pc \in {"inTx", "building"} => req[r].obj # 0)
  BY DEF ResInv, StateType, Routed
<1>2. CASE BuildServicesBegins(r)
  <2>1. OnlyReq(r) /\ Keeps(r, {"pc"}) /\ req'[r].pc = "building"
    BY <1>1, <1>2, MoveMoves DEF BuildServicesBegins, PCs
  <2>2. Keeps(r, {"pc", "outcome"})
    BY <2>1 DEF Keeps
  <2> QED
    BY <1>1, <1>2, <2>1, <2>2, ServicesKeeps DEF BuildServicesBegins, ServicesAre, At
<1>3. CASE BuildServicesEnds(r)
  <2>1. OnlyReq(r) /\ Keeps(r, {"pc", "outcome"}) /\ req'[r].pc = "serving"
    BY <1>1, <1>3, ServesMoves DEF BuildServicesEnds, Outcomes
  <2> QED
    BY <1>1, <1>3, <2>1, ServicesKeeps DEF BuildServicesEnds, At
<1>4. CASE BuildServicesThrows(r)
  <2>1. /\ OnlyReq(r) /\ Keeps(r, {"pc", "outcome"}) /\ req'[r].pc = "serving"
        /\ req'[r].outcome = "signedOut"
    BY <1>1, <1>4, ServesMoves DEF BuildServicesThrows, Outcomes
  <2> QED
    BY <1>1, <1>4, <2>1, FaultCounts, ServicesKeeps DEF BuildServicesThrows, At
<1> QED
  BY <1>2, <1>3, <1>4

-----------------------------------------------------------------------------
(* The resources: objects and connections come and go *)

LEMMA ConnectionsFinite ==
  ASSUME StateType
  PROVE  IsFiniteSet(LiveConnections) /\ Cardinality(LiveConnections) \in Nat
<1>1. DOMAIN objs = 1 .. Len(objs) /\ Len(objs) \in Int /\ MaxConnections \in Int
  BY TenancyAssumption DEF StateType
<1>2. IsFiniteSet(1 .. Len(objs)) /\ IsFiniteSet(1 .. MaxConnections)
  BY <1>1, FS_Interval
<1>3. IsFiniteSet((1 .. Len(objs)) \X (1 .. MaxConnections))
  BY <1>2, FS_Product
<1>4. LiveConnections \in SUBSET ((1 .. Len(objs)) \X (1 .. MaxConnections))
  BY <1>1 DEF LiveConnections
<1>5. IsFiniteSet(LiveConnections)
  BY <1>3, <1>4, FS_Subset
<1> QED
  BY <1>5, FS_CardinalityType

\* The last reference goes: the pool's connections are given back, once.
LEMMA PoolDestroyed ==
  ASSUME StateType, AccountingExact, UNCHANGED objs, NEW o \in DOMAIN objs,
         Live(o), ~Live(o)', \A q \in DOMAIN objs : q # o => (Live(q)' <=> Live(q)),
         total' = total - objs[o].created
  PROVE  AccountingExact'
<1>1. objs[o] \in ObjType
  BY DEF StateType
<1>2. PICK c \in 0 .. MaxConnections : c = objs[o].created
  BY <1>1 DEF ObjType
<1>c. c \in Nat /\ c <= MaxConnections /\ MaxConnections \in Nat
  BY TenancyAssumption
<1> DEFINE T == {o} \X (1 .. c)
<1>3. LiveConnections' = LiveConnections \ T
  <2>1. ASSUME NEW q \in DOMAIN objs, NEW n \in 1 .. MaxConnections
        PROVE  <<q, n>> \in LiveConnections' <=> <<q, n>> \in LiveConnections \ T
    <3>1. <<q, n>> \in LiveConnections <=> Live(q) /\ n <= objs[q].created
      BY <2>1 DEF LiveConnections
    <3>2. <<q, n>> \in LiveConnections' <=> Live(q)' /\ n <= objs[q].created
      BY <2>1 DEF LiveConnections
    <3>3. <<q, n>> \in T <=> q = o /\ n <= c
      BY <1>c, <2>1
    <3> QED
      BY <1>2, <3>1, <3>2, <3>3
  <2>2. /\ LiveConnections \subseteq (DOMAIN objs) \X (1 .. MaxConnections)
        /\ LiveConnections' \subseteq (DOMAIN objs) \X (1 .. MaxConnections)
    BY DEF LiveConnections
  <2> QED
    BY <2>1, <2>2
<1>4. T \subseteq LiveConnections
  BY <1>2, <1>c DEF LiveConnections
<1>5. Cardinality(T) = c
  <2>1. IsFiniteSet({o}) /\ Cardinality({o}) = 1
    BY FS_Singleton
  <2>2. IsFiniteSet(1 .. c) /\ Cardinality(1 .. c) = c
    BY <1>c, FS_Interval
  <2>3. Cardinality(T) = 1 * c
    BY <2>1, <2>2, FS_Product
  <2> QED
    BY <1>c, <2>3
<1> HIDE DEF T
<1>6. LiveConnections \cap T = T
  BY <1>4
<1>7. PICK S : S = LiveConnections /\ IsFiniteSet(S)
  BY ConnectionsFinite
<1>8. Cardinality(S \ T) = Cardinality(S) - Cardinality(S \cap T)
  BY <1>7, FS_Difference
<1> QED
  BY <1>2, <1>3, <1>5, <1>6, <1>7, <1>8 DEF AccountingExact

LEMMA NewConnectionKeeps ==
  ASSUME ResInv, NEW r \in Requests, BeginOnNewConnection(r)
  PROVE  ResInv'
<1>0. StateType /\ req[r].obj # 0 /\ req[r].pc = "init"
  BY DEF ResInv, BeginOnNewConnection, At
<1>1. PICK o \in DOMAIN objs : o = req[r].obj /\ o # 0 /\ objs[o] \in ObjType
  BY <1>0, HeldObject
<1>2. OnlyReq(r) /\ Keeps(r, {"pc"}) /\ req'[r].pc = "inTx"
  BY <1>0, MoveMoves DEF BeginOnNewConnection, PCs
<1>3. req'[r].obj = o /\ req'[r].key = req[r].key /\ req'[r].outcome = req[r].outcome
  BY <1>1, <1>2 DEF Keeps, Fields
<1>4. PICK c \in 0 .. MaxConnections : c = objs[o].created /\ c < MaxConnections
  BY <1>1 DEF ObjType, BeginOnNewConnection
<1>c. c \in Nat /\ c + 1 \in 0 .. MaxConnections /\ c + 1 \in 1 .. MaxConnections
  BY <1>4, TenancyAssumption
<1> DEFINE e == [objs[o] EXCEPT !.created = c + 1]
<1>5. /\ e \in ObjType /\ e.site = objs[o].site /\ e.created = c + 1
      /\ e.services = objs[o].services
  BY <1>1, <1>c DEF ObjType
<1>6. objs' = [objs EXCEPT ![o] = e]
  BY <1>1, <1>4 DEF BeginOnNewConnection
<1> HIDE DEF e
<1>7. /\ objs' \in Seq(ObjType) /\ Len(objs') = Len(objs) /\ DOMAIN objs' = DOMAIN objs
      /\ objs'[o] = e /\ \A p \in DOMAIN objs : p # o => objs'[p] = objs[p]
  BY <1>0, <1>5, <1>6, ObjectChanges
<1>8. /\ UNCHANGED <<rowVars, cacheVars, registry, evicted, faults>>
      /\ total' = total + 1 /\ faults \in 0 .. MaxFaults
  BY <1>0 DEF BeginOnNewConnection, StateType
<1>9. StateType' /\ UNCHANGED mode
  BY <1>0, <1>1, <1>2, <1>3, <1>7, <1>8, ObjectType
<1>10. \A p \in Requests : p # r => req'[p] = req[p]
  BY <1>2 DEF OnlyReq
<1>11. \A q \in DOMAIN objs : Live(q)' <=> Live(q)
  BY <1>0, <1>1, <1>2, <1>3, <1>8, <1>10, SameLive
<1>12. \A q \in DOMAIN objs : objs'[q].site = objs[q].site /\ objs'[q].services = objs[q].services
  BY <1>5, <1>7
<1>13. \A p \in Requests : req[p].obj # 0 => req[p].obj \in DOMAIN objs
  BY <1>0, HeldObject
<1>14. ASSUME NEW p \in Requests PROVE Routed(p)'
  <2>1. Routed(p) /\ req'[p].obj = req[p].obj /\ (req[p].obj # 0 => req[p].obj \in DOMAIN objs)
    BY <1>1, <1>3, <1>10, <1>13 DEF ResInv
  <2>2. CASE p = r
    BY <1>1, <1>2, <1>3, <2>2 DEF Routed
  <2>3. CASE p # r
    BY <1>10, <1>12, <2>1, <2>3 DEF Routed
  <2> QED
    BY <2>2, <2>3
<1>15. Registered'
  <2>1. \A s \in Sites : registry[s] # 0 => registry[s] \in DOMAIN objs
    BY DEF ResInv, StateType
  <2> QED
    BY <1>8, <1>12, <2>1 DEF ResInv, Registered
<1>16. OnePoolPerTenant'
  <2>1. \A p \in Requests : req'[p].obj = req[p].obj /\ req'[p].key = req[p].key
    BY <1>1, <1>3, <1>10
  <2> QED
    BY <1>7, <1>8, <1>9, <1>11, <1>12, <1>13, <2>1 DEF ResInv, OnePoolPerTenant, TenantOf
<1>17. OneBuilder'
  <2>1. \A p \in Requests : /\ req'[p].pc = "building" <=> req[p].pc = "building"
                            /\ req'[p].obj = req[p].obj
    BY <1>0, <1>1, <1>2, <1>3, <1>10
  <2> QED
    BY <1>7, <1>12, <2>1 DEF ResInv, OneBuilder
<1>18. AccountingExact'
  <2> DEFINE x == <<o, c + 1>>
  <2>1. Live(o)
    BY <1>0, <1>1 DEF Live, Holders
  <2>2. x \notin LiveConnections
    BY <1>1, <1>4, <1>c DEF LiveConnections
  <2>3. LiveConnections' = LiveConnections \cup {x}
    <3>1. ASSUME NEW q \in DOMAIN objs, NEW n \in 1 .. MaxConnections
          PROVE  <<q, n>> \in LiveConnections' <=> <<q, n>> \in LiveConnections \cup {x}
      <4>1. <<q, n>> \in LiveConnections <=> Live(q) /\ n <= objs[q].created
        BY <3>1 DEF LiveConnections
      <4>2. <<q, n>> \in LiveConnections' <=> Live(q) /\ n <= objs'[q].created
        BY <1>7, <1>11, <3>1 DEF LiveConnections
      <4>3. CASE q = o
        BY <1>4, <1>5, <1>7, <1>c, <2>1, <4>1, <4>2, <4>3
      <4>4. CASE q # o
        BY <1>7, <4>1, <4>2, <4>4
      <4> QED
        BY <4>3, <4>4
    <3>2. /\ LiveConnections \subseteq (DOMAIN objs) \X (1 .. MaxConnections)
          /\ LiveConnections' \subseteq (DOMAIN objs) \X (1 .. MaxConnections)
          /\ x \in (DOMAIN objs) \X (1 .. MaxConnections)
      BY <1>7, <1>c DEF LiveConnections
    <3> QED
      BY <3>1, <3>2
  <2> HIDE DEF x
  <2>4. PICK S : S = LiveConnections /\ IsFiniteSet(S)
    BY <1>0, ConnectionsFinite
  <2>5. Cardinality(S \cup {x}) = Cardinality(S) + 1
    BY <2>2, <2>4, FS_AddElement
  <2> QED
    BY <1>8, <2>3, <2>4, <2>5 DEF ResInv, AccountingExact
<1> QED
  BY <1>9, <1>14, <1>15, <1>16, <1>17, <1>18 DEF ResInv

\* A pool loses a reference: it stays, or it is destroyed and counted off.
LEMMA ReferenceGoes ==
  ASSUME StateType, AccountingExact, UNCHANGED objs, NEW o \in DOMAIN objs, NEW kept \in BOOLEAN,
         Destroy(o, kept), Live(o), Live(o)' <=> kept,
         \A q \in DOMAIN objs : q # o => (Live(q)' <=> Live(q))
  PROVE  AccountingExact'
<1>1. o # 0
  BY DEF StateType
<1>2. CASE kept
  <2>1. \A q \in DOMAIN objs : Live(q)' <=> Live(q)
    BY <1>2
  <2>2. LiveConnections' = LiveConnections
    BY <2>1, SameConnections
  <2> QED
    BY <1>2, <2>2 DEF AccountingExact, Destroy
<1>3. CASE ~kept
  BY <1>1, <1>3, PoolDestroyed DEF Destroy
<1> QED
  BY <1>2, <1>3

LEMMA FinishKeeps ==
  ASSUME ResInv, NEW r \in Requests, Finish(r)
  PROVE  ResInv'
<1>0. /\ StateType /\ req[r].pc = "serving" /\ faults \in 0 .. MaxFaults
      /\ cache \in [Keys -> Statuses] /\ overlapped \subseteq Keys
  BY DEF ResInv, Finish, At, StateType
<1>1. OnlyReq(r) /\ Keeps(r, {"pc"}) /\ req'[r].pc = "done"
  BY <1>0, MoveMoves DEF Finish, PCs
<1>2. req'[r].obj = req[r].obj /\ req'[r].key = req[r].key
  BY <1>1 DEF Keeps, Fields
<1>3. Routed(r)'
  BY <1>1 DEF Routed
<1>4. /\ UNCHANGED <<rowVars, cacheVars, registry, objs, evicted, faults>>
      /\ Destroy(req[r].obj, Holders(req[r].obj) # {r} \/ \E s \in Sites : registry[s] = req[r].obj)
  BY DEF Finish
<1>5. CASE req[r].obj = 0
  <2>1. total' = total
    BY <1>4, <1>5 DEF Destroy
  <2>2. UNCHANGED <<rowVars, objVars, cache, overlapped, faults>>
    BY <1>4, <2>1 DEF objVars, cacheVars
  <2>3. StateType' /\ UNCHANGED <<mode, objVars>>
    BY <1>0, <1>1, <1>2, <2>2, QuietType
  <2> QED
    BY <1>0, <1>1, <1>2, <1>3, <1>5, <2>3, QuietRequest
<1>6. CASE req[r].obj # 0
  <2>1. PICK o \in DOMAIN objs : o = req[r].obj /\ o # 0
    BY <1>0, <1>6, HeldObject
  <2>2. StateType' /\ UNCHANGED mode
    BY <1>0, <1>1, <1>2, <1>4, ObjectType DEF StateType
  <2>3. \A p \in Requests : p # r => req'[p] = req[p]
    BY <1>1 DEF OnlyReq
  <2>4. PICK kept \in BOOLEAN : kept <=> (Holders(o) # {r} \/ \E s \in Sites : registry[s] = o)
    OBVIOUS
  <2>5. Destroy(o, kept)
    BY <1>4, <2>1, <2>4 DEF Destroy
  <2>6. Live(o) /\ r \in Holders(o)
    BY <1>0, <2>1 DEF Live, Holders
  <2>7. \A q \in DOMAIN objs : q # o => (Live(q)' <=> Live(q))
    <3> SUFFICES ASSUME NEW q \in DOMAIN objs, q # o PROVE Live(q)' <=> Live(q)
      OBVIOUS
    <3>1. \A p \in Requests : p \in Holders(q)' <=> p \in Holders(q)
      BY <1>2, <2>1, <2>3 DEF Holders
    <3>2. Holders(q)' = Holders(q)
      BY <3>1 DEF Holders
    <3> QED
      BY <1>4, <3>2 DEF Live
  <2>8. Holders(o)' = Holders(o) \ {r}
    BY <1>1, <2>3 DEF Holders
  <2>9. Live(o)' <=> kept
    BY <1>4, <2>4, <2>6, <2>8 DEF Live
  <2>10. AccountingExact'
    BY <1>0, <1>4, <2>5, <2>6, <2>7, <2>9, ReferenceGoes DEF ResInv
  <2>11. \A p \in Requests : Routed(p)'
    BY <1>3, <1>4, <2>3 DEF ResInv, Routed
  <2>12. OnePoolPerTenant'
    <3>1. \A q \in DOMAIN objs : Live(q)' => Live(q)
      BY <2>6, <2>7
    <3>2. \A p \in Requests : req'[p].obj = req[p].obj /\ req'[p].key = req[p].key
      BY <1>2, <2>3
    <3> QED
      BY <1>4, <2>2, <3>1, <3>2 DEF ResInv, OnePoolPerTenant, TenantOf
  <2>13. OneBuilder'
    <3>1. \A p \in Requests : /\ req'[p].pc = "building" <=> req[p].pc = "building"
                              /\ req'[p].obj = req[p].obj
      BY <1>0, <1>1, <1>2, <2>3
    <3> QED
      BY <1>4, <3>1 DEF ResInv, OneBuilder
  <2>14. Registered'
    BY <1>4 DEF ResInv, Registered
  <2> QED
    BY <2>2, <2>10, <2>11, <2>12, <2>13, <2>14 DEF ResInv
<1> QED
  BY <1>5, <1>6

LEMMA EvictKeeps ==
  ASSUME ResInv, NEW s \in Sites, OperatorEvicts(s)
  PROVE  ResInv'
<1>1. PICK o \in 0 .. Len(objs) : o = registry[s]
  BY DEF ResInv, StateType
<1>2. /\ StateType /\ registry \in [Sites -> 0 .. Len(objs)]
      /\ UNCHANGED <<mode, row, changes, cache, overlapped, req, objs, faults>>
      /\ registry' = [registry EXCEPT ![s] = 0]
      /\ evicted' = evicted \cup ({o} \ {0})
      /\ Destroy(o, Holders(o) # {})
      /\ objs \in Seq(ObjType)
  BY <1>1 DEF OperatorEvicts, ResInv, StateType, cacheVars
<1>3. o # 0 => o \in DOMAIN objs
  BY <1>1, <1>2
<1>4. StateType'
  <2>1. pending' \in [Sites -> SUBSET {"invalidate", "evict"}]
    BY <1>2 DEF OperatorEvicts, StateType
  <2>2. registry' \in [Sites -> 0 .. Len(objs)]
    BY <1>2
  <2>3. evicted' \subseteq DOMAIN objs
    BY <1>2, <1>3 DEF StateType
  <2> QED
    BY <1>2, <2>1, <2>2, <2>3 DEF StateType
<1>5. \A r \in Requests : Routed(r)'
  BY <1>2 DEF ResInv, Routed
<1>6. Registered' /\ OneBuilder'
  BY <1>2 DEF ResInv, Registered, OneBuilder
<1>7. \A t \in Sites : registry'[t] = IF t = s THEN 0 ELSE registry[t]
  BY <1>2
<1>8. \A q \in DOMAIN objs : q # 0 /\ Holders(q)' = Holders(q)
  BY <1>2 DEF Holders
<1>9. \A q \in DOMAIN objs : q # o => (Live(q)' <=> Live(q))
  BY <1>1, <1>7, <1>8 DEF Live
<1>10. CASE o = 0
  <2>1. \A q \in DOMAIN objs : Live(q)' <=> Live(q)
    BY <1>8, <1>9, <1>10
  <2>2. total' = total /\ evicted' = evicted
    BY <1>2, <1>10 DEF Destroy
  <2>3. \A t \in Sites : registry'[t] = registry[t]
    BY <1>1, <1>7, <1>10
  <2>4. OnePoolPerTenant'
    <3>1. \A q \in DOMAIN objs : objs[q].site \in Sites
      BY <1>2, ObjectsTyped
    <3> QED
      BY <1>2, <2>1, <2>2, <2>3, <3>1 DEF ResInv, OnePoolPerTenant, TenantOf
  <2>5. AccountingExact'
    BY <1>2, <2>1, <2>2, SameConnections DEF ResInv, AccountingExact
  <2> QED
    BY <1>4, <1>5, <1>6, <2>4, <2>5 DEF ResInv
<1>11. CASE o # 0
  <2>1. o \in DOMAIN objs /\ Live(o)
    BY <1>1, <1>3, <1>11 DEF Live
  <2>2. \A t \in Sites : registry'[t] # o
    BY <1>1, <1>7, <1>11 DEF ResInv, Registered
  <2>3. PICK kept \in BOOLEAN : kept <=> Holders(o) # {}
    OBVIOUS
  <2>4. Live(o)' <=> kept
    BY <1>8, <2>1, <2>2, <2>3 DEF Live
  <2>5. Destroy(o, kept)
    BY <1>2, <2>3 DEF Destroy
  <2>6. AccountingExact'
    BY <1>2, <1>9, <2>1, <2>4, <2>5, ReferenceGoes DEF ResInv
  <2>7. OnePoolPerTenant'
    <3>1. \A q \in DOMAIN objs : objs[q].site \in Sites
      BY <1>2, ObjectsTyped
    <3>2. ASSUME NEW q \in DOMAIN objs, Live(q)' PROVE registry'[objs[q].site] = q \/ q \in evicted'
      <4>1. CASE q = o
        BY <1>2, <1>11, <4>1
      <4>2. CASE q # o
        <5>1. registry[objs[q].site] = q \/ q \in evicted
          BY <1>9, <3>2, <4>2 DEF ResInv, OnePoolPerTenant
        <5> QED
          BY <1>1, <1>2, <1>7, <3>1, <4>2, <5>1
      <4> QED
        BY <4>1, <4>2
    <3> QED
      BY <1>2, <3>2 DEF ResInv, OnePoolPerTenant, TenantOf
  <2> QED
    BY <1>4, <1>5, <1>6, <2>6, <2>7 DEF ResInv
<1> QED
  BY <1>10, <1>11

\* GetOrCreate: the registered object, or a new one with no connection yet.
LEMMA RouteKeeps ==
  ASSUME ResInv, NEW r \in Requests, TenantOf(req[r].key) \in Sites, RouteToTenant(r)
  PROVE  ResInv'
<1>0. /\ StateType /\ req[r].pc = "decide" /\ req[r].obj = 0
      /\ objs \in Seq(ObjType) /\ DOMAIN objs = 1 .. Len(objs) /\ Len(objs) \in Nat
      /\ registry \in [Sites -> 0 .. Len(objs)]
  BY DEF ResInv, Routed, RouteToTenant, Decides, At, StateType
<1>1. PICK s \in Sites : s = TenantOf(req[r].key)
  OBVIOUS
<1>2. /\ UNCHANGED <<mode, row, pending, changes, cache, overlapped, evicted, total, faults>>
      /\ GetOrCreate(r, s)
  BY <1>1 DEF RouteToTenant, rowVars, cacheVars
<1>3. \A p \in Requests : req[p].obj # 0 => req[p].obj \in DOMAIN objs
  BY <1>0, HeldObject
<1>4. \A t \in Sites : registry[t] # 0 => registry[t] \in DOMAIN objs
  BY <1>0
<1>5. \A q \in DOMAIN objs : objs[q].site \in Sites
  BY <1>0, ObjectsTyped
<1>6. ASSUME NEW o \in Nat, o # 0, o <= Len(objs'),
             req' = [req EXCEPT ![r].pc = "init", ![r].obj = o],
             objs' \in Seq(ObjType), Len(objs') \in {Len(objs), Len(objs) + 1},
             \A q \in DOMAIN objs : objs'[q] = objs[q],
             o \in DOMAIN objs => registry[s] = o,
             \A q \in DOMAIN objs' : q \notin DOMAIN objs =>
               q = o /\ objs'[q].services = "none" /\ objs'[q].created = 0,
             objs'[o].site = s,
             registry' = [registry EXCEPT ![s] = o], registry[s] \in {0, o}
      PROVE  ResInv'
  <2>1. OnlyReq(r) /\ Keeps(r, {"pc", "obj"}) /\ req'[r].pc = "init" /\ req'[r].obj = o
    BY <1>0, <1>6, TakesMoves
  <2>2. /\ \A p \in Requests : p # r => req'[p] = req[p]
        /\ req'[r].key = req[r].key
    BY <2>1 DEF OnlyReq, Keeps, Fields
  <2>3. DOMAIN objs' = 1 .. Len(objs') /\ DOMAIN objs \subseteq DOMAIN objs' /\ o \in DOMAIN objs'
    BY <1>0, <1>6
  <2>4. \A t \in Sites : registry'[t] = IF t = s THEN o ELSE registry[t]
    BY <1>0, <1>6
  <2>5. StateType'
    <3>1. registry' \in [Sites -> 0 .. Len(objs')]
      BY <1>0, <1>6
    <3>2. \A p \in Requests : req'[p].obj <= Len(objs')
      <4>1. \A p \in Requests : req[p] \in ReqType /\ req[p].obj <= Len(objs)
        BY <1>0 DEF StateType
      <4>2. \A p \in Requests : req[p].obj \in Nat
        BY <4>1 DEF ReqType
      <4>3. Len(objs) <= Len(objs') /\ Len(objs') \in Nat
        BY <1>0, <1>6
      <4>4. ASSUME NEW p \in Requests, p # r PROVE req'[p].obj <= Len(objs')
        BY <1>0, <2>2, <4>1, <4>2, <4>3, <4>4
      <4> QED
        BY <1>6, <2>1, <4>4
    <3>3. evicted' \subseteq DOMAIN objs'
      BY <1>0, <1>2, <2>3 DEF StateType
    <3> QED
      BY <1>0, <1>2, <1>6, <2>1, <3>1, <3>2, <3>3 DEF StateType, OnlyReq
  <2>6. ASSUME NEW p \in Requests PROVE Routed(p)'
    <3>1. CASE p = r
      BY <1>6, <2>1, <3>1 DEF Routed
    <3>2. CASE p # r
      <4>1. req'[p] = req[p] /\ Routed(p) /\ (req[p].obj # 0 => objs'[req[p].obj] = objs[req[p].obj])
        BY <1>3, <1>6, <2>2, <3>2 DEF ResInv
      <4> QED
        BY <4>1 DEF Routed
    <3> QED
      BY <3>1, <3>2
  <2>7. Registered'
    BY <1>4, <1>6, <2>4 DEF ResInv, Registered
  <2>8. \A q \in DOMAIN objs' : Live(q)' => q = o \/ (q \in DOMAIN objs /\ Live(q))
    <3> SUFFICES ASSUME NEW q \in DOMAIN objs', Live(q)', q # o
                 PROVE  q \in DOMAIN objs /\ Live(q)
      OBVIOUS
    <3>1. q \in DOMAIN objs
      BY <1>6
    <3>2. CASE \E t \in Sites : registry'[t] = q
      BY <2>4, <3>1, <3>2 DEF Live
    <3>3. CASE Holders(q)' # {}
      <4>1. PICK p \in Requests : req'[p].obj = q /\ req'[p].pc # "done"
        BY <3>3 DEF Holders
      <4>2. p # r
        BY <2>1, <4>1
      <4> QED
        BY <2>2, <3>1, <4>1, <4>2 DEF Live, Holders
    <3> QED
      BY <3>2, <3>3 DEF Live
  <2>9. \A q \in DOMAIN objs : q # o /\ Live(q) => Live(q)'
    <3> SUFFICES ASSUME NEW q \in DOMAIN objs, q # o, Live(q) PROVE Live(q)'
      OBVIOUS
    <3>0. q # 0
      BY <1>0
    <3>1. CASE \E t \in Sites : registry[t] = q
      BY <1>6, <2>4, <3>0, <3>1 DEF Live
    <3>2. CASE Holders(q) # {}
      <4>1. PICK p \in Requests : req[p].obj = q /\ req[p].pc # "done"
        BY <3>2 DEF Holders
      <4>2. p # r
        BY <1>0, <3>0, <4>1
      <4> QED
        BY <2>2, <4>1, <4>2 DEF Live, Holders
    <3> QED
      BY <3>1, <3>2 DEF Live
  <2>10. OnePoolPerTenant'
    <3>1. ASSUME NEW q \in DOMAIN objs', Live(q)'
          PROVE  registry'[objs'[q].site] = q \/ q \in evicted'
      <4>1. CASE q = o
        BY <1>6, <2>4, <4>1
      <4>2. CASE q # o
        <5>1. q \in DOMAIN objs /\ Live(q) /\ objs'[q] = objs[q]
          BY <1>6, <2>8, <3>1, <4>2
        <5>2. registry[objs[q].site] = q \/ q \in evicted
          BY <5>1 DEF ResInv, OnePoolPerTenant
        <5>3. q # 0 /\ objs[q].site \in Sites
          BY <1>0, <1>5, <5>1
        <5> QED
          BY <1>2, <1>6, <2>4, <4>2, <5>1, <5>2, <5>3
      <4> QED
        BY <4>1, <4>2
    <3>2. ASSUME NEW p \in Requests, req'[p].obj # 0
          PROVE  objs'[req'[p].obj].site = TenantOf(req[p].key)'
      <4>1. CASE p = r
        BY <1>1, <1>2, <1>6, <2>1, <2>2, <4>1 DEF TenantOf
      <4>2. CASE p # r
        <5>1. req'[p] = req[p] /\ objs'[req[p].obj] = objs[req[p].obj]
          BY <1>3, <1>6, <2>2, <3>2, <4>2
        <5> QED
          BY <1>2, <3>2, <5>1 DEF ResInv, OnePoolPerTenant, TenantOf
      <4> QED
        BY <4>1, <4>2
    <3> QED
      BY <3>1, <3>2 DEF OnePoolPerTenant
  <2>11. OneBuilder'
    <3>1. \A p \in Requests : p # r \/ req'[p].pc # "building"
      BY <2>1
    <3>2. \A p, q \in Requests :
            req'[p].pc = "building" /\ req'[q].pc = "building" /\ req'[p].obj = req'[q].obj => p = q
      BY <2>2, <3>1 DEF ResInv, OneBuilder
    <3>3. ASSUME NEW q \in DOMAIN objs', objs'[q].services = "building"
          PROVE  \E p \in Requests : req'[p].pc = "building" /\ req'[p].obj = q
      <4>1. q \in DOMAIN objs /\ objs[q].services = "building"
        BY <1>6, <3>3
      <4>2. PICK p \in Requests : req[p].pc = "building" /\ req[p].obj = q
        BY <4>1 DEF ResInv, OneBuilder
      <4> QED
        BY <1>0, <2>2, <4>2
    <3> QED
      BY <3>2, <3>3 DEF OneBuilder
  <2>12. LiveConnections' = LiveConnections
    <3>1. ASSUME NEW q \in DOMAIN objs', NEW n \in 1 .. MaxConnections
          PROVE  <<q, n>> \in LiveConnections' <=> <<q, n>> \in LiveConnections
      <4>1. <<q, n>> \in LiveConnections' <=> Live(q)' /\ n <= objs'[q].created
        BY <3>1 DEF LiveConnections
      <4>2. CASE q \notin DOMAIN objs
        <5>1. objs'[q].created = 0
          BY <1>6, <4>2
        <5> QED
          BY <4>1, <4>2, <5>1 DEF LiveConnections
      <4>3. CASE q \in DOMAIN objs
        <5>1. <<q, n>> \in LiveConnections <=> Live(q) /\ n <= objs[q].created
          BY <3>1, <4>3 DEF LiveConnections
        <5>2. objs'[q] = objs[q]
          BY <1>6, <4>3
        <5>3. Live(q)' <=> Live(q)
          <6>1. CASE q # o
            BY <2>8, <2>9, <4>3, <6>1
          <6>2. CASE q = o
            <7>1. Live(q)
              BY <1>6, <4>3, <6>2 DEF Live
            <7>2. Live(q)'
              BY <2>4, <6>2 DEF Live
            <7> QED
              BY <7>1, <7>2
          <6> QED
            BY <6>1, <6>2
        <5> QED
          BY <4>1, <5>1, <5>2, <5>3
      <4> QED
        BY <4>2, <4>3
    <3>2. /\ LiveConnections \subseteq (DOMAIN objs') \X (1 .. MaxConnections)
          /\ LiveConnections' \subseteq (DOMAIN objs') \X (1 .. MaxConnections)
      BY <2>3 DEF LiveConnections
    <3> QED
      BY <3>1, <3>2
  <2>13. AccountingExact'
    BY <1>2, <2>12 DEF ResInv, AccountingExact
  <2> QED
    BY <2>5, <2>6, <2>7, <2>10, <2>11, <2>13 DEF ResInv
<1>7. CASE registry[s] # 0
  <2>1. PICK o \in Nat : o = registry[s] /\ o # 0 /\ o <= Len(objs) /\ o \in DOMAIN objs
    BY <1>0, <1>7
  <2>2. /\ req' = [req EXCEPT ![r].pc = "init", ![r].obj = o]
        /\ objs' = objs /\ registry' = registry
    BY <1>2, <1>7, <2>1 DEF GetOrCreate
  <2>3. registry' = [registry EXCEPT ![s] = o]
    BY <1>0, <2>1, <2>2
  <2>4. objs'[o].site = s
    BY <1>7, <2>1, <2>2 DEF ResInv, Registered
  <2> QED
    BY <1>0, <1>6, <2>1, <2>2, <2>3, <2>4
<1>8. CASE registry[s] = 0
  <2>1. PICK o \in Nat : o = Len(objs) + 1
    BY <1>0
  <2> DEFINE e == NewObj(s)
  <2>2. e \in ObjType /\ e.site = s /\ e.created = 0 /\ e.services = "none"
    BY TenancyAssumption DEF NewObj, ObjType
  <2>3. /\ req' = [req EXCEPT ![r].pc = "init", ![r].obj = o]
        /\ objs' = Append(objs, e) /\ registry' = [registry EXCEPT ![s] = o]
    BY <1>2, <1>8, <2>1 DEF GetOrCreate
  <2> HIDE DEF e
  <2>4. /\ objs' \in Seq(ObjType) /\ Len(objs') = Len(objs) + 1
        /\ \A i \in 1 .. Len(objs) : objs'[i] = objs[i]
        /\ objs'[o] = e
    BY <1>0, <2>1, <2>2, <2>3, AppendProperties
  <2>5. /\ DOMAIN objs' = 1 .. (Len(objs) + 1) /\ o \notin DOMAIN objs
        /\ \A q \in DOMAIN objs' : q \notin DOMAIN objs => q = o
    BY <1>0, <2>1, <2>4
  <2>6. o # 0 /\ o <= Len(objs') /\ Len(objs') \in {Len(objs), Len(objs) + 1}
    BY <1>0, <2>1, <2>4
  <2>7. \A q \in DOMAIN objs' : q \notin DOMAIN objs =>
          q = o /\ objs'[q].services = "none" /\ objs'[q].created = 0
    BY <2>2, <2>4, <2>5
  <2>8. /\ \A q \in DOMAIN objs : objs'[q] = objs[q]
        /\ objs'[o].site = s
        /\ o \in DOMAIN objs => registry[s] = o
    BY <1>0, <2>2, <2>4, <2>5
  <2> QED
    BY <1>6, <1>8, <2>3, <2>4, <2>6, <2>7, <2>8
<1> QED
  BY <1>7, <1>8

-----------------------------------------------------------------------------
(* The resolver: inductive invariant *)

\* A lookup whose answer no Invalidate has overtaken stores the present row, or
\* the operator is still to invalidate it.
LookupCurrent(r) ==
  LET k == req[r].key IN
  req[r].pc = "store" =>
    /\ req[r].ctx # "none"
    /\ ~req[r].old /\ k \in Sites => req[r].ctx = row[k] \/ "invalidate" \in pending[k]

\* A request that came when its site was settled as not active.
BarredInv(r) ==
  /\ mode = "control" /\ Settled(req[r].key)
  /\ req[r].stage = "guard" /\ req[r].obj = 0
  /\ req[r].pc \in {"find", "lookup", "store", "decide", "done"}
  /\ req[r].pc = "decide" => req[r].ctx # "active"

\* The fixed mode: only the tenant's own header, or none, gets past the guard.
FixedInv(r) ==
  /\ req[r].pc \notin {"lookup", "store"}
  /\ req[r].pc = "decide" => (req[r].ctx = "active" <=> req[r].key \in {NoKey, FixedSite})
  /\ req[r].stage = "route" => req[r].key \in {NoKey, FixedSite}
  /\ req[r].pc \in {"init", "inTx", "building", "serving"} => req[r].obj # 0

Resolving(r) ==
  /\ req[r].pc = "idle" => req[r].ctx = "none" /\ ~req[r].barred /\ req[r].stage = "guard"
  /\ mode = "control" /\ req[r].ctx # "none" => req[r].key \in Sites
  /\ LookupCurrent(r)
  /\ req[r].barred => BarredInv(r)
  /\ mode = "fixed" => FixedInv(r)

OnlySitesKnown == \A k \in Keys : k \notin Sites => row[k] = "none" /\ cache[k] = "none"

ResolverInv ==
  /\ OnlySitesKnown
  /\ StaleOnlyByOverlap
  /\ \A r \in Requests : Resolving(r)

LEMMA ResolverInit == Init => ResolverInv
<1> SUFFICES ASSUME Init PROVE ResolverInv
  OBVIOUS
<1>1. \A r \in Requests : /\ req[r].pc = "idle" /\ req[r].ctx = "none" /\ ~req[r].barred
                          /\ req[r].stage = "guard"
  BY DEF Init
<1>2. \A k \in Keys : cache[k] = "none"
  BY DEF Init
<1>3. OnlySitesKnown
  BY <1>2 DEF Init, OnlySitesKnown, Keys
<1>4. StaleOnlyByOverlap
  BY <1>2 DEF StaleOnlyByOverlap, Stale, Keys
<1>5. \A r \in Requests : Resolving(r)
  BY <1>1 DEF Resolving, LookupCurrent, FixedInv
<1> QED
  BY <1>3, <1>4, <1>5 DEF ResolverInv

\* A settled site stays settled while one request moves, as long as a lookup
\* takes what the table says.
LEMMA SettledStays ==
  ASSUME StateType, UNCHANGED <<rowVars, cacheVars>>, NEW r \in Requests, OnlyReq(r),
         req'[r].pc = "store" => req'[r].ctx = row[req'[r].key],
         NEW k \in Keys, Settled(k)
  PROVE  Settled(k)'
<1>1. UNCHANGED <<mode, row, pending, cache, overlapped>>
  BY DEF rowVars, cacheVars
<1>2. \A p \in Requests : p # r => req'[p] = req[p]
  BY DEF OnlyReq
<1> QED
  BY <1>1, <1>2 DEF Settled, At

LEMMA OneResolves ==
  ASSUME StateType, ResolverInv, UNCHANGED <<rowVars, cacheVars>>, NEW r \in Requests, OnlyReq(r),
         req'[r].pc = "store" => req'[r].ctx = row[req'[r].key],
         Resolving(r)'
  PROVE  ResolverInv'
<1>1. UNCHANGED <<mode, row, pending, cache, overlapped>>
  BY DEF rowVars, cacheVars
<1>2. ASSUME NEW p \in Requests, p # r PROVE Resolving(p)'
  <2>1. req'[p] = req[p] /\ Resolving(p) /\ req[p].key \in Keys
    BY <1>2 DEF OnlyReq, ResolverInv, StateType, ReqType
  <2>2. LookupCurrent(p)'
    BY <1>1, <2>1 DEF Resolving, LookupCurrent
  <2>3. ASSUME req'[p].barred PROVE BarredInv(p)'
    <3>1. BarredInv(p)
      BY <2>1, <2>3 DEF Resolving
    <3>2. PICK k \in Keys : k = req[p].key /\ Settled(k)
      BY <2>1, <3>1 DEF BarredInv
    <3>3. Settled(k)'
      BY <3>2, SettledStays
    <3>4. Settled(req[p].key)'
      BY <2>1, <3>2, <3>3 DEF Settled, At
    <3> QED
      BY <1>1, <2>1, <3>1, <3>4 DEF BarredInv
  <2>4. mode' = "fixed" => FixedInv(p)'
    BY <1>1, <2>1 DEF Resolving, FixedInv
  <2> QED
    BY <1>1, <2>1, <2>2, <2>3, <2>4 DEF Resolving
<1>3. OnlySitesKnown' /\ StaleOnlyByOverlap'
  BY <1>1 DEF ResolverInv, OnlySitesKnown, StaleOnlyByOverlap, Stale
<1> QED
  BY <1>2, <1>3 DEF ResolverInv

\* From the handler's prologue on, a request has left the resolver.
LEMMA LateResolves ==
  ASSUME StateType, ResolverInv, UNCHANGED <<rowVars, cacheVars>>, NEW r \in Requests, OnlyReq(r),
         Keeps(r, {"pc", "outcome"}),
         req[r].pc \in {"init", "inTx", "building", "serving"},
         req'[r].pc \in {"inTx", "building", "serving", "done"}
  PROVE  ResolverInv'
<1>1. UNCHANGED mode
  BY DEF rowVars
<1>2. /\ req'[r].key = req[r].key /\ req'[r].stage = req[r].stage /\ req'[r].ctx = req[r].ctx
      /\ req'[r].obj = req[r].obj /\ req'[r].barred = req[r].barred
  BY DEF Keeps, Fields
<1>3. Resolving(r)
  BY DEF ResolverInv
<1>4. ~req[r].barred
  BY <1>3 DEF Resolving, BarredInv
<1>5. Resolving(r)'
  BY <1>1, <1>2, <1>3, <1>4 DEF Resolving, LookupCurrent, FixedInv
<1> QED
  BY <1>5, OneResolves

\* BarredInv in the next state, from a settled site now.
LEMMA BarredStays ==
  ASSUME StateType, UNCHANGED <<rowVars, cacheVars>>, NEW r \in Requests, OnlyReq(r),
         req'[r].pc = "store" => req'[r].ctx = row[req'[r].key],
         NEW k \in Keys, k = req'[r].key, Settled(k), mode = "control",
         req'[r].stage = "guard", req'[r].obj = 0,
         req'[r].pc \in {"find", "lookup", "store", "decide", "done"},
         req'[r].pc = "decide" => req'[r].ctx # "active"
  PROVE  BarredInv(r)'
<1>1. Settled(k)'
  BY SettledStays
<1>2. Settled(req[r].key)'
  BY <1>1 DEF Settled, At
<1> QED
  BY <1>2 DEF BarredInv, rowVars

-----------------------------------------------------------------------------
(* The resolver: steps of a request *)

LEMMA ArriveResolves ==
  ASSUME ResInv, ResolverInv, NEW r \in Requests, NEW k \in Keys, Arrive(r, k)
  PROVE  ResolverInv'
<1>1. StateType /\ Resolving(r) /\ req[r].pc = "idle" /\ req[r].obj = 0
  BY DEF ResInv, ResolverInv, Arrive, At, Routed
<1>2. UNCHANGED <<rowVars, cacheVars>> /\ UNCHANGED mode
  BY DEF Arrive, rowVars
<1>3. /\ OnlyReq(r) /\ Keeps(r, {"key", "pc", "barred"})
      /\ req'[r].pc = "find" /\ req'[r].key = k
      /\ req'[r].barred => mode = "control" /\ Settled(k)
  BY <1>1, ArriveMoves
<1>4. req'[r].ctx = "none" /\ req'[r].stage = "guard" /\ req'[r].obj = 0
  BY <1>1, <1>3 DEF Keeps, Fields, Resolving
<1>5. ASSUME req'[r].barred PROVE BarredInv(r)'
  BY <1>1, <1>2, <1>3, <1>4, <1>5, BarredStays
<1>6. Resolving(r)'
  BY <1>2, <1>3, <1>4, <1>5 DEF Resolving, LookupCurrent, FixedInv
<1> QED
  BY <1>1, <1>2, <1>3, <1>6, OneResolves

LEMMA FailsResolves ==
  ASSUME ResInv, ResolverInv, NEW r \in Requests, NEW out \in Outcomes, Fails(r, out),
         req[r].pc \in {"idle", "lookup", "decide"}, UNCHANGED <<rowVars, cacheVars>>
  PROVE  ResolverInv'
<1>1. StateType /\ Resolving(r) /\ req[r].key \in Keys
  BY DEF ResInv, ResolverInv, StateType, ReqType
<1>2. UNCHANGED mode
  BY DEF rowVars
<1>3. /\ OnlyReq(r) /\ Keeps(r, {"pc", "outcome"}) /\ req'[r].pc = "done"
  BY <1>1, FailsMoves
<1>4. /\ req'[r].key = req[r].key /\ req'[r].stage = req[r].stage /\ req'[r].ctx = req[r].ctx
      /\ req'[r].obj = req[r].obj /\ req'[r].barred = req[r].barred
  BY <1>3 DEF Keeps, Fields
<1>5. ASSUME req'[r].barred PROVE BarredInv(r)'
  <2>1. BarredInv(r)
    BY <1>1, <1>4, <1>5 DEF Resolving
  <2> QED
    BY <1>1, <1>2, <1>3, <1>4, <2>1, BarredStays DEF BarredInv
<1>6. Resolving(r)'
  BY <1>1, <1>2, <1>3, <1>4, <1>5 DEF Resolving, LookupCurrent, FixedInv
<1> QED
  BY <1>1, <1>3, <1>6, OneResolves

\* The answer of the fixed tenant, of the cache or of an empty lookup.
LEMMA DecideResolves ==
  ASSUME ResInv, ResolverInv, NEW r \in Requests, ResolveFixed(r) \/ CacheHit(r)
  PROVE  ResolverInv'
<1>1. StateType /\ Resolving(r) /\ req[r].key \in Keys /\ req[r].pc = "find"
  BY DEF ResInv, ResolverInv, StateType, ReqType, ResolveFixed, CacheHit, Control, At
<1>2. UNCHANGED <<rowVars, cacheVars>> /\ UNCHANGED mode
  BY DEF ResolveFixed, CacheHit, rowVars
<1>3. PICK ctx \in Statuses :
        /\ req' = [req EXCEPT ![r].pc = "decide", ![r].ctx = ctx]
        /\ mode = "fixed" => (ctx = "active" <=> req[r].key \in {NoKey, FixedSite})
        /\ mode = "control" => ctx = cache[req[r].key] /\ ctx # "none"
  <2>1. CASE ResolveFixed(r)
    <3>1. PICK ctx \in Statuses : ctx = IF req[r].key \in {NoKey, FixedSite} THEN "active" ELSE "none"
      BY DEF Statuses
    <3> QED
      BY <2>1, <3>1 DEF ResolveFixed
  <2>2. CASE CacheHit(r)
    <3>1. cache[req[r].key] \in Statuses
      BY <1>1 DEF StateType
    <3> QED
      BY <2>2, <3>1 DEF CacheHit, Control
  <2> QED
    BY <2>1, <2>2
<1>4. /\ OnlyReq(r) /\ Keeps(r, {"pc", "ctx"}) /\ req'[r].pc = "decide" /\ req'[r].ctx = ctx
  BY <1>1, <1>3, DecideMoves
<1>5. /\ req'[r].key = req[r].key /\ req'[r].stage = req[r].stage
      /\ req'[r].obj = req[r].obj /\ req'[r].barred = req[r].barred
  BY <1>4 DEF Keeps, Fields
<1>6. ASSUME req'[r].barred PROVE BarredInv(r)'
  <2>1. BarredInv(r)
    BY <1>1, <1>5, <1>6 DEF Resolving
  <2>2. ctx # "active"
    BY <1>3, <2>1 DEF BarredInv, Settled
  <2> QED
    BY <1>1, <1>2, <1>4, <1>5, <2>1, <2>2, BarredStays DEF BarredInv
<1>7. mode = "control" => req[r].key \in Sites
  BY <1>1, <1>3 DEF ResolverInv, OnlySitesKnown
<1>8. Resolving(r)'
  BY <1>1, <1>2, <1>3, <1>4, <1>5, <1>6, <1>7 DEF Resolving, LookupCurrent, FixedInv
<1> QED
  BY <1>1, <1>2, <1>4, <1>8, OneResolves

LEMMA LookupResolves ==
  ASSUME ResInv, ResolverInv, NEW r \in Requests, LookupBySiteKey(r)
  PROVE  ResolverInv'
<1>1. StateType /\ Resolving(r) /\ req[r].key \in Keys /\ req[r].pc = "lookup"
  BY DEF ResInv, ResolverInv, StateType, ReqType, LookupBySiteKey, At
<1>2. UNCHANGED <<rowVars, cacheVars>> /\ UNCHANGED <<mode, row>>
  BY DEF LookupBySiteKey, rowVars
<1>3. /\ OnlyReq(r) /\ Keeps(r, {"ctx", "old", "pc"})
      /\ req'[r].ctx = row[req[r].key] /\ ~req'[r].old
      /\ req'[r].pc \in {"decide", "store"}
      /\ req'[r].pc = "store" => row[req[r].key] # "none"
  BY <1>1, LookupMoves
<1>4. /\ req'[r].key = req[r].key /\ req'[r].stage = req[r].stage
      /\ req'[r].obj = req[r].obj /\ req'[r].barred = req[r].barred
  BY <1>3 DEF Keeps, Fields
<1>5. ASSUME req'[r].barred PROVE BarredInv(r)'
  <2>1. BarredInv(r)
    BY <1>1, <1>4, <1>5 DEF Resolving
  <2>2. row[req[r].key] # "active"
    BY <2>1 DEF BarredInv, Settled
  <2> QED
    BY <1>1, <1>2, <1>3, <1>4, <2>1, <2>2, BarredStays DEF BarredInv
<1>6. mode # "fixed"
  BY <1>1 DEF Resolving, FixedInv
<1>7. req'[r].ctx # "none" => req[r].key \in Sites
  BY <1>1, <1>3 DEF ResolverInv, OnlySitesKnown
<1>8. LookupCurrent(r)'
  BY <1>2, <1>3, <1>4 DEF LookupCurrent
<1>9. Resolving(r)'
  BY <1>2, <1>3, <1>4, <1>5, <1>6, <1>7, <1>8 DEF Resolving
<1> QED
  BY <1>1, <1>2, <1>3, <1>4, <1>9, OneResolves

LEMMA MissResolves ==
  ASSUME ResInv, ResolverInv, NEW r \in Requests, CacheMiss(r)
  PROVE  ResolverInv'
<1>1. /\ StateType /\ Resolving(r) /\ req[r].key \in Keys /\ req[r].pc = "find"
      /\ mode = "control"
  BY DEF ResInv, ResolverInv, StateType, ReqType, CacheMiss, Control, At
<1>2. UNCHANGED <<rowVars, cacheVars>> /\ UNCHANGED mode
  BY DEF CacheMiss, rowVars
<1>3. OnlyReq(r) /\ Keeps(r, {"pc"}) /\ req'[r].pc = "lookup"
  BY <1>1, MoveMoves DEF CacheMiss, PCs
<1>4. /\ req'[r].key = req[r].key /\ req'[r].stage = req[r].stage /\ req'[r].ctx = req[r].ctx
      /\ req'[r].obj = req[r].obj /\ req'[r].barred = req[r].barred
  BY <1>3 DEF Keeps, Fields
<1>5. ASSUME req'[r].barred PROVE BarredInv(r)'
  <2>1. BarredInv(r)
    BY <1>1, <1>4, <1>5 DEF Resolving
  <2> QED
    BY <1>1, <1>2, <1>3, <1>4, <2>1, BarredStays DEF BarredInv
<1>6. Resolving(r)'
  BY <1>1, <1>2, <1>3, <1>4, <1>5 DEF Resolving, LookupCurrent
<1> QED
  BY <1>1, <1>2, <1>3, <1>6, OneResolves

\* The lookup's answer reaches the cache, stale or not.
LEMMA StoreResolves ==
  ASSUME ResInv, ResolverInv, NEW r \in Requests, StoreResolved(r)
  PROVE  ResolverInv'
<1>1. StateType /\ Resolving(r) /\ req[r].key \in Keys /\ req[r].pc = "store"
  BY DEF ResInv, ResolverInv, StateType, ReqType, StoreResolved, At
<1>2. UNCHANGED <<mode, row, pending>>
  BY DEF StoreResolved, rowVars
<1>3. PICK k \in Keys : k = req[r].key
  BY <1>1
<1>4. mode # "fixed" /\ mode = "control"
  BY <1>1, TenancyAssumption DEF Resolving, FixedInv, StateType
<1>5. req[r].ctx # "none" /\ k \in Sites
  BY <1>1, <1>3, <1>4 DEF Resolving, LookupCurrent
<1>6. /\ \A x \in Keys : cache'[x] = IF x = k THEN req[r].ctx ELSE cache[x]
      /\ \A x \in Keys : x # k => (x \in overlapped' <=> x \in overlapped)
      /\ k \in overlapped' <=> req[r].old
  BY <1>1, <1>3 DEF StoreResolved, StateType, ReqType
<1>7. OnlyReq(r) /\ Keeps(r, {"pc"}) /\ req'[r].pc = "decide"
  BY <1>1, MoveMoves DEF StoreResolved, PCs
<1>8. /\ req'[r].key = req[r].key /\ req'[r].stage = req[r].stage /\ req'[r].ctx = req[r].ctx
      /\ req'[r].obj = req[r].obj /\ req'[r].barred = req[r].barred
  BY <1>7 DEF Keeps, Fields
<1>9. \A p \in Requests : p # r => req'[p] = req[p]
  BY <1>7 DEF OnlyReq
<1>10. ASSUME NEW x \in Keys, Settled(x) PROVE Settled(x)'
  <2>1. x = k => req[r].ctx = row[x]
    BY <1>1, <1>3, <1>10 DEF Settled, At
  <2> QED
    BY <1>2, <1>6, <1>7, <1>9, <1>10, <2>1 DEF Settled, At
<1>11. OnlySitesKnown'
  BY <1>2, <1>5, <1>6 DEF ResolverInv, OnlySitesKnown
<1>12. StaleOnlyByOverlap'
  <2> SUFFICES ASSUME NEW s \in Sites, Stale(s)'
               PROVE  "invalidate" \in pending'[s] \/ s \in overlapped'
    BY DEF StaleOnlyByOverlap
  <2>1. s \in Keys
    BY DEF Keys
  <2>2. CASE s = k
    BY <1>1, <1>2, <1>3, <1>5, <1>6, <2>1, <2>2 DEF Stale, Resolving, LookupCurrent
  <2>3. CASE s # k
    BY <1>2, <1>6, <2>1, <2>3 DEF Stale, ResolverInv, StaleOnlyByOverlap
  <2> QED
    BY <2>2, <2>3
<1>13. ASSUME NEW p \in Requests PROVE Resolving(p)'
  <2>1. Resolving(p) /\ req[p].key \in Keys
    BY <1>1 DEF ResolverInv, StateType, ReqType
  <2>2. /\ req'[p].key = req[p].key /\ req'[p].stage = req[p].stage /\ req'[p].ctx = req[p].ctx
        /\ req'[p].obj = req[p].obj /\ req'[p].barred = req[p].barred
    BY <1>8, <1>9
  <2>3. LookupCurrent(p)'
    BY <1>2, <1>7, <1>9, <2>1 DEF Resolving, LookupCurrent
  <2>4. ASSUME req'[p].barred PROVE BarredInv(p)'
    <3>1. BarredInv(p)
      BY <2>1, <2>2, <2>4 DEF Resolving
    <3>2. PICK x \in Keys : x = req[p].key /\ Settled(x) /\ Settled(x)'
      BY <1>10, <2>1, <3>1 DEF BarredInv
    <3>3. Settled(req[p].key)'
      BY <2>2, <3>2 DEF Settled, At
    <3>4. p = r => req[p].ctx # "active"
      BY <1>1, <3>2 DEF Settled, At
    <3> QED
      BY <1>2, <1>7, <1>9, <2>2, <3>1, <3>3, <3>4 DEF BarredInv
  <2>5. req'[p].pc = "idle" => req[p].pc = "idle"
    BY <1>7, <1>9
  <2> QED
    BY <1>2, <1>4, <2>1, <2>2, <2>3, <2>4, <2>5 DEF Resolving
<1> QED
  BY <1>11, <1>12, <1>13 DEF ResolverInv

\* The guard, and the handler's own resolution.
LEMMA GuardResolves ==
  ASSUME ResInv, ResolverInv, NEW r \in Requests, GuardPasses(r)
  PROVE  ResolverInv'
<1>1. /\ StateType /\ Resolving(r) /\ req[r].pc = "decide" /\ req[r].ctx = "active"
  BY DEF ResInv, ResolverInv, GuardPasses, Decides, At
<1>2. UNCHANGED <<rowVars, cacheVars>> /\ UNCHANGED mode
  BY DEF GuardPasses, rowVars
<1>3. /\ OnlyReq(r) /\ Keeps(r, {"pc", "stage"})
      /\ req'[r].pc = "find" /\ req'[r].stage = "route"
  BY <1>1, GuardPassesMoves
<1>4. req'[r].key = req[r].key /\ req'[r].ctx = req[r].ctx /\ req'[r].barred = req[r].barred
  BY <1>3 DEF Keeps, Fields
<1>5. ~req[r].barred
  BY <1>1 DEF Resolving, BarredInv
<1>6. Resolving(r)'
  BY <1>1, <1>2, <1>3, <1>4, <1>5 DEF Resolving, LookupCurrent, FixedInv
<1> QED
  BY <1>1, <1>2, <1>3, <1>6, OneResolves

LEMMA RouteResolves ==
  ASSUME ResInv, ResolverInv, NEW r \in Requests, RouteToTenant(r) \/ RouteToGlobal(r)
  PROVE  ResolverInv'
<1>1. /\ StateType /\ Resolving(r) /\ req[r].pc = "decide" /\ req[r].stage = "route"
  BY DEF ResInv, ResolverInv, RouteToTenant, RouteToGlobal, Decides, At
<1>2. UNCHANGED <<rowVars, cacheVars>> /\ UNCHANGED mode
  BY DEF RouteToTenant, RouteToGlobal, rowVars
<1>3. ~req[r].barred
  BY <1>1 DEF Resolving, BarredInv
<1>4. ASSUME OnlyReq(r), Keeps(r, {"pc", "obj"}), req'[r].pc = "init",
             mode = "fixed" => req'[r].obj # 0
      PROVE  ResolverInv'
  <2>1. /\ req'[r].key = req[r].key /\ req'[r].ctx = req[r].ctx
        /\ req'[r].stage = req[r].stage /\ req'[r].barred = req[r].barred
    BY <1>4 DEF Keeps, Fields
  <2>2. Resolving(r)'
    BY <1>1, <1>2, <1>3, <1>4, <2>1 DEF Resolving, LookupCurrent, FixedInv
  <2> QED
    BY <1>1, <1>2, <1>4, <2>2, OneResolves
<1>5. CASE RouteToGlobal(r)
  <2>1. OnlyReq(r) /\ Keeps(r, {"pc"}) /\ req'[r].pc = "init"
    BY <1>1, <1>5, MoveMoves DEF RouteToGlobal, PCs
  <2>2. Keeps(r, {"pc", "obj"})
    BY <2>1 DEF Keeps
  <2>3. mode # "fixed"
    BY <1>1, <1>5 DEF RouteToGlobal, Resolving, FixedInv
  <2> QED
    BY <1>4, <2>1, <2>2, <2>3
<1>6. CASE RouteToTenant(r)
  <2>0. TenantOf(req[r].key) \in Sites
    BY <1>1, <1>6, TenancyAssumption DEF RouteToTenant, TenantOf, Resolving, StateType
  <2>1. PICK o \in Nat : o # 0 /\ req' = [req EXCEPT ![r].pc = "init", ![r].obj = o]
    <3>1. Len(objs) \in Nat /\ registry[TenantOf(req[r].key)] \in Nat
      BY <1>1, <2>0 DEF StateType
    <3> QED
      BY <1>6, <3>1 DEF RouteToTenant, GetOrCreate
  <2>2. OnlyReq(r) /\ Keeps(r, {"pc", "obj"}) /\ req'[r].pc = "init" /\ req'[r].obj = o
    BY <1>1, <2>1, TakesMoves
  <2> QED
    BY <1>4, <2>1, <2>2
<1> QED
  BY <1>5, <1>6

LEMMA InitializesResolves ==
  ASSUME ResInv, ResolverInv, NEW r \in Requests, Initializes(r) \/ Finish(r)
  PROVE  ResolverInv'
<1>1. StateType
  BY DEF ResInv
<1>2. ASSUME NEW pc \in {"inTx", "building", "done"}, Move(r, pc), UNCHANGED <<rowVars, cacheVars>>,
             req[r].pc \in {"init", "inTx", "serving"}
      PROVE  ResolverInv'
  <2>1. OnlyReq(r) /\ Keeps(r, {"pc"}) /\ req'[r].pc = pc
    BY <1>1, <1>2, MoveMoves DEF PCs
  <2>2. Keeps(r, {"pc", "outcome"})
    BY <2>1 DEF Keeps
  <2> QED
    BY <1>1, <1>2, <2>1, <2>2, LateResolves
<1>3. ASSUME NEW out \in {"ok", "signedOut"}, UNCHANGED <<rowVars, cacheVars>>,
             req' = [req EXCEPT ![r].pc = "serving", ![r].outcome = out],
             req[r].pc \in {"init", "inTx", "building"}
      PROVE  ResolverInv'
  <2>1. OnlyReq(r) /\ Keeps(r, {"pc", "outcome"}) /\ req'[r].pc = "serving"
    BY <1>1, <1>3, ServesMoves DEF Outcomes
  <2> QED
    BY <1>1, <1>3, <2>1, LateResolves
<1>4. CASE BeginOnIdleConnection(r)
  BY <1>2, <1>4 DEF BeginOnIdleConnection, At
<1>5. CASE BeginOnNewConnection(r)
  BY <1>2, <1>5 DEF BeginOnNewConnection, At
<1>6. CASE InitializeOnGlobal(r)
  BY <1>3, <1>6 DEF InitializeOnGlobal, At
<1>7. CASE SessionSetupThrows(r)
  BY <1>3, <1>7 DEF SessionSetupThrows, At
<1>8. CASE ServicesAlreadyBuilt(r)
  BY <1>3, <1>8 DEF ServicesAlreadyBuilt, ServicesAre, At
<1>9. CASE BuildServicesBegins(r)
  BY <1>2, <1>9 DEF BuildServicesBegins, ServicesAre, At
<1>10. CASE BuildServicesEnds(r)
  BY <1>3, <1>10 DEF BuildServicesEnds, At
<1>11. CASE BuildServicesThrows(r)
  BY <1>3, <1>11 DEF BuildServicesThrows, At
<1>12. CASE Finish(r)
  BY <1>2, <1>12 DEF Finish, At
<1> QED
  BY <1>4, <1>5, <1>6, <1>7, <1>8, <1>9, <1>10, <1>11, <1>12 DEF Initializes

-----------------------------------------------------------------------------
(* The resolver: steps of the operator *)

LEMMA ChangeResolves ==
  ASSUME ResInv, ResolverInv, NEW s \in Sites, NEW status \in Statuses, ChangeTenant(s, status)
  PROVE  ResolverInv'
<1>1. StateType /\ mode = "control" /\ s \in Keys
  BY DEF ResInv, ChangeTenant, Keys
<1>2. /\ UNCHANGED <<mode, cache, overlapped>>
      /\ \A x \in Keys : x # s => row'[x] = row[x]
      /\ \A x \in Sites : x # s => pending'[x] = pending[x]
      /\ "invalidate" \in pending'[s]
  BY <1>1 DEF ChangeTenant, cacheVars, StateType
<1>3. \A r \in Requests : Keeps(r, {"barred"}) /\ (req'[r].barred => req[r].barred /\ req[r].key # s)
  BY <1>1, ChangeTenantMoves
<1>4. ASSUME NEW r \in Requests
      PROVE  /\ req'[r].key = req[r].key /\ req'[r].stage = req[r].stage
             /\ req'[r].ctx = req[r].ctx /\ req'[r].pc = req[r].pc
             /\ req'[r].old = req[r].old /\ req'[r].obj = req[r].obj
             /\ req[r].key \in Keys
  BY <1>1, <1>3, <1>4 DEF Keeps, Fields, StateType, ReqType
<1>5. OnlySitesKnown'
  BY <1>2 DEF ResolverInv, OnlySitesKnown
<1>6. StaleOnlyByOverlap'
  <2> SUFFICES ASSUME NEW t \in Sites, Stale(t)'
               PROVE  "invalidate" \in pending'[t] \/ t \in overlapped'
    BY DEF StaleOnlyByOverlap
  <2>1. t \in Keys
    BY DEF Keys
  <2> QED
    BY <1>2, <2>1 DEF Stale, ResolverInv, StaleOnlyByOverlap
<1>7. ASSUME NEW x \in Keys, x # s, Settled(x) PROVE Settled(x)'
  BY <1>2, <1>4, <1>7 DEF Settled, At
<1>8. ASSUME NEW r \in Requests PROVE Resolving(r)'
  <2>1. Resolving(r)
    BY DEF ResolverInv
  <2>2. LookupCurrent(r)'
    BY <1>2, <1>4, <2>1 DEF Resolving, LookupCurrent
  <2>3. ASSUME req'[r].barred PROVE BarredInv(r)'
    <3>1. req[r].barred /\ req[r].key # s /\ BarredInv(r)
      BY <1>3, <2>1, <2>3 DEF Resolving
    <3>2. PICK x \in Keys : x = req[r].key /\ Settled(x)'
      BY <1>4, <1>7, <3>1 DEF BarredInv
    <3>3. Settled(req[r].key)'
      BY <1>4, <3>2 DEF Settled, At
    <3> QED
      BY <1>1, <1>2, <1>4, <3>1, <3>3 DEF BarredInv
  <2>4. req'[r].pc = "idle" => ~req'[r].barred
    BY <1>3, <1>4, <2>1 DEF Resolving
  <2> QED
    BY <1>1, <1>2, <1>4, <2>1, <2>2, <2>3, <2>4 DEF Resolving
<1> QED
  BY <1>5, <1>6, <1>8 DEF ResolverInv

LEMMA InvalidateResolves ==
  ASSUME ResInv, ResolverInv, NEW s \in Sites, OperatorInvalidates(s)
  PROVE  ResolverInv'
<1>1. StateType /\ s \in Keys /\ s \in Sites
  BY DEF ResInv, Keys
<1>2. PICK K \in SUBSET Keys :
        /\ s \in K /\ MarkOverlapped(K)
        /\ \A x \in Keys : cache'[x] = IF x \in K THEN "none" ELSE cache[x]
        /\ \A x \in Keys : x \notin K => (x \in overlapped' <=> x \in overlapped)
  <2>1. CASE Invalidate(s)
    <3>1. {s} \in SUBSET Keys
      BY <1>1
    <3> WITNESS {s} \in SUBSET Keys
    <3> QED
      BY <1>1, <2>1 DEF Invalidate, StateType
  <2>2. CASE InvalidateAll
    <3> WITNESS Keys \in SUBSET Keys
    <3> QED
      BY <1>1, <2>2 DEF InvalidateAll
  <2> QED
    BY <2>1, <2>2 DEF OperatorInvalidates
<1>3. /\ UNCHANGED <<mode, row>>
      /\ "invalidate" \in pending[s]
      /\ \A x \in Sites : pending'[x] = IF x = s THEN pending[x] \ {"invalidate"} ELSE pending[x]
  BY <1>1 DEF OperatorInvalidates, StateType
<1>4. ASSUME NEW r \in Requests
      PROVE  /\ req'[r].key = req[r].key /\ req'[r].stage = req[r].stage
             /\ req'[r].ctx = req[r].ctx /\ req'[r].pc = req[r].pc
             /\ req'[r].barred = req[r].barred /\ req'[r].obj = req[r].obj
             /\ req[r].key \in Keys
             /\ req'[r].old <=> req[r].old \/ (req[r].pc = "store" /\ req[r].key \in K)
  <2>1. Keeps(r, {"old"}) /\ (req'[r].old <=> req[r].old \/ (req[r].pc = "store" /\ req[r].key \in K))
    BY <1>1, <1>2, <1>4, MarkMoves
  <2> QED
    BY <1>1, <1>4, <2>1 DEF Keeps, Fields, StateType, ReqType
<1>5. OnlySitesKnown'
  BY <1>2, <1>3 DEF ResolverInv, OnlySitesKnown
<1>6. StaleOnlyByOverlap'
  <2> SUFFICES ASSUME NEW t \in Sites, Stale(t)'
               PROVE  "invalidate" \in pending'[t] \/ t \in overlapped'
    BY DEF StaleOnlyByOverlap
  <2>1. t \in Keys
    BY DEF Keys
  <2>2. t \notin K /\ t # s
    BY <1>2, <2>1 DEF Stale
  <2> QED
    BY <1>2, <1>3, <2>1, <2>2 DEF Stale, ResolverInv, StaleOnlyByOverlap
<1>7. ASSUME NEW x \in Keys, Settled(x) PROVE Settled(x)'
  <2>1. x \in Sites => x # s /\ pending'[x] = {}
    BY <1>3, <1>7 DEF Settled
  <2> QED
    BY <1>2, <1>3, <1>4, <1>7, <2>1 DEF Settled, At
<1>8. ASSUME NEW r \in Requests PROVE Resolving(r)'
  <2>1. Resolving(r)
    BY DEF ResolverInv
  <2>2. LookupCurrent(r)'
    <3> SUFFICES ASSUME req'[r].pc = "store", ~req'[r].old, req'[r].key \in Sites
                 PROVE  req'[r].ctx = row'[req'[r].key] \/ "invalidate" \in pending'[req'[r].key]
      BY <1>4, <2>1 DEF Resolving, LookupCurrent
    <3>1. req[r].pc = "store" /\ ~req[r].old /\ req[r].key \notin K /\ req[r].key \in Sites
      BY <1>4
    <3>2. pending'[req[r].key] = pending[req[r].key]
      BY <1>2, <1>3, <3>1
    <3> QED
      BY <1>3, <1>4, <2>1, <3>1, <3>2 DEF Resolving, LookupCurrent
  <2>3. ASSUME req'[r].barred PROVE BarredInv(r)'
    <3>1. BarredInv(r)
      BY <1>4, <2>1, <2>3 DEF Resolving
    <3>2. PICK x \in Keys : x = req[r].key /\ Settled(x)'
      BY <1>4, <1>7, <3>1 DEF BarredInv
    <3>3. Settled(req[r].key)'
      BY <1>4, <3>2 DEF Settled, At
    <3> QED
      BY <1>3, <1>4, <3>1, <3>3 DEF BarredInv
  <2>4. mode' = "fixed" => FixedInv(r)'
    BY <1>3, <1>4, <2>1 DEF Resolving, FixedInv
  <2> QED
    BY <1>3, <1>4, <2>1, <2>2, <2>3, <2>4 DEF Resolving
<1> QED
  BY <1>5, <1>6, <1>8 DEF ResolverInv

LEMMA EvictResolves ==
  ASSUME ResInv, ResolverInv, NEW s \in Sites, OperatorEvicts(s)
  PROVE  ResolverInv'
<1>1. /\ UNCHANGED <<mode, row, cache, overlapped, req>>
      /\ \A x \in Sites : pending'[x] \subseteq pending[x]
      /\ \A x \in Sites : "invalidate" \in pending[x] => "invalidate" \in pending'[x]
  BY DEF OperatorEvicts, cacheVars, ResInv, StateType
<1>2. \A x \in Keys : Settled(x) => Settled(x)'
  BY <1>1 DEF Settled, At
<1>3. ASSUME NEW r \in Requests PROVE Resolving(r)'
  <2>1. Resolving(r) /\ req[r].key \in Keys
    BY DEF ResolverInv, ResInv, StateType, ReqType
  <2>2. LookupCurrent(r)'
    BY <1>1, <2>1 DEF Resolving, LookupCurrent
  <2>3. req[r].barred => BarredInv(r)'
    BY <1>1, <1>2, <2>1 DEF Resolving, BarredInv
  <2>4. mode' = "fixed" => FixedInv(r)'
    BY <1>1, <2>1 DEF Resolving, FixedInv
  <2> QED
    BY <1>1, <2>1, <2>2, <2>3, <2>4 DEF Resolving
<1>4. OnlySitesKnown' /\ StaleOnlyByOverlap'
  BY <1>1 DEF ResolverInv, OnlySitesKnown, StaleOnlyByOverlap, Stale
<1> QED
  BY <1>3, <1>4 DEF ResolverInv

LEMMA ResolverStutter ==
  ASSUME ResInv, ResolverInv, UNCHANGED vars
  PROVE  ResolverInv'
<1>1. UNCHANGED <<mode, row, pending, cache, overlapped, req>>
  BY DEF vars, rowVars, cacheVars
<1>2. \A r \in Requests : Resolving(r)'
  BY <1>1 DEF ResolverInv, Resolving, LookupCurrent, BarredInv, FixedInv, Settled, At
<1>3. OnlySitesKnown' /\ StaleOnlyByOverlap'
  BY <1>1 DEF ResolverInv, OnlySitesKnown, StaleOnlyByOverlap, Stale
<1> QED
  BY <1>2, <1>3 DEF ResolverInv

-----------------------------------------------------------------------------
(* The theorems *)

Inv == ResInv /\ ResolverInv

LEMMA InvStep ==
  ASSUME Inv, [Next]_vars
  PROVE  Inv'
<1> USE DEF Inv
<1>1. ASSUME NEW r \in Requests, NEW k \in Keys, Arrive(r, k) PROVE Inv'
  BY <1>1, ResolvesKeeps, ArriveResolves
<1>2. ASSUME NEW r \in Requests, Probe(r) PROVE Inv'
  <2>1. "ok" \in Outcomes
    BY DEF Outcomes
  <2>2. ResolverInv'
    BY <1>2, <2>1, FailsResolves DEF Probe, At
  <2> QED
    BY <1>2, <2>2, ResolvesKeeps
<1>3. ASSUME NEW r \in Requests, Resolves(r) PROVE Inv'
  <2>1. ResInv'
    BY <1>3, ResolvesKeeps
  <2>2. CASE LookupThrows(r)
    <3>1. "error" \in Outcomes
      BY DEF Outcomes
    <3>2. ResolverInv'
      BY <2>2, <3>1, FailsResolves DEF LookupThrows, At
    <3> QED
      BY <2>1, <3>2
  <2> QED
    BY <1>3, <2>1, <2>2, DecideResolves, MissResolves, LookupResolves, StoreResolves DEF Resolves
<1>4. ASSUME NEW r \in Requests, GuardPasses(r) PROVE Inv'
  BY <1>4, ResolvesKeeps, GuardResolves
<1>5. ASSUME NEW r \in Requests, GuardRejects(r) PROVE Inv'
  <2>1. Rejection(r) \in Outcomes
    BY DEF Rejection, Outcomes
  <2>2. ResolverInv'
    BY <1>5, <2>1, FailsResolves DEF GuardRejects, Decides, At
  <2> QED
    BY <1>5, <2>2, ResolvesKeeps
<1>6. ASSUME NEW r \in Requests, RouteToTenant(r) PROVE Inv'
  <2>1. TenantOf(req[r].key) \in Sites
    <3>1. Resolving(r) /\ req[r].ctx = "active" /\ mode \in Modes
      BY <1>6 DEF ResolverInv, RouteToTenant, ResInv, StateType
    <3> QED
      BY <3>1, TenancyAssumption DEF TenantOf, Resolving
  <2> QED
    BY <1>6, <2>1, RouteKeeps, RouteResolves
<1>7. ASSUME NEW r \in Requests, RouteToGlobal(r) PROVE Inv'
  BY <1>7, ResolvesKeeps, RouteResolves
<1>8. ASSUME NEW r \in Requests, Initializes(r) PROVE Inv'
  <2>1. ResInv'
    BY <1>8, PrologueKeeps, NewConnectionKeeps, BuildKeeps DEF Initializes
  <2> QED
    BY <1>8, <2>1, InitializesResolves
<1>9. ASSUME NEW r \in Requests, Finish(r) PROVE Inv'
  BY <1>9, FinishKeeps, InitializesResolves
<1>10. ASSUME NEW s \in Sites, Operates(s) PROVE Inv'
  <2>1. CASE OnboardTenant(s) \/ SuspendTenant(s) \/ ReactivateTenant(s)
    <3>1. \E status \in Statuses : ChangeTenant(s, status)
      BY <2>1 DEF OnboardTenant, SuspendTenant, ReactivateTenant, Statuses
    <3> QED
      BY <2>1, <3>1, OperatorKeeps, ChangeResolves
  <2>2. CASE OperatorInvalidates(s)
    BY <2>2, OperatorKeeps, InvalidateResolves
  <2>3. CASE OperatorEvicts(s)
    BY <2>3, EvictKeeps, EvictResolves
  <2> QED
    BY <1>10, <2>1, <2>2, <2>3 DEF Operates
<1>11. ASSUME NEW r \in Requests, FactoryThrows(r) PROVE Inv'
  <2>1. "error" \in Outcomes
    BY DEF Outcomes
  <2>2. ResolverInv'
    BY <1>11, <2>1, FailsResolves DEF FactoryThrows, Decides, At
  <2> QED
    BY <1>11, <2>2, ResolvesKeeps
<1>12. CASE UNCHANGED vars
  BY <1>12, ResStutter, ResolverStutter
<1> QED
  BY <1>1, <1>2, <1>3, <1>4, <1>5, <1>6, <1>7, <1>8, <1>9, <1>10, <1>11, <1>12
  DEF Next, Handles, Rests

LEMMA InvAlways == Spec => []Inv
<1>1. Init => Inv
  BY ResInit, ResolverInit DEF Inv
<1>2. Inv /\ [Next]_vars => Inv'
  BY InvStep
<1> QED
  BY <1>1, <1>2, PTL DEF Spec

(***************************************************************************)
(* TenantResourceRegistry, GetOrCreate, Evict, EnsureServices and the      *)
(* pool's destructor: whatever races, throws or is evicted, a tenant has   *)
(* one registered pool, the process-wide count of pooled connections is    *)
(* what the live pools hold, and a request that is served has its tenant's *)
(* services.                                                               *)
(***************************************************************************)
THEOREM ResourcesAlwaysAccounted == Spec => []ResourcesAccounted
<1>1. ASSUME Inv PROVE ResourcesAccounted
  <2>1. StateType /\ OnePoolPerTenant /\ AccountingExact /\ OneBuilder /\ \A r \in Requests : Routed(r)
    BY <1>1 DEF Inv, ResInv
  <2>2. TypeOK
    <3>1. total \in Nat
      BY <2>1, ConnectionsFinite DEF AccountingExact
    <3>2. ASSUME NEW r \in Requests
          PROVE  req[r] \in [key : Keys, stage : Stages, pc : PCs, ctx : Statuses,
                             old : BOOLEAN, obj : 0 .. Len(objs), barred : BOOLEAN,
                             outcome : Outcomes]
      <4>1. req[r] \in ReqType /\ req[r].obj <= Len(objs) /\ Len(objs) \in Nat
        BY <2>1 DEF StateType
      <4>2. req[r].obj \in 0 .. Len(objs)
        BY <4>1 DEF ReqType
      <4> QED
        BY <4>1, <4>2 DEF ReqType
    <3>3. req = [r \in Requests |-> req[r]]
      BY <2>1 DEF StateType
    <3> QED
      BY <2>1, <3>1, <3>2, <3>3 DEF StateType, TypeOK, ObjType
  <2>3. ASSUME NEW o \in DOMAIN objs
        PROVE  objs[o].services = "building" <=>
                 Cardinality({r \in Busy(o) : At(r, "building")}) = 1
    <3> DEFINE B == {r \in Busy(o) : At(r, "building")}
    <3>1. \A r \in Requests : r \in B <=> req[r].pc = "building" /\ req[r].obj = o
      BY DEF Busy, Holders, InTransaction, At
    <3>2. B \subseteq Requests
      BY DEF Busy, Holders
    <3> HIDE DEF B
    <3>3. CASE objs[o].services = "building"
      <4>1. PICK r \in Requests : req[r].pc = "building" /\ req[r].obj = o
        BY <2>1, <2>3, <3>3 DEF OneBuilder
      <4>2. B = {r}
        BY <2>1, <3>1, <3>2, <4>1 DEF OneBuilder
      <4> QED
        BY <3>3, <4>2, FS_Singleton DEF B
    <3>4. CASE objs[o].services # "building"
      <4>1. B = {}
        BY <2>1, <3>1, <3>2, <3>4 DEF Routed
      <4> QED
        BY <3>4, <4>1, FS_EmptySet DEF B
    <3> QED
      BY <3>3, <3>4
  <2>4. ServicesReady
    BY <2>1, <2>3 DEF ServicesReady, Routed, At
  <2> QED
    BY <2>1, <2>2, <2>4 DEF ResourcesAccounted
<1> QED
  BY <1>1, InvAlways, PTL

(***************************************************************************)
(* ControlDbTenantResolver's cache, Invalidate and the resolution guard:   *)
(* a cached status that differs from the table is one the operator has yet *)
(* to invalidate or a lookup overtook; a settled suspension keeps every    *)
(* later request out; and the fixed mode never serves on the global        *)
(* database.                                                               *)
(***************************************************************************)
THEOREM TenantChangesAlwaysTakeEffect == Spec => []TenantChangesTakeEffect
<1>1. ASSUME Inv PROVE TenantChangesTakeEffect
  <2>1. ResolverInv
    BY <1>1 DEF Inv
  <2>2. SuspensionTakesEffect
    BY <2>1 DEF ResolverInv, Resolving, BarredInv, SuspensionTakesEffect
  <2>3. FixedNeverGlobal
    BY <2>1 DEF ResolverInv, Resolving, FixedInv, FixedNeverGlobal, NeverServedOnGlobal, At
  <2> QED
    BY <2>1, <2>2, <2>3 DEF ResolverInv, TenantChangesTakeEffect
<1> QED
  BY <1>1, InvAlways, PTL
=============================================================================
