--------------------------- MODULE SchedulerProofs ---------------------------
(***************************************************************************)
(* Scheduler for any job lists, any login targets and any bounds: no job   *)
(* is left without its next tick, a tick runs its own job, and a reload    *)
(* replaces the jobs and their sessions together.                          *)
(***************************************************************************)
EXTENDS Scheduler, FiniteSetTheorems, SequenceTheorems, TLAPS

-----------------------------------------------------------------------------
(* The operators the model is built from *)

\* A set of natural numbers has a least member.
LEMMA LeastMember ==
  ASSUME NEW T \in SUBSET Nat, T # {}
  PROVE  \E x \in T : \A y \in T : x <= y
<1>1. PICK x \in T : \A y \in T : ~(<<y, x>> \in OpToRel(<, Nat))
  BY WFMin, NatLessThanWellFounded
<1>2. \A y \in T : ~(y < x)
  BY <1>1 DEF OpToRel
<1> QED
  BY <1>2

\* InOrder enumerates a finite set of numbers: the k-th member is the one with k
\* members up to it.
LEMMA InOrderEnumerates ==
  ASSUME NEW S \in SUBSET Nat, IsFiniteSet(S)
  PROVE  /\ InOrder(S) \in [1 .. Cardinality(S) -> S]
         /\ \A k, m \in 1 .. Cardinality(S) : k < m => InOrder(S)[k] < InOrder(S)[m]
<1> DEFINE N == Cardinality(S)
           upTo(i) == {m \in S : m <= i}
           rank == [i \in S |-> Cardinality(upTo(i))]
<1>1. N \in Nat
  BY FS_CardinalityType
<1>2. ASSUME NEW i \in S PROVE rank[i] \in 1 .. N
  <2>1. IsFiniteSet(upTo(i)) /\ Cardinality(upTo(i)) <= N
    BY FS_Subset
  <2>2. i \in upTo(i)
    OBVIOUS
  <2>3. PICK U : U = upTo(i) /\ U # {}
    BY <2>2
  <2>4. IsFiniteSet(U) /\ Cardinality(U) <= N
    BY <2>1, <2>3
  <2>5. Cardinality(U) \in Nat
    BY <2>4, FS_CardinalityType
  <2>6. Cardinality(U) # 0
    BY <2>3, <2>4, FS_EmptySet
  <2> QED
    BY <1>1, <2>3, <2>4, <2>5, <2>6
<1>3. ASSUME NEW i \in S, NEW j \in S, i < j PROVE rank[i] < rank[j]
  <2>0. \A m \in S : m \in Nat
    OBVIOUS
  <2>1. upTo(i) \in SUBSET upTo(j) /\ upTo(i) # upTo(j)
    <3>1. \A m \in S : m <= i => m <= j
      BY <1>3, <2>0
    <3>2. ~(j <= i) /\ j <= j
      BY <1>3, <2>0
    <3> QED
      BY <3>1, <3>2
  <2>2. IsFiniteSet(upTo(j))
    BY FS_Subset
  <2>3. Cardinality(upTo(i)) <= Cardinality(upTo(j)) /\ Cardinality(upTo(i)) # Cardinality(upTo(j))
    BY <2>1, <2>2, FS_Subset
  <2> QED
    BY <1>2, <2>3
<1> HIDE DEF rank, N
<1>4. ASSUME NEW k \in 1 .. N PROVE \E i \in S : rank[i] = k
  <2> SUFFICES ASSUME \A i \in S : rank[i] # k PROVE FALSE
    OBVIOUS
  <2> DEFINE I == 1 .. N
             T == I \ {k}
  <2>1. IsFiniteSet(I) /\ Cardinality(I) = N /\ k \in I
    BY <1>1, FS_Interval
  <2>2. rank \in [S -> T]
    BY <1>2 DEF rank
  <2> HIDE DEF I
  <2>3. IsFiniteSet(T) /\ Cardinality(T) = N - 1
    BY <2>1, FS_RemoveElement
  <2>4. Cardinality(T) < Cardinality(S)
    BY <1>1, <2>3 DEF N
  <2> HIDE DEF T
  <2>5. PICK x \in S, y \in S : x # y /\ rank[x] = rank[y]
    BY <2>2, <2>3, <2>4, FS_PigeonHole
  <2>6. x < y \/ y < x
    BY <2>5
  <2> QED
    BY <1>2, <1>3, <2>5, <2>6
<1> DEFINE f == [k \in 1 .. N |-> CHOOSE i \in S : rank[i] = k]
<1>5. \A k \in 1 .. N : f[k] \in S /\ rank[f[k]] = k
  BY <1>4
<1>6. f \in [1 .. N -> S]
  BY <1>5
<1> HIDE DEF f
<1>7. ASSUME NEW k \in 1 .. N, NEW m \in 1 .. N, k < m PROVE f[k] < f[m]
  <2>1. PICK x \in S, y \in S : x = f[k] /\ y = f[m] /\ rank[x] = k /\ rank[y] = m
    BY <1>5
  <2>2. x # y /\ ~(y < x)
    BY <1>3, <1>7, <2>1
  <2>3. x \in Nat /\ y \in Nat
    OBVIOUS
  <2> QED
    BY <2>1, <2>2, <2>3
<1> QED
  BY <1>6, <1>7 DEF InOrder, N

EnabledJobs == {j \in AllJobs : j.enabled}

\* What Enabled keeps of a catalog: only enabled jobs, each of another place.
LEMMA EnabledIsSelection ==
  ASSUME NEW c \in Catalogs
  PROVE  /\ Enabled(c) \in Seq(EnabledJobs)
         /\ \A k, m \in DOMAIN Enabled(c) :
              k # m => \E i, j \in DOMAIN c :
                         /\ i # j /\ c[i].enabled /\ c[j].enabled
                         /\ Enabled(c)[k] = c[i] /\ Enabled(c)[m] = c[j]
<1> DEFINE on == {i \in DOMAIN c : c[i].enabled}
           f == InOrder(on)
           n == Cardinality(on)
<1>1. DOMAIN c = 1 .. Len(c) /\ Len(c) \in Nat
  BY SchedulerAssumption
<1>2. on \in SUBSET Nat /\ IsFiniteSet(on)
  <2>1. IsFiniteSet(1 .. Len(c)) /\ on \in SUBSET (1 .. Len(c))
    BY <1>1, FS_Interval
  <2> QED
    BY <1>1, <2>1, FS_Subset
<1>3. n \in Nat
  BY <1>2, FS_CardinalityType
<1>4. f \in [1 .. n -> on] /\ \A k, m \in 1 .. n : k < m => f[k] < f[m]
  BY <1>2, InOrderEnumerates
<1>5. Enabled(c) = [k \in 1 .. n |-> c[f[k]]]
  BY DEF Enabled
<1> HIDE DEF f, n
<1>6. ASSUME NEW k \in 1 .. n
      PROVE  f[k] \in DOMAIN c /\ c[f[k]].enabled /\ c[f[k]] \in EnabledJobs
  <2>1. f[k] \in on
    BY <1>4
  <2> QED
    BY <2>1 DEF EnabledJobs, AllJobs
<1>7. Enabled(c) \in Seq(EnabledJobs)
  BY <1>3, <1>5, <1>6
<1>8. ASSUME NEW k \in 1 .. n, NEW m \in 1 .. n, k # m PROVE f[k] # f[m]
  <2>1. k < m \/ m < k
    BY <1>8
  <2>2. f[k] \in Nat /\ f[m] \in Nat
    BY <1>1, <1>6
  <2> QED
    BY <1>4, <2>1, <2>2
<1> QED
  BY <1>5, <1>6, <1>7, <1>8

LEMMA JobTargets ==
  ASSUME NEW js \in Seq(EnabledJobs)
  PROVE  /\ \A i \in DOMAIN js : js[i].target \in Targets
         /\ TargetsOf(js) \subseteq Targets
<1>1. \A j \in EnabledJobs : j.target \in Targets
  BY SchedulerAssumption DEF EnabledJobs, AllJobs, IsJob
<1> QED
  BY <1>1 DEF TargetsOf

\* FindJob finds a registered job of that name, the one asked for if no other has
\* its name.
LEMMA FindJobFinds ==
  ASSUME jobs \in Seq(EnabledJobs), NEW i \in DOMAIN jobs
  PROVE  FindJob(i) \in DOMAIN jobs /\ jobs[FindJob(i)].name = jobs[i].name
<1> DEFINE T == {k \in DOMAIN jobs : jobs[k].name = jobs[i].name}
<1>1. T \in SUBSET Nat /\ T # {}
  OBVIOUS
<1>2. PICK k \in T : \A m \in T : k <= m
  BY <1>1, LeastMember
<1> QED
  BY <1>2 DEF FindJob

(***************************************************************************)
(* After SetJobs and AuthenticateTargets: sessions for the new jobs only,  *)
(* and, unless a login threw, credentials for each of them.                *)
(***************************************************************************)
LEMMA ReplaceJobsReplaces ==
  ASSUME NEW c \in Catalogs, NEW login \in LoginResults(Enabled(c)), ReplaceJobs(c, login)
  PROVE  /\ jobs' = Enabled(c) /\ jobs' \in Seq(EnabledJobs)
         /\ clients' \in [Targets -> ClientStates]
         /\ \A tg \in Targets : clients'[tg] # "none" => tg \in TargetsOf(jobs')
         /\ ~Throws(login) => \A i \in DOMAIN jobs' : clients'[jobs'[i].target] \in HasCredentials
<1> DEFINE js == Enabled(c)
<1>1. js \in Seq(EnabledJobs)
  BY EnabledIsSelection
<1>2. /\ jobs' = js
      /\ clients' = [tg \in Targets |->
           IF tg \in TargetsOf(js) /\ Reached(js, login, tg)
             THEN IF login[tg] = "ok" THEN "live" ELSE "noCookie"
             ELSE "none"]
  BY DEF ReplaceJobs, AuthenticateTargets, NoClients
<1> HIDE DEF js
<1>3. ASSUME ~Throws(login), NEW i \in DOMAIN js PROVE clients'[js[i].target] \in HasCredentials
  <2>1. Reached(js, login, js[i].target)
    BY <1>3 DEF Reached, Throws
  <2>2. js[i].target \in TargetsOf(js) /\ js[i].target \in Targets
    BY <1>1, <1>3, JobTargets DEF TargetsOf
  <2> QED
    BY <1>2, <2>1, <2>2 DEF HasCredentials
<1> QED
  BY <1>1, <1>2, <1>3 DEF js, ClientStates

-----------------------------------------------------------------------------
(* The inductive invariant *)

Phases == {"new", "ready", "run", "runFor", "exited", "failed", "aborted"}

Handlers ==
  [kind : {"job"}, index : Nat, setFor : EnabledJobs, stale : BOOLEAN]
  \cup [kind : {"refresh", "signal"}]

StateType ==
  /\ phase \in Phases
  /\ jobs \in Seq(EnabledJobs)
  /\ lastJobs \in Catalogs \cup {<<>>}
  /\ started \in BOOLEAN
  /\ timers \in Seq(SUBSET EnabledJobs)
  /\ refreshTimer \in {"armed", "idle"}
  /\ ready \in Seq(Handlers)
  /\ clients \in [Targets -> ClientStates]
  /\ outOfRange \in BOOLEAN

Counted ==
  /\ runFors \in 0 .. MaxRunFors /\ reloads \in 0 .. MaxReloads
  /\ faults \in 0 .. MaxFaults /\ expiries \in 0 .. MaxExpiries

\* Initialize has succeeded and nothing has stopped the process since: between two
\* RunFor calls, too, the jobs have their credentials and are the ones compared.
Alive == phase \in {"ready", "run", "runFor"}

AliveHasSessions ==
  Alive =>
    /\ \A i \in DOMAIN jobs : clients[jobs[i].target] \in HasCredentials
    /\ Refreshing => jobs = Enabled(lastJobs)

Inv ==
  /\ StateType
  /\ Counted
  /\ NoOrphanedSession
  /\ AliveHasSessions
  /\ EveryJobHasATick

-----------------------------------------------------------------------------
(* The queue of completed waits *)

\* A handler that is appended leaves the others on their way.
LEMMA CompleteKeeps ==
  ASSUME ready \in Seq(Handlers), NEW h \in Handlers, Complete(h)
  PROVE  /\ ready' \in Seq(Handlers)
         /\ \A i : Queued(i) => Queued(i)'
         /\ h.kind = "job" /\ ~h.stale => Queued(h.index)'
         /\ (\E k \in DOMAIN ready : ready[k].kind = "refresh")
              => \E k \in DOMAIN ready' : ready'[k].kind = "refresh"
         /\ h.kind = "refresh" => \E k \in DOMAIN ready' : ready'[k].kind = "refresh"
<1>1. /\ ready' = Append(ready, h) /\ ready' \in Seq(Handlers)
      /\ DOMAIN ready' = 1 .. Len(ready) + 1 /\ DOMAIN ready = 1 .. Len(ready)
      /\ Len(ready) \in Nat
      /\ \A k \in 1 .. Len(ready) : ready'[k] = ready[k]
      /\ ready'[Len(ready) + 1] = h
  BY DEF Complete
<1>2. \A k \in DOMAIN ready : k \in DOMAIN ready' /\ ready'[k] = ready[k]
  BY <1>1
<1>3. Len(ready) + 1 \in DOMAIN ready' /\ ready'[Len(ready) + 1] = h
  BY <1>1
<1> QED
  BY <1>1, <1>2, <1>3 DEF Queued

\* A handler that has run leaves the others on their way.
LEMMA DispatchKeeps ==
  ASSUME ready \in Seq(Handlers), ready # <<>>, ready' = Tail(ready)
  PROVE  /\ ready' \in Seq(Handlers) /\ Head(ready) \in Handlers
         /\ \A i : Queued(i) => Queued(i)' \/ (Head(ready).kind = "job" /\ Head(ready).index = i)
         /\ (\E k \in DOMAIN ready : ready[k].kind = "refresh")
              => \/ Head(ready).kind = "refresh"
                 \/ \E k \in DOMAIN ready' : ready'[k].kind = "refresh"
<1>1. /\ ready' \in Seq(Handlers) /\ Head(ready) = ready[1] /\ ready[1] \in Handlers
      /\ DOMAIN ready' = 1 .. Len(ready) - 1 /\ DOMAIN ready = 1 .. Len(ready)
      /\ Len(ready) \in Nat
      /\ \A k \in 1 .. Len(ready) - 1 : ready'[k] = ready[k + 1]
  BY HeadTailProperties
<1>2. ASSUME NEW k \in DOMAIN ready
      PROVE  k = 1 \/ \E m \in DOMAIN ready' : ready'[m] = ready[k]
  <2>1. CASE k # 1
    <3>1. k - 1 \in DOMAIN ready' /\ ready'[k - 1] = ready[k]
      BY <1>1, <2>1
    <3> QED
      BY <3>1
  <2> QED
    BY <2>1
<1> QED
  BY <1>1, <1>2 DEF Queued

LEMMA LeftoverType ==
  ASSUME NEW q \in Seq(Handlers)
  PROVE  Leftover(q) \in Seq(Handlers)
<1>1. ASSUME NEW h \in Handlers, h.kind = "job" PROVE [h EXCEPT !.stale = TRUE] \in Handlers
  BY <1>1 DEF Handlers
<1> DEFINE g(i) == IF q[i].kind = "job" THEN [q[i] EXCEPT !.stale = TRUE] ELSE q[i]
<1>2. \A i \in DOMAIN q : g(i) \in Handlers
  BY <1>1
<1>3. DOMAIN q = 1 .. Len(q) /\ Len(q) \in Nat
  OBVIOUS
<1>4. Leftover(q) = [i \in 1 .. Len(q) |-> g(i)]
  BY <1>3 DEF Leftover
<1> HIDE DEF g
<1> QED
  BY <1>2, <1>3, <1>4

LEMMA AllArmedType ==
  ASSUME NEW js \in Seq(EnabledJobs)
  PROVE  /\ AllArmed(js) \in Seq(SUBSET EnabledJobs) /\ DOMAIN AllArmed(js) = DOMAIN js
         /\ \A i \in DOMAIN js : AllArmed(js)[i] = {js[i]}
  BY DEF AllArmed

-----------------------------------------------------------------------------
(* Initial states and steps *)

LEMMA EmptyIsSeq == \A S : <<>> \in Seq(S)
  OBVIOUS

LEMMA InvInit == Init => Inv
<1> SUFFICES ASSUME Init PROVE Inv
  OBVIOUS
<1>1. StateType
  <2>1. jobs \in Seq(EnabledJobs) /\ timers \in Seq(SUBSET EnabledJobs) /\ ready \in Seq(Handlers)
    BY EmptyIsSeq DEF Init
  <2>2. clients \in [Targets -> ClientStates]
    BY DEF Init, ClientStates
  <2> QED
    BY <2>1, <2>2 DEF Init, StateType, Phases
<1>2. Counted
  BY SchedulerAssumption DEF Init, Counted
<1> QED
  BY <1>1, <1>2
  DEF Init, Inv, NoOrphanedSession, AliveHasSessions, Alive, EveryJobHasATick, Looping

LEMMA FaultCounts ==
  ASSUME Counted, Fault
  PROVE  faults' \in 0 .. MaxFaults
  BY SchedulerAssumption DEF Counted, Fault

LEMMA InitializeKeeps ==
  ASSUME Inv, InitializeOk \/ InitializeFails
  PROVE  Inv'
<1>1. CASE InitializeOk
  <2>0. PICK c \in Catalogs : \E login \in LoginResults(Enabled(c)) :
           /\ AllOk(login) /\ ReplaceJobs(c, login)
           /\ lastJobs' = IF Refreshing THEN c ELSE <<>>
    BY <1>1 DEF InitializeOk
  <2>1. PICK login \in LoginResults(Enabled(c)) :
           /\ AllOk(login) /\ ReplaceJobs(c, login)
           /\ lastJobs' = IF Refreshing THEN c ELSE <<>>
    BY <2>0
  <2>2. ~Throws(login)
    BY <2>1 DEF AllOk, Throws
  <2>3. /\ jobs' = Enabled(c) /\ jobs' \in Seq(EnabledJobs)
        /\ clients' \in [Targets -> ClientStates]
        /\ NoOrphanedSession'
        /\ \A i \in DOMAIN jobs' : clients'[jobs'[i].target] \in HasCredentials
    BY <2>1, <2>2, ReplaceJobsReplaces DEF NoOrphanedSession
  <2>4. StateType'
    BY <1>1, <2>1, <2>3 DEF Inv, StateType, InitializeOk, Phases
  <2>5. Counted'
    BY <1>1 DEF InitializeOk, Inv, Counted, bounds
  <2> QED
    BY <1>1, <2>1, <2>3, <2>4, <2>5
    DEF Inv, InitializeOk, AliveHasSessions, EveryJobHasATick, Looping
<1>2. CASE InitializeFails
  <2>1. Counted'
    BY <1>2, FaultCounts DEF InitializeFails, Inv, Counted
  <2>2. phase' = "failed" /\ UNCHANGED <<started, timers, refreshTimer, ready, outOfRange>>
    BY <1>2 DEF InitializeFails
  <2>3. CASE UNCHANGED <<jobs, lastJobs, clients>>
    BY <2>1, <2>2, <2>3
    DEF Inv, StateType, Phases, NoOrphanedSession, AliveHasSessions, Alive,
        EveryJobHasATick, Looping
  <2>4. CASE \E c \in Catalogs : \E login \in LoginResults(Enabled(c)) :
               /\ ReplaceJobs(c, login)
               /\ lastJobs' = IF Refreshing THEN c ELSE <<>>
    <3>1. /\ jobs' \in Seq(EnabledJobs) /\ clients' \in [Targets -> ClientStates]
          /\ NoOrphanedSession' /\ lastJobs' \in Catalogs \cup {<<>>}
      BY <2>4, ReplaceJobsReplaces DEF NoOrphanedSession
    <3> QED
      BY <2>1, <2>2, <3>1
      DEF Inv, StateType, Phases, AliveHasSessions, Alive, EveryJobHasATick, Looping
  <2> QED
    BY <1>2, <2>3, <2>4 DEF InitializeFails
<1> QED
  BY <1>1, <1>2

\* Start arms a timer for every job.
LEMMA StartKeeps ==
  ASSUME Inv, Run \/ RunFor
  PROVE  Inv'
<1>1. /\ UNCHANGED <<jobs, lastJobs, ready, clients, outOfRange>>
      /\ phase = "ready" /\ phase' \in {"run", "runFor"}
      /\ StartWith(jobs) /\ refreshTimer' \in {"armed", "idle"}
      /\ phase' = "run" /\ Refreshing => refreshTimer' = "armed"
  BY DEF Run, RunFor, Inv, StateType
<1>2. Counted'
  BY SchedulerAssumption DEF Run, RunFor, Inv, Counted, bounds
<1>3. /\ started' = TRUE /\ timers' \in Seq(SUBSET EnabledJobs) /\ DOMAIN timers' = DOMAIN jobs
      /\ \A i \in DOMAIN jobs : timers'[i] = {jobs[i]}
  BY <1>1, AllArmedType DEF StartWith, Inv, StateType
<1>4. EveryJobHasATick'
  BY <1>1, <1>3 DEF EveryJobHasATick
<1> QED
  BY <1>1, <1>2, <1>3, <1>4
  DEF Inv, StateType, Phases, NoOrphanedSession, AliveHasSessions, Alive

\* The loop ends, or pauses between two RunFor calls.
LEMMA StopKeeps ==
  ASSUME Inv, RunForEnds \/ SignalHandler
  PROVE  Inv'
<1>1. /\ Unstarted /\ phase' \in {"ready", "exited"}
      /\ phase' = "ready" => phase = "runFor"
      /\ refreshTimer' \in {"armed", "idle"}
      /\ UNCHANGED <<jobs, lastJobs, clients, outOfRange, bounds>>
  BY DEF RunForEnds, SignalHandler, Inv, StateType
<1>2. ready' \in Seq(Handlers)
  <2>1. CASE RunForEnds
    BY <2>1, LeftoverType DEF RunForEnds, Inv, StateType
  <2>2. CASE SignalHandler
    <3>1. Tail(ready) \in Seq(Handlers)
      BY <2>2 DEF SignalHandler, Dispatch, Inv, StateType
    <3> QED
      BY <2>2, <3>1, LeftoverType DEF SignalHandler
  <2> QED
    BY <2>1, <2>2
<1>3. timers' \in Seq(SUBSET EnabledJobs) /\ started' = FALSE
  BY <1>1, EmptyIsSeq DEF Unstarted
<1>4. StateType' /\ Counted'
  BY <1>1, <1>2, <1>3 DEF Inv, StateType, Phases, Counted, bounds
<1> QED
  BY <1>1, <1>4
  DEF Inv, NoOrphanedSession, AliveHasSessions, Alive, EveryJobHasATick, Looping

\* A wait completes: a job whose timer is no longer armed has its handler queued.
LEMMA ExpiryKeeps ==
  ASSUME Inv,
         \/ \E i \in DOMAIN timers : JobTimerExpires(i)
         \/ RefreshTimerExpires
         \/ SignalArrives
  PROVE  Inv'
<1>1. /\ UNCHANGED <<phase, jobs, lastJobs, started, clients, outOfRange, bounds>>
      /\ Looping
  BY DEF JobTimerExpires, RefreshTimerExpires, SignalArrives, jobVars, Looping
<1>2. Counted' /\ NoOrphanedSession' /\ AliveHasSessions'
  BY <1>1 DEF Inv, Counted, bounds, NoOrphanedSession, AliveHasSessions, Alive
<1>3. ASSUME NEW i \in DOMAIN timers, JobTimerExpires(i) PROVE StateType' /\ EveryJobHasATick'
  <2>0. PICK j \in timers[i] : Complete([kind |-> "job", index |-> i, setFor |-> j, stale |-> FALSE])
    BY <1>3 DEF JobTimerExpires
  <2> DEFINE h == [kind |-> "job", index |-> i, setFor |-> j, stale |-> FALSE]
  <2>1. DOMAIN timers = 1 .. Len(timers) /\ Len(timers) \in Nat
    BY DEF Inv, StateType
  <2>2. h \in Handlers /\ h.kind = "job" /\ ~h.stale /\ h.index = i
    <3>1. i \in Nat /\ j \in EnabledJobs
      BY <2>1 DEF Inv, StateType
    <3> QED
      BY <3>1 DEF Handlers
  <2>3. Complete(h)
    BY <2>0
  <2> HIDE DEF h
  <2>4. /\ ready' \in Seq(Handlers) /\ Queued(i)' /\ \A k : Queued(k) => Queued(k)'
        /\ (\E k \in DOMAIN ready : ready[k].kind = "refresh")
              => \E k \in DOMAIN ready' : ready'[k].kind = "refresh"
    BY <2>2, <2>3, CompleteKeeps DEF Inv, StateType
  <2>5. /\ timers' = [timers EXCEPT ![i] = {}] /\ refreshTimer' = refreshTimer
        /\ timers' \in Seq(SUBSET EnabledJobs) /\ DOMAIN timers' = DOMAIN timers
        /\ \A k \in DOMAIN timers : k # i => timers'[k] = timers[k]
    BY <1>3, ExceptSeq DEF JobTimerExpires, Inv, StateType
  <2>6. StateType'
    BY <1>1, <2>4, <2>5 DEF Inv, StateType
  <2>7. EveryJobHasATick'
    BY <1>1, <2>4, <2>5 DEF Inv, EveryJobHasATick, Looping
  <2> QED
    BY <2>6, <2>7
<1>4. CASE RefreshTimerExpires
  <2> DEFINE h == [kind |-> "refresh"]
  <2>1. h \in Handlers /\ h.kind = "refresh" /\ Complete(h)
    BY <1>4 DEF Handlers, RefreshTimerExpires
  <2> HIDE DEF h
  <2>2. /\ ready' \in Seq(Handlers) /\ \A j : Queued(j) => Queued(j)'
        /\ \E k \in DOMAIN ready' : ready'[k].kind = "refresh"
    BY <2>1, CompleteKeeps DEF Inv, StateType
  <2>3. timers' = timers /\ refreshTimer' = "idle"
    BY <1>4 DEF RefreshTimerExpires, jobVars
  <2> QED
    BY <1>1, <1>2, <2>2, <2>3 DEF Inv, StateType, EveryJobHasATick, Looping
<1>5. CASE SignalArrives
  <2> DEFINE h == [kind |-> "signal"]
  <2>1. h \in Handlers /\ Complete(h)
    BY <1>5 DEF Handlers, SignalArrives
  <2> HIDE DEF h
  <2>2. /\ ready' \in Seq(Handlers) /\ \A j : Queued(j) => Queued(j)'
        /\ (\E k \in DOMAIN ready : ready[k].kind = "refresh")
              => \E k \in DOMAIN ready' : ready'[k].kind = "refresh"
    BY <2>1, CompleteKeeps DEF Inv, StateType
  <2>3. timers' = timers /\ refreshTimer' = refreshTimer
    BY <1>5 DEF SignalArrives, jobVars
  <2> QED
    BY <1>1, <1>2, <2>2, <2>3 DEF Inv, StateType, EveryJobHasATick, Looping
<1> QED
  BY <1>2, <1>3, <1>4, <1>5 DEF Inv

\* The session of one target changes to one that a call or the server may leave.
LEMMA ClientMoves ==
  ASSUME Inv, NEW tg \in TargetsOf(jobs), NEW st \in ClientStates,
         clients[tg] \in HasCredentials => st \in HasCredentials,
         clients' = [clients EXCEPT ![tg] = st],
         UNCHANGED <<phase, jobs, lastJobs>>
  PROVE  /\ clients' \in [Targets -> ClientStates]
         /\ NoOrphanedSession' /\ AliveHasSessions'
<1>1. jobs \in Seq(EnabledJobs) /\ clients \in [Targets -> ClientStates]
  BY DEF Inv, StateType
<1>2. tg \in Targets /\ \A i \in DOMAIN jobs : jobs[i].target \in Targets
  BY <1>1, JobTargets
<1>3. \A u \in Targets : clients'[u] = IF u = tg THEN st ELSE clients[u]
  BY <1>1, <1>2
<1> QED
  BY <1>1, <1>2, <1>3 DEF Inv, NoOrphanedSession, AliveHasSessions, Alive

LEMMA SessionExpiresKeeps ==
  ASSUME Inv, NEW tg \in Targets, SessionExpires(tg)
  PROVE  Inv'
<1>1. /\ clients[tg] = "live" /\ clients' = [clients EXCEPT ![tg] = "stale"]
      /\ UNCHANGED <<phase, jobs, lastJobs, started, timers, refreshTimer, ready, outOfRange>>
  BY DEF SessionExpires, jobVars
<1>2. Counted'
  BY SchedulerAssumption DEF SessionExpires, Inv, Counted
<1>3. tg \in TargetsOf(jobs)
  BY <1>1 DEF Inv, NoOrphanedSession
<1>4. clients' \in [Targets -> ClientStates] /\ NoOrphanedSession' /\ AliveHasSessions'
  BY <1>1, <1>3, ClientMoves DEF ClientStates, HasCredentials
<1> QED
  BY <1>1, <1>2, <1>4 DEF Inv, StateType, EveryJobHasATick, Looping, Queued

\* Whatever a call comes to, it does not forget the credentials.
LEMMA CallKeepsCredentials ==
  ASSUME NEW st \in ClientStates, NEW r \in CallEndpoint(st)
  PROVE  r.client \in ClientStates /\ (st \in HasCredentials => r.client \in HasCredentials)
  BY DEF CallEndpoint, ClientStates, HasCredentials

\* The handler of a job: another job's handler stays queued, its own timer is
\* armed again.
LEMMA JobHandlerKeeps ==
  ASSUME Inv, JobHandler
  PROVE  Inv'
<1>1. /\ Looping /\ started /\ ready # <<>> /\ Head(ready).kind = "job"
      /\ ready' = Tail(ready)
      /\ UNCHANGED <<phase, jobs, lastJobs, started, refreshTimer, outOfRange>>
  BY DEF JobHandler, Dispatch, Inv, EveryJobHasATick
<1>2. PICK i \in DOMAIN jobs : i = Head(ready).index /\ RunAndReschedule(i)
  BY <1>1 DEF JobHandler
<1>3. PICK k \in DOMAIN jobs : k = FindJob(i)
  BY FindJobFinds DEF Inv, StateType
<1>4. PICK r \in CallEndpoint(clients[jobs[k].target]) :
         /\ clients' = [clients EXCEPT ![jobs[k].target] = r.client]
         /\ IF r.ok THEN UNCHANGED faults ELSE Fault
         /\ timers' = [timers EXCEPT ![i] = {jobs[i]}]
  BY <1>2, <1>3 DEF RunAndReschedule
<1>5. Counted'
  <2>1. faults' \in 0 .. MaxFaults
    BY <1>4, FaultCounts DEF Inv, Counted
  <2> QED
    BY <2>1 DEF JobHandler, Inv, Counted
<1>6. jobs[k].target \in TargetsOf(jobs) /\ jobs[k].target \in Targets
  BY JobTargets DEF TargetsOf, Inv, StateType
<1>7. clients' \in [Targets -> ClientStates] /\ NoOrphanedSession' /\ AliveHasSessions'
  <2>1. clients[jobs[k].target] \in ClientStates
    BY <1>6 DEF Inv, StateType
  <2>2. r.client \in ClientStates
        /\ (clients[jobs[k].target] \in HasCredentials => r.client \in HasCredentials)
    BY <2>1, CallKeepsCredentials
  <2> QED
    BY <1>1, <1>4, <1>6, <2>2, ClientMoves
<1>8. /\ timers' \in Seq(SUBSET EnabledJobs) /\ DOMAIN timers' = DOMAIN timers
      /\ timers'[i] = {jobs[i]} /\ \A j \in DOMAIN timers : j # i => timers'[j] = timers[j]
  <2>1. i \in 1 .. Len(timers) /\ timers \in Seq(SUBSET EnabledJobs)
    BY <1>1 DEF Inv, StateType, EveryJobHasATick
  <2>2. {jobs[i]} \in SUBSET EnabledJobs
    BY <1>1 DEF Inv, StateType
  <2> QED
    BY <1>4, <2>1, <2>2, ExceptSeq
<1>9. /\ ready' \in Seq(Handlers)
      /\ \A j : Queued(j) => Queued(j)' \/ j = i
      /\ (\E m \in DOMAIN ready : ready[m].kind = "refresh")
           => \E m \in DOMAIN ready' : ready'[m].kind = "refresh"
  BY <1>1, <1>2, DispatchKeeps DEF Inv, StateType
<1>10. StateType'
  BY <1>1, <1>7, <1>8, <1>9 DEF Inv, StateType
<1>11. EveryJobHasATick'
  BY <1>1, <1>8, <1>9 DEF Inv, EveryJobHasATick, Looping
<1> QED
  BY <1>5, <1>7, <1>10, <1>11 DEF Inv

LEMMA OutOfRangeKeeps ==
  ASSUME Inv, JobHandlerOutOfRange
  PROVE  Inv'
<1>1. /\ ready # <<>> /\ ready' = Tail(ready) /\ outOfRange' = TRUE
      /\ UNCHANGED <<phase, jobs, lastJobs, started, timers, refreshTimer, clients, bounds>>
  BY DEF JobHandlerOutOfRange, Dispatch, jobVars
<1>2. ready' \in Seq(Handlers)
  BY <1>1, DispatchKeeps DEF Inv, StateType
<1> QED
  BY <1>1, <1>2
  DEF Inv, StateType, Counted, bounds, NoOrphanedSession, AliveHasSessions, Alive,
      EveryJobHasATick, Looping

LEMMA RefreshKeepsKeeps ==
  ASSUME Inv, RefreshKeeps
  PROVE  Inv'
<1>1. /\ Looping /\ ready # <<>> /\ Head(ready).kind = "refresh" /\ ready' = Tail(ready)
      /\ refreshTimer' = "armed"
      /\ UNCHANGED <<phase, jobs, lastJobs, started, timers, clients, outOfRange>>
  BY DEF RefreshKeeps, Dispatch, jobVars
<1>2. Counted'
  <2>1. faults' \in 0 .. MaxFaults
    BY FaultCounts DEF RefreshKeeps, Inv, Counted
  <2> QED
    BY <2>1 DEF RefreshKeeps, Inv, Counted
<1>3. ready' \in Seq(Handlers) /\ \A j : Queued(j) => Queued(j)'
  BY <1>1, DispatchKeeps DEF Inv, StateType
<1> QED
  BY <1>1, <1>2, <1>3
  DEF Inv, StateType, NoOrphanedSession, AliveHasSessions, Alive, EveryJobHasATick, Looping

\* Refresh with a changed set: Start arms a timer for every new job.
LEMMA ReloadKeeps ==
  ASSUME Inv, RefreshReloads
  PROVE  Inv'
<1>1. /\ Looping /\ ready # <<>> /\ ready' = Leftover(Tail(ready))
      /\ refreshTimer' = "armed" /\ UNCHANGED <<phase, outOfRange>>
  BY DEF RefreshReloads, Dispatch
<1>2. PICK c \in Catalogs : \E login \in LoginResults(Enabled(c)) :
         /\ ~Throws(login)
         /\ IF AllOk(login) THEN UNCHANGED faults ELSE Fault
         /\ lastJobs' = c
         /\ ReplaceJobs(c, login)
         /\ StartWith(Enabled(c))
  BY DEF RefreshReloads
<1>3. PICK login \in LoginResults(Enabled(c)) :
         /\ ~Throws(login)
         /\ IF AllOk(login) THEN UNCHANGED faults ELSE Fault
         /\ lastJobs' = c
         /\ ReplaceJobs(c, login)
         /\ StartWith(Enabled(c))
  BY <1>2
<1>4. Counted'
  <2>1. faults' \in 0 .. MaxFaults
    BY <1>3, FaultCounts DEF Inv, Counted
  <2> QED
    BY <2>1, SchedulerAssumption DEF RefreshReloads, Inv, Counted
<1>5. /\ jobs' = Enabled(c) /\ jobs' \in Seq(EnabledJobs)
      /\ clients' \in [Targets -> ClientStates] /\ NoOrphanedSession'
      /\ \A i \in DOMAIN jobs' : clients'[jobs'[i].target] \in HasCredentials
  BY <1>3, ReplaceJobsReplaces DEF NoOrphanedSession
<1>6. /\ started' = TRUE /\ timers' \in Seq(SUBSET EnabledJobs) /\ DOMAIN timers' = DOMAIN jobs'
      /\ \A i \in DOMAIN jobs' : timers'[i] = {jobs'[i]}
  BY <1>3, <1>5, AllArmedType DEF StartWith
<1>7. ready' \in Seq(Handlers)
  <2>1. Tail(ready) \in Seq(Handlers)
    BY <1>1 DEF Inv, StateType
  <2> QED
    BY <1>1, <2>1, LeftoverType
<1>8. StateType'
  BY <1>1, <1>3, <1>5, <1>6, <1>7 DEF Inv, StateType
<1>9. AliveHasSessions' /\ EveryJobHasATick'
  BY <1>1, <1>3, <1>5, <1>6 DEF AliveHasSessions, EveryJobHasATick
<1> QED
  BY <1>4, <1>5, <1>8, <1>9 DEF Inv

LEMMA RefreshThrowsKeeps ==
  ASSUME Inv, RefreshThrows
  PROVE  Inv'
<1>1. /\ ready # <<>> /\ ready' = Leftover(Tail(ready)) /\ Unstarted /\ phase' = "aborted"
      /\ UNCHANGED <<refreshTimer, outOfRange>>
  BY DEF RefreshThrows, Dispatch
<1>2. PICK c \in Catalogs : \E login \in LoginResults(Enabled(c)) :
         lastJobs' = c /\ ReplaceJobs(c, login)
  BY DEF RefreshThrows
<1>3. /\ jobs' \in Seq(EnabledJobs) /\ lastJobs' \in Catalogs
      /\ clients' \in [Targets -> ClientStates] /\ NoOrphanedSession'
  BY <1>2, ReplaceJobsReplaces DEF NoOrphanedSession
<1>4. Counted'
  <2>1. faults' \in 0 .. MaxFaults
    BY FaultCounts DEF RefreshThrows, Inv
  <2> QED
    BY <2>1, SchedulerAssumption DEF RefreshThrows, Inv, Counted
<1>5. timers' \in Seq(SUBSET EnabledJobs) /\ started' = FALSE
  BY <1>1, EmptyIsSeq DEF Unstarted
<1>6. ready' \in Seq(Handlers)
  <2>1. Tail(ready) \in Seq(Handlers)
    BY <1>1 DEF Inv, StateType
  <2> QED
    BY <1>1, <2>1, LeftoverType
<1>7. StateType'
  BY <1>1, <1>3, <1>5, <1>6 DEF Inv, StateType, Phases
<1> QED
  BY <1>1, <1>3, <1>4, <1>7 DEF Inv, AliveHasSessions, Alive, EveryJobHasATick, Looping

LEMMA InvNext ==
  ASSUME Inv, [Next]_vars
  PROVE  Inv'
<1>1. CASE UNCHANGED vars
  BY <1>1
  DEF vars, jobVars, bounds, Inv, StateType, Counted, NoOrphanedSession, AliveHasSessions,
      Alive, EveryJobHasATick, Looping, Queued
<1>2. CASE Handler
  BY <1>2, JobHandlerKeeps, OutOfRangeKeeps, RefreshKeepsKeeps, ReloadKeeps,
     RefreshThrowsKeeps, StopKeeps DEF Handler
<1> QED
  BY <1>1, <1>2, InitializeKeeps, StartKeeps, StopKeeps, ExpiryKeeps, SessionExpiresKeeps
  DEF Next, Halted

-----------------------------------------------------------------------------
(* Theorems *)

LEMMA Invariance == Spec => []Inv
  BY InvInit, InvNext, PTL DEF Spec

(***************************************************************************)
(* Whatever order timers expire in, calls and logins fail and reloads come *)
(* in: a running job has a client that knows its credentials, no target    *)
(* without a job has a client, and the jobs that run are the ones that the *)
(* next refresh compares with (JobScheduler::SetJobs and                   *)
(* AuthenticateTargets, Scheduler::Refresh).                               *)
(***************************************************************************)
THEOREM SessionsAlwaysFollowJobs == Spec => []SessionsFollowJobs
<1>1. ASSUME Inv PROVE SessionsFollowJobs
  <2>1. TypeOK
    <3>1. \A i \in DOMAIN ready : ready[i].kind \in {"job", "refresh", "signal"}
      BY <1>1 DEF Inv, StateType, Handlers
    <3> QED
      BY <1>1, <3>1 DEF Inv, StateType, Counted, EnabledJobs, Phases, TypeOK
  <2>2. JobsCanReauthenticate /\ RunsWhatItCompares
    BY <1>1 DEF Inv, AliveHasSessions, Alive, Looping, JobsCanReauthenticate, RunsWhatItCompares
  <2> QED
    BY <1>1, <2>1, <2>2 DEF Inv, SessionsFollowJobs
<1> QED
  BY <1>1, Invariance, PTL

(***************************************************************************)
(* A loop that runs has, for every job and for the refresh, a timer that   *)
(* is armed or a handler on its way, whatever leftover handlers of an      *)
(* earlier Start are in the queue (JobScheduler::ScheduleNext).            *)
(***************************************************************************)
THEOREM NoJobLosesItsTick == Spec => []EveryJobHasATick
<1>1. Inv => EveryJobHasATick
  BY DEF Inv
<1> QED
  BY <1>1, Invariance, PTL

\* FindJob goes by name, so what follows holds of catalogs that use a name once.
UniqueNames ==
  \A c \in Catalogs : \A i, j \in DOMAIN c :
    c[i].enabled /\ c[j].enabled /\ c[i].name = c[j].name => i = j

NamesDistinct == \A k, m \in DOMAIN jobs : jobs[k].name = jobs[m].name => k = m

LEMMA EnabledNames ==
  ASSUME UniqueNames, NEW c \in Catalogs
  PROVE  \A k, m \in DOMAIN Enabled(c) : Enabled(c)[k].name = Enabled(c)[m].name => k = m
  BY EnabledIsSelection DEF UniqueNames

LEMMA NamesStayDistinct ==
  ASSUME UniqueNames, NamesDistinct, [Next]_vars
  PROVE  NamesDistinct'
<1>1. CASE jobs' = jobs
  BY <1>1 DEF NamesDistinct
<1>2. CASE \E c \in Catalogs : jobs' = Enabled(c)
  BY <1>2, EnabledNames DEF NamesDistinct
<1>3. CASE Handler
  BY <1>1, <1>2, <1>3
  DEF Handler, JobHandlerOutOfRange, JobHandler, RefreshKeeps, RefreshReloads, RefreshThrows,
      SignalHandler, ReplaceJobs, jobVars
<1> QED
  BY <1>1, <1>2, <1>3
  DEF Next, vars, jobVars, Halted, InitializeOk, InitializeFails, ReplaceJobs, Run, RunFor,
      RunForEnds, JobTimerExpires, RefreshTimerExpires, SignalArrives, SessionExpires

(***************************************************************************)
(* What a wait was set for is what stands at its place: Stop and Start     *)
(* come with every new list, and only leftovers outlive the Stop.          *)
(***************************************************************************)
FitsJobs(h) ==
  h.kind = "job" /\ ~h.stale =>
    /\ phase \notin {"new", "ready"}
    /\ h.index \in DOMAIN jobs /\ h.setFor = jobs[h.index]

TimersFit == \A i \in DOMAIN timers : i \in DOMAIN jobs /\ timers[i] \subseteq {jobs[i]}

WaitsFitJobs ==
  /\ phase \in {"new", "ready"} => timers = <<>>
  /\ TimersFit
  /\ \A k \in DOMAIN ready : FitsJobs(ready[k])

\* Start: no wait but those of the new timers.
LEMMA ArmedFits ==
  ASSUME NEW js \in Seq(EnabledJobs)
  PROVE  \A i \in DOMAIN AllArmed(js) : i \in DOMAIN js /\ AllArmed(js)[i] \subseteq {js[i]}
  BY DEF AllArmed

\* What Stop leaves in the queue is marked as left behind.
LEMMA LeftoverFits ==
  ASSUME NEW q \in Seq(Handlers), NEW k \in DOMAIN Leftover(q)
  PROVE  FitsJobs(Leftover(q)[k])'
<1>1. k \in DOMAIN q /\ q[k] \in Handlers
      /\ Leftover(q)[k] = IF q[k].kind = "job" THEN [q[k] EXCEPT !.stale = TRUE] ELSE q[k]
  BY DEF Leftover
<1>2. CASE q[k].kind = "job"
  <2>1. Leftover(q)[k].stale
    BY <1>1, <1>2 DEF Handlers
  <2> QED
    BY <2>1 DEF FitsJobs
<1> QED
  BY <1>1, <1>2 DEF FitsJobs

LEMMA TailMembers ==
  ASSUME NEW q \in Seq(Handlers), q # <<>>, NEW k \in DOMAIN Tail(q)
  PROVE  Tail(q) \in Seq(Handlers) /\ \E m \in DOMAIN q : Tail(q)[k] = q[m]
<1>1. DOMAIN Tail(q) = 1 .. Len(q) - 1 /\ DOMAIN q = 1 .. Len(q) /\ Len(q) \in Nat
      /\ \A m \in 1 .. Len(q) - 1 : Tail(q)[m] = q[m + 1]
  BY HeadTailProperties
<1>2. k + 1 \in DOMAIN q /\ Tail(q)[k] = q[k + 1]
  BY <1>1
<1> QED
  BY <1>2

LEMMA AppendMembers ==
  ASSUME NEW q \in Seq(Handlers), NEW h \in Handlers, NEW k \in DOMAIN Append(q, h)
  PROVE  Append(q, h)[k] = h \/ \E m \in DOMAIN q : Append(q, h)[k] = q[m]
<1>1. DOMAIN Append(q, h) = 1 .. Len(q) + 1 /\ DOMAIN q = 1 .. Len(q) /\ Len(q) \in Nat
      /\ Append(q, h)[Len(q) + 1] = h /\ \A m \in 1 .. Len(q) : Append(q, h)[m] = q[m]
  OBVIOUS
<1> QED
  BY <1>1

LEMMA StartFits ==
  ASSUME Inv, WaitsFitJobs, InitializeOk \/ InitializeFails \/ Run \/ RunFor
  PROVE  WaitsFitJobs'
<1>1. phase \in {"new", "ready"} /\ ready' = ready
  BY DEF InitializeOk, InitializeFails, Run, RunFor
<1>2. ASSUME NEW k \in DOMAIN ready PROVE FitsJobs(ready[k])'
  BY <1>1, <1>2 DEF WaitsFitJobs, FitsJobs
<1>3. (phase' \in {"new", "ready"} => timers' = <<>>) /\ TimersFit'
  <2>1. CASE InitializeOk \/ InitializeFails
    BY <1>1, <2>1 DEF WaitsFitJobs, InitializeOk, InitializeFails, TimersFit
  <2>2. CASE Run \/ RunFor
    <3>1. timers' = AllArmed(jobs) /\ jobs' = jobs /\ phase' \notin {"new", "ready"}
      BY <2>2 DEF Run, RunFor, StartWith
    <3> QED
      BY <3>1, ArmedFits DEF TimersFit, Inv, StateType
  <2> QED
    BY <2>1, <2>2
<1> QED
  BY <1>1, <1>2, <1>3 DEF WaitsFitJobs

LEMMA StopFits ==
  ASSUME Inv, WaitsFitJobs, RunForEnds \/ SignalHandler \/ RefreshThrows \/ RefreshReloads
  PROVE  WaitsFitJobs'
<1>1. PICK q \in Seq(Handlers) : ready' = Leftover(q)
  <2>1. CASE RunForEnds
    BY <2>1 DEF RunForEnds, Inv, StateType
  <2>2. CASE SignalHandler \/ RefreshThrows \/ RefreshReloads
    <3>1. ready # <<>> /\ ready' = Leftover(Tail(ready))
      BY <2>2 DEF SignalHandler, RefreshThrows, RefreshReloads, Dispatch
    <3>2. Tail(ready) \in Seq(Handlers)
      BY <3>1 DEF Inv, StateType
    <3> QED
      BY <3>1, <3>2
  <2> QED
    BY <2>1, <2>2
<1>2. \A k \in DOMAIN ready' : FitsJobs(ready[k])'
  <2> SUFFICES ASSUME NEW k \in DOMAIN ready' PROVE FitsJobs(ready[k])'
    OBVIOUS
  <2>1. FitsJobs(Leftover(q)[k])'
    BY <1>1, LeftoverFits
  <2> QED
    BY <1>1, <2>1 DEF FitsJobs
<1>3. (phase' \in {"new", "ready"} => timers' = <<>>) /\ TimersFit'
  <2>1. CASE timers' = <<>>
    BY <2>1 DEF TimersFit
  <2>2. CASE RefreshReloads
    <3>1. PICK c \in Catalogs : jobs' = Enabled(c) /\ timers' = AllArmed(Enabled(c))
      BY <2>2 DEF RefreshReloads, ReplaceJobs, StartWith
    <3>2. Enabled(c) \in Seq(EnabledJobs)
      BY EnabledIsSelection
    <3>3. phase' = phase /\ phase \notin {"new", "ready"}
      BY <2>2 DEF RefreshReloads, Dispatch, Looping
    <3> QED
      BY <3>1, <3>2, <3>3, ArmedFits DEF TimersFit
  <2> QED
    BY <2>1, <2>2 DEF RunForEnds, SignalHandler, RefreshThrows, Unstarted
<1> QED
  BY <1>2, <1>3 DEF WaitsFitJobs

LEMMA ExpiryFits ==
  ASSUME Inv, WaitsFitJobs,
         \/ \E i \in DOMAIN timers : JobTimerExpires(i)
         \/ RefreshTimerExpires
         \/ SignalArrives
  PROVE  WaitsFitJobs'
<1>1. /\ UNCHANGED <<phase, jobs>> /\ phase \notin {"new", "ready"}
  BY DEF JobTimerExpires, RefreshTimerExpires, SignalArrives, jobVars, Looping
<1>2. PICK h \in Handlers : ready' = Append(ready, h) /\ FitsJobs(h)
  <2>1. ASSUME NEW i \in DOMAIN timers, JobTimerExpires(i)
        PROVE  \E h \in Handlers : ready' = Append(ready, h) /\ FitsJobs(h)
    <3>1. PICK j \in timers[i] :
             ready' = Append(ready, [kind |-> "job", index |-> i, setFor |-> j, stale |-> FALSE])
      BY <2>1 DEF JobTimerExpires, Complete
    <3>2. i \in DOMAIN jobs /\ j = jobs[i] /\ i \in Nat /\ j \in EnabledJobs
      BY <3>1 DEF WaitsFitJobs, TimersFit, Inv, StateType
    <3> DEFINE h == [kind |-> "job", index |-> i, setFor |-> j, stale |-> FALSE]
    <3>3. h \in Handlers
      BY <3>2 DEF Handlers
    <3>4. FitsJobs(h)
      BY <1>1, <3>2 DEF FitsJobs
    <3> QED
      BY <3>1, <3>3, <3>4
  <2>2. CASE RefreshTimerExpires
    BY <2>2 DEF RefreshTimerExpires, Complete, Handlers, FitsJobs
  <2>3. CASE SignalArrives
    BY <2>3 DEF SignalArrives, Complete, Handlers, FitsJobs
  <2> QED
    BY <2>1, <2>2, <2>3
<1>3. ASSUME NEW k \in DOMAIN ready' PROVE FitsJobs(ready[k])'
  <2>1. ready'[k] = h \/ \E m \in DOMAIN ready : ready'[k] = ready[m]
    BY <1>2, AppendMembers DEF Inv, StateType
  <2> QED
    BY <1>1, <1>2, <2>1 DEF WaitsFitJobs, FitsJobs
<1>4. TimersFit'
  <2>1. ASSUME NEW i \in DOMAIN timers, JobTimerExpires(i) PROVE TimersFit'
    BY <1>1, <2>1 DEF JobTimerExpires, WaitsFitJobs, TimersFit, Inv, StateType
  <2>2. CASE RefreshTimerExpires \/ SignalArrives
    BY <1>1, <2>2 DEF RefreshTimerExpires, SignalArrives, jobVars, WaitsFitJobs, TimersFit
  <2> QED
    BY <2>1, <2>2
<1> QED
  BY <1>1, <1>3, <1>4 DEF WaitsFitJobs

\* A handler leaves the queue; its timer, if any, waits for the job at its place.
LEMMA DispatchFits ==
  ASSUME Inv, WaitsFitJobs, JobHandler \/ JobHandlerOutOfRange \/ RefreshKeeps
  PROVE  WaitsFitJobs'
<1>1. /\ UNCHANGED <<phase, jobs>> /\ phase \notin {"new", "ready"}
      /\ ready # <<>> /\ ready' = Tail(ready)
  BY DEF JobHandler, JobHandlerOutOfRange, RefreshKeeps, jobVars, Dispatch, Looping
<1>2. ASSUME NEW k \in DOMAIN ready' PROVE FitsJobs(ready[k])'
  <2>1. PICK m \in DOMAIN ready : ready'[k] = ready[m]
    BY <1>1, TailMembers DEF Inv, StateType
  <2> QED
    BY <1>1, <2>1 DEF WaitsFitJobs, FitsJobs
<1>3. TimersFit'
  <2>1. CASE timers' = timers
    BY <1>1, <2>1 DEF WaitsFitJobs, TimersFit
  <2>2. CASE JobHandler /\ started
    <3>1. PICK i \in DOMAIN jobs : timers' = [timers EXCEPT ![i] = {jobs[i]}]
      BY <2>2 DEF JobHandler, RunAndReschedule
    <3>2. DOMAIN timers' = DOMAIN timers
          /\ \A m \in DOMAIN timers : timers'[m] = timers[m] \/ (m = i /\ timers'[m] = {jobs[i]})
      BY <3>1 DEF Inv, StateType
    <3> QED
      BY <1>1, <3>2 DEF WaitsFitJobs, TimersFit
  <2> QED
    BY <2>1, <2>2 DEF JobHandler, JobHandlerOutOfRange, RefreshKeeps, jobVars
<1> QED
  BY <1>1, <1>2, <1>3 DEF WaitsFitJobs

LEMMA WaitsStayFit ==
  ASSUME Inv, WaitsFitJobs, [Next]_vars
  PROVE  WaitsFitJobs'
<1>1. CASE UNCHANGED <<phase, jobs, timers, ready>>
  BY <1>1 DEF WaitsFitJobs, TimersFit, FitsJobs
<1> QED
  BY <1>1, StartFits, StopFits, ExpiryFits, DispatchFits
  DEF Next, Handler, vars, jobVars, Halted, SessionExpires

LEMMA TickRunsItsJob ==
  ASSUME Inv, NamesDistinct, WaitsFitJobs, TimerRunsItsJob, [Next]_vars
  PROVE  TimerRunsItsJob'
<1>1. CASE lastRun' = lastRun \/ lastRun' = NoRun
  BY <1>1 DEF TimerRunsItsJob, NoRun
<1>2. CASE JobHandler
  <2>1. CASE ~started
    BY <1>1, <1>2, <2>1 DEF JobHandler
  <2>2. CASE started
    <3>1. PICK i \in DOMAIN jobs : i = Head(ready).index /\ RunAndReschedule(i)
      BY <1>2, <2>2 DEF JobHandler
    <3>2. FindJob(i) = i
      BY FindJobFinds DEF Inv, StateType, NamesDistinct
    <3>3. /\ lastRun'.setFor = {Head(ready).setFor} /\ lastRun'.ran = {jobs[i]}
          /\ lastRun'.stale = Head(ready).stale
      BY <3>1, <3>2 DEF RunAndReschedule, Ran
    <3>4. Head(ready).kind = "job" /\ FitsJobs(Head(ready))
      <4>1. ready # <<>> /\ Head(ready).kind = "job"
        BY <1>2 DEF JobHandler, Dispatch
      <4>2. 1 \in DOMAIN ready /\ Head(ready) = ready[1]
        BY <4>1 DEF Inv, StateType
      <4> QED
        BY <4>1, <4>2 DEF WaitsFitJobs
    <3> QED
      BY <3>1, <3>3, <3>4 DEF TimerRunsItsJob, FitsJobs
  <2> QED
    BY <2>1, <2>2
<1>3. CASE Handler /\ ~JobHandler
  BY <1>1, <1>3
  DEF Handler, JobHandlerOutOfRange, RefreshKeeps, RefreshReloads, RefreshThrows, SignalHandler
<1> QED
  BY <1>1, <1>2, <1>3
  DEF Next, vars, Halted, InitializeOk, InitializeFails, Run, RunFor,
      RunForEnds, JobTimerExpires, RefreshTimerExpires, SignalArrives, SessionExpires

(***************************************************************************)
(* And if no catalog uses the name of an enabled job twice, a tick runs    *)
(* the job its wait was set for, over any reloads, unless Stop had left    *)
(* its handler in the queue (JobScheduler::Start, Stop, RunJobOnce).       *)
(***************************************************************************)
THEOREM EachJobGetsItsTick == UniqueNames => (Spec => []EachJobItsTick)
<1> SUFFICES ASSUME UniqueNames PROVE Spec => []EachJobItsTick
  OBVIOUS
<1> DEFINE All == Inv /\ NamesDistinct /\ WaitsFitJobs /\ TimerRunsItsJob
<1>1. Init => All
  BY InvInit DEF Init, NamesDistinct, TimerRunsItsJob, NoRun, WaitsFitJobs, TimersFit
<1>2. All /\ [Next]_vars => All'
  BY InvNext, NamesStayDistinct, WaitsStayFit, TickRunsItsJob
<1>3. All => EachJobItsTick
  BY DEF Inv, EachJobItsTick
<1> QED
  BY <1>1, <1>2, <1>3, PTL DEF Spec
=============================================================================
