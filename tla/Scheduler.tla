------------------------------ MODULE Scheduler ------------------------------
(***************************************************************************)
(* The scheduler helper: Scheduler (scheduler.cpp) driving JobScheduler    *)
(* (job_scheduler.cpp), whose ApiClients (api_client.cpp) hold one session *)
(* per login target.                                                       *)
(*                                                                         *)
(* One thread runs one io_context, so a handler, with the blocking HTTP    *)
(* calls it makes, is one action.  What interleaves is the timers: asio    *)
(* moves an expired wait to the ready queue between two handlers, and once *)
(* it is there cancel() no longer reaches it.  A wait cancelled earlier    *)
(* completes with operation_aborted, which both handlers ignore: such      *)
(* handlers are left out of the queue.                                     *)
(***************************************************************************)
EXTENDS Integers, Sequences, FiniteSets

CONSTANTS
  Targets,     \* login targets: TargetKey(url, email, password, headers)
  Catalogs,    \* the job lists the provider (or the caller) may supply
  Refreshing,  \* a provider and a positive refreshInterval_ were given
  MaxRunFors,  \* bound: RunFor calls
  MaxReloads,  \* bound: refreshes that find a changed job set
  MaxFaults,   \* bound: failed logins, failed calls, throwing providers
  MaxExpiries  \* bound: sessions the server lets expire

IsJob(j) == /\ DOMAIN j = {"name", "target", "enabled"}
            /\ j.target \in Targets
            /\ j.enabled \in BOOLEAN

ASSUME SchedulerAssumption ==
  /\ \A c \in Catalogs : c \in Seq({c[i] : i \in DOMAIN c})
  /\ \A c \in Catalogs : \A i \in DOMAIN c : IsJob(c[i])
  /\ Refreshing \in BOOLEAN
  /\ MaxRunFors \in Nat /\ MaxReloads \in Nat
  /\ MaxFaults \in Nat /\ MaxExpiries \in Nat

VARIABLES
  phase,        \* new, ready (initialized_), run, runFor, exited, failed, aborted
  jobs,         \* JobScheduler::jobs_
  lastJobs,     \* Scheduler::lastJobs_
  started,      \* JobScheduler::started_
  timers,       \* JobScheduler::timers_: the job whose interval the pending wait
                \* was set to, {} without one
  refreshTimer, \* the pending wait of refreshTimer_
  ready,        \* completed waits whose handlers have not run yet
  clients,      \* clientsByTarget_
  lastRun,      \* the last job handler that called RunJobOnce: the job its wait
                \* was set for, the job it ran, whether Stop had left it behind
  outOfRange,   \* jobs_[jobIndex] was read past the end: undefined behaviour
  runFors, reloads, faults, expiries  \* what the bounds count

jobVars == <<jobs, lastJobs, started, timers>>
bounds == <<runFors, reloads, faults, expiries>>
vars == <<phase, jobVars, refreshTimer, ready, clients, lastRun, outOfRange,
          bounds>>

(***************************************************************************)
(* An ApiClient: none (not in the map); fresh (created, no credentials);   *)
(* noCookie (credentials cached, no session); stale (a cookie the server   *)
(* answers with 401); live.                                                *)
(***************************************************************************)
ClientStates == {"none", "fresh", "noCookie", "stale", "live"}
HasCredentials == {"noCookie", "stale", "live"}

Looping == phase \in {"run", "runFor"} /\ ~outOfRange
NoRun == [setFor |-> {}, ran |-> {}, stale |-> FALSE, ok |-> FALSE]
AllJobs == UNION {{c[i] : i \in DOMAIN c} : c \in Catalogs}
TargetsOf(js) == {js[i].target : i \in DOMAIN js}

TypeOK ==
  /\ phase \in {"new", "ready", "run", "runFor", "exited", "failed", "aborted"}
  /\ jobs \in Seq({j \in AllJobs : j.enabled})
  /\ lastJobs \in Catalogs \cup {<<>>}
  /\ started \in BOOLEAN
  /\ timers \in Seq(SUBSET {j \in AllJobs : j.enabled})
  /\ refreshTimer \in {"armed", "idle"}
  /\ \A i \in DOMAIN ready : ready[i].kind \in {"job", "refresh", "signal"}
  /\ clients \in [Targets -> ClientStates]
  /\ outOfRange \in BOOLEAN
  /\ runFors \in 0..MaxRunFors /\ reloads \in 0..MaxReloads
  /\ faults \in 0..MaxFaults /\ expiries \in 0..MaxExpiries

Init ==
  /\ phase = "new"
  /\ jobs = <<>> /\ lastJobs = <<>>
  /\ started = FALSE /\ timers = <<>>
  /\ refreshTimer = "idle" /\ ready = <<>>
  /\ clients = [tg \in Targets |-> "none"]
  /\ lastRun = NoRun
  /\ outOfRange = FALSE
  /\ runFors = 0 /\ reloads = 0 /\ faults = 0 /\ expiries = 0

Fault == faults < MaxFaults /\ faults' = faults + 1

-----------------------------------------------------------------------------
(* JobScheduler *)

\* Mutant: disabled jobs are registered too.
EnabledOrNot(js) == js

\* The members of a finite set of numbers, in increasing order.
InOrder(S) ==
  CHOOSE f \in [1 .. Cardinality(S) -> S] :
    \A k, m \in 1 .. Cardinality(S) : k < m => f[k] < f[m]

(***************************************************************************)
(* RegisterJob and SetJobs both drop a job whose interval is 0 or less and *)
(* keep the order of the others.                                           *)
(***************************************************************************)
Enabled(js) ==
  LET on == {i \in DOMAIN js : js[i].enabled} IN
  [k \in 1 .. Cardinality(on) |-> js[InOrder(on)[k]]]

FirstIndex(js, tg) == CHOOSE i \in DOMAIN js :
  js[i].target = tg /\ \A k \in DOMAIN js : js[k].target = tg => i <= k

(***************************************************************************)
(* What Login can do at each distinct target; a login that throws (libcurl *)
(* failed) ends the loop before the targets that come after it.            *)
(***************************************************************************)
LoginResults(js) == [TargetsOf(js) -> {"ok", "rejected", "throws"}]
Throws(login) == \E tg \in DOMAIN login : login[tg] = "throws"
AllOk(login) == \A tg \in DOMAIN login : login[tg] = "ok"
Reached(js, login, tg) ==
  \A u \in DOMAIN login :
    login[u] = "throws" => FirstIndex(js, tg) <= FirstIndex(js, u)

\* Mutant: the loop stops at the first target that rejects the login.
AuthenticateUpToFailure(js, login, old) ==
  [tg \in Targets |->
     IF tg \in TargetsOf(js) /\ \A u \in DOMAIN login :
          login[u] # "ok" => FirstIndex(js, tg) <= FirstIndex(js, u)
       THEN IF login[tg] = "ok" THEN "live" ELSE "noCookie"
       ELSE old[tg]]

(***************************************************************************)
(* AuthenticateTargets: the clients after it.  Login caches credentials    *)
(* and clears the cookies before it sends the request.                     *)
(***************************************************************************)
AuthenticateTargets(js, login, old) ==
  [tg \in Targets |->
     IF tg \in TargetsOf(js) /\ Reached(js, login, tg)
       THEN IF login[tg] = "ok" THEN "live" ELSE "noCookie"
       ELSE old[tg]]

NoClients == [tg \in Targets |-> "none"]

\* Mutant: SetJobs without clientsByTarget_.clear().
ReplaceJobsKeepClients(js, login) ==
  /\ jobs' = Enabled(js)
  /\ clients' = AuthenticateTargets(Enabled(js), login, clients)

(***************************************************************************)
(* SetJobs, then AuthenticateTargets: the jobs and all their sessions are  *)
(* replaced.  (Initialize registers into an empty scheduler: the same.)    *)
(***************************************************************************)
ReplaceJobs(js, login) ==
  /\ jobs' = Enabled(js)
  /\ clients' = AuthenticateTargets(Enabled(js), login, NoClients)

AllArmed(js) == [i \in DOMAIN js |-> {js[i]}]
Unstarted == started' = FALSE /\ timers' = <<>>
StartWith(js) == started' = TRUE /\ timers' = AllArmed(js)

(***************************************************************************)
(* Stop cancels the waits that are still pending; what is in the ready     *)
(* queue stays there and is from now on a leftover of an earlier Start.    *)
(***************************************************************************)
Leftover(q) == [i \in DOMAIN q |->
  IF q[i].kind = "job" THEN [q[i] EXCEPT !.stale = TRUE] ELSE q[i]]

\* Mutant: the name is not compared, the first registered job is found.
FindJobFront(i) == CHOOSE k \in DOMAIN jobs : \A m \in DOMAIN jobs : k <= m

(***************************************************************************)
(* FindJob: the first registered job that has the name of jobs_[i].        *)
(***************************************************************************)
FindJob(i) ==
  CHOOSE k \in DOMAIN jobs :
    /\ jobs[k].name = jobs[i].name
    /\ \A m \in DOMAIN jobs : jobs[m].name = jobs[i].name => k <= m

\* Mutant: no second attempt after a 401.
CallWithoutRetry(client) ==
  IF client = "live"
    THEN {[client |-> "live", ok |-> b] : b \in BOOLEAN}
    ELSE {[client |-> client, ok |-> FALSE]}

(***************************************************************************)
(* ApiClient::CallEndpoint: the session after the call and whether the     *)
(* final answer was 2xx.  A 401 with cached credentials clears the cookies *)
(* and logs in once; if that works the request is sent once more.  Any     *)
(* request may also fail at the network, which RunJobOnce catches.         *)
(***************************************************************************)
CallEndpoint(client) ==
  CASE client = "live" ->
         {[client |-> "live", ok |-> b] : b \in BOOLEAN}
    [] client \in {"stale", "noCookie"} ->
         {[client |-> "live", ok |-> b] : b \in BOOLEAN}
         \cup {[client |-> c, ok |-> FALSE] : c \in {"noCookie", client}}
    [] OTHER ->
         {[client |-> "fresh", ok |-> FALSE]}

-----------------------------------------------------------------------------
(* Scheduler: startup *)

(***************************************************************************)
(* Initialize fetches the jobs, registers them and logs in everywhere; any *)
(* failure, returned or thrown, ends the process (main exits non-zero).    *)
(***************************************************************************)
InitializeOk ==
  /\ phase = "new"
  /\ \E c \in Catalogs : \E login \in LoginResults(Enabled(c)) :
       /\ AllOk(login)
       /\ ReplaceJobs(c, login)
       /\ lastJobs' = IF Refreshing THEN c ELSE <<>>
  /\ phase' = "ready"
  /\ UNCHANGED <<started, timers, refreshTimer, ready, lastRun, outOfRange,
                 bounds>>

InitializeFails ==
  /\ phase = "new"
  /\ Fault
  /\ \/ Refreshing /\ UNCHANGED <<jobs, lastJobs, clients>>  \* provider threw
     \/ \E c \in Catalogs : \E login \in LoginResults(Enabled(c)) :
          /\ ~AllOk(login)
          /\ ReplaceJobs(c, login)
          /\ lastJobs' = IF Refreshing THEN c ELSE <<>>
  /\ phase' = "failed"
  /\ UNCHANGED <<started, timers, refreshTimer, ready, lastRun, outOfRange,
                 runFors, reloads, expiries>>

Run ==
  /\ phase = "ready"
  /\ StartWith(jobs)
  /\ refreshTimer' = IF Refreshing THEN "armed" ELSE "idle"
  /\ phase' = "run"
  /\ UNCHANGED <<jobs, lastJobs, ready, clients, lastRun, outOfRange, bounds>>

(***************************************************************************)
(* RunFor drives the loop for a while and stops the timers; it can be      *)
(* called again, on the same io_context and its ready queue.               *)
(***************************************************************************)
RunFor ==
  /\ phase = "ready"
  /\ runFors < MaxRunFors
  /\ runFors' = runFors + 1
  /\ StartWith(jobs)
  /\ phase' = "runFor"
  /\ UNCHANGED <<jobs, lastJobs, refreshTimer, ready, clients, lastRun,
                 outOfRange, reloads, faults, expiries>>

RunForEnds ==
  /\ phase = "runFor" /\ ~outOfRange
  /\ Unstarted
  /\ ready' = Leftover(ready)
  /\ phase' = "ready"
  /\ UNCHANGED <<jobs, lastJobs, refreshTimer, clients, lastRun, outOfRange,
                 bounds>>

-----------------------------------------------------------------------------
(* The event loop: completions *)

Complete(h) == ready' = Append(ready, h)

JobTimerExpires(i) ==
  /\ Looping
  /\ timers' = [timers EXCEPT ![i] = {}]
  /\ \E j \in timers[i] :
       Complete([kind |-> "job", index |-> i, setFor |-> j, stale |-> FALSE])
  /\ UNCHANGED <<phase, jobs, lastJobs, started, refreshTimer, clients, lastRun,
                 outOfRange, bounds>>

RefreshTimerExpires ==
  /\ Looping
  /\ refreshTimer = "armed"
  /\ refreshTimer' = "idle"
  /\ Complete([kind |-> "refresh"])
  /\ UNCHANGED <<phase, jobVars, clients, lastRun, outOfRange, bounds>>

SignalArrives ==
  /\ phase = "run" /\ ~outOfRange
  /\ \A i \in DOMAIN ready : ready[i].kind # "signal"
  /\ Complete([kind |-> "signal"])
  /\ UNCHANGED <<phase, jobVars, refreshTimer, clients, lastRun, outOfRange,
                 bounds>>

SessionExpires(tg) ==
  /\ clients[tg] = "live"
  /\ expiries < MaxExpiries
  /\ expiries' = expiries + 1
  /\ clients' = [clients EXCEPT ![tg] = "stale"]
  /\ UNCHANGED <<phase, jobVars, refreshTimer, ready, lastRun, outOfRange,
                 runFors, reloads, faults>>

-----------------------------------------------------------------------------
(* The event loop: handlers *)

Dispatch(kind) ==
  /\ Looping
  /\ ready # <<>>
  /\ Head(ready).kind = kind

(***************************************************************************)
(* jobs_[jobIndex] past the end of jobs_: what follows is undefined.       *)
(***************************************************************************)
JobHandlerOutOfRange ==
  /\ Dispatch("job")
  /\ started
  /\ Head(ready).index \notin DOMAIN jobs
  /\ outOfRange' = TRUE
  /\ ready' = Tail(ready)
  /\ UNCHANGED <<phase, jobVars, refreshTimer, clients, lastRun, bounds>>

\* The run of the job at k, for the handler at the head of the queue.
Ran(k, ok) ==
  [setFor |-> {Head(ready).setFor}, ran |-> {jobs[k]}, stale |-> Head(ready).stale,
   ok |-> ok]

\* Mutant: a job whose call failed is not rescheduled.
RunAndGiveUp(i) ==
  LET k == FindJob(i) IN
  \E r \in CallEndpoint(clients[jobs[k].target]) :
    /\ clients' = [clients EXCEPT ![jobs[k].target] = r.client]
    /\ IF r.ok THEN UNCHANGED faults ELSE Fault
    /\ lastRun' = Ran(k, r.ok)
    /\ timers' = IF r.ok THEN [timers EXCEPT ![i] = {jobs[i]}] ELSE timers

(***************************************************************************)
(* RunJobOnce on the name found at jobs_[jobIndex], then ScheduleNext,     *)
(* whatever the outcome was.  expires_after cancels a wait still pending   *)
(* on that timer, so the timer has one pending wait afterwards.            *)
(***************************************************************************)
RunAndReschedule(i) ==
  LET k == FindJob(i) IN
  \E r \in CallEndpoint(clients[jobs[k].target]) :
    /\ clients' = [clients EXCEPT ![jobs[k].target] = r.client]
    /\ IF r.ok THEN UNCHANGED faults ELSE Fault
    /\ lastRun' = Ran(k, r.ok)
    /\ timers' = [timers EXCEPT ![i] = {jobs[i]}]

(***************************************************************************)
(* The handler of a job timer; it returns at once when started_ is false.  *)
(***************************************************************************)
JobHandler ==
  /\ Dispatch("job")
  /\ IF started
       THEN /\ Head(ready).index \in DOMAIN jobs
            /\ RunAndReschedule(Head(ready).index)
       ELSE UNCHANGED <<timers, clients, faults, lastRun>>
  /\ ready' = Tail(ready)
  /\ UNCHANGED <<phase, jobs, lastJobs, started, refreshTimer, outOfRange,
                 runFors, reloads, expiries>>

(***************************************************************************)
(* Refresh with nothing to do: the provider threw, or the set is the same. *)
(***************************************************************************)
RefreshKeeps ==
  /\ Dispatch("refresh")
  /\ Fault \/ UNCHANGED faults
  /\ ready' = Tail(ready)
  /\ refreshTimer' = "armed"
  /\ UNCHANGED <<phase, jobVars, clients, lastRun, outOfRange, runFors,
                 reloads, expiries>>

\* Mutant: lastJobs_ is not brought up to date.
RefreshReloadsForgetful ==
  /\ Dispatch("refresh")
  /\ reloads < MaxReloads
  /\ reloads' = reloads + 1
  /\ \E c \in Catalogs \ {lastJobs} : \E login \in LoginResults(Enabled(c)) :
       /\ ~Throws(login)
       /\ IF AllOk(login) THEN UNCHANGED faults ELSE Fault
       /\ ReplaceJobs(c, login)
       /\ StartWith(Enabled(c))
  /\ ready' = Leftover(Tail(ready))
  /\ refreshTimer' = "armed"
  /\ lastRun' = NoRun
  /\ UNCHANGED <<phase, lastJobs, outOfRange, runFors, expiries>>

\* Mutant: the timers are not stopped and started; new places get one.
RefreshReloadsRunning ==
  /\ Dispatch("refresh")
  /\ reloads < MaxReloads
  /\ reloads' = reloads + 1
  /\ \E c \in Catalogs \ {lastJobs} : \E login \in LoginResults(Enabled(c)) :
       /\ ~Throws(login)
       /\ IF AllOk(login) THEN UNCHANGED faults ELSE Fault
       /\ lastJobs' = c
       /\ ReplaceJobs(c, login)
       /\ timers' = [i \in DOMAIN Enabled(c) |->
                      IF i \in DOMAIN timers THEN timers[i] ELSE {Enabled(c)[i]}]
  /\ ready' = Tail(ready)
  /\ refreshTimer' = "armed"
  /\ lastRun' = NoRun
  /\ UNCHANGED <<phase, started, outOfRange, runFors, expiries>>

(***************************************************************************)
(* Refresh with a changed set: Stop, SetJobs, AuthenticateTargets (a       *)
(* rejected login is logged), Start, and the refresh timer again.          *)
(***************************************************************************)
RefreshReloads ==
  /\ Dispatch("refresh")
  /\ reloads < MaxReloads
  /\ reloads' = reloads + 1
  /\ \E c \in Catalogs \ {lastJobs} : \E login \in LoginResults(Enabled(c)) :
       /\ ~Throws(login)
       /\ IF AllOk(login) THEN UNCHANGED faults ELSE Fault
       /\ lastJobs' = c
       /\ ReplaceJobs(c, login)
       /\ StartWith(Enabled(c))
  /\ ready' = Leftover(Tail(ready))
  /\ refreshTimer' = "armed"
  /\ lastRun' = NoRun
  /\ UNCHANGED <<phase, outOfRange, runFors, expiries>>

(***************************************************************************)
(* A login that throws leaves Refresh, the handler, io_context::run and    *)
(* Scheduler::Run: the timers are stopped and nothing restarts them.       *)
(***************************************************************************)
RefreshThrows ==
  /\ Dispatch("refresh")
  /\ reloads < MaxReloads
  /\ reloads' = reloads + 1
  /\ Fault
  /\ \E c \in Catalogs \ {lastJobs} : \E login \in LoginResults(Enabled(c)) :
       /\ Throws(login)
       /\ lastJobs' = c
       /\ ReplaceJobs(c, login)
  /\ Unstarted
  /\ ready' = Leftover(Tail(ready))
  /\ phase' = "aborted"
  /\ lastRun' = NoRun
  /\ UNCHANGED <<refreshTimer, outOfRange, runFors, expiries>>

\* Mutant: the handler only stops the timers; the loop goes on.
SignalHandlerNoStop ==
  /\ Dispatch("signal")
  /\ Unstarted
  /\ refreshTimer' = "idle"
  /\ ready' = Leftover(Tail(ready))
  /\ UNCHANGED <<phase, jobs, lastJobs, clients, lastRun, outOfRange, bounds>>

(***************************************************************************)
(* The signal handler calls Shutdown: the timers are cancelled, the        *)
(* io_context stops and Run returns; queued handlers never run.            *)
(***************************************************************************)
SignalHandler ==
  /\ Dispatch("signal")
  /\ Unstarted
  /\ refreshTimer' = "idle"
  /\ ready' = Leftover(Tail(ready))
  /\ phase' = "exited"
  /\ UNCHANGED <<jobs, lastJobs, clients, lastRun, outOfRange, bounds>>

-----------------------------------------------------------------------------
Halted ==
  /\ phase \in {"exited", "failed", "aborted"} \/ outOfRange
  /\ UNCHANGED vars

Handler ==
  \/ JobHandlerOutOfRange \/ JobHandler
  \/ RefreshKeeps \/ RefreshReloads \/ RefreshThrows
  \/ SignalHandler

Next ==
  \/ InitializeOk \/ InitializeFails
  \/ Run \/ RunFor \/ RunForEnds
  \/ \E i \in DOMAIN timers : JobTimerExpires(i)
  \/ RefreshTimerExpires
  \/ SignalArrives
  \/ \E tg \in Targets : SessionExpires(tg)
  \/ Handler
  \/ Halted

Spec == Init /\ [][Next]_vars

TimerIndices == UNION {DOMAIN c : c \in Catalogs}

(***************************************************************************)
(* A running loop dispatches what is ready, and an armed timer expires.    *)
(* A handler ends: every HTTP call it makes is answered or fails.  Nothing *)
(* is assumed of Run, RunFor, the signal, the sessions or the provider.    *)
(***************************************************************************)
FairSpec ==
  /\ Spec
  /\ WF_vars(Handler)
  /\ \A i \in TimerIndices : WF_vars(i \in DOMAIN timers /\ JobTimerExpires(i))
  /\ WF_vars(RefreshTimerExpires)

-----------------------------------------------------------------------------
(* Properties *)

Queued(i) ==
  \E k \in DOMAIN ready :
    ready[k].kind = "job" /\ ready[k].index = i /\ ~ready[k].stale

(***************************************************************************)
(* While the loop runs, every job has a timer of its own that is armed or  *)
(* whose handler is on its way, and the refresh timer likewise: no order   *)
(* of expiries, failed calls and reloads (with leftover handlers in the    *)
(* queue) leaves a job or the refresh without its next tick.               *)
(***************************************************************************)
EveryJobHasATick ==
  Looping =>
    /\ started
    /\ DOMAIN timers = DOMAIN jobs
    /\ \A i \in DOMAIN jobs : timers[i] # {} \/ Queued(i)
    /\ phase = "run" /\ Refreshing =>
         \/ refreshTimer = "armed"
         \/ \E k \in DOMAIN ready : ready[k].kind = "refresh"

(***************************************************************************)
(* Every job the loop runs has a client that knows its credentials, even   *)
(* when logins of other targets (or its own) were rejected: the 401 path   *)
(* of CallEndpoint can always log in again.                                *)
(***************************************************************************)
JobsCanReauthenticate ==
  Looping => \A i \in DOMAIN jobs : clients[jobs[i].target] \in HasCredentials

(***************************************************************************)
(* SetJobs: "a tenant that vanished from the new set must lose its         *)
(* client".  No sequence of reloads keeps a session for a target without a *)
(* job.                                                                    *)
(***************************************************************************)
NoOrphanedSession ==
  \A tg \in Targets : clients[tg] # "none" => tg \in TargetsOf(jobs)

(***************************************************************************)
(* The set that runs is the one change detection compares with: a reload   *)
(* that failed half way cannot hide a change from the next refresh.        *)
(***************************************************************************)
RunsWhatItCompares ==
  phase = "run" /\ Refreshing => jobs = Enabled(lastJobs)

(***************************************************************************)
(* A timer runs the job it was set up for (job_scheduler.h, Start: "Each   *)
(* timer fires after intervalSeconds, runs the job, and reschedules        *)
(* itself"), over any number of reloads.  The exception is a handler that  *)
(* Stop left behind in the ready queue: its wait had completed, so that it *)
(* carries no operation_aborted (job_scheduler.h:80 says that it would),   *)
(* and it runs what a reload has put at the index it kept.                 *)
(***************************************************************************)
TimerRunsItsJob == lastRun.ran = lastRun.setFor \/ lastRun.stale

Serves(j) == phase = "run" /\ ~outOfRange /\ \E i \in DOMAIN jobs : jobs[i] = j
Succeeded(j) == lastRun.ok /\ lastRun.ran = {j}

(***************************************************************************)
(* Every job of the running set succeeds again and again once the server   *)
(* stops failing: a rejected login, an expired session or a reload in      *)
(* between only delays it.                                                 *)
(***************************************************************************)
EveryJobSucceeds ==
  \A j \in AllJobs : j.enabled => []<>(Serves(j) => Succeeded(j))

(***************************************************************************)
(* A signal ends the loop, whatever is queued in front of it.              *)
(***************************************************************************)
SignalStops ==
  (\E k \in DOMAIN ready : ready[k].kind = "signal") ~> ~Looping

(***************************************************************************)
(* JobScheduler::ScheduleNext: every job has its next tick, and a tick     *)
(* runs the job its wait was set for, unless Stop left it behind.          *)
(***************************************************************************)
EachJobItsTick ==
  /\ EveryJobHasATick
  /\ TimerRunsItsJob

(***************************************************************************)
(* A reload replaces the jobs, their sessions and the set that the next    *)
(* refresh compares with together, whatever failed on the way.             *)
(***************************************************************************)
SessionsFollowJobs ==
  /\ TypeOK
  /\ JobsCanReauthenticate
  /\ NoOrphanedSession
  /\ RunsWhatItCompares

(***************************************************************************)
(* The event loop serves every job and ends on a signal.                   *)
(***************************************************************************)
LoopServes ==
  /\ EveryJobSucceeds
  /\ SignalStops
=============================================================================
