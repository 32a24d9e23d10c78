--------------------------- MODULE ConnectionPool ---------------------------
(***************************************************************************)
(* PooledTransactionProvider (pooled_transaction_provider.cpp) over the    *)
(* ProductionTransactionProvider that every slot wraps                     *)
(* (production_transaction_provider.cpp).                                  *)
(*                                                                         *)
(* Request threads call RunInTransaction.  A call acquires a slot (a free  *)
(* one, or a new one while the pool is below its bound, or it waits on the *)
(* condition variable), opens a transaction on the slot's connection,      *)
(* reconnecting when the server has hung up, runs the caller's work,       *)
(* commits, pushes the slot back and notifies one waiter.                  *)
(*                                                                         *)
(* A section that holds mutex_ is one action.  wait() releases the mutex,  *)
(* so it ends one; notify_one() is called after the mutex is released, so  *)
(* it is an action of its own.                                             *)
(***************************************************************************)
EXTENDS Integers, Sequences, FiniteSets

CONSTANTS
  Threads,         \* request threads and thread-pool workers
  MaxConnections,  \* maxConnections_ of the pool
  MaxCalls,        \* bound: RunInTransaction calls per thread
  MaxDrops,        \* bound: how often the server hangs up on a connection
  MaxFaults        \* bound: how often the database refuses an operation

ASSUME PoolAssumption ==
  /\ IsFiniteSet(Threads)
  /\ MaxConnections \in Nat \ {0}
  /\ MaxCalls \in Nat
  /\ MaxDrops \in Nat
  /\ MaxFaults \in Nat

VARIABLES
  pc,            \* where each thread is in RunInTransaction
  conn,          \* the slot a thread holds (0: none)
  freeProviders, \* freeProviders_, used as a stack
  createdCount,  \* createdCount_; the slots are 1..createdCount
  link,          \* connection of a slot, as libpq and as the server see it
  ran,           \* how often the current call has started the caller's work
  outcome,       \* how a thread's last call ended
  waits,         \* acquireWaitCount_, split by the thread that counted
  calls,         \* calls a thread has made
  drops,         \* connections the server hung up on so far
  faults,        \* operations the database refused so far
  mishaps        \* ghost: the threads in whose last call the database refused an
                 \* operation, or the connection was lost after it was reopened

poolVars == <<freeProviders, createdCount>>
vars == <<pc, conn, freeProviders, createdCount, link, ran, outcome, waits,
          calls, drops, faults, mishaps>>

Slots == 1..MaxConnections

(***************************************************************************)
(* acquire: about to take mutex_; waiting: blocked in available_.wait;     *)
(* woken: notified, about to re-take mutex_ and test the predicate;        *)
(* begin / reconnect / rebegin: before the caller's work, the last two     *)
(* after a BEGIN that found the connection closed; body: in databaseFunc;  *)
(* release / notify: the two halves of ReleaseProvider.                    *)
(***************************************************************************)
Locations == {"idle", "acquire", "waiting", "woken", "begin", "reconnect",
              "rebegin", "body", "commit", "release", "notify"}

(***************************************************************************)
(* up: usable; lost: the server hung up and libpq has not noticed;         *)
(* closed: is_open() is false.                                             *)
(***************************************************************************)
LinkStates == {"none", "up", "lost", "closed"}

TypeOK ==
  /\ pc \in [Threads -> Locations]
  /\ conn \in [Threads -> 0..MaxConnections]
  /\ freeProviders \in Seq(Slots)
  /\ createdCount \in 0..MaxConnections
  /\ link \in [Slots -> LinkStates]
  /\ ran \in [Threads -> Nat]
  /\ outcome \in [Threads -> {"none", "ok", "error"}]
  /\ waits \in [Threads -> Nat]
  /\ calls \in [Threads -> 0..MaxCalls]
  /\ drops \in 0..MaxDrops
  /\ faults \in 0..MaxFaults
  /\ mishaps \subseteq Threads

Init ==
  /\ pc = [t \in Threads |-> "idle"]
  /\ conn = [t \in Threads |-> 0]
  /\ freeProviders = <<>>
  /\ createdCount = 0
  /\ link = [c \in Slots |-> "none"]
  /\ ran = [t \in Threads |-> 0]
  /\ outcome = [t \in Threads |-> "none"]
  /\ waits = [t \in Threads |-> 0]
  /\ calls = [t \in Threads |-> 0]
  /\ drops = 0
  /\ faults = 0
  /\ mishaps = {}

Goto(t, loc) == pc' = [pc EXCEPT ![t] = loc]
At(loc) == {t \in Threads : pc[t] = loc}

(***************************************************************************)
(* The database refuses an operation; the exception reaches the thread.    *)
(***************************************************************************)
Refused(t) ==
  /\ faults < MaxFaults
  /\ faults' = faults + 1
  /\ mishaps' = mishaps \cup {t}

(***************************************************************************)
(* The call leaves the slot's provider with an exception.                  *)
(***************************************************************************)
Throw(t) ==
  /\ Goto(t, "release")
  /\ outcome' = [outcome EXCEPT ![t] = "error"]

-----------------------------------------------------------------------------
(* AcquireProvider *)

RunInTransaction(t) ==
  /\ pc[t] = "idle"
  /\ calls[t] < MaxCalls
  /\ calls' = [calls EXCEPT ![t] = @ + 1]
  /\ ran' = [ran EXCEPT ![t] = 0]
  /\ outcome' = [outcome EXCEPT ![t] = "none"]
  /\ mishaps' = mishaps \ {t}
  /\ Goto(t, "acquire")
  /\ UNCHANGED <<conn, poolVars, link, waits, drops, faults>>

\* Mutant: the slot is returned without pop_back().
TakeFreeNoPop(t) ==
  /\ conn' = [conn EXCEPT ![t] = freeProviders[Len(freeProviders)]]
  /\ Goto(t, "begin")
  /\ UNCHANGED poolVars

TakeFree(t) ==
  /\ conn' = [conn EXCEPT ![t] = freeProviders[Len(freeProviders)]]
  /\ freeProviders' = SubSeq(freeProviders, 1, Len(freeProviders) - 1)
  /\ Goto(t, "begin")
  /\ UNCHANGED createdCount

AcquireFree(t) ==
  /\ pc[t] = "acquire"
  /\ freeProviders # <<>>
  /\ TakeFree(t)
  /\ UNCHANGED <<link, ran, outcome, waits, calls, drops, faults, mishaps>>

\* Mutant: the pool grows past its bound by one (<= for <).
AcquireNewOffByOne(t) ==
  /\ pc[t] = "acquire"
  /\ freeProviders = <<>>
  /\ createdCount <= MaxConnections
  /\ createdCount' = createdCount + 1
  /\ conn' = [conn EXCEPT ![t] = createdCount + 1]
  /\ link' = [c \in Slots |-> IF c = createdCount + 1 THEN "up" ELSE link[c]]
  /\ Goto(t, "begin")
  /\ UNCHANGED <<freeProviders, ran, outcome, waits, calls,
                 drops, faults, mishaps>>

AcquireNew(t) ==
  /\ pc[t] = "acquire"
  /\ freeProviders = <<>>
  /\ createdCount < MaxConnections
  /\ createdCount' = createdCount + 1
  /\ conn' = [conn EXCEPT ![t] = createdCount + 1]
  /\ link' = [link EXCEPT ![createdCount + 1] = "up"]
  /\ Goto(t, "begin")
  /\ UNCHANGED <<freeProviders, ran, outcome, waits, calls,
                 drops, faults, mishaps>>

(***************************************************************************)
(* Opening the connection throws: nothing was created, nothing is held,    *)
(* and the exception leaves RunInTransaction.                              *)
(***************************************************************************)
AcquireFails(t) ==
  /\ pc[t] = "acquire"
  /\ freeProviders = <<>>
  /\ createdCount < MaxConnections
  /\ Refused(t)
  /\ Goto(t, "idle")
  /\ outcome' = [outcome EXCEPT ![t] = "error"]
  /\ UNCHANGED <<conn, poolVars, link, ran, waits, calls, drops>>

AcquireWait(t) ==
  /\ pc[t] = "acquire"
  /\ freeProviders = <<>>
  /\ createdCount >= MaxConnections
  /\ waits' = [waits EXCEPT ![t] = @ + 1]
  /\ Goto(t, "waiting")
  /\ UNCHANGED <<conn, poolVars, link, ran, outcome, calls, drops, faults,
                 mishaps>>

SpuriousWake(t) ==
  /\ pc[t] = "waiting"
  /\ Goto(t, "woken")
  /\ UNCHANGED <<conn, poolVars, link, ran, outcome, waits, calls,
                 drops, faults, mishaps>>

(***************************************************************************)
(* available_.wait(lock, pred) re-takes the mutex and tests the predicate; *)
(* when it holds, the loop body takes the slot without letting the mutex   *)
(* go.                                                                     *)
(***************************************************************************)
WokenTakes(t) ==
  /\ pc[t] = "woken"
  /\ freeProviders # <<>>
  /\ TakeFree(t)
  /\ UNCHANGED <<link, ran, outcome, waits, calls, drops, faults, mishaps>>

WokenWaits(t) ==
  /\ pc[t] = "woken"
  /\ freeProviders = <<>>
  /\ Goto(t, "waiting")
  /\ UNCHANGED <<conn, poolVars, link, ran, outcome, waits, calls,
                 drops, faults, mishaps>>

-----------------------------------------------------------------------------
(* ProductionTransactionProvider::RunInTransaction on the acquired slot *)

(***************************************************************************)
(* Reconnect: ResetConnection opens a fresh connection before it swaps, so *)
(* a failure leaves the closed one in place and is thrown.                 *)
(***************************************************************************)
ReconnectOpens(t, next) ==
  /\ link' = [link EXCEPT ![conn[t]] = "up"]
  /\ Goto(t, next)
  /\ UNCHANGED <<outcome, faults, mishaps>>

ReconnectRefused(t) ==
  /\ Refused(t)
  /\ Throw(t)
  /\ UNCHANGED link

Reconnect(t, next) == ReconnectOpens(t, next) \/ ReconnectRefused(t)

(***************************************************************************)
(* A connection already known to be closed is replaced before the BEGIN.   *)
(***************************************************************************)
ReconnectClosed(t) ==
  /\ pc[t] = "begin"
  /\ link[conn[t]] = "closed"
  /\ Reconnect(t, "begin")
  /\ UNCHANGED <<conn, poolVars, ran, waits, calls, drops>>

(***************************************************************************)
(* BEGIN works and the caller's work starts.                               *)
(***************************************************************************)
Begin(t) ==
  /\ pc[t] \in {"begin", "rebegin"}
  /\ link[conn[t]] = "up"
  /\ ran' = [ran EXCEPT ![t] = @ + 1]
  /\ Goto(t, "body")
  /\ UNCHANGED <<conn, poolVars, link, outcome, waits, calls,
                 drops, faults, mishaps>>

(***************************************************************************)
(* BEGIN throws while the connection is open: a genuine error.             *)
(***************************************************************************)
BeginRefused(t) ==
  /\ pc[t] \in {"begin", "rebegin"}
  /\ link[conn[t]] = "up"
  /\ Refused(t)
  /\ Throw(t)
  /\ UNCHANGED <<conn, poolVars, link, ran, waits, calls, drops>>

\* Mutant: no reconnect after a BEGIN that failed.
BeginLostThrows(t) ==
  /\ pc[t] \in {"begin", "rebegin"}
  /\ link[conn[t]] = "lost"
  /\ link' = [link EXCEPT ![conn[t]] = "closed"]
  /\ Throw(t)
  /\ UNCHANGED <<conn, poolVars, ran, waits, calls, drops, faults, mishaps>>

(***************************************************************************)
(* BEGIN throws because the server had hung up: the first time the call    *)
(* reconnects, the second time the exception leaves.                       *)
(***************************************************************************)
BeginLost(t) ==
  /\ pc[t] \in {"begin", "rebegin"}
  /\ link[conn[t]] = "lost"
  /\ link' = [link EXCEPT ![conn[t]] = "closed"]
  /\ IF pc[t] = "begin"
       THEN Goto(t, "reconnect") /\ UNCHANGED outcome
       ELSE Throw(t)
  /\ UNCHANGED <<conn, poolVars, ran, waits, calls, drops, faults, mishaps>>

ReconnectLost(t) ==
  /\ pc[t] = "reconnect"
  /\ Reconnect(t, "rebegin")
  /\ UNCHANGED <<conn, poolVars, ran, waits, calls, drops>>

(***************************************************************************)
(* databaseFunc returns, or throws (its own error, or the connection broke *)
(* under it and libpq closes it).  It is never run again by this call.     *)
(***************************************************************************)
BodyReturns(t) ==
  /\ pc[t] = "body"
  /\ Goto(t, "commit")
  /\ UNCHANGED <<conn, poolVars, link, ran, outcome, waits, calls,
                 drops, faults, mishaps>>

CloseIfLost(c) ==
  link' = IF link[c] = "lost" THEN [link EXCEPT ![c] = "closed"] ELSE link

\* Mutant: work whose connection broke is retried on a fresh one.
BodyRetries(t) ==
  /\ pc[t] = "body"
  /\ CloseIfLost(conn[t])
  /\ IF link[conn[t]] = "lost"
       THEN Goto(t, "begin") /\ UNCHANGED outcome
       ELSE Throw(t)
  /\ UNCHANGED <<conn, poolVars, ran, waits, calls, drops, faults, mishaps>>

\* Mutant: RunInTransaction without the catch block that releases the slot.
BodyThrowsPastRelease(t) ==
  /\ pc[t] = "body"
  /\ CloseIfLost(conn[t])
  /\ outcome' = [outcome EXCEPT ![t] = "error"]
  /\ conn' = [conn EXCEPT ![t] = 0]
  /\ Goto(t, "idle")
  /\ UNCHANGED <<poolVars, ran, waits, calls, drops, faults, mishaps>>

BodyThrows(t) ==
  /\ pc[t] = "body"
  /\ CloseIfLost(conn[t])
  /\ Throw(t)
  /\ UNCHANGED <<conn, poolVars, ran, waits, calls, drops, faults, mishaps>>

Commit(t) ==
  /\ pc[t] = "commit"
  /\ link[conn[t]] = "up"
  /\ outcome' = [outcome EXCEPT ![t] = "ok"]
  /\ Goto(t, "release")
  /\ UNCHANGED <<conn, poolVars, link, ran, waits, calls, drops, faults,
                 mishaps>>

CommitThrows(t) ==
  /\ pc[t] = "commit"
  /\ \/ link[conn[t]] = "lost" /\ UNCHANGED <<faults, mishaps>>
     \/ link[conn[t]] = "up" /\ Refused(t)
  /\ CloseIfLost(conn[t])
  /\ Throw(t)
  /\ UNCHANGED <<conn, poolVars, ran, waits, calls, drops>>

-----------------------------------------------------------------------------
(* ReleaseProvider: on the normal path and in the catch block *)

ReleasePush(t) ==
  /\ pc[t] = "release"
  /\ freeProviders' = Append(freeProviders, conn[t])
  /\ conn' = [conn EXCEPT ![t] = 0]
  /\ Goto(t, "notify")
  /\ UNCHANGED <<createdCount, link, ran, outcome, waits, calls,
                 drops, faults, mishaps>>

\* Mutant: ReleaseProvider without available_.notify_one().
ReleaseSilently(t) ==
  /\ pc[t] = "notify"
  /\ Goto(t, "idle")
  /\ UNCHANGED <<conn, poolVars, link, ran, outcome, waits, calls,
                 drops, faults, mishaps>>

(***************************************************************************)
(* notify_one moves one blocked thread to woken, and does nothing when     *)
(* nobody is blocked; RunInTransaction then returns or rethrows.           *)
(***************************************************************************)
ReleaseNotify(t) ==
  /\ pc[t] = "notify"
  /\ IF At("waiting") = {}
       THEN Goto(t, "idle")
       ELSE \E w \in At("waiting") :
              pc' = [pc EXCEPT ![t] = "idle", ![w] = "woken"]
  /\ UNCHANGED <<conn, poolVars, link, ran, outcome, waits, calls,
                 drops, faults, mishaps>>

-----------------------------------------------------------------------------
(***************************************************************************)
(* The server hangs up on a connection (idle or in use); libpq learns of   *)
(* it only when it next uses the socket.                                   *)
(***************************************************************************)
ServerHangsUp(c) ==
  /\ link[c] = "up"
  /\ drops < MaxDrops
  /\ drops' = drops + 1
  /\ link' = [link EXCEPT ![c] = "lost"]
  /\ mishaps' = mishaps \cup {t \in At("rebegin") : conn[t] = c}
  /\ UNCHANGED <<pc, conn, poolVars, ran, outcome, waits, calls, faults>>

(***************************************************************************)
(* The bounded run is over: every thread has made its calls and returned.  *)
(***************************************************************************)
Quiescent ==
  /\ \A t \in Threads : pc[t] = "idle" /\ calls[t] = MaxCalls
  /\ UNCHANGED vars

Acquire(t) ==
  \/ AcquireFree(t) \/ AcquireNew(t) \/ AcquireFails(t) \/ AcquireWait(t)
  \/ WokenTakes(t) \/ WokenWaits(t)

Use(t) ==
  \/ ReconnectClosed(t) \/ Begin(t) \/ BeginRefused(t) \/ BeginLost(t)
  \/ ReconnectLost(t)
  \/ BodyReturns(t) \/ BodyThrows(t)
  \/ Commit(t) \/ CommitThrows(t)

Release(t) == ReleasePush(t) \/ ReleaseNotify(t)

(***************************************************************************)
(* What a running thread does by itself: everything but starting a call    *)
(* and being woken for no reason.                                          *)
(***************************************************************************)
ThreadStep(t) == Acquire(t) \/ Use(t) \/ Release(t)

Next ==
  \/ \E t \in Threads : RunInTransaction(t) \/ SpuriousWake(t) \/ ThreadStep(t)
  \/ \E c \in Slots : ServerHangsUp(c)
  \/ Quiescent

Spec == Init /\ [][Next]_vars

(***************************************************************************)
(* A thread that can run is eventually scheduled, and the caller's work    *)
(* ends; nothing is assumed about which waiter is notified or about who    *)
(* gets the mutex first.                                                   *)
(***************************************************************************)
FairSpec == Spec /\ \A t \in Threads : WF_vars(ThreadStep(t))

-----------------------------------------------------------------------------
(* Properties *)

Holding == {"begin", "reconnect", "rebegin", "body", "commit", "release"}
Holders == {t \in Threads : pc[t] \in Holding}
FreeSlots == {freeProviders[i] : i \in 1..Len(freeProviders)}

(***************************************************************************)
(* libpqxx connections are not thread-safe: no slot is held by two threads *)
(* and no slot in freeProviders_ is held or listed twice.                  *)
(***************************************************************************)
ExclusiveSlots ==
  /\ \A t, u \in Holders : t # u => conn[t] # conn[u]
  /\ \A t \in Holders : conn[t] \notin FreeSlots
  /\ \A i, j \in 1..Len(freeProviders) :
       i # j => freeProviders[i] # freeProviders[j]

(***************************************************************************)
(* Every exit of RunInTransaction, the exceptional ones included, gives    *)
(* the slot back: each created slot is free or held.                       *)
(***************************************************************************)
NoSlotLeaks ==
  1..createdCount = FreeSlots \cup {conn[t] : t \in Holders}

(***************************************************************************)
(* notify_one is called after mutex_ is released and wakes only one        *)
(* thread.  While threads are blocked, every free slot is still matched by *)
(* a notification that is on its way or by a woken thread that will test   *)
(* the predicate again, whoever takes slots in between.                    *)
(***************************************************************************)
NoLostWakeup ==
  At("waiting") # {} =>
    Len(freeProviders) <= Cardinality(At("notify")) + Cardinality(At("woken"))

(***************************************************************************)
(* "The caller's work is NEVER retried" (production_transaction_provider,  *)
(* RunInTransaction): no sequence of lost connections and reconnects makes *)
(* one call run databaseFunc twice, and a call reported as ok ran it.      *)
(***************************************************************************)
WorkRunsAtMostOnce ==
  \A t \in Threads :
    /\ ran[t] <= 1
    /\ outcome[t] = "ok" => ran[t] = 1

(***************************************************************************)
(* A connection that died while idle does not fail the next call, however  *)
(* many of the pool's connections died: a call fails before its work       *)
(* started only when the database refused an operation of that very call,  *)
(* or the connection which that call had reopened was lost again before    *)
(* its second BEGIN.                                                       *)
(***************************************************************************)
IdleLossIsMasked ==
  \A t \in Threads :
    outcome[t] = "error" /\ ran[t] = 0 => t \in mishaps

(***************************************************************************)
(* Every call returns or throws, at every size of the pool: no waiter is   *)
(* left behind once the calls in front of it have finished.                *)
(***************************************************************************)
EveryCallReturns == \A t \in Threads : pc[t] = "acquire" ~> pc[t] = "idle"

(***************************************************************************)
(* PooledTransactionProvider as a whole: every slot it has created is in   *)
(* one place, free or with one thread, and there are never more than       *)
(* max_connections.                                                        *)
(***************************************************************************)
SlotsAccounted ==
  /\ TypeOK
  /\ ExclusiveSlots
  /\ NoSlotLeaks
=============================================================================
