----------------------------- MODULE LoginLockout -----------------------------
(***************************************************************************)
(* The brakes on password guessing for one account: the gate in front of   *)
(* LoginPerson (login_gate.cpp), the failure counter and lock of people    *)
(* (person.cpp), and login_attempts, filled behind the response by a       *)
(* thread pool task (login.cpp, login_attempts.cpp).                       *)
(*                                                                         *)
(* A login reads the lock, then the counts, then hashes the password, and  *)
(* only then writes: logins that passed the gate earlier finish after the  *)
(* lock is set.  The UPDATE of the people row and everything after it is   *)
(* one step, ordered by the row lock.                                      *)
(***************************************************************************)
EXTENDS Integers, FiniteSets

CONSTANTS
  Clients,           \* logins in flight
  IPs,               \* client addresses
  Threshold,         \* auth account lockout after failures
  LockoutDuration,   \* auth account lockout duration
  EmailLimit,        \* auth login max failures per email per window
  IpLimit,           \* auth login max failures per IP per window
  Window,            \* auth login failure window
  PurgeAge,          \* age at which the cleanup job deletes rows
  RecorderOnTenant,  \* FALSE in control mode: the recorder writes through
                     \* WebApp's own provider, not the tenant's
  MaxTime,           \* bound: the latest time
  MaxFailures        \* bound: attempts ever recorded

ASSUME LoginLockoutAssumption ==
  /\ IsFiniteSet(Clients) /\ IsFiniteSet(IPs)
  /\ Threshold \in Nat \ {0} /\ LockoutDuration \in Nat
  /\ EmailLimit \in Nat /\ IpLimit \in Nat
  /\ Window \in Nat \ {0} /\ PurgeAge \in Nat /\ PurgeAge >= Window
  /\ RecorderOnTenant \in BOOLEAN
  /\ MaxTime \in Nat \ {0} /\ MaxFailures \in Nat

VARIABLES
  now,           \* now_us(); registered at 0, the first request is at 1
  failed,        \* people.failed_login_attempts
  lockedUntil,   \* people.locked_until, 0 for NULL
  rows,          \* failed rows of login_attempts
  queue,         \* recorder tasks waiting in the thread pool
  login,         \* the login each client is in
  lockEvents,    \* account_locked events since the counter was last cleared
  late,          \* ghost: passwords compared since the account was locked
  attempted,     \* ghost: failed logins, numbered, with the time they failed
  lost           \* ghost: recorder tasks that failed

vars == <<now, failed, lockedUntil, rows, queue, login, lockEvents, late, attempted, lost>>

Emails == {"account", "unknown"}   \* of the account, and of nobody
Buckets == Emails \X IPs
Times == 1..MaxTime
Task == [n : Nat, from : Buckets]                  \* a record to write
Attempt == [n : Nat, from : Buckets, at : Times]   \* a record with its time
Idle == [pc |-> "idle"]

TypeOK ==
  /\ now \in Times
  /\ failed \in Nat /\ lockedUntil \in 0..(MaxTime + LockoutDuration)
  /\ rows \subseteq Attempt /\ attempted \subseteq Attempt /\ queue \subseteq Task
  /\ login \in [Clients -> {Idle} \cup [pc : {"unlocked", "allowed"}, from : Buckets]]
  /\ lockEvents \in Nat /\ late \in Nat /\ lost \in Nat

Init ==
  /\ now = 1
  /\ failed = 0 /\ lockedUntil = 0
  /\ rows = {} /\ attempted = {} /\ queue = {}
  /\ login = [c \in Clients |-> Idle]
  /\ lockEvents = 0 /\ late = 0 /\ lost = 0

Locked == lockedUntil > now

-----------------------------------------------------------------------------
(* The gate: CheckBeforeLogin *)

\* Mutant: the gate forgets the sticky lock.
PassesLockAlways(email) == TRUE

\* SELECT COALESCE(MAX(locked_until), 0) FROM people WHERE email = $1
PassesLock(email) == email = "account" => ~Locked

CheckLock(c, b) ==
  /\ login[c] = Idle
  /\ PassesLock(b[1])
  /\ login' = [login EXCEPT ![c] = [pc |-> "unlocked", from |-> b]]
  /\ UNCHANGED <<now, failed, lockedUntil, rows, queue, lockEvents, late, attempted, lost>>

\* Mutant: at its edge the window misses a row.
InWindowStrict(t) == t > now - Window

\* attempted_at >= now_us() - window
InWindow(t) == t >= now - Window

(***************************************************************************)
(* RecentFailureCountForEmail and RecentFailureCountForIp.                 *)
(***************************************************************************)
FailuresForEmail(email) == Cardinality({r \in rows : r.from[1] = email /\ InWindow(r.at)})
FailuresForIp(ip) == Cardinality({r \in rows : r.from[2] = ip /\ InWindow(r.at)})

CheckCounts(c) ==
  /\ login[c].pc = "unlocked"
  /\ IF /\ FailuresForEmail(login[c].from[1]) < EmailLimit
        /\ FailuresForIp(login[c].from[2]) < IpLimit
       THEN login' = [login EXCEPT ![c].pc = "allowed"]
       ELSE login' = [login EXCEPT ![c] = Idle]      \* TooManyAttempts
  /\ UNCHANGED <<now, failed, lockedUntil, rows, queue, lockEvents, late, attempted, lost>>

-----------------------------------------------------------------------------
(* LoginPerson *)

\* EnqueueAttemptRecord: nothing after it can change what the task records.
EnqueueAttemptRecord(b) ==
  /\ Cardinality(attempted) < MaxFailures
  /\ LET n == Cardinality(attempted) + 1 IN
       /\ queue' = queue \cup {[n |-> n, from |-> b]}
       /\ attempted' = attempted \cup {[n |-> n, from |-> b, at |-> now]}

Compared == late' = IF Locked THEN late + 1 ELSE 0

\* Mutant: whoever finds the lock set reports it.
JustLockedWhenLocked(newAttempts) == newAttempts >= Threshold

\* justLocked
JustLocked(newAttempts) == newAttempts = Threshold

(***************************************************************************)
(* The password is wrong: count, lock at the threshold and beyond, write   *)
(* the events, enqueue the record, commit.                                 *)
(***************************************************************************)
LoginFails(c) ==
  LET newAttempts == failed + 1
  IN /\ login[c].pc = "allowed" /\ login[c].from[1] = "account"
     /\ failed' = newAttempts
     /\ lockedUntil' = IF newAttempts >= Threshold THEN now + LockoutDuration
                                                   ELSE lockedUntil
     /\ lockEvents' = IF JustLocked(newAttempts) THEN lockEvents + 1 ELSE lockEvents
     /\ Compared
     /\ EnqueueAttemptRecord(login[c].from)
     /\ login' = [login EXCEPT ![c] = Idle]
     /\ UNCHANGED <<now, rows, lost>>

\* The COMMIT fails after the task was enqueued: only the task remains.
LoginCommitFails(c) ==
  /\ login[c].pc = "allowed" /\ login[c].from[1] = "account"
  /\ EnqueueAttemptRecord(login[c].from)
  /\ Compared
  /\ login' = [login EXCEPT ![c] = Idle]
  /\ UNCHANGED <<now, failed, lockedUntil, rows, lockEvents, lost>>

\* Nobody has this e-mail address: no counter, but an event and a record.
LoginUnknown(c) ==
  /\ login[c].pc = "allowed" /\ login[c].from[1] = "unknown"
  /\ EnqueueAttemptRecord(login[c].from)
  /\ login' = [login EXCEPT ![c] = Idle]
  /\ UNCHANGED <<now, failed, lockedUntil, rows, lockEvents, late, lost>>

\* Mutant: the threshold is taken off the counter.
ClearedByThreshold ==
  /\ failed' = failed - Threshold /\ lockedUntil' = 0
  /\ lockEvents' = 0 /\ late' = 0

\* failed_login_attempts = 0, locked_until = NULL
Cleared ==
  /\ failed' = 0 /\ lockedUntil' = 0
  /\ lockEvents' = 0 /\ late' = 0

(***************************************************************************)
(* The password is right: even an account locked meanwhile is unlocked.    *)
(* The record of a success is in no failure count.                         *)
(***************************************************************************)
LoginSucceeds(c) ==
  /\ login[c].pc = "allowed" /\ login[c].from[1] = "account"
  /\ Cleared
  /\ login' = [login EXCEPT ![c] = Idle]
  /\ UNCHANGED <<now, rows, queue, attempted, lost>>

\* CompleteReset clears the lock too.
ClearLoginLockout ==
  /\ failed # 0 \/ lockedUntil # 0
  /\ Cleared
  /\ UNCHANGED <<now, rows, queue, login, attempted, lost>>

-----------------------------------------------------------------------------
(* login_attempts *)

(***************************************************************************)
(* The recorder task: attempted_at is the time of the INSERT.              *)
(***************************************************************************)
RecordAttempt(task) ==
  /\ queue' = queue \ {task}
  /\ rows' = IF RecorderOnTenant THEN rows \cup {[n |-> task.n, from |-> task.from, at |-> now]}
                                 ELSE rows
  /\ UNCHANGED <<now, failed, lockedUntil, login, lockEvents, late,
                 attempted, lost>>

\* catch (...): the task's transaction failed, or the process ended first.
RecordLost(task) ==
  /\ queue' = queue \ {task}
  /\ lost' = lost + 1
  /\ UNCHANGED <<now, failed, lockedUntil, rows, login, lockEvents, late, attempted>>

PurgeOlderThan ==
  /\ \E r \in rows : r.at < now - PurgeAge
  /\ rows' = {r \in rows : r.at >= now - PurgeAge}
  /\ UNCHANGED <<now, failed, lockedUntil, queue, login, lockEvents, late, attempted, lost>>

Tick ==
  /\ now < MaxTime
  /\ now' = now + 1
  /\ late' = IF lockedUntil > now' THEN late ELSE 0
  /\ UNCHANGED <<failed, lockedUntil, rows, queue, login, lockEvents, attempted, lost>>

-----------------------------------------------------------------------------
Next ==
  \/ \E c \in Clients, b \in Buckets : CheckLock(c, b)
  \/ \E c \in Clients :
       \/ CheckCounts(c)
       \/ LoginFails(c) \/ LoginCommitFails(c) \/ LoginUnknown(c)
       \/ LoginSucceeds(c)
  \/ \E task \in queue : RecordAttempt(task) \/ RecordLost(task)
  \/ ClearLoginLockout \/ PurgeOlderThan
  \/ Tick

Spec == Init /\ [][Next]_vars

-----------------------------------------------------------------------------
(* Properties *)

\* Logins of the account that are past the lock check.
PastGate ==
  {c \in Clients : login[c] # Idle /\ login[c].from[1] = "account"}

(***************************************************************************)
(* Once the account is locked, the only passwords still compared are those *)
(* of the other logins that were past the gate at that moment: fewer than  *)
(* there are clients, however often the late ones renew the lock.          *)
(***************************************************************************)
LockStopsGuessing ==
  Locked => late + Cardinality(PastGate) < Cardinality(Clients)

(***************************************************************************)
(* The audit log holds exactly one account_locked event from the crossing  *)
(* of the threshold to the next success or reset, whichever of several     *)
(* concurrent failures crosses it and however the others end.              *)
(***************************************************************************)
OneLockEvent == lockEvents = IF failed >= Threshold THEN 1 ELSE 0

\* Failed logins of the buckets within the last window.
AttemptsIn(buckets) == {a \in attempted : a.from \in buckets /\ a.at + Window >= now}

(***************************************************************************)
(* login.cpp, on the write-behind record: "Gives the gate accurate counts  *)
(* on the next attempt".  When the recorder has caught up and lost         *)
(* nothing, the gate counts every failure of the last window.              *)
(***************************************************************************)
GateCountsAccurate ==
  lost = 0 /\ queue = {} =>
    /\ \A e \in Emails :
         FailuresForEmail(e) >= Cardinality(AttemptsIn({b \in Buckets : b[1] = e}))
    /\ \A ip \in IPs :
         FailuresForIp(ip) >= Cardinality(AttemptsIn({b \in Buckets : b[2] = ip}))

(***************************************************************************)
(* LoginGate: the attempts that its limits are compared with are all of    *)
(* them.                                                                   *)
(***************************************************************************)
CountsAreComplete ==
  /\ TypeOK
  /\ GateCountsAccurate
=============================================================================
