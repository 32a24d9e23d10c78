----------------------------- MODULE SignInProofs -----------------------------
(***************************************************************************)
(* What stands before and behind a sign-in.  Before it, the lock, its      *)
(* audit event and the counts of the gate (LoginLockout), for any number   *)
(* of clients, any limits and any bounds.  Behind it, the settings it runs *)
(* with and the cookies it hands out (Settings), for any servers, editors, *)
(* slots, environments and orders of reading.  The two share no state.     *)
(***************************************************************************)
EXTENDS LoginLockout, Settings, FiniteSetTheorems, WellFoundedInduction, TLAPS


-----------------------------------------------------------------------------
(* The lock event *)

EventInv == failed \in Nat /\ OneLockEvent

(***************************************************************************)
(* Exactly one account_locked event from the crossing of the threshold to  *)
(* the next success or reset (LoginPerson's justLocked).                   *)
(***************************************************************************)
THEOREM OneLockEventHolds == Spec => []OneLockEvent
<1>1. Init => EventInv
  BY LoginLockoutAssumption DEF Init, EventInv, OneLockEvent
<1>2. ASSUME EventInv, [Next]_vars PROVE EventInv'
  <2> USE <1>2, LoginLockoutAssumption DEF EventInv, OneLockEvent
  <2>1. ASSUME NEW c \in Clients, LoginFails(c) PROVE EventInv'
    BY <2>1 DEF LoginFails, JustLocked
  <2>2. CASE Cleared
    BY <2>2 DEF Cleared
  <2>3. ASSUME NEW c \in Clients, LoginSucceeds(c) PROVE EventInv'
    BY <2>2, <2>3 DEF LoginSucceeds
  <2>4. CASE ClearLoginLockout
    BY <2>2, <2>4 DEF ClearLoginLockout
  <2>5. ASSUME UNCHANGED <<failed, lockEvents>> PROVE EventInv'
    BY <2>5
  <2>6. ASSUME NEW c \in Clients,
               \/ \E b \in Buckets : CheckLock(c, b)
               \/ CheckCounts(c) \/ LoginCommitFails(c) \/ LoginUnknown(c)
        PROVE EventInv'
    BY <2>5, <2>6 DEF CheckLock, CheckCounts, LoginCommitFails, LoginUnknown
  <2>7. ASSUME NEW task \in queue, RecordAttempt(task) \/ RecordLost(task)
        PROVE EventInv'
    BY <2>5, <2>7 DEF RecordAttempt, RecordLost
  <2>8. CASE PurgeOlderThan \/ Tick \/ UNCHANGED vars
    BY <2>5, <2>8 DEF PurgeOlderThan, Tick, vars
  <2> QED
    BY <2>1, <2>3, <2>4, <2>6, <2>7, <2>8 DEF Next
<1>3. EventInv => OneLockEvent
  BY DEF EventInv
<1> QED
  BY <1>1, <1>2, <1>3, PTL DEF Spec

-----------------------------------------------------------------------------
(* The lock *)

LoginType ==
  login \in [Clients -> {Idle} \cup [pc : {"unlocked", "allowed"}, from : Buckets]]

LockInv ==
  /\ now \in Nat \ {0} /\ lockedUntil \in Nat /\ late \in Nat
  /\ LoginType
  /\ LockStopsGuessing

\* The logins past the gate are finitely many, and a login that leaves makes
\* them one fewer.
LEMMA PastGateFinite ==
  /\ IsFiniteSet(PastGate) /\ Cardinality(PastGate) \in Nat
  /\ Cardinality(Clients) \in Nat
  /\ Cardinality(PastGate) <= Cardinality(Clients)
<1>1. PastGate \subseteq Clients
  BY DEF PastGate
<1>2. IsFiniteSet(Clients)
  BY LoginLockoutAssumption
<1>3. IsFiniteSet(PastGate) /\ Cardinality(PastGate) <= Cardinality(Clients)
  BY <1>1, <1>2, FS_Subset
<1> QED
  BY <1>2, <1>3, FS_CardinalityType

\* A login of the account that ends has left the gate behind.
LEMMA LeavesGate ==
  ASSUME NEW c \in Clients, LoginType,
         login[c].pc = "allowed", login[c].from[1] = "account",
         login' = [login EXCEPT ![c] = Idle]
  PROVE  /\ Cardinality(PastGate) \in Nat \ {0}
         /\ Cardinality(PastGate') = Cardinality(PastGate) - 1
<1>1. c \in PastGate
  BY DEF PastGate, Idle
<1>2. PastGate' = PastGate \ {c}
  BY DEF PastGate, LoginType
<1>3. Cardinality(PastGate \ {c}) = Cardinality(PastGate) - 1
  BY <1>1, PastGateFinite, FS_RemoveElement
<1>4. Cardinality(PastGate \ {c}) \in Nat
  BY PastGateFinite, FS_RemoveElement, FS_CardinalityType
<1> QED
  BY <1>2, <1>3, <1>4, PastGateFinite

\* A failed comparison keeps the invariant, whatever it does to the lock.
LEMMA ComparedKeepsLockInv ==
  ASSUME LockInv, NEW c \in Clients,
         login[c].pc = "allowed", login[c].from[1] = "account",
         login' = [login EXCEPT ![c] = Idle],
         Compared, lockedUntil' \in Nat, now' = now
  PROVE  LockInv'
<1>1. LoginType'
  BY DEF LockInv, LoginType
<1>2. late' \in Nat
  BY DEF LockInv, Compared
<1>3. late' + Cardinality(PastGate') < Cardinality(Clients)
  <2>1. /\ Cardinality(PastGate) \in Nat \ {0}
        /\ Cardinality(PastGate') = Cardinality(PastGate) - 1
    BY LeavesGate DEF LockInv
  <2>2. CASE Locked
    BY <2>1, <2>2, PastGateFinite DEF LockInv, LockStopsGuessing, Compared
  <2>3. CASE ~Locked
    BY <2>1, <2>3, PastGateFinite DEF Compared
  <2> QED
    BY <2>2, <2>3
<1> QED
  BY <1>1, <1>2, <1>3 DEF LockInv, LockStopsGuessing

\* A step after which the account is no longer locked, or is as locked as it
\* was with no more logins past the gate, keeps the invariant.
LEMMA NoMorePastGate ==
  ASSUME LockInv, LoginType', PastGate' \subseteq PastGate,
         UNCHANGED <<now, lockedUntil, late>>
  PROVE  LockInv'
<1>1. Cardinality(PastGate') <= Cardinality(PastGate) /\ Cardinality(PastGate') \in Nat
  BY PastGateFinite, FS_Subset, FS_CardinalityType
<1>2. Locked' => Locked
  BY DEF Locked
<1> QED
  BY <1>1, <1>2, PastGateFinite DEF LockInv, LockStopsGuessing

(***************************************************************************)
(* Once an account is locked, fewer passwords are still compared than      *)
(* there are logins in flight (CheckBeforeLogin and LoginPerson).          *)
(***************************************************************************)
THEOREM LockStopsGuessingHolds == Spec => []LockStopsGuessing
<1>1. Init => LockInv
  BY LoginLockoutAssumption
  DEF Init, LockInv, LoginType, LockStopsGuessing, Locked, Times
<1>2. ASSUME LockInv, [Next]_vars PROVE LockInv'
  <2>1. ASSUME NEW c \in Clients, NEW b \in Buckets, CheckLock(c, b) PROVE LockInv'
    <3>1. LoginType'
      BY <1>2, <2>1 DEF LockInv, LoginType, CheckLock
    <3>2. CASE Locked
      <4>1. b[1] # "account"
        BY <2>1, <3>2 DEF CheckLock, PassesLock
      <4>2. PastGate' \subseteq PastGate
        BY <1>2, <2>1, <4>1 DEF PastGate, CheckLock, LockInv, LoginType
      <4> QED
        BY <1>2, <2>1, <3>1, <4>2, NoMorePastGate DEF CheckLock
    <3>3. CASE ~Locked
      BY <1>2, <2>1, <3>1, <3>3 DEF LockInv, LockStopsGuessing, Locked, CheckLock
    <3> QED
      BY <3>2, <3>3
  <2>2. ASSUME NEW c \in Clients, CheckCounts(c) PROVE LockInv'
    <3>1. LoginType' /\ PastGate' \subseteq PastGate
      BY <1>2, <2>2 DEF LockInv, LoginType, PastGate, CheckCounts, Idle
    <3> QED
      BY <1>2, <2>2, <3>1, NoMorePastGate DEF CheckCounts
  <2>3. ASSUME NEW c \in Clients, LoginFails(c) PROVE LockInv'
    <3>1. lockedUntil' \in Nat
      BY <1>2, <2>3, LoginLockoutAssumption DEF LockInv, LoginFails
    <3> QED
      BY <1>2, <2>3, <3>1, ComparedKeepsLockInv DEF LoginFails
  <2>4. ASSUME NEW c \in Clients, LoginCommitFails(c) PROVE LockInv'
    BY <1>2, <2>4, ComparedKeepsLockInv DEF LoginCommitFails, LockInv
  <2>5. ASSUME NEW c \in Clients, LoginUnknown(c) PROVE LockInv'
    <3>1. LoginType' /\ PastGate' \subseteq PastGate
      BY <1>2, <2>5 DEF LockInv, LoginType, PastGate, LoginUnknown
    <3> QED
      BY <1>2, <2>5, <3>1, NoMorePastGate DEF LoginUnknown
  <2>6. ASSUME Cleared, LoginType', now' = now PROVE LockInv'
    BY <1>2, <2>6 DEF Cleared, LockInv, LockStopsGuessing, Locked
  <2>7. ASSUME NEW c \in Clients, LoginSucceeds(c) PROVE LockInv'
    BY <1>2, <2>6, <2>7 DEF LoginSucceeds, LockInv, LoginType
  <2>8. CASE ClearLoginLockout
    BY <1>2, <2>6, <2>8 DEF ClearLoginLockout, LockInv, LoginType
  <2>9. ASSUME UNCHANGED <<now, lockedUntil, late, login>> PROVE LockInv'
    BY <1>2, <2>9, NoMorePastGate DEF LockInv, LoginType, PastGate
  <2>10. ASSUME NEW task \in queue, RecordAttempt(task) \/ RecordLost(task) PROVE LockInv'
    BY <2>9, <2>10 DEF RecordAttempt, RecordLost
  <2>11. CASE PurgeOlderThan \/ UNCHANGED vars
    BY <2>9, <2>11 DEF PurgeOlderThan, vars
  <2>12. CASE Tick
    <3>1. PastGate' = PastGate /\ LoginType'
      BY <1>2, <2>12 DEF Tick, PastGate, LockInv, LoginType
    <3>2. Locked' => Locked /\ late' = late
      BY <1>2, <2>12 DEF Tick, Locked, LockInv
    <3> QED
      BY <1>2, <2>12, <3>1, <3>2 DEF Tick, LockInv, LockStopsGuessing
  <2> QED
    BY <1>2, <2>1, <2>2, <2>3, <2>4, <2>5, <2>7, <2>8, <2>10, <2>11, <2>12 DEF Next
<1>3. LockInv => LockStopsGuessing
  BY DEF LockInv
<1> QED
  BY <1>1, <1>2, <1>3, PTL DEF Spec

-----------------------------------------------------------------------------
(* The counts *)

\* The attempt waits in the pool or has a row that is no older than itself.
Accounted(a) ==
  \/ \E task \in queue : task.n = a.n /\ task.from = a.from
  \/ \E r \in rows : r.n = a.n /\ r.from = a.from /\ r.at >= a.at

CountInv ==
  /\ TypeOK
  /\ IsFiniteSet(attempted) /\ IsFiniteSet(rows)
  /\ \A a \in attempted : a.n <= Cardinality(attempted) /\ a.at <= now
  /\ \A a, b \in attempted : a.n = b.n => a = b
  /\ lost = 0 => \A a \in attempted : a.at + Window >= now => Accounted(a)

LEMMA AttemptsTyped ==
  ASSUME TypeOK
  PROVE  /\ \A r \in rows : r.n \in Nat /\ r.from \in Buckets /\ r.at \in Nat
         /\ \A a \in attempted : a.n \in Nat /\ a.from \in Buckets /\ a.at \in Nat
         /\ \A task \in queue : task.n \in Nat /\ task.from \in Buckets
         /\ now \in Nat /\ now \in Times
<1>1. Times \subseteq Nat
  BY DEF Times
<1>2. \A r \in rows : r.n \in Nat /\ r.from \in Buckets /\ r.at \in Nat
  BY <1>1 DEF TypeOK, Attempt
<1>3. \A a \in attempted : a.n \in Nat /\ a.from \in Buckets /\ a.at \in Nat
  BY <1>1 DEF TypeOK, Attempt
<1>4. \A task \in queue : task.n \in Nat /\ task.from \in Buckets
  BY DEF TypeOK, Task
<1> QED
  BY <1>1, <1>2, <1>3, <1>4 DEF TypeOK

\* Attempts with a row each are at most as many as the rows.
LEMMA RowsOutnumber ==
  ASSUME NEW A, NEW R, IsFiniteSet(R),
         \A a, b \in A : a.n = b.n => a = b,
         \A a \in A : \E r \in R : r.n = a.n
  PROVE  Cardinality(R) >= Cardinality(A)
<1> DEFINE f == [a \in A |-> CHOOSE r \in R : r.n = a.n]
<1>1. \A a \in A : f[a] \in R /\ f[a].n = a.n
  OBVIOUS
<1>2. f \in [A -> R]
  BY <1>1
<1>3. \A a, b \in A : f[a] = f[b] => a = b
  BY <1>1
<1>4. f \in Injection(A, R)
  BY <1>2, <1>3 DEF Injection, IsInjective
<1>5. IsFiniteSet(A) /\ Cardinality(A) <= Cardinality(R)
  BY <1>4, FS_Injection
<1> QED
  BY <1>5, FS_CardinalityType

LEMMA CountsFollow == CountInv => CountsAreComplete
<1> SUFFICES ASSUME CountInv, lost = 0, queue = {} PROVE
      /\ \A e \in Emails :
           FailuresForEmail(e) >= Cardinality(AttemptsIn({b \in Buckets : b[1] = e}))
      /\ \A ip \in IPs :
           FailuresForIp(ip) >= Cardinality(AttemptsIn({b \in Buckets : b[2] = ip}))
  BY DEF CountsAreComplete, GateCountsAccurate, CountInv
<1>1. ASSUME NEW a \in attempted, a.at + Window >= now
      PROVE  \E r \in rows : r.n = a.n /\ r.from = a.from /\ InWindow(r.at)
  <2>1. PICK r \in rows : r.n = a.n /\ r.from = a.from /\ r.at >= a.at
    BY <1>1 DEF CountInv, Accounted
  <2>2. r.at \in Nat /\ a.at \in Nat /\ now \in Nat /\ Window \in Nat
    BY AttemptsTyped, LoginLockoutAssumption DEF CountInv
  <2> QED
    BY <1>1, <2>1, <2>2 DEF InWindow
<1>2. ASSUME NEW e \in Emails
      PROVE  FailuresForEmail(e) >= Cardinality(AttemptsIn({b \in Buckets : b[1] = e}))
  <2>1. PICK A, R : /\ A = AttemptsIn({b \in Buckets : b[1] = e})
                    /\ R = {r \in rows : r.from[1] = e /\ InWindow(r.at)}
    OBVIOUS
  <2>2. IsFiniteSet(R)
    BY <2>1, FS_Subset DEF CountInv
  <2>3. \A a \in A : \E r \in R : r.n = a.n
    BY <1>1, <2>1 DEF AttemptsIn
  <2>4. \A a, b \in A : a.n = b.n => a = b
    BY <2>1 DEF AttemptsIn, CountInv
  <2> QED
    BY <2>1, <2>2, <2>3, <2>4, RowsOutnumber DEF FailuresForEmail
<1>3. ASSUME NEW ip \in IPs
      PROVE  FailuresForIp(ip) >= Cardinality(AttemptsIn({b \in Buckets : b[2] = ip}))
  <2>1. PICK A, R : /\ A = AttemptsIn({b \in Buckets : b[2] = ip})
                    /\ R = {r \in rows : r.from[2] = ip /\ InWindow(r.at)}
    OBVIOUS
  <2>2. IsFiniteSet(R)
    BY <2>1, FS_Subset DEF CountInv
  <2>3. \A a \in A : \E r \in R : r.n = a.n
    BY <1>1, <2>1 DEF AttemptsIn
  <2>4. \A a, b \in A : a.n = b.n => a = b
    BY <2>1 DEF AttemptsIn, CountInv
  <2> QED
    BY <2>1, <2>2, <2>3, <2>4, RowsOutnumber DEF FailuresForIp
<1> QED
  BY <1>2, <1>3

\* A failed login is recorded under the next number.
LEMMA EnqueueKeepsCounts ==
  ASSUME CountInv, NEW b \in Buckets, EnqueueAttemptRecord(b), TypeOK', UNCHANGED <<now, rows, lost>>
  PROVE  CountInv'
<1>1. PICK k \in Nat : k = Cardinality(attempted)
  BY FS_CardinalityType DEF CountInv
<1>2. PICK new : new = [n |-> k + 1, from |-> b, at |-> now]
  OBVIOUS
<1>3. new.n = k + 1 /\ new.from = b /\ new.at = now
  BY <1>2
<1>4. PICK task : task = [n |-> k + 1, from |-> b]
  OBVIOUS
<1>5. task.n = k + 1 /\ task.from = b
  BY <1>4
<1>6. attempted' = attempted \cup {new} /\ queue' = queue \cup {task}
  BY <1>1, <1>2, <1>4 DEF EnqueueAttemptRecord
<1>7. \A a \in attempted : a.n \in Nat /\ a.n <= k /\ a.at \in Nat /\ a.at <= now
  BY <1>1, AttemptsTyped DEF CountInv
<1>8. new \notin attempted
  BY <1>3, <1>7
<1>9. IsFiniteSet(attempted') /\ Cardinality(attempted') = k + 1 /\ IsFiniteSet(rows')
  BY <1>1, <1>6, <1>8, FS_AddElement DEF CountInv
<1>10. now \in Nat /\ now' = now
  BY AttemptsTyped DEF CountInv
<1>11. \A a \in attempted' : a.n <= Cardinality(attempted') /\ a.at <= now'
  BY <1>3, <1>6, <1>7, <1>9, <1>10
<1>12. \A a, c \in attempted' : a.n = c.n => a = c
  BY <1>3, <1>6, <1>7 DEF CountInv
<1>13. ASSUME lost = 0, NEW a \in attempted', a.at + Window >= now
       PROVE  \/ \E x \in queue' : x.n = a.n /\ x.from = a.from
              \/ \E r \in rows' : r.n = a.n /\ r.from = a.from /\ r.at >= a.at
  <2>1. CASE a = new
    BY <1>3, <1>5, <1>6, <2>1
  <2>2. CASE a \in attempted
    BY <1>6, <1>13, <2>2 DEF CountInv, Accounted
  <2> QED
    BY <1>6, <2>1, <2>2
<1> QED
  BY <1>9, <1>10, <1>11, <1>12, <1>13 DEF CountInv, Accounted

\* Every step keeps the variables' types.
LEMMA LockoutTyped == CountInv /\ [Next]_vars => TypeOK'
<1> SUFFICES ASSUME CountInv, [Next]_vars PROVE TypeOK'
  OBVIOUS
<1> DEFINE LoginsTyped == login \in [Clients -> {Idle} \cup [pc : {"unlocked", "allowed"}, from : Buckets]]
           LockTyped == /\ failed \in Nat /\ lockedUntil \in 0..(MaxTime + LockoutDuration)
                        /\ lockEvents \in Nat /\ late \in Nat
           RecordsTyped == rows \subseteq Attempt /\ attempted \subseteq Attempt /\ queue \subseteq Task
                             /\ now \in Times /\ lost \in Nat
<1>1. LoginsTyped /\ LockTyped /\ RecordsTyped
  BY DEF CountInv, TypeOK
<1>2. SUFFICES LoginsTyped' /\ LockTyped' /\ RecordsTyped'
  BY DEF TypeOK
<1>3. now \in Nat /\ now <= MaxTime
  BY <1>1, LoginLockoutAssumption DEF Times
<1>4. LoginsTyped'
  <2>1. ASSUME NEW c \in Clients, login' = [login EXCEPT ![c] = Idle] PROVE LoginsTyped'
    BY <1>1, <2>1
  <2>2. ASSUME NEW c \in Clients, NEW b \in Buckets, CheckLock(c, b) PROVE LoginsTyped'
    BY <1>1, <2>2 DEF CheckLock
  <2>3. ASSUME NEW c \in Clients, CheckCounts(c) PROVE LoginsTyped'
    BY <1>1, <2>1, <2>3 DEF CheckCounts, Idle
  <2>4. ASSUME NEW c \in Clients,
               LoginFails(c) \/ LoginCommitFails(c) \/ LoginUnknown(c) \/ LoginSucceeds(c)
        PROVE  LoginsTyped'
    BY <2>1, <2>4 DEF LoginFails, LoginCommitFails, LoginUnknown, LoginSucceeds
  <2>5. CASE UNCHANGED login
    BY <1>1, <2>5
  <2>6. ASSUME NEW task \in queue, RecordAttempt(task) \/ RecordLost(task) PROVE UNCHANGED login
    BY <2>6 DEF RecordAttempt, RecordLost
  <2>7. CASE ClearLoginLockout \/ PurgeOlderThan \/ Tick \/ UNCHANGED vars
    BY <2>5, <2>7 DEF ClearLoginLockout, PurgeOlderThan, Tick, vars
  <2> QED
    BY <2>2, <2>3, <2>4, <2>5, <2>6, <2>7 DEF Next
<1>5. LockTyped'
  <2>1. CASE UNCHANGED <<failed, lockedUntil, lockEvents, late>>
    BY <1>1, <2>1
  <2>2. CASE Cleared
    BY <2>2, LoginLockoutAssumption DEF Cleared
  <2>4. ASSUME NEW c \in Clients, LoginFails(c) PROVE LockTyped'
    <3>1. late' \in Nat
      BY <1>1, <2>4 DEF LoginFails, Compared
    <3>2. failed' \in Nat /\ lockEvents' \in Nat
      BY <1>1, <2>4 DEF LoginFails
    <3>3. lockedUntil' \in 0..(MaxTime + LockoutDuration)
      BY <1>1, <1>3, <2>4, LoginLockoutAssumption DEF LoginFails
    <3> QED
      BY <3>1, <3>2, <3>3
  <2>5. ASSUME NEW c \in Clients, LoginCommitFails(c) PROVE LockTyped'
    BY <1>1, <2>5 DEF LoginCommitFails, Compared
  <2>6. ASSUME NEW c \in Clients, CheckCounts(c) \/ LoginUnknown(c) \/ \E b \in Buckets : CheckLock(c, b)
        PROVE  LockTyped'
    BY <2>1, <2>6 DEF CheckCounts, LoginUnknown, CheckLock
  <2>7. ASSUME NEW c \in Clients, LoginSucceeds(c) PROVE LockTyped'
    BY <2>2, <2>7 DEF LoginSucceeds
  <2>8. CASE ClearLoginLockout
    BY <2>2, <2>8 DEF ClearLoginLockout
  <2>9. ASSUME NEW task \in queue, RecordAttempt(task) \/ RecordLost(task) PROVE LockTyped'
    BY <2>1, <2>9 DEF RecordAttempt, RecordLost
  <2>10. CASE PurgeOlderThan \/ UNCHANGED vars
    BY <2>1, <2>10 DEF PurgeOlderThan, vars
  <2>11. CASE Tick
    BY <1>1, <2>11 DEF Tick
  <2> QED
    BY <2>4, <2>5, <2>6, <2>7, <2>8, <2>9, <2>10, <2>11 DEF Next
<1>6. RecordsTyped'
  <2>1. CASE UNCHANGED <<rows, attempted, queue, now, lost>>
    BY <1>1, <2>1
  <2>2. ASSUME NEW b \in Buckets, NEW k \in Nat
        PROVE  [n |-> k, from |-> b] \in Task /\ [n |-> k, from |-> b, at |-> now] \in Attempt
    BY <1>1 DEF Task, Attempt
  <2>3. ASSUME NEW b \in Buckets, EnqueueAttemptRecord(b), UNCHANGED <<rows, now, lost>>
        PROVE  RecordsTyped'
    <3>1. PICK k \in Nat : k = Cardinality(attempted) + 1
      BY FS_CardinalityType DEF CountInv
    <3> QED
      BY <1>1, <2>2, <2>3, <3>1 DEF EnqueueAttemptRecord
  <2>4. ASSUME NEW c \in Clients, LoginFails(c) \/ LoginCommitFails(c) \/ LoginUnknown(c)
        PROVE  RecordsTyped'
    <3>1. login[c].pc = "allowed"
      BY <2>4 DEF LoginFails, LoginCommitFails, LoginUnknown
    <3>2. login[c].from \in Buckets
      BY <1>1, <3>1 DEF Idle
    <3> QED
      BY <2>3, <2>4, <3>2 DEF LoginFails, LoginCommitFails, LoginUnknown
  <2>5. ASSUME NEW task \in queue, RecordAttempt(task) PROVE RecordsTyped'
    <3>1. task.n \in Nat /\ task.from \in Buckets
      BY <1>1 DEF Task
    <3>2. rows' \subseteq Attempt
      BY <1>1, <2>2, <2>5, <3>1 DEF RecordAttempt
    <3> QED
      BY <1>1, <2>5, <3>2 DEF RecordAttempt
  <2>6. ASSUME NEW task \in queue, RecordLost(task) PROVE RecordsTyped'
    BY <1>1, <2>6 DEF RecordLost
  <2>7. CASE PurgeOlderThan
    BY <1>1, <2>7 DEF PurgeOlderThan
  <2>8. CASE Tick
    BY <1>1, <1>3, <2>8, LoginLockoutAssumption DEF Tick, Times
  <2>9. ASSUME NEW c \in Clients, CheckCounts(c) \/ LoginSucceeds(c) \/ \E b \in Buckets : CheckLock(c, b)
        PROVE  RecordsTyped'
    BY <2>1, <2>9 DEF CheckCounts, LoginSucceeds, CheckLock
  <2>10. CASE ClearLoginLockout \/ UNCHANGED vars
    BY <2>1, <2>10 DEF ClearLoginLockout, vars
  <2> QED
    BY <2>4, <2>5, <2>6, <2>7, <2>8, <2>9, <2>10 DEF Next
<1> QED
  BY <1>4, <1>5, <1>6

\* A step that adds no attempt and keeps each accounted for.
LEMMA AccountsKept ==
  ASSUME CountInv, TypeOK', attempted' = attempted, now' >= now, IsFiniteSet(rows'),
         lost' = 0 => /\ lost = 0
                      /\ \A a \in attempted : a.at + Window >= now' /\ Accounted(a) => Accounted(a)'
  PROVE  CountInv'
<1>1. /\ now \in Nat /\ now' \in Nat /\ Window \in Nat
      /\ \A a \in attempted : a.at \in Nat /\ a.at <= now
  BY AttemptsTyped, LoginLockoutAssumption DEF CountInv, TypeOK, Times
<1>2. \A a \in attempted : a.at <= now'
  BY <1>1
<1>3. ASSUME lost' = 0, NEW a \in attempted, a.at + Window >= now' PROVE Accounted(a)'
  <2>1. a.at + Window >= now
    BY <1>1, <1>3
  <2> QED
    BY <1>3, <2>1 DEF CountInv
<1> QED
  BY <1>2, <1>3 DEF CountInv

(***************************************************************************)
(* login.cpp: the write-behind record "Gives the gate accurate counts on   *)
(* the next attempt".  Where the recorder writes to the tenant's database  *)
(* (it does not in control mode), has caught up and lost nothing, the gate *)
(* counts every failure of the last window, for every window, purge age,   *)
(* number of clients and addresses.                                        *)
(***************************************************************************)
THEOREM CountsAlwaysComplete == RecorderOnTenant = TRUE => (Spec => []CountsAreComplete)
<1> SUFFICES ASSUME RecorderOnTenant = TRUE PROVE Spec => []CountsAreComplete
  OBVIOUS
<1>1. Init => CountInv
  <2> SUFFICES ASSUME Init PROVE CountInv
    OBVIOUS
  <2>1. TypeOK
    BY LoginLockoutAssumption DEF Init, TypeOK, Times
  <2> QED
    BY <2>1, FS_EmptySet DEF Init, CountInv
<1>2. ASSUME CountInv, [Next]_vars PROVE CountInv'
  <2>1. TypeOK' /\ now \in Nat
    BY <1>2, LockoutTyped, AttemptsTyped DEF CountInv
  <2>2. ASSUME UNCHANGED <<rows, attempted, queue, lost, now>> PROVE CountInv'
    BY <1>2, <2>1, <2>2, AccountsKept DEF Accounted, CountInv
  <2>3. ASSUME NEW c \in Clients, LoginFails(c) \/ LoginCommitFails(c) \/ LoginUnknown(c)
        PROVE  CountInv'
    <3>1. login[c].pc = "allowed"
      BY <2>3 DEF LoginFails, LoginCommitFails, LoginUnknown
    <3>2. login[c].from \in Buckets
      BY <1>2, <3>1 DEF CountInv, TypeOK, Idle
    <3> QED
      BY <1>2, <2>1, <2>3, <3>2, EnqueueKeepsCounts DEF LoginFails, LoginCommitFails, LoginUnknown
  <2>4. ASSUME NEW task \in queue, RecordAttempt(task) PROVE CountInv'
    <3> DEFINE new == [n |-> task.n, from |-> task.from, at |-> now]
    <3>1. new.n = task.n /\ new.from = task.from /\ new.at = now
      OBVIOUS
    <3>2. rows' = rows \cup {new} /\ queue' = queue \ {task} /\ UNCHANGED <<attempted, lost, now>>
      BY <2>4 DEF RecordAttempt
    <3> HIDE DEF new
    <3>3. IsFiniteSet(rows')
      BY <1>2, <3>2, FS_AddElement DEF CountInv
    <3>4. ASSUME NEW a \in attempted, Accounted(a) PROVE Accounted(a)'
      <4>1. a.at <= now
        BY <1>2 DEF CountInv
      <4>2. a.at \in Nat
        BY <1>2, AttemptsTyped DEF CountInv
      <4>3. CASE \E r \in rows : r.n = a.n /\ r.from = a.from /\ r.at >= a.at
        BY <3>2, <4>3 DEF Accounted
      <4>4. CASE task.n = a.n /\ task.from = a.from
        BY <2>1, <3>1, <3>2, <4>1, <4>2, <4>4 DEF Accounted
      <4>5. CASE \E x \in queue : x # task /\ x.n = a.n /\ x.from = a.from
        BY <3>2, <4>5 DEF Accounted
      <4> QED
        BY <3>4, <4>3, <4>4, <4>5 DEF Accounted
    <3> QED
      BY <1>2, <2>1, <3>2, <3>3, <3>4, AccountsKept
  <2>5. ASSUME NEW task \in queue, RecordLost(task) PROVE CountInv'
    <3>1. lost \in Nat /\ lost' = lost + 1 /\ attempted' = attempted /\ now' = now /\ rows' = rows
      BY <1>2, <2>5 DEF RecordLost, CountInv, TypeOK
    <3>2. lost' # 0 /\ now' >= now /\ IsFiniteSet(rows')
      BY <1>2, <2>1, <3>1 DEF CountInv
    <3> QED
      BY <1>2, <2>1, <3>1, <3>2, AccountsKept
  <2>6. CASE PurgeOlderThan
    <3>1. rows' = {r \in rows : r.at >= now - PurgeAge} /\ UNCHANGED <<attempted, queue, lost, now>>
      BY <2>6 DEF PurgeOlderThan
    <3>2. IsFiniteSet(rows')
      BY <1>2, <3>1, FS_Subset DEF CountInv
    <3>3. ASSUME NEW a \in attempted, a.at + Window >= now, Accounted(a) PROVE Accounted(a)'
      <4>1. ASSUME NEW r \in rows, r.n = a.n, r.from = a.from, r.at >= a.at PROVE r \in rows'
        <5>1. r.at \in Nat /\ a.at \in Nat /\ PurgeAge \in Nat /\ Window \in Nat /\ PurgeAge >= Window
          BY <1>2, AttemptsTyped, LoginLockoutAssumption DEF CountInv
        <5> QED
          BY <2>1, <3>1, <3>3, <4>1, <5>1
      <4> QED
        BY <3>1, <3>3, <4>1 DEF Accounted
    <3> QED
      BY <1>2, <2>1, <3>1, <3>2, <3>3, AccountsKept
  <2>7. CASE Tick
    <3>1. now' = now + 1 /\ UNCHANGED <<rows, attempted, queue, lost>>
      BY <2>7 DEF Tick
    <3>2. now' >= now
      BY <2>1, <3>1
    <3> QED
      BY <1>2, <2>1, <3>1, <3>2, AccountsKept DEF Accounted, CountInv
  <2>8. ASSUME NEW c \in Clients, CheckCounts(c) \/ LoginSucceeds(c) \/ \E b \in Buckets : CheckLock(c, b)
        PROVE  CountInv'
    BY <2>2, <2>8 DEF CheckCounts, LoginSucceeds, CheckLock
  <2>9. CASE ClearLoginLockout \/ UNCHANGED vars
    BY <2>2, <2>9 DEF ClearLoginLockout, vars
  <2> QED
    BY <1>2, <2>3, <2>4, <2>5, <2>6, <2>7, <2>8, <2>9 DEF Next
<1> QED
  BY <1>1, <1>2, CountsFollow, PTL DEF Spec

-----------------------------------------------------------------------------
(* The transactions on config_secrets *)

SealKeys == {DevKey, "A"}
Values == Stored \cup {Missing, Untouched}
TxType == [op : {"none", "migrate", "save", "update", "drop"},
           at : {"none", "delete", "insert", "update", "drop", "commit"},
           wait : {"no", "waiting", "missed"}, overlap : SUBSET Names,
           order : [Names -> Nat],
           todo : [Names -> Values],
           own : [Names -> Values]]
SrvType == [phase : {"down", "configured", "validated", "serving"},
            key : {Plain, DevKey, "A"}, prod : BOOLEAN, origin : BOOLEAN,
            proxy : BOOLEAN, mail : Texts]

GhostType == [latest : [Names -> Texts], excused : SUBSET Names, raw : SUBSET Names,
              sealer : {Plain, DevKey, "A"}, out : BOOLEAN, mode : BOOLEAN,
              moved : BOOLEAN, split : BOOLEAN]

\* The name whose turn it is, of what is still to write and its order.
Left(todo) == {n \in Names : todo[n] # Untouched}
First(todo, order) ==
  CHOOSE n \in Left(todo) : \A m \in Left(todo) : order[n] <= order[m]

\* Where a transaction stands: something is left exactly while a statement is to
\* come, and only the row between its DELETE and its INSERT is missing.
Progress(r) ==
  /\ r.wait # "no" => r.at \in {"delete", "update", "drop"}
  /\ r.at \in {"none", "commit"} <=> Left(r.todo) = {}
  /\ r.op = "none" <=> r.at = "none"
  /\ r.op = "none" => r.own = NoRows
  /\ r.op \in {"save", "migrate"} =>
       /\ r.at \in {"delete", "insert", "commit"}
       /\ \A n \in Names : r.own[n] = Missing => r.at = "insert" /\ n = First(r.todo, r.order)
       /\ \A n \in Names : r.todo[n] # Untouched => r.todo[n].key \in SealKeys
  /\ r.op \in {"update", "drop"} => r.at \in {r.op, "commit"}

\* Who runs what, and what each may write; a save in the order Writes gives it.
RegistryOrder == [n \in Names |-> IF n \in Slots THEN Registry[n] ELSE 0]
Typing(n) == [key : {Plain}, text : Typed[n]]
Purpose(w, r) ==
  /\ r.op = "migrate" => w \in Servers
  /\ r.op \in {"save", "update", "drop"} => w \in Editors
  /\ r.op = "save" =>
       /\ r.order = RegistryOrder
       /\ \A n \in Names \ Slots : r.todo[n] = Untouched /\ r.own[n] = Untouched
       /\ \A n \in Names : r.own[n] \in {Untouched, Missing} \/ r.own[n].key \in SealKeys
       /\ \A m, n \in Names : r.own[m] # Untouched /\ r.todo[n] # Untouched
                                 => r.order[m] <= r.order[n]
  /\ r.op = "update" => \A n \in Names : /\ r.todo[n] \in {Untouched} \cup Typing(n)
                                         /\ r.own[n] \in {Untouched} \cup Typing(n)
  /\ r.op = "drop" => \A n \in Names : /\ r.todo[n] \in {Untouched, Missing}
                                       /\ r.own[n] \in {Untouched, Missing}

\* A sealing pass under key k over rows: what it has not been overtaken on it
\* writes back as it is, and it leaves none of it in plaintext.
Sealing(r, k, committed) ==
  r.op = "migrate" =>
    /\ k \in SealKeys
    /\ \A n \in Names :
         /\ r.todo[n] # Untouched =>
              /\ r.todo[n].key = k
              /\ n \in r.overlap \/ r.todo[n].text = committed[n].text
         /\ r.own[n] \notin {Untouched, Missing} =>
              /\ r.own[n].key = k
              /\ n \in r.overlap \/ r.own[n].text = committed[n].text
         /\ ~IsEncrypted(committed[n]) =>
              n \in r.overlap \/ r.todo[n] # Untouched \/ r.own[n] # Untouched

\* A mail password: sealed, it is one somebody entered.
PassOK(s) == s.text \in {"", "pw", Prefixed} /\ (s.key # Plain => s.text # Prefixed)

GoodTx(w, r) ==
  /\ r \in TxType /\ Progress(r) /\ Purpose(w, r)
  /\ PassOK(r.todo[Password]) /\ PassOK(r.own[Password])
TxInv ==
  /\ tx \in [Writers -> TxType]
  /\ \A w \in Writers : GoodTx(w, tx[w])
Exclusive ==
  \A v, w \in Writers : \A n \in Names :
    tx[v].own[n] # Untouched /\ tx[w].own[n] # Untouched => v = w
SealInv ==
  \A p \in Servers :
    /\ srv[p].phase # "down" => srv[p].key \in SealKeys
    /\ tx[p].op = "migrate" => srv[p].phase = "validated"
    /\ Sealing(tx[p], srv[p].key, secrets)

RowsInv ==
  /\ secrets \in [Names -> Stored \cup {Missing}]
  /\ ghost \in GhostType
  /\ PassOK(secrets[Password])
  /\ secrets[Production].key \in {Plain, "missing", ghost.sealer}
  /\ SavesAreKept
  /\ PlaintextIsNewerThanSealing

ServersInv ==
  /\ srv \in [Servers -> SrvType]
  /\ ProductionIsGuarded
  /\ MailPasswordIsReal

\* The domain of a cookie of a server in that mode, while text is the website address.
Domain(prod, text) == IF prod = TRUE THEN text ELSE ""

\* What the domain of the cookies was taken from still stands.
CookieInv ==
  /\ jar \subseteq Cookies
  /\ ghost.moved = FALSE => \A c \in jar : c.domain = Domain(ghost.mode, secrets[Address].text)
  /\ SessionHasCsrf
  /\ LogoutClears

\* The cookies of an answer under way: whose turn has come, and all of one domain
\* unless the website address was written meanwhile.
CookiesMade(v) ==
  /\ \A c \in v.cookies : c.name \notin v.left
  /\ \A n \in AuthCookies \ v.left :
       v.op = "logout" \/ n = "csrft" => \E c \in v.cookies : c.name = n
  /\ v.op = "logout" /\ "csrft" \notin v.left => v.left = {}
VisitType == [op : {"login", "logout"}, on : Servers, left : SUBSET AuthCookies,
              cookies : SUBSET Cookies]
VisitInv ==
  visit # NoVisit =>
    /\ visit \in VisitType /\ CookiesMade(visit)
    /\ srv[visit.on].phase = "serving"
    /\ ghost.moved = FALSE \/ ghost.split = FALSE =>
         \A c \in visit.cookies : c.domain = Domain(srv[visit.on].prod, secrets[Address].text)

SInv ==
  /\ TxInv /\ Exclusive /\ SealInv /\ RowsInv /\ ServersInv
  /\ CookieInv /\ VisitInv
  /\ ops \in 0..MaxOps

-----------------------------------------------------------------------------
(* Lemmas about the helpers *)

LEMMA LeastNat ==
  ASSUME NEW S \in SUBSET Nat, S # {}
  PROVE  \E x \in S : \A y \in S : x <= y
<1> DEFINE R == OpToRel(<, Nat)
<1>1. IsWellFoundedOn(R, Nat)
  BY NatLessThanWellFounded
<1>2. \A x, y \in Nat : y < x => <<y, x>> \in R
  BY DEF OpToRel
<1> HIDE DEF R
<1>3. PICK x \in S : \A y \in S : ~(<<y, x>> \in R)
  BY <1>1, WFMin
<1>4. \A y \in S : ~(y < x)
  BY <1>2, <1>3
<1>5. \A y \in S : x <= y
  BY <1>4
<1> QED
  BY <1>5

LEMMA FirstIsLeast ==
  ASSUME NEW todo, NEW order \in [Names -> Nat], Left(todo) # {}
  PROVE  /\ First(todo, order) \in Left(todo)
         /\ \A m \in Left(todo) : order[First(todo, order)] <= order[m]
<1> DEFINE S == {order[n] : n \in Left(todo)}
<1>1. Left(todo) \subseteq Names
  BY DEF Left
<1>2. S \in SUBSET Nat /\ S # {}
  BY <1>1
<1>3. PICK x \in S : \A y \in S : x <= y
  BY <1>2, LeastNat
<1>4. PICK n \in Left(todo) : order[n] = x
  BY <1>3
<1>5. \A m \in Left(todo) : order[n] <= order[m]
  BY <1>3, <1>4
<1> QED
  BY <1>5 DEF First

LEMMA NameIsFirst ==
  ASSUME NEW w
  PROVE  /\ Pending(w) = Left(tx[w].todo)
         /\ Name(w) = First(tx[w].todo, tx[w].order)
BY DEF Pending, Left, Name, First

LEMMA Texting ==
  /\ {"", "w1", Sealed} \subseteq Texts
  /\ \A n \in Names : Typed[n] \subseteq Texts
  /\ {Production, Address, Password} \subseteq Names /\ Slots \subseteq Names
  /\ Typed[Password] = {"pw", Prefixed}
<1>1. {Production, Address, Password} \subseteq Names /\ Slots \subseteq Names
  BY DEF Names
<1>2. Typed[Password] = {"pw", Prefixed}
  <2>1. Password \in Names /\ Password # Production /\ Password # Address
    BY <1>1 DEF Production, Address, Password
  <2> DEFINE f(n) == CASE n = Production -> {"true", "false"}
                       [] n = Address    -> {"w2", Prefixed}
                       [] n = Password   -> {"pw", Prefixed}
                       [] OTHER          -> {"a"}
  <2>2. Typed[Password] = f(Password)
    BY <2>1 DEF Typed
  <2>3. f(Password) = {"pw", Prefixed}
    BY <2>1
  <2> QED
    BY <2>2, <2>3
<1>3. \A n \in Names : Typed[n] \subseteq Texts
  BY DEF Texts
<1> QED
  BY <1>1, <1>2, <1>3 DEF Texts

LEMMA Marks ==
  /\ Missing # Untouched /\ Missing \notin Stored /\ Untouched \notin Stored
  /\ Missing.key = "missing" /\ Untouched.key = "untouched"
  /\ Missing.text = "" /\ Untouched.text = ""
  /\ IsEncrypted(Missing)
BY DEF Missing, Untouched, Stored, IsEncrypted, Plain, DevKey
-----------------------------------------------------------------------------
(* One transaction moves *)

\* Transaction r takes no row another one holds.
Free(w, r) == \A n \in Names : r.own[n] # Untouched => tx[w].own[n] # Untouched \/ ~Held(n, w)

LEMMA TxMoves ==
  ASSUME TxInv, Exclusive, NEW w \in Writers, NEW r, GoodTx(w, r), Free(w, r),
         tx' = [tx EXCEPT ![w] = r]
  PROVE  TxInv' /\ Exclusive' /\ tx'[w] = r /\ \A v \in Writers \ {w} : tx'[v] = tx[v]
<1>1. r \in TxType
  BY DEF GoodTx
<1>2. tx' \in [Writers -> TxType] /\ tx'[w] = r /\ \A v \in Writers \ {w} : tx'[v] = tx[v]
  BY <1>1 DEF TxInv
<1>3. \A v \in Writers : GoodTx(v, tx'[v])
  BY <1>2 DEF TxInv
<1>4. TxInv'
  BY <1>2, <1>3 DEF TxInv, GoodTx, Progress, Purpose, PassOK
<1>5. ASSUME NEW v \in Writers, NEW u \in Writers, NEW n \in Names,
             tx'[v].own[n] # Untouched, tx'[u].own[n] # Untouched
      PROVE  v = u
  <2>1. CASE v # w /\ u # w
    BY <1>2, <1>5, <2>1 DEF Exclusive
  <2>2. ASSUME NEW x \in Writers \ {w}, r.own[n] # Untouched, tx[x].own[n] # Untouched
        PROVE FALSE
    BY <2>2 DEF Free, Held, Exclusive
  <2> QED
    BY <1>2, <1>5, <2>1, <2>2
<1>6. Exclusive'
  BY <1>5 DEF Exclusive
<1> QED
  BY <1>2, <1>4, <1>6

\* A statement of a transaction that waits: nothing but its wait changes.
LEMMA WaitsWell ==
  ASSUME TxInv, NEW w \in Writers, StatementWaits(w)
  PROVE  \E r : /\ tx' = [tx EXCEPT ![w] = r] /\ GoodTx(w, r) /\ Free(w, r)
                /\ r.op = tx[w].op /\ r.todo = tx[w].todo /\ r.own = tx[w].own
                /\ r.overlap = tx[w].overlap
<1> DEFINE q == [tx[w] EXCEPT !.wait = "waiting"]
<1>1. tx[w] \in TxType /\ GoodTx(w, tx[w])
  BY DEF TxInv
<1>2. /\ q \in TxType /\ q.op = tx[w].op /\ q.todo = tx[w].todo /\ q.own = tx[w].own
      /\ q.overlap = tx[w].overlap /\ q.order = tx[w].order /\ q.at = tx[w].at
  BY <1>1 DEF TxType
<1>3. tx' = [tx EXCEPT ![w] = q] /\ tx[w].at \in {"delete", "update", "drop"}
  BY DEF StatementWaits
<1> HIDE DEF q
<1>4. Progress(q) /\ Purpose(w, q)
  BY <1>1, <1>2, <1>3 DEF GoodTx, Progress, Purpose
<1>5. GoodTx(w, q)
  BY <1>1, <1>2, <1>4 DEF GoodTx
<1>6. Free(w, q)
  BY <1>2 DEF Free
<1> QED
  BY <1>2, <1>3, <1>5, <1>6

\* AddSecret's DELETE: the row it removes is missing until the INSERT.
LEMMA DeletesWell ==
  ASSUME TxInv, NEW w \in Writers, AddSecretDelete(w)
  PROVE  \E r : /\ tx' = [tx EXCEPT ![w] = r] /\ GoodTx(w, r) /\ Free(w, r)
                /\ r.op = tx[w].op /\ r.todo = tx[w].todo /\ r.overlap = tx[w].overlap
                /\ \A n \in Names : \/ r.own[n] = tx[w].own[n]
                                    \/ tx[w].todo[n] # Untouched /\ r.own[n] = Missing
<1> DEFINE N == Name(w)
<1> DEFINE o == [tx[w].own EXCEPT ![N] = IF Affects(w) THEN Missing ELSE @]
<1> DEFINE q == [tx[w] EXCEPT !.at = "insert", !.wait = "no", !.own = o]
<1>1. tx[w] \in TxType /\ GoodTx(w, tx[w]) /\ tx[w].at = "delete"
  BY DEF TxInv, AddSecretDelete, Runs
<1>2. N = First(tx[w].todo, tx[w].order) /\ N \in Left(tx[w].todo)
      /\ \A m \in Left(tx[w].todo) : tx[w].order[N] <= tx[w].order[m]
  BY <1>1, FirstIsLeast, NameIsFirst DEF GoodTx, Progress, TxType
<1>3. N \in Names /\ tx[w].todo[N] # Untouched
  BY <1>2 DEF Left
<1>4. o \in [Names -> Values]
  BY <1>1 DEF TxType, Values
<1>5. /\ q \in TxType /\ q.op = tx[w].op /\ q.todo = tx[w].todo /\ q.own = o
      /\ q.overlap = tx[w].overlap /\ q.order = tx[w].order /\ q.at = "insert" /\ q.wait = "no"
  <2> HIDE DEF o
  <2> QED
    BY <1>1, <1>4 DEF TxType
<1>6. tx' = [tx EXCEPT ![w] = q]
  BY <1>1 DEF AddSecretDelete, TxInv, TxType
<1>7. /\ \A n \in Names : n # N => o[n] = tx[w].own[n]
      /\ (o[N] = Missing /\ Affects(w)) \/ o[N] = tx[w].own[N]
  BY <1>1, <1>3 DEF TxType
<1> HIDE DEF q, o, N
<1>8. tx[w].op \in {"save", "migrate"}
  BY <1>1 DEF GoodTx, Progress, TxType
<1>9. Progress(q)
  BY <1>1, <1>2, <1>3, <1>5, <1>7, <1>8 DEF GoodTx, Progress
<1>10. Purpose(w, q)
  BY <1>1, <1>2, <1>3, <1>5, <1>7, <1>8 DEF GoodTx, Purpose, Left
<1>11. PassOK(o[Password])
  <2>1. PassOK(Missing) /\ Password \in Names
    BY Marks, Texting DEF PassOK, Prefixed
  <2> QED
    BY <1>1, <1>7, <2>1 DEF GoodTx
<1>12. GoodTx(w, q)
  BY <1>1, <1>5, <1>9, <1>10, <1>11 DEF GoodTx
<1>13. Affects(w) => ~Held(N, w)
  BY DEF AddSecretDelete, Runs, N
<1>14. Free(w, q)
  BY <1>5, <1>7, <1>13 DEF Free
<1>15. \A n \in Names : \/ q.own[n] = tx[w].own[n]
                        \/ tx[w].todo[n] # Untouched /\ q.own[n] = Missing
  BY <1>3, <1>5, <1>7
<1> QED
  BY <1>5, <1>6, <1>12, <1>14, <1>15

\* AddSecret's INSERT: the row it writes is the one that was to be written, and
\* the next name comes later in the order.
LEMMA InsertsWell ==
  ASSUME TxInv, NEW w \in Writers, AddSecretInsert(w)
  PROVE  \E r : /\ tx' = [tx EXCEPT ![w] = r] /\ GoodTx(w, r) /\ Free(w, r)
                /\ r.op = tx[w].op /\ r.overlap = tx[w].overlap
                /\ \A n \in Names :
                     \/ r.own[n] = tx[w].own[n] /\ r.todo[n] = tx[w].todo[n]
                     \/ /\ tx[w].todo[n] # Untouched
                        /\ r.own[n] = tx[w].todo[n] /\ r.todo[n] = Untouched
<1> DEFINE N == Name(w)
<1> DEFINE o == [tx[w].own EXCEPT ![N] = tx[w].todo[N]]
<1> DEFINE d == [tx[w].todo EXCEPT ![N] = Untouched]
<1> DEFINE a == IF Pending(w) = {N} THEN "commit" ELSE "delete"
<1> DEFINE q == [tx[w] EXCEPT !.at = a, !.todo = d, !.own = o]
<1>1. tx[w] \in TxType /\ GoodTx(w, tx[w]) /\ tx[w].at = "insert" /\ ~Held(N, w)
  BY DEF TxInv, AddSecretInsert
<1>2. N = First(tx[w].todo, tx[w].order) /\ N \in Left(tx[w].todo)
      /\ \A m \in Left(tx[w].todo) : tx[w].order[N] <= tx[w].order[m]
  BY <1>1, FirstIsLeast, NameIsFirst DEF GoodTx, Progress, TxType
<1>3. N \in Names /\ tx[w].todo[N] # Untouched
  BY <1>2 DEF Left
<1>4. o \in [Names -> Values] /\ d \in [Names -> Values] /\ a \in {"commit", "delete"}
  BY <1>1, <1>3 DEF TxType, Values
<1>5. /\ q \in TxType /\ q.op = tx[w].op /\ q.todo = d /\ q.own = o /\ q.wait = tx[w].wait
      /\ q.overlap = tx[w].overlap /\ q.order = tx[w].order /\ q.at = a
  <2> HIDE DEF o, d, a
  <2> QED
    BY <1>1, <1>4 DEF TxType
<1>6. tx' = [tx EXCEPT ![w] = q]
  BY <1>1 DEF AddSecretInsert, TxInv, TxType
<1>7. /\ \A n \in Names : n # N => o[n] = tx[w].own[n] /\ d[n] = tx[w].todo[n]
      /\ o[N] = tx[w].todo[N] /\ d[N] = Untouched
  BY <1>1, <1>3 DEF TxType
<1>8. a = "commit" <=> Left(d) = {}
  BY <1>2, <1>7, NameIsFirst DEF Left
<1> HIDE DEF q, o, d, a, N
<1>9. tx[w].op \in {"save", "migrate"} /\ tx[w].wait = "no"
  BY <1>1 DEF GoodTx, Progress, TxType
<1>10. Progress(q)
  <2>1. \A n \in Names : o[n] # Missing
    <3>1. \A n \in Names : tx[w].own[n] = Missing => n = N
      BY <1>1, <1>2, <1>9 DEF GoodTx, Progress
    <3>2. tx[w].todo[N].key \in SealKeys
      BY <1>1, <1>3, <1>9 DEF GoodTx, Progress
    <3>3. Missing.key \notin SealKeys
      BY Marks DEF SealKeys, DevKey
    <3> QED
      BY <1>7, <3>1, <3>2, <3>3
  <2>2. \A n \in Names : d[n] # Untouched => d[n].key \in SealKeys
    BY <1>1, <1>7, <1>9 DEF GoodTx, Progress
  <2> QED
    BY <1>4, <1>5, <1>8, <1>9, <2>1, <2>2 DEF Progress
<1>11. Purpose(w, q)
  <2>1. \A n \in Names : d[n] # Untouched => n \in Left(tx[w].todo)
    BY <1>7 DEF Left
  <2>2. tx[w].todo[N].key \in SealKeys
    BY <1>1, <1>3, <1>9 DEF GoodTx, Progress
  <2>3. Purpose(w, tx[w])
    BY <1>1 DEF GoodTx
  <2>4. tx[w].op = "save" => N \in Slots
    BY <1>3, <2>3 DEF Purpose
  <2> QED
    BY <1>2, <1>3, <1>5, <1>7, <1>9, <2>1, <2>2, <2>3, <2>4 DEF Purpose
<1>12. PassOK(o[Password]) /\ PassOK(d[Password])
  <2>1. PassOK(Untouched) /\ Password \in Names
    BY Marks, Texting DEF PassOK, Prefixed
  <2> QED
    BY <1>1, <1>7, <2>1 DEF GoodTx
<1>13. GoodTx(w, q)
  BY <1>5, <1>10, <1>11, <1>12 DEF GoodTx
<1>14. Free(w, q)
  BY <1>1, <1>5, <1>7 DEF Free
<1>15. \A n \in Names : \/ q.own[n] = tx[w].own[n] /\ q.todo[n] = tx[w].todo[n]
                        \/ /\ tx[w].todo[n] # Untouched
                           /\ q.own[n] = tx[w].todo[n] /\ q.todo[n] = Untouched
  BY <1>3, <1>5, <1>7
<1> QED
  BY <1>5, <1>6, <1>13, <1>14, <1>15

\* An operator's statement writes one row or none, and is the last.
LEMMA OperatesWell ==
  ASSUME TxInv, NEW w \in Writers, OperatorStatement(w)
  PROVE  \E r : /\ tx' = [tx EXCEPT ![w] = r] /\ GoodTx(w, r) /\ Free(w, r)
                /\ r.op = tx[w].op /\ r.op \in {"update", "drop"}
<1> DEFINE N == Name(w)
<1> DEFINE o == [tx[w].own EXCEPT ![N] = IF Affects(w) THEN tx[w].todo[N] ELSE @]
<1> DEFINE q == [tx[w] EXCEPT !.at = "commit", !.wait = "no", !.todo = NoRows, !.own = o]
<1>1. tx[w] \in TxType /\ GoodTx(w, tx[w]) /\ tx[w].at \in {"update", "drop"}
      /\ (Affects(w) => ~Held(N, w))
  BY DEF TxInv, OperatorStatement, Runs
<1>2. N = First(tx[w].todo, tx[w].order) /\ N \in Left(tx[w].todo)
  BY <1>1, FirstIsLeast, NameIsFirst DEF GoodTx, Progress, TxType
<1>3. N \in Names
  BY <1>2 DEF Left
<1>4. o \in [Names -> Values] /\ NoRows \in [Names -> Values] /\ Left(NoRows) = {}
  BY <1>1, <1>3 DEF TxType, Values, NoRows, Left
<1>5. /\ q \in TxType /\ q.op = tx[w].op /\ q.todo = NoRows /\ q.own = o /\ q.wait = "no"
      /\ q.overlap = tx[w].overlap /\ q.order = tx[w].order /\ q.at = "commit"
  <2> HIDE DEF o
  <2> QED
    BY <1>1, <1>4 DEF TxType
<1>6. tx' = [tx EXCEPT ![w] = q]
  BY <1>1 DEF OperatorStatement, TxInv, TxType
<1>7. /\ \A n \in Names : o[n] = tx[w].own[n] \/ (n = N /\ Affects(w) /\ o[n] = tx[w].todo[n])
      /\ \A n \in Names : NoRows[n] = Untouched
  BY <1>1, <1>3 DEF TxType, NoRows
<1> HIDE DEF q, o, N
<1>8. tx[w].op \in {"update", "drop"}
  BY <1>1 DEF GoodTx, Progress, TxType
<1>9. Progress(q)
  BY <1>4, <1>5, <1>8 DEF Progress
<1>10. Purpose(w, q)
  <2>1. Purpose(w, tx[w])
    BY <1>1 DEF GoodTx
  <2> QED
    BY <1>5, <1>7, <1>8, <2>1 DEF Purpose
<1>11. PassOK(o[Password]) /\ PassOK(NoRows[Password])
  <2>1. PassOK(Untouched) /\ Password \in Names
    BY Marks, Texting DEF PassOK, Prefixed
  <2> QED
    BY <1>1, <1>7, <2>1 DEF GoodTx
<1>12. GoodTx(w, q)
  BY <1>5, <1>9, <1>10, <1>11 DEF GoodTx
<1>13. Free(w, q)
  BY <1>1, <1>5, <1>7 DEF Free
<1> QED
  BY <1>5, <1>6, <1>8, <1>12, <1>13

\* A transaction that ends holds nothing.
LEMMA NoTxIsGood ==
  ASSUME NEW w
  PROVE  GoodTx(w, NoTx) /\ Free(w, NoTx) /\ NoTx.op = "none" /\ NoTx.own = NoRows
         /\ NoTx.todo = NoRows
<1>1. NoRows \in [Names -> Values] /\ Unordered \in [Names -> Nat] /\ Left(NoRows) = {}
      /\ \A n \in Names : NoRows[n] = Untouched
  BY DEF NoRows, Unordered, Values, Left
<1>2. /\ NoTx \in TxType /\ NoTx.op = "none" /\ NoTx.own = NoRows /\ NoTx.todo = NoRows
      /\ NoTx.at = "none" /\ NoTx.wait = "no"
  BY <1>1 DEF NoTx, TxType
<1>3. Progress(NoTx) /\ Purpose(w, NoTx)
  BY <1>1, <1>2 DEF Progress, Purpose
<1>4. PassOK(Untouched) /\ Password \in Names
  BY Marks, Texting DEF PassOK, Prefixed
<1> QED
  BY <1>1, <1>2, <1>3, <1>4 DEF GoodTx, Free

\* The transaction that begins.
Beginning(op, todo, order, at) ==
  [NoTx EXCEPT !.op = op, !.todo = todo, !.order = order,
               !.at = IF todo = NoRows THEN "commit" ELSE at]

\* What a transaction may begin with.
MayBegin(w, op, todo, order, at) ==
  /\ op \in {"migrate", "save", "update", "drop"} /\ at \in {"delete", "update", "drop"}
  /\ todo \in [Names -> Values] /\ order \in [Names -> Nat]
  /\ op \in {"save", "migrate"} =>
       at = "delete" /\ \A n \in Names : todo[n] # Untouched => todo[n].key \in SealKeys
  /\ op \in {"update", "drop"} => at = op
  /\ op = "migrate" => w \in Servers
  /\ op \in {"save", "update", "drop"} => w \in Editors
  /\ op = "save" => order = RegistryOrder /\ \A n \in Names \ Slots : todo[n] = Untouched
  /\ op = "update" => \A n \in Names : todo[n] \in {Untouched} \cup Typing(n)
  /\ op = "drop" => \A n \in Names : todo[n] \in {Untouched, Missing}
  /\ PassOK(todo[Password])

LEMMA BeginsWell ==
  ASSUME NEW w, NEW op, NEW todo, NEW order, NEW at, MayBegin(w, op, todo, order, at)
  PROVE  /\ GoodTx(w, Beginning(op, todo, order, at)) /\ Free(w, Beginning(op, todo, order, at))
         /\ Beginning(op, todo, order, at).op = op
         /\ Beginning(op, todo, order, at).todo = todo
         /\ Beginning(op, todo, order, at).own = NoRows
<1> USE DEF MayBegin
<1> DEFINE a == IF todo = NoRows THEN "commit" ELSE at
<1> DEFINE q == [NoTx EXCEPT !.op = op, !.todo = todo, !.order = order, !.at = a]
<1>1. q = Beginning(op, todo, order, at)
  BY DEF Beginning
<1>2. NoRows \in [Names -> Values] /\ Unordered \in [Names -> Nat]
      /\ \A n \in Names : NoRows[n] = Untouched
  BY DEF NoRows, Unordered, Values, Left
<1>3. a \in {"commit", at} /\ (a = "commit" <=> Left(todo) = {})
  BY DEF NoRows, Left
<1>4. /\ q \in TxType /\ q.op = op /\ q.todo = todo /\ q.order = order /\ q.at = a
      /\ q.own = NoRows /\ q.wait = "no"
  <2> HIDE DEF a
  <2> QED
    BY <1>2, <1>3 DEF NoTx, TxType
<1> HIDE DEF q, a
<1>5. Missing # Untouched
  BY Marks
<1>6. Progress(q)
  BY <1>2, <1>3, <1>4, <1>5 DEF Progress
<1>7. Purpose(w, q)
  BY <1>2, <1>4, <1>5 DEF Purpose
<1>8. PassOK(Untouched) /\ Password \in Names
  BY Marks, Texting DEF PassOK, Prefixed
<1>9. GoodTx(w, q)
  BY <1>2, <1>4, <1>6, <1>7, <1>8 DEF GoodTx
<1>10. Free(w, q)
  BY <1>2, <1>4 DEF Free
<1> QED
  BY <1>1, <1>4, <1>9, <1>10

-----------------------------------------------------------------------------
(* Parts of the invariant that a step leaves alone *)

LEMMA TxKept ==
  ASSUME TxInv, Exclusive, UNCHANGED tx
  PROVE  TxInv' /\ Exclusive'
<1>1. \A w \in Writers : GoodTx(w, tx'[w])
  BY DEF TxInv
<1>2. TxInv'
  BY <1>1 DEF TxInv, GoodTx, Progress, Purpose, PassOK
<1>3. Exclusive'
  BY DEF Exclusive
<1> QED
  BY <1>2, <1>3

LEMMA SealKept ==
  ASSUME SealInv, UNCHANGED <<tx, srv, secrets>>
  PROVE  SealInv'
BY DEF SealInv, Sealing, IsEncrypted

LEMMA RowsKept ==
  ASSUME RowsInv, UNCHANGED <<secrets, ghost>>
  PROVE  RowsInv'
BY DEF RowsInv, PassOK, SavesAreKept, PlaintextIsNewerThanSealing, IsEncrypted

LEMMA ServersKept ==
  ASSUME ServersInv, UNCHANGED srv
  PROVE  ServersInv'
BY DEF ServersInv, ProductionIsGuarded, MailPasswordIsReal, CloudFrontOriginGuard, Paths

LEMMA CookiesKept ==
  ASSUME CookieInv, UNCHANGED <<jar, ghost, secrets>>
  PROVE  CookieInv'
BY DEF CookieInv, SessionHasCsrf, LogoutClears, Domain

LEMMA VisitKept ==
  ASSUME VisitInv, UNCHANGED visit,
         visit # NoVisit =>
           /\ srv'[visit.on].phase = "serving" /\ srv'[visit.on].prod = srv[visit.on].prod
           /\ ghost'.moved = FALSE => ghost.moved = FALSE /\ secrets'[Address] = secrets[Address]
           /\ ghost'.split = FALSE => ghost.split = FALSE /\ secrets'[Address] = secrets[Address]
  PROVE  VisitInv'
<1>1. CASE visit = NoVisit
  BY <1>1 DEF VisitInv
<1>2. CASE visit # NoVisit
  <2>1. visit' \in VisitType /\ CookiesMade(visit') /\ srv'[visit'.on].phase = "serving"
    BY <1>2 DEF VisitInv
  <2>2. ghost'.moved = FALSE \/ ghost'.split = FALSE =>
          \A c \in visit'.cookies : c.domain = Domain(srv'[visit'.on].prod, secrets'[Address].text)
    BY <1>2 DEF VisitInv
  <2> QED
    BY <2>1, <2>2 DEF VisitInv, CookiesMade
<1> QED
  BY <1>1, <1>2

\* A transaction moves under servers that stand.
LEMMA TxStepKeeps ==
  ASSUME SInv, NEW w \in Writers, NEW r, GoodTx(w, r), Free(w, r),
         tx' = [tx EXCEPT ![w] = r], UNCHANGED <<secrets, srv, jar, visit, ghost>>,
         ops' \in 0..MaxOps,
         w \in Servers => /\ r.op = "migrate" => srv[w].phase = "validated"
                          /\ Sealing(r, srv[w].key, secrets)
  PROVE  SInv'
<1>1. TxInv' /\ Exclusive' /\ tx'[w] = r /\ \A v \in Writers \ {w} : tx'[v] = tx[v]
  BY TxMoves DEF SInv
<1>2. SealInv'
  <2>1. ASSUME NEW p \in Servers
        PROVE  /\ srv[p].phase # "down" => srv[p].key \in SealKeys
               /\ tx'[p].op = "migrate" => srv[p].phase = "validated"
               /\ Sealing(tx'[p], srv[p].key, secrets)
    BY <1>1 DEF SInv, SealInv, Writers
  <2> QED
    BY <2>1 DEF SealInv, Sealing
<1>3. VisitInv'
  BY VisitKept DEF SInv, VisitInv
<1>4. RowsInv' /\ ServersInv' /\ CookieInv'
  BY RowsKept, ServersKept, CookiesKept DEF SInv
<1> QED
  BY <1>1, <1>2, <1>3, <1>4 DEF SInv

\* A server that is not serving answers nobody.
LEMMA AnswersNobody ==
  ASSUME VisitInv, NEW p \in Servers, srv[p].phase # "serving"
  PROVE  visit # NoVisit => visit.on # p /\ visit.on \in Servers
BY DEF VisitInv, VisitType

\* A server has a transaction open only while it seals the rows.
LEMMA SealsOnly ==
  ASSUME SInv, NEW w \in Servers, tx[w].op # "none"
  PROVE  tx[w].op = "migrate" /\ srv[w].phase = "validated"
<1>1. w \in Writers /\ w \notin Editors
  BY SettingsAssumption DEF SettingsAssumption, Writers
<1>2. Purpose(w, tx[w]) /\ tx[w] \in TxType
  BY <1>1 DEF SInv, TxInv, GoodTx
<1>3. tx[w].op = "migrate"
  BY <1>1, <1>2 DEF Purpose, TxType
<1> QED
  BY <1>3 DEF SInv, SealInv

LEMMA RollBackKeeps ==
  ASSUME SInv, NEW w \in Writers, tx[w].op # "none", RollBack(w)
  PROVE  SInv'
<1>1. TxInv' /\ Exclusive' /\ tx'[w] = NoTx /\ \A v \in Writers \ {w} : tx'[v] = tx[v]
  BY TxMoves, NoTxIsGood DEF SInv, RollBack, Ended
<1>2. /\ srv' \in [Servers -> SrvType]
      /\ \A p \in Servers : srv'[p] = IF p = w THEN Down ELSE srv[p]
  <2>1. Down \in SrvType
    BY Texting DEF Down, SrvType
  <2> QED
    BY <2>1 DEF RollBack, SInv, ServersInv
<1>3. Down.phase = "down" /\ Down.mail = "" /\ NoTx.op = "none"
  BY NoTxIsGood DEF Down
<1>4. SealInv'
  <2>1. ASSUME NEW p \in Servers
        PROVE  /\ srv'[p].phase # "down" => srv'[p].key \in SealKeys
               /\ tx'[p].op = "migrate" => srv'[p].phase = "validated"
               /\ Sealing(tx'[p], srv'[p].key, secrets)
    <3>1. CASE p = w
      <4>1. \A k, c : Sealing(NoTx, k, c)
        BY <1>3 DEF Sealing
      <4> QED
        BY <1>1, <1>2, <1>3, <3>1, <4>1
    <3>2. CASE p # w
      BY <1>1, <1>2, <3>2 DEF SInv, SealInv, Writers
    <3> QED
      BY <3>1, <3>2
  <2> QED
    BY <2>1 DEF SealInv, Sealing, RollBack
<1>5. ServersInv'
  BY <1>2, <1>3 DEF SInv, ServersInv, ProductionIsGuarded, MailPasswordIsReal,
                    CloudFrontOriginGuard, Paths
<1>6. VisitInv'
  <2>1. ASSUME visit # NoVisit PROVE srv'[visit.on] = srv[visit.on]
    <3>1. visit.on \in Servers
      BY <2>1 DEF SInv, VisitInv, VisitType
    <3>2. visit.on # w
      BY <2>1, <3>1, SealsOnly, AnswersNobody DEF SInv
    <3> QED
      BY <1>2, <3>1, <3>2
  <2>2. UNCHANGED <<visit, secrets, ghost>> /\ VisitInv
    BY DEF RollBack, SInv
  <2>3. visit # NoVisit => srv[visit.on].phase = "serving"
    BY DEF SInv, VisitInv
  <2> QED
    BY <2>1, <2>2, <2>3, VisitKept
<1> QED
  BY <1>1, <1>4, <1>5, <1>6, RowsKept, CookiesKept DEF SInv, RollBack

-----------------------------------------------------------------------------
(* The steps of a transaction *)

LEMMA StatementKeeps ==
  ASSUME SInv, NEW w \in Writers,
         StatementWaits(w) \/ AddSecretDelete(w) \/ AddSecretInsert(w) \/ OperatorStatement(w)
  PROVE  SInv'
<1>1. UNCHANGED <<secrets, srv, jar, visit, ghost>> /\ ops' \in 0..MaxOps
  BY DEF StatementWaits, AddSecretDelete, AddSecretInsert, OperatorStatement, SInv
<1>2. /\ TxInv
      /\ w \in Servers => /\ tx[w].op = "migrate" => srv[w].phase = "validated"
                          /\ Sealing(tx[w], srv[w].key, secrets)
  BY DEF SInv, SealInv
<1>3. ASSUME StatementWaits(w) PROVE SInv'
  <2>1. PICK r : /\ tx' = [tx EXCEPT ![w] = r] /\ GoodTx(w, r) /\ Free(w, r)
                 /\ r.op = tx[w].op /\ r.todo = tx[w].todo /\ r.own = tx[w].own
                 /\ r.overlap = tx[w].overlap
    BY <1>2, <1>3, WaitsWell
  <2>2. Sealing(tx[w], srv[w].key, secrets) => Sealing(r, srv[w].key, secrets)
    BY <2>1 DEF Sealing
  <2> QED
    BY <1>1, <1>2, <2>1, <2>2, TxStepKeeps
<1>4. ASSUME AddSecretDelete(w) PROVE SInv'
  <2>1. PICK r : /\ tx' = [tx EXCEPT ![w] = r] /\ GoodTx(w, r) /\ Free(w, r)
                 /\ r.op = tx[w].op /\ r.todo = tx[w].todo /\ r.overlap = tx[w].overlap
                 /\ \A n \in Names : \/ r.own[n] = tx[w].own[n]
                                     \/ tx[w].todo[n] # Untouched /\ r.own[n] = Missing
    BY <1>2, <1>4, DeletesWell
  <2>2. Sealing(tx[w], srv[w].key, secrets) => Sealing(r, srv[w].key, secrets)
    BY <2>1, Marks DEF Sealing
  <2> QED
    BY <1>1, <1>2, <2>1, <2>2, TxStepKeeps
<1>5. ASSUME AddSecretInsert(w) PROVE SInv'
  <2>1. PICK r : /\ tx' = [tx EXCEPT ![w] = r] /\ GoodTx(w, r) /\ Free(w, r)
                 /\ r.op = tx[w].op /\ r.overlap = tx[w].overlap
                 /\ \A n \in Names :
                      \/ r.own[n] = tx[w].own[n] /\ r.todo[n] = tx[w].todo[n]
                      \/ /\ tx[w].todo[n] # Untouched
                         /\ r.own[n] = tx[w].todo[n] /\ r.todo[n] = Untouched
    BY <1>2, <1>5, InsertsWell
  <2>2. Sealing(tx[w], srv[w].key, secrets) => Sealing(r, srv[w].key, secrets)
    BY <2>1, Marks DEF Sealing
  <2> QED
    BY <1>1, <1>2, <2>1, <2>2, TxStepKeeps
<1>6. ASSUME OperatorStatement(w) PROVE SInv'
  <2>1. PICK r : /\ tx' = [tx EXCEPT ![w] = r] /\ GoodTx(w, r) /\ Free(w, r)
                 /\ r.op = tx[w].op /\ r.op \in {"update", "drop"}
    BY <1>2, <1>6, OperatesWell
  <2>2. Sealing(r, srv[w].key, secrets) /\ r.op # "migrate"
    BY <2>1 DEF Sealing
  <2> QED
    BY <1>1, <2>1, <2>2, TxStepKeeps
<1> QED
  BY <1>3, <1>4, <1>5, <1>6

LEMMA OpsCounted ==
  ASSUME ops \in 0..MaxOps, Counted \/ ops' = ops
  PROVE  ops' \in 0..MaxOps
<1>1. MaxOps \in Nat
  BY SettingsAssumption DEF SettingsAssumption
<1> QED
  BY <1>1 DEF Counted

LEMMA OrdersAreTyped ==
  ASSUME NEW S, IsFiniteSet(S), NEW f \in Orders(S)
  PROVE  DOMAIN f = S /\ \A n \in S : f[n] \in Nat
<1>1. Cardinality(S) \in Nat
  BY FS_CardinalityType
<1>2. f \in [S -> 1..Cardinality(S)]
  BY DEF Orders
<1> QED
  BY <1>1, <1>2

LEMMA SaveKeeps ==
  ASSUME SInv, NEW w \in Editors, NEW p \in Servers,
         NEW names \in (SUBSET Slots) \ {{}}, NEW request \in Orders(names),
         AddSecrets(w, p, request)
  PROVE  SInv'
<1>1. w \in Writers /\ w \notin Servers
  BY SettingsAssumption DEF SettingsAssumption, Writers
<1>2. Counted => ops' \in 0..MaxOps
  BY OpsCounted DEF SInv
<1> DEFINE d == [n \in Names |-> IF n \in DOMAIN request THEN Encrypt(srv[p].key, "a")
                                 ELSE Untouched]
<1>3. DOMAIN request = names /\ names \subseteq Slots
  BY DEF Orders
<1>4. srv[p].key \in SealKeys
  BY DEF AddSecrets, SInv, SealInv
<1>5. RegistryOrder \in [Names -> Nat]
  <2>1. \A n \in Slots : Registry[n] \in Nat
    BY SettingsAssumption, OrdersAreTyped DEF SettingsAssumption
  <2> QED
    BY <2>1 DEF RegistryOrder
<1>6. /\ d \in [Names -> Values]
      /\ \A n \in Names : d[n] # Untouched => d[n].key \in SealKeys
      /\ \A n \in Names \ Slots : d[n] = Untouched
  <2>1. "a" \in Texts
    <3>5. names # {}
      OBVIOUS
    <3>1. PICK n : n \in names
      BY <3>5
    <3>2. n \in Names /\ n # Production /\ n # Address /\ n # Password
      BY SettingsAssumption, <1>3, <3>1 DEF SettingsAssumption, Names
    <3> DEFINE f(m) == CASE m = Production -> {"true", "false"}
                         [] m = Address    -> {"w2", Prefixed}
                         [] m = Password   -> {"pw", Prefixed}
                         [] OTHER          -> {"a"}
    <3>3. Typed[n] = f(n)
      BY <3>2 DEF Typed
    <3>4. f(n) = {"a"}
      BY <3>2
    <3> QED
      BY <3>2, <3>3, <3>4, Texting
  <2>2. Encrypt(srv[p].key, "a") \in Stored /\ Encrypt(srv[p].key, "a").key \in SealKeys
    BY <1>4, <2>1 DEF Encrypt, Stored, SealKeys
  <2> HIDE DEF Encrypt
  <2> QED
    BY <1>3, <2>2 DEF Values
<1>7. PassOK(d[Password])
  <2>1. d[Password] = Untouched /\ Password \in Names
    BY SettingsAssumption, <1>3, Texting DEF SettingsAssumption
  <2> QED
    BY <2>1, Marks DEF PassOK, Prefixed
<1>8. /\ tx' = [tx EXCEPT ![w] = Beginning("save", d, RegistryOrder, "delete")]
      /\ ops' \in 0..MaxOps /\ UNCHANGED <<secrets, srv, jar, visit, ghost>>
  BY <1>2, <1>3 DEF AddSecrets, Begin, Beginning, Writes, RegistryOrder
<1> HIDE DEF d
<1>9. MayBegin(w, "save", d, RegistryOrder, "delete")
  BY <1>5, <1>6, <1>7 DEF MayBegin
<1>10. /\ GoodTx(w, Beginning("save", d, RegistryOrder, "delete"))
      /\ Free(w, Beginning("save", d, RegistryOrder, "delete"))
  BY <1>9, BeginsWell
<1> QED
  BY <1>1, <1>8, <1>10, TxStepKeeps

LEMMA EditKeeps ==
  ASSUME SInv, NEW w \in Editors, NEW n \in {Production, Address, Password}, NEW s,
         s = Missing \/ s \in Typing(n), OperatorEdits(w, n, s)
  PROVE  SInv'
<1>1. w \in Writers /\ w \notin Servers
  BY SettingsAssumption DEF SettingsAssumption, Writers
<1>2. Counted => ops' \in 0..MaxOps
  BY OpsCounted DEF SInv
<1> DEFINE op == IF s = Missing THEN "drop" ELSE "update"
<1> DEFINE d == [NoRows EXCEPT ![n] = s]
<1>3. n \in Names /\ Password \in Names
  BY Texting
<1>4. Missing \notin Typing(n) /\ Missing # Untouched /\ Typing(n) \subseteq Stored
  BY <1>3, Marks, Texting DEF Typing, Stored, Plain
<1>5. d \in [Names -> Values] /\ \A m \in Names : d[m] = IF m = n THEN s ELSE Untouched
  BY <1>3, <1>4 DEF NoRows, Values
<1>6. PassOK(d[Password])
  <2>1. PassOK(Untouched) /\ PassOK(Missing)
    BY Marks DEF PassOK, Prefixed
  <2>2. \A x \in Typing(Password) : PassOK(x)
    BY Texting DEF Typing, PassOK
  <2> QED
    BY <1>3, <1>5, <2>1, <2>2
<1>7. /\ op = "update" => \A m \in Names : d[m] \in {Untouched} \cup Typing(m)
      /\ op = "drop" => \A m \in Names : d[m] \in {Untouched, Missing}
  BY <1>5
<1>8. /\ tx' = [tx EXCEPT ![w] = Beginning(op, d, Unordered, op)]
      /\ ops' \in 0..MaxOps /\ UNCHANGED <<secrets, srv, jar, visit, ghost>>
  BY <1>2, <1>4 DEF OperatorEdits, Begin, Beginning
<1>9. op \in {"update", "drop"} /\ Unordered \in [Names -> Nat]
  BY DEF Unordered
<1> HIDE DEF d, op
<1>10. MayBegin(w, op, d, Unordered, op)
  BY <1>5, <1>6, <1>7, <1>9 DEF MayBegin
<1>11. /\ GoodTx(w, Beginning(op, d, Unordered, op))
      /\ Free(w, Beginning(op, d, Unordered, op))
  BY <1>10, BeginsWell
<1> QED
  BY <1>1, <1>8, <1>11, TxStepKeeps

-----------------------------------------------------------------------------
(* COMMIT *)

\* What the others see of a commit: a wait that ends, and rows that changed
\* under a sealing pass.
LEMMA CommitOthers ==
  ASSUME TxInv, Exclusive, NEW w \in Writers, Commit(w)
  PROVE  /\ TxInv' /\ Exclusive' /\ tx'[w] = NoTx
         /\ \A v \in Writers \ {w} :
              /\ tx'[v].op = tx[v].op /\ tx'[v].todo = tx[v].todo /\ tx'[v].own = tx[v].own
              /\ tx[v].op = "migrate" => tx'[v].overlap = tx[v].overlap \cup Touched(w)
<1> DEFINE waits(v) == IF tx[v].wait = "waiting" /\ Name(v) \in Touched(w)
                       THEN IF tx[w].op = "update" THEN "no" ELSE "missed" ELSE tx[v].wait
<1> DEFINE over(v) == IF tx[v].op = "migrate" THEN tx[v].overlap \cup Touched(w)
                      ELSE tx[v].overlap
<1> DEFINE q(v) == [tx[v] EXCEPT !.wait = waits(v), !.overlap = over(v)]
<1>1. tx' = [v \in Writers |-> IF v = w THEN NoTx ELSE q(v)]
  BY DEF Commit
<1>2. \A v \in Writers : tx[v] \in TxType /\ GoodTx(v, tx[v])
  BY DEF TxInv
<1>3. \A v \in Writers :
        /\ waits(v) \in {"no", "waiting", "missed"} /\ (tx[v].wait = "no" => waits(v) = "no")
        /\ over(v) \in SUBSET Names
  BY <1>2 DEF TxType, Touched
<1> HIDE DEF waits, over
<1>4. \A v \in Writers :
        /\ q(v) \in TxType /\ q(v).op = tx[v].op /\ q(v).todo = tx[v].todo
        /\ q(v).own = tx[v].own /\ q(v).order = tx[v].order /\ q(v).at = tx[v].at
        /\ q(v).wait = waits(v) /\ q(v).overlap = over(v)
  BY <1>2, <1>3 DEF TxType
<1> HIDE DEF q
<1>5. ASSUME NEW v \in Writers PROVE GoodTx(v, q(v))
  <2>1. PICK r : r = q(v)
    OBVIOUS
  <2>2. /\ r \in TxType /\ r.op = tx[v].op /\ r.todo = tx[v].todo
        /\ r.own = tx[v].own /\ r.order = tx[v].order /\ r.at = tx[v].at
        /\ tx[v].wait = "no" => r.wait = "no"
    BY <1>3, <1>4, <2>1
  <2>3. Progress(r) /\ Purpose(v, r)
    BY <1>2, <2>2 DEF GoodTx, Progress, Purpose
  <2> QED
    BY <1>2, <2>1, <2>2, <2>3 DEF GoodTx
<1>6. \A v \in Writers : tx'[v] = IF v = w THEN NoTx ELSE q(v)
  BY <1>1
<1>7. NoTx \in TxType /\ \A v \in Writers : GoodTx(v, tx'[v])
  BY <1>5, <1>6, NoTxIsGood DEF GoodTx
<1>8. TxInv'
  <2>1. tx' \in [Writers -> TxType]
    BY <1>1, <1>4, <1>7
  <2> QED
    BY <1>7, <2>1 DEF TxInv, GoodTx, Progress, Purpose, PassOK
<1>9. Exclusive'
  <2>1. \A v \in Writers : tx'[v].own = tx[v].own \/ tx'[v].own = NoRows
    BY <1>4, <1>6, NoTxIsGood
  <2>2. \A n \in Names : NoRows[n] = Untouched
    BY DEF NoRows
  <2> QED
    BY <2>1, <2>2 DEF Exclusive
<1>10. \A v \in Writers \ {w} : tx[v].op = "migrate" => over(v) = tx[v].overlap \cup Touched(w)
  BY DEF over
<1> QED
  BY <1>4, <1>6, <1>8, <1>9, <1>10

\* What a commit writes.
LEMMA CommitWrites ==
  ASSUME TxInv, NEW w \in Writers, Commit(w),
         secrets \in [Names -> Stored \cup {Missing}]
  PROVE  /\ secrets' \in [Names -> Stored \cup {Missing}]
         /\ \A n \in Names : secrets'[n] = IF n \in Touched(w) THEN tx[w].own[n] ELSE secrets[n]
         /\ tx[w].op \in {"save", "migrate", "update", "drop"}
         /\ Left(tx[w].todo) = {}
         /\ tx[w].op \in {"save", "migrate"} => \A n \in Touched(w) : tx[w].own[n] # Missing
<1>1. tx[w] \in TxType /\ GoodTx(w, tx[w]) /\ tx[w].at = "commit"
  BY DEF TxInv, Commit
<1>2. \A n \in Touched(w) : n \in Names /\ tx[w].own[n] \in Stored \cup {Missing}
  BY <1>1 DEF TxType, Touched, Values
<1>3. secrets' = [n \in Names |-> IF n \in Touched(w) THEN tx[w].own[n] ELSE secrets[n]]
  BY DEF Commit
<1>4. secrets' \in [Names -> Stored \cup {Missing}]
  BY <1>2, <1>3
<1>5. /\ tx[w].op \in {"save", "migrate", "update", "drop"}
      /\ Left(tx[w].todo) = {}
      /\ tx[w].op \in {"save", "migrate"} => \A n \in Touched(w) : tx[w].own[n] # Missing
  BY <1>1 DEF GoodTx, Progress, TxType, Touched
<1> QED
  BY <1>3, <1>4, <1>5

LEMMA CommitSeals ==
  ASSUME SInv, NEW w \in Writers, Commit(w)
  PROVE  SealInv' /\ ServersInv'
<1>1. /\ tx'[w] = NoTx
      /\ \A v \in Writers \ {w} :
           /\ tx'[v].op = tx[v].op /\ tx'[v].todo = tx[v].todo /\ tx'[v].own = tx[v].own
           /\ tx[v].op = "migrate" => tx'[v].overlap = tx[v].overlap \cup Touched(w)
  BY CommitOthers DEF SInv
<1>2. /\ \A n \in Names : n \notin Touched(w) => secrets'[n] = secrets[n]
      /\ tx[w].op \in {"save", "migrate", "update", "drop"}
  BY CommitWrites DEF SInv, RowsInv
<1>3. w \in Servers => tx[w].op = "migrate" /\ srv[w].phase = "validated"
                       /\ srv[w].key \in SealKeys
  <2>1. Purpose(w, tx[w])
    BY DEF SInv, TxInv, GoodTx
  <2>2. w \in Servers => w \notin Editors
    BY SettingsAssumption DEF SettingsAssumption
  <2>3. w \in Servers => tx[w].op = "migrate"
    BY <1>2, <2>1, <2>2 DEF Purpose
  <2> QED
    BY <2>3 DEF SInv, SealInv
<1>4. /\ srv' \in [Servers -> SrvType]
      /\ \A p \in Servers :
           /\ p # w => srv'[p] = srv[p]
           /\ p = w => /\ srv'[p].phase = "serving" /\ srv'[p].key = srv[p].key
                       /\ srv'[p].prod = srv[p].prod /\ srv'[p].origin = srv[p].origin
                       /\ srv'[p].proxy = srv[p].proxy /\ srv'[p].mail = srv[p].mail
  <2>1. srv \in [Servers -> SrvType]
    BY DEF SInv, ServersInv
  <2>2. srv' = IF w \in Servers THEN [srv EXCEPT ![w].phase = "serving"] ELSE srv
    BY DEF Commit
  <2> QED
    BY <2>1, <2>2 DEF SrvType
<1>5. SealInv'
  <2>1. ASSUME NEW p \in Servers
        PROVE  /\ srv'[p].phase # "down" => srv'[p].key \in SealKeys
               /\ tx'[p].op = "migrate" => srv'[p].phase = "validated"
               /\ Sealing(tx'[p], srv'[p].key, secrets')
    <3>1. CASE p = w
      <4>1. \A k, c : Sealing(NoTx, k, c)
        BY NoTxIsGood DEF Sealing
      <4> QED
        BY <1>1, <1>3, <1>4, <3>1, <4>1, NoTxIsGood
    <3>2. CASE p # w
      <4>1. /\ srv[p].phase # "down" => srv[p].key \in SealKeys
            /\ tx[p].op = "migrate" => srv[p].phase = "validated"
            /\ Sealing(tx[p], srv[p].key, secrets)
        BY DEF SInv, SealInv
      <4>2. p \in Writers \ {w} /\ srv'[p] = srv[p]
        BY <1>4, <3>2 DEF Writers
      <4>3. Sealing(tx'[p], srv[p].key, secrets')
        BY <1>1, <1>2, <4>1, <4>2 DEF Sealing
      <4> QED
        BY <1>1, <4>1, <4>2, <4>3
    <3> QED
      BY <3>1, <3>2
  <2> QED
    BY <2>1 DEF SealInv, Sealing, IsEncrypted
<1>6. ServersInv'
  <2>1. ProductionIsGuarded /\ MailPasswordIsReal
    BY DEF SInv, ServersInv
  <2>2. ProductionIsGuarded'
    BY <1>3, <1>4, <2>1 DEF ProductionIsGuarded, CloudFrontOriginGuard, Paths
  <2>3. MailPasswordIsReal'
    BY <1>4, <2>1 DEF MailPasswordIsReal
  <2> QED
    BY <1>4, <2>2, <2>3 DEF ServersInv
<1> QED
  BY <1>5, <1>6

LEMMA CommitRows ==
  ASSUME SInv, NEW w \in Writers, Commit(w)
  PROVE  RowsInv'
<1> DEFINE seals == tx[w].op = "migrate"
<1> DEFINE wrote == Touched(w)
<1>1. /\ secrets' \in [Names -> Stored \cup {Missing}]
      /\ \A n \in Names : secrets'[n] = IF n \in wrote THEN tx[w].own[n] ELSE secrets[n]
      /\ tx[w].op \in {"save", "migrate", "update", "drop"}
      /\ Left(tx[w].todo) = {}
      /\ tx[w].op \in {"save", "migrate"} => \A n \in wrote : tx[w].own[n] # Missing
  BY CommitWrites DEF SInv, RowsInv
<1>2. /\ GoodTx(w, tx[w]) /\ tx[w] \in TxType /\ tx[w].overlap \subseteq Names
      /\ wrote \subseteq Names /\ \A n \in Names : n \notin wrote => tx[w].own[n] = Untouched
  BY DEF SInv, TxInv, TxType, Touched
<1>3. /\ RowsInv /\ ghost \in GhostType /\ secrets \in [Names -> Stored \cup {Missing}]
      /\ {Production, Address, Password} \subseteq Names
  BY Texting DEF SInv, RowsInv
<1>4. seals => /\ w \in Servers /\ srv[w].key \in SealKeys
               /\ Sealing(tx[w], srv[w].key, secrets)
  BY <1>2 DEF SInv, SealInv, GoodTx, Purpose, Sealing
<1>5. /\ ghost'.latest = [n \in Names |-> IF n \in wrote /\ ~seals THEN secrets'[n].text
                                         ELSE ghost.latest[n]]
      /\ ghost'.excused = IF seals THEN ghost.excused \cup (wrote \cap tx[w].overlap)
                          ELSE ghost.excused \ wrote
      /\ ghost'.raw = IF seals THEN ghost.raw \cap tx[w].overlap
                      ELSE IF tx[w].op = "save" THEN ghost.raw \ wrote ELSE ghost.raw \cup wrote
      /\ ghost'.sealer = IF seals /\ Production \in wrote THEN srv[w].key ELSE ghost.sealer
      /\ ghost'.out = ghost.out /\ ghost'.mode = ghost.mode
      /\ ghost'.moved = (ghost.moved \/ ((jar # {} \/ visit # NoVisit) /\ Address \in wrote))
      /\ ghost'.split = (ghost.split \/ (visit # NoVisit /\ Address \in wrote))
      /\ ghost' = [ghost EXCEPT !.latest = ghost'.latest, !.excused = ghost'.excused,
                     !.raw = ghost'.raw, !.sealer = ghost'.sealer, !.moved = ghost'.moved,
                     !.split = ghost'.split]
  BY <1>1, <1>3 DEF Commit, GhostType
<1> HIDE DEF wrote, seals
<1>6. ghost' \in GhostType
  <2>1. ghost'.latest \in [Names -> Texts]
    <3>1. \A n \in Names : secrets'[n].text \in Texts
      BY <1>1, Texting, Marks DEF Stored
    <3> QED
      BY <1>3, <1>5, <3>1 DEF GhostType
  <2>2. ghost'.excused \in SUBSET Names /\ ghost'.raw \in SUBSET Names
    BY <1>2, <1>3, <1>5 DEF GhostType
  <2>3. ghost'.sealer \in {Plain, DevKey, "A"}
    BY <1>3, <1>4, <1>5 DEF GhostType, SealKeys
  <2>4. ghost'.moved \in BOOLEAN /\ ghost'.split \in BOOLEAN
    BY <1>5
  <2> QED
    BY <1>3, <1>5, <2>1, <2>2, <2>3, <2>4 DEF GhostType
<1>7. PassOK(secrets'[Password])
  BY <1>1, <1>2, <1>3 DEF RowsInv, GoodTx
<1>8. secrets'[Production].key \in {Plain, "missing", ghost'.sealer}
  <2>1. Production \notin Slots
    BY SettingsAssumption DEF SettingsAssumption
  <2>2. CASE Production \notin wrote
    BY <1>1, <1>3, <1>5, <2>2 DEF RowsInv
  <2>3. CASE Production \in wrote
    <3>1. secrets'[Production] = tx[w].own[Production] /\ tx[w].own[Production] # Untouched
      BY <1>1, <1>3, <2>3 DEF Touched, wrote
    <3>2. CASE seals
      <4>1. tx[w].own[Production] \notin {Missing, Untouched}
        BY <1>1, <2>3, <3>1, <3>2 DEF seals
      <4>2. tx[w].own[Production].key = srv[w].key
        BY <1>3, <1>4, <3>2, <4>1 DEF Sealing, seals
      <4> QED
        BY <1>5, <2>3, <3>1, <3>2, <4>2
    <3>3. CASE ~seals
      <4>1. tx[w].op # "save"
        BY <1>2, <1>3, <2>1, <3>1 DEF GoodTx, Purpose
      <4>2. tx[w].own[Production] \in {Missing} \cup Typing(Production)
        BY <1>1, <1>2, <1>3, <3>1, <3>3, <4>1 DEF GoodTx, Purpose, seals
      <4> QED
        BY <3>1, <4>2, Marks DEF Typing
    <3> QED
      BY <3>2, <3>3
  <2> QED
    BY <2>2, <2>3
<1>9. SavesAreKept'
  <2>1. ASSUME NEW n \in Names PROVE secrets'[n].text = ghost'.latest[n] \/ n \in ghost'.excused
    <3>1. secrets[n].text = ghost.latest[n] \/ n \in ghost.excused
      BY <1>3 DEF RowsInv, SavesAreKept
    <3>2. ghost'.latest[n] = IF n \in wrote /\ ~seals THEN secrets'[n].text ELSE ghost.latest[n]
      BY <1>5
    <3>3. CASE n \notin wrote
      BY <1>1, <1>5, <3>1, <3>2, <3>3
    <3>4. CASE n \in wrote /\ ~seals
      BY <3>2, <3>4
    <3>5. CASE n \in wrote /\ seals
      <4>1. tx[w].own[n] \notin {Missing, Untouched} /\ secrets'[n] = tx[w].own[n]
        BY <1>1, <3>5 DEF seals, wrote, Touched
      <4>2. n \in tx[w].overlap \/ tx[w].own[n].text = secrets[n].text
        BY <1>4, <3>5, <4>1 DEF Sealing, seals
      <4> QED
        BY <1>5, <3>1, <3>2, <3>5, <4>1, <4>2
    <3> QED
      BY <3>3, <3>4, <3>5
  <2> QED
    BY <2>1 DEF SavesAreKept
<1>10. PlaintextIsNewerThanSealing'
  <2>1. ASSUME NEW n \in Names, ~IsEncrypted(secrets'[n]) PROVE n \in ghost'.raw
    <3>1. ~IsEncrypted(secrets[n]) => n \in ghost.raw
      BY <1>3, Marks DEF RowsInv, PlaintextIsNewerThanSealing
    <3>2. CASE n \in wrote /\ tx[w].op \in {"save", "migrate"}
      <4>1. tx[w].own[n] \notin {Missing, Untouched} /\ secrets'[n] = tx[w].own[n]
        BY <1>1, <3>2 DEF wrote, Touched
      <4>2. tx[w].own[n].key \in SealKeys
        BY <1>2, <1>4, <3>2, <4>1 DEF GoodTx, Purpose, Sealing, seals
      <4> QED
        BY <2>1, <4>1, <4>2 DEF IsEncrypted, SealKeys, Plain, DevKey
    <3>3. CASE n \in wrote /\ tx[w].op \notin {"save", "migrate"}
      BY <1>5, <3>3 DEF seals
    <3>4. CASE n \notin wrote
      <4>1. secrets'[n] = secrets[n] /\ n \in ghost.raw
        BY <1>1, <2>1, <3>1, <3>4
      <4>2. seals => n \in tx[w].overlap
        <5>1. tx[w].own[n] = Untouched /\ tx[w].todo[n] = Untouched
          BY <1>1, <1>2, <3>4 DEF Left
        <5> QED
          BY <1>4, <2>1, <4>1, <5>1 DEF Sealing, seals
      <4> QED
        BY <1>5, <3>4, <4>1, <4>2
    <3> QED
      BY <3>2, <3>3, <3>4
  <2> QED
    BY <2>1 DEF PlaintextIsNewerThanSealing, IsEncrypted
<1> QED
  BY <1>1, <1>6, <1>7, <1>8, <1>9, <1>10 DEF RowsInv, PassOK

LEMMA CommitKeeps ==
  ASSUME SInv, NEW w \in Writers, Commit(w)
  PROVE  SInv'
<1>1. TxInv' /\ Exclusive' /\ SealInv' /\ RowsInv' /\ ServersInv'
  BY CommitOthers, CommitSeals, CommitRows DEF SInv
<1>2. /\ Address \notin Touched(w) => secrets'[Address] = secrets[Address]
      /\ ghost'.out = ghost.out /\ ghost'.mode = ghost.mode
      /\ ghost'.moved = (ghost.moved \/ ((jar # {} \/ visit # NoVisit) /\ Address \in Touched(w)))
      /\ ghost'.split = (ghost.split \/ (visit # NoVisit /\ Address \in Touched(w)))
      /\ ghost.moved \in BOOLEAN /\ ghost.split \in BOOLEAN
  <2>1. /\ \A n \in Names : n \notin Touched(w) => secrets'[n] = secrets[n]
        /\ Address \in Names /\ ghost \in GhostType
    BY CommitWrites, Texting DEF SInv, RowsInv
  <2> QED
    BY <2>1 DEF Commit, GhostType
<1>3. tx[w].op # "none"
  BY CommitWrites DEF SInv, RowsInv
<1>6. CookieInv'
  <2>3. jar' = jar
    BY DEF Commit
  <2>4. CookieInv
    BY DEF SInv
  <2>5. SessionHasCsrf'
    BY <1>2, <2>3, <2>4 DEF CookieInv, SessionHasCsrf
  <2>6. LogoutClears'
    BY <1>2, <2>3, <2>4 DEF CookieInv, LogoutClears
  <2>7. jar # {} /\ ghost'.moved = FALSE =>
          ghost.moved = FALSE /\ secrets'[Address] = secrets[Address]
    BY <1>2
  <2> QED
    BY <1>2, <2>3, <2>4, <2>5, <2>6, <2>7 DEF CookieInv
<1>4. VisitInv'
  <2>1. ASSUME visit # NoVisit
        PROVE  /\ srv'[visit.on].phase = "serving" /\ srv'[visit.on].prod = srv[visit.on].prod
               /\ ghost'.moved = FALSE => ghost.moved = FALSE /\ secrets'[Address] = secrets[Address]
               /\ ghost'.split = FALSE => ghost.split = FALSE /\ secrets'[Address] = secrets[Address]
    <3>1. visit.on \in Servers /\ srv[visit.on].phase = "serving" /\ VisitInv
      BY <2>1 DEF SInv, VisitInv, VisitType
    <3>2. visit.on # w
      BY <2>1, <3>1, <1>3, SealsOnly, AnswersNobody DEF SInv
    <3>3. srv'[visit.on] = srv[visit.on]
      <4>1. srv' = srv \/ srv' = [srv EXCEPT ![w].phase = "serving"]
        BY DEF Commit
      <4> QED
        BY <3>1, <3>2, <4>1 DEF SInv, ServersInv
    <3>4. CASE Address \in Touched(w)
      BY <1>2, <2>1, <3>1, <3>3, <3>4
    <3>5. CASE Address \notin Touched(w)
      BY <1>2, <2>1, <3>1, <3>3, <3>5
    <3> QED
      BY <3>4, <3>5
  <2>2. UNCHANGED visit /\ VisitInv
    BY DEF Commit, SInv
  <2> QED
    BY <2>1, <2>2, VisitKept
<1>5. ops' = ops
  BY DEF Commit
<1> QED
  BY <1>1, <1>4, <1>5, <1>6 DEF SInv

LEMMA TransactionKeeps ==
  ASSUME SInv, NEW w \in Writers, TxStep(w) \/ ConnectionLost(w)
  PROVE  SInv'
<1>1. Progress(tx[w])
  BY DEF SInv, TxInv, GoodTx
<1>2. ASSUME RollBack(w), tx[w].at = "insert" \/ tx[w].wait = "waiting" \/ tx[w].op # "none"
      PROVE  SInv'
  <2>1. tx[w].op # "none"
    BY <1>1, <1>2 DEF Progress
  <2> QED
    BY <1>2, <2>1, RollBackKeeps
<1>3. ASSUME UniqueViolation(w) \/ DeadlockDetected(w) \/ ConnectionLost(w) PROVE SInv'
  BY <1>2, <1>3 DEF UniqueViolation, DeadlockDetected, Deadlocked, WaitsFor, ConnectionLost, Open
<1> QED
  BY <1>3, StatementKeeps, CommitKeeps DEF TxStep

-----------------------------------------------------------------------------
(* The start of a server *)

\* A row that can be read gives what is stored in it.
LEMMA LookedUp ==
  ASSUME NEW k, NEW n \in Names, LookupSecret(k, n) # Failed
  PROVE  /\ LookupSecret(k, n) = secrets[n].text
         /\ secrets[n] = Missing \/ ~IsEncrypted(secrets[n]) \/ secrets[n].key = k
BY Marks DEF LookupSecret, Decrypt

\* The master key of a start.
LEMMA KeyOfAStart ==
  ASSUME NEW env \in Envs, NEW isProd \in BOOLEAN, MakeSecretsAtRest(isProd, env) # Failed
  PROVE  MakeSecretsAtRest(isProd, env) \in SealKeys
<1>1. GetEnvWithFallback(env.key) \in {Unset, "", "bad", "A"}
  BY SettingsAssumption DEF SettingsAssumption
<1> QED
  BY <1>1 DEF MakeSecretsAtRest, EnvVarSetNonEmpty, SealKeys

LEMMA InitializeKeeps ==
  ASSUME SInv, NEW p \in Servers, NEW env \in Envs, NEW isProd \in BOOLEAN,
         Initialize(p, env, isProd)
  PROVE  SInv'
<1> DEFINE key == MakeSecretsAtRest(isProd, env)
<1> DEFINE prod == StringToBool(LookupSecret(key, Production))
<1> DEFINE q == [Down EXCEPT !.phase = "configured", !.key = key,
                  !.prod = prod, !.origin = EnvVarSetNonEmpty(env.origin),
                  !.proxy = ProxyTrustEnabled(env)]
<1>1. key \in SealKeys /\ prod \in BOOLEAN /\ EnvVarSetNonEmpty(env.origin) \in BOOLEAN
      /\ ProxyTrustEnabled(env) \in BOOLEAN
  BY KeyOfAStart DEF Initialize, StringToBool, EnvVarSetNonEmpty, ProxyTrustEnabled
<1>2. srv' = [srv EXCEPT ![p] = q] /\ srv[p].phase = "down" /\ (Counted \/ ops' = ops)
      /\ UNCHANGED <<secrets, tx, jar, visit, ghost>>
  BY DEF Initialize
<1> HIDE DEF key, prod
<1>3. q \in SrvType /\ q.phase = "configured" /\ q.key = key /\ q.mail = ""
  <2>1. PICK b1 \in BOOLEAN : b1 = prod
    BY <1>1
  <2>2. PICK b2 \in BOOLEAN : b2 = EnvVarSetNonEmpty(env.origin)
    BY <1>1
  <2>3. PICK b3 \in BOOLEAN : b3 = ProxyTrustEnabled(env)
    BY <1>1
  <2>4. q = [phase |-> "configured", key |-> key, prod |-> b1, origin |-> b2, proxy |-> b3,
             mail |-> ""]
    <3>1. q = [Down EXCEPT !.phase = "configured", !.key = key, !.prod = b1, !.origin = b2,
                           !.proxy = b3]
      BY <2>1, <2>2, <2>3
    <3> HIDE DEF q
    <3> QED
      BY <3>1 DEF Down
  <2> QED
    BY <1>1, <2>4, Texting DEF SrvType, SealKeys
<1> HIDE DEF q
<1>4. /\ srv' \in [Servers -> SrvType] /\ srv'[p] = q
      /\ \A s \in Servers \ {p} : srv'[s] = srv[s]
  BY <1>2, <1>3 DEF SInv, ServersInv
<1>5. SealInv'
  <2>1. ASSUME NEW s \in Servers
        PROVE  /\ srv'[s].phase # "down" => srv'[s].key \in SealKeys
               /\ tx[s].op = "migrate" => srv'[s].phase = "validated"
               /\ Sealing(tx[s], srv'[s].key, secrets)
    <3>1. /\ srv[s].phase # "down" => srv[s].key \in SealKeys
          /\ tx[s].op = "migrate" => srv[s].phase = "validated"
          /\ Sealing(tx[s], srv[s].key, secrets)
      BY DEF SInv, SealInv
    <3>2. CASE s = p
      <4>1. tx[s].op # "migrate"
        BY <1>2, <3>1, <3>2
      <4> QED
        BY <1>1, <1>3, <1>4, <3>2, <4>1 DEF Sealing
    <3> QED
      BY <1>4, <3>1, <3>2
  <2> QED
    BY <1>2, <2>1 DEF SealInv, Sealing, IsEncrypted
<1>6. ServersInv'
  BY <1>3, <1>4 DEF SInv, ServersInv, ProductionIsGuarded, MailPasswordIsReal,
                    CloudFrontOriginGuard, Paths
<1>7. RowsInv' /\ CookieInv'
  BY <1>2, RowsKept, CookiesKept DEF SInv
<1>8. VisitInv'
  <2>1. ASSUME visit # NoVisit PROVE srv'[visit.on] = srv[visit.on]
    BY <1>2, <1>4, <2>1, AnswersNobody DEF SInv
  <2>2. UNCHANGED visit /\ VisitInv /\ (visit # NoVisit => srv[visit.on].phase = "serving")
    BY <1>2 DEF SInv, VisitInv
  <2> QED
    BY <1>2, <2>1, <2>2, VisitKept
<1>9. TxInv' /\ Exclusive'
  BY <1>2, TxKept DEF SInv
<1>10. ops' \in 0..MaxOps
  BY <1>2, OpsCounted DEF SInv
<1> QED
  BY <1>5, <1>6, <1>7, <1>8, <1>9, <1>10 DEF SInv

\* A server that seals no rows takes a step of its own.
LEMMA ServerMoves ==
  ASSUME SInv, NEW p \in Servers, NEW q \in SrvType, srv' = [srv EXCEPT ![p] = q],
         UNCHANGED <<secrets, tx, jar, visit, ops, ghost>>,
         srv[p].phase # "validated", q.phase # "down" => q.key \in SealKeys,
         q.prod = TRUE /\ q.phase \in {"validated", "serving"} =>
           q.proxy = TRUE /\ q.key # DevKey /\ q.origin = TRUE,
         q.mail \in {""} \cup (Typed[Password] \ {Prefixed}),
         srv[p].phase # "serving" \/ ~Answering(p)
           \/ (q.phase = srv[p].phase /\ q.prod = srv[p].prod)
  PROVE  SInv'
<1>1. /\ srv' \in [Servers -> SrvType] /\ srv'[p] = q
      /\ \A s \in Servers \ {p} : srv'[s] = srv[s]
  BY DEF SInv, ServersInv
<1>2. SealInv'
  <2>1. ASSUME NEW s \in Servers
        PROVE  /\ srv'[s].phase # "down" => srv'[s].key \in SealKeys
               /\ tx[s].op = "migrate" => srv'[s].phase = "validated"
               /\ Sealing(tx[s], srv'[s].key, secrets)
    <3>1. /\ srv[s].phase # "down" => srv[s].key \in SealKeys
          /\ tx[s].op = "migrate" => srv[s].phase = "validated"
          /\ Sealing(tx[s], srv[s].key, secrets)
      BY DEF SInv, SealInv
    <3>2. CASE s = p
      <4>1. tx[s].op # "migrate"
        BY <3>1, <3>2
      <4> QED
        BY <1>1, <3>2, <4>1 DEF Sealing
    <3> QED
      BY <1>1, <3>1, <3>2
  <2> QED
    BY <2>1 DEF SealInv, Sealing, IsEncrypted
<1>3. ServersInv'
  <2>1. ProductionIsGuarded /\ MailPasswordIsReal
    BY DEF SInv, ServersInv
  <2>2. ProductionIsGuarded'
    BY <1>1, <2>1 DEF ProductionIsGuarded, CloudFrontOriginGuard, Paths, SrvType
  <2>3. MailPasswordIsReal'
    BY <1>1, <2>1 DEF MailPasswordIsReal
  <2> QED
    BY <1>1, <2>2, <2>3 DEF ServersInv
<1>4. VisitInv'
  <2>1. ASSUME visit # NoVisit
        PROVE  /\ srv'[visit.on].phase = srv[visit.on].phase
               /\ srv'[visit.on].prod = srv[visit.on].prod
    <3>1. visit.on \in Servers
      BY <2>1 DEF SInv, VisitInv, VisitType
    <3>2. visit.on # p \/ (q.phase = srv[p].phase /\ q.prod = srv[p].prod)
      BY <2>1, AnswersNobody DEF SInv, Answering
    <3> QED
      BY <1>1, <3>1, <3>2
  <2>2. VisitInv /\ (visit # NoVisit => srv[visit.on].phase = "serving")
    BY DEF SInv, VisitInv
  <2> QED
    BY <2>1, <2>2, VisitKept
<1> QED
  BY <1>2, <1>3, <1>4, TxKept, RowsKept, CookiesKept DEF SInv

LEMMA ServerKeeps ==
  ASSUME SInv, NEW p \in Servers,
         ValidateProdEnvironment(p) \/ Shutdown(p) \/ MakeMailHelper(p)
  PROVE  SInv'
<1>1. /\ srv \in [Servers -> SrvType] /\ srv[p] \in SrvType
      /\ srv[p].phase # "down" => srv[p].key \in SealKeys
      /\ srv[p].mail \in {""} \cup (Typed[Password] \ {Prefixed})
      /\ srv[p].prod = TRUE /\ srv[p].phase \in {"validated", "serving"} =>
           srv[p].proxy = TRUE /\ srv[p].key # DevKey /\ srv[p].origin = TRUE
  <2>1. /\ srv \in [Servers -> SrvType] /\ srv[p] \in SrvType
        /\ srv[p].phase # "down" => srv[p].key \in SealKeys
        /\ srv[p].mail \in {""} \cup (Typed[Password] \ {Prefixed})
    BY DEF SInv, ServersInv, SealInv, MailPasswordIsReal
  <2>2. ProductionIsGuarded
    BY DEF SInv, ServersInv
  <2>3. srv[p].proxy \in BOOLEAN /\ srv[p].prod \in BOOLEAN /\ srv[p].origin \in BOOLEAN
    BY <2>1 DEF SrvType
  <2> QED
    BY <2>1, <2>2, <2>3 DEF ProductionIsGuarded, CloudFrontOriginGuard, Paths
<1>2. Down \in SrvType /\ Down.phase = "down" /\ Down.mail = ""
  BY Texting DEF Down, SrvType
<1>3. ASSUME srv[p].phase # "validated", srv' = [srv EXCEPT ![p] = Down],
             srv[p].phase # "serving" \/ ~Answering(p),
             UNCHANGED <<secrets, tx, jar, visit, ops, ghost>>
      PROVE  SInv'
  BY <1>2, <1>3, ServerMoves
<1>4. ASSUME ValidateProdEnvironment(p) PROVE SInv'
  <2>1. srv[p].phase = "configured" /\ UNCHANGED <<secrets, tx, jar, visit, ops, ghost>>
    BY <1>4 DEF ValidateProdEnvironment
  <2>2. CASE srv[p].prod /\ MissingItems(p) # {}
    BY <1>3, <1>4, <2>1, <2>2 DEF ValidateProdEnvironment
  <2>3. CASE ~(srv[p].prod /\ MissingItems(p) # {})
    <3> DEFINE q == [srv[p] EXCEPT !.phase = "validated"]
    <3>1. srv' = [srv EXCEPT ![p] = q]
      BY <1>1, <1>4, <2>3 DEF ValidateProdEnvironment
    <3>2. /\ q \in SrvType /\ q.phase = "validated" /\ q.key = srv[p].key
          /\ q.prod = srv[p].prod /\ q.origin = srv[p].origin /\ q.proxy = srv[p].proxy
          /\ q.mail = srv[p].mail
      BY <1>1 DEF SrvType
    <3> HIDE DEF q
    <3>3. srv[p].prod = TRUE => "origin" \notin MissingItems(p)
            /\ "proxy" \notin MissingItems(p) /\ "key" \notin MissingItems(p)
      BY <2>3
    <3>4. srv[p].prod = TRUE => srv[p].origin = TRUE /\ srv[p].proxy = TRUE /\ srv[p].key # DevKey
      <4> SUFFICES ASSUME srv[p].prod = TRUE
                   PROVE  srv[p].origin = TRUE /\ srv[p].proxy = TRUE /\ srv[p].key # DevKey
        OBVIOUS
      <4>1. srv[p].proxy \in BOOLEAN /\ srv[p].origin \in BOOLEAN
        BY <1>1 DEF SrvType
      <4>2. srv[p].origin
        BY <3>3 DEF MissingItems
      <4>3. srv[p].proxy
        BY <3>3 DEF MissingItems
      <4>4. srv[p].key # DevKey
        BY <3>3 DEF MissingItems
      <4> QED
        BY <4>1, <4>2, <4>3, <4>4
    <3> QED
      BY <1>1, <2>1, <3>1, <3>2, <3>4, ServerMoves
  <2> QED
    BY <2>2, <2>3
<1>5. ASSUME Shutdown(p) PROVE SInv'
  BY <1>3, <1>5 DEF Shutdown
<1>6. ASSUME MakeMailHelper(p) PROVE SInv'
  <2> DEFINE password == LookupSecret(srv[p].key, Password)
  <2> DEFINE q == [srv[p] EXCEPT !.mail = password]
  <2>1. /\ srv[p].phase = "serving" /\ UNCHANGED <<secrets, tx, jar, visit, ops, ghost>>
        /\ password # "" /\ password # Failed
        /\ srv' = [srv EXCEPT ![p] = q]
    BY <1>1, <1>6 DEF MakeMailHelper
  <2>2. /\ password = secrets[Password].text /\ Password \in Names
        /\ secrets[Password] = Missing \/ ~IsEncrypted(secrets[Password])
           \/ secrets[Password].key = srv[p].key
    BY <2>1, LookedUp, Texting
  <2>3. srv[p].key \in SealKeys /\ PassOK(secrets[Password])
    BY <1>1, <2>1 DEF SInv, RowsInv
  <2>4. password \in Typed[Password] \ {Prefixed}
    BY <2>1, <2>2, <2>3, Marks, Texting DEF PassOK, IsEncrypted, SealKeys, DevKey, Plain
  <2>5. password \in Texts
    BY <2>2, <2>4, Texting
  <2> HIDE DEF password
  <2>6. /\ q \in SrvType /\ q.phase = srv[p].phase /\ q.key = srv[p].key
        /\ q.prod = srv[p].prod /\ q.origin = srv[p].origin /\ q.proxy = srv[p].proxy
        /\ q.mail = password
    BY <1>1, <2>5 DEF SrvType
  <2> HIDE DEF q
  <2> QED
    BY <1>1, <2>1, <2>4, <2>6, ServerMoves
<1> QED
  BY <1>4, <1>5, <1>6

LEMMA MigrateKeeps ==
  ASSUME SInv, NEW p \in Servers, NEW order \in HeapOrders, MigrateSecretsToEncrypted(p, order)
  PROVE  SInv'
<1> DEFINE d == PlaintextRows(p)
<1> DEFINE r == Beginning("migrate", d, order, "delete")
<1>1. /\ srv[p].phase = "validated" /\ UNCHANGED <<secrets, srv, jar, visit, ops, ghost>>
      /\ tx' = [tx EXCEPT ![p] = r]
  BY DEF MigrateSecretsToEncrypted, Begin, Beginning
<1>2. srv[p].key \in SealKeys /\ p \in Writers
  BY <1>1 DEF SInv, SealInv, Writers
<1>3. secrets \in [Names -> Stored \cup {Missing}] /\ PassOK(secrets[Password])
      /\ Password \in Names
  BY Texting DEF SInv, RowsInv
<1>4. \A n \in Names :
        \/ IsEncrypted(secrets[n]) /\ d[n] = Untouched
        \/ /\ ~IsEncrypted(secrets[n]) /\ d[n] \in Stored
           /\ d[n].key = srv[p].key /\ d[n].text = secrets[n].text
  <2>1. ASSUME NEW n \in Names, ~IsEncrypted(secrets[n])
        PROVE  /\ d[n] \in Stored /\ d[n].key = srv[p].key /\ d[n].text = secrets[n].text
    <3>1. secrets[n] \in Stored /\ secrets[n].key = Plain /\ secrets[n] # Missing
      BY <1>3, <2>1, Marks DEF IsEncrypted
    <3>2. d[n] = [key |-> srv[p].key, text |-> secrets[n].text]
      BY <2>1, <3>1 DEF PlaintextRows, Encrypt, RawText
    <3> QED
      BY <1>2, <3>1, <3>2 DEF Stored, SealKeys
  <2> QED
    BY <2>1 DEF PlaintextRows
<1>5. d \in [Names -> Values]
  <2>1. \A n \in Names : d[n] \in Values
    BY <1>4 DEF Values
  <2> QED
    BY <2>1 DEF PlaintextRows
<1>6. order \in [Names -> Nat]
  <2>1. order \in Orders(Names) /\ IsFiniteSet(Slots)
    BY SettingsAssumption DEF SettingsAssumption
  <2>2. IsFiniteSet({Production, Address, Password})
    <3>1. IsFiniteSet({Production})
      BY FS_Singleton
    <3>2. IsFiniteSet({Production} \cup {Address})
      BY <3>1, FS_AddElement
    <3>3. IsFiniteSet(({Production} \cup {Address}) \cup {Password})
      BY <3>2, FS_AddElement
    <3>4. {Production, Address, Password} = ({Production} \cup {Address}) \cup {Password}
      OBVIOUS
    <3> QED
      BY <3>3, <3>4
  <2>3. IsFiniteSet(Names)
    BY <2>1, <2>2, FS_Union DEF Names
  <2>4. DOMAIN order = Names /\ \A n \in Names : order[n] \in Nat
    BY <2>1, <2>3, OrdersAreTyped
  <2>5. order \in [Names -> 1..Cardinality(Names)]
    BY <2>1 DEF Orders
  <2> QED
    BY <2>4, <2>5
<1>7. PassOK(d[Password])
  BY <1>3, <1>4, Marks DEF PassOK, IsEncrypted, Prefixed
<1>8. MayBegin(p, "migrate", d, order, "delete")
  BY <1>2, <1>4, <1>5, <1>6, <1>7 DEF MayBegin
<1> HIDE DEF d
<1>9. GoodTx(p, r) /\ Free(p, r) /\ r.op = "migrate" /\ r.todo = d /\ r.own = NoRows
  BY <1>8, BeginsWell
<1>10. \A n \in Names : NoRows[n] = Untouched
  BY DEF NoRows
<1> HIDE DEF r
<1>11. Sealing(r, srv[p].key, secrets)
  BY <1>2, <1>4, <1>9, <1>10, Marks DEF Sealing
<1>12. ops' \in 0..MaxOps
  BY <1>1 DEF SInv
<1> QED
  BY <1>1, <1>2, <1>9, <1>11, <1>12, TxStepKeeps

-----------------------------------------------------------------------------
(* The cookies of a browser *)

\* The domain a server gives its cookies, if it can read it.
LEMMA DomainRead ==
  ASSUME SInv, NEW p \in Servers, CookieDomain(p) # Failed
  PROVE  CookieDomain(p) = Domain(srv[p].prod, secrets[Address].text) /\ CookieDomain(p) \in Texts
<1>1. /\ srv[p].prod \in BOOLEAN
      /\ Address \in Names /\ secrets[Address] \in Stored \cup {Missing} /\ "" \in Texts
  BY Texting DEF SInv, RowsInv, ServersInv, SrvType
<1>2. secrets[Address].text \in Texts
  BY <1>1, Texting, Marks DEF Stored
<1>3. CASE srv[p].prod = TRUE
  <2>1. CookieDomain(p) = LookupSecret(srv[p].key, Address)
    BY <1>3 DEF CookieDomain
  <2> QED
    BY <1>1, <1>2, <1>3, <2>1, LookedUp DEF Domain
<1>4. CASE srv[p].prod = FALSE
  BY <1>1, <1>4 DEF CookieDomain, Domain
<1> QED
  BY <1>1, <1>3, <1>4

\* What the other parts remember does not change with the cookies.
LEMMA RowsRemembered ==
  ASSUME SInv, UNCHANGED secrets, NEW o \in BOOLEAN, NEW m \in BOOLEAN, NEW v \in BOOLEAN,
         NEW u \in BOOLEAN,
         ghost' = [ghost EXCEPT !.out = o, !.mode = m, !.moved = v, !.split = u]
  PROVE  RowsInv' /\ ghost'.out = o /\ ghost'.mode = m /\ ghost'.moved = v /\ ghost'.split = u
<1>1. ghost \in GhostType /\ RowsInv
  BY DEF SInv, RowsInv
<1>2. /\ ghost' \in GhostType /\ ghost'.latest = ghost.latest /\ ghost'.excused = ghost.excused
      /\ ghost'.raw = ghost.raw /\ ghost'.sealer = ghost.sealer
      /\ ghost'.out = o /\ ghost'.mode = m /\ ghost'.moved = v /\ ghost'.split = u
  BY <1>1 DEF GhostType
<1>3. RowsInv'
  BY <1>1, <1>2 DEF RowsInv, PassOK, SavesAreKept, PlaintextIsNewerThanSealing, IsEncrypted
<1> QED
  BY <1>2, <1>3

\* A login or logout begins.
LEMMA VisitBegins ==
  ASSUME SInv, NEW p \in Servers,
         \/ \E cdn, remember \in BOOLEAN : Login(p, cdn, remember)
         \/ \E cdn \in BOOLEAN, first, echo \in jar : Logout(p, cdn, first, echo)
  PROVE  SInv'
<1>1. PICK op \in {"login", "logout"}, names \in SUBSET AuthCookies :
        /\ visit' = [op |-> op, on |-> p, left |-> names, cookies |-> {}]
        /\ "csrft" \in names /\ (op = "logout" => names = AuthCookies)
  <2>1. "csrft" \in AuthCookies
    BY DEF AuthCookies
  <2>2. ASSUME NEW cdn, NEW remember, Login(p, cdn, remember)
        PROVE  /\ visit' = [op |-> "login", on |-> p, left |-> LoginCookies(remember), cookies |-> {}]
               /\ LoginCookies(remember) \in SUBSET AuthCookies /\ "csrft" \in LoginCookies(remember)
    BY <2>2 DEF Login, Visit, LoginCookies, AuthCookies
  <2>3. ASSUME NEW cdn, NEW first, NEW echo, Logout(p, cdn, first, echo)
        PROVE  visit' = [op |-> "logout", on |-> p, left |-> AuthCookies, cookies |-> {}]
    BY <2>3 DEF Logout, Visit
  <2>4. CASE \E cdn, remember \in BOOLEAN : Login(p, cdn, remember)
    BY <2>2, <2>4
  <2>5. CASE \E cdn \in BOOLEAN, first, echo \in jar : Logout(p, cdn, first, echo)
    BY <2>1, <2>3, <2>5
  <2> QED
    BY <2>4, <2>5
<1>2. /\ srv[p].phase = "serving" /\ UNCHANGED <<secrets, tx, srv, jar, ghost>>
      /\ Counted \/ ops' = ops
  BY DEF Login, Logout
<1>3. visit'.op = op /\ visit'.on = p /\ visit'.left = names /\ visit'.cookies = {}
  BY <1>1
<1>4. visit' \in VisitType /\ CookiesMade(visit')
  BY <1>1, <1>3 DEF VisitType, CookiesMade
<1>5. VisitInv'
  BY <1>2, <1>3, <1>4 DEF VisitInv, CookiesMade
<1>6. SealInv' /\ TxInv' /\ Exclusive' /\ ServersInv' /\ RowsInv' /\ CookieInv'
  BY <1>2, SealKept, TxKept, ServersKept, RowsKept, CookiesKept DEF SInv
<1>7. ops' \in 0..MaxOps
  BY <1>2, OpsCounted DEF SInv
<1> QED
  BY <1>5, <1>6, <1>7 DEF SInv

LEMMA SetCookieHelperKeeps ==
  ASSUME SInv, SetCookieHelper
  PROVE  SInv'
<1> DEFINE d == CookieDomain(visit.on)
<1> DEFINE new == [name : Turn, domain : {d}]
<1>1. /\ visit # NoVisit /\ visit.left # {} /\ d # Failed
      /\ UNCHANGED <<secrets, tx, srv, jar, ops, ghost>>
      /\ visit' = [visit EXCEPT !.left = @ \ Turn, !.cookies = @ \cup new]
  BY DEF SetCookieHelper
<1>2. /\ visit \in VisitType /\ CookiesMade(visit) /\ srv[visit.on].phase = "serving"
      /\ ghost.moved = FALSE \/ ghost.split = FALSE =>
           \A c \in visit.cookies : c.domain = Domain(srv[visit.on].prod, secrets[Address].text)
  BY <1>1 DEF SInv, VisitInv
<1>3. visit.on \in Servers /\ visit.left \subseteq AuthCookies /\ visit.cookies \subseteq Cookies
  BY <1>2 DEF VisitType
<1>4. d = Domain(srv[visit.on].prod, secrets[Address].text) /\ d \in Texts
  BY <1>1, <1>3, DomainRead
<1>5. /\ Turn \subseteq visit.left
      /\ visit.op = "logout" => (Turn = {"csrft"} /\ visit.left = {"csrft"}) \/ "csrft" \notin Turn
  BY DEF Turn
<1> HIDE DEF d
<1>6. new \subseteq Cookies /\ \A c \in new : c.name \in Turn /\ c.domain = d
  BY <1>3, <1>4, <1>5 DEF Cookies
<1>7. \A n \in Turn : \E c \in new : c.name = n
  <2>1. \A n \in Turn : [name |-> n, domain |-> d] \in new
    OBVIOUS
  <2> QED
    BY <2>1
<1> HIDE DEF new
<1>8. /\ visit'.op = visit.op /\ visit'.on = visit.on /\ visit'.left = visit.left \ Turn
      /\ visit'.cookies = visit.cookies \cup new /\ visit' \in VisitType
  BY <1>1, <1>2, <1>3, <1>6 DEF VisitType
<1>9. CookiesMade(visit')
  <2>1. \A c \in visit'.cookies : c.name \notin visit'.left
    BY <1>2, <1>6, <1>8 DEF CookiesMade
  <2>2. ASSUME NEW n \in AuthCookies \ visit'.left, visit.op = "logout" \/ n = "csrft"
        PROVE  \E c \in visit'.cookies : c.name = n
    BY <1>2, <1>7, <1>8, <2>2 DEF CookiesMade
  <2>3. visit'.op = "logout" /\ "csrft" \notin visit'.left => visit'.left = {}
    BY <1>1, <1>2, <1>5, <1>8 DEF CookiesMade
  <2> QED
    BY <1>8, <2>1, <2>2, <2>3 DEF CookiesMade
<1>10. VisitInv'
  <2>1. ghost'.moved = FALSE \/ ghost'.split = FALSE =>
          \A c \in visit'.cookies : c.domain = Domain(srv'[visit'.on].prod, secrets'[Address].text)
    BY <1>1, <1>2, <1>4, <1>6, <1>8
  <2>2. srv'[visit'.on].phase = "serving"
    BY <1>1, <1>2, <1>8
  <2> QED
    BY <1>8, <1>9, <2>1, <2>2 DEF VisitInv, CookiesMade
<1>11. SealInv' /\ TxInv' /\ Exclusive' /\ ServersInv' /\ RowsInv' /\ CookieInv'
  BY <1>1, SealKept, TxKept, ServersKept, RowsKept, CookiesKept DEF SInv
<1> QED
  BY <1>1, <1>10, <1>11 DEF SInv

LEMMA AnswerLostKeeps ==
  ASSUME SInv, AnswerLost
  PROVE  SInv'
<1>1. visit' = NoVisit /\ UNCHANGED <<secrets, tx, srv, jar, ops>>
  BY DEF AnswerLost
<1>2. ghost \in GhostType /\ CookieInv /\ ghost.mode \in BOOLEAN /\ ghost.moved \in BOOLEAN
      /\ ghost.out \in BOOLEAN /\ ghost.split \in BOOLEAN
  BY DEF SInv, RowsInv, GhostType
<1>3. PICK v \in BOOLEAN, u \in BOOLEAN :
        v = (ghost.moved /\ jar # {}) /\ u = (ghost.split /\ jar # {})
  OBVIOUS
<1>4. ghost' = [ghost EXCEPT !.out = ghost.out, !.mode = ghost.mode, !.moved = v, !.split = u]
  BY <1>2, <1>3 DEF AnswerLost, GhostType
<1>5. /\ RowsInv' /\ ghost'.out = ghost.out /\ ghost'.mode = ghost.mode
      /\ ghost'.moved = v /\ ghost'.split = u
  BY <1>1, <1>2, <1>4, RowsRemembered
<1>6. jar = {} \/ (v = ghost.moved /\ u = ghost.split)
  BY <1>2, <1>3
<1>7. CookieInv'
  <2>1. SessionHasCsrf' /\ LogoutClears'
    BY <1>1, <1>2, <1>5, <1>6 DEF CookieInv, SessionHasCsrf, LogoutClears
  <2> QED
    BY <1>1, <1>2, <1>5, <1>6, <2>1 DEF CookieInv
<1>8. SealInv' /\ TxInv' /\ Exclusive' /\ ServersInv'
  BY <1>1, SealKept, TxKept, ServersKept DEF SInv
<1>9. VisitInv'
  BY <1>1 DEF VisitInv
<1> QED
  BY <1>1, <1>5, <1>7, <1>8, <1>9 DEF SInv

LEMMA AnswerKeeps ==
  ASSUME SInv, Answer
  PROVE  SInv'
<1> DEFINE enters == visit.op = "login"
<1> DEFINE sent == visit.cookies # {}
<1> DEFINE prod == srv[visit.on].prod
<1> DEFINE text == secrets[Address].text
<1>1. /\ visit # NoVisit /\ visit' = NoVisit /\ UNCHANGED <<secrets, tx, srv, ops>>
      /\ jar' = IF enters THEN jar \cup visit.cookies ELSE jar \ visit.cookies
  BY DEF Answer, SetCookie, ClearCookie
<1>2. /\ visit \in VisitType /\ CookiesMade(visit)
      /\ ghost.moved = FALSE \/ ghost.split = FALSE =>
           \A c \in visit.cookies : c.domain = Domain(prod, text)
  BY <1>1 DEF SInv, VisitInv
<1>3. /\ visit.op \in {"login", "logout"} /\ visit.left \subseteq AuthCookies
      /\ visit.cookies \subseteq Cookies /\ visit.on \in Servers
  BY <1>2 DEF VisitType
<1>4. ghost \in GhostType /\ CookieInv /\ ghost.mode \in BOOLEAN /\ ghost.moved \in BOOLEAN
      /\ ghost.out \in BOOLEAN /\ ghost.split \in BOOLEAN /\ prod \in BOOLEAN
  BY <1>3 DEF SInv, RowsInv, ServersInv, GhostType, SrvType
<1>5. PICK o \in BOOLEAN, m \in BOOLEAN, v \in BOOLEAN, u \in BOOLEAN :
        /\ o = IF enters THEN ghost.out /\ ~sent ELSE ghost.out \/ visit.left = {}
        /\ m = IF enters /\ sent THEN prod ELSE ghost.mode
        /\ u = (jar' # {} /\ (ghost.split \/ (enters /\ sent /\ "csrft" \in visit.left)))
        /\ v = (jar' # {} /\ (ghost.moved \/ (jar # {} /\ sent /\ prod # ghost.mode)))
  BY <1>4
<1>6. ghost' = [ghost EXCEPT !.out = o, !.mode = m, !.moved = v, !.split = u]
  <2>1. ghost' = [ghost EXCEPT
          !.out = IF enters THEN ghost.out /\ ~sent ELSE ghost.out \/ visit.left = {},
          !.mode = IF enters /\ sent THEN prod ELSE ghost.mode,
          !.split = jar' # {} /\ (ghost.split \/ (enters /\ sent /\ "csrft" \in visit.left)),
          !.moved = jar' # {} /\ (ghost.moved \/ (jar # {} /\ sent /\ prod # ghost.mode))]
    BY <1>4 DEF Answer, GhostType
  <2> HIDE DEF enters, sent, prod
  <2> QED
    BY <1>5, <2>1
<1>7. /\ RowsInv' /\ ghost'.out = o /\ ghost'.mode = m /\ ghost'.moved = v /\ ghost'.split = u
  BY <1>1, <1>6, RowsRemembered
<1>8. \A c \in Cookies : c = [name |-> c.name, domain |-> c.domain] /\ c.name \in AuthCookies
  BY DEF Cookies
<1>9. jar \subseteq Cookies /\ jar' \subseteq Cookies
  BY <1>1, <1>3, <1>4 DEF CookieInv
<1>10. v = FALSE => \A c \in jar' : c.domain = Domain(m, text)
  <2> SUFFICES ASSUME v = FALSE, NEW c \in jar' PROVE c.domain = Domain(m, text)
    OBVIOUS
  <2>1. ghost.moved = FALSE /\ (jar = {} \/ ~sent \/ prod = ghost.mode)
    BY <1>4, <1>5
  <2>2. CASE c \in jar
    <3>1. c.domain = Domain(ghost.mode, text)
      BY <1>4, <2>1, <2>2 DEF CookieInv
    <3> QED
      BY <1>5, <2>1, <2>2, <3>1
  <2>3. CASE c \notin jar
    <3>1. c \in visit.cookies /\ enters
      BY <1>1, <2>3
    <3> QED
      BY <1>2, <1>5, <2>1, <3>1
  <2> QED
    BY <2>2, <2>3
<1>11. SessionHasCsrf'
  <2> SUFFICES ASSUME NEW c \in jar', c.name = "session_token", u = FALSE
               PROVE  [c EXCEPT !.name = "csrft"] \in jar'
    BY <1>5, <1>7 DEF SessionHasCsrf
  <2>1. ghost.split = FALSE /\ (enters /\ sent => "csrft" \notin visit.left)
    BY <1>4, <1>5
  <2>2. PICK e : e = [name |-> "csrft", domain |-> c.domain]
    OBVIOUS
  <2>3. [c EXCEPT !.name = "csrft"] = e
    BY <1>8, <1>9, <2>2
  <2>4. ASSUME c \in jar PROVE e \in jar
    BY <1>4, <2>1, <2>3, <2>4 DEF CookieInv, SessionHasCsrf
  <2>5. CASE enters
    <3>1. CASE c \in jar
      BY <1>1, <2>3, <2>4, <2>5, <3>1
    <3>2. CASE c \in visit.cookies
      <4>1. PICK x \in visit.cookies : x.name = "csrft"
        BY <1>2, <2>1, <2>5, <3>2 DEF CookiesMade, AuthCookies
      <4>2. x.domain = c.domain
        BY <1>2, <2>1, <3>2, <4>1
      <4>3. x = e
        BY <1>3, <1>8, <2>2, <4>1, <4>2
      <4> QED
        BY <1>1, <2>3, <2>5, <4>1, <4>3
    <3> QED
      BY <1>1, <2>5, <3>1, <3>2
  <2>6. CASE ~enters
    <3>1. c \in jar /\ c \notin visit.cookies /\ e \in jar /\ visit.op = "logout"
      BY <1>1, <1>3, <2>4, <2>6
    <3>2. ASSUME e \in visit.cookies PROVE FALSE
      <4>1. "csrft" \notin visit.left
        BY <1>2, <2>2, <3>2 DEF CookiesMade
      <4>2. visit.left = {}
        BY <1>2, <3>1, <4>1 DEF CookiesMade
      <4>3. PICK x \in visit.cookies : x.name = "session_token"
        BY <1>2, <3>1, <4>2 DEF CookiesMade, AuthCookies
      <4>4. x.domain = c.domain
        BY <1>2, <2>1, <2>2, <3>2, <4>3
      <4>5. x = c
        BY <1>3, <1>8, <1>9, <4>3, <4>4
      <4> QED
        BY <3>1, <4>3, <4>5
    <3> QED
      BY <1>1, <2>3, <2>6, <3>1, <3>2
  <2> QED
    BY <2>5, <2>6
<1>12. LogoutClears'
  <2> SUFFICES ASSUME o = TRUE, jar' # {}, v = FALSE PROVE FALSE
    BY <1>5, <1>7 DEF LogoutClears
  <2>1. ghost.moved = FALSE /\ (jar = {} \/ ~sent \/ prod = ghost.mode)
    BY <1>4, <1>5
  <2>2. ASSUME ghost.out PROVE jar = {}
    BY <1>4, <2>1, <2>2 DEF CookieInv, LogoutClears
  <2>3. CASE enters
    BY <1>1, <1>5, <2>2, <2>3
  <2>4. CASE ~enters /\ ghost.out
    BY <1>1, <2>2, <2>4
  <2>5. CASE ~enters /\ visit.left = {}
    <3>1. PICK c \in jar' : TRUE
      OBVIOUS
    <3>2. c \in jar /\ c \notin visit.cookies /\ c.name \in AuthCookies
      BY <1>1, <1>8, <1>9, <2>5, <3>1
    <3>3. PICK x \in visit.cookies : x.name = c.name
      BY <1>2, <1>3, <2>5, <3>2 DEF CookiesMade
    <3>4. prod = ghost.mode
      BY <2>1, <3>2, <3>3
    <3>5. x.domain = Domain(prod, text) /\ c.domain = Domain(ghost.mode, text)
      BY <1>2, <1>4, <2>1, <3>2, <3>3 DEF CookieInv
    <3>6. x = c
      BY <1>3, <1>8, <1>9, <3>2, <3>3, <3>4, <3>5
    <3> QED
      BY <3>2, <3>3, <3>6
  <2> QED
    BY <1>5, <2>3, <2>4, <2>5
<1>13. CookieInv'
  BY <1>1, <1>7, <1>9, <1>10, <1>11, <1>12 DEF CookieInv
<1>14. SealInv' /\ TxInv' /\ Exclusive' /\ ServersInv'
  BY <1>1, SealKept, TxKept, ServersKept DEF SInv
<1>15. VisitInv'
  BY <1>1 DEF VisitInv
<1> QED
  BY <1>1, <1>7, <1>13, <1>14, <1>15 DEF SInv

LEMMA ExpiryKeeps ==
  ASSUME SInv, CookiesExpire({"session_token", "csrft"})
  PROVE  SInv'
<1>1. /\ UNCHANGED <<secrets, tx, srv, visit, ops>>
      /\ jar' = {c \in jar : c.name \notin {"session_token", "csrft"}}
  BY DEF CookiesExpire
<1>2. ghost \in GhostType /\ CookieInv /\ ghost.mode \in BOOLEAN /\ ghost.moved \in BOOLEAN
      /\ ghost.out \in BOOLEAN /\ ghost.split \in BOOLEAN
  BY DEF SInv, RowsInv, GhostType
<1> DEFINE over == jar' = {} /\ visit = NoVisit
<1>3. PICK v \in BOOLEAN, u \in BOOLEAN :
        /\ v = IF over THEN FALSE ELSE ghost.moved
        /\ u = IF over THEN FALSE ELSE ghost.split
  BY <1>2
<1>4. ghost' = [ghost EXCEPT !.out = ghost.out, !.mode = ghost.mode, !.moved = v, !.split = u]
  BY <1>2, <1>3 DEF CookiesExpire, GhostType
<1>5. /\ RowsInv' /\ ghost'.out = ghost.out /\ ghost'.mode = ghost.mode
      /\ ghost'.moved = v /\ ghost'.split = u
  BY <1>1, <1>2, <1>4, RowsRemembered
<1>6. jar' \subseteq jar /\ \A c \in jar' : c.name # "session_token"
  BY <1>1
<1>7. jar' = {} \/ v = ghost.moved
  BY <1>2, <1>3
<1>8. CookieInv'
  <2>1. SessionHasCsrf'
    BY <1>6 DEF SessionHasCsrf
  <2>2. LogoutClears'
    BY <1>2, <1>5, <1>6, <1>7 DEF CookieInv, LogoutClears
  <2> QED
    BY <1>1, <1>2, <1>5, <1>6, <1>7, <2>1, <2>2 DEF CookieInv
<1>9. SealInv' /\ TxInv' /\ Exclusive' /\ ServersInv'
  BY <1>1, SealKept, TxKept, ServersKept DEF SInv
<1>10. VisitInv'
  <2>1. VisitInv /\ (visit # NoVisit => srv[visit.on].phase = "serving")
    BY DEF SInv, VisitInv
  <2>2. visit # NoVisit => v = ghost.moved /\ u = ghost.split
    BY <1>3
  <2> QED
    BY <1>1, <1>5, <2>1, <2>2, VisitKept
<1> QED
  BY <1>1, <1>5, <1>8, <1>9, <1>10 DEF SInv

-----------------------------------------------------------------------------
(* The invariant *)

LEMMA FourWays ==
  ASSUME NEW n, NEW x, NEW y, NEW z, NEW u,
         Production \notin Tokens, Address \notin Tokens, Production # Address
  PROVE  LET d == CASE n \in Tokens -> x [] n = Production -> y
                    [] n = Address -> z [] OTHER -> u
         IN /\ n \in Tokens => d = x
            /\ n = Production => d = y
            /\ n = Address => d = z
            /\ n \notin Tokens /\ n # Production /\ n # Address => d = u
<1> DEFINE d == CASE n \in Tokens -> x [] n = Production -> y
                  [] n = Address -> z [] OTHER -> u
<1>1. ASSUME n \in Tokens
      PROVE  n # Production /\ n # Address /\ d = x
  BY <1>1
<1>2. ASSUME n = Production
      PROVE  n \notin Tokens /\ n # Address /\ d = y
  BY <1>2
<1>3. ASSUME n = Address
      PROVE  n \notin Tokens /\ n # Production /\ d = z
  BY <1>3
<1>4. ASSUME n \notin Tokens, n # Production, n # Address
      PROVE  d = u
  BY <1>4
<1> HIDE DEF d
<1>5. /\ n \in Tokens => d = x
      /\ n = Production => d = y
      /\ n = Address => d = z
      /\ n \notin Tokens /\ n # Production /\ n # Address => d = u
  BY <1>1, <1>2, <1>3, <1>4
<1> QED
  BY <1>5 DEF d

\* The empty text.
Blank == ""

LEMMA DefaultRows ==
  ASSUME NEW mode \in {"true", "false"}, NEW n \in Names
  PROVE  \/ Default(n, mode) = Missing /\ n \in Slots
         \/ \E x \in {mode, "w1", Blank} :
              Default(n, mode) = [key |-> Plain, text |-> x] /\ (n = Password => x = Blank)
<1>1. PICK y : y = [key |-> Plain, text |-> mode]
  OBVIOUS
<1>2. PICK z : z = [key |-> Plain, text |-> "w1"]
  OBVIOUS
<1>3. PICK u : u = [key |-> Plain, text |-> Blank]
  OBVIOUS
<1>4. PICK x : x = Missing
  OBVIOUS
<1>5. n \in Tokens => n \in Slots
  BY SettingsAssumption DEF SettingsAssumption
<1>6. Password # Production /\ Password # Address /\ Password \notin Tokens
  <2>1. Password \notin Tokens
    BY SettingsAssumption DEF SettingsAssumption
  <2> QED
    BY <2>1 DEF Password, Production, Address
<1>7. Production \notin Tokens /\ Address \notin Tokens /\ Production # Address
  <2>1. Production \notin Tokens /\ Address \notin Tokens
    BY SettingsAssumption DEF SettingsAssumption
  <2> QED
    BY <2>1 DEF Production, Address
<1> DEFINE d == CASE n \in Tokens -> x [] n = Production -> y
                  [] n = Address -> z [] OTHER -> u
<1>8. Default(n, mode) = d
  BY <1>1, <1>2, <1>3, <1>4 DEF Default, Blank
<1>9. /\ n \in Tokens => d = x
      /\ n = Production => d = y
      /\ n = Address => d = z
      /\ n \notin Tokens /\ n # Production /\ n # Address => d = u
  BY <1>7, FourWays
<1> HIDE DEF d
<1>10. CASE n \in Tokens
  BY <1>4, <1>5, <1>8, <1>9, <1>10
<1>11. CASE n = Production
  BY <1>1, <1>6, <1>8, <1>9, <1>11
<1>12. CASE n = Address
  BY <1>2, <1>6, <1>8, <1>9, <1>12
<1>13. CASE n \notin Tokens /\ n # Production /\ n # Address
  BY <1>3, <1>8, <1>9, <1>13
<1> QED
  BY <1>10, <1>11, <1>12, <1>13

LEMMA InvInit ==
  ASSUME SettingsInit
  PROVE  SInv
<1>1. PICK mode \in {"true", "false"} : secrets = [n \in Names |-> Default(n, mode)]
  BY DEF SettingsInit
<1>2. mode \in Texts /\ {"w1", Blank} \subseteq Texts
  <2>1. "true" \in Typed[Production] /\ "false" \in Typed[Production]
    <3> DEFINE f(m) == CASE m = Production -> {"true", "false"}
                         [] m = Address    -> {"w2", Prefixed}
                         [] m = Password   -> {"pw", Prefixed}
                         [] OTHER          -> {"a"}
    <3>1. Typed[Production] = f(Production)
      BY Texting DEF Typed
    <3>2. f(Production) = {"true", "false"}
      BY DEF Production, Address, Password
    <3> QED
      BY <3>1, <3>2
  <2>2. mode \in Typed[Production] /\ Typed[Production] \subseteq Texts
    BY <2>1, Texting
  <2>3. {"w1", Blank} \subseteq Texts
    BY Texting DEF Blank
  <2> QED
    BY <2>2, <2>3
<1>3. \A n \in Names : secrets[n] = Default(n, mode)
  BY <1>1
<1>4. \A n \in Names :
        \/ secrets[n] = Missing /\ n \in Slots
        \/ /\ secrets[n] \in [key : {Plain}, text : {mode, "w1", Blank}]
           /\ n = Password => secrets[n].text = Blank
  <2> SUFFICES ASSUME NEW n \in Names
               PROVE  \/ secrets[n] = Missing /\ n \in Slots
                      \/ /\ secrets[n] \in [key : {Plain}, text : {mode, "w1", Blank}]
                         /\ n = Password => secrets[n].text = Blank
    OBVIOUS
  <2>1. \/ secrets[n] = Missing /\ n \in Slots
        \/ \E x \in {mode, "w1", Blank} :
             secrets[n] = [key |-> Plain, text |-> x] /\ (n = Password => x = Blank)
    BY <1>3, DefaultRows
  <2> QED
    BY <2>1
<1>5. secrets \in [Names -> Stored \cup {Missing}]
  <2>1. \A n \in Names : Default(n, mode) \in Stored \cup {Missing}
    BY <1>2, <1>3, <1>4 DEF Stored
  <2> QED
    BY <1>1, <2>1
<1>6. /\ tx = [w \in Writers |-> NoTx] /\ srv = [p \in Servers |-> Down]
      /\ jar = {} /\ visit = NoVisit /\ ops = 0
      /\ ghost = [latest |-> [n \in Names |-> secrets[n].text], excused |-> {}, raw |-> Names,
                  sealer |-> Plain, out |-> TRUE, mode |-> FALSE, moved |-> FALSE,
                  split |-> FALSE]
  BY DEF SettingsInit
<1>7. TxInv /\ Exclusive
  <2>1. NoTx \in TxType /\ \A n \in Names : NoTx.own[n] = Untouched
    BY NoTxIsGood DEF GoodTx, NoRows
  <2>2. \A w \in Writers : GoodTx(w, NoTx)
    BY NoTxIsGood
  <2> QED
    BY <1>6, <2>1, <2>2 DEF TxInv, Exclusive
<1>8. Down \in SrvType /\ Down.phase = "down" /\ Down.mail = "" /\ NoTx.op = "none"
  BY Texting, NoTxIsGood DEF Down, SrvType
<1>9. SealInv
  BY <1>6, <1>8 DEF SealInv, Sealing, Writers
<1>10. ServersInv
  BY <1>6, <1>8 DEF ServersInv, ProductionIsGuarded, MailPasswordIsReal
<1>11. CookieInv /\ VisitInv
  BY <1>6 DEF CookieInv, VisitInv, SessionHasCsrf, LogoutClears
<1>12. RowsInv
  <2>1. \A n \in Names : secrets[n].text \in Texts
    BY <1>5, Texting, Marks DEF Stored
  <2>2. ghost \in GhostType
    BY <1>6, <2>1 DEF GhostType
  <2>3. PassOK(secrets[Password])
    <3>1. Password \in Names /\ Password \notin Slots
      BY SettingsAssumption, Texting DEF SettingsAssumption
    <3>2. secrets[Password] = [key |-> Plain, text |-> Blank]
      BY <1>4, <3>1
    <3>3. secrets[Password].key = Plain /\ secrets[Password].text = Blank
      BY <3>2
    <3> QED
      BY <3>3 DEF PassOK, Blank
  <2>4. secrets[Production].key \in {Plain, "missing", ghost.sealer}
    <3>1. Production \in Names
      BY Texting
    <3> QED
      BY <1>4, <3>1, Marks
  <2>5. SavesAreKept /\ PlaintextIsNewerThanSealing
    BY <1>6 DEF SavesAreKept, PlaintextIsNewerThanSealing
  <2> QED
    BY <1>5, <2>2, <2>3, <2>4, <2>5 DEF RowsInv
<1>13. ops \in 0..MaxOps
  <2>1. MaxOps \in Nat
    BY SettingsAssumption DEF SettingsAssumption
  <2> QED
    BY <1>6, <2>1
<1> QED
  BY <1>7, <1>9, <1>10, <1>11, <1>12, <1>13 DEF SInv

LEMMA InvNext ==
  ASSUME SInv, [SettingsNext]_settingsVars
  PROVE  SInv'
<1>1. ASSUME NEW w \in Writers, TxStep(w) \/ ConnectionLost(w) PROVE SInv'
  BY <1>1, TransactionKeeps
<1>2. ASSUME NEW p \in Servers, NEW env \in Envs, NEW isProd \in BOOLEAN,
             Initialize(p, env, isProd)
      PROVE  SInv'
  BY <1>2, InitializeKeeps
<1>3. ASSUME NEW p \in Servers, ValidateProdEnvironment(p) \/ Shutdown(p) \/ MakeMailHelper(p)
      PROVE  SInv'
  BY <1>3, ServerKeeps
<1>4. ASSUME NEW p \in Servers, NEW order \in HeapOrders, MigrateSecretsToEncrypted(p, order)
      PROVE  SInv'
  BY <1>4, MigrateKeeps
<1>5. ASSUME NEW p \in Servers, NEW cdn \in BOOLEAN, NEW remember \in BOOLEAN,
             Login(p, cdn, remember)
      PROVE  SInv'
  BY <1>5, VisitBegins
<1>6. ASSUME NEW p \in Servers, NEW cdn \in BOOLEAN, NEW first \in jar, NEW echo \in jar,
             Logout(p, cdn, first, echo)
      PROVE  SInv'
  BY <1>6, VisitBegins
<1>7. ASSUME \/ CookiesExpire({"session_token", "csrft"})
             \/ SetCookieHelper \/ Answer \/ AnswerLost
      PROVE  SInv'
  BY <1>7, ExpiryKeeps, SetCookieHelperKeeps, AnswerKeeps, AnswerLostKeeps
<1>8. ASSUME NEW w \in Editors, NEW p \in Servers, NEW names \in (SUBSET Slots) \ {{}},
             NEW request \in Orders(names), AddSecrets(w, p, request)
      PROVE  SInv'
  BY <1>8, SaveKeeps
<1>9. ASSUME NEW w \in Editors, NEW n \in {Production, Address, Password},
             \/ OperatorEdits(w, n, Missing)
             \/ \E t \in Typed[n] : OperatorEdits(w, n, [key |-> Plain, text |-> t])
      PROVE  SInv'
  <2>1. \A t \in Typed[n] : [key |-> Plain, text |-> t] \in Typing(n)
    BY DEF Typing
  <2> QED
    BY <1>9, <2>1, EditKeeps
<1>10. ASSUME UNCHANGED settingsVars PROVE SInv'
  <2>1. VisitInv'
    BY <1>10, VisitKept DEF SInv, VisitInv, settingsVars
  <2> QED
    BY <1>10, <2>1, TxKept, SealKept, RowsKept, ServersKept, CookiesKept DEF SInv, settingsVars
<1> QED
  BY <1>1, <1>2, <1>3, <1>4, <1>5, <1>6, <1>7, <1>8, <1>9, <1>10 DEF SettingsNext

LEMMA InvHolds == SettingsSpec => []SInv
<1>1. SettingsInit => SInv
  BY InvInit
<1>2. SInv /\ [SettingsNext]_settingsVars => SInv'
  BY InvNext
<1> QED
  BY <1>1, <1>2, PTL DEF SettingsSpec

-----------------------------------------------------------------------------
(* The theorems *)

LEMMA WaiterHasAName ==
  ASSUME NEW w \in Writers, TxInv, tx[w].wait = "waiting" \/ tx[w].at = "insert"
  PROVE  /\ Name(w) \in Names /\ tx[w].todo[Name(w)] # Untouched
         /\ \A m \in Names : tx[w].todo[m] # Untouched => tx[w].order[Name(w)] <= tx[w].order[m]
<1>1. tx[w] \in TxType /\ Progress(tx[w])
  BY DEF TxInv, GoodTx
<1>2. Left(tx[w].todo) # {}
  BY <1>1 DEF Progress
<1>3. tx[w].order \in [Names -> Nat]
  BY <1>1 DEF TxType
<1>4. /\ Name(w) \in Left(tx[w].todo)
      /\ \A m \in Left(tx[w].todo) : tx[w].order[Name(w)] <= tx[w].order[m]
  <2>1. Name(w) = First(tx[w].todo, tx[w].order)
    BY NameIsFirst
  <2> QED
    BY <1>2, <1>3, <2>1, FirstIsLeast
<1> QED
  BY <1>4 DEF Left

LEMMA NeverDeadlock ==
  ASSUME SInv
  PROVE  SavesNeverDeadlock
<1> SUFFICES ASSUME NEW w \in Editors, NEW v \in Editors, Deadlocked(w, v),
                    tx[w].op = "save", tx[v].op = "save"
             PROVE  FALSE
  BY DEF SavesNeverDeadlock
<1>1. TxInv /\ Exclusive /\ w \in Writers /\ v \in Writers /\ w # v
  BY DEF SInv, Deadlocked, Writers
<1>2. /\ tx[w].wait = "waiting" \/ tx[w].at = "insert"
      /\ tx[v].own[Name(w)] # Untouched
      /\ tx[v].wait = "waiting" \/ tx[v].at = "insert"
      /\ tx[w].own[Name(v)] # Untouched
  BY DEF Deadlocked, WaitsFor
<1>3. /\ Name(w) \in Names /\ tx[w].todo[Name(w)] # Untouched
      /\ Name(v) \in Names /\ tx[v].todo[Name(v)] # Untouched
  BY <1>1, <1>2, WaiterHasAName
<1>4. Purpose(w, tx[w]) /\ Purpose(v, tx[v])
  BY <1>1 DEF TxInv, GoodTx
<1>5. Name(w) \in Slots /\ Name(v) \in Slots
  BY <1>3, <1>4 DEF Purpose
<1>6. tx[w].order[Name(v)] <= tx[w].order[Name(w)] /\ tx[v].order[Name(w)] <= tx[v].order[Name(v)]
  BY <1>2, <1>3, <1>4 DEF Purpose
<1>7. /\ tx[w].order[Name(w)] = Registry[Name(w)] /\ tx[w].order[Name(v)] = Registry[Name(v)]
      /\ tx[v].order[Name(w)] = Registry[Name(w)] /\ tx[v].order[Name(v)] = Registry[Name(v)]
  BY <1>3, <1>4, <1>5 DEF Purpose, RegistryOrder
<1>8. /\ Registry \in [Slots -> 1..Cardinality(Slots)] /\ Cardinality(Slots) \in Nat
      /\ \A m, n \in Slots : Registry[m] = Registry[n] => m = n
  <2>1. Registry \in Orders(Slots) /\ IsFiniteSet(Slots)
    BY SettingsAssumption DEF SettingsAssumption
  <2> QED
    BY <2>1, FS_CardinalityType DEF Orders
<1>9. Registry[Name(w)] \in Nat /\ Registry[Name(v)] \in Nat
  BY <1>5, <1>8
<1>10. Registry[Name(v)] <= Registry[Name(w)] /\ Registry[Name(w)] <= Registry[Name(v)]
  BY <1>6, <1>7
<1>11. Registry[Name(w)] = Registry[Name(v)]
  BY <1>9, <1>10
<1>12. Name(w) = Name(v)
  BY <1>5, <1>8, <1>11
<1>13. tx[v].own[Name(w)] # Untouched /\ tx[w].own[Name(w)] # Untouched
  BY <1>2, <1>12
<1> QED
  BY <1>1, <1>3, <1>13 DEF Exclusive

LEMMA InvTypes ==
  ASSUME SInv
  PROVE  SettingsTypeOK
<1>1. tx \in [Writers -> TxType]
  BY DEF SInv, TxInv
<1>2. srv \in [Servers -> SrvType]
  BY DEF SInv, ServersInv
<1>3. secrets \in [Names -> Stored \cup {Missing}] /\ ghost \in GhostType
  BY DEF SInv, RowsInv
<1>4. jar \subseteq Cookies /\ ops \in 0..MaxOps
  BY DEF SInv, CookieInv
<1>5. visit \in {NoVisit} \cup VisitType
  BY DEF SInv, VisitInv
<1> QED
  BY <1>1, <1>2, <1>3, <1>4, <1>5 DEF VisitType, SettingsTypeOK, TxType, SrvType, GhostType, Values

\* Whatever saves, operators and sealing passes do to config_secrets, statement by
\* statement (AddSecret, MigrateSecretsToEncrypted, PutManageSiteTheme): a committed
\* value keeps its text until the next one is committed, or one was committed while a
\* sealing pass was under way; what is in plaintext an operator typed after the last
\* pass; and two saves never wait for each other.
THEOREM SavesCompleteHolds == SettingsSpec => []SavesComplete
<1>1. SInv => SavesComplete
  <2> SUFFICES ASSUME SInv PROVE SavesComplete
    OBVIOUS
  <2>1. SettingsTypeOK /\ SavesNeverDeadlock
    BY InvTypes, NeverDeadlock
  <2>2. SavesAreKept /\ PlaintextIsNewerThanSealing
    BY DEF SInv, RowsInv
  <2> QED
    BY <2>1, <2>2 DEF SavesComplete
<1> QED
  BY <1>1, InvHolds, PTL

\* The cookies of a browser come and go together (InitializeFromLogin,
\* BuildAuthCookieProperties, Logout), however the statements of an answer, of the
\* operator and of a starting server interleave: a session has its CSRF companion of
\* the same domain unless the website address was written during a login or logout or
\* a login failed between the two, and a logout that came to clear them all leaves
\* none unless the address was written or the mode changed since the login began.
THEOREM CookiesPairedHolds == SettingsSpec => []CookiesPaired
<1>1. SInv => CookiesPaired
  BY DEF SInv, CookieInv, CookiesPaired
<1> QED
  BY <1>1, InvHolds, PTL

\* Only ServerConfig::Initialize of that server takes it from down to configured.
LEMMA TransactionStarts ==
  ASSUME SInv, NEW p \in Servers, NEW w \in Writers, TxStep(w) \/ ConnectionLost(w)
  PROVE  srv'[p].phase \in {srv[p].phase, "down", "serving"}
<1>1. srv \in [Servers -> SrvType] /\ Down.phase = "down"
  BY DEF SInv, ServersInv, Down
<1>2. CASE RollBack(w)
  BY <1>1, <1>2 DEF RollBack
<1>3. CASE Commit(w)
  <2>1. srv' = IF w \in Servers THEN [srv EXCEPT ![w].phase = "serving"] ELSE srv
    BY <1>3 DEF Commit
  <2>2. srv[p] \in SrvType
    BY <1>1
  <2> QED
    BY <1>1, <2>1, <2>2 DEF SrvType
<1>4. CASE srv' = srv
  BY <1>4
<1> QED
  BY <1>2, <1>3, <1>4 DEF TxStep, ConnectionLost, UniqueViolation, DeadlockDetected,
    StatementWaits, AddSecretDelete, AddSecretInsert, OperatorStatement

LEMMA OthersStart ==
  ASSUME SInv, NEW p \in Servers, NEW q \in Servers, NEW env \in Envs, NEW isProd \in BOOLEAN,
         Initialize(q, env, isProd), p # q
  PROVE  srv'[p] = srv[p]
BY DEF Initialize, SInv, ServersInv

LEMMA StartedStays ==
  ASSUME SInv, NEW p \in Servers, NEW q \in Servers,
         ValidateProdEnvironment(q) \/ Shutdown(q) \/ MakeMailHelper(q)
  PROVE  srv'[p].phase \in {srv[p].phase, "down", "validated"}
<1>1. srv \in [Servers -> SrvType] /\ Down.phase = "down" /\ srv[p] \in SrvType
  BY DEF SInv, ServersInv, Down
<1>2. CASE srv' = [srv EXCEPT ![q] = Down]
  BY <1>1, <1>2
<1>3. CASE srv' = [srv EXCEPT ![q].phase = "validated"]
  BY <1>1, <1>3 DEF SrvType
<1>4. CASE \E password : srv' = [srv EXCEPT ![q].mail = password]
  BY <1>1, <1>4 DEF SrvType
<1> QED
  BY <1>2, <1>3, <1>4 DEF ValidateProdEnvironment, Shutdown, MakeMailHelper

\* What a start under key reads of the mode: no seal but its own.
LEMMA StartReadsTheMode ==
  ASSUME SInv, NEW p \in Servers, NEW env \in Envs, NEW isProd \in BOOLEAN,
         Initialize(p, env, isProd), ghost.sealer # Plain, srv'[p].key # ghost.sealer
  PROVE  Production \in ghost.raw \/ secrets[Production] = Missing
<1> DEFINE key == MakeSecretsAtRest(isProd, env)
<1>1. srv'[p].key = key
  BY DEF Initialize, SInv, ServersInv, SrvType, Down
<1>2. key # Failed /\ LookupSecret(key, Production) # Failed
  BY DEF Initialize
<1>3. key \in SealKeys
  BY <1>2, KeyOfAStart
<1> HIDE DEF key
<1>4. Production \in Names
  BY Texting
<1>5. /\ secrets[Production] \in Stored \cup {Missing}
      /\ secrets[Production].key \in {Plain, "missing", ghost.sealer}
      /\ PlaintextIsNewerThanSealing
  BY <1>4 DEF SInv, RowsInv
<1>6. CASE secrets[Production] = Missing
  BY <1>6
<1>7. CASE secrets[Production] # Missing /\ ~IsEncrypted(secrets[Production])
  BY <1>4, <1>5, <1>7 DEF PlaintextIsNewerThanSealing
<1>8. CASE secrets[Production] # Missing /\ IsEncrypted(secrets[Production])
  <2>1. secrets[Production].key = key
    BY <1>2, <1>8 DEF LookupSecret, Decrypt
  <2>2. secrets[Production].key # "missing"
    BY <1>5, <1>8 DEF Stored, Plain, DevKey
  <2>3. key # Plain
    BY <1>3 DEF SealKeys, Plain, DevKey
  <2> QED
    BY <1>1, <1>5, <2>1, <2>2, <2>3
<1> QED
  BY <1>6, <1>7, <1>8

LEMMA StartsUnderTheKey ==
  ASSUME SInv, [SettingsNext]_settingsVars, NEW p \in Servers,
         srv[p].phase = "down", srv'[p].phase = "configured",
         ghost.sealer # Plain, srv'[p].key # ghost.sealer
  PROVE  Production \in ghost.raw \/ secrets[Production] = Missing
<1>1. ASSUME NEW w \in Writers, TxStep(w) \/ ConnectionLost(w) PROVE FALSE
  BY <1>1, TransactionStarts
<1>2. ASSUME NEW q \in Servers, NEW env \in Envs, NEW isProd \in BOOLEAN,
             Initialize(q, env, isProd)
      PROVE  Production \in ghost.raw \/ secrets[Production] = Missing
  BY <1>2, StartReadsTheMode, OthersStart
<1>3. ASSUME NEW q \in Servers,
             ValidateProdEnvironment(q) \/ Shutdown(q) \/ MakeMailHelper(q)
      PROVE  FALSE
  BY <1>3, StartedStays
<1>4. ASSUME srv' = srv PROVE FALSE
  BY <1>4
<1>5. ASSUME NEW q \in Servers, NEW order \in HeapOrders, MigrateSecretsToEncrypted(q, order)
      PROVE  FALSE
  BY <1>4, <1>5 DEF MigrateSecretsToEncrypted
<1>6. ASSUME NEW q \in Servers, NEW cdn \in BOOLEAN, NEW remember \in BOOLEAN,
             Login(q, cdn, remember)
      PROVE  FALSE
  BY <1>4, <1>6 DEF Login
<1>7. ASSUME NEW q \in Servers, NEW cdn \in BOOLEAN, NEW first \in jar, NEW echo \in jar,
             Logout(q, cdn, first, echo)
      PROVE  FALSE
  BY <1>4, <1>7 DEF Logout
<1>8. ASSUME \/ CookiesExpire({"session_token", "csrft"})
             \/ SetCookieHelper \/ Answer \/ AnswerLost
      PROVE  FALSE
  BY <1>4, <1>8 DEF CookiesExpire, SetCookieHelper, Answer, AnswerLost
<1>9. ASSUME NEW w \in Editors, NEW q \in Servers, NEW names, NEW request \in Orders(names),
             AddSecrets(w, q, request)
      PROVE  FALSE
  BY <1>4, <1>9 DEF AddSecrets
<1>10. ASSUME NEW w \in Editors, NEW n, NEW stored, OperatorEdits(w, n, stored) PROVE FALSE
  BY <1>4, <1>10 DEF OperatorEdits
<1>11. ASSUME UNCHANGED settingsVars PROVE FALSE
  BY <1>4, <1>11 DEF settingsVars
<1> QED
  BY <1>1, <1>2, <1>3, <1>5, <1>6, <1>7, <1>8, <1>9, <1>10, <1>11 DEF SettingsNext

\* ServerConfig::Initialize and ValidateProdEnvironment: a server in production has
\* every guard (round the CDN only the health probes' paths are served), mail is never sent with an unreadable or sealed password, and a server
\* that starts under another key than the one the mode was sealed with starts only after
\* an operator typed the mode again or deleted its row.
THEOREM StartIsSafeHolds == SettingsSpec => StartIsSafe
<1> DEFINE Right == \A p \in Servers :
       srv[p].phase = "down" /\ srv'[p].phase = "configured" /\ ghost.sealer # Plain
         /\ srv'[p].key # ghost.sealer
       => Production \in ghost.raw \/ secrets[Production] = Missing
<1>1. SInv /\ [SettingsNext]_settingsVars => Right
  BY StartsUnderTheKey
<1>2. SettingsSpec => [][Right]_settingsVars
  BY <1>1, InvHolds, PTL DEF SettingsSpec
<1>3. SettingsSpec => WrongKeyCannotStart
  BY <1>2 DEF WrongKeyCannotStart
<1>4. SInv => ProductionIsGuarded /\ MailPasswordIsReal
  BY DEF SInv, ServersInv
<1>5. SettingsSpec => []ProductionIsGuarded /\ []MailPasswordIsReal
  BY <1>4, InvHolds, PTL
<1> QED
  BY <1>3, <1>5 DEF StartIsSafe
=============================================================================
