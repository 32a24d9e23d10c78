------------------------ MODULE ConnectionPoolProofs ------------------------
(***************************************************************************)
(* TLAPS proofs about ConnectionPool, for every finite set of threads,     *)
(* every pool size and every bound on calls, hang-ups and refusals.        *)
(***************************************************************************)
EXTENDS ConnectionPool, FiniteSetTheorems, SequenceTheorems, TLAPS

-----------------------------------------------------------------------------
(* Type correctness *)

(***************************************************************************)
(* Popping and pushing keep freeProviders_ a sequence of slots.            *)
(***************************************************************************)
LEMMA StackType ==
  ASSUME TypeOK
  PROVE  /\ \A c \in Slots : Append(freeProviders, c) \in Seq(Slots)
         /\ freeProviders # <<>> =>
              /\ freeProviders[Len(freeProviders)] \in Slots
              /\ SubSeq(freeProviders, 1, Len(freeProviders) - 1) \in Seq(Slots)
  BY DEF TypeOK

(***************************************************************************)
(* A thread that holds a slot holds a created one; the link index of every *)
(* action is therefore a slot.                                             *)
(***************************************************************************)
HoldersHaveSlots == \A t \in Threads : pc[t] \in Holding => conn[t] \in Slots

LEMMA TypeInit == Init => TypeOK /\ HoldersHaveSlots
  BY PoolAssumption
  DEF Init, TypeOK, HoldersHaveSlots, Locations, LinkStates, Slots, Holding

LEMMA TypeNext == TypeOK /\ HoldersHaveSlots /\ [Next]_vars
                    => TypeOK' /\ HoldersHaveSlots'
<1> SUFFICES ASSUME TypeOK, HoldersHaveSlots, [Next]_vars
             PROVE  TypeOK' /\ HoldersHaveSlots'
  OBVIOUS
<1> USE PoolAssumption DEF PoolAssumption
<1>1. ASSUME NEW t \in Threads, RunInTransaction(t)
      PROVE  TypeOK' /\ HoldersHaveSlots'
  BY <1>1 DEF RunInTransaction, Goto, TypeOK, HoldersHaveSlots, Locations,
    Holding, Slots, poolVars
<1>8. ASSUME NEW t \in Threads, SpuriousWake(t)
      PROVE  TypeOK' /\ HoldersHaveSlots'
  BY <1>8 DEF SpuriousWake, Goto, TypeOK, HoldersHaveSlots, Locations, Holding,
    Slots, poolVars
<1>2. ASSUME NEW t \in Threads, Acquire(t)
      PROVE  TypeOK' /\ HoldersHaveSlots'
  <2>1. CASE AcquireFree(t)
    <3>1. /\ freeProviders[Len(freeProviders)] \in Slots
          /\ SubSeq(freeProviders, 1, Len(freeProviders) - 1) \in Seq(Slots)
      BY <2>1, StackType DEF AcquireFree
    <3>2. QED BY <2>1, <3>1 DEF AcquireFree, TakeFree, Goto, TypeOK,
      HoldersHaveSlots, Locations, Holding, Slots
  <2>2. CASE AcquireNew(t)
    BY <2>2 DEF AcquireNew, Goto, TypeOK, HoldersHaveSlots,
      Locations, LinkStates, Holding, Slots, poolVars
  <2>3. CASE AcquireFails(t)
    BY <2>3 DEF AcquireFails, Refused, Goto, TypeOK, HoldersHaveSlots,
      Locations, LinkStates, Holding, Slots, poolVars
  <2>4. CASE AcquireWait(t)
    BY <2>4 DEF AcquireWait, Goto, TypeOK, HoldersHaveSlots,
      Locations, LinkStates, Holding, Slots, poolVars
  <2>5. CASE WokenTakes(t)
    <3>1. /\ freeProviders[Len(freeProviders)] \in Slots
          /\ SubSeq(freeProviders, 1, Len(freeProviders) - 1) \in Seq(Slots)
      BY <2>5, StackType DEF WokenTakes
    <3>2. QED BY <2>5, <3>1 DEF WokenTakes, TakeFree, Goto, TypeOK,
      HoldersHaveSlots, Locations, Holding, Slots
  <2>6. CASE WokenWaits(t)
    BY <2>6 DEF WokenWaits, Goto, TypeOK, HoldersHaveSlots,
      Locations, LinkStates, Holding, Slots, poolVars
  <2>7. QED BY <1>2, <2>1, <2>2, <2>3, <2>4, <2>5, <2>6 DEF Acquire
<1>3. ASSUME NEW t \in Threads, Use(t)
      PROVE  TypeOK' /\ HoldersHaveSlots'
  <2>1. CASE ReconnectClosed(t)
    <3>1. CASE ReconnectOpens(t, "begin")
      BY <2>1, <3>1 DEF ReconnectClosed, ReconnectOpens, Goto, TypeOK,
        HoldersHaveSlots, Locations, LinkStates, Holding, Slots, poolVars
    <3>2. CASE ReconnectRefused(t)
      BY <2>1, <3>2 DEF ReconnectClosed, ReconnectRefused, Refused, Throw, Goto,
        TypeOK, HoldersHaveSlots, Locations, Holding, Slots, poolVars
    <3>3. QED BY <2>1, <3>1, <3>2 DEF ReconnectClosed, Reconnect
  <2>2. CASE ReconnectLost(t)
    <3>1. CASE ReconnectOpens(t, "rebegin")
      BY <2>2, <3>1 DEF ReconnectLost, ReconnectOpens, Goto, TypeOK,
        HoldersHaveSlots, Locations, LinkStates, Holding, Slots, poolVars
    <3>2. CASE ReconnectRefused(t)
      BY <2>2, <3>2 DEF ReconnectLost, ReconnectRefused, Refused, Throw, Goto,
        TypeOK, HoldersHaveSlots, Locations, Holding, Slots, poolVars
    <3>3. QED BY <2>2, <3>1, <3>2 DEF ReconnectLost, Reconnect
  <2>3. CASE Begin(t)
    BY <2>3 DEF Begin, Goto, TypeOK, HoldersHaveSlots,
      Locations, LinkStates, Holding, Slots, poolVars
  <2>4. CASE BeginRefused(t)
    BY <2>4 DEF BeginRefused, Refused, Throw, Goto, TypeOK, HoldersHaveSlots,
      Locations, LinkStates, Holding, Slots, poolVars
  <2>5. CASE BeginLost(t)
    BY <2>5 DEF BeginLost, Throw, Goto, TypeOK, HoldersHaveSlots,
      Locations, LinkStates, Holding, Slots, poolVars
  <2>6. CASE BodyReturns(t)
    BY <2>6 DEF BodyReturns, Goto, TypeOK, HoldersHaveSlots,
      Locations, LinkStates, Holding, Slots, poolVars
  <2>7. CASE BodyThrows(t)
    BY <2>7 DEF BodyThrows, CloseIfLost, Throw, Goto, TypeOK, HoldersHaveSlots,
      Locations, LinkStates, Holding, Slots, poolVars
  <2>8. CASE Commit(t)
    BY <2>8 DEF Commit, Goto, TypeOK, HoldersHaveSlots,
      Locations, LinkStates, Holding, Slots, poolVars
  <2>9. CASE CommitThrows(t)
    BY <2>9 DEF CommitThrows, CloseIfLost, Refused, Throw, Goto, TypeOK, HoldersHaveSlots,
      Locations, LinkStates, Holding, Slots, poolVars
  <2>10. QED BY <1>3, <2>1, <2>2, <2>3, <2>4, <2>5, <2>6, <2>7, <2>8, <2>9 DEF Use
<1>4. ASSUME NEW t \in Threads, Release(t)
      PROVE  TypeOK' /\ HoldersHaveSlots'
  <2>1. CASE ReleasePush(t)
    <3>1. conn[t] \in Slots
      BY <2>1 DEF ReleasePush, HoldersHaveSlots, Holding
    <3>2. QED BY <2>1, <3>1, StackType DEF ReleasePush, Goto, TypeOK,
      HoldersHaveSlots, Locations, Holding, Slots
  <2>2. CASE ReleaseNotify(t)
    BY <2>2 DEF ReleaseNotify, At, Goto, TypeOK, HoldersHaveSlots,
      Locations, LinkStates, Holding, Slots, poolVars
  <2>3. QED BY <1>4, <2>1, <2>2 DEF Release
<1>5. ASSUME NEW c \in Slots, ServerHangsUp(c)
      PROVE  TypeOK' /\ HoldersHaveSlots'
  BY <1>5 DEF ServerHangsUp, At, TypeOK, HoldersHaveSlots, LinkStates, Slots,
    poolVars
<1>6. CASE UNCHANGED vars
  BY <1>6 DEF TypeOK, HoldersHaveSlots, vars
<1>7. QED BY <1>1, <1>2, <1>3, <1>4, <1>5, <1>6, <1>8 DEF Next, ThreadStep, Quiescent

(***************************************************************************)
(* The variables of the pool keep their types: in particular createdCount_ *)
(* never exceeds maxConnections_, whoever races in AcquireProvider.        *)
(***************************************************************************)
THEOREM PoolTypeCorrect == Spec => []TypeOK
<1>1. Init => TypeOK /\ HoldersHaveSlots
  BY TypeInit
<1>2. TypeOK /\ HoldersHaveSlots /\ [Next]_vars => (TypeOK /\ HoldersHaveSlots)'
  BY TypeNext
<1>3. QED BY <1>1, <1>2, PTL DEF Spec

-----------------------------------------------------------------------------
(* Slots are exclusive and never leak *)

SlotInv == ExclusiveSlots /\ NoSlotLeaks

(***************************************************************************)
(* pop_back(): all elements but the last, in their places.                 *)
(***************************************************************************)
LEMMA PopFront ==
  ASSUME NEW S, NEW s \in Seq(S), s # <<>>
  PROVE  /\ Len(SubSeq(s, 1, Len(s) - 1)) = Len(s) - 1
         /\ \A i \in 1..(Len(s) - 1) : SubSeq(s, 1, Len(s) - 1)[i] = s[i]
<1> DEFINE m == Len(s) - 1
<1>1. m \in Nat /\ m \in Int /\ 1 \in Int /\ \A i \in 1..m : s[i] \in S
  OBVIOUS
<1> HIDE DEF m
<1>2. /\ Len(SubSeq(s, 1, m)) = IF 1 <= m THEN m - 1 + 1 ELSE 0
      /\ \A i \in 1..(m - 1 + 1) : SubSeq(s, 1, m)[i] = s[1 + i - 1]
  BY ONLY <1>1, SubSeqProperties, SMT
<1>3. Len(SubSeq(s, 1, m)) = m
  BY <1>1, <1>2
<1>4. ASSUME NEW i \in 1..m
      PROVE  SubSeq(s, 1, m)[i] = s[i]
  <2>1. i \in 1..(m - 1 + 1) /\ 1 + i - 1 = i
    BY <1>1
  <2>2. QED BY <2>1, <1>2
<1>5. QED BY <1>3, <1>4 DEF m

(***************************************************************************)
(* Popping the last slot of a duplicate-free stack removes exactly it.     *)
(***************************************************************************)
LEMMA PopRemovesLast ==
  ASSUME TypeOK, ExclusiveSlots, freeProviders # <<>>,
         freeProviders' = SubSeq(freeProviders, 1, Len(freeProviders) - 1)
  PROVE  /\ FreeSlots' = FreeSlots \ {freeProviders[Len(freeProviders)]}
         /\ freeProviders[Len(freeProviders)] \in FreeSlots
         /\ Len(freeProviders') = Len(freeProviders) - 1
         /\ \A i \in 1..Len(freeProviders') : freeProviders'[i] = freeProviders[i]
<1> DEFINE n == Len(freeProviders)
<1>1. /\ freeProviders \in Seq(Slots)
      /\ n \in Nat \ {0}
  BY DEF TypeOK
<1>2. /\ Len(freeProviders') = n - 1
      /\ \A i \in 1..Len(freeProviders') : freeProviders'[i] = freeProviders[i]
  BY <1>1, PopFront
<1>3. \A i, j \in 1..n : i # j => freeProviders[i] # freeProviders[j]
  BY DEF ExclusiveSlots
<1>4. FreeSlots' = FreeSlots \ {freeProviders[n]}
  <2>1. FreeSlots' = {freeProviders[i] : i \in 1..(n - 1)}
    BY <1>2 DEF FreeSlots
  <2>2. \A i \in 1..n : i \in 1..(n - 1) \/ i = n
    BY <1>1
  <2>3. 1..(n - 1) \subseteq 1..n /\ n \in 1..n /\ n \notin 1..(n - 1)
    BY <1>1
  <2>4. \A i \in 1..(n - 1) : freeProviders[i] # freeProviders[n]
    BY <1>3, <2>3
  <2>5. QED BY <2>1, <2>2, <2>3, <2>4, Zenon DEF FreeSlots
<1>5. freeProviders[n] \in FreeSlots
  BY <1>1 DEF FreeSlots
<1>6. QED BY <1>2, <1>4, <1>5

(***************************************************************************)
(* Pushing a slot adds exactly it.                                         *)
(***************************************************************************)
LEMMA PushAdds ==
  ASSUME TypeOK, NEW c \in Slots, freeProviders' = Append(freeProviders, c)
  PROVE  /\ FreeSlots' = FreeSlots \cup {c}
         /\ Len(freeProviders') = Len(freeProviders) + 1
         /\ freeProviders'[Len(freeProviders) + 1] = c
         /\ \A i \in 1..Len(freeProviders) : freeProviders'[i] = freeProviders[i]
<1>1. freeProviders \in Seq(Slots)
  BY DEF TypeOK
<1>2. /\ Len(freeProviders') = Len(freeProviders) + 1
      /\ freeProviders'[Len(freeProviders) + 1] = c
      /\ \A i \in 1..Len(freeProviders) : freeProviders'[i] = freeProviders[i]
  BY <1>1
<1>3. FreeSlots' = FreeSlots \cup {c}
  BY <1>1, <1>2 DEF FreeSlots
<1>4. QED BY <1>2, <1>3

(***************************************************************************)
(* A step in which nobody acquires or releases a slot.                     *)
(***************************************************************************)
LEMMA QuietStep ==
  ASSUME SlotInv, UNCHANGED <<conn, freeProviders, createdCount>>,
         Holders' = Holders
  PROVE  SlotInv'
  BY DEF SlotInv, ExclusiveSlots, NoSlotLeaks, FreeSlots

(***************************************************************************)
(* A thread takes a slot that no thread holds.                             *)
(***************************************************************************)
LEMMA TakeStep ==
  ASSUME TypeOK, SlotInv, NEW t \in Threads, pc[t] \notin Holding,
         freeProviders # <<>>, TakeFree(t)
  PROVE  SlotInv'
<1> DEFINE c == freeProviders[Len(freeProviders)]
<1>1. /\ FreeSlots' = FreeSlots \ {c}
      /\ c \in FreeSlots
      /\ Len(freeProviders') = Len(freeProviders) - 1
      /\ \A i \in 1..Len(freeProviders') : freeProviders'[i] = freeProviders[i]
  BY PopRemovesLast DEF SlotInv, TakeFree
<1>2. /\ conn' = [conn EXCEPT ![t] = c]
      /\ createdCount' = createdCount
      /\ conn \in [Threads -> 0..MaxConnections]
  BY DEF TakeFree, TypeOK
<1>3. Holders' = Holders \cup {t} /\ t \notin Holders
  BY DEF TakeFree, Goto, Holders, Holding, TypeOK
<1>4. Holders \subseteq Threads
  BY DEF Holders
<1>5. \A u \in Holders : conn[u] \notin FreeSlots
  BY DEF SlotInv, ExclusiveSlots
<1>6. \A u \in Holders : conn'[u] = conn[u]
  BY <1>2, <1>3, <1>4
<1>7. conn'[t] = c
  BY <1>2
<1>8. \A u, v \in Holders' : u # v => conn'[u] # conn'[v]
  BY <1>1, <1>3, <1>5, <1>6, <1>7 DEF SlotInv, ExclusiveSlots
<1>9. \A u \in Holders' : conn'[u] \notin FreeSlots'
  BY <1>1, <1>3, <1>5, <1>6, <1>7
<1>10. \A i, j \in 1..Len(freeProviders') :
         i # j => freeProviders'[i] # freeProviders'[j]
  <2>1. 1..Len(freeProviders') \subseteq 1..Len(freeProviders)
    BY <1>1 DEF TypeOK
  <2>2. QED BY <2>1, <1>1 DEF SlotInv, ExclusiveSlots
<1>11. {conn'[u] : u \in Holders'} = {conn[u] : u \in Holders} \cup {c}
  BY <1>3, <1>6, <1>7
<1>12. NoSlotLeaks'
  BY <1>1, <1>2, <1>11 DEF SlotInv, NoSlotLeaks
<1>13. QED BY <1>8, <1>9, <1>10, <1>12 DEF SlotInv, ExclusiveSlots

(***************************************************************************)
(* A thread gets a slot that did not exist before.                         *)
(***************************************************************************)
LEMMA NewStep ==
  ASSUME TypeOK, SlotInv, NEW t \in Threads, AcquireNew(t)
  PROVE  SlotInv'
<1> DEFINE c == createdCount + 1
<1>1. /\ conn' = [conn EXCEPT ![t] = c]
      /\ createdCount' = c
      /\ freeProviders' = freeProviders
      /\ conn \in [Threads -> 0..MaxConnections]
      /\ createdCount \in Nat
  BY DEF AcquireNew, TypeOK
<1>2. Holders' = Holders \cup {t} /\ t \notin Holders /\ Holders \subseteq Threads
  BY DEF AcquireNew, Goto, Holders, Holding, TypeOK
<1>3. /\ FreeSlots' = FreeSlots
      /\ FreeSlots \subseteq 1..createdCount
      /\ \A u \in Holders : conn[u] \in 1..createdCount
  BY <1>1 DEF FreeSlots, SlotInv, NoSlotLeaks
<1>4. c \notin 1..createdCount /\ 1..c = (1..createdCount) \cup {c}
  BY <1>1
<1>5. (\A u \in Holders : conn'[u] = conn[u]) /\ conn'[t] = c
  BY <1>1, <1>2
<1>6. ExclusiveSlots'
  BY <1>1, <1>2, <1>3, <1>4, <1>5 DEF SlotInv, ExclusiveSlots
<1>7. {conn'[u] : u \in Holders'} = {conn[u] : u \in Holders} \cup {c}
  BY <1>2, <1>5
<1>8. NoSlotLeaks'
  BY <1>1, <1>3, <1>4, <1>7 DEF SlotInv, NoSlotLeaks
<1>9. QED BY <1>6, <1>8 DEF SlotInv

(***************************************************************************)
(* A thread gives its slot back.                                           *)
(***************************************************************************)
LEMMA PushStep ==
  ASSUME TypeOK, HoldersHaveSlots, SlotInv, NEW t \in Threads, ReleasePush(t)
  PROVE  SlotInv'
<1> DEFINE c == conn[t]
<1>1. c \in Slots /\ t \in Holders /\ Holders \subseteq Threads
  BY DEF ReleasePush, HoldersHaveSlots, Holders, Holding
<1>2. /\ FreeSlots' = FreeSlots \cup {c}
      /\ Len(freeProviders') = Len(freeProviders) + 1
      /\ freeProviders'[Len(freeProviders) + 1] = c
      /\ \A i \in 1..Len(freeProviders) : freeProviders'[i] = freeProviders[i]
  BY <1>1, PushAdds DEF ReleasePush
<1>3. Holders' = Holders \ {t}
  BY DEF ReleasePush, Goto, Holders, Holding, TypeOK
<1>4. \A u \in Holders' : conn'[u] = conn[u]
  BY <1>1, <1>3 DEF ReleasePush, TypeOK
<1>5. \A u \in Holders' : conn[u] # c /\ conn[u] \notin FreeSlots
  BY <1>1, <1>3 DEF SlotInv, ExclusiveSlots
<1>6. c \notin FreeSlots
  BY <1>1 DEF SlotInv, ExclusiveSlots
<1>7. \A i, j \in 1..Len(freeProviders') :
        i # j => freeProviders'[i] # freeProviders'[j]
  <2>1. \A i \in 1..Len(freeProviders') :
          i \in 1..Len(freeProviders) \/ i = Len(freeProviders) + 1
    BY <1>2 DEF TypeOK
  <2>2. \A i \in 1..Len(freeProviders) : freeProviders[i] # c
    BY <1>6 DEF FreeSlots
  <2>3. QED BY <2>1, <2>2, <1>2 DEF SlotInv, ExclusiveSlots
<1>8. ExclusiveSlots'
  BY <1>2, <1>3, <1>4, <1>5, <1>7 DEF SlotInv, ExclusiveSlots
<1>9. {conn[u] : u \in Holders} = {conn'[u] : u \in Holders'} \cup {c}
  BY <1>1, <1>3, <1>4
<1>10. NoSlotLeaks'
  BY <1>2, <1>9 DEF SlotInv, NoSlotLeaks, ReleasePush
<1>11. QED BY <1>8, <1>10 DEF SlotInv

(***************************************************************************)
(* The other steps of a thread: no slot changes hands, and the thread is   *)
(* at a location that holds one before the step iff it is after it.        *)
(***************************************************************************)
LEMMA OtherSteps ==
  ASSUME TypeOK, NEW t \in Threads,
         \/ RunInTransaction(t) \/ SpuriousWake(t)
         \/ AcquireFails(t) \/ AcquireWait(t) \/ WokenWaits(t)
         \/ Use(t) \/ ReleaseNotify(t)
  PROVE  /\ UNCHANGED <<conn, freeProviders, createdCount>>
         /\ Holders' = Holders
<1>1. CASE RunInTransaction(t) \/ SpuriousWake(t)
  BY <1>1 DEF RunInTransaction, SpuriousWake, Goto, poolVars, Holders, Holding,
    TypeOK
<1>2. CASE AcquireFails(t) \/ AcquireWait(t) \/ WokenWaits(t)
  BY <1>2 DEF AcquireFails, AcquireWait, WokenWaits, Goto, poolVars, Holders,
    Holding, TypeOK
<1>3. CASE Use(t)
  <2>1. UNCHANGED <<conn, freeProviders, createdCount>>
    BY <1>3 DEF Use, ReconnectClosed, Begin, BeginRefused, BeginLost,
      ReconnectLost, BodyReturns, BodyThrows, Commit, CommitThrows, poolVars
  <2>2. pc[t] \in Holding /\ \E loc \in Holding : Goto(t, loc)
    BY <1>3 DEF Use, ReconnectClosed, Begin, BeginRefused, BeginLost,
      ReconnectLost, BodyReturns, BodyThrows, Commit, CommitThrows, Reconnect,
      ReconnectOpens, ReconnectRefused, Throw, Holding
  <2>3. Holders' = Holders
    BY <2>2 DEF Goto, Holders, TypeOK
  <2>4. QED BY <2>1, <2>3
<1>4. CASE ReleaseNotify(t)
  BY <1>4 DEF ReleaseNotify, At, Goto, poolVars, Holders, Holding, TypeOK
<1>5. QED BY <1>1, <1>2, <1>3, <1>4

LEMMA SlotNext == TypeOK /\ HoldersHaveSlots /\ SlotInv /\ [Next]_vars => SlotInv'
<1> SUFFICES ASSUME TypeOK, HoldersHaveSlots, SlotInv, [Next]_vars
             PROVE  SlotInv'
  OBVIOUS
<1>1. ASSUME NEW t \in Threads,
             \/ RunInTransaction(t) \/ SpuriousWake(t)
             \/ AcquireFails(t) \/ AcquireWait(t) \/ WokenWaits(t)
             \/ Use(t) \/ ReleaseNotify(t)
      PROVE  SlotInv'
  BY <1>1, OtherSteps, QuietStep
<1>2. ASSUME NEW t \in Threads, AcquireFree(t) \/ WokenTakes(t)
      PROVE  SlotInv'
  BY <1>2, TakeStep DEF AcquireFree, WokenTakes, Holding
<1>3. ASSUME NEW t \in Threads, AcquireNew(t)
      PROVE  SlotInv'
  BY <1>3, NewStep
<1>4. ASSUME NEW t \in Threads, ReleasePush(t)
      PROVE  SlotInv'
  BY <1>4, PushStep
<1>5. CASE (\E c \in Slots : ServerHangsUp(c)) \/ Quiescent \/ UNCHANGED vars
  <2>1. UNCHANGED <<conn, freeProviders, createdCount>> /\ Holders' = Holders
    BY <1>5 DEF ServerHangsUp, Quiescent, vars, poolVars, Holders
  <2>2. QED BY <2>1, QuietStep
<1>6. QED BY <1>1, <1>2, <1>3, <1>4, <1>5
  DEF Next, ThreadStep, Acquire, Release

(***************************************************************************)
(* AcquireProvider and ReleaseProvider never put one connection in the     *)
(* hands of two threads, for any number of threads and any bound.          *)
(***************************************************************************)
THEOREM PoolSlotsExclusive == Spec => []ExclusiveSlots
<1>1. Init => TypeOK /\ HoldersHaveSlots /\ SlotInv
  <2>1. Init => SlotInv
    BY DEF Init, SlotInv, ExclusiveSlots, NoSlotLeaks, FreeSlots, Holders, Holding
  <2>2. QED BY <2>1, TypeInit
<1>2. TypeOK /\ HoldersHaveSlots /\ SlotInv /\ [Next]_vars
        => (TypeOK /\ HoldersHaveSlots /\ SlotInv)'
  BY TypeNext, SlotNext
<1>3. SlotInv => ExclusiveSlots
  BY DEF SlotInv
<1>4. QED BY <1>1, <1>2, <1>3, PTL DEF Spec

(***************************************************************************)
(* RunInTransaction gives its slot back on every path: a created slot is   *)
(* always free or held.                                                    *)
(***************************************************************************)
THEOREM PoolNoSlotLeaks == Spec => []NoSlotLeaks
<1>1. Init => TypeOK /\ HoldersHaveSlots /\ SlotInv
  <2>1. Init => SlotInv
    BY DEF Init, SlotInv, ExclusiveSlots, NoSlotLeaks, FreeSlots, Holders, Holding
  <2>2. QED BY <2>1, TypeInit
<1>2. TypeOK /\ HoldersHaveSlots /\ SlotInv /\ [Next]_vars
        => (TypeOK /\ HoldersHaveSlots /\ SlotInv)'
  BY TypeNext, SlotNext
<1>3. SlotInv => NoSlotLeaks
  BY DEF SlotInv
<1>4. QED BY <1>1, <1>2, <1>3, PTL DEF Spec

(***************************************************************************)
(* Together: every slot the pool has created is in one place, and there    *)
(* are no more than maxConnections_ of them.                               *)
(***************************************************************************)
THEOREM PoolSlotsAccounted == Spec => []SlotsAccounted
<1>1. TypeOK /\ ExclusiveSlots /\ NoSlotLeaks => SlotsAccounted
  BY DEF SlotsAccounted
<1>2. QED BY <1>1, PoolTypeCorrect, PoolSlotsExclusive, PoolNoSlotLeaks, PTL

-----------------------------------------------------------------------------
(* No wake-up is lost *)

(***************************************************************************)
(* The sets of threads at a location are finite; counting a thread that    *)
(* joins or leaves one.                                                    *)
(***************************************************************************)
LEMMA AtFinite ==
  ASSUME NEW loc
  PROVE  /\ IsFiniteSet(At(loc))
         /\ Cardinality(At(loc)) \in Nat
<1>1. At(loc) \subseteq Threads
  BY DEF At
<1>2. IsFiniteSet(At(loc))
  BY <1>1, PoolAssumption, FS_Subset DEF PoolAssumption
<1>3. QED BY <1>2, FS_CardinalityType

LEMMA Joins ==
  ASSUME NEW t \in Threads, NEW loc, t \notin At(loc),
         At(loc)' = At(loc) \cup {t}
  PROVE  Cardinality(At(loc))' = Cardinality(At(loc)) + 1
  BY AtFinite, FS_AddElement

LEMMA Leaves ==
  ASSUME NEW t \in Threads, NEW loc, t \in At(loc),
         At(loc)' = At(loc) \ {t}
  PROVE  Cardinality(At(loc))' = Cardinality(At(loc)) - 1
  BY AtFinite, FS_RemoveElement

LEMMA WakeupNext == TypeOK /\ NoLostWakeup /\ [Next]_vars => NoLostWakeup'
<1> SUFFICES ASSUME TypeOK, NoLostWakeup, [Next]_vars
             PROVE  NoLostWakeup'
  OBVIOUS
<1> DEFINE W == At("waiting")
           N == At("notify")
           K == At("woken")
           F == Len(freeProviders)
<1>0. /\ Cardinality(N) \in Nat /\ Cardinality(K) \in Nat /\ F \in Nat
      /\ W # {} => F <= Cardinality(N) + Cardinality(K)
  BY AtFinite DEF TypeOK, NoLostWakeup
<1>1. ASSUME W' = W, N' = N, K' = K, F' <= F, F' \in Nat
      PROVE  NoLostWakeup'
  BY <1>0, <1>1 DEF NoLostWakeup
<1>2. ASSUME NEW t \in Threads,
             RunInTransaction(t) \/ AcquireNew(t) \/ AcquireFails(t)
      PROVE  NoLostWakeup'
  <2>1. W' = W /\ N' = N /\ K' = K
    BY <1>2 DEF RunInTransaction, AcquireNew, AcquireFails, Goto, At, TypeOK
  <2>2. F' = F
    BY <1>2 DEF RunInTransaction, AcquireNew, AcquireFails, poolVars
  <2>3. QED BY <1>0, <1>1, <2>1, <2>2
<1>3. ASSUME NEW t \in Threads, AcquireFree(t)
      PROVE  NoLostWakeup'
  <2>1. W' = W /\ N' = N /\ K' = K
    BY <1>3 DEF AcquireFree, TakeFree, Goto, At, TypeOK
  <2>2. F' = F - 1 /\ F > 0
    BY <1>3, PopFront DEF AcquireFree, TakeFree, TypeOK
  <2>3. QED BY <1>0, <1>1, <2>1, <2>2
<1>4. ASSUME NEW t \in Threads, AcquireWait(t) \/ WokenWaits(t)
      PROVE  NoLostWakeup'
  <2>1. freeProviders' = <<>>
    BY <1>4 DEF AcquireWait, WokenWaits, poolVars
  <2>2. Cardinality(N)' \in Nat /\ Cardinality(K)' \in Nat
    <3>1. N' \subseteq Threads /\ K' \subseteq Threads
      BY DEF At
    <3>2. QED
      BY <3>1, PoolAssumption, FS_Subset, FS_CardinalityType DEF PoolAssumption
  <2>3. QED BY <2>1, <2>2 DEF NoLostWakeup
<1>5. ASSUME NEW t \in Threads, SpuriousWake(t)
      PROVE  NoLostWakeup'
  <2>1. /\ t \in W /\ t \notin K
        /\ N' = N /\ K' = K \cup {t}
    BY <1>5 DEF SpuriousWake, Goto, At, TypeOK
  <2>2. Cardinality(K)' = Cardinality(K) + 1
    BY <2>1, Joins
  <2>3. F' = F
    BY <1>5 DEF SpuriousWake, poolVars
  <2>4. QED BY <1>0, <2>1, <2>2, <2>3 DEF NoLostWakeup
<1>6. ASSUME NEW t \in Threads, WokenTakes(t)
      PROVE  NoLostWakeup'
  <2>1. /\ W' = W /\ N' = N
        /\ t \in K /\ K' = K \ {t}
    BY <1>6 DEF WokenTakes, TakeFree, Goto, At, TypeOK
  <2>2. Cardinality(K)' = Cardinality(K) - 1
    BY <2>1, Leaves
  <2>3. F' = F - 1 /\ F > 0
    BY <1>6, PopFront DEF WokenTakes, TakeFree, TypeOK
  <2>4. QED BY <1>0, <2>1, <2>2, <2>3 DEF NoLostWakeup
<1>7. ASSUME NEW t \in Threads, Use(t)
      PROVE  NoLostWakeup'
  <2>1. pc[t] \in Holding /\ \E loc \in Holding : Goto(t, loc)
    BY <1>7 DEF Use, ReconnectClosed, Begin, BeginRefused, BeginLost,
      ReconnectLost, BodyReturns, BodyThrows, Commit, CommitThrows, Reconnect,
      ReconnectOpens, ReconnectRefused, Throw, Holding
  <2>2. W' = W /\ N' = N /\ K' = K
    BY <2>1 DEF Goto, Holding, At, TypeOK
  <2>3. F' = F
    BY <1>7 DEF Use, ReconnectClosed, Begin, BeginRefused, BeginLost,
      ReconnectLost, BodyReturns, BodyThrows, Commit, CommitThrows, poolVars
  <2>4. QED BY <1>0, <1>1, <2>2, <2>3
<1>8. ASSUME NEW t \in Threads, ReleasePush(t)
      PROVE  NoLostWakeup'
  <2>1. /\ W' = W /\ K' = K
        /\ t \notin N /\ N' = N \cup {t}
    BY <1>8 DEF ReleasePush, Goto, At, TypeOK
  <2>2. Cardinality(N)' = Cardinality(N) + 1
    BY <2>1, Joins
  <2>3. F' = F + 1
    BY <1>8 DEF ReleasePush, TypeOK
  <2>4. QED BY <1>0, <2>1, <2>2, <2>3 DEF NoLostWakeup
<1>9. ASSUME NEW t \in Threads, ReleaseNotify(t)
      PROVE  NoLostWakeup'
  <2>1. F' = F
    BY <1>9 DEF ReleaseNotify, poolVars
  <2>2. CASE W = {}
    <3>1. W' = {}
      BY <1>9, <2>2 DEF ReleaseNotify, Goto, At, TypeOK
    <3>2. QED BY <3>1 DEF NoLostWakeup
  <2>3. CASE W # {}
    <3>1. PICK w \in W : pc' = [pc EXCEPT ![t] = "idle", ![w] = "woken"]
      BY <1>9, <2>3 DEF ReleaseNotify
    <3>2. pc[t] = "notify" /\ pc[w] = "waiting" /\ w \in Threads
      BY <1>9, <3>1 DEF ReleaseNotify, At
    <3>3. t \in N /\ N' = N \ {t}
      BY <3>1, <3>2 DEF At, TypeOK
    <3>4. w \notin K /\ K' = K \cup {w}
      BY <3>1, <3>2 DEF At, TypeOK
    <3>5. Cardinality(N)' = Cardinality(N) - 1
      BY <3>3, Leaves
    <3>6. Cardinality(K)' = Cardinality(K) + 1
      BY <3>2, <3>4, Joins
    <3>7. QED BY <1>0, <2>1, <2>3, <3>5, <3>6 DEF NoLostWakeup
  <2>4. QED BY <2>2, <2>3
<1>10. CASE (\E c \in Slots : ServerHangsUp(c)) \/ Quiescent \/ UNCHANGED vars
  <2>1. UNCHANGED <<pc, freeProviders>>
    BY <1>10 DEF ServerHangsUp, Quiescent, vars, poolVars
  <2>2. QED BY <1>0, <1>1, <2>1 DEF At
<1>11. QED
  BY <1>2, <1>3, <1>4, <1>5, <1>6, <1>7, <1>8, <1>9, <1>10
  DEF Next, ThreadStep, Acquire, Release

(***************************************************************************)
(* notify_one outside the mutex never strands a waiter: while threads are  *)
(* blocked, no free slot is without a pending notification or a woken      *)
(* thread, for any number of threads and any bound.                        *)
(***************************************************************************)
THEOREM PoolNoLostWakeup == Spec => []NoLostWakeup
<1>1. Init => TypeOK /\ HoldersHaveSlots /\ NoLostWakeup
  <2>1. Init => At("waiting") = {}
    BY DEF Init, At
  <2>2. QED BY <2>1, TypeInit DEF NoLostWakeup
<1>2. TypeOK /\ HoldersHaveSlots /\ NoLostWakeup /\ [Next]_vars
        => (TypeOK /\ HoldersHaveSlots /\ NoLostWakeup)'
  BY TypeNext, WakeupNext
<1>3. QED BY <1>1, <1>2, PTL DEF Spec

-----------------------------------------------------------------------------
(* The caller's work is never run again *)

BeforeWork == {"acquire", "waiting", "woken", "begin", "reconnect", "rebegin"}
InWork == {"body", "commit"}

(***************************************************************************)
(* How often the current call has started the work is determined by where  *)
(* the thread is: no path leads from InWork back to BeforeWork.            *)
(***************************************************************************)
WorkInv ==
  \A t \in Threads :
    /\ pc[t] \in BeforeWork => ran[t] = 0 /\ outcome[t] = "none"
    /\ pc[t] \in InWork => ran[t] = 1 /\ outcome[t] = "none"
    /\ ran[t] <= 1
    /\ outcome[t] = "ok" => ran[t] = 1

LEMMA WorkNext == TypeOK /\ WorkInv /\ [Next]_vars => WorkInv'
<1> SUFFICES ASSUME TypeOK, WorkInv, [Next]_vars
             PROVE  WorkInv'
  OBVIOUS
<1> USE DEF WorkInv, BeforeWork, InWork
<1>1. ASSUME NEW t \in Threads, RunInTransaction(t)
      PROVE  WorkInv'
  BY <1>1 DEF RunInTransaction, Goto, TypeOK
<1>2. ASSUME NEW t \in Threads, SpuriousWake(t)
      PROVE  WorkInv'
  BY <1>2 DEF SpuriousWake, Goto, TypeOK
<1>3. ASSUME NEW t \in Threads, Acquire(t)
      PROVE  WorkInv'
  <2>1. CASE AcquireFree(t) \/ WokenTakes(t)
    BY <2>1 DEF AcquireFree, WokenTakes, TakeFree, Goto, TypeOK
  <2>2. CASE AcquireNew(t)
    BY <2>2 DEF AcquireNew, Goto, TypeOK
  <2>3. CASE AcquireFails(t)
    BY <2>3 DEF AcquireFails, Goto, TypeOK
  <2>4. CASE AcquireWait(t) \/ WokenWaits(t)
    BY <2>4 DEF AcquireWait, WokenWaits, Goto, TypeOK
  <2>5. QED BY <1>3, <2>1, <2>2, <2>3, <2>4 DEF Acquire
<1>4. ASSUME NEW t \in Threads, Throw(t), UNCHANGED ran
      PROVE  WorkInv'
  BY <1>4 DEF Throw, Goto, TypeOK
<1>5. ASSUME NEW t \in Threads, Use(t)
      PROVE  WorkInv'
  <2>1. CASE ReconnectClosed(t)
    <3>1. CASE ReconnectOpens(t, "begin")
      BY <2>1, <3>1 DEF ReconnectClosed, ReconnectOpens, Goto, TypeOK
    <3>2. CASE ReconnectRefused(t)
      BY <2>1, <3>2, <1>4 DEF ReconnectClosed, ReconnectRefused
    <3>3. QED BY <2>1, <3>1, <3>2 DEF ReconnectClosed, Reconnect
  <2>2. CASE ReconnectLost(t)
    <3>1. CASE ReconnectOpens(t, "rebegin")
      BY <2>2, <3>1 DEF ReconnectLost, ReconnectOpens, Goto, TypeOK
    <3>2. CASE ReconnectRefused(t)
      BY <2>2, <3>2, <1>4 DEF ReconnectLost, ReconnectRefused
    <3>3. QED BY <2>2, <3>1, <3>2 DEF ReconnectLost, Reconnect
  <2>3. CASE Begin(t)
    BY <2>3 DEF Begin, Goto, TypeOK
  <2>4. CASE BeginLost(t)
    <3>1. CASE pc[t] = "begin"
      BY <2>4, <3>1 DEF BeginLost, Goto, TypeOK
    <3>2. CASE pc[t] # "begin"
      BY <2>4, <3>2, <1>4 DEF BeginLost
    <3>3. QED BY <3>1, <3>2
  <2>5. CASE BodyReturns(t)
    BY <2>5 DEF BodyReturns, Goto, TypeOK
  <2>6. CASE Commit(t)
    BY <2>6 DEF Commit, Goto, TypeOK
  <2>7. CASE BeginRefused(t) \/ BodyThrows(t) \/ CommitThrows(t)
    BY <2>7, <1>4 DEF BeginRefused, BodyThrows, CommitThrows
  <2>8. QED BY <1>5, <2>1, <2>2, <2>3, <2>4, <2>5, <2>6, <2>7 DEF Use
<1>6. ASSUME NEW t \in Threads, ReleasePush(t)
      PROVE  WorkInv'
  BY <1>6 DEF ReleasePush, Goto, TypeOK
<1>7. ASSUME NEW t \in Threads, ReleaseNotify(t)
      PROVE  WorkInv'
  BY <1>7 DEF ReleaseNotify, At, Goto, TypeOK
<1>8. CASE (\E c \in Slots : ServerHangsUp(c)) \/ Quiescent \/ UNCHANGED vars
  BY <1>8 DEF ServerHangsUp, Quiescent, vars
<1>9. QED BY <1>1, <1>2, <1>3, <1>5, <1>6, <1>7, <1>8
  DEF Next, ThreadStep, Release

(***************************************************************************)
(* However connections are lost and reopened, one RunInTransaction call    *)
(* starts databaseFunc at most once, and a call that returned ran it.      *)
(***************************************************************************)
THEOREM PoolWorkRunsAtMostOnce == Spec => []WorkRunsAtMostOnce
<1>1. Init => TypeOK /\ HoldersHaveSlots /\ WorkInv
  <2>1. Init => WorkInv
    BY DEF Init, WorkInv, BeforeWork, InWork
  <2>2. QED BY <2>1, TypeInit
<1>2. TypeOK /\ HoldersHaveSlots /\ WorkInv /\ [Next]_vars
        => (TypeOK /\ HoldersHaveSlots /\ WorkInv)'
  BY TypeNext, WorkNext
<1>3. WorkInv => WorkRunsAtMostOnce
  BY DEF WorkInv, WorkRunsAtMostOnce
<1>4. QED BY <1>1, <1>2, <1>3, PTL DEF Spec

-----------------------------------------------------------------------------
(* A lost connection is masked *)

(***************************************************************************)
(* A call whose reopened connection is lost again before its second BEGIN  *)
(* has had a mishap of its own; hang-ups on other connections, or before   *)
(* the call came, do not count.                                            *)
(***************************************************************************)
MaskInv ==
  /\ IdleLossIsMasked
  /\ \A t \in Threads :
       pc[t] = "rebegin" /\ link[conn[t]] = "lost" => t \in mishaps

(***************************************************************************)
(* A thread moves on without an exception, and no connection is lost by it.*)
(***************************************************************************)
LEMMA MaskMoves ==
  ASSUME TypeOK, MaskInv, UNCHANGED <<link, ran, mishaps>>,
         \A u \in Threads : outcome'[u] = "error" => outcome[u] = "error",
         \A u \in Threads : pc'[u] = "rebegin" => pc[u] = "rebegin" /\ conn'[u] = conn[u]
  PROVE  MaskInv'
  BY DEF MaskInv, IdleLossIsMasked

(***************************************************************************)
(* A call ends with an exception that its work or a mishap accounts for.   *)
(***************************************************************************)
LEMMA MaskThrows ==
  ASSUME TypeOK, HoldersHaveSlots, MaskInv, NEW t \in Threads, Throw(t),
         UNCHANGED <<ran, conn>>,
         mishaps \subseteq mishaps',
         \A c \in Slots : link'[c] = link[c] \/ (link[c] = "lost" /\ link'[c] = "closed"),
         ran[t] # 0 \/ t \in mishaps'
  PROVE  MaskInv'
<1>1. pc' = [pc EXCEPT ![t] = "release"] /\ outcome' = [outcome EXCEPT ![t] = "error"]
  BY DEF Throw, Goto
<1>2. IdleLossIsMasked'
  BY <1>1 DEF MaskInv, IdleLossIsMasked, TypeOK
<1>3. ASSUME NEW u \in Threads, pc'[u] = "rebegin", link'[conn'[u]] = "lost"
      PROVE  u \in mishaps'
  <2>1. pc[u] = "rebegin" /\ conn[u] \in Slots
    BY <1>1, <1>3 DEF TypeOK, HoldersHaveSlots, Holding
  <2>2. link[conn[u]] = "lost"
    BY <1>3, <2>1
  <2> QED BY <2>1, <2>2 DEF MaskInv
<1> QED BY <1>2, <1>3 DEF MaskInv

LEMMA MaskReconnects ==
  ASSUME TypeOK, HoldersHaveSlots, MaskInv, NEW t \in Threads, NEW next \in {"begin", "rebegin"},
         pc[t] \in {"begin", "reconnect"}, Reconnect(t, next), UNCHANGED <<conn, ran>>
  PROVE  MaskInv'
<1>1. conn[t] \in Slots
  BY DEF HoldersHaveSlots, Holding
<1>2. CASE ReconnectOpens(t, next)
  <2>1. /\ link' = [link EXCEPT ![conn[t]] = "up"] /\ pc' = [pc EXCEPT ![t] = next]
        /\ UNCHANGED <<outcome, mishaps>>
    BY <1>2 DEF ReconnectOpens, Goto
  <2>2. IdleLossIsMasked'
    BY <2>1 DEF MaskInv, IdleLossIsMasked
  <2>3. ASSUME NEW u \in Threads, pc'[u] = "rebegin", link'[conn'[u]] = "lost"
        PROVE  u \in mishaps'
    <3>1. link'[conn'[t]] = "up"
      BY <1>1, <2>1 DEF TypeOK
    <3>2. u # t /\ pc[u] = "rebegin"
      BY <2>1, <2>3, <3>1 DEF TypeOK
    <3>3. conn[u] \in Slots
      BY <3>2 DEF HoldersHaveSlots, Holding
    <3>4. link[conn[u]] = "lost"
      BY <2>1, <2>3, <3>3 DEF TypeOK
    <3> QED BY <2>1, <3>2, <3>4 DEF MaskInv
  <2> QED BY <2>2, <2>3 DEF MaskInv
<1>3. CASE ReconnectRefused(t)
  <2>1. mishaps' = mishaps \cup {t} /\ Throw(t) /\ UNCHANGED link
    BY <1>3 DEF ReconnectRefused, Refused
  <2> QED BY <2>1, MaskThrows
<1> QED BY <1>2, <1>3 DEF Reconnect

LEMMA MaskNext ==
  TypeOK /\ HoldersHaveSlots /\ WorkInv /\ MaskInv /\ [Next]_vars => MaskInv'
<1> SUFFICES ASSUME TypeOK, HoldersHaveSlots, WorkInv, MaskInv, [Next]_vars PROVE MaskInv'
  OBVIOUS
<1>2. ASSUME NEW t \in Threads, RunInTransaction(t) PROVE MaskInv'
  BY <1>2 DEF RunInTransaction, Goto, TypeOK, MaskInv, IdleLossIsMasked
<1>3. ASSUME NEW t \in Threads, SpuriousWake(t) \/ AcquireWait(t) \/ WokenWaits(t) PROVE MaskInv'
  BY <1>3, MaskMoves DEF SpuriousWake, AcquireWait, WokenWaits, Goto, TypeOK
<1>4. ASSUME NEW t \in Threads, AcquireFree(t) \/ WokenTakes(t) PROVE MaskInv'
  BY <1>4, MaskMoves DEF AcquireFree, WokenTakes, TakeFree, Goto, TypeOK
<1>5. ASSUME NEW t \in Threads, AcquireNew(t) PROVE MaskInv'
  <2>1. /\ link' = [link EXCEPT ![createdCount + 1] = "up"] /\ pc' = [pc EXCEPT ![t] = "begin"]
        /\ UNCHANGED <<ran, outcome, mishaps>> /\ conn' = [conn EXCEPT ![t] = createdCount + 1]
    BY <1>5 DEF AcquireNew, Goto
  <2>2. \A c \in Slots : link'[c] = "lost" => link[c] = "lost"
    BY <2>1 DEF TypeOK
  <2>3. \A u \in Threads : pc'[u] = "rebegin" =>
          pc[u] = "rebegin" /\ conn'[u] = conn[u] /\ conn[u] \in Slots
    BY <2>1 DEF TypeOK, HoldersHaveSlots, Holding
  <2>4. IdleLossIsMasked'
    BY <2>1 DEF MaskInv, IdleLossIsMasked
  <2> QED BY <2>1, <2>2, <2>3, <2>4 DEF MaskInv
<1>6. ASSUME NEW t \in Threads, AcquireFails(t) PROVE MaskInv'
  <2>1. /\ pc' = [pc EXCEPT ![t] = "idle"] /\ outcome' = [outcome EXCEPT ![t] = "error"]
        /\ mishaps' = mishaps \cup {t} /\ UNCHANGED <<conn, link, ran>>
    BY <1>6 DEF AcquireFails, Refused, Goto
  <2> QED BY <2>1 DEF TypeOK, MaskInv, IdleLossIsMasked
<1>7. ASSUME NEW t \in Threads, ReconnectClosed(t) PROVE MaskInv'
  BY <1>7, MaskReconnects DEF ReconnectClosed
<1>8. ASSUME NEW t \in Threads, ReconnectLost(t) PROVE MaskInv'
  BY <1>8, MaskReconnects DEF ReconnectLost
<1>9. ASSUME NEW t \in Threads, Begin(t) PROVE MaskInv'
  BY <1>9 DEF Begin, Goto, TypeOK, MaskInv, IdleLossIsMasked
<1>10. ASSUME NEW t \in Threads, BeginRefused(t) PROVE MaskInv'
  BY <1>10, MaskThrows DEF BeginRefused, Refused
<1>11. ASSUME NEW t \in Threads, BeginLost(t) PROVE MaskInv'
  <2>1. conn[t] \in Slots /\ link[conn[t]] = "lost" /\ link' = [link EXCEPT ![conn[t]] = "closed"]
        /\ UNCHANGED <<conn, ran, mishaps>>
    BY <1>11 DEF BeginLost, HoldersHaveSlots, Holding
  <2>2. \A c \in Slots : link'[c] = link[c] \/ (link[c] = "lost" /\ link'[c] = "closed")
    BY <2>1 DEF TypeOK
  <2>3. CASE pc[t] = "begin"
    <3>1. pc' = [pc EXCEPT ![t] = "reconnect"] /\ UNCHANGED outcome
      BY <1>11, <2>3 DEF BeginLost, Goto
    <3>2. IdleLossIsMasked'
      BY <2>1, <3>1 DEF MaskInv, IdleLossIsMasked
    <3>3. ASSUME NEW u \in Threads, pc'[u] = "rebegin", link'[conn'[u]] = "lost"
          PROVE  u \in mishaps'
      <4>1. pc[u] = "rebegin" /\ conn[u] \in Slots
        BY <3>1, <3>3 DEF TypeOK, HoldersHaveSlots, Holding
      <4>2. link[conn[u]] = "lost"
        BY <2>1, <2>2, <3>3, <4>1
      <4> QED BY <2>1, <4>1, <4>2 DEF MaskInv
    <3> QED BY <3>2, <3>3 DEF MaskInv
  <2>4. CASE pc[t] # "begin"
    <3>1. pc[t] = "rebegin" /\ Throw(t)
      BY <1>11, <2>4 DEF BeginLost
    <3>2. t \in mishaps
      BY <2>1, <3>1 DEF MaskInv
    <3> QED BY <2>1, <2>2, <3>1, <3>2, MaskThrows
  <2> QED BY <2>3, <2>4
<1>12. ASSUME NEW t \in Threads, BodyThrows(t) \/ CommitThrows(t) PROVE MaskInv'
  <2>1. /\ pc[t] \in InWork /\ Throw(t) /\ CloseIfLost(conn[t]) /\ UNCHANGED <<conn, ran>>
        /\ mishaps \subseteq mishaps'
    BY <1>12 DEF BodyThrows, CommitThrows, Refused, InWork
  <2>2. ran[t] # 0
    BY <2>1 DEF WorkInv, InWork
  <2>3. \A c \in Slots : link'[c] = link[c] \/ (link[c] = "lost" /\ link'[c] = "closed")
    BY <2>1 DEF CloseIfLost, TypeOK
  <2> QED BY <2>1, <2>2, <2>3, MaskThrows
<1>13. ASSUME NEW t \in Threads, BodyReturns(t) \/ ReleasePush(t) PROVE MaskInv'
  BY <1>13, MaskMoves DEF BodyReturns, ReleasePush, Goto, TypeOK
<1>14. ASSUME NEW t \in Threads, Commit(t) PROVE MaskInv'
  BY <1>14, MaskMoves DEF Commit, Goto, TypeOK
<1>15. ASSUME NEW t \in Threads, ReleaseNotify(t) PROVE MaskInv'
  BY <1>15, MaskMoves DEF ReleaseNotify, At, Goto, TypeOK
<1>16. ASSUME NEW c \in Slots, ServerHangsUp(c) PROVE MaskInv'
  <2>1. /\ link' = [link EXCEPT ![c] = "lost"] /\ UNCHANGED <<pc, conn, ran, outcome>>
        /\ mishaps' = mishaps \cup {t \in At("rebegin") : conn[t] = c}
    BY <1>16 DEF ServerHangsUp
  <2>2. IdleLossIsMasked'
    BY <2>1 DEF MaskInv, IdleLossIsMasked
  <2>3. ASSUME NEW t \in Threads, pc'[t] = "rebegin", link'[conn'[t]] = "lost"
        PROVE  t \in mishaps'
    BY <2>1, <2>3 DEF MaskInv, At, TypeOK, HoldersHaveSlots, Holding
  <2> QED BY <2>2, <2>3 DEF MaskInv
<1>17. CASE Quiescent \/ UNCHANGED vars
  BY <1>17, MaskMoves DEF Quiescent, vars
<1> QED BY <1>2, <1>3, <1>4, <1>5, <1>6, <1>7, <1>8, <1>9, <1>10, <1>11, <1>12, <1>13, <1>14, <1>15, <1>16, <1>17
  DEF Next, ThreadStep, Acquire, Use, Release

(***************************************************************************)
(* For every size of the pool: a call fails before its work started only   *)
(* when the database refused an operation of that call, or the connection  *)
(* it had itself reopened was lost before its second BEGIN; connections    *)
(* that died while idle, be they many, cost nobody a call                  *)
(* (ProductionTransactionProvider::RunInTransaction).                      *)
(***************************************************************************)
THEOREM PoolMasksIdleLoss == Spec => []IdleLossIsMasked
<1>1. Init => TypeOK /\ HoldersHaveSlots /\ WorkInv /\ MaskInv
  <2>1. Init => WorkInv
    BY DEF Init, WorkInv, BeforeWork, InWork
  <2>2. Init => MaskInv
    BY DEF Init, MaskInv, IdleLossIsMasked
  <2>3. QED BY <2>1, <2>2, TypeInit
<1>2. TypeOK /\ HoldersHaveSlots /\ WorkInv /\ MaskInv /\ [Next]_vars
        => (TypeOK /\ HoldersHaveSlots /\ WorkInv /\ MaskInv)'
  BY TypeNext, WorkNext, MaskNext
<1>3. MaskInv => IdleLossIsMasked
  BY DEF MaskInv
<1>4. QED BY <1>1, <1>2, <1>3, PTL DEF Spec
=============================================================================
