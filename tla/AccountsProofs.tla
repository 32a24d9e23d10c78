---------------------------- MODULE AccountsProofs ----------------------------
(***************************************************************************)
(* Accounts for any number of requests, any addresses and any bound: no    *)
(* two accounts share an address, what was mailed to an address lets its   *)
(* owner in, and the scheduler's account comes with its one role.  And what*)
(* an account may do, for any tables and any requests (TableAccess): it    *)
(* changes only through the tables that decide about it, and the answers   *)
(* given about it agree.                                                   *)
(***************************************************************************)
EXTENDS Accounts, TableAccess, FiniteSetTheorems, WellFoundedInduction, TLAPS

-----------------------------------------------------------------------------
(* The inductive invariants *)

\* The row, the role and the grants a client's transaction has not committed.
OpenRow(c) == IF tx[c] = Idle THEN {} ELSE tx[c].row
OpenRole(c) == IF tx[c] = Idle THEN {} ELSE tx[c].role

\* Ids and addresses are unique, over what is committed and what is open.
UniqueRows ==
  /\ \A p, q \in people : p.id = q.id => p = q
  /\ OneAccountPerAddress
  /\ \A c \in Clients : \A r \in OpenRow(c), p \in people :
       r.id # p.id /\ Folded[r.email] # Folded[p.email]
  /\ \A c, d \in Clients : c # d => \A r \in OpenRow(c), w \in OpenRow(d) :
       r.id # w.id /\ Folded[r.email] # Folded[w.email]

\* Whatever names an id names one that was drawn.
IdsDrawn ==
  /\ mails \subseteq [kind : Kinds, to : Emails, id : Nat]
  /\ \A p \in people : p.id < nextId
  /\ \A id \in links : id < nextId
  /\ \A m \in mails : m.id < nextId
  /\ \A c \in Clients : \A r \in OpenRow(c) : r.id < nextId

\* What a transaction holds, by how far it has come.
OpenInv(c) ==
  tx[c] # Idle =>
    /\ IF tx[c].step = "looked" THEN tx[c].row = {} ELSE \E r \in tx[c].row : tx[c].row = {r}
    /\ \A r \in tx[c].row :
         /\ r.id \notin links
         /\ r.verified <=> tx[c].kind # "register"
         /\ r.password = "temporary" => tx[c].kind = "staff"
         /\ \A m \in mails : m.id = r.id => m.kind = tx[c].kind /\ m.to = r.email
    /\ tx[c].grants \subseteq tx[c].role \X Seeded

\* The ids still to be drawn are within the bound.
RoomKept == nextId + Cardinality(Looked) <= MaxPeople + 1

AccountsInv ==
  /\ TypeOK
  /\ RoomKept
  /\ UniqueRows
  /\ IdsDrawn
  /\ \A c \in Clients : OpenInv(c)
  /\ LinksReachTheirAddress
  /\ UnverifiedHaveALink
  /\ TemporaryPasswordsWork

\* The scheduler's transaction: one at a time holds the address.
SchedulerTx(c) ==
  tx[c] # Idle =>
    /\ tx[c].kind = "scheduler" => \A r \in tx[c].row : r.email = SchedulerEmail
    /\ tx[c].kind = "scheduler" => tx[c].email = SchedulerEmail
    /\ tx[c].role # {} => tx[c].kind = "scheduler" /\ tx[c].step = "done"
    /\ tx[c].kind = "scheduler" /\ tx[c].step = "done" =>
         \E x \in tx[c].role : tx[c].role = {x} /\ <<x, "manage_subscriptions">> \in tx[c].grants

SchedulerInv ==
  /\ \A c \in Clients : SchedulerTx(c)
  /\ \A x, y \in roles : x = y
  /\ \A c \in Clients : \A x \in OpenRole(c), y \in roles : x = y
  /\ SchedulerIsAuthorized

-----------------------------------------------------------------------------
(* Transactions *)

LEMMA IdleIsNotOpen == \A t \in OpenTx : t # Idle /\ t.step # "idle"
<1>1. Idle.step = "idle"
  BY DEF Idle
<1>2. \A t \in OpenTx : t.step # "idle"
  BY DEF OpenTx
<1> QED
  BY <1>1, <1>2

LEMMA OpenTyped ==
  ASSUME TypeOK, NEW c \in Clients
  PROVE  /\ tx[c] # Idle => tx[c] \in OpenTx
         /\ tx[c].step \in {"looked", "inserted", "done"} <=> tx[c] # Idle
         /\ OpenRow(c) \subseteq PersonRows /\ OpenRole(c) \subseteq Nat
<1>1. tx[c] \in {Idle} \cup OpenTx
  BY DEF TypeOK
<1>2. Idle.step = "idle"
  BY DEF Idle
<1> QED
  BY <1>1, <1>2 DEF OpenTx, OpenRow, OpenRole

LEMMA TxChanges ==
  ASSUME TypeOK, NEW c \in Clients, NEW v \in {Idle} \cup OpenTx, tx' = [tx EXCEPT ![c] = v]
  PROVE  /\ tx' \in [Clients -> {Idle} \cup OpenTx] /\ tx'[c] = v
         /\ \A d \in Clients : d # c => tx'[d] = tx[d]
  BY DEF TypeOK

LEMMA LookedFinite ==
  IsFiniteSet(Looked) /\ Cardinality(Looked) \in Nat
<1>1. Looked \in SUBSET Clients
  BY DEF Looked
<1>2. IsFiniteSet(Looked)
  BY <1>1, AccountsAssumption, FS_Subset
<1> QED
  BY <1>2, FS_CardinalityType

LEMMA LookedShrinks ==
  ASSUME Looked' \subseteq Looked
  PROVE  Cardinality(Looked') <= Cardinality(Looked) /\ Cardinality(Looked') \in Nat
<1>1. PICK S : S = Looked /\ IsFiniteSet(S)
  BY LookedFinite
<1>2. PICK T \in SUBSET S : T = Looked'
  BY <1>1
<1>3. IsFiniteSet(T) /\ Cardinality(T) <= Cardinality(S)
  BY <1>1, FS_Subset
<1>4. Cardinality(T) \in Nat
  BY <1>3, FS_CardinalityType
<1> QED
  BY <1>1, <1>2, <1>3, <1>4

\* Nobody begins to look: the room stays.
LEMMA RoomStays ==
  ASSUME TypeOK, RoomKept, UNCHANGED nextId, Looked' \subseteq Looked
  PROVE  RoomKept'
<1>1. Cardinality(Looked') <= Cardinality(Looked) /\ Cardinality(Looked') \in Nat /\ Cardinality(Looked) \in Nat
  BY LookedShrinks, LookedFinite
<1>2. nextId \in Nat /\ MaxPeople \in Nat
  BY AccountsAssumption DEF TypeOK
<1>3. nextId' = nextId
  OBVIOUS
<1>4. nextId + Cardinality(Looked) <= MaxPeople + 1
  BY DEF RoomKept
<1>5. PICK a \in Nat : a = Cardinality(Looked')
  BY <1>1
<1>6. PICK b \in Nat : b = Cardinality(Looked)
  BY <1>1
<1>7. nextId + a <= MaxPeople + 1
  BY <1>1, <1>2, <1>4, <1>5, <1>6
<1> QED
  BY <1>3, <1>5, <1>7 DEF RoomKept

\* A step of a transaction that only another look at its own rows can see.
LEMMA QuietTx ==
  ASSUME AccountsInv, TypeOK', RoomKept', nextId' \in {nextId, nextId + 1}, NEW c \in Clients,
         \A d \in Clients : d # c => tx'[d] = tx[d],
         UNCHANGED <<people, links, lapsed, mails>>,
         OpenRow(c)' \subseteq OpenRow(c), OpenInv(c)'
  PROVE  AccountsInv'
<1>1. \A d \in Clients : OpenRow(d)' \subseteq OpenRow(d)
  BY DEF OpenRow
<1>2. nextId \in Nat /\ \A n \in Nat : n < nextId => n < nextId'
  BY DEF AccountsInv, TypeOK
<1>3. ASSUME NEW d \in Clients PROVE OpenInv(d)'
  <2>1. CASE d # c
    BY <1>3, <2>1 DEF AccountsInv, OpenInv
  <2> QED
    BY <2>1
<1>4. UniqueRows'
  BY <1>1 DEF AccountsInv, UniqueRows, OneAccountPerAddress
<1>5. IdsDrawn'
  <2>1. \A p \in people : p.id \in Nat
    BY DEF AccountsInv, TypeOK, PersonRows
  <2>2. \A id \in links : id \in Nat
    BY DEF AccountsInv, TypeOK
  <2>3. \A m \in mails : m.id \in Nat
    BY DEF AccountsInv, IdsDrawn
  <2>4. ASSUME NEW d \in Clients, NEW r \in OpenRow(d) PROVE r.id \in Nat
    <3>1. r \in PersonRows
      BY OpenTyped DEF AccountsInv
    <3> QED
      BY <3>1 DEF PersonRows
  <2>5. \A d \in Clients : \A r \in OpenRow(d)' : r.id < nextId'
    BY <1>1, <1>2, <2>4 DEF AccountsInv, IdsDrawn
  <2> QED
    BY <1>2, <2>1, <2>2, <2>3, <2>5 DEF AccountsInv, IdsDrawn
<1>6. LinksReachTheirAddress' /\ UnverifiedHaveALink' /\ TemporaryPasswordsWork'
  BY DEF AccountsInv, LinksReachTheirAddress, UnverifiedHaveALink,
         TemporaryPasswordsWork
<1> QED
  BY <1>3, <1>4, <1>5, <1>6 DEF AccountsInv

LEMMA AccountsInit == Init => AccountsInv
<1> SUFFICES ASSUME Init PROVE AccountsInv
  OBVIOUS
<1>1. \A c \in Clients : tx[c] = Idle
  BY DEF Init
<1>2. TypeOK
  BY AccountsAssumption DEF Init, TypeOK
<1>3. Looked = {}
  BY <1>1 DEF Looked, Idle
<1>4. RoomKept
  <2>1. Cardinality(Looked) = 0
    BY <1>3, FS_EmptySet
  <2> QED
    BY <2>1, AccountsAssumption DEF Init, RoomKept
<1>5. UniqueRows /\ IdsDrawn
  BY <1>1 DEF Init, UniqueRows, OneAccountPerAddress, IdsDrawn, OpenRow
<1>6. \A c \in Clients : OpenInv(c)
  BY <1>1 DEF OpenInv
<1>7. LinksReachTheirAddress /\ UnverifiedHaveALink /\ TemporaryPasswordsWork
  BY DEF Init, LinksReachTheirAddress, UnverifiedHaveALink,
         TemporaryPasswordsWork
<1> QED
  BY <1>2, <1>4, <1>5, <1>6, <1>7 DEF AccountsInv

LEMMA NewTxTyped ==
  ASSUME NEW kind \in Kinds, NEW email \in Emails, NEW step \in {"looked", "inserted", "done"}
  PROVE  /\ Tx(step, kind, email) \in OpenTx /\ Tx(step, kind, email).row = {}
         /\ Tx(step, kind, email).grants = {} /\ Tx(step, kind, email).role = {}
         /\ Tx(step, kind, email).step = step /\ Tx(step, kind, email).kind = kind
         /\ Tx(step, kind, email).email = email
  BY DEF Tx, OpenTx

\* A transaction ends without a COMMIT.
LEMMA ClosesKeeps ==
  ASSUME AccountsInv, NEW c \in Clients, tx' = [tx EXCEPT ![c] = Idle],
         RoomKept', nextId' \in {nextId, nextId + 1}, nextId' \in 1 .. MaxPeople + 1,
         UNCHANGED <<people, links, lapsed, roles, grants, assignments, mails, service>>,
         nextRole' \in Nat, ensured' \in {"none", "exists", "done", "failed"}
  PROVE  AccountsInv'
<1>1. /\ tx' \in [Clients -> {Idle} \cup OpenTx] /\ tx'[c] = Idle
      /\ \A d \in Clients : d # c => tx'[d] = tx[d]
  BY TxChanges DEF AccountsInv
<1>2. TypeOK'
  BY <1>1 DEF AccountsInv, TypeOK
<1>3. OpenRow(c)' = {} /\ OpenInv(c)'
  BY <1>1 DEF OpenRow, OpenInv
<1> QED
  BY <1>1, <1>2, <1>3, QuietTx

LEMMA ClosesRoom ==
  ASSUME AccountsInv, NEW c \in Clients, tx' = [tx EXCEPT ![c] = Idle], UNCHANGED nextId
  PROVE  RoomKept' /\ nextId' \in 1 .. MaxPeople + 1
<1>1. tx'[c] = Idle /\ \A d \in Clients : d # c => tx'[d] = tx[d]
  BY TxChanges DEF AccountsInv
<1>2. Looked' \subseteq Looked
  BY <1>1 DEF Looked, Idle
<1> QED
  BY <1>2, RoomStays DEF AccountsInv, TypeOK

LEMMA RollBackKeeps ==
  ASSUME AccountsInv, NEW c \in Clients, RollBack(c)
  PROVE  AccountsInv'
<1>1. RoomKept' /\ nextId' \in 1 .. MaxPeople + 1
  BY ClosesRoom DEF RollBack
<1> QED
  BY <1>1, ClosesKeeps DEF RollBack, authority, AccountsInv, TypeOK

LEMMA LookFirstKeeps ==
  ASSUME AccountsInv, NEW c \in Clients, NEW kind \in Kinds, NEW email \in Emails,
         LookFirst(c, kind, email)
  PROVE  AccountsInv'
<1>1. CASE Taken(email)
  <2>1. /\ UNCHANGED <<people, links, lapsed, nextId, roles, nextRole, grants, assignments, mails, service, tx>>
        /\ ensured' \in {"none", "exists", "done", "failed"}
    BY <1>1 DEF LookFirst, authority, AccountsInv, TypeOK
  <2>2. TypeOK'
    BY <2>1 DEF AccountsInv, TypeOK
  <2>3. RoomKept'
    <3>1. Looked' \subseteq Looked
      BY <2>1 DEF Looked
    <3> QED
      BY <2>1, <3>1, RoomStays DEF AccountsInv
  <2>4. OpenRow(c)' = OpenRow(c) /\ OpenInv(c)'
    BY <2>1 DEF OpenRow, OpenInv, AccountsInv
  <2> QED
    BY <2>1, <2>2, <2>3, <2>4, QuietTx
<1>2. CASE ~Taken(email)
  <2> DEFINE v == Tx("looked", kind, email)
  <2>1. v \in OpenTx /\ v.row = {} /\ v.grants = {} /\ v.step = "looked"
    BY NewTxTyped
  <2>2. /\ tx' = [tx EXCEPT ![c] = v] /\ tx[c] = Idle /\ Room
        /\ UNCHANGED <<people, links, lapsed, nextId, roles, nextRole, grants, assignments, mails, service, ensured>>
    BY <1>2 DEF LookFirst, authority
  <2> HIDE DEF v
  <2>3. /\ tx' \in [Clients -> {Idle} \cup OpenTx] /\ tx'[c] = v
        /\ \A d \in Clients : d # c => tx'[d] = tx[d]
    BY <2>1, <2>2, TxChanges DEF AccountsInv
  <2>4. TypeOK'
    BY <2>2, <2>3 DEF AccountsInv, TypeOK
  <2>5. OpenRow(c)' = {} /\ OpenInv(c)'
    BY <2>1, <2>3 DEF OpenRow, OpenInv
  <2>6. RoomKept'
    <3>1. Looked' = Looked \cup {c} /\ c \notin Looked
      BY <2>1, <2>2, <2>3 DEF Looked, Idle
    <3>2. PICK S : S = Looked /\ IsFiniteSet(S) /\ Cardinality(S) \in Nat
      BY LookedFinite
    <3>3. Cardinality(Looked') = Cardinality(S) + 1
      BY <3>1, <3>2, FS_AddElement
    <3>4. nextId + Cardinality(S) <= MaxPeople /\ nextId \in Nat
      BY <2>2, <3>2 DEF Room, AccountsInv, TypeOK
    <3>5. nextId + (Cardinality(S) + 1) <= MaxPeople + 1
      BY <3>2, <3>4, AccountsAssumption
    <3> QED
      BY <2>2, <3>3, <3>5 DEF RoomKept
  <2> QED
    BY <2>2, <2>3, <2>4, <2>5, <2>6, QuietTx
<1> QED
  BY <1>1, <1>2

\* The mail that could not be sent, and the scheduler's role.
LEMMA SameRowsKeeps ==
  ASSUME AccountsInv, NEW c \in Clients, NEW v \in OpenTx, tx' = [tx EXCEPT ![c] = v],
         tx[c].step = "inserted", v.step = "done", v.row = tx[c].row, v.kind = tx[c].kind,
         v.grants \subseteq v.role \X Seeded,
         UNCHANGED <<people, links, lapsed, nextId, roles, grants, assignments, mails, service, ensured>>,
         nextRole' \in Nat
  PROVE  AccountsInv'
<1>1. /\ tx' \in [Clients -> {Idle} \cup OpenTx] /\ tx'[c] = v
      /\ \A d \in Clients : d # c => tx'[d] = tx[d]
  BY TxChanges DEF AccountsInv
<1>2. tx[c] # Idle /\ v # Idle
  BY IdleIsNotOpen DEF Idle
<1>3. TypeOK'
  BY <1>1 DEF AccountsInv, TypeOK
<1>4. OpenRow(c)' = OpenRow(c)
  BY <1>1, <1>2 DEF OpenRow
<1>5. OpenInv(c)'
  BY <1>1, <1>2 DEF AccountsInv, OpenInv
<1>6. Looked' \subseteq Looked
  BY <1>1 DEF Looked
<1>7. RoomKept'
  BY <1>6, RoomStays DEF AccountsInv
<1> QED
  BY <1>1, <1>3, <1>4, <1>5, <1>7, QuietTx

LEMMA SendMailFailsKeeps ==
  ASSUME AccountsInv, NEW c \in Clients, SendMailFails(c)
  PROVE  AccountsInv'
<1>1. tx[c] \in OpenTx /\ tx[c].step = "inserted"
  BY OpenTyped DEF SendMailFails, AccountsInv
<1>2. CASE tx[c].kind = "staff"
  <2> DEFINE v == [tx[c] EXCEPT !.step = "done"]
  <2>1. /\ v \in OpenTx /\ v.step = "done" /\ v.row = tx[c].row /\ v.kind = tx[c].kind
        /\ v.grants = tx[c].grants /\ v.role = tx[c].role
    BY <1>1 DEF OpenTx
  <2>2. tx' = [tx EXCEPT ![c] = v]
    BY <1>2 DEF SendMailFails
  <2> HIDE DEF v
  <2>3. tx[c].grants \subseteq tx[c].role \X Seeded
    BY <1>1, IdleIsNotOpen DEF AccountsInv, OpenInv
  <2> QED
    BY <1>1, <2>1, <2>2, <2>3, SameRowsKeeps DEF SendMailFails, authority, AccountsInv, TypeOK
<1>3. CASE tx[c].kind # "staff"
  <2>1. tx' = [tx EXCEPT ![c] = Idle] /\ UNCHANGED nextId
    BY <1>3 DEF SendMailFails
  <2>2. RoomKept' /\ nextId' \in 1 .. MaxPeople + 1
    BY <2>1, ClosesRoom
  <2> QED
    BY <2>1, <2>2, ClosesKeeps DEF SendMailFails, authority, AccountsInv, TypeOK
<1> QED
  BY <1>2, <1>3

LEMMA GrantKeeps ==
  ASSUME AccountsInv, NEW c \in Clients, GrantScheduler(c)
  PROVE  AccountsInv'
<1>1. tx[c] \in OpenTx /\ tx[c].step = "inserted"
  BY OpenTyped DEF GrantScheduler, AccountsInv
<1>2. nextRole \in Nat /\ nextRole' \in Nat /\ roles \subseteq Nat
  BY DEF GrantScheduler, AccountsInv, TypeOK
<1>3. PICK role \in IF roles = {} THEN {nextRole} ELSE roles :
        LET wanted == {role} \X (Seeded \cap {"manage_subscriptions", "manage_class_schedule"})
        IN  \/ /\ tx' = [tx EXCEPT ![c].step = "done", ![c].role = {role}, ![c].grants = wanted]
               /\ UNCHANGED ensured
            \/ tx' = [tx EXCEPT ![c] = Idle] /\ ensured' = "failed"
  BY DEF GrantScheduler
<1>4. role \in Nat
  BY <1>2
<1> DEFINE wanted == {role} \X (Seeded \cap {"manage_subscriptions", "manage_class_schedule"})
<1>5. wanted \subseteq {role} \X Seeded /\ wanted \subseteq Nat \X Seeded
  BY <1>4
<1>6. CASE tx' = [tx EXCEPT ![c].step = "done", ![c].role = {role}, ![c].grants = wanted] /\ UNCHANGED ensured
  <2> HIDE DEF wanted
  <2> DEFINE v == [tx[c] EXCEPT !.step = "done", !.role = {role}, !.grants = wanted]
  <2>1. /\ v \in OpenTx /\ v.step = "done" /\ v.row = tx[c].row /\ v.kind = tx[c].kind
        /\ v.grants = wanted /\ v.role = {role}
    BY <1>1, <1>4, <1>5 DEF OpenTx
  <2>2. tx' = [tx EXCEPT ![c] = v]
    BY <1>6
  <2> HIDE DEF v
  <2> QED
    BY <1>1, <1>2, <1>5, <1>6, <2>1, <2>2, SameRowsKeeps DEF GrantScheduler
<1>7. CASE tx' = [tx EXCEPT ![c] = Idle] /\ ensured' = "failed"
  <2>1. RoomKept' /\ nextId' \in 1 .. MaxPeople + 1
    BY <1>7, ClosesRoom DEF GrantScheduler
  <2> QED
    BY <1>2, <1>7, <2>1, ClosesKeeps DEF GrantScheduler
<1> QED
  BY <1>3, <1>6, <1>7

\* An id is drawn by who kept the room for it.
LEMMA DrawRoom ==
  ASSUME AccountsInv, NEW c \in Clients, NEW v \in {Idle} \cup OpenTx, v.step # "looked",
         tx' = [tx EXCEPT ![c] = v], nextId' = nextId + 1,
         (tx[c] = Idle /\ Room) \/ tx[c].step = "looked"
  PROVE  RoomKept' /\ nextId \in 1 .. MaxPeople
<1>1. tx'[c] = v /\ \A d \in Clients : d # c => tx'[d] = tx[d]
  BY TxChanges DEF AccountsInv
<1>2. PICK S : S = Looked /\ IsFiniteSet(S) /\ Cardinality(S) \in Nat
  BY LookedFinite
<1>3. nextId \in Nat /\ nextId >= 1 /\ MaxPeople \in Nat
  BY AccountsAssumption DEF AccountsInv, TypeOK
<1>4. PICK k \in Nat : k = Cardinality(S)
  BY <1>2
<1>5. CASE tx[c] = Idle /\ Room
  <2>1. Looked' = S
    BY <1>1, <1>2, <1>5 DEF Looked, Idle
  <2>2. nextId + k <= MaxPeople
    BY <1>2, <1>4, <1>5 DEF Room
  <2>3. nextId \in 1 .. MaxPeople /\ (nextId + 1) + k <= MaxPeople + 1
    BY <1>3, <2>2
  <2> QED
    BY <1>4, <2>1, <2>3 DEF RoomKept
<1>6. CASE tx[c].step = "looked"
  <2>1. Looked' = S \ {c} /\ c \in S
    BY <1>1, <1>2, <1>6 DEF Looked
  <2>2. IsFiniteSet(S \ {c}) /\ Cardinality(S \ {c}) = k - 1
    BY <1>2, <1>4, <2>1, FS_RemoveElement
  <2>3. k - 1 \in Nat
    BY <2>2, FS_CardinalityType
  <2>4. nextId + k <= MaxPeople + 1
    BY <1>2, <1>4 DEF AccountsInv, RoomKept
  <2>5. nextId \in 1 .. MaxPeople /\ (nextId + 1) + (k - 1) <= MaxPeople + 1
    BY <1>3, <2>3, <2>4
  <2> QED
    BY <2>1, <2>2, <2>5 DEF RoomKept
<1> QED
  BY <1>5, <1>6

\* A row with a fresh id and a free address is inserted.
LEMMA InsertKeeps ==
  ASSUME AccountsInv, NEW c \in Clients, NEW kind \in Kinds, NEW email \in Emails,
         NEW r \in PersonRows, NEW v \in OpenTx,
         r.id = nextId, r.email = email, r.verified <=> kind # "register",
         r.password = "temporary" => kind = "staff",
         v.step = "inserted", v.kind = kind, v.row = {r}, v.grants = {},
         tx' = [tx EXCEPT ![c] = v], nextId' = nextId + 1, RoomKept', nextId \in 1 .. MaxPeople,
         ~Held(c, email), ~Taken(email),
         UNCHANGED <<people, links, lapsed, roles, nextRole, grants, assignments, mails, service, ensured>>
  PROVE  AccountsInv'
<1>1. /\ tx' \in [Clients -> {Idle} \cup OpenTx] /\ tx'[c] = v
      /\ \A d \in Clients : d # c => tx'[d] = tx[d]
  BY TxChanges DEF AccountsInv
<1>2. v # Idle /\ OpenRow(c)' = {r} /\ \A d \in Clients : d # c => OpenRow(d)' = OpenRow(d)
  BY <1>1, IdleIsNotOpen DEF OpenRow
<1>3. TypeOK'
  <2>1. nextId' \in 1 .. MaxPeople + 1
    BY AccountsAssumption
  <2> QED
    BY <1>1, <2>1 DEF AccountsInv, TypeOK
<1>4. \A p \in people : p.id \in Nat /\ p.id < nextId /\ p.id # r.id /\ Folded[p.email] # Folded[r.email]
  <2>1. \A p \in people : p.id \in Nat /\ p.id < nextId
    BY DEF AccountsInv, TypeOK, PersonRows, IdsDrawn
  <2>2. \A p \in people : Folded[p.email] # Folded[r.email]
    BY DEF Taken, LookupPersonByEmail
  <2> QED
    BY <2>1, <2>2
<1>5. ASSUME NEW d \in Clients, d # c, NEW w \in OpenRow(d)
      PROVE  w.id \in Nat /\ w.id < nextId /\ w.id # r.id /\ Folded[w.email] # Folded[r.email]
  <2>1. w \in PersonRows
    BY OpenTyped DEF AccountsInv
  <2>2. w.id \in Nat /\ w.id < nextId
    BY <2>1 DEF PersonRows, AccountsInv, IdsDrawn
  <2>3. ~Holds(d, email)
    BY <1>5 DEF Held
  <2>4. Folded[w.email] # Folded[r.email]
    BY <2>3 DEF Holds, OpenRow
  <2> QED
    BY <2>2, <2>4
<1>6. UniqueRows'
  <2>1. (\A p, q \in people : p.id = q.id => p = q)' /\ OneAccountPerAddress'
    BY DEF AccountsInv, UniqueRows, OneAccountPerAddress
  <2>2. ASSUME NEW d \in Clients, NEW w \in OpenRow(d)', NEW p \in people
        PROVE  w.id # p.id /\ Folded[w.email] # Folded[p.email]
    <3>1. CASE d = c
      BY <1>2, <1>4, <3>1
    <3>2. CASE d # c
      BY <1>2, <3>2 DEF AccountsInv, UniqueRows
    <3> QED
      BY <3>1, <3>2
  <2>3. ASSUME NEW d \in Clients, NEW e \in Clients, d # e, NEW w \in OpenRow(d)', NEW x \in OpenRow(e)'
        PROVE  w.id # x.id /\ Folded[w.email] # Folded[x.email]
    <3>1. CASE d = c
      BY <1>2, <1>5, <2>3, <3>1
    <3>2. CASE e = c
      BY <1>2, <1>5, <2>3, <3>2
    <3>3. CASE d # c /\ e # c
      BY <1>2, <2>3, <3>3 DEF AccountsInv, UniqueRows
    <3> QED
      BY <3>1, <3>2, <3>3
  <2> QED
    BY <2>1, <2>2, <2>3 DEF UniqueRows
<1>7. nextId \in Nat /\ \A n \in Nat : n < nextId => n < nextId'
  OBVIOUS
<1>8. \A id \in links : id \in Nat /\ id < nextId
  BY DEF AccountsInv, TypeOK, IdsDrawn
<1>9. \A m \in mails : m.id \in Nat /\ m.id < nextId
  BY DEF AccountsInv, IdsDrawn
<1>10. IdsDrawn'
  <2>1. ASSUME NEW d \in Clients, NEW w \in OpenRow(d)' PROVE w.id < nextId'
    <3>1. CASE d = c
      BY <1>2, <1>7, <3>1
    <3>2. CASE d # c
      BY <1>2, <1>5, <1>7, <3>2
    <3> QED
      BY <3>1, <3>2
  <2>2. mails \subseteq [kind : Kinds, to : Emails, id : Nat]
    BY DEF AccountsInv, IdsDrawn
  <2> QED
    BY <1>4, <1>7, <1>8, <1>9, <2>1, <2>2 DEF IdsDrawn
<1>11. ASSUME NEW d \in Clients PROVE OpenInv(d)'
  <2>1. CASE d # c
    BY <1>1, <2>1 DEF AccountsInv, OpenInv
  <2>2. CASE d = c
    <3>1. r.id \notin links /\ \A m \in mails : m.id # r.id
      BY <1>8, <1>9
    <3> QED
      BY <1>1, <2>2, <3>1 DEF OpenInv
  <2> QED
    BY <2>1, <2>2
<1>12. LinksReachTheirAddress' /\ UnverifiedHaveALink' /\ TemporaryPasswordsWork'
  BY DEF AccountsInv, LinksReachTheirAddress, UnverifiedHaveALink,
         TemporaryPasswordsWork
<1> QED
  BY <1>3, <1>6, <1>10, <1>11, <1>12 DEF AccountsInv

\* Who kept the room draws an id within the bound.
LEMMA CanDraw ==
  ASSUME AccountsInv, NEW c \in Clients, (tx[c] = Idle /\ Room) \/ tx[c].step = "looked"
  PROVE  nextId \in 1 .. MaxPeople
<1>1. PICK S : S = Looked /\ IsFiniteSet(S) /\ Cardinality(S) \in Nat
  BY LookedFinite
<1>2. nextId \in Nat /\ nextId >= 1 /\ MaxPeople \in Nat
  BY AccountsAssumption DEF AccountsInv, TypeOK
<1>3. PICK k \in Nat : k = Cardinality(S)
  BY <1>1
<1>4. CASE tx[c] = Idle /\ Room
  BY <1>1, <1>2, <1>3, <1>4 DEF Room
<1>5. CASE tx[c].step = "looked"
  <2>1. c \in S
    BY <1>1, <1>5 DEF Looked
  <2>2. IsFiniteSet(S \ {c}) /\ Cardinality(S \ {c}) = k - 1
    BY <1>1, <1>3, <2>1, FS_RemoveElement
  <2>3. k - 1 \in Nat
    BY <2>2, FS_CardinalityType
  <2>4. nextId + k <= MaxPeople + 1
    BY <1>1, <1>3 DEF AccountsInv, RoomKept
  <2> QED
    BY <1>2, <2>3, <2>4
<1> QED
  BY <1>4, <1>5

LEMMA AddPersonKeeps ==
  ASSUME AccountsInv, NEW c \in Clients, NEW kind \in Kinds, NEW email \in Emails,
         (tx[c] = Idle /\ Room) \/ tx[c].step = "looked", AddPerson(c, kind, email)
  PROVE  AccountsInv'
<1>1. /\ nextId' = nextId + 1 /\ ~Held(c, email)
      /\ UNCHANGED <<people, links, lapsed, roles, nextRole, grants, assignments, mails, service>>
  BY DEF AddPerson, authority
<1>2. CASE Taken(email)
  <2>1. /\ tx' = [tx EXCEPT ![c] = Idle] /\ Idle.step # "looked" /\ Idle \in {Idle} \cup OpenTx
        /\ ensured' \in {"none", "exists", "done", "failed"}
    BY <1>2 DEF AddPerson, AccountsInv, TypeOK, Idle
  <2>2. RoomKept' /\ nextId \in 1 .. MaxPeople
    BY <1>1, <2>1, DrawRoom
  <2>3. nextId' \in 1 .. MaxPeople + 1
    BY <1>1, <2>2, AccountsAssumption
  <2>4. nextRole' \in Nat
    BY <1>1 DEF AccountsInv, TypeOK
  <2> QED
    BY <1>1, <2>1, <2>2, <2>3, <2>4, ClosesKeeps
<1>3. CASE ~Taken(email)
  <2> DEFINE r == Row(nextId, email, Validated(kind), IF kind = "staff" THEN "temporary" ELSE "own")
             v == [Tx("inserted", kind, email) EXCEPT !.row = {r}]
  <2>1. tx' = [tx EXCEPT ![c] = v] /\ UNCHANGED ensured
    BY <1>3 DEF AddPerson
  <2>2. PICK b \in BOOLEAN : b = Validated(kind) /\ (b <=> kind # "register")
    BY DEF Validated
  <2>3. /\ r.id = nextId /\ r.email = email /\ (r.verified <=> kind # "register")
        /\ r.password = "temporary" => kind = "staff"
    BY <2>2 DEF Row
  <2>4. v.step = "inserted" /\ v.kind = kind /\ v.row = {r} /\ v.grants = {}
    BY DEF Tx
  <2>5. v # Idle /\ v.step # "looked"
    BY <2>4 DEF Idle
  <2>6. nextId \in 1 .. MaxPeople => r \in PersonRows
    BY <2>2 DEF Row, PersonRows
  <2>7. nextId \in 1 .. MaxPeople => v \in OpenTx
    <3> HIDE DEF r
    <3> QED
      BY <2>6 DEF Tx, OpenTx
  <2>8. nextId \in 1 .. MaxPeople
    BY CanDraw
  <2> HIDE DEF r, v
  <2> QED
    BY <1>1, <1>3, <2>1, <2>3, <2>4, <2>6, <2>7, <2>8, DrawRoom, InsertKeeps
<1> QED
  BY <1>2, <1>3

\* The mail names the transaction's own row.
LEMMA SendMailKeeps ==
  ASSUME AccountsInv, NEW c \in Clients, SendMail(c)
  PROVE  AccountsInv'
<1>1. tx[c] \in OpenTx /\ tx[c] # Idle /\ tx[c].step = "inserted" /\ tx[c].kind \in {"register", "staff"}
  BY OpenTyped, IdleIsNotOpen DEF SendMail, AccountsInv
<1>2. PICK r \in tx[c].row : mails' = mails \cup {[kind |-> tx[c].kind, to |-> r.email, id |-> r.id]}
  BY DEF SendMail
<1>3. r \in OpenRow(c) /\ r \in PersonRows
  BY <1>1, <1>2 DEF OpenRow, OpenTx
<1>4. PICK m : m = [kind |-> tx[c].kind, to |-> r.email, id |-> r.id]
  OBVIOUS
<1>5. /\ mails' = mails \cup {m} /\ m.kind = tx[c].kind /\ m.to = r.email /\ m.id = r.id
      /\ m \in [kind : Kinds, to : Emails, id : Nat]
  BY <1>2, <1>3, <1>4, <1>1 DEF PersonRows, Kinds
<1>6. PICK v \in OpenTx : /\ v = [tx[c] EXCEPT !.step = "done"] /\ v.step = "done" /\ v.row = tx[c].row
                          /\ v.kind = tx[c].kind /\ v.grants = tx[c].grants /\ v.role = tx[c].role
  <2> DEFINE v == [tx[c] EXCEPT !.step = "done"]
  <2>1. /\ v \in OpenTx /\ v.step = "done" /\ v.row = tx[c].row /\ v.kind = tx[c].kind
        /\ v.grants = tx[c].grants /\ v.role = tx[c].role
    BY <1>1 DEF OpenTx
  <2> QED
    BY <2>1
<1>7. tx' = [tx EXCEPT ![c] = v]
  BY <1>6 DEF SendMail
<1>8. UNCHANGED <<people, links, lapsed, nextId, roles, nextRole, grants, assignments, service, ensured>>
  BY DEF SendMail, authority
<1>9. /\ tx' \in [Clients -> {Idle} \cup OpenTx] /\ tx'[c] = v /\ v # Idle
      /\ \A d \in Clients : d # c => tx'[d] = tx[d]
  BY <1>7, TxChanges, IdleIsNotOpen DEF AccountsInv
<1>10. \A d \in Clients : OpenRow(d)' = OpenRow(d)
  BY <1>1, <1>6, <1>9 DEF OpenRow
<1>11. TypeOK'
  BY <1>8, <1>9 DEF AccountsInv, TypeOK
<1>12. RoomKept'
  <2>1. Looked' \subseteq Looked
    BY <1>6, <1>9 DEF Looked
  <2> QED
    BY <1>8, <2>1, RoomStays DEF AccountsInv
<1>13. UniqueRows'
  BY <1>8, <1>10 DEF AccountsInv, UniqueRows, OneAccountPerAddress
<1>14. IdsDrawn'
  BY <1>3, <1>5, <1>8, <1>10 DEF AccountsInv, IdsDrawn
<1>15. ASSUME NEW d \in Clients PROVE OpenInv(d)'
  <2>1. CASE d = c
    <3>1. \A w \in tx[c].row : w = r
      BY <1>1, <1>2 DEF AccountsInv, OpenInv
    <3>2. /\ tx[c].row = {r} /\ r.id \notin links /\ (r.verified <=> tx[c].kind # "register")
          /\ r.password = "temporary" => tx[c].kind = "staff"
          /\ \A n \in mails : n.id = r.id => n.kind = tx[c].kind /\ n.to = r.email
          /\ tx[c].grants \subseteq tx[c].role \X Seeded
      BY <1>1, <1>2, <3>1 DEF AccountsInv, OpenInv
    <3>3. v.row = {r} /\ v.step # "looked" /\ v.grants \subseteq v.role \X Seeded
      BY <1>6, <3>2
    <3>4. \A n \in mails' : n.id = r.id => n.kind = v.kind /\ n.to = r.email
      BY <1>5, <1>6, <3>2
    <3>5. r.verified <=> v.kind # "register"
      BY <1>6, <3>2
    <3>6. r.password = "temporary" => v.kind = "staff"
      BY <1>6, <3>2
    <3>7. r.id \notin links'
      BY <1>8, <3>2
    <3> QED
      BY <1>9, <2>1, <3>3, <3>4, <3>5, <3>6, <3>7 DEF OpenInv
  <2>2. CASE d # c
    <3>1. \A w \in OpenRow(d) : w.id # m.id
      BY <1>3, <1>5, <2>2 DEF AccountsInv, UniqueRows
    <3>2. tx[d] # Idle => \A w \in tx[d].row : w.id # m.id
      BY <3>1 DEF OpenRow
    <3> QED
      BY <1>5, <1>8, <1>9, <2>2, <3>2 DEF AccountsInv, OpenInv
  <2> QED
    BY <2>1, <2>2
<1>16. \A p \in people : p.id # m.id
  BY <1>3, <1>5 DEF AccountsInv, UniqueRows
<1>17. LinksReachTheirAddress' /\ UnverifiedHaveALink' /\ TemporaryPasswordsWork'
  BY <1>5, <1>8, <1>16 DEF AccountsInv, LinksReachTheirAddress, UnverifiedHaveALink,
     TemporaryPasswordsWork
<1> QED
  BY <1>11, <1>12, <1>13, <1>14, <1>15, <1>17 DEF AccountsInv

\* What an open transaction holds past the look: one row.
LEMMA OneOpenRow ==
  ASSUME AccountsInv, NEW c \in Clients, tx[c].step \in {"inserted", "done"}
  PROVE  \E r \in PersonRows :
           /\ tx[c].row = {r} /\ r \in OpenRow(c) /\ r.id \notin links
           /\ (r.verified <=> tx[c].kind # "register")
           /\ (r.password = "temporary" => tx[c].kind = "staff")
           /\ \A m \in mails : m.id = r.id => m.kind = tx[c].kind /\ m.to = r.email
<1>1. tx[c] \in OpenTx /\ tx[c] # Idle /\ tx[c].step # "looked"
  BY OpenTyped, IdleIsNotOpen DEF AccountsInv
<1>2. PICK r \in tx[c].row : tx[c].row = {r}
  BY <1>1 DEF AccountsInv, OpenInv
<1>3. r \in PersonRows /\ r \in OpenRow(c)
  BY <1>1 DEF OpenTx, OpenRow
<1>4. /\ r.id \notin links /\ (r.verified <=> tx[c].kind # "register")
      /\ r.password = "temporary" => tx[c].kind = "staff"
      /\ \A m \in mails : m.id = r.id => m.kind = tx[c].kind /\ m.to = r.email
  BY <1>1, <1>2 DEF AccountsInv, OpenInv
<1> QED
  BY <1>2, <1>3, <1>4

LEMMA CommitTyped ==
  ASSUME AccountsInv, NEW c \in Clients, CommitTx(c)
  PROVE  TypeOK'
<1>1. tx[c] \in OpenTx /\ tx[c] # Idle
  BY OpenTyped, IdleIsNotOpen DEF CommitTx, AccountsInv
<1>2. PICK r \in PersonRows : tx[c].row = {r}
  BY OneOpenRow DEF CommitTx
<1>3. r.id \in 1 .. MaxPeople
  BY DEF PersonRows
<1>4. people' = people \cup {r} /\ people' \subseteq PersonRows
  BY <1>2 DEF CommitTx, AccountsInv, TypeOK
<1>5. links' \subseteq 1 .. MaxPeople
  <2>1. LinksOf(tx[c].row) \subseteq {r.id}
    BY <1>2 DEF LinksOf
  <2> QED
    BY <1>3, <2>1 DEF CommitTx, AccountsInv, TypeOK
<1>6. tx[c].role \subseteq Nat /\ roles' = roles \cup tx[c].role /\ roles' \subseteq Nat
  BY <1>1 DEF OpenTx, CommitTx, AccountsInv, TypeOK
<1>7. assignments' \subseteq (1 .. MaxPeople) \X roles'
  <2>1. AssignmentsOf(tx[c]) \subseteq (1 .. MaxPeople) \X roles'
    BY <1>2, <1>3, <1>6 DEF AssignmentsOf
  <2>2. assignments \subseteq (1 .. MaxPeople) \X roles'
    BY <1>6 DEF AccountsInv, TypeOK
  <2> QED
    BY <2>1, <2>2 DEF CommitTx
<1>8. grants' \subseteq roles' \X Seeded
  <2>1. tx[c].grants \subseteq tx[c].role \X Seeded
    BY <1>1 DEF AccountsInv, OpenInv
  <2> QED
    BY <1>6, <2>1 DEF CommitTx, AccountsInv, TypeOK
<1>9. service' \subseteq { p.id : p \in people' }
  <2>1. { w.id : w \in tx[c].row } = {r.id}
    BY <1>2
  <2> QED
    BY <1>4, <2>1 DEF CommitTx, AccountsInv, TypeOK
<1>10. ensured' \in {"none", "exists", "done", "failed"}
  BY DEF CommitTx, AccountsInv, TypeOK
<1>11. tx' \in [Clients -> {Idle} \cup OpenTx]
  BY TxChanges DEF CommitTx, AccountsInv
<1>12. lapsed' \subseteq 1 .. MaxPeople /\ nextId' \in 1 .. MaxPeople + 1 /\ nextRole' \in Nat
  BY DEF CommitTx, AccountsInv, TypeOK
<1> QED
  BY <1>4, <1>5, <1>6, <1>7, <1>8, <1>9, <1>10, <1>11, <1>12 DEF TypeOK

\* The row that was only the transaction's becomes everybody's.
LEMMA CommitKeeps ==
  ASSUME AccountsInv, NEW c \in Clients, CommitTx(c)
  PROVE  AccountsInv'
<1>1. PICK r \in PersonRows :
        /\ tx[c].row = {r} /\ r \in OpenRow(c) /\ r.id \notin links
        /\ (r.verified <=> tx[c].kind # "register")
        /\ (r.password = "temporary" => tx[c].kind = "staff")
        /\ \A m \in mails : m.id = r.id => m.kind = tx[c].kind /\ m.to = r.email
  BY OneOpenRow DEF CommitTx
<1>2. people' = people \cup {r} /\ UNCHANGED <<lapsed, nextId, mails>> /\ tx' = [tx EXCEPT ![c] = Idle]
  BY <1>1 DEF CommitTx
<1>3. \A id : id \in links' <=> id \in links \/ (id = r.id /\ ~r.verified)
  BY <1>1 DEF CommitTx, LinksOf
<1>4. /\ tx'[c] = Idle /\ \A d \in Clients : d # c => tx'[d] = tx[d]
  BY <1>2, TxChanges DEF AccountsInv
<1>5. OpenRow(c)' = {} /\ \A d \in Clients : d # c => OpenRow(d)' = OpenRow(d)
  BY <1>4 DEF OpenRow
<1>6. \A p \in people : p.id # r.id /\ Folded[p.email] # Folded[r.email]
  BY <1>1 DEF AccountsInv, UniqueRows
<1>7. \A d \in Clients : d # c => \A w \in OpenRow(d) : w.id # r.id /\ Folded[w.email] # Folded[r.email]
  BY <1>1 DEF AccountsInv, UniqueRows
<1>8. TypeOK'
  BY CommitTyped
<1>9. RoomKept'
  BY <1>2, ClosesRoom
<1>10. UniqueRows'
  <2>1. (\A p, q \in people : p.id = q.id => p = q)'
    BY <1>2, <1>6 DEF AccountsInv, UniqueRows
  <2>2. OneAccountPerAddress'
    BY <1>2, <1>6 DEF AccountsInv, UniqueRows, OneAccountPerAddress
  <2>3. ASSUME NEW d \in Clients, NEW w \in OpenRow(d)', NEW p \in people'
        PROVE  w.id # p.id /\ Folded[w.email] # Folded[p.email]
    <3>1. d # c /\ w \in OpenRow(d)
      BY <1>5, <2>3
    <3> QED
      BY <1>2, <1>7, <3>1 DEF AccountsInv, UniqueRows
  <2>4. ASSUME NEW d \in Clients, NEW e \in Clients, d # e, NEW w \in OpenRow(d)', NEW x \in OpenRow(e)'
        PROVE  w.id # x.id /\ Folded[w.email] # Folded[x.email]
    BY <1>5, <2>4 DEF AccountsInv, UniqueRows
  <2> QED
    BY <2>1, <2>2, <2>3, <2>4 DEF UniqueRows
<1>11. IdsDrawn'
  <2>1. r.id < nextId
    BY <1>1 DEF AccountsInv, IdsDrawn
  <2>2. \A d \in Clients : \A w \in OpenRow(d)' : w.id < nextId
    BY <1>5 DEF AccountsInv, IdsDrawn
  <2> QED
    BY <1>2, <1>3, <2>1, <2>2 DEF AccountsInv, IdsDrawn
<1>12. ASSUME NEW d \in Clients PROVE OpenInv(d)'
  <2>1. CASE d = c
    BY <1>4, <2>1 DEF OpenInv
  <2>2. CASE d # c
    <3>1. tx[d] # Idle => \A w \in tx[d].row : w.id # r.id
      BY <1>7, <2>2 DEF OpenRow
    <3> QED
      BY <1>2, <1>3, <1>4, <2>2, <3>1 DEF AccountsInv, OpenInv
  <2> QED
    BY <2>1, <2>2
<1>14. LinksReachTheirAddress'
  BY <1>1, <1>2, <1>3, <1>6 DEF AccountsInv, LinksReachTheirAddress
<1>15. UnverifiedHaveALink'
  BY <1>1, <1>2, <1>3, <1>6 DEF AccountsInv, UnverifiedHaveALink
<1>16. TemporaryPasswordsWork'
  BY <1>1, <1>2 DEF AccountsInv, TemporaryPasswordsWork
<1> QED
  BY <1>8, <1>9, <1>10, <1>11, <1>12, <1>14, <1>15, <1>16 DEF AccountsInv

-----------------------------------------------------------------------------
(* Steps on committed rows *)

\* No transaction moves; the rows and links it must know of stay apart.
LEMMA NoTxStep ==
  ASSUME AccountsInv, UNCHANGED <<tx, nextId, mails>>, links' \subseteq links
  PROVE  /\ RoomKept' /\ \A c \in Clients : OpenInv(c)' /\ OpenRow(c)' = OpenRow(c)
<1>1. Looked' \subseteq Looked
  BY DEF Looked
<1>2. RoomKept'
  BY <1>1, RoomStays DEF AccountsInv
<1> QED
  BY <1>2 DEF AccountsInv, OpenInv, OpenRow

\* A person's row is replaced by one with the same id.
LEMMA PersonChanges ==
  ASSUME AccountsInv, NEW p \in people, NEW q \in PersonRows, q.id = p.id,
         people' = (people \ {p}) \cup {q},
         links' \subseteq links, \A id \in links : id # p.id => id \in links',
         UNCHANGED <<lapsed, nextId, roles, nextRole, grants, assignments, mails, tx, service, ensured>>,
         \A w \in people : w # p => Folded[w.email] # Folded[q.email],
         \A c \in Clients : \A r \in OpenRow(c) : Folded[r.email] # Folded[q.email],
         q.verified = TRUE, q.password = "temporary" => p.password = "temporary"
  PROVE  AccountsInv'
<1>1. RoomKept' /\ \A c \in Clients : OpenInv(c)' /\ OpenRow(c)' = OpenRow(c)
  BY NoTxStep
<1>2. { w.id : w \in people' } = { w.id : w \in people }
  OBVIOUS
<1>3. TypeOK'
  BY <1>2 DEF AccountsInv, TypeOK
<1>4. \A w \in people : w # p => w.id # p.id
  BY DEF AccountsInv, UniqueRows
<1>5. UniqueRows'
  <2>1. (\A w, x \in people : w.id = x.id => w = x)'
    BY <1>4 DEF AccountsInv, UniqueRows
  <2>2. OneAccountPerAddress'
    BY DEF AccountsInv, UniqueRows, OneAccountPerAddress
  <2>3. ASSUME NEW d \in Clients, NEW r \in OpenRow(d)', NEW w \in people'
        PROVE  r.id # w.id /\ Folded[r.email] # Folded[w.email]
    <3>1. r \in OpenRow(d) /\ r.id # p.id
      BY <1>1, <2>3 DEF AccountsInv, UniqueRows
    <3> QED
      BY <3>1 DEF AccountsInv, UniqueRows
  <2>4. (\A c, d \in Clients : c # d => \A r \in OpenRow(c), w \in OpenRow(d) :
           r.id # w.id /\ Folded[r.email] # Folded[w.email])'
    BY <1>1 DEF AccountsInv, UniqueRows
  <2> QED
    BY <2>1, <2>2, <2>3, <2>4 DEF UniqueRows
<1>6. IdsDrawn'
  BY <1>1 DEF AccountsInv, IdsDrawn
<1>8. LinksReachTheirAddress'
  BY DEF AccountsInv, LinksReachTheirAddress
<1>9. UnverifiedHaveALink'
  BY <1>4 DEF AccountsInv, UnverifiedHaveALink
<1>10. TemporaryPasswordsWork'
  BY DEF AccountsInv, TemporaryPasswordsWork
<1> QED
  BY <1>1, <1>3, <1>5, <1>6, <1>8, <1>9, <1>10 DEF AccountsInv

LEMMA ActivationKeeps ==
  ASSUME AccountsInv, NEW m \in mails, AccountActivation(m)
  PROVE  AccountsInv'
<1>1. PICK p \in people :
        /\ p.id \in links /\ ~p.verified /\ links' = links \ {p.id}
        /\ people' = (people \ {p}) \cup {[p EXCEPT !.verified = TRUE]}
  BY DEF AccountActivation, LookupPersonByEmail
<1>2. p \in PersonRows
  BY DEF AccountsInv, TypeOK
<1>3. PICK q \in PersonRows : /\ q = [p EXCEPT !.verified = TRUE] /\ q.id = p.id /\ q.email = p.email
                              /\ q.verified = TRUE /\ q.password = p.password
  <2> DEFINE q == [p EXCEPT !.verified = TRUE]
  <2>1. q \in PersonRows /\ q.id = p.id /\ q.email = p.email /\ q.verified = TRUE /\ q.password = p.password
    BY <1>2 DEF PersonRows
  <2> QED
    BY <2>1
<1>4. \A w \in people : w # p => Folded[w.email] # Folded[q.email]
  BY <1>3 DEF AccountsInv, UniqueRows, OneAccountPerAddress
<1>5. \A c \in Clients : \A r \in OpenRow(c) : Folded[r.email] # Folded[q.email]
  BY <1>3 DEF AccountsInv, UniqueRows
<1>6. UNCHANGED <<lapsed, nextId, roles, nextRole, grants, assignments, mails, tx, service, ensured>>
  BY DEF AccountActivation, authority
<1>7. /\ people' = (people \ {p}) \cup {q}
      /\ links' \subseteq links /\ \A id \in links : id # p.id => id \in links'
  BY <1>1, <1>3
<1>8. q.id = p.id /\ q.verified = TRUE /\ (q.password = "temporary" => p.password = "temporary")
  BY <1>3
<1> QED
  BY <1>4, <1>5, <1>6, <1>7, <1>8, PersonChanges

LEMMA SetUserInfoKeeps ==
  ASSUME AccountsInv, NEW id, NEW email \in Emails, SetUserInfo(id, email)
  PROVE  AccountsInv'
<1>1. PICK p \in people :
        /\ p.verified /\ LookupPersonByEmail(email) \subseteq {p} /\ ~ \E c \in Clients : Holds(c, email)
        /\ people' = (people \ {p}) \cup {[p EXCEPT !.email = email]}
  BY DEF SetUserInfo, LookupPerson, PersonById
<1>2. p \in PersonRows
  BY DEF AccountsInv, TypeOK
<1>3. PICK q \in PersonRows : /\ q = [p EXCEPT !.email = email] /\ q.id = p.id /\ q.email = email
                              /\ q.verified = p.verified /\ q.password = p.password
  <2> DEFINE q == [p EXCEPT !.email = email]
  <2>1. /\ q \in PersonRows /\ q.id = p.id /\ q.email = email
        /\ q.verified = p.verified /\ q.password = p.password
    BY <1>2 DEF PersonRows
  <2> QED
    BY <2>1
<1>4. \A w \in people : w # p => Folded[w.email] # Folded[q.email]
  BY <1>1, <1>3 DEF LookupPersonByEmail
<1>5. \A c \in Clients : \A r \in OpenRow(c) : Folded[r.email] # Folded[q.email]
  BY <1>1, <1>3 DEF Holds, OpenRow
<1>6. UNCHANGED <<links, lapsed, nextId, roles, nextRole, grants, assignments, mails, tx, service, ensured>>
  BY DEF SetUserInfo, authority
<1>8. /\ people' = (people \ {p}) \cup {q}
      /\ links' \subseteq links /\ \A x \in links : x # p.id => x \in links'
  BY <1>1, <1>3, <1>6
<1>9. q.id = p.id /\ q.verified = TRUE /\ (q.password = "temporary" => p.password = "temporary")
  BY <1>1, <1>2, <1>3 DEF PersonRows
<1> QED
  BY <1>4, <1>5, <1>6, <1>8, <1>9, PersonChanges

LEMMA UpdateUserPasswordKeeps ==
  ASSUME AccountsInv, NEW id, UpdateUserPassword(id)
  PROVE  AccountsInv'
<1>1. PICK p \in people : p.verified /\ people' = (people \ {p}) \cup {[p EXCEPT !.password = "own"]}
  BY DEF UpdateUserPassword, LookupPerson, PersonById
<1>2. p \in PersonRows
  BY DEF AccountsInv, TypeOK
<1>3. PICK q \in PersonRows : /\ q = [p EXCEPT !.password = "own"] /\ q.id = p.id /\ q.email = p.email
                              /\ q.verified = p.verified /\ q.password = "own"
  <2> DEFINE q == [p EXCEPT !.password = "own"]
  <2>1. /\ q \in PersonRows /\ q.id = p.id /\ q.email = p.email
        /\ q.verified = p.verified /\ q.password = "own"
    BY <1>2 DEF PersonRows
  <2> QED
    BY <2>1
<1>4. \A w \in people : w # p => Folded[w.email] # Folded[q.email]
  BY <1>3 DEF AccountsInv, UniqueRows, OneAccountPerAddress
<1>5. \A c \in Clients : \A r \in OpenRow(c) : Folded[r.email] # Folded[q.email]
  BY <1>3 DEF AccountsInv, UniqueRows
<1>6. UNCHANGED <<links, lapsed, nextId, roles, nextRole, grants, assignments, mails, tx, service, ensured>>
  BY DEF UpdateUserPassword, authority
<1>8. /\ people' = (people \ {p}) \cup {q}
      /\ links' \subseteq links /\ \A x \in links : x # p.id => x \in links'
  BY <1>1, <1>3, <1>6
<1>9. q.id = p.id /\ q.verified = TRUE /\ (q.password = "temporary" => p.password = "temporary")
  BY <1>1, <1>2, <1>3 DEF PersonRows
<1> QED
  BY <1>4, <1>5, <1>6, <1>8, <1>9, PersonChanges

LEMMA CompleteResetKeeps ==
  ASSUME AccountsInv, NEW id, CompleteReset(id)
  PROVE  AccountsInv'
<1>1. PICK p \in people : people' = (people \ {p}) \cup {[p EXCEPT !.verified = TRUE, !.password = "own"]}
  BY DEF CompleteReset, PersonById
<1>2. p \in PersonRows
  BY DEF AccountsInv, TypeOK
<1>3. PICK q \in PersonRows : /\ q = [p EXCEPT !.verified = TRUE, !.password = "own"] /\ q.id = p.id /\ q.email = p.email
                              /\ q.verified = TRUE /\ q.password = "own"
  <2> DEFINE q == [p EXCEPT !.verified = TRUE, !.password = "own"]
  <2>1. /\ q \in PersonRows /\ q.id = p.id /\ q.email = p.email
        /\ q.verified = TRUE /\ q.password = "own"
    BY <1>2 DEF PersonRows
  <2> QED
    BY <2>1
<1>4. \A w \in people : w # p => Folded[w.email] # Folded[q.email]
  BY <1>3 DEF AccountsInv, UniqueRows, OneAccountPerAddress
<1>5. \A c \in Clients : \A r \in OpenRow(c) : Folded[r.email] # Folded[q.email]
  BY <1>3 DEF AccountsInv, UniqueRows
<1>6. UNCHANGED <<links, lapsed, nextId, roles, nextRole, grants, assignments, mails, tx, service, ensured>>
  BY DEF CompleteReset, authority
<1>8. /\ people' = (people \ {p}) \cup {q}
      /\ links' \subseteq links /\ \A x \in links : x # p.id => x \in links'
  BY <1>1, <1>3, <1>6
<1>9. q.id = p.id /\ q.verified = TRUE /\ (q.password = "temporary" => p.password = "temporary")
  BY <1>1, <1>2, <1>3 DEF PersonRows
<1> QED
  BY <1>4, <1>5, <1>6, <1>8, <1>9, PersonChanges

LEMMA DeletePersonKeeps ==
  ASSUME AccountsInv, NEW id, DeletePerson(id)
  PROVE  AccountsInv'
<1>1. PICK p \in people : p.id = id /\ people' = people \ {p}
  BY DEF DeletePerson, LookupPerson, PersonById
<1>2. /\ links' = links \ {id} /\ assignments' \subseteq assignments /\ service' = service \ {id}
      /\ UNCHANGED <<lapsed, nextId, roles, nextRole, grants, mails, tx, ensured>>
  BY DEF DeletePerson
<1>3. RoomKept' /\ \A c \in Clients : OpenInv(c)' /\ OpenRow(c)' = OpenRow(c)
  BY <1>2, NoTxStep
<1>4. \A w \in people : w \in people' <=> w.id # id
  BY <1>1 DEF AccountsInv, UniqueRows
<1>5. TypeOK'
  <2>1. service' \subseteq { w.id : w \in people' }
    BY <1>2, <1>4 DEF AccountsInv, TypeOK
  <2> QED
    BY <1>1, <1>2, <2>1 DEF AccountsInv, TypeOK
<1>6. UniqueRows'
  BY <1>1, <1>3 DEF AccountsInv, UniqueRows, OneAccountPerAddress
<1>7. IdsDrawn'
  BY <1>1, <1>2, <1>3 DEF AccountsInv, IdsDrawn
<1>8. LinksReachTheirAddress' /\ UnverifiedHaveALink' /\ TemporaryPasswordsWork'
  BY <1>1, <1>2, <1>4 DEF AccountsInv, LinksReachTheirAddress, UnverifiedHaveALink,
     TemporaryPasswordsWork
<1> QED
  BY <1>3, <1>5, <1>6, <1>7, <1>8 DEF AccountsInv

LEMMA DeleteExpiredKeeps ==
  ASSUME AccountsInv, NEW id, DeleteExpired(id)
  PROVE  AccountsInv'
<1>1. /\ id \in links /\ links' = links \ {id} /\ lapsed' = lapsed \cup {id}
      /\ UNCHANGED <<people, nextId, roles, nextRole, grants, assignments, mails, tx, service, ensured>>
  BY DEF DeleteExpired, authority
<1>2. RoomKept' /\ \A c \in Clients : OpenInv(c)' /\ OpenRow(c)' = OpenRow(c)
  BY <1>1, NoTxStep
<1>3. TypeOK'
  BY <1>1 DEF AccountsInv, TypeOK
<1>4. UniqueRows' /\ IdsDrawn'
  BY <1>1, <1>2 DEF AccountsInv, UniqueRows, OneAccountPerAddress, IdsDrawn
<1>5. LinksReachTheirAddress' /\ UnverifiedHaveALink' /\ TemporaryPasswordsWork'
  BY <1>1 DEF AccountsInv, LinksReachTheirAddress, UnverifiedHaveALink,
     TemporaryPasswordsWork
<1> QED
  BY <1>2, <1>3, <1>4, <1>5 DEF AccountsInv

LEMMA AccountsStep == AccountsInv /\ [Next]_vars => AccountsInv'
<1> SUFFICES ASSUME AccountsInv, [Next]_vars PROVE AccountsInv'
  OBVIOUS
<1>1. ASSUME NEW c \in Clients, NEW e \in Emails, Register(c, e) PROVE AccountsInv'
  BY <1>1, AddPersonKeeps DEF Register, Kinds
<1>2. ASSUME NEW c \in Clients, NEW e \in Emails, LookFirst(c, "staff", e) PROVE AccountsInv'
  BY <1>2, LookFirstKeeps DEF Kinds
<1>3. ASSUME NEW c \in Clients, LookFirst(c, "scheduler", SchedulerEmail) PROVE AccountsInv'
  BY <1>3, LookFirstKeeps, AccountsAssumption DEF Kinds
<1>4. ASSUME NEW c \in Clients, CreateFullyValidatedUser(c) PROVE AccountsInv'
  <2>1. tx[c] \in OpenTx
    BY <1>4, OpenTyped DEF CreateFullyValidatedUser, AccountsInv
  <2>2. tx[c].kind \in Kinds /\ tx[c].email \in Emails
    BY <2>1 DEF OpenTx
  <2> QED
    BY <1>4, <2>2, AddPersonKeeps DEF CreateFullyValidatedUser
<1>5. ASSUME NEW c \in Clients, Proceed(c) PROVE AccountsInv'
  BY <1>4, <1>5, SendMailKeeps, SendMailFailsKeeps, GrantKeeps, CommitKeeps DEF Proceed
<1>6. ASSUME NEW c \in Clients, RollBack(c) PROVE AccountsInv'
  BY <1>6, RollBackKeeps
<1>7. ASSUME NEW m \in mails, AccountActivation(m) PROVE AccountsInv'
  BY <1>7, ActivationKeeps
<1>8. ASSUME NEW id, DeleteExpired(id) \/ UpdateUserPassword(id) \/ CompleteReset(id) \/ DeletePerson(id) PROVE AccountsInv'
  BY <1>8, DeleteExpiredKeeps, UpdateUserPasswordKeeps, CompleteResetKeeps, DeletePersonKeeps
<1>9. ASSUME NEW id, NEW e \in Emails, SetUserInfo(id, e) PROVE AccountsInv'
  BY <1>9, SetUserInfoKeeps
<1>10. CASE UNCHANGED vars
  <2>1. UNCHANGED <<people, links, lapsed, nextId, roles, nextRole, grants, assignments, mails, tx, service, ensured>>
    BY <1>10 DEF vars
  <2>2. RoomKept' /\ \A c \in Clients : OpenInv(c)' /\ OpenRow(c)' = OpenRow(c)
    BY <2>1, NoTxStep
  <2>3. TypeOK' /\ UniqueRows' /\ IdsDrawn'
    BY <2>1, <2>2 DEF AccountsInv, TypeOK, UniqueRows, OneAccountPerAddress, IdsDrawn
  <2>4. LinksReachTheirAddress' /\ UnverifiedHaveALink' /\ TemporaryPasswordsWork'
    BY <2>1 DEF AccountsInv, LinksReachTheirAddress, UnverifiedHaveALink,
       TemporaryPasswordsWork
  <2> QED
    BY <2>2, <2>3, <2>4 DEF AccountsInv
<1> QED
  BY <1>1, <1>2, <1>3, <1>5, <1>6, <1>7, <1>8, <1>9, <1>10 DEF Next

LEMMA AccountsInvariant == Spec => []AccountsInv
<1> QED
  BY AccountsInit, AccountsStep, PTL DEF Spec

\* However registrations, staff accounts, address changes, deletions and lost
\* connections overlap: no two accounts share an address, a link that still
\* works belongs to the address it was mailed to, whoever is not verified has a
\* link or has let it lapse, and a temporary password opens its account.
THEOREM AccountsAlwaysReachable == Spec => []AccountsAreReachable
<1>1. AccountsInv => AccountsAreReachable
  BY DEF AccountsInv, AccountsAreReachable, UniqueRows
<1> QED
  BY <1>1, AccountsInvariant, PTL

-----------------------------------------------------------------------------
(* The scheduler's account and its role *)

LEMMA PermissionsRead ==
  \A id, perm : perm \in GetPermissionsForUser(id) <=>
    \E a \in assignments, g \in grants : a[1] = id /\ a[2] = g[1] /\ g[2] = perm
  BY DEF GetPermissionsForUser, GetRolesForUser

\* Only one transaction at a time has a role: who has one holds the address.
LEMMA OneGranter ==
  ASSUME AccountsInv, SchedulerInv, NEW c \in Clients, NEW d \in Clients, c # d,
         tx[c].step \in {"inserted", "done"}, tx[c].kind = "scheduler"
  PROVE  OpenRole(d) = {}
<1> SUFFICES ASSUME OpenRole(d) # {} PROVE FALSE
  OBVIOUS
<1>1. tx[c] # Idle /\ tx[d] # Idle /\ tx[d].kind = "scheduler" /\ tx[d].step = "done"
  BY OpenTyped, IdleIsNotOpen DEF OpenRole, AccountsInv, SchedulerInv, SchedulerTx
<1>2. PICK r \in OpenRow(c) : r \in tx[c].row
  BY OneOpenRow
<1>3. PICK w \in OpenRow(d) : w \in tx[d].row
  BY <1>1, OneOpenRow
<1>4. r.email = SchedulerEmail /\ w.email = SchedulerEmail
  BY <1>1, <1>2, <1>3 DEF SchedulerInv, SchedulerTx
<1> QED
  BY <1>4 DEF AccountsInv, UniqueRows

\* A step of one transaction that commits nothing.
LEMMA SchedulerQuiet ==
  ASSUME SchedulerInv, NEW c \in Clients, \A d \in Clients : d # c => tx'[d] = tx[d],
         UNCHANGED <<roles, grants, assignments, service>>,
         SchedulerTx(c)', \A x \in OpenRole(c)', y \in roles : x = y
  PROVE  SchedulerInv'
<1>1. ASSUME NEW d \in Clients PROVE SchedulerTx(d)' /\ \A x \in OpenRole(d)', y \in roles' : x = y
  <2>1. CASE d # c
    <3>1. tx'[d] = tx[d] /\ roles' = roles
      BY <2>1
    <3>2. SchedulerTx(d)'
      BY <3>1 DEF SchedulerInv, SchedulerTx
    <3>3. OpenRole(d)' = OpenRole(d)
      BY <3>1 DEF OpenRole
    <3> QED
      BY <3>1, <3>2, <3>3 DEF SchedulerInv
  <2>2. CASE d = c
    BY <2>2
  <2> QED
    BY <2>1, <2>2
<1>2. SchedulerIsAuthorized'
  BY DEF SchedulerInv, SchedulerIsAuthorized, GetPermissionsForUser, GetRolesForUser
<1> QED
  BY <1>1, <1>2 DEF SchedulerInv

\* A transaction opens, inserts, or ends without a COMMIT.
LEMMA SchedulerNoRole ==
  ASSUME TypeOK, SchedulerInv, NEW c \in Clients, NEW v \in {Idle} \cup OpenTx, tx' = [tx EXCEPT ![c] = v],
         UNCHANGED <<roles, grants, assignments, service>>,
         v = Idle \/ (/\ v.role = {}
                      /\ v.kind = "scheduler" => /\ v.email = SchedulerEmail /\ v.step # "done"
                                                 /\ \A r \in v.row : r.email = SchedulerEmail)
  PROVE  SchedulerInv'
<1>1. tx'[c] = v /\ \A d \in Clients : d # c => tx'[d] = tx[d]
  BY TxChanges
<1>2. SchedulerTx(c)' /\ OpenRole(c)' = {}
  BY <1>1 DEF SchedulerTx, OpenRole
<1> QED
  BY <1>1, <1>2, SchedulerQuiet

LEMMA SchedulerAddPerson ==
  ASSUME AccountsInv, SchedulerInv, NEW c \in Clients, NEW kind \in Kinds, NEW email \in Emails,
         AddPerson(c, kind, email), kind = "scheduler" => email = SchedulerEmail,
         nextId \in 1 .. MaxPeople
  PROVE  SchedulerInv'
<1>1. UNCHANGED <<roles, grants, assignments, service>>
  BY DEF AddPerson, authority
<1>2. CASE Taken(email)
  BY <1>1, <1>2, SchedulerNoRole DEF AddPerson, AccountsInv
<1>3. CASE ~Taken(email)
  <2> DEFINE r == Row(nextId, email, Validated(kind), IF kind = "staff" THEN "temporary" ELSE "own")
             v == [Tx("inserted", kind, email) EXCEPT !.row = {r}]
  <2>1. tx' = [tx EXCEPT ![c] = v]
    BY <1>3 DEF AddPerson
  <2>2. PICK b \in BOOLEAN : b = Validated(kind)
    BY DEF Validated
  <2>3. r.email = email /\ r \in PersonRows
    BY <2>2 DEF Row, PersonRows
  <2> HIDE DEF r
  <2>4. /\ v \in OpenTx /\ v.role = {} /\ v.row = {r} /\ v.kind = kind /\ v.email = email
        /\ v.step = "inserted"
    BY <2>3 DEF Tx, OpenTx
  <2> HIDE DEF v
  <2> QED
    BY <1>1, <2>1, <2>3, <2>4, SchedulerNoRole DEF AccountsInv
<1> QED
  BY <1>2, <1>3

LEMMA SchedulerLookFirst ==
  ASSUME AccountsInv, SchedulerInv, NEW c \in Clients, NEW kind \in Kinds, NEW email \in Emails,
         LookFirst(c, kind, email), kind = "scheduler" => email = SchedulerEmail
  PROVE  SchedulerInv'
<1>1. UNCHANGED <<roles, grants, assignments, service>>
  BY DEF LookFirst, authority
<1>2. CASE Taken(email)
  <2>1. UNCHANGED tx
    BY <1>2 DEF LookFirst
  <2>2. SchedulerTx(c)' /\ \A x \in OpenRole(c)', y \in roles : x = y
    BY <2>1 DEF SchedulerInv, SchedulerTx, OpenRole
  <2> QED
    BY <1>1, <2>1, <2>2, SchedulerQuiet
<1>3. CASE ~Taken(email)
  <2> DEFINE v == Tx("looked", kind, email)
  <2>1. /\ v \in OpenTx /\ v.role = {} /\ v.row = {} /\ v.kind = kind /\ v.email = email
        /\ v.step = "looked"
    BY NewTxTyped
  <2>2. tx' = [tx EXCEPT ![c] = v]
    BY <1>3 DEF LookFirst
  <2> HIDE DEF v
  <2> QED
    BY <1>1, <2>1, <2>2, SchedulerNoRole DEF AccountsInv
<1> QED
  BY <1>2, <1>3

\* The mail of a registration or of a staff account, sent or not.
LEMMA SchedulerMail ==
  ASSUME AccountsInv, SchedulerInv, NEW c \in Clients, SendMail(c) \/ SendMailFails(c)
  PROVE  SchedulerInv'
<1>1. /\ tx[c] \in OpenTx /\ tx[c] # Idle /\ tx[c].kind \in {"register", "staff"}
      /\ UNCHANGED <<roles, grants, assignments, service>>
  BY OpenTyped, IdleIsNotOpen DEF SendMail, SendMailFails, authority, AccountsInv
<1>2. tx[c].role = {}
  BY <1>1 DEF SchedulerInv, SchedulerTx
<1>3. CASE tx' = [tx EXCEPT ![c] = Idle]
  BY <1>1, <1>3, SchedulerNoRole DEF AccountsInv
<1>4. CASE tx' = [tx EXCEPT ![c] = [tx[c] EXCEPT !.step = "done"]]
  <2> DEFINE v == [tx[c] EXCEPT !.step = "done"]
  <2>1. v \in OpenTx /\ v.role = {} /\ v.kind # "scheduler"
    BY <1>1, <1>2 DEF OpenTx
  <2>2. tx' = [tx EXCEPT ![c] = v]
    BY <1>4
  <2> HIDE DEF v
  <2> QED
    BY <1>1, <2>1, <2>2, SchedulerNoRole DEF AccountsInv
<1> QED
  BY <1>3, <1>4 DEF SendMail, SendMailFails

LEMMA SchedulerGrants ==
  ASSUME AccountsInv, SchedulerInv, NEW c \in Clients, GrantScheduler(c)
  PROVE  SchedulerInv'
<1>1. /\ tx[c] \in OpenTx /\ tx[c] # Idle /\ tx[c].step = "inserted" /\ tx[c].kind = "scheduler"
      /\ UNCHANGED <<roles, grants, assignments, service>>
  BY OpenTyped, IdleIsNotOpen DEF GrantScheduler, AccountsInv
<1>2. PICK role \in IF roles = {} THEN {nextRole} ELSE roles :
        LET wanted == {role} \X (Seeded \cap {"manage_subscriptions", "manage_class_schedule"})
        IN  \/ /\ tx' = [tx EXCEPT ![c].step = "done", ![c].role = {role}, ![c].grants = wanted]
               /\ "manage_subscriptions" \in Seeded
            \/ tx' = [tx EXCEPT ![c] = Idle]
  BY DEF GrantScheduler
<1>3. CASE tx' = [tx EXCEPT ![c] = Idle]
  BY <1>1, <1>3, SchedulerNoRole DEF AccountsInv
<1> DEFINE wanted == {role} \X (Seeded \cap {"manage_subscriptions", "manage_class_schedule"})
<1>4. CASE /\ tx' = [tx EXCEPT ![c].step = "done", ![c].role = {role}, ![c].grants = wanted]
           /\ "manage_subscriptions" \in Seeded
  <2>1. <<role, "manage_subscriptions">> \in wanted
    BY <1>4
  <2> HIDE DEF wanted
  <2> DEFINE v == [tx[c] EXCEPT !.step = "done", !.role = {role}, !.grants = wanted]
  <2>2. /\ v.step = "done" /\ v.row = tx[c].row /\ v.kind = "scheduler" /\ v.email = tx[c].email
        /\ v.grants = wanted /\ v.role = {role}
    BY <1>1 DEF OpenTx
  <2>3. tx' = [tx EXCEPT ![c] = v]
    BY <1>4
  <2> HIDE DEF v
  <2>4. tx'[c] = v /\ \A d \in Clients : d # c => tx'[d] = tx[d]
    BY <2>3 DEF AccountsInv, TypeOK
  <2>5. SchedulerTx(c)'
    BY <1>1, <2>1, <2>2, <2>4 DEF SchedulerInv, SchedulerTx
  <2>6. \A x \in OpenRole(c)', y \in roles : x = y
    <3>1. OpenRole(c)' \subseteq {role}
      BY <2>2, <2>4 DEF OpenRole
    <3> QED
      BY <3>1 DEF SchedulerInv
  <2> QED
    BY <1>1, <2>4, <2>5, <2>6, SchedulerQuiet
<1> QED
  BY <1>2, <1>3, <1>4

LEMMA SchedulerCommits ==
  ASSUME AccountsInv, SchedulerInv, NEW c \in Clients, CommitTx(c)
  PROVE  SchedulerInv'
<1>1. tx[c] \in OpenTx /\ tx[c] # Idle /\ tx[c].step = "done"
  BY OpenTyped, IdleIsNotOpen DEF CommitTx, AccountsInv
<1>2. /\ tx' = [tx EXCEPT ![c] = Idle] /\ roles' = roles \cup tx[c].role /\ grants' = grants \cup tx[c].grants
      /\ assignments' = assignments \cup AssignmentsOf(tx[c])
  BY DEF CommitTx
<1>3. tx'[c] = Idle /\ \A d \in Clients : d # c => tx'[d] = tx[d]
  BY <1>2, TxChanges DEF AccountsInv
<1>4. \A d \in Clients : SchedulerTx(d)'
  BY <1>3 DEF SchedulerInv, SchedulerTx
<1>5. OpenRole(c) = tx[c].role /\ OpenRole(c)' = {} /\ \A d \in Clients : d # c => OpenRole(d)' = OpenRole(d)
  BY <1>1, <1>3 DEF OpenRole
<1>6. CASE tx[c].kind # "scheduler"
  <2>1. tx[c].role = {} /\ roles' = roles /\ service' = service
    BY <1>1, <1>6 DEF SchedulerInv, SchedulerTx, CommitTx
  <2>2. SchedulerIsAuthorized'
    <3>1. ASSUME NEW id \in service' PROVE "manage_subscriptions" \in GetPermissionsForUser(id)'
      <4>1. PICK a \in assignments, g \in grants : a[1] = id /\ a[2] = g[1] /\ g[2] = "manage_subscriptions"
        BY <2>1, <3>1, PermissionsRead DEF SchedulerInv, SchedulerIsAuthorized
      <4>2. a \in assignments' /\ g \in grants'
        BY <1>2, <4>1
      <4> QED
        BY <4>1, <4>2 DEF GetPermissionsForUser, GetRolesForUser
    <3> QED
      BY <3>1 DEF SchedulerIsAuthorized
  <2> QED
    BY <1>4, <1>5, <2>1, <2>2 DEF SchedulerInv
<1>7. CASE tx[c].kind = "scheduler"
  <2>1. PICK x \in tx[c].role : tx[c].role = {x} /\ <<x, "manage_subscriptions">> \in tx[c].grants
    BY <1>1, <1>7 DEF SchedulerInv, SchedulerTx
  <2>2. PICK r \in PersonRows : tx[c].row = {r}
    BY <1>1, OneOpenRow
  <2>3. <<r.id, x>> \in assignments' /\ <<x, "manage_subscriptions">> \in grants'
    BY <1>2, <2>1, <2>2 DEF AssignmentsOf
  <2>4. service' = service \cup {r.id}
    BY <1>7, <2>2 DEF CommitTx
  <2>5. ASSUME NEW id \in service' PROVE "manage_subscriptions" \in GetPermissionsForUser(id)'
    <3>1. CASE id = r.id
      BY <2>3, <3>1 DEF GetPermissionsForUser, GetRolesForUser
    <3>2. CASE id \in service
      <4>1. PICK a \in assignments, g \in grants : a[1] = id /\ a[2] = g[1] /\ g[2] = "manage_subscriptions"
        BY <3>2, PermissionsRead DEF SchedulerInv, SchedulerIsAuthorized
      <4>2. a \in assignments' /\ g \in grants'
        BY <1>2, <4>1
      <4> QED
        BY <4>1, <4>2 DEF GetPermissionsForUser, GetRolesForUser
    <3> QED
      BY <2>4, <2>5, <3>1, <3>2
  <2>6. \A y \in roles : x = y
    BY <1>5, <2>1 DEF SchedulerInv
  <2>7. \A y, z \in roles' : y = z
    BY <1>2, <2>1, <2>6
  <2>8. \A d \in Clients : OpenRole(d)' = {}
    BY <1>1, <1>5, <1>7, OneGranter
  <2> QED
    BY <1>4, <2>5, <2>7, <2>8 DEF SchedulerInv, SchedulerIsAuthorized
<1> QED
  BY <1>6, <1>7

LEMMA SchedulerDeletes ==
  ASSUME SchedulerInv, NEW id, DeletePerson(id)
  PROVE  SchedulerInv'
<1>1. UNCHANGED <<roles, grants, tx>>
  BY DEF DeletePerson
<1>2. \A d \in Clients : SchedulerTx(d)' /\ OpenRole(d)' = OpenRole(d)
  BY <1>1 DEF SchedulerInv, SchedulerTx, OpenRole
<1>3. ASSUME NEW s \in service' PROVE "manage_subscriptions" \in GetPermissionsForUser(s)'
  <2>1. s \in service /\ s # id
    BY <1>3 DEF DeletePerson
  <2>2. PICK a \in assignments, g \in grants : a[1] = s /\ a[2] = g[1] /\ g[2] = "manage_subscriptions"
    BY <2>1, PermissionsRead DEF SchedulerInv, SchedulerIsAuthorized
  <2>3. a \in assignments' /\ g \in grants'
    BY <1>1, <2>1, <2>2 DEF DeletePerson
  <2> QED
    BY <2>2, <2>3 DEF GetPermissionsForUser, GetRolesForUser
<1> QED
  BY <1>1, <1>2, <1>3 DEF SchedulerInv, SchedulerIsAuthorized

\* Everything else leaves transactions and authority alone.
LEMMA SchedulerUntouched ==
  ASSUME SchedulerInv, UNCHANGED <<authority, tx, service>>
  PROVE  SchedulerInv'
<1>1. \A d \in Clients : SchedulerTx(d)' /\ OpenRole(d)' = OpenRole(d)
  BY DEF SchedulerInv, SchedulerTx, OpenRole
<1> QED
  BY <1>1 DEF SchedulerInv, SchedulerIsAuthorized, GetPermissionsForUser, GetRolesForUser, authority

LEMMA SchedulerStep == AccountsInv /\ SchedulerInv /\ [Next]_vars => SchedulerInv'
<1> SUFFICES ASSUME AccountsInv, SchedulerInv, [Next]_vars PROVE SchedulerInv'
  OBVIOUS
<1>1. ASSUME NEW c \in Clients, NEW e \in Emails, Register(c, e) PROVE SchedulerInv'
  BY <1>1, CanDraw, SchedulerAddPerson DEF Register, Kinds
<1>2. ASSUME NEW c \in Clients, NEW e \in Emails, LookFirst(c, "staff", e) PROVE SchedulerInv'
  BY <1>2, SchedulerLookFirst DEF Kinds
<1>3. ASSUME NEW c \in Clients, LookFirst(c, "scheduler", SchedulerEmail) PROVE SchedulerInv'
  BY <1>3, SchedulerLookFirst, AccountsAssumption DEF Kinds
<1>4. ASSUME NEW c \in Clients, CreateFullyValidatedUser(c) PROVE SchedulerInv'
  <2>1. tx[c] \in OpenTx /\ tx[c] # Idle
    BY <1>4, OpenTyped DEF CreateFullyValidatedUser, AccountsInv
  <2>2. tx[c].kind \in Kinds /\ tx[c].email \in Emails
    BY <2>1 DEF OpenTx
  <2>3. tx[c].kind = "scheduler" => tx[c].email = SchedulerEmail
    BY <2>1 DEF SchedulerInv, SchedulerTx
  <2> QED
    BY <1>4, <2>2, <2>3, CanDraw, SchedulerAddPerson DEF CreateFullyValidatedUser
<1>5. ASSUME NEW c \in Clients, Proceed(c) PROVE SchedulerInv'
  BY <1>4, <1>5, SchedulerMail, SchedulerGrants, SchedulerCommits DEF Proceed
<1>6. ASSUME NEW c \in Clients, RollBack(c) PROVE SchedulerInv'
  BY <1>6, SchedulerNoRole DEF RollBack, authority, AccountsInv
<1>7. ASSUME NEW m, AccountActivation(m) PROVE SchedulerInv'
  BY <1>7, SchedulerUntouched DEF AccountActivation
<1>8. ASSUME NEW id, DeleteExpired(id) \/ UpdateUserPassword(id) \/ CompleteReset(id) PROVE SchedulerInv'
  BY <1>8, SchedulerUntouched DEF DeleteExpired, UpdateUserPassword, CompleteReset
<1>9. ASSUME NEW id, NEW e, SetUserInfo(id, e) PROVE SchedulerInv'
  BY <1>9, SchedulerUntouched DEF SetUserInfo
<1>10. CASE UNCHANGED vars
  BY <1>10, SchedulerUntouched DEF vars, authority
<1> QED
  BY <1>1, <1>2, <1>3, <1>5, <1>6, <1>7, <1>8, <1>9, <1>10, SchedulerDeletes DEF Next

LEMMA SchedulerInvariant == Spec => [](AccountsInv /\ SchedulerInv)
<1>1. Init => SchedulerInv
  BY DEF Init, SchedulerInv, SchedulerTx, OpenRole, SchedulerIsAuthorized
<1> QED
  BY <1>1, AccountsInvariant, SchedulerStep, PTL DEF Spec

LEMMA AtMostOne ==
  ASSUME NEW S, \A x, y \in S : x = y
  PROVE  Cardinality(S) <= 1
<1>1. CASE S = {}
  BY <1>1, FS_EmptySet
<1>2. CASE S # {}
  <2>1. PICK x : S = {x}
    BY <1>2
  <2> QED
    BY <2>1, FS_Singleton
<1> QED
  BY <1>1, <1>2

LEMMA OneRoleFollows == AccountsInv /\ SchedulerInv => OneSchedulerRole
<1> SUFFICES ASSUME AccountsInv, SchedulerInv PROVE OneSchedulerRole
  OBVIOUS
<1>1. Cardinality(roles) <= 1
  BY AtMostOne DEF SchedulerInv
<1>2. ASSUME NEW c \in Clients, NEW d \in Clients, tx[c] # Idle, tx[d] # Idle
      PROVE  Cardinality(roles \cup tx[c].role \cup tx[d].role) <= 1
  <2>1. OpenRole(c) = tx[c].role /\ OpenRole(d) = tx[d].role
    BY <1>2 DEF OpenRole
  <2>2. ASSUME NEW e \in Clients, NEW x \in OpenRole(e), NEW y \in OpenRole(e) PROVE x = y
    <3>1. tx[e] # Idle /\ tx[e].role # {}
      BY <2>2 DEF OpenRole
    <3>2. \E z \in tx[e].role : tx[e].role = {z}
      BY <3>1 DEF SchedulerInv, SchedulerTx
    <3> QED
      BY <2>2, <3>1, <3>2 DEF OpenRole
  <2>3. ASSUME NEW x \in tx[c].role, NEW y \in tx[d].role PROVE x = y
    <3>1. CASE c = d
      BY <2>1, <2>2, <3>1
    <3>2. CASE c # d
      <4>1. tx[c].kind = "scheduler" /\ tx[c].step = "done"
        BY <1>2, <2>3 DEF SchedulerInv, SchedulerTx
      <4> QED
        BY <2>1, <3>2, <4>1, OneGranter
    <3> QED
      BY <3>1, <3>2
  <2>4. \A x, y \in roles \cup tx[c].role \cup tx[d].role : x = y
    BY <2>1, <2>2, <2>3 DEF SchedulerInv
  <2> QED
    BY <2>4, AtMostOne
<1> QED
  BY <1>1, <1>2 DEF OneSchedulerRole

LEMMA FailsOnLeftovers ==
  ASSUME AccountsInv, SchedulerInv, Next, "manage_subscriptions" \in Seeded,
         ensured # "failed", ensured' = "failed"
  PROVE  grants # {} \/ Taken(SchedulerEmail)
<1>1. ASSUME NEW c \in Clients, CreateFullyValidatedUser(c) PROVE Taken(SchedulerEmail)
  <2>1. tx[c] # Idle
    BY <1>1, OpenTyped DEF CreateFullyValidatedUser, AccountsInv
  <2>2. tx[c].kind = "scheduler" => tx[c].email = SchedulerEmail
    BY <2>1 DEF SchedulerInv, SchedulerTx
  <2> QED
    BY <1>1, <2>2 DEF CreateFullyValidatedUser, AddPerson
<1>2. ASSUME NEW c \in Clients, GrantScheduler(c) PROVE grants # {}
  BY <1>2 DEF GrantScheduler
<1>3. ASSUME NEW c \in Clients, NEW e, Register(c, e) PROVE FALSE
  BY <1>3 DEF Register, AddPerson
<1>4. ASSUME NEW c \in Clients, NEW kind, NEW e, LookFirst(c, kind, e) PROVE FALSE
  BY <1>4 DEF LookFirst
<1>5. ASSUME NEW c \in Clients, SendMail(c) \/ SendMailFails(c) \/ CommitTx(c) \/ RollBack(c) PROVE FALSE
  BY <1>5 DEF SendMail, SendMailFails, CommitTx, RollBack
<1>6. ASSUME NEW m, AccountActivation(m) PROVE FALSE
  BY <1>6 DEF AccountActivation
<1>7. ASSUME NEW id, DeleteExpired(id) \/ UpdateUserPassword(id) \/ CompleteReset(id) \/ DeletePerson(id) PROVE FALSE
  BY <1>7 DEF DeleteExpired, UpdateUserPassword, CompleteReset, DeletePerson
<1>8. ASSUME NEW id, NEW e, SetUserInfo(id, e) PROVE FALSE
  BY <1>8 DEF SetUserInfo
<1> QED
  BY <1>1, <1>2, <1>3, <1>4, <1>5, <1>6, <1>7, <1>8 DEF Next, Proceed

\* A service account in the table has its permission in every state, even
\* between helpers that run at the same time, and its role exists once
\* although nothing in the schema makes roles.name unique.
THEOREM SchedulerAlwaysAuthorized == Spec => []SchedulerIsAuthorized /\ []OneSchedulerRole
<1>1. SchedulerInv => SchedulerIsAuthorized
  BY DEF SchedulerInv
<1> QED
  BY <1>1, OneRoleFollows, SchedulerInvariant, PTL

\* Where the permission exists, as service_account.h presumes, the helper
\* EnsureSchedulerServiceAccount fails only because of a role that outlived its
\* account or an address somebody took since it looked.
THEOREM SchedulerAlwaysReady ==
  "manage_subscriptions" \in Seeded => (Spec => SchedulerIsReady)
<1> SUFFICES ASSUME "manage_subscriptions" \in Seeded PROVE Spec => SchedulerIsReady
  OBVIOUS
<1>1. AccountsInv /\ SchedulerInv /\ [Next]_vars =>
        [ensured # "failed" /\ ensured' = "failed" => grants # {} \/ Taken(SchedulerEmail)]_vars
  BY FailsOnLeftovers DEF vars
<1> QED
  BY <1>1, SchedulerAlwaysAuthorized, SchedulerInvariant, PTL DEF Spec, SchedulerIsReady, EnsureFailsOnLeftovers

-----------------------------------------------------------------------------
(* What a statement does *)

IsRow(t, r) == r = [n \in ColumnNames(t) |-> r[n]]
IsDb(d) ==
  /\ d = [t \in TableNames |-> d[t]]
  /\ \A t \in TableNames : IsFiniteSet(d[t]) /\ \A r \in d[t] : IsRow(t, r)
Implied(d) ==
  \A r \in d["permission_implications"] :
    \E p \in d["permissions"] : p["id"] = r["implies_permission_id"]

\* A statement on table t: only a table of Authority decides what changes there.
Effect(d, e, t) ==
  /\ IsDb(e) /\ Implied(e)
  /\ t \notin Authority => \A u \in Authority : e[u] = d[u]

\* The numbers are well-founded.
LEMMA LeastNat ==
  ASSUME NEW S \in SUBSET Nat, S # {}
  PROVE  \E x \in S : \A y \in S : x <= y
<1> DEFINE R == OpToRel(<, Nat)
<1>1. IsWellFoundedOn(R, Nat)
  BY NatLessThanWellFounded
<1>2. \A x, y \in Nat : y < x => <<y, x>> \in R
  BY DEF OpToRel
<1> HIDE DEF R
<1>3. PICK x \in S : \A y \in S : ~(<<y, x>> \in R)
  BY <1>1, WFMin
<1>4. \A y \in S : ~(y < x)
  BY <1>2, <1>3
<1>5. \A y \in S : x <= y
  BY <1>4
<1> QED
  BY <1>5

\* Authority and implications, as the framework makes them.
LEMMA Framework ==
  /\ Authority \subseteq TableNames /\ {"permission_implications", "permissions"} \subseteq TableNames
  /\ "permission_implications" \notin Authority
  /\ NoParent \notin TableNames
BY TablesAssumption DEF TablesAssumption, Authority

LEMMA ImplicationsAccepted ==
  ASSUME NEW d, RowsAccepted(d, "permission_implications")
  PROVE  Implied(d)
<1>1. PICK c \in Columns("permission_implications") :
         /\ c.name = "implies_permission_id" /\ c.parent = "permissions"
         /\ NotNull("permission_implications", c)
  BY TablesAssumption DEF TablesAssumption
<1>2. c.parent # NoParent /\ PrimaryKey("permissions") = "id"
  BY <1>1, Framework, TablesAssumption DEF TablesAssumption
<1>3. ASSUME NEW r \in d["permission_implications"]
      PROVE  \E p \in d["permissions"] : p["id"] = r["implies_permission_id"]
  BY <1>1, <1>2, <1>3 DEF RowsAccepted
<1> QED
  BY <1>3 DEF Implied

\* A statement that PostgreSQL accepts puts rows R in the place of those of t.
LEMMA CommitResult ==
  ASSUME NEW d, IsDb(d), Implied(d), NEW t \in TableNames, NEW R, IsFiniteSet(R),
         \A r \in R : IsRow(t, r), Commit([d EXCEPT ![t] = R], t) # Refused
  PROVE  Effect(d, Commit([d EXCEPT ![t] = R], t), t)
<1> DEFINE e == [d EXCEPT ![t] = R]
<1>1. Commit(e, t) = e /\ \A u \in Touched(t) : RowsAccepted(e, u)
  BY DEF Commit
<1>2. e = [u \in TableNames |-> IF u = t THEN R ELSE d[u]]
  BY DEF IsDb
<1> HIDE DEF e
<1>3. \A u \in TableNames : e[u] = IF u = t THEN R ELSE d[u]
  BY <1>2
<1>4. IsDb(e)
  <2>1. e = [u \in TableNames |-> e[u]]
    BY <1>2
  <2>2. \A u \in TableNames : IsFiniteSet(e[u]) /\ \A r \in e[u] : IsRow(u, r)
    BY <1>3 DEF IsDb
  <2> QED
    BY <2>1, <2>2 DEF IsDb
<1>5. Implied(e)
  <2>1. CASE t \in {"permissions", "permission_implications"}
    <3>1. "permission_implications" \in Touched(t)
      BY <2>1, Framework, TablesAssumption DEF Touched, TablesAssumption
    <3> QED
      BY <1>1, <3>1, ImplicationsAccepted
  <2>2. CASE t \notin {"permissions", "permission_implications"}
    <3>1. e["permissions"] = d["permissions"]
          /\ e["permission_implications"] = d["permission_implications"]
      BY <1>3, <2>2, Framework
    <3> QED
      BY <3>1 DEF Implied
  <2> QED
    BY <2>1, <2>2
<1>6. t \notin Authority => \A u \in Authority : e[u] = d[u]
  BY <1>3, Framework
<1> QED
  BY <1>1, <1>4, <1>5, <1>6 DEF Effect, e

LEMMA AddRowResult ==
  ASSUME NEW d, IsDb(d), Implied(d), NEW t \in TableNames, NEW kv, NEW id
  PROVE  \/ AddRowToTable(d, t, kv, id) = Refused
         \/ Effect(d, AddRowToTable(d, t, kv, id), t)
<1> DEFINE R == d[t] \cup {InsertedRow(t, kv, id)}
<1>1. \/ AddRowToTable(d, t, kv, id) = Refused
      \/ AddRowToTable(d, t, kv, id) = Commit([d EXCEPT ![t] = R], t)
  BY DEF AddRowToTable
<1>2. IsFiniteSet(R)
  BY FS_AddElement DEF IsDb
<1>3. IsRow(t, InsertedRow(t, kv, id))
  BY DEF IsRow, InsertedRow
<1>4. \A r \in R : IsRow(t, r)
  BY <1>3 DEF IsDb
<1> QED
  BY <1>1, <1>2, <1>4, CommitResult

\* Rows computed from the rows selected.
LEMMA RewrittenFinite ==
  ASSUME NEW S, IsFiniteSet(S), NEW old \in SUBSET S, NEW f
  PROVE  IsFiniteSet((S \ old) \cup {f[r] : r \in old})
<1> DEFINE g == [r \in old |-> f[r]]
<1>1. IsFiniteSet(old) /\ IsFiniteSet(S \ old)
  BY FS_Subset
<1>2. IsFiniteSet({f[r] : r \in old})
  <2>1. {f[r] : r \in old} = {g[r] : r \in old} /\ g \in [old -> {f[r] : r \in old}]
    OBVIOUS
  <2>2. g \in Surjection(old, {f[r] : r \in old})
    BY <2>1 DEF Surjection
  <2> QED
    BY <1>1, <2>2, FS_Surjection
<1> QED
  BY <1>1, <1>2, FS_Union

LEMMA UpdateRowResult ==
  ASSUME NEW d, IsDb(d), Implied(d), NEW t \in TableNames, NEW column, NEW value, NEW kv
  PROVE  \/ UpdateRow(d, t, column, value, kv) = Refused
         \/ Effect(d, UpdateRow(d, t, column, value, kv), t)
<1> DEFINE old == Matching(d, t, Where(column, value))
<1> DEFINE new == { [n \in DOMAIN r |-> IF n \in DOMAIN kv THEN kv[n] ELSE r[n]] : r \in old }
<1> DEFINE R == (d[t] \ old) \cup new
<1>1. \/ UpdateRow(d, t, column, value, kv) = Refused
      \/ UpdateRow(d, t, column, value, kv) = Commit([d EXCEPT ![t] = R], t)
  BY DEF UpdateRow
<1>2. old \subseteq d[t] /\ IsFiniteSet(d[t]) /\ \A r \in d[t] : IsRow(t, r)
  BY DEF Matching, IsDb
<1> HIDE DEF old
<1>4. \A r \in R : IsRow(t, r)
  BY <1>2 DEF IsRow
<1>3. IsFiniteSet(R)
  <2> DEFINE f == [r \in old |-> [n \in DOMAIN r |-> IF n \in DOMAIN kv THEN kv[n] ELSE r[n]]]
  <2>1. new = {f[r] : r \in old}
    OBVIOUS
  <2> HIDE DEF f
  <2>2. PICK D : D = d[t]
    OBVIOUS
  <2>3. IsFiniteSet((D \ old) \cup {f[r] : r \in old})
    BY <1>2, <2>2, RewrittenFinite
  <2> HIDE DEF new
  <2> QED
    BY <2>1, <2>2, <2>3
<1> HIDE DEF R
<1> QED
  BY <1>1, <1>3, <1>4, CommitResult

LEMMA SetNullResult ==
  ASSUME NEW d, d = Refused \/ (IsDb(d) /\ Implied(d)), NEW t \in TableNames,
         NEW column, NEW value, NEW n
  PROVE  \/ SetNull(d, t, column, value, n) = Refused
         \/ d # Refused /\ Effect(d, SetNull(d, t, column, value, n), t)
<1> DEFINE old == Matching(d, t, Where(column, value))
<1> DEFINE new == { [r EXCEPT ![n] = NULL] : r \in old }
<1> DEFINE R == (d[t] \ old) \cup new
<1>1. \/ SetNull(d, t, column, value, n) = Refused
      \/ d # Refused /\ SetNull(d, t, column, value, n) = Commit([d EXCEPT ![t] = R], t)
  BY DEF SetNull, OK
<1>2. CASE d = Refused
  BY <1>1, <1>2
<1>3. CASE d # Refused
  <2>1. old \subseteq d[t] /\ IsFiniteSet(d[t]) /\ \A r \in d[t] : IsRow(t, r)
    BY <1>3 DEF Matching, IsDb
  <2> HIDE DEF old
  <2>3. \A r \in R : IsRow(t, r)
    BY <2>1 DEF IsRow
  <2>2. IsFiniteSet(R)
    <3> DEFINE f == [r \in old |-> [r EXCEPT ![n] = NULL]]
    <3>1. new = {f[r] : r \in old}
      OBVIOUS
    <3> HIDE DEF f, new
    <3> QED
      BY <2>1, <3>1, RewrittenFinite
  <2> HIDE DEF R
  <2> QED
    BY <1>1, <1>3, <2>2, <2>3, CommitResult
<1> QED
  BY <1>2, <1>3

LEMMA EffectsFollow ==
  ASSUME NEW d, NEW e, NEW g, NEW t, Effect(d, e, t), Effect(e, g, t)
  PROVE  Effect(d, g, t)
BY DEF Effect

-----------------------------------------------------------------------------
(* The null columns of an update, one statement each *)

\* f is what the statements on the first n columns leave.
NullsUpTo(f, first, t, column, value, nulls, n) ==
  f = [i \in 0 .. n |->
         IF i = 0 THEN first
         ELSE IF DatabaseInfo[t].columns[i].name \notin nulls THEN f[i - 1]
         ELSE SetNull(f[i - 1], t, column, value, DatabaseInfo[t].columns[i].name)]

\* A function defined by recursion on its index exists up to any bound: the
\* least bound without one would have one.  (The step of the recursion is an
\* operator, so each recursion has a lemma of its own.)
LEMMA NullsExist ==
  ASSUME NEW first, NEW t, NEW column, NEW value, NEW nulls, NEW N \in Nat
  PROVE  \E f : NullsUpTo(f, first, t, column, value, nulls, N)
<1> DEFINE Step(i, x) == IF DatabaseInfo[t].columns[i].name \notin nulls THEN x
                         ELSE SetNull(x, t, column, value, DatabaseInfo[t].columns[i].name)
<1> DEFINE P(f, n) == f = [i \in 0 .. n |-> IF i = 0 THEN first ELSE Step(i, f[i - 1])]
<1> DEFINE S == {n \in Nat : ~ \E f : P(f, n)}
<1>1. \A f, n : NullsUpTo(f, first, t, column, value, nulls, n) <=> P(f, n)
  BY DEF NullsUpTo
<1> HIDE DEF Step
<1>2. S = {} => \E f : NullsUpTo(f, first, t, column, value, nulls, N)
  <2> HIDE DEF P
  <2> QED
    BY <1>1
<1> SUFFICES ASSUME S # {} PROVE FALSE
  <2> HIDE DEF S
  <2> QED
    BY <1>2
<1>3. PICK n \in S : \A m \in S : n <= m
  <2> HIDE DEF P
  <2>1. S \in SUBSET Nat
    OBVIOUS
  <2> HIDE DEF S
  <2> QED
    BY <2>1, LeastNat
<1>4. n # 0
  <2>1. P([i \in 0 .. 0 |-> first], 0)
    OBVIOUS
  <2> HIDE DEF P
  <2> QED
    BY <1>3, <2>1
<1>5. PICK f : P(f, n - 1)
  <2> HIDE DEF P
  <2>1. n - 1 \in Nat /\ ~(n <= n - 1)
    BY <1>3, <1>4
  <2>2. n - 1 \notin S
    BY <1>3, <2>1
  <2> QED
    BY <2>1, <2>2
<1> DEFINE g == [i \in 0 .. n |-> IF i = n THEN Step(n, f[n - 1]) ELSE f[i]]
<1>6. n \in Nat
  OBVIOUS
<1>7. \A i \in 0 .. n : g[i] = IF i = 0 THEN first ELSE Step(i, g[i - 1])
  <2> TAKE i \in 0 .. n
  <2>1. CASE i = n
    <3>1. n - 1 \in 0 .. n /\ n - 1 # n
      BY <1>4, <1>6
    <3> QED
      BY <1>4, <2>1, <3>1
  <2>2. CASE i # n
    <3>1. i \in 0 .. n - 1 /\ (i # 0 => i - 1 \in 0 .. n /\ i - 1 # n)
      BY <1>6, <2>2
    <3>2. f[i] = IF i = 0 THEN first ELSE Step(i, f[i - 1])
      BY <1>5, <3>1
    <3> QED
      BY <2>2, <3>1, <3>2
  <2> QED
    BY <2>1, <2>2
<1>8. P(g, n)
  <2>1. g = [i \in 0 .. n |-> g[i]]
    OBVIOUS
  <2> HIDE DEF g
  <2> QED
    BY <1>7, <2>1
<1> QED
  BY <1>3, <1>8

LEMMA UpdateTableValueResult ==
  ASSUME NEW d, IsDb(d), Implied(d), NEW t \in TableNames, NEW column, NEW value, NEW json
  PROVE  \/ UpdateTableValue(d, t, column, value, json) = Refused
         \/ Effect(d, UpdateTableValue(d, t, column, value, json), t)
<1> DEFINE nulls == { n \in DOMAIN json : json[n] = NoValue /\ ~KeepsEmptyString(t, n) }
<1> DEFINE kv == Restrict(json, DOMAIN json \ nulls)
<1> DEFINE first == IF DOMAIN kv = {} THEN d ELSE UpdateRow(d, t, column, value, kv)
<1> DEFINE N == Len(DatabaseInfo[t].columns)
<1> DEFINE g == CHOOSE f : NullsUpTo(f, first, t, column, value, nulls, N)
<1>1. UpdateTableValue(d, t, column, value, json) = g[N]
  BY DEF UpdateTableValue, NullsUpTo
<1> HIDE DEF nulls
<1>2. Effect(d, d, t)
  BY DEF Effect
<1>3. first = Refused \/ Effect(d, first, t)
  BY <1>2, UpdateRowResult
<1> HIDE DEF first, kv
<1>4. N \in Nat
  BY TablesAssumption DEF TablesAssumption
<1> HIDE DEF N
<1>5. NullsUpTo(g, first, t, column, value, nulls, N)
  BY <1>4, NullsExist
<1> HIDE DEF g
<1> DEFINE S == {i \in 0 .. N : ~(g[i] = Refused \/ Effect(d, g[i], t))}
<1>6. S = {}
  <2> SUFFICES ASSUME S # {} PROVE FALSE
    OBVIOUS
  <2>1. PICK i \in S : \A j \in S : i <= j
    <3>1. S \in SUBSET Nat
      BY <1>4
    <3> HIDE DEF S
    <3> QED
      BY <3>1, LeastNat
  <2>2. i \in 0 .. N /\ ~(g[i] = Refused \/ Effect(d, g[i], t))
    OBVIOUS
  <2>3. g[i] = IF i = 0 THEN first
               ELSE IF DatabaseInfo[t].columns[i].name \notin nulls THEN g[i - 1]
               ELSE SetNull(g[i - 1], t, column, value, DatabaseInfo[t].columns[i].name)
    BY <1>5, <2>2 DEF NullsUpTo
  <2>4. i # 0
    BY <1>3, <2>2, <2>3
  <2>5. i - 1 \in 0 .. N /\ ~(i <= i - 1)
    BY <1>4, <2>2, <2>4
  <2>6. g[i - 1] = Refused \/ Effect(d, g[i - 1], t)
    BY <2>1, <2>5
  <2>7. CASE DatabaseInfo[t].columns[i].name \notin nulls
    BY <2>2, <2>3, <2>4, <2>6, <2>7
  <2>8. CASE DatabaseInfo[t].columns[i].name \in nulls
    <3>1. PICK x : x = g[i - 1]
      OBVIOUS
    <3>2. PICK n : n = DatabaseInfo[t].columns[i].name
      OBVIOUS
    <3>3. g[i] = SetNull(x, t, column, value, n)
      BY <2>3, <2>4, <2>8, <3>1, <3>2
    <3>4. x = Refused \/ (IsDb(x) /\ Implied(x) /\ Effect(d, x, t))
      BY <2>6, <3>1 DEF Effect
    <3>5. \/ SetNull(x, t, column, value, n) = Refused
          \/ x # Refused /\ Effect(x, SetNull(x, t, column, value, n), t)
      BY <3>4, SetNullResult
    <3> QED
      BY <2>2, <3>3, <3>4, <3>5, EffectsFollow
  <2> QED
    BY <2>7, <2>8
<1>7. N \in 0 .. N
  BY <1>4
<1> QED
  BY <1>1, <1>6, <1>7

-----------------------------------------------------------------------------
(* ON DELETE CASCADE *)

\* f is what the first n levels delete.
LevelsUpTo(f, d, start, n) ==
  f = [i \in 0 .. n |-> IF i = 0 THEN [gone |-> start, last |-> start] ELSE NextLevel(d, f[i - 1])]

\* As NullsExist.
LEMMA LevelsExist ==
  ASSUME NEW d, NEW start, NEW N \in Nat
  PROVE  \E f : LevelsUpTo(f, d, start, N)
<1> DEFINE first == [gone |-> start, last |-> start]
<1> DEFINE P(f, n) == f = [i \in 0 .. n |-> IF i = 0 THEN first ELSE NextLevel(d, f[i - 1])]
<1> DEFINE S == {n \in Nat : ~ \E f : P(f, n)}
<1>1. \A f, n : LevelsUpTo(f, d, start, n) <=> P(f, n)
  BY DEF LevelsUpTo
<1> HIDE DEF first
<1>2. S = {} => \E f : LevelsUpTo(f, d, start, N)
  <2> HIDE DEF P
  <2> QED
    BY <1>1
<1> SUFFICES ASSUME S # {} PROVE FALSE
  <2> HIDE DEF S
  <2> QED
    BY <1>2
<1>3. PICK n \in S : \A m \in S : n <= m
  <2> HIDE DEF P
  <2>1. S \in SUBSET Nat
    OBVIOUS
  <2> HIDE DEF S
  <2> QED
    BY <2>1, LeastNat
<1>4. n # 0
  <2>1. P([i \in 0 .. 0 |-> first], 0)
    OBVIOUS
  <2> HIDE DEF P
  <2> QED
    BY <1>3, <2>1
<1>5. PICK f : P(f, n - 1)
  <2> HIDE DEF P
  <2>1. n - 1 \in Nat /\ ~(n <= n - 1)
    BY <1>3, <1>4
  <2>2. n - 1 \notin S
    BY <1>3, <2>1
  <2> QED
    BY <2>1, <2>2
<1> DEFINE g == [i \in 0 .. n |-> IF i = n THEN NextLevel(d, f[n - 1]) ELSE f[i]]
<1>6. n \in Nat
  OBVIOUS
<1>7. \A i \in 0 .. n : g[i] = IF i = 0 THEN first ELSE NextLevel(d, g[i - 1])
  <2> TAKE i \in 0 .. n
  <2>1. CASE i = n
    <3>1. n - 1 \in 0 .. n /\ n - 1 # n
      BY <1>4, <1>6
    <3> QED
      BY <1>4, <2>1, <3>1
  <2>2. CASE i # n
    <3>1. i \in 0 .. n - 1 /\ (i # 0 => i - 1 \in 0 .. n /\ i - 1 # n)
      BY <1>6, <2>2
    <3>2. f[i] = IF i = 0 THEN first ELSE NextLevel(d, f[i - 1])
      BY <1>5, <3>1
    <3> QED
      BY <2>2, <3>1, <3>2
  <2> QED
    BY <2>1, <2>2
<1>8. P(g, n)
  <2>1. g = [i \in 0 .. n |-> g[i]]
    OBVIOUS
  <2> HIDE DEF g
  <2> QED
    BY <1>7, <2>1
<1> QED
  BY <1>3, <1>8

\* A child has a column whose parent is the table of a row of the last level.
LEMMA ChildrenAre ==
  ASSUME NEW d, NEW last, NEW x \in Children(d, last)
  PROVE  /\ x[1] \in TableNames
         /\ \E g \in last : \E c \in Columns(x[1]) : c.parent = g[1]
BY DEF Children

\* What the levels up to the i-th delete, of the rows start of table t.
GoodLevel(d, t, start, i, s) ==
  /\ s.last \subseteq s.gone /\ start \subseteq s.gone
  /\ \A x \in s.gone : /\ x[1] \in TableNames
                       /\ t \notin Authority => x[1] \notin Authority
                       /\ x[1] = "permissions" => x \in start
  /\ i = 0 => s.last = start
  /\ i # 0 => Children(d, start) \subseteq s.gone

LEMMA NextLevelIsGood ==
  ASSUME NEW d, NEW t, NEW start, NEW i \in Nat \ {0}, NEW s,
         GoodLevel(d, t, start, i - 1, s)
  PROVE  GoodLevel(d, t, start, i, NextLevel(d, s))
<1> DEFINE new == IF s.last = {} THEN {} ELSE Children(d, s.last) \ s.gone
<1>1. NextLevel(d, s) = [gone |-> s.gone \cup new, last |-> new]
  BY DEF NextLevel
<1>2. new \subseteq Children(d, s.last)
  OBVIOUS
<1>3. i - 1 # 0 => Children(d, start) \subseteq s.gone
  BY DEF GoodLevel
<1>4. i - 1 = 0 => Children(d, start) \subseteq s.gone \cup new
  <2> SUFFICES ASSUME i - 1 = 0 PROVE Children(d, start) \subseteq s.gone \cup new
    OBVIOUS
  <2>1. s.last = start
    BY DEF GoodLevel
  <2>2. CASE start = {}
    <3>1. Children(d, start) = {}
      BY <2>2 DEF Children
    <3> QED
      BY <3>1
  <2>3. CASE start # {}
    BY <2>1, <2>3
  <2> QED
    BY <2>2, <2>3
<1> HIDE DEF new
<1>5. ASSUME NEW x \in new
      PROVE  /\ x[1] \in TableNames
             /\ t \notin Authority => x[1] \notin Authority
             /\ x[1] # "permissions"
  <2>1. PICK g \in s.last : \E c \in Columns(x[1]) : c.parent = g[1]
    BY <1>2, <1>5, ChildrenAre
  <2>2. PICK c \in Columns(x[1]) : c.parent = g[1]
    BY <2>1
  <2>3. g[1] \in TableNames /\ (t \notin Authority => g[1] \notin Authority)
    BY DEF GoodLevel
  <2>4. c.parent # NoParent
    BY <2>2, <2>3, Framework
  <2>5. x[1] \in Authority => c.parent \in Authority
    BY <2>4, TablesAssumption DEF TablesAssumption
  <2>6. x[1] # "permissions"
    BY <2>4, TablesAssumption DEF TablesAssumption
  <2>7. x[1] \in TableNames
    BY <1>2, <1>5, ChildrenAre
  <2> QED
    BY <2>2, <2>3, <2>5, <2>6, <2>7
<1>6. i # 0 /\ Children(d, start) \subseteq s.gone \cup new
  BY <1>3, <1>4
<1> QED
  BY <1>1, <1>5, <1>6 DEF GoodLevel

LEMMA CascadeIsGood ==
  ASSUME NEW d, NEW t \in TableNames, NEW rows
  PROVE  \E s : /\ Cascade(d, t, rows) = s.gone
                /\ GoodLevel(d, t, {t} \X rows, 1, s)
<1> DEFINE start == {t} \X rows
<1> DEFINE N == Cardinality(TableNames)
<1> DEFINE f == CHOOSE f : LevelsUpTo(f, d, start, N)
<1>1. Cascade(d, t, rows) = f[N].gone
  BY DEF Cascade, LevelsUpTo
<1>2. N \in Nat \ {0}
  BY TablesAssumption, FS_CardinalityType, FS_EmptySet DEF TablesAssumption
<1>3. \A x \in start : x[1] = t
  OBVIOUS
<1> HIDE DEF N, start
<1>4. LevelsUpTo(f, d, start, N)
  BY <1>2, LevelsExist
<1> HIDE DEF f
<1> DEFINE S == {i \in 0 .. N : ~GoodLevel(d, t, start, i, f[i])}
<1>5. S = {}
  <2> SUFFICES ASSUME S # {} PROVE FALSE
    OBVIOUS
  <2>1. PICK i \in S : \A j \in S : i <= j
    <3>1. S \in SUBSET Nat
      BY <1>2
    <3> HIDE DEF S
    <3> QED
      BY <3>1, LeastNat
  <2>2. i \in 0 .. N /\ ~GoodLevel(d, t, start, i, f[i])
    OBVIOUS
  <2>3. f[i] = IF i = 0 THEN [gone |-> start, last |-> start] ELSE NextLevel(d, f[i - 1])
    BY <1>4, <2>2 DEF LevelsUpTo
  <2>4. i # 0
    <3>1. GoodLevel(d, t, start, 0, [gone |-> start, last |-> start])
      BY <1>3 DEF GoodLevel
    <3> QED
      BY <2>2, <2>3, <3>1
  <2>5. i - 1 \in 0 .. N /\ ~(i <= i - 1) /\ i \in Nat \ {0}
    BY <1>2, <2>2, <2>4
  <2>6. GoodLevel(d, t, start, i - 1, f[i - 1])
    BY <2>1, <2>5
  <2>7. f[i] = NextLevel(d, f[i - 1])
    BY <2>3, <2>4
  <2>8. PICK s : s = f[i - 1]
    OBVIOUS
  <2>9. GoodLevel(d, t, start, i, NextLevel(d, s))
    BY <2>5, <2>6, <2>8, NextLevelIsGood
  <2> QED
    BY <2>2, <2>7, <2>8, <2>9
<1>6. N \in 0 .. N /\ GoodLevel(d, t, start, N, f[N])
  BY <1>2, <1>5
<1>7. GoodLevel(d, t, start, 1, f[N])
  BY <1>2, <1>6 DEF GoodLevel
<1> QED
  BY <1>1, <1>7 DEF start

LEMMA DeleteRowResult ==
  ASSUME NEW d, IsDb(d), Implied(d), NEW t \in TableNames, NEW kv
  PROVE  \/ DeleteRow(d, t, kv) = Refused
         \/ Effect(d, DeleteRow(d, t, kv), t)
<1> DEFINE rows == Matching(d, t, kv)
<1> DEFINE gone == Cascade(d, t, rows)
<1> DEFINE e == [u \in TableNames |-> { r \in d[u] : <<u, r>> \notin gone }]
<1>1. DeleteRow(d, t, kv) = Refused \/ DeleteRow(d, t, kv) = e
  BY DEF DeleteRow
<1>2. PICK s : gone = s.gone /\ GoodLevel(d, t, {t} \X rows, 1, s)
  BY CascadeIsGood
<1> HIDE DEF gone, rows
<1>3. IsDb(e)
  <2>1. \A u \in TableNames : e[u] \subseteq d[u]
    OBVIOUS
  <2>2. \A u \in TableNames : IsFiniteSet(e[u]) /\ \A r \in e[u] : IsRow(u, r)
    BY <2>1, FS_Subset DEF IsDb
  <2>3. e = [u \in TableNames |-> e[u]]
    OBVIOUS
  <2> HIDE DEF e
  <2> QED
    BY <2>2, <2>3 DEF IsDb
<1>4. t \notin Authority => \A u \in Authority : e[u] = d[u]
  <2> SUFFICES ASSUME t \notin Authority, NEW u \in Authority
               PROVE  e[u] = d[u]
    OBVIOUS
  <2>1. \A r \in d[u] : <<u, r>> \notin gone
    BY <1>2 DEF GoodLevel
  <2>2. u \in TableNames
    BY Framework
  <2> QED
    BY <2>1, <2>2
<1>5. Implied(e)
  <2> SUFFICES ASSUME NEW r \in e["permission_implications"]
               PROVE  \E p \in e["permissions"] : p["id"] = r["implies_permission_id"]
    BY DEF Implied
  <2>1. r \in d["permission_implications"] /\ <<"permission_implications", r>> \notin gone
    BY Framework
  <2>2. PICK p \in d["permissions"] : p["id"] = r["implies_permission_id"]
    BY <2>1 DEF Implied
  <2>3. <<"permissions", p>> \notin gone
    <3> SUFFICES ASSUME <<"permissions", p>> \in gone PROVE FALSE
      OBVIOUS
    <3>0. PICK start : start = {t} \X rows
      OBVIOUS
    <3>1. <<"permissions", p>> \in {t} \X rows /\ Children(d, {t} \X rows) \subseteq gone
      <4>1. PICK y : y = <<"permissions", p>>
        OBVIOUS
      <4>2. y \in gone /\ y[1] = "permissions"
        BY <4>1
      <4>3. GoodLevel(d, t, start, 1, s) /\ gone = s.gone
        BY <1>2, <3>0
      <4>4. y \in start /\ Children(d, start) \subseteq gone
        BY <4>2, <4>3 DEF GoodLevel
      <4> QED
        BY <3>0, <4>1, <4>4
    <3>2. PICK c \in Columns("permission_implications") :
             c.name = "implies_permission_id" /\ c.parent = "permissions"
      BY TablesAssumption DEF TablesAssumption
    <3>3. PrimaryKey("permissions") = "id"
      BY TablesAssumption DEF TablesAssumption
    <3>4. PICK x : x = <<"permission_implications", r>>
      OBVIOUS
    <3>5. PICK g \in {t} \X rows : g = <<"permissions", p>>
      BY <3>1
    <3>6. /\ x \in UNION { {u} \X d[u] : u \in TableNames }
          /\ c \in Columns(x[1]) /\ c.parent = g[1] /\ x[2][c.name] = g[2][PrimaryKey(g[1])]
      BY <2>1, <2>2, <3>2, <3>3, <3>4, <3>5, Framework
    <3>7. x \in Children(d, {t} \X rows)
      BY <3>6 DEF Children
    <3> QED
      BY <2>1, <3>1, <3>4, <3>7
  <2>4. p \in e["permissions"]
    BY <2>2, <2>3, Framework
  <2> QED
    BY <2>2, <2>4
<1> HIDE DEF e
<1>6. Effect(d, e, t)
  BY <1>3, <1>4, <1>5 DEF Effect
<1> QED
  BY <1>1, <1>6

-----------------------------------------------------------------------------
(* What a request or a helper call does *)

\* A request's statement is refused or has the effect of one on its table.
LEMMA StatementResult ==
  ASSUME NEW d, IsDb(d), Implied(d), NEW q \in Requests, NEW id
  PROVE  \/ Statement(d, q, id) = Refused
         \/ Effect(d, Statement(d, q, id), q.table)
<1>1. q.table \in TableNames
  BY RequestsAssumption DEF RequestsAssumption
<1>2. PICK t : t = q.table
  OBVIOUS
<1>3. Effect(d, d, t)
  BY DEF Effect
<1>4. AddItem(d, q, id) = Refused \/ Effect(d, AddItem(d, q, id), t)
  <2>1. AddItem(d, q, id) = Refused \/ AddItem(d, q, id) = AddRowToTable(d, t, q.json, id)
    BY <1>2 DEF AddItem
  <2> QED
    BY <1>1, <1>2, <2>1, AddRowResult
<1>5. AddItemFetchPrimaryKey(d, q, id) = Refused \/ Effect(d, AddItemFetchPrimaryKey(d, q, id), t)
  <2>1. \/ AddItemFetchPrimaryKey(d, q, id) = Refused
        \/ AddItemFetchPrimaryKey(d, q, id) = AddRowToTable(d, t, q.json, id)
    BY <1>2 DEF AddItemFetchPrimaryKey
  <2> QED
    BY <1>1, <1>2, <2>1, AddRowResult
<1>6. UpdateItem(d, q) = Refused \/ Effect(d, UpdateItem(d, q), t)
  <2>1. \/ UpdateItem(d, q) = Refused
        \/ UpdateItem(d, q) = UpdateTableValue(d, t, q.column, q.value, q.json)
    BY <1>2 DEF UpdateItem
  <2> QED
    BY <1>1, <1>2, <2>1, UpdateTableValueResult
<1>7. DeleteItem(d, q) = Refused \/ Effect(d, DeleteItem(d, q), t)
  <2>1. \/ DeleteItem(d, q) = Refused
        \/ DeleteItem(d, q) = DeleteRow(d, t, Where(q.column, q.value))
    BY <1>2 DEF DeleteItem
  <2> QED
    BY <1>1, <1>2, <2>1, DeleteRowResult
<1>8. q.op \in {"add", "add_key", "update", "delete", "upload", "remove"}
  BY RequestsAssumption DEF RequestsAssumption
<1>9. Statement(d, q, id) \in {AddItem(d, q, id), AddItemFetchPrimaryKey(d, q, id),
                               UpdateItem(d, q), DeleteItem(d, q), d}
  BY <1>8 DEF Statement
<1> QED
  BY <1>2, <1>3, <1>4, <1>5, <1>6, <1>7, <1>9

LEMMA PerformResult ==
  ASSUME NEW d, IsDb(d), Implied(d), NEW c \in HelperCalls, NEW id
  PROVE  \/ Perform(d, c, id) = Refused
         \/ Effect(d, Perform(d, c, id), c.table)
<1>1. c.table \in TableNames /\ c.op \in {"add", "delete", "set"}
  BY RequestsAssumption DEF RequestsAssumption
<1>2. PICK t : t = c.table
  OBVIOUS
<1>3. Perform(d, c, id) \in {AddRowToTable(d, t, c.kv, id), DeleteRow(d, t, c.kv),
                             Refused, UpdateRow(d, t, "id", c.id, c.kv)}
  BY <1>1, <1>2 DEF Perform
<1> QED
  BY <1>1, <1>2, <1>3, AddRowResult, DeleteRowResult, UpdateRowResult

-----------------------------------------------------------------------------
(* The tables stay tables, and an implication leads to a permission *)

AccessInv ==
  /\ IsDb(db)
  /\ Implied(db)
  /\ request \in [Users -> Requests \cup {NoRequest}]

\* The population leaves tables whose implications lead to permissions.
THEOREM AccessInit_AccessInv == AccessInit => AccessInv
<1> SUFFICES ASSUME AccessInit PROVE AccessInv
  OBVIOUS
<1>1. IsDb(db)
  BY PopulationAssumption DEF AccessInit, PopulationAssumption, IsDb, IsRow
<1>2. Implied(db)
  <2>1. PICK d : d = Populated.rows
    OBVIOUS
  <2>2. RowsAccepted(d, "permission_implications")
    BY <2>1, PopulationAssumption, Framework DEF PopulationAssumption
  <2> QED
    BY <2>1, <2>2, ImplicationsAccepted DEF AccessInit
<1>3. request \in [Users -> Requests \cup {NoRequest}]
  BY DEF AccessInit
<1> QED
  BY <1>1, <1>2, <1>3 DEF AccessInv

\* A request whose statement is refused leaves the rows as they are.
LEMMA WriteResult ==
  ASSUME AccessInv, NEW u \in Users, Write(u)
  PROVE  request[u] \in Requests /\ Effect(db, db', request[u].table)
<1>1. request[u] \in Requests
  BY DEF AccessInv, Write
<1>2. PICK q \in Requests : q = request[u]
  BY <1>1
<1>3. PICK d : d = db
  OBVIOUS
<1>4. PICK id : id = Ids[next[q.table]]
  OBVIOUS
<1>5. db' = IF Statement(d, q, id) # Refused THEN Statement(d, q, id) ELSE d
  BY <1>2, <1>3, <1>4 DEF Write, OK
<1>6. IsDb(d) /\ Implied(d)
  BY <1>3 DEF AccessInv
<1>7. \/ Statement(d, q, id) = Refused
      \/ Effect(d, Statement(d, q, id), q.table)
  BY <1>6, StatementResult
<1>8. Effect(d, d, q.table)
  BY <1>6 DEF Effect
<1>9. PICK e : e = db'
  OBVIOUS
<1>10. Effect(d, e, q.table)
  BY <1>5, <1>7, <1>8, <1>9
<1> QED
  BY <1>1, <1>2, <1>3, <1>9, <1>10

LEMMA HelperCallResult ==
  ASSUME AccessInv, NEW c \in HelperCalls, HelperCall(c)
  PROVE  Effect(db, db', c.table)
<1>3. PICK d : d = db
  OBVIOUS
<1>4. PICK id : id = Ids[next[c.table]]
  OBVIOUS
<1>5. db' = IF Perform(d, c, id) # Refused THEN Perform(d, c, id) ELSE d
  BY <1>3, <1>4 DEF HelperCall, OK
<1>6. IsDb(d) /\ Implied(d)
  BY <1>3 DEF AccessInv
<1>7. \/ Perform(d, c, id) = Refused
      \/ Effect(d, Perform(d, c, id), c.table)
  BY <1>6, PerformResult
<1>8. Effect(d, d, c.table)
  BY <1>6 DEF Effect
<1>9. PICK e : e = db'
  OBVIOUS
<1>10. Effect(d, e, c.table)
  BY <1>5, <1>7, <1>8, <1>9
<1> QED
  BY <1>3, <1>9, <1>10

LEMMA AccessInvKept ==
  ASSUME AccessInv, [AccessNext]_accessVars
  PROVE  AccessInv'
<1>1. ASSUME NEW u \in Users, NEW q \in Requests, Check(u, q) PROVE AccessInv'
  BY <1>1 DEF AccessInv, Check, IsDb, Implied
<1>2. ASSUME NEW u \in Users, Write(u) PROVE AccessInv'
  <2>1. IsDb(db)' /\ Implied(db)'
    BY <1>2, WriteResult DEF Effect, IsDb, Implied
  <2>2. request' \in [Users -> Requests \cup {NoRequest}]
    BY <1>2 DEF AccessInv, Write
  <2> QED
    BY <2>1, <2>2 DEF AccessInv
<1>3. ASSUME NEW c \in HelperCalls, HelperCall(c) PROVE AccessInv'
  <2>1. IsDb(db)' /\ Implied(db)'
    BY <1>3, HelperCallResult DEF Effect, IsDb, Implied
  <2>2. request' = request
    BY <1>3 DEF HelperCall
  <2> QED
    BY <2>1, <2>2 DEF AccessInv
<1>4. CASE Restart
  BY <1>4 DEF AccessInv, Restart, IsDb, Implied
<1>5. CASE UNCHANGED accessVars
  BY <1>5 DEF AccessInv, accessVars, IsDb, Implied
<1> QED
  BY <1>1, <1>2, <1>3, <1>4, <1>5 DEF AccessNext

\* The rows stay finite and keep their columns, and a foreign key keeps every
\* implication's permission, whatever requests and helpers write; a restart
\* finds the same rows.
THEOREM AccessInvHolds == AccessSpec => []AccessInv
<1>1. AccessInv /\ [AccessNext]_accessVars => AccessInv'
  BY AccessInvKept
<1> QED
  BY AccessInit_AccessInv, <1>1, PTL DEF AccessSpec

-----------------------------------------------------------------------------
(* Who may do what is written in the tables of Authority *)

LEMMA GrantsAreInAuthority ==
  ASSUME NEW d, NEW e, \A t \in Authority : e[t] = d[t], NEW v
  PROVE  /\ GetAllowedTables(e, v) = GetAllowedTables(d, v)
         /\ \A p : RequirePermission(e, v, p) <=> RequirePermission(d, v, p)
<1>1. /\ e["roles"] = d["roles"]
      /\ e["permissions"] = d["permissions"]
      /\ e["role_assignments"] = d["role_assignments"]
      /\ e["role_permissions"] = d["role_permissions"]
      /\ e["admin_table_permissions"] = d["admin_table_permissions"]
      /\ e["allowed_tables"] = d["allowed_tables"]
      /\ e["admin_top_level_tables"] = d["admin_top_level_tables"]
      /\ e["admin_nested_tables"] = d["admin_nested_tables"]
  BY DEF Authority
<1>2. RolesOf(e, v) = RolesOf(d, v)
  BY <1>1 DEF RolesOf, Matching
<1>3. PermissionsOf(e, v) = PermissionsOf(d, v)
  BY <1>1, <1>2 DEF PermissionsOf
<1>4. IsAdmin(e, v) = IsAdmin(d, v)
  BY <1>1, <1>2 DEF IsAdmin, ActiveUserHasRole, GetRole
<1>5. GetPermissionGrantedTables(e, v) = GetPermissionGrantedTables(d, v)
  <2>1. ASSUME NEW p PROVE GetTablesForPermissionId(e, p) = GetTablesForPermissionId(d, p)
    BY <1>1 DEF GetTablesForPermissionId, Matching
  <2> QED
    BY <1>3, <2>1 DEF GetPermissionGrantedTables
<1>6. /\ NamesIn(e, "allowed_tables") = NamesIn(d, "allowed_tables")
      /\ NamesIn(e, "admin_top_level_tables") = NamesIn(d, "admin_top_level_tables")
      /\ NamesIn(e, "admin_nested_tables") = NamesIn(d, "admin_nested_tables")
  BY <1>1 DEF NamesIn
<1>7. GetAllowedTables(e, v) = GetAllowedTables(d, v)
  BY <1>4, <1>5, <1>6 DEF GetAllowedTables
<1>8. ASSUME NEW p PROVE RequirePermission(e, v, p) <=> RequirePermission(d, v, p)
  <2>1. ActiveUserHasPermission(e, v, p) = ActiveUserHasPermission(d, v, p)
    BY <1>1, <1>3 DEF ActiveUserHasPermission, GetPermission
  <2> QED
    BY <2>1 DEF RequirePermission
<1> QED
  BY <1>7, <1>8

\* A request that was let through for a table outside Authority leaves what
\* everybody may do as it was, whatever its DELETE cascades to: a table outside
\* Authority has no referring table inside (TablesAssumption).
THEOREM GrantsAlwaysThroughAuthority == AccessSpec => GrantsChangeThroughAuthority
<1>1. ASSUME AccessInv, NEW u \in Users, Write(u), request[u].table \notin Authority, NEW v
      PROVE  /\ GetAllowedTables(db', v) = GetAllowedTables(db, v)
             /\ \A p : RequirePermission(db', v, p) <=> RequirePermission(db, v, p)
  <2>1. Effect(db, db', request[u].table)
    BY <1>1, WriteResult
  <2>2. PICK d : d = db
    OBVIOUS
  <2>3. PICK e : e = db'
    OBVIOUS
  <2>4. \A t \in Authority : e[t] = d[t]
    BY <1>1, <2>1, <2>2, <2>3 DEF Effect
  <2> QED
    BY <2>2, <2>3, <2>4, GrantsAreInAuthority
<1>2. AccessInv =>
       [\A u \in Users : Write(u) =>
          \/ request[u].table \in Authority
          \/ \A v \in Users :
               /\ GetAllowedTables(db', v) = GetAllowedTables(db, v)
               /\ \A p \in {"admin_portal", "edit"} : RequirePermission(db', v, p) <=> RequirePermission(db, v, p)]_accessVars
  BY <1>1
<1> QED
  BY <1>2, AccessInvHolds, PTL DEF GrantsChangeThroughAuthority

-----------------------------------------------------------------------------
(* The two checks agree, and have one answer while one role is the admin's *)

LEMMA WriteAccessIsAllowed ==
  ASSUME NEW d, NEW u, NEW t, RequireTableWriteAccess(d, u, t), "yes" \notin IsAdmin(d, u)
  PROVE  IsTableAllowed(d, u, t)
<1>1. u # NoUser /\ "no" \in IsAdmin(d, u) /\ t \in GetPermissionGrantedTables(d, u)
  BY DEF RequireTableWriteAccess
<1> DEFINE base == NamesIn(d, "allowed_tables")
<1> DEFINE granted == GetPermissionGrantedTables(d, u)
<1> DEFINE all == base \cup NamesIn(d, "admin_top_level_tables") \cup NamesIn(d, "admin_nested_tables")
<1>2. GetAllowedTables(d, u) =
        { CASE a = "yes" -> all
            [] a = "no" -> base \cup granted
            [] a = "throws" -> base : a \in IsAdmin(d, u) }
  BY <1>1 DEF GetAllowedTables
<1>3. t \in granted
  BY <1>1
<1> HIDE DEF base, granted, all
<1>4. base \cup granted \in GetAllowedTables(d, u)
  BY <1>1, <1>2
<1> QED
  BY <1>3, <1>4 DEF IsTableAllowed

LEMMA OneRoleOneAnswer ==
  ASSUME NEW d, NEW u, IsFiniteSet(d["roles"]), ~(Cardinality(GetRole(d, "admin")) > 1)
  PROVE  Cardinality(GetAllowedTables(d, u)) = 1
<1>1. IsFiniteSet(GetRole(d, "admin"))
  BY FS_Subset DEF GetRole
<1> DEFINE base == NamesIn(d, "allowed_tables")
<1> DEFINE granted == GetPermissionGrantedTables(d, u)
<1> DEFINE all == base \cup NamesIn(d, "admin_top_level_tables") \cup NamesIn(d, "admin_nested_tables")
<1> DEFINE Answer(a) == CASE a = "yes" -> all
                          [] a = "no" -> base \cup granted
                          [] a = "throws" -> base
<1>2. GetAllowedTables(d, u) = IF u = NoUser THEN {base} ELSE { Answer(a) : a \in IsAdmin(d, u) }
  BY DEF GetAllowedTables
<1> HIDE DEF base, Answer
<1>3. \E a : IsAdmin(d, u) = {a}
  <2>1. Cardinality(GetRole(d, "admin")) \in {0, 1}
    BY <1>1, FS_CardinalityType
  <2>2. CASE GetRole(d, "admin") = {}
    BY <2>2 DEF IsAdmin, ActiveUserHasRole
  <2>3. CASE GetRole(d, "admin") # {}
    <3>1. PICK r : GetRole(d, "admin") = {r}
      BY <1>1, <2>1, <2>3, FS_EmptySet, FS_Singleton
    <3>2. IsAdmin(d, u) = { IF x["id"] \in RolesOf(d, u) THEN "yes" ELSE "no" : x \in GetRole(d, "admin") }
      BY <2>3 DEF IsAdmin, ActiveUserHasRole
    <3>3. IsAdmin(d, u) = {IF r["id"] \in RolesOf(d, u) THEN "yes" ELSE "no"}
      BY <3>1, <3>2
    <3> QED
      BY <3>3
  <2> QED
    BY <2>2, <2>3
<1>4. \E x : GetAllowedTables(d, u) = {x}
  <2>1. PICK a : IsAdmin(d, u) = {a}
    BY <1>3
  <2>2. { Answer(b) : b \in {a} } = {Answer(a)}
    OBVIOUS
  <2>3. GetAllowedTables(d, u) = {base} \/ GetAllowedTables(d, u) = {Answer(a)}
    BY <1>2, <2>1, <2>2
  <2> QED
    BY <2>3
<1> QED
  BY <1>4, FS_Singleton

-----------------------------------------------------------------------------
(* ExpandClosure *)

PermissionIds(d) == { r["id"] : r \in d["permissions"] }
ClosedIn(d, S) ==
  \A e \in d["permission_implications"] : e["permission_id"] \in S => e["implies_permission_id"] \in S

\* f is what the first n rounds join.
RoundsUpTo(f, d, seeds, n) ==
  f = [i \in 0 .. n |-> IF i = 0 THEN [closure |-> seeds, working |-> seeds] ELSE NextRound(d, f[i - 1])]

\* As NullsExist.
LEMMA RoundsExist ==
  ASSUME NEW d, NEW seeds, NEW N \in Nat
  PROVE  \E f : RoundsUpTo(f, d, seeds, N)
<1> DEFINE first == [closure |-> seeds, working |-> seeds]
<1> DEFINE P(f, n) == f = [i \in 0 .. n |-> IF i = 0 THEN first ELSE NextRound(d, f[i - 1])]
<1> DEFINE S == {n \in Nat : ~ \E f : P(f, n)}
<1>1. \A f, n : RoundsUpTo(f, d, seeds, n) <=> P(f, n)
  BY DEF RoundsUpTo
<1> HIDE DEF first
<1>2. S = {} => \E f : RoundsUpTo(f, d, seeds, N)
  <2> HIDE DEF P
  <2> QED
    BY <1>1
<1> SUFFICES ASSUME S # {} PROVE FALSE
  <2> HIDE DEF S
  <2> QED
    BY <1>2
<1>3. PICK n \in S : \A m \in S : n <= m
  <2> HIDE DEF P
  <2>1. S \in SUBSET Nat
    OBVIOUS
  <2> HIDE DEF S
  <2> QED
    BY <2>1, LeastNat
<1>4. n # 0
  <2>1. P([i \in 0 .. 0 |-> first], 0)
    OBVIOUS
  <2> HIDE DEF P
  <2> QED
    BY <1>3, <2>1
<1>5. PICK f : P(f, n - 1)
  <2> HIDE DEF P
  <2>1. n - 1 \in Nat /\ ~(n <= n - 1)
    BY <1>3, <1>4
  <2>2. n - 1 \notin S
    BY <1>3, <2>1
  <2> QED
    BY <2>1, <2>2
<1> DEFINE g == [i \in 0 .. n |-> IF i = n THEN NextRound(d, f[n - 1]) ELSE f[i]]
<1>6. n \in Nat
  OBVIOUS
<1>7. \A i \in 0 .. n : g[i] = IF i = 0 THEN first ELSE NextRound(d, g[i - 1])
  <2> TAKE i \in 0 .. n
  <2>1. CASE i = n
    <3>1. n - 1 \in 0 .. n /\ n - 1 # n
      BY <1>4, <1>6
    <3> QED
      BY <1>4, <2>1, <3>1
  <2>2. CASE i # n
    <3>1. i \in 0 .. n - 1 /\ (i # 0 => i - 1 \in 0 .. n /\ i - 1 # n)
      BY <1>6, <2>2
    <3>2. f[i] = IF i = 0 THEN first ELSE NextRound(d, f[i - 1])
      BY <1>5, <3>1
    <3> QED
      BY <2>2, <3>1, <3>2
  <2> QED
    BY <2>1, <2>2
<1>8. P(g, n)
  <2>1. g = [i \in 0 .. n |-> g[i]]
    OBVIOUS
  <2> HIDE DEF g
  <2> QED
    BY <1>7, <2>1
<1> QED
  BY <1>3, <1>8

\* What n rounds join: nothing too much, and what is left to follow is in
\* working; a round that adds nothing is the last one.
GoodRound(d, seeds, n, s) ==
  /\ s.working \subseteq s.closure /\ seeds \subseteq s.closure
  /\ s.closure \subseteq PermissionIds(d)
  /\ \A e \in d["permission_implications"] :
       e["permission_id"] \in s.closure /\ e["permission_id"] \notin s.working => e["implies_permission_id"] \in s.closure
  /\ \A S : seeds \subseteq S /\ ClosedIn(d, S) => s.closure \subseteq S
  /\ s.working = {} \/ Cardinality(s.closure) >= n + 1

LEMMA PermissionIdsAreFinite ==
  ASSUME NEW d, IsFiniteSet(d["permissions"])
  PROVE  /\ IsFiniteSet(PermissionIds(d))
         /\ Cardinality(PermissionIds(d)) <= Cardinality(d["permissions"])
<1> DEFINE g == [r \in d["permissions"] |-> r["id"]]
<1>1. g \in Surjection(d["permissions"], PermissionIds(d))
  BY DEF Surjection, PermissionIds
<1> QED
  BY <1>1, FS_Surjection

LEMMA FirstRoundIsGood ==
  ASSUME NEW d, NEW seeds, IsFiniteSet(PermissionIds(d)), seeds \subseteq PermissionIds(d)
  PROVE  GoodRound(d, seeds, 0, [closure |-> seeds, working |-> seeds])
<1>1. IsFiniteSet(seeds)
  BY FS_Subset
<1>2. seeds = {} \/ Cardinality(seeds) >= 1
  BY <1>1, FS_EmptySet, FS_CardinalityType
<1> QED
  BY <1>2 DEF GoodRound

LEMMA NextRoundIsGood ==
  ASSUME NEW d, Implied(d), IsFiniteSet(PermissionIds(d)), NEW seeds, NEW n \in Nat, NEW s,
         GoodRound(d, seeds, n, s)
  PROVE  GoodRound(d, seeds, n + 1, NextRound(d, s))
<1> DEFINE joined == { r["implies_permission_id"] : r \in
                         { x \in d["permission_implications"] : x["permission_id"] \in s.working } }
<1> DEFINE new == joined \ s.closure
<1> DEFINE c == s.closure \cup new
<1>1. NextRound(d, s) = [closure |-> c, working |-> new]
  BY DEF NextRound
<1>2. \A x \in joined : \E r \in d["permission_implications"] :
         r["permission_id"] \in s.working /\ x = r["implies_permission_id"]
  OBVIOUS
<1>3. \A r \in d["permission_implications"] :
         r["permission_id"] \in s.working => r["implies_permission_id"] \in joined
  OBVIOUS
<1> HIDE DEF joined
<1>4. c \subseteq PermissionIds(d)
  BY <1>2 DEF GoodRound, Implied, PermissionIds
<1>5. ASSUME NEW e \in d["permission_implications"], e["permission_id"] \in c, e["permission_id"] \notin new
      PROVE  e["implies_permission_id"] \in c
  BY <1>3, <1>5 DEF GoodRound
<1>6. ASSUME NEW S, seeds \subseteq S, ClosedIn(d, S)
      PROVE  c \subseteq S
  <2>1. s.closure \subseteq S /\ s.working \subseteq S
    BY <1>6 DEF GoodRound
  <2>2. joined \subseteq S
    BY <1>2, <1>6, <2>1 DEF ClosedIn
  <2> QED
    BY <2>1, <2>2
<1>7. new = {} \/ Cardinality(c) >= n + 2
  <2> SUFFICES ASSUME new # {} PROVE Cardinality(c) >= n + 2
    OBVIOUS
  <2>1. s.working # {}
    BY <1>2
  <2>2. Cardinality(s.closure) >= n + 1
    BY <2>1 DEF GoodRound
  <2>3. IsFiniteSet(c)
    BY <1>4, FS_Subset
  <2>4. s.closure \subseteq c /\ s.closure # c
    OBVIOUS
  <2>5. /\ Cardinality(s.closure) \in Nat /\ Cardinality(c) \in Nat
        /\ Cardinality(s.closure) <= Cardinality(c) /\ Cardinality(s.closure) # Cardinality(c)
    BY <2>3, <2>4, FS_Subset, FS_CardinalityType
  <2> QED
    BY <2>2, <2>5
<1>8. new \subseteq c /\ seeds \subseteq c
  BY DEF GoodRound
<1> HIDE DEF c, new
<1> QED
  BY <1>1, <1>4, <1>5, <1>6, <1>7, <1>8 DEF GoodRound

LEMMA LastRoundIsGood ==
  ASSUME NEW d, Implied(d), IsFiniteSet(d["permissions"]), NEW seeds \in SUBSET PermissionIds(d)
  PROVE  \E s : /\ ExpandClosure(d, seeds) = s.closure
                /\ GoodRound(d, seeds, Cardinality(d["permissions"]), s)
<1> DEFINE N == Cardinality(d["permissions"])
<1> DEFINE f == CHOOSE f : RoundsUpTo(f, d, seeds, N)
<1>1. ExpandClosure(d, seeds) = f[N].closure
  BY DEF ExpandClosure, RoundsUpTo
<1>2. N \in Nat /\ IsFiniteSet(PermissionIds(d))
  BY FS_CardinalityType, PermissionIdsAreFinite
<1> HIDE DEF N
<1>3. RoundsUpTo(f, d, seeds, N)
  BY <1>2, RoundsExist
<1> HIDE DEF f
<1> DEFINE S == {i \in 0 .. N : ~GoodRound(d, seeds, i, f[i])}
<1>4. S = {}
  <2> SUFFICES ASSUME S # {} PROVE FALSE
    OBVIOUS
  <2>1. PICK i \in S : \A j \in S : i <= j
    <3>1. S \in SUBSET Nat
      BY <1>2
    <3> HIDE DEF S
    <3> QED
      BY <3>1, LeastNat
  <2>2. i \in 0 .. N /\ ~GoodRound(d, seeds, i, f[i])
    OBVIOUS
  <2>3. f[i] = IF i = 0 THEN [closure |-> seeds, working |-> seeds] ELSE NextRound(d, f[i - 1])
    BY <1>3, <2>2 DEF RoundsUpTo
  <2>4. i # 0
    BY <1>2, <2>2, <2>3, FirstRoundIsGood
  <2>5. i - 1 \in 0 .. N /\ ~(i <= i - 1)
    BY <1>2, <2>2, <2>4
  <2>6. GoodRound(d, seeds, i - 1, f[i - 1])
    BY <2>1, <2>5
  <2>7. PICK s : s = f[i - 1]
    OBVIOUS
  <2>8. PICK m \in Nat : m = i - 1
    BY <1>2, <2>5
  <2>9. GoodRound(d, seeds, m + 1, NextRound(d, s))
    BY <1>2, <2>6, <2>7, <2>8, NextRoundIsGood
  <2>10. m + 1 = i /\ f[i] = NextRound(d, s)
    BY <1>2, <2>2, <2>3, <2>4, <2>7, <2>8
  <2> QED
    BY <2>2, <2>9, <2>10
<1>5. N \in 0 .. N /\ GoodRound(d, seeds, N, f[N])
  BY <1>2, <1>4
<1> QED
  BY <1>1, <1>5 DEF N

LEMMA ExpandClosureIsLeast ==
  ASSUME NEW d, Implied(d), IsFiniteSet(d["permissions"]), NEW seeds \in SUBSET PermissionIds(d)
  PROVE  /\ seeds \subseteq ExpandClosure(d, seeds)
         /\ ClosedIn(d, ExpandClosure(d, seeds))
         /\ \A S : seeds \subseteq S /\ ClosedIn(d, S) => ExpandClosure(d, seeds) \subseteq S
<1> DEFINE N == Cardinality(d["permissions"])
<1>1. PICK s : ExpandClosure(d, seeds) = s.closure /\ GoodRound(d, seeds, N, s)
  BY LastRoundIsGood
<1>2. s.working = {}
  <2>1. /\ IsFiniteSet(PermissionIds(d)) /\ Cardinality(PermissionIds(d)) <= N /\ N \in Nat
    BY PermissionIdsAreFinite, FS_CardinalityType
  <2>2. s.closure \subseteq PermissionIds(d) /\ (s.working = {} \/ Cardinality(s.closure) >= N + 1)
    BY <1>1 DEF GoodRound
  <2>3. /\ Cardinality(s.closure) <= Cardinality(PermissionIds(d))
        /\ Cardinality(s.closure) \in Nat /\ Cardinality(PermissionIds(d)) \in Nat
    BY <2>1, <2>2, FS_Subset, FS_CardinalityType
  <2> HIDE DEF N
  <2> QED
    BY <2>1, <2>2, <2>3
<1>3. ClosedIn(d, s.closure)
  BY <1>1, <1>2 DEF GoodRound, ClosedIn
<1>4. seeds \subseteq s.closure /\ \A S : seeds \subseteq S /\ ClosedIn(d, S) => s.closure \subseteq S
  BY <1>1 DEF GoodRound
<1> QED
  BY <1>1, <1>3, <1>4

\* The answers about roles, permissions and tables agree after every statement:
\* the check of the photo endpoints lets nobody further than the check of the
\* rows, an answer is in doubt only while two roles are named "admin", and the
\* permissions implied are the least closed set, reached in as many rounds as
\* there are permissions: a foreign key leads each implication to a permission.
THEOREM AuthorityAlwaysConsistent == AccessSpec => []AuthorityIsConsistent
<1>1. AccessInv => AuthorityIsConsistent
  <2> SUFFICES ASSUME AccessInv PROVE AuthorityIsConsistent
    OBVIOUS
  <2>1. PICK d : d = db
    OBVIOUS
  <2>2. IsFiniteSet(d["roles"]) /\ IsFiniteSet(d["permissions"]) /\ Implied(d)
    BY <2>1, TablesAssumption DEF AccessInv, IsDb, TablesAssumption, Authority
  <2>3. WriteAccessImpliesAllowed
    BY WriteAccessIsAllowed DEF WriteAccessImpliesAllowed
  <2>4. OneAnswerPerRoleName
    <3>1. ASSUME NEW u \in Users, Cardinality(GetAllowedTables(d, u)) > 1
          PROVE  Cardinality(GetRole(d, "admin")) > 1
      BY <2>2, <3>1, OneRoleOneAnswer
    <3> QED
      BY <2>1, <3>1 DEF OneAnswerPerRoleName
  <2>5. ClosureIsLeast
    <3>1. ASSUME NEW seeds \in SUBSET PermissionIds(d)
          PROVE  /\ seeds \subseteq ExpandClosure(d, seeds)
                 /\ ClosedIn(d, ExpandClosure(d, seeds))
                 /\ \A S \in SUBSET PermissionIds(d) :
                      seeds \subseteq S /\ ClosedIn(d, S) => ExpandClosure(d, seeds) \subseteq S
      BY <2>2, ExpandClosureIsLeast
    <3> QED
      BY <2>1, <3>1 DEF ClosureIsLeast, PermissionIds, ClosedIn
  <2> QED
    BY <2>3, <2>4, <2>5 DEF AuthorityIsConsistent
<1> QED
  BY <1>1, AccessInvHolds, PTL

-----------------------------------------------------------------------------
(* An update is whole *)

\* A row with the values kv given, and a table whose rows sel are given them;
\* the rows selected, and with a column set to NULL; the values kw are kv with
\* one NULL more; what is given in the end.
Given(r, kv) == [n \in DOMAIN r |-> IF n \in DOMAIN kv THEN kv[n] ELSE r[n]]
GivenTo(rows, sel, kv) == (rows \ sel) \cup {Given(r, kv) : r \in sel}
Selected(rows, column, value) == {r \in rows : r[column] = value}
Nulled(rows, n) == {[r EXCEPT ![n] = NULL] : r \in rows}
NullMore(kw, kv, n) ==
  DOMAIN kw = DOMAIN kv \cup {n} /\ kw[n] = NULL /\ \A m \in DOMAIN kv \ {n} : kw[m] = kv[m]
AreRows(t, D) == \A r \in D : IsRow(t, r)
Asked(json, nulls) == [n \in DOMAIN json |-> IF n \in nulls THEN NULL ELSE json[n]]

LEMMA MatchingOne ==
  ASSUME NEW d, NEW t, NEW column, NEW value
  PROVE  Matching(d, t, Where(column, value)) = Selected(d[t], column, value)
BY DEF Matching, Where, Selected

LEMMA UpdatedRows ==
  ASSUME NEW d, IsDb(d), NEW t \in TableNames, NEW column, NEW value, NEW kv,
         UpdateRow(d, t, column, value, kv) # Refused
  PROVE  /\ column \in ColumnNames(t)
         /\ UpdateRow(d, t, column, value, kv)[t] =
              GivenTo(d[t], Matching(d, t, Where(column, value)), kv)
<1> DEFINE old == Matching(d, t, Where(column, value))
<1> DEFINE R == GivenTo(d[t], old, kv)
<1>1. column \in ColumnNames(t) /\ UpdateRow(d, t, column, value, kv) = [d EXCEPT ![t] = R]
  BY DEF UpdateRow, Commit, GivenTo, Given
<1> HIDE DEF R
<1>2. t \in DOMAIN d
  BY DEF IsDb
<1> QED
  BY <1>1, <1>2 DEF R

LEMMA NulledRows ==
  ASSUME NEW d, IsDb(d), NEW t \in TableNames, NEW column, NEW value, NEW n,
         SetNull(d, t, column, value, n) # Refused
  PROVE  /\ column \in ColumnNames(t)
         /\ SetNull(d, t, column, value, n)[t] =
              (d[t] \ Matching(d, t, Where(column, value))) \cup Nulled(Matching(d, t, Where(column, value)), n)
<1> DEFINE old == Matching(d, t, Where(column, value))
<1> DEFINE R == (d[t] \ old) \cup { [r EXCEPT ![n] = NULL] : r \in old }
<1>1. column \in ColumnNames(t) /\ SetNull(d, t, column, value, n) = [d EXCEPT ![t] = R]
  BY DEF SetNull, Commit
<1> HIDE DEF R
<1>2. t \in DOMAIN d
  BY DEF IsDb
<1> QED
  BY <1>1, <1>2 DEF R, Nulled

\* The rows selected are selected again after an update that leaves the column
\* it selects by alone: one more NULL is one more value given.
LEMMA NullIsGiven ==
  ASSUME NEW t, NEW D, AreRows(t, D), NEW column \in ColumnNames(t), NEW value,
         NEW kv, column \notin DOMAIN kv, NEW n \in ColumnNames(t), n # column, NEW kw, NullMore(kw, kv, n),
         NEW sel, sel = Selected(D, column, value),
         NEW E, E = GivenTo(D, sel, kv), NEW old, old = Selected(E, column, value)
  PROVE  (E \ old) \cup Nulled(old, n) = GivenTo(D, sel, kw)
<1>1. ASSUME NEW r \in sel
      PROVE  Given(r, kv)[column] = value
  BY <1>1 DEF Given, IsRow, AreRows, Selected
<1>2. old = {Given(r, kv) : r \in sel}
  BY <1>1 DEF GivenTo, Selected
<1>3. E \ old = D \ sel
  BY <1>2 DEF GivenTo, Selected
<1>4. ASSUME NEW r \in sel
      PROVE  [Given(r, kv) EXCEPT ![n] = NULL] = Given(r, kw)
  <2>1. DOMAIN r = ColumnNames(t)
    BY DEF IsRow, AreRows, Selected
  <2>2. PICK C : C = ColumnNames(t)
    OBVIOUS
  <2>3. n \in C /\ DOMAIN r = C
    BY <2>1, <2>2
  <2> QED
    BY <2>3 DEF Given, NullMore
<1>5. Nulled(old, n) = {Given(r, kw) : r \in sel}
  BY <1>2, <1>4 DEF Nulled
<1> QED
  BY <1>3, <1>5 DEF GivenTo

\* What was given after the first i columns: the values, and of the nulls those
\* whose column has had its turn.
KnownAt(t, json, nulls, i) ==
  [n \in {m \in DOMAIN json : m \notin nulls \/ \E j \in 1 .. i : DatabaseInfo[t].columns[j].name = m} |->
     IF n \in nulls THEN NULL ELSE json[n]]

LEMMA KnownAtFirst ==
  ASSUME NEW t, NEW json, NEW nulls, NEW D, \A r \in D : IsRow(t, r), NEW sel \in SUBSET D
  PROVE  /\ KnownAt(t, json, nulls, 0) = Restrict(json, DOMAIN json \ nulls)
         /\ DOMAIN KnownAt(t, json, nulls, 0) = {} => GivenTo(D, sel, KnownAt(t, json, nulls, 0)) = D
<1>1. KnownAt(t, json, nulls, 0) = Restrict(json, DOMAIN json \ nulls)
  BY DEF KnownAt, Restrict
<1> DEFINE kv == KnownAt(t, json, nulls, 0)
<1>2. ASSUME DOMAIN kv = {}, NEW r \in sel PROVE Given(r, kv) = r
  <2> HIDE DEF kv
  <2> QED
    BY <1>2 DEF Given, IsRow
<1> HIDE DEF kv
<1>3. DOMAIN kv = {} => GivenTo(D, sel, kv) = D
  BY <1>2 DEF GivenTo
<1> QED
  BY <1>1, <1>3 DEF kv

LEMMA KnownAtNext ==
  ASSUME NEW t, NEW json, NEW nulls \in SUBSET DOMAIN json, NEW i \in Nat \ {0}, NEW n,
         n = DatabaseInfo[t].columns[i].name,
         NEW kw, kw = KnownAt(t, json, nulls, i - 1), NEW ky, ky = KnownAt(t, json, nulls, i)
  PROVE  /\ n \notin nulls => ky = kw
         /\ n \in nulls => NullMore(ky, kw, n)
<1> DEFINE Name(j) == DatabaseInfo[t].columns[j].name
<1> DEFINE K(k) == {m \in DOMAIN json : m \notin nulls \/ \E j \in 1 .. k : Name(j) = m}
<1>1. \A j : j \in 1 .. i <=> j \in 1 .. i - 1 \/ j = i
  OBVIOUS
<1>2. \A k : KnownAt(t, json, nulls, k) = [m \in K(k) |-> IF m \in nulls THEN NULL ELSE json[m]]
  BY DEF KnownAt
<1>3. Name(i) = n
  OBVIOUS
<1> HIDE DEF Name
<1>4. \A m : (\E j \in 1 .. i : Name(j) = m) <=> (\E j \in 1 .. i - 1 : Name(j) = m) \/ m = n
  BY <1>1, <1>3
<1>5. n \notin nulls => K(i) = K(i - 1)
  BY <1>4
<1>6. n \in nulls => K(i) = K(i - 1) \cup {n}
  BY <1>4
<1>7. ky = [m \in K(i) |-> IF m \in nulls THEN NULL ELSE json[m]]
  BY <1>2
<1>8. kw = [m \in K(i - 1) |-> IF m \in nulls THEN NULL ELSE json[m]]
  BY <1>2
<1> HIDE DEF K
<1>9. CASE n \notin nulls
  BY <1>5, <1>7, <1>8, <1>9
<1>10. CASE n \in nulls
  BY <1>6, <1>7, <1>8, <1>10 DEF NullMore
<1> QED
  BY <1>9, <1>10

LEMMA KnownAtLast ==
  ASSUME NEW t \in TableNames, NEW json, DOMAIN json \subseteq ColumnNames(t), NEW nulls \in SUBSET DOMAIN json
  PROVE  KnownAt(t, json, nulls, Len(DatabaseInfo[t].columns)) =
           Asked(json, nulls)
<1> DEFINE columns == DatabaseInfo[t].columns
<1>1. columns \in Seq(Columns(t))
  BY TablesAssumption DEF TablesAssumption
<1>2. ASSUME NEW m \in DOMAIN json
      PROVE  \E j \in 1 .. Len(columns) : columns[j].name = m
  <2>1. PICK c \in Columns(t) : c.name = m
    BY <1>2 DEF ColumnNames
  <2>2. PICK j \in DOMAIN columns : columns[j] = c
    BY <2>1 DEF Columns, Range
  <2>3. DOMAIN columns = 1 .. Len(columns)
    BY <1>1
  <2> QED
    BY <2>1, <2>2, <2>3
<1> HIDE DEF columns
<1>3. {m \in DOMAIN json : m \notin nulls \/ \E j \in 1 .. Len(columns) : columns[j].name = m} = DOMAIN json
  BY <1>2
<1> QED
  BY <1>3 DEF KnownAt, Asked, columns

\* What the statements of an update leave, column by column, when they leave the
\* column they select by alone and none is refused.
LEMMA NullsAreGiven ==
  ASSUME NEW d, IsDb(d), Implied(d), NEW t \in TableNames, NEW column, NEW value, NEW json,
         DOMAIN json \subseteq ColumnNames(t), column \notin DOMAIN json, NEW nulls \in SUBSET DOMAIN json,
         NEW kv, kv = Restrict(json, DOMAIN json \ nulls),
         NEW first, first = IF DOMAIN kv = {} THEN d ELSE UpdateRow(d, t, column, value, kv),
         NEW N, N = Len(DatabaseInfo[t].columns),
         NEW g, NullsUpTo(g, first, t, column, value, nulls, N), g[N] \notin {Refused, d}
  PROVE  g[N][t] = GivenTo(d[t], Matching(d, t, Where(column, value)),
                           Asked(json, nulls))
<1> DEFINE sel == Matching(d, t, Where(column, value))
<1> DEFINE After(i) == GivenTo(d[t], sel, KnownAt(t, json, nulls, i))
<1> DEFINE Good(i) == /\ IsDb(g[i]) /\ Implied(g[i])
                      /\ IF column \in ColumnNames(t) THEN g[i][t] = After(i) ELSE g[i] = d
<1>3. sel = Selected(d[t], column, value) /\ sel \subseteq d[t] /\ \A r \in d[t] : IsRow(t, r)
  BY MatchingOne DEF IsDb, Selected
<1>4. kv = KnownAt(t, json, nulls, 0) /\ (DOMAIN kv = {} => After(0) = d[t])
  <2>1. PICK D : D = d[t]
    OBVIOUS
  <2>2. PICK k : k = KnownAt(t, json, nulls, 0)
    OBVIOUS
  <2> HIDE DEF sel
  <2>3. (\A r \in D : IsRow(t, r)) /\ sel \in SUBSET D
    BY <1>3, <2>1
  <2>4. k = Restrict(json, DOMAIN json \ nulls) /\ (DOMAIN k = {} => GivenTo(D, sel, k) = D)
    BY <2>2, <2>3, KnownAtFirst
  <2> QED
    BY <2>1, <2>2, <2>4
<1>5. first = Refused \/ IF column \in ColumnNames(t) THEN first[t] = After(0) ELSE first = d
  BY <1>4, UpdatedRows
<1>6. first = Refused \/ (IsDb(first) /\ Implied(first))
  BY UpdateRowResult DEF Effect
<1> HIDE DEF sel
<1>7. N \in Nat
  BY TablesAssumption DEF TablesAssumption
<1>8. KnownAt(t, json, nulls, N) = Asked(json, nulls)
  BY KnownAtLast
<1> DEFINE S == {i \in 0 .. N : ~(g[i] = Refused \/ Good(i))}
<1>10. S = {}
  <2> SUFFICES ASSUME S # {} PROVE FALSE
    OBVIOUS
  <2>1. PICK i \in S : \A j \in S : i <= j
    <3>1. S \in SUBSET Nat
      BY <1>7
    <3> HIDE DEF S
    <3> QED
      BY <3>1, LeastNat
  <2>2. i \in 0 .. N /\ ~(g[i] = Refused \/ Good(i))
    OBVIOUS
  <2>3. g[i] = IF i = 0 THEN first
               ELSE IF DatabaseInfo[t].columns[i].name \notin nulls THEN g[i - 1]
               ELSE SetNull(g[i - 1], t, column, value, DatabaseInfo[t].columns[i].name)
    BY <2>2 DEF NullsUpTo
  <2>4. i # 0
    <3> SUFFICES ASSUME i = 0 PROVE FALSE
      OBVIOUS
    <3>1. g[i] = first
      BY <2>3
    <3>2. first # Refused
      BY <2>2, <3>1
    <3> HIDE DEF After
    <3> QED
      BY <1>5, <1>6, <2>2, <3>1, <3>2
  <2>5. i - 1 \in 0 .. N /\ ~(i <= i - 1) /\ i \in Nat \ {0}
    BY <1>7, <2>2, <2>4
  <2>6. g[i - 1] = Refused \/ Good(i - 1)
    BY <2>1, <2>5
  <2>7. PICK n : n = DatabaseInfo[t].columns[i].name
    OBVIOUS
  <2>8. PICK x : x = g[i - 1]
    OBVIOUS
  <2>9. PICK kw : kw = KnownAt(t, json, nulls, i - 1)
    OBVIOUS
  <2>10. PICK ky : ky = KnownAt(t, json, nulls, i)
    OBVIOUS
  <2>11. /\ n \notin nulls => ky = kw
         /\ n \in nulls => NullMore(ky, kw, n)
    <3>1. i \in Nat \ {0}
      BY <2>5
    <3> HIDE DEF S, Good
    <3> QED
      BY <3>1, <2>7, <2>9, <2>10, KnownAtNext
  <2>12. x = Refused \/ (/\ IsDb(x) /\ Implied(x)
                         /\ IF column \in ColumnNames(t) THEN x[t] = GivenTo(d[t], sel, kw) ELSE x = d)
    BY <2>6, <2>8, <2>9
  <2>13. ~(g[i] = Refused \/ (/\ IsDb(g[i]) /\ Implied(g[i])
                              /\ IF column \in ColumnNames(t) THEN g[i][t] = GivenTo(d[t], sel, ky) ELSE g[i] = d))
    BY <2>2, <2>10
  <2>14. CASE n \notin nulls
    <3>1. g[i] = x
      BY <2>3, <2>4, <2>7, <2>8, <2>14
    <3> QED
      BY <2>11, <2>12, <2>13, <2>14, <3>1
  <2>15. CASE n \in nulls
    <3>1. g[i] = SetNull(x, t, column, value, n)
      BY <2>3, <2>4, <2>7, <2>8, <2>15
    <3>2. PICK y : y = SetNull(x, t, column, value, n)
      OBVIOUS
    <3>3. y # Refused
      BY <2>13, <3>1, <3>2
    <3>4. x # Refused /\ IsDb(y) /\ Implied(y)
      BY <2>12, <3>2, <3>3, SetNullResult DEF Effect
    <3>5. /\ column \in ColumnNames(t)
          /\ y[t] = (x[t] \ Matching(x, t, Where(column, value))) \cup
                    Nulled(Matching(x, t, Where(column, value)), n)
      BY <2>12, <3>2, <3>3, <3>4, NulledRows
    <3>6. PICK D : D = d[t]
      OBVIOUS
    <3>7. PICK F : F = x[t]
      OBVIOUS
    <3>8. PICK old : old = Matching(x, t, Where(column, value))
      OBVIOUS
    <3>9. old = Selected(F, column, value) /\ F = GivenTo(D, sel, kw)
      BY <2>12, <3>4, <3>5, <3>6, <3>7, <3>8, MatchingOne
    <3>10. /\ n \in ColumnNames(t) /\ n # column /\ n \in DOMAIN json
           /\ column \notin DOMAIN kw
      BY <2>9, <2>15 DEF KnownAt
    <3>11. /\ AreRows(t, D)
           /\ sel = Selected(D, column, value)
      BY <1>3, <3>6 DEF AreRows
    <3>12. (F \ old) \cup Nulled(old, n) = GivenTo(D, sel, ky)
      <4>1. column \in ColumnNames(t)
        BY <3>5
      <4>2. NullMore(ky, kw, n)
        BY <2>11, <2>15
      <4> QED
        BY <3>9, <3>10, <3>11, <4>1, <4>2, NullIsGiven
    <3>13. y[t] = GivenTo(D, sel, ky)
      BY <3>5, <3>7, <3>8, <3>12
    <3> QED
      BY <2>13, <3>1, <3>2, <3>4, <3>5, <3>6, <3>13
  <2> QED
    BY <2>14, <2>15
<1>11. g[N] = Refused \/ Good(N)
  BY <1>7, <1>10
<1>13. g[N][t] = After(N)
  BY <1>11
<1> QED
  BY <1>8, <1>13 DEF sel

\* The same of the whole update.
LEMMA UpdateIsWhole ==
  ASSUME NEW d, IsDb(d), Implied(d), NEW t \in TableNames, NEW column, NEW value, NEW json,
         DOMAIN json \subseteq ColumnNames(t), column \notin DOMAIN json,
         UpdateTableValue(d, t, column, value, json) \notin {Refused, d}
  PROVE  UpdateTableValue(d, t, column, value, json)[t] =
           GivenTo(d[t], Matching(d, t, Where(column, value)),
                   [n \in DOMAIN json |-> IF json[n] = NoValue /\ ~KeepsEmptyString(t, n) THEN NULL ELSE json[n]])
<1> DEFINE nulls == { n \in DOMAIN json : json[n] = NoValue /\ ~KeepsEmptyString(t, n) }
<1> DEFINE kv == Restrict(json, DOMAIN json \ nulls)
<1> DEFINE first == IF DOMAIN kv = {} THEN d ELSE UpdateRow(d, t, column, value, kv)
<1> DEFINE N == Len(DatabaseInfo[t].columns)
<1> DEFINE g == CHOOSE f : NullsUpTo(f, first, t, column, value, nulls, N)
<1>1. UpdateTableValue(d, t, column, value, json) = g[N]
  BY DEF UpdateTableValue, NullsUpTo
<1>2. nulls \in SUBSET DOMAIN json
  OBVIOUS
<1> DEFINE asked == [n \in DOMAIN json |-> IF json[n] = NoValue /\ ~KeepsEmptyString(t, n) THEN NULL ELSE json[n]]
<1>3. asked = Asked(json, nulls)
  BY DEF Asked
<1> HIDE DEF nulls, asked
<1>4. kv = Restrict(json, DOMAIN json \ nulls) /\ first = IF DOMAIN kv = {} THEN d ELSE UpdateRow(d, t, column, value, kv)
  OBVIOUS
<1>5. N = Len(DatabaseInfo[t].columns) /\ N \in Nat
  BY TablesAssumption DEF TablesAssumption
<1> HIDE DEF kv, first, N
<1>6. NullsUpTo(g, first, t, column, value, nulls, N)
  BY <1>5, NullsExist
<1> HIDE DEF g
<1>7. g[N] \notin {Refused, d}
  BY <1>1
<1>8. g[N][t] = GivenTo(d[t], Matching(d, t, Where(column, value)), Asked(json, nulls))
  BY <1>2, <1>4, <1>5, <1>6, <1>7, NullsAreGiven
<1> QED
  BY <1>1, <1>3, <1>8 DEF asked

\* The rows a DELETE selects are gone.
LEMMA DeletedRowsAreGone ==
  ASSUME NEW d, NEW t \in TableNames, NEW column, NEW value,
         DeleteRow(d, t, Where(column, value)) # Refused
  PROVE  ~ \E r \in DeleteRow(d, t, Where(column, value))[t] : r[column] = value
<1> DEFINE rows == Matching(d, t, Where(column, value))
<1> DEFINE gone == Cascade(d, t, rows)
<1> DEFINE e == [u \in TableNames |-> { r \in d[u] : <<u, r>> \notin gone }]
<1>1. DeleteRow(d, t, Where(column, value)) = e
  BY DEF DeleteRow
<1>2. rows = {r \in d[t] : r[column] = value}
  BY MatchingOne DEF Selected
<1>3. \A r \in rows : <<t, r>> \in gone
  <2>1. PICK s : gone = s.gone /\ GoodLevel(d, t, {t} \X rows, 1, s)
    BY CascadeIsGood
  <2> HIDE DEF gone, rows
  <2>2. {t} \X rows \subseteq gone
    BY <2>1 DEF GoodLevel
  <2> QED
    BY <2>2
<1>4. \A r \in e[t] : r \in d[t] /\ <<t, r>> \notin gone
  OBVIOUS
<1> HIDE DEF e, gone, rows
<1> QED
  BY <1>1, <1>2, <1>3, <1>4

\* An item that was deleted by its key is gone.
LEMMA DeletedItemIsGone ==
  ASSUME NEW d, NEW q \in Requests, NEW id, q.op = "delete", q.column = PrimaryKey(q.table),
         Statement(d, q, id) # Refused
  PROVE  ~HasRow(Statement(d, q, id), <<q.table, q.value>>)
<1>1. q.table \in TableNames
  BY RequestsAssumption DEF RequestsAssumption
<1>2. Statement(d, q, id) = DeleteItem(d, q)
  BY DEF Statement
<1>3. DeleteItem(d, q) = DeleteRow(d, q.table, Where(q.column, q.value))
  BY <1>2 DEF DeleteItem
<1>4. PICK t \in TableNames : t = q.table
  BY <1>1
<1>5. PICK v : v = q.value
  OBVIOUS
<1>6. PICK e : e = DeleteRow(d, t, Where(q.column, v))
  OBVIOUS
<1>7. ~ \E r \in e[t] : r[q.column] = v
  BY <1>2, <1>3, <1>4, <1>5, <1>6, DeletedRowsAreGone
<1>8. PICK p : p = <<t, v>>
  OBVIOUS
<1>9. p[1] = t /\ p[2] = v
  BY <1>8
<1>10. ~HasRow(e, p)
  BY <1>4, <1>7, <1>9 DEF HasRow
<1> QED
  BY <1>2, <1>3, <1>4, <1>5, <1>6, <1>8, <1>10

\* What a request writes, statement and photos together.
LEMMA WriteIsStatement ==
  ASSUME AccessInv, NEW u \in Users, Write(u), NEW q, q = request[u]
  PROVE  /\ q \in Requests
         /\ \/ db' = db /\ photos' = photos
            \/ /\ Statement(db, q, Ids[next[q.table]]) # Refused
               /\ db' = Statement(db, q, Ids[next[q.table]])
               /\ photos' = PhotosAfter(q)
BY DEF AccessInv, Write, OK

LEMMA UpdateStep ==
  ASSUME AccessInv, NEW u \in Users, Write(u), NEW q, q = request[u],
         q.op = "update", q.column \notin DOMAIN q.json, db' # db
  PROVE  db'[q.table] = GivenTo(db[q.table], Matching(db, q.table, Where(q.column, q.value)),
           [n \in DOMAIN q.json |-> IF q.json[n] = NoValue /\ ~KeepsEmptyString(q.table, n) THEN NULL ELSE q.json[n]])
<1>1. q \in Requests
  BY WriteIsStatement
<1>2. PICK d : d = db
  OBVIOUS
<1>3. PICK id : id = Ids[next[q.table]]
  OBVIOUS
<1>4. db' = Statement(d, q, id) /\ Statement(d, q, id) # Refused
  BY <1>2, <1>3, WriteIsStatement
<1>5. Statement(d, q, id) = UpdateItem(d, q)
  BY DEF Statement
<1>6. PICK t \in TableNames : t = q.table
  BY <1>1, RequestsAssumption DEF RequestsAssumption
<1>7. PICK json : json = q.json
  OBVIOUS
<1>8. PICK column : column = q.column
  OBVIOUS
<1>9. PICK value : value = q.value
  OBVIOUS
<1>10. /\ UpdateItem(d, q) = UpdateTableValue(d, t, column, value, json)
       /\ DOMAIN json \subseteq ColumnNames(t)
  BY <1>4, <1>5, <1>6, <1>7, <1>8, <1>9 DEF UpdateItem, ValidJson, CheckKeysInTable
<1>11. UpdateTableValue(d, t, column, value, json) \notin {Refused, d}
  BY <1>2, <1>4, <1>5, <1>10
<1>12. IsDb(d) /\ Implied(d) /\ column \notin DOMAIN json
  BY <1>2, <1>7, <1>8 DEF AccessInv
<1>13. UpdateTableValue(d, t, column, value, json)[t] =
         GivenTo(d[t], Matching(d, t, Where(column, value)),
           [n \in DOMAIN json |-> IF json[n] = NoValue /\ ~KeepsEmptyString(t, n) THEN NULL ELSE json[n]])
  <2>1. DOMAIN json \subseteq ColumnNames(t)
    BY <1>10
  <2> QED
    BY <1>11, <1>12, <2>1, UpdateIsWhole
<1> QED
  BY <1>2, <1>4, <1>5, <1>6, <1>7, <1>8, <1>9, <1>10, <1>13

\* A write changes its own row, with its photo, entirely or not at all: the
\* updates of an item, statement by statement, sum up to what was asked for; a
\* deletion takes the item and its photo or neither; and no photo is lost in
\* another way.
THEOREM WritesAlwaysWhole == AccessSpec => WritesAreWhole
<1>1. AccessInv =>
       [\A u \in Users :
          LET q == request[u]
              selected == Matching(db, q.table, Where(q.column, q.value))
              Wanted(n) == IF q.json[n] = NoValue /\ ~KeepsEmptyString(q.table, n) THEN NULL ELSE q.json[n]
          IN  q.op = "update" /\ q.column \notin DOMAIN q.json /\ Write(u) /\ db' # db =>
                db'[q.table] = (db[q.table] \ selected) \cup
                  { [n \in DOMAIN r |-> IF n \in DOMAIN q.json THEN Wanted(n) ELSE r[n]] : r \in selected }]_accessVars
  <2> SUFFICES ASSUME AccessInv, NEW u \in Users, NEW q, q = request[u],
                      q.op = "update", q.column \notin DOMAIN q.json, Write(u), db' # db,
                      NEW selected, selected = Matching(db, q.table, Where(q.column, q.value))
               PROVE  db'[q.table] = (db[q.table] \ selected) \cup
                        { [n \in DOMAIN r |-> IF n \in DOMAIN q.json
                                              THEN IF q.json[n] = NoValue /\ ~KeepsEmptyString(q.table, n) THEN NULL ELSE q.json[n]
                                              ELSE r[n]] : r \in selected }
    OBVIOUS
  <2> DEFINE Wanted(n) == IF q.json[n] = NoValue /\ ~KeepsEmptyString(q.table, n) THEN NULL ELSE q.json[n]
  <2> DEFINE all == [n \in DOMAIN q.json |-> Wanted(n)]
  <2>1. db'[q.table] = GivenTo(db[q.table], selected, all)
    BY UpdateStep
  <2> HIDE DEF Wanted
  <2>2. \A r : Given(r, all) = [n \in DOMAIN r |-> IF n \in DOMAIN q.json THEN Wanted(n) ELSE r[n]]
    BY DEF Given
  <2> HIDE DEF all
  <2>3. { Given(r, all) : r \in selected } =
          { [n \in DOMAIN r |-> IF n \in DOMAIN q.json THEN Wanted(n) ELSE r[n]] : r \in selected }
    BY <2>2
  <2> QED
    BY <2>1, <2>3 DEF GivenTo, Wanted
<1>2. AccessInv =>
       [\A u \in Users :
          LET q == request[u]
              p == <<q.table, q.value>>
          IN  q.op = "delete" /\ q.column = PrimaryKey(q.table) /\ p \in photos /\ HasRow(db, p)
                /\ IsPhotoSupportedForTable(db, q.table) /\ Write(u)
              => (p \in photos' <=> HasRow(db', p))]_accessVars
  <2> SUFFICES ASSUME AccessInv, NEW u \in Users, NEW q, q = request[u], NEW p, p = <<q.table, q.value>>,
                      q.op = "delete", q.column = PrimaryKey(q.table), p \in photos, HasRow(db, p),
                      IsPhotoSupportedForTable(db, q.table), Write(u)
               PROVE  p \in photos' <=> HasRow(db', p)
    OBVIOUS
  <2>1. CASE db' = db /\ photos' = photos
    BY <2>1
  <2>2. CASE /\ Statement(db, q, Ids[next[q.table]]) # Refused
             /\ db' = Statement(db, q, Ids[next[q.table]])
             /\ photos' = PhotosAfter(q)
    <3>1. PICK d : d = db
      OBVIOUS
    <3>2. PICK id : id = Ids[next[q.table]]
      OBVIOUS
    <3>3. ~HasRow(Statement(d, q, id), p)
      BY <2>2, <3>1, <3>2, WriteIsStatement, DeletedItemIsGone
    <3>4. ~HasRow(db', p)
      BY <2>2, <3>1, <3>2, <3>3
    <3>5. p \notin photos'
      BY <2>2 DEF PhotosAfter, DeletePhoto
    <3> QED
      BY <3>4, <3>5
  <2> QED
    BY <2>1, <2>2, WriteIsStatement
<1>3. AccessInv /\ [AccessNext]_accessVars =>
       [\A p \in photos \ photos' :
          \E u \in Users : LET q == request[u]
                           IN  \/ q.op = "remove" /\ <<q.table, q.value>> = p
                               \/ q.op = "delete" /\ (~HasRow(db', p) \/ q.column # PrimaryKey(q.table))]_accessVars
  <2> SUFFICES ASSUME AccessInv, AccessNext, NEW p \in photos \ photos'
               PROVE  \E u \in Users : \/ request[u].op = "remove" /\ <<request[u].table, request[u].value>> = p
                                       \/ /\ request[u].op = "delete"
                                          /\ ~HasRow(db', p) \/ request[u].column # PrimaryKey(request[u].table)
    BY DEF accessVars
  <2>1. PICK u \in Users : Write(u)
    BY DEF AccessNext, Check, HelperCall, Restart
  <2>2. PICK q : q = request[u]
    OBVIOUS
  <2>3. /\ q \in Requests /\ Statement(db, q, Ids[next[q.table]]) # Refused
        /\ db' = Statement(db, q, Ids[next[q.table]])
        /\ photos' = PhotosAfter(q)
    BY <2>1, <2>2, WriteIsStatement
  <2>4. q.op \in {"add", "add_key", "update", "delete", "upload", "remove"}
    BY <2>3, RequestsAssumption DEF RequestsAssumption
  <2>5. q.op \in {"remove", "delete"} /\ <<q.table, q.value>> = p
    BY <2>3, <2>4 DEF PhotosAfter, UploadPhoto, DeletePhoto
  <2>6. CASE q.op = "remove"
    BY <2>2, <2>5, <2>6
  <2>7. CASE q.op = "delete" /\ q.column # PrimaryKey(q.table)
    BY <2>2, <2>7
  <2>8. CASE q.op = "delete" /\ q.column = PrimaryKey(q.table)
    <3>1. PICK d : d = db
      OBVIOUS
    <3>2. PICK id : id = Ids[next[q.table]]
      OBVIOUS
    <3>3. ~HasRow(Statement(d, q, id), p)
      BY <2>3, <2>5, <2>8, <3>1, <3>2, DeletedItemIsGone
    <3>4. ~HasRow(db', p)
      BY <2>3, <3>1, <3>2, <3>3
    <3> QED
      BY <2>2, <2>8, <3>4
  <2> QED
    BY <2>5, <2>6, <2>7, <2>8
<1>4. AccessSpec => UpdatesAreWhole
  BY <1>1, AccessInvHolds, PTL DEF UpdatesAreWhole
<1>5. AccessSpec => PhotoGoesWithItsRow
  BY <1>2, AccessInvHolds, PTL DEF PhotoGoesWithItsRow
<1>6. AccessSpec => PhotosAreNotTakenFromOthers
  BY <1>3, AccessInvHolds, PTL DEF AccessSpec, PhotosAreNotTakenFromOthers
<1> QED
  BY <1>4, <1>5, <1>6 DEF WritesAreWhole

=============================================================================
