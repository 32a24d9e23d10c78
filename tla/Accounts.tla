------------------------------ MODULE Accounts ------------------------------
(* How accounts come to be: registration with a mailed activation link,      *)
(* accounts made by staff with a mailed temporary password, and the          *)
(* scheduler's service account with its role.  Each runs in one transaction  *)
(* of several statements; mail leaves the server before the COMMIT.          *)
(* people.email is CITEXT and unique: an INSERT waits for the transaction    *)
(* that inserted the same address and has not ended.  Expiry of links and    *)
(* attempts are in Credentials; sequences are not rolled back, so a          *)
(* person's id also names the link and the password made for it.             *)
EXTENDS Integers, FiniteSets

CONSTANTS
  Clients,         \* requests and helper programs at work
  Emails,          \* addresses as typed
  Folded,          \* address -> the address CITEXT compares
  SchedulerEmail,  \* App::kSchedulerServiceAccountEmail
  Seeded,          \* permissions.name of the database
  MaxPeople        \* bound: ids that are ever drawn

ASSUME AccountsAssumption ==
  /\ IsFiniteSet(Clients)
  /\ SchedulerEmail \in Emails /\ Folded \in [Emails -> Emails]
  /\ MaxPeople \in Nat

VARIABLES
  people,          \* committed rows of people
  links,           \* ids with a row in email_verifications
  lapsed,          \* ids whose link was deleted unused
  nextId,          \* the sequence of people.id
  roles,           \* ids of the roles named "scheduler"
  nextRole,        \* the sequence of roles.id
  grants,          \* role_permissions: pairs of a role and a permission
  assignments,     \* role_assignments: pairs of a person and a role
  mails,           \* every mail sent: [kind, to, id]
  tx,              \* client -> its transaction
  service,         \* ids committed by EnsureSchedulerServiceAccount
  ensured          \* how the last EnsureSchedulerServiceAccount ended

vars == << people, links, lapsed, nextId, roles, nextRole, grants, assignments, mails, tx, service, ensured >>
authority == << roles, nextRole, grants, assignments >>

Kinds == {"register", "staff", "scheduler"}
Idle == [step |-> "idle"]
Row(id, email, verified, password) ==
  [id |-> id, email |-> email, verified |-> verified, password |-> password]
\* A transaction: what for, the address, its own row, role and grants.
Tx(step, kind, email) ==
  [step |-> step, kind |-> kind, email |-> email, row |-> {}, role |-> {}, grants |-> {}]

\* Mutant: compared letter by letter.
LookupPersonExactly(email) == { p \in people : p.email = email }

LookupPersonByEmail(email) == { p \in people : Folded[p.email] = Folded[email] }
PersonById(id) == { p \in people : p.id = id }

\* The unique index: taken by a committed row, or held by an open transaction.
Taken(email) == LookupPersonByEmail(email) # {}

\* Mutant: the address is locked from the lookup on.
HeldFromLookup(c, email) ==
  \E d \in Clients \ {c} : tx[d] # Idle /\ Folded[tx[d].email] = Folded[email]

Holds(d, email) == tx[d] # Idle /\ \E r \in tx[d].row : Folded[r.email] = Folded[email]
Held(c, email) == \E d \in Clients \ {c} : Holds(d, email)
-----------------------------------------------------------------------------
\* The bound on ids, kept for the transactions that will still draw one.
Looked == { c \in Clients : tx[c].step = "looked" }
Room == nextId + Cardinality(Looked) <= MaxPeople

\* EnsureAccountWithWelcome and EnsureSchedulerServiceAccount first look whether
\* the person exists, verified or not, and then do nothing.
LookFirst(c, kind, email) ==
  /\ tx[c] = Idle
  /\ Room
  /\ IF Taken(email)
     THEN /\ ensured' = IF kind = "scheduler" THEN "exists" ELSE ensured
          /\ UNCHANGED tx
     ELSE tx' = [tx EXCEPT ![c] = Tx("looked", kind, email)] /\ UNCHANGED ensured
  /\ UNCHANGED << people, links, lapsed, nextId, authority, mails, service >>

\* Mutant: only the service account is verified.
ValidatedScheduler(kind) == kind = "scheduler"

Validated(kind) == kind # "register"

\* People::AddPerson.  The id is drawn even when the INSERT is refused.
AddPerson(c, kind, email) ==
  /\ ~Held(c, email)
  /\ nextId' = nextId + 1
  /\ IF Taken(email)
     THEN /\ tx' = [tx EXCEPT ![c] = Idle]
          /\ ensured' = IF kind = "scheduler" THEN "failed" ELSE ensured
     ELSE /\ tx' = [tx EXCEPT ![c] = [Tx("inserted", kind, email) EXCEPT
                      !.row = {Row(nextId, email, Validated(kind), IF kind = "staff" THEN "temporary" ELSE "own")}]]
          /\ UNCHANGED ensured
  /\ UNCHANGED << people, links, lapsed, authority, mails, service >>

\* Register validates its fields and calls PreliminaryRegisterPerson.
Register(c, email) == tx[c] = Idle /\ Room /\ AddPerson(c, "register", email)

\* CreateFullyValidatedUser, for staff and for the scheduler.
CreateFullyValidatedUser(c) ==
  /\ tx[c].step = "looked"
  /\ AddPerson(c, tx[c].kind, tx[c].email)

\* The activation link, whose failure rolls the registration back, and the
\* welcome mail, whose failure is swallowed.
SendMail(c) ==
  /\ tx[c].step = "inserted" /\ tx[c].kind \in {"register", "staff"}
  /\ tx' = [tx EXCEPT ![c].step = "done"]
  /\ \E r \in tx[c].row : mails' = mails \cup {[kind |-> tx[c].kind, to |-> r.email, id |-> r.id]}
  /\ UNCHANGED << people, links, lapsed, nextId, authority, service, ensured >>

SendMailFails(c) ==
  /\ tx[c].step = "inserted" /\ tx[c].kind \in {"register", "staff"}
  /\ tx' = [tx EXCEPT ![c] = IF tx[c].kind = "staff" THEN [tx[c] EXCEPT !.step = "done"] ELSE Idle]
  /\ UNCHANGED << people, links, lapsed, nextId, authority, mails, service, ensured >>

\* Mutant: the role is added without looking for it.
GrantSchedulerAnew(c) ==
  /\ tx[c].step = "inserted" /\ tx[c].kind = "scheduler"
  /\ tx' = [tx EXCEPT ![c].step = "done", ![c].role = {nextRole}, ![c].grants = {nextRole} \X Seeded]
  /\ nextRole' = nextRole + 1
  /\ UNCHANGED << people, links, lapsed, nextId, roles, grants, assignments, mails, service, ensured >>

\* Mutant: the permission is looked up by a name that is not seeded.
GrantSchedulerMisspelt(c) ==
  /\ tx[c].step = "inserted" /\ tx[c].kind = "scheduler"
  /\ tx' = [tx EXCEPT ![c] = Idle] /\ ensured' = "failed"
  /\ nextRole' = IF roles = {} THEN nextRole + 1 ELSE nextRole
  /\ UNCHANGED << people, links, lapsed, nextId, roles, grants, assignments, mails, service >>

\* Steps 2 to 4 of EnsureSchedulerServiceAccount: the role, found or added, its
\* permissions and the assignment; (role, permission) is unique.
GrantScheduler(c) ==
  /\ tx[c].step = "inserted" /\ tx[c].kind = "scheduler"
  /\ \E role \in IF roles = {} THEN {nextRole} ELSE roles :
       LET wanted == {role} \X (Seeded \cap {"manage_subscriptions", "manage_class_schedule"})
       IN  IF "manage_subscriptions" \in Seeded /\ wanted \cap grants = {}
           THEN /\ tx' = [tx EXCEPT ![c].step = "done", ![c].role = {role}, ![c].grants = wanted]
                /\ UNCHANGED ensured
           ELSE tx' = [tx EXCEPT ![c] = Idle] /\ ensured' = "failed"
  /\ nextRole' = IF roles = {} THEN nextRole + 1 ELSE nextRole
  /\ UNCHANGED << people, links, lapsed, nextId, roles, grants, assignments, mails, service >>

\* Mutant: the link is stored after the account, by another transaction.
LinksOfNone(rows) == {}

\* AddEmailVerificationById: part of the registration's transaction.
LinksOf(rows) == { r.id : r \in { x \in rows : ~x.verified } }

\* Mutants: the person is committed without the role; the ids are swapped.
AssignmentsOfNone(t) == {}
AssignmentsOfSwapped(t) == t.role \X { r.id : r \in t.row }

AssignmentsOf(t) == { r.id : r \in t.row } \X t.role

CommitTx(c) ==
  /\ tx[c].step = "done"
  /\ people' = people \cup tx[c].row
  /\ links' = links \cup LinksOf(tx[c].row)
  /\ roles' = roles \cup tx[c].role
  /\ grants' = grants \cup tx[c].grants
  /\ assignments' = assignments \cup AssignmentsOf(tx[c])
  /\ service' = IF tx[c].kind = "scheduler" THEN service \cup { r.id : r \in tx[c].row } ELSE service
  /\ ensured' = IF tx[c].kind = "scheduler" THEN "done" ELSE ensured
  /\ tx' = [tx EXCEPT ![c] = Idle]
  /\ UNCHANGED << lapsed, nextId, nextRole, mails >>

\* The connection is lost or the process ends before the COMMIT.
RollBack(c) ==
  /\ tx[c] # Idle
  /\ tx' = [tx EXCEPT ![c] = Idle]
  /\ UNCHANGED << people, links, lapsed, nextId, authority, mails, service, ensured >>
-----------------------------------------------------------------------------
\* The link mailed to registrant id is followed with the address it carries:
\* DoEmailVerification finds the person by the address, compares the token and
\* deletes it; VerifyPersonEmail refuses who is verified already.
AccountActivation(m) ==
  /\ m.kind = "register"
  /\ \E p \in LookupPersonByEmail(m.to) :
       /\ p.id \in links /\ p.id = m.id /\ ~p.verified
       /\ people' = (people \ {p}) \cup {[p EXCEPT !.verified = TRUE]}
       /\ links' = links \ {p.id}
  /\ UNCHANGED << lapsed, nextId, authority, mails, tx, service, ensured >>

\* DeleteExpired removes a link nobody followed.
DeleteExpired(id) ==
  /\ id \in links
  /\ links' = links \ {id} /\ lapsed' = lapsed \cup {id}
  /\ UNCHANGED << people, nextId, authority, mails, tx, service, ensured >>

\* LookupPerson knows only verified people.
\* Mutant: everybody.
LookupAnyPerson(id) == PersonById(id)

LookupPerson(id) == { p \in PersonById(id) : p.verified }

\* SetUserInfo, then UpdateInfo: a new address is taken over without a mail.
SetUserInfo(id, email) ==
  /\ \E p \in LookupPerson(id) :
       /\ p.email # email
       /\ LookupPersonByEmail(email) \subseteq {p}
       /\ ~ \E c \in Clients : Holds(c, email)
       /\ people' = (people \ {p}) \cup {[p EXCEPT !.email = email]}
  /\ UNCHANGED << links, lapsed, nextId, authority, mails, tx, service, ensured >>

\* UpdateUserPassword clears must_change_password.
UpdateUserPassword(id) ==
  /\ \E p \in LookupPerson(id) : people' = (people \ {p}) \cup {[p EXCEPT !.password = "own"]}
  /\ UNCHANGED << links, lapsed, nextId, authority, mails, tx, service, ensured >>

\* CompleteReset, for whoever followed the link that RequestReset mails to the
\* address of anybody: it verifies who is not verified yet, and leaves the
\* activation link where it is.
CompleteReset(id) ==
  /\ \E p \in PersonById(id) :
       people' = (people \ {p}) \cup {[p EXCEPT !.verified = TRUE, !.password = "own"]}
  /\ UNCHANGED << links, lapsed, nextId, authority, mails, tx, service, ensured >>

\* PersonHelper::DeletePerson; links and assignments go by ON DELETE CASCADE.
DeletePerson(id) ==
  /\ \E p \in LookupPerson(id) : people' = people \ {p}
  /\ links' = links \ {id}
  /\ assignments' = { a \in assignments : a[1] # id }
  /\ service' = service \ {id}
  /\ UNCHANGED << lapsed, nextId, roles, nextRole, grants, mails, tx, ensured >>

\* GetRolesForUser and GetPermissionsForUser, as GetUserInfo answers them.
GetRolesForUser(id) == { a[2] : a \in { x \in assignments : x[1] = id } }
GetPermissionsForUser(id) == { g[2] : g \in { x \in grants : x[1] \in GetRolesForUser(id) } }

Init ==
  /\ people = {} /\ links = {} /\ lapsed = {} /\ nextId = 1
  /\ roles = {} /\ nextRole = 1 /\ grants = {} /\ assignments = {}
  /\ mails = {} /\ service = {} /\ ensured = "none"
  /\ tx = [c \in Clients |-> Idle]

\* What a client does once its transaction is open.
Proceed(c) ==
  \/ CreateFullyValidatedUser(c) \/ SendMail(c) \/ SendMailFails(c)
  \/ GrantScheduler(c) \/ CommitTx(c)

Next ==
  \/ \E c \in Clients, e \in Emails : Register(c, e) \/ LookFirst(c, "staff", e)
  \/ \E c \in Clients : LookFirst(c, "scheduler", SchedulerEmail)
  \/ \E c \in Clients : Proceed(c) \/ RollBack(c)
  \/ \E m \in mails : AccountActivation(m)
  \/ \E id \in 1 .. MaxPeople :
       DeleteExpired(id) \/ UpdateUserPassword(id) \/ CompleteReset(id) \/ DeletePerson(id)
  \/ \E id \in 1 .. MaxPeople, e \in Emails : SetUserInfo(id, e)

Spec == Init /\ [][Next]_vars

\* A transaction goes on by itself: a blocked INSERT returns when the other
\* transaction ends, and the pool hands nobody a connection mid-transaction.
FairSpec == Spec /\ \A c \in Clients : WF_vars(Proceed(c))
-----------------------------------------------------------------------------
PersonRows == [id : 1 .. MaxPeople, email : Emails, verified : BOOLEAN, password : {"own", "temporary"}]
OpenTx == [step : {"looked", "inserted", "done"}, kind : Kinds, email : Emails,
           row : SUBSET PersonRows, role : SUBSET Nat, grants : SUBSET (Nat \X Seeded)]

\* Rows, ids and open transactions have their shape.
TypeOK ==
  /\ people \subseteq PersonRows
  /\ links \subseteq 1 .. MaxPeople /\ lapsed \subseteq 1 .. MaxPeople
  /\ nextId \in 1 .. MaxPeople + 1
  /\ assignments \subseteq (1 .. MaxPeople) \X roles
  /\ grants \subseteq roles \X Seeded
  /\ service \subseteq { p.id : p \in people }
  /\ ensured \in {"none", "exists", "done", "failed"}
  /\ tx \in [Clients -> {Idle} \cup OpenTx]
  /\ roles \subseteq Nat /\ nextRole \in Nat

\* However registrations, staff and address changes overlap, no two people
\* have addresses that CITEXT takes for the same.
OneAccountPerAddress ==
  \A p, q \in people : Folded[p.email] = Folded[q.email] => p = q

\* While an account waits for its activation, a link that is stored for it went
\* to the address it has, whatever was rolled back before.  (A link may outlive a
\* password reset, which verifies the account, and then a change of address: by
\* then it activates nothing.)
LinksReachTheirAddress ==
  \A m \in mails, p \in people :
    m.kind = "register" /\ m.id = p.id /\ p.id \in links /\ ~p.verified => p.email = m.to

\* Who is not verified can still become so by the link, unless it was deleted
\* unused: no other is sent, and only a password reset lets its owner in.
UnverifiedHaveALink == \A p \in people : ~p.verified => p.id \in links \cup lapsed

\* The temporary password that staff hand out opens the account: it is verified
\* although nobody followed a link, and no link for it was ever sent.
TemporaryPasswordsWork ==
  \A p \in people : p.password = "temporary" =>
    p.verified /\ \A m \in mails : m.id = p.id => m.kind = "staff"

\* The service account the helper committed can do its work at once: the role
\* and its permissions come with the person or not at all.
SchedulerIsAuthorized ==
  \A id \in service : "manage_subscriptions" \in GetPermissionsForUser(id)

\* Helpers that run at the same time do not make the role twice, although
\* roles.name is not unique: the role is looked up only behind the address.
OneSchedulerRole ==
  /\ Cardinality(roles) <= 1
  /\ \A c, d \in Clients : tx[c] # Idle /\ tx[d] # Idle => Cardinality(roles \cup tx[c].role \cup tx[d].role) <= 1

\* Nobody waits for ever on another's INSERT.
TransactionsEnd == \A c \in Clients : tx[c].step # "idle" ~> tx[c].step = "idle"

\* EnsureSchedulerServiceAccount fails only on what others left or hold: a role
\* that outlived a deleted service account (service_account.h has operators rotate
\* the password that way), or an address taken since it was looked up.
EnsureFailsOnLeftovers ==
  [][ensured # "failed" /\ ensured' = "failed" => grants # {} \/ Taken(SchedulerEmail)]_vars

\* Every account has its own address, and what was mailed to that address lets
\* its owner in.
AccountsAreReachable ==
  /\ TypeOK
  /\ OneAccountPerAddress
  /\ LinksReachTheirAddress
  /\ UnverifiedHaveALink
  /\ TemporaryPasswordsWork

\* EnsureSchedulerServiceAccount: a service account in the table can do its
\* work, there is one role for it, and the helper fails only on what others
\* left.
SchedulerIsReady ==
  /\ []SchedulerIsAuthorized
  /\ []OneSchedulerRole
  /\ EnsureFailsOnLeftovers
=============================================================================
