----------------------------- MODULE Credentials -----------------------------
(***************************************************************************)
(* What proves who a person is, for one account: the password, sessions,   *)
(* remember-me device tokens, the e-mail verification link and the         *)
(* password reset link (business_logic/auth and the endpoints on top).     *)
(*                                                                         *)
(* Each request runs in transactions of a pool of MaxConnections           *)
(* connections at READ COMMITTED.  A conditional UPDATE with its row lock  *)
(* makes a whole transaction one step; the steps below are split where     *)
(* code reads without a lock and writes later: a login and a password      *)
(* change verify the old hash (a quarter of a second of Argon2id) before   *)
(* their first write.                                                      *)
(***************************************************************************)
EXTENDS Integers, FiniteSets

CONSTANTS
  Clients,         \* requests that can be in flight
  MaxConnections,  \* tenants.max_connections (default 1)
  AttemptLimit,    \* kAttemptLimit, and the verification's attempt limit
  LinkTtl,         \* how long a link lasts
  DeviceMax,       \* auth device token max duration
  SessionMax,      \* auth session max duration
  Start,           \* now_us() when the account was registered
  MaxTime,         \* bound: the latest time
  MaxSecrets,      \* bound: secrets issued (links and device tokens)
  MaxResets,       \* bound: completed resets
  MaxPasswords     \* bound: passwords the account ever had

ASSUME CredentialsAssumption ==
  /\ IsFiniteSet(Clients)
  /\ MaxConnections \in Nat \ {0} /\ AttemptLimit \in Nat \ {0}
  /\ LinkTtl \in Nat /\ DeviceMax \in Nat /\ SessionMax \in Nat
  /\ Start \in Nat /\ MaxTime \in Nat /\ MaxTime >= Start
  /\ MaxSecrets \in Nat \ {0} /\ MaxResets \in Nat /\ MaxPasswords \in Nat \ {0}

VARIABLES
  now,       \* now_us()
  password,  \* people.password_hash, as the version it is the hash of
  authored,  \* resets completed when the old password or link was proved
  verified,  \* people.email_verified_at is set
  sessions,  \* rows of sessions
  tokens,    \* rows of device_tokens
  link,      \* the email_verifications and password_reset_tokens rows
  op,        \* the transaction each client is in
  issued,    \* secrets issued so far; the last one is secret number issued
  uses,      \* how often each secret was accepted
  guesses,   \* how often each link was compared with a presented secret
  resets     \* completed resets

vars == <<now, password, authored, verified, sessions, tokens, link, op, issued,
          uses, guesses, resets>>

Secrets == 1..MaxSecrets
Kinds == {"verify", "reset"}
NoLink == [secret |-> 0, attempts |-> 0, expires |-> 0]
Idle == [pc |-> "idle", era |-> 0, remember |-> FALSE]

(***************************************************************************)
(* era: the number of completed resets when the password behind a session  *)
(* or token was proved.                                                    *)
(***************************************************************************)
SessionRows == [era : 0..MaxResets, expires : Nat]
TokenRows == [secret : Secrets, era : 0..MaxResets, expires : Nat]
LinkRows == [secret : Secrets \cup {0}, attempts : Nat, expires : Nat]
Transactions == [pc : {"idle", "checked", "signedIn", "proved"},
                 era : 0..MaxResets, remember : BOOLEAN]

TypeOK ==
  /\ now \in Start..MaxTime
  /\ password \in 1..MaxPasswords /\ authored \in 0..MaxResets
  /\ verified \in BOOLEAN
  /\ sessions \subseteq SessionRows
  /\ tokens \subseteq TokenRows
  /\ link \in [Kinds -> LinkRows]
  /\ op \in [Clients -> Transactions]
  /\ issued \in 0..MaxSecrets
  /\ uses \in [Secrets -> Nat] /\ guesses \in [Secrets -> Nat]
  /\ resets \in 0..MaxResets

(***************************************************************************)
(* PreliminaryRegisterPerson: the person, and a verification link.         *)
(***************************************************************************)
Init ==
  /\ now = Start
  /\ password = 1 /\ authored = 0 /\ verified = FALSE
  /\ sessions = {} /\ tokens = {}
  /\ link = [k \in Kinds |-> IF k = "verify"
       THEN [secret |-> 1, attempts |-> 0, expires |-> Start + LinkTtl] ELSE NoLink]
  /\ op = [c \in Clients |-> Idle]
  /\ issued = 1
  /\ uses = [s \in Secrets |-> 0] /\ guesses = [s \in Secrets |-> 0]
  /\ resets = 0

(***************************************************************************)
(* A transaction needs a connection; signedIn is between two transactions. *)
(***************************************************************************)
InTransaction == {c \in Clients : op[c].pc \in {"checked", "proved"}}
ConnectionFree == Cardinality(InTransaction) < MaxConnections
NewSecret == issued < MaxSecrets /\ issued' = issued + 1
Used(s) == uses' = [uses EXCEPT ![s] = @ + 1]

-----------------------------------------------------------------------------
(* Signing in *)

\* Mutant: the account need not be verified.
LoginPersonUnverified(c, remember) ==
  /\ op[c].pc = "idle" /\ ConnectionFree
  /\ op' = [op EXCEPT ![c] =
              [pc |-> "checked", era |-> resets, remember |-> remember]]
  /\ UNCHANGED <<now, password, authored, verified, sessions, tokens, link,
                 issued, uses, guesses, resets>>

(***************************************************************************)
(* LoginPerson finds the verified account and the presented password       *)
(* matches the hash it read.                                               *)
(***************************************************************************)
LoginPerson(c, remember) ==
  /\ op[c].pc = "idle" /\ ConnectionFree
  /\ verified
  /\ op' = [op EXCEPT ![c] =
              [pc |-> "checked", era |-> resets, remember |-> remember]]
  /\ UNCHANGED <<now, password, authored, verified, sessions, tokens, link,
                 issued, uses, guesses, resets>>

Session(era) == [era |-> era, expires |-> now + SessionMax]

(***************************************************************************)
(* DeviceTokenHelper computes the ABSOLUTE time now + max, and             *)
(* AddDeviceToken and ConsumeAndRotate add the current time once more.     *)
(***************************************************************************)
DeviceTokenHelper == now + DeviceMax
DeviceToken(secret, era) ==
  [secret |-> secret, era |-> era,
   expires |-> now + DeviceTokenHelper]

(***************************************************************************)
(* The rest of the login transaction: the lockout bookkeeping (module      *)
(* LoginLockout), CreateSessionToken, InitializeFromLogin and, for         *)
(* remember-me, CreateDeviceToken.                                         *)
(***************************************************************************)
CreateSessionToken(c) ==
  /\ op[c].pc = "checked" /\ ~op[c].remember
  /\ sessions' = sessions \cup {Session(op[c].era)}
  /\ op' = [op EXCEPT ![c] = Idle]
  /\ UNCHANGED <<now, password, authored, verified, tokens, link, issued, uses,
                 guesses, resets>>

CreateDeviceToken(c) ==
  /\ op[c].pc = "checked" /\ op[c].remember
  /\ sessions' = sessions \cup {Session(op[c].era)}
  /\ NewSecret
  /\ tokens' = tokens \cup {DeviceToken(issued', op[c].era)}
  /\ op' = [op EXCEPT ![c] = Idle]
  /\ UNCHANGED <<now, password, authored, verified, link, uses, guesses, resets>>

\* The transaction throws: nothing of it is kept.
RollBack(c) ==
  /\ op[c].pc \in {"checked", "proved"}
  /\ op' = [op EXCEPT ![c] = Idle]
  /\ UNCHANGED <<now, password, authored, verified, sessions, tokens, link,
                 issued, uses, guesses, resets>>

\* Mutant: the presented secret stays valid beside the new one.
RotateKeepingOld(t) == tokens' = tokens \cup {DeviceToken(issued', t.era)}

(***************************************************************************)
(* ConsumeAndRotate: one conditional UPDATE on secret, uuid and expiry.    *)
(***************************************************************************)
ConsumeAndRotate(t) ==
  tokens' = (tokens \ {t}) \cup {DeviceToken(issued', t.era)}

(***************************************************************************)
(* /api/remember: InitializeFromDeviceToken rotates the token and creates  *)
(* a session in one transaction.                                           *)
(***************************************************************************)
Remember(t) ==
  /\ ConnectionFree
  /\ now < t.expires
  /\ NewSecret
  /\ ConsumeAndRotate(t)
  /\ Used(t.secret)
  /\ sessions' = sessions \cup {Session(t.era)}
  /\ UNCHANGED <<now, password, authored, verified, link, op, guesses, resets>>

Usable(row) == now <= row.expires

(***************************************************************************)
(* /api/logout, with a session or device token cookie: LogoutPerson.       *)
(***************************************************************************)
LogoutPerson ==
  /\ ConnectionFree
  /\ tokens # {} \/ \E s \in sessions : Usable(s)
  /\ sessions' = {} /\ tokens' = {}
  /\ UNCHANGED <<now, password, authored, verified, link, op, issued, uses,
                 guesses, resets>>

-----------------------------------------------------------------------------
(* Changing the password: /api/update_user_password *)

\* EndpointAuthHelper::Initialize, a transaction of its own.
InitializeFromCookie(c) ==
  /\ op[c].pc = "idle" /\ ConnectionFree
  /\ \E s \in sessions : Usable(s)
  /\ op' = [op EXCEPT ![c].pc = "signedIn"]
  /\ UNCHANGED <<now, password, authored, verified, sessions, tokens, link,
                 issued, uses, guesses, resets>>

\* The old password was presented and matches the hash that was read.
VerifyPassword(c) ==
  /\ op[c].pc = "signedIn" /\ ConnectionFree
  /\ op' = [op EXCEPT ![c].pc = "proved", ![c].era = resets]
  /\ UNCHANGED <<now, password, authored, verified, sessions, tokens, link,
                 issued, uses, guesses, resets>>

\* A password that does not match ends the request.
VerifyPasswordFails(c) ==
  /\ op[c].pc = "signedIn" /\ ConnectionFree
  /\ op' = [op EXCEPT ![c] = Idle]
  /\ UNCHANGED <<now, password, authored, verified, sessions, tokens, link,
                 issued, uses, guesses, resets>>

\* UPDATE people ... WHERE id: whatever the hash is by now.
UpdatePassword(c) ==
  /\ op[c].pc = "proved"
  /\ password < MaxPasswords
  /\ password' = password + 1
  /\ authored' = op[c].era
  /\ op' = [op EXCEPT ![c] = Idle]
  /\ UNCHANGED <<now, verified, sessions, tokens, link, issued, uses, guesses,
                 resets>>

-----------------------------------------------------------------------------
(* The links *)

(***************************************************************************)
(* /api/forgot_password: ReplaceForPerson; a new request replaces the link.*)
(***************************************************************************)
RequestReset ==
  /\ ConnectionFree
  /\ NewSecret
  /\ link' = [link EXCEPT !["reset"] =
       [secret |-> issued', attempts |-> 0, expires |-> now + LinkTtl]]
  /\ UNCHANGED <<now, password, authored, verified, sessions, tokens, op, uses,
                 guesses, resets>>

\* Mutant: an expired or exhausted link can still be claimed.
ClaimAnyway(k) ==
  /\ link[k].secret # 0
  /\ guesses' = [guesses EXCEPT ![link[k].secret] = @ + 1]

(***************************************************************************)
(* IncrementAttempts / kClaimAttemptSql: a conditional UPDATE claims an    *)
(* attempt before the presented secret is compared.                        *)
(***************************************************************************)
Claim(k) ==
  /\ link[k].secret # 0
  /\ link[k].attempts < AttemptLimit
  /\ link[k].expires > now
  /\ guesses' = [guesses EXCEPT ![link[k].secret] = @ + 1]

\* Mutant: attempts counted the wrong way.
AttemptRefunded(k) == [link[k] EXCEPT !.attempts = @ - 1]

Attempted(k) == [link[k] EXCEPT !.attempts = @ + 1]

\* A wrong secret; the last one deletes a reset link, an exhausted
\* verification link stays and an admin alert is written.
WrongSecret(k) ==
  /\ ConnectionFree
  /\ Claim(k)
  /\ link' = [link EXCEPT ![k] =
       IF k = "reset" /\ link[k].attempts + 1 >= AttemptLimit
         THEN NoLink ELSE Attempted(k)]
  /\ UNCHANGED <<now, password, authored, verified, sessions, tokens, op, issued,
                 uses, resets>>

(***************************************************************************)
(* /api/verify with the right secret.  If a reset has verified the account *)
(* meanwhile, People::VerifyPersonEmail throws, which the endpoint catches *)
(* inside the transaction: the link is gone either way.                    *)
(***************************************************************************)
VerifyPersonEmail ==
  /\ ConnectionFree
  /\ Claim("verify")
  /\ Used(link["verify"].secret)
  /\ link' = [link EXCEPT !["verify"] = NoLink]
  /\ verified' = TRUE
  /\ UNCHANGED <<now, password, authored, sessions, tokens, op, issued, resets>>

\* Mutant: the reset keeps the remember-me tokens.
SignOutSessionsOnly == sessions' = {} /\ UNCHANGED tokens

\* LogoutPerson as CompleteReset calls it.
SignOutEverywhere == sessions' = {} /\ tokens' = {}

(***************************************************************************)
(* /api/reset_password with the right secret: verify, change the password, *)
(* delete the link, sign out everywhere.                                   *)
(***************************************************************************)
CompleteReset ==
  /\ ConnectionFree
  /\ Claim("reset")
  /\ password < MaxPasswords /\ resets < MaxResets
  /\ Used(link["reset"].secret)
  /\ verified' = TRUE
  /\ password' = password + 1
  /\ resets' = resets + 1
  /\ authored' = resets'
  /\ link' = [link EXCEPT !["reset"] = NoLink]
  /\ SignOutEverywhere
  /\ UNCHANGED <<now, op, issued>>

(***************************************************************************)
(* CleanupExpired, called by a scheduled job.                              *)
(***************************************************************************)
CleanupExpired ==
  /\ ConnectionFree
  /\ tokens' = {t \in tokens : t.expires >= now}
  /\ link' = [link EXCEPT !["verify"] =
                IF @.expires < now THEN NoLink ELSE @]
  /\ UNCHANGED <<now, password, authored, verified, sessions, op, issued, uses,
                 guesses, resets>>

Tick ==
  /\ now < MaxTime
  /\ now' = now + 1
  /\ UNCHANGED <<password, authored, verified, sessions, tokens, link, op,
                 issued, uses, guesses, resets>>

-----------------------------------------------------------------------------
Next ==
  \/ \E c \in Clients, remember \in BOOLEAN : LoginPerson(c, remember)
  \/ \E c \in Clients :
       \/ CreateSessionToken(c) \/ CreateDeviceToken(c) \/ RollBack(c)
       \/ InitializeFromCookie(c) \/ VerifyPassword(c) \/ VerifyPasswordFails(c)
       \/ UpdatePassword(c)
  \/ \E t \in tokens : Remember(t)
  \/ LogoutPerson
  \/ RequestReset \/ VerifyPersonEmail \/ CompleteReset
  \/ \E k \in Kinds : WrongSecret(k)
  \/ CleanupExpired
  \/ Tick

Spec == Init /\ [][Next]_vars

-----------------------------------------------------------------------------
(* Properties *)

(***************************************************************************)
(* password_reset_helper.cpp, CompleteReset: "Whoever knew the old         *)
(* password is signed out everywhere".  Every session and token stems from *)
(* a password proved after the last reset, and so does the password in     *)
(* force: nobody who only knew an older one has got back in.               *)
(***************************************************************************)
ResetSignsOutEverywhere ==
  /\ \A s \in sessions : s.era = resets
  /\ \A t \in tokens : t.era = resets
  /\ authored = resets

(***************************************************************************)
(* A link or device secret is accepted at most once, and one that was      *)
(* accepted is no longer stored anywhere: replaying a captured link or     *)
(* cookie never works, whatever happened in between.                       *)
(***************************************************************************)
SecretsSingleUse ==
  /\ \A s \in Secrets : uses[s] <= 1
  /\ \A t \in tokens : uses[t.secret] = 0
  /\ \A k \in Kinds : link[k].secret # 0 => uses[link[k].secret] = 0

(***************************************************************************)
(* A link is compared with at most AttemptLimit presented secrets over its *)
(* life, through replacement, cleanup and expiry.                          *)
(***************************************************************************)
GuessesBounded == \A s \in Secrets : guesses[s] <= AttemptLimit

(***************************************************************************)
(* Nobody is signed in to, remembered on, or logging in to an account      *)
(* whose e-mail address was never proved.                                  *)
(***************************************************************************)
VerifiedBeforeSignedIn ==
  sessions # {} \/ tokens # {} \/ InTransaction # {} => verified

(***************************************************************************)
(* Whoever is signed in or remembered proved the address and the password  *)
(* in force.                                                               *)
(***************************************************************************)
SignedInIsEntitled ==
  /\ ResetSignsOutEverywhere
  /\ VerifiedBeforeSignedIn

(***************************************************************************)
(* A secret is accepted once and guessed at a bounded number of times.     *)
(***************************************************************************)
SecretsAreSpent ==
  /\ TypeOK
  /\ SecretsSingleUse
  /\ GuessesBounded
=============================================================================
