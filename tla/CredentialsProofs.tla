-------------------------- MODULE CredentialsProofs --------------------------
(***************************************************************************)
(* Credentials for any number of requests in flight, any limits and any    *)
(* durations: a secret is accepted once and guessed at a bounded number of *)
(* times, nobody is signed in to an unverified account and, with the       *)
(* default of one connection, a reset signs everyone out for good.         *)
(***************************************************************************)
EXTENDS Credentials, FiniteSetTheorems, TLAPS

-----------------------------------------------------------------------------
(* The inductive invariants *)

\* A stored secret is stored once, in a token or in a link.
StoredOnce ==
  /\ \A t, u \in tokens : t.secret = u.secret => t = u
  /\ \A t \in tokens, k \in Kinds : link[k].secret # t.secret
  /\ link["verify"].secret = link["reset"].secret => link["verify"].secret = 0

\* Secrets are issued in order, and one not yet issued has no history.
IssuedInOrder ==
  /\ \A t \in tokens : t.secret <= issued
  /\ \A k \in Kinds : link[k].secret <= issued
  /\ \A s \in Secrets : s > issued => uses[s] = 0 /\ guesses[s] = 0

\* The row's attempts column is the number of comparisons made.
AttemptsCounted ==
  \A k \in Kinds : link[k].secret # 0 => guesses[link[k].secret] = link[k].attempts

SecretsInv ==
  /\ TypeOK
  /\ SecretsSingleUse
  /\ GuessesBounded
  /\ StoredOnce
  /\ IssuedInOrder
  /\ AttemptsCounted

\* A request that is past its first check found a verified account.
EntitledInv ==
  /\ sessions # {} \/ tokens # {} => verified
  /\ \A c \in Clients : op[c].pc # "idle" => verified

\* With one connection, no transaction with a proved password spans a reset.
EraInv ==
  /\ ResetSignsOutEverywhere
  /\ \A c \in InTransaction : op[c].era = resets

-----------------------------------------------------------------------------
(* Secrets *)

LEMMA IdleTyped == Idle \in Transactions
<1>1. 0 \in 0 .. MaxResets
  BY CredentialsAssumption
<1> QED
  BY <1>1 DEF Idle, Transactions

LEMMA NoLinkTyped == NoLink \in LinkRows /\ NoLink.secret = 0
  BY DEF NoLink, LinkRows

LEMMA KindsAre == \A k \in Kinds : k = "verify" \/ k = "reset"
  BY DEF Kinds

LEMMA SecretsInit == Init => SecretsInv
<1> SUFFICES ASSUME Init PROVE SecretsInv
  OBVIOUS
<1> DEFINE first == [secret |-> 1, attempts |-> 0, expires |-> Start + LinkTtl]
<1>1. 1 \in Secrets /\ first \in LinkRows /\ first.secret = 1 /\ first.attempts = 0
  BY CredentialsAssumption DEF Secrets, LinkRows
<1>2. link["verify"] = first /\ link["reset"] = NoLink /\ link \in [Kinds -> LinkRows]
  <2>1. link = [k \in Kinds |-> IF k = "verify" THEN first ELSE NoLink]
    BY DEF Init
  <2> HIDE DEF first
  <2> QED
    BY <1>1, <2>1, NoLinkTyped DEF Kinds
<1> HIDE DEF first
<1>3. op \in [Clients -> Transactions]
  BY IdleTyped DEF Init
<1>4. TypeOK
  <2>1. /\ now \in Start .. MaxTime /\ password \in 1 .. MaxPasswords /\ authored \in 0 .. MaxResets
        /\ issued \in 0 .. MaxSecrets /\ resets \in 0 .. MaxResets
    BY CredentialsAssumption DEF Init
  <2>2. uses \in [Secrets -> Nat] /\ guesses \in [Secrets -> Nat] /\ verified \in BOOLEAN
    BY DEF Init
  <2>3. sessions = {} /\ tokens = {}
    BY DEF Init
  <2> QED
    BY <1>2, <1>3, <2>1, <2>2, <2>3 DEF TypeOK
<1>5. /\ tokens = {} /\ issued = 1
      /\ \A s \in Secrets : uses[s] = 0 /\ guesses[s] = 0
  BY DEF Init
<1>6. link["verify"].secret = 1 /\ link["verify"].attempts = 0 /\ link["reset"].secret = 0
  BY <1>1, <1>2, NoLinkTyped
<1>7. SecretsSingleUse /\ GuessesBounded
  BY <1>1, <1>5, <1>6, KindsAre, CredentialsAssumption DEF SecretsSingleUse, GuessesBounded
<1>8. StoredOnce /\ IssuedInOrder /\ AttemptsCounted
  BY <1>1, <1>5, <1>6, KindsAre DEF StoredOnce, IssuedInOrder, AttemptsCounted
<1> QED
  BY <1>4, <1>7, <1>8 DEF SecretsInv

\* Steps that touch no secret.
LEMMA NoSecretTouched ==
  ASSUME SecretsInv, TypeOK', UNCHANGED <<link, issued, uses, guesses>>, tokens' \subseteq tokens
  PROVE  SecretsInv'
<1>1. SecretsSingleUse' /\ GuessesBounded'
  BY DEF SecretsInv, SecretsSingleUse, GuessesBounded
<1>2. StoredOnce' /\ IssuedInOrder' /\ AttemptsCounted'
  BY DEF SecretsInv, StoredOnce, IssuedInOrder, AttemptsCounted
<1> QED
  BY <1>1, <1>2 DEF SecretsInv

\* Steps of a request that write nothing but its own progress, and the clock.
LEMMA QuietSteps ==
  ASSUME SecretsInv, UNCHANGED <<verified, sessions, tokens, link, issued, uses, guesses, resets>>,
         now' \in Start .. MaxTime, password' \in 1 .. MaxPasswords, authored' \in 0 .. MaxResets,
         op' \in [Clients -> Transactions]
  PROVE  SecretsInv'
<1>1. TypeOK'
  BY DEF SecretsInv, TypeOK
<1> QED
  BY <1>1, NoSecretTouched

LEMMA OneTransaction ==
  ASSUME TypeOK, NEW c \in Clients, NEW q \in Transactions, op' = [op EXCEPT ![c] = q]
  PROVE  op' \in [Clients -> Transactions] /\ op'[c] = q /\ \A d \in Clients : d # c => op'[d] = op[d]
  BY DEF TypeOK

LEMMA LoginSecrets ==
  ASSUME SecretsInv, NEW c \in Clients, NEW remember \in BOOLEAN, LoginPerson(c, remember)
  PROVE  SecretsInv'
<1> DEFINE q == [pc |-> "checked", era |-> resets, remember |-> remember]
<1>1. q \in Transactions /\ op' = [op EXCEPT ![c] = q]
  BY DEF Transactions, SecretsInv, TypeOK, LoginPerson
<1> HIDE DEF q
<1>2. op' \in [Clients -> Transactions]
  BY <1>1, OneTransaction DEF SecretsInv
<1> QED
  BY <1>2, QuietSteps DEF LoginPerson, SecretsInv, TypeOK

LEMMA IdlingSecrets ==
  ASSUME SecretsInv, NEW c \in Clients, RollBack(c) \/ VerifyPasswordFails(c) \/ UpdatePassword(c)
  PROVE  SecretsInv'
<1>1. op' \in [Clients -> Transactions]
  BY IdleTyped, OneTransaction DEF SecretsInv, RollBack, VerifyPasswordFails, UpdatePassword
<1>2. CASE RollBack(c) \/ VerifyPasswordFails(c)
  BY <1>1, <1>2, QuietSteps DEF RollBack, VerifyPasswordFails, SecretsInv, TypeOK
<1>3. CASE UpdatePassword(c)
  <2>1. password' \in 1 .. MaxPasswords
    BY <1>3, CredentialsAssumption DEF UpdatePassword, SecretsInv, TypeOK
  <2>2. op[c] \in Transactions
    BY DEF SecretsInv, TypeOK
  <2>3. authored' \in 0 .. MaxResets
    BY <1>3, <2>2 DEF UpdatePassword, Transactions
  <2> QED
    BY <1>1, <1>3, <2>1, <2>3, QuietSteps DEF UpdatePassword, SecretsInv, TypeOK
<1> QED
  BY <1>2, <1>3

LEMMA CheckingSecrets ==
  ASSUME SecretsInv, NEW c \in Clients, InitializeFromCookie(c) \/ VerifyPassword(c)
  PROVE  SecretsInv'
<1>1. op[c] \in Transactions /\ resets \in 0 .. MaxResets
  BY DEF SecretsInv, TypeOK
<1>2. PICK q \in Transactions : op' = [op EXCEPT ![c] = q]
  <2>1. CASE InitializeFromCookie(c)
    <3>1. [op[c] EXCEPT !.pc = "signedIn"] \in Transactions
      BY <1>1 DEF Transactions
    <3> QED
      BY <2>1, <3>1 DEF InitializeFromCookie
  <2>2. CASE VerifyPassword(c)
    <3>1. [op[c] EXCEPT !.pc = "proved", !.era = resets] \in Transactions
      BY <1>1 DEF Transactions
    <3> QED
      BY <2>2, <3>1 DEF VerifyPassword
  <2> QED
    BY <2>1, <2>2
<1>3. op' \in [Clients -> Transactions]
  BY <1>2, OneTransaction DEF SecretsInv
<1> QED
  BY <1>3, QuietSteps DEF InitializeFromCookie, VerifyPassword, SecretsInv, TypeOK

LEMMA TickSecrets == SecretsInv /\ Tick => SecretsInv'
<1> SUFFICES ASSUME SecretsInv, Tick PROVE SecretsInv'
  OBVIOUS
<1>1. now' \in Start .. MaxTime
  BY CredentialsAssumption DEF Tick, SecretsInv, TypeOK
<1> QED
  BY <1>1, QuietSteps DEF Tick, SecretsInv, TypeOK

\* A secret just issued was never accepted or guessed at, and is stored nowhere.
LEMMA NewSecretFresh ==
  ASSUME SecretsInv, NewSecret
  PROVE  /\ issued' = issued + 1 /\ issued' \in Secrets /\ issued' \in 0 .. MaxSecrets
         /\ uses[issued'] = 0 /\ guesses[issued'] = 0
         /\ \A t \in tokens : t.secret < issued'
         /\ \A k \in Kinds : link[k].secret < issued'
<1>1. /\ issued' = issued + 1 /\ issued \in Nat /\ issued' > issued
      /\ issued' \in Secrets /\ issued' \in 0 .. MaxSecrets
  BY CredentialsAssumption DEF NewSecret, SecretsInv, TypeOK, Secrets
<1>2. \A t \in tokens : t.secret \in Nat /\ t.secret <= issued
  BY DEF SecretsInv, TypeOK, TokenRows, Secrets, IssuedInOrder
<1>3. ASSUME NEW k \in Kinds PROVE link[k].secret \in Nat /\ link[k].secret <= issued
  <2>1. link[k] \in LinkRows
    BY DEF SecretsInv, TypeOK
  <2> QED
    BY <2>1 DEF LinkRows, Secrets, SecretsInv, IssuedInOrder
<1> QED
  BY <1>1, <1>2, <1>3 DEF SecretsInv, IssuedInOrder

LEMMA SessionTyped ==
  ASSUME TypeOK, NEW era \in 0 .. MaxResets
  PROVE  Session(era) \in SessionRows /\ Session(era).era = era
<1>1. now + SessionMax \in Nat
  BY CredentialsAssumption DEF TypeOK
<1> QED
  BY <1>1 DEF Session, SessionRows

LEMMA TokenTyped ==
  ASSUME TypeOK, NEW era \in 0 .. MaxResets, NEW s \in Secrets
  PROVE  /\ DeviceToken(s, era) \in TokenRows
         /\ DeviceToken(s, era).secret = s /\ DeviceToken(s, era).era = era
<1>1. now + DeviceTokenHelper \in Nat
  BY CredentialsAssumption DEF TypeOK, DeviceTokenHelper
<1> QED
  BY <1>1 DEF DeviceToken, TokenRows

LEMMA CreateSessionSecrets ==
  ASSUME SecretsInv, NEW c \in Clients, CreateSessionToken(c)
  PROVE  SecretsInv'
<1>1. TypeOK /\ op[c] \in Transactions /\ op[c].era \in 0 .. MaxResets
  BY DEF SecretsInv, TypeOK, Transactions
<1>2. op' \in [Clients -> Transactions]
  BY <1>1, IdleTyped, OneTransaction DEF CreateSessionToken
<1>3. sessions' \subseteq SessionRows
  BY <1>1, SessionTyped DEF CreateSessionToken, TypeOK
<1>4. TypeOK'
  BY <1>1, <1>2, <1>3 DEF CreateSessionToken, TypeOK
<1> QED
  BY <1>4, NoSecretTouched DEF CreateSessionToken

\* A device token with a new secret is stored.
LEMMA TokenStored ==
  ASSUME SecretsInv, TypeOK', NewSecret, NEW n \in TokenRows, n.secret = issued',
         tokens' = tokens \cup {n}, UNCHANGED <<link, uses, guesses>>
  PROVE  SecretsInv'
<1>1. PICK s \in Secrets :
        /\ s = issued' /\ issued' = issued + 1
        /\ uses[s] = 0 /\ guesses[s] = 0
        /\ \A t \in tokens : t.secret < s
        /\ \A k \in Kinds : link[k].secret < s
  BY NewSecretFresh
<1>2. ASSUME NEW t \in tokens PROVE t.secret # s /\ t.secret <= issued'
  <2>1. t \in TokenRows
    BY DEF SecretsInv, TypeOK
  <2> QED
    BY <1>1, <1>2, <2>1 DEF TokenRows, Secrets
<1>3. ASSUME NEW k \in Kinds PROVE link[k].secret # s /\ link[k].secret <= issued'
  <2>1. link[k] \in LinkRows
    BY DEF SecretsInv, TypeOK
  <2> QED
    BY <1>1, <1>3, <2>1 DEF LinkRows, Secrets
<1>4. SecretsSingleUse' /\ GuessesBounded'
  BY <1>1 DEF SecretsInv, SecretsSingleUse, GuessesBounded
<1>5. StoredOnce'
  BY <1>1, <1>2, <1>3 DEF SecretsInv, StoredOnce
<1>6. \A x \in Secrets : x > issued' => x > issued
  BY <1>1 DEF Secrets, SecretsInv, TypeOK
<1>7. s <= s
  BY DEF Secrets
<1>8. IssuedInOrder'
  BY <1>1, <1>2, <1>3, <1>6, <1>7 DEF SecretsInv, IssuedInOrder
<1>9. AttemptsCounted'
  BY DEF SecretsInv, AttemptsCounted
<1> QED
  BY <1>4, <1>5, <1>8, <1>9 DEF SecretsInv

LEMMA CreateDeviceSecrets ==
  ASSUME SecretsInv, NEW c \in Clients, CreateDeviceToken(c)
  PROVE  SecretsInv'
<1>1. TypeOK /\ op[c] \in Transactions /\ op[c].era \in 0 .. MaxResets
  BY DEF SecretsInv, TypeOK, Transactions
<1>2. NewSecret /\ issued' \in Secrets /\ issued' \in 0 .. MaxSecrets
  BY NewSecretFresh DEF CreateDeviceToken
<1>3. PICK n \in TokenRows : n = DeviceToken(issued', op[c].era) /\ n.secret = issued'
  BY <1>1, <1>2, TokenTyped
<1>4. op' \in [Clients -> Transactions]
  BY <1>1, IdleTyped, OneTransaction DEF CreateDeviceToken
<1>5. sessions' \subseteq SessionRows
  BY <1>1, SessionTyped DEF CreateDeviceToken, TypeOK
<1>6. tokens' = tokens \cup {n} /\ tokens' \subseteq TokenRows
  BY <1>1, <1>3 DEF CreateDeviceToken, TypeOK
<1>7. TypeOK'
  BY <1>1, <1>2, <1>4, <1>5, <1>6 DEF CreateDeviceToken, TypeOK
<1> QED
  BY <1>2, <1>3, <1>6, <1>7, TokenStored DEF CreateDeviceToken

\* ConsumeAndRotate: the presented secret is spent, the new one never seen.
LEMMA RememberSecrets ==
  ASSUME SecretsInv, NEW t \in tokens, Remember(t)
  PROVE  SecretsInv'
<1>1. TypeOK /\ t \in TokenRows /\ t.secret \in Secrets /\ t.era \in 0 .. MaxResets
  BY DEF SecretsInv, TypeOK, TokenRows
<1>2. PICK s \in Secrets :
        /\ s = issued' /\ issued' = issued + 1 /\ issued' \in 0 .. MaxSecrets
        /\ uses[s] = 0 /\ guesses[s] = 0
        /\ \A u \in tokens : u.secret < s
        /\ \A k \in Kinds : link[k].secret < s
  BY NewSecretFresh DEF Remember
<1>3. PICK n \in TokenRows : n = DeviceToken(issued', t.era) /\ n.secret = s
  BY <1>1, <1>2, TokenTyped
<1>4. tokens' = (tokens \ {t}) \cup {n} /\ UNCHANGED <<link, guesses>>
  BY <1>3 DEF Remember, ConsumeAndRotate
<1>5. \A x \in Secrets : uses'[x] = IF x = t.secret THEN uses[x] + 1 ELSE uses[x]
  BY <1>1 DEF Remember, Used, TypeOK
<1>6. TypeOK'
  <2>1. sessions' \subseteq SessionRows
    BY <1>1, SessionTyped DEF Remember, TypeOK
  <2>2. uses' \in [Secrets -> Nat]
    BY <1>1 DEF Remember, Used, TypeOK
  <2>3. tokens' \subseteq TokenRows
    BY <1>1, <1>4 DEF TypeOK
  <2> QED
    BY <1>1, <1>2, <2>1, <2>2, <2>3 DEF Remember, TypeOK
<1>7. uses[t.secret] = 0
  BY DEF SecretsInv, SecretsSingleUse
<1>8. ASSUME NEW u \in tokens
      PROVE  /\ u.secret \in Secrets /\ u.secret # s /\ u.secret <= issued'
             /\ u # t => u.secret # t.secret
  <2>1. u.secret \in Secrets
    BY <1>1 DEF TypeOK, TokenRows
  <2> QED
    BY <1>2, <2>1 DEF SecretsInv, StoredOnce, Secrets
<1>9. ASSUME NEW k \in Kinds
      PROVE  /\ link[k].secret \in Secrets \cup {0} /\ link[k].secret # s
             /\ link[k].secret <= issued' /\ link[k].secret # t.secret
  <2>1. link[k] \in LinkRows
    BY <1>1 DEF TypeOK
  <2>2. link[k].secret \in Secrets \cup {0}
    BY <2>1 DEF LinkRows
  <2>3. link[k].secret # t.secret
    BY DEF SecretsInv, StoredOnce
  <2> QED
    BY <1>2, <2>2, <2>3 DEF Secrets
<1>10. t.secret # s
  BY <1>8
<1>11. SecretsSingleUse'
  <2>1. \A x \in Secrets : uses'[x] <= 1
    BY <1>5, <1>7 DEF SecretsInv, SecretsSingleUse
  <2>2. \A u \in tokens' : uses'[u.secret] = 0
    BY <1>2, <1>3, <1>4, <1>5, <1>8, <1>10 DEF SecretsInv, SecretsSingleUse
  <2>3. \A k \in Kinds : link'[k].secret # 0 => uses'[link'[k].secret] = 0
    BY <1>4, <1>5, <1>9 DEF SecretsInv, SecretsSingleUse
  <2> QED
    BY <2>1, <2>2, <2>3 DEF SecretsSingleUse
<1>12. StoredOnce'
  <2>1. \A u, w \in tokens' : u.secret = w.secret => u = w
    BY <1>3, <1>4, <1>8 DEF SecretsInv, StoredOnce
  <2>2. \A u \in tokens', k \in Kinds : link'[k].secret # u.secret
    BY <1>3, <1>4, <1>9 DEF SecretsInv, StoredOnce
  <2> QED
    BY <1>4, <2>1, <2>2 DEF SecretsInv, StoredOnce
<1>13. IssuedInOrder'
  <2>1. \A x \in Secrets : x > issued' => x > issued /\ x # t.secret
    BY <1>1, <1>2, <1>8 DEF Secrets, SecretsInv, TypeOK
  <2>2. s <= issued'
    BY <1>2 DEF Secrets
  <2>3. \A u \in tokens' : u.secret <= issued'
    BY <1>3, <1>4, <1>8, <2>2
  <2>4. \A x \in Secrets : x > issued' => uses'[x] = 0 /\ guesses'[x] = 0
    BY <1>4, <1>5, <2>1 DEF SecretsInv, IssuedInOrder
  <2> QED
    BY <1>4, <1>9, <2>3, <2>4 DEF IssuedInOrder
<1>14. AttemptsCounted' /\ GuessesBounded'
  BY <1>4 DEF SecretsInv, AttemptsCounted, GuessesBounded
<1> QED
  BY <1>6, <1>11, <1>12, <1>13, <1>14 DEF SecretsInv

LEMMA LogoutSecrets == SecretsInv /\ LogoutPerson => SecretsInv'
<1> SUFFICES ASSUME SecretsInv, LogoutPerson PROVE SecretsInv'
  OBVIOUS
<1>1. TypeOK'
  BY DEF SecretsInv, TypeOK, LogoutPerson
<1> QED
  BY <1>1, NoSecretTouched DEF LogoutPerson

\* ReplaceForPerson: a new reset link, whatever the old one was.
LEMMA RequestSecrets == SecretsInv /\ RequestReset => SecretsInv'
<1> SUFFICES ASSUME SecretsInv, RequestReset PROVE SecretsInv'
  OBVIOUS
<1>1. PICK s \in Secrets :
        /\ s = issued' /\ issued' = issued + 1 /\ issued' \in 0 .. MaxSecrets
        /\ uses[s] = 0 /\ guesses[s] = 0
        /\ \A u \in tokens : u.secret < s
        /\ \A k \in Kinds : link[k].secret < s
  BY NewSecretFresh DEF RequestReset
<1> DEFINE l == [secret |-> issued', attempts |-> 0, expires |-> now + LinkTtl]
<1>2. l \in LinkRows /\ l.secret = s /\ l.attempts = 0
  BY <1>1, CredentialsAssumption DEF LinkRows, SecretsInv, TypeOK
<1>3. /\ link' = [link EXCEPT !["reset"] = l]
      /\ UNCHANGED <<now, password, authored, verified, sessions, tokens, op, uses, guesses, resets>>
  BY DEF RequestReset
<1> HIDE DEF l
<1>4. /\ link' \in [Kinds -> LinkRows] /\ link'["reset"] = l
      /\ link'["verify"] = link["verify"] /\ link["verify"] \in LinkRows
  BY <1>2, <1>3 DEF SecretsInv, TypeOK, Kinds
<1>5. TypeOK'
  BY <1>1, <1>3, <1>4 DEF SecretsInv, TypeOK
<1>6. ASSUME NEW t \in tokens PROVE t.secret # s /\ t.secret <= issued'
  <2>1. t \in TokenRows
    BY DEF SecretsInv, TypeOK
  <2> QED
    BY <1>1, <1>6, <2>1 DEF TokenRows, Secrets
<1>7. link["verify"].secret # s /\ link["verify"].secret <= issued' /\ s # 0 /\ s <= issued'
  BY <1>1, <1>4 DEF LinkRows, Secrets, Kinds
<1>8. "verify" \in Kinds
  BY DEF Kinds
<1>9. SecretsSingleUse' /\ GuessesBounded'
  BY <1>1, <1>2, <1>3, <1>4, <1>8, KindsAre DEF SecretsInv, SecretsSingleUse, GuessesBounded
<1>10. StoredOnce'
  BY <1>2, <1>3, <1>4, <1>6, <1>7, <1>8, KindsAre DEF SecretsInv, StoredOnce
<1>11. \A x \in Secrets : x > issued' => x > issued
  BY <1>1 DEF Secrets, SecretsInv, TypeOK
<1>12. IssuedInOrder'
  BY <1>2, <1>3, <1>4, <1>6, <1>7, <1>11, KindsAre DEF SecretsInv, IssuedInOrder
<1>13. AttemptsCounted'
  BY <1>1, <1>2, <1>3, <1>4, <1>8, KindsAre DEF SecretsInv, AttemptsCounted
<1> QED
  BY <1>5, <1>9, <1>10, <1>12, <1>13 DEF SecretsInv

\* A presented secret is compared with a link, after the attempt is claimed.
LEMMA LinkTried ==
  ASSUME SecretsInv, TypeOK', NEW k \in Kinds, Claim(k), NEW l \in LinkRows,
         link' = [link EXCEPT ![k] = l], tokens' \subseteq tokens, UNCHANGED issued,
         \/ l.secret = 0 /\ UNCHANGED uses
         \/ l.secret = link[k].secret /\ l.attempts = link[k].attempts + 1 /\ UNCHANGED uses
         \/ l.secret = 0 /\ Used(link[k].secret)
  PROVE  SecretsInv'
<1>1. PICK s \in Secrets : s = link[k].secret /\ s # 0
  <2>1. link[k] \in LinkRows /\ link[k].secret # 0
    BY DEF SecretsInv, TypeOK, Claim
  <2> QED
    BY <2>1 DEF LinkRows
<1>2. /\ link[k].attempts \in Nat /\ link[k].attempts < AttemptLimit
      /\ guesses[s] = link[k].attempts /\ uses[s] = 0
  <2>1. link[k] \in LinkRows
    BY DEF SecretsInv, TypeOK
  <2> QED
    BY <1>1, <2>1 DEF LinkRows, Claim, SecretsInv, AttemptsCounted, SecretsSingleUse
<1>3. \A x \in Secrets : guesses'[x] = IF x = s THEN guesses[x] + 1 ELSE guesses[x]
  BY <1>1 DEF Claim, SecretsInv, TypeOK
<1>4. link'[k] = l /\ \A j \in Kinds : j # k => link'[j] = link[j]
  BY DEF SecretsInv, TypeOK
<1>5. ASSUME NEW j \in Kinds PROVE link[j].secret \in Secrets \cup {0} /\ (j # k => link[j].secret # s)
  <2>1. link[j] \in LinkRows
    BY DEF SecretsInv, TypeOK
  <2> QED
    BY <1>1, <1>5, <2>1, KindsAre DEF LinkRows, SecretsInv, StoredOnce
<1>6. ASSUME NEW t \in tokens PROVE t.secret \in Secrets /\ t.secret # s
  <2>1. t \in TokenRows
    BY DEF SecretsInv, TypeOK
  <2> QED
    BY <1>1, <1>6, <2>1 DEF TokenRows, SecretsInv, StoredOnce
<1>7. /\ \A x \in Secrets : x # s => uses'[x] = uses[x]
      /\ uses'[s] \in {0, 1}
      /\ l.secret # 0 => uses'[s] = 0
  BY <1>1, <1>2 DEF Used, SecretsInv, TypeOK
<1>8. GuessesBounded'
  <2>1. guesses[s] + 1 <= AttemptLimit
    BY <1>2, CredentialsAssumption
  <2> QED
    BY <1>3, <2>1 DEF SecretsInv, GuessesBounded
<1>9. SecretsSingleUse'
  <2>1. \A x \in Secrets : uses'[x] <= 1
    BY <1>7 DEF SecretsInv, SecretsSingleUse
  <2>2. \A t \in tokens' : uses'[t.secret] = 0
    BY <1>6, <1>7 DEF SecretsInv, SecretsSingleUse
  <2>3. ASSUME NEW j \in Kinds, link'[j].secret # 0 PROVE uses'[link'[j].secret] = 0
    <3>1. CASE j = k
      BY <1>1, <1>4, <1>7, <2>3, <3>1
    <3>2. CASE j # k
      BY <1>4, <1>5, <1>7, <2>3, <3>2 DEF SecretsInv, SecretsSingleUse
    <3> QED
      BY <3>1, <3>2
  <2> QED
    BY <2>1, <2>2, <2>3 DEF SecretsSingleUse
<1>10. \A j \in Kinds : link'[j].secret = link[j].secret \/ link'[j].secret = 0
  BY <1>4
<1>11. StoredOnce'
  <2>1. \A t \in tokens', j \in Kinds : link'[j].secret # t.secret
    <3>1. 0 \notin Secrets
      BY DEF Secrets
    <3> QED
      BY <1>6, <1>10, <3>1 DEF SecretsInv, StoredOnce
  <2>2. "verify" \in Kinds /\ "reset" \in Kinds
    BY DEF Kinds
  <2> QED
    BY <1>10, <2>1, <2>2 DEF SecretsInv, StoredOnce
<1>12. IssuedInOrder'
  <2>1. ASSUME NEW x \in Secrets, x > issued PROVE x # s
    BY <1>1, <2>1 DEF SecretsInv, IssuedInOrder, Secrets, TypeOK
  <2>2. 0 <= issued
    BY DEF SecretsInv, TypeOK
  <2> QED
    BY <1>3, <1>7, <1>10, <2>1, <2>2 DEF SecretsInv, IssuedInOrder
<1>13. AttemptsCounted'
  <2> SUFFICES ASSUME NEW j \in Kinds, link'[j].secret # 0
               PROVE  guesses'[link'[j].secret] = link'[j].attempts
    BY DEF AttemptsCounted
  <2>1. CASE j = k
    BY <1>1, <1>2, <1>3, <1>4, <2>1
  <2>2. CASE j # k
    BY <1>3, <1>4, <1>5, <2>2 DEF SecretsInv, AttemptsCounted
  <2> QED
    BY <2>1, <2>2
<1> QED
  BY <1>8, <1>9, <1>11, <1>12, <1>13 DEF SecretsInv

LEMMA ClaimTyped ==
  ASSUME TypeOK, NEW k \in Kinds, Claim(k), NEW l \in LinkRows, link' = [link EXCEPT ![k] = l]
  PROVE  /\ guesses' \in [Secrets -> Nat] /\ link' \in [Kinds -> LinkRows]
         /\ Used(link[k].secret) => uses' \in [Secrets -> Nat]
<1>1. link[k] \in LinkRows /\ link[k].secret # 0
  BY DEF TypeOK, Claim
<1>2. link[k].secret \in Secrets
  BY <1>1 DEF LinkRows
<1> QED
  BY <1>2 DEF Claim, Used, TypeOK

LEMMA WrongSecrets ==
  ASSUME SecretsInv, NEW k \in Kinds, WrongSecret(k)
  PROVE  SecretsInv'
<1>1. TypeOK /\ Claim(k) /\ link[k] \in LinkRows
  BY DEF SecretsInv, TypeOK, WrongSecret
<1>2. /\ Attempted(k) \in LinkRows /\ Attempted(k).secret = link[k].secret
      /\ Attempted(k).attempts = link[k].attempts + 1
  BY <1>1 DEF Attempted, LinkRows
<1>3. PICK l \in LinkRows :
        /\ link' = [link EXCEPT ![k] = l]
        /\ l = NoLink \/ l = Attempted(k)
  BY <1>2, NoLinkTyped DEF WrongSecret
<1>4. TypeOK'
  BY <1>1, <1>3, ClaimTyped DEF WrongSecret, TypeOK
<1> QED
  BY <1>1, <1>2, <1>3, <1>4, NoLinkTyped, LinkTried DEF WrongSecret

LEMMA VerifySecrets == SecretsInv /\ VerifyPersonEmail => SecretsInv'
<1> SUFFICES ASSUME SecretsInv, VerifyPersonEmail PROVE SecretsInv'
  OBVIOUS
<1>1. PICK k \in Kinds : k = "verify"
  BY DEF Kinds
<1>2. TypeOK /\ Claim(k) /\ Used(link[k].secret) /\ link' = [link EXCEPT ![k] = NoLink]
  BY <1>1 DEF SecretsInv, VerifyPersonEmail
<1>3. TypeOK'
  BY <1>2, NoLinkTyped, ClaimTyped DEF VerifyPersonEmail, TypeOK
<1> QED
  BY <1>2, <1>3, NoLinkTyped, LinkTried DEF VerifyPersonEmail

LEMMA ResetSecrets == SecretsInv /\ CompleteReset => SecretsInv'
<1> SUFFICES ASSUME SecretsInv, CompleteReset PROVE SecretsInv'
  OBVIOUS
<1>1. PICK k \in Kinds : k = "reset"
  BY DEF Kinds
<1>2. TypeOK /\ Claim(k) /\ Used(link[k].secret) /\ link' = [link EXCEPT ![k] = NoLink]
  BY <1>1 DEF SecretsInv, CompleteReset
<1>3. /\ guesses' \in [Secrets -> Nat] /\ link' \in [Kinds -> LinkRows]
      /\ uses' \in [Secrets -> Nat]
  BY <1>2, NoLinkTyped, ClaimTyped
<1>4. password' \in 1 .. MaxPasswords /\ resets' \in 0 .. MaxResets /\ authored' \in 0 .. MaxResets
  BY <1>2, CredentialsAssumption DEF CompleteReset, TypeOK
<1>5. sessions' = {} /\ tokens' = {} /\ verified' = TRUE
  BY DEF CompleteReset, SignOutEverywhere
<1>6. TypeOK'
  BY <1>2, <1>3, <1>4, <1>5 DEF CompleteReset, TypeOK
<1> QED
  BY <1>2, <1>5, <1>6, NoLinkTyped, LinkTried DEF CompleteReset

\* Expired rows go; a secret that goes was not accepted.
LEMMA CleanupSecrets == SecretsInv /\ CleanupExpired => SecretsInv'
<1> SUFFICES ASSUME SecretsInv, CleanupExpired PROVE SecretsInv'
  OBVIOUS
<1>1. PICK l \in LinkRows : link' = [link EXCEPT !["verify"] = l] /\ l \in {NoLink, link["verify"]}
  <2>1. link["verify"] \in LinkRows
    BY DEF SecretsInv, TypeOK, Kinds
  <2> QED
    BY <2>1, NoLinkTyped DEF CleanupExpired
<1>2. /\ link' \in [Kinds -> LinkRows]
      /\ \A j \in Kinds : link'[j] = link[j] \/ link'[j] = NoLink
  BY <1>1 DEF SecretsInv, TypeOK, Kinds
<1>3. tokens' \subseteq tokens /\ UNCHANGED <<issued, uses, guesses>>
  BY DEF CleanupExpired
<1>4. TypeOK'
  BY <1>2, <1>3 DEF CleanupExpired, SecretsInv, TypeOK
<1>5. SecretsSingleUse' /\ GuessesBounded'
  BY <1>2, <1>3, NoLinkTyped DEF SecretsInv, SecretsSingleUse, GuessesBounded
<1>6. ASSUME NEW t \in tokens PROVE t.secret # 0
  <2>1. t \in TokenRows
    BY DEF SecretsInv, TypeOK
  <2> QED
    BY <2>1 DEF TokenRows, Secrets
<1>7. "verify" \in Kinds /\ "reset" \in Kinds /\ 0 <= issued
  BY DEF Kinds, SecretsInv, TypeOK
<1>8. StoredOnce' /\ IssuedInOrder' /\ AttemptsCounted'
  BY <1>2, <1>3, <1>6, <1>7, NoLinkTyped DEF SecretsInv, StoredOnce, IssuedInOrder, AttemptsCounted
<1> QED
  BY <1>4, <1>5, <1>8 DEF SecretsInv

LEMMA SecretsStep ==
  ASSUME SecretsInv, [Next]_vars
  PROVE  SecretsInv'
<1>1. CASE UNCHANGED vars
  <2>1. TypeOK'
    BY <1>1 DEF SecretsInv, TypeOK, vars
  <2> QED
    BY <1>1, <2>1, NoSecretTouched DEF vars
<1> QED
  BY <1>1, LoginSecrets, CreateSessionSecrets, CreateDeviceSecrets, IdlingSecrets, CheckingSecrets,
     RememberSecrets, LogoutSecrets, RequestSecrets, WrongSecrets, VerifySecrets, ResetSecrets,
     CleanupSecrets, TickSecrets
  DEF Next

LEMMA SecretsAlways == Spec => []SecretsInv
<1>1. Init => SecretsInv
  BY SecretsInit
<1>2. SecretsInv /\ [Next]_vars => SecretsInv'
  BY SecretsStep
<1> QED
  BY <1>1, <1>2, PTL DEF Spec

-----------------------------------------------------------------------------
(* Who is signed in *)

\* What each step does to the clients' transactions.
LEMMA TransactionSteps ==
  ASSUME TypeOK, NEW c \in Clients
  PROVE  /\ \A remember \in BOOLEAN : LoginPerson(c, remember) =>
              op'[c].pc = "checked" /\ op'[c].era = resets
         /\ CreateSessionToken(c) \/ CreateDeviceToken(c) \/ RollBack(c)
            \/ VerifyPasswordFails(c) \/ UpdatePassword(c) => op'[c].pc = "idle"
         /\ InitializeFromCookie(c) => op'[c].pc = "signedIn"
         /\ VerifyPassword(c) => op'[c].pc = "proved" /\ op'[c].era = resets
         /\ (\E remember \in BOOLEAN : LoginPerson(c, remember))
            \/ CreateSessionToken(c) \/ CreateDeviceToken(c) \/ RollBack(c)
            \/ InitializeFromCookie(c) \/ VerifyPassword(c)
            \/ VerifyPasswordFails(c) \/ UpdatePassword(c)
            => \A d \in Clients : d # c => op'[d] = op[d]
<1>1. op \in [Clients -> Transactions] /\ op[c] \in Transactions
  BY DEF TypeOK
<1>2. ASSUME NEW remember \in BOOLEAN, LoginPerson(c, remember)
      PROVE  op'[c].pc = "checked" /\ op'[c].era = resets /\ \A d \in Clients : d # c => op'[d] = op[d]
  BY <1>1, <1>2 DEF LoginPerson
<1>3. ASSUME op' = [op EXCEPT ![c] = Idle]
      PROVE  op'[c].pc = "idle" /\ \A d \in Clients : d # c => op'[d] = op[d]
  BY <1>1, <1>3 DEF Idle
<1>4. ASSUME InitializeFromCookie(c)
      PROVE  op'[c].pc = "signedIn" /\ \A d \in Clients : d # c => op'[d] = op[d]
  BY <1>1, <1>4 DEF InitializeFromCookie, Transactions
<1>5. ASSUME VerifyPassword(c)
      PROVE  op'[c].pc = "proved" /\ op'[c].era = resets /\ \A d \in Clients : d # c => op'[d] = op[d]
  BY <1>1, <1>5 DEF VerifyPassword, Transactions
<1> QED
  BY <1>2, <1>3, <1>4, <1>5
  DEF CreateSessionToken, CreateDeviceToken, RollBack, VerifyPasswordFails, UpdatePassword

LEMMA EntitledStep ==
  ASSUME TypeOK, EntitledInv, [Next]_vars
  PROVE  EntitledInv'
<1>1. ASSUME NEW c \in Clients, NEW remember \in BOOLEAN, LoginPerson(c, remember)
      PROVE  EntitledInv'
  BY <1>1, TransactionSteps DEF LoginPerson, EntitledInv
<1>2. ASSUME NEW c \in Clients, CreateSessionToken(c) \/ CreateDeviceToken(c) PROVE EntitledInv'
  <2>1. verified /\ verified' = verified
    BY <1>2 DEF CreateSessionToken, CreateDeviceToken, EntitledInv
  <2> QED
    BY <2>1 DEF EntitledInv
<1>3. ASSUME NEW c \in Clients, RollBack(c) \/ VerifyPasswordFails(c) \/ UpdatePassword(c)
      PROVE  EntitledInv'
  BY <1>3, TransactionSteps DEF RollBack, VerifyPasswordFails, UpdatePassword, EntitledInv
<1>4. ASSUME NEW c \in Clients, InitializeFromCookie(c) \/ VerifyPassword(c) PROVE EntitledInv'
  <2>1. verified /\ verified' = verified
    BY <1>4 DEF InitializeFromCookie, VerifyPassword, EntitledInv
  <2> QED
    BY <2>1 DEF EntitledInv
<1>5. ASSUME NEW t \in tokens, Remember(t) PROVE EntitledInv'
  <2>1. verified /\ verified' = verified
    BY <1>5 DEF Remember, EntitledInv
  <2> QED
    BY <2>1 DEF EntitledInv
<1>6. CASE LogoutPerson
  BY <1>6 DEF LogoutPerson, EntitledInv
<1>7. CASE VerifyPersonEmail \/ CompleteReset
  BY <1>7 DEF VerifyPersonEmail, CompleteReset, EntitledInv
<1>8. CASE RequestReset \/ (\E k \in Kinds : WrongSecret(k)) \/ Tick
  BY <1>8 DEF RequestReset, WrongSecret, Tick, EntitledInv
<1>9. CASE CleanupExpired
  BY <1>9 DEF CleanupExpired, EntitledInv
<1>10. CASE UNCHANGED vars
  BY <1>10 DEF vars, EntitledInv
<1> QED
  BY <1>1, <1>2, <1>3, <1>4, <1>5, <1>6, <1>7, <1>8, <1>9, <1>10 DEF Next

\* With one connection, a free connection means that no transaction is open.
LEMMA OneConnection ==
  ASSUME MaxConnections = 1, ConnectionFree
  PROVE  InTransaction = {}
<1>1. InTransaction \in SUBSET Clients
  BY DEF InTransaction
<1>2. IsFiniteSet(InTransaction)
  BY <1>1, CredentialsAssumption, FS_Subset
<1>3. Cardinality(InTransaction) \in Nat /\ Cardinality(InTransaction) < 1
  BY <1>2, FS_CardinalityType DEF ConnectionFree
<1> QED
  BY <1>2, <1>3, FS_EmptySet

LEMMA EraStep ==
  ASSUME MaxConnections = 1, TypeOK, EraInv, [Next]_vars
  PROVE  EraInv'
<1> USE DEF EraInv, ResetSignsOutEverywhere
<1>1. ASSUME NEW c \in Clients, NEW remember \in BOOLEAN, LoginPerson(c, remember) PROVE EraInv'
  BY <1>1, TransactionSteps DEF LoginPerson, InTransaction
<1>2. ASSUME NEW c \in Clients, op[c].pc = "checked"
      PROVE  op[c].era = resets /\ op[c].era \in 0 .. MaxResets
  <2>1. c \in InTransaction
    BY <1>2 DEF InTransaction
  <2> QED
    BY <2>1 DEF TypeOK
<1>3. ASSUME NEW c \in Clients, CreateSessionToken(c) PROVE EraInv'
  <2>1. \A d \in InTransaction' : d \in InTransaction /\ op'[d] = op[d]
    BY <1>3, TransactionSteps DEF InTransaction
  <2>2. PICK n \in SessionRows : n = Session(op[c].era) /\ n.era = op[c].era
    BY <1>2, <1>3, SessionTyped DEF CreateSessionToken
  <2> QED
    BY <1>2, <1>3, <2>1, <2>2 DEF CreateSessionToken
<1>4. ASSUME NEW c \in Clients, CreateDeviceToken(c) PROVE EraInv'
  <2>1. \A d \in InTransaction' : d \in InTransaction /\ op'[d] = op[d]
    BY <1>4, TransactionSteps DEF InTransaction
  <2>2. PICK n \in SessionRows : n = Session(op[c].era) /\ n.era = op[c].era
    BY <1>2, <1>4, SessionTyped DEF CreateDeviceToken
  <2>3. issued' \in Secrets
    BY <1>4, CredentialsAssumption DEF CreateDeviceToken, NewSecret, TypeOK, Secrets
  <2>4. PICK t \in TokenRows : t = DeviceToken(issued', op[c].era) /\ t.era = op[c].era
    BY <1>2, <1>4, <2>3, TokenTyped DEF CreateDeviceToken
  <2> QED
    BY <1>2, <1>4, <2>1, <2>2, <2>4 DEF CreateDeviceToken
<1>5. ASSUME NEW c \in Clients, RollBack(c) \/ VerifyPasswordFails(c) PROVE EraInv'
  BY <1>5, TransactionSteps DEF RollBack, VerifyPasswordFails, InTransaction
<1>6. ASSUME NEW c \in Clients, InitializeFromCookie(c) \/ VerifyPassword(c) PROVE EraInv'
  BY <1>6, TransactionSteps DEF InitializeFromCookie, VerifyPassword, InTransaction
<1>7. ASSUME NEW c \in Clients, UpdatePassword(c) PROVE EraInv'
  <2>1. \A d \in InTransaction' : d \in InTransaction /\ op'[d] = op[d]
    BY <1>7, TransactionSteps DEF InTransaction
  <2>2. c \in InTransaction
    BY <1>7 DEF UpdatePassword, InTransaction
  <2> QED
    BY <1>7, <2>1, <2>2 DEF UpdatePassword
<1>8. ASSUME NEW t \in tokens, Remember(t) PROVE EraInv'
  <2>0. t \in TokenRows /\ t.era \in 0 .. MaxResets
    BY DEF TypeOK, TokenRows
  <2>1. InTransaction' = InTransaction /\ op' = op
    BY <1>8 DEF Remember, InTransaction
  <2>2. PICK n \in SessionRows : n = Session(t.era) /\ n.era = t.era
    BY <2>0, SessionTyped
  <2>3. issued' \in Secrets
    BY <1>8, CredentialsAssumption DEF Remember, NewSecret, TypeOK, Secrets
  <2>4. PICK u \in TokenRows : u = DeviceToken(issued', t.era) /\ u.era = t.era
    BY <2>0, <2>3, TokenTyped
  <2> QED
    BY <1>8, <2>1, <2>2, <2>4 DEF Remember, ConsumeAndRotate
<1>9. CASE LogoutPerson
  BY <1>9 DEF LogoutPerson, InTransaction
<1>10. CASE CompleteReset
  <2>1. InTransaction' = {}
    BY <1>10, OneConnection DEF CompleteReset, InTransaction
  <2> QED
    BY <1>10, <2>1 DEF CompleteReset, SignOutEverywhere
<1>11. CASE RequestReset \/ VerifyPersonEmail \/ (\E k \in Kinds : WrongSecret(k)) \/ Tick
  BY <1>11 DEF RequestReset, VerifyPersonEmail, WrongSecret, Tick, InTransaction
<1>12. CASE CleanupExpired
  BY <1>12 DEF CleanupExpired, InTransaction
<1>13. CASE UNCHANGED vars
  BY <1>13 DEF vars, InTransaction
<1> QED
  BY <1>1, <1>3, <1>4, <1>5, <1>6, <1>7, <1>8, <1>9, <1>10, <1>11, <1>12, <1>13 DEF Next

-----------------------------------------------------------------------------
(* The theorems *)

(***************************************************************************)
(* ConsumeAndRotate, VerifyPersonEmail and CompleteReset accept a device   *)
(* or link secret at most once, and a secret that was accepted is stored   *)
(* nowhere; IncrementAttempts bounds how often a link is compared.         *)
(***************************************************************************)
THEOREM SecretsAlwaysSpent == Spec => []SecretsAreSpent
<1>1. SecretsInv => SecretsAreSpent
  BY DEF SecretsInv, SecretsAreSpent
<1> QED
  BY <1>1, SecretsAlways, PTL

(***************************************************************************)
(* LoginPerson requires a verified address: there is no session, device    *)
(* token or request under way for an account that was never verified.      *)
(***************************************************************************)
THEOREM NoUnverifiedSignIn == Spec => []VerifiedBeforeSignedIn
<1>1. Init => EntitledInv
  BY DEF Init, EntitledInv, Idle
<1>2. SecretsInv /\ EntitledInv /\ [Next]_vars => EntitledInv'
  BY EntitledStep DEF SecretsInv
<1>3. EntitledInv => VerifiedBeforeSignedIn
  BY DEF EntitledInv, VerifiedBeforeSignedIn, InTransaction
<1> QED
  BY <1>1, <1>2, <1>3, SecretsAlways, PTL DEF Spec

(***************************************************************************)
(* CompleteReset: with tenants.max_connections at its default of 1, a      *)
(* reset signs everyone out for good.  A login or a password change that   *)
(* verified the old password holds the one connection until it ends, so it *)
(* never straddles a reset.                                                *)
(***************************************************************************)
THEOREM SignedInAlwaysEntitled == MaxConnections = 1 => (Spec => []SignedInIsEntitled)
<1> SUFFICES ASSUME MaxConnections = 1 PROVE Spec => []SignedInIsEntitled
  OBVIOUS
<1>1. Init => EraInv
  BY DEF Init, EraInv, ResetSignsOutEverywhere, InTransaction, Idle
<1>2. SecretsInv /\ EraInv /\ [Next]_vars => EraInv'
  BY EraStep DEF SecretsInv
<1>3. EraInv /\ VerifiedBeforeSignedIn => SignedInIsEntitled
  BY DEF EraInv, SignedInIsEntitled
<1> QED
  BY <1>1, <1>2, <1>3, SecretsAlways, NoUnverifiedSignIn, PTL DEF Spec
=============================================================================
