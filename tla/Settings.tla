------------------------------ MODULE Settings ------------------------------
(***************************************************************************)
(* The settings of a server: the rows of config_secrets, sealed under a    *)
(* master key, the transactions that rewrite them (the settings endpoint,  *)
(* the sealing pass of a starting server, an operator editing the table),  *)
(* the start of a server that reads its mode from them, and what a request *)
(* takes from them: the domain of the cookies, the mail password.          *)
(* Transactions run under READ COMMITTED, statement by statement.          *)
(***************************************************************************)
EXTENDS Integers, FiniteSets

CONSTANTS
  Servers,      \* processes of one deployment
  Editors,      \* connections of settings requests and of operators
  Slots,        \* registered site_* slots
  Registry,     \* their order in the registry
  Tokens,       \* those of them that are theme tokens: no default, no row at first
  Envs,         \* environments a server may be started in
  HeapOrders,   \* orders in which an unordered SELECT may return the rows
  MaxOps        \* bound: starts that get past Initialize, edits and logins begun

Production == "server_production_mode"
Address == "website_address"
Password == "mail_app_password"
Names == {Production, Address, Password} \cup Slots

\* The orders of a set: each element has its position.
Orders(S) == {f \in [S -> 1..Cardinality(S)] : \A m, n \in S : f[m] = f[n] => m = n}

Plain == "plain"
Unset == "unset"
DevKey == "dev"
Failed == "failed"      \* a lookup that throws
Prefixed == "v1:typed"  \* a text somebody typed that begins with the version prefix
Sealed == "v1:sealed"   \* the text of a sealed value taken for a plain one

\* A variable has its own name and an older one, read only if the first is unset:
\* set to the empty string, it hides the older one.
GetEnvWithFallback(var) == IF var.primary # Unset THEN var.primary ELSE var.legacy

\* A deployment has one master key, "A"; an environment may also lack it, or hold
\* something that is not 32 bytes.
ASSUME SettingsAssumption ==
  /\ Servers \cap Editors = {}
  /\ IsFiniteSet(Slots) /\ Slots \cap {Production, Address, Password} = {}
  /\ Tokens \subseteq Slots
  /\ Registry \in Orders(Slots) /\ HeapOrders \subseteq Orders(Names)
  /\ Envs \subseteq [{"key", "origin", "proxy"} -> [primary : STRING, legacy : STRING]]
  /\ \A env \in Envs : GetEnvWithFallback(env.key) \in {Unset, "", "bad", "A"}
  /\ MaxOps \in Nat

\* The values an operator may type for a name; a slot is saved by the endpoint.
Typed == [n \in Names |->
            CASE n = Production -> {"true", "false"}
              [] n = Address    -> {"w2", Prefixed}
              [] n = Password   -> {"pw", Prefixed}
              [] OTHER          -> {"a"}]
Texts == (UNION {Typed[n] : n \in Names}) \cup {"", "w1", Sealed}

Stored == [key : {Plain, DevKey, "A"}, text : Texts]
Missing == [key |-> "missing", text |-> ""]
Untouched == [key |-> "untouched", text |-> ""]

VARIABLES
  secrets,  \* config_secrets as committed: name -> stored value
  tx,       \* the transaction of each server and editor
  srv,      \* each server process
  jar,      \* the cookies of one browser: name and domain
  visit,    \* its login or logout under way, and the cookies of the answer so far
  ops,
  ghost     \* what the properties remember

settingsVars == <<secrets, tx, srv, jar, visit, ops, ghost>>

Writers == Servers \cup Editors
NoRows == [n \in Names |-> Untouched]
Unordered == [n \in Names |-> 0]
NoTx == [op |-> "none", todo |-> NoRows, order |-> Unordered, at |-> "none",
         wait |-> "no", own |-> NoRows, overlap |-> {}]
Down == [phase |-> "down", key |-> Plain, prod |-> FALSE, origin |-> FALSE,
         proxy |-> FALSE, mail |-> ""]
NoVisit == [op |-> "none"]
Counted == ops < MaxOps /\ ops' = ops + 1

----------------------------------------------------------------------------
\* SecretsAtRest

IsEncrypted(s) == s.key # Plain \/ s.text \in {Prefixed, Sealed}

Encrypt(k, text) == [key |-> k, text |-> text]

\* Mutant: a value that cannot be opened is returned as it is stored.
DecryptLenient(k, s) == IF ~IsEncrypted(s) \/ s.key = k THEN s.text
                        ELSE IF s.key = Plain THEN s.text ELSE Sealed

\* A value without the prefix is legacy plaintext and is returned as it is; one
\* with it must have been sealed under this key.
Decrypt(k, s) == IF ~IsEncrypted(s) THEN s.text
                 ELSE IF s.key = k THEN s.text ELSE Failed

\* Empty is the same as unset.
EnvVarSetNonEmpty(var) == GetEnvWithFallback(var) \notin {Unset, ""}
ProxyTrustEnabled(env) == GetEnvWithFallback(env.proxy) \in {"1", "true"}

\* Mutant: the length of the key is not looked at.
MakeSecretsAtRestUnchecked(isProd, env) ==
  IF ~EnvVarSetNonEmpty(env.key) THEN IF isProd THEN Failed ELSE DevKey
  ELSE GetEnvWithFallback(env.key)

\* The key of the environment; without one, the fixed key of a development
\* build, which a production start refuses.
MakeSecretsAtRest(isProd, env) ==
  IF ~EnvVarSetNonEmpty(env.key) THEN IF isProd THEN Failed ELSE DevKey
  ELSE IF GetEnvWithFallback(env.key) = "bad" THEN Failed ELSE GetEnvWithFallback(env.key)

\* SecretsHelper: a name without a row reads as the empty string.
LookupSecret(k, n) == IF secrets[n] = Missing THEN "" ELSE Decrypt(k, secrets[n])

StringToBool(text) == text \in {"t", "true", "1"}

\* The raw text a reader of the table takes for plaintext.
RawText(s) == IF s.key = Plain THEN s.text ELSE Sealed

----------------------------------------------------------------------------
\* Transactions. Each writer holds the rows it touched until it ends.

Open(w) == tx[w].op # "none"
Touched(w) == {n \in Names : tx[w].own[n] # Untouched}
Pending(w) == {n \in Names : tx[w].todo[n] # Untouched}
Held(n, w) == \E v \in Writers \ {w} : tx[v].own[n] # Untouched

\* The name whose turn it is.
Name(w) == CHOOSE n \in Pending(w) :
             \A m \in Pending(w) : tx[w].order[n] <= tx[w].order[m]

Ended(w) == [tx EXCEPT ![w] = NoTx]

\* The values to write and the order to write them in. AddSecret of each is a
\* DELETE, then an INSERT.
Begin(w, op, todo, order, at) ==
  tx' = [tx EXCEPT ![w] = [NoTx EXCEPT !.op = op, !.todo = todo, !.order = order,
                           !.at = IF todo = NoRows THEN "commit" ELSE at]]

\* A DELETE or UPDATE that finds the row held waits for its holder.
StatementWaits(w) ==
  /\ tx[w].at \in {"delete", "update", "drop"} /\ tx[w].wait = "no"
  /\ secrets[Name(w)] # Missing /\ Held(Name(w), w)
  /\ tx' = [tx EXCEPT ![w].wait = "waiting"]
  /\ UNCHANGED <<secrets, srv, jar, visit, ops, ghost>>

\* The row a statement affects: none if the name has no row, or if the row it
\* waited for was deleted meanwhile (the row inserted in its place is not seen).
Affects(w) == secrets[Name(w)] # Missing /\ tx[w].wait # "missed"
Runs(w, at) == /\ tx[w].at = at
               /\ Affects(w) => ~Held(Name(w), w)

AddSecretDelete(w) ==
  /\ Runs(w, "delete")
  /\ tx' = [tx EXCEPT ![w].at = "insert", ![w].wait = "no",
                      ![w].own[Name(w)] = IF Affects(w) THEN Missing ELSE @]
  /\ UNCHANGED <<secrets, srv, jar, visit, ops, ghost>>

\* The INSERT waits for whoever else holds the name.
AddSecretInsert(w) ==
  /\ tx[w].at = "insert" /\ ~Held(Name(w), w)
  /\ tx[w].own[Name(w)] = Missing \/ secrets[Name(w)] = Missing
  /\ tx' = [tx EXCEPT ![w].own[Name(w)] = tx[w].todo[Name(w)],
                      ![w].todo[Name(w)] = Untouched,
                      ![w].at = IF Pending(w) = {Name(w)} THEN "commit" ELSE "delete"]
  /\ UNCHANGED <<secrets, srv, jar, visit, ops, ghost>>

\* A server whose sealing pass fails does not start.
RollBack(w) ==
  /\ tx' = Ended(w)
  /\ srv' = IF w \in Servers THEN [srv EXCEPT ![w] = Down] ELSE srv
  /\ UNCHANGED <<secrets, jar, visit, ops, ghost>>

\* config_secrets.name is unique.
UniqueViolation(w) ==
  /\ tx[w].at = "insert" /\ ~Held(Name(w), w)
  /\ tx[w].own[Name(w)] = Untouched /\ secrets[Name(w)] # Missing
  /\ RollBack(w)

\* Transactions that wait for each other's rows: the database ends one.
WaitsFor(w, v) == /\ tx[w].wait = "waiting" \/ tx[w].at = "insert"
                  /\ tx[v].own[Name(w)] # Untouched
Deadlocked(w, v) == v # w /\ WaitsFor(w, v) /\ WaitsFor(v, w)
DeadlockDetected(w) ==
  /\ \E v \in Writers :
       \/ Deadlocked(w, v)
       \/ WaitsFor(w, v) /\ \E u \in Writers : WaitsFor(v, u) /\ WaitsFor(u, w)
  /\ RollBack(w)

ConnectionLost(w) == Open(w) /\ RollBack(w)

\* An operator's statement on one row: UPDATE or DELETE of the raw value.
OperatorStatement(w) ==
  /\ Runs(w, "update") \/ Runs(w, "drop")
  /\ tx' = [tx EXCEPT ![w].at = "commit", ![w].wait = "no", ![w].todo = NoRows,
              ![w].own[Name(w)] = IF Affects(w) THEN tx[w].todo[Name(w)] ELSE @]
  /\ UNCHANGED <<secrets, srv, jar, visit, ops, ghost>>

\* COMMIT. A waiter finds an updated row again, a deleted one gone. A sealing
\* pass that is under way remembers what was committed since it read the rows.
Commit(w) ==
  LET op == tx[w].op
      wrote == Touched(w)
      new == [n \in Names |-> IF n \in wrote THEN tx[w].own[n] ELSE secrets[n]]
      seals == op = "migrate"
  IN /\ tx[w].at = "commit"
     /\ secrets' = new
     /\ tx' = [v \in Writers |->
                 IF v = w THEN NoTx
                 ELSE [tx[v] EXCEPT
                   !.wait = IF @ = "waiting" /\ Name(v) \in wrote
                            THEN IF op = "update" THEN "no" ELSE "missed" ELSE @,
                   !.overlap = IF tx[v].op = "migrate" THEN @ \cup wrote ELSE @]]
     /\ srv' = IF w \in Servers THEN [srv EXCEPT ![w].phase = "serving"] ELSE srv
     /\ ghost' = [ghost EXCEPT
          !.latest = [n \in Names |-> IF n \in wrote /\ ~seals
                                      THEN new[n].text ELSE @[n]],
          !.excused = IF seals THEN @ \cup (wrote \cap tx[w].overlap) ELSE @ \ wrote,
          !.raw = IF seals THEN @ \cap tx[w].overlap
                  ELSE IF op = "save" THEN @ \ wrote ELSE @ \cup wrote,
          !.sealer = IF seals /\ Production \in wrote THEN srv[w].key ELSE @,
          !.moved = @ \/ ((jar # {} \/ visit # NoVisit) /\ Address \in wrote),
          !.split = @ \/ (visit # NoVisit /\ Address \in wrote)]
     /\ UNCHANGED <<jar, visit, ops>>

----------------------------------------------------------------------------
\* The start of a server.

\* ServerConfig::Initialize: the mode is read once, from the rows; the website
\* address is read too, so both must be readable under the key. The argument of
\* MakeSecretsAtRest is the composition root's.  (A start behind a browser that
\* has cookies is not counted.)
Initialize(p, env, isProd) ==
  LET key == MakeSecretsAtRest(isProd, env)
      prod == StringToBool(LookupSecret(key, Production))
  IN /\ srv[p].phase = "down" /\ IF jar = {} THEN Counted ELSE UNCHANGED ops
     /\ key # Failed
     /\ LookupSecret(key, Production) # Failed /\ LookupSecret(key, Address) # Failed
     /\ srv' = [srv EXCEPT ![p] = [Down EXCEPT !.phase = "configured", !.key = key,
                  !.prod = prod, !.origin = EnvVarSetNonEmpty(env.origin),
                  !.proxy = ProxyTrustEnabled(env)]]
     /\ UNCHANGED <<secrets, tx, jar, visit, ghost>>

\* Mutant: the origin secret is not asked for.
MissingItemsButOrigin(p) ==
  {i \in {"proxy", "key", "address"} :
     CASE i = "proxy" -> ~srv[p].proxy
       [] i = "key" -> srv[p].key = DevKey
       [] i = "address" -> LookupSecret(srv[p].key, Address) \in {"", Failed}}

\* Mutant: the trust in the proxy is not asked for.
MissingItemsButProxy(p) ==
  {i \in {"origin", "key", "address"} :
     CASE i = "origin" -> ~srv[p].origin
       [] i = "key" -> srv[p].key = DevKey
       [] i = "address" -> LookupSecret(srv[p].key, Address) \in {"", Failed}}

\* What a production server must have, every item looked at.
MissingItems(p) ==
  {i \in {"origin", "proxy", "key", "address"} :
     CASE i = "origin" -> ~srv[p].origin
       [] i = "proxy" -> ~srv[p].proxy
       [] i = "key" -> srv[p].key = DevKey
       [] i = "address" -> LookupSecret(srv[p].key, Address) \in {"", Failed}}

ValidateProdEnvironment(p) ==
  /\ srv[p].phase = "configured"
  /\ srv' = IF srv[p].prod /\ MissingItems(p) # {} THEN [srv EXCEPT ![p] = Down]
            ELSE [srv EXCEPT ![p].phase = "validated"]
  /\ UNCHANGED <<secrets, tx, jar, visit, ops, ghost>>

\* Mutant: the sealed rows are sealed again.
PlaintextRowsAll(p) ==
  [n \in Names |-> IF secrets[n] # Missing THEN Encrypt(srv[p].key, RawText(secrets[n]))
                   ELSE Untouched]

\* Mutant: empty values are left alone.
PlaintextRowsNonEmpty(p) ==
  [n \in Names |-> IF ~IsEncrypted(secrets[n]) /\ secrets[n].text # ""
                   THEN Encrypt(srv[p].key, RawText(secrets[n])) ELSE Untouched]

\* The rows still in plaintext, as the pass will write them.
PlaintextRows(p) ==
  [n \in Names |-> IF secrets[n] # Missing /\ ~IsEncrypted(secrets[n])
                   THEN Encrypt(srv[p].key, RawText(secrets[n])) ELSE Untouched]

MigrateSecretsToEncrypted(p, order) ==
  /\ srv[p].phase = "validated" /\ ~Open(p)
  /\ Begin(p, "migrate", PlaintextRows(p), order, "delete")
  /\ UNCHANGED <<secrets, srv, jar, visit, ops, ghost>>

Answering(p) == IF visit = NoVisit THEN FALSE ELSE visit.on = p

\* A request it was answering is lost before (AnswerLost).
Shutdown(p) ==
  /\ srv[p].phase = "serving" /\ ~Answering(p)
  /\ srv' = [srv EXCEPT ![p] = Down]
  /\ UNCHANGED <<secrets, tx, jar, visit, ops, ghost>>

----------------------------------------------------------------------------
\* Edits.

\* Mutant: in the order of the request.
WritesAsAsked(request) == [n \in Names |-> IF n \in DOMAIN request THEN request[n] ELSE 0]

\* The slots named in the request are written in the order of the registry,
\* whatever the order of the request.
Writes(request) == [n \in Names |-> IF n \in Slots THEN Registry[n] ELSE 0]

\* PUT of the settings page, and the import of a theme: AddSecret of each slot.
AddSecrets(w, p, request) ==
  /\ ~Open(w) /\ Counted /\ srv[p].phase = "serving"
  /\ Begin(w, "save", [n \in Names |-> IF n \in DOMAIN request
                                      THEN Encrypt(srv[p].key, "a") ELSE Untouched],
           Writes(request), "delete")
  /\ UNCHANGED <<secrets, srv, jar, visit, ghost>>

\* An operator changes the table itself: the value is stored as typed.
OperatorEdits(w, n, stored) ==
  /\ ~Open(w) /\ Counted
  /\ LET op == IF stored = Missing THEN "drop" ELSE "update"
     IN Begin(w, op, [NoRows EXCEPT ![n] = stored], Unordered, op)
  /\ UNCHANGED <<secrets, srv, jar, visit, ghost>>

----------------------------------------------------------------------------
\* Requests.

Paths == {"/api/health", "/api/login", "/api/logout"}

\* With an origin secret only requests that came by the CDN pass, and every path
\* that begins like the health probes', whoever sends it.
CloudFrontOriginGuard(p, path, cdn) == ~srv[p].origin \/ path = "/api/health" \/ cdn

\* The csrft cookie found first in the header must be the one the page echoes.
CsrfGuard(first, echo) == first.name = "csrft" /\ echo = first

\* BuildAuthCookieProperties: in production the domain is the website address.
CookieDomain(p) == IF srv[p].prod THEN LookupSecret(srv[p].key, Address) ELSE ""

SetCookie(cookies, new) == cookies \cup new

\* Mutant: cleared without a domain.
ClearHostCookie(cookies, gone) == cookies \ {[c EXCEPT !.domain = ""] : c \in gone}

ClearCookie(cookies, gone) == cookies \ gone

\* InitializeFromLogin: the session and its CSRF companion, and the device
\* token if the user asked to be remembered.
LoginCookies(remember) ==
  {"session_token", "csrft"} \cup (IF remember THEN {"device_token"} ELSE {})

\* Mutant: the session cookie is forgotten.
AuthCookiesButSession == {"device_token", "csrft"}

AuthCookies == {"session_token", "device_token", "csrft"}

Visit(op, p, names) == [op |-> op, on |-> p, left |-> names, cookies |-> {}]

Login(p, cdn, remember) ==
  /\ visit = NoVisit /\ Counted
  /\ srv[p].phase = "serving" /\ CloudFrontOriginGuard(p, "/api/login", cdn)
  /\ visit' = Visit("login", p, LoginCookies(remember))
  /\ UNCHANGED <<secrets, tx, srv, jar, ghost>>

Logout(p, cdn, first, echo) ==
  /\ visit = NoVisit
  /\ srv[p].phase = "serving" /\ CloudFrontOriginGuard(p, "/api/logout", cdn)
  /\ CsrfGuard(first, echo)
  /\ visit' = Visit("logout", p, AuthCookies)
  /\ UNCHANGED <<secrets, tx, srv, jar, ops, ghost>>

\* The cookies whose turn it is: a login's one by one, a logout's that scripts
\* cannot read and then csrft.
Turn ==
  IF visit.op = "logout" THEN IF visit.left = {"csrft"} THEN {"csrft"} ELSE visit.left \ {"csrft"}
  ELSE IF "session_token" \in visit.left THEN {"session_token"}
  ELSE IF "csrft" \in visit.left THEN {"csrft"} ELSE visit.left

\* The website address is read for each turn, by a statement of its own.
SetCookieHelper ==
  /\ visit # NoVisit /\ visit.left # {}
  /\ CookieDomain(visit.on) # Failed
  /\ visit' = [visit EXCEPT !.left = @ \ Turn,
                 !.cookies = @ \cup [name : Turn, domain : {CookieDomain(visit.on)}]]
  /\ UNCHANGED <<secrets, tx, srv, jar, ops, ghost>>

\* The answer carries the cookies made so far: all of them, or those made before a
\* setting could not be read, the connection was lost or the COMMIT failed. Logout
\* answers 200 then too.
Answer ==
  LET login == visit.op = "login"
      sent == visit.cookies # {}
  IN /\ visit # NoVisit
     /\ jar' = IF login THEN SetCookie(jar, visit.cookies) ELSE ClearCookie(jar, visit.cookies)
     /\ visit' = NoVisit
     /\ ghost' = [ghost EXCEPT
          !.out = IF login THEN @ /\ ~sent ELSE @ \/ visit.left = {},
          !.mode = IF login /\ sent THEN srv[visit.on].prod ELSE @,
          !.split = jar' # {} /\ (@ \/ (login /\ sent /\ "csrft" \in visit.left)),
          !.moved = jar' # {} /\ (@ \/ (jar # {} /\ sent /\ srv[visit.on].prod # ghost.mode))]
     /\ UNCHANGED <<secrets, tx, srv, ops>>

\* The answer does not reach the browser.
AnswerLost ==
  /\ visit # NoVisit
  /\ visit' = NoVisit
  /\ ghost' = [ghost EXCEPT !.moved = @ /\ jar # {}, !.split = @ /\ jar # {}]
  /\ UNCHANGED <<secrets, tx, srv, jar, ops>>

\* The session and csrft cookies have the session's lifetime, the device token a
\* longer one.
CookiesExpire(names) ==
  /\ \E c \in jar : c.name \in names
  /\ jar' = {c \in jar : c.name \notin names}
  /\ ghost' = IF jar' = {} /\ visit = NoVisit
              THEN [ghost EXCEPT !.moved = FALSE, !.split = FALSE] ELSE ghost
  /\ UNCHANGED <<secrets, tx, srv, visit, ops>>

\* MakeMailHelper, once per server: an empty password is refused.
MakeMailHelper(p) ==
  LET password == LookupSecret(srv[p].key, Password)
  IN /\ srv[p].phase = "serving" /\ srv[p].mail = ""
     /\ password \notin {"", Failed}
     /\ srv' = [srv EXCEPT ![p].mail = password]
     /\ UNCHANGED <<secrets, tx, jar, visit, ops, ghost>>

----------------------------------------------------------------------------
\* A new database: the defaults in plaintext, and the mode and address of the
\* deployment.
Default(n, mode) ==
  CASE n \in Tokens -> Missing
    [] n = Production -> [key |-> Plain, text |-> mode]
    [] n = Address -> [key |-> Plain, text |-> "w1"]
    [] OTHER -> [key |-> Plain, text |-> ""]

SettingsInit ==
  /\ \E mode \in {"true", "false"} : secrets = [n \in Names |-> Default(n, mode)]
  /\ tx = [w \in Writers |-> NoTx] /\ srv = [p \in Servers |-> Down]
  /\ jar = {} /\ visit = NoVisit /\ ops = 0
  /\ ghost = [latest |-> [n \in Names |-> secrets[n].text], excused |-> {}, raw |-> Names,
              sealer |-> Plain, out |-> TRUE, mode |-> FALSE, moved |-> FALSE, split |-> FALSE]

TxStep(w) ==
  \/ StatementWaits(w) \/ AddSecretDelete(w) \/ AddSecretInsert(w)
  \/ UniqueViolation(w) \/ DeadlockDetected(w) \/ OperatorStatement(w) \/ Commit(w)

SettingsNext ==
  \/ \E w \in Writers : TxStep(w) \/ ConnectionLost(w)
  \/ \E p \in Servers :
       \/ \E env \in Envs, isProd \in BOOLEAN : Initialize(p, env, isProd)
       \/ ValidateProdEnvironment(p)
       \/ \E order \in HeapOrders : MigrateSecretsToEncrypted(p, order)
       \/ Shutdown(p)
       \/ MakeMailHelper(p)
       \/ \E cdn, remember \in BOOLEAN : Login(p, cdn, remember)
       \/ \E cdn \in BOOLEAN, first, echo \in jar : Logout(p, cdn, first, echo)
  \/ SetCookieHelper \/ Answer \/ AnswerLost
  \/ CookiesExpire({"session_token", "csrft"})
  \/ \E w \in Editors :
       \/ \E p \in Servers, names \in (SUBSET Slots) \ {{}} : \E request \in Orders(names) :
            AddSecrets(w, p, request)
       \/ \E n \in {Production, Address, Password} :
            OperatorEdits(w, n, Missing) \/ \E t \in Typed[n] :
              OperatorEdits(w, n, [key |-> Plain, text |-> t])

SettingsSpec == SettingsInit /\ [][SettingsNext]_settingsVars

----------------------------------------------------------------------------
Cookies == [name : AuthCookies, domain : Texts]

\* The variables hold what the code can put in them.
SettingsTypeOK ==
  /\ secrets \in [Names -> Stored \cup {Missing}]
  /\ tx \in [Writers -> [op : {"none", "migrate", "save", "update", "drop"},
             at : {"none", "delete", "insert", "update", "drop", "commit"},
             wait : {"no", "waiting", "missed"}, overlap : SUBSET Names,
             order : [Names -> Nat],
             todo : [Names -> Stored \cup {Missing, Untouched}],
             own : [Names -> Stored \cup {Missing, Untouched}]]]
  /\ srv \in [Servers -> [phase : {"down", "configured", "validated", "serving"},
                          key : {Plain, DevKey, "A"}, prod : BOOLEAN, origin : BOOLEAN,
                          proxy : BOOLEAN, mail : Texts]]
  /\ jar \subseteq Cookies
  /\ visit \in {NoVisit} \cup [op : {"login", "logout"}, on : Servers,
                             left : SUBSET AuthCookies, cookies : SUBSET Cookies]
  /\ ops \in 0..MaxOps
  /\ ghost \in [latest : [Names -> Texts], excused : SUBSET Names, raw : SUBSET Names,
                sealer : {Plain, DevKey, "A"}, out : BOOLEAN, mode : BOOLEAN,
                moved : BOOLEAN, split : BOOLEAN]

\* A committed value stays until the next one is committed: the sealing pass of
\* a starting server changes the form of a value and never the value, unless the
\* value was committed while that pass was under way (MigrateSecretsToEncrypted
\* writes back what it read, and does not lock it).
SavesAreKept == \A n \in Names : secrets[n].text = ghost.latest[n] \/ n \in ghost.excused

\* A row in plaintext was typed by an operator after the rows were last read by
\* a sealing pass that committed: nothing the server writes is left unsealed.
PlaintextIsNewerThanSealing ==
  \A n \in Names : secrets[n] # Missing /\ ~IsEncrypted(secrets[n]) => n \in ghost.raw

\* Two saves of the settings page never wait for each other: both take the slots
\* in the order of the registry (PutManageSiteTheme), whatever the request's.
SavesNeverDeadlock ==
  \A w, v \in Editors : Deadlocked(w, v) => "save" \notin {tx[w].op} \cap {tx[v].op}

\* A server in production has every guard: no request that went round the CDN is
\* handled but one of the health probes' paths, the viewer's address is trusted,
\* and the rows are not sealed under the key every checkout has, whatever the
\* composition root passed for isProd.
ProductionIsGuarded ==
  \A p \in Servers : srv[p].prod /\ srv[p].phase \in {"validated", "serving"} =>
    /\ srv[p].proxy /\ srv[p].key # DevKey
    /\ \A path \in Paths : CloudFrontOriginGuard(p, path, FALSE) => path = "/api/health"

\* Once the mode was sealed under one key no server starts with another, unless
\* an operator typed the mode again or deleted its row: ServerConfig::Initialize
\* cannot read it.
WrongKeyCannotStart ==
  [][\A p \in Servers :
       srv[p].phase = "down" /\ srv'[p].phase = "configured" /\ ghost.sealer # Plain
         /\ srv'[p].key # ghost.sealer
       => Production \in ghost.raw \/ secrets[Production] = Missing]_settingsVars

\* A session cookie has its CSRF companion, of the same domain: a signed-in
\* browser can make the requests that change something, logging out included.
\* Two things part them, and only those: the website address was written while a
\* login or logout was being answered (each cookie reads it anew), or a login
\* failed between the two (its answer carries the first all the same).
SessionHasCsrf ==
  \A c \in jar : c.name = "session_token" => [c EXCEPT !.name = "csrft"] \in jar \/ ghost.split

\* A logout that came to clear the cookies leaves none behind, unless the website
\* address was written, or a server of the other mode answered, since the login
\* began: its cookies then have another domain than the live ones. (A logout that
\* failed before is answered 200 and promises nothing.)
LogoutClears == ghost.out => jar = {} \/ ghost.moved

\* Mail is sent with a password somebody entered: never with an empty one, and
\* never with a sealed value or one that only looks sealed.
MailPasswordIsReal ==
  \A p \in Servers : srv[p].mail \in {""} \cup (Typed[Password] \ {Prefixed})

\* Saves, operators and sealing passes over config_secrets: a value is lost only to
\* a pass it was committed under, nothing is left open or waited for in a circle.
SavesComplete ==
  /\ SettingsTypeOK
  /\ SavesAreKept
  /\ PlaintextIsNewerThanSealing
  /\ SavesNeverDeadlock

\* ServerConfig::Initialize: what a server runs with is what the rows say,
\* under the right key.
StartIsSafe ==
  /\ []ProductionIsGuarded
  /\ []MailPasswordIsReal
  /\ WrongKeyCannotStart

\* The cookies of a browser come and go together.
CookiesPaired ==
  /\ SessionHasCsrf
  /\ LogoutClears
=============================================================================
