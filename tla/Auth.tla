-------------------------------- MODULE Auth --------------------------------
(***************************************************************************)
(* Optional authentication: auth.py and its endpoints in api.py behind the *)
(* middleware of auth_middleware.py, and the browsers' side of it: status  *)
(* hook, login screen and settings section.  Accounts and switches live in *)
(* auth.json, sessions and the login throttle in memory.  No handler       *)
(* awaits anything after its payload, so each request is one step.         *)
(***************************************************************************)
EXTENDS Integers, Functions

CONSTANTS
  Users, Passwords,
  Browsers,     \* clients, each with an address of its own
  MaxIssued,    \* bound on the sessions and tokens handed out
  MaxFailures,  \* _MAX_FAILURES
  Window,       \* _FAILURE_WINDOW
  Lockout,      \* _LOCKOUT
  MaxTime,      \* bound on the clock
  Envs          \* the environments: ingress peers, keys set by the environment, first
                \* value of AUTH_UI_ENABLED, habits

Habits ==
  {"guesses",   \* browsers try wrong passwords, and time passes
   "restarts",  \* the operator restarts the server, perhaps with another AUTH_UI_ENABLED
   "resets",    \* the operator deletes auth.json
   "tokens"}    \* bearer tokens are made and removed

Sized ==
  /\ MaxIssued \in Nat /\ MaxTime \in Nat /\ Window \in Nat
  /\ MaxFailures \in Nat \ {0} /\ Lockout \in Nat \ {0}
  /\ \A e \in Envs : e.override \in {"unset", "on", "off"}

VARIABLES
  authEnv,      \* the environment of this behaviour; fixed but for AUTH_UI_ENABLED
  override,     \* AUTH_UI_ENABLED: "unset", "on" or "off"
  enabled,      \* auth.json: ui_auth_enabled
  accounts,     \* auth.json: the password of every user
  token,        \* auth.json: the number of the mcp and the api token, 0 for none
  sessions,     \* _sessions: the user of every session number
  failures,     \* _failures: count and first time, for every address; 0 for none
  now,          \* time.monotonic()
  issued,       \* sessions and tokens handed out so far
  cookie,       \* session cookie of every browser, 0 for none
  view,         \* status as each browser last got it
  asks          \* a status request of the browser is under way

file == <<enabled, accounts, token>>
memory == <<sessions, failures>>
browser == <<cookie, view, asks>>
vars == <<authEnv, override, file, memory, now, issued, browser>>

Keys == {"mcp", "api"}
Has(h) == h \in authEnv.habits
NoFailure == [count |-> 0, first |-> 0]
NoView == [on |-> FALSE, forcedOff |-> FALSE, configured |-> FALSE, in |-> FALSE, known |-> FALSE]

Init ==
  /\ authEnv \in Envs /\ override = authEnv.override
  /\ enabled = FALSE /\ accounts = [u \in {} |-> ""] /\ token = [k \in Keys |-> 0]
  /\ sessions = [s \in {} |-> ""] /\ failures = [b \in Browsers |-> NoFailure]
  /\ now = 0 /\ issued = 0
  /\ cookie = [b \in Browsers |-> 0] /\ view = [b \in Browsers |-> NoView]
  /\ asks = [b \in Browsers |-> TRUE]
-----------------------------------------------------------------------------
(* ui_auth_enabled, session_user, is_ingress_peer, _current_user. *)
On == IF override = "unset" THEN enabled ELSE override = "on"
Configured == DOMAIN accounts # {}
HasSession(b) == cookie[b] \in DOMAIN sessions
Current(b) == b \in authEnv.ingress \/ HasSession(b)

EnvToken == MaxIssued + 1       \* the token the environment sets

(* _token_required and _verify_token; bearer 0 is none. *)
Required(k) == k \in authEnv.keys \/ token[k] # 0
Verifies(k, bearer) ==
  IF k \in authEnv.keys THEN bearer = EnvToken ELSE bearer # 0 /\ bearer = token[k]

EnableToo == {"status", "login", "enable"}       \* deviation
OpenPaths == {"status", "login"}
(* The middleware for the routes behind the login. *)
Admitted(b, path) == ~On \/ path \in OpenPaths \/ Current(b)

LoginFirst(b, bearer) ==                         \* deviation
  ~On \/ Verifies("api", bearer) \/ Current(b)
(* ... and for the external API; an API token is the way in once it exists. *)
External(b, bearer) ==
  \/ Verifies("api", bearer)
  \/ ~(Required("api") /\ ~On) /\ Admitted(b, "external")
McpAdmits(bearer) == Required("mcp") => Verifies("mcp", bearer)

(* What /api/auth/status tells a browser. *)
Status(b) == [on |-> On, forcedOff |-> override = "off", configured |-> Configured,
              in |-> Current(b), known |-> TRUE]

(* A session for u, whose cookie the browser keeps. *)
SignIn(b, u) ==
  /\ issued < MaxIssued /\ issued' = issued + 1
  /\ sessions' = [s \in DOMAIN sessions \cup {issued'} |-> IF s = issued' THEN u ELSE sessions[s]]
  /\ failures' = [failures EXCEPT ![b] = NoFailure]
  /\ cookie' = [cookie EXCEPT ![b] = issued']

Reloads(b) == asks' = [asks EXCEPT ![b] = TRUE]

(* The screens: loginRequired, and the sections of the settings. *)
LoginRequired(b) == view[b].on /\ ~view[b].in
SetupForm(b) == LoginRequired(b) /\ ~view[b].configured
LoginForm(b) == LoginRequired(b) /\ view[b].configured
EnableForm(b) == view[b].known /\ ~view[b].on /\ ~view[b].forcedOff
ManageForm(b) == view[b].on /\ view[b].in
-----------------------------------------------------------------------------
(* A browser opens the page. *)
OpenPage(b) ==
  /\ ~asks[b] /\ Reloads(b) /\ view' = [view EXCEPT ![b] = NoView]
  /\ UNCHANGED <<authEnv, override, file, memory, now, issued, cookie>>

(* The status arrives, or cannot be fetched. *)
Load(b) ==
  /\ asks[b] /\ asks' = [asks EXCEPT ![b] = FALSE]
  /\ view' = [view EXCEPT ![b] = Status(b)]
  /\ UNCHANGED <<authEnv, override, file, memory, now, issued, cookie>>

LoadFails(b) ==
  /\ asks[b] /\ asks' = [asks EXCEPT ![b] = FALSE]
  /\ view' = [view EXCEPT ![b] = NoView]
  /\ UNCHANGED <<authEnv, override, file, memory, now, issued, cookie>>

(* auth_enable creates the first account, from the login screen or settings. *)
EnableFirst(b, u, p) ==
  /\ SetupForm(b) \/ (EnableForm(b) /\ ~view[b].configured)
  /\ Admitted(b, "enable") /\ ~Configured
  /\ enabled' = TRUE /\ accounts' = [v \in {u} |-> p] /\ SignIn(b, u) /\ Reloads(b)
  /\ UNCHANGED <<authEnv, override, token, now, view>>

(* ... or turns the login back on for the accounts that exist. *)
EnableExisting(b) ==
  /\ EnableForm(b)
  /\ Admitted(b, "enable") /\ Configured /\ ~On
  /\ enabled' = TRUE /\ Reloads(b)
  /\ UNCHANGED <<authEnv, override, accounts, token, memory, now, issued, cookie, view>>

LockoutOnly(b) ==                                \* deviation
  failures[b].count >= MaxFailures /\ now - failures[b].first < Lockout
Throttled(b) ==
  failures[b].count >= MaxFailures /\ now - failures[b].first < Window + Lockout

NeverAsks(b) == UNCHANGED asks                   \* deviation
SignedIn(b) == Reloads(b)

(* auth_login with the right password. *)
Login(b, u) ==
  /\ LoginForm(b) /\ On /\ ~Throttled(b) /\ u \in DOMAIN accounts
  /\ SignIn(b, u) /\ SignedIn(b)
  /\ UNCHANGED <<authEnv, override, file, now, view>>

(* ... and with a wrong one: _record_failure. *)
WrongLogin(b) ==
  LET f == failures[b]
      over == f.count > 0 /\ now - f.first > Window
  IN /\ Has("guesses") /\ LoginForm(b) /\ On /\ ~Throttled(b)
     /\ failures' = [failures EXCEPT ![b] =
          [count |-> IF over THEN 1 ELSE f.count + 1,
           first |-> IF over \/ f.first = 0 THEN now ELSE f.first]]
     /\ UNCHANGED <<authEnv, override, file, sessions, now, issued, browser>>

(* throttled forgets an address whose lockout is over. *)
Forget(b) ==
  /\ LoginForm(b) /\ On
  /\ failures[b].count >= MaxFailures /\ now - failures[b].first > Window + Lockout
  /\ failures' = [failures EXCEPT ![b] = NoFailure]
  /\ UNCHANGED <<authEnv, override, file, sessions, now, issued, browser>>

Logout(b) ==
  /\ ManageForm(b) /\ Admitted(b, "logout")
  /\ sessions' = Restrict(sessions, DOMAIN sessions \ {cookie[b]})
  /\ cookie' = [cookie EXCEPT ![b] = 0] /\ Reloads(b)
  /\ UNCHANGED <<authEnv, override, file, failures, now, issued, view>>

(* auth_disable keeps the accounts and ends every session. *)
Disable(b) ==
  /\ ManageForm(b) /\ Admitted(b, "disable") /\ Current(b)
  /\ enabled' = FALSE /\ sessions' = [s \in {} |-> ""]
  /\ cookie' = [cookie EXCEPT ![b] = 0] /\ Reloads(b)
  /\ UNCHANGED <<authEnv, override, accounts, token, failures, now, issued, view>>

(* auth_add_user and auth_change_password. *)
AddUser(b, u, p) ==
  /\ ManageForm(b) /\ Admitted(b, "users") /\ Current(b) /\ u \notin DOMAIN accounts
  /\ accounts' = [v \in DOMAIN accounts \cup {u} |-> IF v = u THEN p ELSE accounts[v]]
  /\ UNCHANGED <<authEnv, override, enabled, token, memory, now, issued, browser>>

MayChange(b) ==
  /\ ManageForm(b) /\ Admitted(b, "password")
  /\ b \notin authEnv.ingress /\ HasSession(b) /\ sessions[cookie[b]] \in DOMAIN accounts
ChangePassword(b, p) ==
  /\ MayChange(b) /\ accounts' = [accounts EXCEPT ![sessions[cookie[b]]] = p]
  /\ UNCHANGED <<authEnv, override, enabled, token, memory, now, issued, browser>>

KeepSessions(u) == DOMAIN sessions               \* deviation
Others(u) == {s \in DOMAIN sessions : sessions[s] # u}

AnyUser(u) == TRUE                               \* deviation
(* The last account stays while the file has the login on. *)
MayDelete(u) == DOMAIN accounts # {u} \/ ~enabled
DeleteUser(b, u) ==
  /\ ManageForm(b) /\ Admitted(b, "users") /\ Current(b)
  /\ u \in DOMAIN accounts /\ MayDelete(u)
  /\ accounts' = Restrict(accounts, DOMAIN accounts \ {u})
  /\ sessions' = Restrict(sessions, Others(u))
  /\ UNCHANGED <<authEnv, override, enabled, token, failures, now, issued, browser>>

(* auth_new_*_token and auth_clear_*_token. *)
NewToken(b, k) ==
  /\ Has("tokens") /\ ManageForm(b) /\ Admitted(b, "token") /\ Current(b) /\ k \notin authEnv.keys
  /\ issued < MaxIssued /\ issued' = issued + 1
  /\ token' = [token EXCEPT ![k] = issued'] /\ Reloads(b)
  /\ UNCHANGED <<authEnv, override, enabled, accounts, memory, now, cookie, view>>

ClearToken(b, k) ==
  /\ ManageForm(b) /\ Admitted(b, "token") /\ Current(b) /\ token[k] # 0
  /\ token' = [token EXCEPT ![k] = 0] /\ Reloads(b)
  /\ UNCHANGED <<authEnv, override, enabled, accounts, memory, now, issued, cookie, view>>

(* The operator restarts the server, or deletes the state file. *)
Restart(o) ==
  /\ Has("restarts") /\ override' = o
  /\ sessions' = [s \in {} |-> ""] /\ failures' = [b \in Browsers |-> NoFailure]
  /\ UNCHANGED <<authEnv, file, now, issued, browser>>

ResetFile ==
  /\ Has("resets")
  /\ enabled' = FALSE /\ accounts' = [u \in {} |-> ""] /\ token' = [k \in Keys |-> 0]
  /\ UNCHANGED <<authEnv, override, memory, now, issued, browser>>

Tick ==
  /\ Has("guesses") /\ now < MaxTime /\ now' = now + 1
  /\ UNCHANGED <<authEnv, override, file, memory, issued, browser>>

Request(b) ==
  \/ \E u \in Users : Login(b, u) \/ DeleteUser(b, u)
  \/ \E u \in Users, p \in Passwords : EnableFirst(b, u, p) \/ AddUser(b, u, p)
  \/ \E p \in Passwords : ChangePassword(b, p)
  \/ \E k \in Keys : NewToken(b, k) \/ ClearToken(b, k)
  \/ EnableExisting(b) \/ WrongLogin(b) \/ Forget(b) \/ Logout(b) \/ Disable(b)

Next ==
  \/ \E b \in Browsers : OpenPage(b) \/ Load(b) \/ LoadFails(b) \/ Request(b)
  \/ \E o \in {"unset", "on", "off"} : Restart(o)
  \/ ResetFile \/ Tick

(* A status request is answered unless it fails again and again. *)
Fairness == \A b \in Browsers : SF_vars(Load(b))

Spec == Init /\ [][Next]_vars /\ Fairness
-----------------------------------------------------------------------------
(* Every variable has its type; no address tries more than MaxFailures
   passwords in a window. *)
TypeOK ==
  /\ override \in {"unset", "on", "off"} /\ enabled \in BOOLEAN
  /\ DOMAIN accounts \subseteq Users /\ \A u \in DOMAIN accounts : accounts[u] \in Passwords
  /\ issued \in 0 .. MaxIssued /\ token \in [Keys -> 0 .. issued]
  /\ DOMAIN sessions \subseteq 1 .. issued /\ \A s \in DOMAIN sessions : sessions[s] \in Users
  /\ failures \in [Browsers -> [count : 0 .. MaxFailures, first : 0 .. MaxTime]]
  /\ now \in 0 .. MaxTime /\ cookie \in [Browsers -> 0 .. issued]
  /\ asks \in [Browsers -> BOOLEAN]

(* A session belongs to an account, whoever deletes accounts in whatever
   order, as long as nobody takes the file away. *)
SessionsHaveAccounts ==
  Has("resets") \/ \A s \in DOMAIN sessions : sessions[s] \in DOMAIN accounts

(* "Removing the last account while auth is on would lock everyone out": the
   login is never on without an account, unless AUTH_UI_ENABLED forces it. *)
SomeoneCanSignIn == On /\ override # "on" => Configured

(* While the login is on, accounts, switch and tokens change only by requests
   of someone who is already in: nobody else can claim the first account. *)
OnlyTrustedChange ==
  [][ On /\ file' # file =>
        \/ /\ \E b \in Browsers : Current(b)
           /\ \A b \in Browsers : cookie'[b] # cookie[b] => Current(b)
        \/ file' = <<FALSE, [u \in {} |-> ""], [k \in Keys |-> 0]>> ]_vars

(* Where a bearer token is set nothing but it opens the endpoint: not an
   earlier one, not the other endpoint's, and for the MCP endpoint no session. *)
TokensGuard ==
  \A bearer \in 0 .. EnvToken :
    /\ Required("mcp") /\ McpAdmits(bearer) => bearer \in {EnvToken, token["mcp"]}
    /\ \A b \in Browsers :
         Required("api") /\ External(b, bearer) /\ bearer \notin {EnvToken, token["api"]}
           => On /\ Current(b)

(* Who signed in gets to see the application, unless the session ends, the
   page is opened anew or the status cannot be fetched. *)
SignInShows ==
  \A b \in Browsers :
    HasSession(b) /\ LoginRequired(b) ~> ~HasSession(b) \/ ~LoginRequired(b)

(* "Set it to false, fix the password in the UI, then re-enable": held off by
   AUTH_UI_ENABLED, a browser that knows the status can set a new password. *)
HeldOffOffersReset ==
  \A b \in Browsers :
    override = "off" /\ Configured /\ view[b] = Status(b) => MayChange(b)

(* However accounts, switch, tokens and environment change: sessions are of
   accounts, an account is left that can sign in, and only its own token opens
   an endpoint (auth.py). *)
GuardHolds == TypeOK /\ SessionsHaveAccounts /\ SomeoneCanSignIn /\ TokensGuard
=============================================================================
