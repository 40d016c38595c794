------------------------------ MODULE KeyGate -------------------------------
(***************************************************************************)
(* Who a request is for, and whether it gets to its route: the gate in     *)
(* front of all routes (require_api_key, app/middleware.py), the guards    *)
(* that ask for a username and password (app/dependencies.py), and         *)
(* fetch_user (app/auth_service.py), which resolves an x-key in Redis and  *)
(* verifies a bearer token with the keys of IssuerKeys.                    *)
(*                                                                         *)
(* A request awaits in between: the gate's verdict meets keys that are     *)
(* minted or deleted meanwhile, and other requests share the cache of      *)
(* routes.                                                                 *)
(***************************************************************************)
EXTENDS IssuerKeys, FiniteSets, Sequences

CONSTANTS
  Users, XKeys,
  Nobody,         \* no user
  NoToken,        \* no Authorization header that starts with "bearer"
  Malformed,      \* one that does, without a single token behind it
  Calls,          \* what clients send
  Routes,         \* app.routes, in their order
  PathRoutesMax,  \* 1024
  sso_configs,    \* the issuers, in their order
  Deployments     \* the settings a process may run with

\* A call: [method, path, slash, x_keys, bearer, basic].  `slash`: the path ends in one;
\* `x_keys`: its x-key headers in order; `bearer`: a token, Malformed or NoToken;
\* `basic`: the username and password, "right", "wrong" or "none".
\* A token: [aud, kid, key, valid, scopes, tid, email]; `valid`: not expired, its issuer
\* and claims as expected; `tid`: "guid", "bad" or "none".
\* An issuer: [client_id, kind, scope], a kind being "domain", "jwks" or "tid".
\* A route: [methods, path, guard, user]: who it asks for by username and password
\* ("management", "docs" or "none"), and whether its handler wants a user.
\* A deployment: [require_api_key, management, docs, password, open].

Methods == {c.method : c \in Calls}
Paths == {c.path : c \in Calls}
Bearers == {c.bearer : c \in Calls}
Tokens == Bearers \ {NoToken, Malformed}

\* No route takes OPTIONS; a client's call has no stage, user or status of its own.
ASSUME KeyGateAssumption ==
  /\ Nobody \notin Users
  /\ NoToken # Malformed
  /\ PathRoutesMax \in Nat \ {0}
  /\ Calls \subseteq [method : Methods, path : Paths, slash : BOOLEAN, x_keys : Seq(XKeys),
                      bearer : Bearers, basic : {"right", "wrong", "none"}]
  /\ \A token \in Tokens : token.kid \in Kids /\ token.email \in Users \union {Nobody}
  /\ \A i \in DOMAIN Routes : "OPTIONS" \notin Routes[i].methods

VARIABLES
  settings,
  owner,        \* Redis: the email of each x-key
  path_routes,  \* the process' _PATH_ROUTES, by method, path and slash
  call,         \* each request
  owned         \* history: the emails each x-key has had

gateVars == <<settings, owner, path_routes, call, owned>>
vars == <<published, rsa_pem, fetch, age, settings, owner, path_routes, call, owned>>

-----------------------------------------------------------------------------
\* Routing.

Target(c) == <<c.method, c.path, c.slash>>

Matching(t) == {i \in DOMAIN Routes : t[1] \in Routes[i].methods /\ t[2] = Routes[i].path /\ ~t[3]}

\* The first full match, 0 for none.  Starlette's router (external) looks for the same.
RouteOf(t) ==
  IF Matching(t) = {} THEN 0
  ELSE CHOOSE i \in Matching(t) : \A j \in Matching(t) : i <= j

Guard(i) == IF i = 0 THEN "none" ELSE Routes[i].guard

Enabled(guard) ==
  \/ guard = "management" /\ settings.management
  \/ guard = "docs" /\ settings.docs

With(routes, t, i) == [u \in DOMAIN routes \union {t} |-> IF u = t THEN i ELSE routes[u]]

\* Mutant: the cache is kept by path alone, whatever the method.
Remembered_ByPath(t) ==
  LET alike == {u \in DOMAIN path_routes : u[2] = t[2]}
  IN  With(path_routes, t,
           IF alike = {} THEN RouteOf(t) ELSE path_routes[CHOOSE u \in alike : TRUE])

\* _route_for: the cache with t in it, emptied before when it is full.
Remembered(t) ==
  IF t \in DOMAIN path_routes
  THEN path_routes
  ELSE With(IF Cardinality(DOMAIN path_routes) >= PathRoutesMax THEN [u \in {} |-> 0]
            ELSE path_routes, t, RouteOf(t))

-----------------------------------------------------------------------------
\* fetch_user.  It says a user, Nobody, a status that refuses the request, or that it
\* awaits an issuer's key.

IsUser(u) == [said |-> "user", user |-> u, status |-> 0, kid |-> None]
Refuses(status) == [said |-> "status", user |-> Nobody, status |-> status, kid |-> None]
AwaitsKey(kid) == [said |-> "awaits", user |-> Nobody, status |-> 0, kid |-> kid]

\* The issuers whose client id the token has, and that can verify it.
Issuers(token) ==
  {i \in DOMAIN sso_configs :
     /\ sso_configs[i].client_id = token.aud
     /\ sso_configs[i].kind = "tid" => token.tid # "none"}

IssuerOf(token) == sso_configs[CHOOSE i \in Issuers(token) : \A j \in Issuers(token) : i <= j]

\* A bearer token, up to the first await.
Token(token) ==
  IF Issuers(token) = {} \/ (IssuerOf(token).kind = "tid" /\ token.tid = "bad")
  THEN Refuses(403)
  ELSE AwaitsKey(token.kid)

\* What the headers say, an x-key before any token.
Credentials(c) ==
  CASE Len(c.x_keys) > 1 -> Refuses(400)
    [] Len(c.x_keys) = 1 -> IsUser(owner[c.x_keys[1]])
    [] c.x_keys = <<>> /\ c.bearer = NoToken -> IsUser(Nobody)
    [] c.x_keys = <<>> /\ c.bearer = Malformed -> Refuses(403)
    [] OTHER -> Token(c.bearer)

\* Mutant: what the gate has resolved is resolved again.
FetchUser_Anew(c) == Credentials(c)

FetchUser(c) == IF c.resolved # Nobody THEN IsUser(c.resolved) ELSE Credentials(c)

\* decode_jwt_, validate_scope_ and fetch_email_from_claims, once get_rsa_key has ended.
Verified(f, token) ==
  LET issuer == IssuerOf(token) IN
  /\ f.stage = "found"
  /\ f.key = token.key
  /\ token.valid
  /\ issuer.scope = None \/ issuer.scope \in token.scopes
  /\ token.email # Nobody

\* Every error on the way is a 403.
Decoded(f, token) == IF Verified(f, token) THEN IsUser(token.email) ELSE Refuses(403)

-----------------------------------------------------------------------------
\* A request.  `resolved`: request.state.resolved_user; `status`: its answer, 200 for
\* whatever the handler makes of it; `user`: whom the handler answers.

NoCall == [stage |-> "none", method |-> "", path |-> "", slash |-> FALSE, x_keys |-> <<>>,
           bearer |-> NoToken, basic |-> "none", resolved |-> Nobody, status |-> 0,
           user |-> Nobody]

GateInit ==
  /\ KeysInit
  /\ settings \in Deployments
  /\ owner \in [XKeys -> Users]
  /\ path_routes = [u \in {} |-> 0]
  /\ call = [r \in Requests |-> NoCall]
  /\ owned = [x \in XKeys |-> {owner[x]}]

Becomes(r, c) ==
  /\ call' = [call EXCEPT ![r] = c]
  /\ UNCHANGED <<settings, owner, owned>>

Ends(c, status) == [c EXCEPT !.stage = "done", !.status = status]
Passes(c) == [c EXCEPT !.stage = "routed"]
Handled(c, user) == [Ends(c, 200) EXCEPT !.user = user]

Arrive(r, c) ==
  /\ call[r].stage = "none"
  /\ Becomes(r, [NoCall EXCEPT !.stage = "gate", !.method = c.method, !.path = c.path,
                               !.slash = c.slash, !.x_keys = c.x_keys, !.bearer = c.bearer,
                               !.basic = c.basic])
  /\ UNCHANGED <<keyVars, path_routes>>

\* is_public_path: a slash at the end makes no difference.
IsPublic(c) == c.path \in settings.open

SomeSwitch == settings.management \/ settings.docs

\* Mutant: a guard counts whether or not its switch is on.
IsPasswordProtected_AnySwitch(c) ==
  SomeSwitch /\ Guard(Remembered(Target(c))[Target(c)]) # "none"

\* is_password_protected: by the remembered route.
IsPasswordProtected(c) ==
  SomeSwitch /\ Enabled(Guard(Remembered(Target(c))[Target(c)]))

\* Nothing to resolve: the gate is off, a preflight, a public path or a password instead.
NeedsNoKey(c) ==
  \/ ~settings.require_api_key
  \/ c.method = "OPTIONS"
  \/ IsPublic(c)
  \/ IsPasswordProtected(c)

\* What the gate makes of fetch_user's answer.
GateSays(c, answer) ==
  IF answer.said = "status" THEN Ends(c, answer.status)
  ELSE IF answer.user = Nobody THEN Ends(c, 401)
  ELSE Passes([c EXCEPT !.resolved = answer.user])

LooksForRoute(c) ==
  settings.require_api_key /\ c.method # "OPTIONS" /\ ~IsPublic(c) /\ SomeSwitch

\* require_api_key.
Gate(r) ==
  LET c == call[r] IN
  /\ c.stage = "gate"
  /\ path_routes' = IF LooksForRoute(c) THEN Remembered(Target(c)) ELSE path_routes
  /\ \/ /\ NeedsNoKey(c)
        /\ Becomes(r, Passes(c))
        /\ UNCHANGED keyVars
     \/ /\ ~NeedsNoKey(c)
        /\ FetchUser(c).said # "awaits"
        /\ Becomes(r, GateSays(c, FetchUser(c)))
        /\ UNCHANGED keyVars
     \/ /\ ~NeedsNoKey(c)
        /\ FetchUser(c).said = "awaits"
        /\ Becomes(r, [c EXCEPT !.stage = "gate_awaits"])
        /\ GetRsaKey(r, FetchUser(c).kid)

GateVerified(r) ==
  /\ call[r].stage = "gate_awaits"
  /\ Uses(r)
  /\ Becomes(r, GateSays(call[r], Decoded(fetch[r], call[r].bearer)))
  /\ UNCHANGED path_routes

\* _fetch_basic_auth_username: 0 for a request it lets through.
PasswordStatus(c, guard) ==
  CASE ~Enabled(guard) -> 0
    [] Enabled(guard) /\ c.basic = "none" -> 401
    [] Enabled(guard) /\ c.basic # "none" /\ ~settings.password -> 500
    [] OTHER -> IF c.basic = "right" THEN 0 ELSE 401

\* What a handler makes of fetch_user's answer; what it refuses nobody is its own.
HandlerSays(c, answer) ==
  IF answer.said = "status" THEN Ends(c, answer.status) ELSE Handled(c, answer.user)

\* Behind the gate: the router, the route's guard, and its handler up to the user.
Route(r) ==
  LET c == call[r]
      route == RouteOf(Target(c))
      refused == PasswordStatus(c, Guard(route))
  IN  /\ c.stage = "routed"
      /\ UNCHANGED path_routes
      /\ \/ /\ route = 0
            /\ Becomes(r, Ends(c, 404))
            /\ UNCHANGED keyVars
         \/ /\ route # 0
            /\ refused # 0
            /\ Becomes(r, Ends(c, refused))
            /\ UNCHANGED keyVars
         \/ /\ route # 0
            /\ refused = 0
            /\ \/ /\ ~Routes[route].user
                  /\ Becomes(r, Handled(c, Nobody))
                  /\ UNCHANGED keyVars
               \/ /\ Routes[route].user
                  /\ FetchUser(c).said # "awaits"
                  /\ Becomes(r, HandlerSays(c, FetchUser(c)))
                  /\ UNCHANGED keyVars
               \/ /\ Routes[route].user
                  /\ FetchUser(c).said = "awaits"
                  /\ Becomes(r, [c EXCEPT !.stage = "handler_awaits"])
                  /\ GetRsaKey(r, FetchUser(c).kid)

HandlerVerified(r) ==
  /\ call[r].stage = "handler_awaits"
  /\ Uses(r)
  /\ Becomes(r, HandlerSays(call[r], Decoded(fetch[r], call[r].bearer)))
  /\ UNCHANGED path_routes

Leave(r) ==
  /\ call[r].stage = "done"
  /\ Becomes(r, NoCall)
  /\ UNCHANGED <<keyVars, path_routes>>

\* Someone mints an x-key for an email, or deletes it.
KeyChanges(x, user) ==
  /\ owner[x] # user
  /\ owner' = [owner EXCEPT ![x] = user]
  /\ owned' = [owned EXCEPT ![x] = @ \union {user}]
  /\ UNCHANGED <<keyVars, settings, path_routes, call>>

Next ==
  \/ \E r \in Requests :
       \/ \E c \in Calls : Arrive(r, c)
       \/ Gate(r) \/ GateVerified(r) \/ Route(r) \/ HandlerVerified(r) \/ Leave(r)
       \/ Fetches(r) /\ UNCHANGED gateVars
  \/ \E x \in XKeys : \E user \in Users \union {Nobody} : KeyChanges(x, user)
  \/ \E kid \in Kids : \E key \in Keys \union {None} : Rotates(kid, key) /\ UNCHANGED gateVars
  \/ Tick /\ UNCHANGED gateVars

Spec == GateInit /\ [][Next]_vars

-----------------------------------------------------------------------------
TypeOK ==
  /\ TypeOfKeys
  /\ settings \in Deployments
  /\ owner \in [XKeys -> Users \union {Nobody}]
  /\ DOMAIN path_routes \subseteq {Target(c) : c \in Calls}
  /\ \A r \in Requests :
       /\ call[r].stage \in {"none", "gate", "gate_awaits", "routed", "handler_awaits", "done"}
       /\ call[r].user \in Users \union {Nobody}

Served(r) == call[r].stage = "done" /\ call[r].status = 200

RightPassword(c) == c.basic = "right" /\ settings.password

\* With REQUIRE_API_KEY on, no handler runs for a request that has neither resolved to a
\* user nor given the username and password its own route asks for, unless the path is
\* public: whatever the cache of routes has kept of other requests.  require_api_key.
ClosedByDefault ==
  \A r \in Requests :
    LET c == call[r] IN
    Served(r) /\ settings.require_api_key =>
      \/ c.resolved # Nobody
      \/ IsPublic(c)
      \/ Enabled(Guard(RouteOf(Target(c)))) /\ RightPassword(c)

\* An endpoint that asks for a username and password needs no key on top while its switch
\* is on: whoever has them gets in, whatever other requests made the cache keep.
PasswordSuffices ==
  \A r \in Requests :
    LET c == call[r] IN
    /\ c.stage = "done"
    /\ Enabled(Guard(RouteOf(Target(c))))
    /\ RightPassword(c)
    /\ ~Routes[RouteOf(Target(c))].user
    => Served(r)

\* A request is one user's from the gate to its answer, although its x-key is deleted or
\* given to someone else meanwhile; and an x-key decides before a token.  fetch_user.
OneUser ==
  \A r \in Requests :
    LET c == call[r] IN
    /\ Served(r) /\ c.resolved # Nobody /\ c.user # Nobody => c.user = c.resolved
    /\ Served(r) /\ c.user # Nobody =>
         IF c.x_keys # <<>> THEN Len(c.x_keys) = 1 /\ c.user \in owned[c.x_keys[1]]
         ELSE c.user = c.bearer.email

\* The cache of routes is bounded, and what it has kept of a path is its route.
CachedRoutesRight ==
  /\ Cardinality(DOMAIN path_routes) <= PathRoutesMax
  /\ \A t \in DOMAIN path_routes : path_routes[t] = RouteOf(t)
=============================================================================
