----------------------------- MODULE MCKeyGate ------------------------------
(***************************************************************************)
(* A small instance of KeyGate.                                            *)
(***************************************************************************)
EXTENDS KeyGate

CONSTANTS ann, bob, x1, k1, a, b

Sleeps == <<1, 1>>

Route_(methods, path, guard, user) ==
  [methods |-> methods, path |-> path, guard |-> guard, user |-> user]

SomeRoutes ==
  <<Route_({"GET"}, "/v2.0/features", "none", TRUE),
    Route_({"POST"}, "/v2.0/check", "none", TRUE),
    Route_({"PUT"}, "/api_keys", "management", FALSE),
    Route_({"GET"}, "/tokenize", "docs", FALSE)>>

Issuer(client_id, kind, scope) == [client_id |-> client_id, kind |-> kind, scope |-> scope]

SomeIssuers ==
  <<Issuer("b2c", "domain", "user"), Issuer("office", "tid", "user"),
    Issuer("dashboard", "jwks", None)>>

TokenOf(aud, key, scopes, tid) ==
  [aud |-> aud, kid |-> k1, key |-> key, valid |-> TRUE, scopes |-> scopes, tid |-> tid,
   email |-> bob]

SomeTokens ==
  {TokenOf("dashboard", a, {}, "none"), TokenOf("b2c", b, {"user"}, "none"),
   TokenOf("office", a, {}, "guid"), TokenOf("office", a, {}, "bad"),
   TokenOf("office", a, {}, "none")}

Call_(method, path, x_keys, bearer, basic) ==
  [method |-> method, path |-> path, slash |-> FALSE, x_keys |-> x_keys, bearer |-> bearer,
   basic |-> basic]

SomeCalls ==
  {Call_("POST", "/v2.0/check", x, t, "none") :
     x \in {<<>>, <<x1>>, <<x1, x1>>}, t \in SomeTokens \union {Malformed, NoToken}}
  \union {Call_(m, "/api_keys", x, NoToken, p) :
            m \in {"GET", "PUT", "OPTIONS"}, x \in {<<>>, <<x1>>}, p \in {"none", "right", "wrong"}}
  \union {Call_("GET", "/tokenize", x, NoToken, p) : x \in {<<>>, <<x1>>}, p \in {"none", "right"}}
  \union {[Call_("GET", "/v2.0/features", x, NoToken, "none") EXCEPT !.slash = s] :
            x \in {<<>>, <<x1>>}, s \in BOOLEAN}

SomeDeployments ==
  {[require_api_key |-> key, management |-> m, docs |-> d, password |-> p,
    open |-> {"/v2.0/features"}] :
     key \in BOOLEAN, <<m, d, p>> \in {<<TRUE, FALSE, TRUE>>, <<TRUE, TRUE, FALSE>>,
                                      <<FALSE, TRUE, TRUE>>}}
=============================================================================
