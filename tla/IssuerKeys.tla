----------------------------- MODULE IssuerKeys -----------------------------
(***************************************************************************)
(* The public keys that verify bearer tokens (app/auth_service.py): fetched *)
(* from the issuer's JWKS document, up to three times with a timeout each, *)
(* and cached in Redis under their kid for as long as the issuer's         *)
(* Cache-Control says.  Issuers rotate their keys at any moment, and       *)
(* several requests of several workers fetch the same key at once.         *)
(*                                                                         *)
(* Time is in ticks and never absolute: entries have the rest of their     *)
(* TTL, requests what they have waited, keys the age of their last         *)
(* publication.  The document an issuer serves is what it publishes at     *)
(* that moment; reading its body may take much longer.                     *)
(***************************************************************************)
EXTENDS Naturals

CONSTANTS
  Requests,     \* the requests that may be verifying a token at once
  Kids,         \* key ids; assumed to be unique over the issuers
  Keys,         \* the key material an issuer may publish under a kid
  None,         \* no kid; nothing published, read, cached or found
  GetTimeout,   \* wait_for on session.get: 5 seconds
  ReadTimeout,  \* external: aiohttp's limit on a whole request, 5 minutes
  Backoff,      \* the sleeps after the first and the second attempt
  MaxAges,      \* what Cache-Control's max-age may say; 0 also for none
  DefaultTtl,   \* 3600 seconds
  LongestTtl    \* the longest TTL these give

-----------------------------------------------------------------------------
Retries == 3

\* The TTL of a cached key.  A max-age of 0 counts as none given.
Ttl(max_age) == IF max_age > 0 THEN max_age ELSE DefaultTtl

ASSUME IssuerKeysAssumption ==
  /\ None \notin Keys \union Kids
  /\ DefaultTtl \in Nat \ {0}
  /\ {GetTimeout, ReadTimeout, LongestTtl} \subseteq Nat
  /\ GetTimeout <= ReadTimeout
  /\ Backoff \in [1 .. 2 -> Nat]
  /\ MaxAges \subseteq Nat
  /\ \A m \in MaxAges \union {0} : Ttl(m) <= LongestTtl

\* All the time a request may wait for a key: its attempts', and the sleeps between.
Longest == ReadTimeout + Backoff[1] + ReadTimeout + Backoff[2] + ReadTimeout

\* Bounds: older or longer than this is not told apart.
Oldest == ReadTimeout + LongestTtl + 1
TooLong == Longest + 1

OneMore(n, bound) == IF n < bound THEN n + 1 ELSE bound

VARIABLES
  published,    \* the issuers' JWKS: the key under each kid
  rsa_pem,      \* Redis: `rsa_pem:<kid>`, a key and the rest of its TTL
  fetch,        \* each request's get_rsa_key
  age           \* history: how long ago each key was last published under each kid

keyVars == <<published, rsa_pem, fetch, age>>

-----------------------------------------------------------------------------
NoEntry == [key |-> None, ttl |-> 0]

\* One call of get_rsa_key.  `spent`: on this attempt or sleep; `body`: what the document
\* being read has under the kid.  History: `waited`, since the beginning; `refusals`, the
\* issuer's definite answers; `steady`, whether the kid has kept its key all the time.
Unasked == [stage |-> "unasked", kid |-> None, attempt |-> 0, spent |-> 0, body |-> None,
            key |-> None, waited |-> 0, refusals |-> 0, steady |-> TRUE]

Waiting == {"asking", "reading", "sleeping"}
Ended == {"found", "refused", "unknown", "gave_up"}

Allowed(f) ==
  CASE f.stage = "asking" -> GetTimeout
    [] f.stage = "reading" -> ReadTimeout
    [] f.stage = "sleeping" -> Backoff[f.attempt]

Due(f) == f.stage \in Waiting /\ f.spent >= Allowed(f)

KeysInit ==
  /\ published \in [Kids -> Keys \union {None}]
  /\ rsa_pem = [k \in Kids |-> NoEntry]
  /\ fetch = [r \in Requests |-> Unasked]
  /\ age = [k \in Kids |-> [key \in Keys |-> IF published[k] = key THEN 0 ELSE Oldest]]

-----------------------------------------------------------------------------
Found(f, key) == [f EXCEPT !.stage = "found", !.key = key, !.body = None]

Failed(f, how) == [f EXCEPT !.stage = how, !.body = None]

Asking(f) == [f EXCEPT !.stage = "asking", !.attempt = @ + 1, !.spent = 0]

\* Another attempt after a sleep, or none is left.
TryAgain(f) ==
  IF f.attempt < Retries
  THEN [f EXCEPT !.stage = "sleeping", !.spent = 0, !.body = None]
  ELSE Failed(f, "gave_up")

\* A definite answer of the issuer.
Refused(f, how) == [Failed(f, how) EXCEPT !.refusals = @ + 1]

Moves(r, f) ==
  /\ fetch' = [fetch EXCEPT ![r] = f]
  /\ UNCHANGED <<published, age>>

\* get_rsa_key: from Redis, or the first attempt begins.
GetRsaKey(r, kid) ==
  LET begun == [Unasked EXCEPT !.kid = kid]
  IN  /\ fetch[r].stage = "unasked"
      /\ Moves(r, IF rsa_pem[kid].key # None THEN Found(begun, rsa_pem[kid].key)
                  ELSE Asking(begun))
      /\ UNCHANGED rsa_pem

\* The issuer answers 200, with what it publishes now.
Answers(r) ==
  /\ fetch[r].stage = "asking"
  /\ Moves(r, [fetch[r] EXCEPT !.stage = "reading", !.body = published[fetch[r].kid]])
  /\ UNCHANGED rsa_pem

\* It answers with another status: not tried again.
ErrorStatus(r) ==
  /\ fetch[r].stage = "asking"
  /\ Moves(r, Refused(fetch[r], "refused"))
  /\ UNCHANGED rsa_pem

\* Mutant: a body that is no JSON is read as a document without keys.
Breaks_Empty(r) ==
  /\ fetch[r].stage \in {"asking", "reading"}
  /\ Moves(r, IF fetch[r].stage = "asking" THEN TryAgain(fetch[r]) ELSE Refused(fetch[r], "unknown"))
  /\ UNCHANGED rsa_pem

\* The connection breaks, or the body is not JSON.
Breaks(r) ==
  /\ fetch[r].stage \in {"asking", "reading"}
  /\ Moves(r, TryAgain(fetch[r]))
  /\ UNCHANGED rsa_pem

\* Mutant: an attempt that timed out is not counted.
TimesOut_Uncounted(r) ==
  /\ fetch[r].stage \in {"asking", "reading"}
  /\ Due(fetch[r])
  /\ Moves(r, [fetch[r] EXCEPT !.stage = "asking", !.spent = 0, !.body = None])
  /\ UNCHANGED rsa_pem

TimesOut(r) ==
  /\ fetch[r].stage \in {"asking", "reading"}
  /\ Due(fetch[r])
  /\ Moves(r, TryAgain(fetch[r]))
  /\ UNCHANGED rsa_pem

WakesUp(r) ==
  /\ fetch[r].stage = "sleeping"
  /\ Due(fetch[r])
  /\ Moves(r, Asking(fetch[r]))
  /\ UNCHANGED rsa_pem

\* The document has the kid: its key is cached, unless Redis fails to, and used.
ReadsKey(r, max_age) ==
  LET f == fetch[r] IN
  /\ f.stage = "reading"
  /\ f.body # None
  /\ \/ rsa_pem' = [rsa_pem EXCEPT ![f.kid] = [key |-> f.body, ttl |-> Ttl(max_age)]]
     \/ UNCHANGED rsa_pem
  /\ Moves(r, Found(f, f.body))

\* It does not: not tried again.
LacksKey(r) ==
  /\ fetch[r].stage = "reading"
  /\ fetch[r].body = None
  /\ Moves(r, Refused(fetch[r], "unknown"))
  /\ UNCHANGED rsa_pem

\* What goes on in get_rsa_key behind its first await.
Fetches(r) ==
  \/ Answers(r) \/ ErrorStatus(r) \/ Breaks(r) \/ TimesOut(r) \/ WakesUp(r)
  \/ \E max_age \in MaxAges : ReadsKey(r, max_age)
  \/ LacksKey(r)

\* The key is used, or the request refused, without an await in between.
Uses(r) ==
  /\ fetch[r].stage \in Ended
  /\ Moves(r, Unasked)
  /\ UNCHANGED rsa_pem

-----------------------------------------------------------------------------
\* The issuer publishes another key under a kid, or withdraws it.
Rotates(kid, key) ==
  /\ published[kid] # key
  /\ published' = [published EXCEPT ![kid] = key]
  /\ age' = IF key = None THEN age ELSE [age EXCEPT ![kid][key] = 0]
  /\ fetch' = [r \in Requests |-> IF fetch[r].kid = kid THEN [fetch[r] EXCEPT !.steady = FALSE]
                                   ELSE fetch[r]]
  /\ UNCHANGED rsa_pem

\* Mutant: entries are written without an expiry.
Older_NoExpiry(e) == e

Older(e) == IF e.ttl <= 1 THEN NoEntry ELSE [e EXCEPT !.ttl = @ - 1]

\* A tick passes.  The event loop runs what is ready, and a timer when it is due.
Tick ==
  /\ \A r \in Requests : fetch[r].stage \notin Ended /\ ~Due(fetch[r])
  /\ rsa_pem' = [k \in Kids |-> Older(rsa_pem[k])]
  /\ fetch' = [r \in Requests |->
                 IF fetch[r].stage \in Waiting
                 THEN [fetch[r] EXCEPT !.spent = @ + 1, !.waited = OneMore(@, TooLong)]
                 ELSE fetch[r]]
  /\ age' = [k \in Kids |-> [key \in Keys |->
               IF published[k] = key THEN 0 ELSE OneMore(age[k][key], Oldest)]]
  /\ UNCHANGED published

KeysNext ==
  \/ \E r \in Requests : (\E kid \in Kids : GetRsaKey(r, kid)) \/ Fetches(r) \/ Uses(r)
  \/ \E kid \in Kids : \E key \in Keys \union {None} : Rotates(kid, key)
  \/ Tick

KeysSpec == KeysInit /\ [][KeysNext]_keyVars

-----------------------------------------------------------------------------
TypeOfKeys ==
  /\ published \in [Kids -> Keys \union {None}]
  /\ rsa_pem \in [Kids -> [key : Keys \union {None}, ttl : 0 .. LongestTtl]]
  /\ fetch \in [Requests ->
       [stage : Waiting \union Ended \union {"unasked"}, kid : Kids \union {None},
        attempt : 0 .. Retries, spent : Nat, body : Keys \union {None},
        key : Keys \union {None}, waited : 0 .. TooLong, refusals : Nat, steady : BOOLEAN]]
  /\ age \in [Kids -> [Keys -> 0 .. Oldest]]

\* A key an issuer withdraws (because it leaked, say) goes on verifying tokens for as
\* long as it is cached, and a slow fetch may cache it anew after the withdrawal, also
\* over the key that replaces it.  Yet no token is verified with a key that its issuer
\* has not published under its kid within one TTL and one fetch.  get_rsa_key.
KeysExpire ==
  \A r \in Requests : fetch[r].stage = "found" =>
    age[fetch[r].kid][fetch[r].key] <= ReadTimeout + LongestTtl

\* "A key rotation needs no redeploy" (decode_jwks_jwt): a key that has been published
\* since its token came is not missed, whatever was cached or looked for before.
RotationIsFollowed ==
  \A r \in Requests :
    fetch[r].stage = "unknown" /\ fetch[r].steady => published[fetch[r].kid] = None

\* What the issuer means is not asked again: one request gets one definite answer,
\* whatever failed before it.  get_rsa_key_, "Don't retry on deterministic auth errors".
RefusedOnce == \A r \in Requests : fetch[r].refusals <= 1

\* Whatever the issuer does, a request has its key or its refusal in time: the timeouts
\* of its attempts and the sleeps between them are all it waits for.  get_rsa_key_.
AnsweredInTime == \A r \in Requests : fetch[r].waited <= Longest
=============================================================================
