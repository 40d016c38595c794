--------------------------- MODULE KeyGate_proofs ---------------------------
(***************************************************************************)
(* Theorems about KeyGate, for any calls, routes, users and issuers. The   *)
(* issuers' keys come first: what each of their steps keeps, KInv, the     *)
(* steps of the gate keep too.                                             *)
(***************************************************************************)
EXTENDS KeyGate, TLAPS, FiniteSetTheorems, SequenceTheorems

(***************************************************************************)
(* Why a key is used no longer than it should: a document being read is as *)
(* old as the attempt at the most, and a cached key's age and the rest of  *)
(* its TTL together are never more than one fetch and one TTL.             *)
(***************************************************************************)
FetchType ==
  [stage : Waiting \union Ended \union {"unasked"}, kid : Kids \union {None},
   attempt : 0 .. Retries, spent : Nat, body : Keys \union {None},
   key : Keys \union {None}, waited : 0 .. TooLong, refusals : Nat, steady : BOOLEAN]

\* What a request may have waited before its attempt n.
Before(n) ==
  IF n = 1 THEN 0
  ELSE IF n = 2 THEN ReadTimeout + Backoff[1]
  ELSE ReadTimeout + Backoff[1] + ReadTimeout + Backoff[2]

\* The attempts of a request, and its time.
Timely(f) ==
  /\ f.stage \in {"asking", "reading"} =>
       /\ f.attempt \in 1 .. 3
       /\ f.spent <= Allowed(f)
       /\ f.waited <= Before(f.attempt) + f.spent
  /\ f.stage = "sleeping" =>
       /\ f.attempt \in 1 .. 2
       /\ f.spent <= Allowed(f)
       /\ f.waited <= Before(f.attempt) + ReadTimeout + f.spent
  /\ f.waited <= Longest

\* How often the issuer has said no.
Once(f) == (f.stage \in Waiting => f.refusals = 0) /\ f.refusals <= 1

\* What it has read or found, by the ages of the keys.
Fresh(f, published_, age_) ==
  /\ f.stage # "unasked" => f.kid \in Kids
  /\ f.stage = "reading" /\ f.body # None => age_[f.kid][f.body] <= f.spent
  /\ f.stage = "reading" /\ f.steady => f.body = published_[f.kid]
  /\ f.stage = "unknown" /\ f.steady => published_[f.kid] = None
  /\ f.stage = "found" => f.key \in Keys /\ age_[f.kid][f.key] <= ReadTimeout + LongestTtl

Sound(f, published_, age_) ==
  f \in FetchType /\ Timely(f) /\ Once(f) /\ Fresh(f, published_, age_)

Lasts(e, k) ==
  /\ e \in [key : Keys \union {None}, ttl : 0 .. LongestTtl]
  /\ e.key # None => e.ttl >= 1 /\ age[k][e.key] + e.ttl <= ReadTimeout + LongestTtl

Store ==
  /\ published \in [Kids -> Keys \union {None}]
  /\ age \in [Kids -> [Keys -> 0 .. Oldest]]
  /\ \A k \in Kids, key \in Keys : published[k] = key => age[k][key] = 0

Cache ==
  /\ rsa_pem \in [Kids -> [key : Keys \union {None}, ttl : 0 .. LongestTtl]]
  /\ \A k \in Kids : Lasts(rsa_pem[k], k)

KInv ==
  /\ Store
  /\ Cache
  /\ fetch \in [Requests -> FetchType]
  /\ \A r \in Requests : Sound(fetch[r], published, age)

LEMMA Numbers ==
  /\ DefaultTtl \in Nat /\ DefaultTtl >= 1
  /\ GetTimeout \in Nat /\ ReadTimeout \in Nat /\ LongestTtl \in Nat
  /\ GetTimeout <= ReadTimeout
  /\ Backoff[1] \in Nat /\ Backoff[2] \in Nat
  /\ Longest \in Nat /\ TooLong \in Nat /\ Oldest \in Nat
  /\ Oldest = ReadTimeout + LongestTtl + 1 /\ TooLong = Longest + 1
  /\ \A n \in 1 .. 3 : Before(n) \in Nat
  /\ None \notin Keys /\ None \notin Kids
<1>1. /\ DefaultTtl \in Nat /\ DefaultTtl >= 1
      /\ GetTimeout \in Nat /\ ReadTimeout \in Nat /\ LongestTtl \in Nat
      /\ GetTimeout <= ReadTimeout
      /\ None \notin Keys /\ None \notin Kids
  BY IssuerKeysAssumption
<1>2. Backoff[1] \in Nat /\ Backoff[2] \in Nat
  BY IssuerKeysAssumption
<1>3. QED
  BY <1>1, <1>2 DEF Longest, TooLong, Oldest, Before

LEMMA TtlBounds == \A m \in MaxAges : Ttl(m) \in 1 .. LongestTtl
  BY IssuerKeysAssumption DEF Ttl

LEMMA KeysInitEstablishes == KeysInit => KInv
<1> SUFFICES ASSUME KeysInit PROVE KInv
  OBVIOUS
<1>1. Store
  BY Numbers DEF Store, KeysInit
<1>2. Cache
  BY Numbers DEF Cache, KeysInit, Lasts, NoEntry
<1>3. Unasked \in FetchType /\ Timely(Unasked) /\ Once(Unasked)
  BY Numbers DEF Unasked, FetchType, Timely, Once, Waiting, Ended, Retries, Allowed
<1>4. Fresh(Unasked, published, age)
  BY DEF Fresh, Unasked
<1>5. QED
  BY <1>1, <1>2, <1>3, <1>4 DEF KInv, KeysInit, Sound

-----------------------------------------------------------------------------
\* The steps of one request.

\* A request moves to a sound record: nothing else is about it.
LEMMA MoveKeeps ==
  ASSUME KInv, NEW r \in Requests, NEW f, Moves(r, f), UNCHANGED rsa_pem,
         Sound(f, published, age)
  PROVE  KInv'
<1>1. Store'
  BY DEF KInv, Store, Moves
<1>2. Cache'
  BY DEF KInv, Cache, Lasts, Moves
<1>3. /\ fetch' \in [Requests -> FetchType]
      /\ \A q \in Requests : fetch'[q] = IF q = r THEN f ELSE fetch[q]
  BY DEF KInv, Moves, Sound
<1>4. \A q \in Requests : Sound(fetch'[q], published, age)
  BY <1>3 DEF KInv
<1>5. published' = published /\ age' = age
  BY DEF Moves
<1>6. QED
  BY <1>1, <1>2, <1>3, <1>4, <1>5 DEF KInv

\* Another attempt, or none: what was read is forgotten.
LEMMA TryAgainSound ==
  ASSUME NEW f, Sound(f, published, age), f.stage \in {"asking", "reading"}
  PROVE  Sound(TryAgain(f), published, age)
<1> DEFINE g == TryAgain(f)
<1> USE Numbers
<1>1. f \in FetchType /\ f.attempt \in 1 .. 3 /\ f.refusals = 0 /\ f.kid \in Kids
  BY DEF Sound, Timely, Once, Fresh, Waiting
<1>2. f.spent <= ReadTimeout /\ f.spent \in Nat /\ f.waited \in Nat
  BY <1>1 DEF Sound, Timely, Allowed, FetchType, TooLong, Longest
<1>3. f.waited <= Before(f.attempt) + ReadTimeout
  BY <1>1, <1>2 DEF Sound, Timely
<1>4. CASE f.attempt < 3
  <2>1. g = [f EXCEPT !.stage = "sleeping", !.spent = 0, !.body = None]
    BY <1>1, <1>4 DEF TryAgain, Retries
  <2>2. g \in FetchType
    BY <1>1, <2>1 DEF FetchType, Waiting
  <2>3. g.stage = "sleeping" /\ g.attempt \in 1 .. 2 /\ g.spent = 0 /\ g.waited = f.waited
        /\ g.refusals = 0 /\ g.kid \in Kids /\ g.attempt = f.attempt
    BY <1>1, <1>4, <2>1 DEF FetchType
  <2> HIDE DEF g
  <2>4. Timely(g)
    <3>1. Allowed(g) \in Nat
      BY <2>3 DEF Allowed
    <3>2. QED
      BY <1>3, <2>3, <3>1, f.waited <= Longest DEF Timely, Sound
  <2>5. Once(g) /\ Fresh(g, published, age)
    BY <2>3 DEF Once, Fresh
  <2>6. QED
    BY <2>2, <2>4, <2>5 DEF Sound, g
<1>5. CASE ~(f.attempt < 3)
  <2>1. g = [f EXCEPT !.stage = "gave_up", !.body = None]
    BY <1>1, <1>5 DEF TryAgain, Retries, Failed
  <2>2. g \in FetchType
    BY <1>1, <2>1 DEF FetchType, Ended
  <2>3. g.stage = "gave_up" /\ g.waited = f.waited /\ g.refusals = 0 /\ g.kid \in Kids
    BY <1>1, <2>1 DEF FetchType
  <2> HIDE DEF g
  <2>4. Timely(g)
    BY <2>3, f.waited <= Longest DEF Timely, Sound
  <2>5. Once(g) /\ Fresh(g, published, age)
    BY <2>3 DEF Once, Fresh, Waiting
  <2>6. QED
    BY <2>2, <2>4, <2>5 DEF Sound, g
<1>6. QED
  BY <1>4, <1>5

\* A definite answer of the issuer, `unknown` only where it publishes nothing.
LEMMA RefusedSound ==
  ASSUME NEW f, Sound(f, published, age), f.stage \in {"asking", "reading"},
         NEW how \in {"refused", "unknown"},
         how = "unknown" /\ f.steady => published[f.kid] = None
  PROVE  Sound(Refused(f, how), published, age)
<1> DEFINE g == Refused(f, how)
<1> USE Numbers
<1>1. f \in FetchType /\ f.refusals = 0 /\ f.kid \in Kids /\ f.waited <= Longest
  BY DEF Sound, Timely, Once, Fresh, Waiting
<1> DEFINE h == [f EXCEPT !.stage = how, !.body = None]
<1>2. /\ h \in FetchType /\ h.stage = how /\ h.waited = f.waited /\ h.refusals = 0
      /\ h.kid = f.kid /\ h.steady = f.steady
  BY <1>1 DEF FetchType, Ended
<1> HIDE DEF h
<1>3. g = [h EXCEPT !.refusals = 1]
  <2>1. h = Failed(f, how)
    BY DEF h, Failed
  <2>2. g = [h EXCEPT !.refusals = h.refusals + 1]
    BY <2>1 DEF Refused
  <2> HIDE DEF g
  <2>3. QED
    BY <1>2, <2>2
<1>4. /\ g \in FetchType
      /\ g.stage = how /\ g.waited = f.waited /\ g.refusals = 1 /\ g.kid = f.kid
      /\ g.steady = f.steady
  BY <1>2, <1>3 DEF FetchType
<1> HIDE DEF g
<1>5. Timely(g) /\ Once(g)
  BY <1>1, <1>4 DEF Timely, Once, Waiting
<1>6. Fresh(g, published, age)
  BY <1>1, <1>4 DEF Fresh
<1>7. QED
  BY <1>4, <1>5, <1>6 DEF Sound, g

\* A key is found, fresh enough.
LEMMA FoundSound ==
  ASSUME NEW f \in FetchType, NEW key \in Keys, f.refusals = 0, f.kid \in Kids,
         f.waited <= Longest, age[f.kid][key] <= ReadTimeout + LongestTtl
  PROVE  Sound(Found(f, key), published, age)
<1> DEFINE g == Found(f, key)
<1> USE Numbers
<1>1. g = [f EXCEPT !.stage = "found", !.key = key, !.body = None]
  BY DEF Found
<1>2. g \in FetchType
  BY <1>1 DEF FetchType, Ended
<1>3. /\ g.stage = "found" /\ g.waited = f.waited /\ g.refusals = 0 /\ g.kid = f.kid
      /\ g.key = key
  BY <1>1 DEF FetchType
<1> HIDE DEF g
<1>4. Timely(g) /\ Once(g) /\ Fresh(g, published, age)
  BY <1>3 DEF Timely, Once, Fresh, Waiting
<1>5. QED
  BY <1>2, <1>4 DEF Sound, g

\* The first attempt, or the next one when the sleep before it is over.
LEMMA AskingSound ==
  ASSUME NEW f \in FetchType, f.attempt \in 0 .. 2, f.refusals = 0, f.kid \in Kids,
         f.waited <= Longest, f.waited <= Before(f.attempt + 1)
  PROVE  Sound(Asking(f), published, age)
<1> DEFINE g == Asking(f)
<1> USE Numbers
<1>1. g = [f EXCEPT !.stage = "asking", !.attempt = f.attempt + 1, !.spent = 0]
  <2> DEFINE h == [f EXCEPT !.stage = "asking"]
  <2>1. h.attempt = f.attempt
    BY DEF FetchType
  <2>2. g = [h EXCEPT !.attempt = h.attempt + 1, !.spent = 0]
    BY DEF Asking
  <2>3. QED
    BY <2>1, <2>2
<1>2. g \in FetchType
  <2>1. f.attempt + 1 \in 0 .. Retries
    BY DEF Retries
  <2>2. "asking" \in Waiting \union Ended \union {"unasked"}
    BY DEF Waiting
  <2>3. QED
    BY <1>1, <2>1, <2>2 DEF FetchType
<1>3. /\ g.stage = "asking" /\ g.waited = f.waited /\ g.refusals = 0 /\ g.kid = f.kid
      /\ g.attempt = f.attempt + 1 /\ g.attempt \in 1 .. 3 /\ g.spent = 0
  BY <1>1 DEF FetchType
<1>4. f.waited \in Nat
  BY DEF FetchType
<1> HIDE DEF g
<1>5. Timely(g)
  BY <1>3, <1>4 DEF Timely, Allowed
<1>6. Once(g) /\ Fresh(g, published, age)
  BY <1>3 DEF Once, Fresh
<1>7. QED
  BY <1>2, <1>5, <1>6 DEF Sound, g

LEMMA GetRsaKeyKeeps ==
  ASSUME KInv, NEW r \in Requests, NEW kid \in Kids, GetRsaKey(r, kid)
  PROVE  KInv'
<1> DEFINE begun == [Unasked EXCEPT !.kid = kid]
<1> USE Numbers
<1>1. begun \in FetchType
  <2>1. Unasked \in FetchType
    BY DEF Unasked, FetchType, Retries
  <2>2. QED
    BY <2>1 DEF FetchType
<1>2. begun.attempt = 0 /\ begun.refusals = 0 /\ begun.kid = kid /\ begun.waited = 0
  BY DEF Unasked
<1>3. rsa_pem[kid] \in [key : Keys \union {None}, ttl : 0 .. LongestTtl] /\ Lasts(rsa_pem[kid], kid)
  BY DEF KInv, Cache
<1> HIDE DEF begun
<1>4. CASE rsa_pem[kid].key # None
  <2>1. rsa_pem[kid].key \in Keys
    BY <1>3, <1>4
  <2>2. age[kid][rsa_pem[kid].key] \in Nat
    BY <2>1 DEF KInv, Store
  <2>3. age[kid][rsa_pem[kid].key] <= ReadTimeout + LongestTtl
    BY <1>3, <1>4, <2>2 DEF Lasts
  <2>4. Sound(Found(begun, rsa_pem[kid].key), published, age)
    BY <1>1, <1>2, <2>1, <2>3, FoundSound
  <2>5. QED
    BY <1>4, <2>4, MoveKeeps DEF GetRsaKey, begun
<1>5. CASE rsa_pem[kid].key = None
  <2>1. Sound(Asking(begun), published, age)
    BY <1>1, <1>2, AskingSound DEF Before
  <2>2. QED
    BY <1>5, <2>1, MoveKeeps DEF GetRsaKey, begun
<1>6. QED
  BY <1>4, <1>5

LEMMA AnswersKeeps ==
  ASSUME KInv, NEW r \in Requests, Answers(r)
  PROVE  KInv'
<1> DEFINE f == fetch[r]
           g == [f EXCEPT !.stage = "reading", !.body = published[f.kid]]
<1> USE Numbers
<1>1. f \in FetchType /\ Sound(f, published, age) /\ f.stage = "asking"
  BY DEF KInv, Answers
<1>2. f.kid \in Kids /\ f.refusals = 0 /\ published[f.kid] \in Keys \union {None}
  BY <1>1 DEF Sound, Fresh, Once, Waiting, KInv, Store
<1> HIDE DEF f
<1>3. g \in FetchType
  BY <1>1, <1>2 DEF FetchType, Waiting
<1>4. /\ g.stage = "reading" /\ g.body = published[f.kid] /\ g.kid = f.kid /\ g.spent = f.spent
      /\ g.attempt = f.attempt /\ g.waited = f.waited /\ g.refusals = 0
  BY <1>1, <1>2 DEF FetchType
<1>5. f.spent \in Nat /\ f.waited \in Nat /\ f.spent <= GetTimeout
  BY <1>1 DEF FetchType, Sound, Timely, Allowed
<1>6. published[f.kid] # None => age[f.kid][published[f.kid]] = 0
  BY <1>2 DEF KInv, Store
<1> HIDE DEF g
<1>7. Timely(g)
  BY <1>1, <1>4, <1>5 DEF Sound, Timely, Allowed
<1>8. Once(g) /\ Fresh(g, published, age)
  BY <1>2, <1>4, <1>5, <1>6 DEF Once, Fresh
<1>9. Sound(g, published, age)
  BY <1>3, <1>7, <1>8 DEF Sound
<1>10. QED
  BY <1>9, MoveKeeps DEF Answers, f, g

LEMMA FetchesKeeps ==
  ASSUME KInv, NEW r \in Requests, Fetches(r)
  PROVE  KInv'
<1> USE Numbers
<1>1. fetch[r] \in FetchType /\ Sound(fetch[r], published, age)
  BY DEF KInv
<1>2. CASE Answers(r)
  BY <1>2, AnswersKeeps
<1>3. CASE ErrorStatus(r)
  BY <1>1, <1>3, RefusedSound, MoveKeeps DEF ErrorStatus
<1>4. CASE Breaks(r)
  BY <1>1, <1>4, TryAgainSound, MoveKeeps DEF Breaks
<1>5. CASE TimesOut(r)
  BY <1>1, <1>5, TryAgainSound, MoveKeeps DEF TimesOut
<1>6. CASE WakesUp(r)
  <2>1. fetch[r].stage = "sleeping"
    BY <1>6 DEF WakesUp
  <2>2. /\ fetch[r].attempt \in 1 .. 2 /\ fetch[r].refusals = 0 /\ fetch[r].kid \in Kids
        /\ fetch[r].waited <= Longest /\ fetch[r].spent <= Backoff[fetch[r].attempt]
        /\ fetch[r].waited <= Before(fetch[r].attempt) + ReadTimeout + fetch[r].spent
        /\ fetch[r].waited \in Nat /\ fetch[r].spent \in Nat
    BY <1>1, <2>1 DEF Sound, Timely, Once, Fresh, Waiting, Allowed, FetchType
  <2>3. fetch[r].waited <= Before(fetch[r].attempt + 1)
    BY <2>2 DEF Before
  <2>4. Sound(Asking(fetch[r]), published, age)
    BY <1>1, <2>2, <2>3, AskingSound
  <2>5. QED
    BY <1>6, <2>4, MoveKeeps DEF WakesUp
<1>7. ASSUME NEW max_age \in MaxAges, ReadsKey(r, max_age) PROVE KInv'
  <2> DEFINE f == fetch[r]
  <2>1. f.stage = "reading" /\ f.body # None
    BY <1>7 DEF ReadsKey
  <2>2. /\ f.body \in Keys /\ f.kid \in Kids /\ f.refusals = 0 /\ f.waited <= Longest
        /\ f.spent \in Nat /\ f.spent <= ReadTimeout /\ age[f.kid][f.body] <= f.spent
    BY <1>1, <2>1 DEF Sound, Timely, Once, Fresh, Waiting, Allowed, FetchType
  <2>3. age[f.kid][f.body] \in Nat
    BY <2>2 DEF KInv, Store
  <2>4. Sound(Found(f, f.body), published, age)
    BY <1>1, <2>2, <2>3, FoundSound
  <2>5. Store' /\ published' = published /\ age' = age
    BY <1>7 DEF ReadsKey, Moves, KInv, Store
  <2>6. /\ fetch' \in [Requests -> FetchType]
        /\ \A q \in Requests : Sound(fetch'[q], published, age)
    BY <1>7, <2>4 DEF ReadsKey, Moves, KInv, Sound
  <2>7. Cache'
    <3> DEFINE e == [key |-> f.body, ttl |-> Ttl(max_age)]
    <3>1. Ttl(max_age) \in 1 .. LongestTtl
      BY TtlBounds
    <3>2. Lasts(e, f.kid)
      BY <2>2, <2>3, <3>1 DEF Lasts
    <3>3. rsa_pem' = [rsa_pem EXCEPT ![f.kid] = e] \/ rsa_pem' = rsa_pem
      BY <1>7 DEF ReadsKey
    <3>4. e \in [key : Keys \union {None}, ttl : 0 .. LongestTtl]
      BY <2>2, <3>1
    <3> HIDE DEF e
    <3>5. /\ rsa_pem' \in [Kids -> [key : Keys \union {None}, ttl : 0 .. LongestTtl]]
          /\ \A k \in Kids : rsa_pem'[k] = rsa_pem[k] \/ (k = f.kid /\ rsa_pem'[k] = e)
      BY <2>2, <3>3, <3>4 DEF KInv, Cache
    <3>6. \A k \in Kids : Lasts(rsa_pem'[k], k)
      BY <3>2, <3>5 DEF KInv, Cache
    <3>7. QED
      BY <2>5, <3>5, <3>6 DEF Cache, Lasts
  <2>8. QED
    BY <2>5, <2>6, <2>7 DEF KInv
<1>8. CASE LacksKey(r)
  <2>1. fetch[r].stage = "reading" /\ (fetch[r].steady => published[fetch[r].kid] = None)
    BY <1>1, <1>8 DEF LacksKey, Sound, Fresh
  <2>2. Sound(Refused(fetch[r], "unknown"), published, age)
    BY <1>1, <2>1, RefusedSound
  <2>3. QED
    BY <1>8, <2>2, MoveKeeps DEF LacksKey
<1>9. QED
  BY <1>2, <1>3, <1>4, <1>5, <1>6, <1>7, <1>8 DEF Fetches

LEMMA UsesKeeps ==
  ASSUME KInv, NEW r \in Requests, Uses(r)
  PROVE  KInv'
<1>1. Unasked \in FetchType /\ Timely(Unasked) /\ Once(Unasked)
  BY Numbers DEF Unasked, FetchType, Timely, Once, Waiting, Ended, Retries, Allowed
<1>2. Fresh(Unasked, published, age)
  BY DEF Fresh, Unasked
<1>3. QED
  BY <1>1, <1>2, MoveKeeps DEF Sound, Uses

-----------------------------------------------------------------------------
\* The steps of the issuer and of time.

LEMMA RotatesKeeps ==
  ASSUME KInv, NEW kid \in Kids, NEW key \in Keys \union {None}, Rotates(kid, key)
  PROVE  KInv'
<1> USE Numbers
<1>1. /\ published' \in [Kids -> Keys \union {None}]
      /\ \A k \in Kids : published'[k] = IF k = kid THEN key ELSE published[k]
  BY DEF Rotates, KInv, Store
<1>2. /\ age' \in [Kids -> [Keys -> 0 .. Oldest]]
      /\ \A k \in Kids, x \in Keys :
           /\ age'[k][x] <= age[k][x]
           /\ age'[k][x] = IF k = kid /\ x = key THEN 0 ELSE age[k][x]
  <2>1. age \in [Kids -> [Keys -> 0 .. Oldest]]
    BY DEF KInv, Store
  <2>2. CASE key = None
    BY <2>1, <2>2 DEF Rotates
  <2>3. CASE key \in Keys
    <3>1. age' = [age EXCEPT ![kid][key] = 0]
      BY <2>3 DEF Rotates
    <3>2. /\ age' \in [Kids -> [Keys -> 0 .. Oldest]]
          /\ \A k \in Kids, x \in Keys : age'[k][x] = IF k = kid /\ x = key THEN 0 ELSE age[k][x]
      BY <2>1, <2>3, <3>1
    <3>3. QED
      BY <2>1, <3>2
  <2>4. QED
    BY <2>2, <2>3
<1>3. Store'
  BY <1>1, <1>2 DEF KInv, Store
<1>4. rsa_pem' = rsa_pem
  BY DEF Rotates
<1>5. Cache'
  <2>1. ASSUME NEW k \in Kids PROVE Lasts(rsa_pem[k], k)'
    <3>1. rsa_pem[k] \in [key : Keys \union {None}, ttl : 0 .. LongestTtl] /\ Lasts(rsa_pem[k], k)
      BY DEF KInv, Cache
    <3>2. CASE rsa_pem[k].key = None
      BY <1>4, <3>1, <3>2 DEF Lasts
    <3>3. CASE rsa_pem[k].key \in Keys
      <4>1. /\ age[k][rsa_pem[k].key] \in Nat /\ age'[k][rsa_pem[k].key] \in Nat
            /\ age'[k][rsa_pem[k].key] <= age[k][rsa_pem[k].key]
        BY <1>2, <3>3 DEF KInv, Store
      <4>2. QED
        BY <1>4, <3>1, <3>3, <4>1 DEF Lasts
    <3>4. QED
      BY <3>1, <3>2, <3>3
  <2>2. QED
    BY <1>4, <2>1 DEF KInv, Cache
<1>6. ASSUME NEW r \in Requests
      PROVE  fetch'[r] \in FetchType /\ Sound(fetch'[r], published', age')
  <2> DEFINE f == fetch[r]
             g == [f EXCEPT !.steady = FALSE]
  <2>1. f \in FetchType /\ Sound(f, published, age)
    BY DEF KInv
  <2>2. fetch'[r] = IF f.kid = kid THEN g ELSE f
    BY DEF Rotates
  <2>3. /\ g \in FetchType /\ g.steady = FALSE /\ g.stage = f.stage /\ g.kid = f.kid
        /\ g.attempt = f.attempt /\ g.spent = f.spent /\ g.body = f.body /\ g.key = f.key
        /\ g.waited = f.waited /\ g.refusals = f.refusals
    BY <2>1 DEF FetchType
  <2> HIDE DEF f, g
  <2>4. Allowed(g) = Allowed(f)
    BY <2>3 DEF Allowed
  <2>5. Timely(g) /\ Once(g)
    BY <2>1, <2>3, <2>4 DEF Sound, Timely, Once
  <2>6. f.spent \in Nat /\ f.body \in Keys \union {None} /\ f.key \in Keys \union {None}
    BY <2>1 DEF FetchType
  <2>7. \A x \in Keys : f.kid \in Kids =>
          /\ age[f.kid][x] \in Nat /\ age'[f.kid][x] \in Nat
          /\ age'[f.kid][x] <= age[f.kid][x]
    BY <1>2 DEF KInv, Store
  <2>8. CASE f.kid = kid
    <3>1. Fresh(g, published', age')
      BY <2>1, <2>3, <2>6, <2>7 DEF Sound, Fresh
    <3>2. QED
      BY <2>2, <2>3, <2>5, <2>8, <3>1 DEF Sound
  <2>9. CASE f.kid # kid
    <3>1. f.kid \in Kids => published'[f.kid] = published[f.kid]
      BY <1>1, <2>9
    <3>2. Fresh(f, published', age')
      BY <2>1, <2>6, <2>7, <3>1 DEF Sound, Fresh
    <3>3. QED
      BY <2>1, <2>2, <2>9, <3>2 DEF Sound
  <2>10. QED
    BY <2>8, <2>9
<1>7. fetch' \in [Requests -> FetchType]
  <2>1. fetch' = [r \in Requests |-> fetch'[r]]
    BY DEF Rotates
  <2>2. QED
    BY <1>6, <2>1
<1>8. QED
  BY <1>3, <1>5, <1>6, <1>7 DEF KInv

LEMMA OneMoreBounds ==
  ASSUME NEW bound \in Nat, NEW n \in 0 .. bound
  PROVE  OneMore(n, bound) \in 0 .. bound /\ OneMore(n, bound) <= n + 1
  BY DEF OneMore

\* A request that waits a tick more: its attempt or sleep was not due.
LEMMA WaitsSound ==
  ASSUME NEW f, Sound(f, published, age), f.stage \in Waiting, ~Due(f),
         NEW ages, ages \in [Kids -> [Keys -> 0 .. Oldest]],
         age \in [Kids -> [Keys -> 0 .. Oldest]],
         \A k \in Kids, x \in Keys : ages[k][x] <= age[k][x] + 1
  PROVE  Sound([f EXCEPT !.spent = @ + 1, !.waited = OneMore(@, TooLong)], published, ages)
<1> DEFINE w == OneMore(f.waited, TooLong)
           s == f.spent + 1
           g == [f EXCEPT !.spent = s, !.waited = w]
<1> USE Numbers
<1>1. f \in FetchType /\ f.kid \in Kids /\ f.refusals = 0
  BY DEF Sound, Fresh, Once, Waiting
<1>2. f.spent \in Nat /\ f.waited \in 0 .. TooLong /\ f.body \in Keys \union {None}
  BY <1>1 DEF FetchType
<1>3. w \in 0 .. TooLong /\ w <= f.waited + 1
  BY <1>2, OneMoreBounds
<1>3a. s \in Nat /\ s = f.spent + 1
  BY <1>2
<1> HIDE DEF w, s
<1>4. /\ g \in FetchType /\ g.spent = s /\ g.waited = w /\ g.stage = f.stage
      /\ g.kid = f.kid /\ g.attempt = f.attempt /\ g.body = f.body /\ g.key = f.key
      /\ g.refusals = f.refusals /\ g.steady = f.steady
  BY <1>1, <1>3, <1>3a DEF FetchType
<1>5. [f EXCEPT !.spent = @ + 1, !.waited = OneMore(@, TooLong)] = g
  BY DEF w, s
<1> HIDE DEF g
<1>6. Allowed(g) = Allowed(f)
  BY <1>4 DEF Allowed
<1>7. f.attempt \in 1 .. 3 /\ (f.stage = "sleeping" => f.attempt \in 1 .. 2)
  BY DEF Sound, Timely, Waiting
<1>8. Allowed(f) \in Nat /\ (f.stage # "sleeping" => Allowed(f) <= ReadTimeout)
      /\ (f.stage = "sleeping" => Allowed(f) = Backoff[f.attempt])
  BY <1>7 DEF Allowed, Waiting
<1>9. g.spent <= Allowed(g)
  BY <1>2, <1>4, <1>6, <1>8, <1>3a DEF Due
<1>10. Timely(g)
  <2>1. CASE f.stage \in {"asking", "reading"}
    <3>1. g.waited <= Before(g.attempt) + g.spent
      BY <1>2, <1>3, <1>4, <1>7, <1>3a, <2>1 DEF Sound, Timely
    <3>2. g.waited <= Before(f.attempt) + ReadTimeout
      BY <1>2, <1>3, <1>4, <1>6, <1>7, <1>8, <1>9, <1>3a, <2>1, <3>1
    <3>3. g.waited <= Longest
      BY <1>3, <1>4, <1>7, <3>2 DEF Before, Longest
    <3>4. QED
      BY <1>4, <1>7, <1>9, <2>1, <3>1, <3>3 DEF Timely
  <2>2. CASE f.stage = "sleeping"
    <3>1. g.waited <= Before(g.attempt) + ReadTimeout + g.spent
      BY <1>2, <1>3, <1>4, <1>7, <1>3a, <2>2 DEF Sound, Timely
    <3>2. g.waited <= Before(f.attempt) + ReadTimeout + Backoff[f.attempt]
      BY <1>2, <1>3, <1>4, <1>6, <1>7, <1>8, <1>9, <1>3a, <2>2, <3>1
    <3>3. g.waited <= Longest
      BY <1>3, <1>4, <1>7, <2>2, <3>2 DEF Before, Longest
    <3>4. QED
      BY <1>4, <1>7, <1>9, <2>2, <3>1, <3>3 DEF Timely
  <2>3. QED
    BY <2>1, <2>2 DEF Waiting
<1>11. Once(g)
  BY <1>1, <1>4 DEF Once
<1>12. Fresh(g, published, ages)
  <2>1. g.stage = "reading" /\ g.body # None => ages[g.kid][g.body] <= g.spent
    <3> SUFFICES ASSUME g.stage = "reading", g.body # None
                 PROVE  ages[g.kid][g.body] <= g.spent
      OBVIOUS
    <3>1. f.body \in Keys /\ age[f.kid][f.body] <= f.spent
      BY <1>2, <1>4 DEF Sound, Fresh
    <3>2. age[f.kid][f.body] \in Nat /\ ages[f.kid][f.body] \in Nat
      BY <1>1, <3>1
    <3>3. QED
      BY <1>1, <1>2, <1>4, <1>3a, <3>1, <3>2
  <2>2. g.stage # "found" /\ g.stage # "unknown"
    BY <1>4 DEF Waiting
  <2>3. QED
    BY <1>1, <1>4, <2>1, <2>2 DEF Sound, Fresh
<1>13. QED
  BY <1>4, <1>5, <1>10, <1>11, <1>12 DEF Sound

LEMMA TickKeeps ==
  ASSUME KInv, Tick
  PROVE  KInv'
<1> USE Numbers
<1>1. /\ age \in [Kids -> [Keys -> 0 .. Oldest]]
      /\ published \in [Kids -> Keys \union {None}] /\ published' = published
  BY DEF KInv, Store, Tick
<1>2. /\ age' \in [Kids -> [Keys -> 0 .. Oldest]]
      /\ \A k \in Kids, x \in Keys :
           /\ age'[k][x] <= age[k][x] + 1
           /\ published[k] = x => age'[k][x] = 0
  <2>1. age' = [k \in Kids |-> [key \in Keys |->
                 IF published[k] = key THEN 0 ELSE OneMore(age[k][key], Oldest)]]
    BY DEF Tick
  <2>2. \A k \in Kids, x \in Keys :
           /\ age[k][x] \in 0 .. Oldest
           /\ OneMore(age[k][x], Oldest) \in 0 .. Oldest
           /\ OneMore(age[k][x], Oldest) <= age[k][x] + 1
    BY <1>1, OneMoreBounds
  <2>3. QED
    BY <2>1, <2>2
<1>3. Store'
  BY <1>1, <1>2 DEF Store
<1>4. Cache'
  <2>1. ASSUME NEW k \in Kids
        PROVE  /\ rsa_pem'[k] \in [key : Keys \union {None}, ttl : 0 .. LongestTtl]
               /\ Lasts(rsa_pem[k], k)'
    <3> DEFINE e == rsa_pem[k]
    <3>1. e \in [key : Keys \union {None}, ttl : 0 .. LongestTtl] /\ Lasts(e, k)
      BY DEF KInv, Cache
    <3>2. rsa_pem'[k] = Older(e)
      BY DEF Tick
    <3> HIDE DEF e
    <3>3. CASE e.ttl <= 1
      <4>1. rsa_pem'[k] = [key |-> None, ttl |-> 0]
        BY <3>2, <3>3 DEF Older, NoEntry
      <4>2. QED
        BY <4>1 DEF Lasts
    <3>4. CASE ~(e.ttl <= 1)
      <4>1. /\ rsa_pem'[k] \in [key : Keys \union {None}, ttl : 0 .. LongestTtl]
            /\ rsa_pem'[k].key = e.key /\ rsa_pem'[k].ttl = e.ttl - 1
        BY <3>1, <3>2, <3>4 DEF Older
      <4>2. CASE e.key = None
        BY <4>1, <4>2 DEF Lasts
      <4>3. CASE e.key \in Keys
        <5>1. age[k][e.key] \in Nat /\ age'[k][e.key] \in Nat
              /\ age'[k][e.key] <= age[k][e.key] + 1
          BY <1>1, <1>2, <4>3
        <5>2. age[k][e.key] + e.ttl <= ReadTimeout + LongestTtl /\ e.ttl \in Nat
          BY <3>1, <4>3 DEF Lasts
        <5>3. QED
          BY <3>4, <4>1, <5>1, <5>2 DEF Lasts
      <4>4. QED
        BY <3>1, <4>2, <4>3
    <3>5. QED
      BY <3>3, <3>4
  <2>2. rsa_pem' = [k \in Kids |-> Older(rsa_pem[k])]
    BY DEF Tick
  <2>3. rsa_pem' \in [Kids -> [key : Keys \union {None}, ttl : 0 .. LongestTtl]]
    BY <2>1, <2>2
  <2>4. QED
    BY <2>1, <2>3 DEF Cache
<1>5. ASSUME NEW r \in Requests PROVE Sound(fetch'[r], published', age')
  <2>1. Sound(fetch[r], published, age) /\ fetch[r].stage \notin Ended /\ ~Due(fetch[r])
    BY DEF KInv, Tick
  <2>2. CASE fetch[r].stage \in Waiting
    <3>1. fetch'[r] = [fetch[r] EXCEPT !.spent = @ + 1, !.waited = OneMore(@, TooLong)]
      BY <2>2 DEF Tick
    <3> DEFINE ages == age'
    <3>2. /\ ages \in [Kids -> [Keys -> 0 .. Oldest]]
          /\ \A k \in Kids, x \in Keys : ages[k][x] <= age[k][x] + 1
      BY <1>2
    <3> HIDE DEF ages
    <3>3. Sound([fetch[r] EXCEPT !.spent = @ + 1, !.waited = OneMore(@, TooLong)], published, ages)
      BY <1>1, <2>1, <2>2, <3>2, WaitsSound, Zenon
    <3>4. QED
      BY <1>1, <3>1, <3>3 DEF ages
  <2>3. CASE fetch[r].stage \notin Waiting
    <3>1. fetch'[r] = fetch[r] /\ fetch[r].stage = "unasked"
      BY <2>1, <2>3 DEF Tick, Sound, FetchType
    <3>2. Fresh(fetch'[r], published', age')
      BY <3>1 DEF Fresh
    <3>3. QED
      BY <2>1, <3>1, <3>2 DEF Sound
  <2>4. QED
    BY <2>2, <2>3
<1>6. fetch' \in [Requests -> FetchType]
  <2>1. fetch' = [r \in Requests |-> fetch'[r]]
    BY DEF Tick
  <2>2. QED
    BY <1>5, <2>1 DEF Sound
<1>7. QED
  BY <1>3, <1>4, <1>5, <1>6 DEF KInv

LEMMA KeysNextKeeps == KInv /\ [KeysNext]_keyVars => KInv'
<1> SUFFICES ASSUME KInv, [KeysNext]_keyVars PROVE KInv'
  OBVIOUS
<1>1. CASE UNCHANGED keyVars
  BY <1>1 DEF KInv, Store, Cache, Lasts, keyVars
<1>2. CASE KeysNext
  BY <1>2, GetRsaKeyKeeps, FetchesKeeps, UsesKeeps, RotatesKeeps, TickKeeps DEF KeysNext
<1>3. QED
  BY <1>1, <1>2

LEMMA KInvSuffices ==
  KInv => TypeOfKeys /\ KeysExpire /\ RotationIsFollowed /\ RefusedOnce /\ AnsweredInTime
<1> SUFFICES ASSUME KInv
             PROVE  TypeOfKeys /\ KeysExpire /\ RotationIsFollowed /\ RefusedOnce /\ AnsweredInTime
  OBVIOUS
<1>1. TypeOfKeys
  BY DEF KInv, Store, Cache, TypeOfKeys, FetchType
<1>2. KeysExpire /\ RotationIsFollowed
  BY DEF KInv, Sound, Fresh, KeysExpire, RotationIsFollowed
<1>3. RefusedOnce /\ AnsweredInTime
  BY DEF KInv, Sound, Once, Timely, RefusedOnce, AnsweredInTime
<1>4. QED
  BY <1>1, <1>2, <1>3

-----------------------------------------------------------------------------
\* The steps of the gate.

Stages == {"none", "gate", "gate_awaits", "routed", "handler_awaits", "done"}

CallType ==
  [stage : Stages, method : Methods \union {""}, path : Paths \union {""}, slash : BOOLEAN,
   x_keys : Seq(XKeys), bearer : Bearers \union {NoToken}, basic : {"right", "wrong", "none"},
   resolved : Users \union {Nobody}, status : Nat, user : Users \union {Nobody}]

\* Whom the headers of a call may stand for, now or earlier.
Named(c, user, owned_) ==
  IF c.x_keys # <<>> THEN Len(c.x_keys) = 1 /\ user \in owned_[c.x_keys[1]]
  ELSE c.bearer \in Tokens /\ user = c.bearer.email

AsksPassword(c) == Enabled(Guard(RouteOf(Target(c))))

\* What the gate has let through, under the settings of the process.
Behind(c) ==
  \/ ~settings.require_api_key
  \/ c.resolved # Nobody
  \/ IsPublic(c)
  \/ c.method = "OPTIONS"
  \/ AsksPassword(c)

\* What the route's guard has let through too.
Admitted(c) ==
  /\ Behind(c)
  /\ RouteOf(Target(c)) # 0
  /\ AsksPassword(c) => RightPassword(c)

NeedsPasswordOnly(c) ==
  AsksPassword(c) /\ RightPassword(c) /\ ~Routes[RouteOf(Target(c))].user

(***************************************************************************)
(* Each request, by its stage: the gate has not decided yet, or it has and *)
(* the guard has not, or both have.                                        *)
(***************************************************************************)
Awaiting(c) ==
  c.stage \in {"gate_awaits", "handler_awaits"} =>
    c.x_keys = <<>> /\ c.bearer \in Tokens /\ c.resolved = Nobody

Whose(c, owned_) ==
  /\ c.stage \in {"none", "gate"} => c.resolved = Nobody
  /\ c.stage # "done" => c.user = Nobody
  /\ c.resolved # Nobody => Named(c, c.resolved, owned_)
  /\ c.user # Nobody => Named(c, c.user, owned_) /\ (c.resolved # Nobody => c.user = c.resolved)

Through(c) ==
  /\ c.stage = "gate_awaits" => ~AsksPassword(c)
  /\ c.stage = "routed" => Behind(c)
  /\ c.stage = "handler_awaits" => Admitted(c) /\ Routes[RouteOf(Target(c))].user
  /\ c.stage = "done" => IF c.status = 200 THEN Admitted(c) ELSE ~NeedsPasswordOnly(c)

Known(c) == c.stage # "none" => Target(c) \in {Target(d) : d \in Calls}

RightCall(c, owned_) ==
  c \in CallType /\ Awaiting(c) /\ Whose(c, owned_) /\ Through(c) /\ Known(c)

CacheInv ==
  /\ IsFiniteSet(DOMAIN path_routes)
  /\ DOMAIN path_routes \subseteq {Target(c) : c \in Calls}
  /\ CachedRoutesRight

Owners ==
  /\ owner \in [XKeys -> Users \union {Nobody}]
  /\ owned \in [XKeys -> SUBSET (Users \union {Nobody})]
  /\ \A x \in XKeys : owner[x] \in owned[x]

GInv ==
  /\ settings \in Deployments
  /\ Owners
  /\ CacheInv
  /\ call \in [Requests -> CallType]
  /\ \A r \in Requests : RightCall(call[r], owned)

-----------------------------------------------------------------------------
LEMMA Lengths ==
  ASSUME NEW xs \in Seq(XKeys)
  PROVE  \/ xs = <<>> /\ ~(Len(xs) > 1) /\ ~(Len(xs) = 1)
         \/ xs # <<>> /\ ~(Len(xs) > 1) /\ Len(xs) = 1 /\ xs[1] \in XKeys
         \/ xs # <<>> /\ Len(xs) > 1 /\ ~(Len(xs) = 1)
<1> DEFINE n == Len(xs)
<1>1. n \in Nat /\ (n = 0 <=> xs = <<>>)
  BY EmptySeq, LenProperties
<1>2. n = 1 => xs[1] \in XKeys
  <2>1. n = 1 => 1 \in 1 .. n
    BY <1>1
  <2>2. QED
    BY <2>1, ElementOfSeq
<1> HIDE DEF n
<1>3. \/ n = 0 /\ ~(n > 1) /\ ~(n = 1)
      \/ n # 0 /\ ~(n > 1) /\ n = 1
      \/ n # 0 /\ n > 1 /\ ~(n = 1)
  BY <1>1
<1>4. QED
  BY <1>1, <1>2, <1>3, Zenon DEF n

LEMMA NoCallType == NoCall \in CallType
<1>1. <<>> \in Seq(XKeys)
  BY EmptySeq
<1>2. QED
  BY <1>1 DEF NoCall, CallType, Stages

LEMMA GInitEstablishes == GateInit => GInv
<1> SUFFICES ASSUME GateInit PROVE GInv
  OBVIOUS
<1>1. Owners
  BY DEF Owners, GateInit
<1>2. CacheInv
  <2>1. DOMAIN path_routes = {}
    BY DEF GateInit
  <2>2. QED
    BY <2>1, FS_EmptySet, KeyGateAssumption DEF CacheInv, CachedRoutesRight
<1>3. NoCall \in CallType
  BY NoCallType
<1>4. RightCall(NoCall, owned)
  BY <1>3 DEF RightCall, NoCall, Awaiting, Whose, Through, Known
<1>5. QED
  BY <1>1, <1>2, <1>3, <1>4 DEF GInv, GateInit

-----------------------------------------------------------------------------
\* fetch_user says somebody the headers stand for, nobody, an error or a key to wait for.
LEMMA FetchUserSays ==
  ASSUME Owners, NEW c \in CallType
  PROVE  LET answer == FetchUser(c) IN
         \/ /\ answer.said = "user"
            /\ answer.user \in Users \union {Nobody}
            /\ c.resolved # Nobody => answer.user = c.resolved
            /\ c.resolved = Nobody /\ answer.user # Nobody => Named(c, answer.user, owned)
         \/ answer.said = "status" /\ answer.status \in {400, 403}
         \/ /\ answer.said = "awaits"
            /\ answer.kid \in Kids
            /\ c.resolved = Nobody /\ c.x_keys = <<>> /\ c.bearer \in Tokens
<1> DEFINE answer == FetchUser(c)
<1>1. c.x_keys \in Seq(XKeys) /\ c.bearer \in Bearers \union {NoToken} /\ c.resolved \in Users \union {Nobody}
  BY DEF CallType
<1> DEFINE xs == c.x_keys
<1>2. CASE c.resolved # Nobody
  BY <1>1, <1>2 DEF FetchUser, IsUser
<1>3. CASE c.resolved = Nobody
  <2>1. answer = Credentials(c)
    BY <1>3 DEF FetchUser
  <2>2. CASE xs # <<>> /\ Len(xs) > 1 /\ ~(Len(xs) = 1)
    <3>1. answer = Refuses(400)
      BY <2>1, <2>2, Zenon DEF Credentials
    <3>2. QED
      BY <3>1 DEF Refuses
  <2>3. CASE xs # <<>> /\ ~(Len(xs) > 1) /\ Len(xs) = 1 /\ xs[1] \in XKeys
    <3>1. answer = IsUser(owner[xs[1]])
      BY <2>1, <2>3, Zenon DEF Credentials
    <3>2. answer.said = "user" /\ answer.user = owner[xs[1]]
      BY <3>1 DEF IsUser
    <3>3. owner[xs[1]] \in owned[xs[1]] /\ owner[xs[1]] \in Users \union {Nobody}
      BY <2>3 DEF Owners
    <3>4. QED
      BY <1>3, <2>3, <3>2, <3>3 DEF Named
  <2>4. CASE xs = <<>> /\ ~(Len(xs) > 1) /\ ~(Len(xs) = 1)
    <3>1. CASE c.bearer = NoToken
      <4>1. answer = IsUser(Nobody)
        BY <2>1, <2>4, <3>1, KeyGateAssumption, Zenon DEF Credentials
      <4>2. QED
        BY <1>3, <4>1 DEF IsUser
    <3>2. CASE c.bearer = Malformed /\ c.bearer # NoToken
      <4>1. answer = Refuses(403)
        BY <2>1, <2>4, <3>2, Zenon DEF Credentials
      <4>2. QED
        BY <4>1 DEF Refuses
    <3>3. CASE c.bearer # Malformed /\ c.bearer # NoToken
      <4>1. answer = Token(c.bearer)
        BY <2>1, <2>4, <3>3, Zenon DEF Credentials
      <4>2. c.bearer \in Tokens
        BY <1>1, <3>3 DEF Tokens
      <4>3. QED
        BY <1>3, <2>4, <4>1, <4>2, KeyGateAssumption DEF Token, Refuses, AwaitsKey
    <3>4. QED
      BY <3>1, <3>2, <3>3
  <2>5. xs \in Seq(XKeys)
    BY <1>1
  <2>6. \/ xs = <<>> /\ ~(Len(xs) > 1) /\ ~(Len(xs) = 1)
        \/ xs # <<>> /\ ~(Len(xs) > 1) /\ Len(xs) = 1 /\ xs[1] \in XKeys
        \/ xs # <<>> /\ Len(xs) > 1 /\ ~(Len(xs) = 1)
    BY <2>5, Lengths, Zenon
  <2>7. QED
    BY <2>2, <2>3, <2>4, <2>6, Zenon
<1>4. QED
  BY <1>1, <1>2, <1>3

LEMMA DecodedSays ==
  ASSUME NEW f, NEW token \in Tokens
  PROVE  LET answer == Decoded(f, token) IN
         \/ answer.said = "user" /\ answer.user = token.email /\ answer.user \in Users
         \/ answer.said = "status" /\ answer.status = 403
<1>1. CASE Verified(f, token)
  BY <1>1, KeyGateAssumption DEF Decoded, Verified, IsUser
<1>2. CASE ~Verified(f, token)
  BY <1>2 DEF Decoded, Refuses
<1>3. QED
  BY <1>1, <1>2

-----------------------------------------------------------------------------
\* The records a request moves to keep what its client sent.

SameSent(d, c) ==
  /\ d.method = c.method /\ d.path = c.path /\ d.slash = c.slash
  /\ d.x_keys = c.x_keys /\ d.bearer = c.bearer /\ d.basic = c.basic

LEMMA SameSentIsAlike ==
  ASSUME NEW c, NEW d, SameSent(d, c), NEW owned_
  PROVE  /\ Target(d) = Target(c)
         /\ IsPublic(d) <=> IsPublic(c)
         /\ AsksPassword(d) <=> AsksPassword(c)
         /\ RightPassword(d) <=> RightPassword(c)
         /\ NeedsPasswordOnly(d) <=> NeedsPasswordOnly(c)
         /\ \A u : Named(d, u, owned_) <=> Named(c, u, owned_)
<1>1. Target(d) = Target(c)
  BY DEF SameSent, Target
<1>2. AsksPassword(d) <=> AsksPassword(c)
  BY <1>1 DEF AsksPassword
<1>3. RightPassword(d) <=> RightPassword(c)
  BY DEF RightPassword, SameSent
<1>4. NeedsPasswordOnly(d) <=> NeedsPasswordOnly(c)
  BY <1>1, <1>2, <1>3 DEF NeedsPasswordOnly
<1>5. (IsPublic(d) <=> IsPublic(c)) /\ \A u : Named(d, u, owned_) <=> Named(c, u, owned_)
  BY DEF IsPublic, Named, SameSent
<1>6. QED
  BY <1>1, <1>2, <1>3, <1>4, <1>5

LEMMA EndsRight ==
  ASSUME NEW c, RightCall(c, owned), c.stage \notin {"none", "done"},
         NEW status \in Nat, status # 200, ~NeedsPasswordOnly(c)
  PROVE  RightCall(Ends(c, status), owned)
<1> DEFINE d == Ends(c, status)
<1>1. c \in CallType /\ c.user = Nobody
  BY DEF RightCall, Whose
<1>2. /\ d \in CallType /\ SameSent(d, c) /\ d.stage = "done" /\ d.status = status
      /\ d.resolved = c.resolved /\ d.user = Nobody
  BY <1>1 DEF Ends, CallType, Stages, SameSent
<1> HIDE DEF d
<1>3. Awaiting(d) /\ Through(d) /\ Known(d)
  BY <1>2, SameSentIsAlike DEF Awaiting, Through, Known, RightCall
<1>4. Whose(d, owned)
  BY <1>2, SameSentIsAlike DEF Whose, RightCall
<1>5. QED
  BY <1>2, <1>3, <1>4 DEF RightCall, d

LEMMA HandledRight ==
  ASSUME NEW c, RightCall(c, owned), c.stage \in {"routed", "handler_awaits"}, Admitted(c),
         NEW user \in Users \union {Nobody},
         user # Nobody => Named(c, user, owned) /\ (c.resolved # Nobody => user = c.resolved)
  PROVE  RightCall(Handled(c, user), owned)
<1> DEFINE d == Handled(c, user)
<1>1. c \in CallType
  BY DEF RightCall
<1>2. d = [c EXCEPT !.stage = "done", !.status = 200, !.user = user]
  BY DEF Handled, Ends
<1>3. /\ d \in CallType /\ SameSent(d, c) /\ d.stage = "done" /\ d.status = 200
      /\ d.resolved = c.resolved /\ d.user = user
  <2>1. "done" \in Stages /\ 200 \in Nat
    BY DEF Stages
  <2>2. d \in CallType
    BY <1>1, <1>2, <2>1 DEF CallType
  <2>3. SameSent(d, c) /\ d.stage = "done" /\ d.status = 200
        /\ d.resolved = c.resolved /\ d.user = user
    BY <1>1, <1>2 DEF CallType, SameSent
  <2>4. QED
    BY <2>2, <2>3
<1> HIDE DEF d
<1>4. Admitted(d)
  BY <1>3, SameSentIsAlike DEF Admitted, Behind, SameSent
<1>5. Awaiting(d) /\ Through(d) /\ Known(d)
  BY <1>3, <1>4, SameSentIsAlike DEF Awaiting, Through, Known, RightCall
<1>6. Whose(d, owned)
  BY <1>3, SameSentIsAlike DEF Whose, RightCall
<1>7. QED
  BY <1>3, <1>5, <1>6 DEF RightCall, d

\* Through the gate, for whom it has resolved (or nobody, where it asks for nobody).
LEMMA PassesRight ==
  ASSUME NEW c, RightCall(c, owned), c.stage \in {"gate", "gate_awaits"},
         NEW user \in Users \union {Nobody}, user # Nobody => Named(c, user, owned),
         user # Nobody \/ Behind(c)
  PROVE  RightCall([c EXCEPT !.resolved = user, !.stage = "routed"], owned)
<1> DEFINE d == [c EXCEPT !.resolved = user, !.stage = "routed"]
<1>1. c \in CallType /\ c.resolved = Nobody /\ c.user = Nobody
  BY DEF RightCall, Whose, Awaiting
<1>2. /\ d \in CallType /\ SameSent(d, c) /\ d.stage = "routed"
      /\ d.resolved = user /\ d.user = Nobody
  BY <1>1 DEF CallType, Stages, SameSent
<1> HIDE DEF d
<1>3. Behind(d)
  BY <1>1, <1>2, SameSentIsAlike DEF Behind, SameSent
<1>4. Awaiting(d) /\ Through(d) /\ Known(d)
  BY <1>2, <1>3, SameSentIsAlike DEF Awaiting, Through, Known, RightCall
<1>5. Whose(d, owned)
  BY <1>2, SameSentIsAlike DEF Whose, RightCall
<1>6. QED
  BY <1>2, <1>4, <1>5 DEF RightCall, d

\* On the way to an issuer's key.
LEMMA AwaitsRight ==
  ASSUME NEW c, RightCall(c, owned), NEW stage \in {"gate_awaits", "handler_awaits"},
         c.stage = (IF stage = "gate_awaits" THEN "gate" ELSE "routed"),
         c.x_keys = <<>>, c.bearer \in Tokens, c.resolved = Nobody,
         stage = "gate_awaits" => ~AsksPassword(c),
         stage = "handler_awaits" => Admitted(c) /\ Routes[RouteOf(Target(c))].user
  PROVE  RightCall([c EXCEPT !.stage = stage], owned)
<1> DEFINE d == [c EXCEPT !.stage = stage]
<1>1. c \in CallType /\ c.user = Nobody
  BY DEF RightCall, Whose
<1>2. /\ d \in CallType /\ SameSent(d, c) /\ d.stage = stage
      /\ d.resolved = Nobody /\ d.user = Nobody
  BY <1>1 DEF CallType, Stages, SameSent
<1> HIDE DEF d
<1>3. Admitted(c) => Admitted(d)
  BY <1>2, SameSentIsAlike DEF Admitted, Behind, SameSent
<1>4. Awaiting(d) /\ Through(d) /\ Known(d)
  BY <1>2, <1>3, SameSentIsAlike DEF Awaiting, Through, Known, RightCall, SameSent
<1>5. Whose(d, owned)
  BY <1>2 DEF Whose
<1>6. QED
  BY <1>2, <1>4, <1>5 DEF RightCall, d

-----------------------------------------------------------------------------
\* The cache of routes.

LEMMA RememberedRight ==
  ASSUME CacheInv, NEW t \in {Target(c) : c \in Calls}
  PROVE  /\ path_routes' = Remembered(t) => CacheInv'
         /\ Remembered(t)[t] = RouteOf(t)
<1>1. /\ IsFiniteSet(DOMAIN path_routes) /\ Cardinality(DOMAIN path_routes) \in Nat
      /\ PathRoutesMax \in Nat \ {0}
      /\ Cardinality(DOMAIN path_routes) <= PathRoutesMax
  BY KeyGateAssumption, FS_CardinalityType DEF CacheInv, CachedRoutesRight
<1>2. CASE t \in DOMAIN path_routes
  BY <1>2 DEF Remembered, CacheInv, CachedRoutesRight
<1>3. CASE t \notin DOMAIN path_routes
  <2> DEFINE full == Cardinality(DOMAIN path_routes) >= PathRoutesMax
             kept == IF full THEN [u \in {} |-> 0] ELSE path_routes
             after == [u \in DOMAIN kept \union {t} |-> IF u = t THEN RouteOf(t) ELSE kept[u]]
  <2>1. Remembered(t) = after
    BY <1>3 DEF Remembered, With
  <2>2. /\ DOMAIN kept \subseteq DOMAIN path_routes /\ IsFiniteSet(DOMAIN kept)
        /\ Cardinality(DOMAIN kept) \in Nat /\ Cardinality(DOMAIN kept) + 1 <= PathRoutesMax
        /\ \A u \in DOMAIN kept : kept[u] = RouteOf(u)
    <3>1. CASE full
      <4>1. DOMAIN kept = {}
        BY <3>1
      <4>2. QED
        BY <1>1, <4>1, FS_EmptySet
    <3>2. CASE ~full
      <4>1. kept = path_routes
        BY <3>2
      <4>2. QED
        BY <1>1, <3>2, <4>1 DEF CacheInv, CachedRoutesRight
    <3>3. QED
      BY <3>1, <3>2
  <2>3. after[t] = RouteOf(t) /\ DOMAIN after = DOMAIN kept \union {t}
    OBVIOUS
  <2>4. \A u \in DOMAIN after : after[u] = RouteOf(u)
    BY <2>2
  <2> HIDE DEF kept, after
  <2>5. IsFiniteSet(DOMAIN after) /\ Cardinality(DOMAIN after) <= PathRoutesMax
    <3>1. /\ IsFiniteSet(DOMAIN kept \union {t})
          /\ Cardinality(DOMAIN kept \union {t}) =
               IF t \in DOMAIN kept THEN Cardinality(DOMAIN kept) ELSE Cardinality(DOMAIN kept) + 1
      BY <2>2, FS_AddElement
    <3>2. Cardinality(DOMAIN kept \union {t}) <= PathRoutesMax
      BY <1>1, <2>2, <3>1
    <3>3. QED
      BY <2>3, <3>1, <3>2
  <2>6. DOMAIN after \subseteq {Target(c) : c \in Calls}
    BY <2>2, <2>3 DEF CacheInv
  <2>7. path_routes' = after => CacheInv'
    BY <2>4, <2>5, <2>6 DEF CacheInv, CachedRoutesRight
  <2>8. QED
    BY <2>1, <2>3, <2>7
<1>4. QED
  BY <1>2, <1>3

\* With the cache right, the gate sees the guard of the request's own route.
LEMMA ProtectedRight ==
  ASSUME CacheInv, NEW c, Target(c) \in {Target(d) : d \in Calls}
  PROVE  IsPasswordProtected(c) <=> AsksPassword(c)
<1>1. Remembered(Target(c))[Target(c)] = RouteOf(Target(c))
  BY RememberedRight
<1>2. QED
  BY <1>1 DEF IsPasswordProtected, AsksPassword, SomeSwitch, Enabled

-----------------------------------------------------------------------------
\* The steps of a request.

LEMMA BecomesKeeps ==
  ASSUME GInv, NEW r \in Requests, NEW c, Becomes(r, c), RightCall(c, owned), CacheInv'
  PROVE  GInv'
<1>1. settings' = settings /\ owner' = owner /\ owned' = owned
  BY DEF Becomes
<1>2. /\ call' \in [Requests -> CallType]
      /\ \A q \in Requests : RightCall(call'[q], owned)
  BY DEF Becomes, GInv, RightCall
<1>3. \A q \in Requests : RightCall(call[q], owned)'
  <2> DEFINE o == owned
             calls == call'
  <2>1. ASSUME NEW q \in Requests PROVE RightCall(call[q], owned)'
    <3>1. RightCall(calls[q], o)
      BY <1>2
    <3>2. owned' = o
      BY <1>1
    <3> HIDE DEF o, calls
    <3>3. QED
      BY <1>1, <3>1, <3>2
         DEF calls, RightCall, Awaiting, Whose, Through, Known, Admitted, Behind,
             NeedsPasswordOnly, AsksPassword, Enabled, IsPublic, RightPassword
  <2>2. QED
    BY <2>1
<1>4. Owners'
  BY <1>1 DEF GInv, Owners
<1>5. QED
  BY <1>1, <1>2, <1>3, <1>4 DEF GInv

LEMMA ArriveKeeps ==
  ASSUME GInv, NEW r \in Requests, NEW c \in Calls, Arrive(r, c)
  PROVE  GInv'
<1> DEFINE d == [NoCall EXCEPT !.stage = "gate", !.method = c.method, !.path = c.path,
                               !.slash = c.slash, !.x_keys = c.x_keys, !.bearer = c.bearer,
                               !.basic = c.basic]
<1>1. /\ c.method \in Methods /\ c.path \in Paths /\ c.slash \in BOOLEAN
      /\ c.x_keys \in Seq(XKeys) /\ c.bearer \in Bearers /\ c.basic \in {"right", "wrong", "none"}
  BY KeyGateAssumption
<1>2. NoCall \in CallType /\ NoCall.resolved = Nobody /\ NoCall.user = Nobody
  BY NoCallType DEF NoCall
<1>3. d \in CallType
  <2>1. "gate" \in Stages
    BY DEF Stages
  <2>2. QED
    BY <1>1, <1>2, <2>1 DEF CallType
<1>4. d.stage = "gate" /\ d.resolved = Nobody /\ d.user = Nobody /\ Target(d) = Target(c)
  BY <1>2 DEF Target, CallType
<1>5. Becomes(r, d) /\ path_routes' = path_routes
  BY DEF Arrive
<1> HIDE DEF d
<1>6. RightCall(d, owned)
  BY <1>3, <1>4 DEF RightCall, Awaiting, Whose, Through, Known
<1>7. CacheInv'
  BY <1>5 DEF GInv, CacheInv, CachedRoutesRight
<1>8. QED
  BY <1>5, <1>6, <1>7, BecomesKeeps

\* What the gate makes of fetch_user's answer: of a request it had to resolve.
LEMMA GateSaysRight ==
  ASSUME NEW c, RightCall(c, owned), c.stage \in {"gate", "gate_awaits"}, ~AsksPassword(c),
         NEW answer,
         \/ /\ answer.said = "user" /\ answer.user \in Users \union {Nobody}
            /\ answer.user # Nobody => Named(c, answer.user, owned)
         \/ answer.said = "status" /\ answer.status \in {400, 403}
  PROVE  RightCall(GateSays(c, answer), owned)
<1>1. ~NeedsPasswordOnly(c) /\ c.stage \notin {"none", "done"}
  BY DEF NeedsPasswordOnly
<1>2. CASE answer.said = "status"
  <2>1. answer.status \in Nat /\ answer.status # 200 /\ GateSays(c, answer) = Ends(c, answer.status)
    BY <1>2 DEF GateSays
  <2>2. QED
    BY <1>1, <2>1, EndsRight
<1>3. CASE answer.said = "user" /\ answer.user = Nobody
  <2>1. GateSays(c, answer) = Ends(c, 401)
    BY <1>3 DEF GateSays
  <2>2. QED
    BY <1>1, <2>1, EndsRight
<1>4. CASE answer.said = "user" /\ answer.user # Nobody
  <2>1. GateSays(c, answer) = [c EXCEPT !.resolved = answer.user, !.stage = "routed"]
    BY <1>4 DEF GateSays, Passes
  <2>2. answer.user \in Users \union {Nobody} /\ Named(c, answer.user, owned)
    BY <1>4
  <2> DEFINE u == answer.user
  <2>3. u \in Users \union {Nobody} /\ Named(c, u, owned) /\ u # Nobody
    BY <1>4, <2>2
  <2> HIDE DEF u
  <2>4. RightCall([c EXCEPT !.resolved = u, !.stage = "routed"], owned)
    BY <2>3, PassesRight
  <2>5. QED
    BY <2>1, <2>4 DEF u
<1>5. QED
  BY <1>2, <1>3, <1>4

LEMMA HandlerSaysRight ==
  ASSUME NEW c, RightCall(c, owned), c.stage \in {"routed", "handler_awaits"}, Admitted(c),
         Routes[RouteOf(Target(c))].user, NEW answer,
         \/ /\ answer.said = "user" /\ answer.user \in Users \union {Nobody}
            /\ c.resolved # Nobody => answer.user = c.resolved
            /\ c.resolved = Nobody /\ answer.user # Nobody => Named(c, answer.user, owned)
         \/ answer.said = "status" /\ answer.status \in {400, 403}
  PROVE  RightCall(HandlerSays(c, answer), owned)
<1>1. ~NeedsPasswordOnly(c) /\ c.stage \notin {"none", "done"}
  BY DEF NeedsPasswordOnly
<1>2. CASE answer.said = "status"
  <2>1. /\ answer.status \in Nat /\ answer.status # 200
        /\ HandlerSays(c, answer) = Ends(c, answer.status)
    BY <1>2 DEF HandlerSays
  <2>2. QED
    BY <1>1, <2>1, EndsRight
<1>3. CASE answer.said = "user"
  <2>1. HandlerSays(c, answer) = Handled(c, answer.user)
    BY <1>3 DEF HandlerSays
  <2>2. /\ answer.user \in Users \union {Nobody}
        /\ answer.user # Nobody =>
             Named(c, answer.user, owned) /\ (c.resolved # Nobody => answer.user = c.resolved)
    BY <1>3 DEF RightCall, Whose
  <2>3. QED
    BY <2>1, <2>2, HandledRight
<1>4. QED
  BY <1>2, <1>3

LEMMA GateKeeps ==
  ASSUME GInv, NEW r \in Requests, Gate(r)
  PROVE  GInv'
<1> DEFINE c == call[r]
           answer == FetchUser(c)
<1>1. /\ c \in CallType /\ RightCall(c, owned) /\ c.stage = "gate" /\ Owners /\ CacheInv
      /\ Target(c) \in {Target(d) : d \in Calls} /\ c.resolved = Nobody
  BY DEF GInv, Gate, RightCall, Known, Whose
<1>2. IsPasswordProtected(c) <=> AsksPassword(c)
  BY <1>1, ProtectedRight
<1>3. CacheInv'
  <2>1. path_routes' = Remembered(Target(c)) \/ path_routes' = path_routes
    BY DEF Gate
  <2>2. path_routes' = path_routes => CacheInv'
    BY <1>1 DEF CacheInv, CachedRoutesRight
  <2>3. QED
    BY <1>1, <2>1, <2>2, RememberedRight
<1>4. CASE NeedsNoKey(c) /\ Becomes(r, Passes(c))
  <2>1. Behind(c)
    BY <1>2, <1>4 DEF NeedsNoKey, Behind
  <2>2. RightCall([c EXCEPT !.resolved = Nobody, !.stage = "routed"], owned)
    BY <1>1, <2>1, PassesRight
  <2>3. [c EXCEPT !.resolved = Nobody, !.stage = "routed"] = Passes(c)
    BY <1>1 DEF Passes, CallType
  <2>4. QED
    BY <1>3, <1>4, <2>2, <2>3, BecomesKeeps
<1>5. CASE ~NeedsNoKey(c) /\ answer.said # "awaits" /\ Becomes(r, GateSays(c, answer))
  <2>1. ~AsksPassword(c)
    BY <1>2, <1>5 DEF NeedsNoKey
  <2>2. \/ /\ answer.said = "user" /\ answer.user \in Users \union {Nobody}
           /\ answer.user # Nobody => Named(c, answer.user, owned)
        \/ answer.said = "status" /\ answer.status \in {400, 403}
    BY <1>1, <1>5, FetchUserSays
  <2>3. RightCall(GateSays(c, answer), owned)
    BY <1>1, <2>1, <2>2, GateSaysRight
  <2>4. QED
    BY <1>3, <1>5, <2>3, BecomesKeeps
<1>6. CASE ~NeedsNoKey(c) /\ answer.said = "awaits" /\ Becomes(r, [c EXCEPT !.stage = "gate_awaits"])
  <2>1. ~AsksPassword(c)
    BY <1>2, <1>6 DEF NeedsNoKey
  <2>2. c.x_keys = <<>> /\ c.bearer \in Tokens
    BY <1>1, <1>6, FetchUserSays
  <2>3. RightCall([c EXCEPT !.stage = "gate_awaits"], owned)
    BY <1>1, <2>1, <2>2, AwaitsRight
  <2>4. QED
    BY <1>3, <1>6, <2>3, BecomesKeeps
<1>7. QED
  BY <1>4, <1>5, <1>6 DEF Gate

LEMMA VerifiedKeeps ==
  ASSUME GInv, NEW r \in Requests, GateVerified(r) \/ HandlerVerified(r)
  PROVE  GInv'
<1> DEFINE c == call[r]
           answer == Decoded(fetch[r], c.bearer)
<1>1. RightCall(c, owned) /\ c.stage \in {"gate_awaits", "handler_awaits"}
  BY DEF GInv, GateVerified, HandlerVerified
<1>2. c.x_keys = <<>> /\ c.bearer \in Tokens /\ c.resolved = Nobody
  BY <1>1 DEF RightCall, Awaiting
<1>3. CacheInv'
  BY DEF GInv, CacheInv, CachedRoutesRight, GateVerified, HandlerVerified
<1>4. \/ answer.said = "user" /\ answer.user = c.bearer.email /\ answer.user \in Users
      \/ answer.said = "status" /\ answer.status = 403
  BY <1>2, DecodedSays
<1> HIDE DEF answer
<1>5. answer.said = "user" => Named(c, answer.user, owned)
  BY <1>2, <1>4 DEF Named
<1>6. CASE c.stage = "gate_awaits"
  <2>1. ~AsksPassword(c)
    BY <1>1, <1>6 DEF RightCall, Through
  <2>2. RightCall(GateSays(c, answer), owned)
    BY <1>1, <1>4, <1>5, <1>6, <2>1, GateSaysRight
  <2>3. QED
    BY <1>3, <1>6, <2>2, BecomesKeeps DEF GateVerified, HandlerVerified, answer
<1>7. CASE c.stage = "handler_awaits"
  <2>1. Admitted(c) /\ Routes[RouteOf(Target(c))].user
    BY <1>1, <1>7 DEF RightCall, Through
  <2>2. RightCall(HandlerSays(c, answer), owned)
    BY <1>1, <1>2, <1>4, <1>5, <1>7, <2>1, HandlerSaysRight
  <2>3. QED
    BY <1>3, <1>7, <2>2, BecomesKeeps DEF GateVerified, HandlerVerified, answer
<1>8. QED
  BY <1>1, <1>6, <1>7

\* What the router or the guard refuses is no request the password is enough for.
LEMMA GuardSays ==
  ASSUME NEW c \in CallType
  PROVE  LET refused == PasswordStatus(c, Guard(RouteOf(Target(c)))) IN
         /\ refused \in {0, 401, 500}
         /\ refused = 0 => (AsksPassword(c) => RightPassword(c))
         /\ refused # 0 => ~RightPassword(c)
<1> DEFINE guard == Guard(RouteOf(Target(c)))
<1>1. c.basic \in {"right", "wrong", "none"}
  BY DEF CallType
<1>2. AsksPassword(c) <=> Enabled(guard)
  BY DEF AsksPassword
<1> HIDE DEF guard
<1>3. CASE ~Enabled(guard)
  <2>1. PasswordStatus(c, guard) = 0
    BY <1>3 DEF PasswordStatus
  <2>2. QED
    BY <1>2, <1>3, <2>1 DEF guard
<1>4. CASE Enabled(guard) /\ c.basic = "none"
  <2>1. PasswordStatus(c, guard) = 401
    BY <1>4 DEF PasswordStatus
  <2>2. QED
    BY <1>4, <2>1 DEF guard, RightPassword
<1>5. CASE Enabled(guard) /\ c.basic # "none" /\ ~settings.password
  <2>1. PasswordStatus(c, guard) = 500
    BY <1>5 DEF PasswordStatus
  <2>2. QED
    BY <1>5, <2>1 DEF guard, RightPassword
<1>6. CASE Enabled(guard) /\ c.basic # "none" /\ settings.password
  <2>1. PasswordStatus(c, guard) = IF c.basic = "right" THEN 0 ELSE 401
    BY <1>6 DEF PasswordStatus
  <2>2. QED
    BY <1>6, <2>1 DEF guard, RightPassword
<1>7. QED
  BY <1>3, <1>4, <1>5, <1>6

LEMMA RouteKeeps ==
  ASSUME GInv, NEW r \in Requests, Route(r)
  PROVE  GInv'
<1> DEFINE c == call[r]
           answer == FetchUser(c)
           route == RouteOf(Target(c))
           refused == PasswordStatus(c, Guard(route))
<1>1. /\ c \in CallType /\ RightCall(c, owned) /\ c.stage = "routed" /\ Owners
      /\ Behind(c)
  BY DEF GInv, Route, RightCall, Through
<1>2. CacheInv'
  BY DEF GInv, CacheInv, CachedRoutesRight, Route
<1>3. /\ refused \in {0, 401, 500}
      /\ refused = 0 => (AsksPassword(c) => RightPassword(c))
      /\ refused # 0 => ~RightPassword(c)
  BY <1>1, GuardSays
<1>4. CASE route = 0 /\ Becomes(r, Ends(c, 404))
  <2>1. ~NeedsPasswordOnly(c)
    BY <1>4 DEF NeedsPasswordOnly, AsksPassword, Guard, Enabled
  <2>2. RightCall(Ends(c, 404), owned)
    BY <1>1, <2>1, EndsRight
  <2>3. QED
    BY <1>2, <1>4, <2>2, BecomesKeeps
<1>5. CASE route # 0 /\ refused # 0 /\ Becomes(r, Ends(c, refused))
  <2>1. ~NeedsPasswordOnly(c) /\ refused \in Nat /\ refused # 200
    BY <1>3, <1>5 DEF NeedsPasswordOnly
  <2> HIDE DEF refused
  <2>2. RightCall(Ends(c, refused), owned)
    BY <1>1, <2>1, EndsRight
  <2>3. QED
    BY <1>2, <1>5, <2>2, BecomesKeeps
<1>6. CASE route # 0 /\ refused = 0
  <2>1. Admitted(c)
    BY <1>1, <1>3, <1>6 DEF Admitted
  <2>2. CASE ~Routes[route].user /\ Becomes(r, Handled(c, Nobody))
    <3>1. RightCall(Handled(c, Nobody), owned)
      BY <1>1, <2>1, HandledRight
    <3>2. QED
      BY <1>2, <2>2, <3>1, BecomesKeeps
  <2>3. CASE Routes[route].user /\ answer.said # "awaits" /\ Becomes(r, HandlerSays(c, answer))
    <3>1. \/ /\ answer.said = "user" /\ answer.user \in Users \union {Nobody}
             /\ c.resolved # Nobody => answer.user = c.resolved
             /\ c.resolved = Nobody /\ answer.user # Nobody => Named(c, answer.user, owned)
          \/ answer.said = "status" /\ answer.status \in {400, 403}
      BY <1>1, <2>3, FetchUserSays
    <3>2. RightCall(HandlerSays(c, answer), owned)
      BY <1>1, <2>1, <2>3, <3>1, HandlerSaysRight
    <3>3. QED
      BY <1>2, <2>3, <3>2, BecomesKeeps
  <2>4. CASE Routes[route].user /\ answer.said = "awaits"
             /\ Becomes(r, [c EXCEPT !.stage = "handler_awaits"])
    <3>1. c.x_keys = <<>> /\ c.bearer \in Tokens /\ c.resolved = Nobody
      BY <1>1, <2>4, FetchUserSays
    <3>2. RightCall([c EXCEPT !.stage = "handler_awaits"], owned)
      BY <1>1, <2>1, <2>4, <3>1, AwaitsRight
    <3>3. QED
      BY <1>2, <2>4, <3>2, BecomesKeeps
  <2>5. QED
    BY <1>6, <2>2, <2>3, <2>4 DEF Route
<1>7. QED
  BY <1>4, <1>5, <1>6 DEF Route

LEMMA LeaveKeeps ==
  ASSUME GInv, NEW r \in Requests, Leave(r)
  PROVE  GInv'
<1>1. RightCall(NoCall, owned)
  BY NoCallType DEF RightCall, NoCall, Awaiting, Whose, Through, Known
<1>2. CacheInv'
  BY DEF GInv, CacheInv, CachedRoutesRight, Leave
<1>3. QED
  BY <1>1, <1>2, BecomesKeeps DEF Leave

\* Keys come and go: whom a request has resolved to has had its x-key all the same.
LEMMA KeyChangesKeeps ==
  ASSUME GInv, NEW x \in XKeys, NEW user \in Users \union {Nobody}, KeyChanges(x, user)
  PROVE  GInv'
<1>1. UNCHANGED <<settings, path_routes, call>>
  BY DEF KeyChanges
<1>2. /\ Owners'
      /\ \A y \in XKeys : owned[y] \subseteq owned'[y]
  BY DEF KeyChanges, GInv, Owners
<1>3. CacheInv'
  BY <1>1 DEF GInv, CacheInv, CachedRoutesRight
<1>4. ASSUME NEW r \in Requests PROVE RightCall(call[r], owned)'
  <2> DEFINE c == call[r]
             after == owned'
  <2>1. c \in CallType /\ RightCall(c, owned)
    BY DEF GInv
  <2>2. \A u : Named(c, u, owned) => Named(c, u, after)
    <3>1. SUFFICES ASSUME NEW u, Named(c, u, owned) PROVE Named(c, u, after)
      OBVIOUS
    <3>2. c.x_keys \in Seq(XKeys)
      BY <2>1 DEF CallType
    <3>3. c.x_keys # <<>> /\ Len(c.x_keys) = 1 => c.x_keys[1] \in XKeys
      BY <3>2, Lengths
    <3>4. QED
      BY <1>2, <3>1, <3>3 DEF Named
  <2> HIDE DEF after
  <2>3. RightCall(c, after)
    BY <2>1, <2>2 DEF RightCall, Whose
  <2>4. after = owned'
    BY DEF after
  <2>5. QED
    BY <1>1, <2>3, <2>4
       DEF RightCall, Awaiting, Whose, Through, Known, Admitted, Behind, NeedsPasswordOnly,
           AsksPassword, Enabled, IsPublic, RightPassword
<1>5. QED
  BY <1>1, <1>2, <1>3, <1>4 DEF GInv

LEMMA GNextKeeps == GInv /\ [Next]_vars => GInv'
<1> SUFFICES ASSUME GInv, [Next]_vars PROVE GInv'
  OBVIOUS
<1>1. CASE UNCHANGED gateVars
  BY <1>1 DEF GInv, Owners, CacheInv, CachedRoutesRight, gateVars, RightCall, Awaiting, Whose,
              Through, Known, Admitted, Behind, NeedsPasswordOnly, AsksPassword, Enabled,
              IsPublic, RightPassword
<1>2. CASE UNCHANGED vars
  BY <1>1, <1>2 DEF vars, gateVars
<1>3. CASE Next
  BY <1>1, <1>3, ArriveKeeps, GateKeeps, VerifiedKeeps, RouteKeeps, LeaveKeeps, KeyChangesKeeps
     DEF Next
<1>4. QED
  BY <1>2, <1>3

\* Every step of the gate is a step of the keys, or leaves them alone.
LEMMA GNextIsKeysNext == GInv /\ [Next]_vars => [KeysNext]_keyVars
<1> SUFFICES ASSUME GInv, [Next]_vars PROVE [KeysNext]_keyVars
  OBVIOUS
<1>1. ASSUME NEW r \in Requests, Gate(r) \/ Route(r) PROVE [KeysNext]_keyVars
  <2>1. call[r] \in CallType /\ Owners
    BY DEF GInv
  <2>2. \/ UNCHANGED keyVars
        \/ FetchUser(call[r]).said = "awaits" /\ GetRsaKey(r, FetchUser(call[r]).kid)
    BY <1>1 DEF Gate, Route
  <2>3. FetchUser(call[r]).said = "awaits" => FetchUser(call[r]).kid \in Kids
    BY <2>1, FetchUserSays
  <2>4. QED
    BY <2>2, <2>3 DEF KeysNext
<1>2. ASSUME NEW r \in Requests, GateVerified(r) \/ HandlerVerified(r) PROVE [KeysNext]_keyVars
  BY <1>2 DEF GateVerified, HandlerVerified, KeysNext
<1>3. ASSUME NEW r \in Requests, Leave(r) \/ \E c \in Calls : Arrive(r, c)
      PROVE  [KeysNext]_keyVars
  BY <1>3 DEF Leave, Arrive
<1>4. ASSUME NEW r \in Requests, Fetches(r) PROVE [KeysNext]_keyVars
  BY <1>4 DEF KeysNext
<1>5. ASSUME NEW x \in XKeys, NEW user \in Users \union {Nobody}, KeyChanges(x, user)
      PROVE  [KeysNext]_keyVars
  BY <1>5 DEF KeyChanges
<1>6. ASSUME NEW kid \in Kids, NEW key \in Keys \union {None}, Rotates(kid, key)
      PROVE  [KeysNext]_keyVars
  BY <1>6 DEF KeysNext
<1>7. CASE Tick
  BY <1>7 DEF KeysNext
<1>8. CASE UNCHANGED vars
  BY <1>8 DEF vars, keyVars
<1>9. QED
  BY <1>1, <1>2, <1>3, <1>4, <1>5, <1>6, <1>7, <1>8 DEF Next

-----------------------------------------------------------------------------
LEMMA GInvSuffices == GInv => ClosedByDefault /\ PasswordSuffices /\ OneUser /\ CachedRoutesRight
<1> SUFFICES ASSUME GInv
             PROVE  ClosedByDefault /\ PasswordSuffices /\ OneUser /\ CachedRoutesRight
  OBVIOUS
<1>1. ASSUME NEW r \in Requests PROVE RightCall(call[r], owned)
  BY DEF GInv
<1>2. ClosedByDefault
  <2> SUFFICES ASSUME NEW r \in Requests, Served(r), settings.require_api_key
               PROVE  \/ call[r].resolved # Nobody
                      \/ IsPublic(call[r])
                      \/ Enabled(Guard(RouteOf(Target(call[r])))) /\ RightPassword(call[r])
    BY DEF ClosedByDefault
  <2> DEFINE c == call[r]
  <2>1. Admitted(c)
    BY <1>1 DEF RightCall, Through, Served
  <2>2. c.method # "OPTIONS"
    <3>1. Matching(Target(c)) # {}
      BY <2>1 DEF Admitted, RouteOf
    <3>2. PICK i \in DOMAIN Routes : c.method \in Routes[i].methods
      BY <3>1 DEF Matching, Target
    <3>3. QED
      BY <3>2, KeyGateAssumption
  <2>3. QED
    BY <2>1, <2>2 DEF Admitted, Behind, AsksPassword
<1>3. PasswordSuffices
  BY <1>1 DEF RightCall, Through, Served, PasswordSuffices, NeedsPasswordOnly, AsksPassword
<1>4. OneUser
  BY <1>1 DEF RightCall, Whose, OneUser, Named
<1>5. CachedRoutesRight
  BY DEF GInv, CacheInv
<1>6. QED
  BY <1>2, <1>3, <1>4, <1>5

LEMMA Types == GInv /\ KInv => TypeOK
<1> SUFFICES ASSUME GInv, KInv PROVE TypeOK
  OBVIOUS
<1>1. TypeOfKeys
  BY KInvSuffices
<1>2. \A r \in Requests : call[r] \in CallType
  BY DEF GInv
<1>3. \A r \in Requests : call[r].stage \in Stages /\ call[r].user \in Users \union {Nobody}
  BY <1>2 DEF CallType
<1>4. QED
  BY <1>1, <1>3 DEF TypeOK, GInv, Owners, CacheInv, Stages

LEMMA Always == Spec => [](GInv /\ KInv)
<1>1. Spec => GateInit
  BY DEF Spec
<1>2. GateInit => GInv /\ KInv
  BY GInitEstablishes, KeysInitEstablishes DEF GateInit
<1>3. (GInv /\ KInv) /\ [Next]_vars => (GInv /\ KInv)'
  BY GNextKeeps, GNextIsKeysNext, KeysNextKeeps
<1>4. QED
  BY <1>2, <1>3, PTL DEF Spec

\* Every variable keeps its type.  KeyGate, IssuerKeys.
THEOREM TypesHold == Spec => []TypeOK
  BY Always, Types, PTL

\* No handler runs behind the gate for a request that is nobody's.  require_api_key.
THEOREM GateIsClosed == Spec => []ClosedByDefault
  BY Always, GInvSuffices, PTL

\* Nor is a request kept out that has the password its route asks for, whatever the cache
\* of routes holds.  is_password_protected, _route_for.
THEOREM PasswordsOpen == Spec => []PasswordSuffices
  BY Always, GInvSuffices, PTL

\* A request is one user's from the gate to its handler, while keys come and go.  fetch_user.
THEOREM OneUserEach == Spec => []OneUser
  BY Always, GInvSuffices, PTL

\* The cache of routes is bounded and right.  _route_for.
THEOREM CacheIsRight == Spec => []CachedRoutesRight
  BY Always, GInvSuffices, PTL

\* However slow the fetches of however many requests and however keys are rotated: no key
\* verifies a token longer than one TTL and one fetch after its publication.  get_rsa_key.
THEOREM KeysAlwaysExpire == Spec => []KeysExpire
  BY Always, KInvSuffices, PTL

\* A key published before its token is found.  get_rsa_key_.
THEOREM RotationsAreFollowed == Spec => []RotationIsFollowed
  BY Always, KInvSuffices, PTL

\* A request is refused by the issuer once at the most.  get_rsa_key_.
THEOREM RefusalsAreFinal == Spec => []RefusedOnce
  BY Always, KInvSuffices, PTL

\* No request waits longer than its attempts' timeouts and the sleeps.  get_rsa_key_.
THEOREM AllAnsweredInTime == Spec => []AnsweredInTime
  BY Always, KInvSuffices, PTL
=============================================================================
