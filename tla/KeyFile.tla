------------------------------ MODULE KeyFile ------------------------------
(***************************************************************************)
(* API keys as Redis holds them, and the YAML key file that is synced to   *)
(* them: the vocabulary of app/api_keys.py and the key half of             *)
(* app/redis.py, without any state.  KeyStore says what a sync promises,   *)
(* ApiKeys how the workers carry it out.                                   *)
(***************************************************************************)
EXTENDS Functions

CONSTANTS
  Keys,       \* the API keys clients send in `x-key`
  Emails,     \* the users keys resolve to
  Configs,    \* a key file entry's config and force, taken together
  NoEmail,    \* what Redis answers for an `api_key:*` entry it does not hold
  NoConfig    \* what key_config answers for an email it does not know

ASSUME KeyFileAssumption ==
  /\ NoEmail \notin Emails
  /\ NoConfig \notin Configs

EmailOrNone  == Emails \union {NoEmail}
ConfigOrNone == Configs \union {NoConfig}

(***************************************************************************)
(* A key is stored verbatim, or under its HMAC digest when                 *)
(* API_KEY_HMAC_KEY is set.  Both entries of a key may exist at once.      *)
(***************************************************************************)
Names == Keys \X {"plain", "hashed"}

PlainName(k) == <<k, "plain">>

api_key_name(h, k) == IF h THEN <<k, "hashed">> ELSE PlainName(k)

\* The email an `x-key` resolves to: the digest's entry, else the verbatim one.
get_api_key_email(h, store, k) ==
  IF h /\ store[api_key_name(h, k)] # NoEmail
  THEN store[api_key_name(h, k)]
  ELSE store[PlainName(k)]

(***************************************************************************)
(* A key file that passed check_entries: every key is listed once, so it   *)
(* has one owner, and every listed email has one config.                   *)
(***************************************************************************)
Owners == UNION {[ks -> Emails] : ks \in SUBSET Keys}

Files == UNION {[owner : {o}, config : [Range(o) -> Configs]] : o \in Owners}

Listed(f) == DOMAIN f.owner

Watched(h, f) == {api_key_name(h, k) : k \in Listed(f)} \union {PlainName(k) : k \in Listed(f)}

(***************************************************************************)
(* What a sync makes of one entry of the file, given the entry's stored    *)
(* email and plain_value and the names the last sync wrote.                *)
(***************************************************************************)
Current(value, plain_value) == IF value # NoEmail THEN value ELSE plain_value

\* Mutant: an entry of somebody else's for another email is moved, not refused.
Verdict_TakesOver(name, synced, current, email) ==
  IF current = NoEmail THEN "added"
  ELSE IF current # email THEN "moved"
  ELSE IF name \notin synced THEN "unmanaged" ELSE "unchanged"

\* Mutant: what a sync did not write is never in its way.
Verdict_IgnoresConflict(name, synced, current, email) ==
  IF current = NoEmail THEN "added"
  ELSE IF name \notin synced THEN "unmanaged"
       ELSE IF current # email THEN "moved" ELSE "unchanged"

Verdict(name, synced, current, email) ==
  IF current = NoEmail THEN "added"
  ELSE IF name \notin synced
       THEN IF current # email THEN "conflict" ELSE "unmanaged"
       ELSE IF current # email THEN "moved" ELSE "unchanged"

Verdicts(h, synced, value, plain_value, f) ==
  [k \in Listed(f) |->
     Verdict(api_key_name(h, k), synced, Current(value[k], plain_value[k]), f.owner[k])]

\* The same on one consistent view of Redis.
VerdictsIn(h, store, synced, f) ==
  Verdicts(h, synced,
           [k \in Listed(f) |-> store[api_key_name(h, k)]],
           [k \in Listed(f) |-> store[PlainName(k)]], f)

HasConflict(verdicts) == \E k \in DOMAIN verdicts : verdicts[k] = "conflict"

Written(verdicts) ==
  {k \in DOMAIN verdicts : verdicts[k] \in {"added", "moved", "unchanged"}}

WrittenNames(h, verdicts) == {api_key_name(h, k) : k \in Written(verdicts)}

(***************************************************************************)
(* The MULTI block of a sync: delete what is revoked, set what is written  *)
(* (and, under HMAC, drop its verbatim entry), replace the two indexes.    *)
(***************************************************************************)
Removed(h, synced, verdicts) ==
  (synced \ WrittenNames(h, verdicts))
    \union (IF h THEN {PlainName(k) : k \in Written(verdicts)} ELSE {})

StoreAfter(h, synced, verdicts, f, store) ==
  [n \in Names |->
     IF n \in WrittenNames(h, verdicts) THEN f.owner[n[1]]
     ELSE IF n \in Removed(h, synced, verdicts) THEN NoEmail
     ELSE store[n]]

ConfigsAfter(f) ==
  [e \in Emails |-> IF e \in Range(f.owner) THEN f.config[e] ELSE NoConfig]
=============================================================================
