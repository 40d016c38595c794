------------------------------ MODULE KeyStore ------------------------------
(***************************************************************************)
(* What app/api_keys.py promises of the keys in Redis: a sync is one       *)
(* indivisible step that makes the synced keys match the file.  ApiKeys    *)
(* implements this with several workers and an optimistic transaction.     *)
(***************************************************************************)
EXTENDS KeyFile

CONSTANTS
  DefaultKey,    \* the DEFAULT_API_KEYs of this deployment: none or one
  DefaultEmail,  \* DEFAULT_USER_EMAIL
  HmacInitial,   \* whether API_KEY_HMAC_KEY may be set, or unset, at first
  HmacChanges    \* how a redeployment may change that: pairs <<old, new>>

ASSUME KeyStoreAssumption ==
  /\ DefaultKey \subseteq Keys
  /\ DefaultEmail \in Emails
  /\ HmacInitial \subseteq BOOLEAN
  /\ HmacChanges \subseteq BOOLEAN \X BOOLEAN

VARIABLES
  hmac,             \* is API_KEY_HMAC_KEY set?
  api_key,          \* the `api_key:*` entries
  api_keys_synced,  \* SYNCED_KEYS: the entries the last sync wrote
  api_key_configs,  \* KEY_CONFIGS: each synced email's config
  minted            \* history: entries last written by something else than a sync

storeVars == <<hmac, api_key, api_keys_synced, api_key_configs, minted>>

StoreTypeOK ==
  /\ hmac \in BOOLEAN
  /\ api_key \in [Names -> EmailOrNone]
  /\ api_keys_synced \in SUBSET Names
  /\ api_key_configs \in [Emails -> ConfigOrNone]
  /\ minted \in SUBSET Names

\* Redis.factory, on every start: the default key is (re)written.
WithDefaults(h, store) ==
  [n \in Names |->
     IF \E k \in DefaultKey : n = api_key_name(h, k) THEN DefaultEmail ELSE store[n]]

DefaultNames(h) == {api_key_name(h, k) : k \in DefaultKey}

StoreInit ==
  /\ hmac \in HmacInitial
  /\ api_key = WithDefaults(hmac, [n \in Names |-> NoEmail])
  /\ api_keys_synced = {}
  /\ api_key_configs = [e \in Emails |-> NoConfig]
  /\ minted = DefaultNames(hmac)

\* A sync that is not refused, in one step.
Sync(f) ==
  LET verdicts == VerdictsIn(hmac, api_key, api_keys_synced, f)
  IN  /\ ~HasConflict(verdicts)
      /\ api_key' = StoreAfter(hmac, api_keys_synced, verdicts, f, api_key)
      /\ api_keys_synced' = WrittenNames(hmac, verdicts)
      /\ api_key_configs' = ConfigsAfter(f)
      /\ minted' = minted \ (WrittenNames(hmac, verdicts)
                               \union Removed(hmac, api_keys_synced, verdicts))
      /\ UNCHANGED hmac

\* A key minted by the dashboard, POST /api_key or bin/api_key.py.
Mint(k, e) ==
  /\ api_key' = [api_key EXCEPT ![api_key_name(hmac, k)] = e]
  /\ minted' = minted \union {api_key_name(hmac, k)}
  /\ UNCHANGED <<hmac, api_keys_synced, api_key_configs>>

\* One DEL of DELETE /api_key: the indexes of the sync are not told.
Delete(n) ==
  /\ api_key' = [api_key EXCEPT ![n] = NoEmail]
  /\ minted' = minted \ {n}
  /\ UNCHANGED <<hmac, api_keys_synced, api_key_configs>>

\* A start, of one worker or (with another HMAC setting) of all of them.
Start(h) ==
  /\ h = hmac \/ <<hmac, h>> \in HmacChanges
  /\ hmac' = h
  /\ api_key' = WithDefaults(h, api_key)
  /\ minted' = minted \union DefaultNames(h)
  /\ UNCHANGED <<api_keys_synced, api_key_configs>>

StoreNext ==
  \/ \E f \in Files : Sync(f)
  \/ \E k \in Keys, e \in Emails : Mint(k, e)
  \/ \E n \in Names : Delete(n)
  \/ \E h \in BOOLEAN : Start(h)

StoreSpec == StoreInit /\ [][StoreNext]_storeVars
=============================================================================
