------------------------------ MODULE ApiKeys ------------------------------
(***************************************************************************)
(* API keys in a Redis shared by several gunicorn workers, the dashboard   *)
(* and the command line (app/api_keys.py, the key half of app/redis.py,    *)
(* the handlers of app/routes/auth.py, bin/api_key.py).                    *)
(*                                                                         *)
(* Every step is one Redis round trip: between two of them, whatever else  *)
(* uses that Redis may run.  A sync reads under WATCH and writes in one    *)
(* MULTI/EXEC, which Redis refuses when a watched entry was written since. *)
(***************************************************************************)
EXTENDS KeyStore, Naturals

CONSTANTS
  Workers,     \* server processes that may be handling PUT /api_keys
  Offered,     \* the requests PUT /api_keys may get: file, dry_run, allow_empty
  Clients,     \* everything else that reads or writes single keys
  NoKey,       \* no key: no call in progress
  Attempts     \* how often a sync is tried before it is refused (3)

ASSUME ApiKeysAssumption ==
  /\ Offered \subseteq [file : Files, dry_run : BOOLEAN, allow_empty : BOOLEAN]
  /\ Attempts \in Nat \ {0}
  /\ NoKey \notin Keys

VARIABLES
  job,         \* each worker's sync
  client       \* each client's call in progress

vars == <<storeVars, job, client>>

Nobody == [k \in Keys |-> NoEmail]
NoFile == [owner |-> [k \in {} |-> NoEmail], config |-> [e \in {} |-> NoConfig]]

IdleJob == [pc |-> "idle", file |-> NoFile, dry_run |-> FALSE, tries |-> 0,
            synced |-> {}, value |-> Nobody, plain_value |-> Nobody,
            touched |-> FALSE]

IdleClient == [pc |-> "idle", key |-> NoKey, email |-> NoEmail]

Watching == {"smembers", "mget_names", "mget_plains", "decide"}

Init ==
  /\ StoreInit
  /\ job = [w \in Workers |-> IdleJob]
  /\ client = [c \in Clients |-> IdleClient]

(***************************************************************************)
(* What a write does to those in the middle of something: Redis marks      *)
(* every connection that WATCHes a written entry.                          *)
(***************************************************************************)
\* Mutant: SYNCED_KEYS is not watched.
Notice_NoIndex(w, names, index) ==
  IF job[w].pc \in Watching
  THEN [job[w] EXCEPT !.touched = @ \/ names \intersect Watched(hmac, job[w].file) # {}]
  ELSE job[w]

Notice(w, names, index) ==
  IF job[w].pc \in Watching
  THEN [job[w] EXCEPT !.touched = @ \/ index \/ names \intersect Watched(hmac, job[w].file) # {}]
  ELSE job[w]

JobsNotice(names) == job' = [w \in Workers |-> Notice(w, names, FALSE)]

-----------------------------------------------------------------------------
\* PUT /api_keys: validate_entries, then sync() up to Attempts times.

Step(w, from, to) ==
  /\ job[w].pc = from
  /\ UNCHANGED <<storeVars, client>>
  /\ job' = [job EXCEPT ![w] = to]

\* An empty file would revoke every synced key: refused unless allow_empty.
PutApiKeys(w, request) ==
  /\ Listed(request.file) # {} \/ request.allow_empty
  /\ Step(w, "idle", [IdleJob EXCEPT !.pc = "watch", !.file = request.file,
                                     !.dry_run = request.dry_run])

Watch(w) ==
  Step(w, "watch",
       [job[w] EXCEPT !.pc = "smembers", !.touched = FALSE])

ReadSynced(w) ==
  Step(w, "smembers", [job[w] EXCEPT !.pc = "mget_names", !.synced = api_keys_synced])

ReadNames(w) ==
  Step(w, "mget_names",
       [job[w] EXCEPT !.pc = "mget_plains",
          !.value = [k \in Keys |-> IF k \in Listed(job[w].file)
                                    THEN api_key[api_key_name(hmac, k)] ELSE NoEmail]])

ReadPlains(w) ==
  Step(w, "mget_plains",
       [job[w] EXCEPT !.pc = "decide",
          !.plain_value = [k \in Keys |-> IF k \in Listed(job[w].file)
                                          THEN api_key[PlainName(k)] ELSE NoEmail]])

Found(w) ==
  Verdicts(hmac, job[w].synced, job[w].value, job[w].plain_value, job[w].file)

\* A dry run only reports; a conflict refuses the whole sync (409).
Report(w) ==
  /\ job[w].dry_run \/ HasConflict(Found(w))
  /\ Step(w, "decide", IdleJob)

\* Mutants of Retry: no limit; without reading again.
Retry_Forever(w) ==
  /\ ~job[w].dry_run /\ ~HasConflict(Found(w)) /\ job[w].touched
  /\ Step(w, "decide", [IdleJob EXCEPT !.pc = "watch", !.file = job[w].file])

Retry_NoReread(w) ==
  /\ ~job[w].dry_run /\ ~HasConflict(Found(w)) /\ job[w].touched
  /\ Step(w, "decide", [job[w] EXCEPT !.touched = FALSE])

\* EXEC refused by Redis (WatchError): tried again, or SyncRefused.
Retry(w) ==
  /\ ~job[w].dry_run
  /\ ~HasConflict(Found(w))
  /\ job[w].touched
  /\ Step(w, "decide",
          IF job[w].tries + 1 < Attempts
          THEN [IdleJob EXCEPT !.pc = "watch", !.file = job[w].file,
                               !.tries = job[w].tries + 1]
          ELSE IdleJob)

\* EXEC accepted: the whole MULTI block at once.
Commit(w) ==
  LET verdicts == Found(w)
      removed  == Removed(hmac, job[w].synced, verdicts)
      written  == WrittenNames(hmac, verdicts)
      deleted  == {n \in removed : api_key[n] # NoEmail}
  IN  /\ job[w].pc = "decide"
      /\ ~job[w].dry_run
      /\ ~HasConflict(verdicts)
      /\ ~job[w].touched
      /\ api_key' = StoreAfter(hmac, job[w].synced, verdicts, job[w].file, api_key)
      /\ api_keys_synced' = written
      /\ api_key_configs' = ConfigsAfter(job[w].file)
      /\ minted' = minted \ (written \union removed)
      /\ UNCHANGED hmac
      /\ job' = [v \in Workers |->
                   IF v = w THEN IdleJob
                   ELSE Notice(v, written \union deleted,
                               api_keys_synced # {} \/ written # {})]
      /\ UNCHANGED client

-----------------------------------------------------------------------------
\* POST, DELETE and lookups of single keys, by whoever shares the Redis.

PostApiKey(c, k, e) ==
  /\ client[c].pc = "idle"
  /\ Mint(k, e)
  /\ JobsNotice({api_key_name(hmac, k)})
  /\ UNCHANGED client

\* Under HMAC two entries are deleted, one after the other.
DeleteApiKey(c, k) ==
  LET name == api_key_name(hmac, k)
  IN  /\ client[c].pc = "idle"
      /\ Delete(name)
      /\ JobsNotice(IF api_key[name] # NoEmail THEN {name} ELSE {})
      /\ client' = [client EXCEPT
                      ![c] = IF hmac
                             THEN [pc |-> "delete_plain", key |-> k, email |-> NoEmail]
                             ELSE IdleClient]

DeletePlain(c) ==
  LET name == PlainName(client[c].key)
  IN  /\ client[c].pc = "delete_plain"
      /\ Delete(name)
      /\ JobsNotice(IF api_key[name] # NoEmail THEN {name} ELSE {})
      /\ client' = [client EXCEPT ![c] = IdleClient]

ClientStep(c, from, to) ==
  /\ client[c].pc = from
  /\ UNCHANGED <<storeVars, job>>
  /\ client' = [client EXCEPT ![c] = to]

\* bin/api_key.py create: nothing is overwritten, but the lookup is up to two
\* reads, and the write comes after them.
CreateKey(c, k, e) ==
  /\ ClientStep(c, "idle", [pc |-> "create_get_plain", key |-> k, email |-> e])
  /\ hmac => api_key[api_key_name(hmac, k)] = NoEmail

CreateLookPlain(c) ==
  ClientStep(c, "create_get_plain",
             IF api_key[PlainName(client[c].key)] = NoEmail
             THEN [client[c] EXCEPT !.pc = "create_set"] ELSE IdleClient)

CreateSet(c) ==
  /\ client[c].pc = "create_set"
  /\ Mint(client[c].key, client[c].email)
  /\ JobsNotice({api_key_name(hmac, client[c].key)})
  /\ client' = [client EXCEPT ![c] = IdleClient]

-----------------------------------------------------------------------------
\* A worker starts, or bin/api_key.py runs: Redis.factory writes the default key.
WorkerStart ==
  /\ DefaultKey # {}
  /\ Start(hmac)
  /\ JobsNotice(DefaultNames(hmac))
  /\ UNCHANGED client

\* A worker is killed in the middle of a sync; its WATCH goes with it.
WorkerCrash(w) ==
  /\ job[w].pc # "idle"
  /\ UNCHANGED <<storeVars, client>>
  /\ job' = [job EXCEPT ![w] = IdleJob]

\* A redeployment that sets or unsets API_KEY_HMAC_KEY: nothing survives but Redis.
Redeploy(h) ==
  /\ h # hmac
  /\ Start(h)
  /\ job' = [w \in Workers |-> IdleJob]
  /\ client' = [c \in Clients |-> IdleClient]

WorkerNext(w) ==
  \/ Watch(w) \/ ReadSynced(w) \/ ReadNames(w) \/ ReadPlains(w)
  \/ Report(w) \/ Retry(w) \/ Commit(w)

Next ==
  \/ \E w \in Workers :
       \/ \E request \in Offered : PutApiKeys(w, request)
       \/ WorkerNext(w)
       \/ WorkerCrash(w)
  \/ \E c \in Clients :
       \/ \E k \in Keys, e \in Emails : PostApiKey(c, k, e)
       \/ \E k \in Keys : DeleteApiKey(c, k)
       \/ \E k \in Keys, e \in Emails : CreateKey(c, k, e)
       \/ DeletePlain(c) \/ CreateLookPlain(c) \/ CreateSet(c)
  \/ WorkerStart
  \/ \E h \in BOOLEAN : Redeploy(h)

Spec == Init /\ [][Next]_vars

\* A worker is not preempted for good in the middle of a sync: sync() awaits
\* nothing, and redis-py's calls return or raise.
Fairness == \A w \in Workers : WF_vars(WorkerNext(w))

FairSpec == Spec /\ Fairness

-----------------------------------------------------------------------------
JobType ==
  [pc : {"idle", "watch"} \union Watching, file : Files, dry_run : BOOLEAN,
   tries : 0 .. Attempts - 1, synced : SUBSET Names,
   value : [Keys -> EmailOrNone], plain_value : [Keys -> EmailOrNone],
   touched : BOOLEAN]

ClientType ==
  {IdleClient}
    \union [pc : {"create_get_plain", "create_set"}, key : Keys, email : Emails]
    \union [pc : {"delete_plain"}, key : Keys, email : {NoEmail}]

\* Type invariant: the store of KeyStore, the workers' syncs, the clients' calls.
TypeOK ==
  /\ StoreTypeOK
  /\ job \in [Workers -> JobType]
  /\ client \in [Clients -> ClientType]

\* What a sync has read so far is what Redis holds, until a watched entry is
\* written: the reads of one attempt are one consistent view, though they are
\* three round trips.
ReadsHold ==
  \A w \in Workers :
    job[w].pc \in Watching /\ ~job[w].touched =>
      /\ job[w].pc # "smembers" => job[w].synced = api_keys_synced
      /\ job[w].pc \in {"mget_plains", "decide"} =>
           \A k \in Listed(job[w].file) :
             job[w].value[k] = api_key[api_key_name(hmac, k)]
      /\ job[w].pc = "decide" =>
           \A k \in Listed(job[w].file) : job[w].plain_value[k] = api_key[PlainName(k)]

\* "The reads and writes are one watched transaction" (app/api_keys.py:235):
\* whatever interleaves, the syncs that commit are the indivisible syncs of
\* KeyStore, so two of them never mix and no decision is taken on a stale read.
Atomic == StoreSpec

\* "Two syncs at once cannot leave a revoked key working" (docs/setup.md): an
\* entry a sync wrote and nobody else rewrote is always one the next sync knows
\* of, and can revoke.
NoOrphanedKey ==
  \A n \in Names :
    api_key[n] # NoEmail /\ n \notin minted => n \in api_keys_synced

\* The config stored for a synced key's email is never missing: key_config
\* answers None only for an email that has no synced key.
SyncedUserHasConfig ==
  \A n \in api_keys_synced :
    api_key[n] # NoEmail /\ n \notin minted => api_key_configs[api_key[n]] # NoConfig

Resolves(k) == get_api_key_email(hmac, api_key, k)

\* API_KEY_HMAC_KEY was set over verbatim entries that a sync had written.
RolledOut == hmac /\ \E n \in api_keys_synced : n = PlainName(n[1])

\* A committed sync makes the server match the file: every listed key resolves
\* to its entry's email, whoever stored it and in whichever form.  Not so of the
\* first sync after API_KEY_HMAC_KEY is set.
ListedKeysResolve ==
  [][\A w \in Workers :
       Commit(w) /\ ~RolledOut =>
         \A k \in Listed(job[w].file) :
           get_api_key_email(hmac', api_key', k) = job[w].file.owner[k]]_vars

\* "Keys minted before it was set keep working" (docs/setup.md:230): a sync
\* leaves a key that it lists, and that resolves to its owner, as it is.  Not so
\* once API_KEY_HMAC_KEY is set.
ListedKeysKeepWorking ==
  [][\A w \in Workers :
       Commit(w) =>
         \A k \in Listed(job[w].file) :
           Resolves(k) = job[w].file.owner[k]
             => get_api_key_email(hmac', api_key', k) = job[w].file.owner[k]]_vars

Unsynced(k) == {<<k, "plain">>, <<k, "hashed">>} \intersect api_keys_synced = {}

\* Keys no sync wrote are left alone (app/api_keys.py:16): a committing sync
\* neither revokes nor takes over nor hides a key whose entries are not on
\* SYNCED_KEYS, also one minted after the sync looked.
MintedKeysLeftAlone ==
  [][\A w \in Workers :
       Commit(w) => \A k \in Keys :
                      Unsynced(k) => get_api_key_email(hmac', api_key', k) = Resolves(k)
                                       \/ Resolves(k) = NoEmail]_vars

\* A sync in progress comes to an end: commits, reports, or is refused after
\* Attempts tries, however often others write the keys it watches.
SyncEnds == \A w \in Workers : job[w].pc # "idle" ~> job[w].pc = "idle"
=============================================================================
