# nlp_api in TLA+

A verification development of `witty-works/nlp_api`, the FastAPI service that checks
texts for inclusive language: TLA+ modules translated from its source, TLC
configurations that check them on small instances, and theorems that TLAPS checks for
every instance. Line numbers are those of this repository.

To run: `tlc -config keys_two_syncs.cfg MCApiKeys` (each run is a module and a `.cfg`,
listed under *Runs*), `tlapm ApiKeys_proofs.tla`.

## 1. The system

gunicorn starts several uvicorn **workers** (processes); each runs one asyncio event
loop with all its requests interleaving at `await`s. The workers, the dashboard and
`bin/api_key.py` share one **Redis** (without one, each process has an in-memory
`FakeStrictRedis`). Workers are recycled (`--max-requests`), killed (`--timeout`) and
redeployed with other settings; Redis stays, the processes' memory does not.

| Part | Source | State | Operations | Talks to |
|---|---|---|---|---|
| API key store and sync | `api_keys.py`, `redis.py`, `routes/auth.py`, `bin/api_key.py`, `bin/sync_api_keys.py` | Redis: `api_key:*`, `api_keys_synced`, `api_key_configs` | sync a key file, mint, delete, look up, write the default key at start | Redis, in several round trips per operation |
| Request configuration | `config_manager.py`, `routes/config_routes.py` | Redis: user and organisation configs, key configs; the copy each client keeps | put and delete configs, `/v2.0/auth`, layering for a request, `config_changed` | key store, settings, clients |
| LLM calls | `prompt.py`, `routes/rephrase.py`, `routes/prompt.py` | Redis: a counter per minute; per worker a semaphore | count, wait for a slot, call, time out, review and reask | provider, Redis, guardrail |
| spaCy sessions | `model.py`, `language_processor.py`, `routes/debug.py` | per worker: a lock, a vocab and a memory zone per language; each request's Doc | enter and leave a session, set lemmas, fail | LanguageTool, context checker (outside of the session) |
| Authentication | `auth_service.py`, `middleware.py`, `dependencies.py`, `routes/auth.py` | Redis: cached issuer keys; per worker: route cache | look up a key or verify a token, ask for a password, refuse or let through | issuer (HTTP, retried), key store |
| Guardrail | `guardrail.py`, `routes/guardrail*.py`, `guidance.py`, `review_prompt.py` | none (one review) | cut an answer into parts, check each, count, decide, write a note, a reask or guidance | spaCy sessions, LiteLLM |
| Rule engine | `rule_processors.py`, `rule_check.py`, `rule_engine/matchers/pattern.py`, `regex_check.py`, `emoji_check.py`, `gender_format.py`, `text_utils.py` | the token index and the findings of one check; per worker the German substring rules (`Database.substring_rules`), written by every check that meets them | try rules at a token, report, go on | database (awaited in between), spaCy sessions |
| False positives | `language_processor.py`, `context_checker.py` | the findings of one check | drop by rule, by offset, by context | LLM context checker |
| Language detection | `lang_detection.py` | none | decide language and variant | - |
| LanguageTool | `languagetool.py`, `routes/lt.py` | none | ask the LanguageTool server, filter and class what it finds; speak its protocol to clients | LanguageTool server, browser extensions |
| LLM alternatives | `llm_alternatives.py`, `llm_access.py` | none | build prompts, parse answers | LLM calls |
| Alternatives and inflection | `alternatives.py`, `alternatives_engine/`, `gender_format.py` | none | inflect, replace; build and recognise the Inklusivum; switch forms between formats | database |
| Database | `db.py`, `query_definitions.py` | read-only SQLite | look up | - |
| Startup, settings, I/O | `startup.py`, `main.py`, `settings.py`, `http.py`, `logger.py`, ... | settings | load, check, log | - |

### What makes each part correct, and what is hard about it

* **API keys.** A sync makes Redis match the file and leaves other people's keys alone.
  It is three reads, a decision and a `MULTI/EXEC`, with other syncs, mintings,
  deletions, starts and crashes between any two; keys come in two stored forms
  (verbatim, HMAC digest), and the form changes with a redeployment.
* **Request configuration.** Ten voices have a say about each field, and the documented
  order must come out of layers that are put on the other way round, each with its own
  rule about what earlier layers settled. Configs change behind a client's back; two
  hashes tell it.
* **LLM calls.** A budget per wall-clock minute over all workers; a slot per call,
  handed from one to the next while either may time out, fail or restart.
* **spaCy sessions.** A memory zone is global to a language's vocab: it evicts
  the strings of every Doc made since it opened, also another request's.
* **Authentication.** Keys cached while the issuer rotates them, retries that must end
  and must not repeat what the issuer refused, a route cache that must answer with the
  right guard.
* **Rule engine.** A dozen checks per token, each of which says at which token the loop
  goes on: behind the match, at the same token, or, after a pattern, somewhere around it.
  No token may be passed over unseen, none looked at for ever. The substring rules are
  objects of the process: two checks in one rule would report each other's alternatives.
* **The way of a text.** Rules, LanguageTool and the context checker each report findings
  with offsets in their own units, into lists the others cut by index; a client slices its
  text by the result. Either service may be down or answer garbage, and what that does to
  the request depends on the route it came by.
* **Guardrail.** An answer is cut into parts that are checked apart and counted together;
  a gateway sends annotated answers and kept conversations back.
* **Gender formats and the Inklusivum.** A form the server writes is a form it must read
  back at the next check; endings are ambiguous and undone by trying.

`PROJECT.json` lists every hazard at its line with the properties that cover it.

## 2. The modules

| Module | Models | Extends |
|---|---|---|
| `KeyFile` | key files, entry names, what a sync decides and writes: operators only | |
| `KeyStore` | the **abstract specification**: Redis' keys with *indivisible* syncs | `KeyFile` |
| `ApiKeys`, `ApiKeys_proofs` | the workers, clients, starts and redeployments, one Redis round trip per step; implements `KeyStore`; theorems | `KeyStore` |
| `IssuerKeys` | the issuers' public keys: fetched, retried, cached, rotated | |
| `KeyGate`, `KeyGate_proofs` | the gate, the cache of routes, the password guards, `fetch_user`; theorems, also about the issuers' keys | `IssuerKeys` |
| `LlmCalls`, `LlmCalls_proofs` | budget, slots, timeouts and restarts of calls to the LLM; theorems | |
| `NlpSession`, `NlpSession_proofs` | locks, memory zones, Docs; theorems | |
| `RequestConfig`, `RequestConfig_proofs` | stored configs, layers, clients' copies; theorems | |
| `PhraseMatch` | how a rule is matched and where the loop goes on: operators only | |
| `WittyRules`, `WittyRules_proofs` | the loop over the tokens, the shared rules, exceptions; implements `NlpSession`'s sessions; theorems | `PhraseMatch` |
| `Subsequences` | the members of a sequence at some places, in their order, as a recursive *function*: operators only, used by the modules below | |
| `TextOffsets` | UTF-16 offsets: operators only | |
| `LanguageDetection` | the locale of a text: operators only | |
| `GenderFormats` | reading a gendered form and writing it in another format: operators only | |
| `Inklusivum` | the Inklusivum's nouns, built, recognised, switched into: operators only | `GenderFormats` |
| `Findings` | results, false positives, the bulk switch: operators only | `TextOffsets` |
| `LanguageTool` | the request to LanguageTool and its matches: operators only | `Findings` |
| `LtProtocol` | LanguageTool's protocol towards clients: operators only | `LanguageDetection`, `Findings` |
| `Guardrail` | parts, verdicts, notes, guidance: operators only | `Findings`, `LanguageDetection` |
| `TextChecks`, `TextChecks_proofs`, `Conversations_proofs` | a text's way through all of these, by each route, services failing; composes them; theorems, also about the operators above | the six above |
| `MCApiKeys`, `MCKeyGate`, `MCLlmCalls`, `MCNlpSession`, `MCRequestConfig`, `MCWittyRules`, `MCTextChecks` | small instances for TLC | the modules |

Definitions named `X_Something` next to `X` are mutated forms of `X`: plausible bugs the
properties have to notice. Nothing else uses them.

### KeyFile, KeyStore, ApiKeys

`api_key` maps entry names (key and form) to emails, `api_keys_synced` is `SYNCED_KEYS`,
`api_key_configs` is `KEY_CONFIGS`; `minted` is history (entries last written by
something else than a sync). A worker's `job` walks through `sync` (`api_keys.py:225`):
`PutApiKeys` (the handler's refusal of an empty file), `Watch`, `ReadSynced`,
`ReadNames`, `ReadPlains`, then `Report` (dry run or conflict), `Retry` (`WatchError`)
or `Commit`. Redis' `WATCH` is `Notice`: every write marks the jobs that watch what it
wrote. `PostApiKey`, `DeleteApiKey`/`DeletePlain`, `CreateKey`/`CreateLookPlain`/
`CreateSet` are the other writers, `WorkerStart` and `Redeploy` the default key written
at each start (`redis.py:54`), `WorkerCrash` a killed worker. A key's config and force
are one value here; a file's validation is its shape (`Files`).

`Atomic` is `StoreSpec`, the specification of `KeyStore`: each step of `ApiKeys` is one
of its steps or changes nothing in Redis.

### IssuerKeys, KeyGate

`IssuerKeys` is `get_rsa_key` (`auth_service.py:62`) of every request at once. `published`
is what each issuer's JWKS document has under a kid, and `Rotates` changes it at any
moment; `rsa_pem` is Redis' entry with the rest of its TTL; `fetch` where each request is:
asking (`Answers`, `ErrorStatus`, `Breaks`, `TimesOut`), reading the body (`ReadsKey`,
`LacksKey`, or broken off), sleeping between attempts (`WakesUp`), or ended. Time is
`Tick`, with urgent timers (`Due`), and ages an entry, a wait and, as history, how long ago
each key was published (`age`). A document is what the issuer publishes when it answers;
reading it is bounded by aiohttp's limit on the whole request alone.

`KeyGate` is what a call meets: `Gate`/`GateVerified` are `require_api_key`
(`middleware.py:144`) up to and behind its one await, `Route`/`HandlerVerified` the router,
the guards for a username and password (`dependencies.py`) and the handler's own
`fetch_user`. `path_routes` is `_PATH_ROUTES`, shared by all requests, filled by path,
method and slash and cleared at its bound (`Remembered`); `KeyChanges` mints and deletes
x-keys in between. `owned` is history.

Assumed: kids are unique over the issuers, no route takes OPTIONS (both named in the
modules), Redis answers. Not modelled: the header with a test user, and a process that
starts without a context (it answers 503).

### LlmCalls

`llm_requests` is the two counters that can exist, by the age of their minute; `value`
each worker's semaphore; `request` where each request is in `Prompt.handle`
(`prompt.py:105`) and the routes around it. `_count_request` blocks its worker's loop, so
nothing else of that worker runs while a request is "counting" (`LoopFree`).
`asyncio.Semaphore` is external, modelled from how CPython hands a slot to a waiter. Time
is `Tick`; timers are urgent (`OnTime`). `admitted` and `started` are history.

Assumptions, named in the module: `RedisAnswers` (an `INCR` is answered within the minute
after the one its clock was read in), urgent timers. `LLM_MAX_CONCURRENCY=0` (no
semaphore) is not modelled. Counts are capped at `Limit + 1`: only "over the limit" is
read of them.

### NlpSession

`holder` is `Model.locks`, `zone` whether a language's zone is open, `task` each request
with its Doc. Between two `await`s is one step. `Enter` and `Leave` are the ends of the
`nlp_session` block of `apply_language_rules`; `SessionFails` an exception inside (whether
spaCy then closes the zone is left open); `NextPart` a guardrail review; `FetchTokens`,
`SetLemma`, `ZonelessEnds` the debug routes. The zone's eviction is spaCy's, external.

### RequestConfig

`user_configs`, `organization_configs`, `key_configs` are what Redis holds, `deployment`
the settings, `copy` what each client keeps from `/v2.0/auth`. `RequestConfigOf(u, sent)`
is `fetch_configs_for_request` (`config_manager.py:405`) layer by layer, and the actions
are the config routes, a key sync, a redeployment and `/v2.0/auth`. The disabled
categories are a bag: the code's list may name one twice and `remove` takes one out.
`alternatives_max_count` is a field of its own kind: dashboards' rules have none, keys may
not set it (`KeepsLimits`), and `WithMaxCount` (`config_manager.py:436`) puts the
deployment's in place of whatever the request or `DEFAULT_CONFIG` said.
Values that no longer validate (`Valid`) are dropped as `set_config_field` and
`_still_valid` do. A hash is the config it was made of; the dashboard's hashes are
external and assumed to keep the contract of `config_manager.py:154`.

Not modelled: false positives and term replacements, the organisation-only request of
Slack, `debug_configs`, old `advanced_` category names, and clients with no hash at all.
The loop at `config_manager.py:340` changes nothing (both names are one list).

### PhraseMatch, WittyRules

A text is a sequence of words, a word the set of word types `check_word_type` takes it
for (`WordTypes`), a rule a record of its words and the patterns before and after them.
`Phrase` is what `is_phrase_match` (`pattern.py:119`) answers: the first and the last
token, and where the loop goes on. Starred patterns walk backwards whatever their
direction, and French "à la" counts twice, as in the code.

After a match `generate_alternatives` may take words around it into the finding, without
telling the loop: `Widened`. A rule's `heads` are the words it may take in before its own
(articles, "a", the "zu" of a verb; `StartBefore`, `Fronted`), its `tails` those behind
(the second half of a binary pair, the verb of "she"; `Behind`), `filler` says that it
takes in a comma and the word behind it, `skips` that the loop goes on behind the tail (a
pair of French adjectives does, `rule_check.py:667`). Whether it does depends on
dictionaries, the parse and the config, so every possibility is a step. A finding's `words`
are history: the tokens it was matched by, which the loop answers for, unlike those it
took in.

`check[r]` is a request in `witty_rules` (`rule_processors.py:513`): its token index, what
it has found, and the shared rule it is in; `scratch` is what the shared rules hold;
`holder` is `Model.locks` again. One trip of the loop is `SkipConnected`, `EarlyCheck` (the
six checks before the rules), `RuleFound` or `NoRule`, in German `SuffixFound`, `NoSuffix`
or the steps of a shared rule, and `Endings`. What two requests can interleave in, a
shared rule, has a step per `await`: `TrySharedRule` (reset, subcategory), `FetchAlternatives`
(written when the query returns), `TakeAlternatives` and `PutAlternatives` (declined by
further queries and put back), `Report` or `Crash` (read for the last time). All else
touches the request alone, so a check is one step. `Fails` is an exception at an await.

Which false positives a rule has, and which categories are off, is left open: every check
may find nothing. Alternatives are one value per config. Where the loop goes on without
finding anything is kept. Not modelled: findings on long words and sentences (they move
nothing), a verb that is itself passed over as part of a match and so never lemmatized, the
subcategory of its rule that a binary pair is reported under instead
(`alternatives.py:850`), a verb's own text put in place of a pattern's, and texts that begin
with the second half of a form.

`KeepsSessions` is the specification of `NlpSession` under the mapping `Stage`/`AsTask`:
whatever the loop does inside, a check takes and gives back its session as stated there.

### TextChecks and its algorithms

`job` is one request from `Receive` to `Leave`. `ReadText` (or `ReadAnswer`, for a part of a
guardrail's answer) is `fetch_text` and the rules in their session; `AskLanguageTool` and
`Sort` are the two calls outside of it and what is done with their answers, in the order of
`apply_language_rules` (`language_processor.py:50`); `Verdict` and `JudgeText` are what the
guardrail makes of the findings. LanguageTool answers, is down (unreachable, or with an
error status) or sends what cannot be read, the context checker as well (`down` remembers
that one of them was down).
The clients act too: `SendAgain` sends an annotated answer back, `NextTurn` a conversation,
`SwitchFormat` and `SwitchIntoInklusivum` accept a switch of a form.

The operator modules are the algorithms of one file each. A text is a sequence of
characters out of a few kinds (a word is one character, wide ones take two UTF-16 units);
a rule finds its words wherever they stand, as *how* it does is `WittyRules`. A form is a
sequence of pieces (`<<"Lehrer", "*", "innen">>`), a noun of the Inklusivum a stem and its
last letters. What fastText guesses, what LanguageTool finds and what the context checker
says is external: constants, defects with positions, and every possible answer.

Not modelled of them: prefixes and compounds, possessives, pronouns and adjectives without
an article in the Inklusivum, and the parse of a compound by which `rule_check.py` looks a
noun up (LanguageTool's filter does without one, as in the code); the fields of a match
that are only passed on.

## 3. Runs

| Run | Instance | Shows |
|---|---|---|
| `keys_two_syncs` | 2 workers, any files of up to 2 keys, 2 emails, 2 tries | syncs are indivisible whatever interleaves (`Atomic`); no entry is left that nobody revokes (`NoOrphanedKey`) |
| `keys_minting` | 1 worker, 2 clients, 1 key in both forms, default key, HMAC set before, never or in between, fairness | `ListedKeysResolve`, `MintedKeysLeftAlone`, `SyncEnds` |
| `keys_hmac_listed` | 1 worker, HMAC switched on | *violation*: a listed key stops resolving |
| `key_gate` | 1 request at a time with every kind of credential, 2 users, 1 x-key, 1 kid, rotations, 6 settings of the gate | `ClosedByDefault`, `PasswordSuffices`, `OneUser`, `KeysExpire`, `RotationIsFollowed`, `AnsweredInTime` |
| `llm_calls` | 1 worker, 2 requests, 1 slot, limit 1, timeout of 1, 2 ticks a minute, fairness | slots are conserved and not idle, budget kept, `Retry-After` is right; every request ends (`Answered`), the provider owing nothing |
| `nlp_sessions` | 3 requests, 2 languages, all routes, both switch settings, fairness | `DocsIntact`, `CheckServed` |
| `config_layers` | every pair of user and organisation entries per field, 3 key configs, 32 deployments, 9 requests | `Precedence`, `CategoryPrecedence`, `ForcesApply` |
| `config_hashes` | one client, all changes but LLM access | `UnchangedMeansCurrent` |
| `witty_rules` | 33 texts in 3 languages, 19 rules, 3 configs, every way a finding may be widened, a second request in a shared rule, both switch settings, fairness | matches stay inside the text (`TypeOK`), `ChecksKeepApart`, `TokensMatchedOnce`, `NothingPassedOver`, `LoopEnds`, `KeepsSessions` |
| `texts` | the requests of `MCTextChecks`, one at a time, every answer and failure of the services | `TypeOK`, `OffsetsPointAtText`, `RemovedRightly`, `BulkApart`, `AnswerCoveredWhole`, `LtOutsideMarkup`, `AddedOnce`, `FailHasReask`, `FailsForACause`, `FormsReadBack`, `InklusivumIsKnown`, `JobEnds` |
| `lt_errors` | the same | *violation*: a language without a model is answered with an error (`LtAnswers`) |
| `lt_emojis` | the same | *violation*: a match behind an emoji of the BMP has no result, and the check fails (`MatchesAreLookedUp`) |

The type invariants of `ApiKeys`, `KeyGate`, `LlmCalls`, `NlpSession` and `RequestConfig`
are in no run (those of `WittyRules` and `TextChecks` are, as a slip of the code breaks
them): they are proved for all instances (section 5), and so are `ReadsHold`,
`SyncedUserHasConfig`, `CachedRoutesRight` and `RefusedOnce`.

**Bounds and why they are enough.** Keys: two keys, so that one is revoked while another
is written; two emails, so that an entry can be somebody else's; two workers, the least
that race (the property is about pairs); 2 tries where the code has 3
(`Attempts`), enough for a try that is repeated and one that is not. Minting needs one
key, as each key is decided by itself. LLM: a slot that two contend
for and a budget that the first spends; ticks so that a timeout, a minute's turn and a
count's expiry all happen. For more workers, requests and slots the safety properties are
proved, so the run is as small as `Answered` asks for. Sessions: one request inside, one waiting, one without a session.
Config: fields do not depend on one another, so the six rules of `LayerRules` pass
through every entry of every field and two of them meet in every pair.

Gate: requests meet in the cache of
routes, in Redis' entry for a kid and nowhere else, so one request after another, with keys
and documents changing meanwhile, passes through every content these can have; what several
fetches at once do to one entry is proved (`KeyGate_proofs`, for any number). `PathRoutesMax`
is 2, so that the cache is cleared; timeouts are one tick and TTLs two, so that a fetch can
outlast an entry's rest and an entry a rotation.

Loop: what a token is
checked for depends on the few tokens around it, so each text puts together one form, one
pattern or one overlap, at its start, inside and at its end; requests meet in shared rules
only, so one meets the other there. French texts have at most two article tokens before
"sage-femme" (`article*|l`): with three the loop does not end (section 4). Two words stand
behind it there, as the finding is as long as both texts from the article on. The heads
and tails of a rule are those its text has, one kind in each.

Texts: requests share nothing but the session, so one at a time. Three characters at once
and five in all (`text_max_length`, `GUARDRAIL_MAX_LENGTH`) make answers of one, two and
three parts and one that is cut off; a match's context (`CONTEXT_RADIUS`) and the window of
the article rule (`CaseWindow`) are short enough to be cut at both ends of a text; an
answer is sent back up to `MaxResends` = 2 times, once to be noted and once to be changed
by it. Each request puts one hazard together, with services that fail at each call.

**Symmetry** is used for safety only (`keys_two_syncs`); runs with fairness have none. **Deadlock** is checked everywhere.

**Fairness.** `ApiKeys`: a sync's worker goes on (`sync` awaits nothing, redis-py's calls
return or raise); nobody owes it that Redis is quiet. `LlmCalls`: time passes (weak); an
event loop runs ready callbacks in order, so what is ready again and again is run
(strong); the provider owes nothing: only a call whose timeout has passed must end.
`NlpSession`: `asyncio.Lock` is first in, first out, so a waiter that finds it free again
and again gets it (strong); what is inside a session ends, and `FetchTokens` runs. A
call outside of a session may take for ever. `WittyRules`: the same lock (strong); the
awaits inside are queries of a local SQLite, which return (weak). `TextChecks` has none:
`JobEnds` says that every step of a handler leaves less of its request, whatever answers;
`AnsweredInTime` likewise bounds a wait in ticks.

## 4. Where the code and its documentation differ

Shown by a run, and listed under "findings":

1. `keys_hmac_listed`: after `API_KEY_HMAC_KEY` is set, the next sync reports a listed,
   verbatim key "unmanaged", does not write it, and revokes its verbatim entry.
   `docs/setup.md:230` says such keys keep working.
2. `lt_errors`: a supported language without a loaded model is answered with a 500 by the
   LanguageTool protocol (`language_processor.py:45`, `model.py:117`), as is a preferred
   variant that is no locale; `routes/lt.py:495` says "zero matches instead of an error".
3. `lt_emojis`: `utf16_offsets` counts an emoji of the BMP as two units, LanguageTool as
   one. The begin of a match right behind one is no position of the table and stays
   (`languagetool.py:78`), its end is one and moves back (`languagetool.py:81`): nothing is
   left between them, and `text[0]` raises (`models.py:1362`). The check is answered with a
   500; `docs/api.md:271` says that offsets are LanguageTool's.

Known from the models, where TLC refutes a property that no run checks:

* `TwiceAtMost` (`LlmCalls`; `Limit = 2`, one worker, two requests, one slot,
  `Timeout = 2`, `PerMinute = 2`): calls are counted before they wait for a slot, so three
  minutes' budgets may begin in one; `prompt.py:63-65` says two.
* `NoDocOutlivesItsZone` (`NlpSession`, with the debug routes): their Docs live across
  awaits while zones open and close; `docs/spacy-review.md:399`.
* `OwnFindings` (`WittyRules`, `MemoryZones = {FALSE}`): without the lock two checks in one
  shared rule report each other's alternatives, a subcategory that is off, or fail.
  `models.py:422` says the scratch space "must be per-instance"; the instance is shared.
* `LoopEnds`, with three article tokens before "sage-femme": the loop goes on at the token
  it came from, for ever, holding the language's lock (`pattern.py:219`, with
  `rule_processors.py:760` adding one).

* `SentCountApplies` (`RequestConfig`): `alternatives_max_count` is the deployment's
  whatever a request sends (`config_manager.py:436`); `docs/request-configuration.md:233`
  lists it among the fields of a request, with the server's setting as the default, and
  `docs/configuration.md:281` lets `DEFAULT_CONFIG` set it. `Precedence` and its theorem are
  about what the code does: the setting is the first voice for that field.
* `SuggestionsApply` (`RequestConfig`): a stored suggestion for a field that is no flag says
  nothing (`config_manager.py:337`). `docs/request-configuration.md:422-424` says it applies
  where the request left the field out; `docs/configuration.md:275` agrees with the code,
  and `Precedence` with them. For the flag `store_context` alone the property holds.
* `FindingsStandApart` (`WittyRules`): findings overlap. `docs/technical-notes.md:54` says
  that the involved tokens are skipped, "preventing overlapping rules from triggering
  multiple times". That is so of what a rule and the pattern behind it match
  (`TokensMatchedOnce`), but a finding is widened afterwards: back over an article that
  another check has found (`alternatives.py:83`, `rule_check.py:903`), to the start of a
  connected verb (`rule_check.py:925`), over the second noun of a binary pair
  (`alternatives.py:876`), the verb of "she" (`rule_check.py:1505`), the word behind a
  filler's comma or the rest of a gendered form, which the loop comes to next.

* The next sync that lists a key which somebody minted anew for another email takes it over:
  a name left in `SYNCED_KEYS` counts as the sync's own (`api_keys.py:270`);
  `api_keys.py:233` says that is a conflict.
* `config_hash` does not change with the LLM access it reports (`config_manager.py:156`), so
  a client is not told of it; `config_manager.py:154` and `:471`.
* Behind a pattern without anything before its word ("under 30", "older than 50") the loop
  goes on one token too far (`pattern.py:219`); `docs/technical-notes.md:54` says that the
  involved tokens are skipped. `NothingPassedOver` allows for that token.
* A match that begins before the article in front of its word (a starred pattern over two
  articles) gets that article's start with its own text and the article's before it
  (`alternatives.py:139`), so it ends behind its words; the end may lie outside of the text.
* A filler's comma is searched for anywhere in the next 30 characters
  (`rule_check.py:1566`); the text is put together as if it came next.
* Into the Inklusivum and back: forms of the lexicon's exceptions (`Geselles`), of nouns that
  have a second -er (`Wanderne`) and of romance stems (`Alumne`) are not recognised
  (`docs/inklusivum.md`, Detection). Umlauted plurals (`Ärzterne`) are, because
  `fetch_declensions` takes the plural for a masculine of its own. The switch of a plural
  of a noun with a neutral form (`Gäst*innen`) writes its singular.

And excluded by name in the property that would fail:

* A dry run or a refusal may report a conflict that no moment had (`api_keys.py:294`): the
  reads are one view only if `EXEC` says so, and neither gets that far. Nothing is written.
* A request that lists a category twice keeps it disabled although a config forces it on
  (`config_manager.py:312` removes one); `CategoryPrecedence` is checked, and proved, for
  lists without repeats (`ListsNameOnce`).
* With `REQUIRE_AUTH` off, a user whose organisation's config is missing has texts checked
  without their own forces (`config_manager.py:446`, `routes/check.py:86`); `ForcesApply`
  is about deployments with it on.
* `docs/configuration.md:274` speaks of suggestions of the user's config for the two
  flags; the organisation's are taken too, after the user's (`Said`).
* An emoji of the BMP, one UTF-16 unit, is counted as two (`helper.py:204`, against
  `docs/api.md:271`): `OffsetsPointAtText` is about texts without one (`Signs`), and
  `FailsForACause` names it as a cause.
* Markup and what it is read as are put together by code points (`routes/lt.py:183`) and
  what is found in it is moved by UTF-16 units (`routes/lt.py:209`), against
  `docs/api.md:260`: for matches of a document `OffsetsPointAtText` and `LtOutsideMarkup` are
  about markup without `Wide` characters and `Signs`.
* Guidance in a system message that is a list is not found there
  (`guardrail_litellm.py:131`) and appended at every turn; `AddedOnce` is about text.

What the models keep as it is, without a document that says otherwise: a finding's UTF-16
end is compared with a sentence's end in characters (`language_processor.py:221`), so behind
a wide character the context may be the next sentence's; LanguageTool or a remote context
checker that is down fails the request, guardrails' included, as an error status raises and
the `try` of `handle_response` does not cover the connection (`http.py:77`, `http.py:93`);
an answer that breaks off or is not sent as JSON yields an error message instead, which is no match
of LanguageTool's, and from the context checker is read letter by letter as if it were the
sentences that stand; a guess of Ukrainian
("uk") is no locale; LanguageTool is always asked to be picky about English
(`languagetool.py:339` looks at the config, not at what it disables); a window of
characters before a noun becomes a slice from the end at the text's beginning;
`has_gender_denom_ending` never matches bracketed endings, as it looks for the format's
value.

## 5. Theorems

All are about every value of the constants, under the modules' named assumptions. A
theorem that needs more says so in its `ASSUME`; below, with why the code has it.

* **ApiKeys_proofs.** `TypeCorrect`. `ReadsAreCurrent`: `ReadsHold` is inductive with
  `TypeOK`: a job's reads are what Redis holds unless the job is touched, because every
  write that changes what a job read also marks it (`NoticeKeepsReads`). From it
  `SyncIsAtomic` (`Spec => Atomic`): a commit decides on current values
  (`FoundIsCurrent`), so it is `KeyStore`'s `Sync`. The rest is proved of the
  abstract store and carried over: `IndexIsComplete` (`NoOrphanedKey`,
  `SyncedUserHasConfig`), `MintedKeysStay`, `ListedKeysAreServed` (`ListedKeysResolve`).
* **NlpSession_proofs.** `TypeCorrect`; `DocsStayIntact`: `DocsIntact` alone is not
  inductive. It needs `SessionInv` (a check has a Doc only in its session, and a session
  has its language's lock) and `KilledInv` (with the switch off no zone is open).
  `ChecksAloneAreSafe`: without the debug routes no Doc at all outlives its zone.
* **RequestConfig_proofs.** `TypeCorrect`; `PrecedenceHolds`: in a well-typed state the
  layers give each field the first voice's value (`LayeredField` says what two layers of
  rules do, `TenVoices` who is first); `ForcesHold`. `CategoriesHold`: the bag of disabled
  categories is followed through the layers (`LayeredCategory`); assumed is `ListsNameOnce`, as one
  of two entries of a category would survive (section 4). `CopiesAreCurrent`
  (`UnchangedMeansCurrent`): a client's copy is one that its hashes were made of
  (`CopyIsHashed`); assumed is `LlmAccessStays`, as the hash leaves that out (section 4).
  Without it `CopiesAreCurrentButLlm`: nothing else of a copy is out of date.
* **WittyRules_proofs.** `ChecksStayApart`: `ChecksKeepApart` for all requests, languages,
  rules, configs and texts. The invariant it needs: a check in its session holds its
  language's lock (`Locked`), and while a check is in a shared rule, the rule holds what
  that check has written, at each of its steps (`SharedIsOwn`). Two checks in one rule would
  have its language, so its lock, in common (`WriteKeeps`). What a failed check leaves in a
  rule does no harm because every step reads only what its own check has written since.
  Assumed: rules have different names, and none is called like another check.
  `LoopKeepsSessions`: every step of the loop is one of `NlpSession` or none, under the
  refinement mapping (`KeepsSessions`).
* **LlmCalls_proofs.** `SlotsAreConserved`, `NoWakeupIsLost`, `BudgetIsKept`,
  `RetryAfterIsLongEnough`, `TypeCorrect`. The invariant has a part for each. `Shared`: a
  worker's free slots and those held or handed over are all its slots, and a slot is free
  beside a waiter only while one that was handed a slot has yet to go on; `WakeKeeps` is
  what handing out slots preserves, and every action that frees one is a case of it
  (`LeavingKeeps`). `Budget`: a count is no less than what was let through on it *and does
  not expire before its minute is two minutes old*, which is why an expiry never hides what
  was spent. `Waits`: who has read the clock in this minute is to wait for its turn at least.
* **KeyGate_proofs.** `GateIsClosed`, `PasswordsOpen`, `OneUserEach`, `CacheIsRight`,
  `KeysAlwaysExpire`, `RotationsAreFollowed`, `RefusalsAreFinal`, `AllAnsweredInTime`,
  `TypesHold`, for any number of requests, kids, routes and deployments. `GInv`: whatever is
  in the cache of routes is the route its target has (so clearing it does no harm), an
  x-key's owner is one it has had, and each call's stage agrees with what it was resolved
  to. Each step of the gate is a step of `IssuerKeys` or leaves the keys alone, so `KInv`,
  the inductive invariant of the issuers' keys, carries over: `KeysExpire` needs, of a
  document being read, that its keys are no older than the read, and of a cached key, that
  its age and the rest of its TTL are no more than one read and one TTL together;
  `AnsweredInTime` needs what each attempt has waited by its stage (`Timely`).

* **TextChecks_proofs**, **Conversations_proofs.** The operators of a text's way are folds and recursive functions
  over lists. What they compute is proved by induction over the length, which here goes by
  the well-foundedness of the naturals (`Least`, `Induct`, `InductTo`) and an instance for
  each of them: what is kept of a list (`KeptBy`), offsets and their inverse, the parts of
  an answer, what switches of a form mark, the markup of a document.

  The invariant comes in layers, each inductive with those before it:
  - `IsGood` (`JobsAreGood`): where a job stands in its text, its part and its texts
    (`IsJob`, `IsAmongTexts`, `IsInText`), what its answer is made of (`IsAnswered`), and that
    what is found are findings. From it `TypeCorrect`; `RequestsEnd` (`JobEnds`: a part is
    never empty, so each step leaves less); `FailuresHaveCauses` (`FailsForACause`);
    `FailuresHaveReasks` (`FailHasReask`); `MatchesAreOutsideMarkup` (`LtOutsideMarkup`).
  - `IsRead` (`FindingsReadRightly`): each finding reads, where it says, as what it says, in
    the units of its part, and in those of the text once it is moved there. For that, a
    part starts where the parts before it end (`IsOf`), and the offsets of a part are those
    of the text less its start. From it `OffsetsAreTheClients` (`OffsetsPointAtText`) and
    `RemovedAreWrong` (`RemovedRightly`).
  - `IsApart`: what is in the bulk switch stands apart at each step, and LanguageTool's
    results are not in it. From it `SwitchedResultsStandApart` (`BulkApart`).
  - `IsNoting` and `IsGuided` (in `Conversations_proofs`, as all that is about what the
    guardrail answers): what the guardrail has added is known again. From them
    `AddedOnlyOnce` (`AddedOnce`). Without a context checker the review of an answer is a
    function of the answer and of what is asked of it (`Asked`): `Reaches` is the set of
    standings on the way, no two of them side by side (`ReviewedOnce`), and `IsNoting` says
    that each job is at one of them. So a note is `Noted` of the text before it, and found
    again, whatever is reviewed beside it; what was sent back has a text with a note, and
    each other text passes (`AllSettled`), which is what is sent back again. No finding
    brings the mark itself (`AreQuiet`), so the last mark is the note's. `IsGuided` says
    that a system message that is a text has the guidance at most once as it comes, and
    once as it is sent on.
  - `IsCovering` (`JobIsCovering`, in `Conversations_proofs`): what has been read of an
    answer is covered (`Covers`): no two findings of a rule are at the same place, each of
    its first `n` words that a rule of one word is for has its finding, and no finding
    begins behind them. Where nothing is taken out again (no context checker, no false
    positives), the findings of a part cover the part; they go behind those before them,
    since the offsets of a part are those of the answer less `Shift` (`ShiftAhead`,
    `OffsetsRise`), so `n` grows by the part (`MoreCovered`). From it `AnswersCoveredWhole` (`AnswerCoveredWhole`).

  Assumed by some of them:
  - `PredictionsAreLists`: fastText answers with a list (external).
  - `NothingIsNoList`: the model value `Nothing`, the code's None, is no sequence.
  - `CheckedWithinSentences`: no sentence ends within the words of a rule whose sentence is
    looked at again: the rules with `context_check` name single words (`app/rules.py:620`,
    `:1450`).
  - `FormsStandApart`: no two forms written in another format overlap. Here a rule finds
    its words wherever they stand; in the code the loop goes on behind each form it has
    found (`regex_check.py:433`, `rule_processors.py:144`). The masculines, which are marked
    afterwards, need no such assumption: `gender_format.py` only lets them in clear of the
    others, and `MarkApart` proves that this is enough. A user's terms are never in the
    switch (`IsConfig`).
  - `WordsAreOnce`: no two rules of a language, nor a user's terms beside them, have the same
    words, or one place would have a finding of each. Here a rule finds its words wherever
    they stand; in the code the loop tries a user's terms before the rules
    (`rule_processors.py:579`) and goes on behind what it has found. The rules and terms of the run have it.

  Named assumptions on what is sent, which TLC evaluates for the requests of the run:
  `ConversationsAssumption` (only LiteLLM sends answers as texts, the type of
  `LitellmGuardrailIn`; nobody but Witty writes the guidance into a message twice) and
  `NotesAssumption` (the note's mark, `WITTY_NOTE`, is in no rule, alternative or term of a
  config). The rules' data has no such mark; nothing in the code keeps an organisation from
  putting it into a term of its own, whose note would then be cut off at the wrong mark.

Only model-checked:

* All liveness (`SyncEnds`, `Answered`, `CheckServed`, `LoopEnds`), which is out of the
  prover's reach.
* `TypeOK`, `TokensMatchedOnce` and `NothingPassedOver` of `WittyRules`: they are about the
  patterns of the rules there are, and false for others (a starred pattern may walk out of
  any text), so no theorem for every value of `Rules` states them.
* `FormsReadBack` and `InklusivumIsKnown` of `TextChecks`, which are about the letters of
  the forms and the lexicon at hand.

## 6. Not modelled, and why

The rules' data, the inflection of alternatives and the database's queries are data and
string processing without state that changes; prompts and the reading of a model's answers
are text; logging, Sentry and the privacy filter are I/O; startup is straight-line code
whose settings enter the models as constants and redeployments. The debug and static
routes are thin adapters, the textarea is a browser editor. A change from one HMAC secret
to another is not modelled, only setting and unsetting it.

## 7. Plan

1. `KeyFile`/`KeyStore`/`ApiKeys`, `LlmCalls`, `NlpSession`, `RequestConfig`,
   `PhraseMatch`/`WittyRules`, `IssuerKeys`/`KeyGate`, `TextChecks` and its algorithms: done.
2. The loop inside `TextChecks`: the findings of `WittyRules` instead of a rule's words
   wherever they stand, for the routes and failures of the one with the tokens of the other.
3. The cache of LLM alternatives, and false positives and term replacements in
   `RequestConfig`.
4. More of the alternatives as operators: declension of adjectives, which choose between
   forms by their article.
5. Proofs: a form of `NothingPassedOver` with an assumption on the patterns that makes it
   true of all rules.
