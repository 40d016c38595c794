-------------------------- MODULE MCRequestConfig --------------------------
(* Small instances of RequestConfig for TLC. *)
EXTENDS RequestConfig, Sequences

CONSTANTS star, dash, stale, diversity

Entry(value, status) == [value |-> value, status |-> status]

Only(fields) == [n \in Names |-> IF n \in DOMAIN fields THEN fields[n] ELSE Nothing]

RulesOf(fields, categories, force_categories) ==
  [fields |-> fields, categories |-> categories, force_categories |-> force_categories]

Some(fields, disabled) == [fields |-> Only(fields), disabled |-> disabled]

NoCategories == [c \in Categories |-> Nothing]

Times(n) == [c \in Categories |-> n]

FlagsSet(store, llm) == [store_context |-> store, llm_alternatives |-> llm]

Deployment(client_config, default_user_enabled, allowed, auth, flags, count, default) ==
  [client_config_enabled |-> client_config, default_user_config_enabled |-> default_user_enabled,
   llm_allowed |-> allowed, require_auth |-> auth, default_user |-> flags,
   alternatives_max_count |-> count, default_config |-> default]

(***************************************************************************)
(* Layers.  No field depends on another, so a few rules pass through every *)
(* entry of every field: two of them, the user's and the organisation's,   *)
(* meet in every pair of entries.                                          *)
(***************************************************************************)
Turn(entries, i) == entries[(i % Len(entries)) + 1]

FlagEntries ==
  <<Nothing, Entry(TRUE, "force"), Entry(FALSE, "force"),
    Entry(TRUE, "suggestion"), Entry(FALSE, "suggestion")>>

Endings == <<Nothing, Entry(star, "force"), Entry(dash, "force"), Entry(stale, "force"),
             Entry(dash, "suggestion")>>

CategoryRules ==
  <<<<Nothing, {}>>, <<TRUE, {}>>, <<FALSE, {}>>,
    <<Nothing, Parents>>, <<TRUE, Parents>>, <<FALSE, Parents>>>>

\* No rules name alternatives_max_count (RuleConfig, app/models.py:844).
LayerRules ==
  {RulesOf([store_context |-> Turn(FlagEntries, i), llm_alternatives |-> Turn(FlagEntries, i + 2),
            german_gender_ending |-> Turn(Endings, i + 1), alternatives_max_count |-> Nothing],
           Times(Turn(CategoryRules, i)[1]), Turn(CategoryRules, i)[2]) : i \in 0 .. 5}

Part(store, llm, ending, count, disabled) ==
  Some([store_context |-> store, llm_alternatives |-> llm, german_gender_ending |-> ending,
        alternatives_max_count |-> count], disabled)

LayerKeys ==
  {[config |-> Part(FALSE, TRUE, dash, Nothing, Times(1)), force |-> Unset],
   [config |-> Part(Nothing, Nothing, stale, Nothing, Nothing),
    force |-> Part(FALSE, TRUE, Nothing, Nothing, Times(1))],
   [config |-> Part(TRUE, Nothing, Nothing, Nothing, Nothing),
    force |-> Part(FALSE, Nothing, dash, Nothing, Nothing)]}

LayerDeployments ==
  {Deployment(client, default_user, allowed, auth, FlagsSet(FALSE, TRUE),
              IF default_user THEN star ELSE dash, default) :
     client \in BOOLEAN, default_user \in BOOLEAN, allowed \in {{}, Users}, auth \in BOOLEAN,
     default \in {Unset, Part(FALSE, TRUE, dash, dash, Times(1))}}

\* What a request may say of one field goes with what it says of another.
LayerSents ==
  {Part(s, l, IF s = Nothing THEN Nothing ELSE IF s THEN star ELSE dash,
        IF l = Nothing THEN Nothing ELSE IF l THEN dash ELSE star,
        IF l = Nothing THEN Nothing ELSE IF l THEN Times(1) ELSE Times(0)) :
     s \in BOOLEAN \union {Nothing}, l \in BOOLEAN \union {Nothing}}

\* Clients that keep a copy, of few configs.
FewRules ==
  {RulesOf(FlagsSet(Entry(v, s), Nothing), NoCategories, {}) :
     v \in BOOLEAN, s \in {"force", "suggestion"}}

SettingsButLlm ==
  {Deployment(client, default_user, Users, TRUE, FlagsSet(store, FALSE), star, Unset) :
     client, default_user, store \in BOOLEAN}

FewKeys ==
  {[config |-> Some(FlagsSet(FALSE, TRUE), Nothing), force |-> Unset],
   [config |-> Unset, force |-> Some(FlagsSet(FALSE, TRUE), Nothing)],
   [config |-> Some(FlagsSet(TRUE, Nothing), Nothing),
    force |-> Some(FlagsSet(FALSE, Nothing), Nothing)]}

NoSents == {Unset}

Dimension == [c \in Categories |-> diversity]
=============================================================================
