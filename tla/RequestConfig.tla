--------------------------- MODULE RequestConfig ---------------------------
(***************************************************************************)
(* What a request is checked with (app/config_manager.py): the layers that *)
(* fetch_configs_for_request puts over each other, the configs behind them *)
(* (the dashboard's in Redis, a synced key's, the deployment's own), and   *)
(* the copy a client keeps until a check tells it that the config changed. *)
(*                                                                         *)
(* A config is its two flags, its other fields and the categories it       *)
(* disables.  False positives and term replacements are not modelled.      *)
(***************************************************************************)
EXTENDS Integers

CONSTANTS
  Users,          \* emails
  Clients,        \* the users whose client keeps a copy of their config
  Organizations,  \* organization ids
  Nothing,        \* None: not sent, not stored, no user, no organization
  Fields,         \* the config's fields other than the flags
  Values,         \* their values, in any version of the API
  Valid,          \* those that validate in the version deployed
  BuiltIn,        \* the default of a field
  Categories,     \* category keys
  Advanced,       \* the `_advanced` ones
  Parents,        \* the dimensions categories sit in
  Parent,         \* category -> dimension
  Rules,          \* the rule configs the dashboard may post
  KeyConfigs,     \* the `config` and `force` a key file may hold for a user
  Deployments,    \* the settings a deployment may start with
  Sents           \* the configs requests may carry

Flags == {"store_context", "llm_alternatives"}

Names == Flags \union Fields

ValuesOf(n) == IF n \in Flags THEN BOOLEAN ELSE Values

\* Some fields, each with a value, and perhaps the categories to disable: a list,
\* which may name one more than once.
IsPartial(p) ==
  /\ DOMAIN p.fields = Names
  /\ \A n \in Names : p.fields[n] = Nothing \/ p.fields[n] \in ValuesOf(n)
  /\ p.disabled = Nothing \/ p.disabled \in [Categories -> Nat]

\* NOT_PER_KEY: the deployment's limit, which no key may set.
MaxCount == "alternatives_max_count"
KeepsLimits(key) ==
  MaxCount \in Names => key.config.fields[MaxCount] = Nothing /\ key.force.fields[MaxCount] = Nothing

IsValid(p) == \A n \in Fields : p.fields[n] = Nothing \/ p.fields[n] \in Valid

Unset == [fields |-> [n \in Names |-> Nothing], disabled |-> Nothing]

IsRules(r) ==
  /\ DOMAIN r = {"fields", "categories", "force_categories"}
  /\ DOMAIN r.fields = Names
  /\ \A n \in Names :
       r.fields[n] = Nothing \/ /\ r.fields[n].value \in ValuesOf(n)
                                /\ r.fields[n].status \in {"force", "suggestion"}
  /\ r.categories \in [Categories -> BOOLEAN \union {Nothing}]
  /\ r.force_categories \subseteq Parents

ASSUME RequestConfigAssumption ==
  /\ Clients \subseteq Users
  /\ Nothing \notin Users \union Organizations \union Values \union BOOLEAN
  /\ Nothing \notin [Categories -> Nat]
  /\ Nothing \notin Rules \union KeyConfigs
  /\ Fields \intersect Flags = {}
  /\ Valid \subseteq Values /\ BuiltIn \in Valid
  /\ Advanced \subseteq Categories
  /\ Parent \in [Categories -> Parents]
  /\ \A r \in Rules : IsRules(r)
  /\ \A k \in KeyConfigs : IsPartial(k.config) /\ IsPartial(k.force) /\ KeepsLimits(k)
  /\ \A s \in Sents : IsPartial(s) /\ IsValid(s)
  /\ \A d \in Deployments :
       /\ {d.client_config_enabled, d.default_user_config_enabled,
           d.require_auth} \subseteq BOOLEAN
       /\ d.llm_allowed \subseteq Users \union {Nothing}
       /\ d.default_user \in [Flags -> BOOLEAN]
       /\ d.alternatives_max_count \in Values
       /\ IsPartial(d.default_config) /\ IsValid(d.default_config)

VARIABLES
  deployment,            \* the settings the workers run with
  user_configs,          \* Redis: dashboard-user-email:<email>
  organization_configs,  \* Redis: <organization id>
  key_configs,           \* Redis: api_key_configs
  copy                   \* each user's client: the /v2.0/auth answer it keeps

vars == <<deployment, user_configs, organization_configs, key_configs, copy>>

-----------------------------------------------------------------------------
\* fetch_user_organization_configs

\* key_config: what no longer validates is dropped.
StillValid(part) ==
  [part EXCEPT !.fields = [n \in Names |-> IF n \in Fields /\ part.fields[n] \notin Valid
                                           THEN Nothing ELSE part.fields[n]]]

KeyEntry(u) ==
  IF key_configs[u] = Nothing THEN [config |-> Unset, force |-> Unset]
  ELSE [config |-> StillValid(key_configs[u].config),
        force |-> StillValid(key_configs[u].force)]

\* The two flags are forced where a client may not set them for itself.
FlagStatus == IF deployment.client_config_enabled THEN "suggestion" ELSE "force"

\* build_default_user_configs: the key's force, its config, the deployment's flags.
DefaultRules(u) ==
  LET entry == KeyEntry(u)
      Rule(n) ==
        IF entry.force.fields[n] # Nothing
        THEN [value |-> entry.force.fields[n], status |-> "force"]
        ELSE IF entry.config.fields[n] # Nothing
        THEN [value |-> entry.config.fields[n],
              status |-> IF n \in Flags THEN FlagStatus ELSE "suggestion"]
        ELSE IF n \in Flags
        THEN [value |-> deployment.default_user[n], status |-> FlagStatus]
        ELSE Nothing
  IN  [fields |-> [n \in Names |-> Rule(n)],
       categories |-> [c \in Categories |->
         IF entry.force.disabled # Nothing /\ entry.force.disabled[c] > 0
         THEN FALSE ELSE Nothing],
       force_categories |-> {}]

\* A dashboard-synced config wins over a key's and the deployment's.
OwnConfigs(u) ==
  IF u = Nothing THEN Nothing
  ELSE IF user_configs[u] # Nothing
  THEN [rules |-> user_configs[u].rules,
        organization |-> user_configs[u].organization, key_defaults |-> Unset]
  ELSE IF key_configs[u] # Nothing \/ deployment.default_user_config_enabled
  THEN [rules |-> DefaultRules(u), organization |-> Nothing,
        key_defaults |-> KeyEntry(u).config]
  ELSE Nothing

\* No configs at all either when the organization's are missing.
HasConfigs(u) ==
  LET own == OwnConfigs(u)
  IN  /\ own # Nothing
      /\ own.organization # Nothing => organization_configs[own.organization] # Nothing

NoRules ==
  [fields |-> [n \in Names |-> Nothing], categories |-> [c \in Categories |-> Nothing],
   force_categories |-> {}]

UserRules(u) == IF HasConfigs(u) THEN OwnConfigs(u).rules ELSE NoRules

OrganizationOf(u) == IF HasConfigs(u) THEN OwnConfigs(u).organization ELSE Nothing

OrganizationRules(u) ==
  IF OrganizationOf(u) = Nothing THEN NoRules ELSE organization_configs[OrganizationOf(u)]

KeyDefaults(u) == IF HasConfigs(u) THEN OwnConfigs(u).key_defaults ELSE Unset

-----------------------------------------------------------------------------
\* fetch_configs_for_request: the layers.

BuiltInOf(n) == IF n = "store_context" THEN TRUE
                ELSE IF n = "llm_alternatives" THEN FALSE ELSE BuiltIn

\* What the request itself decides: the flags only with CLIENT_CONFIG_ENABLED.
MaySend(n) == n \in Flags => deployment.client_config_enabled

Settled(sent) == {n \in Names : sent.fields[n] # Nothing /\ MaySend(n)}

SentConfig(sent) ==
  [fields |-> [n \in Names |-> IF n \in Settled(sent) THEN sent.fields[n] ELSE BuiltInOf(n)],
   disabled |-> IF sent.disabled = Nothing THEN [c \in Categories |-> 0] ELSE sent.disabled]

\* apply_defaults: fields the request did not settle.
ApplyDefaults(config, defaults, sent) ==
  [fields |-> [n \in Names |->
     IF n \notin Settled(sent) /\ defaults.fields[n] # Nothing
     THEN defaults.fields[n] ELSE config.fields[n]],
   disabled |-> IF sent.disabled = Nothing /\ defaults.disabled # Nothing
                THEN defaults.disabled ELSE config.disabled]

Forces(rules, n) ==
  /\ rules.fields[n] # Nothing
  /\ rules.fields[n].status = "force"
  /\ n \in Fields => rules.fields[n].value \in Valid

\* A flag is also suggested, to a request for which nothing has settled it.
Decides(rules, n, settled) ==
  \/ Forces(rules, n)
  \/ n \in Flags /\ rules.fields[n] # Nothing /\ n \notin settled

\* Mutant: the organisation disables whatever it forces off.
Listed_AnyForce(c, times, rules, force_disables) ==
  IF rules.categories[c] = TRUE THEN IF times > 0 THEN times - 1 ELSE 0
  ELSE IF rules.categories[c] = FALSE /\ times = 0 THEN 1 ELSE times

\* A category the rules force on is removed from the list, once.  One they force
\* off is put on it: by the organisation only in a dimension it forces.
Listed(c, times, rules, force_disables) ==
  IF rules.categories[c] = TRUE THEN IF times > 0 THEN times - 1 ELSE 0
  ELSE IF /\ rules.categories[c] = FALSE
          /\ force_disables \/ Parent[c] \in rules.force_categories
          /\ times = 0
  THEN 1 ELSE times

\* apply_configs
ApplyConfigs(config, rules, force_disables, settled) ==
  [fields |-> [n \in Names |-> IF Decides(rules, n, settled)
                               THEN rules.fields[n].value ELSE config.fields[n]],
   disabled |-> [c \in Categories |-> Listed(c, config.disabled[c], rules, force_disables)]]

SettledBy(rules, settled) == settled \union {n \in Flags : Decides(rules, n, settled)}

\* llm_alternatives_allowed: whoever runs the API pays, and has the last word.
Gate(u, config) ==
  IF u \in deployment.llm_allowed THEN config
  ELSE [config EXCEPT !.fields["llm_alternatives"] = FALSE]

\* alternatives_max_count is the setting, whatever the request or DEFAULT_CONFIG say.
WithMaxCount(config) ==
  [config EXCEPT !.fields = [n \in Names |->
     IF n = MaxCount THEN deployment.alternatives_max_count ELSE config.fields[n]]]

\* Mutant: the organisation's rules under the user's.
Layered_UserLast(u, sent) ==
  LET deployed == WithMaxCount(ApplyDefaults(SentConfig(sent), deployment.default_config, sent))
      defaults == ApplyDefaults(deployed, KeyDefaults(u), sent)
      company  == ApplyConfigs(defaults, OrganizationRules(u), FALSE, Settled(sent))
  IN  ApplyConfigs(company, UserRules(u), TRUE, SettledBy(OrganizationRules(u), Settled(sent)))

Layered(u, sent) ==
  LET deployed == WithMaxCount(ApplyDefaults(SentConfig(sent), deployment.default_config, sent))
      advanced == [c \in Categories |-> IF c \in Advanced THEN 1 ELSE 0]
      anyone   == IF u = Nothing THEN [deployed EXCEPT !.disabled = advanced] ELSE deployed
      defaults == ApplyDefaults(anyone, KeyDefaults(u), sent)
      users    == ApplyConfigs(defaults, UserRules(u), TRUE, Settled(sent))
  IN  ApplyConfigs(users, OrganizationRules(u), FALSE, SettledBy(UserRules(u), Settled(sent)))

RequestConfigOf(u, sent) == Gate(u, Layered(u, sent))

\* Mutant: it is done whatever REQUIRE_AUTH says.
Checked_Always(u) == TRUE

\* check, without configs, is done all the same where REQUIRE_AUTH is off.
Checked(u) == HasConfigs(u) \/ ~deployment.require_auth

-----------------------------------------------------------------------------
(***************************************************************************)
(* /v2.0/auth and config_changed.  A hash is the config it was made of: the *)
(* dashboard's are external, build_default_user_configs hashes the rules   *)
(* before the deployment's last word on the LLM is added to them.          *)
(***************************************************************************)
ReportedRules(u) ==
  IF u \in deployment.llm_allowed THEN UserRules(u)
  ELSE [UserRules(u) EXCEPT !.fields["llm_alternatives"] =
          [value |-> FALSE, status |-> "force"]]

ConfigHash(u) == UserRules(u)

OrganizationHash(u) ==
  IF OrganizationOf(u) = Nothing THEN Nothing ELSE OrganizationRules(u)

\* fetch_result_conf
Reported(u) ==
  [config_hash |-> ConfigHash(u), organization_config_hash |-> OrganizationHash(u),
   config |-> ReportedRules(u), organization_config |-> OrganizationRules(u)]

\* Mutant: only the user's own hash is compared.
ConfigChanged_UsersOnly(u, kept) == kept.config_hash # ConfigHash(u)

\* fetch_config_change, of the hashes the client sends with a check.
ConfigChanged(u, kept) ==
  \/ kept.config_hash # ConfigHash(u)
  \/ kept.organization_config_hash # OrganizationHash(u)

-----------------------------------------------------------------------------
Init ==
  /\ deployment \in Deployments
  /\ user_configs = [u \in Users |-> Nothing]
  /\ organization_configs = [o \in Organizations |-> Nothing]
  /\ key_configs = [u \in Users |-> Nothing]
  /\ copy = [u \in Clients |-> Nothing]

PostUserConfigs(u, rules, o) ==
  /\ user_configs' = [user_configs EXCEPT ![u] = [rules |-> rules, organization |-> o]]
  /\ UNCHANGED <<deployment, organization_configs, key_configs, copy>>

DeleteUserConfigs(u) ==
  /\ user_configs[u] # Nothing
  /\ user_configs' = [user_configs EXCEPT ![u] = Nothing]
  /\ UNCHANGED <<deployment, organization_configs, key_configs, copy>>

PostOrganizationConfigs(o, rules) ==
  /\ organization_configs' = [organization_configs EXCEPT ![o] = rules]
  /\ UNCHANGED <<deployment, user_configs, key_configs, copy>>

DeleteOrganizationConfigs(o) ==
  /\ organization_configs[o] # Nothing
  /\ organization_configs' = [organization_configs EXCEPT ![o] = Nothing]
  /\ UNCHANGED <<deployment, user_configs, key_configs, copy>>

\* A sync of the key file (see ApiKeys) sets, changes or removes a user's config.
SyncKeyConfig(u, entry) ==
  /\ key_configs' = [key_configs EXCEPT ![u] = entry]
  /\ UNCHANGED <<deployment, user_configs, organization_configs, copy>>

\* The workers are started with other settings; Redis and the clients stay.
Redeploy(settings) ==
  /\ deployment' = settings
  /\ UNCHANGED <<user_configs, organization_configs, key_configs, copy>>

\* POST /v2.0/auth: the answer is kept; after a 403 the client is signed out.
Auth(u) ==
  /\ copy' = [copy EXCEPT ![u] = IF HasConfigs(u) THEN Reported(u) ELSE Nothing]
  /\ UNCHANGED <<deployment, user_configs, organization_configs, key_configs>>

Next ==
  \/ \E u \in Users :
       \/ \E rules \in Rules, o \in Organizations \union {Nothing} : PostUserConfigs(u, rules, o)
       \/ DeleteUserConfigs(u)
       \/ \E entry \in KeyConfigs \union {Nothing} : SyncKeyConfig(u, entry)
       \/ u \in Clients /\ Auth(u)
  \/ \E o \in Organizations :
       (\E rules \in Rules : PostOrganizationConfigs(o, rules)) \/ DeleteOrganizationConfigs(o)
  \/ \E settings \in Deployments : Redeploy(settings)

Spec == Init /\ [][Next]_vars

-----------------------------------------------------------------------------
\* The first thing said, of what a list of voices says.
FirstSaid(said) ==
  said[CHOOSE i \in DOMAIN said : said[i] # Nothing /\ \A j \in 1 .. i - 1 : said[j] = Nothing]

ForcedValue(rules, n) == IF Forces(rules, n) THEN rules.fields[n].value ELSE Nothing

FlagValue(rules, n) ==
  IF n \in Flags /\ rules.fields[n] # Nothing THEN rules.fields[n].value ELSE Nothing

\* Who has a say about a field, from the last word to the last resort.
Said(u, sent, n) ==
  << IF n = "llm_alternatives" /\ u \notin deployment.llm_allowed THEN FALSE ELSE Nothing,
     ForcedValue(OrganizationRules(u), n),
     ForcedValue(UserRules(u), n),
     IF n = MaxCount THEN deployment.alternatives_max_count ELSE Nothing,
     IF MaySend(n) THEN sent.fields[n] ELSE Nothing,
     FlagValue(UserRules(u), n),
     FlagValue(OrganizationRules(u), n),
     KeyDefaults(u).fields[n],
     deployment.default_config.fields[n],
     BuiltInOf(n) >>

\* Type invariant.
TypeOK ==
  /\ deployment \in Deployments
  /\ user_configs \in
       [Users -> {Nothing} \union [rules : Rules, organization : Organizations \union {Nothing}]]
  /\ organization_configs \in [Organizations -> Rules \union {Nothing}]
  /\ key_configs \in [Users -> KeyConfigs \union {Nothing}]
  /\ DOMAIN copy = Clients
  /\ \A u \in Clients : copy[u] # Nothing => IsRules(copy[u].config)

\* Whatever is stored, deployed and sent, each field of a request's config is
\* what the first of those who say anything about it says, although the layers
\* are put on the other way round: a force, the request, a suggestion for a flag,
\* the key, DEFAULT_CONFIG (docs/configuration.md:269).  The number of alternatives
\* is the deployment's (app/config_manager.py:436), and a suggestion for a field
\* that is no flag says nothing (docs/configuration.md:275), which
\* docs/request-configuration.md does not say, see the two below.
Precedence ==
  \A u \in Users \union {Nothing}, sent \in Sents, n \in Names :
    RequestConfigOf(u, sent).fields[n] = FirstSaid(Said(u, sent, n))

\* The number of alternatives is the request's, and "defaults to server setting"
\* (docs/request-configuration.md:233).  Not so: the setting replaces it.
SentCountApplies ==
  \A u \in Users, sent \in Sents :
    MaxCount \in Names /\ sent.fields[MaxCount] # Nothing
      => RequestConfigOf(u, sent).fields[MaxCount] = sent.fields[MaxCount]

\* A stored suggestion "applies only where the request left the field out", for
\* whichever field (docs/request-configuration.md:423).  Not so: only for the flags.
SuggestionsApply ==
  \A u \in Users, sent \in Sents, n \in Names \ {"llm_alternatives"} :
    LET own == UserRules(u).fields[n]
    IN  /\ own # Nothing /\ own.status = "suggestion"
        /\ ~Forces(OrganizationRules(u), n)
        /\ sent.fields[n] = Nothing
        => RequestConfigOf(u, sent).fields[n] = own.value

\* A category an organisation or, below it, the user's config forces on or off is
\* so in every request ("beats whatever a request asks for",
\* docs/configuration.md:257), the organisation's off only in the dimensions it
\* forces; the rest is the request's.  Not so for a list that repeats itself.
CategoryPrecedence ==
  \A u \in Users, sent \in Sents, c \in Categories :
    LET company  == OrganizationRules(u)
        disabled == {d \in Categories : RequestConfigOf(u, sent).disabled[d] > 0}
    IN  IF company.categories[c] = TRUE THEN c \notin disabled
        ELSE IF company.categories[c] = FALSE /\ Parent[c] \in company.force_categories
        THEN c \in disabled
        ELSE IF UserRules(u).categories[c] # Nothing
        THEN c \in disabled <=> UserRules(u).categories[c] = FALSE
        ELSE sent.disabled # Nothing => (c \in disabled <=> sent.disabled[c] > 0)

\* "A force entry in a synced user or organisation config beats whatever a
\* request asks for" (docs/configuration.md:257): no text is checked without what
\* is forced for its user.  Not so with REQUIRE_AUTH off, where the texts of a
\* user whose organisation's config is missing are checked with no config at all.
ForcesApply ==
  \A u \in Users, sent \in Sents, n \in Names \ {"llm_alternatives"} :
    /\ deployment.require_auth /\ Checked(u)
    /\ user_configs[u] # Nothing
    /\ Forces(user_configs[u].rules, n)
    /\ ~Forces(OrganizationRules(u), n)
    => RequestConfigOf(u, sent).fields[n] = user_configs[u].rules.fields[n].value

\* A client that is not told its config changed keeps what /v2.0/auth would
\* answer now, "so a client can tell whether its stored copy is stale"
\* (app/config_manager.py:155): users, organisations, keys and settings may have
\* changed since.  Not so when LLM_ACCESS or LLM_ALLOWED_USERS did.
UnchangedMeansCurrent ==
  \A u \in Clients :
    copy[u] # Nothing /\ HasConfigs(u) /\ ~ConfigChanged(u, copy[u])
      => copy[u] = Reported(u)
=============================================================================
