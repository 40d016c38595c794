------------------------ MODULE RequestConfig_proofs ------------------------
(* Theorems about RequestConfig, for any configs, deployments and requests. *)
EXTENDS RequestConfig, TLAPS

USE RequestConfigAssumption

-----------------------------------------------------------------------------
(***************************************************************************)
(* The reference: what the first of ten voices says.                       *)
(***************************************************************************)

\* The first voice that says anything is the one listened to.
LEMMA FirstSaidIs ==
  ASSUME NEW said, NEW i \in DOMAIN said, DOMAIN said = 1 .. 10,
         said[i] # Nothing, \A j \in 1 .. i - 1 : said[j] = Nothing
  PROVE  FirstSaid(said) = said[i]
<1> DEFINE First(k) == said[k] # Nothing /\ \A j \in 1 .. k - 1 : said[j] = Nothing
<1>1. \A k \in DOMAIN said : First(k) => k = i
  OBVIOUS
<1>2. First(i)
  OBVIOUS
<1>3. (CHOOSE k \in DOMAIN said : First(k)) = i
  <2> HIDE DEF First
  <2> QED
    BY <1>1, <1>2
<1>4. QED
  BY <1>3 DEF FirstSaid

\* With a last resort that always says something, one of the ten is listened to.
LEMMA TenVoices ==
  ASSUME NEW a, NEW b, NEW c, NEW d, NEW e, NEW f, NEW g, NEW h, NEW i, NEW j, j # Nothing
  PROVE  FirstSaid(<<a, b, c, d, e, f, g, h, i, j>>) =
           IF a # Nothing THEN a ELSE IF b # Nothing THEN b ELSE IF c # Nothing THEN c
           ELSE IF d # Nothing THEN d ELSE IF e # Nothing THEN e ELSE IF f # Nothing THEN f
           ELSE IF g # Nothing THEN g ELSE IF h # Nothing THEN h ELSE IF i # Nothing THEN i
           ELSE j
<1> DEFINE said == <<a, b, c, d, e, f, g, h, i, j>>
<1>1. /\ DOMAIN said = 1 .. 10
      /\ said[1] = a /\ said[2] = b /\ said[3] = c /\ said[4] = d /\ said[5] = e
      /\ said[6] = f /\ said[7] = g /\ said[8] = h /\ said[9] = i /\ said[10] = j
  OBVIOUS
<1>2. \A k \in 1 .. 10 : said[k] # Nothing /\ (\A m \in 1 .. k - 1 : said[m] = Nothing)
                           => FirstSaid(said) = said[k]
  BY <1>1, FirstSaidIs
<1>3. FirstSaid(said) =
        IF said[1] # Nothing THEN said[1] ELSE IF said[2] # Nothing THEN said[2]
        ELSE IF said[3] # Nothing THEN said[3] ELSE IF said[4] # Nothing THEN said[4]
        ELSE IF said[5] # Nothing THEN said[5] ELSE IF said[6] # Nothing THEN said[6]
        ELSE IF said[7] # Nothing THEN said[7] ELSE IF said[8] # Nothing THEN said[8]
        ELSE IF said[9] # Nothing THEN said[9] ELSE said[10]
  <2> said[10] # Nothing
    BY <1>1
  <2> HIDE <1>1 DEF said
  <2> QED
    BY <1>2
<1>4. QED
  BY <1>1, <1>3

-----------------------------------------------------------------------------
(***************************************************************************)
(* What is stored is well formed, and so are the rules a request meets.    *)
(***************************************************************************)

LEMMA DefaultRulesTyped ==
  ASSUME NEW u \in Users, TypeOK
  PROVE  IsRules(DefaultRules(u))
<1>1. \A n \in Flags : deployment.default_user[n] \in BOOLEAN
  BY DEF TypeOK
<1>2. FlagStatus \in {"force", "suggestion"}
  BY DEF FlagStatus
<1>3. ASSUME NEW n \in Names
      PROVE  /\ \/ KeyEntry(u).force.fields[n] = Nothing
                \/ KeyEntry(u).force.fields[n] \in ValuesOf(n)
             /\ \/ KeyEntry(u).config.fields[n] = Nothing
                \/ KeyEntry(u).config.fields[n] \in ValuesOf(n)
  BY DEF KeyEntry, StillValid, Unset, IsPartial, TypeOK
<1> DEFINE rules == DefaultRules(u)
<1>4. ASSUME NEW n \in Names
      PROVE  rules.fields[n] = Nothing \/ /\ rules.fields[n].value \in ValuesOf(n)
                                          /\ rules.fields[n].status \in {"force", "suggestion"}
  BY <1>1, <1>2, <1>3 DEF DefaultRules, ValuesOf
<1>5. /\ DOMAIN rules = {"fields", "categories", "force_categories"}
      /\ DOMAIN rules.fields = Names
      /\ rules.categories \in [Categories -> BOOLEAN \union {Nothing}]
      /\ rules.force_categories \subseteq Parents
  BY DEF DefaultRules
<1>6. QED
  BY <1>4, <1>5 DEF IsRules

LEMMA RulesTyped ==
  ASSUME NEW u \in Users \union {Nothing}, TypeOK
  PROVE  IsRules(UserRules(u)) /\ IsRules(OrganizationRules(u))
<1>1. IsRules(NoRules)
  BY DEF NoRules, IsRules
<1>2. HasConfigs(u) => u \in Users /\ OwnConfigs(u) # Nothing
  BY DEF HasConfigs, OwnConfigs
<1>3. HasConfigs(u) => IsRules(OwnConfigs(u).rules)
  BY <1>2, DefaultRulesTyped DEF OwnConfigs, TypeOK
<1>4. HasConfigs(u) => OwnConfigs(u).organization \in Organizations \union {Nothing}
  BY <1>2 DEF OwnConfigs, TypeOK
<1>5. OrganizationOf(u) # Nothing => IsRules(organization_configs[OrganizationOf(u)])
  BY <1>4 DEF OrganizationOf, HasConfigs, TypeOK
<1>6. QED
  BY <1>1, <1>3, <1>5 DEF UserRules, OrganizationRules

-----------------------------------------------------------------------------
(***************************************************************************)
(* The layers, read from the last to the first.                            *)
(***************************************************************************)

LEMMA DefaultsField ==
  ASSUME NEW config, NEW defaults, NEW sent, NEW n \in Names
  PROVE  ApplyDefaults(config, defaults, sent).fields[n] =
           IF n \notin Settled(sent) /\ defaults.fields[n] # Nothing
           THEN defaults.fields[n] ELSE config.fields[n]
  BY DEF ApplyDefaults

LEMMA LayeredField ==
  ASSUME NEW u \in Users \union {Nothing}, NEW sent \in Sents, NEW n \in Names
  PROVE  Layered(u, sent).fields[n] =
           IF Decides(OrganizationRules(u), n, SettledBy(UserRules(u), Settled(sent)))
           THEN OrganizationRules(u).fields[n].value
           ELSE IF Decides(UserRules(u), n, Settled(sent)) THEN UserRules(u).fields[n].value
           ELSE IF n \notin Settled(sent) /\ KeyDefaults(u).fields[n] # Nothing
           THEN KeyDefaults(u).fields[n]
           ELSE IF n = MaxCount THEN deployment.alternatives_max_count
           ELSE IF n \in Settled(sent) THEN sent.fields[n]
           ELSE IF deployment.default_config.fields[n] # Nothing
           THEN deployment.default_config.fields[n]
           ELSE BuiltInOf(n)
<1> DEFINE filled   == ApplyDefaults(SentConfig(sent), deployment.default_config, sent)
           deployed == WithMaxCount(filled)
           anyone   == IF u = Nothing THEN [deployed EXCEPT !.disabled = [c \in Categories |-> IF c \in Advanced THEN 1 ELSE 0]] ELSE deployed
           defaults == ApplyDefaults(anyone, KeyDefaults(u), sent)
           users    == ApplyConfigs(defaults, UserRules(u), TRUE, Settled(sent))
<1>1. Layered(u, sent) =
        ApplyConfigs(users, OrganizationRules(u), FALSE, SettledBy(UserRules(u), Settled(sent)))
  BY DEF Layered
<1>2. anyone.fields = deployed.fields
  BY DEF ApplyDefaults, WithMaxCount
<1>3. SentConfig(sent).fields[n] = IF n \in Settled(sent) THEN sent.fields[n] ELSE BuiltInOf(n)
  BY DEF SentConfig
<1>4. filled.fields[n] =
        IF n \notin Settled(sent) /\ deployment.default_config.fields[n] # Nothing
        THEN deployment.default_config.fields[n] ELSE SentConfig(sent).fields[n]
  BY DefaultsField
<1>9. deployed.fields[n] = IF n = MaxCount THEN deployment.alternatives_max_count
                           ELSE filled.fields[n]
  BY DEF WithMaxCount, ApplyDefaults
<1> HIDE DEF filled, deployed, anyone
<1>5. defaults.fields[n] = IF n \notin Settled(sent) /\ KeyDefaults(u).fields[n] # Nothing
                           THEN KeyDefaults(u).fields[n] ELSE anyone.fields[n]
  BY DefaultsField
<1> HIDE DEF defaults
<1>6. users.fields[n] = IF Decides(UserRules(u), n, Settled(sent))
                        THEN UserRules(u).fields[n].value ELSE defaults.fields[n]
  BY DEF ApplyConfigs
<1> HIDE DEF users
<1>7. Layered(u, sent).fields[n] =
        IF Decides(OrganizationRules(u), n, SettledBy(UserRules(u), Settled(sent)))
        THEN OrganizationRules(u).fields[n].value ELSE users.fields[n]
  BY <1>1 DEF ApplyConfigs
<1>8. QED
  BY <1>2, <1>3, <1>4, <1>5, <1>6, <1>7, <1>9

\* No key sets the number of alternatives.
LEMMA KeysKeepLimits ==
  ASSUME NEW u \in Users \union {Nothing}, TypeOK, MaxCount \in Names
  PROVE  KeyDefaults(u).fields[MaxCount] = Nothing
<1>1. \A v \in Users : KeyEntry(v).config.fields[MaxCount] = Nothing
  BY DEF KeyEntry, StillValid, Unset, KeepsLimits, TypeOK
<1>2. HasConfigs(u) => u \in Users
  BY DEF HasConfigs, OwnConfigs
<1>3. Unset.fields[MaxCount] = Nothing
  BY DEF Unset
<1>4. QED
  BY <1>1, <1>2, <1>3 DEF KeyDefaults, OwnConfigs, HasConfigs

-----------------------------------------------------------------------------
(***************************************************************************)
(* The two agree, for a field that is stored and sent as its type says.    *)
(***************************************************************************)

\* For one request and one field, in any state that is well typed.
LEMMA FieldPrecedence ==
  ASSUME NEW u \in Users \union {Nothing}, NEW sent \in Sents, NEW n \in Names, TypeOK
  PROVE  RequestConfigOf(u, sent).fields[n] = FirstSaid(Said(u, sent, n))
<1> DEFINE company == OrganizationRules(u)
           own     == UserRules(u)
           silent  == n = "llm_alternatives" => u \in deployment.llm_allowed
           layered == Layered(u, sent).fields[n]
           count   == deployment.alternatives_max_count
           rest    == IF n = MaxCount THEN count
                      ELSE IF n \in Settled(sent) THEN sent.fields[n]
                      ELSE IF KeyDefaults(u).fields[n] # Nothing THEN KeyDefaults(u).fields[n]
                      ELSE IF deployment.default_config.fields[n] # Nothing
                      THEN deployment.default_config.fields[n] ELSE BuiltInOf(n)
<1>1. RequestConfigOf(u, sent).fields[n] = IF silent THEN layered ELSE FALSE
  BY DEF RequestConfigOf, Gate, Layered, ApplyConfigs
<1>2. layered = IF Decides(company, n, SettledBy(own, Settled(sent)))
                THEN company.fields[n].value
                ELSE IF Decides(own, n, Settled(sent)) THEN own.fields[n].value ELSE rest
  <2>1. n = MaxCount => KeyDefaults(u).fields[n] = Nothing
    BY KeysKeepLimits
  <2>2. QED
    BY <2>1, LayeredField
<1>3. /\ company.fields[n] # Nothing => company.fields[n].value \in ValuesOf(n)
      /\ own.fields[n] # Nothing => own.fields[n].value \in ValuesOf(n)
  BY RulesTyped DEF IsRules
<1>4. Nothing \notin ValuesOf(n) /\ BuiltInOf(n) # Nothing /\ count # Nothing
  BY DEF ValuesOf, BuiltInOf, Names, Flags, TypeOK
<1>5. FirstSaid(Said(u, sent, n)) =
        IF ~silent THEN FALSE
        ELSE IF Forces(company, n) THEN company.fields[n].value
        ELSE IF Forces(own, n) THEN own.fields[n].value
        ELSE IF n = MaxCount THEN count
        ELSE IF MaySend(n) /\ sent.fields[n] # Nothing THEN sent.fields[n]
        ELSE IF n \in Flags /\ own.fields[n] # Nothing THEN own.fields[n].value
        ELSE IF n \in Flags /\ company.fields[n] # Nothing THEN company.fields[n].value
        ELSE IF KeyDefaults(u).fields[n] # Nothing THEN KeyDefaults(u).fields[n]
        ELSE IF deployment.default_config.fields[n] # Nothing
        THEN deployment.default_config.fields[n] ELSE BuiltInOf(n)
  <2> DEFINE v1 == IF silent THEN Nothing ELSE FALSE
             v2 == ForcedValue(company, n)
             v3 == ForcedValue(own, n)
             v4 == IF n = MaxCount THEN count ELSE Nothing
             v5 == IF MaySend(n) THEN sent.fields[n] ELSE Nothing
             v6 == FlagValue(own, n)
             v7 == FlagValue(company, n)
             v8 == KeyDefaults(u).fields[n]
             v9 == deployment.default_config.fields[n]
             v10 == BuiltInOf(n)
  <2>1. Said(u, sent, n) = <<v1, v2, v3, v4, v5, v6, v7, v8, v9, v10>>
    BY DEF Said
  <2>2. v10 # Nothing
    BY <1>4
  <2>3. /\ v1 # Nothing <=> ~silent
        /\ v2 # Nothing <=> Forces(company, n)
        /\ v3 # Nothing <=> Forces(own, n)
        /\ v4 # Nothing <=> n = MaxCount
        /\ v6 # Nothing <=> n \in Flags /\ own.fields[n] # Nothing
        /\ v7 # Nothing <=> n \in Flags /\ company.fields[n] # Nothing
    BY <1>3, <1>4 DEF ForcedValue, FlagValue, Forces
  <2>4. /\ ~silent => v1 = FALSE
        /\ Forces(company, n) => v2 = company.fields[n].value
        /\ Forces(own, n) => v3 = own.fields[n].value
        /\ n = MaxCount => v4 = count
        /\ MaySend(n) => v5 = sent.fields[n]
        /\ ~MaySend(n) => v5 = Nothing
        /\ n \in Flags /\ own.fields[n] # Nothing => v6 = own.fields[n].value
        /\ n \in Flags /\ company.fields[n] # Nothing => v7 = company.fields[n].value
    BY DEF ForcedValue, FlagValue
  <2> HIDE DEF v1, v2, v3, v4, v5, v6, v7, v8, v9, v10
  <2>5. FirstSaid(<<v1, v2, v3, v4, v5, v6, v7, v8, v9, v10>>) =
          IF v1 # Nothing THEN v1 ELSE IF v2 # Nothing THEN v2 ELSE IF v3 # Nothing THEN v3
          ELSE IF v4 # Nothing THEN v4 ELSE IF v5 # Nothing THEN v5
          ELSE IF v6 # Nothing THEN v6 ELSE IF v7 # Nothing THEN v7
          ELSE IF v8 # Nothing THEN v8 ELSE IF v9 # Nothing THEN v9 ELSE v10
    BY <2>2, TenVoices
  <2>6. QED
    BY <2>1, <2>3, <2>4, <2>5 DEF v8, v9, v10
<1>6. layered =
        IF Forces(company, n) THEN company.fields[n].value
        ELSE IF Forces(own, n) THEN own.fields[n].value
        ELSE IF n = MaxCount THEN count
        ELSE IF n \in Settled(sent) THEN sent.fields[n]
        ELSE IF n \in Flags /\ own.fields[n] # Nothing THEN own.fields[n].value
        ELSE IF n \in Flags /\ company.fields[n] # Nothing THEN company.fields[n].value
        ELSE rest
  <2> HIDE DEF layered, rest
  <2>1. CASE Forces(company, n)
    BY <1>2, <2>1 DEF Decides
  <2>2. CASE ~Forces(company, n) /\ Forces(own, n)
    BY <1>2, <2>2 DEF Decides, SettledBy, Forces
  <2>3. CASE ~Forces(company, n) /\ ~Forces(own, n) /\ n \notin Flags
    BY <1>2, <2>3 DEF Decides, rest
  <2>4. CASE ~Forces(company, n) /\ ~Forces(own, n) /\ n \in Flags
    BY <1>2, <2>4 DEF Decides, SettledBy, rest, Flags, MaxCount
  <2>5. QED
    BY <2>1, <2>2, <2>3, <2>4
<1>7. n \in Settled(sent) <=> MaySend(n) /\ sent.fields[n] # Nothing
  BY DEF Settled
<1>8. QED
  BY <1>1, <1>5, <1>6, <1>7

-----------------------------------------------------------------------------
\* Type correctness: what is stored, and kept by clients, stays well formed.
THEOREM TypeCorrect == Spec => []TypeOK
<1>1. Init => TypeOK
  BY DEF Init, TypeOK
<1>2. TypeOK /\ [Next]_vars => TypeOK'
  <2> SUFFICES ASSUME TypeOK, [Next]_vars PROVE TypeOK'
    OBVIOUS
  <2>1. CASE UNCHANGED vars
    BY <2>1 DEF vars, TypeOK
  <2>2. ASSUME NEW u \in Users, NEW rules \in Rules, NEW o \in Organizations \union {Nothing},
               PostUserConfigs(u, rules, o)
        PROVE  TypeOK'
    BY <2>2 DEF PostUserConfigs, TypeOK
  <2>3. ASSUME NEW u \in Users, DeleteUserConfigs(u) PROVE TypeOK'
    BY <2>3 DEF DeleteUserConfigs, TypeOK
  <2>4. ASSUME NEW u \in Users, NEW entry \in KeyConfigs \union {Nothing}, SyncKeyConfig(u, entry)
        PROVE  TypeOK'
    BY <2>4 DEF SyncKeyConfig, TypeOK
  <2>5. ASSUME NEW u \in Clients, Auth(u) PROVE TypeOK'
    <3>1. IsRules(UserRules(u))
      BY RulesTyped
    <3>2. IsRules(ReportedRules(u))
      BY <3>1 DEF ReportedRules, IsRules, Names, Flags, ValuesOf
    <3>3. copy'[u] # Nothing => IsRules(copy'[u].config)
      BY <2>5, <3>2 DEF Auth, Reported, TypeOK
    <3>4. \A v \in Clients : copy'[v] # Nothing => IsRules(copy'[v].config)
      BY <2>5, <3>3 DEF Auth, TypeOK
    <3>5. QED
      BY <2>5, <3>4 DEF Auth, TypeOK
  <2>6. ASSUME NEW o \in Organizations, NEW rules \in Rules, PostOrganizationConfigs(o, rules)
        PROVE  TypeOK'
    BY <2>6 DEF PostOrganizationConfigs, TypeOK
  <2>7. ASSUME NEW o \in Organizations, DeleteOrganizationConfigs(o) PROVE TypeOK'
    BY <2>7 DEF DeleteOrganizationConfigs, TypeOK
  <2>8. ASSUME NEW settings \in Deployments, Redeploy(settings) PROVE TypeOK'
    BY <2>8 DEF Redeploy, TypeOK
  <2>9. QED
    BY <2>1, <2>2, <2>3, <2>4, <2>5, <2>6, <2>7, <2>8 DEF Next
<1>3. QED
  BY <1>1, <1>2, PTL DEF Spec

\* In every state, each field of every request's config is what the first of
\* those who have a say about it says.
THEOREM PrecedenceHolds == Spec => []Precedence
<1>1. TypeOK => Precedence
  BY FieldPrecedence DEF Precedence
<1>2. QED
  BY <1>1, TypeCorrect, PTL

\* While the deployment requires a user, what is forced for a user is what their
\* texts are checked with.
THEOREM ForcesHold == Spec => []ForcesApply
<1>1. TypeOK => ForcesApply
  <2> SUFFICES ASSUME TypeOK, NEW u \in Users, NEW sent \in Sents,
                      NEW n \in Names \ {"llm_alternatives"},
                      deployment.require_auth, Checked(u),
                      user_configs[u] # Nothing, Forces(user_configs[u].rules, n),
                      ~Forces(OrganizationRules(u), n)
               PROVE  RequestConfigOf(u, sent).fields[n] = user_configs[u].rules.fields[n].value
    BY DEF ForcesApply
  <2>1. HasConfigs(u)
    BY DEF Checked
  <2>2. UserRules(u) = user_configs[u].rules
    BY <2>1 DEF UserRules, OwnConfigs
  <2>3. Layered(u, sent).fields[n] = UserRules(u).fields[n].value
    <3>1. ~Decides(OrganizationRules(u), n, SettledBy(UserRules(u), Settled(sent)))
      BY <2>2 DEF Decides, SettledBy
    <3>2. Decides(UserRules(u), n, Settled(sent))
      BY <2>2 DEF Decides
    <3>3. QED
      BY <3>1, <3>2, LayeredField
  <2>4. RequestConfigOf(u, sent).fields[n] = Layered(u, sent).fields[n]
    BY DEF RequestConfigOf, Gate, Layered, ApplyConfigs
  <2>5. QED
    BY <2>2, <2>3, <2>4
<1>2. QED
  BY <1>1, TypeCorrect, PTL

-----------------------------------------------------------------------------
(***************************************************************************)
(* Categories.  A list that names a category twice keeps it when it is     *)
(* removed once, so precedence is proved for lists that name each once.    *)
(***************************************************************************)

NamesOnce(list) == list # Nothing => \A c \in Categories : list[c] <= 1

ListsNameOnce ==
  /\ \A sent \in Sents : NamesOnce(sent.disabled)
  /\ \A key \in KeyConfigs : NamesOnce(key.config.disabled)
  /\ \A d \in Deployments : NamesOnce(d.default_config.disabled)

\* The list that the rules are applied to.
DefaultList(u, sent) ==
  IF sent.disabled # Nothing THEN sent.disabled
  ELSE IF KeyDefaults(u).disabled # Nothing THEN KeyDefaults(u).disabled
  ELSE IF deployment.default_config.disabled # Nothing THEN deployment.default_config.disabled
  ELSE [c \in Categories |-> 0]

\* It names each category once at most.
LEMMA DefaultListNamesOnce ==
  ASSUME ListsNameOnce, TypeOK, NEW u \in Users, NEW sent \in Sents, NEW c \in Categories
  PROVE  DefaultList(u, sent)[c] \in {0, 1}
<1>1. sent.disabled # Nothing => sent.disabled[c] \in {0, 1}
  BY DEF ListsNameOnce, NamesOnce, IsPartial
<1>2. ASSUME KeyDefaults(u).disabled # Nothing
      PROVE  KeyDefaults(u).disabled[c] \in {0, 1}
  <2>1. /\ HasConfigs(u)
        /\ KeyDefaults(u) = OwnConfigs(u).key_defaults
    BY <1>2 DEF KeyDefaults, Unset
  <2>2. KeyDefaults(u) = KeyEntry(u).config
    BY <1>2, <2>1 DEF OwnConfigs, Unset, HasConfigs
  <2>3. /\ key_configs[u] # Nothing
        /\ KeyDefaults(u).disabled = key_configs[u].config.disabled
    BY <1>2, <2>2 DEF KeyEntry, StillValid, Unset
  <2>4. key_configs[u] \in KeyConfigs
    BY <2>3 DEF TypeOK
  <2>5. \A list \in [Categories -> Nat] : list[c] <= 1 => list[c] \in {0, 1}
    OBVIOUS
  <2>6. /\ KeyDefaults(u).disabled \in [Categories -> Nat]
        /\ KeyDefaults(u).disabled[c] <= 1
    BY <1>2, <2>3, <2>4 DEF ListsNameOnce, NamesOnce, IsPartial
  <2>. QED
    BY <2>5, <2>6
<1>3. deployment.default_config.disabled # Nothing
        => deployment.default_config.disabled[c] \in {0, 1}
  <2>1. deployment \in Deployments
    BY DEF TypeOK
  <2>2. \A list \in [Categories -> Nat] : list[c] <= 1 => list[c] \in {0, 1}
    OBVIOUS
  <2>3. deployment.default_config.disabled # Nothing =>
          /\ deployment.default_config.disabled \in [Categories -> Nat]
          /\ deployment.default_config.disabled[c] <= 1
    BY <2>1 DEF ListsNameOnce, NamesOnce, IsPartial
  <2>. QED
    BY <2>2, <2>3
<1>. QED
  BY <1>1, <1>2, <1>3 DEF DefaultList

\* The user's rules are applied to that list, then the organisation's.
LEMMA LayeredCategory ==
  ASSUME NEW u \in Users, NEW sent \in Sents, NEW c \in Categories
  PROVE  RequestConfigOf(u, sent).disabled[c] =
           Listed(c, Listed(c, DefaultList(u, sent)[c], UserRules(u), TRUE),
                  OrganizationRules(u), FALSE)
<1> DEFINE deployed == WithMaxCount(ApplyDefaults(SentConfig(sent), deployment.default_config, sent))
           defaults == ApplyDefaults(deployed, KeyDefaults(u), sent)
           users    == ApplyConfigs(defaults, UserRules(u), TRUE, Settled(sent))
           settled  == SettledBy(UserRules(u), Settled(sent))
<1>1. Layered(u, sent) = ApplyConfigs(users, OrganizationRules(u), FALSE, settled)
  BY DEF Layered
<1>2. defaults.disabled = DefaultList(u, sent)
  BY DEF ApplyDefaults, WithMaxCount, SentConfig, DefaultList
<1>3. RequestConfigOf(u, sent).disabled = Layered(u, sent).disabled
  BY <1>1 DEF RequestConfigOf, Gate, ApplyConfigs
<1> HIDE DEF defaults
<1>4. users.disabled[c] = Listed(c, defaults.disabled[c], UserRules(u), TRUE)
  BY DEF ApplyConfigs
<1> HIDE DEF users
<1>5. ApplyConfigs(users, OrganizationRules(u), FALSE, settled).disabled[c] =
        Listed(c, users.disabled[c], OrganizationRules(u), FALSE)
  BY DEF ApplyConfigs
<1>. QED
  BY <1>1, <1>2, <1>3, <1>4, <1>5

\* What the user's rules make of an entry of a list that names each category once.
LEMMA UserListed ==
  ASSUME NEW c, NEW times \in {0, 1}, NEW rules
  PROVE  /\ rules.categories[c] = TRUE => Listed(c, times, rules, TRUE) = 0
         /\ rules.categories[c] = FALSE => Listed(c, times, rules, TRUE) = 1
         /\ rules.categories[c] = Nothing => Listed(c, times, rules, TRUE) = times
<1> DEFINE less == IF times > 0 THEN times - 1 ELSE 0
<1>1. less = 0 /\ (times # 0 => times = 1)
  OBVIOUS
<1>2. Listed(c, times, rules, TRUE) =
        IF rules.categories[c] = TRUE THEN less
        ELSE IF rules.categories[c] = FALSE /\ times = 0 THEN 1 ELSE times
  BY Zenon DEF Listed
<1>3. Nothing # TRUE /\ Nothing # FALSE
  OBVIOUS
<1> HIDE DEF less
<1>. QED
  BY <1>1, <1>2, <1>3, Zenon

\* And the organisation's, which force nothing off but in the dimensions they force.
LEMMA OrganizationListed ==
  ASSUME NEW c, NEW times \in {0, 1}, NEW rules
  PROVE  /\ rules.categories[c] = TRUE => Listed(c, times, rules, FALSE) = 0
         /\ rules.categories[c] = FALSE /\ Parent[c] \in rules.force_categories
              => Listed(c, times, rules, FALSE) = 1
         /\ rules.categories[c] = FALSE /\ Parent[c] \notin rules.force_categories
              => Listed(c, times, rules, FALSE) = times
         /\ rules.categories[c] = Nothing => Listed(c, times, rules, FALSE) = times
<1> DEFINE less == IF times > 0 THEN times - 1 ELSE 0
<1>1. less = 0 /\ (times # 0 => times = 1)
  OBVIOUS
<1>2. Listed(c, times, rules, FALSE) =
        IF rules.categories[c] = TRUE THEN less
        ELSE IF rules.categories[c] = FALSE /\ Parent[c] \in rules.force_categories /\ times = 0
        THEN 1 ELSE times
  BY Zenon DEF Listed
<1>3. Nothing # TRUE /\ Nothing # FALSE
  OBVIOUS
<1> HIDE DEF less
<1>. QED
  BY <1>1, <1>2, <1>3, Zenon

\* In every state, where the lists name each category once, a category is disabled for a
\* request as the organisation's rules, then the user's, then the request have it.
THEOREM CategoriesHold ==
  ASSUME ListsNameOnce
  PROVE  Spec => []CategoryPrecedence
<1>1. TypeOK => CategoryPrecedence
  <2> SUFFICES ASSUME TypeOK, NEW u \in Users, NEW sent \in Sents, NEW c \in Categories
      PROVE LET company  == OrganizationRules(u)
                disabled == {d \in Categories : RequestConfigOf(u, sent).disabled[d] > 0}
            IN  IF company.categories[c] = TRUE THEN c \notin disabled
                ELSE IF company.categories[c] = FALSE /\ Parent[c] \in company.force_categories
                THEN c \in disabled
                ELSE IF UserRules(u).categories[c] # Nothing
                THEN c \in disabled <=> UserRules(u).categories[c] = FALSE
                ELSE sent.disabled # Nothing => (c \in disabled <=> sent.disabled[c] > 0)
    BY DEF CategoryPrecedence
  <2> DEFINE company == OrganizationRules(u)
             own     == UserRules(u)
             times   == DefaultList(u, sent)[c]
             after   == Listed(c, times, own, TRUE)
  <2>1. /\ company.categories[c] \in BOOLEAN \union {Nothing}
        /\ own.categories[c] \in BOOLEAN \union {Nothing}
    BY RulesTyped DEF IsRules
  <2>2. times \in {0, 1}
    BY DefaultListNamesOnce
  <2>3. sent.disabled # Nothing => times = sent.disabled[c]
    BY DEF DefaultList
  <2>4. RequestConfigOf(u, sent).disabled[c] = Listed(c, after, company, FALSE)
    BY LayeredCategory
  <2> HIDE DEF times, company, own
  <2>8. Nothing # TRUE /\ Nothing # FALSE
    OBVIOUS
  <2>6. /\ own.categories[c] = TRUE => after = 0
        /\ own.categories[c] = FALSE => after = 1
        /\ own.categories[c] = Nothing => after = times
    BY <2>2, UserListed, Zenon
  <2>7. after \in {0, 1}
    BY <2>1, <2>2, <2>6
  <2> HIDE DEF after
  <2>9. /\ company.categories[c] = TRUE => Listed(c, after, company, FALSE) = 0
        /\ company.categories[c] = FALSE /\ Parent[c] \in company.force_categories
             => Listed(c, after, company, FALSE) = 1
        /\ company.categories[c] = FALSE /\ Parent[c] \notin company.force_categories
             => Listed(c, after, company, FALSE) = after
        /\ company.categories[c] = Nothing => Listed(c, after, company, FALSE) = after
    <3>1. company.categories[c] = TRUE => Listed(c, after, company, FALSE) = 0
      BY <2>7, OrganizationListed, Zenon
    <3>2. company.categories[c] = FALSE /\ Parent[c] \in company.force_categories
            => Listed(c, after, company, FALSE) = 1
      BY <2>7, OrganizationListed, Zenon
    <3>3. company.categories[c] = FALSE /\ Parent[c] \notin company.force_categories
            => Listed(c, after, company, FALSE) = after
      BY <2>7, OrganizationListed, Zenon
    <3>4. company.categories[c] = Nothing => Listed(c, after, company, FALSE) = after
      BY <2>8, Zenon DEF Listed
    <3>. QED
      BY <3>1, <3>2, <3>3, <3>4
  <2> DEFINE listed == RequestConfigOf(u, sent).disabled[c]
  <2>10. /\ company.categories[c] = TRUE => listed = 0
         /\ company.categories[c] = FALSE /\ Parent[c] \in company.force_categories => listed = 1
         /\ ~(company.categories[c] = TRUE)
              /\ ~(company.categories[c] = FALSE /\ Parent[c] \in company.force_categories)
              => listed = after
    BY <2>1, <2>4, <2>9, Zenon
  <2>11. own.categories[c] # Nothing => (after = 1 <=> own.categories[c] = FALSE) /\ after \in {0, 1}
    <3>1. 0 # 1
      OBVIOUS
    <3>. QED
      BY <2>1, <2>6, <2>7, <2>8, <3>1, Zenon
  <2>12. own.categories[c] = Nothing /\ sent.disabled # Nothing =>
           after = sent.disabled[c] /\ after \in {0, 1}
    BY <2>3, <2>6, <2>7, Zenon
  <2>13. 1 > 0 /\ ~(0 > 0) /\ 0 # 1
    OBVIOUS
  <2>14. c \in {d \in Categories : RequestConfigOf(u, sent).disabled[d] > 0} <=> listed > 0
    OBVIOUS
  <2> HIDE DEF listed
  <2>. QED
    BY <2>10, <2>11, <2>12, <2>13, <2>14, Zenon DEF company, own
<1>. QED
  BY <1>1, TypeCorrect, PTL

-----------------------------------------------------------------------------
(***************************************************************************)
(* A client's copy.                                                        *)
(***************************************************************************)

\* What /v2.0/auth answers for the rules a hash was made of.
Told(hash, allowed) ==
  IF allowed THEN hash
  ELSE [hash EXCEPT !.fields["llm_alternatives"] = [value |-> FALSE, status |-> "force"]]

\* What a client keeps is what it was told for its hashes, by some deployment.
CopyIsHashed ==
  \A u \in Clients : copy[u] # Nothing =>
    /\ \E d \in Deployments : copy[u].config = Told(copy[u].config_hash, u \in d.llm_allowed)
    /\ copy[u].organization_config = IF copy[u].organization_config_hash = Nothing THEN NoRules
                                     ELSE copy[u].organization_config_hash
    /\ copy[u] = [config_hash |-> copy[u].config_hash,
                  organization_config_hash |-> copy[u].organization_config_hash,
                  config |-> copy[u].config, organization_config |-> copy[u].organization_config]

\* What is answered is so.
LEMMA ReportedIsHashed ==
  ASSUME NEW u \in Users, TypeOK
  PROVE  /\ Reported(u).config = Told(Reported(u).config_hash, u \in deployment.llm_allowed)
         /\ Reported(u).organization_config =
              IF Reported(u).organization_config_hash = Nothing THEN NoRules
              ELSE Reported(u).organization_config_hash
<1>1. OrganizationOf(u) # Nothing => OrganizationRules(u) # Nothing
  <2>1. OrganizationOf(u) # Nothing =>
          HasConfigs(u) /\ OrganizationOf(u) = OwnConfigs(u).organization
    BY DEF OrganizationOf
  <2>. QED
    BY <2>1 DEF OrganizationRules, HasConfigs
<1>. QED
  BY <1>1 DEF Reported, ReportedRules, Told, ConfigHash, OrganizationHash, OrganizationRules

LEMMA CopyStaysHashed == Spec => []CopyIsHashed
<1>1. Init => CopyIsHashed
  BY DEF Init, CopyIsHashed
<1>2. TypeOK /\ CopyIsHashed /\ [Next]_vars => CopyIsHashed'
  <2> SUFFICES ASSUME TypeOK, CopyIsHashed, [Next]_vars PROVE CopyIsHashed'
    OBVIOUS
  <2>1. ASSUME copy' = copy PROVE CopyIsHashed'
    BY <2>1 DEF CopyIsHashed
  <2>2. ASSUME NEW u \in Clients, Auth(u) PROVE CopyIsHashed'
    <3>1. deployment \in Deployments /\ DOMAIN copy = Clients
      BY DEF TypeOK
    <3> SUFFICES ASSUME NEW v \in Clients, copy'[v] # Nothing
        PROVE /\ \E d \in Deployments :
                   copy'[v].config = Told(copy'[v].config_hash, v \in d.llm_allowed)
              /\ copy'[v].organization_config =
                   IF copy'[v].organization_config_hash = Nothing THEN NoRules
                   ELSE copy'[v].organization_config_hash
              /\ copy'[v] = [config_hash |-> copy'[v].config_hash,
                             organization_config_hash |-> copy'[v].organization_config_hash,
                             config |-> copy'[v].config,
                             organization_config |-> copy'[v].organization_config]
      BY DEF CopyIsHashed
    <3>2. CASE v # u
      <4>1. copy'[v] = copy[v]
        BY <2>2, <3>1, <3>2 DEF Auth
      <4>. QED
        BY <4>1 DEF CopyIsHashed
    <3>3. CASE v = u
      <4>1. copy'[v] = Reported(u)
        BY <2>2, <3>1, <3>3 DEF Auth
      <4>2. Reported(u) = [config_hash |-> Reported(u).config_hash,
                           organization_config_hash |-> Reported(u).organization_config_hash,
                           config |-> Reported(u).config,
                           organization_config |-> Reported(u).organization_config]
        BY DEF Reported
      <4>. QED
        BY <3>1, <3>3, <4>1, <4>2, ReportedIsHashed
    <3>. QED
      BY <3>2, <3>3
  <2>. QED
    BY <2>1, <2>2 DEF Next, vars, PostUserConfigs, DeleteUserConfigs, SyncKeyConfig,
       PostOrganizationConfigs, DeleteOrganizationConfigs, Redeploy
<1>. QED
  BY <1>1, <1>2, TypeCorrect, PTL DEF Spec

\* Whether a user may use the LLM is the same in every deployment.
LlmAccessStays ==
  \A d, e \in Deployments, u \in Clients : u \in d.llm_allowed <=> u \in e.llm_allowed

\* Whatever is stored, removed and deployed in the meantime, a client that is not told its
\* config changed has what it would be told now, if the access to the LLM is not changed.
THEOREM CopiesAreCurrent ==
  ASSUME LlmAccessStays
  PROVE  Spec => []UnchangedMeansCurrent
<1>1. TypeOK /\ CopyIsHashed => UnchangedMeansCurrent
  <2> SUFFICES ASSUME TypeOK, CopyIsHashed, NEW u \in Clients, copy[u] # Nothing,
                      ~ConfigChanged(u, copy[u])
               PROVE  copy[u] = Reported(u)
    BY DEF UnchangedMeansCurrent
  <2>1. /\ copy[u].config_hash = Reported(u).config_hash
        /\ copy[u].organization_config_hash = Reported(u).organization_config_hash
    BY DEF ConfigChanged, Reported
  <2>2. PICK d \in Deployments : copy[u].config = Told(copy[u].config_hash, u \in d.llm_allowed)
    BY DEF CopyIsHashed
  <2>3. u \in d.llm_allowed <=> u \in deployment.llm_allowed
    BY DEF TypeOK, LlmAccessStays
  <2>4. copy[u].config = Reported(u).config
    BY <2>1, <2>2, <2>3, ReportedIsHashed DEF Told
  <2>5. copy[u].organization_config = Reported(u).organization_config
    BY <2>1, ReportedIsHashed DEF CopyIsHashed
  <2>6. copy[u] = [config_hash |-> copy[u].config_hash,
                   organization_config_hash |-> copy[u].organization_config_hash,
                   config |-> copy[u].config,
                   organization_config |-> copy[u].organization_config]
    BY DEF CopyIsHashed
  <2>7. Reported(u) = [config_hash |-> Reported(u).config_hash,
                       organization_config_hash |-> Reported(u).organization_config_hash,
                       config |-> Reported(u).config,
                       organization_config |-> Reported(u).organization_config]
    BY DEF Reported
  <2>. QED
    BY <2>1, <2>4, <2>5, <2>6, <2>7
<1>. QED
  BY <1>1, TypeCorrect, CopyStaysHashed, PTL

\* A copy that is stale without the client's being told differs in the LLM flag alone.
CurrentButLlm ==
  \A u \in Clients :
    copy[u] # Nothing /\ ~ConfigChanged(u, copy[u]) =>
      /\ copy[u].organization_config = Reported(u).organization_config
      /\ copy[u].config.categories = Reported(u).config.categories
      /\ \A n \in Names \ {"llm_alternatives"} :
           copy[u].config.fields[n] = Reported(u).config.fields[n]

\* Whatever the deployments allow, the LLM flag is all that a client may have stale.
THEOREM CopiesAreCurrentButLlm == Spec => []CurrentButLlm
<1>1. TypeOK /\ CopyIsHashed => CurrentButLlm
  <2> SUFFICES ASSUME TypeOK, CopyIsHashed, NEW u \in Clients, copy[u] # Nothing,
                      ~ConfigChanged(u, copy[u])
               PROVE  /\ copy[u].organization_config = Reported(u).organization_config
                      /\ copy[u].config.categories = Reported(u).config.categories
                      /\ \A n \in Names \ {"llm_alternatives"} :
                           copy[u].config.fields[n] = Reported(u).config.fields[n]
    BY DEF CurrentButLlm
  <2> DEFINE hash == UserRules(u)
  <2>1. /\ copy[u].config_hash = hash
        /\ copy[u].organization_config_hash = Reported(u).organization_config_hash
    BY DEF ConfigChanged, Reported, ConfigHash
  <2>2. PICK d \in Deployments : copy[u].config = Told(hash, u \in d.llm_allowed)
    BY <2>1 DEF CopyIsHashed
  <2>3. Reported(u).config = Told(hash, u \in deployment.llm_allowed)
    BY ReportedIsHashed DEF Reported, ConfigHash
  <2>4. IsRules(hash)
    BY RulesTyped
  <2> HIDE DEF hash
  <2> DEFINE off == [hash EXCEPT !.fields["llm_alternatives"] = [value |-> FALSE, status |-> "force"]]
  <2>5. /\ off.categories = hash.categories
        /\ \A n \in Names \ {"llm_alternatives"} : off.fields[n] = hash.fields[n]
    BY <2>4 DEF IsRules
  <2>6. copy[u].organization_config = Reported(u).organization_config
    BY <2>1, ReportedIsHashed DEF CopyIsHashed
  <2>7. /\ copy[u].config \in {hash, off}
        /\ Reported(u).config \in {hash, off}
    BY <2>2, <2>3 DEF Told
  <2> HIDE DEF off
  <2>. QED
    BY <2>5, <2>6, <2>7
<1>. QED
  BY <1>1, TypeCorrect, CopyStaysHashed, PTL
=============================================================================
