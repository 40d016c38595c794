---------------------------- MODULE MCTextChecks ----------------------------
(***************************************************************************)
(* A small instance of TextChecks: a few words with a rule each, and the   *)
(* texts, documents, conversations and forms that put them together.       *)
(***************************************************************************)
EXTENDS TextChecks

\* "m", "n": roles in the masculine; "f" a feminine; "g" a form in another format; "c" has its
\* context checked; "u" has no alternative; "i" is to be removed; "o" is the organisation's
\* term; "e" is English; "Z" an Inklusivum noun.
\* "x" a typo, "l" and "w" a case and a space LanguageTool objects to, "d" a difficult word,
\* "s" a style.

SomeCapitals == ("m" :> "M") @@ ("c" :> "C") @@ ("h" :> "H") @@ ("z" :> "Z")

Alternative(lemma, role) == [lemma |-> lemma, remove |-> FALSE, role |-> role]

Removal == [lemma |-> <<>>, remove |-> TRUE, role |-> Nothing]

Inclusively(stem) ==
  <<Alternative(<<stem, "t">>, Nothing), Alternative(<<stem, "*", "f">>, "inclusive_gender")>>

ARule(lang, words, subcategory, category, gravity, alternatives) ==
  [lang |-> lang, words |-> words, subcategory |-> subcategory, category |-> category,
   gravity |-> gravity, alternatives |-> alternatives, explained |-> TRUE, form |-> FALSE]

SomeRules ==
  {ARule("de", <<"m">>, "titles", GenderCategory, 20, Inclusively("m")),
   ARule("de", <<"m", " ", "n">>, "titles", GenderCategory, 20, Inclusively("m")),
   ARule("de", <<"m", " ", "&", " ", "f">>, "gendered_denominations_ending_advanced",
         GenderCategory, 30, Inclusively("m")),
   ARule("de", <<"z">>, "function", GenderCategory, 20, Inclusively("z")),
   ARule("de", <<"c">>, "ableism", "discrimination", 10,
         <<Alternative(<<"b">>, Nothing), Alternative(<<"c">>, Nothing),
           Alternative(<<"b">>, "again"), Alternative(<<"t">>, Nothing)>>),
   ARule("de", <<"u">>, "ageism", "discrimination", 20, <<>>),
   ARule("de", <<"i">>, "ageism", "discrimination", Nothing, <<Removal>>),
   ARule("en", <<"e">>, "ageism", "discrimination", 10, <<Alternative(<<"t">>, Nothing)>>),
   [ARule("de", <<"g">>, "gendered_denominations_ending", GenderCategory, 20,
          <<Alternative(<<"g", ":", "f">>, "inclusive_gender")>>) EXCEPT !.form = TRUE]}

OurTerm ==
  ARule(Nothing, <<"o">>, "corporate_rules", "corporate_rules", Nothing,
        <<Alternative(<<"t">>, Nothing)>>)

Defect(lang, word, id, category, needs, corrections) ==
  [lang |-> lang, word |-> word, id |-> id, category |-> category, needs |-> needs,
   simple |-> FALSE, foreign |-> FALSE, replacements |-> corrections]

SomeDefects ==
  {Defect("de", "x", "GERMAN_SPELLER_RULE", "TYPOS", Nothing, <<<<"y">>, <<>>>>),
   Defect("de", "H", "GERMAN_SPELLER_RULE", "TYPOS", Nothing, <<>>),
   Defect("de", "Z", "GERMAN_SPELLER_RULE", "TYPOS", Nothing, <<>>),
   Defect("de", "l", "DE_CASE", "CASING", Nothing, <<<<"L">>>>),
   Defect("de", " ", "WHITESPACE_RULE", "TYPOGRAPHY", Nothing, <<>>),
   Defect("de", "d", "FREMDWORT", "DIFFICULT_WORDS", "simple", <<<<"t">>>>),
   Defect("de", "a", "ABKUERZUNG", "DIFFICULT_WORDS", "simple", <<>>),
   Defect("en", "s", "PASSIVE_VOICE", "STYLE", "picky", <<>>),
   Defect("en", "r", "PROFANITY_XML", "STYLE", "enabled", <<>>)}

SomeParents ==
  (("orthography" :> "orthography") @@ ("casing" :> "orthography")
    @@ ("plain_language" :> "style") @@ ("plain_language_advanced" :> "style")
    @@ ("anglicism_advanced" :> "style") @@ ("offensive_language" :> "discrimination"))

\* Told by what stands in the text.
Predict(text) ==
  LET has == Range(text)
      Guess(lang, score) == [lang |-> lang, score |-> score]
  IN  IF {"é", "m"} \subseteq has THEN <<Guess("fr", 80), Guess("de", 75), Guess("en", 30)>>
      ELSE IF "é" \in has THEN <<Guess("fr", 90), Guess("de", 20)>>
      ELSE IF {"e", "m"} \subseteq has THEN <<Guess("en", 80), Guess("de", 76)>>
      ELSE IF "k" \in has THEN <<Guess("uk", 70)>>
      ELSE IF "e" \in has THEN <<Guess("en", 90)>>
      ELSE IF has \intersect {"m", "c", "x"} # {} THEN <<Guess("de", 90)>>
      ELSE <<Guess("de", 25)>>

IsWord(piece) == piece \notin {"v"}

-----------------------------------------------------------------------------
\* Configs, thresholds and requests.

Limit(count, ratio) == [count |-> count, ratio |-> ratio]
FirstFinding == "overall" :> Limit(1, Nothing)
TwoOrMany == ("overall" :> Limit(2, Nothing)) @@ ("advanced" :> Limit(Nothing, 50))
              @@ ("openly_discriminating" :> Limit(1, 50)) @@ ("corporate_rules" :> Limit(1, 100))

Default ==
  [disabled |-> {}, alternatives_max_count |-> 2, false_positives |-> {},
   term_replacements |-> {}, inclusive_roles |-> TRUE, german_gender_ending |-> "*",
   french_gender_separator |-> <<"·">>, primary_language |-> "de",
   preferred_languages |-> {"de", "en", "fr"}, guardrail_threshold |-> Nothing]

Picked == [Default EXCEPT !.false_positives = {<<"c">>, <<"x">>}, !.term_replacements = {OurTerm}]
Inklusivum == [Default EXCEPT !.german_gender_ending = "e", !.alternatives_max_count = Nothing]
Spelling == [Default EXCEPT !.disabled = {"plain_language", "plain_language_advanced", "casing"}]
NoLanguageTool ==
  [Default EXCEPT !.disabled = {"orthography", "plain_language", "titles"},
                  !.preferred_languages = {"en"}]
Strict == [Picked EXCEPT !.guardrail_threshold = TwoOrMany]

NoSwitch ==
  [kind |-> "noun", compound |-> FALSE, written |-> <<>>, format |-> "*", tokens |-> <<>>]

Base ==
  [route |-> "check", text |-> <<>>, annotations |-> <<>>, code |-> <<"de">>, texts |-> <<>>,
   messages |-> <<>>, lang |-> "de-DE", variants |-> <<>>, config |-> Default,
   credential |-> "user", require_auth |-> TRUE, languagetool |-> TRUE, checker |-> "none",
   explain |-> TRUE, on_fail |-> "annotate", form |-> NoSwitch]

Of(text) == [Base EXCEPT !.text = text]

CheckTexts ==
  {<<"m", " ", "n">>, <<"m", " ", "&", " ", "f">>, <<"c", ".", " ", "c", "m">>,
   <<"f", "c", ".", "c">>, <<"face", "x", "c">>, <<"face", "face", "x">>, <<"tick", "x", "c">>,
   <<"tick", "d">>, <<"C", "o", "u">>, <<"nl", "l">>, <<" ", " ", "x", " ">>, <<"h", " ", "H">>, <<"@", "x">>,
   <<"x", "*", "f">>, <<"z", "Z", "d", "a">>, <<"m", "g", ".">>, <<>>}

SomeChecks ==
  {[Of(text) EXCEPT !.config = c, !.checker = checker] :
     text \in CheckTexts, c \in {Default, Picked}, checker \in {"none", "local", "remote"}}
  \union {[Of(text) EXCEPT !.config = c] :
            text \in CheckTexts, c \in {Inklusivum, Spelling, NoLanguageTool}}
  \union {[Of(text) EXCEPT !.lang = "auto", !.variants = v, !.config = c] :
            text \in {<<"é">>, <<"é", "m">>, <<"e", "m">>, <<"k">>, <<"e", "s", "r">>, <<"m">>},
            v \in {<<>>, <<"en-AU">>, <<"fr-FR", "en-GB">>}, c \in {Default, NoLanguageTool}}
  \union {[Of(<<"m">>) EXCEPT !.credential = c, !.require_auth = a, !.languagetool = FALSE] :
            c \in {"user", "none", "unconfigured"}, a \in BOOLEAN}
  \union {[Of(<<"e">>) EXCEPT !.lang = l] : l \in {"de", "fr-FR", "uk"}}

Text(text) == [markup |-> FALSE, text |-> text, interpret_as |-> <<>>]
Markup(text, shown) == [markup |-> TRUE, text |-> text, interpret_as |-> shown]

Documents ==
  {<<Text(<<"m">>), Markup(<<"<", "b">>, <<" ">>), Text(<<"n", "x">>)>>,
   <<Markup(<<"<">>, <<"nl", "nl">>), Text(<<"m", "x">>), Markup(<<"<", "m">>, <<>>)>>,
   <<Markup(<<"<", "<">>, <<"m">>), Text(<<" ", "n", ".", "c", "face">>), Text(<<"x">>)>>,
   <<Text(<<"m">>), Markup(<<"<">>, <<" ">>), Text(<<"n">>)>>,
   <<Markup(<<"<", "b">>, <<"face">>), Text(<<"m">>)>>}

SomeLt ==
  {[Base EXCEPT !.route = "lt", !.annotations = d, !.code = code] :
     d \in Documents, code \in {<<"de">>, <<"de", "DE", "x">>, <<"auto">>}}
  \union {[Of(text) EXCEPT !.route = "lt", !.code = <<"auto">>, !.variants = v,
                           !.languagetool = FALSE] :
            text \in {<<"é">>, <<"f">>, <<"m">>, <<"k">>}, v \in {<<>>, <<"en-AU">>, <<"en-AU", "de-CH">>}}
  \union {[Of(<<"m">>) EXCEPT !.route = "lt", !.credential = c, !.require_auth = a] :
            c \in {"user", "unconfigured", "wrong", "password", "none"}, a \in BOOLEAN}
  \union {[Of(<<"tick", "d">>) EXCEPT !.route = "lt"]}
  \union {[Of(<<"m">>) EXCEPT !.route = "lt", !.code = code] :
            code \in {<<"es">>, <<"de", "LU">>, <<"fr">>}}

Answers ==
  {<<"c", " ", "m", " ", "n", ".", "c">>, <<"m", "m", "c", "m", "m">>,
   <<"c", "face", ".", " ", "i", "c">>, <<"face", " ", "c", "c", " ", "m">>, <<"u", ".">>,
   <<"i", "u", "o", "m", "nl", "c">>, <<>>, <<" ">>}

SomeAnswers ==
  {[Of(text) EXCEPT !.route = "guardrail", !.config = c, !.checker = checker] :
     text \in Answers, c \in {Default, Strict}, checker \in {"none", "remote"}}
  \union {[Of(text) EXCEPT !.route = "guardrail", !.lang = "auto"] :
            text \in Answers \union {<<"e", " ", "f", " ", "m">>, <<"é", " ", "m", " ", "f">>}}
  \union {[Of(<<"c">>) EXCEPT !.route = "guardrail", !.credential = c, !.require_auth = a] :
            c \in {"unconfigured", "wrong", "none"}, a \in BOOLEAN}

SomeTexts ==
  {<<<<"c", " ", "m">>>>, <<<<"f">>, <<"c", "u">>>>, <<<<"c">>, <<"f">>>>, <<<<"f">>>>,
   <<<<"m", "NOTE", "f">>, <<" ">>>>, <<<<"NOTE", "c">>>>, <<<<"c", "NOTE", "c", "NOTE", "c">>>>,
   <<<<"face", "c", "i">>, <<"c">>>>}

System(kind, content) == [role |-> "system", kind |-> kind, content |-> content]
User == [role |-> "user", kind |-> "text", content |-> <<<<"hello">>>>]

Conversations ==
  {<<>>, <<User>>, <<System("text", <<<<"be kind">>>>), User>>, <<System("none", <<>>), User>>,
   <<System("parts", <<<<"be kind">>>>), User>>}

SomeGateways ==
  {[Base EXCEPT !.route = "litellm", !.texts = texts, !.on_fail = f, !.explain = e] :
     texts \in SomeTexts, f \in {"annotate", "block"}, e \in BOOLEAN}
  \union {[Base EXCEPT !.route = route, !.messages = m, !.lang = l, !.config = c] :
            route \in {"litellm", "input"}, m \in Conversations, l \in {"auto", "fr-FR"},
            c \in {Default, Inklusivum}}
  \union {[Base EXCEPT !.route = route, !.messages = <<User>>, !.credential = "wrong"] :
            route \in {"litellm", "input"}}

Token(text, case) == [text |-> text, case |-> case]

Form(kind, compound, written, format) ==
  [Base EXCEPT !.route = "form",
               !.form = [kind |-> kind, compound |-> compound, written |-> written,
                         format |-> format, tokens |-> <<Token(written, "nominativ")>>]]

\* A noun behind what stands before it.
Noun(before, written, case) ==
  [Form("noun", FALSE, written, "*")
     EXCEPT !.form.tokens = Append(before, Token(written, case))]

Befores ==
  {<<>>, <<Token(<<"des">>, NoCase)>>, <<Token(<<"den">>, NoCase)>>,
   <<Token(<<"der", "*", "des">>, NoCase)>>, <<Token(<<"zur", "/", "zum">>, NoCase)>>,
   <<Token(<<"den">>, NoCase), Token(<<"Lehrer", "*", "innen">>, "nominativ"),
     Token(<<"und">>, NoCase)>>}

SomeForms ==
  {Form("noun", FALSE, <<"Lehrer", "*", "innen">>, "*"),
   Form("noun", FALSE, <<"Lehrer", "(", "in", ")">>, "()"),
   Form("noun", FALSE, <<"Lehrer", "In">>, "In"),
   Form("noun", FALSE, <<"Beamt", "/", "-", "r">>, "/-"),
   Form("noun", TRUE, <<"Mitarbeiter", ":", "innen", "gespräch">>, ":"),
   Form("article", FALSE, <<"die", "*", "der">>, "*"),
   Form("article", FALSE, <<"der", "/", "die">>, "/"),
   Form("article", FALSE, <<"jede", "(", "-", "r", ")">>, "(-)"),
   Form("french", FALSE, <<"étudiant", "·", "e", "·", "s">>, <<"·", "s">>),
   Form("french", FALSE, <<"étudiant", ".", "e">>, <<".">>),
   Form("french", FALSE, <<"un", "/", "e">>, <<"/">>),
   Form("french", FALSE, <<"le", "·", "la">>, <<"·">>),
   Form("french", FALSE, <<"v", ".", "e">>, <<".">>)}
  \union {Noun(before, <<person, "*", ending>>, case) :
            before \in Befores, person \in {"Lehrer", "Kolleg", "Ärzt", "Bäuer", "Gesell",
                                           "Gäst", "Wander", "Podcast"},
            ending \in {"in", "innen"}, case \in {"nominativ", "genitiv", "dativ", NoCase}}

SomeRequests ==
  SomeChecks \union SomeLt \union SomeAnswers \union SomeGateways \union SomeForms

SomeSpelled ==
  ("Lehrer" :> <<"Lehr", "e", "r">>) @@ ("Kolleg" :> <<"Kolleg">>) @@ ("Ärzt" :> <<"Ärzt">>)
    @@ ("Bäuer" :> <<"Bäu", "e", "r">>) @@ ("Gesell" :> <<"Gesell">>) @@ ("Gäst" :> <<"Gäst">>)
    @@ ("Wander" :> <<"Wand", "e", "r">>) @@ ("Beamt" :> <<"Beamt">>)
    @@ ("Mitarbeiter" :> <<"Mitarbeit", "e", "r">>) @@ ("Podcast" :> <<"Podcast">>)

SomeUmlauts == ("Ärzt" :> "Arzt") @@ ("Bäu" :> "Bau") @@ ("Gäst" :> "Gast")

\* A masculine in the lexicon, with the endings of its other forms, and its feminine.
Couple(base, endings, its_stem) ==
  LET feminine == its_stem \o <<"i", "n">>
      feminines == feminine \o <<"n", "e", "n">>
  IN  {[base |-> base, forms |-> {base \o e : e \in endings}, male_form |-> NoForm,
        female_form |-> feminine],
       [base |-> feminine, forms |-> {feminines}, male_form |-> base, female_form |-> NoForm]}

SomeNouns ==
  Couple(<<"Lehr", "e", "r">>, {<<"n">>, <<"s">>}, <<"Lehr", "e", "r">>)
  \union Couple(<<"Kolleg", "e">>, {<<"n">>}, <<"Kolleg">>)
  \union Couple(<<"Bau", "e", "r">>, {<<"n">>}, <<"Bäu", "e", "r">>)
  \union Couple(<<"Gesell", "e">>, {<<"n">>}, <<"Gesell">>)
  \union Couple(<<"Wand", "e", "r", "e", "r">>, {<<"n">>, <<"s">>}, <<"Wand", "e", "r">>)
  \union {[e EXCEPT !.forms = @ \union (IF e.male_form = NoForm THEN {<<"Ärzt", "e">>} ELSE {})] :
            e \in Couple(<<"Arzt">>, {<<"e", "s">>}, <<"Ärzt">>)}
  \union {[e EXCEPT !.forms = @ \union (IF e.male_form = NoForm THEN {<<"Gäst", "e">>} ELSE {})] :
            e \in Couple(<<"Gast">>, {<<"e", "s">>}, <<"Gäst">>)}
  \union {[base |-> <<"Wand">>, forms |-> {<<"Wänd", "e">>}, male_form |-> NoForm,
            female_form |-> NoForm]}

SomeExceptions == <<"Gesell", "e">> :> <<<<"Gesell", "e">>, <<"Gesell", "e", "r", "n", "e">>>>

SomeNeutral == {<<"Gast">>, <<"Gesell", "e">>}

SomePairs ==
  ({"die", "der"} :> <<"de", "nominativ">>) @@ ({"der", "des"} :> <<"ders", "genitiv">>)
    @@ ({"zur", "zum"} :> <<"zurm", NoCase>>)

SomeContextChecked == {<<"c">>}
SomeInclusiveForms == {<<"die", "der">>, <<"jede", "r">>}
SomeArticleWords == {<<"jede", "r">>, <<"un", "e">>}
SomeMasculines == {"le", "un"}
SomeFeminines == {"la"}
GermanLines == [e \in Formats |-> "German line"]
FrenchLines == [s \in FrenchFormats |-> "French line"]
SomeEntities == [w \in {"h"} |-> "name"]
SomeEndings == {<<"*", "f">>, <<":", "f">>}
SomeOwnCategories == [c \in {"CASING"} |-> "casing"]
=============================================================================
