------------------------- MODULE LanguageDetection --------------------------
(***************************************************************************)
(* The locale a text is checked in (app/lang_detection.py): the one asked  *)
(* for, or what the fastText model tells from the text, by the variants    *)
(* and the languages a user prefers.                                       *)
(***************************************************************************)
EXTENDS Subsequences, SequencesExt, TLC

CONSTANTS
  supported_langs,  \* the languages of the deployment's models
  Predictions(_)    \* the model's guesses for a text, best first: [lang, score]

ASSUME LanguageDetectionAssumption == supported_langs \subseteq {"de", "en", "fr"}

NoLocale == "none"

Langs == {"de", "en", "fr"}
Locales == {"de-DE", "de-CH", "de-AT", "en-US", "en-GB", "fr-FR"}

\* code[0:2]; "en-AU" stands for the variants clients name that are no locale here.
LangOf ==
  [code \in Locales \union Langs \union {"en-AU", "uk"} |->
     CASE code \in {"de", "de-DE", "de-CH", "de-AT"} -> "de"
       [] code \in {"en", "en-US", "en-GB", "en-AU"} -> "en"
       [] code \in {"fr", "fr-FR"} -> "fr"
       [] code = "uk" -> "uk"]

\* The first guess counts from 0.3, in hundredths, another from nine tenths of the first.
predict_lang(text) ==
  LET guesses == Predictions(text)
      Counts(guess) ==
        IF guess = guesses[1] THEN guess.score >= 30
        ELSE 10 * guess.score >= 9 * guesses[1].score
      counted == KeptAt(guesses, {i \in DOMAIN guesses : Counts(guesses[i])})
  IN  [i \in DOMAIN counted |-> counted[i].lang]

get_default_locale(lang) ==
  CASE lang = "en" -> "en-US"
    [] lang = "de" -> "de-DE"
    [] lang = "fr" -> "fr-FR"
    [] OTHER -> NoLocale

\* The first of `seq` that passes, `otherwise` if none does.
FirstOf(seq, Passes(_), otherwise) ==
  LET index == SelectInSeq(seq, Passes) IN IF index = 0 THEN otherwise ELSE seq[index]

VariantFor(lang, variants) == FirstOf(variants, LAMBDA v : LangOf[v] = lang, NoLocale)

get_locale_by_variant(langs, variants) ==
  LET lang == FirstOf(langs, LAMBDA l : VariantFor(l, variants) # NoLocale, NoLocale)
  IN  IF lang = NoLocale THEN NoLocale ELSE VariantFor(lang, variants)

get_locale_by_lang(langs, preferred) ==
  get_default_locale(
    FirstOf(langs, LAMBDA l : l \in preferred,
      FirstOf(langs, LAMBDA l : get_default_locale(l) # NoLocale, NoLocale)))

\* Mutant: languages without a model are kept.
Detected_Unfiltered(text) ==
  KeptAt(predict_lang(text),
         {i \in DOMAIN predict_lang(text) : predict_lang(text)[i] \in DOMAIN LangOf})

\* "uk" becomes "en-GB", which no variant begins with and no default locale has.
Detected(text) ==
  LET coded == [i \in DOMAIN predict_lang(text) |->
                  IF predict_lang(text)[i] = "uk" THEN "en-GB" ELSE predict_lang(text)[i]]
  IN  KeptAt(coded, {i \in DOMAIN coded : /\ coded[i] \in DOMAIN LangOf
                                            /\ LangOf[coded[i]] \in supported_langs})

get_locale(text, lang, preferred, variants) ==
  IF lang = "auto" THEN
    LET langs == Detected(text)
        variant == get_locale_by_variant(langs, variants)
    IN  IF langs = <<>> THEN NoLocale
        ELSE IF variant # NoLocale THEN variant
        ELSE get_locale_by_lang(langs, preferred)
  ELSE IF lang \in Locales THEN lang
  ELSE get_default_locale(lang)
=============================================================================
