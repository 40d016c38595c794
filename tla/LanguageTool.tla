---------------------------- MODULE LanguageTool ----------------------------
(***************************************************************************)
(* What LanguageTool is asked about a text, and what becomes of its        *)
(* matches (app/languagetool.py).  The server is external: it finds its    *)
(* Defects wherever they stand and positions them in UTF-16 units.         *)
(***************************************************************************)
EXTENDS Findings

CONSTANTS
  Defects,         \* [lang, word, id, category, needs, simple, foreign, replacements]
  OwnCategories,   \* LanguageTool's categories that Witty has as well -> Witty's key
  ParentOf,        \* Witty's subcategories -> their category
  Entities,        \* words that name something -> "name" or another label
  Salutations,
  FrenchFeminineNouns,
  WrittenEndings,  \* what follows a noun in a gender format, as <<"*", "in">>
  MasculineArticles,
  CaseWindow       \* 10: how far back a line's beginning is looked for

ASSUME LanguageToolAssumption ==
  /\ IsFiniteSet(Defects)
  /\ \A defect \in Defects :
       /\ IsList(defect.replacements)
       /\ \A i \in DOMAIN defect.replacements : IsList(defect.replacements[i])

\* config: [disabled, primary_language, german_gender_ending, french_gender_separator,
\* inclusive_roles, alternatives_max_count, ...]

StyleCategories ==
  {"FALSE_FRIENDS", "REGIONALISMS", "COLLOQUIALISMS", "CONFUSED_WORDS", "REDUNDANCY", "STYLE"}

\* Those STYLE rules that Witty has a subcategory of its own for.
PlainRules ==
  {"PASSIVE_VOICE_SIMPLE", "PASSIVE_VOICE", "TOO_LONG_SENTENCE", "TOO_LONG_SENTENCE_DE",
   "TOO_LONG_PARAGRAPH", "INDIAN_ENGLISH", "THREE_NN", "FOUR_NN", "GOTTA", "GONNA_TEMP",
   "TRYNA", "DONTCHA", "DUNNO", "WANNA", "GOTCHA", "GIMME", "DIS", "DAT", "LUV", "BOUT_TO",
   "LEMME", "Y_ALL", "WHATCHA"}
RudeRules == {"PROFANITY_XML", "RUDE_SARCASTIC"}

DisabledRules ==
  {"UPPERCASE_SENTENCE_START", "EINHEIT_LEERZEICHEN", "EN_UNPAIRED_BRACKETS",
   "UNPAIRED_BRACKETS", "TWITTER_X", "TOO_LONG_SENTENCE_DE", "TOO_LONG_SENTENCE", "LANGES_WORT"}

SubEnabled(subcategory, disabled) == {subcategory, ParentOf[subcategory]} \intersect disabled = {}

-----------------------------------------------------------------------------
\* The request, Nothing where there is nothing to ask.

\* plain_language is asked of the config itself, which disables nothing: English is picky.
Payload(locale, lang, config) ==
  LET advanced == SubEnabled("plain_language_advanced", config.disabled)
      spelling == SubEnabled("orthography", config.disabled)
      plain == "plain_language" \in config.disabled
  IN  IF ~spelling /\ ~SubEnabled("plain_language", config.disabled) THEN Nothing
      ELSE [language |-> locale,
            simple |-> advanced /\ locale = "de-DE",
            picky |-> lang = "en" /\ SubEnabled("plain_language", {}),
            mother_tongue |-> config.primary_language,
            enabled |-> (IF advanced /\ lang = "en" THEN {"PLAIN_ENGLISH"} ELSE {})
                          \union (IF spelling THEN {} ELSE StyleCategories),
            disabled |-> {"GENDER_NEUTRALITY"}
                          \union (IF advanced THEN {} ELSE {"PLAIN_ENGLISH"})
                          \union (IF spelling /\ "casing" \in config.disabled
                                  THEN {"CASING"} ELSE {})
                          \union (IF spelling /\ plain THEN StyleCategories ELSE {})]

\* The server: a defect may need the picky level, simple language or its category enabled.
Applies(defect, payload) ==
  /\ defect.category \notin payload.disabled
  /\ defect.id \notin DisabledRules
  /\ \/ defect.needs = Nothing
     \/ defect.needs = "picky" /\ payload.picky
     \/ defect.needs = "simple" /\ payload.simple
     \/ defect.needs = "enabled" /\ defect.category \in payload.enabled

ServerMatches(text, lang, payload) ==
  LET Found(i) == SetToSeq({d \in Defects : /\ d.lang = lang /\ d.word = text[i]
                                            /\ Applies(d, payload)})
      Match(i, defect) ==
        [offset |-> UnitsBefore(text, i - 1), defect |-> defect,
         length |-> UnitsBefore(text, i) - UnitsBefore(text, i - 1)]
  IN  FlattenSeq([i \in DOMAIN text |-> [k \in DOMAIN Found(i) |-> Match(i, Found(i)[k])]])

-----------------------------------------------------------------------------
\* Matches that are not reported.  Spans are in characters by now.

\* text[start - CaseWindow : start]: a negative index counts from the text's end.
LineBefore(text, start) ==
  LET from == start - CaseWindow
  IN  IF from >= 0 THEN Slice(text, from, start)
      ELSE Slice(text, IF Len(text) + from > 0 THEN Len(text) + from ELSE 0, start)

StartsLine(text, start) ==
  LET words == {i \in DOMAIN LineBefore(text, start) : LineBefore(text, start)[i] # Blank}
  IN  words # {} /\ LineBefore(text, start)[Max(words)] \in Newlines

\* The first entity at an edge of the match decides.
IsName(text, start, end) ==
  LET edges == {i \in {start + 1, end} : i \in DOMAIN text /\ text[i] \in DOMAIN Entities}
  IN  edges # {} /\ Entities[text[Min(edges)]] = "name"

\* The first line of the text, with a salutation in it.
AfterSalutation(text, start) ==
  LET before == Slice(text, 0, start)
      words == {i \in DOMAIN before : before[i] \notin Spaces}
      from == IF words = {} THEN start + 1 ELSE Min(words)
  IN  /\ \A i \in DOMAIN before : i >= from => before[i] \notin Newlines
      /\ \E i \in DOMAIN before : /\ i >= from /\ before[i] \in Salutations
                                  /\ Slice(before, i, i + 1) = <<Blank>>

\* is_inklusivum_form: its nouns, articles, possessives and adjectives.
is_inklusivum_form(found) == Range(found) \subseteq InklusivumNouns

has_gender_denom_ending(text, start, found) ==
  LET end == start + Len(found)
  IN  \E ending \in WrittenEndings : Slice(text, end, end + Len(ending)) = ending

StartsWith(found, characters) == found # <<>> /\ found[1] \in characters

IgnoredTypo(text, start, end, lang, config) ==
  LET found == Slice(text, start, end) IN
  \/ found # <<>> /\ IsCapital(found[1]) /\ IsName(text, start, end)
  \/ AfterSalutation(text, start)
  \/ lang = "de" /\ config.german_gender_ending = "e" /\ is_inklusivum_form(found)

IgnoredFrench(defect, text, start, end, config) ==
  LET separator == config.french_gender_separator[1]
  IN  \/ Slice(text, start, end) \in FrenchFeminineNouns
      \/ start > 5 /\ <<separator>> \in {Slice(text, start - 1, start), Slice(text, start, start + 1)}
      \/ separator = "/" /\ Slice(text, end, end + 1) = <<"/">> /\ defect.id = "D_N"

Ignored(defect, text, start, end, lang, config) ==
  LET found == Slice(text, start, end) IN
  \/ defect.id = "DE_CASE" /\ StartsLine(text, start)
  \/ /\ defect.id = "WHITESPACE_RULE"
     /\ start = 0 \/ (end > 0 /\ Range(Slice(text, 0, end)) \subseteq Spaces)
  \/ defect.category = "TYPOS" /\ IgnoredTypo(text, start, end, lang, config)
  \/ lang = "fr" /\ IgnoredFrench(defect, text, start, end, config)
  \/ /\ lang = "de" /\ config.german_gender_ending = ":"
     /\ defect.id = "LEERZEICHEN_HINTER_DOPPELPUNKT"
     /\ Slice(text, start + 1, end) \in MasculineArticles
  \/ StartsWith(found, {"@", "#"})
  \/ start > 0 /\ StartsWith(Slice(text, start - 1, start), {"@", "#"})
  \/ lang = "de" /\ config.inclusive_roles /\ has_gender_denom_ending(text, start, found)

StyleSubcategory(defect) ==
  IF defect.category = "COLLOQUIALISMS" \/ (defect.category = "STYLE" /\ defect.id \in PlainRules)
  THEN "plain_language"
  ELSE IF defect.category = "STYLE" /\ defect.id \in RudeRules THEN "offensive_language"
  ELSE "orthography"

\* The subcategory of a match, Nothing where it is not reported.
Subcategory(defect) ==
  IF defect.id \in {"SONDERZEICHEN", "ROEMISCHE_ZAHL"} THEN Nothing
  ELSE IF defect.category \in StyleCategories THEN StyleSubcategory(defect)
  ELSE IF defect.category = "DIFFICULT_WORDS" THEN
    IF defect.id = "ABKUERZUNG" THEN Nothing
    ELSE IF defect.id = "ANGLIZISMEN" \/ defect.foreign THEN "anglicism_advanced"
    ELSE "plain_language_advanced"
  ELSE IF defect.category = "PLAIN_ENGLISH" \/ defect.simple THEN "plain_language_advanced"
  ELSE IF defect.category \in DOMAIN OwnCategories THEN OwnCategories[defect.category]
  ELSE "orthography"

-----------------------------------------------------------------------------
\* languagetool_matches.

\* Not a span of the text where an offset is not in the table, behind an emoji of the BMP.
CharacterSpan(text, match) ==
  LET offsets == utf16_offsets(text)
  IN  <<from_utf16(offsets, match.offset), from_utf16(offsets, match.offset + match.length)>>

\* fetch_alternatives: an empty replacement is written "-".
fetch_alternatives(defect) ==
  [i \in DOMAIN defect.replacements |->
     [lemma |-> IF defect.replacements[i] = <<>> THEN <<"-">> ELSE defect.replacements[i],
      remove |-> FALSE, role |-> Nothing]]

IsReported(match, text, lang, config) ==
  LET span == CharacterSpan(text, match) IN
  /\ ~Ignored(match.defect, text, span[1], span[2], lang, config)
  /\ Subcategory(match.defect) # Nothing
  /\ SubEnabled(Subcategory(match.defect), config.disabled)

\* What the server says to a text, as far as it is reported.
ReportedMatches(text, locale, lang, config) ==
  LET matches == ServerMatches(text, lang, Payload(locale, lang, config))
  IN  KeptAt(matches, {i \in DOMAIN matches : IsReported(matches[i], text, lang, config)})

\* A match as what a result is made of.
AsRule(match, text) ==
  LET span == CharacterSpan(text, match)
  IN  [words |-> Slice(text, span[1], span[2]), subcategory |-> Subcategory(match.defect),
       category |-> ParentOf[Subcategory(match.defect)], gravity |-> 10, explained |-> TRUE,
       alternatives |-> fetch_alternatives(match.defect)]

MatchHasResult(match, text) ==
  HasResult(AsRule(match, text), text,
            CharacterSpan(text, match)[1], CharacterSpan(text, match)[2])

MatchResult(match, text, lang, config) ==
  Result(AsRule(match, text), text,
         CharacterSpan(text, match)[1], CharacterSpan(text, match)[2], lang, config)

\* languagetool_matches raises no error.
AllHaveResults(matches, text) == \A i \in DOMAIN matches : MatchHasResult(matches[i], text)

languagetool_matches(matches, text, lang, config) ==
  [i \in DOMAIN matches |-> MatchResult(matches[i], text, lang, config)]
=============================================================================
