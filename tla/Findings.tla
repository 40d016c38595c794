----------------------------- MODULE Findings ------------------------------
(***************************************************************************)
(* The findings of one text: what the rules make of it, as results with    *)
(* their alternatives (ResultOut, app/models.py), what is taken out again  *)
(* as a false positive (app/language_processor.py), and which of them are  *)
(* in the switch of the gender format (app/gender_format.py).              *)
(*                                                                         *)
(* The loop that tries the rules on each token is WittyRules; here a rule  *)
(* finds its words wherever they stand.                                    *)
(***************************************************************************)
EXTENDS TextOffsets, SequencesExt, FiniteSetsExt

CONSTANTS
  Rules,           \* [lang, words, subcategory, category, gravity, alternatives, explained, form]
  ContextChecked,  \* the text_ids whose sentence is looked at again: words
  CapitalOf,       \* word -> the same, capitalised
  Blank, Spaces,   \* " ", and all white space
  Newlines,
  SentenceMarks,   \* . ! ?
  Conjunctions,    \* und, oder, ..., &
  FeminineWords,   \* those that end in -in or -innen
  InklusivumNouns, \* those the noun lexicon knows as such
  Nothing

\* An alternative: [lemma, remove, role]; "inclusive_gender" is a form in the format.
\* A rule's form: it finds forms written in another format.

IsAlternative(a) == DOMAIN a = {"lemma", "remove", "role"} /\ IsList(a.lemma)

IsRule(rule) ==
  /\ IsList(rule.words) /\ rule.words # <<>>
  /\ IsList(rule.alternatives)
  /\ \A i \in DOMAIN rule.alternatives : IsAlternative(rule.alternatives[i])

ASSUME FindingsAssumption ==
  /\ IsFiniteSet(Rules) /\ \A rule \in Rules : IsRule(rule)
  /\ Blank \notin Wide \union Signs

GenderCategory == "gender-orientation"

-----------------------------------------------------------------------------
\* Case.

IsCapital(word) == \E w \in DOMAIN CapitalOf : CapitalOf[w] = word

upper_first(text) ==
  IF text # <<>> /\ text[1] \in DOMAIN CapitalOf
  THEN <<CapitalOf[text[1]]>> \o Tail(text) ELSE text

\* A run of white space in `window` ends a line, or the window, behind position k.
EndsLine(window, k) == k = Len(window) \/ window[k + 1] \in Newlines

BlankBetween(window, i, k) == \A j \in i .. k : window[j] \in Spaces

\* Only spaces before, a gap of three, or the end of a sentence, at most five back.
OpensSentence(text, start, lang) ==
  LET window == Slice(text, IF start < 5 THEN 0 ELSE start - 5, start)
      ends == {k \in 0 .. Len(window) : EndsLine(window, k)}
      marks == IF lang = "de" THEN SentenceMarks \union {":"} ELSE SentenceMarks
  IN  \/ \E k \in {Len(window), Len(window) - 1} \intersect ends :
           \A j \in 1 .. k : window[j] = Blank
      \/ \E k \in ends : k >= 3 /\ BlankBetween(window, k - 2, k)
      \/ \E k \in ends, i \in DOMAIN window :
           i <= k /\ window[i] \in marks /\ BlankBetween(window, i + 1, k)

isUpper(found, rule, text, start, lang) ==
  /\ rule.category # "orthography"
  /\ IsCapital(found[1])
  /\ ~IsCapital(rule.words[1]) \/ OpensSentence(text, start, lang)

-----------------------------------------------------------------------------
\* Results.

Cased(alternative, is_upper, category) ==
  IF alternative.remove \/ ~is_upper \/ category = "orthography" THEN alternative
  ELSE [alternative EXCEPT !.lemma = upper_first(@)]

Including(kept, alternative, found, max) ==
  LET same == {i \in DOMAIN kept : kept[i].lemma = alternative.lemma}
  IN  IF (max # Nothing /\ kept # <<>> /\ Len(kept) >= max)
           \/ (~alternative.remove /\ alternative.lemma = found) THEN kept
      ELSE IF same # {} THEN [kept EXCEPT ![CHOOSE i \in same : TRUE] = alternative]
      ELSE Append(kept, alternative)

\* Each once, by its text, in the order given, up to the maximum; never the text found.
clean_alternatives(found, is_upper, alternatives, category, max) ==
  LET cleaned == FoldLeft(LAMBDA kept, given :
                            Including(kept, Cased(given, is_upper, category), found, max),
                          <<>>, alternatives)
  IN  IF max # Nothing /\ Len(cleaned) >= max THEN SubSeq(cleaned, 1, max) ELSE cleaned

\* ResultOut.factory: text[start:end] as a result.
Result(rule, text, start, end, lang, config) ==
  LET found == Slice(text, start, end)
      offsets == utf16_offsets(text)
  IN  [text |-> found, text_id |-> rule.words, category |-> rule.category,
       subcategory |-> rule.subcategory, gravity |-> rule.gravity, explained |-> rule.explained,
       start |-> IF end <= Len(text) THEN to_utf16(offsets, start) ELSE start,
       end |-> IF end <= Len(text) THEN to_utf16(offsets, end) ELSE end,
       alternatives |->
         clean_alternatives(found, isUpper(found, rule, text, start, lang), rule.alternatives,
                            rule.category, config.alternatives_max_count),
       bulk |-> Nothing]

\* What is found has a first character to look at, and its start is in the table where its
\* end is: else an IndexError.
HasResult(rule, text, start, end) ==
  /\ rule.category = "orthography" \/ Slice(text, start, end) # <<>>
  /\ CountUpTo(text, Len(text), CountedTwice) = 0 \/ (end <= Len(text) => start <= Len(text))

\* mark_bulk: only where that alternative is there and has a text.
mark_bulk(result, index) ==
  IF index \in DOMAIN result.alternatives /\ ~result.alternatives[index].remove
  THEN [result EXCEPT !.bulk = index] ELSE result

Matches(rule, text, start) ==
  /\ start + Len(rule.words) <= Len(text)
  /\ \A i \in DOMAIN rule.words :
       \/ text[start + i] = rule.words[i]
       \/ i = 1 /\ rule.words[1] \in DOMAIN CapitalOf /\ text[start + 1] = CapitalOf[rule.words[1]]

\* fetch_term_replacements: the user's own terms, of this language or of any.
TermRules(config, lang) == {term \in config.term_replacements : term.lang \in {lang, Nothing}}

Enabled(rule, config) == {rule.subcategory, rule.category} \intersect config.disabled = {}

\* What witty_rules returns for a text, from its beginning to its end, the shorter first.
witty_rules(text, lang, config) ==
  LET rules == {r \in Rules : r.lang = lang /\ Enabled(r, config)} \union TermRules(config, lang)
      Reported(start, rule) ==
        LET result == Result(rule, text, start, start + Len(rule.words), lang, config)
        IN  IF rule.form THEN mark_bulk(result, 1) ELSE result
      OfLength(start, n) ==
        LET found == SetToSeq({r \in rules : Len(r.words) = n /\ Matches(r, text, start)})
        IN  [i \in DOMAIN found |-> Reported(start, found[i])]
      At(start) == FlattenSeq([n \in DOMAIN text |-> OfLength(start, n)])
  IN  FlattenSeq([i \in DOMAIN text |-> At(i - 1)])

-----------------------------------------------------------------------------
\* Taking findings out again.

\* The sentences as spaCy cuts them: where each ends, and its text, without a space before.
Sentences(text) ==
  LET ends == {i \in 1 .. Len(text) : text[i] \in SentenceMarks} \union ({Len(text)} \ {0})
      ordered == InOrder(ends, Len(text))
      From(i) == LET first == IF i = 1 THEN 0 ELSE ordered[i - 1]
                 IN  IF first < ordered[i] - 1 /\ text[first + 1] = Blank THEN first + 1 ELSE first
  IN  [i \in DOMAIN ordered |-> [end |-> ordered[i], text |-> Slice(text, From(i), ordered[i])]]

\* The sentence context_false_positives takes a finding to be in: the first that ends at or
\* behind it, the finding's end in UTF-16 units and the sentence's in characters.
SentenceOf(result, sentences) ==
  LET i == SelectInSeq(sentences, LAMBDA s : result.end <= s.end)
  IN  IF i = 0 THEN Nothing ELSE sentences[i].text

LooksAt(result, sentences) ==
  /\ result.text_id \in ContextChecked
  /\ SentenceOf(result, sentences) # Nothing

sentences_to_check(results, sentences) ==
  {SentenceOf(results[i], sentences) :
     i \in {j \in DOMAIN results : LooksAt(results[j], sentences)}}

\* Mutant: from the first to the last.
RemovedAt_FromFront(results, keys) ==
  FoldLeft(LAMBDA left, key : IF key <= Len(left) THEN RemoveAt(left, key) ELSE left,
           results, InOrder(keys, Len(results)))

\* From the last to the first, so that the other indexes stay what they are.
RemovedAt(results, keys) ==
  FoldLeft(LAMBDA left, key : RemoveAt(left, key), results,
           Reverse(InOrder(keys, Len(results))))

\* What is left when `genuine` are the sentences that the context checker lets stand.
context_false_positives(results, sentences, genuine) ==
  RemovedAt(results,
    {i \in DOMAIN results : /\ LooksAt(results[i], sentences)
                            /\ SentenceOf(results[i], sentences) \notin genuine})

apply_false_positives(results, config) ==
  KeptAt(results, {i \in DOMAIN results : results[i].text \notin config.false_positives})

-----------------------------------------------------------------------------
\* The switch of the gender format.

format_switch_enabled(config) ==
  /\ config.inclusive_roles
  /\ {"gendered_denominations_ending_advanced", GenderCategory} \intersect config.disabled = {}

bulk_actions(lang, config) ==
  IF lang \in {"de", "fr"} /\ format_switch_enabled(config) THEN {"gender_format"} ELSE {}

\* Asked of each capitalised word of a finding that may yet join.
InklusivumWords(results, lang) ==
  LET asked == {i \in DOMAIN results :
                  results[i].bulk = Nothing /\ results[i].category = GenderCategory}
  IN  IF lang # "de" THEN {}
      ELSE {w \in UNION {Range(results[i].text) : i \in asked} :
              IsCapital(w) /\ w \in InklusivumNouns}

InclusiveAlternative(result) ==
  SelectInSeq(result.alternatives, LAMBDA a : a.role = "inclusive_gender" /\ ~a.remove)

IsPair(result) ==
  result.subcategory \in {"gendered_denominations_ending",
                          "gendered_denominations_ending_advanced"}

RoleSubcategories ==
  {"titles", "function", "leadership", "titles_advanced", "function_advanced",
   "leadership_advanced"}

\* _PAIR_TAIL: a conjunction and a feminine right behind.
StartsPair(text, index) ==
  \E i, k \in index + 2 .. Len(text) :
    /\ i + 1 < k
    /\ BlankBetween(text, index + 1, i - 1) /\ text[i] \in Conjunctions
    /\ BlankBetween(text, i + 1, k - 1) /\ text[k] \in FeminineWords

\* A role in the masculine that starts no pair of words, or a pair that was recognised.
IsMasculine(result, text, lang) ==
  \/ IsPair(result)
  \/ /\ result.subcategory \in RoleSubcategories
     /\ lang = "de" =>
          /\ Last(result.text) \notin FeminineWords
          /\ ~StartsPair(text, from_utf16(utf16_offsets(text), result.end))

\* Mutant: what is in the switch already is not looked at.
ClearOf_Nothing(results, result) == TRUE

\* No result of the switch overlaps this one.
ClearOf(results, result) ==
  \A i \in DOMAIN results :
    results[i].bulk # Nothing => ~(results[i].start < result.end /\ result.start < results[i].end)

MayJoin(results, result, text, lang, inklusivum_words) ==
  /\ result.bulk = Nothing /\ result.category = GenderCategory
  /\ InclusiveAlternative(result) # 0
  /\ IsMasculine(result, text, lang)
  /\ ClearOf(results, result)
  /\ inklusivum_words \intersect Range(result.text) = {}

\* The indexes of the results, by where those start.
ByStart(results) ==
  LET Before(i) ==
        {j \in DOMAIN results :
           \/ results[j].start < results[i].start
           \/ (results[j].start = results[i].start /\ j < i)}
  IN  [k \in DOMAIN results |-> CHOOSE i \in DOMAIN results : Cardinality(Before(i)) = k - 1]

\* Those of the switch already stay in it.
Marked(results, i, text, lang, inklusivum_words) ==
  IF MayJoin(results, results[i], text, lang, inklusivum_words)
  THEN [results EXCEPT ![i] = mark_bulk(@, InclusiveAlternative(@))] ELSE results

mark_masculines_for_bulk(results, text, lang, inklusivum_words) ==
  FoldLeft(LAMBDA marked, i : Marked(marked, i, text, lang, inklusivum_words),
           results, ByStart(results))

-----------------------------------------------------------------------------
\* The end of apply_language_rules, behind the last call to another service.

SortedOut(lt_results, results, sentences, genuine, text, lang, config) ==
  LET left == apply_false_positives(
                lt_results \o context_false_positives(results, sentences, genuine), config)
  IN  IF bulk_actions(lang, config) = {} THEN left
      ELSE mark_masculines_for_bulk(left, text, lang, InklusivumWords(left, lang))
=============================================================================
