----------------------------- MODULE PhraseMatch -----------------------------
(***************************************************************************)
(* How a rule is matched against the tokens of a text                      *)
(* (app/rule_engine/matchers/pattern.py): its words, the pattern around    *)
(* them, the tokens that are part of the match, and the token at which the *)
(* loop over the text goes on.                                             *)
(*                                                                         *)
(* A token is the word it stands for; what matters about a word is which   *)
(* word types check_word_type takes it for.  Positions count from 1.       *)
(***************************************************************************)
EXTENDS Integers, Sequences, SequencesExt

CONSTANT WordTypes    \* the word types of each word: "article", "card", "noun"

\* What the rest of a pattern starts from, and how many tokens it has taken;
\* check_pattern answers False.
NoMatch == [at |-> 0, count |-> -1]

\* check_word_type (app/model.py)
IsOfType(text, i, type) == type \in WordTypes[text[i]]

\* French "la" after "à" or "de": the two make one article.
TakesPreposition(lang, text, i) ==
  lang = "fr" /\ i > 1 /\ text[i] = "la" /\ text[i - 1] = "à"

\* How many tokens a starred word type takes from token i on.  Whatever the
\* direction of the pattern, it walks back.
WalkedBack(lang, text, type, i) ==
  LET walk[k \in -1 .. Len(text)] ==
        IF k < 1 \/ ~IsOfType(text, k, type) THEN 0
        ELSE LET step == IF TakesPreposition(lang, text, k) THEN 2 ELSE 1
             IN  step + walk[k - step]
  IN  walk[i]

\* One word type of a pattern, read in the direction of offset.
Consume(lang, text, offset, m, w) ==
  CASE m.at < 1 -> NoMatch
    [] m.at > Len(text) -> IF w.star THEN m ELSE NoMatch
    [] m.at \in 1 .. Len(text) /\ w.star ->
         LET n == WalkedBack(lang, text, w.type, m.at)
         IN  [at |-> m.at - n, count |-> m.count + n]
    [] m.at \in 1 .. Len(text) /\ ~w.star /\ IsOfType(text, m.at, w.type) ->
         LET extra == IF TakesPreposition(lang, text, m.at) THEN 1 ELSE 0
         IN  [at |-> m.at + extra + offset, count |-> m.count + extra + 1]
    [] OTHER -> NoMatch

\* How many tokens the pattern takes from i on; -1 if it does not match.
CheckPattern(lang, text, pattern, i, offset) ==
  FoldLeft(LAMBDA m, w : Consume(lang, text, offset, m, w),
           [at |-> i, count |-> 0], pattern).count

-----------------------------------------------------------------------------
\* A rule is a record: its words; the pattern before ("article|l") and after
\* ("l|card|n*") them; and whether the pattern is part of the match.

MatchesWords(text, rule, i) ==
  /\ i + Len(rule.words) - 1 <= Len(text)
  /\ \A k \in 1 .. Len(rule.words) : text[i + k - 1] = rule.words[k]

CountBefore(lang, text, rule, i) ==
  IF rule.before = <<>> THEN 0
  ELSE CheckPattern(lang, text, Reverse(rule.before), i - 1, -1)

CountAfter(lang, text, rule, i) ==
  IF rule.after = <<>> THEN 0
  ELSE CheckPattern(lang, text, rule.after, i + Len(rule.words), 1)

IsPhraseMatch(lang, text, rule, i) ==
  /\ MatchesWords(text, rule, i)
  /\ CountBefore(lang, text, rule, i) >= 0
  /\ CountAfter(lang, text, rule, i) >= 0

\* German separable verbs (german_lemmatization): where the verb's particle is.
Separable == {<<"verb", "particle">>, <<"malt", "schwarz">>}

ParticleOf(lang, text, i) ==
  LET behind == {j \in i + 1 .. Len(text) : <<text[i], text[j]>> \in Separable}
  IN  IF lang # "de" \/ behind = {} THEN i
      ELSE CHOOSE j \in behind : \A k \in behind : j <= k

\* "schwarz" further behind is a connected token: it is passed by later, alone.
IsConnected(lang, text, i, j) ==
  j = ParticleOf(lang, text, i) /\ text[j] = "schwarz" /\ j > i + 1

\* token_index_offset: how far the loop moves on from token i at least.
TokenIndexOffset(lang, text, i) ==
  LET j == ParticleOf(lang, text, i)
  IN  IF j = i \/ IsConnected(lang, text, i, j) THEN 1 ELSE j - i + 1

\* Where the loop goes on after the match, its first and its last token, and
\* whether the tokens of the pattern count.
\* Mutant: the text of the match takes one token too many.
Phrase_OneMore(lang, text, rule, i) ==
  LET end == i + Len(rule.words) + CountAfter(lang, text, rule, i)
  IN  [skip |-> end, first |-> i - CountBefore(lang, text, rule, i), last |-> end]

\* Mutant: the loop goes on one token behind the one after the match.
Phrase_TooFar(lang, text, rule, i) ==
  LET end == i + Len(rule.words) + CountAfter(lang, text, rule, i)
  IN  [skip |-> end + 1, first |-> i - CountBefore(lang, text, rule, i), last |-> end - 1]

\* Mutant: the words of the rule are not counted.
Phrase_WordsForgotten(lang, text, rule, i) ==
  [skip |-> i + 1, first |-> i, last |-> i + Len(rule.words) - 1]

\* Mutant: the loop goes on behind the match, counted from its first token.
Phrase_FromStart(lang, text, rule, i) ==
  LET start == i - CountBefore(lang, text, rule, i)
  IN  [skip |-> start, first |-> start, last |-> i + Len(rule.words) - 1]

Phrase(lang, text, rule, i) ==
  LET words == Len(rule.words)
      count == words + CountAfter(lang, text, rule, i)
      start == IF rule.covers THEN i - CountBefore(lang, text, rule, i) ELSE i
      skip  == IF rule.covers THEN start + count + 1 ELSE i + words
      least == start + TokenIndexOffset(lang, text, start)
  IN  [skip  |-> IF least > skip THEN least ELSE skip,
       first |-> start,
       last  |-> IF rule.covers THEN i + count - 1 ELSE i + words - 1]
=============================================================================
