------------------------------ MODULE Guardrail ------------------------------
(***************************************************************************)
(* The guardrail in front of and behind a model: how an answer is cut into *)
(* parts (parts, app/guardrail.py), when its findings fail it (failed_on), *)
(* the reask (app/review_prompt.py), the note LiteLLM's answers get        *)
(* (app/routes/guardrail_litellm.py) and the guidance a conversation gets  *)
(* (app/guidance.py).                                                      *)
(***************************************************************************)
EXTENDS Findings, LanguageDetection

CONSTANTS
  GUARDRAIL_MAX_LENGTH,  \* how much of an answer is checked
  text_max_length,       \* and how much of it at once
  Note,                  \* WITTY_NOTE
  GermanLine, FrenchLine, BaseLine  \* the guidance's lines

ASSUME GuardrailAssumption ==
  /\ GUARDRAIL_MAX_LENGTH \in Nat \ {0}
  /\ text_max_length \in Nat \ {0}
  /\ Note \notin Spaces

-----------------------------------------------------------------------------
\* Parts.

\* Behind the last sentence end of the window, 0 for none: ". " or a newline.
SentenceCut(window) ==
  LET Ends(i) == window[i] \in Newlines
                   \/ (i > 1 /\ window[i - 1] \in SentenceMarks /\ window[i] = Blank)
  IN  Max({0} \union {i \in DOMAIN window : Ends(i)})

BlankCut(window) == Max({0} \union {i \in DOMAIN window : window[i] = Blank})

\* Mutant: a window without a space is not cut.
Cut_AtNothing(window, size) ==
  IF SentenceCut(window) > size \div 2 THEN SentenceCut(window) ELSE BlankCut(window)

\* Where a part ends: behind a sentence in the window's second half, else behind a space,
\* else where the size falls.
Cut(window, size) ==
  IF SentenceCut(window) > size \div 2 THEN SentenceCut(window)
  ELSE IF BlankCut(window) > 0 THEN BlankCut(window)
  ELSE size

\* The part of `answer` that begins at `start`: nothing at its end.
Part(answer, start) ==
  IF Len(answer) - start > text_max_length
  THEN SubSeq(answer, start + 1,
              start + Cut(Slice(answer, start, start + text_max_length), text_max_length))
  ELSE SubSeq(answer, start + 1, Len(answer))

\* Mutant: the next part begins where the window ended.
Behind_Window(start, part) == start + text_max_length

\* Where the next part begins.
Behind(start, part) == start + Len(part)

-----------------------------------------------------------------------------
\* The verdict.  A limit: [count, ratio], a ratio in hundredths, Nothing for neither.

Levels == {"overall", "corporate_rules", "openly_discriminating", "basic", "advanced"}

\* A gravity in tenths.
finding_level(finding) ==
  IF finding.category = "corporate_rules" THEN "corporate_rules"
  ELSE IF finding.gravity = Nothing THEN Nothing
  ELSE IF finding.gravity < 15 THEN "openly_discriminating"
  ELSE IF finding.gravity <= 25 THEN "basic"
  ELSE "advanced"

\* Mutant: findings that have no alternatives count as well.
Counted_All(findings, level) ==
  Cardinality({i \in DOMAIN findings : level = "overall" \/ finding_level(findings[i]) = level})

Counted(findings, level) ==
  Cardinality({i \in DOMAIN findings :
                 /\ findings[i].alternatives # <<>>
                 /\ level = "overall" \/ finding_level(findings[i]) = level})

\* The levels that have a limit, and reach it.
failed_on(findings, words, threshold) ==
  {level \in DOMAIN threshold :
     LET found == Counted(findings, level) IN
     \/ threshold[level].count # Nothing /\ found >= threshold[level].count
     \/ threshold[level].ratio # Nothing /\ words > 0
          /\ 100 * found >= threshold[level].ratio * words}

IsLimit(limit) ==
  /\ limit.count = Nothing \/ limit.count \in Nat \ {0}
  /\ limit.ratio = Nothing \/ limit.ratio \in 1 .. 100
  /\ limit.count # Nothing \/ limit.ratio # Nothing

\* A user's limits, or the default's.
IsThreshold(threshold) == \A level \in DOMAIN threshold : IsLimit(threshold[level])

WordsIn(text) == Cardinality({i \in DOMAIN text : text[i] \notin Spaces})

-----------------------------------------------------------------------------
WithAlternatives(findings) == {i \in DOMAIN findings : findings[i].alternatives # <<>>}

\* The reask: what to replace, then what to rephrase; Nothing without anything to replace.

ReviewPrompt(findings) ==
  LET changes == KeptAt(findings, WithAlternatives(findings))
      rephrase == KeptAt(findings, {i \in DOMAIN findings \ WithAlternatives(findings) :
                                      findings[i].explained})
      Issue(f) == [issue |-> f.text, alternatives |-> f.alternatives]
  IN  IF changes = <<>> THEN Nothing
      ELSE [i \in DOMAIN (changes \o rephrase) |-> Issue((changes \o rephrase)[i])]

\* separator.join(texts)
JoinedBy(separator, texts) ==
  FlattenSeq([i \in DOMAIN texts |-> IF i = 1 THEN texts[i] ELSE <<separator>> \o texts[i]])

\* issue_list: what the note says of the findings that have alternatives.
issue_list(findings, explain) ==
  LET Said(alternative) == IF alternative.remove THEN <<"(remove)">> ELSE alternative.lemma
      Offered(f) == JoinedBy("/", [i \in DOMAIN f.alternatives |-> Said(f.alternatives[i])])
      Issue(f) == f.text \o <<"->">> \o Offered(f)
                    \o IF explain /\ f.explained THEN <<"(why)">> ELSE <<>>
      issues == KeptAt(findings, WithAlternatives(findings))
  IN  JoinedBy(";", [i \in DOMAIN issues |-> Issue(issues[i])])

\* An answer and the note behind its last marker.
HasNote(text) == \E i \in DOMAIN text : text[i] = Note
LastNote(text) == Max({i \in DOMAIN text : text[i] = Note})
BeforeNote(text) == SubSeq(text, 1, LastNote(text) - 1)
NoteOf(text) == SubSeq(text, LastNote(text) + 1, Len(text))

-----------------------------------------------------------------------------
\* Guidance.  A message: [role, kind, content], a content's kind being "text", "parts"
\* or "none", and its content the texts put into it.

IsMessage(m) ==
  DOMAIN m = {"role", "kind", "content"} /\ m.kind \in {"text", "parts", "none"}
    /\ IsList(m.content)

TimesSaid(m, text) == Cardinality({i \in DOMAIN m.content : m.content[i] = text})

\* A list of parts says nothing that is found again.
SaidAtMostOnce(m, text) == m.kind = "text" => TimesSaid(m, text) <= 1

\* A locale is cut to its language; none asked for is both.
MayBe(lang, language) == lang = "auto" \/ LangOf[lang] = language

guidance(config, lang) ==
  <<BaseLine>>
    \o (IF config.german_gender_ending # "e" /\ MayBe(lang, "de")
        THEN <<GermanLine[config.german_gender_ending]>> ELSE <<>>)
    \o (IF MayBe(lang, "fr") THEN <<FrenchLine[config.french_gender_separator]>> ELSE <<>>)

merge_guidance(messages, text) ==
  IF messages = <<>> \/ messages[1].role # "system"
  THEN <<[role |-> "system", kind |-> "text", content |-> <<text>>]>> \o messages
  ELSE IF messages[1].kind = "none"
  THEN <<[messages[1] EXCEPT !.kind = "text", !.content = <<text>>]>> \o Tail(messages)
  ELSE <<[messages[1] EXCEPT !.content = Append(@, text)]>> \o Tail(messages)

\* text in str(content): a list is written out with its newlines escaped, so the
\* guidance, which has some, is never found in one.
SaysAlready(messages, text) ==
  /\ messages # <<>>
  /\ messages[1].role = "system" /\ messages[1].kind = "text"
  /\ text \in Range(messages[1].content)

\* The conversation to send on: the one that came where there is nothing to add.
with_guidance(messages, text) ==
  IF messages = <<>> \/ SaysAlready(messages, text) THEN messages
  ELSE merge_guidance(messages, text)
=============================================================================
