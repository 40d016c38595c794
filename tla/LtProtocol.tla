----------------------------- MODULE LtProtocol -----------------------------
(***************************************************************************)
(* LanguageTool's protocol as app/routes/lt.py speaks it: the language a   *)
(* client names, the data it sends as text and markup, and the matches and *)
(* sentence ranges it gets back.                                           *)
(***************************************************************************)
EXTENDS LanguageDetection, Findings

CONSTANT CONTEXT_RADIUS  \* how much text a match's context has on each side

ASSUME LtProtocolAssumption == CONTEXT_RADIUS \in Nat

-----------------------------------------------------------------------------
\* resolve_lang: a code is its subtags, known as a whole, by two of them or by one.

Codes ==
  (<<"auto">> :> "auto") @@ (<<"de">> :> "de") @@ (<<"en">> :> "en") @@ (<<"fr">> :> "fr")
    @@ (<<"de", "DE">> :> "de-DE") @@ (<<"de", "CH">> :> "de-CH") @@ (<<"de", "AT">> :> "de-AT")
    @@ (<<"en", "US">> :> "en-US") @@ (<<"en", "GB">> :> "en-GB") @@ (<<"fr", "FR">> :> "fr-FR")

resolve_lang(code) ==
  LET known == FirstOf(<<code, Slice(code, 0, 2), Slice(code, 0, 1)>>,
                       LAMBDA c : c \in DOMAIN Codes, Nothing)
  IN  IF known = Nothing THEN Nothing ELSE Codes[known]

-----------------------------------------------------------------------------
\* text_from_data.  An annotation: [markup, text, interpret_as].

Data(annotations) == FlattenSeq([i \in DOMAIN annotations |-> annotations[i].text])

Blanks(n) == [i \in 1 .. n |-> Blank]

\* Markup is written as what it stands for, or not at all, and as long as it was.
Flattened(annotation) ==
  LET markup == Len(annotation.text)
      shown == IF Len(annotation.interpret_as) > markup THEN <<>> ELSE annotation.interpret_as
  IN  IF ~annotation.markup THEN annotation.text ELSE shown \o Blanks(markup - Len(shown))

TextOf(annotations) == FlattenSeq([i \in DOMAIN annotations |-> Flattened(annotations[i])])

LengthUpTo(annotations, n) == Len(Data(SubSeq(annotations, 1, n)))

markup_spans(annotations) ==
  {<<LengthUpTo(annotations, i - 1), LengthUpTo(annotations, i)>> :
     i \in {j \in DOMAIN annotations : annotations[j].markup}}

InMarkup(spans, start, end) == \E span \in spans : start < span[2] /\ end > span[1]

-----------------------------------------------------------------------------
\* sentence_char_ranges, in characters.

Boundaries == SentenceMarks \union Newlines

\* Where sentences end: behind each boundary, and at the end of the text.
SentenceEnds(text) ==
  {i \in DOMAIN text : text[i] \in Boundaries} \union ({Len(text)} \ {0})

\* From behind the boundary before, and the blanks there.
SentenceStart(text, end) ==
  LET from == Max({0} \union {i \in SentenceEnds(text) : i < end})
  IN  Max({i \in from .. end : \A j \in from + 1 .. i : text[j] = Blank})

sentence_char_ranges(text) ==
  LET ends == {e \in SentenceEnds(text) :
                 \E i \in SentenceStart(text, e) + 1 .. e : text[i] \notin Spaces}
      ordered == InOrder(ends, Len(text))
  IN  [k \in DOMAIN ordered |-> <<SentenceStart(text, ordered[k]), ordered[k]>>]

sentence_ranges(text) ==
  LET offsets == utf16_offsets(text)
      ranges == sentence_char_ranges(text)
  IN  [k \in DOMAIN ranges |-> <<to_utf16(offsets, ranges[k][1]), to_utf16(offsets, ranges[k][2])>>]

\* fetch_sentence: from the last boundary before the match to the first behind it.
fetch_sentence(text, start, end) ==
  LET from == Max({0} \union {i \in 1 .. start : text[i] \in Boundaries})
      to == Min({Len(text)} \union {i \in end + 1 .. Len(text) : text[i] \in Boundaries})
      words == {i \in from + 1 .. to : text[i] \notin Spaces}
  IN  IF words = {} THEN <<>> ELSE SubSeq(text, Min(words), Max(words))

-----------------------------------------------------------------------------
\* Matches.

replacements(result) ==
  [i \in DOMAIN result.alternatives |->
     IF result.alternatives[i].remove THEN <<>> ELSE result.alternatives[i].lemma]

build_match(result, text) ==
  LET offsets == utf16_offsets(text)
      start == from_utf16(offsets, result.start)
      end == from_utf16(offsets, result.end)
      context_start == Max({0, start - CONTEXT_RADIUS})
  IN  [offset |-> result.start, length |-> result.end - result.start, found |-> result.text,
       replacements |-> replacements(result),
       context |-> [text |-> Slice(text, context_start, end + CONTEXT_RADIUS),
                    offset |-> to_utf16(offsets, start) - to_utf16(offsets, context_start)],
       sentence |-> fetch_sentence(text, start, end)]

\* Mutant: a match that touches markup is only left out where it begins in it.
LtMatches_ByStart(results, text, spans) ==
  LET offsets == utf16_offsets(text)
      Outside(r) == ~InMarkup(spans, from_utf16(offsets, r.start), from_utf16(offsets, r.start) + 1)
      outside == KeptAt(results, {i \in DOMAIN results : Outside(results[i])})
  IN  [i \in DOMAIN outside |-> build_match(outside[i], text)]

\* The results that touch no markup.
LtMatches(results, text, spans) ==
  LET offsets == utf16_offsets(text)
      Outside(r) == ~InMarkup(spans, from_utf16(offsets, r.start), from_utf16(offsets, r.end))
      outside == KeptAt(results, {i \in DOMAIN results : Outside(results[i])})
  IN  [i \in DOMAIN outside |-> build_match(outside[i], text)]
=============================================================================
