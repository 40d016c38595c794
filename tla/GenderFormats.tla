--------------------------- MODULE GenderFormats ----------------------------
(***************************************************************************)
(* How each gender format writes a gendered form (app/gender_format.py):   *)
(* reading the parts out of one spelling and writing them in another.      *)
(*                                                                         *)
(* A form is a sequence of pieces, a word, a suffix or a mark each:        *)
(* <<"Lehrer", "/", "-", "innen">>, <<"jede", "(", "r", ")">>.             *)
(***************************************************************************)
EXTENDS Sequences, Functions, SequencesExt, TLC

CONSTANTS
  InclusiveForms,   \* the article table: pairs of words, as <<"die", "der">>, <<"jede", "r">>
  ArticleWords,     \* those that are one word put together: <<"jede", "r">>, <<"un", "e">>
  FrenchMasculine, FrenchFeminine,  \* the French articles
  FrenchSuffixes,   \* FRENCH_FEMININE_SUFFIXES
  IsFrenchWord(_)   \* three letters at least, and the model has a vector for it

NoForm == <<>>

\* GENDER_ENDING_PARTS
GenderParts == {"innen", "in", "r", "nja", "ze", "iza", "eza"}

Upper == ("in" :> "In") @@ ("innen" :> "Innen")

-----------------------------------------------------------------------------
\* The German formats; the Inklusivum is none of them.

NounSeparators ==
  ("*" :> <<"*">>) @@ ("_" :> <<"_">>) @@ (":" :> <<":">>) @@ ("/" :> <<"/">>)
    @@ ("/-" :> <<"/", "-">>)

PairSeparators ==
  ("*" :> "*") @@ ("_" :> "_") @@ (":" :> ":")
    @@ [f \in {"/", "/-", "In", "()", "(-)"} |-> "/"]

Formats == DOMAIN PairSeparators

\* compounds_in_one_token: `Mitarbeiter*innengespräch` is read in these alone.
CompoundFormats == {"*", "_", ":"}

LowerFirst(pieces) ==
  IF pieces # <<>> /\ pieces[1] \in Range(Upper)
  THEN <<CHOOSE p \in DOMAIN Upper : Upper[p] = pieces[1]>> \o Tail(pieces)
  ELSE pieces

\* _ENDING_PREFIX
WithoutPrefix(pieces) ==
  IF pieces = <<>> THEN pieces
  ELSE IF pieces[1] \in {"/", "("} /\ Len(pieces) > 1 /\ pieces[2] = "-"
  THEN SubSeq(pieces, 3, Len(pieces))
  ELSE IF pieces[1] \in {"*", "_", ":", "/", "("} THEN Tail(pieces)
  ELSE pieces

\* Mutant: a closing bracket stays with the ending.
noun_ending_KeepsBracket(pieces) == LowerFirst(WithoutPrefix(pieces))

noun_ending(pieces) ==
  LET ending == WithoutPrefix(pieces)
  IN  LowerFirst(IF ending # <<>> /\ Last(ending) = ")" THEN Front(ending) ELSE ending)

\* _GENDER_PART: a gender part comes first, or the whole ending is one.
render_noun_ending(ending, target) ==
  LET gender == IF ending[1] \in GenderParts THEN <<ending[1]>> ELSE ending
      rest == IF ending[1] \in GenderParts THEN Tail(ending) ELSE <<>>
  IN  CASE target \in DOMAIN NounSeparators -> NounSeparators[target] \o gender \o rest
        [] target = "In" -> IF gender[1] \in DOMAIN Upper THEN <<Upper[gender[1]]>> \o rest
                            ELSE <<"/">> \o gender \o rest
        [] target = "()" -> <<"(">> \o gender \o <<")">> \o rest
        [] target = "(-)" -> <<"(", "-">> \o gender \o <<")">> \o rest

render_word_ending(stem, ending, target) ==
  IF target = "In" THEN <<stem, "/", ending>>
  ELSE <<stem>> \o render_noun_ending(<<ending>>, target)

render_pair(first, second, target) == <<first, PairSeparators[target], second>>

\* The two parts of a form, in any format.
split_form(pieces) ==
  CASE Len(pieces) = 3 /\ pieces[2] \in {"*", "_", ":", "/"} -> <<pieces[1], pieces[3]>>
    [] Len(pieces) = 4 /\ pieces[2] = "/" /\ pieces[3] = "-" -> <<pieces[1], pieces[4]>>
    [] Len(pieces) = 4 /\ pieces[2] = "(" /\ pieces[4] = ")" -> <<pieces[1], pieces[3]>>
    [] Len(pieces) = 5 /\ SubSeq(pieces, 2, 3) = <<"(", "-">> /\ pieces[5] = ")" ->
         <<pieces[1], pieces[4]>>
    [] OTHER -> NoForm

convert_form(pieces, target) ==
  LET parts == split_form(pieces)
  IN  IF parts = NoForm \/ {parts, Reverse(parts)} \intersect InclusiveForms = {} THEN NoForm
      ELSE IF parts \in ArticleWords THEN render_word_ending(parts[1], parts[2], target)
      ELSE render_pair(parts[1], parts[2], target)

-----------------------------------------------------------------------------
\* The French formats: a separator, and whether a plural `s` takes one of its own.

FrenchFormats == {<<"·">>, <<"·", "s">>, <<".">>, <<".", "s">>, <<"/">>, <<"/", "s">>}

FrenchSeparators == {"·", ".", "/"}

render_french(stem, suffix, plural, target) ==
  IF ~plural THEN <<stem, target[1], suffix>>
  ELSE IF Len(target) > 1 THEN <<stem, target[1], suffix, target[1], "s">>
  ELSE <<stem, target[1], suffix, "s">>

\* The shape: stem, separator, rest, and perhaps the separator again and an `s`.
\* split_french_ending reads the suffix and the plural out of the rest.
convert_french(pieces, target) ==
  LET stem == pieces[1]
      rest == SubSeq(pieces, 3, Len(pieces))
      IsArticle ==
        /\ Len(pieces) = 3
        /\ \/ /\ {stem, rest[1]} \intersect FrenchMasculine # {}
              /\ {stem, rest[1]} \intersect FrenchFeminine # {}
              /\ stem # rest[1]
           \/ stem \in FrenchMasculine /\ <<stem, rest[1]>> \in ArticleWords
  IN  IF ~(Len(pieces) >= 3 /\ pieces[2] \in FrenchSeparators) THEN NoForm
      ELSE IF IsArticle THEN <<stem, target[1], rest[1]>>
      ELSE IF /\ rest[1] \in FrenchSuffixes
              /\ Tail(rest) \in {<<>>, <<"s">>, <<pieces[2], "s">>}
              /\ IsFrenchWord(stem)
      THEN render_french(stem, rest[1], Len(rest) > 1, target)
      ELSE NoForm

-----------------------------------------------------------------------------
\* What accepting the switch does to a form: nothing, where it is not read.
\* Kinds: "noun" (the stem, then the ending), "article", "french".

Switched(kind, pieces, target) ==
  LET converted ==
        CASE kind = "noun" ->
               <<pieces[1]>> \o render_noun_ending(noun_ending(Tail(pieces)), target)
          [] kind = "article" -> convert_form(pieces, target)
          [] kind = "french" -> convert_french(pieces, target)
  IN  IF converted = NoForm THEN pieces ELSE converted

TargetsOf(kind) == IF kind = "french" THEN FrenchFormats ELSE Formats
=============================================================================
