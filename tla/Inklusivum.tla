----------------------------- MODULE Inklusivum -----------------------------
(***************************************************************************)
(* The nouns of the Inklusivum (app/alternatives_engine/inklusivum.py):    *)
(* how one is built from a masculine and a feminine, how a word is         *)
(* recognised as one, and how a form with a separator is switched into it  *)
(* (app/regex_check.py, app/gender_format.py).                             *)
(*                                                                         *)
(* A word is its stem, then letter by letter what the rules may look at:   *)
(* <<"Lehr", "e", "r", "i", "n">>.  A stem has three letters or more.      *)
(***************************************************************************)
EXTENDS GenderFormats, FiniteSetsExt

CONSTANTS
  Umlauts,          \* stems with an umlaut -> the same without
  NounEntries,      \* [base, forms, male_form, female_form], NoForm where there is none
  Exceptions,       \* masculines -> <<singular, plural>>: inklusivum_nouns
  NeutralNouns,     \* inklusivum_neutral_nouns
  NoPluralUmlaut,   \* stems whose plural has no umlaut: NO_PLURAL_UMLAUT
  LowerStems,       \* those that begin with a small letter
  InklusivumPairs,  \* unordered pairs of articles -> <<article, case>>
  NounConjunctions, \* GERMAN_CONJUNCTIONS
  Spelled           \* a form's first piece, and its endings -> as words here

NoCase == "no case"

PLURAL_FORMS == {"pl_nom", "pl_acc", "pl_dat", "pl_gen"}

TARGET_FORM_CASES ==
  ("sg_nom" :> "nominativ") @@ ("sg_acc" :> "akkusativ") @@ ("sg_gen" :> "genitiv")
    @@ ("sg_dat" :> "dativ")

Without(word, n) == SubSeq(word, 1, Len(word) - n)

WithoutUmlauts(word) == [i \in DOMAIN word |-> IF word[i] \in DOMAIN Umlauts
                                               THEN Umlauts[word[i]] ELSE word[i]]

-----------------------------------------------------------------------------
\* Building one.

singular(masculine) ==
  IF IsSuffix(<<"e">>, masculine) THEN masculine \o <<"r", "e">> ELSE Append(masculine, "e")

plural(singular_form) ==
  IF IsSuffix(<<"r", "e">>, singular_form) THEN Without(singular_form, 1) \o <<"n", "e">>
  ELSE singular_form \o <<"r", "n", "e">>

is_already_neutral(word) == IsSuffix(<<"l", "i", "n", "g">>, word) \/ word \in NeutralNouns

IsRomance(masculine, feminine, ending) ==
  IsSuffix(ending, masculine) /\ feminine = Append(Without(masculine, Len(ending)), "a")

IsDoubleEr(masculine, feminine) ==
  /\ IsSuffix(<<"e", "r", "e", "r">>, masculine)
  /\ feminine = Without(masculine, 2) \o <<"i", "n">>

StemOf(masculine, feminine) ==
  IF IsRomance(masculine, feminine, <<"u", "s">>) THEN Without(masculine, 2)
  ELSE IF IsRomance(masculine, feminine, <<"o">>) THEN Without(masculine, 1)
  ELSE IF IsDoubleEr(masculine, feminine) THEN Without(masculine, 2)
  ELSE masculine

\* Whether the feminine is the masculine but for an umlaut, which the plural then takes.
HasUmlautedStem(masculine, feminine) ==
  LET its_stem == Without(feminine, 2)
  IN  /\ Range(masculine) \intersect NoPluralUmlaut = {}
      /\ IsSuffix(<<"i", "n">>, feminine)
      /\ its_stem # masculine /\ WithoutUmlauts(its_stem) = WithoutUmlauts(masculine)
      /\ its_stem # WithoutUmlauts(its_stem)

apply_case(form, target_form) ==
  CASE target_form = "sg_gen" -> Append(form, "s")
    [] target_form = "pl_dat" -> Append(form, "n")
    [] OTHER -> form

is_substantivized_adjective(masculine, feminine) ==
  IsSuffix(<<"e", "r">>, masculine) /\ feminine = Without(masculine, 1)

\* adjective: as after an article.
AdjectiveEnding(target_form) ==
  IF TARGET_FORM_CASES[target_form] \in {"genitiv", "dativ"} THEN <<"e", "n">> ELSE <<"e">>

substantivized_adjective(masculine, target_form) ==
  Without(masculine, 2)
    \o IF target_form \in PLURAL_FORMS THEN <<"e", "n">> ELSE AdjectiveEnding(target_form)

\* With an article, and no prefix.
noun(masculine, feminine, target_form) ==
  LET is_plural == target_form \in PLURAL_FORMS
      Regular == singular(StemOf(masculine, feminine))
      form ==
        IF ~is_plural THEN Regular
        ELSE plural(IF HasUmlautedStem(masculine, feminine)
                    THEN singular(Without(feminine, 2)) ELSE Regular)
  IN  IF masculine \in DOMAIN Exceptions
      THEN apply_case(Exceptions[masculine][IF is_plural THEN 2 ELSE 1], target_form)
      ELSE IF is_already_neutral(masculine) THEN masculine
      ELSE IF is_substantivized_adjective(masculine, feminine)
      THEN substantivized_adjective(masculine, target_form)
      ELSE apply_case(form, target_form)

-----------------------------------------------------------------------------
\* Recognising one: its endings undone, and what may be left looked up and built again.

\* Mutant: the dative's -n is not undone.
Undeclined_NotDative(word) ==
  {word} \union (IF IsSuffix(<<"s">>, word) THEN {Without(word, 1)} ELSE {})

Undeclined(word) ==
  {word} \union (IF IsSuffix(<<"s">>, word) \/ IsSuffix(<<"n", "e", "n">>, word)
                 THEN {Without(word, 1)} ELSE {})

UndoPlural(form) ==
  {form}
    \union (IF IsSuffix(<<"r", "n", "e">>, form) THEN {Without(form, 3)} ELSE {})
    \union (IF IsSuffix(<<"n", "e">>, form) THEN {Append(Without(form, 2), "e")} ELSE {})

UndoSingular(form) ==
  (IF IsSuffix(<<"r", "e">>, form) THEN {Without(form, 2)} ELSE {})
    \union (IF IsSuffix(<<"e">>, form) THEN {Without(form, 1)} ELSE {})

\* A word with a small letter is none.
base_form_candidates(word) ==
  IF word = <<>> \/ word[1] \in LowerStems THEN {}
  ELSE UNION {UNION {UndoSingular(s) : s \in UndoPlural(form)} : form \in Undeclined(word)}
         \ {<<>>}

is_form_of(word, masculine, feminine) ==
  \E target_form \in {"sg_nom", "sg_gen", "pl_nom", "pl_dat"} :
    noun(masculine, feminine, target_form) = word

\* fetch_declensions: in any of its forms; one it is the base of first, then the longest.
Lookups(word) ==
  LET found == {e \in NounEntries : word \in {e.base} \union e.forms}
      Rank(e) == IF e.base = word THEN 99 ELSE Len(e.base)
  IN  {e \in found : \A other \in found : Rank(other) <= Rank(e)}

\* Whichever form of a noun a candidate is, it is taken for the masculine.
is_inklusivum_noun(word) ==
  \E candidate \in base_form_candidates(word) : \E entry \in Lookups(candidate) :
    entry.female_form # NoForm /\ is_form_of(word, candidate, entry.female_form)

-----------------------------------------------------------------------------
\* Switching into it.

\* The declension column of the last of `tokens`, [text, case], the case being spaCy's: from
\* the article before it, a pair in a separator format or one of German's own that is clear,
\* or as the noun it is coordinated with has it.
inklusivum_target_form(tokens, is_plural) ==
  LET Before(i) == IF i > 1 THEN tokens[i - 1].text ELSE NoForm
      PairBefore(i) == Range(split_form(Before(i)))
      case[i \in DOMAIN tokens] ==
        IF PairBefore(i) \in DOMAIN InklusivumPairs
        THEN LET its == InklusivumPairs[PairBefore(i)][2]
             IN  IF its = NoCase THEN tokens[i].case ELSE its
        ELSE IF Before(i) = <<"des">> THEN "genitiv"
        ELSE IF Before(i) = <<"den">> /\ is_plural THEN "dativ"
        ELSE IF i > 2 /\ Range(Before(i)) \intersect NounConjunctions # {} THEN case[i - 2]
        ELSE tokens[i].case
      found == case[Len(tokens)]
  IN  IF found = NoCase THEN NoCase
      ELSE IF is_plural THEN IF found = "dativ" THEN "pl_dat" ELSE "pl_nom"
      ELSE IF found = "genitiv" THEN "sg_gen" ELSE "sg_nom"

inklusivum_pair(pieces) ==
  LET parts == Range(split_form(pieces))
  IN  IF parts \in DOMAIN InklusivumPairs THEN {<<InklusivumPairs[parts][1]>>} ELSE {}

feminine_form(pieces) == Spelled[pieces[1]] \o <<"i", "n">>

\* What a form of `kind` is switched into: nothing where that cannot be told.
inklusivum_form(kind, pieces, tokens) ==
  LET feminine == feminine_form(pieces)
      ending == noun_ending(Tail(pieces))
      target_form == inklusivum_target_form(tokens, ending = <<"innen">>)
      masculines == {entry.male_form : entry \in Lookups(feminine)} \ {NoForm}
  IN  IF kind = "article" THEN inklusivum_pair(pieces)
      ELSE IF kind = "noun" /\ ending \in {<<"in">>, <<"innen">>} /\ target_form # NoCase
      THEN {noun(masculine, feminine, target_form) : masculine \in masculines}
      ELSE {}
=============================================================================
