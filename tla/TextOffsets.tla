---------------------------- MODULE TextOffsets -----------------------------
(***************************************************************************)
(* Positions in a text, as app/helper.py counts them for the results it    *)
(* reports: utf16_offsets and the two ways through its table.              *)
(*                                                                         *)
(* A text is a sequence of characters; a word is one character long.       *)
(* Positions are Python's: they lie between the characters, from 0.        *)
(***************************************************************************)
EXTENDS Subsequences, FiniteSets

CONSTANTS
  Wide,   \* characters outside the BMP: two UTF-16 code units
  Signs   \* emojis of the BMP, as a check mark: one code unit

ASSUME TextOffsetsAssumption == Wide \intersect Signs = {}

\* text[from:to], for positions that are not negative.
Slice(text, from, to) ==
  SubSeq(text, from + 1, IF to < Len(text) THEN to ELSE Len(text))

CountUpTo(text, index, characters) == Cardinality({i \in 1 .. index : text[i] \in characters})

-----------------------------------------------------------------------------
\* What a client slices: UTF-16 code units.

UnitsBefore(text, index) == index + CountUpTo(text, index, Wide)

\* The units from..to of `text` are `found`, and cut no character in half.
ReadsAs(text, from, to, found) ==
  \E i, j \in 0 .. Len(text) :
    /\ UnitsBefore(text, i) = from
    /\ UnitsBefore(text, j) = to
    /\ i <= j
    /\ Slice(text, i, j) = found

-----------------------------------------------------------------------------
\* The code.

\* utf16len(char) > 1 or emoji.is_emoji(char)
CountedTwice == Wide \union Signs

\* `chars`; False, where nothing counts twice, maps every position to itself.
utf16_offsets(text) == [i \in 0 .. Len(text) |-> i + CountUpTo(text, i, CountedTwice)]

to_utf16(offsets, index) == offsets[index]

\* A position the table does not have stays what it is.
from_utf16(offsets, index) ==
  IF \E i \in DOMAIN offsets : offsets[i] = index
  THEN CHOOSE i \in DOMAIN offsets : offsets[i] = index
  ELSE index

utf16_length(text) == utf16_offsets(text)[Len(text)]
=============================================================================
