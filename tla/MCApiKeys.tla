----------------------------- MODULE MCApiKeys -----------------------------
(* Small instances of ApiKeys for TLC. *)
EXTENDS ApiKeys, TLC

AnyRequest == [file : Files, dry_run : BOOLEAN, allow_empty : BOOLEAN]
AnySync    == [file : Files, dry_run : {FALSE}, allow_empty : {TRUE}]

TurnedOn == {<<FALSE, TRUE>>}

Symmetry == Permutations(Keys) \union Permutations(Emails) \union Permutations(Workers)
=============================================================================
