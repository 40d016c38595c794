---------------------------- MODULE Subsequences ----------------------------
(***************************************************************************)
(* Parts of a sequence, in the order they have in it: what the loops and   *)
(* comprehensions of the code keep of a list (app/language_processor.py,   *)
(* app/languagetool.py, app/review_prompt.py).  Written as a recursive     *)
(* function over the indexes kept, so that facts about it can be proved.   *)
(***************************************************************************)
EXTENDS Integers, Sequences

\* A list of anything.
IsList(s) == s \in Seq({s[i] : i \in DOMAIN s})

\* Those of the positions 1..n that are in a set, in order.
InOrder(positions, n) ==
  LET order[k \in 0 .. n] ==
        IF k = 0 THEN <<>>
        ELSE IF k \in positions THEN Append(order[k - 1], k) ELSE order[k - 1]
  IN  order[n]

\* What stands at the indexes in a set.
KeptAt(seq, keys) ==
  LET order == InOrder(keys, Len(seq)) IN [i \in DOMAIN order |-> seq[order[i]]]
=============================================================================
