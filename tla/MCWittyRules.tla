---------------------------- MODULE MCWittyRules ----------------------------
(* Small instances of WittyRules for TLC: a few words, a few rules that are  *)
(* like those of the database, and the texts that put them together.         *)
EXTENDS WittyRules, TLC

Words ==
  {"word", "stop", "/", "article", "la", "à", "card", "noun", "ending", "form",
   "stem", "part", "et", "m", "f", "emoji", "smile", "#", "verb", "particle",
   "malt", "schwarz", "under", "older", "than", "stagiaire", "sage-femme",
   "fou", "leader", "leiter", "kaufmann", "idiot", "our", "a", ",", "she", "leads",
   "vitamin", "basically", "zu", "und", "nounin", "curieux", "curieuse"}

SomeTypes ==
  [w \in Words |->
     CASE w \in {"article", "la"} -> {"article"}
       [] w = "card" -> {"card"}
       [] w \in {"noun", "leader", "leiter", "stagiaire", "sage-femme", "idiot"} -> {"n"}
       [] OTHER -> {}]

One(type)  == [type |-> type, star |-> FALSE]
Many(type) == [type |-> type, star |-> TRUE]

ARule(lang, words, before, after) ==
  [name |-> words[1], lang |-> lang, type |-> "default", words |-> words,
   before |-> before, after |-> after, covers |-> before # <<>> \/ after # <<>>,
   subcategory |-> "style", gendered |-> FALSE,
   heads |-> {}, tails |-> {}, skips |-> FALSE, filler |-> FALSE]

\* What a rule may take in around its words.
Taking(heads, tails, rule) == [rule EXCEPT !.heads = heads, !.tails = tails]

\* English "under" and "older than" ("l|card|n*"), "leader", "she" with a verb,
\* the filler "basically"; French "stagiaire" ("article|l"), "sage-femme"
\* ("article*|l"), "fou de", the pair "curieux et curieuse"; German "leiter", "zu"
\* and a verb, verbs with a particle, the binary pair "noun und nounin", "kaufmann"
\* and the suffix "mann", whose alternatives are gendered, and the shared "idiot".
SomeRules ==
  {ARule("en", <<"under">>, <<>>, <<One("card"), Many("n")>>),
   ARule("en", <<"older", "than">>, <<>>, <<One("card"), Many("n")>>),
   Taking({"a"}, {}, ARule("en", <<"leader">>, <<>>, <<>>)),
   ARule("en", <<"than">>, <<>>, <<>>),
   Taking({}, {<<"leads">>}, ARule("en", <<"she">>, <<>>, <<>>)),
   ARule("en", <<"leads">>, <<>>, <<>>),
   [ARule("en", <<"basically">>, <<>>, <<>>) EXCEPT !.filler = TRUE],
   Taking(FrenchArticles, {}, ARule("fr", <<"stagiaire">>, <<One("article")>>, <<>>)),
   Taking(FrenchArticles, {}, ARule("fr", <<"sage-femme">>, <<Many("article")>>, <<>>)),
   ARule("fr", <<"fou", "à">>, <<>>, <<>>),
   [Taking(FrenchArticles, {<<"et", "curieuse">>}, ARule("fr", <<"curieux">>, <<>>, <<>>))
      EXCEPT !.skips = TRUE],
   Taking({"article"}, {}, ARule("de", <<"leiter">>, <<>>, <<>>)),
   Taking({"zu"}, {<<"particle">>}, ARule("de", <<"verb">>, <<>>, <<>>)),
   Taking({}, {<<"schwarz">>}, ARule("de", <<"malt">>, <<>>, <<>>)),
   [Taking({"article"}, {<<"und", "nounin">>}, ARule("de", <<"noun">>, <<>>, <<>>))
      EXCEPT !.gendered = TRUE],
   ARule("de", <<"nounin">>, <<>>, <<>>),
   [ARule("de", <<"kaufmann">>, <<>>, <<>>) EXCEPT !.gendered = TRUE],
   [ARule("de", <<"kaufmann">>, <<>>, <<>>)
      EXCEPT !.name = "mann", !.type = "suffix", !.gendered = TRUE],
   [Taking({"article"}, {}, ARule("de", <<"idiot">>, <<>>, <<>>))
      EXCEPT !.type = "substring", !.subcategory = "ableism"]}

Term(words) == ARule("any", words, <<>>, <<>>)

Star   == [disabled |-> {}, terms |-> {Term(<<"our", "word">>), Term(<<"vitamin", "a">>)}, alternatives |-> "star"]
Colon  == [disabled |-> {}, terms |-> {}, alternatives |-> "colon"]
Silent == [disabled |-> {"ableism"}, terms |-> {}, alternatives |-> "star"]
SomeConfigs == {Star, Colon, Silent}

German ==
  {<<"idiot", "/", "ending">>, <<"article", "leiter", "/", "ending">>,
   <<"noun", "/", "ending">>, <<"kaufmann", "/", "ending">>, <<"verb", "word", "particle">>,
   <<"malt", "word", "schwarz">>, <<"malt", "schwarz">>, <<"zu", "verb">>,
   <<"verb", "particle">>, <<"noun", "und", "nounin">>, <<"article", "idiot">>}

English ==
  {<<"under", "card", "noun", "leader">>, <<"under", "leader">>,
   <<"older", "than", "card">>, <<"m", "/", "f", "stop">>, <<"emoji", "emoji", "smile">>,
   <<"#", "word", "leader">>, <<"our", "word", "leader">>, <<"vitamin", "a", "leader">>,
   <<"she", "leads">>, <<"basically", ",", "leads">>}

\* At most two article tokens before "sage-femme": with more the loop does not end.
\* Two words behind it then: the finding is moved to where the article begins with
\* both texts' length, and would reach past a text that ends before.
French ==
  {<<"article", "stagiaire">>, <<"fou", "à", "la", "stagiaire">>,
   <<"sage-femme", "word">>, <<"word", "sage-femme", "word">>,
   <<"word", "article", "sage-femme">>, <<"word", "à", "la", "sage-femme">>,
   <<"form">>, <<"stem", "/", "part", "/", "part">>,
   <<"article", "noun", "et", "article", "noun">>, <<"noun", "et", "noun">>,
   <<"article", "article", "sage-femme", "word", "word">>, <<"curieux", "et", "curieuse">>}

CONSTANTS r1, r2

\* r1 has any of them checked; r2 meets it in the shared rule.
SomeChecks ==
  (r1 :> ({"de"} \X {Star} \X German) \union ({"en"} \X {Star} \X English)
         \union ({"fr"} \X {Star} \X French) \union ({"de"} \X {Silent} \X {<<"idiot">>}))
  @@ (r2 :> {"de"} \X {Colon} \X {<<"idiot">>})
=============================================================================
