----------------------------- MODULE WittyRules -----------------------------
(***************************************************************************)
(* The loop over the tokens of a text (witty_rules of                      *)
(* app/rule_processors.py) run by the requests of one worker: the checks   *)
(* tried on each token in order, the token each of them goes on at, and    *)
(* the German substring rules, Rule objects that every request in the      *)
(* process shares (Database.substring_rules) and writes its subcategory    *)
(* and its alternatives into between awaits.                               *)
(*                                                                         *)
(* A false positive, or a category that is off, makes a check find nothing: *)
(* every check may find nothing.                                           *)
(***************************************************************************)
EXTENDS PhraseMatch, FiniteSets

CONSTANTS
  Requests, Nobody,
  Langs,        \* "de", "en", "fr"
  Checks,       \* Checks[r]: what r may ask for, <<language, config, text>>
  Configs,      \* the configs in use, records: disabled subcategories, terms, alternatives
  Rules,        \* the rules of the languages, see PhraseMatch and Widened
  MemoryZones   \* what MEMORY_ZONES may be set to

VARIABLES
  memory_zones, \* the setting of this worker
  holder,       \* locks[lang] of the model: the request in its nlp_session
  check,        \* each request: where it is, and what it has found
  scratch       \* what the shared rules hold: a subcategory, alternatives

vars == <<memory_zones, holder, check, scratch>>

\* The rules of a language; the shared ones match inside a word.
RulesOf(lang, type) == {rule \in Rules : rule.lang = lang /\ rule.type = type}
SharedRules == {rule \in Rules : rule.type = "substring"}

NoSubcategory == "none"

\* What findings come from that are not those of a rule.
OtherSources ==
  {"french form", "french doublet", "term replacement", "m/f", "emoji", "emojis",
   "hashtag", "gender ending"}

ASSUME WittyRulesAssumption ==
  /\ Nobody \notin Requests
  /\ MemoryZones \subseteq BOOLEAN
  /\ \A p, q \in Rules : p.name = q.name => p = q
  /\ \A rule \in Rules : rule.name \notin OtherSources /\ rule.subcategory # NoSubcategory
  /\ \A r \in Requests : \A asked \in Checks[r] : asked[1] \in Langs

Idle ==
  [pc |-> "idle", lang |-> Nobody, config |-> Nobody, text |-> <<>>,
   index |-> 1, findings |-> {}, rule |-> Nobody, taken |-> Nobody]

Init ==
  /\ memory_zones \in MemoryZones
  /\ holder = [l \in Langs |-> Nobody]
  /\ check = [r \in Requests |-> Idle]
  /\ scratch = [rule \in SharedRules |->
                  [subcategory |-> NoSubcategory, alternatives |-> Nobody]]

\* What a check says of token c.index: the token to go on at, and findings.
Outcome(next, findings) == [next |-> next, findings |-> findings]
Nothing(c) == Outcome(c.index, {})

\* words is history: the tokens that a finding was matched by.
Finding(source, first, last, words, subcategory, alternatives) ==
  [source |-> source, first |-> first, last |-> last, words |-> words,
   subcategory |-> subcategory, alternatives |-> alternatives]

Found(source, first, last, next) ==
  Outcome(next, {Finding(source, first, last, first .. last, source, Nobody)})

-----------------------------------------------------------------------------
(***************************************************************************)
(* generate_alternatives, which adapts what a rule offers to the words     *)
(* around the match, may take some of them in.  The loop has passed the    *)
(* words before, and comes to those behind.  A rule's heads are the words  *)
(* it may take in before its own: articles, "a", the "zu" of a verb; its   *)
(* tails are what it may take in behind: "und Lehrerin", the "leads" of    *)
(* "she", the particle of a verb.  Whether it does depends on dictionaries, *)
(* the parse and the config, and is left open.                             *)
(***************************************************************************)

\* get_previous_article: "à la" and "de la" are one.
StartBefore(c, rule) ==
  LET before == c.index - 1
  IN  IF c.index = 1 \/ c.text[before] \notin rule.heads THEN c.index
      ELSE IF TakesPreposition(c.lang, c.text, before) THEN before - 1 ELSE before

\* A filler looks for a comma and a word anywhere behind it, and takes them in as
\* if they came next.
Behind(c, rule) ==
  LET next == c.index + Len(rule.words)
  IN  {Len(tail) : tail \in {t \in rule.tails : MatchesWords(c.text, [words |-> t], next)}}
      \union IF rule.filler /\ \E i \in next .. Len(c.text) - 1 : c.text[i] = "," THEN {2} ELSE {}

\* fetch_article takes the article unless the match begins with it.  A match that
\* began before it begins there now, but keeps its text, and has the article's.
Fronted(c, rule, m) ==
  LET head == StartBefore(c, rule)
  IN  IF head \in {c.index, m.first} THEN m
      ELSE [m EXCEPT !.first = head, !.last = @ + c.index - m.first]

\* Only after the second of two French adjectives the loop goes on behind both.
Widened(c, rule, m) ==
  {[w EXCEPT !.last = @ + n, !.skip = IF rule.skips THEN @ + n ELSE @] :
     w \in {m, Fronted(c, rule, m)}, n \in {0} \union Behind(c, rule)}

\* What rule_check.handle appends for a match m at c.index: the finding, widened
\* to w, and one for the particle of a German verb that is connected to it.
Reported(c, source, m, w, subcategory, alternatives) ==
  {Finding(source, w.first, w.last, c.index .. m.last + w.skip - m.skip, subcategory, alternatives)}
  \union
  {Finding(source, j, j, {j}, subcategory, alternatives) :
     j \in {k \in 1 .. Len(c.text) : IsConnected(c.lang, c.text, c.index, k)}}

\* is_sub_category_enabled, for a rule
Enabled(config, rule) == rule.subcategory \notin config.disabled

\* is_valid_text: one letter is no word, but for "a".
ValidText(word) == word \notin {"stop", ",", "/", "m", "f", "#"}

-----------------------------------------------------------------------------
\* The checks that come before the rules.

\* french_gender_endings: the last token of a French inclusive form at i,
\* "enseignant·e" or the split "enseignant/e/s"; 0 if there is none.
FormEnd(text, i) ==
  LET parts == {k \in 1 .. Len(text) :
                  /\ i + 2 * k <= Len(text)
                  /\ \A j \in 1 .. k : text[i + 2 * j - 1] = "/" /\ text[i + 2 * j] = "part"}
  IN  CASE text[i] = "form" -> i
        [] text[i] = "stem" /\ parts # {} -> i + 2 * Cardinality(parts)
        [] OTHER -> 0

\* Not a form the program knows; already as configured; or written otherwise.
FrenchGenderEndings(c) ==
  LET last == FormEnd(c.text, c.index)
  IN  IF c.lang # "fr" \/ last = 0 THEN {Nothing(c)}
      ELSE {Nothing(c), Outcome(last + 1, {}),
            Found("french form", c.index, last, last + 1)}

FrenchArticles == {"article", "la"}

\* french_doublet: the last token of "les enseignants et les enseignantes",
\* "enseignantes et enseignants" at i; 0 if there is none.
DoubletEnd(text, i) ==
  LET article(k) == k \in 1 .. Len(text) /\ text[k] \in FrenchArticles
      first  == IF article(i) THEN i + 1 ELSE i
      second == IF article(first + 2) THEN first + 3 ELSE first + 2
  IN  IF /\ article(i) \/ ~article(i - 1)
         /\ first + 2 <= Len(text) /\ text[first + 1] = "et"
         /\ second <= Len(text) /\ text[first] # "stop" /\ text[second] # "stop"
         /\ article(first + 2) => article(i)
      THEN second ELSE 0

FrenchDoublets(c) ==
  LET last == DoubletEnd(c.text, c.index)
  IN  IF c.lang # "fr" \/ last = 0 THEN {Nothing(c)}
      ELSE {Nothing(c), Found("french doublet", c.index, last, last + 1)}

\* rule_check.handle with the organization's replacements, which have no pattern.
TermReplacements(c) ==
  {Nothing(c)} \union
  UNION {LET m == Phrase(c.lang, c.text, term, c.index)
         IN  {Outcome(w.skip, Reported(c, "term replacement", m, w, "term replacement", Nobody)) :
                w \in Widened(c, term, m)} :
           term \in {t \in c.config.terms :
                       ValidText(c.text[c.index]) /\ IsPhraseMatch(c.lang, c.text, t, c.index)}}

\* regex_check.handle looks for the end of a form in the token behind it when no
\* space ends it: that token, a full stop, is passed by with the form.
BehindForm(text, last) ==
  IF last = Len(text) \/ text[last + 1] = "stop" THEN last + 2 ELSE last + 1

\* The abbreviations "m/f", "m/f/m": letters with slashes between them.
Abbreviations(c) ==
  LET i == c.index
      letters == {k \in 1 .. Len(c.text) :
                    /\ i + 2 * k <= Len(c.text)
                    /\ \A j \in 1 .. k : c.text[i + 2 * j - 1] = "/" /\ c.text[i + 2 * j] \in {"m", "f"}}
      last == i + 2 * Cardinality(letters)
  IN  IF c.text[i] \notin {"m", "f"} \/ letters = {} THEN {Nothing(c)}
      ELSE {Nothing(c), Found("m/f", i, last, BehindForm(c.text, last))}

\* emoji_check.handle: an emoji with better alternatives, or a run of at least
\* two, which ends with the repetitions of the first if there are any.
EmojiRunEnd(text, i) ==
  LET run(k) ==
        /\ \A j \in i .. k : text[j] \in {"emoji", "smile"}
        /\ \A m, n \in i + 1 .. k : m < n /\ text[m] = text[i] => text[n] = text[i]
  IN  CHOOSE k \in i .. Len(text) : run(k) /\ (k < Len(text) => ~run(k + 1))

Emojis(c) ==
  LET last == EmojiRunEnd(c.text, c.index)
  IN  IF c.text[c.index] \notin {"emoji", "smile"} THEN {Nothing(c)}
      ELSE {Nothing(c), Found("emoji", c.index, c.index, c.index + 1)}
           \union (IF last = c.index THEN {} ELSE {Found("emojis", c.index, last, last + 1)})

\* A hashtag is two tokens, "#" and the word.
Hashtags(c) ==
  LET i == c.index
  IN  IF c.text[i] # "#" \/ i = Len(c.text) THEN {Nothing(c)}
      ELSE {Nothing(c), Found("hashtag", i, i + 1, BehindForm(c.text, i + 1))}

\* In the order of the loop.
EarlyChecks(c) ==
  <<FrenchGenderEndings(c), FrenchDoublets(c), TermReplacements(c),
    Abbreviations(c), Emojis(c), Hashtags(c)>>

-----------------------------------------------------------------------------
\* The rules (rule_check.handle), and what follows them.

\* gendered_form_end: the last token of "Lehrer/innen" at i; 0 for other words.
GenderedFormEnd(lang, text, i) ==
  IF /\ lang = "de" /\ i + 2 <= Len(text)
     /\ text[i + 1] = "/" /\ text[i + 2] = "ending"
  THEN i + 2 ELSE 0

\* on_gendered_form: a finding on the start of such a form is dropped if it
\* offers to gender the word, and else, if the word is one of its ends, widened
\* to the end of the form.
OnGenderedForm(c, rule, o) ==
  LET end == GenderedFormEnd(c.lang, c.text, c.index)
      ToTheEnd(f) == IF c.index \in {f.first, f.last} THEN [f EXCEPT !.last = end] ELSE f
  IN  IF end = 0 THEN o
      ELSE IF rule.gendered THEN Nothing(c)
      ELSE [o EXCEPT !.findings = {ToTheEnd(f) : f \in @}]

\* What a rule that has matched comes to.
MatchOutcomes(c, rule, m, subcategory, alternatives) ==
  {OnGenderedForm(c, rule, Outcome(w.skip, Reported(c, rule.name, m, w, subcategory, alternatives))) :
     w \in Widened(c, rule, m)}

\* The rule that applies, from a list of own Rule objects.
RuleOutcomes(c, rules) ==
  UNION {MatchOutcomes(c, rule, Phrase(c.lang, c.text, rule, c.index),
                       rule.subcategory, c.config.alternatives) :
           rule \in {q \in rules : Enabled(c.config, q) /\ IsPhraseMatch(c.lang, c.text, q, c.index)}}

\* german_gender_endings, found at the slash: "/innen" behind a noun.
GermanGenderEndings(c) ==
  LET i == c.index
  IN  IF /\ c.lang = "de" /\ c.text[i] = "/" /\ i > 1
         /\ GenderedFormEnd(c.lang, c.text, i - 1) # 0
      THEN {Nothing(c), Found("gender ending", i, i + 1, BehindForm(c.text, i + 1))}
      ELSE {Nothing(c)}

\* A token that an earlier verb has been connected to, when the loop was at the verb.
Connected(c) ==
  \E i \in 1 .. c.index - 1 : IsConnected(c.lang, c.text, i, c.index)

-----------------------------------------------------------------------------
\* nlp_session, see NlpSession.

Arrive(r, lang, config, text) ==
  /\ check[r].pc = "idle"
  /\ check' = [check EXCEPT ![r] = [Idle EXCEPT !.pc = "arrived", !.lang = lang,
                                                !.config = config, !.text = text]]
  /\ UNCHANGED <<memory_zones, holder, scratch>>

\* Mutant: the language's lock is not waited for.
Enter_NoLock(r) ==
  /\ check[r].pc = "arrived"
  /\ holder' = IF memory_zones THEN [holder EXCEPT ![check[r].lang] = r] ELSE holder
  /\ check' = [check EXCEPT ![r].pc = "loop"]
  /\ UNCHANGED <<memory_zones, scratch>>

\* With the kill switch there is nothing to wait for.
Enter(r) ==
  /\ check[r].pc = "arrived"
  /\ IF memory_zones
     THEN /\ holder[check[r].lang] = Nobody
          /\ holder' = [holder EXCEPT ![check[r].lang] = r]
     ELSE UNCHANGED holder
  /\ check' = [check EXCEPT ![r].pc = "loop"]
  /\ UNCHANGED <<memory_zones, scratch>>

InSession == {"loop", "suffix", "fetching", "declining", "declined", "checking", "endings"}

Release(r) ==
  holder' = IF memory_zones THEN [holder EXCEPT ![check[r].lang] = Nobody] ELSE holder

\* The texts' end: the findings are plain data, the session is left.
Leave(r) ==
  /\ check[r].pc = "loop" /\ check[r].index > Len(check[r].text)
  /\ Release(r)
  /\ check' = [check EXCEPT ![r].pc = "outside"]
  /\ UNCHANGED <<memory_zones, scratch>>

\* Mutant: an exception leaves the lock taken.
Fails_LockKept(r) ==
  /\ check[r].pc \in InSession
  /\ check' = [check EXCEPT ![r].pc = "failed"]
  /\ UNCHANGED <<memory_zones, holder, scratch>>

\* An exception at an await, a query of the database say: the answer is a 500,
\* and what has been written into a shared rule stays there.
Fails(r) ==
  /\ check[r].pc \in InSession
  /\ Release(r)
  /\ check' = [check EXCEPT ![r].pc = "failed"]
  /\ UNCHANGED <<memory_zones, scratch>>

Answer(r) ==
  /\ check[r].pc \in {"outside", "failed", "crashed"}
  /\ check' = [check EXCEPT ![r] = Idle]
  /\ UNCHANGED <<memory_zones, holder, scratch>>

-----------------------------------------------------------------------------
\* One trip of the loop.

\* Between its awaits a request changes only itself, unless it says so.
Own(r, c) ==
  /\ check' = [check EXCEPT ![r] = c]
  /\ UNCHANGED <<memory_zones, holder, scratch>>

At(r, pc) == check[r].pc = pc /\ check[r].index <= Len(check[r].text)

\* check_continue: only an index behind the token ends the trip.
GoesOn(c, o) == o.next > c.index

With(c, o, pc) ==
  [c EXCEPT !.index = o.next, !.findings = @ \union o.findings, !.pc = pc]

SkipConnected(r) ==
  LET c == check[r]
  IN  /\ At(r, "loop") /\ Connected(c)
      /\ Own(r, [c EXCEPT !.index = @ + 1])

EarlyCheck(r) ==
  LET c == check[r]
  IN  /\ At(r, "loop") /\ ~Connected(c)
      /\ \E k \in 1 .. Len(EarlyChecks(c)) :
           \E o \in EarlyChecks(c)[k] : GoesOn(c, o) /\ Own(r, With(c, o, "loop"))

\* A rule has been found.  If it does not go on behind the token, German tries
\* the suffix rules as well; for the others the loop moves on from there.
RuleFound(r) ==
  LET c == check[r]
  IN  /\ At(r, "loop") /\ ~Connected(c) /\ ValidText(c.text[c.index])
      /\ \E o \in RuleOutcomes(c, RulesOf(c.lang, "default")) :
           Own(r, IF GoesOn(c, o) THEN With(c, o, "loop")
                  ELSE IF c.lang = "de"
                  THEN [With(c, o, "suffix") EXCEPT !.index = c.index]
                  ELSE [With(c, o, "loop") EXCEPT !.index = o.next + 1])

NoRule(r) ==
  LET c == check[r]
  IN  /\ At(r, "loop") /\ ~Connected(c)
      /\ Own(r, [c EXCEPT !.pc = IF c.lang = "de" /\ ValidText(c.text[c.index])
                                 THEN "suffix" ELSE "endings"])

\* The second pass in German: the language's suffix rules, own objects again.
SuffixFound(r) ==
  LET c == check[r]
  IN  /\ At(r, "suffix")
      /\ \E o \in RuleOutcomes(c, RulesOf(c.lang, "suffix")) :
           Own(r, IF GoesOn(c, o) THEN With(c, o, "loop")
                  ELSE [With(c, o, "endings") EXCEPT !.index = c.index])

NoSuffix(r) ==
  /\ At(r, "suffix")
  /\ Own(r, [check[r] EXCEPT !.pc = "endings"])

\* The last check of the trip; then the next token.
Endings(r) ==
  LET c == check[r]
  IN  /\ At(r, "endings")
      /\ \E o \in GermanGenderEndings(c) :
           Own(r, IF GoesOn(c, o) THEN With(c, o, "loop")
                  ELSE [c EXCEPT !.index = @ + 1, !.pc = "loop"])

-----------------------------------------------------------------------------
\* The shared rules, in the second pass: one object for every request.

Write(r, c, rule, value) ==
  /\ check' = [check EXCEPT ![r] = c]
  /\ scratch' = [scratch EXCEPT ![rule] = value]
  /\ UNCHANGED <<memory_zones, holder>>

\* reset, then the subcategory if it is on in this request's config; then the
\* query for the alternatives.  A word holds at most one shared rule.
TrySharedRule(r) ==
  LET c == check[r]
  IN  /\ At(r, "suffix")
      /\ \E rule \in SharedRules :
           /\ rule.lang = c.lang /\ MatchesWords(c.text, rule, c.index)
           /\ IF Enabled(c.config, rule)
              THEN Write(r, [c EXCEPT !.pc = "fetching", !.rule = rule], rule,
                         [scratch[rule] EXCEPT !.subcategory = rule.subcategory])
              ELSE Write(r, [c EXCEPT !.pc = "endings"], rule,
                         [scratch[rule] EXCEPT !.subcategory = NoSubcategory])

\* fetch_rule_alternatives returns; next are the look-ups of the target form.
FetchAlternatives(r) ==
  LET c == check[r]
  IN  /\ At(r, "fetching")
      /\ Write(r, [c EXCEPT !.pc = "declining"], c.rule,
               [scratch[c.rule] EXCEPT !.alternatives = c.config.alternatives])

\* german_gendered_nouns iterates over the alternatives it finds, ...
TakeAlternatives(r) ==
  LET c == check[r]
  IN  /\ At(r, "declining")
      /\ Own(r, [c EXCEPT !.pc = "declined", !.taken = scratch[c.rule].alternatives])

\* ... declines them with more queries, and puts the result back.
PutAlternatives(r) ==
  LET c == check[r]
  IN  /\ At(r, "declined")
      /\ Write(r, [c EXCEPT !.pc = "checking", !.taken = Nobody], c.rule,
               [scratch[c.rule] EXCEPT !.alternatives = c.taken])

\* After the query for false positives the rule is read for the last time; a
\* subcategory of None is an exception.
Report(r) ==
  LET c == check[r]
      s == scratch[c.rule]
      next == c.index + TokenIndexOffset(c.lang, c.text, c.index)
      m == [skip |-> next, first |-> c.index, last |-> c.index]
      done == [c EXCEPT !.rule = Nobody]
  IN  /\ At(r, "checking")
      /\ s.subcategory # NoSubcategory
      /\ \/ Own(r, [done EXCEPT !.pc = "endings"])
         \/ \E o \in MatchOutcomes(c, c.rule, m, s.subcategory, s.alternatives) :
              Own(r, IF GoesOn(c, o) THEN With(done, o, "loop") ELSE [done EXCEPT !.pc = "endings"])

Crash(r) ==
  LET c == check[r]
  IN  /\ At(r, "checking")
      /\ scratch[c.rule].subcategory = NoSubcategory
      /\ Release(r)
      /\ check' = [check EXCEPT ![r].pc = "crashed"]
      /\ UNCHANGED <<memory_zones, scratch>>

-----------------------------------------------------------------------------
Trip(r) ==
  \/ SkipConnected(r) \/ EarlyCheck(r) \/ RuleFound(r) \/ NoRule(r)
  \/ SuffixFound(r) \/ NoSuffix(r) \/ Endings(r)
  \/ TrySharedRule(r) \/ FetchAlternatives(r) \/ TakeAlternatives(r)
  \/ PutAlternatives(r) \/ Report(r) \/ Crash(r)

Next ==
  \E r \in Requests :
    \/ \E asked \in Checks[r] : Arrive(r, asked[1], asked[2], asked[3])
    \/ Enter(r) \/ Trip(r) \/ Leave(r) \/ Fails(r) \/ Answer(r)

Spec == Init /\ [][Next]_vars

\* asyncio.Lock serves its waiters in order; awaits of the database return.
Fairness == \A r \in Requests : SF_vars(Enter(r)) /\ WF_vars(Trip(r) \/ Leave(r))

FairSpec == Spec /\ Fairness

-----------------------------------------------------------------------------
FindingType ==
  [source : STRING, first : Nat, last : Nat, words : SUBSET Nat, subcategory : STRING,
   alternatives : {Nobody} \union {c.alternatives : c \in Configs}]

\* Type invariant; a finding has what it was matched by, and stays in the text.
TypeOK ==
  /\ memory_zones \in BOOLEAN
  /\ holder \in [Langs -> Requests \union {Nobody}]
  /\ \A rule \in SharedRules :
       /\ scratch[rule].subcategory \in {NoSubcategory, rule.subcategory}
       /\ scratch[rule].alternatives \in {Nobody} \union {c.alternatives : c \in Configs}
  /\ \A r \in Requests :
       LET c == check[r]
       IN  /\ c.pc \in InSession \union {"idle", "arrived", "outside", "failed", "crashed"}
           /\ c.index \in 1 .. Len(c.text) + 2
           /\ \A f \in c.findings :
                /\ f \in FindingType
                /\ f.words # {} /\ f.words \subseteq f.first .. f.last
                /\ 1 <= f.first /\ f.last <= Len(c.text)

\* A finding of a rule is as a config asks for it.
OwnTo(config, f) ==
  \A rule \in Rules : f.source = rule.name =>
    /\ f.subcategory = rule.subcategory /\ Enabled(config, rule)
    /\ f.alternatives = config.alternatives

\* What a request finds with a rule is reported under that rule's subcategory,
\* which is on in its own config, with the alternatives of its own config, and
\* no check fails over another request's reset: "Per-request scratch space; must
\* be per-instance" (app/models.py:422).
OwnFindings ==
  \A r \in Requests :
    /\ check[r].pc # "crashed"
    /\ \A f \in check[r].findings : OwnTo(check[r].config, f)

\* Holds as long as nlp_session serializes the checks of a language: neither
\* the scratch space left by a failed check nor a waiting one gets in.
ChecksKeepApart == memory_zones => OwnFindings

Overlap(f, g) == f.first <= g.last /\ g.first <= f.last

\* No token is matched by two findings: "When a rule matches, the involved
\* tokens are skipped for subsequent checks" (docs/technical-notes.md:54), those
\* of the rule and of the pattern behind it, whichever of the checks found them.
\* So two findings overlap only in what one took in besides.
TokensMatchedOnce ==
  \A r \in Requests : \A f, g \in check[r].findings :
    f # g => f.words \intersect g.words = {}

\* "preventing overlapping rules from triggering multiple times"
\* (docs/technical-notes.md:54).  Not so: a finding takes in words around its
\* match that another has matched, or will (Widened, OnGenderedForm, articles
\* in a pattern).
FindingsStandApart ==
  \A r \in Requests : \A f, g \in check[r].findings : f # g => ~Overlap(f, g)

\* A trip passes over a token without any check only if it is part of what has
\* been found or of an inclusive form, glued to one, in between a verb and its
\* particle, or right behind a pattern that has matched nothing before its words.
PassedOver(c, d) == c.index + 1 .. d.index - 1 \cap 1 .. Len(c.text)

Excused(c, d, j) ==
  \/ \E f \in d.findings \ c.findings :
       \/ j \in f.words
       \/ j = f.last + 1 /\ c.text[j] = "stop"
       \/ j = f.last + 1 /\ f.first = c.index /\ \E rule \in Rules :
            rule.name = f.source /\ rule.covers
  \/ c.lang = "fr" /\ j <= FormEnd(c.text, c.index)
  \/ j <= ParticleOf(c.lang, c.text, c.index)

NothingPassedOver ==
  [][\A r \in Requests :
       \A j \in PassedOver(check[r], check'[r]) : Excused(check[r], check'[r], j)]_vars

\* The loop over a text ends, and with it the language's lock is passed on.
LoopEnds == \A r \in Requests : check[r].pc \in InSession ~> check[r].pc \notin InSession

-----------------------------------------------------------------------------
\* The sessions are those of NlpSession; without memory zones there are none.

Stage(c) ==
  CASE c.pc \in InSession -> IF memory_zones THEN "session" ELSE "arrived"
    [] c.pc \in {"failed", "crashed"} -> IF memory_zones THEN "idle" ELSE "outside"
    [] OTHER -> c.pc

AsTask(c) ==
  [pc   |-> Stage(c), kind |-> "check",
   lang |-> IF Stage(c) = "idle" THEN Nobody ELSE c.lang,
   doc  |-> IF Stage(c) = "session" THEN "transient" ELSE "none"]

Session == INSTANCE NlpSession WITH
  Kinds <- {"check"},
  zone <- [l \in Langs |-> holder[l] # Nobody],
  task <- [r \in Requests |-> AsTask(check[r])]

\* Whatever the loop does inside, a check takes and gives back its language's
\* session as NlpSession says.
KeepsSessions == Session!Spec
=============================================================================
