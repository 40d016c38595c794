-------------------------- MODULE WittyRules_proofs --------------------------
(***************************************************************************)
(* The checks of a language do not meet in its shared rules, for any number *)
(* of requests, languages, rules, configs and texts; and the sessions they *)
(* run in are those of NlpSession, step for step.                          *)
(***************************************************************************)
EXTENDS WittyRules, TLAPS

USE DEF NoSubcategory

-----------------------------------------------------------------------------
\* The inductive invariant.

\* The functions and records the actions change fields of.
IsCheck(c) ==
  c = [field \in {"pc", "lang", "config", "text", "index", "findings", "rule", "taken"} |->
         c[field]]

IsScratch(s) == s = [subcategory |-> s.subcategory, alternatives |-> s.alternatives]

InSharedRule == {"fetching", "declining", "declined", "checking"}

Shape ==
  /\ memory_zones \in BOOLEAN
  /\ holder = [l \in Langs |-> holder[l]]
  /\ check = [r \in Requests |-> check[r]]
  /\ scratch = [rule \in SharedRules |-> scratch[rule]]
  /\ \A r \in Requests :
       /\ IsCheck(check[r])
       /\ check[r].pc # "idle" => check[r].lang \in Langs
       /\ check[r].pc \in InSharedRule => check[r].rule \in SharedRules
  /\ \A rule \in SharedRules : IsScratch(scratch[rule])

\* A check in its session holds the lock of its language.
Locked == \A r \in Requests : check[r].pc \in InSession => holder[check[r].lang] = r

\* While a check is in a shared rule, the rule holds what that check has written.
SharedIsOwn ==
  \A r \in Requests : LET c == check[r] IN
    c.pc \in InSharedRule =>
      /\ c.rule.lang = c.lang /\ Enabled(c.config, c.rule)
      /\ scratch[c.rule].subcategory = c.rule.subcategory
      /\ c.pc = "declined" => c.taken = c.config.alternatives
      /\ c.pc \in {"declining", "checking"} =>
           scratch[c.rule].alternatives = c.config.alternatives

Inv == Shape /\ (memory_zones => Locked /\ SharedIsOwn /\ OwnFindings)

-----------------------------------------------------------------------------
\* What the checks report.

\* A finding that is not a rule's is nobody's in particular.
LEMMA OthersAreOwn ==
  ASSUME NEW config, NEW f, f.source \in OtherSources
  PROVE  OwnTo(config, f)
  BY WittyRulesAssumption DEF OwnTo

\* An outcome that finds nothing, or something that is not a rule's.
OtherOutcome(o) ==
  \/ \E n : o = Outcome(n, {})
  \/ \E source \in OtherSources : \E first, last, n : o = Found(source, first, last, n)

LEMMA OtherOutcomes ==
  ASSUME NEW o, OtherOutcome(o), NEW f \in o.findings
  PROVE  f.source \in OtherSources
  <1>1. CASE \E n : o = Outcome(n, {})
    BY <1>1 DEF Outcome
  <1>2. CASE \E source \in OtherSources : \E first, last, n : o = Found(source, first, last, n)
    <2>1. PICK source \in OtherSources : \E first, last, n : o = Found(source, first, last, n)
      BY <1>2
    <2>2. f.source = source
      BY <2>1 DEF Found, Outcome, Finding
    <2> QED
      BY <2>2
  <1> QED
    BY <1>1, <1>2 DEF OtherOutcome

LEMMA EarlyFindingsAreOwn ==
  ASSUME NEW c, NEW k \in 1 .. Len(EarlyChecks(c)), NEW o \in EarlyChecks(c)[k],
         NEW f \in o.findings
  PROVE  f.source \in OtherSources
  <1>1. k \in 1 .. 6
    BY DEF EarlyChecks
  <1>2. CASE o \in FrenchGenderEndings(c)
    <2>1. \/ \E n : o = Outcome(n, {})
          \/ \E m, n, q : o = Found("french form", m, n, q)
      BY <1>2 DEF FrenchGenderEndings, Nothing
    <2>2. OtherOutcome(o)
      BY <2>1 DEF OtherOutcome, OtherSources
    <2> QED
      BY <2>2, OtherOutcomes
  <1>3. CASE o \in FrenchDoublets(c)
    <2>1. \/ \E n : o = Outcome(n, {})
          \/ \E m, n, q : o = Found("french doublet", m, n, q)
      BY <1>3 DEF FrenchDoublets, Nothing
    <2>2. OtherOutcome(o)
      BY <2>1 DEF OtherOutcome, OtherSources
    <2> QED
      BY <2>2, OtherOutcomes
  <1>4. CASE o \in TermReplacements(c)
    <2>1. \/ \E n : o = Outcome(n, {})
          \/ \E m, w, q, s : o = Outcome(q, Reported(c, "term replacement", m, w, s, Nobody))
      BY <1>4 DEF TermReplacements, Nothing
    <2>2. \/ \E n : o = Outcome(n, {})
          \/ \E source \in OtherSources : \E m, w, q, s : o = Outcome(q, Reported(c, source, m, w, s, Nobody))
      BY <2>1 DEF OtherSources
    <2> QED
      BY <2>2 DEF Outcome, Reported, Finding
  <1>5. CASE o \in Abbreviations(c)
    <2>1. \/ \E n : o = Outcome(n, {})
          \/ \E m, n, q : o = Found("m/f", m, n, q)
      BY <1>5 DEF Abbreviations, Nothing
    <2>2. OtherOutcome(o)
      BY <2>1 DEF OtherOutcome, OtherSources
    <2> QED
      BY <2>2, OtherOutcomes
  <1>6. CASE o \in Emojis(c)
    <2>1. \/ \E n : o = Outcome(n, {})
          \/ \E m, n, q : o = Found("emoji", m, n, q)
          \/ \E m, n, q : o = Found("emojis", m, n, q)
      BY <1>6 DEF Emojis, Nothing
    <2>2. OtherOutcome(o)
      BY <2>1 DEF OtherOutcome, OtherSources
    <2> QED
      BY <2>2, OtherOutcomes
  <1>7. CASE o \in Hashtags(c)
    <2>1. \/ \E n : o = Outcome(n, {})
          \/ \E m, n, q : o = Found("hashtag", m, n, q)
      BY <1>7 DEF Hashtags, Nothing
    <2>2. OtherOutcome(o)
      BY <2>1 DEF OtherOutcome, OtherSources
    <2> QED
      BY <2>2, OtherOutcomes
  <1> QED
    BY <1>1, <1>2, <1>3, <1>4, <1>5, <1>6, <1>7 DEF EarlyChecks

\* What is appended for a match, the particle's finding included, is of one rule;
\* on_gendered_form drops it or widens it, and changes nothing else.
LEMMA GenderedFormsKeepFindings ==
  ASSUME NEW c, NEW rule, NEW n, NEW source, NEW m, NEW w, NEW subcategory, NEW alternatives,
         NEW f \in OnGenderedForm(c, rule,
                     Outcome(n, Reported(c, source, m, w, subcategory, alternatives))).findings
  PROVE  f.source = source /\ f.subcategory = subcategory /\ f.alternatives = alternatives
  <1>1. ASSUME NEW g \in Reported(c, source, m, w, subcategory, alternatives)
        PROVE  g.source = source /\ g.subcategory = subcategory /\ g.alternatives = alternatives
               /\ g = [source |-> g.source, first |-> g.first, last |-> g.last, words |-> g.words,
                       subcategory |-> g.subcategory, alternatives |-> g.alternatives]
    BY DEF Reported, Finding
  <1>2. \E g \in Reported(c, source, m, w, subcategory, alternatives) :
          f = g \/ \E end : f = [g EXCEPT !.last = end]
    BY DEF OnGenderedForm, Outcome, Nothing
  <1> QED
    BY <1>1, <1>2

\* However far a match is widened, it is reported as the rule's.
LEMMA MatchFindings ==
  ASSUME NEW c, NEW rule, NEW m, NEW subcategory, NEW alternatives,
         NEW o \in MatchOutcomes(c, rule, m, subcategory, alternatives), NEW f \in o.findings
  PROVE  f.source = rule.name /\ f.subcategory = subcategory /\ f.alternatives = alternatives
  <1>1. PICK w \in Widened(c, rule, m) :
          o = OnGenderedForm(c, rule,
                Outcome(w.skip, Reported(c, rule.name, m, w, subcategory, alternatives)))
    BY DEF MatchOutcomes
  <1> QED
    BY <1>1, GenderedFormsKeepFindings

\* A rule reports for the config it is checked with.
LEMMA RuleFindingsAreOwn ==
  ASSUME NEW c, NEW rules \in SUBSET Rules, NEW o \in RuleOutcomes(c, rules), NEW f \in o.findings
  PROVE  OwnTo(c.config, f)
  <1>1. PICK rule \in rules :
          /\ Enabled(c.config, rule)
          /\ o \in MatchOutcomes(c, rule, Phrase(c.lang, c.text, rule, c.index),
                                 rule.subcategory, c.config.alternatives)
    BY DEF RuleOutcomes
  <1>2. /\ f.source = rule.name /\ f.subcategory = rule.subcategory
        /\ f.alternatives = c.config.alternatives
    BY <1>1, MatchFindings
  <1> QED
    BY <1>1, <1>2, WittyRulesAssumption DEF OwnTo

LEMMA EndingsAreOwn ==
  ASSUME NEW c, NEW o \in GermanGenderEndings(c), NEW f \in o.findings
  PROVE  f.source \in OtherSources
  <1>1. \/ \E n : o = Outcome(n, {})
        \/ \E m, n, q : o = Found("gender ending", m, n, q)
    BY DEF GermanGenderEndings, Nothing
  <1>2. OtherOutcome(o)
    BY <1>1 DEF OtherOutcome, OtherSources
  <1> QED
    BY <1>2, OtherOutcomes

-----------------------------------------------------------------------------
\* The steps.

\* A step inside a session that writes the check alone, and is in no shared rule.
LEMMA OwnKeeps ==
  ASSUME Inv, NEW r \in Requests, NEW c, check[r].pc \in InSession, Own(r, c), IsCheck(c),
         c.lang = check[r].lang, c.config = check[r].config,
         c.pc \in {"loop", "suffix", "endings"},
         memory_zones => \A f \in c.findings : OwnTo(c.config, f)
  PROVE  Inv'
  <1>1. /\ check' = [q \in Requests |-> IF q = r THEN c ELSE check[q]]
        /\ UNCHANGED <<memory_zones, holder, scratch>>
    BY DEF Own, Inv, Shape
  <1>2. check[r].lang \in Langs
    BY DEF Inv, Shape, InSession
  <1>3. Shape'
    BY <1>1, <1>2 DEF Inv, Shape, IsCheck, IsScratch, InSharedRule
  <1>4. ASSUME memory_zones  PROVE Locked'
    BY <1>1, <1>4 DEF Inv, Locked
  <1>5. ASSUME memory_zones  PROVE SharedIsOwn'
    BY <1>1, <1>5 DEF Inv, SharedIsOwn, InSharedRule, Enabled
  <1>6. ASSUME memory_zones  PROVE OwnFindings'
    BY <1>1, <1>6 DEF Inv, OwnFindings, OwnTo, Enabled
  <1> QED
    BY <1>1, <1>3, <1>4, <1>5, <1>6 DEF Inv

\* A step that writes a shared rule: no other check of the language is in it.
LEMMA WriteKeeps ==
  ASSUME Inv, NEW r \in Requests, NEW c, NEW rule \in SharedRules, NEW value,
         check[r].pc \in InSession, Write(r, c, rule, value),
         IsCheck(c), IsScratch(value), c.pc \in InSession,
         c.lang = check[r].lang, c.config = check[r].config, c.findings = check[r].findings,
         memory_zones => rule.lang = c.lang,
         c.pc \in InSharedRule => c.rule = rule,
         memory_zones /\ c.pc \in InSharedRule =>
           /\ Enabled(c.config, rule)
           /\ value.subcategory = rule.subcategory
           /\ c.pc = "declined" => c.taken = c.config.alternatives
           /\ c.pc \in {"declining", "checking"} => value.alternatives = c.config.alternatives
  PROVE  Inv'
  <1>1. /\ check' = [q \in Requests |-> IF q = r THEN c ELSE check[q]]
        /\ scratch' = [q \in SharedRules |-> IF q = rule THEN value ELSE scratch[q]]
        /\ UNCHANGED <<memory_zones, holder>>
    BY DEF Write, Inv, Shape
  <1>2. check[r].lang \in Langs
    BY DEF Inv, Shape, InSession
  <1>3. Shape'
    BY <1>1, <1>2 DEF Inv, Shape, IsCheck, IsScratch, InSharedRule
  <1>4. ASSUME memory_zones  PROVE Locked'
    BY <1>1, <1>4 DEF Inv, Locked
  <1>5. ASSUME memory_zones  PROVE SharedIsOwn'
    <2> SUFFICES ASSUME NEW q \in Requests, check'[q].pc \in InSharedRule
                 PROVE  LET d == check'[q] IN
                          /\ d.rule.lang = d.lang /\ Enabled(d.config, d.rule)
                          /\ scratch'[d.rule].subcategory = d.rule.subcategory
                          /\ d.pc = "declined" => d.taken = d.config.alternatives
                          /\ d.pc \in {"declining", "checking"} =>
                               scratch'[d.rule].alternatives = d.config.alternatives
      BY DEF SharedIsOwn, Enabled
    <2>1. CASE q = r
      BY <1>1, <1>5, <2>1
    <2>2. CASE q # r
      <3>1. check'[q] = check[q] /\ check[q].pc \in InSession
        BY <1>1, <2>2 DEF InSharedRule, InSession
      <3>2. holder[check[q].lang] = q /\ holder[check[r].lang] = r
        BY <1>5, <3>1 DEF Inv, Locked
      <3>3. check[q].rule # rule
        BY <1>5, <2>2, <3>1, <3>2 DEF Inv, SharedIsOwn
      <3>4. scratch'[check[q].rule] = scratch[check[q].rule]
        BY <1>1, <3>1, <3>3 DEF Inv, Shape
      <3> QED
        BY <1>5, <3>1, <3>4 DEF Inv, SharedIsOwn
    <2> QED
      BY <2>1, <2>2
  <1>6. ASSUME memory_zones  PROVE OwnFindings'
    BY <1>1, <1>6 DEF Inv, OwnFindings, OwnTo, Enabled, InSession
  <1> QED
    BY <1>1, <1>3, <1>4, <1>5, <1>6 DEF Inv

\* A check ends, one way or another: its language's lock is free again.
LEMMA ReleaseKeeps ==
  ASSUME Inv, NEW r \in Requests, NEW pc, check[r].pc \in InSession, Release(r),
         check' = [check EXCEPT ![r].pc = pc],
         pc \in {"outside", "failed"} \/ (~memory_zones /\ pc = "crashed"),
         UNCHANGED <<memory_zones, scratch>>
  PROVE  Inv'
  <1> DEFINE c == [check[r] EXCEPT !.pc = pc]
  <1>1. check' = [q \in Requests |-> IF q = r THEN c ELSE check[q]]
    BY DEF Inv, Shape
  <1>2. check[r].lang \in Langs /\ IsCheck(check[r])
    BY DEF Inv, Shape, InSession
  <1>3. /\ IsCheck(c) /\ c.pc = pc
        /\ c.lang = check[r].lang /\ c.config = check[r].config /\ c.findings = check[r].findings
    BY <1>2 DEF IsCheck
  <1> HIDE DEF c
  <1>a. holder' = [l \in Langs |-> holder'[l]]
    BY DEF Inv, Shape, Release
  <1>b. \A q \in Requests : check'[q] = IF q = r THEN c ELSE check[q]
    BY <1>1
  <1>c. c.pc \notin InSharedRule
    BY <1>3 DEF InSharedRule
  <1>4. Shape'
    <2>1. ASSUME NEW q \in Requests
          PROVE  /\ IsCheck(check'[q])
                 /\ check'[q].pc # "idle" => check'[q].lang \in Langs
                 /\ check'[q].pc \in InSharedRule => check'[q].rule \in SharedRules
      BY <1>2, <1>3, <1>b, <1>c DEF Inv, Shape
    <2> QED
      BY <1>1, <1>a, <2>1 DEF Inv, Shape, IsCheck, IsScratch
  <1>5. ASSUME memory_zones  PROVE Locked'
    <2> SUFFICES ASSUME NEW q \in Requests, check'[q].pc \in InSession
                 PROVE  holder'[check'[q].lang] = q
      BY DEF Locked
    <2>1. q # r
      BY <1>1, <1>3, <1>5 DEF InSession
    <2>2. check'[q] = check[q] /\ holder[check[q].lang] = q /\ holder[check[r].lang] = r
      BY <1>1, <1>5, <2>1 DEF Inv, Locked
    <2> QED
      BY <1>5, <2>1, <2>2 DEF Release, Inv, Shape
  <1>6. ASSUME memory_zones  PROVE SharedIsOwn'
    BY <1>1, <1>3, <1>6 DEF Inv, SharedIsOwn, InSharedRule, Enabled
  <1>7. ASSUME memory_zones  PROVE OwnFindings'
    BY <1>1, <1>3, <1>7 DEF Inv, OwnFindings, OwnTo, Enabled, InSession
  <1> QED
    BY <1>4, <1>5, <1>6, <1>7 DEF Inv

-----------------------------------------------------------------------------
\* One step per action.

\* What is known of a check inside its session.
LEMMA InsideFacts ==
  ASSUME Inv, NEW r \in Requests, check[r].pc \in InSession
  PROVE  /\ IsCheck(check[r]) /\ check[r].lang \in Langs
         /\ memory_zones => \A f \in check[r].findings : OwnTo(check[r].config, f)
  BY DEF Inv, Shape, OwnFindings, InSession

\* An outcome of the check's own keeps its findings its own.
LEMMA OutcomeKeeps ==
  ASSUME Inv, NEW r \in Requests, NEW o, NEW pc \in {"loop", "suffix", "endings"}, NEW index,
         check[r].pc \in InSession,
         \A f \in o.findings : OwnTo(check[r].config, f),
         Own(r, [With(check[r], o, pc) EXCEPT !.index = index])
  PROVE  Inv'
  <1> DEFINE d == [With(check[r], o, pc) EXCEPT !.index = index]
  <1>0. IsCheck(check[r])
    BY InsideFacts
  <1>1. /\ IsCheck(d) /\ d.lang = check[r].lang /\ d.config = check[r].config /\ d.pc = pc
        /\ d.findings = check[r].findings \union o.findings
    BY <1>0 DEF With, IsCheck
  <1>2. memory_zones => \A f \in d.findings : OwnTo(d.config, f)
    BY <1>1, InsideFacts
  <1>3. Own(r, d)
    OBVIOUS
  <1> HIDE DEF d
  <1> QED
    BY ONLY <1>1, <1>2, <1>3, Inv, r \in Requests, pc \in {"loop", "suffix", "endings"},
            check[r].pc \in InSession, OwnKeeps

\* Going on at what the outcome says, or only at another place.
LEMMA OutcomesKeep ==
  ASSUME Inv, NEW r \in Requests, NEW o, NEW pc \in {"loop", "suffix", "endings"},
         check[r].pc \in InSession,
         \A f \in o.findings : OwnTo(check[r].config, f),
         Own(r, With(check[r], o, pc))
  PROVE  Inv'
  <1>0. IsCheck(check[r])
    BY InsideFacts
  <1>1. With(check[r], o, pc) = [With(check[r], o, pc) EXCEPT !.index = o.next]
    BY <1>0 DEF With, IsCheck
  <1>2. Own(r, [With(check[r], o, pc) EXCEPT !.index = o.next])
    BY <1>1
  <1> QED
    BY <1>2, OutcomeKeeps

LEMMA MoveKeeps ==
  ASSUME Inv, NEW r \in Requests, NEW pc \in {"loop", "suffix", "endings"}, NEW index,
         check[r].pc \in InSession,
         Own(r, [check[r] EXCEPT !.index = index, !.pc = pc])
  PROVE  Inv'
  <1>1. [check[r] EXCEPT !.index = index, !.pc = pc]
          = [With(check[r], Outcome(index, {}), pc) EXCEPT !.index = index]
    BY InsideFacts DEF With, IsCheck, Outcome
  <1>2. \A f \in Outcome(index, {}).findings : OwnTo(check[r].config, f)
    BY DEF Outcome
  <1> QED
    BY <1>1, <1>2, OutcomeKeeps

LEMMA ArriveKeeps ==
  ASSUME Inv, NEW r \in Requests, NEW asked \in Checks[r], Arrive(r, asked[1], asked[2], asked[3])
  PROVE  Inv'
  <1> DEFINE c == [Idle EXCEPT !.pc = "arrived", !.lang = asked[1],
                               !.config = asked[2], !.text = asked[3]]
  <1>1. /\ check' = [q \in Requests |-> IF q = r THEN c ELSE check[q]]
        /\ UNCHANGED <<memory_zones, holder, scratch>>
    BY DEF Inv, Shape, Arrive
  <1>2. asked[1] \in Langs
    BY WittyRulesAssumption
  <1>3. /\ IsCheck(c) /\ c.pc = "arrived" /\ c.lang \in Langs /\ c.findings = {}
    <2>1. IsCheck(Idle) /\ Idle.findings = {}
      BY DEF Idle, IsCheck
    <2> QED
      BY <1>2, <2>1 DEF IsCheck
  <1> HIDE DEF c
  <1>4. Shape'
    BY <1>1, <1>3 DEF Inv, Shape, IsCheck, IsScratch, InSharedRule
  <1>5. memory_zones => Locked' /\ SharedIsOwn'
    BY <1>1, <1>3 DEF Inv, Locked, SharedIsOwn, InSharedRule, InSession, Enabled
  <1>6. memory_zones => OwnFindings'
    BY <1>1, <1>3 DEF Inv, OwnFindings, OwnTo, Enabled
  <1> QED
    BY <1>1, <1>4, <1>5, <1>6 DEF Inv

LEMMA EnterKeeps ==
  ASSUME Inv, NEW r \in Requests, Enter(r)
  PROVE  Inv'
  <1> DEFINE c == [check[r] EXCEPT !.pc = "loop"]
  <1>1. /\ check' = [q \in Requests |-> IF q = r THEN c ELSE check[q]]
        /\ UNCHANGED <<memory_zones, scratch>>
    BY DEF Inv, Shape, Enter
  <1>2. IsCheck(check[r]) /\ check[r].lang \in Langs /\ check[r].pc = "arrived"
    BY DEF Inv, Shape, Enter
  <1>3. /\ IsCheck(c) /\ c.pc = "loop"
        /\ c.lang = check[r].lang /\ c.config = check[r].config /\ c.findings = check[r].findings
    BY <1>2 DEF IsCheck
  <1> HIDE DEF c
  <1>a. holder' = [l \in Langs |-> holder'[l]]
    BY DEF Inv, Shape, Enter
  <1>4. Shape'
    BY <1>1, <1>2, <1>3, <1>a DEF Inv, Shape, IsCheck, IsScratch, InSharedRule
  <1>5. ASSUME memory_zones  PROVE Locked'
    <2> SUFFICES ASSUME NEW q \in Requests, check'[q].pc \in InSession
                 PROVE  holder'[check'[q].lang] = q
      BY DEF Locked
    <2>1. /\ holder[check[r].lang] = Nobody
          /\ holder' = [l \in Langs |-> IF l = check[r].lang THEN r ELSE holder[l]]
      BY <1>5 DEF Enter, Inv, Shape
    <2>2. CASE q = r
      BY <1>1, <1>2, <1>3, <2>1, <2>2
    <2>3. CASE q # r
      <3>1. check'[q] = check[q] /\ holder[check[q].lang] = q /\ check[q].lang \in Langs
        BY <1>1, <1>5, <2>3 DEF Inv, Locked, Shape, InSession
      <3> QED
        BY <2>1, <3>1, WittyRulesAssumption
    <2> QED
      BY <2>2, <2>3
  <1>6. ASSUME memory_zones  PROVE SharedIsOwn'
    BY <1>1, <1>3, <1>6 DEF Inv, SharedIsOwn, InSharedRule, Enabled
  <1>7. ASSUME memory_zones  PROVE OwnFindings'
    BY <1>1, <1>2, <1>3, <1>7 DEF Inv, OwnFindings, OwnTo, Enabled
  <1> QED
    BY <1>1, <1>4, <1>5, <1>6, <1>7 DEF Inv

LEMMA AnswerKeeps ==
  ASSUME Inv, NEW r \in Requests, Answer(r)
  PROVE  Inv'
  <1>1. /\ check' = [q \in Requests |-> IF q = r THEN Idle ELSE check[q]]
        /\ UNCHANGED <<memory_zones, holder, scratch>>
    BY DEF Inv, Shape, Answer
  <1>2. IsCheck(Idle) /\ Idle.pc = "idle" /\ Idle.findings = {}
    BY DEF IsCheck, Idle
  <1>3. Shape'
    BY <1>1, <1>2 DEF Inv, Shape, IsCheck, IsScratch, InSharedRule
  <1>4. memory_zones => Locked' /\ SharedIsOwn'
    BY <1>1, <1>2 DEF Inv, Locked, SharedIsOwn, InSharedRule, InSession, Enabled
  <1>5. memory_zones => OwnFindings'
    BY <1>1, <1>2 DEF Inv, OwnFindings, OwnTo, Enabled
  <1> QED
    BY <1>1, <1>3, <1>4, <1>5 DEF Inv

LEMMA EarlyCheckKeeps ==
  ASSUME Inv, NEW r \in Requests, EarlyCheck(r)
  PROVE  Inv'
  <1>0. PICK k \in 1 .. Len(EarlyChecks(check[r])) :
          \E o \in EarlyChecks(check[r])[k] : Own(r, With(check[r], o, "loop"))
    BY DEF EarlyCheck
  <1>1. PICK o \in EarlyChecks(check[r])[k] : Own(r, With(check[r], o, "loop"))
    BY <1>0
  <1>2. \A f \in o.findings : OwnTo(check[r].config, f)
    BY <1>1, EarlyFindingsAreOwn, OthersAreOwn
  <1>3. check[r].pc \in InSession
    BY DEF EarlyCheck, At, InSession
  <1> QED
    BY <1>1, <1>2, <1>3, OutcomesKeep

LEMMA RuleFoundKeeps ==
  ASSUME Inv, NEW r \in Requests, RuleFound(r)
  PROVE  Inv'
  <1>1. PICK o \in RuleOutcomes(check[r], RulesOf(check[r].lang, "default")) :
          Own(r, IF GoesOn(check[r], o) THEN With(check[r], o, "loop")
                 ELSE IF check[r].lang = "de"
                 THEN [With(check[r], o, "suffix") EXCEPT !.index = check[r].index]
                 ELSE [With(check[r], o, "loop") EXCEPT !.index = o.next + 1])
    BY DEF RuleFound
  <1>2. RulesOf(check[r].lang, "default") \in SUBSET Rules
    BY DEF RulesOf
  <1>3. \A f \in o.findings : OwnTo(check[r].config, f)
    BY <1>1, <1>2, RuleFindingsAreOwn
  <1>4. check[r].pc \in InSession
    BY DEF RuleFound, At, InSession
  <1>5. \/ Own(r, With(check[r], o, "loop"))
        \/ \E pc \in {"loop", "suffix"} : \E index :
             Own(r, [With(check[r], o, pc) EXCEPT !.index = index])
    BY <1>1
  <1> QED
    BY <1>3, <1>4, <1>5, OutcomesKeep, OutcomeKeeps

LEMMA SuffixFoundKeeps ==
  ASSUME Inv, NEW r \in Requests, SuffixFound(r)
  PROVE  Inv'
  <1>1. PICK o \in RuleOutcomes(check[r], RulesOf(check[r].lang, "suffix")) :
          Own(r, IF GoesOn(check[r], o) THEN With(check[r], o, "loop")
                 ELSE [With(check[r], o, "endings") EXCEPT !.index = check[r].index])
    BY DEF SuffixFound
  <1>2. RulesOf(check[r].lang, "suffix") \in SUBSET Rules
    BY DEF RulesOf
  <1>3. \A f \in o.findings : OwnTo(check[r].config, f)
    BY <1>1, <1>2, RuleFindingsAreOwn
  <1>4. check[r].pc \in InSession
    BY DEF SuffixFound, At, InSession
  <1>5. \/ Own(r, With(check[r], o, "loop"))
        \/ Own(r, [With(check[r], o, "endings") EXCEPT !.index = check[r].index])
    BY <1>1
  <1> QED
    BY <1>3, <1>4, <1>5, OutcomesKeep, OutcomeKeeps

\* No rule, no suffix, a connected token: the check moves and finds nothing.
LEMMA MovesKeep ==
  ASSUME Inv, NEW r \in Requests, SkipConnected(r) \/ NoRule(r) \/ NoSuffix(r)
  PROVE  Inv'
  <1>1. check[r].pc \in InSession
    BY DEF SkipConnected, NoRule, NoSuffix, At, InSession
  <1>2. IsCheck(check[r])
    BY <1>1, InsideFacts
  <1>3. CASE SkipConnected(r)
    <2>1. Own(r, [check[r] EXCEPT !.index = @ + 1, !.pc = "loop"])
      BY <1>2, <1>3 DEF SkipConnected, At, IsCheck
    <2> QED
      BY <1>1, <2>1, MoveKeeps
  <1>4. CASE NoRule(r) \/ NoSuffix(r)
    <2>1. \E pc \in {"suffix", "endings"} :
            Own(r, [check[r] EXCEPT !.index = check[r].index, !.pc = pc])
      BY <1>2, <1>4 DEF NoRule, NoSuffix, IsCheck
    <2> QED
      BY <1>1, <2>1, MoveKeeps
  <1> QED
    BY <1>3, <1>4

LEMMA EndingsKeep ==
  ASSUME Inv, NEW r \in Requests, Endings(r)
  PROVE  Inv'
  <1>1. PICK o \in GermanGenderEndings(check[r]) :
          Own(r, IF GoesOn(check[r], o) THEN With(check[r], o, "loop")
                 ELSE [check[r] EXCEPT !.index = @ + 1, !.pc = "loop"])
    BY DEF Endings
  <1>2. \A f \in o.findings : OwnTo(check[r].config, f)
    BY EndingsAreOwn, OthersAreOwn
  <1>3. check[r].pc \in InSession
    BY DEF Endings, At, InSession
  <1>4. \/ Own(r, With(check[r], o, "loop"))
        \/ \E index : Own(r, [check[r] EXCEPT !.index = index, !.pc = "loop"])
    BY <1>1
  <1> QED
    BY <1>2, <1>3, <1>4, OutcomesKeep, MoveKeeps

\* A rule that is off leaves its scratch space reset, and the check goes on.
LEMMA TrySharedRuleKeeps ==
  ASSUME Inv, NEW r \in Requests, TrySharedRule(r)
  PROVE  Inv'
  <1>1. check[r].pc \in InSession /\ IsCheck(check[r])
    BY InsideFacts DEF TrySharedRule, At, InSession
  <1>2. PICK rule \in SharedRules :
          /\ rule.lang = check[r].lang
          /\ IF Enabled(check[r].config, rule)
             THEN Write(r, [check[r] EXCEPT !.pc = "fetching", !.rule = rule], rule,
                        [scratch[rule] EXCEPT !.subcategory = rule.subcategory])
             ELSE Write(r, [check[r] EXCEPT !.pc = "endings"], rule,
                        [scratch[rule] EXCEPT !.subcategory = NoSubcategory])
    BY DEF TrySharedRule
  <1>3. IsScratch(scratch[rule])
    BY DEF Inv, Shape
  <1>4. CASE Enabled(check[r].config, rule)
    <2> DEFINE c == [check[r] EXCEPT !.pc = "fetching", !.rule = rule]
               value == [scratch[rule] EXCEPT !.subcategory = rule.subcategory]
    <2>1. Write(r, c, rule, value)
      BY <1>2, <1>4
    <2>3. IsScratch(value) /\ value.subcategory = rule.subcategory
      BY <1>3 DEF IsScratch
    <2>4. /\ IsCheck(c) /\ c.pc = "fetching" /\ c.rule = rule
          /\ c.lang = check[r].lang /\ c.config = check[r].config /\ c.findings = check[r].findings
      BY <1>1 DEF IsCheck
    <2> HIDE DEF c, value
    <2> QED
      BY <1>1, <1>2, <1>4, <2>1, <2>3, <2>4, WriteKeeps DEF InSession
  <1>5. CASE ~Enabled(check[r].config, rule)
    <2> DEFINE c == [check[r] EXCEPT !.pc = "endings"]
               value == [scratch[rule] EXCEPT !.subcategory = NoSubcategory]
    <2>1. Write(r, c, rule, value)
      BY <1>2, <1>5
    <2>2. /\ IsCheck(c) /\ c.pc = "endings"
          /\ c.lang = check[r].lang /\ c.config = check[r].config /\ c.findings = check[r].findings
      BY <1>1 DEF IsCheck
    <2>3. IsScratch(value)
      BY <1>3 DEF IsScratch
    <2> HIDE DEF c, value
    <2> QED
      BY <1>1, <1>2, <2>1, <2>2, <2>3, WriteKeeps DEF InSession, InSharedRule
  <1> QED
    BY <1>4, <1>5

\* What is known of a check inside a shared rule.
LEMMA InRuleFacts ==
  ASSUME Inv, NEW r \in Requests, check[r].pc \in InSharedRule
  PROVE  /\ check[r].pc \in InSession /\ check[r].rule \in SharedRules
         /\ memory_zones =>
              /\ check[r].rule.lang = check[r].lang
              /\ Enabled(check[r].config, check[r].rule)
              /\ scratch[check[r].rule].subcategory = check[r].rule.subcategory
  BY DEF Inv, Shape, SharedIsOwn, InSharedRule, InSession

\* The steps inside a shared rule that write it.
LEMMA SharedWritesKeep ==
  ASSUME Inv, NEW r \in Requests, FetchAlternatives(r) \/ PutAlternatives(r)
  PROVE  Inv'
  <1>1. check[r].pc \in InSharedRule
    BY DEF FetchAlternatives, PutAlternatives, At, InSharedRule
  <1>2. /\ check[r].pc \in InSession /\ check[r].rule \in SharedRules
        /\ IsCheck(check[r]) /\ IsScratch(scratch[check[r].rule])
    BY <1>1, InRuleFacts DEF Inv, Shape
  <1>a. \E pc \in {"declining", "checking"} : \E taken, alternatives :
          /\ Write(r, [check[r] EXCEPT !.pc = pc, !.taken = taken], check[r].rule,
                   [scratch[check[r].rule] EXCEPT !.alternatives = alternatives])
          /\ memory_zones => alternatives = check[r].config.alternatives
    <2>1. CASE FetchAlternatives(r)
      <3>1. [check[r] EXCEPT !.pc = "declining"]
              = [check[r] EXCEPT !.pc = "declining", !.taken = check[r].taken]
        BY <1>2 DEF IsCheck
      <3> QED
        BY <2>1, <3>1 DEF FetchAlternatives
    <2>2. CASE PutAlternatives(r)
      <3>1. memory_zones => check[r].taken = check[r].config.alternatives
        BY <2>2 DEF PutAlternatives, At, Inv, SharedIsOwn, InSharedRule
      <3> QED
        BY <2>2, <3>1 DEF PutAlternatives
    <2> QED
      BY <2>1, <2>2
  <1>b. PICK pc \in {"declining", "checking"} : \E taken, alternatives :
          /\ Write(r, [check[r] EXCEPT !.pc = pc, !.taken = taken], check[r].rule,
                   [scratch[check[r].rule] EXCEPT !.alternatives = alternatives])
          /\ memory_zones => alternatives = check[r].config.alternatives
    BY <1>a
  <1>3. PICK taken, alternatives :
          /\ Write(r, [check[r] EXCEPT !.pc = pc, !.taken = taken], check[r].rule,
                   [scratch[check[r].rule] EXCEPT !.alternatives = alternatives])
          /\ memory_zones => alternatives = check[r].config.alternatives
    BY <1>b
  <1> DEFINE c == [check[r] EXCEPT !.pc = pc, !.taken = taken]
             value == [scratch[check[r].rule] EXCEPT !.alternatives = alternatives]
  <1>4. Write(r, c, check[r].rule, value)
    BY <1>3
  <1>5. /\ IsCheck(c) /\ c.pc = pc /\ c.rule = check[r].rule
        /\ c.lang = check[r].lang /\ c.config = check[r].config /\ c.findings = check[r].findings
    BY <1>2 DEF IsCheck
  <1>6. /\ IsScratch(value) /\ value.alternatives = alternatives
        /\ value.subcategory = scratch[check[r].rule].subcategory
    BY <1>2 DEF IsScratch
  <1> HIDE DEF c, value
  <1>7. c.pc \in InSession /\ c.pc # "declined"
    BY <1>3, <1>5 DEF InSession
  <1> QED
    BY <1>1, <1>2, <1>3, <1>4, <1>5, <1>6, <1>7, InRuleFacts, WriteKeeps

\* What german_gendered_nouns takes is what this check's query has put there.
LEMMA TakeKeeps ==
  ASSUME Inv, NEW r \in Requests, TakeAlternatives(r)
  PROVE  Inv'
  <1> DEFINE rule == check[r].rule
             c == [check[r] EXCEPT !.pc = "declined", !.taken = scratch[rule].alternatives]
  <1>1. check[r].pc = "declining" /\ check[r].pc \in InSharedRule
    BY DEF TakeAlternatives, At, InSharedRule
  <1>2. /\ check[r].pc \in InSession /\ rule \in SharedRules
        /\ IsCheck(check[r]) /\ IsScratch(scratch[rule])
    BY <1>1, InRuleFacts DEF Inv, Shape
  <1>3. memory_zones => scratch[rule].alternatives = check[r].config.alternatives
    BY <1>1 DEF Inv, SharedIsOwn
  <1>4. Write(r, c, rule, scratch[rule])
    BY <1>2 DEF TakeAlternatives, Own, Write, Inv, Shape
  <1>5. /\ IsCheck(c) /\ c.pc = "declined" /\ c.rule = rule
        /\ c.taken = scratch[rule].alternatives
        /\ c.lang = check[r].lang /\ c.config = check[r].config /\ c.findings = check[r].findings
    BY <1>2 DEF IsCheck
  <1> HIDE DEF c
  <1> QED
    BY <1>1, <1>2, <1>3, <1>4, <1>5, InRuleFacts, WriteKeeps DEF InSession

\* The finding is of the check's own config.
LEMMA ReportKeeps ==
  ASSUME Inv, NEW r \in Requests, Report(r)
  PROVE  Inv'
  <1> DEFINE c == check[r]
             s == scratch[c.rule]
             next == c.index + TokenIndexOffset(c.lang, c.text, c.index)
             m == [skip |-> next, first |-> c.index, last |-> c.index]
             outcomes == MatchOutcomes(c, c.rule, m, s.subcategory, s.alternatives)
             done == [c EXCEPT !.rule = Nobody]
  <1>1. c.pc = "checking" /\ c.pc \in InSharedRule
    BY DEF Report, At, InSharedRule
  <1>2. c.pc \in InSession /\ c.rule \in SharedRules /\ c.rule \in Rules /\ IsCheck(c)
    BY <1>1, InRuleFacts DEF Inv, Shape, SharedRules
  <1>3. memory_zones => \A o \in outcomes : \A f \in o.findings : OwnTo(c.config, f)
    <2> SUFFICES ASSUME memory_zones, NEW o \in outcomes, NEW f \in o.findings
                 PROVE  OwnTo(c.config, f)
      OBVIOUS
    <2>1. /\ f.source = c.rule.name /\ f.subcategory = s.subcategory
          /\ f.alternatives = s.alternatives
      BY MatchFindings
    <2>2. /\ s.subcategory = c.rule.subcategory /\ s.alternatives = c.config.alternatives
          /\ Enabled(c.config, c.rule)
      BY <1>1 DEF Inv, SharedIsOwn
    <2> QED
      BY <1>2, <2>1, <2>2, WittyRulesAssumption DEF OwnTo
  <1>4. memory_zones => \A f \in c.findings : OwnTo(c.config, f)
    BY <1>2, InsideFacts
  <1>5. \/ Own(r, [done EXCEPT !.pc = "endings"])
        \/ \E o \in outcomes : Own(r, With(done, o, "loop"))
    BY DEF Report
  <1> HIDE DEF outcomes
  <1>6. CASE Own(r, [done EXCEPT !.pc = "endings"])
    <2> DEFINE d == [done EXCEPT !.pc = "endings"]
    <2>1. /\ IsCheck(d) /\ d.pc = "endings" /\ d.lang = c.lang /\ d.config = c.config
          /\ d.findings = c.findings
      BY <1>2 DEF IsCheck
    <2>2. Own(r, d)
      BY <1>6
    <2> HIDE DEF d
    <2> QED
      BY <1>2, <1>4, <2>1, <2>2, OwnKeeps
  <1>7. CASE \E o \in outcomes : Own(r, With(done, o, "loop"))
    <2>0. PICK o \in outcomes : Own(r, With(done, o, "loop"))
      BY <1>7
    <2> DEFINE d == With(done, o, "loop")
    <2>1. /\ IsCheck(d) /\ d.pc = "loop" /\ d.lang = c.lang /\ d.config = c.config
          /\ d.findings = c.findings \union o.findings
      BY <1>2 DEF IsCheck, With
    <2>2. Own(r, d)
      BY <2>0
    <2> HIDE DEF d
    <2>3. memory_zones => \A f \in d.findings : OwnTo(d.config, f)
      BY <1>3, <1>4, <2>0, <2>1
    <2> QED
      BY <1>2, <2>1, <2>2, <2>3, OwnKeeps
  <1> QED
    BY <1>5, <1>6, <1>7

\* No check finds its rule reset by another one.
LEMMA EndsKeep ==
  ASSUME Inv, NEW r \in Requests, Leave(r) \/ Fails(r) \/ Crash(r)
  PROVE  Inv'
  <1>1. CASE Leave(r)
    <2>1. /\ check[r].pc \in InSession /\ Release(r)
          /\ check' = [check EXCEPT ![r].pc = "outside"]
          /\ UNCHANGED <<memory_zones, scratch>>
      BY <1>1 DEF Leave, InSession
    <2> QED
      BY <2>1, ReleaseKeeps
  <1>2. CASE Fails(r)
    BY <1>2, ReleaseKeeps DEF Fails
  <1>3. CASE Crash(r)
    <2>1. check[r].pc \in InSharedRule /\ scratch[check[r].rule].subcategory = NoSubcategory
      BY <1>3 DEF Crash, At, InSharedRule
    <2>2. check[r].pc \in InSession /\ check[r].rule \in Rules
      BY <2>1, InRuleFacts DEF SharedRules
    <2>3. ~memory_zones
      BY <2>1, <2>2, InRuleFacts, WittyRulesAssumption
    <2> QED
      BY <1>3, <2>2, <2>3, ReleaseKeeps DEF Crash
  <1> QED
    BY <1>1, <1>2, <1>3

-----------------------------------------------------------------------------
LEMMA InitGivesInv == Init => Inv
  <1> SUFFICES ASSUME Init  PROVE Inv
    OBVIOUS
  <1>1. IsCheck(Idle) /\ Idle.pc = "idle" /\ Idle.findings = {}
    BY DEF Idle, IsCheck
  <1>2. Shape
    BY <1>1, WittyRulesAssumption DEF Init, Shape, IsScratch, InSharedRule
  <1>3. Locked /\ SharedIsOwn /\ OwnFindings
    BY <1>1 DEF Init, Locked, SharedIsOwn, OwnFindings, InSession, InSharedRule
  <1> QED
    BY <1>2, <1>3 DEF Inv

LEMMA StepKeepsInv == Inv /\ [Next]_vars => Inv'
  <1> SUFFICES ASSUME Inv, [Next]_vars  PROVE Inv'
    OBVIOUS
  <1>1. CASE UNCHANGED vars
    BY <1>1 DEF vars, Inv, Shape, Locked, SharedIsOwn, OwnFindings, OwnTo, Enabled,
                IsCheck, IsScratch
  <1>2. CASE Next
    <2>1. PICK r \in Requests :
            \/ \E asked \in Checks[r] : Arrive(r, asked[1], asked[2], asked[3])
            \/ Enter(r) \/ Trip(r) \/ Leave(r) \/ Fails(r) \/ Answer(r)
      BY <1>2 DEF Next
    <2>2. CASE Trip(r)
      BY <2>2, MovesKeep, EarlyCheckKeeps, RuleFoundKeeps, SuffixFoundKeeps, EndingsKeep,
         TrySharedRuleKeeps, SharedWritesKeep, TakeKeeps, ReportKeeps, EndsKeep DEF Trip
    <2> QED
      BY <2>1, <2>2, ArriveKeeps, EnterKeeps, EndsKeep, AnswerKeeps
  <1> QED
    BY <1>1, <1>2

\* What a request finds with a rule is reported as its own config asks for it, and
\* no check fails over the reset of another, as long as nlp_session (model.py:103)
\* serializes the checks of a language: whatever the requests, rules and texts.
THEOREM ChecksStayApart == Spec => []ChecksKeepApart
  <1>1. Inv => ChecksKeepApart
    BY DEF Inv, ChecksKeepApart
  <1> QED
    BY <1>1, InitGivesInv, StepKeepsInv, PTL DEF Spec
-----------------------------------------------------------------------------
\* The task of NlpSession that each request is, and the zones that are open.
Tasks == [r \in Requests |-> AsTask(check[r])]
Zones == [l \in Langs |-> holder[l] # Nobody]

\* A step inside a trip, seen from outside: the check is still in its session.
StaysInside(r) ==
  /\ check[r].pc \in InSession
  /\ check'[r].pc \in InSession /\ check'[r].lang = check[r].lang
  /\ \A q \in Requests \ {r} : check'[q] = check[q]
  /\ UNCHANGED <<memory_zones, holder>>

LEMMA OwnChanges ==
  ASSUME Inv, NEW r \in Requests, NEW c, Own(r, c) \/ \E rule, value : Write(r, c, rule, value)
  PROVE  /\ check'[r] = c
         /\ \A q \in Requests \ {r} : check'[q] = check[q]
         /\ UNCHANGED <<memory_zones, holder>>
  BY DEF Own, Write, Inv, Shape

LEMMA WithFacts ==
  ASSUME NEW c, NEW o, NEW pc, IsCheck(c)
  PROVE  /\ IsCheck(With(c, o, pc)) /\ With(c, o, pc).pc = pc /\ With(c, o, pc).lang = c.lang
         /\ \A index : LET d == [With(c, o, pc) EXCEPT !.index = index]
                       IN  d.pc = pc /\ d.lang = c.lang
  BY DEF With, IsCheck

LEMMA TripsStayInside ==
  ASSUME Inv, NEW r \in Requests, Trip(r), ~Crash(r)
  PROVE  StaysInside(r)
  <1> DEFINE c == check[r]
  <1>0. c.pc \in InSession
    BY DEF Trip, At, InSession, SkipConnected, EarlyCheck, RuleFound, NoRule, SuffixFound, NoSuffix,
           Endings, TrySharedRule, FetchAlternatives, TakeAlternatives, PutAlternatives, Report
  <1>1. IsCheck(c)
    BY <1>0, InsideFacts
  <1> DEFINE Stays(d) == d.pc \in InSession /\ d.lang = c.lang
  <1>2. SUFFICES \E d : /\ Own(r, d) \/ \E rule, value : Write(r, d, rule, value)
                        /\ Stays(d)
    BY <1>0, OwnChanges DEF StaysInside
  <1>3. CASE SkipConnected(r)
    <2> DEFINE d == [c EXCEPT !.index = @ + 1]
    <2>1. Own(r, d) /\ Stays(d)
      BY <1>0, <1>1, <1>3 DEF SkipConnected, IsCheck
    <2> QED BY <2>1
  <1>4. CASE EarlyCheck(r)
    <2>1. PICK o : Own(r, With(c, o, "loop"))
      BY <1>4 DEF EarlyCheck
    <2>2. Stays(With(c, o, "loop"))
      BY <1>1, WithFacts DEF InSession
    <2> QED BY <2>1, <2>2
  <1>5. CASE RuleFound(r)
    <2>1. PICK o : Own(r, IF GoesOn(c, o) THEN With(c, o, "loop")
                  ELSE IF c.lang = "de"
                  THEN [With(c, o, "suffix") EXCEPT !.index = c.index]
                  ELSE [With(c, o, "loop") EXCEPT !.index = o.next + 1])
      BY <1>5 DEF RuleFound
    <2>2. Stays(IF GoesOn(c, o) THEN With(c, o, "loop")
                  ELSE IF c.lang = "de"
                  THEN [With(c, o, "suffix") EXCEPT !.index = c.index]
                  ELSE [With(c, o, "loop") EXCEPT !.index = o.next + 1])
      BY <1>1, WithFacts DEF InSession
    <2> QED BY <2>1, <2>2
  <1>6. CASE NoRule(r)
    <2>1. PICK pc \in {"suffix", "endings"} : Own(r, [c EXCEPT !.pc = pc])
      BY <1>6 DEF NoRule
    <2>2. Stays([c EXCEPT !.pc = pc])
      BY <1>1 DEF InSession, IsCheck
    <2> QED BY <2>1, <2>2
  <1>7. CASE SuffixFound(r)
    <2>1. PICK o : Own(r, IF GoesOn(c, o) THEN With(c, o, "loop")
                  ELSE [With(c, o, "endings") EXCEPT !.index = c.index])
      BY <1>7 DEF SuffixFound
    <2>2. Stays(IF GoesOn(c, o) THEN With(c, o, "loop")
                  ELSE [With(c, o, "endings") EXCEPT !.index = c.index])
      BY <1>1, WithFacts DEF InSession
    <2> QED BY <2>1, <2>2
  <1>8. CASE NoSuffix(r)
    <2>1. Own(r, [c EXCEPT !.pc = "endings"]) /\ Stays([c EXCEPT !.pc = "endings"])
      BY <1>1, <1>8 DEF NoSuffix, InSession, IsCheck
    <2> QED BY <2>1
  <1>9. CASE Endings(r)
    <2>1. PICK o : Own(r, IF GoesOn(c, o) THEN With(c, o, "loop")
                  ELSE [c EXCEPT !.index = @ + 1, !.pc = "loop"])
      BY <1>9 DEF Endings
    <2>2. Stays([c EXCEPT !.index = @ + 1, !.pc = "loop"])
      BY <1>1 DEF InSession, IsCheck
    <2>3. Stays(With(c, o, "loop"))
      BY <1>1, WithFacts DEF InSession
    <2> QED BY <2>1, <2>2, <2>3
  <1>10. CASE TrySharedRule(r)
    <2>1. PICK rule, value : \/ Write(r, [c EXCEPT !.pc = "fetching", !.rule = rule], rule, value)
                            \/ Write(r, [c EXCEPT !.pc = "endings"], rule, value)
      BY <1>10 DEF TrySharedRule
    <2>2. Stays([c EXCEPT !.pc = "fetching", !.rule = rule]) /\ Stays([c EXCEPT !.pc = "endings"])
      BY <1>1 DEF InSession, IsCheck
    <2> QED BY <2>1, <2>2
  <1>11. CASE FetchAlternatives(r)
    <2>1. PICK rule, value : Write(r, [c EXCEPT !.pc = "declining"], rule, value)
      BY <1>11 DEF FetchAlternatives
    <2>2. Stays([c EXCEPT !.pc = "declining"])
      BY <1>1 DEF InSession, IsCheck
    <2> QED BY <2>1, <2>2
  <1>12. CASE TakeAlternatives(r)
    <2>1. PICK taken : Own(r, [c EXCEPT !.pc = "declined", !.taken = taken])
      BY <1>12 DEF TakeAlternatives
    <2>2. Stays([c EXCEPT !.pc = "declined", !.taken = taken])
      BY <1>1 DEF InSession, IsCheck
    <2> QED BY <2>1, <2>2
  <1>13. CASE PutAlternatives(r)
    <2>1. PICK rule, value : Write(r, [c EXCEPT !.pc = "checking", !.taken = Nobody], rule, value)
      BY <1>13 DEF PutAlternatives
    <2>2. Stays([c EXCEPT !.pc = "checking", !.taken = Nobody])
      BY <1>1 DEF InSession, IsCheck
    <2> QED BY <2>1, <2>2
  <1>14. CASE Report(r)
    <2> DEFINE done == [c EXCEPT !.rule = Nobody]
    <2>1. PICK o : \/ Own(r, [done EXCEPT !.pc = "endings"])
                   \/ Own(r, With(done, o, "loop"))
      BY <1>14 DEF Report
    <2>2. IsCheck(done) /\ done.lang = c.lang
      BY <1>1 DEF IsCheck
    <2> HIDE DEF done
    <2>3. Stays([done EXCEPT !.pc = "endings"]) /\ Stays(With(done, o, "loop"))
      BY <2>2, WithFacts DEF InSession, IsCheck
    <2> QED BY <2>1, <2>3
  <1> QED
    BY <1>3, <1>4, <1>5, <1>6, <1>7, <1>8, <1>9, <1>10, <1>11, <1>12, <1>13, <1>14 DEF Trip

\* Where a request may be.
Placed ==
  \A r \in Requests :
    check[r].pc \in InSession \union {"idle", "arrived", "outside", "failed", "crashed"}

LEMMA IdleIsIdle == AsTask(Idle) = Session!Idle
  BY DEF AsTask, Stage, Idle, Session!Idle, InSession

LEMMA TasksOf ==
  ASSUME NEW r \in Requests,
         \A q \in Requests \ {r} : check'[q] = check[q], memory_zones' = memory_zones
  PROVE  Tasks' = [Tasks EXCEPT ![r] = AsTask(check[r])']
  BY DEF Tasks, AsTask, Stage

LEMMA ZonesOf ==
  ASSUME Inv, NEW l, NEW h \in Requests \union {Nobody}, holder' = [holder EXCEPT ![l] = h]
  PROVE  Zones' = [Zones EXCEPT ![l] = (h # Nobody)]
  BY DEF Zones, Inv, Shape

\* Two fields of a task at once.
SetTo(tasks, r, pc, doc) == [tasks EXCEPT ![r].pc = pc, ![r].doc = doc]

LEMMA TaskFields ==
  ASSUME NEW tasks, NEW r \in Requests, NEW lang, NEW pc0, NEW doc0, NEW pc, NEW doc,
         tasks = [q \in Requests |-> tasks[q]],
         tasks[r] = [pc |-> pc0, kind |-> "check", lang |-> lang, doc |-> doc0]
  PROVE  SetTo(tasks, r, pc, doc)
           = [tasks EXCEPT ![r] = [pc |-> pc, kind |-> "check", lang |-> lang, doc |-> doc]]
  <1> DEFINE one == [tasks EXCEPT ![r].pc = pc]
  <1>1. one = [q \in Requests |-> IF q = r THEN [tasks[r] EXCEPT !.pc = pc] ELSE tasks[q]]
    OBVIOUS
  <1> HIDE DEF one
  <1>2. one[r] = [pc |-> pc, kind |-> "check", lang |-> lang, doc |-> doc0]
    BY <1>1
  <1>3. [one EXCEPT ![r].doc = doc]
          = [q \in Requests |-> IF q = r THEN [one[r] EXCEPT !.doc = doc] ELSE one[q]]
    BY <1>1
  <1>4. [one[r] EXCEPT !.doc = doc] = [pc |-> pc, kind |-> "check", lang |-> lang, doc |-> doc]
    <2> DEFINE t == one[r]
    <2>1. t = [pc |-> pc, kind |-> "check", lang |-> lang, doc |-> doc0]
      BY <1>2
    <2> HIDE DEF t
    <2>2. [t EXCEPT !.doc = doc] = [pc |-> pc, kind |-> "check", lang |-> lang, doc |-> doc]
      BY <2>1
    <2> QED
      BY <2>2 DEF t
  <1>5. [one EXCEPT ![r].doc = doc]
          = [tasks EXCEPT ![r] = [pc |-> pc, kind |-> "check", lang |-> lang, doc |-> doc]]
    BY <1>1, <1>3, <1>4
  <1> QED
    BY <1>5 DEF one, SetTo

LEMMA SessionInit == Init => Session!Init
  <1> SUFFICES ASSUME Init  PROVE Session!Init
    OBVIOUS
  <1>1. Tasks = [r \in Requests |-> Session!Idle]
    BY IdleIsIdle DEF Tasks, Init
  <1>2. Zones = [l \in Langs |-> FALSE]
    BY DEF Zones, Init
  <1> QED
    BY <1>1, <1>2 DEF Init, Session!Init, Tasks, Zones

LEMMA InsideStutters ==
  ASSUME Inv, NEW r \in Requests, StaysInside(r)
  PROVE  UNCHANGED Session!vars
  <1>1. AsTask(check[r])' = AsTask(check[r])
    <2>1. Stage(check[r]) = IF memory_zones THEN "session" ELSE "arrived"
      BY DEF StaysInside, Stage, InSession
    <2>2. Stage(check[r])' = IF memory_zones THEN "session" ELSE "arrived"
      BY DEF StaysInside, Stage, InSession
    <2> QED
      BY <2>1, <2>2 DEF StaysInside, AsTask
  <1>2. Tasks' = Tasks
    BY <1>1, TasksOf DEF StaysInside, Tasks
  <1> QED
    BY <1>2 DEF StaysInside, Session!vars, Tasks, Zones

LEMMA ArriveMaps ==
  ASSUME Inv, NEW r \in Requests, NEW asked \in Checks[r], Arrive(r, asked[1], asked[2], asked[3])
  PROVE  Session!Arrive(r, "check", asked[1])
  <1>1. IsCheck(check[r]) /\ check[r].pc = "idle" /\ IsCheck(Idle)
    BY DEF Arrive, Inv, Shape, Idle, IsCheck
  <1>2. /\ check'[r].pc = "arrived" /\ check'[r].lang = asked[1]
        /\ \A q \in Requests \ {r} : check'[q] = check[q]
        /\ UNCHANGED <<memory_zones, holder>>
    BY <1>1 DEF Arrive, Inv, Shape, IsCheck
  <1>3. AsTask(check[r])' = [pc |-> "arrived", kind |-> "check", lang |-> asked[1], doc |-> "none"]
    BY <1>2 DEF AsTask, Stage, InSession
  <1>4. Tasks[r].pc = "idle"
    BY <1>1 DEF Tasks, AsTask, Stage, InSession
  <1> QED
    BY <1>2, <1>3, <1>4, TasksOf DEF Session!Arrive, Tasks, Zones

LEMMA EnterMaps ==
  ASSUME Inv, NEW r \in Requests, Enter(r)
  PROVE  Session!Enter(r) \/ Session!CheckWithoutZones(r) \/ UNCHANGED Session!vars
  <1> DEFINE l == check[r].lang
  <1>1. IsCheck(check[r]) /\ check[r].pc = "arrived" /\ l \in Langs
    BY DEF Enter, Inv, Shape
  <1>2. /\ check'[r].pc = "loop" /\ check'[r].lang = l
        /\ \A q \in Requests \ {r} : check'[q] = check[q]
        /\ UNCHANGED memory_zones
    BY <1>1 DEF Enter, Inv, Shape, IsCheck
  <1>3. Tasks[r] = [pc |-> "arrived", kind |-> "check", lang |-> l, doc |-> "none"]
    BY <1>1 DEF Tasks, AsTask, Stage, InSession
  <1>4. CASE memory_zones
    <2>1. AsTask(check[r])' = [pc |-> "session", kind |-> "check", lang |-> l, doc |-> "transient"]
      BY <1>2, <1>4 DEF AsTask, Stage, InSession
    <2>2. Tasks' = [Tasks EXCEPT ![r].pc = "session", ![r].doc = Session!Interned(TRUE, "none")]
      <3>1. Session!Interned(TRUE, "none") = "transient"
        BY DEF Session!Interned
      <3>2. Tasks' = [Tasks EXCEPT ![r] = [pc |-> "session", kind |-> "check", lang |-> l,
                                           doc |-> "transient"]]
        BY <1>2, <2>1, TasksOf
      <3>3. Tasks = [q \in Requests |-> Tasks[q]]
        BY DEF Tasks
      <3>4. SetTo(Tasks, r, "session", "transient")
              = [Tasks EXCEPT ![r] = [pc |-> "session", kind |-> "check", lang |-> l,
                                      doc |-> "transient"]]
        BY <1>3, <3>3, TaskFields
      <3> QED
        BY <3>1, <3>2, <3>4 DEF SetTo
    <2>3. holder[l] = Nobody /\ holder' = [holder EXCEPT ![l] = r]
      BY <1>4 DEF Enter
    <2>4. Zones' = [Zones EXCEPT ![l] = TRUE]
      BY <2>3, ZonesOf, WittyRulesAssumption
    <2> QED
      <3>1. Tasks[r].pc = "arrived" /\ Tasks[r].kind = "check" /\ Tasks[r].lang = l
        BY <1>3
      <3> QED
        BY <1>2, <1>4, <2>2, <2>3, <2>4, <3>1 DEF Session!Enter, Tasks, Zones
  <1>5. CASE ~memory_zones
    <2>1. AsTask(check[r])' = AsTask(check[r])
      BY <1>1, <1>2, <1>5 DEF AsTask, Stage, InSession
    <2>2. Tasks' = Tasks
      BY <1>2, <2>1, TasksOf DEF Tasks
    <2>3. UNCHANGED <<holder, memory_zones>>
      BY <1>2, <1>5 DEF Enter
    <2> QED
      BY <2>2, <2>3 DEF Session!vars, Tasks, Zones
  <1> QED
    BY <1>4, <1>5

\* A zone closes over nobody else's Doc: the others in a session are in other languages.
LEMMA NobodyEvicted ==
  ASSUME Inv, Placed, memory_zones, NEW r \in Requests, check[r].pc \in InSession, NEW tasks,
         tasks = [Tasks EXCEPT ![r] = tasks[r]], tasks[r].doc = "none"
  PROVE  Session!Evict(check[r].lang, tasks) = tasks
  <1>1. ASSUME NEW q \in Requests  PROVE ~(tasks[q].lang = check[r].lang /\ tasks[q].doc = "transient")
    <2>1. CASE q # r
      <3>1. tasks[q] = AsTask(check[q])
        BY <2>1 DEF Tasks
      <3>2. CASE check[q].pc \in InSession
        <4>1. check[q].lang # check[r].lang
          BY <2>1, <3>2 DEF Inv, Locked
        <4>2. Stage(check[q]) = "session"
          BY <3>2 DEF Stage, InSession
        <4> QED
          BY <3>1, <4>1, <4>2 DEF AsTask
      <3>3. CASE check[q].pc \notin InSession
        <4>1. Stage(check[q]) # "session"
          BY <3>3 DEF Stage, Placed, InSession
        <4> QED
          BY <3>1, <4>1 DEF AsTask
      <3> QED
        BY <3>2, <3>3
    <2> QED
      BY <2>1
  <1>2. tasks = [q \in Requests |-> tasks[q]]
    BY DEF Tasks
  <1> QED
    BY <1>1, <1>2 DEF Session!Evict

\* A check ends, one way or another.
Ends(r, pc) ==
  /\ check[r].pc \in InSession /\ Release(r) /\ UNCHANGED memory_zones
  /\ check' = [check EXCEPT ![r].pc = pc]

\* What is known of a check that ends: where it was, where it is, what it gives back.
Ended(r, pc) ==
  /\ check[r].lang \in Langs /\ check[r].pc \in InSession /\ UNCHANGED memory_zones
  /\ check'[r].pc = pc /\ check'[r].lang = check[r].lang
  /\ \A q \in Requests \ {r} : check'[q] = check[q]
  /\ Tasks = [q \in Requests |-> Tasks[q]]
  /\ memory_zones =>
       /\ holder[check[r].lang] = r
       /\ holder' = [holder EXCEPT ![check[r].lang] = Nobody]
       /\ Zones' = [Zones EXCEPT ![check[r].lang] = FALSE]
       /\ Tasks[r] = [pc |-> "session", kind |-> "check", lang |-> check[r].lang,
                      doc |-> "transient"]
  /\ ~memory_zones =>
       /\ UNCHANGED holder /\ Zones' = Zones
       /\ Tasks[r] = [pc |-> "arrived", kind |-> "check", lang |-> check[r].lang,
                      doc |-> "none"]

LEMMA EndFacts ==
  ASSUME Inv, NEW r \in Requests, NEW pc, Ends(r, pc)
  PROVE  Ended(r, pc)
 <1>1. IsCheck(check[r]) /\ check[r].lang \in Langs
    BY InsideFacts DEF Ends
  <1>2. /\ check'[r].pc = pc /\ check'[r].lang = check[r].lang
        /\ \A q \in Requests \ {r} : check'[q] = check[q]
    BY <1>1 DEF Inv, Shape, IsCheck, Ends
  <1>3. Tasks = [q \in Requests |-> Tasks[q]] /\ Tasks[r] = AsTask(check[r])
    BY DEF Tasks
  <1>4. ASSUME memory_zones
        PROVE  /\ holder[check[r].lang] = r
               /\ holder' = [holder EXCEPT ![check[r].lang] = Nobody]
               /\ Zones' = [Zones EXCEPT ![check[r].lang] = FALSE]
               /\ Tasks[r] = [pc |-> "session", kind |-> "check", lang |-> check[r].lang,
                              doc |-> "transient"]
    <2>1. holder[check[r].lang] = r /\ holder' = [holder EXCEPT ![check[r].lang] = Nobody]
      BY <1>4 DEF Inv, Locked, Release, Ends
    <2>2. Zones' = [Zones EXCEPT ![check[r].lang] = FALSE]
      BY <2>1, ZonesOf
    <2>3. Stage(check[r]) = "session"
      BY <1>4 DEF Stage, InSession, Ends
    <2> QED
      BY <1>3, <2>1, <2>2, <2>3 DEF AsTask
  <1>5. ASSUME ~memory_zones
        PROVE  /\ UNCHANGED holder /\ Zones' = Zones
               /\ Tasks[r] = [pc |-> "arrived", kind |-> "check", lang |-> check[r].lang,
                              doc |-> "none"]
    <2>1. UNCHANGED holder
      BY <1>5 DEF Release, Ends
    <2>2. Stage(check[r]) = "arrived"
      BY <1>5 DEF Stage, InSession, Ends
    <2> QED
      BY <1>3, <2>1, <2>2 DEF AsTask, Zones
  <1> QED
    BY <1>1, <1>2, <1>3, <1>4, <1>5 DEF Ends, Ended

LEMMA LeaveMaps ==
  ASSUME Inv, Placed, NEW r \in Requests, Leave(r)
  PROVE  Session!Leave(r) \/ Session!CheckWithoutZones(r)
  <1> DEFINE l == check[r].lang
  <1>1. Ends(r, "outside")
    BY DEF Leave, InSession, Ends
  <1>e. Ended(r, "outside")
    BY <1>1, EndFacts
  <1>2. AsTask(check[r])' = [pc |-> "outside", kind |-> "check", lang |-> l, doc |-> "none"]
    BY <1>e DEF Ended, AsTask, Stage, InSession
  <1>3. Tasks' = [Tasks EXCEPT ![r] = [pc |-> "outside", kind |-> "check", lang |-> l,
                                       doc |-> "none"]]
    BY <1>e, <1>2, TasksOf DEF Ended
  <1>4. SetTo(Tasks, r, "outside", "none") = Tasks'
    BY <1>e, <1>3, TaskFields DEF Ended
  <1>5. CASE memory_zones
    <2>1. /\ Tasks' = [Tasks EXCEPT ![r] = Tasks'[r]] /\ Tasks'[r].doc = "none"
      BY <1>e, <1>3 DEF Ended
    <2>2. Session!Evict(l, Tasks') = Tasks'
      BY <1>e, <1>5, <2>1, NobodyEvicted DEF Ended
    <2>3. Tasks' = Session!Evict(l, [Tasks EXCEPT ![r].pc = "outside", ![r].doc = "none"])
      BY <1>4, <2>2 DEF SetTo
    <2>4. Tasks[r].pc = "session" /\ Tasks[r].lang = l
      BY <1>e, <1>5 DEF Ended
    <2> QED
      BY <1>e, <1>5, <2>3, <2>4 DEF Ended, Session!Leave, Tasks, Zones
  <1>6. CASE ~memory_zones
    <2>1. Tasks' = [Tasks EXCEPT ![r].pc = "outside"]
      BY <1>e, <1>2, <1>6, TasksOf DEF Ended
    <2>2. Tasks[r].pc = "arrived" /\ Tasks[r].kind = "check"
      BY <1>e, <1>6 DEF Ended
    <2> QED
      BY <1>e, <1>6, <2>1, <2>2 DEF Ended, Session!CheckWithoutZones, Tasks, Zones
  <1> QED
    BY <1>5, <1>6

LEMMA FailureMaps ==
  ASSUME Inv, Placed, NEW r \in Requests, Fails(r) \/ Crash(r)
  PROVE  Session!SessionFails(r) \/ Session!CheckWithoutZones(r)
  <1> DEFINE l == check[r].lang
  <1>1. PICK pc \in {"failed", "crashed"} : Ends(r, pc)
    BY DEF Fails, Crash, At, InSession, Ends
  <1>e. Ended(r, pc)
    BY <1>1, EndFacts
  <1>2. CASE memory_zones
    <2>1. AsTask(check[r])' = Session!Idle
      BY <1>e, <1>2 DEF Ended, AsTask, Stage, InSession, Session!Idle
    <2>2. Tasks' = [Tasks EXCEPT ![r] = Session!Idle]
      BY <1>e, <2>1, TasksOf DEF Ended
    <2>3. Tasks' = [Tasks EXCEPT ![r] = Tasks'[r]] /\ Tasks'[r].doc = "none"
      BY <1>e, <2>2 DEF Ended, Session!Idle
    <2>4. Tasks' = Session!Evict(l, [Tasks EXCEPT ![r] = Session!Idle])
      BY <1>e, <1>2, <2>2, <2>3, NobodyEvicted DEF Ended
    <2>5. Tasks[r].pc = "session" /\ Tasks[r].lang = l
      BY <1>e, <1>2 DEF Ended
    <2> QED
      BY <1>e, <1>2, <2>4, <2>5 DEF Ended, Session!SessionFails, Tasks, Zones
  <1>3. CASE ~memory_zones
    <2>1. AsTask(check[r])' = [pc |-> "outside", kind |-> "check", lang |-> l, doc |-> "none"]
      BY <1>e, <1>3 DEF Ended, AsTask, Stage, InSession
    <2>2. Tasks' = [Tasks EXCEPT ![r].pc = "outside"]
      BY <1>e, <1>3, <2>1, TasksOf DEF Ended
    <2>3. Tasks[r].pc = "arrived" /\ Tasks[r].kind = "check"
      BY <1>e, <1>3 DEF Ended
    <2> QED
      BY <1>e, <1>3, <2>2, <2>3 DEF Ended, Session!CheckWithoutZones, Tasks, Zones
  <1> QED
    BY <1>2, <1>3

LEMMA AnswerMaps ==
  ASSUME Inv, NEW r \in Requests, Answer(r)
  PROVE  Session!Answer(r) \/ UNCHANGED Session!vars
  <1>1. /\ check'[r] = Idle /\ \A q \in Requests \ {r} : check'[q] = check[q]
        /\ UNCHANGED <<memory_zones, holder>>
    BY DEF Answer, Inv, Shape
  <1>2. AsTask(check[r])' = Session!Idle
    BY <1>1, IdleIsIdle DEF AsTask, Stage
  <1>3. Tasks' = [Tasks EXCEPT ![r] = Session!Idle]
    BY <1>1, <1>2, TasksOf
  <1>4. Tasks[r] = AsTask(check[r]) /\ Tasks = [q \in Requests |-> Tasks[q]]
    BY DEF Tasks
  <1>5. CASE Stage(check[r]) = "outside"
    <2>1. Tasks[r].pc = "outside"
      BY <1>4, <1>5 DEF AsTask
    <2> QED
      BY <1>1, <1>3, <2>1 DEF Session!Answer, Tasks, Zones
  <1>6. CASE Stage(check[r]) = "idle"
    <2>1. Tasks[r] = Session!Idle
      BY <1>4, <1>6 DEF AsTask, Session!Idle
    <2>2. Tasks' = Tasks
      BY <1>3, <1>4, <2>1
    <2> QED
      BY <1>1, <2>2 DEF Session!vars, Tasks, Zones
  <1> QED
    BY <1>5, <1>6 DEF Answer, Stage, InSession

-----------------------------------------------------------------------------
LEMMA StepKeepsPlaced == Inv /\ Placed /\ [Next]_vars => Placed'
  <1> SUFFICES ASSUME Inv, Placed, [Next]_vars  PROVE Placed'
    OBVIOUS
  <1>1. CASE UNCHANGED vars
    BY <1>1 DEF vars, Placed
  <1>2. CASE Next
    <2>1. PICK r \in Requests :
            \/ \E asked \in Checks[r] : Arrive(r, asked[1], asked[2], asked[3])
            \/ Enter(r) \/ Trip(r) \/ Leave(r) \/ Fails(r) \/ Answer(r)
      BY <1>2 DEF Next
    <2>2. /\ \A q \in Requests \ {r} : check'[q] = check[q]
          /\ check'[r].pc \in InSession \union {"idle", "arrived", "outside", "failed", "crashed"}
      <3>1. CASE Trip(r) /\ ~Crash(r)
        BY <3>1, TripsStayInside DEF StaysInside
      <3>2. CASE Leave(r)
        BY <3>2 DEF Leave, Inv, Shape, IsCheck
      <3>3. CASE Fails(r)
        BY <3>3 DEF Fails, Inv, Shape, IsCheck
      <3>4. CASE Crash(r)
        BY <3>4 DEF Crash, Inv, Shape, IsCheck
      <3>5. CASE Answer(r)
        BY <3>5 DEF Answer, Idle, Inv, Shape
      <3>6. CASE Enter(r)
        BY <3>6 DEF Enter, Inv, Shape, IsCheck, InSession
      <3>7. ASSUME NEW asked \in Checks[r], Arrive(r, asked[1], asked[2], asked[3])
            PROVE  /\ \A q \in Requests \ {r} : check'[q] = check[q]
                   /\ check'[r].pc = "arrived"
        BY <3>7, ArriveMaps DEF Arrive, Inv, Shape, Idle
      <3> QED
        BY <2>1, <3>1, <3>2, <3>3, <3>4, <3>5, <3>6, <3>7
    <2> QED
      BY <2>2 DEF Placed
  <1> QED
    BY <1>1, <1>2

LEMMA StepMaps == Inv /\ Placed /\ [Next]_vars => [Session!Next]_(Session!vars)
  <1> SUFFICES ASSUME Inv, Placed, [Next]_vars
               PROVE  Session!Next \/ UNCHANGED Session!vars
    OBVIOUS
  <1>1. CASE UNCHANGED vars
    BY <1>1 DEF vars, Session!vars, AsTask, Stage
  <1>2. CASE Next
    <2>1. PICK r \in Requests :
            \/ \E asked \in Checks[r] : Arrive(r, asked[1], asked[2], asked[3])
            \/ Enter(r) \/ Trip(r) \/ Leave(r) \/ Fails(r) \/ Answer(r)
      BY <1>2 DEF Next
    <2>2. CASE \E asked \in Checks[r] : Arrive(r, asked[1], asked[2], asked[3])
      <3>1. PICK asked \in Checks[r] : Arrive(r, asked[1], asked[2], asked[3])
        BY <2>2
      <3>2. asked[1] \in Langs
        BY WittyRulesAssumption
      <3> QED
        BY <3>1, <3>2, ArriveMaps DEF Session!Next
    <2>3. CASE Enter(r)
      BY <2>3, EnterMaps DEF Session!Next
    <2>4. CASE Trip(r) /\ ~Crash(r)
      BY <2>4, TripsStayInside, InsideStutters
    <2>5. CASE Leave(r)
      BY <2>5, LeaveMaps DEF Session!Next, Session!Session
    <2>6. CASE Fails(r) \/ Crash(r)
      BY <2>6, FailureMaps DEF Session!Next, Session!Session
    <2>7. CASE Answer(r)
      BY <2>7, AnswerMaps DEF Session!Next
    <2> QED
      BY <2>1, <2>2, <2>3, <2>4, <2>5, <2>6, <2>7
  <1> QED
    BY <1>1, <1>2

\* Whatever the loop does inside, a check takes its language's session and gives it back as
\* NlpSession says (model.py:103): every step of the loop is a step of it, or none.
THEOREM LoopKeepsSessions == Spec => KeepsSessions
  <1>1. Init => Placed
    BY DEF Init, Placed, Idle
  <1> QED
    BY <1>1, InitGivesInv, StepKeepsInv, StepKeepsPlaced, SessionInit, StepMaps, PTL
       DEF Spec, KeepsSessions, Session!Spec
=============================================================================
