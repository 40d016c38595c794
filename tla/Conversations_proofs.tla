-------------------------- MODULE Conversations_proofs ----------------------
(***************************************************************************)
(* What a conversation with the guardrail is told, review after review:    *)
(* what the guardrail has added to an answer, a note or a guidance, is     *)
(* known again when it comes back, and so is added once.                   *)
(*                                                                         *)
(* The first part is about single texts, where no finding brings the mark  *)
(* of a note. Then come the standings a review goes through, with the note *)
(* as its last, and the messages with the guidance in them. The last part  *)
(* is about what the review of an answer covers: all of what is checked of *)
(* it, each word once, in whatever parts it is read.                       *)
(***************************************************************************)
EXTENDS TextChecks_proofs

-----------------------------------------------------------------------------
\* The mark of a note stands in nothing a rule finds, nor in what is offered for it: a note
\* has no mark but its first.

NoteFree(text) == \A i \in DOMAIN text : text[i] # Note

Quiet(f) ==
  /\ NoteFree(f.text)
  /\ \A i \in DOMAIN f.alternatives : NoteFree(f.alternatives[i].lemma)

AreQuiet(findings) == \A i \in DOMAIN findings : Quiet(findings[i])

\* No organisation's term has the mark in it.
QuietTerms(config) == \A term \in config.term_replacements : Unmarking(term)

LEMMA EmptyFree == NoteFree(<<>>) /\ AreQuiet(<<>>)
BY EmptyList DEF NoteFree, AreQuiet

LEMMA OneFree == ASSUME NEW e, e # Note PROVE IsList(<<e>>) /\ NoteFree(<<e>>)
<1>1. IsList(<<e>>) /\ Len(<<e>>) = 1 /\ <<e>>[1] = e  BY OneIn
<1>2. DOMAIN <<e>> = 1 .. 1  BY <1>1, ListLen
<1>. QED  BY <1>1, <1>2 DEF NoteFree

LEMMA JoinedFree ==
  ASSUME NEW a, IsList(a), NoteFree(a), NEW b, IsList(b), NoteFree(b)
  PROVE  IsList(a \o b) /\ NoteFree(a \o b)
<1>. DEFINE c == a \o b
<1>1. /\ IsList(c) /\ DOMAIN c = 1 .. Len(a) + Len(b)
      /\ \A i \in 1 .. Len(a) : c[i] = a[i]
      /\ \A i \in 1 .. Len(b) : c[Len(a) + i] = b[i]
  BY Joined
<1>2. /\ DOMAIN a = 1 .. Len(a) /\ Len(a) \in Nat
      /\ DOMAIN b = 1 .. Len(b) /\ Len(b) \in Nat
  BY ListLen
<1>. HIDE DEF c
<1>3. ASSUME NEW i \in DOMAIN c PROVE c[i] # Note
  <2>1. CASE i \in 1 .. Len(a)  BY <2>1, <1>1, <1>2 DEF NoteFree
  <2>2. CASE i \notin 1 .. Len(a)
    <3>1. i - Len(a) \in 1 .. Len(b) /\ Len(a) + (i - Len(a)) = i  BY <2>2, <1>1, <1>2
    <3>2. c[i] = b[i - Len(a)]  BY <3>1, <1>1
    <3>. QED  BY <3>1, <3>2, <1>2 DEF NoteFree
  <2>. QED  BY <2>1, <2>2
<1>. QED  BY <1>1, <1>3 DEF NoteFree, c

LEMMA JoinedQuiet ==
  ASSUME NEW a, AreFindings(a), AreQuiet(a), NEW b, AreFindings(b), AreQuiet(b)
  PROVE  AreQuiet(a \o b)
<1>. DEFINE c == a \o b
<1>1. /\ DOMAIN c = 1 .. Len(a) + Len(b)
      /\ \A i \in 1 .. Len(a) : c[i] = a[i]
      /\ \A i \in 1 .. Len(b) : c[Len(a) + i] = b[i]
  BY Joined DEF AreFindings
<1>2. /\ DOMAIN a = 1 .. Len(a) /\ Len(a) \in Nat
      /\ DOMAIN b = 1 .. Len(b) /\ Len(b) \in Nat
  BY ListLen DEF AreFindings
<1>. HIDE DEF c
<1>3. ASSUME NEW i \in DOMAIN c PROVE Quiet(c[i])
  <2>1. CASE i \in 1 .. Len(a)  BY <2>1, <1>1, <1>2 DEF AreQuiet
  <2>2. CASE i \notin 1 .. Len(a)
    <3>1. i - Len(a) \in 1 .. Len(b) /\ Len(a) + (i - Len(a)) = i  BY <2>2, <1>1, <1>2
    <3>2. c[i] = b[i - Len(a)]  BY <3>1, <1>1
    <3>. QED  BY <3>1, <3>2, <1>2 DEF AreQuiet
  <2>. QED  BY <2>1, <2>2
<1>. QED  BY <1>1, <1>3 DEF AreQuiet, c

LEMMA FlatFree ==
  ASSUME NEW seqs, IsList(seqs), \A i \in 1 .. Len(seqs) : IsList(seqs[i]) /\ NoteFree(seqs[i])
  PROVE  IsList(FlattenSeq(seqs)) /\ NoteFree(FlattenSeq(seqs))
<1>1. IsList(FlattenSeq(seqs)) /\ StandIn(FlattenSeq(seqs), seqs, Len(seqs))  BY FlattenedFrom
<1>2. ASSUME NEW i \in DOMAIN FlattenSeq(seqs) PROVE FlattenSeq(seqs)[i] # Note
  <2>1. PICK m \in 1 .. Len(seqs) : \E j \in DOMAIN seqs[m] : FlattenSeq(seqs)[i] = seqs[m][j]
    BY <1>1 DEF StandIn
  <2>. QED  BY <2>1 DEF NoteFree
<1>. QED  BY <1>1, <1>2 DEF NoteFree

LEMMA KeptQuiet ==
  ASSUME NEW findings, AreFindings(findings), AreQuiet(findings), NEW keys
  PROVE  AreQuiet(KeptAt(findings, keys))
<1>. DEFINE kept == KeptAt(findings, keys)
<1>1. Len(findings) \in Nat /\ DOMAIN findings = 1 .. Len(findings)  BY ListLen DEF AreFindings
<1>2. \A i \in DOMAIN kept : \E k \in keys \intersect (1 .. Len(findings)) : kept[i] = findings[k]
  BY <1>1, KeptAtFrom
<1>. HIDE DEF kept
<1>3. AreQuiet(kept)  BY <1>1, <1>2 DEF AreQuiet
<1>. QED  BY <1>3 DEF kept

LEMMA UpperFirstFree ==
  ASSUME NEW text, IsList(text), NoteFree(text)
  PROVE  NoteFree(upper_first(text))
<1>1. CASE text # <<>> /\ text[1] \in DOMAIN CapitalOf
  <2>. DEFINE rest == Tail(text)
  <2>1. upper_first(text) = <<CapitalOf[text[1]]>> \o rest  BY <1>1 DEF upper_first
  <2>2. CapitalOf[text[1]] # Note  BY <1>1, NotesAssumption DEF Range
  <2>3. text \in Seq({text[i] : i \in DOMAIN text})  BY DEF IsList
  <2>4. /\ Len(rest) = Len(text) - 1 /\ \A i \in 1 .. Len(rest) : rest[i] = text[i + 1]
        /\ rest \in Seq({text[i] : i \in DOMAIN text})
    BY <1>1, <2>3, HeadTailProperties
  <2>5. IsList(rest) /\ DOMAIN rest = 1 .. Len(rest)  BY <2>4, ListOf
  <2>6. DOMAIN text = 1 .. Len(text) /\ Len(text) \in Nat  BY ListLen
  <2>. HIDE DEF rest
  <2>7. NoteFree(rest)  BY <2>4, <2>5, <2>6 DEF NoteFree
  <2>. QED  BY <2>1, <2>2, <2>5, <2>7, OneFree, JoinedFree
<1>2. CASE ~(text # <<>> /\ text[1] \in DOMAIN CapitalOf)  BY <1>2 DEF upper_first
<1>. QED  BY <1>1, <1>2

LEMMA CasedFree ==
  ASSUME NEW a, IsAlternative(a), NoteFree(a.lemma), NEW is_upper, NEW category
  PROVE  NoteFree(Cased(a, is_upper, category).lemma)
<1>1. \/ Cased(a, is_upper, category) = a
      \/ Cased(a, is_upper, category) = [a EXCEPT !.lemma = upper_first(@)]
  BY DEF Cased
<1>2. DOMAIN a = {"lemma", "remove", "role"} /\ IsList(a.lemma)  BY DEF IsAlternative
<1>3. [a EXCEPT !.lemma = upper_first(@)].lemma = upper_first(a.lemma)  BY <1>2
<1>4. NoteFree(upper_first(a.lemma))  BY <1>2, UpperFirstFree
<1>. QED  BY <1>1, <1>3, <1>4

LEMMA ResultQuiet ==
  ASSUME NEW rule, IsRule(rule), Unmarking(rule), NEW text, IsList(text), NEW start \in Nat,
         Matches(rule, text, start), NEW lang, NEW config, IsConfig(config)
  PROVE  Quiet(Result(rule, text, start, start + Len(rule.words), lang, config))
<1>. DEFINE end == start + Len(rule.words)
            found == Slice(text, start, end)
            is_upper == isUpper(found, rule, text, start, lang)
            given == rule.alternatives
            category == rule.category
            max == config.alternatives_max_count
            cleaned == clean_alternatives(found, is_upper, given, category, max)
            r == Result(rule, text, start, end, lang, config)
<1>1. Len(rule.words) \in Nat /\ DOMAIN rule.words = 1 .. Len(rule.words) /\ Len(text) \in Nat
  BY ListLen DEF IsRule
<1>2. end \in Nat /\ end <= Len(text) /\ start <= end  BY <1>1 DEF Matches
<1>3. NoteFree(found)
  <2>1. /\ IsList(found) /\ Len(found) = end - start
        /\ \A i \in 1 .. Len(found) : found[i] = text[start + i]
    BY <1>1, <1>2, Sliced
  <2>2. DOMAIN found = 1 .. Len(rule.words)  BY <1>1, <2>1, ListLen
  <2>3. Len(found) = Len(rule.words)  BY <1>1, <2>1
  <2>. HIDE DEF found
  <2>4. ASSUME NEW i \in 1 .. Len(rule.words) PROVE text[start + i] # Note
    <3>1. \/ text[start + i] = rule.words[i]
          \/ text[start + 1] = CapitalOf[rule.words[1]] /\ i = 1 /\ rule.words[1] \in DOMAIN CapitalOf
      BY <1>1 DEF Matches
    <3>2. rule.words[i] # Note  BY <1>1 DEF Unmarking, Range
    <3>3. rule.words[1] \in DOMAIN CapitalOf => CapitalOf[rule.words[1]] # Note
      BY NotesAssumption DEF Range
    <3>. QED  BY <3>1, <3>2, <3>3
  <2>. QED  BY <2>1, <2>2, <2>3, <2>4 DEF NoteFree
<1>4. \A i \in DOMAIN cleaned : NoteFree(cleaned[i].lemma)
  <2>1. IsList(given) /\ max \in Nat \union {Nothing}  BY DEF IsRule, IsConfig
  <2>2. \A i \in DOMAIN cleaned : \E k \in DOMAIN given :
          cleaned[i] = Cased(given[k], is_upper, category)
    <3>. HIDE DEF found, is_upper, given, max, category, r
    <3>. QED  BY <2>1, CleanedFrom
  <2>3. ASSUME NEW k \in DOMAIN given
        PROVE  NoteFree(Cased(given[k], is_upper, category).lemma)
    <3>1. IsAlternative(given[k])  BY DEF IsRule
    <3>2. IsList(given[k].lemma) /\ Note \notin Range(given[k].lemma)
      BY <3>1 DEF Unmarking, IsAlternative
    <3>3. NoteFree(given[k].lemma)  BY <3>2 DEF NoteFree, Range
    <3>. QED  BY <3>1, <3>3, CasedFree
  <2>. HIDE DEF cleaned
  <2>. QED  BY <2>2, <2>3
<1>5. r.text = found /\ r.alternatives = cleaned  BY DEF Result
<1>. HIDE DEF r, found, cleaned
<1>. QED  BY <1>3, <1>4, <1>5 DEF Quiet, r

\* What the rules report of a text: each is some rule's result, where it matches.
RulesOf(lang, config) ==
  {r \in Rules : r.lang = lang /\ Enabled(r, config)} \union TermRules(config, lang)

LEMMA WittyFrom ==
  ASSUME NEW text, IsList(text), NEW lang, NEW config, IsConfig(config)
  PROVE  \A i \in DOMAIN witty_rules(text, lang, config) :
           \E rule \in RulesOf(lang, config), start \in Nat :
             LET result == Result(rule, text, start, start + Len(rule.words), lang, config)
             IN  /\ Matches(rule, text, start)
                 /\ witty_rules(text, lang, config)[i] \in {result, mark_bulk(result, 1)}
<1>. DEFINE rules == RulesOf(lang, config)
            Rep(start, rule) ==
              LET result == Result(rule, text, start, start + Len(rule.words), lang, config)
              IN  IF rule.form THEN mark_bulk(result, 1) ELSE result
            Of(start, n) == {r \in rules : Len(r.words) = n /\ Matches(r, text, start)}
            OfLength(start, n) ==
              LET found == SetToSeq(Of(start, n)) IN [i \in DOMAIN found |-> Rep(start, found[i])]
            At(start) == FlattenSeq([n \in DOMAIN text |-> OfLength(start, n)])
            all == [i \in DOMAIN text |-> At(i - 1)]
            Come(fs, start) ==
              \A i \in DOMAIN fs : \E rule \in rules :
                Matches(rule, text, start) /\ fs[i] = Rep(start, rule)
<1>1. IsFiniteSet(rules)  BY RulesKept DEF RulesOf
<1>2. Len(text) \in Nat /\ DOMAIN text = 1 .. Len(text)  BY ListLen
<1>3. witty_rules(text, lang, config) = FlattenSeq(all)  BY DEF witty_rules, RulesOf
<1>. HIDE DEF rules, Rep
<1>4. ASSUME NEW start \in Nat, NEW n
      PROVE  IsList(OfLength(start, n)) /\ Come(OfLength(start, n), start)
  <2>. DEFINE found == SetToSeq(Of(start, n))
              f == [i \in DOMAIN found |-> Rep(start, found[i])]
  <2>1. Of(start, n) \subseteq rules /\ \A r \in Of(start, n) : Matches(r, text, start)
    OBVIOUS
  <2>2. IsFiniteSet(Of(start, n))  BY <2>1, <1>1, FS_Subset
  <2>. HIDE DEF Of
  <2>3. IsList(found) /\ \A i \in DOMAIN found : found[i] \in Of(start, n)  BY <2>2, SetListed
  <2>. HIDE DEF found
  <2>4. Len(found) \in Nat /\ DOMAIN found = 1 .. Len(found)  BY <2>3, ListLen
  <2>5. f = [i \in 1 .. Len(found) |-> f[i]] /\ \A i \in 1 .. Len(found) : f[i] = Rep(start, found[i])
    BY <2>4
  <2>. HIDE DEF f
  <2>6. IsList(f) /\ DOMAIN f = 1 .. Len(found)  BY <2>4, <2>5, ListsMapped
  <2>7. Come(f, start)  BY <2>1, <2>3, <2>4, <2>5, <2>6
  <2>. QED  BY <2>6, <2>7 DEF f, found
<1>. HIDE DEF OfLength
<1>5. ASSUME NEW start \in Nat PROVE IsList(At(start)) /\ Come(At(start), start)
  <2>. DEFINE f == [n \in DOMAIN text |-> OfLength(start, n)]
              flat == FlattenSeq(f)
  <2>1. \A n \in 1 .. Len(text) : f[n] = OfLength(start, n)  BY <1>2
  <2>2. f = [n \in 1 .. Len(text) |-> f[n]]  BY <1>2
  <2>. HIDE DEF f, Come
  <2>3. \A n \in 1 .. Len(text) : IsList(f[n]) /\ Come(f[n], start)  BY <1>4, <2>1
  <2>4. IsList(f) /\ Len(f) = Len(text)  BY <1>2, <2>2, ListsMapped
  <2>5. IsList(flat) /\ StandIn(flat, f, Len(f))  BY <2>3, <2>4, FlattenedFrom
  <2>. HIDE DEF flat
  <2>6. ASSUME NEW i \in DOMAIN flat
        PROVE  \E rule \in rules : Matches(rule, text, start) /\ flat[i] = Rep(start, rule)
    <3>1. PICK m \in 1 .. Len(text) : \E j \in DOMAIN f[m] : flat[i] = f[m][j]
      BY <2>4, <2>5 DEF StandIn
    <3>. QED  BY <2>3, <3>1 DEF Come
  <2>7. Come(flat, start)  BY <2>6 DEF Come
  <2>. QED  BY <2>5, <2>7 DEF flat, f
<1>. HIDE DEF At
<1>6. ASSUME NEW i \in DOMAIN FlattenSeq(all)
      PROVE  \E rule \in rules, start \in Nat :
               Matches(rule, text, start) /\ FlattenSeq(all)[i] = Rep(start, rule)
  <2>1. \A m \in 1 .. Len(text) : m - 1 \in Nat /\ all[m] = At(m - 1)  BY <1>2
  <2>2. all = [m \in 1 .. Len(text) |-> all[m]]  BY <1>2
  <2>. HIDE DEF all, Come
  <2>3. IsList(all) /\ Len(all) = Len(text)  BY <1>2, <2>2, ListsMapped
  <2>4. \A m \in 1 .. Len(all) : IsList(all[m]) /\ Come(all[m], m - 1)  BY <1>5, <2>1, <2>3
  <2>5. StandIn(FlattenSeq(all), all, Len(all))  BY <2>3, <2>4, FlattenedFrom
  <2>6. PICK m \in 1 .. Len(all) : \E j \in DOMAIN all[m] : FlattenSeq(all)[i] = all[m][j]
    BY <2>5 DEF StandIn
  <2>7. m - 1 \in Nat /\ Come(all[m], m - 1)  BY <2>1, <2>3, <2>4
  <2>. QED  BY <2>6, <2>7 DEF Come
<1>7. ASSUME NEW rule, NEW start
      PROVE  LET result == Result(rule, text, start, start + Len(rule.words), lang, config)
             IN  Rep(start, rule) \in {result, mark_bulk(result, 1)}
  BY DEF Rep
<1>. HIDE DEF all
<1>8. ASSUME NEW i \in DOMAIN witty_rules(text, lang, config)
      PROVE  \E rule \in rules, start \in Nat :
               LET result == Result(rule, text, start, start + Len(rule.words), lang, config)
               IN  /\ Matches(rule, text, start)
                   /\ witty_rules(text, lang, config)[i] \in {result, mark_bulk(result, 1)}
  <2>1. PICK rule \in rules, start \in Nat :
          Matches(rule, text, start) /\ FlattenSeq(all)[i] = Rep(start, rule)
    BY <1>3, <1>6
  <2>. QED  BY <1>3, <1>7, <2>1
<1>. QED  BY <1>8 DEF rules

LEMMA WittyQuiet ==
  ASSUME NEW text, IsList(text), NEW lang, NEW config, IsConfig(config), QuietTerms(config)
  PROVE  AreQuiet(witty_rules(text, lang, config))
<1>. DEFINE all == witty_rules(text, lang, config)
<1>1. \A i \in DOMAIN all :
         \E rule \in RulesOf(lang, config), start \in Nat :
           LET result == Result(rule, text, start, start + Len(rule.words), lang, config)
           IN  Matches(rule, text, start) /\ all[i] \in {result, mark_bulk(result, 1)}
  BY WittyFrom
<1>2. \A rule \in RulesOf(lang, config) : IsRule(rule)  BY RulesKept DEF RulesOf
<1>3. \A rule \in RulesOf(lang, config) : Unmarking(rule)
  BY NotesAssumption DEF RulesOf, TermRules, QuietTerms
<1>. HIDE DEF all
<1>4. ASSUME NEW i \in DOMAIN all PROVE Quiet(all[i])
  <2>1. PICK rule \in RulesOf(lang, config), start \in Nat :
           LET result == Result(rule, text, start, start + Len(rule.words), lang, config)
           IN  Matches(rule, text, start) /\ all[i] \in {result, mark_bulk(result, 1)}
    BY <1>1
  <2>. DEFINE end == start + Len(rule.words)
              result == Result(rule, text, start, end, lang, config)
  <2>2. IsRule(rule) /\ Unmarking(rule) /\ Matches(rule, text, start)
        /\ all[i] \in {result, mark_bulk(result, 1)}
    BY <1>2, <1>3, <2>1
  <2>3. Quiet(result)  BY <2>2, ResultQuiet
  <2>4. IsFinding(result)
    <3>1. /\ Len(rule.words) \in Nat /\ AreAlternatives(rule.alternatives)
          /\ Len(text) \in Nat
      BY <2>2, ListLen DEF IsRule, AreAlternatives
    <3>2. end \in Nat /\ (end <= Len(text) => start <= Len(text))  BY <3>1
    <3>. QED  BY <3>1, <3>2, ResultIsFinding
  <2>. HIDE DEF result
  <2>5. Quiet(mark_bulk(result, 1))
    <3>1. \A field \in FindingFields \ {"bulk"} : mark_bulk(result, 1)[field] = result[field]
      BY <2>4, MarkedBulk
    <3>2. /\ mark_bulk(result, 1).text = result.text
          /\ mark_bulk(result, 1).alternatives = result.alternatives
      BY <3>1 DEF FindingFields
    <3>. QED  BY <2>3, <3>2 DEF Quiet
  <2>. QED  BY <2>2, <2>3, <2>5
<1>. QED  BY <1>4 DEF AreQuiet, all

\* What is sorted out leaves others, at most marked for the switch.
LEMMA SortedQuiet ==
  ASSUME NEW lt_results, AreFindings(lt_results), AreQuiet(lt_results),
         NEW results, AreFindings(results), AreQuiet(results),
         NEW sentences, NEW genuine, NEW text, NEW lang, NEW config
  PROVE  AreQuiet(SortedOut(lt_results, results, sentences, genuine, text, lang, config))
<1>. DEFINE there == {i \in DOMAIN results : /\ LooksAt(results[i], sentences)
                                             /\ SentenceOf(results[i], sentences) \notin genuine}
            left == context_false_positives(results, sentences, genuine)
            both == lt_results \o left
            wanted == apply_false_positives(both, config)
            marked == mark_masculines_for_bulk(wanted, text, lang, InklusivumWords(wanted, lang))
<1>1. left = KeptAt(results, (1 .. Len(results)) \ there)
  BY RemovedIsKept DEF context_false_positives, AreFindings
<1>. HIDE DEF there
<1>2. AreFindings(left) /\ AreQuiet(left)  BY <1>1, KeptFindings, KeptQuiet
<1>. HIDE DEF left
<1>3. AreFindings(both) /\ AreQuiet(both)  BY <1>2, JoinedFindings, JoinedQuiet
<1>. HIDE DEF both
<1>4. AreFindings(wanted) /\ AreQuiet(wanted)
  BY <1>3, KeptFindings, KeptQuiet DEF apply_false_positives
<1>5. SortedOut(lt_results, results, sentences, genuine, text, lang, config) =
        IF bulk_actions(lang, config) = {} THEN wanted ELSE marked
  BY DEF SortedOut, left, both
<1>. HIDE DEF wanted
<1>6. marked \in MarkedVariants(wanted)  BY <1>4, MarkedAreVariants
<1>. HIDE DEF marked
<1>7. AreQuiet(marked)
  <2>1. Len(wanted) \in Nat /\ DOMAIN wanted = 1 .. Len(wanted)  BY <1>4, ListLen DEF AreFindings
  <2>2. DOMAIN marked = 1 .. Len(wanted)
        /\ \A i \in 1 .. Len(wanted) : marked[i] \in Variants(wanted[i])
    BY <1>6 DEF MarkedVariants
  <2>3. ASSUME NEW i \in 1 .. Len(wanted) PROVE Quiet(marked[i])
    <3>1. IsFinding(wanted[i]) /\ Quiet(wanted[i])  BY <1>4, <2>1 DEF AreFindings, AreQuiet
    <3>2. marked[i].text = wanted[i].text /\ marked[i].alternatives = wanted[i].alternatives
      BY <2>2, <3>1, VariantIs
    <3>. QED  BY <3>1, <3>2 DEF Quiet
  <2>. QED  BY <2>2, <2>3 DEF AreQuiet
<1>. QED  BY <1>4, <1>5, <1>7

LEMMA ShiftedQuiet ==
  ASSUME NEW findings, AreFindings(findings), AreQuiet(findings), NEW shift \in Nat
  PROVE  AreQuiet(Shifted(findings, shift))
<1>. DEFINE f == Shifted(findings, shift)
            n == Len(findings)
<1>1. n \in Nat /\ DOMAIN findings = 1 .. n  BY ListLen DEF AreFindings
<1>2. /\ DOMAIN f = 1 .. n
      /\ \A i \in 1 .. n : f[i] = [findings[i] EXCEPT !.start = @ + shift, !.end = @ + shift]
  BY <1>1 DEF Shifted
<1>3. ASSUME NEW i \in 1 .. n PROVE Quiet(f[i])
  <2>. DEFINE g == findings[i]
  <2>1. IsFinding(g) /\ Quiet(g)  BY <1>1 DEF AreFindings, AreQuiet
  <2>2. f[i] = [g EXCEPT !.start = @ + shift, !.end = @ + shift]  BY <1>2
  <2>. HIDE DEF f, g
  <2>3. f[i].text = g.text /\ f[i].alternatives = g.alternatives
    BY <2>1, <2>2 DEF IsFinding, FindingFields
  <2>. QED  BY <2>1, <2>3 DEF Quiet
<1>. HIDE DEF f
<1>. QED  BY <1>2, <1>3 DEF AreQuiet, f

LEMMA JoinedByFree ==
  ASSUME NEW separator, separator # Note, NEW texts, IsList(texts),
         \A i \in DOMAIN texts : IsList(texts[i]) /\ NoteFree(texts[i])
  PROVE  IsList(JoinedBy(separator, texts)) /\ NoteFree(JoinedBy(separator, texts))
<1>. DEFINE f == [i \in DOMAIN texts |-> IF i = 1 THEN texts[i] ELSE <<separator>> \o texts[i]]
<1>1. Len(texts) \in Nat /\ DOMAIN texts = 1 .. Len(texts)  BY ListLen
<1>2. f = [i \in 1 .. Len(texts) |-> f[i]]  BY <1>1
<1>3. ASSUME NEW i \in 1 .. Len(texts) PROVE IsList(f[i]) /\ NoteFree(f[i])
  <2>1. IsList(texts[i]) /\ NoteFree(texts[i]) /\ IsList(<<separator>>) /\ NoteFree(<<separator>>)
    BY <1>1, OneFree
  <2>2. IsList(<<separator>> \o texts[i]) /\ NoteFree(<<separator>> \o texts[i])
    BY <2>1, JoinedFree
  <2>. QED  BY <1>1, <2>1, <2>2
<1>4. JoinedBy(separator, texts) = FlattenSeq(f)  BY DEF JoinedBy
<1>. HIDE DEF f
<1>5. IsList(f) /\ Len(f) = Len(texts)  BY <1>1, <1>2, ListsMapped
<1>6. IsList(FlattenSeq(f)) /\ NoteFree(FlattenSeq(f))  BY <1>3, <1>5, FlatFree
<1>. QED  BY <1>4, <1>6

LEMMA IssueListFree ==
  ASSUME NEW findings, AreFindings(findings), AreQuiet(findings), NEW explain
  PROVE  NoteFree(issue_list(findings, explain))
<1>. DEFINE Said(alternative) == IF alternative.remove THEN <<"(remove)">> ELSE alternative.lemma
            Offers(f) == [i \in DOMAIN f.alternatives |-> Said(f.alternatives[i])]
            Offered(f) == JoinedBy("/", Offers(f))
            Why(f) == IF explain /\ f.explained THEN <<"(why)">> ELSE <<>>
            Issue(f) == f.text \o <<"->">> \o Offered(f) \o Why(f)
            issues == KeptAt(findings, WithAlternatives(findings))
            said == [i \in DOMAIN issues |-> Issue(issues[i])]
<1>1. issue_list(findings, explain) = JoinedBy(";", said)  BY DEF issue_list
<1>2. AreFindings(issues) /\ AreQuiet(issues)  BY KeptFindings, KeptQuiet
<1>. HIDE DEF issues
<1>3. Note # "->" /\ Note # "(remove)" /\ Note # "(why)" /\ Note # "/" /\ Note # ";"
  BY NotesAssumption
<1>4. ASSUME NEW f, IsFinding(f), Quiet(f) PROVE IsList(Issue(f)) /\ NoteFree(Issue(f))
  <2>. DEFINE n == Len(f.alternatives)
  <2>1. n \in Nat /\ DOMAIN f.alternatives = 1 .. n
    BY <1>4, ListLen DEF IsFinding, AreAlternatives
  <2>2. ASSUME NEW i \in 1 .. n PROVE IsList(Offers(f)[i]) /\ NoteFree(Offers(f)[i])
    <3>1. IsAlternative(f.alternatives[i])  BY <1>4, <2>1 DEF IsFinding, AreAlternatives
    <3>2. IsList(f.alternatives[i].lemma) /\ IsList(<<"(remove)">>) /\ NoteFree(<<"(remove)">>)
      BY <1>3, <3>1, OneFree DEF IsAlternative
    <3>3. NoteFree(f.alternatives[i].lemma)  BY <1>4, <2>1 DEF Quiet
    <3>. QED  BY <2>1, <3>2, <3>3
  <2>3. Offers(f) = [i \in 1 .. n |-> Offers(f)[i]]  BY <2>1
  <2>. HIDE DEF Offers
  <2>4. IsList(Offers(f)) /\ DOMAIN Offers(f) = 1 .. n  BY <2>1, <2>3, ListsMapped
  <2>5. IsList(Offered(f)) /\ NoteFree(Offered(f))  BY <1>3, <2>2, <2>4, JoinedByFree
  <2>6. IsList(f.text) /\ NoteFree(f.text) /\ IsList(<<"->">>) /\ NoteFree(<<"->">>)
    BY <1>3, <1>4, OneFree DEF IsFinding, Quiet
  <2>7. IsList(Why(f)) /\ NoteFree(Why(f))  BY <1>3, OneFree, EmptyFree, EmptyList
  <2>. HIDE DEF Offered, Why
  <2>8. IsList(f.text \o <<"->">>) /\ NoteFree(f.text \o <<"->">>)  BY <2>6, JoinedFree
  <2>9. IsList(f.text \o <<"->">> \o Offered(f)) /\ NoteFree(f.text \o <<"->">> \o Offered(f))
    BY <2>5, <2>8, JoinedFree
  <2>. QED  BY <2>7, <2>9, JoinedFree
<1>. HIDE DEF Issue
<1>5. Len(issues) \in Nat /\ DOMAIN issues = 1 .. Len(issues)  BY <1>2, ListLen DEF AreFindings
<1>6. said = [i \in 1 .. Len(issues) |-> said[i]]  BY <1>5
<1>7. \A i \in 1 .. Len(issues) : IsList(said[i]) /\ NoteFree(said[i])
  BY <1>2, <1>4, <1>5 DEF AreFindings, AreQuiet
<1>. HIDE DEF said
<1>8. IsList(said) /\ DOMAIN said = 1 .. Len(issues)  BY <1>5, <1>6, ListsMapped
<1>. QED  BY <1>1, <1>3, <1>7, <1>8, JoinedByFree

-----------------------------------------------------------------------------
\* The review of an answer is a function of the answer and of what it is asked with, as long
\* as no context checker is asked: where it stands behind each part, and where it ends.

Asked(q) == [lang |-> q.lang, variants |-> q.variants, config |-> q.config, explain |-> q.explain]

ToldLocale(c, part) == get_locale(part, c.lang, c.config.preferred_languages, c.variants)

\* What a part has, sorted out.
FoundIn(c, part) ==
  SortedOut(<<>>, witty_rules(part, LangOf[ToldLocale(c, part)], c.config), Sentences(part),
            {Sentences(part)[i].text : i \in DOMAIN Sentences(part)}, part,
            LangOf[ToldLocale(c, part)], c.config)

Stand(start, findings, words, language) ==
  [start |-> start, findings |-> findings, words |-> words, language |-> language]

AtFirst == Stand(0, <<>>, 0, Nothing)
Standing(j) == Stand(j.start, j.findings, j.words, j.language)

\* Behind the next part of an answer.
Onward(c, a, st) ==
  LET part == Part(Looked(a), st.start)
      next == st.start + Len(part)
      locale == ToldLocale(c, part)
  IN  IF locale = NoLocale THEN Stand(next, st.findings, st.words, st.language)
      ELSE Stand(next, st.findings \o Shifted(FoundIn(c, part), Shift(a, st.start)),
              st.words + WordsIn(part),
              IF st.language = Nothing THEN LangOf[locale] ELSE st.language)

IsOver(a, st) == ~(st.start < Len(Looked(a)))

\* Where a review stands after each of n parts.
Trail(c, a, t, n) ==
  /\ t[0] = AtFirst
  /\ \A k \in 0 .. n - 1 : ~IsOver(a, t[k]) /\ t[k + 1] = Onward(c, a, t[k])

Reaches(c, a, st) == \E n \in Nat : \E t : Trail(c, a, t, n) /\ t[n] = st

\* How the review of an answer ends.
Reviews(c, a, st) ==
  IF IsBlank(a) THEN st = AtFirst ELSE Reaches(c, a, st) /\ IsOver(a, st)

\* What a note says of an answer, Nothing where it passes.
IssueFor(c, st) ==
  LET threshold == IF c.config.guardrail_threshold = Nothing THEN DefaultThreshold
                   ELSE c.config.guardrail_threshold
      failed == IF st.language = Nothing THEN {}
                ELSE failed_on(st.findings, st.words, threshold)
  IN  IF failed = {} THEN Nothing ELSE issue_list(st.findings, c.explain)

Judges(c, a, issue) == \E st : Reviews(c, a, st) /\ issue = IssueFor(c, st)

LEMMA ReachesFirst == ASSUME NEW c, NEW a PROVE Reaches(c, a, AtFirst)
<1>. DEFINE t == [k \in {0} |-> AtFirst]
<1>1. t[0] = AtFirst /\ 0 .. 0 - 1 = {} /\ 0 \in Nat  OBVIOUS
<1>. HIDE DEF t
<1>2. Trail(c, a, t, 0)  BY <1>1 DEF Trail
<1>. QED  BY <1>1, <1>2 DEF Reaches

LEMMA ReachesNext ==
  ASSUME NEW c, NEW a, NEW st, Reaches(c, a, st), ~IsOver(a, st)
  PROVE  Reaches(c, a, Onward(c, a, st))
<1>0. PICK n \in Nat : \E t : Trail(c, a, t, n) /\ t[n] = st  BY DEF Reaches
<1>1. PICK t : Trail(c, a, t, n) /\ t[n] = st  BY <1>0
<1>. DEFINE next == Onward(c, a, st)
            u == [k \in 0 .. n + 1 |-> IF k <= n THEN t[k] ELSE next]
<1>. HIDE DEF next
<1>2. u[n + 1] = next /\ \A k \in 0 .. n : u[k] = t[k]  OBVIOUS
<1>. HIDE DEF u
<1>3. u[0] = AtFirst  BY <1>1, <1>2 DEF Trail
<1>4. ASSUME NEW k \in 0 .. (n + 1) - 1 PROVE ~IsOver(a, u[k]) /\ u[k + 1] = Onward(c, a, u[k])
  <2>1. CASE k = n  BY <1>1, <1>2, <2>1 DEF next
  <2>2. CASE k # n
    <3>1. k \in 0 .. n - 1 /\ k \in 0 .. n /\ k + 1 \in 0 .. n  BY <2>2
    <3>. QED  BY <1>1, <1>2, <3>1 DEF Trail
  <2>. QED  BY <2>1, <2>2
<1>5. Trail(c, a, u, n + 1)  BY <1>3, <1>4 DEF Trail
<1>6. n + 1 \in Nat  OBVIOUS
<1>. QED  BY <1>2, <1>5, <1>6 DEF Reaches, next

\* Two reviews of one answer go the same way, and end at the same.
LEMMA SameTrail ==
  ASSUME NEW c, NEW a, NEW n \in Nat, NEW t, Trail(c, a, t, n), IsOver(a, t[n]),
         NEW m \in Nat, NEW u, Trail(c, a, u, m), IsOver(a, u[m]), n <= m
  PROVE  t[n] = u[m]
<1>. DEFINE T == {k \in 0 .. n : t[k] = u[k]}
<1>1. 0 \in T  BY DEF Trail
<1>2. ASSUME NEW k \in 0 .. n - 1, k \in T PROVE k + 1 \in T
  <2>1. k \in 0 .. m - 1 /\ k + 1 \in 0 .. n  BY <1>2
  <2>2. t[k + 1] = Onward(c, a, t[k]) /\ u[k + 1] = Onward(c, a, u[k])  BY <2>1 DEF Trail
  <2>. QED  BY <1>2, <2>1, <2>2
<1>. HIDE DEF T
<1>3. \A k \in 0 .. n : k \in T  BY <1>1, <1>2, InductTo
<1>4. t[n] = u[n]
  <2>1. n \in 0 .. n  OBVIOUS
  <2>. QED  BY <1>3, <2>1 DEF T
<1>5. CASE n = m  BY <1>4, <1>5
<1>6. CASE n # m
  <2>1. n \in 0 .. m - 1  BY <1>6
  <2>2. ~IsOver(a, u[n])  BY <2>1 DEF Trail
  <2>. QED  BY <1>4, <2>2
<1>. QED  BY <1>5, <1>6

LEMMA ReviewedOnce ==
  ASSUME NEW c, NEW a, NEW st, Reviews(c, a, st), NEW other, Reviews(c, a, other)
  PROVE  st = other
<1>1. CASE IsBlank(a)  BY <1>1 DEF Reviews
<1>2. CASE ~IsBlank(a)
  <2>1. Reaches(c, a, st) /\ IsOver(a, st) /\ Reaches(c, a, other) /\ IsOver(a, other)
    BY <1>2 DEF Reviews
  <2>2. PICK n \in Nat : \E t : Trail(c, a, t, n) /\ t[n] = st  BY <2>1 DEF Reaches
  <2>3. PICK m \in Nat : \E u : Trail(c, a, u, m) /\ u[m] = other  BY <2>1 DEF Reaches
  <2>4. PICK t : Trail(c, a, t, n) /\ t[n] = st  BY <2>2
  <2>5. PICK u : Trail(c, a, u, m) /\ u[m] = other  BY <2>3
  <2>6. CASE n <= m  BY <2>1, <2>4, <2>5, <2>6, SameTrail
  <2>7. CASE m <= n  BY <2>1, <2>4, <2>5, <2>7, SameTrail
  <2>. QED  BY <2>6, <2>7
<1>. QED  BY <1>1, <1>2

LEMMA JudgedOnce ==
  ASSUME NEW c, NEW a, NEW issue, Judges(c, a, issue), NEW other, Judges(c, a, other)
  PROVE  issue = other
<1>1. PICK st : Reviews(c, a, st) /\ issue = IssueFor(c, st)  BY DEF Judges
<1>2. PICK at : Reviews(c, a, at) /\ other = IssueFor(c, at)  BY DEF Judges
<1>3. st = at  BY <1>1, <1>2, ReviewedOnce
<1>. QED  BY <1>1, <1>2, <1>3

\* A text's note is Witty's own if it is the one for the text before it.
Noted(c, text) ==
  HasNote(text) /\ NoteOf(text) # Nothing /\ Judges(c, BeforeNote(text), NoteOf(text))

Clears(c, text) == Judges(c, text, Nothing) /\ ~Noted(c, text)

\* What is to be sent on as it is.
Settled(c, text) == Noted(c, text) \/ Clears(c, text)

\* How a text is answered: it passes, or what was reviewed of it gets a note, which is the one
\* the text has if it is Witty's own.
Answered(c, text, answer, issue) ==
  IF issue = Nothing THEN Clears(c, text)
  ELSE /\ IsList(answer) /\ IsList(issue) /\ NoteFree(issue) /\ Judges(c, answer, issue)
       /\ \/ answer = text /\ ~Noted(c, text)
          \/ Noted(c, text) /\ text = answer \o <<Note>> \o issue

\* What becomes of it.
Outcome(text, answer, issue) ==
  IF issue = Nothing THEN text ELSE answer \o <<Note>> \o issue

\* A list with the mark behind it.
LEMMA MarkBehind ==
  ASSUME NEW a, IsList(a)
  PROVE  /\ IsList(a \o <<Note>>) /\ Len(a \o <<Note>>) = Len(a) + 1
         /\ \A i \in 1 .. Len(a) : (a \o <<Note>>)[i] = a[i]
         /\ (a \o <<Note>>)[Len(a) + 1] = Note
<1>1. ASSUME NEW mark, IsList(mark), Len(mark) = 1
      PROVE  /\ IsList(a \o mark) /\ Len(a \o mark) = Len(a) + 1
             /\ \A i \in 1 .. Len(a) : (a \o mark)[i] = a[i]
             /\ (a \o mark)[Len(a) + 1] = mark[1]
  <2>1. /\ IsList(a \o mark) /\ Len(a \o mark) = Len(a) + Len(mark)
        /\ \A i \in 1 .. Len(a) : (a \o mark)[i] = a[i]
    BY <1>1, Joined
  <2>2. \A i \in 1 .. Len(mark) : (a \o mark)[Len(a) + i] = mark[i]
    BY <1>1, Joined
  <2>. QED  BY <1>1, <2>1, <2>2
<1>2. IsList(<<Note>>) /\ Len(<<Note>>) = 1 /\ <<Note>>[1] = Note  BY OneIn
<1>. QED  BY <1>1, <1>2

\* A text with a note is what is before the last of them, the mark, and what is behind it.
LEMMA NoteParts ==
  ASSUME NEW text, IsList(text), HasNote(text)
  PROVE  /\ IsList(BeforeNote(text)) /\ IsList(NoteOf(text)) /\ BeforeNote(text) # text
         /\ text = BeforeNote(text) \o <<Note>> \o NoteOf(text)
<1>. DEFINE n == Len(text)
            m == LastNote(text)
            a == BeforeNote(text)
            b == NoteOf(text)
            ahead == a \o <<Note>>
            c == ahead \o b
<1>1. n \in Nat /\ m \in 1 .. n /\ text[m] = Note  BY NotesIn, ListLen
<1>2. a = SubSeq(text, 1, m - 1) /\ b = SubSeq(text, m + 1, n)  BY DEF BeforeNote, NoteOf
<1>. HIDE DEF m, a, b, n, c
<1>4. /\ IsList(a) /\ Len(a) = m - 1 /\ \A i \in 1 .. m - 1 : a[i] = text[i]
  <2>1. 1 \in Nat \ {0} /\ m - 1 \in 0 .. Len(text)  BY <1>1 DEF n
  <2>2. /\ IsList(a) /\ Len(a) = IF 1 <= m - 1 THEN (m - 1) - 1 + 1 ELSE 0
        /\ \A i \in 1 .. Len(a) : a[i] = text[1 + i - 1]
    BY <1>2, <2>1, Cutout
  <2>3. Len(a) = m - 1  BY <1>1, <2>2
  <2>4. \A i \in 1 .. m - 1 : 1 + i - 1 = i  BY <1>1
  <2>. QED  BY <2>2, <2>3, <2>4
<1>5. /\ IsList(b) /\ Len(b) = n - m /\ \A i \in 1 .. n - m : b[i] = text[m + i]
  <2>1. m + 1 \in Nat \ {0} /\ n \in 0 .. Len(text)  BY <1>1 DEF n
  <2>2. /\ IsList(b) /\ Len(b) = IF m + 1 <= n THEN n - (m + 1) + 1 ELSE 0
        /\ \A i \in 1 .. Len(b) : b[i] = text[m + 1 + i - 1]
    BY <1>2, <2>1, Cutout
  <2>3. Len(b) = n - m  BY <1>1, <2>2
  <2>4. \A i \in 1 .. n - m : m + 1 + i - 1 = m + i  BY <1>1
  <2>. QED  BY <2>2, <2>3, <2>4
<1>7. /\ IsList(ahead) /\ Len(ahead) = m /\ \A i \in 1 .. m : ahead[i] = text[i]
  <2>1. /\ IsList(ahead) /\ Len(ahead) = Len(a) + 1 /\ ahead[Len(a) + 1] = Note
        /\ \A i \in 1 .. Len(a) : ahead[i] = a[i]
    BY <1>4, MarkBehind
  <2>. HIDE DEF ahead
  <2>2. Len(a) + 1 = m /\ \A i \in 1 .. m : i = m \/ i \in 1 .. m - 1  BY <1>1, <1>4
  <2>. QED  BY <1>1, <1>4, <2>1, <2>2
<1>. HIDE DEF ahead
<1>8. /\ IsList(c) /\ Len(c) = n
      /\ \A i \in 1 .. m : c[i] = text[i] /\ \A k \in 1 .. n - m : c[m + k] = text[m + k]
  <2>1. IsList(ahead) /\ IsList(b)  BY <1>5, <1>7
  <2>2. /\ IsList(ahead \o b) /\ Len(ahead \o b) = Len(ahead) + Len(b)
        /\ \A i \in 1 .. Len(ahead) : (ahead \o b)[i] = ahead[i]
        /\ \A k \in 1 .. Len(b) : (ahead \o b)[Len(ahead) + k] = b[k]
    BY <2>1, Joined
  <2>3. m + (n - m) = n  BY <1>1
  <2>. QED  BY <1>5, <1>7, <2>2, <2>3 DEF c
<1>9. \A i \in 1 .. n : c[i] = text[i]
  <2>1. ASSUME NEW i \in 1 .. n, i \notin 1 .. m PROVE c[i] = text[i]
    <3>1. i - m \in 1 .. n - m /\ m + (i - m) = i  BY <1>1, <2>1
    <3>2. m \in 1 .. m  BY <1>1
    <3>. QED  BY <1>8, <3>1, <3>2
  <2>. QED  BY <1>8, <2>1
<1>10. c = text  BY <1>8, <1>9, SameList DEF n
<1>11. a # text  BY <1>1, <1>4 DEF n
<1>. QED  BY <1>4, <1>5, <1>10, <1>11 DEF c, a, b, ahead

\* A note that has no mark in it is found again, whole.
LEMMA NoteFoundAgain ==
  ASSUME NEW answer, IsList(answer), NEW issue, IsList(issue), NoteFree(issue)
  PROVE  LET text == answer \o <<Note>> \o issue
         IN  IsList(text) /\ HasNote(text) /\ BeforeNote(text) = answer /\ NoteOf(text) = issue
<1>. DEFINE text == answer \o <<Note>> \o issue
            ahead == answer \o <<Note>>
            n == Len(answer)
            k == Len(issue)
<1>2. n \in Nat /\ k \in Nat /\ DOMAIN issue = 1 .. k  BY ListLen
<1>3. /\ IsList(ahead) /\ Len(ahead) = n + 1 /\ ahead[n + 1] = Note
      /\ \A i \in 1 .. n : ahead[i] = answer[i]
  BY MarkBehind
<1>4. text = ahead \o issue  OBVIOUS
<1>. HIDE DEF text, ahead, n
<1>5. /\ IsList(text) /\ Len(text) = n + 1 + k /\ DOMAIN text = 1 .. n + 1 + k
      /\ \A i \in 1 .. n + 1 : text[i] = ahead[i]
      /\ \A i \in 1 .. k : text[n + 1 + i] = issue[i]
  <2>1. IsList(ahead) /\ IsList(issue)  BY <1>3
  <2>2. /\ IsList(ahead \o issue) /\ Len(ahead \o issue) = Len(ahead) + Len(issue)
        /\ DOMAIN (ahead \o issue) = 1 .. Len(ahead) + Len(issue)
        /\ \A i \in 1 .. Len(ahead) : (ahead \o issue)[i] = ahead[i]
        /\ \A i \in 1 .. Len(issue) : (ahead \o issue)[Len(ahead) + i] = issue[i]
    BY <2>1, Joined
  <2>. QED  BY <1>3, <1>4, <2>2
<1>. HIDE DEF k
<1>6. n + 1 \in DOMAIN text /\ text[n + 1] = Note  BY <1>2, <1>3, <1>5
<1>7. HasNote(text)  BY <1>6 DEF HasNote
<1>8. LastNote(text) = n + 1
  <2>. DEFINE N == {i \in DOMAIN text : text[i] = Note}
  <2>1. N \subseteq Nat /\ n + 1 \in N  BY <1>2, <1>5, <1>6
  <2>2. ASSUME NEW y \in N PROVE y <= n + 1
    <3>1. y \in 1 .. n + 1 + k /\ text[y] = Note  BY <1>5, <2>2
    <3>2. CASE y > n + 1
      <4>1. y - (n + 1) \in 1 .. k /\ n + 1 + (y - (n + 1)) = y  BY <1>2, <3>1, <3>2
      <4>2. text[y] = issue[y - (n + 1)]  BY <1>5, <4>1
      <4>. QED  BY <1>2, <3>1, <4>1, <4>2 DEF NoteFree
    <3>. QED  BY <1>2, <3>1, <3>2
  <2>. HIDE DEF N
  <2>3. Max(N) = n + 1  BY <2>1, <2>2, MaxOf
  <2>. QED  BY <2>3 DEF LastNote, N
<1>9. BeforeNote(text) = answer
  <2>. DEFINE before == BeforeNote(text)
  <2>1. before = SubSeq(text, 1, n)
    <3>1. (n + 1) - 1 = n  BY <1>2
    <3>. QED  BY <1>8, <3>1 DEF BeforeNote
  <2>2. 1 \in Nat \ {0} /\ n \in 0 .. Len(text)  BY <1>2, <1>5
  <2>. HIDE DEF before
  <2>3. /\ IsList(before) /\ Len(before) = IF 1 <= n THEN n - 1 + 1 ELSE 0
        /\ \A i \in 1 .. Len(before) : before[i] = text[1 + i - 1]
    BY <1>5, <2>1, <2>2, Cutout
  <2>4. Len(before) = n  BY <1>2, <2>3
  <2>5. \A i \in 1 .. n : 1 + i - 1 = i /\ i \in 1 .. n + 1  BY <1>2
  <2>6. \A i \in 1 .. Len(before) : before[i] = answer[i]  BY <1>3, <1>5, <2>3, <2>4, <2>5
  <2>7. before = answer  BY <2>3, <2>4, <2>6, SameList DEF n
  <2>. QED  BY <2>7 DEF before
<1>10. NoteOf(text) = issue
  <2>. DEFINE from == n + 2
              to == n + 1 + k
              behind == SubSeq(text, from, to)
  <2>1. NoteOf(text) = behind
    <3>1. (n + 1) + 1 = n + 2  BY <1>2
    <3>. QED  BY <1>5, <1>8, <3>1 DEF NoteOf
  <2>2. from \in Nat \ {0} /\ to \in 0 .. Len(text) /\ IsList(text)  BY <1>2, <1>5
  <2>. HIDE DEF from, to
  <2>3. /\ IsList(behind) /\ Len(behind) = IF from <= to THEN to - from + 1 ELSE 0
        /\ \A i \in 1 .. Len(behind) : behind[i] = text[from + i - 1]
    BY <2>2, Cutout
  <2>. HIDE DEF behind
  <2>. USE DEF from, to
  <2>4. Len(behind) = k  BY <1>2, <2>3
  <2>5. \A i \in 1 .. k : n + 2 + i - 1 = n + 1 + i  BY <1>2
  <2>6. \A i \in 1 .. Len(behind) : behind[i] = issue[i]  BY <1>5, <2>3, <2>4, <2>5
  <2>7. behind = issue  BY <2>3, <2>4, <2>6, SameList DEF k
  <2>. QED  BY <2>1, <2>7
<1>. QED  BY <1>5, <1>7, <1>9, <1>10 DEF text

\* What a text becomes is settled, and has a note if it got one.
LEMMA OutcomeSettled ==
  ASSUME NEW c, NEW text, NEW answer, NEW issue, Answered(c, text, answer, issue)
  PROVE  /\ Settled(c, Outcome(text, answer, issue))
         /\ issue # Nothing => Noted(c, Outcome(text, answer, issue))
<1>1. CASE issue = Nothing  BY <1>1 DEF Answered, Outcome, Settled
<1>2. CASE issue # Nothing
  <2>. DEFINE out == answer \o <<Note>> \o issue
  <2>1. IsList(answer) /\ IsList(issue) /\ NoteFree(issue) /\ Judges(c, answer, issue)
    BY <1>2 DEF Answered
  <2>2. HasNote(out) /\ BeforeNote(out) = answer /\ NoteOf(out) = issue
    BY <2>1, NoteFoundAgain
  <2>3. Outcome(text, answer, issue) = out  BY <1>2 DEF Outcome
  <2>. HIDE DEF out
  <2>4. Noted(c, out)  BY <1>2, <2>1, <2>2 DEF Noted
  <2>. QED  BY <2>3, <2>4 DEF Settled
<1>. QED  BY <1>1, <1>2

\* What is settled stays as it is.
LEMMA SettledStays ==
  ASSUME NEW c, NEW text, Settled(c, text), NEW answer, NEW issue,
         Answered(c, text, answer, issue)
  PROVE  Outcome(text, answer, issue) = text /\ (Noted(c, text) => issue # Nothing)
<1>1. CASE issue = Nothing  BY <1>1 DEF Answered, Outcome, Clears
<1>2. CASE issue # Nothing /\ Noted(c, text)
  BY <1>2 DEF Answered, Outcome
<1>3. CASE issue # Nothing /\ ~Noted(c, text)
  <2>1. Judges(c, text, Nothing) /\ Judges(c, text, issue)
    BY <1>3 DEF Answered, Settled, Clears
  <2>. QED  BY <1>3, <2>1, JudgedOnce
<1>. QED  BY <1>1, <1>2, <1>3

-----------------------------------------------------------------------------
\* What LiteLLM sends, and sends on.

\* q is one of the clients' requests, as it was sent or as it is sent on.
Comes(q) ==
  \E r \in Requests :
    /\ q.route = r.route /\ q.config.term_replacements = r.config.term_replacements
    /\ r.texts = <<>> => q.texts = <<>>

AllSettled(c, texts) ==
  /\ \A i \in DOMAIN texts : Settled(c, texts[i])
  /\ \E i \in DOMAIN texts : Noted(c, texts[i])

\* What is known of a request that is reviewed, text by text.
IsReviewing(r) == GuardrailUser(r) /\ Reviewed(r) = r

\* What is sent again is to stay as it is.
StaysAsItIs(r) == AllSettled(Asked(r), r.texts) /\ IsReviewing(r) /\ r.on_fail # "block"

LEMMA OnlyLitellm ==
  ASSUME NEW q, Comes(q)
  PROVE  /\ q.route # "litellm" => q.texts = <<>>
         /\ QuietTerms(q.config)
<1>1. PICK r \in Requests : /\ q.route = r.route
                            /\ q.config.term_replacements = r.config.term_replacements
                            /\ r.texts = <<>> => q.texts = <<>>
  BY DEF Comes
<1>2. q.route # "litellm" => q.texts = <<>>  BY <1>1, ConversationsAssumption
<1>3. QuietTerms(q.config)
  <2>1. r.config.term_replacements \subseteq UNION {x.config.term_replacements : x \in Requests}
    OBVIOUS
  <2>. QED  BY <1>1, <2>1, NotesAssumption DEF QuietTerms
<1>. QED  BY <1>2, <1>3

LEMMA ReviewedTwice ==
  ASSUME NEW r, IsRequest(r)
  PROVE  /\ Reviewed(Reviewed(r)) = Reviewed(r) /\ IsRequest(Reviewed(r))
         /\ Reviewed(r).texts = r.texts /\ Reviewed(r).route = r.route
         /\ Reviewed(r).on_fail = r.on_fail /\ Reviewed(r).checker = r.checker
         /\ Reviewed(r).config.term_replacements = r.config.term_replacements
         /\ GuardrailUser(Reviewed(r)) = GuardrailUser(r)
<1>1. IsRequest(Reviewed(r)) /\ Reviewed(r).texts = r.texts /\ Reviewed(r).route = r.route
  BY RequestWith
<1>. DEFINE c == [r.config EXCEPT !.disabled = @ \union Inclusive]
            q == [r EXCEPT !.config = c]
<1>2. "config" \in DOMAIN r /\ "disabled" \in DOMAIN r.config  BY DEF IsRequest, IsConfig
<1>3. Reviewed(r) = q  BY <1>2 DEF Reviewed
<1>4. [c EXCEPT !.disabled = @ \union Inclusive] = c  BY <1>2
<1>5. /\ c.term_replacements = r.config.term_replacements  BY DEF IsRequest, IsConfig
<1>. HIDE DEF c
<1>6. q.config = c /\ q.on_fail = r.on_fail /\ q.checker = r.checker
      /\ q.credential = r.credential /\ q.require_auth = r.require_auth
  BY DEF IsRequest
<1>7. [q EXCEPT !.config = c] = q  BY <1>2
<1>. HIDE DEF q
<1>8. Reviewed(q) = q
  <2>1. Reviewed(q) = [q EXCEPT !.config = [q.config EXCEPT !.disabled = @ \union Inclusive]]
    BY DEF Reviewed
  <2>. QED  BY <1>4, <1>6, <1>7, <2>1
<1>9. GuardrailUser(q) = GuardrailUser(r)  BY <1>6 DEF GuardrailUser, HasUserConfig
<1>. QED  BY <1>1, <1>3, <1>5, <1>6, <1>8, <1>9

\* The same is asked of the same request with other texts.
LEMMA WithTexts ==
  ASSUME NEW r, IsRequest(r), NEW texts
  PROVE  LET q == [r EXCEPT !.texts = texts]
         IN  /\ q.texts = texts /\ Asked(q) = Asked(r) /\ q.route = r.route
             /\ q.on_fail = r.on_fail /\ q.checker = r.checker
             /\ q.config.term_replacements = r.config.term_replacements
             /\ IsReviewing(r) => IsReviewing(q)
<1>. DEFINE q == [r EXCEPT !.texts = texts]
<1>1. /\ DOMAIN q = DOMAIN r /\ q.texts = texts /\ \A f \in DOMAIN r : f # "texts" => q[f] = r[f]
  BY DEF IsRequest
<1>2. /\ q.lang = r.lang /\ q.variants = r.variants /\ q.config = r.config
      /\ q.explain = r.explain /\ q.route = r.route /\ q.on_fail = r.on_fail
      /\ q.checker = r.checker /\ q.credential = r.credential
      /\ q.require_auth = r.require_auth
  BY <1>1, SMTT(30) DEF IsRequest
<1>3. Asked(q) = Asked(r)  BY <1>2 DEF Asked
<1>4. GuardrailUser(r) => GuardrailUser(q)  BY <1>2 DEF GuardrailUser, HasUserConfig
<1>5. ASSUME Reviewed(r) = r PROVE Reviewed(q) = q
  <2>. DEFINE c == [r.config EXCEPT !.disabled = @ \union Inclusive]
  <2>1. "config" \in DOMAIN r  BY DEF IsRequest
  <2>2. r = [r EXCEPT !.config = c]  BY <1>5 DEF Reviewed
  <2>. HIDE DEF c
  <2>3. [r EXCEPT !.config = c].config = c  BY <2>1
  <2>4. r.config = c  BY <2>2, <2>3
  <2>5. Reviewed(q) = [q EXCEPT !.config = c]
    BY <1>2 DEF Reviewed, c
  <2>6. q = [f \in DOMAIN q |-> q[f]]  OBVIOUS
  <2>. HIDE DEF q
  <2>7. [q EXCEPT !.config = c] = q  BY <1>2, <2>4, <2>6
  <2>. QED  BY <2>5, <2>7
<1>. QED  BY <1>1, <1>2, <1>3, <1>4, <1>5 DEF IsReviewing

\* What a job is for is the request, or what is made of it.
LEMMA OpenedRequest ==
  ASSUME NEW r, IsRequest(r), Comes(r), r.route # "litellm"
  PROVE  Opened(r).request.route = r.route /\ Comes(Opened(r).request)
<1>1. ASSUME NEW response PROVE Done(Started(r), response).request = r
  BY StartedIs DEF Done, IsFresh, JobFields
<1>2. CASE r.route = "check"
  <2>1. [Started(r) EXCEPT !.stage = "read", !.answer = r.text].request = r
    BY StartedIs DEF IsFresh, JobFields
  <2>2. Opened(r).request = r
    BY <1>1, <1>2, <2>1 DEF Opened, OpenedCheck
  <2>. QED  BY <2>2
<1>3. CASE r.route = "lt"
  <2>. DEFINE data == r.text = <<>> /\ r.annotations # <<>>
              text == IF data THEN TextOf(r.annotations) ELSE r.text
              spans == IF data THEN markup_spans(r.annotations) ELSE {}
              lang == resolve_lang(r.code)
              q == [r EXCEPT !.lang = lang]
              j == [Started(r) EXCEPT !.stage = "read", !.request.lang = lang,
                                      !.answer = text, !.spans = spans]
  <2>. HIDE DEF text, spans, lang
  <2>1. j.request = q  BY StartedIs DEF IsFresh, JobFields
  <2>. HIDE DEF j
  <2>2. \/ OpenedLt(r) = Done(Started(r), Refusal)
        \/ OpenedLt(r) = Done(Started(r), Matched(<<>>, <<>>))
        \/ OpenedLt(r) = j
    BY DEF OpenedLt, text, spans, lang, j
  <2>3. Opened(r) = OpenedLt(r)  BY <1>3 DEF Opened
  <2>4. q.route = r.route /\ q.texts = r.texts /\ q.config = r.config  BY DEF IsRequest
  <2>. HIDE DEF q
  <2>5. Comes(q)  BY <2>4 DEF Comes
  <2>6. Opened(r).request = r \/ Opened(r).request = q
    <3>1. CASE OpenedLt(r) = j  BY <2>1, <2>3, <3>1
    <3>2. CASE OpenedLt(r) # j  BY <1>1, <2>2, <2>3, <3>2
    <3>. QED  BY <3>1, <3>2
  <2>. QED  BY <2>4, <2>5, <2>6
<1>4. CASE r.route = "guardrail"
  <2>. DEFINE q == Reviewed(r)
  <2>1. q.route = r.route /\ Comes(q)  BY ReviewedTwice DEF Comes
  <2>. HIDE DEF q
  <2>2. [Started(q) EXCEPT !.stage = "read", !.answer = r.text].request = q
    BY StartedIs DEF IsFresh, JobFields
  <2>3. Opened(r).request \in {q, r}
    BY <1>1, <1>4, <2>2 DEF Opened, OpenedGuardrail, q
  <2>. QED  BY <2>1, <2>3
<1>5. CASE r.route = "input"
  <2>1. Opened(r).request = r  BY <1>1, <1>5 DEF Opened, OpenedInput
  <2>. QED  BY <2>1
<1>6. CASE r.route = "form"
  <2>. DEFINE d == Done(Started(r), Nothing)
  <2>1. Opened(r) = [d EXCEPT !.form = r.form.written, !.format = r.form.format]
    BY <1>6 DEF Opened
  <2>2. DOMAIN d = JobFields /\ d.request = r  BY <1>1, StartedIs DEF Done, IsFresh
  <2>. HIDE DEF d
  <2>3. Opened(r).request = r  BY <2>1, <2>2 DEF JobFields
  <2>. QED  BY <2>3
<1>. QED  BY <1>2, <1>3, <1>4, <1>5, <1>6 DEF IsRequest, Routes

LEMMA OpenedSays ==
  ASSUME NEW r, IsRequest(r), r.route # "litellm", Opened(r).stage = "done"
  PROVE  \/ r.route = "form" /\ Opened(r).response = Nothing
         \/ Opened(r).response.kind # "texts"
<1>1. CASE r.route = "form"
  <2>. DEFINE d == Done(Started(r), Nothing)
  <2>1. Opened(r) = [d EXCEPT !.form = r.form.written, !.format = r.form.format]
    BY <1>1 DEF Opened
  <2>2. DOMAIN d = JobFields /\ d.response = Nothing
    BY StartedIs DEF Done, IsFresh, JobFields
  <2>. HIDE DEF d
  <2>. QED  BY <1>1, <2>1, <2>2 DEF JobFields
<1>2. CASE SaysNothing(Opened(r).response)
  BY <1>2 DEF SaysNothing, Refusal, Results, Matched
<1>3. CASE Opened(r).response = Chat(merge_guidance(r.messages, guidance(r.config, r.lang)))
  BY <1>3 DEF Chat
<1>. QED  BY <1>1, <1>2, <1>3, OpenedDone

\* Where the review will stand once the part that is read is sorted out.
StandingBehind(j) ==
  Stand(j.start + Len(j.part),
        j.findings \o
          Shifted(SortedOut(j.lt_results, j.found, Sentences(j.part),
                            {Sentences(j.part)[i].text : i \in DOMAIN Sentences(j.part)},
                            j.part, LangOf[j.locale], j.request.config),
                  Shift(j.answer, j.start)),
        j.words, j.language)

\* Where a job is in the review of its answer.
IsOnTrail(c, j) ==
  CASE j.stage = "read" -> ~IsBlank(j.answer) /\ Reaches(c, j.answer, Standing(j))
    [] j.stage = "sort" ->
         /\ ~IsBlank(j.answer) /\ Reaches(c, j.answer, StandingBehind(j))
         /\ AreQuiet(j.found) /\ j.lt_results = <<>>
    [] j.stage = "verdict" -> Reviews(c, j.answer, Standing(j))
    [] OTHER -> FALSE

\* What is reviewed is the text as a whole, once its note is known not to be Witty's own.
IsOfText(c, text, answer, whole) ==
  IF whole THEN answer = text /\ ~Noted(c, text)
  ELSE HasNote(text) /\ answer = BeforeNote(text)

\* The texts so far, each with its answer and its note.
AreAnswered(c, texts, answers, issues) ==
  \A i \in DOMAIN issues : Answered(c, texts[i], answers[i], issues[i])

\* A job that reviews texts.
InNotes(j) ==
  LET c == Asked(j.request)
      texts == j.request.texts
  IN  /\ IsReviewing(j.request) /\ AreQuiet(j.findings)
      /\ IsOnTrail(c, j)
      /\ IsOfText(c, texts[j.index], j.answer, j.whole)
      /\ Len(j.issues) = j.index - 1
      /\ AreAnswered(c, texts, j.answers, j.issues)
      /\ j.resends > 0 => StaysAsItIs(j.request)

\* A job that has answered.
HasNotes(j) ==
  /\ j.response.kind = "texts" => j.request.texts # <<>>
  /\ j.response.kind = "messages" => j.request.texts = <<>>
  /\ j.request.texts # <<>> /\ j.request.checker = "none" =>
       /\ j.resends > 0 => j.response = [kind |-> "texts", texts |-> j.request.texts]
       /\ j.response.kind = "texts" =>
            /\ IsReviewing(j.request) /\ j.request.on_fail # "block"
            /\ AllSettled(Asked(j.request), j.response.texts)

\* A form is switched, and answers nothing.
IsForm(j) == j.request.route = "form" /\ j.response = Nothing

IsNoting(j) ==
  j.stage # "idle" =>
    /\ Comes(j.request)
    /\ j.stage \in DOMAIN Rank /\ j.request.route = "litellm" /\ j.request.checker = "none" =>
         InNotes(j)
    /\ j.stage = "done" => IsForm(j) \/ HasNotes(j)

LEMMA NotIdle == ASSUME NEW s \in DOMAIN Rank PROVE s \notin {"idle", "done", "failed"}
BY RankIs

\* A job of another route has no texts, and answers none.
LEMMA ElseNoting ==
  ASSUME NEW j, Comes(j.request), j.request.route # "litellm",
         j.stage = "done" => IsForm(j) \/ j.response.kind # "texts"
  PROVE  IsNoting(j)
<1>1. j.request.texts = <<>>  BY OnlyLitellm
<1>2. j.stage = "done" => IsForm(j) \/ HasNotes(j)  BY <1>1 DEF HasNotes
<1>. QED  BY <1>2 DEF IsNoting

LEMMA StaysNoting ==
  ASSUME NEW j, IsNoting(j), j.stage = "done", NEW k, Stays(j, k, {"form", "format"})
  PROVE  IsNoting(k)
<1>1. k.stage = j.stage /\ k.request = j.request /\ k.response = j.response /\ k.resends = j.resends
  BY DEF Stays, JobFields
<1>2. k.stage \notin DOMAIN Rank  BY <1>1, NotIdle
<1>. QED  BY <1>1, <1>2 DEF IsNoting, HasNotes, IsForm

\* The review of a text begins at its beginning.
LEMMA FirstOnTrail ==
  ASSUME NEW c, NEW j, NEW k, NEW index, NEW text, NEW whole,
         ReviewGoesOn(j, k, index, text, whole)
  PROVE  IsOnTrail(c, k) /\ AreQuiet(k.findings)
<1>1. /\ k.stage = IF IsBlank(text) THEN "verdict" ELSE "read"
      /\ k.answer = text /\ k.start = 0 /\ k.words = 0 /\ k.findings = <<>>
      /\ k.language = Nothing
  BY DEF ReviewGoesOn
<1>2. Standing(k) = AtFirst  BY <1>1 DEF Standing, AtFirst
<1>3. CASE IsBlank(text)
  <2>1. Reviews(c, k.answer, Standing(k))  BY <1>1, <1>2, <1>3 DEF Reviews
  <2>. QED  BY <1>1, <1>3, <2>1, EmptyFree DEF IsOnTrail
<1>4. CASE ~IsBlank(text)
  <2>1. Reaches(c, k.answer, Standing(k))  BY <1>2, ReachesFirst
  <2>. QED  BY <1>1, <1>4, <2>1, EmptyFree DEF IsOnTrail
<1>. QED  BY <1>3, <1>4

\* What is reviewed of a text first.
LEMMA FirstOfText ==
  ASSUME NEW c, NEW text, IsList(text)
  PROVE  IsOfText(c, text, FirstReviewed(text), FirstReviewed(text) = text)
<1>1. CASE HasNote(text)
  <2>1. FirstReviewed(text) = BeforeNote(text) /\ BeforeNote(text) # text
    BY <1>1, NoteParts DEF FirstReviewed
  <2>. QED  BY <1>1, <2>1 DEF IsOfText
<1>2. CASE ~HasNote(text)
  <2>1. FirstReviewed(text) = text  BY <1>2 DEF FirstReviewed
  <2>. QED  BY <1>2, <2>1 DEF IsOfText, Noted
<1>. QED  BY <1>1, <1>2

\* A request is opened, sent again or not.
LEMMA OpenedNoting ==
  ASSUME NEW r, IsRequest(r), Comes(r), NEW k, Stays(Opened(r), k, {"resends"}),
         k.resends \in Nat,
         r.texts # <<>> /\ k.resends > 0 /\ r.checker = "none" => StaysAsItIs(r)
  PROVE  IsNoting(k)
<1>. DEFINE o == Opened(r)
<1>1. /\ k.stage = o.stage /\ k.request = o.request /\ k.response = o.response
      /\ k.index = o.index /\ k.answer = o.answer /\ k.whole = o.whole /\ k.issues = o.issues
      /\ k.answers = o.answers /\ k.findings = o.findings /\ k.start = o.start
      /\ k.words = o.words /\ k.language = o.language
  BY DEF Stays, JobFields
<1>. HIDE DEF o
<1>2. ASSUME r.route = "litellm", NEW response,
             o = Done(Started(r), response),
             \/ response.kind = "refused" /\ ~GuardrailUser(r)
             \/ response.kind = "messages" /\ r.texts = <<>>
      PROVE  IsNoting(k)
  <2>1. o.stage = "done" /\ o.request = r /\ o.response = response
    BY <1>2, StartedIs DEF Done, IsFresh, JobFields
  <2>2. HasNotes(k)
    <3>1. k.resends > 0 /\ r.texts # <<>> /\ r.checker = "none" => GuardrailUser(r)
      BY DEF StaysAsItIs, IsReviewing
    <3>. QED  BY <1>1, <1>2, <2>1, <3>1 DEF HasNotes
  <2>3. k.stage \notin DOMAIN Rank  BY <1>1, <2>1, NotIdle
  <2>. QED  BY <1>1, <2>1, <2>2, <2>3 DEF IsNoting
<1>3. ASSUME r.route = "litellm", GuardrailUser(r), r.texts # <<>>,
             o = Reviewing(Started(Reviewed(r)), 1, FirstReviewed(r.texts[1]),
                           FirstReviewed(r.texts[1]) = r.texts[1])
      PROVE  IsNoting(k)
  <2>. DEFINE q == Reviewed(r)
              text == r.texts[1]
              first == FirstReviewed(text)
              whole == first = text
  <2>1. /\ IsFresh(Started(q)) /\ Started(q).request = q /\ DOMAIN Started(q) = JobFields
    BY StartedIs DEF IsFresh
  <2>2. ReviewGoesOn(Started(q), Reviewing(Started(q), 1, first, whole), 1, first, whole)
    <3>. HIDE DEF q, first, whole
    <3>. QED  BY <2>1, ReviewingGives
  <2>3. IsList(text)
    <3>1. IsList(r.texts) /\ (\A i \in DOMAIN r.texts : IsList(r.texts[i]))  BY DEF IsRequest
    <3>2. 1 \in DOMAIN r.texts
      <4>1. Len(r.texts) # 0  BY <1>3, <3>1, LenZero
      <4>. QED  BY <3>1, <4>1, ListLen
    <3>. QED  BY <3>1, <3>2
  <2>4. /\ q.texts = r.texts /\ q.route = r.route /\ Comes(q) /\ IsReviewing(q)
        /\ q.checker = r.checker /\ (IsReviewing(r) => q = r)
    <3>1. Comes(q)  BY ReviewedTwice DEF Comes
    <3>. QED  BY <1>3, <3>1, ReviewedTwice DEF IsReviewing
  <2>. HIDE DEF q
  <2>5. ReviewGoesOn(Started(q), o, 1, first, whole)
    BY <1>3, <2>2 DEF q
  <2>6. IsOfText(Asked(q), text, first, whole)  BY <2>3, FirstOfText
  <2>. HIDE DEF first, whole
  <2>7. /\ o.request = q /\ o.issues = <<>> /\ o.answers = <<>> /\ o.index = 1
        /\ o.answer = first /\ o.whole = whole /\ o.stage \in {"read", "verdict"}
    BY <2>1, <2>5 DEF ReviewGoesOn, Stays, JobFields, IsFresh
  <2>8. IsOnTrail(Asked(q), o) /\ AreQuiet(o.findings)  BY <2>5, FirstOnTrail
  <2>9. IsOnTrail(Asked(q), k)
    <3>1. Standing(k) = Standing(o)  BY <1>1 DEF Standing
    <3>. QED  BY <1>1, <2>7, <2>8, <3>1 DEF IsOnTrail
  <2>10. Len(<<>>) = 1 - 1 /\ DOMAIN (<<>>) = {}  BY EmptyList, ListLen
  <2>11. AreAnswered(Asked(q), q.texts, k.answers, k.issues)
    BY <1>1, <2>7, <2>10 DEF AreAnswered
  <2>12. q.checker = "none" /\ k.resends > 0 => StaysAsItIs(q)
    BY <1>3, <2>4 DEF StaysAsItIs
  <2>13. q.checker = "none" => InNotes(k)
    BY <1>1, <2>4, <2>6, <2>7, <2>8, <2>9, <2>10, <2>11, <2>12 DEF InNotes
  <2>. QED  BY <1>1, <2>4, <2>7, <2>13 DEF IsNoting
<1>4. CASE r.route = "litellm"
  <2>. DEFINE chat == Chat(with_guidance(r.messages, guidance(r.config, r.lang)))
  <2>1. o = OpenedLitellm(r)  BY <1>4 DEF Opened, o
  <2>2. chat.kind = "messages" /\ Refusal.kind = "refused"  BY DEF Chat, Refusal
  <2>3. CASE ~GuardrailUser(r)
    <3>1. o = Done(Started(r), Refusal)  BY <2>1, <2>3 DEF OpenedLitellm
    <3>. QED  BY <1>2, <1>4, <2>2, <2>3, <3>1
  <2>4. CASE GuardrailUser(r) /\ r.texts = <<>>
    <3>1. o = Done(Started(r), chat)  BY <2>1, <2>4 DEF OpenedLitellm
    <3>. HIDE DEF chat
    <3>. QED  BY <1>2, <1>4, <2>2, <2>4, <3>1
  <2>5. CASE GuardrailUser(r) /\ r.texts # <<>>
    <3>1. o = Reviewing(Started(Reviewed(r)), 1, FirstReviewed(r.texts[1]),
                        FirstReviewed(r.texts[1]) = r.texts[1])
      BY <2>1, <2>5 DEF OpenedLitellm
    <3>. QED  BY <1>3, <1>4, <2>5, <3>1
  <2>. QED  BY <2>3, <2>4, <2>5
<1>5. CASE r.route # "litellm"
  <2>1. o.request.route = r.route /\ Comes(o.request)
    BY <1>5, OpenedRequest DEF o
  <2>2. o.stage = "done" => \/ r.route = "form" /\ o.response = Nothing
                            \/ o.response.kind # "texts"
    BY <1>5, OpenedSays DEF o
  <2>3. k.stage = "done" => IsForm(k) \/ k.response.kind # "texts"
    BY <1>1, <2>1, <2>2 DEF IsForm
  <2>. QED  BY <1>1, <1>5, <2>1, <2>3, ElseNoting
<1>. QED  BY <1>4, <1>5

\* What is read of a part goes on the trail of its answer.
LEMMA ReadTells ==
  ASSUME DOMAIN job = JobFields, NEW part, NEW next
  PROVE  LET k == Read(part, next)
             locale == LocaleFor(job.request, part)
         IN  \/ locale = NoLocale /\ k = next
             \/ ReadFailed(job, k, part)
             \/ /\ locale # NoLocale /\ ReadOn(job, k, part)
                /\ k.language = IF job.language = Nothing THEN LangOf[locale] ELSE job.language
<1>. DEFINE k == Read(part, next)
            locale == LocaleFor(job.request, part)
            lang == LangOf[locale]
            stage == IF IsGuardrail(job.request) THEN "sort" ELSE "languagetool"
            found == witty_rules(part, lang, job.request.config)
            told == IF job.language = Nothing THEN lang ELSE job.language
            o == [job EXCEPT !.stage = stage, !.locale = locale, !.part = part,
                             !.language = told,
                             !.words = @ + WordsIn(part), !.lt_results = <<>>,
                             !.found = found]
<1>1. CASE locale = NoLocale
  <2>1. k = next  BY <1>1 DEF Read
  <2>. QED  BY <1>1, <2>1
<1>2. CASE locale # NoLocale /\ ~Loaded(locale)
  <2>1. k = [job EXCEPT !.stage = "failed", !.locale = locale]  BY <1>2 DEF Read
  <2>. HIDE DEF k, locale
  <2>2. Stays(job, k, {"stage", "locale"}) /\ k.stage = "failed" /\ k.locale = locale
    BY <2>1 DEF Stays, JobFields
  <2>3. locale = LocaleFor(job.request, part)  BY DEF locale
  <2>4. ReadFailed(job, k, part)  BY <1>2, <2>2, <2>3 DEF ReadFailed
  <2>. QED  BY <2>4 DEF k
<1>3. CASE locale # NoLocale /\ Loaded(locale)
  <2>1. k = o  BY <1>3 DEF Read
  <2>2. locale = LocaleFor(job.request, part) /\ lang = LangOf[LocaleFor(job.request, part)]
    OBVIOUS
  <2>. HIDE DEF locale, lang, found, told, stage
  <2>3. /\ Stays(job, o, {"stage", "locale", "part", "language", "words", "lt_results", "found"})
        /\ o.stage = stage /\ o.language = told
        /\ o.locale = locale /\ o.part = part /\ o.words = job.words + WordsIn(part)
        /\ o.lt_results = <<>> /\ o.found = found
    BY DEF Stays, JobFields
  <2>. HIDE DEF o
  <2>4. ReadOn(job, o, part)  BY <2>2, <2>3 DEF ReadOn, found, stage
  <2>5. o.language = IF job.language = Nothing THEN LangOf[locale] ELSE job.language
    BY <2>3 DEF told, lang
  <2>6. ReadOn(job, k, part) /\ k.language = IF job.language = Nothing THEN LangOf[locale]
                                             ELSE job.language
    BY <2>1, <2>4, <2>5
  <2>. HIDE DEF k
  <2>. QED  BY <1>3, <2>6 DEF k, locale
<1>. QED  BY <1>1, <1>2, <1>3

LEMMA ReadAnswerTells ==
  ASSUME IsGood(job), ReadAnswer, job.request.route = "litellm"
  PROVE  LET part == Part(Looked(job.answer), job.start)
             locale == ToldLocale(Asked(job.request), part)
         IN  \/ /\ IsOver(job.answer, Standing(job))
                /\ Stays(job, job', {"stage"}) /\ job'.stage = "verdict"
             \/ job'.stage = "failed"
             \/ /\ ~IsOver(job.answer, Standing(job)) /\ locale = NoLocale
                /\ Stays(job, job', {"start"}) /\ job'.start = job.start + Len(part)
             \/ /\ ~IsOver(job.answer, Standing(job)) /\ locale # NoLocale
                /\ ReadOn(job, job', part) /\ LocaleFor(job.request, part) = locale
                /\ job'.language = IF job.language = Nothing THEN LangOf[locale] ELSE job.language
<1>. DEFINE part == Part(Looked(job.answer), job.start)
            start == Behind(job.start, part)
            over == [job EXCEPT !.start = start]
            locale == ToldLocale(Asked(job.request), part)
<1>1. job' = IF job.start >= Len(Looked(job.answer)) THEN [job EXCEPT !.stage = "verdict"]
             ELSE Read(part, over)
  BY DEF ReadAnswer, Checked, Looked
<1>2. job.start \in Nat /\ Len(Looked(job.answer)) \in Nat /\ DOMAIN job = JobFields
  BY LookedIs, ListLen DEF IsGood, IsJob
<1>3. IsOver(job.answer, Standing(job)) <=> job.start >= Len(Looked(job.answer))
  BY <1>2 DEF IsOver, Standing, Stand
<1>4. LocaleFor(job.request, part) = locale
  BY DEF LocaleFor, ToldLocale, Asked
<1>5. CASE job.start >= Len(Looked(job.answer))
  <2>1. job' = [job EXCEPT !.stage = "verdict"]  BY <1>1, <1>5
  <2>2. Stays(job, job', {"stage"}) /\ job'.stage = "verdict"
    BY <1>2, <2>1 DEF Stays, JobFields
  <2>. QED  BY <1>3, <1>5, <2>2
<1>6. CASE ~(job.start >= Len(Looked(job.answer)))
  <2>1. job' = Read(part, over)  BY <1>1, <1>6
  <2>2. Stays(job, over, {"start"}) /\ over.start = job.start + Len(part)
    <3>1. start = job.start + Len(part)  BY DEF Behind
    <3>. HIDE DEF start
    <3>. QED  BY <1>2, <3>1 DEF Stays, JobFields
  <2>. HIDE DEF part, over, locale
  <2>3. \/ LocaleFor(job.request, part) = NoLocale /\ job' = over
        \/ ReadFailed(job, job', part)
        \/ /\ LocaleFor(job.request, part) # NoLocale /\ ReadOn(job, job', part)
           /\ job'.language = IF job.language = Nothing
                              THEN LangOf[LocaleFor(job.request, part)] ELSE job.language
    BY <1>2, <2>1, ReadTells
  <2>4. ReadFailed(job, job', part) => job'.stage = "failed"  BY DEF ReadFailed
  <2>5. \/ job'.stage = "failed"
        \/ locale = NoLocale /\ Stays(job, job', {"start"}) /\ job'.start = job.start + Len(part)
        \/ /\ locale # NoLocale /\ ReadOn(job, job', part) /\ LocaleFor(job.request, part) = locale
           /\ job'.language = IF job.language = Nothing THEN LangOf[locale] ELSE job.language
    BY <1>4, <2>2, <2>3, <2>4
  <2>. QED  BY <1>3, <1>6, <2>5 DEF part, locale
<1>. QED  BY <1>5, <1>6

\* A job that goes on with the same text, having answered the same texts.
LEMMA GoesOnInNotes ==
  ASSUME InNotes(job), NEW k,
         k.request = job.request, k.index = job.index, k.answer = job.answer,
         k.whole = job.whole, k.issues = job.issues, k.answers = job.answers,
         k.resends = job.resends,
         AreQuiet(k.findings), IsOnTrail(Asked(k.request), k)
  PROVE  InNotes(k)
BY DEF InNotes

LEMMA ReadAnswerInNotes ==
  ASSUME IsGood(job), ReadAnswer, job.request.route = "litellm", Comes(job.request),
         InNotes(job), job'.stage # "failed"
  PROVE  InNotes(job')
<1>. DEFINE c == Asked(job.request)
            part == Part(Looked(job.answer), job.start)
            locale == ToldLocale(c, part)
<1>1. job.stage = "read" /\ ~IsBlank(job.answer) /\ Reaches(c, job.answer, Standing(job))
  <2>1. job.stage = "read"  BY DEF ReadAnswer
  <2>. QED  BY <2>1 DEF InNotes, IsOnTrail
<1>2. AreQuiet(job.findings)  BY DEF InNotes
<1>3. CASE /\ IsOver(job.answer, Standing(job))
           /\ Stays(job, job', {"stage"}) /\ job'.stage = "verdict"
  <2>1. /\ job'.request = job.request /\ job'.index = job.index /\ job'.answer = job.answer
        /\ job'.whole = job.whole /\ job'.issues = job.issues /\ job'.answers = job.answers
        /\ job'.resends = job.resends /\ job'.findings = job.findings /\ job'.start = job.start
        /\ job'.words = job.words /\ job'.language = job.language
    BY <1>3 DEF Stays, JobFields
  <2>2. Standing(job') = Standing(job)  BY <2>1 DEF Standing
  <2>3. Reviews(c, job'.answer, Standing(job'))  BY <1>1, <1>3, <2>1, <2>2 DEF Reviews
  <2>4. IsOnTrail(c, job')  BY <1>3, <2>3 DEF IsOnTrail
  <2>. HIDE DEF c
  <2>. QED  BY <1>2, <2>1, <2>4, GoesOnInNotes DEF c
<1>4. ASSUME ~IsOver(job.answer, Standing(job)), locale = NoLocale,
             Stays(job, job', {"start"}), job'.start = job.start + Len(part)
      PROVE  InNotes(job')
  <2>1. /\ job'.request = job.request /\ job'.index = job.index /\ job'.answer = job.answer
        /\ job'.whole = job.whole /\ job'.issues = job.issues /\ job'.answers = job.answers
        /\ job'.resends = job.resends /\ job'.findings = job.findings
        /\ job'.stage = job.stage /\ job'.words = job.words /\ job'.language = job.language
    BY <1>4 DEF Stays, JobFields
  <2>2. Standing(job') = Onward(c, job.answer, Standing(job))
    BY <1>4, <2>1 DEF Standing, Onward, Stand
  <2>3. Reaches(c, job'.answer, Standing(job'))  BY <1>1, <1>4, <2>1, <2>2, ReachesNext
  <2>4. IsOnTrail(c, job')  BY <1>1, <2>1, <2>3 DEF IsOnTrail
  <2>. HIDE DEF c
  <2>. QED  BY <1>2, <2>1, <2>4, GoesOnInNotes DEF c
<1>5. ASSUME ~IsOver(job.answer, Standing(job)), locale # NoLocale,
             ReadOn(job, job', part), LocaleFor(job.request, part) = locale,
             job'.language = IF job.language = Nothing THEN LangOf[locale] ELSE job.language
      PROVE  InNotes(job')
  <2>1. /\ job'.request = job.request /\ job'.index = job.index /\ job'.answer = job.answer
        /\ job'.whole = job.whole /\ job'.issues = job.issues /\ job'.answers = job.answers
        /\ job'.resends = job.resends /\ job'.findings = job.findings
        /\ job'.start = job.start
    BY <1>5 DEF ReadOn, Stays, JobFields
  <2>2. /\ job'.stage = "sort" /\ job'.part = part /\ job'.locale = locale
        /\ job'.words = job.words + WordsIn(part) /\ job'.lt_results = <<>>
        /\ job'.found = witty_rules(part, LangOf[locale], job.request.config)
    BY <1>5 DEF ReadOn, IsGuardrail
  <2>. HIDE DEF part, locale
  <2>3. c.config = job.request.config  BY DEF Asked
  <2>4. SortedOut(job'.lt_results, job'.found, Sentences(job'.part),
                  {Sentences(job'.part)[i].text : i \in DOMAIN Sentences(job'.part)},
                  job'.part, LangOf[job'.locale], job'.request.config) = FoundIn(c, part)
    BY <2>1, <2>2, <2>3 DEF FoundIn, locale
  <2>5. StandingBehind(job') = Onward(c, job.answer, Standing(job))
    <3>. DEFINE found == FoundIn(c, part)
                next == job.start + Len(part)
                shift == Shift(job.answer, job.start)
                words == job.words + WordsIn(part)
                told == IF job.language = Nothing THEN LangOf[locale] ELSE job.language
    <3>1. StandingBehind(job') = Stand(next, job.findings \o Shifted(found, shift), words, told)
      BY <1>5, <2>1, <2>2, <2>4 DEF StandingBehind
    <3>2. Onward(c, job.answer, Standing(job)) =
            Stand(next, job.findings \o Shifted(found, shift), words, told)
      <4>1. Standing(job).start = job.start /\ Standing(job).findings = job.findings
            /\ Standing(job).words = job.words /\ Standing(job).language = job.language
        BY DEF Standing, Stand
      <4>. QED  BY <1>5, <4>1 DEF Onward, part, locale
    <3>. QED  BY <3>1, <3>2
  <2>6. Reaches(c, job'.answer, StandingBehind(job'))  BY <1>1, <1>5, <2>1, <2>5, ReachesNext
  <2>7. AreQuiet(job'.found)
    <3>1. IsConfig(job.request.config) /\ IsList(part)
      <4>1. job.start < Len(Looked(job.answer))  BY <1>5 DEF IsOver, Standing, Stand
      <4>2. IsList(part)  BY <4>1, NextPart DEF part
      <4>. QED  BY <1>1, <4>2 DEF IsGood, IsAmongTexts, IsRequest
    <3>2. QuietTerms(job.request.config)  BY OnlyLitellm
    <3>. QED  BY <2>2, <3>1, <3>2, WittyQuiet
  <2>8. IsOnTrail(c, job')  BY <1>1, <2>1, <2>2, <2>6, <2>7 DEF IsOnTrail
  <2>. HIDE DEF c
  <2>. QED  BY <1>2, <2>1, <2>8, GoesOnInNotes DEF c
<1>6. \/ /\ IsOver(job.answer, Standing(job))
         /\ Stays(job, job', {"stage"}) /\ job'.stage = "verdict"
      \/ job'.stage = "failed"
      \/ /\ ~IsOver(job.answer, Standing(job)) /\ locale = NoLocale
         /\ Stays(job, job', {"start"}) /\ job'.start = job.start + Len(part)
      \/ /\ ~IsOver(job.answer, Standing(job)) /\ locale # NoLocale
         /\ ReadOn(job, job', part) /\ LocaleFor(job.request, part) = locale
         /\ job'.language = IF job.language = Nothing THEN LangOf[locale] ELSE job.language
  BY ReadAnswerTells
<1>. QED  BY <1>3, <1>4, <1>5, <1>6

\* With no context checker to ask, every sentence stands.
LEMMA SortTells ==
  ASSUME IsGood(job), Sort, job.request.checker = "none"
  PROVE  SortsTo(job, job', {Sentences(job.part)[i].text : i \in DOMAIN Sentences(job.part)})
<1>1. ToCheck = {}  BY DEF ToCheck
<1>2. ~(job.request.checker = "remote")  OBVIOUS
<1>3. \E genuine \in SUBSET ToCheck : job' = AnsweredWith(genuine \union (AllSentences \ ToCheck))
  BY <1>2 DEF Sort
<1>4. job' = AnsweredWith(AllSentences)
  <2>1. PICK genuine \in SUBSET ToCheck :
               job' = AnsweredWith(genuine \union (AllSentences \ ToCheck))
    BY <1>3
  <2>2. genuine \union (AllSentences \ ToCheck) = AllSentences  BY <1>1, <2>1
  <2>. QED  BY <2>1, <2>2
<1>5. DOMAIN job = JobFields  BY DEF IsGood, IsJob
<1>6. SortsTo(job, job', AllSentences)  BY <1>4, <1>5, AnsweredGives
<1>. QED  BY <1>6 DEF AllSentences

LEMMA SortInNotes ==
  ASSUME IsGood(job), Sort, job.request.route = "litellm", job.request.checker = "none",
         InNotes(job)
  PROVE  InNotes(job')
<1>. DEFINE c == Asked(job.request)
            results == SortedOut(job.lt_results, job.found, Sentences(job.part),
                                 {Sentences(job.part)[i].text : i \in DOMAIN Sentences(job.part)},
                                 job.part, LangOf[job.locale], job.request.config)
            shift == Shift(job.answer, job.start)
            shifted == Shifted(results, shift)
<1>1. job.stage = "sort"  BY DEF Sort
<1>2. /\ ~IsBlank(job.answer) /\ Reaches(c, job.answer, StandingBehind(job))
      /\ AreQuiet(job.found) /\ job.lt_results = <<>> /\ AreQuiet(job.findings)
  BY <1>1 DEF InNotes, IsOnTrail
<1>3. /\ Stays(job, job', {"stage", "found", "genuine", "start", "findings"})
      /\ job'.stage = "read" /\ job'.start = job.start + Len(job.part)
      /\ job'.findings = job.findings \o shifted
  BY SortTells DEF SortsTo
<1>. HIDE DEF results, shift, shifted, c
<1>4. /\ job'.request = job.request /\ job'.index = job.index /\ job'.answer = job.answer
      /\ job'.whole = job.whole /\ job'.issues = job.issues /\ job'.answers = job.answers
      /\ job'.resends = job.resends /\ job'.words = job.words /\ job'.language = job.language
  BY <1>3 DEF Stays, JobFields
<1>5. Standing(job') = StandingBehind(job)
  <2>1. StandingBehind(job) =
          Stand(job.start + Len(job.part), job.findings \o shifted, job.words, job.language)
    BY DEF StandingBehind, shifted, results, shift
  <2>. QED  BY <1>3, <1>4, <2>1 DEF Standing
<1>6. IsOnTrail(c, job')
  BY <1>2, <1>3, <1>4, <1>5 DEF IsOnTrail
<1>7. AreQuiet(job'.findings)
  <2>1. /\ AreFindings(job.found) /\ AreFindings(job.lt_results) /\ AreFindings(job.findings)
        /\ IsList(job.answer) /\ job.start \in 0 .. Len(job.answer)
    BY DEF IsGood, IsJob
  <2>2. AreFindings(results)  BY <2>1, SortedOutFindings DEF results
  <2>3. AreQuiet(results)  BY <1>2, <2>1, EmptyFree, SortedQuiet DEF results
  <2>4. shift \in Nat  BY <2>1, ShiftIs DEF shift
  <2>5. AreFindings(shifted) /\ AreQuiet(shifted)
    BY <2>2, <2>3, <2>4, ShiftedQuiet, ShiftedFindings DEF shifted
  <2>. QED  BY <1>2, <1>3, <2>1, <2>5, JoinedQuiet
<1>. QED  BY <1>4, <1>6, <1>7, GoesOnInNotes DEF c

LEMMA JudgeTells ==
  ASSUME IsGood(job), JudgeText
  PROVE  /\ job.stage = "verdict" /\ job.request.route = "litellm"
         /\ job.index \in DOMAIN job.request.texts /\ IsList(job.request.texts[job.index])
         /\ LET text == job.request.texts[job.index]
            IN  \/ job.whole /\ AnswerGoesOn(text, JudgeIssue, job')
                \/ /\ ~job.whole /\ JudgeIssue # Nothing /\ JudgeIssue = NoteOf(text)
                   /\ AnswerGoesOn(job.answer, JudgeIssue, job')
                \/ /\ ~job.whole /\ ~(JudgeIssue # Nothing /\ JudgeIssue = NoteOf(text))
                   /\ ReviewGoesOn(job, job', job.index, text, TRUE)
<1>. DEFINE text == job.request.texts[job.index]
            own == JudgeIssue # Nothing /\ JudgeIssue = NoteOf(text)
<1>1. job.stage = "verdict" /\ job.request.route = "litellm"  BY DEF JudgeText
<1>2. job' = IF job.whole THEN WithAnswer(text, JudgeIssue)
             ELSE IF own THEN WithAnswer(job.answer, JudgeIssue)
             ELSE Reviewing(job, job.index, text, TRUE)
  BY DEF JudgeText, JudgeIssue
<1>3. DOMAIN job = JobFields  BY DEF IsGood, IsJob
<1>4. job.index \in DOMAIN job.request.texts /\ IsList(text)  BY JudgeGives
<1>5. /\ AnswerGoesOn(text, JudgeIssue, WithAnswer(text, JudgeIssue))
      /\ AnswerGoesOn(job.answer, JudgeIssue, WithAnswer(job.answer, JudgeIssue))
      /\ ReviewGoesOn(job, Reviewing(job, job.index, text, TRUE), job.index, text, TRUE)
  BY <1>3, AnswerGives, ReviewingGives
<1>6. CASE job.whole
  <2>1. job' = WithAnswer(text, JudgeIssue)  BY <1>2, <1>6
  <2>. QED  BY <1>1, <1>4, <1>5, <1>6, <2>1
<1>7. CASE ~job.whole /\ own
  <2>1. job' = WithAnswer(job.answer, JudgeIssue)  BY <1>2, <1>7
  <2>. QED  BY <1>1, <1>4, <1>5, <1>7, <2>1
<1>8. CASE ~job.whole /\ ~own
  <2>1. job' = Reviewing(job, job.index, text, TRUE)  BY <1>2, <1>8
  <2>. QED  BY <1>1, <1>4, <1>5, <1>8, <2>1
<1>. QED  BY <1>6, <1>7, <1>8

\* The issue is that of the review that has ended.
LEMMA JudgesIssue ==
  ASSUME IsGood(job), InNotes(job), job.stage = "verdict"
  PROVE  /\ Judges(Asked(job.request), job.answer, JudgeIssue)
         /\ JudgeIssue # Nothing => IsList(JudgeIssue) /\ NoteFree(JudgeIssue)
<1>. DEFINE c == Asked(job.request)
<1>1. Reviews(c, job.answer, Standing(job)) /\ AreQuiet(job.findings)
  BY DEF InNotes, IsOnTrail
<1>2. JudgeIssue = IssueFor(c, Standing(job))
  <2>1. /\ Standing(job).findings = job.findings /\ Standing(job).words = job.words
        /\ Standing(job).language = job.language
    BY DEF Standing, Stand
  <2>2. c.config = job.request.config /\ c.explain = job.request.explain  BY DEF Asked
  <2>. HIDE DEF c
  <2>. QED  BY <2>1, <2>2 DEF JudgeIssue, IssueFor, Failed
<1>3. AreFindings(job.findings)  BY DEF IsGood, IsJob
<1>4. JudgeIssue # Nothing => IsList(JudgeIssue) /\ NoteFree(JudgeIssue)
  BY <1>1, <1>3, IssueListIs, IssueListFree DEF JudgeIssue
<1>. QED  BY <1>1, <1>2, <1>4 DEF Judges

\* Once all texts are answered: what is sent on is settled, and what came settled is sent on
\* as it came.
LEMMA OutSettles ==
  ASSUME NEW j, NEW c, IsList(j.request.texts), \A i \in DOMAIN j.request.texts : IsList(j.request.texts[i]),
         IsList(j.issues), Len(j.issues) = Len(j.request.texts),
         \A i \in DOMAIN j.issues : j.issues[i] # Nothing => IsList(j.answers[i]) /\ IsList(j.issues[i]),
         AreAnswered(c, j.request.texts, j.answers, j.issues)
  PROVE  /\ LitellmOut(j).kind \in {"none", "blocked", "texts"}
         /\ LitellmOut(j).kind = "texts" =>
              j.request.on_fail # "block" /\ AllSettled(c, LitellmOut(j).texts)
         /\ AllSettled(c, j.request.texts) /\ j.request.on_fail # "block" =>
              LitellmOut(j) = [kind |-> "texts", texts |-> j.request.texts]
<1>. DEFINE texts == j.request.texts
            failing == {i \in DOMAIN j.issues : j.issues[i] # Nothing}
            Annotated(i) ==
              IF i \in failing THEN j.answers[i] \o <<Note>> \o j.issues[i] ELSE texts[i]
            out == [i \in DOMAIN texts |-> Annotated(i)]
<1>1. LitellmOut(j) = IF failing = {} THEN [kind |-> "none"]
                      ELSE IF j.request.on_fail = "block" THEN [kind |-> "blocked"]
                      ELSE [kind |-> "texts", texts |-> out]
  BY DEF LitellmOut
<1>2. DOMAIN texts = DOMAIN j.issues /\ DOMAIN texts = 1 .. Len(texts) /\ Len(texts) \in Nat
  BY ListLen
<1>3. ASSUME NEW i \in DOMAIN texts
      PROVE  /\ Annotated(i) = Outcome(texts[i], j.answers[i], j.issues[i])
             /\ Answered(c, texts[i], j.answers[i], j.issues[i])
             /\ i \in failing <=> j.issues[i] # Nothing
  <2>1. i \in failing <=> j.issues[i] # Nothing  BY <1>2
  <2>. HIDE DEF failing
  <2>2. Annotated(i) = Outcome(texts[i], j.answers[i], j.issues[i])  BY <2>1 DEF Outcome
  <2>3. Answered(c, texts[i], j.answers[i], j.issues[i])  BY <1>2 DEF AreAnswered
  <2>. QED  BY <2>1, <2>2, <2>3
<1>4. ASSUME NEW i \in DOMAIN texts PROVE IsList(Annotated(i))
  <2>1. CASE i \in failing
    <3>1. IsList(j.answers[i]) /\ IsList(j.issues[i])  BY <2>1
    <3>2. IsList(j.answers[i] \o <<Note>>)  BY <3>1, MarkBehind
    <3>3. IsList(j.answers[i] \o <<Note>> \o j.issues[i])  BY <3>1, <3>2, Joined
    <3>. QED  BY <2>1, <3>3
  <2>2. CASE i \notin failing  BY <2>2
  <2>. QED  BY <2>1, <2>2
<1>5. failing \subseteq DOMAIN texts  BY <1>2
<1>. HIDE DEF failing, Annotated
<1>6. DOMAIN out = DOMAIN texts /\ \A i \in DOMAIN texts : out[i] = Annotated(i)  OBVIOUS
<1>7. out = [i \in 1 .. Len(texts) |-> out[i]] /\ \A i \in 1 .. Len(texts) : IsList(out[i])
  BY <1>2, <1>4
<1>. HIDE DEF out
<1>8. IsList(out) /\ Len(out) = Len(texts)
  <2>1. IsList(out) /\ DOMAIN out = 1 .. Len(texts)  BY <1>2, <1>7, ListsMapped
  <2>. QED  BY <1>2, <2>1, ListLen
<1>9. failing # {} => AllSettled(c, out)
  <2>1. ASSUME NEW i \in DOMAIN out PROVE Settled(c, out[i])
    BY <1>3, <1>6, <2>1, OutcomeSettled
  <2>2. ASSUME NEW i \in failing PROVE i \in DOMAIN out /\ Noted(c, out[i])
    BY <1>3, <1>5, <1>6, <2>2, OutcomeSettled
  <2>. QED  BY <2>1, <2>2 DEF AllSettled
<1>10. ASSUME AllSettled(c, texts) PROVE failing # {} /\ out = texts
  <2>1. ASSUME NEW i \in DOMAIN texts
        PROVE  out[i] = texts[i] /\ (Noted(c, texts[i]) => i \in failing)
    <3>1. Settled(c, texts[i])  BY <1>10 DEF AllSettled
    <3>. HIDE DEF texts
    <3>2. /\ Outcome(texts[i], j.answers[i], j.issues[i]) = texts[i]
          /\ Noted(c, texts[i]) => j.issues[i] # Nothing
      BY <1>3, <3>1, SettledStays
    <3>. QED  BY <1>3, <1>6, <3>2
  <2>2. failing # {}  BY <1>10, <2>1 DEF AllSettled
  <2>3. out = texts  BY <1>2, <1>8, <2>1, SameList
  <2>. QED  BY <2>2, <2>3
<1>11. LitellmOut(j).kind \in {"none", "blocked", "texts"}  BY <1>1
<1>12. ASSUME LitellmOut(j).kind = "texts"
       PROVE  j.request.on_fail # "block" /\ AllSettled(c, LitellmOut(j).texts)
  <2>1. failing # {} /\ j.request.on_fail # "block"  BY <1>1, <1>12
  <2>2. LitellmOut(j) = [kind |-> "texts", texts |-> out]  BY <1>1, <2>1
  <2>3. LitellmOut(j).texts = out  BY <2>2
  <2>. QED  BY <1>9, <2>1, <2>3
<1>13. ASSUME AllSettled(c, texts), j.request.on_fail # "block"
       PROVE  LitellmOut(j) = [kind |-> "texts", texts |-> texts]
  BY <1>1, <1>10, <1>13
<1>. QED  BY <1>11, <1>12, <1>13

LEMMA AnswerNoting ==
  ASSUME IsGood(job), InNotes(job), job.stage = "verdict", job.request.route = "litellm",
         job.request.checker = "none", Comes(job.request),
         NEW answer, IsList(answer), NEW issue, issue = Nothing \/ IsList(issue),
         Answered(Asked(job.request), job.request.texts[job.index], answer, issue),
         AnswerGoesOn(answer, issue, job')
  PROVE  IsNoting(job')
<1>. DEFINE judged == JudgedWith(answer, issue)
            r == job.request
            c == Asked(r)
            texts == r.texts
            next == job.index + 1
            n == Len(job.issues)
<1>1. /\ Stays(job, judged, {"answers", "issues"})
      /\ judged.answers = Append(job.answers, answer) /\ judged.issues = Append(job.issues, issue)
      /\ IsJob(judged) /\ IsAmongTexts(judged)
  BY JudgedIs
<1>2. /\ IsList(job.answers) /\ IsList(job.issues) /\ Len(job.answers) = n
      /\ IsRequest(r) /\ IsList(texts) /\ \A i \in DOMAIN texts : IsList(texts[i])
      /\ job.index \in DOMAIN texts
  BY RankIs DEF IsGood, IsAmongTexts, IsRequest
<1>3. /\ n \in Nat /\ DOMAIN job.issues = 1 .. n /\ n = job.index - 1
      /\ DOMAIN texts = 1 .. Len(texts) /\ Len(texts) \in Nat
  BY <1>2, ListLen DEF InNotes
<1>10. job.index \in Nat /\ n + 1 = job.index  BY <1>2, <1>3
<1>. HIDE DEF judged, n
<1>4. /\ judged.stage = job.stage /\ judged.request = r /\ judged.resends = job.resends
      /\ DOMAIN judged = JobFields
  BY <1>1 DEF Stays, JobFields
<1>5. /\ IsList(judged.issues) /\ Len(judged.issues) = n + 1 /\ DOMAIN judged.issues = 1 .. n + 1
      /\ \A i \in 1 .. n : judged.issues[i] = job.issues[i] /\ judged.answers[i] = job.answers[i]
      /\ judged.issues[n + 1] = issue /\ judged.answers[n + 1] = answer
  <2>1. /\ IsList(judged.issues) /\ Len(judged.issues) = Len(job.issues) + 1
        /\ DOMAIN judged.issues = 1 .. Len(job.issues) + 1
        /\ \A i \in 1 .. Len(job.issues) : judged.issues[i] = job.issues[i]
        /\ judged.issues[Len(job.issues) + 1] = issue
    BY <1>1, <1>2, Appended
  <2>2. /\ \A i \in 1 .. Len(job.answers) : judged.answers[i] = job.answers[i]
        /\ judged.answers[Len(job.answers) + 1] = answer
    BY <1>1, <1>2, Appended
  <2>. QED  BY <1>2, <2>1, <2>2 DEF n
<1>6. AreAnswered(c, texts, judged.answers, judged.issues)
  <2>1. ASSUME NEW i \in 1 .. n + 1
        PROVE  Answered(c, texts[i], judged.answers[i], judged.issues[i])
    <3>1. CASE i = n + 1
      <4>1. i = job.index  BY <1>10, <3>1
      <4>. QED  BY <1>5, <3>1, <4>1
    <3>2. CASE i # n + 1
      <4>1. i \in 1 .. n  BY <1>3, <3>2
      <4>2. Answered(c, texts[i], job.answers[i], job.issues[i])
        BY <1>3, <4>1 DEF InNotes, AreAnswered
      <4>. QED  BY <1>5, <4>1, <4>2
    <3>. QED  BY <3>1, <3>2
  <2>. QED  BY <1>5, <2>1 DEF AreAnswered
<1>7. /\ IsReviewing(r) /\ (job.resends > 0 => StaysAsItIs(r))
  BY DEF InNotes
<1>8. ASSUME next \in DOMAIN texts,
             ReviewGoesOn(judged, job', next, FirstReviewed(texts[next]),
                          FirstReviewed(texts[next]) = texts[next])
      PROVE  IsNoting(job')
  <2>. DEFINE text == texts[next]
              first == FirstReviewed(text)
              whole == first = text
  <2>1. IsOfText(c, text, first, whole)  BY <1>2, <1>8, FirstOfText
  <2>2. ReviewGoesOn(judged, job', next, first, whole)  BY <1>8
  <2>. HIDE DEF first, whole, c, next
  <2>3. IsOnTrail(c, job') /\ AreQuiet(job'.findings)  BY <2>2, FirstOnTrail
  <2>4. /\ job'.request = r /\ job'.resends = job.resends /\ job'.answers = judged.answers
        /\ job'.issues = judged.issues /\ job'.index = next /\ job'.answer = first
        /\ job'.whole = whole /\ job'.stage \in {"read", "verdict"}
    BY <1>4, <2>2 DEF ReviewGoesOn, Stays, JobFields
  <2>5. Len(job'.issues) = next - 1  BY <1>5, <1>10, <2>4 DEF next
  <2>6. InNotes(job')
    BY <1>6, <1>7, <2>1, <2>3, <2>4, <2>5 DEF InNotes, c
  <2>. QED  BY <2>4, <2>6 DEF IsNoting
<1>9. ASSUME next \notin DOMAIN texts, job' = Done(judged, LitellmOut(judged))
      PROVE  IsNoting(job')
  <2>. DEFINE out == LitellmOut(judged)
  <2>1. Len(judged.issues) = Len(texts)  BY <1>2, <1>3, <1>5, <1>9
  <2>2. \A i \in DOMAIN judged.issues : judged.issues[i] # Nothing =>
          IsList(judged.answers[i]) /\ IsList(judged.issues[i])
    BY <1>5, <1>6 DEF AreAnswered, Answered
  <2>8. /\ IsList(judged.request.texts)
        /\ \A i \in DOMAIN judged.request.texts : IsList(judged.request.texts[i])
        /\ IsList(judged.issues) /\ Len(judged.issues) = Len(judged.request.texts)
        /\ AreAnswered(c, judged.request.texts, judged.answers, judged.issues)
    BY <1>2, <1>4, <1>5, <1>6, <2>1
  <2>9. /\ out.kind \in {"none", "blocked", "texts"}
        /\ out.kind = "texts" => judged.request.on_fail # "block" /\ AllSettled(c, out.texts)
        /\ AllSettled(c, judged.request.texts) /\ judged.request.on_fail # "block" =>
             out = [kind |-> "texts", texts |-> judged.request.texts]
    <3>. HIDE DEF c
    <3>. QED  BY <2>2, <2>8, OutSettles
  <2>3. /\ out.kind \in {"none", "blocked", "texts"}
        /\ out.kind = "texts" => r.on_fail # "block" /\ AllSettled(c, out.texts)
        /\ AllSettled(c, texts) /\ r.on_fail # "block" =>
             out = [kind |-> "texts", texts |-> texts]
    BY <1>4, <2>9
  <2>. HIDE DEF out, c
  <2>4. /\ job'.stage = "done" /\ job'.response = out /\ job'.request = r
        /\ job'.resends = job.resends
    <3>1. Stays(judged, job', {"stage", "response"}) /\ job'.stage = "done" /\ job'.response = out
      BY <1>4, <1>9, DoneIs DEF out
    <3>. QED  BY <1>4, <3>1 DEF Stays, JobFields
  <2>5. texts # <<>>
    <3>1. Len(texts) # 0  BY <1>2, <1>3
    <3>. QED  BY <1>2, <3>1, LenZero
  <2>6. HasNotes(job')
    BY <1>7, <2>3, <2>4, <2>5 DEF HasNotes, StaysAsItIs, c
  <2>7. job'.stage \notin DOMAIN Rank  BY <2>4, NotIdle
  <2>. QED  BY <2>4, <2>6, <2>7 DEF IsNoting
<1>. QED  BY <1>8, <1>9 DEF AnswerGoesOn, judged

LEMMA JudgeNoting ==
  ASSUME IsGood(job), IsNoting(job), JudgeText, job.request.checker = "none"
  PROVE  IsNoting(job')
<1>. DEFINE r == job.request
            c == Asked(r)
            text == r.texts[job.index]
<1>1. /\ job.stage = "verdict" /\ r.route = "litellm" /\ IsList(text)
      /\ \/ job.whole /\ AnswerGoesOn(text, JudgeIssue, job')
         \/ /\ ~job.whole /\ JudgeIssue # Nothing /\ JudgeIssue = NoteOf(text)
            /\ AnswerGoesOn(job.answer, JudgeIssue, job')
         \/ /\ ~job.whole /\ ~(JudgeIssue # Nothing /\ JudgeIssue = NoteOf(text))
            /\ ReviewGoesOn(job, job', job.index, text, TRUE)
  BY JudgeTells
<1>2. Comes(r) /\ InNotes(job)  BY <1>1, RankIs DEF IsNoting
<1>3. /\ Judges(c, job.answer, JudgeIssue)
      /\ JudgeIssue # Nothing => IsList(JudgeIssue) /\ NoteFree(JudgeIssue)
  BY <1>1, <1>2, JudgesIssue
<1>4. IsOfText(c, text, job.answer, job.whole)  BY <1>2 DEF InNotes
<1>5. IsList(job.answer) /\ (JudgeIssue = Nothing \/ IsList(JudgeIssue))
  BY <1>3 DEF IsGood, IsJob
<1>6. CASE job.whole /\ AnswerGoesOn(text, JudgeIssue, job')
  <2>1. job.answer = text /\ ~Noted(c, text)  BY <1>4, <1>6 DEF IsOfText
  <2>2. Answered(c, text, text, JudgeIssue)
    BY <1>1, <1>3, <2>1 DEF Answered, Clears
  <2>. QED  BY <1>1, <1>2, <1>5, <1>6, <2>2, AnswerNoting
<1>7. CASE /\ ~job.whole /\ JudgeIssue # Nothing /\ JudgeIssue = NoteOf(text)
           /\ AnswerGoesOn(job.answer, JudgeIssue, job')
  <2>1. HasNote(text) /\ job.answer = BeforeNote(text)  BY <1>4, <1>7 DEF IsOfText
  <2>2. Noted(c, text)  BY <1>3, <1>7, <2>1 DEF Noted
  <2>3. text = job.answer \o <<Note>> \o JudgeIssue  BY <1>1, <1>7, <2>1, NoteParts
  <2>4. Answered(c, text, job.answer, JudgeIssue)
    BY <1>3, <1>5, <1>7, <2>2, <2>3 DEF Answered
  <2>. QED  BY <1>1, <1>2, <1>5, <1>7, <2>4, AnswerNoting
<1>8. CASE /\ ~job.whole /\ ~(JudgeIssue # Nothing /\ JudgeIssue = NoteOf(text))
           /\ ReviewGoesOn(job, job', job.index, text, TRUE)
  <2>1. HasNote(text) /\ job.answer = BeforeNote(text)  BY <1>4, <1>8 DEF IsOfText
  <2>2. ~Noted(c, text)
    <3>1. SUFFICES ASSUME Noted(c, text) PROVE FALSE  OBVIOUS
    <3>2. Judges(c, job.answer, NoteOf(text)) /\ NoteOf(text) # Nothing
      BY <2>1, <3>1 DEF Noted
    <3>3. JudgeIssue = NoteOf(text)  BY <1>3, <3>2, JudgedOnce
    <3>. QED  BY <1>8, <3>2, <3>3
  <2>3. /\ job'.request = r /\ job'.index = job.index /\ job'.answer = text /\ job'.whole = TRUE
        /\ job'.issues = job.issues /\ job'.answers = job.answers /\ job'.resends = job.resends
        /\ job'.stage \in {"read", "verdict"}
    BY <1>8 DEF ReviewGoesOn, Stays, JobFields
  <2>4. IsOnTrail(c, job') /\ AreQuiet(job'.findings)  BY <1>8, FirstOnTrail
  <2>5. IsOfText(c, text, job'.answer, job'.whole)  BY <2>2, <2>3 DEF IsOfText
  <2>6. InNotes(job')  BY <1>2, <2>3, <2>4, <2>5 DEF InNotes
  <2>. QED  BY <1>2, <2>3, <2>6 DEF IsNoting
<1>. QED  BY <1>1, <1>6, <1>7, <1>8

-----------------------------------------------------------------------------
\* What is added is added once, at every step.

\* A step that keeps the request, and neither reviews nor answers.
LEMMA PassesNoting ==
  ASSUME IsNoting(job), job.stage # "idle", NEW k, k.request = job.request,
         k.stage = "failed" \/ k.request.route # "litellm" \/ k.request.checker # "none",
         k.stage = "done" => IsForm(k) \/ HasNotes(k)
  PROVE  IsNoting(k)
<1>1. "failed" \notin DOMAIN Rank  BY NotIdle
<1>. QED  BY <1>1 DEF IsNoting

LEMMA StillNoting ==
  ASSUME NEW k, InNotes(k), Comes(k.request)
  PROVE  IsNoting(k)
<1>1. k.stage \in {"read", "sort", "verdict"}  BY DEF InNotes, IsOnTrail
<1>. QED  BY <1>1 DEF IsNoting

LEMMA ReadNoting ==
  ASSUME IsGood(job), IsNoting(job), ReadText \/ ReadAnswer
  PROVE  IsNoting(job')
<1>1. job.stage = "read" /\ DOMAIN job = JobFields
  BY DEF ReadText, ReadAnswer, IsGood, IsJob
<1>2. job.stage # "idle" /\ Comes(job.request)  BY <1>1 DEF IsNoting
<1>3. ASSUME NEW part, ReadFailed(job, job', part) \/ ReadOn(job, job', part)
      PROVE  job'.request = job.request /\ job'.stage # "done"
  BY <1>3 DEF ReadFailed, ReadOn, Stays, JobFields
<1>4. CASE ReadText
  <2>. DEFINE part == fetch_text(job.answer)
              next == Done(job, Refusal)
  <2>1. job' = Read(part, next) /\ ~IsGuardrail(job.request)  BY <1>4 DEF ReadText
  <2>2. next.request = job.request /\ next.response = Refusal
    <3>1. Stays(job, next, {"stage", "response"}) /\ next.response = Refusal  BY <1>1, DoneIs
    <3>. HIDE DEF next
    <3>. QED  BY <3>1 DEF Stays, JobFields
  <2>. HIDE DEF part, next
  <2>3. job' = next \/ ReadFailed(job, job', part) \/ ReadOn(job, job', part)
    BY <1>1, <2>1, ReadGives
  <2>4. job'.request = job.request /\ (job'.stage = "done" => job'.response.kind # "texts")
    <3>1. Refusal.kind # "texts"  BY DEF Refusal
    <3>. QED  BY <1>3, <2>2, <2>3, <3>1
  <2>5. job'.request.route # "litellm"  BY <2>1, <2>4 DEF IsGuardrail
  <2>. QED  BY <1>2, <2>4, <2>5, ElseNoting
<1>5. CASE ReadAnswer
  <2>. DEFINE part == Part(Looked(job.answer), job.start)
              start == Behind(job.start, part)
  <2>1. \/ job' = [job EXCEPT !.stage = "verdict"]
        \/ job' = [job EXCEPT !.start = start]
        \/ ReadFailed(job, job', part) \/ ReadOn(job, job', part)
    BY <1>5, ReadAnswerGives
  <2>. HIDE DEF part, start
  <2>2. job'.request = job.request /\ job'.stage # "done"
    <3>1. CASE job' = [job EXCEPT !.stage = "verdict"] \/ job' = [job EXCEPT !.start = start]
      BY <1>1, <3>1 DEF JobFields
    <3>. QED  BY <1>3, <2>1, <3>1
  <2>3. CASE job'.stage = "failed" \/ job.request.route # "litellm"
               \/ job.request.checker # "none"
    BY <1>2, <2>2, <2>3, PassesNoting
  <2>4. CASE /\ job'.stage # "failed" /\ job.request.route = "litellm"
             /\ job.request.checker = "none"
    <3>1. InNotes(job)  BY <1>1, <2>4, RankIs DEF IsNoting
    <3>2. InNotes(job')  BY <1>2, <1>5, <2>4, <3>1, ReadAnswerInNotes
    <3>. QED  BY <1>2, <2>2, <3>2, StillNoting
  <2>. QED  BY <2>3, <2>4
<1>. QED  BY <1>4, <1>5

LEMMA AskNoting ==
  ASSUME IsGood(job), IsNoting(job), AskLanguageTool
  PROVE  IsNoting(job')
<1>1. /\ job.stage = "languagetool" /\ job'.stage # "done"
      /\ \/ Stays(job, job', {"stage", "down"}) \/ Stays(job, job', {"stage", "lt_results"})
  BY AskGives
<1>2. job'.request = job.request  BY <1>1 DEF Stays, JobFields
<1>3. Comes(job.request) /\ job.request.route # "litellm"
  BY <1>1 DEF IsNoting, IsGood, IsInText, IsGuardrail
<1>. QED  BY <1>1, <1>2, <1>3, ElseNoting

LEMMA SortNoting ==
  ASSUME IsGood(job), IsNoting(job), Sort
  PROVE  IsNoting(job')
<1>1. job.stage = "sort"  BY DEF Sort
<1>2. job.stage # "idle" /\ Comes(job.request)  BY <1>1 DEF IsNoting
<1>3. CASE job.request.route = "litellm" /\ job.request.checker = "none"
  <2>1. InNotes(job)  BY <1>1, <1>3, RankIs DEF IsNoting
  <2>2. InNotes(job')  BY <1>3, <2>1, SortInNotes
  <2>3. job'.request = job.request
    BY <1>3, SortTells DEF SortsTo, Stays, JobFields
  <2>. QED  BY <1>2, <2>2, <2>3, StillNoting
<1>4. ASSUME ~(job.request.route = "litellm" /\ job.request.checker = "none")
      PROVE  IsNoting(job')
  <2>1. ASSUME NEW genuine, SortsTo(job, job', genuine)
        PROVE  /\ job'.request = job.request
               /\ job'.stage = "done" => /\ job'.response.kind \in {"results", "matches"}
                                         /\ job.request.route # "litellm"
    <3>1. CASE job.request.route \in {"check", "lt"}
      BY <2>1, <3>1 DEF SortsTo, Stays, JobFields, Results, Matched
    <3>2. CASE ~(job.request.route \in {"check", "lt"})
      BY <2>1, <3>2 DEF SortsTo, Stays, JobFields
    <3>. QED  BY <3>1, <3>2
  <2>2. ASSUME Stays(job, job', {"stage", "down"}), job'.stage = "failed"
        PROVE  job'.request = job.request
    BY <2>2 DEF Stays, JobFields
  <2>3. /\ job'.request = job.request
        /\ job'.stage = "done" => /\ job'.response.kind \in {"results", "matches"}
                                  /\ job.request.route # "litellm"
    BY <2>1, <2>2, SortGives
  <2>4. CASE job.request.route # "litellm"  BY <1>2, <2>3, <2>4, ElseNoting
  <2>5. CASE job.request.route = "litellm"
    BY <1>2, <1>4, <2>3, <2>5, PassesNoting
  <2>. QED  BY <2>4, <2>5
<1>. QED  BY <1>3, <1>4

LEMMA VerdictNoting ==
  ASSUME IsGood(job), IsNoting(job), Verdict
  PROVE  IsNoting(job')
<1>. DEFINE said == [kind |-> "verdict", failed_on |-> Failed, findings |-> job.findings,
                     limit_reached |-> Len(job.answer) > GUARDRAIL_MAX_LENGTH,
                     reask |-> IF Failed = {} THEN Nothing ELSE ReviewPrompt(job.findings)]
<1>1. /\ job' = Done(job, said) /\ job.stage = "verdict" /\ job.request.route = "guardrail"
  BY DEF Verdict
<1>2. said.kind # "texts"  OBVIOUS
<1>. HIDE DEF said
<1>3. Stays(job, job', {"stage", "response"}) /\ job'.response = said
  BY <1>1, DoneIs DEF IsGood, IsJob
<1>4. job'.request = job.request  BY <1>3 DEF Stays, JobFields
<1>5. Comes(job.request)  BY <1>1 DEF IsNoting
<1>. QED  BY <1>1, <1>2, <1>3, <1>4, <1>5, ElseNoting

\* With a context checker, nothing is promised of the note but that it is of a text.
LEMMA JudgeElse ==
  ASSUME IsGood(job), IsNoting(job), JudgeText, job.request.checker # "none"
  PROVE  IsNoting(job')
<1>1. job.stage = "verdict" /\ DOMAIN job = JobFields  BY DEF JudgeText, IsGood, IsJob
<1>2. job.request.texts # <<>>
  <2>1. job.index \in DOMAIN job.request.texts  BY JudgeGives
  <2>. QED  BY <2>1, EmptyList
<1>3. ASSUME NEW j, j.request = job.request, NEW index, NEW text, NEW whole,
             ReviewGoesOn(j, job', index, text, whole)
      PROVE  job'.request = job.request /\ job'.stage # "done"
  BY <1>3 DEF ReviewGoesOn, Stays, JobFields
<1>4. ASSUME NEW answer, NEW issue, AnswerGoesOn(answer, issue, job')
      PROVE  /\ job'.request = job.request
             /\ job'.stage = "done" => job'.response.kind \in {"none", "blocked", "texts"}
  <2>. DEFINE judged == JudgedWith(answer, issue)
              out == LitellmOut(judged)
  <2>1. DOMAIN judged = JobFields /\ judged.request = job.request
    BY <1>1 DEF JudgedWith, JobFields
  <2>2. \/ \E index, text, whole : ReviewGoesOn(judged, job', index, text, whole)
        \/ job' = Done(judged, out)
    BY <1>4 DEF AnswerGoesOn
  <2>3. out.kind \in {"none", "blocked", "texts"}  BY DEF LitellmOut
  <2>. HIDE DEF judged, out
  <2>4. CASE job' = Done(judged, out)
    <3>1. Stays(judged, job', {"stage", "response"}) /\ job'.response = out  BY <2>1, <2>4, DoneIs
    <3>2. job'.request = judged.request  BY <3>1 DEF Stays, JobFields
    <3>. QED  BY <2>1, <2>3, <3>1, <3>2
  <2>. QED  BY <1>3, <2>1, <2>2, <2>4
<1>5. /\ job'.request = job.request
      /\ job'.stage = "done" => job'.response.kind \in {"none", "blocked", "texts"}
  BY <1>3, <1>4, JudgeGives
<1>6. job'.stage = "done" => HasNotes(job')
  BY <1>2, <1>5 DEF HasNotes
<1>. QED  BY <1>1, <1>5, <1>6, PassesNoting

LEMMA AgainNoting ==
  ASSUME IsGood(job), IsNoting(job), SendAgain \/ NextTurn
  PROVE  IsNoting(job')
<1>. DEFINE resends == job.resends + 1
<1>1. job.stage = "done" /\ job.resends \in Nat /\ IsRequest(job.request) /\ job.response # Nothing
  BY TextChecksAssumption DEF SendAgain, NextTurn, IsGood, IsJob, IsAmongTexts
<1>2. Comes(job.request) /\ HasNotes(job)  BY <1>1 DEF IsNoting, IsForm
<1>3. ASSUME NEW r, IsRequest(r), job' = [Opened(r) EXCEPT !.resends = resends]
      PROVE  Stays(Opened(r), job', {"resends"}) /\ job'.resends \in Nat
  <2>1. DOMAIN Opened(r) = JobFields /\ resends \in Nat
    BY <1>1, <1>3, OpenedIsGood DEF IsGood, IsJob
  <2>. HIDE DEF resends
  <2>. QED  BY <1>3, <2>1 DEF Stays, JobFields
<1>4. CASE SendAgain
  <2>. DEFINE texts == job.response.texts
              r == [job.request EXCEPT !.texts = texts]
  <2>1. job.response.kind = "texts" /\ job' = [Opened(r) EXCEPT !.resends = resends]
    BY <1>4 DEF SendAgain
  <2>2. IsRequest(r)
    <3>1. IsList(texts) /\ \A i \in DOMAIN texts : IsList(texts[i])
      BY <1>1, <2>1 DEF IsGood, IsAnswered
    <3>. QED  BY <1>1, <3>1, RequestWith
  <2>3. /\ r.texts = texts /\ Asked(r) = Asked(job.request) /\ r.route = job.request.route
        /\ r.on_fail = job.request.on_fail /\ r.checker = job.request.checker
        /\ r.config.term_replacements = job.request.config.term_replacements
        /\ IsReviewing(job.request) => IsReviewing(r)
    BY <1>1, WithTexts
  <2>. HIDE DEF r, resends
  <2>4. Comes(r)
    <3>1. job.request.texts # <<>>  BY <1>2, <2>1 DEF HasNotes
    <3>. QED  BY <1>2, <2>3, <3>1 DEF Comes
  <2>5. r.checker = "none" => StaysAsItIs(r)
    <3>1. job.request.texts # <<>>  BY <1>2, <2>1 DEF HasNotes
    <3>. QED  BY <1>2, <2>1, <2>3, <3>1 DEF HasNotes, StaysAsItIs
  <2>. QED  BY <1>3, <2>1, <2>2, <2>4, <2>5, OpenedNoting
<1>5. CASE NextTurn
  <2>. DEFINE messages == job.response.messages
              r == [job.request EXCEPT !.messages = messages]
  <2>1. job.response.kind = "messages" /\ job' = [Opened(r) EXCEPT !.resends = resends]
    BY <1>5 DEF NextTurn
  <2>2. IsRequest(r)  BY <1>1, RequestWith
  <2>3. r.texts = job.request.texts /\ r.route = job.request.route /\ r.config = job.request.config
    BY <1>1 DEF IsRequest
  <2>. HIDE DEF r, resends
  <2>4. Comes(r)  BY <1>2, <2>3 DEF Comes
  <2>5. r.texts = <<>>  BY <1>2, <2>1, <2>3 DEF HasNotes
  <2>. QED  BY <1>3, <2>1, <2>2, <2>4, <2>5, OpenedNoting
<1>. QED  BY <1>4, <1>5

JobIsNoting == IsNoting(job)

LEMMA JobStaysNoting == JobIsGood /\ JobIsNoting /\ [Next]_job => JobIsNoting'
<1>. SUFFICES ASSUME IsGood(job), IsNoting(job), [Next]_job PROVE IsNoting(job')
  BY DEF JobIsGood, JobIsNoting
<1>1. CASE Receive
  <2>1. PICK r \in Requests : job' = Opened(r)  BY <1>1 DEF Receive
  <2>2. IsRequest(r) /\ Comes(r)  BY TextChecksAssumption DEF Comes
  <2>3. DOMAIN job' = JobFields /\ job'.resends = 0
    BY <2>1, <2>2, OpenedIsGood DEF IsGood, IsJob
  <2>4. Stays(Opened(r), job', {"resends"}) /\ job'.resends \in Nat /\ ~(job'.resends > 0)
    BY <2>1, <2>3 DEF Stays
  <2>. QED  BY <2>2, <2>4, OpenedNoting
<1>2. CASE SwitchFormat \/ SwitchIntoInklusivum
  <2>1. job.stage = "done" /\ Stays(job, job', {"form", "format"})
    BY <1>2, SwitchGives DEF IsGood, IsJob
  <2>. QED  BY <2>1, StaysNoting
<1>3. CASE Leave
  <2>1. job'.stage = "idle"  BY <1>3 DEF Leave, Idle
  <2>. QED  BY <2>1 DEF IsNoting
<1>4. CASE UNCHANGED job  BY <1>4
<1>. QED
  BY <1>1, <1>2, <1>3, <1>4, ReadNoting, AskNoting, SortNoting, VerdictNoting, JudgeNoting,
     JudgeElse, AgainNoting DEF Next, Serve

-----------------------------------------------------------------------------
\* The guidance of a conversation.

IsConversation(messages, text) ==
  /\ IsList(messages) /\ \A i \in DOMAIN messages : IsMessage(messages[i])
  /\ messages # <<>> => SaidAtMostOnce(messages[1], text)

\* A conversation with the guidance in it once, where it can be found again.
SaysOnce(messages, text) ==
  messages # <<>> /\ messages[1].kind = "text" => TimesSaid(messages[1], text) = 1

LEMMA SaidIs ==
  ASSUME NEW m, IsList(m.content), NEW text
  PROVE  /\ TimesSaid(m, text) \in Nat
         /\ TimesSaid(m, text) = 0 <=> \A i \in DOMAIN m.content : m.content[i] # text
<1>. DEFINE said == {i \in DOMAIN m.content : m.content[i] = text}
<1>1. DOMAIN m.content = 1 .. Len(m.content) /\ Len(m.content) \in Nat  BY ListLen
<1>2. IsFiniteSet(1 .. Len(m.content))  BY <1>1, FS_Interval
<1>3. said \subseteq 1 .. Len(m.content)  BY <1>1
<1>4. IsFiniteSet(said)  BY <1>2, <1>3, FS_Subset
<1>5. Cardinality(said) \in Nat  BY <1>4, FS_CardinalityType
<1>6. Cardinality(said) = 0 <=> said = {}  BY <1>4, FS_EmptySet
<1>. QED  BY <1>5, <1>6 DEF TimesSaid

\* What says it once.
LEMMA SaidIn ==
  ASSUME NEW m, NEW text, NEW n, {i \in DOMAIN m.content : m.content[i] = text} = {n}
  PROVE  TimesSaid(m, text) = 1
BY FS_Singleton DEF TimesSaid

LEMMA InFront ==
  ASSUME NEW first, IsMessage(first), NEW rest, IsList(rest),
         \A i \in DOMAIN rest : IsMessage(rest[i])
  PROVE  LET all == <<first>> \o rest
         IN  /\ IsList(all) /\ all[1] = first /\ all # <<>>
             /\ \A i \in DOMAIN all : IsMessage(all[i])
<1>. DEFINE one == <<first>>
            all == one \o rest
<1>1. IsList(one) /\ Len(one) = 1 /\ one[1] = first  BY OneIn
<1>2. Len(rest) \in Nat /\ DOMAIN rest = 1 .. Len(rest)  BY ListLen
<1>3. ASSUME NEW o, IsList(o), Len(o) = 1
      PROVE  /\ IsList(o \o rest) /\ (o \o rest)[1] = o[1]
             /\ DOMAIN (o \o rest) = 1 .. 1 + Len(rest) /\ Len(o \o rest) # 0
             /\ \A i \in 1 .. Len(rest) : (o \o rest)[1 + i] = rest[i]
  <2>1. JoinedAs(o \o rest, o, rest)  BY <1>3, JoinedIs
  <2>. DEFINE c == o \o rest
  <2>. HIDE DEF c
  <2>2. /\ IsList(c) /\ Len(c) = Len(o) + Len(rest) /\ DOMAIN c = 1 .. Len(o) + Len(rest)
        /\ \A i \in 1 .. Len(o) : c[i] = o[i]
        /\ \A i \in 1 .. Len(rest) : c[Len(o) + i] = rest[i]
    BY <2>1 DEF JoinedAs, c
  <2>3. c[1] = o[1] /\ Len(c) # 0  BY <1>2, <1>3, <2>2
  <2>. QED  BY <1>3, <2>2, <2>3 DEF c
<1>4. /\ IsList(all) /\ all[1] = first /\ DOMAIN all = 1 .. 1 + Len(rest) /\ Len(all) # 0
      /\ \A i \in 1 .. Len(rest) : all[1 + i] = rest[i]
  BY <1>1, <1>3
<1>. HIDE DEF all
<1>5. ASSUME NEW i \in DOMAIN all PROVE IsMessage(all[i])
  <2>1. CASE i = 1  BY <1>4, <2>1
  <2>2. CASE i # 1
    <3>1. i - 1 \in 1 .. Len(rest) /\ 1 + (i - 1) = i  BY <1>2, <1>4, <2>2
    <3>. QED  BY <1>2, <1>4, <3>1
  <2>. QED  BY <2>1, <2>2
<1>6. all # <<>>  BY <1>4, LenZero
<1>. QED  BY <1>4, <1>5, <1>6 DEF all

LEMMA Behindhand ==
  ASSUME NEW messages, IsList(messages), messages # <<>>,
         \A i \in DOMAIN messages : IsMessage(messages[i])
  PROVE  /\ IsList(Tail(messages)) /\ \A i \in DOMAIN Tail(messages) : IsMessage(Tail(messages)[i])
         /\ IsMessage(messages[1])
<1>. DEFINE S == {messages[i] : i \in DOMAIN messages}
            tail == Tail(messages)
<1>1. messages \in Seq(S)  BY DEF IsList
<1>2. Len(messages) \in Nat /\ DOMAIN messages = 1 .. Len(messages) /\ Len(messages) # 0
  BY ListLen, LenZero
<1>. HIDE DEF S, tail
<1>3. /\ tail \in Seq(S) /\ Len(tail) = Len(messages) - 1
      /\ \A i \in 1 .. Len(tail) : tail[i] = messages[i + 1]
  BY <1>1, HeadTailProperties DEF tail
<1>4. IsList(tail) /\ DOMAIN tail = 1 .. Len(tail)  BY <1>3, ListOf
<1>5. ASSUME NEW i \in DOMAIN tail PROVE IsMessage(tail[i])
  <2>1. i \in 1 .. Len(tail) /\ i + 1 \in DOMAIN messages  BY <1>2, <1>3, <1>4
  <2>. QED  BY <1>3, <2>1
<1>6. 1 \in DOMAIN messages  BY <1>2
<1>. QED  BY <1>4, <1>5, <1>6 DEF tail

\* A message that has the guidance put behind what it says.
LEMMA MessageWith ==
  ASSUME NEW m, IsMessage(m), NEW text
  PROVE  /\ LET new == [role |-> "system", kind |-> "text", content |-> <<text>>]
            IN  IsMessage(new) /\ TimesSaid(new, text) = 1
         /\ LET set == [m EXCEPT !.kind = "text", !.content = <<text>>]
            IN  IsMessage(set) /\ TimesSaid(set, text) = 1
         /\ LET more == [m EXCEPT !.content = Append(@, text)]
            IN  /\ IsMessage(more) /\ more.kind = m.kind
                /\ text \notin Range(m.content) => TimesSaid(more, text) = 1
<1>. DEFINE one == <<text>>
            new == [role |-> "system", kind |-> "text", content |-> one]
            set == [m EXCEPT !.kind = "text", !.content = one]
            put == Append(m.content, text)
            more == [m EXCEPT !.content = put]
<1>1. IsList(one) /\ DOMAIN one = {1} /\ one[1] = text
  <2>1. IsList(one) /\ Len(one) = 1 /\ one[1] = text  BY OneIn
  <2>2. DOMAIN one = 1 .. 1  BY <2>1, ListLen
  <2>. QED  BY <2>1, <2>2
<1>2. ASSUME NEW x, x.content = one PROVE TimesSaid(x, text) = 1
  <2>1. {i \in DOMAIN x.content : x.content[i] = text} = {1}  BY <1>1, <1>2
  <2>. QED  BY <2>1, SaidIn
<1>3. /\ IsList(m.content) /\ DOMAIN m = {"role", "kind", "content"}
      /\ m.kind \in {"text", "parts", "none"}
  BY DEF IsMessage
<1>4. /\ IsList(put) /\ DOMAIN put = 1 .. Len(m.content) + 1
      /\ \A i \in 1 .. Len(m.content) : put[i] = m.content[i]
      /\ put[Len(m.content) + 1] = text
  BY <1>3, Appended
<1>5. Len(m.content) \in Nat /\ DOMAIN m.content = 1 .. Len(m.content)  BY <1>3, ListLen
<1>. HIDE DEF one, put
<1>6. IsMessage(new) /\ new.content = one  BY <1>1 DEF IsMessage
<1>7. IsMessage(set) /\ set.content = one  BY <1>1, <1>3 DEF IsMessage
<1>8. IsMessage(more) /\ more.kind = m.kind /\ more.content = put
  BY <1>3, <1>4 DEF IsMessage
<1>. HIDE DEF new, set, more
<1>9. ASSUME text \notin Range(m.content) PROVE TimesSaid(more, text) = 1
  <2>. DEFINE n == Len(m.content) + 1
  <2>1. \A i \in 1 .. Len(m.content) : m.content[i] # text  BY <1>5, <1>9 DEF Range
  <2>2. \A i \in 1 .. n : i = n \/ i \in 1 .. Len(m.content)  BY <1>5
  <2>3. {i \in DOMAIN more.content : more.content[i] = text} = {n}
    BY <1>4, <1>5, <1>8, <2>1, <2>2
  <2>. QED  BY <2>3, SaidIn
<1>10. TimesSaid(new, text) = 1 /\ TimesSaid(set, text) = 1  BY <1>2, <1>6, <1>7
<1>11. /\ IsMessage(new) /\ TimesSaid(new, text) = 1 /\ IsMessage(set) /\ TimesSaid(set, text) = 1
       /\ IsMessage(more) /\ more.kind = m.kind
       /\ text \notin Range(m.content) => TimesSaid(more, text) = 1
  BY <1>6, <1>7, <1>8, <1>9, <1>10
<1>. QED  BY <1>11 DEF new, set, more, one, put

LEMMA GuidedOnce ==
  ASSUME NEW messages, NEW text, IsConversation(messages, text)
  PROVE  /\ IsList(with_guidance(messages, text))
         /\ \A i \in DOMAIN with_guidance(messages, text) :
              IsMessage(with_guidance(messages, text)[i])
         /\ SaysOnce(with_guidance(messages, text), text)
<1>. DEFINE out == with_guidance(messages, text)
            Fine(all) == /\ IsList(all) /\ \A i \in DOMAIN all : IsMessage(all[i])
                         /\ SaysOnce(all, text)
            first == messages[1]
            new == [role |-> "system", kind |-> "text", content |-> <<text>>]
            set == [first EXCEPT !.kind = "text", !.content = <<text>>]
            more == [first EXCEPT !.content = Append(@, text)]
<1>1. IsList(messages) /\ \A i \in DOMAIN messages : IsMessage(messages[i])
  BY DEF IsConversation
<1>2. CASE messages = <<>>
  <2>1. out = messages  BY <1>2 DEF with_guidance
  <2>. QED  BY <1>1, <1>2, <2>1 DEF SaysOnce
<1>3. CASE messages # <<>> /\ SaysAlready(messages, text)
  <2>1. out = messages  BY <1>3 DEF with_guidance
  <2>2. first.kind = "text" /\ text \in Range(first.content)  BY <1>3 DEF SaysAlready
  <2>3. IsMessage(first)  BY <1>1, <1>3, Behindhand
  <2>4. TimesSaid(first, text) <= 1  BY <1>3, <2>2 DEF IsConversation, SaidAtMostOnce
  <2>5. IsList(first.content)  BY <2>3 DEF IsMessage
  <2>6. TimesSaid(first, text) \in Nat /\ TimesSaid(first, text) # 0
    <3>1. \E i \in DOMAIN first.content : first.content[i] = text  BY <2>2 DEF Range
    <3>. HIDE DEF first
    <3>. QED  BY <2>5, <3>1, SaidIs
  <2>7. TimesSaid(first, text) = 1  BY <2>4, <2>6
  <2>. QED  BY <1>1, <2>1, <2>7 DEF SaysOnce
<1>4. CASE messages # <<>> /\ ~SaysAlready(messages, text)
  <2>1. out = merge_guidance(messages, text)  BY <1>4 DEF with_guidance
  <2>2. /\ IsList(Tail(messages)) /\ \A i \in DOMAIN Tail(messages) : IsMessage(Tail(messages)[i])
        /\ IsMessage(first)
    BY <1>1, <1>4, Behindhand
  <2>3. /\ IsMessage(new) /\ TimesSaid(new, text) = 1
        /\ IsMessage(set) /\ TimesSaid(set, text) = 1
        /\ IsMessage(more) /\ more.kind = first.kind
        /\ text \notin Range(first.content) => TimesSaid(more, text) = 1
    <3>. HIDE DEF first
    <3>. QED  BY <2>2, MessageWith
  <2>4. \/ out = <<new>> \o messages
        \/ out = <<set>> \o Tail(messages)
        \/ first.role = "system" /\ out = <<more>> \o Tail(messages)
    BY <1>4, <2>1 DEF merge_guidance
  <2>. HIDE DEF out, new, set, more
  <2>5. ASSUME NEW m, IsMessage(m), m.kind = "text" => TimesSaid(m, text) = 1,
               NEW rest, IsList(rest), \A i \in DOMAIN rest : IsMessage(rest[i])
        PROVE  Fine(<<m>> \o rest)
    <3>. DEFINE all == <<m>> \o rest
    <3>1. /\ IsList(all) /\ all[1] = m /\ \A i \in DOMAIN all : IsMessage(all[i])
      BY <2>5, InFront
    <3>. HIDE DEF all
    <3>2. Fine(all)  BY <2>5, <3>1 DEF SaysOnce
    <3>. QED  BY <3>2 DEF all
  <2>6. first.role = "system" /\ first.kind = "text" => text \notin Range(first.content)
    BY <1>4 DEF SaysAlready
  <2>. HIDE DEF first, Fine
  <2>7. Fine(out)
    <3>1. CASE out = <<new>> \o messages  BY <1>1, <2>3, <2>5, <3>1
    <3>2. CASE out = <<set>> \o Tail(messages)  BY <2>2, <2>3, <2>5, <3>2
    <3>3. CASE first.role = "system" /\ out = <<more>> \o Tail(messages)
      BY <2>2, <2>3, <2>5, <2>6, <3>3
    <3>. QED  BY <2>4, <3>1, <3>2, <3>3
  <2>. QED  BY <2>7 DEF Fine, out
<1>. QED  BY <1>2, <1>3, <1>4

\* A conversation of LiteLLM, as it comes and as it is sent on.
Guide(r) == guidance(r.config, r.lang)

IsTalk(r) == r.route = "litellm" => IsConversation(r.messages, Guide(r))

IsSentOn(r, response) ==
  r.route = "litellm" /\ response.kind = "messages" =>
    /\ IsList(response.messages)
    /\ \A i \in DOMAIN response.messages : IsMessage(response.messages[i])
    /\ SaysOnce(response.messages, Guide(r))

IsGuided(j) ==
  j.stage # "idle" =>
    /\ IsTalk(j.request)
    /\ j.stage = "done" => IsSentOn(j.request, j.response)

\* What is made of a request keeps its conversation and its guidance.
LEMMA TalkKept ==
  ASSUME NEW r, IsRequest(r), IsTalk(r)
  PROVE  /\ IsTalk(Reviewed(r))
         /\ \A texts : IsTalk([r EXCEPT !.texts = texts])
         /\ \A messages : IsConversation(messages, Guide(r)) =>
              IsTalk([r EXCEPT !.messages = messages])
<1>. DEFINE c == [r.config EXCEPT !.disabled = @ \union Inclusive]
            q == [r EXCEPT !.config = c]
<1>1. "config" \in DOMAIN r /\ "disabled" \in DOMAIN r.config  BY DEF IsRequest, IsConfig
<1>2. Reviewed(r) = q  BY <1>1 DEF Reviewed
<1>3. /\ c.german_gender_ending = r.config.german_gender_ending
      /\ c.french_gender_separator = r.config.french_gender_separator
  BY DEF IsRequest, IsConfig
<1>. HIDE DEF c
<1>4. q.config = c /\ q.lang = r.lang /\ q.messages = r.messages /\ q.route = r.route
  BY DEF IsRequest
<1>. HIDE DEF q
<1>5. IsTalk(q)  BY <1>3, <1>4 DEF IsTalk, Guide, guidance
<1>6. ASSUME NEW texts PROVE IsTalk([r EXCEPT !.texts = texts])
  <2>. DEFINE t == [r EXCEPT !.texts = texts]
  <2>1. /\ t.config = r.config /\ t.lang = r.lang /\ t.messages = r.messages
        /\ t.route = r.route
    BY DEF IsRequest
  <2>. HIDE DEF t
  <2>2. IsTalk(t)  BY <2>1 DEF IsTalk, Guide
  <2>. QED  BY <2>2 DEF t
<1>7. ASSUME NEW messages, IsConversation(messages, Guide(r))
      PROVE  IsTalk([r EXCEPT !.messages = messages])
  <2>. DEFINE t == [r EXCEPT !.messages = messages]
  <2>1. t.config = r.config /\ t.lang = r.lang /\ t.messages = messages
    BY DEF IsRequest
  <2>. HIDE DEF t
  <2>2. IsTalk(t)  BY <1>7, <2>1 DEF IsTalk, Guide
  <2>. QED  BY <2>2 DEF t
<1>. QED  BY <1>2, <1>5, <1>6, <1>7

LEMMA OpenedGuided ==
  ASSUME NEW r, IsRequest(r), Comes(r), IsTalk(r), NEW k, Stays(Opened(r), k, {"resends"})
  PROVE  IsGuided(k)
<1>. DEFINE o == Opened(r)
<1>1. k.stage = o.stage /\ k.request = o.request /\ k.response = o.response
  BY DEF Stays, JobFields
<1>. HIDE DEF o
<1>2. CASE r.route # "litellm"
  <2>1. k.request.route # "litellm"  BY <1>1, <1>2, OpenedRequest DEF o
  <2>. QED  BY <2>1 DEF IsGuided, IsTalk, IsSentOn
<1>3. CASE r.route = "litellm"
  <2>. DEFINE sent == with_guidance(r.messages, Guide(r))
              first == FirstReviewed(r.texts[1])
              whole == first = r.texts[1]
  <2>1. o = OpenedLitellm(r)  BY <1>3 DEF Opened, o
  <2>2. \/ o = Done(Started(r), Refusal)
        \/ o = Done(Started(r), Chat(sent))
        \/ o = Reviewing(Started(Reviewed(r)), 1, first, whole)
    BY <2>1 DEF OpenedLitellm, Guide
  <2>3. /\ IsList(sent) /\ \A i \in DOMAIN sent : IsMessage(sent[i])
        /\ SaysOnce(sent, Guide(r))
    BY <1>3, GuidedOnce DEF IsTalk
  <2>. HIDE DEF sent, first, whole
  <2>4. ASSUME NEW response, o = Done(Started(r), response)
        PROVE  o.request = r /\ o.response = response
    BY <2>4, StartedIs DEF Done, IsFresh, JobFields
  <2>5. CASE o = Done(Started(r), Refusal)
    <3>1. o.request = r /\ o.response.kind = "refused"  BY <2>4, <2>5 DEF Refusal
    <3>. QED  BY <1>1, <3>1 DEF IsGuided, IsSentOn
  <2>6. CASE o = Done(Started(r), Chat(sent))
    <3>1. o.request = r /\ o.response = Chat(sent)  BY <2>4, <2>6
    <3>2. IsSentOn(r, Chat(sent))  BY <2>3 DEF IsSentOn, Chat
    <3>. QED  BY <1>1, <3>1, <3>2 DEF IsGuided
  <2>7. CASE o = Reviewing(Started(Reviewed(r)), 1, first, whole)
    <3>. DEFINE q == Reviewed(r)
    <3>1. IsTalk(q)  BY TalkKept
    <3>. HIDE DEF q
    <3>2. Started(q).request = q /\ DOMAIN Started(q) = JobFields  BY StartedIs DEF IsFresh
    <3>3. ReviewGoesOn(Started(q), o, 1, first, whole)  BY <2>7, <3>2, ReviewingGives DEF q
    <3>4. o.request = q /\ o.stage # "done"  BY <3>2, <3>3 DEF ReviewGoesOn, Stays, JobFields
    <3>. QED  BY <1>1, <3>1, <3>4 DEF IsGuided
  <2>. QED  BY <2>2, <2>5, <2>6, <2>7
<1>. QED  BY <1>2, <1>3

\* The handlers keep the request, and send on no conversation of LiteLLM's.
LEMMA ServesTexts ==
  ASSUME IsGood(job), Serve
  PROVE  /\ job.stage # "idle" /\ job'.request = job.request
         /\ job'.stage = "done" =>
              job.request.route # "litellm" \/ job'.response.kind # "messages"
<1>1. DOMAIN job = JobFields  BY DEF IsGood, IsJob
<1>2. ASSUME NEW part, ReadFailed(job, job', part) \/ ReadOn(job, job', part)
      PROVE  job'.request = job.request /\ job'.stage # "done"
  BY <1>2 DEF ReadFailed, ReadOn, Stays, JobFields
<1>3. CASE ReadText
  <2>. DEFINE part == fetch_text(job.answer)
              next == Done(job, Refusal)
  <2>1. job' = Read(part, next) /\ ~IsGuardrail(job.request) /\ job.stage = "read"
    BY <1>3 DEF ReadText
  <2>2. next.request = job.request
    <3>1. Stays(job, next, {"stage", "response"})  BY <1>1, DoneIs
    <3>. HIDE DEF next
    <3>. QED  BY <3>1 DEF Stays, JobFields
  <2>. HIDE DEF part, next
  <2>3. job' = next \/ ReadFailed(job, job', part) \/ ReadOn(job, job', part)
    BY <1>1, <2>1, ReadGives
  <2>4. job'.request = job.request  BY <1>2, <2>2, <2>3
  <2>. QED  BY <2>1, <2>4 DEF IsGuardrail
<1>4. CASE ReadAnswer
  <2>. DEFINE part == Part(Looked(job.answer), job.start)
              start == Behind(job.start, part)
  <2>1. /\ job.stage = "read"
        /\ \/ job' = [job EXCEPT !.stage = "verdict"]
           \/ job' = [job EXCEPT !.start = start]
           \/ ReadFailed(job, job', part) \/ ReadOn(job, job', part)
    BY <1>4, ReadAnswerGives
  <2>. HIDE DEF part, start
  <2>2. CASE job' = [job EXCEPT !.stage = "verdict"] \/ job' = [job EXCEPT !.start = start]
    BY <1>1, <2>1, <2>2 DEF JobFields
  <2>. QED  BY <1>2, <2>1, <2>2
<1>5. CASE AskLanguageTool
  <2>1. /\ job.stage = "languagetool" /\ job'.stage # "done"
        /\ \/ Stays(job, job', {"stage", "down"}) \/ Stays(job, job', {"stage", "lt_results"})
    BY <1>5, AskGives
  <2>. QED  BY <2>1 DEF Stays, JobFields
<1>6. CASE Sort
  <2>1. ASSUME NEW genuine, SortsTo(job, job', genuine)
        PROVE  /\ job'.request = job.request
               /\ job'.stage = "done" => job.request.route # "litellm"
    <3>1. CASE job.request.route \in {"check", "lt"}
      BY <2>1, <3>1 DEF SortsTo, Stays, JobFields
    <3>2. CASE ~(job.request.route \in {"check", "lt"})
      BY <2>1, <3>2 DEF SortsTo, Stays, JobFields
    <3>. QED  BY <3>1, <3>2
  <2>2. ASSUME Stays(job, job', {"stage", "down"}), job'.stage = "failed"
        PROVE  job'.request = job.request
    BY <2>2 DEF Stays, JobFields
  <2>. QED  BY <1>6, <2>1, <2>2, SortGives
<1>7. CASE Verdict
  <2>. DEFINE said == [kind |-> "verdict", failed_on |-> Failed, findings |-> job.findings,
                       limit_reached |-> Len(job.answer) > GUARDRAIL_MAX_LENGTH,
                       reask |-> IF Failed = {} THEN Nothing ELSE ReviewPrompt(job.findings)]
  <2>1. /\ job' = Done(job, said) /\ job.stage = "verdict" /\ job.request.route = "guardrail"
    BY <1>7 DEF Verdict
  <2>. HIDE DEF said
  <2>2. Stays(job, job', {"stage", "response"})  BY <1>1, <2>1, DoneIs
  <2>. QED  BY <2>1, <2>2 DEF Stays, JobFields
<1>8. CASE JudgeText
  <2>1. ASSUME NEW j, j.request = job.request, NEW index, NEW text, NEW whole,
               ReviewGoesOn(j, job', index, text, whole)
        PROVE  job'.request = job.request /\ job'.stage # "done"
    BY <2>1 DEF ReviewGoesOn, Stays, JobFields
  <2>2. ASSUME NEW answer, NEW issue, AnswerGoesOn(answer, issue, job')
        PROVE  /\ job'.request = job.request
               /\ job'.stage = "done" => job'.response.kind # "messages"
    <3>. DEFINE judged == JudgedWith(answer, issue)
                out == LitellmOut(judged)
    <3>1. DOMAIN judged = JobFields /\ judged.request = job.request
      BY <1>1 DEF JudgedWith, JobFields
    <3>2. \/ \E index, text, whole : ReviewGoesOn(judged, job', index, text, whole)
          \/ job' = Done(judged, out)
      BY <2>2 DEF AnswerGoesOn
    <3>3. out.kind # "messages"  BY DEF LitellmOut
    <3>. HIDE DEF judged, out
    <3>4. CASE job' = Done(judged, out)
      <4>1. Stays(judged, job', {"stage", "response"}) /\ job'.response = out
        BY <3>1, <3>4, DoneIs
      <4>2. job'.request = judged.request  BY <4>1 DEF Stays, JobFields
      <4>. QED  BY <3>1, <3>3, <4>1, <4>2
    <3>. QED  BY <2>1, <3>1, <3>2, <3>4
  <2>. QED  BY <1>8, <2>1, <2>2, JudgeGives
<1>. QED  BY <1>3, <1>4, <1>5, <1>6, <1>7, <1>8 DEF Serve

LEMMA AgainGuided ==
  ASSUME IsGood(job), IsNoting(job), IsGuided(job), SendAgain \/ NextTurn
  PROVE  IsGuided(job')
<1>. DEFINE resends == job.resends + 1
<1>1. job.stage = "done" /\ IsRequest(job.request) /\ job.response # Nothing
  BY DEF SendAgain, NextTurn, IsGood, IsAmongTexts
<1>2. Comes(job.request) /\ HasNotes(job)  BY <1>1 DEF IsNoting, IsForm
<1>3. IsTalk(job.request) /\ IsSentOn(job.request, job.response)  BY <1>1 DEF IsGuided
<1>4. ASSUME NEW r, IsRequest(r), job' = [Opened(r) EXCEPT !.resends = resends]
      PROVE  Stays(Opened(r), job', {"resends"})
  <2>1. DOMAIN Opened(r) = JobFields  BY <1>4, OpenedIsGood DEF IsGood, IsJob
  <2>. HIDE DEF resends
  <2>. QED  BY <1>4, <2>1 DEF Stays, JobFields
<1>5. CASE SendAgain
  <2>. DEFINE texts == job.response.texts
              r == [job.request EXCEPT !.texts = texts]
  <2>1. job.response.kind = "texts" /\ job' = [Opened(r) EXCEPT !.resends = resends]
    BY <1>5 DEF SendAgain
  <2>2. IsRequest(r)
    <3>1. IsList(texts) /\ \A i \in DOMAIN texts : IsList(texts[i])
      BY <1>1, <2>1 DEF IsGood, IsAnswered
    <3>. QED  BY <1>1, <3>1, RequestWith
  <2>3. /\ r.route = job.request.route
        /\ r.config.term_replacements = job.request.config.term_replacements
    BY <1>1, WithTexts
  <2>4. IsTalk(r)  BY <1>1, <1>3, TalkKept
  <2>. HIDE DEF r, resends
  <2>5. Comes(r)
    <3>1. job.request.texts # <<>>  BY <1>2, <2>1 DEF HasNotes
    <3>. QED  BY <1>2, <2>3, <3>1 DEF Comes
  <2>. QED  BY <1>4, <2>1, <2>2, <2>4, <2>5, OpenedGuided
<1>6. CASE NextTurn
  <2>. DEFINE messages == job.response.messages
              r == [job.request EXCEPT !.messages = messages]
  <2>1. job.response.kind = "messages" /\ job' = [Opened(r) EXCEPT !.resends = resends]
    BY <1>6 DEF NextTurn
  <2>2. IsRequest(r)  BY <1>1, RequestWith
  <2>3. r.texts = job.request.texts /\ r.route = job.request.route /\ r.config = job.request.config
    BY <1>1 DEF IsRequest
  <2>4. IsTalk(r)
    <3>1. CASE job.request.route = "litellm"
      <4>1. IsConversation(messages, Guide(job.request))
        BY <1>3, <2>1, <3>1 DEF IsSentOn, SaysOnce, SaidAtMostOnce, IsConversation
      <4>. QED  BY <1>1, <1>3, <4>1, TalkKept
    <3>2. CASE job.request.route # "litellm"  BY <2>3, <3>2 DEF IsTalk
    <3>. QED  BY <3>1, <3>2
  <2>. HIDE DEF r, resends
  <2>5. Comes(r)  BY <1>2, <2>3 DEF Comes
  <2>. QED  BY <1>4, <2>1, <2>2, <2>4, <2>5, OpenedGuided
<1>. QED  BY <1>5, <1>6

JobIsGuided == IsGuided(job)

LEMMA JobStaysGuided == JobIsGood /\ JobIsNoting /\ JobIsGuided /\ [Next]_job => JobIsGuided'
<1>. SUFFICES ASSUME IsGood(job), IsNoting(job), IsGuided(job), [Next]_job PROVE IsGuided(job')
  BY DEF JobIsGood, JobIsNoting, JobIsGuided
<1>1. CASE Receive
  <2>1. PICK r \in Requests : job' = Opened(r)  BY <1>1 DEF Receive
  <2>2. IsRequest(r) /\ Comes(r)  BY TextChecksAssumption DEF Comes
  <2>3. IsTalk(r)  BY ConversationsAssumption DEF IsTalk, Guide, IsConversation
  <2>4. DOMAIN job' = JobFields  BY <2>1, <2>2, OpenedIsGood DEF IsGood, IsJob
  <2>5. Stays(Opened(r), job', {"resends"})  BY <2>1, <2>4 DEF Stays
  <2>. QED  BY <2>2, <2>3, <2>5, OpenedGuided
<1>2. CASE Serve
  <2>1. /\ job.stage # "idle" /\ job'.request = job.request
        /\ job'.stage = "done" =>
             job.request.route # "litellm" \/ job'.response.kind # "messages"
    BY <1>2, ServesTexts
  <2>. QED  BY <2>1 DEF IsGuided, IsSentOn
<1>3. CASE SwitchFormat \/ SwitchIntoInklusivum
  <2>1. job.stage = "done" /\ Stays(job, job', {"form", "format"})
    BY <1>3, SwitchGives DEF IsGood, IsJob
  <2>2. job'.stage = job.stage /\ job'.request = job.request /\ job'.response = job.response
    BY <2>1 DEF Stays, JobFields
  <2>. QED  BY <2>2 DEF IsGuided
<1>4. CASE Leave
  <2>1. job'.stage = "idle"  BY <1>4 DEF Leave, Idle
  <2>. QED  BY <2>1 DEF IsGuided
<1>5. CASE UNCHANGED job  BY <1>5
<1>. QED  BY <1>1, <1>2, <1>3, <1>4, <1>5, AgainGuided DEF Next

\* However often a gateway sends on what it got from the guardrail, what is added to it is
\* there once.  An answer with a note of Witty's (app/routes/guardrail_litellm.py) gets the
\* same note again: what stands before the note is reviewed as it was when the note was
\* written, so JudgeText knows it.  A conversation has the guidance (app/guidance.py) in it
\* once, unless its system message is a list of parts.
THEOREM AddedOnlyOnce == Spec => []AddedOnce
<1>1. Init => JobIsNoting /\ JobIsGuided
  BY DEF Init, Idle, JobIsNoting, IsNoting, JobIsGuided, IsGuided
<1>2. ASSUME JobIsNoting, JobIsGuided PROVE AddedOnce
  <2>1. ASSUME Ended PROVE HasNotes(job) /\ IsSentOn(job.request, job.response)
    BY <1>2, <2>1 DEF Ended, JobIsNoting, IsNoting, IsForm, JobIsGuided, IsGuided
  <2>. QED  BY <2>1 DEF AddedOnce, Ended, HasNotes, IsSentOn, SaysOnce, Guide
<1>. QED  BY <1>1, <1>2, JobsAreGood, JobStaysNoting, JobStaysGuided, PTL DEF Spec

-----------------------------------------------------------------------------
\* What an answer's review finds, part by part.  Where a finding is: no two of a text are of the
\* same rule and begin at the same place.

Differ(f, g) == f.text_id # g.text_id \/ f.start # g.start

AllDiffer(a, b) == \A i \in DOMAIN a : \A k \in DOMAIN b : Differ(a[i], b[k])

NoneTwice(fs) == \A i, k \in DOMAIN fs : i # k => Differ(fs[i], fs[k])

LEMMA NothingTwice == NoneTwice(<<>>)
BY EmptyList DEF NoneTwice

LEMMA JoinedOnce ==
  ASSUME NEW a, IsList(a), NoneTwice(a), NEW b, IsList(b), NoneTwice(b), AllDiffer(a, b)
  PROVE  NoneTwice(a \o b)
<1>. DEFINE c == a \o b
<1>1. /\ DOMAIN a = 1 .. Len(a) /\ Len(a) \in Nat
      /\ DOMAIN b = 1 .. Len(b) /\ Len(b) \in Nat
      /\ DOMAIN c = 1 .. Len(a) + Len(b)
      /\ \A i \in 1 .. Len(a) : c[i] = a[i]
      /\ \A i \in 1 .. Len(b) : c[Len(a) + i] = b[i]
  BY ListLen, Joined
<1>. HIDE DEF c
<1>2. ASSUME NEW i \in DOMAIN c
      PROVE  \/ i \in DOMAIN a /\ c[i] = a[i]
             \/ i \notin DOMAIN a /\ i - Len(a) \in DOMAIN b /\ c[i] = b[i - Len(a)]
  <2>1. CASE i \in 1 .. Len(a)  BY <2>1, <1>1
  <2>2. CASE i \notin 1 .. Len(a)
    <3>. DEFINE k == i - Len(a)
    <3>1. k \in 1 .. Len(b) /\ Len(a) + k = i  BY <2>2, <1>1
    <3>. HIDE DEF k
    <3>2. c[i] = b[k] /\ k \in DOMAIN b  BY <3>1, <1>1
    <3>. QED  BY <2>2, <3>2, <1>1 DEF k
  <2>. QED  BY <2>1, <2>2
<1>3. ASSUME NEW i \in DOMAIN c, NEW k \in DOMAIN c, i # k PROVE Differ(c[i], c[k])
  <2>1. CASE i \in DOMAIN a /\ k \in DOMAIN a  BY <2>1, <1>2, <1>3 DEF NoneTwice
  <2>2. CASE i \in DOMAIN a /\ k \notin DOMAIN a  BY <2>2, <1>2 DEF AllDiffer
  <2>3. CASE i \notin DOMAIN a /\ k \in DOMAIN a  BY <2>3, <1>2 DEF AllDiffer, Differ
  <2>4. CASE i \notin DOMAIN a /\ k \notin DOMAIN a
    <3>1. i - Len(a) # k - Len(a)  BY <1>1, <1>3
    <3>2. /\ i - Len(a) \in DOMAIN b /\ c[i] = b[i - Len(a)]
          /\ k - Len(a) \in DOMAIN b /\ c[k] = b[k - Len(a)]
      BY <1>2, <2>4
    <3>. QED  BY <3>1, <3>2 DEF NoneTwice
  <2>. QED  BY <2>1, <2>2, <2>3, <2>4
<1>4. NoneTwice(c)  BY <1>3 DEF NoneTwice
<1>. QED  BY <1>4 DEF c

\* What stands once in each of some lists, and not in two of them, stands once in what they make.
LEMMA FlatOnce ==
  ASSUME NEW seqs, IsList(seqs),
         \A i \in 1 .. Len(seqs) : IsList(seqs[i]) /\ NoneTwice(seqs[i]),
         \A i, k \in 1 .. Len(seqs) : i < k => AllDiffer(seqs[i], seqs[k])
  PROVE  NoneTwice(FlattenSeq(seqs))
<1>1. PICK flat : /\ FlattenSteps(flat, seqs, Len(seqs)) /\ FlattenSeq(seqs) = flat[Len(seqs)]
                  /\ \A k \in 0 .. Len(seqs) : IsList(flat[k])
  BY Flattens
<1>2. Len(seqs) \in Nat  BY ListLen
<1>. DEFINE T == {k \in 0 .. Len(seqs) : StandIn(flat[k], seqs, k) /\ NoneTwice(flat[k])}
<1>3. 0 \in T
  <2>1. flat[0] = <<>> /\ 0 \in 0 .. Len(seqs)  BY <1>1, <1>2 DEF FlattenSteps
  <2>. QED  BY <2>1, EmptyList, NothingTwice DEF StandIn
<1>4. ASSUME NEW k \in 0 .. Len(seqs) - 1, k \in T PROVE k + 1 \in T
  <2>1. flat[k + 1] = flat[k] \o seqs[k + 1]  BY <1>1 DEF FlattenSteps
  <2>2. k \in 0 .. Len(seqs) /\ k + 1 \in 1 .. Len(seqs) /\ k + 1 \in 0 .. Len(seqs) /\ k \in Nat
    BY <1>2
  <2>3. IsList(flat[k]) /\ IsList(seqs[k + 1]) /\ StandIn(flat[k], seqs, k) /\ NoneTwice(flat[k])
    BY <1>1, <1>4, <2>2
  <2>4. StandIn(flat[k + 1], seqs, k + 1)  BY <2>1, <2>2, <2>3, JoinedStandIn
  <2>5. AllDiffer(flat[k], seqs[k + 1])
    <3>1. ASSUME NEW i \in DOMAIN flat[k], NEW h \in DOMAIN seqs[k + 1]
          PROVE  Differ(flat[k][i], seqs[k + 1][h])
      <4>1. PICK m \in 1 .. k : \E j \in DOMAIN seqs[m] : flat[k][i] = seqs[m][j]
        BY <2>3 DEF StandIn
      <4>2. PICK j \in DOMAIN seqs[m] : flat[k][i] = seqs[m][j]  BY <4>1
      <4>3. m \in 1 .. Len(seqs) /\ m < k + 1  BY <2>2
      <4>4. AllDiffer(seqs[m], seqs[k + 1])  BY <2>2, <4>3
      <4>. QED  BY <4>2, <4>4 DEF AllDiffer
    <3>. QED  BY <3>1 DEF AllDiffer
  <2>6. NoneTwice(seqs[k + 1])  BY <2>2
  <2>7. NoneTwice(flat[k + 1])  BY <2>1, <2>3, <2>5, <2>6, JoinedOnce
  <2>. QED  BY <2>2, <2>4, <2>7
<1>. HIDE DEF T
<1>5. \A k \in 0 .. Len(seqs) : k \in T  BY <1>2, <1>3, <1>4, InductTo
<1>6. Len(seqs) \in 0 .. Len(seqs)  BY <1>2
<1>. QED  BY <1>1, <1>5, <1>6 DEF T

\* What stands in one of some lists stands in what they make.
LEMMA FlatHas ==
  ASSUME NEW seqs, IsList(seqs), \A i \in 1 .. Len(seqs) : IsList(seqs[i]),
         NEW m \in 1 .. Len(seqs), NEW j \in DOMAIN seqs[m]
  PROVE  \E i \in DOMAIN FlattenSeq(seqs) : FlattenSeq(seqs)[i] = seqs[m][j]
<1>1. PICK flat : /\ FlattenSteps(flat, seqs, Len(seqs)) /\ FlattenSeq(seqs) = flat[Len(seqs)]
                  /\ \A k \in 0 .. Len(seqs) : IsList(flat[k])
  BY Flattens
<1>2. PlacedUpTo(flat, seqs, Len(seqs))  BY <1>1, FlatPlaced
<1>3. Len(seqs) \in Nat /\ Len(seqs) \in 0 .. Len(seqs)  BY ListLen
<1>4. j \in 1 .. Len(seqs[m])  BY ListLen
<1>. DEFINE i == Len(flat[m - 1]) + j
<1>5. i \in 1 .. Len(flat[Len(seqs)]) /\ flat[Len(seqs)][i] = seqs[m][j]
  BY <1>2, <1>4 DEF PlacedUpTo
<1>6. DOMAIN flat[Len(seqs)] = 1 .. Len(flat[Len(seqs)])  BY <1>1, <1>3, ListLen
<1>. QED  BY <1>1, <1>5, <1>6

\* A character more counts one unit more at least.
LEMMA OffsetsRise ==
  ASSUME NEW text, IsList(text), NEW i \in 0 .. Len(text), NEW k \in 0 .. Len(text), i < k
  PROVE  utf16_offsets(text)[i] < utf16_offsets(text)[k]
<1>1. i \in Nat /\ k \in Nat  BY ListLen
<1>2. CountUpTo(text, i, CountedTwice) <= CountUpTo(text, k, CountedTwice)
  BY <1>1, CountGrows
<1>3. CountUpTo(text, i, CountedTwice) \in Nat /\ CountUpTo(text, k, CountedTwice) \in Nat
  BY <1>1, CountIs
<1>. QED  BY <1>1, <1>2, <1>3, OffsetsAre

\* Behind what comes before a part, as many count twice as in the part.
LEMMA CountAhead ==
  ASSUME NEW part, NEW text, NEW start, StandsAt(part, text, start), NEW characters
  PROVE  \A i \in 0 .. Len(part) :
           CountUpTo(text, start + i, characters) =
             CountUpTo(text, start, characters) + CountUpTo(part, i, characters)
<1>. DEFINE T == {i \in 0 .. Len(part) :
                    CountUpTo(text, start + i, characters) =
                      CountUpTo(text, start, characters) + CountUpTo(part, i, characters)}
<1>1. start \in Nat /\ Len(part) \in Nat  BY ListLen DEF StandsAt
<1>2. 0 \in T
  <2>1. CountUpTo(part, 0, characters) = 0  BY NoneCounts
  <2>2. CountUpTo(text, start, characters) \in Nat  BY <1>1, CountIs
  <2>. QED  BY <1>1, <2>1, <2>2
<1>3. ASSUME NEW i \in 0 .. Len(part) - 1, i \in T PROVE i + 1 \in T
  <2>1. i \in Nat /\ start + i \in Nat /\ i + 1 \in 1 .. Len(part) /\ i + 1 \in 0 .. Len(part)
    BY <1>1
  <2>2. CountUpTo(part, i + 1, characters) =
          CountUpTo(part, i, characters) + IF part[i + 1] \in characters THEN 1 ELSE 0
    BY <2>1, CountMore
  <2>. DEFINE at == start + i
  <2>3. CountUpTo(text, at + 1, characters) =
          CountUpTo(text, at, characters) + IF text[at + 1] \in characters THEN 1 ELSE 0
    BY <2>1, CountMore
  <2>4. start + (i + 1) = at + 1  BY <2>1, <1>1
  <2>5. part[i + 1] = text[at + 1]  BY <2>1, <2>4 DEF StandsAt
  <2>6. /\ CountUpTo(part, i, characters) \in Nat /\ CountUpTo(text, start, characters) \in Nat
        /\ CountUpTo(text, at, characters) \in Nat
    BY <1>1, <2>1, CountIs
  <2>7. CountUpTo(text, at, characters) =
          CountUpTo(text, start, characters) + CountUpTo(part, i, characters)
    BY <1>3
  <2>8. CountUpTo(text, at + 1, characters) =
          CountUpTo(text, start, characters) + CountUpTo(part, i + 1, characters)
    BY <2>2, <2>3, <2>5, <2>6, <2>7
  <2>. QED  BY <2>1, <2>4, <2>8
<1>. HIDE DEF T
<1>4. \A i \in 0 .. Len(part) : i \in T  BY <1>1, <1>2, <1>3, InductTo
<1>. QED  BY <1>4 DEF T

\* Where a part's offsets begin in the answer, and where they go on.
LEMMA ShiftAhead ==
  ASSUME NEW part, NEW text, NEW start, StandsAt(part, text, start)
  PROVE  /\ Shift(text, start) = utf16_offsets(text)[start]
         /\ \A i \in 0 .. Len(part) :
              utf16_offsets(text)[start + i] = Shift(text, start) + utf16_offsets(part)[i]
<1>. DEFINE head == Slice(text, 0, start)
<1>1. /\ IsList(part) /\ IsList(text) /\ Len(text) \in Nat /\ Len(part) \in Nat
      /\ start \in Nat /\ start <= Len(text) /\ Len(part) \in 0 .. Len(text) - start
  BY ListLen DEF StandsAt
<1>2. IsList(head) /\ Len(head) = start /\ \A i \in 1 .. Len(head) : head[i] = text[0 + i]
  BY <1>1, Sliced
<1>3. Shift(text, start) = utf16_offsets(head)[Len(head)]  BY DEF Shift, utf16_length
<1>. HIDE DEF head
<1>4. StandsAt(head, text, 0)  BY <1>1, <1>2 DEF StandsAt
<1>5. start \in 0 .. Len(head) /\ start \in 0 .. Len(text)  BY <1>1, <1>2
<1>6. CountUpTo(text, 0 + start, CountedTwice) =
        CountUpTo(text, 0, CountedTwice) + CountUpTo(head, start, CountedTwice)
  BY <1>4, <1>5, CountAhead
<1>7. CountUpTo(text, 0, CountedTwice) = 0  BY NoneCounts
<1>8. CountUpTo(head, start, CountedTwice) \in Nat /\ 0 + start = start  BY <1>1, CountIs
<1>9. CountUpTo(text, start, CountedTwice) = CountUpTo(head, start, CountedTwice)
  BY <1>6, <1>7, <1>8
<1>10. utf16_offsets(head)[start] = start + CountUpTo(head, start, CountedTwice)
  BY <1>2, <1>5, OffsetsAre
<1>11. utf16_offsets(text)[start] = start + CountUpTo(text, start, CountedTwice)
  BY <1>1, <1>5, OffsetsAre
<1>12. Shift(text, start) = utf16_offsets(text)[start]
  BY <1>2, <1>3, <1>9, <1>10, <1>11
<1>13. ASSUME NEW i \in 0 .. Len(part)
       PROVE  utf16_offsets(text)[start + i] = Shift(text, start) + utf16_offsets(part)[i]
  <2>. DEFINE at == start + i
  <2>1. at \in 0 .. Len(text) /\ i \in Nat  BY <1>1
  <2>2. CountUpTo(text, at, CountedTwice) =
          CountUpTo(text, start, CountedTwice) + CountUpTo(part, i, CountedTwice)
    BY CountAhead
  <2>3. at = start + i  OBVIOUS
  <2>. HIDE DEF at
  <2>4. utf16_offsets(text)[at] = at + CountUpTo(text, at, CountedTwice)
    BY <1>1, <2>1, OffsetsAre
  <2>5. utf16_offsets(part)[i] = i + CountUpTo(part, i, CountedTwice)  BY <1>1, OffsetsAre
  <2>6. CountUpTo(text, start, CountedTwice) \in Nat /\ CountUpTo(part, i, CountedTwice) \in Nat
    BY <1>1, <2>1, CountIs
  <2>7. utf16_offsets(text)[at] = Shift(text, start) + utf16_offsets(part)[i]
    BY <1>1, <1>11, <1>12, <2>1, <2>2, <2>3, <2>4, <2>5, <2>6
  <2>. QED  BY <2>3, <2>7
<1>. QED  BY <1>12, <1>13

\* Two rules that may find something in the same text.
SameLanguage(rule, other) == rule.lang = other.lang \/ Nothing \in {rule.lang, other.lang}

\* No two rules of a language, nor terms of a user beside them, have the same words: the loop
\* over the tokens tries a user's terms first, and goes on behind what it finds.
WordsAreOnce ==
  \A r \in Requests : \A rule, other \in Rules \union r.config.term_replacements :
    SameLanguage(rule, other) /\ rule.words = other.words => rule = other

OnceEach(rules) == \A rule, other \in rules : rule.words = other.words => rule = other

LEMMA RulesOnce ==
  ASSUME WordsAreOnce, NEW q, Comes(q), NEW lang
  PROVE  OnceEach(RulesOf(lang, q.config))
<1>1. PICK r \in Requests : q.config.term_replacements = r.config.term_replacements
  BY DEF Comes
<1>2. ASSUME NEW rule \in RulesOf(lang, q.config)
      PROVE  rule \in Rules \union r.config.term_replacements /\ rule.lang \in {lang, Nothing}
  BY <1>1 DEF RulesOf, TermRules
<1>3. ASSUME NEW rule \in RulesOf(lang, q.config), NEW other \in RulesOf(lang, q.config)
      PROVE  SameLanguage(rule, other)
  <2>1. rule.lang \in {lang, Nothing} /\ other.lang \in {lang, Nothing}  BY <1>2
  <2>. QED  BY <2>1 DEF SameLanguage
<1>. QED  BY <1>2, <1>3 DEF WordsAreOnce, OnceEach

LEMMA FoundDiffer ==
  ASSUME NEW rules, OnceEach(rules), NEW rule \in rules, NEW other \in rules,
         NEW text, IsList(text), NEW s, NEW t, NEW f, NEW g,
         FoundBy(f, rule, s, text), FoundBy(g, other, t, text), rule # other \/ s # t
  PROVE  Differ(f, g)
<1>1. f.text_id = rule.words /\ g.text_id = other.words  BY DEF FoundBy
<1>2. CASE s = t
  <2>1. rule.words # other.words  BY <1>2 DEF OnceEach
  <2>. QED  BY <1>1, <2>1 DEF Differ
<1>3. CASE s # t
  <2>1. /\ s \in Nat /\ t \in Nat /\ IsList(rule.words) /\ IsList(other.words)
        /\ s + Len(rule.words) <= Len(text) /\ t + Len(other.words) <= Len(text)
    BY DEF FoundBy, IsRule, Matches
  <2>2. Len(rule.words) \in Nat /\ Len(other.words) \in Nat /\ Len(text) \in Nat
    BY <2>1, ListLen
  <2>3. s \in 0 .. Len(text) /\ t \in 0 .. Len(text) /\ (s < t \/ t < s)
    BY <1>3, <2>1, <2>2
  <2>4. utf16_offsets(text)[s] \in Nat /\ utf16_offsets(text)[t] \in Nat  BY <2>3, OffsetsAre
  <2>5. utf16_offsets(text)[s] # utf16_offsets(text)[t]  BY <2>3, <2>4, OffsetsRise
  <2>6. f.start = utf16_offsets(text)[s] /\ g.start = utf16_offsets(text)[t]  BY DEF FoundBy
  <2>. QED  BY <2>5, <2>6 DEF Differ
<1>. QED  BY <1>2, <1>3

\* The findings at a position are of a rule that matches there, and each such rule has one; also
\* of the rules with so many words.
FoundOf(fs, rules, text, start, n) ==
  /\ \A i \in DOMAIN fs : \E rule \in rules :
       FoundBy(fs[i], rule, start, text) /\ Len(rule.words) = n
  /\ \A rule \in rules : Matches(rule, text, start) /\ Len(rule.words) = n =>
       \E i \in DOMAIN fs : FoundBy(fs[i], rule, start, text)

FoundAt(fs, rules, text, start) ==
  /\ \A i \in DOMAIN fs : \E rule \in rules : FoundBy(fs[i], rule, start, text)
  /\ \A rule \in rules : Matches(rule, text, start) =>
       \E i \in DOMAIN fs : FoundBy(fs[i], rule, start, text)

LEMMA WittyOnce ==
  ASSUME NEW text, IsList(text), NEW lang, NEW config, IsConfig(config),
         OnceEach(RulesOf(lang, config))
  PROVE  /\ NoneTwice(witty_rules(text, lang, config))
         /\ \A rule \in RulesOf(lang, config), start \in Nat :
              Matches(rule, text, start) =>
                \E i \in DOMAIN witty_rules(text, lang, config) :
                  FoundBy(witty_rules(text, lang, config)[i], rule, start, text)
<1>. DEFINE rules == RulesOf(lang, config)
            Rep(start, rule) ==
              LET result == Result(rule, text, start, start + Len(rule.words), lang, config)
              IN  IF rule.form THEN mark_bulk(result, 1) ELSE result
            Of(start, n) == {r \in rules : Len(r.words) = n /\ Matches(r, text, start)}
            OfLength(start, n) ==
              LET found == SetToSeq(Of(start, n)) IN [i \in DOMAIN found |-> Rep(start, found[i])]
            At(start) == FlattenSeq([n \in DOMAIN text |-> OfLength(start, n)])
            all == [i \in DOMAIN text |-> At(i - 1)]
<1>1. IsFiniteSet(rules) /\ \A r \in rules : IsRule(r)  BY RulesKept DEF RulesOf
<1>2. Len(text) \in Nat /\ DOMAIN text = 1 .. Len(text)  BY ListLen
<1>3. witty_rules(text, lang, config) = FlattenSeq(all)  BY DEF witty_rules, RulesOf
<1>4. OnceEach(rules)  OBVIOUS
<1>. HIDE DEF rules
<1>5. ASSUME NEW start \in Nat, NEW rule \in rules, Matches(rule, text, start)
      PROVE  FoundBy(Rep(start, rule), rule, start, text)
  <2>1. IsRule(rule)  BY <1>1
  <2>. DEFINE f == Rep(start, rule)
  <2>2. f = Result(rule, text, start, start + Len(rule.words), lang, config)
          \/ f = mark_bulk(Result(rule, text, start, start + Len(rule.words), lang, config), 1)
    OBVIOUS
  <2>. HIDE DEF f
  <2>3. FoundBy(f, rule, start, text)  BY <1>5, <2>1, <2>2, ResultFound
  <2>. QED  BY <2>3 DEF f
<1>. HIDE DEF Rep
<1>6. ASSUME NEW rule \in rules, NEW start \in Nat, Matches(rule, text, start)
      PROVE  Len(rule.words) \in 1 .. Len(text) /\ start \in 0 .. Len(text) - 1
  <2>1. IsList(rule.words) /\ rule.words # <<>>  BY <1>1 DEF IsRule
  <2>2. Len(rule.words) \in Nat /\ Len(rule.words) # 0  BY <2>1, ListLen, LenZero
  <2>. QED  BY <1>2, <1>6, <2>2 DEF Matches
<1>7. ASSUME NEW start \in Nat, NEW n
      PROVE  /\ IsList(OfLength(start, n)) /\ NoneTwice(OfLength(start, n))
             /\ FoundOf(OfLength(start, n), rules, text, start, n)
  <2>. DEFINE found == SetToSeq(Of(start, n))
              f == [i \in DOMAIN found |-> Rep(start, found[i])]
  <2>1. /\ Of(start, n) \subseteq rules
        /\ \A r \in Of(start, n) : Matches(r, text, start) /\ Len(r.words) = n
        /\ \A r \in rules : Matches(r, text, start) /\ Len(r.words) = n => r \in Of(start, n)
    OBVIOUS
  <2>2. IsFiniteSet(Of(start, n))  BY <2>1, <1>1, FS_Subset
  <2>. HIDE DEF Of
  <2>3. /\ IsList(found) /\ \A i \in DOMAIN found : found[i] \in Of(start, n)
        /\ \A r \in Of(start, n) : \E i \in DOMAIN found : found[i] = r
        /\ \A i, k \in DOMAIN found : found[i] = found[k] => i = k
    BY <2>2, SetListed
  <2>. HIDE DEF found
  <2>4. Len(found) \in Nat /\ DOMAIN found = 1 .. Len(found)  BY <2>3, ListLen
  <2>5. \A i \in 1 .. Len(found) : f[i] = Rep(start, found[i])  BY <2>4
  <2>6. \A i \in 1 .. Len(found) :
          FoundBy(f[i], found[i], start, text) /\ found[i] \in rules /\ Len(found[i].words) = n
    BY <2>1, <2>3, <2>4, <2>5, <1>5
  <2>7. f = [i \in 1 .. Len(found) |-> f[i]]  BY <2>4
  <2>. HIDE DEF f
  <2>8. IsList(f) /\ DOMAIN f = 1 .. Len(found)  BY <2>4, <2>7, ListsMapped
  <2>9. ASSUME NEW i \in DOMAIN f, NEW k \in DOMAIN f, i # k PROVE Differ(f[i], f[k])
    <3>1. found[i] # found[k]  BY <2>3, <2>4, <2>8, <2>9
    <3>2. /\ FoundBy(f[i], found[i], start, text) /\ found[i] \in rules
          /\ FoundBy(f[k], found[k], start, text) /\ found[k] \in rules
      BY <2>6, <2>8, <2>9
    <3>. QED  BY <1>4, <3>1, <3>2, FoundDiffer
  <2>10. NoneTwice(f)  BY <2>9 DEF NoneTwice
  <2>11. ASSUME NEW rule \in rules, Matches(rule, text, start), Len(rule.words) = n
         PROVE  \E i \in DOMAIN f : FoundBy(f[i], rule, start, text)
    <3>1. PICK i \in DOMAIN found : found[i] = rule  BY <2>1, <2>3, <2>11
    <3>. QED  BY <2>4, <2>6, <2>8, <3>1
  <2>12. FoundOf(f, rules, text, start, n)  BY <2>6, <2>8, <2>11 DEF FoundOf
  <2>. QED  BY <2>8, <2>10, <2>12 DEF f, found
<1>. HIDE DEF OfLength
<1>8. ASSUME NEW start \in Nat
      PROVE  IsList(At(start)) /\ NoneTwice(At(start)) /\ FoundAt(At(start), rules, text, start)
  <2>. DEFINE f == [n \in DOMAIN text |-> OfLength(start, n)]
              flat == FlattenSeq(f)
  <2>1. \A n \in 1 .. Len(text) :
          IsList(f[n]) /\ NoneTwice(f[n]) /\ FoundOf(f[n], rules, text, start, n)
    BY <1>2, <1>7
  <2>2. f = [n \in 1 .. Len(text) |-> f[n]]  BY <1>2
  <2>. HIDE DEF f
  <2>3. IsList(f) /\ Len(f) = Len(text)  BY <1>2, <2>2, ListsMapped
  <2>4. ASSUME NEW m \in 1 .. Len(f), NEW n \in 1 .. Len(f), m < n PROVE AllDiffer(f[m], f[n])
    <3>1. ASSUME NEW i \in DOMAIN f[m], NEW k \in DOMAIN f[n] PROVE Differ(f[m][i], f[n][k])
      <4>1. PICK rule \in rules : FoundBy(f[m][i], rule, start, text) /\ Len(rule.words) = m
        BY <2>1, <2>3, <3>1 DEF FoundOf
      <4>2. PICK other \in rules : FoundBy(f[n][k], other, start, text) /\ Len(other.words) = n
        BY <2>1, <2>3, <3>1 DEF FoundOf
      <4>3. rule # other  BY <2>4, <4>1, <4>2
      <4>. QED  BY <1>4, <4>1, <4>2, <4>3, FoundDiffer
    <3>. QED  BY <3>1 DEF AllDiffer
  <2>5. NoneTwice(flat)  BY <2>1, <2>3, <2>4, FlatOnce
  <2>6. IsList(flat) /\ StandIn(flat, f, Len(f))  BY <2>1, <2>3, FlattenedFrom
  <2>7. ASSUME NEW m \in 1 .. Len(f), NEW j \in DOMAIN f[m]
        PROVE  \E i \in DOMAIN flat : flat[i] = f[m][j]
    BY <2>1, <2>3, FlatHas
  <2>. HIDE DEF flat
  <2>8. ASSUME NEW i \in DOMAIN flat
        PROVE  \E rule \in rules : FoundBy(flat[i], rule, start, text)
    <3>1. PICK m \in 1 .. Len(f) : \E j \in DOMAIN f[m] : flat[i] = f[m][j]
      BY <2>6 DEF StandIn
    <3>. QED  BY <2>1, <2>3, <3>1 DEF FoundOf
  <2>9. ASSUME NEW rule \in rules, Matches(rule, text, start)
        PROVE  \E i \in DOMAIN flat : FoundBy(flat[i], rule, start, text)
    <3>. DEFINE m == Len(rule.words)
    <3>1. m \in 1 .. Len(f)  BY <1>6, <2>3, <2>9
    <3>2. PICK j \in DOMAIN f[m] : FoundBy(f[m][j], rule, start, text)
      BY <2>1, <2>3, <2>9, <3>1 DEF FoundOf
    <3>. HIDE DEF m
    <3>3. PICK i \in DOMAIN flat : flat[i] = f[m][j]  BY <2>7, <3>1
    <3>. QED  BY <3>2, <3>3
  <2>10. FoundAt(flat, rules, text, start)  BY <2>8, <2>9 DEF FoundAt
  <2>. QED  BY <2>5, <2>6, <2>10 DEF flat, f
<1>. HIDE DEF At
<1>9. \A i \in 1 .. Len(text) :
        /\ IsList(all[i]) /\ NoneTwice(all[i]) /\ i - 1 \in Nat
        /\ FoundAt(all[i], rules, text, i - 1)
  <2>1. ASSUME NEW i \in 1 .. Len(text)
        PROVE  /\ IsList(all[i]) /\ NoneTwice(all[i]) /\ i - 1 \in Nat
               /\ FoundAt(all[i], rules, text, i - 1)
    <3>1. i - 1 \in Nat  BY <1>2
    <3>. QED  BY <3>1, <1>2, <1>8
  <2>. QED  BY <2>1
<1>10. all = [i \in 1 .. Len(text) |-> all[i]]  BY <1>2
<1>. HIDE DEF all
<1>11. IsList(all) /\ Len(all) = Len(text)  BY <1>2, <1>10, ListsMapped
<1>12. ASSUME NEW m \in 1 .. Len(all), NEW n \in 1 .. Len(all), m < n
       PROVE  AllDiffer(all[m], all[n])
  <2>1. ASSUME NEW i \in DOMAIN all[m], NEW k \in DOMAIN all[n] PROVE Differ(all[m][i], all[n][k])
    <3>1. PICK rule \in rules : FoundBy(all[m][i], rule, m - 1, text)
      BY <1>9, <1>11, <2>1 DEF FoundAt
    <3>2. PICK other \in rules : FoundBy(all[n][k], other, n - 1, text)
      BY <1>9, <1>11, <2>1 DEF FoundAt
    <3>3. m - 1 # n - 1  BY <1>11, <1>12, <1>2
    <3>. QED  BY <1>4, <3>1, <3>2, <3>3, FoundDiffer
  <2>. QED  BY <2>1 DEF AllDiffer
<1>13. NoneTwice(FlattenSeq(all))  BY <1>9, <1>11, <1>12, FlatOnce
<1>14. ASSUME NEW rule \in rules, NEW start \in Nat, Matches(rule, text, start)
       PROVE  \E i \in DOMAIN FlattenSeq(all) : FoundBy(FlattenSeq(all)[i], rule, start, text)
  <2>. DEFINE m == start + 1
  <2>1. m \in 1 .. Len(all) /\ m - 1 = start  BY <1>2, <1>6, <1>11, <1>14
  <2>. HIDE DEF m
  <2>2. PICK j \in DOMAIN all[m] : FoundBy(all[m][j], rule, start, text)
    BY <1>9, <1>11, <1>14, <2>1 DEF FoundAt
  <2>3. PICK i \in DOMAIN FlattenSeq(all) : FlattenSeq(all)[i] = all[m][j]
    BY <1>9, <1>11, <2>1, FlatHas
  <2>. QED  BY <2>2, <2>3
<1>. QED  BY <1>3, <1>13, <1>14 DEF rules

\* A finding of a rule of one word, at the i-th word of an answer.
IsAt(f, rule, answer, i) ==
  /\ f.text_id = rule.words /\ f.text = <<answer[i]>>
  /\ f.start = utf16_offsets(answer)[i - 1]

\* Whatever one of these rules is for among an answer's first n words is found, once; and
\* nothing behind them is.
Covers(fs, answer, n, rules) ==
  /\ NoneTwice(fs)
  /\ \A k \in DOMAIN fs : fs[k].start \in Nat /\ fs[k].start < utf16_offsets(answer)[n]
  /\ \A rule \in rules, i \in 1 .. n :
       Len(rule.words) = 1 /\ rule.words[1] = answer[i] =>
         \E k \in DOMAIN fs : IsAt(fs[k], rule, answer, i)

LEMMA NothingCovers == ASSUME NEW answer, NEW rules PROVE Covers(<<>>, answer, 0, rules)
BY NothingTwice, EmptyList DEF Covers

LEMMA WittyCovers ==
  ASSUME NEW text, IsList(text), NEW lang, NEW config, IsConfig(config),
         OnceEach(RulesOf(lang, config))
  PROVE  Covers(witty_rules(text, lang, config), text, Len(text), RulesOf(lang, config))
<1>. DEFINE fs == witty_rules(text, lang, config)
            rules == RulesOf(lang, config)
<1>1. Len(text) \in Nat /\ \A rule \in rules : IsRule(rule)
  BY ListLen, RulesKept DEF RulesOf
<1>2. /\ NoneTwice(fs) /\ AreFound(fs, text)
      /\ \A rule \in rules, start \in Nat :
           Matches(rule, text, start) =>
             \E i \in DOMAIN fs : FoundBy(fs[i], rule, start, text)
  BY WittyOnce, WittyFound
<1>. HIDE DEF fs, rules
<1>3. ASSUME NEW k \in DOMAIN fs
      PROVE  fs[k].start \in Nat /\ fs[k].start < utf16_offsets(text)[Len(text)]
  <2>1. PICK rule, start : FoundBy(fs[k], rule, start, text)
    BY <1>2 DEF AreFound, IsFound
  <2>2. /\ IsList(rule.words) /\ rule.words # <<>> /\ start \in Nat
        /\ start + Len(rule.words) <= Len(text) /\ fs[k].start = utf16_offsets(text)[start]
    BY <2>1 DEF FoundBy, IsRule, Matches
  <2>3. Len(rule.words) \in Nat /\ Len(rule.words) # 0  BY <2>2, ListLen, LenZero
  <2>4. start \in 0 .. Len(text) /\ Len(text) \in 0 .. Len(text) /\ start < Len(text)
    BY <1>1, <2>2, <2>3
  <2>. QED  BY <2>2, <2>4, OffsetsAre, OffsetsRise
<1>4. ASSUME NEW rule \in rules, NEW i \in 1 .. Len(text),
             Len(rule.words) = 1, rule.words[1] = text[i]
      PROVE  \E k \in DOMAIN fs : IsAt(fs[k], rule, text, i)
  <2>. DEFINE start == i - 1
  <2>1. start \in Nat /\ start + 1 = i /\ start + 1 <= Len(text) /\ start <= Len(text)
    BY <1>1
  <2>. HIDE DEF start
  <2>2. IsList(rule.words) /\ DOMAIN rule.words = 1 .. 1  BY <1>1, <1>4, ListLen DEF IsRule
  <2>3. Matches(rule, text, start)
    <3>1. \A h \in DOMAIN rule.words : text[start + h] = rule.words[h]
      BY <1>4, <2>1, <2>2
    <3>. QED  BY <1>4, <2>1, <3>1 DEF Matches
  <2>4. PICK k \in DOMAIN fs : FoundBy(fs[k], rule, start, text)  BY <1>2, <2>1, <2>3
  <2>5. /\ fs[k].text_id = rule.words /\ fs[k].text = Slice(text, start, start + 1)
        /\ fs[k].start = utf16_offsets(text)[start]
    BY <1>4, <2>4 DEF FoundBy
  <2>6. Slice(text, start, start + 1) = <<text[i]>>
    <3>. DEFINE one == Slice(text, start, start + 1)
                to == start + 1
    <3>1. to \in Nat /\ start <= to /\ to <= Len(text) /\ to - start = 1  BY <2>1
    <3>2. IsList(Slice(text, start, to)) /\ Len(Slice(text, start, to)) = to - start
          /\ \A h \in 1 .. Len(Slice(text, start, to)) :
               Slice(text, start, to)[h] = text[start + h]
      <4>. HIDE DEF to
      <4>. QED  BY <2>1, <3>1, Sliced
    <3>3. IsList(one) /\ Len(one) = 1 /\ one[1] = text[i]  BY <2>1, <3>1, <3>2
    <3>. HIDE DEF one
    <3>4. IsList(<<text[i]>>) /\ Len(<<text[i]>>) = 1 /\ <<text[i]>>[1] = text[i]  BY OneIn
    <3>5. one = <<text[i]>>  BY <3>3, <3>4, SameList
    <3>. QED  BY <3>5 DEF one
  <2>7. start = i - 1  BY DEF start
  <2>. QED  BY <2>5, <2>6, <2>7 DEF IsAt
<1>5. \A rule \in rules, i \in 1 .. Len(text) :
        Len(rule.words) = 1 /\ rule.words[1] = text[i] =>
          \E k \in DOMAIN fs : IsAt(fs[k], rule, text, i)
  BY <1>4
<1>6. Covers(fs, text, Len(text), rules)  BY <1>2, <1>3, <1>5 DEF Covers
<1>. QED  BY <1>6 DEF fs, rules

\* Where each sentence stands, nothing is taken out for one.
LEMMA AllStand ==
  ASSUME NEW text, IsList(text), NEW sentences, sentences = Sentences(text), NEW f
  PROVE  LooksAt(f, sentences) =>
           SentenceOf(f, sentences) \in {sentences[i].text : i \in DOMAIN sentences}
<1>. DEFINE I == {i \in 1 .. Len(sentences) : f.end <= sentences[i].end}
<1>1. Len(sentences) \in Nat /\ DOMAIN sentences = 1 .. Len(sentences)
  BY SentencesAre, ListLen
<1>2. SentenceOf(f, sentences) =
        LET i == IF I # {} THEN Min(I) ELSE 0
        IN  IF i = 0 THEN Nothing ELSE sentences[i].text
  BY DEF SentenceOf, SelectInSeq
<1>3. CASE I = {}  BY <1>2, <1>3 DEF LooksAt
<1>4. CASE I # {}
  <2>. DEFINE i == Min(I)
  <2>1. I \subseteq Nat  BY <1>1
  <2>2. i \in I
    <3>. HIDE DEF I
    <3>. QED  BY <1>4, <2>1, MinIn
  <2>3. SentenceOf(f, sentences) = sentences[i].text
    <3>1. i # 0  BY <2>2
    <3>. HIDE DEF I
    <3>. QED  BY <1>2, <1>4, <3>1
  <2>. HIDE DEF i
  <2>. QED  BY <1>1, <2>2, <2>3
<1>. QED  BY <1>3, <1>4

LEMMA KeptOnce ==
  ASSUME NEW fs, IsList(fs), NoneTwice(fs), NEW keys
  PROVE  NoneTwice(KeptAt(fs, keys))
<1>. DEFINE order == InOrder(keys, Len(fs))
            kept == KeptAt(fs, keys)
<1>1. Len(fs) \in Nat /\ DOMAIN fs = 1 .. Len(fs)  BY ListLen
<1>2. /\ KeptRightly(order, keys, Len(fs)) /\ DOMAIN kept = 1 .. Len(order)
      /\ \A i \in 1 .. Len(order) : kept[i] = fs[order[i]]
  BY <1>1, KeptAtKeeps
<1>. HIDE DEF order, kept
<1>3. Len(order) \in Nat /\ \A i \in 1 .. Len(order) : order[i] \in 1 .. Len(fs)
  BY <1>2, ListLen DEF KeptRightly
<1>4. \A i, k \in 1 .. Len(order) : i # k => order[i] # order[k]
  <2>. SUFFICES ASSUME NEW i \in 1 .. Len(order), NEW k \in 1 .. Len(order), i # k
                PROVE  order[i] # order[k]
    OBVIOUS
  <2>1. i < k \/ k < i  BY <1>3
  <2>2. order[i] < order[k] \/ order[k] < order[i]  BY <1>2, <2>1 DEF KeptRightly
  <2>. QED  BY <1>3, <2>2
<1>5. NoneTwice(kept)  BY <1>1, <1>2, <1>3, <1>4 DEF NoneTwice
<1>. QED  BY <1>5 DEF kept

\* What is sorted out is nothing where no finding is a false positive, nor in a sentence that
\* does not stand.
LEMMA NothingSortedOut ==
  ASSUME NEW matches, AreFindings(matches), Len(matches) = 0, NEW results, AreFindings(results),
         NEW sentences, NEW genuine, NEW text, NEW lang, NEW config,
         \A i \in 1 .. Len(results) :
           /\ ~(LooksAt(results[i], sentences) /\ SentenceOf(results[i], sentences) \notin genuine)
           /\ results[i].text \notin config.false_positives,
         NEW sorted, sorted = SortedOut(matches, results, sentences, genuine, text, lang, config)
  PROVE  LET left == KeptAt(results, 1 .. Len(results)) IN
         /\ DOMAIN sorted = DOMAIN left
         /\ \A i \in DOMAIN left : \A field \in FindingFields \ {"bulk"} :
              sorted[i][field] = left[i][field]
<1>. DEFINE L == 1 .. Len(results)
            K == {}
            left == KeptAt(results, L)
            none == KeptAt(matches, K)
<1>1. Len(left) \in Nat /\ IsList(left) /\ IsList(none) /\ Len(none) = 0
  <2>1. Len(matches) = 0 /\ Len(matches) \in Nat  OBVIOUS
  <2>2. /\ KeptRightly(InOrder(K, Len(matches)), K, Len(matches)) /\ IsList(none)
        /\ Len(none) = Len(InOrder(K, Len(matches)))
    BY <2>1, KeptAtKeeps
  <2>. DEFINE order == InOrder(K, Len(matches))
  <2>. HIDE DEF order
  <2>3. Len(order) <= 0 /\ Len(order) \in Nat
    BY <2>1, <2>2, ListLen DEF KeptRightly, order
  <2>4. AreFindings(left)  BY KeptFindings
  <2>5. IsList(left) /\ Len(left) \in Nat  BY <2>4, ListLen DEF AreFindings
  <2>. QED  BY <2>2, <2>3, <2>5 DEF order
<1>. HIDE DEF left, none
<1>2. JoinedAs(left, none, left)
  <2>1. \A i \in 1 .. Len(left) : 0 + i = i  BY <1>1
  <2>. QED  BY <1>1, <2>1 DEF JoinedAs
<1>3. \A i \in 1 .. Len(results) : i \in L <=>
        /\ ~(LooksAt(results[i], sentences) /\ SentenceOf(results[i], sentences) \notin genuine)
        /\ results[i].text \notin config.false_positives
  OBVIOUS
<1>4. \A i \in 1 .. Len(matches) : i \in K <=> matches[i].text \notin config.false_positives
  OBVIOUS
<1>5. JoinedAs(left, KeptAt(matches, K), KeptAt(results, L))  BY <1>2 DEF left, none
<1>. HIDE DEF L, K
<1>6. /\ DOMAIN sorted = DOMAIN left
      /\ \A i \in DOMAIN left : \A field \in FindingFields \ {"bulk"} :
           sorted[i][field] = left[i][field]
  BY <1>3, <1>4, <1>5, SortedOutLeaves
<1>. QED  BY <1>6 DEF left, L

LEMMA SortedCovers ==
  ASSUME NEW matches, AreFindings(matches), Len(matches) = 0, NEW results, AreFindings(results),
         NEW sentences, NEW genuine, NEW text, NEW lang, NEW config,
         \A i \in 1 .. Len(results) :
           /\ ~(LooksAt(results[i], sentences) /\ SentenceOf(results[i], sentences) \notin genuine)
           /\ results[i].text \notin config.false_positives,
         NEW sorted, sorted = SortedOut(matches, results, sentences, genuine, text, lang, config),
         NEW n, NEW rules, Covers(results, text, n, rules)
  PROVE  Covers(sorted, text, n, rules)
<1>. DEFINE L == 1 .. Len(results)
            left == KeptAt(results, L)
<1>1. IsList(results) /\ Len(results) \in Nat /\ DOMAIN results = L
  BY ListLen DEF AreFindings
<1>2. /\ IsList(left)
      /\ \A i \in DOMAIN left : \E k \in DOMAIN results : left[i] = results[k]
      /\ \A k \in DOMAIN results : \E i \in DOMAIN left : left[i] = results[k]
  BY <1>1, KeptAtFrom
<1>3. NoneTwice(left)  BY <1>1, KeptOnce DEF Covers
<1>4. /\ DOMAIN sorted = DOMAIN left
       /\ \A i \in DOMAIN left : \A field \in FindingFields \ {"bulk"} :
            sorted[i][field] = left[i][field]
  BY NothingSortedOut
<1>. HIDE DEF left, L
<1>5. \A i \in DOMAIN left :
         /\ sorted[i].text = left[i].text /\ sorted[i].text_id = left[i].text_id
         /\ sorted[i].start = left[i].start
  <2>1. {"text", "text_id", "start"} \subseteq FindingFields \ {"bulk"}  BY DEF FindingFields
  <2>. QED  BY <1>4, <2>1
<1>6. NoneTwice(sorted)  BY <1>3, <1>4, <1>5 DEF NoneTwice, Differ
<1>7. ASSUME NEW k \in DOMAIN sorted
       PROVE  sorted[k].start \in Nat /\ sorted[k].start < utf16_offsets(text)[n]
  <2>1. PICK h \in DOMAIN results : left[k] = results[h]  BY <1>2, <1>4, <1>7
  <2>2. sorted[k].start = results[h].start  BY <1>4, <1>5, <1>7, <2>1
  <2>. QED  BY <2>2 DEF Covers
<1>8. ASSUME NEW rule \in rules, NEW i \in 1 .. n,
              Len(rule.words) = 1, rule.words[1] = text[i]
       PROVE  \E k \in DOMAIN sorted : IsAt(sorted[k], rule, text, i)
  <2>1. PICK h \in DOMAIN results : IsAt(results[h], rule, text, i)  BY <1>8 DEF Covers
  <2>2. PICK k \in DOMAIN left : left[k] = results[h]  BY <1>2, <2>1
  <2>3. k \in DOMAIN sorted /\ IsAt(sorted[k], rule, text, i)
    BY <1>4, <1>5, <2>1, <2>2 DEF IsAt
  <2>. QED  BY <2>3
<1>9. \A rule \in rules, i \in 1 .. n :
         Len(rule.words) = 1 /\ rule.words[1] = text[i] =>
           \E k \in DOMAIN sorted : IsAt(sorted[k], rule, text, i)
  BY <1>8
<1>. QED  BY <1>6, <1>7, <1>9 DEF Covers

\* The findings of a part, where they are wanted, behind those of what comes before it.
LEMMA MoreCovered ==
  ASSUME NEW part, NEW answer, NEW n, StandsAt(part, answer, n), NEW rules,
         NEW fs, AreFindings(fs), Covers(fs, answer, n, rules),
         NEW found, AreFindings(found), Covers(found, part, Len(part), rules)
  PROVE  Covers(fs \o Shifted(found, Shift(answer, n)), answer, n + Len(part), rules)
<1>. DEFINE shift == Shift(answer, n)
            more == Shifted(found, shift)
            all == fs \o more
            m == n + Len(part)
<1>1. /\ IsList(part) /\ IsList(answer) /\ n \in Nat /\ Len(part) \in Nat /\ Len(answer) \in Nat
      /\ n \in 0 .. Len(answer) /\ m \in 0 .. Len(answer) /\ n <= m
      /\ Len(part) \in 0 .. Len(part)
  BY ListLen DEF StandsAt
<1>2. /\ shift = utf16_offsets(answer)[n]
      /\ \A i \in 0 .. Len(part) :
           utf16_offsets(answer)[n + i] = shift + utf16_offsets(part)[i]
  BY ShiftAhead
<1>3. shift \in Nat  BY <1>1, ShiftIs
<1>. HIDE DEF shift
<1>4. /\ IsList(fs) /\ DOMAIN fs = 1 .. Len(fs) /\ Len(fs) \in Nat
      /\ IsList(found) /\ DOMAIN found = 1 .. Len(found) /\ Len(found) \in Nat
  BY ListLen DEF AreFindings
<1>5. IsList(more) /\ Len(more) = Len(found) /\ DOMAIN more = DOMAIN found
  BY <1>3, ShiftedFindings DEF AreFindings, Shifted
<1>6. ASSUME NEW k \in DOMAIN found
      PROVE  /\ more[k].text = found[k].text /\ more[k].text_id = found[k].text_id
             /\ more[k].start = found[k].start + shift
  <2>1. more[k] = [found[k] EXCEPT !.start = @ + shift, !.end = @ + shift]  BY DEF Shifted
  <2>2. DOMAIN found[k] = FindingFields  BY DEF AreFindings, IsFinding
  <2>. HIDE DEF more
  <2>. QED  BY <2>1, <2>2 DEF FindingFields
<1>. HIDE DEF more
<1>7. /\ DOMAIN all = 1 .. Len(fs) + Len(more) /\ \A k \in 1 .. Len(fs) : all[k] = fs[k]
      /\ \A k \in 1 .. Len(more) : all[Len(fs) + k] = more[k]
  <2>1. IsList(fs) /\ IsList(more)  BY <1>4, <1>5
  <2>. HIDE DEF m
  <2>. QED  BY <2>1, Joined
<1>8. ASSUME NEW k \in DOMAIN found
      PROVE  found[k].start \in Nat /\ found[k].start < utf16_offsets(part)[Len(part)]
  BY DEF Covers
<1>9. ASSUME NEW k \in DOMAIN fs
      PROVE  fs[k].start \in Nat /\ fs[k].start < shift
  BY <1>2 DEF Covers
<1>10. NoneTwice(more)
  <2>1. ASSUME NEW i \in DOMAIN more, NEW k \in DOMAIN more, i # k PROVE Differ(more[i], more[k])
    <3>1. Differ(found[i], found[k])  BY <1>5, <2>1 DEF Covers, NoneTwice
    <3>2. found[i].start \in Nat /\ found[k].start \in Nat  BY <1>5, <1>8
    <3>3. /\ more[i].text_id = found[i].text_id /\ more[k].text_id = found[k].text_id
          /\ more[i].start = found[i].start + shift /\ more[k].start = found[k].start + shift
      BY <1>5, <1>6
    <3>. QED  BY <1>3, <3>1, <3>2, <3>3 DEF Differ
  <2>. QED  BY <2>1 DEF NoneTwice
<1>11. AllDiffer(fs, more)
  <2>1. ASSUME NEW i \in DOMAIN fs, NEW k \in DOMAIN more PROVE Differ(fs[i], more[k])
    <3>1. more[k].start = found[k].start + shift /\ found[k].start \in Nat  BY <1>5, <1>6, <1>8
    <3>2. fs[i].start \in Nat /\ fs[i].start < shift  BY <1>9
    <3>3. fs[i].start # more[k].start  BY <1>3, <3>1, <3>2
    <3>. QED  BY <3>3 DEF Differ
  <2>. QED  BY <2>1 DEF AllDiffer
<1>12. NoneTwice(all)
  <2>1. NoneTwice(fs)  BY DEF Covers
  <2>. QED  BY <1>4, <1>5, <1>10, <1>11, <2>1, JoinedOnce
<1>. HIDE DEF all
<1>13. /\ utf16_offsets(answer)[m] = shift + utf16_offsets(part)[Len(part)]
       /\ utf16_offsets(answer)[m] \in Nat /\ utf16_offsets(part)[Len(part)] \in Nat
       /\ shift <= utf16_offsets(answer)[m]
  <2>1. utf16_offsets(answer)[m] = shift + utf16_offsets(part)[Len(part)]  BY <1>1, <1>2
  <2>2. utf16_offsets(part)[Len(part)] \in Nat  BY <1>1, OffsetsAre
  <2>. QED  BY <1>3, <2>1, <2>2
<1>14. ASSUME NEW k \in DOMAIN all
       PROVE  all[k].start \in Nat /\ all[k].start < utf16_offsets(answer)[m]
  <2>1. CASE k \in 1 .. Len(fs)
    <3>1. all[k] = fs[k] /\ k \in DOMAIN fs  BY <1>4, <1>7, <2>1
    <3>. QED  BY <1>3, <1>9, <1>13, <3>1
  <2>2. CASE k \notin 1 .. Len(fs)
    <3>. DEFINE h == k - Len(fs)
    <3>1. h \in 1 .. Len(more) /\ Len(fs) + h = k  BY <1>4, <1>5, <1>7, <2>2
    <3>. HIDE DEF h
    <3>2. all[k] = more[h] /\ h \in DOMAIN found  BY <1>4, <1>5, <1>7, <3>1
    <3>3. all[k].start = found[h].start + shift  BY <1>6, <3>2
    <3>4. found[h].start \in Nat /\ found[h].start < utf16_offsets(part)[Len(part)]
      BY <1>8, <3>2
    <3>. QED  BY <1>3, <1>13, <3>3, <3>4
  <2>. QED  BY <2>1, <2>2
<1>15. ASSUME NEW rule \in rules, NEW i \in 1 .. m,
              Len(rule.words) = 1, rule.words[1] = answer[i]
       PROVE  \E k \in DOMAIN all : IsAt(all[k], rule, answer, i)
  <2>1. CASE i \in 1 .. n
    <3>1. PICK k \in DOMAIN fs : IsAt(fs[k], rule, answer, i)  BY <1>15, <2>1 DEF Covers
    <3>2. k \in DOMAIN all /\ all[k] = fs[k]  BY <1>4, <1>5, <1>7
    <3>. QED  BY <3>1, <3>2
  <2>2. CASE i \notin 1 .. n
    <3>. DEFINE h == i - n
    <3>1. /\ h \in 1 .. Len(part) /\ n + h = i /\ h - 1 \in 0 .. Len(part)
          /\ n + (h - 1) = i - 1
      BY <1>1, <2>2
    <3>. HIDE DEF h
    <3>2. part[h] = answer[i]  BY <3>1 DEF StandsAt
    <3>3. PICK k \in DOMAIN found : IsAt(found[k], rule, part, h)
      BY <1>15, <3>1, <3>2 DEF Covers
    <3>. DEFINE g == Len(fs) + k
    <3>4. g \in DOMAIN all /\ all[g] = more[k]  BY <1>4, <1>5, <1>7
    <3>. HIDE DEF g
    <3>5. utf16_offsets(answer)[i - 1] = shift + utf16_offsets(part)[h - 1]  BY <1>2, <3>1
    <3>6. /\ all[g].text_id = rule.words /\ all[g].text = <<answer[i]>>
          /\ all[g].start = found[k].start + shift
          /\ found[k].start = utf16_offsets(part)[h - 1]
      BY <1>6, <3>2, <3>3, <3>4 DEF IsAt
    <3>7. found[k].start \in Nat  BY <1>8
    <3>8. all[g].start = utf16_offsets(answer)[i - 1]  BY <1>3, <3>5, <3>6, <3>7
    <3>9. IsAt(all[g], rule, answer, i)  BY <3>6, <3>8 DEF IsAt
    <3>. QED  BY <3>4, <3>9
  <2>. QED  BY <2>1, <2>2
<1>16. Covers(all, answer, m, rules)
  <2>1. \A rule \in rules, i \in 1 .. m :
          Len(rule.words) = 1 /\ rule.words[1] = answer[i] =>
            \E k \in DOMAIN all : IsAt(all[k], rule, answer, i)
    BY <1>15
  <2>. HIDE DEF m
  <2>. QED  BY <1>12, <1>14, <2>1 DEF Covers
<1>. QED  BY <1>16 DEF all, more, shift

-----------------------------------------------------------------------------
\* The review of an answer covers it.

\* An answer in a language that is given, of a user who has no false positives, with no context
\* checker to ask.
IsPlainReview(q) ==
  /\ q.route = "guardrail" /\ q.lang \in Locales /\ q.checker = "none"
  /\ q.config.false_positives = {}

RulesFor(q) == RulesOf(LangOf[q.lang], q.config)

\* What has been read of it is covered, and in the part that is being read is what the rules of
\* its language find there.
IsCovering(j) ==
  j.stage \in {"read", "sort", "verdict"} /\ IsPlainReview(j.request) =>
    /\ j.start \in 0 .. Len(Looked(j.answer))
    /\ Covers(j.findings, j.answer, j.start, RulesFor(j.request))
    /\ j.start > 0 \/ j.stage = "sort" => j.locale = j.request.lang
    /\ j.stage = "sort" => /\ j.lt_results = <<>>
                           /\ Covers(j.found, j.part, Len(j.part), RulesFor(j.request))
    /\ j.stage = "verdict" => j.start = Len(Looked(j.answer))

\* The locale of such an answer's part is what is given.
LEMMA LocaleGiven ==
  ASSUME NEW q, IsPlainReview(q), NEW part
  PROVE  LocaleFor(q, part) = q.lang /\ q.lang # NoLocale
BY DEF IsPlainReview, LocaleFor, get_locale, Locales, NoLocale

LEMMA OpenedRoute ==
  ASSUME NEW r, IsRequest(r), r.route # "guardrail"
  PROVE  Opened(r).request.route # "guardrail"
<1>1. ASSUME NEW response PROVE Done(Started(r), response).request = r
  BY StartedIs DEF Done, IsFresh, JobFields
<1>2. CASE r.route = "check"
  <2>1. [Started(r) EXCEPT !.stage = "read", !.answer = r.text].request = r
    BY StartedIs DEF IsFresh, JobFields
  <2>. QED  BY <1>1, <1>2, <2>1 DEF Opened, OpenedCheck
<1>3. CASE r.route = "lt"
  <2>. DEFINE data == r.text = <<>> /\ r.annotations # <<>>
              text == IF data THEN TextOf(r.annotations) ELSE r.text
              spans == IF data THEN markup_spans(r.annotations) ELSE {}
              lang == resolve_lang(r.code)
              q == [r EXCEPT !.lang = lang]
              j == [Started(r) EXCEPT !.stage = "read", !.request.lang = lang,
                                      !.answer = text, !.spans = spans]
  <2>. HIDE DEF text, spans, lang
  <2>1. j.request = q  BY StartedIs DEF IsFresh, JobFields
  <2>. HIDE DEF j
  <2>2. \/ OpenedLt(r) = Done(Started(r), Refusal)
        \/ OpenedLt(r) = Done(Started(r), Matched(<<>>, <<>>))
        \/ OpenedLt(r) = j
    BY DEF OpenedLt, text, spans, lang, j
  <2>3. Opened(r) = OpenedLt(r)  BY <1>3 DEF Opened
  <2>4. q.route = r.route  BY DEF IsRequest
  <2>. HIDE DEF q
  <2>5. Opened(r).request = r \/ Opened(r).request = q
    <3>1. CASE OpenedLt(r) = j  BY <2>1, <2>3, <3>1
    <3>2. CASE OpenedLt(r) # j  BY <1>1, <2>2, <2>3, <3>2
    <3>. QED  BY <3>1, <3>2
  <2>. QED  BY <2>4, <2>5
<1>4. CASE r.route = "input"
  <2>1. Opened(r).request = r  BY <1>1, <1>4 DEF Opened, OpenedInput
  <2>. QED  BY <2>1
<1>5. CASE r.route = "litellm"
  <2>. DEFINE chat == Chat(with_guidance(r.messages, guidance(r.config, r.lang)))
              q == Reviewed(r)
              first == FirstReviewed(r.texts[1])
              whole == first = r.texts[1]
              j == Reviewing(Started(q), 1, first, whole)
  <2>1. Opened(r) = OpenedLitellm(r)  BY <1>5 DEF Opened
  <2>2. \/ Opened(r) = Done(Started(r), Refusal) \/ Opened(r) = Done(Started(r), chat)
        \/ Opened(r) = j
    BY <2>1 DEF OpenedLitellm
  <2>3. q.route = "litellm"  BY <1>5, RequestWith
  <2>. HIDE DEF chat, q, first, whole
  <2>4. DOMAIN Started(q) = JobFields /\ Started(q).request = q  BY StartedIs DEF IsFresh
  <2>5. ReviewGoesOn(Started(q), j, 1, first, whole)  BY <2>4, ReviewingGives
  <2>. HIDE DEF j
  <2>6. j.request = q  BY <2>4, <2>5 DEF ReviewGoesOn, Stays, JobFields
  <2>7. Opened(r).request = r \/ Opened(r).request = q  BY <1>1, <2>2, <2>6
  <2>. QED  BY <1>5, <2>3, <2>7
<1>6. CASE r.route = "form"
  <2>. DEFINE d == Done(Started(r), Nothing)
  <2>1. Opened(r) = [d EXCEPT !.form = r.form.written, !.format = r.form.format]
    BY <1>6 DEF Opened
  <2>2. DOMAIN d = JobFields /\ d.request = r  BY <1>1, StartedIs DEF Done, IsFresh
  <2>. HIDE DEF d
  <2>3. Opened(r).request = r  BY <2>1, <2>2 DEF JobFields
  <2>. QED  BY <1>6, <2>3
<1>. QED  BY <1>2, <1>3, <1>4, <1>5, <1>6 DEF IsRequest, Routes

LEMMA OpenedCovering ==
  ASSUME NEW r, IsRequest(r), Stays(Opened(r), job', {"resends"})
  PROVE  IsCovering(job')
<1>. DEFINE o == Opened(r)
<1>1. /\ job'.stage = o.stage /\ job'.request = o.request /\ job'.answer = o.answer
      /\ job'.start = o.start /\ job'.findings = o.findings
  BY DEF Stays, JobFields
<1>2. CASE r.route # "guardrail"
  <2>1. o.request.route # "guardrail"  BY <1>2, OpenedRoute
  <2>. QED  BY <1>1, <2>1 DEF IsCovering, IsPlainReview
<1>3. CASE r.route = "guardrail"
  <2>. DEFINE q == Reviewed(r)
              j == [Started(q) EXCEPT !.stage = "read", !.answer = r.text]
  <2>1. o = Done(Started(r), Refusal) \/ o = j
    BY <1>3 DEF Opened, OpenedGuardrail
  <2>2. CASE o = Done(Started(r), Refusal)
    <3>1. o.stage = "done"  BY <2>2, StartedIs DEF Done, IsFresh, JobFields
    <3>. QED  BY <1>1, <3>1 DEF IsCovering
  <2>3. CASE o = j
    <3>. HIDE DEF q
    <3>1. j.stage = "read" /\ j.start = 0 /\ j.answer = r.text /\ j.findings = <<>>
      BY StartedIs DEF IsFresh, JobFields
    <3>2. Len(Looked(r.text)) \in Nat
      <4>1. IsList(r.text)  BY DEF IsRequest
      <4>. QED  BY <4>1, LookedIs, ListLen
    <3>3. /\ job'.stage = "read" /\ job'.start = 0 /\ job'.answer = r.text
          /\ job'.findings = <<>>
      BY <1>1, <2>3, <3>1
    <3>4. Covers(job'.findings, job'.answer, job'.start, RulesFor(job'.request))
      BY <3>3, NothingCovers
    <3>. QED  BY <3>2, <3>3, <3>4 DEF IsCovering
  <2>. QED  BY <2>1, <2>2, <2>3
<1>. QED  BY <1>2, <1>3

LEMMA ReadAnswerCovering ==
  ASSUME WordsAreOnce, IsGood(job), IsNoting(job), IsCovering(job), ReadAnswer
  PROVE  IsCovering(job')
<1>. DEFINE part == Part(Looked(job.answer), job.start)
            start == Behind(job.start, part)
            over == [job EXCEPT !.start = start]
            q == job.request
<1>1. job.stage = "read" /\ DOMAIN job = JobFields /\ IsList(job.answer)
  BY DEF ReadAnswer, IsGood, IsJob
<1>2. job' = IF job.start >= Len(Looked(job.answer)) THEN [job EXCEPT !.stage = "verdict"]
             ELSE Read(part, over)
  BY DEF ReadAnswer, Checked, Looked
<1>3. /\ IsList(Looked(job.answer)) /\ Len(Looked(job.answer)) \in Nat
  BY <1>1, LookedIs, ListLen
<1>4. ASSUME job.start >= Len(Looked(job.answer)) PROVE IsCovering(job')
  <2>1. job' = [job EXCEPT !.stage = "verdict"]  BY <1>2, <1>4
  <2>2. /\ job'.stage = "verdict" /\ job'.request = q /\ job'.answer = job.answer
        /\ job'.start = job.start /\ job'.findings = job.findings /\ job'.locale = job.locale
    BY <1>1, <2>1 DEF JobFields
  <2>3. SUFFICES ASSUME IsPlainReview(q) PROVE IsCovering(job')  BY <2>2 DEF IsCovering
  <2>4. /\ job.start \in 0 .. Len(Looked(job.answer))
        /\ Covers(job.findings, job.answer, job.start, RulesFor(q))
        /\ job.start > 0 => job.locale = q.lang
    BY <1>1, <2>3 DEF IsCovering
  <2>5. job.start = Len(Looked(job.answer))  BY <1>3, <1>4, <2>4
  <2>. QED  BY <2>2, <2>4, <2>5 DEF IsCovering
<1>5. ASSUME ~(job.start >= Len(Looked(job.answer))) PROVE IsCovering(job')
  <2>1. job' = Read(part, over)  BY <1>2, <1>5
  <2>2. over.request = q  BY <1>1 DEF JobFields
  <2>. HIDE DEF part, over
  <2>3. \/ LocaleFor(q, part) = NoLocale /\ job' = over
        \/ ReadFailed(job, job', part)
        \/ LocaleFor(q, part) # NoLocale /\ ReadOn(job, job', part)
    BY <1>1, <2>1, ReadTells
  <2>4. job'.request = q
    BY <2>2, <2>3 DEF ReadFailed, ReadOn, Stays, JobFields
  <2>5. SUFFICES ASSUME IsPlainReview(q), job'.stage # "failed" PROVE IsCovering(job')
    BY <2>4 DEF IsCovering
  <2>6. LocaleFor(q, part) = q.lang /\ q.lang # NoLocale  BY <2>5, LocaleGiven
  <2>7. ReadOn(job, job', part)  BY <2>3, <2>5, <2>6 DEF ReadFailed
  <2>8. /\ job'.answer = job.answer /\ job'.start = job.start
        /\ job'.findings = job.findings
        /\ job'.stage = "sort" /\ job'.locale = q.lang /\ job'.part = part
        /\ job'.lt_results = <<>> /\ job'.found = witty_rules(part, LangOf[q.lang], q.config)
    <3>1. IsGuardrail(q)  BY <2>5 DEF IsPlainReview, IsGuardrail
    <3>. QED  BY <2>6, <2>7, <3>1 DEF ReadOn, Stays, JobFields
  <2>9. /\ job.start \in 0 .. Len(Looked(job.answer))
        /\ Covers(job.findings, job.answer, job.start, RulesFor(q))
    BY <1>1, <2>5 DEF IsCovering
  <2>10. Covers(job'.found, part, Len(part), RulesFor(q))
    <3>1. IsList(part)  BY <1>3, <2>9, PartIs DEF part
    <3>2. IsConfig(q.config)  BY <1>1 DEF IsGood, IsAmongTexts, IsRequest
    <3>3. Comes(q)  BY <1>1 DEF IsNoting
    <3>4. OnceEach(RulesOf(LangOf[q.lang], q.config))  BY <3>3, RulesOnce
    <3>. QED  BY <2>8, <3>1, <3>2, <3>4, WittyCovers DEF RulesFor
  <2>. QED  BY <2>4, <2>8, <2>9, <2>10 DEF IsCovering
<1>. QED  BY <1>4, <1>5

LEMMA SortCovering ==
  ASSUME IsGood(job), IsCovering(job), Sort
  PROVE  IsCovering(job')
<1>. DEFINE q == job.request
            n == Len(Looked(job.answer))
<1>1. job.stage = "sort"  BY DEF Sort
<1>2. job'.request = q
  BY SortGives DEF SortsTo, Stays, JobFields
<1>. SUFFICES ASSUME IsPlainReview(q) PROVE IsCovering(job')
  BY <1>2 DEF IsCovering
<1>. DEFINE sentences == Sentences(job.part)
            genuine == {sentences[i].text : i \in DOMAIN sentences}
            results == SortedOut(job.lt_results, job.found, sentences, genuine, job.part,
                                 LangOf[job.locale], q.config)
            shift == Shift(job.answer, job.start)
<1>3. /\ Stays(job, job', {"stage", "found", "genuine", "start", "findings"})
      /\ job'.stage = "read" /\ job'.start = job.start + Len(job.part)
      /\ job'.findings = job.findings \o Shifted(results, shift)
  BY SortTells DEF SortsTo, IsPlainReview
<1>4. job'.answer = job.answer /\ job'.locale = job.locale
  BY <1>3 DEF Stays, JobFields
<1>5. /\ job.start \in 0 .. n /\ Covers(job.findings, job.answer, job.start, RulesFor(q))
      /\ job.locale = q.lang /\ job.lt_results = <<>>
      /\ Covers(job.found, job.part, Len(job.part), RulesFor(q))
  BY <1>1 DEF IsCovering
<1>6. /\ AreFindings(job.found) /\ AreFindings(job.lt_results) /\ AreFindings(job.findings)
      /\ IsList(job.answer) /\ IsList(job.part)
  BY DEF IsGood, IsJob
<1>7. StandsAt(job.part, job.answer, job.start)  BY <1>1, PartStands
<1>8. job.start + Len(job.part) \in 0 .. n
  <2>1. IsGuardrail(q)  BY DEF IsPlainReview, IsGuardrail
  <2>2. job.start < n /\ job.part = Part(Looked(job.answer), job.start)
    BY <1>1, <2>1 DEF IsGood, IsInText
  <2>3. IsList(Looked(job.answer)) /\ n \in Nat  BY <1>6, LookedIs, ListLen
  <2>4. Len(job.part) \in 0 .. n - job.start  BY <1>5, <2>2, <2>3, PartIs
  <2>. QED  BY <1>5, <2>3, <2>4
<1>9. /\ Len(job.lt_results) = 0 /\ Len(job.found) \in Nat
      /\ \A i \in 1 .. Len(job.found) :
           /\ ~(LooksAt(job.found[i], sentences) /\ SentenceOf(job.found[i], sentences) \notin genuine)
           /\ job.found[i].text \notin q.config.false_positives
  <2>1. Len(job.lt_results) = 0  BY <1>5, EmptyList
  <2>2. q.config.false_positives = {}  BY DEF IsPlainReview
  <2>3. Len(job.found) \in Nat  BY <1>6, ListLen DEF AreFindings
  <2>4. \A f : LooksAt(f, sentences) => SentenceOf(f, sentences) \in genuine
    BY <1>6, AllStand
  <2>. HIDE DEF genuine, sentences
  <2>. QED  BY <2>1, <2>2, <2>3, <2>4
<1>10. Covers(results, job.part, Len(job.part), RulesFor(q)) /\ AreFindings(results)
  <2>. DEFINE config == q.config
              lang == LangOf[job.locale]
              matches == job.lt_results
              found == job.found
  <2>1. results = SortedOut(matches, found, sentences, genuine, job.part, lang, config)
    OBVIOUS
  <2>2. \A i \in 1 .. Len(found) :
          /\ ~(LooksAt(found[i], sentences) /\ SentenceOf(found[i], sentences) \notin genuine)
          /\ found[i].text \notin config.false_positives
    BY <1>9
  <2>3. AreFindings(matches) /\ Len(matches) = 0 /\ AreFindings(found)  BY <1>6, <1>9
  <2>4. Covers(found, job.part, Len(job.part), RulesFor(q))  BY <1>5
  <2>. HIDE DEF genuine, sentences, results, config, lang, matches, found
  <2>5. AreFindings(results)  BY <2>1, <2>3, SortedOutFindings
  <2>6. Covers(results, job.part, Len(job.part), RulesFor(q))
    BY <2>1, <2>2, <2>3, <2>4, SortedCovers
  <2>. QED  BY <2>5, <2>6
<1>. HIDE DEF results, genuine, sentences
<1>11. Covers(job'.findings, job'.answer, job'.start, RulesFor(q))
  <2>1. Covers(job.findings \o Shifted(results, shift), job.answer,
               job.start + Len(job.part), RulesFor(q))
    BY <1>5, <1>6, <1>7, <1>10, MoreCovered
  <2>. QED  BY <1>3, <1>4, <2>1
<1>. QED  BY <1>2, <1>3, <1>4, <1>5, <1>8, <1>11 DEF IsCovering

\* A job of another route goes on with it.
LEMMA ElseCovering ==
  ASSUME NEW k, k.request.route # "guardrail" \/ k.stage \notin {"read", "sort", "verdict"}
  PROVE  IsCovering(k)
BY DEF IsCovering, IsPlainReview

LEMMA OthersCovering ==
  ASSUME IsGood(job), ReadText \/ AskLanguageTool \/ Verdict \/ JudgeText
  PROVE  IsCovering(job')
<1>1. job'.request = job.request  BY ServesTexts DEF Serve
<1>2. CASE Verdict
  <2>1. job'.stage = "done"  BY <1>2, DoneIs DEF Verdict, IsGood, IsJob
  <2>. QED  BY <2>1, ElseCovering
<1>3. CASE ReadText \/ AskLanguageTool \/ JudgeText
  <2>1. job.request.route # "guardrail"
    BY <1>3 DEF ReadText, AskLanguageTool, JudgeText, IsGuardrail, IsGood, IsInText
  <2>. QED  BY <1>1, <2>1, ElseCovering
<1>. QED  BY <1>2, <1>3

JobIsCovering == IsCovering(job)

LEMMA JobStaysCovering ==
  ASSUME WordsAreOnce
  PROVE  JobIsGood /\ JobIsNoting /\ JobIsCovering /\ [Next]_job => JobIsCovering'
<1>. SUFFICES ASSUME IsGood(job), IsNoting(job), IsCovering(job), [Next]_job
              PROVE  IsCovering(job')
  BY DEF JobIsGood, JobIsNoting, JobIsCovering
<1>1. CASE Receive
  <2>1. PICK r \in Requests : job' = Opened(r)  BY <1>1 DEF Receive
  <2>2. IsRequest(r)  BY TextChecksAssumption
  <2>3. DOMAIN job' = JobFields  BY <2>1, <2>2, OpenedIsGood DEF IsGood, IsJob
  <2>4. Stays(Opened(r), job', {"resends"})  BY <2>1, <2>3 DEF Stays
  <2>. QED  BY <2>2, <2>4, OpenedCovering
<1>2. CASE SendAgain \/ NextTurn
  <2>1. PICK r, resends : IsRequest(r) /\ job' = [Opened(r) EXCEPT !.resends = resends]
    BY <1>2, OpensAgain
  <2>2. DOMAIN Opened(r) = JobFields  BY <2>1, OpenedIsGood DEF IsGood, IsJob
  <2>3. Stays(Opened(r), job', {"resends"})  BY <2>1, <2>2 DEF Stays, JobFields
  <2>. QED  BY <2>1, <2>3, OpenedCovering
<1>3. CASE SwitchFormat \/ SwitchIntoInklusivum
  <2>1. job.stage = "done" /\ Stays(job, job', {"form", "format"})
    BY <1>3, SwitchGives DEF IsGood, IsJob
  <2>2. job'.stage = "done"  BY <2>1 DEF Stays, JobFields
  <2>. QED  BY <2>2, ElseCovering
<1>4. CASE Leave
  <2>1. job'.stage = "idle"  BY <1>4 DEF Leave, Idle
  <2>. QED  BY <2>1, ElseCovering
<1>5. CASE UNCHANGED job  BY <1>5
<1>. QED
  BY <1>1, <1>2, <1>3, <1>4, <1>5, ReadAnswerCovering, SortCovering, OthersCovering
     DEF Next, Serve

\* Where each word is covered, one finding is there for it; and none is behind what is checked.
LEMMA CoveredOnce ==
  ASSUME NEW fs, NEW answer, IsList(answer), NEW rules,
         Covers(fs, answer, Len(Looked(answer)), rules),
         NEW rule \in rules, Len(rule.words) = 1, NEW i \in DOMAIN answer,
         rule.words[1] = answer[i]
  PROVE  Cardinality({k \in DOMAIN fs : IsAt(fs[k], rule, answer, i)}) =
           IF i <= GUARDRAIL_MAX_LENGTH THEN 1 ELSE 0
<1>. DEFINE at == {k \in DOMAIN fs : IsAt(fs[k], rule, answer, i)}
            n == Len(Looked(answer))
<1>1. /\ Len(answer) \in Nat /\ i \in 1 .. Len(answer) /\ GUARDRAIL_MAX_LENGTH \in Nat
  BY ListLen, GuardrailAssumption
<1>2. n = IF Len(answer) <= GUARDRAIL_MAX_LENGTH THEN Len(answer) ELSE GUARDRAIL_MAX_LENGTH
  <2>. DEFINE max == GUARDRAIL_MAX_LENGTH
  <2>1. /\ Looked(answer) = Slice(answer, 0, max) /\ max \in Nat /\ 0 \in Nat /\ 0 <= max
        /\ 0 <= Len(answer)
    BY <1>1 DEF Looked
  <2>. HIDE DEF max
  <2>2. CASE max <= Len(answer)
    <3>1. Len(Slice(answer, 0, max)) = max - 0  BY <2>1, <2>2, Sliced
    <3>. QED  BY <1>1, <2>1, <2>2, <3>1 DEF max
  <2>3. CASE ~(max <= Len(answer))
    <3>1. Len(answer) <= max  BY <1>1, <2>1, <2>3
    <3>2. Len(Slice(answer, 0, max)) = Len(answer) - 0  BY <2>1, <3>1, Sliced
    <3>. QED  BY <1>1, <2>1, <3>1, <3>2 DEF max
  <2>. QED  BY <2>2, <2>3
<1>. HIDE DEF n
<1>3. CASE i <= GUARDRAIL_MAX_LENGTH
  <2>1. i \in 1 .. n  BY <1>1, <1>2, <1>3
  <2>2. PICK k \in DOMAIN fs : IsAt(fs[k], rule, answer, i)  BY <2>1 DEF Covers, n
  <2>3. ASSUME NEW h \in at PROVE h = k
    <3>1. fs[h].text_id = fs[k].text_id /\ fs[h].start = fs[k].start  BY <2>2 DEF IsAt
    <3>. QED  BY <2>2, <3>1 DEF Covers, NoneTwice, Differ
  <2>4. at = {k}  BY <2>2, <2>3
  <2>. HIDE DEF at
  <2>5. Cardinality(at) = 1  BY <2>4, FS_Singleton
  <2>. QED  BY <1>3, <2>5 DEF at
<1>4. CASE ~(i <= GUARDRAIL_MAX_LENGTH)
  <2>1. n \in 0 .. Len(answer) /\ i - 1 \in 0 .. Len(answer) /\ n <= i - 1
    BY <1>1, <1>2, <1>4
  <2>2. utf16_offsets(answer)[n] <= utf16_offsets(answer)[i - 1]  BY <2>1, OffsetsGrow
  <2>3. utf16_offsets(answer)[n] \in Nat /\ utf16_offsets(answer)[i - 1] \in Nat
    BY <2>1, OffsetsAre
  <2>4. ASSUME NEW k \in DOMAIN fs PROVE ~IsAt(fs[k], rule, answer, i)
    <3>1. fs[k].start \in Nat /\ fs[k].start < utf16_offsets(answer)[n]  BY DEF Covers, n
    <3>2. fs[k].start # utf16_offsets(answer)[i - 1]  BY <2>2, <2>3, <3>1
    <3>. QED  BY <3>2 DEF IsAt
  <2>5. at = {}  BY <2>4
  <2>. HIDE DEF at
  <2>6. Cardinality(at) = 0  BY <2>5, FS_EmptySet
  <2>. QED  BY <1>4, <2>6 DEF at
<1>. QED  BY <1>3, <1>4

LEMMA VerdictCovers ==
  ASSUME IsGood(job), IsCovering(job), Verdict
  PROVE  AnswerCoveredWhole'
<1>. DEFINE said == [kind |-> "verdict", failed_on |-> Failed, findings |-> job.findings,
                     limit_reached |-> Len(job.answer) > GUARDRAIL_MAX_LENGTH,
                     reask |-> IF Failed = {} THEN Nothing ELSE ReviewPrompt(job.findings)]
            q == job.request
            answer == job.answer
<1>1. /\ job' = Done(job, said) /\ job.stage = "verdict" /\ q.route = "guardrail"
  BY DEF Verdict
<1>. HIDE DEF said
<1>2. Stays(job, job', {"stage", "response"})
  BY <1>1, DoneIs DEF IsGood, IsJob
<1>3. /\ job'.request = q /\ job'.answer = answer /\ job'.findings = job.findings
      /\ job'.locale = job.locale
  BY <1>2 DEF Stays, JobFields
<1>4. IsList(answer)  BY DEF IsGood, IsJob
<1>5. ASSUME q.lang \in Locales, q.checker = "none", q.config.false_positives = {},
             NEW i \in DOMAIN answer, NEW rule \in Rules, rule.lang = LangOf[job.locale],
             Len(rule.words) = 1, Enabled(rule, q.config), rule.words[1] = answer[i]
      PROVE  Cardinality({k \in DOMAIN job.findings : IsAt(job.findings[k], rule, answer, i)}) =
               IF i <= GUARDRAIL_MAX_LENGTH THEN 1 ELSE 0
  <2>1. /\ job.start = Len(Looked(answer))
        /\ Covers(job.findings, answer, job.start, RulesFor(q))
        /\ job.start > 0 => job.locale = q.lang
    BY <1>1, <1>5 DEF IsCovering, IsPlainReview
  <2>2. CASE job.locale = q.lang
    <3>1. rule \in RulesFor(q)  BY <1>5, <2>2 DEF RulesFor, RulesOf
    <3>. QED  BY <1>4, <1>5, <2>1, <3>1, CoveredOnce
  <2>3. CASE job.locale # q.lang
    <3>1. Len(Looked(answer)) = 0
      <4>1. Len(Looked(answer)) \in Nat  BY <1>4, LookedIs, ListLen
      <4>. QED  BY <2>1, <2>3, <4>1
    <3>2. Covers(job.findings, answer, Len(Looked(answer)), {rule})
      BY <2>1, <3>1 DEF Covers
    <3>. QED  BY <1>4, <1>5, <3>2, CoveredOnce
  <2>. QED  BY <2>2, <2>3
<1>6. ASSUME NEW i \in DOMAIN answer, NEW rule
      PROVE  {k \in DOMAIN job.findings : IsAt(job.findings[k], rule, answer, i)} =
               {k \in DOMAIN job.findings :
                  /\ job.findings[k].text_id = rule.words
                  /\ job.findings[k].text = <<answer[i]>>
                  /\ job.findings[k].start = utf16_offsets(answer)[i - 1]}
  BY DEF IsAt
<1>. QED  BY <1>3, <1>5, <1>6 DEF AnswerCoveredWhole, Lang

\* Whatever a rule is for is found once in an answer, up to the length that is checked, however
\* the answer is cut into parts, and nothing behind that length is.
THEOREM AnswersCoveredWhole ==
  ASSUME WordsAreOnce
  PROVE  Spec => []AnswerCoveredWhole
<1>1. Init => JobIsNoting /\ JobIsCovering /\ AnswerCoveredWhole
  BY DEF Init, Idle, JobIsNoting, IsNoting, JobIsCovering, IsCovering, AnswerCoveredWhole, Ended
<1>2. ASSUME JobIsGood, JobIsCovering, AnswerCoveredWhole, [Next]_job PROVE AnswerCoveredWhole'
  <2>. DEFINE Says(j) == j.stage = "done" /\ j.request.route # "form" /\ j.response.kind = "verdict"
  <2>1. IsGood(job)  BY <1>2 DEF JobIsGood
  <2>2. CASE job' = job  BY <1>2, <2>2 DEF AnswerCoveredWhole, Ended, Lang
  <2>3. CASE job' # job /\ Says(job')
    <3>1. \/ SaysNothing(job'.response)
          \/ job'.response.kind \notin {"results", "verdict", "matches"}
          \/ job.stage = "sort" /\ job.request.route \in {"check", "lt"}
               /\ \E genuine : SortsTo(job, job', genuine)
          \/ Verdict
      BY <1>2, <2>1, <2>3, AnsweredBy
    <3>2. ~SaysNothing(job'.response)
      BY <2>3 DEF SaysNothing, Refusal, Results, Matched
    <3>3. ASSUME job.request.route \in {"check", "lt"}, NEW genuine, SortsTo(job, job', genuine)
          PROVE  FALSE
      BY <2>3, <3>3 DEF SortsTo, Results, Matched
    <3>4. Verdict  BY <2>3, <3>1, <3>2, <3>3
    <3>. QED  BY <1>2, <2>1, <3>4, VerdictCovers DEF JobIsCovering
  <2>. QED  BY <2>2, <2>3 DEF AnswerCoveredWhole, Ended
<1>. QED  BY <1>1, <1>2, JobsAreGood, JobStaysNoting, JobStaysCovering, PTL DEF Spec
=============================================================================
