----------------------------- MODULE TextChecks -----------------------------
(***************************************************************************)
(* The way of a text through the server, from each of the routes that      *)
(* check one: /check (app/routes/check.py), the LanguageTool protocol      *)
(* (app/routes/lt.py) and the guardrails (app/guardrail.py,                *)
(* app/routes/guardrail*.py), over the steps of apply_language_rules       *)
(* (app/language_processor.py): the rules in their session, the call to    *)
(* LanguageTool, the call to the context checker, and what is sorted out   *)
(* after them.  Either service may fail or answer with something else.     *)
(*                                                                         *)
(* One request at a time: requests share nothing here but the session, see *)
(* NlpSession.  A gateway may send on what it got: an annotated answer     *)
(* again, a conversation with its guidance; and a client may have the      *)
(* forms it wrote switched to another format any number of times.          *)
(***************************************************************************)
EXTENDS LanguageTool, Guardrail, LtProtocol, Inklusivum

CONSTANTS
  Requests,
  Inclusive,         \* the categories a guardrail switches off: inclusive_categories
  DefaultThreshold,  \* the first finding with alternatives
  MaxResends         \* bound: how often a gateway sends on what it got

Routes == {"check", "lt", "guardrail", "input", "litellm", "form"}

IsConfig(config) ==
  /\ DOMAIN config =
       {"disabled", "alternatives_max_count", "false_positives", "term_replacements",
        "inclusive_roles", "german_gender_ending", "french_gender_separator",
        "primary_language", "preferred_languages", "guardrail_threshold"}
  /\ config.alternatives_max_count \in Nat \union {Nothing}
  /\ IsFiniteSet(config.term_replacements)
  /\ \A term \in config.term_replacements : IsRule(term) /\ ~term.form
  /\ config.guardrail_threshold = Nothing \/ IsThreshold(config.guardrail_threshold)

\* `credential`: "user", "unconfigured" (a user without a config), "wrong", "password" or
\* "none"; `checker`: "local", "remote" or "none"; `languagetool`: its URL is set.
IsRequest(r) ==
  /\ DOMAIN r =
       {"route", "text", "annotations", "code", "texts", "messages", "lang", "variants", "config",
        "credential", "require_auth", "languagetool", "checker", "explain", "on_fail", "form"}
  /\ r.route \in Routes /\ IsConfig(r.config) /\ IsList(r.text)
  /\ IsList(r.annotations)
  /\ \A i \in DOMAIN r.annotations :
       IsList(r.annotations[i].text) /\ IsList(r.annotations[i].interpret_as)
  /\ IsList(r.texts) /\ \A i \in DOMAIN r.texts : IsList(r.texts[i])
  /\ IsList(r.variants)
  /\ \A i \in DOMAIN r.variants : r.variants[i] \in Locales \union {"en-AU"}

ASSUME TextChecksAssumption ==
  /\ \A r \in Requests : IsRequest(r)
  /\ MaxResends \in Nat
  /\ IsThreshold(DefaultThreshold)

\* Only LiteLLM sends answers as texts, and no client's own system message says the
\* guidance twice.
ASSUME ConversationsAssumption ==
  \A r \in Requests :
    /\ r.texts # <<>> => r.route = "litellm"
    /\ IsList(r.messages) /\ \A i \in DOMAIN r.messages : IsMessage(r.messages[i])
    /\ r.messages # <<>> =>
         SaidAtMostOnce(r.messages[1], guidance(r.config, r.lang))

\* The mark of a note stands in no rule, term or alternative, and is nothing a note is
\* made of.
Unmarking(rule) ==
  /\ Note \notin Range(rule.words)
  /\ \A i \in DOMAIN rule.alternatives : Note \notin Range(rule.alternatives[i].lemma)

ASSUME NotesAssumption ==
  /\ Note \notin {"->", "(remove)", "(why)", "/", ";"} \union Range(CapitalOf)
  /\ \A rule \in Rules \union UNION {r.config.term_replacements : r \in Requests} :
       Unmarking(rule)

VARIABLE job

Stages == {"idle", "read", "languagetool", "sort", "verdict", "done", "failed"}

Idle ==
  [stage |-> "idle", request |-> Nothing, resends |-> 0,
   answer |-> <<>>, spans |-> {}, index |-> 1, whole |-> FALSE, start |-> 0,
   locale |-> NoLocale, part |-> <<>>, found |-> <<>>, lt_results |-> <<>>,
   genuine |-> Nothing, findings |-> <<>>, words |-> 0, language |-> Nothing,
   answers |-> <<>>, issues |-> <<>>, down |-> FALSE, form |-> <<>>, format |-> Nothing,
   response |-> Nothing]

Init == job = Idle

-----------------------------------------------------------------------------
\* Receiving a request: whom it is for, what it is about.

Done(j, response) == [j EXCEPT !.stage = "done", !.response = response]

Refusal == [kind |-> "refused"]
Results(results) == [kind |-> "results", results |-> results]
Matched(matches, ranges) == [kind |-> "matches", matches |-> matches, ranges |-> ranges]
Chat(messages) == [kind |-> "messages", messages |-> messages]

HasUserConfig(r) == r.credential = "user"

Started(r) == [Idle EXCEPT !.request = r]

\* A check for no user is answered, with nothing.
OpenedCheck(r) ==
  IF HasUserConfig(r) \/ ~r.require_auth
  THEN [Started(r) EXCEPT !.stage = "read", !.answer = r.text]
  ELSE Done(Started(r), Results(<<>>))

\* lt_check: an empty text does not hide the data; a wrong key is told, no key is not.
OpenedLt(r) ==
  LET data == r.text = <<>> /\ r.annotations # <<>>
  IN  IF resolve_lang(r.code) = Nothing THEN Done(Started(r), Refusal)
      ELSE IF r.credential \in {"wrong", "password"} /\ r.require_auth
      THEN Done(Started(r), Refusal)
      ELSE IF ~HasUserConfig(r) /\ r.require_auth THEN Done(Started(r), Matched(<<>>, <<>>))
      ELSE [Started(r) EXCEPT
              !.stage = "read", !.request.lang = resolve_lang(r.code),
              !.answer = IF data THEN TextOf(r.annotations) ELSE r.text,
              !.spans = IF data THEN markup_spans(r.annotations) ELSE {}]

\* guardrail_user: without a user nothing passes, unless anyone is answered.
GuardrailUser(r) ==
  \/ HasUserConfig(r)
  \/ r.credential # "unconfigured" /\ ~r.require_auth

\* with_inclusive_categories_disabled
Reviewed(r) == [r EXCEPT !.config.disabled = @ \union Inclusive]

OpenedGuardrail(r) ==
  IF GuardrailUser(r)
  THEN [Started(Reviewed(r)) EXCEPT !.stage = "read", !.answer = r.text]
  ELSE Done(Started(r), Refusal)

\* /guardrail/input, and LiteLLM's request: the guidance goes with the messages.
OpenedInput(r) ==
  IF GuardrailUser(r)
  THEN Done(Started(r), Chat(merge_guidance(r.messages, guidance(r.config, r.lang))))
  ELSE Done(Started(r), Refusal)

IsBlank(text) == \A i \in DOMAIN text : text[i] \in Spaces

\* Mutant: notes are not looked for.
FirstReviewed_Whole(text) == text

\* What is reviewed of an answer first: what stands before its last note.
FirstReviewed(text) == IF HasNote(text) THEN BeforeNote(text) ELSE text

\* Mutant: the next text is read from where the one before it ended.
Reviewing_FromWhereItWas(j, index, text, whole) ==
  [j EXCEPT !.stage = IF IsBlank(text) THEN "verdict" ELSE "read",
            !.index = index, !.answer = text, !.whole = whole,
            !.findings = <<>>, !.words = 0, !.language = Nothing]

\* The review of texts[index]; nothing of the one before it stays.
Reviewing(j, index, text, whole) ==
  [j EXCEPT !.stage = IF IsBlank(text) THEN "verdict" ELSE "read",
            !.index = index, !.answer = text, !.whole = whole, !.start = 0,
            !.findings = <<>>, !.words = 0, !.language = Nothing]

OpenedLitellm(r) ==
  IF ~GuardrailUser(r) THEN Done(Started(r), Refusal)
  ELSE IF r.texts = <<>>
  THEN Done(Started(r), Chat(with_guidance(r.messages, guidance(r.config, r.lang))))
  ELSE Reviewing(Started(Reviewed(r)), 1, FirstReviewed(r.texts[1]),
                 FirstReviewed(r.texts[1]) = r.texts[1])

Opened(r) ==
  CASE r.route = "check" -> OpenedCheck(r)
    [] r.route = "lt" -> OpenedLt(r)
    [] r.route = "guardrail" -> OpenedGuardrail(r)
    [] r.route = "input" -> OpenedInput(r)
    [] r.route = "litellm" -> OpenedLitellm(r)
    [] r.route = "form" ->
         [Done(Started(r), Nothing) EXCEPT !.form = r.form.written, !.format = r.form.format]

Receive == /\ job.stage = "idle"
           /\ \E r \in Requests : job' = Opened(r)

-----------------------------------------------------------------------------
\* fetch_text and the rules, in one session.

IsGuardrail(r) == r.route \in {"guardrail", "litellm"}

\* A text too long ends before its last space.
fetch_text(text) ==
  LET cut == Slice(text, 0, text_max_length)
  IN  IF Len(text) <= text_max_length THEN text
      ELSE IF BlankCut(cut) > 0 THEN SubSeq(cut, 1, BlankCut(cut) - 1) ELSE cut

Loaded(locale) == locale \in Locales /\ LangOf[locale] \in supported_langs

\* LanguageTool's protocol has a guess where the language cannot be told.
LocaleFor(r, text) ==
  LET locale == get_locale(text, r.lang, r.config.preferred_languages, r.variants)
  IN  IF locale = NoLocale /\ r.route = "lt" /\ r.lang = "auto"
      THEN FirstOf(r.variants, LAMBDA v : v \in Locales, "en-US")
      ELSE locale

\* A locale that is none, or one whose model is not loaded, raises a KeyError.
Read(part, next) ==
  LET locale == LocaleFor(job.request, part)
      lang == LangOf[locale]
  IN  IF locale = NoLocale THEN next
      ELSE IF ~Loaded(locale) THEN [job EXCEPT !.stage = "failed", !.locale = locale]
      ELSE [job EXCEPT !.stage = IF IsGuardrail(job.request) THEN "sort" ELSE "languagetool",
                       !.locale = locale, !.part = part,
                       !.language = IF @ = Nothing THEN lang ELSE @,
                       !.words = @ + WordsIn(part), !.lt_results = <<>>,
                       !.found = witty_rules(part, lang, job.request.config)]

ReadText ==
  /\ job.stage = "read" /\ ~IsGuardrail(job.request)
  /\ job' = Read(fetch_text(job.answer), Done(job, Refusal))

Checked == Slice(job.answer, 0, GUARDRAIL_MAX_LENGTH)

\* A part whose language cannot be told is passed over.
ReadAnswer ==
  /\ job.stage = "read" /\ IsGuardrail(job.request)
  /\ job' = IF job.start >= Len(Checked) THEN [job EXCEPT !.stage = "verdict"]
            ELSE LET part == Part(Checked, job.start)
                 IN  Read(part, [job EXCEPT !.start = Behind(@, part)])

-----------------------------------------------------------------------------
\* The services.

Lang == LangOf[job.locale]

LanguageToolFails == {"down"}

Found(outcome) ==
  IF outcome = "answers" THEN ReportedMatches(job.part, job.locale, Lang, job.request.config)
  ELSE <<>>

AskLanguageTool ==
  LET asked == /\ job.request.languagetool
               /\ Payload(job.locale, Lang, job.request.config) # Nothing
  IN  /\ job.stage = "languagetool"
      /\ \E outcome \in IF asked THEN {"answers", "garbled", "down"} ELSE {"not asked"} :
           job' = IF outcome \in LanguageToolFails \/ ~AllHaveResults(Found(outcome), job.part)
                  THEN [job EXCEPT !.stage = "failed", !.down = outcome = "down"]
                  ELSE [job EXCEPT !.stage = "sort",
                          !.lt_results = languagetool_matches(Found(outcome), job.part, Lang,
                                                              job.request.config)]

\* Mutant: how many characters come before.
Shift_InCharacters(answer, start) == start

\* Where a part's offsets begin in the answer.
Shift(answer, start) == utf16_length(Slice(answer, 0, start))

Shifted(results, shift) ==
  [i \in DOMAIN results |-> [results[i] EXCEPT !.start = @ + shift, !.end = @ + shift]]

\* What is left of the part's findings goes to where they are wanted.
Sorted(results, genuine) ==
  LET r == job.request
      sorted == [job EXCEPT !.found = results, !.genuine = genuine]
  IN  CASE r.route = "check" -> Done(sorted, Results(results))
        [] r.route = "lt" ->
             Done(sorted, Matched(LtMatches(results, job.part, job.spans),
                                  sentence_ranges(job.part)))
        [] OTHER ->
             [sorted EXCEPT !.stage = "read", !.start = Behind(@, job.part),
                            !.findings = @ \o Shifted(results, Shift(job.answer, job.start))]

AllSentences == {Sentences(job.part)[i].text : i \in DOMAIN Sentences(job.part)}

ToCheck ==
  IF job.request.checker = "none" THEN {} ELSE sentences_to_check(job.found, Sentences(job.part))

AnsweredWith(genuine) ==
  Sorted(SortedOut(job.lt_results, job.found, Sentences(job.part), genuine, job.part, Lang,
                   job.request.config), genuine)

\* The context checker says which sentences stand: the local model any, or all where it
\* fails; the remote one may be down, or answer with a text, none of whose characters is "1".
Sort ==
  LET remote == job.request.checker = "remote" /\ ToCheck # {}
  IN  /\ job.stage = "sort"
      /\ \/ \E genuine \in SUBSET ToCheck :
              job' = AnsweredWith(genuine \union (AllSentences \ ToCheck))
         \/ remote /\ job' = AnsweredWith({})
         \/ remote /\ job' = [job EXCEPT !.stage = "failed", !.down = TRUE]

-----------------------------------------------------------------------------
\* The verdict of a guardrail.

Failed ==
  IF job.language = Nothing THEN {}
  ELSE failed_on(job.findings, job.words,
                 IF job.request.config.guardrail_threshold = Nothing
                 THEN DefaultThreshold ELSE job.request.config.guardrail_threshold)

Verdict ==
  /\ job.stage = "verdict" /\ job.request.route = "guardrail"
  /\ job' = Done(job,
       [kind |-> "verdict", failed_on |-> Failed, findings |-> job.findings,
        limit_reached |-> Len(job.answer) > GUARDRAIL_MAX_LENGTH,
        reask |-> IF Failed = {} THEN Nothing ELSE ReviewPrompt(job.findings)])

\* LiteLLM's answer, once each text has been reviewed.
LitellmOut(j) ==
  LET r == j.request
      failing == {i \in DOMAIN j.issues : j.issues[i] # Nothing}
      Annotated(i) ==
        IF i \in failing THEN j.answers[i] \o <<Note>> \o j.issues[i] ELSE r.texts[i]
  IN  IF failing = {} THEN [kind |-> "none"]
      ELSE IF r.on_fail = "block" THEN [kind |-> "blocked"]
      ELSE [kind |-> "texts", texts |-> [i \in DOMAIN r.texts |-> Annotated(i)]]

\* Goes on with the next text, or answers.
WithAnswer(answer, issue) ==
  LET judged == [job EXCEPT !.answers = Append(@, answer), !.issues = Append(@, issue)]
      next == job.index + 1
  IN  IF next \in DOMAIN job.request.texts
      THEN Reviewing(judged, next, FirstReviewed(job.request.texts[next]),
                     FirstReviewed(job.request.texts[next]) = job.request.texts[next])
      ELSE Done(judged, LitellmOut(judged))

\* A note is Witty's own if it is the one Witty writes for the text before it; otherwise
\* the text is reviewed as a whole.
JudgeText ==
  LET text == job.request.texts[job.index]
      issue == IF Failed = {} THEN Nothing
               ELSE issue_list(job.findings, job.request.explain)
  IN  /\ job.stage = "verdict" /\ job.request.route = "litellm"
      /\ job' = IF job.whole THEN WithAnswer(text, issue)
                ELSE IF issue # Nothing /\ issue = NoteOf(text) THEN WithAnswer(job.answer, issue)
                ELSE Reviewing(job, job.index, text, TRUE)

-----------------------------------------------------------------------------
\* The clients.

\* A gateway sends the annotated answer again, as in a stream it samples.
SendAgain ==
  /\ job.stage = "done" /\ job.resends < MaxResends
  /\ job.response # Nothing /\ job.response.kind = "texts"
  /\ job' = [Opened([job.request EXCEPT !.texts = job.response.texts])
               EXCEPT !.resends = job.resends + 1]

\* The next turn of a conversation that was kept as it was sent on.
NextTurn ==
  /\ job.stage = "done" /\ job.resends < MaxResends
  /\ job.response # Nothing /\ job.response.kind = "messages"
  /\ job' = [Opened([job.request EXCEPT !.messages = job.response.messages])
               EXCEPT !.resends = job.resends + 1]

\* The switch of the gender format is accepted, for another format: of a form that a check
\* reports, which a compound is only in some formats.
SwitchFormat ==
  /\ job.stage = "done" /\ job.request.route = "form" /\ job.format # "e"
  /\ job.request.form.compound => job.format \in CompoundFormats
  /\ \E target \in TargetsOf(job.request.form.kind) \ {job.format} :
       LET switched == Switched(job.request.form.kind, job.form, target)
       IN  /\ switched # job.form
           /\ job' = [job EXCEPT !.form = switched, !.format = target]

\* The switch into the Inklusivum.  There is none out of it, and none for a compound.
SwitchIntoInklusivum ==
  /\ job.stage = "done" /\ job.request.route = "form" /\ job.format \in Formats
  /\ ~job.request.form.compound
  /\ \E switched \in inklusivum_form(job.request.form.kind, job.form, job.request.form.tokens) :
       job' = [job EXCEPT !.form = switched, !.format = "e"]

Leave == job.stage \in {"done", "failed"} /\ job' = Idle

Serve == ReadText \/ ReadAnswer \/ AskLanguageTool \/ Sort \/ Verdict \/ JudgeText

Next == Receive \/ Serve \/ SendAgain \/ NextTurn \/ SwitchFormat \/ SwitchIntoInklusivum
          \/ Leave

Spec == Init /\ [][Next]_job

-----------------------------------------------------------------------------
\* Properties.

Plain(text) == Range(text) \intersect (Wide \union Signs) = {}

\* What the client sent, as it counts it.
ClientText == IF job.request.text = <<>> THEN Data(job.request.annotations) ELSE job.request.text

\* The markup, and what it stands for.
MarkupText ==
  LET annotations == job.request.annotations
  IN  FlattenSeq([i \in DOMAIN annotations |->
                    IF annotations[i].markup
                    THEN annotations[i].text \o annotations[i].interpret_as ELSE <<>>])

Ended == job.stage = "done" /\ job.request.route # "form"

Reported == IF Ended /\ job.response.kind = "results" THEN job.response.results
            ELSE IF Ended /\ job.response.kind = "verdict" THEN job.response.findings
            ELSE <<>>

\* A job is of one of the routes and stages, and where it stands in its text, its texts and
\* its turns is somewhere in them: what is next reviewed begins at its beginning.
TypeOK ==
  /\ job.stage \in Stages
  /\ job.stage # "idle" => job.request.route \in Routes
  /\ job.locale \in Locales \union {NoLocale, "en-AU"}
  /\ job.resends \in 0 .. MaxResends
  /\ job.start \in 0 .. Len(job.answer)
  /\ job.words \in 0 .. Len(job.answer)
  /\ Len(job.answers) = Len(job.issues)
  /\ job.stage # "idle" /\ job.request.texts # <<>> => job.index \in DOMAIN job.request.texts

\* The offsets of whatever is reported, of a part of a long answer and of a match's context
\* as well, are those of the text found, in the UTF-16 units a client slices its own text by.
\* Not so with an emoji of the BMP, nor with a wide character in markup or in what that
\* stands for.
OffsetsPointAtText ==
  /\ Reported # <<>> /\ Range(ClientText) \intersect Signs = {} =>
       \A i \in DOMAIN Reported :
         ReadsAs(ClientText, Reported[i].start, Reported[i].end, Reported[i].text)
  /\ Ended /\ job.response.kind = "matches" /\ Range(ClientText) \intersect Signs = {}
       /\ Range(MarkupText) \intersect (Wide \union Signs) = {} =>
       \A i \in DOMAIN job.response.matches :
         LET m == job.response.matches[i] IN
         /\ ReadsAs(ClientText, m.offset, m.offset + m.length, m.found)
         /\ ReadsAs(m.context.text, m.context.offset, m.context.offset + m.length, m.found)

\* What is left at the end of a text's steps, against what should be.
RemovesRightly ==
  job.stage = "sort" /\ job'.stage # "failed" /\ Plain(job.part) =>
    LET sentences == Sentences(job.part)
        LiesIn(f, i) == /\ f.end <= sentences[i].end
                        /\ i > 1 => sentences[i - 1].end <= f.start
        Wanted(f) == f.text \notin job.request.config.false_positives
        Genuine(f) == \A i \in DOMAIN sentences :
                        f.text_id \in ContextChecked /\ LiesIn(f, i) =>
                          sentences[i].text \in job'.genuine
        Left(fs, keys) == KeptAt(fs, {i \in keys : Wanted(fs[i])})
        left == Left(job.lt_results, DOMAIN job.lt_results)
                  \o Left(job.found, {i \in DOMAIN job.found : Genuine(job.found[i])})
        Where(fs) == [i \in DOMAIN fs |-> <<fs[i].text_id, fs[i].start, fs[i].end>>]
    IN  Where(job'.found) = Where(left)

\* What the steps after the rules take out again is exactly what they name: the findings with
\* a text the user ruled out, and those of a rule whose sentence, the one they lie in, the
\* context checker did not let stand; all others stay, in their order.
RemovedRightly == [][RemovesRightly]_job

\* The switch of the gender format rewrites every result that is in it at once: no two of them
\* overlap, and each has the alternative it is switched to.
BulkApart ==
  \A i, j \in DOMAIN job.found :
    LET a == job.found[i]
        b == job.found[j]
    IN  /\ a.bulk # Nothing => a.bulk \in DOMAIN a.alternatives /\ ~a.alternatives[a.bulk].remove
        /\ i # j /\ a.bulk # Nothing /\ b.bulk # Nothing => a.end <= b.start \/ b.end <= a.start

\* However a long answer falls into parts, each word of its checked beginning that a rule
\* finds is reported, once, and nothing behind that.
AnswerCoveredWhole ==
  /\ Ended /\ job.response.kind = "verdict" /\ job.request.lang \in Locales
  /\ job.request.checker = "none" /\ job.request.config.false_positives = {}
  => LET Finds(rule, i) ==
           /\ rule.lang = Lang /\ Len(rule.words) = 1 /\ Enabled(rule, job.request.config)
           /\ rule.words[1] = job.answer[i]
         At(rule, i) == {k \in DOMAIN job.findings :
                           /\ job.findings[k].text_id = rule.words
                           /\ job.findings[k].text = <<job.answer[i]>>
                           /\ job.findings[k].start = utf16_offsets(job.answer)[i - 1]}
     IN  \A i \in DOMAIN job.answer, rule \in Rules :
           Finds(rule, i) => Cardinality(At(rule, i)) = IF i <= GUARDRAIL_MAX_LENGTH THEN 1 ELSE 0

\* A match never touches the markup of a client's document, not even one of several words
\* with markup between them: its replacement would be written over the markup.  Not so where
\* an offset is not a character's.
LtOutsideMarkup ==
  Ended /\ job.response.kind = "matches" /\ Plain(ClientText) /\ Plain(MarkupText)
    /\ job.request.text = <<>> =>
    LET annotations == job.request.annotations
        IsMarkup == FlattenSeq([k \in DOMAIN annotations |->
                      [i \in DOMAIN annotations[k].text |-> annotations[k].markup]])
    IN  \A k \in DOMAIN job.response.matches :
          LET m == job.response.matches[k] IN
          \A i \in m.offset + 1 .. m.offset + m.length : ~IsMarkup[i]

\* What the guardrail adds to a conversation of LiteLLM it adds once, however often that
\* comes back.  An answer that has Witty's note, as in a stream LiteLLM samples, is given the
\* same note, neither another one nor none; a conversation that is sent on has the guidance
\* in it once, except where the system message is a list of parts.
AddedOnce ==
  /\ Ended /\ job.resends > 0 /\ job.request.texts # <<>> /\ job.request.checker = "none" =>
       job.response = [kind |-> "texts", texts |-> job.request.texts]
  /\ /\ Ended /\ job.request.route = "litellm" /\ job.response.kind = "messages"
     /\ job.response.messages # <<>> /\ job.response.messages[1].kind = "text"
     => TimesSaid(job.response.messages[1], guidance(job.request.config, job.request.lang)) = 1

\* An answer never fails without a message that gets it put right: one that has an alternative
\* for every finding that counted.
FailHasReask ==
  Ended /\ job.response.kind = "verdict" /\ job.response.failed_on # {} =>
    /\ job.response.reask # Nothing
    /\ \A i \in DOMAIN job.findings :
         job.findings[i].alternatives # <<>> =>
           \E k \in DOMAIN job.response.reask :
             job.response.reask[k].alternatives = job.findings[i].alternatives

\* Forms may be switched any number of times: each is then what one switch makes of the form
\* as it was written, and the switch back gives that.
FormsReadBack ==
  job.stage = "done" /\ job.request.route = "form" =>
    LET form == job.request.form
    IN  IF job.format = "e"
        THEN job.form \in inklusivum_form(form.kind, form.written, form.tokens)
        ELSE job.form = IF job.format = form.format THEN form.written
                        ELSE Switched(form.kind, form.written, job.format)

\* What the switch makes of a noun in the Inklusivum is recognised as such, however it is
\* declined, or is a form the lexicon has: the next check leaves it alone.  Not so for the
\* exceptions (`Geselles`), and where -in takes the place of a second -er (`Wanderne`).
InklusivumIsKnown ==
  job.stage = "done" /\ job.request.route = "form" /\ job.request.form.kind = "noun"
    /\ job.format = "e"
  => LET feminine == feminine_form(job.request.form.written)
     IN  \/ is_inklusivum_noun(job.form)
         \/ \E entry \in NounEntries : job.form = entry.base \/ job.form \in entry.forms
         \/ \E entry \in Lookups(feminine) :
              entry.male_form \in DOMAIN Exceptions \/ IsDoubleEr(entry.male_form, feminine)

\* A request only fails while a service is down, over what LanguageTool says of a text with an
\* emoji of the BMP, or over a locale that the client named itself and that has no model: a
\* language that is told from the text has one.
FailsForACause ==
  job.stage = "failed" =>
    \/ job.down
    \/ job.request.languagetool /\ Range(job.part) \intersect Signs # {}
    \/ /\ ~Loaded(job.locale)
       /\ \/ job.request.lang \in {job.locale, LangOf[job.locale]}
          \/ job.locale \in Range(job.request.variants)
          \/ job.request.route = "lt" /\ job.locale = "en-US"

\* LanguageTool's clients check on every edit: a code this server knows is answered while the
\* services are up, with no matches where the language is not loaded (app/routes/lt.py).
LtAnswers ==
  job.stage = "failed" /\ job.request.route = "lt" => job.down

\* A text LanguageTool and the rules have answered for is answered: "Offsets are UTF-16 code
\* units, matching what LanguageTool's Java server produces" (docs/api.md), so what that finds
\* can be looked up.
MatchesAreLookedUp ==
  job.stage = "failed" /\ job.request.route = "lt" /\ Loaded(job.locale) => job.down

Rank ==
  [stage \in {"read", "languagetool", "sort", "verdict"} |->
     CASE stage = "read" -> 3
       [] stage = "languagetool" -> 2
       [] stage = "sort" -> 1
       [] stage = "verdict" -> 0]

\* What is left of a request: texts, a second review of this one, characters, steps.
Remaining ==
  <<Len(job.request.texts) - job.index, IF job.whole THEN 0 ELSE 1,
    Len(job.answer) - job.start, Rank[job.stage]>>

\* Every request comes to its end, whatever the services do: each step of its handler leaves
\* less of it.  A part cut at nothing would be read for ever.
JobEnds ==
  [][job.stage \in DOMAIN Rank /\ job'.stage \in DOMAIN Rank =>
       \E i \in 1 .. 4 : /\ Remaining'[i] < Remaining[i]
                         /\ \A k \in 1 .. i - 1 : Remaining'[k] = Remaining[k]]_job
=============================================================================
