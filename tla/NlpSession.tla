----------------------------- MODULE NlpSession -----------------------------
(***************************************************************************)
(* Requests interleaving at their awaits inside one worker, and the spaCy  *)
(* memory zones they share (Model.nlp_session of app/model.py, its use in  *)
(* app/language_processor.py, and the routes that go without it).          *)
(*                                                                         *)
(* Strings a language's pipeline meets while that language's zone is open  *)
(* are transient: when the zone exits they are evicted, whichever request's *)
(* Doc still refers to them.  What happens between two awaits is one step. *)
(***************************************************************************)
EXTENDS Naturals

CONSTANTS
  Langs,        \* the languages a model is loaded for
  Requests,     \* the requests one worker may be handling at once
  Nobody,       \* no request
  Kinds,        \* "check" (in a session) and "zoneless": the routes in use
  MemoryZones   \* what MEMORY_ZONES may be set to: FALSE is the kill switch

ASSUME NlpSessionAssumption ==
  /\ Nobody \notin Requests \union Langs
  /\ Kinds \subseteq {"check", "zoneless"}
  /\ MemoryZones \subseteq BOOLEAN

VARIABLES
  memory_zones, \* the setting of this worker
  holder,       \* locks[lang]: the request that holds it
  zone,         \* is the memory zone of the language's vocab open?
  task          \* each request: where it is, its language, its Doc's strings

vars == <<memory_zones, holder, zone, task>>

\* What a Doc's strings are: there is no Doc, they are interned for good, they
\* belong to the open zone, or they are gone.
DocStates == {"none", "lasting", "transient", "evicted"}

Idle == [pc |-> "idle", kind |-> "check", lang |-> Nobody, doc |-> "none"]

Init ==
  /\ memory_zones \in MemoryZones
  /\ holder = [l \in Langs |-> Nobody]
  /\ zone = [l \in Langs |-> FALSE]
  /\ task = [r \in Requests |-> Idle]

\* spaCy (external): strings are interned in the zone if one is open.
Interned(open, doc) == IF open THEN "transient" ELSE IF doc = "none" THEN "lasting" ELSE doc

\* spaCy (external): the exit of a zone of language l evicts what is transient.
Evict(l, tasks) ==
  [r \in Requests |->
     IF tasks[r].lang = l /\ tasks[r].doc = "transient"
     THEN [tasks[r] EXCEPT !.doc = "evicted"] ELSE tasks[r]]

-----------------------------------------------------------------------------
\* /v2.4/check, or one part of a guardrail review: apply_language_rules.

\* fetch_text has determined a language; without one the answer is a 422.
Arrive(r, kind, l) ==
  /\ task[r].pc = "idle"
  /\ task' = [task EXCEPT ![r] = [pc |-> "arrived", kind |-> kind, lang |-> l, doc |-> "none"]]
  /\ UNCHANGED <<memory_zones, holder, zone>>

\* Mutant: the zone is entered without the lock.
Enter_NoLock(r) ==
  LET l == task[r].lang
  IN  /\ task[r].pc = "arrived" /\ task[r].kind = "check"
      /\ memory_zones
      /\ holder' = [holder EXCEPT ![l] = r]
      /\ zone' = [zone EXCEPT ![l] = TRUE]
      /\ task' = [task EXCEPT ![r].pc = "session", ![r].doc = Interned(TRUE, "none")]
      /\ UNCHANGED memory_zones

\* Mutant: the session spans the calls to LanguageTool and the context checker.
Enter_SpansAwaits(r) ==
  LET l == task[r].lang
  IN  /\ task[r].pc = "arrived" /\ task[r].kind = "check"
      /\ memory_zones
      /\ holder[l] = Nobody
      /\ \A q \in Requests : task[q].lang = l => task[q].pc # "outside"
      /\ holder' = [holder EXCEPT ![l] = r]
      /\ zone' = [zone EXCEPT ![l] = TRUE]
      /\ task' = [task EXCEPT ![r].pc = "session", ![r].doc = Interned(TRUE, "none")]
      /\ UNCHANGED memory_zones

\* The lock is taken, the zone opens, fetch_tokens makes the Doc.
Enter(r) ==
  LET l == task[r].lang
  IN  /\ task[r].pc = "arrived" /\ task[r].kind = "check"
      /\ memory_zones
      /\ holder[l] = Nobody
      /\ holder' = [holder EXCEPT ![l] = r]
      /\ zone' = [zone EXCEPT ![l] = TRUE]
      /\ task' = [task EXCEPT ![r].pc = "session", ![r].doc = Interned(TRUE, "none")]
      /\ UNCHANGED memory_zones

\* witty_rules is done: plain data is extracted, the Doc dropped, the zone exits.
Leave(r) ==
  LET l == task[r].lang
  IN  /\ task[r].pc = "session" /\ holder[l] = r
      /\ holder' = [holder EXCEPT ![l] = Nobody]
      /\ zone' = [zone EXCEPT ![l] = FALSE]
      /\ task' = Evict(l, [task EXCEPT ![r].pc = "outside", ![r].doc = "none"])
      /\ UNCHANGED memory_zones

\* An exception inside the session (500): the lock is released; whether spaCy
\* then closes the zone is left open.
SessionFails(r) ==
  LET l == task[r].lang
  IN  /\ task[r].pc = "session" /\ holder[l] = r
      /\ holder' = [holder EXCEPT ![l] = Nobody]
      /\ \/ zone' = [zone EXCEPT ![l] = FALSE] /\ task' = Evict(l, [task EXCEPT ![r] = Idle])
         \/ UNCHANGED zone /\ task' = [task EXCEPT ![r] = Idle]
      /\ UNCHANGED memory_zones

\* With the kill switch there is neither lock nor zone.
CheckWithoutZones(r) ==
  /\ task[r].pc = "arrived" /\ task[r].kind = "check"
  /\ ~memory_zones
  /\ task' = [task EXCEPT ![r].pc = "outside"]
  /\ UNCHANGED <<memory_zones, holder, zone>>

\* LanguageTool, the context checker and the false positives, on plain data;
\* a guardrail review goes on with its next part.
Answer(r) ==
  /\ task[r].pc = "outside"
  /\ task' = [task EXCEPT ![r] = Idle]
  /\ UNCHANGED <<memory_zones, holder, zone>>

NextPart(r, l) ==
  /\ task[r].pc = "outside" /\ task[r].kind = "check"
  /\ task' = [task EXCEPT ![r].pc = "arrived", ![r].lang = l]
  /\ UNCHANGED <<memory_zones, holder, zone>>

-----------------------------------------------------------------------------
\* /debug/spacy and /debug/rule: fetch_tokens, then awaits of the database
\* between which lemmas are set on the Doc's tokens.

FetchTokens(r) ==
  LET l == task[r].lang
  IN  /\ task[r].pc = "arrived" /\ task[r].kind = "zoneless"
      /\ task' = [task EXCEPT ![r].pc = "zoneless", ![r].doc = Interned(zone[l], "none")]
      /\ UNCHANGED <<memory_zones, holder, zone>>

SetLemma(r) ==
  LET l == task[r].lang
  IN  /\ task[r].pc = "zoneless"
      /\ task[r].doc # "evicted"
      /\ task' = [task EXCEPT ![r].doc = Interned(zone[l], @)]
      /\ UNCHANGED <<memory_zones, holder, zone>>

ZonelessEnds(r) ==
  /\ task[r].pc = "zoneless"
  /\ task' = [task EXCEPT ![r] = Idle]
  /\ UNCHANGED <<memory_zones, holder, zone>>

Session(r) == Leave(r) \/ SessionFails(r)

Next ==
  \E r \in Requests :
    \/ \E kind \in Kinds, l \in Langs : Arrive(r, kind, l)
    \/ Enter(r) \/ Session(r) \/ CheckWithoutZones(r) \/ Answer(r)
    \/ \E l \in Langs : NextPart(r, l)
    \/ FetchTokens(r) \/ SetLemma(r) \/ ZonelessEnds(r)

Spec == Init /\ [][Next]_vars

\* asyncio.Lock serves its waiters in order, and a session's awaits return.
Fairness ==
  \A r \in Requests :
    /\ SF_vars(Enter(r))
    /\ WF_vars(Session(r))
    /\ WF_vars(CheckWithoutZones(r))
    /\ WF_vars(FetchTokens(r))

FairSpec == Spec /\ Fairness

-----------------------------------------------------------------------------
TaskType ==
  [pc : {"idle", "arrived", "session", "outside", "zoneless"},
   kind : {"check", "zoneless"}, lang : Langs \union {Nobody}, doc : DocStates]

\* Type invariant; a request in progress is in one of the loaded languages.
TypeOK ==
  /\ memory_zones \in BOOLEAN
  /\ holder \in [Langs -> Requests \union {Nobody}]
  /\ zone \in [Langs -> BOOLEAN]
  /\ task \in [Requests -> TaskType]
  /\ \A r \in Requests : task[r].pc # "idle" => task[r].lang \in Langs

\* "A zone exiting while another request's Doc is alive would evict strings that
\* Doc still references" (app/model.py:108): whatever interleaves and fails, no
\* check is left with such a Doc, and with the kill switch nobody is.
DocsIntact ==
  \A r \in Requests :
    task[r].kind = "check" \/ ~memory_zones => task[r].doc # "evicted"

\* "A Doc must never outlive its zone" (docs/spacy-review.md:399).  Holds while
\* every route goes through nlp_session, not with the zoneless ones.
NoDocOutlivesItsZone == \A r \in Requests : task[r].doc # "evicted"

\* A request waits for the sessions before its own, and not for ever, also when
\* one of those fails.
CheckServed == \A r \in Requests : task[r].pc = "arrived" ~> task[r].pc # "arrived"
=============================================================================
