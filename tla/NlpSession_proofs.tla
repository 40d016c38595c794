-------------------------- MODULE NlpSession_proofs --------------------------
(* Theorems about NlpSession, for any number of requests and languages. *)
EXTENDS NlpSession, TLAPS

(***************************************************************************)
(* Why no check's Doc is evicted: with the kill switch no zone ever opens; *)
(* without it a check has a Doc only in its session, and a session has the *)
(* lock of its language to itself.                                         *)
(***************************************************************************)
KilledInv ==
  ~memory_zones => /\ \A l \in Langs : ~zone[l]
                   /\ \A r \in Requests : /\ task[r].pc # "session"
                                           /\ task[r].doc \in {"none", "lasting"}

SessionInv ==
  \A r \in Requests :
    /\ task[r].pc = "session" => holder[task[r].lang] = r /\ task[r].kind = "check"
    /\ task[r].pc = "zoneless" => task[r].kind = "zoneless"
    /\ task[r].kind = "check" /\ task[r].doc # "none" => task[r].pc = "session"
    /\ task[r].kind = "check" => task[r].doc # "evicted"

IInv == TypeOK /\ KilledInv /\ SessionInv

LEMMA InitEstablishes == Init => TypeOK /\ IInv
  BY NlpSessionAssumption
  DEF Init, IInv, TypeOK, TaskType, DocStates, KilledInv, SessionInv, Idle

\* Evicting strings changes nothing of a request but what its Doc's strings are.
LEMMA EvictKeeps ==
  ASSUME NEW l, NEW tasks, NEW after,
         tasks \in [Requests -> TaskType], after = Evict(l, tasks)
  PROVE  /\ after \in [Requests -> TaskType]
         /\ \A r \in Requests : after[r].pc = tasks[r].pc /\ after[r].lang = tasks[r].lang
  BY DEF Evict, TaskType, DocStates

\* A request a step touches keeps a loaded language; the others are untouched.
LEMMA TaskTyped ==
  ASSUME NEW tasks \in [Requests -> TaskType], NEW r \in Requests, NEW rec \in TaskType,
         \A q \in Requests : tasks[q].pc # "idle" => tasks[q].lang \in Langs,
         rec.pc # "idle" => rec.lang \in Langs
  PROVE  /\ [tasks EXCEPT ![r] = rec] \in [Requests -> TaskType]
         /\ \A q \in Requests : [tasks EXCEPT ![r] = rec][q].pc # "idle"
                                 => [tasks EXCEPT ![r] = rec][q].lang \in Langs
  OBVIOUS

\* Type correctness: a request in progress keeps one of the loaded languages.
THEOREM TypeCorrect == Spec => []TypeOK
<1>1. Init => TypeOK
  BY InitEstablishes
<1>2. TypeOK /\ [Next]_vars => TypeOK'
  <2> SUFFICES ASSUME TypeOK, [Next]_vars PROVE TypeOK'
    OBVIOUS
  <2> USE NlpSessionAssumption DEF TypeOK
  <2>1. CASE UNCHANGED vars
    BY <2>1 DEF vars, TaskType, DocStates
  <2>2. ASSUME NEW r \in Requests, NEW kind \in Kinds, NEW l \in Langs, Arrive(r, kind, l)
        PROVE  TypeOK'
    BY <2>2 DEF Arrive, TaskType, DocStates
  <2>3. ASSUME NEW r \in Requests, Enter(r) PROVE TypeOK'
    <3> DEFINE rec == [task[r] EXCEPT !.pc = "session", !.doc = "transient"]
    <3>1. task[r] \in TaskType /\ task[r].lang \in Langs
      BY <2>3 DEF Enter, TaskType, DocStates
    <3>2. rec \in TaskType /\ rec.lang \in Langs
      BY <3>1 DEF TaskType, DocStates
    <3>3. task' = [task EXCEPT ![r] = rec]
      BY <2>3, <3>1 DEF Enter, Interned
    <3>4. /\ holder' \in [Langs -> Requests \union {Nobody}]
          /\ zone' \in [Langs -> BOOLEAN] /\ memory_zones' \in BOOLEAN
      BY <2>3 DEF Enter, TaskType, DocStates
    <3> HIDE DEF rec
    <3>5. QED
      BY <3>2, <3>3, <3>4, TaskTyped
  <2>4. ASSUME NEW r \in Requests, Leave(r) PROVE TypeOK'
    <3> DEFINE rec == [task[r] EXCEPT !.pc = "outside", !.doc = "none"]
               after == [task EXCEPT ![r] = rec]
    <3>1. task[r] \in TaskType /\ task[r].lang \in Langs
      BY <2>4 DEF Leave, TaskType, DocStates
    <3>2. rec \in TaskType /\ rec.lang \in Langs
      BY <3>1 DEF TaskType, DocStates
    <3>3. task' = Evict(task[r].lang, after)
      BY <2>4, <3>1 DEF Leave
    <3>4. /\ holder' \in [Langs -> Requests \union {Nobody}]
          /\ zone' \in [Langs -> BOOLEAN] /\ memory_zones' \in BOOLEAN
      BY <2>4 DEF Leave, TaskType, DocStates
    <3> HIDE DEF rec
    <3>5. after \in [Requests -> TaskType]
          /\ \A q \in Requests : after[q].pc # "idle" => after[q].lang \in Langs
      BY <3>2, TaskTyped
    <3> HIDE DEF after
    <3>6. /\ task' \in [Requests -> TaskType]
          /\ \A q \in Requests : task'[q].pc = after[q].pc /\ task'[q].lang = after[q].lang
      BY <3>3, <3>5, EvictKeeps
    <3>7. QED
      BY <3>4, <3>5, <3>6
  <2>5. ASSUME NEW r \in Requests, SessionFails(r) PROVE TypeOK'
    <3> DEFINE after == [task EXCEPT ![r] = Idle]
    <3>1. task' = after \/ task' = Evict(task[r].lang, after)
      BY <2>5 DEF SessionFails, TaskType, DocStates
    <3>2. /\ holder' \in [Langs -> Requests \union {Nobody}]
          /\ zone' \in [Langs -> BOOLEAN] /\ memory_zones' \in BOOLEAN
      BY <2>5 DEF SessionFails, TaskType, DocStates
    <3>3. after \in [Requests -> TaskType]
          /\ \A q \in Requests : after[q].pc # "idle" => after[q].lang \in Langs
      BY TaskTyped DEF Idle, TaskType, DocStates
    <3> HIDE DEF after
    <3>4. /\ task' \in [Requests -> TaskType]
          /\ \A q \in Requests : task'[q].pc = after[q].pc /\ task'[q].lang = after[q].lang
      BY <3>1, <3>3, EvictKeeps
    <3>5. QED
      BY <3>2, <3>3, <3>4
  <2>6. ASSUME NEW r \in Requests, CheckWithoutZones(r) PROVE TypeOK'
    BY <2>6 DEF CheckWithoutZones, TaskType, DocStates
  <2>7. ASSUME NEW r \in Requests, Answer(r) PROVE TypeOK'
    BY <2>7 DEF Answer, Idle, TaskType, DocStates
  <2>8. ASSUME NEW r \in Requests, NEW l \in Langs, NextPart(r, l) PROVE TypeOK'
    BY <2>8 DEF NextPart, TaskType, DocStates
  <2>9. ASSUME NEW r \in Requests, FetchTokens(r) PROVE TypeOK'
    <3> DEFINE rec == [task[r] EXCEPT !.pc = "zoneless",
                                      !.doc = Interned(zone[task[r].lang], "none")]
    <3>1. task[r] \in TaskType /\ task[r].lang \in Langs
      BY <2>9 DEF FetchTokens, TaskType, DocStates
    <3>2. rec \in TaskType /\ rec.lang \in Langs
      BY <3>1 DEF Interned, TaskType, DocStates
    <3>3. task' = [task EXCEPT ![r] = rec]
      BY <2>9, <3>1 DEF FetchTokens
    <3>4. /\ holder' \in [Langs -> Requests \union {Nobody}]
          /\ zone' \in [Langs -> BOOLEAN] /\ memory_zones' \in BOOLEAN
      BY <2>9 DEF FetchTokens
    <3> HIDE DEF rec
    <3>5. QED
      BY <3>2, <3>3, <3>4, TaskTyped
  <2>10. ASSUME NEW r \in Requests, SetLemma(r) PROVE TypeOK'
    BY <2>10 DEF SetLemma, Interned, TaskType, DocStates
  <2>11. ASSUME NEW r \in Requests, ZonelessEnds(r) PROVE TypeOK'
    BY <2>11 DEF ZonelessEnds, Idle, TaskType, DocStates
  <2>12. QED
    BY <2>1, <2>2, <2>3, <2>4, <2>5, <2>6, <2>7, <2>8, <2>9, <2>10, <2>11 DEF Next, Session
<1>3. QED
  BY <1>1, <1>2, PTL DEF Spec

\* Every step keeps the two invariants.
LEMMA InvariantIsInductive ==
  ASSUME IInv, [Next]_vars, TypeOK'
  PROVE  KilledInv' /\ SessionInv'
<1> USE NlpSessionAssumption DEF IInv, TypeOK, TaskType, DocStates, KilledInv, SessionInv
<1>1. CASE UNCHANGED vars
  BY <1>1 DEF vars
<1>2. ASSUME NEW r \in Requests, NEW kind \in Kinds, NEW l \in Langs, Arrive(r, kind, l)
      PROVE  KilledInv' /\ SessionInv'
  BY <1>2 DEF Arrive
<1>3. ASSUME NEW r \in Requests, Enter(r) PROVE KilledInv' /\ SessionInv'
  BY <1>3 DEF Enter, Interned
<1>4. ASSUME NEW r \in Requests, Leave(r) PROVE KilledInv' /\ SessionInv'
  BY <1>4 DEF Leave, Evict
<1>5. ASSUME NEW r \in Requests, SessionFails(r) PROVE KilledInv' /\ SessionInv'
  <2>1. KilledInv'
    BY <1>5 DEF SessionFails
  <2>2. ASSUME NEW q \in Requests, q = r
        PROVE  task'[q] = Idle
    BY <1>5, <2>2 DEF SessionFails, Evict, Idle
  <2>3. ASSUME NEW q \in Requests, q # r
        PROVE  /\ task'[q].pc = task[q].pc /\ task'[q].lang = task[q].lang
               /\ task'[q].kind = task[q].kind
               /\ \/ task'[q].doc = task[q].doc
                  \/ /\ task'[q].doc = "evicted" /\ task[q].doc = "transient"
                     /\ task[q].lang = task[r].lang
    <3>1. \/ task'[q] = task[q]
          \/ /\ task[q].lang = task[r].lang /\ task[q].doc = "transient"
             /\ task'[q] = [task[q] EXCEPT !.doc = "evicted"]
      BY <1>5, <2>3 DEF SessionFails, Evict
    <3>2. task[q] \in TaskType
      OBVIOUS
    <3>3. CASE task'[q] = task[q]
      BY <3>3
    <3>4. CASE /\ task[q].lang = task[r].lang /\ task[q].doc = "transient"
               /\ task'[q] = [task[q] EXCEPT !.doc = "evicted"]
      <4>1. task'[q] = [pc |-> task[q].pc, kind |-> task[q].kind, lang |-> task[q].lang,
                        doc |-> "evicted"]
        BY <3>2, <3>4
      <4>. QED
        BY <3>4, <4>1
    <3>. QED
      BY <3>1, <3>3, <3>4
  <2>4. ASSUME NEW q \in Requests, q # r, task[q].pc = "session"
        PROVE  holder'[task[q].lang] = q /\ task[q].lang # task[r].lang
    BY <1>5, <2>4 DEF SessionFails
  <2>. QED
    BY <2>1, <2>2, <2>3, <2>4 DEF Idle
<1>6. ASSUME NEW r \in Requests, CheckWithoutZones(r) PROVE KilledInv' /\ SessionInv'
  BY <1>6 DEF CheckWithoutZones
<1>7. ASSUME NEW r \in Requests, Answer(r) PROVE KilledInv' /\ SessionInv'
  BY <1>7 DEF Answer, Idle
<1>8. ASSUME NEW r \in Requests, NEW l \in Langs, NextPart(r, l)
      PROVE  KilledInv' /\ SessionInv'
  BY <1>8 DEF NextPart
<1>9. ASSUME NEW r \in Requests, FetchTokens(r) PROVE KilledInv' /\ SessionInv'
  BY <1>9 DEF FetchTokens, Interned
<1>10. ASSUME NEW r \in Requests, SetLemma(r) PROVE KilledInv' /\ SessionInv'
  BY <1>10 DEF SetLemma, Interned
<1>11. ASSUME NEW r \in Requests, ZonelessEnds(r) PROVE KilledInv' /\ SessionInv'
  BY <1>11 DEF ZonelessEnds, Idle
<1>12. QED
  BY <1>1, <1>2, <1>3, <1>4, <1>5, <1>6, <1>7, <1>8, <1>9, <1>10, <1>11 DEF Next, Session

\* Whichever routes are in use and however MEMORY_ZONES is set, no check is left
\* with a Doc whose strings another's zone took along.
THEOREM DocsStayIntact == Spec => []DocsIntact
<1>1. Init => IInv
  BY InitEstablishes
<1>2. IInv /\ [Next]_vars /\ TypeOK' => IInv'
  BY InvariantIsInductive DEF IInv
<1>3. IInv => DocsIntact
  BY DEF IInv, KilledInv, SessionInv, DocsIntact
<1>4. QED
  BY <1>1, <1>2, <1>3, TypeCorrect, PTL DEF Spec

\* Where only checks are in use, as outside of debugging, nobody is.
THEOREM ChecksAloneAreSafe ==
  ASSUME Kinds = {"check"} PROVE Spec => []NoDocOutlivesItsZone
<1>. DEFINE Inv == IInv /\ \A r \in Requests : task[r].kind = "check"
<1>1. Init => Inv
  BY InitEstablishes DEF Init, Idle
<1>2. Inv /\ [Next]_vars /\ TypeOK' => Inv'
  <2>. SUFFICES ASSUME Inv, [Next]_vars, TypeOK' PROVE \A r \in Requests : task'[r].kind = "check"
    BY InvariantIsInductive DEF IInv
  <2>. USE DEF IInv, TypeOK, TaskType, DocStates
  <2>1. CASE UNCHANGED vars
    BY <2>1 DEF vars
  <2>2. ASSUME NEW r \in Requests, NEW kind \in Kinds, NEW l \in Langs,
               Arrive(r, kind, l) \/ NextPart(r, l)
        PROVE  \A q \in Requests : task'[q].kind = "check"
    BY <2>2 DEF Arrive, NextPart
  <2>5. ASSUME NEW r \in Requests, Enter(r) \/ CheckWithoutZones(r)
        PROVE  \A q \in Requests : task'[q].kind = "check"
    <3>1. CASE Enter(r)
      BY <3>1 DEF Enter
    <3>2. CASE CheckWithoutZones(r)
      BY <3>2 DEF CheckWithoutZones
    <3>. QED
      BY <2>5, <3>1, <3>2
  <2>6. ASSUME NEW r \in Requests, Answer(r)
        PROVE  \A q \in Requests : task'[q].kind = "check"
    BY <2>6 DEF Answer, Idle
  <2>3. ASSUME NEW r \in Requests, Session(r)
        PROVE  \A q \in Requests : task'[q].kind = "check"
    BY <2>3 DEF Session, Leave, SessionFails, Evict, Idle
  <2>4. ASSUME NEW r \in Requests, FetchTokens(r) \/ SetLemma(r) \/ ZonelessEnds(r)
        PROVE  \A q \in Requests : task'[q].kind = "check"
    BY <2>4 DEF FetchTokens, SetLemma, ZonelessEnds, Idle
  <2>. QED
    BY <2>1, <2>2, <2>3, <2>4, <2>5, <2>6 DEF Next
<1>3. Inv => NoDocOutlivesItsZone
  BY DEF IInv, SessionInv, NoDocOutlivesItsZone
<1>4. QED
  BY <1>1, <1>2, <1>3, TypeCorrect, PTL DEF Spec
=============================================================================
