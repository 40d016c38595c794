--------------------------- MODULE ApiKeys_proofs ---------------------------
(***************************************************************************)
(* Proofs about ApiKeys, for any keys, emails, configs, workers, clients   *)
(* and number of attempts.                                                 *)
(***************************************************************************)
EXTENDS ApiKeys, TLAPS

-----------------------------------------------------------------------------
(* The vocabulary of KeyFile. *)

\* A file lists keys, each with one email, and has one config per email.
LEMMA FileFacts ==
  ASSUME NEW f \in Files
  PROVE  /\ Listed(f) \subseteq Keys
         /\ f.owner \in [Listed(f) -> Emails]
         /\ f.config \in [Range(f.owner) -> Configs]
  <1>1. PICK o \in Owners : f \in [owner : {o}, config : [Range(o) -> Configs]]
    BY DEF Files
  <1>2. f.owner = o /\ f.config \in [Range(o) -> Configs]
    BY <1>1
  <1>3. PICK ks \in SUBSET Keys : o \in [ks -> Emails]
    BY DEF Owners
  <1>. QED
    BY <1>2, <1>3 DEF Listed

\* The file of an idle worker lists nothing.
LEMMA NoFileIsFile == NoFile \in Files
  <1>. DEFINE o == [k \in {} |-> NoEmail]
  <1>1. o \in [{} -> Emails]
    OBVIOUS
  <1>2. o \in Owners
    BY <1>1 DEF Owners
  <1>3. Range(o) = {}
    BY DEF Range
  <1>4. [e \in {} |-> NoConfig] \in [Range(o) -> Configs]
    BY <1>3
  <1>5. NoFile \in [owner : {o}, config : [Range(o) -> Configs]]
    BY <1>4 DEF NoFile
  <1>. QED
    BY <1>2, <1>5 DEF Files

\* Entry names, and that a written name tells which key it is of.
LEMMA NameFacts ==
  ASSUME NEW h \in BOOLEAN, NEW k \in Keys
  PROVE  /\ api_key_name(h, k) \in Names
         /\ PlainName(k) \in Names
         /\ api_key_name(h, k)[1] = k
         /\ PlainName(k)[1] = k
  BY DEF Names, api_key_name, PlainName

\* What a sync writes are entries of listed keys, and it keeps the store typed.
LEMMA AfterFacts ==
  ASSUME NEW h \in BOOLEAN, NEW f \in Files, NEW synced \in SUBSET Names,
         NEW store \in [Names -> EmailOrNone], NEW verdicts,
         DOMAIN verdicts = Listed(f)
  PROVE  /\ WrittenNames(h, verdicts) \in SUBSET Names
         /\ \A n \in WrittenNames(h, verdicts) :
              n[1] \in Listed(f) /\ f.owner[n[1]] \in Emails
         /\ Removed(h, synced, verdicts) \in SUBSET Names
         /\ StoreAfter(h, synced, verdicts, f, store) \in [Names -> EmailOrNone]
         /\ ConfigsAfter(f) \in [Emails -> ConfigOrNone]
  <1>1. Written(verdicts) \subseteq Listed(f) /\ Listed(f) \subseteq Keys
    BY FileFacts DEF Written
  <1>2. WrittenNames(h, verdicts) \in SUBSET Names
    BY <1>1, NameFacts DEF WrittenNames
  <1>3. ASSUME NEW n \in WrittenNames(h, verdicts)
        PROVE  n[1] \in Listed(f) /\ f.owner[n[1]] \in Emails
    BY <1>1, <1>3, FileFacts, NameFacts DEF WrittenNames
  <1>4. Removed(h, synced, verdicts) \in SUBSET Names
    BY <1>1, NameFacts DEF Removed
  <1>5. StoreAfter(h, synced, verdicts, f, store) \in [Names -> EmailOrNone]
    BY <1>3 DEF StoreAfter, EmailOrNone
  <1>6. ConfigsAfter(f) \in [Emails -> ConfigOrNone]
    BY FileFacts DEF ConfigsAfter, ConfigOrNone
  <1>. QED
    BY <1>2, <1>3, <1>4, <1>5, <1>6

-----------------------------------------------------------------------------
(* Type correctness. *)

LEMMA IdleTyped ==
  /\ IdleJob \in JobType
  /\ IdleClient \in ClientType
  BY NoFileIsFile, ApiKeysAssumption
     DEF IdleJob, JobType, IdleClient, ClientType, Nobody, EmailOrNone

\* Noticing a write only sets the WATCH mark.
LEMMA NoticeFacts ==
  ASSUME TypeOK, NEW w \in Workers, NEW names, NEW index \in BOOLEAN
  PROVE  /\ Notice(w, names, index) \in JobType
         /\ Notice(w, names, index).pc = job[w].pc
         /\ Notice(w, names, index).file = job[w].file
         /\ Notice(w, names, index).synced = job[w].synced
         /\ Notice(w, names, index).value = job[w].value
         /\ Notice(w, names, index).plain_value = job[w].plain_value
         /\ job[w].pc \in Watching /\ ~Notice(w, names, index).touched =>
              /\ ~job[w].touched
              /\ ~index
              /\ names \intersect Watched(hmac, job[w].file) = {}
  <1>1. job[w] \in JobType
    BY DEF TypeOK
  <1>. QED
    BY <1>1 DEF Notice, JobType

\* A start keeps the store typed.
LEMMA DefaultFacts ==
  ASSUME NEW h \in BOOLEAN, NEW store \in [Names -> EmailOrNone]
  PROVE  /\ WithDefaults(h, store) \in [Names -> EmailOrNone]
         /\ DefaultNames(h) \in SUBSET Names
  BY KeyStoreAssumption, NameFacts DEF WithDefaults, DefaultNames, EmailOrNone

LEMMA InitTyped == Init => TypeOK
  <1>. SUFFICES ASSUME Init PROVE TypeOK
    OBVIOUS
  <1>1. hmac \in BOOLEAN
    BY KeyStoreAssumption DEF Init, StoreInit
  <1>2. [n \in Names |-> NoEmail] \in [Names -> EmailOrNone]
    BY DEF EmailOrNone
  <1>3. api_key \in [Names -> EmailOrNone] /\ minted \in SUBSET Names
    BY <1>1, <1>2, DefaultFacts DEF Init, StoreInit
  <1>4. api_key_configs \in [Emails -> ConfigOrNone]
    BY DEF Init, StoreInit, ConfigOrNone
  <1>5. api_keys_synced \in SUBSET Names
    BY DEF Init, StoreInit
  <1>6. job \in [Workers -> JobType] /\ client \in [Clients -> ClientType]
    BY IdleTyped DEF Init
  <1>. QED
    BY <1>1, <1>3, <1>4, <1>5, <1>6 DEF TypeOK, StoreTypeOK

\* A step of a sync that only reads.
LEMMA StepTyped ==
  ASSUME TypeOK, NEW w \in Workers, NEW from, NEW to \in JobType, Step(w, from, to)
  PROVE  TypeOK'
  BY DEF TypeOK, StoreTypeOK, Step, storeVars

LEMMA ClientStepTyped ==
  ASSUME TypeOK, NEW c \in Clients, NEW from, NEW to \in ClientType, ClientStep(c, from, to)
  PROVE  TypeOK'
  BY DEF TypeOK, StoreTypeOK, ClientStep, storeVars

LEMMA JobsNoticeTyped ==
  ASSUME TypeOK, NEW names, JobsNotice(names)
  PROVE  job' \in [Workers -> JobType]
  BY NoticeFacts DEF JobsNotice

\* Minting, deleting and starting keep the store typed.
LEMMA StoreStepTyped ==
  ASSUME StoreTypeOK
  PROVE  /\ \A k \in Keys, e \in Emails : Mint(k, e) => StoreTypeOK'
         /\ \A n \in Names : Delete(n) => StoreTypeOK'
         /\ \A h \in BOOLEAN : Start(h) => StoreTypeOK'
  <1>1. ASSUME NEW k \in Keys, NEW e \in Emails, Mint(k, e)
        PROVE  StoreTypeOK'
    BY <1>1, NameFacts DEF StoreTypeOK, Mint, EmailOrNone
  <1>2. ASSUME NEW n \in Names, Delete(n)
        PROVE  StoreTypeOK'
    BY <1>2 DEF StoreTypeOK, Delete, EmailOrNone
  <1>3. ASSUME NEW h \in BOOLEAN, Start(h)
        PROVE  StoreTypeOK'
    BY <1>3, DefaultFacts DEF StoreTypeOK, Start
  <1>. QED
    BY <1>1, <1>2, <1>3

\* The steps in which a worker only reads lead to a well-typed job.
LEMMA ReadStepsTyped ==
  ASSUME TypeOK, NEW w \in Workers
  PROVE  /\ \A request \in Offered : PutApiKeys(w, request) => TypeOK'
         /\ Watch(w) \/ ReadSynced(w) \/ ReadNames(w) \/ ReadPlains(w)
              \/ Report(w) \/ Retry(w) \/ WorkerCrash(w) => TypeOK'
  <1>. USE DEF TypeOK, StoreTypeOK, JobType, Watching
  <1>1. job[w] \in JobType
    OBVIOUS
  <1>2. ASSUME NEW request \in Offered, PutApiKeys(w, request)
        PROVE  TypeOK'
    <2>1. [IdleJob EXCEPT !.pc = "watch", !.file = request.file,
                          !.dry_run = request.dry_run] \in JobType
      BY IdleTyped, ApiKeysAssumption
    <2>. QED
      BY <1>2, <2>1, StepTyped DEF PutApiKeys
  <1>3. CASE Watch(w)
    <2>1. [job[w] EXCEPT !.pc = "smembers", !.touched = FALSE] \in JobType
      BY <1>1
    <2>. QED
      BY <1>3, <2>1, StepTyped DEF Watch
  <1>4. CASE ReadSynced(w)
    <2>1. [job[w] EXCEPT !.pc = "mget_names", !.synced = api_keys_synced] \in JobType
      BY <1>1
    <2>. QED
      BY <1>4, <2>1, StepTyped DEF ReadSynced
  <1>5. CASE ReadNames(w)
    <2>. DEFINE value == [k \in Keys |-> IF k \in Listed(job[w].file)
                                        THEN api_key[api_key_name(hmac, k)] ELSE NoEmail]
    <2>1. value \in [Keys -> EmailOrNone]
      BY NameFacts DEF EmailOrNone
    <2>. HIDE DEF value
    <2>2. [job[w] EXCEPT !.pc = "mget_plains", !.value = value] \in JobType
      BY <1>1, <2>1
    <2>. QED
      BY <1>5, <2>2, StepTyped DEF ReadNames, value
  <1>6. CASE ReadPlains(w)
    <2>. DEFINE value == [k \in Keys |-> IF k \in Listed(job[w].file)
                                        THEN api_key[PlainName(k)] ELSE NoEmail]
    <2>1. value \in [Keys -> EmailOrNone]
      BY NameFacts DEF EmailOrNone
    <2>. HIDE DEF value
    <2>2. [job[w] EXCEPT !.pc = "decide", !.plain_value = value] \in JobType
      BY <1>1, <2>1
    <2>. QED
      BY <1>6, <2>2, StepTyped DEF ReadPlains, value
  <1>7. CASE Report(w)
    BY <1>7, IdleTyped, StepTyped DEF Report
  <1>8. CASE Retry(w)
    <2>1. job[w].tries + 1 < Attempts => job[w].tries + 1 \in 0 .. Attempts - 1
      BY <1>1, ApiKeysAssumption
    <2>2. ASSUME NEW tries \in 0 .. Attempts - 1
          PROVE  [IdleJob EXCEPT !.pc = "watch", !.file = job[w].file, !.tries = tries]
                   \in JobType
      BY <1>1, IdleTyped
    <2>. QED
      BY <1>8, <2>1, <2>2, IdleTyped, StepTyped DEF Retry
  <1>9. CASE WorkerCrash(w)
    BY <1>9, IdleTyped DEF WorkerCrash, storeVars
  <1>. QED
    BY <1>2, <1>3, <1>4, <1>5, <1>6, <1>7, <1>8, <1>9

LEMMA CommitTyped ==
  ASSUME TypeOK, NEW w \in Workers, Commit(w)
  PROVE  TypeOK'
  <1>1. job[w] \in JobType /\ job[w].file \in Files
    BY DEF TypeOK, JobType
  <1>2. DOMAIN Found(w) = Listed(job[w].file)
    BY DEF Found, Verdicts
  <1>3. StoreTypeOK'
    <2>. DEFINE verdicts == Found(w)
    <2>0. /\ hmac \in BOOLEAN /\ job[w].synced \in SUBSET Names
          /\ api_key \in [Names -> EmailOrNone] /\ DOMAIN verdicts = Listed(job[w].file)
      BY <1>1, <1>2 DEF TypeOK, StoreTypeOK, JobType
    <2>. HIDE DEF verdicts
    <2>1. /\ WrittenNames(hmac, verdicts) \in SUBSET Names
          /\ StoreAfter(hmac, job[w].synced, verdicts, job[w].file, api_key)
               \in [Names -> EmailOrNone]
          /\ ConfigsAfter(job[w].file) \in [Emails -> ConfigOrNone]
      BY <1>1, <2>0, AfterFacts
    <2>. QED
      BY <2>1 DEF Commit, TypeOK, StoreTypeOK, verdicts
  <1>4. job' \in [Workers -> JobType]
    BY IdleTyped, NoticeFacts DEF Commit
  <1>. QED
    BY <1>3, <1>4 DEF TypeOK, Commit

LEMMA ClientStepsTyped ==
  ASSUME TypeOK, NEW c \in Clients
  PROVE  /\ \A k \in Keys, e \in Emails : PostApiKey(c, k, e) => TypeOK'
         /\ \A k \in Keys : DeleteApiKey(c, k) => TypeOK'
         /\ \A k \in Keys, e \in Emails : CreateKey(c, k, e) => TypeOK'
         /\ DeletePlain(c) \/ CreateLookPlain(c) \/ CreateSet(c) => TypeOK'
  <1>. USE DEF TypeOK, ClientType
  <1>1. ASSUME NEW k \in Keys, NEW e \in Emails, PostApiKey(c, k, e)
        PROVE  TypeOK'
    BY <1>1, StoreStepTyped, JobsNoticeTyped DEF PostApiKey
  <1>2. ASSUME NEW k \in Keys, DeleteApiKey(c, k)
        PROVE  TypeOK'
    <2>1. StoreTypeOK'
      BY <1>2, StoreStepTyped, NameFacts DEF DeleteApiKey, StoreTypeOK
    <2>2. client' \in [Clients -> ClientType]
      BY <1>2 DEF DeleteApiKey
    <2>. QED
      BY <1>2, <2>1, <2>2, JobsNoticeTyped DEF DeleteApiKey
  <1>3. ASSUME NEW k \in Keys, NEW e \in Emails, CreateKey(c, k, e)
        PROVE  TypeOK'
    BY <1>3, ClientStepTyped DEF CreateKey
  <1>4. CASE DeletePlain(c)
    <2>1. client[c].key \in Keys
      BY <1>4 DEF DeletePlain, IdleClient
    <2>2. StoreTypeOK'
      BY <1>4, <2>1, StoreStepTyped, NameFacts DEF DeletePlain, StoreTypeOK
    <2>3. client' \in [Clients -> ClientType]
      BY <1>4 DEF DeletePlain
    <2>. QED
      BY <1>4, <2>2, <2>3, JobsNoticeTyped DEF DeletePlain
  <1>5. CASE CreateLookPlain(c)
    <2>1. client[c].pc = "create_get_plain" =>
            [client[c] EXCEPT !.pc = "create_set"] \in ClientType
      BY DEF IdleClient
    <2>. QED
      BY <1>5, <2>1, IdleTyped, ClientStepTyped DEF CreateLookPlain, ClientStep
  <1>6. CASE CreateSet(c)
    <2>1. client[c].key \in Keys /\ client[c].email \in Emails
      BY <1>6 DEF CreateSet, IdleClient
    <2>2. StoreTypeOK'
      BY <1>6, <2>1, StoreStepTyped DEF CreateSet
    <2>3. client' \in [Clients -> ClientType]
      BY <1>6 DEF CreateSet
    <2>. QED
      BY <1>6, <2>2, <2>3, JobsNoticeTyped DEF CreateSet
  <1>. QED
    BY <1>1, <1>2, <1>3, <1>4, <1>5, <1>6

LEMMA StartsTyped ==
  ASSUME TypeOK
  PROVE  /\ WorkerStart => TypeOK'
         /\ \A h \in BOOLEAN : Redeploy(h) => TypeOK'
  <1>1. CASE WorkerStart
    <2>1. StoreTypeOK'
      BY <1>1, StoreStepTyped DEF WorkerStart, TypeOK, StoreTypeOK
    <2>. QED
      BY <1>1, <2>1, JobsNoticeTyped DEF WorkerStart, TypeOK
  <1>2. ASSUME NEW h \in BOOLEAN, Redeploy(h)
        PROVE  TypeOK'
    BY <1>2, StoreStepTyped, IdleTyped DEF Redeploy, TypeOK
  <1>. QED
    BY <1>1, <1>2

\* Every reachable state is well typed: in particular no worker is ever on a
\* try beyond Attempts, and a client in the middle of a call knows its key.
THEOREM TypeCorrect == Spec => []TypeOK
  <1>1. Init => TypeOK
    BY InitTyped
  <1>2. TypeOK /\ [Next]_vars => TypeOK'
    <2>. SUFFICES ASSUME TypeOK, [Next]_vars PROVE TypeOK'
      OBVIOUS
    <2>1. ASSUME NEW w \in Workers, NEW request \in Offered, PutApiKeys(w, request)
          PROVE  TypeOK'
      BY <2>1, ReadStepsTyped
    <2>2. ASSUME NEW w \in Workers, WorkerNext(w) \/ WorkerCrash(w)
          PROVE  TypeOK'
      BY <2>2, ReadStepsTyped, CommitTyped DEF WorkerNext
    <2>3. ASSUME NEW c \in Clients, NEW k \in Keys,
                 \/ DeleteApiKey(c, k)
                 \/ \E e \in Emails : PostApiKey(c, k, e) \/ CreateKey(c, k, e)
          PROVE  TypeOK'
      BY <2>3, ClientStepsTyped
    <2>4. ASSUME NEW c \in Clients, DeletePlain(c) \/ CreateLookPlain(c) \/ CreateSet(c)
          PROVE  TypeOK'
      BY <2>4, ClientStepsTyped
    <2>5. CASE WorkerStart \/ \E h \in BOOLEAN : Redeploy(h)
      BY <2>5, StartsTyped
    <2>6. CASE UNCHANGED vars
      BY <2>6 DEF vars, storeVars, TypeOK, StoreTypeOK
    <2>. QED
      BY <2>1, <2>2, <2>3, <2>4, <2>5, <2>6 DEF Next
  <1>. QED
    BY <1>1, <1>2, PTL DEF Spec

-----------------------------------------------------------------------------
(* The optimistic transaction. *)

IInv == TypeOK /\ ReadsHold

\* The same of one worker's job, in a given store.
JobReads(j, h, store, synced) ==
  j.pc \in Watching /\ ~j.touched =>
    /\ j.pc # "smembers" => j.synced = synced
    /\ j.pc \in {"mget_plains", "decide"} =>
         \A k \in Listed(j.file) : j.value[k] = store[api_key_name(h, k)]
    /\ j.pc = "decide" =>
         \A k \in Listed(j.file) : j.plain_value[k] = store[PlainName(k)]

LEMMA ReadsHoldByJob ==
  ReadsHold <=> \A w \in Workers : JobReads(job[w], hmac, api_key, api_keys_synced)
  BY DEF ReadsHold, JobReads

\* A write that marks every watcher of what it changes leaves the others' reads valid.
LEMMA NoticeKeepsReads ==
  ASSUME TypeOK, NEW w \in Workers, NEW names, NEW index \in BOOLEAN,
         JobReads(job[w], hmac, api_key, api_keys_synced),
         hmac' = hmac,
         \A n \in Names : n \notin names => api_key'[n] = api_key[n],
         ~index => api_keys_synced' = api_keys_synced
  PROVE  JobReads(Notice(w, names, index), hmac', api_key', api_keys_synced')
  <1>. DEFINE j == Notice(w, names, index)
  <1>1. CASE j.pc \in Watching /\ ~j.touched
    <2>1. /\ j.pc = job[w].pc /\ j.file = job[w].file /\ j.synced = job[w].synced
          /\ j.value = job[w].value /\ j.plain_value = job[w].plain_value
          /\ ~job[w].touched /\ ~index
          /\ names \intersect Watched(hmac, job[w].file) = {}
      BY <1>1, NoticeFacts
    <2>2. ASSUME NEW k \in Listed(job[w].file)
          PROVE  /\ api_key'[api_key_name(hmac, k)] = api_key[api_key_name(hmac, k)]
                 /\ api_key'[PlainName(k)] = api_key[PlainName(k)]
      <3>1. k \in Keys
        BY FileFacts DEF TypeOK, JobType
      <3>2. /\ api_key_name(hmac, k) \in Watched(hmac, job[w].file)
            /\ PlainName(k) \in Watched(hmac, job[w].file)
        BY DEF Watched
      <3>. QED
        BY <2>1, <3>1, <3>2, NameFacts DEF TypeOK, StoreTypeOK
    <2>. QED
      BY <1>1, <2>1, <2>2 DEF JobReads
  <1>2. CASE ~(j.pc \in Watching /\ ~j.touched)
    BY <1>2 DEF JobReads
  <1>. QED
    BY <1>1, <1>2

\* The writes of everybody but a sync: jobs only notice them.
LEMMA JobsNoticeReads ==
  ASSUME IInv, NEW names, JobsNotice(names), hmac' = hmac,
         \A n \in Names : n \notin names => api_key'[n] = api_key[n],
         api_keys_synced' = api_keys_synced
  PROVE  ReadsHold'
  <1>1. ASSUME NEW w \in Workers
        PROVE  JobReads(job'[w], hmac', api_key', api_keys_synced')
    <2>1. JobReads(job[w], hmac, api_key, api_keys_synced)
      BY ReadsHoldByJob DEF IInv
    <2>2. job'[w] = Notice(w, names, FALSE)
      BY DEF JobsNotice
    <2>. QED
      BY <2>1, <2>2, NoticeKeepsReads DEF IInv
  <1>. QED
    BY <1>1 DEF ReadsHold, JobReads

\* A worker's own step, when the store does not change.
LEMMA StepReads ==
  ASSUME IInv, NEW w \in Workers, UNCHANGED storeVars,
         NEW to, job' = [job EXCEPT ![w] = to],
         JobReads(to, hmac, api_key, api_keys_synced)
  PROVE  ReadsHold'
  <1>1. ASSUME NEW v \in Workers
        PROVE  JobReads(job'[v], hmac, api_key, api_keys_synced)
    BY ReadsHoldByJob DEF IInv, TypeOK
  <1>. QED
    BY <1>1 DEF ReadsHold, JobReads, storeVars

LEMMA IdleReads ==
  ASSUME NEW j, j.pc \notin Watching
  PROVE  JobReads(j, hmac, api_key, api_keys_synced)
  BY DEF JobReads

LEMMA WorkerStepReads ==
  ASSUME IInv, NEW w \in Workers
  PROVE  /\ \A request \in Offered : PutApiKeys(w, request) => ReadsHold'
         /\ Watch(w) \/ ReadSynced(w) \/ ReadNames(w) \/ ReadPlains(w)
              \/ Report(w) \/ Retry(w) \/ WorkerCrash(w) => ReadsHold'
  <1>. USE DEF Step
  <1>. DEFINE Reads(j) == JobReads(j, hmac, api_key, api_keys_synced)
  <1>1. job[w] \in JobType /\ Reads(job[w]) /\ job[w].file \in Files
    BY ReadsHoldByJob DEF IInv, TypeOK, JobType
  <1>2. IdleJob.pc = "idle"
    BY DEF IdleJob
  <1>3. ASSUME NEW request \in Offered, PutApiKeys(w, request)
        PROVE  ReadsHold'
    <2>1. [IdleJob EXCEPT !.pc = "watch", !.file = request.file,
                          !.dry_run = request.dry_run].pc = "watch"
      BY DEF IdleJob
    <2>. QED
      BY <1>3, <2>1, IdleReads, StepReads DEF PutApiKeys, Watching
  <1>4. CASE Watch(w)
    <2>. DEFINE to == [job[w] EXCEPT !.pc = "smembers", !.touched = FALSE]
    <2>1. to.pc = "smembers"
      BY <1>1 DEF JobType
    <2>2. Reads(to)
      BY <2>1 DEF JobReads
    <2>. QED
      BY <1>4, <2>2, StepReads DEF Watch
  <1>5. CASE ReadSynced(w)
    <2>. DEFINE to == [job[w] EXCEPT !.pc = "mget_names", !.synced = api_keys_synced]
    <2>1. to.pc = "mget_names" /\ to.synced = api_keys_synced
      BY <1>1 DEF JobType
    <2>2. Reads(to)
      BY <2>1 DEF JobReads
    <2>. QED
      BY <1>5, <2>2, StepReads DEF ReadSynced
  <1>6. CASE ReadNames(w)
    <2>. DEFINE value == [k \in Keys |-> IF k \in Listed(job[w].file)
                                        THEN api_key[api_key_name(hmac, k)] ELSE NoEmail]
                to == [job[w] EXCEPT !.pc = "mget_plains", !.value = value]
    <2>1. /\ to.pc = "mget_plains" /\ to.value = value /\ to.file = job[w].file
          /\ to.synced = job[w].synced /\ to.touched = job[w].touched
      BY <1>1 DEF JobType
    <2>2. \A k \in Listed(job[w].file) : value[k] = api_key[api_key_name(hmac, k)]
      BY <1>1, FileFacts
    <2>3. ~job[w].touched => job[w].synced = api_keys_synced
      BY <1>1, <1>6 DEF JobReads, ReadNames, Watching
    <2>. HIDE DEF value, to
    <2>4. Reads(to)
      BY <2>1, <2>2, <2>3 DEF JobReads
    <2>. QED
      BY <1>6, <2>4, StepReads DEF ReadNames, to, value
  <1>7. CASE ReadPlains(w)
    <2>. DEFINE value == [k \in Keys |-> IF k \in Listed(job[w].file)
                                        THEN api_key[PlainName(k)] ELSE NoEmail]
                to == [job[w] EXCEPT !.pc = "decide", !.plain_value = value]
    <2>1. /\ to.pc = "decide" /\ to.plain_value = value /\ to.file = job[w].file
          /\ to.synced = job[w].synced /\ to.touched = job[w].touched
          /\ to.value = job[w].value
      BY <1>1 DEF JobType
    <2>2. \A k \in Listed(job[w].file) : value[k] = api_key[PlainName(k)]
      BY <1>1, FileFacts
    <2>3. ~job[w].touched =>
            /\ job[w].synced = api_keys_synced
            /\ \A k \in Listed(job[w].file) :
                 job[w].value[k] = api_key[api_key_name(hmac, k)]
      BY <1>1, <1>7 DEF JobReads, ReadPlains, Watching
    <2>. HIDE DEF value, to
    <2>4. Reads(to)
      BY <2>1, <2>2, <2>3 DEF JobReads
    <2>. QED
      BY <1>7, <2>4, StepReads DEF ReadPlains, to, value
  <1>8. CASE Report(w) \/ WorkerCrash(w)
    BY <1>2, <1>8, IdleReads, StepReads DEF Report, WorkerCrash, Watching
  <1>9. CASE Retry(w)
    <2>1. [IdleJob EXCEPT !.pc = "watch", !.file = job[w].file,
                          !.tries = job[w].tries + 1].pc = "watch"
      BY DEF IdleJob
    <2>. QED
      BY <1>2, <1>9, <2>1, IdleReads, StepReads DEF Retry, Watching
  <1>. QED
    BY <1>3, <1>4, <1>5, <1>6, <1>7, <1>8, <1>9

\* What a committing sync decided on is what Redis holds.
LEMMA FoundIsCurrent ==
  ASSUME IInv, NEW w \in Workers, job[w].pc = "decide", ~job[w].touched
  PROVE  /\ job[w].synced = api_keys_synced
         /\ Found(w) = VerdictsIn(hmac, api_key, api_keys_synced, job[w].file)
  <1>1. /\ job[w].synced = api_keys_synced
        /\ \A k \in Listed(job[w].file) :
             /\ job[w].value[k] = api_key[api_key_name(hmac, k)]
             /\ job[w].plain_value[k] = api_key[PlainName(k)]
    BY DEF IInv, ReadsHold, Watching
  <1>. QED
    BY <1>1 DEF Found, VerdictsIn, Verdicts

\* A commit is the indivisible sync of KeyStore.
LEMMA CommitIsSync ==
  ASSUME IInv, NEW w \in Workers, Commit(w)
  PROVE  job[w].file \in Files /\ Sync(job[w].file)
  <1>1. job[w].file \in Files
    BY DEF IInv, TypeOK, JobType
  <1>2. /\ job[w].synced = api_keys_synced
        /\ Found(w) = VerdictsIn(hmac, api_key, api_keys_synced, job[w].file)
    BY FoundIsCurrent DEF Commit
  <1>. QED
    BY <1>1, <1>2 DEF Commit, Sync

\* The other syncs notice a commit.
LEMMA CommitReads ==
  ASSUME IInv, NEW w \in Workers, Commit(w)
  PROVE  ReadsHold'
  <1>. DEFINE verdicts == Found(w)
              removed == Removed(hmac, job[w].synced, verdicts)
              written == WrittenNames(hmac, verdicts)
              names == written \union {n \in removed : api_key[n] # NoEmail}
              index == api_keys_synced # {} \/ written # {}
  <1>1. \A n \in Names : n \notin names => api_key'[n] = api_key[n]
    BY DEF Commit, StoreAfter
  <1>2. hmac' = hmac /\ (~index => api_keys_synced' = api_keys_synced)
    BY DEF Commit
  <1>3. ASSUME NEW v \in Workers
        PROVE  JobReads(job'[v], hmac', api_key', api_keys_synced')
    <2>1. CASE v = w
      BY <2>1 DEF Commit, JobReads, IdleJob, Watching
    <2>2. CASE v # w
      <3>1. job'[v] = Notice(v, names, index)
        BY <2>2 DEF Commit
      <3>2. JobReads(job[v], hmac, api_key, api_keys_synced) /\ index \in BOOLEAN
        BY ReadsHoldByJob DEF IInv
      <3>. HIDE DEF names, index
      <3>. QED
        BY <1>1, <1>2, <3>1, <3>2, NoticeKeepsReads DEF IInv
    <2>. QED
      BY <2>1, <2>2
  <1>. QED
    BY <1>3 DEF ReadsHold, JobReads

\* Clients and starts: every entry they write is one the watchers notice.
LEMMA ClientStepReads ==
  ASSUME IInv, NEW c \in Clients
  PROVE  /\ \A k \in Keys, e \in Emails :
              PostApiKey(c, k, e) \/ CreateKey(c, k, e) => ReadsHold'
         /\ \A k \in Keys : DeleteApiKey(c, k) => ReadsHold'
         /\ DeletePlain(c) \/ CreateLookPlain(c) \/ CreateSet(c) => ReadsHold'
  <1>. USE DEF IInv, TypeOK, StoreTypeOK
  <1>1. ASSUME NEW k, NEW e, Mint(k, e), JobsNotice({api_key_name(hmac, k)})
        PROVE  ReadsHold'
    BY <1>1, JobsNoticeReads DEF Mint
  <1>2. ASSUME NEW n, Delete(n), JobsNotice(IF api_key[n] # NoEmail THEN {n} ELSE {})
        PROVE  ReadsHold'
    <2>. DEFINE names == IF api_key[n] # NoEmail THEN {n} ELSE {}
    <2>1. \A m \in Names : m \notin names => api_key'[m] = api_key[m]
      BY <1>2 DEF Delete
    <2>. HIDE DEF names
    <2>. QED
      BY <1>2, <2>1, JobsNoticeReads DEF Delete, names
  <1>3. ASSUME NEW from, NEW to, ClientStep(c, from, to)
        PROVE  ReadsHold'
    BY <1>3 DEF ClientStep, storeVars, ReadsHold
  <1>. QED
    BY <1>1, <1>2, <1>3
       DEF PostApiKey, CreateKey, DeleteApiKey, DeletePlain, CreateLookPlain, CreateSet

LEMMA StartReads ==
  ASSUME IInv
  PROVE  /\ WorkerStart => ReadsHold'
         /\ \A h \in BOOLEAN : Redeploy(h) => ReadsHold'
  <1>1. CASE WorkerStart
    <2>1. \A n \in Names : n \notin DefaultNames(hmac) => api_key'[n] = api_key[n]
      BY <1>1 DEF WorkerStart, Start, WithDefaults, DefaultNames
    <2>. QED
      BY <1>1, <2>1, JobsNoticeReads DEF WorkerStart, Start
  <1>2. ASSUME NEW h \in BOOLEAN, Redeploy(h)
        PROVE  ReadsHold'
    BY <1>2 DEF Redeploy, ReadsHold, IdleJob, Watching
  <1>. QED
    BY <1>1, <1>2

\* One attempt's three reads are one consistent view while nothing it watches is
\* written: the fact that makes a commit decided on current values.
THEOREM ReadsAreCurrent == Spec => [](TypeOK /\ ReadsHold)
  <1>1. Init => ReadsHold
    BY DEF Init, ReadsHold, IdleJob, Watching
  <1>2. IInv /\ [Next]_vars => ReadsHold'
    <2>. SUFFICES ASSUME IInv, [Next]_vars PROVE ReadsHold'
      OBVIOUS
    <2>1. ASSUME NEW w \in Workers, NEW request \in Offered, PutApiKeys(w, request)
          PROVE  ReadsHold'
      BY <2>1, WorkerStepReads
    <2>2. ASSUME NEW w \in Workers, WorkerNext(w) \/ WorkerCrash(w)
          PROVE  ReadsHold'
      BY <2>2, WorkerStepReads, CommitReads DEF WorkerNext
    <2>3. ASSUME NEW c \in Clients, NEW k \in Keys,
                 \/ DeleteApiKey(c, k)
                 \/ \E e \in Emails : PostApiKey(c, k, e) \/ CreateKey(c, k, e)
          PROVE  ReadsHold'
      BY <2>3, ClientStepReads
    <2>4. ASSUME NEW c \in Clients, DeletePlain(c) \/ CreateLookPlain(c) \/ CreateSet(c)
          PROVE  ReadsHold'
      BY <2>4, ClientStepReads
    <2>5. CASE WorkerStart \/ \E h \in BOOLEAN : Redeploy(h)
      BY <2>5, StartReads
    <2>6. CASE UNCHANGED vars
      BY <2>6 DEF vars, storeVars, ReadsHold, IInv
    <2>. QED
      BY <2>1, <2>2, <2>3, <2>4, <2>5, <2>6 DEF Next
  <1>. QED
    BY <1>1, <1>2, TypeCorrect, PTL DEF Spec, IInv

-----------------------------------------------------------------------------
(* Refinement: the workers' syncs are indivisible. *)

LEMMA StepIsStoreStep ==
  ASSUME IInv, [Next]_vars
  PROVE  [StoreNext]_storeVars
  <1>. USE DEF StoreNext
  <1>1. ASSUME NEW w \in Workers, WorkerNext(w)
        PROVE  [StoreNext]_storeVars
    BY <1>1, CommitIsSync
       DEF WorkerNext, Watch, ReadSynced, ReadNames, ReadPlains, Report, Retry, Step
  <1>2. ASSUME NEW w \in Workers,
               WorkerCrash(w) \/ \E request \in Offered : PutApiKeys(w, request)
        PROVE  UNCHANGED storeVars
    BY <1>2 DEF WorkerCrash, PutApiKeys, Step
  <1>3. ASSUME NEW c \in Clients, NEW k \in Keys,
               \/ DeleteApiKey(c, k)
               \/ \E e \in Emails : PostApiKey(c, k, e) \/ CreateKey(c, k, e)
        PROVE  [StoreNext]_storeVars
    <2>1. api_key_name(hmac, k) \in Names
      BY NameFacts DEF IInv, TypeOK, StoreTypeOK
    <2>. QED
      BY <1>3, <2>1 DEF DeleteApiKey, PostApiKey, CreateKey, ClientStep
  <1>4. ASSUME NEW c \in Clients, DeletePlain(c) \/ CreateLookPlain(c) \/ CreateSet(c)
        PROVE  [StoreNext]_storeVars
    <2>1. client[c] \in ClientType
      BY DEF IInv, TypeOK
    <2>2. CASE DeletePlain(c)
      <3>1. client[c].key \in Keys
        BY <2>1, <2>2 DEF DeletePlain, ClientType, IdleClient
      <3>. QED
        BY <2>2, <3>1, NameFacts DEF DeletePlain, IInv, TypeOK, StoreTypeOK
    <2>3. CASE CreateSet(c)
      BY <2>1, <2>3 DEF CreateSet, ClientType, IdleClient
    <2>4. CASE CreateLookPlain(c)
      BY <2>4 DEF CreateLookPlain, ClientStep
    <2>. QED
      BY <1>4, <2>2, <2>3, <2>4
  <1>5. CASE WorkerStart \/ \E h \in BOOLEAN : Redeploy(h)
    BY <1>5 DEF WorkerStart, Redeploy, IInv, TypeOK, StoreTypeOK
  <1>6. CASE UNCHANGED vars
    BY <1>6 DEF vars
  <1>. QED
    BY <1>1, <1>2, <1>3, <1>4, <1>5, <1>6 DEF Next

\* Whatever interleaves with its reads, a sync that commits does what KeyStore's
\* indivisible Sync does: app/api_keys.py:235, "one watched transaction".
THEOREM SyncIsAtomic == Spec => Atomic
  <1>1. Init => StoreInit
    BY DEF Init
  <1>2. IInv /\ [Next]_vars => [StoreNext]_storeVars
    BY StepIsStoreStep
  <1>. QED
    BY <1>1, <1>2, ReadsAreCurrent, PTL DEF Spec, Atomic, StoreSpec, IInv

-----------------------------------------------------------------------------
(* What holds of the store. *)

LEMMA SyncKeepsIndex ==
  ASSUME StoreTypeOK, NoOrphanedKey, NEW f \in Files, Sync(f)
  PROVE  NoOrphanedKey' /\ SyncedUserHasConfig'
  <1>. DEFINE verdicts == VerdictsIn(hmac, api_key, api_keys_synced, f)
              written == WrittenNames(hmac, verdicts)
              removed == Removed(hmac, api_keys_synced, verdicts)
  <1>1. DOMAIN verdicts = Listed(f)
    BY DEF VerdictsIn, Verdicts
  <1>2. /\ api_key' = StoreAfter(hmac, api_keys_synced, verdicts, f, api_key)
        /\ api_keys_synced' = written /\ minted' = minted \ (written \union removed)
        /\ api_key_configs' = ConfigsAfter(f)
    BY DEF Sync
  <1>3. /\ written \in SUBSET Names
        /\ \A n \in written : n[1] \in Listed(f) /\ f.owner[n[1]] \in Emails
    <2>. HIDE DEF verdicts
    <2>. QED
      BY <1>1, AfterFacts DEF StoreTypeOK
  <1>4. NoOrphanedKey'
    <2>. SUFFICES ASSUME NEW n \in Names, api_key'[n] # NoEmail, n \notin minted'
                  PROVE  n \in written
      BY <1>2 DEF NoOrphanedKey
    <2>. SUFFICES ASSUME n \notin written PROVE FALSE
      OBVIOUS
    <2>1. n \notin removed /\ api_key'[n] = api_key[n]
      BY <1>2 DEF StoreAfter
    <2>2. n \in api_keys_synced
      BY <1>2, <2>1 DEF NoOrphanedKey
    <2>. QED
      BY <2>1, <2>2 DEF Removed
  <1>5. SyncedUserHasConfig'
    <2>. SUFFICES ASSUME NEW n \in written
                  PROVE  api_key_configs'[api_key'[n]] # NoConfig
      BY <1>2 DEF SyncedUserHasConfig
    <2>1. api_key'[n] = f.owner[n[1]]
      BY <1>2, <1>3 DEF StoreAfter
    <2>2. f.owner[n[1]] \in Emails /\ f.owner[n[1]] \in Range(f.owner)
      BY <1>3, FileFacts DEF Range, Listed
    <2>3. f.config[f.owner[n[1]]] \in Configs
      BY <2>2, FileFacts
    <2>. QED
      BY <1>2, <2>1, <2>2, <2>3, KeyFileAssumption DEF ConfigsAfter
  <1>. QED
    BY <1>4, <1>5

LEMMA StoreKeepsIndex ==
  ASSUME StoreTypeOK, NoOrphanedKey, SyncedUserHasConfig, [StoreNext]_storeVars
  PROVE  NoOrphanedKey' /\ SyncedUserHasConfig'
  <1>. USE DEF StoreTypeOK, NoOrphanedKey, SyncedUserHasConfig
  <1>1. ASSUME NEW k \in Keys, NEW e \in Emails, Mint(k, e)
        PROVE  NoOrphanedKey' /\ SyncedUserHasConfig'
    BY <1>1 DEF Mint
  <1>2. ASSUME NEW n \in Names, Delete(n)
        PROVE  NoOrphanedKey' /\ SyncedUserHasConfig'
    BY <1>2 DEF Delete
  <1>3. ASSUME NEW h \in BOOLEAN, Start(h)
        PROVE  NoOrphanedKey' /\ SyncedUserHasConfig'
    BY <1>3 DEF Start, WithDefaults, DefaultNames
  <1>4. CASE UNCHANGED storeVars
    BY <1>4 DEF storeVars
  <1>. QED
    BY <1>1, <1>2, <1>3, <1>4, SyncKeepsIndex DEF StoreNext

\* SYNCED_KEYS and KEY_CONFIGS never lose track of a key a sync wrote, whatever
\* syncs, mintings, deletions and restarts interleave.
THEOREM IndexIsComplete == Spec => [](NoOrphanedKey /\ SyncedUserHasConfig)
  <1>1. Init => NoOrphanedKey /\ SyncedUserHasConfig
    BY DEF Init, StoreInit, NoOrphanedKey, SyncedUserHasConfig, WithDefaults, DefaultNames
  <1>2. IInv /\ NoOrphanedKey /\ SyncedUserHasConfig /\ [Next]_vars
          => (NoOrphanedKey /\ SyncedUserHasConfig)'
    BY StepIsStoreStep, StoreKeepsIndex DEF IInv, TypeOK
  <1>. QED
    BY <1>1, <1>2, ReadsAreCurrent, PTL DEF Spec, IInv

\* A key that resolves and is on no list of a sync is not one it writes.
LEMMA UnsyncedNotWritten ==
  ASSUME StoreTypeOK, NEW f \in Files, NEW k \in Keys, Unsynced(k), Resolves(k) # NoEmail
  PROVE  k \notin Written(VerdictsIn(hmac, api_key, api_keys_synced, f))
  <1>. SUFFICES ASSUME k \in Listed(f)
                PROVE  VerdictsIn(hmac, api_key, api_keys_synced, f)[k]
                         \in {"conflict", "unmanaged"}
    BY DEF Written, VerdictsIn, Verdicts
  <1>1. api_key_name(hmac, k) \notin api_keys_synced
    BY DEF Unsynced, api_key_name, PlainName
  <1>2. Current(api_key[api_key_name(hmac, k)], api_key[PlainName(k)]) # NoEmail
    BY DEF Resolves, get_api_key_email, Current, api_key_name, StoreTypeOK
  <1>. QED
    BY <1>1, <1>2 DEF VerdictsIn, Verdicts, Verdict

\* A sync leaves a key it never wrote as it resolves (app/api_keys.py:16), also
\* one that was minted while the sync was reading.
THEOREM MintedKeysStay == Spec => MintedKeysLeftAlone
  <1>. DEFINE Kept(w, k) == Commit(w) /\ Unsynced(k) =>
                get_api_key_email(hmac', api_key', k) = Resolves(k) \/ Resolves(k) = NoEmail
  <1>1. ASSUME IInv, NEW w \in Workers, NEW k \in Keys
        PROVE  Kept(w, k)
    <2>. SUFFICES ASSUME Commit(w), Unsynced(k), Resolves(k) # NoEmail
                  PROVE  get_api_key_email(hmac', api_key', k) = Resolves(k)
      OBVIOUS
    <2>. DEFINE f == job[w].file
                verdicts == VerdictsIn(hmac, api_key, api_keys_synced, f)
                written == WrittenNames(hmac, verdicts)
                removed == Removed(hmac, api_keys_synced, verdicts)
    <2>1. f \in Files /\ Sync(f) /\ StoreTypeOK
      <3>1. f \in Files /\ Sync(f)
        BY <1>1, CommitIsSync
      <3>. QED
        BY <1>1, <3>1 DEF IInv, TypeOK
    <2>2. k \notin Written(verdicts)
      BY <2>1, UnsyncedNotWritten
    <2>3. Written(verdicts) \subseteq Keys
      <3>1. Written(verdicts) \subseteq Listed(f)
        BY DEF Written, VerdictsIn, Verdicts
      <3>. QED
        BY <2>1, <3>1, FileFacts
    <2>4. ASSUME NEW n \in {api_key_name(hmac, k), PlainName(k)}
          PROVE  api_key'[n] = api_key[n]
      <3>1. n \in Names /\ n[1] = k /\ n \notin api_keys_synced
        BY <2>1, NameFacts DEF StoreTypeOK, Unsynced, api_key_name, PlainName
      <3>2. n \notin written
        BY <2>1, <2>2, <2>3, <3>1, NameFacts DEF WrittenNames, StoreTypeOK
      <3>3. n \notin removed
        BY <2>1, <2>2, <2>3, <3>1, NameFacts DEF Removed, StoreTypeOK
      <3>. QED
        BY <2>1, <3>1, <3>2, <3>3 DEF Sync, StoreAfter
    <2>. QED
      BY <2>1, <2>4 DEF Sync, Resolves, get_api_key_email
  <1>2. IInv => [\A w \in Workers :
                  Commit(w) => \A k \in Keys :
                      Unsynced(k) => get_api_key_email(hmac', api_key', k) = Resolves(k)
                                       \/ Resolves(k) = NoEmail]_vars
    BY <1>1
  <1>. QED
    BY <1>2, ReadsAreCurrent, PTL DEF MintedKeysLeftAlone, IInv

-----------------------------------------------------------------------------
\* A listed key that a sync does not write is one that resolves to its owner already.
LEMMA NotWrittenIsUnmanaged ==
  ASSUME StoreTypeOK, NEW f \in Files, NEW k \in Listed(f),
         ~HasConflict(VerdictsIn(hmac, api_key, api_keys_synced, f)),
         k \notin Written(VerdictsIn(hmac, api_key, api_keys_synced, f))
  PROVE  /\ api_key_name(hmac, k) \notin api_keys_synced
         /\ Current(api_key[api_key_name(hmac, k)], api_key[PlainName(k)]) = f.owner[k]
  <1>. DEFINE verdicts == VerdictsIn(hmac, api_key, api_keys_synced, f)
              current == Current(api_key[api_key_name(hmac, k)], api_key[PlainName(k)])
  <1>1. DOMAIN verdicts = Listed(f)
    BY DEF VerdictsIn, Verdicts
  <1>2. verdicts[k] = Verdict(api_key_name(hmac, k), api_keys_synced, current, f.owner[k])
    BY DEF VerdictsIn, Verdicts
  <1>3. verdicts[k] \notin {"conflict", "added", "moved", "unchanged"}
    BY <1>1 DEF HasConflict, Written
  <1>. HIDE DEF verdicts, current
  <1>4. api_key_name(hmac, k) \notin api_keys_synced /\ current = f.owner[k]
    BY <1>2, <1>3 DEF Verdict
  <1>. QED
    BY <1>4 DEF current

\* A sync makes the server match the file, but for the verbatim entries of the sync
\* before API_KEY_HMAC_KEY was set (app/api_keys.py:235).
THEOREM ListedKeysAreServed == Spec => ListedKeysResolve
  <1>1. ASSUME IInv, NEW w \in Workers, Commit(w), ~RolledOut,
               NEW k \in Listed(job[w].file)
        PROVE  get_api_key_email(hmac', api_key', k) = job[w].file.owner[k]
    <2>. DEFINE f == job[w].file
                verdicts == VerdictsIn(hmac, api_key, api_keys_synced, f)
                written == WrittenNames(hmac, verdicts)
                removed == Removed(hmac, api_keys_synced, verdicts)
                name == api_key_name(hmac, k)
                plain == PlainName(k)
    <2>1. f \in Files /\ Sync(f) /\ StoreTypeOK
      <3>1. f \in Files /\ Sync(f)
        BY <1>1, CommitIsSync
      <3>. QED
        BY <1>1, <3>1 DEF IInv, TypeOK
    <2>2. /\ f.owner[k] \in Emails /\ Listed(f) \subseteq Keys
          /\ NoEmail \notin Emails
      BY <2>1, FileFacts, KeyFileAssumption
    <2>3. Written(verdicts) \subseteq Keys
      <3>1. Written(verdicts) \subseteq Listed(f)
        BY DEF Written, VerdictsIn, Verdicts
      <3>. QED
        BY <2>2, <3>1
    <2>4. /\ hmac' = hmac /\ hmac \in BOOLEAN
          /\ api_key' = StoreAfter(hmac, api_keys_synced, verdicts, f, api_key)
      BY <2>1 DEF Sync, StoreTypeOK
    <2>5. name \in Names /\ plain \in Names /\ name[1] = k /\ (~hmac => plain = name)
      BY <2>2, <2>4, NameFacts DEF api_key_name
    <2>6. CASE k \in Written(verdicts)
      <3>1. name \in written
        BY <2>6 DEF WrittenNames
      <3>2. api_key'[name] = f.owner[k]
        BY <2>4, <2>5, <3>1 DEF StoreAfter
      <3>. QED
        BY <2>2, <2>4, <2>5, <3>2 DEF get_api_key_email
    <2>7. CASE k \notin Written(verdicts)
      <3>1. /\ name \notin api_keys_synced
            /\ Current(api_key[name], api_key[plain]) = f.owner[k]
        BY <2>1, <2>7, NotWrittenIsUnmanaged DEF Sync
      <3>2. plain \notin api_keys_synced
        BY <1>1, <2>5, <3>1 DEF RolledOut, PlainName
      <3>3. name \notin written /\ plain \notin written
        BY <2>2, <2>3, <2>4, <2>7, NameFacts DEF WrittenNames
      <3>4. name \notin removed /\ plain \notin removed
        BY <2>2, <2>3, <2>4, <2>7, <3>1, <3>2, NameFacts DEF Removed
      <3>5. api_key'[name] = api_key[name] /\ api_key'[plain] = api_key[plain]
        BY <2>4, <2>5, <3>3, <3>4 DEF StoreAfter
      <3>. QED
        BY <2>2, <2>4, <2>5, <3>1, <3>5 DEF get_api_key_email, Current
    <2>. QED
      BY <2>6, <2>7
  <1>2. IInv => [\A w \in Workers :
                   Commit(w) /\ ~RolledOut =>
                     \A k \in Listed(job[w].file) :
                       get_api_key_email(hmac', api_key', k) = job[w].file.owner[k]]_vars
    BY <1>1
  <1>. QED
    BY <1>2, ReadsAreCurrent, PTL DEF ListedKeysResolve, IInv
=============================================================================
