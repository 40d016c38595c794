------------------------------ MODULE LlmCalls ------------------------------
(***************************************************************************)
(* The calls to the language model of /v1.0/rephrase and /v1.0/write       *)
(* (app/prompt.py and the routes that use it): a budget per wall-clock     *)
(* minute counted in the shared Redis, a semaphore of slots per worker     *)
(* process, and a timeout both on the wait for a slot and on the call.     *)
(*                                                                         *)
(* Time is in ticks.  Nothing is counted from an origin: budgets go by how *)
(* many minutes ago theirs began, so the states are finitely many.         *)
(***************************************************************************)
EXTENDS Naturals, FiniteSets, FiniteSetsExt

CONSTANTS
  Workers,         \* server processes, each with its own slots
  Requests,        \* the requests that may be in progress at once
  Nowhere,         \* no worker: a request not being handled
  Limit,           \* LLM_MAX_REQUESTS_PER_MINUTE, 0 for none
  MaxConcurrency,  \* LLM_MAX_CONCURRENCY (0, no semaphore, is not modelled)
  Timeout,         \* LLM_TIMEOUT, in ticks
  PerMinute        \* ticks in a minute

ASSUME LlmCallsAssumption ==
  /\ Nowhere \notin Workers
  /\ IsFiniteSet(Requests)
  /\ Limit \in Nat
  /\ {MaxConcurrency, Timeout, PerMinute} \subseteq Nat \ {0}

VARIABLES
  second,          \* ticks into the current minute
  llm_requests,    \* Redis: the counts of this minute and the one before
  value,           \* each worker's free slots
  request,         \* each request's progress
  admitted,        \* history: calls let through on each of those counts
  started          \* history: calls begun in each of the last PerMinute ticks

vars == <<second, llm_requests, value, request, admitted, started>>

-----------------------------------------------------------------------------
\* Redis: `llm_requests:<minute>`, by the minute's age.  Each INCR renews the
\* expiry; whether a count is over the limit is all that is read of it.

Ages == 0 .. 1

\* Mutant: the count expires with half of its minute.
Expiry_HalfMinute == PerMinute \div 2

\* EXPIRE 120: two minutes.
Expiry == 2 * PerMinute

NoCount == [count |-> 0, ttl |-> 0]

Incr(c) == [count |-> Min({c.count + 1, Limit + 1}), ttl |-> Expiry]

OneTickOlder(c) == IF c.ttl <= 1 THEN NoCount ELSE [c EXCEPT !.ttl = @ - 1]

-----------------------------------------------------------------------------
\* A request.  `age`: how many minutes ago the clock was read for its count;
\* `left`: the model calls it may still make, two for a write (draft, reask);
\* `over`: refused for the minute's budget, to come back after `retry_after`.

Idle == [pc |-> "idle", worker |-> Nowhere, left |-> 0, timer |-> 0,
         age |-> 0, over |-> FALSE, retry_after |-> 0]

On(w) == {r \in Requests : request[r].worker = w}

\* _count_request blocks the event loop of its worker: until Redis has answered,
\* nothing else runs there.
LoopFree(w) == \A r \in On(w) : request[r].pc # "counting"

At(r, pc) == request[r].pc = pc /\ LoopFree(request[r].worker)

\* Mutant: one second short of the minute's turn.
RetryAfter_Early == PerMinute - second - 1

\* 60 - int(now % 60), of the moment the clock was read.
RetryAfter == PerMinute - second

\* Prompt.handle begins: the clock is read.
Called(w, calls) ==
  [Idle EXCEPT !.pc = "counting", !.worker = w, !.left = calls,
               !.retry_after = RetryAfter]

-----------------------------------------------------------------------------
(***************************************************************************)
(* asyncio.Semaphore (external).  A freed slot is handed to a waiter, which *)
(* goes on when the loop next runs it; until then newcomers queue behind   *)
(* it.  Who is woken first makes no difference to anything stated here.    *)
(***************************************************************************)
InLine(w) == {r \in On(w) : request[r].pc \in {"waiting", "granted"}}

locked(w) == value[w] = 0 \/ InLine(w) # {}

\* Up to `most` of the `free` slots of w are handed out, the requests then being reqs.
Wake(w, free, most, reqs) ==
  LET asleep == {r \in Requests : reqs[r].worker = w /\ reqs[r].pc = "waiting"}
      handed == Min({free, most, Cardinality(asleep)})
  IN  \E woken \in kSubset(handed, asleep) :
        /\ value' = [value EXCEPT ![w] = free - handed]
        /\ request' = [r \in Requests |-> IF r \in woken
                                          THEN [reqs[r] EXCEPT !.pc = "granted"]
                                          ELSE reqs[r]]

Calling(r) == [request[r] EXCEPT !.pc = "calling", !.timer = Timeout]

\* litellm.acompletion is entered.
NoteStart == started' = IF Limit = 0 THEN started ELSE [started EXCEPT ![0] = @ + 1]

-----------------------------------------------------------------------------
Init ==
  /\ second = 0
  /\ llm_requests = [a \in Ages |-> NoCount]
  /\ value = [w \in Workers |-> MaxConcurrency]
  /\ request = [r \in Requests |-> Idle]
  /\ admitted = [a \in Ages |-> 0]
  /\ started = [t \in 0 .. PerMinute - 1 |-> 0]

\* POST /v1.0/rephrase (one call) or /v1.0/write (up to two) gets past llm_user.
Arrive(r, w, calls) ==
  /\ request[r].pc = "idle"
  /\ LoopFree(w)
  /\ request' = [request EXCEPT ![r] = Called(w, calls)]
  /\ UNCHANGED <<second, llm_requests, value, admitted, started>>

Refused(r) == [Idle EXCEPT !.over = TRUE, !.age = request[r].age,
                           !.retry_after = request[r].retry_after]

Over(r) == Limit > 0 /\ Incr(llm_requests[request[r].age]).count > Limit

INCRd(r) ==
  IF Limit = 0 THEN llm_requests
  ELSE [llm_requests EXCEPT ![request[r].age] = Incr(@)]

\* The minute's budget is spent: 503, before any slot is asked for.
CountRefused(r) ==
  /\ request[r].pc = "counting"
  /\ Over(r)
  /\ llm_requests' = INCRd(r)
  /\ request' = [request EXCEPT ![r] = Refused(r)]
  /\ UNCHANGED <<second, value, admitted, started>>

\* Counted, and a slot taken or waited for, with no await in between.
CountAdmitted(r) ==
  LET w == request[r].worker
  IN  /\ request[r].pc = "counting"
      /\ ~Over(r)
      /\ llm_requests' = INCRd(r)
      /\ admitted' = IF Limit = 0 THEN admitted
                     ELSE [admitted EXCEPT ![request[r].age] = @ + 1]
      /\ IF locked(w)
         THEN /\ request' = [request EXCEPT ![r].pc = "waiting", ![r].timer = Timeout]
              /\ UNCHANGED <<value, started>>
         ELSE /\ request' = [request EXCEPT ![r] = Calling(r)]
              /\ value' = [value EXCEPT ![w] = @ - 1]
              /\ NoteStart
      /\ UNCHANGED second

\* A waiter that was handed a slot goes on, and wakes whoever else may.
Resume(r) ==
  LET w == request[r].worker
  IN  /\ At(r, "granted")
      /\ Wake(w, value[w], value[w], [request EXCEPT ![r] = Calling(r)])
      /\ NoteStart
      /\ UNCHANGED <<second, llm_requests, admitted>>

\* asyncio.wait_for gives up (503): a slot handed over meanwhile goes back.
WaitTimeout(r) ==
  LET w    == request[r].worker
      free == value[w] + IF request[r].pc = "granted" THEN 1 ELSE 0
  IN  /\ request[r].timer = 0
      /\ At(r, "waiting") \/ At(r, "granted")
      /\ Wake(w, free, free, [request EXCEPT ![r] = Idle])
      /\ UNCHANGED <<second, llm_requests, admitted, started>>

\* A complete answer: a write's draft is reviewed, anything else is the response.
Completed(r) ==
  IF request[r].left = 2
  THEN [request[r] EXCEPT !.pc = "reviewing", !.left = 1, !.timer = 0]
  ELSE Idle

\* Mutants: the slot is not given back when the call raised; nobody is woken.
CallEnds_Leaks(r) ==
  /\ At(r, "calling")
  /\ \/ Wake(request[r].worker, value[request[r].worker] + 1, 1,
             [request EXCEPT ![r] = Completed(r)])
     \/ request' = [request EXCEPT ![r] = Idle] /\ UNCHANGED value
  /\ UNCHANGED <<second, llm_requests, admitted, started>>

CallEnds_WakesNobody(r) ==
  /\ At(r, "calling")
  /\ value' = [value EXCEPT ![request[r].worker] = @ + 1]
  /\ \E after \in {Completed(r), Idle} : request' = [request EXCEPT ![r] = after]
  /\ UNCHANGED <<second, llm_requests, admitted, started>>

\* The call answers, is cut off (502), fails (500) or is given up (503); the slot
\* is released whichever it is.
CallEnds(r) ==
  LET w == request[r].worker
  IN  /\ At(r, "calling")
      /\ \E after \in {Completed(r), Idle} :
           Wake(w, value[w] + 1, 1, [request EXCEPT ![r] = after])
      /\ UNCHANGED <<second, llm_requests, admitted, started>>

\* The draft passed, or its language is unknown (422), or the review raised (500).
ReviewEnds(r) ==
  /\ At(r, "reviewing")
  /\ request' = [request EXCEPT ![r] = Idle]
  /\ UNCHANGED <<second, llm_requests, value, admitted, started>>

\* The draft failed the review: the reask is another call, counted anew.
Reask(r) ==
  /\ At(r, "reviewing")
  /\ request' = [request EXCEPT ![r] = Called(request[r].worker, 1)]
  /\ UNCHANGED <<second, llm_requests, value, admitted, started>>

\* A worker dies or is recycled: its slots are new, the counts in Redis are not.
WorkerRestart(w) ==
  /\ On(w) # {}
  /\ request' = [r \in Requests |-> IF r \in On(w) THEN Idle ELSE request[r]]
  /\ value' = [value EXCEPT ![w] = MaxConcurrency]
  /\ UNCHANGED <<second, llm_requests, admitted, started>>

(***************************************************************************)
(* A tick.  Timers are kept: whoever has reached its timeout acts first.   *)
(* RedisAnswers bounds how stale the minute of a count may get.            *)
(***************************************************************************)
Turns == second = PerMinute - 1

RedisAnswers ==
  Turns => \A r \in Requests : request[r].pc = "counting" => request[r].age = 0

OnTime ==
  \A r \in Requests : request[r].pc \in {"waiting", "granted", "calling"}
                        => request[r].timer > 0

\* Mutant: only the wait for a slot has a timeout.
Older_NoCallTimeout(rec) ==
  [rec EXCEPT
     !.timer = IF @ > 0 /\ rec.pc # "calling" THEN @ - 1 ELSE @,
     !.age = IF Turns /\ (rec.pc = "counting" \/ rec.over) THEN Min({@ + 1, 2}) ELSE @,
     !.retry_after = IF rec.over /\ @ > 0 THEN @ - 1 ELSE @]

Older(rec) ==
  [rec EXCEPT
     !.timer = IF @ > 0 THEN @ - 1 ELSE 0,
     !.age = IF Turns /\ (rec.pc = "counting" \/ rec.over) THEN Min({@ + 1, 2}) ELSE @,
     !.retry_after = IF rec.over /\ @ > 0 THEN @ - 1 ELSE @]

Tick ==
  /\ OnTime
  /\ RedisAnswers
  /\ second' = (second + 1) % PerMinute
  /\ request' = [r \in Requests |-> Older(request[r])]
  /\ llm_requests' = IF Turns
                     THEN [a \in Ages |-> IF a = 0 THEN NoCount
                                          ELSE OneTickOlder(llm_requests[a - 1])]
                     ELSE [a \in Ages |-> OneTickOlder(llm_requests[a])]
  /\ admitted' = IF Turns THEN [a \in Ages |-> IF a = 0 THEN 0 ELSE admitted[a - 1]]
                 ELSE admitted
  /\ started' = [t \in 0 .. PerMinute - 1 |-> IF t = 0 THEN 0 ELSE started[t - 1]]
  /\ UNCHANGED value

Proceed(r) ==
  \/ CountRefused(r) \/ CountAdmitted(r) \/ Resume(r) \/ WaitTimeout(r)
  \/ CallEnds(r) \/ ReviewEnds(r) \/ Reask(r)

Next ==
  \/ \E r \in Requests :
       \/ \E w \in Workers, calls \in 1 .. 2 : Arrive(r, w, calls)
       \/ Proceed(r)
  \/ \E w \in Workers : WorkerRestart(w)
  \/ Tick

Spec == Init /\ [][Next]_vars

\* Time passes, and an event loop gets to every callback that is ready, in order.
\* The provider owes nothing: only a call whose timeout has passed must end.
Fairness ==
  /\ WF_vars(Tick)
  /\ \A r \in Requests :
       /\ SF_vars(CountRefused(r) \/ CountAdmitted(r) \/ Resume(r))
       /\ SF_vars(WaitTimeout(r))
       /\ SF_vars(ReviewEnds(r) \/ Reask(r))
       /\ SF_vars(request[r].timer = 0 /\ CallEnds(r))

FairSpec == Spec /\ Fairness

-----------------------------------------------------------------------------
RequestType ==
  [pc : {"idle", "counting", "waiting", "granted", "calling", "reviewing"},
   worker : Workers \union {Nowhere}, left : 0 .. 2, timer : 0 .. Timeout,
   age : 0 .. 2, over : BOOLEAN, retry_after : 0 .. PerMinute]

\* Type invariant; a request is on a worker just while it is being handled.
TypeOK ==
  /\ second \in 0 .. PerMinute - 1
  /\ llm_requests \in [Ages -> [count : 0 .. Limit + 1, ttl : 0 .. Expiry]]
  /\ value \in [Workers -> 0 .. MaxConcurrency]
  /\ request \in [Requests -> RequestType]
  /\ \A r \in Requests : request[r].worker = Nowhere <=> request[r].pc = "idle"
  /\ admitted \in [Ages -> Nat]
  /\ started \in [0 .. PerMinute - 1 -> Nat]

\* A slot is free, or handed to one waiter, or held by one call: whatever times
\* out, fails or is handed over at the same moment, none is lost or made up, so
\* a worker never has more than LLM_MAX_CONCURRENCY calls at the provider.
SlotsConserved ==
  \A w \in Workers :
    value[w] + Cardinality({r \in On(w) : request[r].pc \in {"granted", "calling"}})
      = MaxConcurrency

\* No request waits beside a free slot, unless another is about to wake it.
NoIdleSlot ==
  \A w \in Workers :
    value[w] > 0 /\ (\E r \in On(w) : request[r].pc = "waiting")
      => \E r \in On(w) : request[r].pc = "granted"

\* LLM_MAX_REQUESTS_PER_MINUTE: whichever workers count, whenever the clock was
\* read and whenever a count expires, no minute's budget is spent twice.
BudgetKept == Limit > 0 => \A a \in Ages : admitted[a] <= Limit

\* A client refused for the budget that comes back after Retry-After is counted
\* on another minute's budget.
RetryAfterReachesNewBudget ==
  \A r \in Requests : request[r].over /\ request[r].retry_after = 0
                        => request[r].age > 0

\* Every request is answered, whatever the provider does.
Answered == \A r \in Requests : request[r].pc # "idle" ~> request[r].pc = "idle"

StartedWithinAMinute == FoldSet(LAMBDA t, n : started[t] + n, 0, DOMAIN started)

\* "It can let up to twice the limit through around a minute's turn"
\* (app/prompt.py:64): no minute sees more than twice the limit of calls begin.
\* Counted before the wait for a slot, a call may begin a minute later than its
\* budget's, so three budgets can meet in one minute.
TwiceAtMost == Limit > 0 => StartedWithinAMinute <= 2 * Limit
=============================================================================
