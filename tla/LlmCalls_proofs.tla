--------------------------- MODULE LlmCalls_proofs ---------------------------
(* Theorems about LlmCalls, for any number of workers, requests and slots. *)
EXTENDS LlmCalls, FiniteSetTheorems, TLAPS

Holding(w, reqs) ==
  {r \in Requests : reqs[r].worker = w /\ reqs[r].pc \in {"granted", "calling"}}

Asleep(w, reqs) == {r \in Requests : reqs[r].worker = w /\ reqs[r].pc = "waiting"}

\* The slots of one worker, v of them free: none lost, and none idle beside a waiter.
Shared(w, v, reqs) ==
  /\ v + Cardinality(Holding(w, reqs)) = MaxConcurrency
  /\ v > 0 /\ Asleep(w, reqs) # {} =>
       \E r \in Requests : reqs[r].worker = w /\ reqs[r].pc = "granted"

Slots(v, reqs) ==
  /\ v \in [Workers -> Nat]
  /\ reqs \in [Requests -> RequestType]
  /\ \A r \in Requests : reqs[r].worker = Nowhere <=> reqs[r].pc = "idle"
  /\ \A w \in Workers : Shared(w, v[w], reqs)

(***************************************************************************)
(* The budget: a count of Redis is never less than the calls let through   *)
(* on it, and does not expire before its minute is two minutes old.  A     *)
(* request that is refused comes back after the turn of its minute.        *)
(***************************************************************************)
Budget ==
  /\ second \in 0 .. PerMinute - 1
  /\ llm_requests \in [Ages -> [count : 0 .. Limit + 1, ttl : 0 .. Expiry]]
  /\ admitted \in [Ages -> Nat]
  /\ started \in [0 .. PerMinute - 1 -> Nat]
  /\ \A a \in Ages :
       /\ admitted[a] <= Limit
       /\ admitted[a] <= llm_requests[a].count
  /\ llm_requests[0].count > 0 => llm_requests[0].ttl + second >= 2 * PerMinute
  /\ llm_requests[1].count > 0 => llm_requests[1].ttl + second >= PerMinute

Waits(rec, s) ==
  /\ rec.pc = "counting" => rec.age \in Ages
  /\ (rec.pc = "counting" \/ rec.over) /\ rec.age = 0 => rec.retry_after + s >= PerMinute

LInv ==
  /\ Slots(value, request)
  /\ Budget
  /\ \A r \in Requests : Waits(request[r], second)

LEMMA Constants ==
  /\ Limit \in Nat /\ MaxConcurrency \in Nat \ {0} /\ Timeout \in Nat \ {0}
  /\ PerMinute \in Nat \ {0} /\ Nowhere \notin Workers /\ IsFiniteSet(Requests)
  /\ Expiry = 2 * PerMinute /\ Expiry \in Nat /\ Ages = {0, 1}
  BY LlmCallsAssumption DEF Expiry, Ages

LEMMA MinOfTwo ==
  ASSUME NEW a \in Nat, NEW b \in Nat
  PROVE  Min({a, b}) = IF a <= b THEN a ELSE b
<1> DEFINE m == IF a <= b THEN a ELSE b
<1>1. m \in {a, b} /\ \A y \in {a, b} : m <= y
  OBVIOUS
<1>2. \A x \in {a, b} : (\A y \in {a, b} : x <= y) => x = m
  OBVIOUS
<1>3. QED
  BY <1>1, <1>2 DEF Min

LEMMA MinOfThree ==
  ASSUME NEW a \in Nat, NEW b \in Nat, NEW c \in Nat
  PROVE  LET m == Min({a, b, c}) IN
         m \in {a, b, c} /\ m <= a /\ m <= b /\ m <= c
<1> DEFINE least(m) == \A y \in {a, b, c} : m <= y
<1>1. \E m \in {a, b, c} : least(m)
  <2>1. CASE a <= b /\ a <= c
    BY <2>1
  <2>2. CASE b <= a /\ b <= c
    BY <2>2
  <2>3. CASE c <= a /\ c <= b
    BY <2>3
  <2>4. QED
    BY <2>1, <2>2, <2>3
<1>2. Min({a, b, c}) \in {a, b, c} /\ least(Min({a, b, c}))
  BY <1>1 DEF Min
<1>3. QED
  BY <1>2

LEMMA HoldingIsFinite ==
  ASSUME NEW w, NEW reqs
  PROVE  /\ IsFiniteSet(Holding(w, reqs)) /\ Cardinality(Holding(w, reqs)) \in Nat
         /\ IsFiniteSet(Asleep(w, reqs)) /\ Cardinality(Asleep(w, reqs)) \in Nat
<1>1. Holding(w, reqs) \in SUBSET Requests /\ Asleep(w, reqs) \in SUBSET Requests
  BY DEF Holding, Asleep
<1>2. QED
  BY <1>1, Constants, FS_Subset, FS_CardinalityType

-----------------------------------------------------------------------------
(***************************************************************************)
(* Handing out slots: the requests of w may have changed to reqs and its   *)
(* free slots to `free`, and some that wait are woken.                     *)
(***************************************************************************)
LEMMA WakeKeeps ==
  ASSUME Slots(value, request), NEW w \in Workers, NEW free \in Nat, NEW most \in Nat,
         most = 0 => free = 0,
         NEW reqs \in [Requests -> RequestType],
         \A r \in Requests : reqs[r].worker = Nowhere <=> reqs[r].pc = "idle",
         \A r \in Requests : \/ reqs[r] = request[r]
                             \/ request[r].worker = w /\ reqs[r].worker \in {w, Nowhere},
         free + Cardinality(Holding(w, reqs)) = MaxConcurrency,
         Wake(w, free, most, reqs)
  PROVE  /\ Slots(value', request')
         /\ \A r \in Requests : \/ request'[r] = reqs[r]
                                \/ request'[r] = [reqs[r] EXCEPT !.pc = "granted"] /\ reqs[r].pc = "waiting"
<1> DEFINE asleep == Asleep(w, reqs)
           handed == Min({free, most, Cardinality(asleep)})
           held == Holding(w, reqs)
<1>1. /\ IsFiniteSet(asleep) /\ Cardinality(asleep) \in Nat
      /\ IsFiniteSet(held) /\ Cardinality(held) \in Nat
  BY HoldingIsFinite
<1>2. PICK woken \in kSubset(handed, asleep) :
        /\ value' = [value EXCEPT ![w] = free - handed]
        /\ request' = [r \in Requests |-> IF r \in woken THEN [reqs[r] EXCEPT !.pc = "granted"]
                                          ELSE reqs[r]]
  BY DEF Wake, Asleep
<1>3. /\ handed \in {free, most, Cardinality(asleep)} /\ handed <= free /\ handed <= most
      /\ handed <= Cardinality(asleep) /\ handed \in Nat
  BY <1>1, MinOfThree
<1> HIDE DEF handed
<1>4. woken \subseteq asleep /\ Cardinality(woken) = handed /\ IsFiniteSet(woken)
  BY <1>1, FS_Subset DEF kSubset
<1>5. \A r \in Requests :
        IF r \in woken
        THEN /\ request'[r] = [reqs[r] EXCEPT !.pc = "granted"] /\ request'[r] \in RequestType
             /\ reqs[r].worker = w /\ reqs[r].pc = "waiting"
             /\ request'[r].worker = w /\ request'[r].pc = "granted"
        ELSE request'[r] = reqs[r]
  BY <1>2, <1>4 DEF Asleep, RequestType
<1>6. request' \in [Requests -> RequestType]
  <2>1. \A r \in Requests : request'[r] \in RequestType
    BY <1>5
  <2>2. QED
    BY <1>2, <2>1
<1>7. \A r \in Requests : request'[r].worker = Nowhere <=> request'[r].pc = "idle"
  BY <1>5, Constants
<1>8. value' \in [Workers -> Nat] /\ value'[w] = free - handed
      /\ \A v \in Workers \ {w} : value'[v] = value[v]
  BY <1>2, <1>3 DEF Slots
<1>9. Shared(w, value'[w], request')
  <2>1. Holding(w, request') = held \union woken
    BY <1>4, <1>5 DEF Holding, Asleep
  <2>2. held \intersect woken = {}
    BY <1>4 DEF Holding, Asleep
  <2>3. Cardinality(Holding(w, request')) = Cardinality(held) + handed
    <3>1. Cardinality(held \union woken)
            = Cardinality(held) + Cardinality(woken) - Cardinality(held \intersect woken)
      BY <1>1, <1>4, FS_Union
    <3>2. Cardinality(held \intersect woken) = 0
      BY <2>2, FS_EmptySet
    <3>3. QED
      BY <1>1, <1>3, <1>4, <2>1, <3>1, <3>2
  <2>4. value'[w] + Cardinality(Holding(w, request')) = MaxConcurrency
    BY <1>1, <1>3, <1>8, <2>3
  <2>5. CASE handed = 0
    <3>1. value'[w] = 0 \/ Cardinality(asleep) = 0
      BY <1>1, <1>3, <1>8, <2>5
    <3>2. Cardinality(asleep) = 0 => Asleep(w, request') = {}
      BY <1>1, <1>4, <1>5, FS_EmptySet DEF Asleep
    <3>3. QED
      BY <2>4, <3>1, <3>2 DEF Shared
  <2>6. CASE handed # 0
    <3>1. woken # {}
      BY <1>4, <2>6, FS_EmptySet
    <3>2. \E r \in Requests : request'[r].worker = w /\ request'[r].pc = "granted"
      BY <1>4, <1>5, <3>1 DEF Asleep
    <3>3. QED
      BY <2>4, <3>2 DEF Shared
  <2>7. QED
    BY <2>5, <2>6
<1>10. ASSUME NEW v \in Workers \ {w} PROVE Shared(v, value'[v], request')
  <2>1. \A r \in Requests : (request'[r].worker = v \/ request[r].worker = v) => request'[r] = request[r]
    BY <1>5, Constants
  <2>2. Holding(v, request') = Holding(v, request) /\ Asleep(v, request') = Asleep(v, request)
    BY <2>1 DEF Holding, Asleep
  <2>3. Shared(v, value[v], request)
    BY DEF Slots
  <2>4. QED
    BY <1>8, <2>1, <2>2, <2>3 DEF Shared
<1>11. QED
  BY <1>5, <1>6, <1>7, <1>8, <1>9, <1>10 DEF Slots

(***************************************************************************)
(* A step that moves no request to or from a slot or its queue.            *)
(***************************************************************************)
LEMMA SlotsStay ==
  ASSUME Slots(value, request), NEW reqs \in [Requests -> RequestType],
         \A r \in Requests : reqs[r].worker = Nowhere <=> reqs[r].pc = "idle",
         \A r \in Requests :
           \/ reqs[r].pc = request[r].pc /\ reqs[r].worker = request[r].worker
           \/ {reqs[r].pc, request[r].pc} \intersect {"waiting", "granted", "calling"} = {}
  PROVE  Slots(value, reqs)
<1>1. ASSUME NEW w \in Workers PROVE Shared(w, value[w], reqs)
  <2>1. Holding(w, reqs) = Holding(w, request) /\ Asleep(w, reqs) = Asleep(w, request)
    BY DEF Holding, Asleep
  <2>2. \A r \in Requests :
          request[r].worker = w /\ request[r].pc = "granted" => reqs[r].worker = w /\ reqs[r].pc = "granted"
    OBVIOUS
  <2>3. Shared(w, value[w], request)
    BY DEF Slots
  <2>4. QED
    BY <2>1, <2>2, <2>3 DEF Shared
<1>2. QED
  BY <1>1 DEF Slots

\* What the requests may become one by one.
LEMMA OneChanges ==
  ASSUME Slots(value, request), NEW r \in Requests, NEW rec \in RequestType,
         rec.worker = Nowhere <=> rec.pc = "idle"
  PROVE  LET reqs == [request EXCEPT ![r] = rec] IN
         /\ reqs \in [Requests -> RequestType]
         /\ \A q \in Requests : reqs[q].worker = Nowhere <=> reqs[q].pc = "idle"
         /\ reqs[r] = rec
         /\ \A q \in Requests \ {r} : reqs[q] = request[q]
  BY DEF Slots

LEMMA IdleIsRequest == Idle \in RequestType /\ Idle.worker = Nowhere /\ Idle.pc = "idle"
  BY Constants DEF Idle, RequestType

LEMMA CalledIsRequest ==
  ASSUME second \in 0 .. PerMinute - 1, NEW w \in Workers, NEW calls \in 1 .. 2
  PROVE  LET c == Called(w, calls) IN
         /\ c \in RequestType /\ c.pc = "counting" /\ c.worker = w
         /\ c.worker # Nowhere /\ Waits(c, second)
<1>1. RetryAfter \in 0 .. PerMinute /\ RetryAfter + second = PerMinute
  BY Constants DEF RetryAfter
<1> HIDE DEF RetryAfter
<1>2. /\ Idle \in RequestType /\ Idle.age = 0 /\ Idle.over = FALSE
  BY IdleIsRequest DEF Idle
<1> DEFINE c == Called(w, calls)
<1>3. calls \in 0 .. 2 /\ w # Nowhere /\ 0 \in Ages
  BY Constants
<1>4. c \in RequestType
  BY <1>1, <1>2, <1>3 DEF RequestType, Called
<1>a. /\ c.pc = "counting" /\ c.worker = w /\ c.age = 0 /\ c.over = FALSE
      /\ c.retry_after = RetryAfter
  BY <1>2 DEF RequestType, Called
<1> HIDE DEF c
<1>5. Waits(c, second)
  BY <1>1, <1>3, <1>a, Constants DEF Waits
<1>6. QED
  BY <1>3, <1>4, <1>5, <1>a DEF c

\* A request in a stage is on a worker of its own.
LEMMA OnItsWorker ==
  ASSUME Slots(value, request), NEW r \in Requests, request[r].pc # "idle"
  PROVE  /\ request[r] \in RequestType /\ request[r].worker \in Workers
         /\ value[request[r].worker] \in Nat
         /\ Shared(request[r].worker, value[request[r].worker], request)
  BY DEF Slots, RequestType

-----------------------------------------------------------------------------
LEMMA InitEstablishes == Init => LInv
<1> SUFFICES ASSUME Init PROVE LInv
  OBVIOUS
<1>1. Slots(value, request)
  <2>1. ASSUME NEW w \in Workers PROVE Shared(w, value[w], request)
    <3>1. Holding(w, request) = {} /\ Asleep(w, request) = {}
      BY IdleIsRequest DEF Init, Holding, Asleep
    <3>2. value[w] = MaxConcurrency
      BY DEF Init
    <3>3. QED
      BY <3>1, <3>2, FS_EmptySet, Constants DEF Shared
  <2>2. QED
    BY <2>1, IdleIsRequest, Constants DEF Init, Slots
<1>2. Budget
  BY Constants DEF Init, Budget, NoCount
<1>3. \A r \in Requests : Waits(request[r], second)
  BY DEF Init, Idle, Waits
<1>4. QED
  BY <1>1, <1>2, <1>3 DEF LInv

LEMMA ArriveKeeps ==
  ASSUME LInv, NEW r \in Requests, NEW w \in Workers, NEW calls \in 1 .. 2, Arrive(r, w, calls)
  PROVE  LInv'
<1> DEFINE c == Called(w, calls)
<1>1. c \in RequestType /\ c.pc = "counting" /\ c.worker = w /\ c.worker # Nowhere /\ Waits(c, second)
  BY CalledIsRequest DEF LInv, Budget
<1> HIDE DEF c
<1>2. request' = [request EXCEPT ![r] = c] /\ request[r].pc = "idle"
      /\ UNCHANGED <<second, llm_requests, value, admitted, started>>
  BY DEF Arrive, c
<1>3. Slots(value', request')
  <2>1. /\ request' \in [Requests -> RequestType] /\ request'[r] = c
        /\ \A q \in Requests : request'[q].worker = Nowhere <=> request'[q].pc = "idle"
        /\ \A q \in Requests \ {r} : request'[q] = request[q]
    BY <1>1, <1>2, OneChanges DEF LInv
  <2>2. \A q \in Requests :
          \/ request'[q].pc = request[q].pc /\ request'[q].worker = request[q].worker
          \/ {request'[q].pc, request[q].pc} \intersect {"waiting", "granted", "calling"} = {}
    BY <1>1, <1>2, <2>1
  <2>3. Slots(value, request')
    BY <2>1, <2>2, SlotsStay DEF LInv
  <2>4. QED
    BY <1>2, <2>3
<1>4. \A q \in Requests : Waits(request'[q], second')
  BY <1>1, <1>2 DEF LInv, Slots
<1>5. Budget'
  BY <1>2 DEF LInv, Budget
<1>6. QED
  BY <1>3, <1>4, <1>5 DEF LInv

\* INCR: what a count becomes, and what may be let through on it.
LEMMA Counts ==
  ASSUME NEW c \in [count : 0 .. Limit + 1, ttl : 0 .. Expiry]
  PROVE  /\ Incr(c) \in [count : 0 .. Limit + 1, ttl : 0 .. Expiry]
         /\ Incr(c).ttl = 2 * PerMinute
         /\ Incr(c).count >= c.count
         /\ Incr(c).count <= Limit => Incr(c).count = c.count + 1
<1> DEFINE n == Min({c.count + 1, Limit + 1})
<1>1. n = IF c.count + 1 <= Limit + 1 THEN c.count + 1 ELSE Limit + 1
  BY MinOfTwo, Constants
<1> HIDE DEF n
<1>2. Incr(c) = [count |-> n, ttl |-> Expiry]
  BY DEF Incr, n
<1>3. QED
  BY <1>1, <1>2, Constants

LEMMA BudgetCounted ==
  ASSUME LInv, NEW r \in Requests, request[r].pc = "counting", llm_requests' = INCRd(r),
         UNCHANGED second, started' \in [0 .. PerMinute - 1 -> Nat],
         \/ UNCHANGED admitted
         \/ /\ ~Over(r)
            /\ admitted' = IF Limit = 0 THEN admitted
                           ELSE [admitted EXCEPT ![request[r].age] = @ + 1]
  PROVE  Budget'
<1> DEFINE a == request[r].age
<1>1. a \in Ages
  BY DEF LInv, Waits
<1> HIDE DEF a
<1>b. Budget
  BY DEF LInv
<1>2. CASE Limit = 0
  BY <1>b, <1>2 DEF Budget, INCRd
<1>3. CASE Limit # 0
  <2> DEFINE c == Incr(llm_requests[a])
  <2>1. /\ c \in [count : 0 .. Limit + 1, ttl : 0 .. Expiry] /\ c.ttl = 2 * PerMinute
        /\ c.count >= llm_requests[a].count
        /\ c.count <= Limit => c.count = llm_requests[a].count + 1
    BY <1>1, <1>b, Counts DEF Budget
  <2>2. Over(r) <=> c.count > Limit
    BY <1>3, Constants DEF Over, a
  <2>3. llm_requests' = [llm_requests EXCEPT ![a] = c]
    BY <1>3 DEF INCRd, a
  <2> HIDE DEF c
  <2>4. llm_requests' \in [Ages -> [count : 0 .. Limit + 1, ttl : 0 .. Expiry]]
    BY <1>b, <1>1, <2>1, <2>3 DEF Budget
  <2>5. /\ llm_requests'[a] = c
        /\ \A b \in Ages \ {a} : llm_requests'[b] = llm_requests[b]
    BY <1>b, <1>1, <2>3 DEF Budget
  <2>6. \A b \in Ages : llm_requests[b].count \in Nat /\ c.count \in Nat /\ c.ttl \in Nat
    <3>1. \A b \in Ages : llm_requests[b] \in [count : 0 .. Limit + 1, ttl : 0 .. Expiry]
      BY <1>b DEF Budget
    <3>2. QED
      BY <2>1, <3>1, Constants
  <2>m. /\ admitted \in [Ages -> Nat]
        /\ \A b \in Ages : admitted[b] <= Limit /\ admitted[b] <= llm_requests[b].count
    BY <1>b DEF Budget
  <2>7. /\ admitted' \in [Ages -> Nat]
        /\ \A b \in Ages : admitted'[b] <= Limit /\ admitted'[b] <= llm_requests'[b].count
    <3>1. CASE UNCHANGED admitted
      <4>1. admitted' = admitted
        BY <3>1
      <4>2. admitted[a] <= c.count
        BY <1>1, <2>1, <2>6, <2>m
      <4>3. \A b \in Ages : admitted[b] <= llm_requests'[b].count
        BY <2>5, <2>m, <4>2
      <4>4. QED
        BY <2>m, <4>1, <4>3
    <3>2. CASE ~Over(r) /\ admitted' = [admitted EXCEPT ![a] = @ + 1]
      <4>1. c.count = llm_requests[a].count + 1 /\ c.count <= Limit
        BY <2>1, <2>2, <2>6, <3>2, Constants
      <4>2. QED
        <5>1. admitted' \in [Ages -> Nat] /\ admitted'[a] = admitted[a] + 1
              /\ \A b \in Ages \ {a} : admitted'[b] = admitted[b]
          BY <1>1, <2>m, <3>2
        <5>2. admitted'[a] <= Limit /\ admitted'[a] <= c.count
          <6>1. /\ admitted[a] \in Nat /\ admitted[a] <= llm_requests[a].count
                /\ llm_requests[a].count \in Nat
            BY <1>1, <2>6, <2>m
          <6>2. admitted[a] + 1 <= c.count
            BY <4>1, <6>1
          <6>3. c.count \in Nat /\ Limit \in Nat
            BY <1>1, <2>6, Constants
          <6>4. QED
            BY <4>1, <5>1, <6>1, <6>2, <6>3
        <5>3. QED
          BY <2>5, <2>m, <5>1, <5>2
    <3>3. QED
      BY <1>3, <3>1, <3>2 DEF a
  <2>10. second' \in 0 .. PerMinute - 1
    BY <1>b DEF Budget
  <2>8. llm_requests'[0].count > 0 => llm_requests'[0].ttl + second' >= 2 * PerMinute
    <3>1. CASE a = 0
      BY <1>1, <2>1, <2>5, <3>1, <2>10, Constants
    <3>2. CASE a # 0
      BY <1>1, <1>b, <2>5, <3>2, Constants DEF Budget
    <3>3. QED
      BY <3>1, <3>2
  <2>9. llm_requests'[1].count > 0 => llm_requests'[1].ttl + second' >= PerMinute
    <3>1. CASE a = 1
      BY <1>1, <2>1, <2>5, <3>1, <2>10, Constants
    <3>2. CASE a # 1
      BY <1>1, <1>b, <2>5, <3>2, Constants DEF Budget
    <3>3. QED
      BY <3>1, <3>2
  <2>11. QED
    BY <2>4, <2>7, <2>8, <2>9, <2>10 DEF Budget
<1>4. QED
  BY <1>2, <1>3

LEMMA CountRefusedKeeps ==
  ASSUME LInv, NEW r \in Requests, CountRefused(r)
  PROVE  LInv'
<1> DEFINE c == Refused(r)
<1>1. request[r] \in RequestType /\ request[r].pc = "counting" /\ Waits(request[r], second)
  BY DEF CountRefused, LInv, Slots
<1>2. /\ c \in RequestType /\ c.pc = "idle" /\ c.worker = Nowhere /\ Waits(c, second)
  <2>1. c \in RequestType
    BY <1>1, IdleIsRequest DEF RequestType, Refused
  <2>2. /\ c.pc = "idle" /\ c.worker = Nowhere /\ c.age = request[r].age
        /\ c.over = TRUE /\ c.retry_after = request[r].retry_after
    BY IdleIsRequest DEF RequestType, Refused
  <2>3. Waits(c, second)
    BY <1>1, <2>2 DEF Waits
  <2>4. QED
    BY <2>1, <2>2, <2>3
<1> HIDE DEF c
<1>3. request' = [request EXCEPT ![r] = c] /\ request[r].pc = "counting"
      /\ UNCHANGED <<second, value, admitted, started>> /\ llm_requests' = INCRd(r)
  BY DEF CountRefused, c
<1>4. Slots(value', request')
  <2>1. /\ request' \in [Requests -> RequestType] /\ request'[r] = c
        /\ \A q \in Requests : request'[q].worker = Nowhere <=> request'[q].pc = "idle"
        /\ \A q \in Requests \ {r} : request'[q] = request[q]
    BY <1>2, <1>3, OneChanges DEF LInv
  <2>2. \A q \in Requests :
          \/ request'[q].pc = request[q].pc /\ request'[q].worker = request[q].worker
          \/ {request'[q].pc, request[q].pc} \intersect {"waiting", "granted", "calling"} = {}
    BY <1>2, <1>3, <2>1
  <2>3. Slots(value, request')
    BY <2>1, <2>2, SlotsStay DEF LInv
  <2>4. QED
    BY <1>3, <2>3
<1>5. \A q \in Requests : Waits(request'[q], second')
  BY <1>2, <1>3 DEF LInv, Slots
<1>6. Budget'
  BY <1>3, BudgetCounted DEF LInv, Budget
<1>7. QED
  BY <1>4, <1>5, <1>6 DEF LInv

\* Taken or waited for: the slots after a request was counted.
LEMMA CallingIsRequest ==
  ASSUME NEW r \in Requests, request[r] \in RequestType, Waits(request[r], second)
  PROVE  LET c == Calling(r) IN
         /\ c \in RequestType /\ c.pc = "calling" /\ c.worker = request[r].worker
         /\ Waits(c, second)
<1> DEFINE c == Calling(r)
<1>1. Timeout \in 0 .. Timeout
  BY Constants
<1>2. c \in RequestType
  BY <1>1 DEF RequestType, Calling
<1>3. /\ c.pc = "calling" /\ c.worker = request[r].worker /\ c.over = request[r].over
      /\ c.age = request[r].age /\ c.retry_after = request[r].retry_after
  BY DEF RequestType, Calling
<1>4. QED
  BY <1>2, <1>3 DEF Waits

LEMMA AdmittedSlots ==
  ASSUME LInv, NEW r \in Requests, CountAdmitted(r)
  PROVE  Slots(value', request') /\ \A q \in Requests : Waits(request'[q], second')
<1> DEFINE w == request[r].worker
<1>1. /\ request[r] \in RequestType /\ w \in Workers /\ value[w] \in Nat
      /\ Shared(w, value[w], request) /\ request[r].pc = "counting"
      /\ Waits(request[r], second)
  BY OnItsWorker DEF CountAdmitted, LInv
<1>2. CASE locked(w)
  <2> DEFINE c == [request[r] EXCEPT !.pc = "waiting", !.timer = Timeout]
  <2>1. /\ c \in RequestType /\ c.pc = "waiting" /\ c.worker = w /\ Waits(c, second)
    <3>1. Timeout \in 0 .. Timeout
      BY Constants
    <3>2. c \in RequestType
      BY <1>1, <3>1 DEF RequestType
    <3>3. /\ c.pc = "waiting" /\ c.worker = w /\ c.over = request[r].over
          /\ c.age = request[r].age /\ c.retry_after = request[r].retry_after
      BY <1>1 DEF RequestType
    <3>4. QED
      BY <1>1, <3>2, <3>3 DEF Waits
  <2>2. request' = [request EXCEPT ![r] = c] /\ UNCHANGED <<second, value>>
    BY <1>1, <1>2 DEF CountAdmitted, LInv, Slots
  <2> HIDE DEF c
  <2>3. /\ request' \in [Requests -> RequestType] /\ request'[r] = c
        /\ \A q \in Requests : request'[q].worker = Nowhere <=> request'[q].pc = "idle"
        /\ \A q \in Requests \ {r} : request'[q] = request[q]
    BY <1>1, <2>1, <2>2, OneChanges, Constants DEF LInv
  <2>4. ASSUME NEW v \in Workers PROVE Shared(v, value[v], request')
    <3>1. Holding(v, request') = Holding(v, request)
      BY <1>1, <2>1, <2>3 DEF Holding
    <3>2. Shared(v, value[v], request)
      BY DEF LInv, Slots
    <3>3. CASE v # w
      <4>1. Asleep(v, request') = Asleep(v, request)
        BY <1>1, <2>1, <2>3, <3>3 DEF Asleep
      <4>2. \A q \in Requests : request[q].worker = v /\ request[q].pc = "granted"
                                  => request'[q] = request[q]
        BY <1>1, <2>3
      <4>3. QED
        BY <3>1, <3>2, <4>1, <4>2 DEF Shared
    <3>4. CASE v = w
      <4>1. value[w] = 0 \/ \E q \in Requests : request[q].worker = w /\ request[q].pc = "granted"
        BY <1>1, <1>2 DEF locked, InLine, On, Shared, Asleep
      <4>2. \A q \in Requests : request[q].pc = "granted" => request'[q] = request[q]
        BY <1>1, <2>3
      <4>3. QED
        BY <3>1, <3>2, <3>4, <4>1, <4>2 DEF Shared
    <3>5. QED
      BY <3>3, <3>4
  <2>5. QED
    BY <2>1, <2>2, <2>3, <2>4 DEF LInv, Slots
<1>3. CASE ~locked(w)
  <2> DEFINE c == Calling(r)
  <2>1. /\ c \in RequestType /\ c.pc = "calling" /\ c.worker = w /\ Waits(c, second)
    BY <1>1, CallingIsRequest
  <2>2. request' = [request EXCEPT ![r] = c] /\ value' = [value EXCEPT ![w] = @ - 1]
        /\ UNCHANGED second
    BY <1>3 DEF CountAdmitted
  <2> HIDE DEF c
  <2>3. /\ request' \in [Requests -> RequestType] /\ request'[r] = c
        /\ \A q \in Requests : request'[q].worker = Nowhere <=> request'[q].pc = "idle"
        /\ \A q \in Requests \ {r} : request'[q] = request[q]
    BY <1>1, <2>1, <2>2, OneChanges, Constants DEF LInv
  <2>4. value[w] > 0 /\ InLine(w) = {}
    BY <1>1, <1>3 DEF locked
  <2>5. value' \in [Workers -> Nat] /\ value'[w] = value[w] - 1
        /\ \A v \in Workers \ {w} : value'[v] = value[v]
    BY <1>1, <2>2, <2>4 DEF LInv, Slots
  <2>6. ASSUME NEW v \in Workers \ {w} PROVE Shared(v, value'[v], request')
    <3>1. Holding(v, request') = Holding(v, request) /\ Asleep(v, request') = Asleep(v, request)
      BY <1>1, <2>1, <2>3 DEF Holding, Asleep
    <3>2. \A q \in Requests : request[q].worker = v => request'[q] = request[q]
      BY <2>3
    <3>3. Shared(v, value[v], request)
      BY DEF LInv, Slots
    <3>4. QED
      BY <2>5, <3>1, <3>2, <3>3 DEF Shared
  <2>7. Shared(w, value'[w], request')
    <3>1. Holding(w, request') = Holding(w, request) \union {r} /\ r \notin Holding(w, request)
      BY <1>1, <2>1, <2>3 DEF Holding
    <3>2. Cardinality(Holding(w, request')) = Cardinality(Holding(w, request)) + 1
      BY <3>1, HoldingIsFinite, FS_AddElement
    <3>3. Asleep(w, request') = {}
      BY <1>1, <2>1, <2>3, <2>4 DEF Asleep, InLine, On
    <3>4. value'[w] + Cardinality(Holding(w, request')) = MaxConcurrency
      BY <1>1, <2>5, <3>2, HoldingIsFinite DEF Shared
    <3>5. QED
      BY <3>3, <3>4 DEF Shared
  <2>8. QED
    BY <2>1, <2>2, <2>3, <2>5, <2>6, <2>7 DEF LInv, Slots
<1>4. QED
  BY <1>2, <1>3

LEMMA NoteStartKeeps ==
  ASSUME LInv, NoteStart
  PROVE  started' \in [0 .. PerMinute - 1 -> Nat]
  BY Constants DEF LInv, Budget, NoteStart

LEMMA CountAdmittedKeeps ==
  ASSUME LInv, NEW r \in Requests, CountAdmitted(r)
  PROVE  LInv'
<1>1. Slots(value', request') /\ \A q \in Requests : Waits(request'[q], second')
  BY AdmittedSlots
<1>2. started' \in [0 .. PerMinute - 1 -> Nat]
  BY NoteStartKeeps DEF CountAdmitted, LInv, Budget
<1>3. Budget'
  BY <1>2, BudgetCounted DEF CountAdmitted
<1>4. QED
  BY <1>1, <1>3 DEF LInv

LEMMA SameBudget ==
  ASSUME LInv, UNCHANGED <<second, llm_requests, admitted>>,
         started' \in [0 .. PerMinute - 1 -> Nat]
  PROVE  Budget'
  BY DEF LInv, Budget

\* After a slot was handed out: only waiting requests changed any further.
LEMMA WakeWaits ==
  ASSUME NEW reqs \in [Requests -> RequestType], UNCHANGED second,
         \A r \in Requests : Waits(reqs[r], second),
         \A r \in Requests : \/ request'[r] = reqs[r]
                             \/ request'[r] = [reqs[r] EXCEPT !.pc = "granted"] /\ reqs[r].pc = "waiting"
  PROVE  \A r \in Requests : Waits(request'[r], second')
<1> SUFFICES ASSUME NEW r \in Requests PROVE Waits(request'[r], second)
  OBVIOUS
<1>1. CASE request'[r] = reqs[r]
  BY <1>1
<1>2. CASE request'[r] = [reqs[r] EXCEPT !.pc = "granted"]
  <2>1. /\ request'[r].pc = "granted" /\ request'[r].over = reqs[r].over
        /\ request'[r].age = reqs[r].age /\ request'[r].retry_after = reqs[r].retry_after
    BY <1>2 DEF RequestType
  <2>2. QED
    BY <2>1 DEF Waits
<1>3. QED
  BY <1>1, <1>2

LEMMA IdleWaits == Waits(Idle, second)
  BY DEF Idle, Waits

LEMMA ResumeKeeps ==
  ASSUME LInv, NEW r \in Requests, Resume(r)
  PROVE  LInv'
<1> DEFINE w == request[r].worker
           c == Calling(r)
           reqs == [request EXCEPT ![r] = c]
<1>1. /\ request[r] \in RequestType /\ w \in Workers /\ value[w] \in Nat
      /\ Shared(w, value[w], request) /\ request[r].pc = "granted"
      /\ Waits(request[r], second) /\ Wake(w, value[w], value[w], reqs)
  BY OnItsWorker DEF Resume, At, LInv
<1>2. c \in RequestType /\ c.pc = "calling" /\ c.worker = w /\ Waits(c, second)
  BY <1>1, CallingIsRequest
<1> HIDE DEF c
<1>3. /\ reqs \in [Requests -> RequestType] /\ reqs[r] = c
      /\ \A q \in Requests : reqs[q].worker = Nowhere <=> reqs[q].pc = "idle"
      /\ \A q \in Requests \ {r} : reqs[q] = request[q]
  BY <1>1, <1>2, OneChanges, Constants DEF LInv
<1> HIDE DEF reqs
<1>4. Holding(w, reqs) = Holding(w, request)
  BY <1>1, <1>2, <1>3 DEF Holding
<1>5. value[w] + Cardinality(Holding(w, reqs)) = MaxConcurrency
  BY <1>1, <1>4 DEF Shared
<1>6. \A q \in Requests : \/ reqs[q] = request[q]
                          \/ request[q].worker = w /\ reqs[q].worker \in {w, Nowhere}
  BY <1>2, <1>3
<1>7. /\ Slots(value', request')
      /\ \A q \in Requests : \/ request'[q] = reqs[q]
                             \/ request'[q] = [reqs[q] EXCEPT !.pc = "granted"] /\ reqs[q].pc = "waiting"
  BY <1>1, <1>3, <1>5, <1>6, WakeKeeps DEF LInv
<1>8. \A q \in Requests : Waits(request'[q], second')
  <2>1. \A q \in Requests : Waits(reqs[q], second)
    BY <1>2, <1>3 DEF LInv
  <2>2. QED
    BY <1>3, <1>7, <2>1, WakeWaits DEF Resume
<1>9. Budget'
  BY NoteStartKeeps, SameBudget DEF Resume
<1>10. QED
  BY <1>7, <1>8, <1>9 DEF LInv

(***************************************************************************)
(* A request gives up its place: a slot, if it held one, goes to others.   *)
(***************************************************************************)
LEMMA LeavingKeeps ==
  ASSUME LInv, NEW r \in Requests, request[r].pc \in {"waiting", "granted", "calling"},
         NEW most \in Nat, NEW rec \in RequestType, Waits(rec, second),
         rec.pc \in {"idle", "reviewing"}, rec.worker = Nowhere <=> rec.pc = "idle",
         rec.worker \in {request[r].worker, Nowhere},
         LET free == value[request[r].worker] + IF request[r].pc = "waiting" THEN 0 ELSE 1
         IN  /\ most = 0 => free = 0
             /\ Wake(request[r].worker, free, most, [request EXCEPT ![r] = rec]),
         UNCHANGED <<second, llm_requests, admitted, started>>
  PROVE  LInv'
<1> DEFINE w == request[r].worker
           free == value[w] + IF request[r].pc = "waiting" THEN 0 ELSE 1
           reqs == [request EXCEPT ![r] = rec]
<1>1. /\ request[r] \in RequestType /\ w \in Workers /\ value[w] \in Nat
      /\ Shared(w, value[w], request)
  BY OnItsWorker DEF LInv
<1>2. /\ free \in Nat /\ (most = 0 => free = 0) /\ Wake(w, free, most, reqs)
  BY <1>1
<1>3. /\ reqs \in [Requests -> RequestType] /\ reqs[r] = rec
      /\ \A q \in Requests : reqs[q].worker = Nowhere <=> reqs[q].pc = "idle"
      /\ \A q \in Requests \ {r} : reqs[q] = request[q]
  BY OneChanges DEF LInv
<1> HIDE DEF reqs
<1>4. free + Cardinality(Holding(w, reqs)) = MaxConcurrency
  <2>1. CASE request[r].pc = "waiting"
    <3>1. Holding(w, reqs) = Holding(w, request)
      BY <1>3, <2>1 DEF Holding
    <3>2. QED
      BY <1>1, <2>1, <3>1 DEF Shared
  <2>2. CASE request[r].pc # "waiting"
    <3>1. Holding(w, reqs) = Holding(w, request) \ {r} /\ r \in Holding(w, request)
      BY <1>3, <2>2 DEF Holding
    <3>2. Cardinality(Holding(w, reqs)) = Cardinality(Holding(w, request)) - 1
      BY <3>1, HoldingIsFinite, FS_RemoveElement
    <3>3. QED
      BY <1>1, <2>2, <3>2, HoldingIsFinite, Constants DEF Shared
  <2>3. QED
    BY <2>1, <2>2
<1>5. \A q \in Requests : \/ reqs[q] = request[q]
                          \/ request[q].worker = w /\ reqs[q].worker \in {w, Nowhere}
  BY <1>3
<1> HIDE DEF free
<1>6. /\ Slots(value', request')
      /\ \A q \in Requests : \/ request'[q] = reqs[q]
                             \/ request'[q] = [reqs[q] EXCEPT !.pc = "granted"] /\ reqs[q].pc = "waiting"
  BY <1>1, <1>2, <1>3, <1>4, <1>5, WakeKeeps DEF LInv
<1>7. \A q \in Requests : Waits(request'[q], second')
  <2>1. \A q \in Requests : Waits(reqs[q], second)
    BY <1>3 DEF LInv
  <2>2. QED
    BY <1>3, <1>6, <2>1, WakeWaits
<1>8. Budget'
  BY SameBudget DEF LInv, Budget
<1>9. QED
  BY <1>6, <1>7, <1>8 DEF LInv

LEMMA WaitTimeoutKeeps ==
  ASSUME LInv, NEW r \in Requests, WaitTimeout(r)
  PROVE  LInv'
<1> DEFINE free == value[request[r].worker] + IF request[r].pc = "waiting" THEN 0 ELSE 1
<1>1. request[r].pc \in {"waiting", "granted"} /\ UNCHANGED <<second, llm_requests, admitted, started>>
  BY DEF WaitTimeout, At
<1>2. Wake(request[r].worker, free, free, [request EXCEPT ![r] = Idle])
  BY <1>1 DEF WaitTimeout
<1>3. free \in Nat
  BY <1>1, OnItsWorker DEF LInv
<1>4. QED
  BY <1>1, <1>2, <1>3, LeavingKeeps, IdleIsRequest, IdleWaits

LEMMA CallEndsKeeps ==
  ASSUME LInv, NEW r \in Requests, CallEnds(r)
  PROVE  LInv'
<1>1. /\ request[r].pc = "calling" /\ request[r] \in RequestType
      /\ request[r].worker \in Workers /\ Waits(request[r], second)
      /\ UNCHANGED <<second, llm_requests, admitted, started>>
  BY OnItsWorker DEF CallEnds, At, LInv
<1>2. PICK after \in {Completed(r), Idle} :
        Wake(request[r].worker, value[request[r].worker] + 1, 1, [request EXCEPT ![r] = after])
  BY DEF CallEnds
<1>3. /\ after \in RequestType /\ Waits(after, second) /\ after.pc \in {"idle", "reviewing"}
      /\ (after.worker = Nowhere <=> after.pc = "idle")
      /\ after.worker \in {request[r].worker, Nowhere}
  <2>1. CASE after = Idle
    BY <2>1, IdleIsRequest, IdleWaits
  <2>2. CASE after # Idle
    <3> DEFINE c == [request[r] EXCEPT !.pc = "reviewing", !.left = 1, !.timer = 0]
    <3>1. after = c
      BY <2>2 DEF Completed
    <3>2. 0 \in 0 .. Timeout /\ 1 \in 0 .. 2
      BY Constants
    <3>3. c \in RequestType
      <4> DEFINE early == [request[r] EXCEPT !.pc = "reviewing", !.left = 1]
      <4>1. early \in RequestType
        BY <1>1, <3>2 DEF RequestType
      <4>2. [early EXCEPT !.timer = 0] \in RequestType
        <5> HIDE DEF early
        <5>1. QED
          BY <3>2, <4>1 DEF RequestType
      <4>3. c = [early EXCEPT !.timer = 0]
        OBVIOUS
      <4>4. QED
        BY <4>2, <4>3
    <3>4. /\ c.pc = "reviewing" /\ c.worker = request[r].worker /\ c.over = request[r].over
          /\ c.age = request[r].age /\ c.retry_after = request[r].retry_after
      BY <1>1 DEF RequestType
    <3>5. Waits(c, second)
      BY <1>1, <3>4 DEF Waits
    <3> HIDE DEF c
    <3>6. QED
      BY <1>1, <3>1, <3>3, <3>4, <3>5, Constants
  <2>3. QED
    BY <2>1, <2>2
<1>4. QED
  BY <1>1, <1>2, <1>3, LeavingKeeps

LEMMA ReviewEndsKeeps ==
  ASSUME LInv, NEW r \in Requests, ReviewEnds(r)
  PROVE  LInv'
<1>1. request' = [request EXCEPT ![r] = Idle] /\ request[r].pc = "reviewing"
      /\ UNCHANGED <<second, llm_requests, value, admitted, started>>
  BY DEF ReviewEnds, At
<1>2. /\ request' \in [Requests -> RequestType] /\ request'[r] = Idle
      /\ \A q \in Requests : request'[q].worker = Nowhere <=> request'[q].pc = "idle"
      /\ \A q \in Requests \ {r} : request'[q] = request[q]
  BY <1>1, IdleIsRequest, OneChanges DEF LInv
<1>3. \A q \in Requests :
        \/ request'[q].pc = request[q].pc /\ request'[q].worker = request[q].worker
        \/ {request'[q].pc, request[q].pc} \intersect {"waiting", "granted", "calling"} = {}
  BY <1>1, <1>2, IdleIsRequest
<1>4. Slots(value, request')
  BY <1>2, <1>3, SlotsStay DEF LInv
<1>5. \A q \in Requests : Waits(request'[q], second')
  BY <1>1, <1>2, IdleWaits DEF LInv
<1>6. Budget'
  BY <1>1, SameBudget DEF LInv, Budget
<1>7. QED
  BY <1>1, <1>4, <1>5, <1>6 DEF LInv

LEMMA ReaskKeeps ==
  ASSUME LInv, NEW r \in Requests, Reask(r)
  PROVE  LInv'
<1> DEFINE c == Called(request[r].worker, 1)
<1>1. request' = [request EXCEPT ![r] = c] /\ request[r].pc = "reviewing"
      /\ UNCHANGED <<second, llm_requests, value, admitted, started>>
  BY DEF Reask, At
<1>2. c \in RequestType /\ c.pc = "counting" /\ c.worker = request[r].worker
      /\ c.worker # Nowhere /\ Waits(c, second)
  BY <1>1, OnItsWorker, CalledIsRequest DEF LInv, Budget
<1> HIDE DEF c
<1>3. /\ request' \in [Requests -> RequestType] /\ request'[r] = c
      /\ \A q \in Requests : request'[q].worker = Nowhere <=> request'[q].pc = "idle"
      /\ \A q \in Requests \ {r} : request'[q] = request[q]
  BY <1>1, <1>2, OneChanges DEF LInv
<1>4. \A q \in Requests :
        \/ request'[q].pc = request[q].pc /\ request'[q].worker = request[q].worker
        \/ {request'[q].pc, request[q].pc} \intersect {"waiting", "granted", "calling"} = {}
  BY <1>1, <1>2, <1>3
<1>5. Slots(value, request')
  BY <1>3, <1>4, SlotsStay DEF LInv
<1>6. \A q \in Requests : Waits(request'[q], second')
  BY <1>1, <1>2, <1>3 DEF LInv
<1>7. Budget'
  BY <1>1, SameBudget DEF LInv, Budget
<1>8. QED
  BY <1>1, <1>5, <1>6, <1>7 DEF LInv

LEMMA WorkerRestartKeeps ==
  ASSUME LInv, NEW w \in Workers, WorkerRestart(w)
  PROVE  LInv'
<1>1. /\ request' = [r \in Requests |-> IF r \in On(w) THEN Idle ELSE request[r]]
      /\ value' = [value EXCEPT ![w] = MaxConcurrency]
      /\ UNCHANGED <<second, llm_requests, admitted, started>>
  BY DEF WorkerRestart
<1>2. \A r \in Requests :
        /\ request[r].worker = w => request'[r] = Idle
        /\ request[r].worker # w => request'[r] = request[r]
  BY <1>1 DEF On
<1>3. /\ request' \in [Requests -> RequestType]
      /\ \A r \in Requests : request'[r].worker = Nowhere <=> request'[r].pc = "idle"
  BY <1>1, IdleIsRequest DEF LInv, Slots
<1>4. /\ value' \in [Workers -> Nat] /\ value'[w] = MaxConcurrency
      /\ \A v \in Workers \ {w} : value'[v] = value[v]
  BY <1>1, Constants DEF LInv, Slots
<1>5. Shared(w, value'[w], request')
  <2>1. Holding(w, request') = {} /\ Asleep(w, request') = {}
    BY <1>2, IdleIsRequest, Constants DEF Holding, Asleep
  <2>2. QED
    BY <1>4, <2>1, FS_EmptySet, Constants DEF Shared
<1>6. ASSUME NEW v \in Workers \ {w} PROVE Shared(v, value'[v], request')
  <2>1. \A r \in Requests : (request[r].worker = v \/ request'[r].worker = v) => request'[r] = request[r]
    BY <1>2, IdleIsRequest, Constants
  <2>2. Holding(v, request') = Holding(v, request) /\ Asleep(v, request') = Asleep(v, request)
    BY <2>1 DEF Holding, Asleep
  <2>3. Shared(v, value[v], request)
    BY DEF LInv, Slots
  <2>4. QED
    BY <1>4, <2>1, <2>2, <2>3 DEF Shared
<1>7. Slots(value', request')
  BY <1>3, <1>4, <1>5, <1>6 DEF Slots
<1>8. \A r \in Requests : Waits(request'[r], second')
  BY <1>1, <1>2, IdleWaits DEF LInv
<1>9. Budget'
  BY <1>1, SameBudget DEF LInv, Budget
<1>10. QED
  BY <1>7, <1>8, <1>9 DEF LInv

(***************************************************************************)
(* A tick: a record older by one, the counts, and what is let through.     *)
(***************************************************************************)
LEMMA OlderKeeps ==
  ASSUME NEW rec \in RequestType, second \in 0 .. PerMinute - 1,
         Waits(rec, second), Turns /\ rec.pc = "counting" => rec.age = 0
  PROVE  /\ Older(rec) \in RequestType
         /\ Older(rec).pc = rec.pc /\ Older(rec).worker = rec.worker
         /\ Waits(Older(rec), IF Turns THEN 0 ELSE second + 1)
<1> DEFINE timer == IF rec.timer > 0 THEN rec.timer - 1 ELSE 0
           age == IF Turns /\ (rec.pc = "counting" \/ rec.over) THEN Min({rec.age + 1, 2}) ELSE rec.age
           retry_after == IF rec.over /\ rec.retry_after > 0 THEN rec.retry_after - 1
                          ELSE rec.retry_after
<1>1. timer \in 0 .. Timeout
  BY Constants DEF RequestType
<1>2. /\ age \in 0 .. 2
      /\ Turns /\ (rec.pc = "counting" \/ rec.over)
           => age = IF rec.age + 1 <= 2 THEN rec.age + 1 ELSE 2
      /\ ~(Turns /\ (rec.pc = "counting" \/ rec.over)) => age = rec.age
  <2>1. rec.age \in 0 .. 2 /\ rec.age + 1 \in Nat
    BY DEF RequestType
  <2>2. Min({rec.age + 1, 2}) = IF rec.age + 1 <= 2 THEN rec.age + 1 ELSE 2
    BY <2>1, MinOfTwo
  <2>3. QED
    BY <2>1, <2>2
<1>3. retry_after \in 0 .. PerMinute
  BY Constants DEF RequestType
<1>4. /\ Older(rec) = [[[rec EXCEPT !.timer = timer] EXCEPT !.age = age] EXCEPT !.retry_after = retry_after]
  BY DEF Older
<1> HIDE DEF timer, age
<1>5. /\ Older(rec) \in RequestType /\ Older(rec).pc = rec.pc /\ Older(rec).worker = rec.worker
      /\ Older(rec).over = rec.over /\ Older(rec).age = age /\ Older(rec).retry_after = retry_after
  <2> HIDE DEF retry_after
  <2>1. [rec EXCEPT !.timer = timer] \in RequestType
    BY <1>1 DEF RequestType
  <2>2. QED
    BY <1>1, <1>2, <1>3, <1>4 DEF RequestType
<1> DEFINE s == IF Turns THEN 0 ELSE second + 1
<1>6. rec.pc = "counting" => age \in Ages
  BY <1>2, Constants DEF Waits
<1>7. (rec.pc = "counting" \/ rec.over) /\ age = 0 => retry_after + s >= PerMinute
  <2>1. SUFFICES ASSUME rec.pc = "counting" \/ rec.over, age = 0
                 PROVE  retry_after + s >= PerMinute
    OBVIOUS
  <2>2. ~Turns
    BY <1>2, <2>1 DEF RequestType
  <2>3. rec.retry_after + second >= PerMinute /\ rec.retry_after \in Nat
    BY <1>2, <2>1, <2>2 DEF Waits, RequestType
  <2>4. QED
    BY <2>2, <2>3, Constants
<1> HIDE DEF retry_after, s
<1>8. Waits(Older(rec), s)
  BY <1>5, <1>6, <1>7 DEF Waits
<1>9. QED
  BY <1>5, <1>8 DEF s

LEMMA TheClock ==
  ASSUME NEW d \in Nat \ {0}, NEW n \in 0 .. d - 1
  PROVE  (n + 1) % d = IF n = d - 1 THEN 0 ELSE n + 1
<1>1. CASE n = d - 1
  <2>1. n + 1 = d
    BY <1>1
  <2>2. d % d = 0
    BY Z3
  <2>3. QED
    BY <1>1, <2>1, <2>2
<1>2. CASE n # d - 1
  <2>1. n + 1 \in Nat /\ n + 1 < d
    BY <1>2
  <2>2. \A m \in Nat : m < d => m % d = m
    BY Z3
  <2>3. QED
    BY <1>2, <2>1, <2>2
<1>3. QED
  BY <1>1, <1>2

LEMMA TickedSecond ==
  ASSUME second \in 0 .. PerMinute - 1, Tick
  PROVE  /\ second' = IF Turns THEN 0 ELSE second + 1
         /\ second' \in 0 .. PerMinute - 1
         /\ Turns => second = PerMinute - 1
         /\ ~Turns => second + 2 <= PerMinute
<1>1. PerMinute \in Nat \ {0} /\ second' = (second + 1) % PerMinute
  BY Constants DEF Tick
<1>2. second' = IF Turns THEN 0 ELSE second + 1
  BY <1>1, TheClock DEF Turns
<1>3. QED
  BY <1>1, <1>2 DEF Turns

LEMMA TickedBudget ==
  ASSUME Budget, Tick
  PROVE  Budget'
<1> DEFINE Count == [count : 0 .. Limit + 1, ttl : 0 .. Expiry]
<1>1. \A c \in Count :
        /\ OneTickOlder(c) \in Count
        /\ c.ttl <= 1 => OneTickOlder(c).count = 0 /\ OneTickOlder(c).ttl = 0
        /\ c.ttl > 1 => OneTickOlder(c).count = c.count /\ OneTickOlder(c).ttl = c.ttl - 1
  BY Constants DEF OneTickOlder, NoCount
<1>2. NoCount \in Count /\ NoCount.count = 0
  BY Constants DEF NoCount
<1>b. /\ \A a \in Ages : /\ admitted[a] \in Nat /\ admitted[a] <= Limit
                          /\ admitted[a] <= llm_requests[a].count
      /\ llm_requests[0].count > 0 => llm_requests[0].ttl + second >= 2 * PerMinute
      /\ llm_requests[1].count > 0 => llm_requests[1].ttl + second >= PerMinute
      /\ PerMinute \in Nat \ {0} /\ Limit \in Nat
  BY Constants DEF Budget
<1>3. /\ 0 \in Ages /\ 1 \in Ages /\ \A a \in Ages : a = 0 \/ a = 1
      /\ llm_requests[0] \in Count /\ llm_requests[1] \in Count
      /\ llm_requests[0].count \in Nat /\ llm_requests[1].count \in Nat
      /\ llm_requests[0].ttl \in Nat /\ llm_requests[1].ttl \in Nat
  BY Constants DEF Budget
<1>4. /\ second \in 0 .. PerMinute - 1 /\ second' \in 0 .. PerMinute - 1
      /\ second' = IF Turns THEN 0 ELSE second + 1
      /\ Turns => second = PerMinute - 1
      /\ ~Turns => second + 2 <= PerMinute
  BY TickedSecond DEF Budget
<1>5. started' \in [0 .. PerMinute - 1 -> Nat]
  <2>1. started' = [t \in 0 .. PerMinute - 1 |-> IF t = 0 THEN 0 ELSE started[t - 1]]
    BY DEF Tick
  <2>2. QED
    BY <2>1, Constants DEF Budget
<1>6. CASE Turns
  <2>1. /\ llm_requests' = [a \in Ages |-> IF a = 0 THEN NoCount ELSE OneTickOlder(llm_requests[a - 1])]
        /\ admitted' = [a \in Ages |-> IF a = 0 THEN 0 ELSE admitted[a - 1]]
    BY <1>6 DEF Tick
  <2>2. /\ llm_requests'[0] = NoCount /\ llm_requests'[1] = OneTickOlder(llm_requests[0])
        /\ admitted'[0] = 0 /\ admitted'[1] = admitted[0]
    BY <1>3, <2>1
  <2>3. llm_requests' \in [Ages -> Count] /\ admitted' \in [Ages -> Nat]
    <3>1. /\ \A a \in Ages : llm_requests'[a] \in Count
          /\ \A a \in Ages : admitted'[a] \in Nat
      <4>1. llm_requests'[0] \in Count /\ llm_requests'[1] \in Count
        BY <1>1, <1>2, <1>3, <2>2
      <4>2. admitted'[0] \in Nat /\ admitted'[1] \in Nat
        BY <1>3, <1>b, <2>2
      <4>3. QED
        BY <1>3, <4>1, <4>2
    <3>2. QED
      BY <2>1, <3>1
  <2>4. llm_requests[0].count > 0 =>
          llm_requests'[1].count = llm_requests[0].count /\ llm_requests'[1].ttl >= PerMinute
    BY <1>1, <1>3, <1>4, <1>6, <1>b, <2>2
  <2>5. llm_requests[0].count = 0 => llm_requests'[1].count = 0
    BY <1>1, <1>3, <2>2
  <2>6. \A a \in Ages : admitted'[a] <= Limit /\ admitted'[a] <= llm_requests'[a].count
    BY <1>2, <1>3, <1>b, <2>2, <2>4, <2>5
  <2>7. llm_requests'[0].count = 0
    BY <1>2, <2>2
  <2>8. QED
    <3>1. llm_requests'[1].count > 0 => llm_requests'[1].ttl + second' >= PerMinute
      <4>1. llm_requests[0].count \in Nat /\ PerMinute \in Nat
        BY <1>3, <1>b
      <4>2. llm_requests'[1].ttl \in Nat /\ second' = 0
        BY <1>3, <1>4, <1>6, <2>3, Constants
      <4>3. QED
        BY <2>4, <2>5, <4>1, <4>2
    <3>2. llm_requests'[0].count > 0 => llm_requests'[0].ttl + second' >= 2 * PerMinute
      BY <2>7
    <3>3. QED
      BY <1>4, <1>5, <2>3, <2>6, <3>1, <3>2 DEF Budget
<1>7. CASE ~Turns
  <2>1. /\ llm_requests' = [a \in Ages |-> OneTickOlder(llm_requests[a])]
        /\ admitted' = admitted
    BY <1>7 DEF Tick
  <2>2. llm_requests'[0] = OneTickOlder(llm_requests[0]) /\ llm_requests'[1] = OneTickOlder(llm_requests[1])
    BY <1>3, <2>1
  <2>3. llm_requests' \in [Ages -> Count] /\ admitted' \in [Ages -> Nat]
    <3>1. \A a \in Ages : llm_requests'[a] \in Count
      BY <1>1, <1>3, <2>2
    <3>2. QED
      BY <2>1, <3>1 DEF Budget
  <2>4. second + 2 <= PerMinute /\ second' = second + 1
    BY <1>4, <1>7
  <2>5. /\ llm_requests[0].count > 0 => /\ llm_requests'[0].count = llm_requests[0].count
                                        /\ llm_requests'[0].ttl = llm_requests[0].ttl - 1
        /\ llm_requests[1].count > 0 => /\ llm_requests'[1].count = llm_requests[1].count
                                        /\ llm_requests'[1].ttl = llm_requests[1].ttl - 1
    BY <1>1, <1>3, <1>4, <1>b, <2>2, <2>4
  <2>6. /\ llm_requests[0].count = 0 => llm_requests'[0].count = 0
        /\ llm_requests[1].count = 0 => llm_requests'[1].count = 0
    BY <1>1, <1>3, <2>2
  <2>7. \A a \in Ages : admitted'[a] <= Limit /\ admitted'[a] <= llm_requests'[a].count
    <3>1. ASSUME NEW a \in Ages PROVE admitted[a] <= llm_requests'[a].count
      <4>1. llm_requests[a].count > 0 => llm_requests'[a].count = llm_requests[a].count
        BY <1>3, <2>5
      <4>2. llm_requests[a].count = 0 => llm_requests'[a].count = 0
        BY <1>3, <2>6
      <4>3. llm_requests[a].count \in Nat
        BY <1>3
      <4>4. QED
        BY <1>b, <4>1, <4>2, <4>3
    <3>2. QED
      BY <1>b, <2>1, <3>1
  <2>8. llm_requests'[0].count > 0 => llm_requests'[0].ttl + second' >= 2 * PerMinute
    BY <1>3, <1>4, <1>b, <2>4, <2>5, <2>6
  <2>9. llm_requests'[1].count > 0 => llm_requests'[1].ttl + second' >= PerMinute
    BY <1>3, <1>4, <1>b, <2>4, <2>5, <2>6
  <2>10. QED
    BY <1>4, <1>5, <2>3, <2>7, <2>8, <2>9 DEF Budget
<1>8. QED
  BY <1>6, <1>7

LEMMA TickKeeps ==
  ASSUME LInv, Tick
  PROVE  LInv'
<1>1. request' = [r \in Requests |-> Older(request[r])] /\ UNCHANGED value
  BY DEF Tick
<1>2. second' = IF Turns THEN 0 ELSE second + 1
  BY TickedSecond DEF LInv, Budget
<1>3. ASSUME NEW r \in Requests
      PROVE  /\ request'[r] \in RequestType
             /\ request'[r].pc = request[r].pc /\ request'[r].worker = request[r].worker
             /\ Waits(request'[r], second')
  <2>1. request[r] \in RequestType /\ Waits(request[r], second) /\ second \in 0 .. PerMinute - 1
    BY DEF LInv, Slots, Budget
  <2>2. Turns /\ request[r].pc = "counting" => request[r].age = 0
    BY DEF Tick, RedisAnswers
  <2>3. request'[r] = Older(request[r])
    BY <1>1
  <2>4. QED
    BY <1>2, <2>1, <2>2, <2>3, OlderKeeps
<1>4. request' \in [Requests -> RequestType]
  BY <1>1, <1>3
<1>5. Slots(value, request')
  BY <1>3, <1>4, SlotsStay DEF LInv, Slots
<1>6. Budget'
  BY TickedBudget DEF LInv
<1>7. QED
  BY <1>1, <1>3, <1>5, <1>6 DEF LInv

LEMMA NextKeeps == LInv /\ [Next]_vars => LInv'
<1> SUFFICES ASSUME LInv, [Next]_vars PROVE LInv'
  OBVIOUS
<1>1. ASSUME NEW r \in Requests, NEW w \in Workers, NEW calls \in 1 .. 2, Arrive(r, w, calls)
      PROVE  LInv'
  BY <1>1, ArriveKeeps
<1>2. ASSUME NEW r \in Requests, Proceed(r) PROVE LInv'
  BY <1>2, CountRefusedKeeps, CountAdmittedKeeps, ResumeKeeps, WaitTimeoutKeeps, CallEndsKeeps,
     ReviewEndsKeeps, ReaskKeeps DEF Proceed
<1>3. ASSUME NEW w \in Workers, WorkerRestart(w) PROVE LInv'
  BY <1>3, WorkerRestartKeeps
<1>4. CASE Tick
  BY <1>4, TickKeeps
<1>5. CASE UNCHANGED vars
  <2>1. UNCHANGED <<second, llm_requests, value, request, admitted, started>>
    BY <1>5 DEF vars
  <2>2. Slots(value', request') /\ \A r \in Requests : Waits(request'[r], second')
    BY <2>1 DEF LInv
  <2>3. Budget'
    BY <2>1 DEF LInv, Budget
  <2>4. QED
    BY <2>2, <2>3 DEF LInv
<1>6. QED
  BY <1>1, <1>2, <1>3, <1>4, <1>5 DEF Next

LEMMA Always == Spec => []LInv
<1>1. QED
  BY InitEstablishes, NextKeeps, PTL DEF Spec

-----------------------------------------------------------------------------
\* For all workers, requests, limits and timeouts, the variables have their types
\* (type invariant).
THEOREM TypeCorrect == Spec => []TypeOK
<1>1. ASSUME LInv PROVE TypeOK
  <2>1. ASSUME NEW w \in Workers PROVE value[w] \in 0 .. MaxConcurrency
    <3>1. value[w] \in Nat /\ value[w] + Cardinality(Holding(w, request)) = MaxConcurrency
      BY <1>1 DEF LInv, Slots, Shared
    <3>2. Cardinality(Holding(w, request)) \in Nat /\ MaxConcurrency \in Nat
      BY HoldingIsFinite, Constants
    <3>3. QED
      BY <3>1, <3>2
  <2>2. value \in [Workers -> 0 .. MaxConcurrency]
    BY <1>1, <2>1 DEF LInv, Slots
  <2>3. /\ request \in [Requests -> RequestType]
        /\ \A r \in Requests : request[r].worker = Nowhere <=> request[r].pc = "idle"
    BY <1>1 DEF LInv, Slots
  <2>4. QED
    BY <1>1, <2>2, <2>3 DEF LInv, Budget, TypeOK
<1>2. QED
  BY <1>1, Always, PTL

\* Slots: neither a timeout, a failure, a cancelled wait nor a restart of a worker
\* loses one or makes one up, and each is free, handed over or in use.
THEOREM SlotsAreConserved == Spec => []SlotsConserved
<1>1. ASSUME LInv PROVE SlotsConserved
  <2>1. ASSUME NEW w \in Workers
        PROVE  Holding(w, request) = {r \in On(w) : request[r].pc \in {"granted", "calling"}}
    BY DEF Holding, On
  <2>2. QED
    <3>1. \A w \in Workers : value[w] + Cardinality(Holding(w, request)) = MaxConcurrency
      BY <1>1 DEF LInv, Slots, Shared
    <3>2. QED
      BY <2>1, <3>1 DEF SlotsConserved
<1>2. QED
  BY <1>1, Always, PTL

\* No wakeup is lost: nobody waits beside a free slot unless one is being handed over.
THEOREM NoWakeupIsLost == Spec => []NoIdleSlot
<1>1. ASSUME LInv PROVE NoIdleSlot
  <2>1. ASSUME NEW w \in Workers, value[w] > 0, NEW r \in On(w), request[r].pc = "waiting"
        PROVE  \E q \in On(w) : request[q].pc = "granted"
    <3>1. r \in Asleep(w, request)
      BY <2>1 DEF Asleep, On
    <3>2. QED
      BY <1>1, <2>1, <3>1 DEF LInv, Slots, Shared, On
  <2>2. QED
    BY <2>1 DEF NoIdleSlot
<1>2. QED
  BY <1>1, Always, PTL

\* No minute's budget is spent twice, however the workers' counts, the clock and the
\* expiry of the counts interleave.
THEOREM BudgetIsKept == Spec => []BudgetKept
<1>1. ASSUME LInv PROVE BudgetKept
  BY <1>1 DEF LInv, Budget, BudgetKept
<1>2. QED
  BY <1>1, Always, PTL

\* Whoever comes back after Retry-After is counted on another minute's budget.
THEOREM RetryAfterIsLongEnough == Spec => []RetryAfterReachesNewBudget
<1>1. ASSUME LInv PROVE RetryAfterReachesNewBudget
  <2>1. ASSUME NEW r \in Requests, request[r].over, request[r].retry_after = 0
        PROVE  request[r].age > 0
    <3>1. /\ request[r].age \in 0 .. 2 /\ second \in 0 .. PerMinute - 1
          /\ request[r].age = 0 => request[r].retry_after + second >= PerMinute
      BY <1>1, <2>1 DEF LInv, Waits, Slots, Budget, RequestType
    <3>2. QED
      BY <2>1, <3>1, Constants
  <2>2. QED
    BY <2>1 DEF RetryAfterReachesNewBudget
<1>2. QED
  BY <1>1, Always, PTL
=============================================================================
