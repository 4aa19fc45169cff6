------------------------- MODULE ToolRegistryProofs -------------------------
(***************************************************************************)
(* Proofs about ToolRegistry, for every set of calls and queries and every *)
(* limit, retry policy and timer lateness.                                 *)
(***************************************************************************)
EXTENDS ToolRegistry, FiniteSetTheorems, SequenceTheorems, TLAPS

USE DEF Queries, Requests

-----------------------------------------------------------------------------
(* The inductive invariant.                                                *)

\* How far a call is goes with what it has sent and returned.
ProgressOK(c) ==
    /\ pc[c] = "idle" => attempts[c] = 0
    /\ pc[c] \in {"running", "sleeping"} =>
          request[c] \in Queries /\ attempts[c] > 0
    /\ pc[c] = "sleeping" => request[c] \in Reads /\ attempts[c] = 1
    /\ pc[c] # "done" => response[c].outcome = "none"
    /\ attempts[c] <= IF request[c] \in Reads THEN 2 ELSE 1
    /\ response[c].outcome \in {"cached", "blocked"} => attempts[c] = 0

\* A sleep ends before the deadline and an attempt, which may follow a sleep
\* that ended late, at most Lag after it; no timer is more than Lag late.
TimerOK(c) ==
    /\ pc[c] = "sleeping" => due[c] < Deadline
    /\ pc[c] = "running" => due[c] <= Deadline + Lag
    /\ pc[c] \in {"running", "sleeping"} => now <= due[c] + Lag
    /\ (pc[c] = "sleeping" /\ waiting[c].kind = "limited") =>
          /\ waiting[c].retryAfter > 0
          /\ due[c] = waiting[c].at + waiting[c].retryAfter
    /\ response[c].outcome \in {"success", "error"} =>
          response[c].at <= Deadline + 2 * Lag

Succeeded(d, q) == response[d].outcome = "success" /\ request[d] = q

\* The cache holds an answer of a read exactly if the read has succeeded.
CacheOK(q) ==
    /\ cache[q] # None =>
          \E d \in Calls : Succeeded(d, q) /\ response[d].data = cache[q]
    /\ \A d \in Calls : Succeeded(d, q) => cache[q] # None

HitOK(c) ==
    response[c].outcome = "cached" =>
        /\ request[c] \in Reads
        /\ \E d \in Calls : /\ Succeeded(d, request[c])
                            /\ response[d].data = response[c].data

IInv ==
    /\ TypeOK
    /\ \A c \in Calls : ProgressOK(c) /\ TimerOK(c) /\ HitOK(c)
    /\ \A q \in Reads : CacheOK(q)
    /\ BudgetRespected

-----------------------------------------------------------------------------
(* Delays.                                                                 *)

LEMMA AttemptTimeoutFits ==
    ASSUME now \in Nat, NEW q
    PROVE  /\ AttemptTimeout(q) \in Nat
           /\ AttemptTimeout(q) > 0
           /\ now + AttemptTimeout(q) <= GreaterOf(Deadline, now + 1)
BY LimitAssumption DEF AttemptTimeout, LesserOf, GreaterOf

LEMMA RetryDelayFits ==
    ASSUME TypeOK, NEW c \in Calls, NEW error \in Errors, CanRetry(c, error)
    PROVE  /\ RetryDelay(c, error) \in Nat
           /\ RetryDelay(c, error) > 0
           /\ attempts[c] <= 1
           /\ error.kind = "limited" => RetryDelay(c, error) = error.retryAfter
<1>1. attempts[c] \in Nat /\ attempts[c] < 2
  BY QueryAssumption DEF TypeOK, CanRetry, MaxAttempts
<1>2. Backoff(attempts[c]) \in Nat
  <2>1. attempts[c] <= 1
    BY <1>1
  <2>2. Backoff(attempts[c]) = LesserOf(MaxBackoff, BaseBackoff * 1)
    BY <2>1 DEF Backoff
  <2> QED
    BY <2>2, LimitAssumption DEF LesserOf
<1>3. error.retryAfter \in Nat /\ error.kind \in {"transient", "fatal", "limited"}
  <2>1. CASE error \in [kind : {"transient", "fatal"}, at : Nat, retryAfter : {0}]
    BY <2>1
  <2>2. CASE error \in [kind : {"limited"}, at : Nat, retryAfter : RetryAfters \cup {0}]
    <3>1. error.retryAfter \in RetryAfters \cup {0} /\ error.kind = "limited"
      BY <2>2
    <3>2. RetryAfters \subseteq Nat /\ 0 \in Nat
      BY LimitAssumption
    <3>3. error.retryAfter \in Nat
      BY <3>1, <3>2, Zenon
    <3> QED
      BY <3>1, <3>3, Zenon
  <2> QED
    BY <2>1, <2>2 DEF Errors
<1>4. RetryDelay(c, error) # 0
  BY DEF CanRetry
<1>5. CASE error.kind = "fatal"
  BY <1>4, <1>5 DEF RetryDelay
<1>6. CASE error.kind = "transient"
  BY <1>1, <1>2, <1>4, <1>6 DEF RetryDelay
<1>7. CASE error.kind = "limited"
  <2>1. RetryDelay(c, error) = IF error.retryAfter > MaxRetryAfter
                               THEN 0 ELSE error.retryAfter
    BY <1>7 DEF RetryDelay
  <2> QED
    BY <2>1, <1>1, <1>3, <1>4
<1> QED
  BY <1>3, <1>5, <1>6, <1>7

-----------------------------------------------------------------------------
(* Steps.                                                                  *)

LEMMA RespondType ==
    ASSUME TypeOK, NEW c \in Calls, NEW outcome \in Outcomes, NEW n \in Nat,
           NEW data \in Data \cup {None}, Respond(c, outcome, n, data)
    PROVE  /\ response' \in [Calls -> Responses \cup {NoResponse}]
           /\ response'[c] = [outcome |-> outcome, attempts |-> n,
                              data |-> data, at |-> now]
           /\ \A d \in Calls \ {c} : response'[d] = response[d] /\ pc'[d] = pc[d]
           /\ pc' \in [Calls -> {"idle", "running", "sleeping", "done"}]
           /\ pc'[c] = "done"
           /\ traces' \in Seq([call : Calls, outcome : Outcomes, attempts : Nat])
<1> DEFINE answer == [outcome |-> outcome, attempts |-> n, data |-> data,
                      at |-> now]
<1>1. answer \in Responses
  BY DEF TypeOK, Responses
<1>2. response' = [response EXCEPT ![c] = answer]
  BY DEF Respond
<1>3. response'[c] = answer /\ response' \in [Calls -> Responses \cup {NoResponse}]
  BY <1>1, <1>2 DEF TypeOK
<1>4. TraceOf(c) \in [call : Calls, outcome : Outcomes, attempts : Nat]
  BY <1>3 DEF TraceOf
<1>5. traces' \in Seq([call : Calls, outcome : Outcomes, attempts : Nat])
  BY <1>4 DEF TypeOK, Respond, Trace
<1> QED
  BY <1>2, <1>3, <1>5 DEF TypeOK, Respond

LEMMA InvInit == Init => IInv
<1> SUFFICES ASSUME Init PROVE IInv
  OBVIOUS
<1>1. TypeOK
  BY LimitAssumption DEF Init, TypeOK
<1>2. \A c \in Calls : ProgressOK(c) /\ TimerOK(c) /\ HitOK(c)
  BY DEF Init, ProgressOK, TimerOK, HitOK, NoResponse
<1>3. \A q \in Reads : CacheOK(q)
  BY DEF Init, CacheOK, Succeeded, NoResponse
<1>4. Admitted = {}
  BY DEF Init, Admitted, NoResponse
<1>5. BudgetRespected
  BY <1>4, FS_EmptySet, LimitAssumption DEF Init, BudgetRespected
<1> QED
  BY <1>1, <1>2, <1>3, <1>5 DEF IInv

\* A step that leaves a call and the clock alone.
LEMMA CallKept ==
    ASSUME IInv, NEW d \in Calls, now' = now, pc'[d] = pc[d],
           request'[d] = request[d], attempts'[d] = attempts[d], due'[d] = due[d],
           waiting'[d] = waiting[d], response'[d] = response[d]
    PROVE  ProgressOK(d)' /\ TimerOK(d)'
BY DEF IInv, ProgressOK, TimerOK

\* Hits stay justified while no success is lost.
LEMMA HitKept ==
    ASSUME IInv, NEW d \in Calls, request'[d] = request[d],
           response'[d] = response[d],
           \A e \in Calls : response[e].outcome = "success" =>
               response'[e] = response[e] /\ request'[e] = request[e]
    PROVE  HitOK(d)'
<1> SUFFICES ASSUME response[d].outcome = "cached"
             PROVE  /\ request[d] \in Reads
                    /\ \E e \in Calls : /\ Succeeded(e, request[d])'
                                        /\ response'[e].data = response[d].data
  BY DEF HitOK
<1>1. HitOK(d)
  BY DEF IInv
<1>2. request[d] \in Reads
  BY <1>1 DEF HitOK
<1>3. PICK e \in Calls : Succeeded(e, request[d]) /\ response[e].data = response[d].data
  BY <1>1 DEF HitOK
<1>4. response'[e] = response[e] /\ request'[e] = request[e]
  BY <1>3 DEF Succeeded
<1> QED
  BY <1>2, <1>3, <1>4 DEF Succeeded

\* The cache stays justified while neither it nor the successes change.
LEMMA CacheKept ==
    ASSUME IInv, NEW q \in Reads, cache'[q] = cache[q],
           \A e \in Calls : Succeeded(e, q)' <=> Succeeded(e, q),
           \A e \in Calls : Succeeded(e, q) => response'[e] = response[e]
    PROVE  CacheOK(q)'
BY DEF IInv, CacheOK

LEMMA BudgetKept ==
    ASSUME IInv, callsUsed' = callsUsed,
           \A d \in Calls : (attempts'[d] > 0 \/ response'[d].outcome = "cached")
                            <=> (attempts[d] > 0 \/ response[d].outcome = "cached")
    PROVE  BudgetRespected'
<1>1. Admitted' = Admitted
  BY DEF Admitted
<1> QED
  BY <1>1 DEF IInv, BudgetRespected

\* One call more is admitted, and counted.
LEMMA BudgetSpentOnOne ==
    ASSUME IInv, NEW c \in Calls, NEW q, Admit(c, q),
           attempts'[c] > 0 \/ response'[c].outcome = "cached",
           \A d \in Calls \ {c} : attempts'[d] = attempts[d] /\ response'[d] = response[d]
    PROVE  BudgetRespected'
<1>1. ~ (attempts[c] > 0) /\ response[c].outcome = "none"
  BY DEF IInv, ProgressOK, Admit
<1>2. c \notin Admitted
  BY <1>1 DEF Admitted
<1>3. Admitted' = Admitted \cup {c}
  BY DEF Admitted
<1>4. IsFiniteSet(Admitted)
  BY CallsAssumption, FS_Subset DEF Admitted
<1>5. Cardinality(Admitted') = Cardinality(Admitted) + 1
  BY <1>2, <1>3, <1>4, FS_AddElement
<1>6. callsUsed' = callsUsed + 1 /\ ~(callsUsed >= MaxCalls)
  BY DEF Admit, Blocked, BudgetSpent
<1>7. callsUsed \in Nat /\ MaxCalls \in Nat
  BY LimitAssumption DEF IInv, TypeOK
<1> QED
  BY <1>5, <1>6, <1>7 DEF IInv, BudgetRespected

LEMMA BlockedStep ==
    ASSUME IInv, NEW c \in Calls, NEW q \in Requests, ExecuteBlocked(c, q)
    PROVE  IInv'
<1> USE DEF ExecuteBlocked
<1>1. pc[c] = "idle" /\ attempts[c] = 0 /\ response[c].outcome = "none"
  BY DEF IInv, ProgressOK
<1>2. /\ response' \in [Calls -> Responses \cup {NoResponse}]
      /\ response'[c] = [outcome |-> "blocked", attempts |-> 1,
                         data |-> None, at |-> now]
      /\ \A d \in Calls \ {c} : response'[d] = response[d] /\ pc'[d] = pc[d]
      /\ pc' \in [Calls -> {"idle", "running", "sleeping", "done"}]
      /\ pc'[c] = "done"
      /\ traces' \in Seq([call : Calls, outcome : Outcomes, attempts : Nat])
  BY RespondType DEF Outcomes, IInv
<1>3. /\ request' \in [Calls -> Requests \cup {None}]
      /\ request'[c] = q
      /\ \A d \in Calls \ {c} : request'[d] = request[d]
  BY DEF IInv, TypeOK
<1>4. TypeOK'
  BY <1>2, <1>3 DEF IInv, TypeOK
<1>5. ASSUME NEW d \in Calls PROVE ProgressOK(d)' /\ TimerOK(d)' /\ HitOK(d)'
  <2>1. CASE d = c
    BY <1>1, <1>2, <1>3, <2>1 DEF ProgressOK, TimerOK, HitOK
  <2>2. CASE d # c
    BY <1>1, <1>2, <1>3, <2>2, CallKept, HitKept
  <2> QED
    BY <2>1, <2>2
<1>6. ASSUME NEW r \in Reads PROVE CacheOK(r)'
  <2>1. \A d \in Calls : Succeeded(d, r)' <=> Succeeded(d, r)
    BY <1>1, <1>2, <1>3 DEF Succeeded
  <2>2. \A d \in Calls : Succeeded(d, r) => response'[d] = response[d]
    BY <1>1, <1>2 DEF Succeeded
  <2> QED
    BY <2>1, <2>2, CacheKept
<1>7. BudgetRespected'
  BY <1>1, <1>2, BudgetKept
<1> QED
  BY <1>4, <1>5, <1>6, <1>7 DEF IInv

LEMMA CachedStep ==
    ASSUME IInv, NEW c \in Calls, NEW q \in Requests, ExecuteCached(c, q)
    PROVE  IInv'
<1> USE DEF ExecuteCached, Admit
<1>1. pc[c] = "idle" /\ attempts[c] = 0 /\ response[c].outcome = "none"
  BY DEF IInv, ProgressOK
<1>2. cache[q] \in Data \cup {None}
  BY DEF IInv, TypeOK
<1>3. /\ response' \in [Calls -> Responses \cup {NoResponse}]
      /\ response'[c] = [outcome |-> "cached", attempts |-> 0,
                         data |-> cache[q], at |-> now]
      /\ \A d \in Calls \ {c} : response'[d] = response[d] /\ pc'[d] = pc[d]
      /\ pc' \in [Calls -> {"idle", "running", "sleeping", "done"}]
      /\ pc'[c] = "done"
      /\ traces' \in Seq([call : Calls, outcome : Outcomes, attempts : Nat])
  BY <1>2, RespondType DEF Outcomes, IInv
<1>4. /\ request' \in [Calls -> Requests \cup {None}]
      /\ request'[c] = q
      /\ \A d \in Calls \ {c} : request'[d] = request[d]
  BY DEF IInv, TypeOK
<1>5. TypeOK'
  BY <1>3, <1>4 DEF IInv, TypeOK
<1>6. HitOK(c)'
  <2>1. PICK e \in Calls : Succeeded(e, q) /\ response[e].data = cache[q]
    BY DEF IInv, CacheOK
  <2>2. e # c
    BY <1>1, <2>1 DEF Succeeded
  <2>3. Succeeded(e, q)' /\ response'[e].data = cache[q]
    BY <1>3, <1>4, <2>1, <2>2 DEF Succeeded
  <2>4. Succeeded(e, request[c])'
    BY <1>4, <2>3 DEF Succeeded
  <2> QED
    BY <1>3, <1>4, <2>3, <2>4 DEF HitOK, Succeeded
<1>7. ASSUME NEW d \in Calls PROVE ProgressOK(d)' /\ TimerOK(d)' /\ HitOK(d)'
  <2>1. CASE d = c
    BY <1>1, <1>3, <1>4, <1>6, <2>1 DEF ProgressOK, TimerOK
  <2>2. CASE d # c
    BY <1>1, <1>3, <1>4, <2>2, CallKept, HitKept
  <2> QED
    BY <2>1, <2>2
<1>8. ASSUME NEW r \in Reads PROVE CacheOK(r)'
  <2>1. \A d \in Calls : Succeeded(d, r)' <=> Succeeded(d, r)
    BY <1>1, <1>3, <1>4 DEF Succeeded
  <2>2. \A d \in Calls : Succeeded(d, r) => response'[d] = response[d]
    BY <1>1, <1>3 DEF Succeeded
  <2> QED
    BY <2>1, <2>2, CacheKept
<1>9. BudgetRespected'
  <2>1. Admit(c, q)
    OBVIOUS
  <2>2. \A d \in Calls \ {c} : attempts'[d] = attempts[d] /\ response'[d] = response[d]
    BY <1>3
  <2> HIDE DEF ExecuteCached, Admit
  <2> QED
    BY <1>3, <2>1, <2>2, BudgetSpentOnOne
<1> QED
  BY <1>5, <1>7, <1>8, <1>9 DEF IInv

LEMMA AttemptType ==
    ASSUME TypeOK, NEW c \in Calls, NEW q, Attempt(c, q)
    PROVE  /\ attempts' \in [Calls -> Nat] /\ attempts'[c] = attempts[c] + 1
           /\ due' \in [Calls -> Nat]
           /\ due'[c] <= GreaterOf(Deadline, now + 1) /\ now <= due'[c]
           /\ pc' \in [Calls -> {"idle", "running", "sleeping", "done"}]
           /\ pc'[c] = "running"
           /\ \A d \in Calls \ {c} : /\ attempts'[d] = attempts[d]
                                     /\ due'[d] = due[d] /\ pc'[d] = pc[d]
<1>1. /\ AttemptTimeout(q) \in Nat
      /\ now + AttemptTimeout(q) <= GreaterOf(Deadline, now + 1)
  BY AttemptTimeoutFits DEF TypeOK
<1>2. /\ now + AttemptTimeout(q) \in Nat
      /\ now <= now + AttemptTimeout(q)
  BY <1>1 DEF TypeOK
<1>3. due' = [due EXCEPT ![c] = now + AttemptTimeout(q)]
  BY DEF Attempt, TimerAt
<1> QED
  BY <1>1, <1>2, <1>3 DEF Attempt, TypeOK

LEMMA RunStep ==
    ASSUME IInv, NEW c \in Calls, NEW q \in Requests, ExecuteRun(c, q)
    PROVE  IInv'
<1> USE DEF ExecuteRun
<1>1. /\ pc[c] = "idle" /\ attempts[c] = 0 /\ response[c].outcome = "none"
  BY DEF IInv, ProgressOK, Admit
<1>2. q \in Queries /\ now < Deadline
  BY LimitAssumption DEF Admit, Blocked, IInv, TypeOK
<1>3. /\ attempts' \in [Calls -> Nat] /\ attempts'[c] = 1
      /\ due' \in [Calls -> Nat]
      /\ due'[c] <= GreaterOf(Deadline, now + 1) /\ now <= due'[c]
      /\ pc' \in [Calls -> {"idle", "running", "sleeping", "done"}]
      /\ pc'[c] = "running"
      /\ \A d \in Calls \ {c} : /\ attempts'[d] = attempts[d]
                                /\ due'[d] = due[d] /\ pc'[d] = pc[d]
  BY <1>1, AttemptType DEF IInv
<1>4. /\ request' \in [Calls -> Requests \cup {None}]
      /\ request'[c] = q
      /\ \A d \in Calls \ {c} : request'[d] = request[d]
  BY DEF IInv, TypeOK, Admit
<1>5. TypeOK'
  BY <1>3, <1>4 DEF IInv, TypeOK, Admit
<1>6. due'[c] <= Deadline
  BY <1>2, <1>3, LimitAssumption DEF GreaterOf, IInv, TypeOK
<1>7. TimerOK(c)'
  BY <1>1, <1>3, <1>5, <1>6, LimitAssumption DEF TimerOK, TypeOK
<1>8. ASSUME NEW d \in Calls PROVE ProgressOK(d)' /\ TimerOK(d)' /\ HitOK(d)'
  <2>1. CASE d = c
    BY <1>1, <1>2, <1>3, <1>4, <1>7, <2>1 DEF ProgressOK, HitOK
  <2>2. CASE d # c
    BY <1>1, <1>3, <1>4, <2>2, CallKept, HitKept
  <2> QED
    BY <2>1, <2>2
<1>9. ASSUME NEW r \in Reads PROVE CacheOK(r)'
  <2>1. \A d \in Calls : Succeeded(d, r)' <=> Succeeded(d, r)
    BY <1>1, <1>4 DEF Succeeded
  <2> QED
    BY <2>1, CacheKept
<1>10. BudgetRespected'
  BY <1>3, BudgetSpentOnOne
<1> QED
  BY <1>5, <1>8, <1>9, <1>10 DEF IInv

LEMMA AnswerStep ==
    ASSUME IInv, NEW c \in Calls, Answer(c)
    PROVE  IInv'
<1>1. PICK data \in Data : /\ cache' = CacheAfter(request[c], data)
                           /\ Respond(c, "success", attempts[c], data)
  BY DEF Answer
<1>2. /\ pc[c] = "running"
      /\ UNCHANGED <<now, callsUsed, request, attempts, due, waiting>>
  BY DEF Answer
<1>3. /\ request[c] \in Queries /\ attempts[c] \in Nat /\ attempts[c] > 0
      /\ response[c].outcome = "none"
  BY <1>2 DEF IInv, ProgressOK, TypeOK
<1>4. /\ response' \in [Calls -> Responses \cup {NoResponse}]
      /\ response'[c] = [outcome |-> "success", attempts |-> attempts[c],
                         data |-> data, at |-> now]
      /\ \A d \in Calls \ {c} : response'[d] = response[d] /\ pc'[d] = pc[d]
      /\ pc' \in [Calls -> {"idle", "running", "sleeping", "done"}]
      /\ pc'[c] = "done"
      /\ traces' \in Seq([call : Calls, outcome : Outcomes, attempts : Nat])
  BY <1>1, <1>3, RespondType DEF Outcomes, IInv
<1>5. cache' \in [Reads -> Data \cup {None}]
  BY <1>1 DEF CacheAfter, IInv, TypeOK
<1>6. TypeOK'
  BY <1>2, <1>4, <1>5 DEF IInv, TypeOK
<1>7. now <= Deadline + 2 * Lag
  BY <1>2, LimitAssumption DEF IInv, TypeOK, TimerOK
<1>8. ASSUME NEW d \in Calls PROVE ProgressOK(d)' /\ TimerOK(d)' /\ HitOK(d)'
  <2>1. CASE d = c
    <3>1. ProgressOK(c)
      BY DEF IInv
    <3>2. ProgressOK(c)'
      BY <1>2, <1>4, <3>1 DEF ProgressOK
    <3>3. TimerOK(c)' /\ HitOK(c)'
      BY <1>2, <1>4, <1>7, LimitAssumption DEF TimerOK, HitOK
    <3> QED
      BY <2>1, <3>2, <3>3
  <2>2. CASE d # c
    BY <1>2, <1>3, <1>4, <2>2, CallKept, HitKept
  <2> QED
    BY <2>1, <2>2
<1>9. ASSUME NEW r \in Reads PROVE CacheOK(r)'
  <2>1. CASE r = request[c]
    <3>1. cache'[r] = data /\ data # None
      BY <1>1, <2>1, QueryAssumption DEF CacheAfter, IInv, TypeOK
    <3>2. Succeeded(c, r)' /\ response'[c].data = cache'[r]
      BY <1>2, <1>4, <2>1, <3>1 DEF Succeeded
    <3> QED
      BY <3>1, <3>2 DEF CacheOK
  <2>2. CASE r # request[c]
    <3>1. cache'[r] = cache[r]
      BY <1>1, <2>2 DEF CacheAfter, IInv, TypeOK
    <3>2. \A e \in Calls : Succeeded(e, r)' <=> Succeeded(e, r)
      BY <1>2, <1>3, <1>4, <2>2 DEF Succeeded
    <3>3. \A e \in Calls : Succeeded(e, r) => response'[e] = response[e]
      BY <1>3, <1>4 DEF Succeeded
    <3> QED
      BY <3>1, <3>2, <3>3, CacheKept
  <2> QED
    BY <2>1, <2>2
<1>10. BudgetRespected'
  BY <1>2, <1>3, <1>4, BudgetKept
<1> QED
  BY <1>6, <1>8, <1>9, <1>10 DEF IInv

LEMMA WakeStep ==
    ASSUME IInv, NEW c \in Calls, Wake(c)
    PROVE  IInv'
<1>1. /\ pc[c] = "sleeping" /\ Attempt(c, request[c])
      /\ UNCHANGED <<now, callsUsed, cache, traces, request, waiting, response>>
  BY DEF Wake
<1>2. /\ request[c] \in Reads /\ attempts[c] = 1
      /\ response[c].outcome = "none"
      /\ due[c] < Deadline /\ now <= due[c] + Lag
  BY <1>1 DEF IInv, ProgressOK, TimerOK
<1>3. /\ attempts' \in [Calls -> Nat] /\ attempts'[c] = 2
      /\ due' \in [Calls -> Nat]
      /\ due'[c] <= GreaterOf(Deadline, now + 1) /\ now <= due'[c]
      /\ pc' \in [Calls -> {"idle", "running", "sleeping", "done"}]
      /\ pc'[c] = "running"
      /\ \A d \in Calls \ {c} : /\ attempts'[d] = attempts[d]
                                /\ due'[d] = due[d] /\ pc'[d] = pc[d]
  BY <1>1, <1>2, AttemptType DEF IInv
<1>4. TypeOK'
  BY <1>1, <1>3 DEF IInv, TypeOK
<1>5. due'[c] <= Deadline + Lag
  BY <1>2, <1>3, LimitAssumption DEF GreaterOf, IInv, TypeOK
<1>6. TimerOK(c)'
  BY <1>1, <1>2, <1>3, <1>4, <1>5, LimitAssumption DEF TimerOK, TypeOK
<1>7. ASSUME NEW d \in Calls PROVE ProgressOK(d)' /\ TimerOK(d)' /\ HitOK(d)'
  <2>1. CASE d = c
    BY <1>1, <1>2, <1>3, <1>6, <2>1 DEF ProgressOK, HitOK
  <2>2. CASE d # c
    BY <1>1, <1>3, <2>2, CallKept, HitKept
  <2> QED
    BY <2>1, <2>2
<1>8. ASSUME NEW r \in Reads PROVE CacheOK(r)'
  BY <1>1, CacheKept DEF Succeeded
<1>9. BudgetRespected'
  BY <1>1, <1>2, <1>3, BudgetKept
<1> QED
  BY <1>4, <1>7, <1>8, <1>9 DEF IInv

\* The catch block, for any error of an attempt.
LEMMA CatchStep ==
    ASSUME IInv, NEW c \in Calls, pc[c] = "running",
           NEW error \in Errors, error.at = now, Catch(c, error)
    PROVE  IInv'
<1>1. /\ request[c] \in Queries /\ attempts[c] \in Nat /\ attempts[c] > 0
      /\ response[c].outcome = "none"
      /\ ProgressOK(c) /\ now \in Nat
  BY DEF IInv, ProgressOK, TypeOK
<1>2. UNCHANGED <<now, callsUsed, cache, request, attempts>>
  BY DEF Catch
<1>3. CASE CanRetry(c, error)
  <2>1. /\ due' = [due EXCEPT ![c] = TimerAt(RetryDelay(c, error))]
        /\ waiting' = [waiting EXCEPT ![c] = error]
        /\ pc' = [pc EXCEPT ![c] = "sleeping"]
        /\ UNCHANGED <<response, traces>>
    BY <1>3 DEF Catch
  <2>2. /\ RetryDelay(c, error) \in Nat /\ RetryDelay(c, error) > 0
        /\ attempts[c] <= 1
        /\ error.kind = "limited" => RetryDelay(c, error) = error.retryAfter
    BY <1>3, RetryDelayFits DEF IInv
  <2>3. request[c] \in Reads /\ now + RetryDelay(c, error) < Deadline
    BY <1>3 DEF CanRetry
  <2>4. /\ due' \in [Calls -> Nat] /\ due'[c] = now + RetryDelay(c, error)
        /\ waiting' \in [Calls -> Errors \cup {NoError}] /\ waiting'[c] = error
        /\ pc' \in [Calls -> {"idle", "running", "sleeping", "done"}]
        /\ pc'[c] = "sleeping"
        /\ \A d \in Calls \ {c} : /\ due'[d] = due[d] /\ waiting'[d] = waiting[d]
                                  /\ pc'[d] = pc[d]
    BY <1>1, <2>1, <2>2 DEF IInv, TypeOK, TimerAt
  <2>5. TypeOK'
    BY <1>2, <2>1, <2>4 DEF IInv, TypeOK
  <2>6. TimerOK(c)'
    <3>1. due'[c] < Deadline /\ now' <= due'[c] + Lag
      BY <1>1, <1>2, <2>2, <2>3, <2>4, LimitAssumption
    <3>2. waiting'[c].kind = "limited" =>
             /\ waiting'[c].retryAfter > 0
             /\ due'[c] = waiting'[c].at + waiting'[c].retryAfter
      BY <2>2, <2>4
    <3> QED
      BY <1>1, <2>1, <2>4, <3>1, <3>2 DEF TimerOK
  <2>7. ProgressOK(c)'
    BY <1>1, <1>2, <2>1, <2>2, <2>3, <2>4 DEF ProgressOK
  <2>8. ASSUME NEW d \in Calls PROVE ProgressOK(d)' /\ TimerOK(d)' /\ HitOK(d)'
    <3>1. HitOK(d)'
      BY <1>2, <2>1, HitKept
    <3>2. CASE d = c
      BY <2>6, <2>7, <3>1, <3>2
    <3>3. CASE d # c
      BY <1>2, <2>1, <2>4, <3>1, <3>3, CallKept
    <3> QED
      BY <3>2, <3>3
  <2>9. ASSUME NEW r \in Reads PROVE CacheOK(r)'
    BY <1>2, <2>1, CacheKept DEF Succeeded
  <2>10. BudgetRespected'
    BY <1>2, <2>1, BudgetKept
  <2> QED
    BY <2>5, <2>8, <2>9, <2>10 DEF IInv
<1>4. CASE ~CanRetry(c, error)
  <2>1. Respond(c, "error", attempts[c], None) /\ UNCHANGED <<due, waiting>>
    BY <1>4 DEF Catch
  <2>2. /\ response' \in [Calls -> Responses \cup {NoResponse}]
        /\ response'[c] = [outcome |-> "error", attempts |-> attempts[c],
                           data |-> None, at |-> now]
        /\ \A d \in Calls \ {c} : response'[d] = response[d] /\ pc'[d] = pc[d]
        /\ pc' \in [Calls -> {"idle", "running", "sleeping", "done"}]
        /\ pc'[c] = "done"
        /\ traces' \in Seq([call : Calls, outcome : Outcomes, attempts : Nat])
    BY <1>1, <2>1, RespondType DEF Outcomes, IInv
  <2>3. TypeOK'
    BY <1>2, <2>1, <2>2 DEF IInv, TypeOK
  <2>4. now <= Deadline + 2 * Lag
    BY LimitAssumption DEF IInv, TypeOK, TimerOK
  <2>5. ASSUME NEW d \in Calls PROVE ProgressOK(d)' /\ TimerOK(d)' /\ HitOK(d)'
    <3>1. CASE d = c
      <4>1. ProgressOK(c)'
        BY <1>1, <1>2, <2>2 DEF ProgressOK
      <4>2. TimerOK(c)' /\ HitOK(c)'
        BY <1>2, <2>2, <2>4, LimitAssumption DEF TimerOK, HitOK
      <4> QED
        BY <3>1, <4>1, <4>2
    <3>2. CASE d # c
      BY <1>1, <1>2, <2>1, <2>2, <3>2, CallKept, HitKept
    <3> QED
      BY <3>1, <3>2
  <2>6. ASSUME NEW r \in Reads PROVE CacheOK(r)'
    <3>1. \A d \in Calls : Succeeded(d, r)' <=> Succeeded(d, r)
      BY <1>1, <1>2, <2>2 DEF Succeeded
    <3>2. \A d \in Calls : Succeeded(d, r) => response'[d] = response[d]
      BY <1>1, <2>2 DEF Succeeded
    <3> QED
      BY <1>2, <3>1, <3>2, CacheKept
  <2>7. BudgetRespected'
    BY <1>1, <1>2, <2>2, BudgetKept
  <2> QED
    BY <2>3, <2>5, <2>6, <2>7 DEF IInv
<1> QED
  BY <1>3, <1>4

LEMMA TickStep == IInv /\ Tick => IInv'
<1> SUFFICES ASSUME IInv, Tick PROVE IInv'
  OBVIOUS
<1>1. /\ now' = now + 1
      /\ UNCHANGED <<callsUsed, cache, traces, pc, request, attempts, due,
                     waiting, response>>
  BY DEF Tick
<1>2. TypeOK'
  BY <1>1 DEF IInv, TypeOK
<1>3. ASSUME NEW d \in Calls PROVE ProgressOK(d)' /\ TimerOK(d)' /\ HitOK(d)'
  <2>1. pc[d] \in {"running", "sleeping"} => now < due[d] + Lag
    BY DEF Tick
  <2>2. now \in Nat /\ due[d] \in Nat /\ Lag \in Nat
    BY LimitAssumption DEF IInv, TypeOK
  <2>3. TimerOK(d)'
    BY <1>1, <2>1, <2>2 DEF IInv, TimerOK
  <2>4. ProgressOK(d)' /\ HitOK(d)'
    BY <1>1, HitKept DEF IInv, ProgressOK
  <2> QED
    BY <2>3, <2>4
<1>4. ASSUME NEW r \in Reads PROVE CacheOK(r)'
  BY <1>1, CacheKept DEF Succeeded
<1>5. BudgetRespected'
  BY <1>1, BudgetKept
<1> QED
  BY <1>2, <1>3, <1>4, <1>5 DEF IInv

LEMMA ErrorType ==
    ASSUME now \in Nat,
           NEW error \in [kind : {"transient", "fatal"}, at : {now}, retryAfter : {0}]
               \cup [kind : {"limited"}, at : {now}, retryAfter : RetryAfters \cup {0}]
    PROVE  error \in Errors /\ error.at = now
BY DEF Errors

LEMMA StutterStep == IInv /\ UNCHANGED vars => IInv'
<1> SUFFICES ASSUME IInv, UNCHANGED vars PROVE IInv'
  OBVIOUS
<1> USE DEF vars
<1>1. TypeOK'
  BY DEF IInv, TypeOK
<1>2. ASSUME NEW d \in Calls PROVE ProgressOK(d)' /\ TimerOK(d)' /\ HitOK(d)'
  BY CallKept, HitKept
<1>3. ASSUME NEW r \in Reads PROVE CacheOK(r)'
  BY CacheKept DEF Succeeded
<1>4. BudgetRespected'
  BY BudgetKept
<1> QED
  BY <1>1, <1>2, <1>3, <1>4 DEF IInv

LEMMA InvStep == IInv /\ [Next]_vars => IInv'
<1> SUFFICES ASSUME IInv, [Next]_vars PROVE IInv'
  OBVIOUS
<1>1. ASSUME NEW c \in Calls, NEW q \in Requests, ExecuteBlocked(c, q) PROVE IInv'
  BY <1>1, BlockedStep
<1>2. ASSUME NEW c \in Calls, NEW q \in Requests, ExecuteCached(c, q) PROVE IInv'
  BY <1>2, CachedStep
<1>3. ASSUME NEW c \in Calls, NEW q \in Requests, ExecuteRun(c, q) PROVE IInv'
  BY <1>3, RunStep
<1>4. ASSUME NEW c \in Calls, Answer(c) PROVE IInv'
  BY <1>4, AnswerStep
<1>5. ASSUME NEW c \in Calls, AnswerError(c) PROVE IInv'
  <2>1. PICK error \in [kind : {"transient", "fatal"}, at : {now}, retryAfter : {0}]
                \cup [kind : {"limited"}, at : {now}, retryAfter : RetryAfters \cup {0}] :
             Catch(c, error)
    BY <1>5 DEF AnswerError
  <2>2. error \in Errors /\ error.at = now
    BY ErrorType DEF IInv, TypeOK
  <2> QED
    BY <1>5, <2>1, <2>2, CatchStep DEF AnswerError
<1>6. ASSUME NEW c \in Calls, Timeout(c) PROVE IInv'
  <2> DEFINE error == [kind |-> "transient", at |-> now, retryAfter |-> 0]
  <2>1. error \in Errors /\ error.at = now
    BY DEF Errors, IInv, TypeOK
  <2>2. pc[c] = "running" /\ Catch(c, error)
    BY <1>6 DEF Timeout
  <2> QED
    BY <2>1, <2>2, CatchStep
<1>7. ASSUME NEW c \in Calls, Wake(c) PROVE IInv'
  BY <1>7, WakeStep
<1>8. CASE Tick
  BY <1>8, TickStep
<1>9. CASE UNCHANGED vars
  BY <1>9, StutterStep
<1> QED
  BY <1>1, <1>2, <1>3, <1>4, <1>5, <1>6, <1>7, <1>8, <1>9 DEF Next, Quiet

LEMMA Invariance == Spec => []IInv
<1>1. Init => IInv
  BY InvInit
<1>2. IInv /\ [Next]_vars => IInv'
  BY InvStep
<1> QED
  BY <1>1, <1>2, PTL DEF Spec

-----------------------------------------------------------------------------
(* Theorems.                                                               *)

\* Every variable keeps its type.
THEOREM TypeCorrect == Spec => []TypeOK
BY Invariance, PTL DEF IInv

\* The run's budget holds under any overlap of its calls: callsUsed counts
\* the admitted calls exactly and never passes maxCalls.
THEOREM CallBudget == Spec => []BudgetRespected
BY Invariance, PTL DEF IInv

\* No write is sent twice and no read three times.
THEOREM SendsBounded == Spec => []SentAtMost
<1>1. IInv => SentAtMost
  BY DEF IInv, ProgressOK, SentAtMost
<1> QED
  BY <1>1, Invariance, PTL

\* A call outlives the deadline at most by the lateness of two timers.
THEOREM DeadlineKept == Spec => []EndsInTime
<1>1. ASSUME IInv, NEW c \in Calls, pc[c] \in {"running", "sleeping"}
      PROVE  now <= Deadline + 2 * Lag
  BY <1>1, LimitAssumption DEF IInv, TypeOK, TimerOK
<1>2. ASSUME IInv, NEW c \in Calls, response[c].outcome \in {"success", "error"}
      PROVE  response[c].at <= Deadline + 2 * Lag
  BY <1>2 DEF IInv, TimerOK
<1>3. IInv => EndsInTime
  BY <1>1, <1>2 DEF EndsInTime
<1> QED
  BY <1>3, Invariance, PTL

\* The cache answers with what the connector answered to the same read.
THEOREM CacheHonest == Spec => []CachedAnswersAreReal
<1>1. IInv => CachedAnswersAreReal
  BY DEF IInv, HitOK, Succeeded, CachedAnswersAreReal
<1> QED
  BY <1>1, Invariance, PTL

\* A read that has succeeded in the run is never sent again by a later call.
THEOREM NoRepeatedRead == Spec => SuccessIsReused
<1>1. ASSUME IInv, Next, NEW c \in Calls, pc[c] = "idle", attempts'[c] > 0,
             NEW d \in Calls, response[d].outcome = "success",
             request[d] = request'[c], request[d] \in Reads
      PROVE  FALSE
  <2>1. attempts[c] = 0 /\ pc[c] = "idle"
    BY <1>1 DEF IInv, ProgressOK
  <2>2. cache[request[d]] # None
    BY <1>1 DEF IInv, CacheOK, Succeeded
  <2>3. ASSUME NEW e \in Calls, NEW q \in Requests, ExecuteRun(e, q) PROVE FALSE
    <3>1. CASE e = c
      <4>1. request'[c] = q
        BY <1>1, <2>3, <3>1 DEF ExecuteRun, Admit, IInv, TypeOK
      <4> QED
        BY <1>1, <2>2, <2>3, <4>1 DEF ExecuteRun
    <3>2. CASE e # c
      BY <1>1, <2>1, <2>3, <3>2 DEF ExecuteRun, Attempt, IInv, TypeOK
    <3> QED
      BY <3>1, <3>2
  <2>4. ASSUME NEW e \in Calls, Wake(e) PROVE FALSE
    BY <1>1, <2>1, <2>4 DEF Wake, Attempt, IInv, TypeOK
  <2>5. ASSUME attempts' = attempts PROVE FALSE
    BY <1>1, <2>1, <2>5
  <2> QED
    BY <1>1, <2>3, <2>4, <2>5 DEF Next, ExecuteBlocked, ExecuteCached, Answer,
       AnswerError, Timeout, Catch, Tick, Quiet, vars
<1>2. IInv /\ Next => \A c \in Calls :
          (pc[c] = "idle" /\ attempts'[c] > 0) =>
              ~ \E d \in Calls : /\ response[d].outcome = "success"
                                 /\ request[d] = request'[c]
                                 /\ request[d] \in Reads
  BY <1>1
<1> QED
  BY <1>2, Invariance, PTL DEF Spec, SuccessIsReused

\* A rate limited connector is left alone for the time it asked for.
THEOREM RateLimitRespected == Spec => NoEarlyRetry
<1>1. ASSUME IInv, Next, NEW c \in Calls, pc[c] = "sleeping",
             attempts'[c] > attempts[c], waiting[c].kind = "limited"
      PROVE  /\ waiting[c].retryAfter > 0
             /\ now >= waiting[c].at + waiting[c].retryAfter
  <2>1. /\ waiting[c].retryAfter > 0
        /\ due[c] = waiting[c].at + waiting[c].retryAfter
    BY <1>1 DEF IInv, TimerOK
  <2>2. ASSUME NEW e \in Calls, NEW q \in Requests, ExecuteRun(e, q) PROVE e # c
    BY <1>1, <2>2 DEF ExecuteRun, Admit
  <2>3. ASSUME NEW e \in Calls, Wake(e), e # c PROVE FALSE
    BY <1>1, <2>3 DEF Wake, Attempt, IInv, TypeOK
  <2>4. ASSUME NEW e \in Calls, NEW q \in Requests, ExecuteRun(e, q) PROVE FALSE
    <3>1. e # c
      BY <2>2, <2>4
    <3>2. attempts' = [attempts EXCEPT ![e] = @ + 1]
      BY <2>4 DEF ExecuteRun, Attempt
    <3> QED
      BY <1>1, <3>1, <3>2 DEF IInv, TypeOK
  <2>5. attempts[c] \in Nat /\ attempts' # attempts
    BY <1>1 DEF IInv, TypeOK
  <2>6. Wake(c)
    BY <1>1, <2>3, <2>4, <2>5 DEF Next, ExecuteBlocked, ExecuteCached, Answer,
       AnswerError, Timeout, Catch, Tick, Quiet, vars
  <2> QED
    BY <2>1, <2>6 DEF Wake
<1>2. IInv /\ Next => \A c \in Calls :
          (pc[c] = "sleeping" /\ attempts'[c] > attempts[c]
             /\ waiting[c].kind = "limited") =>
                /\ waiting[c].retryAfter > 0
                /\ now >= waiting[c].at + waiting[c].retryAfter
  BY <1>1
<1> QED
  BY <1>2, Invariance, PTL DEF Spec, NoEarlyRetry
-----------------------------------------------------------------------------
(* Traces.                                                                 *)

\* Only calls that returned are traced, and none has returned in the future.
TraceInv ==
    /\ TracesTellAll
    /\ \A i \in 1..Len(traces) : pc[traces[i].call] = "done"
    /\ \A c \in Calls : pc[c] = "done" => response[c].at \in 0..now

LEMMA TracedCalls ==
    ASSUME TypeOK
    PROVE  \A i \in 1..Len(traces) : traces[i].call \in Calls
<1> SUFFICES ASSUME NEW i \in 1..Len(traces) PROVE traces[i].call \in Calls
  OBVIOUS
<1>1. traces[i] \in [call : Calls, outcome : Outcomes, attempts : Nat]
  BY ElementOfSeq DEF TypeOK
<1> QED
  BY <1>1

\* A call returns: its trace is the last, and the latest.
LEMMA RespondTraced ==
    ASSUME IInv, TraceInv, NEW c \in Calls, pc[c] # "done", now' = now,
           NEW outcome \in Outcomes, NEW n \in Nat, NEW data \in Data \cup {None},
           Respond(c, outcome, n, data)
    PROVE  TraceInv'
<1> DEFINE trace == [call |-> c, outcome |-> outcome, attempts |-> n]
           Returned == {d \in Calls : pc[d] = "done"}
<1>1. /\ response'[c] = [outcome |-> outcome, attempts |-> n, data |-> data, at |-> now]
      /\ \A d \in Calls \ {c} : response'[d] = response[d] /\ pc'[d] = pc[d]
      /\ pc'[c] = "done"
  BY RespondType DEF IInv
<1>2. /\ traces \in Seq([call : Calls, outcome : Outcomes, attempts : Nat])
      /\ traces' = Append(traces, trace)
  BY <1>1 DEF Respond, Trace, TraceOf, IInv, TypeOK
<1>3. /\ Len(traces) \in Nat /\ Len(traces') = Len(traces) + 1
      /\ traces'[Len(traces')] = trace
      /\ \A i \in 1..Len(traces) : traces'[i] = traces[i] /\ traces[i].call \in Calls
  <2>1. \A i \in 1..Len(traces) : traces[i].call \in Calls
    BY TracedCalls DEF IInv
  <2>2. trace \in [call : Calls, outcome : Outcomes, attempts : Nat]
    OBVIOUS
  <2>3. /\ Len(traces) \in Nat /\ Len(traces') = Len(traces) + 1
        /\ traces'[Len(traces) + 1] = trace
        /\ \A i \in 1..Len(traces) : traces'[i] = traces[i]
    BY <1>2, <2>2, AppendProperties
  <2> QED
    BY <2>1, <2>3
<1>4. \A i \in 1..Len(traces) : traces[i].call # c
  BY DEF TraceInv
<1>5. now \in Nat
  BY DEF IInv, TypeOK
<1>6. Len(traces') = Cardinality(Returned')
  <2>1. IsFiniteSet(Returned) /\ c \notin Returned
    BY CallsAssumption, FS_Subset
  <2>2. Returned' = Returned \cup {c}
    BY <1>1
  <2>3. Cardinality(Returned') = Cardinality(Returned) + 1
    BY <2>1, <2>2, FS_AddElement
  <2> QED
    BY <1>3, <2>3 DEF TraceInv, TracesTellAll
<1>7. ASSUME NEW d \in Calls, pc'[d] = "done"
      PROVE  \E i \in 1..Len(traces') :
                traces'[i] = [call |-> d, outcome |-> response'[d].outcome,
                              attempts |-> response'[d].attempts]
  <2>1. CASE d = c
    BY <1>1, <1>3, <2>1
  <2>2. CASE d # c
    <3>1. PICK i \in 1..Len(traces) :
             traces[i] = [call |-> d, outcome |-> response[d].outcome,
                          attempts |-> response[d].attempts]
      BY <1>1, <1>7, <2>2 DEF TraceInv, TracesTellAll
    <3>2. i \in 1..Len(traces') /\ traces'[i] = traces[i] /\ response'[d] = response[d]
      BY <1>1, <1>3, <2>2
    <3> QED
      BY <3>1, <3>2
  <2> QED
    BY <2>1, <2>2
<1>8. ASSUME NEW i \in 1..Len(traces'), NEW j \in 1..Len(traces'), i < j
      PROVE  response'[traces'[i].call].at <= response'[traces'[j].call].at
  <2>1. /\ i \in 1..Len(traces) /\ traces'[i] = traces[i]
        /\ response'[traces[i].call] = response[traces[i].call]
    BY <1>1, <1>3, <1>4, <1>8
  <2>2. CASE j = Len(traces')
    <3>1. response'[traces'[j].call].at = now
      BY <1>1, <1>3, <2>2
    <3>2. response[traces[i].call].at \in 0..now
      BY <1>3, <2>1 DEF TraceInv
    <3> QED
      BY <1>5, <2>1, <3>1, <3>2
  <2>3. CASE j # Len(traces')
    <3>1. /\ j \in 1..Len(traces) /\ traces'[j] = traces[j]
          /\ response'[traces[j].call] = response[traces[j].call]
      BY <1>1, <1>3, <1>4, <2>3
    <3> QED
      BY <1>8, <2>1, <3>1 DEF TraceInv, TracesTellAll
  <2> QED
    BY <2>2, <2>3
<1>9. \A i \in 1..Len(traces') : pc'[traces'[i].call] = "done"
  BY <1>1, <1>3, <1>4 DEF TraceInv
<1>10. \A d \in Calls : pc'[d] = "done" => response'[d].at \in 0..now'
  BY <1>1, <1>5 DEF TraceInv
<1> QED
  BY <1>6, <1>7, <1>8, <1>9, <1>10 DEF TraceInv, TracesTellAll

\* A step in which no call returns.
LEMMA NothingTraced ==
    ASSUME IInv, TraceInv, UNCHANGED <<traces, response>>, now' \in {now, now + 1},
           \A d \in Calls : pc'[d] = "done" <=> pc[d] = "done"
    PROVE  TraceInv'
<1>1. {d \in Calls : pc'[d] = "done"} = {d \in Calls : pc[d] = "done"}
  OBVIOUS
<1>2. now \in Nat /\ \A i \in 1..Len(traces) : traces[i].call \in Calls
  BY TracedCalls DEF IInv, TypeOK
<1>3. TracesTellAll'
  BY <1>1 DEF TraceInv, TracesTellAll
<1>4. \A d \in Calls : pc'[d] = "done" => response'[d].at \in 0..now'
  BY <1>2 DEF TraceInv
<1> QED
  BY <1>2, <1>3, <1>4 DEF TraceInv

LEMMA CatchTraced ==
    ASSUME IInv, TraceInv, NEW c \in Calls, pc[c] = "running", NEW error, Catch(c, error)
    PROVE  TraceInv'
<1>1. CASE CanRetry(c, error)
  BY <1>1, NothingTraced DEF Catch, IInv, TypeOK
<1>2. CASE ~CanRetry(c, error)
  BY <1>2, RespondTraced DEF Catch, IInv, TypeOK, Outcomes
<1> QED
  BY <1>1, <1>2

LEMMA TraceStep == IInv /\ TraceInv /\ [Next]_vars => TraceInv'
<1> SUFFICES ASSUME IInv, TraceInv, [Next]_vars PROVE TraceInv'
  OBVIOUS
<1>1. ASSUME NEW c \in Calls, NEW q \in Requests, ExecuteBlocked(c, q) PROVE TraceInv'
  BY <1>1, RespondTraced DEF ExecuteBlocked, Outcomes
<1>2. ASSUME NEW c \in Calls, NEW q \in Requests, ExecuteCached(c, q) PROVE TraceInv'
  <2>1. cache[q] \in Data \cup {None}
    BY <1>2 DEF ExecuteCached, IInv, TypeOK
  <2> QED
    BY <1>2, <2>1, RespondTraced DEF ExecuteCached, Admit, Outcomes
<1>3. ASSUME NEW c \in Calls, NEW q \in Requests, ExecuteRun(c, q) PROVE TraceInv'
  BY <1>3, NothingTraced DEF ExecuteRun, Admit, Attempt, IInv, TypeOK
<1>4. ASSUME NEW c \in Calls, Answer(c) PROVE TraceInv'
  BY <1>4, RespondTraced DEF Answer, IInv, TypeOK, Outcomes
<1>5. ASSUME NEW c \in Calls, AnswerError(c) \/ Timeout(c) PROVE TraceInv'
  BY <1>5, CatchTraced DEF AnswerError, Timeout
<1>6. ASSUME NEW c \in Calls, Wake(c) PROVE TraceInv'
  BY <1>6, NothingTraced DEF Wake, Attempt, IInv, TypeOK
<1>7. CASE Tick
  BY <1>7, NothingTraced DEF Tick
<1>8. CASE UNCHANGED vars
  BY <1>8, NothingTraced DEF vars
<1> QED
  BY <1>1, <1>2, <1>3, <1>4, <1>5, <1>6, <1>7, <1>8 DEF Next, Quiet

\* Every call that returned has left one trace, in the order of the returns.
THEOREM EveryReturnTraced == Spec => []TracesTellAll
<1>1. Init => TraceInv
  <2> SUFFICES ASSUME Init PROVE TraceInv
    OBVIOUS
  <2>1. {c \in Calls : pc[c] = "done"} = {}
    BY DEF Init
  <2>2. Len(traces) = 0 /\ 1..0 = {}
    BY DEF Init
  <2>3. \A c \in Calls : pc[c] # "done"
    BY DEF Init
  <2>4. Len(traces) = Cardinality({c \in Calls : pc[c] = "done"})
    BY <2>1, <2>2, FS_EmptySet
  <2> QED
    BY <2>2, <2>3, <2>4 DEF TraceInv, TracesTellAll
<1>2. TraceInv => TracesTellAll
  BY DEF TraceInv
<1> QED
  BY <1>1, <1>2, TraceStep, Invariance, PTL DEF Spec
=============================================================================
