---------------------------- MODULE ToolRegistry ----------------------------
(***************************************************************************)
(* ToolRegistry.execute (src/tools/registry.ts) for the tool calls of one  *)
(* run, which the model may issue in parallel: admission, the run's call   *)
(* budget, its result cache, timeouts, retries and traces.                 *)
(*                                                                         *)
(* Node runs one piece of JavaScript at a time, so what execute does       *)
(* between two awaits is one step.  It awaits the connector, raced by a    *)
(* timer, and the sleep before a retry.  Timers fire up to Lag ticks late. *)
(* An answer that arrives after its timer has fired changes nothing        *)
(* (Promise.race is settled) and needs no step.                            *)
(***************************************************************************)
EXTENDS Integers, Sequences, FiniteSets

CONSTANTS
    Calls,            \* invocations of execute in one run
    Reads, Writes,    \* parsed arguments of read-only tools, of the write tool
    Data, None,       \* what the connector can answer; no answer
    MaxCalls,         \* context.maxCalls
    Deadline,         \* context.deadline
    ReadTimeout, WriteTimeout,          \* definition.timeoutMs
    BaseBackoff, MaxBackoff, MaxRetryAfter,   \* RetryPolicy
    RetryAfters,      \* the retryAfterMs a connector may send
    Lag, MaxTime      \* how late a timer may fire; bound of the clock

ASSUME QueryAssumption ==
    /\ Reads \cap Writes = {}
    /\ {"unknown", "forbidden", "malformed"} \cap (Reads \cup Writes) = {}
    /\ None \notin Data
ASSUME CallsAssumption == IsFiniteSet(Calls)
ASSUME LimitAssumption ==
    /\ MaxCalls \in Nat \ {0} /\ Deadline \in Nat \ {0}
    /\ ReadTimeout \in Nat \ {0} /\ WriteTimeout \in Nat \ {0}
    /\ BaseBackoff \in Nat \ {0} /\ MaxRetryAfter \in Nat \ {0}
    /\ MaxBackoff \in Nat /\ BaseBackoff <= MaxBackoff
    /\ RetryAfters \subseteq Nat \ {0}
    /\ Lag \in Nat /\ MaxTime \in Nat

VARIABLES
    now,         \* the clock
    callsUsed,   \* context.callsUsed
    cache,       \* context.resultCache
    traces,      \* context.traces
    pc,          \* where each call is
    request,     \* the tool and arguments of each call
    attempts,    \* attempts made, each one access to the connector
    due,         \* when the timer the call waits for is due
    waiting,     \* the error before the retry the call sleeps for
    response     \* what the call returned, and when

vars == <<now, callsUsed, cache, traces, pc, request, attempts, due, waiting,
          response>>

-----------------------------------------------------------------------------
Queries == Reads \cup Writes

Requests == Queries \cup {"unknown", "forbidden", "malformed"}

Errors == [kind : {"transient", "fatal"}, at : Nat, retryAfter : {0}]
          \cup [kind : {"limited"}, at : Nat, retryAfter : RetryAfters \cup {0}]

NoError == [kind |-> "none", at |-> 0, retryAfter |-> 0]

NoResponse == [outcome |-> "none", attempts |-> 0, data |-> None, at |-> 0]

Outcomes == {"success", "cached", "error", "blocked"}

Responses == [outcome : Outcomes, attempts : Nat, data : Data \cup {None},
              at : Nat]

TypeOK ==
    /\ now \in Nat
    /\ callsUsed \in Nat
    /\ cache \in [Reads -> Data \cup {None}]
    /\ traces \in Seq([call : Calls, outcome : Outcomes, attempts : Nat])
    /\ pc \in [Calls -> {"idle", "running", "sleeping", "done"}]
    /\ request \in [Calls -> Requests \cup {None}]
    /\ attempts \in [Calls -> Nat]
    /\ due \in [Calls -> Nat]
    /\ waiting \in [Calls -> Errors \cup {NoError}]
    /\ response \in [Calls -> Responses \cup {NoResponse}]

Init ==
    /\ now = 0
    /\ callsUsed = 0
    /\ cache = [q \in Reads |-> None]
    /\ traces = <<>>
    /\ pc = [c \in Calls |-> "idle"]
    /\ request = [c \in Calls |-> None]
    /\ attempts = [c \in Calls |-> 0]
    /\ due = [c \in Calls |-> 0]
    /\ waiting = [c \in Calls |-> NoError]
    /\ response = [c \in Calls |-> NoResponse]

-----------------------------------------------------------------------------
(* Mutated forms.                                                          *)

BudgetOffByOne == callsUsed > MaxCalls

AttemptTimeoutUncapped(q) == IF q \in Writes THEN WriteTimeout ELSE ReadTimeout

CacheNothing(q, data) == cache

CacheWithoutArguments(q, data) ==
    [r \in Reads |-> IF q \in Reads THEN data ELSE cache[r]]

RetryDelayIgnoringHint(c, error) == BaseBackoff

TraceOf(c) == [call |-> c, outcome |-> response'[c].outcome,
               attempts |-> response'[c].attempts]

TraceUnlessCached(c) ==
    traces' = IF response'[c].outcome = "cached"
              THEN traces ELSE Append(traces, TraceOf(c))

-----------------------------------------------------------------------------
(* Limits and delays.                                                      *)

LesserOf(m, n) == IF m <= n THEN m ELSE n
GreaterOf(m, n) == IF m >= n THEN m ELSE n

BudgetSpent == callsUsed >= MaxCalls

MaxAttempts(q) == IF q \in Writes THEN 1 ELSE 2

\* The time an attempt gets: the tool's timeout, and never past the deadline.
AttemptTimeout(q) ==
    LesserOf(IF q \in Writes THEN WriteTimeout ELSE ReadTimeout,
             GreaterOf(1, Deadline - now))

TimerAt(delay) == now + delay

Backoff(n) ==
    LesserOf(MaxBackoff, BaseBackoff * (IF n <= 1 THEN 1 ELSE 2 ^ (n - 1)))

\* retryDelayMs; 0 where the code returns null.
RetryDelay(c, error) ==
    CASE error.kind = "fatal" -> 0
      [] error.kind = "transient" -> Backoff(attempts[c])
      [] error.kind = "limited" ->
            IF error.retryAfter > MaxRetryAfter THEN 0 ELSE error.retryAfter

CanRetry(c, error) ==
    /\ request[c] \in Reads
    /\ attempts[c] < MaxAttempts(request[c])
    /\ RetryDelay(c, error) # 0
    /\ now + RetryDelay(c, error) < Deadline

-----------------------------------------------------------------------------
(* Steps of a call.                                                        *)

\* Every return of execute pushes one trace.
Trace(c) == traces' = Append(traces, TraceOf(c))

Respond(c, outcome, n, data) ==
    /\ response' = [response EXCEPT ![c] = [outcome |-> outcome, attempts |-> n,
                                            data |-> data, at |-> now]]
    /\ Trace(c)
    /\ pc' = [pc EXCEPT ![c] = "done"]

\* An attempt starts: the connector is called and the timer set.
Attempt(c, q) ==
    /\ attempts' = [attempts EXCEPT ![c] = @ + 1]
    /\ due' = [due EXCEPT ![c] = TimerAt(AttemptTimeout(q))]
    /\ pc' = [pc EXCEPT ![c] = "running"]

Blocked(q) ==
    \/ q \in {"unknown", "forbidden"}
    \/ BudgetSpent
    \/ now >= Deadline
    \/ q = "malformed"

\* failure() with its default attempts = 1; nothing is spent.
ExecuteBlocked(c, q) ==
    /\ pc[c] = "idle"
    /\ Blocked(q)
    /\ request' = [request EXCEPT ![c] = q]
    /\ Respond(c, "blocked", 1, None)
    /\ UNCHANGED <<now, callsUsed, cache, attempts, due, waiting>>

Admit(c, q) ==
    /\ pc[c] = "idle"
    /\ ~Blocked(q)
    /\ request' = [request EXCEPT ![c] = q]
    /\ callsUsed' = callsUsed + 1

ExecuteCached(c, q) ==
    /\ q \in Reads
    /\ cache[q] # None
    /\ Admit(c, q)
    /\ Respond(c, "cached", 0, cache[q])
    /\ UNCHANGED <<now, cache, attempts, due, waiting>>

ExecuteRun(c, q) ==
    /\ q \in Reads => cache[q] = None
    /\ Admit(c, q)
    /\ Attempt(c, q)
    /\ UNCHANGED <<now, cache, traces, waiting, response>>

CacheAfter(q, data) ==
    IF q \in Reads THEN [cache EXCEPT ![q] = data] ELSE cache

Answer(c) ==
    /\ pc[c] = "running"
    /\ \E data \in Data :
          /\ cache' = CacheAfter(request[c], data)
          /\ Respond(c, "success", attempts[c], data)
    /\ UNCHANGED <<now, callsUsed, request, attempts, due, waiting>>

\* The catch block: sleep and try again, or give up.
Catch(c, error) ==
    /\ IF CanRetry(c, error)
       THEN /\ due' = [due EXCEPT ![c] = TimerAt(RetryDelay(c, error))]
            /\ waiting' = [waiting EXCEPT ![c] = error]
            /\ pc' = [pc EXCEPT ![c] = "sleeping"]
            /\ UNCHANGED <<response, traces>>
       ELSE /\ Respond(c, "error", attempts[c], None)
            /\ UNCHANGED <<due, waiting>>
    /\ UNCHANGED <<now, callsUsed, cache, request, attempts>>

\* The connector fails, or its result is invalid, too large or forbidden by
\* the capabilities ("fatal").
AnswerError(c) ==
    /\ pc[c] = "running"
    /\ \E error \in [kind : {"transient", "fatal"}, at : {now}, retryAfter : {0}]
              \cup [kind : {"limited"}, at : {now}, retryAfter : RetryAfters \cup {0}] :
          Catch(c, error)

Timeout(c) ==
    /\ pc[c] = "running"
    /\ now >= due[c]
    /\ Catch(c, [kind |-> "transient", at |-> now, retryAfter |-> 0])

Wake(c) ==
    /\ pc[c] = "sleeping"
    /\ now >= due[c]
    /\ Attempt(c, request[c])
    /\ UNCHANGED <<now, callsUsed, cache, traces, request, waiting, response>>

-----------------------------------------------------------------------------
\* A due timer fires before the clock has moved more than Lag ticks on.
Tick ==
    /\ now < MaxTime
    /\ \A c \in Calls : pc[c] \in {"running", "sleeping"} => now < due[c] + Lag
    /\ now' = now + 1
    /\ UNCHANGED <<callsUsed, cache, traces, pc, request, attempts, due,
                   waiting, response>>

Quiet ==
    /\ \A c \in Calls : pc[c] = "done"
    /\ UNCHANGED vars

Next ==
    \/ \E c \in Calls :
          \/ \E q \in Requests : \/ ExecuteBlocked(c, q)
                                 \/ ExecuteCached(c, q)
                                 \/ ExecuteRun(c, q)
          \/ Answer(c) \/ AnswerError(c) \/ Timeout(c) \/ Wake(c)
    \/ Tick
    \/ Quiet

Spec == Init /\ [][Next]_vars

-----------------------------------------------------------------------------
(* Properties.                                                             *)

\* Calls that got past the checks.
Admitted == {c \in Calls : attempts[c] > 0 \/ response[c].outcome = "cached"}

\* However calls overlap, the run admits at most maxCalls of them and its
\* counter is exact, so the connector is accessed at most twice per admitted
\* call.
BudgetRespected ==
    /\ callsUsed = Cardinality(Admitted)
    /\ callsUsed <= MaxCalls

\* A write tool is sent once, whatever its answer, and a read is repeated
\* once; a call that is answered from the cache or blocked is never sent.
SentAtMost ==
    \A c \in Calls :
        /\ attempts[c] <= IF request[c] \in Reads THEN 2 ELSE 1
        /\ response[c].outcome \in {"cached", "blocked"} => attempts[c] = 0

\* No call outlives the run's deadline by more than the lateness of the two
\* timers it can be waiting for, whether it times out, sleeps for a retry or
\* retries; a call that arrives after the deadline is answered at once.
EndsInTime ==
    \A c \in Calls :
        /\ pc[c] \in {"running", "sleeping"} => now <= Deadline + 2 * Lag
        /\ response[c].outcome \in {"success", "error"} =>
              response[c].at <= Deadline + 2 * Lag

\* Once a read has succeeded in the run, no later call of the same read is
\* sent to the connector; only calls that overlap can be sent twice.
SuccessIsReused ==
    [][\A c \in Calls :
          (pc[c] = "idle" /\ attempts'[c] > 0) =>
              ~ \E d \in Calls : /\ response[d].outcome = "success"
                                 /\ request[d] = request'[c]
                                 /\ request[d] \in Reads]_vars

\* What the cache answers is what the connector answered to the same read in
\* this run: no failure, no late answer, no answer to another read.
CachedAnswersAreReal ==
    \A c \in Calls : response[c].outcome = "cached" =>
        \E d \in Calls : /\ response[d].outcome = "success"
                         /\ request[d] = request[c]
                         /\ request[d] \in Reads
                         /\ response[d].data = response[c].data

\* A rate limited connector is not called again before the retryAfterMs it
\* asked for has passed.
NoEarlyRetry ==
    [][\A c \in Calls :
          (pc[c] = "sleeping" /\ attempts'[c] > attempts[c]
             /\ waiting[c].kind = "limited") =>
                /\ waiting[c].retryAfter > 0
                /\ now >= waiting[c].at + waiting[c].retryAfter]_vars

\* Every call that returned left exactly one trace, which tells what it did,
\* in the order in which the calls returned.
TracesTellAll ==
    /\ Len(traces) = Cardinality({c \in Calls : pc[c] = "done"})
    /\ \A c \in Calls : pc[c] = "done" =>
          \E i \in 1..Len(traces) :
              traces[i] = [call |-> c, outcome |-> response[c].outcome,
                           attempts |-> response[c].attempts]
    /\ \A i, j \in 1..Len(traces) :
          i < j => response[traces[i].call].at <= response[traces[j].call].at
=============================================================================
