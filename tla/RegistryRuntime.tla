--------------------------- MODULE RegistryRuntime --------------------------
(***************************************************************************)
(* ToolRegistryRuntime (src/server/tool-registry-runtime.ts): the one      *)
(* registry the chat route shares between requests.  Building it probes    *)
(* the capabilities of the connected system and may fail; requests that    *)
(* arrive meanwhile share the promise.  A probe that takes longer than     *)
(* refreshMs is overtaken by a newer one, and its handler still runs when  *)
(* it settles at last.                                                     *)
(***************************************************************************)
EXTENDS Integers, FiniteSets

CONSTANTS
    Requests,    \* chat requests; a probe has the name of the one it was for
    None,
    RefreshMs,   \* refreshMs, in clock ticks
    MaxTime, MaxResets   \* bounds of the clock and of calls of reset()

ASSUME RuntimeAssumption ==
    /\ IsFiniteSet(Requests) /\ None \notin Requests
    /\ RefreshMs \in Nat \ {0} /\ MaxTime \in Nat /\ MaxResets \in Nat

VARIABLES
    now,         \* the clock
    promise,     \* registryPromise: the probe requests share, or None
    createdAt,   \* createdAt
    probe,       \* what became of each probe
    born,        \* when it was started
    joined,      \* the probe whose registry each request waits for
    joinedAt,    \* when it called get()
    cleared      \* history: how often the shared promise was dropped, by what

vars == <<now, promise, createdAt, probe, born, joined, joinedAt, cleared>>

TypeOK ==
    /\ now \in Nat
    /\ promise \in Requests \cup {None}
    /\ createdAt \in Nat
    /\ probe \in [Requests -> {"none", "pending", "ok", "failed"}]
    /\ born \in [Requests -> Nat]
    /\ joined \in [Requests -> Requests \cup {None}]
    /\ joinedAt \in [Requests -> Nat]
    /\ cleared \in [failures : Nat, resets : Nat]

Init ==
    /\ now = 0
    /\ promise = None
    /\ createdAt = 0
    /\ probe = [r \in Requests |-> "none"]
    /\ born = [r \in Requests |-> 0]
    /\ joined = [r \in Requests |-> None]
    /\ joinedAt = [r \in Requests |-> 0]
    /\ cleared = [failures |-> 0, resets |-> 0]

-----------------------------------------------------------------------------
(* Mutated forms.                                                          *)

ExpiredOneTickLate == now - createdAt > RefreshMs

PromiseKept(r) == promise

-----------------------------------------------------------------------------
Expired == now - createdAt >= RefreshMs

\* createdAt after a new probe.
CreatedAtOfNew == now

\* get() of a request that starts a probe.
GetNew(r) ==
    /\ joined[r] = None
    /\ promise = None \/ Expired
    /\ promise' = r
    /\ createdAt' = CreatedAtOfNew
    /\ probe' = [probe EXCEPT ![r] = "pending"]
    /\ born' = [born EXCEPT ![r] = now]
    /\ joined' = [joined EXCEPT ![r] = r]
    /\ joinedAt' = [joinedAt EXCEPT ![r] = now]
    /\ UNCHANGED <<now, cleared>>

\* get() of a request that shares the promise, settled or not.
GetShared(r) ==
    /\ joined[r] = None
    /\ promise # None /\ ~Expired
    /\ joined' = [joined EXCEPT ![r] = promise]
    /\ joinedAt' = [joinedAt EXCEPT ![r] = now]
    /\ UNCHANGED <<now, promise, createdAt, probe, born, cleared>>

Resolve(r) ==
    /\ probe[r] = "pending"
    /\ probe' = [probe EXCEPT ![r] = "ok"]
    /\ UNCHANGED <<now, promise, createdAt, born, joined, joinedAt, cleared>>

\* The catch handler drops the shared promise, whichever probe that is.
PromiseAfterFailure(r) == None

Reject(r) ==
    /\ probe[r] = "pending"
    /\ probe' = [probe EXCEPT ![r] = "failed"]
    /\ promise' = PromiseAfterFailure(r)
    /\ createdAt' = 0
    /\ cleared' = [cleared EXCEPT !.failures = @ + 1]
    /\ UNCHANGED <<now, born, joined, joinedAt>>

Reset ==
    /\ cleared.resets < MaxResets
    /\ promise' = None
    /\ createdAt' = 0
    /\ cleared' = [cleared EXCEPT !.resets = @ + 1]
    /\ UNCHANGED <<now, probe, born, joined, joinedAt>>

Tick ==
    /\ now < MaxTime
    /\ now' = now + 1
    /\ UNCHANGED <<promise, createdAt, probe, born, joined, joinedAt, cleared>>

\* All requests have what they waited for.
Quiet ==
    /\ \A r \in Requests : joined[r] # None /\ probe[r] # "pending"
    /\ UNCHANGED vars

Next ==
    \/ \E r \in Requests : GetNew(r) \/ GetShared(r) \/ Resolve(r) \/ Reject(r)
    \/ Reset \/ Tick \/ Quiet

Spec == Init /\ [][Next]_vars

-----------------------------------------------------------------------------
(* Properties.                                                             *)

\* A failed probe is never shared, also when it is overtaken by another one
\* or reset() intervenes: the next request may try again at once.
FailureNotCached == promise # None => probe[promise] # "failed"

\* No request is given capabilities that were probed refreshMs ago or longer.
NoStaleRegistry ==
    \A r \in Requests : joined[r] # None =>
        /\ born[joined[r]] <= joinedAt[r]
        /\ joinedAt[r] - born[joined[r]] < RefreshMs

\* The connected system is probed at most once per refresh interval, and once
\* more for every time the promise was dropped; the handler of an overtaken
\* probe, which drops a promise that is not its own, costs no more than that.
ProbesBounded ==
    Cardinality({r \in Requests : probe[r] # "none"})
        <= 1 + cleared.failures + cleared.resets + (now \div RefreshMs)
=============================================================================
