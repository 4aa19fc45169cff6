----------------------- MODULE ConnectedRuntimeProofs -----------------------
(***************************************************************************)
(* Proofs about the shared registry, by itself (RegistryRuntime) and with  *)
(* the connector it is built for (ConnectedRuntime), for any requests,     *)
(* refresh interval and bounds: what is cached is neither failed nor old,  *)
(* and what a request is told of capabilities is what the system lacks.    *)
(***************************************************************************)
EXTENDS ConnectedRuntime, FiniteSetTheorems, TLAPS

\* The shared promise is that of a probe which did not fail, and whose start
\* is createdAt.
PromiseOK ==
    /\ createdAt <= now
    /\ promise # None => /\ joined[promise] = promise
                         /\ probe[promise] \notin {"none", "failed"}
                         /\ born[promise] = createdAt

\* A request waits for a probe that was started, by a request that waits for
\* its own; it starts none afterwards.
JoinedOK ==
    \A r \in Requests :
        /\ joined[r] = None => probe[r] = "none"
        /\ joined[r] # None => /\ joined[joined[r]] = joined[r]
                               /\ probe[joined[r]] # "none"
        /\ born[r] <= now

Probed == {r \in Requests : probe[r] # "none"}
Dropped == cleared.failures + cleared.resets

\* As long as there is a promise no interval has been used up since it was
\* made, and one that was dropped pays for the next.
BudgetOK ==
    /\ promise # None => Cardinality(Probed) <= 1 + Dropped + (createdAt \div RefreshMs)
    /\ promise = None => Cardinality(Probed) <= Dropped + (now \div RefreshMs)

IInv == TypeOK /\ PromiseOK /\ JoinedOK /\ NoStaleRegistry

-----------------------------------------------------------------------------
(* The registry.                                                           *)

LEMMA InvInit == Init => IInv
BY RuntimeAssumption DEF Init, IInv, TypeOK, PromiseOK, JoinedOK, NoStaleRegistry

\* A request that starts a probe is not waited for by any other.
LEMMA GetNewStep ==
    ASSUME IInv, NEW r \in Requests, GetNew(r)
    PROVE  IInv'
<1> USE RuntimeAssumption DEF IInv, TypeOK, GetNew, CreatedAtOfNew
<1>1. TypeOK'
  OBVIOUS
<1>2. \A q \in Requests : joined[q] # r
  BY DEF JoinedOK
<1>3. PromiseOK'
  BY DEF PromiseOK
<1>4. JoinedOK'
  BY <1>2 DEF JoinedOK
<1>5. NoStaleRegistry'
  <2> SUFFICES ASSUME NEW q \in Requests, joined'[q] # None
               PROVE  /\ born'[joined'[q]] <= joinedAt'[q]
                      /\ joinedAt'[q] - born'[joined'[q]] < RefreshMs
    BY DEF NoStaleRegistry
  <2>1. CASE q = r
    BY <2>1
  <2>2. CASE q # r
    <3>1. joined'[q] = joined[q] /\ joinedAt'[q] = joinedAt[q] /\ joined[q] \in Requests
      BY <2>2
    <3>2. born'[joined[q]] = born[joined[q]]
      BY <1>2, <3>1
    <3> QED
      BY <3>1, <3>2 DEF NoStaleRegistry
  <2> QED
    BY <2>1, <2>2
<1> QED
  BY <1>1, <1>3, <1>4, <1>5

\* A request that shares the promise has a registry younger than refreshMs.
LEMMA GetSharedStep ==
    ASSUME IInv, NEW r \in Requests, GetShared(r)
    PROVE  IInv'
<1> USE RuntimeAssumption DEF IInv, TypeOK, GetShared, Expired
<1>1. TypeOK'
  OBVIOUS
<1>2. PromiseOK' /\ promise # r
  BY DEF PromiseOK
<1>3. JoinedOK'
  BY <1>2 DEF JoinedOK, PromiseOK
<1>4. NoStaleRegistry'
  BY DEF NoStaleRegistry, PromiseOK
<1> QED
  BY <1>1, <1>2, <1>3, <1>4

LEMMA OtherSteps ==
    ASSUME IInv,
           \/ \E r \in Requests : Resolve(r) \/ Reject(r)
           \/ Reset \/ Tick \/ Quiet \/ UNCHANGED vars
    PROVE  IInv'
<1> USE RuntimeAssumption DEF IInv, TypeOK, PromiseOK, JoinedOK, NoStaleRegistry
<1>1. ASSUME NEW r \in Requests, Resolve(r) PROVE IInv'
  BY <1>1 DEF Resolve
<1>2. ASSUME NEW r \in Requests, Reject(r) PROVE IInv'
  BY <1>2 DEF Reject, PromiseAfterFailure
<1>3. CASE Reset
  BY <1>3 DEF Reset
<1>4. CASE Tick
  BY <1>4 DEF Tick
<1>5. CASE Quiet \/ UNCHANGED vars
  BY <1>5 DEF Quiet, vars
<1> QED
  BY <1>1, <1>2, <1>3, <1>4, <1>5

LEMMA InvStep == IInv /\ [Next]_vars => IInv'
BY GetNewStep, GetSharedStep, OtherSteps DEF Next

\* Promise, waiting requests and probes stay in agreement.
THEOREM Invariance == Spec => []IInv
BY InvInit, InvStep, PTL DEF Spec

\* Every variable of the registry keeps its type.
THEOREM TypeCorrect == Spec => []TypeOK
<1>1. IInv => TypeOK
  BY DEF IInv
<1> QED
  BY <1>1, Invariance, PTL

-----------------------------------------------------------------------------
(* How often the connected system is probed.                               *)

LEMMA DivMonotone ==
    ASSUME NEW a \in Nat, NEW b \in Nat, NEW n \in Nat \ {0}, a <= b
    PROVE  /\ a \div n \in Nat /\ b \div n \in Nat
           /\ a \div n <= b \div n
OBVIOUS

LEMMA DivStep ==
    ASSUME NEW a \in Nat, NEW b \in Nat, NEW n \in Nat \ {0}, b - a >= n
    PROVE  (a \div n) + 1 <= b \div n
OBVIOUS

LEMMA ProbedFinite ==
    /\ IsFiniteSet(Probed) /\ Cardinality(Probed) \in Nat
    /\ IsFiniteSet(Probed') /\ Cardinality(Probed') \in Nat
BY RuntimeAssumption, FS_Subset, FS_CardinalityType DEF Probed

LEMMA SameProbed ==
    ASSUME TypeOK, TypeOK', \A r \in Requests : probe'[r] = "none" <=> probe[r] = "none"
    PROVE  Probed' = Probed
BY DEF Probed

\* A new probe is made without a promise, or when an interval is over.
LEMMA BudgetGetNew ==
    ASSUME IInv, BudgetOK, NEW r \in Requests, GetNew(r)
    PROVE  BudgetOK'
<1> USE RuntimeAssumption
<1> DEFINE n == Cardinality(Probed)
           d == Dropped
<1>1. /\ promise' = r /\ r # None /\ createdAt' = now /\ Dropped' = d
      /\ now \in Nat /\ createdAt \in Nat /\ d \in Nat
      /\ promise = None \/ now - createdAt >= RefreshMs
  BY DEF GetNew, CreatedAtOfNew, Expired, Dropped, IInv, TypeOK
<1>2. Probed' = Probed \cup {r}
  BY DEF GetNew, Probed, IInv, TypeOK
<1>3. Cardinality(Probed') <= n + 1 /\ n \in Nat /\ Cardinality(Probed') \in Nat
  <2>1. \/ Cardinality(Probed') = Cardinality(Probed)
        \/ Cardinality(Probed') = Cardinality(Probed) + 1
    BY <1>2, ProbedFinite, FS_AddElement
  <2> QED
    BY <2>1, ProbedFinite
<1>4. (now \div RefreshMs) \in Nat /\ (createdAt \div RefreshMs) \in Nat
  BY <1>1, DivMonotone
<1>5. n <= d + (now \div RefreshMs)
  <2>1. CASE promise = None
    BY <2>1 DEF BudgetOK
  <2>2. CASE promise # None
    <3>1. (createdAt \div RefreshMs) + 1 <= now \div RefreshMs
      BY <1>1, <2>2, DivStep
    <3>2. n <= 1 + d + (createdAt \div RefreshMs)
      BY <2>2 DEF BudgetOK
    <3> HIDE DEF n, d
    <3> QED
      BY <1>1, <1>3, <1>4, <3>1, <3>2
  <2> QED
    BY <2>1, <2>2
<1>6. Cardinality(Probed') <= 1 + d + (now \div RefreshMs)
  <2> HIDE DEF n, d
  <2> QED
    BY <1>1, <1>3, <1>4, <1>5
<1> QED
  BY <1>1, <1>6 DEF BudgetOK

\* Dropping the promise pays for the next probe, also when another probe's
\* failure drops it; time only adds to what may be spent.
LEMMA BudgetDrop ==
    ASSUME IInv, BudgetOK, promise' = None, Probed' = Probed, now' = now,
           Dropped' = Dropped + 1
    PROVE  BudgetOK'
<1> USE RuntimeAssumption
<1>1. /\ createdAt \in Nat /\ now \in Nat /\ createdAt <= now /\ Dropped \in Nat
  BY DEF IInv, TypeOK, PromiseOK, Dropped
<1>2. /\ (now \div RefreshMs) \in Nat /\ (createdAt \div RefreshMs) \in Nat
      /\ (createdAt \div RefreshMs) <= (now \div RefreshMs)
  BY <1>1, DivMonotone
<1>3. Cardinality(Probed) <= 1 + Dropped + (now \div RefreshMs)
  BY <1>1, <1>2, ProbedFinite DEF BudgetOK
<1> QED
  BY <1>1, <1>2, <1>3 DEF BudgetOK

LEMMA BudgetKept ==
    ASSUME IInv, BudgetOK, Probed' = Probed, now' \in {now, now + 1},
           UNCHANGED <<promise, createdAt, cleared>>
    PROVE  BudgetOK'
<1> USE RuntimeAssumption
<1>1. /\ Dropped' = Dropped /\ Dropped \in Nat
      /\ now \in Nat /\ now' \in Nat /\ now <= now'
  BY DEF Dropped, IInv, TypeOK
<1>2. /\ (now \div RefreshMs) \in Nat /\ (now' \div RefreshMs) \in Nat
      /\ (now \div RefreshMs) <= (now' \div RefreshMs)
  BY <1>1, DivMonotone
<1> QED
  BY <1>1, <1>2, ProbedFinite DEF BudgetOK

LEMMA BudgetStep == IInv /\ BudgetOK /\ [Next]_vars => BudgetOK'
<1> SUFFICES ASSUME IInv, BudgetOK, [Next]_vars
             PROVE  BudgetOK'
  OBVIOUS
<1>0. TypeOK /\ TypeOK'
  BY InvStep DEF IInv
<1>1. ASSUME NEW r \in Requests, GetNew(r) PROVE BudgetOK'
  BY <1>1, BudgetGetNew
<1>2. ASSUME NEW r \in Requests, GetShared(r) \/ Resolve(r) PROVE BudgetOK'
  <2>1. \A q \in Requests : probe'[q] = "none" <=> probe[q] = "none"
    BY <1>0, <1>2 DEF GetShared, Resolve, TypeOK
  <2> QED
    BY <1>0, <1>2, <2>1, SameProbed, BudgetKept DEF GetShared, Resolve
<1>3. ASSUME NEW r \in Requests, Reject(r) PROVE BudgetOK'
  <2>1. \A q \in Requests : probe'[q] = "none" <=> probe[q] = "none"
    BY <1>0, <1>3 DEF Reject, TypeOK
  <2>2. Dropped' = Dropped + 1
    BY <1>0, <1>3 DEF Reject, TypeOK, Dropped
  <2> QED
    BY <1>0, <1>3, <2>1, <2>2, SameProbed, BudgetDrop DEF Reject, PromiseAfterFailure
<1>4. CASE Reset
  <2>1. Dropped' = Dropped + 1
    BY <1>0, <1>4 DEF Reset, TypeOK, Dropped
  <2> QED
    BY <1>0, <1>4, <2>1, SameProbed, BudgetDrop DEF Reset
<1>5. CASE Tick \/ Quiet \/ UNCHANGED vars
  BY <1>0, <1>5, SameProbed, BudgetKept DEF Tick, Quiet, vars
<1> QED
  BY <1>1, <1>2, <1>3, <1>4, <1>5 DEF Next

\* The connected system is probed at most once per refresh interval, and once
\* more for every time the promise was dropped.
THEOREM ProbesAreBounded == Spec => []ProbesBounded
<1>1. Init => BudgetOK
  <2> SUFFICES ASSUME Init PROVE BudgetOK
    OBVIOUS
  <2>1. Probed = {}
    BY DEF Init, Probed
  <2>2. Cardinality(Probed) = 0
    BY <2>1, FS_EmptySet
  <2>3. 0 \div RefreshMs \in Nat
    BY RuntimeAssumption, DivMonotone
  <2> QED
    BY <2>2, <2>3 DEF Init, BudgetOK, Dropped
<1>2. IInv /\ BudgetOK => ProbesBounded
  <2> SUFFICES ASSUME IInv, BudgetOK PROVE ProbesBounded
    OBVIOUS
  <2> USE RuntimeAssumption
  <2>1. /\ createdAt \in Nat /\ now \in Nat /\ createdAt <= now /\ Dropped \in Nat
        /\ cleared.failures \in Nat /\ cleared.resets \in Nat
    BY DEF IInv, TypeOK, PromiseOK, Dropped
  <2>2. /\ (now \div RefreshMs) \in Nat /\ (createdAt \div RefreshMs) \in Nat
        /\ (createdAt \div RefreshMs) <= (now \div RefreshMs)
    BY <2>1, DivMonotone
  <2>3. Cardinality(Probed) <= 1 + Dropped + (now \div RefreshMs)
    BY <2>1, <2>2, ProbedFinite DEF BudgetOK
  <2> QED
    BY <2>1, <2>2, <2>3, ProbedFinite DEF ProbesBounded, Probed, Dropped
<1> QED
  BY <1>1, <1>2, BudgetStep, Invariance, PTL DEF Spec

-----------------------------------------------------------------------------
(* With the connector.                                                     *)

\* What a part of a probe found is so, or was so after the probe was started.
OutcomesOK ==
    \A r \in Requests, p \in Probes :
        /\ outcome[r][p] # "none" => probe[r] # "none"
        /\ probe[r] = "ok" => outcome[r][p] # "none"
        /\ outcome[r][p] = "unsupported" =>
               \E c \in lacks \ Observed : ProbeOf(c) = p
        /\ outcome[r][p] = "unavailable" =>
               ServiceOf(p) \notin up \/ upSince[ServiceOf(p)] >= born[r]

ConnectedInv == IInv /\ ConnectedTypeOK /\ OutcomesOK

\* Without its services the runtime is the registry.
LEMMA ConnectedIsRegistry ==
    /\ ConnectedInit => Init
    /\ [ConnectedNext]_connectedVars => [Next]_vars
BY DEF ConnectedInit, ConnectedNext, connectedVars, Next, GoesDown, Recovers, ProbeSettles,
       Build, BuildFails, GetNewRegistry, GetSharedRegistry, ResetRegistry, TimePasses, Rest

LEMMA ConnectedStep == ConnectedInv /\ [ConnectedNext]_connectedVars => ConnectedInv'
<1> SUFFICES ASSUME ConnectedInv, [ConnectedNext]_connectedVars
             PROVE  ConnectedInv'
  OBVIOUS
<1>0. IInv /\ IInv'
  BY ConnectedIsRegistry, InvStep DEF ConnectedInv
<1> USE RuntimeAssumption, OutageAssumption, <1>0
    DEF ConnectedInv, ConnectedTypeOK, OutcomesOK, IInv, TypeOK, JoinedOK
<1>1. ASSUME NEW s \in Services, GoesDown(s) PROVE ConnectedInv'
  BY <1>1 DEF GoesDown, vars
<1>2. ASSUME NEW s \in Services, Recovers(s) PROVE ConnectedInv'
  BY <1>2 DEF Recovers, vars, Services, ServiceOf, Probes
<1>3. ASSUME NEW r \in Requests, NEW p \in Probes, ProbeSettles(r, p) PROVE ConnectedInv'
  BY <1>3 DEF ProbeSettles, vars, serviceVars, ProbeOutcome
<1>4. ASSUME NEW r \in Requests, GetNewRegistry(r) PROVE ConnectedInv'
  BY <1>4 DEF GetNewRegistry, GetNew, Untouched, serviceVars
<1>5. ASSUME NEW r \in Requests, GetSharedRegistry(r) PROVE ConnectedInv'
  BY <1>5 DEF GetSharedRegistry, GetShared, Untouched, serviceVars
<1>6. ASSUME NEW r \in Requests, Build(r) PROVE ConnectedInv'
  BY <1>6 DEF Build, AllSettled, Resolve, Untouched, serviceVars
<1>7. ASSUME NEW r \in Requests, BuildFails(r) PROVE ConnectedInv'
  BY <1>7 DEF BuildFails, Reject, Untouched, serviceVars
<1>8. CASE ResetRegistry \/ TimePasses
  BY <1>8 DEF ResetRegistry, Reset, TimePasses, Tick, Untouched, serviceVars
<1>9. CASE Rest \/ UNCHANGED connectedVars
  BY <1>9 DEF Rest, Quiet, Untouched, connectedVars, serviceVars, vars
<1> QED
  BY <1>1, <1>2, <1>3, <1>4, <1>5, <1>6, <1>7, <1>8, <1>9 DEF ConnectedNext

LEMMA ConnectedInitially == ConnectedInit => ConnectedInv
<1> SUFFICES ASSUME ConnectedInit PROVE ConnectedInv
  OBVIOUS
<1>1. IInv
  BY ConnectedIsRegistry, InvInit
<1>2. ConnectedTypeOK /\ OutcomesOK
  BY RuntimeAssumption, OutageAssumption
     DEF ConnectedInit, Init, ConnectedTypeOK, OutcomesOK
<1> QED
  BY <1>1, <1>2 DEF ConnectedInv

\* createDomainGoIMConnector: whatever services do, the registry with its real
\* connector only does what the registry alone may do, so that what is proved
\* of the one holds of the other.
THEOREM RuntimeIsRegistry == ConnectedSpec => Spec
BY ConnectedIsRegistry, PTL DEF ConnectedSpec, Spec

\* tool-registry-runtime.ts: the real services, too, are probed at most once
\* per refresh interval, and once more for every time the promise was dropped.
THEOREM RealProbesAreBounded == ConnectedSpec => []ProbesBounded
BY RuntimeIsRegistry, ProbesAreBounded, PTL

\* What the parts of a probe found stays in agreement with services and probes.
THEOREM ConnectedInvariance == ConnectedSpec => []ConnectedInv
BY ConnectedInitially, ConnectedStep, PTL DEF ConnectedSpec

\* Every variable keeps its type, with the services and the registry together.
THEOREM ConnectedTypeCorrect == ConnectedSpec => [](TypeOK /\ ConnectedTypeOK)
<1>1. ConnectedInv => TypeOK /\ ConnectedTypeOK
  BY DEF ConnectedInv, IInv
<1> QED
  BY <1>1, ConnectedInvariance, PTL

\* A failed probe is never shared, whoever drops the promise and when.
THEOREM FailuresNotCached == ConnectedSpec => []FailureNotCached
<1>1. ConnectedInv => FailureNotCached
  BY DEF ConnectedInv, IInv, PromiseOK, FailureNotCached
<1> QED
  BY <1>1, ConnectedInvariance, PTL

\* No request gets capabilities that were probed refreshMs before it came.
THEOREM RegistryIsFresh == ConnectedSpec => []NoStaleRegistry
<1>1. ConnectedInv => NoStaleRegistry
  BY DEF ConnectedInv, IInv
<1> QED
  BY <1>1, ConnectedInvariance, PTL

\* What a request is refused as not supported the system lacks: an outage is
\* reported as one, at the probe and at the call.
THEOREM UnsupportedIsTrue == ConnectedSpec => []UnsupportedIsLacking
<1>1. ConnectedInv => UnsupportedIsLacking
  <2> SUFFICES ASSUME ConnectedInv, NEW r \in Requests, NEW call \in Calls,
                      HasRegistry(r), CodeOf(r, call) = "unsupported",
                      call # "find_conversation"
               PROVE  CapabilityOf(call) \in lacks
    BY DEF UnsupportedIsLacking
  <2> DEFINE c == CapabilityOf(call)
             q == joined[r]
  <2>1. q \in Requests /\ c \in Capabilities /\ ProbeOf(c) \in Probes
    BY DEF HasRegistry, ConnectedInv, IInv, TypeOK, CapabilityOf, Capabilities, ProbeOf, Probes
  <2>2. RefusalOf(call, outcome[q], lacks) = "unsupported"
    BY DEF CodeOf
  <2>3. \/ CapabilitiesOf(outcome[q], lacks)[c] = "unsupported"
        \/ outcome[q][ProbeOf(c)] = "unsupported"
    BY <2>2 DEF RefusalOf, FailureOf
  <2>4. CASE CapabilitiesOf(outcome[q], lacks)[c] = "unsupported"
    BY <2>1, <2>4 DEF CapabilitiesOf
  <2>5. CASE outcome[q][ProbeOf(c)] = "unsupported"
    <3>1. PICK d \in lacks \ Observed : ProbeOf(d) = ProbeOf(c)
      BY <2>1, <2>5 DEF ConnectedInv, OutcomesOK
    <3>2. d = c
      BY <2>1, <3>1 DEF ConnectedInv, ConnectedTypeOK, Capabilities, Observed, ProbeOf
    <3> QED
      BY <3>1, <3>2
  <2> QED
    BY <2>3, <2>4, <2>5
<1> QED
  BY <1>1, ConnectedInvariance, PTL

\* Services fail apart, and one that has recovered is used again by every
\* request that comes a refresh interval later.
THEOREM RecoveryIsSeen == ConnectedSpec => []RecoverySeen
<1>1. ConnectedInv => RecoverySeen
  <2> SUFFICES ASSUME ConnectedInv, NEW r \in Requests, NEW call \in Calls,
                      HasRegistry(r), CodeOf(r, call) = "unavailable",
                      ServiceCalled(call) \in up,
                      ServiceOf(ProbeOf(CapabilityOf(call))) \in up
               PROVE  upSince[ServiceOf(ProbeOf(CapabilityOf(call)))] > joinedAt[r] - RefreshMs
    BY DEF RecoverySeen
  <2> DEFINE c == CapabilityOf(call)
             p == ProbeOf(c)
             q == joined[r]
  <2>1. q \in Requests /\ c \in Capabilities /\ p \in Probes /\ ServiceOf(p) \in Services
    BY DEF HasRegistry, ConnectedInv, IInv, TypeOK, CapabilityOf, Capabilities, ProbeOf, Probes,
           ServiceOf, Services
  <2>2. RefusalOf(call, outcome[q], lacks) = "unavailable"
    BY DEF CodeOf
  <2>3. outcome[q][p] = "unavailable"
    BY <2>2 DEF RefusalOf, FailureOf
  <2>4. upSince[ServiceOf(p)] >= born[q]
    BY <2>1, <2>3 DEF ConnectedInv, OutcomesOK
  <2>5. joinedAt[r] - born[q] < RefreshMs
    BY DEF ConnectedInv, IInv, NoStaleRegistry, HasRegistry
  <2>6. /\ upSince[ServiceOf(p)] \in Int /\ born[q] \in Int
        /\ joinedAt[r] \in Int /\ RefreshMs \in Int
    BY <2>1, RuntimeAssumption DEF ConnectedInv, ConnectedTypeOK, IInv, TypeOK
  <2> QED
    BY <2>4, <2>5, <2>6
<1> QED
  BY <1>1, ConnectedInvariance, PTL

-----------------------------------------------------------------------------
(* What a service says.                                                    *)

\* A page that says it is complete has every stored event of its range.
LEMMA CompletePages == CompletePageIsWhole
<1> SUFFICES ASSUME NEW raw \in Timelines, NEW message \in About,
                    NEW store \in [About -> SUBSET Times],
                    NEW range \in {{"within"}, Times},
                    HonestTimeline(raw, message, store[message]),
                    TimelineOfAsked(raw), Whole(raw)
             PROVE  \/ raw.events \cap range = store["asked"] \cap range
                    \/ message # "asked" /\ raw.names = "none" /\ raw.events = {}
  BY DEF CompletePageIsWhole, DeliveryEvents
<1>1. raw.events = store[message]
  BY DEF HonestTimeline, Whole
<1>2. CASE message = "asked"
  BY <1>1, <1>2
<1>3. CASE message # "asked"
  <2>1. message = "other"
    BY <1>3 DEF About
  <2>2. raw.names = "none" /\ raw.events = {}
    BY <2>1 DEF HonestTimeline, TimelineOfAsked
  <2> QED
    BY <2>2, <1>3
<1> QED
  BY <1>2, <1>3

LEMMA TripleFinite == \A x, y, z : IsFiniteSet({x, y, z})
<1> TAKE x, y, z
<1>1. IsFiniteSet({x}) /\ IsFiniteSet({y}) /\ IsFiniteSet({z})
  BY FS_Singleton
<1>2. IsFiniteSet({x} \cup {y})
  BY <1>1, FS_Union
<1>3. IsFiniteSet(({x} \cup {y}) \cup {z})
  BY <1>1, <1>2, FS_Union
<1>4. ({x} \cup {y}) \cup {z} = {x, y, z}
  OBVIOUS
<1> QED
  BY <1>3, <1>4

LEMMA SingleRow ==
    ASSUME NEW rows \in Rows, NEW store \in SUBSET {1, 2}, Cardinality(rows) = 1,
           {row[2] : row \in rows} = store
    PROVE  Cardinality(store) = 1
<1>1. PICK row \in rows : rows = {row}
  <2>1. IsFiniteSet({<<"within", 1>>, <<"within", 2>>, <<"outside", 1>>})
    BY TripleFinite
  <2>2. IsFiniteSet(rows)
    BY <2>1, FS_Subset DEF Rows
  <2> QED
    BY <2>2, FS_Singleton
<1>2. store = {row[2]}
  BY <1>1
<1> QED
  BY <1>2, FS_Singleton

LEMMA UniqueMatches == UniqueIsOnly
<1> SUFFICES ASSUME NEW raw \in Searches, NEW store \in SUBSET {1, 2},
                    NEW found \in {FoundInRange(raw), FoundUsers(raw)},
                    HonestSearch(raw, store), found.kind = "matches", found.status = "unique"
             PROVE  Cardinality(store) = 1
  BY DEF UniqueIsOnly
<1>1. ResolutionStatus(raw.rows, raw.truncated) = "unique"
  BY DEF FoundInRange, FoundUsers
<1>2. Cardinality(raw.rows) = 1 /\ ~raw.truncated
  BY <1>1 DEF ResolutionStatus
<1>3. raw.rows \in Rows /\ {row[2] : row \in raw.rows} = store
  BY <1>2 DEF HonestSearch, Searches
<1> QED
  BY <1>2, <1>3, SingleRow

LEMMA PastObservations == PastIsLatest
<1> SUFFICES ASSUME NEW raw \in Connections, ConnectionStatus(raw).kind = "connection"
             PROVE  LET answer == ConnectionStatus(raw) IN
                    /\ answer.historical <=> answer.state # "present"
                    /\ answer.state = "earlier" => "latest" \notin raw.observations
  BY DEF PastIsLatest
<1>1. /\ StateShown(raw) # "none"
      /\ ConnectionStatus(raw).state = StateShown(raw)
      /\ ConnectionStatus(raw).historical <=> raw.observations # {}
  BY Zenon DEF ConnectionStatus
<1>2. /\ raw.observations \subseteq {"earlier", "latest"}
      /\ raw.current \in {"none", "present"}
  BY DEF Connections
<1>3. CASE "latest" \in raw.observations
  BY <1>1, <1>3 DEF StateShown
<1>4. CASE raw.observations = {"earlier"}
  BY <1>1, <1>4 DEF StateShown
<1>5. CASE raw.observations = {}
  BY <1>1, <1>2, <1>5 DEF StateShown
<1> QED
  BY <1>2, <1>3, <1>4, <1>5

LEMMA AskedFacts == FactsOfAsked
<1>1. ASSUME NEW raw \in Records, NEW answer \in {MessageStatus(raw), FoundMessage(raw)},
             answer.kind # "internal", raw.found
      PROVE  raw.about = "asked"
  BY <1>1 DEF MessageStatus, FoundMessage, RecordOfAsked, Records
<1>2. ASSUME NEW raw \in Searches, FoundInRange(raw).kind = "matches", raw.rows # {}
      PROVE  raw.about = "asked"
  BY <1>2 DEF FoundInRange, OutOfScope
<1>3. ASSUME NEW raw \in Timelines, DeliveryEvents(raw, Times).kind = "page"
      PROVE  /\ raw.names # "other"
             /\ DeliveryEvents(raw, Times).events # {} => raw.about = "asked"
  <2>1. TimelineOfAsked(raw) /\ DeliveryEvents(raw, Times).events = raw.events \cap Times
    BY <1>3 DEF DeliveryEvents
  <2> QED
    BY <2>1 DEF TimelineOfAsked
<1> QED
  BY <1>1, <1>2, <1>3 DEF FactsOfAsked

\* A call that is let through asks for something the system has: its request
\* has a connector that was built when all parts of its probe had settled.
LEMMA LetThrough ==
    ASSUME ConnectedInv, NEW r \in Requests, HasRegistry(r), NEW call \in Calls,
           CodeOf(r, call) = "none"
    PROVE  CapabilityOf(call) \notin lacks
<1> DEFINE c == CapabilityOf(call)
           q == joined[r]
<1>1. q \in Requests /\ c \in Capabilities /\ ProbeOf(c) \in Probes
  BY DEF HasRegistry, ConnectedInv, IInv, TypeOK, CapabilityOf, Capabilities, ProbeOf, Probes
<1>2. RefusalOf(call, outcome[q], lacks) = "none"
  BY DEF CodeOf
<1>3. /\ CapabilitiesOf(outcome[q], lacks)[c] # "unsupported"
      /\ FailureOf(outcome[q], c) = "none"
  BY <1>2 DEF RefusalOf
<1>4. outcome[q][ProbeOf(c)] # "none"
  BY <1>1 DEF HasRegistry, ConnectedInv, OutcomesOK
<1>5. outcome[q][ProbeOf(c)] = "ok"
  BY <1>3, <1>4 DEF FailureOf
<1> QED
  BY <1>1, <1>3, <1>5 DEF CapabilitiesOf

\* A call that is let through is one the system can answer; if the services
\* keep to their contract, part never passes for whole, nor one message or time
\* for another, but for an empty timeline that names no message.
THEOREM HonestAnswers == ConnectedSpec => []AnswersAreHonest
<1>1. ConnectedInv => AnswersAreHonest
  BY LetThrough, CompletePages, UniqueMatches, PastObservations, AskedFacts
     DEF AnswersAreHonest
<1> QED
  BY <1>1, ConnectedInvariance, PTL
=============================================================================
