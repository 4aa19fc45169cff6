------------------------- MODULE SessionContentProofs -------------------------
(***************************************************************************)
(* What a session holds, proved: the facts and conclusions about a message *)
(* (SessionMerge), the dialogue it remembers (ConversationMemory) and what *)
(* a model call is told of both (ModelContext).                            *)
(***************************************************************************)
EXTENDS SessionMerge, ModelContext, FiniteSetTheorems, SequenceTheorems, TLAPS

-----------------------------------------------------------------------------
(* Every merge yields a case.                                              *)

LEMMA MessageFactIsNotNone == \A m \in MessageFacts : m.message \in Messages
BY DEF MessageFacts

LEMMA RefreshType == ASSUME NEW s \in Cases PROVE Refresh(s) \in Cases
<1>1. Conflicts(s) \subseteq Subjects
  BY DEF Conflicts, FindConflicts, Subjects, Cases
<1> QED
  BY <1>1 DEF Refresh, Cases

LEMMA SucceededType ==
    ASSUME NEW s \in Cases, NEW tool PROVE Succeeded(s, tool) \in Cases
BY DEF Succeeded, Cases

LEMMA RecordConflictType ==
    ASSUME NEW s \in Cases, NEW subject \in Subjects
    PROVE  RecordConflict(s, subject) \in Cases
BY DEF RecordConflict, Cases

LEMMA MergeMatchType ==
    ASSUME NEW s \in Cases, NEW found \in Messages \cup {None}
    PROVE  MergeMatch(s, found) \in Cases
<1>1. [s EXCEPT !.match = "unique"] \in Cases
  BY DEF Cases
<1>2. RecordConflict([s EXCEPT !.match = "unique"], "messageId") \in Cases
  BY <1>1, RecordConflictType DEF Subjects
<1>3. [s EXCEPT !.match = "unique",
                !.messageId = IF found # None THEN found ELSE @] \in Cases
  BY DEF Cases
<1> QED
  BY <1>2, <1>3 DEF MergeMatch

LEMMA MergeMessageType ==
    ASSUME NEW s \in Cases, NEW arg \in Messages, NEW fact \in MessageFacts
    PROVE  MergeMessage(s, arg, fact) \in Cases
<1>1. [s EXCEPT !.messageId = fact.message, !.match = "unique",
                !.message = fact] \in Cases
  BY MessageFactIsNotNone DEF Cases
<1>2. RecordConflict(s, "messageId") \in Cases
  BY RecordConflictType DEF Subjects
<1> QED
  BY <1>1, <1>2 DEF MergeMessage

LEMMA MergeDeliveryType ==
    ASSUME NEW s \in Cases, NEW arg \in Messages, NEW page \in Pages,
           NEW complete \in BOOLEAN
    PROVE  MergeDelivery(s, arg, page, complete) \in Cases
<1> DEFINE error == [tool |-> "get_delivery_events",
                     code |-> "conflicting_evidence"]
           merged == [m \in Messages |-> IF page[m] # None
                                         THEN page[m] ELSE s.deliveries[m]]
<1>1. [s EXCEPT !.errors = @ \cup {error}] \in Cases
  <2>1. error \in [tool : Tools, code : Codes]
    BY DEF Tools, Codes
  <2> HIDE DEF error
  <2> QED
    BY <2>1 DEF Cases
<1>2. merged \in [Messages -> Results \cup {None}]
  BY DEF Pages, Cases
<1>3. [s EXCEPT !.deliveries = merged,
                !.query = [complete |-> complete, asked |-> arg]] \in Cases
  <2> HIDE DEF merged
  <2> QED
    BY <1>2 DEF Cases
<1>4. RecordConflict(s, "delivery.messageId") \in Cases
  BY RecordConflictType DEF Subjects
<1> QED
  BY <1>1, <1>3, <1>4 DEF MergeDelivery

LEMMA MergeConnectionType ==
    ASSUME NEW s \in Cases, NEW arg \in Messages, NEW user \in Messages
    PROVE  MergeConnection(s, arg, user) \in Cases
<1>1. [s EXCEPT !.connection = user] \in Cases
  BY DEF Cases
<1>2. RecordConflict(s, "connection.userId") \in Cases
  BY RecordConflictType DEF Subjects
<1> QED
  BY <1>1, <1>2 DEF MergeConnection

LEMMA MergeErrorType ==
    ASSUME NEW s \in Cases, NEW error \in Failures
    PROVE  MergeError(s, error) \in Cases
<1> DEFINE recorded == [tool |-> error.tool, code |-> error.code]
<1>1. recorded \in [tool : Tools, code : Codes]
  BY ConnectorAssumption DEF Tools, Codes
<1>2. CapabilityOf(error) \in Capabilities
  BY ConnectorAssumption DEF CapabilityOf, Capabilities
<1> HIDE DEF recorded
<1>3. [s EXCEPT !.errors = @ \cup {recorded},
                !.unsupported = IF error.code = "unsupported_capability"
                                THEN @ \cup {CapabilityOf(error)} ELSE @]
        \in Cases
  BY <1>1, <1>2 DEF Cases
<1> QED
  BY <1>3 DEF MergeError, recorded

-----------------------------------------------------------------------------
(* The inductive invariant.                                                *)

\* A case whose message fact is about its confirmed target.
Sound(s) ==
    /\ s \in Cases
    /\ s.message # None => s.message.message = s.messageId

LEMMA RefreshSound == ASSUME NEW s, Sound(s) PROVE Sound(Refresh(s))
<1>1. Refresh(s) \in Cases
  BY RefreshType DEF Sound
<1>2. Refresh(s).message = s.message /\ Refresh(s).messageId = s.messageId
  BY DEF Refresh, Sound, Cases
<1> QED
  BY <1>1, <1>2 DEF Sound

LEMMA SucceededSound ==
    ASSUME NEW s, Sound(s), NEW tool PROVE Sound(Succeeded(s, tool))
<1>1. Succeeded(s, tool) \in Cases
  BY SucceededType DEF Sound
<1>2. /\ Succeeded(s, tool).message = s.message
      /\ Succeeded(s, tool).messageId = s.messageId
  BY DEF Succeeded, Sound, Cases
<1> QED
  BY <1>1, <1>2 DEF Sound

LEMMA RecordConflictKeeps ==
    ASSUME NEW s \in Cases, NEW subject
    PROVE  /\ RecordConflict(s, subject).message = s.message
           /\ RecordConflict(s, subject).messageId = s.messageId
BY DEF RecordConflict, Cases

LEMMA MergeMatchSound ==
    ASSUME NEW s, Sound(s), NEW found \in Messages \cup {None}
    PROVE  Sound(MergeMatch(s, found))
<1> USE NoneAssumption
<1> DEFINE r == MergeMatch(s, found)
           u == [s EXCEPT !.match = "unique"]
<1>1. r \in Cases
  BY MergeMatchType DEF Sound
<1>2. CASE s.messageId # None /\ found # None /\ found # s.messageId
  <2>1. u \in Cases /\ u.message = s.message /\ u.messageId = s.messageId
    BY DEF Sound, Cases
  <2>2. r = RecordConflict(u, "messageId")
    BY <1>2 DEF MergeMatch
  <2> HIDE DEF r, u
  <2>3. r.message = s.message /\ r.messageId = s.messageId
    BY <2>1, <2>2, RecordConflictKeeps
  <2> QED
    BY <1>1, <2>3 DEF Sound, r
<1>3. CASE ~(s.messageId # None /\ found # None /\ found # s.messageId)
  <2>1. r = [s EXCEPT !.match = "unique",
                      !.messageId = IF found # None THEN found ELSE @]
    BY <1>3 DEF MergeMatch
  <2>2. /\ r.message = s.message
        /\ r.messageId = IF found # None THEN found ELSE s.messageId
    BY <2>1 DEF Sound, Cases
  <2>3. s.message # None => s.messageId \in Messages
    BY MessageFactIsNotNone DEF Sound, Cases
  <2> HIDE DEF r
  <2> QED
    BY <1>1, <1>3, <2>2, <2>3 DEF Sound, r
<1> QED
  BY <1>2, <1>3

LEMMA MergeMessageSound ==
    ASSUME NEW s, Sound(s), NEW arg \in Messages, NEW fact \in MessageFacts
    PROVE  Sound(MergeMessage(s, arg, fact))
<1> DEFINE r == MergeMessage(s, arg, fact)
<1>1. r \in Cases
  BY MergeMessageType DEF Sound
<1>2. \/ r.message = s.message /\ r.messageId = s.messageId
      \/ r.message = fact /\ r.messageId = fact.message
  BY RecordConflictKeeps DEF MergeMessage, Sound, Cases
<1> HIDE DEF r
<1> QED
  BY <1>1, <1>2 DEF Sound, r

LEMMA MergeDeliverySound ==
    ASSUME NEW s, Sound(s), NEW arg \in Messages, NEW page \in Pages,
           NEW complete \in BOOLEAN
    PROVE  Sound(MergeDelivery(s, arg, page, complete))
<1> DEFINE r == MergeDelivery(s, arg, page, complete)
<1>1. r \in Cases
  BY MergeDeliveryType DEF Sound
<1>2. r.message = s.message /\ r.messageId = s.messageId
  BY RecordConflictKeeps DEF MergeDelivery, Sound, Cases
<1> HIDE DEF r
<1> QED
  BY <1>1, <1>2 DEF Sound, r

LEMMA MergeConnectionSound ==
    ASSUME NEW s, Sound(s), NEW arg \in Messages, NEW user \in Messages
    PROVE  Sound(MergeConnection(s, arg, user))
<1> DEFINE r == MergeConnection(s, arg, user)
<1>1. r \in Cases
  BY MergeConnectionType DEF Sound
<1>2. r.message = s.message /\ r.messageId = s.messageId
  BY RecordConflictKeeps DEF MergeConnection, Sound, Cases
<1> HIDE DEF r
<1> QED
  BY <1>1, <1>2 DEF Sound, r

LEMMA MergeErrorSound ==
    ASSUME NEW s, Sound(s), NEW error \in Failures
    PROVE  Sound(MergeError(s, error))
<1> DEFINE r == MergeError(s, error)
<1>1. r \in Cases
  BY MergeErrorType DEF Sound
<1>2. r.message = s.message /\ r.messageId = s.messageId
  BY DEF MergeError, Sound, Cases
<1> HIDE DEF r
<1> QED
  BY <1>1, <1>2 DEF Sound, r

LEMMA InvInit == Init => Sound(case)
<1> SUFFICES ASSUME Init PROVE Sound(case)
  OBVIOUS
<1>1. Unknown \in [Messages -> Results \cup {None}]
  BY DEF Unknown
<1>2. Declared \subseteq Capabilities
  BY ConnectorAssumption DEF Capabilities
<1> QED
  BY <1>1, <1>2 DEF Init, Sound, Cases

LEMMA NextRoundSound == Sound(case) /\ NextRound => Sound(case')
<1> SUFFICES ASSUME Sound(case), NextRound PROVE Sound(case')
  OBVIOUS
<1>1. PICK m \in NextCandidates :
        LET s == [case EXCEPT !.candidate = m, !.unsupported = Declared]
            discard == case.messageId = None /\ case.candidate \notin {None, m}
        IN  case' = Refresh(IF discard THEN ForgetCandidate(s) ELSE s)
  BY DEF NextRound
<1> DEFINE s == [case EXCEPT !.candidate = m, !.unsupported = Declared]
<1>2. m \in Messages \cup {None}
  BY DEF NextCandidates, Sound, Cases
<1>3. Declared \subseteq Capabilities
  BY ConnectorAssumption DEF Capabilities
<1>4. Sound(s)
  BY <1>2, <1>3 DEF Sound, Cases
<1>5. Unknown \in [Messages -> Results \cup {None}]
  BY DEF Unknown
<1> HIDE DEF s
<1>6. Sound(ForgetCandidate(s))
  BY <1>4, <1>5 DEF ForgetCandidate, Sound, Cases
<1>7. case' = Refresh(ForgetCandidate(s)) \/ case' = Refresh(s)
  BY <1>1 DEF s
<1> QED
  BY <1>4, <1>6, <1>7, RefreshSound

LEMMA InvStep == Sound(case) /\ [Next]_case => Sound(case')
<1> SUFFICES ASSUME Sound(case), [Next]_case PROVE Sound(case')
  OBVIOUS
<1>1. CASE FindUserOrMessage
  <2> DEFINE s == Succeeded(case, "find_user_or_message")
  <2>1. Sound(s)
    BY SucceededSound
  <2> HIDE DEF s
  <2>2. Sound(MergeNoMatch(s))
    BY <2>1 DEF MergeNoMatch, Sound, Cases
  <2>3. \/ case' = Refresh(MergeNoMatch(s))
        \/ \E found \in Messages \cup {None} : case' = Refresh(MergeMatch(s, found))
    BY <1>1 DEF FindUserOrMessage, s
  <2> QED
    BY <2>1, <2>2, <2>3, MergeMatchSound, RefreshSound
<1>2. CASE GetMessageStatus
  BY <1>2, SucceededSound, MergeMessageSound, RefreshSound DEF GetMessageStatus
<1>3. CASE GetDeliveryEvents
  BY <1>3, SucceededSound, MergeDeliverySound, RefreshSound
     DEF GetDeliveryEvents
<1>4. CASE GetConnectionStatus
  BY <1>4, SucceededSound, MergeConnectionSound, RefreshSound
     DEF GetConnectionStatus
<1>5. CASE ToolFails
  BY <1>5, MergeErrorSound, RefreshSound DEF ToolFails
<1>6. CASE NextRound
  BY <1>6, NextRoundSound
<1>7. CASE UNCHANGED case
  BY <1>7
<1> QED
  BY <1>1, <1>2, <1>3, <1>4, <1>5, <1>6, <1>7 DEF Next

LEMMA Invariance == Spec => []Sound(case)
<1>1. Init => Sound(case)
  BY InvInit
<1>2. Sound(case) /\ [Next]_case => Sound(case)'
  BY InvStep
<1> QED
  BY <1>1, <1>2, PTL DEF Spec

-----------------------------------------------------------------------------
(* Theorems.                                                               *)

\* The session keeps its type through every merge.
THEOREM TypeCorrect == Spec => []TypeOK
<1>1. Sound(case) => TypeOK
  BY DEF Sound, TypeOK
<1> QED
  BY <1>1, Invariance, PTL

\* The message fact is about the confirmed target, whatever tools answer.
THEOREM FactsOfTarget == Spec => []MessageIsTarget
<1>1. Sound(case) => MessageIsTarget
  BY DEF Sound, MessageIsTarget
<1> QED
  BY <1>1, Invariance, PTL

\* No conclusion rests on the events or the connection of another message.
THEOREM ConclusionsOfTarget == Spec => []ConclusionFitsTarget
<1>1. ASSUME Sound(case), Conclusive(case) PROVE ConclusionFitsTarget
  <2>1. ~Blocked(case)
    BY <1>1 DEF Conclusive, Classification
  <2>2. case.message # None /\ FindConflicts(case) = {}
    BY <2>1 DEF Blocked, Conflicts
  <2>3. case.message.message = case.messageId /\ case.messageId \in Messages
    BY <1>1, <2>2, MessageFactIsNotNone DEF Sound, Cases
  <2>4. case.messageId # None
    BY <2>3, NoneAssumption
  <2>5. Target(case) = case.messageId
    BY <2>4 DEF Target
  <2>6. Events(case) \ {Target(case)} = {}
    BY <2>2 DEF FindConflicts
  <2>7. Events(case) \subseteq {case.messageId}
    BY <2>5, <2>6
  <2>8. ASSUME Classification(case) = "receiver_offline"
        PROVE  case.connection = case.messageId
    <3>1. CorrelatedAttempt(case)
      BY <2>8 DEF Classification, Conclude
    <3>2. /\ case.connection \in Messages
          /\ case.deliveries[case.connection] = "attempted"
      BY <1>1, <3>1 DEF CorrelatedAttempt, Sound, Cases
    <3>3. "attempted" # None
      BY NoneAssumption
    <3> QED
      BY <2>7, <3>2, <3>3 DEF Events
  <2> QED
    BY <2>3, <2>4, <2>7, <2>8 DEF ConclusionFitsTarget
<1>2. ~Conclusive(case) => ConclusionFitsTarget
  BY DEF ConclusionFitsTarget
<1> QED
  BY <1>1, <1>2, Invariance, PTL

-----------------------------------------------------------------------------
(* Tool errors.                                                            *)

\* The rules see the facts and the missing capabilities only: what is
\* conclusive stays so when capabilities are added and nothing blocks.
LEMMA FewerUnsupported ==
    ASSUME NEW s, NEW z,
           s.message = z.message, s.deliveries = z.deliveries,
           s.connection = z.connection, s.query = z.query,
           s.unsupported \subseteq z.unsupported,
           ~Blocked(s), Conclusive(z)
    PROVE  Conclusive(s)
<1>1. Events(s) = Events(z)
  BY DEF Events
<1>2. \A r : EventWith(s, r) <=> EventWith(z, r)
  BY DEF EventWith
<1>3. CorrelatedAttempt(s) <=> CorrelatedAttempt(z)
  BY DEF CorrelatedAttempt
<1>4. ConfirmedEmptyQuery(s) <=> ConfirmedEmptyQuery(z)
  BY <1>1 DEF ConfirmedEmptyQuery
<1>5. \A capability :
        capability \in s.unsupported => capability \in z.unsupported
  OBVIOUS
<1>6. ~Blocked(z)
  BY DEF Conclusive, Classification
<1> QED
  BY <1>2, <1>3, <1>4, <1>5, <1>6 DEF Conclusive, Classification, Conclude

\* What blocks a case blocks it with more errors, too.
LEMMA MoreErrorsBlock ==
    ASSUME NEW s, NEW z,
           s.message = z.message, s.messageId = z.messageId,
           s.candidate = z.candidate, s.match = z.match,
           s.deliveries = z.deliveries, s.errors \subseteq z.errors,
           s.conflicts \subseteq z.conflicts,
           ~Blocked(z)
    PROVE  ~Blocked(s)
<1>1. Target(s) = Target(z) /\ Events(s) = Events(z)
  BY DEF Target, Events
<1>2. \A r : EventWith(s, r) <=> EventWith(z, r)
  BY DEF EventWith
<1>3. FindConflicts(s) \subseteq FindConflicts(z)
  BY <1>1, <1>2 DEF FindConflicts
<1>4. ~NotLocated(s)
  BY <1>1 DEF Blocked, NotLocated
<1>5. FindConflicts(z) = {}
  BY DEF Blocked, Conflicts
<1>6. Conflicts(s) = {}
  BY <1>3, <1>4, <1>5 DEF Conflicts
<1>7. s.message # None
  BY DEF Blocked
<1>8. ~\E e \in s.errors : e.code = "conflicting_evidence"
  BY DEF Blocked
<1> QED
  BY <1>4, <1>6, <1>7, <1>8 DEF Blocked

\* A refreshed case that is not blocked was not blocked before the refresh.
LEMMA RefreshBlocks ==
    ASSUME NEW s \in Cases, ~Blocked(Refresh(s))
    PROVE  ~Blocked(s)
<1> DEFINE z == Refresh(s)
<1>1. /\ z.message = s.message /\ z.messageId = s.messageId
      /\ z.candidate = s.candidate /\ z.match = s.match
      /\ z.deliveries = s.deliveries /\ z.errors = s.errors
      /\ z.conflicts = Conflicts(s)
  BY DEF Refresh, Cases
<1> HIDE DEF z
<1>2. ~Blocked(z)
  BY DEF z
<1>3. NotLocated(s) <=> NotLocated(z)
  BY <1>1 DEF NotLocated, Target
<1>4. s.conflicts \subseteq z.conflicts
  <2>1. ~NotLocated(s)
    BY <1>2, <1>3 DEF Blocked
  <2> QED
    BY <1>1, <2>1 DEF Conflicts, FindConflicts
<1> QED
  BY <1>1, <1>2, <1>4, MoreErrorsBlock

\* A failed call.
LEMMA ErrorStep ==
    ASSUME Sound(case), Sound(case'), ToolFails, Conclusive(case')
    PROVE  Conclusive(case)
<1>1. PICK error \in Failures : case' = Refresh(MergeError(case, error))
  BY DEF ToolFails
<1> DEFINE s == MergeError(case, error)
<1>2. s \in Cases
  BY MergeErrorType DEF Sound
<1>3. /\ s.message = case.message /\ s.messageId = case.messageId
      /\ s.candidate = case.candidate /\ s.match = case.match
      /\ s.deliveries = case.deliveries /\ s.conflicts = case.conflicts
      /\ s.connection = case.connection /\ s.query = case.query
      /\ case.errors \subseteq s.errors
      /\ case.unsupported \subseteq s.unsupported
  BY DEF MergeError, Sound, Cases
<1> HIDE DEF s
<1>4. case' = Refresh(s)
  BY <1>1 DEF s
<1>5. /\ case.message = case'.message /\ case.deliveries = case'.deliveries
      /\ case.connection = case'.connection /\ case.query = case'.query
      /\ case.unsupported \subseteq case'.unsupported
  BY <1>2, <1>3, <1>4 DEF Refresh, Cases
<1>6. ~Blocked(case')
  BY DEF Conclusive, Classification
<1>7. ~Blocked(s)
  BY <1>2, <1>4, <1>6, RefreshBlocks
<1>8. ~Blocked(case)
  BY <1>3, <1>7, MoreErrorsBlock
<1> QED
  BY <1>5, <1>8, FewerUnsupported

\* What a merge of a successful answer does to the errors.
LEMMA RefreshErrors ==
    ASSUME NEW s \in Cases PROVE Refresh(s).errors = s.errors
BY DEF Refresh, Cases

LEMMA SucceededErrors ==
    ASSUME NEW s \in Cases, NEW tool PROVE Succeeded(s, tool).errors \subseteq s.errors
BY DEF Succeeded, Cases

LEMMA RecordConflictErrors ==
    ASSUME NEW s \in Cases, NEW subject
    PROVE  RecordConflict(s, subject).errors = s.errors
BY DEF RecordConflict, Cases

LEMMA MergeMatchErrors ==
    ASSUME NEW s \in Cases, NEW found PROVE MergeMatch(s, found).errors = s.errors
<1>1. /\ [s EXCEPT !.match = "unique"] \in Cases
      /\ [s EXCEPT !.match = "unique"].errors = s.errors
  BY DEF Cases
<1>2. [s EXCEPT !.match = "unique",
                !.messageId = IF found # None THEN found ELSE @].errors = s.errors
  BY DEF Cases
<1> QED
  BY <1>1, <1>2, RecordConflictErrors DEF MergeMatch

LEMMA MergeMessageErrors ==
    ASSUME NEW s \in Cases, NEW arg, NEW fact
    PROVE  MergeMessage(s, arg, fact).errors = s.errors
<1>1. [s EXCEPT !.messageId = fact.message, !.match = "unique",
                !.message = fact].errors = s.errors
  BY DEF Cases
<1> QED
  BY <1>1, RecordConflictErrors DEF MergeMessage

LEMMA MergeConnectionErrors ==
    ASSUME NEW s \in Cases, NEW arg, NEW user
    PROVE  MergeConnection(s, arg, user).errors = s.errors
<1>1. [s EXCEPT !.connection = user].errors = s.errors
  BY DEF Cases
<1> QED
  BY <1>1, RecordConflictErrors DEF MergeConnection

\* A delivery page that leaves an error blocks the diagnosis.
LEMMA MergeDeliveryErrors ==
    ASSUME NEW s \in Cases, NEW arg, NEW page, NEW complete
    PROVE  LET r == MergeDelivery(s, arg, page, complete)
           IN  \/ r.errors = s.errors
               \/ \E e \in r.errors : e.code = "conflicting_evidence"
<1> DEFINE error == [tool |-> "get_delivery_events",
                     code |-> "conflicting_evidence"]
           merged == [m \in Messages |-> IF page[m] # None
                                         THEN page[m] ELSE s.deliveries[m]]
           refused == [s EXCEPT !.errors = @ \cup {error}]
           taken == [s EXCEPT !.deliveries = merged,
                              !.query = [complete |-> complete, asked |-> arg]]
<1>1. error.code = "conflicting_evidence"
  OBVIOUS
<1>2. error \in refused.errors
  <2> HIDE DEF error
  <2> QED
    BY DEF Cases
<1>3. taken.errors = s.errors
  <2> HIDE DEF merged
  <2> QED
    BY DEF Cases
<1>4. RecordConflict(s, "delivery.messageId").errors = s.errors
  BY RecordConflictErrors
<1>5. \/ MergeDelivery(s, arg, page, complete)
           = RecordConflict(s, "delivery.messageId")
      \/ MergeDelivery(s, arg, page, complete) = refused
      \/ MergeDelivery(s, arg, page, complete) = taken
  BY DEF MergeDelivery
<1> HIDE DEF error, merged, refused, taken
<1> QED
  BY <1>1, <1>2, <1>3, <1>4, <1>5

LEMMA RoundErrors ==
    ASSUME Sound(case), NextRound PROVE case'.errors \subseteq case.errors
<1>1. PICK m \in NextCandidates :
        LET s == [case EXCEPT !.candidate = m, !.unsupported = Declared]
            discard == case.messageId = None /\ case.candidate \notin {None, m}
        IN  case' = Refresh(IF discard THEN ForgetCandidate(s) ELSE s)
  BY DEF NextRound
<1> DEFINE s == [case EXCEPT !.candidate = m, !.unsupported = Declared]
<1>2. Unknown \in [Messages -> Results \cup {None}]
  BY DEF Unknown
<1>3. m \in Messages \cup {None} /\ Declared \subseteq Capabilities
  BY ConnectorAssumption DEF NextCandidates, Sound, Cases, Capabilities
<1>4. s \in Cases /\ s.errors = case.errors
  BY <1>3 DEF Sound, Cases
<1> HIDE DEF s
<1>5. ForgetCandidate(s) \in Cases /\ ForgetCandidate(s).errors = {}
  BY <1>2, <1>4 DEF ForgetCandidate, Cases
<1>6. case' = Refresh(ForgetCandidate(s)) \/ case' = Refresh(s)
  BY <1>1 DEF s
<1> QED
  BY <1>4, <1>5, <1>6, RefreshErrors

\* No tool error is a business conclusion: a step that records one leaves an
\* inconclusive diagnosis inconclusive.
THEOREM NoConclusionFromErrors == Spec => ErrorsConcludeNothing
<1>1. ASSUME Sound(case), Sound(case'), [Next]_case,
             ~(case'.errors \subseteq case.errors), Conclusive(case')
      PROVE  Conclusive(case)
  <2>1. \A tool : /\ Succeeded(case, tool) \in Cases
                   /\ Succeeded(case, tool).errors \subseteq case.errors
    BY <1>1, SucceededType, SucceededErrors DEF Sound
  <2>2. CASE FindUserOrMessage
    <3> DEFINE f == Succeeded(case, "find_user_or_message")
    <3>1. f \in Cases /\ f.errors \subseteq case.errors
      BY <2>1
    <3>2. \/ case' = Refresh(MergeNoMatch(f))
          \/ \E found \in Messages \cup {None} : case' = Refresh(MergeMatch(f, found))
      BY <2>2 DEF FindUserOrMessage
    <3> HIDE DEF f
    <3>3. MergeNoMatch(f) \in Cases /\ MergeNoMatch(f).errors = f.errors
      BY <3>1 DEF MergeNoMatch, Cases
    <3>4. case'.errors = f.errors
      BY <3>1, <3>2, <3>3, RefreshErrors, MergeMatchType, MergeMatchErrors
    <3> QED
      BY <1>1, <3>1, <3>4
  <2>3. CASE GetMessageStatus
    <3> DEFINE g == Succeeded(case, "get_message_status")
    <3>1. PICK arg \in Messages, fact \in MessageFacts :
            case' = Refresh(MergeMessage(g, arg, fact))
      BY <2>3 DEF GetMessageStatus
    <3>2. g \in Cases /\ g.errors \subseteq case.errors
      BY <2>1
    <3> HIDE DEF g
    <3>3. case'.errors = g.errors
      BY <3>1, <3>2, RefreshErrors, MergeMessageType, MergeMessageErrors
    <3> QED
      BY <1>1, <3>2, <3>3
  <2>4. CASE GetDeliveryEvents
    <3> DEFINE d == Succeeded(case, "get_delivery_events")
    <3>1. PICK arg \in Messages, page \in Pages, complete \in BOOLEAN :
            case' = Refresh(MergeDelivery(d, arg, page, complete))
      BY <2>4 DEF GetDeliveryEvents
    <3>2. d \in Cases /\ d.errors \subseteq case.errors
      BY <2>1
    <3> HIDE DEF d
    <3>3. \/ case'.errors = d.errors
          \/ \E e \in case'.errors : e.code = "conflicting_evidence"
      BY <3>1, <3>2, RefreshErrors, MergeDeliveryType, MergeDeliveryErrors
    <3>4. ~\E e \in case'.errors : e.code = "conflicting_evidence"
      BY <1>1 DEF Conclusive, Classification, Blocked
    <3> QED
      BY <1>1, <3>2, <3>3, <3>4
  <2>5. CASE GetConnectionStatus
    <3> DEFINE c == Succeeded(case, "get_connection_status")
    <3>1. PICK arg \in Messages, user \in Messages :
            case' = Refresh(MergeConnection(c, arg, user))
      BY <2>5 DEF GetConnectionStatus
    <3>2. c \in Cases /\ c.errors \subseteq case.errors
      BY <2>1
    <3> HIDE DEF c
    <3>3. case'.errors = c.errors
      BY <3>1, <3>2, RefreshErrors, MergeConnectionType, MergeConnectionErrors
    <3> QED
      BY <1>1, <3>2, <3>3
  <2>6. CASE ToolFails
    BY <1>1, <2>6, ErrorStep
  <2>7. CASE NextRound
    BY <1>1, <2>7, RoundErrors
  <2>8. CASE UNCHANGED case
    BY <1>1, <2>8
  <2> QED
    BY <1>1, <2>2, <2>3, <2>4, <2>5, <2>6, <2>7, <2>8 DEF Next
<1>2. Sound(case) /\ Sound(case)' /\ [Next]_case =>
        [(~(case'.errors \subseteq case.errors) /\ Conclusive(case'))
            => Conclusive(case)]_case
  BY <1>1
<1>3. Spec => [][Next]_case
  BY DEF Spec
<1> QED
  BY <1>2, <1>3, Invariance, PTL DEF ErrorsConcludeNothing
-----------------------------------------------------------------------------
(* The order of parallel answers.                                          *)

\* What refreshDiagnosis leaves behind: of a message that is not located no
\* conflict is on record.
Refreshed(s) == NotLocated(s) => s.conflicts = {}

LEMMA RefreshLeavesRefreshed ==
    ASSUME NEW s \in Cases PROVE Refreshed(Refresh(s))
<1> DEFINE z == Refresh(s)
<1>1. /\ z.messageId = s.messageId /\ z.candidate = s.candidate
      /\ z.match = s.match /\ z.errors = s.errors
      /\ z.conflicts = Conflicts(s)
  BY DEF Refresh, Cases
<1> HIDE DEF z
<1>2. NotLocated(z) <=> NotLocated(s)
  BY <1>1 DEF NotLocated, Target
<1>3. Refreshed(z)
  BY <1>1, <1>2 DEF Refreshed, Conflicts
<1> QED
  BY <1>3 DEF z

\* Every step ends with a refresh.
LEMMA StepsRefresh ==
    ASSUME Sound(case), Next
    PROVE  \E s \in Cases : case' = Refresh(s)
<1>1. \A tool : Succeeded(case, tool) \in Cases
  BY SucceededType DEF Sound
<1>2. CASE FindUserOrMessage
  <2> DEFINE f == Succeeded(case, "find_user_or_message")
  <2>1. f \in Cases
    BY <1>1
  <2>2. \/ case' = Refresh(MergeNoMatch(f))
        \/ \E found \in Messages \cup {None} : case' = Refresh(MergeMatch(f, found))
    BY <1>2 DEF FindUserOrMessage
  <2> HIDE DEF f
  <2>3. MergeNoMatch(f) \in Cases
    BY <2>1 DEF MergeNoMatch, Cases
  <2> QED
    BY <2>1, <2>2, <2>3, MergeMatchType
<1>3. CASE GetMessageStatus
  BY <1>1, <1>3, MergeMessageType DEF GetMessageStatus
<1>4. CASE GetDeliveryEvents
  BY <1>1, <1>4, MergeDeliveryType DEF GetDeliveryEvents
<1>5. CASE GetConnectionStatus
  BY <1>1, <1>5, MergeConnectionType DEF GetConnectionStatus
<1>6. CASE ToolFails
  BY <1>6, MergeErrorType DEF ToolFails, Sound
<1>7. CASE NextRound
  <2>1. PICK m \in NextCandidates :
          LET s == [case EXCEPT !.candidate = m, !.unsupported = Declared]
              discard == case.messageId = None /\ case.candidate \notin {None, m}
          IN  case' = Refresh(IF discard THEN ForgetCandidate(s) ELSE s)
    BY <1>7 DEF NextRound
  <2> DEFINE s == [case EXCEPT !.candidate = m, !.unsupported = Declared]
  <2>2. m \in Messages \cup {None} /\ Declared \subseteq Capabilities
    BY ConnectorAssumption DEF NextCandidates, Sound, Cases, Capabilities
  <2>3. s \in Cases
    BY <2>2 DEF Sound, Cases
  <2>4. Unknown \in [Messages -> Results \cup {None}]
    BY DEF Unknown
  <2> HIDE DEF s
  <2>5. ForgetCandidate(s) \in Cases
    BY <2>3, <2>4 DEF ForgetCandidate, Cases
  <2>6. case' = Refresh(ForgetCandidate(s)) \/ case' = Refresh(s)
    BY <2>1 DEF s
  <2> QED
    BY <2>3, <2>5, <2>6
<1> QED
  BY <1>2, <1>3, <1>4, <1>5, <1>6, <1>7 DEF Next

LEMMA AlwaysRefreshed == Spec => []Refreshed(case)
<1>1. Init => Refreshed(case)
  BY DEF Init, Refreshed
<1>2. Sound(case) /\ Refreshed(case) /\ [Next]_case => Refreshed(case)'
  <2> SUFFICES ASSUME Sound(case), Refreshed(case), [Next]_case
               PROVE  Refreshed(case')
    OBVIOUS
  <2>1. CASE Next
    BY <2>1, StepsRefresh, RefreshLeavesRefreshed
  <2>2. CASE UNCHANGED case
    BY <2>2
  <2> QED
    BY <2>1, <2>2
<1> QED
  BY <1>1, <1>2, Invariance, PTL DEF Spec

\* Two cases with the same fields are the same.
LEMMA SameCase ==
    ASSUME NEW s \in Cases, NEW z \in Cases,
           s.candidate = z.candidate, s.messageId = z.messageId,
           s.match = z.match, s.message = z.message,
           s.deliveries = z.deliveries, s.connection = z.connection,
           s.query = z.query, s.conflicts = z.conflicts, s.errors = z.errors,
           s.unsupported = z.unsupported, s.disputed = z.disputed
    PROVE  s = z
BY DEF Cases

\* The first answer about the target is in conflict with nothing, so that the
\* refresh after it changes nothing.
LEMMA FirstAnswer ==
    ASSUME NEW s \in Cases, Refreshed(s), Target(s) # None,
           NEW z \in Cases, z.conflicts = s.conflicts, z.errors = s.errors,
           Target(z) = Target(s), z.match \in {s.match, "unique"},
           z.message = None \/ z.message.message = Target(z),
           Events(z) = {} \/ (z.message = None /\ Events(z) \subseteq {Target(z)})
    PROVE  Refresh(z) = z
<1>1. Conflicts(z) = z.conflicts
  <2>1. CASE NotLocated(z)
    <3>1. NotLocated(s)
      BY <2>1 DEF NotLocated
    <3> QED
      BY <2>1, <3>1 DEF Refreshed, Conflicts
  <2>2. CASE ~NotLocated(z)
    BY <2>2 DEF Conflicts, FindConflicts
  <2> QED
    BY <2>1, <2>2
<1> QED
  BY <1>1 DEF Refresh, Cases

\* The three merges, where they are accepted.
LEMMA StatusTaken ==
    ASSUME NEW s \in Cases, NEW t \in Messages, s.messageId \in {None, t},
           NEW kind \in Kinds
    PROVE  LET r == MergeMessage(s, t, [message |-> t, kind |-> kind])
           IN  /\ r \in Cases
               /\ r.messageId = t /\ r.match = "unique"
               /\ r.message = [message |-> t, kind |-> kind]
               /\ r.candidate = s.candidate /\ r.deliveries = s.deliveries
               /\ r.connection = s.connection /\ r.query = s.query
               /\ r.conflicts = s.conflicts /\ r.errors = s.errors
               /\ r.unsupported = s.unsupported /\ r.disputed = s.disputed
<1> DEFINE fact == [message |-> t, kind |-> kind]
           r == MergeMessage(s, t, fact)
<1>1. fact \in MessageFacts /\ fact.message = t
  BY DEF MessageFacts
<1> HIDE DEF fact
<1>2. r \in Cases
  BY <1>1, MergeMessageType
<1>3. r = [s EXCEPT !.messageId = t, !.match = "unique", !.message = fact]
  BY <1>1 DEF MergeMessage
<1> HIDE DEF r
<1>4. /\ r.messageId = t /\ r.match = "unique" /\ r.message = fact
      /\ r.candidate = s.candidate /\ r.deliveries = s.deliveries
      /\ r.connection = s.connection /\ r.query = s.query
      /\ r.conflicts = s.conflicts /\ r.errors = s.errors
      /\ r.unsupported = s.unsupported /\ r.disputed = s.disputed
  BY <1>3 DEF Cases
<1> QED
  BY <1>2, <1>4 DEF fact, r

LEMMA DeliveryTaken ==
    ASSUME NEW s \in Cases, NEW t \in Messages, s.messageId \in {None, t},
           Events(s) = {}, NEW result \in Results \cup {None},
           NEW complete \in BOOLEAN
    PROVE  LET page == [Unknown EXCEPT ![t] = result]
               r == MergeDelivery(s, t, page, complete)
           IN  /\ r \in Cases
               /\ r.deliveries = page
               /\ r.query = [complete |-> complete, asked |-> t]
               /\ r.candidate = s.candidate /\ r.messageId = s.messageId
               /\ r.match = s.match /\ r.message = s.message
               /\ r.connection = s.connection
               /\ r.conflicts = s.conflicts /\ r.errors = s.errors
               /\ r.unsupported = s.unsupported /\ r.disputed = s.disputed
<1> DEFINE page == [Unknown EXCEPT ![t] = result]
           merged == [m \in Messages |-> IF page[m] # None THEN page[m]
                                         ELSE s.deliveries[m]]
           query == [complete |-> complete, asked |-> t]
           r == MergeDelivery(s, t, page, complete)
<1>1. /\ page \in [Messages -> Results \cup {None}]
      /\ page[t] = result /\ \A m \in Messages \ {t} : page[m] = None
  BY DEF Unknown
<1> HIDE DEF page
<1>2. page \in Pages
  BY <1>1 DEF Pages
<1>3. r \in Cases
  BY <1>2, MergeDeliveryType
<1>4. s.deliveries \in [Messages -> Results \cup {None}]
      /\ \A m \in Messages : s.deliveries[m] = None
  BY DEF Events, Cases
<1>5. merged = page
  BY <1>1, <1>4
<1>6. r = [s EXCEPT !.deliveries = merged, !.query = query]
  <2>1. ~\E m \in Messages \ {t} : page[m] # None
    BY <1>1
  <2> QED
    BY <1>4, <2>1 DEF MergeDelivery, Cases
<1> HIDE DEF r, merged, query
<1>7. /\ r.deliveries = merged /\ r.query = query
      /\ r.candidate = s.candidate /\ r.messageId = s.messageId
      /\ r.match = s.match /\ r.message = s.message
      /\ r.connection = s.connection
      /\ r.conflicts = s.conflicts /\ r.errors = s.errors
      /\ r.unsupported = s.unsupported /\ r.disputed = s.disputed
  BY <1>6 DEF Cases
<1> QED
  BY <1>3, <1>5, <1>7 DEF page, query, r

LEMMA ConnectionTaken ==
    ASSUME NEW s \in Cases, NEW t \in Messages,
           s.message = None \/ s.message.message = t
    PROVE  LET r == MergeConnection(s, t, t)
           IN  /\ r \in Cases
               /\ r.connection = t
               /\ r.candidate = s.candidate /\ r.messageId = s.messageId
               /\ r.match = s.match /\ r.message = s.message
               /\ r.deliveries = s.deliveries /\ r.query = s.query
               /\ r.conflicts = s.conflicts /\ r.errors = s.errors
               /\ r.unsupported = s.unsupported /\ r.disputed = s.disputed
<1> DEFINE r == MergeConnection(s, t, t)
<1>1. r \in Cases
  BY MergeConnectionType
<1>2. r = [s EXCEPT !.connection = t]
  BY DEF MergeConnection
<1> HIDE DEF r
<1>3. /\ r.connection = t
      /\ r.candidate = s.candidate /\ r.messageId = s.messageId
      /\ r.match = s.match /\ r.message = s.message
      /\ r.deliveries = s.deliveries /\ r.query = s.query
      /\ r.conflicts = s.conflicts /\ r.errors = s.errors
      /\ r.unsupported = s.unsupported /\ r.disputed = s.disputed
  BY <1>2 DEF Cases
<1> QED
  BY <1>1, <1>3 DEF r

LEMMA StatusAndDelivery ==
    ASSUME NEW s \in Cases, NEW t \in Messages, s.messageId \in {None, t},
           Events(s) = {}, NEW kind \in Kinds, NEW result \in Results \cup {None},
           NEW complete \in BOOLEAN
    PROVE  LET fact == [message |-> t, kind |-> kind]
               page == [Unknown EXCEPT ![t] = result]
           IN  MergeMessage(MergeDelivery(s, t, page, complete), t, fact)
                 = MergeDelivery(MergeMessage(s, t, fact), t, page, complete)
<1> DEFINE fact == [message |-> t, kind |-> kind]
           page == [Unknown EXCEPT ![t] = result]
           d == MergeDelivery(s, t, page, complete)
           m == MergeMessage(s, t, fact)
           dm == MergeMessage(d, t, fact)
           md == MergeDelivery(m, t, page, complete)
<1>1. /\ d \in Cases /\ d.messageId = s.messageId
      /\ d.deliveries = page /\ d.query = [complete |-> complete, asked |-> t]
      /\ d.candidate = s.candidate /\ d.connection = s.connection
      /\ d.conflicts = s.conflicts /\ d.errors = s.errors
      /\ d.unsupported = s.unsupported /\ d.disputed = s.disputed
  BY DeliveryTaken
<1>2. /\ m \in Cases /\ m.messageId = t
      /\ m.match = "unique" /\ m.message = fact /\ m.deliveries = s.deliveries
      /\ m.candidate = s.candidate /\ m.connection = s.connection
      /\ m.conflicts = s.conflicts /\ m.errors = s.errors
      /\ m.unsupported = s.unsupported /\ m.disputed = s.disputed
  BY StatusTaken
<1>3. Events(m) = {}
  BY <1>2 DEF Events
<1> HIDE DEF d, m
<1>4. /\ dm \in Cases
      /\ dm.messageId = t /\ dm.match = "unique" /\ dm.message = fact
      /\ dm.candidate = d.candidate /\ dm.deliveries = d.deliveries
      /\ dm.connection = d.connection /\ dm.query = d.query
      /\ dm.conflicts = d.conflicts /\ dm.errors = d.errors
      /\ dm.unsupported = d.unsupported /\ dm.disputed = d.disputed
  BY <1>1, StatusTaken
<1>5. /\ md \in Cases
      /\ md.deliveries = page /\ md.query = [complete |-> complete, asked |-> t]
      /\ md.candidate = m.candidate /\ md.messageId = m.messageId
      /\ md.match = m.match /\ md.message = m.message
      /\ md.connection = m.connection
      /\ md.conflicts = m.conflicts /\ md.errors = m.errors
      /\ md.unsupported = m.unsupported /\ md.disputed = m.disputed
  BY <1>2, <1>3, DeliveryTaken
<1> HIDE DEF dm, md, fact, page
<1>6. dm = md
  BY <1>1, <1>2, <1>4, <1>5, SameCase
<1> QED
  BY <1>6 DEF dm, md, d, m, fact, page

LEMMA StatusAndConnection ==
    ASSUME NEW s \in Cases, NEW t \in Messages, s.messageId \in {None, t},
           s.message = None, NEW kind \in Kinds
    PROVE  LET fact == [message |-> t, kind |-> kind]
           IN  MergeMessage(MergeConnection(s, t, t), t, fact)
                 = MergeConnection(MergeMessage(s, t, fact), t, t)
<1> DEFINE fact == [message |-> t, kind |-> kind]
           c == MergeConnection(s, t, t)
           m == MergeMessage(s, t, fact)
           cm == MergeMessage(c, t, fact)
           mc == MergeConnection(m, t, t)
<1>1. /\ c \in Cases /\ c.messageId = s.messageId
      /\ c.connection = t /\ c.deliveries = s.deliveries /\ c.query = s.query
      /\ c.candidate = s.candidate
      /\ c.conflicts = s.conflicts /\ c.errors = s.errors
      /\ c.unsupported = s.unsupported /\ c.disputed = s.disputed
  BY ConnectionTaken
<1>2. /\ m \in Cases /\ m.messageId = t
      /\ m.match = "unique" /\ m.message = fact
      /\ m.deliveries = s.deliveries /\ m.query = s.query
      /\ m.candidate = s.candidate
      /\ m.conflicts = s.conflicts /\ m.errors = s.errors
      /\ m.unsupported = s.unsupported /\ m.disputed = s.disputed
  BY StatusTaken
<1>3. m.message.message = t
  BY <1>2
<1> HIDE DEF c, m
<1>4. /\ cm \in Cases
      /\ cm.messageId = t /\ cm.match = "unique" /\ cm.message = fact
      /\ cm.candidate = c.candidate /\ cm.deliveries = c.deliveries
      /\ cm.connection = c.connection /\ cm.query = c.query
      /\ cm.conflicts = c.conflicts /\ cm.errors = c.errors
      /\ cm.unsupported = c.unsupported /\ cm.disputed = c.disputed
  BY <1>1, StatusTaken
<1>5. /\ mc \in Cases
      /\ mc.connection = t
      /\ mc.candidate = m.candidate /\ mc.messageId = m.messageId
      /\ mc.match = m.match /\ mc.message = m.message
      /\ mc.deliveries = m.deliveries /\ mc.query = m.query
      /\ mc.conflicts = m.conflicts /\ mc.errors = m.errors
      /\ mc.unsupported = m.unsupported /\ mc.disputed = m.disputed
  BY <1>2, <1>3, ConnectionTaken
<1> HIDE DEF cm, mc, fact
<1>6. cm = mc
  BY <1>1, <1>2, <1>4, <1>5, SameCase
<1> QED
  BY <1>6 DEF cm, mc, c, m, fact

LEMMA DeliveryAndConnection ==
    ASSUME NEW s \in Cases, NEW t \in Messages, s.messageId \in {None, t},
           s.message = None, Events(s) = {}, NEW result \in Results \cup {None},
           NEW complete \in BOOLEAN
    PROVE  LET page == [Unknown EXCEPT ![t] = result]
           IN  MergeConnection(MergeDelivery(s, t, page, complete), t, t)
                 = MergeDelivery(MergeConnection(s, t, t), t, page, complete)
<1> DEFINE page == [Unknown EXCEPT ![t] = result]
           query == [complete |-> complete, asked |-> t]
           d == MergeDelivery(s, t, page, complete)
           c == MergeConnection(s, t, t)
           dc == MergeConnection(d, t, t)
           cd == MergeDelivery(c, t, page, complete)
<1>1. /\ d \in Cases /\ d.messageId = s.messageId
      /\ d.match = s.match /\ d.message = s.message
      /\ d.deliveries = page /\ d.query = query
      /\ d.candidate = s.candidate
      /\ d.conflicts = s.conflicts /\ d.errors = s.errors
      /\ d.unsupported = s.unsupported /\ d.disputed = s.disputed
  BY DeliveryTaken
<1>2. /\ c \in Cases /\ c.messageId = s.messageId
      /\ c.match = s.match /\ c.message = s.message
      /\ c.connection = t /\ c.deliveries = s.deliveries
      /\ c.candidate = s.candidate
      /\ c.conflicts = s.conflicts /\ c.errors = s.errors
      /\ c.unsupported = s.unsupported /\ c.disputed = s.disputed
  BY ConnectionTaken
<1>3. Events(c) = {}
  BY <1>2 DEF Events
<1> HIDE DEF d, c
<1>4. /\ dc \in Cases
      /\ dc.connection = t
      /\ dc.candidate = d.candidate /\ dc.messageId = d.messageId
      /\ dc.match = d.match /\ dc.message = d.message
      /\ dc.deliveries = d.deliveries /\ dc.query = d.query
      /\ dc.conflicts = d.conflicts /\ dc.errors = d.errors
      /\ dc.unsupported = d.unsupported /\ dc.disputed = d.disputed
  BY <1>1, ConnectionTaken
<1>5. /\ cd \in Cases
      /\ cd.deliveries = page /\ cd.query = query
      /\ cd.candidate = c.candidate /\ cd.messageId = c.messageId
      /\ cd.match = c.match /\ cd.message = c.message
      /\ cd.connection = c.connection
      /\ cd.conflicts = c.conflicts /\ cd.errors = c.errors
      /\ cd.unsupported = c.unsupported /\ cd.disputed = c.disputed
  BY <1>2, <1>3, DeliveryTaken
<1> HIDE DEF dc, cd, page, query
<1>6. dc = cd
  BY <1>1, <1>2, <1>4, <1>5, SameCase
<1> QED
  BY <1>6 DEF dc, cd, d, c, page

\* The first answers about the target are merged without a conflict.
LEMMA FirstAnswersKept ==
    ASSUME NEW s \in Cases, Refreshed(s), NEW t \in Messages, t = Target(s), t # None,
           s.message = None, Events(s) = {},
           NEW kind \in Kinds, NEW result \in Results \cup {None},
           NEW complete \in BOOLEAN
    PROVE  LET m == MergeMessage(s, t, [message |-> t, kind |-> kind])
               d == MergeDelivery(s, t, [Unknown EXCEPT ![t] = result], complete)
               c == MergeConnection(s, t, t)
           IN  Refresh(m) = m /\ Refresh(d) = d /\ Refresh(c) = c
<1> DEFINE page == [Unknown EXCEPT ![t] = result]
           m == MergeMessage(s, t, [message |-> t, kind |-> kind])
           d == MergeDelivery(s, t, page, complete)
           c == MergeConnection(s, t, t)
<1>1. s.messageId \in {None, t}
  BY DEF Cases, Target
<1>2. /\ m \in Cases /\ m.messageId = t /\ m.match = "unique"
      /\ m.message = [message |-> t, kind |-> kind]
      /\ m.deliveries = s.deliveries
      /\ m.conflicts = s.conflicts /\ m.errors = s.errors
  BY <1>1, StatusTaken
<1>3. Target(m) = t /\ m.message.message = t /\ Events(m) = {}
  BY <1>2 DEF Target, Events
<1>4. /\ d \in Cases /\ d.candidate = s.candidate
      /\ d.messageId = s.messageId
      /\ d.deliveries = page /\ d.query = [complete |-> complete, asked |-> t]
      /\ d.match = s.match /\ d.message = s.message
      /\ d.conflicts = s.conflicts /\ d.errors = s.errors
  BY <1>1, DeliveryTaken
<1>5. \A n \in Messages \ {t} : page[n] = None
  BY DEF Unknown
<1>6. Target(d) = t /\ Events(d) \subseteq {t}
  <2> HIDE DEF d, page
  <2>1. Target(d) = t
    BY <1>4 DEF Target
  <2>2. Events(d) \subseteq {t}
    BY <1>4, <1>5 DEF Events
  <2> QED
    BY <2>1, <2>2
<1>7. /\ c \in Cases /\ c.candidate = s.candidate
      /\ c.messageId = s.messageId /\ c.deliveries = s.deliveries
      /\ c.match = s.match /\ c.message = s.message
      /\ c.conflicts = s.conflicts /\ c.errors = s.errors
  BY <1>1, ConnectionTaken
<1>8. Target(c) = t /\ Events(c) = {}
  BY <1>7 DEF Target, Events
<1> HIDE DEF m, d, c
<1>9. Refresh(m) = m
  BY <1>1, <1>2, <1>3, FirstAnswer
<1>10. Refresh(d) = d
  BY <1>1, <1>4, <1>6, FirstAnswer
<1>11. Refresh(c) = c
  BY <1>1, <1>7, <1>8, FirstAnswer
<1> QED
  BY <1>9, <1>10, <1>11 DEF m, d, c, page

\* The first answers of parallel calls about the target commute.
THEOREM AnswersCommute == Spec => []ArrivalOrderIrrelevant
<1>1. ASSUME Sound(case), Refreshed(case), NEW t, t = Target(case), t # None,
             case.message = None, Events(case) = {},
             NEW kind \in Kinds, NEW result \in Results \cup {None},
             NEW complete \in BOOLEAN
      PROVE  LET Status(s) == Refresh(MergeMessage(s, t, [message |-> t, kind |-> kind]))
                 Delivery(s) == Refresh(MergeDelivery(s, t, [Unknown EXCEPT ![t] = result],
                                                      complete))
                 Connection(s) == Refresh(MergeConnection(s, t, t))
             IN  /\ Status(Delivery(case)) = Delivery(Status(case))
                 /\ Status(Connection(case)) = Connection(Status(case))
                 /\ Connection(Delivery(case)) = Delivery(Connection(case))
  <2> DEFINE fact == [message |-> t, kind |-> kind]
             page == [Unknown EXCEPT ![t] = result]
             m == MergeMessage(case, t, fact)
             d == MergeDelivery(case, t, page, complete)
             c == MergeConnection(case, t, t)
  <2>1. case \in Cases /\ t \in Messages /\ case.messageId \in {None, t}
    BY <1>1 DEF Sound, Cases, Target
  <2>2. Refresh(m) = m /\ Refresh(d) = d /\ Refresh(c) = c
    BY <1>1, <2>1, FirstAnswersKept
  <2>3. MergeMessage(d, t, fact) = MergeDelivery(m, t, page, complete)
    BY <1>1, <2>1, StatusAndDelivery
  <2>4. MergeMessage(c, t, fact) = MergeConnection(m, t, t)
    BY <1>1, <2>1, StatusAndConnection
  <2>5. MergeConnection(d, t, t) = MergeDelivery(c, t, page, complete)
    BY <1>1, <2>1, DeliveryAndConnection
  <2> HIDE DEF fact, page
  <2>6. /\ Refresh(MergeMessage(Refresh(d), t, fact))
             = Refresh(MergeDelivery(Refresh(m), t, page, complete))
        /\ Refresh(MergeMessage(Refresh(c), t, fact))
             = Refresh(MergeConnection(Refresh(m), t, t))
        /\ Refresh(MergeConnection(Refresh(d), t, t))
             = Refresh(MergeDelivery(Refresh(c), t, page, complete))
    BY <2>2, <2>3, <2>4, <2>5
  <2> QED
    BY <2>6 DEF fact, page
<1>2. Sound(case) /\ Refreshed(case) => ArrivalOrderIrrelevant
  BY <1>1 DEF ArrivalOrderIrrelevant
<1> QED
  BY <1>2, Invariance, AlwaysRefreshed, PTL

-----------------------------------------------------------------------------
(* Least elements and induction.                                           *)

\* A set of naturals that is not empty has a least element.
LEMMA Least ==
    ASSUME NEW T \in SUBSET Nat, T # {}
    PROVE  \E n \in T : \A m \in T : n <= m
<1>1. PICK n \in T : \A m \in T : ~(<<m, n>> \in OpToRel(<, Nat))
  BY NatLessThanWellFounded, WFMin
<1>2. \A m \in T : ~(m < n)
  BY <1>1 DEF OpToRel
<1> QED
  BY <1>2

\* Induction, over a set of naturals.
LEMMA Induction ==
    ASSUME NEW T, 0 \in T, \A n \in Nat : n \in T => n + 1 \in T
    PROVE  Nat \subseteq T
<1>1. SUFFICES ASSUME Nat \ T # {}
               PROVE  FALSE
  OBVIOUS
<1>2. PICK n \in Nat \ T : \A m \in Nat \ T : n <= m
  BY <1>1, Least
<1> QED
  BY <1>2

-----------------------------------------------------------------------------
(* The dialogue a session remembers.                                       *)

\* t[n] is the sum of the lengths of the first n entries.
IsTotal(t, k, entries) ==
    /\ t[0] = 0
    /\ \A n \in 1..k : t[n] = t[n - 1] + entries[n].length

\* The equation that defines the totals of a dialogue has a solution...
LEMMA TotalsExist ==
    ASSUME NEW entries, Len(entries) \in Nat,
           \A n \in 1..Len(entries) : entries[n].length \in Nat
    PROVE  \E t \in [0..Len(entries) -> Nat] : IsTotal(t, Len(entries), entries)
<1> DEFINE T == {k \in Nat : k <= Len(entries) =>
                    \E t \in [0..k -> Nat] : IsTotal(t, k, entries)}
<1>1. 0 \in T
  <2>1. [i \in 0..0 |-> 0] \in [0..0 -> Nat] /\ IsTotal([i \in 0..0 |-> 0], 0, entries)
    BY DEF IsTotal
  <2> QED
    BY <2>1
<1>2. ASSUME NEW k \in Nat, k \in T
      PROVE  k + 1 \in T
  <2>1. SUFFICES ASSUME k + 1 <= Len(entries)
                 PROVE  \E t \in [0..(k + 1) -> Nat] : IsTotal(t, k + 1, entries)
    OBVIOUS
  <2>2. PICK t \in [0..k -> Nat] : IsTotal(t, k, entries)
    BY <1>2, <2>1
  <2> DEFINE u == [i \in 0..(k + 1) |-> IF i = k + 1 THEN t[k] + entries[k + 1].length
                                        ELSE t[i]]
  <2>3. entries[k + 1].length \in Nat
    BY <2>1
  <2>4. u \in [0..(k + 1) -> Nat]
    BY <2>2, <2>3
  <2>5. u[0] = 0
    BY <2>2 DEF IsTotal
  <2>6. ASSUME NEW n \in 1..(k + 1)
        PROVE  u[n] = u[n - 1] + entries[n].length
    <3>1. CASE n = k + 1
      BY <3>1
    <3>2. CASE n # k + 1
      <4>1. n \in 1..k /\ n - 1 \in 0..k
        BY <3>2
      <4> QED
        BY <4>1, <2>2 DEF IsTotal
    <3> QED
      BY <3>1, <3>2
  <2> QED
    BY <2>4, <2>5, <2>6 DEF IsTotal
<1>3. Nat \subseteq T
  <2> HIDE DEF T
  <2> QED
    BY <1>1, <1>2, Induction
<1> QED
  BY <1>3

\* ...and the totals that Characters takes the last of are one.
LEMMA CharactersAreTotal ==
    ASSUME NEW entries, Len(entries) \in Nat,
           \A n \in 1..Len(entries) : entries[n].length \in Nat
    PROVE  \E t \in [0..Len(entries) -> Nat] :
              /\ IsTotal(t, Len(entries), entries)
              /\ Characters(entries) = t[Len(entries)]
<1> DEFINE Sum(t) == [n \in 0..Len(entries) |->
                        IF n = 0 THEN 0 ELSE t[n - 1] + entries[n].length]
           total == CHOOSE t : t = Sum(t)
<1>1. PICK s \in [0..Len(entries) -> Nat] : IsTotal(s, Len(entries), entries)
  BY TotalsExist
<1>2. s = Sum(s)
  BY <1>1 DEF IsTotal
<1>3. total = Sum(total)
  BY <1>2
<1>4. Characters(entries) = total[Len(entries)]
  BY DEF Characters
<1> HIDE DEF total
<1>5. total[0] = 0 /\ \A n \in 1..Len(entries) : total[n] = total[n - 1] + entries[n].length
  BY <1>3
<1>6. DOMAIN total = 0..Len(entries)
  BY <1>3
<1> DEFINE T == {k \in Nat : k <= Len(entries) => total[k] \in Nat}
<1>7. 0 \in T
  BY <1>5
<1>8. ASSUME NEW k \in Nat, k \in T
      PROVE  k + 1 \in T
  <2>1. SUFFICES ASSUME k + 1 <= Len(entries) PROVE total[k + 1] \in Nat
    OBVIOUS
  <2>2. total[k] \in Nat
    BY <1>8, <2>1
  <2> QED
    BY <2>1, <2>2, <1>5
<1>9. Nat \subseteq T
  <2> HIDE DEF T
  <2> QED
    BY <1>7, <1>8, Induction
<1>10. total = [k \in 0..Len(entries) |-> total[k]]
  BY <1>3
<1>11. total \in [0..Len(entries) -> Nat]
  BY <1>9, <1>10
<1> QED
  BY <1>4, <1>5, <1>11 DEF IsTotal

\* conversationCharacters is a natural number.
LEMMA CharactersType ==
    ASSUME NEW entries \in Seq(Entries)
    PROVE  Characters(entries) \in Nat
<1>1. \A n \in 1..Len(entries) : entries[n] \in Entries
  OBVIOUS
<1>2. \A n \in 1..Len(entries) : entries[n].length \in Nat
  BY <1>1 DEF Entries
<1>3. Len(entries) \in Nat
  OBVIOUS
<1> QED
  BY <1>2, <1>3, CharactersAreTotal

\* Nothing has no characters.
LEMMA CharactersOfNone ==
    ASSUME NEW entries \in Seq(Entries), Len(entries) = 0
    PROVE  Characters(entries) = 0
<1>1. PICK t \in [0..Len(entries) -> Nat] :
         IsTotal(t, Len(entries), entries) /\ Characters(entries) = t[Len(entries)]
  BY CharactersAreTotal
<1> QED
  BY <1>1 DEF IsTotal

\* The characters of a question and its reply.
LEMMA CharactersOfTwo ==
    ASSUME NEW entries \in Seq(Entries), Len(entries) = 2
    PROVE  Characters(entries) = entries[1].length + entries[2].length
<1>0. \A n \in 1..2 : entries[n] \in Entries
  OBVIOUS
<1>1. \A n \in 1..2 : entries[n].length \in Nat
  BY <1>0 DEF Entries
<1>2. PICK t \in [0..2 -> Nat] :
         IsTotal(t, 2, entries) /\ Characters(entries) = t[2]
  BY <1>1, CharactersAreTotal
<1>3. t[0] = 0 /\ t[1] = t[0] + entries[1].length /\ t[2] = t[1] + entries[2].length
  BY <1>2 DEF IsTotal
<1> QED
  BY <1>1, <1>2, <1>3

\* Where all but the first k entries fit, at most k are evicted, and what is
\* left fits.
LEMMA EvictedIsLeast ==
    ASSUME NEW entries \in Seq(Entries), NEW k \in 0..Len(entries),
           Fits(SubSeq(entries, k + 1, Len(entries)))
    PROVE  /\ Evicted(entries) \in 0..k
           /\ Fits(SubSeq(entries, Evicted(entries) + 1, Len(entries)))
<1> DEFINE F(n) == Fits(SubSeq(entries, n + 1, Len(entries)))
           T == {n \in 0..Len(entries) : F(n)}
<1>1. PICK n \in T : \A m \in T : n <= m
  <2>1. T \in SUBSET Nat /\ k \in T
    BY DEF T
  <2> HIDE DEF T
  <2> QED
    BY <2>1, Least
<1>2. \A m \in 0..(n - 1) : ~F(m)
  <2> HIDE DEF F
  <2> QED
    BY <1>1
<1>3. /\ Evicted(entries) \in 0..Len(entries)
      /\ F(Evicted(entries))
      /\ \A m \in 0..(Evicted(entries) - 1) : ~F(m)
  <2> HIDE DEF F
  <2>1. \E e \in 0..Len(entries) : F(e) /\ \A m \in 0..(e - 1) : ~F(m)
    BY <1>1, <1>2
  <2>2. Evicted(entries) = CHOOSE e \in 0..Len(entries) : F(e) /\ \A m \in 0..(e - 1) : ~F(m)
    BY DEF Evicted, F
  <2> QED
    BY <2>1, <2>2
<1>4. ~ (k < Evicted(entries))
  <2> HIDE DEF F
  <2>1. F(k)
    BY DEF F
  <2> QED
    BY <1>3, <2>1
<1> QED
  BY <1>3, <1>4

\* An exchange after a dialogue.
LEMMA Appended ==
    ASSUME NEW S, NEW s \in Seq(S), NEW t \in Seq(S), Len(t) = 2
    PROVE  /\ s \o t \in Seq(S) /\ Len(s \o t) = Len(s) + 2 /\ Len(s) \in Nat
           /\ \A i \in 1..Len(s) : (s \o t)[i] = s[i]
           /\ (s \o t)[Len(s) + 1] = t[1] /\ (s \o t)[Len(s) + 2] = t[2]
           /\ t[1] \in S /\ t[2] \in S
<1>1. Len(s) \in Nat
  OBVIOUS
<1>2. /\ s \o t \in Seq(S) /\ Len(s \o t) = Len(s) + Len(t)
      /\ \A i \in 1..(Len(s) + Len(t)) :
            (s \o t)[i] = IF i <= Len(s) THEN s[i] ELSE t[i - Len(s)]
  BY ConcatProperties
<1>3. t[1] \in S /\ t[2] \in S
  BY ElementOfSeq
<1> QED
  BY <1>1, <1>2, <1>3

\* What is left of a dialogue.
LEMMA Suffix ==
    ASSUME NEW S, NEW s \in Seq(S), NEW n \in 0..Len(s)
    PROVE  /\ SubSeq(s, n + 1, Len(s)) \in Seq(S)
           /\ Len(SubSeq(s, n + 1, Len(s))) = Len(s) - n
           /\ \A i \in 1..(Len(s) - n) : SubSeq(s, n + 1, Len(s))[i] = s[n + i]
<1>1. Len(s) \in Nat
  OBVIOUS
<1> QED BY <1>1, SubSeqProperties

MemoryTyped ==
    /\ turns \in 0..MaxTurns /\ dropped \in 0..turns
    /\ summarized \in Nat /\ summary \in Nat
    /\ recent \in Seq(Entries)

\* The inductive invariant of the dialogue.
MemoryInv == MemoryTyped /\ MemoryConserved

\* Each half of an exchange takes at most half of the room.
LEMMA ExchangeType ==
    ASSUME MemoryTyped, turns < MaxTurns, NEW q \in Lengths, NEW r \in Lengths
    PROVE  /\ Exchange(q, r) \in Seq(Entries)
           /\ Len(Exchange(q, r)) = 2
           /\ Exchange(q, r)[1].turn = turns + 1 /\ Exchange(q, r)[1].role = "user"
           /\ Exchange(q, r)[2].turn = turns + 1 /\ Exchange(q, r)[2].role = "assistant"
           /\ Exchange(q, r)[1].length <= MaxRecentConversation \div 2
           /\ Exchange(q, r)[2].length <= MaxRecentConversation \div 2
<1>1. q \in Nat /\ r \in Nat /\ MaxSingleMessage \in Nat /\ MaxRecentConversation \in Nat
      /\ MaxTurns \in Nat
  BY BudgetAssumption
<1>2. MaxRecentConversation \div 2 \in Nat
  BY <1>1
<1>3. /\ LesserOf(q, PerEntryBudget) \in Nat /\ LesserOf(r, PerEntryBudget) \in Nat
      /\ LesserOf(q, PerEntryBudget) <= MaxRecentConversation \div 2
      /\ LesserOf(r, PerEntryBudget) <= MaxRecentConversation \div 2
  BY <1>1, <1>2 DEF LesserOf, PerEntryBudget
<1>4. turns + 1 \in 1..MaxTurns
  BY <1>1 DEF MemoryTyped
<1> QED
  BY <1>3, <1>4 DEF Exchange, Entries, Roles

\* An exchange is remembered: what goes is older than the exchange itself,
\* as the exchange alone fits.
LEMMA MemoryStep ==
    ASSUME MemoryInv, RecordConversationExchange
    PROVE  MemoryInv'
<1> USE DEF MemoryInv
<1>1. PICK q \in Lengths, r \in Lengths :
        LET entries == recent \o Exchange(q, r)
            n == Evicted(entries)
        IN  /\ recent' = SubSeq(entries, n + 1, Len(entries))
            /\ summarized' = summarized + n
            /\ summary' = LesserOf(summary + Characters(SubSeq(entries, 1, n)),
                                   MaxHistorySummary)
  BY DEF RecordConversationExchange
<1>2. turns < MaxTurns /\ turns' = turns + 1 /\ dropped' = dropped
  BY DEF RecordConversationExchange
<1> DEFINE last == Exchange(q, r)
           entries == recent \o last
           n == Evicted(entries)
           L == Len(recent)
<1>3. /\ last \in Seq(Entries) /\ Len(last) = 2
      /\ last[1].turn = turns + 1 /\ last[1].role = "user"
      /\ last[2].turn = turns + 1 /\ last[2].role = "assistant"
      /\ last[1].length <= MaxRecentConversation \div 2
      /\ last[2].length <= MaxRecentConversation \div 2
  BY <1>2, ExchangeType
<1>4. recent' = SubSeq(entries, n + 1, Len(entries)) /\ summarized' = summarized + n
      /\ summary' = LesserOf(summary + Characters(SubSeq(entries, 1, n)), MaxHistorySummary)
  BY <1>1
<1> HIDE DEF last
<1>5. /\ entries \in Seq(Entries) /\ L \in Nat /\ Len(entries) = L + 2
      /\ \A i \in 1..L : entries[i] = recent[i]
      /\ entries[L + 1] = last[1] /\ entries[L + 2] = last[2]
  <2>1. recent \in Seq(Entries)
    BY DEF MemoryTyped
  <2> QED
    BY <1>3, <2>1, Appended
<1>15. last[1] \in Entries /\ last[2] \in Entries
  <2>1. recent \in Seq(Entries)
    BY DEF MemoryTyped
  <2> QED
    BY <1>3, <2>1, Appended
<1> HIDE DEF entries
<1>6. Fits(SubSeq(entries, L + 1, Len(entries)))
  <2> DEFINE two == SubSeq(entries, L + 1, Len(entries))
  <2>1. two \in Seq(Entries) /\ Len(two) = 2 /\ two[1] = last[1] /\ two[2] = last[2]
    BY <1>5
  <2>2. last[1].length \in Nat /\ last[2].length \in Nat
    BY <1>15 DEF Entries
  <2>3. Characters(two) = last[1].length + last[2].length
    BY <2>1, CharactersOfTwo
  <2>4. Characters(two) <= MaxRecentConversation
    BY <2>2, <2>3, <1>3, BudgetAssumption
  <2> QED
    BY <2>1, <2>4, BudgetAssumption DEF Fits
<1>7. n \in 0..L /\ Fits(SubSeq(entries, n + 1, Len(entries)))
  <2>1. L \in 0..Len(entries)
    BY <1>5
  <2> QED
    BY <1>5, <1>6, <2>1, EvictedIsLeast
<1> HIDE DEF n
<1>8. /\ recent' \in Seq(Entries) /\ Len(recent') = L + 2 - n
      /\ \A i \in 1..(L + 2 - n) : recent'[i] = entries[n + i]
  <2>1. n \in 0..Len(entries) /\ Len(entries) - n = L + 2 - n
    BY <1>5, <1>7
  <2>2. /\ SubSeq(entries, n + 1, Len(entries)) \in Seq(Entries)
        /\ Len(SubSeq(entries, n + 1, Len(entries))) = Len(entries) - n
        /\ \A i \in 1..(Len(entries) - n) :
              SubSeq(entries, n + 1, Len(entries))[i] = entries[n + i]
    BY <2>1, <1>5, Suffix
  <2> HIDE DEF L
  <2> QED
    BY <2>1, <2>2, <1>4, Zenon
<1>9. MemoryTyped'
  <2>1. SubSeq(entries, 1, n) \in Seq(Entries)
    BY <1>5, <1>7
  <2>2. Characters(SubSeq(entries, 1, n)) \in Nat
    BY <2>1, CharactersType
  <2>3. summary' \in Nat
    BY <2>2, <1>4, BudgetAssumption DEF LesserOf, MemoryTyped
  <2> QED
    BY <2>3, <1>2, <1>4, <1>7, <1>8, BudgetAssumption DEF MemoryTyped
<1>10. (summarized + Len(recent) = 2 * (turns - dropped))'
  <2>1. /\ summarized \in Nat /\ turns \in Nat /\ dropped \in Nat
        /\ summarized + L = 2 * (turns - dropped)
    BY BudgetAssumption DEF MemoryTyped, MemoryConserved
  <2>2. summarized' = summarized + n /\ Len(recent') = L + 2 - n /\ turns' = turns + 1
    BY <1>2, <1>4, <1>8
  <2> QED
    BY <2>1, <2>2, <1>2, <1>5, <1>7
<1>11. ASSUME NEW i \in 1..(L + 2 - n)
       PROVE  /\ recent'[i].turn = dropped + (summarized' + i + 1) \div 2
              /\ recent'[i].role = IF (summarized' + i) % 2 = 1 THEN "user" ELSE "assistant"
  <2>1. recent'[i] = entries[n + i] /\ summarized' + i = summarized + (n + i)
    <3>1. recent'[i] = entries[n + i]
      BY <1>8
    <3>2. summarized' + i = summarized + (n + i)
      BY <1>4, <1>5, <1>7 DEF MemoryTyped
    <3> QED
      BY <3>1, <3>2
  <2>2. CASE n + i \in 1..L
    BY <2>1, <2>2, <1>5 DEF MemoryConserved
  <2>3. CASE n + i = L + 1
    <3>1. summarized' + i = 2 * (turns - dropped) + 1
      BY <2>1, <2>3, <1>5 DEF MemoryConserved, MemoryTyped
    <3>2. /\ (2 * (turns - dropped) + 1) % 2 = 1
          /\ dropped + (2 * (turns - dropped) + 1 + 1) \div 2 = turns + 1
      BY BudgetAssumption DEF MemoryTyped
    <3> QED
      BY <3>1, <3>2, <2>1, <2>3, <1>3, <1>5
  <2>4. CASE n + i = L + 2
    <3>1. summarized' + i = 2 * (turns - dropped) + 2
      BY <2>1, <2>4, <1>5 DEF MemoryConserved, MemoryTyped
    <3>2. /\ (2 * (turns - dropped) + 2) % 2 = 0
          /\ dropped + (2 * (turns - dropped) + 2 + 1) \div 2 = turns + 1
      BY BudgetAssumption DEF MemoryTyped
    <3> QED
      BY <3>1, <3>2, <2>1, <2>4, <1>3, <1>5
  <2> QED
    BY <2>2, <2>3, <2>4, <1>5, <1>7
<1>12. (turns > dropped => Len(recent) >= 2)' /\ Fits(recent)'
  BY <1>4, <1>5, <1>7, <1>8 DEF Fits
<1>13. (summarized = 0 => summary = 0)'
  <2> SUFFICES ASSUME summarized' = 0 PROVE summary' = 0
    OBVIOUS
  <2>1. n = 0 /\ summarized = 0 /\ summary = 0
    BY <1>4, <1>7 DEF MemoryTyped, MemoryConserved
  <2>2. SubSeq(entries, 1, n) \in Seq(Entries) /\ Len(SubSeq(entries, 1, n)) = 0
    BY <2>1, <1>5
  <2>3. Characters(SubSeq(entries, 1, n)) = 0
    BY <2>2, CharactersOfNone
  <2> QED
    BY <2>1, <2>3, <1>4, BudgetAssumption DEF LesserOf
<1>16. 1..Len(recent') = 1..(L + 2 - n)
  BY <1>8
<1> QED
  BY <1>16, <1>2, <1>9, <1>10, <1>11, <1>12, <1>13 DEF MemoryConserved

\* An empty list of entries fits.
LEMMA NothingFits ==
    ASSUME NEW entries \in Seq(Entries), Len(entries) = 0
    PROVE  Fits(entries)
<1>1. Characters(entries) = 0
  BY CharactersOfNone
<1>2. 0 <= MaxEntries /\ 0 <= MaxRecentConversation
  BY BudgetAssumption
<1> QED
  BY <1>1, <1>2 DEF Fits

\* An approved switch drops the dialogue: what is to be conserved starts anew.
LEMMA SwitchStep ==
    ASSUME MemoryInv, ApproveTargetSwitch
    PROVE  MemoryInv'
<1>1. /\ recent' = <<>> /\ summarized' = 0 /\ summary' = 0
      /\ dropped' = turns /\ turns' = turns
  BY DEF ApproveTargetSwitch
<1>2. recent' \in Seq(Entries) /\ Len(recent') = 0
  BY <1>1
<1>3. Fits(recent)'
  BY <1>2, NothingFits DEF Fits, Characters
<1>4. MemoryTyped'
  BY <1>1, <1>2, BudgetAssumption DEF MemoryInv, MemoryTyped
<1> QED
  BY <1>1, <1>2, <1>3, <1>4, BudgetAssumption DEF MemoryInv, MemoryTyped, MemoryConserved

\* The dialogue of a new session.
LEMMA MemoryStart == MemoryInit => MemoryInv
<1>1. SUFFICES ASSUME MemoryInit PROVE MemoryInv
  OBVIOUS
<1>2. recent \in Seq(Entries) /\ Len(recent) = 0
  BY <1>1 DEF MemoryInit
<1>4. Fits(recent)
  BY <1>2, NothingFits
<1> QED
  BY <1>1, <1>2, <1>4, BudgetAssumption DEF MemoryInit, MemoryInv, MemoryTyped, MemoryConserved

\* A step that leaves the dialogue alone.
LEMMA MemoryKept == MemoryInv /\ UNCHANGED memory => MemoryInv'
BY DEF memory, MemoryInv, MemoryTyped, MemoryConserved, Fits

\* Every step of a build leaves the dialogue alone.
LEMMA DialogueKept ==
    ASSUME [ContextNext]_contextVars
    PROVE  RecordConversationExchange \/ ApproveTargetSwitch \/ UNCHANGED memory
BY DEF ContextNext, contextVars, Remember, Forget, Build, Drop, GiveUp, FitDone, UpdateContextStatus,
       Return

-----------------------------------------------------------------------------
(* The model context.                                                      *)

\* The inductive invariant of a build: the status is written while the
\* context fits, so that only a name it did not have before can make it too
\* long again; what the status names stays omitted, as nothing comes back.
ContextInv ==
    /\ ContextTypeOK
    /\ reported \subseteq SectionsOmitted
    /\ phase = "idle" => reported = {} /\ attempt = 0
    /\ phase = "status" => ~TooLong /\ attempt < 3
    /\ phase \in {"fit", "status"} /\ attempt > 0 => reported # {}
    /\ OmissionsReported

\* What is dropped is a part of the context.
LEMMA OrderType ==
    /\ DOMAIN Order \subseteq Nat
    /\ \A i \in DOMAIN Order : Order[i] \in Parts
<1>1. DOMAIN Order \subseteq Nat
  BY DEF Order
<1> QED
  BY <1>1 DEF Parts, ToSet

\* The part that goes next has something left to drop.
LEMMA DroppedPart ==
    ASSUME ContextTypeOK, Droppable # {}
    PROVE  LET part == Order[Min(Droppable)] IN part \in Parts /\ content[part] \in Nat \ {0}
<1>1. Droppable \in SUBSET Nat
  BY OrderType DEF Droppable
<1>2. \E x \in Droppable : \A y \in Droppable : x <= y
  BY <1>1, Least
<1>3. Min(Droppable) \in Droppable
  BY <1>2 DEF Min
<1>4. Order[Min(Droppable)] \in Parts /\ content[Order[Min(Droppable)]] > 0
  BY <1>3, OrderType DEF Droppable
<1> QED
  BY <1>4 DEF ContextTypeOK

\* What a session knows of a part.
LEMMA InSessionType ==
    ASSUME MemoryTyped, NEW known \in Known, NEW p \in Parts
    PROVE  InSession(known, p) \in Nat
<1>1. Len(recent) \in Nat /\ summary \in Nat
  BY DEF MemoryTyped
<1>2. known[p] \in Nat
  BY SizeAssumption
<1>3. (IF summary > 0 THEN summary - 1 ELSE 0) \in Nat
  BY <1>1
<1> QED
  BY <1>1, <1>2, <1>3 DEF InSession

\* What buildModelContext takes of the session, and what it leaves out.
LEMMA BuildTyped ==
    ASSUME MemoryTyped, ContextInv, Build
    PROVE  content' \in [Parts -> Nat] /\ omitted' \in [Parts -> Nat]
<1>1. PICK purpose \in Purposes, known \in Known :
        LET units == [p \in Parts |-> IF p \in PartsFor(purpose)
                                      THEN InSession(known, p) ELSE 0]
        IN  /\ content' = [p \in Parts |-> WithinLimit(p, units[p])]
            /\ omitted' = [p \in Parts |-> units[p] - WithinLimit(p, units[p])]
  BY DEF Build
<1> DEFINE units == [p \in Parts |-> IF p \in PartsFor(purpose)
                                     THEN InSession(known, p) ELSE 0]
<1>2. content' = [p \in Parts |-> WithinLimit(p, units[p])]
      /\ omitted' = [p \in Parts |-> units[p] - WithinLimit(p, units[p])]
  BY <1>1
<1>3. \A p \in Parts : units[p] \in Nat
  BY InSessionType
<1> HIDE DEF units
<1>4. \A p \in Parts : /\ WithinLimit(p, units[p]) \in Nat
                       /\ units[p] - WithinLimit(p, units[p]) \in Nat
  BY <1>3, SizeAssumption DEF WithinLimit, LesserOf
<1> QED
  BY <1>2, <1>4

\* Every step of a build.
LEMMA ContextStep ==
    ASSUME MemoryTyped, ContextInv, [ContextNext]_contextVars
    PROVE  ContextInv'
<1> USE DEF ContextInv
<1>1. CASE UNCHANGED build
  BY <1>1 DEF build, ContextTypeOK, OmissionsReported, TooLong, Length, SectionsOmitted,
              OmittedParts
<1>2. CASE Build
  <2>1. content' \in [Parts -> Nat] /\ omitted' \in [Parts -> Nat]
    BY <1>2, BuildTyped
  <2> QED
    BY <2>1, <1>2 DEF Build, ContextTypeOK, OmissionsReported
<1>3. CASE Drop
  <2> DEFINE part == Order[Min(Droppable)]
  <2>1. part \in Parts /\ content[part] \in Nat \ {0}
    BY <1>3, DroppedPart DEF Drop
  <2>2. content' = [content EXCEPT ![part] = @ - 1]
        /\ omitted' = [omitted EXCEPT ![part] = @ + 1]
    BY <1>3 DEF Drop
  <2> HIDE DEF part
  <2>3. content' \in [Parts -> Nat] /\ omitted' \in [Parts -> Nat]
    BY <2>1, <2>2 DEF ContextTypeOK
  <2>4. OmittedParts \subseteq OmittedParts'
    BY <2>1, <2>2 DEF OmittedParts, ContextTypeOK
  <2>5. SectionsOmitted \subseteq SectionsOmitted'
    BY <2>4 DEF SectionsOmitted
  <2>6. /\ phase = "fit" /\ phase' = "fit"
        /\ reported' = reported /\ attempt' = attempt /\ required' = required
    BY <1>3 DEF Drop
  <2> QED
    BY <2>3, <2>5, <2>6 DEF ContextTypeOK, OmissionsReported
<1>4. CASE GiveUp
  BY <1>4 DEF GiveUp, ContextTypeOK, OmissionsReported, SectionsOmitted, OmittedParts
<1>5. CASE FitDone
  <2>1. /\ phase = "fit" /\ ~TooLong
        /\ phase' = IF attempt = 3 THEN "done" ELSE "status"
        /\ UNCHANGED <<content, omitted, required, reported, attempt>>
    BY <1>5 DEF FitDone
  <2>2. SectionsOmitted' = SectionsOmitted /\ TooLong' = TooLong
        /\ OmittedParts' = OmittedParts
    BY <2>1 DEF SectionsOmitted, OmittedParts, TooLong, Length
  <2>3. ContextTypeOK'
    BY <2>1 DEF ContextTypeOK
  <2>4. attempt # 3 => attempt < 3
    BY DEF ContextTypeOK
  <2> QED
    BY <2>1, <2>2, <2>3, <2>4 DEF OmissionsReported
<1>6. CASE UpdateContextStatus
  <2>1. /\ phase = "status" /\ reported' = SectionsOmitted /\ attempt' = attempt + 1
        /\ phase' = IF Length(SectionsOmitted) > Maximum THEN "fit" ELSE "done"
        /\ UNCHANGED <<content, omitted, required>>
    BY <1>6 DEF UpdateContextStatus, Names
  <2>2. SectionsOmitted' = SectionsOmitted /\ OmittedParts' = OmittedParts
    BY <2>1 DEF SectionsOmitted, OmittedParts
  <2>3. TooLong' <=> Length(SectionsOmitted) > Maximum
    BY <2>1, <2>2 DEF TooLong, Length
  <2>4. phase' = "fit" => reported' # {}
    <3>1. ~(Length(reported) > Maximum)
      BY <2>1 DEF TooLong
    <3>2. Length(SectionsOmitted) > Maximum => SectionsOmitted # reported
      BY <3>1
    <3> QED
      BY <3>2, <2>1
  <2>5. ContextTypeOK'
    BY <2>1 DEF ContextTypeOK, SectionsOmitted, OmittedParts
  <2>6. OmittedParts # {} => SectionsOmitted # {}
    BY DEF SectionsOmitted
  <2> QED
    BY <2>1, <2>2, <2>3, <2>4, <2>5, <2>6 DEF OmissionsReported
<1>7. CASE Return
  BY <1>7 DEF Return, ContextTypeOK, OmissionsReported, Nothing
<1> QED
  BY <1>1, <1>2, <1>3, <1>4, <1>5, <1>6, <1>7
     DEF ContextNext, Remember, Forget, contextVars

\* What is proved of every reachable state, of the dialogue and the context.
LEMMA ContextInvariant == ContextSpec => [](MemoryInv /\ ContextInv)
<1>1. ContextInit => MemoryInv /\ ContextInv
  <2>1. ContextInit => ContextInv
    BY DEF ContextInit, ContextInv, ContextTypeOK, OmissionsReported, Nothing
  <2> QED
    BY <2>1, MemoryStart DEF ContextInit
<1>2. MemoryInv /\ ContextInv /\ [ContextNext]_contextVars => (MemoryInv /\ ContextInv)'
  BY DialogueKept, MemoryStep, SwitchStep, MemoryKept, ContextStep DEF MemoryInv
<1> QED
  BY <1>1, <1>2, PTL DEF ContextSpec

\* The units of a context and of what is left out of it are never negative,
\* however often parts are dropped, and the status is written three times at
\* most.
THEOREM ContextTypeCorrect == ContextSpec => []ContextTypeOK
<1>1. MemoryInv /\ ContextInv => ContextTypeOK
  BY DEF ContextInv
<1> QED
  BY <1>1, ContextInvariant, PTL

\* OmissionsReported (updateContextStatus): a call that is made fits its
\* budget and is told of what was left out, whatever the sizes, the limits
\* and the dialogue are.
THEOREM OmissionsTold == ContextSpec => []OmissionsReported
<1>1. MemoryInv /\ ContextInv => OmissionsReported
  BY DEF ContextInv
<1> QED
  BY <1>1, ContextInvariant, PTL

\* MemoryConserved (recordConversationExchange, resolveTargetSwitch): since the
\* last approved switch nothing said is lost uncounted and the latest exchange
\* is kept, for every budget and however long the texts are; of what was said
\* before the switch nothing is left.
THEOREM DialogueConserved == ContextSpec => []MemoryConserved
<1>1. MemoryInv /\ ContextInv => MemoryConserved
  BY DEF MemoryInv
<1> QED
  BY <1>1, ContextInvariant, PTL
===============================================================================
