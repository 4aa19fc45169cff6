---------------------------- MODULE SessionMerge ----------------------------
(***************************************************************************)
(* What a session knows about the message it is about: the results of the  *)
(* diagnostic tools, merged one by one as the calls of a model step        *)
(* complete (src/agent/state-merge.ts), and the diagnosis that is          *)
(* refreshed after each (src/domain/diagnose.ts).                          *)
(*                                                                         *)
(* A user is named by the message they are the receiver of, and a message  *)
(* has one delivery attempt, whose result later pages update.  Evidence is *)
(* taken as present where the schemas and requireEvidence ask for it, and  *)
(* a connection result as one of the receiver being offline at the time of *)
(* the attempt, as no other connection result changes the classification.  *)
(***************************************************************************)

CONSTANTS
    Messages,
    None,
    Results,       \* results of a delivery attempt
    Failures,      \* the tool errors connectors may return, with the
                   \* capability their details name
    Declared       \* capabilities the connector declares as unsupported

ASSUME NoneAssumption ==
    /\ Results \subseteq {"success", "failed", "timeout", "attempted"}
    /\ None \notin Messages \cup {"success", "failed", "timeout", "attempted"}
ASSUME ConnectorAssumption ==
    /\ Failures \subseteq [tool : {"find_user_or_message", "get_message_status",
                                  "get_delivery_events", "get_connection_status"},
                           code : {"ambiguous_match", "conflicting_evidence",
                                   "unsupported_capability", "timeout"},
                           capability : {None, "messageLookup",
                                   "writeFailureEvents", "deliveryEvents",
                                   "historicalPresence", "ackTracking"}]
    /\ Declared \subseteq {"messageLookup", "writeFailureEvents",
                           "deliveryEvents", "historicalPresence", "ackTracking"}

VARIABLE case

-----------------------------------------------------------------------------
Tools == {"find_user_or_message", "get_message_status",
          "get_delivery_events", "get_connection_status"}

\* status and persisted of a MessageFact, as far as diagnose tells them
\* apart: not existing, a failed write, persisted, persisted and delivered.
Kinds == {"missing", "lost", "stored", "delivered"}

MessageFacts == [message : Messages, kind : Kinds]

Subjects == {"messageId", "delivery.messageId", "connection.userId",
             "message.exists", "delivery.status"}

Capabilities == {"messageLookup", "writeFailureEvents", "deliveryEvents",
                 "historicalPresence", "ackTracking"}

Codes == {"ambiguous_match", "conflicting_evidence", "unsupported_capability",
          "timeout"}

Cases ==
    [candidate : Messages \cup {None},         \* candidateContext.messageId
     messageId : Messages \cup {None},         \* the confirmed target
     match : {"unknown", "unique", "unclear"}, \* matchResolution
     message : MessageFacts \cup {None},       \* confirmedFacts ...
     deliveries : [Messages -> Results \cup {None}],
     connection : Messages \cup {None},
     query : {None} \cup [complete : BOOLEAN, asked : Messages],
     conflicts : SUBSET Subjects,
     errors : SUBSET [tool : Tools, code : Codes],
     unsupported : SUBSET Capabilities,        \* connectorCapabilities
     disputed : BOOLEAN]      \* a result contradicted the confirmed target

TypeOK == case \in Cases

\* No tool has told anything yet.
Unknown == [m \in Messages |-> None]

Init ==
    \E m \in Messages \cup {None} :
        case = [candidate |-> m, messageId |-> None, match |-> "unknown",
                message |-> None, deliveries |-> Unknown, connection |-> None,
                query |-> None, conflicts |-> {}, errors |-> {},
                unsupported |-> Declared, disputed |-> FALSE]

-----------------------------------------------------------------------------
(* Mutated forms.                                                          *)

MergeMatchUnchecked(s, found) ==
    [s EXCEPT !.match = "unique",
              !.messageId = IF found # None THEN found ELSE @]

ConflictsOfRecord(s) ==
    s.conflicts
    \cup (IF s.message # None /\ s.message.kind = "missing"
             /\ \E m \in Messages : s.deliveries[m] # None
          THEN {"message.exists"} ELSE {})

MergeConnectionAfterMessage(s, arg, user) ==
    IF s.message = None THEN s ELSE [s EXCEPT !.connection = user]

MergeErrorAlone(s, error) ==
    [s EXCEPT !.errors = {e \in @ : e.tool # error.tool}
                         \cup {[tool |-> error.tool, code |-> error.code]}]

-----------------------------------------------------------------------------
(* Diagnosis.                                                              *)

\* buildDiagnosisInput: a candidate only routes the next query.
Target(s) == IF s.messageId # None THEN s.messageId ELSE s.candidate

Events(s) == {m \in Messages : s.deliveries[m] # None}

EventWith(s, result) == \E m \in Messages : s.deliveries[m] = result

FindConflicts(s) ==
    s.conflicts
    \cup (IF s.message # None /\ s.message.message # Target(s)
          THEN {"messageId"} ELSE {})
    \cup (IF Events(s) \ {Target(s)} # {} THEN {"delivery.messageId"} ELSE {})
    \cup (IF s.message # None /\ s.message.kind = "missing" /\ Events(s) # {}
          THEN {"message.exists"} ELSE {})
    \cup (IF /\ s.message # None /\ s.message.kind = "delivered"
             /\ Events(s) # {} /\ ~EventWith(s, "success")
          THEN {"delivery.status"} ELSE {})

\* The two returns before conflicts are looked at.
NotLocated(s) ==
    \/ s.match = "unclear"
    \/ \E e \in s.errors : e.code = "ambiguous_match"
    \/ Target(s) = None

Conflicts(s) == IF NotLocated(s) THEN {} ELSE FindConflicts(s)

Blocked(s) ==
    \/ NotLocated(s)
    \/ Conflicts(s) # {}
    \/ \E e \in s.errors : e.code = "conflicting_evidence"
    \/ s.message = None

\* A delivery attempt while the receiver was offline.
CorrelatedAttempt(s) ==
    s.connection # None /\ s.deliveries[s.connection] = "attempted"

ConfirmedEmptyQuery(s) ==
    s.query # None /\ s.query.complete /\ Events(s) = {}

\* A conclusion that needs a capability the connector lacks is none.
Conclude(s, classification, capability) ==
    IF capability \in s.unsupported THEN "insufficient_data"
    ELSE classification

\* The fixed order of the rules of diagnose.
Classification(s) ==
    IF Blocked(s) THEN "insufficient_data"
    ELSE IF s.message.kind = "missing"
    THEN Conclude(s, "message_not_found", "messageLookup")
    ELSE IF s.message.kind = "lost"
    THEN Conclude(s, "write_failed", "writeFailureEvents")
    ELSE IF EventWith(s, "success")
    THEN Conclude(s, "delivered", "deliveryEvents")
    ELSE IF CorrelatedAttempt(s)
    THEN Conclude(s, "receiver_offline", "historicalPresence")
    ELSE IF EventWith(s, "timeout")
    THEN Conclude(s, "ack_timeout", "ackTracking")
    ELSE IF EventWith(s, "failed") \/ ConfirmedEmptyQuery(s)
    THEN Conclude(s, "not_delivered", "deliveryEvents")
    ELSE "insufficient_data"

\* refreshDiagnosis: of the diagnosis, the state keeps the conflicts.
Refresh(s) == [s EXCEPT !.conflicts = Conflicts(s)]

-----------------------------------------------------------------------------
(* Merging one tool result.                                                *)

\* A success clears the tool's earlier errors.
Succeeded(s, tool) == [s EXCEPT !.errors = {e \in @ : e.tool # tool}]

\* recordEntityConflict, where the result carries evidence.
RecordConflict(s, subject) ==
    [s EXCEPT !.conflicts = @ \cup {subject},
              !.disputed = @ \/ s.messageId # None]

\* A lookup that is not unique, and a search by user and time, which never
\* selects, whatever it finds.
MergeNoMatch(s) == [s EXCEPT !.match = "unclear"]

\* A unique match, which may be a user without a message.
MergeMatch(s, found) ==
    IF s.messageId # None /\ found # None /\ found # s.messageId
    THEN RecordConflict([s EXCEPT !.match = "unique"], "messageId")
    ELSE [s EXCEPT !.match = "unique",
                   !.messageId = IF found # None THEN found ELSE @]

MergeMessage(s, arg, fact) ==
    IF fact.message # arg \/ s.messageId \notin {None, fact.message}
    THEN RecordConflict(s, "messageId")
    ELSE [s EXCEPT !.messageId = fact.message, !.match = "unique",
                   !.message = fact]

\* A page refused for its query alone, not for an event of another message,
\* leaves no evidence and so a tool error in place of a conflict.
MergeDelivery(s, arg, page, complete) ==
    IF \E m \in Messages \ {arg} : page[m] # None
    THEN RecordConflict(s, "delivery.messageId")
    ELSE IF s.messageId \notin {None, arg}
    THEN [s EXCEPT !.errors = @ \cup {[tool |-> "get_delivery_events",
                                       code |-> "conflicting_evidence"]}]
    ELSE [s EXCEPT !.deliveries = [m \in Messages |-> IF page[m] # None
                                                      THEN page[m] ELSE @[m]],
                   !.query = [complete |-> complete, asked |-> arg]]

\* The receiver of a message that does not exist is not known.
MergeConnection(s, arg, user) ==
    IF \/ user # arg
       \/ /\ s.message # None
          /\ s.message.kind # "missing"
          /\ user # s.message.message
    THEN RecordConflict(s, "connection.userId")
    ELSE [s EXCEPT !.connection = user]

\* The capability the details name, or else the one the tool stands for.
CapabilityOf(error) ==
    CASE error.capability # None -> error.capability
      [] error.tool = "get_delivery_events" -> "deliveryEvents"
      [] error.tool = "get_connection_status" -> "historicalPresence"
      [] OTHER -> "messageLookup"

MergeError(s, error) ==
    [s EXCEPT !.errors = @ \cup {[tool |-> error.tool, code |-> error.code]},
              !.unsupported = IF error.code = "unsupported_capability"
                              THEN @ \cup {CapabilityOf(error)} ELSE @]

-----------------------------------------------------------------------------
(* Steps.                                                                  *)

FindUserOrMessage ==
    LET s == Succeeded(case, "find_user_or_message") IN
    \/ case' = Refresh(MergeNoMatch(s))
    \/ \E found \in Messages \cup {None} : case' = Refresh(MergeMatch(s, found))

GetMessageStatus ==
    LET s == Succeeded(case, "get_message_status") IN
    \E arg \in Messages, fact \in MessageFacts :
        case' = Refresh(MergeMessage(s, arg, fact))

\* Pages with at most one event; more come with further calls.
Pages ==
    {p \in [Messages -> Results \cup {None}] :
        \A m, n \in Messages : p[m] # None /\ p[n] # None => m = n}

GetDeliveryEvents ==
    LET s == Succeeded(case, "get_delivery_events") IN
    \E arg \in Messages, page \in Pages, complete \in BOOLEAN :
        case' = Refresh(MergeDelivery(s, arg, page, complete))

GetConnectionStatus ==
    LET s == Succeeded(case, "get_connection_status") IN
    \E arg, user \in Messages : case' = Refresh(MergeConnection(s, arg, user))

ToolFails == \E error \in Failures : case' = Refresh(MergeError(case, error))

\* The candidates a run may start with: the one it has, or a new one.  One
\* other than the confirmed target starts a target switch, which is not part
\* of this module.
NextCandidates ==
    {case.candidate} \cup {m \in Messages : case.messageId \in {None, m}}

\* Another candidate before any target is confirmed.
ForgetCandidate(s) ==
    [s EXCEPT !.message = None, !.deliveries = Unknown, !.connection = None,
              !.query = None, !.conflicts = {}, !.errors = {},
              !.disputed = FALSE]

\* A run starts: capabilities are declared anew, mergeCandidateContext.
NextRound ==
    \E m \in NextCandidates :
        LET s == [case EXCEPT !.candidate = m, !.unsupported = Declared]
            discard == case.messageId = None /\ case.candidate \notin {None, m}
        IN  case' = Refresh(IF discard THEN ForgetCandidate(s) ELSE s)

Next ==
    \/ FindUserOrMessage
    \/ GetMessageStatus
    \/ GetDeliveryEvents
    \/ GetConnectionStatus
    \/ ToolFails
    \/ NextRound

Spec == Init /\ [][Next]_case

-----------------------------------------------------------------------------
(* Properties.                                                             *)

Conclusive(s) == Classification(s) # "insufficient_data"

\* In whatever order results arrive, of whichever messages: the message fact
\* is about the confirmed target, and a target is confirmed before there is
\* one (mergeMessageResult, mergeFindResult).
MessageIsTarget ==
    case.message # None => case.message.message = case.messageId

\* A conclusion rests on facts about the confirmed target only, although
\* deliveries and connections are merged before a target is confirmed.
ConclusionFitsTarget ==
    Conclusive(case) =>
        /\ case.messageId # None
        /\ case.message.message = case.messageId
        /\ Events(case) \subseteq {case.messageId}
        /\ Classification(case) = "receiver_offline" =>
              case.connection = case.messageId

\* "A tool error is no business conclusion" (docs/agent-sequence.md): a step
\* that records an error never makes a diagnosis conclusive.
ErrorsConcludeNothing ==
    [][(~(case'.errors \subseteq case.errors) /\ Conclusive(case'))
           => Conclusive(case)]_case

\* The calls of one model step run in parallel.  Where nothing is known yet,
\* the first answers about the target and its receiver lead to the same state
\* in whichever order they arrive.
ArrivalOrderIrrelevant ==
    LET t == Target(case)
        Fresh == /\ t # None /\ case.message = None /\ Events(case) = {}
                 /\ case.connection = None
    IN  Fresh =>
        \A kind \in Kinds, result \in Results \cup {None}, complete \in BOOLEAN :
            LET Status(s) == Refresh(MergeMessage(s, t, [message |-> t, kind |-> kind]))
                Delivery(s) == Refresh(MergeDelivery(s, t, [Unknown EXCEPT ![t] = result],
                                                     complete))
                Connection(s) == Refresh(MergeConnection(s, t, t))
            IN  /\ Status(Delivery(case)) = Delivery(Status(case))
                /\ Status(Connection(case)) = Connection(Status(case))
                /\ Connection(Delivery(case)) = Delivery(Connection(case))

\* docs/diagnosis-state-machine.md: not_delivered needs a failed delivery or
\* a confirmed empty query, of the message.
EmptyQueryIsOfTarget ==
    Classification(case) = "not_delivered" =>
        EventWith(case, "failed") \/ case.query.asked = case.messageId

\* docs/diagnosis-state-machine.md: a conflict is not for the model to decide;
\* while one is on record the classification is insufficient_data.
DisputesStayOpen == case.disputed => ~Conclusive(case)
=============================================================================
