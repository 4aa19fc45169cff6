---------------------------- MODULE GoImConnector ---------------------------
(***************************************************************************)
(* The connector of a real IM system (src/connectors/go-im) and the four   *)
(* diagnostic tools that call it (src/tools/find-user-or-message.ts and    *)
(* the three get-... files beside it), as operators: what a probe of the   *)
(* three services says the system can do, which calls are let through, and *)
(* what a service's response becomes.                                      *)
(*                                                                         *)
(* Two messages and two users are enough: the one a call asks about and    *)
(* another.  Times are only within or outside of the range asked for.      *)
(***************************************************************************)
EXTENDS Naturals, FiniteSets

Capabilities == {"messageLookup", "messageSearch", "deliveryEvents",
                 "historicalPresence"}

\* What the observation service itself declares.
Observed == {"deliveryEvents", "historicalPresence"}

Services == {"message", "user", "observation"}

Probes == {"record", "search", "observation"}

ServiceOf(probe) == IF probe = "observation" THEN "observation" ELSE "message"

ProbeOf(capability) ==
    CASE capability = "messageLookup" -> "record"
      [] capability = "messageSearch" -> "search"
      [] OTHER                        -> "observation"

\* A call: which tool, and by what find_user_or_message looks.
Calls == {"find_message", "find_in_range", "find_user", "find_conversation",
          "get_message_status", "get_delivery_events", "get_connection_status"}

CapabilityOf(call) ==
    CASE call = "find_in_range"         -> "messageSearch"
      [] call = "get_delivery_events"   -> "deliveryEvents"
      [] call = "get_connection_status" -> "historicalPresence"
      [] OTHER                          -> "messageLookup"

ServiceCalled(call) ==
    CASE call \in {"get_delivery_events", "get_connection_status"} -> "observation"
      [] call = "find_user" -> "user"
      [] OTHER              -> "message"

-----------------------------------------------------------------------------
(* Mutated forms.                                                          *)

UnknownIsUnsupported(outcome, lacks) ==
    [c \in Capabilities |->
        IF outcome[ProbeOf(c)] # "ok" \/ c \in lacks THEN "unsupported"
        ELSE "supported"]

AnyFailure(outcome, c) ==
    IF \A p \in Probes : outcome[p] = "ok" THEN "none"
    ELSE outcome[CHOOSE p \in Probes : outcome[p] # "ok"]

UniqueIfOneRow(rows, truncated) ==
    IF rows = {} THEN "none" ELSE IF Cardinality(rows) = 1 THEN "unique" ELSE "multiple"

-----------------------------------------------------------------------------
(* Capabilities.  outcome says how each probe of a connector ended: "ok",  *)
(* or the code of its failure; lacks is what the system cannot do.         *)

\* getCapabilities of the domain client, mapCapabilities: what could not be
\* probed is unknown.
CapabilitiesOf(outcome, lacks) ==
    [c \in Capabilities |->
        IF outcome[ProbeOf(c)] # "ok" THEN "unknown"
        ELSE IF c \in lacks THEN "unsupported" ELSE "supported"]

\* capabilityFailures: the failure of the probe behind a capability.
FailureOf(outcome, c) ==
    IF outcome[ProbeOf(c)] = "ok" THEN "none" ELSE outcome[ProbeOf(c)]

\* A system without a method answers UNIMPLEMENTED, which maps to the code of
\* an unsupported capability (mapGrpcError).  The observation service answers
\* and declares what it lacks.
ProbeOutcome(probe, up, lacks) ==
    CASE ~up -> "unavailable"
      [] up /\ \E c \in lacks \ Observed : ProbeOf(c) = probe -> "unsupported"
      [] OTHER -> "ok"

\* requireCapability of the tool and then of the connector: the code a call
\* is refused with, or "none".
RefusalOf(call, outcome, lacks) ==
    LET c == CapabilityOf(call) IN
    IF call = "find_conversation" \/ CapabilitiesOf(outcome, lacks)[c] = "unsupported"
    THEN "unsupported"
    ELSE FailureOf(outcome, c)

-----------------------------------------------------------------------------
(* Responses.  Each is what a service may send; "internal" is the error an *)
(* exception of a mapping becomes.                                         *)

Times == {"within", "outside"}

\* Every response names what it is about; a service may send the wrong thing.
About == {"asked", "other"}

\* mapMessageRecord
RecordOfAsked(raw) == raw.about = "asked"

\* getMessageStatus, and findUserOrMessage by message, of which the former
\* needs to know when a message was not found.
Records == [found : BOOLEAN, about : About, dated : BOOLEAN]

MessageStatus(raw) ==
    CASE raw.found /\ raw.dated /\ RecordOfAsked(raw) -> [kind |-> "message", about |-> raw.about]
      [] ~raw.found /\ raw.dated                      -> [kind |-> "absent", about |-> "asked"]
      [] OTHER                                        -> [kind |-> "internal"]

FoundMessage(raw) ==
    CASE raw.found /\ raw.dated /\ RecordOfAsked(raw) ->
            [kind |-> "matches", status |-> "unique", about |-> raw.about]
      [] ~raw.found -> [kind |-> "matches", status |-> "none", about |-> "asked"]
      [] OTHER      -> [kind |-> "internal"]

\* Rows of the messages of a user, or of users by name.
ResolutionStatus(rows, truncated) ==
    IF rows = {} THEN "none"
    ELSE IF Cardinality(rows) = 1 /\ ~truncated THEN "unique" ELSE "multiple"

Rows == SUBSET {<<"within", 1>>, <<"within", 2>>, <<"outside", 1>>}

Searches == [rows : Rows, about : About, truncated : BOOLEAN, dated : BOOLEAN]

OutOfScope(raw) ==
    raw.rows # {} /\ (raw.about # "asked" \/ \E row \in raw.rows : row[1] = "outside")

FoundInRange(raw) ==
    IF ~raw.dated \/ OutOfScope(raw) THEN [kind |-> "internal"]
    ELSE [kind |-> "matches", status |-> ResolutionStatus(raw.rows, raw.truncated),
          about |-> "asked"]

\* The rows of a user search are not compared with what was asked for.
FoundUsers(raw) ==
    IF ~raw.dated /\ raw.rows # {} THEN [kind |-> "internal"]
    ELSE [kind |-> "matches", status |-> ResolutionStatus(raw.rows, raw.truncated),
          about |-> raw.about]

\* A delivery timeline.  It need not name a message, and an empty one then
\* says nothing of what it is about; its events each name theirs, and "about" is
\* what all of them do.  Events may have been dropped before they were stored.
Timelines ==
    [names : About \cup {"none"}, events : SUBSET Times, about : About \cup {"none"},
     dated : BOOLEAN, complete : BOOLEAN, truncated : BOOLEAN,
     coverage : {"complete", "partial"}, dropped : BOOLEAN]

Whole(raw) ==
    raw.complete /\ raw.coverage = "complete" /\ ~(raw.truncated \/ raw.dropped)

\* mapDeliveryTimeline, mapDeliveryEvent
TimelineOfAsked(raw) ==
    /\ raw.names # "other"
    /\ raw.events # {} => raw.about = "asked" /\ raw.dated

DeliveryEvents(raw, range) ==
    IF ~TimelineOfAsked(raw) THEN [kind |-> "internal"]
    ELSE [kind |-> "page", events |-> raw.events \cap range, complete |-> Whole(raw)]

\* Connections: observations of the user before the time asked about, and the
\* present state, which only stands in where there is no observation.
Connections ==
    [observations : SUBSET {"earlier", "latest"}, current : {"none", "present"},
     dated : BOOLEAN]

\* mapConnectionResponse sorts the observations by their time.
StateShown(raw) ==
    CASE "latest" \in raw.observations -> "latest"
      [] raw.observations = {"earlier"} -> "earlier"
      [] OTHER -> raw.current

ConnectionStatus(raw) ==
    CASE StateShown(raw) = "none" -> [kind |-> "not_found"]
      [] StateShown(raw) # "none" /\ raw.dated ->
            [kind |-> "connection", state |-> StateShown(raw),
             historical |-> raw.observations # {}]
      [] OTHER -> [kind |-> "internal"]

-----------------------------------------------------------------------------
(* Properties.  Of what a service stores, a response that keeps to the     *)
(* contract sends a part, and all of it where it says so.                  *)

HonestSearch(raw, store) ==
    LET sent == {row[2] : row \in raw.rows} IN
    sent \subseteq store /\ (raw.truncated \/ sent = store)

\* A timeline that is true of one of the messages, of which the service stores
\* these events.
HonestTimeline(raw, message, stored) ==
    /\ raw.names \in {message, "none"}
    /\ raw.events # {} => raw.about = message
    /\ raw.events \subseteq stored
    /\ raw.complete /\ raw.coverage = "complete" /\ ~raw.truncated /\ ~raw.dropped
        => raw.events = stored

\* A delivery page that says it is complete has every stored event of the
\* message and range that were asked for, so that an empty one is a fact, even
\* if the service answers about another message: all but an answer that names
\* no message and has no event, which is taken for one about the message that
\* was asked for.
CompletePageIsWhole ==
    \A raw \in Timelines, message \in About, store \in [About -> SUBSET Times],
       range \in {{"within"}, Times} :
        LET page == DeliveryEvents(raw, range) IN
        /\ HonestTimeline(raw, message, store[message])
        /\ page.kind = "page" /\ page.complete
        => \/ page.events = store["asked"] \cap range
           \/ message # "asked" /\ raw.names = "none" /\ raw.events = {}

\* A message or user that is the only match is the only one that is stored,
\* of that user and time or with that name.
UniqueIsOnly ==
    \A raw \in Searches, store \in SUBSET {1, 2} :
        \A found \in {FoundInRange(raw), FoundUsers(raw)} :
            HonestSearch(raw, store) /\ found.kind = "matches" /\ found.status = "unique"
                => Cardinality(store) = 1

\* The present connection is never shown as one of the past, and of the past
\* the latest observation is shown.
PastIsLatest ==
    \A raw \in Connections :
        LET answer == ConnectionStatus(raw) IN
        answer.kind = "connection" =>
            /\ answer.historical <=> answer.state # "present"
            /\ answer.state = "earlier" => "latest" \notin raw.observations

\* Whatever a service sends, what is said of a message, and of the messages
\* of a user, is said of the one that was asked for; that there are no events
\* is said of it unless the service names another.
FactsOfAsked ==
    /\ \A raw \in Records : \A answer \in {MessageStatus(raw), FoundMessage(raw)} :
        answer.kind # "internal" /\ raw.found => raw.about = "asked"
    /\ \A raw \in Searches :
        FoundInRange(raw).kind = "matches" /\ raw.rows # {} => raw.about = "asked"
    /\ \A raw \in Timelines :
        LET page == DeliveryEvents(raw, Times) IN
        page.kind = "page" => /\ raw.names # "other"
                              /\ page.events # {} => raw.about = "asked"
=============================================================================
