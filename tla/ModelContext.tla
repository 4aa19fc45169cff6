---------------------------- MODULE ModelContext ----------------------------
(***************************************************************************)
(* What a model call is told of a session: buildModelContext of            *)
(* src/agent/model-context.ts.  Each purpose takes its own parts of the    *)
(* session, each part within its own limit, and then parts are dropped in  *)
(* a fixed order until the whole fits the characters the call has.         *)
(*                                                                         *)
(* A part is a number of units: items of an array, or pieces of a text     *)
(* beyond the 100 characters that are never cut.  Telling of an omission   *)
(* takes characters too: its key in "omitted", which is there at once, and *)
(* the name of its section, which is added when the status is written, so  *)
(* that writing the status may make the context too long again.            *)
(***************************************************************************)
EXTENDS ConversationMemory, SequencesExt, FiniteSets, FiniteSetsExt

CONSTANTS
    SizeOf,      \* characters of a unit of each part
    Limit,       \* units of each part its own budget admits
    Maximum,     \* modelContextCharacterBudget
    Required,    \* characters of the parts that are never dropped
    KeyCost, NameCost,    \* characters of a key and a section name
    Known        \* what a session may know: units of each part

VARIABLES
    phase,       \* idle, fit, status, done, too_large
    content,     \* the units of each part in the context
    omitted,     \* the units left out, modelContextStatus.omitted
    required,    \* characters of the rest
    reported,    \* omittedSections
    attempt      \* status updates so far

build == <<phase, content, omitted, required, reported, attempt>>
contextVars == <<memory, build>>

-----------------------------------------------------------------------------
\* The order in which parts are dropped.
Order == <<"recentTools", "recentConversation", "historySummary", "evidenceRefs",
           "deliveryFacts", "conflicts", "toolErrors", "excludedHypotheses",
           "diagnosisPossibleCauses", "diagnosisFacts",
           "diagnosisUnsupportedCapabilities", "unsupportedCapabilities",
           "diagnosisMissingInformation", "missingInformation",
           "connectorCapabilities", "currentUserText", "currentIssue">>

\* unrelatedFacts: facts of other messages and users, never in the context.
Parts == ToSet(Order) \cup {"unrelatedFacts"}

Nothing == [p \in Parts |-> 0]

ASSUME SizeAssumption ==
    /\ SizeOf \in [Parts -> Nat \ {0}] /\ Limit \in [Parts -> Nat]
    /\ Limit["unrelatedFacts"] = 0
    /\ Maximum \in Nat /\ Required \subseteq Nat
    /\ KeyCost \in Nat /\ NameCost \in Nat
    /\ Known \subseteq [Parts -> Nat]

Purposes == {"extract_context", "select_tool", "generate_response", "generate_draft"}

Dialogue == {"recentConversation", "historySummary"}

Facts == {"evidenceRefs", "deliveryFacts", "conflicts", "toolErrors", "unrelatedFacts",
          "excludedHypotheses", "unsupportedCapabilities", "missingInformation"}

Diagnosis == {"diagnosisPossibleCauses", "diagnosisFacts",
              "diagnosisUnsupportedCapabilities", "diagnosisMissingInformation"}

PartsFor(purpose) ==
    {"currentIssue"} \cup
    CASE purpose = "extract_context" -> {"currentUserText"} \cup Dialogue
      [] purpose = "select_tool" ->
            Facts \cup Dialogue \cup {"connectorCapabilities", "recentTools"}
      [] purpose = "generate_response" -> Facts \cup Diagnosis \cup {"currentUserText"}
      [] purpose = "generate_draft" -> Facts \cup Diagnosis

SectionForOmission(part) ==
    CASE part = "recentTools" -> "toolSummaries"
      [] part \in {"deliveryFacts", "diagnosisFacts", "evidenceRefs", "conflicts",
                   "unrelatedFacts"} -> "confirmedFacts"
      [] part \in Diagnosis \ {"diagnosisFacts"} -> "diagnosis"
      [] part = "currentUserText" -> "currentQuestion"
      [] OTHER -> part

OmittedParts == {p \in Parts : omitted[p] > 0}

SectionsOmitted == {SectionForOmission(p) : p \in OmittedParts}

\* serializedLength of a context: the characters of what is never dropped,
\* the units of the other parts, the parts something is left out of and the
\* names of sections in the status.
SerializedLength(rest, units, parts, names) ==
    rest + KeyCost * Cardinality(parts) + NameCost * Cardinality(names)
    + MapThenSumSet(LAMBDA p : units[p] * SizeOf[p], Parts)

\* The context as it is, with these names in its status.
Length(names) == SerializedLength(required, content, OmittedParts, names)

TooLong == Length(reported) > Maximum

ContextTypeOK ==
    /\ phase \in {"idle", "fit", "status", "done", "too_large"}
    /\ content \in [Parts -> Nat] /\ omitted \in [Parts -> Nat]
    /\ required \in Required \cup {0}
    /\ reported \subseteq {SectionForOmission(p) : p \in Parts}
    /\ attempt \in 0..3

ContextInit ==
    /\ MemoryInit
    /\ phase = "idle"
    /\ content = Nothing /\ omitted = Nothing
    /\ required = 0 /\ reported = {} /\ attempt = 0

-----------------------------------------------------------------------------
(* Mutated forms.                                                          *)

NamesOfFirst == IF attempt = 0 THEN SectionsOmitted ELSE reported

-----------------------------------------------------------------------------
\* A run ends and its exchange is remembered.
Remember ==
    /\ phase = "idle"
    /\ RecordConversationExchange
    /\ UNCHANGED build

\* A run starts with the decision of its customer.
Forget ==
    /\ phase = "idle"
    /\ ApproveTargetSwitch
    /\ UNCHANGED build

\* What the session knows of each part; of the history, 100 characters are
\* never cut.
InSession(known, part) ==
    CASE part = "recentConversation" -> Len(recent)
      [] part = "historySummary" -> IF summary > 0 THEN summary - 1 ELSE 0
      [] OTHER -> known[part]

\* takeRecent, fitArrayToSectionBudget, truncateText, summarizeConfirmedFacts
WithinLimit(part, units) == LesserOf(units, Limit[part])

\* The confirmed facts beside the deliveries may be too large for their own
\* budget already.
Build ==
    /\ phase = "idle"
    /\ \E purpose \in Purposes, known \in Known :
        LET units == [p \in Parts |-> IF p \in PartsFor(purpose)
                                      THEN InSession(known, p) ELSE 0]
        IN  /\ content' = [p \in Parts |-> WithinLimit(p, units[p])]
            /\ omitted' = [p \in Parts |-> units[p] - WithinLimit(p, units[p])]
    /\ required' \in Required
    /\ phase' \in {"fit", "too_large"}
    /\ UNCHANGED <<memory, reported, attempt>>

Droppable == {i \in DOMAIN Order : content[Order[i]] > 0}

\* One turn of one of the loops of fitToCharacterBudget.
Drop ==
    /\ phase = "fit" /\ TooLong /\ Droppable # {}
    /\ LET part == Order[Min(Droppable)] IN
       /\ content' = [content EXCEPT ![part] = @ - 1]
       /\ omitted' = [omitted EXCEPT ![part] = @ + 1]
    /\ UNCHANGED <<memory, phase, required, reported, attempt>>

GiveUp ==
    /\ phase = "fit" /\ TooLong /\ Droppable = {}
    /\ phase' = "too_large"
    /\ UNCHANGED <<memory, content, omitted, required, reported, attempt>>

FitDone ==
    /\ phase = "fit" /\ ~TooLong
    /\ phase' = IF attempt = 3 THEN "done" ELSE "status"
    /\ UNCHANGED <<memory, content, omitted, required, reported, attempt>>

Names == SectionsOmitted

\* One turn of updateContextStatus.
UpdateContextStatus ==
    /\ phase = "status"
    /\ reported' = Names
    /\ attempt' = attempt + 1
    /\ phase' = IF Length(Names) > Maximum THEN "fit" ELSE "done"
    /\ UNCHANGED <<memory, content, omitted, required>>

Return ==
    /\ phase \in {"done", "too_large"}
    /\ phase' = "idle"
    /\ content' = Nothing /\ omitted' = Nothing
    /\ required' = 0 /\ reported' = {} /\ attempt' = 0
    /\ UNCHANGED memory

ContextNext ==
    \/ Remember \/ Forget \/ Build
    \/ Drop \/ GiveUp \/ FitDone \/ UpdateContextStatus
    \/ Return

ContextSpec == ContextInit /\ [][ContextNext]_contextVars

-----------------------------------------------------------------------------
(* Properties.                                                             *)

\* A call that is made fits its budget and is told of what it is not told:
\* the status names the section of everything that was left out.  Only where
\* the names themselves made the context too long three times may the last
\* cut go unnamed.
OmissionsReported ==
    phase = "done" =>
        /\ ~TooLong
        /\ OmittedParts # {} => reported # {}
        /\ reported \subseteq SectionsOmitted
        /\ attempt < 3 => reported = SectionsOmitted
=============================================================================
