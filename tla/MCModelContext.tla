--------------------------- MODULE MCModelContext ---------------------------
(* Instance of ModelContext for TLC.  A unit is some twenty characters, so  *)
(* that a small item is hardly more than the words that tell of its loss.   *)
EXTENDS ModelContext, TLC

Sizes ==
    [p \in Parts |->
        CASE p \in {"recentTools", "recentConversation", "deliveryFacts"} -> 4
          [] p \in {"historySummary", "currentUserText", "currentIssue"} -> 5
          [] p \in {"conflicts", "toolErrors", "excludedHypotheses"} -> 3
          [] OTHER -> 2]

Limits == [p \in Parts |-> IF p = "unrelatedFacts" THEN 0
                           ELSE IF p = "evidenceRefs" THEN 1 ELSE 2]

\* A session that knows something of up to two parts beside its dialogue, or
\* one small item of any number of parts.
SmallParts ==
    {"evidenceRefs", "diagnosisPossibleCauses", "unsupportedCapabilities",
     "missingInformation", "connectorCapabilities"}

SomeKnown ==
    {[p \in Parts |-> IF p = a THEN 2 ELSE IF p = b THEN 1 ELSE 0] : a, b \in Parts}
    \cup {[p \in Parts |-> IF p \in small THEN 1 ELSE 0] : small \in SUBSET SmallParts}
=============================================================================
