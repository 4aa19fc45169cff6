---------------------------- MODULE TargetSwitch ----------------------------
(***************************************************************************)
(* Changing the message a session is about                                 *)
(* (mergeCandidateContext, resolveTargetSwitch and expireTargetSwitch of   *)
(* src/agent/state-merge.ts, and the runs of src/agent/agent.ts that call  *)
(* them).                                                                  *)
(*                                                                         *)
(* A message named before any is located just becomes the candidate.  Once *)
(* a message is located, naming another one offers a switch: it is stored, *)
(* shown to the customer, and only a decision that names it and the        *)
(* version it was shown with resolves it.  Several requests on the session *)
(* run at once; each works on the state it has loaded and saves it if the  *)
(* version is still the same (SessionStore).                               *)
(*                                                                         *)
(* Users, conversations and time ranges are left out of the candidate, and *)
(* of the facts only for which case they were gathered is kept.            *)
(***************************************************************************)
EXTENDS Naturals, Sequences

CONSTANTS
    Runs,           \* the requests at work at one time
    Messages,
    None,
    SwitchTTL,      \* how long an offered switch can be decided: 5 minutes
    MaxIssues,      \* previous issues kept: 10 in the code
    MaxVersion,     \* bound: the session is not saved beyond this version
    MaxTime         \* bound: the clock stops here

ASSUME SwitchAssumption ==
    /\ SwitchTTL \in Nat \ {0} /\ MaxIssues \in Nat \ {0}
    /\ MaxVersion \in Nat \ {0} /\ MaxTime \in Nat

VARIABLES
    now,
    session,        \* the stored row
    run,            \* what each request works on
    shown,          \* switches shown to a customer, with the version shown
    applied         \* decisions that were saved, with the version saved

vars == <<now, session, run, shown, applied>>

\* issueIdFor hashes what distinguishes an issue; the first one is random.
FirstIssue == <<>>

Issues == {FirstIssue} \cup (Messages \X Nat \X Nat)

\* targetSwitchDecisionId hashes the version, both messages and the time; the
\* pending switch also holds the issue it was requested for.
Switches == [version : Nat, from : Messages, to : Messages, at : Nat, issue : Issues]

\* A fact is known by the issue and the candidate it was gathered for.
Sessions == [version : Nat, messageId : Messages \cup {None},
             candidate : Messages \cup {None}, listed : BOOLEAN,
             facts : SUBSET (Issues \X (Messages \cup {None})),
             question : {"none", "messageId", "targetSwitch"},
             pending : Switches \cup {None}, issue : Issues,
             previous : Seq([issue : Issues, messageId : Messages])]

Decisions == [id : Switches, version : Nat, approve : BOOLEAN]

ASSUME NoneAssumption == None \notin Messages \cup Switches \cup Decisions

NewSession ==
    [version |-> 1, messageId |-> None, candidate |-> None, listed |-> FALSE,
     facts |-> {}, question |-> "none", pending |-> None, issue |-> FirstIssue,
     previous |-> <<>>]

Idle == [pc |-> "idle", text |-> None, decision |-> None, state |-> NewSession]

TypeOK ==
    /\ now \in 0..MaxTime
    /\ session \in Sessions
    /\ Len(session.previous) <= MaxIssues
    /\ run \in [Runs -> [pc : {"idle", "extracting", "selecting", "saving"},
                         text : Messages \cup {None},
                         decision : Decisions \cup {None},
                         state : Sessions]]
    /\ shown \subseteq [id : Switches, version : Nat]
    /\ applied \subseteq [id : Switches, approve : BOOLEAN, saved : Nat]

-----------------------------------------------------------------------------
(* Mutated forms.                                                          *)

NameWithoutForgetting(s, m) ==
    [s EXCEPT !.candidate = m, !.listed = @ /\ m = s.candidate,
              !.question = IF @ = "messageId" THEN "none" ELSE @]

NameOverTarget(s, m) ==
    [s EXCEPT !.candidate = m, !.messageId = IF @ = None THEN None ELSE m,
              !.listed = @ /\ m = s.candidate]

AnyVersion(r) == TRUE

-----------------------------------------------------------------------------
(* Operators on the state of a session.                                    *)

IsExpired(s) == s.pending # None /\ s.pending.at + SwitchTTL <= now

\* What the model extracts is the customer's choice among listed messages
\* only if the customer has typed it.
Extracted(s, text, m) == IF s.listed /\ m # text THEN None ELSE m

\* Another message named before one is located replaces the candidate, and
\* what was gathered for the former one is forgotten.
Forgets(s, m) == s.messageId = None /\ s.candidate \notin {None, m}

NameCandidate(s, m) ==
    [s EXCEPT !.candidate = m,
              !.listed = @ /\ m = s.candidate,
              !.facts = IF Forgets(s, m) THEN {} ELSE @,
              !.question = IF @ = "messageId" \/ Forgets(s, m) THEN "none" ELSE @]

OfferSwitch(s, m) ==
    [s EXCEPT !.candidate = m,
              !.listed = @ /\ m = s.candidate,
              !.question = "targetSwitch",
              !.pending = [version |-> s.version, from |-> s.messageId, to |-> m,
                           at |-> now, issue |-> s.issue]]

\* mergeCandidateContext
MergeCandidate(s, m) ==
    CASE m = None -> s
      [] m # None /\ s.messageId \in {None, m} -> NameCandidate(s, m)
      [] OTHER -> OfferSwitch(s, m)

\* The decision names the pending switch, in time, and the state it was
\* offered for.
Decidable(s, d) ==
    /\ s.pending # None
    /\ s.version = d.version
    /\ s.pending = d.id
    /\ ~IsExpired(s)
    /\ s.messageId = s.pending.from
    /\ s.issue = s.pending.issue

Reject(s) ==
    [s EXCEPT !.candidate = s.messageId, !.question = "none", !.pending = None]

\* The previous issues but the given one.
Without(previous, issue) ==
    LET kept[n \in 0..Len(previous)] ==
            IF n = 0 THEN <<>>
            ELSE IF previous[n].issue # issue
            THEN Append(kept[n - 1], previous[n]) ELSE kept[n - 1]
    IN  kept[Len(previous)]

\* The current issue goes to the end of the previous ones, of which the last
\* MaxIssues are kept.
Archived(s) ==
    LET all == Append(Without(s.previous, s.issue),
                      [issue |-> s.issue, messageId |-> s.messageId])
    IN  IF Len(all) <= MaxIssues THEN all
        ELSE SubSeq(all, Len(all) - MaxIssues + 1, Len(all))

\* A new issue about the other message, of which nothing is known.
Approve(s) ==
    [s EXCEPT !.issue = <<s.pending.to, s.version, now>>,
              !.previous = Archived(s),
              !.candidate = s.pending.to,
              !.messageId = None,
              !.facts = {},
              !.question = "none",
              !.pending = None]

\* expireTargetSwitch
Expire(s) ==
    [s EXCEPT !.candidate = s.messageId, !.pending = None, !.question = "messageId"]

-----------------------------------------------------------------------------
(* The runs.                                                               *)

Init ==
    /\ now = 0
    /\ session = NewSession
    /\ run = [r \in Runs |-> Idle]
    /\ shown = {}
    /\ applied = {}

Set(r, pc, state) == run' = [run EXCEPT ![r].pc = pc, ![r].state = state]

\* The request is answered, or fails, and another one may come.
Finish(r) == run' = [run EXCEPT ![r] = Idle]

Begin(r, pc, text, decision, state) ==
    /\ run[r].pc = "idle"
    /\ run' = [run EXCEPT ![r] = [pc |-> pc, text |-> text, decision |-> decision,
                                  state |-> state]]
    /\ UNCHANGED <<now, session, shown, applied>>

\* The text or the decision of a request that finds the switch expired is left
\* alone: the customer is asked for the message again.
AskAgain(r) ==
    /\ IsExpired(session)
    /\ Begin(r, "saving", None, None, Expire(session))

Offer(s) == IF s.pending = None THEN {} ELSE {[id |-> s.pending, version |-> s.version]}

\* A request without a decision is answered with the pending switch; nothing
\* is saved.
ShowPending ==
    /\ session.pending # None /\ ~IsExpired(session)
    /\ shown' = shown \cup Offer(session)
    /\ UNCHANGED <<now, session, run, applied>>

\* A decision about a switch that was shown, at the version it was shown with
\* or at the next one; where it decides nothing the request fails.
Decide(r) ==
    /\ ~IsExpired(session)
    /\ \E offer \in shown, approve \in BOOLEAN :
        \E version \in {offer.version, offer.version + 1} :
        LET d == [id |-> offer.id, version |-> version, approve |-> approve] IN
        /\ Decidable(session, d)
        /\ Begin(r, "selecting", None, d,
                 IF approve THEN Approve(session) ELSE Reject(session))

\* The text only matters where messages are listed to choose from.
Ask(r) ==
    /\ session.pending = None
    /\ \E text \in {None} \cup (IF session.listed THEN Messages ELSE {}) :
        Begin(r, "extracting", text, None, session)

\* The model may extract another message than the text names.  A question is
\* asked again where there is a switch to decide or nothing to look at; a
\* candidate user, not modelled, is something to look at.
Extract(r) ==
    /\ run[r].pc = "extracting"
    /\ \E m \in Messages \cup {None} :
        LET old == run[r].state
            new == MergeCandidate(old, Extracted(old, run[r].text, m))
            asks == new.question # "none" /\ new.candidate = None
        IN  \/ (new.pending # None \/ asks) /\ Set(r, "saving", new)
            \/ new.pending = None /\ Set(r, "selecting", new)
    /\ UNCHANGED <<now, session, shown, applied>>

\* The deterministic search for a user's messages lists them and asks.
List(r) ==
    LET s == run[r].state IN
    /\ run[r].pc = "selecting"
    /\ s.messageId = None /\ s.candidate = None
    /\ Set(r, "saving", [s EXCEPT !.listed = TRUE, !.question = "messageId"])
    /\ UNCHANGED <<now, session, shown, applied>>

\* A tool answers, about any message: it is a fact of the current case, and
\* may locate the message.
Gather(r) ==
    LET s == run[r].state IN
    /\ run[r].pc = "selecting"
    /\ \E located \in {s.messageId} \cup (IF s.messageId = None THEN Messages ELSE {}) :
        Set(r, "selecting", [s EXCEPT !.facts = @ \cup {<<s.issue, s.candidate>>},
                                      !.messageId = located])
    /\ UNCHANGED <<now, session, shown, applied>>

\* At the end the state holds a question if the diagnosis needs more.
EndSelection(r) ==
    /\ run[r].pc = "selecting"
    /\ \E question \in {"none", "messageId"} :
        Set(r, "saving", [run[r].state EXCEPT !.question = question])
    /\ UNCHANGED <<now, session, shown, applied>>

Fail(r) ==
    /\ run[r].pc \in {"extracting", "selecting", "saving"}
    /\ Finish(r)
    /\ UNCHANGED <<now, session, shown, applied>>

\* stateStore.save with the version that was loaded.  The answer may be lost.
Unchanged(r) == session.version = run[r].state.version

Save(r) ==
    LET next == [run[r].state EXCEPT !.version = @ + 1]
        d == run[r].decision
    IN  /\ run[r].pc = "saving"
        /\ Unchanged(r) /\ next.version <= MaxVersion
        /\ session' = next
        /\ Finish(r)
        /\ shown' \in {shown, shown \cup Offer(next)}
        /\ applied' = IF d = None THEN applied
                      ELSE applied \cup {[id |-> d.id, approve |-> d.approve, saved |-> next.version]}
        /\ UNCHANGED now

Conflict(r) ==
    /\ run[r].pc = "saving" /\ ~Unchanged(r)
    /\ Finish(r)
    /\ UNCHANGED <<now, session, shown, applied>>

Tick ==
    /\ now < MaxTime /\ now' = now + 1
    /\ UNCHANGED <<session, run, shown, applied>>

Next ==
    \/ \E r \in Runs :
        \/ AskAgain(r) \/ Decide(r) \/ Ask(r)
        \/ Extract(r) \/ List(r) \/ Gather(r) \/ EndSelection(r) \/ Fail(r)
        \/ Save(r) \/ Conflict(r)
    \/ ShowPending
    \/ Tick

Spec == Init /\ [][Next]_vars

-----------------------------------------------------------------------------
(* Properties.                                                             *)

\* A switch that was shown can be decided as it was shown as long as nothing
\* else is saved and it has not expired: the version the client holds is the
\* one its offer is at, and the target it switches from is still the target.
OfferHonoured ==
    \A offer \in shown, approve \in BOOLEAN :
        LET d == [id |-> offer.id, version |-> offer.version, approve |-> approve] IN
        offer.version = session.version =>
            session.pending = offer.id /\ (IsExpired(session) \/ Decidable(session, d))

\* Whatever requests overlap, a decision is saved once, and a switch is not
\* both approved and rejected.
DecidedOnce == \A a, b \in applied : a.id = b.id => a = b

\* What a case knows was gathered for its own issue, and before a message is
\* located for the present candidate: no switch carries facts over.
FactsOfCase(s) ==
    \A f \in s.facts :
        /\ f[1] = s.issue
        /\ s.messageId = None => f[2] \in {None, s.candidate}

FactsOfCurrentCase == FactsOfCase(session)

\* A located message stays the target of the stored session until a decision
\* that approves the switch stored with it, and the issue changes with it; a
\* rejection or an expiry leaves both alone.
MovedByDecision ==
    \/ session'.issue # session.issue
    \/ session.messageId # None /\ session'.messageId # session.messageId
    => /\ session.pending # None
       /\ \E a \in applied' \ applied : a.approve /\ a.id = session.pending
       /\ session'.issue[1] = session.pending.to
       /\ session'.candidate = session.pending.to

\* While messages are listed for the customer to choose from, the candidate
\* becomes a listed message only if the customer has typed it.
ChosenByTyping ==
    session.listed /\ session'.candidate \notin {None, session.candidate}
    => \E r \in Runs : run'[r].pc = "idle" /\ run[r].pc = "saving"
                       /\ run[r].text = session'.candidate

\* What a located session is about changes by the customer alone, never by what
\* a model extracts or a tool answers (resolveTargetSwitch); before a message is
\* located the candidate is set by extraction, and of messages that were listed
\* only to the one the customer has typed (the check in runAgentLoop).
TargetMovesByCustomer == [][MovedByDecision /\ ChosenByTyping]_vars
=============================================================================
