----------------------------- MODULE Workbench ------------------------------
(***************************************************************************)
(* The support workbench, src/app/page.tsx: one page that asks the agent,  *)
(* shows its diagnosis and prepares and confirms an escalation draft.  Its *)
(* handlers await their fetch and then set the state of the page, whatever *)
(* has happened to it in between: the text may have been edited, another   *)
(* question asked, the session reset.                                      *)
(*                                                                         *)
(* The server is what its own modules promise of it: a chat run saves one  *)
(* version of its session or none, answered or not (SessionStore), and     *)
(* prepare and confirm are steps of the ledger that EscalationDraft        *)
(* implements, for the session and version the server has, not the one     *)
(* the page shows.  A diagnosis is the session version it was saved with.  *)
(***************************************************************************)
EXTENDS Integers

CONSTANTS
    Texts,       \* summaries support can write
    Tokens,      \* prepare calls; each is answered with the token of its name
    Confirms,    \* confirm calls
    None,        \* no result, text, token or call
    MaxSessions, MaxVersion    \* bounds: resets and saves

ASSUME BoundAssumption == MaxSessions \in Nat \ {0} /\ MaxVersion \in Nat \ {0}

VARIABLES
    sessionId, result, error, draft, token, draftState,   \* the page
    chat,       \* the question in flight
    prepares, confirms,    \* the draft calls
    sessions,   \* server: version and diagnosis of each session
    terms, offered, ledger \* server: the confirmation ledger

page == <<sessionId, result, error, draft, token, draftState>>
server == <<sessions, terms, offered, ledger>>
vars == <<page, chat, prepares, confirms, server>>

-----------------------------------------------------------------------------
Sessions == 1..MaxSessions

\* What an answer of the agent shows; escalate: recommendedAction.
Results == [session : Sessions, version : 1..MaxVersion, escalate : BOOLEAN]

Chats == [session : Sessions, stage : {"sent", "answered", "failed"},
          result : Results \cup {None}]

\* touched: the text, the answer or the session has changed since the click;
\* behind: at the click a question was open or had failed, or one was asked
\* before the server got to it.
Prepares == [session : Sessions, content : Texts, shown : Results,
             stage : {"sent", "answered", "failed", "over"},
             touched : BOOLEAN, behind : BOOLEAN]

ConfirmCalls == [session : Sessions, token : Tokens,
                 stage : {"sent", "answered", "failed", "over"}]

Keys == Sessions \X (1..MaxVersion)

ASSUME NoneAssumption ==
    /\ None \notin Texts \cup Tokens \cup Confirms
    /\ None \notin Results \cup Chats \cup Prepares \cup ConfirmCalls
    /\ None \notin [key : Keys, content : Texts]

Ledger == INSTANCE OneShotConfirmation WITH Contents <- Texts, Nothing <- None

TypeOK ==
    /\ sessionId \in Sessions
    /\ result \in Results \cup {None}
    /\ error \in BOOLEAN
    /\ draft \in Texts \cup {None}
    /\ token \in Tokens \cup {None}
    /\ draftState \in {"idle", "preparing", "ready", "confirmed", "error"}
    /\ chat \in Chats \cup {None}
    /\ prepares \in [Tokens -> Prepares \cup {None}]
    /\ confirms \in [Confirms -> ConfirmCalls \cup {None}]
    /\ sessions \in [Sessions -> [version : 0..MaxVersion, escalate : BOOLEAN]]

Init ==
    /\ sessionId = 1
    /\ result = None
    /\ error = FALSE
    /\ draft = None
    /\ token = None
    /\ draftState = "idle"
    /\ chat = None
    /\ prepares = [t \in Tokens |-> None]
    /\ confirms = [c \in Confirms |-> None]
    /\ sessions = [s \in Sessions |-> [version |-> 0, escalate |-> FALSE]]
    /\ Ledger!Init

-----------------------------------------------------------------------------
(* Mutated forms.                                                          *)

TextOnly(text) == draft' = text /\ UNCHANGED <<token, draftState>>

FailSilently == UNCHANGED error

StillPreparing == UNCHANGED draftState

-----------------------------------------------------------------------------
(* Asking the agent.                                                       *)

Running == chat # None

InFlight(t) == prepares[t] # None /\ prepares[t].stage # "over"

\* The page changes under the prepare calls that are in flight.
Touch ==
    prepares' = [t \in Tokens |-> IF InFlight(t)
                                  THEN [prepares[t] EXCEPT !.touched = TRUE]
                                  ELSE prepares[t]]

ClearDraft == draft' = None /\ token' = None /\ draftState' = "idle"

Ask ==
    /\ ~Running
    /\ chat' = [session |-> sessionId, stage |-> "sent", result |-> None]
    /\ error' = FALSE
    /\ prepares' = [t \in Tokens |-> IF InFlight(t) /\ prepares[t].stage = "sent"
                                     THEN [prepares[t] EXCEPT !.behind = TRUE]
                                     ELSE prepares[t]]
    /\ UNCHANGED <<sessionId, result, draft, token, draftState, confirms, server>>

\* The agent runs: it saves a version or answers from the one it has, and
\* the answer may get lost or be an error although the session was saved.
AgentRuns ==
    /\ Running /\ chat.stage = "sent"
    /\ LET s == chat.session IN
       /\ \/ /\ sessions[s].version < MaxVersion
             /\ \E escalate \in BOOLEAN :
                   sessions' = [sessions EXCEPT
                       ![s] = [version |-> @.version + 1, escalate |-> escalate]]
          \/ UNCHANGED sessions
       /\ \/ chat' = [chat EXCEPT !.stage = "failed"]
          \/ /\ sessions'[s].version # 0
             /\ chat' = [chat EXCEPT !.stage = "answered",
                            !.result = [session |-> s,
                                        version |-> sessions'[s].version,
                                        escalate |-> sessions'[s].escalate]]
    /\ UNCHANGED <<page, prepares, confirms, terms, offered, ledger>>

AnswerArrives ==
    /\ Running /\ chat.stage = "answered"
    /\ result' = chat.result
    /\ ClearDraft
    /\ chat' = None
    /\ Touch
    /\ UNCHANGED <<sessionId, error, confirms, server>>

ShowError == error' = TRUE

FailureArrives ==
    /\ Running /\ chat.stage = "failed"
    /\ ShowError
    /\ chat' = None
    /\ UNCHANGED <<sessionId, result, draft, token, draftState, prepares,
                   confirms, server>>

\* What is in flight stays so, and a running question keeps the page running.
ResetSession ==
    /\ sessionId < MaxSessions
    /\ sessionId' = sessionId + 1
    /\ result' = None
    /\ error' = FALSE
    /\ ClearDraft
    /\ Touch
    /\ UNCHANGED <<chat, confirms, server>>

-----------------------------------------------------------------------------
(* The escalation draft.                                                   *)

CanEscalate == result # None /\ result.escalate

\* onChange: the token of the text before is dropped, if there is one yet.
EditText(text) ==
    /\ draft' = text
    /\ IF token # None THEN token' = None /\ draftState' = "idle"
                       ELSE UNCHANGED <<token, draftState>>

Edit ==
    /\ CanEscalate
    /\ \E text \in Texts \ {draft} : EditText(text)
    /\ Touch
    /\ UNCHANGED <<sessionId, result, error, chat, confirms, server>>

PrepareDraft(t) ==
    /\ CanEscalate
    /\ draft # None
    /\ draftState # "preparing"
    /\ prepares[t] = None
    /\ draftState' = "preparing"
    /\ prepares' = [prepares EXCEPT
           ![t] = [session |-> sessionId, content |-> draft, shown |-> result,
                   stage |-> "sent", touched |-> FALSE,
                   behind |-> Running \/ error]]
    /\ UNCHANGED <<sessionId, result, error, draft, token, chat, confirms, server>>

\* The diagnosis is the one the session has now; the page names only itself.
PrepareServed(t) ==
    /\ prepares[t] # None /\ prepares[t].stage = "sent"
    /\ LET s == prepares[t].session
           outcome(stage) == prepares' = [prepares EXCEPT ![t].stage = stage]
       IN  \/ /\ sessions[s].version # 0 /\ sessions[s].escalate
              /\ Ledger!Offer(t)
              /\ terms'[t] = [key |-> <<s, sessions[s].version>>,
                              content |-> prepares[t].content]
              /\ outcome("answered") \/ outcome("failed")
           \/ outcome("failed") /\ UNCHANGED <<terms, offered, ledger>>
    /\ UNCHANGED <<page, chat, confirms, sessions>>

DraftFails == draftState' = "error"

PrepareArrives(t) ==
    /\ prepares[t] # None /\ prepares[t].stage \in {"answered", "failed"}
    /\ IF prepares[t].stage = "answered"
       THEN token' = t /\ draftState' = "ready"
       ELSE UNCHANGED token /\ DraftFails
    /\ prepares' = [prepares EXCEPT ![t].stage = "over"]
    /\ UNCHANGED <<sessionId, result, error, draft, chat, confirms, server>>

ConfirmDraft(c) ==
    /\ CanEscalate
    /\ token # None
    /\ confirms[c] = None
    /\ draftState' = "preparing"
    /\ confirms' = [confirms EXCEPT
           ![c] = [session |-> sessionId, token |-> token, stage |-> "sent"]]
    /\ UNCHANGED <<sessionId, result, error, draft, token, chat, prepares, server>>

\* assertConfirmationMatches: session and version of the confirmation.
Confirmable(c) ==
    LET s == confirms[c].session IN
    terms[confirms[c].token].key = <<s, sessions[s].version>>

\* A token is redeemed, or its content is in the ledger already.
ConfirmServed(c) ==
    /\ confirms[c] # None /\ confirms[c].stage = "sent"
    /\ LET t == confirms[c].token
           outcome(stage) == confirms' = [confirms EXCEPT ![c].stage = stage]
       IN  \/ /\ Confirmable(c)
              /\ \/ Ledger!Redeem(t)
                 \/ /\ ledger[terms[t].key] = terms[t].content
                    /\ UNCHANGED <<terms, offered, ledger>>
              /\ outcome("answered") \/ outcome("failed")
           \/ outcome("failed") /\ UNCHANGED <<terms, offered, ledger>>
    /\ UNCHANGED <<page, chat, prepares, sessions>>

ConfirmArrives(c) ==
    /\ confirms[c] # None /\ confirms[c].stage \in {"answered", "failed"}
    /\ IF confirms[c].stage = "answered"
       THEN token' = None /\ draftState' = "confirmed"
       ELSE UNCHANGED token /\ DraftFails
    /\ confirms' = [confirms EXCEPT ![c].stage = "over"]
    /\ UNCHANGED <<sessionId, result, error, draft, chat, prepares, server>>

-----------------------------------------------------------------------------
Settle ==
    \/ AgentRuns \/ AnswerArrives \/ FailureArrives
    \/ \E t \in Tokens : PrepareServed(t) \/ PrepareArrives(t)
    \/ \E c \in Confirms : ConfirmServed(c) \/ ConfirmArrives(c)

Next ==
    \/ Ask \/ ResetSession \/ Edit
    \/ \E t \in Tokens : PrepareDraft(t)
    \/ \E c \in Confirms : ConfirmDraft(c)
    \/ Settle

Spec == Init /\ [][Next]_vars

\* Every request is answered or fails, whatever the user does meanwhile.
FairSpec ==
    /\ Spec
    /\ WF_vars(AgentRuns) /\ WF_vars(AnswerArrives) /\ WF_vars(FailureArrives)
    /\ \A t \in Tokens : WF_vars(PrepareServed(t)) /\ WF_vars(PrepareArrives(t))
    /\ \A c \in Confirms : WF_vars(ConfirmServed(c)) /\ WF_vars(ConfirmArrives(c))

-----------------------------------------------------------------------------
(* Properties.                                                             *)

\* The text a held token stands for is the text on the page, so that what
\* support confirms is what it reads; only a page that changed while the
\* prepare call was in flight escapes the rule that an edit drops the token.
TokenFitsText ==
    token # None =>
        prepares[token].content = draft \/ prepares[token].touched

\* A draft is prepared from the diagnosis that is on the page at the click,
\* although the page does not name it to the server: unless it shows that a
\* question is running or has failed, when the session may be ahead of it, or
\* one is asked before the call is served.
PreparedAsShown ==
    \A t \in Tokens :
        terms[t] # None =>
            \/ terms[t].key = <<prepares[t].shown.session, prepares[t].shown.version>>
            \/ prepares[t].behind

\* The page does not stay busy: questions and draft calls come to an end.
PageSettles == []<>(~Running /\ draftState # "preparing")
=============================================================================
