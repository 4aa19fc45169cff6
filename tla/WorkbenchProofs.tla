--------------------------- MODULE WorkbenchProofs --------------------------
(***************************************************************************)
(* Proofs about Workbench for any texts and calls: what the page holds     *)
(* while answers arrive late, and what a draft is prepared from.           *)
(***************************************************************************)
EXTENDS Workbench, TLAPS

Types ==
    /\ TypeOK
    /\ terms \in [Tokens -> [key : Keys, content : Texts] \cup {None}]

\* A token that is held or offered is that of a call.
Called == \A t \in Tokens : token = t \/ terms[t] # None => prepares[t] # None

\* The text of a token that is held, or that may still arrive.
Fits ==
    \A t \in Tokens :
        token = t \/ InFlight(t) => prepares[t].content = draft \/ prepares[t].touched

\* A question may be about a session that was reset, but then the one on the
\* page is new, and an answer is about what its session has.
Asked ==
    /\ \A s \in Sessions : s > sessionId => sessions[s].version = 0
    /\ Running =>
        /\ chat.session <= sessionId
        /\ chat.session # sessionId => sessions[sessionId].version = 0
    /\ Running /\ chat.stage = "answered" =>
        /\ chat.result \in Results
        /\ chat.result.session = chat.session
        /\ chat.result.version = sessions[chat.session].version

\* What is shown is what the server has of the session, if it has anything.
Current(shown, s) ==
    sessions[s].version # 0 =>
        shown.session = s /\ shown.version = sessions[s].version

PageCurrent == ~Running /\ ~error /\ result # None => Current(result, sessionId)

SentCurrent ==
    \A t \in Tokens :
        prepares[t] # None /\ prepares[t].stage = "sent" /\ ~prepares[t].behind =>
            ~Running /\ Current(prepares[t].shown, prepares[t].session)

Inv == Types /\ Called /\ Fits /\ Asked /\ PageCurrent /\ SentCurrent /\ PreparedAsShown

Calls == [Tokens -> Prepares \cup {None}]

-----------------------------------------------------------------------------
(* What the changes of a call leave as it is.                              *)

Same(new, old) ==
    /\ new.session = old.session /\ new.content = old.content /\ new.shown = old.shown

\* The page changes under a call.
LEMMA TouchedCall ==
    ASSUME NEW p \in Prepares, NEW q, q = [p EXCEPT !.touched = TRUE]
    PROVE  q \in Prepares /\ Same(q, p) /\ q.stage = p.stage /\ q.touched /\ q.behind = p.behind
BY DEF Prepares, Same

\* A question is asked before the server has seen a call.
LEMMA BehindCall ==
    ASSUME NEW p \in Prepares, NEW q, q = [p EXCEPT !.behind = TRUE]
    PROVE  q \in Prepares /\ Same(q, p) /\ q.stage = p.stage /\ q.touched = p.touched /\ q.behind
BY DEF Prepares, Same

\* A call is served, fails or arrives.
LEMMA StagedCall ==
    ASSUME NEW p \in Prepares, NEW stage \in {"sent", "answered", "failed", "over"},
           NEW q, q = [p EXCEPT !.stage = stage]
    PROVE  /\ q \in Prepares /\ Same(q, p) /\ q.stage = stage
           /\ q.touched = p.touched /\ q.behind = p.behind
BY DEF Prepares, Same

\* Every call in flight is touched, and nothing else changes.
LEMMA TouchCalls ==
    ASSUME prepares \in Calls, Touch
    PROVE  /\ prepares' \in Calls
           /\ \A t \in Tokens :
                /\ prepares'[t] = None <=> prepares[t] = None
                /\ InFlight(t) <=> InFlight(t)'
                /\ prepares[t] # None =>
                    /\ Same(prepares'[t], prepares[t])
                    /\ prepares'[t].stage = prepares[t].stage
                    /\ prepares'[t].behind = prepares[t].behind
                    /\ prepares[t].touched \/ InFlight(t) => prepares'[t].touched
<1> USE NoneAssumption DEF Calls, Touch, InFlight
<1> SUFFICES ASSUME NEW t \in Tokens
    PROVE  /\ prepares'[t] \in Prepares \cup {None}
           /\ prepares'[t] = None <=> prepares[t] = None
           /\ InFlight(t) <=> InFlight(t)'
           /\ prepares[t] # None =>
                /\ Same(prepares'[t], prepares[t])
                /\ prepares'[t].stage = prepares[t].stage
                /\ prepares'[t].behind = prepares[t].behind
                /\ prepares[t].touched \/ InFlight(t) => prepares'[t].touched
  OBVIOUS
<1>1. CASE InFlight(t)
  <2>1. prepares'[t] = [prepares[t] EXCEPT !.touched = TRUE] /\ prepares[t] \in Prepares
    BY <1>1
  <2> QED
    BY <1>1, <2>1, TouchedCall
<1>2. CASE ~InFlight(t)
  BY <1>2 DEF Same
<1> QED
  BY <1>1, <1>2

\* The calls the server has not seen are behind, and nothing else changes.
LEMMA AskCalls ==
    ASSUME prepares \in Calls, Ask
    PROVE  /\ prepares' \in Calls
           /\ \A t \in Tokens :
                /\ prepares'[t] = None <=> prepares[t] = None
                /\ InFlight(t) <=> InFlight(t)'
                /\ prepares[t] # None =>
                    /\ Same(prepares'[t], prepares[t])
                    /\ prepares'[t].stage = prepares[t].stage
                    /\ prepares'[t].touched = prepares[t].touched
                    /\ prepares[t].behind \/ prepares[t].stage = "sent" => prepares'[t].behind
<1> USE NoneAssumption DEF Calls, Ask, InFlight
<1> SUFFICES ASSUME NEW t \in Tokens
    PROVE  /\ prepares'[t] \in Prepares \cup {None}
           /\ prepares'[t] = None <=> prepares[t] = None
           /\ InFlight(t) <=> InFlight(t)'
           /\ prepares[t] # None =>
                /\ Same(prepares'[t], prepares[t])
                /\ prepares'[t].stage = prepares[t].stage
                /\ prepares'[t].touched = prepares[t].touched
                /\ prepares[t].behind \/ prepares[t].stage = "sent" => prepares'[t].behind
  OBVIOUS
<1>1. CASE InFlight(t) /\ prepares[t].stage = "sent"
  <2>1. prepares'[t] = [prepares[t] EXCEPT !.behind = TRUE] /\ prepares[t] \in Prepares
    BY <1>1
  <2> QED
    BY <1>1, <2>1, BehindCall
<1>2. CASE ~(InFlight(t) /\ prepares[t].stage = "sent")
  <2>1. prepares'[t] = prepares[t]
    BY <1>2
  <2> QED
    BY <1>2, <2>1 DEF Same
<1> QED
  BY <1>1, <1>2

\* One call moves on.
LEMMA StageCalls ==
    ASSUME prepares \in Calls, NEW t \in Tokens, prepares[t] # None,
           NEW stage \in {"answered", "failed", "over"},
           prepares' = [prepares EXCEPT ![t].stage = stage]
    PROVE  /\ prepares' \in Calls
           /\ \A u \in Tokens :
                /\ prepares'[u] = None <=> prepares[u] = None
                /\ InFlight(u)' => InFlight(u) \/ u = t
                /\ u # t => prepares'[u] = prepares[u]
           /\ Same(prepares'[t], prepares[t]) /\ prepares'[t].stage = stage
           /\ prepares'[t].touched = prepares[t].touched
           /\ prepares'[t].behind = prepares[t].behind
<1> USE NoneAssumption DEF Calls, InFlight
<1>1. prepares'[t] = [prepares[t] EXCEPT !.stage = stage] /\ prepares[t] \in Prepares
  OBVIOUS
<1>2. /\ prepares'[t] \in Prepares /\ Same(prepares'[t], prepares[t]) /\ prepares'[t].stage = stage
      /\ prepares'[t].touched = prepares[t].touched /\ prepares'[t].behind = prepares[t].behind
  BY <1>1, StagedCall
<1>3. \A u \in Tokens : u # t => prepares'[u] = prepares[u]
  OBVIOUS
<1> QED
  BY <1>2, <1>3

\* The agent saves a version of the session it was asked about, or none.
LEMMA SavedSession ==
    ASSUME chat.session \in Sessions, AgentRuns,
           sessions \in [Sessions -> [version : 0..MaxVersion, escalate : BOOLEAN]]
    PROVE  /\ sessions' \in [Sessions -> [version : 0..MaxVersion, escalate : BOOLEAN]]
           /\ \A s \in Sessions : s # chat.session => sessions'[s] = sessions[s]
<1> USE BoundAssumption
<1>1. CASE UNCHANGED sessions
  BY <1>1
<1>2. CASE ~UNCHANGED sessions
  <2>1. PICK escalate \in BOOLEAN :
            /\ sessions[chat.session].version < MaxVersion
            /\ sessions' = [sessions EXCEPT ![chat.session] =
                               [version |-> @.version + 1, escalate |-> escalate]]
    BY <1>2 DEF AgentRuns
  <2>2. [version |-> sessions[chat.session].version + 1, escalate |-> escalate]
            \in [version : 0..MaxVersion, escalate : BOOLEAN]
    <3>1. sessions[chat.session].version \in 0..MaxVersion
      OBVIOUS
    <3> QED
      BY <2>1, <3>1
  <2> QED
    BY <2>1, <2>2
<1> QED
  BY <1>1, <1>2

\* The agent answers or fails, for the session it was asked about.
LEMMA AnsweredChat ==
    ASSUME chat \in Chats, chat.session \in Sessions, AgentRuns,
           sessions' \in [Sessions -> [version : 0..MaxVersion, escalate : BOOLEAN]]
    PROVE  /\ chat' \in Chats /\ chat' # None /\ chat'.session = chat.session
           /\ chat'.stage = "answered" =>
                /\ sessions'[chat.session].version # 0 /\ chat'.result \in Results
                /\ chat'.result = [session |-> chat.session,
                                   version |-> sessions'[chat.session].version,
                                   escalate |-> sessions'[chat.session].escalate]
<1> USE NoneAssumption, BoundAssumption
<1>1. CASE chat' = [chat EXCEPT !.stage = "failed"]
  <2>1. chat' \in Chats /\ chat'.session = chat.session /\ chat'.stage = "failed"
    BY <1>1 DEF Chats
  <2> QED
    BY <2>1
<1>2. CASE ~(chat' = [chat EXCEPT !.stage = "failed"])
  <2> DEFINE r == [session |-> chat.session, version |-> sessions'[chat.session].version,
                   escalate |-> sessions'[chat.session].escalate]
  <2>1. sessions'[chat.session].version # 0
        /\ chat' = [chat EXCEPT !.stage = "answered", !.result = r]
    BY <1>2 DEF AgentRuns
  <2>2. r \in Results
    BY <2>1 DEF Results
  <2> HIDE DEF r
  <2>3. chat' \in Chats /\ chat'.session = chat.session /\ chat'.result = r
    BY <2>1, <2>2 DEF Chats
  <2> QED
    BY <2>1, <2>2, <2>3 DEF r
<1> QED
  BY <1>1, <1>2

-----------------------------------------------------------------------------
(* Each part of the invariant is kept by every action.                     *)

\* Every variable keeps its type.
LEMMA TypesStep == Types /\ [Next]_vars => Types'
<1> SUFFICES ASSUME Types, [Next]_vars PROVE Types'
  OBVIOUS
<1> USE NoneAssumption
<1>1. CASE Ask
  <2>1. prepares \in Calls
    BY DEF Types, TypeOK, Calls
  <2>2. prepares' \in Calls
    BY <1>1, <2>1, AskCalls
  <2>3. chat' \in Chats
    BY <1>1 DEF Ask, Chats, Types, TypeOK
  <2> QED
    BY <1>1, <2>1, <2>2, <2>3 DEF Types, TypeOK, Calls, Ask, page, server
<1>2. CASE ResetSession
  <2>1. prepares \in Calls
    BY DEF Types, TypeOK, Calls
  <2>2. prepares' \in Calls
    BY <1>2, <2>1, TouchCalls DEF ResetSession
  <2>3. sessionId' \in Sessions
    BY <1>2, BoundAssumption DEF ResetSession, Sessions, Types, TypeOK
  <2> QED
    BY <1>2, <2>1, <2>2, <2>3 DEF Types, TypeOK, Calls, ResetSession, ClearDraft, server
<1>3. CASE Edit
  <2>1. prepares \in Calls
    BY DEF Types, TypeOK, Calls
  <2>2. prepares' \in Calls
    BY <1>3, <2>1, TouchCalls DEF Edit
  <2> QED
    BY <1>3, <2>1, <2>2 DEF Types, TypeOK, Calls, Edit, EditText, server
<1>4. ASSUME NEW t \in Tokens, PrepareDraft(t) PROVE Types'
  <2>1. prepares \in Calls
    BY DEF Types, TypeOK, Calls
  <2>2. [session |-> sessionId, content |-> draft, shown |-> result, stage |-> "sent",
        touched |-> FALSE, behind |-> Running \/ error] \in Prepares
    BY <1>4 DEF PrepareDraft, CanEscalate, Prepares, Running, Types, TypeOK
  <2>3. prepares' \in Calls
    BY <1>4, <2>1, <2>2 DEF PrepareDraft, Calls
  <2> QED
    BY <1>4, <2>1, <2>2, <2>3 DEF Types, TypeOK, Calls, PrepareDraft, server
<1>5. ASSUME NEW c \in Confirms, ConfirmDraft(c) PROVE Types'
  <2>1. [session |-> sessionId, token |-> token, stage |-> "sent"] \in ConfirmCalls
    BY <1>5 DEF ConfirmDraft, ConfirmCalls, Types, TypeOK
  <2>2. confirms' \in [Confirms -> ConfirmCalls \cup {None}]
    BY <1>5, <2>1 DEF ConfirmDraft, Types, TypeOK
  <2> QED
    BY <1>5, <2>1, <2>2 DEF Types, TypeOK, Calls, ConfirmDraft, server
<1>6. CASE AgentRuns
  <2>1. chat \in Chats /\ chat.session \in Sessions
    BY <1>6 DEF AgentRuns, Running, Types, TypeOK, Chats
  <2>2. sessions' \in [Sessions -> [version : 0..MaxVersion, escalate : BOOLEAN]]
    BY <1>6, <2>1, SavedSession DEF Types, TypeOK
  <2>3. chat' \in Chats
    BY <1>6, <2>1, <2>2, AnsweredChat
  <2> QED
    BY <1>6, <2>1, <2>2, <2>3 DEF Types, TypeOK, Calls, AgentRuns, page
<1>7. CASE AnswerArrives
  <2>1. prepares \in Calls
    BY DEF Types, TypeOK, Calls
  <2>2. prepares' \in Calls
    BY <1>7, <2>1, TouchCalls DEF AnswerArrives
  <2>3. result' \in Results \cup {None}
    BY <1>7 DEF AnswerArrives, Running, Types, TypeOK, Chats
  <2> QED
    BY <1>7, <2>1, <2>2, <2>3 DEF Types, TypeOK, Calls, AnswerArrives, ClearDraft, server
<1>8. CASE FailureArrives
  BY <1>8 DEF FailureArrives, ShowError, Types, TypeOK, server
<1>9. ASSUME NEW t \in Tokens, PrepareServed(t) PROVE Types'
  <2>1. prepares \in Calls
    BY DEF Types, TypeOK, Calls
  <2>2. PICK stage \in {"answered", "failed"} :
           prepares[t] # None /\ prepares' = [prepares EXCEPT ![t].stage = stage]
    BY <1>9 DEF PrepareServed
  <2>3. prepares' \in Calls
    BY <2>1, <2>2, StageCalls
  <2>4. terms' \in [Tokens -> [key : Keys, content : Texts] \cup {None}]
    BY <1>9 DEF PrepareServed, Ledger!Offer, Types
  <2> QED
    BY <1>9, <2>1, <2>2, <2>3, <2>4 DEF Types, TypeOK, Calls, PrepareServed, page
<1>10. ASSUME NEW t \in Tokens, PrepareArrives(t) PROVE Types'
  <2>1. prepares \in Calls
    BY DEF Types, TypeOK, Calls
  <2>2. prepares[t] # None /\ prepares' = [prepares EXCEPT ![t].stage = "over"]
    BY <1>10 DEF PrepareArrives
  <2>3. prepares' \in Calls
    BY <2>1, <2>2, StageCalls
  <2> QED
    BY <1>10, <2>1, <2>2, <2>3 DEF Types, TypeOK, Calls, PrepareArrives, DraftFails, server
<1>11. ASSUME NEW c \in Confirms, ConfirmServed(c) PROVE Types'
  <2>1. PICK stage \in {"answered", "failed"} :
           confirms[c] # None /\ confirms' = [confirms EXCEPT ![c].stage = stage]
    BY <1>11 DEF ConfirmServed
  <2>2. [confirms[c] EXCEPT !.stage = stage] \in ConfirmCalls
    BY <2>1 DEF ConfirmCalls, Types, TypeOK
  <2>3. confirms' \in [Confirms -> ConfirmCalls \cup {None}]
    BY <2>1, <2>2 DEF Types, TypeOK
  <2> QED
    BY <1>11, <2>1, <2>2, <2>3 DEF Types, TypeOK, Calls, ConfirmServed, Ledger!Redeem, page
<1>12. ASSUME NEW c \in Confirms, ConfirmArrives(c) PROVE Types'
  <2>1. [confirms[c] EXCEPT !.stage = "over"] \in ConfirmCalls
    BY <1>12 DEF ConfirmArrives, ConfirmCalls, Types, TypeOK
  <2>2. confirms' \in [Confirms -> ConfirmCalls \cup {None}]
    BY <1>12, <2>1 DEF ConfirmArrives, Types, TypeOK
  <2> QED
    BY <1>12, <2>1, <2>2 DEF Types, TypeOK, Calls, ConfirmArrives, DraftFails, server
<1>13. CASE UNCHANGED vars
  BY <1>13 DEF vars, page, server, Types, TypeOK
<1> QED
  BY <1>1, <1>2, <1>3, <1>4, <1>5, <1>6, <1>7, <1>8, <1>9, <1>10, <1>11, <1>12, <1>13
     DEF Next, Settle

\* A token is that of a call.
LEMMA CalledStep == Types /\ Called /\ [Next]_vars => Called'
<1> SUFFICES ASSUME Types, Called, [Next]_vars PROVE Called'
  OBVIOUS
<1> USE NoneAssumption
<1>0. prepares \in Calls /\ terms \in [Tokens -> [key : Keys, content : Texts] \cup {None}]
  BY DEF Types, TypeOK, Calls
<1>1. CASE Ask
  BY <1>1, AskCalls, <1>0 DEF Ask, Called, page, server
<1>2. CASE ResetSession
  BY <1>2, TouchCalls, <1>0 DEF ResetSession, ClearDraft, Called, page, server
<1>3. CASE Edit
  BY <1>3, TouchCalls, <1>0 DEF Edit, EditText, Called, page, server
<1>4. ASSUME NEW t \in Tokens, PrepareDraft(t) PROVE Called'
  BY <1>4, <1>0 DEF PrepareDraft, Called, Calls, server
<1>5. ASSUME NEW c \in Confirms, ConfirmDraft(c) PROVE Called'
  BY <1>5 DEF ConfirmDraft, Called, page, server
<1>6. CASE AgentRuns
  BY <1>6 DEF AgentRuns, Called, page, server
<1>7. CASE AnswerArrives
  BY <1>7, TouchCalls, <1>0 DEF AnswerArrives, ClearDraft, Called, page, server
<1>8. CASE FailureArrives
  BY <1>8 DEF FailureArrives, ShowError, Called, page, server
<1>9. ASSUME NEW t \in Tokens, PrepareServed(t) PROVE Called'
  <2>1. PICK stage \in {"answered", "failed"} :
           prepares[t] # None /\ prepares' = [prepares EXCEPT ![t].stage = stage]
    BY <1>9 DEF PrepareServed
  <2>2. \A u \in Tokens : prepares'[u] = None <=> prepares[u] = None
    BY <2>1, StageCalls, <1>0
  <2>3. \A u \in Tokens : u # t => terms'[u] = terms[u]
    BY <1>9, <1>0 DEF PrepareServed, Ledger!Offer
  <2> QED
    BY <1>9, <2>1, <2>2, <2>3 DEF Called, PrepareServed, page
<1>10. ASSUME NEW t \in Tokens, PrepareArrives(t) PROVE Called'
  <2>1. prepares[t] # None /\ prepares' = [prepares EXCEPT ![t].stage = "over"]
    BY <1>10 DEF PrepareArrives
  <2>2. \A u \in Tokens : prepares'[u] = None <=> prepares[u] = None
    BY <2>1, StageCalls, <1>0
  <2> QED
    BY <1>10, <2>1, <2>2 DEF Called, PrepareArrives, DraftFails, server
<1>11. ASSUME NEW c \in Confirms, ConfirmServed(c) PROVE Called'
  BY <1>11 DEF ConfirmServed, Ledger!Redeem, Called, page
<1>12. ASSUME NEW c \in Confirms, ConfirmArrives(c) PROVE Called'
  BY <1>12 DEF ConfirmArrives, DraftFails, Called, page, server
<1>13. CASE UNCHANGED vars
  BY <1>13 DEF vars, page, server, Called
<1> QED
  BY <1>1, <1>2, <1>3, <1>4, <1>5, <1>6, <1>7, <1>8, <1>9, <1>10, <1>11, <1>12, <1>13
     DEF Next, Settle

\* The text of a token is the one on the page, or the page has changed since.
LEMMA FitsStep == Types /\ Called /\ Fits /\ [Next]_vars => Fits'
<1> SUFFICES ASSUME Types, Called, Fits, [Next]_vars PROVE Fits'
  OBVIOUS
<1> USE NoneAssumption
<1>0. prepares \in Calls /\ terms \in [Tokens -> [key : Keys, content : Texts] \cup {None}]
  BY DEF Types, TypeOK, Calls
<1>1. CASE Ask
  <2>1. UNCHANGED <<token, draft>>
    BY <1>1 DEF Ask
  <2>2. \A t \in Tokens : (InFlight(t)' => InFlight(t)) /\ (prepares[t] # None =>
           Same(prepares'[t], prepares[t]) /\ prepares'[t].touched = prepares[t].touched)
    BY <1>1, AskCalls, <1>0
  <2>3. \A t \in Tokens : InFlight(t) => prepares[t] # None
    BY DEF InFlight
  <2> QED
    BY <1>1, <2>1, <2>2, <2>3 DEF Fits, Same, Called
<1>2. CASE ResetSession
  <2>1. token' = None
    BY <1>2 DEF ResetSession, ClearDraft
  <2>2. \A t \in Tokens : InFlight(t)' => InFlight(t) /\ prepares'[t].touched
    BY <1>2, TouchCalls, <1>0 DEF ResetSession, InFlight
  <2>3. None \notin Tokens
    BY NoneAssumption
  <2> QED
    BY <1>2, <2>1, <2>2, <2>3 DEF Fits
<1>3. CASE Edit
  <2>1. token' = None
    BY <1>3 DEF Edit, EditText
  <2>2. \A t \in Tokens : InFlight(t)' => InFlight(t) /\ prepares'[t].touched
    BY <1>3, TouchCalls, <1>0 DEF Edit, InFlight
  <2>3. None \notin Tokens
    BY NoneAssumption
  <2> QED
    BY <1>3, <2>1, <2>2, <2>3 DEF Fits
<1>4. ASSUME NEW t \in Tokens, PrepareDraft(t) PROVE Fits'
  BY <1>4, <1>0 DEF PrepareDraft, Called, Fits, InFlight, Calls, server
<1>5. ASSUME NEW c \in Confirms, ConfirmDraft(c) PROVE Fits'
  BY <1>5 DEF ConfirmDraft, Fits, InFlight, page, server
<1>6. CASE AgentRuns
  BY <1>6 DEF AgentRuns, Fits, InFlight, page, server
<1>7. CASE AnswerArrives
  <2>1. token' = None
    BY <1>7 DEF AnswerArrives, ClearDraft
  <2>2. \A t \in Tokens : InFlight(t)' => InFlight(t) /\ prepares'[t].touched
    BY <1>7, TouchCalls, <1>0 DEF AnswerArrives, InFlight
  <2>3. None \notin Tokens
    BY NoneAssumption
  <2> QED
    BY <1>7, <2>1, <2>2, <2>3 DEF Fits
<1>8. CASE FailureArrives
  BY <1>8 DEF FailureArrives, ShowError, Fits, InFlight, page, server
<1>9. ASSUME NEW t \in Tokens, PrepareServed(t) PROVE Fits'
  <2>1. PICK stage \in {"answered", "failed"} :
           prepares[t] # None /\ prepares' = [prepares EXCEPT ![t].stage = stage]
    BY <1>9 DEF PrepareServed
  <2>2. /\ Same(prepares'[t], prepares[t]) /\ prepares'[t].touched = prepares[t].touched
        /\ \A u \in Tokens : (InFlight(u)' => InFlight(u) \/ u = t) /\ (u # t => prepares'[u] = prepares[u])
    BY <2>1, StageCalls, <1>0
  <2>3. InFlight(t)
    BY <1>9 DEF PrepareServed, InFlight
  <2> QED
    BY <1>9, <2>1, <2>2, <2>3 DEF Fits, Same, PrepareServed, page
<1>10. ASSUME NEW t \in Tokens, PrepareArrives(t) PROVE Fits'
  <2>1. prepares[t] # None /\ prepares' = [prepares EXCEPT ![t].stage = "over"]
    BY <1>10 DEF PrepareArrives
  <2>2. /\ Same(prepares'[t], prepares[t]) /\ prepares'[t].touched = prepares[t].touched
        /\ \A u \in Tokens : (InFlight(u)' => InFlight(u) \/ u = t) /\ (u # t => prepares'[u] = prepares[u])
    BY <2>1, StageCalls, <1>0
  <2>3. InFlight(t)
    BY <1>10 DEF PrepareArrives, InFlight
  <2> QED
    BY <1>10, <2>1, <2>2, <2>3 DEF Fits, Same, PrepareArrives, DraftFails, server
<1>11. ASSUME NEW c \in Confirms, ConfirmServed(c) PROVE Fits'
  BY <1>11 DEF ConfirmServed, Fits, InFlight, page, server
<1>12. ASSUME NEW c \in Confirms, ConfirmArrives(c) PROVE Fits'
  BY <1>12 DEF ConfirmArrives, DraftFails, Fits, InFlight, page, server
<1>13. CASE UNCHANGED vars
  BY <1>13 DEF vars, page, server, Fits, InFlight
<1> QED
  BY <1>1, <1>2, <1>3, <1>4, <1>5, <1>6, <1>7, <1>8, <1>9, <1>10, <1>11, <1>12, <1>13
     DEF Next, Settle

\* A question is about a session that has been on the page.
LEMMA AskedStep == Types /\ Asked /\ [Next]_vars => Asked'
<1> SUFFICES ASSUME Types, Asked, [Next]_vars PROVE Asked'
  OBVIOUS
<1> USE NoneAssumption
<1>0. /\ sessionId \in Sessions /\ Sessions \subseteq Nat /\ chat \in Chats \cup {None}
      /\ sessions \in [Sessions -> [version : 0..MaxVersion, escalate : BOOLEAN]]
  BY DEF Types, TypeOK, Sessions
<1>1. CASE Ask
  <2>1. chat' = [session |-> sessionId, stage |-> "sent", result |-> None]
    BY <1>1 DEF Ask
  <2>2. chat'.session = sessionId /\ chat'.stage = "sent"
    BY <2>1
  <2>3. UNCHANGED <<sessionId, sessions>>
    BY <1>1 DEF Ask, server
  <2>4. sessionId \in Nat
    BY <1>0
  <2> QED
    BY <1>1, <2>1, <2>2, <2>3, <2>4 DEF Asked, Ask, Running, page, server
<1>2. CASE ResetSession
  <2>1. sessionId' \in Sessions /\ sessionId' = sessionId + 1
    BY <1>2, <1>0, BoundAssumption DEF ResetSession, Sessions
  <2>2. sessions[sessionId'].version = 0
    BY <1>0, <2>1 DEF Asked
  <2>3. UNCHANGED <<chat, sessions>>
    BY <1>2 DEF ResetSession, server
  <2>4. Running => chat.session \in Sessions
    BY <1>0 DEF Running, Chats
  <2>5. \A s \in Sessions : s > sessionId' => sessions'[s].version = 0
    BY <1>0, <2>1, <2>3 DEF Asked
  <2>6. Running => chat.session <= sessionId'
    BY <1>0, <2>1, <2>4 DEF Asked
  <2> QED
    BY <2>2, <2>3, <2>5, <2>6 DEF Asked, Running
<1>3. CASE Edit
  BY <1>3, <1>0 DEF Edit, Asked, Running, page, server
<1>4. ASSUME NEW t \in Tokens, PrepareDraft(t) PROVE Asked'
  BY <1>4, <1>0 DEF PrepareDraft, Asked, Running, page, server
<1>5. ASSUME NEW c \in Confirms, ConfirmDraft(c) PROVE Asked'
  BY <1>5, <1>0 DEF ConfirmDraft, Asked, Running, page, server
<1>6. CASE AgentRuns
  <2>1. Running /\ chat \in Chats /\ chat.session \in Sessions /\ UNCHANGED sessionId
    BY <1>6, <1>0 DEF AgentRuns, Running, Chats, page
  <2>2. sessions' \in [Sessions -> [version : 0..MaxVersion, escalate : BOOLEAN]]
    BY <1>6, <1>0, <2>1, SavedSession
  <2>3. \A s \in Sessions : s # chat.session => sessions'[s] = sessions[s]
    BY <1>6, <1>0, <2>1, SavedSession
  <2>4. chat' # None /\ chat'.session = chat.session
    BY <1>6, <2>1, <2>2, AnsweredChat
  <2>5. chat'.stage = "answered" =>
            /\ chat'.result \in Results /\ chat'.result.session = chat.session
            /\ chat'.result.version = sessions'[chat.session].version
    BY <1>6, <2>1, <2>2, AnsweredChat
  <2>6. Sessions \subseteq Nat /\ sessionId \in Sessions
    BY <1>0
  <2>7. \A s \in Sessions : s > sessionId => s # chat.session
    BY <2>1, <2>6 DEF Asked
  <2>8. \A s \in Sessions : s > sessionId' => sessions'[s].version = 0
    BY <2>1, <2>3, <2>7 DEF Asked
  <2>9. /\ chat'.session <= sessionId'
        /\ chat'.session # sessionId' => sessions'[sessionId'].version = 0
    <3>1. chat.session <= sessionId
          /\ (chat.session # sessionId => sessions[sessionId].version = 0)
      BY <2>1 DEF Asked
    <3> QED
      BY <2>1, <2>3, <2>4, <2>6, <3>1
  <2>10. chat'.stage = "answered" =>
            chat'.result.session = chat'.session
            /\ chat'.result.version = sessions'[chat'.session].version
    BY <2>4, <2>5
  <2> QED
    BY <2>5, <2>8, <2>9, <2>10 DEF Asked
<1>7. CASE AnswerArrives
  BY <1>7, <1>0 DEF AnswerArrives, Asked, Running, page, server
<1>8. CASE FailureArrives
  BY <1>8, <1>0 DEF FailureArrives, Asked, Running, page, server
<1>9. ASSUME NEW t \in Tokens, PrepareServed(t) PROVE Asked'
  BY <1>9, <1>0 DEF PrepareServed, Asked, Running, page, server
<1>10. ASSUME NEW t \in Tokens, PrepareArrives(t) PROVE Asked'
  BY <1>10, <1>0 DEF PrepareArrives, Asked, Running, page, server
<1>11. ASSUME NEW c \in Confirms, ConfirmServed(c) PROVE Asked'
  BY <1>11, <1>0 DEF ConfirmServed, Asked, Running, page, server
<1>12. ASSUME NEW c \in Confirms, ConfirmArrives(c) PROVE Asked'
  BY <1>12, <1>0 DEF ConfirmArrives, Asked, Running, page, server
<1>13. CASE UNCHANGED vars
  BY <1>13 DEF vars, page, server, Asked, Running
<1> QED
  BY <1>1, <1>2, <1>3, <1>4, <1>5, <1>6, <1>7, <1>8, <1>9, <1>10, <1>11, <1>12, <1>13
     DEF Next, Settle

\* A page at rest shows what its session has.
LEMMA PageStep == Types /\ Asked /\ PageCurrent /\ [Next]_vars => PageCurrent'
<1> SUFFICES ASSUME Types, Asked, PageCurrent, [Next]_vars PROVE PageCurrent'
  OBVIOUS
<1> USE NoneAssumption
<1>0. /\ sessionId \in Sessions /\ Sessions \subseteq Nat /\ chat \in Chats \cup {None}
      /\ sessions \in [Sessions -> [version : 0..MaxVersion, escalate : BOOLEAN]]
  BY DEF Types, TypeOK, Sessions
<1>1. CASE Ask
  <2>1. chat' \in Chats
    BY <1>1, <1>0 DEF Ask, Chats
  <2>2. Running'
    BY <2>1 DEF Running
  <2> QED
    BY <1>1, <2>1, <2>2 DEF PageCurrent
<1>2. CASE ResetSession
  BY <1>2 DEF ResetSession, PageCurrent
<1>3. CASE Edit
  BY <1>3, <1>0 DEF Edit, PageCurrent, Current, Running, page, server
<1>4. ASSUME NEW t \in Tokens, PrepareDraft(t) PROVE PageCurrent'
  BY <1>4, <1>0 DEF PrepareDraft, PageCurrent, Current, Running, page, server
<1>5. ASSUME NEW c \in Confirms, ConfirmDraft(c) PROVE PageCurrent'
  BY <1>5, <1>0 DEF ConfirmDraft, PageCurrent, Current, Running, page, server
<1>6. CASE AgentRuns
  <2>1. chat \in Chats /\ chat.session \in Sessions
    BY <1>6, <1>0 DEF AgentRuns, Running, Chats
  <2>2. sessions' \in [Sessions -> [version : 0..MaxVersion, escalate : BOOLEAN]]
    BY <1>6, <1>0, <2>1, SavedSession
  <2>3. Running'
    BY <1>6, <2>1, <2>2, AnsweredChat DEF Running
  <2> QED
    BY <1>6, <2>1, <2>2, <2>3 DEF PageCurrent
<1>7. CASE AnswerArrives
  <2>1. Running /\ chat.stage = "answered" /\ result' = chat.result
        /\ UNCHANGED <<sessionId, sessions>>
    BY <1>7 DEF AnswerArrives, server
  <2>2. /\ chat.result.session = chat.session /\ chat.result.version = sessions[chat.session].version
        /\ chat.session # sessionId => sessions[sessionId].version = 0
    BY <2>1 DEF Asked
  <2>3. sessions[sessionId].version # 0 =>
           result'.session = sessionId /\ result'.version = sessions[sessionId].version
    BY <2>1, <2>2
  <2> QED
    BY <2>1, <2>3 DEF PageCurrent, Current
<1>8. CASE FailureArrives
  BY <1>8 DEF FailureArrives, ShowError, PageCurrent
<1>9. ASSUME NEW t \in Tokens, PrepareServed(t) PROVE PageCurrent'
  BY <1>9, <1>0 DEF PrepareServed, PageCurrent, Current, Running, page, server
<1>10. ASSUME NEW t \in Tokens, PrepareArrives(t) PROVE PageCurrent'
  BY <1>10, <1>0 DEF PrepareArrives, PageCurrent, Current, Running, page, server
<1>11. ASSUME NEW c \in Confirms, ConfirmServed(c) PROVE PageCurrent'
  BY <1>11, <1>0 DEF ConfirmServed, PageCurrent, Current, Running, page, server
<1>12. ASSUME NEW c \in Confirms, ConfirmArrives(c) PROVE PageCurrent'
  BY <1>12, <1>0 DEF ConfirmArrives, PageCurrent, Current, Running, page, server
<1>13. CASE UNCHANGED vars
  BY <1>13 DEF vars, page, server, PageCurrent, Current, Running
<1> QED
  BY <1>1, <1>2, <1>3, <1>4, <1>5, <1>6, <1>7, <1>8, <1>9, <1>10, <1>11, <1>12, <1>13
     DEF Next, Settle

\* A call that the server has not seen is about what its session has.
LEMMA SentStep == Types /\ PageCurrent /\ SentCurrent /\ [Next]_vars => SentCurrent'
<1> SUFFICES ASSUME Types, PageCurrent, SentCurrent, [Next]_vars PROVE SentCurrent'
  OBVIOUS
<1> USE NoneAssumption
<1>0. prepares \in Calls /\ terms \in [Tokens -> [key : Keys, content : Texts] \cup {None}]
  BY DEF Types, TypeOK, Calls
<1>1. CASE Ask
  <2>1. \A t \in Tokens : (prepares'[t] = None <=> prepares[t] = None) /\ (prepares[t] # None =>
           prepares'[t].stage = prepares[t].stage
           /\ (prepares[t].stage = "sent" => prepares'[t].behind))
    BY <1>1, AskCalls, <1>0
  <2> QED
    BY <1>1, <2>1 DEF SentCurrent
<1>2. CASE ResetSession
  <2>1. UNCHANGED <<chat, sessions>>
    BY <1>2 DEF ResetSession, server
  <2>2. \A t \in Tokens : (prepares'[t] = None <=> prepares[t] = None) /\ (prepares[t] # None =>
           Same(prepares'[t], prepares[t]) /\ prepares'[t].stage = prepares[t].stage
           /\ prepares'[t].behind = prepares[t].behind)
    BY <1>2, TouchCalls, <1>0 DEF ResetSession
  <2> QED
    BY <1>2, <2>1, <2>2 DEF SentCurrent, Current, Same, Running
<1>3. CASE Edit
  <2>1. UNCHANGED <<chat, sessions>>
    BY <1>3 DEF Edit, server
  <2>2. \A t \in Tokens : (prepares'[t] = None <=> prepares[t] = None) /\ (prepares[t] # None =>
           Same(prepares'[t], prepares[t]) /\ prepares'[t].stage = prepares[t].stage
           /\ prepares'[t].behind = prepares[t].behind)
    BY <1>3, TouchCalls, <1>0 DEF Edit
  <2> QED
    BY <1>3, <2>1, <2>2 DEF SentCurrent, Current, Same, Running
<1>4. ASSUME NEW t \in Tokens, PrepareDraft(t) PROVE SentCurrent'
  BY <1>4, <1>0 DEF PrepareDraft, CanEscalate, PageCurrent, SentCurrent, Current, Running, Calls, server
<1>5. ASSUME NEW c \in Confirms, ConfirmDraft(c) PROVE SentCurrent'
  BY <1>5 DEF ConfirmDraft, SentCurrent, Current, Running, page, server
<1>6. CASE AgentRuns
  BY <1>6 DEF AgentRuns, SentCurrent, page
<1>7. CASE AnswerArrives
  <2>1. Running
    BY <1>7 DEF AnswerArrives
  <2>2. \A t \in Tokens : (prepares'[t] = None <=> prepares[t] = None) /\ (prepares[t] # None =>
           Same(prepares'[t], prepares[t]) /\ prepares'[t].stage = prepares[t].stage
           /\ prepares'[t].behind = prepares[t].behind)
    BY <1>7, TouchCalls, <1>0 DEF AnswerArrives
  <2> QED
    BY <1>7, <2>1, <2>2 DEF SentCurrent, Same
<1>8. CASE FailureArrives
  BY <1>8 DEF FailureArrives, SentCurrent, Current, Running, page, server
<1>9. ASSUME NEW t \in Tokens, PrepareServed(t) PROVE SentCurrent'
  <2>1. PICK stage \in {"answered", "failed"} :
           prepares[t] # None /\ prepares' = [prepares EXCEPT ![t].stage = stage]
    BY <1>9 DEF PrepareServed
  <2>2. /\ Same(prepares'[t], prepares[t]) /\ prepares'[t].stage # "sent"
        /\ \A u \in Tokens : u # t => prepares'[u] = prepares[u]
    BY <2>1, StageCalls, <1>0
  <2>3. UNCHANGED <<chat, sessions>>
    BY <1>9 DEF PrepareServed, page
  <2> QED
    BY <1>9, <2>1, <2>2, <2>3 DEF SentCurrent, Current, Running
<1>10. ASSUME NEW t \in Tokens, PrepareArrives(t) PROVE SentCurrent'
  <2>1. prepares[t] # None /\ prepares' = [prepares EXCEPT ![t].stage = "over"]
    BY <1>10 DEF PrepareArrives
  <2>2. /\ Same(prepares'[t], prepares[t]) /\ prepares'[t].stage # "sent"
        /\ \A u \in Tokens : u # t => prepares'[u] = prepares[u]
    BY <2>1, StageCalls, <1>0
  <2>3. UNCHANGED <<chat, sessions>>
    BY <1>10 DEF PrepareArrives, server
  <2> QED
    BY <1>10, <2>1, <2>2, <2>3 DEF SentCurrent, Current, Running
<1>11. ASSUME NEW c \in Confirms, ConfirmServed(c) PROVE SentCurrent'
  BY <1>11 DEF ConfirmServed, SentCurrent, Current, Running, page, server
<1>12. ASSUME NEW c \in Confirms, ConfirmArrives(c) PROVE SentCurrent'
  BY <1>12 DEF ConfirmArrives, SentCurrent, Current, Running, page, server
<1>13. CASE UNCHANGED vars
  BY <1>13 DEF vars, page, server, SentCurrent, Current, Running
<1> QED
  BY <1>1, <1>2, <1>3, <1>4, <1>5, <1>6, <1>7, <1>8, <1>9, <1>10, <1>11, <1>12, <1>13
     DEF Next, Settle

\* A draft is prepared from what the page showed.
LEMMA ShownStep == Types /\ Called /\ SentCurrent /\ PreparedAsShown /\ [Next]_vars => PreparedAsShown'
<1> SUFFICES ASSUME Types, Called, SentCurrent, PreparedAsShown, [Next]_vars PROVE PreparedAsShown'
  OBVIOUS
<1> USE NoneAssumption
<1>0. prepares \in Calls /\ terms \in [Tokens -> [key : Keys, content : Texts] \cup {None}]
  BY DEF Types, TypeOK, Calls
<1>1. CASE Ask
  <2>1. UNCHANGED terms
    BY <1>1 DEF Ask, server
  <2>2. \A t \in Tokens : prepares[t] # None =>
           prepares'[t].shown = prepares[t].shown /\ (prepares[t].behind => prepares'[t].behind)
    BY <1>1, AskCalls, <1>0 DEF Ask, Same
  <2> QED
    BY <1>1, <2>1, <2>2 DEF Called, PreparedAsShown
<1>2. CASE ResetSession
  <2>1. UNCHANGED terms
    BY <1>2 DEF ResetSession, server
  <2>2. \A t \in Tokens : prepares[t] # None =>
           prepares'[t].shown = prepares[t].shown /\ (prepares[t].behind => prepares'[t].behind)
    BY <1>2, TouchCalls, <1>0 DEF ResetSession, Same
  <2> QED
    BY <1>2, <2>1, <2>2 DEF Called, PreparedAsShown
<1>3. CASE Edit
  <2>1. UNCHANGED terms
    BY <1>3 DEF Edit, server
  <2>2. \A t \in Tokens : prepares[t] # None =>
           prepares'[t].shown = prepares[t].shown /\ (prepares[t].behind => prepares'[t].behind)
    BY <1>3, TouchCalls, <1>0 DEF Edit, Same
  <2> QED
    BY <1>3, <2>1, <2>2 DEF Called, PreparedAsShown
<1>4. ASSUME NEW t \in Tokens, PrepareDraft(t) PROVE PreparedAsShown'
  BY <1>4, <1>0 DEF PrepareDraft, Called, PreparedAsShown, Calls, server
<1>5. ASSUME NEW c \in Confirms, ConfirmDraft(c) PROVE PreparedAsShown'
  BY <1>5 DEF ConfirmDraft, PreparedAsShown, page, server
<1>6. CASE AgentRuns
  BY <1>6 DEF AgentRuns, PreparedAsShown, page, server
<1>7. CASE AnswerArrives
  <2>1. UNCHANGED terms
    BY <1>7 DEF AnswerArrives, server
  <2>2. \A t \in Tokens : prepares[t] # None =>
           prepares'[t].shown = prepares[t].shown /\ (prepares[t].behind => prepares'[t].behind)
    BY <1>7, TouchCalls, <1>0 DEF AnswerArrives, Same
  <2> QED
    BY <1>7, <2>1, <2>2 DEF Called, PreparedAsShown
<1>8. CASE FailureArrives
  BY <1>8 DEF FailureArrives, PreparedAsShown, page, server
<1>9. ASSUME NEW t \in Tokens, PrepareServed(t) PROVE PreparedAsShown'
  <2>1. PICK stage \in {"answered", "failed"} :
           prepares[t] # None /\ prepares' = [prepares EXCEPT ![t].stage = stage]
    BY <1>9 DEF PrepareServed
  <2>2. /\ prepares'[t].shown = prepares[t].shown /\ prepares'[t].behind = prepares[t].behind
        /\ \A u \in Tokens : u # t => prepares'[u] = prepares[u]
    BY <2>1, StageCalls, <1>0 DEF Same
  <2>3. CASE UNCHANGED terms
    BY <2>1, <2>2, <2>3 DEF PreparedAsShown
  <2>4. CASE ~UNCHANGED terms
    <3>1. /\ sessions[prepares[t].session].version # 0 /\ prepares[t] # None /\ prepares[t].stage = "sent"
          /\ terms'[t] = [key |-> <<prepares[t].session, sessions[prepares[t].session].version>>,
                          content |-> prepares[t].content]
      BY <1>9, <2>4 DEF PrepareServed
    <3>2. \A u \in Tokens : u # t => terms'[u] = terms[u]
      BY <1>9, <1>0, <2>4 DEF PrepareServed, Ledger!Offer
    <3>3. \/ terms'[t].key = <<prepares[t].shown.session, prepares[t].shown.version>>
          \/ prepares[t].behind
      BY <3>1 DEF SentCurrent, Current
    <3> QED
      BY <2>2, <3>2, <3>3 DEF PreparedAsShown
  <2> QED
    BY <2>3, <2>4
<1>10. ASSUME NEW t \in Tokens, PrepareArrives(t) PROVE PreparedAsShown'
  <2>1. prepares[t] # None /\ prepares' = [prepares EXCEPT ![t].stage = "over"]
    BY <1>10 DEF PrepareArrives
  <2>2. /\ prepares'[t].shown = prepares[t].shown /\ prepares'[t].behind = prepares[t].behind
        /\ \A u \in Tokens : u # t => prepares'[u] = prepares[u]
    BY <2>1, StageCalls, <1>0 DEF Same
  <2>3. UNCHANGED terms
    BY <1>10 DEF PrepareArrives, server
  <2> QED
    BY <1>10, <2>1, <2>2, <2>3 DEF PreparedAsShown
<1>11. ASSUME NEW c \in Confirms, ConfirmServed(c) PROVE PreparedAsShown'
  BY <1>11 DEF ConfirmServed, Ledger!Redeem, PreparedAsShown
<1>12. ASSUME NEW c \in Confirms, ConfirmArrives(c) PROVE PreparedAsShown'
  BY <1>12 DEF ConfirmArrives, PreparedAsShown, page, server
<1>13. CASE UNCHANGED vars
  BY <1>13 DEF vars, page, server, PreparedAsShown
<1> QED
  BY <1>1, <1>2, <1>3, <1>4, <1>5, <1>6, <1>7, <1>8, <1>9, <1>10, <1>11, <1>12, <1>13
     DEF Next, Settle

-----------------------------------------------------------------------------
(* Page, calls and the ledger.                                             *)

\* A token that the page holds, or that is on its way to it, was offered for
\* the text of its call.
Offered ==
    \A t \in Tokens :
        /\ terms[t] # None => terms[t].content = prepares[t].content
        /\ token = t \/ (prepares[t] # None /\ prepares[t].stage = "answered") =>
               terms[t] # None

\* What a confirm call that is answered stands for is in the ledger.
WrittenFor(c) ==
    LET t == confirms[c].token IN ledger[terms[t].key] = prepares[t].content

Confirmed ==
    \A c \in Confirms : confirms[c] # None =>
        /\ terms[confirms[c].token] # None
        /\ confirms[c].stage = "answered" => WrittenFor(c)

LedgerType == ledger \in [Keys -> Texts \cup {None}]

LedgerInv == LedgerType /\ Offered /\ Confirmed

\* Support is told that a draft is confirmed only if the text of its prepare
\* call is what stands in the ledger.
AnsweredMeansWritten ==
    \A c \in Confirms :
        confirms[c] # None /\ confirms[c].stage = "answered" => WrittenFor(c)

\* Steps that leave terms and ledger alone, and of the calls at most what the
\* page knows of them.
LEMMA PageKeeps ==
    ASSUME Inv, LedgerInv, UNCHANGED <<terms, ledger, confirms>>,
           \A t \in Tokens :
               /\ prepares[t] # None => Same(prepares'[t], prepares[t])
               /\ prepares'[t] # None /\ prepares'[t].stage = "answered" =>
                      prepares[t] # None /\ prepares[t].stage = "answered"
               /\ token' = t => token = t \/ terms[t] # None
    PROVE  LedgerInv'
<1>1. Offered'
  <2> SUFFICES ASSUME NEW t \in Tokens
               PROVE  /\ terms[t] # None => terms[t].content = prepares'[t].content
                      /\ token' = t \/ (prepares'[t] # None /\ prepares'[t].stage = "answered") =>
                             terms[t] # None
    BY DEF Offered
  <2>1. terms[t] # None => prepares[t] # None
    BY DEF Inv, Called
  <2> QED
    BY <2>1 DEF LedgerInv, Offered, Same
<1>2. Confirmed'
  <2> SUFFICES ASSUME NEW c \in Confirms, confirms[c] # None
               PROVE  /\ terms[confirms[c].token] # None
                      /\ confirms[c].stage = "answered" => WrittenFor(c)'
    BY DEF Confirmed
  <2>1. confirms[c].token \in Tokens
    BY DEF Inv, Types, TypeOK, ConfirmCalls
  <2>2. terms[confirms[c].token] # None
    BY DEF LedgerInv, Confirmed
  <2>3. prepares'[confirms[c].token].content = prepares[confirms[c].token].content
    BY <2>1, <2>2 DEF Inv, Called, Same
  <2> QED
    BY <2>2, <2>3 DEF LedgerInv, Confirmed, WrittenFor
<1> QED
  BY <1>1, <1>2 DEF LedgerInv, LedgerType

\* A token is offered for the text of its call, at a key that is left alone.
LEMMA OfferKeeps ==
    ASSUME Inv, LedgerInv, NEW t \in Tokens, PrepareServed(t)
    PROVE  LedgerInv'
<1>1. PICK stage \in {"answered", "failed"} :
         /\ prepares' = [prepares EXCEPT ![t].stage = stage]
         /\ \/ /\ terms[t] = None /\ UNCHANGED ledger
               /\ \E key \in Keys, content \in Texts :
                      terms' = [terms EXCEPT ![t] = [key |-> key, content |-> content]]
               /\ terms'[t].content = prepares[t].content
            \/ stage = "failed" /\ UNCHANGED <<terms, ledger>>
  BY DEF PrepareServed, Ledger!Offer
<1>2. prepares \in Calls /\ prepares[t] # None /\ UNCHANGED <<token, confirms>>
  BY DEF PrepareServed, Inv, Types, TypeOK, Calls, page
<1>3. /\ \A u \in Tokens : u # t => prepares'[u] = prepares[u]
      /\ Same(prepares'[t], prepares[t]) /\ prepares'[t].stage = stage
  BY <1>1, <1>2, StageCalls
<1>4. CASE stage = "failed" /\ UNCHANGED <<terms, ledger>>
  <2>1. \A u \in Tokens :
           /\ prepares[u] # None => Same(prepares'[u], prepares[u])
           /\ prepares'[u] # None /\ prepares'[u].stage = "answered" =>
                  prepares[u] # None /\ prepares[u].stage = "answered"
           /\ token' = u => token = u \/ terms[u] # None
    BY <1>2, <1>3, <1>4 DEF Same
  <2> QED
    BY <1>2, <1>4, <2>1, PageKeeps
<1>5. ASSUME terms[t] = None, UNCHANGED ledger, terms'[t].content = prepares[t].content,
             NEW key \in Keys, NEW content \in Texts,
             terms' = [terms EXCEPT ![t] = [key |-> key, content |-> content]]
      PROVE  LedgerInv'
  <2>1. \A u \in Tokens : u # t => terms'[u] = terms[u]
    BY <1>5 DEF Inv, Types
  <2>2. terms'[t] = [key |-> key, content |-> content]
    BY <1>5 DEF Inv, Types
  <2>3. [key |-> key, content |-> content] # None
    BY <1>5, NoneAssumption
  <2>4. Offered'
    BY <1>2, <1>3, <1>5, <2>1, <2>2, <2>3 DEF LedgerInv, Offered, Same
  <2>5. Confirmed'
    <3> SUFFICES ASSUME NEW c \in Confirms, confirms[c] # None
                 PROVE  /\ terms'[confirms[c].token] # None
                        /\ confirms[c].stage = "answered" => WrittenFor(c)'
      BY <1>2 DEF Confirmed
    <3>1. confirms[c].token \in Tokens /\ terms[confirms[c].token] # None
      BY DEF Inv, Types, TypeOK, ConfirmCalls, LedgerInv, Confirmed
    <3>2. confirms[c].token # t
      BY <1>5, <3>1
    <3> QED
      BY <1>2, <1>3, <1>5, <2>1, <3>1, <3>2 DEF LedgerInv, Confirmed, WrittenFor
  <2> QED
    BY <1>5, <2>4, <2>5 DEF LedgerInv, LedgerType
<1> QED
  BY <1>1, <1>4, <1>5

\* A confirm call is answered when its text is written or found, and a text
\* that is written stays.
LEMMA RedeemKeeps ==
    ASSUME Inv, LedgerInv, NEW c \in Confirms, ConfirmServed(c)
    PROVE  LedgerInv'
<1> DEFINE t == confirms[c].token
<1>1. /\ confirms[c] # None /\ UNCHANGED <<terms, token, prepares>>
      /\ t \in Tokens /\ confirms[c] \in ConfirmCalls
  BY DEF ConfirmServed, Ledger!Redeem, page, Inv, Types, TypeOK, ConfirmCalls
<1>2. /\ terms[t] # None /\ terms[t] \in [key : Keys, content : Texts]
      /\ terms[t].content = prepares[t].content
  BY <1>1 DEF LedgerInv, Confirmed, Offered, Inv, Types
<1>3. PICK stage \in {"answered", "failed"} :
         confirms' = [confirms EXCEPT ![c].stage = stage]
  BY DEF ConfirmServed
<1>4. /\ confirms'[c].stage = stage /\ confirms'[c].token = t
      /\ \A d \in Confirms : d # c => confirms'[d] = confirms[d]
  BY <1>1, <1>3 DEF Inv, Types, TypeOK, ConfirmCalls
<1>5. \/ /\ ledger[terms[t].key] \in {None, terms[t].content}
         /\ ledger' = [ledger EXCEPT ![terms[t].key] = terms[t].content]
      \/ ledger[terms[t].key] = terms[t].content /\ UNCHANGED ledger
      \/ confirms' = [confirms EXCEPT ![c].stage = "failed"] /\ UNCHANGED ledger
  BY DEF ConfirmServed, Ledger!Redeem
<1>6. /\ LedgerType'
      /\ \A k \in Keys : ledger[k] # None => ledger'[k] = ledger[k]
      /\ stage = "answered" => ledger'[terms[t].key] = terms[t].content
  <2>1. CASE confirms' = [confirms EXCEPT ![c].stage = "failed"] /\ UNCHANGED ledger
    <3>1. stage = "failed"
      BY <1>1, <1>4, <2>1 DEF Inv, Types, TypeOK, ConfirmCalls
    <3> QED
      BY <2>1, <3>1 DEF LedgerInv, LedgerType
  <2>2. CASE ~(confirms' = [confirms EXCEPT ![c].stage = "failed"] /\ UNCHANGED ledger)
    BY <1>2, <1>5, <2>2 DEF LedgerInv, LedgerType
  <2> QED
    BY <2>1, <2>2
<1>7. Offered'
  BY <1>1 DEF LedgerInv, Offered
<1>8. Confirmed'
  <2> SUFFICES ASSUME NEW d \in Confirms, confirms'[d] # None
               PROVE  /\ terms[confirms'[d].token] # None
                      /\ confirms'[d].stage = "answered" => WrittenFor(d)'
    BY <1>1 DEF Confirmed
  <2>1. CASE d = c
    BY <1>1, <1>2, <1>4, <1>6, <2>1 DEF WrittenFor
  <2>2. CASE d # c
    <3>1. confirms'[d] = confirms[d] /\ confirms[d] \in ConfirmCalls
      BY <1>4, <2>2 DEF Inv, Types, TypeOK
    <3>2. confirms[d].token \in Tokens /\ terms[confirms[d].token] # None
      BY <3>1 DEF ConfirmCalls, LedgerInv, Confirmed
    <3>3. /\ terms[confirms[d].token].key \in Keys
          /\ prepares[confirms[d].token].content # None
      BY <3>2, NoneAssumption DEF Inv, Types, TypeOK, Prepares, Called
    <3>4. confirms[d].stage = "answered" => WrittenFor(d)
      BY <3>1 DEF LedgerInv, Confirmed
    <3> QED
      BY <1>1, <1>6, <3>1, <3>2, <3>3, <3>4 DEF WrittenFor
  <2> QED
    BY <2>1, <2>2
<1> QED
  BY <1>6, <1>7, <1>8 DEF LedgerInv

\* A confirm call is sent with the token that is held, or has arrived.
LEMMA ConfirmKeeps ==
    ASSUME Inv, LedgerInv, NEW c \in Confirms, ConfirmDraft(c) \/ ConfirmArrives(c)
    PROVE  LedgerInv'
<1>1. UNCHANGED <<terms, ledger, prepares>> /\ (token' = token \/ token' = None)
  BY DEF ConfirmDraft, ConfirmArrives, DraftFails, server
<1>2. Offered'
  BY <1>1, NoneAssumption DEF LedgerInv, Offered
<1>3. confirms \in [Confirms -> ConfirmCalls \cup {None}]
  BY DEF Inv, Types, TypeOK
<1>4. /\ \A d \in Confirms : d # c => confirms'[d] = confirms[d]
      /\ terms[confirms'[c].token] # None
      /\ confirms'[c].stage # "answered"
  <2>1. CASE ConfirmDraft(c)
    <3>1. confirms'[c] = [session |-> sessionId, token |-> token, stage |-> "sent"]
      BY <1>3, <2>1 DEF ConfirmDraft
    <3>2. terms[token] # None
      BY <2>1 DEF ConfirmDraft, LedgerInv, Offered, Inv, Types, TypeOK
    <3> QED
      BY <1>3, <2>1, <3>1, <3>2 DEF ConfirmDraft
  <2>2. CASE ConfirmArrives(c)
    <3>1. confirms[c] # None /\ confirms' = [confirms EXCEPT ![c].stage = "over"]
      BY <2>2 DEF ConfirmArrives
    <3>2. confirms'[c].token = confirms[c].token /\ confirms'[c].stage = "over"
      BY <1>3, <3>1 DEF ConfirmCalls
    <3> QED
      BY <1>3, <3>1, <3>2 DEF LedgerInv, Confirmed
  <2> QED
    BY <2>1, <2>2
<1>5. Confirmed'
  BY <1>1, <1>4 DEF LedgerInv, Confirmed, WrittenFor
<1> QED
  BY <1>1, <1>2, <1>5 DEF LedgerInv, LedgerType

LEMMA LedgerStep == Inv /\ LedgerInv /\ [Next]_vars => LedgerInv'
<1> SUFFICES ASSUME Inv, LedgerInv, [Next]_vars PROVE LedgerInv'
  OBVIOUS
<1> USE NoneAssumption
<1>0. prepares \in Calls
  BY DEF Inv, Types, TypeOK, Calls
<1>1. CASE Ask
  <2>1. UNCHANGED <<terms, ledger, confirms, token>>
    BY <1>1 DEF Ask, server
  <2> QED
    BY <1>0, <1>1, <2>1, AskCalls, PageKeeps
<1>2. CASE ResetSession \/ Edit \/ AnswerArrives
  <2>1. UNCHANGED <<terms, ledger, confirms>> /\ token' \in {token, None} /\ Touch
    BY <1>2 DEF ResetSession, Edit, EditText, AnswerArrives, ClearDraft, server
  <2> QED
    BY <1>0, <2>1, TouchCalls, PageKeeps
<1>3. ASSUME NEW t \in Tokens, PrepareDraft(t) PROVE LedgerInv'
  <2>1. UNCHANGED <<terms, ledger, confirms, token>>
    BY <1>3 DEF PrepareDraft, server
  <2>2. /\ \A u \in Tokens : u # t => prepares'[u] = prepares[u]
        /\ prepares[t] = None /\ prepares'[t].stage = "sent"
    BY <1>0, <1>3 DEF PrepareDraft, Calls
  <2> QED
    BY <2>1, <2>2, PageKeeps DEF Same
<1>4. CASE AgentRuns \/ FailureArrives \/ UNCHANGED vars
  <2>1. UNCHANGED <<terms, ledger, confirms, token, prepares>>
    BY <1>4 DEF AgentRuns, FailureArrives, vars, page, server
  <2> QED
    BY <2>1, PageKeeps DEF Same
<1>5. ASSUME NEW t \in Tokens, PrepareArrives(t) PROVE LedgerInv'
  <2>1. /\ prepares[t] # None /\ prepares' = [prepares EXCEPT ![t].stage = "over"]
        /\ UNCHANGED <<terms, ledger, confirms>>
        /\ \/ token' = token
           \/ token' = t /\ prepares[t].stage = "answered"
    BY <1>5 DEF PrepareArrives, DraftFails, server
  <2>2. /\ \A u \in Tokens : u # t => prepares'[u] = prepares[u]
        /\ Same(prepares'[t], prepares[t]) /\ prepares'[t].stage = "over"
    BY <1>0, <2>1, StageCalls
  <2>3. token' = t => token = t \/ terms[t] # None
    BY <2>1 DEF LedgerInv, Offered
  <2> QED
    BY <2>1, <2>2, <2>3, PageKeeps DEF Same
<1> QED
  BY <1>1, <1>2, <1>3, <1>4, <1>5, OfferKeeps, RedeemKeeps, ConfirmKeeps DEF Next, Settle

-----------------------------------------------------------------------------
(* The theorems.                                                           *)

\* Page, calls and server stay in agreement, however late answers arrive.
THEOREM Invariance == Spec => []Inv
<1>1. Init => Inv
  <2> SUFFICES ASSUME Init PROVE Inv
    OBVIOUS
  <2>1. Types
    <3>1. [version |-> 0, escalate |-> FALSE] \in [version : 0..MaxVersion, escalate : BOOLEAN]
      BY BoundAssumption
    <3>2. /\ sessions \in [Sessions -> [version : 0..MaxVersion, escalate : BOOLEAN]]
          /\ sessionId \in Sessions
      BY <3>1, BoundAssumption DEF Init, Sessions
    <3>3. prepares \in [Tokens -> Prepares \cup {None}] /\ confirms \in [Confirms -> ConfirmCalls \cup {None}]
      BY DEF Init
    <3>4. terms \in [Tokens -> [key : Keys, content : Texts] \cup {None}]
      BY DEF Init, Ledger!Init
    <3> QED
      BY <3>2, <3>3, <3>4 DEF Init, Types, TypeOK
  <2>2. Called /\ Fits /\ PageCurrent /\ SentCurrent /\ PreparedAsShown
    BY NoneAssumption DEF Init, Ledger!Init, Called, Fits, InFlight, PageCurrent, SentCurrent, PreparedAsShown
  <2>3. Asked
    BY DEF Init, Asked, Running
  <2> QED
    BY <2>1, <2>2, <2>3 DEF Inv
<1>2. Inv /\ [Next]_vars => Inv'
  BY TypesStep, CalledStep, FitsStep, AskedStep, PageStep, SentStep, ShownStep DEF Inv
<1> QED
  BY <1>1, <1>2, PTL DEF Spec

\* The variables of the page and of the server keep their types.
THEOREM TypeCorrect == Spec => []TypeOK
BY Invariance, PTL DEF Inv, Types

\* page.tsx: the text of the confirmation that support can send is the text it
\* sees, unless the page changed while the token was on its way.
THEOREM HeldTextIsShown == Spec => []TokenFitsText
<1>1. Inv => TokenFitsText
  BY DEF Inv, Types, TypeOK, Fits, TokenFitsText
<1> QED
  BY <1>1, Invariance, PTL

\* page.tsx and the draft routes: the server prepares from the diagnosis that
\* the page shows, although the page does not name it.
THEOREM ShownIsPrepared == Spec => []PreparedAsShown
BY Invariance, PTL DEF Inv

\* page.tsx and the draft routes: a confirm call is only answered with success
\* if the text of the prepare call whose token it carries is in the ledger,
\* whatever was edited, asked, reset or confirmed before.
THEOREM ConfirmationIsTrue == Spec => []AnsweredMeansWritten
<1>1. Init => LedgerInv
  BY NoneAssumption DEF Init, Ledger!Init, LedgerInv, LedgerType, Offered, Confirmed
<1>2. LedgerInv => AnsweredMeansWritten
  BY DEF LedgerInv, Confirmed, AnsweredMeansWritten
<1> QED
  BY <1>1, <1>2, LedgerStep, Invariance, PTL DEF Spec

\* What the server does for the page, for any number of calls, are steps of
\* the ledger that EscalationDraft implements.
THEOREM ServerKeepsLedger == Spec => Ledger!Spec
<1>1. Init => Ledger!Init
  BY DEF Init
<1>2. Inv /\ [Next]_vars => [Ledger!Next]_<<terms, offered, ledger>>
  <2> SUFFICES ASSUME Inv, [Next]_vars
               PROVE  Ledger!Next \/ UNCHANGED <<terms, offered, ledger>>
    OBVIOUS
  <2>1. ASSUME NEW t \in Tokens, PrepareServed(t)
        PROVE  Ledger!Next \/ UNCHANGED <<terms, offered, ledger>>
    BY <2>1 DEF PrepareServed, Ledger!Next
  <2>2. ASSUME NEW c \in Confirms, ConfirmServed(c)
        PROVE  Ledger!Next \/ UNCHANGED <<terms, offered, ledger>>
    <3>1. confirms[c].token \in Tokens
      BY <2>2 DEF ConfirmServed, Inv, Types, TypeOK, ConfirmCalls
    <3> QED
      BY <2>2, <3>1 DEF ConfirmServed, Ledger!Next
  <2>3. \/ UNCHANGED <<terms, offered, ledger>>
        \/ \E t \in Tokens : PrepareServed(t)
        \/ \E c \in Confirms : ConfirmServed(c)
    BY DEF Next, Settle, Ask, ResetSession, Edit, PrepareDraft, ConfirmDraft, AgentRuns,
           AnswerArrives, FailureArrives, PrepareArrives, ConfirmArrives, vars, server
  <2> QED
    BY <2>1, <2>2, <2>3
<1> QED
  BY <1>1, <1>2, Invariance, PTL DEF Spec, Ledger!Spec

\* While the page says that it is preparing, a draft call is on its way that
\* will say otherwise.
PreparingMeansCall ==
    draftState = "preparing" =>
        \/ \E t \in Tokens : InFlight(t)
        \/ \E c \in Confirms : confirms[c] # None /\ confirms[c].stage # "over"

\* page.tsx: the draft buttons are not left disabled. Whichever calls overlap
\* with edits, answers and resets, "preparing" is never left without one.
THEOREM PreparingHasCall == Spec => []PreparingMeansCall
<1>1. Init => PreparingMeansCall
  BY DEF Init, PreparingMeansCall
<1>2. Inv /\ PreparingMeansCall /\ [Next]_vars => PreparingMeansCall'
  <2> SUFFICES ASSUME Inv, PreparingMeansCall, [Next]_vars PROVE PreparingMeansCall'
    OBVIOUS
  <2> USE NoneAssumption
  <2>0. /\ prepares \in Calls /\ confirms \in [Confirms -> ConfirmCalls \cup {None}]
        /\ sessionId \in Sessions /\ token \in Tokens \cup {None}
    BY DEF Inv, Types, TypeOK, Calls
  <2>1. CASE Ask
    BY <2>0, <2>1, AskCalls DEF Ask, PreparingMeansCall
  <2>2. CASE ResetSession \/ AnswerArrives
    BY <2>2 DEF ResetSession, AnswerArrives, ClearDraft, PreparingMeansCall
  <2>3. CASE Edit
    <3>1. Touch /\ UNCHANGED confirms /\ draftState' \in {draftState, "idle"}
      BY <2>3 DEF Edit, EditText
    <3> QED
      BY <2>0, <3>1, TouchCalls DEF PreparingMeansCall
  <2>4. ASSUME NEW t \in Tokens, PrepareDraft(t) PROVE PreparingMeansCall'
    <3>1. prepares'[t] # None /\ prepares'[t].stage = "sent"
      <4> DEFINE p == [session |-> sessionId, content |-> draft, shown |-> result,
                       stage |-> "sent", touched |-> FALSE, behind |-> Running \/ error]
      <4>1. p \in Prepares /\ p.stage = "sent"
        BY <2>4 DEF PrepareDraft, CanEscalate, Prepares, Running, Inv, Types, TypeOK
      <4>2. prepares'[t] = p
        BY <2>0, <2>4 DEF PrepareDraft, Calls
      <4> HIDE DEF p
      <4> QED
        BY <4>1, <4>2
    <3> QED
      BY <3>1 DEF PreparingMeansCall, InFlight
  <2>5. ASSUME NEW c \in Confirms, ConfirmDraft(c) PROVE PreparingMeansCall'
    <3> DEFINE x == [session |-> sessionId, token |-> token, stage |-> "sent"]
    <3>1. x \in ConfirmCalls /\ x.stage = "sent"
      BY <2>0, <2>5 DEF ConfirmDraft, ConfirmCalls
    <3>2. confirms'[c] = x
      BY <2>0, <2>5 DEF ConfirmDraft
    <3> HIDE DEF x
    <3> QED
      BY <3>1, <3>2 DEF PreparingMeansCall
  <2>6. CASE AgentRuns \/ FailureArrives \/ UNCHANGED vars
    BY <2>6 DEF AgentRuns, FailureArrives, vars, page, PreparingMeansCall, InFlight
  <2>7. ASSUME NEW t \in Tokens, PrepareServed(t) PROVE PreparingMeansCall'
    <3>1. PICK stage \in {"answered", "failed"} :
             prepares[t] # None /\ prepares' = [prepares EXCEPT ![t].stage = stage]
      BY <2>7 DEF PrepareServed
    <3>2. /\ \A u \in Tokens : u # t => prepares'[u] = prepares[u]
          /\ prepares'[t] # None /\ prepares'[t].stage = stage
      BY <2>0, <3>1, StageCalls
    <3>3. UNCHANGED <<draftState, confirms>>
      BY <2>7 DEF PrepareServed, page
    <3> QED
      BY <3>2, <3>3 DEF PreparingMeansCall, InFlight
  <2>8. ASSUME NEW c \in Confirms, ConfirmServed(c) PROVE PreparingMeansCall'
    <3>1. PICK stage \in {"answered", "failed"} :
             confirms[c] # None /\ confirms' = [confirms EXCEPT ![c].stage = stage]
      BY <2>8 DEF ConfirmServed
    <3>2. confirms'[c] = [confirms[c] EXCEPT !.stage = stage] /\ confirms[c] \in ConfirmCalls
      BY <2>0, <3>1
    <3>3. confirms'[c] \in ConfirmCalls /\ confirms'[c].stage = stage
      BY <3>2 DEF ConfirmCalls
    <3>4. UNCHANGED <<draftState, prepares>>
      BY <2>8 DEF ConfirmServed, page
    <3>5. \A d \in Confirms : d # c => confirms'[d] = confirms[d]
      BY <2>0, <3>1
    <3> QED
      BY <3>3, <3>4, <3>5 DEF PreparingMeansCall, InFlight
  <2>9. ASSUME NEW t \in Tokens, PrepareArrives(t) PROVE PreparingMeansCall'
    BY <2>9 DEF PrepareArrives, DraftFails, PreparingMeansCall
  <2>10. ASSUME NEW c \in Confirms, ConfirmArrives(c) PROVE PreparingMeansCall'
    BY <2>10 DEF ConfirmArrives, DraftFails, PreparingMeansCall
  <2> QED
    BY <2>1, <2>2, <2>3, <2>4, <2>5, <2>6, <2>7, <2>8, <2>9, <2>10 DEF Next, Settle
<1> QED
  BY <1>1, <1>2, Invariance, PTL DEF Spec
=============================================================================
