------------------------------ MODULE AgentRun ------------------------------
(***************************************************************************)
(* One run of the diagnosis agent, from the request to the answer          *)
(* (runAgent of src/agent/agent.ts with stop-rules.ts, the token budget of *)
(* context-budget.ts, and the trace of RunTrace).                          *)
(*                                                                         *)
(* A run loads the session, extracts a candidate from the text, lets the   *)
(* model choose read-only tools in up to MaxSteps steps, evaluates the     *)
(* stop rules, lets the model word the reply, saves the session and then   *)
(* the trace.  The calls of one model step run in parallel: their answers  *)
(* are merged one by one, in any order.                                    *)
(*                                                                         *)
(* What the answers say is abstracted to the diagnosis they lead to:       *)
(* "concluded" (a classification), "open" (insufficient_data, ask for more)*)
(* or "disputed" (insufficient_data, escalate).  How facts are merged is   *)
(* SessionMerge; what a call does before it answers is ToolRegistry; the   *)
(* races of several runs on one session are SessionStore and TargetSwitch. *)
(***************************************************************************)
EXTENDS RunTrace

CONSTANTS
    MaxSteps,       \* maximumSteps: model steps that may select tools
    MaxCalls,       \* toolContext.maxCalls
    MaxTokens,      \* contextBudget.maxTotalTokens
    Reserve,        \* contextBudget.maxOutputTokens
    Usages,         \* tokens one model call may use
    MaxParallel,    \* bound: tool calls of one model step
    MaxOthers       \* bound: traces of other runs saved meanwhile

ASSUME AgentAssumption ==
    /\ MaxSteps \in Nat \ {0} /\ MaxCalls \in Nat
    /\ MaxTokens \in Nat /\ Reserve \in 1..(MaxTokens - 1)
    /\ Usages \subseteq Nat /\ Usages # {}
    /\ MaxParallel \in Nat /\ MaxOthers \in Nat

VARIABLES
    pc,             \* where the run is
    late,           \* the deadline has passed: the abort signal has fired
    target,         \* what the state says of the object of the diagnosis
    pendingSwitch,  \* state.pendingTargetSwitch: "none", "live" or "expired"
    question,       \* state.pendingQuestion # null
    diagnosis,      \* the local variable: the diagnosis last computed
    kept,           \* state.diagnosisResult: the diagnosis the state keeps
    tokens,         \* RunTokenBudget.totalTokens
    blocked,        \* RunTokenBudget.blocked
    steps,          \* model steps finished
    repairs,        \* calls of this step that the SDK rejected, to be repaired
    running,        \* calls of this step that execute
    calls,          \* the calls in the order their answers were merged
    callsUsed,      \* toolContext.callsUsed
    repeatedCall,
    lastToolFailed,
    traces,         \* toolContext.traces
    recorder,       \* RunTraceRecorder
    status,         \* state.status at the end
    stopReason,
    saved,          \* what is stored of this run: "nothing", the new session
                    \* it has "created", or its "result"
    error,          \* why the run failed
    store,          \* TraceStore, oldest first
    later           \* other runs whose trace was saved after this run's

callVars == <<repairs, running, calls, callsUsed, repeatedCall,
              lastToolFailed, traces>>
stateVars == <<target, pendingSwitch, question, diagnosis, kept>>
budgetVars == <<tokens, blocked, steps>>
endVars == <<status, stopReason, saved, error>>
traceVars == <<store, later>>
vars == <<pc, late, stateVars, budgetVars, callVars, recorder, endVars, traceVars>>

ThisRun == 0

Diagnoses == {"open", "disputed", "concluded"}

\* "user" and "range": a candidate user, without and with a time range;
\* "candidate": a candidate message; "confirmed": a located message.
Targets == {"none", "user", "range", "candidate", "confirmed"}

\* "rejected": refused by the SDK's schema check; "unmergeable": the registry
\* has an answer and mergeToolResult throws.
CallOutcomes == ToolOutcomes \cup {"rejected", "unmergeable"}

Errors == {"state_store", "version_conflict", "target_switch", "model",
           "context", "trace_store"}

StopReasons == {"diagnosed", "ask_for_information", "max_steps", "max_tokens",
                "max_calls", "deadline", "tool_error", "no_progress"}

Statuses == {"completed", "awaiting_information", "stopped"}

TypeOK ==
    /\ pc \in {"start", "load", "loaded", "extract", "route", "search", "step",
               "tools", "selected", "lookup", "evaluate", "respond", "save",
               "trace", "failing", "answered", "failed"}
    /\ late \in BOOLEAN
    /\ target \in Targets
    /\ pendingSwitch \in {"none", "live", "expired"}
    /\ question \in BOOLEAN
    /\ diagnosis \in Diagnoses /\ kept \in Diagnoses
    /\ tokens \in Nat /\ blocked \in BOOLEAN /\ steps \in 0..MaxSteps
    /\ repairs \in 0..MaxParallel /\ running \in 0..(MaxParallel + 1)
    /\ calls \in Seq(CallOutcomes) /\ callsUsed \in 0..MaxCalls
    /\ repeatedCall \in BOOLEAN /\ lastToolFailed \in BOOLEAN
    /\ traces \in Seq(TraceStep)
    /\ recorder \in [steps : Seq(TraceStep), synced : Nat]
    /\ Len(recorder.steps) <= MaxTraceSteps
    /\ status \in Statuses \cup {"none"}
    /\ stopReason \in StopReasons \cup {"none"}
    /\ saved \in {"nothing", "created", "result"} /\ error \in Errors \cup {"none"}
    /\ Len(store) <= MaxTraces
    /\ later \in 0..MaxOthers

-----------------------------------------------------------------------------
(* Mutated forms.                                                          *)

SignalNeverFires == FALSE

StopSelectingOnFailure(total) ==
    steps + 1 >= MaxSteps \/ lastToolFailed \/ ~(total + Reserve <= MaxTokens)

FailureOfErrorAlone(outcome) == outcome = "error"

StoredUnconditionally(e) == {saved, "result"}

-----------------------------------------------------------------------------
(* The token budget and the stop rules.                                    *)

Failed(outcome) == outcome \in {"error", "blocked", "rejected"}

CanReserve(total) == total + Reserve <= MaxTokens

IsExceeded(total, isBlocked) == isBlocked \/ total >= MaxTokens

\* The abort signal covers the model calls; tools have the deadline.
AbortSignal == late

\* stopWhen, evaluated after a step that called tools.
StopSelecting(total) ==
    \/ steps + 1 >= MaxSteps
    \/ repeatedCall
    \/ lastToolFailed
    \/ ~CanReserve(total)
    \/ kept = "concluded"

\* The first rule that holds; none means that nothing stops the run.
StopRules ==
    << <<steps >= MaxSteps, "max_steps">>,
       <<IsExceeded(tokens, blocked), "max_tokens">>,
       <<callsUsed >= MaxCalls, "max_calls">>,
       <<late, "deadline">>,
       <<lastToolFailed, "tool_error">>,
       <<repeatedCall, "no_progress">>,
       <<diagnosis = "open", "ask_for_information">>,
       <<diagnosis = "concluded", "diagnosed">>,
       <<TRUE, "none">> >>

EvaluateStopRules ==
    LET first == CHOOSE i \in 1..Len(StopRules) :
                    StopRules[i][1] /\ \A j \in 1..(i - 1) : ~StopRules[j][1]
    IN  StopRules[first][2]

ExecutionStatus(reason) ==
    IF reason \notin {"none", "diagnosed", "ask_for_information"} THEN "stopped"
    ELSE IF diagnosis = "open" THEN "awaiting_information" ELSE "completed"

\* Without a located message nothing is concluded, and without a candidate
\* there is nothing to dispute (Blocked of SessionMerge).
DiagnosesOf(t) ==
    CASE t = "confirmed" -> Diagnoses
      [] t = "candidate" -> {"open", "disputed"}
      [] OTHER -> {"open"}

\* An error concludes nothing (ErrorsConcludeNothing of SessionMerge).
DiagnosesAfter(outcome, t) ==
    IF Failed(outcome) /\ diagnosis # "concluded"
    THEN DiagnosesOf(t) \ {"concluded"} ELSE DiagnosesOf(t)

-----------------------------------------------------------------------------
(* Start.                                                                  *)

Init ==
    /\ pc = "start" /\ late = FALSE
    /\ target = "none" /\ pendingSwitch = "none" /\ question = FALSE
    /\ diagnosis = "open" /\ kept = "open"
    /\ tokens = 0 /\ blocked = FALSE /\ steps = 0
    /\ repairs = 0 /\ running = 0
    /\ calls = <<>> /\ callsUsed = 0
    /\ repeatedCall = FALSE /\ lastToolFailed = FALSE
    /\ traces = <<>> /\ recorder = NewRecorder
    /\ status = "none" /\ stopReason = "none" /\ saved = "nothing" /\ error = "none"
    /\ store = [i \in 1..MaxTraces |->
                   Finish(NewRecorder, MaxOthers + i, "completed", "none")]
    /\ later = 0

\* The audit of the text for instructions that no run follows.
Start ==
    /\ pc = "start"
    /\ \E detected \in BOOLEAN :
           traces' = IF detected THEN <<SecurityStep>> ELSE <<>>
    /\ recorder' = SyncToolTraces(recorder, traces')
    /\ pc' = "load"
    /\ UNCHANGED <<late, stateVars, budgetVars, repairs, running, calls, callsUsed,
                   repeatedCall, lastToolFailed, endVars, traceVars>>

FailWith(e) == pc' = "failing" /\ error' = e

\* A session of an earlier run, or a new one.  Only a switch or the lack of a
\* target makes a run ask the pending question again; another one is as none.
Load ==
    /\ pc = "load"
    /\ target' \in Targets
    /\ pendingSwitch' \in IF target' = "confirmed" THEN {"none", "live", "expired"}
                          ELSE {"none"}
    /\ question' \in CASE pendingSwitch' # "none" -> {TRUE}
                       [] target' = "none" -> BOOLEAN
                       [] OTHER -> {FALSE}
    /\ kept' \in DiagnosesOf(target')
    /\ diagnosis' = kept'
    /\ saved' \in IF target' = "none" /\ ~question' THEN {saved, "created"} ELSE {saved}
    /\ pc' = "loaded"
    /\ UNCHANGED <<late, budgetVars, callVars, recorder, status, stopReason, error,
                   traceVars>>

\* refreshDiagnosis after the state has changed.
Refresh(t) == diagnosis' \in DiagnosesOf(t) /\ kept' = diagnosis'

\* A question ends the run before any tool is selected.
AskForInformation ==
    /\ status' = "awaiting_information"
    /\ stopReason' = "ask_for_information"

AnswerExpiredSwitch ==
    /\ pc = "loaded" /\ pendingSwitch = "expired"
    /\ pendingSwitch' = "none" /\ question' = TRUE
    /\ Refresh(target)
    /\ AskForInformation
    /\ pc' = "save"
    /\ UNCHANGED <<late, target, budgetVars, callVars, recorder, saved, error, traceVars>>

\* Nothing changed: answered without a save.
AnswerPendingSwitch ==
    /\ pc = "loaded" /\ pendingSwitch = "live"
    /\ AskForInformation
    /\ pc' = "trace"
    /\ UNCHANGED <<late, stateVars, budgetVars, callVars, recorder, saved, error, traceVars>>

DecideSwitch ==
    /\ pc = "loaded" /\ pendingSwitch = "live"
    /\ pendingSwitch' = "none" /\ question' = FALSE
    /\ target' \in {"candidate", "confirmed"}
    /\ diagnosis' \in IF target' = "candidate" THEN {"open"} ELSE Diagnoses
    /\ kept' = diagnosis'
    /\ pc' = "route"
    /\ UNCHANGED <<late, budgetVars, callVars, recorder, endVars, traceVars>>

\* A decision about nothing, or about another switch.
RefuseDecision ==
    /\ pc = "loaded" /\ pendingSwitch # "expired"
    /\ FailWith("target_switch")
    /\ UNCHANGED <<late, stateVars, budgetVars, callVars, recorder, status,
                   stopReason, saved, traceVars>>

BeginExtraction ==
    /\ pc = "loaded" /\ pendingSwitch = "none"
    /\ pc' = "extract"
    /\ UNCHANGED <<late, stateVars, budgetVars, callVars, recorder, endVars, traceVars>>

\* What the text may add to the target that the state has.
Extracted(t) ==
    CASE t = "none" -> {"none", "user", "range", "candidate"}
      [] t = "user" -> {"user", "range", "candidate"}
      [] t = "range" -> {"range", "candidate"}
      [] OTHER -> {t}

\* mergeCandidateContext, which offers a switch when another message is named
\* than the confirmed one, and clears a question that is answered.
Extract ==
    /\ pc = "extract" /\ ~AbortSignal
    /\ \E u \in Usages : tokens' = tokens + u
    /\ target' \in Extracted(target)
    /\ pendingSwitch' \in IF target = "confirmed" THEN {"none", "live"} ELSE {"none"}
    /\ question' \in CASE pendingSwitch' = "live" -> {TRUE}
                       [] target' = "none" -> {question, FALSE}
                       [] OTHER -> {FALSE}
    /\ Refresh(target')
    /\ recorder' = RecordAgent(recorder, "extract_context", "success")
    /\ pc' = "route"
    /\ UNCHANGED <<late, blocked, steps, callVars, endVars, traceVars>>

-----------------------------------------------------------------------------
(* Routing: ask, search, or let the model select tools.                    *)

Ask ==
    /\ pc = "route"
    /\ question /\ (pendingSwitch = "live" \/ target = "none")
    /\ AskForInformation
    /\ pc' = "save"
    /\ UNCHANGED <<late, stateVars, budgetVars, callVars, recorder, saved, error, traceVars>>

AskForRange ==
    /\ pc = "route" /\ target = "user"
    /\ question' = TRUE
    /\ AskForInformation
    /\ pc' = "save"
    /\ UNCHANGED <<late, target, pendingSwitch, diagnosis, kept, budgetVars, callVars,
                   recorder, saved, error, traceVars>>

BeginSearch ==
    /\ pc = "route" /\ target = "range"
    /\ running' = 1
    /\ pc' = "search"
    /\ UNCHANGED <<late, stateVars, budgetVars, repairs, calls, callsUsed,
                   repeatedCall, lastToolFailed, traces, recorder, endVars, traceVars>>

\* Neither a question to ask first nor a user to search for.
Selectable ==
    /\ target \in {"none", "candidate", "confirmed"}
    /\ ~(question /\ (pendingSwitch = "live" \/ target = "none"))

StopBeforeSelection ==
    /\ pc = "route" /\ Selectable /\ ~CanReserve(tokens)
    /\ blocked' = TRUE
    /\ question' = FALSE
    /\ status' = "stopped" /\ stopReason' = "max_tokens"
    /\ pc' = "save"
    /\ UNCHANGED <<late, target, pendingSwitch, diagnosis, kept, tokens, steps, callVars,
                   recorder, saved, error, traceVars>>

BeginSelection ==
    /\ pc = "route" /\ Selectable /\ CanReserve(tokens)
    /\ pc' = "step"
    /\ UNCHANGED <<late, stateVars, budgetVars, callVars, recorder, endVars, traceVars>>

-----------------------------------------------------------------------------
(* Tool calls.                                                             *)

\* execute: one call answers, and what it says is merged.  A call that is
\* admitted counts, and leaves one trace as every call does.
Execute(outcome) ==
    /\ outcome \in ToolOutcomes \cup {"unmergeable"}
    /\ outcome # "blocked" => callsUsed < MaxCalls
    /\ outcome = "cached" => \E i \in 1..Len(calls) : calls[i] = "success"
    /\ running' = running - 1
    /\ callsUsed' = IF outcome = "blocked" THEN callsUsed ELSE callsUsed + 1
    /\ calls' = Append(calls, outcome)
    /\ traces' = Append(traces, ToolStep(IF outcome = "unmergeable" THEN "success"
                                         ELSE outcome))
    /\ recorder' = SyncToolTraces(recorder, traces')
    /\ repeatedCall' = (repeatedCall \/ outcome = "cached")

\* The state is not changed by an answer that cannot be merged, and neither
\* is what is known of the last call.
Merge(outcome) ==
    IF outcome = "unmergeable"
    THEN UNCHANGED <<target, diagnosis, kept, lastToolFailed>>
    ELSE /\ target' \in IF outcome = "success" /\ target # "range"
                        THEN {target, "confirmed"} ELSE {target}
         /\ diagnosis' \in DiagnosesAfter(outcome, target')
         /\ kept' = diagnosis'
         /\ lastToolFailed' = Failed(outcome)

\* The search by user and time ends the run: the customer chooses.
Search ==
    /\ pc = "search"
    /\ \E outcome \in ToolOutcomes \cup {"unmergeable"} :
        /\ Execute(outcome) /\ Merge(outcome)
        /\ \/ /\ outcome # "unmergeable"
              /\ question' = TRUE
              /\ AskForInformation
              /\ pc' = "save"
              /\ UNCHANGED error
           \/ /\ outcome \in {"success", "cached", "unmergeable"}
              /\ FailWith("context")
              /\ UNCHANGED <<question, status, stopReason>>
    /\ UNCHANGED <<late, pendingSwitch, budgetVars, repairs, saved, traceVars>>

\* A model step: tool calls, of which the SDK rejects some.
Select ==
    /\ pc = "step" /\ ~AbortSignal
    /\ \E rejected, accepted \in 0..MaxParallel :
        /\ rejected + accepted \in 1..MaxParallel
        /\ repairs' = rejected /\ running' = accepted
    /\ pc' = "tools"
    /\ UNCHANGED <<late, stateVars, budgetVars, calls, callsUsed, repeatedCall,
                   lastToolFailed, traces, recorder, endVars, traceVars>>

\* A model step without a tool call is the last.
SelectNothing ==
    /\ pc = "step" /\ ~AbortSignal
    /\ \E u \in Usages : tokens' = tokens + u
    /\ steps' = steps + 1
    /\ pc' = "selected"
    /\ UNCHANGED <<late, stateVars, blocked, callVars, recorder, endVars, traceVars>>

\* repairToolCall: the registry refuses the call too, and that is recorded.
\* The diagnosis is computed but not kept in the state.
Repair ==
    /\ pc = "tools" /\ repairs > 0
    /\ repairs' = repairs - 1
    /\ traces' = Append(traces, ToolStep("blocked"))
    /\ recorder' = SyncToolTraces(recorder, traces')
    /\ lastToolFailed' = TRUE
    /\ \/ /\ calls' = Append(calls, "rejected")
          /\ diagnosis' \in DiagnosesAfter("rejected", target)
       \/ UNCHANGED <<calls, diagnosis>>            \* no tool has that name
    /\ UNCHANGED <<pc, late, target, pendingSwitch, question, kept, budgetVars, running,
                   callsUsed, repeatedCall, endVars, traceVars>>

\* In any order; an error thrown in a callback is an answer to the model.
Answer ==
    /\ pc = "tools" /\ repairs = 0 /\ running > 0
    /\ \E outcome \in ToolOutcomes \cup {"unmergeable"} :
        Execute(outcome) /\ Merge(outcome)
    /\ UNCHANGED <<pc, late, pendingSwitch, question, budgetVars, repairs, endVars,
                   traceVars>>

FinishStep ==
    /\ pc = "tools" /\ repairs = 0 /\ running = 0
    /\ steps' = steps + 1
    /\ \E u \in Usages : tokens' = tokens + u
    /\ blocked' = (blocked \/ ~CanReserve(tokens'))
    /\ pc' = IF StopSelecting(tokens') THEN "selected" ELSE "step"
    /\ UNCHANGED <<late, stateVars, repairs, running, calls, callsUsed, repeatedCall,
                   lastToolFailed, traces, recorder, endVars, traceVars>>

\* The customer has named a message and the model has called no tool.
NeedsLookup == calls = <<>> /\ target = "candidate"

EndSelection ==
    /\ pc = "selected"
    /\ recorder' = RecordAgent(recorder, "select_tool", "success")
    /\ running' = IF NeedsLookup THEN 1 ELSE 0
    /\ pc' = IF NeedsLookup THEN "lookup" ELSE "evaluate"
    /\ UNCHANGED <<late, stateVars, budgetVars, repairs, calls, callsUsed,
                   repeatedCall, lastToolFailed, traces, endVars, traceVars>>

LookUp ==
    /\ pc = "lookup"
    /\ \E outcome \in ToolOutcomes \cup {"unmergeable"} :
        /\ Execute(outcome) /\ Merge(outcome)
        /\ \/ outcome # "unmergeable" /\ pc' = "evaluate" /\ UNCHANGED error
           \/ outcome \in {"success", "cached", "unmergeable"} /\ FailWith("context")
    /\ UNCHANGED <<late, pendingSwitch, question, budgetVars, repairs, status,
                   stopReason, saved, traceVars>>

-----------------------------------------------------------------------------
(* The reply, the save and the trace.                                      *)

Evaluate ==
    /\ pc = "evaluate"
    /\ kept' = diagnosis
    /\ stopReason' = EvaluateStopRules
    /\ pc' = "respond"
    /\ UNCHANGED <<late, target, pendingSwitch, question, diagnosis, budgetVars, callVars,
                   recorder, status, saved, error, traceVars>>

\* What every outcome of the reply leads to.
Conclude ==
    LET reason == IF IsExceeded(tokens', blocked') THEN "max_tokens" ELSE stopReason
    IN  /\ stopReason' = reason
        /\ status' = ExecutionStatus(reason)
        /\ question' = (status' = "awaiting_information")
        /\ pc' = "save"
        /\ UNCHANGED <<late, target, pendingSwitch, diagnosis, kept, steps, callVars,
                       saved, error, traceVars>>

Respond ==
    /\ pc = "respond" /\ CanReserve(tokens) /\ ~AbortSignal
    /\ \E u \in Usages : tokens' = tokens + u
    /\ UNCHANGED blocked
    /\ recorder' = RecordAgent(recorder, "generate_response", "success")
    /\ Conclude

\* A reply that fails, or that the budget forbids, has a template.
RespondFallback ==
    /\ pc = "respond"
    /\ UNCHANGED tokens
    /\ blocked' = (blocked \/ ~CanReserve(tokens))
    /\ recorder' = RecordAgent(recorder, "generate_response", "error")
    /\ Conclude

Save ==
    /\ pc = "save"
    /\ saved' = "result"
    /\ pc' = "trace"
    /\ UNCHANGED <<late, stateVars, budgetVars, callVars, recorder, status, stopReason,
                   error, traceVars>>

SaveRunTrace ==
    /\ pc = "trace"
    /\ recorder' = RecordAgent(recorder, "diagnose", "success")
    /\ store' = SaveTrace(store, Finish(recorder', ThisRun, status, stopReason))
    /\ pc' = "answered"
    /\ UNCHANGED <<late, stateVars, budgetVars, callVars, endVars, later>>

\* The session is saved and the trace is not: the request fails.
RunTraceFails ==
    /\ pc = "trace"
    /\ recorder' = RecordAgent(recorder, "diagnose", "success")
    /\ FailWith("trace_store")
    /\ UNCHANGED <<late, stateVars, budgetVars, callVars, status, stopReason, saved,
                   traceVars>>

\* What may be stored when a save fails: an UPDATE that matches no row is a
\* conflict, but one whose answer is lost may have been committed.
StoredAfter(e) == IF e = "state_store" THEN {saved, "result"} ELSE {saved}

\* The errors of the stores, of the model, and of a context that does not fit.
\* The answer to the INSERT of a new session may be lost, too.
Breaks ==
    \/ pc = "load" /\ FailWith("state_store") /\ saved' \in {saved, "created"}
    \/ pc = "save" /\ \E e \in {"version_conflict", "state_store"} :
                          FailWith(e) /\ saved' \in StoredAfter(e)
    \/ pc \in {"extract", "route", "evaluate", "respond"} /\ FailWith("context")
       /\ UNCHANGED saved
    \/ pc \in {"extract", "step"} /\ FailWith("model") /\ UNCHANGED saved

Break ==
    /\ Breaks
    /\ UNCHANGED <<late, stateVars, budgetVars, callVars, recorder, status, stopReason,
                   traceVars>>

\* The trace of a failed run, saved if the store allows it.
FailureTrace ==
    /\ pc = "failing"
    /\ recorder' = RecordAgent(recorder, "diagnose", "error")
    /\ store' \in {store, SaveTrace(store, Finish(recorder', ThisRun, "failed",
                                                   "execution_failed"))}
    /\ pc' = "failed"
    /\ UNCHANGED <<late, stateVars, budgetVars, callVars, endVars, later>>

\* Another run saves its trace in the same store.
OtherRun ==
    /\ pc \in {"answered", "failed"}
    /\ later < MaxOthers
    /\ later' = later + 1
    /\ store' = SaveTrace(store, Finish(NewRecorder, later + 1, "completed", "none"))
    /\ UNCHANGED <<pc, late, stateVars, budgetVars, callVars, recorder, endVars>>

\* At any time; the clock is read only while the model is asked and when the
\* stop rules are evaluated.
DeadlinePasses ==
    /\ pc \in {"extract", "step", "evaluate", "respond"}
    /\ ~late /\ late' = TRUE
    /\ UNCHANGED <<pc, stateVars, budgetVars, callVars, recorder, endVars, traceVars>>

-----------------------------------------------------------------------------
(* Specification.                                                          *)

\* Steps the program takes on its own, and answers that always come: the
\* registry's within its deadline, the stores'.
Proceed ==
    \/ Start \/ Load \/ AnswerExpiredSwitch \/ AnswerPendingSwitch
    \/ DecideSwitch \/ RefuseDecision \/ BeginExtraction
    \/ Ask \/ AskForRange \/ BeginSearch \/ StopBeforeSelection \/ BeginSelection
    \/ Search \/ Repair \/ Answer \/ FinishStep \/ EndSelection \/ LookUp
    \/ Evaluate \/ Save \/ SaveRunTrace \/ RunTraceFails \/ FailureTrace

\* Answers of the model, which may never come, and errors.
Next ==
    \/ Proceed
    \/ Extract \/ Select \/ SelectNothing \/ Respond \/ RespondFallback \/ Break
    \/ OtherRun \/ DeadlinePasses

Spec == Init /\ [][Next]_vars

\* A model call that has no answer when the signal fires is rejected.
FairSpec ==
    /\ Spec
    /\ WF_vars(Proceed)
    /\ WF_vars(DeadlinePasses)
    /\ WF_vars(AbortSignal /\ (Break \/ RespondFallback))

-----------------------------------------------------------------------------
(* Properties.                                                             *)

Answered == pc = "answered"

\* The stop rules were evaluated: the run got past the tool rounds.
Selected == Answered /\ steps > 0

\* POST of api/chat/route.ts.
HttpStatus ==
    CASE Answered -> 200
      [] error \in {"version_conflict", "target_switch"} -> 409
      [] error = "context" -> 413
      [] OTHER -> 502

\* The budget is tested before every model call and the usage known after it:
\* one call at most exceeds what the reserve leaves (RunTokenBudget).
TokensBounded ==
    \A most \in Usages :
        (\A u \in Usages : u <= most) => tokens <= MaxTokens - Reserve + most

\* The client that is told of a conflict (409), or that its context does not
\* fit, may rely on nothing of its run being in the session, but for a new
\* session being there (save, loadOrCreateState).  Behind a 502 the result may
\* be saved: because the trace was not, or because the answer to the save was
\* lost.  An answer without a save shows the pending switch of a session that
\* was there before.
ConflictMeansUnsaved ==
    /\ pc = "failed" /\ saved = "result" =>
           error \in {"state_store", "trace_store"} /\ HttpStatus = 502
    /\ Answered /\ saved # "result" => pendingSwitch = "live" /\ saved = "nothing"

\* Calls of one step answer in any order and the last one decides whether a
\* tool failed (lastToolFailed).  A run that claims to have ended for what is
\* known, or for lack of progress, may hide the failure of a call only behind
\* a success that was merged after it.
HiddenFailuresSucceeded ==
    Selected /\ stopReason \in {"none", "diagnosed", "ask_for_information", "no_progress"} =>
        \A i \in 1..Len(calls) :
            calls[i] \in {"error", "blocked", "rejected"} =>
                \E j \in (i + 1)..Len(calls) : calls[j] \in {"success", "cached"}

\* Once the diagnosis is conclusive the model is not asked for more tools,
\* although a repaired call leaves the kept diagnosis behind.
ConclusionEndsSelection == pc = "step" /\ steps > 0 => diagnosis # "concluded"

\* The trace of an answered run can be queried until MaxTraces others were
\* saved, and says how the run ended; a failed run never appears as anything
\* but failed.
TraceAvailable ==
    /\ Answered /\ later < MaxTraces =>
           \E t \in StoredTraces(store, ThisRun) :
               t.status = status /\ t.stopReason = stopReason
    /\ pc = "failed" =>
           \A t \in StoredTraces(store, ThisRun) : t.status = "failed"

\* A stored trace has a step for each tool call and security event, once, and
\* ends with the diagnosis, and if a failed tool stopped the run, the view of
\* the trace names one that did; unless it is full: steps past MaxTraceSteps
\* are lost, the last ones first.
TraceComplete ==
    \A t \in StoredTraces(store, ThisRun) :
        LET collected == StepsOf(t.steps, {"tool", "security"}) IN
        /\ Len(t.steps) < MaxTraceSteps =>
               /\ collected = traces
               /\ t.steps[Len(t.steps)].action = "diagnose"
               /\ t.stopReason = "tool_error" =>
                      \E i \in 1..Len(Reasons(t)) : Reasons(t)[i] = "stop"
        /\ \E n \in 0..Len(traces) : collected = SubSeq(traces, 1, n)

\* Every run ends, although the model may never answer: at the deadline its
\* calls are aborted.
RunEnds == pc = "start" ~> pc \in {"answered", "failed"}
=============================================================================
