--------------------------- MODULE AgentRunProofs ---------------------------
(***************************************************************************)
(* Proofs about AgentRun for every limit, budget and set of usages: how    *)
(* far a run may exceed its budget, what a failed run leaves behind, what  *)
(* the answer of a run may claim, and what its trace tells.  Each          *)
(* invariant of the model rests on an inductive one, and each of these on  *)
(* the facts about where a run is (Phases).                                *)
(***************************************************************************)
EXTENDS AgentRun, FiniteSetTheorems, SequenceTheorems, TLAPS

\* Where a run is says what it has done.
Phases ==
    /\ tokens \in Nat /\ steps \in Nat
    /\ pc \in {"start", "load", "loaded", "extract"} => tokens = 0
    /\ pc \in {"step", "tools"} => CanReserve(tokens)
    /\ pc \in {"start", "load", "loaded", "extract", "route", "search"} => steps = 0

\* What is spent, whichever usage is the largest.
Spent == TokensBounded

\* Only the trace remains to be saved after the result; with a failure the
\* result may be stored at the save itself.  A session the run has created
\* shows no switch.
SessionSaved ==
    /\ saved \in {"nothing", "created", "result"}
    /\ saved = "result" => pc \in {"trace", "failing", "answered", "failed"}
    /\ saved = "result" /\ pc \in {"failing", "failed"} =>
           error \in {"state_store", "trace_store"}
    /\ pc \in {"start", "load"} => saved = "nothing"
    /\ saved = "created" /\ pc = "loaded" => pendingSwitch = "none"
    /\ pc \in {"trace", "answered"} /\ saved # "result" =>
           pendingSwitch = "live" /\ saved = "nothing"

\* The diagnosis that is kept is the one last computed, but for the calls of
\* this step that failed.
Kept ==
    /\ pc \in {"loaded", "extract", "route", "step"} => diagnosis = kept
    /\ pc = "tools" /\ diagnosis # kept => lastToolFailed
    /\ pc = "step" /\ steps > 0 => kept # "concluded"

\* Every failure has a success after it.
Recovered ==
    \A i \in 1..Len(calls) :
        Failed(calls[i]) => \E j \in (i + 1)..Len(calls) : calls[j] \in {"success", "cached"}

Honest == {"none", "diagnosed", "ask_for_information", "no_progress"}

\* A run that has not recovered knows it, and its answer says so.
Recovery ==
    /\ calls \in Seq(CallOutcomes)
    /\ ~lastToolFailed => Recovered
    /\ steps > 0 /\ pc \in {"respond", "save", "trace", "answered"} /\ stopReason \in Honest
           => ~lastToolFailed

IsSequence == \E T : store \in Seq(T)

\* The trace of this run is as far from the front of the store as others were
\* saved since.
Stored ==
    /\ IsSequence /\ later \in Nat
    /\ pc \notin {"answered", "failed"} =>
           later = 0 /\ \A i \in 1..Len(store) : store[i].run # ThisRun
    /\ pc = "failed" =>
           \A i \in 1..Len(store) : store[i].run = ThisRun => store[i].status = "failed"
    /\ pc = "answered" /\ later < MaxTraces =>
           \E i \in 1..Len(store) :
               /\ i >= Len(store) - later
               /\ store[i].run = ThisRun
               /\ store[i].status = status /\ store[i].stopReason = stopReason

-----------------------------------------------------------------------------
(* Lemmas.                                                                 *)

\* A rule of failure comes before those that claim something.
LEMMA FailureStops == lastToolFailed => EvaluateStopRules \notin Honest
<1> SUFFICES ASSUME lastToolFailed PROVE EvaluateStopRules \notin Honest
  OBVIOUS
<1> DEFINE R == StopRules
           First(i) == R[i][1] /\ \A j \in 1..(i - 1) : ~R[j][1]
           first == CHOOSE i \in 1..Len(R) : First(i)
<1>1. /\ Len(R) = 9 /\ R[5] = <<lastToolFailed, "tool_error">>
      /\ R[1] = <<steps >= MaxSteps, "max_steps">>
      /\ R[2] = <<IsExceeded(tokens, blocked), "max_tokens">>
      /\ R[3] = <<callsUsed >= MaxCalls, "max_calls">>
      /\ R[4] = <<late, "deadline">>
  BY DEF StopRules
<1>2. R[5][1] /\ R[1][2] = "max_steps" /\ R[2][2] = "max_tokens" /\ R[3][2] = "max_calls"
      /\ R[4][2] = "deadline" /\ R[5][2] = "tool_error"
  BY <1>1
<1> HIDE DEF R
<1>3. \E i \in 1..5 : First(i)
  <2>1. CASE R[1][1]
    BY <2>1
  <2>2. CASE ~R[1][1] /\ R[2][1]
    <3>1. First(2)
      BY <2>2
    <3> QED
      BY <3>1
  <2>3. CASE ~R[1][1] /\ ~R[2][1] /\ R[3][1]
    <3>1. First(3)
      BY <2>3
    <3> QED
      BY <3>1
  <2>4. CASE ~R[1][1] /\ ~R[2][1] /\ ~R[3][1] /\ R[4][1]
    <3>1. First(4)
      BY <2>4
    <3> QED
      BY <3>1
  <2>5. CASE ~R[1][1] /\ ~R[2][1] /\ ~R[3][1] /\ ~R[4][1]
    <3>1. First(5)
      BY <2>5, <1>2
    <3> QED
      BY <3>1
  <2> QED
    BY <2>1, <2>2, <2>3, <2>4, <2>5
<1>4. first \in 1..9 /\ First(first)
  BY <1>1, <1>3
<1>5. EvaluateStopRules = R[first][2]
  BY DEF EvaluateStopRules, R
<1> HIDE DEF first
<1>6. first \in 1..5
  BY <1>2, <1>4
<1>7. first = 1 \/ first = 2 \/ first = 3 \/ first = 4 \/ first = 5
  BY <1>6
<1> QED
  BY <1>2, <1>5, <1>7 DEF Honest

\* A success recovers every failure before it; a failure recovers nothing.
LEMMA RecoveredAppend ==
    ASSUME calls \in Seq(CallOutcomes), NEW outcome \in CallOutcomes,
           calls' = Append(calls, outcome),
           Recovered \/ outcome \in {"success", "cached"}, ~Failed(outcome)
    PROVE  Recovered'
<1> USE DEF Recovered
<1>1. Len(calls') = Len(calls) + 1 /\ calls'[Len(calls) + 1] = outcome
      /\ \A i \in 1..Len(calls) : calls'[i] = calls[i]
  OBVIOUS
<1> SUFFICES ASSUME NEW i \in 1..(Len(calls) + 1), Failed(calls'[i])
             PROVE  \E j \in (i + 1)..(Len(calls) + 1) : calls'[j] \in {"success", "cached"}
  BY <1>1 DEF Failed
<1>2. i \in 1..Len(calls) /\ Failed(calls[i])
  BY <1>1 DEF Failed
<1>3. CASE outcome \in {"success", "cached"}
  BY <1>1, <1>2, <1>3
<1>4. CASE Recovered
  <2>1. PICK j \in (i + 1)..Len(calls) : calls[j] \in {"success", "cached"}
    BY <1>2, <1>4
  <2> QED
    BY <1>1, <2>1
<1> QED
  BY <1>3, <1>4

\* An answer that is merged, in a step or alone.
LEMMA MergeRecovery ==
    ASSUME calls \in Seq(CallOutcomes), ~lastToolFailed => Recovered,
           NEW outcome \in ToolOutcomes \cup {"unmergeable"}, Execute(outcome), Merge(outcome)
    PROVE  calls' \in Seq(CallOutcomes) /\ (~lastToolFailed' => Recovered')
<1>1. outcome \in CallOutcomes /\ calls' = Append(calls, outcome)
  BY DEF Execute, CallOutcomes
<1>2. calls' \in Seq(CallOutcomes)
  BY <1>1
<1>3. CASE outcome = "unmergeable"
  <2>1. lastToolFailed' = lastToolFailed /\ ~Failed(outcome)
    BY <1>3 DEF Merge, Failed
  <2> QED
    BY <1>1, <1>2, <2>1, RecoveredAppend
<1>4. CASE outcome # "unmergeable"
  <2>1. lastToolFailed' = Failed(outcome)
    BY <1>4 DEF Merge
  <2>2. ~Failed(outcome) => outcome \in {"success", "cached"}
    BY <1>4 DEF Failed, ToolOutcomes
  <2> QED
    BY <1>1, <1>2, <2>1, <2>2, RecoveredAppend
<1> QED
  BY <1>3, <1>4

\* Where the entries of a store are after a trace is saved: a run that is new
\* is last, and the oldest entry may be evicted for it.
LEMMA SaveTracePlaces ==
    ASSUME IsSequence, NEW t
    PROVE  LET new == SaveTrace(store, t) IN
           /\ \E T : new \in Seq(T)
           /\ \/ /\ Len(new) = Len(store)
                 /\ \A i \in 1..Len(store) :
                        new[i] = IF store[i].run = t.run THEN t ELSE store[i]
              \/ /\ Len(new) = Len(store) + 1 /\ Len(store) < MaxTraces
                 /\ new[Len(new)] = t
                 /\ \A i \in 1..Len(store) : new[i] = store[i]
              \/ /\ Len(new) = Len(store) /\ Len(store) >= MaxTraces
                 /\ Len(store) > 0 /\ new[Len(new)] = t
                 /\ \A i \in 2..Len(store) : new[i - 1] = store[i]
           /\ \A i \in 1..Len(new) : new[i] = t \/ \E j \in 1..Len(store) : new[i] = store[j]
           /\ StoredTraces(store, t.run) = {} => new[Len(new)] = t /\ Len(new) > 0
<1> USE TraceAssumption
<1>1. PICK T : store \in Seq(T)
  BY DEF IsSequence
<1>2. Seq(T) \subseteq Seq(T \cup {t})
  OBVIOUS
<1>3. CASE StoredTraces(store, t.run) # {}
  <2>1. SaveTrace(store, t) = [i \in 1..Len(store) |-> IF store[i].run = t.run THEN t ELSE store[i]]
    BY <1>3 DEF SaveTrace
  <2>2. /\ SaveTrace(store, t) \in Seq(T \cup {t})
        /\ Len(SaveTrace(store, t)) = Len(store)
    BY <1>1, <2>1
  <2> QED
    BY <1>3, <2>1, <2>2
<1>4. CASE StoredTraces(store, t.run) = {} /\ Len(store) >= MaxTraces
  <2>1. SaveTrace(store, t) = Append(Tail(store), t)
    BY <1>4 DEF SaveTrace
  <2>2. /\ Tail(store) \in Seq(T) /\ Len(Tail(store)) = Len(store) - 1
        /\ \A i \in 1..(Len(store) - 1) : Tail(store)[i] = store[i + 1]
    BY <1>1, <1>4
  <2>3. /\ SaveTrace(store, t) \in Seq(T \cup {t}) /\ Len(SaveTrace(store, t)) = Len(store)
        /\ Len(store) > 0 /\ SaveTrace(store, t)[Len(store)] = t
        /\ \A i \in 1..(Len(store) - 1) : SaveTrace(store, t)[i] = store[i + 1]
    BY <1>1, <1>4, <2>1, <2>2
  <2>4. \A i \in 2..Len(store) : SaveTrace(store, t)[i - 1] = store[i]
    BY <1>1, <2>3
  <2>5. ASSUME NEW i \in 1..Len(store), i # Len(store)
        PROVE  i + 1 \in 1..Len(store) /\ SaveTrace(store, t)[i] = store[i + 1]
    BY <1>1, <2>3, <2>5
  <2> QED
    BY <1>1, <1>4, <2>3, <2>4, <2>5
<1>5. CASE StoredTraces(store, t.run) = {} /\ ~(Len(store) >= MaxTraces)
  <2>1. SaveTrace(store, t) = Append(store, t)
    BY <1>5 DEF SaveTrace
  <2> QED
    BY <1>1, <1>2, <1>5, <2>1
<1> QED
  BY <1>3, <1>4, <1>5

-----------------------------------------------------------------------------
(* Each invariant is kept by every action.                                 *)

\* The phases of a run.
LEMMA PhasesStep == Phases /\ [Next]_vars => Phases'
<1> SUFFICES ASSUME Phases, [Next]_vars PROVE Phases'
  OBVIOUS
<1> USE AgentAssumption DEF Phases, CanReserve, stateVars, budgetVars, callVars, endVars, traceVars
<1>1. CASE Start
  BY <1>1 DEF Start
<1>2. CASE Load
  BY <1>2 DEF Load
<1>3. CASE AnswerExpiredSwitch
  BY <1>3 DEF AnswerExpiredSwitch, Refresh, AskForInformation
<1>4. CASE AnswerPendingSwitch
  BY <1>4 DEF AnswerPendingSwitch, AskForInformation
<1>5. CASE DecideSwitch
  BY <1>5 DEF DecideSwitch
<1>6. CASE RefuseDecision
  BY <1>6 DEF RefuseDecision, FailWith
<1>7. CASE BeginExtraction
  BY <1>7 DEF BeginExtraction
<1>8. CASE Ask
  BY <1>8 DEF Ask, AskForInformation
<1>9. CASE AskForRange
  BY <1>9 DEF AskForRange, AskForInformation
<1>10. CASE BeginSearch
  BY <1>10 DEF BeginSearch
<1>11. CASE StopBeforeSelection
  BY <1>11 DEF StopBeforeSelection
<1>12. CASE BeginSelection
  BY <1>12 DEF BeginSelection
<1>13. CASE Search
  BY <1>13 DEF Search, Execute, Merge, AskForInformation, FailWith
<1>14. CASE Repair
  BY <1>14 DEF Repair
<1>15. CASE Answer
  BY <1>15 DEF Answer, Execute, Merge
<1>16. CASE FinishStep
  BY <1>16 DEF FinishStep, StopSelecting
<1>17. CASE EndSelection
  BY <1>17 DEF EndSelection, NeedsLookup
<1>18. CASE LookUp
  BY <1>18 DEF LookUp, Execute, Merge, FailWith
<1>19. CASE Evaluate
  BY <1>19 DEF Evaluate
<1>20. CASE Save
  BY <1>20 DEF Save
<1>21. CASE SaveRunTrace
  BY <1>21 DEF SaveRunTrace
<1>22. CASE RunTraceFails
  BY <1>22 DEF RunTraceFails, FailWith
<1>23. CASE FailureTrace
  BY <1>23 DEF FailureTrace
<1>24. CASE Extract
  BY <1>24 DEF Extract, Refresh
<1>25. CASE Select
  BY <1>25 DEF Select
<1>26. CASE SelectNothing
  BY <1>26 DEF SelectNothing
<1>27. CASE Respond
  BY <1>27 DEF Respond, Conclude
<1>28. CASE RespondFallback
  BY <1>28 DEF RespondFallback, Conclude
<1>29. CASE Break
  BY <1>29 DEF Break, Breaks, FailWith, StoredAfter
<1>30. CASE OtherRun
  BY <1>30 DEF OtherRun
<1>31. CASE DeadlinePasses
  BY <1>31 DEF DeadlinePasses
<1>32. CASE UNCHANGED vars
  BY <1>32 DEF vars
<1> QED
  BY <1>1, <1>2, <1>3, <1>4, <1>5, <1>6, <1>7, <1>8, <1>9, <1>10, <1>11, <1>12,
     <1>13, <1>14, <1>15, <1>16, <1>17, <1>18, <1>19, <1>20, <1>21, <1>22, <1>23, <1>24,
     <1>25, <1>26, <1>27, <1>28, <1>29, <1>30, <1>31, <1>32 DEF Next, Proceed

\* A model call is made only while the reserve is left, and one call may exceed it.
LEMMA SpentStep == Phases /\ Spent /\ [Next]_vars => Spent'
<1> SUFFICES ASSUME Phases, Spent, [Next]_vars PROVE Spent'
  OBVIOUS
<1> USE AgentAssumption DEF Phases, CanReserve, Spent, TokensBounded, stateVars, budgetVars, callVars, endVars, traceVars
<1>1. CASE Start
  BY <1>1 DEF Start
<1>2. CASE Load
  BY <1>2 DEF Load
<1>3. CASE AnswerExpiredSwitch
  BY <1>3 DEF AnswerExpiredSwitch, Refresh, AskForInformation
<1>4. CASE AnswerPendingSwitch
  BY <1>4 DEF AnswerPendingSwitch, AskForInformation
<1>5. CASE DecideSwitch
  BY <1>5 DEF DecideSwitch
<1>6. CASE RefuseDecision
  BY <1>6 DEF RefuseDecision, FailWith
<1>7. CASE BeginExtraction
  BY <1>7 DEF BeginExtraction
<1>8. CASE Ask
  BY <1>8 DEF Ask, AskForInformation
<1>9. CASE AskForRange
  BY <1>9 DEF AskForRange, AskForInformation
<1>10. CASE BeginSearch
  BY <1>10 DEF BeginSearch
<1>11. CASE StopBeforeSelection
  BY <1>11 DEF StopBeforeSelection
<1>12. CASE BeginSelection
  BY <1>12 DEF BeginSelection
<1>13. CASE Search
  BY <1>13 DEF Search, Execute, Merge, AskForInformation, FailWith
<1>14. CASE Repair
  BY <1>14 DEF Repair
<1>15. CASE Answer
  BY <1>15 DEF Answer, Execute, Merge
<1>16. CASE FinishStep
  BY <1>16 DEF FinishStep, StopSelecting
<1>17. CASE EndSelection
  BY <1>17 DEF EndSelection, NeedsLookup
<1>18. CASE LookUp
  BY <1>18 DEF LookUp, Execute, Merge, FailWith
<1>19. CASE Evaluate
  BY <1>19 DEF Evaluate
<1>20. CASE Save
  BY <1>20 DEF Save
<1>21. CASE SaveRunTrace
  BY <1>21 DEF SaveRunTrace
<1>22. CASE RunTraceFails
  BY <1>22 DEF RunTraceFails, FailWith
<1>23. CASE FailureTrace
  BY <1>23 DEF FailureTrace
<1>24. CASE Extract
  BY <1>24 DEF Extract, Refresh
<1>25. CASE Select
  BY <1>25 DEF Select
<1>26. CASE SelectNothing
  BY <1>26 DEF SelectNothing
<1>27. CASE Respond
  BY <1>27 DEF Respond, Conclude
<1>28. CASE RespondFallback
  BY <1>28 DEF RespondFallback, Conclude
<1>29. CASE Break
  BY <1>29 DEF Break, Breaks, FailWith, StoredAfter
<1>30. CASE OtherRun
  BY <1>30 DEF OtherRun
<1>31. CASE DeadlinePasses
  BY <1>31 DEF DeadlinePasses
<1>32. CASE UNCHANGED vars
  BY <1>32 DEF vars
<1> QED
  BY <1>1, <1>2, <1>3, <1>4, <1>5, <1>6, <1>7, <1>8, <1>9, <1>10, <1>11, <1>12,
     <1>13, <1>14, <1>15, <1>16, <1>17, <1>18, <1>19, <1>20, <1>21, <1>22, <1>23, <1>24,
     <1>25, <1>26, <1>27, <1>28, <1>29, <1>30, <1>31, <1>32 DEF Next, Proceed

\* A run that fails with its result stored fails at the save or at the trace.
LEMMA SessionSavedStep == SessionSaved /\ [Next]_vars => SessionSaved'
<1> SUFFICES ASSUME SessionSaved, [Next]_vars PROVE SessionSaved'
  OBVIOUS
<1> USE DEF SessionSaved, stateVars, budgetVars, callVars, endVars, traceVars
<1>1. CASE Start
  BY <1>1 DEF Start
<1>2. CASE Load
  <2>1. pc = "load" /\ pc' = "loaded"
    BY <1>2 DEF Load
  <2>2. target' = "none" => pendingSwitch' = "none"
    BY <1>2 DEF Load
  <2>3. saved' \in IF target' = "none" /\ ~question' THEN {saved, "created"} ELSE {saved}
    BY <1>2 DEF Load
  <2>4. saved' = saved \/ (saved' = "created" /\ target' = "none")
    BY <2>3
  <2> QED
    BY <2>1, <2>2, <2>4
<1>3. CASE AnswerExpiredSwitch
  BY <1>3 DEF AnswerExpiredSwitch, Refresh, AskForInformation
<1>4. CASE AnswerPendingSwitch
  BY <1>4 DEF AnswerPendingSwitch, AskForInformation
<1>5. CASE DecideSwitch
  BY <1>5 DEF DecideSwitch
<1>6. CASE RefuseDecision
  BY <1>6 DEF RefuseDecision, FailWith
<1>7. CASE BeginExtraction
  BY <1>7 DEF BeginExtraction
<1>8. CASE Ask
  BY <1>8 DEF Ask, AskForInformation
<1>9. CASE AskForRange
  BY <1>9 DEF AskForRange, AskForInformation
<1>10. CASE BeginSearch
  BY <1>10 DEF BeginSearch
<1>11. CASE StopBeforeSelection
  BY <1>11 DEF StopBeforeSelection
<1>12. CASE BeginSelection
  BY <1>12 DEF BeginSelection
<1>13. CASE Search
  BY <1>13 DEF Search, Execute, Merge, AskForInformation, FailWith
<1>14. CASE Repair
  BY <1>14 DEF Repair
<1>15. CASE Answer
  BY <1>15 DEF Answer, Execute, Merge
<1>16. CASE FinishStep
  BY <1>16 DEF FinishStep
<1>17. CASE EndSelection
  BY <1>17 DEF EndSelection, NeedsLookup
<1>18. CASE LookUp
  BY <1>18 DEF LookUp, Execute, Merge, FailWith
<1>19. CASE Evaluate
  BY <1>19 DEF Evaluate
<1>20. CASE Save
  BY <1>20 DEF Save
<1>21. CASE SaveRunTrace
  BY <1>21 DEF SaveRunTrace
<1>22. CASE RunTraceFails
  BY <1>22 DEF RunTraceFails, FailWith
<1>23. CASE FailureTrace
  BY <1>23 DEF FailureTrace
<1>24. CASE Extract
  BY <1>24 DEF Extract, Refresh
<1>25. CASE Select
  BY <1>25 DEF Select
<1>26. CASE SelectNothing
  BY <1>26 DEF SelectNothing
<1>27. CASE Respond
  BY <1>27 DEF Respond, Conclude
<1>28. CASE RespondFallback
  BY <1>28 DEF RespondFallback, Conclude
<1>29. CASE Break
  BY <1>29 DEF Break, Breaks, FailWith, StoredAfter
<1>30. CASE OtherRun
  BY <1>30 DEF OtherRun
<1>31. CASE DeadlinePasses
  BY <1>31 DEF DeadlinePasses
<1>32. CASE UNCHANGED vars
  BY <1>32 DEF vars
<1> QED
  BY <1>1, <1>2, <1>3, <1>4, <1>5, <1>6, <1>7, <1>8, <1>9, <1>10, <1>11, <1>12,
     <1>13, <1>14, <1>15, <1>16, <1>17, <1>18, <1>19, <1>20, <1>21, <1>22, <1>23, <1>24,
     <1>25, <1>26, <1>27, <1>28, <1>29, <1>30, <1>31, <1>32 DEF Next, Proceed

\* A diagnosis that is not kept comes with a failed call.
LEMMA KeptStep == Phases /\ Kept /\ [Next]_vars => Kept'
<1> SUFFICES ASSUME Phases, Kept, [Next]_vars PROVE Kept'
  OBVIOUS
<1> USE AgentAssumption DEF Phases, Kept, stateVars, budgetVars, callVars, endVars, traceVars
<1>1. CASE Start
  BY <1>1 DEF Start
<1>2. CASE Load
  BY <1>2 DEF Load
<1>3. CASE AnswerExpiredSwitch
  BY <1>3 DEF AnswerExpiredSwitch, Refresh, AskForInformation
<1>4. CASE AnswerPendingSwitch
  BY <1>4 DEF AnswerPendingSwitch, AskForInformation
<1>5. CASE DecideSwitch
  BY <1>5 DEF DecideSwitch
<1>6. CASE RefuseDecision
  BY <1>6 DEF RefuseDecision, FailWith
<1>7. CASE BeginExtraction
  BY <1>7 DEF BeginExtraction
<1>8. CASE Ask
  BY <1>8 DEF Ask, AskForInformation
<1>9. CASE AskForRange
  BY <1>9 DEF AskForRange, AskForInformation
<1>10. CASE BeginSearch
  BY <1>10 DEF BeginSearch
<1>11. CASE StopBeforeSelection
  BY <1>11 DEF StopBeforeSelection
<1>12. CASE BeginSelection
  BY <1>12 DEF BeginSelection
<1>13. CASE Search
  BY <1>13 DEF Search, Execute, Merge, AskForInformation, FailWith
<1>14. CASE Repair
  BY <1>14 DEF Repair
<1>15. CASE Answer
  BY <1>15 DEF Answer, Execute, Merge
<1>16. CASE FinishStep
  BY <1>16 DEF FinishStep, StopSelecting
<1>17. CASE EndSelection
  BY <1>17 DEF EndSelection, NeedsLookup
<1>18. CASE LookUp
  BY <1>18 DEF LookUp, Execute, Merge, FailWith
<1>19. CASE Evaluate
  BY <1>19 DEF Evaluate
<1>20. CASE Save
  BY <1>20 DEF Save
<1>21. CASE SaveRunTrace
  BY <1>21 DEF SaveRunTrace
<1>22. CASE RunTraceFails
  BY <1>22 DEF RunTraceFails, FailWith
<1>23. CASE FailureTrace
  BY <1>23 DEF FailureTrace
<1>24. CASE Extract
  BY <1>24 DEF Extract, Refresh
<1>25. CASE Select
  BY <1>25 DEF Select
<1>26. CASE SelectNothing
  BY <1>26 DEF SelectNothing
<1>27. CASE Respond
  BY <1>27 DEF Respond, Conclude
<1>28. CASE RespondFallback
  BY <1>28 DEF RespondFallback, Conclude
<1>29. CASE Break
  BY <1>29 DEF Break, Breaks, FailWith, StoredAfter
<1>30. CASE OtherRun
  BY <1>30 DEF OtherRun
<1>31. CASE DeadlinePasses
  BY <1>31 DEF DeadlinePasses
<1>32. CASE UNCHANGED vars
  BY <1>32 DEF vars
<1> QED
  BY <1>1, <1>2, <1>3, <1>4, <1>5, <1>6, <1>7, <1>8, <1>9, <1>10, <1>11, <1>12,
     <1>13, <1>14, <1>15, <1>16, <1>17, <1>18, <1>19, <1>20, <1>21, <1>22, <1>23, <1>24,
     <1>25, <1>26, <1>27, <1>28, <1>29, <1>30, <1>31, <1>32 DEF Next, Proceed

\* A failure is forgotten only by a success after it.
LEMMA RecoveryStep == Phases /\ Recovery /\ [Next]_vars => Recovery'
<1> SUFFICES ASSUME Phases, Recovery, [Next]_vars PROVE Recovery'
  OBVIOUS
<1> USE DEF Phases, Recovery, Recovered, stateVars, budgetVars, callVars, endVars, traceVars
<1>1. CASE Start
  BY <1>1 DEF Start
<1>2. CASE Load
  BY <1>2 DEF Load
<1>3. CASE AnswerExpiredSwitch
  BY <1>3 DEF AnswerExpiredSwitch, Refresh, AskForInformation
<1>4. CASE AnswerPendingSwitch
  BY <1>4 DEF AnswerPendingSwitch, AskForInformation
<1>5. CASE DecideSwitch
  BY <1>5 DEF DecideSwitch
<1>6. CASE RefuseDecision
  BY <1>6 DEF RefuseDecision, FailWith
<1>7. CASE BeginExtraction
  BY <1>7 DEF BeginExtraction
<1>8. CASE Ask
  BY <1>8 DEF Ask, AskForInformation
<1>9. CASE AskForRange
  BY <1>9 DEF AskForRange, AskForInformation
<1>10. CASE BeginSearch
  BY <1>10 DEF BeginSearch
<1>11. CASE StopBeforeSelection
  BY <1>11 DEF StopBeforeSelection
<1>12. CASE BeginSelection
  BY <1>12 DEF BeginSelection
<1>13. CASE Search
  <2>1. PICK outcome \in ToolOutcomes \cup {"unmergeable"} : Execute(outcome) /\ Merge(outcome)
    BY <1>13 DEF Search
  <2>2. calls' \in Seq(CallOutcomes) /\ (~lastToolFailed' => Recovered')
    BY <2>1, MergeRecovery DEF Recovery
  <2> QED
    BY <1>13, <2>2 DEF Search, AskForInformation, FailWith, Phases, Recovery
<1>14. CASE Repair
  <2>1. lastToolFailed' /\ pc' = "tools"
    BY <1>14 DEF Repair
  <2>2. calls' \in Seq(CallOutcomes)
    BY <1>14 DEF Repair, Recovery, CallOutcomes
  <2> QED
    BY <2>1, <2>2 DEF Recovery
<1>15. CASE Answer
  <2>1. PICK outcome \in ToolOutcomes \cup {"unmergeable"} : Execute(outcome) /\ Merge(outcome)
    BY <1>15 DEF Answer
  <2>2. calls' \in Seq(CallOutcomes) /\ (~lastToolFailed' => Recovered')
    BY <2>1, MergeRecovery DEF Recovery
  <2> QED
    BY <1>15, <2>2 DEF Answer, Phases, Recovery
<1>16. CASE FinishStep
  BY <1>16 DEF FinishStep
<1>17. CASE EndSelection
  BY <1>17 DEF EndSelection, NeedsLookup
<1>18. CASE LookUp
  <2>1. PICK outcome \in ToolOutcomes \cup {"unmergeable"} : Execute(outcome) /\ Merge(outcome)
    BY <1>18 DEF LookUp
  <2>2. calls' \in Seq(CallOutcomes) /\ (~lastToolFailed' => Recovered')
    BY <2>1, MergeRecovery DEF Recovery
  <2> QED
    BY <1>18, <2>2 DEF LookUp, FailWith, Phases, Recovery
<1>19. CASE Evaluate
  <2>1. pc' = "respond" /\ stopReason' = EvaluateStopRules /\ UNCHANGED <<calls, lastToolFailed>>
    BY <1>19 DEF Evaluate, callVars
  <2> QED
    BY <2>1, FailureStops DEF Recovery, Recovered
<1>20. CASE Save
  BY <1>20 DEF Save
<1>21. CASE SaveRunTrace
  BY <1>21 DEF SaveRunTrace
<1>22. CASE RunTraceFails
  BY <1>22 DEF RunTraceFails, FailWith
<1>23. CASE FailureTrace
  BY <1>23 DEF FailureTrace
<1>24. CASE Extract
  BY <1>24 DEF Extract, Refresh
<1>25. CASE Select
  BY <1>25 DEF Select
<1>26. CASE SelectNothing
  BY <1>26 DEF SelectNothing
<1>27. CASE Respond
  <2>1. pc' = "save" /\ stopReason' \in {"max_tokens", stopReason} /\ UNCHANGED <<steps, calls, lastToolFailed>>
    BY <1>27 DEF Respond, Conclude, callVars
  <2> QED
    BY <1>27, <2>1 DEF Respond, Recovery, Recovered, Honest
<1>28. CASE RespondFallback
  <2>1. pc' = "save" /\ stopReason' \in {"max_tokens", stopReason} /\ UNCHANGED <<steps, calls, lastToolFailed>>
    BY <1>28 DEF RespondFallback, Conclude, callVars
  <2> QED
    BY <1>28, <2>1 DEF RespondFallback, Recovery, Recovered, Honest
<1>29. CASE Break
  BY <1>29 DEF Break, Breaks, FailWith, StoredAfter
<1>30. CASE OtherRun
  BY <1>30 DEF OtherRun
<1>31. CASE DeadlinePasses
  BY <1>31 DEF DeadlinePasses
<1>32. CASE UNCHANGED vars
  BY <1>32 DEF vars
<1> QED
  BY <1>1, <1>2, <1>3, <1>4, <1>5, <1>6, <1>7, <1>8, <1>9, <1>10, <1>11, <1>12,
     <1>13, <1>14, <1>15, <1>16, <1>17, <1>18, <1>19, <1>20, <1>21, <1>22, <1>23, <1>24,
     <1>25, <1>26, <1>27, <1>28, <1>29, <1>30, <1>31, <1>32 DEF Next, Proceed

\* What is saved in the store of traces stays for as long as there is room.
LEMMA StoredStep == Stored /\ [Next]_vars => Stored'
<1> SUFFICES ASSUME Stored, [Next]_vars PROVE Stored'
  OBVIOUS
<1> USE DEF Stored, IsSequence, stateVars, budgetVars, callVars, endVars, traceVars
<1>1. CASE Start
  BY <1>1 DEF Start
<1>2. CASE Load
  BY <1>2 DEF Load
<1>3. CASE AnswerExpiredSwitch
  BY <1>3 DEF AnswerExpiredSwitch, Refresh, AskForInformation
<1>4. CASE AnswerPendingSwitch
  BY <1>4 DEF AnswerPendingSwitch, AskForInformation
<1>5. CASE DecideSwitch
  BY <1>5 DEF DecideSwitch
<1>6. CASE RefuseDecision
  BY <1>6 DEF RefuseDecision, FailWith
<1>7. CASE BeginExtraction
  BY <1>7 DEF BeginExtraction
<1>8. CASE Ask
  BY <1>8 DEF Ask, AskForInformation
<1>9. CASE AskForRange
  BY <1>9 DEF AskForRange, AskForInformation
<1>10. CASE BeginSearch
  BY <1>10 DEF BeginSearch
<1>11. CASE StopBeforeSelection
  BY <1>11 DEF StopBeforeSelection
<1>12. CASE BeginSelection
  BY <1>12 DEF BeginSelection
<1>13. CASE Search
  BY <1>13 DEF Search, Execute, Merge, AskForInformation, FailWith
<1>14. CASE Repair
  BY <1>14 DEF Repair
<1>15. CASE Answer
  BY <1>15 DEF Answer, Execute, Merge
<1>16. CASE FinishStep
  BY <1>16 DEF FinishStep
<1>17. CASE EndSelection
  BY <1>17 DEF EndSelection, NeedsLookup
<1>18. CASE LookUp
  BY <1>18 DEF LookUp, Execute, Merge, FailWith
<1>19. CASE Evaluate
  BY <1>19 DEF Evaluate
<1>20. CASE Save
  BY <1>20 DEF Save
<1>21. CASE SaveRunTrace
  <2>1. pc = "trace" /\ pc' = "answered" /\ UNCHANGED <<status, stopReason, later>>
    BY <1>21 DEF SaveRunTrace, stateVars, endVars
  <2>2. PICK t : /\ store' = SaveTrace(store, t) /\ t.run = ThisRun
                 /\ t.status = status /\ t.stopReason = stopReason
    BY <1>21 DEF SaveRunTrace, Finish
  <2>3. later = 0 /\ IsSequence /\ StoredTraces(store, ThisRun) = {}
    BY <2>1 DEF Stored, StoredTraces
  <2>4. IsSequence' /\ store'[Len(store')] = t /\ Len(store') \in Nat \ {0}
    <3>1. \E T : store' \in Seq(T)
      <4> HIDE DEF Stored
      <4> QED
        BY <2>2, <2>3, SaveTracePlaces
    <3>2. IsSequence' /\ Len(store') \in Nat
      BY <3>1
    <3> HIDE DEF Stored, IsSequence
    <3>3. store'[Len(store')] = t /\ Len(store') > 0
      BY <2>2, <2>3, SaveTracePlaces
    <3> QED
      BY <3>2, <3>3
  <2>5. \E i \in 1..Len(store') :
           /\ i >= Len(store') - later' /\ store'[i].run = ThisRun
           /\ store'[i].status = status' /\ store'[i].stopReason = stopReason'
    <3> HIDE DEF Stored, IsSequence
    <3>1. Len(store') \in 1..Len(store') /\ Len(store') >= Len(store') - later'
      BY <2>1, <2>3, <2>4
    <3> QED
      BY <2>1, <2>2, <2>4, <3>1
  <2> QED
    BY <2>1, <2>3, <2>4, <2>5
<1>22. CASE RunTraceFails
  BY <1>22 DEF RunTraceFails, FailWith
<1>23. CASE FailureTrace
  <2>1. pc = "failing" /\ pc' = "failed" /\ UNCHANGED later
    BY <1>23 DEF FailureTrace
  <2>2. later = 0 /\ IsSequence /\ StoredTraces(store, ThisRun) = {}
    BY <2>1 DEF Stored, StoredTraces
  <2>3. CASE store' = store
    BY <2>1, <2>2, <2>3 DEF Stored, IsSequence
  <2>4. CASE store' # store
    <3>1. PICK t : store' = SaveTrace(store, t) /\ t.run = ThisRun /\ t.status = "failed"
      BY <1>23, <2>4 DEF FailureTrace, Finish
    <3>2. IsSequence' /\ \A i \in 1..Len(store') : store'[i] = t \/ \E j \in 1..Len(store) : store'[i] = store[j]
      BY <2>2, <3>1, SaveTracePlaces DEF IsSequence
    <3> QED
      BY <2>1, <2>2, <3>1, <3>2 DEF Stored
  <2> QED
    BY <2>3, <2>4
<1>24. CASE Extract
  BY <1>24 DEF Extract, Refresh
<1>25. CASE Select
  BY <1>25 DEF Select
<1>26. CASE SelectNothing
  BY <1>26 DEF SelectNothing
<1>27. CASE Respond
  BY <1>27 DEF Respond, Conclude
<1>28. CASE RespondFallback
  BY <1>28 DEF RespondFallback, Conclude
<1>29. CASE Break
  BY <1>29 DEF Break, Breaks, FailWith, StoredAfter
<1>30. CASE OtherRun
  <2>1. pc \in {"answered", "failed"} /\ later' = later + 1 /\ UNCHANGED <<pc, status, stopReason>>
    BY <1>30 DEF OtherRun, endVars
  <2>2. PICK t : store' = SaveTrace(store, t) /\ t.run = later + 1
    BY <1>30 DEF OtherRun, Finish
  <2>3. IsSequence /\ later \in Nat /\ t.run # ThisRun
    BY <2>2 DEF Stored, ThisRun
  <2>4. IsSequence'
    BY <2>2, <2>3, SaveTracePlaces DEF IsSequence
  <2>5. ASSUME pc = "failed", NEW i \in 1..Len(store'), store'[i].run = ThisRun
        PROVE  store'[i].status = "failed"
    <3>1. \E j \in 1..Len(store) : store'[i] = store[j]
      BY <2>2, <2>3, <2>5, SaveTracePlaces DEF IsSequence
    <3> QED
      BY <2>5, <3>1 DEF Stored
  <2>6. ASSUME pc = "answered", later + 1 < MaxTraces
        PROVE  \E i \in 1..Len(store') :
                   /\ i >= Len(store') - (later + 1) /\ store'[i].run = ThisRun
                   /\ store'[i].status = status /\ store'[i].stopReason = stopReason
    <3>1. PICK i \in 1..Len(store) :
              /\ i >= Len(store) - later /\ store[i].run = ThisRun
              /\ store[i].status = status /\ store[i].stopReason = stopReason
      BY <2>3, <2>6, TraceAssumption DEF Stored
    <3>2. Len(store) \in Nat
      BY <2>3 DEF IsSequence
    <3>3. CASE Len(store') = Len(store) /\ store'[i] = store[i]
      BY <2>3, <3>1, <3>2, <3>3
    <3>4. CASE Len(store') = Len(store) + 1 /\ store'[i] = store[i]
      BY <2>3, <3>1, <3>2, <3>4
    <3>5. CASE Len(store') = Len(store) /\ Len(store) >= MaxTraces
               /\ \A j \in 2..Len(store) : store'[j - 1] = store[j]
      <4>1. i - 1 \in 1..Len(store') /\ store'[i - 1] = store[i]
        BY <2>3, <2>6, <3>1, <3>2, <3>5, TraceAssumption
      <4> QED
        BY <2>3, <3>1, <3>2, <3>5, <4>1
    <3> QED
      BY <2>2, <2>3, <3>1, <3>3, <3>4, <3>5, SaveTracePlaces
  <2> QED
    BY <2>1, <2>3, <2>4, <2>5, <2>6 DEF Stored
<1>31. CASE DeadlinePasses
  BY <1>31 DEF DeadlinePasses
<1>32. CASE UNCHANGED vars
  BY <1>32 DEF vars
<1> QED
  BY <1>1, <1>2, <1>3, <1>4, <1>5, <1>6, <1>7, <1>8, <1>9, <1>10, <1>11, <1>12,
     <1>13, <1>14, <1>15, <1>16, <1>17, <1>18, <1>19, <1>20, <1>21, <1>22, <1>23, <1>24,
     <1>25, <1>26, <1>27, <1>28, <1>29, <1>30, <1>31, <1>32 DEF Next, Proceed

-----------------------------------------------------------------------------
(* Induction, and what StepsOf picks.                                      *)

\* A set of naturals that is not empty has a least element.
LEMMA Least ==
    ASSUME NEW T \in SUBSET Nat, T # {}
    PROVE  \E n \in T : \A m \in T : n <= m
<1>1. PICK n \in T : \A m \in T : ~(<<m, n>> \in OpToRel(<, Nat))
  BY NatLessThanWellFounded, WFMin
<1>2. \A m \in T : ~(m < n)
  BY <1>1 DEF OpToRel
<1> QED
  BY <1>2

\* Induction, over a set of naturals.
LEMMA Induction ==
    ASSUME NEW T, 0 \in T, \A n \in Nat : n \in T => n + 1 \in T
    PROVE  Nat \subseteq T
<1>1. SUFFICES ASSUME Nat \ T # {}
               PROVE  FALSE
  OBVIOUS
<1>2. PICK n \in Nat \ T : \A m \in Nat \ T : n <= m
  BY <1>1, Least
<1> QED
  BY <1>2

\* p[n] is what StepsOf picks of the first n steps.
Picks(p, n, list, types) ==
    /\ p[0] = <<>>
    /\ \A i \in 1..n : p[i] = IF list[i].type \in types
                              THEN Append(p[i - 1], list[i]) ELSE p[i - 1]

\* The equation that defines them has a solution...
LEMMA PicksExist ==
    ASSUME NEW S, NEW list \in Seq(S), NEW types
    PROVE  \E p \in [0..Len(list) -> Seq(S)] : Picks(p, Len(list), list, types)
<1> DEFINE T == {k \in Nat : k <= Len(list) =>
                    \E p \in [0..k -> Seq(S)] : Picks(p, k, list, types)}
<1>0. Len(list) \in Nat /\ \A i \in 1..Len(list) : list[i] \in S
  OBVIOUS
<1>1. 0 \in T
  <2>1. [i \in 0..0 |-> <<>>] \in [0..0 -> Seq(S)] /\ Picks([i \in 0..0 |-> <<>>], 0, list, types)
    BY DEF Picks
  <2> QED
    BY <2>1
<1>2. ASSUME NEW k \in Nat, k \in T
      PROVE  k + 1 \in T
  <2>1. SUFFICES ASSUME k + 1 <= Len(list)
                 PROVE  \E p \in [0..(k + 1) -> Seq(S)] : Picks(p, k + 1, list, types)
    OBVIOUS
  <2>2. PICK p \in [0..k -> Seq(S)] : Picks(p, k, list, types)
    BY <1>0, <1>2, <2>1
  <2> DEFINE more == IF list[k + 1].type \in types THEN Append(p[k], list[k + 1]) ELSE p[k]
             q == [i \in 0..(k + 1) |-> IF i = k + 1 THEN more ELSE p[i]]
  <2>3. more \in Seq(S)
    <3>1. p[k] \in Seq(S) /\ list[k + 1] \in S
      BY <1>0, <2>1, <2>2
    <3> QED
      BY <3>1
  <2> HIDE DEF more
  <2>4. q \in [0..(k + 1) -> Seq(S)]
    BY <2>2, <2>3
  <2>5. q[0] = <<>>
    BY <2>2 DEF Picks
  <2>6. ASSUME NEW i \in 1..(k + 1)
        PROVE  q[i] = IF list[i].type \in types THEN Append(q[i - 1], list[i]) ELSE q[i - 1]
    <3>1. CASE i = k + 1
      BY <3>1 DEF more
    <3>2. CASE i # k + 1
      <4>1. i \in 1..k /\ i - 1 \in 0..k
        BY <3>2
      <4>2. q[i] = p[i] /\ q[i - 1] = p[i - 1]
        BY <4>1
      <4> QED
        BY <4>1, <4>2, <2>2 DEF Picks
    <3> QED
      BY <3>1, <3>2
  <2> QED
    BY <2>4, <2>5, <2>6 DEF Picks
<1>3. Nat \subseteq T
  <2> HIDE DEF T
  <2> QED
    BY <1>1, <1>2, Induction
<1> QED
  BY <1>0, <1>3

\* ...and only one.
LEMMA PicksUnique ==
    ASSUME NEW p, NEW q, NEW list, NEW types, NEW n \in Nat,
           Picks(p, n, list, types), Picks(q, n, list, types)
    PROVE  p[n] = q[n]
<1> DEFINE T == {k \in Nat : k <= n => p[k] = q[k]}
<1>1. 0 \in T
  BY DEF Picks
<1>2. ASSUME NEW k \in Nat, k \in T
      PROVE  k + 1 \in T
  <2>1. SUFFICES ASSUME k + 1 <= n PROVE p[k + 1] = q[k + 1]
    OBVIOUS
  <2>2. p[k] = q[k] /\ k + 1 \in 1..n /\ (k + 1) - 1 = k
    BY <1>2, <2>1
  <2> QED
    BY <2>2 DEF Picks
<1>3. Nat \subseteq T
  <2> HIDE DEF T
  <2> QED
    BY <1>1, <1>2, Induction
<1> QED
  BY <1>3

\* What StepsOf yields is the last pick.
LEMMA StepsArePicked ==
    ASSUME NEW S, NEW list \in Seq(S), NEW types
    PROVE  \E p \in [0..Len(list) -> Seq(S)] :
               Picks(p, Len(list), list, types) /\ StepsOf(list, types) = p[Len(list)]
<1> DEFINE L == Len(list)
           Eq(p) == [n \in 0..L |-> IF n = 0 THEN <<>>
                                     ELSE IF list[n].type \in types
                                     THEN Append(p[n - 1], list[n]) ELSE p[n - 1]]
           picked == CHOOSE p : p = Eq(p)
<1>1. PICK p \in [0..L -> Seq(S)] : Picks(p, L, list, types)
  BY PicksExist
<1>2. p = Eq(p)
  <2>1. L \in Nat
    OBVIOUS
  <2>2. ASSUME NEW n \in 0..L
        PROVE  p[n] = IF n = 0 THEN <<>>
                      ELSE IF list[n].type \in types
                      THEN Append(p[n - 1], list[n]) ELSE p[n - 1]
    <3>1. n = 0 \/ n \in 1..L
      BY <2>1
    <3> QED
      BY <3>1, <1>1 DEF Picks
  <2>3. p = [n \in 0..L |-> p[n]]
    BY <1>1
  <2> QED
    BY <2>2, <2>3
<1>3. picked = Eq(picked)
  BY <1>2
<1>4. StepsOf(list, types) = picked[L]
  BY DEF StepsOf
<1> HIDE DEF picked
<1>5. L \in Nat
  OBVIOUS
<1>6. Picks(picked, L, list, types)
  <2>1. \A n \in 0..L : picked[n] = Eq(picked)[n]
    BY <1>3
  <2>2. \A n \in 1..L : n \in 0..L /\ n # 0
    BY <1>5
  <2>3. 0 \in 0..L
    BY <1>5
  <2> HIDE DEF L
  <2> QED
    BY <2>1, <2>2, <2>3 DEF Picks
<1>7. picked[L] = p[L]
  BY <1>1, <1>5, <1>6, PicksUnique
<1> QED
  BY <1>1, <1>4, <1>7

\* One step more.
LEMMA StepsOfAppend ==
    ASSUME NEW S, NEW list \in Seq(S), NEW x \in S, NEW types
    PROVE  /\ StepsOf(list, types) \in Seq(S)
           /\ StepsOf(Append(list, x), types) =
                IF x.type \in types THEN Append(StepsOf(list, types), x)
                                    ELSE StepsOf(list, types)
<1> DEFINE more == Append(list, x)
           n == Len(list)
<1>1. /\ n \in Nat /\ more \in Seq(S) /\ Len(more) = n + 1 /\ more[n + 1] = x
      /\ \A i \in 1..n : more[i] = list[i]
  OBVIOUS
<1>2. PICK p \in [0..n -> Seq(S)] :
         Picks(p, n, list, types) /\ StepsOf(list, types) = p[n]
  BY StepsArePicked
<1>3. PICK q \in [0..(n + 1) -> Seq(S)] :
         Picks(q, n + 1, more, types) /\ StepsOf(more, types) = q[n + 1]
  <2>1. \E q \in [0..Len(more) -> Seq(S)] :
           Picks(q, Len(more), more, types) /\ StepsOf(more, types) = q[Len(more)]
    BY <1>1, StepsArePicked
  <2> QED
    BY <1>1, <2>1
<1> HIDE DEF more, n
<1>4. Picks(q, n, list, types)
  <2>1. \A i \in 1..n : i \in 1..(n + 1) /\ more[i] = list[i]
    BY <1>1
  <2>2. q[0] = <<>>
    BY <1>3 DEF Picks
  <2>3. \A i \in 1..n : q[i] = IF more[i].type \in types
                              THEN Append(q[i - 1], more[i]) ELSE q[i - 1]
    BY <1>3, <2>1 DEF Picks
  <2> QED
    BY <2>1, <2>2, <2>3 DEF Picks
<1>5. q[n] = p[n]
  BY <1>1, <1>2, <1>4, PicksUnique
<1>6. q[n + 1] = IF x.type \in types THEN Append(q[n], x) ELSE q[n]
  <2>1. n + 1 \in 1..(n + 1) /\ (n + 1) - 1 = n /\ more[n + 1] = x
    BY <1>1
  <2>2. q[n + 1] = IF more[n + 1].type \in types
                   THEN Append(q[(n + 1) - 1], more[n + 1]) ELSE q[(n + 1) - 1]
    BY <1>3, <2>1 DEF Picks
  <2> QED
    BY <2>1, <2>2
<1>7. StepsOf(more, types) = IF x.type \in types THEN Append(StepsOf(list, types), x)
                             ELSE StepsOf(list, types)
  BY <1>2, <1>3, <1>5, <1>6
<1>8. StepsOf(list, types) \in Seq(S)
  BY <1>1, <1>2
<1> QED
  BY <1>7, <1>8 DEF more

\* Of no steps, none.
LEMMA StepsOfNothing ==
    ASSUME NEW types
    PROVE  StepsOf(<<>>, types) = <<>>
<1>1. <<>> \in Seq({}) /\ Len(<<>>) = 0
  OBVIOUS
<1>2. \E p \in [0..Len(<<>>) -> Seq({})] :
         Picks(p, Len(<<>>), <<>>, types) /\ StepsOf(<<>>, types) = p[Len(<<>>)]
  BY <1>1, StepsArePicked
<1> QED
  BY <1>1, <1>2 DEF Picks

\* Nothing of these types is left out, and nothing else is taken.
LEMMA StepsOfMembers ==
    ASSUME NEW S, NEW list \in Seq(S), NEW types, NEW x
    PROVE  (\E i \in 1..Len(StepsOf(list, types)) : StepsOf(list, types)[i] = x)
           <=> x.type \in types /\ \E i \in 1..Len(list) : list[i] = x
<1> DEFINE n == Len(list)
           In(s) == \E i \in 1..Len(s) : s[i] = x
<1>1. PICK p \in [0..n -> Seq(S)] :
         Picks(p, n, list, types) /\ StepsOf(list, types) = p[n]
  BY StepsArePicked
<1> DEFINE T == {k \in Nat : k <= n =>
                   (In(p[k]) <=> x.type \in types /\ \E i \in 1..k : list[i] = x)}
<1>2. n \in Nat /\ \A i \in 1..n : list[i] \in S
  OBVIOUS
<1>3. 0 \in T
  BY <1>1 DEF Picks
<1>4. ASSUME NEW k \in Nat, k \in T
      PROVE  k + 1 \in T
  <2>1. SUFFICES ASSUME k + 1 <= n
                 PROVE  In(p[k + 1]) <=> x.type \in types /\ \E i \in 1..(k + 1) : list[i] = x
    OBVIOUS
  <2>2. In(p[k]) <=> x.type \in types /\ \E i \in 1..k : list[i] = x
    BY <1>2, <1>4, <2>1
  <2>3. p[k] \in Seq(S) /\ k + 1 \in 1..n /\ (k + 1) - 1 = k
    BY <1>1, <1>2, <2>1
  <2>4. p[k + 1] = IF list[k + 1].type \in types THEN Append(p[k], list[k + 1]) ELSE p[k]
    BY <1>1, <2>3 DEF Picks
  <2>5. In(Append(p[k], list[k + 1])) <=> In(p[k]) \/ list[k + 1] = x
    <3>1. /\ Len(p[k]) \in Nat /\ Len(Append(p[k], list[k + 1])) = Len(p[k]) + 1
          /\ Append(p[k], list[k + 1])[Len(p[k]) + 1] = list[k + 1]
          /\ \A i \in 1..Len(p[k]) : Append(p[k], list[k + 1])[i] = p[k][i]
      BY <2>3
    <3> QED
      BY <3>1
  <2>6. (\E i \in 1..(k + 1) : list[i] = x) <=> (\E i \in 1..k : list[i] = x) \/ list[k + 1] = x
    OBVIOUS
  <2> HIDE DEF In
  <2> QED
    BY <2>2, <2>4, <2>5, <2>6
<1>5. Nat \subseteq T
  <2> HIDE DEF T
  <2> QED
    BY <1>3, <1>4, Induction
<1> QED
  BY <1>1, <1>2, <1>5

\* A step that is picked is one of the steps...
LEMMA PickedAreSteps ==
    ASSUME NEW S, NEW list \in Seq(S), NEW types, NEW i \in 1..Len(StepsOf(list, types))
    PROVE  \E j \in 1..Len(list) : list[j] = StepsOf(list, types)[i]
<1> DEFINE x == StepsOf(list, types)[i]
<1>1. \E k \in 1..Len(StepsOf(list, types)) : StepsOf(list, types)[k] = x
  OBVIOUS
<1> HIDE DEF x
<1>2. (\E k \in 1..Len(StepsOf(list, types)) : StepsOf(list, types)[k] = x)
      <=> x.type \in types /\ \E j \in 1..Len(list) : list[j] = x
  BY StepsOfMembers
<1> QED
  BY <1>1, <1>2 DEF x

\* ...and a step of these types is picked.
LEMMA StepsArePicks ==
    ASSUME NEW S, NEW list \in Seq(S), NEW types, NEW j \in 1..Len(list),
           list[j].type \in types
    PROVE  \E i \in 1..Len(StepsOf(list, types)) : StepsOf(list, types)[i] = list[j]
<1> DEFINE x == list[j]
<1>1. x.type \in types /\ \E k \in 1..Len(list) : list[k] = x
  OBVIOUS
<1> HIDE DEF x
<1>2. \E i \in 1..Len(StepsOf(list, types)) : StepsOf(list, types)[i] = x
  BY <1>1, StepsOfMembers
<1> QED
  BY <1>2 DEF x

-----------------------------------------------------------------------------
(* The recorder and the traces of the tool context.                        *)

\* The steps that come from the tool context.
Audited == {"tool", "security"}

Collected == {step \in TraceStep : step.type \in Audited}

\* What the recorder has of the traces of the tool context: all of them, or
\* the first ones once it is full.
Synced ==
    /\ traces \in Seq(Collected)
    /\ recorder \in [steps : Seq(TraceStep), synced : Nat]
    /\ recorder.synced = Len(traces)
    /\ Len(recorder.steps) <= MaxTraceSteps
    /\ Len(recorder.steps) < MaxTraceSteps => StepsOf(recorder.steps, Audited) = traces
    /\ \E n \in 0..Len(traces) : StepsOf(recorder.steps, Audited) = SubSeq(traces, 1, n)

\* A part of a sequence that has one element.
LEMMA OneElement ==
    ASSUME NEW S, NEW s \in Seq(S), NEW i \in 1..Len(s)
    PROVE  SubSeq(s, i, i) = <<s[i]>>
<1>1. Len(s) \in Nat /\ i \in Int /\ s[i] \in S /\ \A j \in i..i : s[j] \in S
  OBVIOUS
<1>2. /\ SubSeq(s, i, i) \in Seq(S) /\ Len(SubSeq(s, i, i)) = 1
      /\ SubSeq(s, i, i)[1] = s[i]
  <2>1. /\ SubSeq(s, i, i) \in Seq(S)
        /\ Len(SubSeq(s, i, i)) = IF i <= i THEN i - i + 1 ELSE 0
        /\ \A j \in 1 .. i - i + 1 : SubSeq(s, i, i)[j] = s[i + j - 1]
    BY <1>1, SubSeqProperties
  <2>2. i - i + 1 = 1 /\ i <= i /\ i + 1 - 1 = i
    BY <1>1
  <2> QED
    BY <2>1, <2>2
<1>3. <<s[i]>> \in Seq(S) /\ Len(<<s[i]>>) = 1 /\ <<s[i]>>[1] = s[i]
  BY <1>1
<1>4. \A j \in 1..Len(SubSeq(s, i, i)) : SubSeq(s, i, i)[j] = <<s[i]>>[j]
  BY <1>2, <1>3
<1> DEFINE a == SubSeq(s, i, i)
           b == <<s[i]>>
<1>5. a \in Seq(S) /\ b \in Seq(S) /\ Len(a) = Len(b) /\ \A j \in 1..Len(a) : a[j] = b[j]
  BY <1>2, <1>3, <1>4
<1> HIDE DEF a, b
<1>6. a = b
  BY <1>5, SeqEqual
<1> QED
  BY <1>6 DEF a, b

\* addStep, for one step: kept if there is room.
LEMMA AddOneStep ==
    ASSUME NEW list \in Seq(TraceStep), Len(list) <= MaxTraceSteps, NEW x \in TraceStep
    PROVE  AddSteps(list, <<x>>) = IF Len(list) < MaxTraceSteps
                                     THEN Append(list, x) ELSE list
<1> DEFINE room == MaxTraceSteps - Len(list)
<1>1. room \in Nat /\ MaxTraceSteps \in Nat /\ Len(list) \in Nat
  BY TraceAssumption
<1>2. AddSteps(list, <<x>>) =
         list \o SubSeq(<<x>>, 1, IF 1 < room THEN 1 ELSE room)
  BY DEF AddSteps
<1>3. CASE room > 0
  <2>1. (IF 1 < room THEN 1 ELSE room) = 1
    BY <1>1, <1>3
  <2>2. SubSeq(<<x>>, 1, 1) = <<x>>
    <3>1. <<x>> \in Seq(TraceStep) /\ 1 \in 1..Len(<<x>>) /\ <<x>>[1] = x
      OBVIOUS
    <3> QED
      BY <3>1, OneElement
  <2>3. list \o <<x>> = Append(list, x)
    OBVIOUS
  <2>4. Len(list) < MaxTraceSteps
    BY <1>1, <1>3
  <2> HIDE DEF room
  <2> QED
    BY <1>2, <2>1, <2>2, <2>3, <2>4
<1>4. CASE room = 0
  <2>1. (IF 1 < room THEN 1 ELSE room) = 0
    BY <1>4
  <2>2. SubSeq(<<x>>, 1, 0) = <<>>
    OBVIOUS
  <2>3. list \o <<>> = list
    OBVIOUS
  <2>4. ~(Len(list) < MaxTraceSteps)
    BY <1>1, <1>4
  <2> HIDE DEF room
  <2> QED
    BY <1>2, <2>1, <2>2, <2>3, <2>4
<1> QED
  BY <1>1, <1>3, <1>4

\* A call leaves its trace in the context, and in the recorder with room.
LEMMA OneCollected ==
    ASSUME Synced, NEW x \in Collected, traces' = Append(traces, x),
           recorder' = SyncToolTraces(recorder, traces')
    PROVE  Synced'
<1> DEFINE old == recorder.steps
           new == recorder'.steps
<1>1. /\ traces \in Seq(Collected) /\ Len(traces) \in Nat
      /\ old \in Seq(TraceStep) /\ Len(old) \in Nat /\ Len(old) <= MaxTraceSteps
      /\ recorder.synced = Len(traces) /\ x \in TraceStep /\ x.type \in Audited
      /\ MaxTraceSteps \in Nat
  BY TraceAssumption DEF Synced, Collected
<1>2. traces' \in Seq(Collected) /\ Len(traces') = Len(traces) + 1
  BY <1>1
<1>3. SubSeq(traces', Len(traces) + 1, Len(traces')) = <<x>>
  <2>1. traces'[Len(traces) + 1] = x /\ Len(traces) + 1 \in 1..Len(traces')
    BY <1>1, <1>2
  <2> QED
    BY <1>2, <2>1, OneElement
<1>4. recorder' = [steps |-> AddSteps(old, <<x>>), synced |-> Len(traces')]
  BY <1>1, <1>3 DEF SyncToolTraces
<1>5. new = IF Len(old) < MaxTraceSteps THEN Append(old, x) ELSE old
  <2>1. new = AddSteps(old, <<x>>)
    BY <1>4
  <2> QED
    BY <1>1, <2>1, AddOneStep
<1>6. recorder' \in [steps : Seq(TraceStep), synced : Nat] /\ recorder'.synced = Len(traces')
      /\ Len(new) <= MaxTraceSteps
  <2>1. Append(old, x) \in Seq(TraceStep) /\ Len(Append(old, x)) = Len(old) + 1
    BY <1>1
  <2>2. new \in Seq(TraceStep)
    BY <1>1, <1>5, <2>1
  <2>3. Len(new) <= MaxTraceSteps
    BY <1>1, <1>5, <2>1
  <2> QED
    BY <1>1, <1>2, <1>4, <2>2, <2>3
<1> HIDE DEF old, new
<1>7. CASE Len(old) < MaxTraceSteps
  <2>1. new = Append(old, x)
    BY <1>5, <1>7
  <2>2. StepsOf(old, Audited) = traces
    BY <1>7 DEF Synced, old
  <2>3. StepsOf(new, Audited) = traces'
    BY <1>1, <2>1, <2>2, StepsOfAppend
  <2>4. SubSeq(traces', 1, Len(traces')) = traces' /\ Len(traces') \in 0..Len(traces')
    BY <1>1, <1>2
  <2> QED
    BY <1>2, <1>6, <2>3, <2>4 DEF Synced, new
<1>8. CASE ~(Len(old) < MaxTraceSteps)
  <2>1. new = old
    BY <1>5, <1>8
  <2>2. PICK n \in 0..Len(traces) : StepsOf(old, Audited) = SubSeq(traces, 1, n)
    BY DEF Synced, old
  <2>3. SubSeq(traces', 1, n) = SubSeq(traces, 1, n) /\ n \in 0..Len(traces')
    BY <1>1, <1>2
  <2> QED
    BY <1>2, <1>6, <1>8, <2>1, <2>2, <2>3 DEF Synced, new
<1> QED
  BY <1>7, <1>8

\* A step of the agent takes room and disturbs no trace.
LEMMA OneRecorded ==
    ASSUME Synced, NEW a \in AgentActions, NEW o \in {"success", "error"},
           recorder' = RecordAgent(recorder, a, o), UNCHANGED traces
    PROVE  /\ Synced'
           /\ Len(recorder'.steps) < MaxTraceSteps =>
                  recorder'.steps[Len(recorder'.steps)] = AgentStep(a, o)
<1> DEFINE old == recorder.steps
           new == recorder'.steps
           x == AgentStep(a, o)
<1>1. /\ old \in Seq(TraceStep) /\ Len(old) \in Nat /\ Len(old) <= MaxTraceSteps
      /\ MaxTraceSteps \in Nat
  BY TraceAssumption DEF Synced
<1>2. x \in TraceStep /\ x.type \notin Audited
  BY DEF AgentStep, TraceStep, Audited
<1>3. recorder' = [recorder EXCEPT !.steps = AddSteps(old, <<x>>)]
  BY DEF RecordAgent
<1> HIDE DEF x
<1>4. new = IF Len(old) < MaxTraceSteps THEN Append(old, x) ELSE old
  <2>1. new = AddSteps(old, <<x>>)
    BY <1>3 DEF Synced
  <2> QED
    BY <1>1, <1>2, <2>1, AddOneStep
<1>5. /\ recorder' \in [steps : Seq(TraceStep), synced : Nat]
      /\ recorder'.synced = Len(traces) /\ Len(new) <= MaxTraceSteps
  <2>1. Append(old, x) \in Seq(TraceStep) /\ Len(Append(old, x)) = Len(old) + 1
    BY <1>1, <1>2
  <2>2. new \in Seq(TraceStep)
    BY <1>1, <1>4, <2>1
  <2>3. Len(new) <= MaxTraceSteps
    BY <1>1, <1>4, <2>1
  <2>4. recorder' = [recorder EXCEPT !.steps = new]
    BY <1>3 DEF Synced
  <2> HIDE DEF new
  <2> QED
    BY <2>2, <2>3, <2>4 DEF Synced
<1> HIDE DEF old, new
<1>6. CASE Len(old) < MaxTraceSteps
  <2>1. new = Append(old, x)
    BY <1>4, <1>6
  <2>2. StepsOf(new, Audited) = StepsOf(old, Audited)
    BY <1>1, <1>2, <2>1, StepsOfAppend
  <2>3. new[Len(new)] = x
    BY <1>1, <1>2, <2>1
  <2> QED
    BY <1>5, <1>6, <2>2, <2>3 DEF Synced, new, old, x
<1>7. CASE ~(Len(old) < MaxTraceSteps)
  <2>1. new = old
    BY <1>4, <1>7
  <2> QED
    BY <1>5, <1>7, <2>1 DEF Synced, new, old
<1> QED
  BY <1>6, <1>7

-----------------------------------------------------------------------------
(* What the traces say of a failed tool.                                   *)

\* Some call of the run has failed.
FailedCall == \E i \in 1..Len(traces) : traces[i].type = "tool" /\ ReasonOf(traces[i]) = "stop"

\* What the answer of a run says of a failed tool is in its traces.
FailureTraced ==
    /\ lastToolFailed => FailedCall
    /\ stopReason = "tool_error" => FailedCall

\* Before the start nothing is traced.
NothingYet == pc = "start" => traces = <<>> /\ ~lastToolFailed /\ stopReason = "none"

\* Some rule always applies; one of the nine is what EvaluateStopRules says.
LEMMA OneRule ==
    \E i \in 1..9 : StopRules[i][1] /\ EvaluateStopRules = StopRules[i][2]
<1> DEFINE R == StopRules
           First(i) == R[i][1] /\ \A j \in 1..(i - 1) : ~R[j][1]
           first == CHOOSE i \in 1..Len(R) : First(i)
           T == {i \in 1..9 : R[i][1]}
<1>1. Len(R) = 9 /\ R[9][1] = TRUE
  BY DEF StopRules
<1>2. EvaluateStopRules = R[first][2]
  BY DEF EvaluateStopRules, R
<1> HIDE DEF R
<1>3. T \in SUBSET Nat /\ 9 \in T
  BY <1>1
<1>4. PICK n \in T : \A m \in T : n <= m
  <2> HIDE DEF T
  <2> QED
    BY <1>3, Least
<1>5. n \in 1..9 /\ First(n)
  BY <1>4
<1>6. first \in 1..9 /\ First(first)
  BY <1>1, <1>5
<1> HIDE DEF first
<1> QED
  BY <1>2, <1>6 DEF R

\* The rule that a stop for a failed tool comes from.
LEMMA ToolErrorMeansFailure == EvaluateStopRules = "tool_error" => lastToolFailed
<1>1. PICK i \in 1..9 : StopRules[i][1] /\ EvaluateStopRules = StopRules[i][2]
  BY OneRule
<1>2. i = 1 \/ i = 2 \/ i = 3 \/ i = 4 \/ i = 5 \/ i = 6 \/ i = 7 \/ i = 8 \/ i = 9
  OBVIOUS
<1>3. StopRules[5][1] = lastToolFailed
  BY DEF StopRules
<1>4. \A j \in 1..9 : j # 5 => StopRules[j][2] # "tool_error"
  BY DEF StopRules
<1> QED
  BY <1>1, <1>2, <1>3, <1>4

\* What a stop rule may say.
LEMMA StopRulesType == EvaluateStopRules \in StopReasons \cup {"none"}
<1>1. PICK i \in 1..9 : EvaluateStopRules = StopRules[i][2]
  BY OneRule
<1>2. i = 1 \/ i = 2 \/ i = 3 \/ i = 4 \/ i = 5 \/ i = 6 \/ i = 7 \/ i = 8 \/ i = 9
  OBVIOUS
<1>3. \A j \in 1..9 : StopRules[j][2] \in StopReasons \cup {"none"}
  BY DEF StopRules, StopReasons
<1> QED
  BY <1>1, <1>3

\* The steps of a run, for its traces: nothing, a step of the agent, a call,
\* or the start.
LEMMA TraceEvents ==
    ASSUME [Next]_vars
    PROVE  \/ UNCHANGED <<traces, recorder>>
           \/ \E a \in AgentActions, o \in {"success", "error"} :
                 recorder' = RecordAgent(recorder, a, o) /\ UNCHANGED traces
           \/ \E x \in Collected :
                 /\ traces' = Append(traces, x)
                 /\ recorder' = SyncToolTraces(recorder, traces')
           \/ Start
<1> USE DEF stateVars, budgetVars, callVars, endVars, traceVars
<1> DEFINE Recorded == \E a \in AgentActions, o \in {"success", "error"} :
                           recorder' = RecordAgent(recorder, a, o) /\ UNCHANGED traces
           Called == \E x \in Collected : /\ traces' = Append(traces, x)
                                          /\ recorder' = SyncToolTraces(recorder, traces')
<1>1. ASSUME NEW outcome, Execute(outcome) PROVE Called
  <2>1. ToolStep(IF outcome = "unmergeable" THEN "success" ELSE outcome) \in Collected
    BY <1>1 DEF Execute, ToolStep, Collected, TraceStep, ToolOutcomes, Audited
  <2> QED
    BY <1>1, <2>1 DEF Execute
<1>2. CASE Search \/ Answer \/ LookUp
  BY <1>1, <1>2 DEF Search, Answer, LookUp
<1>3. CASE Repair
  <2>1. ToolStep("blocked") \in Collected
    BY DEF ToolStep, Collected, TraceStep, ToolOutcomes, Audited
  <2> QED
    BY <1>3, <2>1 DEF Repair
<1>4. CASE Extract \/ EndSelection \/ Respond \/ RespondFallback \/ SaveRunTrace
           \/ RunTraceFails \/ FailureTrace
  <2> SUFFICES Recorded
    OBVIOUS
  <2> QED
    BY <1>4 DEF Extract, EndSelection, Respond, RespondFallback, Conclude, SaveRunTrace,
                RunTraceFails, FailureTrace, AgentActions
<1>5. CASE Load \/ AnswerExpiredSwitch \/ AnswerPendingSwitch \/ DecideSwitch
           \/ RefuseDecision \/ BeginExtraction \/ Ask \/ AskForRange \/ BeginSearch
           \/ StopBeforeSelection \/ BeginSelection
  BY <1>5 DEF Load, AnswerExpiredSwitch, AnswerPendingSwitch, DecideSwitch, RefuseDecision,
              BeginExtraction, Ask, AskForRange, BeginSearch, StopBeforeSelection,
              BeginSelection
<1>6. CASE FinishStep \/ Evaluate \/ Save \/ Select \/ SelectNothing \/ Break \/ OtherRun
           \/ DeadlinePasses \/ UNCHANGED vars
  BY <1>6 DEF FinishStep, Evaluate, Save, Select, SelectNothing, Break, OtherRun,
              DeadlinePasses, vars
<1> QED
  BY <1>2, <1>3, <1>4, <1>5, <1>6 DEF Next, Proceed

\* The audit of the text.
LEMMA Started ==
    ASSUME Synced, NothingYet, Start
    PROVE  Synced' /\ ~lastToolFailed' /\ stopReason' = "none"
<1>1. /\ traces = <<>> /\ ~lastToolFailed /\ stopReason = "none"
      /\ UNCHANGED <<lastToolFailed, stopReason>> /\ recorder' = SyncToolTraces(recorder, traces')
      /\ traces' = <<>> \/ traces' = <<SecurityStep>>
  BY DEF Start, NothingYet, endVars
<1>2. CASE traces' = <<SecurityStep>>
  <2>1. SecurityStep \in Collected /\ traces' = Append(traces, SecurityStep)
    BY <1>1, <1>2 DEF SecurityStep, Collected, TraceStep, Audited
  <2> QED
    BY <1>1, <2>1, OneCollected
<1>3. CASE traces' = <<>>
  <2>1. recorder \in [steps : Seq(TraceStep), synced : Nat] /\ recorder.synced = 0
    BY <1>1 DEF Synced
  <2>2. /\ Len(traces') = 0 /\ SubSeq(traces', 1, 0) = <<>>
        /\ SubSeq(SubSeq(traces', 1, 0), 1, 0) = <<>>
    BY <1>3
  <2>3. AddSteps(recorder.steps, <<>>) = recorder.steps
    <3>1. /\ recorder.steps \in Seq(TraceStep) /\ Len(recorder.steps) \in Nat
          /\ Len(recorder.steps) <= MaxTraceSteps
      BY <2>1 DEF Synced
    <3>2. (IF Len(<<>>) < MaxTraceSteps - Len(recorder.steps) THEN Len(<<>>)
           ELSE MaxTraceSteps - Len(recorder.steps)) = 0
      BY <3>1, TraceAssumption
    <3>3. SubSeq(<<>>, 1, 0) = <<>> /\ recorder.steps \o <<>> = recorder.steps
      BY <3>1
    <3> QED
      BY <3>2, <3>3 DEF AddSteps
  <2>4. recorder' = recorder
    <3>1. SyncToolTraces(recorder, traces') = [steps |-> AddSteps(recorder.steps, <<>>), synced |-> 0]
      <4>1. SubSeq(traces', recorder.synced + 1, Len(traces')) = <<>>
        BY <1>3, <2>1, <2>2
      <4> QED
        BY <4>1, <2>2 DEF SyncToolTraces
    <3> QED
      BY <1>1, <2>1, <2>3, <3>1
  <2>5. traces' = traces
    BY <1>1, <1>3
  <2> QED
    BY <1>1, <2>4, <2>5 DEF Synced
<1> QED
  BY <1>1, <1>2, <1>3

\* The recorder keeps up with the tool context.
LEMMA SyncedStep == Synced /\ NothingYet /\ [Next]_vars => Synced'
<1> SUFFICES ASSUME Synced, NothingYet, [Next]_vars PROVE Synced'
  OBVIOUS
<1>1. CASE UNCHANGED <<traces, recorder>>
  BY <1>1 DEF Synced
<1>2. CASE \E a \in AgentActions, o \in {"success", "error"} :
              recorder' = RecordAgent(recorder, a, o) /\ UNCHANGED traces
  BY <1>2, OneRecorded
<1>3. CASE \E x \in Collected : /\ traces' = Append(traces, x)
                                /\ recorder' = SyncToolTraces(recorder, traces')
  BY <1>3, OneCollected
<1>4. CASE Start
  BY <1>4, Started
<1> QED
  BY <1>1, <1>2, <1>3, <1>4, TraceEvents

\* An answer that fails leaves a trace that says so.
LEMMA CallTraced ==
    ASSUME Synced, FailureTraced, NEW outcome, Execute(outcome), Merge(outcome),
           stopReason' \in {stopReason, "ask_for_information"}
    PROVE  FailureTraced'
<1> DEFINE step == ToolStep(IF outcome = "unmergeable" THEN "success" ELSE outcome)
<1>1. traces \in Seq(Collected) /\ traces' = Append(traces, step) /\ step.type = "tool"
  BY DEF Execute, Synced, ToolStep
<1>2. /\ Len(traces) \in Nat /\ Len(traces') = Len(traces) + 1
      /\ traces'[Len(traces) + 1] = step /\ \A i \in 1..Len(traces) : traces'[i] = traces[i]
  BY <1>1
<1>3. FailedCall => FailedCall'
  BY <1>2 DEF FailedCall
<1>4. lastToolFailed' => FailedCall'
  <2>1. CASE outcome = "unmergeable"
    BY <1>3, <2>1 DEF Merge, FailureTraced
  <2>2. CASE outcome # "unmergeable"
    <3>1. SUFFICES ASSUME lastToolFailed' PROVE FailedCall'
      OBVIOUS
    <3>2. outcome \in {"error", "blocked"}
      BY <2>2, <3>1 DEF Merge, Failed, Execute, ToolOutcomes
    <3>3. ReasonOf(step) = "stop"
      BY <2>2, <3>2 DEF ToolStep, ReasonOf
    <3> HIDE DEF step
    <3> QED
      BY <1>1, <1>2, <3>3 DEF FailedCall
  <2> QED
    BY <2>1, <2>2
<1> QED
  BY <1>3, <1>4 DEF FailureTraced

\* What is said of a failed tool has a trace.
LEMMA FailureTracedStep ==
    Synced /\ NothingYet /\ FailureTraced /\ [Next]_vars => FailureTraced' /\ NothingYet'
<1> SUFFICES ASSUME Synced, NothingYet, FailureTraced, [Next]_vars
             PROVE  FailureTraced' /\ NothingYet'
  OBVIOUS
<1> USE DEF stateVars, budgetVars, callVars, endVars, traceVars
<1>1. CASE Search \/ Answer \/ LookUp
  <2>1. PICK outcome : Execute(outcome) /\ Merge(outcome)
    BY <1>1 DEF Search, Answer, LookUp
  <2>2. stopReason' \in {stopReason, "ask_for_information"} /\ pc' # "start"
    BY <1>1 DEF Search, Answer, LookUp, AskForInformation, FailWith
  <2> QED
    BY <2>1, <2>2, CallTraced DEF NothingYet
<1>2. CASE Repair
  <2>1. /\ traces \in Seq(Collected) /\ traces' = Append(traces, ToolStep("blocked"))
        /\ pc' = "tools" /\ stopReason' = stopReason
    BY <1>2 DEF Repair, Synced
  <2>2. Len(traces') = Len(traces) + 1 /\ traces'[Len(traces) + 1] = ToolStep("blocked")
        /\ Len(traces) \in Nat
    BY <2>1
  <2>3. ToolStep("blocked").type = "tool" /\ ReasonOf(ToolStep("blocked")) = "stop"
    BY DEF ToolStep, ReasonOf
  <2>4. FailedCall'
    BY <2>2, <2>3 DEF FailedCall
  <2> QED
    BY <2>1, <2>4 DEF FailureTraced, NothingYet
<1>3. CASE Start
  <2>1. pc' # "start"
    BY <1>3 DEF Start
  <2> QED
    BY <1>3, <2>1, Started DEF FailureTraced, NothingYet
<1>4. CASE Evaluate
  <2>1. UNCHANGED <<traces, lastToolFailed>> /\ stopReason' = EvaluateStopRules /\ pc' # "start"
    BY <1>4 DEF Evaluate
  <2> QED
    BY <2>1, ToolErrorMeansFailure DEF FailureTraced, FailedCall, NothingYet
<1>5. CASE Respond \/ RespondFallback
  <2>1. UNCHANGED <<traces, lastToolFailed>> /\ stopReason' \in {"max_tokens", stopReason}
        /\ pc' # "start"
    BY <1>5 DEF Respond, RespondFallback, Conclude
  <2> QED
    BY <2>1 DEF FailureTraced, FailedCall, NothingYet
<1>6. CASE \/ Extract \/ EndSelection \/ SaveRunTrace \/ RunTraceFails \/ FailureTrace
           \/ Load \/ AnswerExpiredSwitch \/ AnswerPendingSwitch \/ DecideSwitch
           \/ RefuseDecision \/ BeginExtraction \/ Ask \/ AskForRange \/ BeginSearch
           \/ StopBeforeSelection \/ BeginSelection
           \/ FinishStep \/ Save \/ Select \/ SelectNothing \/ Break \/ OtherRun
           \/ DeadlinePasses \/ UNCHANGED vars
  <2>1. /\ UNCHANGED <<traces, lastToolFailed>>
        /\ stopReason' \in {stopReason, "ask_for_information", "max_tokens"}
    BY <1>6 DEF Extract, EndSelection, SaveRunTrace, RunTraceFails, FailureTrace, Load,
         AnswerExpiredSwitch, AnswerPendingSwitch, DecideSwitch, RefuseDecision,
         BeginExtraction, Ask, AskForRange, BeginSearch, StopBeforeSelection, BeginSelection,
         FinishStep, Save, Select, SelectNothing, Break, OtherRun, DeadlinePasses, vars,
         AskForInformation, FailWith
  <2>2. pc' = "start" => pc = "start" /\ UNCHANGED stopReason
    BY <1>6 DEF Extract, EndSelection, SaveRunTrace, RunTraceFails, FailureTrace, Load,
         AnswerExpiredSwitch, AnswerPendingSwitch, DecideSwitch, RefuseDecision,
         BeginExtraction, Ask, AskForRange, BeginSearch, StopBeforeSelection, BeginSelection,
         FinishStep, Save, Select, SelectNothing, Break, OtherRun, DeadlinePasses, vars,
         AskForInformation, FailWith, Breaks
  <2> QED
    BY <2>1, <2>2 DEF FailureTraced, FailedCall, NothingYet
<1> QED
  BY <1>1, <1>2, <1>3, <1>4, <1>5, <1>6 DEF Next, Proceed

-----------------------------------------------------------------------------
(* The trace that is stored.                                               *)

\* What TraceComplete says of one trace, where these are the calls.
Complete(t, answers) ==
    /\ Len(t.steps) < MaxTraceSteps =>
           /\ StepsOf(t.steps, Audited) = answers
           /\ t.steps[Len(t.steps)].action = "diagnose"
           /\ t.stopReason = "tool_error" =>
                  \E i \in 1..Len(Reasons(t)) : Reasons(t)[i] = "stop"
    /\ \E n \in 0..Len(answers) : StepsOf(t.steps, Audited) = SubSeq(answers, 1, n)

\* TraceComplete, now and after a step.
LEMMA CompleteForAll ==
    /\ TraceComplete <=> \A t \in StoredTraces(store, 0) : Complete(t, traces)
    /\ TraceComplete' <=> \A t \in StoredTraces(store', 0) : Complete(t, traces')
BY DEF TraceComplete, Complete, Audited, ThisRun

\* The trace that a run saves.
LEMMA SavedComplete ==
    ASSUME Synced, NEW o \in {"success", "error"},
           recorder' = RecordAgent(recorder, "diagnose", o), UNCHANGED traces,
           NEW s, NEW r, r = "tool_error" => FailedCall,
           NEW t, t = Finish(recorder', ThisRun, s, r)
    PROVE  Complete(t, traces')
<1>1. t.steps = recorder'.steps /\ t.stopReason = r
  BY DEF Finish
<1>2. /\ Synced'
      /\ Len(recorder'.steps) < MaxTraceSteps =>
             recorder'.steps[Len(recorder'.steps)] = AgentStep("diagnose", o)
  BY OneRecorded DEF AgentActions
<1>3. Len(t.steps) < MaxTraceSteps => StepsOf(t.steps, Audited) = traces'
                                       /\ t.steps[Len(t.steps)].action = "diagnose"
  BY <1>1, <1>2 DEF Synced, AgentStep
<1>4. \E n \in 0..Len(traces') : StepsOf(t.steps, Audited) = SubSeq(traces', 1, n)
  BY <1>1, <1>2 DEF Synced
<1>5. ASSUME Len(t.steps) < MaxTraceSteps, t.stopReason = "tool_error"
      PROVE  \E i \in 1..Len(Reasons(t)) : Reasons(t)[i] = "stop"
  <2>1. PICK i \in 1..Len(traces) : traces[i].type = "tool" /\ ReasonOf(traces[i]) = "stop"
    BY <1>1, <1>5 DEF FailedCall
  <2> DEFINE x == traces[i]
             tools == StepsOf(t.steps, {"tool"})
  <2>2. t.steps \in Seq(TraceStep)
    BY <1>1, <1>2 DEF Synced
  <2>3. StepsOf(t.steps, Audited) = traces
    BY <1>3, <1>5
  <2>4. \E j \in 1..Len(t.steps) : t.steps[j] = x
    <3>1. i \in 1..Len(StepsOf(t.steps, Audited)) /\ StepsOf(t.steps, Audited)[i] = x
      BY <2>3
    <3> QED
      BY <2>2, <3>1, PickedAreSteps
  <2>5. PICK k \in 1..Len(tools) : tools[k] = x
    <3>1. PICK j \in 1..Len(t.steps) : t.steps[j] = x
      BY <2>4
    <3>2. t.steps[j].type \in {"tool"}
      BY <2>1, <3>1
    <3> DEFINE all == t.steps
               wanted == {"tool"}
    <3>3. \E k \in 1..Len(tools) : tools[k] = t.steps[j]
      <4>1. all \in Seq(TraceStep) /\ j \in 1..Len(all) /\ all[j].type \in wanted
        BY <2>2, <3>1, <3>2
      <4> HIDE DEF all, wanted, x
      <4>2. \E k \in 1..Len(StepsOf(all, wanted)) : StepsOf(all, wanted)[k] = all[j]
        BY <4>1, StepsArePicks
      <4> QED
        BY <4>2 DEF all, wanted
    <3> QED
      BY <3>1, <3>3
  <2>6. Reasons(t) = [j \in 1..Len(tools) |-> ReasonOf(tools[j])]
    BY DEF Reasons
  <2> HIDE DEF tools
  <2>7. tools \in Seq(TraceStep)
    <3>1. \E p \in [0..Len(t.steps) -> Seq(TraceStep)] :
             Picks(p, Len(t.steps), t.steps, {"tool"}) /\ tools = p[Len(t.steps)]
      BY <2>2, StepsArePicked DEF tools
    <3>2. Len(t.steps) \in 0..Len(t.steps)
      BY <2>2
    <3> QED
      BY <3>1, <3>2
  <2>8. Len(Reasons(t)) = Len(tools) /\ Reasons(t)[k] = "stop"
    <3>1. Len(tools) \in Nat
      BY <2>7
    <3> QED
      BY <2>1, <2>5, <2>6, <3>1
  <2> QED
    BY <2>5, <2>8
<1> QED
  BY <1>3, <1>4, <1>5 DEF Complete

\* The first trace of a run in the store is the one it saves.
LEMMA OwnTrace ==
    ASSUME IsSequence, \A i \in 1..Len(store) : store[i].run # ThisRun,
           NEW t, store' = SaveTrace(store, t)
    PROVE  \A u \in StoredTraces(store', ThisRun) : u = t
<1>1. \A i \in 1..Len(store') : store'[i] = t \/ \E j \in 1..Len(store) : store'[i] = store[j]
  BY SaveTracePlaces
<1> QED
  BY <1>1 DEF StoredTraces

\* A trace that is stored stays as complete as it was.
LEMMA CompleteStep ==
    ASSUME Synced, FailureTraced, Stored, TraceComplete, [Next]_vars
    PROVE  TraceComplete'
<1> USE DEF stateVars, budgetVars, callVars, endVars, traceVars
<1>1. CASE pc' \notin {"answered", "failed"}
  <2>1. Stored'
    BY StoredStep
  <2>2. StoredTraces(store', 0) = {}
    BY <1>1, <2>1 DEF Stored, StoredTraces, ThisRun
  <2> QED
    BY <2>2, CompleteForAll
<1>2. CASE SaveRunTrace
  <2>1. /\ pc = "trace" /\ recorder' = RecordAgent(recorder, "diagnose", "success")
        /\ store' = SaveTrace(store, Finish(recorder', ThisRun, status, stopReason))
        /\ UNCHANGED traces
    BY <1>2 DEF SaveRunTrace
  <2>2. Complete(Finish(recorder', ThisRun, status, stopReason), traces')
    BY <2>1, SavedComplete DEF FailureTraced
  <2> QED
    BY <2>1, <2>2, OwnTrace, CompleteForAll DEF Stored, ThisRun
<1>3. CASE FailureTrace
  <2> DEFINE t == Finish(recorder', ThisRun, "failed", "execution_failed")
  <2>1. /\ pc = "failing" /\ recorder' = RecordAgent(recorder, "diagnose", "error")
        /\ store' \in {store, SaveTrace(store, t)} /\ UNCHANGED traces
    BY <1>3 DEF FailureTrace
  <2>2. Complete(t, traces')
    BY <2>1, SavedComplete
  <2>3. CASE store' = store
    <3>1. StoredTraces(store', ThisRun) = {}
      BY <2>1, <2>3 DEF Stored, StoredTraces
    <3> QED
      BY <3>1, CompleteForAll DEF ThisRun
  <2>4. CASE store' = SaveTrace(store, t)
    BY <2>1, <2>2, <2>4, OwnTrace, CompleteForAll DEF Stored, ThisRun
  <2> QED
    BY <2>1, <2>3, <2>4
<1>4. CASE OtherRun
  <2>1. PICK t : store' = SaveTrace(store, t) /\ t.run = later + 1
    BY <1>4 DEF OtherRun, Finish
  <2>2. IsSequence /\ later \in Nat /\ t.run # ThisRun /\ UNCHANGED traces
    BY <1>4, <2>1 DEF Stored, ThisRun, OtherRun
  <2>3. \A i \in 1..Len(store') : store'[i] = t \/ \E j \in 1..Len(store) : store'[i] = store[j]
    BY <2>1, <2>2, SaveTracePlaces
  <2>4. StoredTraces(store', ThisRun) \subseteq StoredTraces(store, ThisRun)
    BY <2>2, <2>3 DEF StoredTraces
  <2> QED
    BY <2>2, <2>4, CompleteForAll DEF ThisRun
<1>5. CASE UNCHANGED vars
  BY <1>5, CompleteForAll DEF vars
<1>6. pc' \in {"answered", "failed"} => \/ SaveRunTrace \/ FailureTrace \/ OtherRun \/ UNCHANGED vars
  BY DEF Next, Proceed, Start, Load, AnswerExpiredSwitch, AnswerPendingSwitch, DecideSwitch,
         RefuseDecision, BeginExtraction, Ask, AskForRange, BeginSearch, StopBeforeSelection,
         BeginSelection, Search, Repair, Answer, FinishStep, EndSelection, LookUp, Evaluate,
         Save, RunTraceFails, Extract, Select, SelectNothing, Respond, RespondFallback,
         Conclude, Break, Breaks, FailWith, StoredAfter, DeadlinePasses,
         AskForInformation, Execute, Merge
<1> QED
  BY <1>1, <1>2, <1>3, <1>4, <1>5, <1>6

-----------------------------------------------------------------------------
(* Types.                                                                  *)

\* Where a run is, what it is about and how it ends.
Places ==
    /\ pc \in {"start", "load", "loaded", "extract", "route", "search", "step",
               "tools", "selected", "lookup", "evaluate", "respond", "save",
               "trace", "failing", "answered", "failed"}
    /\ target \in Targets
    /\ pendingSwitch \in {"none", "live", "expired"}
    /\ diagnosis \in Diagnoses /\ kept \in Diagnoses
    /\ status \in Statuses \cup {"none"}
    /\ stopReason \in StopReasons \cup {"none"}
    /\ saved \in {"nothing", "created", "result"}
    /\ error \in Errors \cup {"none"}

\* What a run counts, and what it has left of it.
Counts ==
    /\ steps \in 0..MaxSteps
    /\ repairs \in 0..MaxParallel /\ running \in 0..(MaxParallel + 1)
    /\ callsUsed \in 0..MaxCalls
    /\ later \in 0..MaxOthers
    /\ pc \in {"search", "lookup"} => running = 1
    /\ pc \in {"step", "tools"} => steps < MaxSteps

\* What is either true or false.
Flags ==
    /\ late \in BOOLEAN /\ question \in BOOLEAN /\ blocked \in BOOLEAN
    /\ repeatedCall \in BOOLEAN /\ lastToolFailed \in BOOLEAN

\* How a run may end.
LEMMA StatusType == \A r : ExecutionStatus(r) \in Statuses
BY DEF ExecutionStatus, Statuses

\* What a diagnosis may be.
LEMMA DiagnosisTypes ==
    ASSUME NEW t, NEW o
    PROVE  DiagnosesOf(t) \subseteq Diagnoses /\ DiagnosesAfter(o, t) \subseteq Diagnoses
<1>1. DiagnosesOf(t) \subseteq Diagnoses
  BY DEF DiagnosesOf, Diagnoses
<1> QED
  BY <1>1 DEF DiagnosesAfter

\* What an answer says of the calls.
LEMMA AnswerFlags ==
    ASSUME Flags, NEW outcome, Execute(outcome), Merge(outcome)
    PROVE  lastToolFailed' \in BOOLEAN /\ repeatedCall' \in BOOLEAN
<1>1. repeatedCall' = (repeatedCall \/ outcome = "cached")
  BY DEF Execute
<1>2. lastToolFailed' = lastToolFailed \/ lastToolFailed' = Failed(outcome)
  BY DEF Merge
<1>3. Failed(outcome) \in BOOLEAN
  BY DEF Failed
<1> QED
  BY <1>1, <1>2, <1>3, Zenon DEF Flags

\* Every step.
LEMMA PlacesStep ==
    ASSUME Places, [Next]_vars
    PROVE  Places'
<1> USE DEF Places, Targets, Statuses, StopReasons, Errors, stateVars, budgetVars, callVars, endVars, traceVars
<1>1. CASE Start
  BY <1>1 DEF Start
<1>2. CASE Load
  BY <1>2, DiagnosisTypes DEF Load
<1>3. CASE AnswerExpiredSwitch
  BY <1>3, DiagnosisTypes DEF AnswerExpiredSwitch, Refresh, AskForInformation
<1>4. CASE AnswerPendingSwitch
  BY <1>4 DEF AnswerPendingSwitch, AskForInformation
<1>5. CASE DecideSwitch
  BY <1>5 DEF DecideSwitch, Diagnoses
<1>6. CASE RefuseDecision
  BY <1>6 DEF RefuseDecision, FailWith
<1>7. CASE BeginExtraction
  BY <1>7 DEF BeginExtraction
<1>8. CASE Ask
  BY <1>8 DEF Ask, AskForInformation
<1>9. CASE AskForRange
  BY <1>9 DEF AskForRange, AskForInformation
<1>10. CASE BeginSearch
  BY <1>10 DEF BeginSearch
<1>11. CASE StopBeforeSelection
  BY <1>11 DEF StopBeforeSelection
<1>12. CASE BeginSelection
  BY <1>12 DEF BeginSelection
<1>13. CASE Search
  <2>1. PICK outcome : Merge(outcome)
    BY <1>13 DEF Search
  <2>2. target' \in Targets /\ diagnosis' \in Diagnoses /\ kept' \in Diagnoses
    BY <2>1, DiagnosisTypes DEF Merge
  <2>3. pc' \in {"save", "failing"} /\ UNCHANGED <<pendingSwitch, saved>>
    BY <1>13 DEF Search, FailWith
  <2>4. status' \in {status, "awaiting_information"}
        /\ stopReason' \in {stopReason, "ask_for_information"}
        /\ error' \in {error, "context"}
    BY <1>13 DEF Search, FailWith, AskForInformation
  <2> QED
    BY <2>2, <2>3, <2>4
<1>14. CASE Repair
  BY <1>14, DiagnosisTypes DEF Repair
<1>15. CASE Answer
  BY <1>15, DiagnosisTypes DEF Answer, Execute, Merge
<1>16. CASE FinishStep
  BY <1>16 DEF FinishStep, StopSelecting
<1>17. CASE EndSelection
  BY <1>17 DEF EndSelection, NeedsLookup
<1>18. CASE LookUp
  BY <1>18, DiagnosisTypes DEF LookUp, Execute, Merge, FailWith
<1>19. CASE Evaluate
  BY <1>19, StopRulesType DEF Evaluate
<1>20. CASE Save
  BY <1>20 DEF Save
<1>21. CASE SaveRunTrace
  BY <1>21 DEF SaveRunTrace
<1>22. CASE RunTraceFails
  BY <1>22 DEF RunTraceFails, FailWith
<1>23. CASE FailureTrace
  BY <1>23 DEF FailureTrace
<1>24. CASE Extract
  <2>1. target' \in Targets
    BY <1>24 DEF Extract, Extracted
  <2>2. diagnosis' \in Diagnoses /\ kept' \in Diagnoses
    BY <1>24, DiagnosisTypes DEF Extract, Refresh
  <2>3. pendingSwitch' \in {"none", "live"}
    BY <1>24 DEF Extract
  <2> QED
    BY <1>24, <2>1, <2>2, <2>3 DEF Extract
<1>25. CASE Select
  BY <1>25 DEF Select
<1>26. CASE SelectNothing
  BY <1>26 DEF SelectNothing
<1>27. CASE Respond
  BY <1>27, StatusType DEF Respond, Conclude
<1>28. CASE RespondFallback
  BY <1>28, StatusType DEF RespondFallback, Conclude
<1>29. CASE Break
  BY <1>29 DEF Break, Breaks, FailWith, StoredAfter
<1>30. CASE OtherRun
  BY <1>30 DEF OtherRun
<1>31. CASE DeadlinePasses
  BY <1>31 DEF DeadlinePasses
<1>32. CASE UNCHANGED vars
  BY <1>32 DEF vars
<1> QED
  BY <1>1, <1>2, <1>3, <1>4, <1>5, <1>6, <1>7, <1>8, <1>9, <1>10, <1>11, <1>12,
     <1>13, <1>14, <1>15, <1>16, <1>17, <1>18, <1>19, <1>20, <1>21, <1>22, <1>23, <1>24,
     <1>25, <1>26, <1>27, <1>28, <1>29, <1>30, <1>31, <1>32 DEF Next, Proceed

\* Nothing is counted beyond its limit.
LEMMA CountsStep ==
    ASSUME Counts, Phases, [Next]_vars
    PROVE  Counts'
<1> USE AgentAssumption DEF Counts, Phases, stateVars, budgetVars, callVars, endVars, traceVars
<1>1. CASE Start
  BY <1>1 DEF Start
<1>2. CASE Load
  BY <1>2 DEF Load
<1>3. CASE AnswerExpiredSwitch
  BY <1>3 DEF AnswerExpiredSwitch, Refresh, AskForInformation
<1>4. CASE AnswerPendingSwitch
  BY <1>4 DEF AnswerPendingSwitch, AskForInformation
<1>5. CASE DecideSwitch
  BY <1>5 DEF DecideSwitch
<1>6. CASE RefuseDecision
  BY <1>6 DEF RefuseDecision, FailWith
<1>7. CASE BeginExtraction
  BY <1>7 DEF BeginExtraction
<1>8. CASE Ask
  BY <1>8 DEF Ask, AskForInformation
<1>9. CASE AskForRange
  BY <1>9 DEF AskForRange, AskForInformation
<1>10. CASE BeginSearch
  BY <1>10 DEF BeginSearch
<1>11. CASE StopBeforeSelection
  BY <1>11 DEF StopBeforeSelection
<1>12. CASE BeginSelection
  BY <1>12 DEF BeginSelection
<1>13. CASE Search
  BY <1>13 DEF Search, Execute, Merge, AskForInformation, FailWith
<1>14. CASE Repair
  BY <1>14 DEF Repair
<1>15. CASE Answer
  BY <1>15 DEF Answer, Execute, Merge
<1>16. CASE FinishStep
  BY <1>16 DEF FinishStep, StopSelecting
<1>17. CASE EndSelection
  BY <1>17 DEF EndSelection, NeedsLookup
<1>18. CASE LookUp
  BY <1>18 DEF LookUp, Execute, Merge, FailWith
<1>19. CASE Evaluate
  BY <1>19 DEF Evaluate
<1>20. CASE Save
  BY <1>20 DEF Save
<1>21. CASE SaveRunTrace
  BY <1>21 DEF SaveRunTrace
<1>22. CASE RunTraceFails
  BY <1>22 DEF RunTraceFails, FailWith
<1>23. CASE FailureTrace
  BY <1>23 DEF FailureTrace
<1>24. CASE Extract
  BY <1>24 DEF Extract, Refresh
<1>25. CASE Select
  BY <1>25 DEF Select
<1>26. CASE SelectNothing
  BY <1>26 DEF SelectNothing
<1>27. CASE Respond
  BY <1>27 DEF Respond, Conclude
<1>28. CASE RespondFallback
  BY <1>28 DEF RespondFallback, Conclude
<1>29. CASE Break
  BY <1>29 DEF Break, Breaks, FailWith, StoredAfter
<1>30. CASE OtherRun
  BY <1>30 DEF OtherRun
<1>31. CASE DeadlinePasses
  BY <1>31 DEF DeadlinePasses
<1>32. CASE UNCHANGED vars
  BY <1>32 DEF vars
<1> QED
  BY <1>1, <1>2, <1>3, <1>4, <1>5, <1>6, <1>7, <1>8, <1>9, <1>10, <1>11, <1>12,
     <1>13, <1>14, <1>15, <1>16, <1>17, <1>18, <1>19, <1>20, <1>21, <1>22, <1>23, <1>24,
     <1>25, <1>26, <1>27, <1>28, <1>29, <1>30, <1>31, <1>32 DEF Next, Proceed

\* Every step.
LEMMA FlagsStep ==
    ASSUME Flags, [Next]_vars
    PROVE  Flags'
<1> USE DEF Flags, stateVars, budgetVars, callVars, endVars, traceVars
<1>1. CASE Start
  BY <1>1 DEF Start
<1>2. CASE Load
  BY <1>2 DEF Load
<1>3. CASE AnswerExpiredSwitch
  BY <1>3 DEF AnswerExpiredSwitch, Refresh, AskForInformation
<1>4. CASE AnswerPendingSwitch
  BY <1>4 DEF AnswerPendingSwitch, AskForInformation
<1>5. CASE DecideSwitch
  BY <1>5 DEF DecideSwitch
<1>6. CASE RefuseDecision
  BY <1>6 DEF RefuseDecision, FailWith
<1>7. CASE BeginExtraction
  BY <1>7 DEF BeginExtraction
<1>8. CASE Ask
  BY <1>8 DEF Ask, AskForInformation
<1>9. CASE AskForRange
  BY <1>9 DEF AskForRange, AskForInformation
<1>10. CASE BeginSearch
  BY <1>10 DEF BeginSearch
<1>11. CASE StopBeforeSelection
  BY <1>11 DEF StopBeforeSelection
<1>12. CASE BeginSelection
  BY <1>12 DEF BeginSelection
<1>13. CASE Search
  <2>1. PICK outcome : Execute(outcome) /\ Merge(outcome)
    BY <1>13 DEF Search
  <2>2. lastToolFailed' \in BOOLEAN /\ repeatedCall' \in BOOLEAN
    BY <2>1, AnswerFlags DEF Execute
  <2> QED
    BY <1>13, <2>2 DEF Search, FailWith
<1>14. CASE Repair
  BY <1>14 DEF Repair
<1>15. CASE Answer
  <2>1. PICK outcome : Execute(outcome) /\ Merge(outcome)
    BY <1>15 DEF Answer
  <2>2. lastToolFailed' \in BOOLEAN /\ repeatedCall' \in BOOLEAN
    BY <2>1, AnswerFlags DEF Execute
  <2> QED
    BY <1>15, <2>2 DEF Answer
<1>16. CASE FinishStep
  BY <1>16 DEF FinishStep, StopSelecting
<1>17. CASE EndSelection
  BY <1>17 DEF EndSelection, NeedsLookup
<1>18. CASE LookUp
  <2>1. PICK outcome : Execute(outcome) /\ Merge(outcome)
    BY <1>18 DEF LookUp
  <2>2. lastToolFailed' \in BOOLEAN /\ repeatedCall' \in BOOLEAN
    BY <2>1, AnswerFlags DEF Execute
  <2> QED
    BY <1>18, <2>2 DEF LookUp, FailWith
<1>19. CASE Evaluate
  BY <1>19 DEF Evaluate
<1>20. CASE Save
  BY <1>20 DEF Save
<1>21. CASE SaveRunTrace
  BY <1>21 DEF SaveRunTrace
<1>22. CASE RunTraceFails
  BY <1>22 DEF RunTraceFails, FailWith
<1>23. CASE FailureTrace
  BY <1>23 DEF FailureTrace
<1>24. CASE Extract
  BY <1>24 DEF Extract, Refresh
<1>25. CASE Select
  BY <1>25 DEF Select
<1>26. CASE SelectNothing
  BY <1>26 DEF SelectNothing
<1>27. CASE Respond
  BY <1>27 DEF Respond, Conclude
<1>28. CASE RespondFallback
  BY <1>28 DEF RespondFallback, Conclude
<1>29. CASE Break
  BY <1>29 DEF Break, Breaks, FailWith, StoredAfter
<1>30. CASE OtherRun
  BY <1>30 DEF OtherRun
<1>31. CASE DeadlinePasses
  BY <1>31 DEF DeadlinePasses
<1>32. CASE UNCHANGED vars
  BY <1>32 DEF vars
<1> QED
  BY <1>1, <1>2, <1>3, <1>4, <1>5, <1>6, <1>7, <1>8, <1>9, <1>10, <1>11, <1>12,
     <1>13, <1>14, <1>15, <1>16, <1>17, <1>18, <1>19, <1>20, <1>21, <1>22, <1>23, <1>24,
     <1>25, <1>26, <1>27, <1>28, <1>29, <1>30, <1>31, <1>32 DEF Next, Proceed

\* The store never holds more than MaxTraces.
Bounded == Len(store) <= MaxTraces

LEMMA BoundedStep ==
    ASSUME Stored, Bounded, [Next]_vars
    PROVE  Bounded'
<1> USE DEF stateVars, budgetVars, callVars, endVars, traceVars
<1>1. IsSequence /\ Len(store) \in Nat
  BY DEF Stored, IsSequence
<1>2. ASSUME NEW t, store' = SaveTrace(store, t)
      PROVE  Bounded'
  <2>1. \/ Len(store') = Len(store)
        \/ Len(store') = Len(store) + 1 /\ Len(store) < MaxTraces
    BY <1>1, <1>2, SaveTracePlaces
  <2> QED
    BY <1>1, <2>1, TraceAssumption DEF Bounded
<1>3. \/ UNCHANGED store
      \/ \E t : store' = SaveTrace(store, t)
  <2>1. CASE SaveRunTrace
    BY <2>1 DEF SaveRunTrace
  <2>2. CASE FailureTrace
    BY <2>2 DEF FailureTrace
  <2>3. CASE OtherRun
    BY <2>3 DEF OtherRun
  <2>4. CASE ~(SaveRunTrace \/ FailureTrace \/ OtherRun)
    BY <2>4 DEF Next, Proceed, Start, Load, AnswerExpiredSwitch, AnswerPendingSwitch,
         DecideSwitch, RefuseDecision, BeginExtraction, Ask, AskForRange, BeginSearch,
         StopBeforeSelection, BeginSelection, Search, Repair, Answer, FinishStep,
         EndSelection, LookUp, Evaluate, Save, RunTraceFails, Extract, Select,
         SelectNothing, Respond, RespondFallback, Conclude, Break, DeadlinePasses, vars
  <2> QED
    BY <2>1, <2>2, <2>3, <2>4
<1> QED
  BY <1>2, <1>3 DEF Bounded

-----------------------------------------------------------------------------
(* The theorems.                                                           *)

Traced == Synced /\ FailureTraced /\ NothingYet /\ TraceComplete

Typed == Places /\ Counts /\ Flags /\ Bounded

AgentInv == Phases /\ Spent /\ SessionSaved /\ Kept /\ Recovery /\ Stored /\ Traced /\ Typed

\* Every part of the invariant holds, whatever the run meets.
THEOREM Invariance == Spec => []AgentInv
<1>1. Init => AgentInv
  <2> SUFFICES ASSUME Init PROVE AgentInv
    OBVIOUS
  <2>1. Phases /\ Spent /\ SessionSaved /\ Kept /\ Recovery
    BY AgentAssumption
       DEF Init, Phases, Spent, TokensBounded, SessionSaved, Kept, Recovery, Recovered
  <2>2. store \in Seq({store[i] : i \in 1..MaxTraces}) /\ Len(store) = MaxTraces
    BY TraceAssumption DEF Init
  <2>3. \A i \in 1..Len(store) : store[i].run # ThisRun
    BY <2>2, AgentAssumption, TraceAssumption DEF Init, Finish, ThisRun
  <2>4. Stored
    BY <2>2, <2>3 DEF Stored, IsSequence, Init
  <2>5. Synced
    <3>1. /\ traces = <<>> /\ recorder = [steps |-> <<>>, synced |-> 0]
          /\ Len(traces) = 0 /\ SubSeq(traces, 1, 0) = <<>> /\ 0 \in 0..Len(traces)
          /\ traces \in Seq(Collected) /\ recorder.steps \in Seq(TraceStep)
      BY DEF Init, NewRecorder
    <3>2. StepsOf(recorder.steps, Audited) = <<>>
      BY <3>1, StepsOfNothing
    <3>3. recorder \in [steps : Seq(TraceStep), synced : Nat]
      BY <3>1
    <3>4. Len(recorder.steps) = 0 /\ recorder.synced = 0
      BY <3>1
    <3>5. StepsOf(recorder.steps, Audited) = traces
          /\ StepsOf(recorder.steps, Audited) = SubSeq(traces, 1, 0)
      BY <3>1, <3>2
    <3>6. \E n \in 0..Len(traces) : StepsOf(recorder.steps, Audited) = SubSeq(traces, 1, n)
      BY <3>1, <3>5
    <3> QED
      BY <3>1, <3>3, <3>4, <3>5, <3>6, TraceAssumption DEF Synced
  <2>6. FailureTraced /\ NothingYet
    BY DEF Init, FailureTraced, NothingYet
  <2>7. TraceComplete
    <3>1. StoredTraces(store, 0) = {}
      BY <2>3 DEF StoredTraces, ThisRun
    <3> QED
      BY <3>1, CompleteForAll
  <2>8. Typed
    <3>1. Places
      BY DEF Init, Places, Targets, Diagnoses
    <3>2. Counts
      BY AgentAssumption DEF Init, Counts
    <3>3. Flags
      BY DEF Init, Flags
    <3>4. Bounded
      BY <2>2, TraceAssumption DEF Bounded
    <3> QED
      BY <3>1, <3>2, <3>3, <3>4 DEF Typed
  <2> QED
    BY <2>1, <2>4, <2>5, <2>6, <2>7, <2>8 DEF AgentInv, Traced
<1>2. AgentInv /\ [Next]_vars => AgentInv'
  <2> SUFFICES ASSUME AgentInv, [Next]_vars PROVE AgentInv'
    OBVIOUS
  <2>1. (Phases /\ Spent /\ SessionSaved /\ Kept /\ Recovery /\ Stored)'
    BY PhasesStep, SpentStep, SessionSavedStep, KeptStep, RecoveryStep, StoredStep DEF AgentInv
  <2>2. Traced'
    BY SyncedStep, FailureTracedStep, CompleteStep DEF AgentInv, Traced
  <2>3. Typed'
    BY PlacesStep, CountsStep, FlagsStep, BoundedStep DEF AgentInv, Typed
  <2> QED
    BY <2>1, <2>2, <2>3 DEF AgentInv
<1> QED
  BY <1>1, <1>2, PTL DEF Spec

\* Every variable of a run has its type; above all no step, call or token is
\* counted beyond its limit, and the recorder and the store keep theirs.
THEOREM TypeCorrect == Spec => []TypeOK
<1>1. AgentInv => TypeOK
  <2> SUFFICES ASSUME AgentInv PROVE TypeOK
    OBVIOUS
  <2>1. traces \in Seq(TraceStep)
    <3>1. Collected \subseteq TraceStep
      BY DEF Collected
    <3> QED
      BY <3>1, SeqMonotonic DEF AgentInv, Traced, Synced
  <2>2. Places /\ Counts /\ Flags /\ Bounded
    BY DEF AgentInv, Typed
  <2>3. tokens \in Nat /\ calls \in Seq(CallOutcomes)
    BY DEF AgentInv, Phases, Recovery
  <2>4. /\ recorder \in [steps : Seq(TraceStep), synced : Nat]
        /\ Len(recorder.steps) <= MaxTraceSteps
    BY DEF AgentInv, Traced, Synced
  <2> QED
    BY <2>1, <2>2, <2>3, <2>4 DEF TypeOK, Places, Counts, Flags, Bounded
<1> QED
  BY <1>1, Invariance, PTL

\* RunTraceRecorder and TraceStore: a stored trace that is not full tells of
\* every call, and of the failure that stopped the run, however the run went.
THEOREM TraceTellsAll == Spec => []TraceComplete
<1>1. AgentInv => TraceComplete
  BY DEF AgentInv, Traced
<1> QED
  BY <1>1, Invariance, PTL

\* RunTokenBudget: one model call at most goes beyond what the reserve leaves.
THEOREM BudgetHolds == Spec => []TokensBounded
BY Invariance, PTL DEF AgentInv, Spent

\* A client that is told of a conflict, or of a context that does not fit, may
\* ask again: nothing of its run is in the session.  Only behind a 502 may the
\* result be saved, when the trace was not or an answer was lost.
THEOREM ConflictsSaveNothing == Spec => []ConflictMeansUnsaved
<1>1. AgentInv => ConflictMeansUnsaved
  BY DEF AgentInv, SessionSaved, ConflictMeansUnsaved, HttpStatus, Answered
<1> QED
  BY <1>1, Invariance, PTL

\* No tools are selected after a conclusive diagnosis (stopWhen).
THEOREM ConclusionIsFinal == Spec => []ConclusionEndsSelection
<1>1. AgentInv => ConclusionEndsSelection
  BY DEF AgentInv, Kept, ConclusionEndsSelection
<1> QED
  BY <1>1, Invariance, PTL

\* In whichever order the calls of a step answer, a failure is hidden only by
\* a success after it (lastToolFailed).
THEOREM FailuresAreTold == Spec => []HiddenFailuresSucceeded
<1>1. AgentInv => HiddenFailuresSucceeded
  BY DEF AgentInv, Recovery, Recovered, Honest, HiddenFailuresSucceeded, Selected, Answered, Failed
<1> QED
  BY <1>1, Invariance, PTL

\* TraceStore: the trace of an answered run stays until MaxTraces others are
\* saved, and that of a failed run says so.
THEOREM TraceStays == Spec => []TraceAvailable
<1>1. AgentInv => TraceAvailable
  BY DEF AgentInv, Stored, TraceAvailable, Answered, StoredTraces
<1> QED
  BY <1>1, Invariance, PTL

=============================================================================
