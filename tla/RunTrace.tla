------------------------------ MODULE RunTrace ------------------------------
(***************************************************************************)
(* The audit trace of a run: the recorder that collects its steps, the     *)
(* bounded store it is saved in, and the view a query or a replay shows    *)
(* (src/agent/run-trace.ts, trace-store.ts, trace-query.ts).  Operators    *)
(* only: the runs that record, save and query are in AgentRun.             *)
(***************************************************************************)
EXTENDS Naturals, Sequences

CONSTANTS
    MaxTraceSteps,  \* 100 in the code: further steps are dropped
    MaxTraces       \* 2000 in the code: the oldest trace makes room

ASSUME TraceAssumption == MaxTraceSteps \in Nat \ {0} /\ MaxTraces \in Nat \ {0}

AgentActions == {"extract_context", "select_tool", "generate_response", "diagnose"}

ToolOutcomes == {"success", "cached", "error", "blocked"}

\* Parameters, summaries and durations of a step are left out.
TraceStep == [type : {"agent"}, action : AgentActions, outcome : {"success", "error"}]
             \cup [type : {"tool"}, outcome : ToolOutcomes]
             \cup [type : {"security"}, outcome : {"blocked"}]

AgentStep(action, outcome) ==
    [type |-> "agent", action |-> action, outcome |-> outcome]

ToolStep(outcome) == [type |-> "tool", outcome |-> outcome]

SecurityStep == [type |-> "security", outcome |-> "blocked"]

-----------------------------------------------------------------------------
(* Mutated forms.                                                          *)

ResyncToolTraces(recorder, traces) ==
    [recorder EXCEPT !.steps = @ \o traces]

SaveEvictingNewest(store, trace) ==
    IF Len(store) >= MaxTraces
    THEN Append(SubSeq(store, 1, MaxTraces - 1), trace)
    ELSE Append(store, trace)

-----------------------------------------------------------------------------
(* The recorder.                                                           *)

NewRecorder == [steps |-> <<>>, synced |-> 0]

\* Steps past the limit are dropped without a word.
AddSteps(steps, new) ==
    LET room == MaxTraceSteps - Len(steps)
    IN  steps \o SubSeq(new, 1, IF Len(new) < room THEN Len(new) ELSE room)

RecordAgent(recorder, action, outcome) ==
    [recorder EXCEPT !.steps = AddSteps(@, <<AgentStep(action, outcome)>>)]

\* The traces of the tool context that are new since the last call.
SyncToolTraces(recorder, traces) ==
    [steps |-> AddSteps(recorder.steps,
                        SubSeq(traces, recorder.synced + 1, Len(traces))),
     synced |-> Len(traces)]

Finish(recorder, run, status, stopReason) ==
    [run |-> run, status |-> status, stopReason |-> stopReason,
     steps |-> recorder.steps]

-----------------------------------------------------------------------------
(* The store: a sequence of traces, the oldest first.                      *)

StoredTraces(store, run) ==
    {store[i] : i \in {j \in 1..Len(store) : store[j].run = run}}

\* A trace saved again keeps its place; a new one may evict the oldest.
SaveTrace(store, trace) ==
    IF StoredTraces(store, trace.run) # {}
    THEN [i \in 1..Len(store) |-> IF store[i].run = trace.run
                                  THEN trace ELSE store[i]]
    ELSE Append(IF Len(store) >= MaxTraces THEN Tail(store) ELSE store, trace)

-----------------------------------------------------------------------------
(* The view (buildTraceQueryView): the tool steps, and why each of them    *)
(* made the run go on or stop.                                             *)

\* The steps of some types, in their order.
StepsOf(steps, types) ==
    LET picked[n \in 0..Len(steps)] ==
            IF n = 0 THEN <<>>
            ELSE IF steps[n].type \in types THEN Append(picked[n - 1], steps[n])
            ELSE picked[n - 1]
    IN  picked[Len(steps)]

ReasonOf(step) ==
    IF step.outcome \in {"error", "blocked"} THEN "stop" ELSE "continue"

Reasons(trace) ==
    LET tools == StepsOf(trace.steps, {"tool"})
    IN  [i \in 1..Len(tools) |-> ReasonOf(tools[i])]
=============================================================================
