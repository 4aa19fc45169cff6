# TLA+ verification of IM_Inspect

IM_Inspect is a diagnosis agent for support staff of an instant messaging
system. A chat request makes one *run*: load the session, let a language model
choose read-only tools, classify what happened to a message with a
deterministic function, answer, save the session. Where the diagnosis
recommends escalation, staff *prepare* a draft and *confirm* it with a one-time
token. This directory models the parts of that where the order of events
matters, checks them with TLC and proves the central results with TLAPS.

Paths below are relative to the repository root.

## Inventory

| Component | State | Operations | Interacts with |
|---|---|---|---|
| Session store, `src/persistence/mysql/mysql-state-store.ts` | one row per (tenant, actor, session): `state_json`, `version`, `expires_at` | create, load, save, delete; each several SQL statements without a transaction | called by the agent loop and by the escalation workflow |
| Escalation workflow, `src/application/escalation-draft-workflow.ts`, `src/tools/escalation-draft-service.ts`, `src/persistence/mysql/mysql-escalation-draft-store.ts` | tables `diagnosis_results`, `draft_confirmations`, `agent_drafts` | prepare, confirm; one transaction each | reads the session through the session store, outside its transaction |
| Tool registry, `src/tools/registry.ts`, `retry-policy.ts`, `context.ts` | per run: calls used, result cache, traces | execute | called in parallel by the model's tool calls; calls the connector |
| Registry runtime, `src/server/tool-registry-runtime.ts` | the shared promise of a registry and its age | get, reset | chat route; builds the connector, which probes capabilities |
| Agent loop, `src/agent/agent.ts` | the run's copy of the session state, calls, stop flags | runAgent, tool execution callback, repair of invalid calls | all of the above, the language model, the trace store |
| Session merging, `src/agent/state-merge.ts`, `session-state.ts` | session state: facts, evidence, conflicts, pending switch | merge of context, tool results and diagnosis; offer, resolve and expire a target switch | agent loop |
| Diagnosis, `src/domain/diagnose.ts` | none | diagnose | agent loop |
| Budgets, `src/agent/context-budget.ts` | tokens used by the run | reserve, record | agent loop |
| Run trace, `src/agent/run-trace.ts`, `trace-store.ts`, `trace-query.ts` | steps of a run; the last 2000 traces | record, finish, save, query, replay | agent loop, trace routes |
| Connectors, `src/connectors/` | none (capabilities are read when built) | four queries | tool registry |
| Draft tool, `src/tools/create-escalation-draft.ts` and repository | drafts | create | tool registry; not offered to the model |
| Workbench, `app/page.tsx` | the page's session, result and draft | ask, reset, prepare, confirm | HTTP routes |
| Model context and memory, `src/agent/model-context.ts`, `conversation-memory.ts` | the last exchanges and a summary of the others | record an exchange, build a context for a purpose and fit it | agent loop |
| Prompts, extraction, replies | text | | agent loop |
| HTTP routes, configuration, evaluation harness | | | |

What is hard here, and what correctness means:

* **Sessions** are shared by concurrent requests and by server processes. A
  save must not overwrite another (optimistic lock); an expired row must not be
  revived and a fresh one not deleted; and the two stored copies of the expiry
  must agree. All of it has to hold between the statements of a store call.
* **Drafts** are the only thing the system writes for others. A token must
  create at most one draft, of the content it was issued for, never after it
  was revoked; and a client whose answer was lost must be able to ask again.
* **Tool calls** run in parallel under a call budget and a deadline, with
  timers that fire late, retries, and answers that come after a timeout.
* **Capability probes** overlap and settle in any order.
* **Merging** brings answers about different messages into one session, in the
  order in which parallel calls complete. No conclusion about one message may
  rest on facts of another, and a failed call concludes nothing.
* **The target** of a session changes by the customer only. The offer of a
  switch, its decision and its expiry race with other requests, and no fact of
  the message before may survive.
* **The run** composes these: it must end, and report what it saved.
* **The page** awaits answers while its user goes on: what is confirmed must be
  what is shown.
* **Contexts and traces** are cut to bounds, and must say so.

## Modules

| Module | Models | Extends or uses |
|---|---|---|
| `SessionStore` | one session row and the runs that share it, one action per SQL statement | |
| `EscalationDraft` | prepare and confirm requests: session load, transaction, locks, commit, abort, lost answer | `OneShotConfirmation` (implements it) |
| `OneShotConfirmation` | the abstract promise: a ledger written by redeeming offers | |
| `ToolRegistry` | the tool calls of one run | |
| `RegistryRuntime` | shared capability probes | |
| `GoImConnector` | the connector of a real IM system, as operators: what probes say of capabilities, and what a response becomes | |
| `ConnectedRuntime` | probes and calls over services that fail and recover | `RegistryRuntime`, `GoImConnector` |
| `SessionMerge` | the case of a session: merging of tool results, diagnosis | |
| `TargetSwitch` | changing the message a session is about, over overlapping requests | |
| `RunTrace` | recorder, bounded store and view of a run's trace, as operators | |
| `AgentRun` | one run of the agent from request to answer | `RunTrace` |
| `Workbench` | the page of support staff with answers that arrive late | `OneShotConfirmation` (as the server) |
| `ConversationMemory` | the dialogue a session remembers | |
| `ModelContext` | what a model call is told of a session, and told that it is not | `ConversationMemory` |
| `SessionContentProofs` | theorems about what a session holds and what of it a model call is told | `SessionMerge`, `ModelContext`, `TLAPS` |
| other `*Proofs` | inductive invariants and theorems about the module of that name | the module, `TLAPS` |
| `MC*` | instances for TLC: symmetry sets, records and functions as constants; the other constants are in the `.cfg` files | |

How they fit together: `AgentRun` is one run seen from inside and takes what a
call answers as an input; `ToolRegistry` is what such a call does before it
answers, `SessionMerge` what its answer does to the facts, `SessionStore` and
`TargetSwitch` are what several runs on one session do to each other, and
`Workbench` is the client of all of them. `Workbench` uses the ledger that
`EscalationDraft` is proved to implement, and the trace of `AgentRun` is that of
`RunTrace`, so that these two are real compositions; the others meet in the
assumptions that their comments name.

The definitions in the section "Mutated forms" of a module are plausible slips of
the definitions they are named after. No specification uses them; PROJECT.json
says which property each of them breaks.

### SessionStore

The row is a record; `life` numbers the rows inserted for one session identity
and is history only: the code cannot see it, the properties need it. The
session content is abstracted to `work`, the set of runs whose results it
holds, which is what a lost update loses. `pc` names the statement a run
executes next; `snap` is what its last SELECT returned, `at` the value of
`now()` of the store call in progress, `loaded` the state it works from.
Everything the run does between load and save is the one action `Work`, because
it touches only the run's copy. `Fail` may happen at every step: a statement
or the model fails, the process dies, or the trace store fails after the save.

### EscalationDraft

All reads of the two transactions are locking reads, so the model keeps the
locks and lets a transaction write at its commit: `diagLock` is the row lock
that `INSERT ... ON DUPLICATE KEY UPDATE` takes on `diagnosis_results`,
`rowLock` the locks on `draft_confirmations` (`FOR UPDATE` in confirm, the
revoking UPDATE in prepare, which locks every row of its key through
`idx_confirmation_idempotency`), `gapLock` the gap locks that `FOR UPDATE` of an
absent draft leaves in `agent_drafts`. Gap locks are shared, and an INSERT waits
for the others: two confirms of one key can deadlock, and InnoDB rolls one back
(`ConfirmDeadlock`). The session is an external actor: it is created, saved and
expires whenever it likes. A confirmation belongs to a `base`, the life and
version of the session it was prepared from, which also stands for the run id
(every save is by a run of its own). `content` is the staff's summary, the only
part of the content hash that the idempotency key does not determine.

Checks that a single request performs on its own input (schema, permission,
proposal equals diagnosis) are not modelled: the workflow builds the proposal
from the diagnosis it passes along.

### ToolRegistry

What `execute` does between two awaits is one action. `due` is the time of the
timer the call waits for (timeout of the attempt, or the sleep before a retry).
`Tick` is disabled while a timer is `Lag` ticks overdue; this is the only
assumption on the event loop. A connector answer may come at any time or never;
one that comes after its timeout has no effect in the code and no action here.
Errors are of three kinds: `transient` (timeout, dependency unavailable),
`limited` (rate limited, with the `retryAfterMs` it carries, 0 if none) and
`fatal` (everything that is not retried, including results that fail the schema
or the size limit). Redaction and summaries are left out. A call that is blocked
before it reaches the connector is traced with `attempts` = 1 (the default of
`failure`), although docs/tool-contracts.md line 133 counts accesses only; the
model follows the code, and `attempts`, the variable, counts the accesses.

### RegistryRuntime

A probe is named after the request it was started for. `Reject` is the `catch`
handler: it drops the shared promise, whichever probe that is by then.

### SessionMerge

The state is one record, `case`: the confirmed target and the candidate, the
facts merged so far, recorded conflicts and tool errors, and the capabilities
the connector lacks. Each merge function is an operator from a case to a case,
as in the code, and `Classification` is `diagnose` with its fixed order of
rules. An action is one completed tool call: the merge of its answer, for any
argument the model may choose and any answer, and the diagnosis that the agent
refreshes right after it (`Refresh`). `NextRound` is the next chat request, whose
text may name another candidate. `disputed` is history: a result contradicted
the target while one was confirmed.

Data is abstracted to what the rules tell apart. A message is not existing,
failed to be written, persisted, or persisted and delivered. A user is named by
the message they receive, a message has one delivery attempt, and a connection
fact says that the receiver was offline at that time; every other connection
fact leaves the classification alone. A page brings at most one event. The
conflict rules that compare a message with itself (persistence against status,
two records with one attempt or evidence id) are left out; without them the
model concludes wherever the code does, and in a few cases more. A candidate
other than the confirmed target starts a target switch, which is a protocol of
its own and not part of this module.

### TargetSwitch

`session` is the stored row, `run` the requests at work, each with its own copy
of the state, so that the optimistic save at the end is the only point where
they meet. `shown` and `applied` are history: what customers were shown, and the
decisions that were saved. Issue and switch identifiers are hashes in the code;
here they are what is hashed, the version, messages and time. A candidate is
reduced to its message, and a fact to the issue and candidate it was gathered
for, which is what a switch must not carry over.

### RunTrace and AgentRun

`AgentRun` has one action per stage of `runAgent`, and within the tool rounds
one per answer, because the calls of a model step run in parallel: `Repair` for
a call that the SDK rejects, `Answer` for one that executes. `diagnosis` is the
local variable, `kept` what the state holds; they differ after a repaired call,
as in the code. What an answer says is reduced to the diagnosis it leads to,
bounded by what `SessionMerge` proves of errors (`DiagnosesAfter`). `late` is the
abort signal. Errors are raised wherever the code can throw: the stores, the
model, a context that does not fit, a switch decision about nothing. `saved` says
what is stored of the run: nothing, the new session it has created, or its
result. INSERT and UPDATE commit by themselves, so that a `state_store` error at
`load` or `save` leaves either possible (the statement failed, or its answer was
lost), while a version conflict is told by an UPDATE that matched no row.

The recorder drops steps beyond its limit, and the store evicts its oldest
trace; a failed run writes its trace if it can.

### GoImConnector and ConnectedRuntime

`GoImConnector` has operators only: `CapabilitiesOf` and `FailureOf` of the three
probes, the gate before a call (`assertCapability`), and for each query method
what a raw response becomes (a page, a match status, a connection, or an
internal error). Two messages, two users and times in or out of the asked range
are enough to say that an answer is about something else. A record must be of the
message that was asked for. A delivery timeline must only not name another one
(its `messageId` defaults to the empty string), while each of its events must name
the asked one: a timeline that names none and has no event is taken for one about
the message that was asked for. `ConnectedRuntime` adds
the world: services go down and recover between the parts of a probe and
between probe and call, and each request keeps using the connector it was given.

### Workbench

Each handler of the page is two or three actions: the click, the step of the
server, and the arrival of the answer, which sets the state of a page that may
have changed since. The server is the ledger of `OneShotConfirmation` and one
version number per session. `touched` and `behind` are history of a prepare
call: whether the page changed while it was in flight, and whether the page
showed, or the call overtook, a question that had not come to an end.

### ConversationMemory and ModelContext

The dialogue has two writers: a run that ends records its exchange, and an
approved switch (`resolveTargetSwitch`, src/agent/state-merge.ts lines 314 and 315)
drops the entries and their summary at the start of a run. `dropped` is history:
the exchanges before the last switch. The runs that located the message and
offered the switch have each recorded an exchange, which is the guard.

A text is its length and a part of the context a number of units. Dropping is
one action per turn of a loop, in the order of `fitToCharacterBudget`; the update
of the status, which takes characters itself and may start the dropping anew,
is another, at most three times.

## Runs

Twelve runs, each for a question of its own. All pass but the three marked as
findings.

| Run | Bounds | Shows |
|---|---|---|
| `session` | 2 runs, TTL 2, clock 0..5 | safety and liveness of `SessionStore`: the clock allows two expirations, so three lives of the row, with a run that writes while another one re-creates |
| `session_overwrite` | 3 runs, TTL 1, clock 0..1 | **finding**: a save reaches a later life of the session |
| `draft` | 2 prepares, 2 confirms, 2 summaries, 1 diagnosis, versions to 3, token TTL 1, clock 0..1 | safety, refinement and liveness of `EscalationDraft`; two requests of each kind reach every lock conflict and the deadlock, three versions give two live tokens of one key |
| `draft_stale` | 1 prepare, 1 confirm, 2 lives | **finding**: confirm uses a stale session version |
| `tools` | 3 calls, 2 reads, 1 write, budget 2, deadline 3, Lag 1, clock 0..6 | safety of `ToolRegistry`; one call more than the budget, read timeout and backoff that fit into the deadline exactly once, a write timeout that does not, a `retryAfterMs` within and one beyond the limit |
| `runtime` | 3 requests, refresh 2, clock 0..2, 1 reset, 1 outage | `ConnectedRuntime`: an overtaken probe, one service that fails and recovers around it, any one capability lacking |
| `merge` | 2 messages, delivery results `attempted` and `failed`, 2 tool errors | safety of `SessionMerge`; two messages give every mix of own and foreign facts, one error prevents locating the message, and one is of the tool that leaves errors of its own |
| `merge_query` | 2 messages, all delivery results, no errors | **finding**: an empty query of another message is taken for one of the target |
| `agent` | 2 steps of 2 parallel calls, 2 calls admitted, 5 tokens of which 2 reserved, usages 1 and 4, traces of 7 steps, 2 traces, 1 other run | `AgentRun`: every stop rule, a budget exceeded by one call, a trace that overflows, and eviction up to the last place |
| `switch` | 2 requests, 2 messages, versions to 4, switch TTL 1, clock 0..1, 1 previous issue | `TargetSwitch`: offer, decision, a second one that overlaps it, and the expiry between them; version 4 is a switch back |
| `workbench` | 2 texts, 1 prepare, 2 confirms, 2 sessions of 2 versions | `Workbench`: an answer, a token and a confirmation each arriving after a reset, an edit or another question |
| `context` | texts of 1 and 6 characters, 4 exchanges, context of 10 characters | `ModelContext` and its memory: parts dropped one by one, a status that makes the context too long again, and a switch that finds a summary and is followed by exchanges that are summarized again |

Symmetry is used only in runs without liveness properties. Deadlock is checked
except in `agent` and `switch`: a run that has answered and a clock and version at
their bounds are ends.

### What the properties say

*Session.* `VersionIdentifiesState` is why comparing versions suffices: whoever
holds the current version of the current row holds its content. `OverwriteOnlyAcrossLives` says that the finding
below is the only way to lose a saved result. `ExpiryCopiesAgree` relates the
column that UPDATE and DELETE compare to the JSON field that load and save
compare; when they disagree, a session can be unloadable and uncreatable at once.
`OnlyExpiredRowsDeleted` is about the DELETE that follows a SELECT.

*Drafts.* `ImplementsOneShot` is the refinement of `OneShotConfirmation`:
whatever requests, locks, aborts and lost answers do, the outside sees offers
that are withdrawn or redeemed once, and ledger entries that never change.
`UsedTokensHaveDrafts` and `SuccessMeansDraft` are what makes a repeated confirm
harmless, `AtMostOneLiveToken` what makes a repeated prepare harmless.

*Tools.* `EndsInTime` bounds the overrun of the run's deadline by twice the
lateness of a timer; the bound is reached. `SuccessIsReused` and
`CachedAnswersAreReal` are the two halves of a correct cache, `BudgetRespected`
bounds the load on the connector, `TracesTellAll` relates the
traces to what was answered.

*Probes and connector.* `FailureNotCached` and `NoStaleRegistry` say what a shared
promise may be; `RecoverySeen` and `UnsupportedIsLacking` what follows for a
request that calls tools on it: an outage is never told as a missing feature,
and a service that has recovered is unavailable for one refresh interval at
most. `AnswersAreHonest` says that a call which is let through asks for something
the system has (no connector is used before all parts of its probe have settled),
and that what it is told is so. It assumes that services keep to their contract:
a response is true and as complete as it says, though it may be about another
message. Of the delivery timelines one kind escapes it, the empty one that names
no message.

*Merging.* Delivery and connection answers are accepted before a target is
confirmed, and lookups may confirm one at any time; `ConclusionFitsTarget` says
that `diagnose` catches every mix that results, `MessageIsTarget` that the
message fact is never part of it. `ArrivalOrderIrrelevant` is why parallel calls
are harmless: from a case without facts, the first status, delivery and
connection answers about the target commute. (Answers about other messages do
not: the first to confirm a target wins.) `ErrorsConcludeNothing` is the rule of
docs/agent-sequence.md that a tool error is no business conclusion.

*Switching.* `DecidedOnce` and `OfferHonoured` are the two sides of the optimistic
save: a decision that is repeated or raced is applied once, and one that nothing
has overtaken is not refused. `TargetMovesByCustomer` is an action property:
neither a model nor a tool moves a located session, and of the messages listed
for the customer none is chosen for them (before a message is located, extraction
sets the candidate). `FactsOfCurrentCase` says that what
was known of the message before stays behind.

*The run.* `ConflictMeansUnsaved` relates the HTTP status to what is stored: a
client that is told of a conflict may repeat its request, since nothing of the
run's result is in the session (a new session may have been created). Behind a
502 the result may be saved: the trace was not, or the answer to the save was
lost. `HiddenFailuresSucceeded` says when the flag
`lastToolFailed`, which each of several parallel answers overwrites, may forget a
failure. `ConclusionEndsSelection` holds although the stop condition reads the
kept diagnosis and not the last one. `TraceAvailable` and `TraceComplete` say what
a bounded recorder and a bounded store still tell. `RunEnds` is liveness with a
model that never answers.

*The page.* `TokenFitsText` says that what support confirms is what it reads, and
`PreparedAsShown` that a draft, for which the page does not name the diagnosis, is
prepared from the one it shows; each names the one kind of race that escapes it.
`PageSettles` says that the page does not stay busy.

*Context.* `OmissionsReported` says that a model is told of what it is not told,
`MemoryConserved` that the dialogue since the last approved switch is kept or
counted, without a gap, and that nothing of the one before is.

### Findings

1. **A save can overwrite a session it never loaded** (`session_overwrite`).
   README.md line 53 says that the `version` lock prevents concurrent
   overwriting. It does within one life of the row. A run that loaded version
   v, and works while the session expires and another request creates it
   again, saves over the new session as soon as that is at version v: versions
   start at 1 again. `lives`/`SavedAcrossLives` delimit this case exactly.
2. **A draft can be created from a state that has changed** (`draft_stale`).
   `escalation-draft-service.test.ts` line 160 promises that stale-state
   confirmations are rejected. The version confirm compares was read before the
   transaction, so a save in between is not seen; neither is a re-created
   session that reached the same version.
3. **An empty delivery query is not tied to its message** (`merge_query`).
   docs/diagnosis-state-machine.md line 259 asks for a confirmed absence of
   delivery events of the message. The session keeps only that *a* complete
   query was made: one about message A, made before message B is confirmed,
   yields `not_delivered` for B.

### Disagreements that a property delimits

These are not findings of a run of their own; a passing property says exactly
how far they go, or the model shows them in passing.

* A run that was stopped may answer with a conclusion: a step limit, the budget
  or a failed tool sets the status to "stopped" (src/agent/agent.ts line 585) and
  leaves the diagnosis that was reached, where docs/diagnosis-state-machine.md
  line 60 lets a stopped run only ask or escalate.
* A recorded conflict can be erased. docs/diagnosis-state-machine.md lines 268
  and 269 keep a conflict open until a person resolves it;
  `mergeDiagnosisResult` (src/agent/state-merge.ts line 518) replaces the
  session's conflicts by those of the diagnosis, which has none while the
  message is not located. `DisputesStayOpen` of `SessionMerge` states what is
  lost, and no run checks it because it does not hold.
* A token that arrives after its text was edited is held for the text it was
  prepared from, and an answer to a question of an earlier session replaces the
  result on the page (app/page.tsx lines 187 and 127): the exceptions of
  `TokenFitsText` and `PreparedAsShown`.
* The third update of the context status may leave the last cut unnamed
  (src/agent/model-context.ts lines 631 to 660): the exception of
  `OmissionsReported`.
* An empty timeline that names no message is accepted for any
  (src/connectors/go-im/mappings.ts line 246, src/connectors/go-im/schemas.ts line
  138), although a timeline or event of another message is refused: the exception
  of `CompletePageIsWhole`. If it says that it is complete, the page proves to the
  diagnosis that nothing was delivered.
* A service that sends more than it was asked for, without saying that it
  truncated, is cut to the limit silently
  (src/connectors/go-im/go-im-connector.ts line 300). `AnswersAreHonest` assumes
  that services do not.

## Fairness

* `SessionStore`: weak fairness of a run's own steps. Every step but `Begin` is
  enabled until it is taken: statements do not wait for each other.
* `EscalationDraft`: strong fairness of a request's steps, because a lock may be
  free and taken again while a request waits; InnoDB grants locks in the order
  of the queue. Requests need not start, and nothing need abort.
* `AgentRun`: weak fairness of the program's own steps and of answers that
  always come (the registry's within its deadline, the stores'), of the clock
  reaching the deadline, and of the abort of a model call after it. None of the
  model, which need never answer.
* `Workbench`: weak fairness of each request being served and its answer
  arriving, or failing: fetch does either. None of what the user does.

The other specifications state safety only.

## Proofs

`SessionStoreProofs` proves, for any set of runs, session lifetime and clock
bound, the type invariant and every safety property of the run `session`
(`TypeCorrect`, `OptimisticLock`, `WorkKept`, `VersionIsIdentity`,
`ExpiryAgreement`, `FreshRowSurvives`). The properties are not inductive: that
an UPDATE which matches is harmless depends on what the run selected several
steps ago. `IInv` therefore says of every copy a run holds (`snap`, `loaded`)
how it relates to the row: a copy from an earlier life is past; a copy of the
current life has a version not above the row's, and the same content when the
version is the same; the committed bases of one life lie below the version of
the row; a run about to UPDATE selected the version it had loaded. One lemma
per kind of statement (SELECT, DELETE, INSERT, UPDATE, and the steps that only
move `pc`) shows that it preserves this, and `InvStep` puts them together.

`ToolRegistryProofs` proves, for any finite set of calls, any queries, limits,
retry policy and timer lateness, the type invariant and every safety property
of the run `tools`: `CallBudget`, `SendsBounded`, `DeadlineKept`, `CacheHonest`,
`NoRepeatedRead`, `RateLimitRespected`, `EveryReturnTraced`. Its `IInv` has four
parts. `ProgressOK` ties how far a call is to what it has sent.
`TimerOK` relates the timer of every waiting call to the deadline: an attempt
that starts in time is due at the deadline at the latest, a sleep ends before
it, and an attempt after a sleep that overran starts at most `Lag` late and
gets one tick; it also says that a call which sleeps for a rate limited
connector sleeps as long as it was asked to. `CacheOK` says that the cache holds
an answer of a read exactly if a call of that read has succeeded, `HitOK` that
every answer from the cache has such a call. `BudgetRespected` is inductive
next to these; its cardinality rests on the finite-set theorems of the library.
For the traces the proof follows the sequence: a call returns in one step that
appends its trace, at a time no earlier than any before.

`SessionContentProofs` is about three modules. Of `SessionMerge` it proves, for any set of messages, delivery results, tool
errors and declared capabilities, the type invariant, `MessageIsTarget`,
`ConclusionFitsTarget` and `ErrorsConcludeNothing` (`TypeCorrect`,
`FactsOfTarget`, `ConclusionsOfTarget`, `NoConclusionFromErrors`). `Sound` is
inductive: a well-formed case whose message fact is about its target; one lemma
per merge function shows that it is kept. `ConclusionFitsTarget` then follows
from the conflict rules alone, which is the point of having them.
`NoConclusionFromErrors` rests on two monotonicity lemmas: what blocks a
diagnosis blocks it with more errors and conflicts, too (`MoreErrorsBlock`), and
the rules conclude no less with fewer missing capabilities (`FewerUnsupported`).
`AnswersCommute` (`ArrivalOrderIrrelevant`) computes what each of two answers
leaves for the other: facts of different fields, and a diagnosis that is computed
anew from all of them.

Of `ConversationMemory` it proves `DialogueConserved` (`MemoryConserved`), for
dialogues, texts and limits of any size and any number of switches, by induction
over the steps (`MemoryStep`, `SwitchStep`); what
`Characters` adds up is defined by recursion over the list of entries, and the
proof shows first that such a function exists and is the only one. Of
`ModelContext` it proves `ContextTypeCorrect` and `OmissionsTold`. What is
reported is always among what is omitted, but may lag behind it while a status is
still too long; `ContextInv` says in which phase and attempt it may.

`EscalationDraftProofs` proves, for any requests, summaries, diagnoses and
bounds, the type invariant, the four safety invariants (`OneLiveToken`,
`RevokedIsFinal`, `UseMeansDraft`, `SuccessIsHonest`) and the refinement
(`Refinement`: `Spec => ImplementsOneShot`). The invariants hold because of the
locks, and say nothing of them; `IInv` therefore says who holds which lock at
which point of its transaction (`PrepareLocksOK`, `ConfirmLocksOK`) and what a
request knows while it does (`ConfirmOK`: the draft that a confirm has read under
the lock of its row is still what the table holds). The refinement has a case
per action. All map to stutters but three: the commit of a prepare is an
`Offer`, which withdraws the offers of its key, and the commit of a confirm that
reuses or inserts a draft is a `Redeem`. What a lock guarantees is needed for
exactly these. `DraftsAreFinal` is a consequence of the refinement: the ledger
only ever fills an empty entry, so that no later request changes a draft.
`SomeoneProceeds` is the part of `RequestsAnswered` that the prover reaches: the
requests never all wait for each other. A prepare locks the diagnosis before the
rows, a confirm its row before the gap, so that who waits, waits for one further
on; only confirms at their INSERT wait in a circle, which `ConfirmDeadlock` breaks.

`ConnectedRuntimeProofs` proves, for any requests, refresh interval, resets and
outages, the type invariants, `ProbesAreBounded` of the registry alone (the
inductive form counts what every dropped promise and every used-up interval
pays for, with the finite-set theorems) and the five invariants of the run
`runtime`. `PromiseOK` is the heart: the shared promise belongs to a probe that
did not fail and whose start is `createdAt`, although a `Reject` drops whichever
promise is there. What each part of a probe found is then related to the state
of its service at a time between the start of the probe and now.
`HonestAnswers` rests on this for the calls that are let through (`LetThrough`),
and for the responses on one lemma per query method. The registry
with its connector only does what the registry alone may do (`RuntimeIsRegistry`:
`ConnectedSpec => Spec`), which is how `RealProbesAreBounded` follows.

`TargetSwitchProofs` proves the type invariant, `DecisionIsFinal`,
`OffersAreHonoured`, `FactsStayWithCase` and the action property `TargetMoves` for any requests,
messages and bounds. Its `IInv` says of each run what it has made of the stored
state *as long as that is the version it has loaded* (`Follows`): only such a run
can save. A switch is older than every save of its decision (`AppliedOK`), so
that it is never offered again. The type invariant includes that an approval
archives at most `MaxIssues` issues; which ones it keeps (`Without`) is a
recursive function over the list.

`AgentRunProofs` proves, for every limit, budget and set of usages, the type
invariant, `BudgetHolds`, `ConflictsSaveNothing`, `ConclusionIsFinal`,
`FailuresAreTold`, `TraceStays` and `TraceTellsAll` (`TraceComplete`). Seven
small invariants carry them, each with a step per action:
`Phases` (a model call is only made while the reserve is left), `SessionSaved`
(what is stored at which stage, and why a run failed that has stored its result),
`Kept` (a diagnosis that is not kept comes with a failed call of this step),
`Recovery` (while the flag is down every failed call has a success after it; and
`FailureStops`: of the stop rules, one of failure comes first while it is up), and
`Stored` (the trace is at most `later` places from the end of the store), `Traced`
and `Typed`. `Traced` says that the steps of the recorder which are of tools and
security events are the traces of the tool context, or the first of them when
the recorder is full (`Synced`); that a failed call is among them while the run
says that a tool has failed or stops for it (`FailureTraced`); and what a
finished trace ends with (`Complete`). What `StepsOf` picks of a list is determined for
lists of any length, and changes by one step when one is appended.

`WorkbenchProofs` proves the type invariant, `HeldTextIsShown`,
`ShownIsPrepared` and `ConfirmationIsTrue` for any texts, calls and sessions. `Fits` extends
`TokenFitsText` to the tokens that may still arrive. `ShownIsPrepared` needs what
relates page and server: a question in flight may be about a session that was
reset, but then the session on the page is new (`Asked`); a page at rest shows
what its session has, if that has anything (`PageCurrent`); and so does a call
that the server has not seen (`SentCurrent`). `ConfirmationIsTrue` is what the
whole workflow is for, from the click to the table: support is told of a
confirmed draft only if the text of its prepare call is the one that stands. It
needs that a token the page can hold was offered for the text of its call
(`Offered`), and that no step changes an entry of the ledger (`Confirmed`).
`ServerKeepsLedger` shows that the server of this model only takes the steps of
the ledger that `EscalationDraft` implements, so that what is proved there of its
locks and aborts is what the page relies on here. `PreparingHasCall` is the part of
`PageSettles` that the prover reaches.

The constants are assumed to be of their kinds (`...Assumption` in the modules,
evaluated by TLC with every run); that `None` is no message, record or token is
one of these assumptions.

Every safety invariant and every action property that a passing run checks is
proved, and every type invariant. Some theorems have no run of their own
(`TypeCorrect`, `ProbesAreBounded`, `SendsBounded`, `ConfirmationIsTrue`,
`DraftsAreFinal`, `SomeoneProceeds`, ...); they rest on definitions that runs
exercise.

Recursion. `StepsOf`, `Characters` and `Without` are recursive functions over the
indices of a list, because the prover has no definition of `SelectSeq` and of the
folds to expand. The induction they need is that of a set of naturals: one that
is not empty has a least element (`Least`, from the library's theorem that `<` is
well-founded on `Nat`), hence `Induction`.

TLC alone checks liveness (`RequestsAnswered` of the sessions and of the drafts,
`RunEnds`, `PageSettles`) and all that rests on fairness, which the prover does
not reach.

## Not modelled

* `InMemoryStateStore` and the in-memory draft store: test doubles in which every
  operation is one step. `MySqlStateStore.delete` is not called.
* The draft tool (`src/tools/create-escalation-draft.ts`): registered, but the
  agent does not offer it to the model; staff use the escalation workflow.
* Capacity limits of single lists in a session (evidence, conflicts, recent
  results), and the conflicts of a message with itself (persistence against
  status, two records with one attempt or evidence id): the rules without them
  are the ones whose order matters.
* Text: prompts, the extraction prompt, replies and templates, summaries,
  redaction and hashing. What a model answers is an input of the models, with
  the filters the code applies to it.
* Parsing of configuration and requests, identity headers, the gRPC transport
  and its schemas beyond what the properties of `GoImConnector` tell apart.
* The fake connector and the evaluation harness (`eval/`): fixtures and offline
  measurements, sequential and without a state that the system depends on.
* Refresh interval 0, which probes on every request: there is nothing shared.
