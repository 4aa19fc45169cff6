---------------------------- MODULE SessionStore ----------------------------
(***************************************************************************)
(* The session row of the diagnosis agent (src/persistence/mysql/          *)
(* mysql-state-store.ts) and the runs that share it (the load/create and   *)
(* save skeleton of runAgent in src/agent/agent.ts).                       *)
(*                                                                         *)
(* One session identity (tenant, actor, session) is one row of table       *)
(* agent_sessions.  A store call is several SQL statements on a pooled     *)
(* connection without a transaction, so every statement is a step of its   *)
(* own and other runs, and the clock, move between them.  Each statement   *)
(* is atomic.  What a run computes between its load and its save is one    *)
(* step: it reads and writes only the run's own copy of the state.         *)
(*                                                                         *)
(* The session state itself is abstracted to "work", the set of runs whose *)
(* results it contains; that is what a lost update loses.                  *)
(***************************************************************************)
EXTENDS Integers

CONSTANTS
    Runs,      \* requests of POST /api/chat with the same session identity
    TTL,       \* sessionTtlMs, in clock ticks
    MaxTime    \* bound on the clock

ASSUME TTLAssumption == TTL \in Nat \ {0}
ASSUME MaxTimeAssumption == MaxTime \in Nat

VARIABLES
    now,        \* the clock of the server
    row,        \* the row, or NoRow
    lives,      \* how many rows were inserted so far (history: names a row)
    pc,         \* the statement each run executes next
    startedAt,  \* now() when loadOrCreateState was entered
    retried,    \* create answered already_exists and load is called again
    snap,       \* the row the last SELECT of the run returned
    at,         \* this.now() of the store call in progress
    loaded,     \* the state the run works from (its version is expectedVersion)
    commit      \* history: the life and version the run's UPDATE replaced

vars == <<now, row, lives, pc, startedAt, retried, snap, at, loaded, commit>>

-----------------------------------------------------------------------------
(***************************************************************************)
(* A row: "life" tells a re-created row from the deleted one it replaces;  *)
(* expiresAt is the column the DELETE and the UPDATE compare, jsonExpiresAt *)
(* the field inside state_json that load and save compare.                 *)
(***************************************************************************)
Row == [life : Nat, version : Nat, expiresAt : Nat, jsonExpiresAt : Nat,
        work : SUBSET Runs]

NoRow == [life |-> 0, version |-> 0, expiresAt |-> 0, jsonExpiresAt |-> 0,
          work |-> {}]

NotCommitted == [life |-> 0, base |-> 0]

Busy == {"loadSelect", "loadCheck", "loadDelete", "createCheck", "insert",
         "working", "saveSelect", "saveCheck", "saveDelete", "update",
         "conflictSelect", "saved"}

Step == {"idle", "done", "failed"} \cup Busy

TypeOK ==
    /\ now \in Nat
    /\ row \in Row
    /\ lives \in Nat
    /\ pc \in [Runs -> Step]
    /\ startedAt \in [Runs -> Nat]
    /\ retried \in [Runs -> BOOLEAN]
    /\ snap \in [Runs -> Row]
    /\ at \in [Runs -> Nat]
    /\ loaded \in [Runs -> Row]
    /\ commit \in [Runs -> [life : Nat, base : Nat]]

Init ==
    /\ now = 0
    /\ row = NoRow
    /\ lives = 0
    /\ pc = [r \in Runs |-> "idle"]
    /\ startedAt = [r \in Runs |-> 0]
    /\ retried = [r \in Runs |-> FALSE]
    /\ snap = [r \in Runs |-> NoRow]
    /\ at = [r \in Runs |-> 0]
    /\ loaded = [r \in Runs |-> NoRow]
    /\ commit = [r \in Runs |-> NotCommitted]

-----------------------------------------------------------------------------
(* Mutated forms, each a plausible slip in the statement it stands for.    *)

DeleteAnyRow(t) == NoRow

UpdateIgnoringVersion(r) == row # NoRow /\ row.expiresAt > at[r]

SavedRowRenewed(r) ==
    [row EXCEPT !.version = snap[r].version + 1,
                !.jsonExpiresAt = at[r] + TTL,
                !.work = loaded[r].work \cup {r}]

SavedRowWithoutBump(r) ==
    [row EXCEPT !.version = snap[r].version,
                !.jsonExpiresAt = snap[r].jsonExpiresAt,
                !.work = loaded[r].work \cup {r}]

AfterSaveConflictWaiting(r) == "conflictSelect"

-----------------------------------------------------------------------------
(* The statements and the values they write.                               *)

\* DELETE ... WHERE expires_at <= t: the row afterwards.
RowAfterDeleteExpired(t) == IF row.expiresAt <= t THEN NoRow ELSE row

\* The WHERE clause of UPDATE_SESSION_SQL.
UpdateMatches(r) ==
    /\ row # NoRow
    /\ row.version = loaded[r].version
    /\ row.expiresAt > at[r]

\* The row createAgentSessionState describes, inserted at version 1.
FreshRow(r) ==
    [life |-> lives + 1, version |-> 1, expiresAt |-> startedAt[r] + TTL,
     jsonExpiresAt |-> startedAt[r] + TTL, work |-> {}]

\* The row after UPDATE_SESSION_SQL: state_json (with createdAt and
\* expiresAt of the row selected before) and version are replaced, the
\* expires_at column is not.
SavedRow(r) ==
    [row EXCEPT !.version = snap[r].version + 1,
                !.jsonExpiresAt = snap[r].jsonExpiresAt,
                !.work = loaded[r].work \cup {r}]

Goto(r, label) == pc' = [pc EXCEPT ![r] = label]

-----------------------------------------------------------------------------
(* loadOrCreateState: load, then create, then load once more.              *)

Begin(r) ==
    /\ pc[r] = "idle"
    /\ startedAt' = [startedAt EXCEPT ![r] = now]
    /\ Goto(r, "loadSelect")
    /\ UNCHANGED <<now, row, lives, retried, snap, at, loaded, commit>>

\* What follows a load that returned null: create, or, after already_exists,
\* the error of create is thrown again.
AfterMissingLoad(r) == IF retried[r] THEN "failed" ELSE "createCheck"

LoadSelect(r) ==
    /\ pc[r] = "loadSelect"
    /\ snap' = [snap EXCEPT ![r] = row]
    /\ Goto(r, IF row = NoRow THEN AfterMissingLoad(r) ELSE "loadCheck")
    /\ UNCHANGED <<now, row, lives, startedAt, retried, at, loaded, commit>>

LoadCheckLive(r) ==
    /\ pc[r] = "loadCheck"
    /\ snap[r].jsonExpiresAt > now
    /\ at' = [at EXCEPT ![r] = now]
    /\ loaded' = [loaded EXCEPT ![r] = snap[r]]
    /\ Goto(r, "working")
    /\ UNCHANGED <<now, row, lives, startedAt, retried, snap, commit>>

LoadCheckExpired(r) ==
    /\ pc[r] = "loadCheck"
    /\ snap[r].jsonExpiresAt <= now
    /\ at' = [at EXCEPT ![r] = now]
    /\ Goto(r, "loadDelete")
    /\ UNCHANGED <<now, row, lives, startedAt, retried, snap, loaded, commit>>

LoadDelete(r) ==
    /\ pc[r] = "loadDelete"
    /\ row' = RowAfterDeleteExpired(at[r])
    /\ Goto(r, AfterMissingLoad(r))
    /\ UNCHANGED <<now, lives, startedAt, retried, snap, at, loaded, commit>>

CreateCheck(r) ==
    /\ pc[r] = "createCheck"
    /\ Goto(r, IF startedAt[r] + TTL <= now THEN "failed" ELSE "insert")
    /\ UNCHANGED <<now, row, lives, startedAt, retried, snap, at, loaded,
                   commit>>

Insert(r) ==
    /\ pc[r] = "insert"
    /\ row = NoRow
    /\ row' = FreshRow(r)
    /\ lives' = lives + 1
    /\ loaded' = [loaded EXCEPT ![r] = FreshRow(r)]
    /\ Goto(r, "working")
    /\ UNCHANGED <<now, startedAt, retried, snap, at, commit>>

\* Duplicate primary key: already_exists, and the run loads the winner's row.
InsertDuplicate(r) ==
    /\ pc[r] = "insert"
    /\ row # NoRow
    /\ retried' = [retried EXCEPT ![r] = TRUE]
    /\ Goto(r, "loadSelect")
    /\ UNCHANGED <<now, row, lives, startedAt, snap, at, loaded, commit>>

-----------------------------------------------------------------------------
(* The run itself, and save.                                               *)

\* The agent loop ends.  A pending target switch without a decision is
\* answered without a save.
Work(r) ==
    /\ pc[r] = "working"
    /\ \E label \in {"saveSelect", "done"} : Goto(r, label)
    /\ UNCHANGED <<now, row, lives, startedAt, retried, snap, at, loaded,
                   commit>>

SaveSelect(r) ==
    /\ pc[r] = "saveSelect"
    /\ snap' = [snap EXCEPT ![r] = row]
    /\ Goto(r, IF row = NoRow THEN "failed" ELSE "saveCheck")
    /\ UNCHANGED <<now, row, lives, startedAt, retried, at, loaded, commit>>

\* Expired first, then the expected version.
AfterSaveCheck(r) ==
    IF snap[r].jsonExpiresAt <= now THEN "saveDelete"
    ELSE IF snap[r].version # loaded[r].version THEN "failed"
    ELSE "update"

SaveCheck(r) ==
    /\ pc[r] = "saveCheck"
    /\ at' = [at EXCEPT ![r] = now]
    /\ Goto(r, AfterSaveCheck(r))
    /\ UNCHANGED <<now, row, lives, startedAt, retried, snap, loaded, commit>>

SaveDelete(r) ==
    /\ pc[r] = "saveDelete"
    /\ row' = RowAfterDeleteExpired(at[r])
    /\ Goto(r, "failed")
    /\ UNCHANGED <<now, lives, startedAt, retried, snap, at, loaded, commit>>

Update(r) ==
    /\ pc[r] = "update"
    /\ UpdateMatches(r)
    /\ row' = SavedRow(r)
    /\ commit' = [commit EXCEPT ![r] = [life |-> row.life,
                                        base |-> row.version]]
    /\ Goto(r, "saved")
    /\ UNCHANGED <<now, lives, startedAt, retried, snap, at, loaded>>

\* affectedRows = 0
UpdateMissed(r) ==
    /\ pc[r] = "update"
    /\ ~UpdateMatches(r)
    /\ Goto(r, "conflictSelect")
    /\ UNCHANGED <<now, row, lives, startedAt, retried, snap, at, loaded,
                   commit>>

\* throwSaveConflict: every branch throws; an expired row is deleted first.
AfterSaveConflict(r) ==
    IF row # NoRow /\ row.jsonExpiresAt <= at[r] THEN "saveDelete" ELSE "failed"

ConflictSelect(r) ==
    /\ pc[r] = "conflictSelect"
    /\ Goto(r, AfterSaveConflict(r))
    /\ UNCHANGED <<now, row, lives, startedAt, retried, snap, at, loaded,
                   commit>>

\* The saved state is traced and answered.
Answer(r) ==
    /\ pc[r] = "saved"
    /\ Goto(r, "done")
    /\ UNCHANGED <<now, row, lives, startedAt, retried, snap, at, loaded,
                   commit>>

\* A statement, the model, a merge or, after the save, the trace store throws;
\* the acknowledgement of a committed UPDATE is lost; the process dies.
Fail(r) ==
    /\ pc[r] \in Busy
    /\ Goto(r, "failed")
    /\ UNCHANGED <<now, row, lives, startedAt, retried, snap, at, loaded,
                   commit>>

-----------------------------------------------------------------------------
RunStep(r) ==
    \/ LoadSelect(r) \/ LoadCheckLive(r) \/ LoadCheckExpired(r)
    \/ LoadDelete(r) \/ CreateCheck(r) \/ Insert(r) \/ InsertDuplicate(r)
    \/ Work(r)
    \/ SaveSelect(r) \/ SaveCheck(r) \/ SaveDelete(r)
    \/ Update(r) \/ UpdateMissed(r) \/ ConflictSelect(r) \/ Answer(r)

Tick ==
    /\ now < MaxTime
    /\ now' = now + 1
    /\ UNCHANGED <<row, lives, pc, startedAt, retried, snap, at, loaded,
                   commit>>

\* Every request is answered: nothing is left to do.
Quiet ==
    /\ \A r \in Runs : pc[r] \in {"done", "failed"}
    /\ UNCHANGED vars

Next ==
    \/ \E r \in Runs : Begin(r) \/ RunStep(r) \/ Fail(r)
    \/ Tick
    \/ Quiet

Spec == Init /\ [][Next]_vars

\* The server keeps executing what it started; nobody has to send a request.
FairSpec == Spec /\ \A r \in Runs : WF_vars(RunStep(r))

-----------------------------------------------------------------------------
(* Properties.                                                             *)

\* The optimistic lock: within one life of the row no version is replaced by
\* two runs, however their loads, checks and UPDATEs interleave
\* (mysql-state-store.ts, UPDATE ... WHERE version = ?).
OneWriterPerVersion ==
    \A r1, r2 \in Runs :
        /\ r1 # r2
        /\ commit[r1].life # 0
        /\ commit[r1].life = commit[r2].life
        => commit[r1].base # commit[r2].base

\* A version number identifies a state within one life: a run that still
\* holds the current version of the current row holds its current content, so
\* expectedVersion is a sound test of "nobody wrote since I loaded".
VersionIdentifiesState ==
    \A r \in Runs :
        /\ loaded[r].life # 0
        /\ loaded[r].life = row.life
        /\ loaded[r].version = row.version
        => loaded[r].work = row.work

\* Only an expired row is deleted: the DELETE of a run that saw an expired
\* row never removes the fresh row another run inserted in the meantime.
OnlyExpiredRowsDeleted ==
    [][(row # NoRow /\ row' = NoRow) => row.expiresAt <= now]_vars

\* What the version check is documented to prevent (README.md:53, concurrent
\* overwriting): the state of the row always contains the work of every run
\* whose save to that row succeeded.
NoConcurrentOverwrite ==
    \A r \in Runs :
        (row # NoRow /\ commit[r].life = row.life) => r \in row.work

\* A run saved to a row it had not loaded: it loaded an earlier row of the
\* session, which expired and was re-created while the run worked.
SavedAcrossLives ==
    \E r \in Runs : row # NoRow /\ commit[r].life = row.life
                   /\ loaded[r].life # row.life

\* That is the only way to lose work: as long as every save went to the row
\* its run had loaded, the row contains the work of all of them.
OverwriteOnlyAcrossLives == SavedAcrossLives \/ NoConcurrentOverwrite

\* The expiry is in the row twice, and save writes only the copy inside
\* state_json.  The copies agree, so that load, save and the two DELETE and
\* UPDATE conditions agree on whether the session lives, unless a run saved
\* across lives.
ExpiryCopiesAgree == SavedAcrossLives \/ row.jsonExpiresAt = row.expiresAt

\* Every request that entered the store is answered: the create/load retry of
\* two first requests, the conflict path and the expiry paths all end.
RequestsAnswered ==
    \A r \in Runs : pc[r] = "loadSelect" ~> pc[r] \in {"done", "failed"}
=============================================================================
