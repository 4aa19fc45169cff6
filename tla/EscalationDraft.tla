--------------------------- MODULE EscalationDraft --------------------------
(***************************************************************************)
(* The prepare/confirm workflow of escalation drafts:                      *)
(* src/application/escalation-draft-workflow.ts, src/tools/                *)
(* escalation-draft-service.ts and the transactions of src/persistence/    *)
(* mysql/mysql-escalation-draft-store.ts (InnoDB, REPEATABLE READ).        *)
(*                                                                         *)
(* Both requests first load the session row, outside the transaction, and  *)
(* then run one transaction.  All reads of the transactions are locking    *)
(* reads, so a transaction is modelled by the locks it takes step by step  *)
(* and by a commit that applies its writes; a rollback only releases the   *)
(* locks.  The session is an external actor here: chat requests save it    *)
(* (a version more), it expires and it is created again.                   *)
(***************************************************************************)
EXTENDS Integers

CONSTANTS
    Prepares,    \* prepare requests; each issues the token of its own name
    Confirms,    \* confirm requests
    Summaries,   \* the summaries support staff can write
    Diagnoses,   \* escalation diagnoses a run can reach
    None,        \* no diagnosis, no draft, no lock, no token
    TokenTTL,    \* confirmationTtlMs, in clock ticks
    MaxTime, MaxVersion, MaxLife    \* bounds of the clock and the session

ASSUME NoneAssumption == None \notin Prepares \cup Confirms \cup Diagnoses
ASSUME RequestAssumption == Prepares \cap Confirms = {}
ASSUME BoundAssumption ==
    /\ TokenTTL \in Nat \ {0}
    /\ MaxTime \in Nat /\ MaxVersion \in Nat \ {0} /\ MaxLife \in Nat

VARIABLES
    now,        \* the clock of the server
    session,    \* the session row: life, version (0: absent) and diagnosis
    pcP, pcC,   \* the next step of each request
    base,       \* prepare: the life and version of the session it loaded
    key,        \* prepare: idempotencyKey
    content,    \* prepare: the summary, all that contentHash adds to the key
    expires,    \* prepare: expiresAt of the confirmation
    tok, seen,  \* confirm: its token and the session version it loaded
    at,         \* confirm: now() of the service call
    issued, used, revoked,  \* draft_confirmations: rows, used_at, revoked_at
    drafts,     \* agent_drafts: the confirmation each key's draft came from
    diagLock,   \* row lock of diagnosis_results
    rowLock,    \* row locks of draft_confirmations
    gapLock     \* gap locks of agent_drafts below an absent key

sessionVars == <<now, session>>
prepareVars == <<pcP, base, key, content, expires>>
confirmVars == <<pcC, tok, seen, at>>
tables == <<issued, used, revoked, drafts>>
locks == <<diagLock, rowLock, gapLock>>
vars == <<sessionVars, prepareVars, confirmVars, tables, locks>>

-----------------------------------------------------------------------------
\* createIdempotencyKey: the issue belongs to one life of the session.
Keys == (1..MaxLife) \X Diagnoses

NoKey == <<0, None>>

PrepareBusy == {"begin", "lock", "revoke", "commit"}
ConfirmBusy == {"begin", "check", "select", "reuse", "insert"}

TypeOK ==
    /\ now \in Nat
    /\ session \in [life : 0..MaxLife, version : 0..MaxVersion,
                    diagnosis : Diagnoses \cup {None}]
    /\ pcP \in [Prepares -> PrepareBusy \cup {"idle", "done", "failed"}]
    /\ pcC \in [Confirms -> ConfirmBusy \cup {"idle", "done", "failed"}]
    /\ base \in [Prepares -> [life : 0..MaxLife, version : 0..MaxVersion]]
    /\ key \in [Prepares -> Keys \cup {NoKey}]
    /\ content \in [Prepares -> Summaries]
    /\ expires \in [Prepares -> Nat]
    /\ tok \in [Confirms -> Prepares \cup {None}]
    /\ seen \in [Confirms -> 0..MaxVersion]
    /\ at \in [Confirms -> Nat]
    /\ issued \in SUBSET Prepares
    /\ used \in SUBSET issued
    /\ revoked \in SUBSET issued
    /\ drafts \in [Keys -> Prepares \cup {None}]
    /\ diagLock \in [Keys -> Prepares \cup {None}]
    /\ rowLock \in [Prepares -> Prepares \cup Confirms \cup {None}]
    /\ gapLock \in [Keys -> SUBSET Confirms]

Init ==
    /\ now = 0
    /\ session = [life |-> 0, version |-> 0, diagnosis |-> None]
    /\ pcP = [p \in Prepares |-> "idle"]
    /\ pcC = [c \in Confirms |-> "idle"]
    /\ base = [p \in Prepares |-> [life |-> 0, version |-> 0]]
    /\ key = [p \in Prepares |-> NoKey]
    /\ content \in [Prepares -> Summaries]
    /\ expires = [p \in Prepares |-> 0]
    /\ tok = [c \in Confirms |-> None]
    /\ seen = [c \in Confirms |-> 0]
    /\ at = [c \in Confirms |-> 0]
    /\ issued = {} /\ used = {} /\ revoked = {}
    /\ drafts = [k \in Keys |-> None]
    /\ diagLock = [k \in Keys |-> None]
    /\ rowLock = [p \in Prepares |-> None]
    /\ gapLock = [k \in Keys |-> {}]

-----------------------------------------------------------------------------
(* Mutated forms.                                                          *)

DiagnosisLockIgnored(p) == TRUE

ConfirmableRevoked(c) ==
    /\ base[tok[c]].version = seen[c]
    /\ expires[tok[c]] > at[c]

RedeemedWithoutMark(c) == used

SameContentUnchecked(c) == TRUE

DeadlockUndetected(c) == FALSE

-----------------------------------------------------------------------------
(* The session, as the chat requests change it.                            *)

SessionCreated ==
    /\ session.version = 0
    /\ session.life < MaxLife
    /\ session' = [life |-> session.life + 1, version |-> 1, diagnosis |-> None]
    /\ UNCHANGED <<now, prepareVars, confirmVars, tables, locks>>

\* A run saves; its diagnosis recommends escalation, or not (None).
SessionSaved ==
    /\ session.version \in 1..(MaxVersion - 1)
    /\ \E d \in Diagnoses \cup {None} :
          session' = [session EXCEPT !.version = @ + 1, !.diagnosis = d]
    /\ UNCHANGED <<now, prepareVars, confirmVars, tables, locks>>

SessionExpired ==
    /\ session.version # 0
    /\ session' = [session EXCEPT !.version = 0, !.diagnosis = None]
    /\ UNCHANGED <<now, prepareVars, confirmVars, tables, locks>>

Tick ==
    /\ now < MaxTime
    /\ now' = now + 1
    /\ UNCHANGED <<session, prepareVars, confirmVars, tables, locks>>

-----------------------------------------------------------------------------
(* prepare                                                                 *)

Ready == session.version # 0 /\ session.diagnosis # None

GotoP(p, label) == pcP' = [pcP EXCEPT ![p] = label]

\* What a transaction of prepare holds is released by commit and rollback.
ReleaseP(p) ==
    /\ diagLock' = [k \in Keys |-> IF diagLock[k] = p THEN None ELSE diagLock[k]]
    /\ rowLock' = [q \in Prepares |-> IF rowLock[q] = p THEN None ELSE rowLock[q]]
    /\ UNCHANGED gapLock

PrepareRejected(p) ==
    /\ pcP[p] = "idle"
    /\ ~Ready
    /\ GotoP(p, "failed")
    /\ UNCHANGED <<sessionVars, base, key, content, expires, confirmVars,
                   tables, locks>>

PrepareLoad(p) ==
    /\ pcP[p] = "idle"
    /\ Ready
    /\ base' = [base EXCEPT ![p] = [life |-> session.life,
                                    version |-> session.version]]
    /\ key' = [key EXCEPT ![p] = <<session.life, session.diagnosis>>]
    /\ GotoP(p, "begin")
    /\ UNCHANGED <<sessionVars, content, expires, confirmVars, tables, locks>>

TokenExpiry(p) == now + TokenTTL

PrepareBegin(p) ==
    /\ pcP[p] = "begin"
    /\ expires' = [expires EXCEPT ![p] = TokenExpiry(p)]
    /\ GotoP(p, "lock")
    /\ UNCHANGED <<sessionVars, base, key, content, confirmVars, tables, locks>>

\* The lock INSERT ... ON DUPLICATE KEY UPDATE waits for: another prepare of
\* the same diagnosis holds it until it commits.
DiagnosisLockFree(p) == diagLock[key[p]] = None

PrepareLock(p) ==
    /\ pcP[p] = "lock"
    /\ DiagnosisLockFree(p)
    /\ diagLock' = [diagLock EXCEPT ![key[p]] = p]
    /\ GotoP(p, "revoke")
    /\ UNCHANGED <<sessionVars, base, key, content, expires, confirmVars,
                   tables, rowLock, gapLock>>

\* The rows the UPDATE ... SET revoked_at matches: same run and key, neither
\* used nor revoked.  Every save is by a run of its own, so the run is the
\* session state the confirmation was prepared from.
Revocable(p) ==
    {q \in issued : /\ key[q] = key[p] /\ base[q] = base[p]
                    /\ q \notin used \cup revoked}

Siblings(p) == {q \in issued : key[q] = key[p]}

\* The UPDATE locks every row of the key, the ones it does not match too, and
\* waits for the rows a confirm has locked.
PrepareRevoke(p) ==
    /\ pcP[p] = "revoke"
    /\ \A q \in Siblings(p) : rowLock[q] = None
    /\ rowLock' = [q \in Prepares |-> IF q \in Siblings(p) THEN p ELSE rowLock[q]]
    /\ GotoP(p, "commit")
    /\ UNCHANGED <<sessionVars, base, key, content, expires, confirmVars,
                   tables, diagLock, gapLock>>

\* The answer with the token may be lost after the commit.
PrepareCommit(p) ==
    /\ pcP[p] = "commit"
    /\ issued' = issued \cup {p}
    /\ revoked' = revoked \cup {q \in Revocable(p) : rowLock[q] = p}
    /\ \E label \in {"done", "failed"} : GotoP(p, label)
    /\ ReleaseP(p)
    /\ UNCHANGED <<sessionVars, base, key, content, expires, confirmVars, used,
                   drafts>>

PrepareAbort(p) ==
    /\ pcP[p] \in PrepareBusy
    /\ GotoP(p, "failed")
    /\ ReleaseP(p)
    /\ UNCHANGED <<sessionVars, base, key, content, expires, confirmVars,
                   tables>>

-----------------------------------------------------------------------------
(* confirm                                                                 *)

GotoC(c, label) == pcC' = [pcC EXCEPT ![c] = label]

ReleaseC(c) ==
    /\ rowLock' = [q \in Prepares |-> IF rowLock[q] = c THEN None ELSE rowLock[q]]
    /\ gapLock' = [k \in Keys |-> gapLock[k] \ {c}]
    /\ UNCHANGED diagLock

\* Any token a client received, also one it has confirmed before.
ConfirmLoad(c, p) ==
    /\ pcC[c] = "idle"
    /\ pcP[p] = "done"
    /\ tok' = [tok EXCEPT ![c] = p]
    /\ seen' = [seen EXCEPT ![c] = session.version]
    /\ GotoC(c, IF session.version = 0 THEN "failed" ELSE "begin")
    /\ UNCHANGED <<sessionVars, prepareVars, at, tables, locks>>

ConfirmBegin(c) ==
    /\ pcC[c] = "begin"
    /\ at' = [at EXCEPT ![c] = now]
    /\ GotoC(c, "check")
    /\ UNCHANGED <<sessionVars, prepareVars, tok, seen, tables, locks>>

\* assertConfirmationMatches, revoked, expired.
Confirmable(c) ==
    /\ base[tok[c]].version = seen[c]
    /\ tok[c] \notin revoked
    /\ expires[tok[c]] > at[c]

\* SELECT ... FOR UPDATE of the confirmation, and the checks on it.
ConfirmCheck(c) ==
    /\ pcC[c] = "check"
    /\ rowLock[tok[c]] = None
    /\ IF Confirmable(c)
       THEN /\ rowLock' = [rowLock EXCEPT ![tok[c]] = c]
            /\ GotoC(c, "select")
       ELSE /\ GotoC(c, "failed")
            /\ UNCHANGED rowLock
    /\ UNCHANGED <<sessionVars, prepareVars, tok, seen, at, tables, diagLock,
                   gapLock>>

KeyOf(c) == key[tok[c]]

\* The draft found has the content of this confirmation.
SameContent(c) == content[drafts[KeyOf(c)]] = content[tok[c]]

\* SELECT ... FOR UPDATE of the draft finds one: reuse it, or
\* idempotency_conflict.
ConfirmSelectFound(c) ==
    /\ pcC[c] = "select"
    /\ drafts[KeyOf(c)] # None
    /\ IF SameContent(c)
       THEN GotoC(c, "reuse") /\ UNCHANGED locks
       ELSE GotoC(c, "failed") /\ ReleaseC(c)
    /\ UNCHANGED <<sessionVars, prepareVars, tok, seen, at, tables>>

\* It finds none: a used token is a replay; otherwise the gap is locked, which
\* does not keep another transaction from locking it too.
ConfirmSelectMissing(c) ==
    /\ pcC[c] = "select"
    /\ drafts[KeyOf(c)] = None
    /\ IF tok[c] \in used
       THEN GotoC(c, "failed") /\ ReleaseC(c)
       ELSE /\ GotoC(c, "insert")
            /\ gapLock' = [gapLock EXCEPT ![KeyOf(c)] = @ \cup {c}]
            /\ UNCHANGED <<diagLock, rowLock>>
    /\ UNCHANGED <<sessionVars, prepareVars, tok, seen, at, tables>>

\* markConfirmationUsed
UsedAfter(c) == used \cup {tok[c]}

\* The answer may be lost after the commit.
ConfirmReuse(c) ==
    /\ pcC[c] = "reuse"
    /\ used' = UsedAfter(c)
    /\ \E label \in {"done", "failed"} : GotoC(c, label)
    /\ ReleaseC(c)
    /\ UNCHANGED <<sessionVars, prepareVars, tok, seen, at, issued, revoked,
                   drafts>>

\* The INSERT waits for every other gap lock, then the transaction commits.
ConfirmInsert(c) ==
    /\ pcC[c] = "insert"
    /\ gapLock[KeyOf(c)] = {c}
    /\ drafts' = [drafts EXCEPT ![KeyOf(c)] = tok[c]]
    /\ used' = UsedAfter(c)
    /\ \E label \in {"done", "failed"} : GotoC(c, label)
    /\ ReleaseC(c)
    /\ UNCHANGED <<sessionVars, prepareVars, tok, seen, at, issued, revoked>>

\* Two INSERTs wait for each other's gap lock: InnoDB rolls one back.
Deadlocked(c) ==
    \E other \in gapLock[KeyOf(c)] \ {c} : pcC[other] = "insert"

ConfirmDeadlock(c) ==
    /\ pcC[c] = "insert"
    /\ Deadlocked(c)
    /\ GotoC(c, "failed")
    /\ ReleaseC(c)
    /\ UNCHANGED <<sessionVars, prepareVars, tok, seen, at, tables>>

ConfirmAbort(c) ==
    /\ pcC[c] \in ConfirmBusy
    /\ GotoC(c, "failed")
    /\ ReleaseC(c)
    /\ UNCHANGED <<sessionVars, prepareVars, tok, seen, at, tables>>

-----------------------------------------------------------------------------
PrepareStep(p) ==
    \/ PrepareBegin(p) \/ PrepareLock(p) \/ PrepareRevoke(p) \/ PrepareCommit(p)

ConfirmStep(c) ==
    \/ ConfirmBegin(c) \/ ConfirmCheck(c)
    \/ ConfirmSelectFound(c) \/ ConfirmSelectMissing(c)
    \/ ConfirmReuse(c) \/ ConfirmInsert(c) \/ ConfirmDeadlock(c)

\* No request is being served.
Quiet ==
    /\ \A p \in Prepares : pcP[p] \notin PrepareBusy
    /\ \A c \in Confirms : pcC[c] \notin ConfirmBusy
    /\ UNCHANGED vars

Next ==
    \/ SessionCreated \/ SessionSaved \/ SessionExpired \/ Tick
    \/ \E p \in Prepares : \/ PrepareRejected(p) \/ PrepareLoad(p)
                           \/ PrepareStep(p) \/ PrepareAbort(p)
    \/ \E c \in Confirms : \/ \E p \in Prepares : ConfirmLoad(c, p)
                           \/ ConfirmStep(c) \/ ConfirmAbort(c)
    \/ Quiet

Spec == Init /\ [][Next]_vars

\* Server and database keep executing what they started.  A lock wait ends
\* when the lock is granted again and again, which InnoDB's queue ensures:
\* strong fairness of the steps that wait.
FairSpec ==
    /\ Spec
    /\ \A p \in Prepares : SF_vars(PrepareStep(p))
    /\ \A c \in Confirms : SF_vars(ConfirmStep(c))

-----------------------------------------------------------------------------
(* Properties.                                                             *)

Live(p) == p \in issued /\ p \notin used \cup revoked

\* Concurrent prepares of one diagnosis of one run leave at most one token
\* that can create a draft: the later one revokes the earlier, although the
\* revoking UPDATE cannot see a confirmation that is not committed yet.
AtMostOneLiveToken ==
    \A p, q \in Prepares :
        (Live(p) /\ Live(q) /\ key[p] = key[q] /\ base[p] = base[q]) => p = q

\* A revoked token is never redeemed and a redeemed one never revoked, with
\* prepare and confirm racing for the row.
RevokedNeverUsed == used \cap revoked = {}

\* A token is consumed exactly when a draft with its content stands under its
\* key: no draft without a consumed token, no consumed token without its
\* draft, so that "confirmation_replayed" cannot hit a client that repeats an
\* unanswered confirm.
UsedTokensHaveDrafts ==
    /\ \A p \in used : /\ drafts[key[p]] # None
                       /\ content[drafts[key[p]]] = content[p]
    /\ \A k \in Keys : drafts[k] # None =>
          drafts[k] \in used /\ key[drafts[k]] = k

\* The client is told of success only if what it confirmed is in the draft.
SuccessMeansDraft ==
    \A c \in Confirms :
        pcC[c] = "done" => /\ drafts[KeyOf(c)] # None
                           /\ content[drafts[KeyOf(c)]] = content[tok[c]]

\* Prepare and confirm, with all their locks and aborts, only ever take the
\* steps of the one-shot ledger.
Promise == INSTANCE OneShotConfirmation WITH
    Tokens <- Prepares,
    Contents <- Summaries,
    Nothing <- None,
    terms <- [p \in Prepares |->
                 IF p \in issued
                 THEN [key |-> key[p], content |-> content[p]] ELSE None],
    offered <- {p \in Prepares : Live(p)},
    ledger <- [k \in Keys |->
                 IF drafts[k] = None THEN None ELSE content[drafts[k]]]

ImplementsOneShot == Promise!Spec

\* What escalation-draft-service.test.ts calls rejecting stale-state
\* confirmations: a new draft is written only while the session is still the
\* one the confirmation was prepared from.
StaleStateRejected ==
    [][\A k \in Keys : drafts'[k] # drafts[k] =>
          /\ session.life = base[drafts'[k]].life
          /\ session.version = base[drafts'[k]].version]_vars

\* No request waits for ever: lock waits end, deadlocks are broken, and since
\* each request is sent once, what is quiet again and again has answered all.
RequestsAnswered ==
    []<>(/\ \A p \in Prepares : pcP[p] \notin PrepareBusy
         /\ \A c \in Confirms : pcC[c] \notin ConfirmBusy)
=============================================================================
