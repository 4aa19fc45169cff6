------------------------ MODULE EscalationDraftProofs -----------------------
(***************************************************************************)
(* Proofs about EscalationDraft for any requests, summaries, diagnoses and *)
(* bounds: what its locks guarantee, what the tables hold, and that it     *)
(* implements OneShotConfirmation.                                         *)
(***************************************************************************)
EXTENDS EscalationDraft, TLAPS

SessionOK == session.version # 0 => session.life # 0

\* A request with a transaction open has a key; a confirmation is issued by
\* the commit of its prepare, and only a token that came back is confirmed.
RequestsOK ==
    /\ \A p \in Prepares :
        /\ pcP[p] \in PrepareBusy => key[p] \in Keys
        /\ p \in issued => key[p] \in Keys /\ pcP[p] \in {"done", "failed"}
        /\ pcP[p] = "done" => p \in issued
    /\ \A c \in Confirms :
        pcC[c] # "idle" => tok[c] \in issued

InsideRow == {"select", "reuse", "insert"}

\* Which prepare holds which lock: it has locked all rows of its key, and no
\* other can issue one.
PrepareLocksOK ==
    /\ \A p \in Prepares, k \in Keys :
        diagLock[k] = p <=> pcP[p] \in {"revoke", "commit"} /\ key[p] = k
    /\ \A p, q \in Prepares :
        rowLock[q] = p <=> pcP[p] = "commit" /\ q \in issued /\ key[q] = key[p]

\* Which confirm holds which lock.
ConfirmLocksOK ==
    /\ \A c \in Confirms, q \in Prepares :
        rowLock[q] = c <=> pcC[c] \in InsideRow /\ tok[c] = q
    /\ \A c \in Confirms, k \in Keys :
        c \in gapLock[k] <=> pcC[c] = "insert" /\ key[tok[c]] = k

\* What a confirm that holds the row of its token knows.
ConfirmOK ==
    \A c \in Confirms :
        /\ pcC[c] \in InsideRow => tok[c] \notin revoked
        /\ pcC[c] = "insert" => drafts[KeyOf(c)] = None /\ tok[c] \notin used
        /\ pcC[c] = "reuse" => drafts[KeyOf(c)] # None /\ SameContent(c)

\* The locks say what a request may rely on, and the requests say which locks
\* they hold: what is known of the tables is inductive only together with both.
IInv ==
    /\ TypeOK
    /\ SessionOK
    /\ RequestsOK
    /\ PrepareLocksOK
    /\ ConfirmLocksOK
    /\ ConfirmOK
    /\ AtMostOneLiveToken
    /\ RevokedNeverUsed
    /\ UsedTokensHaveDrafts
    /\ SuccessMeansDraft

\* The session changes, the clock ticks, or nothing happens.
Outside ==
    UNCHANGED <<prepareVars, confirmVars, tables, locks>>

-----------------------------------------------------------------------------
(* The steps, by what they leave alone.                                    *)

\* What is not a step of a request leaves the requests and the tables alone.
LEMMA OutsideSteps ==
    SessionCreated \/ SessionSaved \/ SessionExpired \/ Tick \/ Quiet \/ UNCHANGED vars
        => Outside
BY DEF SessionCreated, SessionSaved, SessionExpired, Tick, Quiet, vars, Outside,
       prepareVars, confirmVars, tables, locks

\* The steps of Next, one by one.
LEMMA StepCases ==
    ASSUME [Next]_vars
    PROVE  \/ Outside
           \/ \E p \in Prepares :
                \/ PrepareRejected(p) \/ PrepareLoad(p) \/ PrepareBegin(p)
                \/ PrepareLock(p) \/ PrepareRevoke(p) \/ PrepareCommit(p)
                \/ PrepareAbort(p)
           \/ \E c \in Confirms :
                \/ \E p \in Prepares : ConfirmLoad(c, p)
                \/ ConfirmBegin(c) \/ ConfirmCheck(c) \/ ConfirmSelectFound(c)
                \/ ConfirmSelectMissing(c) \/ ConfirmReuse(c) \/ ConfirmInsert(c)
                \/ ConfirmDeadlock(c) \/ ConfirmAbort(c)
BY OutsideSteps DEF Next, PrepareStep, ConfirmStep

-----------------------------------------------------------------------------
(* The invariant, conjunct by conjunct.                                    *)

\* The session row with another version and diagnosis.
LEMMA RecordUpdate ==
    ASSUME NEW L, NEW V, NEW D,
           NEW r \in [life : L, version : V, diagnosis : D],
           NEW v \in V, NEW d \in D
    PROVE  [r EXCEPT !.version = v, !.diagnosis = d]
              \in [life : L, version : V, diagnosis : D]
OBVIOUS

\* A save keeps the life of the session and stays below the bound.
LEMMA SessionStep ==
    ASSUME session \in [life : 0..MaxLife, version : 0..MaxVersion,
                        diagnosis : Diagnoses \cup {None}],
           SessionOK,
           SessionSaved \/ SessionExpired
    PROVE  /\ session' \in [life : 0..MaxLife, version : 0..MaxVersion,
                            diagnosis : Diagnoses \cup {None}]
           /\ SessionOK'
<1>1. CASE SessionSaved
  <2>1. PICK d \in Diagnoses \cup {None} :
          session' = [session EXCEPT !.version = session.version + 1, !.diagnosis = d]
    BY <1>1 DEF SessionSaved
  <2>2. session.version \in 1..(MaxVersion - 1)
    BY <1>1 DEF SessionSaved
  <2>3. session.version + 1 \in 0..MaxVersion
    BY <2>2, BoundAssumption
  <2>4. /\ session'.life = session.life
        /\ session'.version = session.version + 1
    BY <2>1
  <2>5. session.life # 0
    BY <2>2 DEF SessionOK
  <2>6. session' \in [life : 0..MaxLife, version : 0..MaxVersion,
                      diagnosis : Diagnoses \cup {None}]
    BY <2>1, <2>3, RecordUpdate
  <2> QED
    BY <2>4, <2>5, <2>6 DEF SessionOK
<1>2. CASE SessionExpired
  <2>1. session' = [session EXCEPT !.version = 0, !.diagnosis = None]
    BY <1>2 DEF SessionExpired
  <2>2. 0 \in 0..MaxVersion
    BY BoundAssumption
  <2>3. session' \in [life : 0..MaxLife, version : 0..MaxVersion,
                      diagnosis : Diagnoses \cup {None}]
    BY <2>1, <2>2, RecordUpdate
  <2> QED
    BY <2>1, <2>3 DEF SessionOK
<1> QED
  BY <1>1, <1>2

\* The conjuncts that are about types and about the session.
LEMMA TypeStep == IInv /\ [Next]_vars => TypeOK' /\ SessionOK'
<1> SUFFICES ASSUME IInv, [Next]_vars
             PROVE  TypeOK' /\ SessionOK'
  OBVIOUS
<1> USE BoundAssumption DEF IInv, TypeOK, SessionOK, GotoP, GotoC, PrepareBusy, ConfirmBusy,
        prepareVars, confirmVars, tables, locks, sessionVars
<1>1. CASE SessionCreated \/ SessionSaved \/ SessionExpired \/ Tick
  <2>1. CASE SessionCreated
    BY <2>1 DEF SessionCreated
  <2>2. CASE SessionSaved
    BY <2>2, SessionStep DEF SessionSaved
  <2>3. CASE SessionExpired
    BY <2>3, SessionStep DEF SessionExpired
  <2>4. CASE Tick
    BY <2>4 DEF Tick
  <2> QED
    BY <1>1, <2>1, <2>2, <2>3, <2>4
<1>2. CASE Quiet \/ UNCHANGED vars
  BY <1>2 DEF Quiet, vars
<1>3. ASSUME NEW p \in Prepares, PrepareRejected(p)
      PROVE  TypeOK' /\ SessionOK'
  BY <1>3 DEF PrepareRejected
<1>4. ASSUME NEW p \in Prepares, PrepareLoad(p)
      PROVE  TypeOK' /\ SessionOK'
  BY <1>4 DEF PrepareLoad, Ready, Keys
<1>5. ASSUME NEW p \in Prepares, PrepareBegin(p)
      PROVE  TypeOK' /\ SessionOK'
  BY <1>5 DEF PrepareBegin, TokenExpiry
<1>6. ASSUME NEW p \in Prepares, PrepareLock(p)
      PROVE  TypeOK' /\ SessionOK'
  BY <1>6 DEF PrepareLock
<1>7. ASSUME NEW p \in Prepares, PrepareRevoke(p)
      PROVE  TypeOK' /\ SessionOK'
  BY <1>7 DEF PrepareRevoke
<1>8. ASSUME NEW p \in Prepares, PrepareCommit(p)
      PROVE  TypeOK' /\ SessionOK'
  BY <1>8 DEF PrepareCommit, ReleaseP, Revocable
<1>9. ASSUME NEW p \in Prepares, PrepareAbort(p)
      PROVE  TypeOK' /\ SessionOK'
  BY <1>9 DEF PrepareAbort, ReleaseP
<1>10. ASSUME NEW c \in Confirms, NEW p \in Prepares, ConfirmLoad(c, p)
       PROVE  TypeOK' /\ SessionOK'
  BY <1>10 DEF ConfirmLoad
<1>11. ASSUME NEW c \in Confirms, ConfirmBegin(c)
       PROVE  TypeOK' /\ SessionOK'
  BY <1>11 DEF ConfirmBegin
<1>12. ASSUME NEW c \in Confirms, ConfirmCheck(c)
       PROVE  TypeOK' /\ SessionOK'
  <2>1. rowLock' \in [Prepares -> Prepares \cup Confirms \cup {None}]
    <3>1. rowLock' = [rowLock EXCEPT ![tok[c]] = c] \/ rowLock' = rowLock
      BY <1>12 DEF ConfirmCheck
    <3> QED
      BY <3>1
  <2>2. pcC' \in [Confirms -> ConfirmBusy \cup {"idle", "done", "failed"}]
    BY <1>12 DEF ConfirmCheck
  <2> QED
    BY <1>12, <2>1, <2>2 DEF ConfirmCheck
<1>13. ASSUME NEW c \in Confirms, ConfirmSelectFound(c)
       PROVE  TypeOK' /\ SessionOK'
  BY <1>13 DEF ConfirmSelectFound, ReleaseC
<1>14. ASSUME NEW c \in Confirms, ConfirmSelectMissing(c)
       PROVE  TypeOK' /\ SessionOK'
  <2>1. CASE tok[c] \in used
    BY <1>14, <2>1 DEF ConfirmSelectMissing, ReleaseC
  <2>2. CASE tok[c] \notin used
    <3>1. gapLock' \in [Keys -> SUBSET Confirms]
      BY <1>14, <2>2 DEF ConfirmSelectMissing
    <3> QED
      BY <1>14, <2>2, <3>1 DEF ConfirmSelectMissing
  <2> QED
    BY <2>1, <2>2
<1>15. ASSUME NEW c \in Confirms, ConfirmReuse(c)
       PROVE  TypeOK' /\ SessionOK'
  BY <1>15 DEF ConfirmReuse, ReleaseC, UsedAfter, RequestsOK
<1>16. ASSUME NEW c \in Confirms, ConfirmInsert(c)
       PROVE  TypeOK' /\ SessionOK'
  <2>1. tok[c] \in issued
    BY <1>16 DEF ConfirmInsert, RequestsOK
  <2>2. /\ rowLock' \in [Prepares -> Prepares \cup Confirms \cup {None}]
        /\ gapLock' \in [Keys -> SUBSET Confirms]
        /\ diagLock' = diagLock
    BY <1>16 DEF ConfirmInsert, ReleaseC
  <2>3. drafts' \in [Keys -> Prepares \cup {None}]
    BY <1>16, <2>1 DEF ConfirmInsert
  <2>4. pcC' \in [Confirms -> ConfirmBusy \cup {"idle", "done", "failed"}]
    BY <1>16 DEF ConfirmInsert
  <2>5. used' \in SUBSET issued'
    BY <1>16, <2>1 DEF ConfirmInsert, UsedAfter
  <2> QED
    BY <1>16, <2>2, <2>3, <2>4, <2>5 DEF ConfirmInsert
<1>17. ASSUME NEW c \in Confirms, ConfirmDeadlock(c) \/ ConfirmAbort(c)
       PROVE  TypeOK' /\ SessionOK'
  <2>1. /\ rowLock' \in [Prepares -> Prepares \cup Confirms \cup {None}]
        /\ gapLock' \in [Keys -> SUBSET Confirms]
        /\ diagLock' = diagLock
    BY <1>17 DEF ConfirmDeadlock, ConfirmAbort, ReleaseC
  <2>2. pcC' \in [Confirms -> ConfirmBusy \cup {"idle", "done", "failed"}]
    BY <1>17 DEF ConfirmDeadlock, ConfirmAbort
  <2> QED
    BY <1>17, <2>1, <2>2 DEF ConfirmDeadlock, ConfirmAbort
<1> QED
  BY <1>1, <1>2, <1>3, <1>4, <1>5, <1>6, <1>7, <1>8, <1>9, <1>10, <1>11, <1>12,
     <1>13, <1>14, <1>15, <1>16, <1>17 DEF Next, PrepareStep, ConfirmStep

\* Requests proceed step by step.
LEMMA RequestsStep == IInv /\ [Next]_vars => RequestsOK'
<1> SUFFICES ASSUME IInv, [Next]_vars
             PROVE  RequestsOK'
  OBVIOUS
<1> USE DEF IInv, TypeOK, RequestsOK, GotoP, GotoC, PrepareBusy, ConfirmBusy,
        prepareVars, confirmVars, tables, locks, sessionVars
<1>1. CASE Outside
  BY <1>1 DEF Outside
<1>2. ASSUME NEW p \in Prepares, PrepareRejected(p)
     PROVE  RequestsOK'
  BY <1>2 DEF PrepareRejected
<1>3. ASSUME NEW p \in Prepares, PrepareLoad(p)
     PROVE  RequestsOK'
  BY <1>3 DEF PrepareLoad, Ready, Keys, SessionOK
<1>4. ASSUME NEW p \in Prepares, PrepareBegin(p)
     PROVE  RequestsOK'
  BY <1>4 DEF PrepareBegin
<1>5. ASSUME NEW p \in Prepares, PrepareLock(p)
     PROVE  RequestsOK'
  BY <1>5 DEF PrepareLock
<1>6. ASSUME NEW p \in Prepares, PrepareRevoke(p)
     PROVE  RequestsOK'
  BY <1>6 DEF PrepareRevoke
<1>7. ASSUME NEW p \in Prepares, PrepareCommit(p)
     PROVE  RequestsOK'
  BY <1>7 DEF PrepareCommit, ReleaseP
<1>8. ASSUME NEW p \in Prepares, PrepareAbort(p)
     PROVE  RequestsOK'
  BY <1>8 DEF PrepareAbort, ReleaseP
<1>9. ASSUME NEW c \in Confirms, NEW p \in Prepares, ConfirmLoad(c, p)
     PROVE  RequestsOK'
  BY <1>9 DEF ConfirmLoad
<1>10. ASSUME NEW c \in Confirms, ConfirmBegin(c)
      PROVE  RequestsOK'
  BY <1>10 DEF ConfirmBegin
<1>11. ASSUME NEW c \in Confirms, ConfirmCheck(c)
      PROVE  RequestsOK'
  BY <1>11 DEF ConfirmCheck
<1>12. ASSUME NEW c \in Confirms, ConfirmSelectFound(c)
      PROVE  RequestsOK'
  BY <1>12 DEF ConfirmSelectFound
<1>13. ASSUME NEW c \in Confirms, ConfirmSelectMissing(c)
      PROVE  RequestsOK'
  BY <1>13 DEF ConfirmSelectMissing
<1>14. ASSUME NEW c \in Confirms, ConfirmReuse(c)
      PROVE  RequestsOK'
  BY <1>14 DEF ConfirmReuse
<1>15. ASSUME NEW c \in Confirms, ConfirmInsert(c)
      PROVE  RequestsOK'
  BY <1>15 DEF ConfirmInsert
<1>16. ASSUME NEW c \in Confirms, ConfirmDeadlock(c)
      PROVE  RequestsOK'
  BY <1>16 DEF ConfirmDeadlock
<1>17. ASSUME NEW c \in Confirms, ConfirmAbort(c)
      PROVE  RequestsOK'
  BY <1>17 DEF ConfirmAbort
<1> QED
  BY StepCases, <1>1, <1>2, <1>3, <1>4, <1>5, <1>6, <1>7, <1>8, <1>9,
     <1>10, <1>11, <1>12, <1>13, <1>14, <1>15, <1>16, <1>17

\* Locks of prepare: taken in order, and released together.
LEMMA PrepareLocksStep == IInv /\ [Next]_vars => PrepareLocksOK'
<1> SUFFICES ASSUME IInv, [Next]_vars
             PROVE  PrepareLocksOK'
  OBVIOUS
<1> USE NoneAssumption, RequestAssumption DEF IInv, TypeOK, RequestsOK, GotoP, GotoC,
        PrepareBusy, ConfirmBusy, prepareVars, confirmVars, tables, locks, sessionVars,
        PrepareLocksOK
<1>1. CASE Outside
  BY <1>1 DEF Outside
<1>2. ASSUME NEW p \in Prepares, PrepareRejected(p)
     PROVE  PrepareLocksOK'
  BY <1>2 DEF PrepareRejected
<1>3. ASSUME NEW p \in Prepares, PrepareLoad(p)
     PROVE  PrepareLocksOK'
  <2>1. /\ pcP' = [pcP EXCEPT ![p] = "begin"]
        /\ \A q \in Prepares : q # p => key'[q] = key[q]
        /\ pcP[p] = "idle"
        /\ UNCHANGED <<issued, diagLock, rowLock>>
    BY <1>3 DEF PrepareLoad
  <2>2. p \notin issued
    BY <2>1
  <2>3. \A q \in Prepares, k \in Keys :
          diagLock'[k] = q <=> pcP'[q] \in {"revoke", "commit"} /\ key'[q] = k
    BY <2>1
  <2>4. \A q, r \in Prepares :
          rowLock'[r] = q <=> pcP'[q] = "commit" /\ r \in issued' /\ key'[r] = key'[q]
    BY <2>1, <2>2
  <2> QED
    BY <2>3, <2>4
<1>4. ASSUME NEW p \in Prepares, PrepareBegin(p)
     PROVE  PrepareLocksOK'
  BY <1>4 DEF PrepareBegin
<1>5. ASSUME NEW p \in Prepares, PrepareLock(p)
     PROVE  PrepareLocksOK'
  BY <1>5 DEF PrepareLock, DiagnosisLockFree
<1>6. ASSUME NEW p \in Prepares, PrepareRevoke(p)
     PROVE  PrepareLocksOK'
  BY <1>6 DEF PrepareRevoke, Siblings
<1>7. ASSUME NEW p \in Prepares, PrepareCommit(p)
     PROVE  PrepareLocksOK'
  BY <1>7 DEF PrepareCommit, ReleaseP
<1>8. ASSUME NEW p \in Prepares, PrepareAbort(p)
     PROVE  PrepareLocksOK'
  BY <1>8 DEF PrepareAbort, ReleaseP
<1>9. ASSUME NEW c \in Confirms, NEW p \in Prepares, ConfirmLoad(c, p)
     PROVE  PrepareLocksOK'
  BY <1>9 DEF ConfirmLoad
<1>10. ASSUME NEW c \in Confirms, ConfirmBegin(c)
      PROVE  PrepareLocksOK'
  BY <1>10 DEF ConfirmBegin
<1>11. ASSUME NEW c \in Confirms, ConfirmCheck(c)
      PROVE  PrepareLocksOK'
  BY <1>11 DEF ConfirmCheck, ConfirmLocksOK
<1>12. ASSUME NEW c \in Confirms, ConfirmSelectFound(c)
      PROVE  PrepareLocksOK'
  BY <1>12 DEF ConfirmSelectFound, ReleaseC
<1>13. ASSUME NEW c \in Confirms, ConfirmSelectMissing(c)
      PROVE  PrepareLocksOK'
  BY <1>13 DEF ConfirmSelectMissing, ReleaseC
<1>14. ASSUME NEW c \in Confirms, ConfirmReuse(c)
      PROVE  PrepareLocksOK'
  BY <1>14 DEF ConfirmReuse, ReleaseC, UsedAfter
<1>15. ASSUME NEW c \in Confirms, ConfirmInsert(c)
      PROVE  PrepareLocksOK'
  BY <1>15 DEF ConfirmInsert, ReleaseC, UsedAfter
<1>16. ASSUME NEW c \in Confirms, ConfirmDeadlock(c)
      PROVE  PrepareLocksOK'
  BY <1>16 DEF ConfirmDeadlock, ReleaseC
<1>17. ASSUME NEW c \in Confirms, ConfirmAbort(c)
      PROVE  PrepareLocksOK'
  BY <1>17 DEF ConfirmAbort, ReleaseC
<1> QED
  BY StepCases, <1>1, <1>2, <1>3, <1>4, <1>5, <1>6, <1>7, <1>8, <1>9,
     <1>10, <1>11, <1>12, <1>13, <1>14, <1>15, <1>16, <1>17

\* Locks of confirm.
LEMMA ConfirmLocksStep == IInv /\ [Next]_vars => ConfirmLocksOK'
<1> SUFFICES ASSUME IInv, [Next]_vars
             PROVE  ConfirmLocksOK'
  OBVIOUS
<1> USE NoneAssumption, RequestAssumption DEF IInv, TypeOK, RequestsOK, GotoP, GotoC,
        PrepareBusy, ConfirmBusy, prepareVars, confirmVars, tables, locks, sessionVars,
        ConfirmLocksOK, InsideRow
<1>1. CASE Outside
  BY <1>1 DEF Outside
<1>2. ASSUME NEW p \in Prepares, PrepareRejected(p)
     PROVE  ConfirmLocksOK'
  BY <1>2 DEF PrepareRejected
<1>3. ASSUME NEW p \in Prepares, PrepareLoad(p)
     PROVE  ConfirmLocksOK'
  BY <1>3 DEF PrepareLoad, Ready, SessionOK
<1>4. ASSUME NEW p \in Prepares, PrepareBegin(p)
     PROVE  ConfirmLocksOK'
  BY <1>4 DEF PrepareBegin
<1>5. ASSUME NEW p \in Prepares, PrepareLock(p)
     PROVE  ConfirmLocksOK'
  BY <1>5 DEF PrepareLock, DiagnosisLockFree
<1>6. ASSUME NEW p \in Prepares, PrepareRevoke(p)
     PROVE  ConfirmLocksOK'
  BY <1>6 DEF PrepareRevoke, Siblings
<1>7. ASSUME NEW p \in Prepares, PrepareCommit(p)
     PROVE  ConfirmLocksOK'
  BY <1>7 DEF PrepareCommit, ReleaseP
<1>8. ASSUME NEW p \in Prepares, PrepareAbort(p)
     PROVE  ConfirmLocksOK'
  BY <1>8 DEF PrepareAbort, ReleaseP
<1>9. ASSUME NEW c \in Confirms, NEW p \in Prepares, ConfirmLoad(c, p)
     PROVE  ConfirmLocksOK'
  BY <1>9 DEF ConfirmLoad, KeyOf
<1>10. ASSUME NEW c \in Confirms, ConfirmBegin(c)
      PROVE  ConfirmLocksOK'
  BY <1>10 DEF ConfirmBegin, KeyOf
<1>11. ASSUME NEW c \in Confirms, ConfirmCheck(c)
      PROVE  ConfirmLocksOK'
  BY <1>11 DEF ConfirmCheck, KeyOf
<1>12. ASSUME NEW c \in Confirms, ConfirmSelectFound(c)
      PROVE  ConfirmLocksOK'
  BY <1>12 DEF ConfirmSelectFound, ReleaseC, KeyOf
<1>13. ASSUME NEW c \in Confirms, ConfirmSelectMissing(c)
      PROVE  ConfirmLocksOK'
  <2>1. CASE tok[c] \in used
    BY <1>13, <2>1 DEF ConfirmSelectMissing, ReleaseC, KeyOf
  <2>2. CASE tok[c] \notin used
    <3>1. /\ KeyOf(c) \in Keys
          /\ pcC' = [pcC EXCEPT ![c] = "insert"]
          /\ gapLock' = [gapLock EXCEPT ![KeyOf(c)] = gapLock[KeyOf(c)] \cup {c}]
          /\ UNCHANGED <<rowLock, tok, key>>
          /\ pcC[c] = "select"
      BY <1>13, <2>2 DEF ConfirmSelectMissing, KeyOf
    <3>2. \A d \in Confirms, q \in Prepares :
            rowLock'[q] = d <=> pcC'[d] \in InsideRow /\ tok'[d] = q
      BY <3>1
    <3>3. \A d \in Confirms, k \in Keys :
            d \in gapLock'[k] <=> pcC'[d] = "insert" /\ key'[tok'[d]] = k
      BY <3>1 DEF KeyOf
    <3> QED
      BY <3>2, <3>3
  <2> QED
    BY <2>1, <2>2
<1>14. ASSUME NEW c \in Confirms, ConfirmReuse(c)
      PROVE  ConfirmLocksOK'
  BY <1>14 DEF ConfirmReuse, ReleaseC, UsedAfter, KeyOf
<1>15. ASSUME NEW c \in Confirms, ConfirmInsert(c)
      PROVE  ConfirmLocksOK'
  BY <1>15 DEF ConfirmInsert, ReleaseC, UsedAfter, KeyOf
<1>16. ASSUME NEW c \in Confirms, ConfirmDeadlock(c)
      PROVE  ConfirmLocksOK'
  BY <1>16 DEF ConfirmDeadlock, ReleaseC, KeyOf
<1>17. ASSUME NEW c \in Confirms, ConfirmAbort(c)
      PROVE  ConfirmLocksOK'
  BY <1>17 DEF ConfirmAbort, ReleaseC, KeyOf
<1> QED
  BY StepCases, <1>1, <1>2, <1>3, <1>4, <1>5, <1>6, <1>7, <1>8, <1>9,
     <1>10, <1>11, <1>12, <1>13, <1>14, <1>15, <1>16, <1>17

\* What a confirm has read stays so while it holds the lock it read it with.
LEMMA ConfirmKnows == IInv /\ [Next]_vars => ConfirmOK'
<1> SUFFICES ASSUME IInv, [Next]_vars
             PROVE  ConfirmOK'
  OBVIOUS
<1> USE NoneAssumption, RequestAssumption DEF IInv, TypeOK, RequestsOK, GotoP, GotoC,
        PrepareBusy, ConfirmBusy, prepareVars, confirmVars, tables, locks, sessionVars,
        ConfirmOK, InsideRow, KeyOf, SameContent
<1>1. CASE Outside
  BY <1>1 DEF Outside
<1>2. ASSUME NEW p \in Prepares, PrepareRejected(p)
     PROVE  ConfirmOK'
  BY <1>2 DEF PrepareRejected
<1>3. ASSUME NEW p \in Prepares, PrepareLoad(p)
     PROVE  ConfirmOK'
  BY <1>3 DEF PrepareLoad, Ready, SessionOK
<1>4. ASSUME NEW p \in Prepares, PrepareBegin(p)
     PROVE  ConfirmOK'
  BY <1>4 DEF PrepareBegin
<1>5. ASSUME NEW p \in Prepares, PrepareLock(p)
     PROVE  ConfirmOK'
  BY <1>5 DEF PrepareLock, DiagnosisLockFree
<1>6. ASSUME NEW p \in Prepares, PrepareRevoke(p)
     PROVE  ConfirmOK'
  BY <1>6 DEF PrepareRevoke, Siblings
<1>7. ASSUME NEW p \in Prepares, PrepareCommit(p)
     PROVE  ConfirmOK'
  BY <1>7 DEF PrepareCommit, ReleaseP, Revocable, ConfirmLocksOK, InsideRow
<1>8. ASSUME NEW p \in Prepares, PrepareAbort(p)
     PROVE  ConfirmOK'
  BY <1>8 DEF PrepareAbort, ReleaseP
<1>9. ASSUME NEW c \in Confirms, NEW p \in Prepares, ConfirmLoad(c, p)
     PROVE  ConfirmOK'
  BY <1>9 DEF ConfirmLoad
<1>10. ASSUME NEW c \in Confirms, ConfirmBegin(c)
      PROVE  ConfirmOK'
  BY <1>10 DEF ConfirmBegin
<1>11. ASSUME NEW c \in Confirms, ConfirmCheck(c)
      PROVE  ConfirmOK'
  BY <1>11 DEF ConfirmCheck, Confirmable
<1>12. ASSUME NEW c \in Confirms, ConfirmSelectFound(c)
      PROVE  ConfirmOK'
  BY <1>12 DEF ConfirmSelectFound, ReleaseC
<1>13. ASSUME NEW c \in Confirms, ConfirmSelectMissing(c)
      PROVE  ConfirmOK'
  BY <1>13 DEF ConfirmSelectMissing, ReleaseC
<1>14. ASSUME NEW c \in Confirms, ConfirmReuse(c)
      PROVE  ConfirmOK'
  BY <1>14 DEF ConfirmReuse, ReleaseC, UsedAfter, ConfirmLocksOK
<1>15. ASSUME NEW c \in Confirms, ConfirmInsert(c)
      PROVE  ConfirmOK'
  BY <1>15 DEF ConfirmInsert, ReleaseC, UsedAfter, ConfirmLocksOK
<1>16. ASSUME NEW c \in Confirms, ConfirmDeadlock(c)
      PROVE  ConfirmOK'
  BY <1>16 DEF ConfirmDeadlock, ReleaseC
<1>17. ASSUME NEW c \in Confirms, ConfirmAbort(c)
      PROVE  ConfirmOK'
  BY <1>17 DEF ConfirmAbort, ReleaseC
<1> QED
  BY StepCases, <1>1, <1>2, <1>3, <1>4, <1>5, <1>6, <1>7, <1>8, <1>9,
     <1>10, <1>11, <1>12, <1>13, <1>14, <1>15, <1>16, <1>17

\* The commit of a prepare revokes every other live token of its key.
LEMMA OneLiveTokenStep == IInv /\ [Next]_vars => AtMostOneLiveToken'
<1> SUFFICES ASSUME IInv, [Next]_vars
             PROVE  AtMostOneLiveToken'
  OBVIOUS
<1> USE NoneAssumption, RequestAssumption DEF IInv, TypeOK, RequestsOK, GotoP, GotoC,
        PrepareBusy, ConfirmBusy, prepareVars, confirmVars, tables, locks, sessionVars,
        AtMostOneLiveToken, Live
<1>1. CASE Outside
  BY <1>1 DEF Outside
<1>2. ASSUME NEW p \in Prepares, PrepareRejected(p)
     PROVE  AtMostOneLiveToken'
  BY <1>2 DEF PrepareRejected
<1>3. ASSUME NEW p \in Prepares, PrepareLoad(p)
     PROVE  AtMostOneLiveToken'
  BY <1>3 DEF PrepareLoad, Ready, SessionOK
<1>4. ASSUME NEW p \in Prepares, PrepareBegin(p)
     PROVE  AtMostOneLiveToken'
  BY <1>4 DEF PrepareBegin
<1>5. ASSUME NEW p \in Prepares, PrepareLock(p)
     PROVE  AtMostOneLiveToken'
  BY <1>5 DEF PrepareLock, DiagnosisLockFree
<1>6. ASSUME NEW p \in Prepares, PrepareRevoke(p)
     PROVE  AtMostOneLiveToken'
  BY <1>6 DEF PrepareRevoke, Siblings
<1>7. ASSUME NEW p \in Prepares, PrepareCommit(p)
     PROVE  AtMostOneLiveToken'
  BY <1>7 DEF PrepareCommit, ReleaseP, Revocable, PrepareLocksOK
<1>8. ASSUME NEW p \in Prepares, PrepareAbort(p)
     PROVE  AtMostOneLiveToken'
  BY <1>8 DEF PrepareAbort, ReleaseP
<1>9. ASSUME NEW c \in Confirms, NEW p \in Prepares, ConfirmLoad(c, p)
     PROVE  AtMostOneLiveToken'
  BY <1>9 DEF ConfirmLoad
<1>10. ASSUME NEW c \in Confirms, ConfirmBegin(c)
      PROVE  AtMostOneLiveToken'
  BY <1>10 DEF ConfirmBegin
<1>11. ASSUME NEW c \in Confirms, ConfirmCheck(c)
      PROVE  AtMostOneLiveToken'
  BY <1>11 DEF ConfirmCheck
<1>12. ASSUME NEW c \in Confirms, ConfirmSelectFound(c)
      PROVE  AtMostOneLiveToken'
  BY <1>12 DEF ConfirmSelectFound, ReleaseC
<1>13. ASSUME NEW c \in Confirms, ConfirmSelectMissing(c)
      PROVE  AtMostOneLiveToken'
  BY <1>13 DEF ConfirmSelectMissing, ReleaseC
<1>14. ASSUME NEW c \in Confirms, ConfirmReuse(c)
      PROVE  AtMostOneLiveToken'
  BY <1>14 DEF ConfirmReuse, ReleaseC, UsedAfter
<1>15. ASSUME NEW c \in Confirms, ConfirmInsert(c)
      PROVE  AtMostOneLiveToken'
  BY <1>15 DEF ConfirmInsert, ReleaseC, UsedAfter
<1>16. ASSUME NEW c \in Confirms, ConfirmDeadlock(c)
      PROVE  AtMostOneLiveToken'
  BY <1>16 DEF ConfirmDeadlock, ReleaseC
<1>17. ASSUME NEW c \in Confirms, ConfirmAbort(c)
      PROVE  AtMostOneLiveToken'
  BY <1>17 DEF ConfirmAbort, ReleaseC
<1> QED
  BY StepCases, <1>1, <1>2, <1>3, <1>4, <1>5, <1>6, <1>7, <1>8, <1>9,
     <1>10, <1>11, <1>12, <1>13, <1>14, <1>15, <1>16, <1>17

\* A row that a confirm holds is not revoked, and a used one never.
LEMMA RevokedStep == IInv /\ [Next]_vars => RevokedNeverUsed'
<1> SUFFICES ASSUME IInv, [Next]_vars
             PROVE  RevokedNeverUsed'
  OBVIOUS
<1> USE NoneAssumption, RequestAssumption DEF IInv, TypeOK, RequestsOK, GotoP, GotoC,
        PrepareBusy, ConfirmBusy, prepareVars, confirmVars, tables, locks, sessionVars,
        RevokedNeverUsed, ConfirmOK, InsideRow
<1>1. CASE Outside
  BY <1>1 DEF Outside
<1>2. ASSUME NEW p \in Prepares, PrepareRejected(p)
     PROVE  RevokedNeverUsed'
  BY <1>2 DEF PrepareRejected
<1>3. ASSUME NEW p \in Prepares, PrepareLoad(p)
     PROVE  RevokedNeverUsed'
  BY <1>3 DEF PrepareLoad, Ready, SessionOK
<1>4. ASSUME NEW p \in Prepares, PrepareBegin(p)
     PROVE  RevokedNeverUsed'
  BY <1>4 DEF PrepareBegin
<1>5. ASSUME NEW p \in Prepares, PrepareLock(p)
     PROVE  RevokedNeverUsed'
  BY <1>5 DEF PrepareLock, DiagnosisLockFree
<1>6. ASSUME NEW p \in Prepares, PrepareRevoke(p)
     PROVE  RevokedNeverUsed'
  BY <1>6 DEF PrepareRevoke, Siblings
<1>7. ASSUME NEW p \in Prepares, PrepareCommit(p)
     PROVE  RevokedNeverUsed'
  BY <1>7 DEF PrepareCommit, ReleaseP, Revocable
<1>8. ASSUME NEW p \in Prepares, PrepareAbort(p)
     PROVE  RevokedNeverUsed'
  BY <1>8 DEF PrepareAbort, ReleaseP
<1>9. ASSUME NEW c \in Confirms, NEW p \in Prepares, ConfirmLoad(c, p)
     PROVE  RevokedNeverUsed'
  BY <1>9 DEF ConfirmLoad
<1>10. ASSUME NEW c \in Confirms, ConfirmBegin(c)
      PROVE  RevokedNeverUsed'
  BY <1>10 DEF ConfirmBegin
<1>11. ASSUME NEW c \in Confirms, ConfirmCheck(c)
      PROVE  RevokedNeverUsed'
  BY <1>11 DEF ConfirmCheck
<1>12. ASSUME NEW c \in Confirms, ConfirmSelectFound(c)
      PROVE  RevokedNeverUsed'
  BY <1>12 DEF ConfirmSelectFound, ReleaseC
<1>13. ASSUME NEW c \in Confirms, ConfirmSelectMissing(c)
      PROVE  RevokedNeverUsed'
  BY <1>13 DEF ConfirmSelectMissing, ReleaseC
<1>14. ASSUME NEW c \in Confirms, ConfirmReuse(c)
      PROVE  RevokedNeverUsed'
  BY <1>14 DEF ConfirmReuse, ReleaseC, UsedAfter
<1>15. ASSUME NEW c \in Confirms, ConfirmInsert(c)
      PROVE  RevokedNeverUsed'
  BY <1>15 DEF ConfirmInsert, ReleaseC, UsedAfter
<1>16. ASSUME NEW c \in Confirms, ConfirmDeadlock(c)
      PROVE  RevokedNeverUsed'
  BY <1>16 DEF ConfirmDeadlock, ReleaseC
<1>17. ASSUME NEW c \in Confirms, ConfirmAbort(c)
      PROVE  RevokedNeverUsed'
  BY <1>17 DEF ConfirmAbort, ReleaseC
<1> QED
  BY StepCases, <1>1, <1>2, <1>3, <1>4, <1>5, <1>6, <1>7, <1>8, <1>9,
     <1>10, <1>11, <1>12, <1>13, <1>14, <1>15, <1>16, <1>17

\* Draft and use are written together.
LEMMA UsedTokensStep == IInv /\ [Next]_vars => UsedTokensHaveDrafts'
<1> SUFFICES ASSUME IInv, [Next]_vars
             PROVE  UsedTokensHaveDrafts'
  OBVIOUS
<1> USE NoneAssumption, RequestAssumption DEF IInv, TypeOK, RequestsOK, GotoP, GotoC,
        PrepareBusy, ConfirmBusy, prepareVars, confirmVars, tables, locks, sessionVars,
        UsedTokensHaveDrafts, ConfirmOK, InsideRow, KeyOf, SameContent
<1>1. CASE Outside
  BY <1>1 DEF Outside
<1>2. ASSUME NEW p \in Prepares, PrepareRejected(p)
     PROVE  UsedTokensHaveDrafts'
  BY <1>2 DEF PrepareRejected
<1>3. ASSUME NEW p \in Prepares, PrepareLoad(p)
     PROVE  UsedTokensHaveDrafts'
  BY <1>3 DEF PrepareLoad, Ready, SessionOK
<1>4. ASSUME NEW p \in Prepares, PrepareBegin(p)
     PROVE  UsedTokensHaveDrafts'
  BY <1>4 DEF PrepareBegin
<1>5. ASSUME NEW p \in Prepares, PrepareLock(p)
     PROVE  UsedTokensHaveDrafts'
  BY <1>5 DEF PrepareLock, DiagnosisLockFree
<1>6. ASSUME NEW p \in Prepares, PrepareRevoke(p)
     PROVE  UsedTokensHaveDrafts'
  BY <1>6 DEF PrepareRevoke, Siblings
<1>7. ASSUME NEW p \in Prepares, PrepareCommit(p)
     PROVE  UsedTokensHaveDrafts'
  BY <1>7 DEF PrepareCommit, ReleaseP
<1>8. ASSUME NEW p \in Prepares, PrepareAbort(p)
     PROVE  UsedTokensHaveDrafts'
  BY <1>8 DEF PrepareAbort, ReleaseP
<1>9. ASSUME NEW c \in Confirms, NEW p \in Prepares, ConfirmLoad(c, p)
     PROVE  UsedTokensHaveDrafts'
  BY <1>9 DEF ConfirmLoad
<1>10. ASSUME NEW c \in Confirms, ConfirmBegin(c)
      PROVE  UsedTokensHaveDrafts'
  BY <1>10 DEF ConfirmBegin
<1>11. ASSUME NEW c \in Confirms, ConfirmCheck(c)
      PROVE  UsedTokensHaveDrafts'
  BY <1>11 DEF ConfirmCheck
<1>12. ASSUME NEW c \in Confirms, ConfirmSelectFound(c)
      PROVE  UsedTokensHaveDrafts'
  BY <1>12 DEF ConfirmSelectFound, ReleaseC
<1>13. ASSUME NEW c \in Confirms, ConfirmSelectMissing(c)
      PROVE  UsedTokensHaveDrafts'
  BY <1>13 DEF ConfirmSelectMissing, ReleaseC
<1>14. ASSUME NEW c \in Confirms, ConfirmReuse(c)
      PROVE  UsedTokensHaveDrafts'
  BY <1>14 DEF ConfirmReuse, ReleaseC, UsedAfter
<1>15. ASSUME NEW c \in Confirms, ConfirmInsert(c)
      PROVE  UsedTokensHaveDrafts'
  BY <1>15 DEF ConfirmInsert, ReleaseC, UsedAfter
<1>16. ASSUME NEW c \in Confirms, ConfirmDeadlock(c)
      PROVE  UsedTokensHaveDrafts'
  BY <1>16 DEF ConfirmDeadlock, ReleaseC
<1>17. ASSUME NEW c \in Confirms, ConfirmAbort(c)
      PROVE  UsedTokensHaveDrafts'
  BY <1>17 DEF ConfirmAbort, ReleaseC
<1> QED
  BY StepCases, <1>1, <1>2, <1>3, <1>4, <1>5, <1>6, <1>7, <1>8, <1>9,
     <1>10, <1>11, <1>12, <1>13, <1>14, <1>15, <1>16, <1>17

\* A draft that stands is never replaced.
LEMMA SuccessStep == IInv /\ [Next]_vars => SuccessMeansDraft'
<1> SUFFICES ASSUME IInv, [Next]_vars
             PROVE  SuccessMeansDraft'
  OBVIOUS
<1> USE NoneAssumption, RequestAssumption DEF IInv, TypeOK, RequestsOK, GotoP, GotoC,
        PrepareBusy, ConfirmBusy, prepareVars, confirmVars, tables, locks, sessionVars,
        SuccessMeansDraft, ConfirmOK, KeyOf, SameContent
<1>1. CASE Outside
  BY <1>1 DEF Outside
<1>2. ASSUME NEW p \in Prepares, PrepareRejected(p)
     PROVE  SuccessMeansDraft'
  BY <1>2 DEF PrepareRejected
<1>3. ASSUME NEW p \in Prepares, PrepareLoad(p)
     PROVE  SuccessMeansDraft'
  BY <1>3 DEF PrepareLoad, Ready, SessionOK
<1>4. ASSUME NEW p \in Prepares, PrepareBegin(p)
     PROVE  SuccessMeansDraft'
  BY <1>4 DEF PrepareBegin
<1>5. ASSUME NEW p \in Prepares, PrepareLock(p)
     PROVE  SuccessMeansDraft'
  BY <1>5 DEF PrepareLock, DiagnosisLockFree
<1>6. ASSUME NEW p \in Prepares, PrepareRevoke(p)
     PROVE  SuccessMeansDraft'
  BY <1>6 DEF PrepareRevoke, Siblings
<1>7. ASSUME NEW p \in Prepares, PrepareCommit(p)
     PROVE  SuccessMeansDraft'
  BY <1>7 DEF PrepareCommit, ReleaseP
<1>8. ASSUME NEW p \in Prepares, PrepareAbort(p)
     PROVE  SuccessMeansDraft'
  BY <1>8 DEF PrepareAbort, ReleaseP
<1>9. ASSUME NEW c \in Confirms, NEW p \in Prepares, ConfirmLoad(c, p)
     PROVE  SuccessMeansDraft'
  BY <1>9 DEF ConfirmLoad
<1>10. ASSUME NEW c \in Confirms, ConfirmBegin(c)
      PROVE  SuccessMeansDraft'
  BY <1>10 DEF ConfirmBegin
<1>11. ASSUME NEW c \in Confirms, ConfirmCheck(c)
      PROVE  SuccessMeansDraft'
  BY <1>11 DEF ConfirmCheck
<1>12. ASSUME NEW c \in Confirms, ConfirmSelectFound(c)
      PROVE  SuccessMeansDraft'
  BY <1>12 DEF ConfirmSelectFound, ReleaseC
<1>13. ASSUME NEW c \in Confirms, ConfirmSelectMissing(c)
      PROVE  SuccessMeansDraft'
  BY <1>13 DEF ConfirmSelectMissing, ReleaseC
<1>14. ASSUME NEW c \in Confirms, ConfirmReuse(c)
      PROVE  SuccessMeansDraft'
  BY <1>14 DEF ConfirmReuse, ReleaseC, UsedAfter
<1>15. ASSUME NEW c \in Confirms, ConfirmInsert(c)
      PROVE  SuccessMeansDraft'
  BY <1>15 DEF ConfirmInsert, ReleaseC, UsedAfter
<1>16. ASSUME NEW c \in Confirms, ConfirmDeadlock(c)
      PROVE  SuccessMeansDraft'
  BY <1>16 DEF ConfirmDeadlock, ReleaseC
<1>17. ASSUME NEW c \in Confirms, ConfirmAbort(c)
      PROVE  SuccessMeansDraft'
  BY <1>17 DEF ConfirmAbort, ReleaseC
<1> QED
  BY StepCases, <1>1, <1>2, <1>3, <1>4, <1>5, <1>6, <1>7, <1>8, <1>9,
     <1>10, <1>11, <1>12, <1>13, <1>14, <1>15, <1>16, <1>17

-----------------------------------------------------------------------------
(* What holds in every behaviour.                                          *)

LEMMA InvInit == Init => IInv
BY BoundAssumption, NoneAssumption
   DEF Init, IInv, TypeOK, NoKey, SessionOK, RequestsOK, PrepareLocksOK, ConfirmLocksOK,
       ConfirmOK, AtMostOneLiveToken, Live, RevokedNeverUsed, UsedTokensHaveDrafts,
       SuccessMeansDraft, InsideRow, PrepareBusy

LEMMA InvStep == IInv /\ [Next]_vars => IInv'
BY TypeStep, RequestsStep, PrepareLocksStep, ConfirmLocksStep, ConfirmKnows,
   OneLiveTokenStep, RevokedStep, UsedTokensStep, SuccessStep DEF IInv

\* Locks, requests and tables stay in agreement, whatever is interleaved.
THEOREM Invariance == Spec => []IInv
BY InvInit, InvStep, PTL DEF Spec

\* Every variable keeps its type, whatever the bounds.
THEOREM TypeCorrect == Spec => []TypeOK
<1>1. IInv => TypeOK
  BY DEF IInv
<1> QED
  BY <1>1, Invariance, PTL

\* However many prepares race, at most one token per diagnosis and session
\* state can still create a draft.
THEOREM OneLiveToken == Spec => []AtMostOneLiveToken
<1>1. IInv => AtMostOneLiveToken
  BY DEF IInv
<1> QED
  BY <1>1, Invariance, PTL

\* No token is both revoked and redeemed.
THEOREM RevokedIsFinal == Spec => []RevokedNeverUsed
<1>1. IInv => RevokedNeverUsed
  BY DEF IInv
<1> QED
  BY <1>1, Invariance, PTL

\* A token is consumed exactly when a draft with its content stands.
THEOREM UseMeansDraft == Spec => []UsedTokensHaveDrafts
<1>1. IInv => UsedTokensHaveDrafts
  BY DEF IInv
<1> QED
  BY <1>1, Invariance, PTL

\* A confirmation reported as done has its content in the draft, and keeps it.
THEOREM SuccessIsHonest == Spec => []SuccessMeansDraft
<1>1. IInv => SuccessMeansDraft
  BY DEF IInv
<1> QED
  BY <1>1, Invariance, PTL

-----------------------------------------------------------------------------
(* The refinement.                                                         *)

TermsNow ==
    [p \in Prepares |-> IF p \in issued
                        THEN [key |-> key[p], content |-> content[p]] ELSE None]
OfferedNow == {p \in Prepares : Live(p)}
LedgerNow ==
    [k \in Keys |-> IF drafts[k] = None THEN None ELSE content[drafts[k]]]

\* A step that leaves the tables, the contents and the keys of issued tokens
\* alone is none of the ledger's.
LEMMA Stutter ==
    ASSUME UNCHANGED <<tables, content>>, \A p \in issued : key'[p] = key[p]
    PROVE  UNCHANGED <<TermsNow, OfferedNow, LedgerNow>>
BY DEF tables, TermsNow, OfferedNow, LedgerNow, Live

\* The commit of a prepare offers its token and withdraws the ones it revokes.
LEMMA CommitOffers ==
    ASSUME IInv, NEW p \in Prepares, PrepareCommit(p)
    PROVE  Promise!Offer(p)
<1> DEFINE W == {q \in Revocable(p) : rowLock[q] = p}
<1> USE DEF IInv, TypeOK, RequestsOK, PrepareBusy
<1>1. /\ p \notin issued /\ key[p] \in Keys /\ content[p] \in Summaries
      /\ issued' = issued \cup {p} /\ revoked' = revoked \cup W
      /\ UNCHANGED <<key, content, base, used, drafts>>
  BY DEF PrepareCommit
<1>2. TermsNow[p] = None
  BY <1>1 DEF TermsNow
<1>3. TermsNow' = [TermsNow EXCEPT ![p] = [key |-> key[p], content |-> content[p]]]
  BY <1>1 DEF TermsNow
<1>4. W \subseteq {o \in OfferedNow : TermsNow[o].key = TermsNow'[p].key}
  <2> SUFFICES ASSUME NEW q \in W
               PROVE  q \in OfferedNow /\ TermsNow[q].key = TermsNow'[p].key
    OBVIOUS
  <2>1. q \in issued /\ q \notin used \cup revoked /\ key[q] = key[p]
    BY DEF Revocable
  <2>2. TermsNow[q] = [key |-> key[q], content |-> content[q]]
    BY <2>1 DEF TermsNow
  <2>3. TermsNow'[p] = [key |-> key[p], content |-> content[p]]
    <3>1. p \in DOMAIN TermsNow
      BY DEF TermsNow
    <3> QED
      BY <1>3, <3>1
  <2> QED
    BY <2>1, <2>2, <2>3 DEF OfferedNow, Live
<1>5. OfferedNow' = (OfferedNow \ W) \cup {p}
  <2>1. p \notin used /\ p \notin revoked /\ p \notin W
    BY <1>1 DEF Revocable
  <2>2. W \subseteq Prepares
    BY DEF Revocable
  <2> HIDE DEF W
  <2>3. \A q \in Prepares : q \in OfferedNow' <=> q \in (OfferedNow \ W) \cup {p}
    BY <1>1, <2>1 DEF OfferedNow, Live
  <2>4. OfferedNow' \subseteq Prepares /\ (OfferedNow \ W) \cup {p} \subseteq Prepares
    BY DEF OfferedNow
  <2> QED
    BY <2>3, <2>4
<1>6. LedgerNow' = LedgerNow
  BY <1>1 DEF LedgerNow
<1> HIDE DEF W
<1> QED
  BY <1>1, <1>2, <1>3, <1>4, <1>5, <1>6 DEF Promise!Offer, TermsNow, OfferedNow, LedgerNow

\* A confirm that marks a live token used redeems it: the content stands under
\* the key after the commit, and nothing else stood there before.
LEMMA UseRedeems ==
    ASSUME IInv, NEW c \in Confirms, NEW t \in issued, t = tok[c],
           t \notin used \cup revoked,
           used' = used \cup {t},
           UNCHANGED <<key, content, issued, revoked>>,
           drafts[KeyOf(c)] = None \/ SameContent(c),
           LedgerNow' = [LedgerNow EXCEPT ![KeyOf(c)] = content[t]]
    PROVE  Promise!Redeem(t)
<1> USE DEF IInv, TypeOK, RequestsOK, PrepareBusy
<1>1. t \in Prepares /\ KeyOf(c) \in Keys /\ t = tok[c]
  BY DEF KeyOf
<1>2. TermsNow[t] = [key |-> KeyOf(c), content |-> content[t]]
  BY <1>1 DEF TermsNow, KeyOf
<1>3. LedgerNow[KeyOf(c)] \in {None, content[t]}
  BY <1>1 DEF LedgerNow, SameContent
<1>4. t \in OfferedNow /\ OfferedNow' = OfferedNow \ {t}
  BY <1>1 DEF OfferedNow, Live
<1>5. TermsNow' = TermsNow
  BY DEF TermsNow
<1>6. /\ TermsNow[t].key = KeyOf(c)
      /\ TermsNow[t].content = content[t]
  BY <1>2
<1> QED
  BY <1>3, <1>4, <1>5, <1>6 DEF Promise!Redeem, TermsNow, OfferedNow, LedgerNow

LEMMA ReuseRedeems ==
    ASSUME IInv, NEW c \in Confirms, ConfirmReuse(c), NEW t, t = tok[c]
    PROVE  Promise!Redeem(t) \/ UNCHANGED <<TermsNow, OfferedNow, LedgerNow>>
<1> USE DEF IInv, TypeOK, RequestsOK, ConfirmOK, InsideRow
<1>1. /\ t \in issued /\ t \notin revoked
      /\ drafts[KeyOf(c)] # None /\ SameContent(c)
      /\ used' = used \cup {t}
      /\ UNCHANGED <<key, content, issued, revoked, drafts>>
  BY DEF ConfirmReuse, UsedAfter, prepareVars
<1>2. CASE t \in used
  <2>1. UNCHANGED tables
    BY <1>1, <1>2 DEF tables
  <2> QED
    BY <1>1, <2>1, Stutter
<1>3. CASE t \notin used
  <2>1. KeyOf(c) \in Keys
    BY <1>1 DEF KeyOf
  <2>2. LedgerNow' = LedgerNow
    BY <1>1 DEF LedgerNow
  <2>3. LedgerNow[KeyOf(c)] = content[t]
    BY <1>1, <2>1 DEF LedgerNow, SameContent
  <2>4. LedgerNow' = [LedgerNow EXCEPT ![KeyOf(c)] = content[t]]
    BY <2>1, <2>2, <2>3 DEF LedgerNow
  <2> QED
    BY <1>1, <1>3, <2>4, UseRedeems
<1> QED
  BY <1>2, <1>3

LEMMA InsertRedeems ==
    ASSUME IInv, NEW c \in Confirms, ConfirmInsert(c), NEW t, t = tok[c]
    PROVE  Promise!Redeem(t)
<1> USE DEF IInv, TypeOK, RequestsOK, ConfirmOK, InsideRow
<1>1. /\ t \in issued /\ t \notin revoked /\ t \notin used
      /\ drafts[KeyOf(c)] = None
      /\ used' = used \cup {t}
      /\ drafts' = [drafts EXCEPT ![KeyOf(c)] = t]
      /\ UNCHANGED <<key, content, issued, revoked>>
  BY DEF ConfirmInsert, UsedAfter, prepareVars
<1>2. KeyOf(c) \in Keys /\ t # None
  BY <1>1, NoneAssumption DEF KeyOf
<1>3. LedgerNow' = [LedgerNow EXCEPT ![KeyOf(c)] = content[t]]
  BY <1>1, <1>2 DEF LedgerNow
<1> QED
  BY <1>1, <1>3, UseRedeems

\* Every step of a request is a step of the ledger, or none.
LEMMA PromiseStep ==
    IInv /\ [Next]_vars => [Promise!Next]_<<TermsNow, OfferedNow, LedgerNow>>
<1> SUFFICES ASSUME IInv, [Next]_vars
             PROVE  Promise!Next \/ UNCHANGED <<TermsNow, OfferedNow, LedgerNow>>
  OBVIOUS
<1>1. CASE Outside
  BY <1>1, Stutter DEF Outside, prepareVars
<1>2. ASSUME NEW p \in Prepares, PrepareLoad(p)
      PROVE  UNCHANGED <<TermsNow, OfferedNow, LedgerNow>>
  <2>1. p \notin issued /\ \A q \in Prepares \ {p} : key'[q] = key[q]
    BY <1>2 DEF PrepareLoad, IInv, TypeOK, RequestsOK
  <2> QED
    BY <1>2, <2>1, Stutter DEF PrepareLoad
<1>3. ASSUME NEW p \in Prepares,
             \/ PrepareRejected(p) \/ PrepareBegin(p) \/ PrepareLock(p)
             \/ PrepareRevoke(p) \/ PrepareAbort(p)
      PROVE  UNCHANGED <<TermsNow, OfferedNow, LedgerNow>>
  BY <1>3, Stutter DEF PrepareRejected, PrepareBegin, PrepareLock, PrepareRevoke, PrepareAbort
<1>4. ASSUME NEW p \in Prepares, PrepareCommit(p)
      PROVE  Promise!Next
  BY <1>4, CommitOffers DEF Promise!Next
<1>5. ASSUME NEW c \in Confirms,
             \/ \E p \in Prepares : ConfirmLoad(c, p)
             \/ ConfirmBegin(c) \/ ConfirmCheck(c) \/ ConfirmSelectFound(c)
             \/ ConfirmSelectMissing(c) \/ ConfirmDeadlock(c) \/ ConfirmAbort(c)
      PROVE  UNCHANGED <<TermsNow, OfferedNow, LedgerNow>>
  BY <1>5, Stutter DEF ConfirmLoad, ConfirmBegin, ConfirmCheck, ConfirmSelectFound,
     ConfirmSelectMissing, ConfirmDeadlock, ConfirmAbort, prepareVars
<1>6. ASSUME NEW c \in Confirms, ConfirmReuse(c)
      PROVE  Promise!Next \/ UNCHANGED <<TermsNow, OfferedNow, LedgerNow>>
  <2>1. PICK t \in issued : t = tok[c]
    BY <1>6 DEF ConfirmReuse, IInv, RequestsOK
  <2>2. t \in Prepares
    BY <2>1 DEF IInv, TypeOK
  <2>3. Promise!Redeem(t) \/ UNCHANGED <<TermsNow, OfferedNow, LedgerNow>>
    BY <1>6, <2>1, ReuseRedeems
  <2> QED
    BY <2>2, <2>3 DEF Promise!Next
<1>7. ASSUME NEW c \in Confirms, ConfirmInsert(c)
      PROVE  Promise!Next
  <2>1. PICK t \in issued : t = tok[c]
    BY <1>7 DEF ConfirmInsert, IInv, RequestsOK
  <2>2. t \in Prepares
    BY <2>1 DEF IInv, TypeOK
  <2>3. Promise!Redeem(t)
    BY <1>7, <2>1, InsertRedeems
  <2> QED
    BY <2>2, <2>3 DEF Promise!Next
<1> QED
  BY StepCases, <1>1, <1>2, <1>3, <1>4, <1>5, <1>6, <1>7

\* Prepare and confirm implement the one-shot ledger, for any number of
\* requests: no interleaving of their lock steps, aborts and deadlocks shows.
THEOREM Refinement == Spec => ImplementsOneShot
<1>1. Init => Promise!Init
  BY DEF Init, Promise!Init, Live
<1>2. IInv /\ [Next]_vars => [Promise!Next]_<<TermsNow, OfferedNow, LedgerNow>>
  BY PromiseStep
<1> QED
  BY <1>1, <1>2, Invariance, PTL
     DEF Spec, ImplementsOneShot, Promise!Spec, TermsNow, OfferedNow, LedgerNow

\* A draft keeps the content it was written with.
DraftsStay ==
    [][\A k \in Keys : LedgerNow[k] # None => LedgerNow'[k] = LedgerNow[k]]_vars

\* mysql-escalation-draft-store.ts: no draft is overwritten or lost, whoever
\* prepares and confirms afterwards; the refinement shows it, for the ledger
\* only ever fills an empty entry.
THEOREM DraftsAreFinal == Spec => DraftsStay
<1>1. IInv /\ [Next]_vars =>
          [\A k \in Keys : LedgerNow[k] # None => LedgerNow'[k] = LedgerNow[k]]_vars
  <2> SUFFICES ASSUME IInv, [Next]_vars, NEW k \in Keys, LedgerNow[k] # None
               PROVE  LedgerNow'[k] = LedgerNow[k]
    OBVIOUS
  <2>1. CASE UNCHANGED LedgerNow
    BY <2>1
  <2>2. CASE ~UNCHANGED LedgerNow
    <3>1. PICK p \in Prepares : Promise!Redeem(p)
      BY <2>2, PromiseStep DEF Promise!Next, Promise!Offer, TermsNow, OfferedNow, LedgerNow
    <3> QED
      BY <3>1 DEF Promise!Redeem, TermsNow, OfferedNow, LedgerNow
  <2> QED
    BY <2>1, <2>2
<1> QED
  BY <1>1, Invariance, PTL DEF Spec, DraftsStay

-----------------------------------------------------------------------------
(* Waiting.                                                                *)

\* A request whose next statement does not wait for a lock, or is the one that
\* InnoDB rolls back.
PrepareProceeds(p) ==
    \/ pcP[p] \in {"begin", "commit"}
    \/ pcP[p] = "lock" /\ DiagnosisLockFree(p)
    \/ pcP[p] = "revoke" /\ \A q \in Siblings(p) : rowLock[q] = None

ConfirmProceeds(c) ==
    \/ pcC[c] \in {"begin", "select", "reuse"}
    \/ pcC[c] = "check" /\ rowLock[tok[c]] = None
    \/ pcC[c] = "insert" /\ (gapLock[KeyOf(c)] = {c} \/ Deadlocked(c))

\* The requests do not all wait for each other, and none needs an abort to get
\* on: the only circle of waits is the one of gap locks that InnoDB detects.
NotAllWait ==
    \/ \E p \in Prepares : pcP[p] \in PrepareBusy
    \/ \E c \in Confirms : pcC[c] \in ConfirmBusy
    => \/ \E p \in Prepares : PrepareProceeds(p)
       \/ \E c \in Confirms : ConfirmProceeds(c)

\* mysql-escalation-draft-store.ts: a prepare locks the diagnosis before the
\* rows and a confirm its row before the gap, so that one who waits, waits for
\* one who is further on.
THEOREM SomeoneProceeds == Spec => []NotAllWait
<1>1. ASSUME IInv PROVE NotAllWait
  <2> USE <1>1
  <2>1. CASE \E p \in Prepares : pcP[p] = "commit"
    BY <2>1 DEF NotAllWait, PrepareProceeds
  <2>2. ASSUME NEW c \in Confirms, pcC[c] \in InsideRow PROVE ConfirmProceeds(c)
    <3>1. CASE pcC[c] # "insert"
      BY <2>2, <3>1 DEF InsideRow, ConfirmProceeds
    <3>2. CASE pcC[c] = "insert"
      <4>1. KeyOf(c) \in Keys
        BY <3>2 DEF IInv, TypeOK, RequestsOK, KeyOf
      <4>2. c \in gapLock[KeyOf(c)] /\ gapLock[KeyOf(c)] \subseteq Confirms
        BY <3>2, <4>1 DEF IInv, TypeOK, ConfirmLocksOK, KeyOf
      <4>3. \A d \in gapLock[KeyOf(c)] : pcC[d] = "insert"
        BY <4>1, <4>2 DEF IInv, ConfirmLocksOK
      <4> QED
        BY <3>2, <4>2, <4>3 DEF ConfirmProceeds, Deadlocked
    <3> QED
      BY <3>1, <3>2
  <2>3. CASE /\ \A p \in Prepares : pcP[p] # "commit"
             /\ \A c \in Confirms : pcC[c] \notin InsideRow
    <3>1. \A q \in Prepares : rowLock[q] = None
      <4> SUFFICES ASSUME NEW q \in Prepares PROVE rowLock[q] = None
        OBVIOUS
      <4>1. rowLock[q] \in Prepares \cup Confirms \cup {None}
        BY DEF IInv, TypeOK
      <4>2. ASSUME NEW p \in Prepares PROVE rowLock[q] # p
        BY <2>3 DEF IInv, PrepareLocksOK
      <4>3. ASSUME NEW c \in Confirms PROVE rowLock[q] # c
        BY <2>3 DEF IInv, ConfirmLocksOK
      <4> QED
        BY <4>1, <4>2, <4>3
    <3>2. ASSUME NEW p \in Prepares, pcP[p] = "revoke" PROVE PrepareProceeds(p)
      BY <3>1, <3>2 DEF PrepareProceeds, Siblings, IInv, TypeOK
    <3>3. ASSUME NEW p \in Prepares, pcP[p] = "lock",
                 \A q \in Prepares : pcP[q] # "revoke"
          PROVE  PrepareProceeds(p)
      <4>1. key[p] \in Keys
        BY <3>3 DEF IInv, RequestsOK, PrepareBusy
      <4>2. diagLock[key[p]] = None
        BY <2>3, <3>3, <4>1 DEF IInv, TypeOK, PrepareLocksOK
      <4> QED
        BY <3>3, <4>2 DEF PrepareProceeds, DiagnosisLockFree
    <3>4. ASSUME NEW c \in Confirms, pcC[c] \in ConfirmBusy PROVE ConfirmProceeds(c)
      <4>1. pcC[c] \in {"begin", "check"}
        BY <2>3, <3>4 DEF ConfirmBusy, InsideRow
      <4>2. tok[c] \in Prepares
        BY <4>1 DEF IInv, TypeOK, RequestsOK
      <4> QED
        BY <3>1, <4>1, <4>2 DEF ConfirmProceeds
    <3>5. ASSUME NEW p \in Prepares, pcP[p] \in PrepareBusy
          PROVE  \E q \in Prepares : PrepareProceeds(q)
      <4>1. pcP[p] \in {"begin", "lock", "revoke"}
        BY <2>3, <3>5 DEF PrepareBusy
      <4>2. CASE pcP[p] = "begin"
        BY <4>2 DEF PrepareProceeds
      <4> QED
        BY <4>1, <4>2, <3>2, <3>3
    <3> QED
      BY <3>4, <3>5 DEF NotAllWait
  <2> QED
    BY <2>1, <2>2, <2>3 DEF NotAllWait
<1> QED
  BY <1>1, Invariance, PTL
=============================================================================
