------------------------- MODULE SessionStoreProofs -------------------------
(***************************************************************************)
(* Proofs about SessionStore for any set of runs, any TTL and any bound on *)
(* the clock.  The inductive invariant says what a stored copy of a row    *)
(* (the row a run selected, the state it loaded) can still tell about the  *)
(* row of today.                                                           *)
(***************************************************************************)
EXTENDS SessionStore, TLAPS

\* The row of today is the last one inserted.
RowIsLatest ==
    /\ row.life = 0 => row = NoRow
    /\ row # NoRow => (row.life = lives /\ row.life # 0)

\* A copy of a row is of a life that existed; if it is of the current life it
\* is not newer than the row, identical to it at the same version, and agrees
\* with it on the expiry column.
CopyOK(copy) ==
    /\ copy.life <= lives
    /\ (copy.life # 0 /\ copy.life = row.life) =>
           /\ copy.version <= row.version
           /\ copy.version = row.version => copy.work = row.work
           /\ copy.expiresAt = row.expiresAt
           /\ SavedAcrossLives \/ copy.jsonExpiresAt = copy.expiresAt

CopiesOK == \A r \in Runs : CopyOK(snap[r]) /\ CopyOK(loaded[r])

\* A run about to UPDATE selected a row at least as new as the one it loaded,
\* and of the same version number.
SaveOK ==
    \A r \in Runs :
        /\ pc[r] \in {"saveCheck", "update"} =>
               loaded[r].life <= snap[r].life
        /\ pc[r] = "update" => snap[r].version = loaded[r].version

\* Commits are of lives that existed, replaced versions the current row has
\* left behind, and happen once per run.
CommitsOK ==
    \A r \in Runs :
        /\ commit[r].life <= lives
        /\ (commit[r].life # 0 /\ commit[r].life = row.life) =>
               commit[r].base < row.version
        /\ pc[r] = "update" => commit[r].life = 0
        /\ pc[r] \notin {"saved", "done", "failed"} => commit[r].life = 0

IInv ==
    /\ TypeOK
    /\ RowIsLatest
    /\ CopiesOK
    /\ SaveOK
    /\ CommitsOK
    /\ OneWriterPerVersion
    /\ OverwriteOnlyAcrossLives
    /\ ExpiryCopiesAgree

ISpec == IInv /\ [][Next]_vars

-----------------------------------------------------------------------------
\* Every variable keeps its type in every step.
THEOREM TypeCorrect == Spec => []TypeOK
<1> USE DEF TypeOK
<1>0. NoRow \in Row
  BY DEF NoRow, Row
<1>1. Init => TypeOK
  BY <1>0 DEF Init, NotCommitted, Step
<1>2. TypeOK /\ [Next]_vars => TypeOK'
  <2> SUFFICES ASSUME TypeOK, [Next]_vars
               PROVE  TypeOK'
    OBVIOUS
  <2> USE <1>0 DEF Goto, Step, Busy
  <2>1. ASSUME NEW r \in Runs, Begin(r)
        PROVE  TypeOK'
    BY <2>1 DEF Begin
  <2>2. ASSUME NEW r \in Runs, LoadSelect(r)
        PROVE  TypeOK'
    BY <2>2 DEF LoadSelect, AfterMissingLoad
  <2>3. ASSUME NEW r \in Runs, LoadCheckLive(r) \/ LoadCheckExpired(r)
        PROVE  TypeOK'
    <3>1. CASE LoadCheckLive(r)
      BY <3>1 DEF LoadCheckLive
    <3>2. CASE LoadCheckExpired(r)
      BY <3>2 DEF LoadCheckExpired
    <3>3. QED
      BY <2>3, <3>1, <3>2
  <2>4. ASSUME NEW r \in Runs, LoadDelete(r)
        PROVE  TypeOK'
    BY <2>4 DEF LoadDelete, AfterMissingLoad, RowAfterDeleteExpired
  <2>5. ASSUME NEW r \in Runs, CreateCheck(r)
        PROVE  TypeOK'
    BY <2>5 DEF CreateCheck
  <2>6. ASSUME NEW r \in Runs, Insert(r)
        PROVE  TypeOK'
    <3>1. FreshRow(r) \in Row
      BY TTLAssumption DEF FreshRow, Row
    <3>2. QED
      BY <2>6, <3>1 DEF Insert
  <2>7. ASSUME NEW r \in Runs, InsertDuplicate(r)
        PROVE  TypeOK'
    BY <2>7 DEF InsertDuplicate
  <2>8. ASSUME NEW r \in Runs, Work(r)
        PROVE  TypeOK'
    BY <2>8 DEF Work
  <2>9. ASSUME NEW r \in Runs, SaveSelect(r)
        PROVE  TypeOK'
    BY <2>9 DEF SaveSelect
  <2>10. ASSUME NEW r \in Runs, SaveCheck(r)
         PROVE  TypeOK'
    BY <2>10 DEF SaveCheck, AfterSaveCheck
  <2>11. ASSUME NEW r \in Runs, SaveDelete(r)
         PROVE  TypeOK'
    BY <2>11 DEF SaveDelete, RowAfterDeleteExpired
  <2>12. ASSUME NEW r \in Runs, Update(r)
         PROVE  TypeOK'
    <3>1. /\ row \in Row
          /\ snap[r] \in Row
          /\ loaded[r] \in Row
      OBVIOUS
    <3>2. /\ snap[r].version + 1 \in Nat
          /\ snap[r].jsonExpiresAt \in Nat
          /\ loaded[r].work \cup {r} \in SUBSET Runs
          /\ [life |-> row.life, base |-> row.version] \in
                 [life : Nat, base : Nat]
      BY <3>1 DEF Row
    <3>3. SavedRow(r) \in Row
      BY <3>1, <3>2 DEF SavedRow, Row
    <3>4. row' \in Row /\ commit' \in [Runs -> [life : Nat, base : Nat]]
      BY <2>12, <3>2, <3>3 DEF Update
    <3>5. QED
      BY <2>12, <3>4 DEF Update
  <2>13. ASSUME NEW r \in Runs, UpdateMissed(r)
         PROVE  TypeOK'
    BY <2>13 DEF UpdateMissed
  <2>14. ASSUME NEW r \in Runs, ConflictSelect(r)
         PROVE  TypeOK'
    BY <2>14 DEF ConflictSelect, AfterSaveConflict
  <2>15. ASSUME NEW r \in Runs, Answer(r) \/ Fail(r)
         PROVE  TypeOK'
    <3>1. CASE Answer(r)
      BY <3>1 DEF Answer
    <3>2. CASE Fail(r)
      BY <3>2 DEF Fail
    <3>3. QED
      BY <2>15, <3>1, <3>2
  <2>16. CASE Tick
    BY <2>16 DEF Tick
  <2>17. CASE Quiet \/ UNCHANGED vars
    BY <2>17 DEF Quiet, vars
  <2>18. QED
    BY <2>1, <2>2, <2>3, <2>4, <2>5, <2>6, <2>7, <2>8, <2>9, <2>10, <2>11,
       <2>12, <2>13, <2>14, <2>15, <2>16, <2>17 DEF Next, RunStep
<1>3. QED
  BY <1>1, <1>2, PTL DEF Spec

-----------------------------------------------------------------------------
(* The conjuncts of the invariant that do not mention pc.                  *)
DataInv ==
    /\ RowIsLatest
    /\ CopiesOK
    /\ OneWriterPerVersion
    /\ OverwriteOnlyAcrossLives
    /\ ExpiryCopiesAgree

\* They only depend on the row and on what the runs copied from it.
LEMMA DataFrame ==
    ASSUME DataInv, UNCHANGED <<row, lives, snap, loaded, commit>>
    PROVE  DataInv'
BY DEF DataInv, RowIsLatest, CopiesOK, CopyOK, OneWriterPerVersion,
       OverwriteOnlyAcrossLives, ExpiryCopiesAgree, SavedAcrossLives,
       NoConcurrentOverwrite

\* The row itself is a valid copy of the row.
LEMMA RowIsCopy ==
    ASSUME TypeOK, DataInv
    PROVE  CopyOK(row)
BY DEF TypeOK, Row, DataInv, RowIsLatest, ExpiryCopiesAgree, CopyOK, NoRow

\* A SELECT keeps the invariant of the data.
LEMMA SelectData ==
    ASSUME TypeOK, DataInv, NEW r \in Runs,
           snap' = [snap EXCEPT ![r] = row],
           UNCHANGED <<row, lives, loaded, commit>>
    PROVE  DataInv'
<1>1. CopyOK(row)
  BY RowIsCopy
<1>2. \A copy : CopyOK(copy)' <=> CopyOK(copy)
  BY DEF CopyOK, SavedAcrossLives
<1>3. CopiesOK'
  BY <1>1, <1>2 DEF CopiesOK, DataInv, TypeOK
<1>4. QED
  BY <1>3 DEF DataInv, RowIsLatest, OneWriterPerVersion,
     OverwriteOnlyAcrossLives, ExpiryCopiesAgree, SavedAcrossLives,
     NoConcurrentOverwrite

\* Deleting the row keeps it: no copy is of the life of an absent row.
LEMMA DeleteData ==
    ASSUME TypeOK, DataInv, row' \in {row, NoRow},
           UNCHANGED <<lives, snap, loaded, commit>>
    PROVE  DataInv'
<1>1. CASE row' = row
  BY <1>1, DataFrame
<1>2. CASE row' = NoRow
  BY <1>2 DEF TypeOK, Row, DataInv, RowIsLatest, CopiesOK, CopyOK, NoRow,
     OneWriterPerVersion, OverwriteOnlyAcrossLives, ExpiryCopiesAgree,
     SavedAcrossLives, NoConcurrentOverwrite
<1>3. QED
  BY <1>1, <1>2

\* Inserting a row keeps it: nothing is of the new life yet.
LEMMA InsertData ==
    ASSUME TypeOK, DataInv, CommitsOK, NEW r \in Runs, Insert(r)
    PROVE  DataInv'
<1> DEFINE new == FreshRow(r)
<1>1. /\ row = NoRow
      /\ row' = new
      /\ lives' = lives + 1
      /\ loaded' = [loaded EXCEPT ![r] = new]
      /\ snap' = snap /\ commit' = commit
  BY DEF Insert
<1>2. /\ new.life = lives + 1
      /\ new.version = 1
      /\ new.expiresAt = new.jsonExpiresAt
      /\ new # NoRow
  BY DEF FreshRow, NoRow, TypeOK
<1> HIDE DEF new
<1>3. RowIsLatest'
  BY <1>1, <1>2 DEF RowIsLatest, TypeOK
<1>4. \A q \in Runs : commit'[q].life # row'.life
  BY <1>1, <1>2 DEF CommitsOK, TypeOK
<1>5. ASSUME NEW copy \in Row, copy.life <= lives
      PROVE  CopyOK(copy)'
  BY <1>1, <1>2, <1>5 DEF CopyOK, Row, TypeOK
<1>6. CopyOK(row)'
  BY <1>1, <1>2 DEF CopyOK, TypeOK
<1>7. CopiesOK'
  <2> SUFFICES ASSUME NEW q \in Runs
               PROVE  CopyOK(snap[q])' /\ CopyOK(loaded[q])'
    BY DEF CopiesOK
  <2>1. /\ snap[q] \in Row /\ snap[q].life <= lives
        /\ loaded[q] \in Row /\ loaded[q].life <= lives
    BY DEF TypeOK, DataInv, CopiesOK, CopyOK
  <2>2. CopyOK(snap[q])'
    BY <1>1, <1>5, <2>1
  <2>3. CASE q = r
    BY <1>1, <1>6, <2>2, <2>3 DEF TypeOK, CopyOK
  <2>4. CASE q # r
    BY <1>1, <1>5, <2>1, <2>2, <2>4 DEF TypeOK, CopyOK
  <2>5. QED
    BY <2>3, <2>4
<1>8. OneWriterPerVersion'
  BY <1>1 DEF DataInv, OneWriterPerVersion
<1>9. OverwriteOnlyAcrossLives' /\ ExpiryCopiesAgree'
  BY <1>1, <1>2, <1>4 DEF OverwriteOnlyAcrossLives, ExpiryCopiesAgree,
     NoConcurrentOverwrite
<1>10. QED
  BY <1>3, <1>7, <1>8, <1>9 DEF DataInv

\* The UPDATE keeps it: the version leaves every copy and every earlier
\* commit behind, and the run's own copy was current when it matched.
LEMMA UpdateData ==
    ASSUME TypeOK, DataInv, SaveOK, CommitsOK, NEW r \in Runs, Update(r)
    PROVE  DataInv'
<1> DEFINE new == SavedRow(r)
<1>1. /\ row # NoRow
      /\ row.version = loaded[r].version
      /\ row' = new
      /\ commit' = [commit EXCEPT ![r] = [life |-> row.life,
                                         base |-> row.version]]
      /\ pc[r] = "update"
      /\ lives' = lives /\ snap' = snap /\ loaded' = loaded
  BY DEF Update, UpdateMatches
<1>2. /\ row \in Row /\ snap[r] \in Row /\ loaded[r] \in Row
      /\ row.life = lives /\ row.life # 0
      /\ snap[r].version = row.version
      /\ loaded[r].life <= snap[r].life /\ snap[r].life <= row.life
      /\ commit[r].life = 0
  BY <1>1 DEF TypeOK, DataInv, RowIsLatest, SaveOK, CommitsOK, CopiesOK, CopyOK
<1>3. /\ new.life = row.life
      /\ new.version = row.version + 1
      /\ new.expiresAt = row.expiresAt
      /\ new.jsonExpiresAt = snap[r].jsonExpiresAt
      /\ new.work = loaded[r].work \cup {r}
      /\ new # NoRow
  BY <1>1, <1>2 DEF SavedRow, Row, NoRow
<1> HIDE DEF new
<1>4. RowIsLatest'
  BY <1>1, <1>2, <1>3 DEF RowIsLatest
<1>5. /\ commit'[r] = [life |-> row.life, base |-> row.version]
      /\ \A q \in Runs \ {r} : commit'[q] = commit[q]
  BY <1>1 DEF TypeOK
<1>6. SavedAcrossLives' <=> (SavedAcrossLives \/ loaded[r].life # row.life)
  BY <1>1, <1>2, <1>3, <1>5 DEF SavedAcrossLives
<1>7. OneWriterPerVersion'
  BY <1>5, <1>2 DEF OneWriterPerVersion, DataInv, CommitsOK, TypeOK
<1>8. CopyOK(snap[r]) /\ CopyOK(loaded[r])
  BY DEF DataInv, CopiesOK
<1>9. ASSUME NEW copy \in Row, CopyOK(copy)
      PROVE  CopyOK(copy)'
  BY <1>1, <1>2, <1>3, <1>6, <1>9 DEF CopyOK, Row
<1>10. CopiesOK'
  BY <1>1, <1>9 DEF DataInv, CopiesOK, TypeOK
<1>11. OverwriteOnlyAcrossLives'
  <2> SUFFICES ASSUME ~SavedAcrossLives', NEW q \in Runs,
                      commit'[q].life = row'.life
               PROVE  q \in row'.work
    BY DEF OverwriteOnlyAcrossLives, NoConcurrentOverwrite
  <2>1. ~SavedAcrossLives /\ loaded[r].life = row.life
    BY <1>6
  <2>2. loaded[r].work = row.work
    BY <2>1, <1>1, <1>2, <1>8 DEF CopyOK
  <2>3. CASE q = r
    BY <2>3, <1>1, <1>3
  <2>4. CASE q # r
    BY <2>1, <2>2, <2>4, <1>1, <1>3, <1>5
       DEF DataInv, OverwriteOnlyAcrossLives, NoConcurrentOverwrite
  <2>5. QED
    BY <2>3, <2>4
<1>12. ExpiryCopiesAgree'
  <2> SUFFICES ASSUME ~SavedAcrossLives'
               PROVE  new.jsonExpiresAt = new.expiresAt
    BY <1>1 DEF ExpiryCopiesAgree
  <2>1. ~SavedAcrossLives /\ snap[r].life = row.life
    BY <1>6, <1>2 DEF Row
  <2>2. QED
    BY <2>1, <1>2, <1>3, <1>8 DEF CopyOK
<1>13. QED
  BY <1>4, <1>7, <1>10, <1>11, <1>12 DEF DataInv

-----------------------------------------------------------------------------
(* The steps, for the conjuncts that mention pc.                           *)

\* Steps that write none of the data and enter the save path nowhere.
LEMMA QuietStep ==
    ASSUME TypeOK, SaveOK, CommitsOK,
           UNCHANGED <<row, lives, snap, loaded, commit>>,
           \A q \in Runs : \/ pc'[q] = pc[q]
                          \/ /\ pc'[q] \notin {"saveCheck", "update"}
                             /\ \/ pc'[q] \in {"done", "failed"}
                                \/ pc[q] \notin {"saved", "done", "failed"}
    PROVE  SaveOK' /\ CommitsOK'
BY DEF SaveOK, CommitsOK

\* One step of the specification keeps the invariant.
LEMMA InvStep ==
    ASSUME IInv, TypeOK', [Next]_vars
    PROVE  DataInv' /\ SaveOK' /\ CommitsOK'
<1>0. DataInv
  BY DEF IInv, DataInv
<1> USE <1>0 DEF IInv
<1>1. ASSUME NEW r \in Runs,
             \/ Begin(r) \/ LoadCheckExpired(r) \/ CreateCheck(r)
             \/ InsertDuplicate(r) \/ Work(r) \/ UpdateMissed(r)
             \/ ConflictSelect(r) \/ Answer(r) \/ Fail(r)
      PROVE  DataInv' /\ SaveOK' /\ CommitsOK'
  <2>1. UNCHANGED <<row, lives, snap, loaded, commit>>
    BY <1>1 DEF Begin, LoadCheckExpired, CreateCheck, InsertDuplicate, Work,
       UpdateMissed, ConflictSelect, Answer, Fail
  <2>2. \A q \in Runs : \/ pc'[q] = pc[q]
                       \/ /\ pc'[q] \notin {"saveCheck", "update"}
                          /\ \/ pc'[q] \in {"done", "failed"}
                             \/ pc[q] \notin {"saved", "done", "failed"}
    BY <1>1 DEF Begin, LoadCheckExpired, CreateCheck, InsertDuplicate, Work,
       UpdateMissed, ConflictSelect, AfterSaveConflict, Answer, Fail, Goto,
       TypeOK
  <2>3. QED
    BY <2>1, <2>2, DataFrame, QuietStep
<1>2. ASSUME NEW r \in Runs, LoadSelect(r) \/ SaveSelect(r)
      PROVE  DataInv' /\ SaveOK' /\ CommitsOK'
  <2>1. /\ snap' = [snap EXCEPT ![r] = row]
        /\ UNCHANGED <<row, lives, loaded, commit>>
        /\ pc[r] \in {"loadSelect", "saveSelect"}
        /\ pc' = [pc EXCEPT ![r] = pc'[r]]
        /\ pc'[r] \in {"failed", "createCheck", "loadCheck", "saveCheck"}
        /\ pc'[r] = "saveCheck" => row # NoRow
    BY <1>2 DEF LoadSelect, SaveSelect, AfterMissingLoad, Goto, TypeOK
  <2>2. DataInv'
    BY <2>1, SelectData
  <2>3. row # NoRow => loaded[r].life <= row.life
    BY DEF DataInv, RowIsLatest, CopiesOK, CopyOK
  <2>4. SaveOK' /\ CommitsOK'
    BY <2>1, <2>3 DEF SaveOK, CommitsOK, TypeOK
  <2>5. QED
    BY <2>2, <2>4
<1>3. ASSUME NEW r \in Runs, LoadCheckLive(r)
      PROVE  DataInv' /\ SaveOK' /\ CommitsOK'
  <2>1. /\ loaded' = [loaded EXCEPT ![r] = snap[r]]
        /\ UNCHANGED <<row, lives, snap, commit>>
        /\ pc[r] = "loadCheck"
        /\ pc' = [pc EXCEPT ![r] = "working"]
        /\ commit[r].life = 0
    BY <1>3 DEF LoadCheckLive, Goto, CommitsOK
  <2>2. SavedAcrossLives' <=> SavedAcrossLives
    <3>1. ASSUME NEW q \in Runs, row # NoRow, commit[q].life = row.life
          PROVE  loaded'[q] = loaded[q]
      BY <3>1, <2>1 DEF DataInv, RowIsLatest, TypeOK
    <3>2. QED
      BY <3>1, <2>1 DEF SavedAcrossLives
  <2>3. \A q \in Runs : CopyOK(snap[q])' /\ CopyOK(loaded[q])'
    BY <2>1, <2>2 DEF DataInv, CopiesOK, CopyOK, TypeOK
  <2>4. DataInv'
    BY <2>1, <2>2, <2>3 DEF DataInv, RowIsLatest, CopiesOK,
       OneWriterPerVersion, OverwriteOnlyAcrossLives, ExpiryCopiesAgree,
       NoConcurrentOverwrite
  <2>5. SaveOK' /\ CommitsOK'
    BY <2>1 DEF SaveOK, CommitsOK, TypeOK
  <2>6. QED
    BY <2>4, <2>5
<1>4. ASSUME NEW r \in Runs, LoadDelete(r) \/ SaveDelete(r)
      PROVE  DataInv' /\ SaveOK' /\ CommitsOK'
  <2>1. /\ row' \in {row, NoRow}
        /\ UNCHANGED <<lives, snap, loaded, commit>>
        /\ pc[r] \in {"loadDelete", "saveDelete"}
        /\ pc' = [pc EXCEPT ![r] = pc'[r]]
        /\ pc'[r] \in {"failed", "createCheck"}
    BY <1>4 DEF LoadDelete, SaveDelete, RowAfterDeleteExpired,
       AfterMissingLoad, Goto, TypeOK
  <2>2. DataInv'
    BY <2>1, DeleteData
  <2>3. SaveOK' /\ CommitsOK'
    BY <2>1 DEF SaveOK, CommitsOK, TypeOK, NoRow
  <2>4. QED
    BY <2>2, <2>3
<1>5. ASSUME NEW r \in Runs, SaveCheck(r)
      PROVE  DataInv' /\ SaveOK' /\ CommitsOK'
  <2>1. UNCHANGED <<row, lives, snap, loaded, commit>>
    BY <1>5 DEF SaveCheck
  <2>2. /\ pc[r] = "saveCheck"
        /\ pc' = [pc EXCEPT ![r] = pc'[r]]
        /\ pc'[r] \in {"saveDelete", "failed", "update"}
        /\ pc'[r] = "update" => snap[r].version = loaded[r].version
    BY <1>5 DEF SaveCheck, AfterSaveCheck, Goto, TypeOK
  <2>3. SaveOK' /\ CommitsOK'
    BY <2>1, <2>2 DEF SaveOK, CommitsOK, TypeOK
  <2>4. QED
    BY <2>1, <2>3, DataFrame
<1>6. ASSUME NEW r \in Runs, Insert(r)
      PROVE  DataInv' /\ SaveOK' /\ CommitsOK'
  <2>1. DataInv'
    BY <1>6, InsertData
  <2>2. /\ lives' = lives + 1
        /\ row'.life = lives + 1
        /\ loaded' = [loaded EXCEPT ![r] = loaded'[r]]
        /\ UNCHANGED <<snap, commit>>
        /\ pc[r] = "insert"
        /\ pc' = [pc EXCEPT ![r] = "working"]
    BY <1>6 DEF Insert, FreshRow, Goto, TypeOK
  <2>3. SaveOK' /\ CommitsOK'
    BY <2>2 DEF SaveOK, CommitsOK, TypeOK
  <2>4. QED
    BY <2>1, <2>3
<1>7. ASSUME NEW r \in Runs, Update(r)
      PROVE  DataInv' /\ SaveOK' /\ CommitsOK'
  <2>1. DataInv'
    BY <1>7, UpdateData
  <2>2. /\ commit' = [commit EXCEPT ![r] = [life |-> row.life,
                                           base |-> row.version]]
        /\ UNCHANGED <<lives, snap, loaded>>
        /\ pc[r] = "update"
        /\ pc' = [pc EXCEPT ![r] = "saved"]
        /\ row'.life = row.life
        /\ row'.version = row.version + 1
        /\ row # NoRow
    <3>1. /\ snap[r].version = row.version
          /\ row \in Row
      BY <1>7 DEF Update, UpdateMatches, SaveOK, TypeOK
    <3>2. QED
      BY <1>7, <3>1 DEF Update, UpdateMatches, SavedRow, Goto, Row
  <2>3. row.life = lives /\ row.version \in Nat /\ row.life \in Nat
    BY <2>2 DEF DataInv, RowIsLatest, TypeOK, Row
  <2>4. SaveOK'
    BY <2>2 DEF SaveOK, TypeOK
  <2>5. CommitsOK'
    BY <2>2, <2>3 DEF CommitsOK, TypeOK
  <2>6. QED
    BY <2>1, <2>4, <2>5
<1>8. CASE Tick \/ Quiet \/ UNCHANGED vars
  <2>1. UNCHANGED <<row, lives, snap, loaded, commit, pc>>
    BY <1>8 DEF Tick, Quiet, vars
  <2>2. QED
    BY <2>1, DataFrame, QuietStep
<1>9. QED
  BY <1>1, <1>2, <1>3, <1>4, <1>5, <1>6, <1>7, <1>8 DEF Next, RunStep

\* The invariant holds in every reachable state.
THEOREM Invariance == Spec => []IInv
<1>1. Init => IInv
  <2> SUFFICES ASSUME Init
               PROVE  IInv
    OBVIOUS
  <2> USE DEF Init, NoRow, NotCommitted
  <2>1. TypeOK
    BY DEF TypeOK, Row, Step
  <2>2. RowIsLatest /\ SaveOK /\ CommitsOK
    BY DEF RowIsLatest, SaveOK, CommitsOK
  <2>3. CopiesOK
    <3>1. lives = 0 /\ NoRow.life = 0
      OBVIOUS
    <3>2. CopyOK(NoRow)
      BY <3>1 DEF CopyOK
    <3>3. QED
      BY <3>2 DEF CopiesOK
  <2>4. /\ row.life = 0 /\ row = NoRow /\ row.jsonExpiresAt = row.expiresAt
        /\ \A r \in Runs : commit[r].life = 0
    OBVIOUS
  <2>5. OneWriterPerVersion /\ OverwriteOnlyAcrossLives /\ ExpiryCopiesAgree
    BY <2>4 DEF OneWriterPerVersion, OverwriteOnlyAcrossLives,
       ExpiryCopiesAgree, NoConcurrentOverwrite
  <2>6. QED
    BY <2>1, <2>2, <2>3, <2>5 DEF IInv
<1>2. IInv /\ TypeOK' /\ [Next]_vars => IInv'
  BY InvStep DEF IInv, DataInv
<1>3. QED
  BY <1>1, <1>2, TypeCorrect, PTL DEF Spec

-----------------------------------------------------------------------------
\* The optimistic lock of save (UPDATE ... WHERE version = ?): no version of
\* a row is replaced twice, whatever the number of concurrent runs.
THEOREM OptimisticLock == Spec => []OneWriterPerVersion
<1>1. IInv => OneWriterPerVersion
  BY DEF IInv
<1>2. QED
  BY <1>1, Invariance, PTL

\* Work is lost only when a run saves to a row it did not load.
THEOREM WorkKept == Spec => []OverwriteOnlyAcrossLives
<1>1. IInv => OverwriteOnlyAcrossLives
  BY DEF IInv
<1>2. QED
  BY <1>1, Invariance, PTL

\* The version number a run holds identifies the content it holds.
THEOREM VersionIsIdentity == Spec => []VersionIdentifiesState
<1>1. IInv => VersionIdentifiesState
  BY DEF IInv, CopiesOK, CopyOK, VersionIdentifiesState
<1>2. QED
  BY <1>1, Invariance, PTL

\* The two copies of the expiry agree.
THEOREM ExpiryAgreement == Spec => []ExpiryCopiesAgree
<1>1. IInv => ExpiryCopiesAgree
  BY DEF IInv
<1>2. QED
  BY <1>1, Invariance, PTL

-----------------------------------------------------------------------------
\* this.now() of a store call is never ahead of the clock.
LEMMA CallTime == Spec => [](\A r \in Runs : at[r] <= now)
<1> DEFINE P == \A r \in Runs : at[r] <= now
<1>1. Init => P
  <2> SUFFICES ASSUME Init, NEW r \in Runs
               PROVE  at[r] <= now
    OBVIOUS
  <2>1. now = 0 /\ at[r] = 0
    BY DEF Init
  <2>2. 0 <= 0
    OBVIOUS
  <2>3. QED
    BY <2>1, <2>2
<1>2. P /\ TypeOK /\ [Next]_vars => P'
  <2> SUFFICES ASSUME P, TypeOK, [Next]_vars
               PROVE  P'
    OBVIOUS
  <2>1. ASSUME NEW r \in Runs,
               LoadCheckLive(r) \/ LoadCheckExpired(r) \/ SaveCheck(r)
        PROVE  P'
    <3>1. at' = [at EXCEPT ![r] = now] /\ now' = now
      BY <2>1 DEF LoadCheckLive, LoadCheckExpired, SaveCheck
    <3>2. QED
      BY <3>1 DEF TypeOK
  <2>2. ASSUME NEW r \in Runs,
               \/ Begin(r) \/ LoadSelect(r) \/ LoadDelete(r) \/ CreateCheck(r)
               \/ Insert(r) \/ InsertDuplicate(r) \/ Work(r) \/ SaveSelect(r)
               \/ SaveDelete(r) \/ Update(r) \/ UpdateMissed(r)
               \/ ConflictSelect(r) \/ Answer(r) \/ Fail(r)
        PROVE  P'
    <3>1. at' = at /\ now' = now
      BY <2>2 DEF Begin, LoadSelect, LoadDelete, CreateCheck, Insert,
         InsertDuplicate, Work, SaveSelect, SaveDelete, Update, UpdateMissed,
         ConflictSelect, Answer, Fail
    <3>2. QED
      BY <3>1
  <2>3. CASE Tick
    BY <2>3 DEF Tick, TypeOK
  <2>4. CASE Quiet \/ UNCHANGED vars
    BY <2>4 DEF Quiet, vars
  <2>5. QED
    BY <2>1, <2>2, <2>3, <2>4 DEF Next, RunStep
<1>3. QED
  BY <1>1, <1>2, TypeCorrect, PTL DEF Spec

\* A row is deleted only after it expired, also when the DELETE is issued by
\* a run that looked at an earlier row (DELETE ... AND expires_at <= ?).
THEOREM FreshRowSurvives == Spec => OnlyExpiredRowsDeleted
<1> DEFINE P == \A r \in Runs : at[r] <= now
<1>1. P /\ TypeOK /\ [Next]_vars =>
          [(row # NoRow /\ row' = NoRow) => row.expiresAt <= now]_vars
  <2> SUFFICES ASSUME P, TypeOK, Next, row # NoRow, row' = NoRow
               PROVE  row.expiresAt <= now
    OBVIOUS
  <2>1. PICK r \in Runs : \/ row' = RowAfterDeleteExpired(at[r])
                         \/ row' = FreshRow(r)
                         \/ row' = SavedRow(r)
    BY DEF Next, RunStep, Begin, LoadSelect, LoadCheckLive, LoadCheckExpired,
       LoadDelete, CreateCheck, Insert, InsertDuplicate, Work, SaveSelect,
       SaveCheck, SaveDelete, Update, UpdateMissed, ConflictSelect, Answer,
       Fail, Tick, Quiet, vars
  <2>2. CASE row' = RowAfterDeleteExpired(at[r])
    BY <2>2 DEF RowAfterDeleteExpired, TypeOK, Row
  <2>3. CASE row' = FreshRow(r)
    BY <2>3 DEF FreshRow, NoRow
  <2>4. CASE row' = SavedRow(r)
    <3>1. row \in Row /\ snap[r].version \in Nat
      BY DEF TypeOK, Row
    <3>2. SavedRow(r).version = snap[r].version + 1
      BY <3>1 DEF SavedRow, Row
    <3>3. QED
      BY <2>4, <3>1, <3>2 DEF NoRow
  <2>5. QED
    BY <2>1, <2>2, <2>3, <2>4
<1>2. QED
  BY <1>1, CallTime, TypeCorrect, PTL DEF Spec, OnlyExpiredRowsDeleted
=============================================================================
