------------------------- MODULE TargetSwitchProofs -------------------------
(***************************************************************************)
(* Proofs about TargetSwitch for any requests, messages and bounds: what a *)
(* decision about a switch can do however requests overlap.  Which issues  *)
(* an approval archives is defined by recursion over the list of them, so  *)
(* that their types are shown by induction.                                *)
(***************************************************************************)
EXTENDS TargetSwitch, WellFoundedInduction, SequenceTheorems, TLAPS

PreviousLists ==
    {list \in Seq([issue : Issues, messageId : Messages]) : Len(list) <= MaxIssues}

Typed(s) ==
    s \in [version : Nat, messageId : Messages \cup {None},
           candidate : Messages \cup {None}, listed : BOOLEAN,
           facts : SUBSET (Issues \X (Messages \cup {None})),
           question : {"none", "messageId", "targetSwitch"},
           pending : Switches \cup {None}, issue : Issues,
           previous : PreviousLists]

\* A pending switch is from the located message and its issue; where messages
\* are listed there is no candidate and none pending.
Consistent(s) ==
    /\ Typed(s)
    /\ FactsOfCase(s)
    /\ s.listed => s.candidate = None
    /\ s.pending # None => /\ s.messageId = s.pending.from
                           /\ s.issue = s.pending.issue
                           /\ ~s.listed

Approves(d) == d # None /\ d.approve

\* What a run has made of the stored state, as long as that is the one it
\* has loaded.
Follows(r) ==
    LET s == run[r].state
        d == run[r].decision
    IN  /\ d # None => session.pending = d.id
        /\ Approves(d) => /\ s.issue[1] = session.pending.to
                          /\ s.candidate = session.pending.to
        /\ ~Approves(d) => /\ s.issue = session.issue
                           /\ session.messageId # None => s.messageId = session.messageId
        /\ session.listed => s.candidate \in {None, session.candidate, run[r].text}

RunOK(r) ==
    LET s == run[r].state
        d == run[r].decision
    IN  /\ Consistent(s) /\ s.version <= session.version
        /\ d \in Decisions \cup {None} /\ run[r].text \in Messages \cup {None}
        /\ run[r].pc = "extracting" => d = None
        /\ run[r].pc \in {"extracting", "selecting"} => s.pending = None
        /\ run[r].pc = "saving" /\ s.pending # None =>
               s.pending.version = s.version /\ d = None
        /\ s.version = session.version /\ run[r].pc # "idle" => Follows(r)
        /\ s.version = session.version /\ run[r].pc = "extracting" => s = session

RunType ==
    run \in [Runs -> [pc : {"idle", "extracting", "selecting", "saving"},
                      text : Messages \cup {None}, decision : Decisions \cup {None},
                      state : {run[r].state : r \in Runs}]]

SessionOK ==
    /\ now \in 0..MaxTime
    /\ Consistent(session) /\ session.version # 0
    /\ session.pending # None => session.pending.version < session.version

\* What a customer was shown last is still pending.
ShownOK ==
    \A offer \in shown :
        /\ offer \in [id : Switches, version : Nat]
        /\ offer.version <= session.version
        /\ offer.version = session.version => session.pending = offer.id

\* A decided switch is older than the save of its decision, and not pending.
AppliedOK ==
    \A a \in applied :
        /\ a \in [id : Switches, approve : BOOLEAN, saved : Nat]
        /\ a.id.version < a.saved /\ a.saved <= session.version
        /\ a.id # session.pending

IInv ==
    /\ RunType
    /\ SessionOK
    /\ \A r \in Runs : RunOK(r)
    /\ ShownOK
    /\ AppliedOK
    /\ DecidedOnce

-----------------------------------------------------------------------------
(* The issues an approval archives.                                        *)

\* A set of naturals that is not empty has a least element.
LEMMA Least ==
    ASSUME NEW T \in SUBSET Nat, T # {}
    PROVE  \E n \in T : \A m \in T : n <= m
<1>1. PICK n \in T : \A m \in T : ~(<<m, n>> \in OpToRel(<, Nat))
  BY NatLessThanWellFounded, WFMin
<1>2. \A m \in T : ~(m < n)
  BY <1>1 DEF OpToRel
<1> QED
  BY <1>2

\* Induction, over a set of naturals.
LEMMA Induction ==
    ASSUME NEW T, 0 \in T, \A n \in Nat : n \in T => n + 1 \in T
    PROVE  Nat \subseteq T
<1>1. SUFFICES ASSUME Nat \ T # {}
               PROVE  FALSE
  OBVIOUS
<1>2. PICK n \in Nat \ T : \A m \in Nat \ T : n <= m
  BY <1>1, Least
<1> QED
  BY <1>2

\* kept[n] is what Without keeps of the first n issues.
Keeps(kept, n, list, issue) ==
    /\ kept[0] = <<>>
    /\ \A i \in 1..n : kept[i] = IF list[i].issue # issue
                                 THEN Append(kept[i - 1], list[i]) ELSE kept[i - 1]

\* The equation that defines it has a solution...
LEMMA KeptExists ==
    ASSUME NEW S, NEW list \in Seq(S), NEW issue
    PROVE  \E kept \in [0..Len(list) -> Seq(S)] : Keeps(kept, Len(list), list, issue)
<1> DEFINE T == {k \in Nat : k <= Len(list) =>
                    \E kept \in [0..k -> Seq(S)] : Keeps(kept, k, list, issue)}
<1>0. Len(list) \in Nat /\ \A i \in 1..Len(list) : list[i] \in S
  OBVIOUS
<1>1. 0 \in T
  <2>1. /\ [i \in 0..0 |-> <<>>] \in [0..0 -> Seq(S)]
        /\ Keeps([i \in 0..0 |-> <<>>], 0, list, issue)
    BY DEF Keeps
  <2> QED
    BY <2>1
<1>2. ASSUME NEW k \in Nat, k \in T
      PROVE  k + 1 \in T
  <2>1. SUFFICES ASSUME k + 1 <= Len(list)
                 PROVE  \E kept \in [0..(k + 1) -> Seq(S)] : Keeps(kept, k + 1, list, issue)
    OBVIOUS
  <2>2. PICK p \in [0..k -> Seq(S)] : Keeps(p, k, list, issue)
    BY <1>0, <1>2, <2>1
  <2> DEFINE more == IF list[k + 1].issue # issue THEN Append(p[k], list[k + 1]) ELSE p[k]
             q == [i \in 0..(k + 1) |-> IF i = k + 1 THEN more ELSE p[i]]
  <2>3. more \in Seq(S)
    <3>1. p[k] \in Seq(S) /\ list[k + 1] \in S
      BY <1>0, <2>1, <2>2
    <3> QED
      BY <3>1
  <2> HIDE DEF more
  <2>4. q \in [0..(k + 1) -> Seq(S)]
    BY <2>2, <2>3
  <2>5. q[0] = <<>>
    BY <2>2 DEF Keeps
  <2>6. ASSUME NEW i \in 1..(k + 1)
        PROVE  q[i] = IF list[i].issue # issue THEN Append(q[i - 1], list[i]) ELSE q[i - 1]
    <3>1. CASE i = k + 1
      BY <3>1 DEF more
    <3>2. CASE i # k + 1
      <4>1. i \in 1..k /\ i - 1 \in 0..k
        BY <3>2
      <4>2. q[i] = p[i] /\ q[i - 1] = p[i - 1]
        BY <4>1
      <4> QED
        BY <4>1, <4>2, <2>2 DEF Keeps
    <3> QED
      BY <3>1, <3>2
  <2> QED
    BY <2>4, <2>5, <2>6 DEF Keeps
<1>3. Nat \subseteq T
  <2> HIDE DEF T
  <2> QED
    BY <1>1, <1>2, Induction
<1> QED
  BY <1>0, <1>3

\* ...that ends in one way only.
LEMMA KeptUnique ==
    ASSUME NEW p, NEW q, NEW list, NEW issue, NEW n \in Nat,
           Keeps(p, n, list, issue), Keeps(q, n, list, issue)
    PROVE  p[n] = q[n]
<1> DEFINE T == {k \in Nat : k <= n => p[k] = q[k]}
<1>1. 0 \in T
  BY DEF Keeps
<1>2. ASSUME NEW k \in Nat, k \in T
      PROVE  k + 1 \in T
  <2>1. SUFFICES ASSUME k + 1 <= n PROVE p[k + 1] = q[k + 1]
    OBVIOUS
  <2>2. p[k] = q[k] /\ k + 1 \in 1..n /\ (k + 1) - 1 = k
    BY <1>2, <2>1
  <2> QED
    BY <2>2 DEF Keeps
<1>3. Nat \subseteq T
  <2> HIDE DEF T
  <2> QED
    BY <1>1, <1>2, Induction
<1> QED
  BY <1>3

\* Without an issue, a list of issues is one still.
LEMMA WithoutIsList ==
    ASSUME NEW S, NEW list \in Seq(S), NEW issue
    PROVE  Without(list, issue) \in Seq(S)
<1> DEFINE L == Len(list)
           Eq(p) == [n \in 0..L |-> IF n = 0 THEN <<>>
                                    ELSE IF list[n].issue # issue
                                    THEN Append(p[n - 1], list[n]) ELSE p[n - 1]]
           kept == CHOOSE p : p = Eq(p)
<1>1. PICK p \in [0..L -> Seq(S)] : Keeps(p, L, list, issue)
  BY KeptExists
<1>2. p = Eq(p)
  <2>1. L \in Nat
    OBVIOUS
  <2>2. ASSUME NEW n \in 0..L
        PROVE  p[n] = IF n = 0 THEN <<>>
                      ELSE IF list[n].issue # issue
                      THEN Append(p[n - 1], list[n]) ELSE p[n - 1]
    <3>1. n = 0 \/ n \in 1..L
      BY <2>1
    <3> QED
      BY <3>1, <1>1 DEF Keeps
  <2>3. p = [n \in 0..L |-> p[n]]
    BY <1>1
  <2> QED
    BY <2>2, <2>3
<1>3. kept = Eq(kept)
  BY <1>2
<1>4. Without(list, issue) = kept[L]
  BY DEF Without
<1> HIDE DEF kept
<1>5. L \in Nat
  OBVIOUS
<1>6. Keeps(kept, L, list, issue)
  <2>1. \A n \in 0..L : kept[n] = Eq(kept)[n]
    BY <1>3
  <2>2. \A n \in 1..L : n \in 0..L /\ n # 0
    BY <1>5
  <2>3. 0 \in 0..L
    BY <1>5
  <2> HIDE DEF L
  <2> QED
    BY <2>1, <2>2, <2>3 DEF Keeps
<1>7. kept[L] = p[L]
  BY <1>1, <1>5, <1>6, KeptUnique
<1> QED
  BY <1>1, <1>4, <1>7

\* The archive holds the last MaxIssues issues.
LEMMA ArchiveIsBounded ==
    ASSUME NEW s, Typed(s), s.messageId \in Messages
    PROVE  Archived(s) \in PreviousLists
<1> DEFINE S == [issue : Issues, messageId : Messages]
           others == Without(s.previous, s.issue)
           all == Append(others, [issue |-> s.issue, messageId |-> s.messageId])
<1>1. s.previous \in Seq(S) /\ s.issue \in Issues
  BY DEF Typed, PreviousLists
<1>2. others \in Seq(S)
  BY <1>1, WithoutIsList
<1> HIDE DEF others
<1>3. all \in Seq(S)
  BY <1>1, <1>2
<1>4. Archived(s) = IF Len(all) <= MaxIssues THEN all
                    ELSE SubSeq(all, Len(all) - MaxIssues + 1, Len(all))
  BY DEF Archived, others
<1> HIDE DEF all
<1>5. Len(all) \in Nat /\ MaxIssues \in Nat \ {0}
  BY <1>3, SwitchAssumption
<1>6. CASE Len(all) <= MaxIssues
  BY <1>3, <1>4, <1>6 DEF PreviousLists
<1>7. CASE ~(Len(all) <= MaxIssues)
  <2> DEFINE from == Len(all) - MaxIssues + 1
             last == SubSeq(all, from, Len(all))
  <2>1. from \in 1..Len(all) /\ Len(all) - from + 1 = MaxIssues
    BY <1>5, <1>7
  <2>2. last \in Seq(S) /\ Len(last) = Len(all) - from + 1
    <3>1. from \in Int /\ Len(all) \in Int /\ from <= Len(all)
      BY <1>5, <2>1
    <3>2. \A i \in from..Len(all) : all[i] \in S
      <4>1. \A i \in from..Len(all) : i \in 1..Len(all)
        BY <1>5, <2>1
      <4> HIDE DEF from, S
      <4> QED
        BY <1>3, <4>1
    <3> HIDE DEF from, S
    <3> QED
      BY <3>1, <3>2, SubSeqProperties
  <2> HIDE DEF from, last
  <2>3. Archived(s) = last
    BY <1>4, <1>7 DEF last, from
  <2> QED
    BY <1>5, <2>1, <2>2, <2>3 DEF PreviousLists
<1> QED
  BY <1>6, <1>7

-----------------------------------------------------------------------------
(* Operators on the state of a session.                                    *)

\* Naming a candidate keeps target and issue.
LEMMA NameKeeps ==
    ASSUME NEW s, Consistent(s), NEW m \in Messages,
           s.pending = None, s.messageId \in {None, m}
    PROVE  LET t == NameCandidate(s, m) IN
           /\ Consistent(t)
           /\ t.version = s.version /\ t.messageId = s.messageId /\ t.issue = s.issue
           /\ t.candidate = m /\ t.pending = None
<1> DEFINE t == NameCandidate(s, m)
<1>1. /\ t.version = s.version /\ t.messageId = s.messageId /\ t.issue = s.issue
      /\ t.candidate = m /\ t.pending = None /\ t.previous = s.previous
      /\ t.listed = (s.listed /\ m = s.candidate)
      /\ t.facts = IF Forgets(s, m) THEN {} ELSE s.facts
  BY DEF NameCandidate, Consistent, Typed
<1>2. Typed(t)
  BY NoneAssumption DEF NameCandidate, Consistent, Typed, Forgets
<1>3. ~t.listed
  BY <1>1, NoneAssumption DEF Consistent
<1>4. FactsOfCase(t)
  BY <1>1 DEF FactsOfCase, Consistent, Forgets
<1> QED
  BY <1>1, <1>2, <1>3, <1>4 DEF Consistent

\* So does offering a switch, which is the one then pending.
LEMMA OfferKeeps ==
    ASSUME NEW s, Consistent(s), NEW m \in Messages, now \in Nat,
           s.pending = None, s.messageId \notin {None, m}
    PROVE  LET t == OfferSwitch(s, m) IN
           /\ Consistent(t)
           /\ t.version = s.version /\ t.messageId = s.messageId /\ t.issue = s.issue
           /\ t.candidate = m /\ t.pending # None /\ t.pending.version = s.version
<1> DEFINE t == OfferSwitch(s, m)
           p == [version |-> s.version, from |-> s.messageId, to |-> m,
                 at |-> now, issue |-> s.issue]
<1>1. /\ t.version = s.version /\ t.messageId = s.messageId /\ t.issue = s.issue
      /\ t.candidate = m /\ t.pending = p /\ t.previous = s.previous
      /\ t.listed = (s.listed /\ m = s.candidate)
      /\ t.facts = s.facts
  BY DEF OfferSwitch, Consistent, Typed
<1>2. p \in Switches /\ p # None
  BY NoneAssumption DEF Switches, Consistent, Typed
<1>3. Typed(t)
  BY <1>2 DEF OfferSwitch, Consistent, Typed
<1>4. ~t.listed
  BY <1>1, NoneAssumption DEF Consistent
<1>5. FactsOfCase(t)
  BY <1>1 DEF FactsOfCase, Consistent
<1> QED
  BY <1>1, <1>2, <1>3, <1>4, <1>5 DEF Consistent

LEMMA MergeKeeps ==
    ASSUME NEW s, Consistent(s), NEW m \in Messages \cup {None}, now \in Nat,
           s.pending = None
    PROVE  LET t == MergeCandidate(s, m) IN
           /\ Consistent(t)
           /\ t.version = s.version /\ t.messageId = s.messageId /\ t.issue = s.issue
           /\ t.candidate \in {s.candidate, m}
           /\ t.pending # None => t.pending.version = s.version
<1>1. CASE m = None
  BY <1>1 DEF MergeCandidate
<1>2. CASE m # None /\ s.messageId \in {None, m}
  BY <1>2, NameKeeps DEF MergeCandidate
<1>3. CASE m # None /\ s.messageId \notin {None, m}
  BY <1>3, OfferKeeps DEF MergeCandidate
<1> QED
  BY <1>1, <1>2, <1>3

\* A rejection keeps target and issue, and so does an expiry.
LEMMA RejectKeeps ==
    ASSUME NEW s, Consistent(s), s.pending # None,
           NEW t \in {Reject(s), Expire(s)}
    PROVE  /\ Consistent(t)
           /\ t.version = s.version /\ t.messageId = s.messageId /\ t.issue = s.issue
           /\ t.pending = None /\ ~t.listed
<1>1. /\ t.version = s.version /\ t.messageId = s.messageId /\ t.issue = s.issue
      /\ t.candidate = s.messageId /\ t.pending = None /\ t.previous = s.previous
      /\ t.listed = s.listed /\ t.facts = s.facts
  BY DEF Reject, Expire, Consistent, Typed
<1>2. Typed(t)
  BY DEF Reject, Expire, Consistent, Typed
<1>3. s.messageId # None
  BY NoneAssumption DEF Consistent, Typed, Switches
<1>4. FactsOfCase(t)
  BY <1>1, <1>3 DEF FactsOfCase, Consistent
<1> QED
  BY <1>1, <1>2, <1>4 DEF Consistent

\* An approval starts an issue about the other message, without facts.
LEMMA ApproveMoves ==
    ASSUME NEW s, Consistent(s), s.pending # None, now \in Nat
    PROVE  LET t == Approve(s) IN
           /\ Consistent(t)
           /\ t.version = s.version /\ t.pending = None
           /\ t.issue[1] = s.pending.to /\ t.candidate = s.pending.to
<1> DEFINE t == Approve(s)
           i == <<s.pending.to, s.version, now>>
<1>1. /\ t.version = s.version /\ t.messageId = None /\ t.issue = i
      /\ t.candidate = s.pending.to /\ t.pending = None
      /\ t.listed = s.listed /\ t.facts = {} /\ t.previous = Archived(s)
  BY DEF Approve, Consistent, Typed
<1>2. i \in Issues /\ s.pending.to \in Messages
  BY DEF Consistent, Typed, Switches, Issues
<1>3. Typed(t)
  <2>1. Archived(s) \in PreviousLists
    <3>1. s.messageId \in Messages
      BY DEF Consistent, Typed, Switches
    <3> QED
      BY <3>1, ArchiveIsBounded DEF Consistent
  <2> QED
    BY <1>1, <1>2, <2>1 DEF Approve, Consistent, Typed
<1>4. FactsOfCase(t)
  BY <1>1 DEF FactsOfCase
<1> QED
  BY <1>1, <1>2, <1>3, <1>4 DEF Consistent

-----------------------------------------------------------------------------
(* One run moves.                                                          *)

Phases == {"idle", "extracting", "selecting", "saving"}

\* Run r has become x, and no other has changed.
Becomes(r, x) ==
    /\ x \in [pc : Phases, text : Messages \cup {None},
              decision : Decisions \cup {None}, state : {x.state}]
    /\ RunType'
    /\ run'[r] = x
    /\ \A q \in Runs \ {r} : run'[q] = run[q]

LEMMA RunBecomes ==
    ASSUME RunType, NEW r \in Runs, NEW pc \in Phases,
           NEW text \in Messages \cup {None}, NEW d \in Decisions \cup {None}, NEW s,
           run' = [run EXCEPT ![r] = [pc |-> pc, text |-> text, decision |-> d, state |-> s]]
    PROVE  Becomes(r, [pc |-> pc, text |-> text, decision |-> d, state |-> s])
<1> DEFINE x == [pc |-> pc, text |-> text, decision |-> d, state |-> s]
<1>1. run'[r] = x /\ \A q \in Runs \ {r} : run'[q] = run[q]
  BY DEF RunType
<1>2. x \in [pc : Phases, text : Messages \cup {None},
             decision : Decisions \cup {None}, state : {x.state}]
  OBVIOUS
<1>3. RunType'
  <2>1. DOMAIN run' = Runs /\ run' = [q \in Runs |-> run'[q]]
    BY DEF RunType
  <2>2. ASSUME NEW q \in Runs
        PROVE  run'[q] \in [pc : Phases, text : Messages \cup {None},
                            decision : Decisions \cup {None},
                            state : {run'[p].state : p \in Runs}]
    <3>1. CASE q = r
      BY <1>1, <3>1
    <3>2. CASE q # r
      BY <1>1, <3>2 DEF RunType, Phases
    <3> QED
      BY <3>1, <3>2
  <2> QED
    BY <2>1, <2>2 DEF RunType, Phases
<1> QED
  BY <1>1, <1>2, <1>3 DEF Becomes

LEMMA SetBecomes ==
    ASSUME RunType, NEW r \in Runs, NEW pc \in Phases, NEW s, Set(r, pc, s)
    PROVE  Becomes(r, [pc |-> pc, text |-> run[r].text, decision |-> run[r].decision,
                       state |-> s])
<1>1. run[r].text \in Messages \cup {None} /\ run[r].decision \in Decisions \cup {None}
  BY DEF RunType
<1>2. run' = [run EXCEPT ![r] = [run[r] EXCEPT !.pc = pc, !.state = s]]
  BY DEF Set, RunType
<1>3. [run[r] EXCEPT !.pc = pc, !.state = s]
        = [pc |-> pc, text |-> run[r].text, decision |-> run[r].decision, state |-> s]
  <2>1. run[r] \in [pc : Phases, text : Messages \cup {None},
                    decision : Decisions \cup {None},
                    state : {run[q].state : q \in Runs}]
    BY DEF RunType, Phases
  <2> DEFINE y == [run[r] EXCEPT !.pc = pc, !.state = s]
  <2>2. y \in [pc : {pc}, text : Messages \cup {None},
              decision : Decisions \cup {None}, state : {s}]
    BY <2>1
  <2>3. y.text = run[r].text /\ y.decision = run[r].decision
    BY <2>1
  <2> HIDE DEF y
  <2>4. y.pc = pc /\ y.state = s
    BY <2>2
  <2>5. y = [pc |-> y.pc, text |-> y.text, decision |-> y.decision, state |-> y.state]
    BY <2>2
  <2>6. y = [pc |-> pc, text |-> run[r].text, decision |-> run[r].decision, state |-> s]
    BY <2>3, <2>4, <2>5
  <2> QED
    BY <2>6 DEF y
<1> QED
  BY <1>1, <1>2, <1>3, RunBecomes

\* With the stored session as it was, only the run that moved is in question.
LEMMA OthersKept ==
    ASSUME IInv, NEW r \in Runs, NEW x, Becomes(r, x), RunOK(r)',
           UNCHANGED <<now, session, shown, applied>>
    PROVE  IInv'
<1>1. ASSUME NEW q \in Runs \ {r} PROVE RunOK(q)'
  BY DEF Becomes, IInv, RunOK, Follows
<1>2. \A q \in Runs : RunOK(q)'
  BY <1>1
<1>3. SessionOK' /\ ShownOK' /\ AppliedOK' /\ DecidedOnce'
  BY DEF IInv, SessionOK, ShownOK, AppliedOK, DecidedOnce
<1> QED
  BY <1>2, <1>3 DEF IInv, Becomes

LEMMA NewIsConsistent ==
    Consistent(NewSession) /\ NewSession.version = 1 /\ NewSession.pending = None
<1>1. <<>> \in PreviousLists
  BY SwitchAssumption DEF PreviousLists
<1>2. NewSession.facts = {}
  BY DEF NewSession
<1>3. FactsOfCase(NewSession)
  BY <1>2 DEF FactsOfCase
<1>4. Typed(NewSession)
  BY <1>1 DEF NewSession, Typed, Issues, FirstIssue
<1> QED
  BY <1>3, <1>4 DEF NewSession, Consistent

LEMMA IdleOK ==
    ASSUME IInv, NEW r \in Runs, Becomes(r, Idle), session'.version \in Nat \ {0}
    PROVE  RunOK(r)'
<1>1. Consistent(NewSession) /\ NewSession.version = 1
  BY NewIsConsistent
<1>2. run'[r] = Idle
  BY DEF Becomes
<1>3. 1 <= session'.version
  OBVIOUS
<1> QED
  BY <1>1, <1>2, <1>3, NoneAssumption DEF RunOK, Idle

-----------------------------------------------------------------------------
(* The steps.                                                              *)

LEMMA BeginBecomes ==
    ASSUME IInv, NEW r \in Runs, NEW pc \in Phases,
           NEW text \in Messages \cup {None}, NEW d \in Decisions \cup {None}, NEW s,
           Begin(r, pc, text, d, s)
    PROVE  Becomes(r, [pc |-> pc, text |-> text, decision |-> d, state |-> s])
BY RunBecomes DEF Begin, IInv

LEMMA AskAgainStep ==
    ASSUME IInv, NEW r \in Runs, AskAgain(r)
    PROVE  IInv'
<1> DEFINE s == Expire(session)
           x == [pc |-> "saving", text |-> None, decision |-> None, state |-> s]
<1>1. session.pending # None /\ Consistent(session)
  BY DEF AskAgain, IsExpired, IInv, SessionOK
<1>2. /\ Consistent(s) /\ s.version = session.version
      /\ s.messageId = session.messageId /\ s.issue = session.issue /\ s.pending = None
  BY <1>1, RejectKeeps
<1>3. Becomes(r, x) /\ UNCHANGED <<now, session, shown, applied>>
  BY BeginBecomes DEF AskAgain, Begin, Phases
<1>4. run'[r] = x /\ ~session.listed /\ session.version \in Nat
  BY <1>1, <1>3 DEF Becomes, Consistent, Typed
<1> HIDE DEF s
<1>5. RunOK(r)'
  BY <1>2, <1>3, <1>4 DEF RunOK, Follows, Approves
<1> QED
  BY <1>3, <1>5, OthersKept

LEMMA DecideStep ==
    ASSUME IInv, NEW r \in Runs, Decide(r)
    PROVE  IInv'
<1>0. PICK offer \in shown, approve \in BOOLEAN :
        \E version \in {offer.version, offer.version + 1} :
        LET d == [id |-> offer.id, version |-> version, approve |-> approve] IN
        /\ Decidable(session, d)
        /\ Begin(r, "selecting", None, d,
                 IF approve THEN Approve(session) ELSE Reject(session))
  BY DEF Decide
<1>1. PICK version \in {offer.version, offer.version + 1} :
        LET d == [id |-> offer.id, version |-> version, approve |-> approve] IN
        /\ Decidable(session, d)
        /\ Begin(r, "selecting", None, d,
                 IF approve THEN Approve(session) ELSE Reject(session))
  BY <1>0
<1> DEFINE d == [id |-> offer.id, version |-> version, approve |-> approve]
           s == IF approve THEN Approve(session) ELSE Reject(session)
           x == [pc |-> "selecting", text |-> None, decision |-> d, state |-> s]
<1>2. session.pending # None /\ Consistent(session) /\ now \in Nat /\ session.pending = d.id
  BY <1>1 DEF Decidable, IInv, SessionOK
<1>3. d \in Decisions /\ d # None
  <2>1. offer.id \in Switches
    BY <1>2 DEF Consistent, Typed
  <2>2. version \in Nat
    BY DEF IInv, ShownOK
  <2> QED
    BY <2>1, <2>2, NoneAssumption DEF Decisions
<1>4. /\ Consistent(s) /\ s.version = session.version /\ s.pending = None
      /\ approve => /\ s.issue[1] = session.pending.to
                    /\ s.candidate = session.pending.to
      /\ ~approve => s.messageId = session.messageId /\ s.issue = session.issue
  BY <1>2, ApproveMoves, RejectKeeps
<1>5. Becomes(r, x) /\ UNCHANGED <<now, session, shown, applied>>
  BY <1>1, <1>3, BeginBecomes DEF Begin, Phases
<1>6. run'[r] = x /\ ~session.listed /\ session.version \in Nat
  BY <1>2, <1>5 DEF Becomes, Consistent, Typed
<1>7. d.approve = approve
  OBVIOUS
<1> HIDE DEF s, d
<1>8. RunOK(r)'
  BY <1>2, <1>3, <1>4, <1>5, <1>6, <1>7 DEF RunOK, Follows, Approves
<1> QED
  BY <1>5, <1>8, OthersKept

LEMMA AskStep ==
    ASSUME IInv, NEW r \in Runs, Ask(r)
    PROVE  IInv'
<1>1. PICK text \in Messages \cup {None} : Begin(r, "extracting", text, None, session)
  BY DEF Ask
<1> DEFINE x == [pc |-> "extracting", text |-> text, decision |-> None, state |-> session]
<1>2. Becomes(r, x) /\ UNCHANGED <<now, session, shown, applied>>
  BY <1>1, BeginBecomes DEF Begin, Phases
<1>3. /\ run'[r] = x /\ session.pending = None /\ Consistent(session)
      /\ session.version \in Nat
  BY <1>2 DEF Becomes, Ask, IInv, SessionOK, Consistent, Typed
<1>4. RunOK(r)'
  BY <1>2, <1>3 DEF RunOK, Follows, Approves
<1> QED
  BY <1>2, <1>4, OthersKept

\* What is extracted and listed is only what was typed.
LEMMA ExtractStep ==
    ASSUME IInv, NEW r \in Runs, Extract(r)
    PROVE  IInv'
<1> DEFINE old == run[r].state
           text == run[r].text
<1>1. PICK m \in Messages \cup {None} :
        LET new == MergeCandidate(old, Extracted(old, text, m)) IN
        \/ Set(r, "saving", new)
        \/ new.pending = None /\ Set(r, "selecting", new)
  BY DEF Extract
<1> DEFINE e == Extracted(old, text, m)
           new == MergeCandidate(old, e)
<1>2. /\ run[r].pc = "extracting" /\ Consistent(old) /\ old.pending = None
      /\ run[r].decision = None /\ now \in Nat
      /\ old.version <= session.version
      /\ old.version = session.version => old = session
      /\ text \in Messages \cup {None}
  BY DEF Extract, IInv, RunOK, SessionOK
<1>3. e \in Messages \cup {None} /\ (old.listed => e \in {None, text})
  BY DEF Extracted
<1> HIDE DEF e
<1>4. /\ Consistent(new)
      /\ new.version = old.version /\ new.messageId = old.messageId
      /\ new.issue = old.issue /\ new.candidate \in {old.candidate, e}
      /\ new.pending # None => new.pending.version = old.version
  BY <1>2, <1>3, MergeKeeps
<1> HIDE DEF new
<1>5. PICK pc \in {"saving", "selecting"} :
        Set(r, pc, new) /\ (pc = "selecting" => new.pending = None)
  BY <1>1 DEF new, e
<1> DEFINE x == [pc |-> pc, text |-> text, decision |-> run[r].decision, state |-> new]
<1>6. Becomes(r, x) /\ UNCHANGED <<now, session, shown, applied>>
  BY <1>5, SetBecomes DEF Extract, Phases, IInv
<1>7. run'[r] = x
  BY <1>6 DEF Becomes
<1>8. RunOK(r)'
  BY <1>2, <1>3, <1>4, <1>5, <1>6, <1>7 DEF RunOK, Follows, Approves
<1> QED
  BY <1>6, <1>8, OthersKept

\* Selecting what to look at leaves candidate, issue and a located message.
LEMMA SelectStep ==
    ASSUME IInv, NEW r \in Runs, List(r) \/ Gather(r) \/ EndSelection(r)
    PROVE  IInv'
<1> DEFINE old == run[r].state
<1>1. /\ run[r].pc = "selecting" /\ Consistent(old) /\ old.pending = None
      /\ UNCHANGED <<now, session, shown, applied>>
      /\ RunOK(r) /\ RunType
  BY DEF List, Gather, EndSelection, IInv, RunOK
<1>2. \E s : \E pc \in {"saving", "selecting"} :
        /\ Set(r, pc, s)
        /\ Consistent(s)
        /\ s.version = old.version /\ s.issue = old.issue /\ s.pending = None
        /\ s.candidate = old.candidate
        /\ old.messageId # None => s.messageId = old.messageId
  <2>1. CASE List(r)
    <3> DEFINE s == [old EXCEPT !.listed = TRUE, !.question = "messageId"]
    <3>1. /\ s.version = old.version /\ s.issue = old.issue /\ s.pending = None
          /\ s.candidate = old.candidate /\ s.messageId = old.messageId
          /\ s.facts = old.facts /\ s.previous = old.previous
      BY <1>1 DEF Consistent, Typed
    <3>2. Typed(s)
      BY <1>1, <3>1 DEF Consistent, Typed
    <3>3. Consistent(s)
      BY <1>1, <2>1, <3>1, <3>2 DEF Consistent, FactsOfCase, List
    <3>4. Set(r, "saving", s)
      BY <2>1 DEF List
    <3> QED
      BY <3>1, <3>3, <3>4
  <2>2. CASE Gather(r)
    <3>1. PICK located \in {old.messageId} \cup (IF old.messageId = None THEN Messages ELSE {}) :
            Set(r, "selecting", [old EXCEPT !.facts = @ \cup {<<old.issue, old.candidate>>},
                                            !.messageId = located])
      BY <2>2 DEF Gather
    <3> DEFINE s == [old EXCEPT !.facts = @ \cup {<<old.issue, old.candidate>>},
                                !.messageId = located]
    <3>2. /\ s.version = old.version /\ s.issue = old.issue /\ s.pending = None
          /\ s.candidate = old.candidate /\ s.messageId = located /\ s.listed = old.listed
          /\ s.facts = old.facts \cup {<<old.issue, old.candidate>>}
          /\ s.previous = old.previous
      BY <1>1 DEF Consistent, Typed
    <3>3. located \in Messages \cup {None} /\ (old.messageId # None => located = old.messageId)
      BY <1>1 DEF Consistent, Typed
    <3>4. Typed(s)
      <4>1. <<old.issue, old.candidate>> \in Issues \X (Messages \cup {None})
        BY <1>1 DEF Consistent, Typed
      <4>2. old.facts \cup {<<old.issue, old.candidate>>}
              \in SUBSET (Issues \X (Messages \cup {None}))
        BY <1>1, <4>1 DEF Consistent, Typed
      <4>3. s = [old EXCEPT !.facts = old.facts \cup {<<old.issue, old.candidate>>},
                            !.messageId = located]
        BY <1>1 DEF Consistent, Typed
      <4> HIDE DEF s
      <4> QED
        BY <1>1, <3>2, <3>3, <4>2, <4>3 DEF Consistent, Typed
    <3>5. FactsOfCase(s)
      BY <1>1, <3>2, <3>3 DEF Consistent, FactsOfCase
    <3>6. Consistent(s)
      BY <1>1, <3>2, <3>4, <3>5 DEF Consistent
    <3> QED
      BY <3>1, <3>2, <3>3, <3>6
  <2>3. CASE EndSelection(r)
    <3>1. PICK question \in {"none", "messageId"} :
            Set(r, "saving", [old EXCEPT !.question = question])
      BY <2>3 DEF EndSelection
    <3> DEFINE s == [old EXCEPT !.question = question]
    <3>2. /\ s.version = old.version /\ s.issue = old.issue /\ s.pending = None
          /\ s.candidate = old.candidate /\ s.messageId = old.messageId
          /\ s.facts = old.facts /\ s.previous = old.previous /\ s.listed = old.listed
      BY <1>1 DEF Consistent, Typed
    <3>3. Typed(s)
      BY <1>1, <3>2 DEF Consistent, Typed
    <3>4. Consistent(s)
      BY <1>1, <3>2, <3>3 DEF Consistent, FactsOfCase
    <3> QED
      BY <3>1, <3>2, <3>4
  <2> QED
    BY <2>1, <2>2, <2>3
<1>a. PICK s : \E pc \in {"saving", "selecting"} :
        /\ Set(r, pc, s)
        /\ Consistent(s)
        /\ s.version = old.version /\ s.issue = old.issue /\ s.pending = None
        /\ s.candidate = old.candidate
        /\ old.messageId # None => s.messageId = old.messageId
  BY <1>2
<1>3. PICK pc \in {"saving", "selecting"} :
        /\ Set(r, pc, s)
        /\ Consistent(s)
        /\ s.version = old.version /\ s.issue = old.issue /\ s.pending = None
        /\ s.candidate = old.candidate
        /\ old.messageId # None => s.messageId = old.messageId
  BY <1>a
<1> DEFINE x == [pc |-> pc, text |-> run[r].text, decision |-> run[r].decision, state |-> s]
<1>4. Becomes(r, x)
  BY <1>1, <1>3, SetBecomes DEF Phases
<1>5. run'[r] = x
  BY <1>4 DEF Becomes
<1>6. RunOK(r)'
  BY <1>1, <1>3, <1>5 DEF RunOK, Follows, Approves
<1> QED
  BY <1>1, <1>4, <1>6, OthersKept

\* A run that ends without a save leaves the session to the others.
LEMMA EndStep ==
    ASSUME IInv, NEW r \in Runs, Fail(r) \/ Conflict(r)
    PROVE  IInv'
<1>1. UNCHANGED <<now, session, shown, applied>> /\ Finish(r)
  BY DEF Fail, Conflict
<1>2. Becomes(r, Idle)
  <2>1. RunType /\ run' = [run EXCEPT ![r] = Idle]
    BY <1>1 DEF Finish, IInv
  <2>2. "idle" \in Phases
    BY DEF Phases
  <2> QED
    BY <2>1, <2>2, RunBecomes DEF Idle
<1>3. session'.version \in Nat \ {0}
  BY <1>1 DEF IInv, SessionOK, Consistent, Typed
<1>4. RunOK(r)'
  BY <1>2, <1>3, IdleOK
<1> QED
  BY <1>1, <1>2, <1>4, OthersKept

\* A save replaces the state the run has loaded: what was made of older ones
\* can no longer be saved, and what was shown before can no longer be decided.
LEMMA SaveStep ==
    ASSUME IInv, NEW r \in Runs, Save(r)
    PROVE  IInv'
<1> DEFINE old == run[r].state
           next == [old EXCEPT !.version = @ + 1]
           d == run[r].decision
<1>1. /\ run[r].pc = "saving" /\ session.version = old.version
      /\ session' = next /\ Finish(r) /\ now' = now
      /\ shown' \in {shown, shown \cup Offer(next)}
      /\ applied' = IF d = None THEN applied
                    ELSE applied \cup {[id |-> d.id, approve |-> d.approve,
                                        saved |-> next.version]}
  BY DEF Save, Unchanged
<1>2. /\ Consistent(old) /\ Consistent(session) /\ Follows(r) /\ RunOK(r)
      /\ old.version \in Nat \ {0}
  BY <1>1 DEF IInv, RunOK, SessionOK, Consistent, Typed
<1>3. /\ next.version = old.version + 1 /\ next.pending = old.pending
      /\ next.messageId = old.messageId /\ next.issue = old.issue
      /\ next.candidate = old.candidate /\ next.listed = old.listed
      /\ next.facts = old.facts /\ next.previous = old.previous
  BY <1>2 DEF Consistent, Typed
<1>4. Typed(next)
  BY <1>2, <1>3 DEF Consistent, Typed
<1>5. Consistent(next)
  BY <1>2, <1>3, <1>4 DEF Consistent, FactsOfCase
<1> HIDE DEF next
<1>6. SessionOK'
  BY <1>1, <1>2, <1>3, <1>5 DEF SessionOK, RunOK, IInv
<1>7. Becomes(r, Idle)
  <2>1. RunType /\ run' = [run EXCEPT ![r] = Idle]
    BY <1>1 DEF Finish, IInv
  <2>2. "idle" \in Phases
    BY DEF Phases
  <2> QED
    BY <2>1, <2>2, RunBecomes DEF Idle
<1>8. \A q \in Runs : RunOK(q)'
  <2>1. RunOK(r)'
    BY <1>1, <1>2, <1>3, <1>7, IdleOK
  <2>2. ASSUME NEW q \in Runs \ {r} PROVE RunOK(q)'
    <3>1. run'[q] = run[q] /\ RunOK(q)
      BY <1>7 DEF Becomes, IInv
    <3>2. run[q].state.version < session'.version
      BY <1>1, <1>2, <1>3, <3>1 DEF RunOK, Consistent, Typed
    <3>3. run[q].state.version <= session'.version /\ run[q].state.version # session'.version
      BY <1>1, <1>2, <1>3, <3>1, <3>2 DEF RunOK, Consistent, Typed
    <3> QED
      BY <3>1, <3>3 DEF RunOK
  <2> QED
    BY <2>1, <2>2
<1>9. ShownOK'
  <2> SUFFICES ASSUME NEW offer \in shown'
               PROVE  /\ offer \in [id : Switches, version : Nat]
                      /\ offer.version <= next.version
                      /\ offer.version = next.version => next.pending = offer.id
    BY <1>1 DEF ShownOK
  <2>1. CASE offer \in shown
    BY <1>1, <1>2, <1>3, <2>1 DEF IInv, ShownOK
  <2>2. CASE offer \in Offer(next)
    BY <1>2, <1>3, <1>5, <2>2 DEF Offer, Consistent, Typed
  <2> QED
    BY <1>1, <2>1, <2>2
<1>10. AppliedOK' /\ DecidedOnce'
  <2>1. \A a \in applied :
          /\ a \in [id : Switches, approve : BOOLEAN, saved : Nat]
          /\ a.id.version < old.version /\ a.id.version < a.saved
          /\ a.saved <= next.version /\ a.id # session.pending
    <3> SUFFICES ASSUME NEW a \in applied
                 PROVE  a.id.version < old.version /\ a.saved <= next.version
      BY DEF IInv, AppliedOK
    <3>1. /\ a.id.version \in Nat /\ a.saved \in Nat
          /\ a.id.version < a.saved /\ a.saved <= old.version
      BY <1>1 DEF IInv, AppliedOK, Switches
    <3> QED
      BY <1>2, <1>3, <3>1
  <2>2. next.pending # None => next.pending.version = old.version /\ d = None
    BY <1>1, <1>2, <1>3 DEF RunOK
  <2>3. \A a \in applied : a.id # next.pending
    BY <1>2, <2>1, <2>2, NoneAssumption
  <2>4. CASE d = None
    BY <1>1, <2>1, <2>3, <2>4 DEF AppliedOK, IInv, DecidedOnce
  <2>5. CASE d # None
    <3> DEFINE new == [id |-> d.id, approve |-> d.approve, saved |-> next.version]
    <3>1. applied' = applied \cup {new}
      BY <1>1, <2>5
    <3>2. d \in Decisions /\ d.id = session.pending /\ next.pending = None
      BY <1>2, <2>2, <2>5 DEF RunOK, Follows
    <3>3. d.id \in Switches /\ d.approve \in BOOLEAN
      BY <3>2 DEF Decisions
    <3>4. next.version \in Nat /\ d.id.version < next.version
      <4>1. d.id.version < old.version /\ d.id.version \in Nat
        BY <1>1, <3>2, <3>3, NoneAssumption DEF IInv, SessionOK, Switches
      <4> QED
        BY <1>2, <1>3, <4>1
    <3>5. /\ new \in [id : Switches, approve : BOOLEAN, saved : Nat]
          /\ new.id = d.id /\ new.saved = next.version
      BY <3>3, <3>4
    <3> HIDE DEF new
    <3>6. AppliedOK'
      BY <1>1, <2>1, <2>3, <3>1, <3>2, <3>3, <3>4, <3>5, NoneAssumption DEF AppliedOK
    <3>7. DecidedOnce'
      BY <2>1, <3>1, <3>2, <3>5 DEF DecidedOnce, IInv
    <3> QED
      BY <3>6, <3>7
  <2> QED
    BY <2>4, <2>5
<1> QED
  BY <1>1, <1>6, <1>7, <1>8, <1>9, <1>10 DEF IInv, Becomes

LEMMA InvStep == IInv /\ [Next]_vars => IInv'
<1> SUFFICES ASSUME IInv, [Next]_vars PROVE IInv'
  OBVIOUS
<1>1. ASSUME NEW r \in Runs,
             \/ AskAgain(r) \/ Decide(r) \/ Ask(r) \/ Extract(r) \/ List(r)
             \/ Gather(r) \/ EndSelection(r) \/ Fail(r) \/ Save(r) \/ Conflict(r)
      PROVE  IInv'
  BY <1>1, AskAgainStep, DecideStep, AskStep, ExtractStep, SelectStep, EndStep, SaveStep
<1>2. CASE ShowPending
  <2>1. SessionOK' /\ AppliedOK' /\ DecidedOnce' /\ RunType'
    BY <1>2 DEF ShowPending, IInv, SessionOK, AppliedOK, DecidedOnce, RunType
  <2>2. \A r \in Runs : RunOK(r)'
    BY <1>2 DEF ShowPending, IInv, RunOK, Follows
  <2>3. ShownOK'
    BY <1>2 DEF ShowPending, IInv, ShownOK, Offer, SessionOK, Consistent, Typed
  <2> QED
    BY <2>1, <2>2, <2>3 DEF IInv
<1>3. CASE Tick \/ UNCHANGED vars
  <2>1. SessionOK' /\ AppliedOK' /\ DecidedOnce' /\ RunType' /\ ShownOK'
    BY <1>3, SwitchAssumption
       DEF Tick, vars, IInv, SessionOK, AppliedOK, DecidedOnce, RunType, ShownOK
  <2>2. \A r \in Runs : RunOK(r)'
    BY <1>3 DEF Tick, vars, IInv, RunOK, Follows
  <2> QED
    BY <2>1, <2>2 DEF IInv
<1> QED
  BY <1>1, <1>2, <1>3 DEF Next

LEMMA InvInit == Init => IInv
<1> SUFFICES ASSUME Init PROVE IInv
  OBVIOUS
<1>1. Consistent(NewSession) /\ NewSession.version = 1 /\ NewSession.pending = None
  BY NewIsConsistent
<1>2. RunType
  BY DEF Init, RunType, Idle
<1>3. \A r \in Runs : RunOK(r)
  <2> SUFFICES ASSUME NEW r \in Runs PROVE RunOK(r)
    OBVIOUS
  <2>1. /\ run[r].pc = "idle" /\ run[r].text = None /\ run[r].decision = None
        /\ run[r].state = NewSession /\ session = NewSession
    BY DEF Init, Idle
  <2> QED
    BY <1>1, <2>1 DEF RunOK
<1> QED
  BY <1>1, <1>2, <1>3, SwitchAssumption
     DEF Init, IInv, SessionOK, ShownOK, AppliedOK, DecidedOnce

\* What runs, the session, offers and decisions know of each other stays so.
THEOREM Invariance == Spec => []IInv
BY InvInit, InvStep, PTL DEF Spec

\* Whatever requests overlap, sessions, offers and decisions have their types,
\* and no more than MaxIssues issues are archived.
THEOREM TypeCorrect == Spec => []TypeOK
<1>1. IInv => TypeOK
  <2> SUFFICES ASSUME IInv PROVE TypeOK
    OBVIOUS
  <2>1. ASSUME NEW s, Typed(s)
        PROVE  s \in Sessions /\ Len(s.previous) <= MaxIssues
    BY <2>1 DEF Typed, Sessions, PreviousLists
  <2>2. session \in Sessions /\ Len(session.previous) <= MaxIssues
    BY <2>1 DEF IInv, SessionOK, Consistent
  <2>3. \A r \in Runs : run[r].state \in Sessions
    BY <2>1 DEF IInv, RunOK, Consistent
  <2>4. run \in [Runs -> [pc : {"idle", "extracting", "selecting", "saving"},
                         text : Messages \cup {None}, decision : Decisions \cup {None},
                         state : Sessions]]
    <3>1. {run[r].state : r \in Runs} \subseteq Sessions
      BY <2>3
    <3> HIDE DEF Sessions, Decisions
    <3> QED
      BY <3>1 DEF IInv, RunType
  <2>5. shown \subseteq [id : Switches, version : Nat]
    BY DEF IInv, ShownOK
  <2>6. applied \subseteq [id : Switches, approve : BOOLEAN, saved : Nat]
    BY DEF IInv, AppliedOK
  <2>7. now \in 0..MaxTime
    BY DEF IInv, SessionOK
  <2> QED
    BY <2>2, <2>4, <2>5, <2>6, <2>7 DEF TypeOK
<1> QED
  BY <1>1, Invariance, PTL

\* A decision is saved once, however many requests carry it, and no switch is
\* both approved and rejected.
THEOREM DecisionIsFinal == Spec => []DecidedOnce
<1>1. IInv => DecidedOnce
  BY DEF IInv
<1> QED
  BY <1>1, Invariance, PTL

\* What a customer was shown can be decided as shown, until the session is
\* saved again or the switch expires.
THEOREM OffersAreHonoured == Spec => []OfferHonoured
<1>1. IInv => OfferHonoured
  <2> SUFFICES ASSUME IInv, NEW offer \in shown, NEW approve \in BOOLEAN,
                      offer.version = session.version
               PROVE  LET d == [id |-> offer.id, version |-> offer.version,
                                approve |-> approve] IN
                      session.pending = offer.id /\ (IsExpired(session) \/ Decidable(session, d))
    BY DEF OfferHonoured
  <2> DEFINE d == [id |-> offer.id, version |-> offer.version, approve |-> approve]
  <2>1. session.pending = offer.id
    BY DEF IInv, ShownOK
  <2>2. session.pending # None =>
            session.messageId = session.pending.from /\ session.issue = session.pending.issue
    BY DEF IInv, SessionOK, Consistent
  <2>3. session.pending # None
    BY <2>1, NoneAssumption DEF IInv, ShownOK
  <2> QED
    BY <2>1, <2>2, <2>3 DEF Decidable
<1> QED
  BY <1>1, Invariance, PTL

\* No switch carries facts of one issue over to another.
THEOREM FactsStayWithCase == Spec => []FactsOfCurrentCase
<1>1. IInv => FactsOfCurrentCase
  BY DEF IInv, SessionOK, Consistent, FactsOfCurrentCase
<1> QED
  BY <1>1, Invariance, PTL

-----------------------------------------------------------------------------
\* A save moves the target only if the run approves the stored switch, and
\* names a listed message only if it was typed.
LEMMA SaveMoves ==
    ASSUME IInv, NEW r \in Runs, Save(r)
    PROVE  MovedByDecision /\ ChosenByTyping
<1> DEFINE old == run[r].state
           d == run[r].decision
<1>1. /\ run[r].pc = "saving" /\ session.version = old.version
      /\ session' = [old EXCEPT !.version = @ + 1]
      /\ run' = [run EXCEPT ![r] = Idle]
      /\ applied' = IF d = None THEN applied
                    ELSE applied \cup {[id |-> d.id, approve |-> d.approve,
                                        saved |-> session'.version]}
  BY DEF Save, Unchanged, Finish
<1>2. Consistent(old) /\ Consistent(session) /\ Follows(r) /\ d \in Decisions \cup {None}
  BY <1>1 DEF IInv, RunOK, SessionOK
<1>3. /\ session'.messageId = old.messageId /\ session'.issue = old.issue
      /\ session'.candidate = old.candidate
  BY <1>1, <1>2 DEF Consistent, Typed
<1>4. run'[r].pc = "idle"
  BY <1>1 DEF IInv, RunType, Idle
<1>5. ChosenByTyping
  BY <1>1, <1>2, <1>3, <1>4 DEF ChosenByTyping, Follows
<1>6. MovedByDecision
  <2> SUFFICES ASSUME \/ session'.issue # session.issue
                      \/ session.messageId # None /\ session'.messageId # session.messageId
               PROVE  /\ session.pending # None
                      /\ \E a \in applied' \ applied : a.approve /\ a.id = session.pending
                      /\ session'.issue[1] = session.pending.to
                      /\ session'.candidate = session.pending.to
    BY DEF MovedByDecision
  <2>1. Approves(d)
    BY <1>2, <1>3 DEF Follows
  <2>2. /\ d \in Decisions /\ session.pending = d.id
        /\ session'.issue[1] = session.pending.to
        /\ session'.candidate = session.pending.to
    BY <1>2, <1>3, <2>1 DEF Follows, Approves
  <2>3. d.id \in Switches /\ session.pending # None
    BY <2>2, NoneAssumption DEF Decisions
  <2> DEFINE new == [id |-> d.id, approve |-> d.approve, saved |-> session'.version]
  <2>4. new \in applied' /\ new.approve /\ new.id = session.pending
    BY <1>1, <2>1, <2>2 DEF Approves
  <2>5. \A a \in applied : a.id # session.pending
    BY DEF IInv, AppliedOK
  <2> HIDE DEF new
  <2> QED
    BY <2>2, <2>3, <2>4, <2>5
<1> QED
  BY <1>5, <1>6

\* What a session is about changes by what the customer decides and types,
\* for any number of requests and messages.
THEOREM TargetMoves == Spec => TargetMovesByCustomer
<1>1. IInv /\ [Next]_vars => [MovedByDecision /\ ChosenByTyping]_vars
  <2> SUFFICES ASSUME IInv, Next
               PROVE  MovedByDecision /\ ChosenByTyping
    OBVIOUS
  <2>1. ASSUME UNCHANGED session PROVE MovedByDecision /\ ChosenByTyping
    BY <2>1 DEF MovedByDecision, ChosenByTyping
  <2>2. UNCHANGED session \/ \E r \in Runs : Save(r)
    BY DEF Next, AskAgain, Decide, Ask, Begin, Extract, List, Gather, EndSelection, Fail,
           Conflict, ShowPending, Tick
  <2> QED
    BY <2>1, <2>2, SaveMoves
<1> QED
  BY <1>1, Invariance, PTL DEF Spec, TargetMovesByCustomer
=============================================================================
