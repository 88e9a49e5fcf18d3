------------------------ MODULE MigrationLedgerProofs ------------------------
(***************************************************************************)
(* What the migrator lease is for, for every instance: at most one attempt *)
(* awaits an outcome, settled history is never rewritten, and the executor *)
(* implements the abstract ledger.  The invariant is InStep; beside it     *)
(* every step is shown to change the committed journal by one journal      *)
(* operation or not at all (JournalStep), which is what the ledger allows. *)
(***************************************************************************)
EXTENDS MigrationExecutorProofs

-----------------------------------------------------------------------------
(* What the operations of the journal do to its open attempts. *)

\* Attempts of which at most one awaits an outcome.
AtMostOneOpen(j) == \A k1, k2 \in OpenAttempts(j) : k1 = k2

\* createAttempt adds the attempt it is given.
LEMMA CreateOpens ==
  ASSUME NEW j \in Journal, NEW k \in AttemptId, NEW a, NEW e
  PROVE  OpenAttempts(CreateAttempt(j, k, a, e)) = OpenAttempts(j) \cup {k}
<1> DEFINE i == CreateAttempt(j, k, a, e)
<1>1. i.attempts = [j.attempts EXCEPT
                      ![k] = [artifact |-> a, expectedHead |-> e, state |-> "started"]]
  BY DEF CreateAttempt, Journal
<1>2. j.attempts \in [AttemptId -> Attempt]
  BY DEF Journal
<1> HIDE DEF i
<1>3. StateOf(i, k) = "started" /\ \A n \in AttemptId \ {k} : StateOf(i, n) = StateOf(j, n)
  BY <1>1, <1>2 DEF StateOf
<1>4. OpenAttempts(i) = OpenAttempts(j) \cup {k}
  BY <1>3 DEF OpenAttempts, Unresolved
<1> QED
  BY <1>4 DEF i

\* An attempt with a transition to make is open; the transition leaves it open
\* or settles it, and touches no other.
LEMMA TransitionOpens ==
  ASSUME NEW j \in Journal, NEW k \in AttemptId, NEW s, CanTransition(j, k, s)
  PROVE  /\ k \in OpenAttempts(j) /\ s \in Terminal \cup Unresolved
         /\ OpenAttempts(TransitionAttempt(j, k, s)) =
              IF s \in Terminal THEN OpenAttempts(j) \ {k} ELSE OpenAttempts(j)
<1> DEFINE i == TransitionAttempt(j, k, s)
<1>1. j.attempts \in [AttemptId -> Attempt] /\ j.attempts[k] \in Attempt
  BY DEF Journal
<1>2. StateOf(j, k) \in AttemptState \cup {"none"}
  BY <1>1 DEF StateOf, Attempt, NoAttempt
<1>3. StateOf(j, k) \in Unresolved /\ s \in Terminal \cup Unresolved
  BY <1>2 DEF CanTransition, transitions, AttemptState, Terminal, Unresolved
<1>4. i.attempts = [j.attempts EXCEPT ![k] = [@ EXCEPT !.state = s]]
  BY <1>1 DEF TransitionAttempt, Journal
<1>5. StateOf(i, k) = s
  <2>1. j.attempts[k] = [j.attempts[k] EXCEPT !.state = j.attempts[k].state]
        /\ [j.attempts[k] EXCEPT !.state = s].state = s
    BY <1>1 DEF Attempt, NoAttempt
  <2> QED
    BY <1>1, <1>4, <2>1 DEF StateOf
<1>6. \A n \in AttemptId \ {k} : StateOf(i, n) = StateOf(j, n)
  BY <1>1, <1>4 DEF StateOf
<1> HIDE DEF i
<1>7. Terminal \cap Unresolved = {}
  BY DEF Terminal, Unresolved
<1>8. OpenAttempts(i) = IF s \in Terminal THEN OpenAttempts(j) \ {k} ELSE OpenAttempts(j)
  BY <1>3, <1>5, <1>6, <1>7 DEF OpenAttempts
<1> QED
  BY <1>3, <1>8 DEF i, OpenAttempts

\* appendAppliedAndAdvanceHead and recordReconciliation touch no attempt.
LEMMA SameAttempts ==
  ASSUME NEW j \in Journal, NEW a, NEW k, NEW outcome
  PROVE  /\ AppendAppliedAndAdvanceHead(j, a, k).attempts = j.attempts
         /\ RecordReconciliation(j, k, outcome).attempts = j.attempts
         /\ OpenAttempts(AppendAppliedAndAdvanceHead(j, a, k)) = OpenAttempts(j)
         /\ OpenAttempts(RecordReconciliation(j, k, outcome)) = OpenAttempts(j)
<1>1. /\ AppendAppliedAndAdvanceHead(j, a, k).attempts = j.attempts
      /\ RecordReconciliation(j, k, outcome).attempts = j.attempts
  BY DEF AppendAppliedAndAdvanceHead, RecordReconciliation, Journal
<1> QED
  BY <1>1 DEF OpenAttempts, StateOf

-----------------------------------------------------------------------------
(* How a step may change the committed journal. *)

JournalStep(i, j) ==
  \/ j = i
  \/ \E k \in AttemptId, a \in Artifact, e \in Digest :
       /\ CanCreate(i, k) /\ OpenAttempts(i) = {}
       /\ j = CreateAttempt(i, k, a, e)
  \/ \E k \in AttemptId, s \in AttemptState :
       CanTransition(i, k, s) /\ j = TransitionAttempt(i, k, s)
  \/ \E k \in OpenAttempts(i), a \in Artifact, e \in Digest :
       /\ CanAppend(i, a, k, e)
       /\ j = AppendAppliedAndAdvanceHead(i, a, k)
  \/ \E k \in OpenAttempts(i), a \in Artifact, e \in Digest :
       /\ CanAppend(i, a, k, e)
       /\ CanTransition(AppendAppliedAndAdvanceHead(i, a, k), k, "applied")
       /\ j = TransitionAttempt(AppendAppliedAndAdvanceHead(i, a, k), k, "applied")
  \/ \E k \in AttemptId, outcome \in Terminal \cup {"none"} :
       i.reconciled[k] = "none" /\ j = RecordReconciliation(i, k, outcome)

\* No journal step brings a second open attempt about.
LEMMA StepOpens ==
  ASSUME NEW i \in Journal, NEW j, JournalStep(i, j), AtMostOneOpen(i)
  PROVE  AtMostOneOpen(j)
<1>1. CASE j = i
  BY <1>1
<1>2. CASE \E k \in AttemptId, a \in Artifact, e \in Digest :
             OpenAttempts(i) = {} /\ j = CreateAttempt(i, k, a, e)
  BY <1>2, CreateOpens DEF AtMostOneOpen
<1>3. CASE \E k \in AttemptId, s \in AttemptState :
             CanTransition(i, k, s) /\ j = TransitionAttempt(i, k, s)
  BY <1>3, TransitionOpens DEF AtMostOneOpen
<1>4. CASE \E k \in OpenAttempts(i), a \in Artifact :
             j = AppendAppliedAndAdvanceHead(i, a, k)
  BY <1>4, SameAttempts DEF AtMostOneOpen
<1>5. CASE \E k \in OpenAttempts(i), a \in Artifact :
             /\ CanTransition(AppendAppliedAndAdvanceHead(i, a, k), k, "applied")
             /\ j = TransitionAttempt(AppendAppliedAndAdvanceHead(i, a, k), k, "applied")
  <2>1. PICK k \in OpenAttempts(i), a \in Artifact :
             /\ CanTransition(AppendAppliedAndAdvanceHead(i, a, k), k, "applied")
             /\ j = TransitionAttempt(AppendAppliedAndAdvanceHead(i, a, k), k, "applied")
    BY <1>5
  <2> DEFINE h == AppendAppliedAndAdvanceHead(i, a, k)
  <2>2. k \in AttemptId
    BY DEF OpenAttempts
  <2>3. h \in Journal /\ OpenAttempts(h) = OpenAttempts(i)
    BY <2>2, AppendType, SameAttempts
  <2> HIDE DEF h
  <2>4. OpenAttempts(j) \subseteq OpenAttempts(h)
    BY <2>1, <2>2, <2>3, TransitionOpens DEF h
  <2> QED
    BY <2>3, <2>4 DEF AtMostOneOpen
<1>6. CASE \E k \in AttemptId, outcome \in Terminal \cup {"none"} :
             j = RecordReconciliation(i, k, outcome)
  BY <1>6, SameAttempts DEF AtMostOneOpen
<1> QED
  BY <1>1, <1>2, <1>3, <1>4, <1>5, <1>6 DEF JournalStep
-----------------------------------------------------------------------------
(* Immutability. *)

\* What is settled in i is the same in j.
Preserves(i, j) ==
  /\ Len(i.applied) <= Len(j.applied)
  /\ \A n \in 1..Len(i.applied) : j.applied[n] = i.applied[n]
  /\ \A k \in AttemptId :
       /\ StateOf(i, k) \in Terminal => j.attempts[k] = i.attempts[k]
       /\ i.reconciled[k] # "none" => j.reconciled[k] = i.reconciled[k]

\* An appended record leaves the others where they are.
LEMMA AppendPreserves ==
  ASSUME NEW i \in Journal, NEW a \in Artifact, NEW k \in AttemptId
  PROVE  Preserves(i, AppendAppliedAndAdvanceHead(i, a, k))
<1> DEFINE j == AppendAppliedAndAdvanceHead(i, a, k)
           r == [artifact |-> a, attempt |-> k]
<1>1. /\ j.applied = Append(i.applied, r) /\ i.applied \in Seq(AppliedRecord)
      /\ j.attempts = i.attempts /\ j.reconciled = i.reconciled
  BY DEF AppendAppliedAndAdvanceHead, Journal
<1>2. r \in AppliedRecord
  BY DEF AppliedRecord
<1> HIDE DEF j, r
<1>3. Preserves(i, j)
  BY <1>1, <1>2 DEF Preserves
<1> QED
  BY <1>3 DEF j

\* A transition is one of an attempt that is still open.
LEMMA TransitionPreserves ==
  ASSUME NEW i \in Journal, NEW k \in AttemptId, NEW s, CanTransition(i, k, s)
  PROVE  Preserves(i, TransitionAttempt(i, k, s))
<1> DEFINE j == TransitionAttempt(i, k, s)
<1>1. /\ j.applied = i.applied /\ j.reconciled = i.reconciled
      /\ i.applied \in Seq(AppliedRecord)
      /\ \A n \in AttemptId \ {k} : j.attempts[n] = i.attempts[n]
  BY DEF TransitionAttempt, Journal
<1>2. StateOf(i, k) \notin Terminal
  BY TransitionOpens DEF OpenAttempts, Terminal, Unresolved
<1> HIDE DEF j
<1>3. Preserves(i, j)
  BY <1>1, <1>2 DEF Preserves
<1> QED
  BY <1>3 DEF j

\* No journal step touches what is settled.
LEMMA StepPreserves ==
  ASSUME NEW i \in Journal, NEW j, JournalStep(i, j)
  PROVE  Preserves(i, j)
<1>1. CASE j = i
  BY <1>1 DEF Preserves, Journal
<1>2. CASE \E k \in AttemptId, a \in Artifact, e \in Digest :
             CanCreate(i, k) /\ j = CreateAttempt(i, k, a, e)
  BY <1>2 DEF Preserves, CanCreate, CreateAttempt, StateOf, Terminal, Journal
<1>3. CASE \E k \in AttemptId, s \in AttemptState :
             CanTransition(i, k, s) /\ j = TransitionAttempt(i, k, s)
  BY <1>3, TransitionPreserves
<1>4. CASE \E k \in OpenAttempts(i), a \in Artifact :
             j = AppendAppliedAndAdvanceHead(i, a, k)
  BY <1>4, AppendPreserves DEF OpenAttempts
<1>5. CASE \E k \in OpenAttempts(i), a \in Artifact :
             /\ CanTransition(AppendAppliedAndAdvanceHead(i, a, k), k, "applied")
             /\ j = TransitionAttempt(AppendAppliedAndAdvanceHead(i, a, k), k, "applied")
  <2>1. PICK k \in OpenAttempts(i), a \in Artifact :
             /\ CanTransition(AppendAppliedAndAdvanceHead(i, a, k), k, "applied")
             /\ j = TransitionAttempt(AppendAppliedAndAdvanceHead(i, a, k), k, "applied")
    BY <1>5
  <2> DEFINE h == AppendAppliedAndAdvanceHead(i, a, k)
  <2>2. k \in AttemptId
    BY DEF OpenAttempts
  <2>3. h \in Journal /\ Preserves(i, h)
    BY <2>2, AppendType, AppendPreserves
  <2> HIDE DEF h
  <2>4. Preserves(h, j)
    BY <2>1, <2>2, <2>3, TransitionPreserves DEF h
  <2>5. Len(i.applied) \in Nat /\ Len(h.applied) \in Nat
    BY <2>3 DEF Journal
  <2>6. j \in Journal
    BY <2>1, <2>2, <2>3, TransitionAttemptType DEF h
  <2>7. Len(j.applied) \in Nat
    BY <2>6 DEF Journal
  <2>8. \A n \in AttemptId : h.attempts[n] = i.attempts[n] /\ h.reconciled[n] = i.reconciled[n]
    BY DEF h, AppendAppliedAndAdvanceHead, Journal
  <2> QED
    BY <2>3, <2>4, <2>5, <2>7, <2>8 DEF Preserves, StateOf
<1>6. CASE \E k \in AttemptId, outcome \in Terminal \cup {"none"} :
             i.reconciled[k] = "none" /\ j = RecordReconciliation(i, k, outcome)
  BY <1>6 DEF Preserves, RecordReconciliation, Journal
<1> QED
  BY <1>1, <1>2, <1>3, <1>4, <1>5, <1>6 DEF JournalStep
-----------------------------------------------------------------------------
(* The abstract ledger. *)

\* The artifacts of the history: the ledger of the refinement mapping.
HistoryOf(j) == [n \in 1..Len(j.applied) |-> j.applied[n].artifact]

\* It is a sequence of artifacts that ends at the head.
LEMMA HistoryEnds ==
  ASSUME NEW j \in Journal, Chained(j)
  PROVE  /\ HistoryOf(j) \in Seq(Artifact)
         /\ j.head = IF HistoryOf(j) = << >> THEN Null
                     ELSE HistoryOf(j)[Len(HistoryOf(j))]
<1> DEFINE h == HistoryOf(j)
           m == Len(j.applied)
<1>1. j.applied \in Seq(AppliedRecord) /\ m \in Nat
  BY DEF Journal
<1>2. \A n \in 1..m : j.applied[n] \in AppliedRecord
  BY <1>1
<1>3. h \in [1..m -> Artifact]
  BY <1>2 DEF HistoryOf, AppliedRecord
<1>4. h \in Seq(Artifact) /\ Len(h) = m
  BY <1>1, <1>3
<1>5. h = << >> <=> j.applied = << >>
  BY <1>1, <1>4
<1>6. j.head = LastOf(j.applied)
  BY DEF Chained, HeadMatches
<1>7. m # 0 => h[m] = j.applied[m].artifact
  BY <1>1 DEF HistoryOf
<1>8. j.applied = << >> <=> m = 0
  BY <1>1
<1> QED
  BY <1>4, <1>5, <1>6, <1>7, <1>8 DEF LastOf

\* A record appended to the history is an artifact appended to the ledger.
LEMMA HistoryGrows ==
  ASSUME NEW j \in Journal, NEW a \in Artifact, NEW k \in AttemptId
  PROVE  HistoryOf(AppendAppliedAndAdvanceHead(j, a, k)) = Append(HistoryOf(j), a)
<1> DEFINE i == AppendAppliedAndAdvanceHead(j, a, k)
           r == [artifact |-> a, attempt |-> k]
           m == Len(j.applied)
           h == HistoryOf(j)
<1>1. i.applied = Append(j.applied, r) /\ j.applied \in Seq(AppliedRecord)
  BY DEF AppendAppliedAndAdvanceHead, Journal
<1>2. r \in AppliedRecord /\ r.artifact = a
  BY DEF AppliedRecord
<1>3. \A n \in 1..m : j.applied[n] \in AppliedRecord
  BY <1>1
<1>4. h \in [1..m -> Artifact] /\ m \in Nat
  BY <1>1, <1>3 DEF HistoryOf, AppliedRecord
<1>5. h \in Seq(Artifact) /\ Len(h) = m
  BY <1>4
<1> HIDE DEF i, r
<1>6. Len(i.applied) = m + 1 /\ i.applied[m + 1] = r
      /\ \A n \in 1..m : i.applied[n] = j.applied[n]
  BY <1>1, <1>2
<1>7. \A n \in 1..m : h[n] = j.applied[n].artifact
  BY DEF HistoryOf
<1> HIDE DEF m, h
<1>8. Append(h, a) = [n \in 1..(m + 1) |-> IF n = m + 1 THEN a ELSE h[n]]
  <2>1. /\ Append(h, a) \in Seq(Artifact) /\ Len(Append(h, a)) = m + 1
        /\ Append(h, a)[m + 1] = a
        /\ \A n \in 1..m : Append(h, a)[n] = h[n]
    BY <1>5, AppendProperties
  <2>2. Append(h, a) \in [1..(m + 1) -> Artifact]
    BY <2>1, LenProperties
  <2>3. Append(h, a) = [n \in 1..(m + 1) |-> Append(h, a)[n]]
    BY <2>2
  <2>4. \A n \in 1..(m + 1) : Append(h, a)[n] = IF n = m + 1 THEN a ELSE h[n]
    BY <1>4, <2>1
  <2> QED
    BY <2>3, <2>4
<1>9. HistoryOf(i) = [n \in 1..(m + 1) |-> i.applied[n].artifact]
  BY <1>6 DEF HistoryOf
<1>10. \A n \in 1..(m + 1) : i.applied[n].artifact = IF n = m + 1 THEN a ELSE h[n]
  BY <1>2, <1>4, <1>6, <1>7
<1> QED
  BY <1>8, <1>9, <1>10 DEF i, h

\* Operations that leave the history alone leave the ledger alone.
LEMMA SameHistory ==
  ASSUME NEW i, NEW j, j.applied = i.applied
  PROVE  HistoryOf(j) = HistoryOf(i)
BY DEF HistoryOf

\* The effect of a journal step on ledger and open attempts.
LedgerMove(i, j) ==
  \/ /\ HistoryOf(j) = HistoryOf(i)
     /\ \/ OpenAttempts(j) = OpenAttempts(i)
        \/ OpenAttempts(i) = {} /\ \E k \in AttemptId : OpenAttempts(j) = {k}
        \/ OpenAttempts(i) # {} /\ OpenAttempts(j) = {}
  \/ /\ \E a \in Artifact : Parent[a] = i.head /\ HistoryOf(j) = Append(HistoryOf(i), a)
     /\ OpenAttempts(i) # {}
     /\ OpenAttempts(j) \in {{}, OpenAttempts(i)}

\* Every journal step is a step of the ledger or none.
LEMMA StepMoves ==
  ASSUME NEW i \in Journal, NEW j, JournalStep(i, j), AtMostOneOpen(i)
  PROVE  LedgerMove(i, j)
<1>1. CASE j = i
  BY <1>1 DEF LedgerMove
<1>2. CASE \E k \in AttemptId, a \in Artifact, e \in Digest :
             OpenAttempts(i) = {} /\ j = CreateAttempt(i, k, a, e)
  <2>1. PICK k \in AttemptId : OpenAttempts(i) = {} /\ OpenAttempts(j) = {k}
    BY <1>2, CreateOpens
  <2>2. j.applied = i.applied
    BY <1>2 DEF CreateAttempt, Journal
  <2> QED
    BY <2>1, <2>2, SameHistory DEF LedgerMove
<1>3. CASE \E k \in AttemptId, s \in AttemptState :
             CanTransition(i, k, s) /\ j = TransitionAttempt(i, k, s)
  <2>1. PICK k \in AttemptId, s \in AttemptState :
             CanTransition(i, k, s) /\ j = TransitionAttempt(i, k, s)
    BY <1>3
  <2>2. /\ k \in OpenAttempts(i)
        /\ OpenAttempts(j) \in {OpenAttempts(i) \ {k}, OpenAttempts(i)}
    BY <2>1, TransitionOpens
  <2>3. OpenAttempts(i) \ {k} = {}
    BY <2>2 DEF AtMostOneOpen
  <2>4. j.applied = i.applied
    BY <2>1 DEF TransitionAttempt, Journal
  <2> QED
    BY <2>2, <2>3, <2>4, SameHistory DEF LedgerMove
<1>4. ASSUME NEW k \in OpenAttempts(i), NEW a \in Artifact, NEW e \in Digest,
             CanAppend(i, a, k, e)
      PROVE  LET h == AppendAppliedAndAdvanceHead(i, a, k)
             IN  /\ Parent[a] = i.head
                 /\ HistoryOf(h) = Append(HistoryOf(i), a)
                 /\ OpenAttempts(h) = OpenAttempts(i)
                 /\ h \in Journal
  <2>1. k \in AttemptId
    BY DEF OpenAttempts
  <2>2. Parent[a] = i.head
    BY <1>4 DEF CanAppend, HeadUnchanged
  <2> QED
    BY <2>1, <2>2, HistoryGrows, SameAttempts, AppendType
<1>5. CASE \E k \in OpenAttempts(i), a \in Artifact, e \in Digest :
             CanAppend(i, a, k, e) /\ j = AppendAppliedAndAdvanceHead(i, a, k)
  BY <1>4, <1>5 DEF LedgerMove
<1>6. CASE \E k \in OpenAttempts(i), a \in Artifact, e \in Digest :
             /\ CanAppend(i, a, k, e)
             /\ CanTransition(AppendAppliedAndAdvanceHead(i, a, k), k, "applied")
             /\ j = TransitionAttempt(AppendAppliedAndAdvanceHead(i, a, k), k, "applied")
  <2>1. PICK k \in OpenAttempts(i), a \in Artifact, e \in Digest :
             /\ CanAppend(i, a, k, e)
             /\ CanTransition(AppendAppliedAndAdvanceHead(i, a, k), k, "applied")
             /\ j = TransitionAttempt(AppendAppliedAndAdvanceHead(i, a, k), k, "applied")
    BY <1>6
  <2> DEFINE h == AppendAppliedAndAdvanceHead(i, a, k)
  <2>2. /\ Parent[a] = i.head /\ HistoryOf(h) = Append(HistoryOf(i), a)
        /\ OpenAttempts(h) = OpenAttempts(i) /\ h \in Journal
    BY <1>4, <2>1
  <2>3. k \in AttemptId
    BY DEF OpenAttempts
  <2> HIDE DEF h
  <2>4. OpenAttempts(j) = OpenAttempts(h) \ {k} /\ j.applied = h.applied
    BY <2>1, <2>2, <2>3, TransitionOpens DEF h, Terminal, TransitionAttempt, Journal
  <2>5. OpenAttempts(j) = {}
    BY <2>2, <2>4 DEF AtMostOneOpen
  <2> QED
    BY <2>2, <2>4, <2>5, SameHistory DEF LedgerMove
<1>7. CASE \E k \in AttemptId, outcome \in Terminal \cup {"none"} :
             j = RecordReconciliation(i, k, outcome)
  <2>1. OpenAttempts(j) = OpenAttempts(i)
    BY <1>7, SameAttempts
  <2>2. j.applied = i.applied
    BY <1>7 DEF RecordReconciliation, Journal
  <2> QED
    BY <2>1, <2>2, SameHistory DEF LedgerMove
<1> QED
  BY <1>1, <1>2, <1>3, <1>5, <1>6, <1>7 DEF JournalStep

-----------------------------------------------------------------------------
(* The local variables: what the helpers make of a run that fits. *)

\* A run that has given up on its artifact takes nothing for granted.
GaveUp(l) ==
  \/ l.pc \in {"rollback", "conclude", "release", "close", "idle"}
  \/ l.pc = "unlock" /\ l.error # "none"

\* So it fits any journal.
LEMMA GaveUpFits ==
  ASSUME NEW l, GaveUp(l), NEW t, NEW j
  PROVE  Fits(l, t, j)
<1>1. /\ l.pc \notin {"select", "create"} /\ l.pc \notin Attempting
      /\ ~(l.pc = "unlock" /\ l.error = "none") /\ l.pc \notin InPhase
  BY DEF GaveUp, Attempting, InPhase
<1>2. AttemptsFit(l, j)
  BY <1>1 DEF AttemptsFit
<1>3. ~OutsideTransaction(l)
  BY <1>1 DEF OutsideTransaction, GaveUp, ReconcileStep
<1> QED
  BY <1>1, <1>2, <1>3 DEF Fits, TransactionFits, InPhase

\* With an error on its way the finally gives up.
LEMMA FinallyGivesUp ==
  ASSUME NEW l \in Run, l.error # "none"
  PROVE  GaveUp(AfterFinally(l)) /\ GaveUp(Finally(l))
<1>1. Catch(l).pc \in {"rollback", "conclude"}
  BY DEF Catch, Run
<1>2. [l EXCEPT !.pc = "unlock"].pc = "unlock" /\ [l EXCEPT !.pc = "unlock"].error = l.error
  BY DEF Run
<1> QED
  BY <1>1, <1>2 DEF AfterFinally, Finally, GaveUp

\* Every exception makes the run give up.
LEMMA ThrowGivesUp ==
  ASSUME NEW l \in Run, l.pc \notin {"idle", "close"}, NEW e \in {"failed", "uncertain"}
  PROVE  GaveUp(Throw(l, e))
<1> DEFINE failed == [l EXCEPT !.error = e]
<1>1. failed \in Run /\ failed.error # "none"
  BY DEF Run
<1> HIDE DEF failed
<1>2. CASE l.pc \in {"lease", "read", "select", "create", "start", "rollback"} \cup ReconcileStep
  <2>1. \A pc : [failed EXCEPT !.pc = pc].pc = pc
    BY <1>1 DEF Run
  <2>2. \E pc \in {"close", "release", "conclude"} : Throw(l, e) = [failed EXCEPT !.pc = pc]
    BY <1>2 DEF Throw, failed, ReconcileStep
  <2> QED
    BY <2>1, <2>2 DEF GaveUp
<1>3. CASE l.pc \in {"lock", "begin"}
  <2>1. Throw(l, e) = Catch(failed)
    BY <1>3 DEF Throw, failed, ReconcileStep
  <2>2. Catch(failed).pc \in {"rollback", "conclude"}
    BY <1>1 DEF Catch, Run
  <2> QED
    BY <2>1, <2>2 DEF GaveUp
<1>4. CASE l.pc \in {"check", "execute", "mark", "postcheck", "record", "applied"}
  <2>1. Throw(l, e) = Finally(failed)
    BY <1>4 DEF Throw, failed, ReconcileStep
  <2> QED
    BY <1>1, <2>1, FinallyGivesUp
<1>5. CASE l.pc = "commit"
  <2> DEFINE m == [failed EXCEPT !.active = FALSE]
  <2>1. Throw(l, e) = Finally(m)
    BY <1>5 DEF Throw, failed, ReconcileStep
  <2>2. m \in Run /\ m.error # "none"
    BY <1>1 DEF Run
  <2> QED
    BY <2>1, <2>2, FinallyGivesUp
<1>6. CASE l.pc = "unlock"
  <2>1. Throw(l, e) = AfterFinally(failed)
    BY <1>6 DEF Throw, failed, ReconcileStep
  <2> QED
    BY <1>1, <2>1, FinallyGivesUp
<1>7. CASE l.pc = "conclude"
  <2>1. Throw(l, e) = [l EXCEPT !.pc = "release"]
    BY <1>7 DEF Throw, failed, ReconcileStep
  <2> QED
    BY <2>1 DEF GaveUp, Run
<1>8. CASE l.pc = "release"
  <2>1. Throw(l, e) = [l EXCEPT !.pc = "close", !.error = IF @ = "none" THEN e ELSE @]
    BY <1>8 DEF Throw, failed, ReconcileStep
  <2> QED
    BY <2>1 DEF GaveUp, Run
<1> QED
  BY <1>2, <1>3, <1>4, <1>5, <1>6, <1>7, <1>8 DEF Run, Step, ExecutorStep

\* A phase is entered with the attempt open and no transaction.
LEMMA EnterPhaseFits ==
  ASSUME NEW l, InArtifact(l), ~l.active,
         NEW j, OpenAttempts(j) = {l.attempt}
  PROVE  Fits(EnterPhase(l), NoTxn, j)
<1> DEFINE m == EnterPhase(l)
<1>1. l \in Run /\ Len(Phases(l)) \in Nat
  BY PhasesType DEF InArtifact
<1>2. /\ m.pc \in {"record", "lock", "begin", "check"}
      /\ m.pc = "record" => l.ph > Len(Phases(l))
      /\ m.n = l.n /\ m.repo = l.repo /\ m.attempt = l.attempt /\ m.ph = l.ph
  BY <1>1 DEF EnterPhase, Run
<1>3. Phases(m) = Phases(l) /\ l.ph \in Nat
  BY <1>1, <1>2 DEF Phases, ArtifactOf, Run
<1> HIDE DEF m
<1>4. AttemptsFit(m, j)
  BY <1>2 DEF AttemptsFit
<1>5. m.pc = "record" => FinalPhase(m)
  BY <1>1, <1>2, <1>3 DEF FinalPhase
<1> QED
  BY <1>2, <1>4, <1>5 DEF Fits, TransactionFits, m

\* What a run without an error knows behind a phase: its attempt is settled
\* with the last one.
BehindPhase(l, t, j) ==
  l.error = "none" =>
    /\ ~l.active /\ t = NoTxn
    /\ OpenAttempts(j) = IF FinalPhase(l) THEN {} ELSE {l.attempt}

\* Behind a phase come the next one with the attempt still open, the next
\* artifact with none, or the catch.
LEMMA AfterFinallyFits ==
  ASSUME NEW l, InArtifact(l), NEW t, NEW j, BehindPhase(l, t, j)
  PROVE  Fits(AfterFinally(l), t, j)
<1>1. l \in Run /\ l.ph \in Nat /\ Len(Phases(l)) \in Nat
  BY PhasesType DEF InArtifact, Run
<1>2. CASE l.error # "none"
  BY <1>1, <1>2, FinallyGivesUp, GaveUpFits
<1>3. CASE l.error = "none" /\ l.ph < Len(Phases(l))
  <2> DEFINE m == [l EXCEPT !.ph = @ + 1, !.st = 1]
  <2>1. m \in Run
    <3>1. l.ph + 1 \in Nat
      BY <1>1
    <3> QED
      BY <1>1, <3>1 DEF Run
  <2>2. /\ m.n = l.n /\ m.repo = l.repo /\ m.attempt = l.attempt
        /\ m.leased = l.leased /\ m.active = l.active
    BY <1>1 DEF Run
  <2>3. InArtifact(m)
    BY <2>1, <2>2 DEF InArtifact
  <2>4. t = NoTxn /\ ~l.active /\ OpenAttempts(j) = {l.attempt}
    BY <1>1, <1>3 DEF BehindPhase, FinalPhase
  <2>5. AfterFinally(l) = EnterPhase(m)
    BY <1>3 DEF AfterFinally
  <2> HIDE DEF m
  <2> QED
    BY <2>2, <2>3, <2>4, <2>5, EnterPhaseFits
<1>4. CASE l.error = "none" /\ ~(l.ph < Len(Phases(l)))
  <2> DEFINE m == NextArtifact(l)
  <2>1. t = NoTxn /\ OpenAttempts(j) = {}
    BY <1>1, <1>4 DEF BehindPhase, FinalPhase
  <2>2. m.pc = "select"
    BY NextArtifactOK
  <2>3. AfterFinally(l) = m
    BY <1>4 DEF AfterFinally
  <2> HIDE DEF m
  <2>4. AttemptsFit(m, j)
    BY <2>1, <2>2 DEF AttemptsFit, Attempting, InPhase
  <2> QED
    BY <2>1, <2>2, <2>3, <2>4 DEF Fits, TransactionFits
<1> QED
  BY <1>2, <1>3, <1>4

\* The same with the DDL lock still to be released.
LEMMA FinallyFits ==
  ASSUME NEW l, InArtifact(l), NEW t, NEW j, BehindPhase(l, t, j)
  PROVE  Fits(Finally(l), t, j)
<1>1. CASE ~l.locked
  BY <1>1, AfterFinallyFits DEF Finally
<1>2. CASE l.locked
  <2> DEFINE m == [l EXCEPT !.pc = "unlock"]
  <2>1. /\ m.pc = "unlock" /\ m.error = l.error /\ m.attempt = l.attempt
        /\ m.ph = l.ph /\ m.n = l.n /\ m.repo = l.repo
    BY DEF InArtifact, Run
  <2>2. Finally(l) = m
    BY <1>2 DEF Finally
  <2> HIDE DEF m
  <2>3. FinalPhase(m) = FinalPhase(l)
    BY <2>1 DEF FinalPhase, Phases, ArtifactOf
  <2>4. AttemptsFit(m, j)
    BY <2>1, <2>3 DEF AttemptsFit, BehindPhase, Attempting, InPhase
  <2>5. OutsideTransaction(m) => t = NoTxn
    BY <2>1 DEF OutsideTransaction, BehindPhase, InPhase, ReconcileStep
  <2> QED
    BY <2>1, <2>2, <2>4, <2>5 DEF Fits, TransactionFits
<1> QED
  BY <1>1, <1>2

-----------------------------------------------------------------------------
(* The steps of a run under the lease. *)

\* What a step under the lease makes of the committed journal and of its run.
Moved(p) ==
  /\ JournalStep(db.journal, db'.journal)
  /\ Fits(run'[p], txn'[p], db'.journal)

\* What is known of a run at an await under the lease.
LEMMA AtFits ==
  ASSUME Sound, InStep, NEW p \in Proc, NEW pc \in Critical, At(p, pc)
  PROVE  /\ p \in online /\ run[p] \in Run /\ run[p].pc = pc /\ LocalOK(run[p])
         /\ db \in Database /\ db.journal \in Journal
         /\ AttemptsFit(run[p], db.journal)
         /\ TransactionFits(run[p], txn[p], db.journal)
<1>1. /\ p \in online /\ run[p] \in Run /\ run[p].pc = pc /\ LocalOK(run[p])
      /\ db \in Database
  BY AtSound DEF Sound, TypeOK
<1>2. UnderLease(p)
  BY <1>1 DEF UnderLease
<1>3. db.journal \in Journal
  BY <1>1 DEF Database
<1> QED
  BY <1>1, <1>2, <1>3 DEF InStep, Fits

\* An exception fits whatever the step has done.
LEMMA ThrowMoves ==
  ASSUME Sound, NEW p \in Proc, run[p].pc \notin {"idle", "close"},
         NEW e \in {"failed", "uncertain"}, run' = [run EXCEPT ![p] = Throw(run[p], e)],
         JournalStep(db.journal, db'.journal)
  PROVE  Moved(p)
<1>1. run[p] \in Run /\ run'[p] = Throw(run[p], e)
  BY DEF Sound, TypeOK
<1> QED
  BY <1>1, ThrowGivesUp, GaveUpFits DEF Moved

\* So does a lost answer.
LEMMA AnswerMoves ==
  ASSUME Sound, NEW p \in Proc, run[p].pc \notin {"idle", "close"},
         NEW l, Answer(p, l), Fits(l, txn'[p], db'.journal),
         JournalStep(db.journal, db'.journal)
  PROVE  Moved(p)
<1>1. CASE run' = [run EXCEPT ![p] = l]
  BY <1>1 DEF Moved, Sound, TypeOK
<1>2. CASE run' = [run EXCEPT ![p] = Throw(run[p], Unanswered(run[p]))]
  BY <1>2, ThrowMoves DEF Unanswered
<1> QED
  BY <1>1, <1>2 DEF Answer

\* A run that goes on by itself, or throws, leaves the journal alone.
LEMMA ProceedMoves ==
  ASSUME Sound, NEW p \in Proc, NEW l, Proceed(p, l), Fits(l, txn[p], db.journal)
  PROVE  Moved(p)
BY DEF Proceed, Moved, JournalStep, Sound, TypeOK

LEMMA RejectMoves ==
  ASSUME Sound, NEW p \in Proc, run[p].pc \notin {"idle", "close"}, Reject(p, "failed")
  PROVE  Moved(p)
BY ThrowMoves DEF Reject, Proceed, JournalStep

\* A run outside a transaction fits if its open attempt does.
LEMMA OutsideFits ==
  ASSUME NEW l, NEW j,
         l.pc \in {"read", "select", "create", "start", "lock", "begin"} \cup ReconcileStep,
         l.pc \in {"select", "create"} => OpenAttempts(j) = {},
         l.pc \in Attempting => OpenAttempts(j) = {l.attempt}
  PROVE  Fits(l, NoTxn, j)
BY DEF Fits, AttemptsFit, TransactionFits, ReconcileStep

\* A run in a phase fits if its transaction hides no change of the journal.
LEMMA PhaseFits ==
  ASSUME NEW l, NEW t, NEW j, l.pc \in {"check", "execute", "mark", "postcheck"},
         OpenAttempts(j) = {l.attempt},
         ~l.active => t = NoTxn, t # NoTxn => t.journal = j
  PROVE  Fits(l, t, j)
BY DEF Fits, AttemptsFit, TransactionFits, OutsideTransaction, ReconcileStep

\* What a write of a journal does outside and inside a transaction.
LEMMA JournalWrite ==
  ASSUME Sound, NEW p \in Proc, NEW j \in Journal, WriteJournal(p, j)
  PROVE  /\ txn[p] = NoTxn => db'.journal = j /\ txn' = txn
         /\ txn[p] # NoTxn => db' = db /\ txn'[p] # NoTxn /\ txn'[p].journal = j
<1> DEFINE d == [View(p) EXCEPT !.journal = j]
<1>1. View(p) \in Database
  BY ViewType DEF Sound
<1>2. d.journal = j /\ d \in Database
  BY <1>1 DEF Database
<1>3. Write(p, d)
  BY DEF WriteJournal
<1> HIDE DEF d
<1> QED
  BY <1>2, <1>3, NoTxnAssumption DEF Write, Sound, TypeOK

\* A transition outside a transaction moves the committed journal.
LEMMA TransitionMoves ==
  ASSUME Sound, NEW p \in Proc, run[p].pc \notin {"idle", "close"},
         txn[p] = NoTxn, run[p].attempt \in AttemptId, NEW s \in AttemptState,
         NEW l, Transition(p, s, l),
         CanTransition(db.journal, run[p].attempt, s) =>
           Fits(l, NoTxn, TransitionAttempt(db.journal, run[p].attempt, s))
  PROVE  Moved(p)
<1> DEFINE k == run[p].attempt
           j == TransitionAttempt(db.journal, k, s)
<1>1. JournalOf(p) = db.journal /\ db.journal \in Journal
  BY DEF JournalOf, View, Sound, TypeOK, Database
<1>2. CASE CanTransition(db.journal, k, s)
  <2>1. j \in Journal /\ JournalStep(db.journal, j)
    BY <1>1, <1>2, TransitionAttemptType DEF JournalStep
  <2>2. WriteJournal(p, j) /\ Answer(p, l) /\ Fits(l, NoTxn, j)
    BY <1>1, <1>2 DEF Transition
  <2> HIDE DEF j
  <2>3. db'.journal = j /\ txn'[p] = NoTxn
    BY <2>1, <2>2, JournalWrite
  <2> QED
    BY <2>1, <2>2, <2>3, AnswerMoves
<1>3. CASE ~CanTransition(db.journal, k, s)
  BY <1>1, <1>3, RejectMoves DEF Transition
<1> QED
  BY <1>2, <1>3

\* executeMigrations: a run that passes the recovery gate finds no open attempt.
LEMMA ReadJournalMoves ==
  ASSUME Sound, InStep, NEW p \in Proc, ReadJournal(p)
  PROVE  Moved(p)
<1> DEFINE l == [run[p] EXCEPT !.pc = "select", !.n = Len(db.journal.applied) + 1,
                               !.head = db.journal.head]
<1>1. At(p, "read")
  BY DEF ReadJournal
<1>2. /\ run[p] \in Run /\ run[p].pc = "read"
      /\ TransactionFits(run[p], txn[p], db.journal)
  BY <1>1, AtFits DEF Critical, ExecutorStep
<1>3. txn[p] = NoTxn /\ JournalOf(p) = db.journal
  BY <1>2 DEF TransactionFits, OutsideTransaction, JournalOf, View
<1>4. l.pc = "select"
  BY <1>2 DEF Run
<1>5. CASE ValidateJournalState(db.journal) /\ Proceed(p, l)
  <2>1. OpenAttempts(db.journal) = {}
    BY <1>5 DEF ValidateJournalState
  <2> HIDE DEF l
  <2> QED
    BY <1>3, <1>4, <1>5, <2>1, OutsideFits, ProceedMoves DEF Attempting, InPhase
<1>6. CASE Reject(p, "failed")
  BY <1>2, <1>6, RejectMoves
<1> QED
  BY <1>3, <1>5, <1>6 DEF ReadJournal

\* The selection of an artifact leaves it at that.
LEMMA SelectArtifactMoves ==
  ASSUME Sound, InStep, NEW p \in Proc, SelectArtifact(p)
  PROVE  Moved(p)
<1>1. At(p, "select")
  BY DEF SelectArtifact
<1>2. /\ run[p] \in Run /\ run[p].pc = "select"
      /\ AttemptsFit(run[p], db.journal)
      /\ TransactionFits(run[p], txn[p], db.journal)
  BY <1>1, AtFits DEF Critical, ExecutorStep
<1>3. txn[p] = NoTxn /\ OpenAttempts(db.journal) = {}
  BY <1>2 DEF TransactionFits, OutsideTransaction, AttemptsFit
<1>4. \A pc : [run[p] EXCEPT !.pc = pc].pc = pc
  BY <1>2 DEF Run
<1>5. CASE Proceed(p, [run[p] EXCEPT !.pc = "release"])
  <2>1. GaveUp([run[p] EXCEPT !.pc = "release"])
    BY <1>4 DEF GaveUp
  <2> QED
    BY <1>5, <2>1, GaveUpFits, ProceedMoves
<1>6. CASE Proceed(p, [run[p] EXCEPT !.pc = "create"])
  <2> DEFINE l == [run[p] EXCEPT !.pc = "create"]
  <2>1. l.pc = "create"
    BY <1>4
  <2> HIDE DEF l
  <2> QED
    BY <1>3, <1>6, <2>1, OutsideFits, ProceedMoves DEF Attempting, InPhase, l
<1>7. CASE Reject(p, "failed")
  BY <1>2, <1>7, RejectMoves
<1> QED
  BY <1>5, <1>6, <1>7 DEF SelectArtifact

\* createAttempt: the attempt becomes the only open one.
LEMMA CreateAttemptMoves ==
  ASSUME Sound, InStep, NEW p \in Proc, CreateAttemptRow(p)
  PROVE  Moved(p)
<1>1. At(p, "create")
  BY DEF CreateAttemptRow
<1>2. /\ run[p] \in Run /\ run[p].pc = "create" /\ LocalOK(run[p])
      /\ db.journal \in Journal
      /\ AttemptsFit(run[p], db.journal)
      /\ TransactionFits(run[p], txn[p], db.journal)
  BY <1>1, AtFits DEF Critical, ExecutorStep
<1>3. txn[p] = NoTxn /\ JournalOf(p) = db.journal /\ OpenAttempts(db.journal) = {}
  BY <1>2 DEF TransactionFits, OutsideTransaction, AttemptsFit, JournalOf, View
<1>4. ArtifactOf(run[p]) \in Artifact /\ run[p].head \in Digest
  BY <1>2, PhasesType DEF LocalOK, PositionOK, ExecutorStep, Run, Digest
<1>5. PICK k \in AttemptId :
        IF CanCreate(JournalOf(p), k)
          THEN /\ WriteJournal(p, CreateAttempt(
                      JournalOf(p), k, ArtifactOf(run[p]), run[p].head))
               /\ Answer(p, [run[p] EXCEPT !.pc = "start", !.attempt = k])
               /\ UNCHANGED <<advisory, ddl, online>>
          ELSE Reject(p, "failed")
  BY DEF CreateAttemptRow
<1>6. CASE CanCreate(db.journal, k)
  <2> DEFINE l == [run[p] EXCEPT !.pc = "start", !.attempt = k]
             j == CreateAttempt(db.journal, k, ArtifactOf(run[p]), run[p].head)
  <2>1. j \in Journal /\ JournalStep(db.journal, j) /\ OpenAttempts(j) = {k}
    BY <1>2, <1>3, <1>4, <1>6, CreateAttemptType, CreateOpens DEF JournalStep
  <2>2. WriteJournal(p, j) /\ Answer(p, l)
    BY <1>3, <1>5, <1>6
  <2>3. l.pc = "start" /\ l.attempt = k
    BY <1>2 DEF Run
  <2> HIDE DEF j, l
  <2>4. db'.journal = j /\ txn'[p] = NoTxn
    BY <1>3, <2>1, <2>2, JournalWrite
  <2>5. Fits(l, NoTxn, j)
    BY <2>1, <2>3, OutsideFits
  <2> QED
    BY <1>2, <2>1, <2>2, <2>4, <2>5, AnswerMoves
<1>7. CASE ~CanCreate(db.journal, k)
  BY <1>2, <1>3, <1>5, <1>7, RejectMoves
<1> QED
  BY <1>6, <1>7

\* A transition that leaves the attempt open leaves the open attempts alone.
LEMMA MarkRunningMoves ==
  ASSUME Sound, InStep, NEW p \in Proc, MarkRunning(p)
  PROVE  Moved(p)
<1> DEFINE m == [run[p] EXCEPT !.ph = 1, !.st = 1]
<1>1. At(p, "start") /\ Transition(p, "running", EnterPhase(m))
  BY DEF MarkRunning
<1>2. /\ run[p] \in Run /\ run[p].pc = "start" /\ LocalOK(run[p])
      /\ db.journal \in Journal
      /\ AttemptsFit(run[p], db.journal)
      /\ TransactionFits(run[p], txn[p], db.journal)
  BY <1>1, AtFits DEF Critical, ExecutorStep
<1>3. txn[p] = NoTxn /\ OpenAttempts(db.journal) = {run[p].attempt}
  BY <1>2 DEF TransactionFits, OutsideTransaction, AttemptsFit, Attempting
<1>4. InArtifact(run[p]) /\ ~run[p].active
  BY <1>2, LocalInArtifact DEF LocalOK, FlagsOK, ExecutorStep
<1>5. /\ m \in Run /\ m.attempt = run[p].attempt /\ m.active = run[p].active
      /\ m.n = run[p].n /\ m.repo = run[p].repo /\ m.leased = run[p].leased
  BY <1>2 DEF Run
<1> HIDE DEF m
<1>6. InArtifact(m) /\ ~m.active
  BY <1>4, <1>5 DEF InArtifact
<1>7. ASSUME CanTransition(db.journal, run[p].attempt, "running")
      PROVE  Fits(EnterPhase(m), NoTxn,
                  TransitionAttempt(db.journal, run[p].attempt, "running"))
  <2>1. OpenAttempts(TransitionAttempt(db.journal, run[p].attempt, "running"))
          = {m.attempt}
    BY <1>2, <1>3, <1>4, <1>5, <1>7, TransitionOpens DEF InArtifact, Terminal
  <2> QED
    BY <1>6, <2>1, EnterPhaseFits
<1> QED
  BY <1>1, <1>2, <1>3, <1>4, <1>7, TransitionMoves DEF InArtifact, AttemptState, Unresolved

\* The DDL lock comes before the transaction it surrounds.
LEMMA AcquireDdlLockMoves ==
  ASSUME Sound, InStep, NEW p \in Proc, AcquireDdlLock(p)
  PROVE  Moved(p)
<1> DEFINE l == [run[p] EXCEPT
             !.locked = TRUE,
             !.pc = IF UseTransaction(PhaseOf(run[p])) THEN "begin" ELSE "check"]
<1>1. At(p, "lock") /\ Answer(p, l) /\ UNCHANGED <<db, txn>>
  BY DEF AcquireDdlLock
<1>2. /\ run[p] \in Run /\ run[p].pc = "lock"
      /\ AttemptsFit(run[p], db.journal)
      /\ TransactionFits(run[p], txn[p], db.journal)
  BY <1>1, AtFits DEF Critical, ExecutorStep
<1>3. txn[p] = NoTxn /\ OpenAttempts(db.journal) = {run[p].attempt}
  BY <1>2 DEF TransactionFits, OutsideTransaction, AttemptsFit, Attempting
<1>4. l.pc \in {"begin", "check"} /\ l.attempt = run[p].attempt
  BY <1>2 DEF Run
<1> HIDE DEF l
<1>5. Fits(l, NoTxn, db.journal)
  BY <1>3, <1>4, OutsideFits, PhaseFits
<1> QED
  BY <1>1, <1>2, <1>3, <1>5, AnswerMoves DEF JournalStep

\* A transaction begins with the committed journal.
LEMMA BeginTransactionMoves ==
  ASSUME Sound, InStep, NEW p \in Proc, BeginTransaction(p)
  PROVE  Moved(p)
<1> DEFINE l == [run[p] EXCEPT !.active = TRUE, !.pc = "check"]
<1>1. At(p, "begin") /\ txn' = [txn EXCEPT ![p] = db] /\ UNCHANGED db
      /\ run' = [run EXCEPT ![p] = l]
  BY DEF BeginTransaction
<1>2. /\ run[p] \in Run /\ run[p].pc = "begin" /\ AttemptsFit(run[p], db.journal)
  BY <1>1, AtFits DEF Critical, ExecutorStep
<1>3. OpenAttempts(db.journal) = {run[p].attempt}
  BY <1>2 DEF AttemptsFit, Attempting
<1>4. l.pc = "check" /\ l.attempt = run[p].attempt /\ l.active
  BY <1>2 DEF Run
<1> HIDE DEF l
<1>5. txn'[p] = db /\ run'[p] = l
  BY <1>1 DEF Sound, TypeOK
<1>6. Fits(l, db, db.journal)
  BY <1>3, <1>4, PhaseFits
<1> QED
  BY <1>1, <1>5, <1>6 DEF Moved, JournalStep

\* A run inside a phase knows its attempt and its transaction.
LEMMA InPhaseFits ==
  ASSUME Sound, InStep, NEW p \in Proc,
         NEW pc \in {"check", "execute", "mark", "postcheck", "record"}, At(p, pc)
  PROVE  /\ run[p] \in Run /\ run[p].pc = pc /\ InArtifact(run[p])
         /\ db.journal \in Journal
         /\ OpenAttempts(db.journal) = {run[p].attempt}
         /\ ~run[p].active => txn[p] = NoTxn
         /\ run[p].active => txn[p] # NoTxn
         /\ txn[p] # NoTxn => txn[p].journal = db.journal
         /\ pc = "record" => FinalPhase(run[p])
<1>1. /\ p \in online /\ run[p] \in Run /\ run[p].pc = pc /\ LocalOK(run[p])
      /\ db.journal \in Journal
      /\ AttemptsFit(run[p], db.journal)
      /\ TransactionFits(run[p], txn[p], db.journal)
  BY AtFits DEF Critical, ExecutorStep
<1>2. InArtifact(run[p])
  BY <1>1, LocalInArtifact DEF ExecutorStep
<1>3. OpenAttempts(db.journal) = {run[p].attempt}
  BY <1>1 DEF AttemptsFit, Attempting, InPhase
<1>4. ~run[p].active => txn[p] = NoTxn
  BY <1>1 DEF TransactionFits, OutsideTransaction, InPhase
<1>5. run[p].active => txn[p] # NoTxn
  BY <1>1 DEF Sound, TransactionOK, InPhase
<1>6. /\ txn[p] # NoTxn => txn[p].journal = db.journal
      /\ pc = "record" => FinalPhase(run[p])
  BY <1>1 DEF TransactionFits
<1> QED
  BY <1>1, <1>2, <1>3, <1>4, <1>5, <1>6

\* Preconditions change nothing.
LEMMA CheckPreconditionsMoves ==
  ASSUME Sound, InStep, NEW p \in Proc, CheckPreconditions(p)
  PROVE  Moved(p)
<1> DEFINE l == AfterStatements(run[p])
<1>1. At(p, "check") /\ Proceed(p, l)
  BY DEF CheckPreconditions
<1>2. /\ run[p] \in Run
      /\ OpenAttempts(db.journal) = {run[p].attempt}
      /\ ~run[p].active => txn[p] = NoTxn
      /\ txn[p] # NoTxn => txn[p].journal = db.journal
  BY <1>1, InPhaseFits
<1>3. /\ l.pc \in {"postcheck", "execute"}
      /\ l.attempt = run[p].attempt /\ l.active = run[p].active
  BY <1>2 DEF AfterStatements, Run
<1> HIDE DEF l
<1>4. Fits(l, txn[p], db.journal)
  BY <1>2, <1>3, PhaseFits
<1> QED
  BY <1>1, <1>4, ProceedMoves

\* A write of schema or checkpoints is no write of the journal.
LEMMA OtherWriteMoves ==
  ASSUME Sound, InStep, NEW p \in Proc, run[p].pc \notin {"idle", "close"},
         NEW d \in Database, d.journal = View(p).journal, Write(p, d),
         NEW l, Answer(p, l), l.pc \in {"check", "execute", "mark", "postcheck"},
         OpenAttempts(db.journal) = {l.attempt},
         ~l.active => txn[p] = NoTxn,
         txn[p] # NoTxn => txn[p].journal = db.journal
  PROVE  Moved(p)
<1>1. db'.journal = db.journal
  BY DEF Write, View
<1>2. txn'[p] = NoTxn <=> txn[p] = NoTxn
  BY WriteType DEF Sound
<1>3. txn'[p] # NoTxn => txn'[p].journal = db.journal
  BY <1>2 DEF Write, View, Sound, TypeOK
<1>4. Fits(l, txn'[p], db'.journal)
  BY <1>1, <1>2, <1>3, PhaseFits
<1> QED
  BY <1>1, <1>4, AnswerMoves DEF JournalStep

\* A statement.
LEMMA ExecuteStatementMoves ==
  ASSUME Sound, InStep, NEW p \in Proc, ExecuteStatement(p)
  PROVE  Moved(p)
<1> DEFINE d == [View(p) EXCEPT !.schema = @ \cup {EffectOf(run[p])}]
           l == [run[p] EXCEPT !.effect = TRUE, !.pc = "mark"]
<1>1. At(p, "execute") /\ Write(p, d) /\ Answer(p, l)
  BY DEF ExecuteStatement
<1>2. /\ run[p] \in Run /\ run[p].pc = "execute"
      /\ OpenAttempts(db.journal) = {run[p].attempt}
      /\ ~run[p].active => txn[p] = NoTxn
      /\ txn[p] # NoTxn => txn[p].journal = db.journal
  BY <1>1, InPhaseFits
<1>3. View(p) \in Database /\ LocalOK(run[p])
  BY ViewType DEF Sound
<1>4. d \in Database /\ d.journal = View(p).journal
  BY <1>2, <1>3, EffectOfType DEF Database, ExecuteStatement
<1>5. l.pc = "mark" /\ l.attempt = run[p].attempt /\ l.active = run[p].active
  BY <1>2 DEF Run
<1> HIDE DEF d, l
<1> QED
  BY <1>1, <1>2, <1>4, <1>5, OtherWriteMoves

\* A statement's checkpoint.
LEMMA CheckpointStatementMoves ==
  ASSUME Sound, InStep, NEW p \in Proc, CheckpointStatement(p)
  PROVE  Moved(p)
<1> DEFINE mark == <<run[p].attempt, EffectOf(run[p])>>
           d == [View(p) EXCEPT !.marks = @ \cup {mark}]
           m == [run[p] EXCEPT !.st = @ + 1]
           l == AfterStatements(m)
<1>1. At(p, "mark") /\ Write(p, d) /\ Answer(p, l)
  BY DEF CheckpointStatement
<1>2. /\ run[p] \in Run /\ run[p].pc = "mark" /\ InArtifact(run[p])
      /\ OpenAttempts(db.journal) = {run[p].attempt}
      /\ ~run[p].active => txn[p] = NoTxn
      /\ txn[p] # NoTxn => txn[p].journal = db.journal
  BY <1>1, InPhaseFits
<1>3. View(p) \in Database /\ LocalOK(run[p])
  BY ViewType DEF Sound
<1>4. mark \in AttemptId \X UNION {Effects(a) : a \in Artifact}
  BY <1>2, <1>3, EffectOfType DEF InArtifact
<1> HIDE DEF mark
<1>5. d \in Database /\ d.journal = View(p).journal
  BY <1>3, <1>4 DEF Database
<1>6. /\ l.pc \in {"postcheck", "execute"}
      /\ l.attempt = run[p].attempt /\ l.active = run[p].active
  <2>1. /\ m.attempt = run[p].attempt /\ m.active = run[p].active
        /\ \A pc : /\ [m EXCEPT !.pc = pc].pc = pc
                   /\ [m EXCEPT !.pc = pc].attempt = m.attempt
                   /\ [m EXCEPT !.pc = pc].active = m.active
    BY <1>2 DEF Run
  <2> HIDE DEF m
  <2> QED
    BY <2>1 DEF AfterStatements
<1> HIDE DEF d, l
<1> QED
  BY <1>1, <1>2, <1>5, <1>6, OtherWriteMoves

\* A run that only goes on to another await is at the same phase of the same
\* artifact, with the same attempt.
LEMMA OnlyGoesOn ==
  ASSUME NEW l \in Run, NEW pc
  PROVE  LET m == [l EXCEPT !.pc = pc]
         IN  /\ m.pc = pc /\ m.attempt = l.attempt /\ m.active = l.active
             /\ m.head = l.head
             /\ ArtifactOf(m) = ArtifactOf(l) /\ (FinalPhase(m) <=> FinalPhase(l))
<1> DEFINE m == [l EXCEPT !.pc = pc]
<1>1. /\ m.pc = pc /\ m.attempt = l.attempt /\ m.active = l.active /\ m.head = l.head
      /\ m.n = l.n /\ m.repo = l.repo /\ m.ph = l.ph
  BY DEF Run
<1> QED
  BY <1>1 DEF ArtifactOf, FinalPhase, Phases

\* Behind the statements: the record in the last phase, or the phase's end.
LEMMA CheckPostconditionsMoves ==
  ASSUME Sound, InStep, NEW p \in Proc, CheckPostconditions(p)
  PROVE  Moved(p)
<1> DEFINE l == run[p]
           m(pc) == [l EXCEPT !.pc = pc]
<1>1. At(p, "postcheck")
  BY DEF CheckPostconditions
<1>2. /\ l \in Run /\ InArtifact(l)
      /\ OpenAttempts(db.journal) = {l.attempt}
      /\ ~l.active => txn[p] = NoTxn
      /\ l.active => txn[p] # NoTxn
      /\ txn[p] # NoTxn => txn[p].journal = db.journal
  BY <1>1, InPhaseFits
<1>3. \A pc : /\ m(pc).pc = pc /\ m(pc).attempt = l.attempt /\ m(pc).active = l.active
              /\ FinalPhase(m(pc)) <=> FinalPhase(l)
  BY <1>2, OnlyGoesOn
<1>4. \/ FinalPhase(l) /\ Proceed(p, m("record"))
      \/ ~FinalPhase(l) /\ l.active /\ Proceed(p, m("commit"))
      \/ ~FinalPhase(l) /\ ~l.active /\ Proceed(p, Finally(l))
  BY DEF CheckPostconditions
<1> HIDE DEF l, m
<1>5. CASE FinalPhase(l) /\ Proceed(p, m("record"))
  <2>1. Fits(m("record"), txn[p], db.journal)
    BY <1>2, <1>3, <1>5
       DEF Fits, AttemptsFit, TransactionFits, OutsideTransaction, ReconcileStep
  <2> QED
    BY <1>5, <2>1, ProceedMoves
<1>6. CASE ~FinalPhase(l) /\ l.active /\ Proceed(p, m("commit"))
  <2>1. AttemptsFit(m("commit"), db.journal)
    BY <1>2, <1>3 DEF AttemptsFit
  <2>2. ~OutsideTransaction(m("commit")) /\ ~FinalPhase(m("commit"))
    <3>1. m("commit").pc = "commit" /\ m("commit").active = l.active
      BY <1>3
    <3>2. FinalPhase(m("commit")) <=> FinalPhase(l)
      BY <1>3, Zenon
    <3>3. ~OutsideTransaction(m("commit"))
      BY <1>6, <3>1 DEF OutsideTransaction, ReconcileStep
    <3> QED
      BY <1>6, <3>2, <3>3
  <2>3. TransactionFits(m("commit"), txn[p], db.journal)
    BY <1>2, <1>3, <2>2 DEF TransactionFits
  <2> QED
    BY <1>6, <2>1, <2>3, ProceedMoves DEF Fits
<1>7. CASE ~FinalPhase(l) /\ ~l.active /\ Proceed(p, Finally(l))
  <2>1. BehindPhase(l, txn[p], db.journal)
    BY <1>2, <1>7 DEF BehindPhase
  <2> QED
    BY <1>2, <1>7, <2>1, FinallyFits, ProceedMoves
<1> QED
  BY <1>4, <1>5, <1>6, <1>7

\* recordApplied: the record of the open attempt.
LEMMA RecordAppliedMoves ==
  ASSUME Sound, InStep, NEW p \in Proc, RecordApplied(p)
  PROVE  Moved(p)
<1> DEFINE l == run[p]
           i == db.journal
           a == ArtifactOf(l)
           j == AppendAppliedAndAdvanceHead(i, a, l.attempt)
           m == [l EXCEPT !.pc = "applied"]
<1>1. At(p, "record")
  BY DEF RecordApplied
<1>2. /\ l \in Run /\ InArtifact(l) /\ l.pc = "record"
      /\ i \in Journal /\ OpenAttempts(i) = {l.attempt}
      /\ ~l.active => txn[p] = NoTxn
      /\ txn[p] # NoTxn => txn[p].journal = i
      /\ FinalPhase(l)
  BY <1>1, InPhaseFits
<1>3. JournalOf(p) = i
  BY <1>2 DEF JournalOf, View
<1>4. /\ m.pc = "applied" /\ m.attempt = l.attempt /\ m.active = l.active
      /\ m.head = l.head /\ ArtifactOf(m) = a /\ FinalPhase(m)
  BY <1>2, OnlyGoesOn
<1>5. a \in Artifact /\ l.attempt \in AttemptId /\ l.head \in Digest
  BY <1>2, PhasesType DEF InArtifact, Run
<1>6. CASE CanAppend(i, a, l.attempt, l.head)
  <2>1. j \in Journal /\ OpenAttempts(j) = {l.attempt} /\ JournalStep(i, j)
    <3>1. j \in Journal
      BY <1>2, <1>5, AppendType
    <3>2. OpenAttempts(j) = OpenAttempts(i)
      BY <1>2, SameAttempts
    <3>3. l.attempt \in OpenAttempts(i)
      BY <1>2
    <3>4. JournalStep(i, j)
      BY <1>5, <1>6, <3>3 DEF JournalStep
    <3> QED
      BY <1>2, <3>1, <3>2, <3>4
  <2>2. WriteJournal(p, j) /\ Answer(p, m)
    BY <1>3, <1>6 DEF RecordApplied
  <2>3. IsRecorded(m, i, j)
    BY <1>4, <1>6 DEF IsRecorded
  <2> HIDE DEF j, m, l
  <2>4. CASE txn[p] = NoTxn
    <3>1. db'.journal = j /\ txn'[p] = NoTxn
      BY <2>1, <2>2, <2>4, JournalWrite
    <3>2. Fits(m, NoTxn, j)
      BY <1>4, <2>1 DEF Fits, AttemptsFit, TransactionFits
    <3> QED
      BY <1>2, <2>1, <2>2, <3>1, <3>2, AnswerMoves DEF l
  <2>5. CASE txn[p] # NoTxn
    <3>1. db'.journal = i /\ txn'[p] # NoTxn /\ txn'[p].journal = j
      BY <2>1, <2>2, <2>5, JournalWrite
    <3>2. m.active
      BY <1>2, <1>4, <2>5
    <3>3. Fits(m, txn'[p], i)
      BY <1>2, <1>4, <2>3, <3>1, <3>2
         DEF Fits, AttemptsFit, TransactionFits, OutsideTransaction, ReconcileStep
    <3> QED
      BY <1>2, <2>2, <3>1, <3>3, AnswerMoves DEF l, JournalStep
  <2> QED
    BY <2>4, <2>5
<1>7. CASE ~CanAppend(i, a, l.attempt, l.head)
  BY <1>2, <1>3, <1>7, RejectMoves DEF RecordApplied
<1> QED
  BY <1>6, <1>7

\* The transition to applied settles the attempt, in the journal the session
\* sees.
LEMMA MarkAppliedMoves ==
  ASSUME Sound, InStep, NEW p \in Proc, MarkApplied(p)
  PROVE  Moved(p)
<1> DEFINE l == run[p]
           i == db.journal
           m == IF l.active THEN [l EXCEPT !.pc = "commit"] ELSE Finally(l)
<1>1. At(p, "applied") /\ Transition(p, "applied", m)
  BY DEF MarkApplied
<1>2. /\ l \in Run /\ l.pc = "applied" /\ LocalOK(l) /\ i \in Journal
      /\ AttemptsFit(l, i) /\ TransactionFits(l, txn[p], i)
      /\ l.active => txn[p] # NoTxn
  BY <1>1, AtFits, AtSound DEF Critical, ExecutorStep, InPhase
<1>3. InArtifact(l) /\ OpenAttempts(i) = {l.attempt}
  BY <1>2, LocalInArtifact DEF ExecutorStep, AttemptsFit, Attempting, InPhase
<1>4. FinalPhase(l) /\ (~l.active => txn[p] = NoTxn)
  BY <1>2 DEF TransactionFits, OutsideTransaction, InPhase
<1> HIDE DEF l
<1>5. CASE ~l.active
  <2>1. ASSUME CanTransition(i, l.attempt, "applied")
        PROVE  Fits(m, NoTxn, TransitionAttempt(i, l.attempt, "applied"))
    <3>1. OpenAttempts(TransitionAttempt(i, l.attempt, "applied")) = {}
      BY <1>2, <1>3, <2>1, TransitionOpens DEF InArtifact, Terminal
    <3>2. BehindPhase(l, NoTxn, TransitionAttempt(i, l.attempt, "applied"))
      BY <1>4, <1>5, <3>1 DEF BehindPhase
    <3> QED
      BY <1>3, <1>5, <3>2, FinallyFits
  <2> HIDE DEF m
  <2> QED
    BY <1>1, <1>2, <1>3, <1>4, <1>5, <2>1, TransitionMoves
       DEF InArtifact, AttemptState, Terminal, l
<1>6. CASE l.active
  <2> DEFINE h == txn[p].journal
             j == TransitionAttempt(h, l.attempt, "applied")
  <2>1. IsRecorded(l, i, h) /\ h \in Journal /\ JournalOf(p) = h
    BY <1>2, <1>6 DEF TransactionFits, Sound, TypeOK, Database, JournalOf, View
  <2>2. m = [l EXCEPT !.pc = "commit"]
    BY <1>6
  <2>3. /\ m.pc = "commit" /\ m.attempt = l.attempt /\ m.active
        /\ m.head = l.head /\ ArtifactOf(m) = ArtifactOf(l) /\ FinalPhase(m)
    BY <1>2, <1>4, <1>6, <2>2, OnlyGoesOn
  <2> HIDE DEF h, m
  <2>4. CASE CanTransition(h, l.attempt, "applied")
    <3>1. j \in Journal
      BY <2>1, <2>4, TransitionAttemptType
    <3>2. WriteJournal(p, j) /\ Answer(p, m)
      BY <1>1, <2>1, <2>4 DEF Transition, l
    <3>3. IsSettled(m, i, j)
      BY <2>1, <2>3, <2>4 DEF IsSettled, IsRecorded
    <3> HIDE DEF j
    <3>4. db'.journal = i /\ txn'[p] # NoTxn /\ txn'[p].journal = j
      BY <1>2, <1>6, <3>1, <3>2, JournalWrite
    <3>5. Fits(m, txn'[p], i)
      BY <1>3, <2>3, <3>3, <3>4
         DEF Fits, AttemptsFit, TransactionFits, OutsideTransaction, ReconcileStep
    <3> QED
      BY <1>2, <3>2, <3>4, <3>5, AnswerMoves DEF l, JournalStep
  <2>5. CASE ~CanTransition(h, l.attempt, "applied")
    BY <1>1, <1>2, <2>1, <2>5, RejectMoves DEF Transition, l
  <2> QED
    BY <2>4, <2>5
<1> QED
  BY <1>5, <1>6

\* Record and outcome together are one journal step that leaves no attempt open.
LEMMA SettledMoves ==
  ASSUME NEW l, InArtifact(l), NEW i \in Journal, OpenAttempts(i) = {l.attempt},
         NEW j, IsSettled(l, i, j)
  PROVE  JournalStep(i, j) /\ OpenAttempts(j) = {}
<1> DEFINE a == ArtifactOf(l)
           k == l.attempt
           h == AppendAppliedAndAdvanceHead(i, a, k)
<1>1. a \in Artifact /\ k \in AttemptId /\ l.head \in Digest
  BY PhasesType DEF InArtifact, Run
<1>2. /\ CanAppend(i, a, k, l.head) /\ CanTransition(h, k, "applied")
      /\ j = TransitionAttempt(h, k, "applied")
  BY DEF IsSettled, IsRecorded
<1>3. k \in OpenAttempts(i)
  OBVIOUS
<1>4. JournalStep(i, j)
  BY <1>1, <1>2, <1>3 DEF JournalStep
<1>5. h \in Journal /\ OpenAttempts(h) = {k}
  BY <1>1, AppendType, SameAttempts
<1> HIDE DEF h
<1>6. OpenAttempts(j) = OpenAttempts(h) \ {k}
  BY <1>1, <1>2, <1>5, TransitionOpens DEF Terminal
<1> QED
  BY <1>4, <1>5, <1>6

\* A commit publishes what the session has made of the journal.
LEMMA CommitMoves ==
  ASSUME Sound, InStep, NEW p \in Proc, Commit(p)
  PROVE  Moved(p)
<1> DEFINE l == run[p]
           i == db.journal
           m == [l EXCEPT !.active = FALSE, !.committed = TRUE]
<1>1. At(p, "commit") /\ Answer(p, Finally(m)) /\ db' = txn[p]
      /\ txn' = [txn EXCEPT ![p] = NoTxn]
  BY DEF Commit
<1>2. /\ l \in Run /\ l.pc = "commit" /\ LocalOK(l) /\ i \in Journal
      /\ AttemptsFit(l, i) /\ TransactionFits(l, txn[p], i)
      /\ l.active => txn[p] # NoTxn
  BY <1>1, AtFits, AtSound DEF Critical, ExecutorStep, InPhase
<1>3. InArtifact(l) /\ OpenAttempts(i) = {l.attempt} /\ txn[p] # NoTxn
  BY <1>2, LocalInArtifact
     DEF ExecutorStep, AttemptsFit, Attempting, InPhase, LocalOK, FlagsOK
<1>4. db'.journal = txn[p].journal /\ txn'[p] = NoTxn
  BY <1>1 DEF Sound, TypeOK
<1>5. /\ m \in Run /\ ~m.active /\ m.attempt = l.attempt /\ m.n = l.n
      /\ m.repo = l.repo /\ m.leased = l.leased /\ m.ph = l.ph
  BY <1>2 DEF Run
<1> HIDE DEF m, l
<1>6. InArtifact(m) /\ (FinalPhase(m) <=> FinalPhase(l))
  BY <1>3, <1>5 DEF InArtifact, FinalPhase, Phases, ArtifactOf
<1>7. CASE FinalPhase(l)
  <2>1. IsSettled(l, i, txn[p].journal)
    BY <1>2, <1>3, <1>7 DEF TransactionFits
  <2>2. JournalStep(i, db'.journal) /\ OpenAttempts(db'.journal) = {}
    BY <1>2, <1>3, <1>4, <2>1, SettledMoves
  <2>3. BehindPhase(m, NoTxn, db'.journal)
    BY <1>5, <1>6, <1>7, <2>2 DEF BehindPhase
  <2>4. Fits(Finally(m), NoTxn, db'.journal)
    BY <1>6, <2>3, FinallyFits
  <2> QED
    BY <1>1, <1>2, <1>4, <2>2, <2>4, AnswerMoves DEF l
<1>8. CASE ~FinalPhase(l)
  <2>1. db'.journal = i
    BY <1>2, <1>3, <1>4, <1>8 DEF TransactionFits
  <2>2. BehindPhase(m, NoTxn, i)
    BY <1>3, <1>5, <1>6, <1>8 DEF BehindPhase
  <2>3. Fits(Finally(m), NoTxn, i)
    BY <1>6, <2>2, FinallyFits
  <2> QED
    BY <1>1, <1>2, <1>4, <2>1, <2>3, AnswerMoves DEF l, JournalStep
<1> QED
  BY <1>7, <1>8

\* Behind a phase whose DDL lock is released.
LEMMA ReleaseDdlLockMoves ==
  ASSUME Sound, InStep, NEW p \in Proc, ReleaseDdlLock(p)
  PROVE  Moved(p)
<1> DEFINE l == run[p]
           i == db.journal
           m == [l EXCEPT !.locked = FALSE]
<1>1. At(p, "unlock") /\ Answer(p, AfterFinally(m)) /\ UNCHANGED <<db, txn>>
  BY DEF ReleaseDdlLock
<1>2. /\ l \in Run /\ l.pc = "unlock" /\ LocalOK(l)
      /\ AttemptsFit(l, i) /\ TransactionFits(l, txn[p], i)
  BY <1>1, AtFits DEF Critical, ExecutorStep
<1>3. InArtifact(l)
  BY <1>2, LocalInArtifact DEF ExecutorStep
<1>4. /\ m \in Run /\ m.active = l.active /\ m.attempt = l.attempt /\ m.n = l.n
      /\ m.repo = l.repo /\ m.leased = l.leased /\ m.ph = l.ph /\ m.error = l.error
  BY <1>2 DEF Run
<1> HIDE DEF m, l
<1>5. InArtifact(m) /\ (FinalPhase(m) <=> FinalPhase(l))
  BY <1>3, <1>4 DEF InArtifact, FinalPhase, Phases, ArtifactOf
<1>6. BehindPhase(l, txn[p], i)
  BY <1>2 DEF BehindPhase, AttemptsFit, TransactionFits, OutsideTransaction, LocalOK, FlagsOK
<1>7. BehindPhase(m, txn[p], i)
  BY <1>4, <1>5, <1>6 DEF BehindPhase
<1>8. Fits(AfterFinally(m), txn[p], i)
  BY <1>5, <1>7, AfterFinallyFits
<1> QED
  BY <1>1, <1>2, <1>8, AnswerMoves DEF JournalStep, l

\* A step that makes the run give up, with the committed journal as it was.
LEMMA GivingUpMoves ==
  ASSUME Sound, NEW p \in Proc, run[p].pc \notin {"idle", "close"},
         NEW pc \in {"conclude", "release", "close"},
         NEW l, l.pc = pc, Answer(p, l), db'.journal = db.journal
  PROVE  Moved(p)
BY AnswerMoves, GaveUpFits DEF GaveUp, JournalStep

\* Rollback, release of the lease, and a commit that is refused.
LEMMA EndingMoves ==
  ASSUME Sound, NEW p \in Proc, Rollback(p) \/ ReleaseLease(p) \/ CommitRefused(p)
  PROVE  Moved(p)
<1>1. run[p] \in Run /\ db \in Database /\ View(p) \in Database
  BY ViewType DEF Sound, TypeOK
<1>2. CASE Rollback(p)
  <2> DEFINE l == [run[p] EXCEPT !.active = FALSE, !.rolledBack = TRUE, !.pc = "conclude"]
  <2>1. l.pc = "conclude"
    BY <1>1 DEF Run
  <2>2. Answer(p, l) /\ db' = db /\ run[p].pc = "rollback"
    BY <1>2 DEF Rollback, At
  <2> HIDE DEF l
  <2> QED
    BY <2>1, <2>2, GivingUpMoves
<1>3. CASE ReleaseLease(p)
  <2> DEFINE l == [run[p] EXCEPT !.leased = FALSE, !.pc = "close"]
             d == [View(p) EXCEPT !.lease = IF @ = p THEN Null ELSE @]
  <2>1. l.pc = "close"
    BY <1>1 DEF Run
  <2>2. /\ Answer(p, l) /\ run[p].pc = "release"
        /\ Write(p, d) \/ UNCHANGED db
    BY <1>3 DEF ReleaseLease, At
  <2>3. d.journal = View(p).journal
    BY <1>1 DEF Database
  <2> HIDE DEF l, d
  <2>4. db'.journal = db.journal
    BY <2>2, <2>3 DEF Write, View
  <2> QED
    BY <2>1, <2>2, <2>4, GivingUpMoves
<1>4. CASE CommitRefused(p)
  BY <1>4, ThrowMoves DEF CommitRefused, At, JournalStep
<1> QED
  BY <1>2, <1>3, <1>4

\* The conclusion about a failed attempt; in a transaction the server has kept
\* open it is lost with it.
LEMMA ConcludeAttemptMoves ==
  ASSUME Sound, InStep, NEW p \in Proc, ConcludeAttempt(p)
  PROVE  Moved(p)
<1> DEFINE l == [run[p] EXCEPT !.pc = "release"]
           s == FailedState(run[p])
           k == run[p].attempt
<1>1. At(p, "conclude") /\ Transition(p, s, l)
  BY DEF ConcludeAttempt
<1>2. run[p] \in Run /\ run[p].pc = "conclude" /\ LocalOK(run[p]) /\ GaveUp(l)
  BY <1>1, AtFits DEF Critical, ExecutorStep, GaveUp, Run
<1>3. k \in AttemptId /\ s \in AttemptState
  BY <1>2 DEF LocalOK, AttemptOK, ExecutorStep, FailedState, AttemptState, Terminal,
              Unresolved
<1>4. JournalOf(p) \in Journal
  BY ViewType DEF Sound
<1> HIDE DEF l, s
<1>5. CASE txn[p] = NoTxn
  BY <1>1, <1>2, <1>3, <1>5, TransitionMoves, GaveUpFits
<1>6. CASE txn[p] # NoTxn /\ CanTransition(JournalOf(p), k, s)
  <2> DEFINE j == TransitionAttempt(JournalOf(p), k, s)
  <2>1. j \in Journal
    BY <1>3, <1>4, <1>6, TransitionAttemptType
  <2>2. WriteJournal(p, j) /\ Answer(p, l)
    BY <1>1, <1>6 DEF Transition
  <2> HIDE DEF j
  <2>3. db' = db
    BY <1>6, <2>1, <2>2, JournalWrite
  <2> QED
    BY <1>2, <2>2, <2>3, AnswerMoves, GaveUpFits DEF JournalStep
<1>7. CASE ~CanTransition(JournalOf(p), k, s)
  BY <1>1, <1>2, <1>7, RejectMoves DEF Transition
<1> QED
  BY <1>5, <1>6, <1>7

-----------------------------------------------------------------------------
(* The steps of a reconciliation. *)

\* What is known at the awaits of a reconciliation.
LEMMA ReconcileFits ==
  ASSUME Sound, InStep, NEW p \in Proc, NEW pc \in ReconcileStep, At(p, pc)
  PROVE  /\ run[p] \in Run /\ run[p].pc = pc /\ run[p].attempt \in AttemptId
         /\ db.journal \in Journal
         /\ txn[p] = NoTxn /\ JournalOf(p) = db.journal
         /\ pc # "verify" => OpenAttempts(db.journal) = {run[p].attempt}
<1>1. /\ run[p] \in Run /\ run[p].pc = pc /\ LocalOK(run[p]) /\ db.journal \in Journal
      /\ AttemptsFit(run[p], db.journal)
      /\ TransactionFits(run[p], txn[p], db.journal)
  BY AtFits DEF Critical
<1>2. run[p].attempt \in AttemptId
  BY <1>1 DEF LocalOK, AttemptOK
<1>3. txn[p] = NoTxn
  BY <1>1 DEF TransactionFits, OutsideTransaction
<1>4. pc # "verify" => OpenAttempts(db.journal) = {run[p].attempt}
  BY <1>1 DEF AttemptsFit, Attempting, ReconcileStep
<1> QED
  BY <1>1, <1>2, <1>3, <1>4 DEF JournalOf, View

\* An unresolved attempt is the open one.
LEMMA VerifyOutcomeMoves ==
  ASSUME Sound, InStep, NEW p \in Proc, VerifyOutcome(p)
  PROVE  Moved(p)
<1> DEFINE k == run[p].attempt
           s == StateOf(db.journal, k)
           l == [run[p] EXCEPT !.pc = IF s = "recovery_required" THEN "history" ELSE "require"]
<1>1. At(p, "verify")
  BY DEF VerifyOutcome
<1>2. /\ run[p] \in Run /\ run[p].pc = "verify" /\ k \in AttemptId
      /\ txn[p] = NoTxn /\ JournalOf(p) = db.journal
  BY <1>1, ReconcileFits DEF ReconcileStep
<1>3. l.pc \in {"history", "require"} /\ l.attempt = k
  BY <1>2 DEF Run
<1>4. CASE s \in Unresolved /\ Proceed(p, l)
  <2>1. k \in OpenAttempts(db.journal)
    BY <1>2, <1>4 DEF OpenAttempts
  <2>2. OpenAttempts(db.journal) = {k}
    BY <2>1 DEF InStep, AtMostOneOpenAttempt
  <2> HIDE DEF l
  <2>3. Fits(l, NoTxn, db.journal)
    BY <1>3, <2>2, OutsideFits DEF ReconcileStep
  <2> QED
    BY <1>2, <1>4, <2>3, ProceedMoves
<1>5. CASE Reject(p, "failed")
  BY <1>2, <1>5, RejectMoves
<1> QED
  BY <1>2, <1>4, <1>5 DEF VerifyOutcome

\* An attempt that is put to recovery is still open.
LEMMA RequireRecoveryMoves ==
  ASSUME Sound, InStep, NEW p \in Proc, RequireRecovery(p)
  PROVE  Moved(p)
<1> DEFINE k == run[p].attempt
           l == [run[p] EXCEPT !.pc = "history"]
           j == TransitionAttempt(db.journal, k, "recovery_required")
<1>1. At(p, "require") /\ Transition(p, "recovery_required", l)
  BY DEF RequireRecovery
<1>2. /\ run[p] \in Run /\ run[p].pc = "require" /\ k \in AttemptId
      /\ db.journal \in Journal
      /\ txn[p] = NoTxn /\ OpenAttempts(db.journal) = {k}
  BY <1>1, ReconcileFits DEF ReconcileStep
<1>3. l.pc = "history" /\ l.attempt = k
  BY <1>2 DEF Run
<1> HIDE DEF l
<1>4. ASSUME CanTransition(db.journal, k, "recovery_required")
      PROVE  Fits(l, NoTxn, j)
  <2>1. OpenAttempts(j) = {k}
    BY <1>2, <1>4, TransitionOpens DEF Terminal
  <2> HIDE DEF j
  <2> QED
    BY <1>3, <2>1, OutsideFits DEF ReconcileStep
<1> QED
  BY <1>1, <1>2, <1>4, TransitionMoves DEF AttemptState, Unresolved

\* The record a reconciliation adds is the open attempt's.
LEMMA ReconcileHistoryMoves ==
  ASSUME Sound, InStep, NEW p \in Proc, ReconcileHistory(p)
  PROVE  Moved(p)
<1> DEFINE i == db.journal
           k == run[p].attempt
           a == i.attempts[k].artifact
           e == i.attempts[k].expectedHead
           j == AppendAppliedAndAdvanceHead(i, a, k)
           l == [run[p] EXCEPT !.pc = "audit"]
<1>1. At(p, "history")
  BY DEF ReconcileHistory
<1>2. /\ run[p] \in Run /\ run[p].pc = "history" /\ k \in AttemptId
      /\ i \in Journal /\ txn[p] = NoTxn /\ JournalOf(p) = i
      /\ OpenAttempts(i) = {k}
  BY <1>1, ReconcileFits DEF ReconcileStep
<1>3. l.pc = "audit" /\ l.attempt = k
  BY <1>2 DEF Run
<1>4. \/ CanAppend(i, a, k, e) /\ WriteJournal(p, j) /\ Answer(p, l)
      \/ Proceed(p, l)
      \/ Reject(p, "failed")
  BY <1>2 DEF ReconcileHistory
<1> HIDE DEF l
<1>5. CASE CanAppend(i, a, k, e) /\ WriteJournal(p, j) /\ Answer(p, l)
  <2>1. a \in Artifact
    BY <1>2, OpenAttemptArtifact
  <2>2. e \in Digest
    <3>1. i.attempts[k] \in Attempt
      BY <1>2 DEF Journal
    <3> QED
      BY <3>1 DEF Attempt, NoAttempt, Digest
  <2>3. k \in OpenAttempts(i)
    BY <1>2
  <2>4. j \in Journal /\ OpenAttempts(j) = {k}
    <3>1. j \in Journal
      BY <1>2, <2>1, AppendType
    <3>2. OpenAttempts(j) = OpenAttempts(i)
      BY <1>2, SameAttempts
    <3> QED
      BY <1>2, <3>1, <3>2
  <2>5. JournalStep(i, j)
    BY <1>5, <2>1, <2>2, <2>3 DEF JournalStep
  <2> HIDE DEF j
  <2>6. db'.journal = j /\ txn'[p] = NoTxn
    BY <1>2, <1>5, <2>4, JournalWrite
  <2>7. Fits(l, NoTxn, j)
    BY <1>3, <2>4, OutsideFits DEF ReconcileStep
  <2> QED
    BY <1>2, <1>5, <2>5, <2>6, <2>7, AnswerMoves
<1>6. CASE Proceed(p, l)
  <2>1. Fits(l, NoTxn, i)
    BY <1>2, <1>3, OutsideFits DEF ReconcileStep
  <2> QED
    BY <1>2, <1>6, <2>1, ProceedMoves
<1>7. CASE Reject(p, "failed")
  BY <1>2, <1>7, RejectMoves
<1> QED
  BY <1>4, <1>5, <1>6, <1>7

\* The audit record touches no attempt.
LEMMA RecordOutcomeMoves ==
  ASSUME Sound, InStep, NEW p \in Proc, RecordOutcome(p)
  PROVE  Moved(p)
<1> DEFINE i == db.journal
           k == run[p].attempt
           j == RecordReconciliation(i, k, run[p].outcome)
           l == [run[p] EXCEPT !.pc = "resolve"]
<1>1. At(p, "audit")
  BY DEF RecordOutcome
<1>2. /\ run[p] \in Run /\ run[p].pc = "audit" /\ k \in AttemptId
      /\ i \in Journal /\ txn[p] = NoTxn /\ JournalOf(p) = i
      /\ OpenAttempts(i) = {k}
  BY <1>1, ReconcileFits DEF ReconcileStep
<1>3. l.pc = "resolve" /\ l.attempt = k
  BY <1>2 DEF Run
<1>4. \/ i.reconciled[k] = "none" /\ WriteJournal(p, j) /\ Answer(p, l)
      \/ Proceed(p, l)
      \/ Reject(p, "failed")
  BY <1>2 DEF RecordOutcome
<1>5. j \in Journal /\ OpenAttempts(j) = {k}
  <2>1. run[p].outcome \in Terminal \cup {"none"}
    BY <1>2 DEF Run
  <2> QED
    BY <1>2, <2>1, RecordReconciliationType, SameAttempts
<1> HIDE DEF l
<1>6. CASE i.reconciled[k] = "none" /\ WriteJournal(p, j) /\ Answer(p, l)
  <2>1. JournalStep(i, j)
    BY <1>2, <1>6 DEF JournalStep, Run
  <2> HIDE DEF j
  <2>2. db'.journal = j /\ txn'[p] = NoTxn
    BY <1>2, <1>5, <1>6, JournalWrite
  <2>3. Fits(l, NoTxn, j)
    BY <1>3, <1>5, OutsideFits DEF ReconcileStep
  <2> QED
    BY <1>2, <1>6, <2>1, <2>2, <2>3, AnswerMoves
<1>7. CASE Proceed(p, l)
  <2>1. Fits(l, NoTxn, i)
    BY <1>2, <1>3, OutsideFits DEF ReconcileStep
  <2> QED
    BY <1>2, <1>7, <2>1, ProceedMoves
<1>8. CASE Reject(p, "failed")
  BY <1>2, <1>8, RejectMoves
<1> QED
  BY <1>4, <1>6, <1>7, <1>8

\* The outcome settles the attempt.
LEMMA ResolveAttemptMoves ==
  ASSUME Sound, InStep, NEW p \in Proc, ResolveAttempt(p)
  PROVE  Moved(p)
<1> DEFINE s == run[p].outcome
           l == [run[p] EXCEPT !.pc = "release"]
<1>1. At(p, "resolve") /\ Transition(p, s, l)
  BY DEF ResolveAttempt
<1>2. /\ run[p] \in Run /\ run[p].pc = "resolve" /\ run[p].attempt \in AttemptId
      /\ db.journal \in Journal /\ txn[p] = NoTxn /\ JournalOf(p) = db.journal
  BY <1>1, ReconcileFits DEF ReconcileStep
<1>3. GaveUp(l)
  BY <1>2 DEF GaveUp, Run
<1> HIDE DEF l
<1>4. CASE s \in AttemptState
  BY <1>1, <1>2, <1>3, <1>4, TransitionMoves, GaveUpFits
<1>5. CASE s \notin AttemptState
  <2>1. ~CanTransition(db.journal, run[p].attempt, s)
    BY <1>2, <1>5, TransitionOpens DEF AttemptState
  <2> QED
    BY <1>1, <1>2, <2>1, RejectMoves DEF Transition
<1> QED
  BY <1>4, <1>5

-----------------------------------------------------------------------------
(* Every step keeps the invariant and makes a journal step. *)

\* The invariant and the committed journal from one state to the next.
Kept == InStep' /\ JournalStep(db.journal, db'.journal)

\* A step under the lease concerns its own run alone: no other is under it.
LEMMA MovedKept ==
  ASSUME Sound, LeaseExcludes, InStep, NEW p \in Proc, UnderLease(p), Others(p),
         online' = online, Moved(p)
  PROVE  Kept
<1>1. db.journal \in Journal /\ JournalStep(db.journal, db'.journal)
  BY DEF Moved, Sound, TypeOK, Database
<1>2. AtMostOneOpen(db'.journal)
  BY <1>1, StepOpens DEF InStep, AtMostOneOpenAttempt, AtMostOneOpen
<1>3. AtMostOneOpenAttempt'
  BY <1>2 DEF AtMostOneOpenAttempt, AtMostOneOpen
<1>4. ASSUME NEW q \in Proc, UnderLease(q)'
      PROVE  q = p
  <2> SUFFICES ASSUME q # p PROVE FALSE
    OBVIOUS
  <2>1. UnderLease(q)
    BY <1>4 DEF UnderLease, Others
  <2> QED
    BY <2>1 DEF LeaseExcludes
<1>5. \A q \in Proc : UnderLease(q)' => Fits(run'[q], txn'[q], db'.journal)
  BY <1>4 DEF Moved
<1> QED
  BY <1>1, <1>3, <1>5 DEF Kept, InStep

\* A step from outside the lease leaves journal and other runs as they are.
LEMMA OutsideKept ==
  ASSUME Sound, InStep, NEW p \in Proc, Others(p),
         \A q \in Proc \ {p} : txn'[q] = txn[q] /\ (q \in online' => q \in online),
         db'.journal = db.journal,
         UnderLease(p)' => Fits(run'[p], txn'[p], db'.journal)
  PROVE  Kept
<1>1. AtMostOneOpenAttempt'
  BY DEF InStep, AtMostOneOpenAttempt
<1>2. ASSUME NEW q \in Proc \ {p}, UnderLease(q)'
      PROVE  Fits(run'[q], txn'[q], db'.journal)
  <2>1. UnderLease(q) /\ run'[q] = run[q] /\ txn'[q] = txn[q]
    BY <1>2 DEF UnderLease, Others
  <2> QED
    BY <2>1 DEF InStep
<1>3. \A q \in Proc : UnderLease(q)' => Fits(run'[q], txn'[q], db'.journal)
  BY <1>2
<1> QED
  BY <1>1, <1>3 DEF Kept, InStep, JournalStep

\* A step of the code under the lease.
LEMMA StepsMove ==
  ASSUME Sound, InStep, NEW p \in Proc,
         WorkingStep(p) \/ BeginTransaction(p) \/ Commit(p) \/ CommitRefused(p)
         \/ Rollback(p) \/ ReleaseLease(p)
  PROVE  Moved(p)
BY ReadJournalMoves, SelectArtifactMoves, CreateAttemptMoves, MarkRunningMoves,
   AcquireDdlLockMoves, CheckPreconditionsMoves, ExecuteStatementMoves,
   CheckpointStatementMoves, CheckPostconditionsMoves, RecordAppliedMoves,
   MarkAppliedMoves, ReleaseDdlLockMoves, ConcludeAttemptMoves, VerifyOutcomeMoves,
   RequireRecoveryMoves, ReconcileHistoryMoves, RecordOutcomeMoves, ResolveAttemptMoves,
   BeginTransactionMoves, CommitMoves, EndingMoves
   DEF WorkingStep

\* So it keeps the invariant.
LEMMA StepsKept ==
  ASSUME Sound, LeaseExcludes, InStep, NEW p \in Proc,
         WorkingStep(p) \/ BeginTransaction(p) \/ Commit(p) \/ CommitRefused(p)
         \/ Rollback(p) \/ ReleaseLease(p)
  PROVE  Kept
<1>1. Moved(p)
  BY StepsMove
<1>2. UnderLease(p) /\ Others(p) /\ online' = online
  <2>1. CASE WorkingStep(p)
    BY <2>1, StepsWork DEF Working, UnderLease
  <2>2. CASE BeginTransaction(p) \/ CommitRefused(p)
    BY <2>2 DEF BeginTransaction, CommitRefused, At, UnderLease, Critical, ExecutorStep,
                Others, Sound, TypeOK
  <2>3. CASE Commit(p) \/ Rollback(p) \/ ReleaseLease(p)
    BY <2>3, AnswerOthers
       DEF Commit, Rollback, ReleaseLease, At, UnderLease, Critical, ExecutorStep
  <2> QED
    BY <2>1, <2>2, <2>3
<1> QED
  BY <1>1, <1>2, MovedKept

\* A run that gets the lease has yet to look at the journal.
LEMMA AcquireLeaseKept ==
  ASSUME Sound, InStep, NEW p \in Proc, AcquireLease(p)
  PROVE  Kept
<1> DEFINE l == [run[p] EXCEPT
             !.leased = TRUE,
             !.pc = IF run[p].role = "apply" THEN "read" ELSE "verify"]
<1>1. /\ At(p, "lease") /\ Answer(p, l) /\ UNCHANGED <<txn, online>>
      /\ UNCHANGED db \/ db' = [db EXCEPT !.lease = p]
  BY DEF AcquireLease
<1>2. run[p] \in Run /\ run[p].pc = "lease" /\ db \in Database /\ Others(p)
  BY <1>1, AtSound, AnswerOthers DEF Sound, TypeOK
<1>3. db'.journal = db.journal
  BY <1>1, <1>2 DEF Database
<1>4. txn'[p] = NoTxn
  BY <1>1, <1>2 DEF Sound, TransactionOK, Critical, ExecutorStep, ReconcileStep
<1>5. l.pc \in {"read", "verify"}
  BY <1>2 DEF Run
<1> HIDE DEF l
<1>6. Fits(l, NoTxn, db'.journal)
  BY <1>5, OutsideFits DEF ReconcileStep, Attempting, InPhase
<1>7. Moved(p)
  BY <1>1, <1>2, <1>3, <1>4, <1>6, AnswerMoves DEF JournalStep
<1> QED
  BY <1>1, <1>2, <1>3, <1>7, OutsideKept DEF Moved

\* A run that fails gives up; any other is still away from the lease.
LEMMA RunOnlyKept ==
  ASSUME Sound, InStep, NEW p \in Proc,
         StartApply(p) \/ StartReconcile(p) \/ Fail(p) \/ CallDisconnected(p)
  PROVE  Kept
<1>1. /\ UNCHANGED <<db, txn>> /\ Others(p)
      /\ \A q \in Proc \ {p} : q \in online' => q \in online
  BY DEF StartApply, StartReconcile, Fail, CallDisconnected, Others, Sound, TypeOK
<1>2. UnderLease(p)' => Fits(run'[p], txn'[p], db'.journal)
  <2>1. CASE Fail(p)
    <3>1. PICK e \in ErrorKinds(run[p]) : run' = [run EXCEPT ![p] = Throw(run[p], e)]
      BY <2>1 DEF Fail
    <3>2. e \in {"failed", "uncertain"}
      BY DEF ErrorKinds
    <3>3. run[p].pc # "idle" /\ run[p] \in Run
      BY <2>1 DEF Fail, Sound, TypeOK
    <3>4. CASE run[p].pc = "close"
      <4>1. run'[p].pc = "idle"
        BY <3>1, <3>3, <3>4, ThrowClosing DEF Idle, Sound, TypeOK
      <4> QED
        BY <4>1 DEF UnderLease, Critical, ExecutorStep, ReconcileStep
    <3>5. CASE run[p].pc # "close"
      BY <1>1, <3>1, <3>2, <3>3, <3>5, ThrowMoves DEF Moved, JournalStep
    <3> QED
      BY <3>4, <3>5
  <2>2. CASE CallDisconnected(p)
    BY <2>2 DEF CallDisconnected, UnderLease
  <2>3. CASE StartApply(p)
    <3> DEFINE opened(repo) == [Idle EXCEPT !.role = "apply", !.repo = repo]
    <3>1. \E repo \in Repositories :
            \/ run' = [run EXCEPT ![p] = [opened(repo) EXCEPT !.pc = "lease"]]
            \/ run' = [run EXCEPT ![p] =
                 [opened(repo) EXCEPT !.pc = "close", !.error = "failed"]]
            \/ run' = [run EXCEPT ![p] = [Idle EXCEPT !.result = "failed"]]
      BY <2>3 DEF StartApply
    <3>2. \A repo : /\ [opened(repo) EXCEPT !.pc = "lease"].pc = "lease"
                    /\ [opened(repo) EXCEPT !.pc = "close", !.error = "failed"].pc = "close"
      BY DEF Idle
    <3>3. [Idle EXCEPT !.result = "failed"].pc = "idle"
      BY DEF Idle
    <3> HIDE DEF opened
    <3>4. run'[p].pc \in {"lease", "close", "idle"}
      BY <3>1, <3>2, <3>3 DEF Sound, TypeOK
    <3> QED
      BY <3>4 DEF UnderLease, Critical, ExecutorStep, ReconcileStep
  <2>4. CASE StartReconcile(p)
    <3>1. PICK repo \in Repositories, k \in AttemptId, outcome \in Terminal :
            run' = [run EXCEPT ![p] =
              [Idle EXCEPT !.pc = "lease", !.role = "reconcile", !.repo = repo,
                           !.attempt = k, !.outcome = outcome]]
      BY <2>4 DEF StartReconcile
    <3>2. run'[p].pc = "lease"
      BY <3>1 DEF Idle, Sound, TypeOK
    <3> QED
      BY <3>2 DEF UnderLease, Critical, ExecutorStep, ReconcileStep
  <2> QED
    BY <2>1, <2>2, <2>3, <2>4
<1> QED
  BY <1>1, <1>2, OutsideKept

\* A run whose session ends is away from the lease.
LEMMA EndingAway ==
  ASSUME Sound, NEW p \in Proc,
         CloseSession(p) \/ Crash(p) \/ LoseConnection(p) \/ EndClient(p)
  PROVE  EndingStep(p) /\ Others(p) /\ ~UnderLease(p)'
<1>1. EndingStep(p) /\ Others(p)
  BY EndingSteps
     DEF CloseSession, Closed, Crash, LoseConnection, EndClient, Others, Sound, TypeOK
<1>2. p \notin online' \/ run'[p].pc = "idle"
  BY DEF CloseSession, Closed, Idle, Crash, LoseConnection, EndClient, EndSession,
         Sound, TypeOK
<1> QED
  BY <1>1, <1>2 DEF UnderLease, Critical, ExecutorStep, ReconcileStep

\* The end of a session takes its transaction with it and nothing else.
LEMMA EndingKept ==
  ASSUME Sound, InStep, NEW p \in Proc,
         CloseSession(p) \/ Crash(p) \/ LoseConnection(p) \/ EndClient(p)
  PROVE  Kept
<1>1. EndingStep(p) /\ Others(p) /\ ~UnderLease(p)'
  BY EndingAway
<1>2. db'.journal = db.journal
  BY DEF CloseSession, Crash, LoseConnection, EndClient, Sound, TypeOK, Database
<1>3. \A q \in Proc \ {p} : txn'[q] = txn[q] /\ (q \in online' => q \in online)
  BY <1>1 DEF EndingStep, Sound, TypeOK
<1> QED
  BY <1>1, <1>2, <1>3, OutsideKept

\* The operator touches schema and lease row only.
LEMMA OperatorKept ==
  ASSUME Sound, InStep, Repair \/ ClearLeaseRow
  PROVE  Kept
<1>1. db'.journal = db.journal /\ UNCHANGED <<txn, online, run>>
  BY DEF Repair, ClearLeaseRow, Sound, TypeOK, Database
<1> QED
  BY <1>1 DEF Kept, JournalStep, InStep, AtMostOneOpenAttempt, UnderLease

\* Every step keeps the invariant and moves the journal by one operation.
LEMMA NextKept ==
  ASSUME Sound, LeaseExcludes, InStep, [Next]_vars
  PROVE  Kept
<1>1. ASSUME NEW p \in Proc, Continue(p)
      PROVE  Kept
  <2>1. \/ WorkingStep(p) \/ AcquireLease(p) \/ ReleaseLease(p) \/ CloseSession(p)
        \/ BeginTransaction(p) \/ Commit(p) \/ Rollback(p) \/ CallDisconnected(p)
    BY <1>1 DEF Continue, WorkingStep
  <2> QED
    BY <2>1, StepsKept, AcquireLeaseKept, RunOnlyKept, EndingKept
<1>2. ASSUME NEW p \in Proc,
             \/ StartApply(p) \/ StartReconcile(p) \/ CommitRefused(p) \/ Fail(p)
             \/ LoseConnection(p) \/ Crash(p) \/ EndClient(p)
      PROVE  Kept
  BY <1>2, StepsKept, RunOnlyKept, EndingKept
<1>3. CASE UNCHANGED vars
  BY <1>3 DEF vars, Kept, JournalStep, InStep, AtMostOneOpenAttempt, UnderLease
<1> QED
  BY <1>1, <1>2, <1>3, OperatorKept DEF Next

-----------------------------------------------------------------------------
(* The theorems. *)

\* InStep: what a run under the lease has read of the journal, and what it has
\* done in its transaction, is current at each of its later awaits, in every
\* reachable state of every instance.
THEOREM InStepAlways == Spec => []InStep
<1>1. Init => InStep
  BY DEF Init, InStep, AtMostOneOpenAttempt, UnderLease, OpenAttempts, StateOf,
         EmptyJournal, NoAttempt, Unresolved
<1>2. Sound /\ LeaseExcludes /\ InStep /\ [Next]_vars => InStep'
  BY NextKept DEF Kept
<1> QED
  BY <1>1, <1>2, SoundAlways, LeaseExclusion, PTL DEF Spec

\* AtMostOneOpenAttempt: however many processes run, crash, are cut off or
\* retry, the journal never has two attempts without an outcome.
THEOREM OneOpenAttempt == Spec => []AtMostOneOpenAttempt
<1>1. InStep => AtMostOneOpenAttempt
  BY DEF InStep
<1> QED
  BY <1>1, InStepAlways, PTL

\* HistoryIsImmutable: no step rewrites the history, a settled attempt or an
\* audit record.
THEOREM HistoryNeverRewritten == Spec => HistoryIsImmutable
<1>1. Sound /\ LeaseExcludes /\ InStep /\ [Next]_vars => [Immutable]_vars
  <2> SUFFICES ASSUME Sound, LeaseExcludes, InStep, [Next]_vars
               PROVE  Immutable
    OBVIOUS
  <2>1. db.journal \in Journal /\ JournalStep(db.journal, db'.journal)
    BY NextKept DEF Kept, Sound, TypeOK, Database
  <2>2. Preserves(db.journal, db'.journal)
    BY <2>1, StepPreserves
  <2> QED
    BY <2>2 DEF Preserves, Immutable
<1> QED
  BY <1>1, SoundAlways, LeaseExclusion, InStepAlways, PTL DEF Spec, HistoryIsImmutable

\* The empty journal is the empty ledger.
LEMMA InitLedger ==
  ASSUME Init
  PROVE  Ledger!Init
<1>1. db.journal = EmptyJournal
  BY DEF Init
<1>2. OpenAttempts(db.journal) = {}
  BY <1>1 DEF OpenAttempts, StateOf, EmptyJournal, NoAttempt, Unresolved
<1>3. [n \in 1..Len(db.journal.applied) |-> db.journal.applied[n].artifact] = << >>
  BY <1>1 DEF EmptyJournal
<1> QED
  BY <1>2, <1>3 DEF Ledger!Init

\* A step that makes one journal operation is a step of the ledger or none.
LEMMA KeptIsLedgerStep ==
  ASSUME Sound, LinearLedger, InStep, Kept
  PROVE  \/ Ledger!Next
         \/ /\ HistoryOf(db'.journal) = HistoryOf(db.journal)
            /\ OpenAttempts(db'.journal) = OpenAttempts(db.journal)
<1> DEFINE i == db.journal
           j == db'.journal
<1>1. i \in Journal /\ Chained(i) /\ AtMostOneOpen(i) /\ JournalStep(i, j)
  BY DEF Kept, Sound, TypeOK, Database, LinearLedger, InStep,
         AtMostOneOpenAttempt, AtMostOneOpen
<1>2. LedgerMove(i, j)
  BY <1>1, StepMoves
<1>3. i.head = Ledger!Tip
  BY <1>1, HistoryEnds DEF Ledger!Tip, HistoryOf
<1>4. CASE HistoryOf(j) = HistoryOf(i) /\ OpenAttempts(i) = {}
           /\ \E k \in AttemptId : OpenAttempts(j) = {k}
  BY <1>4 DEF Ledger!Next, Ledger!Open, HistoryOf
<1>5. CASE HistoryOf(j) = HistoryOf(i) /\ OpenAttempts(i) # {} /\ OpenAttempts(j) = {}
  BY <1>5 DEF Ledger!Next, Ledger!Settle, HistoryOf
<1>6. CASE /\ \E a \in Artifact : Parent[a] = i.head /\ HistoryOf(j) = Append(HistoryOf(i), a)
           /\ OpenAttempts(i) # {}
           /\ OpenAttempts(j) \in {{}, OpenAttempts(i)}
  <2>1. PICK a \in Artifact : Parent[a] = i.head /\ HistoryOf(j) = Append(HistoryOf(i), a)
    BY <1>6
  <2>2. Ledger!Extend(a)
    BY <1>3, <2>1 DEF Ledger!Extend, HistoryOf
  <2>3. Ledger!Record(a) \/ Ledger!RecordAndSettle(a)
    BY <1>6, <2>2 DEF Ledger!Record, Ledger!RecordAndSettle
  <2> QED
    BY <2>3 DEF Ledger!Next
<1> QED
  BY <1>2, <1>4, <1>5, <1>6 DEF LedgerMove

\* LedgerSpec: the executor, its sessions and the reconciler implement the
\* ledger, with the artifacts of the history as ledger and the attempts without
\* an outcome as open.
THEOREM ImplementsLedger == Spec => LedgerSpec
<1>1. Init => Ledger!Init
  BY InitLedger
<1>2. /\ Sound /\ LeaseExcludes /\ LinearLedger /\ InStep /\ [Next]_vars
      => [Ledger!Next]_<<[n \in 1..Len(db.journal.applied) |-> db.journal.applied[n].artifact],
                         OpenAttempts(db.journal)>>
  <2> SUFFICES ASSUME Sound, LeaseExcludes, LinearLedger, InStep, [Next]_vars
               PROVE  \/ Ledger!Next
                      \/ /\ HistoryOf(db'.journal) = HistoryOf(db.journal)
                         /\ OpenAttempts(db'.journal) = OpenAttempts(db.journal)
    BY DEF HistoryOf
  <2> QED
    BY NextKept, KeptIsLedgerStep
<1> QED
  BY <1>1, <1>2, SoundAlways, LeaseExclusion, LedgerIsLinear, InStepAlways, PTL
     DEF Spec, LedgerSpec, Ledger!Spec
=============================================================================
