----------------------- MODULE MigrationHistoryProofs -----------------------
(***************************************************************************)
(* What the journal says of an attempt is what became of it, for every     *)
(* instance: an applied attempt has its record (AppliedIsRecorded), a run  *)
(* that reports success leaves its repository applied (SuccessIsApplied),  *)
(* an attempt starts on the journal and the schema its artifact was        *)
(* planned for (StartsFromKnownState), and, where the lease is a row, no   *)
(* commit overwrites another's (NoLostUpdate).                             *)
(*                                                                         *)
(* The invariant is Recording: InStep says that what a run has read of the *)
(* journal is current, Recording what it has read.                         *)
(*                                                                         *)
(* The second half is about the schema: an applied attempt has every effect *)
(* of its artifact there (AppliedIsComplete), and a checkpoint becomes     *)
(* visible only with the effect of its statement (CheckpointIsEvidence).   *)
(* Its invariant is Completeness: what is behind the await of a run is in  *)
(* the schema its session sees.                                            *)
(***************************************************************************)
EXTENDS MigrationLedgerProofs

-----------------------------------------------------------------------------
(* The invariant. *)

\* The local variables that outlive an artifact, and the error of a catch.
ProgressOK(l) ==
  /\ l.pc = "idle" => l.role = "none"
  /\ l.pc # "idle" =>
       l.role # "none" /\ l.result = "none" /\ VerifyArtifactChain(l.repo)
  /\ l.pc \in ReconcileStep => l.role = "reconcile"
  /\ l.pc \in {"rollback", "conclude"} => l.error # "none"

InProgress == \A p \in Proc : ProgressOK(run[p])

\* An open attempt's artifact has no record but the attempt's own.
OpenUnrecorded(j) ==
  \A k \in OpenAttempts(j), n \in 1..Len(j.applied) :
    j.applied[n].artifact = j.attempts[k].artifact => j.applied[n].attempt = k

RecordsOK(j) == AppliedAttemptsRecorded(j) /\ OpenUnrecorded(j)

\* Every record is of the artifact of its attempt, and that attempt is
\* applied, unless it is one of those.
RecordsMatch(j, those) ==
  \A n \in 1..Len(j.applied) :
    /\ j.attempts[j.applied[n].attempt].artifact = j.applied[n].artifact
    /\ j.applied[n].attempt \notin those => StateOf(j, j.applied[n].attempt) = "applied"

\* The history is the first m artifacts of the repository.
HistoryIs(repo, j, m) == IsJournalPrefix(repo, j) /\ Len(j.applied) = m

\* The awaits of executeArtifact behind the recovery gate and before a catch.
Placing(l) ==
  \/ l.pc \in {"select", "create", "start", "lock", "begin"} \cup InPhase
  \/ l.pc = "unlock" /\ l.error = "none"

\* Those of them behind recordApplied.
HasRecord(l) ==
  \/ l.pc = "applied"
  \/ l.pc \in {"commit", "unlock"} /\ FinalPhase(l)

\* The awaits at which only the outcome is missing from the journal.
Settling(l) ==
  \/ l.pc = "applied"
  \/ l.pc \in {"audit", "resolve"} /\ l.outcome = "applied"

Unsettled(l) == IF l.pc = "applied" THEN {l.attempt} ELSE {}

\* What a run under the lease knows of the database d its session sees.
Grounded(l, d) ==
  /\ Placing(l) =>
       /\ HistoryIs(l.repo, d.journal, IF HasRecord(l) THEN l.n ELSE l.n - 1)
       /\ RecordsMatch(d.journal, Unsettled(l))
       /\ l.pc \notin {"select", "create"} =>
            d.journal.attempts[l.attempt].artifact = ArtifactOf(l)
  /\ l.pc \in {"select", "create"} => l.head = d.journal.head
  /\ l.pc = "create" => d.schema = Before(l.repo, l.n)
  /\ Settling(l) => l.attempt \in RecordedBy(d.journal)

\* A run on its way out without an error has nothing left to apply.
Done(l, j) ==
  l.pc \in {"release", "close"} /\ l.role = "apply" /\ l.error = "none" =>
    /\ Len(l.repo) <= Len(j.applied)
    /\ \A n \in 1..Len(l.repo) : j.applied[n].artifact = l.repo[n]

Recording ==
  /\ RecordsOK(db.journal)
  /\ \A p \in Proc : UnderLease(p) => Grounded(run[p], View(p))
  /\ \A p \in Proc : Done(run[p], db.journal)

-----------------------------------------------------------------------------
(* What the operations of the journal do to attempts and records. *)

\* createAttempt adds an attempt and nothing else.
LEMMA CreateChanges ==
  ASSUME NEW j \in Journal, NEW k \in AttemptId, NEW a, NEW e
  PROVE  LET i == CreateAttempt(j, k, a, e)
         IN  /\ i.head = j.head /\ i.applied = j.applied
             /\ i.attempts[k].artifact = a /\ i.attempts[k].expectedHead = e
             /\ StateOf(i, k) = "started"
             /\ \A n \in AttemptId \ {k} : i.attempts[n] = j.attempts[n]
<1> DEFINE i == CreateAttempt(j, k, a, e)
<1>1. /\ i.attempts = [j.attempts EXCEPT
           ![k] = [artifact |-> a, expectedHead |-> e, state |-> "started"]]
      /\ i.head = j.head /\ i.applied = j.applied
  BY DEF CreateAttempt, Journal
<1>2. j.attempts \in [AttemptId -> Attempt]
  BY DEF Journal
<1> HIDE DEF i
<1>3. i.attempts[k] = [artifact |-> a, expectedHead |-> e, state |-> "started"]
      /\ \A n \in AttemptId \ {k} : i.attempts[n] = j.attempts[n]
  BY <1>1, <1>2
<1> QED
  BY <1>1, <1>3 DEF StateOf, i

\* transitionAttempt changes the state of an attempt and nothing else.
LEMMA TransitionChanges ==
  ASSUME NEW j \in Journal, NEW k \in AttemptId, NEW s, CanTransition(j, k, s)
  PROVE  LET i == TransitionAttempt(j, k, s)
         IN  /\ i.head = j.head /\ i.applied = j.applied
             /\ i.attempts[k].artifact = j.attempts[k].artifact
             /\ StateOf(i, k) = s /\ StateOf(j, k) \in Unresolved
             /\ \A n \in AttemptId \ {k} : i.attempts[n] = j.attempts[n]
<1> DEFINE i == TransitionAttempt(j, k, s)
<1>1. j.attempts \in [AttemptId -> Attempt] /\ j.attempts[k] \in Attempt
  BY DEF Journal
<1>2. /\ i.attempts = [j.attempts EXCEPT ![k] = [@ EXCEPT !.state = s]]
      /\ i.head = j.head /\ i.applied = j.applied
  BY <1>1 DEF TransitionAttempt, Journal
<1>3. /\ [j.attempts[k] EXCEPT !.state = s].state = s
      /\ [j.attempts[k] EXCEPT !.state = s].artifact = j.attempts[k].artifact
  BY <1>1 DEF Attempt, NoAttempt
<1> HIDE DEF i
<1>4. /\ i.attempts[k] = [j.attempts[k] EXCEPT !.state = s]
      /\ \A n \in AttemptId \ {k} : i.attempts[n] = j.attempts[n]
  BY <1>1, <1>2
<1>5. StateOf(j, k) \in Unresolved
  BY TransitionOpens DEF OpenAttempts
<1> QED
  BY <1>2, <1>3, <1>4, <1>5 DEF StateOf, i

\* appendAppliedAndAdvanceHead adds a record at the end and moves the head.
LEMMA AppendChanges ==
  ASSUME NEW j \in Journal, NEW a \in Artifact, NEW k \in AttemptId
  PROVE  LET i == AppendAppliedAndAdvanceHead(j, a, k)
         IN  /\ i.head = a /\ i.attempts = j.attempts
             /\ Len(j.applied) \in Nat /\ Len(i.applied) = Len(j.applied) + 1
             /\ \A n \in 1..Len(j.applied) : i.applied[n] = j.applied[n]
             /\ i.applied[Len(j.applied) + 1].artifact = a
             /\ i.applied[Len(j.applied) + 1].attempt = k
<1> DEFINE i == AppendAppliedAndAdvanceHead(j, a, k)
           r == [artifact |-> a, attempt |-> k]
<1>1. i.applied = Append(j.applied, r) /\ i.head = a /\ i.attempts = j.attempts
  BY DEF AppendAppliedAndAdvanceHead, Journal
<1>2. j.applied \in Seq(AppliedRecord)
  BY DEF Journal
<1>3. r.artifact = a /\ r.attempt = k
  OBVIOUS
<1> HIDE DEF i, r
<1>4. /\ Len(j.applied) \in Nat /\ Len(i.applied) = Len(j.applied) + 1
      /\ \A n \in 1..Len(j.applied) : i.applied[n] = j.applied[n]
      /\ i.applied[Len(j.applied) + 1] = r
  BY <1>1, <1>2
<1> QED
  BY <1>1, <1>3, <1>4 DEF i

\* The columns of a record.
LEMMA RecordType ==
  ASSUME NEW j \in Journal, NEW n \in 1..Len(j.applied)
  PROVE  j.applied[n].artifact \in Artifact /\ j.applied[n].attempt \in AttemptId
<1>1. j.applied \in Seq(AppliedRecord)
  BY DEF Journal
<1>2. j.applied[n] \in AppliedRecord
  BY <1>1
<1> QED
  BY <1>2 DEF AppliedRecord

\* A journal operation that leaves attempts and history alone keeps its records
\* in order.
LEMMA SameRecords ==
  ASSUME NEW i, NEW j, i.attempts = j.attempts, i.applied = j.applied
  PROVE  /\ RecordsOK(i) <=> RecordsOK(j)
         /\ RecordedBy(i) = RecordedBy(j)
         /\ \A those : RecordsMatch(i, those) <=> RecordsMatch(j, those)
         /\ \A repo, m : HistoryIs(repo, i, m) <=> HistoryIs(repo, j, m)
<1>1. OpenAttempts(i) = OpenAttempts(j) /\ RecordedBy(i) = RecordedBy(j)
      /\ \A k : StateOf(i, k) = StateOf(j, k)
  BY DEF OpenAttempts, RecordedBy, StateOf
<1>2. RecordsOK(i) <=> RecordsOK(j)
  BY <1>1 DEF RecordsOK, AppliedAttemptsRecorded, OpenUnrecorded
<1>3. \A those : RecordsMatch(i, those) <=> RecordsMatch(j, those)
  BY <1>1 DEF RecordsMatch
<1>4. \A repo, m : HistoryIs(repo, i, m) <=> HistoryIs(repo, j, m)
  BY DEF HistoryIs, IsJournalPrefix
<1> QED
  BY <1>1, <1>2, <1>3, <1>4

\* A new attempt at an artifact without a record keeps the records in order.
LEMMA CreateRecords ==
  ASSUME NEW j \in Journal, NEW k \in AttemptId, NEW a, NEW e,
         CanCreate(j, k), a \notin Recorded(j), RecordsOK(j)
  PROVE  RecordsOK(CreateAttempt(j, k, a, e))
<1> DEFINE i == CreateAttempt(j, k, a, e)
<1>1. /\ i.applied = j.applied /\ i.attempts[k].artifact = a /\ StateOf(i, k) = "started"
      /\ \A n \in AttemptId \ {k} : i.attempts[n] = j.attempts[n]
  BY CreateChanges
<1>2. OpenAttempts(i) = OpenAttempts(j) \cup {k}
  BY CreateOpens
<1> HIDE DEF i
<1>3. AppliedAttemptsRecorded(i)
  BY <1>1 DEF AppliedAttemptsRecorded, RecordsOK, StateOf, RecordedBy
<1>4. ASSUME NEW m \in OpenAttempts(i), NEW n \in 1..Len(i.applied),
             i.applied[n].artifact = i.attempts[m].artifact
      PROVE  i.applied[n].attempt = m
  <2>1. CASE m = k
    BY <1>1, <1>4, <2>1 DEF Recorded
  <2>2. CASE m # k
    <3>1. m \in OpenAttempts(j) /\ i.attempts[m] = j.attempts[m]
      BY <1>1, <1>2, <2>2 DEF OpenAttempts
    <3> QED
      BY <1>1, <1>4, <3>1 DEF RecordsOK, OpenUnrecorded
  <2> QED
    BY <2>1, <2>2
<1> QED
  BY <1>3, <1>4 DEF RecordsOK, OpenUnrecorded, i

\* A transition does, to applied only behind the record.
LEMMA TransitionRecords ==
  ASSUME NEW j \in Journal, NEW k \in AttemptId, NEW s, CanTransition(j, k, s),
         RecordsOK(j), s = "applied" => k \in RecordedBy(j)
  PROVE  RecordsOK(TransitionAttempt(j, k, s))
<1> DEFINE i == TransitionAttempt(j, k, s)
<1>1. /\ i.applied = j.applied /\ i.attempts[k].artifact = j.attempts[k].artifact
      /\ StateOf(i, k) = s
      /\ \A n \in AttemptId \ {k} : i.attempts[n] = j.attempts[n]
  BY TransitionChanges
<1>2. OpenAttempts(i) \subseteq OpenAttempts(j)
  BY TransitionOpens
<1> HIDE DEF i
<1>3. AppliedAttemptsRecorded(i)
  BY <1>1 DEF AppliedAttemptsRecorded, RecordsOK, StateOf, RecordedBy
<1>4. \A n \in AttemptId : i.attempts[n].artifact = j.attempts[n].artifact
  BY <1>1
<1>5. OpenUnrecorded(i)
  BY <1>1, <1>2, <1>4 DEF RecordsOK, OpenUnrecorded, OpenAttempts
<1> QED
  BY <1>3, <1>5 DEF RecordsOK, i

\* The record of the one open attempt does.
LEMMA AppendRecords ==
  ASSUME NEW j \in Journal, NEW k \in AttemptId, NEW a \in Artifact,
         OpenAttempts(j) = {k}, RecordsOK(j)
  PROVE  /\ RecordsOK(AppendAppliedAndAdvanceHead(j, a, k))
         /\ k \in RecordedBy(AppendAppliedAndAdvanceHead(j, a, k))
<1> DEFINE i == AppendAppliedAndAdvanceHead(j, a, k)
           m == Len(j.applied)
<1>1. /\ i.attempts = j.attempts /\ m \in Nat /\ Len(i.applied) = m + 1
      /\ \A n \in 1..m : i.applied[n] = j.applied[n]
      /\ i.applied[m + 1].attempt = k
  BY AppendChanges
<1>2. OpenAttempts(i) = {k} /\ \A n : StateOf(i, n) = StateOf(j, n)
  BY <1>1 DEF OpenAttempts, StateOf
<1> HIDE DEF i, m
<1>3. \A n \in 1..Len(i.applied) : n \in 1..m \/ n = m + 1
  BY <1>1
<1>4. k \in RecordedBy(i) /\ RecordedBy(j) \subseteq RecordedBy(i)
  BY <1>1 DEF RecordedBy, m
<1>5. AppliedAttemptsRecorded(i)
  BY <1>2, <1>4 DEF RecordsOK, AppliedAttemptsRecorded
<1>6. OpenUnrecorded(i)
  BY <1>1, <1>2, <1>3 DEF RecordsOK, OpenUnrecorded, m
<1> QED
  BY <1>4, <1>5, <1>6 DEF RecordsOK, i

-----------------------------------------------------------------------------
(* The local variables of a run. *)

\* m is l at another await of the same call.
Onward(l, m) ==
  /\ m.pc # "idle" /\ m.pc \notin ReconcileStep
  /\ m.role = l.role /\ m.repo = l.repo /\ m.result = "none"
  /\ m.pc \in {"rollback", "conclude"} => m.error # "none"

\* So it keeps what l had.
LEMMA OnwardOK ==
  ASSUME NEW l, ProgressOK(l), l.pc # "idle", NEW m, Onward(l, m)
  PROVE  ProgressOK(m)
BY DEF ProgressOK, Onward

\* A phase is entered, left and followed within a call.
LEMMA PhaseOnward ==
  ASSUME NEW l \in Run, l.result = "none"
  PROVE  Onward(l, EnterPhase(l)) /\ Onward(l, AfterFinally(l)) /\ Onward(l, Finally(l))
<1>1. ASSUME NEW m \in Run, m.result = "none"
      PROVE  Onward(m, EnterPhase(m))
  BY <1>1 DEF EnterPhase, Onward, Run, ReconcileStep
<1>2. Onward(l, AfterFinally(l))
  <2>1. CASE l.error # "none"
    BY <2>1 DEF AfterFinally, Catch, Onward, Run, ReconcileStep
  <2>2. CASE l.error = "none" /\ l.ph < Len(Phases(l))
    <3> DEFINE m == [l EXCEPT !.ph = @ + 1, !.st = 1]
    <3>1. m \in Run /\ m.result = "none" /\ m.role = l.role /\ m.repo = l.repo
      <4>1. l.ph + 1 \in Nat
        BY DEF Run
      <4> QED
        BY <4>1 DEF Run
    <3>2. AfterFinally(l) = EnterPhase(m)
      BY <2>2 DEF AfterFinally
    <3> HIDE DEF m
    <3> QED
      BY <1>1, <3>1, <3>2 DEF Onward
  <2>3. CASE l.error = "none" /\ ~(l.ph < Len(Phases(l)))
    <3>1. AfterFinally(l) = NextArtifact(l)
      BY <2>3 DEF AfterFinally
    <3>2. Onward(l, NextArtifact(l))
      BY DEF NextArtifact, Idle, Onward, ReconcileStep
    <3> QED
      BY <3>1, <3>2
  <2> QED
    BY <2>1, <2>2, <2>3
<1>3. Onward(l, Finally(l))
  BY <1>2 DEF Finally, Onward, Run, ReconcileStep
<1> QED
  BY <1>1, <1>2, <1>3

\* Where an exception leaves a run: past everything it took for granted, and
\* with the error it reports.
Quit(m) == GaveUp(m) /\ (m.pc \in {"release", "close", "rollback", "conclude"} => m.error # "none")

\* Every exception does.
LEMMA ThrowOnward ==
  ASSUME NEW l \in Run, ProgressOK(l), l.pc \notin {"idle", "close"},
         NEW e \in {"failed", "uncertain"}
  PROVE  Onward(l, Throw(l, e)) /\ Quit(Throw(l, e))
<1> DEFINE failed == [l EXCEPT !.error = e]
           m == Throw(l, e)
<1>1. /\ failed \in Run /\ failed.error # "none"
      /\ failed.role = l.role /\ failed.repo = l.repo /\ failed.result = "none"
  BY DEF Run, ProgressOK
<1>2. GaveUp(m)
  BY ThrowGivesUp
<1>3. ASSUME NEW k \in Run, k.error # "none", k.role = l.role, k.repo = l.repo,
             k.result = "none"
      PROVE  /\ Onward(l, AfterFinally(k)) /\ AfterFinally(k).error # "none"
             /\ Onward(l, Finally(k)) /\ Finally(k).error # "none"
  BY <1>3, PhaseOnward DEF Onward, AfterFinally, Finally, Catch, Run
<1> HIDE DEF failed
<1>4. CASE l.pc \in {"lease", "read", "select", "create", "start", "rollback"} \cup ReconcileStep
  <2>1. \E pc \in {"close", "release", "conclude"} : m = [failed EXCEPT !.pc = pc]
    BY <1>4 DEF Throw, failed, ReconcileStep
  <2>2. \A pc : /\ [failed EXCEPT !.pc = pc].pc = pc
                /\ [failed EXCEPT !.pc = pc].error = failed.error
                /\ [failed EXCEPT !.pc = pc].role = l.role
                /\ [failed EXCEPT !.pc = pc].repo = l.repo
                /\ [failed EXCEPT !.pc = pc].result = "none"
    BY <1>1 DEF Run
  <2> HIDE DEF m
  <2>3. m.error # "none" /\ Onward(l, m)
    BY <1>1, <2>1, <2>2 DEF Onward, ReconcileStep
  <2> QED
    BY <1>2, <2>3 DEF Quit, m
<1>5. CASE l.pc \in {"lock", "begin"}
  <2>1. m = Catch(failed)
    BY <1>5 DEF Throw, failed, ReconcileStep
  <2>2. Onward(l, Catch(failed)) /\ Catch(failed).error # "none"
    BY <1>1 DEF Onward, Catch, Run, ReconcileStep
  <2> QED
    BY <1>2, <2>1, <2>2 DEF Quit
<1>6. CASE l.pc \in {"check", "execute", "mark", "postcheck", "record", "applied"}
  <2>1. m = Finally(failed)
    BY <1>6 DEF Throw, failed, ReconcileStep
  <2> QED
    BY <1>1, <1>2, <1>3, <2>1 DEF Quit
<1>7. CASE l.pc = "commit"
  <2> DEFINE k == [failed EXCEPT !.active = FALSE]
  <2>1. m = Finally(k)
    BY <1>7 DEF Throw, failed, ReconcileStep
  <2>2. /\ k \in Run /\ k.error # "none" /\ k.role = l.role /\ k.repo = l.repo
        /\ k.result = "none"
    BY <1>1 DEF Run
  <2> HIDE DEF k
  <2> QED
    BY <1>2, <1>3, <2>1, <2>2 DEF Quit
<1>8. CASE l.pc = "unlock"
  <2>1. m = AfterFinally(failed)
    BY <1>8 DEF Throw, failed, ReconcileStep
  <2> QED
    BY <1>1, <1>2, <1>3, <2>1 DEF Quit
<1>9. CASE l.pc = "conclude"
  <2>1. m = [l EXCEPT !.pc = "release"]
    BY <1>9 DEF Throw, failed, ReconcileStep
  <2>2. l.error # "none" /\ l.result = "none"
    BY <1>9 DEF ProgressOK
  <2>3. Onward(l, m) /\ m.error # "none"
    BY <2>1, <2>2 DEF Onward, ReconcileStep, Run
  <2> QED
    BY <1>2, <2>3 DEF Quit
<1>10. CASE l.pc = "release"
  <2>1. m = [l EXCEPT !.pc = "close", !.error = IF @ = "none" THEN e ELSE @]
    BY <1>10 DEF Throw, failed, ReconcileStep
  <2>2. Onward(l, m) /\ m.error # "none"
    BY <1>1, <2>1 DEF Onward, ReconcileStep, Run, ProgressOK
  <2> QED
    BY <1>2, <2>2 DEF Quit
<1> QED
  BY <1>4, <1>5, <1>6, <1>7, <1>8, <1>9, <1>10 DEF Run, Step, ExecutorStep

\* Steps that concern the local variables of p, as far as these go; only close
\* reports a success.
Progresses(p) ==
  /\ Others(p) /\ ProgressOK(run'[p])
  /\ run'[p].result = "success" => CloseSession(p)

\* An exception does, and so does an answer, lost or not.
LEMMA ThrowProgresses ==
  ASSUME Sound, InProgress, NEW p \in Proc, run[p].pc \notin {"idle", "close"},
         NEW e \in {"failed", "uncertain"}, run' = [run EXCEPT ![p] = Throw(run[p], e)]
  PROVE  Progresses(p)
<1>1. run[p] \in Run /\ ProgressOK(run[p]) /\ run'[p] = Throw(run[p], e)
  BY DEF Sound, TypeOK, InProgress
<1>2. ProgressOK(run'[p]) /\ run'[p].result = "none"
  BY <1>1, ThrowOnward, OnwardOK DEF Onward
<1> QED
  BY <1>2 DEF Progresses, Others, Sound, TypeOK

LEMMA AnswerProgresses ==
  ASSUME Sound, InProgress, NEW p \in Proc, run[p].pc \notin {"idle", "close"},
         NEW l, ProgressOK(l), l.result = "none", Answer(p, l) \/ Proceed(p, l)
  PROVE  Progresses(p)
<1>1. CASE run' = [run EXCEPT ![p] = l]
  BY <1>1 DEF Progresses, Others, Sound, TypeOK
<1>2. CASE run' = [run EXCEPT ![p] = Throw(run[p], Unanswered(run[p]))]
  BY <1>2, ThrowProgresses DEF Unanswered
<1> QED
  BY <1>1, <1>2 DEF Answer, Proceed

LEMMA RejectProgresses ==
  ASSUME Sound, InProgress, NEW p \in Proc, run[p].pc \notin {"idle", "close"},
         Reject(p, "failed")
  PROVE  Progresses(p)
BY ThrowProgresses DEF Reject, Proceed

\* What a step of a run goes on with is the run at another await.
LEMMA StepProgresses ==
  ASSUME Sound, InProgress, NEW p \in Proc, run[p].pc \notin {"idle", "close"},
         NEW l, Onward(run[p], l), Answer(p, l) \/ Proceed(p, l)
  PROVE  Progresses(p)
BY OnwardOK, AnswerProgresses DEF InProgress, Onward

LEMMA TransitionProgresses ==
  ASSUME Sound, InProgress, NEW p \in Proc, run[p].pc \notin {"idle", "close"},
         NEW l, ProgressOK(l), l.result = "none", NEW s, Transition(p, s, l)
  PROVE  Progresses(p)
BY AnswerProgresses, RejectProgresses DEF Transition

\* The steps of executeMigrations and executeArtifact.
LEMMA ExecutorProgresses ==
  ASSUME Sound, InProgress, NEW p \in Proc,
         \/ ReadJournal(p) \/ SelectArtifact(p) \/ CreateAttemptRow(p) \/ MarkRunning(p)
         \/ AcquireDdlLock(p) \/ BeginTransaction(p) \/ CheckPreconditions(p)
         \/ ExecuteStatement(p) \/ CheckpointStatement(p) \/ CheckPostconditions(p)
         \/ RecordApplied(p) \/ MarkApplied(p) \/ Commit(p) \/ ReleaseDdlLock(p)
         \/ Rollback(p) \/ ConcludeAttempt(p) \/ ReleaseLease(p)
  PROVE  Progresses(p)
<1> DEFINE l == run[p]
<1>1. l \in Run /\ ProgressOK(l)
  BY DEF Sound, TypeOK, InProgress
<1>2. l.pc \in ExecutorStep \cup {"release"}
  BY DEF ReadJournal, SelectArtifact, CreateAttemptRow, MarkRunning, AcquireDdlLock,
         BeginTransaction, CheckPreconditions, ExecuteStatement, CheckpointStatement,
         CheckPostconditions, RecordApplied, MarkApplied, Commit, ReleaseDdlLock, Rollback,
         ConcludeAttempt, ReleaseLease, At, ExecutorStep
<1>3. l.pc \notin {"idle", "close"} \cup ReconcileStep /\ l.result = "none"
  BY <1>1, <1>2 DEF ExecutorStep, ReconcileStep, ProgressOK
<1>4. CASE ReadJournal(p)
  <2> DEFINE j == JournalOf(p)
             m == [l EXCEPT !.pc = "select", !.n = Len(j.applied) + 1, !.head = j.head]
  <2>1. Proceed(p, m) \/ Reject(p, "failed")
    BY <1>4 DEF ReadJournal
  <2>2. Onward(l, m)
    BY <1>1, <1>3 DEF Onward, ReconcileStep, Run
  <2> HIDE DEF m
  <2> QED
    BY <1>3, <2>1, <2>2, StepProgresses, RejectProgresses
<1>5. CASE SelectArtifact(p)
  <2>1. \/ \E pc \in {"release", "create"} : Proceed(p, [l EXCEPT !.pc = pc])
        \/ Reject(p, "failed")
    BY <1>5 DEF SelectArtifact
  <2>2. \A pc \in {"release", "create"} : Onward(l, [l EXCEPT !.pc = pc])
    BY <1>1, <1>3 DEF Onward, ReconcileStep, Run
  <2> QED
    BY <1>3, <2>1, <2>2, StepProgresses, RejectProgresses
<1>6. CASE CreateAttemptRow(p)
  <2>1. \/ \E k \in AttemptId : Answer(p, [l EXCEPT !.pc = "start", !.attempt = k])
        \/ Reject(p, "failed")
    BY <1>6 DEF CreateAttemptRow
  <2>2. \A k : Onward(l, [l EXCEPT !.pc = "start", !.attempt = k])
    BY <1>1, <1>3 DEF Onward, ReconcileStep, Run
  <2> QED
    BY <1>3, <2>1, <2>2, StepProgresses, RejectProgresses
<1>7. CASE MarkRunning(p)
  <2> DEFINE k == [l EXCEPT !.ph = 1, !.st = 1]
  <2>1. k \in Run /\ k.result = "none" /\ k.role = l.role /\ k.repo = l.repo
    BY <1>1, <1>3 DEF Run
  <2>2. Transition(p, "running", EnterPhase(k))
    BY <1>7 DEF MarkRunning
  <2> HIDE DEF k
  <2>3. Onward(l, EnterPhase(k))
    BY <2>1, PhaseOnward DEF Onward
  <2> QED
    BY <1>1, <1>3, <2>2, <2>3, OnwardOK, TransitionProgresses DEF Onward
<1>8. CASE AcquireDdlLock(p) \/ CheckPreconditions(p) \/ ExecuteStatement(p)
           \/ CheckpointStatement(p) \/ RecordApplied(p)
  <2> DEFINE held(pc) == [l EXCEPT !.locked = TRUE, !.pc = pc]
             after(st) == AfterStatements([l EXCEPT !.st = st])
  <2>1. \/ \E pc \in {"begin", "check"} : Answer(p, held(pc))
        \/ Proceed(p, AfterStatements(l))
        \/ Answer(p, [l EXCEPT !.effect = TRUE, !.pc = "mark"])
        \/ Answer(p, after(l.st + 1))
        \/ Answer(p, [l EXCEPT !.pc = "applied"])
        \/ Reject(p, "failed")
    BY <1>8 DEF AcquireDdlLock, CheckPreconditions, ExecuteStatement, CheckpointStatement,
                RecordApplied
  <2>2. \A pc \in {"begin", "check"} : Onward(l, held(pc))
    BY <1>1, <1>3 DEF Onward, ReconcileStep, Run
  <2>3. Onward(l, AfterStatements(l)) /\ \A st : Onward(l, after(st))
    BY <1>1, <1>3 DEF Onward, ReconcileStep, Run, AfterStatements
  <2>4. /\ Onward(l, [l EXCEPT !.effect = TRUE, !.pc = "mark"])
        /\ Onward(l, [l EXCEPT !.pc = "applied"])
    BY <1>1, <1>3 DEF Onward, ReconcileStep, Run
  <2> HIDE DEF held, after
  <2> QED
    BY <1>3, <2>1, <2>2, <2>3, <2>4, StepProgresses, RejectProgresses
<1>9. CASE BeginTransaction(p)
  <2> DEFINE m == [l EXCEPT !.active = TRUE, !.pc = "check"]
  <2>1. run' = [run EXCEPT ![p] = m] /\ Onward(l, m)
    BY <1>1, <1>3, <1>9 DEF BeginTransaction, Onward, ReconcileStep, Run
  <2> HIDE DEF m
  <2> QED
    BY <1>1, <1>3, <2>1, OnwardOK DEF Onward, Progresses, Others, Sound, TypeOK
<1>10. CASE CheckPostconditions(p)
  <2>1. \/ \E pc \in {"record", "commit"} : Proceed(p, [l EXCEPT !.pc = pc])
        \/ Proceed(p, Finally(l))
    BY <1>10 DEF CheckPostconditions
  <2>2. \A pc \in {"record", "commit"} : Onward(l, [l EXCEPT !.pc = pc])
    BY <1>1, <1>3 DEF Onward, ReconcileStep, Run
  <2> QED
    BY <1>1, <1>3, <2>1, <2>2, PhaseOnward, StepProgresses
<1>11. CASE MarkApplied(p)
  <2>1. Onward(l, [l EXCEPT !.pc = "commit"]) /\ Onward(l, Finally(l))
    BY <1>1, <1>3, PhaseOnward DEF Onward, ReconcileStep, Run
  <2>2. Transition(p, "applied", IF l.active THEN [l EXCEPT !.pc = "commit"] ELSE Finally(l))
    BY <1>11 DEF MarkApplied
  <2> QED
    BY <1>1, <1>3, <2>1, <2>2, OnwardOK, TransitionProgresses DEF Onward
<1>12. CASE Commit(p) \/ ReleaseDdlLock(p)
  <2> DEFINE c == [l EXCEPT !.active = FALSE, !.committed = TRUE]
             u == [l EXCEPT !.locked = FALSE]
  <2>1. /\ c \in Run /\ c.result = "none" /\ c.role = l.role /\ c.repo = l.repo
        /\ u \in Run /\ u.result = "none" /\ u.role = l.role /\ u.repo = l.repo
    BY <1>1, <1>3 DEF Run
  <2>2. Answer(p, Finally(c)) \/ Answer(p, AfterFinally(u))
    BY <1>12 DEF Commit, ReleaseDdlLock
  <2> HIDE DEF c, u
  <2>3. Onward(l, Finally(c)) /\ Onward(l, AfterFinally(u))
    BY <2>1, PhaseOnward DEF Onward
  <2> QED
    BY <1>3, <2>2, <2>3, StepProgresses
<1>13. CASE Rollback(p) \/ ReleaseLease(p)
  <2> DEFINE r == [l EXCEPT !.active = FALSE, !.rolledBack = TRUE, !.pc = "conclude"]
             c == [l EXCEPT !.leased = FALSE, !.pc = "close"]
  <2>1. \/ Answer(p, r) /\ l.pc = "rollback"
        \/ Answer(p, c)
    BY <1>13 DEF Rollback, ReleaseLease, At
  <2>2. l.pc = "rollback" => Onward(l, r)
    BY <1>1, <1>3 DEF Onward, ReconcileStep, Run, ProgressOK
  <2>3. Onward(l, c)
    BY <1>1, <1>3 DEF Onward, ReconcileStep, Run
  <2> HIDE DEF r, c
  <2> QED
    BY <1>3, <2>1, <2>2, <2>3, StepProgresses
<1>14. CASE ConcludeAttempt(p)
  <2>1. Transition(p, FailedState(l), [l EXCEPT !.pc = "release"])
    BY <1>14 DEF ConcludeAttempt
  <2>2. Onward(l, [l EXCEPT !.pc = "release"])
    BY <1>1, <1>3 DEF Onward, ReconcileStep, Run
  <2> QED
    BY <1>1, <1>3, <2>1, <2>2, OnwardOK, TransitionProgresses DEF Onward
<1> QED
  BY <1>4, <1>5, <1>6, <1>7, <1>8, <1>9, <1>10, <1>11, <1>12, <1>13, <1>14

\* The steps of a reconciliation, and the lease both kinds of run begin with.
LEMMA ReconcileProgresses ==
  ASSUME Sound, InProgress, NEW p \in Proc,
         \/ AcquireLease(p) \/ VerifyOutcome(p) \/ RequireRecovery(p)
         \/ ReconcileHistory(p) \/ RecordOutcome(p) \/ ResolveAttempt(p)
  PROVE  Progresses(p)
<1> DEFINE l == run[p]
           at(pc) == [l EXCEPT !.pc = pc]
<1>1. l \in Run /\ ProgressOK(l)
  BY DEF Sound, TypeOK, InProgress
<1>2. l.pc \in ReconcileStep \cup {"lease"}
  BY DEF AcquireLease, VerifyOutcome, RequireRecovery, ReconcileHistory, RecordOutcome,
         ResolveAttempt, At, ReconcileStep
<1>3. l.pc \notin {"idle", "close"}
  BY <1>2 DEF ReconcileStep
<1>4. CASE AcquireLease(p)
  <2> DEFINE m == [l EXCEPT !.leased = TRUE,
                            !.pc = IF l.role = "apply" THEN "read" ELSE "verify"]
  <2>1. Answer(p, m) /\ l.role \in {"apply", "reconcile"}
    BY <1>1, <1>3, <1>4 DEF AcquireLease, ProgressOK, Run
  <2>2. ProgressOK(m) /\ m.result = "none"
    BY <1>1, <1>3, <2>1 DEF ProgressOK, Run, ReconcileStep
  <2> HIDE DEF m
  <2> QED
    BY <1>3, <2>1, <2>2, AnswerProgresses
<1>5. CASE ~AcquireLease(p)
  <2>1. l.pc \in ReconcileStep
    BY <1>5 DEF VerifyOutcome, RequireRecovery, ReconcileHistory, RecordOutcome,
                ResolveAttempt, At, ReconcileStep
  <2>2. \A pc \in {"require", "history", "audit", "resolve", "release"} :
          ProgressOK(at(pc)) /\ at(pc).result = "none"
    BY <1>1, <1>3, <2>1 DEF ProgressOK, Run, ReconcileStep
  <2>3. \/ \E pc \in {"require", "history", "audit", "resolve"} :
             Answer(p, at(pc)) \/ Proceed(p, at(pc))
        \/ Transition(p, "recovery_required", at("history"))
        \/ Transition(p, l.outcome, at("release"))
        \/ Reject(p, "failed")
    BY <1>5 DEF VerifyOutcome, RequireRecovery, ReconcileHistory, RecordOutcome,
                ResolveAttempt
  <2> HIDE DEF at
  <2> QED
    BY <1>3, <2>2, <2>3, AnswerProgresses, TransitionProgresses, RejectProgresses
<1> QED
  BY <1>4, <1>5

\* The start and the end of a call.
LEMMA CallProgresses ==
  ASSUME Sound, InProgress, NEW p \in Proc,
         StartApply(p) \/ StartReconcile(p) \/ CloseSession(p) \/ Crash(p)
  PROVE  Progresses(p)
<1>1. CASE StartApply(p)
  <2> DEFINE opened(repo) == [Idle EXCEPT !.role = "apply", !.repo = repo]
             ready(repo)  == [opened(repo) EXCEPT !.pc = "lease"]
             unable(repo) == [opened(repo) EXCEPT !.pc = "close", !.error = "failed"]
             refused      == [Idle EXCEPT !.result = "failed"]
  <2>1. \E repo \in Repositories :
          \/ /\ VerifyArtifactChain(repo)
             /\ \/ run' = [run EXCEPT ![p] = ready(repo)]
                \/ run' = [run EXCEPT ![p] = unable(repo)]
          \/ run' = [run EXCEPT ![p] = refused]
    BY <1>1 DEF StartApply
  <2>2. \A repo : VerifyArtifactChain(repo) =>
          ProgressOK(ready(repo)) /\ ready(repo).result = "none"
    BY DEF ProgressOK, Idle, ReconcileStep
  <2>3. \A repo : VerifyArtifactChain(repo) =>
          ProgressOK(unable(repo)) /\ unable(repo).result = "none"
    BY DEF ProgressOK, Idle, ReconcileStep
  <2>4. ProgressOK(refused) /\ refused.result = "failed"
    BY DEF ProgressOK, Idle, ReconcileStep
  <2> HIDE DEF ready, unable, refused
  <2> QED
    BY <2>1, <2>2, <2>3, <2>4 DEF Progresses, Others, Sound, TypeOK
<1>2. CASE StartReconcile(p)
  <2>1. PICK repo \in Repositories, k \in AttemptId, outcome \in Terminal :
          /\ VerifyArtifactChain(repo)
          /\ run' = [run EXCEPT ![p] =
               [Idle EXCEPT !.pc = "lease", !.role = "reconcile", !.repo = repo,
                            !.attempt = k, !.outcome = outcome]]
    BY <1>2 DEF StartReconcile
  <2> QED
    BY <2>1 DEF Progresses, ProgressOK, Others, Idle, ReconcileStep, Sound, TypeOK
<1>3. CASE CloseSession(p) \/ Crash(p)
  <2>1. \E result \in {"success", "failed", "crashed"} :
          /\ run' = [run EXCEPT ![p] = [Idle EXCEPT !.result = result]]
          /\ result = "success" => CloseSession(p)
    BY <1>3 DEF CloseSession, Closed, Crash
  <2> QED
    BY <2>1 DEF Progresses, ProgressOK, Others, Idle, ReconcileStep, Sound, TypeOK
<1> QED
  BY <1>1, <1>2, <1>3

\* What goes wrong is an exception to the run.
LEMMA FaultProgresses ==
  ASSUME Sound, InProgress, NEW p \in Proc,
         CommitRefused(p) \/ Fail(p) \/ CallDisconnected(p)
  PROVE  Progresses(p)
<1>1. PICK e \in {"failed", "uncertain"} : run' = [run EXCEPT ![p] = Throw(run[p], e)]
  BY DEF CommitRefused, Fail, CallDisconnected, ErrorKinds, Unanswered
<1>2. run[p].pc # "idle"
  BY DEF CommitRefused, Fail, CallDisconnected, At
<1>3. CASE run[p].pc = "close"
  <2>1. Throw(run[p], e) = [Idle EXCEPT !.result = "unclosed"]
    BY <1>3 DEF Throw, ReconcileStep
  <2> QED
    BY <1>1, <2>1 DEF Progresses, ProgressOK, Others, Idle, ReconcileStep, Sound, TypeOK
<1> QED
  BY <1>1, <1>2, <1>3, ThrowProgresses

\* A run that goes nowhere keeps what it had.
LEMMA NextInProgress ==
  ASSUME Sound, InProgress, [Next]_vars
  PROVE  InProgress'
<1>1. ASSUME NEW p \in Proc, Progresses(p)
      PROVE  InProgress'
  BY <1>1 DEF Progresses, Others, InProgress
<1>2. ASSUME NEW p \in Proc, Continue(p)
      PROVE  Progresses(p)
  BY <1>2, ExecutorProgresses, ReconcileProgresses, CallProgresses, FaultProgresses
     DEF Continue
<1>3. ASSUME run' = run
      PROVE  InProgress'
  BY <1>3 DEF InProgress
<1>4. ASSUME NEW p \in Proc, LoseConnection(p) \/ EndClient(p)
      PROVE  InProgress'
  BY <1>3, <1>4 DEF LoseConnection, EndClient
<1>5. CASE Repair \/ ClearLeaseRow \/ UNCHANGED vars
  BY <1>3, <1>5 DEF Repair, ClearLeaseRow, vars
<1> QED
  BY <1>1, <1>2, <1>4, <1>5, CallProgresses, FaultProgresses DEF Next

\* Only close ends a run with a success.
LEMMA SuccessCloses ==
  ASSUME Sound, InProgress, [Next]_vars,
         NEW p \in Proc, run[p].pc # "idle", run'[p].result = "success"
  PROVE  CloseSession(p)
<1>1. run[p].result = "none"
  BY DEF InProgress, ProgressOK
<1>2. ASSUME NEW q \in Proc, Progresses(q)
      PROVE  CloseSession(p)
  BY <1>1, <1>2 DEF Progresses, Others
<1>3. ASSUME NEW q \in Proc, Continue(q)
      PROVE  CloseSession(p)
  BY <1>2, <1>3, ExecutorProgresses, ReconcileProgresses, CallProgresses, FaultProgresses
     DEF Continue
<1>4. run' # run
  BY <1>1
<1>5. /\ ~(Repair \/ ClearLeaseRow \/ UNCHANGED vars)
      /\ \A q \in Proc : ~LoseConnection(q) /\ ~EndClient(q)
  BY <1>4 DEF Repair, ClearLeaseRow, LoseConnection, EndClient, vars
<1> QED
  BY <1>2, <1>3, <1>5, CallProgresses, FaultProgresses DEF Next

\* InProgress: an invariant of the specification by itself.
LEMMA InProgressAlways == Spec => []InProgress
<1>1. Init => InProgress
  BY DEF Init, InProgress, ProgressOK, Idle, ReconcileStep
<1>2. Sound /\ InProgress /\ [Next]_vars => InProgress'
  BY NextInProgress
<1> QED
  BY <1>1, <1>2, SoundAlways, PTL DEF Spec

-----------------------------------------------------------------------------
(* What a run knows at its next await. *)

\* A run that quits knows nothing of the database.
LEMMA QuitGrounded ==
  ASSUME NEW l, Quit(l), NEW d
  PROVE  Grounded(l, d) /\ Done(l, d.journal)
<1>1. /\ l.pc \in {"rollback", "conclude", "release", "close", "idle", "unlock"}
      /\ l.pc = "unlock" => l.error # "none"
      /\ l.pc \in {"release", "close"} => l.error # "none"
  BY DEF Quit, GaveUp
<1>2. ~Placing(l) /\ ~Settling(l) /\ l.pc \notin {"select", "create"}
  BY <1>1 DEF Placing, Settling, InPhase
<1> QED
  BY <1>1, <1>2 DEF Grounded, Done

\* What a run knows in the middle of an artifact, without its record.
AtWork(l, d) ==
  /\ HistoryIs(l.repo, d.journal, l.n - 1)
  /\ RecordsMatch(d.journal, {})
  /\ d.journal.attempts[l.attempt].artifact = ArtifactOf(l)

\* It is all it needs at the awaits up to recordApplied, and at the commit of
\* a phase that is not the last.
LEMMA WorkGrounded ==
  ASSUME NEW l, NEW d, AtWork(l, d),
         \/ l.pc \in {"start", "lock", "begin", "check", "execute", "mark", "postcheck",
                      "record"}
         \/ l.pc \in {"commit", "unlock"} /\ ~FinalPhase(l)
  PROVE  Grounded(l, d) /\ \A j : Done(l, j)
<1>1. ~HasRecord(l) /\ ~Settling(l) /\ Unsettled(l) = {}
  BY DEF HasRecord, Settling, Unsettled
<1>2. l.pc \notin {"select", "create", "release", "close"}
  OBVIOUS
<1> QED
  BY <1>1, <1>2 DEF Grounded, Done, AtWork

\* A run that goes on within the artifact is at work at its next await.
LEMMA SameWork ==
  ASSUME NEW l, NEW d, AtWork(l, d),
         NEW m, m.repo = l.repo, m.n = l.n, m.attempt = l.attempt,
         NEW e, e.journal.attempts = d.journal.attempts,
         e.journal.applied = d.journal.applied
  PROVE  AtWork(m, e)
BY SameRecords DEF AtWork, ArtifactOf

\* What a run without an error knows behind a phase: the record is there with
\* the last one.
Passed(l, d) ==
  l.error = "none" =>
    /\ HistoryIs(l.repo, d.journal, IF FinalPhase(l) THEN l.n ELSE l.n - 1)
    /\ RecordsMatch(d.journal, {})
    /\ d.journal.attempts[l.attempt].artifact = ArtifactOf(l)
    /\ HeadMatches(d.journal)

\* It finds the next phase, the next artifact or the catch as they must be.
LEMMA AfterFinallyGrounded ==
  ASSUME NEW l, InArtifact(l), NEW d, Passed(l, d)
  PROVE  Grounded(AfterFinally(l), d) /\ \A j : Done(AfterFinally(l), j)
<1>1. l \in Run /\ l.n \in 1..Len(l.repo) /\ l.ph \in Nat /\ Len(Phases(l)) \in Nat
  BY PhasesType DEF InArtifact, Run
<1>2. CASE l.error # "none"
  <2>1. GaveUp(AfterFinally(l))
    BY <1>1, <1>2, FinallyGivesUp
  <2>2. AfterFinally(l).pc \in {"rollback", "conclude"} /\ AfterFinally(l).error # "none"
    BY <1>1, <1>2 DEF AfterFinally, Catch, Run
  <2>3. Grounded(AfterFinally(l), d)
    BY <2>1, <2>2, QuitGrounded DEF Quit
  <2> QED
    BY <2>2, <2>3 DEF Done
<1>3. CASE l.error = "none" /\ l.ph < Len(Phases(l))
  <2> DEFINE k == [l EXCEPT !.ph = @ + 1, !.st = 1]
             m == EnterPhase(k)
  <2>1. k.n = l.n /\ k.repo = l.repo /\ k.attempt = l.attempt
    BY <1>1 DEF Run
  <2>2. k \in Run
    <3>1. l.ph + 1 \in Nat
      BY <1>1
    <3> QED
      BY <1>1, <3>1 DEF Run
  <2>3. AfterFinally(l) = m
    BY <1>3 DEF AfterFinally
  <2> HIDE DEF k
  <2>4. /\ m.pc \in {"record", "lock", "begin", "check"}
        /\ m.n = k.n /\ m.repo = k.repo /\ m.attempt = k.attempt
    BY <2>2 DEF EnterPhase, Run
  <2> HIDE DEF m
  <2>5. AtWork(l, d)
    BY <1>1, <1>3 DEF Passed, AtWork, FinalPhase
  <2>6. AtWork(m, d)
    BY <2>1, <2>4, <2>5, SameWork
  <2> QED
    BY <2>3, <2>4, <2>6, WorkGrounded
<1>4. CASE l.error = "none" /\ ~(l.ph < Len(Phases(l)))
  <2> DEFINE m == NextArtifact(l)
             j == d.journal
  <2>1. AfterFinally(l) = m
    BY <1>4 DEF AfterFinally
  <2>2. /\ m.pc = "select" /\ m.n = l.n + 1 /\ m.repo = l.repo
        /\ m.head = ArtifactOf(l)
    BY DEF NextArtifact, Idle
  <2> HIDE DEF m
  <2>3. HistoryIs(l.repo, j, l.n) /\ RecordsMatch(j, {}) /\ HeadMatches(j)
    BY <1>1, <1>4 DEF Passed, FinalPhase
  <2>4. j.head = ArtifactOf(l)
    BY <1>1, <2>3 DEF HistoryIs, IsJournalPrefix, HeadMatches, LastOf, ArtifactOf
  <2>5. (l.n + 1) - 1 = l.n
    BY <1>1
  <2>6. ~HasRecord(m) /\ ~Settling(m) /\ Unsettled(m) = {}
    BY <2>2 DEF HasRecord, Settling, Unsettled
  <2> QED
    BY <2>1, <2>2, <2>3, <2>4, <2>5, <2>6 DEF Grounded, Done
<1> QED
  BY <1>2, <1>3, <1>4

\* The same with the DDL lock still to be released.
LEMMA FinallyGrounded ==
  ASSUME NEW l, InArtifact(l), NEW d, Passed(l, d)
  PROVE  Grounded(Finally(l), d) /\ \A j : Done(Finally(l), j)
<1>1. CASE ~l.locked
  BY <1>1, AfterFinallyGrounded DEF Finally
<1>2. CASE l.locked
  <2> DEFINE m == [l EXCEPT !.pc = "unlock"]
  <2>1. /\ m.pc = "unlock" /\ m.error = l.error /\ m.attempt = l.attempt
        /\ m.ph = l.ph /\ m.n = l.n /\ m.repo = l.repo
    BY DEF InArtifact, Run
  <2>2. Finally(l) = m
    BY <1>2 DEF Finally
  <2> HIDE DEF m
  <2>3. (FinalPhase(m) <=> FinalPhase(l)) /\ ArtifactOf(m) = ArtifactOf(l)
    BY <2>1 DEF FinalPhase, Phases, ArtifactOf
  <2>4. HasRecord(m) <=> FinalPhase(l)
    BY <2>1, <2>3 DEF HasRecord
  <2>5. ~Settling(m) /\ Unsettled(m) = {} /\ (Placing(m) => l.error = "none")
    BY <2>1 DEF Settling, Unsettled, Placing, InPhase
  <2> QED
    BY <2>1, <2>2, <2>3, <2>4, <2>5 DEF Grounded, Done, Passed
<1> QED
  BY <1>1, <1>2

-----------------------------------------------------------------------------
(* The steps of a run under the lease. *)

\* The database the session of p sees after a step.
After(p) == IF txn'[p] = NoTxn THEN db' ELSE txn'[p]

\* What a step under the lease makes of the records and of its run.
Advanced(p) ==
  /\ RecordsOK(db'.journal)
  /\ Grounded(run'[p], After(p))
  /\ Done(run'[p], db'.journal)

\* The assumptions every step is looked at under.
Known == Sound /\ InProgress /\ InStep /\ Recording /\ LinearLedger

\* What is known of a run at an await under the lease.
LEMMA AtGrounded ==
  ASSUME Known, NEW p \in Proc, NEW pc \in Critical, At(p, pc)
  PROVE  /\ p \in online /\ run[p] \in Run /\ run[p].pc = pc
         /\ pc \notin {"idle", "close", "lease"}
         /\ LocalOK(run[p]) /\ ProgressOK(run[p])
         /\ db \in Database /\ View(p) \in Database /\ JournalOf(p) \in Journal
         /\ RecordsOK(db.journal) /\ Grounded(run[p], View(p))
         /\ JournalOf(p) = View(p).journal
         /\ txn[p] = NoTxn => View(p) = db
<1>1. /\ p \in online /\ run[p] \in Run /\ run[p].pc = pc /\ LocalOK(run[p])
      /\ db \in Database
  BY AtFits DEF Known
<1>2. View(p) \in Database /\ JournalOf(p) \in Journal
  BY ViewType DEF Known, Sound
<1>3. ProgressOK(run[p]) /\ RecordsOK(db.journal) /\ Grounded(run[p], View(p))
  BY <1>1 DEF Known, InProgress, Recording, UnderLease
<1>4. pc \notin {"idle", "close", "lease"}
  BY DEF Critical, ExecutorStep, ReconcileStep
<1> QED
  BY <1>1, <1>2, <1>3, <1>4 DEF JournalOf, View

\* An exception loses nothing that must be known.
LEMMA ThrowAdvances ==
  ASSUME Known, NEW p \in Proc, run[p].pc \notin {"idle", "close"},
         NEW e \in {"failed", "uncertain"}, run' = [run EXCEPT ![p] = Throw(run[p], e)],
         RecordsOK(db'.journal)
  PROVE  Advanced(p)
<1>1. run[p] \in Run /\ ProgressOK(run[p]) /\ run'[p] = Throw(run[p], e)
  BY DEF Known, Sound, TypeOK, InProgress
<1>2. Quit(run'[p])
  BY <1>1, ThrowOnward
<1>3. Grounded(run'[p], After(p)) /\ Done(run'[p], db'.journal)
  BY <1>2, QuitGrounded DEF Done
<1> QED
  BY <1>3 DEF Advanced

\* So a lost answer does not either.
LEMMA AnswerAdvances ==
  ASSUME Known, NEW p \in Proc, run[p].pc \notin {"idle", "close"},
         NEW l, Answer(p, l), Grounded(l, After(p)), Done(l, db'.journal),
         RecordsOK(db'.journal)
  PROVE  Advanced(p)
<1>1. CASE run' = [run EXCEPT ![p] = l]
  BY <1>1 DEF Advanced, Known, Sound, TypeOK
<1>2. CASE run' = [run EXCEPT ![p] = Throw(run[p], Unanswered(run[p]))]
  BY <1>2, ThrowAdvances DEF Unanswered
<1> QED
  BY <1>1, <1>2 DEF Answer

LEMMA ProceedAdvances ==
  ASSUME Known, NEW p \in Proc, NEW l, Proceed(p, l), Grounded(l, View(p)),
         Done(l, db.journal)
  PROVE  Advanced(p)
BY DEF Proceed, Advanced, After, View, Known, Recording, Sound, TypeOK

LEMMA RejectAdvances ==
  ASSUME Known, NEW p \in Proc, run[p].pc \notin {"idle", "close"}, Reject(p, "failed")
  PROVE  Advanced(p)
BY ThrowAdvances DEF Reject, Proceed, Known, Recording

\* What a write of a journal leaves in the session and in the database.
LEMMA JournalAfter ==
  ASSUME Known, NEW p \in Proc, NEW j \in Journal, WriteJournal(p, j),
         RecordsOK(db.journal), txn[p] = NoTxn => RecordsOK(j)
  PROVE  After(p).journal = j /\ RecordsOK(db'.journal)
BY JournalWrite DEF After, Known

\* A write to anything else leaves the journal as it is.
LEMMA OtherAfter ==
  ASSUME Known, NEW p \in Proc, NEW d \in Database, Write(p, d),
         d.journal = JournalOf(p)
  PROVE  After(p).journal = JournalOf(p) /\ RecordsOK(db'.journal)
<1>1. CASE txn[p] = NoTxn
  BY <1>1 DEF Write, After, JournalOf, View, Known, Recording
<1>2. CASE txn[p] # NoTxn
  <2>1. db' = db /\ txn'[p] = d
    BY <1>2 DEF Write, Known, Sound, TypeOK
  <2>2. After(p).journal = JournalOf(p)
    BY <2>1, NoTxnAssumption DEF After
  <2> QED
    BY <2>1, <2>2 DEF Known, Recording
<1> QED
  BY <1>1, <1>2

\* A transition goes on as l if l is right about the journal it makes.
LEMMA TransitionAdvances ==
  ASSUME Known, NEW p \in Proc, run[p].pc \notin {"idle", "close"},
         run[p].attempt \in AttemptId, NEW s, NEW l, Transition(p, s, l),
         s = "applied" => run[p].attempt \in RecordedBy(JournalOf(p)),
         CanTransition(JournalOf(p), run[p].attempt, s) =>
           \A d : d.journal = TransitionAttempt(JournalOf(p), run[p].attempt, s) =>
             Grounded(l, d) /\ \A j : Done(l, j)
  PROVE  Advanced(p)
<1> DEFINE k == run[p].attempt
           i == JournalOf(p)
           j == TransitionAttempt(i, k, s)
<1>1. i \in Journal /\ (txn[p] = NoTxn => i = db.journal) /\ RecordsOK(db.journal)
  BY ViewType DEF Known, Sound, Recording, JournalOf, View
<1>2. CASE CanTransition(i, k, s)
  <2>1. j \in Journal
    BY <1>1, <1>2, TransitionAttemptType
  <2>2. txn[p] = NoTxn => RecordsOK(j)
    BY <1>1, <1>2, TransitionRecords
  <2>3. WriteJournal(p, j) /\ Answer(p, l)
    BY <1>2 DEF Transition
  <2>4. \A d : d.journal = j => Grounded(l, d) /\ Done(l, db'.journal)
    BY <1>2
  <2> HIDE DEF j
  <2>5. After(p).journal = j /\ RecordsOK(db'.journal)
    BY <1>1, <2>1, <2>2, <2>3, JournalAfter
  <2> QED
    BY <2>3, <2>4, <2>5, AnswerAdvances
<1>3. CASE ~CanTransition(i, k, s)
  BY <1>3, RejectAdvances DEF Transition
<1> QED
  BY <1>2, <1>3

\* What is known up to recordApplied.
LEMMA WorkKnown ==
  ASSUME Known, NEW p \in Proc, At(p, run[p].pc),
         \/ run[p].pc \in {"start", "lock", "begin", "check", "execute", "mark",
                           "postcheck", "record"}
         \/ run[p].pc = "commit" /\ ~FinalPhase(run[p])
  PROVE  AtWork(run[p], View(p)) /\ InArtifact(run[p])
<1> DEFINE l == run[p]
<1>1. l \in Run /\ LocalOK(l) /\ Grounded(l, View(p))
  BY AtGrounded DEF Critical, ExecutorStep
<1>2. Placing(l) /\ ~HasRecord(l) /\ Unsettled(l) = {} /\ l.pc \notin {"select", "create"}
  BY DEF Placing, HasRecord, Unsettled, InPhase
<1>3. InArtifact(l)
  BY <1>1, LocalInArtifact DEF ExecutorStep
<1> QED
  BY <1>1, <1>2, <1>3 DEF Grounded, AtWork

\* readMetadata and listApplied: the run sees how far its repository has got.
LEMMA ReadJournalAdvances ==
  ASSUME Known, NEW p \in Proc, ReadJournal(p)
  PROVE  Advanced(p)
<1> DEFINE j == JournalOf(p)
           m == Len(j.applied)
           l == [run[p] EXCEPT !.pc = "select", !.n = m + 1, !.head = j.head]
<1>1. At(p, "read")
  BY DEF ReadJournal
<1>2. /\ run[p] \in Run /\ run[p].pc = "read" /\ j \in Journal /\ j = View(p).journal
  BY <1>1, AtGrounded DEF Critical, ExecutorStep
<1>3. CASE ValidateJournalState(j) /\ IsJournalPrefix(run[p].repo, j) /\ Proceed(p, l)
  <2>1. /\ l.pc = "select" /\ l.n = m + 1 /\ l.head = j.head /\ l.repo = run[p].repo
    BY <1>2 DEF Run
  <2>2. m \in Nat
    BY <1>2 DEF Journal
  <2>3. RecordsMatch(j, {})
    BY <1>3 DEF ValidateJournalState, RecordsMatchAttempts, RecordsMatch, StateOf
  <2> HIDE DEF l
  <2>4. HistoryIs(l.repo, j, l.n - 1)
    BY <1>3, <2>1, <2>2 DEF HistoryIs
  <2>5. ~HasRecord(l) /\ ~Settling(l) /\ Unsettled(l) = {}
    BY <2>1 DEF HasRecord, Settling, Unsettled
  <2>6. Grounded(l, View(p)) /\ Done(l, db.journal)
    BY <1>2, <2>1, <2>3, <2>4, <2>5 DEF Grounded, Done
  <2> QED
    BY <1>3, <2>6, ProceedAdvances
<1>4. CASE Reject(p, "failed")
  BY <1>2, <1>4, RejectAdvances
<1> QED
  BY <1>3, <1>4 DEF ReadJournal

\* A run whose repository is applied leaves; another goes on at its schema.
LEMMA SelectArtifactAdvances ==
  ASSUME Known, NEW p \in Proc, SelectArtifact(p)
  PROVE  Advanced(p)
<1> DEFINE k == run[p]
           at(pc) == [k EXCEPT !.pc = pc]
           j == db.journal
<1>1. At(p, "select")
  BY DEF SelectArtifact
<1>2. /\ k \in Run /\ k.pc = "select" /\ LocalOK(k) /\ Grounded(k, View(p))
      /\ j \in Journal
  BY <1>1, AtGrounded DEF Critical, ExecutorStep, Database
<1>3. View(p) = db
  <2>1. TransactionFits(k, txn[p], j)
    BY <1>1, AtFits DEF Known, Critical, ExecutorStep
  <2> QED
    BY <1>2, <2>1 DEF TransactionFits, OutsideTransaction, View
<1>4. /\ HistoryIs(k.repo, j, k.n - 1) /\ RecordsMatch(j, {}) /\ k.head = j.head
  <2>1. Placing(k) /\ ~HasRecord(k) /\ Unsettled(k) = {}
    BY <1>2 DEF Placing, HasRecord, Unsettled
  <2> QED
    BY <1>2, <1>3, <2>1 DEF Grounded
<1>5. \A pc : /\ at(pc).pc = pc /\ at(pc).n = k.n /\ at(pc).repo = k.repo
              /\ at(pc).head = k.head /\ at(pc).role = k.role
  BY <1>2 DEF Run
<1>6. k.n \in Nat /\ Len(k.repo) \in Nat /\ Len(j.applied) \in Nat
  BY <1>2 DEF Run, Journal
<1>7. \/ k.n > Len(k.repo) /\ Proceed(p, at("release"))
      \/ View(p).schema = Before(k.repo, k.n) /\ Proceed(p, at("create"))
      \/ Reject(p, "failed")
  BY DEF SelectArtifact
<1> HIDE DEF at
<1>8. CASE k.n > Len(k.repo) /\ Proceed(p, at("release"))
  <2>1. Done(at("release"), j)
    <3>1. Len(k.repo) <= Len(j.applied)
      BY <1>4, <1>6, <1>8 DEF HistoryIs
    <3>2. \A n \in 1..Len(k.repo) : n \in 1..Len(j.applied)
      BY <1>6, <3>1
    <3> QED
      BY <1>4, <1>5, <3>1, <3>2 DEF Done, HistoryIs, IsJournalPrefix
  <2>2. Grounded(at("release"), View(p))
    BY <1>5 DEF Grounded, Placing, Settling, InPhase
  <2> QED
    BY <1>8, <2>1, <2>2, ProceedAdvances
<1>9. CASE View(p).schema = Before(k.repo, k.n) /\ Proceed(p, at("create"))
  <2>1. ~HasRecord(at("create")) /\ ~Settling(at("create")) /\ Unsettled(at("create")) = {}
    BY <1>5 DEF HasRecord, Settling, Unsettled
  <2>2. Grounded(at("create"), View(p)) /\ Done(at("create"), j)
    BY <1>3, <1>4, <1>5, <1>9, <2>1 DEF Grounded, Done
  <2> QED
    BY <1>9, <2>2, ProceedAdvances
<1>10. CASE Reject(p, "failed")
  BY <1>2, <1>10, RejectAdvances
<1> QED
  BY <1>7, <1>8, <1>9, <1>10

\* The artifact a run is at has no record before its own.
LEMMA NextUnrecorded ==
  ASSUME NEW l \in Run, VerifyArtifactChain(l.repo), l.n \in 1..Len(l.repo),
         NEW j \in Journal, HistoryIs(l.repo, j, l.n - 1)
  PROVE  ArtifactOf(l) \notin Recorded(j)
<1>1. ASSUME NEW n \in 1..Len(j.applied), j.applied[n].artifact = l.repo[l.n]
      PROVE  FALSE
  <2>1. n \in 1..Len(l.repo) /\ n < l.n /\ l.repo[n] = l.repo[l.n]
    BY <1>1 DEF HistoryIs, IsJournalPrefix, Run, Journal
  <2> QED
    BY <2>1 DEF VerifyArtifactChain
<1> QED
  BY <1>1 DEF Recorded, ArtifactOf

\* What is known where an attempt is made: the journal is healthy, the head and
\* the schema are the ones the artifact continues.
LEMMA CreateKnown ==
  ASSUME Known, NEW p \in Proc, At(p, "create")
  PROVE  /\ run[p] \in Run /\ run[p].pc = "create" /\ db.journal \in Journal
         /\ txn[p] = NoTxn /\ View(p) = db /\ JournalOf(p) = db.journal
         /\ OpenAttempts(db.journal) = {} /\ RecordsOK(db.journal)
         /\ run[p].n \in 1..Len(run[p].repo)
         /\ HistoryIs(run[p].repo, db.journal, run[p].n - 1)
         /\ RecordsMatch(db.journal, {})
         /\ run[p].head = db.journal.head
         /\ db.schema = Before(run[p].repo, run[p].n)
         /\ ArtifactOf(run[p]) \notin Recorded(db.journal)
<1> DEFINE l == run[p]
           j == db.journal
<1>1. /\ l \in Run /\ l.pc = "create" /\ LocalOK(l) /\ ProgressOK(l) /\ Grounded(l, View(p))
      /\ RecordsOK(j) /\ j \in Journal
  BY AtGrounded DEF Critical, ExecutorStep, Database
<1>2. AttemptsFit(l, j) /\ TransactionFits(l, txn[p], j)
  BY AtFits DEF Known, Critical, ExecutorStep
<1>3. txn[p] = NoTxn /\ OpenAttempts(j) = {}
  BY <1>1, <1>2 DEF AttemptsFit, TransactionFits, OutsideTransaction
<1>4. l.n \in 1..Len(l.repo)
  BY <1>1 DEF LocalOK, PositionOK, ExecutorStep
<1>5. Placing(l) /\ ~HasRecord(l) /\ Unsettled(l) = {}
  BY <1>1 DEF Placing, HasRecord, Unsettled
<1>6. /\ HistoryIs(l.repo, j, l.n - 1) /\ RecordsMatch(j, {}) /\ l.head = j.head
      /\ db.schema = Before(l.repo, l.n)
  BY <1>1, <1>3, <1>5 DEF Grounded, View
<1>7. ArtifactOf(l) \notin Recorded(j)
  BY <1>1, <1>4, <1>6, NextUnrecorded DEF ProgressOK
<1> QED
  BY <1>1, <1>3, <1>4, <1>6, <1>7 DEF JournalOf, View

\* createAttempt: the attempt is one at an artifact without a record.
LEMMA CreateAttemptAdvances ==
  ASSUME Known, NEW p \in Proc, CreateAttemptRow(p)
  PROVE  Advanced(p)
<1> DEFINE i == db.journal
           a == ArtifactOf(run[p])
<1>1. At(p, "create")
  BY DEF CreateAttemptRow
<1>2. /\ run[p] \in Run /\ run[p].pc = "create" /\ i \in Journal /\ JournalOf(p) = i
      /\ RecordsOK(i) /\ run[p].n \in 1..Len(run[p].repo)
      /\ HistoryIs(run[p].repo, i, run[p].n - 1) /\ RecordsMatch(i, {})
      /\ a \notin Recorded(i)
  BY <1>1, CreateKnown
<1>3. a \in Artifact /\ run[p].head \in Digest
  BY <1>2, PhasesType DEF Run
<1>4. PICK k \in AttemptId :
        IF CanCreate(i, k)
          THEN /\ WriteJournal(p, CreateAttempt(i, k, a, run[p].head))
               /\ Answer(p, [run[p] EXCEPT !.pc = "start", !.attempt = k])
          ELSE Reject(p, "failed")
  BY <1>2 DEF CreateAttemptRow
<1>5. CASE CanCreate(i, k)
  <2> DEFINE l == [run[p] EXCEPT !.pc = "start", !.attempt = k]
             j == CreateAttempt(i, k, a, run[p].head)
  <2>1. j \in Journal /\ RecordsOK(j)
    BY <1>2, <1>3, <1>5, CreateAttemptType, CreateRecords
  <2>2. WriteJournal(p, j) /\ Answer(p, l)
    BY <1>4, <1>5
  <2>3. /\ l.pc = "start" /\ l.attempt = k /\ l.repo = run[p].repo /\ l.n = run[p].n
        /\ ArtifactOf(l) = a
    BY <1>2 DEF Run, ArtifactOf
  <2>4. /\ j.applied = i.applied /\ j.attempts[k].artifact = a
        /\ \A n \in AttemptId \ {k} : j.attempts[n] = i.attempts[n]
    BY <1>2, CreateChanges
  <2> HIDE DEF j, l
  <2>5. RecordsMatch(j, {})
    <3> SUFFICES ASSUME NEW n \in 1..Len(i.applied)
                 PROVE  /\ j.attempts[i.applied[n].attempt].artifact = i.applied[n].artifact
                        /\ StateOf(j, i.applied[n].attempt) = "applied"
      BY <2>4 DEF RecordsMatch
    <3> DEFINE m == i.applied[n].attempt
    <3>1. i.attempts[m].artifact = i.applied[n].artifact /\ StateOf(i, m) = "applied"
      BY <1>2 DEF RecordsMatch
    <3>2. m \in AttemptId
      BY <1>2, RecordType
    <3>3. m # k
      BY <1>5, <3>1 DEF CanCreate
    <3> QED
      BY <2>4, <3>1, <3>2, <3>3 DEF StateOf
  <2>6. HistoryIs(l.repo, j, l.n - 1)
    BY <1>2, <2>3, <2>4 DEF HistoryIs, IsJournalPrefix
  <2>7. After(p).journal = j /\ RecordsOK(db'.journal)
    BY <1>2, <2>1, <2>2, JournalAfter
  <2>8. AtWork(l, After(p))
    BY <2>3, <2>4, <2>5, <2>6, <2>7 DEF AtWork
  <2>9. Grounded(l, After(p)) /\ Done(l, db'.journal)
    BY <2>3, <2>8, WorkGrounded
  <2> QED
    BY <1>2, <2>2, <2>7, <2>9, AnswerAdvances
<1>6. CASE ~CanCreate(i, k)
  BY <1>2, <1>4, <1>6, RejectAdvances
<1> QED
  BY <1>5, <1>6

\* A transition that leaves the attempt open takes nothing from the work.
LEMMA TransitionAtWork ==
  ASSUME NEW l, l.attempt \in AttemptId, NEW d, d.journal \in Journal, AtWork(l, d),
         NEW s, CanTransition(d.journal, l.attempt, s),
         NEW e, e.journal = TransitionAttempt(d.journal, l.attempt, s)
  PROVE  AtWork(l, e)
<1> DEFINE i == d.journal
           j == TransitionAttempt(i, l.attempt, s)
<1>1. /\ j.applied = i.applied /\ j.attempts[l.attempt].artifact = i.attempts[l.attempt].artifact
      /\ StateOf(i, l.attempt) \in Unresolved
      /\ \A n \in AttemptId \ {l.attempt} : j.attempts[n] = i.attempts[n]
  BY TransitionChanges
<1> HIDE DEF j
<1>2. ASSUME NEW n \in 1..Len(i.applied)
      PROVE  /\ j.attempts[i.applied[n].attempt].artifact = i.applied[n].artifact
             /\ StateOf(j, i.applied[n].attempt) = "applied"
  <2> DEFINE m == i.applied[n].attempt
  <2>1. /\ i.attempts[m].artifact = i.applied[n].artifact /\ StateOf(i, m) = "applied"
        /\ m \in AttemptId
    BY RecordType DEF AtWork, RecordsMatch
  <2>2. m # l.attempt
    BY <1>1, <2>1 DEF Unresolved
  <2> QED
    BY <1>1, <2>1, <2>2 DEF StateOf
<1>3. RecordsMatch(j, {})
  BY <1>1, <1>2 DEF RecordsMatch
<1>4. HistoryIs(l.repo, j, l.n - 1)
  BY <1>1 DEF AtWork, HistoryIs, IsJournalPrefix
<1> QED
  BY <1>1, <1>3, <1>4 DEF AtWork, j

\* The first phase, or recordApplied of a program without phases.
LEMMA MarkRunningAdvances ==
  ASSUME Known, NEW p \in Proc, MarkRunning(p)
  PROVE  Advanced(p)
<1> DEFINE l == run[p]
           k == [l EXCEPT !.ph = 1, !.st = 1]
           m == EnterPhase(k)
<1>1. At(p, "start") /\ Transition(p, "running", m)
  BY DEF MarkRunning
<1>2. /\ l \in Run /\ l.pc = "start" /\ JournalOf(p) \in Journal
      /\ JournalOf(p) = View(p).journal
  BY <1>1, AtGrounded DEF Critical, ExecutorStep
<1>3. AtWork(l, View(p)) /\ l.attempt \in AttemptId
  BY <1>1, <1>2, WorkKnown DEF InArtifact
<1>4. /\ m.pc \in {"record", "lock", "begin", "check"}
      /\ m.n = l.n /\ m.repo = l.repo /\ m.attempt = l.attempt
  <2>1. k \in Run /\ k.n = l.n /\ k.repo = l.repo /\ k.attempt = l.attempt
    BY <1>2 DEF Run
  <2> HIDE DEF k
  <2> QED
    BY <2>1 DEF EnterPhase, Run
<1> HIDE DEF m
<1>5. ASSUME CanTransition(JournalOf(p), l.attempt, "running"),
             NEW d, d.journal = TransitionAttempt(JournalOf(p), l.attempt, "running")
      PROVE  Grounded(m, d) /\ \A j : Done(m, j)
  <2>1. AtWork(l, d)
    BY <1>2, <1>3, <1>5, TransitionAtWork
  <2>2. AtWork(m, d)
    BY <1>4, <2>1, SameWork
  <2> QED
    BY <1>4, <2>2, WorkGrounded
<1> QED
  BY <1>1, <1>2, <1>3, <1>5, TransitionAdvances

\* A run at work goes on with the journal as it is.
LEMMA WorkAdvances ==
  ASSUME Known, NEW p \in Proc, At(p, run[p].pc),
         run[p].pc \in {"start", "lock", "begin", "check", "execute", "mark"},
         NEW l, l.repo = run[p].repo, l.n = run[p].n, l.attempt = run[p].attempt,
         l.pc \in {"begin", "check", "execute", "mark", "postcheck"},
         After(p).journal = JournalOf(p), RecordsOK(db'.journal),
         Answer(p, l) \/ run' = [run EXCEPT ![p] = l]
  PROVE  Advanced(p)
<1>1. AtWork(run[p], View(p)) /\ JournalOf(p) = View(p).journal
  BY WorkKnown DEF JournalOf
<1>2. AtWork(l, After(p))
  BY <1>1, SameWork
<1>3. Grounded(l, After(p)) /\ Done(l, db'.journal)
  BY <1>2, WorkGrounded
<1>4. CASE Answer(p, l)
  BY <1>3, <1>4, AnswerAdvances
<1>5. CASE run' = [run EXCEPT ![p] = l]
  BY <1>3, <1>5 DEF Advanced, Known, Sound, TypeOK
<1> QED
  BY <1>4, <1>5

\* The DDL lock, the begin of a transaction and the preconditions.
LEMMA PhaseBeginAdvances ==
  ASSUME Known, NEW p \in Proc,
         AcquireDdlLock(p) \/ BeginTransaction(p) \/ CheckPreconditions(p)
  PROVE  Advanced(p)
<1> DEFINE l == run[p]
<1>1. l \in Run /\ RecordsOK(db.journal) /\ db \in Database
  BY DEF Known, Sound, TypeOK, Recording
<1>2. CASE AcquireDdlLock(p)
  <2> DEFINE m == [l EXCEPT !.locked = TRUE,
                            !.pc = IF UseTransaction(PhaseOf(l)) THEN "begin" ELSE "check"]
  <2>1. At(p, l.pc) /\ l.pc = "lock" /\ Answer(p, m) /\ UNCHANGED <<db, txn>>
    BY <1>2 DEF AcquireDdlLock, At
  <2>2. /\ m.repo = l.repo /\ m.n = l.n /\ m.attempt = l.attempt
        /\ m.pc \in {"begin", "check"}
    BY <1>1 DEF Run
  <2> HIDE DEF m
  <2>3. After(p).journal = JournalOf(p)
    BY <2>1 DEF After, JournalOf, View
  <2> QED
    BY <1>1, <2>1, <2>2, <2>3, WorkAdvances
<1>3. CASE BeginTransaction(p)
  <2> DEFINE m == [l EXCEPT !.active = TRUE, !.pc = "check"]
  <2>1. /\ At(p, l.pc) /\ l.pc = "begin" /\ run' = [run EXCEPT ![p] = m] /\ db' = db
        /\ txn' = [txn EXCEPT ![p] = db]
    BY <1>3 DEF BeginTransaction, At
  <2>2. /\ m.repo = l.repo /\ m.n = l.n /\ m.attempt = l.attempt /\ m.pc = "check"
    BY <1>1 DEF Run
  <2> HIDE DEF m
  <2>3. txn[p] = NoTxn
    <3>1. TransactionFits(l, txn[p], db.journal)
      BY <2>1, AtFits DEF Known, Critical, ExecutorStep
    <3> QED
      BY <2>1, <3>1 DEF TransactionFits, OutsideTransaction
  <2>4. After(p) = db
    BY <1>1, <2>1, NoTxnAssumption DEF After, Known, Sound, TypeOK
  <2>5. After(p).journal = JournalOf(p)
    BY <2>3, <2>4 DEF JournalOf, View
  <2> QED
    BY <1>1, <2>1, <2>2, <2>5, WorkAdvances
<1>4. CASE CheckPreconditions(p)
  <2> DEFINE m == AfterStatements(l)
  <2>1. /\ At(p, l.pc) /\ l.pc = "check" /\ run' = [run EXCEPT ![p] = m]
        /\ UNCHANGED <<db, txn>>
    BY <1>4 DEF CheckPreconditions, At, Proceed
  <2>2. /\ m.repo = l.repo /\ m.n = l.n /\ m.attempt = l.attempt
        /\ m.pc \in {"execute", "postcheck"}
    BY <1>1 DEF Run, AfterStatements
  <2> HIDE DEF m
  <2>3. After(p).journal = JournalOf(p)
    BY <2>1 DEF After, JournalOf, View
  <2> QED
    BY <1>1, <2>1, <2>2, <2>3, WorkAdvances
<1> QED
  BY <1>2, <1>3, <1>4

\* A statement, and its checkpoint.
LEMMA StatementAdvances ==
  ASSUME Known, NEW p \in Proc, ExecuteStatement(p) \/ CheckpointStatement(p)
  PROVE  Advanced(p)
<1> DEFINE l == run[p]
           v == View(p)
<1>1. l \in Run /\ v \in Database /\ v.journal = JournalOf(p) /\ LocalOK(l)
  BY ViewType DEF Known, Sound, TypeOK, JournalOf
<1>2. CASE ExecuteStatement(p)
  <2> DEFINE d == [v EXCEPT !.schema = @ \cup {EffectOf(l)}]
             m == [l EXCEPT !.effect = TRUE, !.pc = "mark"]
  <2>1. At(p, l.pc) /\ l.pc = "execute" /\ Answer(p, m) /\ Write(p, d)
    BY <1>2 DEF ExecuteStatement, At
  <2>2. d \in Database /\ d.journal = JournalOf(p)
    BY <1>1, <1>2, <2>1, EffectOfType DEF Database, ExecuteStatement
  <2>3. m.repo = l.repo /\ m.n = l.n /\ m.attempt = l.attempt /\ m.pc = "mark"
    BY <1>1 DEF Run
  <2> HIDE DEF d, m
  <2>4. After(p).journal = JournalOf(p) /\ RecordsOK(db'.journal)
    BY <2>1, <2>2, OtherAfter
  <2> QED
    BY <2>1, <2>3, <2>4, WorkAdvances
<1>3. CASE CheckpointStatement(p)
  <2> DEFINE mark == <<l.attempt, EffectOf(l)>>
             d == [v EXCEPT !.marks = @ \cup {mark}]
             m == AfterStatements([l EXCEPT !.st = @ + 1])
  <2>1. At(p, l.pc) /\ l.pc = "mark" /\ Answer(p, m) /\ Write(p, d)
    BY <1>3 DEF CheckpointStatement, At
  <2>2. d \in Database /\ d.journal = JournalOf(p)
    <3>1. l.attempt \in AttemptId
      BY <2>1, WorkKnown DEF InArtifact
    <3>2. mark \in AttemptId \X UNION {Effects(a) : a \in Artifact}
      BY <1>1, <2>1, <3>1, EffectOfType
    <3> HIDE DEF mark
    <3> QED
      BY <1>1, <3>2 DEF Database
  <2>3. m.repo = l.repo /\ m.n = l.n /\ m.attempt = l.attempt
        /\ m.pc \in {"execute", "postcheck"}
    BY <1>1 DEF Run, AfterStatements
  <2> HIDE DEF d, m
  <2>4. After(p).journal = JournalOf(p) /\ RecordsOK(db'.journal)
    BY <2>1, <2>2, OtherAfter
  <2> QED
    BY <2>1, <2>3, <2>4, WorkAdvances
<1> QED
  BY <1>2, <1>3

\* Postconditions: recordApplied is next, the commit, or the next phase.
LEMMA CheckPostconditionsAdvances ==
  ASSUME Known, NEW p \in Proc, CheckPostconditions(p)
  PROVE  Advanced(p)
<1> DEFINE l == run[p]
           m(pc) == [l EXCEPT !.pc = pc]
<1>1. At(p, "postcheck") /\ At(p, l.pc) /\ l.pc = "postcheck"
  BY DEF CheckPostconditions, At
<1>2. l \in Run /\ InArtifact(l) /\ AtWork(l, View(p)) /\ (~l.active => View(p) = db)
  BY <1>1, WorkKnown, InPhaseFits DEF Known, View
<1>3. \A pc : /\ m(pc).pc = pc /\ m(pc).attempt = l.attempt /\ m(pc).n = l.n
              /\ m(pc).repo = l.repo
              /\ FinalPhase(m(pc)) <=> FinalPhase(l)
  BY <1>2, OnlyGoesOn DEF Run
<1>4. \/ Proceed(p, m("record"))
      \/ ~FinalPhase(l) /\ Proceed(p, m("commit"))
      \/ ~FinalPhase(l) /\ ~l.active /\ Proceed(p, Finally(l))
  BY DEF CheckPostconditions
<1> HIDE DEF l, m
<1>5. \A pc : AtWork(m(pc), View(p))
  BY <1>2, <1>3, SameWork
<1>6. CASE Proceed(p, m("record"))
  BY <1>3, <1>5, <1>6, WorkGrounded, ProceedAdvances
<1>7. CASE ~FinalPhase(l) /\ Proceed(p, m("commit"))
  <2>1. m("commit").pc = "commit" /\ ~FinalPhase(m("commit"))
    BY <1>3, <1>7, Zenon
  <2> QED
    BY <1>5, <1>7, <2>1, WorkGrounded, ProceedAdvances
<1>8. CASE ~FinalPhase(l) /\ ~l.active /\ Proceed(p, Finally(l))
  <2>1. Passed(l, View(p))
    BY <1>2, <1>8 DEF Passed, AtWork, Known, LinearLedger, Chained
  <2> QED
    BY <1>2, <1>8, <2>1, FinallyGrounded, ProceedAdvances
<1> QED
  BY <1>4, <1>6, <1>7, <1>8

\* What a run knows of an artifact whose record is written, and then of one
\* whose attempt is settled.
Written(l, d) ==
  /\ HistoryIs(l.repo, d.journal, l.n)
  /\ RecordsMatch(d.journal, {l.attempt})
  /\ d.journal.attempts[l.attempt].artifact = ArtifactOf(l)
  /\ l.attempt \in RecordedBy(d.journal)

Settled(l, d) ==
  /\ HistoryIs(l.repo, d.journal, l.n)
  /\ RecordsMatch(d.journal, {})
  /\ d.journal.attempts[l.attempt].artifact = ArtifactOf(l)

\* recordApplied writes it.
LEMMA AppendWrites ==
  ASSUME NEW l, InArtifact(l), NEW d, d.journal \in Journal, AtWork(l, d),
         NEW e, e.journal = AppendAppliedAndAdvanceHead(d.journal, ArtifactOf(l), l.attempt)
  PROVE  Written(l, e)
<1> DEFINE i == d.journal
           a == ArtifactOf(l)
           k == l.attempt
           j == AppendAppliedAndAdvanceHead(i, a, k)
           m == Len(i.applied)
<1>1. l \in Run /\ l.n \in 1..Len(l.repo) /\ k \in AttemptId /\ a \in Artifact
  BY PhasesType DEF InArtifact
<1>2. /\ j.attempts = i.attempts /\ m \in Nat /\ Len(j.applied) = m + 1
      /\ \A n \in 1..m : j.applied[n] = i.applied[n]
      /\ j.applied[m + 1].artifact = a /\ j.applied[m + 1].attempt = k
  BY <1>1, AppendChanges
<1> HIDE DEF j
<1>3. m = l.n - 1 /\ \A n \in 1..m : i.applied[n].artifact = l.repo[n]
  BY DEF AtWork, HistoryIs, IsJournalPrefix
<1>4. /\ RecordsMatch(i, {}) /\ i.attempts[k].artifact = a
  BY DEF AtWork
<1> HIDE DEF m
<1>5. Len(j.applied) = l.n /\ l.n \in Nat /\ l.n <= Len(l.repo)
      /\ \A n \in 1..l.n : n \in 1..m \/ n = m + 1
  BY <1>1, <1>2, <1>3 DEF Run
<1>6. \A n \in 1..Len(j.applied) : j.applied[n].artifact = l.repo[n]
  <2>1. l.repo[m + 1] = a
    BY <1>1, <1>3 DEF ArtifactOf, Run
  <2> QED
    BY <1>2, <1>3, <1>5, <2>1
<1>7. HistoryIs(l.repo, j, l.n)
  BY <1>5, <1>6 DEF HistoryIs, IsJournalPrefix
<1>8. RecordsMatch(j, {k})
  <2>1. \A n \in 1..m : /\ i.attempts[i.applied[n].attempt].artifact = i.applied[n].artifact
                        /\ i.attempts[i.applied[n].attempt].state = "applied"
    BY <1>4 DEF RecordsMatch, StateOf, m
  <2> QED
    BY <1>2, <1>4, <1>5, <2>1 DEF RecordsMatch, StateOf
<1>9. k \in RecordedBy(j)
  <2>1. m + 1 \in 1..Len(j.applied)
    BY <1>2
  <2> QED
    BY <1>2, <2>1 DEF RecordedBy
<1> QED
  BY <1>2, <1>4, <1>7, <1>8, <1>9 DEF Written, j

\* The transition to applied settles it.
LEMMA TransitionSettles ==
  ASSUME NEW l, l.attempt \in AttemptId, NEW d, d.journal \in Journal, Written(l, d),
         CanTransition(d.journal, l.attempt, "applied"),
         NEW e, e.journal = TransitionAttempt(d.journal, l.attempt, "applied")
  PROVE  Settled(l, e)
<1> DEFINE i == d.journal
           k == l.attempt
           j == TransitionAttempt(i, k, "applied")
<1>1. /\ j.applied = i.applied /\ j.attempts[k].artifact = i.attempts[k].artifact
      /\ StateOf(j, k) = "applied"
      /\ \A n \in AttemptId \ {k} : j.attempts[n] = i.attempts[n]
  BY TransitionChanges
<1> HIDE DEF j
<1>2. ASSUME NEW n \in 1..Len(i.applied)
      PROVE  /\ j.attempts[i.applied[n].attempt].artifact = i.applied[n].artifact
             /\ StateOf(j, i.applied[n].attempt) = "applied"
  <2> DEFINE m == i.applied[n].attempt
  <2>1. m \in AttemptId /\ i.attempts[m].artifact = i.applied[n].artifact
        /\ (m # k => StateOf(i, m) = "applied")
    BY RecordType DEF Written, RecordsMatch
  <2> QED
    BY <1>1, <2>1 DEF StateOf
<1>3. RecordsMatch(j, {}) /\ HistoryIs(l.repo, j, l.n)
  BY <1>1, <1>2 DEF RecordsMatch, Written, HistoryIs, IsJournalPrefix
<1> QED
  BY <1>1, <1>3 DEF Settled, Written, j

\* recordApplied leaves the outcome to the next await.
LEMMA RecordAppliedAdvances ==
  ASSUME Known, NEW p \in Proc, RecordApplied(p)
  PROVE  Advanced(p)
<1> DEFINE l == run[p]
           i == JournalOf(p)
           a == ArtifactOf(l)
           j == AppendAppliedAndAdvanceHead(i, a, l.attempt)
           m == [l EXCEPT !.pc = "applied"]
<1>1. At(p, "record") /\ At(p, l.pc) /\ l.pc = "record"
  BY DEF RecordApplied, At
<1>2. /\ l \in Run /\ InArtifact(l) /\ AtWork(l, View(p)) /\ i = View(p).journal
      /\ i \in Journal /\ OpenAttempts(db.journal) = {l.attempt}
      /\ RecordsOK(db.journal) /\ (txn[p] = NoTxn => i = db.journal)
      /\ db.journal \in Journal
  BY <1>1, WorkKnown, InPhaseFits, ViewType
     DEF Known, Sound, JournalOf, View, Recording
<1>3. a \in Artifact /\ l.attempt \in AttemptId
  BY <1>2, PhasesType DEF InArtifact
<1>4. CASE /\ CanAppend(i, a, l.attempt, l.head)
           /\ WriteJournal(p, j) /\ Answer(p, m)
  <2>1. j \in Journal /\ (txn[p] = NoTxn => RecordsOK(j))
    BY <1>2, <1>3, AppendType, AppendRecords
  <2>2. /\ m.pc = "applied" /\ m.repo = l.repo /\ m.n = l.n /\ m.attempt = l.attempt
        /\ ArtifactOf(m) = a
    BY <1>2 DEF Run, ArtifactOf
  <2>3. \A e : e.journal = j => Written(l, e)
    BY <1>2, AppendWrites
  <2> HIDE DEF j, m
  <2>4. After(p).journal = j /\ RecordsOK(db'.journal)
    BY <1>2, <1>4, <2>1, JournalAfter
  <2>5. Written(l, After(p))
    BY <2>3, <2>4
  <2>6. HasRecord(m) /\ Unsettled(m) = {m.attempt} /\ m.pc \notin {"release", "close"}
    BY <2>2 DEF HasRecord, Unsettled
  <2>7. Grounded(m, After(p)) /\ Done(m, db'.journal)
    BY <2>2, <2>5, <2>6 DEF Grounded, Done, Written
  <2> QED
    BY <1>1, <1>4, <2>4, <2>7, AnswerAdvances
<1>5. CASE Reject(p, "failed")
  BY <1>1, <1>5, RejectAdvances
<1> QED
  BY <1>4, <1>5 DEF RecordApplied

\* The outcome comes behind the record; outside a transaction the artifact is
\* done with it.
LEMMA MarkAppliedAdvances ==
  ASSUME Known, NEW p \in Proc, MarkApplied(p)
  PROVE  Advanced(p)
<1> DEFINE l == run[p]
           i == JournalOf(p)
           k == l.attempt
           c == [l EXCEPT !.pc = "commit"]
           m == IF l.active THEN c ELSE Finally(l)
<1>1. At(p, "applied") /\ l.pc = "applied" /\ Transition(p, "applied", m)
  BY DEF MarkApplied, At
<1>2. /\ l \in Run /\ LocalOK(l) /\ Grounded(l, View(p)) /\ i \in Journal
      /\ i = View(p).journal
  BY <1>1, AtGrounded DEF Critical, ExecutorStep
<1>3. InArtifact(l) /\ k \in AttemptId
  BY <1>1, <1>2, LocalInArtifact DEF ExecutorStep, InArtifact
<1>4. TransactionFits(l, txn[p], db.journal)
  BY <1>1, AtFits DEF Known, Critical, ExecutorStep
<1>5. FinalPhase(l) /\ (~l.active => txn[p] = NoTxn)
  BY <1>1, <1>4 DEF TransactionFits, OutsideTransaction, InPhase
<1>6. Written(l, View(p))
  <2>1. Placing(l) /\ HasRecord(l) /\ Unsettled(l) = {k} /\ Settling(l)
        /\ l.pc \notin {"select", "create"}
    BY <1>1 DEF Placing, HasRecord, Unsettled, Settling, InPhase
  <2> QED
    BY <1>2, <2>1 DEF Grounded, Written
<1>7. c.pc = "commit" /\ c.attempt = k /\ c.repo = l.repo /\ c.n = l.n
      /\ ArtifactOf(c) = ArtifactOf(l) /\ (FinalPhase(c) <=> FinalPhase(l))
  BY <1>2, OnlyGoesOn DEF Run
<1> HIDE DEF c
<1>8. ASSUME CanTransition(i, k, "applied"),
             NEW d, d.journal = TransitionAttempt(i, k, "applied")
      PROVE  Grounded(m, d) /\ \A j : Done(m, j)
  <2>1. Settled(l, d)
    BY <1>2, <1>3, <1>6, <1>8, TransitionSettles
  <2>2. CASE l.active
    <3>1. HasRecord(c) /\ Unsettled(c) = {} /\ ~Settling(c)
      <4>1. FinalPhase(c)
        BY <1>5, <1>7, Zenon
      <4> QED
        BY <1>7, <4>1 DEF HasRecord, Unsettled, Settling
    <3>2. Grounded(c, d) /\ \A j : Done(c, j)
      BY <1>7, <2>1, <3>1 DEF Grounded, Done, Settled
    <3> QED
      BY <2>2, <3>2
  <2>3. CASE ~l.active
    <3>1. i = db.journal
      BY <1>5, <2>3 DEF JournalOf, View
    <3>2. HeadMatches(d.journal)
      <4>1. HeadMatches(i)
        BY <3>1 DEF Known, LinearLedger, Chained
      <4>2. d.journal.head = i.head /\ d.journal.applied = i.applied
        BY <1>2, <1>3, <1>8, TransitionChanges
      <4> QED
        BY <4>1, <4>2 DEF HeadMatches
    <3>3. Passed(l, d)
      BY <1>5, <2>1, <3>2 DEF Passed, Settled
    <3>4. Grounded(Finally(l), d) /\ \A j : Done(Finally(l), j)
      BY <1>3, <3>3, FinallyGrounded
    <3> QED
      BY <2>3, <3>4
  <2> QED
    BY <2>2, <2>3
<1>9. k \in RecordedBy(i)
  BY <1>2, <1>6 DEF Written
<1> HIDE DEF m
<1> QED
  BY <1>1, <1>3, <1>8, <1>9, TransitionAdvances

\* What a transaction publishes: the journal it began with, or that with the
\* record of the attempt and its outcome.
LEMMA CommitPublishes ==
  ASSUME Known, NEW p \in Proc, At(p, "commit")
  PROVE  /\ txn[p] # NoTxn
         /\ RecordsOK(txn[p].journal) /\ HeadMatches(txn[p].journal)
         /\ Passed(run[p], txn[p])
<1> DEFINE l == run[p]
           i == db.journal
           j == txn[p].journal
           a == ArtifactOf(l)
           k == l.attempt
           h == AppendAppliedAndAdvanceHead(i, a, k)
<1>1. /\ l \in Run /\ l.pc = "commit" /\ LocalOK(l) /\ i \in Journal
      /\ AttemptsFit(l, i) /\ TransactionFits(l, txn[p], i)
      /\ txn[p] # NoTxn
  BY AtFits, AtSound
     DEF Known, Critical, ExecutorStep, InPhase, LocalOK, FlagsOK
<1>2. InArtifact(l) /\ OpenAttempts(i) = {k}
  BY <1>1, LocalInArtifact DEF ExecutorStep, AttemptsFit, Attempting, InPhase
<1>3. a \in Artifact /\ k \in AttemptId /\ RecordsOK(i) /\ Chained(i)
  BY <1>2, PhasesType DEF InArtifact, Known, Recording, LinearLedger
<1>4. RecordsOK(j) /\ HeadMatches(j)
  <2>1. CASE FinalPhase(l)
    <3>1. /\ CanAppend(i, a, k, l.head) /\ CanTransition(h, k, "applied")
          /\ j = TransitionAttempt(h, k, "applied")
      BY <1>1, <2>1 DEF TransactionFits, IsSettled, IsRecorded
    <3>2. h \in Journal /\ RecordsOK(h) /\ k \in RecordedBy(h) /\ Chained(h)
      BY <1>1, <1>2, <1>3, <3>1, AppendType, AppendRecords, AppendChained
    <3> HIDE DEF h
    <3>3. RecordsOK(j) /\ j.head = h.head /\ j.applied = h.applied
      BY <1>3, <3>1, <3>2, TransitionRecords, TransitionChanges
    <3> QED
      BY <3>2, <3>3 DEF Chained, HeadMatches
  <2>2. CASE ~FinalPhase(l)
    BY <1>1, <1>3, <2>2 DEF TransactionFits, Chained
  <2> QED
    BY <2>1, <2>2
<1>5. Passed(l, txn[p])
  <2>1. Placing(l) /\ (HasRecord(l) <=> FinalPhase(l)) /\ Unsettled(l) = {}
        /\ l.pc \notin {"select", "create"}
    BY <1>1 DEF Placing, HasRecord, Unsettled, InPhase
  <2>2. Grounded(l, txn[p])
    BY <1>1, AtGrounded DEF View, Critical, ExecutorStep
  <2> QED
    BY <1>4, <2>1, <2>2 DEF Grounded, Passed
<1> QED
  BY <1>1, <1>4, <1>5

\* A run behind a phase knows the same with other flags.
LEMMA SamePassed ==
  ASSUME NEW l, NEW d, Passed(l, d),
         NEW m, m.error = l.error, m.repo = l.repo, m.n = l.n, m.ph = l.ph,
         m.attempt = l.attempt
  PROVE  Passed(m, d)
<1>1. (FinalPhase(m) <=> FinalPhase(l)) /\ ArtifactOf(m) = ArtifactOf(l)
  BY DEF FinalPhase, Phases, ArtifactOf
<1> QED
  BY <1>1 DEF Passed

\* A commit.
LEMMA CommitAdvances ==
  ASSUME Known, NEW p \in Proc, Commit(p)
  PROVE  Advanced(p)
<1> DEFINE l == run[p]
           m == [l EXCEPT !.active = FALSE, !.committed = TRUE]
<1>1. At(p, "commit") /\ Answer(p, Finally(m)) /\ db' = txn[p]
      /\ txn' = [txn EXCEPT ![p] = NoTxn] /\ l.pc = "commit"
  BY DEF Commit, At
<1>2. After(p) = db' /\ RecordsOK(db'.journal) /\ Passed(l, After(p))
  BY <1>1, CommitPublishes DEF After, Known, Sound, TypeOK
<1>3. l \in Run /\ InArtifact(l)
  BY <1>1, AtGrounded, LocalInArtifact DEF Critical, ExecutorStep
<1>4. /\ m \in Run /\ m.error = l.error /\ m.repo = l.repo /\ m.n = l.n /\ m.ph = l.ph
      /\ m.attempt = l.attempt /\ m.leased = l.leased
  BY <1>3 DEF Run
<1> HIDE DEF m
<1>5. InArtifact(m) /\ Passed(m, After(p))
  BY <1>2, <1>3, <1>4, SamePassed DEF InArtifact
<1>6. Grounded(Finally(m), After(p)) /\ Done(Finally(m), db'.journal)
  BY <1>5, FinallyGrounded
<1> QED
  BY <1>1, <1>2, <1>6, AnswerAdvances

\* The DDL lock is released behind the phase.
LEMMA ReleaseDdlLockAdvances ==
  ASSUME Known, NEW p \in Proc, ReleaseDdlLock(p)
  PROVE  Advanced(p)
<1> DEFINE l == run[p]
           m == [l EXCEPT !.locked = FALSE]
<1>1. At(p, "unlock") /\ Answer(p, AfterFinally(m)) /\ UNCHANGED <<db, txn>>
      /\ l.pc = "unlock"
  BY DEF ReleaseDdlLock, At
<1>2. l \in Run /\ LocalOK(l) /\ Grounded(l, View(p)) /\ RecordsOK(db.journal)
  BY <1>1, AtGrounded DEF Critical, ExecutorStep
<1>3. InArtifact(l)
  BY <1>1, <1>2, LocalInArtifact DEF ExecutorStep
<1>4. Passed(l, View(p))
  <2> SUFFICES ASSUME l.error = "none" PROVE Passed(l, View(p))
    BY DEF Passed
  <2>1. Placing(l) /\ (HasRecord(l) <=> FinalPhase(l)) /\ Unsettled(l) = {}
        /\ l.pc \notin {"select", "create"}
    BY <1>1 DEF Placing, HasRecord, Unsettled
  <2>2. View(p) = db
    <3>1. TransactionFits(l, txn[p], db.journal)
      BY <1>1, AtFits DEF Known, Critical, ExecutorStep
    <3> QED
      BY <1>1, <3>1 DEF TransactionFits, OutsideTransaction, View
  <2>3. HeadMatches(View(p).journal)
    BY <2>2 DEF Known, LinearLedger, Chained
  <2> QED
    BY <1>2, <2>1, <2>3 DEF Grounded, Passed
<1>5. /\ m \in Run /\ m.error = l.error /\ m.repo = l.repo /\ m.n = l.n /\ m.ph = l.ph
      /\ m.attempt = l.attempt /\ m.leased = l.leased
  BY <1>2 DEF Run
<1> HIDE DEF m
<1>6. InArtifact(m) /\ Passed(m, View(p))
  BY <1>3, <1>4, <1>5, SamePassed DEF InArtifact
<1>7. Grounded(AfterFinally(m), View(p)) /\ Done(AfterFinally(m), db'.journal)
  BY <1>6, AfterFinallyGrounded
<1>8. After(p) = View(p)
  BY <1>1 DEF After, View
<1> QED
  BY <1>1, <1>2, <1>7, <1>8, AnswerAdvances

\* Rollback, the conclusion about a failed attempt, a refused commit and the
\* release of the lease.
LEMMA EndingAdvances ==
  ASSUME Known, NEW p \in Proc,
         Rollback(p) \/ ConcludeAttempt(p) \/ CommitRefused(p) \/ ReleaseLease(p)
  PROVE  Advanced(p)
<1> DEFINE l == run[p]
<1>1. /\ l \in Run /\ db \in Database /\ View(p) \in Database /\ ProgressOK(l) /\ LocalOK(l)
      /\ RecordsOK(db.journal)
  BY ViewType DEF Known, Sound, TypeOK, InProgress, Recording
<1>2. CASE Rollback(p)
  <2> DEFINE m == [l EXCEPT !.active = FALSE, !.rolledBack = TRUE, !.pc = "conclude"]
  <2>1. Answer(p, m) /\ db' = db /\ l.pc = "rollback"
    BY <1>2 DEF Rollback, At
  <2>2. Quit(m)
    BY <1>1, <2>1 DEF Quit, GaveUp, ProgressOK, Run
  <2> HIDE DEF m
  <2>3. Grounded(m, After(p)) /\ Done(m, db'.journal)
    BY <2>2, QuitGrounded DEF Done
  <2> QED
    BY <1>1, <2>1, <2>3, AnswerAdvances
<1>3. CASE ConcludeAttempt(p)
  <2> DEFINE m == [l EXCEPT !.pc = "release"]
             s == FailedState(l)
  <2>1. Transition(p, s, m) /\ l.pc = "conclude"
    BY <1>3 DEF ConcludeAttempt, At
  <2>2. Quit(m)
    BY <1>1, <2>1 DEF Quit, GaveUp, ProgressOK, Run
  <2>3. s # "applied" /\ l.attempt \in AttemptId
    BY <1>1, <2>1 DEF FailedState, LocalOK, AttemptOK, ExecutorStep
  <2> HIDE DEF m, s
  <2>4. \A d : Grounded(m, d) /\ \A j : Done(m, j)
    BY <2>2, QuitGrounded DEF Quit, Done
  <2> QED
    BY <2>1, <2>3, <2>4, TransitionAdvances
<1>4. CASE CommitRefused(p)
  BY <1>1, <1>4, ThrowAdvances DEF CommitRefused, At
<1>5. CASE ReleaseLease(p)
  <2> DEFINE m == [l EXCEPT !.leased = FALSE, !.pc = "close"]
             d == [View(p) EXCEPT !.lease = IF @ = p THEN Null ELSE @]
  <2>1. /\ m.pc = "close" /\ m.role = l.role /\ m.error = l.error /\ m.repo = l.repo
    BY <1>1 DEF Run
  <2>2. /\ Answer(p, m) /\ l.pc = "release"
        /\ Write(p, d) \/ UNCHANGED db
    BY <1>5 DEF ReleaseLease, At
  <2>3. d.journal = View(p).journal
    BY <1>1 DEF Database
  <2> HIDE DEF m, d
  <2>4. db'.journal = db.journal
    BY <2>2, <2>3 DEF Write, View
  <2>5. Done(l, db.journal)
    BY DEF Known, Recording
  <2>6. Done(m, db'.journal)
    BY <2>1, <2>2, <2>4, <2>5 DEF Done
  <2>7. Grounded(m, After(p))
    BY <2>1 DEF Grounded, Placing, Settling, InPhase
  <2> QED
    BY <1>1, <2>2, <2>4, <2>6, <2>7, AnswerAdvances
<1> QED
  BY <1>2, <1>3, <1>4, <1>5

\* verifyOutcome and the transition to recovery_required.
LEMMA RecoveryAdvances ==
  ASSUME Known, NEW p \in Proc, VerifyOutcome(p) \/ RequireRecovery(p)
  PROVE  Advanced(p)
<1> DEFINE l == run[p]
           at(pc) == [l EXCEPT !.pc = pc]
<1>1. l \in Run /\ l.pc \in {"verify", "require"} /\ l.attempt \in AttemptId
  BY AtGrounded
     DEF VerifyOutcome, RequireRecovery, At, Critical, ReconcileStep, LocalOK, AttemptOK
<1>2. \A pc : at(pc).pc = pc
  BY <1>1 DEF Run
<1>3. \/ \E pc \in {"require", "history"} : Proceed(p, at(pc))
      \/ Transition(p, "recovery_required", at("history"))
      \/ Reject(p, "failed")
  BY DEF VerifyOutcome, RequireRecovery
<1> HIDE DEF at
<1>4. \A pc \in {"require", "history"} :
        /\ \A d : Grounded(at(pc), d)
        /\ \A j : Done(at(pc), j)
  BY <1>2 DEF Grounded, Done, Placing, Settling, InPhase
<1> QED
  BY <1>1, <1>3, <1>4, ProceedAdvances, TransitionAdvances, RejectAdvances

\* reconcileHistory: an outcome of applied goes on with a record of the attempt,
\* found or added.
LEMMA ReconcileHistoryAdvances ==
  ASSUME Known, NEW p \in Proc, ReconcileHistory(p)
  PROVE  Advanced(p)
<1> DEFINE i == db.journal
           l == run[p]
           k == l.attempt
           a == i.attempts[k].artifact
           e == i.attempts[k].expectedHead
           j == AppendAppliedAndAdvanceHead(i, a, k)
           m == [l EXCEPT !.pc = "audit"]
<1>1. At(p, "history")
  BY DEF ReconcileHistory
<1>2. /\ l \in Run /\ l.pc = "history" /\ k \in AttemptId
      /\ i \in Journal /\ txn[p] = NoTxn /\ JournalOf(p) = i /\ View(p) = db
      /\ OpenAttempts(i) = {k} /\ RecordsOK(i) /\ Chained(i)
  BY <1>1, ReconcileFits DEF Known, ReconcileStep, View, Recording, LinearLedger
<1>3. m.pc = "audit" /\ m.attempt = k /\ m.outcome = l.outcome
  BY <1>2 DEF Run
<1>4. a \in Artifact
  BY <1>2, OpenAttemptArtifact
<1>5. \/ CanAppend(i, a, k, e) /\ WriteJournal(p, j) /\ Answer(p, m)
      \/ /\ l.outcome = "applied" => i.head = a
         /\ Proceed(p, m)
      \/ Reject(p, "failed")
  BY <1>2 DEF ReconcileHistory
<1>6. ASSUME NEW d, l.outcome = "applied" => k \in RecordedBy(d.journal)
      PROVE  Grounded(m, d) /\ \A h : Done(m, h)
  BY <1>3, <1>6 DEF Grounded, Done, Placing, Settling, InPhase
<1> HIDE DEF m, l
<1>7. CASE CanAppend(i, a, k, e) /\ WriteJournal(p, j) /\ Answer(p, m)
  <2>1. j \in Journal /\ RecordsOK(j) /\ k \in RecordedBy(j)
    BY <1>2, <1>4, AppendType, AppendRecords
  <2> HIDE DEF j
  <2>2. After(p).journal = j /\ RecordsOK(db'.journal)
    BY <1>2, <1>7, <2>1, JournalAfter
  <2>3. Grounded(m, After(p)) /\ Done(m, db'.journal)
    BY <1>6, <2>1, <2>2
  <2> QED
    BY <1>2, <1>7, <2>2, <2>3, AnswerAdvances DEF l
<1>8. CASE (l.outcome = "applied" => i.head = a) /\ Proceed(p, m)
  <2>1. ASSUME l.outcome = "applied"
        PROVE  k \in RecordedBy(i)
    <3> DEFINE n == Len(i.applied)
    <3>1. i.head = a /\ i.head # Null
      BY <1>4, <1>8, <2>1, ArtifactAssumption
    <3>2. i.applied # << >> /\ i.applied[n].artifact = a
      BY <1>2, <3>1 DEF Chained, HeadMatches, LastOf
    <3>3. n \in 1..Len(i.applied)
      BY <1>2, <3>2 DEF Journal
    <3>4. i.applied[n].attempt = k
      BY <1>2, <3>2, <3>3 DEF RecordsOK, OpenUnrecorded
    <3> QED
      BY <3>3, <3>4 DEF RecordedBy
  <2>2. Grounded(m, View(p)) /\ Done(m, i)
    BY <1>2, <1>6, <2>1
  <2> QED
    BY <1>8, <2>2, ProceedAdvances
<1>9. CASE Reject(p, "failed")
  BY <1>2, <1>9, RejectAdvances DEF l
<1> QED
  BY <1>5, <1>7, <1>8, <1>9

\* The audit record and the outcome follow the record.
LEMMA OutcomeAdvances ==
  ASSUME Known, NEW p \in Proc, RecordOutcome(p) \/ ResolveAttempt(p)
  PROVE  Advanced(p)
<1> DEFINE l == run[p]
           k == l.attempt
           i == db.journal
<1>1. At(p, l.pc) /\ l.pc \in {"audit", "resolve"}
  BY DEF RecordOutcome, ResolveAttempt, At
<1>2. /\ l \in Run /\ k \in AttemptId /\ i \in Journal /\ txn[p] = NoTxn
      /\ JournalOf(p) = i /\ View(p) = db /\ RecordsOK(i)
  BY <1>1, ReconcileFits DEF Known, ReconcileStep, View, Recording
<1>3. l.outcome = "applied" => k \in RecordedBy(i)
  <2>1. Grounded(l, db)
    BY <1>1, <1>2, AtGrounded DEF Critical, ReconcileStep
  <2> QED
    BY <1>1, <2>1 DEF Grounded, Settling
<1>4. CASE RecordOutcome(p)
  <2> DEFINE m == [l EXCEPT !.pc = "resolve"]
             j == RecordReconciliation(i, k, l.outcome)
  <2>1. m.pc = "resolve" /\ m.attempt = k /\ m.outcome = l.outcome
    BY <1>2 DEF Run
  <2>2. \/ WriteJournal(p, j) /\ Answer(p, m)
        \/ Proceed(p, m)
        \/ Reject(p, "failed")
    BY <1>2, <1>4 DEF RecordOutcome
  <2>3. j \in Journal /\ j.attempts = i.attempts /\ j.applied = i.applied
    BY <1>2, RecordReconciliationType DEF RecordReconciliation, Journal, Run
  <2> HIDE DEF j, m
  <2>4. RecordsOK(j) /\ RecordedBy(j) = RecordedBy(i)
    BY <1>2, <2>3, SameRecords
  <2>5. ASSUME NEW d, RecordedBy(d.journal) = RecordedBy(i)
        PROVE  Grounded(m, d) /\ \A h : Done(m, h)
    BY <1>3, <2>1, <2>5 DEF Grounded, Done, Placing, Settling, InPhase
  <2>6. CASE WriteJournal(p, j) /\ Answer(p, m)
    <3>1. After(p).journal = j /\ RecordsOK(db'.journal)
      BY <1>2, <2>3, <2>4, <2>6, JournalAfter
    <3>2. Grounded(m, After(p)) /\ Done(m, db'.journal)
      BY <2>4, <2>5, <3>1
    <3> QED
      BY <1>1, <2>6, <3>1, <3>2, AnswerAdvances
  <2>7. CASE Proceed(p, m)
    <3>1. Grounded(m, View(p)) /\ Done(m, i)
      BY <1>2, <2>5
    <3> QED
      BY <2>7, <3>1, ProceedAdvances
  <2> QED
    BY <1>1, <2>2, <2>6, <2>7, RejectAdvances
<1>5. CASE ResolveAttempt(p)
  <2> DEFINE m == [l EXCEPT !.pc = "release"]
  <2>1. m.pc = "release" /\ m.role = l.role
    BY <1>2 DEF Run
  <2>2. Transition(p, l.outcome, m) /\ l.role = "reconcile"
    BY <1>5 DEF ResolveAttempt, At, Known, InProgress, ProgressOK, ReconcileStep
  <2> HIDE DEF m
  <2>3. \A d : Grounded(m, d) /\ \A j : Done(m, j)
    BY <2>1, <2>2 DEF Grounded, Done, Placing, Settling, InPhase
  <2> QED
    BY <1>1, <1>2, <1>3, <2>2, <2>3, TransitionAdvances
<1> QED
  BY <1>4, <1>5

\* A step of the code under the lease.
LEMMA StepsAdvance ==
  ASSUME Known, NEW p \in Proc,
         WorkingStep(p) \/ BeginTransaction(p) \/ Commit(p) \/ CommitRefused(p)
         \/ Rollback(p) \/ ReleaseLease(p)
  PROVE  Advanced(p)
BY ReadJournalAdvances, SelectArtifactAdvances, CreateAttemptAdvances,
   MarkRunningAdvances, PhaseBeginAdvances, StatementAdvances,
   CheckPostconditionsAdvances, RecordAppliedAdvances, MarkAppliedAdvances,
   CommitAdvances, ReleaseDdlLockAdvances, EndingAdvances, RecoveryAdvances,
   ReconcileHistoryAdvances, OutcomeAdvances
   DEF WorkingStep

-----------------------------------------------------------------------------
(* Every step keeps the invariant. *)

\* What a run has applied stays applied.
LEMMA DoneKept ==
  ASSUME NEW i \in Journal, NEW j \in Journal, JournalStep(i, j),
         NEW l \in Run, Done(l, i)
  PROVE  Done(l, j)
<1>1. Preserves(i, j)
  BY StepPreserves
<1>2. Len(l.repo) \in Nat /\ Len(i.applied) \in Nat /\ Len(j.applied) \in Nat
  BY DEF Run, Journal
<1> QED
  BY <1>1, <1>2 DEF Preserves, Done

\* What a run knows is a matter of journal and schema.
LEMMA SameGrounded ==
  ASSUME NEW l, NEW d, NEW e, Grounded(l, d), e.journal = d.journal, e.schema = d.schema
  PROVE  Grounded(l, e)
BY DEF Grounded

\* A step under the lease keeps the invariant.
LEMMA StepsRecord ==
  ASSUME Known, Sound', LeaseExcludes, [Next]_vars, NEW p \in Proc,
         WorkingStep(p) \/ BeginTransaction(p) \/ Commit(p) \/ CommitRefused(p)
         \/ Rollback(p) \/ ReleaseLease(p)
  PROVE  Recording'
<1>1. Advanced(p)
  BY StepsAdvance
<1>2. UnderLease(p) /\ Others(p) /\ online' = online
  <2>1. CASE WorkingStep(p)
    BY <2>1, StepsWork DEF Working, UnderLease, Known
  <2>2. CASE BeginTransaction(p) \/ CommitRefused(p)
    BY <2>2 DEF BeginTransaction, CommitRefused, At, UnderLease, Critical, ExecutorStep,
                Others, Known, Sound, TypeOK
  <2>3. CASE Commit(p) \/ Rollback(p) \/ ReleaseLease(p)
    BY <2>3, AnswerOthers
       DEF Commit, Rollback, ReleaseLease, At, UnderLease, Critical, ExecutorStep, Known
  <2> QED
    BY <2>1, <2>2, <2>3
<1>3. ASSUME NEW q \in Proc, UnderLease(q)'
      PROVE  Grounded(run'[q], View(q)')
  <2>1. q = p
    BY <1>2, <1>3 DEF UnderLease, Others, LeaseExcludes
  <2> QED
    BY <1>1, <2>1 DEF Advanced, After, View
<1>4. ASSUME NEW q \in Proc
      PROVE  Done(run'[q], db'.journal)
  <2>1. CASE q = p
    BY <1>1, <2>1 DEF Advanced
  <2>2. CASE q # p
    <3>1. /\ db.journal \in Journal /\ db'.journal \in Journal
          /\ run'[q] = run[q] /\ run[q] \in Run
      BY <1>2, <2>2 DEF Known, Sound, TypeOK, Database, Others
    <3>2. JournalStep(db.journal, db'.journal)
      BY NextKept DEF Known, Kept
    <3>3. Done(run[q], db.journal)
      BY DEF Known, Recording
    <3> QED
      BY <3>1, <3>2, <3>3, DoneKept
  <2> QED
    BY <2>1, <2>2
<1>5. RecordsOK(db'.journal)
  BY <1>1 DEF Advanced
<1> QED
  BY <1>3, <1>4, <1>5 DEF Recording

\* A step from outside the lease leaves journal, schema and other runs as they
\* are.
LEMMA OutsideRecords ==
  ASSUME Known, NEW p \in Proc, Others(p),
         \A q \in Proc \ {p} : txn'[q] = txn[q] /\ (q \in online' => q \in online),
         db'.journal = db.journal, db'.schema = db.schema,
         Done(run'[p], db.journal),
         UnderLease(p)' => \A d : Grounded(run'[p], d)
  PROVE  Recording'
<1>1. ASSUME NEW q \in Proc \ {p}, UnderLease(q)'
      PROVE  Grounded(run'[q], View(q)')
  <2>1. UnderLease(q) /\ run'[q] = run[q] /\ txn'[q] = txn[q]
    BY <1>1 DEF UnderLease, Others
  <2>2. Grounded(run[q], View(q))
    BY <2>1 DEF Known, Recording
  <2>3. View(q)'.journal = View(q).journal /\ View(q)'.schema = View(q).schema
    BY <2>1 DEF View
  <2> QED
    BY <2>1, <2>2, <2>3, SameGrounded
<1>2. \A q \in Proc : UnderLease(q)' => Grounded(run'[q], View(q)')
  BY <1>1
<1>3. \A q \in Proc : Done(run'[q], db'.journal)
  BY DEF Others, Known, Recording
<1> QED
  BY <1>2, <1>3 DEF Known, Recording

\* A run that gets the lease has yet to read anything.
LEMMA AcquireLeaseRecords ==
  ASSUME Known, NEW p \in Proc, AcquireLease(p)
  PROVE  Recording'
<1> DEFINE l == [run[p] EXCEPT
             !.leased = TRUE,
             !.pc = IF run[p].role = "apply" THEN "read" ELSE "verify"]
<1>1. /\ At(p, "lease") /\ Answer(p, l) /\ UNCHANGED <<txn, online>>
      /\ UNCHANGED db \/ db' = [db EXCEPT !.lease = p]
  BY DEF AcquireLease
<1>2. /\ run[p] \in Run /\ run[p].pc = "lease" /\ db \in Database /\ Others(p)
      /\ ProgressOK(run[p])
  BY <1>1, AnswerOthers DEF At, Known, Sound, TypeOK, InProgress
<1>3. db'.journal = db.journal /\ db'.schema = db.schema
  BY <1>1, <1>2 DEF Database
<1>4. l.pc \in {"read", "verify"}
  BY <1>2 DEF Run
<1> HIDE DEF l
<1>5. (\A d : Grounded(l, d)) /\ \A j : Done(l, j)
  BY <1>4 DEF Grounded, Done, Placing, Settling, InPhase
<1>6. (\A d : Grounded(run'[p], d)) /\ Done(run'[p], db.journal)
  <2>1. CASE run' = [run EXCEPT ![p] = l]
    BY <1>5, <2>1 DEF Known, Sound, TypeOK
  <2>2. CASE run' = [run EXCEPT ![p] = Throw(run[p], Unanswered(run[p]))]
    <3>1. run'[p] = Throw(run[p], Unanswered(run[p]))
      BY <2>2 DEF Known, Sound, TypeOK
    <3>2. Unanswered(run[p]) \in {"failed", "uncertain"}
      BY DEF Unanswered
    <3>3. Quit(run'[p])
      BY <1>2, <3>1, <3>2, ThrowOnward
    <3> QED
      BY <3>3, QuitGrounded DEF Quit, Done
  <2> QED
    BY <1>1, <2>1, <2>2 DEF Answer
<1> QED
  BY <1>1, <1>2, <1>3, <1>6, OutsideRecords

\* A run that throws, starts or is over claims nothing.
LEMMA RunOnlyRecords ==
  ASSUME Known, NEW p \in Proc,
         \/ StartApply(p) \/ StartReconcile(p) \/ Fail(p) \/ CallDisconnected(p)
         \/ CloseSession(p) \/ Crash(p)
  PROVE  Recording'
<1>1. /\ Others(p) /\ db \in Database
      /\ \A q \in Proc \ {p} : txn'[q] = txn[q] /\ (q \in online' => q \in online)
  BY DEF StartApply, StartReconcile, Fail, CallDisconnected, CloseSession, CloseLeaves,
         Closed, Crash, EndSession, Others, Known, Sound, TypeOK
<1>2. db'.journal = db.journal /\ db'.schema = db.schema
  BY <1>1 DEF StartApply, StartReconcile, Fail, CallDisconnected, CloseSession, Crash,
              Database
<1>3. (\A d : Grounded(run'[p], d)) /\ Done(run'[p], db.journal)
  <2>1. CASE Fail(p) \/ CallDisconnected(p)
    <3>1. PICK e \in {"failed", "uncertain"} : run' = [run EXCEPT ![p] = Throw(run[p], e)]
      BY <2>1 DEF Fail, CallDisconnected, ErrorKinds, Unanswered
    <3>2. run[p] \in Run /\ ProgressOK(run[p]) /\ run'[p] = Throw(run[p], e)
      BY <3>1 DEF Known, Sound, TypeOK, InProgress
    <3>3. CASE run[p].pc # "close"
      <4>1. Quit(run'[p])
        BY <2>1, <3>2, <3>3, ThrowOnward DEF Fail, CallDisconnected
      <4> QED
        BY <4>1, QuitGrounded DEF Quit, Done
    <3>4. CASE run[p].pc = "close"
      <4>1. run'[p] = [Idle EXCEPT !.result = "unclosed"]
        BY <3>2, <3>4 DEF Throw, ReconcileStep
      <4>2. run'[p].pc = "idle"
        BY <4>1 DEF Idle
      <4> QED
        BY <4>2 DEF Grounded, Done, Placing, Settling, InPhase
    <3> QED
      BY <3>3, <3>4
  <2>2. CASE CloseSession(p) \/ Crash(p)
    <3>1. \E result \in {"success", "failed", "crashed"} :
            run'[p] = [Idle EXCEPT !.result = result]
      BY <2>2 DEF CloseSession, Closed, Crash, Known, Sound, TypeOK
    <3>2. run'[p].pc = "idle"
      BY <3>1 DEF Idle
    <3> QED
      BY <3>2 DEF Grounded, Done, Placing, Settling, InPhase
  <2>3. CASE StartApply(p)
    <3> DEFINE opened(repo) == [Idle EXCEPT !.role = "apply", !.repo = repo]
               ready(repo)  == [opened(repo) EXCEPT !.pc = "lease"]
               unable(repo) == [opened(repo) EXCEPT !.pc = "close", !.error = "failed"]
               refused      == [Idle EXCEPT !.result = "failed"]
    <3>1. \E repo \in Repositories : run'[p] \in {ready(repo), unable(repo), refused}
      BY <2>3 DEF StartApply, Known, Sound, TypeOK
    <3>2. \A repo : /\ ready(repo).pc = "lease"
                    /\ unable(repo).pc = "close" /\ unable(repo).error = "failed"
      BY DEF Idle
    <3>3. refused.pc = "idle"
      BY DEF Idle
    <3> HIDE DEF ready, unable, refused
    <3>4. \/ run'[p].pc \in {"lease", "idle"}
          \/ run'[p].pc = "close" /\ run'[p].error = "failed"
      BY <3>1, <3>2, <3>3
    <3> QED
      BY <3>4 DEF Grounded, Done, Placing, Settling, InPhase
  <2>4. CASE StartReconcile(p)
    <3>1. PICK repo \in Repositories, k \in AttemptId, outcome \in Terminal :
            run' = [run EXCEPT ![p] =
              [Idle EXCEPT !.pc = "lease", !.role = "reconcile", !.repo = repo,
                           !.attempt = k, !.outcome = outcome]]
      BY <2>4 DEF StartReconcile
    <3>2. run'[p].pc = "lease"
      BY <3>1 DEF Idle, Known, Sound, TypeOK
    <3> QED
      BY <3>2 DEF Grounded, Done, Placing, Settling, InPhase
  <2> QED
    BY <2>1, <2>2, <2>3, <2>4
<1> QED
  BY <1>1, <1>2, <1>3, OutsideRecords

\* A connection that is lost, or ended, is no longer under the lease.
LEMMA LostRecords ==
  ASSUME Known, NEW p \in Proc, LoseConnection(p) \/ EndClient(p)
  PROVE  Recording'
<1>1. /\ UNCHANGED <<db, run>> /\ p \notin online'
      /\ \A q \in Proc \ {p} : txn'[q] = txn[q] /\ (q \in online' => q \in online)
  BY DEF LoseConnection, EndClient, EndSession, Known, Sound, TypeOK
<1> QED
  BY <1>1, OutsideRecords DEF Others, UnderLease, Known, Recording

\* The operator repairs the schema only while nobody runs.
LEMMA OperatorRecords ==
  ASSUME Known, Repair \/ ClearLeaseRow
  PROVE  Recording'
<1>1. /\ db \in Database /\ db'.journal = db.journal /\ UNCHANGED <<txn, online, run>>
      /\ db'.schema = db.schema \/ \A q \in Proc : ~UnderLease(q)
  BY DEF Repair, ClearLeaseRow, Known, Sound, TypeOK, Database, UnderLease, Critical,
         ExecutorStep, ReconcileStep
<1>2. ASSUME NEW q \in Proc, UnderLease(q)'
      PROVE  Grounded(run'[q], View(q)')
  <2>1. UnderLease(q) /\ db'.schema = db.schema
    BY <1>1, <1>2 DEF UnderLease
  <2>2. View(q)'.journal = View(q).journal /\ View(q)'.schema = View(q).schema
    BY <1>1, <2>1 DEF View
  <2>3. Grounded(run[q], View(q))
    BY <2>1 DEF Known, Recording
  <2> QED
    BY <1>1, <2>2, <2>3, SameGrounded
<1> QED
  BY <1>1, <1>2 DEF Known, Recording

\* Every step keeps the invariant.
LEMMA NextRecording ==
  ASSUME Known, Sound', LeaseExcludes, [Next]_vars
  PROVE  Recording'
<1>1. ASSUME NEW p \in Proc, Continue(p)
      PROVE  Recording'
  <2>1. \/ WorkingStep(p) \/ AcquireLease(p) \/ ReleaseLease(p) \/ CloseSession(p)
        \/ BeginTransaction(p) \/ Commit(p) \/ Rollback(p) \/ CallDisconnected(p)
    BY <1>1 DEF Continue, WorkingStep
  <2> QED
    BY <2>1, StepsRecord, AcquireLeaseRecords, RunOnlyRecords
<1>2. ASSUME NEW p \in Proc,
             \/ StartApply(p) \/ StartReconcile(p) \/ CommitRefused(p) \/ Fail(p)
             \/ LoseConnection(p) \/ Crash(p) \/ EndClient(p)
      PROVE  Recording'
  BY <1>2, StepsRecord, RunOnlyRecords, LostRecords
<1>3. CASE UNCHANGED vars
  BY <1>3 DEF vars, Known, Recording, UnderLease, View
<1> QED
  BY <1>1, <1>2, <1>3, OperatorRecords DEF Next

-----------------------------------------------------------------------------
(* The theorems. *)

\* Recording: what a run under the lease has read of the history, and of the
\* schema, is there at each of its later awaits, in every reachable state of
\* every instance.
THEOREM RecordingAlways == Spec => []Recording
<1>1. Init => Recording
  BY DEF Init, Recording, RecordsOK, AppliedAttemptsRecorded, OpenUnrecorded, UnderLease,
         Done, Idle, StateOf, EmptyJournal, NoAttempt
<1>2. Sound /\ InProgress /\ InStep /\ LinearLedger /\ LeaseExcludes /\ Recording
      /\ [Next]_vars => Recording'
  BY NextRecording, NextSound DEF Known
<1> QED
  BY <1>1, <1>2, SoundAlways, InProgressAlways, InStepAlways, LedgerIsLinear,
     LeaseExclusion, PTL DEF Spec

\* AppliedIsRecorded: no attempt is called applied without its record in the
\* history, whatever crashes between the two writes.
THEOREM AppliedHasRecord == Spec => []AppliedIsRecorded
<1>1. Recording => AppliedIsRecorded
  BY DEF Recording, RecordsOK, AppliedIsRecorded
<1> QED
  BY <1>1, RecordingAlways, PTL

\* SuccessIsApplied: a run that reports success leaves the whole repository
\* applied, although it stopped looking at the journal before it released the
\* lease.
THEOREM SuccessLeavesApplied == Spec => SuccessIsApplied
<1> DEFINE Applied ==
      \A p \in Proc :
        run[p].role = "apply" /\ run'[p].result = "success" =>
          \A n \in 1..Len(run[p].repo) :
            /\ n <= Len(db'.journal.applied)
            /\ db'.journal.applied[n].artifact = run[p].repo[n]
<1>1. /\ Sound /\ InProgress /\ InProgress' /\ Recording /\ [Next]_vars
      => [Applied]_vars
  <2> SUFFICES ASSUME Sound, InProgress, InProgress', Recording, [Next]_vars,
                      NEW p \in Proc, run[p].role = "apply", run'[p].result = "success",
                      NEW n \in 1..Len(run[p].repo)
               PROVE  /\ n <= Len(db'.journal.applied)
                      /\ db'.journal.applied[n].artifact = run[p].repo[n]
    OBVIOUS
  <2>1. /\ run[p] \in Run /\ run[p].pc # "idle" /\ run[p].result = "none"
        /\ run'[p].pc = "idle" /\ db \in Database
    BY DEF Sound, TypeOK, InProgress, ProgressOK
  <2>2. CloseSession(p)
    BY <2>1, SuccessCloses
  <2>3. run[p].pc = "close" /\ run[p].error = "none"
    <3>1. run'[p] = [Idle EXCEPT
            !.result = IF run[p].error = "none" THEN "success" ELSE "failed"]
      BY <2>2 DEF CloseSession, Closed, Sound, TypeOK
    <3> QED
      BY <2>2, <3>1 DEF CloseSession, At, Idle
  <2>4. db'.journal = db.journal
    BY <2>1, <2>2 DEF CloseSession, Database
  <2>5. Done(run[p], db.journal)
    BY DEF Recording
  <2>6. Len(run[p].repo) \in Nat /\ Len(db.journal.applied) \in Nat
    BY <2>1 DEF Run, Database, Journal
  <2> QED
    BY <2>3, <2>4, <2>5, <2>6 DEF Done
<1> QED
  BY <1>1, SoundAlways, InProgressAlways, RecordingAlways, PTL DEF Spec, SuccessIsApplied

-----------------------------------------------------------------------------
(* Where attempts come from. *)

\* An attempt is new only where no other is open.
LEMMA NewAttempt ==
  ASSUME NEW i \in Journal, NEW j, JournalStep(i, j), NEW k \in AttemptId,
         StateOf(i, k) = "none", StateOf(j, k) # "none"
  PROVE  OpenAttempts(i) = {}
<1>1. k \notin OpenAttempts(i)
  BY DEF OpenAttempts, Unresolved
<1>2. ASSUME NEW n \in AttemptId, NEW s, NEW h \in Journal, h.attempts = i.attempts,
             CanTransition(h, n, s), j = TransitionAttempt(h, n, s)
      PROVE  FALSE
  <2>1. n \in OpenAttempts(i)
    BY <1>2, TransitionChanges DEF OpenAttempts, StateOf
  <2>2. j.attempts[k] = h.attempts[k]
    BY <1>1, <1>2, <2>1, TransitionChanges
  <2> QED
    BY <1>2, <2>2 DEF StateOf
<1>3. \A n \in OpenAttempts(i), a \in Artifact :
        LET h == AppendAppliedAndAdvanceHead(i, a, n)
        IN  h \in Journal /\ h.attempts = i.attempts
  BY AppendType, SameAttempts DEF OpenAttempts
<1>4. \A n, outcome : RecordReconciliation(i, n, outcome).attempts = i.attempts
  BY SameAttempts
<1>5. j.attempts # i.attempts
  BY DEF StateOf
<1>6. \A n \in OpenAttempts(i) : n \in AttemptId
  BY DEF OpenAttempts
<1> QED
  BY <1>2, <1>3, <1>4, <1>5, <1>6 DEF JournalStep

\* With no attempt open the only step that touches the attempts is createAttempt.
LEMMA OnlyCreates ==
  ASSUME Known, [Next]_vars, OpenAttempts(db.journal) = {},
         db'.journal.attempts # db.journal.attempts
  PROVE  \E p \in Proc : CreateAttemptRow(p)
<1>1. db \in Database /\ db' # db
  BY DEF Known, Sound, TypeOK
<1>2. ASSUME NEW p \in Proc, NEW pc \in Attempting, At(p, pc)
      PROVE  FALSE
  <2>1. pc \in Critical
    BY DEF Attempting, InPhase, Critical, ExecutorStep, ReconcileStep
  <2>2. OpenAttempts(db.journal) = {run[p].attempt}
    BY <1>2, <2>1, AtFits DEF Known, AttemptsFit
  <2> QED
    BY <2>2
<1>3. ASSUME NEW p \in Proc,
             \/ MarkRunning(p) \/ ExecuteStatement(p) \/ CheckpointStatement(p)
             \/ RecordApplied(p) \/ MarkApplied(p) \/ Commit(p) \/ RequireRecovery(p)
             \/ ReconcileHistory(p) \/ RecordOutcome(p) \/ ResolveAttempt(p)
      PROVE  FALSE
  <2>1. \E pc \in Attempting : At(p, pc)
    BY <1>3 DEF MarkRunning, ExecuteStatement, CheckpointStatement, RecordApplied,
                MarkApplied, Commit, RequireRecovery, ReconcileHistory, RecordOutcome,
                ResolveAttempt, Attempting, InPhase
  <2> QED
    BY <1>2, <2>1
<1>4. ASSUME NEW p \in Proc,
             \/ ReadJournal(p) \/ SelectArtifact(p) \/ AcquireDdlLock(p)
             \/ BeginTransaction(p) \/ CheckPreconditions(p) \/ CheckPostconditions(p)
             \/ ReleaseDdlLock(p) \/ Rollback(p) \/ VerifyOutcome(p)
             \/ CallDisconnected(p) \/ CommitRefused(p) \/ StartApply(p)
             \/ StartReconcile(p) \/ Fail(p) \/ LoseConnection(p) \/ Crash(p)
             \/ EndClient(p)
      PROVE  FALSE
  BY <1>1, <1>4 DEF ReadJournal, SelectArtifact, AcquireDdlLock, BeginTransaction,
     CheckPreconditions, CheckPostconditions, ReleaseDdlLock, Rollback, VerifyOutcome,
     CallDisconnected, CommitRefused, StartApply, StartReconcile, Fail, LoseConnection,
     Crash, EndClient, Proceed, Reject
<1>5. ASSUME NEW p \in Proc, AcquireLease(p) \/ ReleaseLease(p) \/ CloseSession(p)
      PROVE  FALSE
  BY <1>1, <1>5 DEF AcquireLease, ReleaseLease, CloseSession, Write, View, Database
<1>6. ASSUME NEW p \in Proc, ConcludeAttempt(p)
      PROVE  FALSE
  <2> DEFINE k == run[p].attempt
             s == FailedState(run[p])
             j == TransitionAttempt(JournalOf(p), k, s)
  <2>1. CanTransition(JournalOf(p), k, s) /\ WriteJournal(p, j)
    BY <1>1, <1>6 DEF ConcludeAttempt, Transition, Reject, Proceed
  <2>2. txn[p] = NoTxn /\ JournalOf(p) = db.journal
    BY <1>1, <2>1 DEF WriteJournal, Write, JournalOf, View
  <2>3. k \in AttemptId
    BY <1>6 DEF ConcludeAttempt, At, Known, Sound, LocalOK, AttemptOK, ExecutorStep
  <2>4. k \in OpenAttempts(db.journal)
    BY <1>1, <2>1, <2>2, <2>3, TransitionOpens DEF Database
  <2> QED
    BY <2>4
<1>7. ~(Repair \/ ClearLeaseRow \/ UNCHANGED vars)
  BY <1>1 DEF Repair, ClearLeaseRow, vars, Database
<1>8. ASSUME NEW p \in Proc, Continue(p)
      PROVE  CreateAttemptRow(p)
  BY <1>3, <1>4, <1>5, <1>6, <1>8 DEF Continue
<1> QED
  BY <1>4, <1>7, <1>8 DEF Next

\* An attempt is made on a healthy journal and on the schema before its artifact.
LEMMA CreateStartsKnown ==
  ASSUME Known, NEW p \in Proc, CreateAttemptRow(p), NEW k \in AttemptId,
         StateOf(db.journal, k) = "none", StateOf(db'.journal, k) # "none"
  PROVE  /\ ValidateJournalState(db.journal)
         /\ db'.journal.attempts[k].expectedHead = db.journal.head
         /\ db.schema = UNION {Effects(a) : a \in Recorded(db.journal)}
<1> DEFINE i == db.journal
           l == run[p]
           a == ArtifactOf(l)
<1>1. /\ l \in Run /\ i \in Journal /\ txn[p] = NoTxn /\ JournalOf(p) = i
      /\ OpenAttempts(i) = {} /\ RecordsOK(i) /\ l.n \in 1..Len(l.repo)
      /\ HistoryIs(l.repo, i, l.n - 1) /\ RecordsMatch(i, {}) /\ l.head = i.head
      /\ db.schema = Before(l.repo, l.n)
  BY CreateKnown DEF CreateAttemptRow
<1>2. ValidateJournalState(i)
  BY <1>1 DEF ValidateJournalState, Known, LinearLedger, RecordsOK, RecordsMatch,
              RecordsMatchAttempts, StateOf
<1>3. db'.journal.attempts[k].expectedHead = i.head
  <2>1. PICK n \in AttemptId :
          \/ WriteJournal(p, CreateAttempt(i, n, a, l.head))
          \/ Reject(p, "failed")
    BY <1>1 DEF CreateAttemptRow
  <2> DEFINE j == CreateAttempt(i, n, a, l.head)
  <2>2. WriteJournal(p, j)
    BY <2>1 DEF Reject, Proceed
  <2>3. db'.journal = j
    <3>1. db' = [db EXCEPT !.journal = j]
      BY <1>1, <2>2 DEF WriteJournal, Write, View
    <3> QED
      BY <3>1 DEF Known, Sound, TypeOK, Database
  <2>4. /\ j.attempts[n].expectedHead = i.head
        /\ \A m \in AttemptId \ {n} : j.attempts[m] = i.attempts[m]
    BY <1>1, CreateChanges
  <2> HIDE DEF j
  <2>5. k = n
    BY <2>3, <2>4 DEF StateOf
  <2> QED
    BY <2>3, <2>4, <2>5
<1>4. db.schema = UNION {Effects(b) : b \in Recorded(i)}
  <2>1. Len(i.applied) = l.n - 1 /\ \A n \in 1..(l.n - 1) : i.applied[n].artifact = l.repo[n]
    BY <1>1 DEF HistoryIs, IsJournalPrefix
  <2>2. {Effects(l.repo[m]) : m \in 1..(l.n - 1)} = {Effects(b) : b \in Recorded(i)}
    BY <2>1 DEF Recorded
  <2> QED
    BY <1>1, <2>2 DEF Before
<1> QED
  BY <1>2, <1>3, <1>4

\* StartsFromKnownState: every attempt starts on a healthy journal, at the head
\* it expects, and on the schema its artifact was planned for, although all three
\* were read in earlier steps.
THEOREM AttemptsStartKnown == Spec => StartsFromKnownState
<1> DEFINE StartsKnown ==
      \A k \in AttemptId :
        StateOf(db.journal, k) = "none" /\ StateOf(db'.journal, k) # "none" =>
          /\ ValidateJournalState(db.journal)
          /\ db'.journal.attempts[k].expectedHead = db.journal.head
          /\ db.schema = UNION {Effects(a) : a \in Recorded(db.journal)}
<1>1. /\ Sound /\ InProgress /\ InStep /\ Recording /\ LinearLedger /\ LeaseExcludes
      /\ [Next]_vars
      => [StartsKnown]_vars
  <2> SUFFICES ASSUME Known, LeaseExcludes, [Next]_vars, NEW k \in AttemptId,
                      StateOf(db.journal, k) = "none", StateOf(db'.journal, k) # "none"
               PROVE  /\ ValidateJournalState(db.journal)
                      /\ db'.journal.attempts[k].expectedHead = db.journal.head
                      /\ db.schema = UNION {Effects(a) : a \in Recorded(db.journal)}
    BY DEF Known
  <2>1. JournalStep(db.journal, db'.journal) /\ db.journal \in Journal
    BY NextKept DEF Known, Kept, Sound, TypeOK, Database
  <2>2. OpenAttempts(db.journal) = {}
    BY <2>1, NewAttempt
  <2>3. db'.journal.attempts # db.journal.attempts
    BY DEF StateOf
  <2> QED
    BY <2>2, <2>3, OnlyCreates, CreateStartsKnown
<1> QED
  BY <1>1, SoundAlways, InProgressAlways, InStepAlways, RecordingAlways, LedgerIsLinear,
     LeaseExclusion, PTL DEF Spec, StartsFromKnownState

-----------------------------------------------------------------------------
(* Open transactions under a lease row. *)

\* e is the database d with more in it.
JournalGrows(i, j) ==
  /\ Len(i.applied) <= Len(j.applied)
  /\ \A n \in 1..Len(i.applied) : j.applied[n] = i.applied[n]
  /\ \A k \in AttemptId : StateOf(i, k) # "none" => StateOf(j, k) # "none"

Grows(d, e) == JournalGrows(d.journal, e.journal) /\ d.schema \subseteq e.schema

\* Only the owner of the lease row has a transaction open, and it has in it
\* whatever is committed.
OpenTransactions ==
  \A p \in Proc : txn[p] # NoTxn => db.lease = p /\ Grows(db, txn[p])

LEMMA GrowsOn ==
  ASSUME NEW d \in Database, NEW e \in Database, NEW f \in Database,
         Grows(d, e), Grows(e, f)
  PROVE  Grows(d, d) /\ Grows(d, f)
<1>1. /\ Len(d.journal.applied) \in Nat /\ Len(e.journal.applied) \in Nat
      /\ Len(f.journal.applied) \in Nat
  BY DEF Database, Journal
<1> QED
  BY <1>1 DEF Grows, JournalGrows

\* A transition and a record only add to the journal.
LEMMA JournalGrowsOn ==
  ASSUME NEW j \in Journal, NEW k \in AttemptId
  PROVE  /\ \A s : CanTransition(j, k, s) => JournalGrows(j, TransitionAttempt(j, k, s))
         /\ \A a \in Artifact : JournalGrows(j, AppendAppliedAndAdvanceHead(j, a, k))
<1>1. Len(j.applied) \in Nat
  BY DEF Journal
<1>2. ASSUME NEW s, CanTransition(j, k, s)
      PROVE  JournalGrows(j, TransitionAttempt(j, k, s))
  <2> DEFINE i == TransitionAttempt(j, k, s)
  <2>1. s # "none"
    BY <1>2, TransitionOpens DEF Terminal, Unresolved
  <2>2. /\ i.applied = j.applied /\ StateOf(i, k) = s
        /\ \A n \in AttemptId \ {k} : i.attempts[n] = j.attempts[n]
    BY <1>2, TransitionChanges
  <2> HIDE DEF i
  <2> QED
    BY <1>1, <2>1, <2>2 DEF JournalGrows, StateOf, i
<1>3. ASSUME NEW a \in Artifact
      PROVE  JournalGrows(j, AppendAppliedAndAdvanceHead(j, a, k))
  <2> DEFINE i == AppendAppliedAndAdvanceHead(j, a, k)
  <2>1. /\ i.attempts = j.attempts /\ Len(i.applied) = Len(j.applied) + 1
        /\ \A n \in 1..Len(j.applied) : i.applied[n] = j.applied[n]
    BY <1>3, AppendChanges
  <2> HIDE DEF i
  <2> QED
    BY <1>1, <2>1 DEF JournalGrows, StateOf, i
<1> QED
  BY <1>2, <1>3

\* What a step of p leaves in its transaction: what it found in it and more.
Adds(p) ==
  txn'[p] # NoTxn => db' = db /\ Grows(View(p), txn'[p])

\* A write does.
LEMMA WriteAdds ==
  ASSUME Sound, NEW p \in Proc, NEW d \in Database, Write(p, d), Grows(View(p), d)
  PROVE  Adds(p)
BY DEF Write, Adds, Sound, TypeOK

\* So does the write of a journal that has grown.
LEMMA JournalAdds ==
  ASSUME Sound, NEW p \in Proc, NEW j \in Journal, WriteJournal(p, j),
         JournalGrows(JournalOf(p), j)
  PROVE  Adds(p)
<1> DEFINE d == [View(p) EXCEPT !.journal = j]
<1>1. View(p) \in Database
  BY ViewType DEF Sound
<1>2. d \in Database /\ d.journal = j /\ d.schema = View(p).schema
  BY <1>1 DEF Database
<1>3. Write(p, d) /\ Grows(View(p), d)
  BY <1>2 DEF WriteJournal, Grows, JournalOf
<1> HIDE DEF d
<1> QED
  BY <1>2, <1>3, WriteAdds

\* A step that leaves database and transactions alone does.
LEMMA SameAdds ==
  ASSUME Sound, NEW p \in Proc, UNCHANGED <<db, txn>>
  PROVE  Adds(p)
<1>1. View(p) \in Database
  BY ViewType DEF Sound
<1>2. Grows(View(p), View(p))
  BY <1>1 DEF Grows, JournalGrows, Database, Journal
<1> QED
  BY <1>2 DEF Adds, View

LEMMA TransitionAdds ==
  ASSUME Sound, NEW p \in Proc, run[p].attempt \in AttemptId,
         NEW s \in AttemptState, NEW l, Transition(p, s, l)
  PROVE  Adds(p)
<1> DEFINE k == run[p].attempt
           j == TransitionAttempt(JournalOf(p), k, s)
<1>1. JournalOf(p) \in Journal
  BY ViewType DEF Sound
<1>2. CASE CanTransition(JournalOf(p), k, s)
  <2>1. j \in Journal /\ JournalGrows(JournalOf(p), j)
    BY <1>1, <1>2, TransitionAttemptType, JournalGrowsOn
  <2>2. WriteJournal(p, j)
    BY <1>2 DEF Transition
  <2> HIDE DEF j
  <2> QED
    BY <2>1, <2>2, JournalAdds
<1>3. CASE ~CanTransition(JournalOf(p), k, s)
  BY <1>3, SameAdds DEF Transition, Reject, Proceed
<1> QED
  BY <1>2, <1>3

\* A step at an await outside transactions writes into none.
LEMMA OutsideAdds ==
  ASSUME Sound, InStep, NEW p \in Proc,
         \/ CreateAttemptRow(p) \/ MarkRunning(p) \/ RequireRecovery(p)
         \/ ReconcileHistory(p) \/ RecordOutcome(p) \/ ResolveAttempt(p)
  PROVE  txn'[p] = NoTxn
<1>1. PICK pc \in {"create", "start"} \cup ReconcileStep : At(p, pc)
  BY DEF CreateAttemptRow, MarkRunning, RequireRecovery, ReconcileHistory, RecordOutcome,
         ResolveAttempt, ReconcileStep
<1>2. pc \in Critical
  BY DEF Critical, ExecutorStep
<1>3. txn[p] = NoTxn
  BY <1>1, <1>2, AtFits DEF TransactionFits, OutsideTransaction
<1>4. \A j : WriteJournal(p, j) => txn' = txn
  BY <1>3 DEF WriteJournal, Write
<1> QED
  BY <1>3, <1>4 DEF CreateAttemptRow, MarkRunning, RequireRecovery, ReconcileHistory,
     RecordOutcome, ResolveAttempt, Transition, Reject, Proceed

\* Every step under the lease adds.
LEMMA StepsAdd ==
  ASSUME Sound, InStep, NEW p \in Proc,
         WorkingStep(p) \/ BeginTransaction(p) \/ Commit(p) \/ CommitRefused(p)
         \/ Rollback(p) \/ ReleaseLease(p)
  PROVE  Adds(p)
<1>1. View(p) \in Database /\ JournalOf(p) \in Journal /\ run[p] \in Run /\ LocalOK(run[p])
  BY ViewType DEF Sound, TypeOK
<1>2. CASE \/ ReadJournal(p) \/ SelectArtifact(p) \/ AcquireDdlLock(p)
           \/ CheckPreconditions(p) \/ CheckPostconditions(p) \/ ReleaseDdlLock(p)
           \/ VerifyOutcome(p)
  BY <1>2, SameAdds
     DEF ReadJournal, SelectArtifact, AcquireDdlLock, CheckPreconditions,
         CheckPostconditions, ReleaseDdlLock, VerifyOutcome, Proceed, Reject
<1>3. CASE \/ CreateAttemptRow(p) \/ MarkRunning(p) \/ RequireRecovery(p)
           \/ ReconcileHistory(p) \/ RecordOutcome(p) \/ ResolveAttempt(p)
  BY <1>3, OutsideAdds DEF Adds
<1>4. CASE MarkApplied(p) \/ ConcludeAttempt(p)
  <2>1. run[p].attempt \in AttemptId
    BY <1>1, <1>4 DEF MarkApplied, ConcludeAttempt, At, LocalOK, AttemptOK, ExecutorStep
  <2>2. "applied" \in AttemptState /\ FailedState(run[p]) \in AttemptState
    BY DEF AttemptState, Terminal, Unresolved, FailedState
  <2> QED
    BY <1>4, <2>1, <2>2, TransitionAdds DEF MarkApplied, ConcludeAttempt
<1>5. CASE RecordApplied(p)
  <2> DEFINE a == ArtifactOf(run[p])
             j == AppendAppliedAndAdvanceHead(JournalOf(p), a, run[p].attempt)
  <2>1. run[p].attempt \in AttemptId /\ InArtifact(run[p])
    BY <1>1, <1>5, LocalInArtifact
       DEF RecordApplied, At, LocalOK, AttemptOK, ExecutorStep
  <2>2. a \in Artifact
    BY <2>1, PhasesType DEF InArtifact
  <2>3. j \in Journal /\ JournalGrows(JournalOf(p), j)
    BY <1>1, <2>1, <2>2, AppendType, JournalGrowsOn
  <2>4. WriteJournal(p, j) \/ UNCHANGED <<db, txn>>
    BY <1>5 DEF RecordApplied, Reject, Proceed
  <2> HIDE DEF j
  <2> QED
    BY <2>3, <2>4, JournalAdds, SameAdds
<1>6. CASE ExecuteStatement(p)
  <2> DEFINE d == [View(p) EXCEPT !.schema = @ \cup {EffectOf(run[p])}]
  <2>1. Write(p, d) /\ At(p, "execute")
    BY <1>6 DEF ExecuteStatement
  <2>2. EffectOf(run[p]) \in UNION {Effects(a) : a \in Artifact}
    BY <1>1, <1>6, <2>1, EffectOfType DEF At, ExecuteStatement
  <2>3. d \in Database /\ d.journal = View(p).journal /\ View(p).schema \subseteq d.schema
    BY <1>1, <2>2 DEF Database
  <2>4. Grows(View(p), d)
    BY <1>1, <2>3 DEF Grows, JournalGrows, Database, Journal
  <2> HIDE DEF d
  <2> QED
    BY <2>1, <2>3, <2>4, WriteAdds
<1>7. CASE CheckpointStatement(p)
  <2> DEFINE d == [View(p) EXCEPT !.marks = @ \cup {<<run[p].attempt, EffectOf(run[p])>>}]
  <2>1. Write(p, d)
    BY <1>7 DEF CheckpointStatement
  <2>2. d.journal = View(p).journal /\ d.schema = View(p).schema
    BY <1>1 DEF Database
  <2>3. Grows(View(p), d)
    BY <1>1, <2>2 DEF Grows, JournalGrows, Database, Journal
  <2> HIDE DEF d
  <2> QED
    BY <2>1, <2>3 DEF Write, Adds, Sound, TypeOK
<1>8. CASE BeginTransaction(p)
  <2>1. At(p, "begin") /\ txn' = [txn EXCEPT ![p] = db] /\ db' = db
    BY <1>8 DEF BeginTransaction
  <2>2. txn[p] = NoTxn
    BY <2>1, AtFits DEF TransactionFits, OutsideTransaction, Critical, ExecutorStep
  <2>3. Grows(db, db)
    BY DEF Grows, JournalGrows, Sound, TypeOK, Database, Journal
  <2> QED
    BY <2>1, <2>2, <2>3 DEF Adds, View, Sound, TypeOK
<1>9. CASE Commit(p) \/ Rollback(p)
  BY <1>9 DEF Commit, Rollback, Adds, Sound, TypeOK
<1>10. CASE CommitRefused(p)
  <2>1. db' = db /\ (txn' = txn \/ txn'[p] = NoTxn)
    BY <1>10 DEF CommitRefused, Sound, TypeOK
  <2> QED
    BY <2>1, SameAdds DEF Adds
<1>11. CASE ReleaseLease(p)
  <2> DEFINE d == [View(p) EXCEPT !.lease = IF @ = p THEN Null ELSE @]
  <2>1. Write(p, d) \/ UNCHANGED <<db, txn>>
    BY <1>11 DEF ReleaseLease
  <2>2. d.journal = View(p).journal /\ d.schema = View(p).schema
    BY <1>1 DEF Database
  <2>3. Grows(View(p), d)
    BY <1>1, <2>2 DEF Grows, JournalGrows, Database, Journal
  <2> HIDE DEF d
  <2> QED
    BY <2>1, <2>3, SameAdds DEF Write, Adds, Sound, TypeOK
<1> QED
  BY <1>2, <1>3, <1>4, <1>5, <1>6, <1>7, <1>8, <1>9, <1>10, <1>11 DEF WorkingStep

\* A step under the lease keeps the transactions in order: no other session can
\* have one.
LEMMA StepsHold ==
  ASSUME Sound, Sound', Leased, InStep, OpenTransactions, LeaseKind = "row",
         NEW p \in Proc, UnderLease(p),
         \A q \in Proc \ {p} : txn'[q] = txn[q],
         Adds(p)
  PROVE  OpenTransactions'
<1>1. db.lease = p /\ db \in Database
  BY DEF Leased, LeaseOK, HoldsLease, UnderLease, Sound, TypeOK
<1>2. \A q \in Proc \ {p} : txn'[q] = NoTxn
  BY <1>1 DEF OpenTransactions
<1>3. ASSUME txn'[p] # NoTxn
      PROVE  db' = db /\ Grows(db, txn'[p])
  <2>1. db' = db /\ Grows(View(p), txn'[p])
    BY <1>3 DEF Adds
  <2>2. Grows(db, View(p)) /\ View(p) \in Database /\ txn'[p] \in Database
    <3>1. Grows(db, db)
      BY <1>1 DEF Grows, JournalGrows, Database, Journal
    <3> QED
      BY <1>3, <3>1, ViewType DEF View, OpenTransactions, Sound, TypeOK
  <2> QED
    BY <1>1, <2>1, <2>2, GrowsOn
<1> QED
  BY <1>1, <1>2, <1>3 DEF OpenTransactions

\* A step that opens no transaction and takes no lease from the owner of one.
LEMMA OutsideHold ==
  ASSUME OpenTransactions,
         \A q \in Proc : txn'[q] # NoTxn =>
           /\ txn'[q] = txn[q]
           /\ db'.journal = db.journal /\ db'.schema = db.schema /\ db'.lease = db.lease
  PROVE  OpenTransactions'
BY DEF OpenTransactions, Grows

\* Every step keeps the transactions in order.
LEMMA NextHold ==
  ASSUME Sound, Sound', Leased, InStep, OpenTransactions, LeaseKind = "row", [Next]_vars
  PROVE  OpenTransactions'
<1>1. db \in Database /\ txn \in [Proc -> Database \cup {NoTxn}] /\ Null \notin Proc
  BY ExecutorAssumption DEF Sound, TypeOK
<1>2. ASSUME NEW p \in Proc,
             WorkingStep(p) \/ BeginTransaction(p) \/ Commit(p) \/ CommitRefused(p)
             \/ Rollback(p) \/ ReleaseLease(p)
      PROVE  OpenTransactions'
  <2>1. Adds(p)
    BY <1>2, StepsAdd
  <2>2. UnderLease(p) /\ \A q \in Proc \ {p} : txn'[q] = txn[q]
    <3>1. CASE WorkingStep(p)
      BY <1>1, <3>1, StepsWork DEF Working, WritesOn, Write, UnderLease
    <3>2. CASE BeginTransaction(p) \/ CommitRefused(p)
      BY <1>1, <3>2 DEF BeginTransaction, CommitRefused, At, UnderLease, Critical,
                        ExecutorStep
    <3>3. CASE Commit(p) \/ Rollback(p) \/ ReleaseLease(p)
      BY <1>1, <3>3 DEF Commit, Rollback, ReleaseLease, Write, At, UnderLease, Critical,
                        ExecutorStep
    <3> QED
      BY <1>2, <3>1, <3>2, <3>3
  <2> QED
    BY <2>1, <2>2, StepsHold
<1>3. ASSUME NEW p \in Proc, AcquireLease(p)
      PROVE  OpenTransactions'
  <2>1. db.lease = Null /\ txn' = txn
    BY <1>3 DEF AcquireLease
  <2>2. \A q \in Proc : txn'[q] = NoTxn
    BY <1>1, <2>1 DEF OpenTransactions
  <2> QED
    BY <2>2 DEF OpenTransactions
<1>4. ASSUME NEW p \in Proc,
             CloseSession(p) \/ Crash(p) \/ LoseConnection(p) \/ EndClient(p)
      PROVE  OpenTransactions'
  <2>1. /\ txn'[p] = NoTxn /\ \A q \in Proc \ {p} : txn'[q] = txn[q]
        /\ db'.journal = db.journal /\ db'.schema = db.schema
        /\ db'.lease = db.lease \/ db.lease = p
    BY <1>1, <1>4 DEF CloseSession, CloseLeaves, Crash, LoseConnection, EndClient,
                      EndSession, Database
  <2>2. ASSUME NEW q \in Proc, txn'[q] # NoTxn
        PROVE  txn'[q] = txn[q] /\ db'.lease = db.lease
    BY <2>1, <2>2 DEF OpenTransactions
  <2> QED
    BY <2>1, <2>2, OutsideHold
<1>5. ASSUME NEW p \in Proc,
             StartApply(p) \/ StartReconcile(p) \/ Fail(p) \/ CallDisconnected(p)
      PROVE  OpenTransactions'
  BY <1>5, OutsideHold DEF StartApply, StartReconcile, Fail, CallDisconnected
<1>6. CASE Repair
  <2>1. \A q \in Proc : txn'[q] = NoTxn
    BY <1>6 DEF Repair
  <2> QED
    BY <2>1 DEF OpenTransactions
<1>7. CASE ClearLeaseRow
  <2>1. txn' = txn /\ db.lease # Null /\ txn[db.lease] = NoTxn
    BY <1>7 DEF ClearLeaseRow
  <2>2. \A q \in Proc : txn'[q] = NoTxn
    BY <1>1, <2>1 DEF OpenTransactions
  <2> QED
    BY <2>2 DEF OpenTransactions
<1>8. CASE UNCHANGED vars
  BY <1>8, OutsideHold DEF vars
<1>9. ASSUME NEW p \in Proc, Continue(p)
      PROVE  OpenTransactions'
  <2>1. \/ WorkingStep(p) \/ AcquireLease(p) \/ ReleaseLease(p) \/ CloseSession(p)
        \/ BeginTransaction(p) \/ Commit(p) \/ Rollback(p) \/ CallDisconnected(p)
    BY <1>9 DEF Continue, WorkingStep
  <2> QED
    BY <1>2, <1>3, <1>4, <1>5, <2>1
<1> QED
  BY <1>2, <1>4, <1>5, <1>6, <1>7, <1>8, <1>9 DEF Next

\* A history with more records begins with the ones it had.
LEMMA GrownHistory ==
  ASSUME NEW i \in Journal, NEW j \in Journal, JournalGrows(i, j)
  PROVE  i.applied = SubSeq(j.applied, 1, Len(i.applied))
<1> DEFINE s == i.applied
           t == j.applied
           m == Len(s)
<1>1. s \in Seq(AppliedRecord) /\ t \in Seq(AppliedRecord) /\ m \in Nat /\ Len(t) \in Nat
  BY DEF Journal
<1>2. m <= Len(t) /\ \A n \in 1..m : t[n] = s[n]
  BY DEF JournalGrows
<1> HIDE DEF s, t
<1>3. SubSeq(t, 1, m) = [n \in 1..m |-> t[n]]
  BY <1>1, <1>2
<1>4. s = [n \in 1..m |-> s[n]]
  BY <1>1
<1> QED
  BY <1>2, <1>3, <1>4 DEF s, t

\* NoLostUpdate: with the lease kept as a row, which the owner deletes inside its
\* own transaction, a commit publishes its transaction over the very database it
\* began on, however late it comes.
THEOREM CommitsLoseNothing == LeaseKind = "row" /\ Spec => []NoLostUpdate
<1> SUFFICES ASSUME LeaseKind = "row" PROVE Spec => []NoLostUpdate
  OBVIOUS
<1>1. Init => OpenTransactions
  BY DEF Init, OpenTransactions
<1>2. Sound /\ Control /\ InStep /\ OpenTransactions /\ [Next]_vars => OpenTransactions'
  BY NextSound, NextHold DEF Control, Leased
<1>3. Sound /\ OpenTransactions => NoLostUpdate
  <2> SUFFICES ASSUME Sound, OpenTransactions, NEW p \in Proc, txn[p] # NoTxn
               PROVE  /\ db.journal.applied =
                           SubSeq(txn[p].journal.applied, 1, Len(db.journal.applied))
                      /\ db.schema \subseteq txn[p].schema
                      /\ \A k \in AttemptId : StateOf(db.journal, k) # "none" =>
                           StateOf(txn[p].journal, k) # "none"
    BY DEF NoLostUpdate
  <2>1. db.journal \in Journal /\ txn[p].journal \in Journal
    BY DEF Sound, TypeOK, Database
  <2>2. JournalGrows(db.journal, txn[p].journal) /\ db.schema \subseteq txn[p].schema
    BY DEF OpenTransactions, Grows
  <2> QED
    BY <2>1, <2>2, GrownHistory DEF JournalGrows
<1> QED
  BY <1>1, <1>2, <1>3, SoundAlways, ControlAlways, InStepAlways, PTL DEF Spec
-----------------------------------------------------------------------------
(* What the statements of an attempt have left in the schema. *)

\* Statement y of phase x is behind the await of l.
Behind(l, x, y) ==
  \/ l.pc \in {"lock", "begin", "check", "execute"} /\ (x < l.ph \/ (x = l.ph /\ y < l.st))
  \/ l.pc = "mark" /\ (x < l.ph \/ (x = l.ph /\ y <= l.st))
  \/ l.pc \in {"postcheck", "commit"} /\ x <= l.ph
  \/ l.pc = "unlock" /\ l.error = "none" /\ x <= l.ph
  \/ l.pc \in {"record", "applied"}

\* The effect of statement y of phase x of the artifact l is at.
EffectAt(l, x, y) == <<ArtifactOf(l), x, y>>

\* The awaits of a reconciliation that has been given proof.
Verified(l) ==
  l.pc \in {"require", "history", "audit", "resolve"} /\ l.outcome = "applied"

\* What a run knows to be in the schema of the database d its session sees.
Effected(l, d) ==
  /\ \A x \in 1..Len(Phases(l)) : \A y \in 1..Phases(l)[x].statements :
       Behind(l, x, y) => EffectAt(l, x, y) \in d.schema
  /\ Verified(l) => Effects(d.journal.attempts[l.attempt].artifact) \subseteq d.schema

\* Every attempt the journal j calls applied is in the schema, and every record
\* is of the artifact of its attempt.
AppliedIn(j, schema) ==
  \A k \in AttemptId :
    StateOf(j, k) = "applied" => Effects(j.attempts[k].artifact) \subseteq schema

OwnRecords(j) ==
  \A n \in 1..Len(j.applied) :
    j.attempts[j.applied[n].attempt].artifact = j.applied[n].artifact

Complete(d) == AppliedIn(d.journal, d.schema) /\ OwnRecords(d.journal)

\* e has the schema of d and more, and a checkpoint d lacks only with its effect.
Vouches(d, e) ==
  /\ d.schema \subseteq e.schema
  /\ \A mark \in e.marks \ d.marks : mark[2] \in e.schema

Completeness ==
  /\ Complete(db)
  /\ \A p \in Proc : UnderLease(p) =>
       /\ Complete(View(p)) /\ Effected(run[p], View(p))
       /\ txn[p] # NoTxn => Vouches(db, txn[p])

-----------------------------------------------------------------------------
(* The awaits of a run and the statements behind them. *)

\* The effects of an artifact are those of the statements of its phases.
LEMMA EffectsOf ==
  ASSUME NEW l, NEW d,
         \A x \in 1..Len(Phases(l)) : \A y \in 1..Phases(l)[x].statements :
           EffectAt(l, x, y) \in d.schema
  PROVE  Effects(ArtifactOf(l)) \subseteq d.schema
BY DEF Effects, Phases, EffectAt

\* A run that is at none of these awaits claims nothing.
LEMMA NothingEffected ==
  ASSUME NEW l, NEW d,
         \/ GaveUp(l)
         \/ l.pc \in {"lease", "read", "select", "create", "start", "verify"}
  PROVE  Effected(l, d)
BY DEF GaveUp, Effected, Behind, Verified

\* What a run claims is there in a larger schema.
LEMMA EffectedOn ==
  ASSUME NEW l, NEW d, Effected(l, d),
         NEW e, d.schema \subseteq e.schema,
         Verified(l) =>
           e.journal.attempts[l.attempt].artifact = d.journal.attempts[l.attempt].artifact
  PROVE  Effected(l, e)
<1>1. Verified(l) => Effects(e.journal.attempts[l.attempt].artifact) \subseteq e.schema
  BY DEF Effected
<1> QED
  BY <1>1 DEF Effected

\* The first m phases of the artifact of l are in the schema of d.
Through(l, d, m) ==
  \A x \in 1..Len(Phases(l)) : \A y \in 1..Phases(l)[x].statements :
    x <= m => EffectAt(l, x, y) \in d.schema

\* The same run with other flags.
LEMMA SameThrough ==
  ASSUME NEW l, NEW d, NEW m, Through(l, d, m), NEW k, k.repo = l.repo, k.n = l.n
  PROVE  Through(k, d, m)
BY DEF Through, Phases, ArtifactOf, EffectAt

\* A run about to begin a phase has all before it in the schema.
LEMMA EnterEffected ==
  ASSUME NEW l \in Run, InArtifact(l), l.ph >= 1, l.st = 1,
         NEW d, Through(l, d, l.ph - 1)
  PROVE  Effected(EnterPhase(l), d)
<1> DEFINE m == EnterPhase(l)
<1>1. /\ m.pc \in {"record", "lock", "begin", "check"}
      /\ m.pc = "record" => l.ph > Len(Phases(l))
      /\ m.ph = l.ph /\ m.st = 1 /\ m.repo = l.repo /\ m.n = l.n
  BY DEF EnterPhase, Run
<1>2. l.ph \in Nat /\ Len(Phases(l)) \in Nat
      /\ \A x \in 1..Len(Phases(l)) : Phases(l)[x].statements \in Nat
  BY PhasesType DEF Run, InArtifact
<1> HIDE DEF m
<1>3. Through(m, d, l.ph - 1) /\ Phases(m) = Phases(l)
  BY <1>1, SameThrough DEF Phases, ArtifactOf
<1>4. ASSUME NEW x \in 1..Len(Phases(m)), NEW y \in 1..Phases(m)[x].statements,
             Behind(m, x, y)
      PROVE  EffectAt(m, x, y) \in d.schema
  <2>1. y \in Nat /\ y >= 1 /\ x \in Nat
    BY <1>2, <1>3
  <2>2. x <= l.ph - 1
    BY <1>1, <1>2, <1>3, <1>4, <2>1 DEF Behind
  <2> QED
    BY <1>3, <1>4, <2>2 DEF Through
<1>5. ~Verified(m)
  BY <1>1 DEF Verified
<1> QED
  BY <1>4, <1>5 DEF Effected, m

\* Behind a phase a run goes on with that phase in the schema, or gives up.
LEMMA AfterFinallyEffected ==
  ASSUME NEW l, InArtifact(l), NEW d, l.error = "none" => Through(l, d, l.ph)
  PROVE  Effected(AfterFinally(l), d)
<1>1. l \in Run /\ l.ph \in Nat
  BY DEF InArtifact, Run
<1>2. CASE l.error # "none"
  BY <1>1, <1>2, FinallyGivesUp, NothingEffected
<1>3. CASE l.error = "none" /\ l.ph < Len(Phases(l))
  <2> DEFINE k == [l EXCEPT !.ph = @ + 1, !.st = 1]
  <2>1. l.ph + 1 \in Nat /\ l.ph + 1 >= 1 /\ (l.ph + 1) - 1 = l.ph
    BY <1>1
  <2>2. /\ k \in Run /\ k.ph = l.ph + 1 /\ k.st = 1 /\ k.repo = l.repo /\ k.n = l.n
        /\ k.attempt = l.attempt /\ k.leased = l.leased
    BY <1>1, <2>1 DEF Run
  <2>3. AfterFinally(l) = EnterPhase(k)
    BY <1>3 DEF AfterFinally
  <2> HIDE DEF k
  <2>4. InArtifact(k)
    BY <2>2 DEF InArtifact
  <2>5. Through(k, d, l.ph)
    BY <1>3, <2>2, SameThrough
  <2> QED
    BY <2>1, <2>2, <2>3, <2>4, <2>5, EnterEffected
<1>4. CASE l.error = "none" /\ ~(l.ph < Len(Phases(l)))
  <2>1. AfterFinally(l) = NextArtifact(l) /\ NextArtifact(l).pc = "select"
    BY <1>4 DEF AfterFinally, NextArtifact, Idle
  <2> QED
    BY <2>1, NothingEffected
<1> QED
  BY <1>2, <1>3, <1>4

LEMMA FinallyEffected ==
  ASSUME NEW l, InArtifact(l), NEW d, l.error = "none" => Through(l, d, l.ph)
  PROVE  Effected(Finally(l), d)
<1>1. CASE ~l.locked
  BY <1>1, AfterFinallyEffected DEF Finally
<1>2. CASE l.locked
  <2> DEFINE m == [l EXCEPT !.pc = "unlock"]
  <2>1. /\ m.pc = "unlock" /\ m.error = l.error /\ m.ph = l.ph /\ m.n = l.n
        /\ m.repo = l.repo /\ Finally(l) = m
    BY <1>2 DEF InArtifact, Run, Finally
  <2> HIDE DEF m
  <2>2. l.error = "none" => Through(m, d, m.ph)
    BY <2>1, SameThrough
  <2> QED
    BY <2>1, <2>2 DEF Effected, Behind, Verified, Through
<1> QED
  BY <1>1, <1>2

-----------------------------------------------------------------------------
(* What the operations of the journal leave complete. *)

\* A larger schema under the same journal.
LEMMA LargerComplete ==
  ASSUME NEW d, Complete(d), NEW e, d.schema \subseteq e.schema,
         e.journal.attempts = d.journal.attempts, e.journal.applied = d.journal.applied
  PROVE  Complete(e)
BY DEF Complete, AppliedIn, OwnRecords, StateOf

\* An attempt that is new is neither applied nor recorded.
LEMMA CreateComplete ==
  ASSUME NEW j \in Journal, NEW k \in AttemptId, NEW a, NEW h,
         CanCreate(j, k), RecordsMatch(j, {}),
         NEW d, Complete(d), d.journal = j,
         NEW e, e.journal = CreateAttempt(j, k, a, h), e.schema = d.schema
  PROVE  Complete(e)
<1> DEFINE i == CreateAttempt(j, k, a, h)
<1>1. /\ i.applied = j.applied /\ StateOf(i, k) = "started"
      /\ \A n \in AttemptId \ {k} : i.attempts[n] = j.attempts[n]
  BY CreateChanges
<1> HIDE DEF i
<1>2. AppliedIn(i, d.schema)
  BY <1>1 DEF Complete, AppliedIn, StateOf
<1>3. ASSUME NEW n \in 1..Len(j.applied)
      PROVE  i.attempts[j.applied[n].attempt].artifact = j.applied[n].artifact
  <2>1. j.applied[n].attempt \in AttemptId /\ StateOf(j, j.applied[n].attempt) = "applied"
    BY RecordType DEF RecordsMatch
  <2>2. j.applied[n].attempt # k
    BY <2>1 DEF CanCreate
  <2> QED
    BY <1>1, <2>1, <2>2 DEF Complete, OwnRecords
<1> QED
  BY <1>1, <1>2, <1>3 DEF Complete, OwnRecords, i

\* An attempt becomes applied with its artifact in the schema.
LEMMA TransitionComplete ==
  ASSUME NEW j \in Journal, NEW k \in AttemptId, NEW s, CanTransition(j, k, s),
         NEW d, Complete(d), d.journal = j,
         s = "applied" => Effects(j.attempts[k].artifact) \subseteq d.schema,
         NEW e, e.journal = TransitionAttempt(j, k, s), e.schema = d.schema
  PROVE  Complete(e)
<1> DEFINE i == TransitionAttempt(j, k, s)
<1>1. /\ i.applied = j.applied /\ i.attempts[k].artifact = j.attempts[k].artifact
      /\ StateOf(i, k) = s
      /\ \A n \in AttemptId \ {k} : i.attempts[n] = j.attempts[n]
  BY TransitionChanges
<1> HIDE DEF i
<1>2. \A n \in AttemptId : i.attempts[n].artifact = j.attempts[n].artifact
  BY <1>1
<1>3. AppliedIn(i, d.schema)
  BY <1>1, <1>2 DEF Complete, AppliedIn, StateOf
<1>4. \A n \in 1..Len(j.applied) : j.applied[n].attempt \in AttemptId
  BY RecordType
<1> QED
  BY <1>1, <1>2, <1>3, <1>4 DEF Complete, OwnRecords, i

\* The record of an attempt is of its artifact.
LEMMA AppendComplete ==
  ASSUME NEW j \in Journal, NEW k \in AttemptId, NEW a \in Artifact,
         j.attempts[k].artifact = a,
         NEW d, Complete(d), d.journal = j,
         NEW e, e.journal = AppendAppliedAndAdvanceHead(j, a, k), e.schema = d.schema
  PROVE  Complete(e)
<1> DEFINE i == AppendAppliedAndAdvanceHead(j, a, k)
           m == Len(j.applied)
<1>1. /\ i.attempts = j.attempts /\ m \in Nat /\ Len(i.applied) = m + 1
      /\ \A n \in 1..m : i.applied[n] = j.applied[n]
      /\ i.applied[m + 1].artifact = a /\ i.applied[m + 1].attempt = k
  BY AppendChanges
<1> HIDE DEF i
<1>2. \A n \in 1..m : j.attempts[j.applied[n].attempt].artifact = j.applied[n].artifact
  BY DEF Complete, OwnRecords
<1>3. \A n \in 1..Len(i.applied) : n \in 1..m \/ n = m + 1
  BY <1>1
<1>4. OwnRecords(i)
  BY <1>1, <1>2, <1>3 DEF OwnRecords
<1>5. AppliedIn(i, d.schema)
  BY <1>1 DEF Complete, AppliedIn, StateOf
<1> QED
  BY <1>4, <1>5 DEF Complete, i

-----------------------------------------------------------------------------
(* The steps of a run under the lease. *)

\* What a step under the lease leaves in the database its session sees.
Stored(p) == Complete(After(p)) /\ Effected(run'[p], After(p))

Presumed == Known /\ Completeness

LEMMA AtEffected ==
  ASSUME Presumed, NEW p \in Proc, NEW pc \in Critical, At(p, pc)
  PROVE  /\ run[p] \in Run /\ run[p].pc = pc /\ pc \notin {"idle", "close", "lease"}
         /\ LocalOK(run[p]) /\ ProgressOK(run[p])
         /\ View(p) \in Database /\ JournalOf(p) \in Journal
         /\ JournalOf(p) = View(p).journal
         /\ Complete(View(p)) /\ Effected(run[p], View(p)) /\ Grounded(run[p], View(p))
<1>1. Complete(View(p)) /\ Effected(run[p], View(p))
  BY AtGrounded DEF Presumed, Completeness, UnderLease
<1> QED
  BY <1>1, AtGrounded DEF Presumed

LEMMA ThrowStores ==
  ASSUME Presumed, NEW p \in Proc, run[p].pc \notin {"idle", "close"},
         NEW e \in {"failed", "uncertain"}, run' = [run EXCEPT ![p] = Throw(run[p], e)],
         Complete(After(p))
  PROVE  Stored(p)
<1>1. run[p] \in Run /\ ProgressOK(run[p]) /\ run'[p] = Throw(run[p], e)
  BY DEF Presumed, Known, Sound, TypeOK, InProgress
<1>2. GaveUp(run'[p])
  BY <1>1, ThrowOnward DEF Quit
<1> QED
  BY <1>2, NothingEffected DEF Stored

LEMMA AnswerStores ==
  ASSUME Presumed, NEW p \in Proc, run[p].pc \notin {"idle", "close"},
         NEW l, Answer(p, l), Complete(After(p)), Effected(l, After(p))
  PROVE  Stored(p)
<1>1. CASE run' = [run EXCEPT ![p] = l]
  BY <1>1 DEF Stored, Presumed, Known, Sound, TypeOK
<1>2. CASE run' = [run EXCEPT ![p] = Throw(run[p], Unanswered(run[p]))]
  BY <1>2, ThrowStores DEF Unanswered
<1> QED
  BY <1>1, <1>2 DEF Answer

LEMMA ProceedStores ==
  ASSUME Presumed, NEW p \in Proc, NEW l, Proceed(p, l), Complete(View(p)),
         Effected(l, View(p))
  PROVE  Stored(p)
BY DEF Proceed, Stored, After, View, Presumed, Known, Sound, TypeOK

LEMMA RejectStores ==
  ASSUME Presumed, NEW p \in Proc, run[p].pc \notin {"idle", "close"},
         Complete(View(p)), Reject(p, "failed")
  PROVE  Stored(p)
<1>1. After(p) = View(p)
  BY DEF Reject, Proceed, After, View
<1> QED
  BY <1>1, ThrowStores DEF Reject, Proceed

\* A session sees what it has written.
LEMMA WriteSeen ==
  ASSUME Sound, NEW p \in Proc, NEW d \in Database, Write(p, d)
  PROVE  After(p) = d
BY NoTxnAssumption DEF Write, After, Sound, TypeOK

LEMMA JournalSeen ==
  ASSUME Sound, NEW p \in Proc, NEW j \in Journal, WriteJournal(p, j)
  PROVE  After(p).journal = j /\ After(p).schema = View(p).schema
<1> DEFINE d == [View(p) EXCEPT !.journal = j]
<1>1. View(p) \in Database
  BY ViewType DEF Sound
<1>2. d \in Database /\ d.journal = j /\ d.schema = View(p).schema
  BY <1>1 DEF Database
<1>3. Write(p, d)
  BY DEF WriteJournal
<1> HIDE DEF d
<1> QED
  BY <1>2, <1>3, WriteSeen

\* A transition goes on as l if l is right about the schema it finds.
LEMMA TransitionStores ==
  ASSUME Presumed, NEW p \in Proc, NEW pc \in Critical, At(p, pc),
         run[p].attempt \in AttemptId, NEW s, NEW l, Transition(p, s, l),
         s = "applied" =>
           Effects(JournalOf(p).attempts[run[p].attempt].artifact) \subseteq View(p).schema,
         \A d : d.schema = View(p).schema =>
           \/ Effected(l, d)
           \/ /\ Verified(l) /\ l.attempt = run[p].attempt
              /\ Effects(JournalOf(p).attempts[run[p].attempt].artifact)
                   \subseteq View(p).schema
  PROVE  Stored(p)
<1> DEFINE k == run[p].attempt
           i == JournalOf(p)
           j == TransitionAttempt(i, k, s)
<1>1. /\ run[p].pc \notin {"idle", "close"} /\ i \in Journal /\ i = View(p).journal
      /\ Complete(View(p))
  BY AtEffected
<1>2. CASE CanTransition(i, k, s)
  <2>1. j \in Journal /\ j.attempts[k].artifact = i.attempts[k].artifact
    BY <1>1, <1>2, TransitionAttemptType, TransitionChanges
  <2>2. WriteJournal(p, j) /\ Answer(p, l)
    BY <1>2 DEF Transition
  <2>3. After(p).journal = j /\ After(p).schema = View(p).schema
    BY <2>1, <2>2, JournalSeen DEF Presumed, Known
  <2>4. Complete(After(p))
    BY <1>1, <1>2, <2>3, TransitionComplete
  <2> HIDE DEF j
  <2>5. Effected(l, After(p))
    <3>1. CASE Effected(l, After(p))
      BY <3>1
    <3>2. CASE /\ Verified(l) /\ l.attempt = k
               /\ Effects(i.attempts[k].artifact) \subseteq View(p).schema
      BY <2>1, <2>3, <3>2 DEF Effected, Verified, Behind
    <3> QED
      BY <2>3, <3>1, <3>2
  <2> QED
    BY <1>1, <2>2, <2>4, <2>5, AnswerStores
<1>3. CASE ~CanTransition(i, k, s)
  BY <1>1, <1>3, RejectStores DEF Transition
<1> QED
  BY <1>2, <1>3

\* Before the first phase a run claims nothing.
LEMMA EarlyStores ==
  ASSUME Presumed, NEW p \in Proc, ReadJournal(p) \/ SelectArtifact(p)
  PROVE  Stored(p)
<1> DEFINE l == run[p]
           j == JournalOf(p)
           r == [l EXCEPT !.pc = "select", !.n = Len(j.applied) + 1, !.head = j.head]
           at(pc) == [l EXCEPT !.pc = pc]
<1>1. /\ l \in Run /\ l.pc \notin {"idle", "close"} /\ Complete(View(p))
  BY AtEffected DEF ReadJournal, SelectArtifact, Critical, ExecutorStep
<1>2. \/ \E m \in {r, at("release"), at("create")} : Proceed(p, m)
      \/ Reject(p, "failed")
  BY DEF ReadJournal, SelectArtifact
<1>3. r.pc = "select" /\ at("release").pc = "release" /\ at("create").pc = "create"
  BY <1>1 DEF Run
<1> HIDE DEF r, at
<1>4. \A m \in {r, at("release"), at("create")} : Effected(m, View(p))
  BY <1>3, NothingEffected DEF GaveUp
<1> QED
  BY <1>1, <1>2, <1>4, ProceedStores, RejectStores

\* Nor does a new attempt.
LEMMA CreateStores ==
  ASSUME Presumed, NEW p \in Proc, CreateAttemptRow(p)
  PROVE  Stored(p)
<1> DEFINE i == db.journal
           a == ArtifactOf(run[p])
<1>1. At(p, "create")
  BY DEF CreateAttemptRow
<1>2. /\ run[p] \in Run /\ i \in Journal /\ View(p) = db /\ JournalOf(p) = i
      /\ run[p].n \in 1..Len(run[p].repo) /\ RecordsMatch(i, {})
      /\ run[p].pc = "create"
  BY <1>1, CreateKnown DEF Presumed
<1>3. a \in Artifact /\ run[p].head \in Digest /\ Complete(db)
  BY <1>2, PhasesType DEF Run, Presumed, Completeness
<1>4. PICK k \in AttemptId :
        IF CanCreate(i, k)
          THEN /\ WriteJournal(p, CreateAttempt(i, k, a, run[p].head))
               /\ Answer(p, [run[p] EXCEPT !.pc = "start", !.attempt = k])
          ELSE Reject(p, "failed")
  BY <1>2 DEF CreateAttemptRow
<1>5. CASE CanCreate(i, k)
  <2> DEFINE l == [run[p] EXCEPT !.pc = "start", !.attempt = k]
             j == CreateAttempt(i, k, a, run[p].head)
  <2>1. j \in Journal /\ WriteJournal(p, j) /\ Answer(p, l)
    BY <1>2, <1>3, <1>4, <1>5, CreateAttemptType
  <2>2. After(p).journal = j /\ After(p).schema = db.schema
    BY <1>2, <2>1, JournalSeen DEF Presumed, Known
  <2>3. Complete(After(p))
    BY <1>2, <1>3, <1>5, <2>2, CreateComplete
  <2>4. l.pc = "start"
    BY <1>2 DEF Run
  <2> HIDE DEF l
  <2> QED
    BY <1>2, <2>1, <2>3, <2>4, NothingEffected, AnswerStores
<1>6. CASE ~CanCreate(i, k)
  BY <1>2, <1>3, <1>4, <1>6, RejectStores
<1> QED
  BY <1>5, <1>6

\* The first phase has nothing before it.
LEMMA MarkRunningStores ==
  ASSUME Presumed, NEW p \in Proc, MarkRunning(p)
  PROVE  Stored(p)
<1> DEFINE l == run[p]
           k == [l EXCEPT !.ph = 1, !.st = 1]
           m == EnterPhase(k)
<1>1. At(p, "start") /\ Transition(p, "running", m)
  BY DEF MarkRunning
<1>2. l \in Run /\ l.pc = "start" /\ LocalOK(l)
  BY <1>1, AtEffected DEF Critical, ExecutorStep
<1>3. InArtifact(l)
  BY <1>2, LocalInArtifact DEF ExecutorStep
<1>4. /\ k \in Run /\ k.ph = 1 /\ k.st = 1 /\ k.n = l.n /\ k.repo = l.repo
      /\ k.attempt = l.attempt /\ k.leased = l.leased
  BY <1>2 DEF Run
<1> HIDE DEF k
<1>5. InArtifact(k) /\ \A d : Through(k, d, 1 - 1)
  BY <1>3, <1>4 DEF InArtifact, Through
<1>6. \A d : Effected(m, d)
  BY <1>4, <1>5, EnterEffected
<1> HIDE DEF m
<1> QED
  BY <1>1, <1>3, <1>6, TransitionStores DEF Critical, ExecutorStep, InArtifact

\* A run that goes on within a phase: what is behind its next await is behind
\* this one, or is in the schema by now.
LEMMA PhaseStores ==
  ASSUME Presumed, NEW p \in Proc, At(p, run[p].pc),
         run[p].pc \in {"lock", "begin", "check", "execute", "mark", "postcheck"},
         NEW l, l.repo = run[p].repo, l.n = run[p].n, ~Verified(l),
         View(p).schema \subseteq After(p).schema,
         After(p).journal = JournalOf(p),
         \A x \in 1..Len(Phases(l)) : \A y \in 1..Phases(l)[x].statements :
           Behind(l, x, y) =>
             Behind(run[p], x, y) \/ EffectAt(l, x, y) \in After(p).schema,
         Answer(p, l) \/ run' = [run EXCEPT ![p] = l]
  PROVE  Stored(p)
<1>1. /\ Complete(View(p)) /\ Effected(run[p], View(p)) /\ JournalOf(p) = View(p).journal
  BY AtEffected DEF Critical, ExecutorStep
<1>2. Complete(After(p))
  BY <1>1, LargerComplete
<1>3. Phases(l) = Phases(run[p]) /\ ArtifactOf(l) = ArtifactOf(run[p])
  BY DEF Phases, ArtifactOf
<1>4. Effected(l, After(p))
  BY <1>1, <1>3 DEF Effected, EffectAt
<1>5. CASE Answer(p, l)
  BY <1>2, <1>4, <1>5, AnswerStores
<1>6. CASE run' = [run EXCEPT ![p] = l]
  BY <1>2, <1>4, <1>6 DEF Stored, Presumed, Known, Sound, TypeOK
<1> QED
  BY <1>5, <1>6

\* The DDL lock and the begin of a transaction are behind no statement.
LEMMA PhaseBeginStores ==
  ASSUME Presumed, NEW p \in Proc, AcquireDdlLock(p) \/ BeginTransaction(p)
  PROVE  Stored(p)
<1> DEFINE l == run[p]
           m == [l EXCEPT !.locked = TRUE,
                          !.pc = IF UseTransaction(PhaseOf(l)) THEN "begin" ELSE "check"]
           b == [l EXCEPT !.active = TRUE, !.pc = "check"]
<1>1. l \in Run /\ db \in Database
  BY DEF Presumed, Known, Sound, TypeOK
<1>2. /\ m.repo = l.repo /\ m.n = l.n /\ m.ph = l.ph /\ m.st = l.st
      /\ m.pc \in {"begin", "check"}
      /\ b.repo = l.repo /\ b.n = l.n /\ b.ph = l.ph /\ b.st = l.st /\ b.pc = "check"
  BY <1>1 DEF Run
<1>3. /\ At(p, l.pc) /\ l.pc \in {"lock", "begin"}
      /\ \/ Answer(p, m)
         \/ run' = [run EXCEPT ![p] = b]
  BY DEF AcquireDdlLock, BeginTransaction, At
<1> HIDE DEF m, b
<1>4. After(p) = View(p)
  <2>1. CASE AcquireDdlLock(p)
    BY <2>1 DEF AcquireDdlLock, After, View
  <2>2. CASE BeginTransaction(p)
    <3>1. TransactionFits(l, txn[p], db.journal) /\ l.pc = "begin"
      BY <2>2, AtFits DEF BeginTransaction, At, Presumed, Known, Critical, ExecutorStep
    <3>2. txn[p] = NoTxn
      BY <3>1 DEF TransactionFits, OutsideTransaction
    <3> QED
      BY <1>1, <2>2, <3>2, NoTxnAssumption
         DEF BeginTransaction, After, View, Presumed, Known, Sound, TypeOK
  <2> QED
    BY <2>1, <2>2
<1>5. \A k \in {m, b} : /\ k.repo = l.repo /\ k.n = l.n /\ ~Verified(k)
                        /\ \A x, y : Behind(k, x, y) => Behind(l, x, y)
  BY <1>2, <1>3 DEF Behind, Verified
<1> QED
  BY <1>3, <1>4, <1>5, PhaseStores DEF JournalOf

\* What is behind the next await of a phase's statements: those before st.
LEMMA AfterStatementsBehind ==
  ASSUME NEW l \in Run, InArtifact(l), l.ph \in 1..Len(Phases(l)), l.st >= 1
  PROVE  LET m == AfterStatements(l)
         IN  /\ m.repo = l.repo /\ m.n = l.n /\ ~Verified(m)
             /\ \A x \in 1..Len(Phases(l)) : \A y \in 1..Phases(l)[x].statements :
                  Behind(m, x, y) => x < l.ph \/ (x = l.ph /\ y < l.st)
<1> DEFINE m == AfterStatements(l)
<1>1. /\ m.repo = l.repo /\ m.n = l.n /\ m.ph = l.ph /\ m.st = l.st
      /\ m.pc = IF l.st > PhaseOf(l).statements THEN "postcheck" ELSE "execute"
  BY DEF AfterStatements, Run
<1>2. l.ph \in Nat /\ l.st \in Nat
      /\ \A x \in 1..Len(Phases(l)) : Phases(l)[x].statements \in Nat
  BY PhasesType DEF Run, InArtifact
<1> HIDE DEF m
<1>3. ASSUME NEW x \in 1..Len(Phases(l)), NEW y \in 1..Phases(l)[x].statements,
             Behind(m, x, y)
      PROVE  x < l.ph \/ (x = l.ph /\ y < l.st)
  <2>1. CASE l.st > PhaseOf(l).statements
    <3>1. x <= l.ph
      BY <1>1, <1>3, <2>1 DEF Behind
    <3>2. x = l.ph => y <= PhaseOf(l).statements
      BY <1>2 DEF PhaseOf
    <3> QED
      BY <1>2, <2>1, <3>1, <3>2 DEF PhaseOf
  <2>2. CASE ~(l.st > PhaseOf(l).statements)
    BY <1>1, <1>3, <2>2 DEF Behind
  <2> QED
    BY <2>1, <2>2
<1>4. ~Verified(m)
  BY <1>1 DEF Verified
<1> QED
  BY <1>1, <1>3, <1>4 DEF m

\* The preconditions are behind no statement.
LEMMA CheckPreconditionsStores ==
  ASSUME Presumed, NEW p \in Proc, CheckPreconditions(p)
  PROVE  Stored(p)
<1> DEFINE l == run[p]
           m == AfterStatements(l)
<1>1. /\ At(p, l.pc) /\ l.pc = "check" /\ run' = [run EXCEPT ![p] = m]
      /\ UNCHANGED <<db, txn>>
  BY DEF CheckPreconditions, At, Proceed
<1>2. l \in Run /\ InArtifact(l) /\ l.ph \in 1..Len(Phases(l)) /\ l.st >= 1
  BY <1>1, AtEffected, LocalInArtifact DEF Critical, ExecutorStep, LocalOK, PositionOK
<1>3. /\ m.repo = l.repo /\ m.n = l.n /\ ~Verified(m)
      /\ \A x \in 1..Len(Phases(l)) : \A y \in 1..Phases(l)[x].statements :
           Behind(m, x, y) => x < l.ph \/ (x = l.ph /\ y < l.st)
  BY <1>2, AfterStatementsBehind
<1> HIDE DEF m
<1>4. Phases(m) = Phases(l) /\ After(p) = View(p)
  BY <1>1, <1>3 DEF Phases, ArtifactOf, After, View
<1>5. \A x \in 1..Len(Phases(m)) : \A y \in 1..Phases(m)[x].statements :
        Behind(m, x, y) => Behind(l, x, y)
  BY <1>1, <1>3, <1>4 DEF Behind
<1> QED
  BY <1>1, <1>3, <1>4, <1>5, PhaseStores DEF JournalOf

\* A statement leaves its effect, and that is behind its checkpoint.
LEMMA ExecuteStores ==
  ASSUME Presumed, NEW p \in Proc, ExecuteStatement(p)
  PROVE  /\ Stored(p)
         /\ \E d \in Database : Write(p, d) /\ Vouches(View(p), d)
<1> DEFINE l == run[p]
           v == View(p)
           d == [v EXCEPT !.schema = @ \cup {EffectOf(l)}]
           m == [l EXCEPT !.effect = TRUE, !.pc = "mark"]
<1>1. At(p, l.pc) /\ l.pc = "execute" /\ Answer(p, m) /\ Write(p, d)
  BY DEF ExecuteStatement, At
<1>2. /\ l \in Run /\ v \in Database /\ JournalOf(p) = v.journal /\ LocalOK(l)
  BY <1>1, AtEffected DEF Critical, ExecutorStep
<1>3. /\ d \in Database /\ d.journal = v.journal /\ d.marks = v.marks
      /\ d.schema = v.schema \cup {EffectOf(l)}
  BY <1>1, <1>2, EffectOfType DEF Database, ExecuteStatement
<1>4. /\ m.repo = l.repo /\ m.n = l.n /\ m.ph = l.ph /\ m.st = l.st /\ m.pc = "mark"
  BY <1>2 DEF Run
<1> HIDE DEF d, m
<1>5. After(p) = d
  BY <1>1, <1>3, WriteSeen DEF Presumed, Known
<1>6. /\ Phases(m) = Phases(l) /\ \A x, y : EffectAt(m, x, y) = EffectAt(l, x, y)
      /\ EffectOf(l) = EffectAt(l, l.ph, l.st)
  BY <1>4 DEF Phases, ArtifactOf, EffectAt, EffectOf
<1>7. l.ph \in Nat /\ l.st \in Nat
  BY <1>2 DEF Run
<1>8. ASSUME NEW x \in 1..Len(Phases(m)), NEW y \in 1..Phases(m)[x].statements,
             Behind(m, x, y)
      PROVE  Behind(l, x, y) \/ EffectAt(m, x, y) \in d.schema
  <2>1. InArtifact(l)
    BY <1>1, <1>2, LocalInArtifact DEF ExecutorStep
  <2>2. x \in Nat /\ y \in Nat
    BY <1>6, <2>1, PhasesType DEF InArtifact
  <2>3. x < l.ph \/ (x = l.ph /\ y < l.st) \/ (x = l.ph /\ y = l.st)
    BY <1>4, <1>7, <1>8, <2>2 DEF Behind
  <2> QED
    BY <1>1, <1>3, <1>6, <2>3 DEF Behind
<1>9. ~Verified(m)
  BY <1>4 DEF Verified
<1>10. Stored(p)
  BY <1>1, <1>2, <1>3, <1>4, <1>5, <1>8, <1>9, PhaseStores
<1>11. Vouches(v, d)
  BY <1>3 DEF Vouches
<1> QED
  BY <1>1, <1>3, <1>10, <1>11

\* The checkpoint of a statement is written with the effect in the schema.
LEMMA CheckpointStores ==
  ASSUME Presumed, NEW p \in Proc, CheckpointStatement(p)
  PROVE  /\ Stored(p)
         /\ \E d \in Database : Write(p, d) /\ Vouches(View(p), d)
<1> DEFINE l == run[p]
           v == View(p)
           mark == <<l.attempt, EffectOf(l)>>
           d == [v EXCEPT !.marks = @ \cup {mark}]
           k == [l EXCEPT !.st = @ + 1]
           m == AfterStatements(k)
<1>1. At(p, l.pc) /\ l.pc = "mark" /\ Answer(p, m) /\ Write(p, d)
  BY DEF CheckpointStatement, At
<1>2. /\ l \in Run /\ v \in Database /\ JournalOf(p) = v.journal /\ LocalOK(l)
      /\ Effected(l, v)
  BY <1>1, AtEffected DEF Critical, ExecutorStep
<1>3. InArtifact(l) /\ l.ph \in 1..Len(Phases(l)) /\ l.st >= 1
      /\ l.st <= PhaseOf(l).statements
  BY <1>1, <1>2, LocalInArtifact DEF ExecutorStep, LocalOK, PositionOK
<1>4. /\ d \in Database /\ d.journal = v.journal /\ d.schema = v.schema
      /\ d.marks = v.marks \cup {mark} /\ mark[2] = EffectOf(l)
  <2>1. mark \in AttemptId \X UNION {Effects(a) : a \in Artifact}
    BY <1>1, <1>2, <1>3, EffectOfType DEF InArtifact
  <2>2. mark[2] = EffectOf(l)
    OBVIOUS
  <2> HIDE DEF mark
  <2> QED
    BY <1>2, <2>1, <2>2 DEF Database
<1>5. l.ph \in Nat /\ l.st \in Nat /\ l.st + 1 \in Nat
  BY <1>2 DEF Run
<1>6. /\ k \in Run /\ k.repo = l.repo /\ k.n = l.n /\ k.ph = l.ph /\ k.st = l.st + 1
      /\ k.attempt = l.attempt /\ k.leased = l.leased
  BY <1>2, <1>5 DEF Run
<1> HIDE DEF d, k, mark
<1>7. Phases(k) = Phases(l) /\ InArtifact(k)
  BY <1>3, <1>6 DEF Phases, ArtifactOf, InArtifact
<1>8. /\ m.repo = l.repo /\ m.n = l.n /\ ~Verified(m)
      /\ \A x \in 1..Len(Phases(l)) : \A y \in 1..Phases(l)[x].statements :
           Behind(m, x, y) => x < l.ph \/ (x = l.ph /\ y < l.st + 1)
  <2>1. k.st >= 1
    BY <1>5, <1>6
  <2> QED
    BY <1>3, <1>6, <1>7, <2>1, AfterStatementsBehind
<1> HIDE DEF m
<1>9. Phases(m) = Phases(l) /\ After(p) = d
  BY <1>1, <1>4, <1>8, WriteSeen DEF Phases, ArtifactOf, Presumed, Known
<1>10. ASSUME NEW x \in 1..Len(Phases(m)), NEW y \in 1..Phases(m)[x].statements,
              Behind(m, x, y)
       PROVE  Behind(l, x, y)
  <2>1. x \in Nat /\ y \in Nat
    BY <1>3, <1>9, PhasesType DEF InArtifact
  <2>2. x < l.ph \/ (x = l.ph /\ y <= l.st)
    BY <1>5, <1>8, <1>9, <1>10, <2>1
  <2> QED
    BY <1>1, <2>2 DEF Behind
<1>11. Stored(p)
  BY <1>1, <1>2, <1>4, <1>8, <1>9, <1>10, PhaseStores
<1>12. EffectOf(l) \in v.schema
  <2>1. l.st \in 1..Phases(l)[l.ph].statements
    BY <1>3, <1>5, PhasesType DEF PhaseOf, InArtifact
  <2>2. Behind(l, l.ph, l.st)
    BY <1>1, <1>5 DEF Behind
  <2> QED
    BY <1>2, <1>3, <2>1, <2>2 DEF Effected, EffectAt, EffectOf
<1>13. Vouches(v, d)
  BY <1>4, <1>12 DEF Vouches
<1> QED
  BY <1>1, <1>4, <1>11, <1>13

\* Behind the postconditions the phase is in the schema.
LEMMA PhaseEffected ==
  ASSUME NEW l \in Run, InArtifact(l), NEW d, Effected(l, d),
         l.pc \in {"postcheck", "commit"} \/ (l.pc = "unlock" /\ l.error = "none")
  PROVE  Through(l, d, l.ph)
<1>1. \A x, y : x <= l.ph => Behind(l, x, y)
  BY DEF Behind
<1> QED
  BY <1>1 DEF Effected, Through

LEMMA CheckPostconditionsStores ==
  ASSUME Presumed, NEW p \in Proc, CheckPostconditions(p)
  PROVE  Stored(p)
<1> DEFINE l == run[p]
           at(pc) == [l EXCEPT !.pc = pc]
<1>1. At(p, l.pc) /\ l.pc = "postcheck"
  BY DEF CheckPostconditions, At
<1>2. /\ l \in Run /\ InArtifact(l) /\ Complete(View(p)) /\ Through(l, View(p), l.ph)
      /\ l.ph \in Nat
  <2>1. /\ l \in Run /\ LocalOK(l) /\ Complete(View(p)) /\ Effected(l, View(p))
    BY <1>1, AtEffected DEF Critical, ExecutorStep
  <2>2. InArtifact(l)
    BY <1>1, <2>1, LocalInArtifact DEF ExecutorStep
  <2> QED
    BY <1>1, <2>1, <2>2, PhaseEffected DEF Run
<1>3. \A pc : /\ at(pc).pc = pc /\ at(pc).ph = l.ph /\ at(pc).repo = l.repo
              /\ at(pc).n = l.n
  BY <1>2 DEF Run
<1>4. \/ FinalPhase(l) /\ Proceed(p, at("record"))
      \/ Proceed(p, at("commit"))
      \/ Proceed(p, Finally(l))
  BY DEF CheckPostconditions
<1> HIDE DEF at
<1>5. \A pc : Through(at(pc), View(p), l.ph) /\ Phases(at(pc)) = Phases(l)
  BY <1>2, <1>3, SameThrough DEF Phases, ArtifactOf
<1>6. CASE FinalPhase(l) /\ Proceed(p, at("record"))
  <2>1. Len(Phases(l)) \in Nat /\ \A x \in 1..Len(Phases(l)) : x <= l.ph
    BY <1>2, <1>6, PhasesType DEF FinalPhase, InArtifact
  <2>2. Effected(at("record"), View(p))
    BY <1>3, <1>5, <2>1 DEF Effected, Verified, Through
  <2> QED
    BY <1>2, <1>6, <2>2, ProceedStores
<1>7. CASE Proceed(p, at("commit"))
  <2>1. Effected(at("commit"), View(p))
    BY <1>3, <1>5 DEF Effected, Behind, Verified, Through
  <2> QED
    BY <1>2, <1>7, <2>1, ProceedStores
<1>8. CASE Proceed(p, Finally(l))
  BY <1>2, <1>8, FinallyEffected, ProceedStores
<1> QED
  BY <1>4, <1>6, <1>7, <1>8

\* Behind the last phase the whole artifact is.
LEMMA ArtifactEffected ==
  ASSUME NEW l, NEW d, Effected(l, d), l.pc \in {"record", "applied"}
  PROVE  Effects(ArtifactOf(l)) \subseteq d.schema
BY EffectsOf DEF Effected, Behind

\* recordApplied: the record is of the artifact of the attempt.
LEMMA RecordAppliedStores ==
  ASSUME Presumed, NEW p \in Proc, RecordApplied(p)
  PROVE  Stored(p)
<1> DEFINE l == run[p]
           i == JournalOf(p)
           a == ArtifactOf(l)
           j == AppendAppliedAndAdvanceHead(i, a, l.attempt)
           m == [l EXCEPT !.pc = "applied"]
<1>1. At(p, "record") /\ At(p, l.pc) /\ l.pc = "record"
  BY DEF RecordApplied, At
<1>2. /\ l \in Run /\ i \in Journal /\ i = View(p).journal
      /\ Complete(View(p)) /\ Effected(l, View(p))
  BY <1>1, AtEffected DEF Critical, ExecutorStep
<1>3. /\ InArtifact(l) /\ a \in Artifact /\ l.attempt \in AttemptId
      /\ i.attempts[l.attempt].artifact = a
  BY <1>1, <1>2, WorkKnown, PhasesType DEF Presumed, InArtifact, AtWork
<1>4. CASE WriteJournal(p, j) /\ Answer(p, m)
  <2>1. j \in Journal
    BY <1>2, <1>3, AppendType
  <2>2. After(p).journal = j /\ After(p).schema = View(p).schema
    BY <1>4, <2>1, JournalSeen DEF Presumed, Known
  <2>3. Complete(After(p))
    BY <1>2, <1>3, <2>2, AppendComplete
  <2>4. m.pc = "applied" /\ m.repo = l.repo /\ m.n = l.n
    BY <1>2 DEF Run
  <2> HIDE DEF j, m
  <2>5. Effected(m, After(p))
    BY <1>1, <1>2, <2>2, <2>4
       DEF Effected, Behind, Verified, Phases, ArtifactOf, EffectAt
  <2> QED
    BY <1>1, <1>4, <2>3, <2>5, AnswerStores
<1>5. CASE Reject(p, "failed")
  BY <1>1, <1>2, <1>5, RejectStores
<1> QED
  BY <1>4, <1>5 DEF RecordApplied

\* The attempt is called applied with its artifact in the schema.
LEMMA MarkAppliedStores ==
  ASSUME Presumed, NEW p \in Proc, MarkApplied(p)
  PROVE  Stored(p)
<1> DEFINE l == run[p]
           v == View(p)
           c == [l EXCEPT !.pc = "commit"]
           m == IF l.active THEN c ELSE Finally(l)
<1>1. At(p, "applied") /\ l.pc = "applied" /\ Transition(p, "applied", m)
  BY DEF MarkApplied, At
<1>2. /\ l \in Run /\ LocalOK(l) /\ Effected(l, v) /\ Grounded(l, v)
      /\ JournalOf(p) = v.journal
  BY <1>1, AtEffected DEF Critical, ExecutorStep
<1>3. InArtifact(l) /\ l.attempt \in AttemptId
  BY <1>1, <1>2, LocalInArtifact DEF ExecutorStep, InArtifact
<1>4. Effects(JournalOf(p).attempts[l.attempt].artifact) \subseteq v.schema
  BY <1>1, <1>2, ArtifactEffected DEF Grounded, Placing, InPhase
<1>5. c.pc = "commit" /\ c.ph = l.ph /\ c.repo = l.repo /\ c.n = l.n
  BY <1>2 DEF Run
<1> HIDE DEF c
<1>6. ASSUME NEW d, d.schema = v.schema
      PROVE  Effected(m, d)
  <2>1. \A k : Through(l, d, k)
    BY <1>1, <1>2, <1>6 DEF Effected, Behind, Through
  <2>2. Effected(Finally(l), d)
    BY <1>3, <2>1, FinallyEffected
  <2>3. Through(c, d, c.ph)
    BY <1>5, <2>1, SameThrough
  <2>4. Effected(c, d)
    BY <1>5, <2>3 DEF Effected, Behind, Verified, Through
  <2> QED
    BY <2>2, <2>4
<1> HIDE DEF m
<1> QED
  BY <1>1, <1>3, <1>4, <1>6, TransitionStores DEF Critical, ExecutorStep

\* What a transaction publishes is complete, and has the phase in it.
LEMMA CommitStores ==
  ASSUME Presumed, NEW p \in Proc, Commit(p)
  PROVE  /\ Stored(p) /\ db' = After(p) /\ db' = txn[p] /\ txn[p] # NoTxn
<1> DEFINE l == run[p]
           m == [l EXCEPT !.active = FALSE, !.committed = TRUE]
<1>1. At(p, "commit") /\ Answer(p, Finally(m)) /\ db' = txn[p]
      /\ txn' = [txn EXCEPT ![p] = NoTxn] /\ l.pc = "commit"
  BY DEF Commit, At
<1>2. txn[p] # NoTxn
  BY <1>1, CommitPublishes DEF Presumed
<1>3. After(p) = db' /\ View(p) = txn[p]
  BY <1>1, <1>2 DEF After, View, Presumed, Known, Sound, TypeOK
<1>4. /\ l \in Run /\ LocalOK(l) /\ Complete(View(p)) /\ Effected(l, View(p))
  BY <1>1, AtEffected DEF Critical, ExecutorStep
<1>5. InArtifact(l)
  BY <1>1, <1>4, LocalInArtifact DEF ExecutorStep
<1>6. Through(l, View(p), l.ph)
  BY <1>1, <1>4, <1>5, PhaseEffected
<1>7. /\ m \in Run /\ m.repo = l.repo /\ m.n = l.n /\ m.ph = l.ph
      /\ m.attempt = l.attempt /\ m.leased = l.leased
  BY <1>4 DEF Run
<1> HIDE DEF m
<1>8. InArtifact(m) /\ Through(m, View(p), m.ph)
  BY <1>5, <1>6, <1>7, SameThrough DEF InArtifact
<1>9. Effected(Finally(m), View(p))
  BY <1>8, FinallyEffected
<1> QED
  BY <1>1, <1>2, <1>3, <1>4, <1>9, AnswerStores

\* The DDL lock is released behind the phase.
LEMMA ReleaseDdlLockStores ==
  ASSUME Presumed, NEW p \in Proc, ReleaseDdlLock(p)
  PROVE  Stored(p)
<1> DEFINE l == run[p]
           m == [l EXCEPT !.locked = FALSE]
<1>1. At(p, "unlock") /\ Answer(p, AfterFinally(m)) /\ UNCHANGED <<db, txn>>
      /\ l.pc = "unlock"
  BY DEF ReleaseDdlLock, At
<1>2. /\ l \in Run /\ LocalOK(l) /\ Complete(View(p)) /\ Effected(l, View(p))
      /\ After(p) = View(p)
  BY <1>1, AtEffected DEF Critical, ExecutorStep, After, View
<1>3. InArtifact(l)
  BY <1>1, <1>2, LocalInArtifact DEF ExecutorStep
<1>4. l.error = "none" => Through(l, View(p), l.ph)
  BY <1>1, <1>2, <1>3, PhaseEffected
<1>5. /\ m \in Run /\ m.repo = l.repo /\ m.n = l.n /\ m.ph = l.ph
      /\ m.attempt = l.attempt /\ m.leased = l.leased /\ m.error = l.error
  BY <1>2 DEF Run
<1> HIDE DEF m
<1>6. InArtifact(m) /\ (m.error = "none" => Through(m, View(p), m.ph))
  BY <1>3, <1>4, <1>5, SameThrough DEF InArtifact
<1>7. Effected(AfterFinally(m), View(p))
  BY <1>6, AfterFinallyEffected
<1> QED
  BY <1>1, <1>2, <1>7, AnswerStores

\* A run on its way out claims nothing, and what it leaves behind is complete.
LEMMA EndingStores ==
  ASSUME Presumed, NEW p \in Proc,
         Rollback(p) \/ ConcludeAttempt(p) \/ CommitRefused(p) \/ ReleaseLease(p)
  PROVE  Stored(p)
<1> DEFINE l == run[p]
           r == [l EXCEPT !.active = FALSE, !.rolledBack = TRUE, !.pc = "conclude"]
           q == [l EXCEPT !.leased = FALSE, !.pc = "close"]
           o == [l EXCEPT !.pc = "release"]
<1>1. /\ l \in Run /\ LocalOK(l) /\ Complete(View(p)) /\ Complete(db)
      /\ View(p) \in Database /\ l.pc \notin {"idle", "close"}
  BY AtEffected DEF Rollback, ConcludeAttempt, CommitRefused, ReleaseLease, At, Critical,
                    ExecutorStep, Presumed, Completeness
<1>2. r.pc = "conclude" /\ q.pc = "close" /\ o.pc = "release"
  BY <1>1 DEF Run
<1> HIDE DEF r, q, o
<1>3. \A m \in {r, q, o} : \A d : Effected(m, d)
  BY <1>2, NothingEffected DEF GaveUp
<1>4. CASE Rollback(p)
  <2>1. Answer(p, r) /\ After(p) = db
    BY <1>4 DEF Rollback, After, r, Presumed, Known, Sound, TypeOK
  <2> QED
    BY <1>1, <1>3, <2>1, AnswerStores
<1>5. CASE ConcludeAttempt(p)
  <2>1. At(p, "conclude") /\ Transition(p, FailedState(l), o)
    BY <1>5 DEF ConcludeAttempt, o
  <2>2. FailedState(l) # "applied" /\ l.attempt \in AttemptId
    BY <1>1, <2>1 DEF FailedState, At, LocalOK, AttemptOK, ExecutorStep
  <2>3. \A d : Effected(o, d)
    BY <1>3
  <2> QED
    BY <2>1, <2>2, <2>3, TransitionStores DEF Critical, ExecutorStep
<1>6. CASE CommitRefused(p)
  <2>1. After(p) \in {db, View(p)} /\ run' = [run EXCEPT ![p] = Throw(l, "uncertain")]
    BY <1>6 DEF CommitRefused, After, View, Presumed, Known, Sound, TypeOK
  <2> QED
    BY <1>1, <2>1, ThrowStores
<1>7. CASE ReleaseLease(p)
  <2> DEFINE d == [View(p) EXCEPT !.lease = IF @ = p THEN Null ELSE @]
  <2>1. Answer(p, q) /\ (Write(p, d) \/ UNCHANGED <<db, txn>>)
    BY <1>7 DEF ReleaseLease, q
  <2>2. d \in Database /\ d.journal = View(p).journal /\ d.schema = View(p).schema
    BY <1>1 DEF Database
  <2>3. After(p) \in {d, View(p)}
    BY <2>1, <2>2, WriteSeen DEF After, View, Presumed, Known
  <2>4. Complete(After(p))
    BY <1>1, <2>2, <2>3, LargerComplete
  <2> QED
    BY <1>1, <1>3, <2>1, <2>4, AnswerStores
<1> QED
  BY <1>4, <1>5, <1>6, <1>7

\* The proof of an outcome of applied is about the schema as it is.
LEMMA VerifyStores ==
  ASSUME Presumed, NEW p \in Proc, VerifyOutcome(p) \/ RequireRecovery(p)
  PROVE  Stored(p)
<1> DEFINE l == run[p]
           i == JournalOf(p)
           k == l.attempt
           at(pc) == [l EXCEPT !.pc = pc]
<1>1. At(p, l.pc) /\ l.pc \in {"verify", "require"}
  BY DEF VerifyOutcome, RequireRecovery, At
<1>2. /\ l \in Run /\ k \in AttemptId /\ Complete(View(p)) /\ Effected(l, View(p))
      /\ i = View(p).journal
  BY <1>1, AtEffected DEF Critical, ReconcileStep, LocalOK, AttemptOK
<1>3. \A pc : at(pc).pc = pc /\ at(pc).attempt = k /\ at(pc).outcome = l.outcome
  BY <1>2 DEF Run
<1>4. CASE VerifyOutcome(p)
  <2>1. \/ /\ Proven(View(p), k, l.outcome)
           /\ \E pc \in {"require", "history"} : Proceed(p, at(pc))
        \/ Reject(p, "failed")
    BY <1>4 DEF VerifyOutcome
  <2> HIDE DEF at
  <2>2. CASE /\ Proven(View(p), k, l.outcome)
             /\ \E pc \in {"require", "history"} : Proceed(p, at(pc))
    <3>1. \A pc \in {"require", "history"} : Effected(at(pc), View(p))
      BY <1>3, <2>2 DEF Effected, Behind, Verified, Proven
    <3> QED
      BY <1>2, <2>2, <3>1, ProceedStores
  <2>3. CASE Reject(p, "failed")
    BY <1>1, <1>2, <2>3, RejectStores
  <2> QED
    BY <2>1, <2>2, <2>3
<1>5. CASE RequireRecovery(p)
  <2>1. At(p, "require") /\ l.pc = "require"
        /\ Transition(p, "recovery_required", at("history"))
    BY <1>5 DEF RequireRecovery, At
  <2> HIDE DEF at
  <2>2. l.outcome = "applied" =>
          Effects(i.attempts[k].artifact) \subseteq View(p).schema
    BY <1>2, <2>1 DEF Effected, Verified
  <2>3. at("history").pc = "history" /\ at("history").outcome = l.outcome
        /\ at("history").attempt = k
    BY <1>3
  <2>4. ASSUME NEW d
        PROVE  \/ Effected(at("history"), d)
               \/ /\ Verified(at("history")) /\ at("history").attempt = k
                  /\ Effects(i.attempts[k].artifact) \subseteq View(p).schema
    BY <2>2, <2>3 DEF Effected, Behind, Verified
  <2> QED
    BY <1>2, <2>1, <2>4, TransitionStores DEF Critical, ReconcileStep
<1> QED
  BY <1>4, <1>5

\* A reconciliation records the attempt, its outcome and its end as it was proven.
LEMMA ReconcileStores ==
  ASSUME Presumed, NEW p \in Proc,
         ReconcileHistory(p) \/ RecordOutcome(p) \/ ResolveAttempt(p)
  PROVE  Stored(p)
<1> DEFINE i == db.journal
           l == run[p]
           k == l.attempt
           a == i.attempts[k].artifact
           at(pc) == [l EXCEPT !.pc = pc]
           h == AppendAppliedAndAdvanceHead(i, a, k)
           r == RecordReconciliation(i, k, l.outcome)
<1>1. At(p, l.pc) /\ l.pc \in {"history", "audit", "resolve"}
  BY DEF ReconcileHistory, RecordOutcome, ResolveAttempt, At
<1>2. /\ l \in Run /\ k \in AttemptId /\ i \in Journal /\ View(p) = db
      /\ JournalOf(p) = i /\ OpenAttempts(i) = {k} /\ Complete(db) /\ Effected(l, db)
  <2>1. /\ l \in Run /\ k \in AttemptId /\ i \in Journal /\ txn[p] = NoTxn
        /\ JournalOf(p) = i /\ OpenAttempts(i) = {k}
    BY <1>1, ReconcileFits DEF Presumed, Known, ReconcileStep
  <2>2. Effected(l, View(p)) /\ View(p) = db
    BY <1>1, <2>1, AtEffected DEF View, Critical, ReconcileStep
  <2> QED
    BY <2>1, <2>2 DEF Presumed, Completeness
<1>3. l.outcome = "applied" => Effects(a) \subseteq db.schema
  BY <1>1, <1>2 DEF Effected, Verified
<1>4. \A pc : at(pc).pc = pc /\ at(pc).attempt = k /\ at(pc).outcome = l.outcome
  BY <1>2 DEF Run
<1>5. a \in Artifact
  BY <1>2, OpenAttemptArtifact
<1>6. \/ \E pc \in {"audit", "resolve"} :
           \/ Answer(p, at(pc)) /\ (WriteJournal(p, h) \/ WriteJournal(p, r))
           \/ Proceed(p, at(pc))
      \/ l.pc = "resolve" /\ Transition(p, l.outcome, at("release"))
      \/ Reject(p, "failed")
  BY <1>2 DEF ReconcileHistory, RecordOutcome, ResolveAttempt, At
<1> HIDE DEF at
<1>7. ASSUME NEW pc \in {"audit", "resolve"}, NEW d, d.schema = db.schema,
             d.journal.attempts = i.attempts
      PROVE  Effected(at(pc), d)
  BY <1>3, <1>4, <1>7 DEF Effected, Behind, Verified
<1>8. ASSUME NEW j \in Journal, j.attempts = i.attempts, WriteJournal(p, j),
             \A d : d.journal = j /\ d.schema = db.schema => Complete(d),
             NEW pc \in {"audit", "resolve"}, Answer(p, at(pc))
      PROVE  Stored(p)
  <2>1. After(p).journal = j /\ After(p).schema = db.schema
    BY <1>2, <1>8, JournalSeen DEF Presumed, Known
  <2> QED
    BY <1>1, <1>7, <1>8, <2>1, AnswerStores
<1>9. /\ h \in Journal /\ h.attempts = i.attempts
      /\ \A d : d.journal = h /\ d.schema = db.schema => Complete(d)
  BY <1>2, <1>5, AppendType, AppendChanges, AppendComplete
<1>10. /\ r \in Journal /\ r.attempts = i.attempts
       /\ \A d : d.journal = r /\ d.schema = db.schema => Complete(d)
  <2>1. r \in Journal /\ r.attempts = i.attempts /\ r.applied = i.applied
    BY <1>2, RecordReconciliationType DEF RecordReconciliation, Journal, Run
  <2> HIDE DEF r
  <2> QED
    BY <1>2, <2>1, LargerComplete
<1> HIDE DEF h, r
<1>11. CASE \E pc \in {"audit", "resolve"} :
              \/ Answer(p, at(pc)) /\ (WriteJournal(p, h) \/ WriteJournal(p, r))
              \/ Proceed(p, at(pc))
  <2>1. \A pc \in {"audit", "resolve"} : Effected(at(pc), db)
    BY <1>7
  <2> QED
    BY <1>2, <1>8, <1>9, <1>10, <1>11, <2>1, ProceedStores
<1>12. CASE l.pc = "resolve" /\ Transition(p, l.outcome, at("release"))
  <2>1. At(p, "resolve") /\ \A d : Effected(at("release"), d)
    BY <1>1, <1>4, <1>12, NothingEffected DEF At, GaveUp
  <2> QED
    BY <1>2, <1>3, <1>12, <2>1, TransitionStores DEF Critical, ReconcileStep
<1>13. CASE Reject(p, "failed")
  BY <1>1, <1>2, <1>13, RejectStores
<1> QED
  BY <1>6, <1>11, <1>12, <1>13

\* A step of the code under the lease.
LEMMA StepsStore ==
  ASSUME Presumed, NEW p \in Proc,
         WorkingStep(p) \/ BeginTransaction(p) \/ Commit(p) \/ CommitRefused(p)
         \/ Rollback(p) \/ ReleaseLease(p)
  PROVE  Stored(p)
BY EarlyStores, CreateStores, MarkRunningStores, PhaseBeginStores,
   CheckPreconditionsStores, ExecuteStores, CheckpointStores, CheckPostconditionsStores,
   RecordAppliedStores, MarkAppliedStores, CommitStores, ReleaseDdlLockStores,
   EndingStores, VerifyStores, ReconcileStores
   DEF WorkingStep

-----------------------------------------------------------------------------
(* What a step commits, and what it leaves in the transaction. *)

Vouched(p) ==
  /\ \A mark \in db'.marks \ db.marks : mark[2] \in db'.schema
  /\ txn'[p] # NoTxn => Vouches(db', txn'[p])

\* What a run under the lease has in its transaction.
LEMMA LeaseVouches ==
  ASSUME Presumed, NEW p \in Proc, UnderLease(p)
  PROVE  /\ db \in Database /\ View(p) \in Database
         /\ txn[p] # NoTxn => Vouches(db, txn[p])
BY ViewType DEF Presumed, Known, Sound, TypeOK, Completeness

LEMMA WriteVouches ==
  ASSUME Presumed, NEW p \in Proc, UnderLease(p), NEW d, Write(p, d), Vouches(View(p), d)
  PROVE  Vouched(p)
<1>1. CASE txn[p] = NoTxn
  BY <1>1 DEF Write, View, Vouched, Vouches
<1>2. CASE txn[p] # NoTxn
  <2>1. db' = db /\ txn'[p] = d /\ View(p) = txn[p]
    BY <1>2 DEF Write, View, Presumed, Known, Sound, TypeOK
  <2>2. Vouches(db, d)
    BY <1>2, <2>1, LeaseVouches DEF Vouches
  <2> QED
    BY <2>1, <2>2 DEF Vouched
<1> QED
  BY <1>1, <1>2

LEMMA JournalVouches ==
  ASSUME Presumed, NEW p \in Proc, UnderLease(p), NEW j, WriteJournal(p, j)
  PROVE  Vouched(p)
<1> DEFINE d == [View(p) EXCEPT !.journal = j]
<1>1. d.schema = View(p).schema /\ d.marks = View(p).marks
  BY LeaseVouches DEF Database
<1>2. Write(p, d)
  BY DEF WriteJournal
<1> HIDE DEF d
<1> QED
  BY <1>1, <1>2, WriteVouches DEF Vouches

LEMMA SameVouches ==
  ASSUME Presumed, NEW p \in Proc, UnderLease(p), db' = db,
         txn'[p] \in {txn[p], NoTxn}
  PROVE  Vouched(p)
BY LeaseVouches DEF Vouched

\* A step of the code under the lease.
LEMMA StepsVouch ==
  ASSUME Presumed, NEW p \in Proc, UnderLease(p),
         WorkingStep(p) \/ BeginTransaction(p) \/ Commit(p) \/ CommitRefused(p)
         \/ Rollback(p) \/ ReleaseLease(p)
  PROVE  Vouched(p)
<1>1. db \in Database /\ View(p) \in Database /\ txn \in [Proc -> Database \cup {NoTxn}]
  BY LeaseVouches DEF Presumed, Known, Sound, TypeOK
<1>2. CASE \/ ReadJournal(p) \/ SelectArtifact(p) \/ AcquireDdlLock(p)
           \/ CheckPreconditions(p) \/ CheckPostconditions(p) \/ ReleaseDdlLock(p)
           \/ VerifyOutcome(p) \/ CommitRefused(p) \/ Rollback(p)
  <2>1. db' = db /\ txn'[p] \in {txn[p], NoTxn}
    BY <1>1, <1>2 DEF ReadJournal, SelectArtifact, AcquireDdlLock, CheckPreconditions,
       CheckPostconditions, ReleaseDdlLock, VerifyOutcome, CommitRefused, Rollback,
       Proceed, Reject
  <2> QED
    BY <2>1, SameVouches
<1>3. CASE \/ CreateAttemptRow(p) \/ MarkRunning(p) \/ RecordApplied(p) \/ MarkApplied(p)
           \/ ConcludeAttempt(p) \/ RequireRecovery(p) \/ ReconcileHistory(p)
           \/ RecordOutcome(p) \/ ResolveAttempt(p)
  <2>1. (\E j : WriteJournal(p, j)) \/ UNCHANGED <<db, txn>>
    BY <1>3 DEF CreateAttemptRow, MarkRunning, RecordApplied, MarkApplied,
       ConcludeAttempt, RequireRecovery, ReconcileHistory, RecordOutcome, ResolveAttempt,
       Transition, Proceed, Reject
  <2> QED
    BY <2>1, JournalVouches, SameVouches
<1>4. CASE ExecuteStatement(p) \/ CheckpointStatement(p)
  BY <1>4, ExecuteStores, CheckpointStores, WriteVouches
<1>5. CASE BeginTransaction(p)
  BY <1>1, <1>5 DEF BeginTransaction, Vouched, Vouches
<1>6. CASE Commit(p)
  <2>1. db' = txn[p] /\ txn[p] # NoTxn /\ txn'[p] = NoTxn
    BY <1>1, <1>6, CommitStores DEF Commit
  <2> QED
    BY <2>1, LeaseVouches DEF Vouched, Vouches
<1>7. CASE ReleaseLease(p)
  <2> DEFINE d == [View(p) EXCEPT !.lease = IF @ = p THEN Null ELSE @]
  <2>1. Write(p, d) \/ UNCHANGED <<db, txn>>
    BY <1>7 DEF ReleaseLease
  <2>2. d.schema = View(p).schema /\ d.marks = View(p).marks
    BY <1>1 DEF Database
  <2> HIDE DEF d
  <2> QED
    BY <2>1, <2>2, WriteVouches, SameVouches DEF Vouches
<1> QED
  BY <1>2, <1>3, <1>4, <1>5, <1>6, <1>7 DEF WorkingStep

-----------------------------------------------------------------------------
(* Every step keeps the invariant. *)

\* A step under the lease: no other run is under it.
LEMMA StepsComplete ==
  ASSUME Presumed, LeaseExcludes, NEW p \in Proc,
         WorkingStep(p) \/ BeginTransaction(p) \/ Commit(p) \/ CommitRefused(p)
         \/ Rollback(p) \/ ReleaseLease(p)
  PROVE  Completeness' /\ Vouched(p)
<1>1. UnderLease(p) /\ Others(p) /\ online' = online
  <2>1. CASE WorkingStep(p)
    BY <2>1, StepsWork DEF Working, UnderLease, Presumed, Known
  <2>2. CASE BeginTransaction(p) \/ CommitRefused(p)
    BY <2>2 DEF BeginTransaction, CommitRefused, At, UnderLease, Critical, ExecutorStep,
                Others, Presumed, Known, Sound, TypeOK
  <2>3. CASE Commit(p) \/ Rollback(p) \/ ReleaseLease(p)
    BY <2>3, AnswerOthers
       DEF Commit, Rollback, ReleaseLease, At, UnderLease, Critical, ExecutorStep,
           Presumed, Known
  <2> QED
    BY <2>1, <2>2, <2>3
<1>2. Stored(p) /\ Vouched(p) /\ Adds(p)
  BY <1>1, StepsStore, StepsVouch, StepsAdd DEF Presumed, Known
<1>3. Complete(db')
  BY <1>2 DEF Stored, After, Adds, Presumed, Completeness
<1>4. ASSUME NEW q \in Proc, UnderLease(q)'
      PROVE  /\ Complete(View(q)') /\ Effected(run'[q], View(q)')
             /\ txn'[q] # NoTxn => Vouches(db', txn'[q])
  <2>1. q = p
    BY <1>1, <1>4 DEF UnderLease, Others, LeaseExcludes
  <2>2. View(p)' = After(p)
    BY DEF View, After
  <2> QED
    BY <1>2, <2>1, <2>2 DEF Stored, Vouched
<1> QED
  BY <1>2, <1>3, <1>4 DEF Completeness

\* What a run knows of its database is a matter of journal and schema.
LEMMA SameEffected ==
  ASSUME NEW d, NEW e, e.journal = d.journal, e.schema = d.schema
  PROVE  /\ Complete(d) => Complete(e)
         /\ \A l : Effected(l, d) => Effected(l, e)
BY DEF Complete, Effected

\* A step from outside the lease leaves journal, schema, checkpoints and other
\* runs as they are.
LEMMA OutsideComplete ==
  ASSUME Presumed, NEW p \in Proc, Others(p),
         \A q \in Proc \ {p} : txn'[q] = txn[q] /\ (q \in online' => q \in online),
         db'.journal = db.journal, db'.schema = db.schema, db'.marks = db.marks,
         UnderLease(p)' =>
           /\ \A d : Effected(run'[p], d)
           /\ txn'[p] # NoTxn => UnderLease(p) /\ txn'[p] = txn[p]
  PROVE  Completeness'
<1>1. Complete(db')
  BY SameEffected DEF Presumed, Completeness
<1>2. ASSUME NEW q \in Proc \ {p}, UnderLease(q)'
      PROVE  /\ Complete(View(q)') /\ Effected(run'[q], View(q)')
             /\ txn'[q] # NoTxn => Vouches(db', txn'[q])
  <2>1. UnderLease(q) /\ run'[q] = run[q] /\ txn'[q] = txn[q]
    BY <1>2 DEF UnderLease, Others
  <2>2. /\ Complete(View(q)) /\ Effected(run[q], View(q))
        /\ txn[q] # NoTxn => Vouches(db, txn[q])
    BY <2>1 DEF Presumed, Completeness
  <2>3. View(q)'.journal = View(q).journal /\ View(q)'.schema = View(q).schema
    BY <2>1 DEF View
  <2>4. Complete(View(q)') /\ Effected(run'[q], View(q)')
    BY <2>1, <2>2, <2>3, SameEffected
  <2>5. txn'[q] # NoTxn => Vouches(db', txn'[q])
    BY <2>1, <2>2 DEF Vouches
  <2> QED
    BY <2>4, <2>5
<1>3. ASSUME UnderLease(p)'
      PROVE  /\ Complete(View(p)') /\ Effected(run'[p], View(p)')
             /\ txn'[p] # NoTxn => Vouches(db', txn'[p])
  <2>1. CASE txn'[p] = NoTxn
    BY <1>1, <1>3, <2>1 DEF View
  <2>2. CASE txn'[p] # NoTxn
    <3>1. UnderLease(p) /\ txn'[p] = txn[p] /\ View(p)' = View(p)
      BY <1>3, <2>2 DEF View
    <3>2. Complete(View(p)) /\ Vouches(db, txn[p])
      BY <2>2, <3>1 DEF Presumed, Completeness
    <3> QED
      BY <1>3, <3>1, <3>2 DEF Vouches
  <2> QED
    BY <2>1, <2>2
<1> QED
  BY <1>1, <1>2, <1>3 DEF Completeness

\* A run that gets the lease has no transaction and claims nothing.
LEMMA AcquireLeaseComplete ==
  ASSUME Presumed, NEW p \in Proc, AcquireLease(p)
  PROVE  Completeness'
<1> DEFINE l == [run[p] EXCEPT
             !.leased = TRUE,
             !.pc = IF run[p].role = "apply" THEN "read" ELSE "verify"]
<1>1. /\ At(p, "lease") /\ Answer(p, l) /\ UNCHANGED <<txn, online>>
      /\ UNCHANGED db \/ db' = [db EXCEPT !.lease = p]
  BY DEF AcquireLease
<1>2. /\ run[p] \in Run /\ run[p].pc = "lease" /\ db \in Database /\ Others(p)
      /\ ProgressOK(run[p]) /\ TransactionOK(p)
  BY <1>1, AnswerOthers DEF At, Presumed, Known, Sound, TypeOK, InProgress
<1>3. db'.journal = db.journal /\ db'.schema = db.schema /\ db'.marks = db.marks
  BY <1>1, <1>2 DEF Database
<1>4. l.pc \in {"read", "verify"}
  BY <1>2 DEF Run
<1>5. txn[p] = NoTxn
  BY <1>2 DEF TransactionOK, Critical, ExecutorStep, ReconcileStep
<1> HIDE DEF l
<1>6. \A d : Effected(run'[p], d)
  <2>1. CASE run' = [run EXCEPT ![p] = l]
    BY <1>4, <2>1, NothingEffected DEF Presumed, Known, Sound, TypeOK
  <2>2. CASE run' = [run EXCEPT ![p] = Throw(run[p], Unanswered(run[p]))]
    <3>1. /\ run'[p] = Throw(run[p], Unanswered(run[p]))
          /\ Unanswered(run[p]) \in {"failed", "uncertain"}
      BY <2>2 DEF Presumed, Known, Sound, TypeOK, Unanswered
    <3>2. GaveUp(run'[p])
      BY <1>2, <3>1, ThrowOnward DEF Quit
    <3> QED
      BY <3>2, NothingEffected
  <2> QED
    BY <1>1, <2>1, <2>2 DEF Answer
<1> QED
  BY <1>1, <1>2, <1>3, <1>5, <1>6, OutsideComplete

\* An exception leaves a run nothing to claim, and its transaction as it is.
LEMMA FailComplete ==
  ASSUME Presumed, NEW p \in Proc, Fail(p)
  PROVE  Completeness'
<1>1. PICK e \in {"failed", "uncertain"} : run' = [run EXCEPT ![p] = Throw(run[p], e)]
  BY DEF Fail, ErrorKinds
<1>2. /\ run[p] \in Run /\ ProgressOK(run[p]) /\ run'[p] = Throw(run[p], e)
      /\ Others(p) /\ TransactionOK(p)
  BY <1>1 DEF Presumed, Known, Sound, TypeOK, InProgress, Others
<1>3. UNCHANGED <<db, txn, online>> /\ p \in online /\ run[p].pc # "idle"
  BY DEF Fail
<1>4. CASE run[p].pc = "close"
  <2>1. run'[p].pc = "idle"
    BY <1>2, <1>4, ThrowClosing DEF Idle
  <2>2. ~UnderLease(p)'
    BY <2>1 DEF UnderLease, Critical, ExecutorStep, ReconcileStep
  <2> QED
    BY <1>2, <1>3, <2>2, OutsideComplete
<1>5. CASE run[p].pc # "close"
  <2>1. GaveUp(run'[p])
    BY <1>1, <1>2, <1>3, <1>5, ThrowOnward DEF Quit
  <2>2. txn[p] # NoTxn => UnderLease(p)
    BY <1>2, <1>3, <1>5 DEF TransactionOK, UnderLease
  <2>3. \A d : Effected(run'[p], d)
    BY <2>1, NothingEffected
  <2> QED
    BY <1>2, <1>3, <2>2, <2>3, OutsideComplete
<1> QED
  BY <1>4, <1>5

\* A run that starts, is over or has lost its connection is not under the lease.
LEMMA AwayFromLease ==
  ASSUME Presumed, NEW p \in Proc,
         \/ StartApply(p) \/ StartReconcile(p) \/ CallDisconnected(p)
         \/ CloseSession(p) \/ Crash(p) \/ LoseConnection(p) \/ EndClient(p)
  PROVE  /\ Others(p) /\ ~UnderLease(p)'
         /\ \A q \in Proc \ {p} : txn'[q] = txn[q] /\ (q \in online' => q \in online)
         /\ db'.journal = db.journal /\ db'.schema = db.schema /\ db'.marks = db.marks
<1>1. /\ Others(p) /\ db \in Database /\ run \in [Proc -> Run]
      /\ \A q \in Proc \ {p} : txn'[q] = txn[q] /\ (q \in online' => q \in online)
  <2>1. CASE StartApply(p) \/ StartReconcile(p) \/ CallDisconnected(p)
    BY <2>1 DEF StartApply, StartReconcile, CallDisconnected, Others, Presumed, Known,
                Sound, TypeOK
  <2>2. CASE CloseSession(p) \/ Crash(p) \/ LoseConnection(p) \/ EndClient(p)
    BY <2>2, EndingAway DEF EndingStep, Presumed, Known, Sound, TypeOK
  <2> QED
    BY <2>1, <2>2
<1>2. db'.journal = db.journal /\ db'.schema = db.schema /\ db'.marks = db.marks
  BY <1>1 DEF StartApply, StartReconcile, CallDisconnected, CloseSession, Crash,
              LoseConnection, EndClient, Database
<1>3. ~UnderLease(p)'
  <2>1. CASE \/ CallDisconnected(p) \/ LoseConnection(p) \/ CloseSession(p) \/ Crash(p)
             \/ EndClient(p)
    BY <2>1, EndingAway DEF CallDisconnected, UnderLease, Presumed, Known
  <2>2. CASE StartApply(p)
    <3> DEFINE opened(repo) == [Idle EXCEPT !.role = "apply", !.repo = repo]
               ready(repo)  == [opened(repo) EXCEPT !.pc = "lease"]
               unable(repo) == [opened(repo) EXCEPT !.pc = "close", !.error = "failed"]
               refused      == [Idle EXCEPT !.result = "failed"]
    <3>1. \E repo \in Repositories : run'[p] \in {ready(repo), unable(repo), refused}
      BY <1>1, <2>2 DEF StartApply
    <3>2. \A repo : ready(repo).pc = "lease" /\ unable(repo).pc = "close"
      BY DEF Idle
    <3>3. refused.pc = "idle"
      BY DEF Idle
    <3> HIDE DEF ready, unable, refused
    <3>4. run'[p].pc \in {"lease", "close", "idle"}
      BY <3>1, <3>2, <3>3
    <3> QED
      BY <3>4 DEF UnderLease, Critical, ExecutorStep, ReconcileStep
  <2>3. CASE StartReconcile(p)
    <3>1. run'[p].pc = "lease"
      BY <1>1, <2>3 DEF StartReconcile, Idle
    <3> QED
      BY <3>1 DEF UnderLease, Critical, ExecutorStep, ReconcileStep
  <2> QED
    BY <2>1, <2>2, <2>3
<1> QED
  BY <1>1, <1>2, <1>3

LEMMA AwayComplete ==
  ASSUME Presumed, NEW p \in Proc,
         \/ StartApply(p) \/ StartReconcile(p) \/ CallDisconnected(p)
         \/ CloseSession(p) \/ Crash(p) \/ LoseConnection(p) \/ EndClient(p)
  PROVE  Completeness' /\ db'.marks = db.marks
BY AwayFromLease, OutsideComplete

\* The operator completes or undoes an attempt that is open, so none that is
\* applied: those are at other artifacts.
LEMMA RepairComplete ==
  ASSUME Presumed, Repair
  PROVE  Completeness' /\ db'.marks = db.marks
<1> DEFINE j == db.journal
<1>1. /\ db \in Database /\ j \in Journal /\ Complete(db) /\ RecordsOK(j)
  BY DEF Presumed, Known, Sound, TypeOK, Database, Completeness, Recording
<1>2. PICK k \in OpenAttempts(j) :
        \E schema \in {db.schema \cup Effects(j.attempts[k].artifact),
                       db.schema \ Effects(j.attempts[k].artifact)} :
          db' = [db EXCEPT !.schema = schema]
  BY DEF Repair
<1> DEFINE a == j.attempts[k].artifact
<1>3. /\ db'.journal = j /\ db'.marks = db.marks
      /\ db'.schema \in {db.schema \cup Effects(a), db.schema \ Effects(a)}
  BY <1>1, <1>2 DEF Database
<1>4. ASSUME NEW m \in AttemptId, StateOf(j, m) = "applied"
      PROVE  Effects(j.attempts[m].artifact) \subseteq db'.schema
  <2>1. m \in RecordedBy(j)
    BY <1>1, <1>4 DEF RecordsOK, AppliedAttemptsRecorded
  <2>2. PICK n \in 1..Len(j.applied) : j.applied[n].attempt = m
    BY <2>1 DEF RecordedBy
  <2>3. j.applied[n].artifact = j.attempts[m].artifact
    BY <1>1, <2>2 DEF Complete, OwnRecords
  <2>4. m # k
    BY <1>4 DEF OpenAttempts, Unresolved
  <2>5. j.attempts[m].artifact # a
    BY <1>1, <2>2, <2>3, <2>4 DEF RecordsOK, OpenUnrecorded
  <2>6. \A e \in Effects(j.attempts[m].artifact) : e \notin Effects(a)
    BY <2>5 DEF Effects
  <2>7. Effects(j.attempts[m].artifact) \subseteq db.schema
    BY <1>1, <1>4 DEF Complete, AppliedIn
  <2> QED
    BY <1>3, <2>6, <2>7
<1>5. Complete(db')
  BY <1>1, <1>3, <1>4 DEF Complete, AppliedIn
<1>6. \A q \in Proc : ~UnderLease(q)'
  BY DEF Repair, UnderLease, Critical, ExecutorStep, ReconcileStep
<1> QED
  BY <1>3, <1>5, <1>6 DEF Completeness

LEMMA ClearLeaseRowComplete ==
  ASSUME Presumed, ClearLeaseRow
  PROVE  Completeness' /\ db'.marks = db.marks
<1>1. /\ db'.journal = db.journal /\ db'.schema = db.schema /\ db'.marks = db.marks
      /\ UNCHANGED <<txn, online, run>>
  BY DEF ClearLeaseRow, Presumed, Known, Sound, TypeOK, Database
<1>2. Complete(db')
  BY <1>1, SameEffected DEF Presumed, Completeness
<1>3. ASSUME NEW q \in Proc, UnderLease(q)'
      PROVE  /\ Complete(View(q)') /\ Effected(run'[q], View(q)')
             /\ txn'[q] # NoTxn => Vouches(db', txn'[q])
  <2>1. UnderLease(q)
    BY <1>1, <1>3 DEF UnderLease
  <2>2. /\ Complete(View(q)) /\ Effected(run[q], View(q))
        /\ txn[q] # NoTxn => Vouches(db, txn[q])
    BY <2>1 DEF Presumed, Completeness
  <2>3. View(q)'.journal = View(q).journal /\ View(q)'.schema = View(q).schema
    BY <1>1 DEF View
  <2>4. Complete(View(q)') /\ Effected(run'[q], View(q)')
    BY <1>1, <2>2, <2>3, SameEffected
  <2> QED
    BY <1>1, <2>2, <2>4 DEF Vouches
<1> QED
  BY <1>1, <1>2, <1>3 DEF Completeness

\* Every step keeps the invariant, and commits a checkpoint only with its effect.
LEMMA NextComplete ==
  ASSUME Presumed, LeaseExcludes, [Next]_vars
  PROVE  /\ Completeness'
         /\ \A mark \in db'.marks \ db.marks : mark[2] \in db'.schema
<1>1. ASSUME NEW p \in Proc,
             WorkingStep(p) \/ BeginTransaction(p) \/ Commit(p) \/ CommitRefused(p)
             \/ Rollback(p) \/ ReleaseLease(p)
      PROVE  /\ Completeness'
             /\ \A mark \in db'.marks \ db.marks : mark[2] \in db'.schema
  BY <1>1, StepsComplete DEF Vouched
<1>2. ASSUME NEW p \in Proc,
             \/ AcquireLease(p) \/ Fail(p) \/ StartApply(p) \/ StartReconcile(p)
             \/ CallDisconnected(p) \/ CloseSession(p) \/ Crash(p) \/ LoseConnection(p)
             \/ EndClient(p)
      PROVE  Completeness' /\ db'.marks = db.marks
  <2>1. CASE AcquireLease(p) \/ Fail(p)
    <3>1. db'.marks = db.marks
      BY <2>1 DEF AcquireLease, Fail, Presumed, Known, Sound, TypeOK, Database
    <3> QED
      BY <2>1, <3>1, AcquireLeaseComplete, FailComplete
  <2> QED
    BY <1>2, <2>1, AwayComplete
<1>3. CASE UNCHANGED vars
  BY <1>3 DEF vars, Presumed, Completeness, UnderLease, View
<1>4. ASSUME NEW p \in Proc, Continue(p)
      PROVE  /\ Completeness'
             /\ \A mark \in db'.marks \ db.marks : mark[2] \in db'.schema
  <2>1. \/ WorkingStep(p) \/ AcquireLease(p) \/ ReleaseLease(p) \/ CloseSession(p)
        \/ BeginTransaction(p) \/ Commit(p) \/ Rollback(p) \/ CallDisconnected(p)
    BY <1>4 DEF Continue, WorkingStep
  <2> QED
    BY <1>1, <1>2, <2>1
<1> QED
  BY <1>1, <1>2, <1>3, <1>4, RepairComplete, ClearLeaseRowComplete DEF Next

\* Completeness: every attempt called applied has its effects in the schema, and
\* a run under the lease has in the schema it sees whatever is behind its await,
\* in every reachable state of every instance.
THEOREM CompletenessAlways == Spec => []Completeness
<1>1. Init => Completeness
  BY DEF Init, Completeness, Complete, AppliedIn, OwnRecords, UnderLease, Idle, StateOf,
         EmptyJournal, NoAttempt, Critical, ExecutorStep, ReconcileStep
<1>2. Sound /\ InProgress /\ InStep /\ LinearLedger /\ LeaseExcludes /\ Recording
      /\ Completeness /\ [Next]_vars => Completeness'
  BY NextComplete DEF Presumed, Known
<1> QED
  BY <1>1, <1>2, SoundAlways, InProgressAlways, InStepAlways, LedgerIsLinear,
     LeaseExclusion, RecordingAlways, PTL DEF Spec

\* AppliedIsComplete: an attempt the journal calls applied has all its statements
\* in the schema, whether the executor or a reconciliation settled it, and
\* whatever an operator repairs later.
THEOREM AppliedHasEffects == Spec => []AppliedIsComplete
<1>1. Completeness => AppliedIsComplete
  BY DEF Completeness, Complete, AppliedIn, AppliedIsComplete
<1> QED
  BY <1>1, CompletenessAlways, PTL

\* CheckpointIsEvidence: a statement checkpoint becomes visible only with the
\* effect of its statement, in a transaction or outside one.
THEOREM CheckpointsAreEvidence == Spec => CheckpointIsEvidence
<1> DEFINE Evident == \A mark \in db'.marks \ db.marks : mark[2] \in db'.schema
<1>1. Sound /\ InProgress /\ InStep /\ LinearLedger /\ LeaseExcludes /\ Recording
      /\ Completeness /\ [Next]_vars => [Evident]_vars
  BY NextComplete DEF Presumed, Known
<1> QED
  BY <1>1, SoundAlways, InProgressAlways, InStepAlways, LedgerIsLinear, LeaseExclusion,
     RecordingAlways, CompletenessAlways, PTL DEF Spec, CheckpointIsEvidence
=============================================================================
