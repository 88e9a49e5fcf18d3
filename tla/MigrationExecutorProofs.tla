----------------------- MODULE MigrationExecutorProofs ----------------------
(***************************************************************************)
(* What the operations of the journal keep (types, the linear chain and    *)
(* its head), and theorems of MigrationExecutor: both for every set of     *)
(* processes, artifacts, programs, repositories and attempts, both kinds   *)
(* of lease and any number of faults.  The inductive invariant is Sound:   *)
(* types alone are not inductive, since a statement's effect and a record  *)
(* are of their type only where the run stands at a position of its        *)
(* repository and of its program, and a commit publishes a database only   *)
(* if a transaction is open.                                               *)
(*                                                                         *)
(* Two safety theorems rest on it: steps under the lease never overlap,    *)
(* and the committed history is a linear chain.  Both look at a step the   *)
(* same way: most steps of a run only write through its session a journal  *)
(* that extends the one the session sees (Working); the steps that take or *)
(* drop the lease, a transaction or a session are looked at one by one.    *)
(***************************************************************************)
EXTENDS MigrationExecutor, SequenceTheorems, TLAPS

-----------------------------------------------------------------------------
(* The journal: types. *)

\* The empty journal is one.
LEMMA EmptyJournalType == EmptyJournal \in Journal
BY DEF EmptyJournal, Journal, Digest, Attempt

\* createAttempt yields a journal.
LEMMA CreateAttemptType ==
  ASSUME NEW j \in Journal, NEW k \in AttemptId, NEW a \in Artifact,
         NEW expected \in Digest
  PROVE  CreateAttempt(j, k, a, expected) \in Journal
<1>1. [artifact |-> a, expectedHead |-> expected, state |-> "started"] \in Attempt
  BY DEF Attempt, AttemptState, Unresolved
<1> QED
  BY <1>1 DEF CreateAttempt, Journal

\* transitionAttempt yields a journal, whatever the identity: an attempt that
\* was never created has no transition.
LEMMA TransitionAttemptType ==
  ASSUME NEW j \in Journal, NEW k, NEW s, CanTransition(j, k, s)
  PROVE  TransitionAttempt(j, k, s) \in Journal
<1>1. CASE k \in AttemptId
  <2>1. j.attempts[k] \in Attempt
    BY <1>1 DEF Journal
  <2>2. StateOf(j, k) \in AttemptState \cup {"none"}
    BY <2>1 DEF StateOf, Attempt, NoAttempt
  <2>3. s \in AttemptState /\ StateOf(j, k) # "none"
    BY <2>2 DEF CanTransition, transitions, AttemptState, Terminal, Unresolved
  <2>4. [j.attempts[k] EXCEPT !.state = s] \in Attempt
    BY <2>1, <2>3 DEF Attempt, StateOf, NoAttempt
  <2> QED
    BY <1>1, <2>4 DEF TransitionAttempt, Journal
<1>2. CASE k \notin AttemptId
  BY <1>2 DEF TransitionAttempt, Journal
<1> QED
  BY <1>1, <1>2

\* An attempt that awaits an outcome is one at an artifact.
LEMMA OpenAttemptArtifact ==
  ASSUME NEW j \in Journal, NEW k \in OpenAttempts(j)
  PROVE  j.attempts[k].artifact \in Artifact
<1>1. k \in AttemptId /\ j.attempts[k] \in Attempt /\ j.attempts[k].state \in Unresolved
  BY DEF OpenAttempts, StateOf, Journal
<1> QED
  BY <1>1 DEF Attempt, NoAttempt, Unresolved

\* appendAppliedAndAdvanceHead yields a journal.
LEMMA AppendType ==
  ASSUME NEW j \in Journal, NEW a \in Artifact, NEW k \in AttemptId
  PROVE  AppendAppliedAndAdvanceHead(j, a, k) \in Journal
<1> DEFINE r == [artifact |-> a, attempt |-> k]
<1>1. r \in AppliedRecord
  BY DEF AppliedRecord
<1>2. Append(j.applied, r) \in Seq(AppliedRecord)
  <2> j.applied \in Seq(AppliedRecord)
    BY DEF Journal
  <2> HIDE DEF r
  <2> QED
    BY <1>1
<1> HIDE DEF r
<1>3. AppendAppliedAndAdvanceHead(j, a, k) =
        [j EXCEPT !.applied = Append(@, r), !.head = a]
  BY DEF AppendAppliedAndAdvanceHead, r
<1> QED
  BY <1>2, <1>3 DEF Journal, Digest

\* recordReconciliation yields a journal.
LEMMA RecordReconciliationType ==
  ASSUME NEW j \in Journal, NEW k, NEW outcome \in Terminal \cup {"none"}
  PROVE  RecordReconciliation(j, k, outcome) \in Journal
BY DEF RecordReconciliation, Journal

-----------------------------------------------------------------------------
(* The journal: the chain. *)

\* The empty history is a chain.
LEMMA EmptyChained == Chained(EmptyJournal)
BY DEF Chained, HeadMatches, LinearHistory, UniqueRecords, LastOf, EmptyJournal

\* Operations that leave history and head alone leave the chain alone.
LEMMA SameHistoryChained ==
  ASSUME NEW j, NEW i, Chained(j), i.head = j.head, i.applied = j.applied
  PROVE  Chained(i)
BY DEF Chained, HeadMatches, LinearHistory, UniqueRecords, LastOf

\* What appendAppliedAndAdvanceHead accepts keeps the chain: the parent it
\* demands is the end of the history, and the artifact is a new one.
LEMMA AppendChained ==
  ASSUME NEW j \in Journal, NEW a \in Artifact, NEW k \in AttemptId,
         NEW expected, CanAppend(j, a, k, expected), Chained(j)
  PROVE  Chained(AppendAppliedAndAdvanceHead(j, a, k))
<1> DEFINE i == AppendAppliedAndAdvanceHead(j, a, k)
           r == [artifact |-> a, attempt |-> k]
           m == Len(j.applied)
<1>1. /\ i.applied = Append(j.applied, r)
      /\ i.head = a
      /\ j.applied \in Seq(AppliedRecord)
      /\ r.artifact = a
  BY DEF AppendAppliedAndAdvanceHead, Journal
<1>2. r \in AppliedRecord
  BY DEF AppliedRecord
<1> HIDE DEF i, r
<1>3. m \in Nat /\ Len(i.applied) = m + 1
  BY <1>1, <1>2
<1>4. \A n \in 1..m : i.applied[n] = j.applied[n]
  BY <1>1, <1>2
<1>5. i.applied[m + 1] = r
  BY <1>1, <1>2
<1>6. i.applied # << >>
  BY <1>1, <1>2
<1>7. j.applied = << >> <=> m = 0
  BY <1>1
<1> HIDE DEF m
<1>8. HeadMatches(i)
  BY <1>1, <1>3, <1>5, <1>6 DEF HeadMatches, LastOf
<1>9. LinearHistory(i)
  <2> SUFFICES ASSUME NEW n \in 1..(m + 1)
               PROVE  Parent[i.applied[n].artifact] =
                        IF n = 1 THEN Null ELSE i.applied[n - 1].artifact
    BY <1>3 DEF LinearHistory
  <2>1. CASE n \in 1..m
    <3>1. Parent[j.applied[n].artifact] =
            IF n = 1 THEN Null ELSE j.applied[n - 1].artifact
      BY <2>1 DEF Chained, LinearHistory, m
    <3>2. n = 1 \/ n - 1 \in 1..m
      BY <2>1, <1>3
    <3> QED
      BY <3>1, <3>2, <2>1, <1>4
  <2>2. CASE n = m + 1
    <3>1. Parent[a] = LastOf(j.applied)
      BY DEF CanAppend, HeadUnchanged, Chained, HeadMatches
    <3>2. LastOf(j.applied) = IF m = 0 THEN Null ELSE j.applied[m].artifact
      BY <1>7 DEF LastOf, m
    <3>3. m # 0 => i.applied[m] = j.applied[m]
      BY <1>3, <1>4
    <3>4. i.applied[n].artifact = a
      BY <2>2, <1>5, <1>1
    <3> QED
      BY <2>2, <3>1, <3>2, <3>3, <3>4, <1>3
  <2> QED
    BY <2>1, <2>2, <1>3
<1>10. UniqueRecords(i)
  <2>1. \A n \in 1..m : j.applied[n].artifact # a
    BY DEF CanAppend, NotYetRecorded, Recorded, m
  <2>2. \A n1, n2 \in 1..m : j.applied[n1].artifact = j.applied[n2].artifact => n1 = n2
    BY DEF UniqueRecords, Chained, m
  <2>3. \A n \in 1..(m + 1) : n \in 1..m \/ n = m + 1
    BY <1>3
  <2> QED
    BY <2>1, <2>2, <2>3, <1>1, <1>3, <1>4, <1>5 DEF UniqueRecords
<1> QED
  BY <1>8, <1>9, <1>10 DEF Chained, i

-----------------------------------------------------------------------------
(* Runs: what the helpers make of the local variables of a run. *)

\* The awaits an exception leads to.
Away == {"close", "release", "rollback", "conclude", "unlock"}

\* A run in the middle of executeArtifact.
InArtifact(l) ==
  /\ l \in Run
  /\ l.n \in 1..Len(l.repo)
  /\ l.attempt \in AttemptId
  /\ l.leased

\* A run past a phase: on its way out, or going on without a transaction.
PastPhase(l) == l.pc \in Away \/ (~l.active /\ l.pc \in ExecutorStep)

\* The initial values are those of a run at rest.
LEMMA IdleOK == Idle \in Run /\ LocalOK(Idle) /\ Idle.pc = "idle"
<1>1. Idle \in Run
  BY DEF Idle, Run, Step, Digest
<1>2. Idle.pc = "idle"
  BY DEF Idle
<1>3. LocalOK(Idle)
  BY <1>2 DEF LocalOK, PositionOK, AttemptOK, FlagsOK, ExecutorStep,
              ReconcileStep, Critical
<1> QED
  BY <1>1, <1>2, <1>3

\* The artifact a run is at has a program of phases.
LEMMA PhasesType ==
  ASSUME NEW l \in Run, l.n \in 1..Len(l.repo)
  PROVE  /\ ArtifactOf(l) \in Artifact
         /\ Len(Phases(l)) \in Nat
         /\ \A ph \in 1..Len(Phases(l)) :
              Phases(l)[ph] \in Phase /\ Phases(l)[ph].statements \in Nat
<1>1. ArtifactOf(l) \in Artifact
  BY DEF ArtifactOf, Run
<1>2. Phases(l) \in Seq(Phase)
  BY <1>1, ExecutorAssumption DEF Phases
<1> DEFINE phases == Phases(l)
<1> HIDE DEF phases
<1>3. Len(phases) \in Nat /\ \A ph \in 1..Len(phases) : phases[ph] \in Phase
  BY <1>2 DEF phases
<1>4. \A phase \in Phase : phase.statements \in Nat
  BY DEF Phase
<1> QED
  BY <1>1, <1>3, <1>4 DEF phases

\* A phase is entered at one of its awaits, without a transaction.
LEMMA EnterPhaseOK ==
  ASSUME NEW l, InArtifact(l), ~l.active, l.ph >= 1, l.st >= 1
  PROVE  /\ EnterPhase(l) \in Run
         /\ LocalOK(EnterPhase(l))
         /\ ~EnterPhase(l).active
         /\ EnterPhase(l).pc \in ExecutorStep
<1> DEFINE m == EnterPhase(l)
<1>1. l \in Run /\ Len(Phases(l)) \in Nat
  BY PhasesType DEF InArtifact
<1>2. /\ m \in Run
      /\ m.pc \in {"record", "lock", "begin", "check"}
      /\ m.pc # "record" => ~(l.ph > Len(Phases(l)))
      /\ m.n = l.n /\ m.repo = l.repo /\ m.attempt = l.attempt
      /\ m.leased = l.leased /\ m.active = l.active
      /\ m.ph = l.ph /\ m.st = l.st
  BY <1>1 DEF EnterPhase, Run, Step, ExecutorStep
<1>3. Phases(m) = Phases(l)
  BY <1>2 DEF Phases, ArtifactOf
<1> HIDE DEF m
<1>4. m.pc # "record" => m.ph \in 1..Len(Phases(m))
  BY <1>1, <1>2, <1>3 DEF Run
<1>5. PositionOK(m)
  BY <1>2, <1>4 DEF PositionOK, InArtifact
<1>6. AttemptOK(m)
  BY <1>2 DEF AttemptOK, InArtifact
<1>7. FlagsOK(m)
  BY <1>2 DEF FlagsOK, InArtifact
<1> QED
  BY <1>2, <1>5, <1>6, <1>7 DEF LocalOK, m, ExecutorStep

\* Behind a statement is the next one, or the end of the phase.
LEMMA AfterStatementsOK ==
  ASSUME NEW l, InArtifact(l), l.ph \in 1..Len(Phases(l)), l.st >= 1
  PROVE  /\ AfterStatements(l) \in Run
         /\ LocalOK(AfterStatements(l))
         /\ AfterStatements(l).active = l.active
         /\ AfterStatements(l).pc \in {"postcheck", "execute"}
<1> DEFINE m == AfterStatements(l)
<1>1. l \in Run /\ PhaseOf(l).statements \in Nat
  BY PhasesType DEF InArtifact, PhaseOf
<1>2. /\ m \in Run
      /\ m.pc \in {"postcheck", "execute"}
      /\ m.n = l.n /\ m.repo = l.repo /\ m.attempt = l.attempt
      /\ m.leased = l.leased /\ m.active = l.active
      /\ m.ph = l.ph /\ m.st = l.st
  BY <1>1 DEF AfterStatements, Run, Step, ExecutorStep
<1>3. Phases(m) = Phases(l) /\ PhaseOf(m) = PhaseOf(l)
  BY <1>2 DEF Phases, ArtifactOf, PhaseOf
<1> HIDE DEF m
<1>4. PositionOK(m)
  BY <1>2, <1>3 DEF PositionOK, InArtifact
<1>5. AttemptOK(m)
  BY <1>2 DEF AttemptOK, InArtifact
<1>6. FlagsOK(m)
  BY <1>2 DEF FlagsOK, InArtifact
<1> QED
  BY <1>2, <1>4, <1>5, <1>6 DEF LocalOK, m

\* The next artifact starts over.
LEMMA NextArtifactOK ==
  ASSUME NEW l, InArtifact(l)
  PROVE  /\ NextArtifact(l) \in Run
         /\ LocalOK(NextArtifact(l))
         /\ ~NextArtifact(l).active
         /\ NextArtifact(l).pc = "select"
<1> DEFINE m == NextArtifact(l)
<1>1. l \in Run /\ ArtifactOf(l) \in Artifact
  BY PhasesType DEF InArtifact
<1>2. /\ m \in Run
      /\ m.pc = "select" /\ m.n = l.n + 1 /\ m.leased = l.leased /\ ~m.active
  <2>1. Idle \in Run /\ ~Idle.active
    BY IdleOK DEF Idle
  <2>2. /\ l.role \in {"none", "apply", "reconcile"}
        /\ l.repo \in Seq(Artifact)
        /\ l.leased \in BOOLEAN
        /\ l.n + 1 \in Nat
        /\ ArtifactOf(l) \in Digest
    BY <1>1 DEF Run, Digest
  <2>3. "select" \in Step
    BY DEF Step, ExecutorStep
  <2>4. m \in Run
    BY <2>1, <2>2, <2>3 DEF NextArtifact, Run
  <2> QED
    BY <2>1, <2>4 DEF NextArtifact, Run
<1> HIDE DEF m
<1>3. PositionOK(m)
  BY <1>1, <1>2 DEF PositionOK, Run
<1>4. AttemptOK(m)
  BY <1>2 DEF AttemptOK, ReconcileStep
<1>5. FlagsOK(m)
  BY <1>2 DEF FlagsOK, InArtifact
<1> QED
  BY <1>2, <1>3, <1>4, <1>5 DEF LocalOK, m

\* A run in an artifact may stand at the catch, and at the finally of a phase.
LEMMA FailingOK ==
  ASSUME NEW l, InArtifact(l),
         \/ l.pc \in {"rollback", "conclude"}
         \/ l.pc = "unlock" /\ (l.error = "none" => ~l.active)
  PROVE  LocalOK(l) /\ l.pc \in Away
<1>1. PositionOK(l)
  BY DEF PositionOK, InArtifact
<1>2. AttemptOK(l)
  BY DEF AttemptOK, InArtifact
<1>3. FlagsOK(l)
  BY DEF FlagsOK, InArtifact
<1> QED
  BY <1>1, <1>2, <1>3 DEF LocalOK, Away

\* The catch of executeArtifact.
LEMMA CatchOK ==
  ASSUME NEW l, InArtifact(l)
  PROVE  /\ Catch(l) \in Run
         /\ LocalOK(Catch(l))
         /\ Catch(l).pc \in Away
<1> DEFINE m == Catch(l)
<1>1. InArtifact(m) /\ m.pc \in {"rollback", "conclude"}
  BY DEF Catch, Run, Step, ExecutorStep, InArtifact
<1> HIDE DEF m
<1> QED
  BY <1>1, FailingOK DEF InArtifact, m

\* Behind a phase: the catch, the next phase, or the next artifact.
LEMMA AfterFinallyOK ==
  ASSUME NEW l, InArtifact(l), l.error = "none" => ~l.active
  PROVE  /\ AfterFinally(l) \in Run
         /\ LocalOK(AfterFinally(l))
         /\ PastPhase(AfterFinally(l))
<1>1. CASE l.error # "none"
  BY <1>1, CatchOK DEF AfterFinally, PastPhase
<1>2. CASE l.error = "none" /\ l.ph < Len(Phases(l))
  <2> DEFINE m == [l EXCEPT !.ph = @ + 1, !.st = 1]
  <2>1. l \in Run /\ l.ph + 1 \in Nat /\ l.ph + 1 >= 1
    BY DEF InArtifact, Run
  <2>2. m \in Run
    BY <2>1 DEF Run
  <2>3. /\ m.n = l.n /\ m.repo = l.repo /\ m.attempt = l.attempt
        /\ m.leased = l.leased /\ m.active = l.active
        /\ m.ph = l.ph + 1 /\ m.st = 1
    BY <2>1 DEF Run
  <2>4. InArtifact(m) /\ ~m.active /\ m.ph >= 1 /\ m.st >= 1
    BY <1>2, <2>1, <2>2, <2>3 DEF InArtifact
  <2>5. AfterFinally(l) = EnterPhase(m)
    BY <1>2 DEF AfterFinally
  <2> QED
    BY <2>4, <2>5, EnterPhaseOK DEF PastPhase
<1>3. CASE l.error = "none" /\ ~(l.ph < Len(Phases(l)))
  BY <1>3, NextArtifactOK DEF AfterFinally, ExecutorStep, PastPhase
<1> QED
  BY <1>1, <1>2, <1>3

\* The finally around a phase.
LEMMA FinallyOK ==
  ASSUME NEW l, InArtifact(l), l.error = "none" => ~l.active
  PROVE  /\ Finally(l) \in Run
         /\ LocalOK(Finally(l))
         /\ PastPhase(Finally(l))
<1>1. CASE l.locked
  <2> DEFINE m == [l EXCEPT !.pc = "unlock"]
  <2>1. Finally(l) = m
    BY <1>1 DEF Finally
  <2>2. InArtifact(m) /\ m.pc = "unlock" /\ m.active = l.active /\ m.error = l.error
    BY DEF Run, Step, ExecutorStep, InArtifact
  <2> QED
    BY <2>1, <2>2, FailingOK DEF InArtifact, PastPhase
<1>2. CASE ~l.locked
  BY <1>2, AfterFinallyOK DEF Finally
<1> QED
  BY <1>1, <1>2

\* With an error on its way the finally does not go on.
LEMMA FinallyThrownOK ==
  ASSUME NEW l, InArtifact(l), l.error # "none"
  PROVE  /\ Finally(l) \in Run
         /\ LocalOK(Finally(l))
         /\ Finally(l).pc \in Away
<1>1. CASE l.locked
  <2> DEFINE m == [l EXCEPT !.pc = "unlock"]
  <2>1. Finally(l) = m
    BY <1>1 DEF Finally
  <2>2. InArtifact(m) /\ m.pc = "unlock" /\ m.error = l.error
    BY DEF Run, Step, ExecutorStep, InArtifact
  <2> QED
    BY <2>1, <2>2, FailingOK DEF InArtifact
<1>2. CASE ~l.locked
  <2>1. Finally(l) = Catch(l)
    BY <1>2 DEF Finally, AfterFinally
  <2> QED
    BY <2>1, CatchOK
<1> QED
  BY <1>1, <1>2

\* A run on its way out is bound to nothing but its lease.
LEMMA LeavingOK ==
  ASSUME NEW m, m.pc \in {"idle", "close"} \/ (m.pc = "release" /\ m.leased)
  PROVE  LocalOK(m)
BY DEF LocalOK, PositionOK, AttemptOK, FlagsOK, ExecutorStep, ReconcileStep, Critical

\* Between the creation of its attempt and its end, a run is in an artifact.
LEMMA LocalInArtifact ==
  ASSUME NEW l \in Run, LocalOK(l),
         l.pc \in ExecutorStep \ {"read", "select", "create"}
  PROVE  InArtifact(l)
BY DEF LocalOK, PositionOK, AttemptOK, FlagsOK, InArtifact, Critical

\* Every exception leads the run out of its phase, to the catch, the finally
\* blocks or the caller.
LEMMA ThrowOK ==
  ASSUME NEW l \in Run, LocalOK(l), l.pc \notin {"idle", "close"},
         NEW e \in {"failed", "uncertain"}
  PROVE  /\ Throw(l, e) \in Run
         /\ LocalOK(Throw(l, e))
         /\ Throw(l, e).pc \in Away
<1> DEFINE failed == [l EXCEPT !.error = e]
           t == Throw(l, e)
<1> SUFFICES t \in Run /\ LocalOK(t) /\ t.pc \in Away
  OBVIOUS
<1>1. /\ failed \in Run /\ failed.error = e
      /\ failed.n = l.n /\ failed.repo = l.repo /\ failed.attempt = l.attempt
      /\ failed.leased = l.leased /\ failed.pc = l.pc
  BY DEF Run
<1>2. l.pc \in ExecutorStep \ {"read", "select", "create"} => InArtifact(failed)
  BY <1>1, LocalInArtifact DEF InArtifact
<1>3. failed.error # "none"
  BY <1>1
<1> HIDE DEF failed, t
<1>4. l.pc \in Critical => l.leased
  BY DEF LocalOK, FlagsOK
<1>5. CASE l.pc = "lease"
  <2>1. t = [failed EXCEPT !.pc = "close"]
    BY <1>5 DEF Throw, failed, t, ReconcileStep
  <2>2. t \in Run /\ t.pc = "close"
    BY <1>1, <2>1 DEF Run, Step
  <2> QED
    BY <2>2, LeavingOK DEF Away
<1>6. CASE l.pc \in {"read", "select", "create", "start"} \cup ReconcileStep
  <2>1. t = [failed EXCEPT !.pc = "release"]
    BY <1>6 DEF Throw, failed, t, ReconcileStep
  <2>2. t \in Run /\ t.pc = "release" /\ t.leased = l.leased
    BY <1>1, <2>1 DEF Run, Step
  <2>3. l.leased
    BY <1>4, <1>6 DEF Critical, ExecutorStep
  <2> QED
    BY <2>2, <2>3, LeavingOK DEF Away
<1>7. CASE l.pc \in {"lock", "begin"}
  <2>1. t = Catch(failed)
    BY <1>7 DEF Throw, failed, t, ReconcileStep
  <2> QED
    BY <1>2, <1>7, <2>1, CatchOK DEF ExecutorStep
<1>8. CASE l.pc \in {"check", "execute", "mark", "postcheck", "record", "applied"}
  <2>1. t = Finally(failed)
    BY <1>8 DEF Throw, failed, t, ReconcileStep
  <2>2. InArtifact(failed)
    BY <1>2, <1>8 DEF ExecutorStep
  <2> QED
    BY <2>1, <2>2, <1>3, FinallyThrownOK
<1>9. CASE l.pc = "commit"
  <2> DEFINE m == [failed EXCEPT !.active = FALSE]
  <2>1. t = Finally(m)
    BY <1>9 DEF Throw, failed, t, ReconcileStep
  <2>2. InArtifact(m) /\ m.error # "none"
    BY <1>1, <1>2, <1>3, <1>9 DEF ExecutorStep, InArtifact, Run
  <2> QED
    BY <2>1, <2>2, FinallyThrownOK
<1>10. CASE l.pc = "unlock"
  <2>1. t = AfterFinally(failed)
    BY <1>10 DEF Throw, failed, t, ReconcileStep
  <2>2. InArtifact(failed)
    BY <1>2, <1>10 DEF ExecutorStep
  <2>3. AfterFinally(failed) = Catch(failed)
    BY <1>3 DEF AfterFinally
  <2> QED
    BY <2>1, <2>2, <2>3, CatchOK
<1>11. CASE l.pc = "rollback"
  <2>1. t = [failed EXCEPT !.pc = "conclude"]
    BY <1>11 DEF Throw, failed, t, ReconcileStep
  <2>2. InArtifact(failed)
    BY <1>2, <1>11 DEF ExecutorStep
  <2>3. t.pc = "conclude" /\ InArtifact(t)
    BY <1>1, <2>1, <2>2 DEF InArtifact, Run, Step, ExecutorStep
  <2> QED
    BY <2>3, FailingOK DEF InArtifact
<1>12. CASE l.pc = "conclude"
  <2>1. t = [l EXCEPT !.pc = "release"]
    BY <1>12 DEF Throw, failed, t, ReconcileStep
  <2>2. t \in Run /\ t.pc = "release" /\ t.leased = l.leased
    BY <2>1 DEF Run, Step
  <2>3. l.leased
    BY <1>4, <1>12 DEF Critical, ExecutorStep
  <2> QED
    BY <2>2, <2>3, LeavingOK DEF Away
<1>13. CASE l.pc = "release"
  <2>1. t = [l EXCEPT !.pc = "close", !.error = IF @ = "none" THEN e ELSE @]
    BY <1>13 DEF Throw, failed, t, ReconcileStep
  <2>2. t \in Run /\ t.pc = "close"
    BY <2>1 DEF Run, Step
  <2> QED
    BY <2>2, LeavingOK DEF Away
<1> QED
  BY <1>5, <1>6, <1>7, <1>8, <1>9, <1>10, <1>11, <1>12, <1>13
     DEF Run, Step, ExecutorStep

\* A call that fails while the session is closed ends the run.
LEMMA ThrowClosing ==
  ASSUME NEW l \in Run, l.pc = "close", NEW e
  PROVE  Throw(l, e) = [Idle EXCEPT !.result = "unclosed"]
BY DEF Throw, ReconcileStep

-----------------------------------------------------------------------------
(* Steps: what carries the invariant from one state to the next. *)

\* The invariant without the lease.
Sound == TypeOK /\ \A p \in Proc : LocalOK(run[p]) /\ TransactionOK(p)

\* A session reads a database.
LEMMA ViewType ==
  ASSUME TypeOK, NEW p \in Proc
  PROVE  View(p) \in Database /\ JournalOf(p) \in Journal
<1>1. View(p) \in Database
  BY DEF TypeOK, View
<1> QED
  BY <1>1 DEF JournalOf, Database

\* A write of a database leaves every other session alone, and an open
\* transaction open.
LEMMA WriteType ==
  ASSUME TypeOK, NEW p \in Proc, NEW d \in Database, Write(p, d)
  PROVE  /\ db' \in Database
         /\ txn' \in [Proc -> Database \cup {NoTxn}]
         /\ \A q \in Proc \ {p} : txn'[q] = txn[q]
         /\ txn'[p] = NoTxn <=> txn[p] = NoTxn
BY NoTxnAssumption DEF TypeOK, Write

\* The same for a write of a journal.
LEMMA WriteJournalType ==
  ASSUME TypeOK, NEW p \in Proc, NEW j \in Journal, WriteJournal(p, j)
  PROVE  /\ db' \in Database
         /\ txn' \in [Proc -> Database \cup {NoTxn}]
         /\ \A q \in Proc \ {p} : txn'[q] = txn[q]
         /\ txn'[p] = NoTxn <=> txn[p] = NoTxn
<1>1. [View(p) EXCEPT !.journal = j] \in Database
  BY ViewType DEF Database
<1> QED
  BY <1>1, WriteType DEF WriteJournal

\* A step of one process that keeps its own part of the invariant keeps it all.
LEMMA StepOK ==
  ASSUME Sound, NEW p \in Proc, NEW m \in Run, LocalOK(m),
         run' = [run EXCEPT ![p] = m],
         db' \in Database, txn' \in [Proc -> Database \cup {NoTxn}],
         advisory' \in Proc \cup {Null}, ddl' \in Proc \cup {Null},
         online' \subseteq Proc, faults' \in 0..MaxFaults,
         \A q \in Proc \ {p} : txn'[q] = txn[q] /\ (q \in online' <=> q \in online),
         p \in online' /\ m.active /\ m.pc \in InPhase => txn'[p] # NoTxn,
         txn'[p] # NoTxn => p \in online' /\ m.pc \in Critical \cup {"close", "idle"}
  PROVE  Sound'
<1>1. run' \in [Proc -> Run] /\ run'[p] = m
  BY DEF Sound, TypeOK
<1>2. \A q \in Proc \ {p} : run'[q] = run[q]
  BY DEF Sound, TypeOK
<1>3. TypeOK'
  BY <1>1 DEF TypeOK
<1>4. ASSUME NEW q \in Proc
      PROVE  LocalOK(run[q])' /\ TransactionOK(q)'
  <2>1. CASE q = p
    BY <1>1, <2>1 DEF TransactionOK
  <2>2. CASE q # p
    <3>1. run'[q] = run[q] /\ txn'[q] = txn[q] /\ (q \in online' <=> q \in online)
      BY <1>2, <2>2
    <3>2. LocalOK(run[q]) /\ TransactionOK(q)
      BY DEF Sound
    <3> QED
      BY <3>1, <3>2 DEF TransactionOK
  <2> QED
    BY <2>1, <2>2
<1> QED
  BY <1>3, <1>4 DEF Sound

\* An exception out of a run whose session keeps its transaction.
LEMMA ThrowStep ==
  ASSUME Sound, NEW p \in Proc, run[p].pc \notin {"idle", "close"},
         NEW e \in {"failed", "uncertain"},
         run' = [run EXCEPT ![p] = Throw(run[p], e)],
         db' \in Database, txn' \in [Proc -> Database \cup {NoTxn}],
         advisory' \in Proc \cup {Null}, ddl' \in Proc \cup {Null},
         online' = online, faults' \in 0..MaxFaults,
         \A q \in Proc \ {p} : txn'[q] = txn[q],
         txn'[p] # NoTxn => p \in online
  PROVE  Sound'
<1> DEFINE m == Throw(run[p], e)
<1>1. m \in Run /\ LocalOK(m) /\ m.pc \in Away
  BY ThrowOK DEF Sound, TypeOK
<1>2. m.pc \notin InPhase /\ m.pc \in Critical \cup {"close"}
  BY <1>1 DEF Away, InPhase, Critical, ExecutorStep
<1>3. online' \subseteq Proc
  BY DEF Sound, TypeOK
<1> HIDE DEF m
<1> QED
  BY <1>1, <1>2, <1>3, StepOK DEF m

\* A call that returns, or whose answer is lost.
LEMMA AnswerStep ==
  ASSUME Sound, NEW p \in Proc, p \in online, run[p].pc \notin {"idle", "close"},
         NEW l \in Run, LocalOK(l), l.pc \in Critical \cup {"close"},
         l.active /\ l.pc \in InPhase => txn'[p] # NoTxn,
         Answer(p, l),
         db' \in Database, txn' \in [Proc -> Database \cup {NoTxn}],
         advisory' \in Proc \cup {Null}, ddl' \in Proc \cup {Null},
         online' = online,
         \A q \in Proc \ {p} : txn'[q] = txn[q]
  PROVE  Sound'
<1>1. CASE run' = [run EXCEPT ![p] = l] /\ UNCHANGED faults
  <2>1. faults' \in 0..MaxFaults /\ online' \subseteq Proc
    BY <1>1 DEF Sound, TypeOK
  <2> QED
    BY <1>1, <2>1, StepOK
<1>2. CASE /\ faults < MaxFaults
           /\ faults' = faults + 1
           /\ run' = [run EXCEPT ![p] = Throw(run[p], Unanswered(run[p]))]
  <2>1. faults' \in 0..MaxFaults
    BY <1>2, ExecutorAssumption DEF Sound, TypeOK
  <2>2. Unanswered(run[p]) \in {"failed", "uncertain"}
    BY DEF Unanswered
  <2> QED
    BY <1>2, <2>1, <2>2, ThrowStep
<1> QED
  BY <1>1, <1>2 DEF Answer

\* A step that touches nothing but the run.
LEMMA ProceedStep ==
  ASSUME Sound, NEW p \in Proc, p \in online,
         NEW l \in Run, LocalOK(l), l.pc \in Critical \cup {"close"},
         l.active /\ l.pc \in InPhase => txn[p] # NoTxn,
         Proceed(p, l)
  PROVE  Sound'
<1>1. /\ db' \in Database /\ txn' \in [Proc -> Database \cup {NoTxn}]
      /\ advisory' \in Proc \cup {Null} /\ ddl' \in Proc \cup {Null}
      /\ online' \subseteq Proc /\ faults' \in 0..MaxFaults
      /\ txn' = txn /\ online' = online
      /\ run' = [run EXCEPT ![p] = l]
  BY DEF Sound, TypeOK, Proceed
<1> QED
  BY <1>1, StepOK

\* The code throws.
LEMMA RejectStep ==
  ASSUME Sound, NEW p \in Proc, p \in online, run[p].pc \notin {"idle", "close"},
         NEW e \in {"failed", "uncertain"}, Reject(p, e)
  PROVE  Sound'
<1>1. /\ db' \in Database /\ txn' \in [Proc -> Database \cup {NoTxn}]
      /\ advisory' \in Proc \cup {Null} /\ ddl' \in Proc \cup {Null}
      /\ online' = online /\ faults' \in 0..MaxFaults
      /\ txn' = txn
      /\ run' = [run EXCEPT ![p] = Throw(run[p], e)]
  BY DEF Sound, TypeOK, Proceed, Reject
<1> QED
  BY <1>1, ThrowStep

\* A write whose answer may be lost.
LEMMA WriteAnswerStep ==
  ASSUME Sound, NEW p \in Proc, p \in online, run[p].pc \notin {"idle", "close"},
         NEW d \in Database, Write(p, d),
         NEW l \in Run, LocalOK(l), l.pc \in Critical \cup {"close"},
         l.active /\ l.pc \in InPhase => txn[p] # NoTxn,
         Answer(p, l), UNCHANGED <<advisory, ddl, online>>
  PROVE  Sound'
<1>1. /\ db' \in Database
      /\ txn' \in [Proc -> Database \cup {NoTxn}]
      /\ \A q \in Proc \ {p} : txn'[q] = txn[q]
      /\ txn'[p] = NoTxn <=> txn[p] = NoTxn
  BY WriteType DEF Sound
<1>2. advisory' \in Proc \cup {Null} /\ ddl' \in Proc \cup {Null} /\ online' = online
  BY DEF Sound, TypeOK
<1> QED
  BY <1>1, <1>2, AnswerStep

\* A write of the journal whose answer may be lost.
LEMMA JournalAnswerStep ==
  ASSUME Sound, NEW p \in Proc, p \in online, run[p].pc \notin {"idle", "close"},
         NEW j \in Journal, WriteJournal(p, j),
         NEW l \in Run, LocalOK(l), l.pc \in Critical \cup {"close"},
         l.active /\ l.pc \in InPhase => txn[p] # NoTxn,
         Answer(p, l), UNCHANGED <<advisory, ddl, online>>
  PROVE  Sound'
<1>1. [View(p) EXCEPT !.journal = j] \in Database
  BY ViewType DEF Database, Sound
<1> QED
  BY <1>1, WriteAnswerStep DEF WriteJournal

\* transitionAttempt.
LEMMA TransitionStep ==
  ASSUME Sound, NEW p \in Proc, p \in online, run[p].pc \notin {"idle", "close"},
         NEW state,
         NEW l \in Run, LocalOK(l), l.pc \in Critical \cup {"close"},
         l.active /\ l.pc \in InPhase => txn[p] # NoTxn,
         Transition(p, state, l)
  PROVE  Sound'
<1>1. CASE CanTransition(JournalOf(p), run[p].attempt, state)
  <2>1. TransitionAttempt(JournalOf(p), run[p].attempt, state) \in Journal
    BY <1>1, ViewType, TransitionAttemptType DEF Sound
  <2> QED
    BY <1>1, <2>1, JournalAnswerStep DEF Transition
<1>2. CASE ~CanTransition(JournalOf(p), run[p].attempt, state)
  BY <1>2, RejectStep DEF Transition
<1> QED
  BY <1>1, <1>2

\* A run that waits for its lease.
LEMMA EnteringOK ==
  ASSUME NEW m, m.pc = "lease", ~m.active, m.role = "apply" \/ m.attempt \in AttemptId
  PROVE  LocalOK(m)
BY DEF LocalOK, PositionOK, AttemptOK, FlagsOK, ExecutorStep, ReconcileStep, Critical

-----------------------------------------------------------------------------
(* The invariant holds initially and every action keeps it. *)

\* Init
LEMMA InitSound == Init => Sound
<1> SUFFICES ASSUME Init PROVE Sound
  OBVIOUS
<1>1. [journal |-> EmptyJournal, schema |-> {}, marks |-> {}, lease |-> Null] \in Database
  BY EmptyJournalType DEF Database
<1>2. TypeOK
  BY <1>1, IdleOK, ExecutorAssumption DEF Init, TypeOK
<1>3. \A p \in Proc : run[p] = Idle /\ txn[p] = NoTxn /\ p \notin online
  BY DEF Init
<1> QED
  BY <1>2, <1>3, IdleOK DEF Sound, TransactionOK

\* What is known of a run at one of its awaits.
LEMMA AtSound ==
  ASSUME Sound, NEW p \in Proc, NEW pc, At(p, pc)
  PROVE  /\ p \in online
         /\ run[p] \in Run
         /\ run[p].pc = pc
         /\ LocalOK(run[p])
         /\ run[p].active /\ pc \in InPhase => txn[p] # NoTxn
BY DEF Sound, TypeOK, At, TransactionOK

\* A run that starts opens a session that waits for the lease, at most.
LEMMA StartStep ==
  ASSUME Sound, NEW p \in Proc, run[p].pc = "idle", p \notin online \/ txn[p] = NoTxn,
         NEW m \in Run, run' = [run EXCEPT ![p] = m],
         \/ m.pc \in {"idle", "close"}
         \/ m.pc = "lease" /\ ~m.active /\ (m.role = "apply" \/ m.attempt \in AttemptId),
         online' \in {online, online \cup {p}},
         UNCHANGED <<db, txn, advisory, ddl, faults>>
  PROVE  Sound'
<1>1. LocalOK(m)
  BY EnteringOK, LeavingOK
<1>2. txn[p] = NoTxn
  BY DEF Sound, TransactionOK
<1>3. m.pc \notin InPhase
  BY DEF InPhase
<1>4. /\ db' \in Database /\ txn' \in [Proc -> Database \cup {NoTxn}]
      /\ advisory' \in Proc \cup {Null} /\ ddl' \in Proc \cup {Null}
      /\ online' \subseteq Proc /\ faults' \in 0..MaxFaults
      /\ \A q \in Proc \ {p} : txn'[q] = txn[q] /\ (q \in online' <=> q \in online)
      /\ txn'[p] = NoTxn
  BY <1>2 DEF Sound, TypeOK
<1> QED
  BY <1>1, <1>3, <1>4, StepOK

\* A run opens its session, or ends at once on a broken artifact chain.
LEMMA StartApplySound ==
  ASSUME Sound, NEW p \in Proc, StartApply(p)
  PROVE  Sound'
<1>1. PICK repo \in Repositories :
        LET opened == [Idle EXCEPT !.role = "apply", !.repo = repo]
        IN  /\ run[p].pc = "idle" /\ p \notin online
            /\ IF VerifyArtifactChain(repo)
                 THEN /\ online' = online \cup {p}
                      /\ run' = [run EXCEPT ![p] =
                           IF CapabilityPreflight(repo)
                             THEN [opened EXCEPT !.pc = "lease"]
                             ELSE [opened EXCEPT !.pc = "close", !.error = "failed"]]
                 ELSE /\ run' = [run EXCEPT ![p] = [Idle EXCEPT !.result = "failed"]]
                      /\ UNCHANGED online
            /\ UNCHANGED <<db, txn, advisory, ddl, faults>>
  BY DEF StartApply
<1> DEFINE opened == [Idle EXCEPT !.role = "apply", !.repo = repo]
<1>2. opened \in Run /\ ~opened.active /\ opened.role = "apply"
  <2>1. Idle \in Run /\ ~Idle.active /\ repo \in Seq(Artifact)
    BY IdleOK, ExecutorAssumption DEF Idle
  <2> QED
    BY <2>1 DEF Run
<1> HIDE DEF opened
<1>3. CASE VerifyArtifactChain(repo) /\ CapabilityPreflight(repo)
  <2> DEFINE m == [opened EXCEPT !.pc = "lease"]
  <2>1. m \in Run /\ m.pc = "lease" /\ ~m.active /\ m.role = "apply"
    BY <1>2 DEF Run, Step
  <2>2. run' = [run EXCEPT ![p] = m]
    BY <1>1, <1>3 DEF opened
  <2> HIDE DEF m
  <2> QED
    BY <1>1, <1>3, <2>1, <2>2, StartStep
<1>4. CASE VerifyArtifactChain(repo) /\ ~CapabilityPreflight(repo)
  <2> DEFINE m == [opened EXCEPT !.pc = "close", !.error = "failed"]
  <2>1. m \in Run /\ m.pc = "close"
    BY <1>2 DEF Run, Step
  <2>2. run' = [run EXCEPT ![p] = m]
    BY <1>1, <1>4 DEF opened
  <2> HIDE DEF m
  <2> QED
    BY <1>1, <1>4, <2>1, <2>2, StartStep
<1>5. CASE ~VerifyArtifactChain(repo)
  <2> DEFINE m == [Idle EXCEPT !.result = "failed"]
  <2>1. m \in Run /\ m.pc = "idle"
    BY IdleOK DEF Run
  <2>2. run' = [run EXCEPT ![p] = m]
    BY <1>1, <1>5
  <2> HIDE DEF m
  <2> QED
    BY <1>1, <1>5, <2>1, <2>2, StartStep
<1> QED
  BY <1>3, <1>4, <1>5

\* A reconciliation opens its session, its attempt and outcome given.
LEMMA StartReconcileSound ==
  ASSUME Sound, NEW p \in Proc, StartReconcile(p)
  PROVE  Sound'
<1>1. PICK repo \in Repositories, k \in AttemptId, outcome \in Terminal :
        /\ run[p].pc = "idle" /\ p \notin online
        /\ online' = online \cup {p}
        /\ run' = [run EXCEPT ![p] =
             [Idle EXCEPT !.pc = "lease", !.role = "reconcile", !.repo = repo,
                          !.attempt = k, !.outcome = outcome]]
        /\ UNCHANGED <<db, txn, advisory, ddl, faults>>
  BY DEF StartReconcile
<1> DEFINE m == [Idle EXCEPT !.pc = "lease", !.role = "reconcile", !.repo = repo,
                             !.attempt = k, !.outcome = outcome]
<1>2. Idle \in Run /\ ~Idle.active /\ repo \in Seq(Artifact)
  BY IdleOK, ExecutorAssumption DEF Idle
<1>3. m \in Run /\ m.pc = "lease" /\ ~m.active /\ m.attempt \in AttemptId
  BY <1>2 DEF Run, Step
<1> HIDE DEF m
<1> QED
  BY <1>1, <1>3, StartStep DEF m

\* The lease is taken; the run may go under it or learn nothing of it.
LEMMA AcquireLeaseSound ==
  ASSUME Sound, NEW p \in Proc, AcquireLease(p)
  PROVE  Sound'
<1> DEFINE l == [run[p] EXCEPT
             !.leased = TRUE,
             !.pc = IF run[p].role = "apply" THEN "read" ELSE "verify"]
<1>1. /\ At(p, "lease") /\ Answer(p, l) /\ UNCHANGED <<txn, ddl, online>>
      /\ \/ advisory' = p /\ UNCHANGED db
         \/ db' = [db EXCEPT !.lease = p] /\ UNCHANGED advisory
  BY DEF AcquireLease
<1>2. /\ p \in online /\ run[p] \in Run /\ run[p].pc = "lease"
      /\ LocalOK(run[p])
  BY <1>1, AtSound
<1>3. /\ l \in Run /\ l.leased
      /\ l.active = run[p].active /\ l.attempt = run[p].attempt
      /\ l.pc = "read" \/ (l.pc = "verify" /\ run[p].role # "apply")
  BY <1>2 DEF Run, Step, ExecutorStep, ReconcileStep
<1> HIDE DEF l
<1>4. LocalOK(l)
  BY <1>2, <1>3 DEF LocalOK, PositionOK, AttemptOK, FlagsOK, ReconcileStep, ExecutorStep
<1>5. l.pc \notin InPhase /\ l.pc \in Critical
  BY <1>3 DEF InPhase, Critical, ExecutorStep, ReconcileStep
<1>6. /\ db' \in Database /\ txn' \in [Proc -> Database \cup {NoTxn}] /\ txn' = txn
      /\ advisory' \in Proc \cup {Null} /\ ddl' \in Proc \cup {Null} /\ online' = online
  <2>1. [db EXCEPT !.lease = p] \in Database
    BY DEF Sound, TypeOK, Database
  <2> QED
    BY <1>1, <2>1 DEF Sound, TypeOK
<1> QED
  BY <1>1, <1>2, <1>3, <1>4, <1>5, <1>6, AnswerStep

\* The journal read leaves a run at the first pending position or on its way out.
LEMMA ReadJournalSound ==
  ASSUME Sound, NEW p \in Proc, ReadJournal(p)
  PROVE  Sound'
<1> DEFINE j == JournalOf(p)
           l == [run[p] EXCEPT !.pc = "select", !.n = Len(j.applied) + 1, !.head = j.head]
<1>1. At(p, "read") /\ (Proceed(p, l) \/ Reject(p, "failed"))
  BY DEF ReadJournal
<1>2. p \in online /\ run[p] \in Run /\ run[p].pc = "read" /\ LocalOK(run[p])
  BY <1>1, AtSound
<1>3. Len(j.applied) + 1 \in Nat /\ Len(j.applied) + 1 >= 1 /\ j.head \in Digest
  BY ViewType DEF Sound, Journal
<1>4. l \in Run /\ l.pc = "select" /\ l.n >= 1
      /\ l.leased = run[p].leased /\ l.active = run[p].active
  <2> DEFINE n == Len(j.applied) + 1
             head == j.head
  <2>1. n \in Nat /\ n >= 1 /\ head \in Digest
    BY <1>3
  <2>2. l = [run[p] EXCEPT !.pc = "select", !.n = n, !.head = head]
    OBVIOUS
  <2> HIDE DEF n, head, l, j
  <2> QED
    BY <1>2, <2>1, <2>2 DEF Run, Step, ExecutorStep
<1> HIDE DEF l
<1>5. LocalOK(l)
  BY <1>2, <1>4 DEF LocalOK, PositionOK, AttemptOK, FlagsOK, Critical, ExecutorStep,
                    ReconcileStep
<1>6. l.pc \in Critical /\ l.pc \notin InPhase
  BY <1>4 DEF Critical, ExecutorStep, InPhase
<1> QED
  BY <1>1, <1>2, <1>4, <1>5, <1>6, ProceedStep, RejectStep

\* A run goes on to create an attempt only at a position of its repository.
LEMMA SelectArtifactSound ==
  ASSUME Sound, NEW p \in Proc, SelectArtifact(p)
  PROVE  Sound'
<1>1. At(p, "select")
  BY DEF SelectArtifact
<1>2. p \in online /\ run[p] \in Run /\ run[p].pc = "select" /\ LocalOK(run[p])
  BY <1>1, AtSound
<1>3. run[p].leased /\ ~run[p].active /\ run[p].n >= 1 /\ run[p].n \in Nat
      /\ Len(run[p].repo) \in Nat
  BY <1>2 DEF LocalOK, PositionOK, FlagsOK, Critical, ExecutorStep, Run
<1>4. CASE run[p].n > Len(run[p].repo)
  <2> DEFINE l == [run[p] EXCEPT !.pc = "release"]
  <2>1. l \in Run /\ l.pc = "release" /\ l.leased
    BY <1>2, <1>3 DEF Run, Step
  <2>2. Proceed(p, l)
    BY <1>4 DEF SelectArtifact
  <2> HIDE DEF l
  <2>3. LocalOK(l) /\ l.pc \in Critical /\ l.pc \notin InPhase
    BY <2>1, LeavingOK DEF Critical, InPhase
  <2> QED
    BY <1>2, <2>1, <2>2, <2>3, ProceedStep
<1>5. CASE ~(run[p].n > Len(run[p].repo)) /\ View(p).schema = Before(run[p].repo, run[p].n)
  <2> DEFINE l == [run[p] EXCEPT !.pc = "create"]
  <2>1. /\ l \in Run /\ l.pc = "create" /\ l.leased /\ ~l.active
        /\ l.n \in 1..Len(l.repo)
    BY <1>2, <1>3, <1>5 DEF Run, Step, ExecutorStep
  <2>2. Proceed(p, l)
    BY <1>5 DEF SelectArtifact
  <2> HIDE DEF l
  <2>3. LocalOK(l) /\ l.pc \in Critical /\ l.pc \notin InPhase
    BY <2>1 DEF LocalOK, PositionOK, AttemptOK, FlagsOK, Critical, InPhase, ExecutorStep,
                ReconcileStep
  <2> QED
    BY <1>2, <2>1, <2>2, <2>3, ProceedStep
<1>6. CASE ~(run[p].n > Len(run[p].repo)) /\ View(p).schema # Before(run[p].repo, run[p].n)
  BY <1>2, <1>6, RejectStep DEF SelectArtifact
<1> QED
  BY <1>4, <1>5, <1>6

\* Releasing the lease writes at most the lease row.
LEMMA ReleaseLeaseSound ==
  ASSUME Sound, NEW p \in Proc, ReleaseLease(p)
  PROVE  Sound'
<1> DEFINE l == [run[p] EXCEPT !.leased = FALSE, !.pc = "close"]
           d == [View(p) EXCEPT !.lease = IF @ = p THEN Null ELSE @]
<1>1. At(p, "release") /\ Answer(p, l) /\ UNCHANGED <<ddl, online>>
  BY DEF ReleaseLease
<1>2. p \in online /\ run[p] \in Run /\ run[p].pc = "release"
  BY <1>1, AtSound
<1>3. l \in Run /\ l.pc = "close"
  BY <1>2 DEF Run, Step
<1>4. d \in Database
  BY ViewType DEF Sound, Database
<1> HIDE DEF l, d
<1>5. LocalOK(l) /\ l.pc \notin InPhase
  BY <1>3, LeavingOK DEF InPhase
<1>6. CASE LeaseKind = "advisory"
  <2>1. advisory' \in {advisory, Null} /\ UNCHANGED <<db, txn>>
    BY <1>6 DEF ReleaseLease
  <2>2. /\ db' \in Database /\ txn' \in [Proc -> Database \cup {NoTxn}] /\ txn' = txn
        /\ advisory' \in Proc \cup {Null} /\ ddl' \in Proc \cup {Null} /\ online' = online
    BY <1>1, <2>1 DEF Sound, TypeOK
  <2> QED
    BY <1>1, <1>2, <1>3, <1>5, <2>2, AnswerStep
<1>7. CASE LeaseKind # "advisory"
  <2>1. Write(p, d) /\ UNCHANGED advisory
    BY <1>7 DEF ReleaseLease, d
  <2> QED
    BY <1>1, <1>2, <1>3, <1>4, <1>5, <2>1, WriteAnswerStep
<1> QED
  BY <1>6, <1>7

\* What the end of a connection, or close, takes from a session.
EndingStep(p) ==
  /\ txn' = [txn EXCEPT ![p] = NoTxn]
  /\ advisory' \in {advisory, Null} /\ (advisory' = advisory \/ advisory = p)
  /\ ddl' \in {ddl, Null}
  /\ online' \in {online, online \ {p}}

LEMMA EndingSteps ==
  ASSUME NEW p \in Proc,
         EndSession(p) \/ CloseLeaves(p, LeaseAfterClose(p), LockAfterClose(p))
  PROVE  EndingStep(p)
BY DEF EndSession, CloseLeaves, LeaseAfterClose, LockAfterClose, EndingStep

\* A session that ends holds no transaction.
LEMMA EndSessionStep ==
  ASSUME Sound, NEW p \in Proc, EndingStep(p),
         NEW m \in Run, m.pc = "idle", run' = [run EXCEPT ![p] = m],
         db' \in Database, faults' \in 0..MaxFaults
  PROVE  Sound'
<1>1. /\ txn' \in [Proc -> Database \cup {NoTxn}]
      /\ advisory' \in Proc \cup {Null} /\ ddl' \in Proc \cup {Null}
      /\ online' \subseteq Proc
      /\ \A q \in Proc \ {p} : txn'[q] = txn[q] /\ (q \in online' <=> q \in online)
      /\ txn'[p] = NoTxn
  BY DEF Sound, TypeOK, EndingStep
<1>2. LocalOK(m) /\ m.pc \notin InPhase
  BY LeavingOK DEF InPhase
<1> QED
  BY <1>1, <1>2, StepOK

\* A closed session has no transaction and its run is idle.
LEMMA CloseSessionSound ==
  ASSUME Sound, NEW p \in Proc, CloseSession(p)
  PROVE  Sound'
<1> DEFINE m == [Idle EXCEPT
             !.result = IF run[p].error = "none" THEN "success" ELSE "failed"]
<1>1. m \in Run /\ m.pc = "idle"
  BY IdleOK DEF Run
<1>2. run' = [run EXCEPT ![p] = m] /\ EndingStep(p) /\ UNCHANGED faults
  BY EndingSteps DEF CloseSession, Closed
<1>3. db' \in Database
  BY DEF CloseSession, Sound, TypeOK, Database
<1>4. faults' \in 0..MaxFaults
  BY <1>2 DEF Sound, TypeOK
<1> HIDE DEF m
<1> QED
  BY <1>1, <1>2, <1>3, <1>4, EndSessionStep

\* A crash leaves no transaction and an idle run.
LEMMA CrashSound ==
  ASSUME Sound, NEW p \in Proc, Crash(p)
  PROVE  Sound'
<1> DEFINE m == [Idle EXCEPT !.result = "crashed"]
<1>1. m \in Run /\ m.pc = "idle"
  BY IdleOK DEF Run
<1>2. run' = [run EXCEPT ![p] = m] /\ EndingStep(p)
  BY EndingSteps DEF Crash
<1>3. db' \in Database /\ faults' \in 0..MaxFaults
  BY ExecutorAssumption DEF Crash, Sound, TypeOK
<1> HIDE DEF m
<1> QED
  BY <1>1, <1>2, <1>3, EndSessionStep

\* The insert of an attempt gives the run its identity.
LEMMA CreateAttemptRowSound ==
  ASSUME Sound, NEW p \in Proc, CreateAttemptRow(p)
  PROVE  Sound'
<1>1. At(p, "create")
  BY DEF CreateAttemptRow
<1>2. p \in online /\ run[p] \in Run /\ run[p].pc = "create" /\ LocalOK(run[p])
  BY <1>1, AtSound
<1>3. run[p].leased /\ ~run[p].active /\ run[p].n \in 1..Len(run[p].repo)
      /\ run[p].head \in Digest
  BY <1>2 DEF LocalOK, PositionOK, FlagsOK, Critical, ExecutorStep, Run
<1>4. PICK k \in AttemptId :
        IF CanCreate(JournalOf(p), k)
          THEN /\ WriteJournal(p, CreateAttempt(
                      JournalOf(p), k, ArtifactOf(run[p]), run[p].head))
               /\ Answer(p, [run[p] EXCEPT !.pc = "start", !.attempt = k])
               /\ UNCHANGED <<advisory, ddl, online>>
          ELSE Reject(p, "failed")
  BY DEF CreateAttemptRow
<1>5. CASE CanCreate(JournalOf(p), k)
  <2> DEFINE l == [run[p] EXCEPT !.pc = "start", !.attempt = k]
             j == CreateAttempt(JournalOf(p), k, ArtifactOf(run[p]), run[p].head)
  <2>1. /\ l \in Run /\ l.pc = "start" /\ l.leased /\ ~l.active
        /\ l.n \in 1..Len(l.repo) /\ l.attempt \in AttemptId
    BY <1>2, <1>3 DEF Run, Step, ExecutorStep
  <2>2. j \in Journal
    BY <1>2, <1>3, ViewType, CreateAttemptType, PhasesType DEF Sound, Digest
  <2>3. WriteJournal(p, j) /\ Answer(p, l) /\ UNCHANGED <<advisory, ddl, online>>
    BY <1>4, <1>5
  <2> HIDE DEF l, j
  <2>4. LocalOK(l) /\ l.pc \in Critical /\ l.pc \notin InPhase
    BY <2>1 DEF LocalOK, PositionOK, AttemptOK, FlagsOK, Critical, InPhase, ExecutorStep,
                ReconcileStep
  <2> QED
    BY <1>2, <2>1, <2>2, <2>3, <2>4, JournalAnswerStep
<1>6. CASE ~CanCreate(JournalOf(p), k)
  BY <1>2, <1>4, <1>6, RejectStep
<1> QED
  BY <1>5, <1>6

\* The transition to running enters the first phase.
LEMMA MarkRunningSound ==
  ASSUME Sound, NEW p \in Proc, MarkRunning(p)
  PROVE  Sound'
<1> DEFINE m == [run[p] EXCEPT !.ph = 1, !.st = 1]
           l == EnterPhase(m)
<1>1. At(p, "start") /\ Transition(p, "running", l)
  BY DEF MarkRunning
<1>2. p \in online /\ run[p] \in Run /\ run[p].pc = "start" /\ LocalOK(run[p])
  BY <1>1, AtSound
<1>3. InArtifact(run[p]) /\ ~run[p].active
  BY <1>2, LocalInArtifact DEF LocalOK, FlagsOK, ExecutorStep
<1>4. InArtifact(m) /\ ~m.active /\ m.ph >= 1 /\ m.st >= 1
  <2>1. m \in Run
    BY <1>2 DEF Run
  <2> QED
    BY <1>2, <1>3, <2>1 DEF InArtifact, Run
<1> HIDE DEF m
<1>5. l \in Run /\ LocalOK(l) /\ ~l.active /\ l.pc \in ExecutorStep
  BY <1>4, EnterPhaseOK
<1> HIDE DEF l
<1> QED
  BY <1>1, <1>2, <1>5, TransitionStep DEF Critical

\* The DDL lock is taken outside every transaction.
LEMMA AcquireDdlLockSound ==
  ASSUME Sound, NEW p \in Proc, AcquireDdlLock(p)
  PROVE  Sound'
<1> DEFINE l == [run[p] EXCEPT
             !.locked = TRUE,
             !.pc = IF UseTransaction(PhaseOf(run[p])) THEN "begin" ELSE "check"]
<1>1. /\ At(p, "lock") /\ Answer(p, l) /\ ddl' \in {ddl, p}
      /\ UNCHANGED <<db, txn, advisory, online>>
  BY DEF AcquireDdlLock
<1>2. p \in online /\ run[p] \in Run /\ run[p].pc = "lock" /\ LocalOK(run[p])
  BY <1>1, AtSound
<1>3. /\ InArtifact(run[p]) /\ ~run[p].active
      /\ run[p].ph \in 1..Len(Phases(run[p])) /\ run[p].st >= 1
  BY <1>2, LocalInArtifact DEF LocalOK, FlagsOK, PositionOK, ExecutorStep
<1>4. /\ l \in Run /\ l.pc \in {"begin", "check"}
      /\ l.n = run[p].n /\ l.repo = run[p].repo /\ l.attempt = run[p].attempt
      /\ l.leased = run[p].leased /\ l.active = run[p].active
      /\ l.ph = run[p].ph /\ l.st = run[p].st
  BY <1>2 DEF Run, Step, ExecutorStep
<1> HIDE DEF l
<1>5. Phases(l) = Phases(run[p])
  BY <1>4 DEF Phases, ArtifactOf
<1>6. LocalOK(l) /\ l.pc \in Critical
  BY <1>3, <1>4, <1>5 DEF LocalOK, PositionOK, AttemptOK, FlagsOK, Critical, ExecutorStep,
                          ReconcileStep, InArtifact
<1>7. /\ db' \in Database /\ txn' \in [Proc -> Database \cup {NoTxn}] /\ txn' = txn
      /\ advisory' \in Proc \cup {Null} /\ ddl' \in Proc \cup {Null} /\ online' = online
  BY <1>1 DEF Sound, TypeOK
<1> QED
  BY <1>1, <1>2, <1>3, <1>4, <1>6, <1>7, AnswerStep

\* A transaction starts as a copy of the database and marks the run active.
LEMMA BeginTransactionSound ==
  ASSUME Sound, NEW p \in Proc, BeginTransaction(p)
  PROVE  Sound'
<1> DEFINE l == [run[p] EXCEPT !.active = TRUE, !.pc = "check"]
<1>1. /\ At(p, "begin") /\ txn' = [txn EXCEPT ![p] = db]
      /\ UNCHANGED <<db, advisory, ddl, online, faults>>
  BY DEF BeginTransaction
<1>2. p \in online /\ run[p] \in Run /\ run[p].pc = "begin" /\ LocalOK(run[p])
  BY <1>1, AtSound
<1>3. run' = [run EXCEPT ![p] = l]
  BY DEF BeginTransaction
<1>4. /\ InArtifact(run[p])
      /\ run[p].ph \in 1..Len(Phases(run[p])) /\ run[p].st >= 1
  BY <1>2, LocalInArtifact DEF LocalOK, FlagsOK, PositionOK, ExecutorStep
<1>5. /\ l \in Run /\ l.pc = "check"
      /\ l.n = run[p].n /\ l.repo = run[p].repo /\ l.attempt = run[p].attempt
      /\ l.leased = run[p].leased /\ l.ph = run[p].ph /\ l.st = run[p].st
  BY <1>2 DEF Run, Step, ExecutorStep
<1> HIDE DEF l
<1>6. Phases(l) = Phases(run[p])
  BY <1>5 DEF Phases, ArtifactOf
<1>7. LocalOK(l) /\ l.pc \in Critical
  BY <1>4, <1>5, <1>6 DEF LocalOK, PositionOK, AttemptOK, FlagsOK, Critical, ExecutorStep,
                          ReconcileStep, InArtifact
<1>8. /\ db' \in Database /\ txn' \in [Proc -> Database \cup {NoTxn}]
      /\ txn'[p] # NoTxn /\ \A q \in Proc \ {p} : txn'[q] = txn[q]
      /\ advisory' \in Proc \cup {Null} /\ ddl' \in Proc \cup {Null}
      /\ online' = online /\ online' \subseteq Proc /\ faults' \in 0..MaxFaults
  BY <1>1, NoTxnAssumption DEF Sound, TypeOK
<1> QED
  BY <1>2, <1>3, <1>5, <1>7, <1>8, StepOK

\* Conditions that were checked lead to the first statement of the phase.
LEMMA CheckPreconditionsSound ==
  ASSUME Sound, NEW p \in Proc, CheckPreconditions(p)
  PROVE  Sound'
<1> DEFINE l == AfterStatements(run[p])
<1>1. At(p, "check") /\ Proceed(p, l)
  BY DEF CheckPreconditions
<1>2. /\ p \in online /\ run[p] \in Run /\ run[p].pc = "check" /\ LocalOK(run[p])
      /\ run[p].active => txn[p] # NoTxn
  BY <1>1, AtSound DEF InPhase
<1>3. /\ InArtifact(run[p])
      /\ run[p].ph \in 1..Len(Phases(run[p])) /\ run[p].st >= 1
  BY <1>2, LocalInArtifact DEF LocalOK, PositionOK, ExecutorStep
<1>4. /\ l \in Run /\ LocalOK(l) /\ l.active = run[p].active
      /\ l.pc \in {"postcheck", "execute"}
  BY <1>3, AfterStatementsOK
<1> HIDE DEF l
<1> QED
  BY <1>1, <1>2, <1>4, ProceedStep DEF Critical, ExecutorStep

\* The statement a run is at is one of its program.
LEMMA EffectOfType ==
  ASSUME NEW l \in Run, LocalOK(l), l.pc \in {"execute", "mark"},
         l.pc = "execute" => l.st <= PhaseOf(l).statements
  PROVE  EffectOf(l) \in UNION {Effects(a) : a \in Artifact}
<1> DEFINE a == ArtifactOf(l)
<1>1. InArtifact(l)
  BY LocalInArtifact DEF ExecutorStep
<1>2. /\ l.ph \in 1..Len(Program[a]) /\ l.st >= 1
      /\ l.st <= Program[a][l.ph].statements
  BY DEF LocalOK, PositionOK, PhaseOf, Phases
<1>3. a \in Artifact /\ Program[a][l.ph].statements \in Nat
  BY <1>1, <1>2, PhasesType DEF InArtifact, Phases
<1>4. l.st \in 1..Program[a][l.ph].statements
  BY <1>2, <1>3 DEF Run
<1> HIDE DEF a
<1>5. <<a, l.ph, l.st>> \in Effects(a)
  BY <1>2, <1>4 DEF Effects
<1> QED
  BY <1>3, <1>5 DEF EffectOf, a

\* A statement writes an effect of its own program.
LEMMA ExecuteStatementSound ==
  ASSUME Sound, NEW p \in Proc, ExecuteStatement(p)
  PROVE  Sound'
<1> DEFINE l == [run[p] EXCEPT !.effect = TRUE, !.pc = "mark"]
           d == [View(p) EXCEPT !.schema = @ \cup {EffectOf(run[p])}]
<1>1. /\ At(p, "execute") /\ Write(p, d) /\ Answer(p, l)
      /\ UNCHANGED <<advisory, ddl, online>>
  BY DEF ExecuteStatement
<1>2. /\ p \in online /\ run[p] \in Run /\ run[p].pc = "execute" /\ LocalOK(run[p])
      /\ run[p].active => txn[p] # NoTxn
  BY <1>1, AtSound DEF InPhase
<1>3. d \in Database
  BY <1>2, ViewType, EffectOfType DEF Sound, Database, ExecuteStatement
<1>4. /\ l \in Run /\ l.pc = "mark"
      /\ l.n = run[p].n /\ l.repo = run[p].repo /\ l.attempt = run[p].attempt
      /\ l.leased = run[p].leased /\ l.active = run[p].active
      /\ l.ph = run[p].ph /\ l.st = run[p].st
  BY <1>2 DEF Run, Step, ExecutorStep
<1> HIDE DEF l, d
<1>5. Phases(l) = Phases(run[p]) /\ PhaseOf(l) = PhaseOf(run[p])
  BY <1>4 DEF Phases, ArtifactOf, PhaseOf
<1>6. LocalOK(l) /\ l.pc \in Critical
  <2>1. run[p].st <= PhaseOf(run[p]).statements
    BY DEF ExecuteStatement
  <2> QED
    BY <1>2, <1>4, <1>5, <2>1
       DEF LocalOK, PositionOK, AttemptOK, FlagsOK, Critical, ExecutorStep, ReconcileStep
<1> QED
  BY <1>1, <1>2, <1>3, <1>4, <1>6, WriteAnswerStep

\* A checkpoint names the attempt and the statement that ran.
LEMMA CheckpointStatementSound ==
  ASSUME Sound, NEW p \in Proc, CheckpointStatement(p)
  PROVE  Sound'
<1> DEFINE m == [run[p] EXCEPT !.st = @ + 1]
           l == AfterStatements(m)
           d == [View(p) EXCEPT !.marks = @ \cup {<<run[p].attempt, EffectOf(run[p])>>}]
<1>1. /\ At(p, "mark") /\ Write(p, d) /\ Answer(p, l)
      /\ UNCHANGED <<advisory, ddl, online>>
  BY DEF CheckpointStatement
<1>2. /\ p \in online /\ run[p] \in Run /\ run[p].pc = "mark" /\ LocalOK(run[p])
      /\ run[p].active => txn[p] # NoTxn
  BY <1>1, AtSound DEF InPhase
<1>3. /\ InArtifact(run[p])
      /\ run[p].ph \in 1..Len(Phases(run[p])) /\ run[p].st >= 1
  BY <1>2, LocalInArtifact DEF LocalOK, PositionOK, ExecutorStep
<1>4. d \in Database
  <2>1. <<run[p].attempt, EffectOf(run[p])>> \in
          AttemptId \X UNION {Effects(a) : a \in Artifact}
    BY <1>2, <1>3, EffectOfType DEF InArtifact
  <2> QED
    BY <2>1, ViewType DEF Sound, Database
<1>5. /\ m \in Run /\ m.n = run[p].n /\ m.repo = run[p].repo
      /\ m.attempt = run[p].attempt /\ m.leased = run[p].leased
      /\ m.active = run[p].active /\ m.ph = run[p].ph /\ m.st = run[p].st + 1
  <2>1. run[p].st + 1 \in Nat
    BY <1>2 DEF Run
  <2> QED
    BY <1>2, <2>1 DEF Run
<1> HIDE DEF m, d
<1>6. Phases(m) = Phases(run[p])
  BY <1>5 DEF Phases, ArtifactOf
<1>7. InArtifact(m) /\ m.ph \in 1..Len(Phases(m)) /\ m.st >= 1
  BY <1>2, <1>3, <1>5, <1>6 DEF InArtifact, Run
<1>8. /\ l \in Run /\ LocalOK(l) /\ l.active = run[p].active
      /\ l.pc \in {"postcheck", "execute"}
  BY <1>5, <1>7, AfterStatementsOK
<1> HIDE DEF l
<1> QED
  BY <1>1, <1>2, <1>4, <1>8, WriteAnswerStep DEF Critical, ExecutorStep

\* A run in an artifact moves on to the record, the outcome or the commit.
LEMMA AdvanceOK ==
  ASSUME NEW l, InArtifact(l), NEW pc \in {"record", "applied", "commit"},
         pc = "commit" => l.active
  PROVE  LET m == [l EXCEPT !.pc = pc]
         IN  m \in Run /\ LocalOK(m) /\ m.active = l.active /\ m.pc = pc
<1> DEFINE m == [l EXCEPT !.pc = pc]
<1>1. /\ m \in Run /\ m.pc = pc /\ m.active = l.active /\ m.n = l.n /\ m.repo = l.repo
      /\ m.attempt = l.attempt /\ m.leased = l.leased
  BY DEF InArtifact, Run, Step, ExecutorStep
<1> HIDE DEF m
<1>2. LocalOK(m)
  BY <1>1 DEF LocalOK, PositionOK, AttemptOK, FlagsOK, InArtifact
<1> QED
  BY <1>1, <1>2 DEF m

\* Past a phase no transaction is counted on.
LEMMA PastPhaseOpen ==
  ASSUME NEW l, PastPhase(l)
  PROVE  l.pc \in Critical \cup {"close"} /\ ~(l.active /\ l.pc \in InPhase)
BY DEF PastPhase, Away, Critical, ExecutorStep, InPhase

\* The postconditions lead to the record, the commit or the end of the phase.
LEMMA CheckPostconditionsSound ==
  ASSUME Sound, NEW p \in Proc, CheckPostconditions(p)
  PROVE  Sound'
<1>1. At(p, "postcheck")
  BY DEF CheckPostconditions
<1>2. /\ p \in online /\ run[p] \in Run /\ run[p].pc = "postcheck" /\ LocalOK(run[p])
      /\ run[p].active => txn[p] # NoTxn
  BY <1>1, AtSound DEF InPhase
<1>3. InArtifact(run[p])
  BY <1>2, LocalInArtifact DEF ExecutorStep
<1>4. CASE FinalPhase(run[p])
  <2> DEFINE m == [run[p] EXCEPT !.pc = "record"]
  <2>1. Proceed(p, m)
    BY <1>4 DEF CheckPostconditions
  <2>2. m \in Run /\ LocalOK(m) /\ m.active = run[p].active /\ m.pc = "record"
    BY <1>3, AdvanceOK
  <2> HIDE DEF m
  <2> QED
    BY <1>2, <2>1, <2>2, ProceedStep DEF Critical, ExecutorStep
<1>5. CASE ~FinalPhase(run[p]) /\ run[p].active
  <2> DEFINE m == [run[p] EXCEPT !.pc = "commit"]
  <2>1. Proceed(p, m)
    BY <1>5 DEF CheckPostconditions
  <2>2. m \in Run /\ LocalOK(m) /\ m.active = run[p].active /\ m.pc = "commit"
    BY <1>3, <1>5, AdvanceOK
  <2> HIDE DEF m
  <2> QED
    BY <1>2, <2>1, <2>2, ProceedStep DEF Critical, ExecutorStep
<1>6. CASE ~FinalPhase(run[p]) /\ ~run[p].active
  <2>1. Proceed(p, Finally(run[p]))
    BY <1>6 DEF CheckPostconditions
  <2>2. /\ Finally(run[p]) \in Run /\ LocalOK(Finally(run[p]))
        /\ PastPhase(Finally(run[p]))
    BY <1>3, <1>6, FinallyOK
  <2> QED
    BY <1>2, <2>1, <2>2, PastPhaseOpen, ProceedStep
<1> QED
  BY <1>4, <1>5, <1>6

\* The record is appended, or the head has moved.
LEMMA RecordAppliedSound ==
  ASSUME Sound, NEW p \in Proc, RecordApplied(p)
  PROVE  Sound'
<1>1. At(p, "record")
  BY DEF RecordApplied
<1>2. /\ p \in online /\ run[p] \in Run /\ run[p].pc = "record" /\ LocalOK(run[p])
      /\ run[p].active => txn[p] # NoTxn
  BY <1>1, AtSound DEF InPhase
<1>3. InArtifact(run[p])
  BY <1>2, LocalInArtifact DEF ExecutorStep
<1> DEFINE a == ArtifactOf(run[p])
           j == AppendAppliedAndAdvanceHead(JournalOf(p), a, run[p].attempt)
           m == [run[p] EXCEPT !.pc = "applied"]
<1>4. \/ WriteJournal(p, j) /\ Answer(p, m) /\ UNCHANGED <<advisory, ddl, online>>
      \/ Reject(p, "failed")
  BY DEF RecordApplied
<1>5. m \in Run /\ LocalOK(m) /\ m.active = run[p].active /\ m.pc = "applied"
  BY <1>3, AdvanceOK
<1>6. j \in Journal
  BY <1>3, ViewType, AppendType, PhasesType DEF Sound, InArtifact
<1> HIDE DEF m, j
<1> QED
  BY <1>2, <1>4, <1>5, <1>6, JournalAnswerStep, RejectStep DEF Critical, ExecutorStep

\* The attempt is applied; a transaction is still to be committed.
LEMMA MarkAppliedSound ==
  ASSUME Sound, NEW p \in Proc, MarkApplied(p)
  PROVE  Sound'
<1>1. At(p, "applied")
  BY DEF MarkApplied
<1>2. /\ p \in online /\ run[p] \in Run /\ run[p].pc = "applied" /\ LocalOK(run[p])
      /\ run[p].active => txn[p] # NoTxn
  BY <1>1, AtSound DEF InPhase
<1>3. InArtifact(run[p])
  BY <1>2, LocalInArtifact DEF ExecutorStep
<1>5. CASE run[p].active
  <2> DEFINE m == [run[p] EXCEPT !.pc = "commit"]
  <2>1. Transition(p, "applied", m)
    BY <1>5 DEF MarkApplied
  <2>2. m \in Run /\ LocalOK(m) /\ m.active = run[p].active /\ m.pc = "commit"
    BY <1>3, <1>5, AdvanceOK
  <2> HIDE DEF m
  <2> QED
    BY <1>2, <2>1, <2>2, TransitionStep DEF Critical, ExecutorStep
<1>6. CASE ~run[p].active
  <2>1. Transition(p, "applied", Finally(run[p]))
    BY <1>6 DEF MarkApplied
  <2>2. /\ Finally(run[p]) \in Run /\ LocalOK(Finally(run[p]))
        /\ PastPhase(Finally(run[p]))
    BY <1>3, <1>6, FinallyOK
  <2> QED
    BY <1>2, <2>1, <2>2, PastPhaseOpen, TransitionStep
<1> QED
  BY <1>5, <1>6

\* A commit publishes the transaction and leaves the session without one.
LEMMA CommitSound ==
  ASSUME Sound, NEW p \in Proc, Commit(p)
  PROVE  Sound'
<1> DEFINE m == [run[p] EXCEPT !.active = FALSE, !.committed = TRUE]
           l == Finally(m)
<1>1. /\ At(p, "commit") /\ db' = txn[p] /\ txn' = [txn EXCEPT ![p] = NoTxn]
      /\ Answer(p, l) /\ UNCHANGED <<advisory, ddl, online>>
  BY DEF Commit
<1>2. /\ p \in online /\ run[p] \in Run /\ run[p].pc = "commit" /\ LocalOK(run[p])
      /\ run[p].active => txn[p] # NoTxn
  BY <1>1, AtSound DEF InPhase
<1>3. InArtifact(run[p]) /\ run[p].active
  BY <1>2, LocalInArtifact DEF ExecutorStep, LocalOK, FlagsOK
<1>4. InArtifact(m) /\ ~m.active
  BY <1>3 DEF InArtifact, Run
<1> HIDE DEF m
<1>5. l \in Run /\ LocalOK(l) /\ PastPhase(l)
  BY <1>4, FinallyOK
<1>6. l.pc \in Critical \cup {"close"} /\ ~(l.active /\ l.pc \in InPhase)
  BY <1>5, PastPhaseOpen
<1> HIDE DEF l
<1>7. /\ db' \in Database /\ txn' \in [Proc -> Database \cup {NoTxn}]
      /\ \A q \in Proc \ {p} : txn'[q] = txn[q]
      /\ advisory' \in Proc \cup {Null} /\ ddl' \in Proc \cup {Null}
      /\ online' = online
  BY <1>1, <1>2, <1>3 DEF Sound, TypeOK
<1> QED
  BY <1>1, <1>2, <1>5, <1>6, <1>7, AnswerStep

\* A refused commit is thrown, with the transaction open or not.
LEMMA CommitRefusedSound ==
  ASSUME Sound, NEW p \in Proc, CommitRefused(p)
  PROVE  Sound'
<1>1. /\ At(p, "commit") /\ faults < MaxFaults /\ faults' = faults + 1
      /\ run' = [run EXCEPT ![p] = Throw(run[p], "uncertain")]
      /\ txn' \in {txn, [txn EXCEPT ![p] = NoTxn]}
      /\ UNCHANGED <<db, advisory, ddl, online>>
  BY DEF CommitRefused
<1>2. p \in online /\ run[p].pc = "commit"
  BY <1>1, AtSound
<1>3. /\ db' \in Database /\ txn' \in [Proc -> Database \cup {NoTxn}]
      /\ \A q \in Proc \ {p} : txn'[q] = txn[q]
      /\ advisory' \in Proc \cup {Null} /\ ddl' \in Proc \cup {Null}
      /\ faults' \in 0..MaxFaults
  BY <1>1, ExecutorAssumption DEF Sound, TypeOK
<1> QED
  BY <1>1, <1>2, <1>3, ThrowStep

\* The DDL lock is free again, and the run goes on or to the catch.
LEMMA ReleaseDdlLockSound ==
  ASSUME Sound, NEW p \in Proc, ReleaseDdlLock(p)
  PROVE  Sound'
<1> DEFINE m == [run[p] EXCEPT !.locked = FALSE]
           l == AfterFinally(m)
<1>1. /\ At(p, "unlock") /\ ddl' \in {ddl, Null} /\ Answer(p, l)
      /\ UNCHANGED <<db, txn, advisory, online>>
  BY DEF ReleaseDdlLock
<1>2. /\ p \in online /\ run[p] \in Run /\ run[p].pc = "unlock" /\ LocalOK(run[p])
  BY <1>1, AtSound
<1>3. InArtifact(run[p]) /\ (run[p].error = "none" => ~run[p].active)
  BY <1>2, LocalInArtifact DEF ExecutorStep, LocalOK, FlagsOK
<1>4. InArtifact(m) /\ (m.error = "none" => ~m.active)
  BY <1>3 DEF InArtifact, Run
<1> HIDE DEF m
<1>5. l \in Run /\ LocalOK(l) /\ PastPhase(l)
  BY <1>4, AfterFinallyOK
<1>6. l.pc \in Critical \cup {"close"} /\ ~(l.active /\ l.pc \in InPhase)
  BY <1>5, PastPhaseOpen
<1> HIDE DEF l
<1>7. /\ db' \in Database /\ txn' \in [Proc -> Database \cup {NoTxn}] /\ txn' = txn
      /\ advisory' \in Proc \cup {Null} /\ ddl' \in Proc \cup {Null}
      /\ online' = online
  BY <1>1 DEF Sound, TypeOK
<1> QED
  BY <1>1, <1>2, <1>5, <1>6, <1>7, AnswerStep

\* The transaction is gone.
LEMMA RollbackSound ==
  ASSUME Sound, NEW p \in Proc, Rollback(p)
  PROVE  Sound'
<1> DEFINE l == [run[p] EXCEPT !.active = FALSE, !.rolledBack = TRUE, !.pc = "conclude"]
<1>1. /\ At(p, "rollback") /\ txn' = [txn EXCEPT ![p] = NoTxn] /\ Answer(p, l)
      /\ UNCHANGED <<db, advisory, ddl, online>>
  BY DEF Rollback
<1>2. /\ p \in online /\ run[p] \in Run /\ run[p].pc = "rollback" /\ LocalOK(run[p])
  BY <1>1, AtSound
<1>3. InArtifact(run[p])
  BY <1>2, LocalInArtifact DEF ExecutorStep
<1>4. InArtifact(l) /\ l.pc = "conclude"
  BY <1>3 DEF InArtifact, Run, Step, ExecutorStep
<1> HIDE DEF l
<1>5. l \in Run /\ LocalOK(l) /\ l.pc \notin InPhase /\ l.pc \in Critical
  BY <1>4, FailingOK DEF InArtifact, InPhase, Critical, ExecutorStep
<1>6. /\ db' \in Database /\ txn' \in [Proc -> Database \cup {NoTxn}]
      /\ \A q \in Proc \ {p} : txn'[q] = txn[q]
      /\ advisory' \in Proc \cup {Null} /\ ddl' \in Proc \cup {Null}
      /\ online' = online
  BY <1>1 DEF Sound, TypeOK
<1> QED
  BY <1>1, <1>2, <1>5, <1>6, AnswerStep

\* A run that holds its lease may leave by releasing it.
LEMMA ToReleaseOK ==
  ASSUME NEW l \in Run, LocalOK(l), l.pc \in Critical
  PROVE  LET m == [l EXCEPT !.pc = "release"]
         IN  m \in Run /\ LocalOK(m) /\ m.pc \in Critical /\ m.pc \notin InPhase
<1> DEFINE m == [l EXCEPT !.pc = "release"]
<1>1. m \in Run /\ m.pc = "release" /\ m.leased
  BY DEF Run, Step, LocalOK, FlagsOK
<1> HIDE DEF m
<1> QED
  BY <1>1, LeavingOK DEF m, Critical, InPhase

\* The failed attempt gets its state.
LEMMA ConcludeAttemptSound ==
  ASSUME Sound, NEW p \in Proc, ConcludeAttempt(p)
  PROVE  Sound'
<1> DEFINE l == [run[p] EXCEPT !.pc = "release"]
<1>1. At(p, "conclude") /\ Transition(p, FailedState(run[p]), l)
  BY DEF ConcludeAttempt
<1>2. p \in online /\ run[p] \in Run /\ run[p].pc = "conclude" /\ LocalOK(run[p])
  BY <1>1, AtSound
<1>3. l \in Run /\ LocalOK(l) /\ l.pc \in Critical /\ l.pc \notin InPhase
  BY <1>2, ToReleaseOK DEF Critical, ExecutorStep
<1> HIDE DEF l
<1> QED
  BY <1>1, <1>2, <1>3, TransitionStep

\* A reconciliation goes from await to await with its attempt and its lease.
LEMMA ReconcilingOK ==
  ASSUME NEW l \in Run, LocalOK(l), l.pc \in ReconcileStep, NEW pc \in ReconcileStep
  PROVE  LET m == [l EXCEPT !.pc = pc]
         IN  m \in Run /\ LocalOK(m) /\ m.pc \in Critical /\ m.pc \notin InPhase
<1> DEFINE m == [l EXCEPT !.pc = pc]
<1>1. l.leased /\ l.attempt \in AttemptId
  BY DEF LocalOK, FlagsOK, AttemptOK, Critical
<1>2. /\ m \in Run /\ m.pc = pc /\ m.leased = l.leased /\ m.attempt = l.attempt
  BY DEF Run, Step
<1> HIDE DEF m
<1>3. LocalOK(m)
  BY <1>1, <1>2 DEF LocalOK, PositionOK, AttemptOK, FlagsOK, ReconcileStep, ExecutorStep
<1> QED
  BY <1>2, <1>3 DEF m, Critical, InPhase, ReconcileStep

\* The outcome is proven, or refused.
LEMMA VerifyOutcomeSound ==
  ASSUME Sound, NEW p \in Proc, VerifyOutcome(p)
  PROVE  Sound'
<1>1. /\ At(p, "verify")
      /\ \/ \E pc \in {"history", "require"} : Proceed(p, [run[p] EXCEPT !.pc = pc])
         \/ Reject(p, "failed")
  BY DEF VerifyOutcome
<1>2. p \in online /\ run[p] \in Run /\ run[p].pc = "verify" /\ LocalOK(run[p])
  BY <1>1, AtSound
<1>3. CASE \E pc \in {"history", "require"} : Proceed(p, [run[p] EXCEPT !.pc = pc])
  <2>1. PICK pc \in {"history", "require"} : Proceed(p, [run[p] EXCEPT !.pc = pc])
    BY <1>3
  <2> DEFINE l == [run[p] EXCEPT !.pc = pc]
  <2>2. l \in Run /\ LocalOK(l) /\ l.pc \in Critical /\ l.pc \notin InPhase
    BY <1>2, ReconcilingOK DEF ReconcileStep
  <2>3. Proceed(p, l)
    BY <2>1
  <2> HIDE DEF l
  <2> QED
    BY <1>2, <2>2, <2>3, ProceedStep
<1>4. CASE Reject(p, "failed")
  BY <1>2, <1>4, RejectStep
<1> QED
  BY <1>1, <1>3, <1>4

\* An attempt its run has left unresolved requires recovery first.
LEMMA RequireRecoverySound ==
  ASSUME Sound, NEW p \in Proc, RequireRecovery(p)
  PROVE  Sound'
<1> DEFINE l == [run[p] EXCEPT !.pc = "history"]
<1>1. At(p, "require") /\ Transition(p, "recovery_required", l)
  BY DEF RequireRecovery
<1>2. p \in online /\ run[p] \in Run /\ run[p].pc = "require" /\ LocalOK(run[p])
  BY <1>1, AtSound
<1>3. l \in Run /\ LocalOK(l) /\ l.pc \in Critical /\ l.pc \notin InPhase
  BY <1>2, ReconcilingOK DEF ReconcileStep
<1> HIDE DEF l
<1> QED
  BY <1>1, <1>2, <1>3, TransitionStep

\* The history an applied outcome lacks is appended.
LEMMA ReconcileHistorySound ==
  ASSUME Sound, NEW p \in Proc, ReconcileHistory(p)
  PROVE  Sound'
<1> DEFINE a == JournalOf(p).attempts[run[p].attempt].artifact
           l == [run[p] EXCEPT !.pc = "audit"]
           j == AppendAppliedAndAdvanceHead(JournalOf(p), a, run[p].attempt)
<1>1. /\ At(p, "history")
      /\ \/ /\ InRepository(run[p].repo, a)
            /\ WriteJournal(p, j) /\ Answer(p, l) /\ UNCHANGED <<advisory, ddl, online>>
         \/ Proceed(p, l)
         \/ Reject(p, "failed")
  BY DEF ReconcileHistory
<1>2. p \in online /\ run[p] \in Run /\ run[p].pc = "history" /\ LocalOK(run[p])
  BY <1>1, AtSound
<1>3. l \in Run /\ LocalOK(l) /\ l.pc \in Critical /\ l.pc \notin InPhase
  BY <1>2, ReconcilingOK DEF ReconcileStep
<1>4. InRepository(run[p].repo, a) => j \in Journal
  <2>1. InRepository(run[p].repo, a) => a \in Artifact
    BY <1>2 DEF InRepository, Run
  <2>2. run[p].attempt \in AttemptId
    BY <1>2 DEF LocalOK, AttemptOK, ReconcileStep
  <2> QED
    BY <2>1, <2>2, ViewType, AppendType DEF Sound
<1> HIDE DEF l, j
<1> QED
  BY <1>1, <1>2, <1>3, <1>4, JournalAnswerStep, ProceedStep, RejectStep

\* The outcome is audited once.
LEMMA RecordOutcomeSound ==
  ASSUME Sound, NEW p \in Proc, RecordOutcome(p)
  PROVE  Sound'
<1> DEFINE l == [run[p] EXCEPT !.pc = "resolve"]
           j == RecordReconciliation(JournalOf(p), run[p].attempt, run[p].outcome)
<1>1. /\ At(p, "audit")
      /\ \/ WriteJournal(p, j) /\ Answer(p, l) /\ UNCHANGED <<advisory, ddl, online>>
         \/ Proceed(p, l)
         \/ Reject(p, "failed")
  BY DEF RecordOutcome
<1>2. p \in online /\ run[p] \in Run /\ run[p].pc = "audit" /\ LocalOK(run[p])
  BY <1>1, AtSound
<1>3. l \in Run /\ LocalOK(l) /\ l.pc \in Critical /\ l.pc \notin InPhase
  BY <1>2, ReconcilingOK DEF ReconcileStep
<1>4. j \in Journal
  <2>1. run[p].outcome \in Terminal \cup {"none"}
    BY <1>2 DEF Run
  <2> QED
    BY <2>1, ViewType, RecordReconciliationType DEF Sound
<1> HIDE DEF l, j
<1> QED
  BY <1>1, <1>2, <1>3, <1>4, JournalAnswerStep, ProceedStep, RejectStep

\* The attempt gets the reconciled outcome.
LEMMA ResolveAttemptSound ==
  ASSUME Sound, NEW p \in Proc, ResolveAttempt(p)
  PROVE  Sound'
<1> DEFINE l == [run[p] EXCEPT !.pc = "release"]
<1>1. At(p, "resolve") /\ Transition(p, run[p].outcome, l)
  BY DEF ResolveAttempt
<1>2. p \in online /\ run[p] \in Run /\ run[p].pc = "resolve" /\ LocalOK(run[p])
  BY <1>1, AtSound
<1>3. l \in Run /\ LocalOK(l) /\ l.pc \in Critical /\ l.pc \notin InPhase
  BY <1>2, ToReleaseOK DEF Critical, ReconcileStep
<1> HIDE DEF l
<1> QED
  BY <1>1, <1>2, <1>3, TransitionStep

\* An exception while the session is closed ends the run, whatever is left of
\* the session.
LEMMA ThrowClosingStep ==
  ASSUME Sound, NEW p \in Proc, run[p] \in Run, run[p].pc = "close", NEW e,
         run' = [run EXCEPT ![p] = Throw(run[p], e)],
         db' \in Database, txn' \in [Proc -> Database \cup {NoTxn}],
         advisory' \in Proc \cup {Null}, ddl' \in Proc \cup {Null},
         online' \subseteq Proc, faults' \in 0..MaxFaults,
         online' = online, txn' = txn
  PROVE  Sound'
<1> DEFINE m == [Idle EXCEPT !.result = "unclosed"]
<1>1. m \in Run /\ m.pc = "idle"
  BY IdleOK DEF Run
<1>2. run' = [run EXCEPT ![p] = m]
  BY ThrowClosing
<1> HIDE DEF m
<1>3. LocalOK(m) /\ m.pc \notin InPhase
  BY <1>1, LeavingOK DEF InPhase
<1>4. txn[p] # NoTxn => p \in online
  BY DEF Sound, TransactionOK
<1> QED
  BY <1>1, <1>2, <1>3, <1>4, StepOK

\* A fault before the call has an effect.
LEMMA FailSound ==
  ASSUME Sound, NEW p \in Proc, Fail(p)
  PROVE  Sound'
<1>1. PICK e \in ErrorKinds(run[p]) : run' = [run EXCEPT ![p] = Throw(run[p], e)]
  BY DEF Fail
<1>2. e \in {"failed", "uncertain"}
  BY DEF ErrorKinds
<1>3. p \in online /\ run[p].pc # "idle" /\ run[p] \in Run
  BY DEF Fail, Sound, TypeOK
<1>4. /\ db' \in Database /\ txn' \in [Proc -> Database \cup {NoTxn}] /\ txn' = txn
      /\ advisory' \in Proc \cup {Null} /\ ddl' \in Proc \cup {Null}
      /\ online' = online /\ online' \subseteq Proc /\ faults' \in 0..MaxFaults
  BY ExecutorAssumption DEF Fail, Sound, TypeOK
<1>5. CASE run[p].pc = "close"
  BY <1>1, <1>3, <1>4, <1>5, ThrowClosingStep
<1>6. CASE run[p].pc # "close"
  BY <1>1, <1>2, <1>3, <1>4, <1>6, ThrowStep
<1> QED
  BY <1>5, <1>6

\* A session that is cut off has no transaction left; its run is unaware.
LEMMA LoseConnectionSound ==
  ASSUME Sound, NEW p \in Proc, LoseConnection(p)
  PROVE  Sound'
<1>1. /\ p \in online /\ faults < MaxFaults /\ faults' = faults + 1
      /\ txn' = [txn EXCEPT ![p] = NoTxn] /\ advisory' \in {advisory, Null}
      /\ ddl' \in {ddl, Null} /\ online' = online \ {p} /\ UNCHANGED <<db, run>>
  BY DEF LoseConnection, EndSession
<1>2. run' = [run EXCEPT ![p] = run[p]] /\ run[p] \in Run /\ LocalOK(run[p])
  BY <1>1 DEF Sound, TypeOK
<1>3. /\ db' \in Database /\ txn' \in [Proc -> Database \cup {NoTxn}]
      /\ txn'[p] = NoTxn /\ p \notin online'
      /\ \A q \in Proc \ {p} : txn'[q] = txn[q] /\ (q \in online' <=> q \in online)
      /\ advisory' \in Proc \cup {Null} /\ ddl' \in Proc \cup {Null}
      /\ online' \subseteq Proc /\ faults' \in 0..MaxFaults
  BY <1>1, ExecutorAssumption DEF Sound, TypeOK
<1> QED
  BY <1>2, <1>3, StepOK

\* A client that is ended after its run has no transaction left.
LEMMA EndClientSound ==
  ASSUME Sound, NEW p \in Proc, EndClient(p)
  PROVE  Sound'
<1>1. EndingStep(p) /\ run[p].pc = "idle" /\ UNCHANGED <<db, run, faults>>
  BY EndingSteps DEF EndClient
<1>2. run' = [run EXCEPT ![p] = run[p]] /\ run[p] \in Run
      /\ db' \in Database /\ faults' \in 0..MaxFaults
  BY <1>1 DEF Sound, TypeOK
<1> QED
  BY <1>1, <1>2, EndSessionStep

\* A run that notices it is cut off.
LEMMA CallDisconnectedSound ==
  ASSUME Sound, NEW p \in Proc, CallDisconnected(p)
  PROVE  Sound'
<1>1. /\ run[p].pc # "idle" /\ p \notin online
      /\ run' = [run EXCEPT ![p] = Throw(run[p], Unanswered(run[p]))]
      /\ UNCHANGED <<db, txn, advisory, ddl, online, faults>>
  BY DEF CallDisconnected
<1>2. txn[p] = NoTxn /\ run[p] \in Run
  BY <1>1 DEF Sound, TypeOK, TransactionOK
<1>3. /\ db' \in Database /\ txn' \in [Proc -> Database \cup {NoTxn}] /\ txn' = txn
      /\ advisory' \in Proc \cup {Null} /\ ddl' \in Proc \cup {Null}
      /\ online' = online /\ online' \subseteq Proc /\ faults' \in 0..MaxFaults
  BY <1>1 DEF Sound, TypeOK
<1>4. CASE run[p].pc = "close"
  BY <1>1, <1>2, <1>3, <1>4, ThrowClosingStep
<1>5. CASE run[p].pc # "close"
  <2>1. Unanswered(run[p]) \in {"failed", "uncertain"}
    BY DEF Unanswered
  <2> QED
    BY <1>1, <1>2, <1>3, <1>5, <2>1, ThrowStep
<1> QED
  BY <1>4, <1>5

\* Runs and sessions that stay as they are keep the invariant.
LEMMA SameRunsSound ==
  ASSUME Sound, db' \in Database, UNCHANGED <<txn, advisory, ddl, online, run, faults>>
  PROVE  Sound'
BY DEF Sound, TypeOK, TransactionOK

\* The operator completes or undoes an artifact.
LEMMA RepairSound ==
  ASSUME Sound, Repair
  PROVE  Sound'
<1>1. PICK k \in OpenAttempts(db.journal) :
        \E schema \in {db.schema \cup Effects(db.journal.attempts[k].artifact),
                       db.schema \ Effects(db.journal.attempts[k].artifact)} :
          db' = [db EXCEPT !.schema = schema]
  BY DEF Repair
<1>2. db \in Database
  BY DEF Sound, TypeOK
<1>3. db.journal.attempts[k].artifact \in Artifact
  BY <1>2, OpenAttemptArtifact DEF Database
<1>4. PICK schema \in SUBSET UNION {Effects(a) : a \in Artifact} :
        db' = [db EXCEPT !.schema = schema]
  <2> DEFINE effects == Effects(db.journal.attempts[k].artifact)
             all == UNION {Effects(a) : a \in Artifact}
  <2>1. effects \subseteq all
    BY <1>3
  <2>2. db.schema \subseteq all
    BY <1>2 DEF Database
  <2>3. \E schema \in {db.schema \cup effects, db.schema \ effects} :
          db' = [db EXCEPT !.schema = schema]
    BY <1>1
  <2> HIDE DEF effects, all
  <2>4. \E schema \in SUBSET all : db' = [db EXCEPT !.schema = schema]
    BY <2>1, <2>2, <2>3
  <2> QED
    BY <2>4 DEF all
<1>5. db' \in Database
  BY <1>2, <1>4 DEF Database
<1> QED
  BY <1>5, SameRunsSound DEF Repair

\* The operator deletes a lease row.
LEMMA ClearLeaseRowSound ==
  ASSUME Sound, ClearLeaseRow
  PROVE  Sound'
<1>1. db' \in Database
  BY DEF ClearLeaseRow, Sound, TypeOK, Database
<1> QED
  BY <1>1, SameRunsSound DEF ClearLeaseRow

\* Every step keeps the invariant.
LEMMA NextSound ==
  ASSUME Sound, [Next]_vars
  PROVE  Sound'
<1>1. ASSUME NEW p \in Proc, StartApply(p) \/ StartReconcile(p)
      PROVE  Sound'
  BY <1>1, StartApplySound, StartReconcileSound
<1>2. ASSUME NEW p \in Proc, Continue(p)
      PROVE  Sound'
  BY <1>2, AcquireLeaseSound, ReadJournalSound, SelectArtifactSound,
     CreateAttemptRowSound, MarkRunningSound, AcquireDdlLockSound,
     BeginTransactionSound, CheckPreconditionsSound, ExecuteStatementSound,
     CheckpointStatementSound, CheckPostconditionsSound, RecordAppliedSound,
     MarkAppliedSound, CommitSound, ReleaseDdlLockSound, RollbackSound,
     ConcludeAttemptSound, VerifyOutcomeSound, RequireRecoverySound,
     ReconcileHistorySound, RecordOutcomeSound, ResolveAttemptSound,
     ReleaseLeaseSound, CloseSessionSound, CallDisconnectedSound DEF Continue
<1>3. ASSUME NEW p \in Proc,
             \/ CommitRefused(p) \/ Fail(p) \/ LoseConnection(p) \/ Crash(p)
             \/ EndClient(p)
      PROVE  Sound'
  BY <1>3, CommitRefusedSound, FailSound, LoseConnectionSound, CrashSound, EndClientSound
<1>4. ASSUME Repair \/ ClearLeaseRow
      PROVE  Sound'
  BY <1>4, RepairSound, ClearLeaseRowSound
<1>5. CASE UNCHANGED vars
  BY <1>5, SameRunsSound DEF vars, Sound, TypeOK
<1> QED
  BY <1>1, <1>2, <1>3, <1>4, <1>5 DEF Next

\* Every reachable state is of its type, with the local variables of every run
\* consistent with the await it has reached and with its session.
THEOREM SoundAlways == Spec => []Sound
<1>1. Init => Sound
  BY InitSound
<1>2. Sound /\ [Next]_vars => Sound'
  BY NextSound
<1> QED
  BY <1>1, <1>2, PTL DEF Spec

\* TypeOK: every variable keeps its type in every run of every system.
THEOREM TypeCorrect == Spec => []TypeOK
<1>1. Sound => TypeOK
  BY DEF Sound
<1> QED
  BY <1>1, SoundAlways, PTL

-----------------------------------------------------------------------------
(* What a working step does. *)

\* An operation leaves history and head alone, or appends to both.
JournalMove(i, j) ==
  \/ j.head = i.head /\ j.applied = i.applied
  \/ \E a \in Artifact, k \in AttemptId, expected \in Digest :
       CanAppend(i, a, k, expected) /\ j = AppendAppliedAndAdvanceHead(i, a, k)

Others(p) == \A q \in Proc \ {p} : run'[q] = run[q]

\* The session of p writes d, keeping the lease row it sees.
WritesOn(p) ==
  \E d \in Database :
    Write(p, d) /\ d.lease = View(p).lease /\ JournalMove(JournalOf(p), d.journal)

Working(p) ==
  /\ p \in online /\ run[p].pc \in Critical
  /\ Others(p)
  /\ UNCHANGED <<advisory, online>>
  /\ UNCHANGED <<db, txn>> \/ WritesOn(p)

\* A call that returns concerns the run that made it.
LEMMA AnswerOthers ==
  ASSUME Sound, NEW p \in Proc, NEW l, Answer(p, l)
  PROVE  Others(p)
BY DEF Sound, TypeOK, Answer, Others

\* A run that goes on by itself works.
LEMMA ProceedWorking ==
  ASSUME Sound, NEW p \in Proc, p \in online, run[p].pc \in Critical,
         NEW l, Proceed(p, l)
  PROVE  Working(p)
BY DEF Sound, TypeOK, Proceed, Working, Others

\* A write through the session works.
LEMMA WriteWorking ==
  ASSUME Sound, NEW p \in Proc, p \in online, run[p].pc \in Critical,
         NEW d \in Database, Write(p, d), d.lease = View(p).lease,
         JournalMove(JournalOf(p), d.journal),
         NEW l, Answer(p, l), UNCHANGED <<advisory, online>>
  PROVE  Working(p)
BY AnswerOthers DEF Working, WritesOn

\* A write of the journal through the session works.
LEMMA JournalWorking ==
  ASSUME Sound, NEW p \in Proc, p \in online, run[p].pc \in Critical,
         NEW j \in Journal, WriteJournal(p, j), JournalMove(JournalOf(p), j),
         NEW l, Answer(p, l), UNCHANGED <<advisory, online>>
  PROVE  Working(p)
<1> DEFINE d == [View(p) EXCEPT !.journal = j]
<1>1. View(p) \in Database
  BY ViewType DEF Sound
<1>2. d \in Database /\ d.lease = View(p).lease /\ d.journal = j
  BY <1>1 DEF Database
<1>3. Write(p, d)
  BY DEF WriteJournal
<1> HIDE DEF d
<1> QED
  BY <1>2, <1>3, WriteWorking

\* A transition of an attempt works.
LEMMA TransitionWorking ==
  ASSUME Sound, NEW p \in Proc, p \in online, run[p].pc \in Critical,
         NEW state, NEW l, Transition(p, state, l)
  PROVE  Working(p)
<1> DEFINE j == TransitionAttempt(JournalOf(p), run[p].attempt, state)
<1>1. CASE CanTransition(JournalOf(p), run[p].attempt, state)
  <2>1. JournalOf(p) \in Journal
    BY ViewType DEF Sound
  <2>2. j \in Journal
    BY <1>1, <2>1, TransitionAttemptType
  <2>3. j.head = JournalOf(p).head /\ j.applied = JournalOf(p).applied
    BY <2>1 DEF TransitionAttempt, Journal
  <2>4. WriteJournal(p, j) /\ Answer(p, l) /\ UNCHANGED <<advisory, online>>
    BY <1>1 DEF Transition
  <2> HIDE DEF j
  <2> QED
    BY <2>2, <2>3, <2>4, JournalWorking DEF JournalMove
<1>2. CASE ~CanTransition(JournalOf(p), run[p].attempt, state)
  BY <1>2, ProceedWorking DEF Transition, Reject
<1> QED
  BY <1>1, <1>2

\* A write of anything but journal and lease works.
LEMMA OtherWriteWorking ==
  ASSUME Sound, NEW p \in Proc, p \in online, run[p].pc \in Critical,
         NEW d \in Database, Write(p, d), d.lease = View(p).lease,
         d.journal = View(p).journal,
         NEW l, Answer(p, l), UNCHANGED <<advisory, online>>
  PROVE  Working(p)
BY WriteWorking DEF JournalMove, JournalOf

\* The steps of a run that work, all but those that take or drop something.
WorkingStep(p) ==
  \/ ReadJournal(p)
  \/ SelectArtifact(p)
  \/ CreateAttemptRow(p)
  \/ MarkRunning(p)
  \/ AcquireDdlLock(p)
  \/ CheckPreconditions(p)
  \/ ExecuteStatement(p)
  \/ CheckpointStatement(p)
  \/ CheckPostconditions(p)
  \/ RecordApplied(p)
  \/ MarkApplied(p)
  \/ ReleaseDdlLock(p)
  \/ ConcludeAttempt(p)
  \/ VerifyOutcome(p)
  \/ RequireRecovery(p)
  \/ ReconcileHistory(p)
  \/ RecordOutcome(p)
  \/ ResolveAttempt(p)

\* createAttempt leaves history and head alone.
LEMMA CreateAttemptWorking ==
  ASSUME Sound, NEW p \in Proc, p \in online, run[p].pc = "create",
         CreateAttemptRow(p)
  PROVE  Working(p)
<1>1. PICK k \in AttemptId :
        \/ /\ WriteJournal(p, CreateAttempt(
                   JournalOf(p), k, ArtifactOf(run[p]), run[p].head))
           /\ Answer(p, [run[p] EXCEPT !.pc = "start", !.attempt = k])
           /\ UNCHANGED <<advisory, ddl, online>>
        \/ Reject(p, "failed")
  BY DEF CreateAttemptRow
<1> DEFINE j == CreateAttempt(JournalOf(p), k, ArtifactOf(run[p]), run[p].head)
<1>2. run[p] \in Run /\ run[p].n \in 1..Len(run[p].repo) /\ run[p].pc \in Critical
  BY DEF Sound, TypeOK, LocalOK, PositionOK, ExecutorStep, Critical
<1>3. JournalOf(p) \in Journal
  BY ViewType DEF Sound
<1>4. j \in Journal
  BY <1>2, <1>3, PhasesType, CreateAttemptType DEF Run
<1>5. j.head = JournalOf(p).head /\ j.applied = JournalOf(p).applied
  BY <1>3 DEF CreateAttempt, Journal
<1>6. CASE WriteJournal(p, j) /\ Answer(p, [run[p] EXCEPT !.pc = "start", !.attempt = k])
           /\ UNCHANGED <<advisory, ddl, online>>
  <2> HIDE DEF j
  <2> QED
    BY <1>2, <1>4, <1>5, <1>6, JournalWorking DEF JournalMove
<1>7. CASE Reject(p, "failed")
  BY <1>2, <1>7, ProceedWorking DEF Reject
<1> QED
  BY <1>1, <1>6, <1>7

\* recordApplied appends what continues the history.
LEMMA RecordAppliedWorking ==
  ASSUME Sound, NEW p \in Proc, p \in online, run[p].pc = "record", RecordApplied(p)
  PROVE  Working(p)
<1> DEFINE a == ArtifactOf(run[p])
           k == run[p].attempt
           j == AppendAppliedAndAdvanceHead(JournalOf(p), a, k)
<1>1. InArtifact(run[p]) /\ run[p].pc \in Critical
  BY LocalInArtifact DEF Sound, TypeOK, ExecutorStep, Critical
<1>2. a \in Artifact /\ k \in AttemptId /\ run[p].head \in Digest
  BY <1>1, PhasesType DEF InArtifact, Run
<1>3. j \in Journal
  BY <1>2, ViewType, AppendType DEF Sound
<1>4. CASE CanAppend(JournalOf(p), a, k, run[p].head)
  <2>1. JournalMove(JournalOf(p), j)
    BY <1>2, <1>4 DEF JournalMove
  <2>2. /\ WriteJournal(p, j) /\ Answer(p, [run[p] EXCEPT !.pc = "applied"])
        /\ UNCHANGED <<advisory, online>>
    BY <1>4 DEF RecordApplied
  <2> HIDE DEF j
  <2> QED
    BY <1>1, <1>3, <2>1, <2>2, JournalWorking
<1>5. CASE ~CanAppend(JournalOf(p), a, k, run[p].head)
  BY <1>1, <1>5, ProceedWorking DEF RecordApplied, Reject
<1> QED
  BY <1>4, <1>5

\* A reconciliation appends what continues the history.
LEMMA ReconcileHistoryWorking ==
  ASSUME Sound, NEW p \in Proc, p \in online, run[p].pc = "history",
         ReconcileHistory(p)
  PROVE  Working(p)
<1> DEFINE k == run[p].attempt
           a == JournalOf(p).attempts[k].artifact
           e == JournalOf(p).attempts[k].expectedHead
           j == AppendAppliedAndAdvanceHead(JournalOf(p), a, k)
           l == [run[p] EXCEPT !.pc = "audit"]
<1>1. run[p] \in Run /\ run[p].pc \in Critical /\ k \in AttemptId
  BY DEF Sound, TypeOK, LocalOK, AttemptOK, ReconcileStep, Critical
<1>2. JournalOf(p) \in Journal
  BY ViewType DEF Sound
<1>3. CASE /\ InRepository(run[p].repo, a) /\ CanAppend(JournalOf(p), a, k, e)
           /\ WriteJournal(p, j) /\ Answer(p, l) /\ UNCHANGED <<advisory, ddl, online>>
  <2>1. a \in Artifact
    BY <1>1, <1>3 DEF InRepository, Run
  <2>2. e \in Digest
    <3>1. JournalOf(p).attempts[k] \in Attempt
      BY <1>1, <1>2 DEF Journal
    <3> QED
      BY <3>1 DEF Attempt, NoAttempt, Digest
  <2>3. j \in Journal
    BY <1>1, <1>2, <2>1, AppendType
  <2>4. JournalMove(JournalOf(p), j)
    BY <1>1, <1>3, <2>1, <2>2 DEF JournalMove
  <2> HIDE DEF j, l
  <2> QED
    BY <1>1, <1>3, <2>3, <2>4, JournalWorking
<1>4. CASE Proceed(p, l) \/ Reject(p, "failed")
  BY <1>1, <1>4, ProceedWorking DEF Reject
<1> QED
  BY <1>3, <1>4 DEF ReconcileHistory

\* recordReconciliation leaves history and head alone.
LEMMA RecordOutcomeWorking ==
  ASSUME Sound, NEW p \in Proc, p \in online, run[p].pc = "audit", RecordOutcome(p)
  PROVE  Working(p)
<1> DEFINE j == RecordReconciliation(JournalOf(p), run[p].attempt, run[p].outcome)
           l == [run[p] EXCEPT !.pc = "resolve"]
<1>1. \/ WriteJournal(p, j) /\ Answer(p, l) /\ UNCHANGED <<advisory, ddl, online>>
      \/ Proceed(p, l)
      \/ Reject(p, "failed")
  BY DEF RecordOutcome
<1>2. run[p] \in Run /\ run[p].pc \in Critical /\ JournalOf(p) \in Journal
  BY ViewType DEF Sound, TypeOK, Critical, ReconcileStep
<1>3. j \in Journal
  BY <1>2, RecordReconciliationType DEF Run
<1>4. j.head = JournalOf(p).head /\ j.applied = JournalOf(p).applied
  BY <1>2 DEF RecordReconciliation, Journal
<1> HIDE DEF j, l
<1> QED
  BY <1>1, <1>2, <1>3, <1>4, JournalWorking, ProceedWorking DEF Reject, JournalMove

\* A statement changes the schema the session sees.
LEMMA ExecuteStatementWorking ==
  ASSUME Sound, NEW p \in Proc, p \in online, run[p].pc = "execute",
         ExecuteStatement(p)
  PROVE  Working(p)
<1> DEFINE d == [View(p) EXCEPT !.schema = @ \cup {EffectOf(run[p])}]
<1>1. /\ run[p] \in Run /\ LocalOK(run[p]) /\ run[p].pc \in Critical
      /\ View(p) \in Database
  BY ViewType DEF Sound, TypeOK, Critical, ExecutorStep
<1>2. d \in Database /\ d.lease = View(p).lease /\ d.journal = View(p).journal
  BY <1>1, EffectOfType DEF Database, ExecuteStatement
<1>3. Write(p, d)
  BY DEF ExecuteStatement
<1>4. /\ Answer(p, [run[p] EXCEPT !.effect = TRUE, !.pc = "mark"])
      /\ UNCHANGED <<advisory, online>>
  BY DEF ExecuteStatement
<1> HIDE DEF d
<1> QED
  BY <1>1, <1>2, <1>3, <1>4, OtherWriteWorking

\* A checkpoint changes the marks the session sees.
LEMMA CheckpointStatementWorking ==
  ASSUME Sound, NEW p \in Proc, p \in online, run[p].pc = "mark",
         CheckpointStatement(p)
  PROVE  Working(p)
<1> DEFINE mark == <<run[p].attempt, EffectOf(run[p])>>
           d == [View(p) EXCEPT !.marks = @ \cup {mark}]
<1>1. /\ run[p] \in Run /\ LocalOK(run[p]) /\ run[p].pc \in Critical
      /\ View(p) \in Database
  BY ViewType DEF Sound, TypeOK, Critical, ExecutorStep
<1>2. mark \in AttemptId \X UNION {Effects(a) : a \in Artifact}
  <2>1. run[p].attempt \in AttemptId
    BY <1>1, LocalInArtifact DEF InArtifact, ExecutorStep
  <2> QED
    BY <1>1, <2>1, EffectOfType
<1>3. Write(p, d)
  BY DEF CheckpointStatement
<1> HIDE DEF mark
<1>4. d \in Database /\ d.lease = View(p).lease /\ d.journal = View(p).journal
  BY <1>1, <1>2 DEF Database
<1>5. /\ Answer(p, AfterStatements([run[p] EXCEPT !.st = @ + 1]))
      /\ UNCHANGED <<advisory, online>>
  BY DEF CheckpointStatement
<1> HIDE DEF d
<1> QED
  BY <1>1, <1>3, <1>4, <1>5, OtherWriteWorking

\* The DDL lock is neither the lease nor data.
LEMMA DdlLockWorking ==
  ASSUME Sound, NEW p \in Proc, AcquireDdlLock(p) \/ ReleaseDdlLock(p)
  PROVE  Working(p)
<1>1. /\ p \in online /\ run[p].pc \in Critical /\ UNCHANGED <<db, txn, advisory, online>>
  BY DEF AcquireDdlLock, ReleaseDdlLock, At, Critical, ExecutorStep
<1>2. Others(p)
  BY AnswerOthers DEF AcquireDdlLock, ReleaseDdlLock
<1> QED
  BY <1>1, <1>2 DEF Working

\* Every working step works.
LEMMA StepsWork ==
  ASSUME Sound, NEW p \in Proc, WorkingStep(p)
  PROVE  Working(p)
<1>1. CASE ReadJournal(p) \/ SelectArtifact(p)
  BY <1>1, ProceedWorking
     DEF ReadJournal, SelectArtifact, At, Critical, ExecutorStep, Reject
<1>2. CASE CheckPreconditions(p) \/ CheckPostconditions(p) \/ VerifyOutcome(p)
  BY <1>2, ProceedWorking
     DEF CheckPreconditions, CheckPostconditions, VerifyOutcome, At, Critical,
         ExecutorStep, ReconcileStep, Reject
<1>3. CASE MarkRunning(p) \/ MarkApplied(p) \/ ConcludeAttempt(p)
  BY <1>3, TransitionWorking
     DEF MarkRunning, MarkApplied, ConcludeAttempt, At, Critical, ExecutorStep
<1>4. CASE RequireRecovery(p) \/ ResolveAttempt(p)
  BY <1>4, TransitionWorking DEF RequireRecovery, ResolveAttempt, At, Critical, ReconcileStep
<1>5. CASE CreateAttemptRow(p)
  BY <1>5, CreateAttemptWorking DEF CreateAttemptRow, At
<1>6. CASE RecordApplied(p)
  BY <1>6, RecordAppliedWorking DEF RecordApplied, At
<1>7. CASE ReconcileHistory(p)
  BY <1>7, ReconcileHistoryWorking DEF ReconcileHistory, At
<1>8. CASE RecordOutcome(p)
  BY <1>8, RecordOutcomeWorking DEF RecordOutcome, At
<1>9. CASE ExecuteStatement(p)
  BY <1>9, ExecuteStatementWorking DEF ExecuteStatement, At
<1>10. CASE CheckpointStatement(p)
  BY <1>10, CheckpointStatementWorking DEF CheckpointStatement, At
<1>11. CASE AcquireDdlLock(p) \/ ReleaseDdlLock(p)
  BY <1>11, DdlLockWorking
<1> QED
  BY <1>1, <1>2, <1>3, <1>4, <1>5, <1>6, <1>7, <1>8, <1>9, <1>10, <1>11
     DEF WorkingStep

-----------------------------------------------------------------------------
(* Mutual exclusion under the lease. *)

\* A connected run at an await that counts on the lease has it.
Leased == \A p \in Proc : LeaseOK(p)

\* A step that writes nothing to the lease a session sees takes it from none.
LEMMA KeepLease ==
  ASSUME Sound, Leased, NEW p \in Proc, Others(p),
         online' \subseteq online, UNCHANGED advisory, db'.lease = db.lease,
         \A q \in Proc \ {p} : txn'[q] = txn[q],
         txn'[p] # NoTxn => txn'[p].lease = View(p).lease,
         p \in online' /\ run'[p].pc \in Critical => run[p].pc \in Critical
  PROVE  Leased'
<1> SUFFICES ASSUME NEW q \in Proc, q \in online', run'[q].pc \in Critical
             PROVE  HoldsLease(q)'
  BY DEF Leased, LeaseOK
<1>1. q \in online /\ run[q].pc \in Critical
  BY DEF Others
<1>2. HoldsLease(q)
  BY <1>1 DEF Leased, LeaseOK
<1>3. txn'[q] # NoTxn => txn'[q].lease = View(q).lease
  BY DEF View
<1>4. LeaseKind # "advisory" => View(q).lease = q
  BY <1>2 DEF View, HoldsLease
<1> QED
  BY <1>2, <1>3, <1>4 DEF HoldsLease

\* A working step keeps every lease.
LEMMA WorkingLeased ==
  ASSUME Sound, Leased, NEW p \in Proc, Working(p)
  PROVE  Leased'
<1>1. CASE UNCHANGED <<db, txn>>
  BY <1>1, KeepLease DEF Working, View
<1>2. CASE WritesOn(p)
  <2>1. PICK d \in Database : Write(p, d) /\ d.lease = View(p).lease
    BY <1>2 DEF WritesOn
  <2>2. \A q \in Proc \ {p} : txn'[q] = txn[q]
    BY <2>1, WriteType DEF Sound
  <2>3. CASE txn[p] = NoTxn
    BY <2>1, <2>2, <2>3, KeepLease DEF Write, View, Working
  <2>4. CASE txn[p] # NoTxn
    <3>1. db' = db /\ txn'[p] = d
      BY <2>1, <2>4 DEF Write, Sound, TypeOK
    <3> QED
      BY <2>1, <2>2, <3>1, KeepLease DEF Working
  <2> QED
    BY <2>3, <2>4
<1> QED
  BY <1>1, <1>2 DEF Working

\* Only a free lease is taken.
LEMMA AcquireLeaseLeased ==
  ASSUME Sound, Leased, NEW p \in Proc, AcquireLease(p)
  PROVE  Leased'
<1>1. /\ p \in online /\ run[p].pc = "lease" /\ Others(p)
      /\ UNCHANGED <<txn, online>>
  BY AnswerOthers DEF AcquireLease, At
<1>2. txn[p] = NoTxn
  BY <1>1 DEF Sound, TransactionOK, Critical, ExecutorStep, ReconcileStep
<1>3. ASSUME NEW q \in Proc, q \in online, run[q].pc \in Critical
      PROVE  FALSE
  <2>1. HoldsLease(q)
    BY <1>3 DEF Leased, LeaseOK
  <2>2. Null # q
    BY <1>3, ExecutorAssumption
  <2> QED
    BY <2>1, <2>2 DEF AcquireLease, HoldsLease
<1>4. HoldsLease(p)'
  <2>1. CASE LeaseKind = "advisory"
    BY <2>1 DEF AcquireLease, HoldsLease
  <2>2. CASE LeaseKind # "advisory"
    <3>1. db' = [db EXCEPT !.lease = p] /\ db \in Database
      BY <2>2 DEF AcquireLease, Sound, TypeOK
    <3>2. db'.lease = p
      BY <3>1 DEF Database
    <3> QED
      BY <1>1, <1>2, <2>2, <3>2 DEF HoldsLease
  <2> QED
    BY <2>1, <2>2
<1> QED
  BY <1>1, <1>3, <1>4 DEF Leased, LeaseOK, Others

\* A step that ends p's use of the lease, and takes it from no other.
LEMMA LeaveLease ==
  ASSUME Sound, Leased, NEW p \in Proc, Others(p),
         online' \subseteq online,
         ~(p \in online' /\ run'[p].pc \in Critical),
         advisory' = advisory \/ (advisory = p /\ advisory' = Null),
         db'.lease = db.lease \/ (db.lease = p /\ db'.lease = Null),
         \A q \in Proc \ {p} : txn'[q] = txn[q]
  PROVE  Leased'
<1> SUFFICES ASSUME NEW q \in Proc, q \in online', run'[q].pc \in Critical
             PROVE  HoldsLease(q)'
  BY DEF Leased, LeaseOK
<1>1. q # p
  OBVIOUS
<1>2. q \in online /\ run[q].pc \in Critical /\ txn'[q] = txn[q]
  BY <1>1 DEF Others
<1>3. HoldsLease(q)
  BY <1>2 DEF Leased, LeaseOK
<1> QED
  BY <1>1, <1>2, <1>3 DEF HoldsLease

\* releaseLease gives up what the run itself holds.
LEMMA ReleaseLeaseLeased ==
  ASSUME Sound, Leased, NEW p \in Proc, ReleaseLease(p)
  PROVE  Leased'
<1> DEFINE l == [run[p] EXCEPT !.leased = FALSE, !.pc = "close"]
           d == [View(p) EXCEPT !.lease = IF @ = p THEN Null ELSE @]
<1>1. /\ p \in online /\ run[p].pc = "release" /\ Others(p) /\ online' = online
      /\ Answer(p, l)
  BY AnswerOthers DEF ReleaseLease, At
<1>2. run[p] \in Run /\ LocalOK(run[p])
  BY DEF Sound, TypeOK
<1>3. run'[p].pc \notin Critical
  <2>1. run'[p] = l \/ run'[p] = Throw(run[p], Unanswered(run[p]))
    BY <1>1 DEF Answer, Sound, TypeOK
  <2>2. l.pc = "close"
    BY <1>2 DEF Run
  <2>3. Throw(run[p], Unanswered(run[p])).pc = "close"
    BY <1>1, <1>2 DEF Throw, ReconcileStep, Run
  <2> QED
    BY <2>1, <2>2, <2>3 DEF Critical, ExecutorStep, ReconcileStep
<1>4. CASE LeaseKind = "advisory"
  BY <1>1, <1>3, <1>4, LeaveLease DEF ReleaseLease
<1>5. CASE LeaseKind # "advisory"
  <2>1. Write(p, d) /\ UNCHANGED advisory
    BY <1>5 DEF ReleaseLease
  <2>2. View(p) \in Database
    BY ViewType DEF Sound
  <2>3. d \in Database /\ d.lease = IF View(p).lease = p THEN Null ELSE View(p).lease
    BY <2>2 DEF Database
  <2> HIDE DEF d
  <2>4. \A q \in Proc \ {p} : txn'[q] = txn[q]
    BY <2>1, <2>3, WriteType DEF Sound
  <2>5. db'.lease = db.lease \/ (db.lease = p /\ db'.lease = Null)
    BY <2>1, <2>3 DEF Write, View
  <2> QED
    BY <1>1, <1>3, <2>1, <2>4, <2>5, LeaveLease
<1> QED
  BY <1>4, <1>5

\* A session that ends takes its own lease with it, or leaves it to nobody's use.
LEMMA EndingLeased ==
  ASSUME Sound, Leased, NEW p \in Proc,
         CloseSession(p) \/ Crash(p) \/ LoseConnection(p) \/ EndClient(p)
  PROVE  Leased'
<1>1. EndingStep(p) /\ Others(p)
  BY EndingSteps
     DEF CloseSession, Closed, Crash, LoseConnection, EndClient, Others, Sound, TypeOK
<1>2. db'.lease = db.lease \/ (db.lease = p /\ db'.lease = Null)
  BY DEF CloseSession, Crash, LoseConnection, EndClient, Sound, TypeOK, Database
<1>3. ~(p \in online' /\ run'[p].pc \in Critical)
  <2>1. p \notin online' \/ run'[p].pc = "idle"
    BY DEF CloseSession, Closed, Idle, Crash, LoseConnection, EndClient, EndSession,
           Sound, TypeOK
  <2> QED
    BY <2>1 DEF Critical, ExecutorStep, ReconcileStep
<1>4. /\ online' \subseteq online
      /\ advisory' = advisory \/ (advisory = p /\ advisory' = Null)
      /\ \A q \in Proc \ {p} : txn'[q] = txn[q]
  BY <1>1 DEF EndingStep, Sound, TypeOK
<1> QED
  BY <1>1, <1>2, <1>3, <1>4, LeaveLease

\* A transaction begins on the committed lease and is committed with it.
LEMMA TransactionLeased ==
  ASSUME Sound, Leased, NEW p \in Proc,
         BeginTransaction(p) \/ Commit(p) \/ CommitRefused(p) \/ Rollback(p)
  PROVE  Leased'
<1>1. /\ p \in online /\ run[p].pc \in Critical /\ UNCHANGED <<advisory, online>>
      /\ \A q \in Proc \ {p} : txn'[q] = txn[q]
  BY DEF BeginTransaction, Commit, CommitRefused, Rollback, At, Critical, ExecutorStep,
         Sound, TypeOK
<1>2. Others(p)
  BY AnswerOthers
     DEF BeginTransaction, Commit, CommitRefused, Rollback, Others, Sound, TypeOK
<1>3. CASE BeginTransaction(p)
  <2>1. db' = db /\ txn'[p] = db /\ run[p].pc = "begin"
    BY <1>3 DEF BeginTransaction, At, Sound, TypeOK
  <2>2. db.lease = View(p).lease \/ LeaseKind = "advisory"
    <3>1. HoldsLease(p)
      BY <1>1 DEF Leased, LeaseOK
    <3> QED
      BY <3>1 DEF HoldsLease, View
  <2> SUFFICES ASSUME NEW q \in Proc, q \in online', run'[q].pc \in Critical
               PROVE  HoldsLease(q)'
    BY DEF Leased, LeaseOK
  <2>3. q \in online /\ run[q].pc \in Critical
    BY <1>1, <1>2 DEF Others
  <2>4. HoldsLease(q)
    BY <2>3 DEF Leased, LeaseOK
  <2>5. txn'[q] = txn[q] \/ txn'[q] = db
    BY <1>1, <2>1
  <2> QED
    BY <1>1, <2>1, <2>4, <2>5 DEF HoldsLease
<1>4. CASE Commit(p)
  <2>1. db' = txn[p] /\ txn'[p] = NoTxn
    BY <1>4 DEF Commit, Sound, TypeOK
  <2>2. txn[p] # NoTxn
    BY <1>4, AtSound DEF Commit, LocalOK, FlagsOK, InPhase
  <2> SUFFICES ASSUME NEW q \in Proc, q \in online', run'[q].pc \in Critical
               PROVE  HoldsLease(q)'
    BY DEF Leased, LeaseOK
  <2>3. q \in online /\ run[q].pc \in Critical
    BY <1>1, <1>2 DEF Others
  <2>4. HoldsLease(q) /\ HoldsLease(p)
    BY <1>1, <2>3 DEF Leased, LeaseOK
  <2>5. p = q
    BY <2>4 DEF HoldsLease
  <2> QED
    BY <1>1, <2>1, <2>2, <2>4, <2>5 DEF HoldsLease
<1>5. CASE CommitRefused(p) \/ Rollback(p)
  <2>1. db' = db /\ (txn'[p] = txn[p] \/ txn'[p] = NoTxn)
    BY <1>5 DEF CommitRefused, Rollback, Sound, TypeOK
  <2>2. txn'[p] # NoTxn => txn'[p].lease = View(p).lease
    BY <2>1 DEF View
  <2> QED
    BY <1>1, <1>2, <2>1, <2>2, KeepLease
<1> QED
  BY <1>3, <1>4, <1>5

\* A run that starts, throws or notices the end of its session gains no lease.
LEMMA RunOnlyLeased ==
  ASSUME Sound, Leased, NEW p \in Proc,
         StartApply(p) \/ StartReconcile(p) \/ Fail(p) \/ CallDisconnected(p)
  PROVE  Leased'
<1>1. /\ UNCHANGED <<db, txn, advisory>> /\ Others(p)
      /\ \A q \in Proc \ {p} : q \in online' <=> q \in online
  BY DEF StartApply, StartReconcile, Fail, CallDisconnected, Others, Sound, TypeOK
<1>2. p \in online' /\ run'[p].pc \in Critical => p \in online /\ run[p].pc \in Critical
  <2>1. CASE StartApply(p) \/ StartReconcile(p)
    <3>1. run'[p].pc \in {"lease", "close", "idle"}
      <4>1. CASE StartApply(p)
        <5> DEFINE opened(repo) == [Idle EXCEPT !.role = "apply", !.repo = repo]
        <5>1. \E repo \in Repositories :
                \/ run' = [run EXCEPT ![p] = [opened(repo) EXCEPT !.pc = "lease"]]
                \/ run' = [run EXCEPT ![p] =
                     [opened(repo) EXCEPT !.pc = "close", !.error = "failed"]]
                \/ run' = [run EXCEPT ![p] = [Idle EXCEPT !.result = "failed"]]
          BY <4>1 DEF StartApply
        <5>2. \A repo : /\ [opened(repo) EXCEPT !.pc = "lease"].pc = "lease"
                        /\ [opened(repo) EXCEPT
                              !.pc = "close", !.error = "failed"].pc = "close"
          BY DEF Idle
        <5>3. [Idle EXCEPT !.result = "failed"].pc = "idle"
          BY DEF Idle
        <5> HIDE DEF opened
        <5> QED
          BY <5>1, <5>2, <5>3 DEF Sound, TypeOK
      <4>2. CASE StartReconcile(p)
        <5>1. PICK repo \in Repositories, k \in AttemptId, outcome \in Terminal :
                run' = [run EXCEPT ![p] =
                  [Idle EXCEPT !.pc = "lease", !.role = "reconcile", !.repo = repo,
                               !.attempt = k, !.outcome = outcome]]
          BY <4>2 DEF StartReconcile
        <5> QED
          BY <5>1 DEF Idle, Sound, TypeOK
      <4> QED
        BY <2>1, <4>1, <4>2
    <3> QED
      BY <3>1 DEF Critical, ExecutorStep, ReconcileStep
  <2>2. CASE Fail(p)
    <3>1. PICK e \in ErrorKinds(run[p]) : run' = [run EXCEPT ![p] = Throw(run[p], e)]
      BY <2>2 DEF Fail
    <3>2. run[p] \in Run /\ p \in online /\ online' = online
      BY <2>2 DEF Fail, Sound, TypeOK
    <3>3. run'[p] = Throw(run[p], e)
      BY <3>1 DEF Sound, TypeOK
    <3>4. run[p].pc = "lease" => run'[p].pc = "close"
      BY <3>2, <3>3 DEF Throw, Run, ReconcileStep
    <3>5. run[p].pc # "idle"
      BY <2>2 DEF Fail
    <3>6. run[p].pc = "close" => run'[p].pc = "idle"
      BY <3>2, <3>3, ThrowClosing DEF Idle
    <3> QED
      BY <3>2, <3>4, <3>5, <3>6 DEF Run, Step, Critical, ExecutorStep, ReconcileStep
  <2>3. CASE CallDisconnected(p)
    BY <2>3 DEF CallDisconnected
  <2> QED
    BY <2>1, <2>2, <2>3
<1> SUFFICES ASSUME NEW q \in Proc, q \in online', run'[q].pc \in Critical
             PROVE  HoldsLease(q)'
  BY DEF Leased, LeaseOK
<1>3. q \in online /\ run[q].pc \in Critical
  BY <1>1, <1>2 DEF Others
<1> QED
  BY <1>1, <1>3 DEF Leased, LeaseOK, HoldsLease

\* The operator leaves the lease of a run that counts on it alone.
LEMMA OperatorLeased ==
  ASSUME Sound, Leased, Repair \/ ClearLeaseRow
  PROVE  Leased'
<1> SUFFICES ASSUME NEW q \in Proc, q \in online', run'[q].pc \in Critical
             PROVE  HoldsLease(q)'
  BY DEF Leased, LeaseOK
<1>1. UNCHANGED <<txn, advisory, online, run>>
  BY DEF Repair, ClearLeaseRow
<1>2. HoldsLease(q) /\ run[q].leased
  BY <1>1 DEF Leased, LeaseOK, Sound, LocalOK, FlagsOK
<1>3. CASE Repair
  BY <1>1, <1>2, <1>3 DEF Repair, Critical, ExecutorStep, ReconcileStep
<1>4. CASE ClearLeaseRow
  BY <1>1, <1>2, <1>4, ExecutorAssumption DEF ClearLeaseRow, HoldsLease
<1> QED
  BY <1>3, <1>4

\* Every step keeps the lease of every run that counts on it.
LEMMA NextLeased ==
  ASSUME Sound, Leased, [Next]_vars
  PROVE  Leased'
<1>1. ASSUME NEW p \in Proc, Continue(p)
      PROVE  Leased'
  <2>1. \/ WorkingStep(p) \/ AcquireLease(p) \/ ReleaseLease(p) \/ CloseSession(p)
        \/ BeginTransaction(p) \/ Commit(p) \/ Rollback(p) \/ CallDisconnected(p)
    BY <1>1 DEF Continue, WorkingStep
  <2> QED
    BY <2>1, StepsWork, WorkingLeased, AcquireLeaseLeased, ReleaseLeaseLeased,
       EndingLeased, TransactionLeased, RunOnlyLeased
<1>2. ASSUME NEW p \in Proc,
             \/ StartApply(p) \/ StartReconcile(p) \/ CommitRefused(p) \/ Fail(p)
             \/ LoseConnection(p) \/ Crash(p) \/ EndClient(p)
      PROVE  Leased'
  BY <1>2, RunOnlyLeased, TransactionLeased, EndingLeased
<1>3. CASE UNCHANGED vars
  BY <1>3 DEF vars, Leased, LeaseOK, HoldsLease
<1> QED
  BY <1>1, <1>2, <1>3, OperatorLeased DEF Next

\* Control: in every reachable state of every instance the local variables,
\* the transaction and the lease of each run agree with its await.
THEOREM ControlAlways == Spec => []Control
<1>1. Init => Leased
  BY DEF Init, Leased, LeaseOK
<1>2. Sound /\ Leased /\ [Next]_vars => Leased'
  BY NextLeased
<1>3. Sound /\ Leased => Control
  BY DEF Sound, Leased, Control
<1> QED
  BY <1>1, <1>2, <1>3, SoundAlways, PTL DEF Spec

\* LeaseExcludes: of all connected sessions at most one is at a step that
\* counts on the migrator lease, with either kind of lease, whatever crashes,
\* is cut off, or leaves its lease behind.
THEOREM LeaseExclusion == Spec => []LeaseExcludes
<1>1. Control => LeaseExcludes
  BY DEF Control, LeaseOK, HoldsLease, LeaseExcludes, UnderLease
<1> QED
  BY <1>1, ControlAlways, PTL

-----------------------------------------------------------------------------
(* The linear ledger. *)

\* What is committed, and what any open transaction would commit, is a chain.
ChainOK ==
  /\ Chained(db.journal)
  /\ \A p \in Proc : txn[p] # NoTxn => Chained(txn[p].journal)

\* What a session reads is a chain.
LEMMA ViewChained ==
  ASSUME ChainOK, NEW p \in Proc
  PROVE  Chained(View(p).journal)
BY DEF ChainOK, View

\* A journal operation keeps the chain.
LEMMA MoveChained ==
  ASSUME NEW i \in Journal, NEW j, JournalMove(i, j), Chained(i)
  PROVE  Chained(j)
BY SameHistoryChained, AppendChained DEF JournalMove

\* A working step writes a chain, to the database or to its transaction.
LEMMA WorkingChained ==
  ASSUME Sound, ChainOK, NEW p \in Proc, Working(p)
  PROVE  ChainOK'
<1>1. CASE UNCHANGED <<db, txn>>
  BY <1>1 DEF ChainOK
<1>2. CASE WritesOn(p)
  <2>1. PICK d \in Database : Write(p, d) /\ JournalMove(JournalOf(p), d.journal)
    BY <1>2 DEF WritesOn
  <2>2. Chained(d.journal)
    BY <2>1, ViewType, ViewChained, MoveChained DEF Sound, JournalOf
  <2> QED
    BY <2>1, <2>2 DEF Write, ChainOK, Sound, TypeOK
<1> QED
  BY <1>1, <1>2 DEF Working

\* A transaction starts from the committed chain; a commit publishes its own.
LEMMA TransactionChained ==
  ASSUME Sound, ChainOK, NEW p \in Proc,
         BeginTransaction(p) \/ Commit(p) \/ CommitRefused(p) \/ Rollback(p)
  PROVE  ChainOK'
<1>1. CASE BeginTransaction(p)
  BY <1>1 DEF BeginTransaction, ChainOK, Sound, TypeOK
<1>2. CASE Commit(p)
  <2>1. txn[p] # NoTxn
    BY <1>2, AtSound DEF Commit, LocalOK, FlagsOK, InPhase
  <2> QED
    BY <1>2, <2>1 DEF Commit, ChainOK, Sound, TypeOK
<1>3. CASE CommitRefused(p) \/ Rollback(p)
  BY <1>3 DEF CommitRefused, Rollback, ChainOK, Sound, TypeOK
<1> QED
  BY <1>1, <1>2, <1>3

\* The lease row, the schema and the end of a session are no part of the chain.
LEMMA OtherChained ==
  ASSUME Sound, ChainOK, db'.journal = db.journal,
         \A p \in Proc : txn'[p] # NoTxn =>
           txn[p] # NoTxn /\ txn'[p].journal = txn[p].journal
  PROVE  ChainOK'
BY DEF ChainOK

\* The lease row is no part of the chain.
LEMMA LeaseChained ==
  ASSUME Sound, ChainOK, NEW p \in Proc, AcquireLease(p) \/ ReleaseLease(p)
  PROVE  ChainOK'
<1>1. db \in Database /\ View(p) \in Database
  BY ViewType DEF Sound, TypeOK
<1>2. \A q : [db EXCEPT !.lease = q].journal = db.journal
  BY <1>1 DEF Database
<1>3. CASE AcquireLease(p)
  BY <1>2, <1>3, OtherChained DEF AcquireLease
<1>4. CASE ReleaseLease(p)
  <2>1. CASE LeaseKind = "advisory"
    BY <1>4, <2>1, OtherChained DEF ReleaseLease
  <2>2. CASE LeaseKind # "advisory"
    <3> DEFINE d == [View(p) EXCEPT !.lease = IF @ = p THEN Null ELSE @]
    <3>1. Write(p, d)
      BY <1>4, <2>2 DEF ReleaseLease
    <3>2. d.journal = View(p).journal
      BY <1>1 DEF Database
    <3> HIDE DEF d
    <3> QED
      BY <3>1, <3>2, ViewChained DEF Write, ChainOK, Sound, TypeOK
  <2> QED
    BY <2>1, <2>2
<1> QED
  BY <1>3, <1>4

\* Starting, failing and ending leave the committed chain as it is.
LEMMA EndingChained ==
  ASSUME Sound, ChainOK, NEW p \in Proc,
         \/ StartApply(p) \/ StartReconcile(p) \/ Fail(p) \/ CallDisconnected(p)
         \/ CloseSession(p) \/ Crash(p) \/ LoseConnection(p) \/ EndClient(p)
  PROVE  ChainOK'
<1>1. db \in Database
  BY DEF Sound, TypeOK
<1>2. db'.journal = db.journal
  BY <1>1 DEF StartApply, StartReconcile, Fail, CallDisconnected, CloseSession, Crash,
              LoseConnection, EndClient, Database
<1>3. UNCHANGED txn \/ txn' = [txn EXCEPT ![p] = NoTxn]
  BY DEF StartApply, StartReconcile, Fail, CallDisconnected, CloseSession, CloseLeaves,
         Crash, LoseConnection, EndClient, EndSession
<1> QED
  BY <1>2, <1>3, OtherChained DEF Sound, TypeOK

\* The operator does not touch the journal.
LEMMA OperatorChained ==
  ASSUME Sound, ChainOK, Repair \/ ClearLeaseRow
  PROVE  ChainOK'
<1>1. db \in Database
  BY DEF Sound, TypeOK
<1> QED
  BY <1>1, OtherChained DEF Repair, ClearLeaseRow, Database

\* Every step keeps the chain, committed or not.
LEMMA NextChained ==
  ASSUME Sound, ChainOK, [Next]_vars
  PROVE  ChainOK'
<1>1. ASSUME NEW p \in Proc, Continue(p)
      PROVE  ChainOK'
  <2>1. \/ WorkingStep(p) \/ AcquireLease(p) \/ ReleaseLease(p) \/ CloseSession(p)
        \/ BeginTransaction(p) \/ Commit(p) \/ Rollback(p) \/ CallDisconnected(p)
    BY <1>1 DEF Continue, WorkingStep
  <2> QED
    BY <2>1, StepsWork, WorkingChained, LeaseChained, TransactionChained, EndingChained
<1>2. ASSUME NEW p \in Proc,
             \/ StartApply(p) \/ StartReconcile(p) \/ CommitRefused(p) \/ Fail(p)
             \/ LoseConnection(p) \/ Crash(p) \/ EndClient(p)
      PROVE  ChainOK'
  BY <1>2, TransactionChained, EndingChained
<1>3. CASE UNCHANGED vars
  BY <1>3 DEF vars, ChainOK
<1> QED
  BY <1>1, <1>2, <1>3, OperatorChained DEF Next

\* LinearLedger: the committed history is a chain without repetition from the
\* empty head to the current one, with any number of processes, repositories
\* and faults.
THEOREM LedgerIsLinear == Spec => []LinearLedger
<1>1. Init => ChainOK
  BY EmptyChained DEF Init, ChainOK
<1>2. Sound /\ ChainOK /\ [Next]_vars => ChainOK'
  BY NextChained
<1>3. ChainOK => LinearLedger
  BY DEF ChainOK, LinearLedger
<1> QED
  BY <1>1, <1>2, <1>3, SoundAlways, PTL DEF Spec

-----------------------------------------------------------------------------
(* SuccessLeavesNoLock: what the flags of a run tell of its locks.           *)

\* Where a run goes that keeps its locks and their flags.
LockTellsOn(l, m) ==
  /\ m.error = l.error /\ m.leased = l.leased /\ m.pc \notin {"idle", "close"}
  /\ m.locked = l.locked \/ ~l.locked
  /\ m.pc \in {"rollback", "conclude"} => m.error # "none"
  /\ m.error = "none" /\ m.locked => m.pc \in {"begin", "unlock"} \cup InPhase

\* It still tells the truth about them there.
LEMMA LockToldOn ==
  ASSUME NEW l, NEW m, NEW lease \in BOOLEAN, NEW lock \in BOOLEAN,
         LockTold(l, lease, lock), l.pc # "idle", LockTellsOn(l, m)
  PROVE  LockTold(m, lease, lock)
BY DEF LockTold, LockTellsOn

\* The next await, when it is not the way out of a phase that holds the lock.
LEMMA AwaitTells ==
  ASSUME NEW l, NEW m, NEW lease, NEW lock, LockTold(l, lease, lock), l.pc # "idle",
         m.error = l.error, m.leased = l.leased, m.locked = l.locked,
         m.pc \notin {"idle", "close", "rollback", "conclude"},
         \/ l.pc \notin {"begin", "unlock"} \cup InPhase
         \/ m.pc \in {"begin", "unlock"} \cup InPhase
  PROVE  LockTellsOn(l, m)
BY DEF LockTold, LockTellsOn

\* A phase is entered without the lock.
LEMMA EnterPhaseTells ==
  ASSUME NEW l \in Run, l.error = "none" => ~l.locked
  PROVE  LockTellsOn(l, EnterPhase(l))
<1> DEFINE m == EnterPhase(l)
<1>1. /\ m.error = l.error /\ m.leased = l.leased /\ m.locked = l.locked
      /\ m.pc \in {"record", "lock", "begin", "check"}
  BY DEF EnterPhase, Run
<1> HIDE DEF m
<1> QED
  BY <1>1 DEF LockTellsOn, m

\* So are the next phase, the next artifact and the catch.
LEMMA AfterFinallyTells ==
  ASSUME NEW l \in Run, ~l.locked
  PROVE  LockTellsOn(l, AfterFinally(l))
<1>1. CASE l.error # "none"
  <2> DEFINE m == [l EXCEPT !.pc = IF l.active THEN "rollback" ELSE "conclude"]
  <2>1. AfterFinally(l) = m
    BY <1>1 DEF AfterFinally, Catch
  <2>2. /\ m.error = l.error /\ m.leased = l.leased /\ m.locked = l.locked
        /\ m.pc \in {"rollback", "conclude"}
    BY DEF Run
  <2> HIDE DEF m
  <2> QED
    BY <1>1, <2>1, <2>2 DEF LockTellsOn
<1>2. CASE l.error = "none" /\ l.ph < Len(Phases(l))
  <2> DEFINE m == [l EXCEPT !.ph = @ + 1, !.st = 1]
  <2>1. m.error = l.error /\ m.leased = l.leased /\ m.locked = l.locked
    BY DEF Run
  <2>2. AfterFinally(l) = EnterPhase(m)
    BY <1>2 DEF AfterFinally
  <2>3. m \in Run
    <3>1. l.ph + 1 \in Nat
      BY DEF Run
    <3> QED
      BY <3>1 DEF Run
  <2> HIDE DEF m
  <2>4. LockTellsOn(m, EnterPhase(m))
    BY <2>1, <2>3, EnterPhaseTells
  <2> QED
    BY <2>1, <2>2, <2>4 DEF LockTellsOn
<1>3. CASE l.error = "none" /\ ~(l.ph < Len(Phases(l)))
  <2>1. AfterFinally(l) = NextArtifact(l)
    BY <1>3 DEF AfterFinally
  <2>2. /\ NextArtifact(l).error = "none" /\ NextArtifact(l).leased = l.leased
        /\ ~NextArtifact(l).locked /\ NextArtifact(l).pc = "select"
    BY DEF NextArtifact, Idle
  <2> QED
    BY <1>3, <2>1, <2>2 DEF LockTellsOn
<1> QED
  BY <1>1, <1>2, <1>3

\* The finally around a phase turns to the lock first.
LEMMA FinallyTellsLocks ==
  ASSUME NEW l \in Run
  PROVE  LockTellsOn(l, Finally(l))
<1>1. CASE l.locked
  <2> DEFINE m == [l EXCEPT !.pc = "unlock"]
  <2>1. Finally(l) = m
    BY <1>1 DEF Finally
  <2>2. /\ m.error = l.error /\ m.leased = l.leased /\ m.locked = l.locked
        /\ m.pc = "unlock"
    BY DEF Run
  <2> HIDE DEF m
  <2> QED
    BY <2>1, <2>2 DEF LockTellsOn
<1>2. CASE ~l.locked
  BY <1>2, AfterFinallyTells DEF Finally
<1> QED
  BY <1>1, <1>2

\* An exception leaves a run that can no longer report success.
LEMMA ThrowUnsuccessful ==
  ASSUME NEW l \in Run, NEW e \in {"failed", "uncertain"}, l.pc # "idle",
         l.pc \in {"rollback", "conclude"} => l.error # "none"
  PROVE  \/ Throw(l, e).pc # "idle" /\ Throw(l, e).error # "none"
         \/ Throw(l, e).pc = "idle" /\ Throw(l, e).result = "unclosed"
<1> DEFINE failed == [l EXCEPT !.error = e]
           t == Throw(l, e)
<1> SUFFICES \/ t.pc # "idle" /\ t.error # "none"
             \/ t.pc = "idle" /\ t.result = "unclosed"
  OBVIOUS
<1>1. failed \in Run /\ failed.error = e /\ e # "none"
  BY DEF Run
<1> HIDE DEF failed, t
<1>2. \A pc : /\ [failed EXCEPT !.pc = pc].pc = pc
              /\ [failed EXCEPT !.pc = pc].error = e
  BY <1>1 DEF Run
<1>3. CASE l.pc \in {"lease", "read", "select", "create", "start", "rollback"}
              \cup ReconcileStep
  <2>1. CASE l.pc = "lease"
    <3>1. t = [failed EXCEPT !.pc = "close"]
      BY <2>1 DEF Throw, ReconcileStep, failed, t
    <3> QED
      BY <1>1, <1>2, <3>1
  <2>2. CASE l.pc = "rollback"
    <3>1. t = [failed EXCEPT !.pc = "conclude"]
      BY <2>2 DEF Throw, ReconcileStep, failed, t
    <3> QED
      BY <1>1, <1>2, <3>1
  <2>3. CASE l.pc \in {"read", "select", "create", "start"} \cup ReconcileStep
    <3>1. t = [failed EXCEPT !.pc = "release"]
      BY <2>3 DEF Throw, ReconcileStep, failed, t
    <3> QED
      BY <1>1, <1>2, <3>1
  <2> QED
    BY <1>3, <2>1, <2>2, <2>3
<1>4. CASE l.pc \in {"lock", "begin", "unlock"}
  <2>1. t = Catch(failed)
    BY <1>1, <1>4 DEF Throw, ReconcileStep, AfterFinally, failed, t
  <2>2. \E pc \in {"rollback", "conclude"} : t = [failed EXCEPT !.pc = pc]
    BY <2>1 DEF Catch
  <2> QED
    BY <1>1, <1>2, <2>2
<1>5. CASE l.pc \in InPhase
  <2> DEFINE f == IF l.pc = "commit" THEN [failed EXCEPT !.active = FALSE] ELSE failed
  <2>1. t = Finally(f)
    BY <1>5 DEF Throw, ReconcileStep, InPhase, failed, t
  <2>2. f \in Run /\ f.error = e
    <3>1. /\ [failed EXCEPT !.active = FALSE] \in Run
          /\ [failed EXCEPT !.active = FALSE].error = e
      BY <1>1 DEF Run
    <3> QED
      BY <1>1, <3>1
  <2> HIDE DEF f
  <2>3. LockTellsOn(f, t)
    BY <2>1, <2>2, FinallyTellsLocks
  <2> QED
    BY <1>1, <2>2, <2>3 DEF LockTellsOn
<1>6. CASE l.pc = "conclude"
  <2>1. t = [l EXCEPT !.pc = "release"]
    BY <1>6 DEF Throw, ReconcileStep, t
  <2> QED
    BY <1>6, <2>1 DEF Run
<1>7. CASE l.pc = "release"
  <2>1. t = [l EXCEPT !.pc = "close", !.error = IF @ = "none" THEN e ELSE @]
    BY <1>7 DEF Throw, ReconcileStep, t
  <2> QED
    BY <1>1, <1>7, <2>1 DEF Run
<1>8. CASE l.pc = "close"
  BY <1>8, ThrowClosing DEF Idle, t
<1> QED
  BY <1>3, <1>4, <1>5, <1>6, <1>7, <1>8 DEF Run, Step, ExecutorStep, InPhase

(* What carries it from one state to the next. *)

\* A step of one process.
LEMMA LocksStep ==
  ASSUME Sound, LocksTold, NEW p \in Proc, Others(p),
         advisory' \in {advisory, Null, p}, ddl' \in {ddl, Null, p},
         LeaseKind # "advisory" => advisory' \in {advisory, Null},
         \A q \in Proc \ {p} : q \in online => q \in online',
         p \in {advisory', ddl'} => p \in online',
         LockTold(run'[p], advisory' = p, ddl' = p)
  PROVE  LocksTold'
<1>0. LeaseKind # "advisory" => advisory' = Null
  BY DEF LocksTold
<1> SUFFICES ASSUME NEW q \in Proc
             PROVE  /\ q \in {advisory', ddl'} => q \in online'
                    /\ LockTold(run'[q], advisory' = q, ddl' = q)
  BY <1>0 DEF LocksTold
<1>1. CASE q = p
  BY <1>1
<1>2. CASE q # p
  <2>1. /\ run'[q] = run[q] /\ (q \in online => q \in online')
        /\ advisory' = q => advisory = q
        /\ ddl' = q => ddl = q
    BY <1>2, ExecutorAssumption DEF Others
  <2>2. q \in {advisory, ddl} => q \in online
    BY DEF LocksTold
  <2>3. LockTold(run[q], advisory = q, ddl = q)
    BY DEF LocksTold
  <2> QED
    BY <2>1, <2>2, <2>3 DEF LockTold
<1> QED
  BY <1>1, <1>2

\* A run that keeps its locks, or throws.
LEMMA KeepingLocks ==
  ASSUME Sound, LocksTold, NEW p \in Proc, run[p].pc # "idle", Others(p),
         UNCHANGED <<advisory, ddl, online>>,
         \/ LockTellsOn(run[p], run'[p])
         \/ \E e \in {"failed", "uncertain"} : run'[p] = Throw(run[p], e)
  PROVE  LocksTold'
<1>1. /\ run[p] \in Run /\ LockTold(run[p], advisory = p, ddl = p)
      /\ p \in {advisory, ddl} => p \in online
  BY DEF Sound, TypeOK, LocksTold
<1>2. CASE LockTellsOn(run[p], run'[p])
  <2>1. LockTold(run'[p], advisory = p, ddl = p)
    BY <1>1, <1>2, LockToldOn
  <2> QED
    BY <1>1, <2>1, LocksStep
<1>3. CASE \E e \in {"failed", "uncertain"} : run'[p] = Throw(run[p], e)
  <2>1. \/ run'[p].pc # "idle" /\ run'[p].error # "none"
        \/ run'[p].pc = "idle" /\ run'[p].result = "unclosed"
    BY <1>1, <1>3, ThrowUnsuccessful DEF LockTold
  <2>2. LockTold(run'[p], advisory = p, ddl = p)
    BY <2>1 DEF LockTold
  <2> QED
    BY <1>1, <2>2, LocksStep
<1> QED
  BY <1>2, <1>3

\* A call that returns or loses its answer, a run that goes on by itself, a run
\* that throws by itself, and a transition.
LEMMA AnsweringLocks ==
  ASSUME Sound, LocksTold, NEW p \in Proc, run[p].pc # "idle", NEW m,
         LockTellsOn(run[p], m),
         \/ Answer(p, m) /\ UNCHANGED <<advisory, ddl, online>>
         \/ Proceed(p, m)
         \/ Reject(p, "failed")
         \/ \E state : Transition(p, state, m)
  PROVE  LocksTold'
<1>1. \/ Answer(p, m) /\ UNCHANGED <<advisory, ddl, online>>
      \/ Proceed(p, m)
      \/ Proceed(p, Throw(run[p], "failed"))
  BY DEF Transition, Reject
<1>2. /\ Others(p) /\ UNCHANGED <<advisory, ddl, online>>
      /\ run'[p] = m \/ \E e \in {"failed", "uncertain"} : run'[p] = Throw(run[p], e)
  BY <1>1 DEF Answer, Proceed, Unanswered, Others, Sound, TypeOK
<1> QED
  BY <1>2, KeepingLocks

\* The awaits that keep the locks as they are.
LEMMA AwaitLocks ==
  ASSUME Sound, LocksTold, NEW p \in Proc,
         \/ ReadJournal(p) \/ SelectArtifact(p) \/ CreateAttemptRow(p)
         \/ CheckPreconditions(p) \/ ExecuteStatement(p) \/ CheckpointStatement(p)
         \/ RecordApplied(p) \/ VerifyOutcome(p) \/ RequireRecovery(p)
         \/ ReconcileHistory(p) \/ RecordOutcome(p) \/ ResolveAttempt(p)
         \/ ConcludeAttempt(p)
  PROVE  LocksTold'
<1> DEFINE l == run[p]
           Goes(m) == \/ Answer(p, m) /\ UNCHANGED <<advisory, ddl, online>>
                      \/ Proceed(p, m)
                      \/ Reject(p, "failed")
                      \/ \E state : Transition(p, state, m)
           Same(m) == /\ m.error = l.error /\ m.leased = l.leased /\ m.locked = l.locked
                      /\ m.pc \notin {"idle", "close", "rollback", "conclude"}
                      /\ \/ l.pc \notin {"begin", "unlock"} \cup InPhase
                         \/ m.pc \in {"begin", "unlock"} \cup InPhase
<1>1. l \in Run /\ LockTold(l, advisory = p, ddl = p)
  BY DEF Sound, TypeOK, LocksTold
<1>2. \A pc : LET m == [l EXCEPT !.pc = pc]
              IN  /\ m.pc = pc /\ m.error = l.error
                  /\ m.leased = l.leased /\ m.locked = l.locked
  BY <1>1 DEF Run
<1>3. CASE ReadJournal(p)
  <2> DEFINE j == JournalOf(p)
             m == [l EXCEPT !.pc = "select", !.n = Len(j.applied) + 1, !.head = j.head]
  <2>1. l.pc = "read" /\ Goes(m)
    BY <1>3 DEF ReadJournal, At
  <2>2. Same(m)
    BY <1>1, <2>1 DEF Run, InPhase
  <2> HIDE DEF m
  <2> QED
    BY <1>1, <2>1, <2>2, AwaitTells, AnsweringLocks
<1>4. CASE SelectArtifact(p)
  <2>1. /\ l.pc = "select"
        /\ \/ Goes([l EXCEPT !.pc = "release"])
           \/ Goes([l EXCEPT !.pc = "create"])
    BY <1>4 DEF SelectArtifact, At
  <2>2. Same([l EXCEPT !.pc = "release"]) /\ Same([l EXCEPT !.pc = "create"])
    BY <1>2, <2>1 DEF InPhase
  <2> QED
    BY <1>1, <2>1, <2>2, AwaitTells, AnsweringLocks
<1>5. CASE CreateAttemptRow(p)
  <2>1. PICK k \in AttemptId : Goes([l EXCEPT !.pc = "start", !.attempt = k])
    BY <1>5 DEF CreateAttemptRow
  <2> DEFINE m == [l EXCEPT !.pc = "start", !.attempt = k]
  <2>2. l.pc = "create"
    BY <1>5 DEF CreateAttemptRow, At
  <2>3. Same(m)
    BY <1>1, <2>2 DEF Run, InPhase
  <2> HIDE DEF m
  <2> QED
    BY <1>1, <2>1, <2>2, <2>3, AwaitTells, AnsweringLocks DEF m
<1>6. CASE CheckPreconditions(p) \/ CheckpointStatement(p)
  <2> DEFINE t == IF l.pc = "check" THEN l ELSE [l EXCEPT !.st = @ + 1]
             m == AfterStatements(t)
  <2>1. l.pc \in {"check", "mark"} /\ Goes(m)
    BY <1>6 DEF CheckPreconditions, CheckpointStatement, At
  <2>2. t.error = l.error /\ t.leased = l.leased /\ t.locked = l.locked /\ t \in Run
    BY <1>1 DEF Run
  <2> HIDE DEF t
  <2>3. /\ m.error = t.error /\ m.leased = t.leased /\ m.locked = t.locked
        /\ m.pc \in {"postcheck", "execute"}
    BY <2>2 DEF AfterStatements, Run
  <2> HIDE DEF m
  <2>4. Same(m)
    BY <2>2, <2>3 DEF InPhase
  <2> QED
    BY <1>1, <2>1, <2>4, AwaitTells, AnsweringLocks
<1>7. CASE ExecuteStatement(p)
  <2> DEFINE m == [l EXCEPT !.effect = TRUE, !.pc = "mark"]
  <2>1. l.pc = "execute" /\ Goes(m)
    BY <1>7 DEF ExecuteStatement, At
  <2>2. Same(m)
    BY <1>1, <2>1 DEF Run, InPhase
  <2> HIDE DEF m
  <2> QED
    BY <1>1, <2>1, <2>2, AwaitTells, AnsweringLocks
<1>8. CASE RecordApplied(p)
  <2>1. l.pc = "record" /\ Goes([l EXCEPT !.pc = "applied"])
    BY <1>8 DEF RecordApplied, At
  <2>2. Same([l EXCEPT !.pc = "applied"])
    BY <1>2, <2>1 DEF InPhase
  <2> QED
    BY <1>1, <2>1, <2>2, AwaitTells, AnsweringLocks
<1>9. CASE \/ VerifyOutcome(p) \/ RequireRecovery(p) \/ ReconcileHistory(p)
           \/ RecordOutcome(p) \/ ResolveAttempt(p) \/ ConcludeAttempt(p)
  <2>1. l.pc \in {"conclude"} \cup ReconcileStep
    BY <1>9 DEF VerifyOutcome, RequireRecovery, ReconcileHistory, RecordOutcome,
                ResolveAttempt, ConcludeAttempt, At, ReconcileStep
  <2>2. \E pc \in {"require", "history", "audit", "resolve", "release"} :
          Goes([l EXCEPT !.pc = pc])
    BY <1>9 DEF VerifyOutcome, RequireRecovery, ReconcileHistory, RecordOutcome,
                ResolveAttempt, ConcludeAttempt
  <2>3. \A pc \in {"require", "history", "audit", "resolve", "release"} :
          Same([l EXCEPT !.pc = pc])
    BY <1>2, <2>1 DEF InPhase, ReconcileStep
  <2>4. l.pc # "idle"
    BY <2>1 DEF ReconcileStep
  <2> QED
    BY <1>1, <2>2, <2>3, <2>4, AwaitTells, AnsweringLocks
<1> QED
  BY <1>3, <1>4, <1>5, <1>6, <1>7, <1>8, <1>9

\* The ends of a phase and of a transaction.
LEMMA PhaseLocks ==
  ASSUME Sound, LocksTold, NEW p \in Proc,
         \/ MarkRunning(p) \/ BeginTransaction(p) \/ CheckPostconditions(p)
         \/ MarkApplied(p) \/ Commit(p) \/ Rollback(p) \/ CommitRefused(p)
  PROVE  LocksTold'
<1> DEFINE l == run[p]
           Goes(m) == \/ Answer(p, m) /\ UNCHANGED <<advisory, ddl, online>>
                      \/ Proceed(p, m)
                      \/ Reject(p, "failed")
                      \/ \E state : Transition(p, state, m)
<1>1. l \in Run /\ LockTold(l, advisory = p, ddl = p)
  BY DEF Sound, TypeOK, LocksTold
<1>2. CASE MarkRunning(p)
  <2> DEFINE t == [l EXCEPT !.ph = 1, !.st = 1]
  <2>1. l.pc = "start" /\ Goes(EnterPhase(t))
    BY <1>2 DEF MarkRunning, At
  <2>2. t \in Run /\ t.error = l.error /\ t.leased = l.leased /\ t.locked = l.locked
    BY <1>1 DEF Run
  <2>3. l.error = "none" => ~l.locked
    BY <1>1, <2>1 DEF LockTold, InPhase
  <2> HIDE DEF t
  <2>4. LockTellsOn(t, EnterPhase(t))
    BY <2>2, <2>3, EnterPhaseTells
  <2>5. LockTellsOn(l, EnterPhase(t))
    BY <2>2, <2>4 DEF LockTellsOn
  <2> QED
    BY <2>1, <2>5, AnsweringLocks
<1>3. CASE BeginTransaction(p)
  <2> DEFINE m == [l EXCEPT !.active = TRUE, !.pc = "check"]
  <2>1. /\ l.pc = "begin" /\ run' = [run EXCEPT ![p] = m]
        /\ UNCHANGED <<advisory, ddl, online>>
    BY <1>3 DEF BeginTransaction, At
  <2>2. /\ m.error = l.error /\ m.leased = l.leased /\ m.locked = l.locked
        /\ m.pc = "check"
    BY <1>1 DEF Run
  <2> HIDE DEF m
  <2>3. LockTellsOn(l, m)
    BY <1>1, <2>1, <2>2, AwaitTells DEF InPhase
  <2>4. Others(p) /\ run'[p] = m
    BY <2>1 DEF Others, Sound, TypeOK
  <2> QED
    BY <2>1, <2>3, <2>4, KeepingLocks
<1>4. CASE CheckPostconditions(p)
  <2>1. /\ l.pc = "postcheck"
        /\ \/ Goes([l EXCEPT !.pc = "record"])
           \/ Goes([l EXCEPT !.pc = "commit"])
           \/ Goes(Finally(l))
    BY <1>4 DEF CheckPostconditions, At
  <2>2. \A pc \in {"record", "commit"} : LockTellsOn(l, [l EXCEPT !.pc = pc])
    BY <1>1 DEF LockTellsOn, Run, InPhase
  <2> QED
    BY <1>1, <2>1, <2>2, FinallyTellsLocks, AnsweringLocks
<1>5. CASE MarkApplied(p)
  <2>1. /\ l.pc = "applied"
        /\ Goes([l EXCEPT !.pc = "commit"]) \/ Goes(Finally(l))
    BY <1>5 DEF MarkApplied, At
  <2>2. LockTellsOn(l, [l EXCEPT !.pc = "commit"])
    BY <1>1 DEF LockTellsOn, Run, InPhase
  <2> QED
    BY <1>1, <2>1, <2>2, FinallyTellsLocks, AnsweringLocks
<1>6. CASE Commit(p)
  <2> DEFINE t == [l EXCEPT !.active = FALSE, !.committed = TRUE]
  <2>1. l.pc = "commit" /\ Goes(Finally(t))
    BY <1>6 DEF Commit, At
  <2>2. t \in Run /\ t.error = l.error /\ t.leased = l.leased /\ t.locked = l.locked
    BY <1>1 DEF Run
  <2> HIDE DEF t
  <2>3. LockTellsOn(l, Finally(t))
    BY <2>2, FinallyTellsLocks DEF LockTellsOn
  <2> QED
    BY <2>1, <2>3, AnsweringLocks
<1>7. CASE Rollback(p)
  <2> DEFINE m == [l EXCEPT !.active = FALSE, !.rolledBack = TRUE, !.pc = "conclude"]
  <2>1. l.pc = "rollback" /\ Goes(m)
    BY <1>7 DEF Rollback, At
  <2>2. m.error = l.error /\ m.leased = l.leased /\ m.locked = l.locked /\ m.pc = "conclude"
    BY <1>1 DEF Run
  <2> HIDE DEF m
  <2>3. LockTellsOn(l, m)
    BY <1>1, <2>1, <2>2 DEF LockTold, LockTellsOn
  <2> QED
    BY <2>1, <2>3, AnsweringLocks
<1>8. CASE CommitRefused(p)
  <2>1. /\ l.pc # "idle" /\ UNCHANGED <<advisory, ddl, online>>
        /\ Others(p) /\ run'[p] = Throw(l, "uncertain")
    BY <1>8 DEF CommitRefused, At, Others, Sound, TypeOK
  <2> QED
    BY <2>1, KeepingLocks
<1> QED
  BY <1>2, <1>3, <1>4, <1>5, <1>6, <1>7, <1>8

\* The steps that take a lock or give it back.
LEMMA TakingLocks ==
  ASSUME Sound, LocksTold, NEW p \in Proc,
         \/ AcquireLease(p) \/ ReleaseLease(p) \/ AcquireDdlLock(p) \/ ReleaseDdlLock(p)
  PROVE  LocksTold'
<1> DEFINE l == run[p]
           Tells(m) == LockTold(m, advisory' = p, ddl' = p)
<1>1. /\ l \in Run /\ LockTold(l, advisory = p, ddl = p) /\ p \in online
      /\ online' = online /\ l.pc \in {"lease", "release", "lock", "unlock"}
      /\ advisory' \in {advisory, Null, p} /\ ddl' \in {ddl, Null, p}
      /\ LeaseKind # "advisory" => advisory' = advisory
  BY DEF AcquireLease, ReleaseLease, AcquireDdlLock, ReleaseDdlLock, At, Sound, TypeOK,
         LocksTold
<1>2. ASSUME NEW m, Answer(p, m), Tells(m)
      PROVE  LocksTold'
  <2>1. Others(p) /\ (run'[p] = m \/ run'[p] = Throw(l, "failed"))
    BY <1>1, <1>2 DEF Answer, Unanswered, Others, Sound, TypeOK
  <2>2. Tells(Throw(l, "failed"))
    <3>1. \/ Throw(l, "failed").pc # "idle" /\ Throw(l, "failed").error # "none"
          \/ Throw(l, "failed").pc = "idle" /\ Throw(l, "failed").result = "unclosed"
      BY <1>1, ThrowUnsuccessful
    <3> QED
      BY <3>1 DEF LockTold
  <2> QED
    BY <1>1, <1>2, <2>1, <2>2, LocksStep
<1>3. CASE AcquireLease(p)
  <2> DEFINE m == [l EXCEPT !.leased = TRUE,
                     !.pc = IF l.role = "apply" THEN "read" ELSE "verify"]
  <2>1. l.pc = "lease" /\ Answer(p, m) /\ ddl' = ddl
    BY <1>3 DEF AcquireLease, At
  <2>2. /\ m.error = l.error /\ m.leased /\ m.locked = l.locked
        /\ m.pc \in {"read", "verify"}
    BY <1>1 DEF Run
  <2> HIDE DEF m
  <2>3. Tells(m)
    BY <1>1, <2>1, <2>2 DEF LockTold, InPhase
  <2> QED
    BY <1>2, <2>1, <2>3
<1>4. CASE ReleaseLease(p)
  <2> DEFINE m == [l EXCEPT !.leased = FALSE, !.pc = "close"]
  <2>1. l.pc = "release" /\ Answer(p, m) /\ ddl' = ddl
    BY <1>4 DEF ReleaseLease, At
  <2>2. m.error = l.error /\ ~m.leased /\ m.locked = l.locked /\ m.pc = "close"
    BY <1>1 DEF Run
  <2> HIDE DEF m
  <2>3. advisory' # p
    BY <1>4, ExecutorAssumption DEF ReleaseLease, LocksTold
  <2>4. Tells(m)
    BY <1>1, <2>1, <2>2, <2>3 DEF LockTold, InPhase
  <2> QED
    BY <1>2, <2>1, <2>4
<1>5. CASE AcquireDdlLock(p)
  <2> DEFINE m == [l EXCEPT !.locked = TRUE,
                     !.pc = IF UseTransaction(PhaseOf(l)) THEN "begin" ELSE "check"]
  <2>1. l.pc = "lock" /\ Answer(p, m) /\ advisory' = advisory
    BY <1>5 DEF AcquireDdlLock, At
  <2>2. /\ m.error = l.error /\ m.leased = l.leased /\ m.locked
        /\ m.pc \in {"begin", "check"}
    BY <1>1 DEF Run
  <2> HIDE DEF m
  <2>3. Tells(m)
    BY <1>1, <2>1, <2>2 DEF LockTold, InPhase
  <2> QED
    BY <1>2, <2>1, <2>3
<1>6. CASE ReleaseDdlLock(p)
  <2> DEFINE t == [l EXCEPT !.locked = FALSE]
             m == AfterFinally(t)
  <2>1. l.pc = "unlock" /\ Answer(p, m) /\ advisory' = advisory /\ ddl' # p
    BY <1>6, ExecutorAssumption DEF ReleaseDdlLock, At
  <2>2. /\ t \in Run /\ t.error = l.error /\ t.leased = l.leased /\ ~t.locked
        /\ t.pc = l.pc
    BY <1>1 DEF Run
  <2> HIDE DEF t
  <2>3. LockTellsOn(t, m)
    BY <2>2, AfterFinallyTells
  <2>4. LockTold(t, advisory' = p, FALSE)
    BY <1>1, <2>1, <2>2 DEF LockTold
  <2>5. LockTold(m, advisory' = p, FALSE)
    BY <2>1, <2>2, <2>3, <2>4, LockToldOn
  <2>6. Tells(m)
    BY <2>1, <2>5 DEF LockTold
  <2> QED
    BY <1>2, <2>1, <2>6
<1> QED
  BY <1>3, <1>4, <1>5, <1>6

\* A run that starts has a client to itself; one that throws, is closed or dies
\* without an error has given its locks back.
LEMMA EndingLocks ==
  ASSUME Sound, LocksTold, NEW p \in Proc,
         \/ StartApply(p) \/ StartReconcile(p) \/ CloseSession(p) \/ CallDisconnected(p)
         \/ Fail(p) \/ LoseConnection(p) \/ Crash(p) \/ EndClient(p)
  PROVE  LocksTold'
<1> DEFINE l == run[p]
<1>1. /\ l \in Run /\ LockTold(l, advisory = p, ddl = p)
      /\ p \in {advisory, ddl} => p \in online
  BY DEF Sound, TypeOK, LocksTold
<1>2. CASE StartApply(p)
  <2>1. PICK repo \in Repositories :
          LET opened == [Idle EXCEPT !.role = "apply", !.repo = repo]
          IN  /\ p \notin online
              /\ \/ /\ online' = online \cup {p}
                    /\ run' = [run EXCEPT ![p] = [opened EXCEPT !.pc = "lease"]]
                 \/ /\ online' = online \cup {p}
                    /\ run' = [run EXCEPT ![p] =
                         [opened EXCEPT !.pc = "close", !.error = "failed"]]
                 \/ /\ online' = online
                    /\ run' = [run EXCEPT ![p] = [Idle EXCEPT !.result = "failed"]]
    BY <1>2 DEF StartApply
  <2> DEFINE opened == [Idle EXCEPT !.role = "apply", !.repo = repo]
  <2>2. /\ advisory' = advisory /\ ddl' = ddl /\ p \notin {advisory, ddl}
        /\ Others(p) /\ online \subseteq online'
    <3>1. advisory' = advisory /\ ddl' = ddl
      BY <1>2 DEF StartApply
    <3> HIDE DEF opened
    <3> QED
      BY <1>1, <2>1, <3>1 DEF Others, Sound, TypeOK
  <2>3. \/ run'[p].pc = "lease" /\ ~run'[p].locked
        \/ run'[p].pc = "close" /\ run'[p].error = "failed"
        \/ run'[p].pc = "idle" /\ run'[p].result = "failed"
    <3>1. \/ run'[p] = [opened EXCEPT !.pc = "lease"]
          \/ run'[p] = [opened EXCEPT !.pc = "close", !.error = "failed"]
          \/ run'[p] = [Idle EXCEPT !.result = "failed"]
      <4> HIDE DEF opened
      <4> QED
        BY <2>1 DEF Sound, TypeOK, opened
    <3>2. /\ [opened EXCEPT !.pc = "lease"].pc = "lease"
          /\ ~[opened EXCEPT !.pc = "lease"].locked
          /\ [opened EXCEPT !.pc = "close", !.error = "failed"].pc = "close"
          /\ [opened EXCEPT !.pc = "close", !.error = "failed"].error = "failed"
      BY DEF Idle
    <3>3. /\ [Idle EXCEPT !.result = "failed"].pc = "idle"
          /\ [Idle EXCEPT !.result = "failed"].result = "failed"
      BY DEF Idle
    <3> HIDE DEF opened
    <3> QED
      BY <3>1, <3>2, <3>3
  <2>4. LockTold(run'[p], FALSE, FALSE)
    BY <2>3 DEF LockTold
  <2>5. LockTold(run'[p], advisory' = p, ddl' = p)
    BY <2>2, <2>4 DEF LockTold
  <2> QED
    BY <2>2, <2>5, LocksStep
<1>3. CASE StartReconcile(p)
  <2>1. PICK repo \in Repositories, k \in AttemptId, outcome \in Terminal :
          run' = [run EXCEPT ![p] =
            [Idle EXCEPT !.pc = "lease", !.role = "reconcile", !.repo = repo,
                         !.attempt = k, !.outcome = outcome]]
    BY <1>3 DEF StartReconcile
  <2>2. /\ advisory' = advisory /\ ddl' = ddl /\ p \notin {advisory, ddl}
        /\ Others(p) /\ online \subseteq online'
    BY <1>1, <1>3, <2>1 DEF StartReconcile, Others, Sound, TypeOK
  <2>3. run'[p].pc = "lease" /\ ~run'[p].locked
    BY <2>1 DEF Idle, Sound, TypeOK
  <2>4. LockTold(run'[p], advisory' = p, ddl' = p)
    BY <2>2, <2>3 DEF LockTold
  <2> QED
    BY <2>2, <2>4, LocksStep
<1>4. CASE CloseSession(p)
  <2>1. /\ l.pc = "close" /\ p \in online
        /\ advisory' = LeaseAfterClose(p) /\ ddl' = LockAfterClose(p)
        /\ online' = (IF p \in {advisory', ddl'} THEN online ELSE online \ {p})
        /\ run' = [run EXCEPT ![p] =
             [Idle EXCEPT !.result = IF l.error = "none" THEN "success" ELSE "failed"]]
    BY <1>4 DEF CloseSession, CloseLeaves, Closed, At
  <2>2. l.error = "none" => p \notin {advisory, ddl}
    BY <1>1, <2>1 DEF LockTold, InPhase
  <2>3. /\ Others(p) /\ run'[p].pc = "idle"
        /\ run'[p].result = "success" => l.error = "none"
    BY <2>1 DEF Others, Idle, Sound, TypeOK
  <2>4. advisory' \in {advisory, Null} /\ ddl' \in {ddl, Null} /\ p # Null
    BY <2>1, ExecutorAssumption DEF LeaseAfterClose, LockAfterClose
  <2>5. LockTold(run'[p], advisory' = p, ddl' = p)
    BY <2>2, <2>3, <2>4 DEF LockTold
  <2> QED
    BY <2>1, <2>3, <2>4, <2>5, LocksStep
<1>5. CASE Fail(p) \/ CallDisconnected(p)
  <2>1. PICK e \in {"failed", "uncertain"} : run' = [run EXCEPT ![p] = Throw(l, e)]
    BY <1>5 DEF Fail, CallDisconnected, ErrorKinds, Unanswered
  <2>2. l.pc # "idle" /\ UNCHANGED <<advisory, ddl, online>>
    BY <1>5 DEF Fail, CallDisconnected
  <2>3. Others(p) /\ run'[p] = Throw(l, e)
    BY <2>1 DEF Others, Sound, TypeOK
  <2> QED
    BY <2>2, <2>3, KeepingLocks
<1>6. CASE LoseConnection(p) \/ Crash(p) \/ EndClient(p)
  <2>1. EndSession(p)
    BY <1>6 DEF LoseConnection, Crash, EndClient
  <2>2. /\ advisory' \in {advisory, Null} /\ ddl' \in {ddl, Null}
        /\ p \notin {advisory', ddl'} /\ online' = online \ {p}
    BY <2>1, ExecutorAssumption DEF EndSession
  <2>3. Others(p) /\ (run'[p] = l \/ run'[p] = [Idle EXCEPT !.result = "crashed"])
    BY <1>6 DEF LoseConnection, Crash, EndClient, Others, Sound, TypeOK
  <2>4. LockTold(run'[p], FALSE, FALSE)
    <3>1. CASE run'[p] = l
      BY <1>1, <3>1 DEF LockTold
    <3>2. CASE run'[p] = [Idle EXCEPT !.result = "crashed"]
      BY <3>2 DEF LockTold, Idle
    <3> QED
      BY <2>3, <3>1, <3>2
  <2>5. LockTold(run'[p], advisory' = p, ddl' = p)
    BY <2>2, <2>4 DEF LockTold
  <2> QED
    BY <2>2, <2>3, <2>5, LocksStep
<1> QED
  BY <1>2, <1>3, <1>4, <1>5, <1>6

\* Every step keeps it.
LEMMA NextLocks ==
  ASSUME Sound, LocksTold, [Next]_vars
  PROVE  LocksTold'
<1>1. ASSUME NEW p \in Proc, Continue(p)
      PROVE  LocksTold'
  BY <1>1, AwaitLocks, PhaseLocks, TakingLocks, EndingLocks DEF Continue
<1>2. ASSUME NEW p \in Proc,
             \/ StartApply(p) \/ StartReconcile(p) \/ CommitRefused(p) \/ Fail(p)
             \/ LoseConnection(p) \/ Crash(p) \/ EndClient(p)
      PROVE  LocksTold'
  BY <1>2, PhaseLocks, EndingLocks
<1>3. CASE Repair \/ ClearLeaseRow \/ UNCHANGED vars
  <2>1. UNCHANGED <<advisory, ddl, online, run>>
    BY <1>3 DEF Repair, ClearLeaseRow, vars
  <2> QED
    BY <2>1 DEF LocksTold
<1> QED
  BY <1>1, <1>2, <1>3 DEF Next

\* SuccessLeavesNoLock: a run that reports success has given back the lease and
\* the DDL lock, although its client stays connected and some of its answers
\* were lost.
THEOREM SuccessUnlocks == Spec => []SuccessLeavesNoLock
<1>1. Init => LocksTold
  BY ExecutorAssumption DEF Init, LocksTold, LockTold, Idle
<1>2. Sound /\ LocksTold /\ [Next]_vars => LocksTold'
  BY NextLocks
<1>3. LocksTold => SuccessLeavesNoLock
  BY DEF LocksTold, LockTold, SuccessLeavesNoLock
<1> QED
  BY <1>1, <1>2, <1>3, SoundAlways, PTL DEF Spec
=============================================================================
