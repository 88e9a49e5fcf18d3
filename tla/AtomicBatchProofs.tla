-------------------------- MODULE AtomicBatchProofs --------------------------
(***************************************************************************)
(* Theorems of AtomicBatch, for every set of processes, artifacts,         *)
(* programs, repositories and attempts, and any number of faults.          *)
(*                                                                         *)
(* Most steps of a batch session are steps of the executor, whose lemmas   *)
(* carry over; the others are looked at one by one.  What is new is the    *)
(* batch that is on its way while its sender has gone on or is dead: each  *)
(* sender has one at most, it is past the run that could send another, and *)
(* what the batch asserts keeps it from landing under another's lease.     *)
(* That is BatchInv, the first half.                                       *)
(*                                                                         *)
(* The second half is about the schema.  Faithful says what a run under    *)
(* the lease has read, what each batch on its way will find, and that an   *)
(* artifact whose attempts were all rolled back is absent; so a definite   *)
(* error tells the truth, and a batch lands on the schema it was made for. *)
(***************************************************************************)
EXTENDS AtomicBatch, MigrationRollbackProofs

-----------------------------------------------------------------------------
(* The local variables of a run on an atomic-batch session. *)

BatchStep ==
  {"idle", "lease", "read", "select", "create", "start", "begin", "execute",
   "conclude", "release", "close"} \cup ReconcileStep

\* The awaits of a run that applies artifacts, from the first on.
Planning == {"select", "create", "start", "begin", "execute"}

\* A repository that batches can carry.
Carried(repo) == ValidateBatch(repo) /\ VerifyArtifactChain(repo)

\* Nothing is open or locked, the repository can be carried, and the head a run
\* expects is the artifact before the one it is at.
BatchRun(l) ==
  /\ l.pc \in BatchStep
  /\ ~l.active /\ ~l.locked
  /\ l.pc \in ExecutorStep \/ (l.pc = "lease" /\ l.role = "apply") => Carried(l.repo)
  /\ l.pc \in Planning => l.head = IF l.n = 1 THEN Null ELSE l.repo[l.n - 1]

\* A session never has a transaction, and no process has a second session.
SessionOK(p) ==
  /\ BatchRun(run[p])
  /\ txn[p] = NoTxn
  /\ run[p].pc # "idle" => p \in online /\ p \in used

Sessions == \A p \in Proc : SessionOK(p)

\* The batch that the run of p sends, prepared on the schema it found.
BatchOf(p, l) ==
  [by |-> p, artifact |-> ArtifactOf(l), attempt |-> l.attempt, head |-> l.head,
   catalog |-> Before(l.repo, l.n)]

\* The awaits of a sender whose batch has not arrived.
Aloft == {"execute", "conclude", "release", "close", "idle"}

FlightOK(b) ==
  /\ b.by \in used
  /\ run[b.by].pc \in Aloft
  /\ run[b.by].pc = "execute" => b = BatchOf(b.by, run[b.by])
  /\ Parent[b.artifact] = b.head

Flights == \A b \in flight : FlightOK(b)

BatchOK ==
  /\ flight \subseteq Batch /\ used \subseteq Proc
  /\ Sessions
  /\ Flights

\* An exception leads a run to the conclusion about its attempt, to the release
\* of its lease or to the end of its session.
LEMMA BatchThrow ==
  ASSUME NEW l \in Run, BatchRun(l), l.pc \notin {"idle", "close"},
         NEW e \in {"failed", "uncertain"}
  PROVE  /\ BatchRun(Throw(l, e))
         /\ Throw(l, e).repo = l.repo /\ Throw(l, e).n = l.n
         /\ Throw(l, e).attempt = l.attempt /\ Throw(l, e).outcome = l.outcome
         /\ Throw(l, e).pc = IF l.pc \in {"lease", "release"} THEN "close"
                             ELSE IF l.pc \in {"begin", "execute"} THEN "conclude"
                             ELSE "release"
         /\ l.pc \in {"begin", "execute"} => Throw(l, e).error = e
<1> DEFINE failed == [l EXCEPT !.error = e]
           m == Throw(l, e)
<1>1. /\ failed \in Run /\ failed.error = e /\ ~failed.active /\ ~failed.locked
      /\ failed.pc = l.pc /\ failed.role = l.role /\ failed.repo = l.repo
      /\ failed.n = l.n /\ failed.attempt = l.attempt /\ failed.outcome = l.outcome
  BY DEF BatchRun, Run
<1>2. \A pc : LET t == [failed EXCEPT !.pc = pc]
              IN  /\ t.pc = pc /\ t.error = e /\ ~t.active /\ ~t.locked
                  /\ t.role = l.role /\ t.repo = l.repo
                  /\ t.n = l.n /\ t.attempt = l.attempt /\ t.outcome = l.outcome
  BY <1>1 DEF Run
<1>3. l.pc \in BatchStep
  BY DEF BatchRun
<1> SUFFICES /\ BatchRun(m)
             /\ m.repo = l.repo /\ m.n = l.n /\ m.attempt = l.attempt
             /\ m.outcome = l.outcome
             /\ m.pc = IF l.pc \in {"lease", "release"} THEN "close"
                       ELSE IF l.pc \in {"begin", "execute"} THEN "conclude"
                       ELSE "release"
             /\ l.pc \in {"begin", "execute"} => m.error = e
  OBVIOUS
<1>4. CASE l.pc \in {"lease", "read", "select", "create", "start"} \cup ReconcileStep
  <2>1. m = [failed EXCEPT !.pc = IF l.pc = "lease" THEN "close" ELSE "release"]
    BY <1>4 DEF Throw, ReconcileStep
  <2> HIDE DEF m, failed
  <2> QED
    BY <1>2, <1>4, <2>1 DEF BatchRun, BatchStep, ExecutorStep, Planning, ReconcileStep
<1>5. CASE l.pc \in {"begin", "execute"}
  <2>1. m = [failed EXCEPT !.pc = "conclude"]
    BY <1>1, <1>5 DEF Throw, ReconcileStep, Catch, Finally, AfterFinally
  <2>2. Carried(l.repo)
    BY <1>5 DEF BatchRun, ExecutorStep
  <2> HIDE DEF m, failed
  <2> QED
    BY <1>2, <1>5, <2>1, <2>2 DEF BatchRun, BatchStep, Planning
<1>6. CASE l.pc = "conclude"
  <2>1. m = [l EXCEPT !.pc = "release"]
    BY <1>6 DEF Throw, ReconcileStep
  <2>2. /\ m.pc = "release" /\ ~m.active /\ ~m.locked /\ m.repo = l.repo
        /\ m.n = l.n /\ m.attempt = l.attempt /\ m.outcome = l.outcome
    BY <2>1 DEF BatchRun, Run
  <2> HIDE DEF m
  <2> QED
    BY <1>6, <2>2 DEF BatchRun, BatchStep, Planning, ExecutorStep
<1>7. CASE l.pc = "release"
  <2>1. m = [l EXCEPT !.pc = "close", !.error = IF @ = "none" THEN e ELSE @]
    BY <1>7 DEF Throw, ReconcileStep
  <2>2. /\ m.pc = "close" /\ ~m.active /\ ~m.locked /\ m.repo = l.repo
        /\ m.n = l.n /\ m.attempt = l.attempt /\ m.outcome = l.outcome
    BY <2>1 DEF BatchRun, Run
  <2> HIDE DEF m
  <2> QED
    BY <1>7, <2>2 DEF BatchRun, BatchStep, Planning, ExecutorStep
<1> QED
  BY <1>3, <1>4, <1>5, <1>6, <1>7 DEF BatchStep

-----------------------------------------------------------------------------
(* What carries the sessions and the batches on their way over a step. *)

\* A step of one process keeps the sessions of the others.
LEMMA SessionStep ==
  ASSUME Sessions, NEW p \in Proc, Others(p), BatchRun(run'[p]),
         txn'[p] = NoTxn,
         \A q \in Proc \ {p} : txn'[q] = txn[q] /\ (q \in online => q \in online'),
         used \subseteq used',
         run'[p].pc # "idle" => p \in online' /\ p \in used'
  PROVE  Sessions'
<1> SUFFICES ASSUME NEW q \in Proc PROVE SessionOK(q)'
  BY DEF Sessions
<1>1. CASE q = p
  BY <1>1 DEF SessionOK
<1>2. CASE q # p
  <2>1. run'[q] = run[q] /\ txn'[q] = txn[q] /\ (q \in online => q \in online')
    BY <1>2 DEF Others
  <2> QED
    BY <2>1 DEF Sessions, SessionOK
<1> QED
  BY <1>1, <1>2

\* A sender that has not sent yet has no batch on its way.
LEMMA NoneAloft ==
  ASSUME Flights, NEW p, run[p].pc \notin Aloft
  PROVE  \A b \in flight : b.by # p
BY DEF Flights, FlightOK

\* Batches keep their places while their senders go on to their ends.
LEMMA FlightStep ==
  ASSUME flight \subseteq Batch, Flights, NEW p \in Proc, Others(p),
         flight' \subseteq flight, used \subseteq used',
         \/ \A b \in flight' : b.by # p
         \/ run'[p].pc \in Aloft \ {"execute"}
  PROVE  Flights'
<1> SUFFICES ASSUME NEW b \in flight' PROVE FlightOK(b)'
  BY DEF Flights
<1>1. FlightOK(b) /\ b.by \in Proc
  BY DEF Flights, Batch
<1>2. CASE b.by = p
  BY <1>1, <1>2 DEF FlightOK
<1>3. CASE b.by # p
  <2>1. run'[b.by] = run[b.by]
    BY <1>1, <1>3 DEF Others
  <2> QED
    BY <1>1, <2>1 DEF FlightOK, BatchOf
<1> QED
  BY <1>2, <1>3

\* Where a run that fits its await may go next.
GoesOn(l, m) ==
  /\ m.role = l.role /\ m.repo = l.repo /\ m.active = l.active /\ m.locked = l.locked
  /\ m.error = l.error /\ m.result = l.result
  /\ \/ l.pc = "lease" /\ m.pc = IF l.role = "apply" THEN "read" ELSE "verify"
     \/ l.pc = "read" /\ m.pc = "select"
        /\ m.head = IF m.n = 1 THEN Null ELSE m.repo[m.n - 1]
     \/ l.pc = "select" /\ m.pc = "create" /\ m.n = l.n /\ m.head = l.head
     \/ l.pc = "create" /\ m.pc = "start" /\ m.n = l.n /\ m.head = l.head
     \/ l.pc = "start" /\ m.pc = "begin" /\ m.n = l.n /\ m.head = l.head
     \/ l.pc = "begin" /\ m.pc = "execute" /\ m.n = l.n /\ m.head = l.head
     \/ l.pc \in {"select", "conclude", "resolve"} /\ m.pc = "release"
     \/ l.pc \in ReconcileStep /\ m.pc \in ReconcileStep
     \/ l.pc = "release" /\ m.pc = "close"

LEMMA GoesOnOK ==
  ASSUME NEW l, NEW m, BatchRun(l), GoesOn(l, m)
  PROVE  BatchRun(m)
BY DEF BatchRun, GoesOn, BatchStep, ExecutorStep, Planning, ReconcileStep

\* A step under or before the lease: the session stays, and the run goes on or
\* throws.
Stepped(p) ==
  /\ Others(p) /\ online' = online /\ txn' = txn
  /\ run[p].pc \notin {"idle", "close"}
  /\ \/ GoesOn(run[p], run'[p])
     \/ \E e \in {"failed", "uncertain"} : run'[p] = Throw(run[p], e)

\* It keeps the sessions.
LEMMA SteppedSessions ==
  ASSUME Sound, Sessions, NEW p \in Proc, Stepped(p), used' = used
  PROVE  Sessions'
<1>1. run[p] \in Run /\ BatchRun(run[p]) /\ p \in online /\ p \in used /\ txn[p] = NoTxn
  BY DEF Sound, TypeOK, Sessions, SessionOK, Stepped
<1>2. BatchRun(run'[p])
  BY <1>1, GoesOnOK, BatchThrow DEF Stepped
<1> QED
  BY <1>1, <1>2, SessionStep DEF Stepped

\* It keeps the batches on their way, unless the run awaits its own.
LEMMA SteppedFlights ==
  ASSUME Sound, BatchOK, NEW p \in Proc, Stepped(p), used' = used,
         flight' \subseteq flight
  PROVE  Flights'
<1>1. run[p] \in Run /\ BatchRun(run[p])
  BY DEF Sound, TypeOK, BatchOK, Sessions, SessionOK
<1>2. CASE run[p].pc \notin Aloft
  BY <1>2, NoneAloft, FlightStep DEF BatchOK, Stepped
<1>3. CASE run[p].pc \in Aloft
  <2>1. run'[p].pc \in Aloft \ {"execute"}
    <3>1. CASE GoesOn(run[p], run'[p])
      BY <1>3, <3>1 DEF GoesOn, Aloft, Stepped, ReconcileStep
    <3>2. CASE \E e \in {"failed", "uncertain"} : run'[p] = Throw(run[p], e)
      <4>1. run[p].pc \in {"execute", "conclude", "release"}
        BY <1>3 DEF Aloft, Stepped
      <4> QED
        BY <1>1, <3>2, <4>1, BatchThrow DEF Aloft
    <3> QED
      BY <3>1, <3>2 DEF Stepped
  <2> QED
    BY <2>1, FlightStep DEF BatchOK, Stepped
<1> QED
  BY <1>2, <1>3

-----------------------------------------------------------------------------
(* The steps before and under the lease. *)

\* A call that returns, or whose answer is lost.
LEMMA AnswerStepped ==
  ASSUME Sound, NEW p \in Proc, run[p].pc \notin {"idle", "close"},
         NEW l, Answer(p, l), GoesOn(run[p], l), online' = online, txn' = txn
  PROVE  Stepped(p)
<1>1. Others(p)
  BY AnswerOthers
<1>2. run'[p] = l \/ run'[p] = Throw(run[p], Unanswered(run[p]))
  BY DEF Answer, Sound, TypeOK
<1> QED
  BY <1>1, <1>2 DEF Stepped, Unanswered

\* A run that goes on by itself.
LEMMA ProceedStepped ==
  ASSUME Sound, NEW p \in Proc, run[p].pc \notin {"idle", "close"},
         NEW l, Proceed(p, l), GoesOn(run[p], l)
  PROVE  Stepped(p)
BY DEF Sound, TypeOK, Proceed, Stepped, Others

\* A run that throws.
LEMMA ThrowStepped ==
  ASSUME Sound, NEW p \in Proc, run[p].pc \notin {"idle", "close"},
         NEW e \in {"failed", "uncertain"}, run' = [run EXCEPT ![p] = Throw(run[p], e)],
         online' = online, txn' = txn
  PROVE  Stepped(p)
BY DEF Sound, TypeOK, Stepped, Others

LEMMA RejectStepped ==
  ASSUME Sound, NEW p \in Proc, run[p].pc \notin {"idle", "close"}, Reject(p, "failed")
  PROVE  Stepped(p)
BY ThrowStepped DEF Reject, Proceed

\* A write of the journal outside a transaction.
LEMMA JournalStepped ==
  ASSUME Sound, Sessions, NEW p \in Proc, run[p].pc \notin {"idle", "close"},
         NEW j, WriteJournal(p, j), NEW l, Answer(p, l), GoesOn(run[p], l),
         UNCHANGED <<advisory, ddl, online>>
  PROVE  Stepped(p)
<1>1. txn' = txn
  BY DEF WriteJournal, Write, Sessions, SessionOK
<1> QED
  BY <1>1, AnswerStepped

\* A transition of an attempt.
LEMMA TransitionStepped ==
  ASSUME Sound, Sessions, NEW p \in Proc, run[p].pc \notin {"idle", "close"},
         NEW state, NEW l, Transition(p, state, l), GoesOn(run[p], l)
  PROVE  Stepped(p)
BY JournalStepped, RejectStepped DEF Transition

\* The steps before and under the lease.
SteppingStep(p) ==
  \/ AcquireLease(p) \/ ReadJournal(p) \/ SelectArtifact(p)
  \/ CreateAttemptRow(p) \/ MarkBatchRunning(p) \/ PrepareBatch(p)
  \/ ConcludeAttempt(p)
  \/ VerifyOutcome(p) \/ RequireRecovery(p) \/ ReconcileHistory(p)
  \/ RecordOutcome(p) \/ ResolveAttempt(p)
  \/ ReleaseLease(p) \/ FailPreparation(p)
  \/ run[p].pc # "close" /\ Fail(p)

\* The steps that end a run.
EndsRun(p) ==
  CloseSession(p) \/ Crash(p) \/ (run[p].pc = "close" /\ Fail(p))

\* The run reads a chain that is a prefix of its repository: its head is the
\* artifact before the next one.
LEMMA ReadJournalStepped ==
  ASSUME Sound, NEW p \in Proc, ReadJournal(p)
  PROVE  Stepped(p)
<1> DEFINE l == run[p]
           j == JournalOf(p)
           m == [l EXCEPT !.pc = "select", !.n = Len(j.applied) + 1, !.head = j.head]
<1>1. l.pc = "read" /\ l \in Run /\ j \in Journal
  BY ViewType DEF Sound, TypeOK, ReadJournal, At
<1>2. CASE ~(ValidateJournalState(j) /\ IsJournalPrefix(l.repo, j))
  <2>1. Reject(p, "failed")
    BY <1>2 DEF ReadJournal
  <2> QED
    BY <1>1, <2>1, RejectStepped
<1>3. CASE ValidateJournalState(j) /\ IsJournalPrefix(l.repo, j)
  <2>1. Proceed(p, m)
    BY <1>3 DEF ReadJournal
  <2>2. j.applied \in Seq(AppliedRecord) /\ Len(j.applied) \in Nat
    BY <1>1 DEF Journal
  <2>3. j.head = LastOf(j.applied)
    BY <1>3 DEF ValidateJournalState, Chained, HeadMatches
  <2>4. j.applied = << >> <=> Len(j.applied) = 0
    BY <2>2
  <2>5. j.head = IF Len(j.applied) = 0 THEN Null ELSE l.repo[Len(j.applied)]
    BY <1>3, <2>2, <2>3, <2>4 DEF LastOf, IsJournalPrefix
  <2>6. /\ m.pc = "select" /\ m.n = Len(j.applied) + 1 /\ m.head = j.head
        /\ m.role = l.role /\ m.repo = l.repo /\ m.active = l.active /\ m.locked = l.locked
        /\ m.error = l.error /\ m.result = l.result
    BY <1>1 DEF Run
  <2> HIDE DEF m
  <2>7. GoesOn(l, m)
    BY <1>1, <2>2, <2>5, <2>6 DEF GoesOn
  <2> QED
    BY <1>1, <2>1, <2>7, ProceedStepped
<1> QED
  BY <1>2, <1>3

\* All of them.
LEMMA StepsStepped ==
  ASSUME Sound, Sessions, NEW p \in Proc, SteppingStep(p)
  PROVE  Stepped(p)
<1> DEFINE l == run[p]
<1>1. /\ l \in Run /\ txn[p] = NoTxn
      /\ \A pc : [l EXCEPT !.pc = pc].pc = pc
      /\ \A pc : /\ [l EXCEPT !.pc = pc].role = l.role /\ [l EXCEPT !.pc = pc].repo = l.repo
                 /\ [l EXCEPT !.pc = pc].active = l.active
                 /\ [l EXCEPT !.pc = pc].locked = l.locked
                 /\ [l EXCEPT !.pc = pc].error = l.error
                 /\ [l EXCEPT !.pc = pc].result = l.result
                 /\ [l EXCEPT !.pc = pc].n = l.n /\ [l EXCEPT !.pc = pc].head = l.head
  BY DEF Sound, TypeOK, Sessions, SessionOK, Run
<1>2. CASE AcquireLease(p)
  <2> DEFINE m == [l EXCEPT !.leased = TRUE,
                            !.pc = IF l.role = "apply" THEN "read" ELSE "verify"]
  <2>1. l.pc = "lease" /\ Answer(p, m) /\ UNCHANGED <<txn, online>>
    BY <1>2 DEF AcquireLease, At
  <2>2. /\ m.pc = (IF l.role = "apply" THEN "read" ELSE "verify")
        /\ m.role = l.role /\ m.repo = l.repo /\ m.active = l.active /\ m.locked = l.locked
        /\ m.error = l.error /\ m.result = l.result
    BY <1>1 DEF Run
  <2> HIDE DEF m
  <2>3. GoesOn(l, m)
    BY <2>1, <2>2 DEF GoesOn
  <2> QED
    BY <2>1, <2>3, AnswerStepped
<1>3. CASE ReadJournal(p)
  BY <1>3, ReadJournalStepped
<1>4. CASE SelectArtifact(p)
  <2>1. l.pc = "select"
    BY <1>4 DEF SelectArtifact, At
  <2>2. \A pc \in {"release", "create"} : GoesOn(l, [l EXCEPT !.pc = pc])
    BY <1>1, <2>1 DEF GoesOn
  <2>3. Reject(p, "failed") \/ \E pc \in {"release", "create"} : Proceed(p, [l EXCEPT !.pc = pc])
    BY <1>4 DEF SelectArtifact
  <2> QED
    BY <2>1, <2>2, <2>3, ProceedStepped, RejectStepped
<1>5. CASE CreateAttemptRow(p)
  <2>1. l.pc = "create"
    BY <1>5 DEF CreateAttemptRow, At
  <2>2. ASSUME NEW k \in AttemptId
        PROVE  GoesOn(l, [l EXCEPT !.pc = "start", !.attempt = k])
    <3> DEFINE m == [l EXCEPT !.pc = "start", !.attempt = k]
    <3>1. /\ m.pc = "start" /\ m.role = l.role /\ m.repo = l.repo /\ m.active = l.active
          /\ m.locked = l.locked /\ m.n = l.n /\ m.head = l.head
          /\ m.error = l.error /\ m.result = l.result
      BY <1>1 DEF Run
    <3> HIDE DEF m
    <3>2. GoesOn(l, m)
      BY <2>1, <3>1 DEF GoesOn
    <3> QED
      BY <3>2 DEF m
  <2>3. \/ Reject(p, "failed")
        \/ \E k \in AttemptId : \E j :
             /\ WriteJournal(p, j) /\ Answer(p, [l EXCEPT !.pc = "start", !.attempt = k])
             /\ UNCHANGED <<advisory, ddl, online>>
    BY <1>5 DEF CreateAttemptRow
  <2> QED
    BY <2>1, <2>2, <2>3, JournalStepped, RejectStepped
<1>6. CASE MarkBatchRunning(p)
  <2> DEFINE m == [l EXCEPT !.pc = "begin", !.ph = 1, !.st = 1]
  <2>1. l.pc = "start" /\ Transition(p, "running", m)
    BY <1>6 DEF MarkBatchRunning, At
  <2>2. /\ m.pc = "begin" /\ m.role = l.role /\ m.repo = l.repo /\ m.active = l.active
        /\ m.locked = l.locked /\ m.n = l.n /\ m.head = l.head
        /\ m.error = l.error /\ m.result = l.result
    BY <1>1 DEF Run
  <2> HIDE DEF m
  <2>3. GoesOn(l, m)
    BY <2>1, <2>2 DEF GoesOn
  <2> QED
    BY <2>1, <2>3, TransitionStepped
<1>7. CASE PrepareBatch(p)
  <2>1. l.pc = "begin" /\ (Proceed(p, [l EXCEPT !.pc = "execute"]) \/ Reject(p, "failed"))
    BY <1>7 DEF PrepareBatch, At
  <2>2. GoesOn(l, [l EXCEPT !.pc = "execute"])
    BY <1>1, <2>1 DEF GoesOn
  <2> QED
    BY <2>1, <2>2, ProceedStepped, RejectStepped
<1>8. CASE ConcludeAttempt(p) \/ ResolveAttempt(p)
  <2>1. /\ l.pc \in {"conclude", "resolve"}
        /\ \E s : Transition(p, s, [l EXCEPT !.pc = "release"])
    BY <1>8 DEF ConcludeAttempt, ResolveAttempt, At
  <2>2. GoesOn(l, [l EXCEPT !.pc = "release"])
    BY <1>1, <2>1 DEF GoesOn
  <2> QED
    BY <2>1, <2>2, TransitionStepped
<1>9. CASE VerifyOutcome(p) \/ RequireRecovery(p) \/ ReconcileHistory(p) \/ RecordOutcome(p)
  <2>1. l.pc \in ReconcileStep
    BY <1>9 DEF VerifyOutcome, RequireRecovery, ReconcileHistory, RecordOutcome, At,
                ReconcileStep
  <2>2. \A pc \in ReconcileStep : GoesOn(l, [l EXCEPT !.pc = pc])
    BY <1>1, <2>1 DEF GoesOn
  <2>3. \/ \E pc \in ReconcileStep :
             \/ Proceed(p, [l EXCEPT !.pc = pc])
             \/ \E j : /\ WriteJournal(p, j) /\ Answer(p, [l EXCEPT !.pc = pc])
                       /\ UNCHANGED <<advisory, ddl, online>>
             \/ \E s : Transition(p, s, [l EXCEPT !.pc = pc])
        \/ Reject(p, "failed")
    <3>1. {"require", "history", "audit", "resolve"} \subseteq ReconcileStep
      BY DEF ReconcileStep
    <3> QED
      BY <1>9, <3>1 DEF VerifyOutcome, RequireRecovery, ReconcileHistory, RecordOutcome
  <2>4. l.pc \notin {"idle", "close"}
    BY <2>1 DEF ReconcileStep
  <2> QED
    BY <2>2, <2>3, <2>4, ProceedStepped, JournalStepped, TransitionStepped, RejectStepped
<1>10. CASE ReleaseLease(p)
  <2> DEFINE m == [l EXCEPT !.leased = FALSE, !.pc = "close"]
  <2>1. l.pc = "release" /\ Answer(p, m) /\ online' = online /\ txn' = txn
    BY <1>1, <1>10 DEF ReleaseLease, At, Write
  <2>2. /\ m.pc = "close" /\ m.role = l.role /\ m.repo = l.repo /\ m.active = l.active
        /\ m.locked = l.locked /\ m.error = l.error /\ m.result = l.result
    BY <1>1 DEF Run
  <2> HIDE DEF m
  <2>3. GoesOn(l, m)
    BY <2>1, <2>2 DEF GoesOn
  <2> QED
    BY <2>1, <2>3, AnswerStepped
<1>11. CASE (l.pc # "close" /\ Fail(p)) \/ FailPreparation(p)
  <2>1. \E e \in {"failed", "uncertain"} : run' = [run EXCEPT ![p] = Throw(run[p], e)]
    BY <1>11 DEF Fail, FailPreparation, ErrorKinds, Classify
  <2>2. l.pc \notin {"idle", "close"} /\ UNCHANGED <<online, txn>>
    BY <1>11 DEF Fail, FailPreparation, At
  <2> QED
    BY <2>1, <2>2, ThrowStepped
<1> QED
  BY <1>2, <1>3, <1>4, <1>5, <1>6, <1>7, <1>8, <1>9, <1>10, <1>11 DEF SteppingStep

-----------------------------------------------------------------------------
(* The steps that open or end a session, and those of the batches. *)

\* A session is the first one of its process.
LEMMA FreshSession ==
  ASSUME Sound, BatchOK, NEW p \in Proc, p \notin used
  PROVE  /\ run[p].pc = "idle" /\ txn[p] = NoTxn
         /\ \A b \in flight : b.by # p
BY DEF BatchOK, Sessions, SessionOK, Flights, FlightOK

\* The run of a process that was idle starts.
LEMMA StartSessions ==
  ASSUME Sound, BatchOK, NEW p \in Proc, p \notin used,
         NEW m \in Run, run' = [run EXCEPT ![p] = m], BatchRun(m),
         online' = online \cup {p}, used' = used \cup {p}, txn' = txn, flight' = flight
  PROVE  Sessions' /\ Flights' /\ used' \subseteq Proc
<1>1. txn[p] = NoTxn /\ \A b \in flight : b.by # p
  BY FreshSession
<1>2. run'[p] = m /\ Others(p)
  BY DEF Sound, TypeOK, Others
<1>3. Sessions'
  BY <1>1, <1>2, SessionStep DEF BatchOK
<1>4. Flights'
  BY <1>1, <1>2, FlightStep DEF BatchOK
<1> QED
  BY <1>3, <1>4 DEF BatchOK

\* executeMigrations with an artifact repository that batches can carry, or not.
LEMMA StartBatchRunSessions ==
  ASSUME Sound, BatchOK, NEW p \in Proc, StartBatchRun(p)
  PROVE  /\ Sessions' /\ Flights' /\ used' \subseteq Proc
         /\ \E m \in Run : /\ run' = [run EXCEPT ![p] = m]
                           /\ m.pc \in {"lease", "close"} /\ ~m.active /\ m.role = "apply"
         /\ run[p].pc = "idle"
<1>1. PICK repo \in Repositories :
        /\ p \notin used
        /\ VerifyArtifactChain(repo)
        /\ online' = online \cup {p}
        /\ run' = [run EXCEPT ![p] =
             [Idle EXCEPT !.role = "apply", !.repo = repo,
                          !.pc = IF ValidateBatch(repo) THEN "lease" ELSE "close",
                          !.error = IF ValidateBatch(repo) THEN "none" ELSE "failed"]]
        /\ used' = used \cup {p}
        /\ UNCHANGED <<db, txn, advisory, ddl, faults, flight>>
  BY DEF StartBatchRun
<1> DEFINE m == [Idle EXCEPT !.role = "apply", !.repo = repo,
                             !.pc = IF ValidateBatch(repo) THEN "lease" ELSE "close",
                             !.error = IF ValidateBatch(repo) THEN "none" ELSE "failed"]
<1>2. repo \in Seq(Artifact)
  BY ExecutorAssumption
<1>3. /\ m \in Run /\ m.role = "apply" /\ m.repo = repo /\ ~m.active /\ ~m.locked
      /\ m.pc = IF ValidateBatch(repo) THEN "lease" ELSE "close"
  BY <1>2, IdleOK DEF Run, Idle, Step
<1>4. BatchRun(m)
  BY <1>1, <1>3 DEF BatchRun, BatchStep, ExecutorStep, Planning, Carried
<1>5. run' = [run EXCEPT ![p] = m]
  BY <1>1
<1>6. run[p].pc = "idle"
  BY <1>1, FreshSession
<1> HIDE DEF m
<1> QED
  BY <1>1, <1>3, <1>4, <1>5, <1>6, StartSessions

\* A reconciliation.
LEMMA StartBatchReconcileSessions ==
  ASSUME Sound, BatchOK, NEW p \in Proc, StartBatchReconcile(p)
  PROVE  Sessions' /\ Flights' /\ used' \subseteq Proc
<1>1. PICK repo \in Repositories, k \in AttemptId, outcome \in Terminal :
        /\ online' = online \cup {p}
        /\ run' = [run EXCEPT ![p] =
             [Idle EXCEPT !.pc = "lease", !.role = "reconcile", !.repo = repo,
                          !.attempt = k, !.outcome = outcome]]
        /\ UNCHANGED <<db, txn, advisory, ddl, faults>>
  BY DEF StartBatchReconcile, StartReconcile
<1> DEFINE m == [Idle EXCEPT !.pc = "lease", !.role = "reconcile", !.repo = repo,
                             !.attempt = k, !.outcome = outcome]
<1>2. repo \in Seq(Artifact)
  BY ExecutorAssumption
<1>3. m \in Run /\ m.role = "reconcile" /\ ~m.active /\ ~m.locked /\ m.pc = "lease"
  BY <1>2, IdleOK DEF Run, Idle, Step
<1>4. BatchRun(m)
  BY <1>3 DEF BatchRun, BatchStep, ExecutorStep, Planning
<1>5. run' = [run EXCEPT ![p] = m] /\ p \notin used /\ used' = used \cup {p}
      /\ flight' = flight
  BY <1>1 DEF StartBatchReconcile
<1> HIDE DEF m
<1> QED
  BY <1>1, <1>3, <1>4, <1>5, StartSessions

\* What a run that ends leaves of itself and of its session.
LEMMA EndsRunSteps ==
  ASSUME Sound, NEW p \in Proc, EndsRun(p), txn[p] = NoTxn
  PROVE  /\ \E r \in {"success", "failed", "crashed", "unclosed"} :
              run' = [run EXCEPT ![p] = [Idle EXCEPT !.result = r]]
         /\ txn' = txn
         /\ online' \in {online, online \ {p}}
<1>0. txn = [txn EXCEPT ![p] = NoTxn] /\ run[p] \in Run
  BY DEF Sound, TypeOK
<1>1. CASE CloseSession(p)
  <2>1. EndingStep(p)
    BY <1>1, EndingSteps DEF CloseSession
  <2>2. run' = [run EXCEPT ![p] =
                  [Idle EXCEPT !.result = IF run[p].error = "none" THEN "success"
                                                                   ELSE "failed"]]
    BY <1>1 DEF CloseSession, Closed
  <2> QED
    BY <1>0, <2>1, <2>2 DEF EndingStep
<1>2. CASE Crash(p)
  <2>1. EndingStep(p)
    BY <1>2, EndingSteps DEF Crash
  <2>2. run' = [run EXCEPT ![p] = [Idle EXCEPT !.result = "crashed"]]
    BY <1>2 DEF Crash
  <2> QED
    BY <1>0, <2>1, <2>2 DEF EndingStep
<1>3. CASE run[p].pc = "close" /\ Fail(p)
  <2>1. run' = [run EXCEPT ![p] = [Idle EXCEPT !.result = "unclosed"]]
    BY <1>0, <1>3, ThrowClosing DEF Fail
  <2> QED
    BY <1>3, <2>1 DEF Fail
<1> QED
  BY <1>1, <1>2, <1>3 DEF EndsRun

\* A session that ends leaves its batch behind.
LEMMA EndSessions ==
  ASSUME Sound, BatchOK, NEW p \in Proc, EndsRun(p), used' = used, flight' = flight
  PROVE  Sessions' /\ Flights'
<1>0. txn[p] = NoTxn
  BY DEF BatchOK, Sessions, SessionOK
<1>1. PICK r \in {"success", "failed", "crashed", "unclosed"} :
        run' = [run EXCEPT ![p] = [Idle EXCEPT !.result = r]]
  BY <1>0, EndsRunSteps
<1>2. txn' = txn /\ online' \in {online, online \ {p}}
  BY <1>0, EndsRunSteps
<1>3. /\ run'[p].pc = "idle" /\ ~run'[p].active /\ ~run'[p].locked /\ Others(p)
  BY <1>1 DEF Sound, TypeOK, Others, Idle
<1>4. BatchRun(run'[p])
  BY <1>3 DEF BatchRun, BatchStep, ExecutorStep, Planning
<1>5. Sessions'
  BY <1>0, <1>2, <1>3, <1>4, SessionStep DEF BatchOK
<1>6. Flights'
  BY <1>3, FlightStep DEF BatchOK, Aloft
<1> QED
  BY <1>5, <1>6

\* What leaves runs and sessions alone.
LEMMA SameSessions ==
  ASSUME BatchOK, UNCHANGED <<txn, online, run, used>>, flight' \subseteq flight
  PROVE  Sessions' /\ Flights'
BY DEF BatchOK, Sessions, SessionOK, Flights, FlightOK

\* A sender that awaits its batch has no other on its way.
LEMMA OwnBatch ==
  ASSUME Sound, BatchOK, NEW b \in flight
  PROVE  /\ b.by \in Proc /\ b.artifact \in Artifact /\ b.attempt \in AttemptId
         /\ b.head \in Digest /\ Parent[b.artifact] = b.head
         /\ b.catalog \subseteq UNION {Effects(a) : a \in Artifact}
         /\ Awaits(b.by, b) <=> run[b.by].pc = "execute"
         /\ run[b.by].pc = "execute" =>
              /\ b.by \in online /\ b = BatchOf(b.by, run[b.by])
              /\ \A c \in flight \ {b} : c.by # b.by
<1>1. b \in Batch /\ FlightOK(b)
  BY DEF BatchOK, Flights
<1>2. run[b.by].pc = "execute" => b = BatchOf(b.by, run[b.by])
  BY <1>1 DEF FlightOK
<1>3. run[b.by].pc = "execute" => \A c \in flight \ {b} : c.by # b.by
  BY <1>2 DEF BatchOK, Flights, FlightOK
<1>4. run[b.by].pc = "execute" => b.by \in online
  BY <1>1 DEF BatchOK, Sessions, SessionOK, Batch
<1> QED
  BY <1>1, <1>2, <1>3, <1>4 DEF Awaits, Batch, FlightOK, BatchOf

\* A batch that has committed takes its sender to the next artifact.
LEMMA NextBatchRun ==
  ASSUME NEW l \in Run, LocalOK(l), BatchRun(l), l.pc = "execute"
  PROVE  /\ BatchRun(NextArtifact(l)) /\ NextArtifact(l).pc = "select"
         /\ NextArtifact(l) \in Run /\ LocalOK(NextArtifact(l)) /\ ~NextArtifact(l).active
<1> DEFINE m == NextArtifact(l)
<1>1. l.n \in 1..Len(l.repo) /\ l.repo \in Seq(Artifact) /\ InArtifact(l)
  BY LocalInArtifact DEF LocalOK, PositionOK, ExecutorStep, Run
<1>2. m \in Run /\ LocalOK(m) /\ ~m.active /\ m.pc = "select"
  BY <1>1, NextArtifactOK
<1>3. m.repo = l.repo /\ m.n = l.n + 1 /\ m.head = l.repo[l.n] /\ ~m.locked
  BY <1>1 DEF NextArtifact, Idle, ArtifactOf
<1>4. Carried(l.repo)
  BY DEF BatchRun, ExecutorStep
<1> HIDE DEF m
<1>5. m.head = IF m.n = 1 THEN Null ELSE m.repo[m.n - 1]
  BY <1>1, <1>3
<1>6. BatchRun(m)
  BY <1>2, <1>3, <1>4, <1>5 DEF BatchRun, BatchStep
<1> QED
  BY <1>2, <1>6 DEF m

\* What the arrival of a batch does to its sender, if that still awaits it.
Landed(p, b) ==
  /\ Others(p)
  /\ \/ run'[p] = NextArtifact(run[p])
     \/ \E e \in {"failed", "uncertain"} : run'[p] = Throw(run[p], e)

LEMMA LandBatchLands ==
  ASSUME Sound, BatchOK, NEW b \in flight, LandBatch(b), run[b.by].pc = "execute"
  PROVE  Landed(b.by, b)
<1>1. Awaits(b.by, b) /\ b.by \in Proc
  BY OwnBatch
<1>2. \E l \in {NextArtifact(run[b.by]), Throw(run[b.by], "failed")} : Answer(b.by, l)
  BY <1>1 DEF LandBatch
<1> QED
  BY <1>1, <1>2, AnswerOthers DEF Landed, Answer, Unanswered, Sound, TypeOK

\* A batch that arrives.
LEMMA LandBatchSessions ==
  ASSUME Sound, BatchOK, NEW b \in flight, LandBatch(b), used' = used
  PROVE  Sessions' /\ Flights'
<1> DEFINE p == b.by
<1>1. p \in Proc /\ flight' = flight \ {b} /\ UNCHANGED <<txn, online>>
  BY OwnBatch DEF LandBatch
<1>2. CASE run[p].pc = "execute"
  <2>1. /\ run[p] \in Run /\ LocalOK(run[p]) /\ BatchRun(run[p]) /\ txn[p] = NoTxn
        /\ p \in online /\ p \in used
    BY <1>1, <1>2 DEF Sound, TypeOK, BatchOK, Sessions, SessionOK
  <2>2. Landed(p, b)
    BY <1>2, LandBatchLands
  <2>3. BatchRun(run'[p])
    BY <1>2, <2>1, <2>2, NextBatchRun, BatchThrow DEF Landed
  <2>4. Sessions'
    BY <1>1, <2>1, <2>2, <2>3, SessionStep DEF BatchOK, Landed
  <2>5. \A c \in flight' : c.by # p
    BY <1>1, <1>2, OwnBatch
  <2>6. Flights'
    BY <1>1, <2>2, <2>5, FlightStep DEF BatchOK, Landed
  <2> QED
    BY <2>4, <2>6
<1>3. CASE run[p].pc # "execute"
  <2>1. run' = run
    BY <1>3, OwnBatch DEF LandBatch
  <2> QED
    BY <1>1, <2>1, SameSessions
<1> QED
  BY <1>2, <1>3

\* What is known of a run that is about to send its batch.
LEMMA AtBegin ==
  ASSUME Sound, BatchOK, NEW p \in Proc, At(p, "begin")
  PROVE  /\ run[p] \in Run /\ LocalOK(run[p]) /\ run[p].n \in 1..Len(run[p].repo)
         /\ run[p].attempt \in AttemptId /\ ArtifactOf(run[p]) \in Artifact
         /\ run[p].head \in Digest
         /\ Parent[ArtifactOf(run[p])] = run[p].head
         /\ \A b \in flight : b.by # p
<1>1. run[p] \in Run /\ LocalOK(run[p]) /\ run[p].pc = "begin" /\ BatchRun(run[p])
  BY DEF Sound, TypeOK, At, BatchOK, Sessions, SessionOK
<1>2. run[p].n \in 1..Len(run[p].repo) /\ run[p].attempt \in AttemptId
  BY <1>1 DEF LocalOK, PositionOK, AttemptOK, ExecutorStep
<1>3. ArtifactOf(run[p]) \in Artifact
  BY <1>1, <1>2 DEF ArtifactOf, Run
<1>4. /\ VerifyArtifactChain(run[p].repo)
      /\ run[p].head = IF run[p].n = 1 THEN Null ELSE run[p].repo[run[p].n - 1]
  BY <1>1 DEF BatchRun, ExecutorStep, Planning, Carried
<1>5. Parent[ArtifactOf(run[p])] = run[p].head
  BY <1>2, <1>4 DEF VerifyArtifactChain, ArtifactOf
<1>6. \A b \in flight : b.by # p
  BY <1>1, NoneAloft DEF BatchOK, Aloft
<1> QED
  BY <1>1, <1>2, <1>3, <1>5, <1>6 DEF Run

\* A batch is sent, or none.
LEMMA PrepareBatchSends ==
  ASSUME Sound, BatchOK, NEW p \in Proc, PrepareBatch(p)
  PROVE  \/ flight' = flight
         \/ /\ db.schema = Before(run[p].repo, run[p].n)
            /\ flight' = flight \cup {BatchOf(p, run[p])}
            /\ BatchOf(p, run[p]) \in Batch
            /\ Proceed(p, [run[p] EXCEPT !.pc = "execute"])
<1>1. At(p, "begin")
  BY DEF PrepareBatch
<1>2. CASE db.schema = Before(run[p].repo, run[p].n)
  <2>1. db.schema \subseteq UNION {Effects(a) : a \in Artifact}
    BY DEF Sound, TypeOK, Database
  <2>2. BatchOf(p, run[p]) \in Batch
    BY <1>1, <1>2, <2>1, AtBegin DEF BatchOf, Batch
  <2> QED
    BY <1>2, <2>2 DEF PrepareBatch, BatchOf
<1>3. CASE db.schema # Before(run[p].repo, run[p].n)
  BY <1>3 DEF PrepareBatch
<1> QED
  BY <1>2, <1>3

LEMMA PrepareBatchSessions ==
  ASSUME Sound, BatchOK, NEW p \in Proc, PrepareBatch(p), used' = used
  PROVE  Sessions' /\ Flights' /\ flight' \subseteq Batch
<1>1. Stepped(p) /\ At(p, "begin")
  BY StepsStepped DEF SteppingStep, PrepareBatch, BatchOK
<1>2. Sessions'
  BY <1>1, SteppedSessions DEF BatchOK
<1>3. CASE flight' = flight
  BY <1>1, <1>2, <1>3, SteppedFlights DEF BatchOK
<1>4. CASE /\ flight' = flight \cup {BatchOf(p, run[p])}
           /\ BatchOf(p, run[p]) \in Batch
           /\ Proceed(p, [run[p] EXCEPT !.pc = "execute"])
  <2>1. /\ run'[p] = [run[p] EXCEPT !.pc = "execute"] /\ Others(p) /\ run[p] \in Run
    BY <1>4 DEF Proceed, Sound, TypeOK, Others
  <2>2. /\ run'[p].pc = "execute" /\ BatchOf(p, run'[p]) = BatchOf(p, run[p])
    BY <2>1 DEF Run, BatchOf, ArtifactOf
  <2>3. ASSUME NEW b, b = BatchOf(p, run[p])
        PROVE  FlightOK(b)'
    <3>1. p \in used
      BY <1>1 DEF At, BatchOK, Sessions, SessionOK
    <3>2. Parent[ArtifactOf(run[p])] = run[p].head
      BY <1>1, AtBegin
    <3> QED
      BY <2>2, <2>3, <3>1, <3>2 DEF FlightOK, Aloft, BatchOf
  <2>4. ASSUME NEW b \in flight PROVE FlightOK(b)'
    <3>1. b.by # p /\ b.by \in Proc /\ FlightOK(b)
      BY <1>1, AtBegin DEF BatchOK, Flights, Batch
    <3>2. run'[b.by] = run[b.by]
      BY <2>1, <3>1 DEF Others
    <3> QED
      BY <3>1, <3>2 DEF FlightOK, BatchOf
  <2> QED
    BY <1>2, <1>4, <2>3, <2>4 DEF Flights, BatchOK
<1> QED
  BY <1>3, <1>4, PrepareBatchSends

\* Every step keeps the sessions and the batches on their way.
LEMMA NextBatchOK ==
  ASSUME Sound, BatchOK, BatchNext
  PROVE  BatchOK'
<1> SUFFICES Sessions' /\ Flights' /\ flight' \subseteq Batch /\ used' \subseteq Proc
  BY DEF BatchOK
<1>1. ASSUME NEW p \in Proc, StartBatchRun(p) \/ StartBatchReconcile(p)
      PROVE  Sessions' /\ Flights' /\ flight' \subseteq Batch /\ used' \subseteq Proc
  <2>1. flight' = flight
    BY <1>1 DEF StartBatchRun, StartBatchReconcile
  <2> QED
    BY <1>1, <2>1, StartBatchRunSessions, StartBatchReconcileSessions DEF BatchOK
<1>2. ASSUME NEW p \in Proc, SteppingStep(p) \/ RefuseBatch(p) \/ GiveUpBatch(p),
             flight' \subseteq flight, used' = used
      PROVE  Sessions' /\ Flights' /\ flight' \subseteq Batch /\ used' \subseteq Proc
  <2>1. Stepped(p)
    <3>1. CASE SteppingStep(p)
      BY <3>1, StepsStepped DEF BatchOK
    <3>2. CASE RefuseBatch(p) \/ GiveUpBatch(p)
      BY <3>2, ThrowStepped DEF RefuseBatch, GiveUpBatch, Classify, At
    <3> QED
      BY <1>2, <3>1, <3>2
  <2> QED
    BY <1>2, <2>1, SteppedSessions, SteppedFlights DEF BatchOK
<1>3. ASSUME NEW p \in Proc, Shared(p), UNCHANGED flight, used' = used
      PROVE  Sessions' /\ Flights' /\ flight' \subseteq Batch /\ used' \subseteq Proc
  <2>1. SteppingStep(p) \/ EndsRun(p)
    BY <1>3 DEF Shared, SteppingStep, EndsRun
  <2> QED
    BY <1>2, <1>3, <2>1, EndSessions DEF BatchOK
<1>4. ASSUME NEW p \in Proc, used' = used,
             FailPreparation(p) \/ RefuseBatch(p) \/ GiveUpBatch(p)
      PROVE  Sessions' /\ Flights' /\ flight' \subseteq Batch /\ used' \subseteq Proc
  <2>1. flight' \subseteq flight
    BY <1>4 DEF FailPreparation, RefuseBatch, GiveUpBatch
  <2> QED
    BY <1>2, <1>4, <2>1 DEF SteppingStep
<1>5. ASSUME NEW p \in Proc, PrepareBatch(p), used' = used
      PROVE  Sessions' /\ Flights' /\ flight' \subseteq Batch /\ used' \subseteq Proc
  BY <1>5, PrepareBatchSessions DEF BatchOK
<1>6. ASSUME NEW b \in flight, LandBatch(b), used' = used
      PROVE  Sessions' /\ Flights' /\ flight' \subseteq Batch /\ used' \subseteq Proc
  <2>1. flight' \subseteq flight
    BY <1>6 DEF LandBatch
  <2> QED
    BY <1>6, <2>1, LandBatchSessions DEF BatchOK
<1>7. ASSUME Repair \/ ClearLeaseRow \/ ForeignChange, UNCHANGED flight, used' = used
      PROVE  Sessions' /\ Flights' /\ flight' \subseteq Batch /\ used' \subseteq Proc
  BY <1>7, SameSessions DEF Repair, ClearLeaseRow, ForeignChange, BatchOK
<1> QED
  BY <1>1, <1>3, <1>4, <1>5, <1>6, <1>7 DEF BatchNext

-----------------------------------------------------------------------------
(* What carries the invariants of the executor over a step of a batch.      *)

\* The invariants of the executor hold on, and the journal moves by one step.
Advances == Sound' /\ Leased' /\ ChainOK' /\ Kept

\* A lease has one holder.
LEMMA LeasedExcludes == Leased => LeaseExcludes
BY DEF Leased, LeaseOK, HoldsLease, LeaseExcludes, UnderLease

\* A step of the executor.
LEMMA ExecutorAdvances ==
  ASSUME Sound, Leased, ChainOK, InStep, [Next]_vars
  PROVE  Advances
BY NextSound, NextLeased, NextChained, NextKept, LeasedExcludes DEF Advances

\* A step that changes one run only, which is not under the lease or gives up.
LEMMA QuietAdvances ==
  ASSUME Sound, Leased, ChainOK, InStep, Sound', NEW p \in Proc, Others(p),
         UNCHANGED <<db, txn, advisory>>, online' \subseteq online \cup {p},
         \/ run'[p].pc \notin Critical
         \/ p \in online /\ run[p].pc \in Critical /\ GaveUp(run'[p])
  PROVE  Advances
<1>1. Leased'
  <2> SUFFICES ASSUME NEW q \in Proc, q \in online', run'[q].pc \in Critical
               PROVE  HoldsLease(q)
    BY DEF Leased, LeaseOK, HoldsLease
  <2>1. q \in online /\ run[q].pc \in Critical
    BY DEF Others
  <2> QED
    BY <2>1 DEF Leased, LeaseOK
<1>2. ChainOK'
  BY DEF ChainOK
<1>3. UnderLease(p)' => Fits(run'[p], txn'[p], db'.journal)
  BY GaveUpFits DEF UnderLease
<1>4. Kept
  BY <1>3, OutsideKept
<1> QED
  BY <1>1, <1>2, <1>4 DEF Advances

\* Somebody changes the schema.
LEMMA ForeignChangeAdvances ==
  ASSUME Sound, Leased, ChainOK, InStep, ForeignChange
  PROVE  Advances
<1>1. PICK a \in Foreign :
        \E schema \in {db.schema \cup Effects(a), db.schema \ Effects(a)} :
          db' = [db EXCEPT !.schema = schema]
  BY DEF ForeignChange
<1>2. db \in Database /\ a \in Artifact
  BY BatchAssumption DEF Sound, TypeOK
<1>3. PICK schema \in SUBSET UNION {Effects(c) : c \in Artifact} :
        db' = [db EXCEPT !.schema = schema]
  <2> DEFINE all == UNION {Effects(c) : c \in Artifact}
             effects == Effects(a)
  <2>1. effects \subseteq all /\ db.schema \subseteq all
    BY <1>2 DEF Database
  <2>2. \E schema \in {db.schema \cup effects, db.schema \ effects} :
          db' = [db EXCEPT !.schema = schema]
    BY <1>1
  <2> HIDE DEF effects, all
  <2>3. \E schema \in SUBSET all : db' = [db EXCEPT !.schema = schema]
    BY <2>1, <2>2
  <2> QED
    BY <2>3 DEF all
<1>4. db' \in Database /\ db'.journal = db.journal /\ db'.lease = db.lease
  BY <1>2, <1>3 DEF Database
<1>5. UNCHANGED <<txn, advisory, ddl, online, run>> /\ faults' \in 0..MaxFaults
  BY ExecutorAssumption DEF ForeignChange, Sound, TypeOK
<1>6. Sound'
  BY <1>4, <1>5 DEF Sound, TypeOK, TransactionOK
<1>7. Leased'
  BY <1>4, <1>5 DEF Leased, LeaseOK, HoldsLease
<1>8. ChainOK'
  BY <1>4, <1>5 DEF ChainOK
<1>9. Kept
  BY <1>4, <1>5 DEF Kept, JournalStep, InStep, AtMostOneOpenAttempt, UnderLease
<1> QED
  BY <1>6, <1>7, <1>8, <1>9 DEF Advances

\* A run on batches starts.
LEMMA StartBatchRunAdvances ==
  ASSUME Sound, BatchOK, Leased, ChainOK, InStep, NEW p \in Proc, StartBatchRun(p)
  PROVE  Advances
<1>1. PICK m \in Run : /\ run' = [run EXCEPT ![p] = m]
                       /\ m.pc \in {"lease", "close"} /\ ~m.active /\ m.role = "apply"
  BY StartBatchRunSessions
<1>2. run[p].pc = "idle" /\ txn[p] = NoTxn
  BY StartBatchRunSessions DEF BatchOK, Sessions, SessionOK
<1>3. online' = online \cup {p} /\ UNCHANGED <<db, txn, advisory, ddl, faults>>
  BY DEF StartBatchRun
<1>4. Sound'
  BY <1>1, <1>2, <1>3, StartStep
<1>5. Others(p) /\ run'[p].pc \notin Critical
  BY <1>1 DEF Others, Sound, TypeOK, Critical, ExecutorStep, ReconcileStep
<1> QED
  BY <1>3, <1>4, <1>5, QuietAdvances

\* A preparation that fails.
LEMMA FailPreparationAdvances ==
  ASSUME Sound, Leased, ChainOK, InStep, NEW p \in Proc, FailPreparation(p)
  PROVE  Advances
<1>1. PICK e \in {"failed", "uncertain"} : run' = [run EXCEPT ![p] = Throw(run[p], e)]
  BY DEF FailPreparation, Classify
<1>2. /\ p \in online /\ run[p].pc = "begin" /\ run[p] \in Run
      /\ UNCHANGED <<db, txn, advisory, ddl, online>>
      /\ faults' \in 0..MaxFaults
  BY ExecutorAssumption DEF FailPreparation, At, Sound, TypeOK
<1>3. Sound'
  BY <1>1, <1>2, ThrowStep DEF Sound, TypeOK
<1>4. GaveUp(run'[p]) /\ Others(p)
  BY <1>1, <1>2, ThrowGivesUp DEF Sound, TypeOK, Others
<1>5. run[p].pc \in Critical
  BY <1>2 DEF Critical, ExecutorStep
<1> QED
  BY <1>2, <1>3, <1>4, <1>5, QuietAdvances

\* A working step of a run under the lease.
LEMMA WorkingAdvances ==
  ASSUME Sound, Leased, ChainOK, InStep, NEW p \in Proc, Working(p), Sound', Moved(p)
  PROVE  Advances
<1>1. UnderLease(p) /\ Others(p) /\ online' = online
  BY DEF Working, UnderLease
<1> QED
  BY <1>1, WorkingLeased, WorkingChained, LeasedExcludes, MovedKept DEF Advances

\* The attempt is running; its artifact has one phase.
LEMMA MarkBatchRunningAdvances ==
  ASSUME Sound, BatchOK, Leased, ChainOK, InStep, NEW p \in Proc, MarkBatchRunning(p)
  PROVE  Advances
<1> DEFINE l == run[p]
           m == [l EXCEPT !.pc = "begin", !.ph = 1, !.st = 1]
<1>1. At(p, "start") /\ Transition(p, "running", m)
  BY DEF MarkBatchRunning
<1>2. /\ p \in online /\ l \in Run /\ l.pc = "start" /\ LocalOK(l) /\ BatchRun(l)
      /\ txn[p] = NoTxn
  BY <1>1 DEF Sound, TypeOK, At, BatchOK, Sessions, SessionOK
<1>3. l.n \in 1..Len(l.repo) /\ l.attempt \in AttemptId /\ l.leased
  BY <1>2 DEF LocalOK, PositionOK, AttemptOK, FlagsOK, Critical, ExecutorStep
<1>4. Len(Phases(l)) = 1
  BY <1>2, <1>3 DEF BatchRun, ExecutorStep, Carried, ValidateBatch, Phases, ArtifactOf
<1>5. /\ m \in Run /\ m.pc = "begin" /\ m.n = l.n /\ m.repo = l.repo
      /\ m.attempt = l.attempt /\ m.leased /\ ~m.active
  BY <1>2, <1>3 DEF BatchRun, Run, Step, ExecutorStep
<1>11. m.ph \in 1..Len(Phases(m)) /\ m.st = 1
  <2>1. m.ph = 1 /\ m.st = 1 /\ m.repo = l.repo /\ m.n = l.n
    BY <1>2 DEF Run
  <2>2. Phases(m) = Phases(l)
    BY <2>1 DEF Phases, ArtifactOf
  <2> HIDE DEF m
  <2>3. Len(Phases(m)) = 1
    BY <1>4, <2>2
  <2>4. 1 \in 1..1
    OBVIOUS
  <2> QED
    BY <2>1, <2>3, <2>4
<1> HIDE DEF m
<1>6. LocalOK(m)
  <2>1. PositionOK(m)
    BY <1>3, <1>5, <1>11 DEF PositionOK
  <2>2. AttemptOK(m) /\ FlagsOK(m)
    BY <1>3, <1>5 DEF AttemptOK, FlagsOK
  <2> QED
    BY <2>1, <2>2 DEF LocalOK
<1>7. l.pc \in Critical /\ m.pc \in Critical /\ l.pc \notin {"idle", "close"}
  BY <1>2, <1>5 DEF Critical, ExecutorStep
<1>8. Sound'
  BY <1>1, <1>2, <1>5, <1>6, <1>7, TransitionStep
<1>9. Working(p)
  BY <1>1, <1>2, <1>7, TransitionWorking
<1>10. Moved(p)
  <2>1. OpenAttempts(db.journal) = {l.attempt} /\ db.journal \in Journal
    BY <1>1, <1>2, <1>7, AtFits DEF AttemptsFit, Attempting
  <2>2. ASSUME CanTransition(db.journal, l.attempt, "running")
        PROVE  Fits(m, NoTxn, TransitionAttempt(db.journal, l.attempt, "running"))
    <3>1. OpenAttempts(TransitionAttempt(db.journal, l.attempt, "running")) = {l.attempt}
      BY <1>3, <2>1, <2>2, TransitionOpens DEF Terminal
    <3> QED
      BY <1>5, <3>1, OutsideFits
  <2> QED
    BY <1>1, <1>2, <1>3, <1>7, <2>2, TransitionMoves DEF AttemptState, Unresolved
<1> QED
  BY <1>8, <1>9, <1>10, WorkingAdvances

\* The batch is sent, or the schema is not the planned one.
LEMMA PrepareBatchAdvances ==
  ASSUME Sound, BatchOK, Leased, ChainOK, InStep, NEW p \in Proc, PrepareBatch(p)
  PROVE  Advances
<1> DEFINE l == run[p]
           m == [l EXCEPT !.pc = "execute"]
<1>1. At(p, "begin") /\ (Proceed(p, m) \/ Reject(p, "failed"))
  BY DEF PrepareBatch
<1>2. /\ p \in online /\ l \in Run /\ l.pc = "begin" /\ LocalOK(l) /\ BatchRun(l)
      /\ txn[p] = NoTxn
  BY <1>1 DEF Sound, TypeOK, At, BatchOK, Sessions, SessionOK
<1>3. l.pc \in Critical /\ l.pc \notin {"idle", "close"}
  BY <1>2 DEF Critical, ExecutorStep
<1>4. CASE Proceed(p, m)
  <2>1. /\ m \in Run /\ m.pc = "execute" /\ m.n = l.n /\ m.repo = l.repo
        /\ m.attempt = l.attempt /\ m.leased = l.leased /\ ~m.active /\ m.ph = l.ph
        /\ m.st = l.st /\ Phases(m) = Phases(l)
    BY <1>2 DEF BatchRun, Run, Step, ExecutorStep, Phases, ArtifactOf
  <2> HIDE DEF m
  <2>2. LocalOK(m) /\ m.pc \in Critical
    BY <1>2, <1>3, <2>1 DEF LocalOK, PositionOK, AttemptOK, FlagsOK, ReconcileStep,
                       Critical, ExecutorStep
  <2>3. Sound'
    BY <1>2, <1>4, <2>1, <2>2, ProceedStep
  <2>4. Working(p)
    BY <1>2, <1>3, <1>4, ProceedWorking
  <2>5. OpenAttempts(db.journal) = {l.attempt}
    BY <1>1, <1>2, <1>3, AtFits DEF AttemptsFit, Attempting
  <2>6. Fits(m, txn[p], db.journal)
    BY <1>2, <2>1, <2>5, PhaseFits
  <2> QED
    BY <1>4, <2>3, <2>4, <2>6, ProceedMoves, WorkingAdvances
<1>5. CASE Reject(p, "failed")
  <2>1. Sound' /\ Moved(p)
    BY <1>2, <1>3, <1>5, RejectStep, RejectMoves
  <2>2. Working(p)
    BY <1>2, <1>3, <1>5, ProceedWorking DEF Reject
  <2> QED
    BY <2>1, <2>2, WorkingAdvances
<1> QED
  BY <1>1, <1>4, <1>5

\* What a batch that is accepted makes of the database.
LEMMA CommittedOK ==
  ASSUME Sound, BatchOK, ChainOK, InStep, NEW b \in flight, Assertions(b)
  PROVE  LET d == Committed(b)
             h == AppendAppliedAndAdvanceHead(db.journal, b.artifact, b.attempt)
         IN  /\ d \in Database /\ d.lease = db.lease
             /\ d.journal = TransitionAttempt(h, b.attempt, "applied")
             /\ CanAppend(db.journal, b.artifact, b.attempt, b.head)
             /\ d.schema = db.schema \cup Effects(b.artifact)
             /\ JournalStep(db.journal, d.journal)
             /\ OpenAttempts(db.journal) = {b.attempt}
             /\ OpenAttempts(d.journal) = {}
             /\ Chained(d.journal)
<1> DEFINE d == Committed(b)
           i == db.journal
           h == AppendAppliedAndAdvanceHead(i, b.artifact, b.attempt)
           j == TransitionAttempt(h, b.attempt, "applied")
<1>1. /\ b.artifact \in Artifact /\ b.attempt \in AttemptId /\ b.head \in Digest
      /\ Parent[b.artifact] = b.head
  BY OwnBatch
<1>2. db \in Database /\ i \in Journal /\ Chained(i)
  BY DEF Sound, TypeOK, Database, ChainOK
<1>3. /\ StateOf(i, b.attempt) = "running" /\ i.head = b.head
      /\ NotYetRecorded(i, b.artifact, b.attempt)
  BY DEF Assertions
<1>4. CanAppend(i, b.artifact, b.attempt, b.head)
  BY <1>1, <1>3 DEF CanAppend, HeadUnchanged
<1>5. b.attempt \in OpenAttempts(i)
  BY <1>1, <1>3 DEF OpenAttempts, Unresolved
<1>6. OpenAttempts(i) = {b.attempt}
  BY <1>5 DEF InStep, AtMostOneOpenAttempt, OpenAttempts
<1>7. h \in Journal /\ Chained(h) /\ h.attempts = i.attempts
      /\ OpenAttempts(h) = OpenAttempts(i)
  BY <1>1, <1>2, <1>4, AppendType, AppendChained, SameAttempts
<1>8. StateOf(h, b.attempt) = "running"
  BY <1>3, <1>7 DEF StateOf
<1>9. CanTransition(h, b.attempt, "applied")
  BY <1>8 DEF CanTransition, transitions
<1>10. j \in Journal
  BY <1>7, <1>9, TransitionAttemptType
<1>11. OpenAttempts(j) = {}
  <2> HIDE DEF h, j
  <2>1. OpenAttempts(j) = OpenAttempts(h) \ {b.attempt}
    BY <1>1, <1>7, <1>9, TransitionOpens DEF j, Terminal
  <2> QED
    BY <1>6, <1>7, <2>1
<1>12. j.head = h.head /\ j.applied = h.applied
  BY <1>7 DEF TransitionAttempt, Journal
<1>13. Chained(j)
  BY <1>7, <1>12, SameHistoryChained
<1>14. JournalStep(i, j)
  BY <1>1, <1>4, <1>5, <1>9 DEF JournalStep
<1>15. MarkRunningApplied(h, b.attempt) = j
  BY <1>8 DEF MarkRunningApplied
<1>16. d = [db EXCEPT !.schema = @ \cup Effects(b.artifact),
                      !.marks = @ \cup {<<b.attempt, e>> : e \in Effects(b.artifact)},
                      !.journal = j]
  BY <1>15 DEF Committed
<1>17. Effects(b.artifact) \subseteq UNION {Effects(a) : a \in Artifact}
  BY <1>1
<1>18. /\ d \in Database /\ d.lease = db.lease /\ d.journal = j
       /\ d.schema = db.schema \cup Effects(b.artifact)
  <2> DEFINE all == UNION {Effects(a) : a \in Artifact}
             marks == {<<b.attempt, e>> : e \in Effects(b.artifact)}
  <2>1. marks \subseteq AttemptId \X all
    BY <1>1, <1>17
  <2>2. Effects(b.artifact) \subseteq all
    BY <1>17
  <2>3. d = [db EXCEPT !.schema = @ \cup Effects(b.artifact),
                       !.marks = @ \cup marks, !.journal = j]
    BY <1>16
  <2>4. /\ db.schema \subseteq all /\ db.marks \subseteq AttemptId \X all
        /\ db.lease \in Proc \cup {Null}
        /\ Database = [journal : Journal, schema : SUBSET all,
                       marks : SUBSET (AttemptId \X all), lease : Proc \cup {Null}]
    BY <1>2 DEF Database
  <2> HIDE DEF all, marks, d, j, h, i
  <2>5. db = [journal |-> db.journal, schema |-> db.schema, marks |-> db.marks,
              lease |-> db.lease]
    BY <1>2 DEF Database
  <2>6. d = [journal |-> j, schema |-> db.schema \cup Effects(b.artifact),
             marks |-> db.marks \cup marks, lease |-> db.lease]
    BY <2>3, <2>5
  <2>7. d \in [journal : Journal, schema : SUBSET all,
               marks : SUBSET (AttemptId \X all), lease : Proc \cup {Null}]
    BY <1>10, <2>1, <2>2, <2>4, <2>6
  <2> QED
    BY <2>4, <2>6, <2>7
<1> HIDE DEF d, j, h
<1>19. JournalStep(i, d.journal) /\ OpenAttempts(d.journal) = {} /\ Chained(d.journal)
  BY <1>11, <1>13, <1>14, <1>18
<1> QED
  BY <1>4, <1>6, <1>18, <1>19 DEF d, j, h

\* A batch that is awaited and commits.
LEMMA LandAwaitedAdvances ==
  ASSUME Sound, BatchOK, Leased, ChainOK, InStep, NEW b \in flight, LandBatch(b),
         Assertions(b), run[b.by].pc = "execute"
  PROVE  Advances
<1> DEFINE p == b.by
           l == run[p]
           m == NextArtifact(l)
           d == Committed(b)
<1>1. /\ p \in Proc /\ p \in online /\ Awaits(p, b)
  BY OwnBatch
<1>2. /\ l \in Run /\ LocalOK(l) /\ BatchRun(l) /\ l.pc = "execute" /\ txn[p] = NoTxn
  BY <1>1 DEF Sound, TypeOK, BatchOK, Sessions, SessionOK
<1>3. /\ d \in Database /\ d.lease = db.lease /\ JournalStep(db.journal, d.journal)
      /\ OpenAttempts(d.journal) = {} /\ Chained(d.journal)
  BY CommittedOK
<1>4. db' = d /\ Answer(p, m) /\ UNCHANGED <<txn, advisory, ddl, online>>
  BY <1>1 DEF LandBatch
<1> HIDE DEF d
<1>5. m.pc = "select" /\ m \in Run /\ LocalOK(m) /\ ~m.active
  BY <1>2, NextBatchRun
<1> HIDE DEF m
<1>6. /\ m.pc \in Critical /\ l.pc \in Critical /\ l.pc \notin {"idle", "close"}
      /\ m.pc \notin InPhase
  BY <1>2, <1>5 DEF Critical, ExecutorStep, InPhase
<1>7. Others(p)
  BY <1>1, <1>4, AnswerOthers
<1>8. Sound'
  BY <1>1, <1>3, <1>4, <1>5, <1>6, AnswerStep DEF Sound, TypeOK
<1>9. Leased'
  BY <1>1, <1>2, <1>3, <1>4, <1>6, <1>7, KeepLease
<1>10. ChainOK'
  BY <1>3, <1>4 DEF ChainOK
<1>11. Fits(m, txn'[p], db'.journal)
  BY <1>2, <1>3, <1>4, <1>5, OutsideFits DEF Attempting, InPhase
<1>12. Moved(p)
  BY <1>1, <1>3, <1>4, <1>6, <1>11, AnswerMoves
<1>13. UnderLease(p)
  BY <1>1, <1>6 DEF UnderLease
<1>14. Kept
  BY <1>1, <1>4, <1>7, <1>12, <1>13, LeasedExcludes, MovedKept
<1> QED
  BY <1>8, <1>9, <1>10, <1>14 DEF Advances

\* A batch whose sender has given it up commits only while the lease is still
\* the sender's: nobody else is under it.
LEMMA LandLateAdvances ==
  ASSUME Sound, BatchOK, Leased, ChainOK, InStep, NEW b \in flight, LandBatch(b),
         Assertions(b), run[b.by].pc # "execute"
  PROVE  Advances
<1> DEFINE d == Committed(b)
<1>1. b.by \in Proc /\ run[b.by].pc \in Aloft
  BY OwnBatch DEF BatchOK, Flights, FlightOK
<1>2. /\ d \in Database /\ d.lease = db.lease /\ JournalStep(db.journal, d.journal)
      /\ OpenAttempts(d.journal) = {} /\ Chained(d.journal)
  BY CommittedOK
<1>3. db' = d /\ UNCHANGED <<txn, advisory, ddl, online, run, faults>>
  BY OwnBatch DEF LandBatch
<1> HIDE DEF d
<1>4. Sound'
  BY <1>2, <1>3, SameRunsSound
<1>5. Leased'
  BY <1>2, <1>3 DEF Leased, LeaseOK, HoldsLease
<1>6. ChainOK'
  BY <1>2, <1>3 DEF ChainOK
<1>7. ASSUME NEW q \in Proc, UnderLease(q)
      PROVE  Fits(run[q], txn[q], db'.journal)
  <2>1. db.lease = q
    BY <1>7, BatchAssumption DEF Leased, LeaseOK, HoldsLease, UnderLease
  <2>2. q = b.by
    BY <2>1 DEF Assertions
  <2>3. GaveUp(run[q])
    BY <1>1, <2>2 DEF GaveUp, Aloft
  <2> QED
    BY <2>3, GaveUpFits
<1>8. InStep'
  <2>1. AtMostOneOpenAttempt'
    BY <1>2, <1>3 DEF AtMostOneOpenAttempt
  <2> QED
    BY <1>3, <1>7, <2>1 DEF InStep, UnderLease
<1> QED
  BY <1>2, <1>3, <1>4, <1>5, <1>6, <1>8 DEF Advances, Kept

\* A batch that is rejected changes its sender at most.
LEMMA LandRejectedAdvances ==
  ASSUME Sound, BatchOK, Leased, ChainOK, InStep, NEW b \in flight, LandBatch(b),
         ~Assertions(b)
  PROVE  Advances
<1> DEFINE p == b.by
<1>1. p \in Proc /\ UNCHANGED <<db, txn, advisory, ddl, online>>
  BY OwnBatch DEF LandBatch
<1>2. CASE run[p].pc = "execute"
  <2>1. Awaits(p, b) /\ p \in online
    BY <1>2, OwnBatch
  <2>2. Answer(p, Throw(run[p], "failed"))
    BY <2>1 DEF LandBatch
  <2>3. \E e \in {"failed", "uncertain"} : run' = [run EXCEPT ![p] = Throw(run[p], e)]
    BY <2>2 DEF Answer, Unanswered
  <2>4. faults' \in 0..MaxFaults
    BY <2>2, ExecutorAssumption DEF Answer, Sound, TypeOK
  <2>5. Sound'
    BY <1>1, <1>2, <2>1, <2>3, <2>4, ThrowStep DEF Sound, TypeOK
  <2>6. run[p] \in Run /\ run[p].pc \in Critical
    BY <1>1, <1>2 DEF Sound, TypeOK, Critical, ExecutorStep
  <2>7. GaveUp(run'[p]) /\ Others(p)
    BY <1>1, <1>2, <2>3, <2>6, ThrowGivesUp DEF Sound, TypeOK, Others
  <2> QED
    BY <1>1, <2>1, <2>5, <2>6, <2>7, QuietAdvances
<1>3. CASE run[p].pc # "execute"
  <2>1. UNCHANGED <<run, faults>>
    BY <1>3, OwnBatch DEF LandBatch
  <2> QED
    BY <1>1, <2>1, ExecutorAdvances DEF vars
<1> QED
  BY <1>2, <1>3

\* Every step of a batch session, and every batch that arrives.
LEMMA NextAdvances ==
  ASSUME Sound, BatchOK, Leased, ChainOK, InStep, [BatchNext]_batchVars
  PROVE  Advances /\ BatchOK'
<1>1. BatchOK'
  BY NextBatchOK DEF batchVars, BatchOK, Sessions, SessionOK, Flights, FlightOK
<1>2. ASSUME NEW p \in Proc, StartBatchRun(p) \/ StartBatchReconcile(p)
      PROVE  Advances
  BY <1>2, StartBatchRunAdvances, ExecutorAdvances DEF StartBatchReconcile, Next
<1>3. ASSUME NEW p \in Proc, Shared(p)
      PROVE  Advances
  <2>1. MarkBatchRunning(p) \/ Continue(p) \/ Crash(p) \/ Fail(p)
    BY <1>3 DEF Shared, Continue
  <2> QED
    BY <2>1, MarkBatchRunningAdvances, ExecutorAdvances DEF Next
<1>4. ASSUME NEW p \in Proc, RefuseBatch(p) \/ GiveUpBatch(p)
      PROVE  Fail(p)
  <2>1. /\ p \in online /\ run[p].pc = "execute" /\ faults < MaxFaults
        /\ faults' = faults + 1 /\ UNCHANGED <<db, txn, advisory, ddl, online>>
    BY <1>4 DEF RefuseBatch, GiveUpBatch, At
  <2>2. \E e \in {"failed", "uncertain"} : run' = [run EXCEPT ![p] = Throw(run[p], e)]
    BY <1>4 DEF RefuseBatch, GiveUpBatch, Classify
  <2>3. ErrorKinds(run[p]) = {"failed", "uncertain"}
    BY <2>1 DEF ErrorKinds
  <2> QED
    BY <2>1, <2>2, <2>3 DEF Fail
<1>5. ASSUME NEW p \in Proc,
             PrepareBatch(p) \/ FailPreparation(p) \/ RefuseBatch(p) \/ GiveUpBatch(p)
      PROVE  Advances
  BY <1>4, <1>5, PrepareBatchAdvances, FailPreparationAdvances, ExecutorAdvances DEF Next
<1>6. ASSUME NEW b \in flight, LandBatch(b)
      PROVE  Advances
  BY <1>6, LandAwaitedAdvances, LandLateAdvances, LandRejectedAdvances
<1>7. ASSUME Repair \/ ClearLeaseRow \/ ForeignChange
      PROVE  Advances
  BY <1>7, ForeignChangeAdvances, ExecutorAdvances DEF Next
<1>8. ASSUME UNCHANGED batchVars
      PROVE  Advances
  BY <1>8, ExecutorAdvances DEF batchVars, vars
<1> QED
  BY <1>1, <1>2, <1>3, <1>5, <1>6, <1>7, <1>8 DEF BatchNext

-----------------------------------------------------------------------------
(* The theorems. *)

\* The invariants of the executor, and what batches add to them.
BatchInv == Sound /\ BatchOK /\ Leased /\ ChainOK /\ InStep

\* It holds before the first session.
LEMMA InitBatchInv ==
  ASSUME BatchInit
  PROVE  BatchInv
<1>1. Init /\ flight = {} /\ used = {}
  BY DEF BatchInit
<1>2. Sound /\ ChainOK
  BY <1>1, InitSound, EmptyChained DEF Init, ChainOK
<1>3. InStep
  BY <1>1 DEF Init, InStep, AtMostOneOpenAttempt, UnderLease, OpenAttempts, StateOf,
              EmptyJournal, NoAttempt, Unresolved
<1>4. Leased
  BY <1>1 DEF Init, Leased, LeaseOK
<1>5. BatchOK
  <2>1. ASSUME NEW p \in Proc PROVE SessionOK(p)
    <3>1. run[p] = Idle /\ txn[p] = NoTxn
      BY <1>1 DEF Init
    <3> QED
      BY <3>1 DEF SessionOK, BatchRun, BatchStep, Idle, ExecutorStep, Planning
  <2> QED
    BY <1>1, <2>1 DEF BatchOK, Sessions, Flights
<1> QED
  BY <1>2, <1>3, <1>4, <1>5 DEF BatchInv

\* What a run on a batch session has read under the lease, and what every batch
\* on its way was prepared on, is as its await says, in every reachable state.
THEOREM BatchInvAlways == BatchSpec => []BatchInv
<1>1. BatchInit => BatchInv
  BY InitBatchInv
<1>2. BatchInv /\ [BatchNext]_batchVars => BatchInv'
  BY NextAdvances DEF BatchInv, Advances, Kept
<1> QED
  BY <1>1, <1>2, PTL DEF BatchSpec

\* BatchTypeOK: every variable keeps its type, the batches on their way too.
THEOREM BatchTypeCorrect == BatchSpec => []BatchTypeOK
<1>1. BatchInv => BatchTypeOK
  BY DEF BatchInv, Sound, BatchOK, BatchTypeOK
<1> QED
  BY <1>1, BatchInvAlways, PTL

\* LateBatchIsFenced: a batch that could still commit belongs to the one attempt
\* that keeps later runs out, and nobody but its sender is under the lease.
THEOREM LateBatchFenced == BatchSpec => []LateBatchIsFenced
<1>1. ASSUME BatchInv, NEW b \in flight, Assertions(b)
      PROVE  /\ OpenAttempts(db.journal) = {b.attempt}
             /\ \A p \in Proc : UnderLease(p) => p = b.by
  <2>1. OpenAttempts(db.journal) = {b.attempt}
    BY <1>1, CommittedOK DEF BatchInv
  <2>2. ASSUME NEW p \in Proc, UnderLease(p) PROVE p = b.by
    BY <1>1, <2>2, BatchAssumption
    DEF BatchInv, Leased, LeaseOK, HoldsLease, UnderLease, Assertions
  <2> QED
    BY <2>1, <2>2
<1>2. BatchInv => LateBatchIsFenced
  BY <1>1 DEF LateBatchIsFenced
<1> QED
  BY <1>2, BatchInvAlways, PTL

\* AtMostOneOpenAttempt: the journal never has two attempts without an outcome,
\* although batches arrive behind the backs of their senders.
THEOREM BatchOneOpenAttempt == BatchSpec => []AtMostOneOpenAttempt
<1>1. BatchInv => AtMostOneOpenAttempt
  BY DEF BatchInv, InStep
<1> QED
  BY <1>1, BatchInvAlways, PTL

\* HistoryIsImmutable: nor does a batch that arrives late rewrite the history, a
\* settled attempt or an audit record.
THEOREM BatchHistoryNeverRewritten == BatchSpec => HistoryIsImmutable
<1>1. BatchInv /\ [BatchNext]_batchVars => [Immutable]_vars
  <2> SUFFICES ASSUME BatchInv, [BatchNext]_batchVars
               PROVE  Immutable
    OBVIOUS
  <2>1. db.journal \in Journal /\ JournalStep(db.journal, db'.journal)
    BY NextAdvances DEF BatchInv, Advances, Kept, Sound, TypeOK, Database
  <2>2. Preserves(db.journal, db'.journal)
    BY <2>1, StepPreserves
  <2> QED
    BY <2>2 DEF Preserves, Immutable
<1> QED
  BY <1>1, BatchInvAlways, PTL DEF BatchSpec, HistoryIsImmutable

\* LedgerSpec: sessions on batches implement the same ledger as those on
\* transactions.
THEOREM BatchImplementsLedger == BatchSpec => LedgerSpec
<1>1. BatchInit => Ledger!Init
  BY InitLedger DEF BatchInit
<1>2. BatchInv /\ [BatchNext]_batchVars
      => [Ledger!Next]_<<[n \in 1..Len(db.journal.applied) |-> db.journal.applied[n].artifact],
                         OpenAttempts(db.journal)>>
  <2> SUFFICES ASSUME BatchInv, [BatchNext]_batchVars
               PROVE  \/ Ledger!Next
                      \/ /\ HistoryOf(db'.journal) = HistoryOf(db.journal)
                         /\ OpenAttempts(db'.journal) = OpenAttempts(db.journal)
    BY DEF HistoryOf
  <2>1. Sound /\ LinearLedger /\ InStep /\ Kept
    BY NextAdvances DEF BatchInv, Advances, ChainOK, LinearLedger
  <2> QED
    BY <2>1, KeptIsLedgerStep
<1> QED
  BY <1>1, <1>2, BatchInvAlways, PTL DEF BatchSpec, LedgerSpec, Ledger!Spec

-----------------------------------------------------------------------------
(* What batches do to the schema.  That a batch of an artifact lands on the *)
(* schema its artifact was planned for, and that a definite error leaves    *)
(* nothing of it behind, now or later, rests on what each run has read and   *)
(* on what each batch on its way still has to find.                         *)

\* The run of l may still be called rolled back without a look at the database.
Definite(l) == l.pc = "conclude" /\ l.error # "uncertain"

\* The awaits at which nothing of the attempt of l is in the database.
Pending(l) == l.pc \in {"start", "begin", "execute"} \/ Definite(l)

\* A batch is neither an effect nor a commit to the flags of its run.
Plain(l) ==
  /\ ~l.effect /\ ~l.committed
  /\ l.pc # "idle" => l.repo \in Repositories

\* What the run of p under the lease knows of the database d and the batches F
\* on their way.
Informed(p, l, d, F) ==
  /\ l.pc \in Planning => HistoryIs(l.repo, d.journal, l.n - 1)
  /\ l.pc = "create" \/ Pending(l) => Absent(ArtifactOf(l), d)
  /\ Pending(l) =>
       /\ d.journal.attempts[l.attempt].artifact = ArtifactOf(l)
       /\ \A b \in F : b.attempt = l.attempt => b.by = p /\ l.pc = "execute"
  /\ Definite(l) => \A b \in F : b.by # p
  /\ l.pc \in {"history", "audit", "resolve"} =>
       StateOf(d.journal, l.attempt) = "recovery_required"
  /\ l.pc \in {"require", "history", "audit", "resolve"} =>
       Proven(d, l.attempt, l.outcome)
  /\ l.pc \in {"audit", "resolve"} =>
       (l.outcome = "applied" <=> l.attempt \in RecordedBy(d.journal))

\* Records, attempts and the schema agree, and no attempt is at a change of others.
Registered(d) ==
  /\ RecordsOK(d.journal)
  /\ Complete(d)
  /\ \A k \in AttemptId : d.journal.attempts[k].artifact \notin Foreign

\* What a batch on its way still has to find in the journal.
Addressed(b, j) ==
  /\ j.attempts[b.attempt].artifact = b.artifact
  /\ StateOf(j, b.attempt) = "running" =>
       b.catalog = UNION {Effects(a) : a \in Recorded(j)}

AllAddressed(F, j) == \A b \in F : Addressed(b, j)

\* No attempt but rolled back ones has been made at a.
RolledBackIn(j, a) ==
  /\ \E k \in AttemptId : j.attempts[k].artifact = a
  /\ \A k \in AttemptId : j.attempts[k].artifact = a => StateOf(j, k) = "rolled_back"

RolledBackAbsent(d) ==
  \A a \in Artifact : RolledBackIn(d.journal, a) => Absent(a, d)

\* What is committed, with the batches F on their way to it.
Accounted(d, F) == Registered(d) /\ AllAddressed(F, d.journal) /\ RolledBackAbsent(d)

Faithful ==
  /\ Accounted(db, flight)
  /\ \A p \in Proc : Plain(run[p])
  /\ \A p \in Proc : UnderLease(p) => Informed(p, run[p], db, flight)

-----------------------------------------------------------------------------
(* What a step may make of the committed database and the batches.          *)

\* No two artifacts have an effect in common.
LEMMA EffectsApart ==
  ASSUME NEW a, NEW b, a # b
  PROVE  Effects(a) \cap Effects(b) = {}
BY DEF Effects

\* An attempt at an artifact is one that was made.
LEMMA AttemptMade ==
  ASSUME NEW j \in Journal, NEW k \in AttemptId, j.attempts[k].artifact \in Artifact
  PROVE  StateOf(j, k) \in AttemptState
<1>1. j.attempts[k] \in Attempt
  BY DEF Journal
<1> QED
  BY <1>1, ArtifactAssumption DEF Attempt, NoAttempt, StateOf

\* A database with the same attempts, records and schema, and no new batch.
LEMMA SameAccounted ==
  ASSUME NEW d, NEW F, Accounted(d, F), NEW e, NEW G, G \subseteq F,
         e.schema = d.schema, e.journal.attempts = d.journal.attempts,
         e.journal.applied = d.journal.applied
  PROVE  Accounted(e, G)
<1>1. Recorded(e.journal) = Recorded(d.journal)
  BY DEF Recorded
<1>2. RecordsOK(e.journal) /\ Complete(e)
  BY SameRecords, LargerComplete DEF Accounted, Registered
<1> QED
  BY <1>1, <1>2
     DEF Accounted, Registered, AllAddressed, Addressed, RolledBackAbsent, RolledBackIn, Absent, StateOf

\* createAttempt at an artifact of a repository that has no record.
LEMMA CreateAccounted ==
  ASSUME NEW d, NEW F, Accounted(d, F), F \subseteq Batch, d.journal \in Journal,
         NEW k \in AttemptId, CanCreate(d.journal, k),
         NEW a \in Artifact \ Foreign, a \notin Recorded(d.journal), NEW h \in Digest,
         NEW e, e.journal = CreateAttempt(d.journal, k, a, h), e.schema = d.schema
  PROVE  Accounted(e, F) /\ \A b \in F : b.attempt # k
<1> DEFINE i == d.journal
           j == CreateAttempt(i, k, a, h)
<1>1. /\ j.applied = i.applied /\ j.attempts[k].artifact = a /\ StateOf(j, k) = "started"
      /\ \A m \in AttemptId \ {k} : j.attempts[m] = i.attempts[m]
  BY CreateChanges
<1>2. StateOf(i, k) \notin AttemptState
  BY DEF CanCreate, AttemptState, Terminal, Unresolved
<1>3. i.attempts[k].artifact \notin Artifact
  BY <1>2, AttemptMade
<1> HIDE DEF j
<1>4. Recorded(j) = Recorded(i)
  BY <1>1 DEF Recorded
<1>5. RecordsOK(j)
  BY CreateRecords DEF Accounted, Registered, j
<1>6. \A n \in 1..Len(i.applied) : i.applied[n].attempt \in AttemptId \ {k}
  <2> SUFFICES ASSUME NEW n \in 1..Len(i.applied)
               PROVE  i.applied[n].attempt \in AttemptId \ {k}
    OBVIOUS
  <2>1. i.applied[n].artifact \in Artifact /\ i.applied[n].attempt \in AttemptId
    BY RecordType
  <2>2. i.attempts[i.applied[n].attempt].artifact = i.applied[n].artifact
    BY DEF Accounted, Registered, Complete, OwnRecords
  <2> QED
    BY <1>3, <2>1, <2>2
<1>7. Complete(e)
  <2>1. OwnRecords(j)
    BY <1>1, <1>6 DEF OwnRecords, Accounted, Registered, Complete
  <2>2. AppliedIn(j, e.schema)
    BY <1>1 DEF AppliedIn, Accounted, Registered, Complete, StateOf
  <2> QED
    BY <2>1, <2>2 DEF Complete, j
<1>8. \A m \in AttemptId : j.attempts[m].artifact \notin Foreign
  BY <1>1 DEF Accounted, Registered
<1>9. \A b \in F : b.attempt \in AttemptId \ {k}
  BY <1>3 DEF Accounted, AllAddressed, Addressed, Batch
<1>10. AllAddressed(F, j)
  BY <1>1, <1>4, <1>9 DEF Accounted, AllAddressed, Addressed, StateOf
<1>11. RolledBackAbsent(e)
  <2> SUFFICES ASSUME NEW x \in Artifact, RolledBackIn(j, x)
               PROVE  Absent(x, e)
    BY DEF RolledBackAbsent, j
  <2>1. x # a
    BY <1>1 DEF RolledBackIn
  <2>2. RolledBackIn(i, x)
    BY <1>1, <1>3, <2>1 DEF RolledBackIn, StateOf
  <2>3. Absent(x, d)
    BY <2>2 DEF Accounted, RolledBackAbsent
  <2> QED
    BY <1>4, <2>3 DEF Absent, j
<1> QED
  BY <1>5, <1>7, <1>8, <1>9, <1>10, <1>11 DEF Accounted, Registered, j

\* transitionAttempt: to applied with the record and the effects there, to
\* rolled_back with neither of them, to running before the batch is sent.
LEMMA TransitionAccounted ==
  ASSUME NEW d, NEW F, Accounted(d, F), F \subseteq Batch, d.journal \in Journal,
         NEW k \in AttemptId, NEW s, CanTransition(d.journal, k, s),
         s = "applied" => /\ k \in RecordedBy(d.journal)
                          /\ Effects(d.journal.attempts[k].artifact) \subseteq d.schema,
         s = "rolled_back" => Absent(d.journal.attempts[k].artifact, d),
         s = "running" => \A b \in F : b.attempt # k,
         NEW e, e.journal = TransitionAttempt(d.journal, k, s), e.schema = d.schema
  PROVE  Accounted(e, F)
<1> DEFINE i == d.journal
           j == TransitionAttempt(i, k, s)
<1>1. /\ j.applied = i.applied /\ j.attempts[k].artifact = i.attempts[k].artifact
      /\ StateOf(j, k) = s
      /\ \A m \in AttemptId \ {k} : j.attempts[m] = i.attempts[m]
  BY TransitionChanges
<1>2. RecordsOK(j)
  BY TransitionRecords DEF Accounted, Registered
<1>3. Complete(e)
  BY TransitionComplete DEF Accounted, Registered
<1> HIDE DEF j
<1>4. Recorded(j) = Recorded(i)
  BY <1>1 DEF Recorded
<1>5. \A m \in AttemptId : j.attempts[m].artifact = i.attempts[m].artifact
  BY <1>1
<1>6. AllAddressed(F, j)
  BY <1>1, <1>4, <1>5 DEF Accounted, AllAddressed, Addressed, StateOf, Batch
<1>7. RolledBackAbsent(e)
  <2> SUFFICES ASSUME NEW x \in Artifact, RolledBackIn(j, x)
               PROVE  Absent(x, e)
    BY DEF RolledBackAbsent, j
  <2>1. CASE i.attempts[k].artifact = x
    <3>1. s = "rolled_back"
      BY <1>1, <1>5, <2>1 DEF RolledBackIn
    <3> QED
      BY <1>4, <2>1, <3>1 DEF Absent, j
  <2>2. CASE i.attempts[k].artifact # x
    <3>1. RolledBackIn(i, x)
      BY <1>1, <1>5, <2>2 DEF RolledBackIn, StateOf
    <3>2. Absent(x, d)
      BY <3>1 DEF Accounted, RolledBackAbsent
    <3> QED
      BY <1>4, <3>2 DEF Absent, j
  <2> QED
    BY <2>1, <2>2
<1> QED
  BY <1>2, <1>3, <1>5, <1>6, <1>7 DEF Accounted, Registered, j

\* A record of the one open attempt, of which no batch is to arrive.
LEMMA AppendAccounted ==
  ASSUME NEW d, NEW F, Accounted(d, F), F \subseteq Batch, d.journal \in Journal,
         NEW k \in AttemptId, OpenAttempts(d.journal) = {k},
         StateOf(d.journal, k) # "running",
         NEW a \in Artifact, d.journal.attempts[k].artifact = a,
         NEW e, e.journal = AppendAppliedAndAdvanceHead(d.journal, a, k),
         e.schema = d.schema
  PROVE  Accounted(e, F)
<1> DEFINE i == d.journal
           j == AppendAppliedAndAdvanceHead(i, a, k)
<1>1. /\ j.attempts = i.attempts
      /\ Len(i.applied) \in Nat /\ Len(j.applied) = Len(i.applied) + 1
      /\ \A n \in 1..Len(i.applied) : j.applied[n] = i.applied[n]
      /\ j.applied[Len(i.applied) + 1].artifact = a
  BY AppendChanges
<1>2. RecordsOK(j)
  BY AppendRecords DEF Accounted, Registered
<1>3. Complete(e)
  BY AppendComplete DEF Accounted, Registered
<1> HIDE DEF j
<1>4. Recorded(j) \subseteq Recorded(i) \cup {a}
  <2> SUFFICES ASSUME NEW n \in 1..Len(j.applied), n \notin 1..Len(i.applied)
               PROVE  n = Len(i.applied) + 1
    BY <1>1 DEF Recorded
  <2> QED
    BY <1>1
<1>5. \A m \in AttemptId : StateOf(i, m) # "running"
  BY DEF OpenAttempts, Unresolved
<1>6. AllAddressed(F, j)
  BY <1>1, <1>5 DEF Accounted, AllAddressed, Addressed, StateOf, Batch
<1>7. StateOf(i, k) # "rolled_back"
  BY DEF OpenAttempts, Unresolved
<1>8. RolledBackAbsent(e)
  <2> SUFFICES ASSUME NEW x \in Artifact, RolledBackIn(j, x)
               PROVE  Absent(x, e)
    BY DEF RolledBackAbsent, j
  <2>1. x # a
    BY <1>1, <1>7 DEF RolledBackIn, StateOf
  <2>2. Absent(x, d)
    BY <1>1 DEF Accounted, RolledBackAbsent, RolledBackIn, StateOf
  <2> QED
    BY <1>4, <2>1, <2>2 DEF Absent, j
<1> QED
  BY <1>1, <1>2, <1>3, <1>6, <1>8 DEF Accounted, Registered, j

\* What a batch commits.
LEMMA CommittedAccounted ==
  ASSUME Sound, BatchOK, ChainOK, InStep, Accounted(db, flight),
         NEW b \in flight, Assertions(b), NEW F, F \subseteq flight
  PROVE  Accounted(Committed(b), F)
<1> DEFINE d == Committed(b)
           i == db.journal
           k == b.attempt
           a == b.artifact
           h == AppendAppliedAndAdvanceHead(i, a, k)
           j == TransitionAttempt(h, k, "applied")
           grown == [db EXCEPT !.schema = @ \cup Effects(a)]
           recorded == [grown EXCEPT !.journal = h]
<1>1. /\ a \in Artifact /\ k \in AttemptId /\ b.head \in Digest
      /\ i \in Journal /\ Chained(i) /\ db \in Database
  BY OwnBatch DEF Sound, TypeOK, Database, ChainOK
<1>2. /\ d.journal = j /\ d.schema = db.schema \cup Effects(a)
      /\ OpenAttempts(i) = {k} /\ OpenAttempts(j) = {}
      /\ CanAppend(i, a, k, b.head) /\ StateOf(i, k) = "running"
  BY CommittedOK DEF Assertions
<1> HIDE DEF d
<1>3. /\ h.attempts = i.attempts
      /\ Len(i.applied) \in Nat /\ Len(h.applied) = Len(i.applied) + 1
      /\ \A n \in 1..Len(i.applied) : h.applied[n] = i.applied[n]
      /\ h.applied[Len(i.applied) + 1].artifact = a
  BY <1>1, AppendChanges
<1>4. h \in Journal
  BY <1>1, <1>2, AppendType
<1>5. CanTransition(h, k, "applied")
  BY <1>2, <1>3 DEF CanTransition, transitions, StateOf
<1>6. i.attempts[k].artifact = a
  BY DEF Accounted, AllAddressed, Addressed
<1>7. RecordsOK(h) /\ k \in RecordedBy(h)
  BY <1>1, <1>2, AppendRecords DEF Accounted, Registered
<1>8. RecordsOK(j)
  BY <1>1, <1>4, <1>5, <1>7, TransitionRecords
<1>9. /\ grown.journal = i /\ grown.schema = db.schema \cup Effects(a)
      /\ recorded.journal = h /\ recorded.schema = grown.schema
  BY <1>1 DEF Database
<1> HIDE DEF h, grown, recorded
<1>10. Complete(grown)
  BY <1>9, LargerComplete DEF Accounted, Registered
<1>11. Complete(recorded)
  BY <1>1, <1>6, <1>9, <1>10, AppendComplete DEF h
<1>12. Effects(h.attempts[k].artifact) \subseteq recorded.schema
  BY <1>3, <1>6, <1>9
<1>13. Complete(d)
  BY <1>1, <1>2, <1>4, <1>5, <1>9, <1>11, <1>12, TransitionComplete
<1>14. /\ j.applied = h.applied
       /\ \A m \in AttemptId : j.attempts[m].artifact = i.attempts[m].artifact
       /\ \A m \in AttemptId \ {k} : j.attempts[m] = i.attempts[m]
       /\ StateOf(j, k) = "applied"
  BY <1>1, <1>3, <1>4, <1>5, TransitionChanges
<1> HIDE DEF j
<1>15. \A m \in AttemptId : StateOf(j, m) # "running"
  BY <1>2 DEF OpenAttempts, Unresolved
<1>16. AllAddressed(F, j)
  BY <1>14, <1>15 DEF Accounted, AllAddressed, Addressed, BatchOK, Batch
<1>17. Recorded(j) \subseteq Recorded(i) \cup {a}
  <2> SUFFICES ASSUME NEW n \in 1..Len(j.applied), n \notin 1..Len(i.applied)
               PROVE  n = Len(i.applied) + 1
    BY <1>3, <1>14 DEF Recorded
  <2> QED
    BY <1>3, <1>14
<1>18. RolledBackAbsent(d)
  <2> SUFFICES ASSUME NEW x \in Artifact, RolledBackIn(j, x)
               PROVE  Absent(x, d)
    BY <1>2 DEF RolledBackAbsent
  <2>1. x # a
    BY <1>1, <1>6, <1>14 DEF RolledBackIn
  <2>2. RolledBackIn(i, x)
    BY <1>6, <1>14, <2>1 DEF RolledBackIn, StateOf
  <2>3. Absent(x, db)
    BY <2>2 DEF Accounted, RolledBackAbsent
  <2>4. Effects(x) \cap Effects(a) = {}
    BY <2>1, EffectsApart
  <2> QED
    BY <1>2, <1>17, <2>1, <2>3, <2>4 DEF Absent
<1> QED
  BY <1>2, <1>8, <1>13, <1>14, <1>16, <1>18 DEF Accounted, Registered, d

\* The effects of an artifact may come and go, as far as the journal is concerned,
\* if none of its attempts is applied and not all were rolled back.
LEMMA SchemaAccounted ==
  ASSUME NEW d, NEW F, Accounted(d, F), NEW a,
         \A k \in AttemptId :
           d.journal.attempts[k].artifact = a => StateOf(d.journal, k) # "applied",
         ~RolledBackIn(d.journal, a),
         NEW e, e.journal = d.journal,
         e.schema \in {d.schema \cup Effects(a), d.schema \ Effects(a)}
  PROVE  Accounted(e, F)
<1> DEFINE i == d.journal
<1>1. \A k \in AttemptId :
        StateOf(i, k) = "applied" => Effects(i.attempts[k].artifact) \subseteq e.schema
  <2> SUFFICES ASSUME NEW k \in AttemptId, StateOf(i, k) = "applied"
               PROVE  Effects(i.attempts[k].artifact) \subseteq e.schema
    OBVIOUS
  <2>1. Effects(i.attempts[k].artifact) \subseteq d.schema
    BY DEF Accounted, Registered, Complete, AppliedIn
  <2>2. Effects(i.attempts[k].artifact) \cap Effects(a) = {}
    BY EffectsApart
  <2> QED
    BY <2>1, <2>2
<1>2. Complete(e)
  BY <1>1 DEF Accounted, Registered, Complete, AppliedIn
<1>3. RolledBackAbsent(e)
  <2> SUFFICES ASSUME NEW x \in Artifact, RolledBackIn(i, x)
               PROVE  Absent(x, e)
    BY DEF RolledBackAbsent
  <2>1. Absent(x, d) /\ x # a
    BY DEF Accounted, RolledBackAbsent
  <2>2. Effects(x) \cap Effects(a) = {}
    BY <2>1, EffectsApart
  <2> QED
    BY <2>1, <2>2 DEF Absent
<1> QED
  BY <1>2, <1>3 DEF Accounted, Registered

\* Others change the schema by what is no artifact of a repository.
LEMMA ForeignAccounted ==
  ASSUME TypeOK, Accounted(db, flight), ForeignChange
  PROVE  /\ Accounted(db', flight) /\ db'.journal = db.journal
         /\ \A a \in Artifact \ Foreign :
              Effects(a) \cap db'.schema = Effects(a) \cap db.schema
<1>1. PICK a \in Foreign :
        \E schema \in {db.schema \cup Effects(a), db.schema \ Effects(a)} :
          db' = [db EXCEPT !.schema = schema]
  BY DEF ForeignChange
<1>2. /\ db'.journal = db.journal
      /\ db'.schema \in {db.schema \cup Effects(a), db.schema \ Effects(a)}
  BY <1>1 DEF TypeOK, Database
<1>3. \A k \in AttemptId : db.journal.attempts[k].artifact # a
  BY DEF Accounted, Registered
<1>4. Accounted(db', flight)
  BY <1>2, <1>3, SchemaAccounted DEF RolledBackIn
<1>5. ASSUME NEW x \in Artifact \ Foreign
      PROVE  Effects(x) \cap db'.schema = Effects(x) \cap db.schema
  <2>1. Effects(x) \cap Effects(a) = {}
    BY EffectsApart
  <2> QED
    BY <1>2, <2>1
<1> QED
  BY <1>2, <1>4, <1>5

\* An operator changes it by the effects of an attempt that awaits its outcome.
LEMMA RepairAccounted ==
  ASSUME TypeOK, Accounted(db, flight), Repair
  PROVE  Accounted(db', flight)
<1> DEFINE i == db.journal
<1>1. PICK k \in OpenAttempts(i) :
        \E schema \in {db.schema \cup Effects(i.attempts[k].artifact),
                       db.schema \ Effects(i.attempts[k].artifact)} :
          db' = [db EXCEPT !.schema = schema]
  BY DEF Repair
<1> DEFINE a == i.attempts[k].artifact
<1>2. /\ db'.journal = i /\ db'.schema \in {db.schema \cup Effects(a), db.schema \ Effects(a)}
  BY <1>1 DEF TypeOK, Database
<1>3. k \in AttemptId /\ StateOf(i, k) \notin {"applied", "rolled_back"}
  BY DEF OpenAttempts, Unresolved
<1>4. ASSUME NEW m \in AttemptId, i.attempts[m].artifact = a
      PROVE  StateOf(i, m) # "applied"
  <2> SUFFICES ASSUME StateOf(i, m) = "applied"
               PROVE  FALSE
    OBVIOUS
  <2>1. PICK n \in 1..Len(i.applied) : i.applied[n].attempt = m
    BY DEF Accounted, Registered, RecordsOK, AppliedAttemptsRecorded, RecordedBy
  <2>2. i.applied[n].artifact = a
    BY <1>4, <2>1 DEF Accounted, Registered, Complete, OwnRecords
  <2>3. m = k
    BY <2>1, <2>2 DEF Accounted, Registered, RecordsOK, OpenUnrecorded
  <2> QED
    BY <1>3, <2>3
<1>5. ~RolledBackIn(i, a)
  BY <1>3 DEF RolledBackIn
<1> QED
  BY <1>2, <1>4, <1>5, SchemaAccounted

-----------------------------------------------------------------------------
(* What the step of a run must show.                                        *)

\* The assumptions every step is looked at under.
Briefed == BatchInv /\ Faithful

\* A run at one of these awaits knows nothing.
LEMMA NothingInformed ==
  ASSUME NEW p, NEW l, NEW d, NEW F,
         \/ l.pc \in {"idle", "lease", "read", "verify", "release", "close"}
         \/ l.pc = "conclude" /\ l.error = "uncertain"
  PROVE  Informed(p, l, d, F)
BY DEF Informed, Planning, Pending, Definite

\* What a run knows is a matter of journal and schema, and a batch that is gone
\* makes no difference.
LEMMA SameInformed ==
  ASSUME NEW p, NEW l, NEW d, NEW F, Informed(p, l, d, F),
         NEW e, e.journal = d.journal, e.schema = d.schema, NEW G, G \subseteq F
  PROVE  Informed(p, l, e, G)
BY DEF Informed, Absent, Proven

\* What is known of a run under the lease.
LEMMA AtInformed ==
  ASSUME Briefed, NEW p \in Proc, UnderLease(p)
  PROVE  /\ run[p] \in Run /\ LocalOK(run[p]) /\ BatchRun(run[p]) /\ Plain(run[p])
         /\ Informed(p, run[p], db, flight)
         /\ run[p].pc \notin {"idle", "close", "lease"} /\ run[p].pc \in Critical
         /\ db \in Database /\ db.journal \in Journal
         /\ txn[p] = NoTxn /\ View(p) = db /\ JournalOf(p) = db.journal
         /\ AttemptsFit(run[p], db.journal)
         /\ Accounted(db, flight) /\ flight \subseteq Batch
         /\ run \in [Proc -> Run]
<1>1. Sound /\ BatchOK /\ InStep /\ Faithful
  BY DEF Briefed, BatchInv
<1>2. /\ run[p] \in Run /\ LocalOK(run[p]) /\ db \in Database /\ run \in [Proc -> Run]
      /\ run[p].pc \in Critical
  BY <1>1 DEF Sound, TypeOK, UnderLease
<1>3. BatchRun(run[p]) /\ txn[p] = NoTxn /\ flight \subseteq Batch
  BY <1>1 DEF BatchOK, Sessions, SessionOK
<1>4. View(p) = db /\ JournalOf(p) = db.journal
  BY <1>3 DEF View, JournalOf
<1>5. Plain(run[p]) /\ Informed(p, run[p], db, flight) /\ Accounted(db, flight)
  BY <1>1 DEF Faithful
<1>6. AttemptsFit(run[p], db.journal) /\ db.journal \in Journal
  BY <1>1, <1>2 DEF InStep, Fits, Database
<1>7. run[p].pc \notin {"idle", "close", "lease"}
  BY <1>2 DEF Critical, ExecutorStep, ReconcileStep
<1> QED
  BY <1>2, <1>3, <1>4, <1>5, <1>6, <1>7

Told(p) ==
  /\ Accounted(db', flight')
  /\ Plain(run'[p])
  /\ Informed(p, run'[p], db', flight')

\* A step under the lease keeps the invariant: no other run is under it.
LEMMA ToldFaithful ==
  ASSUME Briefed, NEW p \in Proc, UnderLease(p), Others(p), online' = online, Told(p)
  PROVE  Faithful'
<1>1. ASSUME NEW q \in Proc
      PROVE  Plain(run'[q])
  BY DEF Told, Others, Briefed, Faithful
<1>2. ASSUME NEW q \in Proc, UnderLease(q)'
      PROVE  Informed(q, run'[q], db', flight')
  <2>1. CASE q = p
    BY <2>1 DEF Told
  <2>2. CASE q # p
    <3>1. UnderLease(q)
      BY <1>2, <2>2 DEF UnderLease, Others
    <3> QED
      BY <2>2, <3>1, LeasedExcludes DEF Briefed, BatchInv, LeaseExcludes
  <2> QED
    BY <2>1, <2>2
<1> QED
  BY <1>1, <1>2 DEF Faithful, Told

\* A step from outside the lease leaves everything but its own run as it is, and
\* that with nothing it would have to know.
LEMMA OutsideFaithful ==
  ASSUME Briefed, NEW p \in Proc, Others(p), online' \subseteq online \cup {p},
         db'.journal = db.journal, db'.schema = db.schema, flight' \subseteq flight,
         Plain(run'[p]), run'[p].pc \in {"idle", "lease", "read", "verify", "close"}
  PROVE  Faithful'
<1>1. Accounted(db', flight')
  BY SameAccounted DEF Briefed, Faithful
<1>2. ASSUME NEW q \in Proc
      PROVE  Plain(run'[q])
  BY DEF Others, Briefed, Faithful
<1>3. ASSUME NEW q \in Proc, UnderLease(q)'
      PROVE  Informed(q, run'[q], db', flight')
  <2>1. CASE q = p
    BY <2>1, NothingInformed
  <2>2. CASE q # p
    <3>1. UnderLease(q) /\ run'[q] = run[q]
      BY <1>3, <2>2 DEF UnderLease, Others
    <3>2. Informed(q, run[q], db, flight)
      BY <3>1 DEF Briefed, Faithful
    <3> QED
      BY <3>1, <3>2, SameInformed
  <2> QED
    BY <2>1, <2>2
<1> QED
  BY <1>1, <1>2, <1>3 DEF Faithful

\* An exception changes neither the flags nor the repository of a run.
LEMMA PlainThrow ==
  ASSUME NEW l \in Run, BatchRun(l), Plain(l), l.pc \notin {"idle", "close"},
         NEW e \in {"failed", "uncertain"}
  PROVE  Plain(Throw(l, e))
<1> DEFINE failed == [l EXCEPT !.error = e]
           m == Throw(l, e)
<1> SUFFICES Plain(m)
  OBVIOUS
<1>1. l.repo \in Repositories /\ ~l.effect /\ ~l.committed
  BY DEF Plain
<1>2. /\ failed \in Run /\ ~failed.active /\ ~failed.effect /\ ~failed.committed
      /\ failed.repo = l.repo
  BY <1>1 DEF BatchRun, Run
<1>3. ASSUME NEW k \in Run, ~k.effect, ~k.committed, k.repo = l.repo, NEW pc
      PROVE  Plain([k EXCEPT !.pc = pc])
  BY <1>1, <1>3 DEF Plain, Run
<1>4. CASE l.pc \in {"lease", "read", "select", "create", "start"} \cup ReconcileStep
  <2>1. m = [failed EXCEPT !.pc = IF l.pc = "lease" THEN "close" ELSE "release"]
    BY <1>4 DEF Throw, ReconcileStep
  <2> HIDE DEF m, failed
  <2> QED
    BY <1>2, <1>3, <2>1
<1>5. CASE l.pc \in {"begin", "execute"}
  <2>1. failed.error = e /\ ~failed.locked
    BY DEF BatchRun, Run
  <2>2. m = [failed EXCEPT !.pc = "conclude"]
    BY <1>2, <1>5, <2>1 DEF Throw, ReconcileStep, Catch, Finally, AfterFinally
  <2> HIDE DEF m, failed
  <2> QED
    BY <1>2, <1>3, <2>2
<1>6. CASE l.pc = "conclude"
  <2>1. m = [l EXCEPT !.pc = "release"]
    BY <1>6 DEF Throw, ReconcileStep
  <2> HIDE DEF m
  <2> QED
    BY <1>1, <1>3, <2>1
<1>7. CASE l.pc = "release"
  <2>1. m = [l EXCEPT !.pc = "close", !.error = IF @ = "none" THEN e ELSE @]
    BY <1>7 DEF Throw, ReconcileStep
  <2>2. ~m.effect /\ ~m.committed /\ m.repo = l.repo
    BY <1>1, <2>1 DEF Run
  <2> QED
    BY <1>1, <2>2 DEF Plain
<1> QED
  BY <1>4, <1>5, <1>6, <1>7 DEF BatchRun, BatchStep

\* A run that throws knows at most that nothing has happened, and that its batch is
\* not on its way.
LEMMA ThrowTold ==
  ASSUME Briefed, NEW p \in Proc, UnderLease(p), Accounted(db', flight'),
         NEW e \in {"failed", "uncertain"}, run' = [run EXCEPT ![p] = Throw(run[p], e)],
         run[p].pc \in {"begin", "execute"} /\ e = "failed" =>
           /\ db'.journal = db.journal /\ db'.schema = db.schema
           /\ flight' \subseteq flight /\ \A b \in flight' : b.by # p
  PROVE  Told(p)
<1> DEFINE l == run[p]
           m == Throw(l, e)
<1>1. /\ l \in Run /\ BatchRun(l) /\ Plain(l) /\ l.pc \notin {"idle", "close", "lease"}
      /\ Informed(p, l, db, flight) /\ run' = [run EXCEPT ![p] = m]
      /\ run \in [Proc -> Run]
  BY AtInformed
<1>2. run'[p] = m
  BY <1>1
<1>3. /\ m.repo = l.repo /\ m.n = l.n /\ m.attempt = l.attempt
      /\ m.pc = IF l.pc = "release" THEN "close"
                ELSE IF l.pc \in {"begin", "execute"} THEN "conclude" ELSE "release"
      /\ l.pc \in {"begin", "execute"} => m.error = e
  BY <1>1, BatchThrow
<1>4. Plain(m)
  BY <1>1, PlainThrow
<1> HIDE DEF m
<1>5. CASE l.pc \in {"begin", "execute"} /\ e = "failed"
  <2>1. Informed(p, l, db', flight')
    BY <1>1, <1>5, SameInformed
  <2>2. ArtifactOf(m) = ArtifactOf(l)
    BY <1>3 DEF ArtifactOf
  <2>3. Pending(l) /\ m.pc = "conclude"
    BY <1>3, <1>5 DEF Pending
  <2>4. Informed(p, m, db', flight')
    BY <1>3, <1>5, <2>1, <2>2, <2>3 DEF Informed, Planning
  <2> QED
    BY <1>2, <1>4, <2>4 DEF Told
<1>6. CASE ~(l.pc \in {"begin", "execute"} /\ e = "failed")
  <2>1. Informed(p, m, db', flight')
    BY <1>3, <1>6, NothingInformed
  <2> QED
    BY <1>2, <1>4, <2>1 DEF Told
<1> QED
  BY <1>5, <1>6

\* A run whose call returns, or is not answered.
LEMMA AnswerTold ==
  ASSUME Briefed, NEW p \in Proc, UnderLease(p), run[p].pc # "begin",
         Accounted(db', flight'), NEW l, Answer(p, l), Plain(l),
         Informed(p, l, db', flight')
  PROVE  Told(p)
<1>1. CASE run' = [run EXCEPT ![p] = l]
  BY <1>1, AtInformed DEF Told
<1>2. CASE run' = [run EXCEPT ![p] = Throw(run[p], Unanswered(run[p]))]
  <2>1. /\ Unanswered(run[p]) \in {"failed", "uncertain"}
        /\ run[p].pc = "execute" => Unanswered(run[p]) = "uncertain"
    BY DEF Unanswered
  <2> QED
    BY <1>2, <2>1, ThrowTold
<1> QED
  BY <1>1, <1>2 DEF Answer

\* A run that goes on by itself, or throws before it has sent a batch.
LEMMA ProceedTold ==
  ASSUME Briefed, NEW p \in Proc, UnderLease(p), flight' = flight,
         NEW l, Proceed(p, l), Plain(l), Informed(p, l, db, flight)
  PROVE  Told(p)
BY AtInformed DEF Proceed, Told

LEMMA RejectTold ==
  ASSUME Briefed, NEW p \in Proc, UnderLease(p), run[p].pc # "execute",
         flight' = flight, Reject(p, "failed")
  PROVE  Told(p)
<1>1. db' = db /\ run' = [run EXCEPT ![p] = Throw(run[p], "failed")]
  BY DEF Reject, Proceed
<1>2. run[p].pc = "begin" => \A b \in flight : b.by # p
  BY NoneAloft DEF Aloft, Briefed, BatchInv, BatchOK
<1> QED
  BY <1>1, <1>2, AtInformed, ThrowTold

-----------------------------------------------------------------------------
(* The steps of a run under the lease. *)

\* The same run at another await has the same flags and repository.
LEMMA PlainOn ==
  ASSUME NEW l, Plain(l), l.pc # "idle", NEW m,
         m.repo = l.repo, m.effect = l.effect, m.committed = l.committed
  PROVE  Plain(m)
BY DEF Plain

\* readMetadata and listApplied: the history is the beginning of the repository.
LEMMA ReadJournalTold ==
  ASSUME Briefed, NEW p \in Proc, ReadJournal(p), flight' = flight
  PROVE  Told(p) /\ UnderLease(p)
<1> DEFINE l == run[p]
           j == db.journal
           m == [l EXCEPT !.pc = "select", !.n = Len(j.applied) + 1, !.head = j.head]
<1>1. UnderLease(p) /\ l.pc = "read"
  BY DEF ReadJournal, At, UnderLease, Critical, ExecutorStep
<1>2. /\ l \in Run /\ j \in Journal /\ JournalOf(p) = j /\ Plain(l)
  BY <1>1, AtInformed
<1>3. CASE Reject(p, "failed")
  BY <1>1, <1>3, RejectTold
<1>4. CASE IsJournalPrefix(l.repo, j) /\ Proceed(p, m)
  <2>1. /\ m.pc = "select" /\ m.n = Len(j.applied) + 1 /\ m.repo = l.repo
        /\ m.effect = l.effect /\ m.committed = l.committed
    BY <1>2 DEF Run
  <2>2. Len(j.applied) \in Nat
    BY <1>2 DEF Journal
  <2> HIDE DEF m
  <2>3. HistoryIs(m.repo, j, m.n - 1)
    BY <1>4, <2>1, <2>2 DEF HistoryIs
  <2>4. Informed(p, m, db, flight)
    BY <2>1, <2>3 DEF Informed, Planning, Pending, Definite
  <2>5. Plain(m)
    BY <1>1, <1>2, <2>1, PlainOn
  <2> QED
    BY <1>1, <1>4, <2>4, <2>5, ProceedTold
<1> QED
  BY <1>1, <1>2, <1>3, <1>4 DEF ReadJournal

\* Nothing of an artifact is in the schema it was planned for, or in the history.
LEMMA NextAbsentHere ==
  ASSUME NEW l \in Run, VerifyArtifactChain(l.repo), l.n \in 1..Len(l.repo),
         NEW d, d.journal \in Journal, HistoryIs(l.repo, d.journal, l.n - 1),
         d.schema = Before(l.repo, l.n)
  PROVE  Absent(ArtifactOf(l), d)
<1> DEFINE a == ArtifactOf(l)
<1>1. \A m \in 1..(l.n - 1) : l.repo[m] # a
  BY DEF VerifyArtifactChain, ArtifactOf, Run
<1>2. \A m \in 1..(l.n - 1) : Effects(l.repo[m]) \cap Effects(a) = {}
  BY <1>1, EffectsApart
<1>3. Effects(a) \cap d.schema = {}
  BY <1>2 DEF Before
<1> QED
  BY <1>3, NextUnrecorded DEF Absent

\* The schema a repository was planned for is what its history left.
LEMMA BeforeRecorded ==
  ASSUME NEW repo, NEW j, NEW n, HistoryIs(repo, j, n - 1)
  PROVE  Before(repo, n) = UNION {Effects(a) : a \in Recorded(j)}
BY DEF HistoryIs, IsJournalPrefix, Before, Recorded

\* inspectSchema: the next artifact, if the schema is the one before it.
LEMMA SelectArtifactTold ==
  ASSUME Briefed, NEW p \in Proc, SelectArtifact(p), flight' = flight
  PROVE  Told(p) /\ UnderLease(p)
<1> DEFINE l == run[p]
           release == [l EXCEPT !.pc = "release"]
           create == [l EXCEPT !.pc = "create"]
<1>1. UnderLease(p) /\ l.pc = "select"
  BY DEF SelectArtifact, At, UnderLease, Critical, ExecutorStep
<1>2. /\ l \in Run /\ LocalOK(l) /\ BatchRun(l) /\ Plain(l) /\ Informed(p, l, db, flight)
      /\ db.journal \in Journal /\ View(p) = db
  BY <1>1, AtInformed
<1>3. VerifyArtifactChain(l.repo) /\ l.n >= 1 /\ HistoryIs(l.repo, db.journal, l.n - 1)
  BY <1>1, <1>2 DEF BatchRun, Carried, ExecutorStep, LocalOK, PositionOK, Informed, Planning
<1>4. CASE Reject(p, "failed")
  BY <1>1, <1>4, RejectTold
<1>5. CASE Proceed(p, release)
  <2>1. /\ release.pc = "release" /\ release.repo = l.repo
        /\ release.effect = l.effect /\ release.committed = l.committed
    BY <1>2 DEF Run
  <2> HIDE DEF release
  <2> QED
    BY <1>1, <1>2, <1>5, <2>1, PlainOn, NothingInformed, ProceedTold
<1>6. CASE /\ ~(l.n > Len(l.repo)) /\ db.schema = Before(l.repo, l.n)
           /\ Proceed(p, create)
  <2>1. /\ create.pc = "create" /\ create.repo = l.repo /\ create.n = l.n
        /\ create.effect = l.effect /\ create.committed = l.committed
    BY <1>2 DEF Run
  <2> HIDE DEF create
  <2>2. l.n \in 1..Len(l.repo)
    BY <1>2, <1>3, <1>6 DEF Run
  <2>3. Absent(ArtifactOf(create), db)
    BY <1>2, <1>3, <1>6, <2>1, <2>2, NextAbsentHere DEF ArtifactOf
  <2>4. Informed(p, create, db, flight)
    BY <1>3, <2>1, <2>3 DEF Informed, Planning, Pending, Definite
  <2> QED
    BY <1>1, <1>2, <1>6, <2>1, <2>4, PlainOn, ProceedTold
<1> QED
  BY <1>1, <1>2, <1>4, <1>5, <1>6 DEF SelectArtifact

\* What is written to the journal outside a transaction is committed.
LEMMA JournalWritten ==
  ASSUME Briefed, NEW p \in Proc, NEW j, WriteJournal(p, j)
  PROVE  db'.journal = j /\ db'.schema = db.schema
<1>1. db \in Database /\ txn[p] = NoTxn
  BY DEF Briefed, BatchInv, Sound, TypeOK, BatchOK, Sessions, SessionOK
<1>2. db' = [db EXCEPT !.journal = j]
  BY <1>1 DEF WriteJournal, Write, View
<1> QED
  BY <1>1, <1>2 DEF Database

\* createAttempt: nothing of the artifact is there, and no batch of the attempt.
LEMMA CreateAttemptTold ==
  ASSUME Briefed, NEW p \in Proc, CreateAttemptRow(p), flight' = flight
  PROVE  Told(p) /\ UnderLease(p)
<1> DEFINE l == run[p]
           i == db.journal
           a == ArtifactOf(l)
<1>1. UnderLease(p) /\ l.pc = "create"
  BY DEF CreateAttemptRow, At, UnderLease, Critical, ExecutorStep
<1>2. /\ l \in Run /\ LocalOK(l) /\ Plain(l) /\ Informed(p, l, db, flight)
      /\ i \in Journal /\ JournalOf(p) = i /\ Accounted(db, flight) /\ flight \subseteq Batch
  BY <1>1, AtInformed
<1>3. /\ l.n \in 1..Len(l.repo) /\ l.repo \in Repositories /\ l.head \in Digest
      /\ HistoryIs(l.repo, i, l.n - 1) /\ Absent(a, db)
  BY <1>1, <1>2 DEF LocalOK, PositionOK, ExecutorStep, Plain, Informed, Planning, Run
<1>4. a \in Artifact \ Foreign
  BY <1>2, <1>3, PhasesType, BatchAssumption DEF ArtifactOf
<1>5. PICK k \in AttemptId :
        IF CanCreate(i, k)
          THEN /\ WriteJournal(p, CreateAttempt(i, k, a, l.head))
               /\ Answer(p, [l EXCEPT !.pc = "start", !.attempt = k])
          ELSE Reject(p, "failed")
  BY <1>2 DEF CreateAttemptRow
<1> DEFINE m == [l EXCEPT !.pc = "start", !.attempt = k]
           j == CreateAttempt(i, k, a, l.head)
<1>6. CASE CanCreate(i, k)
  <2>1. db'.journal = j /\ db'.schema = db.schema
    BY <1>5, <1>6, JournalWritten
  <2>2. j.applied = i.applied /\ j.attempts[k].artifact = a
    BY <1>2, CreateChanges
  <2>3. /\ m.pc = "start" /\ m.attempt = k /\ m.repo = l.repo /\ m.n = l.n
        /\ m.effect = l.effect /\ m.committed = l.committed
    BY <1>2 DEF Run
  <2>4. Answer(p, m)
    BY <1>5, <1>6
  <2>5. Accounted(db', flight) /\ \A b \in flight : b.attempt # k
    BY <1>2, <1>3, <1>4, <1>6, <2>1, CreateAccounted DEF Absent
  <2> HIDE DEF m, j
  <2>6. ArtifactOf(m) = a
    BY <2>3 DEF ArtifactOf
  <2>7. Absent(a, db') /\ HistoryIs(l.repo, db'.journal, l.n - 1)
    BY <1>3, <2>1, <2>2 DEF Absent, Recorded, HistoryIs, IsJournalPrefix
  <2>8. Informed(p, m, db', flight')
    BY <2>1, <2>2, <2>3, <2>5, <2>6, <2>7 DEF Informed, Planning, Pending, Definite
  <2> QED
    BY <1>1, <1>2, <2>3, <2>4, <2>5, <2>8, PlainOn, AnswerTold
<1>7. CASE ~CanCreate(i, k)
  BY <1>1, <1>5, <1>7, RejectTold
<1> QED
  BY <1>1, <1>6, <1>7

\* A transition that the journal makes, and one that it refuses.
LEMMA TransitionTold ==
  ASSUME Briefed, NEW p \in Proc, UnderLease(p), flight' = flight,
         run[p].pc \notin {"begin", "execute"}, run[p].attempt \in AttemptId,
         NEW s, NEW l, Transition(p, s, l), Plain(l),
         CanTransition(db.journal, run[p].attempt, s) =>
           /\ s = "applied" =>
                /\ run[p].attempt \in RecordedBy(db.journal)
                /\ Effects(db.journal.attempts[run[p].attempt].artifact) \subseteq db.schema
           /\ s = "rolled_back" => Absent(db.journal.attempts[run[p].attempt].artifact, db)
           /\ s = "running" => \A b \in flight : b.attempt # run[p].attempt
           /\ \A d : /\ d.journal = TransitionAttempt(db.journal, run[p].attempt, s)
                     /\ d.schema = db.schema
                     => Informed(p, l, d, flight)
  PROVE  Told(p)
<1> DEFINE i == db.journal
           k == run[p].attempt
           j == TransitionAttempt(i, k, s)
<1>1. /\ i \in Journal /\ JournalOf(p) = i /\ Accounted(db, flight) /\ flight \subseteq Batch
  BY AtInformed
<1>2. CASE CanTransition(i, k, s)
  <2>1. WriteJournal(p, j) /\ Answer(p, l)
    BY <1>1, <1>2 DEF Transition
  <2>2. db'.journal = j /\ db'.schema = db.schema
    BY <2>1, JournalWritten
  <2> HIDE DEF j
  <2>3. Accounted(db', flight)
    BY <1>1, <1>2, <2>2, TransitionAccounted DEF j
  <2>4. Informed(p, l, db', flight)
    BY <1>2, <2>2 DEF j
  <2> QED
    BY <2>1, <2>3, <2>4, AnswerTold
<1>3. CASE ~CanTransition(i, k, s)
  BY <1>1, <1>3, RejectTold DEF Transition
<1> QED
  BY <1>2, <1>3

\* The attempt is running; its batch is not on its way yet.
LEMMA MarkBatchRunningTold ==
  ASSUME Briefed, NEW p \in Proc, MarkBatchRunning(p), flight' = flight
  PROVE  Told(p) /\ UnderLease(p)
<1> DEFINE l == run[p]
           i == db.journal
           m == [l EXCEPT !.pc = "begin", !.ph = 1, !.st = 1]
<1>1. UnderLease(p) /\ l.pc = "start" /\ Transition(p, "running", m)
  BY DEF MarkBatchRunning, At, UnderLease, Critical, ExecutorStep
<1>2. /\ l \in Run /\ LocalOK(l) /\ Plain(l) /\ Informed(p, l, db, flight) /\ i \in Journal
  BY <1>1, AtInformed
<1>3. l.attempt \in AttemptId
  BY <1>1, <1>2 DEF LocalOK, AttemptOK, ExecutorStep
<1>4. /\ HistoryIs(l.repo, i, l.n - 1) /\ Absent(ArtifactOf(l), db)
      /\ i.attempts[l.attempt].artifact = ArtifactOf(l)
      /\ \A b \in flight : b.attempt # l.attempt
  BY <1>1, <1>2 DEF Informed, Planning, Pending
<1>5. /\ m.pc = "begin" /\ m.attempt = l.attempt /\ m.repo = l.repo /\ m.n = l.n
      /\ m.effect = l.effect /\ m.committed = l.committed
  BY <1>2 DEF Run
<1> HIDE DEF m
<1>6. ASSUME CanTransition(i, l.attempt, "running"),
             NEW d, d.journal = TransitionAttempt(i, l.attempt, "running"),
             d.schema = db.schema
      PROVE  Informed(p, m, d, flight)
  <2>1. /\ d.journal.applied = i.applied
        /\ d.journal.attempts[l.attempt].artifact = ArtifactOf(l)
    BY <1>2, <1>3, <1>4, <1>6, TransitionChanges
  <2>2. Absent(ArtifactOf(m), d) /\ HistoryIs(l.repo, d.journal, l.n - 1)
    BY <1>4, <1>5, <1>6, <2>1
       DEF Absent, Recorded, HistoryIs, IsJournalPrefix, ArtifactOf
  <2> QED
    BY <1>4, <1>5, <2>1, <2>2 DEF Informed, Planning, Pending, Definite, ArtifactOf
<1>7. Plain(m)
  BY <1>1, <1>2, <1>5, PlainOn
<1> QED
  BY <1>1, <1>3, <1>4, <1>6, <1>7, TransitionTold

\* A batch is sent with the schema its artifact was planned for.
LEMMA PrepareBatchTold ==
  ASSUME Briefed, NEW p \in Proc, PrepareBatch(p)
  PROVE  Told(p) /\ UnderLease(p)
<1> DEFINE l == run[p]
           i == db.journal
           m == [l EXCEPT !.pc = "execute"]
           sent == BatchOf(p, l)
<1>1. UnderLease(p) /\ At(p, "begin") /\ l.pc = "begin"
  BY DEF PrepareBatch, At, UnderLease, Critical, ExecutorStep
<1>2. /\ l \in Run /\ LocalOK(l) /\ Plain(l) /\ Informed(p, l, db, flight) /\ i \in Journal
      /\ Accounted(db, flight)
  BY <1>1, AtInformed
<1>3. /\ HistoryIs(l.repo, i, l.n - 1) /\ Absent(ArtifactOf(l), db)
      /\ i.attempts[l.attempt].artifact = ArtifactOf(l)
      /\ \A b \in flight : b.attempt # l.attempt
  BY <1>1, <1>2 DEF Informed, Planning, Pending
<1>4. CASE Reject(p, "failed") /\ flight' = flight
  BY <1>1, <1>4, RejectTold
<1>5. CASE /\ db.schema = Before(l.repo, l.n) /\ flight' = flight \cup {sent}
           /\ Proceed(p, m)
  <2>1. /\ m.pc = "execute" /\ m.attempt = l.attempt /\ m.repo = l.repo /\ m.n = l.n
        /\ m.effect = l.effect /\ m.committed = l.committed
    BY <1>2 DEF Run
  <2>2. /\ sent.by = p /\ sent.artifact = ArtifactOf(l) /\ sent.attempt = l.attempt
        /\ sent.catalog = Before(l.repo, l.n)
    BY DEF BatchOf
  <2> HIDE DEF m, sent
  <2>3. Addressed(sent, i)
    BY <1>3, <2>2, BeforeRecorded DEF Addressed
  <2>4. db' = db /\ run'[p] = m
    BY <1>5, AtInformed, <1>1 DEF Proceed
  <2>5. Accounted(db', flight')
    BY <1>2, <1>5, <2>3, <2>4 DEF Accounted, AllAddressed
  <2>6. Informed(p, m, db', flight')
    BY <1>3, <1>5, <2>1, <2>2, <2>4 DEF Informed, Planning, Pending, Definite, ArtifactOf
  <2> QED
    BY <1>1, <1>2, <2>1, <2>4, <2>5, <2>6, PlainOn DEF Told
<1>6. \/ Reject(p, "failed") /\ flight' = flight
      \/ /\ db.schema = Before(l.repo, l.n)
         /\ flight' = flight \cup
              {[by |-> p, artifact |-> ArtifactOf(l), attempt |-> l.attempt,
                head |-> l.head, catalog |-> db.schema]}
         /\ Proceed(p, m)
  BY DEF PrepareBatch
<1> QED
  BY <1>1, <1>4, <1>5, <1>6 DEF BatchOf

\* A preparation that fails has sent nothing.
LEMMA FailPreparationTold ==
  ASSUME Briefed, NEW p \in Proc, FailPreparation(p)
  PROVE  Told(p) /\ UnderLease(p)
<1>1. /\ UnderLease(p) /\ run[p].pc = "begin" /\ db' = db /\ flight' = flight
      /\ \E e \in {"failed", "uncertain"} : run' = [run EXCEPT ![p] = Throw(run[p], e)]
  BY DEF FailPreparation, At, UnderLease, Critical, ExecutorStep, Classify
<1>2. \A b \in flight : b.by # p
  BY <1>1, NoneAloft DEF Aloft, Briefed, BatchInv, BatchOK
<1>3. Accounted(db', flight')
  BY <1>1 DEF Briefed, Faithful
<1> QED
  BY <1>1, <1>2, <1>3, ThrowTold

\* A batch that was refused is not on its way, one that was given up is: only the
\* first error is definite.
LEMMA FailBatchTold ==
  ASSUME Briefed, NEW p \in Proc, RefuseBatch(p) \/ GiveUpBatch(p)
  PROVE  Told(p) /\ UnderLease(p)
<1>1. /\ UnderLease(p) /\ run[p].pc = "execute" /\ db' = db
      /\ \/ GiveUpBatch(p) /\ flight' = flight
            /\ run' = [run EXCEPT ![p] = Throw(run[p], "uncertain")]
         \/ RefuseBatch(p) /\ flight' = {b \in flight : ~Awaits(p, b)}
            /\ run' = [run EXCEPT ![p] = Throw(run[p], "failed")]
  BY DEF RefuseBatch, GiveUpBatch, At, UnderLease, Critical, ExecutorStep, Classify
<1>2. flight' \subseteq flight
  BY <1>1
<1>3. Accounted(db', flight')
  BY <1>1, <1>2, SameAccounted DEF Briefed, Faithful
<1>4. CASE GiveUpBatch(p) /\ run' = [run EXCEPT ![p] = Throw(run[p], "uncertain")]
  BY <1>1, <1>3, <1>4, ThrowTold
<1>5. CASE /\ flight' = {b \in flight : ~Awaits(p, b)}
           /\ run' = [run EXCEPT ![p] = Throw(run[p], "failed")]
  <2>1. \A b \in flight : b.by = p => Awaits(p, b)
    BY <1>1, OwnBatch DEF Briefed, BatchInv
  <2> QED
    BY <1>1, <1>2, <1>3, <1>5, <2>1, ThrowTold
<1> QED
  BY <1>1, <1>4, <1>5

\* The catch says rolled_back only of an attempt of which nothing is there.
LEMMA ConcludeAttemptTold ==
  ASSUME Briefed, NEW p \in Proc, ConcludeAttempt(p), flight' = flight
  PROVE  Told(p) /\ UnderLease(p)
<1> DEFINE l == run[p]
           i == db.journal
           s == FailedState(l)
           m == [l EXCEPT !.pc = "release"]
<1>1. UnderLease(p) /\ l.pc = "conclude" /\ Transition(p, s, m)
  BY DEF ConcludeAttempt, At, UnderLease, Critical, ExecutorStep
<1>2. /\ l \in Run /\ LocalOK(l) /\ Plain(l) /\ Informed(p, l, db, flight)
  BY <1>1, AtInformed
<1>3. l.attempt \in AttemptId
  BY <1>1, <1>2 DEF LocalOK, AttemptOK, ExecutorStep
<1>4. /\ m.pc = "release" /\ m.repo = l.repo
      /\ m.effect = l.effect /\ m.committed = l.committed
  BY <1>2 DEF Run
<1>5. s \notin {"applied", "running"}
  BY DEF FailedState
<1>6. s = "rolled_back" => Absent(i.attempts[l.attempt].artifact, db)
  <2>1. s = "rolled_back" => Definite(l)
    BY <1>1 DEF FailedState, Definite
  <2> QED
    BY <1>2, <2>1 DEF Informed, Pending
<1> HIDE DEF m, s
<1>7. Plain(m) /\ \A d : Informed(p, m, d, flight)
  BY <1>1, <1>2, <1>4, PlainOn, NothingInformed
<1> QED
  BY <1>1, <1>3, <1>5, <1>6, <1>7, TransitionTold

\* The attempt awaits an outcome, and the one given is proven.
LEMMA VerifyOutcomeTold ==
  ASSUME Briefed, NEW p \in Proc, VerifyOutcome(p), flight' = flight
  PROVE  Told(p) /\ UnderLease(p)
<1> DEFINE l == run[p]
           i == db.journal
           s == StateOf(i, l.attempt)
           m == [l EXCEPT !.pc = IF s = "recovery_required" THEN "history" ELSE "require"]
<1>1. UnderLease(p) /\ l.pc = "verify"
  BY DEF VerifyOutcome, At, UnderLease, Critical, ReconcileStep
<1>2. l \in Run /\ Plain(l) /\ JournalOf(p) = i /\ View(p) = db
  BY <1>1, AtInformed
<1>3. CASE Reject(p, "failed")
  BY <1>1, <1>3, RejectTold
<1>4. CASE Proven(db, l.attempt, l.outcome) /\ Proceed(p, m)
  <2>1. /\ m.pc = IF s = "recovery_required" THEN "history" ELSE "require"
        /\ m.attempt = l.attempt /\ m.outcome = l.outcome
        /\ m.repo = l.repo /\ m.effect = l.effect /\ m.committed = l.committed
    BY <1>2 DEF Run
  <2> HIDE DEF m
  <2>2. Informed(p, m, db, flight)
    BY <1>4, <2>1 DEF Informed, Planning, Pending, Definite
  <2> QED
    BY <1>1, <1>2, <1>4, <2>1, <2>2, PlainOn, ProceedTold
<1> QED
  BY <1>1, <1>2, <1>3, <1>4 DEF VerifyOutcome

\* From here on its batch, if there is one, finds it not running.
LEMMA RequireRecoveryTold ==
  ASSUME Briefed, NEW p \in Proc, RequireRecovery(p), flight' = flight
  PROVE  Told(p) /\ UnderLease(p)
<1> DEFINE l == run[p]
           i == db.journal
           m == [l EXCEPT !.pc = "history"]
<1>1. UnderLease(p) /\ l.pc = "require" /\ Transition(p, "recovery_required", m)
  BY DEF RequireRecovery, At, UnderLease, Critical, ReconcileStep
<1>2. /\ l \in Run /\ LocalOK(l) /\ Plain(l) /\ Informed(p, l, db, flight) /\ i \in Journal
  BY <1>1, AtInformed
<1>3. l.attempt \in AttemptId /\ Proven(db, l.attempt, l.outcome)
  BY <1>1, <1>2 DEF LocalOK, AttemptOK, ReconcileStep, Informed
<1>4. /\ m.pc = "history" /\ m.attempt = l.attempt /\ m.outcome = l.outcome
      /\ m.repo = l.repo /\ m.effect = l.effect /\ m.committed = l.committed
  BY <1>2 DEF Run
<1> HIDE DEF m
<1>5. ASSUME CanTransition(i, l.attempt, "recovery_required"),
             NEW d, d.journal = TransitionAttempt(i, l.attempt, "recovery_required"),
             d.schema = db.schema
      PROVE  Informed(p, m, d, flight)
  <2>1. /\ StateOf(d.journal, l.attempt) = "recovery_required"
        /\ d.journal.attempts[l.attempt].artifact = i.attempts[l.attempt].artifact
    BY <1>2, <1>3, <1>5, TransitionChanges
  <2>2. Proven(d, m.attempt, m.outcome)
    BY <1>3, <1>4, <1>5, <2>1 DEF Proven
  <2> QED
    BY <1>4, <2>1, <2>2 DEF Informed, Planning, Pending, Definite
<1>6. Plain(m)
  BY <1>1, <1>2, <1>4, PlainOn
<1> QED
  BY <1>1, <1>3, <1>5, <1>6, TransitionTold

\* What is known of a reconciliation behind the proof of its outcome.
LEMMA AtReconcile ==
  ASSUME Briefed, NEW p \in Proc, UnderLease(p), run[p].pc \in {"history", "audit", "resolve"}
  PROVE  /\ run[p].attempt \in AttemptId /\ OpenAttempts(db.journal) = {run[p].attempt}
         /\ StateOf(db.journal, run[p].attempt) = "recovery_required"
         /\ Proven(db, run[p].attempt, run[p].outcome)
         /\ OpenUnrecorded(db.journal)
<1>1. /\ LocalOK(run[p]) /\ Informed(p, run[p], db, flight)
      /\ AttemptsFit(run[p], db.journal) /\ Accounted(db, flight)
  BY AtInformed
<1> QED
  BY <1>1 DEF LocalOK, AttemptOK, ReconcileStep, Informed, AttemptsFit, Attempting,
     Accounted, Registered, RecordsOK

\* The history an applied attempt needs, and a rolled back one may not have.
LEMMA ReconcileHistoryTold ==
  ASSUME Briefed, NEW p \in Proc, ReconcileHistory(p), flight' = flight
  PROVE  Told(p) /\ UnderLease(p)
<1> DEFINE l == run[p]
           i == db.journal
           k == l.attempt
           a == i.attempts[k].artifact
           m == [l EXCEPT !.pc = "audit"]
           j == AppendAppliedAndAdvanceHead(i, a, k)
<1>1. UnderLease(p) /\ l.pc = "history"
  BY DEF ReconcileHistory, At, UnderLease, Critical, ReconcileStep
<1>2. /\ l \in Run /\ Plain(l) /\ i \in Journal /\ JournalOf(p) = i
      /\ Accounted(db, flight) /\ flight \subseteq Batch
  BY <1>1, AtInformed
<1>3. /\ k \in AttemptId /\ OpenAttempts(i) = {k} /\ StateOf(i, k) = "recovery_required"
      /\ Proven(db, k, l.outcome) /\ OpenUnrecorded(i)
  BY <1>1, AtReconcile
<1>4. /\ m.pc = "audit" /\ m.attempt = k /\ m.outcome = l.outcome
      /\ m.repo = l.repo /\ m.effect = l.effect /\ m.committed = l.committed
  BY <1>2 DEF Run
<1>5. InRepository(l.repo, a) => a \in Artifact
  <2>1. l.repo \in Seq(Artifact)
    BY <1>2 DEF Run
  <2> QED
    BY <2>1 DEF InRepository
<1>6. Plain(m)
  BY <1>1, <1>2, <1>4, PlainOn
<1>7. \/ /\ l.outcome = "applied" /\ InRepository(l.repo, a)
         /\ WriteJournal(p, j) /\ Answer(p, m)
      \/ Reject(p, "failed")
      \/ l.outcome = "applied" /\ a \in Recorded(i) /\ Proceed(p, m)
      \/ l.outcome # "applied" /\ k \notin RecordedBy(i) /\ Proceed(p, m)
  BY <1>2 DEF ReconcileHistory
<1> HIDE DEF m
<1>8. CASE /\ l.outcome = "applied" /\ InRepository(l.repo, a)
           /\ WriteJournal(p, j) /\ Answer(p, m)
  <2>1. db'.journal = j /\ db'.schema = db.schema
    BY <1>8, JournalWritten
  <2>2. /\ j.attempts = i.attempts /\ Len(j.applied) = Len(i.applied) + 1
        /\ j.applied[Len(i.applied) + 1].attempt = k
    <3>1. a \in Artifact /\ k \in AttemptId /\ i \in Journal
      BY <1>2, <1>3, <1>5, <1>8
    <3> HIDE DEF i, a, k
    <3> QED
      BY <3>1, AppendChanges
  <2> HIDE DEF j
  <2>3. Accounted(db', flight)
    BY <1>2, <1>3, <1>5, <1>8, <2>1, AppendAccounted DEF j
  <2>4. k \in RecordedBy(j)
    <3>1. Len(i.applied) \in Nat
      BY <1>2 DEF Journal
    <3> QED
      BY <2>2, <3>1 DEF RecordedBy
  <2>5. StateOf(j, k) = "recovery_required" /\ Proven(db', k, l.outcome)
    BY <1>3, <2>1, <2>2 DEF Proven, StateOf
  <2>6. Informed(p, m, db', flight')
    BY <1>4, <1>8, <2>1, <2>4, <2>5 DEF Informed, Planning, Pending, Definite
  <2> QED
    BY <1>1, <1>6, <1>8, <2>3, <2>6, AnswerTold
<1>9. CASE l.outcome = "applied" /\ a \in Recorded(i) /\ Proceed(p, m)
  <2>1. k \in RecordedBy(i)
    BY <1>3, <1>9 DEF Recorded, RecordedBy, OpenUnrecorded
  <2>2. Informed(p, m, db, flight)
    BY <1>3, <1>4, <1>9, <2>1 DEF Informed, Planning, Pending, Definite
  <2> QED
    BY <1>1, <1>6, <1>9, <2>2, ProceedTold
<1>10. CASE l.outcome # "applied" /\ k \notin RecordedBy(i) /\ Proceed(p, m)
  <2>1. Informed(p, m, db, flight)
    BY <1>3, <1>4, <1>10 DEF Informed, Planning, Pending, Definite
  <2> QED
    BY <1>1, <1>6, <1>10, <2>1, ProceedTold
<1>11. CASE Reject(p, "failed")
  BY <1>1, <1>11, RejectTold
<1> QED
  BY <1>1, <1>7, <1>8, <1>9, <1>10, <1>11

\* recordReconciliation touches neither attempts nor history.
LEMMA RecordOutcomeTold ==
  ASSUME Briefed, NEW p \in Proc, RecordOutcome(p), flight' = flight
  PROVE  Told(p) /\ UnderLease(p)
<1> DEFINE l == run[p]
           i == db.journal
           m == [l EXCEPT !.pc = "resolve"]
           j == RecordReconciliation(i, l.attempt, l.outcome)
<1>1. UnderLease(p) /\ l.pc = "audit"
  BY DEF RecordOutcome, At, UnderLease, Critical, ReconcileStep
<1>2. /\ l \in Run /\ Plain(l) /\ Informed(p, l, db, flight) /\ i \in Journal
      /\ JournalOf(p) = i /\ Accounted(db, flight)
  BY <1>1, AtInformed
<1>3. /\ m.pc = "resolve" /\ m.attempt = l.attempt /\ m.outcome = l.outcome
      /\ m.repo = l.repo /\ m.effect = l.effect /\ m.committed = l.committed
  BY <1>2 DEF Run
<1>4. j.attempts = i.attempts /\ j.applied = i.applied
  BY <1>2 DEF RecordReconciliation, Journal
<1>5. Plain(m)
  BY <1>1, <1>2, <1>3, PlainOn
<1>6. \/ WriteJournal(p, j) /\ Answer(p, m)
      \/ Proceed(p, m)
      \/ Reject(p, "failed")
  BY <1>2 DEF RecordOutcome
<1> HIDE DEF m, j
<1>7. ASSUME NEW d, d.schema = db.schema, d.journal.attempts = i.attempts,
             d.journal.applied = i.applied
      PROVE  Informed(p, m, d, flight)
  BY <1>1, <1>2, <1>3, <1>7
     DEF Informed, Planning, Pending, Definite, Proven, StateOf, RecordedBy
<1>8. CASE WriteJournal(p, j) /\ Answer(p, m)
  <2>1. db'.journal = j /\ db'.schema = db.schema
    BY <1>8, JournalWritten
  <2>2. Accounted(db', flight)
    BY <1>2, <1>4, <2>1, SameAccounted
  <2>3. Informed(p, m, db', flight')
    BY <1>4, <1>7, <2>1
  <2> QED
    BY <1>1, <1>5, <1>8, <2>2, <2>3, AnswerTold
<1>9. CASE Proceed(p, m)
  BY <1>1, <1>5, <1>7, <1>9, ProceedTold
<1>10. CASE Reject(p, "failed")
  BY <1>1, <1>10, RejectTold
<1> QED
  BY <1>1, <1>6, <1>8, <1>9, <1>10

\* The outcome that was proven, and checked against the history.
LEMMA ResolveAttemptTold ==
  ASSUME Briefed, NEW p \in Proc, ResolveAttempt(p), flight' = flight
  PROVE  Told(p) /\ UnderLease(p)
<1> DEFINE l == run[p]
           i == db.journal
           a == i.attempts[l.attempt].artifact
           s == l.outcome
           m == [l EXCEPT !.pc = "release"]
<1>1. UnderLease(p) /\ l.pc = "resolve" /\ Transition(p, s, m)
  BY DEF ResolveAttempt, At, UnderLease, Critical, ReconcileStep
<1>2. l \in Run /\ Plain(l) /\ Informed(p, l, db, flight)
  BY <1>1, AtInformed
<1>3. /\ l.attempt \in AttemptId /\ OpenAttempts(i) = {l.attempt}
      /\ Proven(db, l.attempt, s) /\ OpenUnrecorded(i)
  BY <1>1, AtReconcile
<1>4. s \in Terminal \cup {"none"} /\ (s = "applied" <=> l.attempt \in RecordedBy(i))
  BY <1>1, <1>2 DEF Informed, Run
<1>5. /\ m.pc = "release" /\ m.repo = l.repo
      /\ m.effect = l.effect /\ m.committed = l.committed
  BY <1>2 DEF Run
<1> HIDE DEF m
<1>6. Plain(m) /\ \A d : Informed(p, m, d, flight)
  BY <1>1, <1>2, <1>5, PlainOn, NothingInformed
<1>7. s = "applied" => l.attempt \in RecordedBy(i) /\ Effects(a) \subseteq db.schema
  BY <1>3, <1>4 DEF Proven
<1>8. s = "rolled_back" => Absent(a, db)
  <2> SUFFICES ASSUME s = "rolled_back"
               PROVE  Absent(a, db)
    OBVIOUS
  <2>1. Effects(a) \cap db.schema = {}
    BY <1>3 DEF Proven
  <2>2. a \notin Recorded(i)
    BY <1>3, <1>4 DEF Recorded, RecordedBy, OpenUnrecorded
  <2> QED
    BY <2>1, <2>2 DEF Absent
<1>9. s # "running"
  BY <1>4 DEF Terminal
<1> QED
  BY <1>1, <1>3, <1>6, <1>7, <1>8, <1>9, TransitionTold

\* The row of the lease is no matter of journal and schema.
LEMMA ReleaseLeaseTold ==
  ASSUME Briefed, NEW p \in Proc, ReleaseLease(p), flight' = flight
  PROVE  Told(p) /\ UnderLease(p)
<1> DEFINE l == run[p]
           m == [l EXCEPT !.leased = FALSE, !.pc = "close"]
<1>1. UnderLease(p) /\ l.pc = "release"
  BY DEF ReleaseLease, At, UnderLease, Critical
<1>2. l \in Run /\ Plain(l) /\ Accounted(db, flight) /\ txn[p] = NoTxn /\ db \in Database
  BY <1>1, AtInformed
<1>3. Answer(p, m) /\ db' = [db EXCEPT !.lease = IF @ = p THEN Null ELSE @]
  BY <1>2, BatchAssumption DEF ReleaseLease, Write, View
<1>4. /\ m.pc = "close" /\ m.repo = l.repo
      /\ m.effect = l.effect /\ m.committed = l.committed
  BY <1>2 DEF Run
<1>5. db'.journal = db.journal /\ db'.schema = db.schema
  BY <1>2, <1>3 DEF Database
<1> HIDE DEF m
<1>6. Accounted(db', flight')
  BY <1>2, <1>5, SameAccounted
<1>7. Plain(m) /\ Informed(p, m, db', flight')
  BY <1>1, <1>2, <1>4, PlainOn, NothingInformed
<1> QED
  BY <1>1, <1>3, <1>6, <1>7, AnswerTold

\* An abort, or a call that fails, away from the batch.
LEMMA FailTold ==
  ASSUME Briefed, NEW p \in Proc, UnderLease(p), Fail(p), flight' = flight,
         run[p].pc \notin {"begin", "execute"}
  PROVE  Told(p)
<1>1. /\ db' = db
      /\ \E e \in {"failed", "uncertain"} : run' = [run EXCEPT ![p] = Throw(run[p], e)]
  BY DEF Fail, ErrorKinds
<1>2. Accounted(db', flight')
  BY <1>1 DEF Briefed, Faithful
<1> QED
  BY <1>1, <1>2, ThrowTold

\* The steps of a run under the lease tell what they must.
LeasedStep(p) ==
  \/ ReadJournal(p) \/ SelectArtifact(p) \/ CreateAttemptRow(p) \/ MarkBatchRunning(p)
  \/ ConcludeAttempt(p)
  \/ VerifyOutcome(p) \/ RequireRecovery(p) \/ ReconcileHistory(p)
  \/ RecordOutcome(p) \/ ResolveAttempt(p) \/ ReleaseLease(p)

LEMMA LeasedStepTold ==
  ASSUME Briefed, NEW p \in Proc, LeasedStep(p), flight' = flight
  PROVE  Told(p) /\ UnderLease(p)
BY ReadJournalTold, SelectArtifactTold, CreateAttemptTold, MarkBatchRunningTold,
   ConcludeAttemptTold, VerifyOutcomeTold, RequireRecoveryTold, ReconcileHistoryTold,
   RecordOutcomeTold, ResolveAttemptTold, ReleaseLeaseTold
   DEF LeasedStep

(* The arrival of a batch. *)

\* A batch that is awaited and commits takes its run to the next artifact.
LEMMA LandAwaitedTold ==
  ASSUME Briefed, NEW b \in flight, LandBatch(b), Assertions(b), run[b.by].pc = "execute"
  PROVE  Told(b.by)
<1> DEFINE p == b.by
           l == run[p]
           i == db.journal
           m == NextArtifact(l)
           h == AppendAppliedAndAdvanceHead(i, b.artifact, b.attempt)
           j == TransitionAttempt(h, b.attempt, "applied")
<1>1. /\ p \in Proc /\ p \in online /\ Awaits(p, b) /\ b.artifact \in Artifact
      /\ b.attempt \in AttemptId /\ b.head \in Digest /\ b = BatchOf(p, l)
  BY OwnBatch DEF Briefed, BatchInv
<1>2. UnderLease(p)
  BY <1>1 DEF UnderLease, Critical, ExecutorStep
<1>3. /\ l \in Run /\ LocalOK(l) /\ Informed(p, l, db, flight) /\ i \in Journal
      /\ Accounted(db, flight) /\ Plain(l)
  BY <1>1, <1>2, AtInformed
<1>4. /\ l.n \in 1..Len(l.repo) /\ HistoryIs(l.repo, i, l.n - 1)
      /\ b.artifact = l.repo[l.n]
  BY <1>1, <1>3 DEF LocalOK, PositionOK, ExecutorStep, Informed, Planning, BatchOf, ArtifactOf
<1>5. db' = Committed(b) /\ flight' = flight \ {b} /\ Answer(p, m)
  BY <1>1 DEF LandBatch
<1>6. Accounted(db', flight')
  BY <1>3, <1>5, CommittedAccounted DEF Briefed, BatchInv
<1>7. /\ db'.journal = j /\ CanAppend(i, b.artifact, b.attempt, b.head)
      /\ StateOf(i, b.attempt) = "running"
  BY <1>5, CommittedOK DEF Briefed, BatchInv, Assertions
<1>8. /\ h.attempts = i.attempts
      /\ Len(i.applied) \in Nat /\ Len(h.applied) = Len(i.applied) + 1
      /\ \A n \in 1..Len(i.applied) : h.applied[n] = i.applied[n]
      /\ h.applied[Len(i.applied) + 1].artifact = b.artifact
  BY <1>1, <1>3, AppendChanges
<1>9. h \in Journal
  BY <1>1, <1>3, <1>7, AppendType
<1>10. CanTransition(h, b.attempt, "applied")
  BY <1>7, <1>8 DEF CanTransition, transitions, StateOf
<1>11. j.applied = h.applied
  BY <1>1, <1>9, <1>10, TransitionChanges
<1>12. /\ m.pc = "select" /\ m.repo = l.repo /\ m.n = l.n + 1
       /\ ~m.effect /\ ~m.committed
  BY DEF NextArtifact, Idle
<1> HIDE DEF h, j, m
<1>13. l.n \in Nat /\ Len(l.repo) \in Nat
  BY <1>3 DEF Run
<1>14. HistoryIs(l.repo, db'.journal, l.n)
  <2>1. Len(i.applied) = l.n - 1 /\ Len(h.applied) = l.n
    BY <1>4, <1>8, <1>13 DEF HistoryIs
  <2>2. \A n \in 1..Len(h.applied) : h.applied[n].artifact = l.repo[n]
    <3> SUFFICES ASSUME NEW n \in 1..Len(h.applied)
                 PROVE  h.applied[n].artifact = l.repo[n]
      OBVIOUS
    <3>1. CASE n = l.n
      BY <1>4, <1>8, <1>13, <2>1, <3>1
    <3>2. CASE n # l.n
      <4>1. n \in 1..Len(i.applied)
        BY <1>13, <2>1, <3>2
      <4> QED
        BY <1>4, <1>8, <4>1 DEF HistoryIs, IsJournalPrefix
    <3> QED
      BY <3>1, <3>2
  <2> QED
    BY <1>4, <1>7, <1>11, <1>13, <2>1, <2>2 DEF HistoryIs, IsJournalPrefix
<1>15. Informed(p, m, db', flight')
  <2>1. m.n - 1 = l.n
    BY <1>12, <1>13
  <2> QED
    BY <1>12, <1>14, <2>1 DEF Informed, Planning, Pending, Definite
<1>16. Plain(m)
  BY <1>3, <1>12, <1>1 DEF Plain
<1> QED
  BY <1>1, <1>2, <1>5, <1>6, <1>15, <1>16, AnswerTold

\* A batch that is awaited and rejected leaves nothing of its attempt behind.
LEMMA LandRejectedTold ==
  ASSUME Briefed, NEW b \in flight, LandBatch(b), ~Assertions(b), run[b.by].pc = "execute"
  PROVE  Told(b.by)
<1> DEFINE p == b.by
<1>1. /\ p \in Proc /\ p \in online /\ Awaits(p, b)
      /\ \A c \in flight \ {b} : c.by # p
  BY OwnBatch DEF Briefed, BatchInv
<1>2. UnderLease(p)
  BY <1>1 DEF UnderLease, Critical, ExecutorStep
<1>3. db' = db /\ flight' = flight \ {b} /\ Answer(p, Throw(run[p], "failed"))
  BY <1>1 DEF LandBatch
<1>4. \E e \in {"failed", "uncertain"} : run' = [run EXCEPT ![p] = Throw(run[p], e)]
  BY <1>3 DEF Answer, Unanswered
<1>5. Accounted(db', flight')
  BY <1>3, SameAccounted DEF Briefed, Faithful
<1> QED
  BY <1>1, <1>2, <1>3, <1>4, <1>5, ThrowTold

\* A batch that its sender has given up commits or not: the only run that can be
\* under the lease is its sender's, which knows that it does not know.
LEMMA LandLateFaithful ==
  ASSUME Briefed, NEW b \in flight, LandBatch(b), run[b.by].pc # "execute"
  PROVE  Faithful'
<1>1. /\ b.by \in Proc /\ ~Awaits(b.by, b) /\ run[b.by].pc \in Aloft
  BY OwnBatch DEF Briefed, BatchInv, BatchOK, Flights, FlightOK
<1>2. /\ flight' = flight \ {b} /\ UNCHANGED <<run, online>>
      /\ db' = IF Assertions(b) THEN Committed(b) ELSE db
  BY <1>1 DEF LandBatch
<1>3. Accounted(db', flight')
  BY <1>2, CommittedAccounted, SameAccounted DEF Briefed, BatchInv, Faithful
<1>4. ASSUME NEW q \in Proc, UnderLease(q)
      PROVE  Informed(q, run[q], db', flight')
  <2>1. Informed(q, run[q], db, flight)
    BY <1>4 DEF Briefed, Faithful
  <2>2. CASE Assertions(b)
    <3>1. q = b.by
      BY <1>4, <2>2, BatchAssumption
         DEF Briefed, BatchInv, Leased, LeaseOK, HoldsLease, UnderLease, Assertions
    <3>2. run[q].pc = "conclude" => run[q].error = "uncertain"
      BY <2>1, <3>1 DEF Informed, Definite
    <3> QED
      BY <1>1, <3>1, <3>2, NothingInformed DEF Aloft
  <2>3. CASE ~Assertions(b)
    BY <1>2, <2>1, <2>3, SameInformed
  <2> QED
    BY <2>2, <2>3
<1> QED
  BY <1>2, <1>3, <1>4 DEF Briefed, Faithful, UnderLease

\* Every batch that arrives.
LEMMA LandBatchFaithful ==
  ASSUME Briefed, NEW b \in flight, LandBatch(b)
  PROVE  Faithful'
<1>1. CASE run[b.by].pc = "execute"
  <2>1. b.by \in Proc /\ b.by \in online /\ Awaits(b.by, b)
    BY <1>1, OwnBatch DEF Briefed, BatchInv
  <2>2. Told(b.by)
    BY <1>1, LandAwaitedTold, LandRejectedTold
  <2>3. UnderLease(b.by)
    BY <1>1, <2>1 DEF UnderLease, Critical, ExecutorStep
  <2>4. Others(b.by) /\ online' = online
    BY <2>1, AnswerOthers DEF LandBatch, Briefed, BatchInv
  <2> QED
    BY <2>1, <2>2, <2>3, <2>4, ToldFaithful
<1>2. CASE run[b.by].pc # "execute"
  BY <1>2, LandLateFaithful
<1> QED
  BY <1>1, <1>2

(* The steps from outside the lease. *)

\* A run starts, takes the lease, ends or dies.
LEMMA CallFaithful ==
  ASSUME Briefed, NEW p \in Proc, flight' = flight,
         \/ StartBatchRun(p) \/ StartReconcile(p) \/ AcquireLease(p)
         \/ EndsRun(p)
  PROVE  Faithful'
<1>1. /\ run \in [Proc -> Run] /\ db \in Database /\ run[p] \in Run /\ Plain(run[p])
      /\ Sound
  BY DEF Briefed, BatchInv, Sound, TypeOK, Faithful
<1>2. CASE StartBatchRun(p)
  <2>1. PICK repo \in Repositories :
          run' = [run EXCEPT ![p] =
            [Idle EXCEPT !.role = "apply", !.repo = repo,
                         !.pc = IF ValidateBatch(repo) THEN "lease" ELSE "close",
                         !.error = IF ValidateBatch(repo) THEN "none" ELSE "failed"]]
    BY <1>2 DEF StartBatchRun
  <2>2. /\ run'[p].pc \in {"lease", "close"} /\ run'[p].repo \in Repositories
        /\ ~run'[p].effect /\ ~run'[p].committed
    BY <1>1, <2>1 DEF Idle
  <2>3. Others(p) /\ db' = db /\ online' = online \cup {p}
    BY <1>1, <1>2, <2>1 DEF StartBatchRun, Others
  <2> QED
    BY <2>2, <2>3, OutsideFaithful DEF Plain
<1>3. CASE StartReconcile(p)
  <2>1. PICK repo \in Repositories, k \in AttemptId, outcome \in Terminal :
          run' = [run EXCEPT ![p] =
            [Idle EXCEPT !.pc = "lease", !.role = "reconcile", !.repo = repo,
                         !.attempt = k, !.outcome = outcome]]
    BY <1>3 DEF StartReconcile
  <2>2. /\ run'[p].pc = "lease" /\ run'[p].repo \in Repositories
        /\ ~run'[p].effect /\ ~run'[p].committed
    BY <1>1, <2>1 DEF Idle
  <2>3. Others(p) /\ db' = db /\ online' = online \cup {p}
    BY <1>1, <1>3, <2>1 DEF StartReconcile, Others
  <2> QED
    BY <2>2, <2>3, OutsideFaithful DEF Plain
<1>4. CASE AcquireLease(p)
  <2> DEFINE l == run[p]
             m == [l EXCEPT !.leased = TRUE,
                     !.pc = IF l.role = "apply" THEN "read" ELSE "verify"]
  <2>1. /\ l.pc = "lease" /\ Answer(p, m) /\ online' = online
        /\ db' = [db EXCEPT !.lease = p]
    BY <1>4, BatchAssumption DEF AcquireLease, At
  <2>2. /\ m.pc \in {"read", "verify"} /\ m.repo = l.repo
        /\ m.effect = l.effect /\ m.committed = l.committed
    BY <1>1 DEF Run
  <2> HIDE DEF m
  <2>3. db'.journal = db.journal /\ db'.schema = db.schema
    BY <1>1, <2>1 DEF Database
  <2>4. Others(p)
    BY <1>1, <2>1, AnswerOthers
  <2>5. Plain(m)
    BY <1>1, <2>1, <2>2, PlainOn
  <2>6. run'[p] = m \/ \E e \in {"failed", "uncertain"} : run'[p] = Throw(l, e)
    BY <1>1, <2>1 DEF Answer, Unanswered
  <2>7. BatchRun(l)
    BY DEF Briefed, BatchInv, BatchOK, Sessions, SessionOK
  <2>8. \A e \in {"failed", "uncertain"} : Plain(Throw(l, e)) /\ Throw(l, e).pc = "close"
    BY <1>1, <2>1, <2>7, PlainThrow, BatchThrow
  <2>9. Plain(run'[p]) /\ run'[p].pc \in {"read", "verify", "close"}
    BY <2>2, <2>5, <2>6, <2>8
  <2> QED
    BY <2>1, <2>3, <2>4, <2>9, OutsideFaithful
<1>5. CASE EndsRun(p)
  <2>0. txn[p] = NoTxn
    BY DEF Briefed, BatchInv, BatchOK, Sessions, SessionOK
  <2>1. \E result \in {"success", "failed", "crashed", "unclosed"} :
          run' = [run EXCEPT ![p] = [Idle EXCEPT !.result = result]]
    BY <1>1, <1>5, <2>0, EndsRunSteps
  <2>2. run'[p].pc = "idle" /\ ~run'[p].effect /\ ~run'[p].committed
    BY <1>1, <2>1 DEF Idle
  <2>3. Others(p)
    BY <1>1, <2>1 DEF Others
  <2>4. online' \subseteq online
    BY <1>1, <1>5, <2>0, EndsRunSteps
  <2>5. db'.journal = db.journal /\ db'.schema = db.schema
    BY <1>1, <1>5 DEF EndsRun, CloseSession, Crash, Fail, Database
  <2> QED
    BY <2>2, <2>3, <2>4, <2>5, OutsideFaithful DEF Plain
<1> QED
  BY <1>2, <1>3, <1>4, <1>5

\* A call that fails before the lease is taken ends its run.
LEMMA FailFaithful ==
  ASSUME Briefed, NEW p \in Proc, Fail(p), flight' = flight,
         run[p].pc \notin {"begin", "execute"}
  PROVE  Faithful'
<1>1. /\ run \in [Proc -> Run] /\ run[p] \in Run /\ Plain(run[p]) /\ BatchRun(run[p])
  BY DEF Briefed, BatchInv, Sound, TypeOK, Faithful, BatchOK, Sessions, SessionOK
<1>2. /\ p \in online /\ db' = db /\ online' = online /\ run[p].pc # "idle"
      /\ \E e \in {"failed", "uncertain"} : run' = [run EXCEPT ![p] = Throw(run[p], e)]
  BY DEF Fail, ErrorKinds
<1>3. Others(p)
  BY <1>1, <1>2 DEF Others
<1>4. CASE run[p].pc = "lease"
  <2>1. Plain(run'[p]) /\ run'[p].pc = "close"
    BY <1>1, <1>2, <1>4, PlainThrow, BatchThrow
  <2> QED
    BY <1>2, <1>3, <2>1, OutsideFaithful
<1>5. CASE run[p].pc \notin {"lease", "close"}
  <2>1. UnderLease(p)
    BY <1>1, <1>2, <1>5
       DEF BatchRun, BatchStep, UnderLease, Critical, ExecutorStep, ReconcileStep
  <2> QED
    BY <1>2, <1>3, <2>1, FailTold, ToldFaithful
<1>6. CASE run[p].pc = "close"
  BY <1>6, CallFaithful DEF EndsRun
<1> QED
  BY <1>4, <1>5, <1>6

\* Others change the schema, but nothing that a run knows about.
LEMMA ForeignChangeFaithful ==
  ASSUME Briefed, ForeignChange, flight' = flight
  PROVE  Faithful'
<1>1. /\ Accounted(db', flight) /\ db'.journal = db.journal
      /\ \A a \in Artifact \ Foreign :
           Effects(a) \cap db'.schema = Effects(a) \cap db.schema
  BY ForeignAccounted DEF Briefed, BatchInv, Sound, Faithful
<1>2. UNCHANGED <<online, run>>
  BY DEF ForeignChange
<1>3. ASSUME NEW p \in Proc, UnderLease(p)
      PROVE  Informed(p, run[p], db', flight)
  <2> DEFINE l == run[p]
             a == db.journal.attempts[l.attempt].artifact
  <2>1. /\ l \in Run /\ LocalOK(l) /\ Plain(l) /\ Informed(p, l, db, flight)
        /\ db.journal \in Journal /\ Accounted(db, flight)
        /\ AttemptsFit(l, db.journal)
    BY <1>3, AtInformed
  <2>2. l.pc = "create" \/ Pending(l) => Absent(ArtifactOf(l), db')
    <3> SUFFICES ASSUME l.pc = "create" \/ Pending(l)
                 PROVE  Absent(ArtifactOf(l), db')
      OBVIOUS
    <3>1. l.n \in 1..Len(l.repo) /\ l.repo \in Repositories
      BY <2>1 DEF LocalOK, PositionOK, ExecutorStep, Plain, Pending, Definite
    <3>2. ArtifactOf(l) \in Artifact \ Foreign
      BY <2>1, <3>1, PhasesType, BatchAssumption DEF ArtifactOf
    <3> QED
      BY <1>1, <2>1, <3>2 DEF Informed, Absent
  <2>3. l.pc \in {"require", "history", "audit", "resolve"} =>
          Proven(db', l.attempt, l.outcome)
    <3> SUFFICES ASSUME l.pc \in {"require", "history", "audit", "resolve"}
                 PROVE  Proven(db', l.attempt, l.outcome)
      OBVIOUS
    <3>1. l.attempt \in AttemptId /\ StateOf(db.journal, l.attempt) \in Unresolved
      BY <2>1 DEF LocalOK, AttemptOK, ReconcileStep, AttemptsFit, Attempting, OpenAttempts
    <3>2. a \in Artifact \ Foreign
      <4>1. db.journal.attempts[l.attempt] \in Attempt
        BY <2>1, <3>1 DEF Journal
      <4> QED
        BY <2>1, <3>1, <4>1
           DEF Attempt, NoAttempt, StateOf, Unresolved, Accounted, Registered
    <3>3. Effects(a) \cap db'.schema = Effects(a) \cap db.schema
      BY <1>1, <3>2
    <3> QED
      BY <1>1, <2>1, <3>3 DEF Informed, Proven
  <2> QED
    BY <1>1, <2>1, <2>2, <2>3 DEF Informed
<1> QED
  BY <1>1, <1>2, <1>3 DEF Briefed, Faithful, UnderLease

\* An operator repairs the schema while every runner is stopped.
LEMMA RepairFaithful ==
  ASSUME Briefed, Repair, flight' = flight
  PROVE  Faithful'
<1>1. Accounted(db', flight')
  BY RepairAccounted DEF Briefed, BatchInv, Sound, Faithful
<1>2. \A p \in Proc : ~UnderLease(p)
  BY DEF Repair, UnderLease, Critical, ExecutorStep, ReconcileStep
<1>3. UNCHANGED <<online, run>>
  BY DEF Repair
<1> QED
  BY <1>1, <1>2, <1>3 DEF Briefed, Faithful, UnderLease

\* What changes neither journal nor schema, nor any run.
LEMMA SameFaithful ==
  ASSUME Briefed, UNCHANGED <<online, run, flight>>, db'.journal = db.journal,
         db'.schema = db.schema
  PROVE  Faithful'
<1>1. Accounted(db', flight')
  BY SameAccounted DEF Briefed, Faithful
<1>2. \A p \in Proc : UnderLease(p) => Informed(p, run[p], db', flight')
  BY SameInformed DEF Briefed, Faithful
<1> QED
  BY <1>1, <1>2 DEF Briefed, Faithful, UnderLease

\* A step of a run under the lease, as one of all.
LEMMA LeasedStepFaithful ==
  ASSUME Briefed, NEW p \in Proc, LeasedStep(p), flight' = flight, used' = used
  PROVE  Faithful'
<1>1. Told(p) /\ UnderLease(p)
  BY LeasedStepTold
<1>2. Stepped(p)
  BY StepsStepped DEF LeasedStep, SteppingStep, Briefed, BatchInv, BatchOK
<1> QED
  BY <1>1, <1>2, ToldFaithful DEF Stepped

\* A step of a run that sends a batch or does not.
LEMMA BatchStepFaithful ==
  ASSUME Briefed, NEW p \in Proc,
         PrepareBatch(p) \/ FailPreparation(p) \/ RefuseBatch(p) \/ GiveUpBatch(p)
  PROVE  Faithful'
<1>1. Told(p) /\ UnderLease(p)
  BY PrepareBatchTold, FailPreparationTold, FailBatchTold
<1>2. Others(p) /\ online' = online
  <2>1. run \in [Proc -> Run]
    BY DEF Briefed, BatchInv, Sound, TypeOK
  <2> QED
    BY <2>1 DEF PrepareBatch, FailPreparation, RefuseBatch, GiveUpBatch, Proceed, Reject,
       Others
<1> QED
  BY <1>1, <1>2, ToldFaithful

\* Every step keeps it.
LEMMA NextFaithful ==
  ASSUME BatchInv, Faithful, [BatchNext]_batchVars
  PROVE  Faithful'
<1>1. Briefed
  BY DEF Briefed
<1>2. ASSUME NEW p \in Proc, Shared(p), flight' = flight, used' = used
      PROVE  Faithful'
  <2>1. \/ LeasedStep(p)
        \/ AcquireLease(p) \/ EndsRun(p)
        \/ run[p].pc \notin {"begin", "execute"} /\ Fail(p)
    BY <1>2 DEF Shared, LeasedStep, EndsRun
  <2> QED
    BY <1>1, <1>2, <2>1, LeasedStepFaithful, CallFaithful, FailFaithful
<1>3. ASSUME NEW p \in Proc, StartBatchRun(p) \/ StartBatchReconcile(p)
      PROVE  Faithful'
  BY <1>1, <1>3, CallFaithful DEF StartBatchRun, StartBatchReconcile
<1>4. CASE Repair /\ flight' = flight
  BY <1>1, <1>4, RepairFaithful
<1>5. CASE ClearLeaseRow /\ flight' = flight
  <2>1. db'.journal = db.journal /\ db'.schema = db.schema
    BY <1>1, <1>5 DEF ClearLeaseRow, Briefed, BatchInv, Sound, TypeOK, Database
  <2> QED
    BY <1>1, <1>5, <2>1, SameFaithful DEF ClearLeaseRow
<1>6. CASE ForeignChange /\ flight' = flight
  BY <1>1, <1>6, ForeignChangeFaithful
<1>7. CASE UNCHANGED batchVars
  BY <1>1, <1>7, SameFaithful DEF batchVars
<1>8. CASE \E b \in flight : LandBatch(b)
  BY <1>1, <1>8, LandBatchFaithful
<1>9. CASE \E p \in Proc :
             PrepareBatch(p) \/ FailPreparation(p) \/ RefuseBatch(p) \/ GiveUpBatch(p)
  BY <1>1, <1>9, BatchStepFaithful
<1> QED
  BY <1>2, <1>3, <1>4, <1>5, <1>6, <1>7, <1>8, <1>9 DEF BatchNext

\* It holds before the first session.
LEMMA InitFaithful ==
  ASSUME BatchInit
  PROVE  Faithful
<1>1. /\ db.journal = EmptyJournal /\ flight = {} /\ online = {}
      /\ run = [p \in Proc |-> Idle]
  BY DEF BatchInit, Init
<1>2. /\ db.journal.applied = << >>
      /\ \A k \in AttemptId : db.journal.attempts[k] = NoAttempt
  BY <1>1 DEF EmptyJournal
<1>3. Registered(db)
  BY <1>2, ArtifactAssumption, BatchAssumption
     DEF Registered, RecordsOK, AppliedAttemptsRecorded, OpenUnrecorded, OpenAttempts,
         Complete, AppliedIn, OwnRecords, StateOf, NoAttempt, Unresolved
<1>4. RolledBackAbsent(db)
  BY <1>2 DEF RolledBackAbsent, RolledBackIn, StateOf, NoAttempt
<1>5. Accounted(db, flight)
  BY <1>1, <1>3, <1>4 DEF Accounted, AllAddressed
<1> QED
  BY <1>1, <1>5 DEF Faithful, Plain, Idle, UnderLease

\* What a run under the lease knows of journal, schema and the batches on their
\* way, and what each of these batches will find, in every reachable state.
THEOREM FaithfulAlways == BatchSpec => []Faithful
<1>1. BatchInit => Faithful
  BY InitFaithful
<1>2. BatchInv /\ Faithful /\ [BatchNext]_batchVars => Faithful'
  BY NextFaithful
<1> QED
  BY <1>1, <1>2, BatchInvAlways, PTL DEF BatchSpec

\* RollbackIsDefinite: an error the driver has classified as definite tells the
\* truth: neither record nor effect of the attempt is there, and no batch of it
\* will still arrive.
THEOREM BatchRollbackIsDefinite == BatchSpec => []RollbackIsDefinite
<1>1. BatchInv /\ Faithful => RollbackIsDefinite
  <2> SUFFICES ASSUME BatchInv, Faithful,
                      NEW p \in Proc, run[p].pc = "conclude", run[p].error = "failed"
               PROVE  /\ run[p].attempt \notin RecordedBy(db.journal)
                      /\ Effects(ArtifactOf(run[p])) \cap db.schema = {}
                      /\ \A b \in flight : b.attempt # run[p].attempt
    BY DEF RollbackIsDefinite
  <2>1. UnderLease(p) /\ Definite(run[p])
    BY DEF BatchInv, BatchOK, Sessions, SessionOK, UnderLease, Critical, ExecutorStep,
           Definite
  <2>2. Informed(p, run[p], db, flight)
    BY <2>1 DEF Faithful
  <2>3. /\ Absent(ArtifactOf(run[p]), db)
        /\ db.journal.attempts[run[p].attempt].artifact = ArtifactOf(run[p])
        /\ \A b \in flight : b.attempt # run[p].attempt
    BY <2>1, <2>2 DEF Informed, Pending
  <2>4. run[p].attempt \notin RecordedBy(db.journal)
    BY <2>3 DEF Absent, RecordedBy, Recorded, Faithful, Accounted, Registered, Complete,
                OwnRecords
  <2> QED
    BY <2>3, <2>4 DEF Absent
<1> QED
  BY <1>1, BatchInvAlways, FaithfulAlways, PTL

\* UniformRolledBackIsAbsent: what is true of the executor on transactions is true
\* of batches: where all attempts were rolled back, nothing of the artifact is in
\* the schema or the history, however late a batch of them arrived.
THEOREM BatchRolledBackIsAbsent == BatchSpec => []UniformRolledBackIsAbsent
<1>1. Faithful => UniformRolledBackIsAbsent
  <2> SUFFICES ASSUME Faithful, NEW a \in Artifact, OnlyRolledBack(a)
               PROVE  /\ Effects(a) \cap db.schema = {}
                      /\ \A k \in RecordedBy(db.journal) :
                           db.journal.attempts[k].artifact # a
    BY DEF UniformRolledBackIsAbsent
  <2>1. Absent(a, db)
    BY DEF OnlyRolledBack, RolledBackIn, RolledBackAbsent, Faithful, Accounted
  <2> QED
    BY <2>1 DEF Absent, Recorded, RecordedBy, Faithful, Accounted, Registered, Complete,
                OwnRecords
<1> QED
  BY <1>1, FaithfulAlways, PTL

\* Who settles an attempt that is running as applied: the batch that was sent for
\* it, and nobody else.
LEMMA RunningSettles ==
  ASSUME Briefed, NEW p \in Proc, NEW s, NEW l, Transition(p, s, l), UnderLease(p),
         run[p].attempt \in AttemptId, NEW k \in AttemptId,
         StateOf(db.journal, k) = "running", StateOf(db'.journal, k) = "applied"
  PROVE  s = "applied" /\ run[p].attempt = k
<1> DEFINE i == db.journal
           n == run[p].attempt
<1>1. i \in Journal /\ JournalOf(p) = i
  BY AtInformed
<1>2. CASE CanTransition(i, n, s)
  <2>1. db'.journal = TransitionAttempt(i, n, s)
    BY <1>1, <1>2, JournalWritten DEF Transition
  <2> QED
    BY <1>1, <1>2, <2>1, TransitionChanges DEF StateOf
<1>3. CASE ~CanTransition(i, n, s)
  <2>1. db' = db
    BY <1>1, <1>3 DEF Transition, Reject, Proceed
  <2> QED
    BY <2>1
<1> QED
  BY <1>2, <1>3

LEMMA LeasedStepSettles ==
  ASSUME Briefed, NEW p \in Proc, LeasedStep(p), flight' = flight, NEW k \in AttemptId,
         StateOf(db.journal, k) = "running"
  PROVE  StateOf(db'.journal, k) # "applied"
<1> SUFFICES ASSUME StateOf(db'.journal, k) = "applied"
             PROVE  FALSE
  OBVIOUS
<1> DEFINE l == run[p]
           i == db.journal
<1>1. UnderLease(p)
  BY LeasedStepTold
<1>2. /\ l \in Run /\ LocalOK(l) /\ i \in Journal /\ JournalOf(p) = i /\ View(p) = db
      /\ txn[p] = NoTxn /\ db \in Database
  BY <1>1, AtInformed
<1>3. CASE MarkBatchRunning(p) \/ ConcludeAttempt(p) \/ RequireRecovery(p)
           \/ ResolveAttempt(p)
  <2>1. l.attempt \in AttemptId
    BY <1>2, <1>3 DEF LocalOK, AttemptOK, ExecutorStep, ReconcileStep, MarkBatchRunning,
       ConcludeAttempt, RequireRecovery, ResolveAttempt, At
  <2>2. PICK s, m : /\ Transition(p, s, m)
                    /\ s \in {"running", "recovery_required", "rolled_back"}
                       \/ l.pc = "resolve"
    BY <1>3 DEF MarkBatchRunning, ConcludeAttempt, FailedState, RequireRecovery,
       ResolveAttempt, At
  <2>3. s = "applied" /\ l.attempt = k
    BY <1>1, <2>1, <2>2, RunningSettles
  <2>4. StateOf(i, k) = "recovery_required"
    BY <1>1, <2>2, <2>3, AtReconcile
  <2> QED
    BY <2>4
<1>4. CASE CreateAttemptRow(p)
  <2>1. PICK n \in AttemptId :
          \/ CanCreate(i, n) /\ WriteJournal(p, CreateAttempt(i, n, ArtifactOf(l), l.head))
          \/ Reject(p, "failed")
    BY <1>2, <1>4 DEF CreateAttemptRow
  <2>2. CASE Reject(p, "failed")
    BY <2>2 DEF Reject, Proceed
  <2>3. CASE CanCreate(i, n) /\ WriteJournal(p, CreateAttempt(i, n, ArtifactOf(l), l.head))
    <3>1. db'.journal = CreateAttempt(i, n, ArtifactOf(l), l.head)
      BY <2>3, JournalWritten
    <3> QED
      BY <1>2, <2>3, <3>1, CreateChanges DEF CanCreate, StateOf
  <2> QED
    BY <2>1, <2>2, <2>3
<1>5. CASE ReconcileHistory(p) \/ RecordOutcome(p)
  <2> DEFINE grown == AppendAppliedAndAdvanceHead(i, i.attempts[l.attempt].artifact, l.attempt)
             noted == RecordReconciliation(i, l.attempt, l.outcome)
  <2>1. grown.attempts = i.attempts /\ noted.attempts = i.attempts
    BY <1>2 DEF AppendAppliedAndAdvanceHead, RecordReconciliation, Journal
  <2> HIDE DEF grown, noted
  <2>2. db' = db \/ WriteJournal(p, grown) \/ WriteJournal(p, noted)
    BY <1>2, <1>5 DEF ReconcileHistory, RecordOutcome, Reject, Proceed, grown, noted
  <2>3. db'.journal.attempts = i.attempts
    BY <2>1, <2>2, JournalWritten
  <2> QED
    BY <2>3 DEF StateOf
<1>6. CASE ReadJournal(p) \/ SelectArtifact(p) \/ VerifyOutcome(p)
  BY <1>6 DEF ReadJournal, SelectArtifact, VerifyOutcome, Reject, Proceed
<1>7. CASE ReleaseLease(p)
  <2>1. db' = [db EXCEPT !.lease = IF @ = p THEN Null ELSE @]
    BY <1>2, <1>7, BatchAssumption DEF ReleaseLease, Write, View
  <2> QED
    BY <1>2, <2>1 DEF Database
<1> QED
  BY <1>3, <1>4, <1>5, <1>6, <1>7 DEF LeasedStep

LEMMA OnlyBatchesSettle ==
  ASSUME Briefed, [BatchNext]_batchVars, NEW k \in AttemptId,
         StateOf(db.journal, k) = "running", StateOf(db'.journal, k) = "applied"
  PROVE  \E b \in flight : LandBatch(b) /\ Assertions(b) /\ b.attempt = k
<1>1. db \in Database /\ db.journal \in Journal
  BY DEF Briefed, BatchInv, Sound, TypeOK, Database
<1>2. ASSUME NEW p \in Proc, LeasedStep(p), flight' = flight
      PROVE  FALSE
  BY <1>2, LeasedStepSettles
<1>3. ASSUME NEW p \in Proc,
             \/ StartBatchRun(p) \/ StartBatchReconcile(p) \/ AcquireLease(p)
             \/ CloseSession(p) \/ Crash(p) \/ Fail(p)
             \/ PrepareBatch(p) \/ FailPreparation(p) \/ RefuseBatch(p) \/ GiveUpBatch(p)
      PROVE  FALSE
  <2>1. db'.journal = db.journal
    BY <1>1, <1>3, BatchAssumption
       DEF StartBatchRun, StartBatchReconcile, StartReconcile, AcquireLease, CloseSession,
           Crash, Fail, PrepareBatch, FailPreparation, RefuseBatch, GiveUpBatch, Reject,
           Proceed, Database
  <2> QED
    BY <2>1
<1>4. CASE Repair \/ ClearLeaseRow \/ ForeignChange \/ UNCHANGED batchVars
  <2>1. db'.journal = db.journal
    BY <1>1, <1>4 DEF Repair, ClearLeaseRow, ForeignChange, batchVars, Database
  <2> QED
    BY <2>1
<1>5. ASSUME NEW b \in flight, LandBatch(b)
      PROVE  Assertions(b) /\ b.attempt = k
  <2>1. Assertions(b)
    BY <1>5 DEF LandBatch
  <2>2. OpenAttempts(db.journal) = {b.attempt}
    BY <2>1, CommittedOK DEF Briefed, BatchInv
  <2> QED
    BY <2>1, <2>2 DEF OpenAttempts, Unresolved
<1>6. \/ \E p \in Proc : LeasedStep(p) /\ flight' = flight
      \/ \E p \in Proc :
           \/ StartBatchRun(p) \/ StartBatchReconcile(p) \/ AcquireLease(p)
           \/ CloseSession(p) \/ Crash(p) \/ Fail(p)
           \/ PrepareBatch(p) \/ FailPreparation(p) \/ RefuseBatch(p) \/ GiveUpBatch(p)
      \/ Repair \/ ClearLeaseRow \/ ForeignChange \/ UNCHANGED batchVars
      \/ \E b \in flight : LandBatch(b)
  BY DEF BatchNext, Shared, LeasedStep
<1> QED
  BY <1>2, <1>3, <1>4, <1>5, <1>6

\* LandsOnPlannedSchema: when an attempt that is running becomes applied, it does
\* on the schema that the history has left, although the batch was prepared on it
\* in an earlier step and others may have changed it since.
THEOREM BatchLandsOnPlannedSchema == BatchSpec => LandsOnPlannedSchema
<1> DEFINE Planned ==
      \A k \in AttemptId :
        StateOf(db.journal, k) = "running" /\ StateOf(db'.journal, k) = "applied" =>
          db.schema = UNION {Effects(a) : a \in Recorded(db.journal)}
<1>1. BatchInv /\ Faithful /\ [BatchNext]_batchVars => Planned
  <2> SUFFICES ASSUME BatchInv, Faithful, [BatchNext]_batchVars, NEW k \in AttemptId,
                      StateOf(db.journal, k) = "running",
                      StateOf(db'.journal, k) = "applied"
               PROVE  db.schema = UNION {Effects(a) : a \in Recorded(db.journal)}
    OBVIOUS
  <2>1. PICK b \in flight : LandBatch(b) /\ Assertions(b) /\ b.attempt = k
    BY OnlyBatchesSettle DEF Briefed
  <2> QED
    BY <2>1 DEF Assertions, Faithful, Accounted, AllAddressed, Addressed
<1> QED
  BY <1>1, BatchInvAlways, FaithfulAlways, PTL DEF BatchSpec, LandsOnPlannedSchema

-----------------------------------------------------------------------------
(* What a run that reports success has done. *)

\* The history of j has every artifact of the repository at its place.
IsWhole(repo, j) ==
  \A n \in 1..Len(repo) : n <= Len(j.applied) /\ j.applied[n].artifact = repo[n]

\* A run that has come to its end without an error has seen that.
Rounded(l, j) ==
  /\ l.pc \in ReconcileStep => l.role # "apply"
  /\ l.pc = "conclude" => l.error # "none"
  /\ l.role = "apply" => l.result # "success"
  /\ l.role = "apply" /\ l.error = "none" /\ l.pc \in {"release", "close"} =>
       IsWhole(l.repo, j)

Ended == \A p \in Proc : Rounded(run[p], db.journal)

\* A history that has it keeps it.
LEMMA WholeStays ==
  ASSUME NEW i \in Journal, NEW j, JournalStep(i, j), NEW l \in Run, Rounded(l, i)
  PROVE  Rounded(l, j)
<1>1. Preserves(i, j)
  BY StepPreserves
<1>2. Len(i.applied) \in Nat /\ Len(l.repo) \in Nat
  BY DEF Journal, Run
<1>3. Len(j.applied) \in Nat /\ Len(i.applied) <= Len(j.applied)
  BY <1>1, <1>2 DEF Preserves
<1>4. \A n \in 1..Len(i.applied) : j.applied[n] = i.applied[n]
  BY <1>1 DEF Preserves
<1>5. ASSUME IsWhole(l.repo, i)
      PROVE  IsWhole(l.repo, j)
  <2> SUFFICES ASSUME NEW n \in 1..Len(l.repo)
               PROVE  n <= Len(j.applied) /\ j.applied[n].artifact = l.repo[n]
    BY DEF IsWhole
  <2>1. n \in Nat /\ n >= 1 /\ n <= Len(i.applied) /\ i.applied[n].artifact = l.repo[n]
    BY <1>2, <1>5 DEF IsWhole
  <2>2. n \in 1..Len(i.applied)
    BY <1>2, <2>1
  <2> QED
    BY <1>2, <1>3, <1>4, <2>1, <2>2
<1> QED
  BY <1>5 DEF Rounded

\* A step keeps it if it does for the process that takes it.
LEMMA EndedStep ==
  ASSUME BatchInv, Ended, [BatchNext]_batchVars, NEW p \in Proc, Others(p),
         Rounded(run'[p], db'.journal)
  PROVE  Ended'
<1>1. /\ db.journal \in Journal /\ JournalStep(db.journal, db'.journal)
      /\ \A q \in Proc : run[q] \in Run
  BY NextAdvances DEF BatchInv, Advances, Kept, Sound, TypeOK, Database
<1>2. \A q \in Proc \ {p} : Rounded(run[q], db'.journal)
  BY <1>1, WholeStays DEF Ended
<1> QED
  BY <1>2 DEF Ended, Others

\* A run that throws has an error.
LEMMA ThrowRounded ==
  ASSUME NEW l \in Run, BatchRun(l), l.pc \notin {"idle", "close"}, NEW j, Rounded(l, j),
         NEW e \in {"failed", "uncertain"}
  PROVE  Rounded(Throw(l, e), j) /\ Throw(l, e).role = l.role
<1> DEFINE failed == [l EXCEPT !.error = e]
           m == Throw(l, e)
<1> SUFFICES Rounded(m, j) /\ m.role = l.role
  OBVIOUS
<1>1. failed.pc = l.pc /\ ~failed.active /\ ~failed.locked
  BY DEF BatchRun, Run
<1>2. \A pc : LET t == [failed EXCEPT !.pc = pc]
              IN  t.pc = pc /\ t.error = e /\ t.role = l.role /\ t.result = l.result
  BY DEF Run
<1>3. l.pc \in BatchStep
  BY DEF BatchRun
<1>4. /\ m.role = l.role /\ m.result = l.result /\ m.error # "none"
      /\ m.pc \in {"close", "conclude", "release"}
  <2>1. CASE l.pc \in {"lease", "read", "select", "create", "start"} \cup ReconcileStep
    <3>1. m = [failed EXCEPT !.pc = IF l.pc = "lease" THEN "close" ELSE "release"]
      BY <2>1 DEF Throw, ReconcileStep
    <3> HIDE DEF m, failed
    <3> QED
      BY <1>2, <3>1
  <2>2. CASE l.pc \in {"begin", "execute"}
    <3>1. m = [failed EXCEPT !.pc = "conclude"]
      BY <1>1, <2>2 DEF Throw, ReconcileStep, Catch, Finally, AfterFinally
    <3> HIDE DEF m, failed
    <3> QED
      BY <1>2, <3>1
  <2>3. CASE l.pc = "conclude"
    <3>1. m = [l EXCEPT !.pc = "release"]
      BY <2>3 DEF Throw, ReconcileStep
    <3> QED
      BY <2>3, <3>1 DEF Run, Rounded
  <2>4. CASE l.pc = "release"
    <3>1. m = [l EXCEPT !.pc = "close", !.error = IF @ = "none" THEN e ELSE @]
      BY <2>4 DEF Throw, ReconcileStep
    <3> QED
      BY <2>4, <3>1 DEF Run
  <2> QED
    BY <1>3, <2>1, <2>2, <2>3, <2>4 DEF BatchStep
<1> HIDE DEF m
<1> QED
  BY <1>4 DEF Rounded, ReconcileStep

\* The run finds all of its repository in the history.
LEMMA SelectWhole ==
  ASSUME Briefed, NEW p \in Proc, SelectArtifact(p), run'[p].pc = "release",
         run'[p].error = "none"
  PROVE  IsWhole(run[p].repo, db'.journal)
<1> DEFINE l == run[p]
           i == db.journal
<1>1. UnderLease(p) /\ l.pc = "select"
  BY DEF SelectArtifact, At, UnderLease, Critical, ExecutorStep
<1>2. /\ l \in Run /\ LocalOK(l) /\ BatchRun(l) /\ Informed(p, l, db, flight)
      /\ run \in [Proc -> Run] /\ i \in Journal
  BY <1>1, AtInformed
<1>3. HistoryIs(l.repo, i, l.n - 1) /\ l.n \in Nat /\ l.n >= 1
  BY <1>1, <1>2 DEF Informed, Planning, Run, LocalOK, PositionOK
<1>4. l.n > Len(l.repo) /\ db' = db
  <2>1. CASE Reject(p, "failed")
    <3>1. run'[p] = Throw(l, "failed")
      BY <1>2, <2>1 DEF Reject, Proceed
    <3>2. Throw(l, "failed").error = "failed"
      BY <1>1, <1>2 DEF Throw, Run
    <3> QED
      BY <3>1, <3>2
  <2>2. CASE Proceed(p, [l EXCEPT !.pc = "create"])
    BY <1>2, <2>2 DEF Proceed, Run
  <2>3. CASE l.n > Len(l.repo) /\ Proceed(p, [l EXCEPT !.pc = "release"])
    BY <2>3 DEF Proceed
  <2> QED
    BY <2>1, <2>2, <2>3 DEF SelectArtifact
<1>5. Len(i.applied) = l.n - 1 /\ Len(l.repo) \in Nat
  BY <1>2, <1>3 DEF HistoryIs, Run
<1>6. \A n \in 1..Len(l.repo) : n <= Len(i.applied) /\ i.applied[n].artifact = l.repo[n]
  <2> SUFFICES ASSUME NEW n \in 1..Len(l.repo)
               PROVE  n <= Len(i.applied) /\ i.applied[n].artifact = l.repo[n]
    OBVIOUS
  <2>1. n <= Len(i.applied) /\ n \in 1..Len(i.applied)
    BY <1>3, <1>4, <1>5
  <2> QED
    BY <1>3, <2>1 DEF HistoryIs, IsJournalPrefix
<1> QED
  BY <1>4, <1>6 DEF IsWhole

\* A step before or under the lease keeps the run what it is.
LEMMA SteppingRounded ==
  ASSUME Briefed, Ended, [BatchNext]_batchVars, NEW p \in Proc, SteppingStep(p)
  PROVE  Ended' /\ run'[p].role = run[p].role
<1> DEFINE l == run[p]
           j == db'.journal
<1>1. Stepped(p)
  BY StepsStepped DEF Briefed, BatchInv, BatchOK
<1>2. /\ l \in Run /\ BatchRun(l) /\ db.journal \in Journal
      /\ JournalStep(db.journal, j) /\ Rounded(l, db.journal)
  BY NextAdvances DEF Briefed, BatchInv, Advances, Kept, Sound, TypeOK, Database, BatchOK,
     Sessions, SessionOK, Ended
<1>3. Rounded(l, j)
  BY <1>2, WholeStays
<1>4. CASE \E e \in {"failed", "uncertain"} : run'[p] = Throw(l, e)
  <2>1. Rounded(run'[p], j) /\ run'[p].role = l.role
    BY <1>1, <1>2, <1>3, <1>4, ThrowRounded DEF Stepped
  <2> QED
    BY <1>1, <2>1, EndedStep DEF Briefed, Stepped
<1>5. CASE GoesOn(l, run'[p])
  <2>1. ASSUME l.pc = "select", run'[p].pc = "release", l.error = "none"
        PROVE  IsWhole(l.repo, j)
    <3>1. SelectArtifact(p) \/ Fail(p)
      BY <2>1 DEF SteppingStep, AcquireLease, ReadJournal, CreateAttemptRow,
         MarkBatchRunning, PrepareBatch, ConcludeAttempt, VerifyOutcome, RequireRecovery,
         ReconcileHistory, RecordOutcome, ResolveAttempt, ReleaseLease, FailPreparation, At
    <3>2. CASE SelectArtifact(p)
      BY <1>5, <2>1, <3>2, SelectWhole DEF GoesOn
    <3>3. CASE Fail(p)
      <4>1. run'[p] = Throw(l, "failed")
        BY <1>2, <2>1, <3>3 DEF Fail, ErrorKinds, Briefed, BatchInv, Sound, TypeOK
      <4>2. Throw(l, "failed").error = "failed"
        BY <1>2, <2>1 DEF Throw, Run
      <4> QED
        BY <1>5, <2>1, <4>1, <4>2 DEF GoesOn
    <3> QED
      BY <3>1, <3>2, <3>3
  <2>2. Rounded(run'[p], j) /\ run'[p].role = l.role
    BY <1>3, <1>5, <2>1 DEF Rounded, GoesOn, ReconcileStep
  <2> QED
    BY <1>1, <2>2, EndedStep DEF Briefed, Stepped
<1> QED
  BY <1>1, <1>4, <1>5 DEF Stepped

\* So does the arrival of a batch: behind it the run goes on, or has an error.
LEMMA LandRounded ==
  ASSUME Briefed, Ended, [BatchNext]_batchVars, NEW b \in flight, LandBatch(b)
  PROVE  Ended' /\ \A p \in Proc : run'[p].role = run[p].role
<1> DEFINE p == b.by
           l == run[p]
           j == db'.journal
<1>1. /\ p \in Proc /\ (Awaits(p, b) <=> l.pc = "execute")
      /\ l \in Run /\ BatchRun(l) /\ db.journal \in Journal
      /\ JournalStep(db.journal, j) /\ Rounded(l, db.journal) /\ run \in [Proc -> Run]
  BY OwnBatch, NextAdvances DEF Briefed, BatchInv, Advances, Kept, Sound, TypeOK, Database,
     BatchOK, Sessions, SessionOK, Ended
<1>2. Rounded(l, j)
  BY <1>1, WholeStays
<1>3. CASE l.pc = "execute"
  <2>1. Landed(p, b)
    BY <1>3, LandBatchLands DEF Briefed, BatchInv
  <2>2. CASE run'[p] = NextArtifact(l)
    <3>1. /\ run'[p].pc = "select" /\ run'[p].role = l.role /\ run'[p].result = "none"
      BY <2>2 DEF NextArtifact, Idle
    <3>2. Rounded(run'[p], j)
      BY <3>1 DEF Rounded, ReconcileStep
    <3> QED
      BY <1>1, <2>1, <3>1, <3>2, EndedStep DEF Briefed, Landed, Others
  <2>3. CASE \E e \in {"failed", "uncertain"} : run'[p] = Throw(l, e)
    <3>1. Rounded(run'[p], j) /\ run'[p].role = l.role
      BY <1>1, <1>2, <1>3, <2>3, ThrowRounded
    <3> QED
      BY <1>1, <2>1, <3>1, EndedStep DEF Briefed, Landed, Others
  <2> QED
    BY <2>1, <2>2, <2>3 DEF Landed
<1>4. CASE l.pc # "execute"
  <2>1. run' = run
    BY <1>1, <1>4 DEF LandBatch
  <2> QED
    BY <1>1, <1>2, <2>1, EndedStep DEF Briefed, Others
<1> QED
  BY <1>3, <1>4

\* A batch that is refused or given up leaves its run with an error.
LEMMA BatchFailsRounded ==
  ASSUME Briefed, Ended, [BatchNext]_batchVars, NEW p \in Proc,
         RefuseBatch(p) \/ GiveUpBatch(p)
  PROVE  Ended' /\ run'[p].role = run[p].role
<1> DEFINE l == run[p]
<1>1. /\ l \in Run /\ BatchRun(l) /\ db' = db /\ Rounded(l, db.journal)
      /\ l.pc \notin {"idle", "close"}
      /\ \E e \in {"failed", "uncertain"} : run' = [run EXCEPT ![p] = Throw(l, e)]
      /\ run \in [Proc -> Run]
  BY DEF Briefed, BatchInv, Sound, TypeOK, BatchOK, Sessions, SessionOK, Ended, At,
     RefuseBatch, GiveUpBatch, Classify
<1>2. Rounded(run'[p], db'.journal) /\ run'[p].role = l.role
  BY <1>1, ThrowRounded
<1> QED
  BY <1>1, <1>2, EndedStep DEF Briefed, Others

\* A call starts without a result and ends with one.
LEMMA CallRounded ==
  ASSUME Briefed, Ended, [BatchNext]_batchVars, NEW p \in Proc,
         StartBatchRun(p) \/ StartBatchReconcile(p) \/ EndsRun(p)
  PROVE  /\ Ended' /\ Others(p)
         /\ run'[p].result = "success" => CloseSession(p) /\ run[p].error = "none"
<1>1. run \in [Proc -> Run]
  BY DEF Briefed, BatchInv, Sound, TypeOK
<1>2. CASE StartBatchRun(p)
  <2>1. PICK repo \in Repositories :
          run' = [run EXCEPT ![p] =
            [Idle EXCEPT !.role = "apply", !.repo = repo,
                         !.pc = IF ValidateBatch(repo) THEN "lease" ELSE "close",
                         !.error = IF ValidateBatch(repo) THEN "none" ELSE "failed"]]
    BY <1>2 DEF StartBatchRun
  <2>2. /\ run'[p].pc \in {"lease", "close"} /\ run'[p].result = "none"
        /\ run'[p].pc = "close" => run'[p].error = "failed"
    BY <1>1, <2>1 DEF Idle
  <2>3. Rounded(run'[p], db'.journal) /\ Others(p)
    BY <1>1, <2>1, <2>2 DEF Rounded, ReconcileStep, Others
  <2> QED
    BY <2>2, <2>3, EndedStep DEF Briefed
<1>3. CASE StartBatchReconcile(p)
  <2>1. PICK repo \in Repositories, k \in AttemptId, outcome \in Terminal :
          run' = [run EXCEPT ![p] =
            [Idle EXCEPT !.pc = "lease", !.role = "reconcile", !.repo = repo,
                         !.attempt = k, !.outcome = outcome]]
    BY <1>3 DEF StartBatchReconcile, StartReconcile
  <2>2. run'[p].pc = "lease" /\ run'[p].result = "none"
    BY <1>1, <2>1 DEF Idle
  <2>3. Rounded(run'[p], db'.journal) /\ Others(p)
    BY <1>1, <2>1, <2>2 DEF Rounded, ReconcileStep, Others
  <2> QED
    BY <2>2, <2>3, EndedStep DEF Briefed
<1>4. CASE EndsRun(p)
  <2>1. \E result \in {"success", "failed", "crashed", "unclosed"} :
          /\ run' = [run EXCEPT ![p] = [Idle EXCEPT !.result = result]]
          /\ result = "success" => CloseSession(p) /\ run[p].error = "none"
    <3>1. CASE CloseSession(p)
      BY <3>1 DEF CloseSession, Closed
    <3>2. CASE Crash(p)
      BY <3>2 DEF Crash
    <3>3. CASE run[p].pc = "close" /\ Fail(p)
      <4>1. run[p] \in Run
        BY <1>1
      <4>2. run' = [run EXCEPT ![p] = [Idle EXCEPT !.result = "unclosed"]]
        BY <3>3, <4>1, ThrowClosing DEF Fail
      <4> QED
        BY <4>2
    <3> QED
      BY <1>4, <3>1, <3>2, <3>3 DEF EndsRun
  <2>2. /\ run'[p].pc = "idle" /\ run'[p].role = "none" /\ Others(p)
        /\ run'[p].result = "success" => CloseSession(p) /\ run[p].error = "none"
    BY <1>1, <2>1 DEF Idle, Others
  <2>3. Rounded(run'[p], db'.journal)
    BY <2>2 DEF Rounded, ReconcileStep
  <2> QED
    BY <2>2, <2>3, EndedStep DEF Briefed
<1> QED
  BY <1>2, <1>3, <1>4

\* Every step keeps it, and only the end of a session without an error is a success.
LEMMA NextEnded ==
  ASSUME Briefed, Ended, [BatchNext]_batchVars
  PROVE  /\ Ended'
         /\ \A p \in Proc : run[p].role = "apply" /\ run'[p].result = "success" =>
              CloseSession(p) /\ run[p].error = "none"
<1> DEFINE Succeeds(p) == run[p].role = "apply" /\ run'[p].result = "success"
<1>1. ASSUME NEW p \in Proc, Others(p), Ended', NEW q \in Proc, Succeeds(q)
      PROVE  q = p /\ run'[p].role # "apply"
  <2>1. q = p
    BY <1>1 DEF Others, Ended, Rounded
  <2> QED
    BY <1>1, <2>1 DEF Ended, Rounded
<1>2. ASSUME NEW p \in Proc,
             StartBatchRun(p) \/ StartBatchReconcile(p) \/ EndsRun(p)
      PROVE  Ended' /\ \A q \in Proc : Succeeds(q) => CloseSession(q) /\ run[q].error = "none"
  BY <1>1, <1>2, CallRounded
<1>3. ASSUME NEW p \in Proc, SteppingStep(p)
      PROVE  Ended' /\ \A q \in Proc : ~Succeeds(q)
  <2>1. Others(p)
    BY <1>3, StepsStepped DEF Briefed, BatchInv, BatchOK, Stepped
  <2> QED
    BY <1>1, <1>3, <2>1, SteppingRounded
<1>4. ASSUME NEW p \in Proc, RefuseBatch(p) \/ GiveUpBatch(p)
      PROVE  Ended' /\ \A q \in Proc : ~Succeeds(q)
  <2>1. Others(p)
    BY <1>4 DEF RefuseBatch, GiveUpBatch, Others, Briefed, BatchInv, Sound, TypeOK
  <2> QED
    BY <1>1, <1>4, <2>1, BatchFailsRounded
<1>5. ASSUME NEW b \in flight, LandBatch(b)
      PROVE  Ended' /\ \A q \in Proc : ~Succeeds(q)
  <2>1. Ended' /\ \A p \in Proc : run'[p].role = run[p].role
    BY <1>5, LandRounded
  <2> QED
    BY <2>1 DEF Ended, Rounded
<1>6. ASSUME run' = run
      PROVE  Ended' /\ \A q \in Proc : ~Succeeds(q)
  <2>1. /\ db.journal \in Journal /\ JournalStep(db.journal, db'.journal)
        /\ \A q \in Proc : run[q] \in Run
    BY NextAdvances DEF Briefed, BatchInv, Advances, Kept, Sound, TypeOK, Database
  <2> QED
    BY <1>6, <2>1, WholeStays DEF Ended, Rounded
<1>7. \/ \E p \in Proc :
           StartBatchRun(p) \/ StartBatchReconcile(p) \/ EndsRun(p)
      \/ \E p \in Proc : SteppingStep(p)
      \/ \E p \in Proc : RefuseBatch(p) \/ GiveUpBatch(p)
      \/ \E b \in flight : LandBatch(b)
      \/ run' = run
  BY DEF BatchNext, Shared, SteppingStep, EndsRun, Repair, ClearLeaseRow, ForeignChange,
         batchVars
<1> QED
  BY <1>2, <1>3, <1>4, <1>5, <1>6, <1>7

\* SuccessIsApplied: a run on batches that reports success leaves the whole
\* repository applied, in its order.
THEOREM BatchSuccessIsApplied == BatchSpec => SuccessIsApplied
<1>1. BatchInit => Ended
  BY DEF BatchInit, Init, Ended, Rounded, Idle, ReconcileStep
<1>2. BatchInv /\ Faithful /\ Ended /\ [BatchNext]_batchVars => Ended'
  BY NextEnded DEF Briefed
<1>3. BatchInv /\ Faithful /\ Ended /\ [BatchNext]_batchVars =>
        [\A p \in Proc :
           run[p].role = "apply" /\ run'[p].result = "success" =>
             \A n \in 1..Len(run[p].repo) :
               /\ n <= Len(db'.journal.applied)
               /\ db'.journal.applied[n].artifact = run[p].repo[n]]_vars
  <2> SUFFICES ASSUME BatchInv, Faithful, Ended, [BatchNext]_batchVars,
                      NEW p \in Proc, run[p].role = "apply", run'[p].result = "success"
               PROVE  IsWhole(run[p].repo, db'.journal)
    BY DEF IsWhole
  <2>1. CloseSession(p) /\ run[p].error = "none"
    BY NextEnded DEF Briefed
  <2>2. IsWhole(run[p].repo, db.journal)
    BY <2>1 DEF CloseSession, At, Ended, Rounded
  <2>3. db'.journal = db.journal
    BY <2>1 DEF CloseSession, BatchInv, Sound, TypeOK, Database
  <2> QED
    BY <2>2, <2>3
<1> QED
  BY <1>1, <1>2, <1>3, BatchInvAlways, FaithfulAlways, PTL DEF BatchSpec, SuccessIsApplied

\* AppliedIsComplete and AppliedIsRecorded: an attempt is called applied only with
\* its record and all its effects, whatever batch arrives and whatever others change.
THEOREM BatchAppliedIsComplete == BatchSpec => [](AppliedIsComplete /\ AppliedIsRecorded)
<1>1. Faithful => AppliedIsComplete /\ AppliedIsRecorded
  BY DEF Faithful, Accounted, Registered, RecordsOK, Complete, AppliedIn,
         AppliedIsComplete, AppliedIsRecorded
<1> QED
  BY <1>1, FaithfulAlways, PTL
=============================================================================
