---------------------------- MODULE AtomicBatch -----------------------------
(***************************************************************************)
(* executeMigrations on atomic-batch sessions, those of libSQL:            *)
(* adapters/libsql/src/migration.ts under                                  *)
(* packages/migrate/src/executor/index.ts.                                 *)
(*                                                                         *)
(* The entry, the lease row, the journal, the cleanup and reconciliation   *)
(* are those of MigrationExecutor; the phases are replaced by one request  *)
(* that carries the statements, the journal writes, and assertions on all  *)
(* that was read to prepare it.  The request outlives its sender: it may   *)
(* reach the database after the sender has given it up or has died.        *)
(***************************************************************************)
EXTENDS MigrationExecutor

CONSTANT Foreign  \* changes others make to the managed schema, as artifacts
                  \* of no repository

ASSUME BatchAssumption ==
  /\ LeaseKind = "row"
  /\ Foreign \subseteq Artifact
  /\ \A repo \in Repositories : \A n \in 1..Len(repo) : repo[n] \notin Foreign

VARIABLES
  flight,    \* the batches sent and not yet at the database
  used       \* sessions so far; each has a lease token of its own

batchVars == <<db, txn, advisory, ddl, online, run, faults, flight, used>>

Batch ==
  [ by       : Proc,
    artifact : Artifact,
    attempt  : AttemptId,
    head     : Digest,
    catalog  : SUBSET UNION {Effects(a) : a \in Artifact} ]

BatchTypeOK ==
  /\ TypeOK
  /\ flight \subseteq Batch
  /\ used \subseteq Proc

BatchInit == Init /\ flight = {} /\ used = {}

-----------------------------------------------------------------------------
(* executeArtifact's batch branch and applyBatch.  A run prepares its batch *)
(* at "begin" and awaits its answer at "execute".                           *)

\* validateBatch
ValidateBatch(repo) ==
  \A n \in 1..Len(repo) :
    /\ Len(Program[repo[n]]) = 1
    /\ Program[repo[n]][1].transaction # "forbidden"

StartBatchRun(p) ==
  \E repo \in Repositories :
    /\ p \notin used
    /\ VerifyArtifactChain(repo)
    /\ online' = online \cup {p}
    /\ run' = [run EXCEPT ![p] =
         [Idle EXCEPT !.role = "apply", !.repo = repo,
                      !.pc = IF ValidateBatch(repo) THEN "lease" ELSE "close",
                      !.error = IF ValidateBatch(repo) THEN "none" ELSE "failed"]]
    /\ used' = used \cup {p}
    /\ UNCHANGED <<db, txn, advisory, ddl, faults, flight>>

StartBatchReconcile(p) ==
  /\ p \notin used
  /\ StartReconcile(p)
  /\ used' = used \cup {p}
  /\ UNCHANGED flight

\* The attempt is running; applyBatch is called next.
MarkBatchRunning(p) ==
  /\ At(p, "start")
  /\ Transition(p, "running", [run[p] EXCEPT !.pc = "begin", !.ph = 1, !.st = 1])

\* One read transaction sees catalog and snapshot; then the batch is sent.
PrepareBatch(p) ==
  LET l == run[p]
  IN  /\ At(p, "begin")
      /\ IF db.schema = Before(l.repo, l.n)
           THEN /\ flight' = flight \cup
                     {[by |-> p, artifact |-> ArtifactOf(l), attempt |-> l.attempt,
                       head |-> l.head, catalog |-> db.schema]}
                /\ Proceed(p, [l EXCEPT !.pc = "execute"])
           ELSE Reject(p, "failed") /\ UNCHANGED flight

\* Mutants: the assertions on the lease and the attempt, or on the catalog,
\* are left out of the batch.
AssertHeadAndCatalog(b) ==
  /\ db.schema = b.catalog
  /\ db.journal.head = b.head
  /\ NotYetRecorded(db.journal, b.artifact, b.attempt)

AssertJournalOnly(b) ==
  /\ db.lease = b.by
  /\ StateOf(db.journal, b.attempt) = "running"
  /\ db.journal.head = b.head
  /\ NotYetRecorded(db.journal, b.artifact, b.attempt)

\* The guard assertions and the constraints of the batch.
Assertions(b) ==
  /\ db.lease = b.by
  /\ StateOf(db.journal, b.attempt) = "running"
  /\ db.schema = b.catalog
  /\ db.journal.head = b.head
  /\ NotYetRecorded(db.journal, b.artifact, b.attempt)

\* UPDATE ... SET state = 'applied' WHERE state = 'running'
MarkRunningApplied(j, k) ==
  IF StateOf(j, k) = "running" THEN TransitionAttempt(j, k, "applied") ELSE j

\* Mutant: the terminal state of the attempt is written in a call of its own.
StatementsAndHistory(b) ==
  [db EXCEPT !.schema = @ \cup Effects(b.artifact),
             !.journal = AppendAppliedAndAdvanceHead(@, b.artifact, b.attempt)]

\* What the batch commits: statements, history, head, attempt and checkpoint.
Committed(b) ==
  [db EXCEPT !.schema = @ \cup Effects(b.artifact),
             !.marks = @ \cup {<<b.attempt, e>> : e \in Effects(b.artifact)},
             !.journal = MarkRunningApplied(
                AppendAppliedAndAdvanceHead(@, b.artifact, b.attempt), b.attempt)]

Awaits(p, b) == run[p].pc = "execute" /\ b.by = p /\ run[p].attempt = b.attempt

\* The batch reaches the database: all of it commits or none of it.
LandBatch(b) ==
  /\ flight' = flight \ {b}
  /\ db' = IF Assertions(b) THEN Committed(b) ELSE db
  /\ IF Awaits(b.by, b)
       THEN Answer(b.by, IF Assertions(b) THEN NextArtifact(run[b.by])
                                          ELSE Throw(run[b.by], "failed"))
       ELSE UNCHANGED <<run, faults>>
  /\ UNCHANGED <<txn, advisory, ddl, online>>

\* Mutant: every error of the client counts as an answer of the database.
AnyErrorIsDefinite(error) == "failed"

\* classifyFailure: SQLITE_ERROR, _CONSTRAINT, _BUSY and _LOCKED prove that the
\* batch did not commit; an error of the transport or the storage does not.
Classify(error) == IF error = "definite" THEN "failed" ELSE "uncertain"

\* The preparation fails, or a hook before it throws.
FailPreparation(p) ==
  /\ At(p, "begin")
  /\ faults < MaxFaults /\ faults' = faults + 1
  /\ \E error \in {"definite", "transport"} :
       run' = [run EXCEPT ![p] = Throw(run[p], Classify(error))]
  /\ UNCHANGED <<db, txn, advisory, ddl, online, flight>>

\* The database fails a statement, an assertion on data, or a foreign key.
RefuseBatch(p) ==
  /\ At(p, "execute")
  /\ faults < MaxFaults /\ faults' = faults + 1
  /\ flight' = {b \in flight : ~Awaits(p, b)}
  /\ run' = [run EXCEPT ![p] = Throw(run[p], Classify("definite"))]
  /\ UNCHANGED <<db, txn, advisory, ddl, online>>

\* The client loses the connection; the batch is on its way.
GiveUpBatch(p) ==
  /\ At(p, "execute")
  /\ faults < MaxFaults /\ faults' = faults + 1
  /\ run' = [run EXCEPT ![p] = Throw(run[p], Classify("transport"))]
  /\ UNCHANGED <<db, txn, advisory, ddl, online, flight>>

-----------------------------------------------------------------------------
(* The environment and the whole. *)

\* Somebody changes the managed schema without the migration tooling.
ForeignChange ==
  /\ faults < MaxFaults /\ faults' = faults + 1
  /\ \E a \in Foreign : \E schema \in {db.schema \cup Effects(a), db.schema \ Effects(a)} :
       db' = [db EXCEPT !.schema = schema]
  /\ UNCHANGED <<txn, advisory, ddl, online, run>>

\* The steps that batch sessions share with the others.
Shared(p) ==
  \/ AcquireLease(p) \/ ReadJournal(p) \/ SelectArtifact(p)
  \/ CreateAttemptRow(p) \/ MarkBatchRunning(p)
  \/ ConcludeAttempt(p)
  \/ VerifyOutcome(p) \/ RequireRecovery(p) \/ ReconcileHistory(p)
  \/ RecordOutcome(p) \/ ResolveAttempt(p)
  \/ ReleaseLease(p) \/ CloseSession(p)
  \/ Crash(p)
  \/ run[p].pc \notin {"begin", "execute"} /\ Fail(p)

BatchNext ==
  \/ \E p \in Proc : StartBatchRun(p) \/ StartBatchReconcile(p)
  \/ /\ \/ \E p \in Proc :
             \/ Shared(p) /\ UNCHANGED flight
             \/ PrepareBatch(p) \/ FailPreparation(p)
             \/ RefuseBatch(p) \/ GiveUpBatch(p)
        \/ \E b \in flight : LandBatch(b)
        \/ (Repair \/ ClearLeaseRow \/ ForeignChange) /\ UNCHANGED flight
     /\ UNCHANGED used

BatchSpec == BatchInit /\ [][BatchNext]_batchVars

-----------------------------------------------------------------------------
(* What must hold, besides what holds of every executor. *)

\* A batch takes effect only on the schema its artifact was planned for,
\* whenever it arrives and whatever others changed since it was prepared.
LandsOnPlannedSchema ==
  [][\A k \in AttemptId :
       StateOf(db.journal, k) = "running" /\ StateOf(db'.journal, k) = "applied" =>
         db.schema = UNION {Effects(a) : a \in Recorded(db.journal)}]_batchVars

\* An error that promises a definite rollback tells the truth: nothing of the
\* attempt is in the database, and no batch of it is still to arrive.
RollbackIsDefinite ==
  \A p \in Proc : run[p].pc = "conclude" /\ run[p].error = "failed" =>
    /\ run[p].attempt \notin RecordedBy(db.journal)
    /\ Effects(ArtifactOf(run[p])) \cap db.schema = {}
    /\ \A b \in flight : b.attempt # run[p].attempt

\* While a batch could still take effect, its attempt is the one that keeps
\* every later run out, and no other session is under the lease: a batch never
\* lands behind the back of a run or a reconciliation.
LateBatchIsFenced ==
  \A b \in flight : Assertions(b) =>
    /\ OpenAttempts(db.journal) = {b.attempt}
    /\ \A p \in Proc : UnderLease(p) => p = b.by
=============================================================================
