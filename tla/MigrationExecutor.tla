------------------------- MODULE MigrationExecutor --------------------------
(***************************************************************************)
(* Runs of executeMigrations and of the CLI's reconcile command against    *)
(* one database: packages/migrate/src/executor/index.ts over the sessions  *)
(* of adapters/pg/src/migration-support.ts (advisory-lock lease) and       *)
(* adapters/node-sqlite/src/migration.ts (lease kept as a table row).      *)
(*                                                                         *)
(* Every await of the code is a step here, so a process can stop, fail or  *)
(* lose its connection between any two of them.  A step that calls the     *)
(* database succeeds, fails before it had an effect, or has its effect and *)
(* fails to tell the caller; the last two draw on the budget MaxFaults.    *)
(* The client under a session is its caller's and outlives it.             *)
(***************************************************************************)
EXTENDS MigrationJournal, FiniteSets

CONSTANTS
  Proc,                  \* clients that runs of the migration tooling are given
  Program,               \* phases of each artifact's program
  Repositories,          \* artifact repositories the processes may hold
  LeaseKind,             \* "advisory" (PostgreSQL) or "row" (node:sqlite, libSQL)
  Remote,                \* FALSE if the database runs in the process
  OptionalTransactions,  \* the session's optionalTransactions capability
  ForbiddenPhases,       \* TRUE for the "checkpointed" capability
  NoTxn,                 \* a session without an open transaction
  MaxFaults              \* bound on faults in a behaviour

Phase ==
  [ transaction : {"required", "optional", "forbidden"},
    lock        : BOOLEAN,
    statements  : Nat ]

ASSUME ExecutorAssumption ==
  /\ Program \in [Artifact -> Seq(Phase)]
  /\ Repositories \subseteq Seq(Artifact)
  /\ Null \notin Proc
  /\ LeaseKind \in {"advisory", "row"}
  /\ Remote \in BOOLEAN
  /\ OptionalTransactions \in BOOLEAN
  /\ ForbiddenPhases \in BOOLEAN
  /\ MaxFaults \in Nat

VARIABLES
  db,        \* the committed database: journal, schema, lease row
  txn,       \* each session's transaction: its copy of db, or NoTxn
  advisory,  \* holder of the advisory lease lock
  ddl,       \* holder of the advisory DDL lock
  online,    \* clients in use, or left behind by a run, that are connected
  run,       \* local state of each process's run
  faults     \* faults so far

vars == <<db, txn, advisory, ddl, online, run, faults>>

-----------------------------------------------------------------------------
(* Artifacts, programs and the effects of their statements. *)

\* One effect per statement: what the statement does to the schema.
Effects(a) ==
  UNION {{<<a, ph, st>> : st \in 1..Program[a][ph].statements} :
           ph \in 1..Len(Program[a])}

\* beforeSnapshot of the n-th artifact of a repository.
Before(repo, n) == UNION {Effects(repo[m]) : m \in 1..(n - 1)}

\* verifyArtifactChain
VerifyArtifactChain(repo) ==
  \A n \in 1..Len(repo) :
    /\ Parent[repo[n]] = IF n = 1 THEN Null ELSE repo[n - 1]
    /\ \A m \in 1..Len(repo) : repo[m] = repo[n] => m = n

\* capabilityPreflight
CapabilityPreflight(repo) ==
  \A n \in 1..Len(repo) : \A ph \in 1..Len(Program[repo[n]]) :
    Program[repo[n]][ph].transaction = "forbidden" => ForbiddenPhases

\* Mutant: the journal is only as long as the repository allows.
IsShorterJournal(repo, j) == Len(j.applied) <= Len(repo)

\* validateJournalPrefix
IsJournalPrefix(repo, j) ==
  /\ Len(j.applied) <= Len(repo)
  /\ \A n \in 1..Len(j.applied) : j.applied[n].artifact = repo[n]

-----------------------------------------------------------------------------
(* State. *)

Database ==
  [ journal : Journal,
    schema  : SUBSET UNION {Effects(a) : a \in Artifact},
    marks   : SUBSET (AttemptId \X UNION {Effects(a) : a \in Artifact}),
    lease   : Proc \cup {Null} ]

ExecutorStep ==
  { "read", "select", "create", "start", "lock", "begin", "check", "execute",
    "mark", "postcheck", "record", "applied", "commit", "unlock", "rollback",
    "conclude" }

ReconcileStep == {"verify", "require", "history", "audit", "resolve"}

Step == {"idle", "lease", "release", "close"} \cup ExecutorStep \cup ReconcileStep

\* The awaits at which a run counts on the lease.
Critical == ExecutorStep \cup ReconcileStep \cup {"release"}

Idle ==
  [ pc |-> "idle", role |-> "none", repo |-> << >>, leased |-> FALSE,
    error |-> "none", result |-> "none", n |-> 0, attempt |-> Null,
    outcome |-> "none", head |-> Null, ph |-> 0, st |-> 0, locked |-> FALSE,
    active |-> FALSE, effect |-> FALSE, committed |-> FALSE,
    rolledBack |-> FALSE ]

Run ==
  [ pc         : Step,
    role       : {"none", "apply", "reconcile"},
    repo       : Seq(Artifact),
    leased     : BOOLEAN,     \* the session's #leased flag
    error      : {"none", "failed", "uncertain"},
    result     : {"none", "success", "failed", "unclosed", "crashed"},
    n          : Nat,         \* position of the artifact being applied
    attempt    : AttemptId \cup {Null},
    outcome    : Terminal \cup {"none"},
    head       : Digest,      \* expectedHead
    ph         : Nat,
    st         : Nat,
    locked     : BOOLEAN,     \* activeLock, and the session's #ddlLock
    active     : BOOLEAN,     \* activeTransaction
    effect     : BOOLEAN,     \* mayHaveEffect
    committed  : BOOLEAN,
    rolledBack : BOOLEAN ]

ASSUME NoTxnAssumption == NoTxn \notin Database

TypeOK ==
  /\ db \in Database
  /\ txn \in [Proc -> Database \cup {NoTxn}]
  /\ advisory \in Proc \cup {Null}
  /\ ddl \in Proc \cup {Null}
  /\ online \subseteq Proc
  /\ run \in [Proc -> Run]
  /\ faults \in 0..MaxFaults

Init ==
  /\ db = [journal |-> EmptyJournal, schema |-> {}, marks |-> {}, lease |-> Null]
  /\ txn = [p \in Proc |-> NoTxn]
  /\ advisory = Null
  /\ ddl = Null
  /\ online = {}
  /\ run = [p \in Proc |-> Idle]
  /\ faults = 0

-----------------------------------------------------------------------------
(* How a step of a session meets the database and its caller. *)

\* What the session of p reads: its own transaction, or committed data.
View(p) == IF txn[p] = NoTxn THEN db ELSE txn[p]

JournalOf(p) == View(p).journal

\* A write joins the open transaction or commits by itself.
Write(p, d) ==
  IF txn[p] = NoTxn
    THEN db' = d /\ txn' = txn
    ELSE txn' = [txn EXCEPT ![p] = d] /\ db' = db

WriteJournal(p, j) == Write(p, [View(p) EXCEPT !.journal = j])

ArtifactOf(l) == l.repo[l.n]
Phases(l) == Program[ArtifactOf(l)]
PhaseOf(l) == Phases(l)[l.ph]

UseTransaction(phase) ==
  \/ phase.transaction = "required"
  \/ phase.transaction = "optional" /\ OptionalTransactions

\* The first await of the phase l has reached; a program without phases goes
\* straight to recordApplied.
EnterPhase(l) ==
  [l EXCEPT !.pc =
     IF l.ph > Len(Phases(l)) THEN "record"
     ELSE IF PhaseOf(l).lock THEN "lock"
     ELSE IF UseTransaction(PhaseOf(l)) THEN "begin" ELSE "check"]

\* The local variables of executeArtifact start over with each artifact.
NextArtifact(l) ==
  [Idle EXCEPT !.pc = "select", !.role = l.role, !.repo = l.repo,
               !.leased = l.leased, !.n = l.n + 1, !.head = ArtifactOf(l)]

\* The catch of executeArtifact rolls back only what it knows to be open.
Catch(l) == [l EXCEPT !.pc = IF l.active THEN "rollback" ELSE "conclude"]

AfterFinally(l) ==
  IF l.error # "none" THEN Catch(l)
  ELSE IF l.ph < Len(Phases(l)) THEN EnterPhase([l EXCEPT !.ph = @ + 1, !.st = 1])
  ELSE NextArtifact(l)

\* The finally around a phase releases the DDL lock this run has taken.
Finally(l) == IF l.locked THEN [l EXCEPT !.pc = "unlock"] ELSE AfterFinally(l)

\* Where an exception of kind e thrown by the current await goes.  An error
\* while the DDL lock is released replaces the one being propagated.
Throw(l, e) ==
  LET failed == [l EXCEPT !.error = e]
  IN  CASE l.pc = "lease" -> [failed EXCEPT !.pc = "close"]
        [] l.pc \in {"read", "select", "create", "start"} \cup ReconcileStep ->
             [failed EXCEPT !.pc = "release"]
        [] l.pc \in {"lock", "begin"} -> Catch(failed)
        [] l.pc \in {"check", "execute", "mark", "postcheck", "record", "applied"} ->
             Finally(failed)
        [] l.pc = "commit" -> Finally([failed EXCEPT !.active = FALSE])
        [] l.pc = "unlock" -> AfterFinally(failed)
        [] l.pc = "rollback" -> [failed EXCEPT !.pc = "conclude"]
        [] l.pc = "conclude" -> [l EXCEPT !.pc = "release"]
        [] l.pc = "release" ->
             [l EXCEPT !.pc = "close", !.error = IF @ = "none" THEN e ELSE @]
        [] l.pc = "close" -> [Idle EXCEPT !.result = "unclosed"]

\* classifyFailure: a failed commit or rollback is uncertain to the drivers,
\* even when an abort kept the call from being made; a failed statement is
\* uncertain unless the driver gives it an error code of the server.
ErrorKinds(l) ==
  CASE l.pc \in {"commit", "rollback"} -> {"uncertain"}
    [] l.pc = "execute" -> {"failed", "uncertain"}
    [] OTHER -> {"failed"}

\* What an unanswered call is to the executor.
Unanswered(l) ==
  IF l.pc \in {"execute", "commit", "rollback"} THEN "uncertain" ELSE "failed"

\* The call returns and the run goes on as l, or its answer is lost on the
\* way.  A database in the process (node:sqlite) loses no answer.
Answer(p, l) ==
  \/ /\ run' = [run EXCEPT ![p] = l]
     /\ UNCHANGED faults
  \/ /\ Remote
     /\ faults < MaxFaults
     /\ faults' = faults + 1
     /\ run' = [run EXCEPT ![p] = Throw(run[p], Unanswered(run[p]))]

\* The run goes on as l and nothing else changes.
Proceed(p, l) ==
  /\ run' = [run EXCEPT ![p] = l]
  /\ UNCHANGED <<db, txn, advisory, ddl, online, faults>>

\* The code throws by itself, without a fault of the environment.
Reject(p, e) == Proceed(p, Throw(run[p], e))

At(p, pc) == p \in online /\ run[p].pc = pc

-----------------------------------------------------------------------------
(* executeMigrations: entry, lease, validation and exit. *)

\* A run that fails verifyArtifactChain never opens a session.  A client some
\* run has left something on is not handed to another.
StartApply(p) ==
  \E repo \in Repositories :
    LET opened == [Idle EXCEPT !.role = "apply", !.repo = repo]
    IN  /\ run[p].pc = "idle" /\ p \notin online
        /\ IF VerifyArtifactChain(repo)
             THEN /\ online' = online \cup {p}
                  /\ run' = [run EXCEPT ![p] =
                       IF CapabilityPreflight(repo)
                         THEN [opened EXCEPT !.pc = "lease"]
                         ELSE [opened EXCEPT !.pc = "close", !.error = "failed"]]
             ELSE /\ run' = [run EXCEPT ![p] = [Idle EXCEPT !.result = "failed"]]
                  /\ UNCHANGED online
        /\ UNCHANGED <<db, txn, advisory, ddl, faults>>

\* Mutant: the lease is taken without a look at its holder.
AcquireLeaseUnchecked(p) ==
  /\ At(p, "lease")
  /\ IF LeaseKind = "advisory"
       THEN advisory' = p /\ UNCHANGED db
       ELSE db' = [db EXCEPT !.lease = p] /\ UNCHANGED advisory
  /\ Answer(p, [run[p] EXCEPT
        !.leased = TRUE,
        !.pc = IF run[p].role = "apply" THEN "read" ELSE "verify"])
  /\ UNCHANGED <<txn, ddl, online>>

\* One round of the polling loop that finds the lease free.
AcquireLease(p) ==
  /\ At(p, "lease")
  /\ IF LeaseKind = "advisory"
       THEN advisory = Null /\ advisory' = p /\ UNCHANGED db
       ELSE db.lease = Null /\ db' = [db EXCEPT !.lease = p] /\ UNCHANGED advisory
  /\ Answer(p, [run[p] EXCEPT
        !.leased = TRUE,
        !.pc = IF run[p].role = "apply" THEN "read" ELSE "verify"])
  /\ UNCHANGED <<txn, ddl, online>>

\* Mutant: the run does not mind an attempt that awaits an outcome.
ReadWithoutGate(p) ==
  /\ At(p, "read")
  /\ LET j == JournalOf(p)
     IN  IF IsJournalPrefix(run[p].repo, j)
           THEN Proceed(p, [run[p] EXCEPT
                  !.pc = "select", !.n = Len(j.applied) + 1, !.head = j.head])
           ELSE Reject(p, "failed")

\* readMetadata, listApplied, listAttempts and the checks on them.
ReadJournal(p) ==
  /\ At(p, "read")
  /\ LET j == JournalOf(p)
     IN  IF ValidateJournalState(j) /\ IsJournalPrefix(run[p].repo, j)
           THEN Proceed(p, [run[p] EXCEPT
                  !.pc = "select", !.n = Len(j.applied) + 1, !.head = j.head])
           ELSE Reject(p, "failed")

\* Mutant: the live schema is not compared with the before snapshot.
SelectWithoutSnapshot(p) ==
  /\ At(p, "select")
  /\ Proceed(p, [run[p] EXCEPT
       !.pc = IF run[p].n > Len(run[p].repo) THEN "release" ELSE "create"])

\* The next pending artifact, if the live schema is its before snapshot.
SelectArtifact(p) ==
  /\ At(p, "select")
  /\ IF run[p].n > Len(run[p].repo)
       THEN Proceed(p, [run[p] EXCEPT !.pc = "release"])
       ELSE IF View(p).schema = Before(run[p].repo, run[p].n)
         THEN Proceed(p, [run[p] EXCEPT !.pc = "create"])
         ELSE Reject(p, "failed")

\* Mutant: the flag is cleared first, and the unlock is skipped because of it.
ReleaseLeaseFlagOnly(p) ==
  /\ At(p, "release")
  /\ Answer(p, [run[p] EXCEPT !.leased = FALSE, !.pc = "close"])
  /\ UNCHANGED <<db, txn, advisory, ddl, online>>

\* The outer finally: releaseLease.  The row is deleted by the session's own
\* connection, so inside whatever transaction is still open on it.
ReleaseLease(p) ==
  /\ At(p, "release")
  /\ IF LeaseKind = "advisory"
       THEN /\ advisory' = (IF advisory = p THEN Null ELSE advisory)
            /\ UNCHANGED <<db, txn>>
       ELSE /\ Write(p, [View(p) EXCEPT !.lease = IF @ = p THEN Null ELSE @])
            /\ UNCHANGED advisory
  /\ Answer(p, [run[p] EXCEPT !.leased = FALSE, !.pc = "close"])
  /\ UNCHANGED <<ddl, online>>

\* What the end of the connection leaves of a session: nothing but a lease row.
EndSession(p) ==
  /\ txn' = [txn EXCEPT ![p] = NoTxn]
  /\ advisory' = (IF advisory = p THEN Null ELSE advisory)
  /\ ddl' = (IF ddl = p THEN Null ELSE ddl)
  /\ online' = online \ {p}

\* close rolls back the transaction and unlocks what the session's flags say it
\* holds, and leaves the client connected: a lock whose grant was never
\* answered stays on it.  A client without one is as good as a new one.
CloseLeaves(p, lease, lock) ==
  /\ txn' = [txn EXCEPT ![p] = NoTxn]
  /\ advisory' = lease
  /\ ddl' = lock
  /\ online' = (IF p \in {lease, lock} THEN online ELSE online \ {p})

LeaseAfterClose(p) == IF advisory = p /\ run[p].leased THEN Null ELSE advisory

LockAfterClose(p) == IF ddl = p /\ run[p].locked THEN Null ELSE ddl

Closed(p) ==
  run' = [run EXCEPT ![p] = [Idle EXCEPT
    !.result = IF run[p].error = "none" THEN "success" ELSE "failed"]]

\* Mutants: the lease row is deleted whoever owns it; the lease, or the DDL
\* lock, is taken to be released already.
CloseDeletesAnyLease(p) ==
  /\ At(p, "close")
  /\ CloseLeaves(p, LeaseAfterClose(p), LockAfterClose(p))
  /\ db' = [db EXCEPT !.lease = Null]
  /\ Closed(p)
  /\ UNCHANGED faults

CloseKeepsLease(p) ==
  /\ At(p, "close")
  /\ CloseLeaves(p, advisory, LockAfterClose(p))
  /\ db' = [db EXCEPT !.lease = IF @ = p /\ run[p].leased THEN Null ELSE @]
  /\ Closed(p)
  /\ UNCHANGED faults

CloseKeepsDdlLock(p) ==
  /\ At(p, "close")
  /\ CloseLeaves(p, LeaseAfterClose(p), ddl)
  /\ db' = [db EXCEPT !.lease = IF @ = p /\ run[p].leased THEN Null ELSE @]
  /\ Closed(p)
  /\ UNCHANGED faults

CloseSession(p) ==
  /\ At(p, "close")
  /\ CloseLeaves(p, LeaseAfterClose(p), LockAfterClose(p))
  /\ db' = [db EXCEPT !.lease = IF @ = p /\ run[p].leased THEN Null ELSE @]
  /\ Closed(p)
  /\ UNCHANGED faults

-----------------------------------------------------------------------------
(* executeArtifact. *)

\* createAttempt: options.createAttemptId may hand out any identity; one that
\* exists makes the insert fail.
CreateAttemptRow(p) ==
  /\ At(p, "create")
  /\ \E k \in AttemptId :
       LET l == run[p]
       IN  IF CanCreate(JournalOf(p), k)
             THEN /\ WriteJournal(p, CreateAttempt(JournalOf(p), k, ArtifactOf(l), l.head))
                  /\ Answer(p, [l EXCEPT !.pc = "start", !.attempt = k])
                  /\ UNCHANGED <<advisory, ddl, online>>
             ELSE Reject(p, "failed")

\* transitionAttempt(state), going on as l; an edge the state machine lacks
\* makes it throw.
Transition(p, state, l) ==
  IF CanTransition(JournalOf(p), run[p].attempt, state)
    THEN /\ WriteJournal(p, TransitionAttempt(JournalOf(p), run[p].attempt, state))
         /\ Answer(p, l)
         /\ UNCHANGED <<advisory, ddl, online>>
    ELSE Reject(p, "failed")

MarkRunning(p) ==
  /\ At(p, "start")
  /\ Transition(p, "running", EnterPhase([run[p] EXCEPT !.ph = 1, !.st = 1]))

\* PostgreSQL locks sessions out of each other; node:sqlite sets a flag.
AcquireDdlLock(p) ==
  /\ At(p, "lock")
  /\ IF LeaseKind = "advisory" THEN ddl = Null /\ ddl' = p ELSE UNCHANGED ddl
  /\ Answer(p, [run[p] EXCEPT
        !.locked = TRUE,
        !.pc = IF UseTransaction(PhaseOf(run[p])) THEN "begin" ELSE "check"])
  /\ UNCHANGED <<db, txn, advisory, online>>

BeginTransaction(p) ==
  /\ At(p, "begin")
  /\ txn' = [txn EXCEPT ![p] = db]
  /\ run' = [run EXCEPT ![p] = [@ EXCEPT !.active = TRUE, !.pc = "check"]]
  /\ UNCHANGED <<db, advisory, ddl, online, faults>>

AfterStatements(l) ==
  [l EXCEPT !.pc = IF l.st > PhaseOf(l).statements THEN "postcheck" ELSE "execute"]

\* Preconditions and the phase's started checkpoint.
CheckPreconditions(p) ==
  /\ At(p, "check")
  /\ Proceed(p, AfterStatements(run[p]))

EffectOf(l) == <<ArtifactOf(l), l.ph, l.st>>

\* The statement the loop over the phase's statements is at.
ExecuteStatement(p) ==
  /\ At(p, "execute")
  /\ run[p].st <= PhaseOf(run[p]).statements
  /\ Write(p, [View(p) EXCEPT !.schema = @ \cup {EffectOf(run[p])}])
  /\ Answer(p, [run[p] EXCEPT !.effect = TRUE, !.pc = "mark"])
  /\ UNCHANGED <<advisory, ddl, online>>

\* Mutant: the checkpoint is written through another connection.
CheckpointAtOnce(p) ==
  LET mark == <<run[p].attempt, EffectOf(run[p])>>
  IN  /\ At(p, "mark")
      /\ db' = [db EXCEPT !.marks = @ \cup {mark}]
      /\ Answer(p, AfterStatements([run[p] EXCEPT !.st = @ + 1]))
      /\ UNCHANGED <<txn, advisory, ddl, online>>

CheckpointStatement(p) ==
  /\ At(p, "mark")
  /\ Write(p, [View(p) EXCEPT !.marks = @ \cup {<<run[p].attempt, EffectOf(run[p])>>}])
  /\ Answer(p, AfterStatements([run[p] EXCEPT !.st = @ + 1]))
  /\ UNCHANGED <<advisory, ddl, online>>

\* Mutant: every phase is taken for the last one.
AnyPhase(l) == TRUE

FinalPhase(l) == l.ph >= Len(Phases(l))

\* Mutant: the attempt is called applied, its record is forgotten.
RecordForgotten(p) ==
  /\ At(p, "postcheck")
  /\ LET l == run[p]
     IN  Proceed(p, IF FinalPhase(l) THEN [l EXCEPT !.pc = "applied"]
                    ELSE IF l.active THEN [l EXCEPT !.pc = "commit"]
                    ELSE Finally(l))

\* Postconditions and the phase's completed checkpoint.
CheckPostconditions(p) ==
  /\ At(p, "postcheck")
  /\ LET l == run[p]
     IN  Proceed(p, IF FinalPhase(l) THEN [l EXCEPT !.pc = "record"]
                    ELSE IF l.active THEN [l EXCEPT !.pc = "commit"]
                    ELSE Finally(l))

\* recordApplied: a head that is no longer the expected one is an error.
RecordApplied(p) ==
  /\ At(p, "record")
  /\ LET l == run[p]
     IN  IF CanAppend(JournalOf(p), ArtifactOf(l), l.attempt, l.head)
           THEN /\ WriteJournal(p, AppendAppliedAndAdvanceHead(
                        JournalOf(p), ArtifactOf(l), l.attempt))
                /\ Answer(p, [l EXCEPT !.pc = "applied"])
                /\ UNCHANGED <<advisory, ddl, online>>
           ELSE Reject(p, "failed")

MarkApplied(p) ==
  /\ At(p, "applied")
  /\ Transition(p, "applied",
       IF run[p].active THEN [run[p] EXCEPT !.pc = "commit"] ELSE Finally(run[p]))

Commit(p) ==
  /\ At(p, "commit")
  /\ db' = txn[p]
  /\ txn' = [txn EXCEPT ![p] = NoTxn]
  /\ Answer(p, Finally([run[p] EXCEPT !.active = FALSE, !.committed = TRUE]))
  /\ UNCHANGED <<advisory, ddl, online>>

\* The server refuses to commit.  PostgreSQL ends the transaction; SQLite
\* leaves it open (a deferred foreign key that does not hold).
CommitRefused(p) ==
  /\ At(p, "commit")
  /\ faults < MaxFaults
  /\ faults' = faults + 1
  /\ run' = [run EXCEPT ![p] = Throw(run[p], "uncertain")]
  /\ txn' = (IF LeaseKind = "row" THEN txn ELSE [txn EXCEPT ![p] = NoTxn])
  /\ UNCHANGED <<db, advisory, ddl, online>>

\* The finally around a phase.
ReleaseDdlLock(p) ==
  /\ At(p, "unlock")
  /\ ddl' = (IF ddl = p THEN Null ELSE ddl)
  /\ Answer(p, AfterFinally([run[p] EXCEPT !.locked = FALSE]))
  /\ UNCHANGED <<db, txn, advisory, online>>

Rollback(p) ==
  /\ At(p, "rollback")
  /\ txn' = [txn EXCEPT ![p] = NoTxn]
  /\ Answer(p, [run[p] EXCEPT !.active = FALSE, !.rolledBack = TRUE, !.pc = "conclude"])
  /\ UNCHANGED <<db, advisory, ddl, online>>

\* Mutants: a failed attempt is judged without its uncertain outcome, or
\* without the transactions of its earlier phases.
StateIgnoringUncertainty(l) ==
  IF l.committed \/ (l.effect /\ ~l.rolledBack)
    THEN "recovery_required"
    ELSE "rolled_back"

StateIgnoringCommits(l) ==
  IF l.error = "uncertain" \/ (l.effect /\ ~l.rolledBack)
    THEN "recovery_required"
    ELSE "rolled_back"

\* What the catch of executeArtifact concludes about a failed attempt.
FailedState(l) ==
  IF l.error = "uncertain" \/ l.committed \/ (l.effect /\ ~l.rolledBack)
    THEN "recovery_required"
    ELSE "rolled_back"

\* A transition that fails here leaves the primary failure in place.
ConcludeAttempt(p) ==
  /\ At(p, "conclude")
  /\ Transition(p, FailedState(run[p]), [run[p] EXCEPT !.pc = "release"])

-----------------------------------------------------------------------------
(* qubu migrate reconcile: reconcileAttempt under the migrator lease. *)

\* The application can prove that none, or all, of the attempt's artifact is
\* in the schema.  The verifier is the application's; it is taken as sound.
Proven(v, k, outcome) ==
  LET effects == Effects(v.journal.attempts[k].artifact)
  IN  IF outcome = "applied" THEN effects \subseteq v.schema
                             ELSE effects \cap v.schema = {}

\* Mutant: the outcome argument is not validated.
StartReconcileAnyOutcome(p) ==
  \E repo \in Repositories, k \in AttemptId, outcome \in AttemptState :
    /\ run[p].pc = "idle" /\ p \notin online
    /\ VerifyArtifactChain(repo)
    /\ OpenAttempts(db.journal) # {}
    /\ online' = online \cup {p}
    /\ run' = [run EXCEPT ![p] =
         [Idle EXCEPT !.pc = "lease", !.role = "reconcile", !.repo = repo,
                      !.attempt = k, !.outcome = outcome]]
    /\ UNCHANGED <<db, txn, advisory, ddl, faults>>

StartReconcile(p) ==
  \E repo \in Repositories, k \in AttemptId, outcome \in Terminal :
    /\ run[p].pc = "idle" /\ p \notin online
    /\ VerifyArtifactChain(repo)
    /\ OpenAttempts(db.journal) # {}
    /\ online' = online \cup {p}
    /\ run' = [run EXCEPT ![p] =
         [Idle EXCEPT !.pc = "lease", !.role = "reconcile", !.repo = repo,
                      !.attempt = k, !.outcome = outcome]]
    /\ UNCHANGED <<db, txn, advisory, ddl, faults>>

\* The attempt exists, is not terminal, and the outcome is proven.
VerifyOutcome(p) ==
  /\ At(p, "verify")
  /\ LET k == run[p].attempt
         s == StateOf(JournalOf(p), k)
     IN  IF s \in Unresolved /\ Proven(View(p), k, run[p].outcome)
           THEN Proceed(p, [run[p] EXCEPT
                  !.pc = IF s = "recovery_required" THEN "history" ELSE "require"])
           ELSE Reject(p, "failed")

RequireRecovery(p) ==
  /\ At(p, "require")
  /\ Transition(p, "recovery_required", [run[p] EXCEPT !.pc = "history"])

InRepository(repo, a) == \E n \in 1..Len(repo) : repo[n] = a

\* The history an applied attempt needs, and a rolled back one may not have.
ReconcileHistory(p) ==
  LET l == run[p]
      j == JournalOf(p)
      a == j.attempts[l.attempt].artifact
      audit == [l EXCEPT !.pc = "audit"]
  IN  /\ At(p, "history")
      /\ IF l.outcome = "applied" /\ InRepository(l.repo, a) /\ a \notin Recorded(j)
           THEN IF CanAppend(j, a, l.attempt, j.attempts[l.attempt].expectedHead)
                  THEN /\ WriteJournal(p, AppendAppliedAndAdvanceHead(j, a, l.attempt))
                       /\ Answer(p, audit)
                       /\ UNCHANGED <<advisory, ddl, online>>
                  ELSE Reject(p, "failed")
           ELSE IF IF l.outcome = "applied"
                     THEN InRepository(l.repo, a) /\ j.head = a
                     ELSE l.attempt \notin RecordedBy(j)
                  THEN Proceed(p, audit)
                  ELSE Reject(p, "failed")

\* recordReconciliation, once; a different recorded outcome is an error.
RecordOutcome(p) ==
  LET l == run[p]
      j == JournalOf(p)
      resolve == [l EXCEPT !.pc = "resolve"]
  IN  /\ At(p, "audit")
      /\ IF j.reconciled[l.attempt] = "none"
           THEN /\ WriteJournal(p, RecordReconciliation(j, l.attempt, l.outcome))
                /\ Answer(p, resolve)
                /\ UNCHANGED <<advisory, ddl, online>>
           ELSE IF j.reconciled[l.attempt] = l.outcome
             THEN Proceed(p, resolve)
             ELSE Reject(p, "failed")

ResolveAttempt(p) ==
  /\ At(p, "resolve")
  /\ Transition(p, run[p].outcome, [run[p] EXCEPT !.pc = "release"])

-----------------------------------------------------------------------------
(* The environment. *)

\* An abort, a hook that throws, or a call that fails before it had an effect.
\* Before close, a hook that throws leaves the session as it is.
Fail(p) ==
  /\ p \in online
  /\ run[p].pc # "idle"
  /\ faults < MaxFaults
  /\ faults' = faults + 1
  /\ \E e \in ErrorKinds(run[p]) : run' = [run EXCEPT ![p] = Throw(run[p], e)]
  /\ UNCHANGED <<db, txn, advisory, ddl, online>>

\* The server drops the connection: it rolls back and frees the advisory
\* locks.  The process notices at its next call.
LoseConnection(p) ==
  /\ LeaseKind = "advisory"
  /\ p \in online /\ run[p].pc # "idle"
  /\ faults < MaxFaults
  /\ faults' = faults + 1
  /\ EndSession(p)
  /\ UNCHANGED <<db, run>>

\* A call on a connection that is gone.
CallDisconnected(p) ==
  /\ run[p].pc # "idle"
  /\ p \notin online
  /\ run' = [run EXCEPT ![p] = Throw(run[p], Unanswered(run[p]))]
  /\ UNCHANGED <<db, txn, advisory, ddl, online, faults>>

\* The process dies.  Nothing deletes a lease row.
Crash(p) ==
  /\ run[p].pc # "idle"
  /\ faults < MaxFaults
  /\ faults' = faults + 1
  /\ EndSession(p)
  /\ run' = [run EXCEPT ![p] = [Idle EXCEPT !.result = "crashed"]]
  /\ UNCHANGED db

\* The caller ends a client its run has returned from, or the server does.
EndClient(p) ==
  /\ run[p].pc = "idle" /\ p \in online
  /\ EndSession(p)
  /\ UNCHANGED <<db, run, faults>>

\* With every runner stopped, an operator completes or undoes the artifact of
\* an unresolved attempt by hand (docs/migrations/recovery.md, steps 1 to 5).
Repair ==
  /\ \A p \in Proc : run[p].pc = "idle" /\ txn[p] = NoTxn
  /\ \E k \in OpenAttempts(db.journal) :
       LET effects == Effects(db.journal.attempts[k].artifact)
       IN  \E schema \in {db.schema \cup effects, db.schema \ effects} :
             db' = [db EXCEPT !.schema = schema]
  /\ UNCHANGED <<txn, advisory, ddl, online, run, faults>>

\* An operator deletes the lease row of a session that is gone.
ClearLeaseRow ==
  /\ LeaseKind = "row"
  /\ db.lease # Null
  /\ ~run[db.lease].leased /\ txn[db.lease] = NoTxn
  /\ db' = [db EXCEPT !.lease = Null]
  /\ UNCHANGED <<txn, advisory, ddl, online, run, faults>>

-----------------------------------------------------------------------------
\* A step of the code of p, once it has started.
Continue(p) ==
  \/ AcquireLease(p)
  \/ ReadJournal(p)
  \/ SelectArtifact(p)
  \/ CreateAttemptRow(p)
  \/ MarkRunning(p)
  \/ AcquireDdlLock(p)
  \/ BeginTransaction(p)
  \/ CheckPreconditions(p)
  \/ ExecuteStatement(p)
  \/ CheckpointStatement(p)
  \/ CheckPostconditions(p)
  \/ RecordApplied(p)
  \/ MarkApplied(p)
  \/ Commit(p)
  \/ ReleaseDdlLock(p)
  \/ Rollback(p)
  \/ ConcludeAttempt(p)
  \/ VerifyOutcome(p)
  \/ RequireRecovery(p)
  \/ ReconcileHistory(p)
  \/ RecordOutcome(p)
  \/ ResolveAttempt(p)
  \/ ReleaseLease(p)
  \/ CloseSession(p)
  \/ CallDisconnected(p)

Next ==
  \/ \E p \in Proc :
       \/ StartApply(p)
       \/ StartReconcile(p)
       \/ Continue(p)
       \/ CommitRefused(p)
       \/ Fail(p)
       \/ LoseConnection(p)
       \/ Crash(p)
       \/ EndClient(p)
  \/ Repair
  \/ ClearLeaseRow

Spec == Init /\ [][Next]_vars

\* Every call of the driver eventually returns or throws, so a run that can
\* take a step takes one.  No caller has to end its client.
FairSpec == Spec /\ \A p \in Proc : WF_vars(Continue(p))

-----------------------------------------------------------------------------
(* What must hold. *)

\* The committed history is a linear chain whose end is the head, and no
\* artifact occurs in it twice, whatever crashes, races and lost answers.
LinearLedger == Chained(db.journal)

\* No attempt is called applied without its record in the history: what
\* validateJournalState reports as corrupt never comes about.
AppliedIsRecorded == AppliedAttemptsRecorded(db.journal)

\* However many processes run, at most one attempt awaits an outcome: the
\* lease excludes a second runner, the recovery gate a later one.
AtMostOneOpenAttempt ==
  \A k1, k2 \in OpenAttempts(db.journal) : k1 = k2

\* An attempt the journal calls applied has all its statements in the schema,
\* whether the executor or a reconciliation settled it.
AppliedIsComplete ==
  \A k \in AttemptId :
    StateOf(db.journal, k) = "applied" =>
      Effects(db.journal.attempts[k].artifact) \subseteq db.schema

\* No attempt but rolled back ones has ever been made at artifact a.
OnlyRolledBack(a) ==
  /\ \E k \in AttemptId : db.journal.attempts[k].artifact = a
  /\ \A k \in AttemptId :
       db.journal.attempts[k].artifact = a => StateOf(db.journal, k) = "rolled_back"

\* docs/migrations/recovery.md: rolled_back stands for a definite rollback and
\* for the absence of all intended effects.
RolledBackIsAbsent ==
  \A a \in Artifact : OnlyRolledBack(a) => Effects(a) \cap db.schema = {}

\* Programs for which the executor keeps that promise: every phase runs in a
\* transaction, or there are statements, none runs in one and no DDL lock is
\* released on the way out.  A program without statements outside a transaction
\* leaves its record there before the executor takes it to have had an effect.
Enclosed(a) ==
  /\ Program[a] # << >>
  /\ \A ph \in 1..Len(Program[a]) : UseTransaction(Program[a][ph])

Unenclosed(a) ==
  /\ Effects(a) # {}
  /\ \A ph \in 1..Len(Program[a]) :
       ~UseTransaction(Program[a][ph]) /\ ~Program[a][ph].lock

UniformProgram(a) == Enclosed(a) \/ Unenclosed(a)

\* RolledBackIsAbsent for uniform programs, and the reconciler's own rule put to
\* every attempt: what history holds is never rolled back (executor/index.ts:
\* "An attempt with immutable applied history cannot be reconciled as rolled
\* back").
UniformRolledBackIsAbsent ==
  \A a \in Artifact :
    UniformProgram(a) /\ OnlyRolledBack(a) =>
      /\ Effects(a) \cap db.schema = {}
      /\ \A k \in RecordedBy(db.journal) : db.journal.attempts[k].artifact # a

\* docs/migrations/recovery.md: when reconciliation records rolled_back, the
\* head stays at the previous artifact.
RolledBackKeepsHead ==
  \A k \in RecordedBy(db.journal) : db.journal.reconciled[k] # "rolled_back"

\* docs/migrations/recovery.md: cleanup releases the migrator lease before the
\* session, so a run that made an attempt, and so had the lease, no longer
\* holds it when it returns.
ReturnedRunHoldsNoLease ==
  [][\A p \in Proc :
       /\ run[p].pc = "close" /\ run[p].role = "apply" /\ run[p].attempt # Null
       /\ run'[p].result \in {"success", "failed", "unclosed"}
       => db'.lease # p]_vars

\* Steps under the lease of sessions that are still connected never overlap,
\* whichever way the lease is kept, lost or leaked.
UnderLease(p) == p \in online /\ run[p].pc \in Critical

LeaseExcludes ==
  \A p, q \in Proc : UnderLease(p) /\ UnderLease(q) => p = q

\* A commit publishes its transaction over the very database it began on: no
\* committed write of another session is lost.
NoLostUpdate ==
  \A p \in Proc : txn[p] # NoTxn =>
    /\ db.journal.applied = SubSeq(txn[p].journal.applied, 1, Len(db.journal.applied))
    /\ db.schema \subseteq txn[p].schema
    /\ \A k \in AttemptId : StateOf(db.journal, k) # "none" =>
         StateOf(txn[p].journal, k) # "none"

\* History, outcomes and audit records are immutable: a step may extend the
\* history but never rewrites it, and a settled attempt stays as it is.
Immutable ==
  /\ Len(db.journal.applied) <= Len(db'.journal.applied)
  /\ \A n \in 1..Len(db.journal.applied) :
       db'.journal.applied[n] = db.journal.applied[n]
  /\ \A k \in AttemptId :
       /\ StateOf(db.journal, k) \in Terminal =>
            db'.journal.attempts[k] = db.journal.attempts[k]
       /\ db.journal.reconciled[k] # "none" =>
            db'.journal.reconciled[k] = db.journal.reconciled[k]

HistoryIsImmutable == [][Immutable]_vars

\* An attempt starts on a healthy journal whose head it continues and on the
\* very schema its artifact was planned for, although both were read in
\* earlier steps.
StartsFromKnownState ==
  [][\A k \in AttemptId :
       StateOf(db.journal, k) = "none" /\ StateOf(db'.journal, k) # "none" =>
         /\ ValidateJournalState(db.journal)
         /\ db'.journal.attempts[k].expectedHead = db.journal.head
         /\ db.schema = UNION {Effects(a) : a \in Recorded(db.journal)}]_vars

\* A run that reports success leaves the whole repository applied.
SuccessIsApplied ==
  [][\A p \in Proc :
       run[p].role = "apply" /\ run'[p].result = "success" =>
         \A n \in 1..Len(run[p].repo) :
           /\ n <= Len(db'.journal.applied)
           /\ db'.journal.applied[n].artifact = run[p].repo[n]]_vars

\* A statement checkpoint becomes visible only with the statement's effect.
CheckpointIsEvidence ==
  [][\A mark \in db'.marks \ db.marks : mark[2] \in db'.schema]_vars

\* docs/migrations/adopt.md: Qubu releases its locks, and never ends the client
\* it was given.  A run that reports success leaves neither lock on that client,
\* whatever was lost, refused or repeated before.
SuccessLeavesNoLock ==
  \A p \in Proc :
    run[p].pc = "idle" /\ run[p].result = "success" => p \notin {advisory, ddl}

\* Every lock a session at work holds is one it was told of, and every session of
\* a connected client was closed: what close can know of is all there is.
LocksKnown ==
  \A p \in online :
    /\ run[p].pc # "idle" /\ advisory = p => run[p].leased
    /\ run[p].pc # "idle" /\ ddl = p => run[p].locked
    /\ run[p].result # "unclosed"

\* While that is so, a run that has the lease gets to its end, whichever locks
\* other sessions had when they failed, and then another run can have it.
RunsEnd == []LocksKnown => \A p \in Proc : UnderLease(p) ~> run[p].pc = "idle"

LeaseIsFreed == []LocksKnown => []<>(advisory = Null)

-----------------------------------------------------------------------------
(* The inductive invariant behind the theorems: what the local variables of *)
(* a run are at each await, and what its session holds there.               *)

\* The awaits of a phase, which a transaction may surround.
InPhase == {"check", "execute", "mark", "postcheck", "record", "applied", "commit"}

PositionOK(l) ==
  /\ l.pc = "select" => l.n >= 1
  /\ l.pc \in ExecutorStep \ {"read", "select"} => l.n \in 1..Len(l.repo)
  /\ l.pc \in {"lock", "begin", "check", "execute", "mark"} =>
       l.ph \in 1..Len(Phases(l)) /\ l.st >= 1
  /\ l.pc = "mark" => l.st <= PhaseOf(l).statements

AttemptOK(l) ==
  /\ l.pc \in ExecutorStep \ {"read", "select", "create"} => l.attempt \in AttemptId
  /\ l.pc \in ReconcileStep => l.attempt \in AttemptId
  /\ l.pc = "lease" /\ l.role # "apply" => l.attempt \in AttemptId

FlagsOK(l) ==
  /\ l.pc \in Critical => l.leased
  /\ l.pc = "commit" => l.active
  /\ l.pc \in {"lease", "read", "select", "create", "start", "lock", "begin"} =>
       ~l.active
  /\ l.pc = "unlock" /\ l.error = "none" => ~l.active

LocalOK(l) == PositionOK(l) /\ AttemptOK(l) /\ FlagsOK(l)

\* A run inside a transaction has one, and only a connected client has one.
TransactionOK(p) ==
  /\ p \in online /\ run[p].active /\ run[p].pc \in InPhase => txn[p] # NoTxn
  /\ txn[p] # NoTxn => p \in online /\ run[p].pc \in Critical \cup {"close", "idle"}

HoldsLease(p) ==
  IF LeaseKind = "advisory" THEN advisory = p
  ELSE db.lease = p /\ (txn[p] # NoTxn => txn[p].lease = p)

LeaseOK(p) == p \in online /\ run[p].pc \in Critical => HoldsLease(p)

Control == \A p \in Proc : LocalOK(run[p]) /\ TransactionOK(p) /\ LeaseOK(p)

-----------------------------------------------------------------------------
(* The inductive invariant behind SuccessLeavesNoLock.                      *)

\* While no call has failed, the flags of l tell what its session holds of the
\* lease and of the DDL lock, and a run on its way out has given both back.
LockTold(l, lease, lock) ==
  /\ l.pc \in {"rollback", "conclude"} => l.error # "none"
  /\ l.pc # "idle" /\ l.error = "none" =>
       /\ lease => l.leased
       /\ lock => l.locked
       /\ l.pc = "close" => ~l.leased
       /\ l.pc \notin {"begin", "unlock"} \cup InPhase => ~l.locked
  /\ l.pc = "idle" /\ l.result = "success" => ~lease /\ ~lock

LocksTold ==
  /\ LeaseKind # "advisory" => advisory = Null
  /\ \A p \in Proc :
       /\ p \in {advisory, ddl} => p \in online
       /\ LockTold(run[p], advisory = p, ddl = p)

-----------------------------------------------------------------------------
(* The inductive invariant behind the ledger: the committed journal is what *)
(* a run under the lease has last made of it.                               *)

\* The awaits of a run that has made, or is settling, its attempt.
Attempting ==
  {"start", "lock", "begin", "require", "history", "audit", "resolve"} \cup InPhase

\* The awaits at which the session of l has no transaction open.
OutsideTransaction(l) ==
  \/ l.pc \in {"read", "select", "create", "start", "lock", "begin"} \cup ReconcileStep
  \/ l.pc \in InPhase /\ ~l.active
  \/ l.pc = "unlock" /\ l.error = "none"

\* j is i with the record of the artifact of l, and with its outcome.
IsRecorded(l, i, j) ==
  /\ CanAppend(i, ArtifactOf(l), l.attempt, l.head)
  /\ j = AppendAppliedAndAdvanceHead(i, ArtifactOf(l), l.attempt)

IsSettled(l, i, j) ==
  \E h \in {AppendAppliedAndAdvanceHead(i, ArtifactOf(l), l.attempt)} :
    /\ IsRecorded(l, i, h)
    /\ CanTransition(h, l.attempt, "applied")
    /\ j = TransitionAttempt(h, l.attempt, "applied")

\* What l takes for granted about the attempts of the committed journal j.
AttemptsFit(l, j) ==
  /\ l.pc \in {"select", "create"} => OpenAttempts(j) = {}
  /\ l.pc \in Attempting => OpenAttempts(j) = {l.attempt}
  /\ l.pc = "unlock" /\ l.error = "none" =>
       OpenAttempts(j) = IF FinalPhase(l) THEN {} ELSE {l.attempt}

\* What the transaction t of l will have done to the committed journal j.
TransactionFits(l, t, j) ==
  /\ OutsideTransaction(l) => t = NoTxn
  /\ l.pc \in {"record", "applied"} => FinalPhase(l)
  /\ t # NoTxn =>
       /\ l.pc \in {"check", "execute", "mark", "postcheck", "record"} => t.journal = j
       /\ l.pc = "applied" => IsRecorded(l, j, t.journal)
       /\ l.pc = "commit" =>
            IF FinalPhase(l) THEN IsSettled(l, j, t.journal) ELSE t.journal = j

Fits(l, t, j) == AttemptsFit(l, j) /\ TransactionFits(l, t, j)

\* What a run under the lease concluded from the journal at an earlier await
\* still holds when it acts on it, and its transaction hides no other change.
InStep ==
  /\ AtMostOneOpenAttempt
  /\ \A p \in Proc : UnderLease(p) => Fits(run[p], txn[p], db.journal)

-----------------------------------------------------------------------------
\* The executor implements the ledger.
Ledger == INSTANCE MigrationLedger WITH
  ledger <- [n \in 1..Len(db.journal.applied) |-> db.journal.applied[n].artifact],
  open   <- OpenAttempts(db.journal)

LedgerSpec == Ledger!Spec
=============================================================================
