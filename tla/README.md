# Verification of qubu

TLA+ models of the parts of [qubu](../src/README.md) whose correctness depends on
the order of events: the migration journal and executor, the sessions that give
them leases and transactions, the libSQL atomic batch, the way from two schemas
to a migration that is written, applied and recorded, transactions with
savepoints, and the client that runs queries and row streams under hooks. TLC checks them on small instances;
TLAPS proves the invariants that matter most for every instance. Paths below are relative to `src/`; a section of
the code is named as in `PROJECT.json`, whose `map` gives the source lines of
every definition.

```
tlc -workers 2 -config Executor.cfg MCExecutor.tla
tlapm MigrationExecutorProofs.tla
```

- [The system](#the-system)
- [Modules](#modules)
- [How the models correspond to the code](#how-the-models-correspond-to-the-code)
- [Runs](#runs)
- [Fairness](#fairness)
- [Proofs](#proofs)
- [Where the code and its documentation differ](#where-the-code-and-its-documentation-differ)
- [What is not modelled](#what-is-not-modelled)
- [Plan](#plan)

## The system

qubu is a typed SQL builder with migration tooling. Much of it is pure: syntax
trees, their rendering to SQL, codecs. What keeps state, waits for a database
and can be interrupted, or decides the order in which something else happens,
is the following.

| Component | State | Operations | What is hard | What makes it correct |
| --- | --- | --- | --- | --- |
| Migration journal (`packages/migrate/src/journal`, SQL in `adapters/*/src/migration*`) | tables: metadata head, applied history, attempts, checkpoints, reconciliations | `createAttempt`, `transitionAttempt`, `appendAppliedAndAdvanceHead`, `recordCheckpoint`, `recordReconciliation`, `validateJournalState` | it is written inside and outside of transactions, by processes that die in between | history is a chain that ends at the head; settled attempts stay settled; an applied attempt has its record |
| Migration executor (`packages/migrate/src/executor`) | one run: position, attempt, phase, statement, flags about what may have happened | `executeMigrations`, `executeArtifact`, `reconcileAttempt` | every await can fail, abort, or lose its answer; cleanup must conclude what is known | an attempt is called `applied` or `rolled_back` only if it is; an open outcome stops every later run |
| Migration sessions (`adapters/pg/src/migration-support.ts`, `adapters/node-sqlite/src/migration.ts`) | connection, lease, DDL lock, transaction | `acquireLease`, `releaseLease`, `acquireDdlLock`, `begin`, `commit`, `rollback`, `close`, `classifyFailure` | two kinds of lease: an advisory lock that dies with its connection, which the caller owns and `close` leaves open, and a row that outlives both; `close` gives back only what its flags know of | one run at a time; a run that succeeds has given its locks back, and what a failed one may leave is a row an operator sees or a lock on a client its caller can end |
| libSQL migration session (`adapters/libsql/src/migration.ts`) | lease row with a token, batches under way | `validateBatch`, `applyBatch` | the batch may arrive after its sender is gone | a late batch has no effect, or the effect it was prepared for |
| Reconcile command (`packages/cli/src/cli.ts`) | the run of `reconcileAttempt` | verify, append history, audit, resolve | three writes that a crash can separate | an audited outcome and the history agree |
| Artifact repository and CLI create (`packages/migrate/src/repository`, `packages/cli/src`) | directory of sealed artifacts; the copy a run holds | `create`, `writeArtifact`, `verifyArtifactChain`, `apply`, `schema bootstrap` | two authors read the same tip; branches deploy diverging copies; a process dies before its file is written | the journal is one chain of artifacts that were written; a run never starts what does not follow it |
| Comparison, planner, compiler (`src/diff`, `packages/migrate/src/plan`, `.../artifact`, `.../ddl`) | none; a program is what they compute | `diffSnapshots`, `planMigration`, `compileMigrationProgram`, `PostgresEmitter` | the order is a topological order broken by hashes; each phase sees the database as earlier phases left it | whatever order is chosen, the program runs, loses only what was removed, and ends with the snapshot it was sealed with |
| Transactions and savepoints (`adapters/shared/savepoints.ts`, `adapters/{pg,mysql2,node-sqlite}/src/index.ts`) | per scope: pending calls, child, settled; per transaction: poison; per connection: owner and pending calls | `transaction`, `execute`, `explain`, nested `transaction` | callbacks may abandon promises, swallow errors, call a closed or an outer client; recovery can fail | a transaction commits exactly what it promised; nothing runs behind a scope; the connection is given back |
| Query execution client (`src/execution.ts`) | per call: hook operation; per stream: adapter iterator, generator, flags | `execute`, `explain`, `transaction`, `stream` with `next`, `throw`, `return` | requests pile up, return early or throw while rows, errors and closings come | hooks end once and tell what callers saw; consumed streams are closed |
| Baseline adoption and status (`packages/migrate/src/baseline`, `.../status`) | candidate under review; journal record and artifact file | `baseline-capture`, `baseline`, `status` | everything may have changed since the review; the record is written before the file | the record is the first of an empty history and describes the database of that moment |
| MySQL migration runner (`adapters/mysql2/src/migration.ts`) | history table | apply | no lease; DDL commits implicitly | history lists only what ran |
| Synchronisation server (`adapters/valtio-sync/src`) | mutation events | authorise, check conflict, handle, write event, in one transaction | concurrent mutations of one record | events and records agree |
| Other drivers, integrations, builder, codec, catalogue queries, code generation | none of their own | pure functions and thin adapters | text | out of reach |

How they interact: `create` reads the directory, compares the snapshot of its tip
with the configured schema, plans and compiles the difference and writes a
sealed artifact with the next sequence on top of the tip. `executeMigrations` receives a repository of artifacts, which
`verifyArtifactChain` accepts, and a factory of sessions. Under the migrator
lease of its session it reads the journal, and for every pending artifact
records an attempt, runs phases through the session (each in a transaction, or
not, with or without the DDL lock), checkpoints statements, and appends to the
history in the transaction of the last phase. If anything fails it concludes
`rolled_back` or leaves `recovery_required`, which `validateJournalState` makes
every later run stop at until the CLI's `reconcile` command settles the attempt
on the word of a verifier of the application. `baseline` and `schema bootstrap`
begin a history over a database that exists, or is empty. Processes share nothing
but the directory and the database: its tables, its locks and, for libSQL and
node:sqlite, the lease row. Applications call the client of `qubu()`, which calls
an adapter; the transaction functions of the adapters serve it through one
connection.

## Modules

| Module | Models | Proofs in |
| --- | --- | --- |
| `MigrationJournal` | the journal as a value with its operations, and `validateJournalState` | `MigrationExecutorProofs` (its first part) |
| `MigrationExecutor` (extends it) | any number of runs of `executeMigrations` and `reconcileAttempt` against one database, over sessions with an advisory or a row lease | `MigrationExecutorProofs` (types, local state, lease, history), `MigrationLedgerProofs` (open attempts, the ledger), `MigrationHistoryProofs` (records, success, starts, open transactions, effects), `MigrationRollbackProofs` (what rolled_back stands for) |
| `MigrationLedger` | what the tooling promises: an append-only chain and at most one open attempt; `MigrationExecutor` and `AtomicBatch` implement it through `Ledger`, their refinement mapping | `MigrationLedgerProofs` for the executor, `AtomicBatchProofs` for batches |
| `AtomicBatch` (extends `MigrationExecutor`) | the batch branch of `executeArtifact` over libSQL sessions | `AtomicBatchProofs` |
| `SnapshotDiff` | snapshots of a schema, and the operations between two of them | |
| `MigrationPlanner` (extends it) | edges between operations, every order they allow, locks | |
| `PostgresCatalog` (extends `SnapshotDiff`) | tables of a PostgreSQL database, what a DDL statement needs and does, what introspection reads back | |
| `ProgramCompiler` (extends both) | groups, phases, conditions and statements of a program; the snapshot an artifact is sealed with | |
| `Authoring` (extends it) | processes that create, apply, bootstrap, adopt and reconcile over one directory, journal and catalog | `AuthoringProofs` |
| `NestedTransactions` | transactions and savepoint scopes on one connection | `NestedTransactionsProofs` |
| `ExecutionClient` | calls and row streams of a hooked client | `ExecutionClientProofs` |
| `MCExecutor`, `MCBatch`, `MCAuthoring` | the instances TLC checks: artifacts, programs, repositories, schemas, symmetry | |

`MigrationJournal` and `MigrationExecutor` are parameterised by the artifacts
and their parents, the programs, the repositories the processes may hold, the
processes, the attempt identities, the kind of lease and the capabilities of the
session; `Authoring` by the schemas a configuration may declare over time and which
may follow which. Assumptions (`ArtifactAssumption`, `ExecutorAssumption`,
`NoTxnAssumption`, `BatchAssumption`, `AuthoringAssumption`, `NestedAssumption`,
`ClientAssumption`) give the constants their types; nothing is assumed of
programs, parents or repositories. Of schemas `AuthoringAssumption` asks what the
declarations guarantee (`WellFormed`: ids, names, parents, ordinals). `BatchAssumption` also says what batch
sessions are: their lease is a row, and what others do to the schema is no artifact of
a repository. In the
models a definition marked *Mutant* is a plausible mistake in the definition
after it. It is used by no specification; `PROJECT.json` names the property that
breaks when it takes that definition's place.

## How the models correspond to the code

### Journal and executor

`db` is what is committed: `journal` (head, applied records, attempts, audit
records), `schema` (which statements have had their effect: an effect is the
triple of artifact, phase, statement), `marks` (statement checkpoints) and the
`lease` row. `txn[p]` is the copy of `db` that the open transaction of session
`p` works on; every write goes to it or commits at once, as the code's does
(`Write`). `advisory` and `ddl` are PostgreSQL's session locks, `online` the
sessions whose connection lives: a run's own, and after the run a client that `close` has
left something on, since PostgreSQL's `close` does not end the client. A process whose client
is left so starts no other run until the client has ended. `run[p]` holds the local variables of
`executeMigrations` and `executeArtifact` under the code's names or the comment
beside the field; `pc` is the await the run has reached. One action is one
await with the synchronous code behind it, so anything can happen between any
two awaits:

| `pc` | Action | Code |
| --- | --- | --- |
| `idle` | `StartApply`, `StartReconcile` | entry, `verifyArtifactChain`, opening a session, `capabilityPreflight` |
| `lease` | `AcquireLease` | the successful round of the polling loop |
| `read`, `select` | `ReadJournal`, `SelectArtifact` | journal reads, `validateJournalState`, the prefix check; the before-snapshot check |
| `create`, `start` | `CreateAttemptRow`, `MarkRunning` | `createAttempt`, transition to `running` |
| `lock`, `begin`, `check`, `execute`, `mark`, `postcheck`, `commit`, `unlock` | `AcquireDdlLock` ... `ReleaseDdlLock` | one phase of `executeArtifact` with its `finally` |
| `record`, `applied` | `RecordApplied`, `MarkApplied` | `recordApplied` and the terminal transition, in the last phase's transaction |
| `rollback`, `conclude` | `Rollback`, `ConcludeAttempt` | the `catch` of `executeArtifact` |
| `verify`, `require`, `history`, `audit`, `resolve` | `VerifyOutcome` ... `ResolveAttempt` | `reconcileAttempt` |
| `release`, `close` | `ReleaseLease`, `CloseSession` | the outer `finally` |

The environment: `Fail` makes the current await throw before it had an effect (a
failing call, an abort noticed there, a hook that throws); `Answer` lets a call
have its effect and lose its answer, if the database is `Remote`; `CommitRefused`
is a COMMIT the server rejects (PostgreSQL then ends the transaction, SQLite keeps
it open); `LoseConnection`, `CallDisconnected` and `Crash` end sessions with or
without their process (`EndSession`: the server rolls back and frees both locks);
`EndClient` is the caller ending a client a run has returned from; `Repair` and
`ClearLeaseRow` are the operator's steps of docs/migrations/recovery.md. At `close`
a `Fail` is the hook of the `close-session` boundary throwing before
`session.close()` (executor/index.ts:127, 576-594): the run returns with the result
`unclosed`, and all its session has stays as it is. `Throw` is the code's exception
flow: which `catch` and which `finally` each await is under, and what an error there
replaces.

Decisions a reader should know of:

- The three reads of the journal are one step: they happen under the lease, and
  what runs without it (an operator) is not supposed to while a run does.
- `CloseSession` follows the flags of the code (migration-support.ts:244-281): it rolls back
  and unlocks what `#transaction`, `#ddlLock` and `#leased` know of, and the client lives on.
  A lock that was granted while its answer got lost is therefore still held after the
  run (`LeaseAfterClose`, `LockAfterClose`), until `EndClient`. The parts of `close` are one
  step. If one of them fails, what it was to give back stays; of this the model
  has the case in which everything stays, the `Fail` above.
- A lost answer to BEGIN is not modelled, only a `Fail` at `begin`. On PostgreSQL
  it leaves a transaction open on a living client of which `#transaction` knows nothing:
  the attempt is concluded inside it, `close` does not roll it back, and it
  ends, conclusion included, with the client. What keeps others from the attempt's
  row meanwhile are row locks, which the model does not have.
- Nor is a second run over a client that still holds locks modelled: PostgreSQL would
  grant them once more.
- Pre- and postconditions, hooks, the started and completed checkpoints are
  abstracted to whether they throw, which `Fail` covers.
- The application's verifier in a reconciliation is taken as sound: it answers
  for the schema of the moment (`Proven`).
- Time stamps, error texts, SQL and digests beside the identity of an artifact
  are left out.

### Atomic batches

`AtomicBatch` keeps the entry, lease, journal, cleanup and reconciliation steps
of `MigrationExecutor` and replaces the phases: `PrepareBatch` reads the catalog
and puts the batch into `flight`, `LandBatch` executes it at any later moment
with its guard `Assertions` (lease token, running attempt, head, catalog),
whether or not its sender still awaits it. `GiveUpBatch` is a transport error
while the batch is on its way, `RefuseBatch` an error that proves it did not
commit. `ForeignChange` lets others change the managed schema. Each session is
used once because each has a lease token of its own (`used`). Only the batch may
arrive late: the other requests of a dead sender are taken as settled by the time
an operator deletes its lease, which the runbook's first step (stop every runner)
asks for.

### Authoring

`sealed` lists every artifact ever sealed, whose place in it stands for its
digest; `files` are those in the directory, `removed` those an operator took
out. `live` is the catalog, `applied` and `attempt` what the journal says,
`tried` that it ever had an attempt, `lease` its lease, and `process[p]` what one
invocation of the command line is doing: the chain it copied (`own`), the
artifact it has still to write (`draft`), the candidate it reviews.

| Actions | Code |
| --- | --- |
| `Create`, `WriteFile` | `create` (cli.ts): list and verify the chain, `diffSnapshots`, `planMigration`, `compileMigrationProgram`, seal; the file is opened with a flag that refuses an existing name |
| `Apply`, `AcquireLease`, `NextArtifact`, `StopRun`, `RunPhase`, `RefusePhase`, `FailPhase` | `apply` and `executeMigrations`: copy of the chain, preflight, prefix check under the lease, before-snapshot, phases |
| `Bootstrap` | `schema bootstrap`: an artifact of sequence 0 that is run and never written |
| `Capture`, `RecordBaseline`, `Abandon` | `baseline-capture` and `baseline`, with the file written after the record |
| `Crash`, `RepairPhase`, `RemoveFile`, `ReconcileApplied`, `ReconcileRolledBack` | faults, and the operator of docs/migrations/recovery.md |

`Diff`, `Edges`, `Orders`, `Compile` and `PhysicalSnapshot` are the pure chain
between two schemas, and `Programs` the programs it may give. The constant
`Program` lists these for every pair of schemas the configuration goes through;
`AuthoringAssumption` ties it to `Programs`, and the instance computes it
(`ProgramTable`). `RunAll` is one transaction of DDL on the server,
`ReadSnapshot` what introspection makes of the catalog under an expected
snapshot, and `Matches` the comparison of digests.

Decisions a reader should know of:

- The planner breaks ties by hashes of logical ids, which a reader of the schema
  cannot foresee. The model allows *every* order the edges leave open, and an
  artifact holds one of the programs.
- The steps of a run are coarser than in `MigrationExecutor`, which has them one
  by one under the same lease: one phase is one transaction, the last one with
  the record. All modelled statements may run in a transaction.
- The verifier of a reconciliation reads the database. Approvals of destructive
  operations are given, review decisions too.
- A database is adopted only where it has the configured schema. A command whose
  verification fails leaves nothing behind and has no action.
- The catalog keeps names, as the server does, and per table the number of
  columns it ever had, from which a new column gets its ordinal.

### Execution client

`call[c]` is the promise of one `execute`, `explain` or `transaction`; `stream[s]`
the generator `decodeResultStream` of one row stream (`at`), with the wrapper's
`started`, its row count and what made it leave the loop; `raw[s]` the adapter's
iterator; `request[r]` and `queue[s]` what the consumer asked for and the
generator has not answered; `hook[o]` what the hooks were told of an operation.
The rules of async generators are the language's: requests wait in order, one is
dealt with at a time, a generator that never ran skips its body when it is
returned from or thrown into, leaving a `for await` at a row closes the
iterator. The consumer is free: `CallNext`, `CallThrow`, `CallReturn` and
`CallReturnUnstarted` need no earlier answer. The adapter's iterator answers its
own calls one after the other, so a read waits for a direct closing. Rendering,
decoding, a cancellation signal and hooks that throw count only by what they make
fail; that a stream's request was refused before the adapter was called leaves
nothing behind and has no action.

### Nested transactions

`scope[s]` is one call of `transaction()`: `parent` is the scope whose client it
was called on (`None`: the root client), `within` all scopes around it, `pc` its
await, `outcome` how its promise settled. `op[o]` is one `execute` or `explain`
call. `owned` is the connection guard, `poison` the flag of a failed recovery,
`conn` the server's side: an open transaction with its data, PostgreSQL's
aborted state, and the stack of savepoints. The reservations of the code
(`pending`, `child`) are the derived `Pending(s)`, `Children(s)`. The
application is free: it calls any client it holds, awaits or abandons, resolves
or throws (`Call`, `EndCallback`). PostgreSQL's failure mode (a failed statement
aborts the transaction) and that of MySQL and SQLite (the statement alone is
undone) are both in `FailureModes`. `LateAborts` is mysql2, which looks at the
signal once more after a statement or a COMMIT and rejects what has run
(adapters/mysql2/README.md:74). An answer to COMMIT is lost together with its
connection; only a lost connection refuses ROLLBACK. Errors with which a server
ends a whole transaction by itself (an InnoDB deadlock, a full SQLite disk) are
not modelled, nor are pooled pg clients, whose transactions use connections of
their own.

## Runs

| Run | Instance | Distinct states | Question |
| --- | --- | --- | --- |
| `executor` | 2 PostgreSQL processes, 2 attempts, 3 artifacts, mixed programs, 2 faults | 582,473 | do journal, schema and history stay consistent, and do runs implement the ledger |
| `row_lease` | 2 node:sqlite processes, 2 attempts, 2 faults | 142,049 | the same where the lease is a row that outlives its session |
| `liveness` | 2 PostgreSQL processes, programs that take the DDL lock, 1 fault | 59,019 | as long as sessions know of their locks, does every run under the lease end, and the lease become free |
| `batch` | 3 libSQL sessions, 2 attempts, 3 artifacts and a foreign change, 2 faults | 806,175 | is a late batch harmless |
| `nested` | 3 scopes, 2 calls, both failure modes, 1 fault | 747,304 | is a transaction exact, and is the connection given back |
| `authoring` | 2 processes, 8 schemas, 3 artifacts, 3 ids, 1 fault | 629,306 | do directory, journal and database stay in step, and do planned programs run |
| `client` | 1 call, 1 stream, 5 requests, 2 rows | 100,674 | are hooks told the truth, and consumed streams closed |
| `mixed_rollback`, `audit_order`, `lease_leak`, `nested_aborted`, `ordinals` | the smallest instance that shows it | few | see [below](#where-the-code-and-its-documentation-differ) |

What the properties say is stated beside each of them. In short:

- *The journal*: `LinearLedger` (history is a chain ending at the head),
  `AppliedIsRecorded`, `HistoryIsImmutable`.
- *Outcomes tell the truth*: `AppliedIsComplete` (all statements of an applied
  attempt are in the schema), `UniformRolledBackIsAbsent` (none of a rolled back
  one, and no record of it, for programs without a mixture; checked by `executor`
  and `batch`), `SuccessIsApplied`, `CheckpointIsEvidence`,
  `StartsFromKnownState`.
- *Exclusion*: `LeaseExcludes`, `NoLostUpdate`, `AtMostOneOpenAttempt`
  (over both kinds of session), `InStep` (what a run has read of the journal
  still holds at each later await).
- *The promise as a whole*: `LedgerSpec`, refinement of `MigrationLedger`.
- *Batches*: `LandsOnPlannedSchema`, `RollbackIsDefinite`, `LateBatchIsFenced`.
- *Authoring*: `HistoryChains` (each record builds on the one before it, in
  sequence, parent and snapshot), `RunFollowsJournal` (what a process runs extends
  the journal, not only its own copy of the directory), `RecordsHaveFiles`
  (nothing is recorded on top of an artifact nobody wrote), `HeadIsLive` (the
  database reads back as the head's snapshot, so that the next migration can
  start), `CompiledRuns` (a program runs in whatever order the planner chose),
  `DataLossIsDeclared` (a column goes only with the phase that removes it).
- *Transactions*: `SettledIsExact` (what is durable is what the scope tree
  promised), `SavepointsNest`, `NoWorkBehind`, `RootStaysOutside`,
  `PoisonedNeverCommits`, `GuardIsReleased`.
- *Client*: `OutcomeIsTrue` (what hooks are told is what callers and consumers
  saw), `ConsumedStreamsEnd` (a stream that ended or was returned from is closed
  and reported).
- *Locks*: `SuccessLeavesNoLock` (a run that reports success leaves neither lock on the
  client it was given).
- *Progress*: `RunsEnd`, `LeaseIsFreed`, both as long as `LocksKnown`: what `close` can
  know of is all there is.

**Bounds.** `MaxFaults` bounds the faults of a behaviour (failures, lost answers,
crashes, lost connections). Two are needed to crash a run and then interrupt
what recovers from it; every deviation found needs at most two. Two processes
suffice for each hazard of exclusion, since the code never looks at more than
one other session through a lock; with two attempts a second run meets the leavings
of the first, and with three artifacts, `a2` and `b2` both written on top of
`a1`, the two branches can be deployed against each other. The programs
(`MixedPrograms`, `SqlitePrograms`, `LockedPrograms`) cover a phase in and
outside of a transaction, before and after another, with and without the DDL
lock, and one that a session refuses. `row_lease` and `lease_leak` have
`Remote = FALSE`: node:sqlite runs in the process and loses no answers. The
libSQL run has one-phase programs of one and two statements, a two-phase one that
`validateBatch` refuses, and three sessions, so that a batch, the run that comes
after it and a reconciliation meet. Three scopes are a transaction with two
nested levels, or two siblings, or two transactions one after the other; two
calls are one to keep and one to undo. Processes and attempt identities are
symmetric; `Liveness.cfg`, `Nested.cfg` and `Client.cfg`, which check liveness, use
no symmetry. Deadlock is
checked except where the instance is used up: each batch session, each scope and
each call happens once.

The schemas of `authoring` (`Schemas` in `MCAuthoring`) are one small application:
a table that is created (`plain`), or is there to be adopted; a second one with a
foreign key to it (`posts`), which must not come before the key it references; an index beside it
that a migration adds while another drops the table (`kept`); an enum with the
column that uses it (`typed`); a table rename that also carries a change
(`people`, a program that stops half-way); a dropped newest column (`short`) and
one added after it (`again`); and no change at all (`<<"kept", "kept">>`), which
seals an empty program. Three artifacts allow a fork of two on a first one, or
three in a row; a second process and one fault let a crash fall between any two
steps of one process while another goes on. The five requests of `client` are enough for
every combination of an unstarted return, two rows with the request that ends
the stream, and requests behind its end; streams do not share state, as
`ExecutionClientProofs` shows for any number of them.

## Fairness

`MigrationExecutor!FairSpec` has weak fairness of `Continue(p)`, the steps of a
run that has started: each of them is a call of the driver, which settles, or
throws once its connection is gone. Weak fairness is enough for the two polling
loops because a lock stays free until someone takes it. Nothing obliges a
process to start, the environment to fail, an operator to act, or a caller to end
its client (`EndClient`). `RunsEnd` is
stated for runs under the lease: a run that waits for the lease may wait for as
long as others keep taking it, and the code promises no more. Both properties are about
behaviours in which every lock a session at work holds is one it was told of and
every session of a living client was closed (`[]LocksKnown`). Without that they are false
of the code, and of the model: a lock granted with its answer lost, or one held when a
hook kept `close` from being called, is held until the caller ends the client, and every
other session polls for it in vain (see *Executor and sessions* below). What is left is
everything else that can go wrong while a lock is held: failures, aborts, refused commits,
lost answers of other calls, lost connections and crashes. With a row lease
no liveness holds without an operator, and none is stated.

`NestedTransactions!FairSpec` has weak fairness of each scope's `Progress` and of
each call's `Answer`: the driver settles its calls, and callbacks end. The latter
is a duty of the application; a callback that never ends keeps its connection,
in the model as in the code.

`ExecutionClient!FairSpec` has weak fairness of a running call's `Settle`, of each
generator's steps and of direct closings: the adapter answers what it is asked,
and the engine runs generators. Nothing obliges a consumer to ask again, so
`ConsumedStreamsEnd` is about streams that ended or were returned from.

## Proofs

Everything is proved for any number of processes, scopes, calls, attempts,
artifacts, streams, requests and faults, any programs, repositories and schemas,
from the typing assumptions alone.

| Theorem | Statement | Argument |
| --- | --- | --- |
| `AppendChained` | what `appendAppliedAndAdvanceHead` accepts keeps a chain a chain | the record's parent is the head the history ends at, and the unique columns refuse a repetition |
| `SoundAlways`, `TypeCorrect` | `[](TypeOK /\ LocalOK /\ TransactionOK)` | inductive |
| `ControlAlways`, `LeaseExclusion` | `[]Control`, `[]LeaseExcludes` | `SoundAlways`, then the lease |
| `SuccessUnlocks` | `[]SuccessLeavesNoLock` | inductive over `SoundAlways` (`LocksTold`) |
| `LedgerIsLinear` | `[]LinearLedger` | `ControlAlways`, then the chain |
| `InStepAlways`, `OneOpenAttempt` | `[]InStep`, `[]AtMostOneOpenAttempt` | inductive over `SoundAlways` and `LeaseExclusion` |
| `HistoryNeverRewritten` | `HistoryIsImmutable` | step by step: each step makes one journal operation or none |
| `ImplementsLedger` | `LedgerSpec` | the same step, seen through the refinement mapping |
| `RecordingAlways`, `AppliedHasRecord` | `[]Recording`, `[]AppliedIsRecorded` | inductive over all of the above |
| `SuccessLeavesApplied`, `AttemptsStartKnown` | `SuccessIsApplied`, `StartsFromKnownState` | step by step from `RecordingAlways` |
| `CompletenessAlways`, `AppliedHasEffects` | `[]Completeness`, `[]AppliedIsComplete` | inductive over `RecordingAlways` |
| `CheckpointsAreEvidence` | `CheckpointIsEvidence` | step by step from `CompletenessAlways` |
| `DefinitenessAlways`, `RolledBackIsDefinite` | `[]Definiteness`, `[]UniformRolledBackIsAbsent` | inductive over `CompletenessAlways` (`Telling`, then `Definiteness`) |
| `BatchInvAlways`, `BatchTypeCorrect`, `BatchOneOpenAttempt` | `[]BatchInv`, `[]BatchTypeOK`, `[]AtMostOneOpenAttempt` for batches | inductive (`BatchInv`), with the executor's lemmas for the shared steps |
| `LateBatchFenced` | `[]LateBatchIsFenced` | `BatchInvAlways` |
| `BatchHistoryNeverRewritten`, `BatchImplementsLedger` | `HistoryIsImmutable`, `LedgerSpec` for batches | step by step from `BatchInvAlways`: a batch is one step of the journal |
| `FaithfulAlways`, `BatchRollbackIsDefinite`, `BatchRolledBackIsAbsent`, `BatchAppliedIsComplete` | `[]Faithful`, `[]RollbackIsDefinite`, `[]UniformRolledBackIsAbsent`, `[](AppliedIsComplete /\ AppliedIsRecorded)` for batches | inductive over `BatchInvAlways` (`Faithful`), and its consequences |
| `BatchLandsOnPlannedSchema` | `LandsOnPlannedSchema` | step by step from `FaithfulAlways`: only a batch settles a running attempt as applied |
| `BatchSuccessIsApplied` | `SuccessIsApplied` for batches | inductive over `FaithfulAlways` (`Ended`) |
| `CommitsLoseNothing` | `LeaseKind = "row"` implies `[]NoLostUpdate` | inductive (`OpenTransactions`) |
| `NestedControl`, `NothingBehind`, `RootOutside` | `[]Control`, `[]NoWorkBehind`, `[]RootStaysOutside` | inductive, and its consequences |
| `NestedInvariant`, `SavepointsAreNested` | `[]IInv`, `[]SavepointsNest` | inductive over `NestedControl` |
| `SettledExactly` | `DefiniteEnd` implies `[]SettledIsExact` | `NestedInvariant` |
| `ControlAlways`, `HistoryChainsAlways`, `RunFollowsJournalAlways`, `RecordsHaveFilesAlways` (authoring) | the properties of these names | inductive (`IInv`) |
| `ProgramsKeepThePlan` | of any two schemas, a program has every operation of their difference in one phase, and in none earlier than what it depends on | lemmas about the planner and the compiler |
| `ArtifactInvariance`, `SealedOrdinalsAlwaysDiffer` | `[]Artifacts`, and in every sealed snapshot the columns of a table have different ordinals | inductive over `IInv` (`Artifacts`, `Reviews`) |
| `LossInvariance`, `DataLossAlwaysDeclared` | `NamesStay` implies `[]LossInv` and `DataLossIsDeclared` | inductive over `IInv` (`LossInv`), then step by step |
| `OutcomeAlways` | `[]OutcomeIsTrue` | inductive (`IInv`) |
| `PoisonGoesBack` | `PoisonedNeverCommits` | step by step from `NestedControl` |

*Executor.* `TypeOK` is not inductive: whether `Program[...][ph]` exists depends on
the position a run is at, and a COMMIT publishes `txn[p]`, which must not be
`NoTxn`. `LocalOK` therefore says which local variables are set at which await,
and `TransactionOK` that a run inside a transaction has one. `ThrowOK` and the
lemmas before it show once that the exception flow keeps `LocalOK`; each action
then has a lemma of its own. The second half of the module adds `LeaseOK`: a session
between acquiring and releasing holds the lease, in the database *and*, for a
row lease, in the copy its transaction works on, since the commit of that copy
would otherwise undo a lease taken meanwhile. Its lemmas sort the actions into
those that work under the lease (`StepsWork`), take it, give it back, or close or end the
session. `LocksTold` is the other direction: as long as no call of a run has failed, its
session holds no lock its flags do not tell of, the lease is back before `close`, and the DDL lock
before the phase is left. It does not hold of a run with an error, which is why
success is the most that can be promised. The chain is then kept because each of those steps leaves the history
alone or appends to it by `AppendChained`, in the committed database and in
every transaction's copy.

*The ledger.* At most one open attempt is not inductive either: that a run may
create an attempt depends on what it read of the journal several awaits earlier.
`InStep` says what is still true at each await of a run under the lease: no
attempt is open before the run has made its own, afterwards that one alone is,
and the journal of the run's transaction is the committed one, followed by the
record, and then the outcome, once the run has written them (`IsRecorded`,
`IsSettled`). `JournalStep(i, j)` says that one step of one run takes the
committed journal from `i` to `j` by a single operation of the journal, or by
the record and the outcome that one COMMIT publishes. Each action has a lemma
(`Moved`) that gives both for the run that takes the step; for the other runs
nothing has to be shown, because by `LeaseExcludes` none of them is under the
lease while the journal moves. Immutability and the refinement then follow from
`JournalStep` alone.

*The history.* `InStep` says that what a run has read of the journal is current;
`Recording` says what it has read. That an attempt called applied has a record
depends on there being no other record of its artifact, which was settled when the
run looked for the next artifact, several awaits and perhaps several artifacts
earlier. `Grounded` keeps it: from the recovery gate to the catch the history is the
first `n - 1` artifacts of the repository, or `n` behind `recordApplied`, every
record belongs to an applied attempt of its artifact, the attempt is one at the
`n`-th artifact; before `createAttempt` the head is the one the run has in hand and
the schema the before snapshot; a reconciliation that will say applied has its
record. `Done` says what a run that leaves without an error has behind it until
`close` reports the success. `RecordsOK` adds that an open attempt's artifact has no
record but its own. An attempt is new only by `createAttempt` (`OnlyCreates`): any
other step that writes an attempt needs one that is open. `OpenTransactions`, for the
lease row, is that only the row's owner has a transaction, with all that is
committed in it: releasing deletes the row inside the transaction, so that a
transaction left open keeps everybody out until it is gone. With advisory locks this
does not hold, and need not: the lock goes before the transaction does, but nothing
commits any more.

*The effects.* That an applied attempt is complete is settled one statement at a time,
over many steps, in whichever copy of the schema the session works on. `Completeness`
says it for the run: the statements `Behind` its await, those of earlier phases and
those of this phase it has passed, are in the schema its session sees, and a
reconciliation that was given proof sees all of them; an open transaction has what is
committed and more, with the effect of every checkpoint it adds (`Vouches`), so that
its COMMIT takes nothing away and publishes evidence only. `TransitionComplete` then
needs no more than the await from which `markApplied` is called. A rolled back phase is
no exception: the run gives up and claims nothing (`NothingEffected`). The one step
that takes effects out of the committed schema is the operator's `Repair`, between the
runs, and it takes those of an open attempt: by `OpenUnrecorded` and
`AppliedAttemptsRecorded` no applied attempt is of the same artifact.

*Definite rollback.* The catch of `executeArtifact` decides between rolled_back and
recovery_required from four local flags, several awaits after the effects it judges and
without a look at the schema. `Telling` says what the flags are at each await, for
programs whose phases all run in transactions (`Enclosed`) and for those of which none
does (`Unenclosed`). `Definiteness` ties them to the committed database: an attempt
under way is at the artifact of its run, and either something already keeps the catch
from saying rolled_back (`Marred`: a commit was acknowledged, an effect is outside any
transaction, or the outcome is uncertain), or neither an effect nor the record of the
artifact is committed (`Absent`), or the journal says applied, and then no transition
is left. The hard steps are the calls whose answer is lost: a COMMIT publishes effects
and throws, which makes the outcome uncertain at the same time; a `recordApplied`
outside a transaction publishes a record, which `effect` must have announced before,
hence the statement that `Unenclosed` asks for. For an open transaction the invariant
bounds what its COMMIT may publish by `mayHaveEffect`. A reconciliation proves the
absence at its first await and keeps it (`Answerable`). What makes an artifact absent
once does not come back: a new effect (`NextOpens`) or record (`StepRecords`) belongs
to an open attempt, and where all attempts of an artifact were rolled back none is open
(`StaysAbsent`).

*Batches.* Most steps of a batch session are steps of the executor, and its lemmas
carry over; `NextAdvances` says that every step keeps `Sound`, `Leased`, `ChainOK` and
`InStep`. What is new is the request that outlives its sender. A token is
used once (`used`), so a sender of a batch that has not arrived is on its way
out or dead (`Aloft`), or still waits with exactly the batch its own variables describe
(`FlightOK`, `BatchOf`). `CommittedOK` shows that a batch whose assertions hold
finds its attempt the only open one and the journal's head where it expects it, so
that it appends one record and settles one attempt, in one step of the ledger. No other session is under the
lease then, because the batch asserts the token of its sender and `LeaseExcludes`
holds; if the sender has gone on, its conclusion about the attempt has not
reached the journal yet, or the batch would not find the attempt running.

`BatchInv` says nothing of the schema. What a batch does to it depends on what was
read in earlier round trips, and `Faithful` says what that reading is still worth.
`Accounted` is about the database and the batches on their way: records, attempts
and schema agree (`Registered`); a batch whose attempt is still running carries the
catalog that the history has left (`Addressed`), which is what `LandsOnPlannedSchema`
comes down to, because the batch itself asserts that catalog; and what was only
rolled back is absent (`RolledBackAbsent`). `Informed` is about the run under the
lease: the history is the prefix it planned from; the artifact it is about to apply is
absent until its batch lands; a conclusion that may be reported as definite
(`Definite`) has no batch of its sender in flight; and what reconciliation has proved
stays proved. The two depend on each other. The difficult step is a batch that lands
late: its attempt must be running, so its sender, if it is at work, is the run under
the lease, and that run either waits for it or knows that it does not know
(`uncertain`). `Briefed`, `BatchInv` with `Faithful`, is what every step starts from;
`EffectsApart` keeps a change of others away from the artifacts of the repository.
`Rounded` adds what a run remembers of a whole history when it ends without an error.

*Nested transactions.* The invariant is that the active scopes form one chain:
`KindOK`, `EnclosingWaits` (an enclosing scope is in its callback or waits for
what it abandoned), `ChildOnTheWay` and `OneChain` (no two active scopes side
by side). `EnclosingWaits` alone is not inductive: that a scope may leave its
callback needs the reservation `Children(s) = {}` to mean that nothing at all
is under way further in, which is what the other two give. `PendingOK`,
`GuardOK`, `DataOK` and `PoisonOK` then follow along the same steps. A change of
one scope's await is dealt with once (`MoveKeepsChain`), as is a new scope
(`NewKeepsChain`).

`Control` says nothing of the server. That a transaction has committed what it
promised is decided call by call, long before COMMIT: `DataExact` says that what the
server holds of an open transaction is what its scopes still count on
(`Uncommitted`), and that each savepoint keeps what is left of that if its scope goes
back. ROLLBACK TO is right because of the second half, and for the scopes further out
only because scopes are nested transitively (`NestingOK`); RELEASE and ROLLBACK TO find
their own savepoint on top (`OwnSavepoint`) because of `SavepointsNest`. A call runs in
the innermost scope (`PendingInnermost`), so every savepoint on the server is of a
scope around it and none of them may count it. Both hold until recovery fails; then
`PoisonOK` leaves only the outermost ROLLBACK. COMMIT turns `DataExact` into `Mine(r) =
Kept(r)` (`CommitDelivers`), since no other scope is under way; afterwards `Kept(r)` no
longer moves, because nothing inside a settled transaction is under way either
(`MoveKeepsKept`). `DefiniteEnd` leaves out the one case the code does not keep:
callbacks that resolve in a transaction PostgreSQL has aborted (`nested_aborted`).

*Authoring.* That a record builds on the one before it is decided in three places:
when an artifact is sealed, when a process copies the directory, and when it
takes the lease. `IInv` says what each leaves behind. `Directory`: files, those of now and those removed, are sealed
artifacts. `Shaped`: what a process holds is well formed. `Drafts`: what waits to
be written is not written, and waits with one process only. `Copies`: the
chain a process holds is linked as it was when it was verified, which stays true
because artifacts are never changed, whatever happens to the files. `Journal`:
`HistoryChains` with the files. `Attempts`: an open attempt is of the artifact
that follows the journal. `Runs`: the process under the lease, and no other, holds
it, with a copy the journal is a prefix of. Each action has one lemma. None of
these expands the planner, the compiler or the catalog: what `IInv` says holds for
whatever programs these give.

*Programs.* An order of the planner is a list without repetition (`OrdersList`,
`BegunBegins`), the compiler puts each member of a group in that group alone
(`OneGroup`), and `GroupsPlaced` shows that no group comes before one it has an edge
from. A placement of groups is a function on numbers, not a recursion, so the
arguments that go through all groups take a first one that fails
(`Least`). The physical snapshot gives added columns the places behind the highest
ordinal left; `PlacesDiffer` and `MaxBounds` show that they differ from each other
and from what is there, `OrdinalsKept` that a snapshot whose ordinals differ is
sealed as one whose ordinals differ, so along a chain they always do. What the
server numbers is another matter (`ordinals`, below).

*Data.* That only a declared removal takes a column is a matter of names: a statement
finds its column by name, the operation by id, and between the two lie a
snapshot sealed long before, an order the planner chose and whatever an interrupted
program left behind. `Artifacts` says that an artifact leads from one declared
schema to another, with snapshots that are like them up to ordinals (`Like`), by a
program compiled between the two; `Reviews` that a baseline under review is of a
declared schema; `CatalogOf` what the catalog is made of. `Pursued` is the part that
needs the database: while an attempt is open, a table of a name its artifact
removes has no column the artifact does not know. The run that opens the attempt
establishes it, because it has just compared the database with the snapshot before
(`MatchesKnown`); nothing that happens until the attempt is settled takes it away. Each kind of
statement has a lemma (`Creating`, `Dropping`, `Renames`, `Altering`) that says which columns
it may take; `PhaseTakes` puts them together, `PhaseStep` ties them to the phase in
hand. `Placed` says that there is one.

`DataLossAlwaysDeclared` has a hypothesis, `NamesStay`, in two parts. No column leaves
a table in the step that renames the table: the statement that drops the column calls the
table by its new name (`parentTable`, emitter.ts:2826), before it has that name
(plan.ts:985), and whoever has it loses a column of that name. TLC shows that
loss when the hypothesis is dropped and a table nobody declared stands in the
way (see *Programs* below). No new table takes the name of one that leaves: only the
argument needs that; no loss without it is known. TLC evaluates the hypothesis on
the schemas of the instance (`NamesStayHere`).

*Execution client.* A report is made once and has to stay true while earlier and
later requests are still answered. `ReportOK` says where a stream can be once its
iterator is not open, and that the hooks know by then; `GeneratorOK` that the
oldest request is the one the generator is at work on, which is what makes a
closing loop answer the request that closed it; `RowsOK` that rows counted are
rows handed out, by cardinality of the requests answered with one; `DirectOK` that
what is closed directly has no rows. `QueueOK` keeps the queues apart. A request
made (`EnqueueKeeps`) and one answered (`AnswerKeeps`) are dealt with once, and
`OnlyAt` carries over what is said of the other streams.

*Only model-checked:* `HeadIsLive` and `CompiledRuns`. They say that the catalog
*becomes* the target of a program, statement by statement, which needs of each
intermediate catalog that
nothing outside the snapshot uses a name, an enum or a key a statement touches; for
arbitrary schemas both are false in the cases listed under *Order of a plan* and *Programs* below,
and the hypotheses that would exclude all of them are most of what is to be shown.
TLC checks them on the schemas of the instance.
*Out of the prover's reach:* liveness under fairness
(`RunsEnd`, `LeaseIsFreed`, `GuardIsReleased`, `ConsumedStreamsEnd`), and ENABLED;
induction over data by the library's theorems, which take an operator; recursive
operators, of which the models have none.

## Where the code and its documentation differ

Each of these runs finds its property violated by what the code does; the quotes
and lines are in `PROJECT.json`.

- `mixed_rollback`: a failure in a transactional phase after a non-transactional
  one. The catch rolls the later phase back, `rolledBack` becomes true, and with
  it the attempt ends `rolled_back`, although the earlier phase's effects are in
  the schema. `UniformRolledBackIsAbsent` states, and the passing runs check, the
  programs for which the promise is kept.
- `audit_order`: `reconcileAttempt` appends history before it compares its
  outcome with one already audited. After an interrupted `rolled_back`
  reconciliation, an `applied` one moves the head and only then fails.
- `lease_leak`: SQLite refuses COMMIT and keeps the transaction open. The lease
  row is deleted inside it and `close` rolls the deletion back with `#leased`
  already false: the run returns and the row stays.
- `nested_aborted`: on PostgreSQL an outer callback that swallows the failure of
  a statement resolves; COMMIT answers ROLLBACK without an error, and
  `transaction()` resolves with nothing durable. `nested` excludes this one case
  (`SwallowsAbort = FALSE`) and keeps everything else.

- `ordinals`: a migration drops a table's newest column, a later one adds
  another. Sealing gives it the ordinal after the highest column *left*, the
  server the one after the highest it ever gave. The applied artifact's snapshot
  never matches: status reports drift and the next apply refuses. `HeadIsLive`
  excludes that case (`AddedBehindGap`).

Observations without a run of their own, each met while its definition was
translated:

*Executor and sessions.*

- A program without phases (`create` seals one when nothing changed), or whose
  phases run outside a transaction and hold no statement, records its history
  outside a transaction; if the transition to `applied` then fails, the attempt is
  concluded `rolled_back` although its record is there, and no later run accepts
  the journal (executor/index.ts:302). `UniformProgram` leaves such programs out.
- An error of `releaseDdlLock` in a phase's `finally` replaces the error of the
  phase, an uncertain outcome included; `UniformProgram` excludes programs that
  take the DDL lock outside a transaction for that reason. When BEGIN fails after
  the DDL lock was taken, the lock is released only when the session closes.
- PostgreSQL's `close` unlocks by its flags alone (migration-support.ts:257-270), and
  pg's connection has no `close` of its own (pg/src/migration.ts:33-43). A lease or DDL
  lock whose grant was answered too late, by a query timeout of the client for instance (124-128,
  147-151), or one that is held when a hook throws before `session.close()`, stays
  on the caller's client after the run has returned, and other sessions wait for it
  without an end. docs/migrations/adopt.md:195-196 says that "Qubu releases its locks and
  closes its session; it never releases or ends the supplied client"; the wrapper it
  shows (223-232) ends the client, and that frees them.

*Order of a plan* (`Orderly` names the plans `CompiledRuns` is about). No edge, so
an order by hash of ids, exists between

- a column and an index or constraint over it, added or removed together on an
  existing table; an enum and the last column that uses it, removed together;
- a removed object and an added one of the same name;
- a change that drops a reference and the removal of what was referenced.

An operation with two edges of different reasons from the same other one is
listed twice and refused as a cycle (`FreedOnce`).

*Programs.* Each phase expects its objects as they were *before* the artifact, a
table with all its children, so renaming a table together with operations on
its children stops after the first phase, for recovery by hand. Where a column of the
renamed table is dropped and another table, which no schema declares, already has the new
name and a column of that name, the first phase drops that one instead
(emitter.ts:2832). An index that is
renamed and changed is dropped by its new name. A table that gains a foreign key
to one created in the same migration cannot be read back between the phases. A
change that is not destructive asks for a `shared` lock (plan.ts:526), which the
PostgreSQL session does not offer: the artifact, and every later one in its
directory, is never applied. Changing a column's type is not destructive.

*Directory and journal.* The bootstrap artifact has sequence 0 and is never
written: the next `create` makes another first artifact, which no apply accepts
over that journal, and a bootstrap that was interrupted cannot be reconciled as
applied. A database with undeclared tables looks empty until a CREATE TABLE meets
one (`Obstructed`).

*Streams.* `throw()` before the first `next()` ends the generator without running
it: the adapter's iterator stays open and the observation has no end
(execution.ts:897; docs/guides/hooks.md:51-52 "A consumed stream completes its
observation when it is exhausted, closed early, or fails"). `ConsumedStreamsEnd`
excludes it (`ThrownFirst`). `return()` before the first `next()` reports a success
even when closing the adapter's iterator rejects (`ClosedDirectly`), and with it
the promise the consumer awaits.

## What is not modelled

- Builder, rendering of SQL text, codecs and canonical JSON, digests, code
  generation: pure functions of trees and text.
- Of the authoring pipeline: views, sequences, routines, policies and other kinds
  of objects; rename hints and the decisions an author gives; custom SQL; the
  SQLite and MySQL emitters and the table rebuilds of SQLite; the catalogue
  queries of introspection, of which only the managed reading is modelled.
- Query adapters of the other drivers: they translate one interface to another.
  The migration sessions of postgres.js and PGlite run pg's
  `migration-support.ts` over a client of their own, whose pinning of a
  connection is not modelled; bun:sql declares that it cannot migrate.
- `inspectRecovery`, `status`: they read and report. What `status` compares is
  `HeadIsLive`.
- The MySQL runner and the synchronisation server: see the plan.
- Of the execution client: rendering, decoding of values, metadata, and how an
  adapter reacts to a signal.
- Integrations (Better Auth, Drizzle, pgvector, FTS5): no state of their own.

## Plan

Done, in this order: `MigrationJournal`, `MigrationExecutor` with
`MigrationLedger`, their proofs, `NestedTransactions` and its proofs,
`AtomicBatch` and its proofs, the authoring pipeline from `SnapshotDiff` to `Authoring` and its
proofs, `ExecutionClient` and its proof.

Next, most important first:

1. The SQLite dialect of `Authoring`: rebuilds of a table as one group of
   statements, foreign keys that cascade when the old table is dropped, and the
   order of columns a rebuild gives.
2. `MysqlRunner`: the lease-free runner with implicit commits
   (`adapters/mysql2/src/migration.ts`).
3. `SyncMutation`: two clients' mutations of one record in transactions of the
   server (`adapters/valtio-sync`), with the events as the abstract history.
4. The rest of the object kinds in `SnapshotDiff`, views and their dependencies
   first, and rename hints.

Proofs to add: `HeadIsLive` and `CompiledRuns`, for a class of schemas that excludes
the observations above: a compiled program, run on the catalog of its base, gives
the catalog of its target. The lemmas about plans and programs in
`AuthoringProofs` are its first half.
