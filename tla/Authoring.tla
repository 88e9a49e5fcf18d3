------------------------------ MODULE Authoring ------------------------------
(***************************************************************************)
(* The commands that write and use migration artifacts, over one artifact  *)
(* directory, one journal and one PostgreSQL database: create, apply,      *)
(* baseline-capture and baseline, schema bootstrap and reconcile, run by   *)
(* several processes that crash and whose statements fail.                 *)
(*                                                                         *)
(* An artifact is known by its place in sealed, which stands for its       *)
(* digest.  The journal is modelled by what it records: MigrationJournal   *)
(* and MigrationExecutor have its steps one by one, under the lease.       *)
(***************************************************************************)
EXTENDS ProgramCompiler

CONSTANTS
  Process,       \* invocations of the command line
  NoOne,         \* nobody holds the lease
  SchemaName,    \* the schemas a configuration declares over time
  Schema,        \* their snapshots
  Successors,    \* which of them may follow which
  Program,       \* the programs from one declared schema to the next, listed
  Initial,       \* the schemas the database may have before any migration
  Id,            \* artifact ids an author chooses
  MaxArtifacts,  \* bounds: artifacts sealed,
  MaxFaults      \* crashes and failed statements

ASSUME AuthoringAssumption ==
  /\ NoOne \notin Process
  /\ "empty" \in SchemaName /\ Schema["empty"] = {}
  /\ Initial \subseteq SchemaName
  /\ Successors \subseteq SchemaName \X (SchemaName \ {"empty"})
  /\ \A name \in SchemaName : WellFormed(Schema[name])
  /\ \A step \in Successors :
       {Program[step][n] : n \in DOMAIN Program[step]} = Programs(Schema[step[1]], Schema[step[2]])
  /\ MaxArtifacts \in Nat /\ MaxFaults \in Nat

VARIABLES
  sealed,    \* every artifact ever sealed
  files,     \* those in the directory
  removed,   \* those an operator removed from it
  live,      \* the database
  applied,   \* the journal's records, oldest first
  attempt,   \* the attempt that is started, running or recovery_required
  tried,     \* an attempt was ever recorded
  lease,     \* who holds it
  process,   \* what every process is doing
  faults

vars == <<sealed, files, removed, live, applied, attempt, tried, lease, process, faults>>

Idle == [at |-> "idle", own |-> << >>, draft |-> 0, schema |-> "empty", candidate |-> {}]
NoAttempt == [digest |-> 0, done |-> 0]

\* The catalog of a database that has a schema and no history.
Installed(s) ==
  {[Physical(o, IF o.parent = "" THEN "" ELSE NameOf(s, "table", "", o.parent), s)
      EXCEPT !.ord = IF o.kind = "table" THEN Cardinality(ColumnsOf(s, o.id)) ELSE o.ord] : o \in s}

Init ==
  /\ sealed = << >> /\ files = {} /\ removed = {}
  /\ \E s \in Initial : live = Installed(Schema[s])
  /\ applied = << >> /\ attempt = NoAttempt /\ tried = FALSE
  /\ lease = NoOne /\ process = [p \in Process |-> Idle] /\ faults = 0

-----------------------------------------------------------------------------
(* Artifacts and the chain they form.                                      *)

\* An artifact holds the number of its program.
Executable(id, seq, parent, step, before, n) ==
  [format |-> "executable", id |-> id, seq |-> seq, parent |-> parent, step |-> step,
   before |-> before,
   after |-> PhysicalSnapshot(before, Schema[step[2]], Program[step][n].added),
   program |-> n]

Baseline(id, name, snapshot) ==
  [format |-> "baseline", id |-> id, seq |-> 0, parent |-> 0, step |-> <<name, name>>,
   before |-> snapshot, after |-> snapshot, program |-> 0]

Phases(d) == IF sealed[d].program = 0 THEN << >> ELSE Program[sealed[d].step][sealed[d].program].phases

AfterOf(d) == IF d = 0 THEN {} ELSE sealed[d].after

Tip(chain) == IF chain = << >> THEN 0 ELSE chain[Len(chain)]

\* The files in the order of their sequence, which has no gap and no fork.
Contiguous == {sealed[d].seq : d \in files} = 0 .. Cardinality(files) - 1

Chain == [i \in 1 .. Cardinality(files) |-> CHOOSE d \in files : sealed[d].seq = i - 1]

\* Mutant: the parents of the files are not compared.
LinkedBySnapshots(chain) ==
  \A i \in DOMAIN chain :
    LET d == sealed[chain[i]] IN
    /\ (i > 1 /\ d.format = "executable") => d.before = AfterOf(chain[i - 1])
    /\ \A j \in DOMAIN chain : sealed[chain[j]].id = d.id => i = j

Linked(chain) ==
  \A i \in DOMAIN chain :
    LET d == sealed[chain[i]]
        parent == IF i = 1 THEN 0 ELSE chain[i - 1]
    IN /\ d.parent = parent
       /\ (i > 1 /\ d.format = "executable") => d.before = AfterOf(parent)
       /\ \A j \in DOMAIN chain : sealed[chain[j]].id = d.id => i = j

ValidChain == Contiguous /\ Linked(Chain)

Open == attempt # NoAttempt

Set(p, state) == process' = [process EXCEPT ![p] = state]

Is(p, at) == process[p].at = at

-----------------------------------------------------------------------------
(* create: read the chain, plan and compile towards the configured schema,  *)
(* seal on top of the tip; then write the file, which must be a new name.  *)

Seal(artifact) == sealed' = Append(sealed, artifact)

FreshIds == {id \in Id : \A d \in files : sealed[d].id # id}

StepsFrom(tip) == {s \in Successors : s[1] = IF tip = 0 THEN "empty" ELSE sealed[tip].step[2]}

Create(p) ==
  /\ Is(p, "idle") /\ Len(sealed) < MaxArtifacts /\ ValidChain
  /\ LET tip == Tip(Chain) IN
     \E id \in FreshIds, step \in StepsFrom(tip) : \E n \in DOMAIN Program[step] :
       Seal(Executable(id, Len(Chain), tip, step, AfterOf(tip), n))
  /\ Set(p, [Idle EXCEPT !.at = "write", !.draft = Len(sealed) + 1])
  /\ UNCHANGED <<files, removed, live, applied, attempt, tried, lease, faults>>

\* The name of a file is made of sequence and id.
SameName(d, e) == sealed[d].seq = sealed[e].seq /\ sealed[d].id = sealed[e].id

\* Mutant: the file is opened without the flag that refuses an existing one.
WriteFileOver(p) ==
  /\ Is(p, "write")
  /\ files' = {f \in files : ~SameName(f, process[p].draft)} \cup {process[p].draft}
  /\ Set(p, Idle)
  /\ UNCHANGED <<sealed, removed, live, applied, attempt, tried, lease, faults>>

WriteFile(p) ==
  /\ Is(p, "write")
  /\ files' = IF \E f \in files : SameName(f, process[p].draft) THEN files
              ELSE files \cup {process[p].draft}
  /\ Set(p, Idle)
  /\ UNCHANGED <<sealed, removed, live, applied, attempt, tried, lease, faults>>

-----------------------------------------------------------------------------
(* apply: take a copy of the chain, wait for the lease, check the journal,  *)
(* then run what is pending phase by phase.                                *)

\* Every artifact must ask for locks the session has.
CapabilityPreflight(chain) ==
  \A i \in DOMAIN chain : \A k \in DOMAIN Phases(chain[i]) :
    Phases(chain[i])[k].lock = "exclusive"

Apply(p) ==
  /\ Is(p, "idle") /\ ValidChain /\ CapabilityPreflight(Chain)
  /\ Set(p, [Idle EXCEPT !.at = "lease", !.own = Chain])
  /\ UNCHANGED <<sealed, files, removed, live, applied, attempt, tried, lease, faults>>

\* bootstrap runs an artifact of its own, from nothing to the schema, that is
\* in no directory.
Bootstrap(p) ==
  /\ Is(p, "idle") /\ Len(sealed) < MaxArtifacts
  /\ \E step \in StepsFrom(0) : \E n \in DOMAIN Program[step] :
       Seal(Executable("schema-bootstrap", 0, 0, step, {}, n))
  /\ Set(p, [Idle EXCEPT !.at = "lease", !.own = <<Len(sealed) + 1>>])
  /\ UNCHANGED <<files, removed, live, applied, attempt, tried, lease, faults>>

\* Mutant: the journal is compared with the directory by its length.
PrefixByLength(chain) == Len(applied) <= Len(chain)

Prefix(chain) == Len(applied) <= Len(chain) /\ SubSeq(chain, 1, Len(applied)) = applied

CanRun(chain) ==
  /\ ~Open /\ Prefix(chain)
  /\ \A i \in (Len(applied) + 1) .. Len(chain) : sealed[chain[i]].format = "executable"

AcquireLease(p) ==
  /\ Is(p, "lease") /\ lease = NoOne
  /\ IF CanRun(process[p].own)
     THEN lease' = p /\ Set(p, [process[p] EXCEPT !.at = "next"])
     ELSE UNCHANGED lease /\ Set(p, Idle)
  /\ UNCHANGED <<sealed, files, removed, live, applied, attempt, tried, faults>>

Release(p) == lease' = NoOne /\ Set(p, Idle)

Pending(p) == process[p].own[Len(applied) + 1]

Finished(p) == Len(applied) = Len(process[p].own)

\* The next artifact starts when the database is what it was sealed against;
\* one without phases is recorded at once.
Starts(p) == ~Finished(p) /\ Matches(live, sealed[Pending(p)].before)

StopRun(p) ==
  /\ Is(p, "next") /\ ~Starts(p)
  /\ Release(p)
  /\ UNCHANGED <<sealed, files, removed, live, applied, attempt, tried, faults>>

NextArtifact(p) ==
  /\ Is(p, "next") /\ Starts(p)
  /\ IF Phases(Pending(p)) = << >>
     THEN applied' = Append(applied, Pending(p)) /\ UNCHANGED <<attempt, process>>
     ELSE /\ attempt' = [digest |-> Pending(p), done |-> 0]
          /\ Set(p, [process[p] EXCEPT !.at = "phase"])
          /\ UNCHANGED applied
  /\ tried' = TRUE
  /\ UNCHANGED <<sealed, files, removed, live, lease, faults>>

Running == sealed[attempt.digest]

CurrentPhase == Phases(attempt.digest)[attempt.done + 1]

\* Conditions are read under the snapshot the artifact starts from.
PhaseHolds ==
  /\ Readable(live, Running.before)
  /\ MeetsConditions(CurrentPhase, Running.before, ReadSnapshot(live, Running.before))

PhaseRuns == PhaseHolds /\ RunAll(live, CurrentPhase.statements).ok

\* One phase is one transaction; the last also records the artifact.
RunPhase(p) ==
  /\ Is(p, "phase") /\ PhaseRuns
  /\ live' = RunAll(live, CurrentPhase.statements).live
  /\ IF attempt.done + 1 = Len(Phases(attempt.digest))
     THEN /\ applied' = Append(applied, attempt.digest)
          /\ attempt' = NoAttempt
          /\ Set(p, [process[p] EXCEPT !.at = "next"])
     ELSE /\ attempt' = [attempt EXCEPT !.done = @ + 1]
          /\ UNCHANGED <<applied, process>>
  /\ UNCHANGED <<sealed, files, removed, tried, lease, faults>>

\* A failure before anything was committed rolls the attempt back; after that
\* it needs recovery.
Catch(p) ==
  /\ attempt' = IF attempt.done = 0 THEN NoAttempt ELSE attempt
  /\ Release(p)
  /\ UNCHANGED <<sealed, files, removed, live, applied, tried>>

RefusePhase(p) == Is(p, "phase") /\ ~PhaseRuns /\ Catch(p) /\ UNCHANGED faults

Fault == faults < MaxFaults /\ faults' = faults + 1

FailPhase(p) == Is(p, "phase") /\ Fault /\ Catch(p)

-----------------------------------------------------------------------------
(* baseline: the author captures what the database has under the configured *)
(* schema and reviews it; recording it checks everything again.  The       *)
(* record is committed before the file is written.                         *)

Declared == SchemaName \ {"empty"}

EmptyHistory == applied = << >> /\ ~tried

\* The model adopts a database only where it has the configured schema, and
\* captures none that has a history: its record would be refused for ever.
Capture(p) ==
  /\ Is(p, "idle") /\ lease = NoOne /\ EmptyHistory
  /\ \E name \in Declared :
       /\ Matches(live, Schema[name])
       /\ Set(p, [Idle EXCEPT !.at = "review", !.schema = name, !.candidate = Schema[name]])
  /\ UNCHANGED <<sealed, files, removed, live, applied, attempt, tried, lease, faults>>

VerifyBaseline(p) ==
  /\ files = {} /\ EmptyHistory
  /\ Readable(live, Schema[process[p].schema])
  /\ ReadSnapshot(live, Schema[process[p].schema]) = process[p].candidate

RecordBaseline(p) ==
  /\ Is(p, "review") /\ lease = NoOne /\ Len(sealed) < MaxArtifacts
  /\ IF VerifyBaseline(p)
     THEN /\ \E id \in Id : Seal(Baseline(id, process[p].schema, process[p].candidate))
          /\ applied' = <<Len(sealed) + 1>> /\ tried' = TRUE
          /\ Set(p, [Idle EXCEPT !.at = "write", !.draft = Len(sealed) + 1])
     ELSE Set(p, Idle) /\ UNCHANGED <<sealed, applied, tried>>
  /\ UNCHANGED <<files, removed, live, attempt, lease, faults>>

Abandon(p) ==
  /\ Is(p, "review")
  /\ Set(p, Idle)
  /\ UNCHANGED <<sealed, files, removed, live, applied, attempt, tried, lease, faults>>

-----------------------------------------------------------------------------
(* Faults and what operators do about them.                                *)

\* Mutant: the lease survives the session of the process.
CrashHoldingLease(p) ==
  /\ ~Is(p, "idle") /\ ~Is(p, "review") /\ Fault
  /\ Set(p, Idle)
  /\ UNCHANGED <<sealed, files, removed, live, applied, attempt, tried, lease>>

\* A process that dies leaves its attempt open and its draft unwritten.
Crash(p) ==
  /\ ~Is(p, "idle") /\ ~Is(p, "review") /\ Fault
  /\ lease' = IF lease = p THEN NoOne ELSE lease
  /\ Set(p, Idle)
  /\ UNCHANGED <<sealed, files, removed, live, applied, attempt, tried>>

\* reconcile asks the application to verify the outcome, modelled as a reading
\* of the database; an attempt is recorded as applied only from its file.
\* Mutant: the outcome is taken on the operator's word.
ReconcileAppliedUnseen ==
  /\ Open /\ lease = NoOne /\ ValidChain
  /\ attempt.digest \in files
  /\ applied' = Append(applied, attempt.digest)
  /\ attempt' = NoAttempt
  /\ UNCHANGED <<sealed, files, removed, live, tried, lease, process, faults>>

ReconcileApplied ==
  /\ Open /\ lease = NoOne /\ ValidChain
  /\ attempt.digest \in files
  /\ Matches(live, Running.after)
  /\ applied' = Append(applied, attempt.digest)
  /\ attempt' = NoAttempt
  /\ UNCHANGED <<sealed, files, removed, live, tried, lease, process, faults>>

ReconcileRolledBack ==
  /\ Open /\ lease = NoOne /\ ValidChain
  /\ Matches(live, Running.before)
  /\ attempt' = NoAttempt
  /\ UNCHANGED <<sealed, files, removed, live, applied, tried, lease, process, faults>>

\* The operator finishes an interrupted program by hand, statement by statement.
RepairPhase ==
  /\ Open /\ lease = NoOne /\ ~Matches(live, Running.after)
  /\ attempt.done < Len(Phases(attempt.digest))
  /\ RunAll(live, CurrentPhase.statements).ok
  /\ live' = RunAll(live, CurrentPhase.statements).live
  /\ attempt' = [attempt EXCEPT !.done = @ + 1]
  /\ UNCHANGED <<sealed, files, removed, applied, tried, lease, process, faults>>

\* A directory that does not verify has too many files: one of them goes.
RemoveFile(d) ==
  /\ d \in files /\ ~ValidChain
  /\ files' = files \ {d} /\ removed' = removed \cup {d}
  /\ UNCHANGED <<sealed, live, applied, attempt, tried, lease, process, faults>>

-----------------------------------------------------------------------------
CreateOrRecord(p) ==
  Create(p) \/ Bootstrap(p) \/ Capture(p) \/ RecordBaseline(p) \/ Abandon(p) \/ WriteFile(p)

RunPending(p) ==
  \/ Apply(p) \/ AcquireLease(p) \/ NextArtifact(p) \/ StopRun(p)
  \/ RunPhase(p) \/ RefusePhase(p)

Operator ==
  \/ ReconcileApplied \/ ReconcileRolledBack \/ RepairPhase
  \/ \E d \in files : RemoveFile(d)

Next ==
  \/ \E p \in Process : CreateOrRecord(p) \/ RunPending(p) \/ FailPhase(p) \/ Crash(p)
  \/ Operator

Spec == Init /\ [][Next]_vars
-----------------------------------------------------------------------------
(* Invariants.                                                              *)

\* Only a process between taking the lease and giving it back holds it, a phase
\* runs under an open attempt, what is open or recorded was sealed, and a draft
\* is in no file yet.
Control ==
  /\ \A p \in Process :
       /\ process[p].at \in {"next", "phase"} <=> lease = p
       /\ Is(p, "phase") => Open
       /\ Is(p, "write") => process[p].draft \in DOMAIN sealed \ (files \cup removed)
  /\ Open => attempt.digest \in DOMAIN sealed /\ tried
  /\ files \cup removed \cup {applied[i] : i \in DOMAIN applied} \subseteq DOMAIN sealed
  /\ files \cap removed = {}

\* The journal is one chain: every record names the one before it as its
\* parent, has the next sequence, starts from the snapshot the one before it
\* ended with, and only the first may be a baseline.  Create, the chain check,
\* the journal's prefix check and baseline keep it together (cli.ts,
\* repository/index.ts, executor/index.ts, baseline/index.ts).
HistoryChains ==
  \A i \in DOMAIN applied :
    LET d == sealed[applied[i]]
        parent == IF i = 1 THEN 0 ELSE applied[i - 1]
    IN /\ d.seq = i - 1 /\ d.parent = parent
       /\ d.format = "executable" /\ i > 1 => d.before = AfterOf(parent)
       /\ d.format = "baseline" => i = 1

\* What a process runs extends the journal and not only its copy of the
\* directory, whatever other processes wrote, removed or applied since it made
\* the copy: an artifact of a fork that lost never starts (executor/index.ts).
RunFollowsJournal ==
  \A p \in Process : process[p].at \in {"next", "phase"} =>
    /\ Prefix(process[p].own)
    /\ Is(p, "phase") => /\ attempt.digest = Pending(p)
                         /\ Running.parent = Tip(applied)

\* A migration is recorded only after its file was written, and no file is
\* replaced: a record without a file is a bootstrap's or a baseline's, which
\* records first, and nothing is ever recorded on top of it
\* (cli/src/repository.ts, cli.ts).
Written(d) == d \in files \cup removed

RecordsHaveFiles ==
  \A i \in DOMAIN applied :
    \/ Written(applied[i])
    \/ /\ i = Len(applied) /\ i = 1
       /\ sealed[applied[i]].format = "baseline" \/ sealed[applied[i]].id = "schema-bootstrap"

\* A table lost its newest column, and a later artifact adds one to it.
Highest(s, t) == Max({0} \cup {c.ord : c \in {b \in Of(s, "column") : b.parent = t}})

AddedBehindGap ==
  \E i, j \in DOMAIN applied : \E t \in Tables(AfterOf(applied[i])) :
    /\ i < j
    /\ Highest(sealed[applied[i]].before, t.id) > Highest(AfterOf(applied[i]), t.id)
    /\ \E c \in Of(AfterOf(applied[j]), "column") :
         c.parent = t.id /\ Matching(sealed[applied[j]].before, c) = {}

\* With nothing running or open, the database reads back as the snapshot the
\* last applied artifact was sealed with, so that status reports no drift and
\* the next artifact can start.
HeadMatchesLive ==
  (lease = NoOne /\ ~Open /\ applied # << >>) => Matches(live, AfterOf(Tip(applied)))

\* The same but where an artifact adds a column to a table whose newest column
\* an earlier one dropped: there the sealed ordinals are not the server's.
HeadIsLive == HeadMatchesLive \/ AddedBehindGap

\* A plan whose order is safe whatever the ids of its operations: one operation
\* alone, or tables, columns and enums that come and go, with the indexes of
\* columns that stay, and with no name used twice.
Ops(d) == UNION {Phases(d)[k].members : k \in DOMAIN Phases(d)}

WholeTable(op, ops) ==
  \E t \in ops : /\ Subject(t).kind = "table" /\ t.type = op.type
                 /\ op = t \/ Inside(op, t)

OverOthers(op, ops) ==
  /\ Subject(op).kind = "index"
  /\ \A c \in ops : Subject(c).parent = Subject(op).parent => Subject(c).id \notin Subject(op).over

Orderly(ops) ==
  \/ \A op \in ops : ops = {op} /\ ~(op.type = "rename" /\ Carries(op))
  \/ /\ \A op \in ops : /\ op.type \in {"add", "remove"}
                         /\ \/ WholeTable(op, ops)
                            \/ OverOthers(op, ops)
                            \/ Subject(op).kind = "column"
                            \/ op.type = "add" /\ op.after.kind = "enum"
     /\ \A x, y \in ops : x.type = "remove" /\ y.type = "add" => x.before.name # y.after.name

\* Tables of a name the rest of the program creates: the adapter reads only the
\* tables a snapshot names, so nothing before the statement notices them.
Obstructed ==
  \E k \in (attempt.done + 1) .. Len(Phases(attempt.digest)) :
    LET op == Phases(attempt.digest)[k].op IN
    op.type = "add" /\ op.after.kind = "table" /\ Has(live, "table", "", op.after.name)

\* Whatever order the planner picks, the program of such a plan runs: no
\* statement names what is not there yet or what something else still needs,
\* and no precondition fails because of an earlier phase of the same program
\* (plan.ts, program.ts, emitter.ts).  Only a fault, or a table nobody declared,
\* stops it half-way.
CompiledRuns ==
  \A p \in Process :
    Is(p, "phase") /\ Orderly(Ops(attempt.digest)) => PhaseRuns \/ Obstructed

\* No new table has the name of one that leaves, and no column leaves a table that
\* is renamed: a plan may drop and create in any order, and names a renamed table
\* by its new name before it has it.
KeepsNames(before, after) ==
  /\ \A x \in Tables(before) : Matching(after, x) = {} =>
       \A y \in Tables(after) : y.name # x.name
  /\ \A c \in Of(before, "column"), x \in Tables(before) :
       Matching(after, c) = {} /\ x.id = c.parent =>
         \A y \in Matching(after, x) : y.name = x.name

NamesStay == \A step \in Successors : KeepsNames(Schema[step[1]], Schema[step[2]])

\* A column is lost only to the phase that removes this very column, because
\* the schema the artifact leads to no longer has it: not to a rename, to the
\* removal of something else or to what an interrupted program left behind
\* (diff.ts, program.ts, emitter.ts).
Vanishes(c) ==
  ~\E d \in Of(live', "column") : d.ord = c.ord /\ (d.name = c.name \/ d.parent = c.parent)

Removes(op, c) ==
  /\ op.type = "remove" /\ op.before.kind = "column" /\ op.before.name = c.name
  /\ \E t \in Tables(Running.before) : t.id = op.before.parent /\ t.name = c.parent
  /\ ~\E o \in Of(Running.after, "column") : o.parent = op.before.parent /\ o.id = op.before.id

DataLossIsDeclared ==
  [][\A c \in Of(live, "column") : Vanishes(c) =>
       Open /\ \E op \in CurrentPhase.members : Removes(op, c)]_vars
=============================================================================
