-------------------------- MODULE MigrationJournal --------------------------
(***************************************************************************)
(* The migration journal kept in the migrated database:                    *)
(* packages/migrate/src/journal/index.ts and its SQL implementation in     *)
(* adapters/pg/src/migration-support.ts.                                   *)
(*                                                                         *)
(* A journal is a value, not a variable: a session inside a transaction    *)
(* works on a copy of it that its commit publishes.  Each operation of     *)
(* MigrationJournal is an operator from a journal to a journal beside a    *)
(* predicate that says when the code performs it instead of throwing.      *)
(*                                                                         *)
(* An artifact stands for its digest, so artifactId and artifactDigest are *)
(* one value; Parent is parentArtifactDigest, which the digest seals.      *)
(* sequence is the position in the history, which the parent chain fixes.  *)
(***************************************************************************)
EXTENDS Naturals, Sequences

CONSTANTS
  Artifact,    \* the sealed migration artifacts
  Null,        \* no artifact: the head of an empty history
  Parent,      \* parentArtifactDigest of each artifact
  AttemptId    \* identities an attempt may get

ASSUME ArtifactAssumption ==
  /\ Null \notin Artifact
  /\ Parent \in [Artifact -> Artifact \cup {Null}]

Digest == Artifact \cup {Null}

-----------------------------------------------------------------------------
(* The attempt state machine. *)

Terminal == {"applied", "rolled_back"}
Unresolved == {"started", "running", "recovery_required"}
AttemptState == Terminal \cup Unresolved

\* "none" is an identity no attempt has used yet: no row in the table.
NoAttempt == [artifact |-> Null, expectedHead |-> Null, state |-> "none"]

Attempt ==
  [artifact : Artifact, expectedHead : Digest, state : AttemptState] \cup {NoAttempt}

\* Mutant: a failure reported after the outcome reopens an applied attempt.
ReopeningTransitions ==
  [ none              |-> {},
    started           |-> {"running", "rolled_back", "recovery_required"},
    running           |-> {"applied", "rolled_back", "recovery_required"},
    recovery_required |-> {"applied", "rolled_back"},
    applied           |-> {"recovery_required"},
    rolled_back       |-> {} ]

\* canTransitionAttempt
transitions ==
  [ none              |-> {},
    started           |-> {"running", "rolled_back", "recovery_required"},
    running           |-> {"applied", "rolled_back", "recovery_required"},
    recovery_required |-> {"applied", "rolled_back"},
    applied           |-> {},
    rolled_back       |-> {} ]

-----------------------------------------------------------------------------
(* The journal and its operations. *)

AppliedRecord == [artifact : Artifact, attempt : AttemptId]

Journal ==
  [ head       : Digest,
    applied    : Seq(AppliedRecord),
    attempts   : [AttemptId -> Attempt],
    reconciled : [AttemptId -> Terminal \cup {"none"}] ]

EmptyJournal ==
  [ head       |-> Null,
    applied    |-> << >>,
    attempts   |-> [k \in AttemptId |-> NoAttempt],
    reconciled |-> [k \in AttemptId |-> "none"] ]

StateOf(j, k) == j.attempts[k].state

OpenAttempts(j) == {k \in AttemptId : StateOf(j, k) \in Unresolved}

Recorded(j) == {j.applied[n].artifact : n \in 1..Len(j.applied)}

RecordedBy(j) == {j.applied[n].attempt : n \in 1..Len(j.applied)}

LastOf(history) ==
  IF history = << >> THEN Null ELSE history[Len(history)].artifact

\* createAttempt: the primary key rejects an identity already used.
CanCreate(j, k) == StateOf(j, k) = "none"

CreateAttempt(j, k, a, expected) ==
  [j EXCEPT !.attempts[k] =
     [artifact |-> a, expectedHead |-> expected, state |-> "started"]]

\* transitionAttempt throws unless the state machine has the edge.
CanTransition(j, k, s) == s \in transitions[StateOf(j, k)]

TransitionAttempt(j, k, s) == [j EXCEPT !.attempts[k].state = s]

\* The head is still the one the caller read and the record extends it.
HeadUnchanged(j, a, expected) == j.head = expected /\ Parent[a] = expected

\* The unique columns of the applied table.
NotYetRecorded(j, a, k) == a \notin Recorded(j) /\ k \notin RecordedBy(j)

CanAppend(j, a, k, expected) ==
  HeadUnchanged(j, a, expected) /\ NotYetRecorded(j, a, k)

\* Mutant: the record is inserted, the head is left where it was.
AppendAppliedOnly(j, a, k) ==
  [j EXCEPT !.applied = Append(@, [artifact |-> a, attempt |-> k])]

\* appendAppliedAndAdvanceHead: history and head move in one transaction.
AppendAppliedAndAdvanceHead(j, a, k) ==
  [j EXCEPT !.applied = Append(@, [artifact |-> a, attempt |-> k]), !.head = a]

\* recordReconciliation: attempt_id is the primary key of the audit table.
RecordReconciliation(j, k, outcome) == [j EXCEPT !.reconciled[k] = outcome]

-----------------------------------------------------------------------------
(* validateJournalState: what a run demands of the journal before it acts. *)

HeadMatches(j) == j.head = LastOf(j.applied)

LinearHistory(j) ==
  \A n \in 1..Len(j.applied) :
    Parent[j.applied[n].artifact] =
      IF n = 1 THEN Null ELSE j.applied[n - 1].artifact

UniqueRecords(j) ==
  \A m, n \in 1..Len(j.applied) :
    j.applied[m].artifact = j.applied[n].artifact => m = n

\* The history is a chain that ends at the head, without repetition.
Chained(j) == HeadMatches(j) /\ LinearHistory(j) /\ UniqueRecords(j)

AppliedAttemptsRecorded(j) ==
  \A k \in AttemptId : StateOf(j, k) = "applied" => k \in RecordedBy(j)

RecordsMatchAttempts(j) ==
  \A n \in 1..Len(j.applied) :
    LET attempt == j.attempts[j.applied[n].attempt]
    IN  attempt.state = "applied" /\ attempt.artifact = j.applied[n].artifact

\* Mutant: no recovery gate.
ValidateHistoryOnly(j) == Chained(j)

ValidateJournalState(j) ==
  /\ Chained(j)
  /\ AppliedAttemptsRecorded(j)
  /\ RecordsMatchAttempts(j)
  /\ OpenAttempts(j) = {}
=============================================================================
