----------------------- MODULE MigrationRollbackProofs ----------------------
(***************************************************************************)
(* What rolled_back stands for, for every instance: where every attempt at *)
(* an artifact was rolled back, none of its effects is in the schema and   *)
(* none of its records in the history (UniformRolledBackIsAbsent).         *)
(*                                                                         *)
(* The executor concludes it from four local flags, in a catch that knows  *)
(* neither the schema nor what became of the calls that were not answered. *)
(* The invariants are Telling, what the flags are at each await, and       *)
(* Definiteness, what they say about the committed database: as long as a  *)
(* run may still conclude that its attempt was rolled back, the artifact   *)
(* is absent there.                                                        *)
(***************************************************************************)
EXTENDS MigrationHistoryProofs

-----------------------------------------------------------------------------
(* The invariant. *)

\* The database d has neither an effect nor a record of artifact a.
Absent(a, d) == Effects(a) \cap d.schema = {} /\ a \notin Recorded(d.journal)

\* The awaits of a run that has made an attempt and not yet concluded it.
Underway(l) ==
  l.pc \in {"start", "lock", "begin", "unlock", "rollback", "conclude"} \cup InPhase

\* The flags of a run, as far as its catch relies on them.
FlagsTell(l) ==
  /\ l.pc \in {"lease", "read", "select", "create", "start"} =>
       ~l.effect /\ ~l.rolledBack /\ ~l.locked
  /\ l.pc \in {"lock", "begin", "unlock", "rollback"} \cup InPhase => ~l.rolledBack
  /\ l.pc = "rollback" => l.active
  /\ Underway(l) /\ Enclosed(ArtifactOf(l)) =>
       /\ l.pc \in InPhase => l.active
       /\ l.pc = "unlock" /\ l.error = "none" => l.committed
       /\ l.pc \in {"lock", "begin"} /\ l.effect => l.committed
  /\ Underway(l) /\ Unenclosed(ArtifactOf(l)) =>
       /\ l.pc \notin {"lock", "begin", "commit", "unlock", "rollback"}
       /\ ~l.active /\ ~l.locked /\ ~l.rolledBack

Telling == \A p \in Proc : FlagsTell(run[p])

\* What keeps the catch from calling an attempt rolled back, now or later.
Marred(l) ==
  \/ l.committed
  \/ l.effect /\ ~l.active /\ ~l.rolledBack
  \/ l.pc = "conclude" /\ l.error = "uncertain"

\* What a run whose transaction is t has made of the committed database d.
Answerable(l, t, d) ==
  /\ Underway(l) => d.journal.attempts[l.attempt].artifact = ArtifactOf(l)
  /\ Underway(l) /\ UniformProgram(ArtifactOf(l)) =>
       \/ Marred(l)
       \/ Absent(ArtifactOf(l), d)
       \/ StateOf(d.journal, l.attempt) = "applied"
  /\ t # NoTxn /\ l.pc \in InPhase =>
       t.schema \subseteq
         IF l.effect THEN d.schema \cup Effects(ArtifactOf(l)) ELSE d.schema
  /\ l.pc \in {"require", "history", "audit", "resolve"} /\ l.outcome = "rolled_back" =>
       /\ Effects(d.journal.attempts[l.attempt].artifact) \cap d.schema = {}
       /\ l.pc \in {"audit", "resolve"} => l.attempt \notin RecordedBy(d.journal)

Definiteness ==
  /\ \A a \in Artifact : UniformProgram(a) /\ OnlyRolledBack(a) => Absent(a, db)
  /\ \A p \in Proc : UnderLease(p) => Answerable(run[p], txn[p], db)

-----------------------------------------------------------------------------
(* The local variables of a run: what the helpers keep. *)

\* m is l at another await of the same attempt.
Keeps(l, m) ==
  /\ m.repo = l.repo /\ m.n = l.n /\ m.attempt = l.attempt
  /\ m.effect = l.effect /\ m.committed = l.committed /\ m.rolledBack = l.rolledBack

SameHold(l, m) == m.active = l.active /\ m.locked = l.locked /\ m.error = l.error

LEMMA KeepsArtifact ==
  ASSUME NEW l, NEW m, Keeps(l, m)
  PROVE  ArtifactOf(m) = ArtifactOf(l) /\ Phases(m) = Phases(l)
BY DEF Keeps, ArtifactOf, Phases

\* A phase is entered by the await its transaction mode asks for.
LEMMA EnterKeeps ==
  ASSUME NEW l \in Run, InArtifact(l), l.ph >= 1
  PROVE  LET m == EnterPhase(l)
         IN  /\ Keeps(l, m) /\ SameHold(l, m)
             /\ m.pc \in {"record", "lock", "begin", "check"}
             /\ Enclosed(ArtifactOf(l)) /\ l.ph <= Len(Phases(l)) => m.pc \in {"lock", "begin"}
             /\ Unenclosed(ArtifactOf(l)) => m.pc \in {"record", "check"}
<1> DEFINE m == EnterPhase(l)
<1>1. /\ Keeps(l, m) /\ SameHold(l, m) /\ m.pc \in {"record", "lock", "begin", "check"}
      /\ m.pc = "record" <=> l.ph > Len(Phases(l))
      /\ m.pc = "lock" => PhaseOf(l).lock
      /\ m.pc = "begin" => UseTransaction(PhaseOf(l))
      /\ m.pc = "check" => ~UseTransaction(PhaseOf(l))
  BY DEF EnterPhase, Run, Keeps, SameHold
<1>2. Len(Phases(l)) \in Nat /\ l.ph \in Nat /\ Phases(l) = Program[ArtifactOf(l)]
  BY PhasesType DEF InArtifact, Run, Phases
<1>3. m.pc # "record" => l.ph \in 1..Len(Phases(l))
  BY <1>1, <1>2
<1>4. Enclosed(ArtifactOf(l)) /\ l.ph <= Len(Phases(l)) => m.pc \in {"lock", "begin"}
  BY <1>1, <1>2, <1>3 DEF Enclosed, PhaseOf
<1>5. Unenclosed(ArtifactOf(l)) => m.pc \in {"record", "check"}
  BY <1>1, <1>2, <1>3 DEF Unenclosed, PhaseOf
<1> QED
  BY <1>1, <1>4, <1>5

\* Behind a phase: the catch, the next phase, or a new start.
LEMMA AfterFinallyKeeps ==
  ASSUME NEW l, InArtifact(l)
  PROVE  LET m == AfterFinally(l)
         IN  \/ /\ Keeps(l, m) /\ SameHold(l, m) /\ l.error # "none"
                /\ m.pc = IF l.active THEN "rollback" ELSE "conclude"
             \/ /\ Keeps(l, m) /\ SameHold(l, m) /\ l.error = "none"
                /\ m.pc \in {"record", "lock", "begin", "check"}
                /\ Enclosed(ArtifactOf(l)) => m.pc \in {"lock", "begin"}
                /\ Unenclosed(ArtifactOf(l)) => m.pc \in {"record", "check"}
             \/ /\ l.error = "none" /\ m.pc = "select"
                /\ ~m.effect /\ ~m.rolledBack /\ ~m.locked /\ ~m.active
<1> DEFINE m == AfterFinally(l)
<1>1. l \in Run /\ l.ph \in Nat /\ Len(Phases(l)) \in Nat
  BY PhasesType DEF InArtifact, Run
<1>2. CASE l.error # "none"
  BY <1>1, <1>2 DEF AfterFinally, Catch, Run, Keeps, SameHold
<1>3. CASE l.error = "none" /\ l.ph < Len(Phases(l))
  <2> DEFINE k == [l EXCEPT !.ph = @ + 1, !.st = 1]
  <2>1. l.ph + 1 \in Nat /\ l.ph + 1 >= 1 /\ l.ph + 1 <= Len(Phases(l))
    BY <1>1, <1>3
  <2>2. k \in Run /\ k.ph = l.ph + 1 /\ Keeps(l, k) /\ SameHold(l, k) /\ k.leased = l.leased
    BY <1>1, <2>1 DEF Run, Keeps, SameHold
  <2>3. m = EnterPhase(k)
    BY <1>3 DEF AfterFinally
  <2> HIDE DEF k, m
  <2>4. InArtifact(k) /\ ArtifactOf(k) = ArtifactOf(l) /\ Phases(k) = Phases(l)
    BY <2>2, KeepsArtifact DEF InArtifact, Keeps
  <2>5. /\ Keeps(k, m) /\ SameHold(k, m) /\ m.pc \in {"record", "lock", "begin", "check"}
        /\ Enclosed(ArtifactOf(l)) => m.pc \in {"lock", "begin"}
        /\ Unenclosed(ArtifactOf(l)) => m.pc \in {"record", "check"}
    BY <2>1, <2>2, <2>3, <2>4, EnterKeeps
  <2>6. Keeps(l, m) /\ SameHold(l, m)
    BY <2>2, <2>5 DEF Keeps, SameHold
  <2> QED
    BY <1>3, <2>5, <2>6 DEF m
<1>4. CASE l.error = "none" /\ ~(l.ph < Len(Phases(l)))
  BY <1>4 DEF AfterFinally, NextArtifact, Idle
<1> QED
  BY <1>2, <1>3, <1>4

LEMMA FinallyKeeps ==
  ASSUME NEW l, InArtifact(l)
  PROVE  LET m == Finally(l)
         IN  \/ ~l.locked /\ m = AfterFinally(l)
             \/ Keeps(l, m) /\ SameHold(l, m) /\ l.locked /\ m.pc = "unlock"
BY DEF Finally, InArtifact, Run, Keeps, SameHold

\* An exception keeps what the run has been through.
LEMMA ThrowKeeps ==
  ASSUME NEW l, InArtifact(l), Underway(l), NEW e \in {"failed", "uncertain"}
  PROVE  LET m == Throw(l, e)
         IN  /\ Keeps(l, m)
             /\ m.locked => l.locked
             /\ m.active # l.active => l.pc = "commit" /\ ~m.active
             /\ l.pc # "conclude" => m.error = e
             /\ m.pc \in {"release", "conclude", "rollback", "unlock"}
             /\ m.pc = "rollback" => m.active
             /\ m.pc = "unlock" => l.locked
             /\ m.pc \in {"rollback", "unlock"} =>
                  l.pc \in {"lock", "begin", "unlock"} \cup InPhase
<1> DEFINE f == [l EXCEPT !.error = e]
           m == Throw(l, e)
<1>1. /\ l \in Run /\ f \in Run /\ InArtifact(f) /\ Keeps(l, f) /\ f.pc = l.pc
      /\ f.active = l.active /\ f.locked = l.locked /\ f.error = e /\ e # "none"
  BY DEF InArtifact, Run, Keeps
\* Where a phase, or the await behind it, is left with the error of k.
<1>2. ASSUME NEW k, InArtifact(k), Keeps(l, k), k.error = e
      PROVE  LET c == Catch(k)
                 t == AfterFinally(k)
                 u == Finally(k)
             IN  /\ c = t
                 /\ Keeps(l, c) /\ SameHold(k, c)
                 /\ c.pc = IF k.active THEN "rollback" ELSE "conclude"
                 /\ Keeps(l, u) /\ SameHold(k, u)
                 /\ \/ k.locked /\ u.pc = "unlock"
                    \/ u.pc = IF k.active THEN "rollback" ELSE "conclude"
  <2>1. /\ AfterFinally(k) = Catch(k) /\ Keeps(k, AfterFinally(k))
        /\ SameHold(k, AfterFinally(k))
        /\ AfterFinally(k).pc = IF k.active THEN "rollback" ELSE "conclude"
    BY <1>1, <1>2, AfterFinallyKeeps DEF AfterFinally
  <2>2. /\ Keeps(k, Finally(k)) /\ SameHold(k, Finally(k))
        /\ \/ k.locked /\ Finally(k).pc = "unlock"
           \/ Finally(k).pc = IF k.active THEN "rollback" ELSE "conclude"
    BY <1>2, <2>1, FinallyKeeps
  <2> QED
    BY <1>2, <2>1, <2>2 DEF Keeps
<1> HIDE DEF f
<1>3. CASE l.pc \in {"start", "rollback"}
  <2>1. \E pc \in {"release", "conclude"} :
          m = [f EXCEPT !.pc = pc] /\ (pc = "release" => l.pc = "start")
    BY <1>3 DEF Throw, f, ReconcileStep
  <2> QED
    BY <1>1, <1>3, <2>1 DEF Run, Keeps
<1>4. CASE l.pc \in {"lock", "begin"}
  <2>1. m = Catch(f)
    BY <1>4 DEF Throw, f, ReconcileStep
  <2> QED
    BY <1>1, <1>2, <1>4, <2>1 DEF SameHold
<1>5. CASE l.pc \in {"check", "execute", "mark", "postcheck", "record", "applied"}
  <2>1. m = Finally(f)
    BY <1>5 DEF Throw, f, ReconcileStep
  <2> QED
    BY <1>1, <1>2, <1>5, <2>1 DEF SameHold, InPhase
<1>6. CASE l.pc = "commit"
  <2> DEFINE k == [f EXCEPT !.active = FALSE]
  <2>1. m = Finally(k)
    BY <1>6 DEF Throw, f, ReconcileStep
  <2>2. /\ InArtifact(k) /\ Keeps(l, k) /\ k.error = e /\ ~k.active
        /\ k.locked = l.locked
    BY <1>1 DEF Run, Keeps, InArtifact
  <2> HIDE DEF k
  <2> QED
    BY <1>2, <1>6, <2>1, <2>2 DEF SameHold, InPhase
<1>7. CASE l.pc = "unlock"
  <2>1. m = AfterFinally(f)
    BY <1>7 DEF Throw, f, ReconcileStep
  <2> QED
    BY <1>1, <1>2, <1>7, <2>1 DEF SameHold
<1>8. CASE l.pc = "conclude"
  <2>1. m = [l EXCEPT !.pc = "release"]
    BY <1>8 DEF Throw, ReconcileStep
  <2> QED
    BY <1>1, <1>8, <2>1 DEF Run, Keeps
<1> QED
  BY <1>3, <1>4, <1>5, <1>6, <1>7, <1>8 DEF Underway, InPhase

\* So its flags still tell.
LEMMA ThrowTells ==
  ASSUME NEW l \in Run, LocalOK(l), FlagsTell(l), l.pc \notin {"idle", "close"},
         NEW e \in {"failed", "uncertain"}
  PROVE  FlagsTell(Throw(l, e))
<1> DEFINE m == Throw(l, e)
<1>1. CASE Underway(l)
  <2>1. InArtifact(l)
    BY <1>1, LocalInArtifact DEF Underway, InPhase, ExecutorStep
  <2>3. /\ m.active # l.active => l.pc = "commit" /\ ~m.active
        /\ m.pc \in {"release", "conclude", "rollback", "unlock"}
        /\ m.pc = "rollback" => m.active
        /\ m.pc = "unlock" => l.locked
        /\ m.pc \in {"rollback", "unlock"} =>
             l.pc \in {"lock", "begin", "unlock"} \cup InPhase
        /\ l.pc # "conclude" => m.error # "none"
        /\ Keeps(l, m) /\ (m.locked => l.locked)
    BY <1>1, <2>1, ThrowKeeps
  <2> HIDE DEF m
  <2>4. ArtifactOf(m) = ArtifactOf(l)
    BY <2>3, KeepsArtifact
  <2>5. Unenclosed(ArtifactOf(l)) => ~l.active /\ ~l.locked /\ ~l.rolledBack
    BY <1>1 DEF FlagsTell
  <2>6. m.pc \in {"rollback", "unlock"} => ~l.rolledBack
    BY <2>3 DEF FlagsTell
  <2>7. m.pc \notin InPhase
    BY <2>3 DEF InPhase
  <2>8. m.pc = "unlock" => m.error # "none"
    BY <2>3 DEF InPhase
  <2>9. Unenclosed(ArtifactOf(m)) =>
          m.pc \notin {"rollback", "unlock"} /\ ~m.active /\ ~m.locked /\ ~m.rolledBack
    BY <2>3, <2>4, <2>5 DEF Keeps
  <2>10. m.pc \in {"rollback", "unlock"} => ~m.rolledBack
    BY <2>3, <2>6 DEF Keeps
  <2> QED
    BY <2>3, <2>7, <2>8, <2>9, <2>10 DEF FlagsTell, m
<1>2. CASE ~Underway(l)
  <2>1. l.pc \in {"lease", "read", "select", "create", "release"} \cup ReconcileStep
    BY <1>2 DEF Underway, InPhase, Run, Step, ExecutorStep
  <2>2. m.pc \in {"close", "release"}
    BY <2>1 DEF Throw, Run, ReconcileStep
  <2> QED
    BY <2>2 DEF FlagsTell, Underway, InPhase
<1> QED
  BY <1>1, <1>2

\* A run at one of these awaits has nothing to tell.
LEMMA NothingToTell ==
  ASSUME NEW l,
         \/ l.pc \in {"idle", "release", "close"} \cup ReconcileStep
         \/ /\ l.pc \in {"lease", "read", "select", "create"}
            /\ ~l.effect /\ ~l.rolledBack /\ ~l.locked
  PROVE  FlagsTell(l)
BY DEF FlagsTell, Underway, InPhase, ReconcileStep

\* They do behind a phase, if a transaction around it has been committed.
LEMMA FinallyTells ==
  ASSUME NEW l, InArtifact(l), ~l.rolledBack,
         Enclosed(ArtifactOf(l)) /\ l.error = "none" => l.committed,
         Unenclosed(ArtifactOf(l)) => ~l.active /\ ~l.locked
  PROVE  FlagsTell(AfterFinally(l)) /\ FlagsTell(Finally(l))
<1>1. FlagsTell(AfterFinally(l))
  <2> DEFINE m == AfterFinally(l)
  <2>1. \/ /\ Keeps(l, m) /\ SameHold(l, m) /\ l.error # "none"
           /\ m.pc = IF l.active THEN "rollback" ELSE "conclude"
        \/ /\ Keeps(l, m) /\ SameHold(l, m) /\ l.error = "none"
           /\ m.pc \in {"record", "lock", "begin", "check"}
           /\ Enclosed(ArtifactOf(l)) => m.pc \in {"lock", "begin"}
           /\ Unenclosed(ArtifactOf(l)) => m.pc \in {"record", "check"}
        \/ /\ l.error = "none" /\ m.pc = "select"
           /\ ~m.effect /\ ~m.rolledBack /\ ~m.locked /\ ~m.active
    BY AfterFinallyKeeps
  <2> HIDE DEF m
  <2>2. FlagsTell(m)
    <3>1. CASE m.pc = "select" /\ ~m.effect /\ ~m.rolledBack /\ ~m.locked
      BY <3>1, NothingToTell
    <3>2. CASE /\ Keeps(l, m) /\ SameHold(l, m) /\ l.error # "none"
               /\ m.pc = IF l.active THEN "rollback" ELSE "conclude"
      BY <3>2, KeepsArtifact DEF FlagsTell, Keeps, SameHold, InPhase
    <3>3. CASE /\ Keeps(l, m) /\ SameHold(l, m) /\ l.error = "none"
               /\ m.pc \in {"record", "lock", "begin", "check"}
               /\ Enclosed(ArtifactOf(l)) => m.pc \in {"lock", "begin"}
               /\ Unenclosed(ArtifactOf(l)) => m.pc \in {"record", "check"}
      BY <3>3, KeepsArtifact DEF FlagsTell, Keeps, SameHold, InPhase
    <3> QED
      BY <2>1, <3>1, <3>2, <3>3
  <2> QED
    BY <2>2 DEF m
<1>2. CASE Keeps(l, Finally(l)) /\ SameHold(l, Finally(l)) /\ l.locked
           /\ Finally(l).pc = "unlock"
  <2> DEFINE m == Finally(l)
  <2> HIDE DEF m
  <2>1. FlagsTell(m)
    BY <1>2, KeepsArtifact DEF m, FlagsTell, Keeps, SameHold, InPhase
  <2> QED
    BY <1>1, <2>1 DEF m
<1> QED
  BY <1>1, <1>2, FinallyKeeps

\* They do from one await of a phase to the next.
LEMMA PhaseTells ==
  ASSUME NEW l, FlagsTell(l), l.pc \in InPhase, NEW m, m.pc \in InPhase,
         m.repo = l.repo, m.n = l.n, m.rolledBack = l.rolledBack,
         m.active = l.active, m.locked = l.locked, m.pc = "commit" => l.active
  PROVE  FlagsTell(m)
<1>1. ArtifactOf(m) = ArtifactOf(l) /\ Underway(l) /\ ~l.rolledBack
  BY DEF ArtifactOf, Underway, FlagsTell
<1>2. Enclosed(ArtifactOf(l)) => l.active
  BY <1>1 DEF FlagsTell
<1>3. Unenclosed(ArtifactOf(l)) => ~l.active /\ ~l.locked
  BY <1>1 DEF FlagsTell
<1>4. m.pc \in InPhase \ {"commit"} \/ l.active
  OBVIOUS
<1> QED
  BY <1>1, <1>2, <1>3, <1>4 DEF FlagsTell, InPhase

-----------------------------------------------------------------------------
(* The local variables of a run: what the steps keep. *)

Tells(p) == FlagsTell(run'[p])

LEMMA ThrownTells ==
  ASSUME Sound, Telling, NEW p \in Proc, run[p].pc \notin {"idle", "close"},
         NEW e \in {"failed", "uncertain"}, run' = [run EXCEPT ![p] = Throw(run[p], e)]
  PROVE  Tells(p)
BY ThrowTells DEF Tells, Sound, TypeOK, Telling

LEMMA AnswerTells ==
  ASSUME Sound, Telling, NEW p \in Proc, run[p].pc \notin {"idle", "close"},
         NEW l, FlagsTell(l), Answer(p, l) \/ Proceed(p, l)
  PROVE  Tells(p)
<1>1. CASE run' = [run EXCEPT ![p] = l]
  BY <1>1 DEF Tells, Sound, TypeOK
<1>2. CASE run' = [run EXCEPT ![p] = Throw(run[p], Unanswered(run[p]))]
  BY <1>2, ThrownTells DEF Unanswered
<1> QED
  BY <1>1, <1>2 DEF Answer, Proceed

LEMMA RejectTells ==
  ASSUME Sound, Telling, NEW p \in Proc, run[p].pc \notin {"idle", "close"},
         Reject(p, "failed")
  PROVE  Tells(p)
BY ThrownTells DEF Reject, Proceed

LEMMA TransitionTells ==
  ASSUME Sound, Telling, NEW p \in Proc, run[p].pc \notin {"idle", "close"},
         NEW l, FlagsTell(l), NEW s, Transition(p, s, l)
  PROVE  Tells(p)
BY AnswerTells, RejectTells DEF Transition

\* The steps of executeMigrations up to the first phase.
LEMMA EarlyTells ==
  ASSUME Sound, Telling, NEW p \in Proc,
         ReadJournal(p) \/ SelectArtifact(p) \/ CreateAttemptRow(p) \/ AcquireLease(p)
  PROVE  Tells(p)
<1> DEFINE l == run[p]
           at(pc) == [l EXCEPT !.pc = pc]
           leased(pc) == [l EXCEPT !.leased = TRUE, !.pc = pc]
           read(n, h) == [l EXCEPT !.pc = "select", !.n = n, !.head = h]
           made(k) == [l EXCEPT !.pc = "start", !.attempt = k]
<1>1. /\ l \in Run /\ LocalOK(l) /\ FlagsTell(l)
      /\ l.pc \in {"lease", "read", "select", "create"}
  BY DEF Sound, TypeOK, Telling, ReadJournal, SelectArtifact, CreateAttemptRow,
         AcquireLease, At
<1>2. ~l.effect /\ ~l.rolledBack /\ ~l.locked /\ ~l.active
  BY <1>1 DEF FlagsTell, LocalOK, FlagsOK
<1>3. \A pc \in {"release", "create"} : FlagsTell(at(pc))
  BY <1>1, <1>2, NothingToTell DEF Run
<1>4. \A pc \in {"read", "verify"} : FlagsTell(leased(pc))
  BY <1>1, <1>2, NothingToTell DEF Run, ReconcileStep
<1>5. \A n, h : FlagsTell(read(n, h))
  BY <1>1, <1>2, NothingToTell DEF Run
<1>6. \A k : FlagsTell(made(k))
  <2> SUFFICES ASSUME NEW k PROVE FlagsTell(made(k))
    OBVIOUS
  <2>1. /\ made(k).pc = "start" /\ ~made(k).effect /\ ~made(k).rolledBack
        /\ ~made(k).locked /\ ~made(k).active
    BY <1>1, <1>2 DEF Run
  <2> HIDE DEF made
  <2> QED
    BY <2>1 DEF FlagsTell, InPhase
<1>7. \/ \E pc \in {"release", "create"} : Proceed(p, at(pc))
      \/ \E pc \in {"read", "verify"} : Answer(p, leased(pc))
      \/ \E n, h : Proceed(p, read(n, h))
      \/ \E k : Answer(p, made(k))
      \/ Reject(p, "failed")
  BY DEF ReadJournal, SelectArtifact, CreateAttemptRow, AcquireLease
<1> HIDE DEF at, leased, read, made
<1> QED
  BY <1>1, <1>3, <1>4, <1>5, <1>6, <1>7, AnswerTells, RejectTells

\* The steps of executeArtifact from the first phase to the catch.
LEMMA ArtifactTells ==
  ASSUME Sound, Telling, NEW p \in Proc,
         \/ MarkRunning(p) \/ AcquireDdlLock(p) \/ BeginTransaction(p)
         \/ CheckPreconditions(p) \/ ExecuteStatement(p) \/ CheckpointStatement(p)
         \/ CheckPostconditions(p) \/ RecordApplied(p) \/ MarkApplied(p) \/ Commit(p)
         \/ ReleaseDdlLock(p)
  PROVE  Tells(p)
<1> DEFINE l == run[p]
<1>1. /\ l \in Run /\ LocalOK(l) /\ FlagsTell(l)
      /\ l.pc \in {"start", "lock", "begin", "unlock"} \cup InPhase
  BY DEF Sound, TypeOK, Telling, MarkRunning, AcquireDdlLock, BeginTransaction,
         CheckPreconditions, ExecuteStatement, CheckpointStatement, CheckPostconditions,
         RecordApplied, MarkApplied, Commit, ReleaseDdlLock, At, InPhase
<1>2. InArtifact(l) /\ Underway(l) /\ l.pc \notin {"idle", "close"}
  BY <1>1, LocalInArtifact DEF Underway, InPhase, ExecutorStep
<1>3. /\ Enclosed(ArtifactOf(l)) /\ l.pc \in InPhase => l.active
      /\ Unenclosed(ArtifactOf(l)) => ~l.active /\ ~l.locked /\ l.pc \notin {"lock", "begin", "unlock"}
      /\ ~l.rolledBack
  BY <1>1, <1>2 DEF FlagsTell
<1>4. CASE MarkRunning(p)
  <2> DEFINE k == [l EXCEPT !.ph = 1, !.st = 1]
             m == EnterPhase(k)
  <2>1. Transition(p, "running", m) /\ l.pc = "start" /\ ~l.effect
    BY <1>1, <1>4 DEF MarkRunning, At, FlagsTell
  <2>2. /\ InArtifact(k) /\ k \in Run /\ k.ph = 1 /\ Keeps(l, k) /\ SameHold(l, k)
    BY <1>2 DEF InArtifact, Run, Keeps, SameHold
  <2> HIDE DEF k
  <2>3. /\ Keeps(k, m) /\ SameHold(k, m)
        /\ m.pc \in {"record", "lock", "begin", "check"}
        /\ Enclosed(ArtifactOf(k)) /\ k.ph <= Len(Phases(k)) => m.pc \in {"lock", "begin"}
        /\ Unenclosed(ArtifactOf(k)) => m.pc \in {"record", "check"}
    BY <2>2, EnterKeeps
  <2> HIDE DEF m
  <2>4. Enclosed(ArtifactOf(k)) => k.ph <= Len(Phases(k))
    <3>1. Len(Phases(k)) \in Nat /\ Phases(k) \in Seq(Phase) /\ Phases(k) = Program[ArtifactOf(k)]
      BY <2>2, PhasesType, ExecutorAssumption DEF InArtifact, Phases
    <3>2. Enclosed(ArtifactOf(k)) => Phases(k) # << >>
      BY <3>1 DEF Enclosed
    <3> QED
      BY <2>2, <3>1, <3>2
  <2>5. FlagsTell(m)
    <3>1. Keeps(l, m) /\ SameHold(l, m) /\ ArtifactOf(m) = ArtifactOf(l) /\ ArtifactOf(k) = ArtifactOf(l)
      BY <2>2, <2>3, KeepsArtifact DEF Keeps, SameHold
    <3> QED
      BY <1>3, <2>1, <2>3, <2>4, <3>1 DEF FlagsTell, InPhase, Keeps, SameHold
  <2> QED
    BY <1>2, <2>1, <2>5, TransitionTells
<1>5. CASE AcquireDdlLock(p)
  <2> DEFINE m == [l EXCEPT !.locked = TRUE,
                            !.pc = IF UseTransaction(PhaseOf(l)) THEN "begin" ELSE "check"]
  <2>1. Answer(p, m) /\ l.pc = "lock"
    BY <1>5 DEF AcquireDdlLock, At
  <2>2. /\ m.pc = IF UseTransaction(PhaseOf(l)) THEN "begin" ELSE "check"
        /\ Keeps(l, m) /\ m.active = l.active
    BY <1>1 DEF Run, Keeps
  <2> HIDE DEF m
  <2>3. l.ph \in 1..Len(Program[ArtifactOf(l)])
    BY <1>1, <2>1 DEF LocalOK, PositionOK, Phases
  <2>4. Enclosed(ArtifactOf(l)) => m.pc = "begin"
    BY <2>2, <2>3 DEF Enclosed, PhaseOf, Phases
  <2>5. ~Unenclosed(ArtifactOf(l)) /\ (Enclosed(ArtifactOf(l)) /\ l.effect => l.committed)
    BY <1>1, <1>2, <1>3, <2>1 DEF FlagsTell
  <2>6. FlagsTell(m)
    BY <1>3, <2>2, <2>4, <2>5, KeepsArtifact DEF FlagsTell, InPhase, Keeps
  <2> QED
    BY <1>2, <2>1, <2>6, AnswerTells
<1>6. CASE BeginTransaction(p)
  <2> DEFINE m == [l EXCEPT !.active = TRUE, !.pc = "check"]
  <2>1. run' = [run EXCEPT ![p] = m] /\ l.pc = "begin"
    BY <1>6 DEF BeginTransaction, At
  <2>2. Keeps(l, m) /\ m.active /\ m.pc = "check"
    BY <1>1 DEF Run, Keeps
  <2> HIDE DEF m
  <2>3. FlagsTell(m)
    BY <1>3, <2>1, <2>2, KeepsArtifact DEF FlagsTell, InPhase, Keeps
  <2> QED
    BY <2>1, <2>3 DEF Tells, Sound, TypeOK
<1>7. CASE CheckPreconditions(p) \/ ExecuteStatement(p) \/ CheckpointStatement(p)
           \/ RecordApplied(p)
  <2> DEFINE after(st) == AfterStatements([l EXCEPT !.st = st])
             marked    == [l EXCEPT !.effect = TRUE, !.pc = "mark"]
             written   == [l EXCEPT !.pc = "applied"]
  <2>1. \/ Proceed(p, AfterStatements(l)) \/ Answer(p, marked)
        \/ Answer(p, after(l.st + 1)) \/ Answer(p, written) \/ Reject(p, "failed")
    BY <1>7 DEF CheckPreconditions, ExecuteStatement, CheckpointStatement, RecordApplied
  <2>2. l.pc \in InPhase
    BY <1>7 DEF CheckPreconditions, ExecuteStatement, CheckpointStatement, RecordApplied,
                At, InPhase
  <2>3. FlagsTell(AfterStatements(l)) /\ \A st : FlagsTell(after(st))
    <3>1. \A m : \A st : m = AfterStatements(l) \/ m = after(st) =>
            /\ m.pc \in {"postcheck", "execute"} /\ m.repo = l.repo /\ m.n = l.n
            /\ m.rolledBack = l.rolledBack /\ m.active = l.active /\ m.locked = l.locked
      BY <1>1 DEF AfterStatements, Run
    <3> HIDE DEF after
    <3> QED
      BY <1>1, <2>2, <3>1, PhaseTells DEF InPhase
  <2>4. FlagsTell(marked) /\ FlagsTell(written)
    <3>1. \A m \in {marked, written} :
            /\ m.pc \in {"mark", "applied"} /\ m.repo = l.repo /\ m.n = l.n
            /\ m.rolledBack = l.rolledBack /\ m.active = l.active /\ m.locked = l.locked
      BY <1>1 DEF Run
    <3> HIDE DEF marked, written
    <3> QED
      BY <1>1, <2>2, <3>1, PhaseTells DEF InPhase
  <2> HIDE DEF after, marked, written
  <2> QED
    BY <1>2, <2>1, <2>3, <2>4, AnswerTells, RejectTells
<1>8. CASE CheckPostconditions(p) \/ MarkApplied(p)
  <2>1. l.pc \in {"postcheck", "applied"}
    BY <1>8 DEF CheckPostconditions, MarkApplied, At
  <2>2. FlagsTell([l EXCEPT !.pc = "record"])
        /\ (l.active => FlagsTell([l EXCEPT !.pc = "commit"]))
    <3> DEFINE at(pc) == [l EXCEPT !.pc = pc]
    <3>1. \A pc \in {"record", "commit"} :
            /\ at(pc).pc = pc /\ at(pc).repo = l.repo /\ at(pc).n = l.n
            /\ at(pc).rolledBack = l.rolledBack /\ at(pc).active = l.active
            /\ at(pc).locked = l.locked
      BY <1>1 DEF Run
    <3> HIDE DEF at
    <3>2. FlagsTell(at("record")) /\ (l.active => FlagsTell(at("commit")))
      BY <1>1, <2>1, <3>1, PhaseTells DEF InPhase
    <3> QED
      BY <3>2 DEF at
  <2>3. ~l.active => FlagsTell(Finally(l))
    BY <1>2, <1>3, <2>1, FinallyTells DEF InPhase
  <2>4. \/ Proceed(p, [l EXCEPT !.pc = "record"])
        \/ l.active /\ Proceed(p, [l EXCEPT !.pc = "commit"])
        \/ ~l.active /\ Proceed(p, Finally(l))
        \/ Transition(p, "applied", IF l.active THEN [l EXCEPT !.pc = "commit"] ELSE Finally(l))
    BY <1>8 DEF CheckPostconditions, MarkApplied
  <2> QED
    BY <1>2, <2>2, <2>3, <2>4, AnswerTells, TransitionTells
<1>9. CASE Commit(p)
  <2> DEFINE k == [l EXCEPT !.active = FALSE, !.committed = TRUE]
  <2>1. Answer(p, Finally(k)) /\ l.pc = "commit"
    BY <1>9 DEF Commit, At
  <2>2. /\ InArtifact(k) /\ k.committed /\ ~k.active /\ k.locked = l.locked
        /\ ~k.rolledBack /\ ArtifactOf(k) = ArtifactOf(l)
    BY <1>2, <1>3 DEF InArtifact, Run, ArtifactOf
  <2> HIDE DEF k
  <2>3. FlagsTell(Finally(k))
    BY <1>3, <2>2, FinallyTells
  <2> QED
    BY <1>2, <2>1, <2>3, AnswerTells
<1>10. CASE ReleaseDdlLock(p)
  <2> DEFINE k == [l EXCEPT !.locked = FALSE]
  <2>1. Answer(p, AfterFinally(k)) /\ l.pc = "unlock"
    BY <1>10 DEF ReleaseDdlLock, At
  <2>2. /\ InArtifact(k) /\ k.committed = l.committed /\ k.active = l.active
        /\ ~k.rolledBack /\ ArtifactOf(k) = ArtifactOf(l) /\ k.error = l.error
    BY <1>2, <1>3 DEF InArtifact, Run, ArtifactOf
  <2>3. ~Unenclosed(ArtifactOf(l))
        /\ (Enclosed(ArtifactOf(l)) /\ l.error = "none" => l.committed)
    BY <1>1, <1>2, <1>3, <2>1 DEF FlagsTell
  <2> HIDE DEF k
  <2>4. FlagsTell(AfterFinally(k))
    BY <2>2, <2>3, FinallyTells
  <2> QED
    BY <1>2, <2>1, <2>4, AnswerTells
<1> QED
  BY <1>4, <1>5, <1>6, <1>7, <1>8, <1>9, <1>10

\* The steps behind the catch, and those of a reconciliation.
LEMMA LateTells ==
  ASSUME Sound, InProgress, Telling, NEW p \in Proc,
         \/ Rollback(p) \/ ConcludeAttempt(p) \/ ReleaseLease(p) \/ VerifyOutcome(p)
         \/ RequireRecovery(p) \/ ReconcileHistory(p) \/ RecordOutcome(p)
         \/ ResolveAttempt(p)
  PROVE  Tells(p)
<1> DEFINE l == run[p]
           at(pc) == [l EXCEPT !.pc = pc]
           undone == [l EXCEPT !.active = FALSE, !.rolledBack = TRUE, !.pc = "conclude"]
           left   == [l EXCEPT !.leased = FALSE, !.pc = "close"]
           Further == {"require", "history", "audit", "resolve", "release"}
<1>1. /\ l \in Run /\ FlagsTell(l)
      /\ l.pc \in {"rollback", "conclude", "release"} \cup ReconcileStep
  BY DEF Sound, TypeOK, Telling, Rollback, ConcludeAttempt, ReleaseLease, VerifyOutcome,
         RequireRecovery, ReconcileHistory, RecordOutcome, ResolveAttempt, At, ReconcileStep
<1>2. l.pc \notin {"idle", "close"}
  BY <1>1 DEF ReconcileStep
<1>3. l.pc = "rollback" => FlagsTell(undone)
  <2>1. /\ undone.pc = "conclude" /\ undone.repo = l.repo /\ undone.n = l.n
    BY <1>1 DEF Run
  <2>2. l.pc = "rollback" => ~Unenclosed(ArtifactOf(l))
    BY <1>1 DEF FlagsTell, Underway
  <2> HIDE DEF undone
  <2> QED
    BY <2>1, <2>2 DEF FlagsTell, InPhase, ArtifactOf
<1>4. \A pc \in Further : FlagsTell(at(pc))
  <2>1. \A pc \in Further : at(pc).pc = pc
    BY <1>1 DEF Run
  <2> HIDE DEF at
  <2> QED
    BY <2>1, NothingToTell DEF ReconcileStep
<1>5. FlagsTell(left)
  BY <1>1, NothingToTell DEF Run
<1>6. \/ l.pc = "rollback" /\ Answer(p, undone)
      \/ Answer(p, left)
      \/ \E pc \in Further : Answer(p, at(pc)) \/ Proceed(p, at(pc))
      \/ \E pc \in Further : \E s : Transition(p, s, at(pc))
      \/ Reject(p, "failed")
  BY DEF Rollback, ConcludeAttempt, ReleaseLease, VerifyOutcome, RequireRecovery,
         ReconcileHistory, RecordOutcome, ResolveAttempt, At
<1> HIDE DEF at, undone, left
<1> QED
  BY <1>2, <1>3, <1>4, <1>5, <1>6, AnswerTells, TransitionTells, RejectTells

\* The start and the end of a call, and what goes wrong in between.
LEMMA CallTells ==
  ASSUME Sound, Telling, NEW p \in Proc,
         \/ StartApply(p) \/ StartReconcile(p) \/ CloseSession(p) \/ Crash(p)
         \/ CommitRefused(p) \/ Fail(p) \/ CallDisconnected(p)
  PROVE  Tells(p)
<1>1. CASE StartApply(p)
  <2> DEFINE opened(repo) == [Idle EXCEPT !.role = "apply", !.repo = repo]
             ready(repo)  == [opened(repo) EXCEPT !.pc = "lease"]
             unable(repo) == [opened(repo) EXCEPT !.pc = "close", !.error = "failed"]
             refused      == [Idle EXCEPT !.result = "failed"]
  <2>1. \E repo \in Repositories : run'[p] \in {ready(repo), unable(repo), refused}
    BY <1>1 DEF StartApply, Sound, TypeOK
  <2>2. \A repo : FlagsTell(ready(repo))
    BY NothingToTell DEF Idle
  <2>3. \A repo : FlagsTell(unable(repo))
    BY NothingToTell DEF Idle
  <2>4. FlagsTell(refused)
    BY NothingToTell DEF Idle
  <2> HIDE DEF ready, unable, refused
  <2> QED
    BY <2>1, <2>2, <2>3, <2>4 DEF Tells
<1>2. CASE StartReconcile(p)
  <2> DEFINE opened(repo, k, outcome) ==
               [Idle EXCEPT !.pc = "lease", !.role = "reconcile", !.repo = repo,
                            !.attempt = k, !.outcome = outcome]
  <2>1. \E repo \in Repositories, k \in AttemptId, outcome \in Terminal :
          run' = [run EXCEPT ![p] = opened(repo, k, outcome)]
    BY <1>2 DEF StartReconcile
  <2>2. \A repo, k, outcome : FlagsTell(opened(repo, k, outcome))
    BY NothingToTell DEF Idle
  <2> HIDE DEF opened
  <2> QED
    BY <2>1, <2>2 DEF Tells, Sound, TypeOK
<1>3. CASE CloseSession(p) \/ Crash(p)
  <2>1. \E result : run'[p] = [Idle EXCEPT !.result = result]
    BY <1>3 DEF CloseSession, Closed, Crash, Sound, TypeOK
  <2>2. run'[p].pc = "idle"
    BY <2>1 DEF Idle
  <2> QED
    BY <2>2, NothingToTell DEF Tells
<1>4. CASE CommitRefused(p) \/ Fail(p) \/ CallDisconnected(p)
  <2>1. PICK e \in {"failed", "uncertain"} : run' = [run EXCEPT ![p] = Throw(run[p], e)]
    BY <1>4 DEF CommitRefused, Fail, CallDisconnected, ErrorKinds, Unanswered
  <2>2. run[p].pc # "idle"
    BY <1>4 DEF CommitRefused, Fail, CallDisconnected, At
  <2>3. CASE run[p].pc = "close"
    <3>1. run'[p] = [Idle EXCEPT !.result = "unclosed"]
      BY <2>1, <2>3, ThrowClosing DEF Sound, TypeOK
    <3>2. run'[p].pc = "idle"
      BY <3>1 DEF Idle
    <3> QED
      BY <3>2, NothingToTell DEF Tells
  <2> QED
    BY <2>1, <2>2, <2>3, ThrownTells
<1> QED
  BY <1>1, <1>2, <1>3, <1>4

LEMMA NextTelling ==
  ASSUME Sound, InProgress, Telling, [Next]_vars
  PROVE  Telling'
<1>1. ASSUME NEW p \in Proc, Progresses(p), Tells(p)
      PROVE  Telling'
  BY <1>1 DEF Progresses, Others, Tells, Telling
<1>2. ASSUME NEW p \in Proc, Continue(p)
      PROVE  Progresses(p)
  BY <1>2, ExecutorProgresses, ReconcileProgresses, CallProgresses, FaultProgresses
     DEF Continue
<1>3. ASSUME NEW p \in Proc, Continue(p)
      PROVE  Tells(p)
  BY <1>3, EarlyTells, ArtifactTells, LateTells, CallTells DEF Continue
<1>4. ASSUME run' = run
      PROVE  Telling'
  BY <1>4 DEF Telling
<1>5. ASSUME NEW p \in Proc, LoseConnection(p) \/ EndClient(p)
      PROVE  Telling'
  BY <1>4, <1>5 DEF LoseConnection, EndClient
<1>6. CASE Repair \/ ClearLeaseRow \/ UNCHANGED vars
  BY <1>4, <1>6 DEF Repair, ClearLeaseRow, vars
<1> QED
  BY <1>1, <1>2, <1>3, <1>5, <1>6, CallProgresses, FaultProgresses, CallTells DEF Next

LEMMA TellingAlways == Spec => []Telling
<1>1. Init => Telling
  BY NothingToTell DEF Init, Telling, Idle
<1>2. Sound /\ InProgress /\ Telling /\ [Next]_vars => Telling'
  BY NextTelling
<1> QED
  BY <1>1, <1>2, SoundAlways, InProgressAlways, PTL DEF Spec
-----------------------------------------------------------------------------
(* What a run has made of the committed database. *)

\* The assumptions every step is looked at under.
Assured == Presumed /\ Telling /\ Definiteness

\* What is known of a run at an await under the lease.
LEMMA AtAnswerable ==
  ASSUME Assured, NEW p \in Proc, NEW pc \in Critical, At(p, pc)
  PROVE  /\ UnderLease(p) /\ run[p] \in Run /\ run[p].pc = pc
         /\ pc \notin {"idle", "close", "lease"}
         /\ LocalOK(run[p]) /\ FlagsTell(run[p]) /\ Answerable(run[p], txn[p], db)
         /\ db \in Database /\ db.journal \in Journal /\ View(p) \in Database
         /\ JournalOf(p) = View(p).journal /\ JournalOf(p) \in Journal
         /\ txn \in [Proc -> Database \cup {NoTxn}] /\ run \in [Proc -> Run]
         /\ txn[p] = NoTxn => View(p) = db
         /\ txn[p] # NoTxn => View(p) = txn[p]
         /\ AttemptsFit(run[p], db.journal)
         /\ TransactionFits(run[p], txn[p], db.journal)
         /\ run[p].active /\ pc \in InPhase => txn[p] # NoTxn
<1>1. /\ p \in online /\ run[p] \in Run /\ run[p].pc = pc /\ LocalOK(run[p])
      /\ db \in Database /\ db.journal \in Journal
      /\ AttemptsFit(run[p], db.journal)
      /\ TransactionFits(run[p], txn[p], db.journal)
  BY AtFits DEF Assured, Presumed, Known
<1>2. /\ View(p) \in Database /\ JournalOf(p) \in Journal /\ pc \notin {"idle", "close", "lease"}
      /\ JournalOf(p) = View(p).journal
  BY AtGrounded DEF Assured, Presumed
<1>3. UnderLease(p)
  BY <1>1 DEF UnderLease
<1>4. /\ FlagsTell(run[p]) /\ Answerable(run[p], txn[p], db)
  BY <1>3 DEF Assured, Telling, Definiteness
<1>5. /\ txn \in [Proc -> Database \cup {NoTxn}] /\ run \in [Proc -> Run] /\ TransactionOK(p)
  BY DEF Assured, Presumed, Known, Sound, TypeOK
<1>6. run[p].active /\ pc \in InPhase => txn[p] # NoTxn
  BY <1>1, <1>5 DEF TransactionOK
<1> QED
  BY <1>1, <1>2, <1>3, <1>4, <1>5, <1>6 DEF View

\* A run at one of these awaits answers for nothing.
LEMMA NothingToAnswer ==
  ASSUME NEW l, NEW t, NEW d,
         l.pc \in {"idle", "lease", "read", "select", "create", "verify", "release", "close"}
  PROVE  Answerable(l, t, d)
BY DEF Answerable, Underway, InPhase

\* An exception leaves what has been done as it is.
LEMMA ThrowAnswers ==
  ASSUME NEW l \in Run, LocalOK(l), FlagsTell(l), l.pc \notin {"idle", "close"},
         NEW e \in {"failed", "uncertain"}, NEW t, NEW d,
         Underway(l) =>
           /\ d.journal.attempts[l.attempt].artifact = ArtifactOf(l)
           /\ UniformProgram(ArtifactOf(l)) =>
                \/ Marred(l)
                \/ Absent(ArtifactOf(l), d)
                \/ StateOf(d.journal, l.attempt) = "applied"
                \/ l.pc # "conclude" /\ ~l.active /\ ~l.locked /\ e = "uncertain"
                \/ l.pc = "commit" /\ l.effect
  PROVE  Answerable(Throw(l, e), t, d)
<1> DEFINE m == Throw(l, e)
<1>1. CASE Underway(l)
  <2>1. InArtifact(l)
    BY <1>1, LocalInArtifact DEF Underway, InPhase, ExecutorStep
  <2>2. /\ Keeps(l, m)
        /\ m.active # l.active => l.pc = "commit" /\ ~m.active
        /\ l.pc # "conclude" => m.error = e
        /\ m.pc \in {"release", "conclude", "rollback", "unlock"}
        /\ m.pc = "rollback" => m.active
        /\ m.pc = "unlock" => l.locked
    BY <1>1, <2>1, ThrowKeeps
  <2>3. l.pc = "commit" => ~m.active
    <3>1. CASE l.pc = "commit"
      <4> DEFINE k == [[l EXCEPT !.error = e] EXCEPT !.active = FALSE]
      <4>1. m = Finally(k)
        BY <3>1 DEF Throw, ReconcileStep
      <4>2. InArtifact(k) /\ ~k.active /\ k.error # "none"
        BY <2>1 DEF InArtifact, Run
      <4> HIDE DEF k
      <4>3. SameHold(k, Finally(k))
        BY <4>2, FinallyKeeps, AfterFinallyKeeps
      <4> QED
        BY <4>1, <4>2, <4>3 DEF SameHold
    <3> QED
      BY <3>1
  <2>4. l.pc = "commit" => ~l.rolledBack
    BY DEF FlagsTell, InPhase
  <2>5. l.pc = "conclude" => m.pc = "release"
    BY DEF Throw, ReconcileStep, Run
  <2> HIDE DEF m
  <2>6. ArtifactOf(m) = ArtifactOf(l) /\ m.attempt = l.attempt /\ m.pc \notin InPhase
    BY <2>2, KeepsArtifact DEF Keeps, InPhase
  <2>7. ASSUME UniformProgram(ArtifactOf(l)), Underway(m)
        PROVE  \/ Marred(m) \/ Absent(ArtifactOf(l), d)
               \/ StateOf(d.journal, l.attempt) = "applied"
    <3>1. m.pc # "release" /\ l.pc # "conclude"
      BY <2>5, <2>7 DEF Underway, InPhase
    <3>2. CASE Marred(l)
      BY <2>2, <3>1, <3>2 DEF Marred, Keeps
    <3>3. CASE l.pc # "conclude" /\ ~l.active /\ ~l.locked /\ e = "uncertain"
      BY <2>2, <3>1, <3>3 DEF Marred
    <3>4. CASE l.pc = "commit" /\ l.effect
      BY <2>2, <2>3, <2>4, <3>4 DEF Marred, Keeps, m
    <3> QED
      BY <1>1, <2>7, <3>2, <3>3, <3>4
  <2> QED
    BY <1>1, <2>2, <2>6, <2>7 DEF Answerable, m
<1>2. CASE ~Underway(l)
  <2>1. l.pc \in {"lease", "read", "select", "create", "release"} \cup ReconcileStep
    BY <1>2 DEF Underway, InPhase, Run, Step, ExecutorStep
  <2>2. m.pc \in {"close", "release"}
    BY <2>1 DEF Throw, Run, ReconcileStep
  <2> HIDE DEF m
  <2> QED
    BY <2>2, NothingToAnswer DEF m
<1> QED
  BY <1>1, <1>2

\* What the step of a run must show.
Answers(p) == Answerable(run'[p], txn'[p], db')

\* A journal and a schema without a change show nothing new.
Untouched == db'.journal = db.journal /\ db'.schema = db.schema

LEMMA ThrownAnswers ==
  ASSUME Assured, NEW p \in Proc, UnderLease(p), Untouched,
         NEW e \in {"failed", "uncertain"}, run' = [run EXCEPT ![p] = Throw(run[p], e)]
  PROVE  Answers(p)
<1>1. /\ run[p] \in Run /\ LocalOK(run[p]) /\ FlagsTell(run[p])
      /\ Answerable(run[p], txn[p], db) /\ run'[p] = Throw(run[p], e)
  BY DEF Assured, Presumed, Known, Sound, TypeOK, Telling, Definiteness
<1>2. run[p].pc \notin {"idle", "close"}
  BY DEF UnderLease, Critical, ExecutorStep, ReconcileStep
<1>3. Underway(run[p]) =>
        /\ db'.journal.attempts[run[p].attempt].artifact = ArtifactOf(run[p])
        /\ UniformProgram(ArtifactOf(run[p])) =>
             \/ Marred(run[p])
             \/ Absent(ArtifactOf(run[p]), db')
             \/ StateOf(db'.journal, run[p].attempt) = "applied"
  BY <1>1 DEF Answerable, Absent, Untouched
<1> QED
  BY <1>1, <1>2, <1>3, ThrowAnswers DEF Answers

\* A step without effect on the committed database goes on as l or throws.
LEMMA QuietAnswers ==
  ASSUME Assured, NEW p \in Proc, UnderLease(p), Untouched,
         NEW l, Answerable(l, txn'[p], db'), Answer(p, l) \/ run' = [run EXCEPT ![p] = l]
  PROVE  Answers(p)
<1>1. CASE run' = [run EXCEPT ![p] = l]
  BY <1>1 DEF Answers, Assured, Presumed, Known, Sound, TypeOK
<1>2. CASE run' = [run EXCEPT ![p] = Throw(run[p], Unanswered(run[p]))]
  BY <1>2, ThrownAnswers DEF Unanswered
<1> QED
  BY <1>1, <1>2 DEF Answer

LEMMA ProceedAnswers ==
  ASSUME Assured, NEW p \in Proc, UnderLease(p), NEW l, Answerable(l, txn[p], db),
         Proceed(p, l) \/ Reject(p, "failed")
  PROVE  Answers(p)
<1>1. UNCHANGED <<db, txn>> /\ Untouched
  BY DEF Proceed, Reject, Untouched
<1>2. \/ run' = [run EXCEPT ![p] = l]
      \/ run' = [run EXCEPT ![p] = Throw(run[p], "failed")]
  BY DEF Proceed, Reject
<1> QED
  BY <1>1, <1>2, QuietAnswers, ThrownAnswers

\* What a run behind no catch has to answer for at a uniform program.
LEMMA Answered ==
  ASSUME NEW l, NEW t, NEW d, Answerable(l, t, d), Underway(l), l.pc # "conclude",
         UniformProgram(ArtifactOf(l))
  PROVE  \/ l.committed \/ (l.effect /\ ~l.active /\ ~l.rolledBack)
         \/ Absent(ArtifactOf(l), d)
         \/ StateOf(d.journal, l.attempt) = "applied"
BY DEF Answerable, Marred

\* A run that goes on within its artifact answers for what it did.
LEMMA MoveAnswers ==
  ASSUME NEW l, NEW t, NEW d, Answerable(l, t, d), Underway(l), l.pc # "conclude",
         NEW m, Underway(m), m.repo = l.repo, m.n = l.n, m.attempt = l.attempt,
         Marred(l) /\ UniformProgram(ArtifactOf(l)) => Marred(m),
         NEW s, NEW e, e.schema = d.schema, e.journal.applied = d.journal.applied,
         e.journal.attempts[l.attempt].artifact = d.journal.attempts[l.attempt].artifact,
         StateOf(d.journal, l.attempt) = "applied" =>
           StateOf(e.journal, l.attempt) = "applied",
         s # NoTxn /\ m.pc \in InPhase =>
           s.schema \subseteq
             IF m.effect THEN d.schema \cup Effects(ArtifactOf(l)) ELSE d.schema
  PROVE  Answerable(m, s, e)
<1>1. ArtifactOf(m) = ArtifactOf(l)
  BY DEF ArtifactOf
<1>2. Absent(ArtifactOf(l), d) => Absent(ArtifactOf(l), e)
  BY DEF Absent, Recorded
<1>3. m.pc \notin {"require", "history", "audit", "resolve"}
  BY DEF Underway, InPhase
<1> QED
  BY <1>1, <1>2, <1>3 DEF Answerable

\* The same behind a phase, without a transaction.
LEMMA FinallyAnswers ==
  ASSUME NEW l, InArtifact(l), NEW d, NEW e, e.schema = d.schema,
         e.journal.applied = d.journal.applied,
         e.journal.attempts[l.attempt].artifact = ArtifactOf(l),
         UniformProgram(ArtifactOf(l)) =>
           \/ l.committed \/ (l.effect /\ ~l.active /\ ~l.rolledBack)
           \/ Absent(ArtifactOf(l), d)
           \/ StateOf(e.journal, l.attempt) = "applied"
  PROVE  /\ Answerable(AfterFinally(l), NoTxn, e) /\ Answerable(Finally(l), NoTxn, e)
         /\ l.error # "none" => \A t : Answerable(AfterFinally(l), t, e)
<1>1. Absent(ArtifactOf(l), d) => Absent(ArtifactOf(l), e)
  BY DEF Absent, Recorded
<1>2. ASSUME NEW m, Keeps(l, m), SameHold(l, m), NEW t,
             m.pc \in {"rollback", "conclude", "record", "lock", "begin", "check", "unlock"},
             m.pc \in InPhase => t = NoTxn
      PROVE  Answerable(m, t, e)
  <2>1. ArtifactOf(m) = ArtifactOf(l) /\ m.attempt = l.attempt
    BY <1>2, KeepsArtifact DEF Keeps
  <2>2. l.committed \/ (l.effect /\ ~l.active /\ ~l.rolledBack) => Marred(m)
    BY <1>2 DEF Marred, Keeps, SameHold
  <2> QED
    BY <1>1, <1>2, <2>1, <2>2 DEF Answerable
<1>3. ASSUME NEW t, l.error = "none" => t = NoTxn
      PROVE  Answerable(AfterFinally(l), t, e)
  <2> DEFINE m == AfterFinally(l)
  <2>1. \/ /\ Keeps(l, m) /\ SameHold(l, m) /\ l.error # "none"
           /\ m.pc \in {"rollback", "conclude"}
        \/ /\ Keeps(l, m) /\ SameHold(l, m) /\ l.error = "none"
           /\ m.pc \in {"record", "lock", "begin", "check"}
        \/ m.pc = "select"
    BY AfterFinallyKeeps
  <2> HIDE DEF m
  <2>2. Answerable(m, t, e)
    BY <1>2, <1>3, <2>1, NothingToAnswer DEF InPhase
  <2> QED
    BY <2>2 DEF m
<1>4. Answerable(Finally(l), NoTxn, e)
  <2> DEFINE m == Finally(l)
  <2>1. CASE Keeps(l, m) /\ SameHold(l, m) /\ l.locked /\ m.pc = "unlock"
    <3> HIDE DEF m
    <3>1. Answerable(m, NoTxn, e)
      BY <1>2, <2>1
    <3> QED
      BY <3>1 DEF m
  <2> QED
    BY <1>3, <2>1, FinallyKeeps
<1> QED
  BY <1>3, <1>4

-----------------------------------------------------------------------------
(* The steps of a run under the lease. *)

\* A call at one of these awaits ends the run if it throws.
LEMMA LeavingAnswers ==
  ASSUME Assured, NEW p \in Proc, UnderLease(p),
         run[p].pc \in {"read", "select", "create", "start", "conclude", "release"}
           \cup ReconcileStep,
         NEW l, Answer(p, l) \/ Proceed(p, l) \/ Reject(p, "failed"),
         Answerable(l, txn'[p], db')
  PROVE  Answers(p)
<1>1. run[p] \in Run /\ run \in [Proc -> Run]
  BY DEF Assured, Presumed, Known, Sound, TypeOK
<1>2. ASSUME NEW e, run' = [run EXCEPT ![p] = Throw(run[p], e)]
      PROVE  Answers(p)
  <2> DEFINE m == Throw(run[p], e)
  <2>1. m.pc \in {"release", "close"}
    BY <1>1 DEF Throw, Run, ReconcileStep
  <2>2. run'[p] = m
    BY <1>1, <1>2
  <2> HIDE DEF m
  <2> QED
    BY <2>1, <2>2, NothingToAnswer DEF Answers
<1>3. CASE run' = [run EXCEPT ![p] = l]
  BY <1>1, <1>3 DEF Answers
<1> QED
  BY <1>2, <1>3 DEF Answer, Proceed, Reject

\* What a write of the journal outside a transaction makes of the database.
LEMMA JournalCommitted ==
  ASSUME Assured, NEW p \in Proc, txn[p] = NoTxn, NEW j \in Journal, WriteJournal(p, j)
  PROVE  /\ db'.journal = j /\ db'.schema = db.schema /\ txn' = txn
         /\ txn'[p] = NoTxn
<1>1. Sound /\ After(p).journal = j /\ After(p).schema = View(p).schema
  BY JournalSeen DEF Assured, Presumed, Known
<1>2. txn' = txn /\ View(p) = db
  BY DEF WriteJournal, Write, View
<1> QED
  BY <1>1, <1>2 DEF After

\* The steps before an attempt and behind one.
LEMMA EarlyAnswers ==
  ASSUME Assured, NEW p \in Proc,
         ReadJournal(p) \/ SelectArtifact(p) \/ ConcludeAttempt(p) \/ ReleaseLease(p)
         \/ ResolveAttempt(p)
  PROVE  Answers(p)
<1> DEFINE l == run[p]
           j == JournalOf(p)
           r == [l EXCEPT !.pc = "select", !.n = Len(j.applied) + 1, !.head = j.head]
           at(pc) == [l EXCEPT !.pc = pc]
           left == [l EXCEPT !.leased = FALSE, !.pc = "close"]
<1>1. PICK pc \in {"read", "select", "conclude", "release", "resolve"} : At(p, pc)
  BY DEF ReadJournal, SelectArtifact, ConcludeAttempt, ReleaseLease, ResolveAttempt
<1>2. l \in Run /\ UnderLease(p) /\ l.pc = pc
  BY <1>1, AtAnswerable DEF Critical, ExecutorStep, ReconcileStep
<1>3. \E m \in {r, left, at("release"), at("create")} :
        Answer(p, m) \/ Proceed(p, m) \/ Reject(p, "failed")
  BY DEF ReadJournal, SelectArtifact, ConcludeAttempt, ReleaseLease, ResolveAttempt,
         Transition
<1>4. \A m \in {r, left, at("release"), at("create")} :
        m.pc \in {"select", "close", "release", "create"}
  BY <1>2 DEF Run
<1> HIDE DEF r, left, at
<1> QED
  BY <1>1, <1>2, <1>3, <1>4, LeavingAnswers, NothingToAnswer DEF ReconcileStep

\* A new attempt: nothing of its artifact is in the schema it was planned for.
LEMMA CreateAnswers ==
  ASSUME Assured, NEW p \in Proc, CreateAttemptRow(p)
  PROVE  Answers(p)
<1> DEFINE l == run[p]
           i == db.journal
           a == ArtifactOf(l)
<1>1. At(p, "create")
  BY DEF CreateAttemptRow
<1>2. /\ l \in Run /\ i \in Journal /\ JournalOf(p) = i /\ txn[p] = NoTxn
      /\ l.n \in 1..Len(l.repo) /\ db.schema = Before(l.repo, l.n) /\ l.pc = "create"
      /\ a \notin Recorded(i)
  BY <1>1, CreateKnown DEF Assured, Presumed
<1>3. UnderLease(p) /\ a \in Artifact /\ l.head \in Digest /\ VerifyArtifactChain(l.repo)
  BY <1>1, <1>2, AtAnswerable, PhasesType
     DEF Critical, ExecutorStep, Run, Assured, Presumed, Known, InProgress, ProgressOK
<1>4. Effects(a) \cap db.schema = {}
  <2>1. \A m \in 1..(l.n - 1) : l.repo[m] # a
    BY <1>2, <1>3 DEF VerifyArtifactChain, ArtifactOf, Run
  <2>2. \A m \in 1..(l.n - 1) : Effects(l.repo[m]) \cap Effects(a) = {}
    BY <2>1 DEF Effects
  <2> QED
    BY <1>2, <2>2 DEF Before
<1>5. PICK k \in AttemptId :
        IF CanCreate(i, k)
          THEN /\ WriteJournal(p, CreateAttempt(i, k, a, l.head))
               /\ Answer(p, [l EXCEPT !.pc = "start", !.attempt = k])
          ELSE Reject(p, "failed")
  BY <1>2 DEF CreateAttemptRow
<1> DEFINE m == [l EXCEPT !.pc = "start", !.attempt = k]
           j == CreateAttempt(i, k, a, l.head)
<1>6. CASE CanCreate(i, k)
  <2>1. j \in Journal /\ WriteJournal(p, j) /\ Answer(p, m)
    BY <1>2, <1>3, <1>5, <1>6, CreateAttemptType
  <2>2. j.applied = i.applied /\ j.attempts[k].artifact = a
    BY <1>2, CreateChanges
  <2>3. db'.journal = j /\ db'.schema = db.schema /\ txn'[p] = NoTxn
    BY <1>2, <2>1, JournalCommitted
  <2>4. m.pc = "start" /\ m.attempt = k /\ ArtifactOf(m) = a
    BY <1>2 DEF Run, ArtifactOf
  <2> HIDE DEF m, j
  <2>5. Absent(a, db')
    BY <1>2, <1>4, <2>2, <2>3 DEF Absent, Recorded
  <2>6. Answerable(m, txn'[p], db')
    BY <2>2, <2>3, <2>4, <2>5 DEF Answerable
  <2> QED
    BY <1>2, <1>3, <2>1, <2>6, LeavingAnswers
<1>7. CASE ~CanCreate(i, k)
  <2>1. Answerable(Idle, txn'[p], db')
    BY NothingToAnswer DEF Idle
  <2> QED
    BY <1>2, <1>3, <1>5, <1>7, <2>1, LeavingAnswers
<1> QED
  BY <1>6, <1>7

\* What is known of a run in the middle of executeArtifact.
LEMMA AtArtifact ==
  ASSUME Assured, NEW p \in Proc, At(p, run[p].pc),
         run[p].pc \in {"start", "lock", "begin", "unlock", "rollback"} \cup InPhase
  PROVE  /\ run[p] \in Run /\ InArtifact(run[p]) /\ Underway(run[p])
         /\ run[p].pc \notin {"conclude", "idle", "close"}
         /\ UnderLease(p) /\ Answerable(run[p], txn[p], db) /\ FlagsTell(run[p])
         /\ db \in Database /\ db.journal \in Journal
         /\ txn \in [Proc -> Database \cup {NoTxn}] /\ run \in [Proc -> Run]
         /\ db.journal.attempts[run[p].attempt].artifact = ArtifactOf(run[p])
         /\ OutsideTransaction(run[p]) => txn[p] = NoTxn
         /\ run[p].active /\ run[p].pc \in InPhase => txn[p] # NoTxn
<1> DEFINE pc == run[p].pc
<1>1. pc \in Critical /\ pc \in ExecutorStep \ {"read", "select", "create"}
  BY DEF Critical, ExecutorStep, InPhase
<1>2. /\ run[p] \in Run /\ LocalOK(run[p]) /\ FlagsTell(run[p]) /\ UnderLease(p)
      /\ Answerable(run[p], txn[p], db) /\ db \in Database /\ db.journal \in Journal
      /\ txn \in [Proc -> Database \cup {NoTxn}] /\ run \in [Proc -> Run]
      /\ TransactionFits(run[p], txn[p], db.journal)
      /\ run[p].active /\ pc \in InPhase => txn[p] # NoTxn
  BY <1>1, AtAnswerable
<1>3. Underway(run[p]) /\ InArtifact(run[p])
  BY <1>1, <1>2, LocalInArtifact DEF Underway
<1>4. run[p].pc \notin {"conclude", "idle", "close"}
  BY DEF InPhase
<1> QED
  BY <1>2, <1>3, <1>4 DEF Answerable, TransactionFits

\* An attempt that starts to run has done nothing yet.
LEMMA MarkRunningAnswers ==
  ASSUME Assured, NEW p \in Proc, MarkRunning(p)
  PROVE  Answers(p)
<1> DEFINE l == run[p]
           i == db.journal
           j == TransitionAttempt(i, l.attempt, "running")
           k == [l EXCEPT !.ph = 1, !.st = 1]
           m == EnterPhase(k)
<1>1. At(p, l.pc) /\ l.pc = "start" /\ Transition(p, "running", m)
  BY DEF MarkRunning, At
<1>2. /\ l \in Run /\ InArtifact(l) /\ Underway(l) /\ UnderLease(p)
      /\ Answerable(l, txn[p], db) /\ i \in Journal /\ txn[p] = NoTxn
      /\ i.attempts[l.attempt].artifact = ArtifactOf(l) /\ JournalOf(p) = i
  BY <1>1, AtArtifact DEF OutsideTransaction, JournalOf, View
<1>3. InArtifact(k) /\ k \in Run /\ k.ph = 1 /\ Keeps(l, k) /\ SameHold(l, k)
  BY <1>2 DEF InArtifact, Run, Keeps, SameHold
<1> HIDE DEF k
<1>4. Keeps(l, m) /\ SameHold(l, m) /\ m.pc \in {"record", "lock", "begin", "check"}
  BY <1>3, EnterKeeps DEF Keeps, SameHold
<1> HIDE DEF m
<1>5. CASE CanTransition(i, l.attempt, "running")
  <2>1. j \in Journal /\ WriteJournal(p, j) /\ Answer(p, m)
    BY <1>1, <1>2, <1>5, TransitionAttemptType DEF Transition
  <2>2. /\ db'.journal = j /\ db'.schema = db.schema /\ txn'[p] = NoTxn
        /\ j.applied = i.applied /\ StateOf(i, l.attempt) \in Unresolved
        /\ j.attempts[l.attempt].artifact = i.attempts[l.attempt].artifact
    BY <1>2, <1>5, <2>1, JournalCommitted, TransitionChanges DEF InArtifact
  <2>3. Underway(m) /\ l.pc # "conclude" /\ (Marred(l) => Marred(m))
    BY <1>1, <1>4 DEF Underway, InPhase, Marred, Keeps, SameHold
  <2>4. StateOf(i, l.attempt) # "applied"
    BY <2>2 DEF Unresolved
  <2> HIDE DEF j
  <2>5. Answerable(m, NoTxn, db')
    BY <1>2, <1>4, <2>2, <2>3, <2>4, MoveAnswers DEF Keeps
  <2> QED
    BY <1>1, <1>2, <2>1, <2>2, <2>5, LeavingAnswers
<1>6. CASE ~CanTransition(i, l.attempt, "running")
  <2>1. Answerable(Idle, txn'[p], db')
    BY NothingToAnswer DEF Idle
  <2>2. Reject(p, "failed")
    BY <1>1, <1>2, <1>6 DEF Transition
  <2> QED
    BY <1>1, <1>2, <2>1, <2>2, LeavingAnswers
<1> QED
  BY <1>5, <1>6

\* A step of a phase that writes neither schema nor journal.
LEMMA PhaseAnswers ==
  ASSUME Assured, NEW p \in Proc,
         AcquireDdlLock(p) \/ CheckPreconditions(p) \/ CheckpointStatement(p)
  PROVE  Answers(p)
<1> DEFINE l == run[p]
           locked == [l EXCEPT !.locked = TRUE,
                               !.pc = IF UseTransaction(PhaseOf(l)) THEN "begin" ELSE "check"]
           onward(st) == AfterStatements([l EXCEPT !.st = st])
           d == [View(p) EXCEPT !.marks = @ \cup {<<l.attempt, EffectOf(l)>>}]
<1>1. At(p, l.pc) /\ l.pc \in {"lock", "check", "mark"}
  BY DEF AcquireDdlLock, CheckPreconditions, CheckpointStatement, At
<1>2. /\ l \in Run /\ InArtifact(l) /\ Underway(l) /\ UnderLease(p) /\ l.pc # "conclude"
      /\ Answerable(l, txn[p], db) /\ db \in Database
      /\ txn \in [Proc -> Database \cup {NoTxn}]
      /\ db.journal.attempts[l.attempt].artifact = ArtifactOf(l)
  BY <1>1, AtArtifact DEF InPhase
<1>3. /\ Untouched
      /\ txn'[p] # NoTxn => txn[p] # NoTxn /\ txn'[p].schema = txn[p].schema
  <2>1. CASE CheckpointStatement(p)
    <3>1. Write(p, d) /\ View(p) \in Database
      BY <1>2, <2>1 DEF CheckpointStatement, View
    <3>2. d.schema = View(p).schema /\ d.journal = View(p).journal
      BY <3>1 DEF Database
    <3> HIDE DEF d
    <3> QED
      BY <1>2, <3>1, <3>2 DEF Write, Untouched, View
  <2>2. CASE AcquireDdlLock(p) \/ CheckPreconditions(p)
    BY <2>2 DEF AcquireDdlLock, CheckPreconditions, Proceed, Untouched
  <2> QED
    BY <2>1, <2>2
<1>4. \E m, st : /\ \/ m = locked /\ l.pc = "lock"
                    \/ m = onward(st) /\ l.pc # "lock"
                 /\ Answer(p, m) \/ run' = [run EXCEPT ![p] = m]
  <2>1. CASE AcquireDdlLock(p)
    BY <2>1 DEF AcquireDdlLock, At
  <2>2. CASE CheckPreconditions(p)
    <3>1. [l EXCEPT !.st = l.st] = l
      BY <1>2 DEF Run
    <3>2. onward(l.st) = AfterStatements(l)
      BY <3>1
    <3>3. l.pc # "lock" /\ run' = [run EXCEPT ![p] = onward(l.st)]
      BY <2>2, <3>2 DEF CheckPreconditions, Proceed, At
    <3> QED
      BY <3>3
  <2>3. CASE CheckpointStatement(p)
    <3>1. l.pc # "lock" /\ Answer(p, onward(l.st + 1))
      BY <2>3 DEF CheckpointStatement, At
    <3> QED
      BY <3>1
  <2> QED
    BY <2>1, <2>2, <2>3
<1>5. /\ Keeps(l, locked) /\ locked.active = l.active
      /\ locked.pc \in {"begin", "check"}
  BY <1>2 DEF Run, Keeps
<1>6. \A st : /\ Keeps(l, onward(st)) /\ onward(st).active = l.active
              /\ onward(st).pc \in {"postcheck", "execute"}
  BY <1>2 DEF AfterStatements, Run, Keeps
<1> HIDE DEF locked, onward
<1>7. ASSUME NEW m, Keeps(l, m), m.active = l.active,
             m.pc \in {"begin", "check", "postcheck", "execute"},
             l.pc = "lock" => txn'[p] = NoTxn
      PROVE  Answerable(m, txn'[p], db')
  <2>1. Underway(m) /\ (Marred(l) => Marred(m))
    BY <1>2, <1>7 DEF Underway, InPhase, Marred, Keeps
  <2>2. txn'[p] # NoTxn =>
          txn'[p].schema \subseteq
            IF m.effect THEN db.schema \cup Effects(ArtifactOf(l)) ELSE db.schema
    BY <1>1, <1>2, <1>3, <1>7 DEF Answerable, InPhase, Keeps
  <2> QED
    BY <1>2, <1>3, <1>7, <2>1, <2>2, MoveAnswers DEF Keeps, Untouched
<1>8. l.pc = "lock" => txn'[p] = NoTxn
  BY <1>1, <1>3, AtArtifact DEF OutsideTransaction
<1> QED
  BY <1>2, <1>3, <1>4, <1>5, <1>6, <1>7, <1>8, QuietAnswers

\* A transaction begins on the committed database, where an earlier effect of
\* the attempt is already beyond it.
LEMMA BeginAnswers ==
  ASSUME Assured, NEW p \in Proc, BeginTransaction(p)
  PROVE  Answers(p)
<1> DEFINE l == run[p]
           m == [l EXCEPT !.active = TRUE, !.pc = "check"]
<1>1. /\ At(p, l.pc) /\ l.pc = "begin" /\ run' = [run EXCEPT ![p] = m]
      /\ db' = db /\ txn' = [txn EXCEPT ![p] = db]
  BY DEF BeginTransaction, At
<1>2. /\ l \in Run /\ Underway(l) /\ UnderLease(p) /\ FlagsTell(l)
      /\ Answerable(l, txn[p], db) /\ db \in Database
      /\ txn \in [Proc -> Database \cup {NoTxn}]
  BY <1>1, AtArtifact
<1>3. Keeps(l, m) /\ m.pc = "check" /\ m.active
  BY <1>2 DEF Run, Keeps
<1> HIDE DEF m
<1>4. Marred(l) /\ UniformProgram(ArtifactOf(l)) => Marred(m)
  BY <1>1, <1>2, <1>3 DEF UniformProgram, FlagsTell, Marred, Keeps
<1>5. Underway(m) /\ l.pc # "conclude"
  BY <1>1, <1>3 DEF Underway, InPhase
<1>6. txn'[p] = db
  BY <1>1, <1>2
<1>7. Answerable(m, txn'[p], db')
  BY <1>1, <1>2, <1>3, <1>4, <1>5, <1>6, MoveAnswers DEF Keeps
<1> QED
  BY <1>1, <1>2, <1>7, QuietAnswers DEF Untouched

\* The postconditions lead to the record, the commit or the end of the phase.
LEMMA CheckPostconditionsAnswers ==
  ASSUME Assured, NEW p \in Proc, CheckPostconditions(p)
  PROVE  Answers(p)
<1> DEFINE l == run[p]
           at(pc) == [l EXCEPT !.pc = pc]
<1>1. /\ At(p, l.pc) /\ l.pc = "postcheck"
      /\ \/ \E pc \in {"record", "commit"} : Proceed(p, at(pc))
         \/ ~l.active /\ Proceed(p, Finally(l))
  BY DEF CheckPostconditions, At
<1>2. /\ l \in Run /\ InArtifact(l) /\ Underway(l) /\ UnderLease(p) /\ l.pc # "conclude"
      /\ Answerable(l, txn[p], db)
      /\ db.journal.attempts[l.attempt].artifact = ArtifactOf(l)
      /\ ~l.active => txn[p] = NoTxn
  BY <1>1, AtArtifact DEF OutsideTransaction, InPhase
<1>3. CASE \E pc \in {"record", "commit"} : Proceed(p, at(pc))
  <2>1. PICK pc \in {"record", "commit"} : Proceed(p, at(pc))
    BY <1>3
  <2>2. at(pc).pc = pc /\ Keeps(l, at(pc)) /\ at(pc).active = l.active
    BY <1>2 DEF Run, Keeps
  <2> HIDE DEF at
  <2>3. Underway(at(pc)) /\ (Marred(l) => Marred(at(pc)))
    BY <1>2, <2>2 DEF Underway, InPhase, Marred, Keeps
  <2>4. txn[p] # NoTxn =>
          txn[p].schema \subseteq
            IF at(pc).effect THEN db.schema \cup Effects(ArtifactOf(l)) ELSE db.schema
    BY <1>1, <1>2, <2>2 DEF Answerable, InPhase, Keeps
  <2>5. Answerable(at(pc), txn[p], db)
    BY <1>2, <2>2, <2>3, <2>4, MoveAnswers DEF Keeps
  <2> QED
    BY <1>2, <2>1, <2>5, ProceedAnswers
<1>4. CASE ~l.active /\ Proceed(p, Finally(l))
  <2>1. UniformProgram(ArtifactOf(l)) =>
          \/ l.committed \/ (l.effect /\ ~l.active /\ ~l.rolledBack)
          \/ Absent(ArtifactOf(l), db)
          \/ StateOf(db.journal, l.attempt) = "applied"
    BY <1>2, Answered
  <2>2. Answerable(Finally(l), NoTxn, db)
    BY <1>2, <2>1, FinallyAnswers
  <2> QED
    BY <1>2, <1>4, <2>2, ProceedAnswers
<1> QED
  BY <1>1, <1>3, <1>4

\* The effect of a statement is one of its artifact.
LEMMA EffectBelongs ==
  ASSUME NEW l \in Run, LocalOK(l), l.pc = "execute",
         l.st <= PhaseOf(l).statements
  PROVE  EffectOf(l) \in Effects(ArtifactOf(l))
<1>1. l.ph \in 1..Len(Program[ArtifactOf(l)]) /\ l.st >= 1 /\ l.st \in Nat
      /\ l.st <= Program[ArtifactOf(l)][l.ph].statements /\ l.n \in 1..Len(l.repo)
  BY DEF LocalOK, PositionOK, ExecutorStep, PhaseOf, Phases, Run
<1>2. Program[ArtifactOf(l)][l.ph].statements \in Nat
  BY <1>1, PhasesType DEF Phases
<1>3. l.st \in 1..Program[ArtifactOf(l)][l.ph].statements
  BY <1>1, <1>2
<1> QED
  BY <1>1, <1>3 DEF Effects, EffectOf

\* A statement outside a transaction has its effect at once, but then its
\* program has no transactions and the catch takes the effect into account; so
\* it does if the answer is lost.
LEMMA ExecuteAnswers ==
  ASSUME Assured, NEW p \in Proc, ExecuteStatement(p)
  PROVE  Answers(p)
<1> DEFINE l == run[p]
           m == [l EXCEPT !.effect = TRUE, !.pc = "mark"]
           d == [View(p) EXCEPT !.schema = @ \cup {EffectOf(l)}]
<1>1. /\ At(p, l.pc) /\ l.pc = "execute" /\ Write(p, d) /\ Answer(p, m)
  BY DEF ExecuteStatement, At
<1>2. /\ l \in Run /\ InArtifact(l) /\ Underway(l) /\ UnderLease(p) /\ FlagsTell(l)
      /\ Answerable(l, txn[p], db) /\ db \in Database /\ run \in [Proc -> Run]
      /\ txn \in [Proc -> Database \cup {NoTxn}]
      /\ db.journal.attempts[l.attempt].artifact = ArtifactOf(l)
      /\ l.active => txn[p] # NoTxn
  BY <1>1, AtArtifact DEF InPhase
<1>3. LocalOK(l) /\ EffectOf(l) \in Effects(ArtifactOf(l))
  BY <1>1, <1>2, EffectBelongs DEF Assured, Presumed, Known, Sound, ExecuteStatement
<1>4. Keeps([l EXCEPT !.effect = TRUE], m) /\ m.repo = l.repo /\ m.n = l.n
      /\ m.attempt = l.attempt /\ m.effect /\ m.active = l.active /\ m.pc = "mark"
      /\ m.committed = l.committed /\ m.rolledBack = l.rolledBack
  BY <1>2 DEF Run, Keeps
<1>5. View(p) \in Database
  BY <1>2 DEF View
<1>6. d.journal = View(p).journal /\ d.schema = View(p).schema \cup {EffectOf(l)}
  BY <1>5 DEF Database
<1> HIDE DEF m, d
<1>7. Underway(m) /\ ArtifactOf(m) = ArtifactOf(l)
  BY <1>4 DEF Underway, InPhase, ArtifactOf
<1>8. CASE txn[p] # NoTxn
  <2>1. Untouched /\ txn'[p] = d /\ View(p) = txn[p]
    BY <1>1, <1>2, <1>8 DEF Write, View, Untouched
  <2>2. txn'[p].schema \subseteq db.schema \cup Effects(ArtifactOf(l))
    BY <1>1, <1>2, <1>3, <1>6, <1>8, <2>1 DEF Answerable, InPhase
  <2>3. (Marred(l) => Marred(m)) /\ l.pc # "conclude"
    BY <1>1, <1>4 DEF Marred
  <2>4. Answerable(m, txn'[p], db')
    BY <1>2, <1>4, <1>7, <2>1, <2>2, <2>3, MoveAnswers DEF Untouched
  <2> QED
    BY <1>1, <1>2, <2>1, <2>4, QuietAnswers
<1>9. CASE txn[p] = NoTxn
  <2>1. ~l.active /\ txn'[p] = NoTxn /\ db' = d /\ View(p) = db
    BY <1>1, <1>2, <1>9 DEF Write, View
  <2>2. UniformProgram(ArtifactOf(l)) => ~l.locked /\ ~l.rolledBack
    BY <1>1, <1>2, <2>1 DEF UniformProgram, FlagsTell, InPhase
  <2>3. db'.journal.attempts[l.attempt].artifact = ArtifactOf(l)
    BY <1>2, <1>6, <2>1
  <2>4. CASE run'[p] = m
    <3>1. UniformProgram(ArtifactOf(l)) => Marred(m)
      BY <1>4, <2>1, <2>2 DEF Marred
    <3>2. m.pc \notin {"require", "history", "audit", "resolve"}
      BY <1>4
    <3> QED
      BY <1>4, <1>7, <2>1, <2>3, <2>4, <3>1, <3>2 DEF Answers, Answerable
  <2>5. CASE run'[p] = Throw(l, "uncertain")
    <3>1. UniformProgram(ArtifactOf(l)) => l.pc # "conclude" /\ ~l.active /\ ~l.locked
      BY <1>1, <2>1, <2>2
    <3>2. Answerable(Throw(l, "uncertain"), NoTxn, db')
      BY <1>1, <1>2, <1>3, <2>3, <3>1, ThrowAnswers
    <3> QED
      BY <2>1, <2>5, <3>2 DEF Answers
  <2> QED
    BY <1>1, <1>2, <2>4, <2>5 DEF Answer, Unanswered
<1> QED
  BY <1>8, <1>9

\* A record outside a transaction: the program has no transactions, so what it
\* has done to the schema is beyond it already.
LEMMA RecordAppliedAnswers ==
  ASSUME Assured, NEW p \in Proc, RecordApplied(p)
  PROVE  Answers(p)
<1> DEFINE l == run[p]
           m == [l EXCEPT !.pc = "applied"]
           i == JournalOf(p)
           j == AppendAppliedAndAdvanceHead(i, ArtifactOf(l), l.attempt)
<1>1. At(p, l.pc) /\ l.pc = "record"
  BY DEF RecordApplied, At
<1>2. /\ l \in Run /\ InArtifact(l) /\ Underway(l) /\ UnderLease(p) /\ FlagsTell(l)
      /\ Answerable(l, txn[p], db) /\ db \in Database /\ run \in [Proc -> Run]
      /\ txn \in [Proc -> Database \cup {NoTxn}]
      /\ db.journal.attempts[l.attempt].artifact = ArtifactOf(l)
      /\ l.active => txn[p] # NoTxn
  BY <1>1, AtArtifact DEF InPhase
<1>3. LocalOK(l) /\ ArtifactOf(l) \in Artifact /\ i \in Journal /\ i = View(p).journal
      /\ Effects(ArtifactOf(l)) \subseteq View(p).schema
      /\ StateOf(db.journal, l.attempt) # "applied"
  <2>1. /\ Effected(l, View(p)) /\ LocalOK(l) /\ i \in Journal /\ i = View(p).journal
    BY <1>1, AtEffected DEF Assured, Critical, ExecutorStep
  <2>2. OpenAttempts(db.journal) = {l.attempt}
    BY <1>1, AtAnswerable DEF Critical, ExecutorStep, AttemptsFit, Attempting, InPhase
  <2>3. StateOf(db.journal, l.attempt) # "applied"
    BY <2>2 DEF OpenAttempts, Unresolved
  <2> QED
    BY <1>1, <1>2, <2>1, <2>3, PhasesType, ArtifactEffected DEF InArtifact
<1>4. /\ m.repo = l.repo /\ m.n = l.n /\ m.attempt = l.attempt /\ m.effect = l.effect
      /\ m.active = l.active /\ m.pc = "applied" /\ m.committed = l.committed
      /\ m.rolledBack = l.rolledBack
  BY <1>2 DEF Run
<1>5. CASE Reject(p, "failed")
  BY <1>2, <1>5, ProceedAnswers
<1>6. CASE WriteJournal(p, j) /\ Answer(p, m)
  <2>1. j \in Journal /\ j.attempts = i.attempts
    <3>1. l.attempt \in AttemptId
      BY <1>2 DEF InArtifact
    <3> QED
      BY <1>3, <3>1, AppendType, AppendChanges
  <2>2. After(p).journal = j /\ After(p).schema = View(p).schema
    BY <1>6, <2>1, JournalSeen DEF Assured, Presumed, Known
  <2> HIDE DEF m
  <2>3. Underway(m) /\ ArtifactOf(m) = ArtifactOf(l) /\ (Marred(l) => Marred(m))
        /\ l.pc # "conclude"
    BY <1>1, <1>4 DEF Underway, InPhase, ArtifactOf, Marred
  <2>4. CASE txn[p] # NoTxn
    <3>1. Untouched /\ txn'[p] # NoTxn /\ View(p) = txn[p]
      BY <1>2, <1>6, <2>1, <2>4, JournalWrite
         DEF Assured, Presumed, Known, WriteJournal, Write, View, Untouched
    <3>2. txn'[p].schema = txn[p].schema
      BY <2>2, <3>1 DEF After
    <3>3. txn'[p].schema \subseteq
            IF m.effect THEN db.schema \cup Effects(ArtifactOf(l)) ELSE db.schema
      BY <1>1, <1>2, <1>4, <2>4, <3>2 DEF Answerable, InPhase
    <3>4. Answerable(m, txn'[p], db')
      BY <1>2, <1>4, <2>3, <3>1, <3>3, MoveAnswers DEF Untouched
    <3> QED
      BY <1>2, <1>6, <3>1, <3>4, QuietAnswers
  <2>5. CASE txn[p] = NoTxn
    <3>1. /\ db'.journal = j /\ db'.schema = db.schema /\ txn'[p] = NoTxn
          /\ i = db.journal /\ View(p) = db /\ ~l.active
      BY <1>2, <1>6, <2>1, <2>5, JournalCommitted DEF JournalOf, View
    <3>2. UniformProgram(ArtifactOf(l)) => Marred(l)
      <4>1. UniformProgram(ArtifactOf(l)) => Effects(ArtifactOf(l)) # {}
        BY <1>1, <1>2, <3>1 DEF UniformProgram, FlagsTell, InPhase, Unenclosed
      <4>2. UniformProgram(ArtifactOf(l)) => ~Absent(ArtifactOf(l), db)
        BY <1>3, <3>1, <4>1 DEF Absent
      <4> QED
        BY <1>2, <1>3, <4>2 DEF Answerable
    <3>3. db'.journal.attempts[l.attempt].artifact = ArtifactOf(l)
      BY <1>2, <2>1, <3>1
    <3>4. CASE run'[p] = m
      <4>1. m.pc \notin {"require", "history", "audit", "resolve"}
        BY <1>4
      <4> QED
        BY <1>4, <2>3, <3>1, <3>2, <3>3, <3>4, <4>1 DEF Answers, Answerable
    <3>5. CASE run'[p] = Throw(l, "failed")
      <4>1. l.pc \notin {"idle", "close"}
        BY <1>1
      <4>2. Answerable(Throw(l, "failed"), NoTxn, db')
        BY <1>2, <1>3, <3>2, <3>3, <4>1, ThrowAnswers
      <4> QED
        BY <3>1, <3>5, <4>2 DEF Answers
    <3> QED
      BY <1>1, <1>2, <1>6, <3>4, <3>5 DEF Answer, Unanswered
  <2> QED
    BY <2>4, <2>5
<1> QED
  BY <1>5, <1>6 DEF RecordApplied

\* An attempt settled within a transaction is left to its commit; one settled
\* outside is applied.
LEMMA MarkAppliedAnswers ==
  ASSUME Assured, NEW p \in Proc, MarkApplied(p)
  PROVE  Answers(p)
<1> DEFINE l == run[p]
           m == [l EXCEPT !.pc = "commit"]
           i == JournalOf(p)
           j == TransitionAttempt(i, l.attempt, "applied")
<1>1. /\ At(p, l.pc) /\ l.pc = "applied"
      /\ Transition(p, "applied", IF l.active THEN m ELSE Finally(l))
  BY DEF MarkApplied, At
<1>2. /\ l \in Run /\ InArtifact(l) /\ Underway(l) /\ UnderLease(p) /\ FlagsTell(l)
      /\ Answerable(l, txn[p], db) /\ db \in Database /\ run \in [Proc -> Run]
      /\ txn \in [Proc -> Database \cup {NoTxn}]
      /\ db.journal.attempts[l.attempt].artifact = ArtifactOf(l)
      /\ l.active <=> txn[p] # NoTxn
  BY <1>1, AtArtifact DEF InPhase, OutsideTransaction
<1>3. LocalOK(l) /\ i \in Journal /\ i = View(p).journal /\ l.attempt \in AttemptId
  BY <1>1, <1>2, AtAnswerable DEF Critical, ExecutorStep, InArtifact
<1>4. CASE Reject(p, "failed")
  BY <1>2, <1>4, ProceedAnswers
<1>5. CASE /\ CanTransition(i, l.attempt, "applied") /\ WriteJournal(p, j)
           /\ Answer(p, IF l.active THEN m ELSE Finally(l))
  <2>1. /\ j \in Journal /\ StateOf(j, l.attempt) = "applied" /\ j.applied = i.applied
        /\ j.attempts[l.attempt].artifact = i.attempts[l.attempt].artifact
    BY <1>3, <1>5, TransitionAttemptType, TransitionChanges
  <2>2. After(p).journal = j /\ After(p).schema = View(p).schema
    BY <1>5, <2>1, JournalSeen DEF Assured, Presumed, Known
  <2>3. CASE txn[p] # NoTxn
    <3>1. /\ m.repo = l.repo /\ m.n = l.n /\ m.attempt = l.attempt
          /\ m.effect = l.effect /\ m.active = l.active /\ m.pc = "commit"
          /\ m.committed = l.committed /\ m.rolledBack = l.rolledBack
      BY <1>2 DEF Run
    <3>2. Untouched /\ txn'[p] # NoTxn /\ View(p) = txn[p]
      BY <1>2, <1>5, <2>1, <2>3, JournalWrite
         DEF Assured, Presumed, Known, WriteJournal, Write, View, Untouched
    <3>3. Answer(p, m)
      BY <1>2, <1>5, <2>3
    <3> HIDE DEF m
    <3>4. Underway(m) /\ (Marred(l) => Marred(m)) /\ l.pc # "conclude"
      BY <1>1, <3>1 DEF Underway, InPhase, Marred
    <3>5. txn'[p].schema = txn[p].schema
      BY <2>2, <3>2 DEF After
    <3>6. txn'[p].schema \subseteq
            IF m.effect THEN db.schema \cup Effects(ArtifactOf(l)) ELSE db.schema
      BY <1>1, <1>2, <2>3, <3>1, <3>5 DEF Answerable, InPhase
    <3>7. Answerable(m, txn'[p], db')
      BY <1>2, <3>1, <3>2, <3>4, <3>6, MoveAnswers DEF Untouched
    <3> QED
      BY <1>2, <3>2, <3>3, <3>7, QuietAnswers
  <2>4. CASE txn[p] = NoTxn
    <3>1. /\ db'.journal = j /\ db'.schema = db.schema /\ txn'[p] = NoTxn
          /\ i = db.journal /\ Answer(p, Finally(l))
      BY <1>2, <1>5, <2>1, <2>4, JournalCommitted DEF JournalOf, View
    <3>2. /\ StateOf(db'.journal, l.attempt) = "applied"
          /\ db'.journal.attempts[l.attempt].artifact = ArtifactOf(l)
      BY <1>2, <2>1, <3>1
    <3>3. Answerable(Finally(l), NoTxn, db')
      BY <1>2, <3>2, FinallyAnswers
    <3>4. l.pc \notin {"idle", "close", "execute", "commit", "rollback"}
      BY <1>1
    <3>5. Answerable(Throw(l, "failed"), NoTxn, db')
      BY <1>2, <1>3, <3>2, <3>4, ThrowAnswers
    <3> QED
      BY <1>2, <3>1, <3>3, <3>4, <3>5 DEF Answer, Unanswered, Answers
  <2> QED
    BY <2>3, <2>4
<1> QED
  BY <1>1, <1>4, <1>5 DEF Transition

\* The run whose phase commits knows it has; one that does not get the answer has
\* an uncertain outcome, unless nothing but its record was in the transaction.
LEMMA CommitAnswers ==
  ASSUME Assured, NEW p \in Proc, Commit(p)
  PROVE  Answers(p)
<1> DEFINE l == run[p]
           k == [l EXCEPT !.active = FALSE, !.committed = TRUE]
           i == db.journal
           a == ArtifactOf(l)
           h == AppendAppliedAndAdvanceHead(i, a, l.attempt)
<1>1. At(p, l.pc) /\ l.pc = "commit" /\ Answer(p, Finally(k)) /\ db' = txn[p]
      /\ txn' = [txn EXCEPT ![p] = NoTxn]
  BY DEF Commit, At
<1>2. /\ l \in Run /\ InArtifact(l) /\ Underway(l) /\ UnderLease(p)
      /\ FlagsTell(l) /\ Answerable(l, txn[p], db) /\ i \in Journal
      /\ txn \in [Proc -> Database \cup {NoTxn}] /\ run \in [Proc -> Run]
      /\ i.attempts[l.attempt].artifact = a
  BY <1>1, AtArtifact DEF InPhase
<1>3. /\ LocalOK(l) /\ txn[p] # NoTxn /\ a \in Artifact /\ l.attempt \in AttemptId
      /\ OpenAttempts(i) = {l.attempt}
      /\ IF FinalPhase(l) THEN IsSettled(l, i, txn[p].journal) ELSE txn[p].journal = i
  <2>1. txn[p] # NoTxn
    BY <1>1, CommitPublishes DEF Assured, Presumed
  <2> QED
    BY <1>1, <1>2, <2>1, AtAnswerable, PhasesType
       DEF Critical, ExecutorStep, AttemptsFit, Attempting, TransactionFits, InPhase,
           InArtifact
<1>4. FinalPhase(l) =>
        /\ db'.journal.attempts[l.attempt].artifact = a
        /\ StateOf(db'.journal, l.attempt) = "applied"
  <2>1. h \in Journal /\ h.attempts = i.attempts
    BY <1>2, <1>3, AppendType, AppendChanges
  <2>2. FinalPhase(l) => /\ CanTransition(h, l.attempt, "applied")
                         /\ db'.journal = TransitionAttempt(h, l.attempt, "applied")
    BY <1>1, <1>3 DEF IsSettled
  <2> HIDE DEF h
  <2> QED
    BY <1>2, <1>3, <2>1, <2>2, TransitionChanges
<1>5. db'.journal.attempts[l.attempt].artifact = a
  BY <1>1, <1>2, <1>3, <1>4
<1>6. StateOf(i, l.attempt) # "applied" /\ txn'[p] = NoTxn
  BY <1>1, <1>2, <1>3 DEF OpenAttempts, Unresolved
<1>7. Answerable(Finally(k), NoTxn, db')
  <2>1. InArtifact(k) /\ k.attempt = l.attempt /\ ArtifactOf(k) = a /\ k.committed
    BY <1>2 DEF InArtifact, Run, ArtifactOf
  <2> HIDE DEF k
  <2> QED
    BY <1>5, <2>1, FinallyAnswers
<1>8. Answerable(Throw(l, "uncertain"), NoTxn, db')
  <2>1. db.schema \subseteq txn[p].schema
    BY <1>2, <1>3, LeaseVouches DEF Assured, Vouches
  <2>2. ~l.effect => db'.schema = db.schema
    BY <1>1, <1>2, <1>3, <2>1 DEF Answerable, InPhase
  <2>3. ASSUME UniformProgram(a), ~l.effect
        PROVE  \/ Marred(l) \/ Absent(a, db') \/ StateOf(db'.journal, l.attempt) = "applied"
    <3>1. Marred(l) \/ Absent(a, db)
      BY <1>2, <1>6, <2>3 DEF Answerable
    <3>2. ~FinalPhase(l) /\ Absent(a, db) => Absent(a, db')
      BY <1>1, <1>3, <2>2, <2>3 DEF Absent
    <3> QED
      BY <1>4, <3>1, <3>2
  <2>4. l.pc \notin {"idle", "close"}
    BY <1>1
  <2> QED
    BY <1>1, <1>2, <1>3, <1>5, <2>3, <2>4, ThrowAnswers
<1> QED
  BY <1>1, <1>2, <1>6, <1>7, <1>8 DEF Answer, Unanswered, Answers

\* Behind the DDL lock the run is where the phase left it.
LEMMA ReleaseDdlLockAnswers ==
  ASSUME Assured, NEW p \in Proc, ReleaseDdlLock(p)
  PROVE  Answers(p)
<1> DEFINE l == run[p]
           k == [l EXCEPT !.locked = FALSE]
<1>1. /\ At(p, l.pc) /\ l.pc = "unlock" /\ Answer(p, AfterFinally(k))
      /\ db' = db /\ txn' = txn
  BY DEF ReleaseDdlLock, At
<1>2. /\ l \in Run /\ InArtifact(l) /\ Underway(l) /\ UnderLease(p) /\ l.pc # "conclude"
      /\ Answerable(l, txn[p], db)
      /\ db.journal.attempts[l.attempt].artifact = ArtifactOf(l)
      /\ l.error = "none" => txn[p] = NoTxn
  BY <1>1, AtArtifact DEF OutsideTransaction
<1>3. InArtifact(k) /\ Keeps(l, k) /\ k.active = l.active /\ k.error = l.error
  BY <1>2 DEF InArtifact, Run, Keeps
<1> HIDE DEF k
<1>4. ArtifactOf(k) = ArtifactOf(l)
  BY <1>3, KeepsArtifact
<1>5. UniformProgram(ArtifactOf(l)) =>
        \/ l.committed \/ (l.effect /\ ~l.active /\ ~l.rolledBack)
        \/ Absent(ArtifactOf(l), db)
        \/ StateOf(db.journal, l.attempt) = "applied"
  BY <1>2, Answered
<1>6. Answerable(AfterFinally(k), txn[p], db)
  BY <1>2, <1>3, <1>4, <1>5, FinallyAnswers DEF Keeps
<1> QED
  BY <1>1, <1>2, <1>6, QuietAnswers DEF Untouched

\* What is rolled back was in the transaction, or beyond it and committed.
LEMMA RollbackAnswers ==
  ASSUME Assured, NEW p \in Proc, Rollback(p) \/ CommitRefused(p)
  PROVE  Answers(p)
<1> DEFINE l == run[p]
           m == [l EXCEPT !.active = FALSE, !.rolledBack = TRUE, !.pc = "conclude"]
<1>1. At(p, l.pc) /\ l.pc \in {"rollback", "commit"} /\ Untouched
  BY DEF Rollback, CommitRefused, At, Untouched
<1>2. /\ l \in Run /\ InArtifact(l) /\ Underway(l) /\ UnderLease(p) /\ FlagsTell(l)
      /\ Answerable(l, txn[p], db)
  BY <1>1, AtArtifact DEF InPhase
<1>3. CASE CommitRefused(p)
  BY <1>1, <1>2, <1>3, ThrownAnswers DEF CommitRefused
<1>4. CASE Rollback(p)
  <2>1. l.pc = "rollback" /\ Answer(p, m) /\ l.active
    BY <1>2, <1>4 DEF Rollback, At, FlagsTell
  <2>2. /\ m.repo = l.repo /\ m.n = l.n /\ m.attempt = l.attempt /\ m.pc = "conclude"
        /\ m.committed = l.committed
    BY <1>2 DEF Run
  <2> HIDE DEF m
  <2>3. Underway(m) /\ (Marred(l) => Marred(m)) /\ m.pc \notin InPhase
    BY <2>1, <2>2 DEF Underway, InPhase, Marred
  <2>4. Answerable(m, txn'[p], db')
    BY <1>1, <1>2, <2>1, <2>2, <2>3, MoveAnswers DEF Untouched
  <2> QED
    BY <1>1, <1>2, <2>1, <2>4, QuietAnswers
<1> QED
  BY <1>3, <1>4

\* A reconciliation that settles nothing.
LEMMA RejectAnswers ==
  ASSUME Assured, NEW p \in Proc, UnderLease(p), run[p].pc \in ReconcileStep,
         Reject(p, "failed")
  PROVE  Answers(p)
<1>1. Answerable(Idle, txn'[p], db')
  BY NothingToAnswer DEF Idle
<1> QED
  BY <1>1, LeavingAnswers

\* The proof of an absence holds until the attempt is settled.
LEMMA VerifyAnswers ==
  ASSUME Assured, NEW p \in Proc, VerifyOutcome(p) \/ RequireRecovery(p)
  PROVE  Answers(p)
<1> DEFINE l == run[p]
           i == db.journal
           k == l.attempt
           at(pc) == [l EXCEPT !.pc = pc]
           j == TransitionAttempt(i, k, "recovery_required")
<1>1. At(p, l.pc) /\ l.pc \in {"verify", "require"}
  BY DEF VerifyOutcome, RequireRecovery, At
<1>2. /\ l \in Run /\ k \in AttemptId /\ i \in Journal /\ txn[p] = NoTxn /\ View(p) = db
      /\ JournalOf(p) = i /\ UnderLease(p) /\ Answerable(l, txn[p], db)
      /\ l.pc \in ReconcileStep
  BY <1>1, AtAnswerable, ReconcileFits
     DEF Assured, Presumed, Known, ReconcileStep, Critical
<1>3. \A pc : at(pc).pc = pc /\ at(pc).attempt = k /\ at(pc).outcome = l.outcome
  BY <1>2 DEF Run
<1> HIDE DEF at
<1>4. ASSUME NEW d, NEW pc \in {"history", "require"},
             l.outcome = "rolled_back" =>
               Effects(d.journal.attempts[k].artifact) \cap d.schema = {}
      PROVE  Answerable(at(pc), NoTxn, d)
  BY <1>3, <1>4 DEF Answerable, Underway, InPhase
<1>5. CASE VerifyOutcome(p)
  <2>1. \/ /\ Proven(db, k, l.outcome)
           /\ \E pc \in {"require", "history"} : Proceed(p, at(pc))
        \/ Reject(p, "failed")
    BY <1>2, <1>5 DEF VerifyOutcome, at
  <2>2. CASE /\ Proven(db, k, l.outcome)
             /\ \E pc \in {"require", "history"} : Proceed(p, at(pc))
    <3>1. \A pc \in {"require", "history"} : Answerable(at(pc), txn[p], db)
      BY <1>2, <1>4, <2>2 DEF Proven
    <3> QED
      BY <1>2, <2>2, <3>1, ProceedAnswers
  <2> QED
    BY <1>2, <2>1, <2>2, RejectAnswers
<1>6. CASE RequireRecovery(p)
  <2>1. Transition(p, "recovery_required", at("history")) /\ l.pc = "require"
    BY <1>6 DEF RequireRecovery, At, at
  <2>2. CASE Reject(p, "failed")
    BY <1>2, <2>2, RejectAnswers
  <2>3. CASE /\ CanTransition(i, k, "recovery_required") /\ WriteJournal(p, j)
             /\ Answer(p, at("history"))
    <3>1. j \in Journal /\ j.attempts[k].artifact = i.attempts[k].artifact
      BY <1>2, <2>3, TransitionAttemptType, TransitionChanges
    <3>2. db'.journal = j /\ db'.schema = db.schema /\ txn'[p] = NoTxn
      BY <1>2, <2>3, <3>1, JournalCommitted
    <3>3. Answerable(at("history"), txn'[p], db')
      BY <1>2, <1>4, <2>1, <3>1, <3>2 DEF Answerable
    <3> QED
      BY <1>2, <2>3, <3>3, LeavingAnswers
  <2> QED
    BY <1>2, <2>1, <2>2, <2>3 DEF Transition
<1> QED
  BY <1>5, <1>6

\* So does the absence of a record that the outcome has been checked against.
LEMMA ReconcileAnswers ==
  ASSUME Assured, NEW p \in Proc, ReconcileHistory(p) \/ RecordOutcome(p)
  PROVE  Answers(p)
<1> DEFINE l == run[p]
           i == db.journal
           k == l.attempt
           at(pc) == [l EXCEPT !.pc = pc]
           r == RecordReconciliation(i, k, l.outcome)
<1>1. At(p, l.pc) /\ l.pc \in {"history", "audit"}
  BY DEF ReconcileHistory, RecordOutcome, At
<1>2. /\ l \in Run /\ k \in AttemptId /\ i \in Journal /\ txn[p] = NoTxn /\ View(p) = db
      /\ JournalOf(p) = i /\ UnderLease(p) /\ Answerable(l, txn[p], db)
      /\ l.pc \in ReconcileStep
  BY <1>1, AtAnswerable, ReconcileFits
     DEF Assured, Presumed, Known, ReconcileStep, Critical
<1>3. \A pc : at(pc).pc = pc /\ at(pc).attempt = k /\ at(pc).outcome = l.outcome
  BY <1>2 DEF Run
<1> HIDE DEF at
<1>4. ASSUME NEW t, NEW d, NEW pc \in {"audit", "resolve"},
             l.outcome = "rolled_back" =>
               /\ Effects(d.journal.attempts[k].artifact) \cap d.schema = {}
               /\ k \notin RecordedBy(d.journal)
      PROVE  Answerable(at(pc), t, d)
  BY <1>3, <1>4 DEF Answerable, Underway, InPhase
<1>5. l.outcome = "rolled_back" => Effects(i.attempts[k].artifact) \cap db.schema = {}
  BY <1>1, <1>2 DEF Answerable
<1>6. CASE ReconcileHistory(p)
  <2>1. \/ l.outcome = "applied" /\ Answer(p, at("audit"))
        \/ /\ l.outcome # "applied" => k \notin RecordedBy(i)
           /\ Proceed(p, at("audit"))
        \/ Reject(p, "failed")
    BY <1>2, <1>6 DEF ReconcileHistory, at
  <2>2. CASE l.outcome = "applied" /\ Answer(p, at("audit"))
    <3>1. Answerable(at("audit"), txn'[p], db')
      BY <1>4, <2>2
    <3> QED
      BY <1>2, <2>2, <3>1, LeavingAnswers
  <2>3. CASE (l.outcome # "applied" => k \notin RecordedBy(i)) /\ Proceed(p, at("audit"))
    <3>1. Answerable(at("audit"), txn[p], db)
      BY <1>4, <1>5, <2>3
    <3> QED
      BY <1>2, <2>3, <3>1, ProceedAnswers
  <2> QED
    BY <1>2, <2>1, <2>2, <2>3, RejectAnswers
<1>7. CASE RecordOutcome(p)
  <2>1. l.pc = "audit"
    BY <1>7 DEF RecordOutcome, At
  <2>2. \/ WriteJournal(p, r) /\ Answer(p, at("resolve"))
        \/ Proceed(p, at("resolve"))
        \/ Reject(p, "failed")
    BY <1>2, <1>7 DEF RecordOutcome, at
  <2>3. l.outcome = "rolled_back" => k \notin RecordedBy(i)
    BY <1>2, <2>1 DEF Answerable
  <2>4. CASE WriteJournal(p, r) /\ Answer(p, at("resolve"))
    <3>1. r \in Journal /\ r.attempts = i.attempts /\ r.applied = i.applied
      BY <1>2, RecordReconciliationType DEF RecordReconciliation, Journal, Run
    <3> HIDE DEF r
    <3>2. db'.journal = r /\ db'.schema = db.schema
      BY <1>2, <2>4, <3>1, JournalCommitted
    <3>3. RecordedBy(r) = RecordedBy(i)
      BY <3>1 DEF RecordedBy
    <3>4. Answerable(at("resolve"), txn'[p], db')
      BY <1>4, <1>5, <2>3, <3>1, <3>2, <3>3
    <3> QED
      BY <1>2, <2>4, <3>4, LeavingAnswers
  <2>5. CASE Proceed(p, at("resolve"))
    <3>1. Answerable(at("resolve"), txn[p], db)
      BY <1>4, <1>5, <2>3
    <3> QED
      BY <1>2, <2>5, <3>1, ProceedAnswers
  <2> QED
    BY <1>2, <2>2, <2>4, <2>5, RejectAnswers
<1> QED
  BY <1>6, <1>7

\* A step of the code under the lease.
LEMMA StepsAnswer ==
  ASSUME Assured, NEW p \in Proc,
         WorkingStep(p) \/ BeginTransaction(p) \/ Commit(p) \/ CommitRefused(p)
         \/ Rollback(p) \/ ReleaseLease(p)
  PROVE  Answers(p)
BY EarlyAnswers, CreateAnswers, MarkRunningAnswers, PhaseAnswers, BeginAnswers,
   CheckPostconditionsAnswers, ExecuteAnswers, RecordAppliedAnswers, MarkAppliedAnswers,
   CommitAnswers, ReleaseDdlLockAnswers, RollbackAnswers, VerifyAnswers,
   ReconcileAnswers
   DEF WorkingStep

-----------------------------------------------------------------------------
(* What a step may do to schema, attempts and records. *)

\* An attempt stays at its artifact.
LEMMA StepKeepsArtifacts ==
  ASSUME NEW i \in Journal, NEW j, JournalStep(i, j), NEW k \in AttemptId,
         StateOf(i, k) # "none"
  PROVE  j.attempts[k].artifact = i.attempts[k].artifact
<1>1. ASSUME NEW m \in AttemptId, NEW s, NEW h \in Journal, h.attempts = i.attempts,
             CanTransition(h, m, s), j = TransitionAttempt(h, m, s)
      PROVE  j.attempts[k].artifact = i.attempts[k].artifact
  BY <1>1, TransitionChanges
<1>2. \A m \in OpenAttempts(i), a \in Artifact :
        LET h == AppendAppliedAndAdvanceHead(i, a, m)
        IN  h \in Journal /\ h.attempts = i.attempts /\ m \in AttemptId
  BY AppendType, SameAttempts DEF OpenAttempts
<1>3. \A m, outcome : RecordReconciliation(i, m, outcome).attempts = i.attempts
  BY SameAttempts
<1>4. \A m \in AttemptId, a \in Artifact, e \in Digest :
        CanCreate(i, m) => CreateAttempt(i, m, a, e).attempts[k] = i.attempts[k]
  BY CreateChanges DEF CanCreate
<1> QED
  BY <1>1, <1>2, <1>3, <1>4 DEF JournalStep

\* A record that is new is one of an open attempt.
LEMMA StepRecords ==
  ASSUME NEW i \in Journal, NEW j, JournalStep(i, j), NEW n \in 1..Len(j.applied)
  PROVE  \/ n \in 1..Len(i.applied) /\ j.applied[n] = i.applied[n]
         \/ j.applied[n].attempt \in OpenAttempts(i)
<1>1. ASSUME NEW m \in OpenAttempts(i), NEW a \in Artifact,
             LET h == AppendAppliedAndAdvanceHead(i, a, m)
             IN  j = h \/ \E s : CanTransition(h, m, s) /\ j = TransitionAttempt(h, m, s)
      PROVE  \/ n \in 1..Len(i.applied) /\ j.applied[n] = i.applied[n]
             \/ j.applied[n].attempt \in OpenAttempts(i)
  <2> DEFINE h == AppendAppliedAndAdvanceHead(i, a, m)
  <2>1. m \in AttemptId /\ h \in Journal
    BY AppendType DEF OpenAttempts
  <2>2. /\ Len(i.applied) \in Nat /\ Len(h.applied) = Len(i.applied) + 1
        /\ \A x \in 1..Len(i.applied) : h.applied[x] = i.applied[x]
        /\ h.applied[Len(i.applied) + 1].attempt = m
    BY <2>1, AppendChanges
  <2> HIDE DEF h
  <2>3. j.applied = h.applied
    BY <1>1, <2>1, TransitionChanges DEF h
  <2>4. n \in 1..Len(i.applied) \/ n = Len(i.applied) + 1
    BY <2>2, <2>3
  <2> QED
    BY <2>2, <2>3, <2>4
<1>2. \A m \in AttemptId : \A s : CanTransition(i, m, s) =>
        TransitionAttempt(i, m, s).applied = i.applied
  BY TransitionChanges
<1>3. \A m, a, e, outcome : /\ CreateAttempt(i, m, a, e).applied = i.applied
                            /\ RecordReconciliation(i, m, outcome).applied = i.applied
  BY DEF CreateAttempt, RecordReconciliation, Journal
<1> QED
  BY <1>1, <1>2, <1>3 DEF JournalStep

\* An effect that is new in the schema is one of the artifact of an open attempt.
NewEffectsOpen ==
  \A effect \in db'.schema \ db.schema :
    \E k \in OpenAttempts(db.journal) :
      effect \in Effects(db.journal.attempts[k].artifact)

LEMMA ExecuteOpens ==
  ASSUME Assured, NEW p \in Proc, ExecuteStatement(p) \/ Commit(p)
  PROVE  NewEffectsOpen
<1> DEFINE l == run[p]
           d == [View(p) EXCEPT !.schema = @ \cup {EffectOf(l)}]
<1>1. At(p, l.pc) /\ l.pc \in {"execute", "commit"}
  BY DEF ExecuteStatement, Commit, At
<1>2. /\ l \in Run /\ Answerable(l, txn[p], db) /\ db \in Database
      /\ db.journal.attempts[l.attempt].artifact = ArtifactOf(l)
  BY <1>1, AtArtifact DEF InPhase
<1>3. LocalOK(l) /\ l.attempt \in OpenAttempts(db.journal)
  BY <1>1, AtAnswerable
     DEF Critical, ExecutorStep, AttemptsFit, Attempting, InPhase
<1>4. db'.schema \subseteq db.schema \cup Effects(ArtifactOf(l))
  <2>1. CASE ExecuteStatement(p)
    <3>1. l.pc = "execute" /\ Write(p, d)
      BY <2>1 DEF ExecuteStatement, At
    <3>2. EffectOf(l) \in Effects(ArtifactOf(l))
      BY <1>2, <1>3, <2>1, <3>1, EffectBelongs DEF ExecuteStatement
    <3>3. txn[p] = NoTxn => d.schema = db.schema \cup {EffectOf(l)}
      BY <1>2 DEF View, Database
    <3> HIDE DEF d
    <3> QED
      BY <3>1, <3>2, <3>3 DEF Write
  <2>2. CASE Commit(p)
    <3>1. txn[p] # NoTxn /\ db' = txn[p] /\ l.pc = "commit"
      BY <2>2, CommitPublishes DEF Assured, Presumed, Commit, At
    <3> QED
      BY <1>2, <3>1 DEF Answerable, InPhase
  <2> QED
    BY <2>1, <2>2
<1> QED
  BY <1>2, <1>3, <1>4 DEF NewEffectsOpen

LEMMA NextOpens ==
  ASSUME Assured, [Next]_vars
  PROVE  NewEffectsOpen
<1>1. db \in Database /\ \A p \in Proc : View(p) \in Database
  BY ViewType DEF Assured, Presumed, Known, Sound, TypeOK
<1>2. db'.schema = db.schema => NewEffectsOpen
  BY DEF NewEffectsOpen
<1>3. ASSUME NEW p \in Proc,
             \/ CreateAttemptRow(p) \/ MarkRunning(p) \/ RecordApplied(p) \/ MarkApplied(p)
             \/ ConcludeAttempt(p) \/ RequireRecovery(p) \/ ReconcileHistory(p)
             \/ RecordOutcome(p) \/ ResolveAttempt(p)
      PROVE  NewEffectsOpen
  <2>1. (\E j : WriteJournal(p, j)) \/ db' = db
    BY <1>3 DEF CreateAttemptRow, MarkRunning, RecordApplied, MarkApplied,
       ConcludeAttempt, RequireRecovery, ReconcileHistory, RecordOutcome, ResolveAttempt,
       Transition, Proceed, Reject
  <2>2. db' = db \/ \E j : db' = [db EXCEPT !.journal = j]
    BY <2>1 DEF WriteJournal, Write, View
  <2> QED
    BY <1>1, <1>2, <2>2 DEF Database
<1>4. ASSUME NEW p \in Proc,
             \/ ReadJournal(p) \/ SelectArtifact(p) \/ AcquireDdlLock(p)
             \/ BeginTransaction(p) \/ CheckPreconditions(p) \/ CheckPostconditions(p)
             \/ ReleaseDdlLock(p) \/ Rollback(p) \/ VerifyOutcome(p)
             \/ CallDisconnected(p) \/ CommitRefused(p) \/ StartApply(p)
             \/ StartReconcile(p) \/ Fail(p) \/ LoseConnection(p) \/ Crash(p)
             \/ EndClient(p)
      PROVE  NewEffectsOpen
  BY <1>2, <1>4 DEF ReadJournal, SelectArtifact, AcquireDdlLock, BeginTransaction,
     CheckPreconditions, CheckPostconditions, ReleaseDdlLock, Rollback, VerifyOutcome,
     CallDisconnected, CommitRefused, StartApply, StartReconcile, Fail, LoseConnection,
     Crash, EndClient, Proceed, Reject
<1>5. ASSUME NEW p \in Proc,
             AcquireLease(p) \/ ReleaseLease(p) \/ CloseSession(p) \/ CheckpointStatement(p)
      PROVE  NewEffectsOpen
  <2>1. db'.schema = db.schema
    BY <1>1, <1>5 DEF AcquireLease, ReleaseLease, CloseSession, CheckpointStatement, Write,
                      View, Database
  <2> QED
    BY <1>2, <2>1
<1>6. CASE Repair
  <2>1. PICK k \in OpenAttempts(db.journal) :
          \E schema \in {db.schema \cup Effects(db.journal.attempts[k].artifact),
                         db.schema \ Effects(db.journal.attempts[k].artifact)} :
            db' = [db EXCEPT !.schema = schema]
    BY <1>6 DEF Repair
  <2>2. db'.schema \subseteq db.schema \cup Effects(db.journal.attempts[k].artifact)
    BY <1>1, <2>1 DEF Database
  <2> QED
    BY <2>2 DEF NewEffectsOpen
<1>7. CASE ClearLeaseRow \/ UNCHANGED vars
  <2>1. db'.schema = db.schema
    BY <1>1, <1>7 DEF ClearLeaseRow, vars, Database
  <2> QED
    BY <1>2, <2>1
<1>8. ASSUME NEW p \in Proc, Continue(p)
      PROVE  NewEffectsOpen
  BY <1>3, <1>4, <1>5, <1>8, ExecuteOpens DEF Continue
<1> QED
  BY <1>4, <1>6, <1>7, <1>8 DEF Next

-----------------------------------------------------------------------------
(* Who calls an attempt rolled back. *)

\* The catch of a failed run does, or a reconciliation.
RollsBack(p, k) ==
  /\ \/ ConcludeAttempt(p) /\ FailedState(run[p]) = "rolled_back"
     \/ ResolveAttempt(p) /\ run[p].outcome = "rolled_back"
  /\ run[p].attempt = k /\ db'.schema = db.schema
  /\ CanTransition(db.journal, k, "rolled_back")
  /\ db'.journal = TransitionAttempt(db.journal, k, "rolled_back")

LEMMA TransitionRollsBack ==
  ASSUME Assured, NEW p \in Proc, NEW s, NEW l, Transition(p, s, l), NEW k \in AttemptId,
         StateOf(db.journal, k) # "rolled_back", StateOf(db'.journal, k) = "rolled_back"
  PROVE  /\ s = "rolled_back" /\ run[p].attempt = k /\ db'.schema = db.schema
         /\ CanTransition(db.journal, k, "rolled_back")
         /\ db'.journal = TransitionAttempt(db.journal, k, "rolled_back")
<1> DEFINE m == run[p].attempt
           j == TransitionAttempt(JournalOf(p), m, s)
<1>1. db \in Database /\ db.journal \in Journal
  BY DEF Assured, Presumed, Known, Sound, TypeOK, Database
<1>2. CanTransition(JournalOf(p), m, s) /\ WriteJournal(p, j)
  BY DEF Transition, Reject, Proceed
<1>3. txn[p] = NoTxn
  BY <1>2 DEF WriteJournal, Write
<1>4. JournalOf(p) = db.journal /\ db' = [db EXCEPT !.journal = j]
  BY <1>2, <1>3 DEF WriteJournal, Write, JournalOf, View
<1>5. db'.journal = j /\ db'.schema = db.schema
  BY <1>1, <1>4 DEF Database
<1>6. m \in AttemptId
  <2>1. m \notin AttemptId => db'.journal.attempts[k] = db.journal.attempts[k]
    BY <1>1, <1>4, <1>5 DEF TransitionAttempt, Journal
  <2> QED
    BY <2>1 DEF StateOf
<1>7. m = k /\ s = "rolled_back"
  <2>1. /\ StateOf(TransitionAttempt(db.journal, m, s), m) = s
        /\ m # k => TransitionAttempt(db.journal, m, s).attempts[k] = db.journal.attempts[k]
    BY <1>1, <1>2, <1>4, <1>6, TransitionChanges
  <2> QED
    BY <1>4, <1>5, <2>1 DEF StateOf
<1> QED
  BY <1>2, <1>4, <1>5, <1>7

LEMMA CommitRollsNothingBack ==
  ASSUME Assured, NEW p \in Proc, Commit(p), NEW k \in AttemptId,
         StateOf(db.journal, k) # "rolled_back"
  PROVE  StateOf(db'.journal, k) # "rolled_back"
<1> DEFINE l == run[p]
           i == db.journal
           h == AppendAppliedAndAdvanceHead(i, ArtifactOf(l), l.attempt)
<1>1. At(p, l.pc) /\ l.pc = "commit" /\ db' = txn[p]
  BY DEF Commit, At
<1>2. txn[p] # NoTxn
  BY <1>1, CommitPublishes DEF Assured, Presumed
<1>3. /\ i \in Journal /\ InArtifact(l) /\ l.attempt \in AttemptId
      /\ IF FinalPhase(l) THEN IsSettled(l, i, txn[p].journal) ELSE txn[p].journal = i
  BY <1>1, <1>2, AtArtifact, AtAnswerable
     DEF Critical, ExecutorStep, AttemptsFit, TransactionFits, InPhase, LocalOK, AttemptOK
<1>4. CASE ~FinalPhase(l)
  BY <1>1, <1>3, <1>4
<1>5. CASE FinalPhase(l)
  <2>1. ArtifactOf(l) \in Artifact
    BY <1>3, PhasesType DEF InArtifact
  <2>2. h \in Journal /\ h.attempts = i.attempts
    BY <1>3, <2>1, AppendType, AppendChanges
  <2>3. CanTransition(h, l.attempt, "applied")
        /\ db'.journal = TransitionAttempt(h, l.attempt, "applied")
    BY <1>1, <1>3, <1>5 DEF IsSettled
  <2> HIDE DEF h
  <2>4. /\ StateOf(db'.journal, l.attempt) = "applied"
        /\ k # l.attempt => db'.journal.attempts[k] = h.attempts[k]
    BY <1>3, <2>2, <2>3, TransitionChanges
  <2> QED
    BY <2>2, <2>4 DEF StateOf
<1> QED
  BY <1>4, <1>5

LEMMA NextRollsBack ==
  ASSUME Assured, [Next]_vars, NEW k \in AttemptId,
         StateOf(db.journal, k) # "rolled_back", StateOf(db'.journal, k) = "rolled_back"
  PROVE  \E p \in Proc : RollsBack(p, k)
<1> DEFINE i == db.journal
<1>1. db \in Database /\ i \in Journal /\ \A p \in Proc : View(p) \in Database
  BY ViewType DEF Assured, Presumed, Known, Sound, TypeOK, Database
<1>2. db'.journal.attempts # i.attempts
  BY DEF StateOf
<1>3. db'.journal # i /\ db' # db
  BY <1>2
<1>4. ASSUME NEW p \in Proc, NEW j, j.attempts = JournalOf(p).attempts, WriteJournal(p, j)
      PROVE  FALSE
  <2>1. txn[p] = NoTxn
    BY <1>3, <1>4 DEF WriteJournal, Write
  <2>2. db' = [db EXCEPT !.journal = j] /\ JournalOf(p) = i
    BY <1>4, <2>1 DEF WriteJournal, Write, View, JournalOf
  <2> QED
    BY <1>1, <1>2, <1>4, <2>2 DEF Database
<1>5. ASSUME NEW p \in Proc, CreateAttemptRow(p)
      PROVE  FALSE
  <2>1. PICK n \in AttemptId, a \in {ArtifactOf(run[p])}, e \in {run[p].head} :
          WriteJournal(p, CreateAttempt(JournalOf(p), n, a, e))
    BY <1>3, <1>5 DEF CreateAttemptRow, Reject, Proceed
  <2> DEFINE j == CreateAttempt(JournalOf(p), n, a, e)
  <2>2. txn[p] = NoTxn
    BY <1>3, <2>1 DEF WriteJournal, Write
  <2>3. JournalOf(p) = i /\ db' = [db EXCEPT !.journal = j]
    BY <2>1, <2>2 DEF WriteJournal, Write, JournalOf, View
  <2>4. db'.journal = j
    BY <1>1, <2>3 DEF Database
  <2>5. StateOf(j, n) = "started" /\ (n # k => j.attempts[k] = i.attempts[k])
    BY <1>1, <2>3, CreateChanges
  <2> HIDE DEF j
  <2> QED
    BY <2>4, <2>5 DEF StateOf
<1>6. ASSUME NEW p \in Proc, RecordApplied(p) \/ ReconcileHistory(p) \/ RecordOutcome(p)
      PROVE  FALSE
  <2>1. PICK j : WriteJournal(p, j) /\
          \/ \E a, m : j = AppendAppliedAndAdvanceHead(JournalOf(p), a, m)
          \/ \E m, outcome : j = RecordReconciliation(JournalOf(p), m, outcome)
    BY <1>3, <1>6 DEF RecordApplied, ReconcileHistory, RecordOutcome, Reject, Proceed
  <2>2. JournalOf(p) \in Journal
    BY <1>1 DEF JournalOf, Database
  <2>3. j.attempts = JournalOf(p).attempts
    BY <2>1, <2>2, SameAttempts
  <2> QED
    BY <1>4, <2>1, <2>3
<1>7. ASSUME NEW p \in Proc,
             \/ MarkRunning(p) \/ MarkApplied(p) \/ ConcludeAttempt(p)
             \/ RequireRecovery(p) \/ ResolveAttempt(p)
      PROVE  RollsBack(p, k)
  BY <1>7, TransitionRollsBack
     DEF MarkRunning, MarkApplied, ConcludeAttempt, RequireRecovery, ResolveAttempt,
         RollsBack
<1>8. ASSUME NEW p \in Proc,
             \/ ReadJournal(p) \/ SelectArtifact(p) \/ AcquireDdlLock(p)
             \/ BeginTransaction(p) \/ CheckPreconditions(p) \/ CheckPostconditions(p)
             \/ ReleaseDdlLock(p) \/ Rollback(p) \/ VerifyOutcome(p)
             \/ CallDisconnected(p) \/ CommitRefused(p) \/ StartApply(p)
             \/ StartReconcile(p) \/ Fail(p) \/ LoseConnection(p) \/ Crash(p)
             \/ EndClient(p)
      PROVE  FALSE
  BY <1>3, <1>8 DEF ReadJournal, SelectArtifact, AcquireDdlLock, BeginTransaction,
     CheckPreconditions, CheckPostconditions, ReleaseDdlLock, Rollback, VerifyOutcome,
     CallDisconnected, CommitRefused, StartApply, StartReconcile, Fail, LoseConnection,
     Crash, EndClient, Proceed, Reject
<1>9. ASSUME NEW p \in Proc,
             \/ AcquireLease(p) \/ ReleaseLease(p) \/ CloseSession(p)
             \/ ExecuteStatement(p) \/ CheckpointStatement(p)
      PROVE  FALSE
  BY <1>1, <1>3, <1>9 DEF AcquireLease, ReleaseLease, CloseSession, ExecuteStatement,
     CheckpointStatement, Write, View, Database
<1>10. ~(Repair \/ ClearLeaseRow \/ UNCHANGED vars)
  BY <1>1, <1>3 DEF Repair, ClearLeaseRow, vars, Database
<1>11. ASSUME NEW p \in Proc, Continue(p)
       PROVE  RollsBack(p, k)
  BY <1>5, <1>6, <1>7, <1>8, <1>9, <1>11, CommitRollsNothingBack DEF Continue
<1> QED
  BY <1>8, <1>10, <1>11 DEF Next

-----------------------------------------------------------------------------
(* Nothing is there of an artifact whose attempts were all rolled back. *)

\* Whoever calls an attempt rolled back answers for its artifact.
LEMMA RollsBackAbsent ==
  ASSUME Assured, NEW p \in Proc, NEW k \in AttemptId, RollsBack(p, k),
         UniformProgram(db.journal.attempts[k].artifact)
  PROVE  /\ Absent(db.journal.attempts[k].artifact, db')
         /\ db'.journal.attempts[k].artifact = db.journal.attempts[k].artifact
<1> DEFINE l == run[p]
           i == db.journal
           a == i.attempts[k].artifact
<1>1. At(p, l.pc) /\ l.pc \in {"conclude", "resolve"} /\ l.attempt = k
  BY DEF RollsBack, ConcludeAttempt, ResolveAttempt, At
<1>2. i \in Journal /\ Answerable(l, txn[p], db)
  BY <1>1, AtAnswerable DEF Critical, ExecutorStep, ReconcileStep
<1>3. /\ db'.journal.applied = i.applied /\ db'.journal.attempts[k].artifact = a
      /\ StateOf(i, k) \in Unresolved
  BY <1>2, TransitionChanges DEF RollsBack
<1>4. db'.schema = db.schema /\ Recorded(db'.journal) = Recorded(i)
  BY <1>3 DEF RollsBack, Recorded
<1>5. CASE ConcludeAttempt(p) /\ FailedState(l) = "rolled_back"
  <2>1. Underway(l) /\ l.pc = "conclude" /\ a = ArtifactOf(l)
    BY <1>1, <1>2, <1>5 DEF Answerable, Underway, ConcludeAttempt, At
  <2>2. ~Marred(l)
    BY <1>5 DEF FailedState, Marred
  <2>3. StateOf(i, k) # "applied"
    BY <1>3 DEF Unresolved
  <2>4. Absent(a, db)
    BY <1>1, <1>2, <2>1, <2>2, <2>3 DEF Answerable
  <2> QED
    BY <1>3, <1>4, <2>4 DEF Absent
<1>6. CASE ResolveAttempt(p) /\ l.outcome = "rolled_back"
  <2>1. Effects(a) \cap db.schema = {} /\ k \notin RecordedBy(i)
    BY <1>1, <1>2, <1>6 DEF Answerable, ResolveAttempt, At
  <2>2. k \in OpenAttempts(i) /\ OpenUnrecorded(i)
    BY <1>3 DEF OpenAttempts, Assured, Presumed, Known, Recording, RecordsOK
  <2>3. a \notin Recorded(i)
    BY <2>1, <2>2 DEF OpenUnrecorded, Recorded, RecordedBy
  <2> QED
    BY <1>3, <1>4, <2>1, <2>3 DEF Absent
<1> QED
  BY <1>5, <1>6 DEF RollsBack

\* An artifact at which nothing changes hands stays absent: what is new in the
\* schema or the history belongs to an open attempt.
LEMMA StaysAbsent ==
  ASSUME Assured, LeaseExcludes, [Next]_vars, NEW a \in Artifact, Absent(a, db),
         \A k \in AttemptId :
           db'.journal.attempts[k].artifact = a => StateOf(db.journal, k) = "rolled_back"
  PROVE  Absent(a, db')
<1> DEFINE i == db.journal
           j == db'.journal
<1>1. i \in Journal /\ JournalStep(i, j)
  BY NextKept DEF Kept, Assured, Presumed, Known, Sound, TypeOK, Database
<1>2. ASSUME NEW m \in OpenAttempts(i)
      PROVE  i.attempts[m].artifact # a /\ j.attempts[m].artifact # a
  <2>1. m \in AttemptId /\ StateOf(i, m) \notin {"none", "rolled_back"}
    BY DEF OpenAttempts, Unresolved
  <2>2. j.attempts[m].artifact = i.attempts[m].artifact
    BY <1>1, <2>1, StepKeepsArtifacts
  <2> QED
    BY <2>1, <2>2
<1>3. Effects(a) \cap db'.schema = {}
  <2> SUFFICES ASSUME NEW effect \in Effects(a), effect \in db'.schema
               PROVE  FALSE
    OBVIOUS
  <2>1. effect \in db'.schema \ db.schema
    BY DEF Absent
  <2>2. PICK m \in OpenAttempts(i) : effect \in Effects(i.attempts[m].artifact)
    BY <2>1, NextOpens DEF NewEffectsOpen
  <2>3. i.attempts[m].artifact = a
    BY <2>2 DEF Effects
  <2> QED
    BY <1>2, <2>3
<1>4. a \notin Recorded(j)
  <2> SUFFICES ASSUME NEW n \in 1..Len(j.applied), j.applied[n].artifact = a
               PROVE  FALSE
    BY DEF Recorded
  <2>1. j.attempts[j.applied[n].attempt].artifact = a
    <3>1. Completeness'
      BY NextComplete DEF Assured
    <3> QED
      BY <3>1 DEF Completeness, Complete, OwnRecords
  <2>2. ~(n \in 1..Len(i.applied) /\ j.applied[n] = i.applied[n])
    BY DEF Absent, Recorded
  <2>3. j.applied[n].attempt \in OpenAttempts(i)
    BY <1>1, <2>2, StepRecords
  <2> QED
    BY <1>2, <2>1, <2>3
<1> QED
  BY <1>3, <1>4 DEF Absent

LEMMA NextAbsent ==
  ASSUME Assured, LeaseExcludes, [Next]_vars, NEW a \in Artifact,
         UniformProgram(a), OnlyRolledBack(a)'
  PROVE  Absent(a, db')
<1> DEFINE i == db.journal
           j == db'.journal
<1>1. i \in Journal /\ JournalStep(i, j)
  BY NextKept DEF Kept, Assured, Presumed, Known, Sound, TypeOK, Database
<1>2. /\ \E k \in AttemptId : j.attempts[k].artifact = a
      /\ \A k \in AttemptId : j.attempts[k].artifact = a => StateOf(j, k) = "rolled_back"
  BY DEF OnlyRolledBack
<1>3. ASSUME NEW k \in AttemptId, j.attempts[k].artifact = a,
             StateOf(i, k) # "rolled_back"
      PROVE  Absent(a, db')
  <2>1. PICK p \in Proc : RollsBack(p, k)
    BY <1>2, <1>3, NextRollsBack
  <2>2. j.attempts[k].artifact = i.attempts[k].artifact
    BY <1>1, <2>1, TransitionChanges DEF RollsBack
  <2> QED
    BY <1>3, <2>1, <2>2, RollsBackAbsent
<1>4. ASSUME \A k \in AttemptId :
               j.attempts[k].artifact = a => StateOf(i, k) = "rolled_back"
      PROVE  Absent(a, db')
  <2>1. Preserves(i, j)
    BY <1>1, StepPreserves
  <2>2. \A k \in AttemptId :
          StateOf(i, k) = "rolled_back" => j.attempts[k] = i.attempts[k]
    BY <2>1 DEF Preserves, Terminal
  <2>3. \A k \in AttemptId :
          i.attempts[k].artifact = a => j.attempts[k].artifact = a
    <3> SUFFICES ASSUME NEW k \in AttemptId, i.attempts[k].artifact = a
                 PROVE  j.attempts[k].artifact = a
      OBVIOUS
    <3>1. i.attempts[k] \in Attempt /\ a # Null
      BY <1>1, ArtifactAssumption DEF Journal
    <3>2. StateOf(i, k) # "none"
      BY <3>1 DEF Attempt, NoAttempt, StateOf, AttemptState, Terminal, Unresolved
    <3> QED
      BY <1>1, <3>2, StepKeepsArtifacts
  <2>4. OnlyRolledBack(a)
    BY <1>2, <1>4, <2>2, <2>3 DEF OnlyRolledBack
  <2>5. Absent(a, db)
    BY <2>4 DEF Assured, Definiteness
  <2> QED
    BY <1>4, <2>5, StaysAbsent
<1> QED
  BY <1>3, <1>4

-----------------------------------------------------------------------------
(* Every step keeps the invariant. *)

\* What a run answers for is a matter of journal and schema.
LEMMA SameAnswers ==
  ASSUME NEW l, NEW t, NEW d, NEW e, e.journal = d.journal, e.schema = d.schema,
         Answerable(l, t, d)
  PROVE  Answerable(l, t, e)
BY DEF Answerable, Absent

\* A step under the lease: no other run is under it.
LEMMA StepsDefinite ==
  ASSUME Assured, LeaseExcludes, NEW p \in Proc,
         WorkingStep(p) \/ BeginTransaction(p) \/ Commit(p) \/ CommitRefused(p)
         \/ Rollback(p) \/ ReleaseLease(p),
         NEW q \in Proc, UnderLease(q)'
  PROVE  Answerable(run'[q], txn'[q], db')
<1>1. UnderLease(p) /\ Others(p) /\ online' = online
  <2>1. CASE WorkingStep(p)
    BY <2>1, StepsWork DEF Working, UnderLease, Assured, Presumed, Known
  <2>2. CASE BeginTransaction(p) \/ CommitRefused(p)
    BY <2>2 DEF BeginTransaction, CommitRefused, At, UnderLease, Critical, ExecutorStep,
                Others, Assured, Presumed, Known, Sound, TypeOK
  <2>3. CASE Commit(p) \/ Rollback(p) \/ ReleaseLease(p)
    BY <2>3, AnswerOthers
       DEF Commit, Rollback, ReleaseLease, At, UnderLease, Critical, ExecutorStep,
           Assured, Presumed, Known
  <2> QED
    BY <2>1, <2>2, <2>3
<1>2. q = p
  BY <1>1 DEF UnderLease, Others, LeaseExcludes
<1> QED
  BY <1>2, StepsAnswer DEF Answers

\* A step from outside the lease leaves journal, schema and other runs as they are.
LEMMA OutsideDefinite ==
  ASSUME Assured, NEW p \in Proc, Others(p), Untouched,
         \A q \in Proc \ {p} : txn'[q] = txn[q] /\ (q \in online' => q \in online),
         UnderLease(p)' => Answers(p),
         NEW q \in Proc, UnderLease(q)'
  PROVE  Answerable(run'[q], txn'[q], db')
<1>1. CASE q = p
  BY <1>1 DEF Answers
<1>2. CASE q # p
  <2>1. UnderLease(q) /\ run'[q] = run[q] /\ txn'[q] = txn[q]
    BY <1>2 DEF UnderLease, Others
  <2>2. Answerable(run[q], txn[q], db)
    BY <2>1 DEF Assured, Definiteness
  <2> QED
    BY <2>1, <2>2, SameAnswers DEF Untouched
<1> QED
  BY <1>1, <1>2

\* A run that gets the lease has done nothing under it.
LEMMA AcquireLeaseDefinite ==
  ASSUME Assured, NEW p \in Proc, AcquireLease(p), NEW q \in Proc, UnderLease(q)'
  PROVE  Answerable(run'[q], txn'[q], db')
<1> DEFINE l == [run[p] EXCEPT
             !.leased = TRUE,
             !.pc = IF run[p].role = "apply" THEN "read" ELSE "verify"]
<1>1. /\ At(p, "lease") /\ Answer(p, l) /\ UNCHANGED <<txn, online>>
      /\ UNCHANGED db \/ db' = [db EXCEPT !.lease = p]
  BY DEF AcquireLease
<1>2. /\ run[p] \in Run /\ run \in [Proc -> Run] /\ run[p].pc = "lease" /\ db \in Database
      /\ Others(p)
  BY <1>1, AnswerOthers DEF At, Assured, Presumed, Known, Sound, TypeOK
<1>3. Untouched
  BY <1>1, <1>2 DEF Database, Untouched
<1>4. l.pc \in {"read", "verify"}
  BY <1>2 DEF Run
<1> HIDE DEF l
<1>5. run'[p].pc \in {"read", "verify", "close"}
  <2>1. CASE run' = [run EXCEPT ![p] = l]
    BY <1>2, <1>4, <2>1
  <2>2. CASE run' = [run EXCEPT ![p] = Throw(run[p], Unanswered(run[p]))]
    <3>1. \A e : Throw(run[p], e).pc = "close"
      BY <1>2 DEF Throw, Run, ReconcileStep
    <3> QED
      BY <1>2, <2>2, <3>1
  <2> QED
    BY <1>1, <2>1, <2>2 DEF Answer
<1>6. Answers(p)
  BY <1>5, NothingToAnswer DEF Answers
<1> QED
  BY <1>1, <1>2, <1>3, <1>6, OutsideDefinite

LEMMA FailDefinite ==
  ASSUME Assured, NEW p \in Proc, Fail(p), NEW q \in Proc, UnderLease(q)'
  PROVE  Answerable(run'[q], txn'[q], db')
<1>1. PICK e \in {"failed", "uncertain"} : run' = [run EXCEPT ![p] = Throw(run[p], e)]
  BY DEF Fail, ErrorKinds
<1>2. /\ run[p] \in Run /\ run'[p] = Throw(run[p], e) /\ Others(p)
  BY <1>1 DEF Assured, Presumed, Known, Sound, TypeOK, Others
<1>3. UNCHANGED <<db, txn, online>> /\ Untouched
  BY DEF Fail, Untouched
<1>4. CASE UnderLease(p)
  <2>1. Answers(p)
    BY <1>1, <1>3, <1>4, ThrownAnswers
  <2> QED
    BY <1>2, <1>3, <2>1, OutsideDefinite
<1>5. CASE ~UnderLease(p)
  <2>1. run[p].pc \in {"lease", "close"}
    BY <1>2, <1>5 DEF Fail, UnderLease, Critical, Run, Step
  <2>2. run'[p].pc \in {"close", "idle"}
    BY <1>2, <2>1, ThrowClosing DEF Throw, Run, ReconcileStep, Idle
  <2>3. Answers(p)
    BY <2>2, NothingToAnswer DEF Answers
  <2> QED
    BY <1>2, <1>3, <2>3, OutsideDefinite
<1> QED
  BY <1>4, <1>5

\* What the runs under the lease answer for, they do after every step.
LEMMA NextAnswers ==
  ASSUME Assured, LeaseExcludes, [Next]_vars, NEW q \in Proc, UnderLease(q)'
  PROVE  Answerable(run'[q], txn'[q], db')
<1>1. ASSUME NEW p \in Proc,
             \/ StartApply(p) \/ StartReconcile(p) \/ CallDisconnected(p)
             \/ CloseSession(p) \/ Crash(p) \/ LoseConnection(p) \/ EndClient(p)
      PROVE  Answerable(run'[q], txn'[q], db')
  BY <1>1, AwayFromLease, OutsideDefinite DEF Untouched, Assured
<1>2. ~Repair
  BY DEF Repair, UnderLease, Critical, ExecutorStep, ReconcileStep
<1>3. CASE ClearLeaseRow \/ UNCHANGED vars
  <2>1. /\ db'.journal = db.journal /\ db'.schema = db.schema
        /\ UNCHANGED <<txn, online, run>>
    BY <1>3 DEF ClearLeaseRow, vars, Assured, Presumed, Known, Sound, TypeOK, Database
  <2>2. Answerable(run[q], txn[q], db)
    BY <2>1 DEF UnderLease, Assured, Definiteness
  <2> QED
    BY <2>1, <2>2, SameAnswers
<1>4. ASSUME NEW p \in Proc, Continue(p)
      PROVE  Answerable(run'[q], txn'[q], db')
  <2>1. \/ WorkingStep(p) \/ AcquireLease(p) \/ ReleaseLease(p) \/ CloseSession(p)
        \/ BeginTransaction(p) \/ Commit(p) \/ Rollback(p) \/ CallDisconnected(p)
    BY <1>4 DEF Continue, WorkingStep
  <2> QED
    BY <1>1, <2>1, StepsDefinite, AcquireLeaseDefinite
<1> QED
  BY <1>1, <1>2, <1>3, <1>4, StepsDefinite, FailDefinite DEF Next

LEMMA NextDefinite ==
  ASSUME Assured, LeaseExcludes, [Next]_vars
  PROVE  Definiteness'
BY NextAbsent, NextAnswers DEF Definiteness

\* What every run has made of the database, and what the journal may call rolled
\* back, in every reachable state of every instance.
THEOREM DefinitenessAlways == Spec => []Definiteness
<1>1. Init => Definiteness
  <2> SUFFICES ASSUME Init
               PROVE  Definiteness
    OBVIOUS
  <2>1. \A p \in Proc : ~UnderLease(p)
    BY DEF Init, UnderLease
  <2>2. \A a \in Artifact : ~OnlyRolledBack(a)
    BY ArtifactAssumption DEF Init, OnlyRolledBack, EmptyJournal, NoAttempt
  <2> QED
    BY <2>1, <2>2 DEF Definiteness
<1>2. Sound /\ InProgress /\ InStep /\ LinearLedger /\ LeaseExcludes /\ Recording
      /\ Completeness /\ Telling /\ Definiteness /\ [Next]_vars => Definiteness'
  BY NextDefinite DEF Assured, Presumed, Known
<1> QED
  BY <1>1, <1>2, SoundAlways, InProgressAlways, InStepAlways, LedgerIsLinear,
     LeaseExclusion, RecordingAlways, CompletenessAlways, TellingAlways, PTL DEF Spec

\* UniformRolledBackIsAbsent: where no attempt at an artifact of a uniform program
\* has another outcome than rolled_back, by the executor or by a reconciliation,
\* the schema has none of its effects and the history no record of its attempts,
\* whatever failed, crashed or lost its answer on the way.
THEOREM RolledBackIsDefinite == Spec => []UniformRolledBackIsAbsent
<1>1. Completeness /\ Definiteness => UniformRolledBackIsAbsent
  <2> SUFFICES ASSUME Completeness, Definiteness, NEW a \in Artifact,
                      UniformProgram(a), OnlyRolledBack(a)
               PROVE  /\ Effects(a) \cap db.schema = {}
                      /\ \A k \in RecordedBy(db.journal) : db.journal.attempts[k].artifact # a
    BY DEF UniformRolledBackIsAbsent
  <2>1. Absent(a, db) /\ OwnRecords(db.journal)
    BY DEF Definiteness, Completeness, Complete
  <2>2. ASSUME NEW k \in RecordedBy(db.journal)
        PROVE  db.journal.attempts[k].artifact # a
    <3>1. PICK n \in 1..Len(db.journal.applied) : db.journal.applied[n].attempt = k
      BY DEF RecordedBy
    <3>2. db.journal.attempts[k].artifact = db.journal.applied[n].artifact
      BY <2>1, <3>1 DEF OwnRecords
    <3> QED
      BY <2>1, <3>2 DEF Absent, Recorded
  <2> QED
    BY <2>1, <2>2 DEF Absent
<1> QED
  BY <1>1, CompletenessAlways, DefinitenessAlways, PTL
=============================================================================
