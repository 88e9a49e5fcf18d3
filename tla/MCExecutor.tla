----------------------------- MODULE MCExecutor -----------------------------
(* Instances of MigrationExecutor for TLC. *)
EXTENDS MigrationExecutor, TLC

CONSTANTS a1, a2, b2

Required(locks, n)  == [transaction |-> "required", lock |-> locks, statements |-> n]
Optional(locks, n)  == [transaction |-> "optional", lock |-> locks, statements |-> n]
Forbidden(locks, n) == [transaction |-> "forbidden", lock |-> locks, statements |-> n]

\* a1 starts every history; a2 and b2 were both written on top of it.
ParentValue == a1 :> Null @@ a2 :> a1 @@ b2 :> a1

\* Deploys of two branches, and a directory whose first file was lost.
Branches == {<<a1, a2>>, <<a1, b2>>, <<a2>>}

\* A program whose phases alternate, a locked transaction, and a statement
\* that may not run in one.
MixedPrograms ==
  a1 :> <<Forbidden(FALSE, 1), Required(FALSE, 1)>> @@
  a2 :> <<Required(TRUE, 1)>> @@
  b2 :> <<Forbidden(FALSE, 1)>>

\* For node:sqlite, which accepts transactional phases only: a1 commits twice,
\* a2 does not pass the capability preflight.
SqlitePrograms ==
  a1 :> <<Required(TRUE, 1), Required(FALSE, 1)>> @@
  a2 :> <<Forbidden(FALSE, 1)>> @@
  b2 :> <<Optional(FALSE, 1)>>

\* Programs that take the DDL lock, outside a transaction and around one.
LockedPrograms ==
  a1 :> <<Forbidden(TRUE, 1)>> @@
  a2 :> <<Required(TRUE, 1)>> @@
  b2 :> <<Optional(TRUE, 1)>>

OneBranch == {<<a1, a2>>}

Symmetry == Permutations(Proc) \cup Permutations(AttemptId)
=============================================================================
