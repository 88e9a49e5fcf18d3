------------------------------ MODULE MCBatch -------------------------------
(* Instances of AtomicBatch for TLC. *)
EXTENDS AtomicBatch, TLC

CONSTANTS a1, a2, b2, x

OnePhase(n) == <<[transaction |-> "required", lock |-> FALSE, statements |-> n]>>

\* a1 starts every history; a2 and b2 were both written on top of it.
ParentValue == a1 :> Null @@ a2 :> a1 @@ b2 :> a1 @@ x :> Null

\* b2 has two phases, which a batch cannot carry.
Programs ==
  a1 :> OnePhase(1) @@ a2 :> OnePhase(2) @@
  b2 :> (OnePhase(1) \o OnePhase(1)) @@ x :> OnePhase(1)

Branches == {<<a1, a2>>, <<a1, b2>>, <<a1>>}

Symmetry == Permutations(Proc) \cup Permutations(AttemptId)
=============================================================================
