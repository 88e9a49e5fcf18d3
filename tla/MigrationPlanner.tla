-------------------------- MODULE MigrationPlanner --------------------------
(***************************************************************************)
(* The planner: it puts the operations of a comparison in an order and     *)
(* states what each expects of the database.                               *)
(*                                                                         *)
(* The ready operation with the least id goes first.  Ids are hashes, so   *)
(* the model takes any ready operation: a plan has a set of orders, of     *)
(* which the ids of one pair of snapshots pick one.                        *)
(***************************************************************************)
EXTENDS SnapshotDiff, Sequences

Lock(op) == IF op.type = "change" /\ ~Destructive(op) THEN "shared" ELSE "exclusive"

-----------------------------------------------------------------------------
(* The edges.  A plan is made of the operations between two snapshots; an   *)
(* edge says that its first operation comes before its second, and why.    *)

KeyConstraint(o) == o.kind = "constraint" /\ o.value \in {"primary-key", "unique"}

Side(op, before, after) == IF op.type = "remove" THEN before ELSE after

Value(op, before, after) == ValueOf(Side(op, before, after), Subject(op))

Inside(op, parent) == Subject(parent).kind = "table" /\ Subject(parent).id = Subject(op).parent

RefersTo(op, target, before, after) ==
  /\ Subject(target).kind = "table"
  /\ \E o \in Value(op, before, after) : Subject(target).id \in o.refs

\* A foreign key waits for the key it references, when the plan has it.
RestsOnKey(op, key) ==
  /\ op.type # "remove" /\ key.after # Nothing
  /\ op.after.refs = {key.after.parent}
  /\ KeyConstraint(key.after) /\ op.after.keys \subseteq key.after.over

\* A column waits for the new enum it is typed by.  A removal looks for no type.
UsesNewType(op, enum, after) ==
  /\ op.type # "remove" /\ enum.type = "add" /\ enum.after.kind = "enum"
  /\ \E o \in ValueOf(after, op.after) : o.kind = "column" /\ o.value = enum.after.name

When(holds, edge) == IF holds THEN {edge} ELSE {}

\* Mutant: a foreign key waits for its table and not for the key it references.
EdgesWithoutKeys(op, other, before, after) ==
  IF op.type = "remove"
  THEN When(Inside(op, other) \/ RefersTo(op, other, before, after),
            <<op, other, "child-before-parent">>)
  ELSE When(Inside(op, other), <<other, op, "parent-before-child">>)
    \cup When(RefersTo(op, other, before, after) \/ UsesNewType(op, other, after),
              <<other, op, "reference-before-dependent">>)

EdgesOf(op, other, before, after) ==
  IF op.type = "remove"
  THEN When(Inside(op, other) \/ RefersTo(op, other, before, after),
            <<op, other, "child-before-parent">>)
  ELSE When(Inside(op, other), <<other, op, "parent-before-child">>)
    \cup When(\/ RefersTo(op, other, before, after)
              \/ RestsOnKey(op, other)
              \/ UsesNewType(op, other, after),
              <<other, op, "reference-before-dependent">>)

Edges(ops, before, after) ==
  UNION {EdgesOf(p[1], p[2], before, after) : p \in {q \in ops \X ops : q[1] # q[2]}}

DependsOn(edges, op) == {e[1] : e \in {f \in edges : f[2] = op}}

-----------------------------------------------------------------------------
(* The orders.  Taking an operation frees what waited for it alone, once   *)
(* for every edge between the two.  An operation freed twice is listed     *)
(* twice, and a list longer than the plan is refused as a cycle.           *)

Positions(order, ops) == {i \in DOMAIN order : order[i] \in ops}

FreedOnce(order, edges, op) ==
  LET waits == Positions(order, DependsOn(edges, op))
      last == order[CHOOSE i \in waits : \A j \in waits : j <= i]
  IN waits = {} \/ Cardinality({e \in edges : e[1] = last /\ e[2] = op}) = 1

\* Every order that takes one more of the operations that wait for nothing.
Further(orders, ops, edges) ==
  UNION {LET done == {order[i] : i \in DOMAIN order} IN
           {Append(order, op) : op \in {o \in ops \ done : DependsOn(edges, o) \subseteq done}}
         : order \in orders}

\* begun[n] holds the first n operations of every order; none is left when the
\* edges form a cycle.
Orders(ops, edges) ==
  LET begun[n \in 0 .. Cardinality(ops)] ==
        IF n = 0 THEN {<< >>} ELSE Further(begun[n - 1], ops, edges)
  IN {order \in begun[Cardinality(ops)] :
        order \in Seq(ops) /\ \A op \in ops : FreedOnce(order, edges, op)}
=============================================================================
