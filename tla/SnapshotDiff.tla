---------------------------- MODULE SnapshotDiff ----------------------------
(***************************************************************************)
(* Schema snapshots and the comparison of two of them.                     *)
(*                                                                         *)
(* A snapshot is a set of objects: tables, their columns, constraints and  *)
(* indexes, and enums.  An object has a logical id, unique among the       *)
(* objects of its kind under one parent, and a physical name.  Two objects *)
(* of two snapshots match when kind, parent and id agree.  The kinds the   *)
(* model leaves out (views, sequences, routines, policies and so on) have  *)
(* no children whose order matters here.                                   *)
(***************************************************************************)
EXTENDS Integers, FiniteSets

CONSTANT Nothing        \* the missing side of an addition or a removal

\* One object.  What a kind does not use is empty:
\*   value  a column's storage type, a constraint's kind, an enum's labels
\*   nullable  of a column
\*   over   the columns a constraint or an index is over, by id
\*   refs   the table a foreign key references, by id; keys its columns
\*   ord    a column's ordinal position
Object(kind, parent, id, name, value) ==
  [kind |-> kind, parent |-> parent, id |-> id, name |-> name, value |-> value,
   nullable |-> FALSE, over |-> {}, refs |-> {}, keys |-> {}, ord |-> 0]

\* Mutant: objects match by their names.
KeyByName(o) == <<o.kind, o.parent, o.name>>

Key(o) == <<o.kind, o.parent, o.id>>

Of(s, kind) == {o \in s : o.kind = kind}

Tables(s) == Of(s, "table")

Children(s, t) == {o \in s : o.parent = t}

\* What an object's value holds: a table's holds its children.
ValueOf(s, o) == {o} \cup IF o.kind = "table" THEN Children(s, o.id) ELSE {}

Matching(s, o) == {m \in s : Key(m) = Key(o)}

IsObject(o) ==
  o = [kind |-> o.kind, parent |-> o.parent, id |-> o.id, name |-> o.name,
       value |-> o.value, nullable |-> o.nullable, over |-> o.over, refs |-> o.refs,
       keys |-> o.keys, ord |-> o.ord]

\* What decoding a snapshot checks: ids and names are not empty, no id is twice in
\* one list, only tables have children, no two columns of a table one ordinal.  That
\* no two tables have one name is the registry's part and, for what was read, the
\* database's.
WellFormed(s) ==
  /\ IsFiniteSet(s)
  /\ \A o \in s :
       /\ IsObject(o) /\ o.id # "" /\ o.name # ""
       /\ IF o.kind \in {"table", "enum"} THEN o.parent = ""
          ELSE \E t \in Tables(s) : t.id = o.parent
       /\ o.kind = "column" => o.over = {} /\ o.refs = {} /\ o.keys = {} /\ o.ord \in Int
  /\ \A c, d \in Of(s, "column") : c.parent = d.parent /\ c.ord = d.ord => c = d
  /\ \A o \in s : Matching(s, o) = {o}
  /\ \A t, u \in Tables(s) : t.name = u.name => t = u

-----------------------------------------------------------------------------
(* The differences.  A matched pair whose name differs is a rename, which   *)
(* carries the property changes along; a pair whose properties differ is a *)
(* change.  Ordinal positions and a table's children are no properties.    *)

Properties(o) == <<o.value, o.nullable, o.over, o.refs, o.keys>>

Operation(type, before, after) == [type |-> type, before |-> before, after |-> after]

OperationForMatch(b, a) ==
  IF b.name # a.name THEN {Operation("rename", b, a)}
  ELSE IF Properties(b) # Properties(a) THEN {Operation("change", b, a)}
  ELSE {}

Diff(before, after) ==
  (UNION {UNION {OperationForMatch(b, a) : a \in Matching(after, b)} : b \in before})
    \cup {Operation("remove", b, Nothing) : b \in {o \in before : Matching(after, o) = {}}}
    \cup {Operation("add", Nothing, a) : a \in {o \in after : Matching(before, o) = {}}}

Subject(op) == IF op.type = "remove" THEN op.before ELSE op.after

Carries(op) == op.type \in {"rename", "change"} /\ Properties(op.before) # Properties(op.after)

\* What the comparison calls destructive: a removal, a column made not null, a
\* constraint or an index over fewer columns.  A change of a column's type or
\* of the columns a key is over, as many as before, is not.
Destructive(op) ==
  \/ op.type = "remove"
  \/ /\ Carries(op)
     /\ IF op.before.kind = "column"
        THEN op.before.nullable /\ ~op.after.nullable
        ELSE \/ Cardinality(op.after.over) < Cardinality(op.before.over)
             \/ Cardinality(op.after.keys) < Cardinality(op.before.keys)
=============================================================================
