--------------------------- MODULE ProgramCompiler ---------------------------
(***************************************************************************)
(* From an ordered plan to the program an artifact carries: the phases,    *)
(* what each expects of the database, its statements, and the snapshot the *)
(* artifact is sealed with.                                                *)
(***************************************************************************)
EXTENDS MigrationPlanner, PostgresCatalog

-----------------------------------------------------------------------------
(* Groups.  A new table takes the additions of its columns along, a removed *)
(* table the removals of all its children: one phase for all of them.      *)

Containing(op, ops) ==
  {t \in ops : /\ Inside(op, t) /\ t.type = op.type
               /\ op.type = "remove" \/ (op.type = "add" /\ op.after.kind = "column")}

Members(op, ops) == {op} \cup {m \in ops : op \in Containing(m, ops)}

-----------------------------------------------------------------------------
(* What a phase expects: what it adds is not there by that name, what it    *)
(* touches is there as it was before.                                      *)

\* A new table is expected to be absent, and its columns with it.
Absent(op, snapshot) ==
  ~\E o \in snapshot : /\ o.kind = op.after.kind /\ o.parent = op.after.parent
                       /\ o.name = op.after.name

\* The fingerprint covers the whole value, a table's children included.
Present(op, before, snapshot) ==
  LET was == {b \in before : Key(b) = Key(op.before)}
  IN \E o \in snapshot, b \in was : /\ Key(o) = Key(b) /\ o.name = b.name
                                    /\ ValueOf(snapshot, o) = ValueOf(before, b)

Expects(op, phase, before, snapshot) ==
  IF op.type = "add" THEN op # phase.op \/ Absent(op, snapshot)
  ELSE Present(op, before, snapshot)

MeetsConditions(phase, before, snapshot) ==
  \A op \in phase.members : Expects(op, phase, before, snapshot)

-----------------------------------------------------------------------------
(* Statements.  A table is called what its own operation in the plan calls  *)
(* it, which for a rename is the new name; other names are those of the    *)
(* target.                                                                 *)

TableName(op, ops, side) ==
  LET parent == Subject(op).parent
      own == {t \in ops : Inside(op, t)}
  IN IF parent = "" THEN ""
     ELSE IF own # {} THEN Subject(CHOOSE t \in own : TRUE).name
     ELSE (CHOOSE t \in Tables(side) : t.id = parent).name

NameOf(s, kind, parent, id) ==
  (CHOOSE o \in s : o.kind = kind /\ o.parent = parent /\ o.id = id).name

Physical(o, table, after) ==
  LET names(t, ids) == {NameOf(after, "column", t, c) : c \in ids}
  IN [o EXCEPT !.id = o.name, !.parent = table, !.ord = 0,
               !.over = names(o.parent, @),
               !.refs = {NameOf(after, "table", "", t) : t \in @},
               !.keys = UNION {names(t, @) : t \in o.refs}]

ColumnsOf(s, table) == {c \in Of(s, "column") : c.parent = table}

\* The columns of a new table are listed by their ordinals.
Place(c, s) == Cardinality({b \in ColumnsOf(s, c.parent) : b.ord <= c.ord})

Creation(op, table, after) ==
  CreateStatement(Physical(op.after, table, after),
                  IF op.after.kind # "table" THEN {}
                  ELSE {[Physical(c, op.after.name, after) EXCEPT !.ord = Place(c, after)]
                          : c \in ColumnsOf(after, op.after.id)})

\* A change of a constraint or an enum has no statement, alone or with a rename.
CanRender(op) == Carries(op) => op.before.kind \in {"column", "index"}

\* An index whose properties change is dropped, by the name it is to have, and
\* made anew.
Replaced(op) == Carries(op) /\ op.before.kind = "index"

Replacement(op, table, after) ==
  <<DropStatement("index", table, op.after.name), Creation(op, table, after)>>

Renamed(op, table) == RenameStatement(op.before.kind, table, op.before.name, op.after.name)

Altered(op, table) == AlterStatement(table, op.after.name, op.after.value, op.after.nullable)

RenderOperation(op, ops, before, after) ==
  LET table == TableName(op, ops, Side(op, before, after)) IN
  CASE Replaced(op) -> Replacement(op, table, after)
    [] op.type = "add" -> <<Creation(op, table, after)>>
    [] op.type = "remove" -> <<DropStatement(op.before.kind, table, op.before.name)>>
    [] op.type = "rename" /\ ~Replaced(op) ->
         <<Renamed(op, table)>> \o IF Carries(op) THEN <<Altered(op, table)>> ELSE << >>
    [] op.type = "change" /\ ~Replaced(op) -> <<Altered(op, table)>>

-----------------------------------------------------------------------------
(* Phases, in the plan's order except where a group must wait for what its  *)
(* members depend on.                                                      *)

Phase(op, ops, before, after) ==
  [op |-> op, members |-> Members(op, ops), lock |-> Lock(op),
   statements |-> RenderOperation(op, ops, before, after)]

\* A group waits for the groups its members depend on, and the first that waits
\* for none goes next.  No place is left when the groups wait for each other.
Placements(order, ops, edges) ==
  LET roots == {i \in DOMAIN order : Containing(order[i], ops) = {}}
      group(op) == CHOOSE i \in roots : op \in Members(order[i], ops)
      waits == {<<group(e[2]), group(e[1])>> : e \in edges}
      free(done) == {i \in roots \ done : \A w \in waits : w[1] = i => w[2] \in done \cup {i}}
  IN {f \in [1 .. Cardinality(roots) -> roots] :
        \A k \in DOMAIN f : LET next == free({f[j] : j \in 1 .. k - 1})
                           IN f[k] \in next /\ \A i \in next : f[k] <= i}

\* The new columns of existing tables, each with its place among those of its table
\* in the order of the plan.
AddedColumns(order, before) ==
  LET added == {i \in DOMAIN order : /\ order[i].type = "add" /\ order[i].after.kind = "column"
                                     /\ \E t \in Tables(before) : t.id = order[i].after.parent}
      upTo(i) == {j \in added : j <= i /\ order[j].after.parent = order[i].after.parent}
  IN {<<Key(order[i].after), Cardinality(upTo(i))>> : i \in added}

\* The program of one order, if it has one.
Compile(order, ops, edges, before, after) ==
  {[phases |-> [k \in DOMAIN f |-> Phase(order[f[k]], ops, before, after)],
    added |-> AddedColumns(order, before)] : f \in Placements(order, ops, edges)}

\* The programs that creating a migration between two snapshots may produce.
Programs(before, after) ==
  LET ops == Diff(before, after)
      edges == Edges(ops, before, after)
  IN IF \E op \in ops : ~CanRender(op) THEN {}
     ELSE UNION {Compile(order, ops, edges, before, after) : order \in Orders(ops, edges)}

-----------------------------------------------------------------------------
(* The snapshot an artifact promises: existing columns keep their ordinals, *)
(* new columns of existing tables follow the highest one.                  *)

PhysicalSnapshot(before, after, added) ==
  LET existing(t) == \E b \in Tables(before) : b.id = t
      highest(t) == Max({0} \cup {c.ord : c \in {b \in Of(before, "column") : b.parent = t}})
      place(c) == (CHOOSE a \in added : a[1] = Key(c))[2]
      ordinal(c) == IF ~existing(c.parent) THEN c.ord
                    ELSE IF Matching(before, c) # {}
                    THEN (CHOOSE b \in Matching(before, c) : TRUE).ord
                    ELSE highest(c.parent) + place(c)
  IN {IF o.kind = "column" THEN [o EXCEPT !.ord = ordinal(o)] ELSE o : o \in after}
=============================================================================
