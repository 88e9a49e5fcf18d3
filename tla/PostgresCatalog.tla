--------------------------- MODULE PostgresCatalog ---------------------------
(***************************************************************************)
(* The tables of one PostgreSQL schema as the server keeps them, the DDL   *)
(* statements the emitter renders, and what the adapter reads back.        *)
(*                                                                         *)
(* The catalog is a set of the objects of SnapshotDiff by physical name:   *)
(* id and name are the same, and parent, over, refs and keys hold names.   *)
(* A table's ord is the number of columns it ever had: a new column gets   *)
(* the next number, and no number is given twice.                          *)
(***************************************************************************)
EXTENDS SnapshotDiff, Sequences, SequencesExt

BuiltIn == {"integer", "text"}

Has(live, kind, parent, name) == \E o \in live : o.kind = kind /\ o.parent = parent /\ o.name = name

ColumnNames(live, table) == {o.name : o \in {c \in Of(live, "column") : c.parent = table}}

IsKey(o) == o.kind = "constraint" /\ o.value \in {"primary-key", "unique"}

ForeignKeys(live) == {o \in Of(live, "constraint") : o.refs # {}}

\* Tables, indexes and keys share one name space, tables and types another.
IsRelation(o) == o.kind \in {"table", "index"} \/ IsKey(o)
IsType(o) == o.kind \in {"table", "enum"}

Taken(live, o) ==
  \E x \in live : /\ x.name = o.name
                  /\ \/ IsRelation(o) /\ IsRelation(x)
                     \/ IsType(o) /\ IsType(x)
                     \/ x.kind = o.kind /\ x.parent = o.parent

KnownType(live, o) ==
  o.kind = "column" => o.value \in BuiltIn \cup {e.name : e \in Of(live, "enum")}

\* A foreign key holds on to a key of its target.
HoldsOn(fk, key) == fk.refs = {key.parent} /\ fk.keys = key.over

-----------------------------------------------------------------------------
(* The statements.  A CREATE TABLE carries its columns, numbered.           *)

CreateStatement(o, columns) == [do |-> "create", object |-> o, columns |-> columns]
DropStatement(kind, parent, name) == [do |-> "drop", kind |-> kind, parent |-> parent, name |-> name]
RenameStatement(kind, parent, name, to) ==
  [do |-> "rename", kind |-> kind, parent |-> parent, name |-> name, to |-> to]
AlterStatement(parent, name, value, nullable) ==
  [do |-> "alter", parent |-> parent, name |-> name, value |-> value, nullable |-> nullable]

CanCreate(live, o, columns) ==
  /\ ~Taken(live, o)
  /\ o.parent = "" \/ Has(live, "table", "", o.parent)
  /\ o.over \subseteq ColumnNames(live, o.parent)
  /\ o.refs # {} => \E key \in live : IsKey(key) /\ HoldsOn(o, key)
  /\ KnownType(live, o) /\ \A c \in columns : KnownType(live, c)

AfterCreate(live, o, columns) ==
  CASE o.kind = "table" ->
         live \cup {[o EXCEPT !.ord = Cardinality(columns)]} \cup columns
    [] o.kind = "column" ->
         LET t == CHOOSE x \in Tables(live) : x.name = o.parent IN
         (live \ {t}) \cup {[t EXCEPT !.ord = @ + 1], [o EXCEPT !.ord = t.ord + 1]}
    [] OTHER -> live \cup {o}

\* An index is named in the schema alone, a column or a constraint in its table.
Named(live, st) ==
  {o \in live : /\ o.kind = st.kind /\ o.name = st.name
                /\ st.kind = "index" \/ o.parent = st.parent}

\* A column takes the constraints and the indexes over it along.
Dropped(live, o) ==
  {o} \cup CASE o.kind = "table" -> Children(live, o.name)
             [] o.kind = "column" -> {x \in live : x.parent = o.parent /\ o.name \in x.over}
             [] OTHER -> {}

\* A key that a foreign key outside holds on to stays, and so does a type in use.
CanDrop(live, o) ==
  /\ \A key \in Dropped(live, o), fk \in ForeignKeys(live) \ Dropped(live, o) :
       IsKey(key) => ~HoldsOn(fk, key)
  /\ o.kind = "enum" => \A c \in Of(live, "column") : c.value # o.name

Renaming(o, st) ==
  LET in(table) == IF st.kind = "table" /\ table = st.name THEN st.to ELSE table
      column(table, c) == IF st.kind = "column" /\ table = st.parent /\ c = st.name THEN st.to ELSE c
      self == o.kind = st.kind /\ o.name = st.name /\ (st.kind = "index" \/ o.parent = st.parent)
  IN [o EXCEPT
        !.id = IF self THEN st.to ELSE @, !.name = IF self THEN st.to ELSE @,
        !.parent = in(@), !.refs = {in(t) : t \in @},
        !.over = {column(o.parent, c) : c \in @},
        !.keys = {column(t, c) : t \in o.refs, c \in @},
        !.value = IF st.kind = "enum" /\ o.kind = "column" /\ @ = st.name
                  THEN st.to ELSE @]

Possible(live, st) ==
  CASE st.do = "create" -> CanCreate(live, st.object, st.columns)
    [] st.do = "drop" -> \E o \in Named(live, st) : CanDrop(live, o)
    [] st.do = "rename" -> \E o \in Named(live, st) : ~Taken(live, [o EXCEPT !.name = st.to])
    [] st.do = "alter" -> /\ Has(live, "column", st.parent, st.name)
                          /\ st.value \in BuiltIn \cup {e.name : e \in Of(live, "enum")}

After(live, st) ==
  CASE st.do = "create" -> AfterCreate(live, st.object, st.columns)
    [] st.do = "drop" -> live \ UNION {Dropped(live, o) : o \in Named(live, st)}
    [] st.do = "rename" -> {Renaming(o, st) : o \in live}
    [] st.do = "alter" -> {IF o.kind = "column" /\ o.parent = st.parent /\ o.name = st.name
                           THEN [o EXCEPT !.value = st.value, !.nullable = st.nullable] ELSE o : o \in live}

\* One transaction of statements: all of them or, at the first the server
\* refuses, none.
RunAll(live, statements) ==
  FoldLeft(LAMBDA so, st : IF so.ok /\ Possible(so.live, st)
                           THEN [ok |-> TRUE, live |-> After(so.live, st)]
                           ELSE [ok |-> FALSE, live |-> live],
           [ok |-> TRUE, live |-> live], statements)

-----------------------------------------------------------------------------
(* What the adapter reads back under an expected snapshot: the tables the   *)
(* snapshot names, every enum, and the snapshot's ids for what it knows.   *)

ManagedNames(expected) == {t.name : t \in Tables(expected)}

Managed(live, expected) ==
  {o \in live : CASE o.kind = "enum" -> TRUE
                  [] o.kind = "table" -> o.name \in ManagedNames(expected)
                  [] OTHER -> o.parent \in ManagedNames(expected)}

\* A foreign key whose target is not managed has nothing to refer to, and the
\* strict reading fails.
Readable(live, expected) ==
  \A o \in Managed(live, expected) : o.refs \subseteq ManagedNames(expected)

IdIn(expected, kind, parent, name) ==
  LET known == {o \in expected : o.kind = kind /\ o.parent = parent /\ o.name = name}
  IN IF known = {} THEN name ELSE (CHOOSE o \in known : TRUE).id

ReadSnapshot(live, expected) ==
  LET table(t) == IF t = "" THEN "" ELSE IdIn(expected, "table", "", t)
      column(t, c) == IdIn(expected, "column", table(t), c)
  IN {[o EXCEPT !.id = IdIn(expected, o.kind, table(o.parent), o.name),
                !.parent = table(@),
                !.over = {column(o.parent, c) : c \in @},
                !.refs = {table(t) : t \in @},
                !.keys = {column(t, c) : t \in o.refs, c \in @},
                !.ord = IF o.kind = "column" THEN @ ELSE 0]
      : o \in Managed(live, expected)}

\* The digest the executor compares: no reading, or another one, is drift.
Matches(live, expected) == Readable(live, expected) /\ ReadSnapshot(live, expected) = expected
=============================================================================
