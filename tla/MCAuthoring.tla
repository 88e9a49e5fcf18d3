----------------------------- MODULE MCAuthoring -----------------------------
(* Instances of Authoring for TLC: the schemas of one small application. *)
EXTENDS Authoring, TLC

CONSTANTS p1, p2, a, b, c

Table(id, name) == Object("table", "", id, name, "")
Column(t, id, name, type, ord) == [Object("column", t, id, name, type) EXCEPT !.ord = ord]
PrimaryKey(t, id, name, over) ==
  [Object("constraint", t, id, name, "primary-key") EXCEPT !.over = over]
ForeignKey(t, id, name, over, to, keys) ==
  [Object("constraint", t, id, name, "foreign-key")
     EXCEPT !.over = over, !.refs = {to}, !.keys = keys]
Index(t, id, name, over) == [Object("index", t, id, name, "index") EXCEPT !.over = over]

Users(name) ==
  {Table("U", name), Column("U", "id", "id", "integer", 1), PrimaryKey("U", "pk", "users_pk", {"id"})}
Full == [Column("U", "full", "full", "text", 2) EXCEPT !.nullable = TRUE]
Mail(ord) == Column("U", "mail", "mail", "text", ord)
Posts ==
  {Table("P", "posts"), Column("P", "author", "author", "integer", 1),
   ForeignKey("P", "fk", "posts_fk", {"author"}, "U", {"id"})}

\* short drops the last column of plain; again adds one after that.
Schemas ==
  "empty" :> {} @@
  "plain" :> Users("users") \cup {Full} @@
  "posts" :> Users("users") \cup {Full} \cup Posts @@
  "short" :> Users("users") @@
  "again" :> Users("users") \cup {Mail(2)} @@
  "typed" :> Users("users") \cup {Full, Object("enum", "", "M", "mood", "labels"),
                                  Column("U", "mood", "mood", "mood", 3)} @@
  "kept" :> Users("users") \cup {Full, Index("U", "ix", "full_ix", {"full"})} @@
  "people" :> Users("people") \cup {[Full EXCEPT !.nullable = FALSE]}

Steps ==
  {<<"empty", "plain">>, <<"empty", "posts">>, <<"posts", "kept">>, <<"kept", "kept">>,
   <<"plain", "short">>, <<"short", "again">>, <<"plain", "typed">>, <<"plain", "people">>}

Names == DOMAIN Schemas

\* The programs of each step.
Compiled ==
  FoldSet(LAMBDA step, f : f @@ (step :> SetToSeq(Programs(Schema[step[1]], Schema[step[2]]))),
          << >>, Successors)

\* TLC works out a definition without parameters once, and a configuration's
\* value for a constant at every use.
ProgramTable == Compiled

\* The theorem about lost columns is about schemas like these.
ASSUME NamesStayHere == NamesStay

Symmetry == Permutations(Process) \cup Permutations(Id)
=============================================================================
