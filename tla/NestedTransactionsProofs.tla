---------------------- MODULE NestedTransactionsProofs ----------------------
(***************************************************************************)
(* Proofs about NestedTransactions: active scopes form one chain, so no    *)
(* statement runs behind the back of a scope that ends, the root client    *)
(* stays out of every transaction, and nothing is kept after a failed      *)
(* recovery; and the server's savepoints and data are what the scopes      *)
(* count on, so a transaction that settles has committed what it promised. *)
(* For any number of scopes, calls and faults.                             *)
(***************************************************************************)
EXTENDS NestedTransactions, TLAPS

Chain == KindOK /\ EnclosingWaits /\ ChildOnTheWay /\ OneChain

Inside == {"callback", "drain"}

\* No active scope is inside s.
Innermost(s) == \A c \in Scope : Active(c) => s \notin scope[c].within

\* A scope that has no child, or is at an await of its own, is the innermost.
LEMMA IsInnermost ==
  ASSUME Chain, NEW s \in Scope,
         Children(s) = {} \/ scope[s].pc \notin Inside
  PROVE  Innermost(s)
<1> SUFFICES ASSUME NEW c \in Scope, Active(c), s \in scope[c].within
             PROVE  FALSE
  BY DEF Innermost
<1>1. scope[s].pc \in Inside
  BY DEF Chain, EnclosingWaits, Inside
<1>2. Children(s) # {}
  BY DEF Chain, ChildOnTheWay
<1> QED
  BY <1>1, <1>2

\* Where scope s may go without a change of kind.
Fits(s, pc) ==
  pc \in IF IsOuter(s) THEN {"callback", "drain", "commit", "rollback", "done"}
         ELSE {"callback", "drain", "release", "rollbackTo", "releaseRolledBack", "done"}

\* Scope s goes to pc and nothing else of it changes but its outcome.
Moves(s, pc) ==
  /\ scope' \in [Scope -> ScopeState]
  /\ scope'[s].pc = pc /\ scope'[s].parent = scope[s].parent
  /\ scope'[s].within = scope[s].within
  /\ \A c \in Scope \ {s} : scope'[c] = scope[c]

\* What Goto does.
LEMMA GotoMoves ==
  ASSUME scope \in [Scope -> ScopeState], NEW s \in Scope,
         NEW pc \in Await \cup {"done"}, Goto(s, pc)
  PROVE  Moves(s, pc)
<1>1. [scope[s] EXCEPT !.pc = pc] \in ScopeState
  BY DEF ScopeState
<1>2. scope' = [scope EXCEPT ![s] = [scope[s] EXCEPT !.pc = pc]]
  BY DEF Goto
<1>3. /\ [scope[s] EXCEPT !.pc = pc].pc = pc
      /\ [scope[s] EXCEPT !.pc = pc].parent = scope[s].parent
      /\ [scope[s] EXCEPT !.pc = pc].within = scope[s].within
  BY DEF ScopeState
<1> QED
  BY <1>1, <1>2, <1>3 DEF Moves

\* What Finish does.
LEMMA FinishMoves ==
  ASSUME scope \in [Scope -> ScopeState], NEW s \in Scope,
         NEW outcome \in {"resolved", "rejected"}, Finish(s, outcome)
  PROVE  Moves(s, "done")
<1> DEFINE r == [scope[s] EXCEPT !.pc = "done", !.outcome = outcome]
<1>0. scope[s] \in ScopeState /\ outcome \in {"none", "resolved", "rejected"}
  OBVIOUS
<1>1. r \in ScopeState
  BY <1>0 DEF ScopeState
<1>2. scope' = [scope EXCEPT ![s] = r]
  BY DEF Finish
<1>3. r.pc = "done" /\ r.parent = scope[s].parent /\ r.within = scope[s].within
  BY DEF ScopeState
<1> QED
  BY <1>1, <1>2, <1>3 DEF Moves

\* The chain survives a step of its innermost scope.
LEMMA MoveKeepsChain ==
  ASSUME Chain, NEW s \in Scope, NEW pc, Active(s), Innermost(s),
         Moves(s, pc), Fits(s, pc)
  PROVE  Chain'
<1>1. \A c \in Scope : /\ IsOuter(c)' <=> IsOuter(c)
                       /\ scope'[c].within = scope[c].within
                       /\ scope'[c].parent = scope[c].parent
                       /\ Surrounding(c)' = Surrounding(c)
  BY DEF Moves, IsOuter, Surrounding
<1>2. \A c \in Scope : Active(c)' => Active(c)
  BY DEF Moves, Active
<1>3. \A c \in Scope \ {s} : scope'[c].pc = scope[c].pc /\ (Active(c)' <=> Active(c))
  BY DEF Moves, Active
<1>4. \A c \in Scope : Active(c) => s \notin scope[c].within
  BY DEF Innermost
<1>5. KindOK'
  <2> SUFFICES ASSUME NEW c \in Scope
               PROVE
                 /\ (scope[c].pc \in {"begin", "commit", "rollback"} => IsOuter(c))'
                 /\ (scope[c].pc \in {"savepoint", "release", "rollbackTo", "releaseRolledBack"} =>
                       ~IsOuter(c))'
                 /\ (scope[c].pc = "free" => IsOuter(c))'
                 /\ (Active(c) \/ scope[c].pc = "free" =>
                       (IsOuter(c) => scope[c].within = {}))'
    BY DEF KindOK
  <2>1. CASE c = s
    BY <2>1, <1>1, <1>2 DEF Chain, KindOK, Moves, Fits
  <2>2. CASE c # s
    BY <2>2, <1>1, <1>2, <1>3 DEF Chain, KindOK
  <2> QED
    BY <2>1, <2>2
<1>6. EnclosingWaits'
  <2> SUFFICES ASSUME NEW c \in Scope, Active(c)', NEW d \in scope'[c].within
               PROVE  scope'[d].pc \in Inside
    BY DEF EnclosingWaits, Inside
  <2>1. Active(c) /\ d \in scope[c].within /\ d # s
    BY <1>1, <1>2, <1>4
  <2>2. d \in Scope
    BY <2>1, <1>1 DEF Moves, ScopeState
  <2> QED
    BY <2>1, <2>2, <1>3 DEF Chain, EnclosingWaits, Inside
<1>7. ChildOnTheWay'
  <2> SUFFICES ASSUME NEW c \in Scope, Active(c)', NEW d \in scope'[c].within
               PROVE  \E e \in Surrounding(c)' : e \in Children(d)'
    BY DEF ChildOnTheWay
  <2>1. Active(c) /\ d \in scope[c].within /\ d # s
    BY <1>1, <1>2, <1>4
  <2>2. PICK e \in Surrounding(c) : e \in Children(d)
    BY <2>1 DEF Chain, ChildOnTheWay
  <2>3. CASE e = s
    <3>1. e = c
      BY <2>1, <2>2, <2>3, <1>4 DEF Surrounding
    <3> QED
      BY <3>1, <2>2, <1>1 DEF Children
  <2>4. CASE e # s
    BY <2>2, <2>4, <1>1, <1>3 DEF Children
  <2> QED
    BY <2>3, <2>4
<1>8. OneChain'
  BY <1>1, <1>2 DEF Chain, OneChain
<1> QED
  BY <1>5, <1>6, <1>7, <1>8 DEF Chain

\* A new scope that is the only one, or inside the innermost one.
LEMMA NewKeepsChain ==
  ASSUME TypeOK, Chain, NEW c \in Scope, scope[c].pc = "free",
         NEW s \in Scope \cup {None},
         IF s = None THEN \A d \in Scope : ~Active(d)
         ELSE scope[s].pc = "callback" /\ Children(s) = {},
         scope' \in [Scope -> ScopeState],
         \A d \in Scope \ {c} : scope'[d] = scope[d],
         scope'[c].parent = s,
         scope'[c].within = IF s = None THEN {} ELSE scope[s].within \cup {s},
         scope'[c].pc = IF s = None THEN "begin" ELSE "savepoint"
  PROVE  Chain'
<1>0. s # c /\ ~Active(c) /\ Active(c)' /\ (s # None => Active(s))
  BY NestedAssumption DEF Active, Await
<1>1. \A d \in Scope \ {c} : /\ Active(d)' <=> Active(d)
                             /\ IsOuter(d)' <=> IsOuter(d)
                             /\ Surrounding(d)' = Surrounding(d)
  BY DEF Active, IsOuter, Surrounding
<1>2. \A d \in Scope : scope[d].within \subseteq Scope /\ Active(d) => c \notin scope[d].within
  BY DEF Chain, EnclosingWaits
<1>3. \A d \in Scope : scope[d].within \subseteq Scope
  BY DEF TypeOK, ScopeState
<1>4. IsOuter(c)' <=> s = None
  BY DEF IsOuter
<1>5. KindOK'
  <2> SUFFICES ASSUME NEW d \in Scope
               PROVE
                 /\ (scope[d].pc \in {"begin", "commit", "rollback"} => IsOuter(d))'
                 /\ (scope[d].pc \in {"savepoint", "release", "rollbackTo", "releaseRolledBack"} =>
                       ~IsOuter(d))'
                 /\ (scope[d].pc = "free" => IsOuter(d))'
                 /\ (Active(d) \/ scope[d].pc = "free" =>
                       (IsOuter(d) => scope[d].within = {}))'
    BY DEF KindOK
  <2>1. CASE d = c
    BY <2>1, <1>4
  <2>2. CASE d # c
    BY <2>2, <1>1 DEF Chain, KindOK
  <2> QED
    BY <2>1, <2>2
<1>6. EnclosingWaits'
  <2> SUFFICES ASSUME NEW d \in Scope, Active(d)', NEW e \in scope'[d].within
               PROVE  scope'[e].pc \in Inside
    BY DEF EnclosingWaits, Inside
  <2>1. CASE d # c
    <3>1. Active(d) /\ e \in scope[d].within /\ e \in Scope /\ e # c
      BY <2>1, <1>1, <1>2, <1>3
    <3> QED
      BY <3>1 DEF Chain, EnclosingWaits, Inside
  <2>2. CASE d = c
    <3>1. s # None /\ s \in Scope /\ e \in scope[s].within \cup {s}
      BY <2>2
    <3>2. CASE e = s
      BY <3>1, <3>2, <1>0 DEF Inside
    <3>3. CASE e # s
      <4>1. e \in scope[s].within /\ e \in Scope /\ e # c
        BY <3>1, <3>3, <1>0, <1>2, <1>3
      <4> QED
        BY <4>1, <3>1, <1>0 DEF Chain, EnclosingWaits, Inside
    <3> QED
      BY <3>2, <3>3
  <2> QED
    BY <2>1, <2>2
<1>7. ChildOnTheWay'
  <2> SUFFICES ASSUME NEW d \in Scope, Active(d)', NEW e \in scope'[d].within
               PROVE  \E x \in Surrounding(d)' : x \in Children(e)'
    BY DEF ChildOnTheWay
  <2>0. \A x \in Scope \ {c} : x \in Children(e) => x \in Children(e)'
    BY <1>1 DEF Children
  <2>1. CASE d # c
    <3>1. Active(d) /\ e \in scope[d].within
      BY <2>1, <1>1
    <3>2. PICK x \in Surrounding(d) : x \in Children(e)
      BY <3>1 DEF Chain, ChildOnTheWay
    <3>3. x \in Scope \ {c}
      BY <3>2, <1>0 DEF Children
    <3> QED
      BY <3>2, <3>3, <2>0, <2>1, <1>1
  <2>2. CASE d = c
    <3>1. s # None /\ s \in Scope /\ e \in scope[s].within \cup {s} /\ Active(s)
      BY <2>2, <1>0
    <3>2. CASE e = s
      <4>1. c \in Children(e)'
        BY <3>2, <1>0 DEF Children
      <4>2. c \in Surrounding(d)'
        BY <2>2 DEF Surrounding
      <4> QED
        BY <4>1, <4>2
    <3>3. CASE e # s
      <4>1. PICK x \in Surrounding(s) : x \in Children(e)
        BY <3>1, <3>3 DEF Chain, ChildOnTheWay
      <4>2. x \in Scope \ {c}
        BY <4>1, <1>0 DEF Children
      <4>3. x \in Surrounding(d)'
        BY <4>1, <2>2, <3>1 DEF Surrounding
      <4> QED
        BY <4>2, <4>1, <4>3, <2>0
    <3> QED
      BY <3>2, <3>3
  <2> QED
    BY <2>1, <2>2
<1>8. OneChain'
  <2> SUFFICES ASSUME NEW d \in Scope, NEW e \in Scope, Active(d)', Active(e)'
               PROVE  d = e \/ d \in scope'[e].within \/ e \in scope'[d].within
    BY DEF OneChain
  <2>1. \A x \in Scope \ {c} : Active(x)' => x \in scope'[c].within
    <3> SUFFICES ASSUME NEW x \in Scope \ {c}, Active(x)'
                 PROVE  x \in scope'[c].within
      OBVIOUS
    <3>1. Active(x) /\ s # None /\ s \in Scope /\ Active(s) /\ Children(s) = {}
      BY <1>0, <1>1
    <3>2. s \notin scope[x].within
      BY <3>1 DEF Chain, ChildOnTheWay
    <3>3. x = s \/ x \in scope[s].within
      BY <3>1, <3>2 DEF Chain, OneChain
    <3> QED
      BY <3>1, <3>3
  <2>2. CASE d = c \/ e = c
    BY <2>1, <2>2
  <2>3. CASE d # c /\ e # c
    BY <2>3, <1>1 DEF Chain, OneChain
  <2> QED
    BY <2>2, <2>3
<1> QED
  BY <1>5, <1>6, <1>7, <1>8 DEF Chain

\* A scope at an await of its own has the connection to itself: every other
\* active scope is inside its callback, and none is if the scope is an outer one.
LEMMA OthersWait ==
  ASSUME Chain, NEW s \in Scope, Active(s), scope[s].pc \notin Inside
  PROVE  /\ \A c \in Scope \ {s} : Active(c) => scope[c].pc \in Inside
         /\ IsOuter(s) => \A c \in Scope \ {s} : ~Active(c)
<1>1. Innermost(s)
  BY IsInnermost
<1>2. \A c \in Scope \ {s} : Active(c) => c \in scope[s].within
  BY <1>1 DEF Innermost, Chain, OneChain
<1> QED
  BY <1>2 DEF Chain, EnclosingWaits, Inside, KindOK

\* Nothing about the chain changes while the scopes do not.
LEMMA SameScopes ==
  ASSUME Chain, scope' = scope
  PROVE  Chain'
BY DEF Chain, KindOK, EnclosingWaits, ChildOnTheWay, OneChain, Active, IsOuter, Surrounding, Children

Rest == PendingOK /\ GuardOK /\ DataOK /\ PoisonOK

\* The invariant in three parts.
LEMMA ControlParts == Control <=> TypeOK /\ Chain /\ Rest
BY DEF Control, Chain, Rest

\* A savepoint of the server.
Entry == [scope : Scope, data : SUBSET Op]

\* What the type says of the server's savepoints.
LEMMA StackTyped ==
  ASSUME TypeOK
  PROVE  /\ conn.stack \in Seq(Entry) /\ conn.data \subseteq Op
         /\ \A n \in 1..Len(conn.stack) :
              /\ conn.stack[n] \in Entry
              /\ conn.stack[n].scope \in Scope
              /\ conn.stack[n].data \subseteq Op
<1>1. conn.stack \in Seq(Entry) /\ conn.data \subseteq Op
  BY DEF TypeOK, Connection, Entry
<1>2. \A n \in 1..Len(conn.stack) : conn.stack[n] \in Entry
  BY <1>1
<1> QED
  BY <1>1, <1>2 DEF Entry

\* The initial state.
LEMMA InitControl == Init => Control
<1> SUFFICES ASSUME Init PROVE Control
  OBVIOUS
<1>1. TypeOK
  <2>1. << >> \in Seq(Entry)
    OBVIOUS
  <2>2. Closed \in Connection
    BY <2>1 DEF Connection, Closed, Entry
  <2>3. scope \in [Scope -> ScopeState]
    BY DEF Init, ScopeState
  <2>4. op \in [Op -> OpState]
    BY DEF Init, OpState
  <2>5. faults \in 0..MaxFaults
    BY NestedAssumption DEF Init
  <2> QED
    BY <2>2, <2>3, <2>4, <2>5 DEF Init, TypeOK
<1>2. \A s \in Scope : ~Active(s) /\ IsOuter(s) /\ scope[s].within = {} /\ scope[s].pc = "free"
  BY DEF Init, Active, Await, IsOuter
<1>3. Chain
  BY <1>2 DEF Chain, KindOK, EnclosingWaits, ChildOnTheWay, OneChain
<1>4. Rest
  BY <1>2 DEF Init, Rest, PendingOK, GuardOK, DataOK, PoisonOK, Closed
<1> QED
  BY <1>1, <1>3, <1>4, ControlParts

\* A call is reserved.
LEMMA CallExecuteControl ==
  ASSUME Control, NEW s \in Scope \cup {None}, NEW o \in Op, CallExecute(s, o)
  PROVE  Control'
<1>0. TypeOK /\ Chain /\ Rest
  BY ControlParts
<1>1. TypeOK'
  BY <1>0 DEF CallExecute, TypeOK, OpState
<1>2. Chain'
  BY <1>0, SameScopes DEF CallExecute
<1>3. /\ op[o].state = "free"
      /\ op'[o].scope = s /\ op'[o].state = "pending"
      /\ \A x \in Op \ {o} : op'[x] = op[x]
  BY <1>0 DEF CallExecute, TypeOK
<1>4. PendingOK'
  BY <1>0, <1>3 DEF CallExecute, Rest, PendingOK, Available, RootAvailable
<1>5. GuardOK' /\ PoisonOK'
  BY <1>0 DEF CallExecute, Rest, GuardOK, PoisonOK, Active
<1>6. DataOK'
  <2>1. /\ conn.data \subseteq Op
        /\ \A n \in 1..Len(conn.stack) : conn.stack[n].data \subseteq Op
    BY <1>0, StackTyped
  <2>2. \A x \in Op : InTransaction(x) => InTransaction(x)'
    BY <1>3 DEF InTransaction, Ran
  <2> QED
    BY <1>0, <2>1, <2>2 DEF CallExecute, Rest, DataOK
<1> QED
  BY <1>1, <1>2, <1>4, <1>5, <1>6 DEF Control, Chain

\* A nested transaction is reserved.
LEMMA CallNestedControl ==
  ASSUME Control, NEW s \in Scope, NEW c \in Scope, CallNested(s, c)
  PROVE  Control'
<1>0. TypeOK /\ Chain /\ Rest
  BY ControlParts
<1>1. /\ scope' \in [Scope -> ScopeState]
      /\ \A d \in Scope \ {c} : scope'[d] = scope[d]
      /\ scope'[c].parent = s /\ scope'[c].pc = "savepoint"
      /\ scope'[c].within = scope[s].within \cup {s}
  BY <1>0 DEF CallNested, TypeOK, ScopeState, Await
<1>2. scope[c].pc = "free" /\ scope[s].pc = "callback" /\ Children(s) = {}
  BY DEF CallNested, Available
<1>3. TypeOK'
  BY <1>0, <1>1 DEF CallNested, TypeOK
<1>4. Chain'
  BY <1>0, <1>1, <1>2, NestedAssumption, NewKeepsChain
<1>5. Active(s) /\ owned
  BY <1>0, <1>2 DEF Active, Await, Rest, GuardOK
<1>6. Rest'
  BY <1>0, <1>1, <1>2, <1>5
     DEF CallNested, Rest, PendingOK, GuardOK, DataOK, InTransaction, Ran, PoisonOK, Active, Await, TypeOK
<1> QED
  BY <1>3, <1>4, <1>6 DEF Control, Chain, Rest

\* The guard is acquired.
LEMMA CallTransactionControl ==
  ASSUME Control, NEW c \in Scope, CallTransaction(c)
  PROVE  Control'
<1>0. TypeOK /\ Chain /\ Rest
  BY ControlParts
<1>1. scope[c].pc = "free" /\ ~owned /\ Pending(None) = {} /\ owned'
  BY DEF CallTransaction, CanAcquire
<1>2. scope[c].parent = None /\ scope[c].within = {}
  BY <1>0, <1>1 DEF Chain, KindOK, IsOuter
<1>3. Moves(c, "begin")
  BY <1>0, GotoMoves DEF CallTransaction, Goto, TypeOK, Await
<1>4. \A d \in Scope : ~Active(d)
  BY <1>0, <1>1 DEF Rest, GuardOK
<1>5. TypeOK'
  BY <1>0, <1>3 DEF CallTransaction, TypeOK, Moves
<1>6. Chain'
  BY <1>0, <1>1, <1>2, <1>3, <1>4, NewKeepsChain DEF Moves
<1>7. \A d \in Scope \ {c} : scope'[d] = scope[d]
  BY <1>3 DEF Moves
<1>8. PendingOK'
  BY <1>0, <1>1, <1>7 DEF CallTransaction, Rest, PendingOK, Pending, TypeOK, OpState
<1>9. GuardOK' /\ DataOK' /\ PoisonOK'
  BY <1>0, <1>1, <1>3, <1>4, <1>7
     DEF CallTransaction, Rest, GuardOK, DataOK, InTransaction, Ran, PoisonOK, Active, Moves
<1> QED
  BY <1>5, <1>6, <1>8, <1>9 DEF Control, Chain

\* Pending calls do not mind a step of scope s that leaves none of its behind.
LEMMA MoveKeepsPending ==
  ASSUME TypeOK, PendingOK, NEW s \in Scope, NEW pc, Moves(s, pc),
         Pending(s) = {} \/ pc \in Inside \/ scope[s].pc \notin Inside,
         op' = op, owned' => owned
  PROVE  PendingOK'
<1> SUFFICES ASSUME NEW o \in Op, op[o].state = "pending"
             PROVE  IF op[o].scope = None THEN ~owned'
                    ELSE scope'[op[o].scope].pc \in Inside
  BY DEF PendingOK, Inside
<1>1. op[o].scope \in Scope \cup {None}
  BY DEF TypeOK, OpState
<1>2. CASE op[o].scope = None
  BY <1>2 DEF PendingOK
<1>3. CASE op[o].scope = s
  BY <1>3, NestedAssumption DEF PendingOK, Pending, Moves, Inside
<1>4. CASE op[o].scope \in Scope \ {s}
  BY <1>4, NestedAssumption DEF PendingOK, Moves, Inside
<1> QED
  BY <1>1, <1>2, <1>3, <1>4

\* The guard covers the same scopes after a step of one that keeps the
\* server's transaction as it is.
LEMMA MoveKeepsGuard ==
  ASSUME GuardOK, NEW s \in Scope, NEW pc, Active(s), Moves(s, pc),
         scope[s].pc # "begin", pc # "begin",
         owned' = owned, conn'.open = conn.open, conn'.alive = conn.alive
  PROVE  GuardOK'
BY DEF GuardOK, Moves, Active, Await

\* EndCallback and Drained: the run of a callback is over.
LEMMA AfterRunControl ==
  ASSUME Control, NEW s \in Scope, scope[s].pc \in Inside,
         NEW pc \in {"drain", "release", "rollbackTo", "commit", "rollback"},
         Goto(s, pc), pc # "drain" => Idle(s), pc \in {"release", "commit"} => ~poison,
         pc \in {"commit", "rollback"} => IsOuter(s),
         pc \in {"release", "rollbackTo"} => ~IsOuter(s),
         UNCHANGED <<op, owned, poison, conn, durable, faults>>
  PROVE  Control'
<1>0. TypeOK /\ Chain /\ Rest
  BY ControlParts
<1>1. Moves(s, pc) /\ Active(s) /\ Fits(s, pc)
  BY <1>0, GotoMoves DEF TypeOK, Await, Active, Inside, Fits
<1>2. TypeOK'
  BY <1>0, <1>1 DEF TypeOK, Moves
<1>3. Chain'
  <2>1. CASE pc = "drain"
    <3>1. \A c \in Scope : /\ Active(c)' <=> Active(c)
                           /\ IsOuter(c)' <=> IsOuter(c)
                           /\ scope'[c].within = scope[c].within
                           /\ scope'[c].parent = scope[c].parent
      BY <1>1, <2>1 DEF Moves, Active, Await, IsOuter
    <3>2. \A c \in Scope : scope'[c].pc = scope[c].pc \/ scope'[c].pc = "drain"
      BY <1>1, <2>1 DEF Moves
    <3>3. KindOK'
      <4>1. \A c \in Scope : scope'[c].pc = "free" => scope[c].pc = "free"
        BY <3>2
      <4> QED
        BY <1>0, <3>1, <3>2, <4>1 DEF Chain, KindOK
    <3>4. EnclosingWaits'
      <4>1. \A c \in Scope : scope[c].within \subseteq Scope
        BY <1>0 DEF TypeOK, ScopeState
      <4> QED
        BY <1>0, <3>1, <3>2, <4>1 DEF Chain, EnclosingWaits
    <3>5. ChildOnTheWay' /\ OneChain'
      BY <1>0, <3>1 DEF Chain, ChildOnTheWay, OneChain, Children, Surrounding
    <3> QED
      BY <3>3, <3>4, <3>5 DEF Chain
  <2>2. CASE pc # "drain"
    <3>1. Children(s) = {}
      BY <2>2 DEF Idle
    <3> QED
      BY <1>0, <1>1, <3>1, IsInnermost, MoveKeepsChain
  <2> QED
    BY <2>1, <2>2
<1>4. PendingOK'
  BY <1>0, <1>1, MoveKeepsPending DEF Rest, Idle, Inside
<1>5. GuardOK'
  BY <1>0, <1>1, MoveKeepsGuard DEF Rest, Inside
<1>6. DataOK' /\ PoisonOK'
  BY <1>0, <1>1 DEF Rest, DataOK, InTransaction, Ran, PoisonOK, Moves
<1> QED
  BY <1>2, <1>3, <1>4, <1>5, <1>6 DEF Control, Chain

\* A callback ends.
LEMMA EndCallbackControl ==
  ASSUME Control, NEW s \in Scope, EndCallback(s)
  PROVE  Control'
<1>1. scope[s].pc \in Inside /\ UNCHANGED <<op, owned, poison, conn, durable, faults>>
  BY DEF EndCallback, Inside
<1>2. PICK ok \in BOOLEAN : IF Idle(s) THEN AfterRun(s, ok) ELSE Goto(s, "drain")
  BY DEF EndCallback
<1>3. CASE ~Idle(s)
  BY <1>1, <1>2, <1>3, AfterRunControl
<1>4. CASE Idle(s)
  BY <1>1, <1>2, <1>4, AfterRunControl DEF AfterRun
<1> QED
  BY <1>3, <1>4

\* A scope has nothing outstanding any more.
LEMMA DrainedControl ==
  ASSUME Control, NEW s \in Scope, Drained(s)
  PROVE  Control'
<1>1. /\ scope[s].pc \in Inside /\ Idle(s) /\ AfterRun(s, FALSE)
      /\ UNCHANGED <<op, owned, poison, conn, durable, faults>>
  BY DEF Drained, Inside
<1> QED
  BY <1>1, AfterRunControl DEF AfterRun

\* A step of a nested scope at one of its own awaits.
LEMMA NestedStepControl ==
  ASSUME Control, NEW s \in Scope, NEW pc \in Inside \cup {"rollbackTo", "releaseRolledBack", "done"},
         scope[s].pc \in {"savepoint", "release", "rollbackTo", "releaseRolledBack"},
         Moves(s, pc), UNCHANGED <<op, owned, durable>>,
         conn' \in Connection, conn'.open = conn.open, conn'.alive = conn.alive, DataOK',
         faults' \in 0..MaxFaults, poison' = poison \/ (poison' = TRUE /\ pc = "done")
  PROVE  Control'
<1>0. TypeOK /\ Chain /\ Rest
  BY ControlParts
<1>1. Active(s) /\ ~IsOuter(s) /\ scope[s].pc \notin Inside /\ scope[s].pc # "begin"
  BY <1>0 DEF Active, Await, Chain, KindOK, Inside
<1>2. TypeOK'
  BY <1>0 DEF TypeOK, Moves
<1>3. Chain'
  BY <1>0, <1>1, IsInnermost, MoveKeepsChain DEF Fits, Inside
<1>4. PendingOK'
  BY <1>0, <1>1, MoveKeepsPending DEF Rest
<1>5. GuardOK'
  BY <1>0, <1>1, MoveKeepsGuard DEF Rest, Inside
<1>6. PoisonOK'
  <2> SUFFICES ASSUME poison', NEW c \in Scope
               PROVE  scope'[c].pc \notin {"release", "commit"}
    BY DEF PoisonOK
  <2>1. CASE c = s
    BY <2>1 DEF Moves, Inside
  <2>2. CASE c # s
    BY <1>0, <1>1, <2>2, OthersWait DEF Moves, Inside, Active, Await
  <2> QED
    BY <2>1, <2>2
<1> QED
  BY <1>2, <1>3, <1>4, <1>5, <1>6 DEF Control, Chain

\* A refused command stays within the bound on faults.
LEMMA RefusedTyped ==
  ASSUME faults \in 0..MaxFaults, NEW accepted \in BOOLEAN, Refused(accepted)
  PROVE  faults' \in 0..MaxFaults
BY NestedAssumption DEF Refused

\* What is left of the savepoints is as good as before.
LEMMA PrefixTyped ==
  ASSUME TypeOK, DataOK, NEW n \in 1..Len(conn.stack), NEW m \in {n - 1, n}
  PROVE  /\ SubSeq(conn.stack, 1, m) \in Seq(Entry)
         /\ \A k \in 1..Len(SubSeq(conn.stack, 1, m)) :
              \A o \in SubSeq(conn.stack, 1, m)[k].data : InTransaction(o)
<1>1. conn.stack \in Seq(Entry)
  BY StackTyped
<1>2. m \in 0..Len(conn.stack)
  BY <1>1
<1>3. /\ SubSeq(conn.stack, 1, m) \in Seq(Entry)
      /\ Len(SubSeq(conn.stack, 1, m)) = m
      /\ \A k \in 1..m : SubSeq(conn.stack, 1, m)[k] = conn.stack[k]
  BY <1>1, <1>2
<1>4. \A k \in 1..m : k \in 1..Len(conn.stack)
  BY <1>1, <1>2
<1> QED
  BY <1>3, <1>4 DEF DataOK

\* SAVEPOINT is answered.
LEMMA RunSavepointControl ==
  ASSUME Control, NEW s \in Scope, RunSavepoint(s)
  PROVE  Control'
<1>0. TypeOK /\ Chain /\ Rest
  BY ControlParts
<1>1. scope[s].pc = "savepoint" /\ UNCHANGED <<op, owned, durable>>
  BY DEF RunSavepoint
<1>2. CASE /\ Healthy
           /\ conn' = [conn EXCEPT !.stack = Append(@, [scope |-> s, data |-> conn.data])]
           /\ \E pc \in {"callback", "rollbackTo"} : Goto(s, pc)
           /\ UNCHANGED <<poison, faults>>
  <2>1. PICK pc \in {"callback", "rollbackTo"} : Goto(s, pc)
    BY <1>2
  <2>2. Moves(s, pc)
    BY <1>0, <2>1, GotoMoves DEF TypeOK, Await
  <2> DEFINE e == [scope |-> s, data |-> conn.data]
             st == Append(conn.stack, e)
  <2>3. e \in Entry /\ e.data = conn.data
    BY <1>0, StackTyped DEF Entry
  <2> HIDE DEF e
  <2>4. /\ st \in Seq(Entry)
        /\ \A n \in 1..Len(st) : \/ n \in 1..Len(conn.stack) /\ st[n] = conn.stack[n]
                                \/ st[n] = e
    BY <1>0, <2>3, StackTyped
  <2>5. conn' = [conn EXCEPT !.stack = st]
    BY <1>2 DEF e
  <2> HIDE DEF st
  <2>6. /\ conn' \in Connection /\ conn'.open = conn.open /\ conn'.alive = conn.alive
        /\ conn'.data = conn.data /\ conn'.stack = st
    BY <1>0, <2>4, <2>5 DEF TypeOK, Connection, Entry
  <2>7. DataOK'
    BY <1>0, <1>1, <2>3, <2>4, <2>6 DEF Rest, DataOK, InTransaction, Ran
  <2> QED
    BY <1>0, <1>1, <1>2, <2>2, <2>6, <2>7, NestedStepControl DEF Inside, TypeOK
<1>3. CASE Refused(Healthy) /\ Finish(s, "rejected") /\ poison' = TRUE /\ UNCHANGED conn
  <2>1. Moves(s, "done")
    BY <1>0, <1>3, FinishMoves DEF TypeOK
  <2>2. faults' \in 0..MaxFaults
    BY <1>0, <1>3, RefusedTyped DEF TypeOK, Healthy, Connection
  <2>3. DataOK' /\ conn' \in Connection
    BY <1>0, <1>1, <1>3 DEF Rest, DataOK, InTransaction, Ran, TypeOK
  <2> QED
    BY <1>0, <1>1, <1>3, <2>1, <2>2, <2>3, NestedStepControl
<1> QED
  BY <1>2, <1>3 DEF RunSavepoint

\* A savepoint is released on the server.
LEMMA ReleaseTyped ==
  ASSUME TypeOK, DataOK, NEW s \in Scope, ReleaseSavepoint(s), op' = op
  PROVE  conn' \in Connection /\ conn'.open = conn.open /\ conn'.alive = conn.alive /\ DataOK'
<1>1. PICK n \in Savepoints(s) : conn' = [conn EXCEPT !.stack = SubSeq(@, 1, n - 1)]
  BY DEF ReleaseSavepoint
<1>2. n \in 1..Len(conn.stack)
  BY DEF Savepoints
<1> DEFINE st == SubSeq(conn.stack, 1, n - 1)
<1>3. /\ st \in Seq(Entry)
      /\ \A k \in 1..Len(st) : \A o \in st[k].data : InTransaction(o)
  BY <1>2, PrefixTyped
<1>4. conn' = [conn EXCEPT !.stack = st]
  BY <1>1
<1> HIDE DEF st
<1>5. /\ conn' \in Connection /\ conn'.open = conn.open /\ conn'.alive = conn.alive
      /\ conn'.data = conn.data /\ conn'.stack = st
  BY <1>3, <1>4 DEF TypeOK, Connection, Entry
<1> QED
  BY <1>3, <1>5 DEF DataOK, InTransaction, Ran

\* A step at a nested scope's own await that leaves the server as it was.
LEMMA RefusedStepControl ==
  ASSUME Control, NEW s \in Scope, NEW pc \in {"rollbackTo", "done"},
         scope[s].pc \in {"savepoint", "release", "rollbackTo", "releaseRolledBack"},
         Moves(s, pc), UNCHANGED <<op, owned, durable, conn>>,
         NEW accepted \in BOOLEAN, Refused(accepted),
         poison' = poison \/ (poison' = TRUE /\ pc = "done")
  PROVE  Control'
<1>1. faults' \in 0..MaxFaults
  BY RefusedTyped DEF Control, TypeOK
<1>2. DataOK' /\ conn' \in Connection
  BY DEF Control, DataOK, InTransaction, Ran, TypeOK
<1> QED
  BY <1>1, <1>2, NestedStepControl

\* RELEASE of a successful scope.
LEMMA ReleaseControl ==
  ASSUME Control, NEW s \in Scope, Release(s)
  PROVE  Control'
<1>0. /\ TypeOK /\ DataOK /\ scope[s].pc = "release"
      /\ UNCHANGED <<op, owned, poison, durable>>
  BY DEF Control, Release
<1>1. CASE Healthy /\ ReleaseSavepoint(s) /\ Finish(s, "resolved") /\ UNCHANGED faults
  <2>1. Moves(s, "done")
    BY <1>0, <1>1, FinishMoves DEF TypeOK
  <2> QED
    BY <1>0, <1>1, <2>1, ReleaseTyped, NestedStepControl DEF TypeOK
<1>2. CASE Refused(Healthy /\ Savepoints(s) # {}) /\ Goto(s, "rollbackTo") /\ UNCHANGED conn
  <2>1. Moves(s, "rollbackTo")
    BY <1>0, <1>2, GotoMoves DEF TypeOK, Await
  <2>2. (Healthy /\ Savepoints(s) # {}) \in BOOLEAN
    BY <1>0 DEF Healthy, TypeOK, Connection
  <2> QED
    BY <1>0, <1>2, <2>1, <2>2, RefusedStepControl
<1> QED
  BY <1>1, <1>2 DEF Release

\* ROLLBACK TO SAVEPOINT.
LEMMA RollbackToControl ==
  ASSUME Control, NEW s \in Scope, RollbackTo(s)
  PROVE  Control'
<1>0. TypeOK /\ DataOK /\ scope[s].pc = "rollbackTo" /\ UNCHANGED <<op, owned, durable>>
  BY DEF Control, RollbackTo
<1>1. CASE /\ conn.alive /\ conn.open
           /\ \E n \in Savepoints(s) :
                conn' = [conn EXCEPT !.data = conn.stack[n].data, !.aborted = FALSE,
                                     !.stack = SubSeq(@, 1, n)]
           /\ Goto(s, "releaseRolledBack")
           /\ UNCHANGED <<poison, faults>>
  <2>1. Moves(s, "releaseRolledBack")
    BY <1>0, <1>1, GotoMoves DEF TypeOK, Await
  <2>2. PICK n \in Savepoints(s) :
          conn' = [conn EXCEPT !.data = conn.stack[n].data, !.aborted = FALSE,
                               !.stack = SubSeq(@, 1, n)]
    BY <1>1
  <2>3. n \in 1..Len(conn.stack)
    BY DEF Savepoints
  <2> DEFINE st == SubSeq(conn.stack, 1, n)
             d == conn.stack[n].data
  <2>4. /\ st \in Seq(Entry)
        /\ \A k \in 1..Len(st) : \A o \in st[k].data : InTransaction(o)
    BY <1>0, <2>3, PrefixTyped
  <2>5. d \subseteq Op /\ \A o \in d : InTransaction(o)
    BY <1>0, <2>3, StackTyped DEF DataOK
  <2>6. conn' = [conn EXCEPT !.data = d, !.aborted = FALSE, !.stack = st]
    BY <2>2
  <2> HIDE DEF st, d
  <2>7. /\ conn' \in Connection /\ conn'.open = conn.open /\ conn'.alive = conn.alive
        /\ conn'.data = d /\ conn'.stack = st
    BY <1>0, <2>4, <2>5, <2>6 DEF TypeOK, Connection, Entry
  <2>8. DataOK'
    BY <1>0, <2>4, <2>5, <2>7 DEF DataOK, InTransaction, Ran
  <2> QED
    BY <1>0, <1>1, <2>1, <2>7, <2>8, NestedStepControl DEF TypeOK
<1>2. CASE Refused(conn.open /\ Savepoints(s) # {}) /\ Poisoned(s)
  <2>1. Moves(s, "done") /\ poison' = TRUE /\ UNCHANGED conn
    BY <1>0, <1>2, FinishMoves DEF TypeOK, Poisoned
  <2>2. (conn.open /\ Savepoints(s) # {}) \in BOOLEAN
    BY <1>0 DEF TypeOK, Connection
  <2> QED
    BY <1>0, <1>2, <2>1, <2>2, RefusedStepControl
<1> QED
  BY <1>1, <1>2 DEF RollbackTo

\* RELEASE after a rollback to the savepoint.
LEMMA ReleaseRolledBackControl ==
  ASSUME Control, NEW s \in Scope, ReleaseRolledBack(s)
  PROVE  Control'
<1>0. /\ TypeOK /\ DataOK /\ scope[s].pc = "releaseRolledBack"
      /\ UNCHANGED <<op, owned, durable>>
  BY DEF Control, ReleaseRolledBack
<1>1. CASE Healthy /\ ReleaseSavepoint(s) /\ Finish(s, "rejected") /\ UNCHANGED <<poison, faults>>
  <2>1. Moves(s, "done")
    BY <1>0, <1>1, FinishMoves DEF TypeOK
  <2> QED
    BY <1>0, <1>1, <2>1, ReleaseTyped, NestedStepControl DEF TypeOK
<1>2. CASE Refused(Healthy /\ Savepoints(s) # {}) /\ Poisoned(s)
  <2>1. Moves(s, "done") /\ poison' = TRUE /\ UNCHANGED conn
    BY <1>0, <1>2, FinishMoves DEF TypeOK, Poisoned
  <2>2. (Healthy /\ Savepoints(s) # {}) \in BOOLEAN
    BY <1>0 DEF Healthy, TypeOK, Connection
  <2> QED
    BY <1>0, <1>2, <2>1, <2>2, RefusedStepControl
<1> QED
  BY <1>1, <1>2 DEF ReleaseRolledBack

\* A step of an outer scope at one of its own awaits.
LEMMA OuterStepControl ==
  ASSUME Control, NEW s \in Scope, NEW pc \in {"callback", "rollback", "done"},
         scope[s].pc \in {"begin", "commit", "rollback"},
         Moves(s, pc), op' = op, owned' = (pc # "done"),
         conn' \in Connection, DataOK', poison' \in BOOLEAN, durable' \subseteq Op,
         faults' \in 0..MaxFaults,
         IF pc = "done" THEN ~conn'.open ELSE conn'.alive => conn'.open
  PROVE  Control'
<1>0. TypeOK /\ Chain /\ Rest
  BY ControlParts
<1>1. Active(s) /\ IsOuter(s) /\ scope[s].pc \notin Inside /\ owned
  BY <1>0 DEF Active, Await, Chain, KindOK, Inside, Rest, GuardOK
<1>2. \A c \in Scope \ {s} : ~Active(c) /\ ~Active(c)' /\ scope'[c] = scope[c]
  BY <1>0, <1>1, OthersWait DEF Moves, Active
<1>3. TypeOK'
  BY <1>0 DEF TypeOK, Moves
<1>4. Chain'
  BY <1>0, <1>1, IsInnermost, MoveKeepsChain DEF Fits, Inside
<1>5. PendingOK'
  BY <1>0, <1>1, MoveKeepsPending DEF Rest
<1>6. GuardOK' /\ PoisonOK'
  <2>1. Active(s)' <=> pc # "done"
    BY DEF Moves, Active, Await
  <2>2. \A c \in Scope \ {s} : scope'[c].pc \notin Await
    BY <1>2 DEF Active
  <2> QED
    BY <1>2, <2>1, <2>2 DEF GuardOK, PoisonOK, Moves, Await
<1> QED
  BY <1>3, <1>4, <1>5, <1>6 DEF Control, Chain

\* A connection whose transaction is over.
LEMMA ClosedTyped ==
  ASSUME TypeOK, NEW alive \in BOOLEAN, conn' = [Closed EXCEPT !.alive = alive]
  PROVE  /\ conn' \in Connection /\ conn'.alive = alive /\ conn'.open = FALSE
         /\ conn'.data = {} /\ DataOK'
<1>1. << >> \in Seq(Entry) /\ Len(<< >>) = 0
  OBVIOUS
<1>2. /\ conn' \in Connection /\ conn'.alive = alive /\ conn'.open = FALSE
      /\ conn'.data = {} /\ conn'.stack = << >>
  BY <1>1 DEF Closed, Connection, Entry
<1> QED
  BY <1>1, <1>2 DEF DataOK

\* BEGIN is answered.
LEMMA BeginControl ==
  ASSUME Control, NEW s \in Scope, Begin(s)
  PROVE  Control'
<1>0. /\ TypeOK /\ DataOK /\ GuardOK /\ scope[s].pc = "begin" /\ UNCHANGED <<op, durable>>
  BY DEF Control, Begin
<1>1. owned
  BY <1>0 DEF GuardOK, Active, Await
<1>2. CASE /\ conn.alive
           /\ conn' = [conn EXCEPT !.open = TRUE]
           /\ poison' = FALSE
           /\ \E pc \in {"callback", "rollback"} : Goto(s, pc)
           /\ UNCHANGED <<owned, faults>>
  <2>1. PICK pc \in {"callback", "rollback"} : Goto(s, pc)
    BY <1>2
  <2>2. Moves(s, pc)
    BY <1>0, <2>1, GotoMoves DEF TypeOK, Await
  <2>3. conn' \in Connection /\ conn'.open /\ conn'.data = conn.data /\ conn'.stack = conn.stack
    BY <1>0, <1>2 DEF TypeOK, Connection
  <2>4. DataOK'
    BY <1>0, <2>3 DEF DataOK, InTransaction, Ran
  <2> QED
    BY <1>0, <1>1, <1>2, <2>2, <2>3, <2>4, OuterStepControl DEF TypeOK
<1>3. CASE Refused(TRUE) /\ Finish(s, "rejected") /\ owned' = FALSE /\ UNCHANGED <<poison, conn>>
  <2>1. Moves(s, "done")
    BY <1>0, <1>3, FinishMoves DEF TypeOK
  <2>2. faults' \in 0..MaxFaults
    BY <1>0, <1>3, RefusedTyped DEF TypeOK
  <2>3. DataOK' /\ conn' \in Connection /\ ~conn'.open
    BY <1>0, <1>3 DEF DataOK, InTransaction, Ran, TypeOK, GuardOK
  <2> QED
    BY <1>0, <1>3, <2>1, <2>2, <2>3, OuterStepControl DEF TypeOK
<1> QED
  BY <1>2, <1>3 DEF Begin

\* COMMIT is answered.
LEMMA CommitControl ==
  ASSUME Control, NEW s \in Scope, Commit(s)
  PROVE  Control'
<1>0. /\ TypeOK /\ DataOK /\ GuardOK /\ scope[s].pc = "commit" /\ UNCHANGED <<op, poison>>
  BY DEF Control, Commit
<1>1. owned /\ (conn.alive => conn.open)
  BY <1>0 DEF GuardOK, Active, Await
<1>2. CASE /\ Refused(TRUE)
           /\ Goto(s, "rollback")
           /\ UNCHANGED <<owned, conn, durable>>
  <2>1. Moves(s, "rollback")
    BY <1>0, <1>2, GotoMoves DEF TypeOK, Await
  <2>2. faults' \in 0..MaxFaults
    BY <1>0, <1>2, RefusedTyped DEF TypeOK
  <2>3. DataOK' /\ conn' \in Connection /\ (conn'.alive => conn'.open)
    BY <1>0, <1>1, <1>2 DEF DataOK, InTransaction, Ran, TypeOK
  <2> QED
    BY <1>0, <1>1, <1>2, <2>1, <2>2, <2>3, OuterStepControl DEF TypeOK
<1>3. CASE /\ durable' = IF conn.aborted THEN durable ELSE durable \cup conn.data
           /\ conn' = Ended /\ owned' = FALSE /\ UNCHANGED faults
           /\ \E outcome \in {"resolved"} \cup IF LateAborts THEN {"rejected"} ELSE {} :
                Finish(s, outcome)
  <2>1. Moves(s, "done")
    BY <1>0, <1>3, FinishMoves DEF TypeOK
  <2>2. conn.alive \in BOOLEAN
    BY <1>0 DEF TypeOK, Connection
  <2>3. conn' \in Connection /\ conn'.open = FALSE /\ DataOK'
    BY <1>0, <1>3, <2>2, ClosedTyped DEF Ended
  <2>4. durable' \subseteq Op
    BY <1>0, <1>3, StackTyped DEF TypeOK
  <2> QED
    BY <1>0, <1>3, <2>1, <2>3, <2>4, OuterStepControl DEF TypeOK
<1>4. CASE /\ durable' = IF conn.aborted THEN durable ELSE durable \cup conn.data
           /\ Refused(TRUE) /\ conn' = [Closed EXCEPT !.alive = FALSE]
           /\ Goto(s, "rollback") /\ UNCHANGED owned
  <2>1. Moves(s, "rollback")
    BY <1>0, <1>4, GotoMoves DEF TypeOK, Await
  <2>2. faults' \in 0..MaxFaults
    BY <1>0, <1>4, RefusedTyped DEF TypeOK
  <2>3. conn' \in Connection /\ ~conn'.alive /\ DataOK'
    BY <1>0, <1>4, ClosedTyped
  <2>4. durable' \subseteq Op
    BY <1>0, <1>4, StackTyped DEF TypeOK
  <2> QED
    BY <1>0, <1>1, <1>4, <2>1, <2>2, <2>3, <2>4, OuterStepControl DEF TypeOK
<1> QED
  BY <1>2, <1>3, <1>4 DEF Commit

\* ROLLBACK is answered.
LEMMA RollbackControl ==
  ASSUME Control, NEW s \in Scope, Rollback(s)
  PROVE  Control'
<1>0. /\ TypeOK /\ scope[s].pc = "rollback" /\ conn' = Ended /\ owned' = FALSE
      /\ UNCHANGED <<op, poison, durable, faults>>
  BY DEF Control, Rollback
<1>1. Moves(s, "done")
  BY <1>0, FinishMoves DEF TypeOK, Rollback
<1>2. conn.alive \in BOOLEAN
  BY <1>0 DEF TypeOK, Connection
<1>3. conn' \in Connection /\ conn'.open = FALSE /\ DataOK'
  BY <1>0, <1>2, ClosedTyped DEF Ended
<1> QED
  BY <1>0, <1>1, <1>3, OuterStepControl DEF TypeOK

\* A statement succeeds.
LEMMA RunOpControl ==
  ASSUME Control, NEW o \in Op, RunOp(o)
  PROVE  Control'
<1>0. TypeOK /\ Chain /\ Rest
  BY ControlParts
<1>1. /\ op[o].state = "pending" /\ op'[o].state \in {"ok", "late"} /\ op'[o].scope = op[o].scope
      /\ op' \in [Op -> OpState] /\ \A x \in Op \ {o} : op'[x] = op[x]
  BY <1>0 DEF RunOp, Settle, TypeOK, OpState
<1>2. UNCHANGED <<scope, owned, poison, faults>>
  BY DEF RunOp
<1>3. \A x \in Op : InTransaction(x) => InTransaction(x)'
  BY <1>1 DEF InTransaction, Ran
<1>4. PendingOK'
  BY <1>0, <1>1, <1>2 DEF Rest, PendingOK
<1>5. CASE conn.open /\ conn' = [conn EXCEPT !.data = @ \cup {o}] /\ UNCHANGED durable
  <2>1. /\ conn' \in Connection /\ conn'.open = conn.open /\ conn'.alive = conn.alive
        /\ conn'.data = conn.data \cup {o} /\ conn'.stack = conn.stack
    BY <1>0, <1>5 DEF TypeOK, Connection
  <2>2. InTransaction(o)'
    BY <1>0, <1>1, <1>5 DEF InTransaction, Ran, Rest, PendingOK, GuardOK
  <2>3. DataOK'
    BY <1>0, <1>3, <2>1, <2>2, StackTyped DEF Rest, DataOK
  <2>4. TypeOK'
    BY <1>0, <1>1, <1>2, <1>5, <2>1 DEF TypeOK
  <2>5. GuardOK' /\ PoisonOK'
    BY <1>0, <1>2, <2>1 DEF Rest, GuardOK, PoisonOK, Active
  <2> QED
    BY <1>0, <1>2, <1>4, <2>3, <2>4, <2>5, SameScopes DEF Control, Chain
<1>6. CASE ~conn.open /\ durable' = durable \cup {o} /\ UNCHANGED conn
  <2>1. TypeOK'
    BY <1>0, <1>1, <1>2, <1>6 DEF TypeOK
  <2>2. DataOK'
    BY <1>0, <1>3, <1>6, StackTyped DEF Rest, DataOK
  <2>3. GuardOK' /\ PoisonOK'
    BY <1>0, <1>2, <1>6 DEF Rest, GuardOK, PoisonOK, Active
  <2> QED
    BY <1>0, <1>2, <1>4, <2>1, <2>2, <2>3, SameScopes DEF Control, Chain
<1> QED
  BY <1>5, <1>6 DEF RunOp

\* A statement fails.
LEMMA FailOpControl ==
  ASSUME Control, NEW o \in Op, FailOp(o)
  PROVE  Control'
<1>0. TypeOK /\ Chain /\ Rest
  BY ControlParts
<1>1. /\ op[o].state = "pending" /\ op'[o].state = "failed" /\ op'[o].scope = op[o].scope
      /\ op' \in [Op -> OpState] /\ \A x \in Op \ {o} : op'[x] = op[x]
  BY <1>0 DEF FailOp, Settle, TypeOK, OpState
<1>2. UNCHANGED <<scope, owned, poison, durable, faults>>
  BY DEF FailOp
<1>3. \A x \in Op : InTransaction(x) => InTransaction(x)'
  BY <1>1 DEF InTransaction, Ran
<1>4. /\ conn' \in Connection /\ conn'.open = conn.open /\ conn'.alive = conn.alive
      /\ conn'.data = conn.data /\ conn'.stack = conn.stack
  BY <1>0 DEF FailOp, TypeOK, Connection
<1>5. PendingOK'
  BY <1>0, <1>1, <1>2 DEF Rest, PendingOK
<1>6. DataOK'
  BY <1>0, <1>3, <1>4, StackTyped DEF Rest, DataOK
<1>7. TypeOK'
  BY <1>0, <1>1, <1>2, <1>4 DEF TypeOK
<1>8. GuardOK' /\ PoisonOK'
  BY <1>0, <1>2, <1>4 DEF Rest, GuardOK, PoisonOK, Active
<1> QED
  BY <1>0, <1>2, <1>5, <1>6, <1>7, <1>8, SameScopes DEF Control, Chain

\* The connection is lost.
LEMMA LoseConnectionControl ==
  ASSUME Control, LoseConnection
  PROVE  Control'
<1>0. TypeOK /\ Chain /\ Rest
  BY ControlParts
<1>1. /\ UNCHANGED <<scope, op, owned, poison, durable>>
      /\ conn' = [Closed EXCEPT !.alive = FALSE]
      /\ faults' \in 0..MaxFaults
  BY <1>0, NestedAssumption DEF LoseConnection, TypeOK
<1>2. conn' \in Connection /\ conn'.open = FALSE /\ conn'.alive = FALSE /\ DataOK'
  BY <1>0, <1>1, ClosedTyped
<1>3. TypeOK'
  BY <1>0, <1>1, <1>2 DEF TypeOK
<1>4. PendingOK' /\ GuardOK' /\ PoisonOK'
  BY <1>0, <1>1, <1>2 DEF Rest, PendingOK, GuardOK, PoisonOK, Active
<1> QED
  BY <1>0, <1>1, <1>2, <1>3, <1>4, SameScopes DEF Control, Chain

-----------------------------------------------------------------------------
\* One step of any kind preserves the invariant.
LEMMA NextControl == Control /\ [Next]_vars => Control'
<1> SUFFICES ASSUME Control, [Next]_vars PROVE Control'
  OBVIOUS
<1>1. CASE Call
  BY <1>1, CallExecuteControl, CallNestedControl, CallTransactionControl DEF Call
<1>2. CASE \E s \in Scope : Progress(s)
  BY <1>2, RunSavepointControl, EndCallbackControl, DrainedControl, ReleaseControl,
     RollbackToControl, ReleaseRolledBackControl, BeginControl, CommitControl, RollbackControl
     DEF Progress
<1>3. CASE \E o \in Op : Answer(o)
  BY <1>3, RunOpControl, FailOpControl DEF Answer
<1>4. CASE LoseConnection
  BY <1>4, LoseConnectionControl
<1>5. CASE UNCHANGED vars
  <2>0. TypeOK /\ Chain /\ Rest
    BY ControlParts
  <2>1. UNCHANGED <<scope, op, owned, poison, conn, durable, faults>>
    BY <1>5 DEF vars
  <2>2. TypeOK'
    BY <2>0, <2>1 DEF TypeOK
  <2>3. PendingOK' /\ GuardOK'
    BY <2>0, <2>1 DEF Rest, PendingOK, GuardOK, Active
  <2>4. DataOK'
    BY <2>0, <2>1 DEF Rest, DataOK, InTransaction, Ran
  <2>5. PoisonOK'
    BY <2>0, <2>1 DEF Rest, PoisonOK
  <2> QED
    BY <2>0, <2>1, <2>2, <2>3, <2>4, <2>5, SameScopes DEF Control, Chain
<1> QED
  BY <1>1, <1>2, <1>3, <1>4, <1>5 DEF Next

\* Active scopes form one chain, guarded and typed, in every reachable state.
THEOREM NestedControl == Spec => []Control
BY InitControl, NextControl, PTL DEF Spec

\* No statement is left to run behind a scope that ends: an abandoned call is
\* waited for by every scope around it.
THEOREM NothingBehind == Spec => []NoWorkBehind
<1>1. Control => NoWorkBehind
  <2> SUFFICES ASSUME Control, NEW o \in Op, op[o].state = "pending", op[o].scope # None,
                      NEW s \in Surrounding(op[o].scope)
               PROVE  scope[s].pc \in {"callback", "drain"}
    BY DEF NoWorkBehind
  <2>1. op[o].scope \in Scope /\ scope[op[o].scope].pc \in {"callback", "drain"}
    BY DEF Control, TypeOK, OpState, PendingOK
  <2> QED
    BY <2>1 DEF Control, EnclosingWaits, Surrounding, Active, Await
<1> QED
  BY <1>1, NestedControl, PTL

\* The root client's statements stay out of every transaction.
THEOREM RootOutside == Spec => []RootStaysOutside
<1>1. Control => RootStaysOutside
  BY DEF Control, DataOK, InTransaction, Ran, RootStaysOutside
<1> QED
  BY <1>1, NestedControl, PTL

-----------------------------------------------------------------------------
(* Once recovery has failed. *)

\* A poisoned transaction only goes back: a step of the adapters resolves no
\* scope and commits no statement of one.
LEMMA PoisonedProgress ==
  ASSUME Control, poison, NEW r \in Scope, Progress(r)
  PROVE  /\ \A s \in Scope : scope'[s].outcome = "resolved" => scope[s].outcome = "resolved"
         /\ durable' = durable
<1>0. scope \in [Scope -> ScopeState] /\ scope[r].pc \notin {"release", "commit"}
  BY DEF Control, TypeOK, PoisonOK
<1>1. ~Release(r) /\ ~Commit(r)
  BY <1>0 DEF Release, Commit
<1>2. durable' = durable
  BY <1>1 DEF Progress, RunSavepoint, EndCallback, Drained, RollbackTo, ReleaseRolledBack,
              Begin, Rollback
<1>3. ASSUME NEW pc, Goto(r, pc)
      PROVE  \A s \in Scope : scope'[s].outcome = scope[s].outcome
  BY <1>0, <1>3 DEF Goto, ScopeState
<1>4. ASSUME Finish(r, "rejected")
      PROVE  \A s \in Scope : scope'[s].outcome = "resolved" => scope[s].outcome = "resolved"
  BY <1>0, <1>4 DEF Finish, ScopeState
<1>5. (\E pc : Goto(r, pc)) \/ Finish(r, "rejected")
  <2>1. CASE RunSavepoint(r)
    BY <2>1 DEF RunSavepoint
  <2>2. CASE RollbackTo(r) \/ ReleaseRolledBack(r)
    BY <2>2 DEF RollbackTo, ReleaseRolledBack, Poisoned
  <2>3. CASE EndCallback(r) \/ Drained(r)
    BY <2>3 DEF EndCallback, Drained, AfterRun
  <2>4. CASE Begin(r) \/ Rollback(r)
    BY <2>4 DEF Begin, Rollback
  <2> QED
    BY <1>1, <2>1, <2>2, <2>3, <2>4 DEF Progress
<1>6. \A s \in Scope : scope'[s].outcome = "resolved" => scope[s].outcome = "resolved"
  BY <1>3, <1>4, <1>5
<1> QED
  BY <1>2, <1>6

\* The calls and the answers of the database resolve no scope either, and what
\* commits outside the transaction is a call of the root client.
LEMMA PoisonedRest ==
  ASSUME Control, Call \/ (\E o \in Op : Answer(o)) \/ LoseConnection \/ UNCHANGED vars
  PROVE  /\ \A s \in Scope : scope'[s].outcome = "resolved" => scope[s].outcome = "resolved"
         /\ \A o \in durable' \ durable : op[o].scope = None
<1>0. scope \in [Scope -> ScopeState] /\ op \in [Op -> OpState] /\ conn \in Connection
  BY DEF Control, TypeOK
<1>1. CASE Call
  BY <1>0, <1>1 DEF Call, CallExecute, CallNested, CallTransaction, ScopeState
<1>2. CASE \E o \in Op : Answer(o)
  <2> PICK o \in Op : Answer(o)
    BY <1>2
  <2>1. UNCHANGED scope
    BY DEF Answer, RunOp, FailOp
  <2>2. SUFFICES ASSUME RunOp(o), ~conn.open, op[o].scope # None PROVE FALSE
    BY <2>1 DEF Answer, RunOp, FailOp
  <2>3. /\ op[o].scope \in Scope
        /\ scope[op[o].scope].pc \in {"callback", "drain"}
    BY <1>0, <2>2 DEF Control, PendingOK, RunOp, OpState
  <2> QED
    BY <2>2, <2>3 DEF Control, GuardOK, Active, Await, RunOp
<1>3. CASE LoseConnection \/ UNCHANGED vars
  BY <1>3 DEF LoseConnection, vars
<1> QED
  BY <1>1, <1>2, <1>3

\* Once recovery has failed, no transaction is released or committed.
THEOREM PoisonGoesBack == Spec => PoisonedNeverCommits
<1>1. Control /\ [Next]_vars =>
        [poison =>
           /\ \A s \in Scope : scope'[s].outcome = "resolved" => scope[s].outcome = "resolved"
           /\ \A o \in durable' \ durable : op[o].scope = None]_vars
  BY PoisonedProgress, PoisonedRest DEF Next
<1> QED
  BY <1>1, NestedControl, PTL DEF Spec, PoisonedNeverCommits

-----------------------------------------------------------------------------
(* Nesting, as the scopes and the calls in them record it. *)

\* What is around the scopes does not change while s moves.
LEMMA MoveKeepsNesting ==
  ASSUME NestingOK, NEW s \in Scope, NEW pc, Moves(s, pc)
  PROVE  NestingOK'
<1>1. \A c \in Scope : /\ scope'[c].within = scope[c].within
                       /\ scope'[c].parent = scope[c].parent
  BY DEF Moves
<1>2. \A c \in Scope : \A t \in scope[c].within \cup {c} : t \in Scope
  BY DEF Moves, ScopeState
<1> QED
  BY <1>1, <1>2 DEF NestingOK, Surrounding, IsOuter

\* A scope that moves does not become fresh again.
LEMMA MoveKeepsFresh ==
  ASSUME TypeOK, FreshOK, NEW s \in Scope, NEW pc, Moves(s, pc),
         \/ pc \in Await \cup {"done"} /\ pc \notin {"free", "begin", "savepoint"}
         \/ Fresh(s),
         op' = op
  PROVE  FreshOK'
<1>1. \A c \in Scope : /\ scope'[c].within = scope[c].within
                       /\ ~Fresh(c) => ~Fresh(c)'
  BY DEF Moves, Fresh
<1>2. \A c \in Scope : scope[c].within \subseteq Scope
  BY DEF TypeOK, ScopeState
<1>3. \A o \in Op : op[o].scope \in Scope \cup {None}
  BY DEF TypeOK, OpState
<1> QED
  BY <1>1, <1>2, <1>3 DEF FreshOK

\* The outer transaction around a scope waits for any scope inside it.
LEMMA OuterWaits ==
  ASSUME Control, NestingOK, NEW c \in Scope, NEW r \in Surrounding(c), IsOuter(r),
         NEW s \in Surrounding(c), Active(s), s # r
  PROVE  r \in scope[s].within /\ scope[r].pc \in Inside
<1>1. s \in Scope /\ r \in Scope /\ scope[s].within \subseteq scope[c].within \cup {c}
  BY DEF NestingOK, Surrounding, Control, TypeOK, ScopeState
<1>2. PICK q \in Surrounding(s) : \A t \in Surrounding(s) : IsOuter(t) <=> t = q
  BY <1>1 DEF NestingOK
<1>3. IsOuter(q) /\ q \in Surrounding(c)
  BY <1>1, <1>2 DEF Surrounding
<1>4. q = r
  BY <1>3 DEF NestingOK
<1>5. r \in scope[s].within
  BY <1>2, <1>4 DEF Surrounding
<1> QED
  BY <1>1, <1>5 DEF Control, EnclosingWaits, Inside

\* Where a call was made, and the scopes around it, while s moves.
LEMMA MoveKeepsPlaces ==
  ASSUME NEW s \in Scope, NEW pc, Moves(s, pc)
  PROVE  \A c \in Scope : Surrounding(c)' = Surrounding(c) /\ (IsOuter(c)' <=> IsOuter(c))
BY DEF Moves, Surrounding, IsOuter

-----------------------------------------------------------------------------
(* What the open transaction holds. *)

\* A step of a scope that is not rolled back by it.
Keeps(s, pc) ==
  \/ /\ pc \in Await /\ scope'[s].outcome = scope[s].outcome
     /\ pc = "releaseRolledBack" <=> scope[s].pc = "releaseRolledBack"
  \/ /\ pc = "done" /\ ~IsOuter(s)
     /\ scope'[s].outcome = "resolved" <=> scope[s].pc # "releaseRolledBack"

\* What the open transaction holds is the same after such a step.
LEMMA MoveKeepsUncommitted ==
  ASSUME TypeOK, OutcomeOK, NEW s \in Scope, NEW pc, Moves(s, pc), Active(s), Keeps(s, pc),
         op' = op
  PROVE  \A o \in Op : Uncommitted(o)' <=> Uncommitted(o)
<1>1. \A c \in Scope : /\ Surrounding(c)' = Surrounding(c) /\ (IsOuter(c)' <=> IsOuter(c))
                       /\ Surrounding(c) \subseteq Scope
  BY MoveKeepsPlaces DEF TypeOK, ScopeState, Surrounding
<1>2. \A c \in Scope : IsOuter(c) => (Active(c)' <=> Active(c))
  BY DEF Moves, Active, Keeps, IsOuter
<1> DEFINE Counts(c) == \/ Active(c) /\ scope[c].pc # "releaseRolledBack"
                        \/ scope[c].outcome = "resolved"
<1>3. \A c \in Scope : Counts(c)' <=> Counts(c)
  <2> SUFFICES ASSUME NEW c \in Scope PROVE Counts(c)' <=> Counts(c)
    OBVIOUS
  <2>1. CASE c # s
    BY <2>1 DEF Moves, Active
  <2>2. CASE c = s
    <3>1. scope[s].outcome = "none"
      BY DEF OutcomeOK, Active, Await
    <3> QED
      BY <2>2, <3>1 DEF Moves, Active, Keeps, Await
  <2> QED
    BY <2>1, <2>2
<1>4. \A o \in Op : op[o].scope \in Scope \cup {None}
  BY DEF TypeOK, OpState
<1>5. \A o \in Op : Uncommitted(o) <=>
        /\ Ran(o) /\ op[o].scope # None
        /\ \E r \in Surrounding(op[o].scope) : IsOuter(r) /\ Active(r)
        /\ \A c \in Surrounding(op[o].scope) : Counts(c)
  BY DEF Uncommitted
<1>6. \A o \in Op : Uncommitted(o)' <=>
        /\ Ran(o)' /\ op'[o].scope # None
        /\ \E r \in Surrounding(op[o].scope)' : IsOuter(r)' /\ Active(r)'
        /\ \A c \in Surrounding(op[o].scope)' : Counts(c)'
  BY DEF Uncommitted
<1>7. \A o \in Op : Ran(o)' <=> Ran(o)
  BY DEF Ran
<1> HIDE DEF Counts
<1> QED
  BY <1>1, <1>2, <1>3, <1>4, <1>5, <1>6, <1>7

\* What is in the transaction and its savepoints is still what they hold.
LEMMA SameData ==
  ASSUME TypeOK, DataExact, conn'.data = conn.data, conn'.stack = conn.stack,
         conn'.open => conn.open, poison => poison',
         \A o \in Op : Uncommitted(o)' <=> Uncommitted(o),
         \A o \in Op : Uncommitted(o) =>
           Surrounding(op[o].scope)' = Surrounding(op[o].scope)
  PROVE  DataExact'
<1> SUFFICES ASSUME conn'.open, ~poison'
             PROVE  /\ conn.data = {o \in Op : Uncommitted(o)'}
                    /\ \A n \in 1..Len(conn.stack) :
                         conn.stack[n].data =
                           {o \in Op : Uncommitted(o)' /\
                              conn.stack[n].scope \notin Surrounding(op[o].scope)'}
  BY DEF DataExact
<1>1. conn.open /\ ~poison
  OBVIOUS
<1> QED
  BY <1>1 DEF DataExact

\* The savepoints are still those of the scopes under way.
LEMMA SameStack ==
  ASSUME TypeOK, SavepointsNest, conn'.stack = conn.stack, conn'.open => conn.open,
         poison => poison',
         \A c \in Scope : Active(c) => scope'[c].within = scope[c].within,
         \A c \in Scope : (Active(c) /\ ~IsOuter(c) /\ scope[c].pc # "savepoint")' <=>
                          (Active(c) /\ ~IsOuter(c) /\ scope[c].pc # "savepoint")
  PROVE  SavepointsNest'
<1> SUFFICES ASSUME conn'.open, ~poison'
             PROVE  /\ \A m, n \in 1..Len(conn.stack) :
                         m < n => conn.stack[m].scope \in scope'[conn.stack[n].scope].within
                    /\ {conn.stack[n].scope : n \in 1..Len(conn.stack)} =
                         {c \in Scope : (Active(c) /\ ~IsOuter(c) /\ scope[c].pc # "savepoint")'}
  BY DEF SavepointsNest
<1>1. conn.open /\ ~poison
  OBVIOUS
<1>2. /\ \A m, n \in 1..Len(conn.stack) :
           m < n => conn.stack[m].scope \in scope[conn.stack[n].scope].within
      /\ {conn.stack[n].scope : n \in 1..Len(conn.stack)} =
           {c \in Scope : Active(c) /\ ~IsOuter(c) /\ scope[c].pc # "savepoint"}
  BY <1>1 DEF SavepointsNest
<1>3. \A n \in 1..Len(conn.stack) : conn.stack[n].scope \in Scope /\ Active(conn.stack[n].scope)
  BY <1>2
<1>4. \A m, n \in 1..Len(conn.stack) :
        m < n => conn.stack[m].scope \in scope'[conn.stack[n].scope].within
  BY <1>2, <1>3
<1>5. {c \in Scope : (Active(c) /\ ~IsOuter(c) /\ scope[c].pc # "savepoint")'} =
        {c \in Scope : Active(c) /\ ~IsOuter(c) /\ scope[c].pc # "savepoint"}
  OBVIOUS
<1> QED
  BY <1>2, <1>4, <1>5

\* A scope that moves has at most fewer children than before.
LEMMA MoveKeepsInnermost ==
  ASSUME PendingInnermost, TypeOK, NEW s \in Scope, NEW pc, Moves(s, pc),
         Active(s) \/ IsOuter(s), op' = op
  PROVE  PendingInnermost'
<1>1. \A c \in Scope : Children(c)' \subseteq Children(c)
  BY NestedAssumption DEF Moves, Children, Active, IsOuter
<1>2. \A o \in Op : op[o].scope \in Scope \cup {None}
  BY DEF TypeOK, OpState
<1> QED
  BY <1>1, <1>2 DEF PendingInnermost

\* An outcome is known when the scope is done, and not before.
LEMMA MoveKeepsOutcome ==
  ASSUME OutcomeOK, NEW s \in Scope, NEW pc, Moves(s, pc),
         scope'[s].outcome = "none" <=> pc # "done"
  PROVE  OutcomeOK'
BY DEF OutcomeOK, Moves

\* What a transaction promises does not change by a step of a scope, unless it
\* is inside its callback.
LEMMA MoveKeepsKept ==
  ASSUME Control, NestingOK, NEW s \in Scope, NEW pc, Moves(s, pc), Active(s), op' = op,
         NEW r \in Scope, IsOuter(r), scope[r].pc \notin Inside
  PROVE  Kept(r)' = Kept(r)
<1>1. \A c \in Scope : Surrounding(c)' = Surrounding(c) /\ Surrounding(c) \subseteq Scope
  BY MoveKeepsPlaces DEF Control, TypeOK, ScopeState, Surrounding
<1>2. \A o \in Op : op[o].scope \in Scope \cup {None}
  BY DEF Control, TypeOK, OpState
<1>3. \A o \in Op : op[o].scope \in Scope /\ r \in Surrounding(op[o].scope) =>
        s \notin Surrounding(op[o].scope) \ {r}
  BY OuterWaits
<1>4. \A o \in Op : op[o].scope \in Scope /\ r \in Surrounding(op[o].scope) =>
        \A c \in Surrounding(op[o].scope) \ {r} : scope'[c] = scope[c]
  BY <1>1, <1>3 DEF Moves
<1>5. \A o \in Op : Ran(o)' <=> Ran(o)
  BY DEF Ran
<1> QED
  BY <1>1, <1>2, <1>4, <1>5 DEF Kept

\* What is durable of a transaction is the same after a step that commits nothing.
LEMMA MoveKeepsMine ==
  ASSUME TypeOK, NEW s \in Scope, NEW pc, Moves(s, pc), op' = op, durable' = durable,
         NEW r \in Scope
  PROVE  Mine(r)' = Mine(r)
<1>1. \A o \in durable : op[o].scope \in Scope \cup {None}
  BY DEF TypeOK, OpState
<1> QED
  BY <1>1, MoveKeepsPlaces DEF Mine

\* A step that commits nothing leaves every transaction as durable as it was.
LEMMA MoveKeepsDurable ==
  ASSUME Control, NestingOK, DurableOK, NEW s \in Scope, NEW pc, Moves(s, pc), Active(s),
         op' = op, durable' = durable, conn'.alive => conn.alive,
         IsOuter(s) => scope'[s].outcome # "resolved",
         scope[s].pc = "rollback" => pc = "done"
  PROVE  DurableOK'
<1> SUFFICES ASSUME DefiniteEnd, NEW r \in Scope, IsOuter(r)'
             PROVE  (Outstanding(r) \/ Delivered(r))'
  BY DEF DurableOK, DefiniteEnd
<1>1. IsOuter(r) /\ Mine(r)' = Mine(r)
  BY MoveKeepsPlaces, MoveKeepsMine DEF Control
<1>2. CASE Outstanding(r)
  BY <1>1, <1>2 DEF Outstanding, Moves
<1>3. CASE Delivered(r)
  <2>1. scope[r].pc \in {"rollback", "done"}
    BY <1>3 DEF Delivered
  <2>2. Kept(r)' = Kept(r)
    BY <1>1, <2>1, MoveKeepsKept DEF Inside
  <2>3. CASE r = s
    BY <1>1, <1>3, <2>1, <2>2, <2>3 DEF Delivered, Moves, Active, Await
  <2>4. CASE r # s
    BY <1>1, <1>3, <2>1, <2>2, <2>4 DEF Delivered, Moves
  <2> QED
    BY <2>3, <2>4
<1> QED
  BY <1>1, <1>2, <1>3 DEF DurableOK

\* The parts of the bookkeeping that have nothing to do with the server.
Books == NestingOK /\ FreshOK /\ OutcomeOK /\ PendingInnermost

\* They survive a step of a scope under way.
LEMMA MoveKeepsBooks ==
  ASSUME TypeOK, Books, NEW s \in Scope, NEW pc, Moves(s, pc), Active(s), op' = op,
         pc \in Await \cup {"done"}, pc \notin {"begin", "savepoint"},
         scope'[s].outcome = "none" <=> pc # "done"
  PROVE  Books'
<1>1. pc # "free"
  BY DEF Await
<1> QED
  BY <1>1, MoveKeepsNesting, MoveKeepsFresh, MoveKeepsOutcome, MoveKeepsInnermost DEF Books

-----------------------------------------------------------------------------
(* The steps of transaction(). *)

\* What Goto and Finish leave of the outcome.
LEMMA GotoOutcome ==
  ASSUME scope \in [Scope -> ScopeState], NEW s \in Scope, NEW pc, Goto(s, pc)
  PROVE  scope'[s].outcome = scope[s].outcome
BY DEF Goto, ScopeState

\* What Finish leaves of the outcome.
LEMMA FinishOutcome ==
  ASSUME scope \in [Scope -> ScopeState], NEW s \in Scope, NEW outcome, Finish(s, outcome)
  PROVE  scope'[s].outcome = outcome
BY DEF Finish, ScopeState

\* A scope goes on, and the server does not hear of it.
LEMMA GotoBookkeeping ==
  ASSUME IInv, NEW s \in Scope, Active(s),
         NEW pc \in {"drain", "release", "rollbackTo", "commit", "rollback"}, Goto(s, pc),
         scope[s].pc \notin {"savepoint", "releaseRolledBack", "rollback"},
         UNCHANGED <<op, conn, durable, poison>>,
         DefiniteEnd /\ pc = "commit" => ~conn.aborted
  PROVE  Bookkeeping'
<1>0. Control /\ TypeOK /\ scope \in [Scope -> ScopeState] /\ Bookkeeping
  BY DEF IInv, Control, TypeOK
<1>1. Moves(s, pc)
  BY <1>0, GotoMoves DEF Await
<1>2. scope'[s].outcome = "none" /\ scope[s].outcome = "none"
  BY <1>0, GotoOutcome DEF Bookkeeping, OutcomeOK, Active, Await
<1>3. pc \in Await /\ pc # "done" /\ pc \notin {"begin", "savepoint"}
  BY DEF Await
<1>4. Books'
  BY <1>0, <1>1, <1>2, <1>3, MoveKeepsBooks DEF Bookkeeping, Books
<1>5. \A o \in Op : Uncommitted(o)' <=> Uncommitted(o)
  BY <1>0, <1>1, <1>2, <1>3, MoveKeepsUncommitted DEF Bookkeeping, Keeps
<1>6. \A o \in Op : Uncommitted(o) => Surrounding(op[o].scope)' = Surrounding(op[o].scope)
  BY <1>0, <1>1, MoveKeepsPlaces DEF Uncommitted, TypeOK, OpState
<1>7. DataExact'
  BY <1>0, <1>5, <1>6, SameData DEF Bookkeeping
<1>8. \A c \in Scope : /\ scope'[c].within = scope[c].within
                       /\ (Active(c) /\ ~IsOuter(c) /\ scope[c].pc # "savepoint")' <=>
                          (Active(c) /\ ~IsOuter(c) /\ scope[c].pc # "savepoint")
  BY <1>1, <1>3 DEF Moves, Active, IsOuter
<1>9. SavepointsNest'
  BY <1>0, <1>8, SameStack DEF Bookkeeping
<1>10. ServerOK' /\ AbortsAllowed'
  BY <1>0 DEF Bookkeeping, ServerOK, AbortsAllowed, Ran
<1>11. CommitHealthy'
  BY <1>0, <1>1 DEF Bookkeeping, CommitHealthy, DefiniteEnd, Moves
<1>12. DurableOK'
  BY <1>0, <1>1, <1>2, MoveKeepsDurable DEF Bookkeeping
<1> QED
  BY <1>4, <1>7, <1>9, <1>10, <1>11, <1>12 DEF Bookkeeping, Books

\* A callback ends.
LEMMA EndCallbackBookkeeping ==
  ASSUME IInv, NEW s \in Scope, EndCallback(s)
  PROVE  Bookkeeping'
<1>1. scope[s].pc = "callback" /\ UNCHANGED <<op, owned, poison, conn, durable, faults>>
  BY DEF EndCallback
<1>2. PICK ok \in BOOLEAN :
        /\ ok /\ IsOuter(s) /\ conn.aborted => SwallowsAbort
        /\ IF Idle(s) THEN AfterRun(s, ok) ELSE Goto(s, "drain")
  BY DEF EndCallback
<1>3. Active(s) /\ scope[s].pc \notin {"savepoint", "releaseRolledBack", "rollback"}
  BY <1>1 DEF Active, Await
<1>4. conn.aborted => "aborts" \in FailureModes
  BY DEF IInv, Bookkeeping, AbortsAllowed
<1>5. CASE ~Idle(s)
  BY <1>1, <1>2, <1>3, <1>5, GotoBookkeeping
<1>6. CASE Idle(s)
  <2>1. PICK pc \in {"release", "rollbackTo", "commit", "rollback"} :
          Goto(s, pc) /\ (pc = "commit" => ok /\ IsOuter(s))
    BY <1>2, <1>6 DEF AfterRun
  <2>2. DefiniteEnd /\ pc = "commit" => ~conn.aborted
    BY <1>2, <1>4, <2>1 DEF DefiniteEnd
  <2> QED
    BY <1>1, <1>3, <2>1, <2>2, GotoBookkeeping
<1> QED
  BY <1>5, <1>6

\* What a callback abandoned has settled.
LEMMA DrainedBookkeeping ==
  ASSUME IInv, NEW s \in Scope, Drained(s)
  PROVE  Bookkeeping'
<1>1. /\ scope[s].pc = "drain" /\ AfterRun(s, FALSE)
      /\ UNCHANGED <<op, owned, poison, conn, durable, faults>>
  BY DEF Drained
<1>2. Active(s) /\ scope[s].pc \notin {"savepoint", "releaseRolledBack", "rollback"}
  BY <1>1 DEF Active, Await
<1>3. PICK pc \in {"rollbackTo", "rollback"} : Goto(s, pc)
  BY <1>1 DEF AfterRun
<1> QED
  BY <1>1, <1>2, <1>3, GotoBookkeeping

\* A scope that could not be recovered poisons its transaction.
LEMMA PoisonedBookkeeping ==
  ASSUME IInv, NEW s \in Scope, Active(s), ~IsOuter(s), Poisoned(s),
         UNCHANGED <<op, durable>>
  PROVE  Bookkeeping'
<1>0. Control /\ TypeOK /\ scope \in [Scope -> ScopeState] /\ Bookkeeping
  BY DEF IInv, Control, TypeOK
<1>1. Moves(s, "done") /\ scope'[s].outcome = "rejected"
  BY <1>0, FinishMoves, FinishOutcome DEF Poisoned
<1>2. poison' /\ conn' = conn
  BY DEF Poisoned
<1>3. Books'
  BY <1>0, <1>1, MoveKeepsBooks DEF Bookkeeping, Books, Await
<1>4. DataExact' /\ SavepointsNest'
  BY <1>2 DEF DataExact, SavepointsNest
<1>5. ServerOK' /\ AbortsAllowed'
  BY <1>0, <1>2 DEF Bookkeeping, ServerOK, AbortsAllowed, Ran
<1>6. CommitHealthy'
  BY <1>0, <1>1, <1>2 DEF Bookkeeping, CommitHealthy, DefiniteEnd, Moves
<1>7. scope[s].pc # "rollback"
  BY <1>0 DEF Control, KindOK
<1>8. DurableOK'
  BY <1>0, <1>1, <1>2, <1>7, MoveKeepsDurable DEF Bookkeeping
<1> QED
  BY <1>3, <1>4, <1>5, <1>6, <1>8 DEF Bookkeeping, Books

\* SAVEPOINT is answered.
LEMMA RunSavepointBookkeeping ==
  ASSUME IInv, NEW s \in Scope, RunSavepoint(s)
  PROVE  Bookkeeping'
<1>0. /\ Control /\ TypeOK /\ scope \in [Scope -> ScopeState] /\ Bookkeeping
      /\ scope[s].pc = "savepoint" /\ UNCHANGED <<op, owned, durable>>
  BY DEF IInv, Control, TypeOK, RunSavepoint
<1>1. Active(s) /\ ~IsOuter(s)
  BY <1>0 DEF Active, Await, Control, KindOK
<1>2. CASE Refused(Healthy) /\ Finish(s, "rejected") /\ poison' = TRUE /\ UNCHANGED conn
  BY <1>0, <1>1, <1>2, PoisonedBookkeeping DEF Poisoned
<1>3. CASE /\ Healthy
           /\ conn' = [conn EXCEPT !.stack = Append(@, [scope |-> s, data |-> conn.data])]
           /\ \E pc \in {"callback", "rollbackTo"} : Goto(s, pc)
           /\ UNCHANGED <<poison, faults>>
  <2>1. PICK pc \in {"callback", "rollbackTo"} : Goto(s, pc)
    BY <1>3
  <2>2. Moves(s, pc) /\ scope'[s].outcome = "none" /\ scope[s].outcome = "none"
    BY <1>0, <1>1, <2>1, GotoMoves, GotoOutcome
       DEF Await, Bookkeeping, OutcomeOK, Active
  <2>3. pc \in Await /\ pc \notin {"done", "begin", "savepoint", "releaseRolledBack"}
    BY DEF Await
  <2>4. Books'
    BY <1>0, <1>1, <2>2, <2>3, MoveKeepsBooks DEF Bookkeeping, Books
  <2> DEFINE e == [scope |-> s, data |-> conn.data]
             st == Append(conn.stack, e)
  <2>5. e \in Entry /\ e.data = conn.data /\ e.scope = s
    BY <1>0, StackTyped DEF Entry
  <2> HIDE DEF e
  <2>6. /\ Len(st) = Len(conn.stack) + 1 /\ Len(conn.stack) \in Nat
        /\ st[Len(st)] = e
        /\ \A n \in 1..Len(conn.stack) : n \in 1..Len(st) /\ st[n] = conn.stack[n]
        /\ \A n \in 1..Len(st) : n = Len(st) \/ n \in 1..Len(conn.stack)
    BY <1>0, <2>5, StackTyped
  <2>7. conn' = [conn EXCEPT !.stack = st]
    BY <1>3 DEF e
  <2> HIDE DEF st
  <2>8. /\ conn'.open = conn.open /\ conn'.alive = conn.alive /\ conn'.aborted = conn.aborted
        /\ conn'.data = conn.data /\ conn'.stack = st
    BY <1>0, <2>7 DEF TypeOK, Connection
  <2>9. conn.open
    BY <1>3 DEF Healthy
  <2>10. \A c \in Scope : /\ scope'[c].within = scope[c].within
                          /\ IsOuter(c)' <=> IsOuter(c)
                          /\ Active(c)' <=> Active(c)
                          /\ Surrounding(c)' = Surrounding(c)
    BY <1>1, <2>2, <2>3 DEF Moves, Active, IsOuter, Surrounding
  <2> DEFINE On(c) == Active(c) /\ ~IsOuter(c) /\ scope[c].pc # "savepoint"
  <2>11. \A c \in Scope : On(c)' <=> On(c) \/ c = s
    BY <1>0, <1>1, <2>2, <2>3, <2>10 DEF Moves
  <2>12. SavepointsNest'
    <3> SUFFICES ASSUME ~poison
                 PROVE  /\ \A m, n \in 1..Len(st) :
                             m < n => st[m].scope \in scope'[st[n].scope].within
                        /\ {st[n].scope : n \in 1..Len(st)} = {c \in Scope : On(c)'}
      BY <1>3, <2>8 DEF SavepointsNest
    <3>1. /\ \A m, n \in 1..Len(conn.stack) :
               m < n => conn.stack[m].scope \in scope[conn.stack[n].scope].within
          /\ {conn.stack[n].scope : n \in 1..Len(conn.stack)} = {c \in Scope : On(c)}
      BY <1>0, <2>9 DEF Bookkeeping, SavepointsNest
    <3>2. \A n \in 1..Len(conn.stack) : conn.stack[n].scope \in scope[s].within
      <4> SUFFICES ASSUME NEW n \in 1..Len(conn.stack)
                   PROVE  conn.stack[n].scope \in scope[s].within
        OBVIOUS
      <4> DEFINE c == conn.stack[n].scope
      <4>1. c \in Scope /\ Active(c) /\ c # s
        BY <1>0, <3>1
      <4>2. Innermost(s)
        BY <1>0, IsInnermost DEF Control, Chain, Inside
      <4> QED
        BY <1>0, <1>1, <4>1, <4>2 DEF Control, OneChain, Innermost
    <3>3. \A m, n \in 1..Len(st) : m < n => st[m].scope \in scope'[st[n].scope].within
      <4> SUFFICES ASSUME NEW m \in 1..Len(st), NEW n \in 1..Len(st), m < n
                   PROVE  st[m].scope \in scope'[st[n].scope].within
        OBVIOUS
      <4>1. m \in 1..Len(conn.stack) /\ st[m] = conn.stack[m]
        BY <2>6
      <4>2. CASE n = Len(st)
        BY <2>5, <2>6, <2>10, <3>2, <4>1, <4>2
      <4>3. CASE n \in 1..Len(conn.stack)
        BY <1>0, <2>6, <2>10, <3>1, <4>1, <4>3, StackTyped
      <4> QED
        BY <2>6, <4>2, <4>3
    <3>4. {st[n].scope : n \in 1..Len(st)} =
            {conn.stack[n].scope : n \in 1..Len(conn.stack)} \cup {s}
      BY <2>5, <2>6
    <3> QED
      BY <2>11, <3>1, <3>3, <3>4
  <2>13. \A o \in Op : Uncommitted(o)' <=> Uncommitted(o)
    BY <1>0, <1>1, <2>2, <2>3, MoveKeepsUncommitted DEF Bookkeeping, Keeps
  <2>14. \A o \in Op : Uncommitted(o) =>
           /\ op[o].scope \in Scope /\ s \notin Surrounding(op[o].scope)
           /\ Surrounding(op[o].scope)' = Surrounding(op[o].scope)
    <3> SUFFICES ASSUME NEW o \in Op, Uncommitted(o)
                 PROVE  /\ op[o].scope \in Scope /\ s \notin Surrounding(op[o].scope)
                        /\ Surrounding(op[o].scope)' = Surrounding(op[o].scope)
      OBVIOUS
    <3>1. op[o].scope \in Scope /\ ~Fresh(op[o].scope)
      BY <1>0 DEF Uncommitted, TypeOK, OpState, Bookkeeping, FreshOK
    <3>2. Surrounding(op[o].scope)' = Surrounding(op[o].scope)
      BY <1>0, <2>2, <3>1, MoveKeepsPlaces
    <3>3. s \notin Surrounding(op[o].scope)
      BY <1>0, <3>1 DEF Bookkeeping, FreshOK, Surrounding, Fresh
    <3> QED
      BY <3>1, <3>2, <3>3
  <2>15. DataExact'
    <3> SUFFICES ASSUME ~poison
                 PROVE  /\ conn.data = {o \in Op : Uncommitted(o)'}
                        /\ \A n \in 1..Len(st) :
                             st[n].data = {o \in Op : Uncommitted(o)' /\
                                             st[n].scope \notin Surrounding(op[o].scope)'}
      BY <1>0, <1>3, <2>8 DEF DataExact
    <3>1. /\ conn.data = {o \in Op : Uncommitted(o)}
          /\ \A n \in 1..Len(conn.stack) :
               conn.stack[n].data = {o \in Op : Uncommitted(o) /\
                                       conn.stack[n].scope \notin Surrounding(op[o].scope)}
      BY <1>0, <2>9 DEF Bookkeeping, DataExact
    <3>2. ASSUME NEW n \in 1..Len(st)
          PROVE  st[n].data = {o \in Op : Uncommitted(o)' /\
                                 st[n].scope \notin Surrounding(op[o].scope)'}
      <4>1. CASE n = Len(st)
        BY <2>5, <2>6, <2>13, <2>14, <3>1, <4>1
      <4>2. CASE n \in 1..Len(conn.stack)
        BY <2>6, <2>13, <2>14, <3>1, <4>2
      <4> QED
        BY <2>6, <4>1, <4>2
    <3> QED
      BY <2>13, <3>1, <3>2
  <2>16. ServerOK' /\ AbortsAllowed'
    BY <1>0, <2>8, <2>9 DEF Bookkeeping, ServerOK, AbortsAllowed, Ran
  <2>17. CommitHealthy'
    BY <1>0, <2>2, <2>8 DEF Bookkeeping, CommitHealthy, DefiniteEnd, Moves
  <2>18. DurableOK'
    BY <1>0, <1>1, <2>2, <2>8, MoveKeepsDurable DEF Bookkeeping
  <2> QED
    BY <2>4, <2>12, <2>15, <2>16, <2>17, <2>18 DEF Bookkeeping, Books
<1> QED
  BY <1>0, <1>2, <1>3 DEF RunSavepoint

\* A scope at an await of its own has the last savepoint of the server.
LEMMA OwnSavepoint ==
  ASSUME IInv, NEW s \in Scope, scope[s].pc \in {"release", "rollbackTo", "releaseRolledBack"},
         conn.open, ~poison, NEW n \in Savepoints(s)
  PROVE  /\ n = Len(conn.stack) /\ n \in Nat /\ n >= 1 /\ conn.stack[n].scope = s
         /\ \A m \in 1..Len(conn.stack) : m < n =>
              conn.stack[m].scope \in scope[s].within /\ conn.stack[m].scope # s
<1>0. Control /\ TypeOK /\ SavepointsNest
  BY DEF IInv, Control, Bookkeeping
<1>1. n \in 1..Len(conn.stack) /\ conn.stack[n].scope = s /\ Len(conn.stack) \in Nat
  BY <1>0, StackTyped DEF Savepoints
<1>2. /\ \A l, m \in 1..Len(conn.stack) :
           l < m => conn.stack[l].scope \in scope[conn.stack[m].scope].within
      /\ \A m \in 1..Len(conn.stack) : conn.stack[m].scope \in Scope /\ Active(conn.stack[m].scope)
  BY <1>0 DEF SavepointsNest
<1>3. Innermost(s) /\ Active(s)
  BY <1>0, IsInnermost DEF Control, Chain, Inside, Active, Await
<1>4. \A m \in 1..Len(conn.stack) : ~(n < m)
  BY <1>1, <1>2, <1>3 DEF Innermost
<1>5. n = Len(conn.stack)
  BY <1>1, <1>4
<1>6. \A m \in 1..Len(conn.stack) : m < n =>
        conn.stack[m].scope \in scope[s].within /\ conn.stack[m].scope # s
  BY <1>1, <1>2, <1>3 DEF Innermost
<1> QED
  BY <1>1, <1>5, <1>6

\* RELEASE SAVEPOINT is answered, of a scope that succeeded or was rolled back.
LEMMA ReleasedBookkeeping ==
  ASSUME IInv, NEW s \in Scope, scope[s].pc \in {"release", "releaseRolledBack"},
         Healthy, ReleaseSavepoint(s),
         NEW outcome \in {"resolved", "rejected"}, Finish(s, outcome),
         outcome = "resolved" <=> scope[s].pc # "releaseRolledBack",
         UNCHANGED <<op, poison, durable>>
  PROVE  Bookkeeping'
<1>0. Control /\ TypeOK /\ scope \in [Scope -> ScopeState] /\ Bookkeeping
  BY DEF IInv, Control, TypeOK
<1>1. Active(s) /\ ~IsOuter(s) /\ scope[s].pc \notin {"savepoint", "rollback"}
  BY <1>0 DEF Active, Await, Control, KindOK
<1>2. Moves(s, "done") /\ scope'[s].outcome = outcome
  BY <1>0, FinishMoves, FinishOutcome
<1>3. PICK n \in Savepoints(s) : conn' = [conn EXCEPT !.stack = SubSeq(@, 1, n - 1)]
  BY DEF ReleaseSavepoint
<1>4. conn.open /\ conn.alive /\ ~conn.aborted
  BY DEF Healthy
<1> DEFINE st == SubSeq(conn.stack, 1, n - 1)
<1>5. /\ conn'.open = conn.open /\ conn'.alive = conn.alive /\ conn'.aborted = conn.aborted
      /\ conn'.data = conn.data /\ conn'.stack = st
  BY <1>0, <1>3 DEF TypeOK, Connection
<1>6. n \in 1..Len(conn.stack) /\ conn.stack \in Seq(Entry) /\ Len(conn.stack) \in Nat
  BY <1>0, StackTyped DEF Savepoints
<1>7. Len(st) = n - 1 /\ \A m \in 1..(n - 1) : m \in 1..Len(conn.stack) /\ m < n /\ st[m] = conn.stack[m]
  BY <1>6
<1> HIDE DEF st
<1>8. Books'
  BY <1>0, <1>1, <1>2, MoveKeepsBooks DEF Bookkeeping, Books, Await
<1>9. \A o \in Op : Uncommitted(o)' <=> Uncommitted(o)
  BY <1>0, <1>1, <1>2, MoveKeepsUncommitted DEF Bookkeeping, Keeps
<1>10. \A o \in Op : Uncommitted(o) => Surrounding(op[o].scope)' = Surrounding(op[o].scope)
  BY <1>0, <1>2, MoveKeepsPlaces DEF Uncommitted, TypeOK, OpState
<1>11. DataExact'
  <2> SUFFICES ASSUME ~poison
               PROVE  /\ conn.data = {o \in Op : Uncommitted(o)'}
                      /\ \A m \in 1..Len(st) :
                           st[m].data = {o \in Op : Uncommitted(o)' /\
                                           st[m].scope \notin Surrounding(op[o].scope)'}
    BY <1>5 DEF DataExact
  <2>1. /\ conn.data = {o \in Op : Uncommitted(o)}
        /\ \A m \in 1..Len(conn.stack) :
             conn.stack[m].data = {o \in Op : Uncommitted(o) /\
                                     conn.stack[m].scope \notin Surrounding(op[o].scope)}
    BY <1>0, <1>4 DEF Bookkeeping, DataExact
  <2> QED
    BY <1>7, <1>9, <1>10, <2>1
<1> DEFINE On(c) == Active(c) /\ ~IsOuter(c) /\ scope[c].pc # "savepoint"
<1>12. \A c \in Scope : On(c)' <=> On(c) /\ c # s
  BY <1>2 DEF Moves, Active, IsOuter, Await
<1>13. SavepointsNest'
  <2> SUFFICES ASSUME ~poison
               PROVE  /\ \A l, m \in 1..Len(st) :
                           l < m => st[l].scope \in scope'[st[m].scope].within
                      /\ {st[m].scope : m \in 1..Len(st)} = {c \in Scope : On(c)'}
    BY <1>5 DEF SavepointsNest
  <2>1. /\ \A l, m \in 1..Len(conn.stack) :
             l < m => conn.stack[l].scope \in scope[conn.stack[m].scope].within
        /\ {conn.stack[m].scope : m \in 1..Len(conn.stack)} = {c \in Scope : On(c)}
    BY <1>0, <1>4 DEF Bookkeeping, SavepointsNest
  <2>2. /\ n = Len(conn.stack) /\ conn.stack[n].scope = s
        /\ \A m \in 1..Len(conn.stack) : m < n => conn.stack[m].scope # s
    BY <1>4, OwnSavepoint
  <2>3. \A c \in Scope : scope'[c].within = scope[c].within
    BY <1>2 DEF Moves
  <2>4. \A m \in 1..Len(st) : st[m].scope \in Scope
    BY <1>0, <1>7, StackTyped
  <2>5. \A l, m \in 1..Len(st) : l < m => st[l].scope \in scope'[st[m].scope].within
    BY <1>7, <2>1, <2>3, <2>4
  <2>6. \A m \in 1..Len(conn.stack) : m = n \/ m \in 1..(n - 1)
    BY <1>6, <2>2
  <2>7. {st[m].scope : m \in 1..Len(st)} = {conn.stack[m].scope : m \in 1..Len(conn.stack)} \ {s}
    <3>1. ASSUME NEW m \in 1..Len(st)
          PROVE  st[m].scope \in {conn.stack[l].scope : l \in 1..Len(conn.stack)} \ {s}
      BY <1>7, <2>2
    <3>2. ASSUME NEW m \in 1..Len(conn.stack), conn.stack[m].scope # s
          PROVE  conn.stack[m].scope \in {st[l].scope : l \in 1..Len(st)}
      <4>1. m \in 1..Len(st) /\ st[m] = conn.stack[m]
        BY <1>7, <2>2, <2>6, <3>2
      <4> QED
        BY <4>1
    <3> QED
      BY <3>1, <3>2
  <2> QED
    BY <1>12, <2>1, <2>5, <2>7
<1>14. ServerOK' /\ AbortsAllowed' /\ CommitHealthy'
  BY <1>0, <1>2, <1>4, <1>5
     DEF Bookkeeping, ServerOK, AbortsAllowed, CommitHealthy, DefiniteEnd, Ran, Moves
<1>15. DurableOK'
  BY <1>0, <1>1, <1>2, <1>5, MoveKeepsDurable DEF Bookkeeping
<1> QED
  BY <1>8, <1>11, <1>13, <1>14, <1>15 DEF Bookkeeping, Books

\* RELEASE of a scope that succeeded.
LEMMA ReleaseBookkeeping ==
  ASSUME IInv, NEW s \in Scope, Release(s)
  PROVE  Bookkeeping'
<1>1. scope[s].pc = "release" /\ UNCHANGED <<op, poison, durable>> /\ Active(s)
  BY DEF Release, Active, Await
<1>2. CASE Healthy /\ ReleaseSavepoint(s) /\ Finish(s, "resolved")
  BY <1>1, <1>2, ReleasedBookkeeping
<1>3. CASE Goto(s, "rollbackTo") /\ UNCHANGED conn
  BY <1>1, <1>3, GotoBookkeeping
<1> QED
  BY <1>2, <1>3 DEF Release

\* RELEASE of a scope that was rolled back.
LEMMA ReleaseRolledBackBookkeeping ==
  ASSUME IInv, NEW s \in Scope, ReleaseRolledBack(s)
  PROVE  Bookkeeping'
<1>1. scope[s].pc = "releaseRolledBack" /\ UNCHANGED <<op, durable>> /\ Active(s)
  BY DEF ReleaseRolledBack, Active, Await
<1>2. ~IsOuter(s)
  BY <1>1 DEF IInv, Control, KindOK
<1>3. CASE Healthy /\ ReleaseSavepoint(s) /\ Finish(s, "rejected") /\ UNCHANGED poison
  BY <1>1, <1>3, ReleasedBookkeeping
<1>4. CASE Poisoned(s)
  BY <1>1, <1>2, <1>4, PoisonedBookkeeping
<1> QED
  BY <1>3, <1>4 DEF ReleaseRolledBack

\* ROLLBACK TO SAVEPOINT is answered.
LEMMA RollbackToBookkeeping ==
  ASSUME IInv, NEW s \in Scope, RollbackTo(s)
  PROVE  Bookkeeping'
<1>0. /\ Control /\ TypeOK /\ scope \in [Scope -> ScopeState] /\ Bookkeeping
      /\ scope[s].pc = "rollbackTo" /\ UNCHANGED <<op, durable>>
  BY DEF IInv, Control, TypeOK, RollbackTo
<1>1. Active(s) /\ ~IsOuter(s)
  BY <1>0 DEF Active, Await, Control, KindOK
<1>2. CASE Poisoned(s)
  BY <1>0, <1>1, <1>2, PoisonedBookkeeping
<1>3. CASE /\ conn.alive /\ conn.open
           /\ \E n \in Savepoints(s) :
                conn' = [conn EXCEPT !.data = conn.stack[n].data, !.aborted = FALSE,
                                     !.stack = SubSeq(@, 1, n)]
           /\ Goto(s, "releaseRolledBack")
           /\ UNCHANGED <<poison, faults>>
  <2>1. PICK n \in Savepoints(s) :
          conn' = [conn EXCEPT !.data = conn.stack[n].data, !.aborted = FALSE,
                               !.stack = SubSeq(@, 1, n)]
    BY <1>3
  <2>2. /\ Moves(s, "releaseRolledBack")
        /\ scope'[s].outcome = "none" /\ scope[s].outcome = "none"
    BY <1>0, <1>1, <1>3, GotoMoves, GotoOutcome DEF Await, Bookkeeping, OutcomeOK, Active
  <2>3. Books'
    BY <1>0, <1>1, <2>2, MoveKeepsBooks DEF Bookkeeping, Books, Await
  <2> DEFINE st == SubSeq(conn.stack, 1, n)
  <2>4. /\ conn'.open = conn.open /\ conn'.alive = conn.alive /\ conn'.aborted = FALSE
        /\ conn'.data = conn.stack[n].data /\ conn'.stack = st
    BY <1>0, <2>1 DEF TypeOK, Connection
  <2>5. n \in 1..Len(conn.stack) /\ conn.stack \in Seq(Entry) /\ Len(conn.stack) \in Nat
    BY <1>0, StackTyped DEF Savepoints
  <2>6. Len(st) = n /\ \A m \in 1..n : m \in 1..Len(conn.stack) /\ st[m] = conn.stack[m]
    BY <2>5
  <2> HIDE DEF st
  <2>7. \A c \in Scope : /\ scope'[c].within = scope[c].within
                         /\ Surrounding(c)' = Surrounding(c)
                         /\ IsOuter(c)' <=> IsOuter(c)
                         /\ Active(c)' <=> Active(c)
    BY <1>1, <2>2 DEF Moves, Surrounding, IsOuter, Active, Await
  <2> DEFINE On(c) == Active(c) /\ ~IsOuter(c) /\ scope[c].pc # "savepoint"
  <2>8. \A c \in Scope : On(c)' <=> On(c)
    BY <1>0, <2>2, <2>7 DEF Moves
  <2>14. conn'.stack = st /\ poison' = poison
    BY <1>3, <2>4
  <2>9. SavepointsNest'
    <3> SUFFICES ASSUME ~poison
                 PROVE  /\ \A l, m \in 1..Len(st) :
                             l < m => st[l].scope \in scope'[st[m].scope].within
                        /\ {st[m].scope : m \in 1..Len(st)} = {c \in Scope : On(c)'}
      BY <2>14 DEF SavepointsNest
    <3>1. /\ \A l, m \in 1..Len(conn.stack) :
               l < m => conn.stack[l].scope \in scope[conn.stack[m].scope].within
          /\ {conn.stack[m].scope : m \in 1..Len(conn.stack)} = {c \in Scope : On(c)}
      BY <1>0, <1>3 DEF Bookkeeping, SavepointsNest
    <3>2. n = Len(conn.stack)
      BY <1>0, <1>3, OwnSavepoint
    <3>3. \A m \in 1..Len(st) : st[m].scope \in Scope
      BY <1>0, <2>6, StackTyped
    <3>4. \A l, m \in 1..Len(st) : l < m => st[l].scope \in scope'[st[m].scope].within
      BY <2>6, <2>7, <3>1, <3>3
    <3>5. {st[m].scope : m \in 1..Len(st)} = {conn.stack[m].scope : m \in 1..Len(conn.stack)}
      BY <2>6, <3>2
    <3> QED
      BY <2>8, <3>1, <3>4, <3>5
  <2>10. \A o \in Op : Uncommitted(o)' <=> Uncommitted(o) /\ s \notin Surrounding(op[o].scope)
    <3> DEFINE Counts(c) == \/ Active(c) /\ scope[c].pc # "releaseRolledBack"
                            \/ scope[c].outcome = "resolved"
    <3>1. \A c \in Scope : Counts(c)' <=> Counts(c) /\ c # s
      BY <2>2, <2>7 DEF Moves
    <3> SUFFICES ASSUME NEW o \in Op, Ran(o), op[o].scope # None
                 PROVE  Uncommitted(o)' <=> Uncommitted(o) /\ s \notin Surrounding(op[o].scope)
      BY <1>0 DEF Uncommitted, Ran
    <3> DEFINE around == Surrounding(op[o].scope)
    <3>2. op[o].scope \in Scope /\ around \subseteq Scope /\ around' = around
      BY <1>0, <2>7 DEF TypeOK, OpState, ScopeState, Surrounding
    <3>3. Uncommitted(o) <=> /\ \E r \in around : IsOuter(r) /\ Active(r)
                             /\ \A c \in around : Counts(c)
      BY DEF Uncommitted
    <3>4. Uncommitted(o)' <=> /\ \E r \in around' : IsOuter(r)' /\ Active(r)'
                              /\ \A c \in around' : Counts(c)'
      BY <1>0 DEF Uncommitted, Ran
    <3> HIDE DEF Counts, around
    <3>5. (\E r \in around' : IsOuter(r)' /\ Active(r)') <=>
            \E r \in around : IsOuter(r) /\ Active(r)
      BY <2>7, <3>2
    <3>6. (\A c \in around' : Counts(c)') <=> (\A c \in around : Counts(c)) /\ s \notin around
      BY <3>1, <3>2
    <3> QED
      BY <3>3, <3>4, <3>5, <3>6 DEF around
  <2>11. DataExact'
    <3> SUFFICES ASSUME ~poison
                 PROVE  /\ conn'.data = {o \in Op : Uncommitted(o)'}
                        /\ \A m \in 1..Len(st) :
                             st[m].data = {o \in Op : Uncommitted(o)' /\
                                             st[m].scope \notin Surrounding(op[o].scope)'}
      BY <1>3, <2>4 DEF DataExact
    <3>1. \A m \in 1..Len(conn.stack) :
            conn.stack[m].data = {o \in Op : Uncommitted(o) /\
                                    conn.stack[m].scope \notin Surrounding(op[o].scope)}
      BY <1>0, <1>3 DEF Bookkeeping, DataExact
    <3>2. /\ conn.stack[n].scope = s
          /\ \A m \in 1..Len(conn.stack) : m < n => conn.stack[m].scope \in scope[s].within
      BY <1>0, <1>3, OwnSavepoint
    <3>3. \A o \in Op : Uncommitted(o) =>
            op[o].scope \in Scope /\ Surrounding(op[o].scope)' = Surrounding(op[o].scope)
      BY <1>0, <2>7 DEF Uncommitted, TypeOK, OpState
    <3>4. conn'.data = {o \in Op : Uncommitted(o)'}
      BY <2>4, <2>5, <2>10, <3>1, <3>2
    <3>5. ASSUME NEW m \in 1..Len(st)
          PROVE  st[m].data = {o \in Op : Uncommitted(o)' /\
                                 st[m].scope \notin Surrounding(op[o].scope)'}
      <4>1. m \in 1..Len(conn.stack) /\ st[m] = conn.stack[m]
        BY <2>6
      <4>2. m = n \/ m < n
        BY <2>5, <2>6
      <4>3. \A o \in Op : Uncommitted(o) /\ s \in Surrounding(op[o].scope) =>
              st[m].scope \in Surrounding(op[o].scope)
        BY <1>0, <3>2, <3>3, <4>1, <4>2 DEF Bookkeeping, NestingOK, Surrounding
      <4> QED
        BY <2>10, <3>1, <3>3, <4>1, <4>3
    <3> QED
      BY <3>4, <3>5
  <2>12. ServerOK' /\ AbortsAllowed' /\ CommitHealthy'
    BY <1>0, <1>3, <2>4 DEF Bookkeeping, ServerOK, AbortsAllowed, CommitHealthy, Ran
  <2>13. DurableOK'
    BY <1>0, <1>1, <2>2, <2>4, MoveKeepsDurable DEF Bookkeeping
  <2> QED
    BY <2>3, <2>9, <2>11, <2>12, <2>13 DEF Bookkeeping, Books
<1> QED
  BY <1>0, <1>2, <1>3 DEF RollbackTo

\* Once the transaction is over or not begun, nothing is in it.
LEMMA OverBookkeeping ==
  ASSUME IInv, NEW s \in Scope, NEW pc \in Await \cup {"done"}, Active(s), IsOuter(s),
         scope[s].pc \notin Inside, Moves(s, pc), pc \notin {"begin", "savepoint", "commit"},
         scope'[s].outcome = "none" <=> pc # "done",
         op' = op, conn'.open = FALSE, conn'.data = {}, conn'.stack = << >>,
         conn'.aborted = FALSE, \A o \in durable' : Ran(o), DurableOK'
  PROVE  Bookkeeping'
<1>0. Control /\ TypeOK /\ Chain /\ Bookkeeping
  BY ControlParts DEF IInv, Control
<1>1. Books'
  BY <1>0, MoveKeepsBooks DEF Bookkeeping, Books
<1>2. SavepointsNest' /\ DataExact'
  BY DEF SavepointsNest, DataExact
<1>3. ServerOK' /\ AbortsAllowed' /\ CommitHealthy'
  BY DEF ServerOK, AbortsAllowed, CommitHealthy, Ran
<1> QED
  BY <1>1, <1>2, <1>3 DEF Bookkeeping, Books

\* BEGIN is answered.
LEMMA BeginBookkeeping ==
  ASSUME IInv, NEW s \in Scope, Begin(s)
  PROVE  Bookkeeping'
<1>0. /\ Control /\ TypeOK /\ Chain /\ Bookkeeping /\ scope \in [Scope -> ScopeState]
      /\ scope[s].pc = "begin" /\ UNCHANGED <<op, durable>>
  BY ControlParts DEF IInv, Begin, Control, TypeOK
<1>1. Active(s) /\ IsOuter(s) /\ scope[s].pc \notin Inside /\ Fresh(s)
  BY <1>0 DEF Active, Await, Chain, KindOK, Inside, Fresh
<1>2. /\ ~conn.open /\ conn.data = {} /\ conn.stack = << >> /\ ~conn.aborted
      /\ \A o \in durable : Ran(o)
  BY <1>0 DEF Control, GuardOK, Bookkeeping, ServerOK
<1>3. CASE Refused(TRUE) /\ Finish(s, "rejected") /\ owned' = FALSE /\ UNCHANGED <<poison, conn>>
  <2>1. Moves(s, "done") /\ scope'[s].outcome = "rejected"
    BY <1>0, <1>3, FinishMoves, FinishOutcome
  <2>2. DurableOK'
    BY <1>0, <1>1, <1>3, <2>1, MoveKeepsDurable DEF Bookkeeping
  <2>3. conn.aborted = FALSE /\ conn.open = FALSE
    BY <1>0, <1>2 DEF TypeOK, Connection
  <2> QED
    BY <1>0, <1>1, <1>2, <1>3, <2>1, <2>2, <2>3, OverBookkeeping
<1>4. CASE /\ conn.alive
           /\ conn' = [conn EXCEPT !.open = TRUE]
           /\ poison' = FALSE
           /\ \E pc \in {"callback", "rollback"} : Goto(s, pc)
           /\ UNCHANGED <<owned, faults>>
  <2>1. PICK pc \in {"callback", "rollback"} : Goto(s, pc)
    BY <1>4
  <2>2. /\ Moves(s, pc) /\ scope'[s].outcome = "none" /\ scope[s].outcome = "none"
        /\ pc \in Await /\ pc \notin {"done", "begin", "savepoint"}
    BY <1>0, <1>1, <2>1, GotoMoves, GotoOutcome DEF Await, Bookkeeping, OutcomeOK, Active
  <2>3. /\ conn'.open = TRUE /\ conn'.alive = conn.alive /\ conn'.aborted = conn.aborted
        /\ conn'.data = {} /\ conn'.stack = << >>
    BY <1>0, <1>2, <1>4 DEF TypeOK, Connection
  <2>4. Books'
    BY <1>0, <1>1, <2>2, MoveKeepsBooks DEF Bookkeeping, Books
  <2>5. \A c \in Scope : IsOuter(c)' <=> IsOuter(c)
    BY <2>2 DEF Moves, IsOuter
  <2>6. \A c \in Scope \ {s} : ~Active(c) /\ ~Active(c)'
    BY <1>0, <1>1, <2>2, OthersWait DEF Moves, Active
  <2>7. SavepointsNest'
    <3>1. Len(conn'.stack) = 0
      BY <2>3
    <3>2. {conn'.stack[n].scope : n \in 1..Len(conn'.stack)} = {}
      BY <3>1
    <3> QED
      BY <1>1, <2>5, <2>6, <3>1, <3>2 DEF SavepointsNest
  <2>8. \A o \in Op : ~Uncommitted(o)'
    <3> SUFFICES ASSUME NEW o \in Op, Uncommitted(o)'
                 PROVE  FALSE
      OBVIOUS
    <3>1. op[o].scope \in Scope
      BY <1>0 DEF Uncommitted, TypeOK, OpState
    <3>2. Surrounding(op[o].scope)' = Surrounding(op[o].scope)
      BY <1>0, <2>2, <3>1, MoveKeepsPlaces
    <3>3. PICK r \in Surrounding(op[o].scope) : Active(r)'
      BY <3>2 DEF Uncommitted
    <3>4. r = s
      BY <1>0, <2>6, <3>1, <3>3 DEF TypeOK, ScopeState, Surrounding
    <3> QED
      BY <1>0, <1>1, <3>1, <3>3, <3>4, NestedAssumption DEF Bookkeeping, FreshOK, Surrounding
  <2>9. DataExact'
    <3>1. Len(conn'.stack) = 0
      BY <2>3
    <3> QED
      BY <2>3, <2>8, <3>1 DEF DataExact
  <2>10. ServerOK' /\ AbortsAllowed' /\ CommitHealthy'
    BY <1>0, <1>2, <2>3
       DEF Bookkeeping, ServerOK, AbortsAllowed, CommitHealthy, Ran
  <2>11. DurableOK'
    BY <1>0, <1>1, <2>2, <2>3, MoveKeepsDurable DEF Bookkeeping
  <2> QED
    BY <2>4, <2>7, <2>9, <2>10, <2>11 DEF Bookkeeping, Books
<1> QED
  BY <1>0, <1>3, <1>4 DEF Begin

\* ROLLBACK is answered.
LEMMA RollbackBookkeeping ==
  ASSUME IInv, NEW s \in Scope, Rollback(s)
  PROVE  Bookkeeping'
<1>0. /\ Control /\ TypeOK /\ Chain /\ Bookkeeping /\ scope \in [Scope -> ScopeState]
      /\ scope[s].pc = "rollback" /\ UNCHANGED <<op, durable>> /\ conn' = Ended
  BY ControlParts DEF IInv, Rollback, Control, TypeOK
<1>1. Active(s) /\ IsOuter(s) /\ scope[s].pc \notin Inside
  BY <1>0 DEF Active, Await, Chain, KindOK, Inside
<1>2. Moves(s, "done") /\ scope'[s].outcome = "rejected"
  BY <1>0, FinishMoves, FinishOutcome DEF Rollback
<1>3. /\ conn'.open = FALSE /\ conn'.data = {} /\ conn'.stack = << >>
      /\ conn'.aborted = FALSE /\ conn'.alive = conn.alive
  BY <1>0 DEF Ended, Closed
<1>4. DurableOK'
  BY <1>0, <1>1, <1>2, <1>3, MoveKeepsDurable DEF Bookkeeping
<1>5. \A o \in durable' : Ran(o)
  BY <1>0 DEF Bookkeeping, ServerOK
<1> QED
  BY <1>0, <1>1, <1>2, <1>3, <1>4, <1>5, OverBookkeeping

\* COMMIT makes durable what its transaction promised to keep, and nothing of
\* any other.
LEMMA CommitDelivers ==
  ASSUME IInv, DefiniteEnd, NEW s \in Scope, scope[s].pc = "commit", conn.alive,
         NEW pc, Moves(s, pc), op' = op, durable' = durable \cup conn.data
  PROVE  /\ IsOuter(s) /\ Mine(s)' = Kept(s)'
         /\ \A r \in Scope \ {s} : IsOuter(r) => Mine(r)' = Mine(r)
<1>0. Control /\ TypeOK /\ Chain /\ Bookkeeping
  BY ControlParts DEF IInv, Control
<1>1. Active(s) /\ IsOuter(s) /\ scope[s].pc \notin Inside
  BY <1>0 DEF Active, Await, Chain, KindOK, Inside
<1>2. \A c \in Scope \ {s} : ~Active(c) /\ scope'[c] = scope[c]
  BY <1>0, <1>1, OthersWait DEF Moves
<1>3. conn.data = {o \in Op : Uncommitted(o)}
  BY <1>0, <1>1 DEF Control, GuardOK, PoisonOK, Bookkeeping, DataExact
<1>4. Mine(s) = {}
  BY <1>0, <1>1 DEF Bookkeeping, DurableOK, Outstanding, Delivered
<1>5. \A c \in Scope : Surrounding(c)' = Surrounding(c) /\ Surrounding(c) \subseteq Scope
  BY <1>0, MoveKeepsPlaces DEF TypeOK, ScopeState, Surrounding
<1>6. \A o \in Op : op[o].scope \in Scope \cup {None}
  BY <1>0 DEF TypeOK, OpState
<1>7. \A o \in Op : op[o].scope \in Scope /\ s \in Surrounding(op[o].scope) =>
        (Uncommitted(o) <=>
           Ran(o) /\ \A c \in Surrounding(op[o].scope) \ {s} : scope[c].outcome = "resolved")
  <2> SUFFICES ASSUME NEW o \in Op, op[o].scope \in Scope, s \in Surrounding(op[o].scope)
               PROVE  Uncommitted(o) <=>
                        Ran(o) /\ \A c \in Surrounding(op[o].scope) \ {s} :
                                    scope[c].outcome = "resolved"
    OBVIOUS
  <2> QED
    BY <1>1, <1>2, <1>5, NestedAssumption DEF Uncommitted
<1>8. Kept(s)' = {o \in Op : op[o].scope \in Scope /\ s \in Surrounding(op[o].scope)
                               /\ Uncommitted(o)}
  <2>1. \A o \in Op : Ran(o)' <=> Ran(o)
    BY DEF Ran
  <2> QED
    BY <1>2, <1>5, <1>6, <1>7, <2>1, NestedAssumption DEF Kept
<1>9. Mine(s)' = {o \in Op : op[o].scope \in Scope /\ s \in Surrounding(op[o].scope)
                               /\ Uncommitted(o)}
  <2>1. durable \subseteq Op
    BY <1>0 DEF TypeOK
  <2> QED
    BY <1>3, <1>4, <1>5, <1>6, <2>1, NestedAssumption DEF Mine
<1>10. ASSUME NEW r \in Scope \ {s}, IsOuter(r)
       PROVE  Mine(r)' = Mine(r)
  <2>1. ASSUME NEW o \in Op, Uncommitted(o)
        PROVE  r \notin Surrounding(op[o].scope)
    <3>1. PICK q \in Surrounding(op[o].scope) : IsOuter(q) /\ Active(q)
      BY <2>1 DEF Uncommitted
    <3>2. op[o].scope \in Scope /\ q = s
      BY <1>2, <1>5, <1>6, <2>1, <3>1 DEF Uncommitted
    <3> QED
      BY <1>0, <1>10, <3>1, <3>2 DEF Bookkeeping, NestingOK
  <2>2. \A o \in durable : op[o].scope \in Scope \cup {None}
    BY <1>0, <1>6 DEF TypeOK
  <2>3. \A o \in conn.data : op[o].scope \in Scope /\ r \notin Surrounding(op[o].scope)
    BY <1>3, <1>6, <2>1 DEF Uncommitted
  <2> QED
    BY <1>5, <2>2, <2>3 DEF Mine
<1> QED
  BY <1>1, <1>8, <1>9, <1>10

\* COMMIT is answered, or its answer is lost.
LEMMA CommitBookkeeping ==
  ASSUME IInv, NEW s \in Scope, Commit(s)
  PROVE  Bookkeeping'
<1>0. /\ Control /\ TypeOK /\ Chain /\ Bookkeeping /\ scope \in [Scope -> ScopeState]
      /\ scope[s].pc = "commit" /\ UNCHANGED <<op, poison>>
  BY ControlParts DEF IInv, Commit, Control, TypeOK
<1>1. Active(s) /\ IsOuter(s) /\ scope[s].pc \notin Inside
  BY <1>0 DEF Active, Await, Chain, KindOK, Inside
<1>2. CASE Goto(s, "rollback") /\ UNCHANGED <<owned, conn, durable>>
  BY <1>0, <1>1, <1>2, GotoBookkeeping
<1> DEFINE Committed == durable' = IF conn.aborted THEN durable ELSE durable \cup conn.data
<1>3. ASSUME conn.alive, Committed, NEW pc \in {"done", "rollback"}, Moves(s, pc),
             scope'[s].outcome = "none" <=> pc = "rollback",
             \/ pc = "done" /\ (scope'[s].outcome = "resolved" \/ LateAborts)
             \/ ~conn'.alive,
             conn'.open = FALSE, conn'.data = {}, conn'.stack = << >>, conn'.aborted = FALSE
      PROVE  Bookkeeping'
  <2>1. \A o \in durable' : Ran(o)
    BY <1>0, <1>3 DEF Bookkeeping, ServerOK, Control, DataOK, InTransaction
  <2>2. DurableOK'
    <3> SUFFICES ASSUME DefiniteEnd, NEW r \in Scope, IsOuter(r)'
                 PROVE  (Outstanding(r) \/ Delivered(r))'
      BY DEF DurableOK, DefiniteEnd
    <3>1. durable' = durable \cup conn.data
      BY <1>0, <1>3 DEF Bookkeeping, CommitHealthy
    <3>2. IsOuter(r)
      BY <1>3, MoveKeepsPlaces
    <3>3. CASE r = s
      <4>1. Mine(s)' = Kept(s)'
        BY <1>0, <1>3, <3>1, CommitDelivers
      <4>2. scope'[s].pc = pc
        BY <1>3 DEF Moves
      <4> QED
        BY <1>3, <3>3, <4>1, <4>2 DEF Delivered
    <3>4. CASE r # s
      <4>1. Mine(r)' = Mine(r)
        BY <1>0, <1>3, <3>1, <3>2, <3>4, CommitDelivers
      <4>2. scope'[r] = scope[r]
        BY <1>3, <3>4 DEF Moves
      <4>3. CASE Outstanding(r)
        BY <4>1, <4>2, <4>3 DEF Outstanding
      <4>4. CASE Delivered(r)
        <5>1. scope[r].pc = "done" /\ (scope[r].outcome = "resolved" \/ LateAborts)
          BY <1>3, <4>4 DEF Delivered
        <5>2. Kept(r)' = Kept(r)
          BY <1>0, <1>1, <1>3, <3>2, <5>1, MoveKeepsKept DEF Bookkeeping, Inside
        <5> QED
          BY <4>1, <4>2, <4>4, <5>1, <5>2 DEF Delivered
      <4> QED
        BY <1>0, <3>2, <4>3, <4>4 DEF Bookkeeping, DurableOK
    <3> QED
      BY <3>3, <3>4
  <2>3. pc \in Await \cup {"done"}
    BY DEF Await
  <2> QED
    BY <1>0, <1>1, <1>3, <2>1, <2>2, <2>3, OverBookkeeping
<1>4. CASE /\ conn.alive /\ Committed /\ conn' = Ended
           /\ \E outcome \in {"resolved"} \cup IF LateAborts THEN {"rejected"} ELSE {} :
                Finish(s, outcome)
  <2>1. PICK outcome \in {"resolved", "rejected"} :
          Finish(s, outcome) /\ (outcome = "resolved" \/ LateAborts)
    BY <1>4
  <2>2. Moves(s, "done") /\ scope'[s].outcome = outcome
    BY <1>0, <2>1, FinishMoves, FinishOutcome
  <2>3. conn'.open = FALSE /\ conn'.data = {} /\ conn'.stack = << >> /\ conn'.aborted = FALSE
    BY <1>4 DEF Ended, Closed
  <2> QED
    BY <1>3, <1>4, <2>1, <2>2, <2>3
<1>5. CASE /\ conn.alive /\ Committed /\ conn' = [Closed EXCEPT !.alive = FALSE]
           /\ Goto(s, "rollback")
  <2>1. Moves(s, "rollback") /\ scope'[s].outcome = "none"
    BY <1>0, <1>1, <1>5, GotoMoves, GotoOutcome DEF Await, Bookkeeping, OutcomeOK, Active
  <2>2. /\ conn'.open = FALSE /\ conn'.data = {} /\ conn'.stack = << >>
        /\ conn'.aborted = FALSE /\ ~conn'.alive
    BY <1>5 DEF Closed
  <2> QED
    BY <1>3, <1>5, <2>1, <2>2
<1> QED
  BY <1>0, <1>2, <1>4, <1>5 DEF Commit

-----------------------------------------------------------------------------
(* Calls and answers. *)

\* The call o changes and had no effect before.
LEMMA CallChanges ==
  ASSUME IInv, NEW o \in Op, ~Ran(o), scope' = scope, op' \in [Op -> OpState],
         \A x \in Op \ {o} : op'[x] = op[x],
         op'[o].scope # None => ~Fresh(op'[o].scope),
         op'[o].state = "pending" /\ op'[o].scope # None => Children(op'[o].scope) = {}
  PROVE  /\ Books'
         /\ \A x \in Op \ {o} : Uncommitted(x)' <=> Uncommitted(x)
         /\ ~Ran(o)' => ~Uncommitted(o)'
         /\ ~Uncommitted(o)
         /\ \A r \in Scope : o \notin durable' /\ durable' \ {o} = durable \ {o} =>
              Mine(r)' = Mine(r)
         /\ \A r \in Scope :
              (Ran(o)' => op'[o].scope = None \/ r \notin Surrounding(op'[o].scope)) =>
              Kept(r)' = Kept(r)
<1>0. Control /\ TypeOK /\ Bookkeeping
  BY DEF IInv, Control
<1>1. \A c : /\ Surrounding(c)' = Surrounding(c) /\ (IsOuter(c)' <=> IsOuter(c))
             /\ (Active(c)' <=> Active(c)) /\ (Fresh(c)' <=> Fresh(c))
             /\ Children(c)' = Children(c)
  BY DEF Surrounding, IsOuter, Active, Fresh, Children
<1>2. \A x \in Op \ {o} : Ran(x)' <=> Ran(x)
  BY DEF Ran
<1>3. Books'
  <2>1. NestingOK' /\ OutcomeOK'
    BY <1>0, <1>1 DEF Bookkeeping, NestingOK, OutcomeOK
  <2>2. FreshOK'
    BY <1>0, <1>1 DEF Bookkeeping, FreshOK
  <2>3. PendingInnermost'
    BY <1>0, <1>1 DEF Bookkeeping, PendingInnermost
  <2> QED
    BY <2>1, <2>2, <2>3 DEF Books
<1>4. \A x \in Op \ {o} : Uncommitted(x)' <=> Uncommitted(x)
  BY <1>1, <1>2 DEF Uncommitted
<1>5. ~Uncommitted(o) /\ (~Ran(o)' => ~Uncommitted(o)')
  BY DEF Uncommitted
<1>6. o \notin durable
  BY <1>0 DEF Bookkeeping, ServerOK
<1>7. ASSUME NEW r \in Scope, o \notin durable', durable' \ {o} = durable \ {o}
      PROVE  Mine(r)' = Mine(r)
  <2>1. durable' = durable /\ durable \subseteq Op
    BY <1>0, <1>6, <1>7 DEF TypeOK
  <2> QED
    BY <1>1, <1>6, <2>1 DEF Mine
<1>8. ASSUME NEW r \in Scope,
             Ran(o)' => op'[o].scope = None \/ r \notin Surrounding(op'[o].scope)
      PROVE  Kept(r)' = Kept(r)
  BY <1>1, <1>2, <1>8 DEF Kept
<1> QED
  BY <1>3, <1>4, <1>5, <1>7, <1>8

\* A call is reserved.
LEMMA CallExecuteBookkeeping ==
  ASSUME IInv, NEW s \in Scope \cup {None}, NEW o \in Op, CallExecute(s, o)
  PROVE  Bookkeeping'
<1>0. /\ Control /\ TypeOK /\ Bookkeeping /\ op[o].state = "free"
      /\ UNCHANGED <<scope, poison, conn, durable>>
  BY DEF IInv, Control, CallExecute
<1>1. /\ op' \in [Op -> OpState] /\ op'[o].scope = s /\ op'[o].state = "pending"
      /\ \A x \in Op \ {o} : op'[x] = op[x]
  BY <1>0 DEF CallExecute, TypeOK, OpState
<1>2. s # None => scope[s].pc = "callback" /\ Children(s) = {}
  BY DEF CallExecute, Available
<1>3. ~Ran(o) /\ ~Ran(o)'
  BY <1>0, <1>1 DEF Ran
<1>4. o \notin durable
  BY <1>0, <1>3 DEF Bookkeeping, ServerOK
<1>5. /\ Books' /\ \A x \in Op : Uncommitted(x)' <=> Uncommitted(x)
      /\ \A r \in Scope : Mine(r)' = Mine(r) /\ Kept(r)' = Kept(r)
  BY <1>0, <1>1, <1>2, <1>3, <1>4, CallChanges DEF Fresh
<1>6. \A x \in Op : Uncommitted(x) => Surrounding(op[x].scope)' = Surrounding(op[x].scope)
  BY <1>0, <1>1, <1>3 DEF Uncommitted, Surrounding
<1>7. DataExact'
  BY <1>0, <1>5, <1>6, SameData DEF Bookkeeping
<1>8. SavepointsNest' /\ CommitHealthy' /\ AbortsAllowed'
  BY <1>0 DEF Bookkeeping, SavepointsNest, CommitHealthy, AbortsAllowed, DefiniteEnd, Active, IsOuter
<1>9. ServerOK'
  <2>1. \A x \in durable : x \in Op \ {o}
    BY <1>0, <1>4 DEF TypeOK
  <2> QED
    BY <1>0, <1>1, <2>1 DEF Bookkeeping, ServerOK, Ran
<1>10. DurableOK'
  BY <1>0, <1>5 DEF Bookkeeping, DurableOK, Outstanding, Delivered, IsOuter, DefiniteEnd
<1> QED
  BY <1>5, <1>7, <1>8, <1>9, <1>10 DEF Bookkeeping, Books

\* A scope that is not under way yet becomes one.
LEMMA NewScope ==
  ASSUME IInv, NEW c \in Scope, scope[c].pc = "free",
         \A d \in Scope \ {c} : scope'[d] = scope[d],
         op' = op, durable' = durable
  PROVE  /\ \A d \in Scope : c \notin scope[d].within
         /\ \A d \in Scope \ {c} : Surrounding(d)' = Surrounding(d) /\ c \notin Surrounding(d)
                                   /\ Surrounding(d) \subseteq Scope
         /\ \A o \in Op : op[o].scope # c /\ op[o].scope \in Scope \cup {None}
         /\ \A r \in Scope \ {c} : Mine(r)' = Mine(r) /\ Kept(r)' = Kept(r)
<1>0. TypeOK /\ Bookkeeping
  BY DEF IInv, Control
<1>1. Fresh(c)
  BY DEF Fresh
<1>2. \A d \in Scope : c \notin scope[d].within
  BY <1>0, <1>1 DEF Bookkeeping, FreshOK
<1>3. \A d \in Scope \ {c} : Surrounding(d)' = Surrounding(d) /\ c \notin Surrounding(d)
                             /\ Surrounding(d) \subseteq Scope
  BY <1>0, <1>2 DEF Surrounding, TypeOK, ScopeState
<1>4. \A o \in Op : op[o].scope # c /\ op[o].scope \in Scope \cup {None}
  BY <1>0, <1>1, NestedAssumption DEF Bookkeeping, FreshOK, TypeOK, OpState
<1>5. \A o \in Op : Ran(o)' <=> Ran(o)
  BY DEF Ran
<1>6. ASSUME NEW r \in Scope \ {c} PROVE Mine(r)' = Mine(r) /\ Kept(r)' = Kept(r)
  <2>1. \A o \in durable : o \in Op
    BY <1>0 DEF TypeOK
  <2>2. Mine(r)' = Mine(r)
    BY <1>3, <1>4, <2>1 DEF Mine
  <2>3. \A o \in Op : op[o].scope # None =>
          \A d \in Surrounding(op[o].scope) : scope'[d] = scope[d]
    BY <1>3, <1>4
  <2>4. Kept(r)' = Kept(r)
    BY <1>3, <1>4, <1>5, <2>3 DEF Kept
  <2> QED
    BY <2>2, <2>4
<1> QED
  BY <1>2, <1>3, <1>4, <1>6

\* A nested transaction is reserved.
LEMMA CallNestedBookkeeping ==
  ASSUME IInv, NEW s \in Scope, NEW c \in Scope, CallNested(s, c)
  PROVE  Bookkeeping'
<1>0. /\ Control /\ TypeOK /\ Bookkeeping /\ scope \in [Scope -> ScopeState]
      /\ scope[c].pc = "free" /\ scope[s].pc = "callback" /\ Children(s) = {} /\ Pending(s) = {}
      /\ UNCHANGED <<op, owned, poison, conn, durable, faults>>
  BY DEF IInv, Control, CallNested, Available, TypeOK
<1>1. /\ \A d \in Scope \ {c} : scope'[d] = scope[d]
      /\ scope'[c].parent = s /\ scope'[c].pc = "savepoint" /\ scope'[c].outcome = "none"
      /\ scope'[c].within = scope[s].within \cup {s}
  BY <1>0 DEF CallNested, ScopeState
<1>2. s # c /\ s # None /\ ~Active(c) /\ Active(s)
  BY <1>0, NestedAssumption DEF Active, Await
<1>3. /\ \A d \in Scope : c \notin scope[d].within
      /\ \A d \in Scope \ {c} : Surrounding(d)' = Surrounding(d) /\ c \notin Surrounding(d)
                                /\ Surrounding(d) \subseteq Scope
      /\ \A o \in Op : op[o].scope # c /\ op[o].scope \in Scope \cup {None}
      /\ \A r \in Scope \ {c} : Mine(r)' = Mine(r) /\ Kept(r)' = Kept(r)
  BY <1>0, <1>1, NewScope
<1>4. /\ \A d \in Scope \ {c} : (IsOuter(d)' <=> IsOuter(d)) /\ (Active(d)' <=> Active(d))
      /\ ~IsOuter(c)' /\ Surrounding(c)' = Surrounding(s) \cup {c}
  BY <1>1, <1>2 DEF IsOuter, Active, Surrounding
<1>5. NestingOK'
  <2> SUFFICES ASSUME NEW d \in Scope
               PROVE  /\ \A t \in scope'[d].within : scope'[t].within \subseteq scope'[d].within
                      /\ \E r \in Surrounding(d)' : \A t \in Surrounding(d)' : IsOuter(t)' <=> t = r
                      /\ IsOuter(d)' => scope'[d].within = {}
    BY DEF NestingOK
  <2>1. /\ \A t \in scope[d].within : scope[t].within \subseteq scope[d].within
        /\ \E r \in Surrounding(d) : \A t \in Surrounding(d) : IsOuter(t) <=> t = r
        /\ IsOuter(d) => scope[d].within = {}
    BY <1>0 DEF Bookkeeping, NestingOK
  <2>2. CASE d # c
    <3>1. scope[d].within \subseteq Scope \ {c} /\ Surrounding(d) \subseteq Scope \ {c}
      BY <1>3, <2>2 DEF Surrounding
    <3> QED
      BY <1>1, <1>3, <1>4, <2>1, <2>2, <3>1
  <2>3. CASE d = c
    <3>1. /\ \A t \in scope[s].within : scope[t].within \subseteq scope[s].within
          /\ scope[s].within \subseteq Scope \ {c}
      BY <1>0, <1>3 DEF Bookkeeping, NestingOK, TypeOK, ScopeState
    <3>2. \A t \in scope'[c].within : scope'[t].within \subseteq scope'[c].within
      BY <1>1, <1>2, <3>1
    <3>3. PICK r \in Surrounding(s) : \A t \in Surrounding(s) : IsOuter(t) <=> t = r
      BY <1>0 DEF Bookkeeping, NestingOK
    <3>4. \A t \in Surrounding(c)' : IsOuter(t)' <=> t = r
      BY <1>2, <1>3, <1>4, <3>3
    <3> QED
      BY <1>4, <2>3, <3>2, <3>3, <3>4
  <2> QED
    BY <2>2, <2>3
<1>6. FreshOK'
  <2>1. \A d \in Scope \ {c} : Fresh(d)' <=> Fresh(d)
    BY <1>1 DEF Fresh
  <2>2. ASSUME NEW d \in Scope, NEW t \in scope'[d].within PROVE ~Fresh(t)'
    <3>1. CASE d # c
      <4>1. t \in scope[d].within /\ t \in Scope \ {c}
        BY <1>1, <1>3, <2>2, <3>1 DEF Surrounding
      <4> QED
        BY <1>0, <2>1, <4>1 DEF Bookkeeping, FreshOK
    <3>2. CASE d = c /\ t = s
      BY <1>0, <1>1, <1>2, <3>2 DEF Fresh
    <3>3. CASE d = c /\ t # s
      <4>1. t \in scope[s].within /\ t \in Scope \ {c}
        BY <1>1, <1>2, <1>3, <2>2, <3>3 DEF Surrounding
      <4> QED
        BY <1>0, <2>1, <4>1 DEF Bookkeeping, FreshOK
    <3> QED
      BY <3>1, <3>2, <3>3
  <2>3. \A o \in Op : (op[o].scope # None => ~Fresh(op[o].scope))'
    BY <1>0, <1>3, <2>1 DEF Bookkeeping, FreshOK
  <2> QED
    BY <2>2, <2>3 DEF FreshOK
<1>7. OutcomeOK'
  BY <1>0, <1>1 DEF Bookkeeping, OutcomeOK
<1>8. PendingInnermost'
  <2> SUFFICES ASSUME NEW o \in Op, op[o].state = "pending", op[o].scope # None
               PROVE  Children(op[o].scope)' = {}
    BY <1>0 DEF PendingInnermost
  <2>1. op[o].scope # s
    BY <1>0 DEF Pending
  <2>2. \A d \in Scope \ {s} : Children(d)' = Children(d)
    BY <1>1, <1>2, <1>4 DEF Children
  <2>3. Children(op[o].scope)' = Children(op[o].scope)
    BY <1>0, <1>3, <2>1, <2>2
  <2> QED
    BY <1>0, <2>3 DEF Bookkeeping, PendingInnermost
<1>9. \A o \in Op : Uncommitted(o)' <=> Uncommitted(o)
  <2>1. \A o \in Op : op[o].scope # None =>
          /\ Surrounding(op[o].scope)' = Surrounding(op[o].scope)
          /\ \A d \in Surrounding(op[o].scope) :
               scope'[d] = scope[d] /\ (IsOuter(d)' <=> IsOuter(d)) /\ (Active(d)' <=> Active(d))
    BY <1>0, <1>1, <1>3, <1>4
  <2>2. \A o \in Op : Ran(o)' <=> Ran(o)
    BY <1>0 DEF Ran
  <2> QED
    BY <1>0, <2>1, <2>2 DEF Uncommitted
<1>10. \A o \in Op : Uncommitted(o) => Surrounding(op[o].scope)' = Surrounding(op[o].scope)
  BY <1>0, <1>3 DEF Uncommitted
<1>11. DataExact'
  BY <1>0, <1>9, <1>10, SameData DEF Bookkeeping
<1>12. SavepointsNest'
  <2>1. \A d \in Scope : Active(d) => scope'[d].within = scope[d].within
    BY <1>1, <1>2
  <2>2. \A d \in Scope : (Active(d) /\ ~IsOuter(d) /\ scope[d].pc # "savepoint")' <=>
                         (Active(d) /\ ~IsOuter(d) /\ scope[d].pc # "savepoint")
    BY <1>1, <1>2, <1>4
  <2> QED
    BY <1>0, <2>1, <2>2, SameStack DEF Bookkeeping
<1>13. ServerOK' /\ AbortsAllowed'
  BY <1>0 DEF Bookkeeping, ServerOK, AbortsAllowed, Ran
<1>14. CommitHealthy'
  BY <1>0, <1>1 DEF Bookkeeping, CommitHealthy, DefiniteEnd
<1>15. DurableOK'
  BY <1>0, <1>1, <1>3, <1>4 DEF Bookkeeping, DurableOK, Outstanding, Delivered, DefiniteEnd
<1> QED
  BY <1>5, <1>6, <1>7, <1>8, <1>11, <1>12, <1>13, <1>14, <1>15 DEF Bookkeeping

\* The guard is acquired.
LEMMA CallTransactionBookkeeping ==
  ASSUME IInv, NEW c \in Scope, CallTransaction(c)
  PROVE  Bookkeeping'
<1>0. /\ Control /\ TypeOK /\ Bookkeeping /\ scope \in [Scope -> ScopeState]
      /\ scope[c].pc = "free" /\ ~owned /\ UNCHANGED <<op, poison, conn, durable, faults>>
  BY DEF IInv, Control, CallTransaction, CanAcquire, TypeOK
<1>1. Moves(c, "begin") /\ scope'[c].outcome = scope[c].outcome
  BY <1>0, GotoMoves, GotoOutcome DEF CallTransaction, Goto, Await
<1>2. IsOuter(c) /\ ~Active(c) /\ Fresh(c) /\ scope[c].outcome = "none"
  BY <1>0 DEF Control, KindOK, Active, Await, Fresh, Bookkeeping, OutcomeOK
<1>3. Books'
  BY <1>0, <1>1, <1>2, MoveKeepsNesting, MoveKeepsFresh, MoveKeepsOutcome, MoveKeepsInnermost
     DEF Bookkeeping, Books
<1>4. ~conn.open
  BY <1>0 DEF Control, GuardOK
<1>5. SavepointsNest' /\ DataExact'
  BY <1>0, <1>4 DEF SavepointsNest, DataExact
<1>6. ServerOK' /\ AbortsAllowed'
  BY <1>0 DEF Bookkeeping, ServerOK, AbortsAllowed, Ran
<1>7. CommitHealthy'
  BY <1>0, <1>1 DEF Bookkeeping, CommitHealthy, DefiniteEnd, Moves
<1>8. DurableOK'
  <2> SUFFICES ASSUME DefiniteEnd, NEW r \in Scope, IsOuter(r)'
               PROVE  (Outstanding(r) \/ Delivered(r))'
    BY DEF DurableOK, DefiniteEnd
  <2>1. IsOuter(r) /\ (Outstanding(r) \/ Delivered(r)) /\ Mine(r)' = Mine(r)
    BY <1>0, <1>1, MoveKeepsPlaces, MoveKeepsMine DEF Bookkeeping, DurableOK
  <2>2. CASE r = c
    BY <1>0, <1>1, <1>2, <2>1, <2>2 DEF Outstanding, Delivered
  <2>3. CASE r # c
    <3>1. scope'[r] = scope[r] /\ Kept(r)' = Kept(r)
      BY <1>0, <1>1, <2>3, NewScope DEF Moves
    <3> QED
      BY <1>0, <2>1, <3>1 DEF Outstanding, Delivered
  <2> QED
    BY <2>2, <2>3
<1> QED
  BY <1>3, <1>5, <1>6, <1>7, <1>8 DEF Bookkeeping, Books

\* A call under way inside a transaction is one of its innermost scope, and all
\* scopes around it wait.
LEMMA PendingPlace ==
  ASSUME IInv, NEW o \in Op, op[o].state = "pending", op[o].scope # None
  PROVE  /\ op[o].scope \in Scope /\ Innermost(op[o].scope)
         /\ \A s \in Surrounding(op[o].scope) :
              s \in Scope /\ scope[s].pc \in Inside /\ Active(s)
<1>0. Control /\ TypeOK /\ Chain /\ Bookkeeping
  BY ControlParts DEF IInv, Control
<1>1. /\ op[o].scope \in Scope /\ scope[op[o].scope].pc \in Inside
      /\ Children(op[o].scope) = {}
  BY <1>0 DEF TypeOK, OpState, Control, PendingOK, Bookkeeping, PendingInnermost, Inside
<1>2. Active(op[o].scope)
  BY <1>1 DEF Active, Await, Inside
<1>3. \A s \in scope[op[o].scope].within : s \in Scope /\ scope[s].pc \in Inside
  BY <1>0, <1>1, <1>2 DEF Chain, EnclosingWaits, Inside, TypeOK, ScopeState
<1> QED
  BY <1>0, <1>1, <1>3, IsInnermost DEF Surrounding, Active, Await, Inside

\* A statement succeeds.
LEMMA RunOpBookkeeping ==
  ASSUME IInv, NEW o \in Op, RunOp(o)
  PROVE  Bookkeeping'
<1>0. /\ Control /\ TypeOK /\ Chain /\ Bookkeeping /\ op[o].state = "pending"
      /\ conn.alive /\ ~conn.aborted /\ UNCHANGED <<scope, owned, poison, faults>>
  BY ControlParts DEF IInv, Control, RunOp
<1>1. /\ op'[o].state \in {"ok", "late"} /\ op'[o].scope = op[o].scope
      /\ op' \in [Op -> OpState] /\ \A x \in Op \ {o} : op'[x] = op[x]
  BY <1>0 DEF RunOp, Settle, TypeOK, OpState
<1>2. ~Ran(o) /\ Ran(o)'
  BY <1>0, <1>1 DEF Ran
<1>3. o \notin durable /\ durable \subseteq Op
  BY <1>0, <1>2 DEF Bookkeeping, ServerOK, TypeOK
<1>4. /\ op[o].scope # None => ~Fresh(op[o].scope)
      /\ op'[o].state # "pending"
  BY <1>0, <1>1 DEF Bookkeeping, FreshOK
<1>5. /\ Books' /\ ~Uncommitted(o)
      /\ \A x \in Op \ {o} : Uncommitted(x)' <=> Uncommitted(x)
      /\ \A r \in Scope : op[o].scope = None \/ r \notin Surrounding(op[o].scope) =>
           Kept(r)' = Kept(r)
  BY <1>0, <1>1, <1>2, <1>4, CallChanges
<1>6. CASE conn.open /\ conn' = [conn EXCEPT !.data = @ \cup {o}] /\ UNCHANGED durable
  <2>1. /\ conn'.open /\ conn'.alive = conn.alive /\ conn'.aborted = conn.aborted
        /\ conn'.data = conn.data \cup {o} /\ conn'.stack = conn.stack
    BY <1>0, <1>6 DEF TypeOK, Connection
  <2> DEFINE c == op[o].scope
  <2>2. c # None
    BY <1>0, <1>6 DEF Control, PendingOK, GuardOK
  <2>3. /\ c \in Scope /\ Innermost(c)
        /\ \A s \in Surrounding(c) : s \in Scope /\ scope[s].pc \in Inside /\ Active(s)
    BY <1>0, <2>2, PendingPlace
  <2>4. \A d : Surrounding(d)' = Surrounding(d) /\ (IsOuter(d)' <=> IsOuter(d))
               /\ (Active(d)' <=> Active(d))
    BY <1>0 DEF Surrounding, IsOuter, Active
  <2>5. Uncommitted(o)'
    <3>1. \E r \in Surrounding(c) : IsOuter(r)
      BY <1>0, <2>3 DEF Bookkeeping, NestingOK
    <3> QED
      BY <1>0, <1>1, <1>2, <2>2, <2>3, <2>4, <3>1 DEF Uncommitted, Inside
  <2>6. DataExact'
    <3> SUFFICES ASSUME ~poison
                 PROVE  /\ conn.data \cup {o} = {x \in Op : Uncommitted(x)'}
                        /\ \A n \in 1..Len(conn.stack) :
                             conn.stack[n].data =
                               {x \in Op : Uncommitted(x)' /\
                                  conn.stack[n].scope \notin Surrounding(op[x].scope)'}
      BY <1>0, <2>1 DEF DataExact
    <3>1. /\ conn.data = {x \in Op : Uncommitted(x)}
          /\ \A n \in 1..Len(conn.stack) :
               conn.stack[n].data =
                 {x \in Op : Uncommitted(x) /\
                    conn.stack[n].scope \notin Surrounding(op[x].scope)}
      BY <1>0, <1>6 DEF Bookkeeping, DataExact
    <3>2. ASSUME NEW n \in 1..Len(conn.stack) PROVE conn.stack[n].scope \in Surrounding(c)
      <4>1. conn.stack[n].scope \in Scope /\ Active(conn.stack[n].scope)
        BY <1>0, <1>6 DEF Bookkeeping, SavepointsNest
      <4> QED
        BY <1>0, <2>3, <4>1 DEF Chain, OneChain, Innermost, Surrounding
    <3>3. \A x \in Op : op'[x].scope = op[x].scope
      BY <1>1
    <3>4. conn.data \cup {o} = {x \in Op : Uncommitted(x)'}
      BY <1>5, <2>5, <3>1
    <3>5. ASSUME NEW n \in 1..Len(conn.stack)
          PROVE  conn.stack[n].data =
                   {x \in Op : Uncommitted(x)' /\
                      conn.stack[n].scope \notin Surrounding(op[x].scope)'}
      BY <1>5, <2>4, <3>1, <3>2, <3>3
    <3> QED
      BY <3>4, <3>5
  <2>7. SavepointsNest' /\ CommitHealthy' /\ AbortsAllowed'
    BY <1>0, <1>6, <2>1
       DEF Bookkeeping, SavepointsNest, CommitHealthy, AbortsAllowed, DefiniteEnd, Active, IsOuter
  <2>8. ServerOK'
    BY <1>0, <1>1, <1>3, <1>6, <2>1 DEF Bookkeeping, ServerOK, Ran
  <2>9. DurableOK'
    <3> SUFFICES ASSUME DefiniteEnd, NEW r \in Scope, IsOuter(r)'
                 PROVE  (Outstanding(r) \/ Delivered(r))'
      BY DEF DurableOK, DefiniteEnd
    <3>1. Outstanding(r) \/ Delivered(r)
      BY <1>0, <2>4 DEF Bookkeeping, DurableOK
    <3>2. Mine(r)' = Mine(r)
      BY <1>0, <1>1, <1>3, <1>6 DEF Mine, Surrounding
    <3>3. CASE Outstanding(r)
      BY <1>0, <3>2, <3>3 DEF Outstanding
    <3>4. CASE Delivered(r)
      <4>1. r \notin Surrounding(c)
        BY <2>3, <3>4 DEF Delivered, Inside
      <4> QED
        BY <1>0, <1>5, <2>1, <3>2, <3>4, <4>1 DEF Delivered
    <3> QED
      BY <3>1, <3>3, <3>4
  <2> QED
    BY <1>5, <2>6, <2>7, <2>8, <2>9 DEF Bookkeeping, Books
<1>7. CASE ~conn.open /\ durable' = durable \cup {o} /\ UNCHANGED conn
  <2>1. op[o].scope = None
    <3> SUFFICES ASSUME op[o].scope # None PROVE FALSE
      OBVIOUS
    <3>1. op[o].scope \in Scope /\ Active(op[o].scope) /\ scope[op[o].scope].pc \in Inside
      BY PendingPlace, <1>0 DEF Surrounding
    <3> QED
      BY <1>0, <1>7, <3>1 DEF Control, GuardOK, Inside
  <2>2. SavepointsNest' /\ DataExact' /\ CommitHealthy' /\ AbortsAllowed'
    BY <1>0, <1>7
       DEF Bookkeeping, SavepointsNest, DataExact, CommitHealthy, AbortsAllowed, DefiniteEnd
  <2>3. ServerOK'
    BY <1>0, <1>1, <1>3, <1>7 DEF Bookkeeping, ServerOK, Ran
  <2>4. \A r \in Scope : Mine(r)' = Mine(r)
    BY <1>0, <1>1, <1>3, <1>7, <2>1 DEF Mine, Surrounding
  <2>5. DurableOK'
    BY <1>0, <1>5, <1>7, <2>1, <2>4
       DEF Bookkeeping, DurableOK, Outstanding, Delivered, IsOuter, DefiniteEnd
  <2> QED
    BY <1>5, <2>2, <2>3, <2>5 DEF Bookkeeping, Books
<1> QED
  BY <1>6, <1>7 DEF RunOp

\* A statement fails.
LEMMA FailOpBookkeeping ==
  ASSUME IInv, NEW o \in Op, FailOp(o)
  PROVE  Bookkeeping'
<1>0. /\ Control /\ TypeOK /\ Chain /\ Bookkeeping /\ op[o].state = "pending"
      /\ UNCHANGED <<scope, owned, poison, durable, faults>>
  BY ControlParts DEF IInv, Control, FailOp
<1>1. /\ op'[o].state = "failed" /\ op'[o].scope = op[o].scope
      /\ op' \in [Op -> OpState] /\ \A x \in Op \ {o} : op'[x] = op[x]
  BY <1>0 DEF FailOp, Settle, TypeOK, OpState
<1>2. ~Ran(o) /\ ~Ran(o)'
  BY <1>0, <1>1 DEF Ran
<1>3. o \notin durable /\ durable \subseteq Op
  BY <1>0, <1>2 DEF Bookkeeping, ServerOK, TypeOK
<1>4. op[o].scope # None => ~Fresh(op[o].scope)
  BY <1>0 DEF Bookkeeping, FreshOK
<1>5. /\ Books' /\ \A x \in Op : Uncommitted(x)' <=> Uncommitted(x)
      /\ \A r \in Scope : Mine(r)' = Mine(r) /\ Kept(r)' = Kept(r)
  BY <1>0, <1>1, <1>2, <1>3, <1>4, CallChanges
<1>6. /\ conn'.open = conn.open /\ conn'.alive = conn.alive
      /\ conn'.data = conn.data /\ conn'.stack = conn.stack
      /\ \/ conn'.aborted = conn.aborted
         \/ "aborts" \in FailureModes /\ conn.open
  BY <1>0 DEF FailOp, TypeOK, Connection, Healthy
<1>7. \A x \in Op : Uncommitted(x) => Surrounding(op[x].scope)' = Surrounding(op[x].scope)
  BY <1>0, <1>1 DEF Uncommitted, Surrounding
<1>8. DataExact'
  BY <1>0, <1>5, <1>6, <1>7, SameData DEF Bookkeeping
<1>9. SavepointsNest' /\ AbortsAllowed'
  BY <1>0, <1>6 DEF Bookkeeping, SavepointsNest, AbortsAllowed, Active, IsOuter
<1>10. ServerOK'
  BY <1>0, <1>1, <1>3, <1>6 DEF Bookkeeping, ServerOK, Ran
<1>11. CommitHealthy'
  <2> SUFFICES ASSUME DefiniteEnd, NEW s \in Scope, scope[s].pc = "commit", conn.open
               PROVE  FALSE
    BY <1>0, <1>6 DEF Bookkeeping, CommitHealthy, DefiniteEnd, ServerOK
  <2>1. op[o].scope # None
    BY <1>0 DEF Control, PendingOK, GuardOK
  <2>2. op[o].scope \in Scope /\ Active(op[o].scope) /\ scope[op[o].scope].pc \in Inside
    BY <1>0, <2>1, PendingPlace DEF Surrounding
  <2>3. Active(s) /\ IsOuter(s) /\ scope[s].pc \notin Inside
    BY <1>0 DEF Active, Await, Chain, KindOK, Inside
  <2> QED
    BY <1>0, <2>2, <2>3, OthersWait
<1>12. DurableOK'
  BY <1>0, <1>5, <1>6 DEF Bookkeeping, DurableOK, Outstanding, Delivered, IsOuter, DefiniteEnd
<1> QED
  BY <1>5, <1>8, <1>9, <1>10, <1>11, <1>12 DEF Bookkeeping, Books

\* The connection is lost.
LEMMA LoseConnectionBookkeeping ==
  ASSUME IInv, LoseConnection
  PROVE  Bookkeeping'
<1>0. /\ Bookkeeping /\ UNCHANGED <<scope, op, owned, poison, durable>>
      /\ conn' = [Closed EXCEPT !.alive = FALSE]
  BY DEF IInv, LoseConnection
<1>1. /\ conn'.open = FALSE /\ conn'.data = {} /\ conn'.stack = << >>
      /\ conn'.aborted = FALSE /\ conn'.alive = FALSE
  BY <1>0 DEF Closed
<1>2. NestingOK' /\ FreshOK' /\ OutcomeOK' /\ PendingInnermost'
  BY <1>0 DEF Bookkeeping, NestingOK, FreshOK, OutcomeOK, PendingInnermost, Fresh, Surrounding,
              IsOuter, Children, Active
<1>3. ServerOK' /\ SavepointsNest' /\ DataExact' /\ CommitHealthy' /\ AbortsAllowed'
  BY <1>0, <1>1
     DEF Bookkeeping, ServerOK, SavepointsNest, DataExact, CommitHealthy, AbortsAllowed, Ran
<1>4. DurableOK'
  BY <1>0, <1>1
     DEF Bookkeeping, DurableOK, DefiniteEnd, Outstanding, Delivered, Mine, Kept, Ran,
         Surrounding, IsOuter
<1> QED
  BY <1>2, <1>3, <1>4 DEF Bookkeeping

\* Nothing happens.
LEMMA SameBookkeeping ==
  ASSUME IInv, UNCHANGED vars
  PROVE  Bookkeeping'
<1>0. Bookkeeping /\ UNCHANGED <<scope, op, owned, poison, conn, durable, faults>>
  BY DEF IInv, vars
<1>1. NestingOK' /\ FreshOK' /\ OutcomeOK' /\ PendingInnermost'
  BY <1>0 DEF Bookkeeping, NestingOK, FreshOK, OutcomeOK, PendingInnermost, Fresh, Surrounding,
              IsOuter, Children, Active
<1>2. ServerOK' /\ SavepointsNest' /\ CommitHealthy' /\ AbortsAllowed'
  BY <1>0
     DEF Bookkeeping, ServerOK, SavepointsNest, CommitHealthy, AbortsAllowed, Ran,
         DefiniteEnd, Active, IsOuter
<1>3. DataExact'
  BY <1>0 DEF Bookkeeping, DataExact, Uncommitted, Ran, Surrounding, IsOuter, Active
<1>4. DurableOK'
  BY <1>0
     DEF Bookkeeping, DurableOK, DefiniteEnd, Outstanding, Delivered, Mine, Kept, Ran,
         Surrounding, IsOuter
<1> QED
  BY <1>1, <1>2, <1>3, <1>4 DEF Bookkeeping

\* The initial state.
LEMMA InitBookkeeping == Init => Bookkeeping
<1> SUFFICES ASSUME Init PROVE Bookkeeping
  OBVIOUS
<1>1. \A s \in Scope : /\ ~Active(s) /\ IsOuter(s) /\ scope[s].within = {}
                       /\ scope[s].pc = "free" /\ scope[s].outcome = "none"
                       /\ Surrounding(s) = {s}
  BY DEF Init, Active, Await, IsOuter, Surrounding
<1>2. \A o \in Op : op[o].scope = None /\ op[o].state = "free"
  BY DEF Init
<1>3. conn.open = FALSE /\ conn.data = {} /\ conn.stack = << >> /\ conn.aborted = FALSE
  BY DEF Init, Closed
<1>4. NestingOK /\ FreshOK /\ OutcomeOK /\ PendingInnermost
  BY <1>1, <1>2 DEF NestingOK, FreshOK, OutcomeOK, PendingInnermost
<1>5. ServerOK /\ SavepointsNest /\ DataExact /\ CommitHealthy /\ AbortsAllowed
  BY <1>3 DEF Init, ServerOK, SavepointsNest, DataExact, CommitHealthy, AbortsAllowed
<1>6. DurableOK
  BY <1>1 DEF Init, DurableOK, Outstanding, Mine
<1> QED
  BY <1>4, <1>5, <1>6 DEF Bookkeeping

\* One step of any kind preserves what the scopes say of the server.
LEMMA NextBookkeeping == IInv /\ [Next]_vars => Bookkeeping'
<1> SUFFICES ASSUME IInv, [Next]_vars PROVE Bookkeeping'
  OBVIOUS
<1>1. CASE Call
  BY <1>1, CallExecuteBookkeeping, CallNestedBookkeeping, CallTransactionBookkeeping DEF Call
<1>2. CASE \E s \in Scope : Progress(s)
  BY <1>2, RunSavepointBookkeeping, EndCallbackBookkeeping, DrainedBookkeeping,
     ReleaseBookkeeping, RollbackToBookkeeping, ReleaseRolledBackBookkeeping,
     BeginBookkeeping, CommitBookkeeping, RollbackBookkeeping DEF Progress
<1>3. CASE \E o \in Op : Answer(o)
  BY <1>3, RunOpBookkeeping, FailOpBookkeeping DEF Answer
<1>4. CASE LoseConnection
  BY <1>4, LoseConnectionBookkeeping
<1>5. CASE UNCHANGED vars
  BY <1>5, SameBookkeeping
<1> QED
  BY <1>1, <1>2, <1>3, <1>4, <1>5 DEF Next

\* The scopes, the calls, the server's savepoints and its data agree in every
\* reachable state.
THEOREM NestedInvariant == Spec => []IInv
<1>1. Init => IInv
  BY InitControl, InitBookkeeping DEF IInv
<1>2. IInv /\ [Next]_vars => IInv'
  BY NextControl, NextBookkeeping DEF IInv
<1> QED
  BY <1>1, <1>2, PTL DEF Spec

\* The savepoints on the server are those of the scopes under way, outermost
\* first, whatever fails and in whatever order the application calls.
THEOREM SavepointsAreNested == Spec => []SavepointsNest
<1>1. IInv => SavepointsNest
  BY DEF IInv, Bookkeeping
<1> QED
  BY <1>1, NestedInvariant, PTL

\* Where no callback resolves in an aborted transaction, one that settles has
\* committed all it promised to keep, or nothing.
THEOREM SettledExactly ==
  ASSUME DefiniteEnd
  PROVE  Spec => []SettledIsExact
<1>1. IInv => SettledIsExact
  <2> SUFFICES ASSUME IInv, NEW r \in Scope, scope[r].pc = "done", IsOuter(r)
               PROVE  \/ scope[r].outcome = "resolved" /\ Mine(r) = Kept(r)
                      \/ scope[r].outcome = "rejected" /\ Mine(r) = {}
                      \/ /\ scope[r].outcome = "rejected" /\ Mine(r) = Kept(r)
                         /\ ~conn.alive \/ LateAborts
    BY DEF SettledIsExact
  <2>1. scope[r].outcome \in {"resolved", "rejected"}
    BY DEF IInv, Control, TypeOK, ScopeState, Bookkeeping, OutcomeOK
  <2>2. Outstanding(r) \/ Delivered(r)
    BY DEF IInv, Bookkeeping, DurableOK
  <2> QED
    BY <2>1, <2>2 DEF Outstanding, Delivered
<1> QED
  BY <1>1, NestedInvariant, PTL
=============================================================================
