------------------------- MODULE NestedTransactions -------------------------
(***************************************************************************)
(* Transactions and nested transactions on one connection:                 *)
(* adapters/shared/savepoints.ts (runSavepointScope and                    *)
(* guardTransactionConnection) under the transaction functions of the pg,  *)
(* mysql2 and node:sqlite adapters.                                        *)
(*                                                                         *)
(* The application may call any client it holds at any time, await or      *)
(* abandon what it called, and catch what fails.  Everything between two   *)
(* awaits is one step; a call that sends SQL is the synchronous            *)
(* reservation, then a step in which the database answers.                 *)
(***************************************************************************)
EXTENDS Sequences, FiniteSets, Naturals

CONSTANTS
  Scope,            \* transactions, outer and nested
  Op,               \* execute and explain calls
  None,             \* the root client; no scope
  FailureModes,     \* what a failed statement leaves: the "statement" alone is
                    \* undone, or PostgreSQL "aborts" the transaction
  SwallowsAbort,    \* TRUE if an outer callback may resolve in an aborted one
  LateAborts,       \* mysql2 looks at the signal once more after a statement
                    \* and after COMMIT, and rejects what has run
  MaxFaults         \* bound on refused commands and lost connections

ASSUME NestedAssumption ==
  /\ None \notin Scope
  /\ FailureModes \subseteq {"statement", "aborts"}
  /\ SwallowsAbort \in BOOLEAN /\ LateAborts \in BOOLEAN
  /\ MaxFaults \in Nat

VARIABLES
  scope,    \* each transaction() call
  op,       \* each execute() or explain() call
  owned,    \* guardTransactionConnection: a transaction owns the connection
  poison,   \* the transaction's savepoint recovery has failed
  conn,     \* the server's side of the connection
  durable,  \* calls whose effect is committed
  faults

vars == <<scope, op, owned, poison, conn, durable, faults>>

\* The awaits of a transaction() call, nested ones first.
Await == {"savepoint", "release", "rollbackTo", "releaseRolledBack",
          "begin", "commit", "rollback",
          "callback", "drain"}

ScopeState ==
  [ pc      : Await \cup {"free", "done"},
    parent  : Scope \cup {None},
    within  : SUBSET Scope,  \* the scopes around it, its transaction included
    outcome : {"none", "resolved", "rejected"} ]

\* late: the call was rejected although its statement had run.
OpState ==
  [ scope : Scope \cup {None}, state : {"free", "pending", "ok", "late", "failed"} ]

Connection ==
  [ alive   : BOOLEAN,
    open    : BOOLEAN,      \* in a transaction
    aborted : BOOLEAN,      \* a PostgreSQL transaction after an error
    data    : SUBSET Op,    \* its uncommitted effects
    stack   : Seq([scope : Scope, data : SUBSET Op]) ]  \* its savepoints

TypeOK ==
  /\ scope \in [Scope -> ScopeState]
  /\ op \in [Op -> OpState]
  /\ owned \in BOOLEAN
  /\ poison \in BOOLEAN
  /\ conn \in Connection
  /\ durable \subseteq Op
  /\ faults \in 0..MaxFaults

Closed == [alive |-> TRUE, open |-> FALSE, aborted |-> FALSE, data |-> {}, stack |-> << >>]

Init ==
  /\ scope = [s \in Scope |->
       [pc |-> "free", parent |-> None, within |-> {}, outcome |-> "none"]]
  /\ op = [o \in Op |-> [scope |-> None, state |-> "free"]]
  /\ owned = FALSE
  /\ poison = FALSE
  /\ conn = Closed
  /\ durable = {}
  /\ faults = 0

-----------------------------------------------------------------------------
(* Reservations: what a scope and the root client are busy with. *)

Active(s) == scope[s].pc \in Await

IsOuter(s) == scope[s].parent = None

\* pending: calls of client s (a scope, or None) that have not settled.
Pending(s) == {o \in Op : op[o].scope = s /\ op[o].state = "pending"}

\* Mutant: a child is not reserved before its SAVEPOINT is there.
ChildrenInside(s) ==
  {c \in Scope : scope[c].parent = s /\ Active(c) /\ scope[c].pc # "savepoint"}

\* child: the nested transaction of s that has not settled.
Children(s) == {c \in Scope : scope[c].parent = s /\ Active(c)}

\* assertAvailable
Available(s) == scope[s].pc = "callback" /\ ~poison /\ Children(s) = {}

\* What run still waits for when its callback has ended.
Idle(s) == Pending(s) = {} /\ Children(s) = {}

\* owned and pending of guardTransactionConnection.
RootAvailable == ~owned

\* Mutant: the guard does not count the root client's pending calls.
AcquireAnyway == ~owned

CanAcquire == ~owned /\ Pending(None) = {}

-----------------------------------------------------------------------------
(* Calls of the application. *)

\* operation: reserve the call on client s.
CallExecute(s, o) ==
  /\ IF s = None THEN RootAvailable ELSE Available(s)
  /\ op[o].state = "free"
  /\ op' = [op EXCEPT ![o] = [scope |-> s, state |-> "pending"]]
  /\ UNCHANGED <<scope, owned, poison, conn, durable, faults>>

\* transaction() of a scoped client.
CallNested(s, c) ==
  /\ Available(s) /\ Pending(s) = {}
  /\ scope[c].pc = "free"
  /\ scope' = [scope EXCEPT ![c] =
       [pc |-> "savepoint", parent |-> s, within |-> scope[s].within \cup {s},
        outcome |-> "none"]]
  /\ UNCHANGED <<op, owned, poison, conn, durable, faults>>

\* transaction() of the root client.
CallTransaction(c) ==
  /\ CanAcquire
  /\ scope[c].pc = "free"
  /\ scope' = [scope EXCEPT ![c].pc = "begin"]
  /\ owned' = TRUE
  /\ UNCHANGED <<op, poison, conn, durable, faults>>

-----------------------------------------------------------------------------
(* Steps of transaction(). *)

Goto(s, pc) == scope' = [scope EXCEPT ![s].pc = pc]

Finish(s, outcome) ==
  scope' = [scope EXCEPT ![s].pc = "done", ![s].outcome = outcome]

\* The connection fails a command the server would accept, or every command
\* once it is lost.
Refused(accepted) ==
  IF conn.alive /\ accepted
    THEN faults < MaxFaults /\ faults' = faults + 1
    ELSE UNCHANGED faults

\* Only an open, healthy transaction takes commands on savepoints.
Healthy == conn.alive /\ conn.open /\ ~conn.aborted

\* SAVEPOINT; the signal is looked at before the callback starts.
RunSavepoint(s) ==
  /\ scope[s].pc = "savepoint"
  /\ \/ /\ Healthy
        /\ conn' = [conn EXCEPT !.stack = Append(@, [scope |-> s, data |-> conn.data])]
        /\ \E pc \in {"callback", "rollbackTo"} : Goto(s, pc)
        /\ UNCHANGED <<poison, faults>>
     \/ /\ Refused(Healthy)
        /\ Finish(s, "rejected")
        /\ poison' = TRUE
        /\ UNCHANGED conn
  /\ UNCHANGED <<op, owned, durable>>

\* Mutant: poison is the business of the scope that found it.
AfterRunIgnoringPoison(s, ok) ==
  IF ok
    THEN \E pc \in IF IsOuter(s) THEN {"commit", "rollback"}
                                 ELSE {"release", "rollbackTo"} : Goto(s, pc)
    ELSE Goto(s, IF IsOuter(s) THEN "rollback" ELSE "rollbackTo")

\* Where a scope goes once nothing of it is outstanding: back unless the
\* callback resolved, nothing was abandoned, and no recovery has failed.
AfterRun(s, ok) ==
  IF ok /\ ~poison
    THEN \E pc \in IF IsOuter(s) THEN {"commit", "rollback"}
                                 ELSE {"release", "rollbackTo"} : Goto(s, pc)
    ELSE Goto(s, IF IsOuter(s) THEN "rollback" ELSE "rollbackTo")

\* Mutant: a scope does not wait for what its callback abandoned.
EndCallbackAtOnce(s) ==
  /\ scope[s].pc = "callback"
  /\ \E ok \in BOOLEAN : AfterRun(s, ok /\ Idle(s))
  /\ UNCHANGED <<op, owned, poison, conn, durable, faults>>

\* The callback resolves or throws.
EndCallback(s) ==
  /\ scope[s].pc = "callback"
  /\ \E ok \in BOOLEAN :
       /\ ok /\ IsOuter(s) /\ conn.aborted => SwallowsAbort
       /\ IF Idle(s) THEN AfterRun(s, ok) ELSE Goto(s, "drain")
  /\ UNCHANGED <<op, owned, poison, conn, durable, faults>>

\* Abandoned work has settled; it fails the scope.
Drained(s) ==
  /\ scope[s].pc = "drain"
  /\ Idle(s)
  /\ AfterRun(s, FALSE)
  /\ UNCHANGED <<op, owned, poison, conn, durable, faults>>

\* Positions of the savepoint of s; RELEASE and ROLLBACK TO need one.
Savepoints(s) == {n \in 1..Len(conn.stack) : conn.stack[n].scope = s}

\* RELEASE SAVEPOINT drops it with those above it and keeps the data.
ReleaseSavepoint(s) ==
  \E n \in Savepoints(s) :
    conn' = [conn EXCEPT !.stack = SubSeq(@, 1, n - 1)]

\* RELEASE of a scope that succeeded; a failed one is recovered.
Release(s) ==
  /\ scope[s].pc = "release"
  /\ \/ Healthy /\ ReleaseSavepoint(s) /\ Finish(s, "resolved") /\ UNCHANGED faults
     \/ /\ Refused(Healthy /\ Savepoints(s) # {})
        /\ Goto(s, "rollbackTo")
        /\ UNCHANGED conn
  /\ UNCHANGED <<op, owned, poison, durable>>

\* Recovery fails: nobody knows what the savepoint still protects.
Poisoned(s) == Finish(s, "rejected") /\ poison' = TRUE /\ UNCHANGED conn

\* Mutant: a failed scope is released without the rollback.
ReleaseOnly(s) ==
  /\ scope[s].pc = "rollbackTo"
  /\ Goto(s, "releaseRolledBack")
  /\ UNCHANGED <<op, owned, poison, conn, durable, faults>>

\* ROLLBACK TO SAVEPOINT restores its data and ends an aborted state.
RollbackTo(s) ==
  /\ scope[s].pc = "rollbackTo"
  /\ \/ /\ conn.alive /\ conn.open
        /\ \E n \in Savepoints(s) :
             conn' = [conn EXCEPT !.data = conn.stack[n].data, !.aborted = FALSE,
                                  !.stack = SubSeq(@, 1, n)]
        /\ Goto(s, "releaseRolledBack")
        /\ UNCHANGED <<poison, faults>>
     \/ Refused(conn.open /\ Savepoints(s) # {}) /\ Poisoned(s)
  /\ UNCHANGED <<op, owned, durable>>

ReleaseRolledBack(s) ==
  /\ scope[s].pc = "releaseRolledBack"
  /\ \/ /\ Healthy /\ ReleaseSavepoint(s) /\ Finish(s, "rejected")
        /\ UNCHANGED <<poison, faults>>
     \/ Refused(Healthy /\ Savepoints(s) # {}) /\ Poisoned(s)
  /\ UNCHANGED <<op, owned, durable>>

\* Mutant: a refused BEGIN keeps the guard.
BeginKeepsGuard(s) ==
  /\ scope[s].pc = "begin"
  /\ \/ /\ conn.alive
        /\ conn' = [conn EXCEPT !.open = TRUE]
        /\ poison' = FALSE
        /\ Goto(s, "callback")
        /\ UNCHANGED <<owned, faults>>
     \/ /\ Refused(TRUE)
        /\ Finish(s, "rejected")
        /\ UNCHANGED <<owned, poison, conn>>
  /\ UNCHANGED <<op, durable>>

\* BEGIN, around which the signal is looked at.
Begin(s) ==
  /\ scope[s].pc = "begin"
  /\ \/ /\ conn.alive
        /\ conn' = [conn EXCEPT !.open = TRUE]
        /\ poison' = FALSE
        /\ \E pc \in {"callback", "rollback"} : Goto(s, pc)
        /\ UNCHANGED <<owned, faults>>
     \/ /\ Refused(TRUE)
        /\ Finish(s, "rejected")
        /\ owned' = FALSE
        /\ UNCHANGED <<poison, conn>>
  /\ UNCHANGED <<op, durable>>

Ended == [Closed EXCEPT !.alive = conn.alive]

\* COMMIT.  PostgreSQL answers the one of an aborted transaction by rolling
\* back, without an error; an answer is lost with the connection.
Commit(s) ==
  /\ scope[s].pc = "commit"
  /\ \/ /\ conn.alive
        /\ durable' = IF conn.aborted THEN durable ELSE durable \cup conn.data
        /\ \/ /\ \E outcome \in {"resolved"} \cup IF LateAborts THEN {"rejected"} ELSE {} :
                   Finish(s, outcome)
              /\ conn' = Ended
              /\ owned' = FALSE
              /\ UNCHANGED faults
           \/ /\ Refused(TRUE)
              /\ conn' = [Closed EXCEPT !.alive = FALSE]
              /\ Goto(s, "rollback")
              /\ UNCHANGED owned
     \/ /\ Refused(TRUE)
        /\ Goto(s, "rollback")
        /\ UNCHANGED <<owned, conn, durable>>
  /\ UNCHANGED <<op, poison>>

\* ROLLBACK, which only a lost connection refuses.
Rollback(s) ==
  /\ scope[s].pc = "rollback"
  /\ conn' = Ended
  /\ Finish(s, "rejected")
  /\ owned' = FALSE
  /\ UNCHANGED <<op, poison, durable, faults>>

-----------------------------------------------------------------------------
(* The database and its connection. *)

Settle(o, state) == op' = [op EXCEPT ![o].state = state]

\* A statement has its effect in the transaction, or commits by itself.
RunOp(o) ==
  /\ op[o].state = "pending"
  /\ conn.alive /\ ~conn.aborted
  /\ \E state \in {"ok"} \cup IF LateAborts THEN {"late"} ELSE {} : Settle(o, state)
  /\ IF conn.open
       THEN conn' = [conn EXCEPT !.data = @ \cup {o}] /\ UNCHANGED durable
       ELSE durable' = durable \cup {o} /\ UNCHANGED conn
  /\ UNCHANGED <<scope, owned, poison, faults>>

\* A statement fails: a constraint, an abort, an encoder that throws.
FailOp(o) ==
  /\ op[o].state = "pending"
  /\ Settle(o, "failed")
  /\ \/ /\ "statement" \in FailureModes \/ ~Healthy
        /\ UNCHANGED conn
     \/ /\ "aborts" \in FailureModes /\ Healthy
        /\ conn' = [conn EXCEPT !.aborted = TRUE]
  /\ UNCHANGED <<scope, owned, poison, durable, faults>>

\* The server rolls back whatever was open.
LoseConnection ==
  /\ conn.alive
  /\ faults < MaxFaults /\ faults' = faults + 1
  /\ conn' = [Closed EXCEPT !.alive = FALSE]
  /\ UNCHANGED <<scope, op, owned, poison, durable>>

Call ==
  \/ \E s \in Scope \cup {None}, o \in Op : CallExecute(s, o)
  \/ \E s, c \in Scope : CallNested(s, c)
  \/ \E c \in Scope : CallTransaction(c)

\* What goes on by itself: the adapters, and callbacks that end.
Progress(s) ==
  \/ RunSavepoint(s) \/ EndCallback(s) \/ Drained(s)
  \/ Release(s) \/ RollbackTo(s) \/ ReleaseRolledBack(s)
  \/ Begin(s) \/ Commit(s) \/ Rollback(s)

Answer(o) == RunOp(o) \/ FailOp(o)

Next ==
  \/ Call
  \/ \E s \in Scope : Progress(s)
  \/ \E o \in Op : Answer(o)
  \/ LoseConnection

Spec == Init /\ [][Next]_vars

\* The driver settles every call, and the application's callbacks end.
FairSpec ==
  /\ Spec
  /\ \A s \in Scope : WF_vars(Progress(s))
  /\ \A o \in Op : WF_vars(Answer(o))

-----------------------------------------------------------------------------
(* What must hold. *)

Surrounding(s) == scope[s].within \cup {s}

Ran(o) == op[o].state \in {"ok", "late"}

\* The calls of transaction r that ran and whose nested transactions all
\* resolved: what r promises to keep.
Kept(r) ==
  {o \in Op : /\ Ran(o)
              /\ op[o].scope # None /\ r \in Surrounding(op[o].scope)
              /\ \A s \in Surrounding(op[o].scope) \ {r} : scope[s].outcome = "resolved"}

Mine(r) == {o \in durable : op[o].scope # None /\ r \in Surrounding(op[o].scope)}

\* A transaction that resolves has committed exactly what it promised to keep;
\* one that rejects has committed nothing, unless COMMIT went through and its
\* answer was lost or overtaken by the signal, and then all of it.
SettledIsExact ==
  \A r \in Scope : scope[r].pc = "done" /\ IsOuter(r) =>
    \/ scope[r].outcome = "resolved" /\ Mine(r) = Kept(r)
    \/ scope[r].outcome = "rejected" /\ Mine(r) = {}
    \/ /\ scope[r].outcome = "rejected" /\ Mine(r) = Kept(r)
       /\ ~conn.alive \/ LateAborts

\* The savepoints on the server are those of the scopes under way, outermost
\* first: overlapping calls never interleave on the stack, and recovery finds
\* the savepoint it needs.
SavepointsNest ==
  conn.open /\ ~poison =>
    /\ \A m, n \in 1..Len(conn.stack) :
         m < n => conn.stack[m].scope \in scope[conn.stack[n].scope].within
    /\ {conn.stack[n].scope : n \in 1..Len(conn.stack)} =
         {s \in Scope : Active(s) /\ ~IsOuter(s) /\ scope[s].pc # "savepoint"}

\* No statement is still to run behind the back of a scope that rolls back,
\* releases or commits, and none outlives its scope.
NoWorkBehind ==
  \A o \in Op : op[o].state = "pending" /\ op[o].scope # None =>
    \A s \in Surrounding(op[o].scope) : scope[s].pc \in {"callback", "drain"}

\* The root client's statements stay out of every transaction.
RootStaysOutside == \A o \in conn.data : op[o].scope # None

\* Once recovery has failed, no transaction is released, committed or started
\* further down: everything goes back to the outermost rollback.
PoisonedNeverCommits ==
  [][poison =>
       /\ \A s \in Scope : scope'[s].outcome = "resolved" => scope[s].outcome = "resolved"
       /\ \A o \in durable' \ durable : op[o].scope = None]_vars

\* The connection is given back, whatever fails.
GuardIsReleased == owned ~> ~owned

-----------------------------------------------------------------------------
(* The inductive invariant behind the theorems: active scopes form one chain, *)
(* of which every scope but the innermost is inside its callback or waits.    *)

\* Which awaits belong to which kind of scope.
KindOK ==
  \A s \in Scope :
    /\ scope[s].pc \in {"begin", "commit", "rollback"} => IsOuter(s)
    /\ scope[s].pc \in {"savepoint", "release", "rollbackTo", "releaseRolledBack"} =>
         ~IsOuter(s)
    /\ scope[s].pc = "free" => IsOuter(s)
    /\ Active(s) \/ scope[s].pc = "free" => (IsOuter(s) => scope[s].within = {})

\* The scopes around an active one are inside their callbacks.
EnclosingWaits ==
  \A c \in Scope : Active(c) =>
    \A s \in scope[c].within : scope[s].pc \in {"callback", "drain"}

\* Every scope around an active one has a child on the way to it.
ChildOnTheWay ==
  \A c \in Scope : Active(c) =>
    \A s \in scope[c].within : \E d \in Surrounding(c) : d \in Children(s)

\* Two active scopes are never side by side.
OneChain ==
  \A c, d \in Scope : Active(c) /\ Active(d) =>
    c = d \/ c \in scope[d].within \/ d \in scope[c].within

\* A pending call is one of a scope inside its callback, or of the root client
\* while nobody owns the connection.
PendingOK ==
  \A o \in Op : op[o].state = "pending" =>
    IF op[o].scope = None THEN ~owned
    ELSE scope[op[o].scope].pc \in {"callback", "drain"}

\* The guard covers every scope and the server's transaction.
GuardOK ==
  /\ \A s \in Scope : Active(s) => owned
  /\ conn.open => owned
  /\ \A s \in Scope : scope[s].pc = "begin" => ~conn.open
  /\ \A s \in Scope : Active(s) /\ scope[s].pc # "begin" /\ conn.alive => conn.open

\* Only settled calls of scopes are in the transaction or its savepoints.
InTransaction(o) == op[o].scope # None /\ Ran(o)

DataOK ==
  /\ \A o \in conn.data : InTransaction(o)
  /\ \A n \in 1..Len(conn.stack) : \A o \in conn.stack[n].data : InTransaction(o)

\* Nothing goes forward once recovery has failed.
PoisonOK == poison => \A s \in Scope : scope[s].pc \notin {"release", "commit"}

Control ==
  /\ TypeOK
  /\ KindOK /\ EnclosingWaits /\ ChildOnTheWay /\ OneChain
  /\ PendingOK /\ GuardOK /\ DataOK /\ PoisonOK

-----------------------------------------------------------------------------
(* What the scopes say of the server's savepoints and of its data.          *)

\* Scopes are nested transitively and have one outer transaction around them.
NestingOK ==
  \A s \in Scope :
    /\ \A t \in scope[s].within : scope[t].within \subseteq scope[s].within
    /\ \E r \in Surrounding(s) : \A t \in Surrounding(s) : IsOuter(t) <=> t = r
    /\ IsOuter(s) => scope[s].within = {}

\* Nothing is in a scope before its callback has started.
Fresh(s) == scope[s].pc \in {"free", "begin", "savepoint"}

FreshOK ==
  /\ \A s \in Scope : \A t \in scope[s].within : ~Fresh(t)
  /\ \A o \in Op : op[o].scope # None => ~Fresh(op[o].scope)

OutcomeOK ==
  \A s \in Scope : scope[s].outcome = "none" <=> scope[s].pc # "done"

\* A scope with a call under way has no scope under way inside it.
PendingInnermost ==
  \A o \in Op : op[o].state = "pending" /\ op[o].scope # None =>
    Children(op[o].scope) = {}

\* What runs outside a transaction is durable at once, and nothing else of it.
ServerOK ==
  /\ ~conn.open => conn.data = {} /\ conn.stack = << >> /\ ~conn.aborted
  /\ \A o \in durable : Ran(o)

\* The call o has an effect that the open transaction still holds.
Uncommitted(o) ==
  /\ Ran(o) /\ op[o].scope # None
  /\ \E r \in Surrounding(op[o].scope) : IsOuter(r) /\ Active(r)
  /\ \A s \in Surrounding(op[o].scope) :
       \/ Active(s) /\ scope[s].pc # "releaseRolledBack"
       \/ scope[s].outcome = "resolved"

\* The transaction holds what its scopes count on, and each savepoint what is
\* left of that if its scope goes back.
DataExact ==
  conn.open /\ ~poison =>
    /\ conn.data = {o \in Op : Uncommitted(o)}
    /\ \A n \in 1..Len(conn.stack) :
         conn.stack[n].data =
           {o \in Op : Uncommitted(o) /\ conn.stack[n].scope \notin Surrounding(op[o].scope)}

\* No callback of a transaction resolves in an aborted one.
DefiniteEnd == SwallowsAbort => "aborts" \notin FailureModes

CommitHealthy ==
  DefiniteEnd => \A s \in Scope : scope[s].pc = "commit" => ~conn.aborted

AbortsAllowed == conn.aborted => "aborts" \in FailureModes

\* What is durable of a transaction, from its first call to its last.
Outstanding(r) == Mine(r) = {} /\ scope[r].outcome # "resolved"

Delivered(r) ==
  /\ Mine(r) = Kept(r)
  /\ \/ scope[r].pc = "done" /\ (scope[r].outcome = "resolved" \/ LateAborts)
     \/ scope[r].pc \in {"rollback", "done"} /\ ~conn.alive

DurableOK ==
  DefiniteEnd => \A r \in Scope : IsOuter(r) => Outstanding(r) \/ Delivered(r)

Bookkeeping ==
  /\ NestingOK /\ FreshOK /\ OutcomeOK /\ PendingInnermost
  /\ ServerOK /\ SavepointsNest /\ DataExact
  /\ CommitHealthy /\ AbortsAllowed /\ DurableOK

IInv == Control /\ Bookkeeping
=============================================================================
