--------------------------- MODULE ExecutionClient ---------------------------
(***************************************************************************)
(* The client that qubu() binds to an adapter, with the hooks that observe *)
(* it: calls of execute, explain and transaction, and row streams, whose   *)
(* consumers ask for rows, return early or throw, without awaiting one     *)
(* answer before they ask again.                                           *)
(*                                                                         *)
(* A stream is an async generator over the adapter's iterator, behind a    *)
(* wrapper that looks after generators that never ran.  The generator's    *)
(* own rules are those of the language: requests queue up, and one is      *)
(* dealt with at a time.  Rendering, decoding and hooks count only by      *)
(* whether they throw.                                                     *)
(***************************************************************************)
EXTENDS Naturals, Sequences, FiniteSets

CONSTANTS
  Call,         \* calls of execute, explain and transaction
  Stream,       \* calls of stream
  None,         \* a request that was not made belongs to no stream
  MaxRequests,  \* bounds: requests of consumers,
  MaxRows       \* rows of a stream

ASSUME ClientAssumption ==
  /\ Call \cap Stream = {} /\ None \notin Stream
  /\ MaxRequests \in Nat /\ MaxRows \in Nat

Request == 1 .. MaxRequests

VARIABLES
  call,     \* how far every call is
  stream,   \* every stream's generator and the wrapper's started
  raw,      \* the adapter's iterator of every stream
  queue,    \* requests the generator has not answered, oldest first
  request,  \* every request, in the order they were made
  hook      \* what the hooks were told of every operation

vars == <<call, stream, raw, queue, request, hook>>

Operation == Call \cup Stream

Init ==
  /\ call = [c \in Call |-> "unused"]
  /\ stream = [s \in Stream |-> [at |-> "unused", started |-> FALSE, rows |-> 0, why |-> "none"]]
  /\ raw = [s \in Stream |-> "open"]
  /\ queue = [s \in Stream |-> << >>]
  /\ request = [r \in Request |-> [stream |-> None, asks |-> "next", direct |-> FALSE, at |-> "unused"]]
  /\ hook = [o \in Operation |-> [at |-> "unused", status |-> "none", rows |-> 0, end |-> "none"]]

-----------------------------------------------------------------------------
(* Hooks.  An operation starts before the adapter is called; a start hook   *)
(* that throws or returns nothing leaves it without an end.  The first end *)
(* counts.                                                                 *)

StartOperation(o) == \E at \in {"open", "silent"} : hook' = [hook EXCEPT ![o].at = at]

Outcome(status, rows, end) == [at |-> "ended", status |-> status, rows |-> rows, end |-> end]

Finish(o, outcome) == hook' = [hook EXCEPT ![o] = IF @.at = "open" THEN outcome ELSE @]

Failure == Outcome("error", 0, "none")

-----------------------------------------------------------------------------
(* Calls: the promise of execute, explain or transaction settles.           *)

StartCall(c) ==
  /\ call[c] = "unused"
  /\ call' = [call EXCEPT ![c] = "running"]
  /\ StartOperation(c)
  /\ UNCHANGED <<stream, raw, queue, request>>

Resolve(c) ==
  /\ call[c] = "running"
  /\ call' = [call EXCEPT ![c] = "resolved"]
  /\ Finish(c, Outcome("success", 0, "none"))
  /\ UNCHANGED <<stream, raw, queue, request>>

\* The adapter rejects, a transaction's callback throws, or a row does not
\* decode.
Reject(c) ==
  /\ call[c] = "running"
  /\ call' = [call EXCEPT ![c] = "rejected"]
  /\ Finish(c, Failure)
  /\ UNCHANGED <<stream, raw, queue, request>>

-----------------------------------------------------------------------------
(* Streams.  The adapter is called at once; the generator starts with the   *)
(* first request.                                                          *)

OpenStream(s) ==
  /\ stream[s].at = "unused"
  /\ stream' = [stream EXCEPT ![s].at = "start"]
  /\ StartOperation(s)
  /\ UNCHANGED <<call, raw, queue, request>>

\* The adapter throws instead of returning an iterable.
FailStream(s) ==
  /\ stream[s].at = "unused"
  /\ stream' = [stream EXCEPT ![s].at = "failed"]
  /\ raw' = [raw EXCEPT ![s] = "failed"]
  /\ hook' = [hook EXCEPT ![s] = Failure]
  /\ UNCHANGED <<call, queue, request>>

Opened(s) == stream[s].at \notin {"unused", "failed"}

\* Requests are numbered as they are made.
NextRequest(r) == request[r].at = "unused" /\ \A q \in Request : q < r => request[q].at # "unused"

Enqueue(s, r, asks) ==
  /\ Opened(s) /\ NextRequest(r)
  /\ request' = [request EXCEPT ![r] = [stream |-> s, asks |-> asks, direct |-> FALSE, at |-> "queued"]]
  /\ queue' = [queue EXCEPT ![s] = Append(@, r)]
  /\ UNCHANGED <<call, raw, hook>>

\* Mutant: asking for a row does not count as a start.
CallNextUnmarked(s, r) == Enqueue(s, r, "next") /\ UNCHANGED stream

CallNext(s, r) ==
  /\ Enqueue(s, r, "next")
  /\ stream' = [stream EXCEPT ![s].started = TRUE]

CallThrow(s, r) ==
  /\ Enqueue(s, r, "throw")
  /\ stream' = [stream EXCEPT ![s].started = TRUE]

CallReturn(s, r) ==
  /\ stream[s].started
  /\ Enqueue(s, r, "return")
  /\ UNCHANGED stream

\* Before the generator ran, return() goes to the adapter's iterator.
CallReturnUnstarted(s, r) ==
  /\ Opened(s) /\ ~stream[s].started /\ NextRequest(r)
  /\ request' = [request EXCEPT ![r] = [stream |-> s, asks |-> "return", direct |-> TRUE, at |-> "closing"]]
  /\ UNCHANGED <<call, stream, raw, queue, hook>>

ClosingDirectly(s) == {r \in Request : request[r].stream = s /\ request[r].at = "closing"}

Close(iterator) == IF iterator = "open" THEN "closed" ELSE iterator

ClosedDirectly(r) ==
  /\ request[r].at = "closing"
  /\ LET s == request[r].stream IN
     /\ raw' = [raw EXCEPT ![s] = Close(@)]
     /\ Finish(s, Outcome("success", 0, "consumer-return"))
     /\ \E at \in {"done", "rejected"} : request' = [request EXCEPT ![r].at = at]
  /\ UNCHANGED <<call, stream, queue>>

-----------------------------------------------------------------------------
(* The generator.  It takes the oldest request when it has not started, is  *)
(* suspended at a row, or is over.                                         *)

Asked(s) == request[Head(queue[s])].asks

Answer(s, at) ==
  /\ request' = [request EXCEPT ![Head(queue[s])].at = at]
  /\ queue' = [queue EXCEPT ![s] = Tail(@)]

Over(s) == [stream EXCEPT ![s].at = "over"]

\* next() enters the loop, or continues it, and reads from the adapter.
Read(s) ==
  /\ stream[s].at \in {"start", "suspended"} /\ queue[s] # << >> /\ Asked(s) = "next"
  /\ stream' = [stream EXCEPT ![s].at = "reading"]
  /\ UNCHANGED <<call, raw, queue, request, hook>>

\* The loop is left at a row: it closes the adapter's iterator.
Leave(s) ==
  /\ stream[s].at = "suspended" /\ queue[s] # << >> /\ Asked(s) # "next"
  /\ stream' = [stream EXCEPT ![s].at = "closing", ![s].why = Asked(s)]
  /\ UNCHANGED <<call, raw, queue, request, hook>>

\* A generator that never ran does not run: its body is skipped.
Skip(s) ==
  /\ stream[s].at = "start" /\ queue[s] # << >> /\ Asked(s) # "next"
  /\ stream' = Over(s)
  /\ Answer(s, IF Asked(s) = "return" THEN "done" ELSE "thrown")
  /\ UNCHANGED <<call, raw, hook>>

AnswerOver(s) ==
  /\ stream[s].at = "over" /\ queue[s] # << >>
  /\ Answer(s, IF Asked(s) = "throw" THEN "thrown" ELSE "done")
  /\ UNCHANGED <<call, stream, raw, hook>>

Reading(s) == stream[s].at = "reading" /\ ClosingDirectly(s) = {}

RowArrives(s) ==
  /\ Reading(s) /\ raw[s] = "open" /\ stream[s].rows < MaxRows
  /\ \/ /\ stream' = [stream EXCEPT ![s].at = "suspended", ![s].rows = @ + 1]
        /\ Answer(s, "row")
     \/ /\ stream' = [stream EXCEPT ![s].at = "closing", ![s].why = "decoding"]
        /\ UNCHANGED <<queue, request>>
  /\ UNCHANGED <<call, raw, hook>>

RowsEnd(s) ==
  /\ Reading(s)
  /\ raw' = [raw EXCEPT ![s] = IF @ = "open" THEN "done" ELSE @]
  /\ stream' = Over(s)
  /\ Finish(s, Outcome("success", stream[s].rows, "complete"))
  /\ Answer(s, "done")
  /\ UNCHANGED call

ReadingFails(s) ==
  /\ Reading(s) /\ raw[s] = "open"
  /\ raw' = [raw EXCEPT ![s] = "failed"]
  /\ stream' = Over(s)
  /\ Finish(s, Failure)
  /\ Answer(s, "rejected")
  /\ UNCHANGED call

\* Mutant: only the end of the rows and errors finish the operation.
LoopClosedUnreported(s) ==
  /\ stream[s].at = "closing"
  /\ raw' = [raw EXCEPT ![s] = Close(@)]
  /\ stream' = Over(s)
  /\ \/ stream[s].why = "return" /\ UNCHANGED hook /\ Answer(s, "done")
     \/ Finish(s, Failure) /\ Answer(s, "rejected")
  /\ UNCHANGED call

\* An error of closing counts only when the consumer returned; what it threw,
\* or the row that did not decode, stays the error otherwise.
LoopClosed(s) ==
  /\ stream[s].at = "closing"
  /\ raw' = [raw EXCEPT ![s] = Close(@)]
  /\ stream' = Over(s)
  /\ \/ /\ stream[s].why = "return"
        /\ Finish(s, Outcome("success", stream[s].rows, "consumer-return"))
        /\ Answer(s, "done")
     \/ /\ Finish(s, Failure)
        /\ Answer(s, "rejected")
  /\ UNCHANGED call

-----------------------------------------------------------------------------
Consume(s, r) ==
  CallNext(s, r) \/ CallThrow(s, r) \/ CallReturn(s, r) \/ CallReturnUnstarted(s, r)

Generate(s) ==
  \/ Read(s) \/ Leave(s) \/ Skip(s) \/ AnswerOver(s)
  \/ RowArrives(s) \/ RowsEnd(s) \/ ReadingFails(s) \/ LoopClosed(s)

Settle(c) == Resolve(c) \/ Reject(c)

Next ==
  \/ \E c \in Call : StartCall(c) \/ Settle(c)
  \/ \E s \in Stream : OpenStream(s) \/ FailStream(s) \/ Generate(s)
  \/ \E s \in Stream, r \in Request : Consume(s, r)
  \/ \E r \in Request : ClosedDirectly(r)

Spec == Init /\ [][Next]_vars

\* The adapter answers what it is asked; the engine runs generators.
FairSpec ==
  /\ Spec
  /\ \A c \in Call : WF_vars(Settle(c))
  /\ \A s \in Stream : WF_vars(Generate(s))
  /\ \A r \in Request : WF_vars(ClosedDirectly(r))
-----------------------------------------------------------------------------
(* Properties.                                                              *)

Of(s) == {r \in Request : request[r].stream = s}

Delivered(s) == Cardinality({r \in Of(s) : request[r].at = "row"})

\* What the hooks are told is what the callers saw.  A call ended as its promise
\* did.  A stream reported as complete was exhausted, one reported as returned
\* was returned from, each with as many rows as were handed out; no consumer
\* was refused, but by an error of closing a stream that nothing was asked of.
\* A reported error reached a consumer (execution.ts: finish in execute,
\* explain, transaction, stream and decodeResultStream).
OutcomeIsTrue ==
  /\ \A c \in Call : hook[c].at = "ended" =>
       call[c] = IF hook[c].status = "success" THEN "resolved" ELSE "rejected"
  /\ \A s \in Stream : hook[s].at = "ended" =>
       IF hook[s].status = "error"
       THEN stream[s].at = "failed" \/ \E r \in Of(s) : request[r].at = "rejected"
       ELSE /\ hook[s].rows = Delivered(s)
            /\ hook[s].end = "complete" => raw[s] = "done"
            /\ hook[s].end = "consumer-return" =>
                 \E r \in Of(s) : request[r].asks = "return" /\ request[r].at \in {"done", "rejected"}
            /\ \A r \in Of(s) : request[r].at = "rejected" => request[r].direct

\* A consumer that throws before it ever asked for a row: nothing runs that
\* would close the iterator or tell the hooks.
ThrownFirst(s) ==
  \E r \in Of(s) : /\ request[r].asks = "throw"
                   /\ \A q \in Of(s) : q < r => request[q].direct

\* A stream that ended, or that its consumer asked to return from, is closed at
\* the adapter and told to the hooks in the end, whatever was asked before and
\* after and whatever failed (docs/guides/hooks.md, docs/guides/streaming.md).
ConsumedStreamsEnd ==
  \A s \in Stream :
    (stream[s].at = "over" \/ \E r \in Of(s) : request[r].asks = "return")
      ~> (raw[s] # "open" /\ hook[s].at # "open") \/ ThrownFirst(s)
=============================================================================
