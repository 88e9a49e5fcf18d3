------------------------ MODULE ExecutionClientProofs ------------------------
(***************************************************************************)
(* That the hooks are told what the callers saw, for any number of calls,  *)
(* streams, requests and rows.                                             *)
(*                                                                         *)
(* A report is made once and must stay true while requests made earlier    *)
(* and later are still answered.  The invariant says where a stream can be *)
(* once its adapter's iterator is no longer open, and that by then the     *)
(* hooks know; and that what was handed out is what was counted.           *)
(***************************************************************************)
EXTENDS ExecutionClient, FiniteSetTheorems, TLAPS

HookState ==
  [at : {"unused", "open", "silent", "ended"}, status : {"none", "success", "error"}, rows : Nat,
   end : {"none", "complete", "consumer-return"}]

StreamState ==
  [at : {"unused", "failed", "start", "reading", "suspended", "closing", "over"}, started : BOOLEAN,
   rows : Nat, why : {"none", "return", "throw", "decoding"}]

RequestState ==
  [stream : Stream \cup {None}, asks : {"next", "return", "throw"}, direct : BOOLEAN,
   at : {"unused", "queued", "closing", "row", "done", "thrown", "rejected"}]

ClientTypeOK ==
  /\ call \in [Call -> {"unused", "running", "resolved", "rejected"}]
  /\ stream \in [Stream -> StreamState]
  /\ raw \in [Stream -> {"open", "done", "failed", "closed"}]
  /\ queue \in [Stream -> Seq(Request)]
  /\ request \in [Request -> RequestState]
  /\ hook \in [Operation -> HookState]

\* The hooks were told of a success.
Succeeded(o) == hook[o].at = "ended" /\ hook[o].status = "success"

\* A call's end is its promise's.
CallsOK ==
  \A c \in Call :
    /\ hook[c].at = "ended" =>
         call[c] = IF hook[c].status = "success" THEN "resolved" ELSE "rejected"
    /\ call[c] = "unused" <=> hook[c].at = "unused"

\* What waits in a queue is this stream's, was asked of the generator, has no
\* answer, and waits once.
QueueOK ==
  \A s \in Stream :
    /\ \A i \in 1 .. Len(queue[s]) :
         /\ request[queue[s][i]].stream = s
         /\ request[queue[s][i]].at = "queued"
         /\ ~request[queue[s][i]].direct
    /\ \A i, j \in 1 .. Len(queue[s]) : queue[s][i] = queue[s][j] => i = j

\* The oldest request is the one the generator is at work on.
Generating(s) ==
  /\ stream[s].at \in {"reading", "closing"} => queue[s] # << >>
  /\ stream[s].at = "reading" => Asked(s) = "next"
  /\ stream[s].at = "closing" /\ stream[s].why = "return" => Asked(s) = "return"
  /\ ~Opened(s) => queue[s] = << >> /\ ~stream[s].started
  /\ ~stream[s].started => queue[s] = << >> /\ stream[s].at \in {"unused", "failed", "start"}

GeneratorOK == \A s \in Stream : Generating(s)

\* Only streams are closed directly, by requests that are known as such.
Direct(r) ==
  /\ request[r].at = "closing" <=> request[r].direct /\ request[r].at \notin {"done", "rejected"}
  /\ request[r].direct => request[r].asks = "return" /\ request[r].at \in {"closing", "done", "rejected"}
  /\ request[r].at # "unused" <=> request[r].stream \in Stream
  /\ request[r].stream \in Stream => Opened(request[r].stream)
  /\ request[r].at = "closing" =>
       /\ stream[request[r].stream].rows = 0
       /\ stream[request[r].stream].at \in {"start", "reading", "over"}

DirectOK == \A r \in Request : Direct(r)

\* What was counted was handed out.
RowsOK ==
  \A s \in Stream : /\ stream[s].rows = Delivered(s)
                    /\ stream[s].at \in {"unused", "failed", "start"} => stream[s].rows = 0

\* Once the iterator is not open the hooks know, no row is on its way, and what
\* they were told cannot be taken back.
Reported(s) ==
  /\ stream[s].at = "unused" <=> hook[s].at = "unused"
  /\ raw[s] # "open" => hook[s].at # "open"
  /\ raw[s] # "open" => stream[s].at \in {"start", "reading", "over", "failed"}
  /\ hook[s].at = "ended" => raw[s] # "open" /\ hook[s].status \in {"success", "error"}
  /\ Succeeded(s) =>
       /\ hook[s].rows = stream[s].rows
       /\ hook[s].end \in {"complete", "consumer-return"}
       /\ stream[s].at \in {"start", "reading", "over"}
       /\ hook[s].end = "complete" => raw[s] = "done"
       /\ hook[s].end = "consumer-return" =>
            \E r \in Of(s) : request[r].asks = "return" /\ request[r].at \in {"done", "rejected"}
  /\ hook[s].at = "ended" /\ hook[s].status = "error" =>
       stream[s].at = "failed" \/ \E r \in Of(s) : request[r].at = "rejected"
  /\ \A r \in Of(s) : request[r].at = "rejected" /\ ~request[r].direct =>
       stream[s].at = "over" /\ hook[s].at # "open" /\ ~Succeeded(s)

ReportOK == \A s \in Stream : Reported(s)

IInv == ClientTypeOK /\ CallsOK /\ QueueOK /\ GeneratorOK /\ DirectOK /\ RowsOK /\ ReportOK

-----------------------------------------------------------------------------
(* Sequences and sets.                                                      *)

\* What appending to a queue changes.
LEMMA Appended ==
  ASSUME NEW S, NEW q \in Seq(S), NEW r \in S
  PROVE  /\ Append(q, r) \in Seq(S) /\ Append(q, r) # << >>
         /\ Len(Append(q, r)) = Len(q) + 1 /\ Len(q) \in Nat
         /\ \A i \in 1 .. Len(q) : Append(q, r)[i] = q[i] /\ q[i] \in S
         /\ Append(q, r)[Len(q) + 1] = r
         /\ q # << >> => Head(Append(q, r)) = Head(q)
         /\ q = << >> => Head(Append(q, r)) = r
  OBVIOUS

\* What taking the head off a queue leaves.
LEMMA Taken ==
  ASSUME NEW S, NEW q \in Seq(S), q # << >>
  PROVE  /\ Head(q) = q[1] /\ Head(q) \in S /\ Tail(q) \in Seq(S)
         /\ Len(q) \in Nat \ {0} /\ Len(Tail(q)) = Len(q) - 1
         /\ \A i \in 1 .. Len(Tail(q)) : Tail(q)[i] = q[i + 1]
  OBVIOUS

\* A step that hands out no row of a stream leaves the count of them alone.
LEMMA DeliveredSame ==
  ASSUME NEW s \in Stream,
         \A r \in Request : (request'[r].stream = s /\ request'[r].at = "row")
                              <=> (request[r].stream = s /\ request[r].at = "row")
  PROVE  Delivered(s)' = Delivered(s)
  <1>1. {r \in Of(s)' : request'[r].at = "row"} = {r \in Of(s) : request[r].at = "row"}
    BY DEF Of
  <1> QED BY <1>1 DEF Delivered

\* A step that hands out one adds one.
LEMMA DeliveredMore ==
  ASSUME NEW s \in Stream, NEW q \in Request,
         request[q].at # "row",
         request'[q].stream = s, request'[q].at = "row",
         \A r \in Request \ {q} : request'[r] = request[r]
  PROVE  Delivered(s)' = Delivered(s) + 1
  <1> DEFINE R == {r \in Of(s) : request[r].at = "row"}
             T == {r \in Of(s)' : request'[r].at = "row"}
  <1>1. T = R \cup {q} /\ q \notin R
    BY DEF Of
  <1>2. IsFiniteSet(Request)
    BY FS_Interval, ClientAssumption DEF Request
  <1>3. IsFiniteSet(R)
    BY <1>2, FS_Subset DEF Of
  <1>4. Cardinality(T) = Cardinality(R) + 1
    BY <1>1, <1>3, FS_AddElement
  <1> QED BY <1>4 DEF Delivered

-----------------------------------------------------------------------------
(* Requests: one is made, or the oldest is answered.                        *)

\* A request at the end of a queue.
LEMMA EnqueueKeeps ==
  ASSUME ClientTypeOK, QueueOK, DirectOK, NEW s \in Stream, NEW r \in Request,
         NEW asks \in {"next", "return", "throw"}, Enqueue(s, r, asks)
  PROVE  /\ queue' \in [Stream -> Seq(Request)] /\ QueueOK'
         /\ request' \in [Request -> RequestState]
         /\ request'[r] = [stream |-> s, asks |-> asks, direct |-> FALSE, at |-> "queued"]
         /\ \A q \in Request \ {r} : request'[q] = request[q]
         /\ request[r].at = "unused"
         /\ \A t \in Stream : Delivered(t)' = Delivered(t)
         /\ \A t \in Stream \ {s} : queue'[t] = queue[t]
         /\ queue'[s] # << >>
         /\ queue[s] # << >> => Head(queue'[s]) = Head(queue[s]) /\ Head(queue[s]) # r
         /\ queue[s] = << >> => Head(queue'[s]) = r
  <1> DEFINE q == queue[s]
  <1>1. q \in Seq(Request)
    BY DEF ClientTypeOK
  <1>2. queue' = [queue EXCEPT ![s] = Append(q, r)]
    BY DEF Enqueue
  <1>3. queue' \in [Stream -> Seq(Request)] /\ queue'[s] = Append(q, r) /\ queue'[s] # << >>
    BY <1>1, <1>2, Appended DEF ClientTypeOK
  <1>4. request[r].at = "unused" /\ request'[r] = [stream |-> s, asks |-> asks, direct |-> FALSE, at |-> "queued"]
    BY DEF Enqueue, NextRequest, ClientTypeOK
  <1>5. \A x \in Request \ {r} : request'[x] = request[x]
    BY DEF Enqueue, ClientTypeOK
  <1>6. \A i \in 1 .. Len(q) : q[i] # r /\ q[i] \in Request
    BY <1>1, <1>4, Appended DEF QueueOK
  <1>7. QueueOK'
    <2> SUFFICES ASSUME NEW t \in Stream
                 PROVE  /\ \A i \in 1 .. Len(queue'[t]) :
                             /\ request'[queue'[t][i]].stream = t
                             /\ request'[queue'[t][i]].at = "queued"
                             /\ ~request'[queue'[t][i]].direct
                        /\ \A i, j \in 1 .. Len(queue'[t]) : queue'[t][i] = queue'[t][j] => i = j
      BY DEF QueueOK
    <2>1. CASE t = s
      <3>1. Len(queue'[t]) = Len(q) + 1 /\ queue'[t][Len(q) + 1] = r /\ Len(q) \in Nat
        BY <1>1, <1>3, <2>1, Appended
      <3>2. \A i \in 1 .. Len(q) : queue'[t][i] = q[i]
        BY <1>1, <1>3, <2>1, Appended
      <3>3. \A i \in 1 .. Len(q) : request'[q[i]] = request[q[i]]
        BY <1>5, <1>6
      <3>4. \A i \in 1 .. Len(queue'[t]) : i = Len(q) + 1 \/ i \in 1 .. Len(q)
        BY <3>1
      <3>5. \A i \in 1 .. Len(q) : /\ request'[q[i]].stream = t /\ request'[q[i]].at = "queued"
                                    /\ ~request'[q[i]].direct
        BY <2>1, <3>3 DEF QueueOK
      <3>6. \A i \in 1 .. Len(queue'[t]) : /\ request'[queue'[t][i]].stream = t
                                            /\ request'[queue'[t][i]].at = "queued"
                                            /\ ~request'[queue'[t][i]].direct
        <4> TAKE i \in 1 .. Len(queue'[t])
        <4>1. CASE i = Len(q) + 1
          BY <1>4, <2>1, <3>1, <4>1
        <4>2. CASE i \in 1 .. Len(q)
          BY <3>2, <3>5, <4>2
        <4> QED BY <3>4, <4>1, <4>2
      <3>7. \A i, j \in 1 .. Len(queue'[t]) : queue'[t][i] = queue'[t][j] => i = j
        BY <1>6, <2>1, <3>1, <3>2, <3>4 DEF QueueOK
      <3> QED BY <3>6, <3>7
    <2>2. CASE t # s
      <3>1. queue'[t] = queue[t] /\ queue[t] \in Seq(Request)
        BY <1>2, <2>2 DEF ClientTypeOK
      <3>2. \A i \in 1 .. Len(queue[t]) : queue[t][i] \in Request /\ queue[t][i] # r
        BY <1>4, <3>1 DEF QueueOK
      <3> QED BY <1>5, <3>1, <3>2 DEF QueueOK
    <2> QED BY <2>1, <2>2
  <1>8. \A t \in Stream : Delivered(t)' = Delivered(t)
    <2> TAKE t \in Stream
    <2>1. \A x \in Request : (request'[x].stream = t /\ request'[x].at = "row")
                               <=> (request[x].stream = t /\ request[x].at = "row")
      BY <1>4, <1>5
    <2> QED BY <2>1, DeliveredSame
  <1>9. q # << >> => Head(queue'[s]) = Head(q) /\ Head(q) # r
    BY <1>1, <1>3, <1>6, Appended, Taken
  <1>10. q = << >> => Head(queue'[s]) = r
    BY <1>1, <1>3, Appended
  <1>11. request' \in [Request -> RequestState]
    BY DEF Enqueue, ClientTypeOK, RequestState
  <1> QED BY <1>2, <1>3, <1>4, <1>5, <1>7, <1>8, <1>9, <1>10, <1>11 DEF ClientTypeOK

\* The answer to the oldest request.
LEMMA AnswerKeeps ==
  ASSUME ClientTypeOK, QueueOK, NEW s \in Stream, queue[s] # << >>,
         NEW at \in {"row", "done", "thrown", "rejected"}, Answer(s, at)
  PROVE  /\ queue' \in [Stream -> Seq(Request)] /\ QueueOK'
         /\ request' \in [Request -> RequestState]
         /\ Head(queue[s]) \in Request
         /\ request[Head(queue[s])].stream = s /\ request[Head(queue[s])].at = "queued"
         /\ ~request[Head(queue[s])].direct
         /\ request'[Head(queue[s])] = [request[Head(queue[s])] EXCEPT !.at = at]
         /\ \A q \in Request \ {Head(queue[s])} : request'[q] = request[q]
         /\ \A t \in Stream \ {s} : queue'[t] = queue[t] /\ Delivered(t)' = Delivered(t)
         /\ Delivered(s)' = IF at = "row" THEN Delivered(s) + 1 ELSE Delivered(s)
  <1> DEFINE q == queue[s]
             h == Head(queue[s])
  <1>1. q \in Seq(Request)
    BY DEF ClientTypeOK
  <1>2. /\ h = q[1] /\ h \in Request /\ Tail(q) \in Seq(Request)
        /\ Len(q) \in Nat \ {0} /\ Len(Tail(q)) = Len(q) - 1
        /\ \A i \in 1 .. Len(Tail(q)) : Tail(q)[i] = q[i + 1]
    BY <1>1, Taken
  <1>3. request[h].stream = s /\ request[h].at = "queued" /\ ~request[h].direct
    BY <1>2 DEF QueueOK
  <1>4. request'[h] = [request[h] EXCEPT !.at = at] /\ \A x \in Request \ {h} : request'[x] = request[x]
    BY <1>2 DEF Answer, ClientTypeOK
  <1>5. queue' \in [Stream -> Seq(Request)] /\ queue'[s] = Tail(q) /\ \A t \in Stream \ {s} : queue'[t] = queue[t]
    BY <1>2 DEF Answer, ClientTypeOK
  <1>6. request' \in [Request -> RequestState]
    <2>1. request' = [request EXCEPT ![h] = [request[h] EXCEPT !.at = at]]
      BY <1>2 DEF Answer, ClientTypeOK
    <2>2. request[h] \in RequestState
      BY <1>2 DEF ClientTypeOK
    <2>3. [request[h] EXCEPT !.at = at] \in RequestState
      BY <2>2 DEF RequestState
    <2> QED BY <1>2, <2>1, <2>3 DEF ClientTypeOK
  <1>7. QueueOK'
    <2> SUFFICES ASSUME NEW t \in Stream
                 PROVE  /\ \A i \in 1 .. Len(queue'[t]) :
                             /\ request'[queue'[t][i]].stream = t
                             /\ request'[queue'[t][i]].at = "queued"
                             /\ ~request'[queue'[t][i]].direct
                        /\ \A i, j \in 1 .. Len(queue'[t]) : queue'[t][i] = queue'[t][j] => i = j
      BY DEF QueueOK
    <2>1. CASE t = s
      <3>1. \A i \in 1 .. Len(queue'[t]) : /\ i + 1 \in 1 .. Len(q) /\ queue'[t][i] = q[i + 1]
                                            /\ q[i + 1] # h /\ q[i + 1] \in Request
        <4> TAKE i \in 1 .. Len(queue'[t])
        <4>0. queue'[t] = Tail(q)
          BY <1>5, <2>1
        <4>1. i + 1 \in 1 .. Len(q) /\ 1 \in 1 .. Len(q) /\ i + 1 # 1 /\ queue'[t][i] = q[i + 1]
          BY <1>2, <4>0
        <4>2. q[i + 1] # h
          BY <1>2, <4>1 DEF QueueOK
        <4> QED BY <1>1, <4>1, <4>2
      <3>2. \A i \in 1 .. Len(queue'[t]) : request'[queue'[t][i]] = request[q[i + 1]]
        BY <1>4, <3>1
      <3> QED BY <2>1, <3>1, <3>2 DEF QueueOK
    <2>2. CASE t # s
      <3>1. queue'[t] = queue[t] /\ queue[t] \in Seq(Request)
        BY <1>5, <2>2 DEF ClientTypeOK
      <3>2. \A i \in 1 .. Len(queue[t]) : queue[t][i] \in Request /\ queue[t][i] # h
        BY <1>3, <2>2, <3>1 DEF QueueOK
      <3> QED BY <1>4, <3>1, <3>2 DEF QueueOK
    <2> QED BY <2>1, <2>2
  <1>8. request'[h].stream = s /\ request'[h].at = at
    BY <1>2, <1>3, <1>4 DEF ClientTypeOK, RequestState
  <1>9. \A t \in Stream \ {s} : Delivered(t)' = Delivered(t)
    <2> TAKE t \in Stream \ {s}
    <2>1. \A x \in Request : (request'[x].stream = t /\ request'[x].at = "row")
                               <=> (request[x].stream = t /\ request[x].at = "row")
      BY <1>3, <1>4, <1>8
    <2> QED BY <2>1, DeliveredSame
  <1>10. CASE at = "row"
    <2>1. Delivered(s)' = Delivered(s) + 1
      BY <1>2, <1>3, <1>4, <1>8, <1>10, DeliveredMore
    <2> QED BY <1>2, <1>3, <1>4, <1>5, <1>6, <1>7, <1>9, <1>10, <2>1
  <1>11. CASE at # "row"
    <2>1. \A x \in Request : (request'[x].stream = s /\ request'[x].at = "row")
                               <=> (request[x].stream = s /\ request[x].at = "row")
      BY <1>3, <1>4, <1>8, <1>11
    <2>2. Delivered(s)' = Delivered(s)
      BY <2>1, DeliveredSame
    <2> QED BY <1>2, <1>3, <1>4, <1>5, <1>6, <1>7, <1>9, <1>11, <2>2
  <1> QED BY <1>10, <1>11

-----------------------------------------------------------------------------
(* The invariant, action by action.                                         *)

LEMMA InitHolds == Init => IInv
  <1> SUFFICES ASSUME Init PROVE IInv
    OBVIOUS
  <1>1. ClientTypeOK
    BY DEF Init, ClientTypeOK, HookState, StreamState, RequestState
  <1>2. CallsOK
    BY ClientAssumption DEF Init, CallsOK, Operation
  <1>3. QueueOK /\ GeneratorOK
    BY DEF Init, QueueOK, GeneratorOK, Generating, Opened
  <1>4. DirectOK
    BY ClientAssumption DEF Init, DirectOK, Direct
  <1>5. RowsOK
    <2> SUFFICES ASSUME NEW s \in Stream PROVE stream[s].rows = Delivered(s)
      BY DEF RowsOK, Init
    <2>1. {r \in Of(s) : request[r].at = "row"} = {}
      BY DEF Of, Init
    <2> QED BY <2>1, FS_EmptySet DEF Delivered, Init
  <1>6. ReportOK
    BY ClientAssumption DEF Init, ReportOK, Reported, Of, Operation, Succeeded
  <1> QED BY <1>1, <1>2, <1>3, <1>4, <1>5, <1>6 DEF IInv

\* What Finish does to the hooks.
LEMMA FinishKeeps ==
  ASSUME ClientTypeOK, NEW o \in Operation, NEW outcome \in HookState, Finish(o, outcome)
  PROVE  /\ hook' \in [Operation -> HookState]
         /\ hook'[o] = IF hook[o].at = "open" THEN outcome ELSE hook[o]
         /\ \A p \in Operation \ {o} : hook'[p] = hook[p]
  BY DEF Finish, ClientTypeOK

\* What a start does to them.
LEMMA StartKeeps ==
  ASSUME ClientTypeOK, NEW o \in Operation, StartOperation(o)
  PROVE  /\ hook' \in [Operation -> HookState]
         /\ hook'[o].at \in {"open", "silent"}
         /\ \A p \in Operation \ {o} : hook'[p] = hook[p]
  <1>1. PICK at \in {"open", "silent"} : hook' = [hook EXCEPT ![o].at = at]
    BY DEF StartOperation
  <1>2. hook[o] \in HookState
    BY DEF ClientTypeOK
  <1>3. [hook[o] EXCEPT !.at = at] \in HookState
    BY <1>2 DEF HookState
  <1>4. hook' = [hook EXCEPT ![o] = [hook[o] EXCEPT !.at = at]]
    BY <1>1
  <1>5. hook'[o] = [hook[o] EXCEPT !.at = at]
    BY <1>4 DEF ClientTypeOK
  <1>6. hook'[o].at = at
    BY <1>2, <1>5 DEF HookState
  <1> QED BY <1>3, <1>4, <1>6 DEF ClientTypeOK

\* Calls are no streams.
LEMMA Apart ==
  /\ \A c \in Call : c \in Operation /\ c \notin Stream
  /\ \A s \in Stream : s \in Operation /\ s \notin Call
  BY ClientAssumption DEF Operation

\* A step elsewhere leaves a stream's report true.
LEMMA ReportedElsewhere ==
  ASSUME NEW t \in Stream, Reported(t),
         stream'[t] = stream[t], raw'[t] = raw[t], hook'[t] = hook[t],
         \A r \in Request : \/ request'[r] = request[r]
                            \/ request[r].stream # t /\ request'[r].stream # t
  PROVE  Reported(t)'
  <1>1. Of(t)' = Of(t) /\ \A r \in Of(t) : request'[r] = request[r]
    BY DEF Of
  <1>2. Succeeded(t)' = Succeeded(t)
    BY DEF Succeeded
  <1> QED BY <1>1, <1>2 DEF Reported

\* Calls and streams share nothing.
LEMMA CallStep ==
  ASSUME IInv, NEW c \in Call, StartCall(c) \/ Settle(c)
  PROVE  IInv'
  <1> USE DEF IInv
  <1>1. UNCHANGED <<stream, raw, queue, request>>
    BY DEF StartCall, Settle, Resolve, Reject
  <1>2. /\ hook' \in [Operation -> HookState]
        /\ \A p \in Operation \ {c} : hook'[p] = hook[p]
        /\ call' \in [Call -> {"unused", "running", "resolved", "rejected"}]
        /\ \A d \in Call \ {c} : call'[d] = call[d]
        /\ hook'[c].at = "ended" =>
             call'[c] = IF hook'[c].status = "success" THEN "resolved" ELSE "rejected"
        /\ call'[c] # "unused" /\ hook'[c].at # "unused"
    <2>1. CASE StartCall(c)
      BY <2>1, Apart, StartKeeps DEF StartCall, ClientTypeOK
    <2>2. CASE Resolve(c)
      <3>1. Outcome("success", 0, "none") \in HookState
        BY DEF Outcome, HookState
      <3>2. call[c] = "running" /\ call'[c] = "resolved"
        BY <2>2 DEF Resolve, ClientTypeOK
      <3>3. hook[c].at # "ended" /\ hook[c].at # "unused"
        BY <3>2 DEF CallsOK
      <3> QED BY <2>2, <3>1, <3>2, <3>3, Apart, FinishKeeps DEF Resolve, ClientTypeOK, Outcome
    <2>3. CASE Reject(c)
      <3>1. Failure \in HookState
        BY DEF Outcome, HookState, Failure
      <3>2. call[c] = "running" /\ call'[c] = "rejected"
        BY <2>3 DEF Reject, ClientTypeOK
      <3>3. hook[c].at # "ended" /\ hook[c].at # "unused"
        BY <3>2 DEF CallsOK
      <3> QED BY <2>3, <3>1, <3>2, <3>3, Apart, FinishKeeps DEF Reject, ClientTypeOK, Outcome, Failure
    <2> QED BY <2>1, <2>2, <2>3 DEF Settle
  <1>3. ClientTypeOK'
    BY <1>1, <1>2 DEF ClientTypeOK
  <1>4. CallsOK'
    BY <1>2, Apart DEF CallsOK
  <1>5. QueueOK' /\ GeneratorOK' /\ DirectOK'
    BY <1>1 DEF QueueOK, GeneratorOK, Generating, DirectOK, Direct, Opened, Asked
  <1>6. RowsOK'
    BY <1>1 DEF RowsOK, Delivered, Of
  <1>7. ReportOK'
    <2> SUFFICES ASSUME NEW s \in Stream PROVE Reported(s)'
      BY DEF ReportOK
    <2>1. hook'[s] = hook[s] /\ Reported(s)
      BY <1>2, Apart DEF ReportOK
    <2>2. \A r \in Request : \/ request'[r] = request[r]
                             \/ request[r].stream # s /\ request'[r].stream # s
      <3>1. request' = request
        BY <1>1
      <3> QED BY <3>1
    <2>3. stream'[s] = stream[s] /\ raw'[s] = raw[s]
      BY <1>1
    <2> QED BY <2>1, <2>2, <2>3, ReportedElsewhere
  <1> QED BY <1>3, <1>4, <1>5, <1>6, <1>7

\* Opening a stream, or failing to.
LEMMA OpenStep ==
  ASSUME IInv, NEW s \in Stream, OpenStream(s) \/ FailStream(s)
  PROVE  IInv'
  <1> USE DEF IInv
  <1>1. UNCHANGED <<call, queue, request>>
    BY DEF OpenStream, FailStream
  <1>2. /\ hook' \in [Operation -> HookState]
        /\ \A p \in Operation \ {s} : hook'[p] = hook[p]
    <2>1. Failure \in HookState
      BY DEF Outcome, HookState, Failure
    <2>2. CASE OpenStream(s)
      BY <2>2, Apart, StartKeeps DEF OpenStream
    <2>3. CASE FailStream(s)
      BY <2>1, <2>3, Apart DEF FailStream, ClientTypeOK
    <2> QED BY <2>2, <2>3
  <1>3. /\ stream' \in [Stream -> StreamState]
        /\ raw' \in [Stream -> {"open", "done", "failed", "closed"}]
        /\ stream[s].at = "unused" /\ stream'[s].at \in {"start", "failed"}
        /\ stream'[s].started = stream[s].started /\ stream'[s].rows = stream[s].rows
        /\ \A t \in Stream \ {s} : stream'[t] = stream[t] /\ raw'[t] = raw[t]
    <2> DEFINE to(at) == [stream[s] EXCEPT !.at = at]
    <2>1. stream[s] \in StreamState /\ stream[s].at = "unused"
      BY DEF OpenStream, FailStream, ClientTypeOK
    <2>2. to("start") \in StreamState /\ to("failed") \in StreamState
      BY <2>1 DEF StreamState
    <2>3. PICK at \in {"start", "failed"} : stream' = [stream EXCEPT ![s] = to(at)]
      BY DEF OpenStream, FailStream
    <2>4. /\ stream'[s] = to(at) /\ \A t \in Stream \ {s} : stream'[t] = stream[t]
          /\ stream' \in [Stream -> StreamState]
      BY <2>2, <2>3 DEF ClientTypeOK
    <2>5. /\ raw' \in [Stream -> {"open", "done", "failed", "closed"}]
          /\ \A t \in Stream \ {s} : raw'[t] = raw[t]
      BY DEF OpenStream, FailStream, ClientTypeOK
    <2> QED BY <2>1, <2>4, <2>5 DEF StreamState
  <1>4. ClientTypeOK'
    BY <1>1, <1>2, <1>3 DEF ClientTypeOK
  <1>5. CallsOK'
    BY <1>1, <1>2, Apart DEF CallsOK
  <1>6. QueueOK'
    BY <1>1 DEF QueueOK
  <1>7. GeneratorOK'
    BY <1>1, <1>3 DEF GeneratorOK, Generating, Opened, Asked
  <1>8. \A r \in Request : request[r].stream # s
    BY <1>3 DEF DirectOK, Direct, Opened
  <1>9. DirectOK'
    BY <1>1, <1>3, <1>8 DEF DirectOK, Direct, Opened
  <1>10. RowsOK'
    <2> SUFFICES ASSUME NEW t \in Stream
                 PROVE  /\ stream'[t].rows = Delivered(t)'
                        /\ stream'[t].at \in {"unused", "failed", "start"} => stream'[t].rows = 0
      BY DEF RowsOK
    <2>1. Delivered(t)' = Delivered(t)
      BY <1>1, DeliveredSame
    <2> QED BY <1>3, <2>1 DEF RowsOK
  <1>11. \A t \in Stream \ {s} : Reported(t)'
    <2> TAKE t \in Stream \ {s}
    <2>1. hook'[t] = hook[t] /\ Reported(t)
      BY <1>2, Apart DEF ReportOK
    <2>2. \A r \in Request : \/ request'[r] = request[r]
                             \/ request[r].stream # t /\ request'[r].stream # t
      <3>1. request' = request
        BY <1>1
      <3> QED BY <3>1
    <2>3. stream'[t] = stream[t] /\ raw'[t] = raw[t]
      BY <1>3
    <2> QED BY <2>1, <2>2, <2>3, ReportedElsewhere
  <1>12. Reported(s)'
    <2>1. Of(s)' = {}
      BY <1>1, <1>8 DEF Of
    <2>2. CASE OpenStream(s)
      <3>1. hook'[s].at \in {"open", "silent"} /\ raw'[s] = raw[s] /\ stream'[s].at = "start"
        BY <1>3, <2>2, Apart, StartKeeps DEF OpenStream, ClientTypeOK
      <3>2. raw[s] = "open"
        BY <1>3 DEF ReportOK, Reported
      <3> QED BY <2>1, <3>1, <3>2 DEF Reported, Succeeded
    <2>3. CASE FailStream(s)
      <3>1. hook'[s] = Failure /\ raw'[s] = "failed" /\ stream'[s].at = "failed"
        BY <2>3, Apart DEF FailStream, ClientTypeOK
      <3> QED BY <2>1, <3>1 DEF Reported, Succeeded, Failure, Outcome
    <2> QED BY <2>2, <2>3
  <1>13. ReportOK'
    BY <1>11, <1>12 DEF ReportOK
  <1> QED BY <1>4, <1>5, <1>6, <1>7, <1>9, <1>10, <1>13

\* A step of one stream keeps what is said of calls and of other streams.
LEMMA OnlyAt ==
  ASSUME IInv, NEW s \in Stream, call' = call,
         \A o \in Operation \ {s} : hook'[o] = hook[o],
         \A t \in Stream \ {s} : /\ stream'[t] = stream[t] /\ raw'[t] = raw[t]
                                  /\ queue'[t] = queue[t] /\ Delivered(t)' = Delivered(t),
         \A r \in Request : \/ request'[r] = request[r]
                            \/ request[r].stream \in {s, None} /\ request'[r].stream = s,
         Generating(s)', Reported(s)', stream'[s].rows = Delivered(s)',
         stream'[s].at \in {"unused", "failed", "start"} => stream'[s].rows = 0
  PROVE  CallsOK' /\ GeneratorOK' /\ RowsOK' /\ ReportOK'
  <1> USE DEF IInv
  <1>1. CallsOK'
    BY Apart DEF CallsOK
  <1>2. RowsOK'
    BY DEF RowsOK
  <1>3. GeneratorOK'
    <2> SUFFICES ASSUME NEW t \in Stream \ {s} PROVE Generating(t)'
      BY DEF GeneratorOK
    <2>1. CASE queue[t] = << >>
      BY <2>1 DEF GeneratorOK, Generating, Opened
    <2>2. CASE queue[t] # << >>
      <3>1. Head(queue[t]) = queue[t][1] /\ Head(queue[t]) \in Request /\ 1 \in 1 .. Len(queue[t])
        BY <2>2, Taken DEF ClientTypeOK
      <3>2. request[Head(queue[t])].stream = t
        BY <3>1 DEF QueueOK
      <3>3. request'[Head(queue[t])] = request[Head(queue[t])]
        BY <3>1, <3>2, ClientAssumption
      <3>4. Asked(t)' = Asked(t)
        BY <3>3 DEF Asked
      <3> QED BY <3>4 DEF GeneratorOK, Generating, Opened
    <2> QED BY <2>1, <2>2
  <1>4. ReportOK'
    <2> SUFFICES ASSUME NEW t \in Stream \ {s} PROVE Reported(t)'
      BY DEF ReportOK
    <2>1. hook'[t] = hook[t] /\ Reported(t) /\ stream'[t] = stream[t] /\ raw'[t] = raw[t]
      BY Apart DEF ReportOK
    <2>2. \A r \in Request : \/ request'[r] = request[r]
                             \/ request[r].stream # t /\ request'[r].stream # t
      BY ClientAssumption
    <2> QED BY <2>1, <2>2, ReportedElsewhere
  <1> QED BY <1>1, <1>2, <1>3, <1>4

\* What is said of a request stays true while its stream stays open.
LEMMA DirectKeeps ==
  ASSUME NEW r \in Request, Direct(r), request'[r] = request[r],
         \A t \in Stream : Opened(t) => Opened(t)',
         \A t \in Stream : request[r].stream = t /\ request[r].at = "closing" =>
                            stream'[t].rows = 0 /\ stream'[t].at \in {"start", "reading", "over"}
  PROVE  Direct(r)'
  <1>1. request[r].at = "closing" => request[r].stream \in Stream
    BY DEF Direct
  <1>2. request[r].stream \in Stream => Opened(request[r].stream)'
    BY DEF Direct
  <1> QED BY <1>1, <1>2 DEF Direct, Opened

\* A request of the generator: it waits behind the others.
LEMMA EnqueueStep ==
  ASSUME IInv, NEW s \in Stream, NEW r \in Request,
         CallNext(s, r) \/ CallThrow(s, r) \/ CallReturn(s, r)
  PROVE  IInv'
  <1> USE DEF IInv
  <1>1. PICK asks \in {"next", "return", "throw"} : Enqueue(s, r, asks)
    BY DEF CallNext, CallThrow, CallReturn
  <1>2. /\ queue' \in [Stream -> Seq(Request)] /\ QueueOK'
        /\ request' \in [Request -> RequestState]
        /\ request'[r] = [stream |-> s, asks |-> asks, direct |-> FALSE, at |-> "queued"]
        /\ \A q \in Request \ {r} : request'[q] = request[q]
        /\ request[r].at = "unused"
        /\ \A t \in Stream : Delivered(t)' = Delivered(t)
        /\ \A t \in Stream \ {s} : queue'[t] = queue[t]
        /\ queue'[s] # << >>
        /\ queue[s] # << >> => Head(queue'[s]) = Head(queue[s]) /\ Head(queue[s]) # r
        /\ queue[s] = << >> => Head(queue'[s]) = r
    BY <1>1, EnqueueKeeps
  <1>3. UNCHANGED <<call, raw, hook>> /\ Opened(s)
    BY <1>1 DEF Enqueue
  <1>4. /\ stream' \in [Stream -> StreamState]
        /\ \A t \in Stream \ {s} : stream'[t] = stream[t]
        /\ stream'[s].at = stream[s].at /\ stream'[s].rows = stream[s].rows
        /\ stream'[s].why = stream[s].why /\ stream'[s].started
    <2>1. stream[s] \in StreamState
      BY DEF ClientTypeOK
    <2>2. [stream[s] EXCEPT !.started = TRUE] \in StreamState
      BY <2>1 DEF StreamState
    <2>3. CASE stream' = [stream EXCEPT ![s].started = TRUE]
      <3>1. stream' = [stream EXCEPT ![s] = [stream[s] EXCEPT !.started = TRUE]]
        BY <2>3
      <3> QED BY <2>1, <2>2, <3>1 DEF ClientTypeOK, StreamState
    <2>4. CASE stream' = stream /\ stream[s].started
      BY <2>4 DEF ClientTypeOK
    <2> QED BY <2>3, <2>4 DEF CallNext, CallThrow, CallReturn
  <1>5. ClientTypeOK'
    BY <1>2, <1>3, <1>4 DEF ClientTypeOK
  <1>6. request[r].stream \notin Stream /\ request[r].stream \in {s, None}
    BY <1>2 DEF DirectOK, Direct, ClientTypeOK, RequestState
  <1>7. Generating(s)'
    <2>1. stream[s].at \in {"reading", "closing"} => Asked(s)' = Asked(s)
      <3>1. ASSUME queue[s] # << >> PROVE Asked(s)' = Asked(s)
        <4>1. Head(queue[s]) \in Request /\ Head(queue[s]) # r /\ Head(queue'[s]) = Head(queue[s])
          BY <1>2, <3>1, Taken DEF ClientTypeOK
        <4> QED BY <1>2, <4>1 DEF Asked
      <3> QED BY <3>1 DEF GeneratorOK, Generating
    <2> QED BY <1>2, <1>3, <1>4, <2>1 DEF GeneratorOK, Generating, Opened
  <1>8. Reported(s)'
    <2>1. Of(s)' = Of(s) \cup {r} /\ r \notin Of(s) /\ \A q \in Of(s) : request'[q] = request[q]
      BY <1>2, <1>6 DEF Of
    <2>2. request'[r].at = "queued"
      BY <1>2
    <2>3. Reported(s) /\ Succeeded(s)' = Succeeded(s)
      BY <1>3 DEF ReportOK, Succeeded
    <2> QED BY <1>3, <1>4, <2>1, <2>2, <2>3 DEF Reported
  <1>9. DirectOK'
    <2> SUFFICES ASSUME NEW q \in Request PROVE Direct(q)'
      BY DEF DirectOK
    <2>1. CASE q = r
      <3>1. request'[q].stream = s /\ ~request'[q].direct /\ request'[q].at = "queued"
        BY <1>2, <2>1
      <3>2. stream'[s].at \notin {"unused", "failed"}
        BY <1>3, <1>4 DEF Opened
      <3> QED BY <3>1, <3>2 DEF Direct, Opened
    <2>2. CASE q # r
      <3>1. request'[q] = request[q] /\ Direct(q)
        BY <1>2, <2>2 DEF DirectOK
      <3>2. \A t \in Stream : stream'[t].at = stream[t].at /\ stream'[t].rows = stream[t].rows
        BY <1>4
      <3> QED BY <3>1, <3>2, DirectKeeps DEF Direct, Opened
    <2> QED BY <2>1, <2>2
  <1>10. CallsOK' /\ GeneratorOK' /\ RowsOK' /\ ReportOK'
    <2>1. stream'[s].rows = Delivered(s)'
          /\ (stream'[s].at \in {"unused", "failed", "start"} => stream'[s].rows = 0)
      BY <1>2, <1>4 DEF RowsOK
    <2>2. call' = call /\ \A o \in Operation \ {s} : hook'[o] = hook[o]
      BY <1>3
    <2>3. \A t \in Stream \ {s} : /\ stream'[t] = stream[t] /\ raw'[t] = raw[t]
                                  /\ queue'[t] = queue[t] /\ Delivered(t)' = Delivered(t)
      BY <1>2, <1>3, <1>4
    <2>4. \A q \in Request : \/ request'[q] = request[q]
                             \/ request[q].stream \in {s, None} /\ request'[q].stream = s
      <3> TAKE q \in Request
      <3>1. CASE q = r
        <4>1. request'[q].stream = s
          BY <1>2, <3>1
        <4> QED BY <1>6, <3>1, <4>1
      <3>2. CASE q # r
        BY <1>2, <3>2
      <3> QED BY <3>1, <3>2
    <2> QED BY <1>7, <1>8, <2>1, <2>2, <2>3, <2>4, OnlyAt
  <1> QED BY <1>2, <1>5, <1>9, <1>10

-----------------------------------------------------------------------------
(* The generator.                                                           *)

\* A step of the generator that answers no request.
LEMMA MoveStep ==
  ASSUME IInv, NEW s \in Stream, UNCHANGED <<call, raw, queue, request, hook>>,
         NEW at \in {"reading", "closing"}, NEW why \in {"none", "return", "throw", "decoding"},
         stream' = [stream EXCEPT ![s].at = at, ![s].why = why],
         Opened(s), queue[s] # << >>,
         at = "reading" => Asked(s) = "next" /\ stream[s].at \in {"start", "suspended"},
         at = "closing" => /\ raw[s] = "open" /\ ClosingDirectly(s) = {}
                           /\ why = "return" => Asked(s) = "return"
                           /\ stream[s].at \in {"suspended", "reading"}
  PROVE  IInv'
  <1> USE DEF IInv
  <1>1. /\ stream' \in [Stream -> StreamState]
        /\ \A t \in Stream \ {s} : stream'[t] = stream[t]
        /\ stream'[s].at = at /\ stream'[s].why = why
        /\ stream'[s].rows = stream[s].rows /\ stream'[s].started = stream[s].started
    <2>1. stream' = [stream EXCEPT ![s] = [stream[s] EXCEPT !.at = at, !.why = why]]
      OBVIOUS
    <2>2. stream[s] \in StreamState
      BY DEF ClientTypeOK
    <2>3. [stream[s] EXCEPT !.at = at, !.why = why] \in StreamState
      BY <2>2 DEF StreamState
    <2>4. /\ stream'[s] = [stream[s] EXCEPT !.at = at, !.why = why]
          /\ \A t \in Stream \ {s} : stream'[t] = stream[t]
          /\ stream' \in [Stream -> StreamState]
      BY <2>1, <2>3 DEF ClientTypeOK
    <2> QED BY <2>2, <2>4 DEF StreamState
  <1>2. ClientTypeOK'
    BY <1>1 DEF ClientTypeOK
  <1>3. QueueOK'
    BY DEF QueueOK
  <1>4. DirectOK'
    <2> SUFFICES ASSUME NEW r \in Request PROVE Direct(r)'
      BY DEF DirectOK
    <2>1. Direct(r) /\ request'[r] = request[r]
      BY DEF DirectOK
    <2>2. \A t \in Stream : Opened(t) => Opened(t)'
      BY <1>1 DEF Opened
    <2>3. \A t \in Stream : request[r].stream = t /\ request[r].at = "closing" =>
                            stream'[t].rows = 0 /\ stream'[t].at \in {"start", "reading", "over"}
      <3> SUFFICES ASSUME NEW t \in Stream, request[r].stream = t, request[r].at = "closing"
                   PROVE  stream'[t].rows = 0 /\ stream'[t].at \in {"start", "reading", "over"}
        OBVIOUS
      <3>1. stream[t].rows = 0 /\ stream[t].at \in {"start", "reading", "over"}
        BY <2>1 DEF Direct
      <3>2. CASE t = s
        <4>1. ClosingDirectly(s) # {}
          BY <3>2 DEF ClosingDirectly
        <4> QED BY <1>1, <3>1, <3>2, <4>1
      <3> QED BY <1>1, <3>1, <3>2
    <2> QED BY <2>1, <2>2, <2>3, DirectKeeps
  <1>5. Generating(s)'
    BY <1>1 DEF GeneratorOK, Generating, Opened, Asked
  <1>6. Of(s)' = Of(s) /\ Succeeded(s)' = Succeeded(s) /\ Reported(s)
    BY DEF Of, Succeeded, ReportOK
  <1>7. Reported(s)'
    <2>1. stream[s].at \in {"start", "suspended", "reading"}
      OBVIOUS
    <2>2. raw' = raw /\ hook' = hook /\ request' = request
      OBVIOUS
    <2>3. raw[s] # "open" => stream'[s].at \in {"start", "reading", "over"}
      BY <1>1
    <2>4. ~\E r \in Of(s) : request[r].at = "rejected" /\ ~request[r].direct
      BY <1>6, <2>1 DEF Reported
    <2>5. /\ stream'[s].at = "unused" <=> hook'[s].at = "unused"
          /\ raw'[s] # "open" => hook'[s].at # "open"
          /\ hook'[s].at = "ended" => raw'[s] # "open" /\ hook'[s].status \in {"success", "error"}
      BY <1>1, <1>6, <2>1, <2>2 DEF Reported
    <2>6. Succeeded(s)' =>
            /\ hook'[s].rows = stream'[s].rows
            /\ hook'[s].end \in {"complete", "consumer-return"}
            /\ stream'[s].at \in {"start", "reading", "over"}
            /\ hook'[s].end = "complete" => raw'[s] = "done"
            /\ hook'[s].end = "consumer-return" =>
                 \E r \in Of(s)' : request'[r].asks = "return" /\ request'[r].at \in {"done", "rejected"}
      BY <1>1, <1>6, <2>2, <2>3 DEF Reported, Succeeded
    <2>7. hook'[s].at = "ended" /\ hook'[s].status = "error" => \E r \in Of(s)' : request'[r].at = "rejected"
      BY <1>6, <2>1, <2>2 DEF Reported
    <2> QED BY <1>6, <2>2, <2>3, <2>4, <2>5, <2>6, <2>7 DEF Reported
  <1>8. CallsOK' /\ GeneratorOK' /\ RowsOK' /\ ReportOK'
    <2>1. \A t \in Stream : Delivered(t)' = Delivered(t)
      BY DeliveredSame
    <2>2. stream'[s].rows = Delivered(s)'
          /\ (stream'[s].at \in {"unused", "failed", "start"} => stream'[s].rows = 0)
      BY <1>1, <2>1 DEF RowsOK
    <2>3. \A t \in Stream \ {s} : /\ stream'[t] = stream[t] /\ raw'[t] = raw[t]
                                  /\ queue'[t] = queue[t] /\ Delivered(t)' = Delivered(t)
      BY <1>1, <2>1
    <2>4. \A r \in Request : \/ request'[r] = request[r]
                             \/ request[r].stream \in {s, None} /\ request'[r].stream = s
      OBVIOUS
    <2>5. call' = call /\ \A o \in Operation \ {s} : hook'[o] = hook[o]
      OBVIOUS
    <2> QED BY <1>5, <1>7, <2>2, <2>3, <2>4, <2>5, OnlyAt
  <1> QED BY <1>2, <1>3, <1>4, <1>8

\* A step of the generator that answers the oldest request.
LEMMA AnswerStep ==
  ASSUME IInv, NEW s \in Stream, queue[s] # << >>,
         NEW at \in {"row", "done", "thrown", "rejected"}, Answer(s, at), call' = call,
         hook' \in [Operation -> HookState], \A o \in Operation \ {s} : hook'[o] = hook[o],
         raw' \in [Stream -> {"open", "done", "failed", "closed"}],
         \A t \in Stream \ {s} : raw'[t] = raw[t],
         stream' \in [Stream -> StreamState],
         \A t \in Stream \ {s} : stream'[t] = stream[t],
         stream'[s].at \in {"suspended", "over"}, stream'[s].started = stream[s].started,
         stream'[s].rows = IF at = "row" THEN stream[s].rows + 1 ELSE stream[s].rows,
         ClosingDirectly(s) # {} => stream'[s].at = "over" /\ at # "row",
         Reported(s)'
  PROVE  IInv'
  <1> USE DEF IInv
  <1>1. /\ queue' \in [Stream -> Seq(Request)] /\ QueueOK'
        /\ request' \in [Request -> RequestState]
        /\ Head(queue[s]) \in Request
        /\ request[Head(queue[s])].stream = s /\ request[Head(queue[s])].at = "queued"
        /\ ~request[Head(queue[s])].direct
        /\ request'[Head(queue[s])] = [request[Head(queue[s])] EXCEPT !.at = at]
        /\ \A q \in Request \ {Head(queue[s])} : request'[q] = request[q]
        /\ \A t \in Stream \ {s} : queue'[t] = queue[t] /\ Delivered(t)' = Delivered(t)
        /\ Delivered(s)' = IF at = "row" THEN Delivered(s) + 1 ELSE Delivered(s)
    BY AnswerKeeps
  <1> DEFINE h == Head(queue[s])
  <1>2. ClientTypeOK'
    BY <1>1 DEF ClientTypeOK
  <1>3. /\ request'[h].at = at /\ request'[h].stream = s /\ ~request'[h].direct
        /\ request'[h].asks = request[h].asks
    BY <1>1 DEF ClientTypeOK, RequestState
  <1>4. DirectOK'
    <2> SUFFICES ASSUME NEW r \in Request PROVE Direct(r)'
      BY DEF DirectOK
    <2>1. CASE r = h
      BY <1>3, <2>1 DEF Direct, Opened
    <2>2. CASE r # h
      <3>1. Direct(r) /\ request'[r] = request[r]
        BY <1>1, <2>2 DEF DirectOK
      <3>2. \A t \in Stream : Opened(t) => Opened(t)'
        BY DEF Opened
      <3>3. \A t \in Stream : request[r].stream = t /\ request[r].at = "closing" =>
                              stream'[t].rows = 0 /\ stream'[t].at \in {"start", "reading", "over"}
        <4> SUFFICES ASSUME NEW t \in Stream, request[r].stream = t, request[r].at = "closing"
                     PROVE  stream'[t].rows = 0 /\ stream'[t].at \in {"start", "reading", "over"}
          OBVIOUS
        <4>1. stream[t].rows = 0 /\ stream[t].at \in {"start", "reading", "over"}
          BY <3>1 DEF Direct
        <4>2. CASE t = s
          <5>1. ClosingDirectly(s) # {}
            BY <4>2 DEF ClosingDirectly
          <5> QED BY <4>1, <4>2, <5>1
        <4> QED BY <4>1, <4>2
      <3> QED BY <3>1, <3>2, <3>3, DirectKeeps
    <2> QED BY <2>1, <2>2
  <1>5. Generating(s)'
    BY DEF GeneratorOK, Generating, Opened
  <1>6. CallsOK' /\ GeneratorOK' /\ RowsOK' /\ ReportOK'
    <2>1. stream'[s].rows = Delivered(s)'
          /\ (stream'[s].at \in {"unused", "failed", "start"} => stream'[s].rows = 0)
      BY <1>1 DEF RowsOK
    <2>2. \A t \in Stream \ {s} : /\ stream'[t] = stream[t] /\ raw'[t] = raw[t]
                                  /\ queue'[t] = queue[t] /\ Delivered(t)' = Delivered(t)
      BY <1>1
    <2>3. \A q \in Request : \/ request'[q] = request[q]
                             \/ request[q].stream \in {s, None} /\ request'[q].stream = s
      <3> TAKE q \in Request
      <3>1. CASE q = h
        BY <1>1, <1>3, <3>1
      <3>2. CASE q # h
        BY <1>1, <3>2
      <3> QED BY <3>1, <3>2
    <2> QED BY <1>5, <2>1, <2>2, <2>3, OnlyAt
  <1> QED BY <1>1, <1>2, <1>4, <1>6

\* What ending the generator does to its stream.
LEMMA OverKeeps ==
  ASSUME ClientTypeOK, NEW s \in Stream, stream' = Over(s)
  PROVE  /\ stream' \in [Stream -> StreamState]
         /\ \A t \in Stream \ {s} : stream'[t] = stream[t]
         /\ stream'[s].at = "over" /\ stream'[s].started = stream[s].started
         /\ stream'[s].rows = stream[s].rows
  <1>1. stream' = [stream EXCEPT ![s] = [stream[s] EXCEPT !.at = "over"]]
    BY DEF Over
  <1>2. stream[s] \in StreamState
    BY DEF ClientTypeOK
  <1>3. [stream[s] EXCEPT !.at = "over"] \in StreamState
    BY <1>2 DEF StreamState
  <1>4. /\ stream'[s] = [stream[s] EXCEPT !.at = "over"]
        /\ \A t \in Stream \ {s} : stream'[t] = stream[t]
        /\ stream' \in [Stream -> StreamState]
    BY <1>1, <1>3 DEF ClientTypeOK
  <1> QED BY <1>2, <1>4 DEF StreamState

\* Which requests of a stream an answer touches.
LEMMA OfKeeps ==
  ASSUME ClientTypeOK, QueueOK, NEW s \in Stream, queue[s] # << >>,
         NEW at \in {"row", "done", "thrown", "rejected"}, Answer(s, at)
  PROVE  /\ Of(s)' = Of(s) /\ Head(queue[s]) \in Of(s)
         /\ \A r \in Of(s) \ {Head(queue[s])} : request'[r] = request[r]
         /\ request[Head(queue[s])].at = "queued"
         /\ request'[Head(queue[s])].at = at
         /\ request'[Head(queue[s])].asks = request[Head(queue[s])].asks
         /\ ~request'[Head(queue[s])].direct
  <1> DEFINE h == Head(queue[s])
  <1>1. /\ h \in Request /\ request[h].stream = s /\ request[h].at = "queued" /\ ~request[h].direct
        /\ request'[h] = [request[h] EXCEPT !.at = at]
        /\ \A q \in Request \ {h} : request'[q] = request[q]
    BY AnswerKeeps
  <1>2. /\ request'[h].at = at /\ request'[h].stream = s /\ ~request'[h].direct
        /\ request'[h].asks = request[h].asks
    BY <1>1 DEF ClientTypeOK, RequestState
  <1> QED BY <1>1, <1>2 DEF Of

\* Answers that tell the hooks nothing: a body that is skipped, or over.
LEMMA SilentStep ==
  ASSUME IInv, NEW s \in Stream, Skip(s) \/ AnswerOver(s)
  PROVE  IInv'
  <1> USE DEF IInv
  <1>1. /\ queue[s] # << >> /\ UNCHANGED <<call, raw, hook>>
        /\ stream[s].at \in {"start", "over"}
    BY DEF Skip, AnswerOver
  <1>2. PICK at \in {"done", "thrown"} : Answer(s, at)
    BY DEF Skip, AnswerOver
  <1>3. /\ stream' \in [Stream -> StreamState]
        /\ \A t \in Stream \ {s} : stream'[t] = stream[t]
        /\ stream'[s].at = "over" /\ stream'[s].started = stream[s].started
        /\ stream'[s].rows = stream[s].rows
    <2>1. CASE Skip(s)
      BY <2>1, OverKeeps DEF Skip
    <2>2. CASE AnswerOver(s)
      BY <2>2 DEF AnswerOver, ClientTypeOK
    <2> QED BY <2>1, <2>2
  <1> DEFINE h == Head(queue[s])
  <1>4. /\ Of(s)' = Of(s) /\ h \in Of(s)
        /\ \A r \in Of(s) \ {h} : request'[r] = request[r]
        /\ request[h].at = "queued" /\ request'[h].at = at
    BY <1>1, <1>2, OfKeeps
  <1>5. Reported(s) /\ Succeeded(s)' = Succeeded(s) /\ raw' = raw /\ hook' = hook
    BY <1>1 DEF ReportOK, Succeeded
  <1>6. Reported(s)'
    <2>1. /\ stream'[s].at = "unused" <=> hook'[s].at = "unused"
          /\ raw'[s] # "open" => hook'[s].at # "open"
          /\ hook'[s].at = "ended" => raw'[s] # "open" /\ hook'[s].status \in {"success", "error"}
      BY <1>1, <1>3, <1>5 DEF Reported
    <2>2. Succeeded(s)' =>
            /\ hook'[s].rows = stream'[s].rows
            /\ hook'[s].end \in {"complete", "consumer-return"}
            /\ hook'[s].end = "complete" => raw'[s] = "done"
            /\ hook'[s].end = "consumer-return" =>
                 \E r \in Of(s)' : request'[r].asks = "return" /\ request'[r].at \in {"done", "rejected"}
      BY <1>3, <1>4, <1>5 DEF Reported
    <2>3. hook'[s].at = "ended" /\ hook'[s].status = "error" => \E r \in Of(s)' : request'[r].at = "rejected"
      BY <1>1, <1>4, <1>5 DEF Reported
    <2>4. \A r \in Of(s)' : request'[r].at = "rejected" /\ ~request'[r].direct =>
            hook'[s].at # "open" /\ ~Succeeded(s)'
      BY <1>2, <1>4, <1>5 DEF Reported
    <2> QED BY <1>3, <2>1, <2>2, <2>3, <2>4 DEF Reported
  <1>7. hook' \in [Operation -> HookState] /\ raw' \in [Stream -> {"open", "done", "failed", "closed"}]
    BY <1>5 DEF ClientTypeOK
  <1> QED BY <1>1, <1>2, <1>3, <1>5, <1>6, <1>7, AnswerStep

\* A row is handed out.
LEMMA RowStep ==
  ASSUME IInv, NEW s \in Stream, Reading(s), raw[s] = "open", UNCHANGED <<call, raw, hook>>,
         stream' = [stream EXCEPT ![s].at = "suspended", ![s].rows = @ + 1], Answer(s, "row")
  PROVE  IInv'
  <1> USE DEF IInv
  <1>1. stream[s].at = "reading" /\ ClosingDirectly(s) = {} /\ queue[s] # << >>
    BY DEF Reading, GeneratorOK, Generating
  <1>2. /\ stream' \in [Stream -> StreamState]
        /\ \A t \in Stream \ {s} : stream'[t] = stream[t]
        /\ stream'[s].at = "suspended" /\ stream'[s].started = stream[s].started
        /\ stream'[s].rows = stream[s].rows + 1
    <2> DEFINE to == [stream[s] EXCEPT !.at = "suspended", !.rows = stream[s].rows + 1]
    <2>1. stream' = [stream EXCEPT ![s] = to]
      OBVIOUS
    <2>2. stream[s] \in StreamState
      BY DEF ClientTypeOK
    <2>3. to \in StreamState
      <3>1. stream[s].rows + 1 \in Nat
        BY <2>2 DEF StreamState
      <3> QED BY <2>2, <3>1 DEF StreamState
    <2>4. /\ stream'[s] = to /\ \A t \in Stream \ {s} : stream'[t] = stream[t]
          /\ stream' \in [Stream -> StreamState]
      BY <2>1, <2>3 DEF ClientTypeOK
    <2> QED BY <2>2, <2>4 DEF StreamState
  <1> DEFINE h == Head(queue[s])
  <1>3. /\ Of(s)' = Of(s) /\ h \in Of(s)
        /\ \A r \in Of(s) \ {h} : request'[r] = request[r]
        /\ request[h].at = "queued" /\ request'[h].at = "row"
    BY <1>1, OfKeeps
  <1>4. Reported(s) /\ hook' = hook /\ raw' = raw
    BY DEF ReportOK
  <1>5. hook[s].at # "ended" /\ hook[s].at # "unused"
    BY <1>1, <1>4 DEF Reported
  <1>6. \A r \in Of(s)' : request'[r].at = "rejected" => request'[r].direct
    BY <1>1, <1>3, <1>4 DEF Reported
  <1>7. Reported(s)'
    BY <1>2, <1>4, <1>5, <1>6 DEF Reported, Succeeded
  <1>8. hook' \in [Operation -> HookState] /\ raw' \in [Stream -> {"open", "done", "failed", "closed"}]
    BY <1>4 DEF ClientTypeOK
  <1> QED BY <1>1, <1>2, <1>4, <1>7, <1>8, AnswerStep

\* The generator ends: with the rows, an error, or because its loop was left.
LEMMA EndStep ==
  ASSUME IInv, NEW s \in Stream, RowsEnd(s) \/ ReadingFails(s) \/ LoopClosed(s)
  PROVE  IInv'
  <1> USE DEF IInv
  <1> DEFINE h == Head(queue[s])
  <1>1. /\ call' = call /\ stream' = Over(s)
        /\ stream[s].at \in {"reading", "closing"} /\ queue[s] # << >>
    BY DEF RowsEnd, ReadingFails, LoopClosed, Reading, GeneratorOK, Generating
  <1>2. /\ stream' \in [Stream -> StreamState]
        /\ \A t \in Stream \ {s} : stream'[t] = stream[t]
        /\ stream'[s].at = "over" /\ stream'[s].started = stream[s].started
        /\ stream'[s].rows = stream[s].rows
    BY <1>1, OverKeeps
  <1>3. /\ raw' \in [Stream -> {"open", "done", "failed", "closed"}]
        /\ \A t \in Stream \ {s} : raw'[t] = raw[t]
        /\ raw'[s] # "open"
    BY DEF RowsEnd, ReadingFails, LoopClosed, Close, ClientTypeOK
  <1>4. Reported(s) /\ hook[s].at # "unused" /\ stream[s].rows \in Nat
    BY <1>1 DEF ReportOK, Reported, ClientTypeOK, StreamState
  <1>5. /\ Outcome("success", stream[s].rows, "complete") \in HookState
        /\ Outcome("success", stream[s].rows, "consumer-return") \in HookState
        /\ Failure \in HookState
    BY <1>4 DEF Outcome, Failure, HookState
  <1>6. ~\E r \in Of(s) : request[r].at = "rejected" /\ ~request[r].direct
    BY <1>1, <1>4 DEF Reported
  <1>7. \/ /\ RowsEnd(s)
           /\ Finish(s, Outcome("success", stream[s].rows, "complete")) /\ Answer(s, "done")
           /\ raw[s] = "open" => raw'[s] = "done"
           /\ raw[s] # "open" => raw'[s] = raw[s]
        \/ /\ LoopClosed(s) /\ stream[s].why = "return" /\ raw[s] = "open"
           /\ Finish(s, Outcome("success", stream[s].rows, "consumer-return")) /\ Answer(s, "done")
        \/ /\ ReadingFails(s) \/ LoopClosed(s)
           /\ Finish(s, Failure) /\ Answer(s, "rejected") /\ raw[s] = "open"
    <2>1. LoopClosed(s) => raw[s] = "open"
      BY <1>4 DEF LoopClosed, Reported
    <2> QED BY <2>1 DEF RowsEnd, ReadingFails, LoopClosed, ClientTypeOK
  <1>8. PICK at \in {"done", "rejected"} : Answer(s, at)
    BY <1>7
  <1>9. /\ hook' \in [Operation -> HookState]
        /\ \A o \in Operation \ {s} : hook'[o] = hook[o]
    BY <1>5, <1>7, Apart, FinishKeeps
  <1>10. Reported(s)'
    <2>1. CASE /\ RowsEnd(s)
               /\ Finish(s, Outcome("success", stream[s].rows, "complete")) /\ Answer(s, "done")
               /\ raw[s] = "open" => raw'[s] = "done"
               /\ raw[s] # "open" => raw'[s] = raw[s]
      <3>1. /\ Of(s)' = Of(s) /\ h \in Of(s)
            /\ \A r \in Of(s) \ {h} : request'[r] = request[r]
            /\ request[h].at = "queued" /\ request'[h].at = "done"
        BY <1>1, <2>1, OfKeeps
      <3>2. hook'[s] = IF hook[s].at = "open" THEN Outcome("success", stream[s].rows, "complete")
                       ELSE hook[s]
        BY <1>5, <2>1, Apart, FinishKeeps
      <3>3. ~\E r \in Of(s)' : request'[r].at = "rejected" /\ ~request'[r].direct
        BY <1>6, <3>1
      <3>4. CASE hook[s].at = "open"
        <4>1. raw'[s] = "done" /\ hook'[s] = Outcome("success", stream[s].rows, "complete")
          BY <1>4, <2>1, <3>2, <3>4 DEF Reported
        <4> QED BY <1>2, <3>3, <4>1 DEF Reported, Succeeded, Outcome
      <3>5. CASE hook[s].at # "open"
        <4>1. hook'[s] = hook[s] /\ Succeeded(s)' = Succeeded(s)
          BY <3>2, <3>5 DEF Succeeded
        <4>2. hook'[s].at = "ended" => raw'[s] = raw[s] /\ raw[s] # "open"
          BY <1>4, <2>1, <4>1 DEF Reported
        <4>3. Succeeded(s)' =>
                /\ hook'[s].rows = stream'[s].rows
                /\ hook'[s].end \in {"complete", "consumer-return"}
                /\ hook'[s].end = "complete" => raw'[s] = "done"
                /\ hook'[s].end = "consumer-return" =>
                     \E r \in Of(s)' : request'[r].asks = "return" /\ request'[r].at \in {"done", "rejected"}
          BY <1>2, <1>4, <3>1, <4>1, <4>2 DEF Reported, Succeeded
        <4>4. hook'[s].at = "ended" /\ hook'[s].status = "error" => \E r \in Of(s)' : request'[r].at = "rejected"
          BY <1>1, <1>4, <3>1, <4>1 DEF Reported
        <4>5. hook'[s].at # "unused" /\ (hook'[s].at = "ended" => hook'[s].status \in {"success", "error"})
          BY <1>4, <4>1 DEF Reported
        <4> QED BY <1>2, <1>3, <3>3, <3>5, <4>1, <4>2, <4>3, <4>4, <4>5 DEF Reported
      <3> QED BY <3>4, <3>5
    <2>2. CASE /\ LoopClosed(s) /\ stream[s].why = "return" /\ raw[s] = "open"
               /\ Finish(s, Outcome("success", stream[s].rows, "consumer-return")) /\ Answer(s, "done")
      <3>1. /\ Of(s)' = Of(s) /\ h \in Of(s)
            /\ \A r \in Of(s) \ {h} : request'[r] = request[r]
            /\ request[h].at = "queued" /\ request'[h].at = "done" /\ request'[h].asks = request[h].asks
        BY <1>1, <2>2, OfKeeps
      <3>2. hook'[s] = IF hook[s].at = "open" THEN Outcome("success", stream[s].rows, "consumer-return")
                       ELSE hook[s]
        BY <1>5, <2>2, Apart, FinishKeeps
      <3>3. ~\E r \in Of(s)' : request'[r].at = "rejected" /\ ~request'[r].direct
        BY <1>6, <3>1
      <3>4. hook[s].at # "ended"
        BY <1>4, <2>2 DEF Reported
      <3>5. request'[h].asks = "return"
        BY <2>2, <3>1 DEF LoopClosed, GeneratorOK, Generating, Asked
      <3>6. Succeeded(s)' =>
              /\ hook'[s] = Outcome("success", stream[s].rows, "consumer-return")
              /\ \E r \in Of(s)' : request'[r].asks = "return" /\ request'[r].at \in {"done", "rejected"}
        BY <3>1, <3>2, <3>4, <3>5 DEF Succeeded
      <3>7. /\ hook'[s].at \notin {"unused", "open"}
            /\ hook'[s].at = "ended" => hook'[s].status = "success"
        BY <1>4, <3>2, <3>4 DEF Outcome
      <3> QED BY <1>2, <1>3, <3>3, <3>6, <3>7 DEF Reported, Outcome
    <2>3. CASE /\ ReadingFails(s) \/ LoopClosed(s)
               /\ Finish(s, Failure) /\ Answer(s, "rejected") /\ raw[s] = "open"
      <3>1. Of(s)' = Of(s) /\ h \in Of(s) /\ request'[h].at = "rejected"
        BY <1>1, <2>3, OfKeeps
      <3>2. hook'[s] = IF hook[s].at = "open" THEN Failure ELSE hook[s]
        BY <1>5, <2>3, Apart, FinishKeeps
      <3>3. hook[s].at # "ended"
        BY <1>4, <2>3 DEF Reported
      <3>4. ~Succeeded(s)'
        BY <3>2, <3>3 DEF Succeeded, Failure, Outcome
      <3>5. /\ hook'[s].at \notin {"unused", "open"}
            /\ hook'[s].at = "ended" => hook'[s].status = "error"
        BY <1>4, <3>2, <3>3 DEF Failure, Outcome
      <3> QED BY <1>2, <1>3, <3>1, <3>4, <3>5 DEF Reported
    <2> QED BY <1>7, <2>1, <2>2, <2>3
  <1> QED BY <1>1, <1>2, <1>3, <1>8, <1>9, <1>10, AnswerStep

\* A return before the first request, and its answer by the adapter.
LEMMA DirectStep ==
  ASSUME IInv, NEW s \in Stream, NEW r \in Request, NEW at \in {"closing", "done", "rejected"},
         UNCHANGED <<call, stream, queue>>,
         request' \in [Request -> RequestState],
         \A q \in Request \ {r} : request'[q] = request[q],
         request[r].at \in {"unused", "closing"}, request[r].stream \in {s, None},
         request'[r].stream = s, request'[r].asks = "return", request'[r].direct, request'[r].at = at,
         Opened(s), at = "closing" => stream[s].at = "start",
         hook' \in [Operation -> HookState], \A o \in Operation \ {s} : hook'[o] = hook[o],
         raw' \in [Stream -> {"open", "done", "failed", "closed"}],
         \A t \in Stream \ {s} : raw'[t] = raw[t],
         Reported(s)'
  PROVE  IInv'
  <1> USE DEF IInv
  <1>1. stream' = stream /\ queue' = queue /\ call' = call
    OBVIOUS
  <1>2. ClientTypeOK'
    BY <1>1 DEF ClientTypeOK
  <1>3. \A t \in Stream : \A i \in 1 .. Len(queue[t]) :
          queue[t][i] \in Request /\ queue[t][i] # r
    BY DEF QueueOK, ClientTypeOK
  <1>4. QueueOK'
    <2> SUFFICES ASSUME NEW t \in Stream
                 PROVE  /\ \A i \in 1 .. Len(queue[t]) :
                             /\ request'[queue[t][i]].stream = t
                             /\ request'[queue[t][i]].at = "queued"
                             /\ ~request'[queue[t][i]].direct
                        /\ \A i, j \in 1 .. Len(queue[t]) : queue[t][i] = queue[t][j] => i = j
      BY <1>1 DEF QueueOK
    <2>1. \A i \in 1 .. Len(queue[t]) : request'[queue[t][i]] = request[queue[t][i]]
      BY <1>3
    <2> QED BY <2>1 DEF QueueOK
  <1>5. DirectOK'
    <2> SUFFICES ASSUME NEW q \in Request PROVE Direct(q)'
      BY DEF DirectOK
    <2>1. CASE q = r
      <3>1. /\ request'[q].stream = s /\ request'[q].asks = "return"
            /\ request'[q].direct /\ request'[q].at = at
        BY <2>1
      <3>2. stream'[s].at \notin {"unused", "failed"}
        BY <1>1 DEF Opened
      <3>3. at = "closing" => stream'[s].at = "start" /\ stream'[s].rows = 0
        BY <1>1 DEF RowsOK
      <3> QED BY <3>1, <3>2, <3>3 DEF Direct, Opened
    <2>2. CASE q # r
      <3>1. request'[q] = request[q] /\ Direct(q)
        BY <2>2 DEF DirectOK
      <3> QED BY <1>1, <3>1 DEF Direct, Opened
    <2> QED BY <2>1, <2>2
  <1>6. Generating(s)'
    <2>1. queue[s] # << >> => Asked(s)' = Asked(s)
      <3>1. ASSUME queue[s] # << >> PROVE Asked(s)' = Asked(s)
        <4>1. Head(queue[s]) = queue[s][1] /\ 1 \in 1 .. Len(queue[s])
          BY <3>1, Taken DEF ClientTypeOK
        <4>2. request'[Head(queue[s])] = request[Head(queue[s])]
          BY <1>3, <4>1
        <4> QED BY <1>1, <4>2 DEF Asked
      <3> QED BY <3>1
    <2> QED BY <1>1, <2>1 DEF GeneratorOK, Generating, Opened
  <1>7. \A t \in Stream : Delivered(t)' = Delivered(t)
    <2> TAKE t \in Stream
    <2>1. \A q \in Request : (request'[q].stream = t /\ request'[q].at = "row")
                               <=> (request[q].stream = t /\ request[q].at = "row")
      <3> TAKE q \in Request
      <3>1. CASE q = r
        <4>1. request'[q].at = at
          BY <3>1
        <4> QED BY <3>1, <4>1
      <3>2. CASE q # r
        BY <3>2
      <3> QED BY <3>1, <3>2
    <2> QED BY <2>1, DeliveredSame
  <1>8. CallsOK' /\ GeneratorOK' /\ RowsOK' /\ ReportOK'
    <2>1. stream'[s].rows = Delivered(s)'
          /\ (stream'[s].at \in {"unused", "failed", "start"} => stream'[s].rows = 0)
      BY <1>1, <1>7 DEF RowsOK
    <2>2. \A t \in Stream \ {s} : /\ stream'[t] = stream[t] /\ raw'[t] = raw[t]
                                  /\ queue'[t] = queue[t] /\ Delivered(t)' = Delivered(t)
      BY <1>1, <1>7
    <2>3. \A q \in Request : \/ request'[q] = request[q]
                             \/ request[q].stream \in {s, None} /\ request'[q].stream = s
      <3> TAKE q \in Request
      <3>1. CASE q = r
        BY <3>1
      <3>2. CASE q # r
        BY <3>2
      <3> QED BY <3>1, <3>2
    <2> QED BY <1>1, <1>6, <2>1, <2>2, <2>3, OnlyAt
  <1> QED BY <1>2, <1>4, <1>5, <1>8

\* The return itself.
LEMMA UnstartedStep ==
  ASSUME IInv, NEW s \in Stream, NEW r \in Request, CallReturnUnstarted(s, r)
  PROVE  IInv'
  <1> USE DEF IInv
  <1> DEFINE made == [stream |-> s, asks |-> "return", direct |-> TRUE, at |-> "closing"]
  <1>1. /\ Opened(s) /\ ~stream[s].started /\ request[r].at = "unused"
        /\ request' = [request EXCEPT ![r] = made]
        /\ call' = call /\ stream' = stream /\ raw' = raw /\ queue' = queue /\ hook' = hook
    BY DEF CallReturnUnstarted, NextRequest
  <1>2. made \in RequestState
    BY DEF RequestState
  <1>3. /\ request' \in [Request -> RequestState] /\ request'[r] = made
        /\ \A q \in Request \ {r} : request'[q] = request[q]
    BY <1>1, <1>2 DEF ClientTypeOK
  <1>4. request[r].stream \notin Stream /\ request[r].stream \in {s, None}
    BY <1>1 DEF DirectOK, Direct, ClientTypeOK, RequestState
  <1>5. stream[s].at = "start"
    BY <1>1 DEF GeneratorOK, Generating, Opened
  <1>6. Reported(s)'
    <2>1. Of(s)' = Of(s) \cup {r} /\ r \notin Of(s) /\ \A q \in Of(s) : request'[q] = request[q]
      BY <1>3, <1>4 DEF Of
    <2>2. request'[r].at = "closing"
      BY <1>3
    <2>3. Reported(s) /\ Succeeded(s)' = Succeeded(s)
      BY <1>1 DEF ReportOK, Succeeded
    <2> QED BY <1>1, <2>1, <2>2, <2>3 DEF Reported
  <1>7. hook' \in [Operation -> HookState] /\ raw' \in [Stream -> {"open", "done", "failed", "closed"}]
    BY <1>1 DEF ClientTypeOK
  <1> QED BY <1>1, <1>3, <1>4, <1>5, <1>6, <1>7, DirectStep

\* Its answer: the operation ended, whatever closing did.
LEMMA ClosedStep ==
  ASSUME IInv, NEW r \in Request, ClosedDirectly(r)
  PROVE  IInv'
  <1> USE DEF IInv
  <1>0. PICK s \in Stream : s = request[r].stream
    BY DEF ClosedDirectly, DirectOK, Direct
  <1>1. request[r].at = "closing" /\ call' = call /\ stream' = stream /\ queue' = queue
    BY DEF ClosedDirectly
  <1>2. /\ s \in Stream /\ Opened(s) /\ request[r].direct /\ request[r].asks = "return"
        /\ stream[s].rows = 0 /\ stream[s].at \in {"start", "reading", "over"}
    BY <1>0, <1>1 DEF DirectOK, Direct
  <1>3. /\ Finish(s, Outcome("success", 0, "consumer-return"))
        /\ raw' = [raw EXCEPT ![s] = Close(@)]
    BY <1>0 DEF ClosedDirectly
  <1>4. PICK at \in {"done", "rejected"} : request' = [request EXCEPT ![r].at = at]
    BY DEF ClosedDirectly
  <1>5. /\ request' \in [Request -> RequestState]
        /\ request'[r].stream = s /\ request'[r].asks = "return"
        /\ request'[r].direct /\ request'[r].at = at
        /\ \A q \in Request \ {r} : request'[q] = request[q]
    <2>1. request' = [request EXCEPT ![r] = [request[r] EXCEPT !.at = at]]
      BY <1>4
    <2>2. request[r] \in RequestState
      BY DEF ClientTypeOK
    <2>3. [request[r] EXCEPT !.at = at] \in RequestState
      BY <2>2 DEF RequestState
    <2>4. request'[r] = [request[r] EXCEPT !.at = at] /\ \A q \in Request \ {r} : request'[q] = request[q]
      BY <2>1 DEF ClientTypeOK
    <2> QED BY <1>0, <1>2, <2>1, <2>2, <2>3, <2>4 DEF ClientTypeOK, RequestState
  <1>6. Outcome("success", 0, "consumer-return") \in HookState
    BY DEF Outcome, HookState
  <1>7. /\ hook' \in [Operation -> HookState]
        /\ hook'[s] = IF hook[s].at = "open" THEN Outcome("success", 0, "consumer-return") ELSE hook[s]
        /\ \A o \in Operation \ {s} : hook'[o] = hook[o]
    BY <1>2, <1>3, <1>6, Apart, FinishKeeps
  <1>8. /\ raw' \in [Stream -> {"open", "done", "failed", "closed"}]
        /\ \A t \in Stream \ {s} : raw'[t] = raw[t]
        /\ raw'[s] # "open" /\ (raw[s] # "open" => raw'[s] = raw[s])
    BY <1>2, <1>3 DEF Close, ClientTypeOK
  <1>9. Reported(s) /\ hook[s].at # "unused"
    BY <1>2 DEF ReportOK, Reported
  <1>10. Of(s)' = Of(s) /\ r \in Of(s) /\ \A q \in Of(s) \ {r} : request'[q] = request[q]
    BY <1>0, <1>5 DEF Of
  <1>11. request'[r].direct /\ request'[r].asks = "return" /\ request'[r].at = at
    BY <1>5
  <1>12. Reported(s)'
    <2>1. CASE hook[s].at = "open"
      <3>1. hook'[s] = Outcome("success", 0, "consumer-return") /\ raw[s] = "open"
        BY <1>7, <1>9, <2>1 DEF Reported
      <3>2. ~\E q \in Of(s)' : request'[q].at = "rejected" /\ ~request'[q].direct
        BY <1>9, <1>10, <1>11, <2>1 DEF Reported
      <3> QED BY <1>1, <1>2, <1>8, <1>10, <1>11, <3>1, <3>2 DEF Reported, Outcome
    <2>2. CASE hook[s].at # "open"
      <3>1. hook'[s] = hook[s] /\ Succeeded(s)' = Succeeded(s)
        BY <1>7, <2>2 DEF Succeeded
      <3>2. Succeeded(s)' =>
              /\ hook'[s].rows = stream'[s].rows
              /\ hook'[s].end \in {"complete", "consumer-return"}
              /\ hook'[s].end = "complete" => raw'[s] = "done"
              /\ hook'[s].end = "consumer-return" =>
                   \E q \in Of(s)' : request'[q].asks = "return" /\ request'[q].at \in {"done", "rejected"}
        BY <1>1, <1>8, <1>9, <1>10, <1>11, <3>1 DEF Reported, Succeeded
      <3>3. hook'[s].at = "ended" /\ hook'[s].status = "error" => \E q \in Of(s)' : request'[q].at = "rejected"
        BY <1>1, <1>2, <1>9, <1>10, <3>1 DEF Reported
      <3>4. \A q \in Of(s)' : request'[q].at = "rejected" /\ ~request'[q].direct =>
              stream'[s].at = "over" /\ hook'[s].at # "open" /\ ~Succeeded(s)'
        BY <1>1, <1>9, <1>10, <1>11, <3>1 DEF Reported
      <3>5. hook'[s].at # "unused" /\ (hook'[s].at = "ended" => hook'[s].status \in {"success", "error"})
        BY <1>9, <3>1 DEF Reported
      <3> QED BY <1>1, <1>2, <1>8, <2>2, <3>1, <3>2, <3>3, <3>4, <3>5 DEF Reported
    <2> QED BY <2>1, <2>2
  <1>13. request[r].stream \in {s, None} /\ request[r].at \in {"unused", "closing"}
    BY <1>0, <1>1
  <1>14. at \in {"closing", "done", "rejected"} /\ at # "closing"
    OBVIOUS
  <1>15. UNCHANGED <<call, stream, queue>>
    BY <1>1
  <1> HIDE DEF IInv
  <1> QED BY <1>2, <1>5, <1>7, <1>8, <1>12, <1>13, <1>14, <1>15, DirectStep

\* Every step of a stream's generator.
LEMMA GeneratorStep ==
  ASSUME IInv, NEW s \in Stream, Generate(s)
  PROVE  IInv'
  <1>1. CASE Read(s)
    <2>1. stream' = [stream EXCEPT ![s].at = "reading", ![s].why = stream[s].why]
      BY <1>1 DEF Read, IInv, ClientTypeOK, StreamState
    <2>2. stream[s].why \in {"none", "return", "throw", "decoding"}
      BY DEF IInv, ClientTypeOK, StreamState
    <2>3. /\ Opened(s) /\ queue[s] # << >> /\ Asked(s) = "next"
          /\ stream[s].at \in {"start", "suspended"} /\ UNCHANGED <<call, raw, queue, request, hook>>
      BY <1>1 DEF Read, Opened
    <2> QED BY <2>1, <2>2, <2>3, MoveStep
  <1>2. CASE Leave(s)
    <2>1. /\ stream' = [stream EXCEPT ![s].at = "closing", ![s].why = Asked(s)]
          /\ Opened(s) /\ queue[s] # << >> /\ stream[s].at = "suspended"
          /\ UNCHANGED <<call, raw, queue, request, hook>>
      BY <1>2 DEF Leave, Opened
    <2>2. Asked(s) \in {"none", "return", "throw", "decoding"}
      <3>1. Head(queue[s]) \in Request
        BY <2>1, Taken DEF IInv, ClientTypeOK
      <3> QED BY <1>2, <3>1 DEF Leave, Asked, IInv, ClientTypeOK, RequestState
    <2>3. raw[s] = "open"
      BY <2>1 DEF IInv, ReportOK, Reported
    <2>4. ClosingDirectly(s) = {}
      BY <2>1 DEF IInv, DirectOK, Direct, ClosingDirectly
    <2> QED BY <2>1, <2>2, <2>3, <2>4, MoveStep
  <1>3. CASE Skip(s) \/ AnswerOver(s)
    BY <1>3, SilentStep
  <1>4. CASE RowArrives(s)
    <2>1. CASE /\ stream' = [stream EXCEPT ![s].at = "suspended", ![s].rows = @ + 1]
               /\ Answer(s, "row")
      BY <1>4, <2>1, RowStep DEF RowArrives
    <2>2. CASE /\ stream' = [stream EXCEPT ![s].at = "closing", ![s].why = "decoding"]
               /\ UNCHANGED <<queue, request>>
      <3>1. /\ raw[s] = "open" /\ stream[s].at = "reading" /\ ClosingDirectly(s) = {}
            /\ UNCHANGED <<call, raw, queue, request, hook>>
        BY <1>4, <2>2 DEF RowArrives, Reading
      <3>2. Opened(s) /\ queue[s] # << >>
        BY <3>1 DEF IInv, GeneratorOK, Generating, Opened
      <3> QED BY <2>2, <3>1, <3>2, MoveStep
    <2> QED BY <1>4, <2>1, <2>2 DEF RowArrives
  <1>5. CASE RowsEnd(s) \/ ReadingFails(s) \/ LoopClosed(s)
    BY <1>5, EndStep
  <1> QED BY <1>1, <1>2, <1>3, <1>4, <1>5 DEF Generate

-----------------------------------------------------------------------------
(* The theorem.                                                             *)

\* Every step keeps the invariant.
LEMMA NextKeeps == IInv /\ [Next]_vars => IInv'
  <1> SUFFICES ASSUME IInv, [Next]_vars PROVE IInv'
    OBVIOUS
  <1>1. CASE \E c \in Call : StartCall(c) \/ Settle(c)
    BY <1>1, CallStep
  <1>2. CASE \E s \in Stream : OpenStream(s) \/ FailStream(s)
    BY <1>2, OpenStep
  <1>3. CASE \E s \in Stream : Generate(s)
    BY <1>3, GeneratorStep
  <1>4. CASE \E s \in Stream, r \in Request : Consume(s, r)
    BY <1>4, EnqueueStep, UnstartedStep DEF Consume
  <1>5. CASE \E r \in Request : ClosedDirectly(r)
    BY <1>5, ClosedStep
  <1>6. CASE UNCHANGED vars
    <2>1. UNCHANGED <<call, stream, raw, queue, request, hook>>
      BY <1>6 DEF vars
    <2>2. \A s \in Stream : Delivered(s)' = Delivered(s)
      BY <2>1, DeliveredSame
    <2> QED BY <2>1, <2>2 DEF IInv, ClientTypeOK, CallsOK, QueueOK, GeneratorOK, Generating, Opened, Asked,
                              DirectOK, Direct, RowsOK, ReportOK, Reported, Succeeded, Of
  <1> QED BY <1>1, <1>2, <1>3, <1>4, <1>5, <1>6 DEF Next

\* A state that keeps the invariant told the hooks the truth.
LEMMA Truth == IInv => OutcomeIsTrue
  <1> SUFFICES ASSUME IInv PROVE OutcomeIsTrue
    OBVIOUS
  <1>1. \A c \in Call : hook[c].at = "ended" =>
          call[c] = IF hook[c].status = "success" THEN "resolved" ELSE "rejected"
    BY DEF IInv, CallsOK
  <1>2. ASSUME NEW s \in Stream, hook[s].at = "ended", hook[s].status = "error"
        PROVE  stream[s].at = "failed" \/ \E r \in Of(s) : request[r].at = "rejected"
    BY <1>2 DEF IInv, ReportOK, Reported
  <1>3. ASSUME NEW s \in Stream, hook[s].at = "ended", hook[s].status # "error"
        PROVE  /\ hook[s].rows = Delivered(s)
               /\ hook[s].end = "complete" => raw[s] = "done"
               /\ hook[s].end = "consumer-return" =>
                    \E r \in Of(s) : request[r].asks = "return" /\ request[r].at \in {"done", "rejected"}
               /\ \A r \in Of(s) : request[r].at = "rejected" => request[r].direct
    <2>1. Succeeded(s) /\ Reported(s)
      BY <1>3 DEF IInv, ReportOK, Reported, Succeeded
    <2>2. stream[s].rows = Delivered(s)
      BY DEF IInv, RowsOK
    <2> QED BY <2>1, <2>2 DEF Reported
  <1> QED BY <1>1, <1>2, <1>3 DEF OutcomeIsTrue

\* OutcomeIsTrue holds of every behaviour: what execute, explain, transaction
\* and streams report to their hooks is what their callers and consumers saw.
THEOREM OutcomeAlways == Spec => []OutcomeIsTrue
  <1>1. Spec => []IInv
    BY InitHolds, NextKeeps, PTL DEF Spec
  <1> QED BY <1>1, Truth, PTL
=============================================================================
