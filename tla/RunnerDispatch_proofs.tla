------------------------ MODULE RunnerDispatch_proofs ------------------------
(***************************************************************************)
(* Proofs about the dispatch of model requests to remote runners, for any  *)
(* number of runners, requests, sessions and chunks.                       *)
(*                                                                         *)
(* Where a handler stands says what exists of its tasks: nothing of a task *)
(* before its dispatch, one frame or one worker afterwards, and nothing    *)
(* that could still call upstream once an attempt has been given up.  A    *)
(* frame that allows a retry is sent only by a task that made no call and  *)
(* is over.  As long as a session feeds a handler, what the handler has    *)
(* not read of an answer is in its channel or in the queue of the session, *)
(* in order, and nothing follows the frame that ends it.                   *)
(*                                                                         *)
(* The second part is about the request in the gateway that dispatches,    *)
(* the third about the admission of requests billed in money before that.  *)
(***************************************************************************)
EXTENDS RunnerDispatch, GatewayRequest, MoneyAdmission, FiniteSetTheorems, TLAPS

\* The frames in a queue.
Elems(s) == {s[i] : i \in DOMAIN s}

DownFrame == [kind : {"task", "cancel"}, task : Task]

UpFrame ==
  [kind : {"accepted", "started", "finished"}, task : Task]
    \cup [kind : {"response"}, task : Task, status : Status]
    \cup [kind : {"chunk"}, task : Task, sequence : Nat]
    \cup [kind : {"failed"}, task : Task, retryable : BOOLEAN]

Phases == {"choosing", "reserving", "reserved", "done"} \cup ListeningPhases
WorkPhases == {"none", "ended", "aborted"} \cup LivePhases
Results == {"none", "before", "unknown"} \cup Status

HandlerType ==
  [phase : Phases, attempt : Attempt, runner : RemoteRunner \cup {NoRemote},
   gen : Gen \cup {0}, excluded : SUBSET (RemoteRunner \cup {NoRemote}),
   accepted : BOOLEAN, started : BOOLEAN, status : Status, chunks : Nat, result : Results]

WorkType == [phase : WorkPhases, gen : Gen \cup {0}, cancelled : BOOLEAN, chunks : Nat]

SessionType ==
  /\ connections \in [RemoteRunner -> Gen \cup {0}]
  /\ owner \in [Gen -> RemoteRunner \cup {NoRemote}]
  /\ controlEnd \in [Gen -> {"none", "open", "leaving", "closed"}]
  /\ runnerEnd \in [Gen -> {"none", "open", "closed"}]
  /\ enabled \subseteq RemoteRunner /\ disabling \subseteq RemoteRunner

QueueType ==
  /\ down \in [Gen -> Seq(DownFrame)]
  /\ up \in [Gen -> Seq(UpFrame)]
  /\ subs \in [Task -> Gen \cup {0}]
  /\ events \in [Task -> Seq(UpFrame)]
  /\ terminal \in [Task -> BOOLEAN]

DispatchTypeOK ==
  /\ SessionType /\ QueueType
  /\ req \in [Request -> HandlerType]
  /\ work \in [Task -> WorkType]
  /\ calls \in [Request -> Nat]

-----------------------------------------------------------------------------
\* Connections in the hub are those of sessions that have not been closed.
SessionInv ==
  /\ \A r \in RemoteRunner : connections[r] # 0 =>
       owner[connections[r]] = r /\ controlEnd[connections[r]] \in {"open", "leaving"}
  /\ \A g \in Gen : owner[g] = NoRemote => controlEnd[g] = "none"
  /\ NoOrphanSubscription

\* A handler that chose a runner has one of its sessions.
Chosen(q) == req[q].phase \notin {"choosing", "done"} =>
               /\ req[q].gen \in Gen
               /\ owner[req[q].gen] # NoRemote

\* The frame of a task waits in a session.
IsTask(f, t) == f.kind = "task" /\ f.task = t
WaitsAt(g, t) == \E f \in Elems(down[g]) : IsTask(f, t)
Waits(t) == \E g \in Gen : WaitsAt(g, t)

OneFrame(s, t) == \A i, j \in DOMAIN s : IsTask(s[i], t) /\ IsTask(s[j], t) => i = j

\* A task has one frame, in one session, and no worker beside it.
FrameInv(t) ==
  /\ \A g, h \in Gen : WaitsAt(g, t) /\ WaitsAt(h, t) => g = h
  /\ \A g \in Gen : OneFrame(down[g], t)
  /\ Waits(t) => work[t].phase = "none"
  /\ work[t].phase # "none" => work[t].gen \in Gen

\* The task can make no call any more.
Over(t) == ~Waits(t) /\ ~Live(t)

\* The task was not dispatched.
Untouched(t) ==
  /\ ~Waits(t) /\ work[t].phase = "none"
  /\ \A g \in Gen : \A f \in Elems(up[g]) : f.task # t
  /\ Elems(events[t]) = {}

\* The frame says that the task failed before its call.
Harmless(f) == f.kind = "failed" /\ f.retryable

\* The task is over and has made no call.
CertainlyNone(t) ==
  /\ Over(t) /\ work[t].phase \in {"none", "ended"}
  /\ t = TaskOf(t[1]) => calls[t[1]] = 0

\* What frames say is true.
FrameTruth(t) ==
  /\ \A g \in Gen : \A f \in Elems(up[g]) : f.task = t /\ Harmless(f) => CertainlyNone(t)
  /\ \A f \in Elems(events[t]) : f.task = t
  /\ \A f \in Elems(events[t]) : Harmless(f) => CertainlyNone(t)

\* The handler has dispatched nothing in this attempt.
Undispatched(q) == req[q].phase \in {"choosing", "reserving", "reserved"}

\* How many calls were made, and which of the two attempts may make one.
AttemptInv(q) ==
  /\ \A a \in Attempt :
       /\ a < req[q].attempt => Over(<<q, a>>)
       /\ a > req[q].attempt \/ (a = req[q].attempt /\ Undispatched(q)) => Untouched(<<q, a>>)
  /\ calls[q] \in {0, 1}
  /\ work[TaskOf(q)].phase \in {"none", "queued", "accepted", "started"} => calls[q] = 0

\* What is recorded of a request.
ResultInv(q) ==
  /\ req[q].phase = "errorBody" => req[q].status = "error"
  /\ req[q].result # "none" => req[q].phase = "done"
  /\ req[q].result = "before" /\ req[q].status = "ok" =>
       calls[q] = 0 /\ \A a \in Attempt : Over(<<q, a>>)

DispatchInv ==
  /\ DispatchTypeOK
  /\ SessionInv
  /\ \A t \in Task : FrameInv(t) /\ FrameTruth(t)
  /\ \A q \in Request : Chosen(q) /\ AttemptInv(q) /\ ResultInv(q)

-----------------------------------------------------------------------------
(***************************************************************************)
(* Queues.                                                                 *)
(***************************************************************************)

\* What a send adds to a queue.
LEMMA ElemsAppend ==
  ASSUME NEW S, NEW s \in Seq(S), NEW e \in S
  PROVE  Append(s, e) \in Seq(S) /\ Elems(Append(s, e)) = Elems(s) \cup {e}
<1>1. DOMAIN Append(s, e) = 1 .. Len(s) + 1 /\ DOMAIN s = 1 .. Len(s) /\ Len(s) \in Nat
  OBVIOUS
<1>2. \A i \in 1 .. Len(s) : Append(s, e)[i] = s[i]
  OBVIOUS
<1>3. Append(s, e)[Len(s) + 1] = e
  OBVIOUS
<1>4. \A i \in 1 .. Len(s) + 1 : i \in 1 .. Len(s) \/ i = Len(s) + 1
  BY <1>1
<1> QED
  BY <1>1, <1>2, <1>3, <1>4 DEF Elems

\* What a receipt takes from it.
LEMMA ElemsTail ==
  ASSUME NEW S, NEW s \in Seq(S), s # << >>
  PROVE  /\ Tail(s) \in Seq(S) /\ Head(s) \in S
         /\ Elems(Tail(s)) \subseteq Elems(s) /\ Head(s) \in Elems(s)
<1>1. DOMAIN s = 1 .. Len(s) /\ Len(s) \in Nat \ {0}
  OBVIOUS
<1>2. Tail(s) \in Seq(S) /\ Head(s) \in S /\ Head(s) = s[1] /\ 1 \in DOMAIN s
  BY <1>1
<1>3. DOMAIN Tail(s) = 1 .. Len(s) - 1 /\ \A i \in 1 .. Len(s) - 1 : Tail(s)[i] = s[i + 1]
  BY <1>1
<1>4. \A i \in 1 .. Len(s) - 1 : i + 1 \in DOMAIN s
  BY <1>1
<1> QED
  BY <1>2, <1>3, <1>4 DEF Elems

\* What is left of it when its end is lost.
LEMMA ElemsPrefix ==
  ASSUME NEW S, NEW s \in Seq(S), NEW n \in 0 .. Len(s)
  PROVE  SubSeq(s, 1, n) \in Seq(S) /\ Elems(SubSeq(s, 1, n)) \subseteq Elems(s)
<1>1. DOMAIN s = 1 .. Len(s) /\ Len(s) \in Nat
  OBVIOUS
<1>2. SubSeq(s, 1, n) \in Seq(S) /\ DOMAIN SubSeq(s, 1, n) = 1 .. n
  BY <1>1
<1>3. \A i \in 1 .. n : SubSeq(s, 1, n)[i] = s[i] /\ i \in DOMAIN s
  BY <1>1
<1> QED
  BY <1>2, <1>3 DEF Elems

LEMMA ElemsEmpty == ASSUME NEW S PROVE << >> \in Seq(S) /\ Elems(<< >>) = {}
  BY DEF Elems

\* The frames the runner sends are frames.
LEMMA FrameTypes ==
  ASSUME NEW t \in Task
  PROVE  /\ TaskFrame(t) \in DownFrame /\ CancelFrame(t) \in DownFrame
         /\ Accepted(t) \in UpFrame /\ UpstreamStarted(t) \in UpFrame /\ Finished(t) \in UpFrame
         /\ \A b \in BOOLEAN : Failed(t, b) \in UpFrame
         /\ \A s \in Status : ResponseStarted(t, s) \in UpFrame
         /\ \A n \in Nat : Chunk(t, n) \in UpFrame
  BY DEF TaskFrame, CancelFrame, Accepted, UpstreamStarted, Finished, Failed, ResponseStarted,
         Chunk, DownFrame, UpFrame

LEMMA FrameTask == /\ \A f \in DownFrame : f.task \in Task /\ f.kind \in {"task", "cancel"}
                   /\ \A f \in UpFrame : f.task \in Task
  BY DEF DownFrame, UpFrame

-----------------------------------------------------------------------------
(***************************************************************************)
(* Types.                                                                  *)
(***************************************************************************)

\* Sending to a session, in either direction.
LEMMA EnqueueType ==
  ASSUME QueueType, NEW g \in Gen, NEW f \in DownFrame, Enqueue(g, f)
  PROVE  down' \in [Gen -> Seq(DownFrame)]
<1>1. Append(down[g], f) \in Seq(DownFrame)
  BY ElemsAppend DEF QueueType
<1> QED
  BY <1>1 DEF QueueType, Enqueue

LEMMA SayType ==
  ASSUME QueueType, NEW g \in Gen, NEW f \in UpFrame, Say(g, f)
  PROVE  up' \in [Gen -> Seq(UpFrame)]
<1>1. Append(up[g], f) \in Seq(UpFrame)
  BY ElemsAppend DEF QueueType
<1> QED
  BY <1>1 DEF QueueType, Say

\* A handler that ends, or begins its second attempt.
LEMMA EndType ==
  ASSUME NEW q \in Request, req \in [Request -> HandlerType], NEW x \in Results, End(q, x)
  PROVE  req' \in [Request -> HandlerType]
<1>1. "done" \in Phases
  BY DEF Phases
<1> QED
  BY <1>1, ZenonT(60) DEF End, HandlerType

LEMMA AgainType ==
  ASSUME NEW q \in Request, req \in [Request -> HandlerType],
         NEW x \in SUBSET (RemoteRunner \cup {NoRemote}), Again(q, x)
  PROVE  req' \in [Request -> HandlerType]
<1>1. "before" \in Results /\ "choosing" \in Phases /\ 2 \in Attempt /\ "ok" \in Status
      /\ "none" \in Results
  BY DEF Results, Phases, Attempt, Status
<1> DEFINE next == [NewAttempt EXCEPT !.attempt = 2, !.excluded = req[q].excluded \cup x]
<1>2. next \in HandlerType
  BY <1>1 DEF NewAttempt, HandlerType
<1>3. req[q].attempt = 1 => req' = [req EXCEPT ![q] = next]
  BY DEF Again
<1> HIDE DEF next
<1>4. CASE req[q].attempt = 1
  BY <1>2, <1>3, <1>4
<1>5. CASE req[q].attempt # 1
  BY <1>1, <1>5, EndType DEF Again
<1> QED
  BY <1>4, <1>5

LEMMA RunnerTyped ==
  ASSUME NEW q \in Request, req \in [Request -> HandlerType]
  PROVE  /\ req[q].runner \in RemoteRunner \cup {NoRemote} /\ req[q].gen \in Gen \cup {0}
         /\ req[q].attempt \in Attempt /\ req[q].status \in Status /\ TaskOf(q) \in Task
         /\ req[q].phase \in Phases /\ TaskOf(q)[1] = q /\ TaskOf(q)[2] = req[q].attempt
  BY DEF HandlerType, TaskOf, Task

\* The fields that count, after a handler ended or began again.
LEMMA EndEffect ==
  ASSUME NEW q \in Request, req \in [Request -> HandlerType], NEW x, End(q, x)
  PROVE  /\ req'[q].phase = "done" /\ req'[q].result = x
         /\ req'[q].attempt = req[q].attempt /\ req'[q].status = req[q].status
         /\ req'[q].chunks = req[q].chunks
         /\ \A p \in Request \ {q} : req'[p] = req[p]
<1>1. \A p \in Request \ {q} : req'[p] = req[p]
  BY DEF End
<1> QED
  BY <1>1 DEF End, HandlerType

LEMMA AgainEffect ==
  ASSUME NEW q \in Request, req \in [Request -> HandlerType], NEW x, Again(q, x)
  PROVE  /\ \A p \in Request \ {q} : req'[p] = req[p]
         /\ req[q].attempt = 1 =>
              /\ req'[q].attempt = 2 /\ req'[q].phase = "choosing" /\ req'[q].result = "none"
              /\ req'[q].status = "ok" /\ req'[q].chunks = 0
         /\ req[q].attempt # 1 =>
              /\ req'[q].phase = "done" /\ req'[q].result = "before"
              /\ req'[q].attempt = req[q].attempt /\ req'[q].status = req[q].status
              /\ req'[q].chunks = req[q].chunks
<1>1. CASE req[q].attempt = 1
  <2> DEFINE next == [NewAttempt EXCEPT !.attempt = 2, !.excluded = req[q].excluded \cup x]
  <2>1. /\ next.attempt = 2 /\ next.phase = "choosing" /\ next.result = "none"
        /\ next.status = "ok" /\ next.chunks = 0
    BY DEF NewAttempt
  <2>2. req' = [req EXCEPT ![q] = next]
    BY <1>1 DEF Again
  <2> HIDE DEF next
  <2>3. req'[q] = next /\ \A p \in Request \ {q} : req'[p] = req[p]
    BY <2>2
  <2> QED
    BY <1>1, <2>1, <2>3
<1>2. CASE req[q].attempt # 1
  BY <1>2, EndEffect DEF Again
<1> QED
  BY <1>1, <1>2

\* The ways in which a handler takes a frame.
LEMMA ReceiveCases ==
  ASSUME NEW q \in Request, Receive(q)
  PROVE  LET f == Head(events[TaskOf(q)]) IN
         \/ /\ req[q].phase = "waiting" /\ f.kind # "chunk"
            /\ req' \in {[req EXCEPT ![q].accepted = TRUE], [req EXCEPT ![q].started = TRUE]}
            /\ UNCHANGED down
         \/ /\ req[q].phase = "waiting" /\ f.kind = "response"
            /\ \E phase \in AnswerPhase(q, f.status) :
                 req' = [req EXCEPT ![q] = [@ EXCEPT !.phase = phase, !.status = f.status]]
            /\ UNCHANGED down
         \/ /\ req[q].phase = "waiting" /\ Harmless(f)
            /\ Again(q, {req[q].runner}) /\ UNCHANGED down
         \/ /\ req[q].phase # "waiting" /\ f.kind = "chunk" /\ f.sequence = req[q].chunks
            /\ req' = [req EXCEPT ![q].chunks = @ + 1] /\ UNCHANGED down
         \/ req[q].phase = "errorBody" /\ End(q, "before") /\ DropHandle(q)
         \/ /\ req[q].phase = "streaming" /\ f.kind = "finished"
            /\ End(q, req[q].status) /\ UNCHANGED down
         \/ End(q, "unknown") /\ DropHandle(q)
<1> DEFINE f == Head(events[TaskOf(q)])
<1>1. CASE req[q].phase = "waiting"
  <2>1. AwaitStart(q, f)
    BY <1>1, Zenon DEF Receive
  <2>2. CASE f.kind = "accepted" /\ ~req[q].accepted
    <3>1. req' = [req EXCEPT ![q].accepted = TRUE] /\ UNCHANGED down
      BY <2>1, <2>2, Zenon DEF AwaitStart
    <3>2. f.kind # "chunk"
      BY <2>2
    <3> QED
      BY <1>1, <3>1, <3>2, Zenon
  <2>3. CASE f.kind = "started" /\ req[q].accepted /\ ~req[q].started
    <3>1. req' = [req EXCEPT ![q].started = TRUE] /\ UNCHANGED down
      BY <2>1, <2>3, Zenon DEF AwaitStart
    <3>2. f.kind # "chunk"
      BY <2>3
    <3> QED
      BY <1>1, <3>1, <3>2, Zenon
  <2>4. CASE f.kind = "response" /\ req[q].started
    <3>1. /\ \E phase \in AnswerPhase(q, f.status) :
               req' = [req EXCEPT ![q] = [@ EXCEPT !.phase = phase, !.status = f.status]]
          /\ UNCHANGED down
      BY <2>1, <2>4, Zenon DEF AwaitStart
    <3> QED
      BY <1>1, <2>4, <3>1, Zenon
  <2>5. CASE f.kind = "failed" /\ f.retryable /\ ~req[q].started
    <3>1. Again(q, {req[q].runner}) /\ UNCHANGED down
      BY <2>1, <2>5, Zenon DEF AwaitStart
    <3> QED
      BY <1>1, <2>5, <3>1, Zenon DEF Harmless
  <2>6. CASE /\ ~(f.kind = "accepted" /\ ~req[q].accepted)
             /\ ~(f.kind = "started" /\ req[q].accepted /\ ~req[q].started)
             /\ ~(f.kind = "response" /\ req[q].started)
             /\ ~(f.kind = "failed" /\ f.retryable /\ ~req[q].started)
    <3>1. End(q, "unknown") /\ DropHandle(q)
      BY <2>1, <2>6, Zenon DEF AwaitStart, Abort
    <3> QED
      BY <3>1, Zenon
  <2> QED
    BY <2>2, <2>3, <2>4, <2>5, <2>6, Zenon
<1>2. CASE req[q].phase = "errorBody"
  <2>1. CollectErrorBody(q, f)
    BY <1>2, Zenon DEF Receive
  <2> QED
    BY <1>2, <2>1, Zenon DEF CollectErrorBody
<1>3. CASE req[q].phase = "streaming"
  <2>1. AwaitAnswer(q, f)
    BY <1>3, Zenon DEF Receive
  <2>2. CASE f.kind = "chunk" /\ f.sequence = req[q].chunks
    <3>1. req' = [req EXCEPT ![q].chunks = @ + 1] /\ UNCHANGED down
      BY <2>1, <2>2, Zenon DEF AwaitAnswer
    <3> QED
      BY <1>3, <2>2, <3>1, Zenon
  <2>3. CASE f.kind = "finished"
    <3>1. End(q, req[q].status) /\ UNCHANGED down
      BY <2>1, <2>3, Zenon DEF AwaitAnswer, Complete
    <3> QED
      BY <1>3, <2>3, <3>1, Zenon
  <2>4. CASE f.kind # "finished" /\ ~(f.kind = "chunk" /\ f.sequence = req[q].chunks)
    <3>1. End(q, "unknown") /\ DropHandle(q)
      BY <2>1, <2>4, Zenon DEF AwaitAnswer, Abort
    <3> QED
      BY <3>1, Zenon
  <2> QED
    BY <2>2, <2>3, <2>4, Zenon
<1> QED
  BY <1>1, <1>2, <1>3 DEF Receive, ListeningPhases

\* What becomes of the event channel when a handler took a frame, and of the
\* queue of its session when it dropped its handle.
LEMMA EventsLeftEffect ==
  ASSUME NEW q \in Request, DispatchTypeOK, EventsLeft(q)
  PROVE  /\ events' \in [Task -> Seq(UpFrame)]
         /\ \A t \in Task \ {TaskOf(q)} : events'[t] = events[t]
         /\ events'[TaskOf(q)] = << >>
            \/ (events[TaskOf(q)] # << >> /\ events'[TaskOf(q)] = Tail(events[TaskOf(q)]))
<1>1. TaskOf(q) \in Task /\ events \in [Task -> Seq(UpFrame)]
  BY RunnerTyped DEF DispatchTypeOK, QueueType
<1>2. events[TaskOf(q)] # << >> => Tail(events[TaskOf(q)]) \in Seq(UpFrame)
  BY <1>1, ElemsTail
<1>3. << >> \in Seq(UpFrame)
  BY ElemsEmpty
<1> DEFINE t == TaskOf(q)
<1> DEFINE left == IF events[t] # << >> /\ req'[q].attempt = t[2] /\ req'[q].phase \in ListeningPhases
                     THEN Tail(events[t]) ELSE << >>
<1>4. events' = [events EXCEPT ![t] = left]
  BY Zenon DEF EventsLeft
<1> HIDE DEF t
<1>5. left = << >> \/ (events[t] # << >> /\ left = Tail(events[t]))
  <2>1. CASE events[t] # << >> /\ req'[q].attempt = t[2] /\ req'[q].phase \in ListeningPhases
    BY <2>1
  <2>2. CASE ~(events[t] # << >> /\ req'[q].attempt = t[2] /\ req'[q].phase \in ListeningPhases)
    BY <2>2
  <2> QED
    BY <2>1, <2>2
<1> HIDE DEF left
<1>6. t \in Task
  BY <1>1 DEF t
<1>7. left \in Seq(UpFrame)
  BY <1>2, <1>3, <1>5 DEF t
<1>8. events' \in [Task -> Seq(UpFrame)] /\ events'[t] = left
      /\ \A u \in Task \ {t} : events'[u] = events[u]
  BY <1>1, <1>4, <1>6, <1>7
<1> QED
  BY <1>5, <1>8 DEF t

LEMMA DropHandleEffect ==
  ASSUME NEW q \in Request, DispatchTypeOK, req[q].gen \in Gen, DropHandle(q)
  PROVE  /\ down' \in [Gen -> Seq(DownFrame)]
         /\ \/ down' = down
            \/ down' = [down EXCEPT ![req[q].gen] = Append(@, CancelFrame(TaskOf(q)))]
<1>1. TaskOf(q) \in Task
  BY RunnerTyped DEF DispatchTypeOK
<1>2. CancelFrame(TaskOf(q)) \in DownFrame
  BY <1>1, FrameTypes
<1>3. UNCHANGED down \/ Enqueue(req[q].gen, CancelFrame(TaskOf(q)))
  BY Zenon DEF DropHandle
<1>4. CASE UNCHANGED down
  BY <1>4 DEF DispatchTypeOK, QueueType
<1>5. CASE Enqueue(req[q].gen, CancelFrame(TaskOf(q)))
  <2>1. down' \in [Gen -> Seq(DownFrame)]
    BY <1>2, <1>5, EnqueueType DEF DispatchTypeOK
  <2> QED
    BY <1>5, <2>1 DEF Enqueue
<1> QED
  BY <1>3, <1>4, <1>5

\* Every step keeps the types, given that the handlers have sessions.
LEMMA SessionTypes ==
  ASSUME DispatchTypeOK,
         \/ \E r \in RemoteRunner : Connect(r) \/ Disable(r) \/ Disconnect(r)
         \/ \E g \in Gen : RunnerDrops(g) \/ ControlBreaks(g) \/ Unregister(g)
  PROVE  DispatchTypeOK'
<1> USE DEF DispatchTypeOK
<1>1. ASSUME NEW r \in RemoteRunner, Connect(r) PROVE DispatchTypeOK'
  BY <1>1 DEF Connect, adminVars, SessionType, QueueType
<1>2. ASSUME NEW r \in RemoteRunner, Disable(r) \/ Disconnect(r) PROVE DispatchTypeOK'
  BY <1>2 DEF Disable, Disconnect, hubVars, SessionType, QueueType
<1>3. ASSUME NEW g \in Gen, RunnerDrops(g) PROVE DispatchTypeOK'
  <2>1. << >> \in Seq(DownFrame)
    BY ElemsEmpty
  <2>2. \A n \in 0 .. Len(up[g]) : SubSeq(up[g], 1, n) \in Seq(UpFrame)
    BY ElemsPrefix DEF QueueType
  <2>3. work' \in [Task -> WorkType]
    <3>1. "aborted" \in WorkPhases
      BY DEF WorkPhases
    <3>2. ASSUME NEW t \in Task PROVE [work[t] EXCEPT !.phase = "aborted"] \in WorkType
      BY <3>1 DEF WorkType
    <3>3. ASSUME NEW t \in Task PROVE work'[t] \in WorkType
      BY <1>3, <3>2 DEF RunnerDrops
    <3> QED
      BY <1>3, <3>3 DEF RunnerDrops
  <2>4. up' \in [Gen -> Seq(UpFrame)]
    BY <1>3, <2>2 DEF RunnerDrops, QueueType
  <2>5. down' \in [Gen -> Seq(DownFrame)]
    BY <1>3, <2>1 DEF RunnerDrops, QueueType
  <2> QED
    BY <1>3, <2>3, <2>4, <2>5 DEF RunnerDrops, adminVars, SessionType, QueueType
<1>4. ASSUME NEW g \in Gen, ControlBreaks(g) PROVE DispatchTypeOK'
  <2>1. << >> \in Seq(UpFrame)
    BY ElemsEmpty
  <2> QED
    BY <1>4, <2>1 DEF ControlBreaks, adminVars, SessionType, QueueType
<1>5. ASSUME NEW g \in Gen, Unregister(g) PROVE DispatchTypeOK'
  <2>1. connections' \in [RemoteRunner -> Gen \cup {0}]
    BY <1>5 DEF Unregister, SessionType
  <2>2. subs' \in [Task -> Gen \cup {0}]
    BY <1>5 DEF Unregister, QueueType
  <2> QED
    BY <1>5, <2>1, <2>2 DEF Unregister, adminVars, SessionType, QueueType
<1> QED
  BY <1>1, <1>2, <1>3, <1>4, <1>5

LEMMA FrameStepTypes ==
  ASSUME DispatchTypeOK, NEW g \in Gen, PublishFrom(g) \/ AcceptTask(g) \/ CancelTask(g)
  PROVE  DispatchTypeOK'
<1> USE DEF DispatchTypeOK
<1>1. CASE PublishFrom(g)
  <2> DEFINE f == Head(up[g])
  <2>1. f \in UpFrame /\ f.task \in Task /\ Tail(up[g]) \in Seq(UpFrame)
    BY <1>1, ElemsTail, FrameTask DEF PublishFrom, QueueType
  <2>2. Append(events[f.task], f) \in Seq(UpFrame)
    BY <2>1, ElemsAppend DEF QueueType
  <2>3. up' \in [Gen -> Seq(UpFrame)]
    BY <1>1, <2>1 DEF PublishFrom, QueueType
  <2>4. events' \in [Task -> Seq(UpFrame)]
    <3>1. events' = events \/ events' = [events EXCEPT ![f.task] = Append(@, f)]
      BY <1>1 DEF PublishFrom
    <3> HIDE DEF f
    <3> QED
      BY <2>1, <2>2, <3>1 DEF QueueType
  <2>5. subs' \in [Task -> Gen \cup {0}]
    <3>1. subs' = subs \/ subs' = [subs EXCEPT ![f.task] = 0]
      BY <1>1 DEF PublishFrom
    <3> HIDE DEF f
    <3> QED
      BY <2>1, <3>1 DEF QueueType
  <2>6. terminal' \in [Task -> BOOLEAN]
    <3>1. terminal' = [terminal EXCEPT ![f.task] =
                         @ \/ ((CurrentSession(g) /\ subs[f.task] = g) /\ f.kind \in TerminalKinds)]
      BY <1>1 DEF PublishFrom
    <3> HIDE DEF f
    <3> QED
      BY <2>1, <3>1, Zenon DEF QueueType
  <2> QED
    BY <1>1, <2>3, <2>4, <2>5, <2>6 DEF PublishFrom, adminVars, SessionType, QueueType
<1>2. CASE AcceptTask(g)
  <2> DEFINE t == Head(down[g]).task
  <2>1. t \in Task /\ Tail(down[g]) \in Seq(DownFrame)
    BY <1>2, ElemsTail, FrameTask DEF AcceptTask, QueueType
  <2>2. down' \in [Gen -> Seq(DownFrame)]
    BY <1>2, <2>1 DEF AcceptTask, QueueType
  <2>3. Failed(t, TRUE) \in UpFrame
    BY <2>1, FrameTypes
  <2>4. \/ Say(g, Failed(t, TRUE)) /\ UNCHANGED work
        \/ work' = [work EXCEPT ![t] = [@ EXCEPT !.phase = "queued", !.gen = g]] /\ UNCHANGED up
    BY <1>2, Zenon DEF AcceptTask
  <2> HIDE DEF t
  <2>5. up' \in [Gen -> Seq(UpFrame)] /\ work' \in [Task -> WorkType]
    <3>1. CASE Say(g, Failed(t, TRUE)) /\ UNCHANGED work
      BY <2>3, <3>1, SayType
    <3>2. CASE work' = [work EXCEPT ![t] = [@ EXCEPT !.phase = "queued", !.gen = g]] /\ UNCHANGED up
      <4>1. "queued" \in WorkPhases
        BY DEF WorkPhases, LivePhases
      <4> QED
        BY <2>1, <3>2, <4>1 DEF WorkType, QueueType
    <3> QED
      BY <2>4, <3>1, <3>2
  <2> QED
    BY <1>2, <2>2, <2>5 DEF AcceptTask, runnerOnly, adminVars, SessionType, QueueType
<1>3. CASE CancelTask(g)
  <2> DEFINE t == Head(down[g]).task
  <2>1. t \in Task /\ Tail(down[g]) \in Seq(DownFrame)
    BY <1>3, ElemsTail, FrameTask DEF CancelTask, QueueType
  <2>2. down' \in [Gen -> Seq(DownFrame)]
    BY <1>3, <2>1 DEF CancelTask, QueueType
  <2>3. work' = work \/ work' = [work EXCEPT ![t].cancelled = TRUE]
    BY <1>3 DEF CancelTask
  <2> HIDE DEF t
  <2>4. work' \in [Task -> WorkType]
    BY <2>1, <2>3 DEF WorkType
  <2> QED
    BY <1>3, <2>2, <2>4 DEF CancelTask, runnerOnly, adminVars, SessionType, QueueType
<1> QED
  BY <1>1, <1>2, <1>3

\* A frame of the task that does not allow a retry.
Plain(f, t) == f \in UpFrame /\ f.task = t /\ ~Harmless(f)

LEMMA PlainFrames ==
  ASSUME NEW t \in Task
  PROVE  /\ Plain(Accepted(t), t) /\ Plain(UpstreamStarted(t), t) /\ Plain(Finished(t), t)
         /\ Plain(Failed(t, FALSE), t)
         /\ \A s \in Status : Plain(ResponseStarted(t, s), t)
         /\ \A n \in Nat : Plain(Chunk(t, n), t)
         /\ Failed(t, TRUE).task = t /\ Failed(t, TRUE) \in UpFrame
<1>1. Plain(Accepted(t), t) /\ Plain(UpstreamStarted(t), t) /\ Plain(Finished(t), t)
  BY FrameTypes DEF Plain, Harmless, Accepted, UpstreamStarted, Finished
<1>2. Plain(Failed(t, FALSE), t) /\ Failed(t, TRUE).task = t /\ Failed(t, TRUE) \in UpFrame
  BY FrameTypes DEF Plain, Harmless, Failed
<1>3. \A s \in Status : Plain(ResponseStarted(t, s), t)
  BY FrameTypes DEF Plain, Harmless, ResponseStarted
<1>4. \A n \in Nat : Plain(Chunk(t, n), t)
  BY FrameTypes DEF Plain, Harmless, Chunk
<1> QED
  BY <1>1, <1>2, <1>3, <1>4

\* The phases of a worker that has made no call.
Early == {"queued", "accepted", "started"}

\* A worker says one frame of its task, or makes its call.
WorkerEffect(t) ==
  /\ \A u \in Task \ {t} : work'[u] = work[u]
  /\ work'[t].gen = work[t].gen /\ work'[t].phase # "none"
  /\ \/ /\ work[t].phase = "started" /\ work'[t].phase = "called"
        /\ calls' = [calls EXCEPT ![t[1]] = @ + 1] /\ UNCHANGED up
     \/ /\ UNCHANGED calls
        /\ \E f \in UpFrame : Plain(f, t) /\ Say(work[t].gen, f)
        /\ work'[t].phase \in Early => work[t].phase \in Early
     \/ /\ UNCHANGED calls /\ Say(work[t].gen, Failed(t, TRUE))
        /\ work[t].phase \in Early /\ work'[t].phase = "ended"

\* A step of a worker to another phase.
LEMMA PhaseEffect ==
  ASSUME NEW t \in Task, work \in [Task -> WorkType], NEW to \in WorkPhases,
         work' = [work EXCEPT ![t].phase = to]
  PROVE  /\ work' \in [Task -> WorkType] /\ \A u \in Task \ {t} : work'[u] = work[u]
         /\ work'[t].gen = work[t].gen /\ work'[t].phase = to /\ work'[t].chunks = work[t].chunks
<1>1. \A u \in Task \ {t} : work'[u] = work[u]
  OBVIOUS
<1> QED
  BY <1>1 DEF WorkType

LEMMA SpokenStep ==
  ASSUME NEW t \in Task, work \in [Task -> WorkType], NEW from, NEW to \in WorkPhases, NEW f,
         Plain(f, t), to # "none", to \in Early => from \in Early, Step(t, from, to, f)
  PROVE  WorkerEffect(t) /\ work' \in [Task -> WorkType]
<1>1. work[t].phase = from /\ work' = [work EXCEPT ![t].phase = to] /\ Say(work[t].gen, f)
      /\ UNCHANGED calls
  BY Zenon DEF Step
<1>2. f \in UpFrame
  BY DEF Plain
<1>3. /\ work' \in [Task -> WorkType] /\ \A u \in Task \ {t} : work'[u] = work[u]
      /\ work'[t].gen = work[t].gen /\ work'[t].phase = to
  BY <1>1, PhaseEffect
<1> QED
  BY <1>1, <1>2, <1>3, Zenon DEF WorkerEffect

LEMMA WorkerCases ==
  ASSUME NEW t \in Task, work \in [Task -> WorkType], Worker(t)
  PROVE  WorkerEffect(t) /\ work' \in [Task -> WorkType]
<1>1. /\ {"accepted", "started", "called", "answering", "ended"} \subseteq WorkPhases
      /\ "called" \notin Early /\ "answering" \notin Early /\ "ended" \notin Early
      /\ "queued" \in Early /\ "accepted" \in Early
  BY DEF WorkPhases, LivePhases, Early
<1>2. CASE CallUpstream(t)
  <2>1. /\ work[t].phase = "started" /\ work' = [work EXCEPT ![t].phase = "called"]
        /\ calls' = [calls EXCEPT ![t[1]] = @ + 1] /\ UNCHANGED up
    BY <1>2, Zenon DEF CallUpstream
  <2>2. /\ work' \in [Task -> WorkType] /\ \A u \in Task \ {t} : work'[u] = work[u]
        /\ work'[t].gen = work[t].gen /\ work'[t].phase = "called"
    BY <1>1, <2>1, PhaseEffect
  <2>3. "called" # "none"
    OBVIOUS
  <2> QED
    BY <2>1, <2>2, <2>3, Zenon DEF WorkerEffect
<1>3. CASE UpstreamChunk(t)
  <2>1. /\ work[t].phase = "answering" /\ work' = [work EXCEPT ![t].chunks = @ + 1]
        /\ Say(work[t].gen, Chunk(t, work[t].chunks)) /\ UNCHANGED calls
    BY <1>3, Zenon DEF UpstreamChunk
  <2>2. Plain(Chunk(t, work[t].chunks), t)
    BY PlainFrames DEF WorkType
  <2>3. Chunk(t, work[t].chunks) \in UpFrame
    BY <2>2 DEF Plain
  <2>4. \A u \in Task \ {t} : work'[u] = work[u]
    BY <2>1
  <2>5. /\ work' \in [Task -> WorkType]
        /\ work'[t].gen = work[t].gen /\ work'[t].phase = "answering"
    BY <2>1 DEF WorkType
  <2>6. "answering" # "none"
    OBVIOUS
  <2> QED
    BY <1>1, <2>1, <2>2, <2>3, <2>4, <2>5, <2>6, Zenon DEF WorkerEffect
<1>4. CASE WorkerStopped(t)
  <2>1. /\ work' = [work EXCEPT ![t].phase = "ended"]
        /\ Say(work[t].gen, Failed(t, FALSE)) /\ UNCHANGED calls
    BY <1>4, Zenon DEF WorkerStopped
  <2>2. /\ work' \in [Task -> WorkType] /\ \A u \in Task \ {t} : work'[u] = work[u]
        /\ work'[t].gen = work[t].gen /\ work'[t].phase = "ended"
    BY <1>1, <2>1, PhaseEffect
  <2>3. Plain(Failed(t, FALSE), t) /\ Failed(t, FALSE) \in UpFrame /\ "ended" # "none"
    BY PlainFrames DEF Plain
  <2> QED
    BY <1>1, <2>1, <2>2, <2>3, Zenon DEF WorkerEffect
<1>5. CASE AnnounceAccepted(t)
  BY <1>1, <1>5, SpokenStep, PlainFrames DEF AnnounceAccepted
<1>6. CASE AnnounceUpstream(t)
  BY <1>1, <1>6, SpokenStep, PlainFrames DEF AnnounceUpstream
<1>7. CASE FailBeforeUpstream(t)
  <2>1. /\ work[t].phase \in Early /\ work' = [work EXCEPT ![t].phase = "ended"]
        /\ Say(work[t].gen, Failed(t, TRUE)) /\ UNCHANGED calls
    BY <1>1, <1>7, Zenon DEF FailBeforeUpstream, Step
  <2>2. /\ work' \in [Task -> WorkType] /\ \A u \in Task \ {t} : work'[u] = work[u]
        /\ work'[t].gen = work[t].gen /\ work'[t].phase = "ended"
    BY <1>1, <2>1, PhaseEffect
  <2>3. "ended" # "none"
    OBVIOUS
  <2> QED
    BY <2>1, <2>2, <2>3, Zenon DEF WorkerEffect
<1>8. CASE UpstreamAnswers(t)
  <2>1. PICK s \in Status : Step(t, "called", "answering", ResponseStarted(t, s))
    BY <1>8 DEF UpstreamAnswers
  <2>2. Plain(ResponseStarted(t, s), t)
    BY PlainFrames
  <2> QED
    BY <1>1, <2>1, <2>2, SpokenStep
<1>9. CASE UpstreamFails(t)
  BY <1>1, <1>9, SpokenStep, PlainFrames DEF UpstreamFails
<1>10. CASE UpstreamFinishes(t)
  BY <1>1, <1>10, SpokenStep, PlainFrames DEF UpstreamFinishes
<1> QED
  BY <1>2, <1>3, <1>4, <1>5, <1>6, <1>7, <1>8, <1>9, <1>10 DEF Worker

\* Only a worker that runs takes steps, and it leaves the control backend alone.
LEMMA WorkerFrame ==
  ASSUME NEW t \in Task, Worker(t)
  PROVE  Live(t) /\ UNCHANGED <<runnerOnly, down>>
<1>1. CASE CallUpstream(t) \/ UpstreamChunk(t) \/ WorkerStopped(t)
  BY <1>1 DEF CallUpstream, UpstreamChunk, WorkerStopped, Live, LivePhases
<1>2. CASE ~(CallUpstream(t) \/ UpstreamChunk(t) \/ WorkerStopped(t))
  <2>1. \E from \in LivePhases : \E to, f : Step(t, from, to, f)
    BY <1>2, Zenon DEF Worker, AnnounceAccepted, AnnounceUpstream, FailBeforeUpstream,
       UpstreamAnswers, UpstreamFails, UpstreamFinishes, LivePhases
  <2> QED
    BY <2>1, Zenon DEF Step, Live
<1> QED
  BY <1>1, <1>2

LEMMA WorkerTypes ==
  ASSUME DispatchInv, NEW t \in Task, Worker(t)
  PROVE  DispatchTypeOK'
<1>1. DispatchTypeOK /\ FrameInv(t)
  BY DEF DispatchInv
<1>2. WorkerEffect(t) /\ work' \in [Task -> WorkType]
  BY <1>1, WorkerCases DEF DispatchTypeOK
<1>3. Live(t) /\ UNCHANGED <<runnerOnly, down>>
  BY WorkerFrame
<1>4. work[t].gen \in Gen
  BY <1>1, <1>3 DEF FrameInv, Live, LivePhases
<1>5. up' \in [Gen -> Seq(UpFrame)] /\ calls' \in [Request -> Nat]
  <2>1. t[1] \in Request
    BY DEF Task
  <2>2. CASE UNCHANGED up /\ calls' = [calls EXCEPT ![t[1]] = @ + 1]
    BY <1>1, <2>1, <2>2 DEF DispatchTypeOK, QueueType
  <2>3. ASSUME NEW f \in UpFrame, UNCHANGED calls, Say(work[t].gen, f)
        PROVE  up' \in [Gen -> Seq(UpFrame)] /\ calls' \in [Request -> Nat]
    BY <1>1, <1>4, <2>3, SayType DEF DispatchTypeOK
  <2>4. Failed(t, TRUE) \in UpFrame
    BY PlainFrames
  <2> QED
    BY <1>2, <2>2, <2>3, <2>4 DEF WorkerEffect
<1> QED
  BY <1>1, <1>2, <1>3, <1>5 DEF DispatchTypeOK, runnerOnly, adminVars, SessionType, QueueType

\* The fields a handler sets when it takes a frame.
LEMMA HandlerFields ==
  ASSUME NEW h \in HandlerType
  PROVE  /\ [h EXCEPT !.accepted = TRUE] \in HandlerType
         /\ [h EXCEPT !.started = TRUE] \in HandlerType
         /\ [h EXCEPT !.chunks = @ + 1] \in HandlerType
         /\ \A p \in Phases, s \in Status : [h EXCEPT !.phase = p, !.status = s] \in HandlerType
<1>1. [h EXCEPT !.accepted = TRUE] \in HandlerType
  BY DEF HandlerType
<1>2. [h EXCEPT !.started = TRUE] \in HandlerType
  BY DEF HandlerType
<1>3. [h EXCEPT !.chunks = @ + 1] \in HandlerType
  BY DEF HandlerType
<1>4. \A p \in Phases, s \in Status : [h EXCEPT !.phase = p, !.status = s] \in HandlerType
  BY DEF HandlerType
<1> QED
  BY <1>1, <1>2, <1>3, <1>4

\* A handler that has chosen a runner has a session.
LEMMA ReceiveTypes ==
  ASSUME DispatchInv, NEW q \in Request, Receive(q)
  PROVE  DispatchTypeOK'
<1> DEFINE t == TaskOf(q)
<1> DEFINE f == Head(events[t])
<1>1. DispatchTypeOK /\ Chosen(q) /\ req \in [Request -> HandlerType]
  BY DEF DispatchInv, DispatchTypeOK
<1>2. req[q].phase \in ListeningPhases /\ events[t] # << >> /\ EventsLeft(q)
      /\ UNCHANGED <<connections, owner, controlEnd, runnerEnd, up, subs, terminal, adminVars, work, calls>>
  BY Zenon DEF Receive
<1>3. req[q].gen \in Gen
  BY <1>1, <1>2 DEF Chosen, ListeningPhases
<1>4. events' \in [Task -> Seq(UpFrame)]
  BY <1>1, <1>2, EventsLeftEffect
<1>5. t \in Task /\ req[q].status \in Status /\ req[q].runner \in RemoteRunner \cup {NoRemote}
  BY <1>1, RunnerTyped
<1>6. f \in UpFrame
  BY <1>1, <1>2, <1>5, ElemsTail DEF DispatchTypeOK, QueueType
<1>7. {"before", "unknown"} \subseteq Results /\ Status \subseteq Results
  BY DEF Results
<1>8. down \in [Gen -> Seq(DownFrame)]
  BY <1>1 DEF DispatchTypeOK, QueueType
<1> HIDE DEF f, t
<1>9. req' \in [Request -> HandlerType] /\ down' \in [Gen -> Seq(DownFrame)]
  <2>1. CASE req' \in {[req EXCEPT ![q].accepted = TRUE], [req EXCEPT ![q].started = TRUE]}
             /\ UNCHANGED down
    <3>1. req' \in [Request -> HandlerType]
      BY <1>1, <2>1, HandlerFields, ZenonT(60)
    <3> QED
      BY <1>8, <2>1, <3>1
  <2>2. CASE /\ f.kind = "response"
             /\ \E phase \in AnswerPhase(q, f.status) :
                  req' = [req EXCEPT ![q] = [@ EXCEPT !.phase = phase, !.status = f.status]]
             /\ UNCHANGED down
    <3>1. PICK phase \in AnswerPhase(q, f.status) :
            req' = [req EXCEPT ![q] = [@ EXCEPT !.phase = phase, !.status = f.status]]
      BY <2>2
    <3>2. f.status \in Status
      BY <1>6, <2>2 DEF UpFrame
    <3>3. phase \in Phases
      BY <3>1 DEF AnswerPhase, Phases, ListeningPhases
    <3>4. [req[q] EXCEPT !.phase = phase, !.status = f.status] \in HandlerType
      BY <1>1, <3>2, <3>3, HandlerFields
    <3>5. req' \in [Request -> HandlerType]
      BY <1>1, <3>1, <3>4
    <3> QED
      BY <1>8, <2>2, <3>5
  <2>3. CASE Again(q, {req[q].runner}) /\ UNCHANGED down
    <3>1. {req[q].runner} \in SUBSET (RemoteRunner \cup {NoRemote})
      BY <1>5
    <3> QED
      BY <1>1, <1>8, <2>3, <3>1, AgainType
  <2>4. CASE req' = [req EXCEPT ![q].chunks = @ + 1] /\ UNCHANGED down
    <3>1. req' \in [Request -> HandlerType]
      BY <1>1, <2>4, HandlerFields
    <3> QED
      BY <1>8, <2>4, <3>1
  <2>5. CASE \E x \in Results : End(q, x) /\ (DropHandle(q) \/ UNCHANGED down)
    <3>1. req' \in [Request -> HandlerType]
      BY <1>1, <2>5, EndType
    <3> QED
      BY <1>1, <1>3, <1>8, <2>5, <3>1, DropHandleEffect
  <2> QED
    BY <1>5, <1>7, <2>1, <2>2, <2>3, <2>4, <2>5, ReceiveCases, Zenon DEF f, t
<1> QED
  BY <1>1, <1>2, <1>4, <1>9 DEF DispatchTypeOK, SessionType, QueueType, adminVars

LEMMA HandlerTypes ==
  ASSUME DispatchInv, NEW q \in Request, RequestSteps(q)
  PROVE  DispatchTypeOK'
<1>1. DispatchTypeOK /\ Chosen(q) /\ req \in [Request -> HandlerType]
  BY DEF DispatchInv, DispatchTypeOK
<1>2. req[q].status \in Status /\ req[q].runner \in RemoteRunner \cup {NoRemote} /\ TaskOf(q) \in Task
  BY <1>1, RunnerTyped
<1>3. {"before", "unknown"} \subseteq Results
  BY DEF Results
<1>4. ASSUME req' \in [Request -> HandlerType], UNCHANGED <<handlerOnly, down, subs>>
      PROVE  DispatchTypeOK'
  BY <1>1, <1>4 DEF handlerOnly, adminVars, DispatchTypeOK, SessionType, QueueType
<1>5. CASE AuthorizationRefused(q)
  BY <1>1, <1>3, <1>4, <1>5, EndType DEF AuthorizationRefused
<1>6. CASE SelectRunner(q)
  <2>1. CASE Again(q, {})
    BY <1>1, <1>4, <1>6, <2>1, AgainType DEF SelectRunner
  <2>2. ASSUME NEW r \in ReadyRunners(q),
               req' = [req EXCEPT ![q] = [@ EXCEPT !.phase = "reserving", !.runner = r,
                                                   !.gen = connections[r]]]
        PROVE  DispatchTypeOK'
    <3>1. r \in RemoteRunner /\ connections[r] \in Gen \cup {0} /\ "reserving" \in Phases
      BY <1>1 DEF ReadyRunners, DispatchTypeOK, SessionType, Phases
    <3>2. req' \in [Request -> HandlerType]
      BY <1>1, <2>2, <3>1, ZenonT(60) DEF HandlerType
    <3> QED
      BY <1>4, <1>6, <3>2 DEF SelectRunner
  <2> QED
    BY <1>6, <2>1, <2>2 DEF SelectRunner
<1>7. ASSUME NEW x \in SUBSET {req[q].runner}, Again(q, x) PROVE req' \in [Request -> HandlerType]
  BY <1>1, <1>2, <1>7, AgainType
<1>8. CASE QueuePlace(q)
  <2>1. CASE req' = [req EXCEPT ![q].phase = "reserved"]
    <3>1. "reserved" \in Phases
      BY DEF Phases
    <3>2. req' \in [Request -> HandlerType]
      BY <1>1, <2>1, <3>1 DEF HandlerType
    <3> QED
      BY <1>4, <1>8, <3>2 DEF QueuePlace
  <2>2. CASE Again(q, IF Reconnected(req[q].runner, req[q].gen) THEN {} ELSE {req[q].runner})
    <3>1. req' \in [Request -> HandlerType]
      BY <1>7, <2>2
    <3> QED
      BY <1>4, <1>8, <3>1 DEF QueuePlace
  <2> QED
    BY <1>8, <2>1, <2>2, Zenon DEF QueuePlace
<1>9. CASE DispatchReserved(q)
  <2>1. CASE Stays(q)
    <3>1. /\ subs' = [subs EXCEPT ![TaskOf(q)] = req[q].gen]
          /\ Enqueue(req[q].gen, TaskFrame(TaskOf(q)))
          /\ req' = [req EXCEPT ![q].phase = "waiting"]
          /\ req[q].phase = "reserved" /\ UNCHANGED handlerOnly
      BY <1>9, <2>1, Zenon DEF DispatchReserved
    <3>2. req[q].gen \in Gen
      BY <1>1, <3>1 DEF Chosen
    <3>3. down' \in [Gen -> Seq(DownFrame)]
      BY <1>1, <1>2, <3>1, <3>2, EnqueueType, FrameTypes DEF DispatchTypeOK
    <3>4. "waiting" \in Phases
      BY DEF Phases, ListeningPhases
    <3>5. req' \in [Request -> HandlerType]
      BY <1>1, <3>1, <3>4 DEF HandlerType
    <3>6. subs' \in [Task -> Gen \cup {0}]
      BY <1>1, <1>2, <3>1, <3>2 DEF DispatchTypeOK, QueueType
    <3> QED
      BY <1>1, <3>1, <3>3, <3>5, <3>6 DEF handlerOnly, adminVars, DispatchTypeOK, SessionType, QueueType
  <2>2. CASE ~Stays(q)
    <3>1. /\ Again(q, IF req[q].runner \in enabled /\ Reconnected(req[q].runner, req[q].gen)
                      THEN {} ELSE {req[q].runner})
          /\ UNCHANGED <<handlerOnly, down, subs>>
      BY <1>9, <2>2, Zenon DEF DispatchReserved
    <3>2. req' \in [Request -> HandlerType]
      BY <1>7, <3>1
    <3> QED
      BY <1>4, <3>1, <3>2
  <2> QED
    BY <2>1, <2>2
<1>10. CASE Receive(q)
  BY <1>10, ReceiveTypes
<1>11. CASE StreamEnds(q)
  <2>1. \E x \in {"before", "unknown"} : End(q, x)
    BY <1>11, Zenon DEF StreamEnds, Abort
  <2>2. req' \in [Request -> HandlerType]
    BY <1>1, <1>3, <2>1, EndType
  <2>3. DropHandle(q) /\ EventsLeft(q) /\ req[q].phase \in ListeningPhases
        /\ UNCHANGED <<connections, owner, controlEnd, runnerEnd, up, subs, terminal, adminVars, work, calls>>
    BY <1>11, Zenon DEF StreamEnds, Abort
  <2>4. req[q].gen \in Gen
    BY <1>1, <2>3 DEF Chosen, ListeningPhases
  <2>5. down' \in [Gen -> Seq(DownFrame)] /\ events' \in [Task -> Seq(UpFrame)]
    BY <1>1, <2>3, <2>4, DropHandleEffect, EventsLeftEffect
  <2> QED
    BY <1>1, <2>2, <2>3, <2>5 DEF DispatchTypeOK, SessionType, QueueType, adminVars
<1> QED
  BY <1>5, <1>6, <1>8, <1>9, <1>10, <1>11 DEF RequestSteps

-----------------------------------------------------------------------------
(***************************************************************************)
(* Sessions.                                                               *)
(***************************************************************************)

\* A dispatch finds its session registered; the end of a session removes what
\* was dispatched on it.
LEMMA SessionStep ==
  ASSUME DispatchInv, DispatchNext
  PROVE  SessionInv'
<1>1. /\ DispatchTypeOK /\ SessionInv /\ SessionType
      /\ subs \in [Task -> Gen \cup {0}]
      /\ req \in [Request -> HandlerType]
      /\ \A q \in Request : Chosen(q)
  BY DEF DispatchInv, DispatchTypeOK, QueueType
<1>2. NoRemote \notin RemoteRunner /\ 0 \notin Gen
  BY DispatchAssumption DEF Gen
<1>3. ASSUME UNCHANGED <<connections, owner, controlEnd, subs>> PROVE SessionInv'
  BY <1>1, <1>3 DEF SessionInv, NoOrphanSubscription
<1>4. ASSUME NEW r \in RemoteRunner, Connect(r) PROVE SessionInv'
  <2>1. PICK g \in Gen :
          /\ owner[g] = NoRemote
          /\ owner' = [owner EXCEPT ![g] = r]
          /\ connections' = [connections EXCEPT ![r] = g]
          /\ controlEnd' = [controlEnd EXCEPT ![g] = "open"]
          /\ UNCHANGED subs
    BY <1>4 DEF Connect
  <2>2. ASSUME NEW p \in RemoteRunner, connections'[p] # 0
        PROVE  owner'[connections'[p]] = p /\ controlEnd'[connections'[p]] \in {"open", "leaving"}
    <3>1. CASE p = r
      BY <1>1, <2>1, <3>1 DEF SessionType
    <3>2. CASE p # r
      <4>1. connections'[p] = connections[p] /\ connections[p] \in Gen
        BY <1>1, <2>1, <2>2, <3>2 DEF SessionType
      <4>2. owner[connections[p]] = p /\ controlEnd[connections[p]] \in {"open", "leaving"}
        BY <1>1, <2>2, <4>1 DEF SessionInv
      <4>3. connections[p] # g
        BY <1>2, <2>1, <4>2
      <4> QED
        BY <1>1, <2>1, <4>1, <4>2, <4>3 DEF SessionType
    <3> QED
      BY <3>1, <3>2
  <2>3. \A h \in Gen : owner'[h] = NoRemote => controlEnd'[h] = "none"
    BY <1>1, <1>2, <2>1 DEF SessionType, SessionInv
  <2>4. \A t \in Task : subs'[t] # 0 => controlEnd'[subs'[t]] # "closed"
    BY <1>1, <2>1 DEF SessionType, SessionInv, NoOrphanSubscription
  <2> QED
    BY <2>2, <2>3, <2>4 DEF SessionInv, NoOrphanSubscription
<1>5. ASSUME NEW r \in RemoteRunner, Disconnect(r) PROVE SessionInv'
  BY <1>1, <1>5 DEF Disconnect, SessionInv, SessionType, NoOrphanSubscription
<1>6. ASSUME NEW g \in Gen, ControlBreaks(g) PROVE SessionInv'
  BY <1>1, <1>6 DEF ControlBreaks, SessionInv, SessionType, NoOrphanSubscription
<1>7. ASSUME NEW g \in Gen, Unregister(g) PROVE SessionInv'
  <2>1. /\ controlEnd[g] = "leaving" /\ UNCHANGED owner
        /\ controlEnd' = [controlEnd EXCEPT ![g] = "closed"]
        /\ subs' = [t \in Task |-> IF subs[t] = g THEN 0 ELSE subs[t]]
    BY <1>7 DEF Unregister
  <2>2. owner[g] \in RemoteRunner
    BY <1>1, <2>1 DEF SessionInv, SessionType
  <2>3. \A p \in RemoteRunner : connections'[p] # 0 =>
          connections'[p] = connections[p] /\ connections[p] # g
    <3>1. CASE connections[owner[g]] = g
      <4>1. connections' = [connections EXCEPT ![owner[g]] = 0]
        BY <1>7, <3>1 DEF Unregister, CurrentSession
      <4> QED
        BY <1>1, <1>2, <2>2, <4>1 DEF SessionInv, SessionType
    <3>2. CASE connections[owner[g]] # g
      <4>1. connections' = connections
        BY <1>7, <3>2 DEF Unregister, CurrentSession
      <4> QED
        BY <1>1, <3>2, <4>1 DEF SessionInv, SessionType
    <3> QED
      BY <3>1, <3>2
  <2>4. \A p \in RemoteRunner : connections'[p] # 0 =>
          owner'[connections'[p]] = p /\ controlEnd'[connections'[p]] \in {"open", "leaving"}
    BY <1>1, <2>1, <2>3 DEF SessionInv, SessionType
  <2>5. \A h \in Gen : owner'[h] = NoRemote => controlEnd'[h] = "none"
    BY <1>1, <1>2, <2>1, <2>2 DEF SessionType, SessionInv
  <2>6. \A t \in Task : subs'[t] # 0 => controlEnd'[subs'[t]] # "closed"
    BY <1>1, <2>1 DEF SessionType, SessionInv, NoOrphanSubscription
  <2> QED
    BY <2>4, <2>5, <2>6 DEF SessionInv, NoOrphanSubscription
<1>8. ASSUME NEW g \in Gen, PublishFrom(g) PROVE SessionInv'
  <2>1. UNCHANGED <<connections, owner, controlEnd>>
        /\ (subs' = subs \/ subs' = [subs EXCEPT ![Head(up[g]).task] = 0])
    BY <1>8 DEF PublishFrom
  <2>2. \A t \in Task : subs'[t] = subs[t] \/ subs'[t] = 0
    BY <1>1, <2>1
  <2> QED
    BY <1>1, <2>1, <2>2 DEF SessionInv, NoOrphanSubscription
<1>9. ASSUME NEW q \in Request, DispatchReserved(q), Stays(q) PROVE SessionInv'
  <2>1. /\ subs' = [subs EXCEPT ![TaskOf(q)] = req[q].gen] /\ req[q].phase = "reserved"
        /\ connections[owner[req[q].gen]] = req[q].gen
        /\ UNCHANGED <<connections, owner, controlEnd>>
    BY <1>9, Zenon DEF DispatchReserved, Stays, CurrentSession, handlerOnly
  <2>2. req[q].gen \in Gen /\ owner[req[q].gen] \in RemoteRunner
    BY <1>1, <2>1 DEF Chosen, SessionType
  <2>3. controlEnd[req[q].gen] # "closed"
    BY <1>1, <1>2, <2>1, <2>2 DEF SessionInv
  <2>4. \A t \in Task : subs'[t] = subs[t] \/ subs'[t] = req[q].gen
    BY <1>1, <2>1
  <2> QED
    BY <1>1, <2>1, <2>3, <2>4 DEF SessionInv, NoOrphanSubscription
<1>10. ASSUME NEW q \in Request, DispatchReserved(q), ~Stays(q) PROVE SessionInv'
  <2>1. UNCHANGED <<connections, owner, controlEnd, subs>>
    BY <1>10, Zenon DEF DispatchReserved, handlerOnly
  <2> QED
    BY <1>3, <2>1
<1>11. ASSUME NEW q \in Request,
              \/ AuthorizationRefused(q) \/ SelectRunner(q) \/ QueuePlace(q)
              \/ Receive(q) \/ StreamEnds(q)
       PROVE  SessionInv'
  <2>1. UNCHANGED <<connections, owner, controlEnd, subs>>
    BY <1>11, Zenon DEF AuthorizationRefused, SelectRunner, QueuePlace, Receive, StreamEnds, handlerOnly
  <2> QED
    BY <1>3, <2>1
<1>12. ASSUME NEW r \in RemoteRunner, Disable(r) PROVE SessionInv'
  BY <1>3, <1>12 DEF Disable, hubVars
<1>13. ASSUME NEW g \in Gen, RunnerDrops(g) \/ AcceptTask(g) \/ CancelTask(g) PROVE SessionInv'
  BY <1>3, <1>13 DEF RunnerDrops, AcceptTask, CancelTask, runnerOnly
<1>14. ASSUME NEW t \in Task, Worker(t) PROVE SessionInv'
  BY <1>3, <1>14, WorkerFrame DEF runnerOnly
<1> QED
  BY <1>4, <1>5, <1>6, <1>7, <1>8, <1>9, <1>10, <1>11, <1>12, <1>13, <1>14
  DEF DispatchNext, Session, RequestSteps

\* Nobody takes a session back.
LEMMA OwnerKept ==
  ASSUME DispatchInv, DispatchNext
  PROVE  \A g \in Gen : owner[g] # NoRemote => owner'[g] = owner[g]
<1>1. owner \in [Gen -> RemoteRunner \cup {NoRemote}]
  BY DEF DispatchInv, DispatchTypeOK, SessionType
<1>2. ASSUME NEW r \in RemoteRunner, Connect(r)
      PROVE  \A g \in Gen : owner[g] # NoRemote => owner'[g] = owner[g]
  BY <1>1, <1>2 DEF Connect
<1>3. CASE ~\E r \in RemoteRunner : Connect(r)
  <2>1. UNCHANGED owner
    <3>1. ASSUME NEW r \in RemoteRunner, Disable(r) \/ Disconnect(r) PROVE UNCHANGED owner
      BY <3>1 DEF Disable, Disconnect, hubVars
    <3>2. ASSUME NEW g \in Gen, Session(g) PROVE UNCHANGED owner
      BY <3>2 DEF Session, RunnerDrops, ControlBreaks, Unregister, PublishFrom, AcceptTask, CancelTask,
         runnerOnly
    <3>3. ASSUME NEW q \in Request, RequestSteps(q) PROVE UNCHANGED owner
      BY <3>3, Zenon DEF RequestSteps, AuthorizationRefused, SelectRunner, QueuePlace, DispatchReserved, Receive,
         StreamEnds, handlerOnly
    <3>4. ASSUME NEW t \in Task, Worker(t) PROVE UNCHANGED owner
      BY <3>4, WorkerFrame DEF runnerOnly
    <3> QED
      BY <1>3, <3>1, <3>2, <3>3, <3>4 DEF DispatchNext
  <2> QED
    BY <2>1
<1> QED
  BY <1>2, <1>3

-----------------------------------------------------------------------------
(***************************************************************************)
(* Tasks.                                                                  *)
(***************************************************************************)

\* What a receipt and a send do to the one frame of a task.
LEMMA OneTail ==
  ASSUME NEW S, NEW s \in Seq(S), s # << >>, NEW t, OneFrame(s, t)
  PROVE  /\ OneFrame(Tail(s), t)
         /\ IsTask(Head(s), t) => \A f \in Elems(Tail(s)) : ~IsTask(f, t)
<1>1. DOMAIN s = 1 .. Len(s) /\ Len(s) \in Nat \ {0} /\ Head(s) = s[1]
  OBVIOUS
<1>2. DOMAIN Tail(s) = 1 .. Len(s) - 1 /\ \A i \in 1 .. Len(s) - 1 : Tail(s)[i] = s[i + 1]
  BY <1>1
<1>3. \A i \in 1 .. Len(s) - 1 : i + 1 \in DOMAIN s /\ i + 1 # 1 /\ 1 \in DOMAIN s
  BY <1>1
<1>4. OneFrame(Tail(s), t)
  <2>1. ASSUME NEW i \in DOMAIN Tail(s), NEW j \in DOMAIN Tail(s),
               IsTask(Tail(s)[i], t), IsTask(Tail(s)[j], t)
        PROVE  i = j
    <3>1. IsTask(s[i + 1], t) /\ IsTask(s[j + 1], t) /\ i + 1 \in DOMAIN s /\ j + 1 \in DOMAIN s
      BY <1>2, <1>3, <2>1
    <3>2. i + 1 = j + 1
      BY <3>1 DEF OneFrame
    <3> QED
      BY <1>1, <1>2, <3>2
  <2> QED
    BY <2>1 DEF OneFrame
<1>5. IsTask(Head(s), t) => \A f \in Elems(Tail(s)) : ~IsTask(f, t)
  BY <1>1, <1>2, <1>3 DEF Elems, OneFrame
<1> QED
  BY <1>4, <1>5

LEMMA OneAppend ==
  ASSUME NEW S, NEW s \in Seq(S), NEW e \in S, NEW t, OneFrame(s, t),
         ~IsTask(e, t) \/ \A f \in Elems(s) : ~IsTask(f, t)
  PROVE  OneFrame(Append(s, e), t)
<1>1. DOMAIN Append(s, e) = 1 .. Len(s) + 1 /\ DOMAIN s = 1 .. Len(s) /\ Len(s) \in Nat
  OBVIOUS
<1>2. \A i \in 1 .. Len(s) : Append(s, e)[i] = s[i]
  OBVIOUS
<1>3. Append(s, e)[Len(s) + 1] = e
  OBVIOUS
<1>4. \A i \in 1 .. Len(s) + 1 : i \in 1 .. Len(s) \/ i = Len(s) + 1
  BY <1>1
<1>5. ASSUME NEW i \in DOMAIN Append(s, e), NEW j \in DOMAIN Append(s, e),
             IsTask(Append(s, e)[i], t), IsTask(Append(s, e)[j], t)
      PROVE  i = j
  <2>1. CASE ~IsTask(e, t)
    BY <1>1, <1>2, <1>3, <1>4, <1>5, <2>1 DEF OneFrame
  <2>2. CASE \A f \in Elems(s) : ~IsTask(f, t)
    <3>1. \A k \in 1 .. Len(s) : ~IsTask(s[k], t)
      BY <1>1, <2>2 DEF Elems
    <3> QED
      BY <1>1, <1>2, <1>4, <1>5, <3>1
  <2> QED
    BY <2>1, <2>2
<1> QED
  BY <1>5 DEF OneFrame

\* A step that takes nothing of task u further: frames are lost or moved on,
\* a worker is at most aborted.
Calm(u) ==
  /\ \A g \in Gen : WaitsAt(g, u)' => WaitsAt(g, u)
  /\ \A g \in Gen : OneFrame(down[g], u) => OneFrame(down'[g], u)
  /\ work'[u].gen = work[u].gen
  /\ work'[u].phase = work[u].phase \/ (Live(u) /\ work'[u].phase = "aborted")
  /\ \A g \in Gen : \A f \in Elems(up'[g]) : f.task = u => f \in Elems(up[g])
  /\ \A f \in Elems(events'[u]) :
       f \in Elems(events[u]) \/ (f.task = u /\ \E g \in Gen : f \in Elems(up[g]))

LEMMA CalmTask ==
  ASSUME NEW u \in Task, Calm(u), FrameInv(u)
  PROVE  FrameInv(u)' /\ (Over(u) => Over(u)') /\ (Untouched(u) => Untouched(u)')
<1>1. Waits(u)' => Waits(u)
  BY DEF Calm, Waits
<1>2. Live(u)' => Live(u)
  <2>1. "aborted" \notin LivePhases
    BY DEF LivePhases
  <2> QED
    BY <2>1 DEF Calm, Live
<1>3. work'[u].phase # "none" => work[u].phase # "none"
  BY DEF Calm, Live, LivePhases
<1>4. work[u].phase = "none" => work'[u].phase = "none"
  BY DEF Calm, Live, LivePhases
<1>5. FrameInv(u)'
  BY <1>1, <1>3, <1>4 DEF FrameInv, OneFrame, Calm
<1>6. Over(u) => Over(u)'
  BY <1>1, <1>2 DEF Over
<1>7. Untouched(u) => Untouched(u)'
  BY <1>1, <1>4 DEF Untouched, Calm
<1> QED
  BY <1>5, <1>6, <1>7

\* Its frames stay true as long as no call is made for it.
LEMMA CalmTruth ==
  ASSUME NEW u \in Task, Calm(u), FrameInv(u), FrameTruth(u),
         (u = TaskOf(u[1]) => calls[u[1]] = 0)
           => (u = TaskOf(u[1]) => calls[u[1]] = 0)'
  PROVE  FrameTruth(u)'
<1>1. Over(u) => Over(u)'
  BY CalmTask
<1>2. CertainlyNone(u) => CertainlyNone(u)'
  BY <1>1 DEF CertainlyNone, Over, Live, LivePhases, Calm
<1> QED
  BY <1>2 DEF FrameTruth, Calm

LEMMA UntouchedTruth == ASSUME NEW u \in Task, Untouched(u) PROVE FrameTruth(u)
  BY DEF Untouched, FrameTruth

\* A task that can still make a call is the current one of its request.
LEMMA AliveTask ==
  ASSUME DispatchInv, NEW t \in Task, ~Over(t)
  PROVE  /\ t[1] \in Request /\ t = TaskOf(t[1]) /\ ~Undispatched(t[1])
         /\ ~(req[t[1]].result = "before" /\ req[t[1]].status = "ok")
         /\ \A g \in Gen : \A f \in Elems(up[g]) : f.task = t => ~Harmless(f)
         /\ \A f \in Elems(events[t]) : ~Harmless(f)
<1>1. PICK q \in Request, a \in Attempt : t = <<q, a>>
  BY DEF Task
<1>2. t[1] = q /\ req[q].attempt \in Attempt
  BY <1>1, RunnerTyped DEF DispatchInv, DispatchTypeOK
<1>3. AttemptInv(q) /\ ResultInv(q) /\ FrameTruth(t)
  BY DEF DispatchInv
<1>4. ~Untouched(<<q, a>>) /\ ~Over(<<q, a>>)
  BY <1>1 DEF Untouched, Over, Live, LivePhases
<1>5. ~(a < req[q].attempt) /\ ~(a > req[q].attempt) /\ ~(a = req[q].attempt /\ Undispatched(q))
  BY <1>3, <1>4 DEF AttemptInv
<1>6. a = req[q].attempt
  BY <1>2, <1>5 DEF Attempt
<1>7. ~(req[q].result = "before" /\ req[q].status = "ok")
  BY <1>3, <1>4 DEF ResultInv
<1>8. ~CertainlyNone(t)
  BY DEF CertainlyNone
<1> QED
  BY <1>1, <1>2, <1>3, <1>5, <1>6, <1>7, <1>8 DEF TaskOf, FrameTruth

\* What the invariant says of tasks and requests, without types and sessions.
TaskInv ==
  /\ \A t \in Task : FrameInv(t) /\ FrameTruth(t)
  /\ \A q \in Request : AttemptInv(q) /\ ResultInv(q)

\* A step that is calm for every task and moves no handler.
LEMMA QuietStep ==
  ASSUME DispatchInv, \A u \in Task : Calm(u), UNCHANGED <<req, calls>>
  PROVE  TaskInv'
<1>1. ASSUME NEW u \in Task PROVE FrameInv(u)' /\ FrameTruth(u)'
  <2>1. (u = TaskOf(u[1]) => calls[u[1]] = 0) => (u = TaskOf(u[1]) => calls[u[1]] = 0)'
    BY DEF TaskOf
  <2> QED
    BY <2>1, CalmTask, CalmTruth DEF DispatchInv
<1>2. ASSUME NEW q \in Request PROVE AttemptInv(q)' /\ ResultInv(q)'
  <2>1. AttemptInv(q) /\ ResultInv(q)
    BY DEF DispatchInv
  <2>2. \A a \in Attempt : <<q, a>> \in Task
    BY DEF Task
  <2>3. \A a \in Attempt : /\ Over(<<q, a>>) => Over(<<q, a>>)'
                           /\ Untouched(<<q, a>>) => Untouched(<<q, a>>)'
    BY <2>2, CalmTask DEF DispatchInv
  <2>4. TaskOf(q) \in Task
    BY RunnerTyped DEF DispatchInv, DispatchTypeOK
  <2>5. work'[TaskOf(q)].phase \in {"none", "queued", "accepted", "started"}
          => work[TaskOf(q)].phase \in {"none", "queued", "accepted", "started"}
    BY <2>4 DEF Calm
  <2>6. TaskOf(q)' = TaskOf(q) /\ (Undispatched(q)' <=> Undispatched(q))
    BY DEF TaskOf, Undispatched
  <2>7. AttemptInv(q)'
    BY <2>1, <2>3, <2>5, <2>6 DEF AttemptInv
  <2>8. ResultInv(q)'
    BY <2>1, <2>3 DEF ResultInv
  <2> QED
    BY <2>7, <2>8
<1> QED
  BY <1>1, <1>2 DEF TaskInv

\* A step of a handler that dispatches nothing: it stays in its attempt, or
\* leaves one that certainly made no call.
LEMMA HandlerStep ==
  ASSUME DispatchInv, NEW q \in Request, \A u \in Task : Calm(u), UNCHANGED <<work, calls>>,
         \A p \in Request \ {q} : req'[p] = req[p], ResultInv(q)',
         \/ req'[q].attempt = req[q].attempt /\ (Undispatched(q)' => Undispatched(q))
         \/ /\ Over(TaskOf(q)) /\ calls[q] = 0
            /\ req[q].attempt = 1 /\ req'[q].attempt = 2
  PROVE  TaskInv'
<1>1. \A p \in Request \ {q} : TaskOf(p)' = TaskOf(p) /\ (Undispatched(p)' <=> Undispatched(p))
  BY DEF TaskOf, Undispatched
<1>2. \A u \in Task : FrameInv(u) /\ FrameTruth(u) /\ FrameInv(u)'
  BY CalmTask DEF DispatchInv
<1>3. \A p \in Request : AttemptInv(p) /\ ResultInv(p)
  BY DEF DispatchInv
<1>4. \A p \in Request, a \in Attempt : <<p, a>> \in Task
  BY DEF Task
<1>5. \A p \in Request, a \in Attempt :
        /\ Over(<<p, a>>) => Over(<<p, a>>)'
        /\ Untouched(<<p, a>>) => Untouched(<<p, a>>)'
  BY <1>4, CalmTask DEF DispatchInv
<1>6. ASSUME NEW p \in Request \ {q} PROVE AttemptInv(p)' /\ ResultInv(p)'
  <2>1. AttemptInv(p)'
    BY <1>1, <1>3, <1>5 DEF AttemptInv
  <2>2. ResultInv(p)'
    BY <1>3, <1>5 DEF ResultInv
  <2> QED
    BY <2>1, <2>2
<1>7. ASSUME NEW p \in Request \ {q}, NEW a \in Attempt PROVE FrameTruth(<<p, a>>)'
  <2> DEFINE u == <<p, a>>
  <2>1. u \in Task /\ u[1] = p
    BY <1>4
  <2>2. (u = TaskOf(u[1]) => calls[u[1]] = 0) => (u = TaskOf(u[1]) => calls[u[1]] = 0)'
    BY <1>1, <2>1
  <2> QED
    BY <1>2, <2>1, <2>2, CalmTruth
<1>8. CASE req'[q].attempt = req[q].attempt /\ (Undispatched(q)' => Undispatched(q))
  <2>1. TaskOf(q)' = TaskOf(q)
    BY <1>8 DEF TaskOf
  <2>2. AttemptInv(q)'
    BY <1>3, <1>5, <1>8, <2>1 DEF AttemptInv
  <2>3. ASSUME NEW a \in Attempt PROVE FrameTruth(<<q, a>>)'
    <3> DEFINE u == <<q, a>>
    <3>1. u \in Task /\ u[1] = q
      BY <1>4
    <3>2. (u = TaskOf(u[1]) => calls[u[1]] = 0) => (u = TaskOf(u[1]) => calls[u[1]] = 0)'
      BY <2>1, <3>1
    <3> QED
      BY <1>2, <3>1, <3>2, CalmTruth
  <2>4. \A u \in Task : FrameTruth(u)'
    BY <1>7, <2>3 DEF Task
  <2> QED
    BY <1>2, <1>6, <2>2, <2>4 DEF TaskInv
<1>9. CASE Over(TaskOf(q)) /\ calls[q] = 0 /\ req[q].attempt = 1 /\ req'[q].attempt = 2
  <2>1. Over(<<q, 1>>) /\ Untouched(<<q, 2>>)
    BY <1>3, <1>9 DEF TaskOf, AttemptInv, Attempt
  <2>2. Over(<<q, 1>>)' /\ Untouched(<<q, 2>>)'
    BY <1>5, <2>1 DEF Attempt
  <2>3. AttemptInv(q)'
    BY <1>9, <2>2 DEF AttemptInv, Attempt
  <2>4. FrameTruth(<<q, 2>>)'
    BY <2>2 DEF Untouched, FrameTruth
  <2>5. FrameTruth(<<q, 1>>)'
    <3> DEFINE u == <<q, 1>>
    <3>1. u \in Task /\ u[1] = q /\ u[2] = 1
      <4>1. 1 \in Attempt
        BY DEF Attempt
      <4> QED
        BY <1>4, <4>1
    <3>2. TaskOf(q)'[2] = 2
      BY <1>9 DEF TaskOf
    <3>3. u # TaskOf(q)'
      BY <3>1, <3>2
    <3> HIDE DEF u
    <3>4. (u = TaskOf(u[1]) => calls[u[1]] = 0)'
      BY <3>1, <3>3
    <3>5. FrameTruth(u)'
      BY <1>2, <3>1, <3>4, CalmTruth
    <3> QED
      BY <3>5 DEF u
  <2>6. \A a \in Attempt : FrameTruth(<<q, a>>)'
    <3>1. \A a \in Attempt : a = 1 \/ a = 2
      BY DEF Attempt
    <3> QED
      BY <2>4, <2>5, <3>1
  <2>7. \A u \in Task : FrameTruth(u)'
    BY <1>7, <2>6 DEF Task
  <2> QED
    BY <1>2, <1>6, <2>3, <2>7 DEF TaskInv
<1> QED
  BY <1>8, <1>9

\* A step of the current task of a request.
LEMMA TaskStep ==
  ASSUME DispatchInv, NEW t \in Task, NEW q \in Request, t = TaskOf(q),
         \A u \in Task \ {t} : Calm(u), \A p \in Request \ {q} : req'[p] = req[p] /\ calls'[p] = calls[p],
         req'[q].attempt = req[q].attempt, ~Undispatched(q)',
         FrameInv(t)', FrameTruth(t)', ResultInv(q)', calls'[q] \in {0, 1},
         work'[t].phase \in {"none", "queued", "accepted", "started"} => calls'[q] = 0
  PROVE  TaskInv'
<1>1. \A p \in Request \ {q} : TaskOf(p)' = TaskOf(p) /\ (Undispatched(p)' <=> Undispatched(p))
  BY DEF TaskOf, Undispatched
<1>2. TaskOf(q)' = t /\ t = <<q, req[q].attempt>> /\ t[1] = q
  BY DEF TaskOf
<1>3. \A p \in Request : AttemptInv(p) /\ ResultInv(p)
  BY DEF DispatchInv
<1>4. \A p \in Request, a \in Attempt : <<p, a>> \in Task
  BY DEF Task
<1>5. \A p \in Request, a \in Attempt : <<p, a>> # t =>
        /\ Over(<<p, a>>) => Over(<<p, a>>)'
        /\ Untouched(<<p, a>>) => Untouched(<<p, a>>)'
  BY <1>4, CalmTask DEF DispatchInv
<1>6. ASSUME NEW p \in Request, NEW a \in Attempt, <<p, a>> # t
      PROVE  FrameInv(<<p, a>>)' /\ FrameTruth(<<p, a>>)'
  <2> DEFINE u == <<p, a>>
  <2>1. u \in Task /\ u[1] = p /\ u # t
    BY <1>4, <1>6
  <2>2. (u = TaskOf(u[1]) => calls[u[1]] = 0) => (u = TaskOf(u[1]) => calls[u[1]] = 0)'
    BY <1>1, <1>2, <2>1
  <2> HIDE DEF u
  <2>3. FrameInv(u)' /\ FrameTruth(u)'
    BY <2>1, <2>2, CalmTask, CalmTruth DEF DispatchInv
  <2> QED
    BY <2>3 DEF u
<1>7. \A u \in Task : FrameInv(u)' /\ FrameTruth(u)'
  BY <1>6 DEF Task
<1>8. ASSUME NEW p \in Request \ {q} PROVE AttemptInv(p)' /\ ResultInv(p)'
  <2>1. \A a \in Attempt : <<p, a>> # t
    BY <1>2
  <2>2. TaskOf(p) \in Task /\ TaskOf(p) # t
    BY <1>2, RunnerTyped DEF DispatchInv, DispatchTypeOK
  <2>3. work'[TaskOf(p)].phase \in {"none", "queued", "accepted", "started"}
          => work[TaskOf(p)].phase \in {"none", "queued", "accepted", "started"}
    BY <2>2 DEF Calm
  <2>4. AttemptInv(p)'
    BY <1>1, <1>3, <1>5, <2>1, <2>3 DEF AttemptInv
  <2>5. ResultInv(p)'
    BY <1>3, <1>5, <2>1 DEF ResultInv
  <2> QED
    BY <2>4, <2>5
<1>9. AttemptInv(q)'
  <2>1. \A a \in Attempt : a # req[q].attempt => <<q, a>> # t
    BY <1>2
  <2>2. req[q].attempt \in Attempt
    BY RunnerTyped DEF DispatchInv, DispatchTypeOK
  <2>3. ASSUME NEW a \in Attempt, a < req[q].attempt PROVE Over(<<q, a>>)'
    <3>1. a # req[q].attempt
      BY <2>2, <2>3 DEF Attempt
    <3>2. Over(<<q, a>>)
      BY <1>3, <2>3 DEF AttemptInv
    <3> QED
      BY <1>5, <2>1, <3>1, <3>2
  <2>4. ASSUME NEW a \in Attempt, a > req[q].attempt PROVE Untouched(<<q, a>>)'
    <3>1. a # req[q].attempt
      BY <2>2, <2>4 DEF Attempt
    <3>2. Untouched(<<q, a>>)
      BY <1>3, <2>4 DEF AttemptInv
    <3> QED
      BY <1>5, <2>1, <3>1, <3>2
  <2> QED
    BY <1>2, <2>3, <2>4 DEF AttemptInv
<1> QED
  BY <1>7, <1>8, <1>9 DEF TaskInv

-----------------------------------------------------------------------------
(***************************************************************************)
(* The steps of sessions and handlers.                                     *)
(***************************************************************************)

\* The queue of session g loses frames, or gets one that is not task u.
QueueCalm(g, u) ==
  \/ down'[g] = down[g] \/ down'[g] = << >>
  \/ down[g] # << >> /\ down'[g] = Tail(down[g])
  \/ \E e \in DownFrame : ~IsTask(e, u) /\ down'[g] = Append(down[g], e)

LEMMA QueueCalmFrames ==
  ASSUME DispatchTypeOK, NEW g \in Gen, NEW u \in Task, QueueCalm(g, u)
  PROVE  (WaitsAt(g, u)' => WaitsAt(g, u)) /\ (OneFrame(down[g], u) => OneFrame(down'[g], u))
<1>1. down[g] \in Seq(DownFrame)
  BY DEF DispatchTypeOK, QueueType
<1>2. WaitsAt(g, u)' <=> \E f \in Elems(down'[g]) : IsTask(f, u)
  BY DEF WaitsAt
<1>3. CASE down'[g] = down[g]
  BY <1>2, <1>3 DEF WaitsAt
<1>4. CASE down'[g] = << >>
  <2>1. Elems(<< >>) = {} /\ OneFrame(<< >>, u)
    BY ElemsEmpty DEF OneFrame
  <2> QED
    BY <1>2, <1>4, <2>1
<1>5. CASE down[g] # << >> /\ down'[g] = Tail(down[g])
  <2>1. Elems(Tail(down[g])) \subseteq Elems(down[g])
    BY <1>1, <1>5, ElemsTail
  <2>2. OneFrame(down[g], u) => OneFrame(Tail(down[g]), u)
    BY <1>1, <1>5, OneTail
  <2> QED
    BY <1>2, <1>5, <2>1, <2>2 DEF WaitsAt
<1>6. ASSUME NEW e \in DownFrame, ~IsTask(e, u), down'[g] = Append(down[g], e)
      PROVE  (WaitsAt(g, u)' => WaitsAt(g, u)) /\ (OneFrame(down[g], u) => OneFrame(down'[g], u))
  <2>1. Elems(Append(down[g], e)) = Elems(down[g]) \cup {e}
    BY <1>1, ElemsAppend
  <2>2. OneFrame(down[g], u) => OneFrame(Append(down[g], e), u)
    BY <1>1, <1>6, OneAppend
  <2> QED
    BY <1>2, <1>6, <2>1, <2>2 DEF WaitsAt
<1> QED
  BY <1>3, <1>4, <1>5, <1>6 DEF QueueCalm

\* The steps in which frames are lost or handed on.
LEMMA SessionTasks ==
  ASSUME DispatchInv,
         \/ \E r \in RemoteRunner : Connect(r) \/ Disable(r) \/ Disconnect(r)
         \/ \E g \in Gen : RunnerDrops(g) \/ ControlBreaks(g) \/ Unregister(g)
                             \/ PublishFrom(g) \/ CancelTask(g)
  PROVE  TaskInv' /\ UNCHANGED req
<1>1. /\ DispatchTypeOK
      /\ down \in [Gen -> Seq(DownFrame)] /\ up \in [Gen -> Seq(UpFrame)]
      /\ events \in [Task -> Seq(UpFrame)] /\ work \in [Task -> WorkType]
  BY DEF DispatchInv, DispatchTypeOK, QueueType
<1>2. ASSUME UNCHANGED <<req, calls>>,
             \A g \in Gen, u \in Task : QueueCalm(g, u),
             \A u \in Task : /\ work'[u].gen = work[u].gen
                             /\ work'[u].phase = work[u].phase
                                \/ (Live(u) /\ work'[u].phase = "aborted"),
             \A g \in Gen : Elems(up'[g]) \subseteq Elems(up[g]),
             \A u \in Task : \A f \in Elems(events'[u]) :
               f \in Elems(events[u]) \/ (f.task = u /\ \E g \in Gen : f \in Elems(up[g]))
      PROVE  TaskInv' /\ UNCHANGED req
  <2>1. ASSUME NEW u \in Task PROVE Calm(u)
    BY <1>1, <1>2, QueueCalmFrames DEF Calm
  <2> QED
    BY <1>2, <2>1, QuietStep
<1>3. ASSUME UNCHANGED <<req, calls, down, up, work, events>> PROVE TaskInv' /\ UNCHANGED req
  BY <1>2, <1>3 DEF QueueCalm
<1>4. ASSUME NEW r \in RemoteRunner, Connect(r) \/ Disable(r) \/ Disconnect(r)
      PROVE  TaskInv' /\ UNCHANGED req
  BY <1>3, <1>4 DEF Connect, Disable, Disconnect, hubVars
<1>5. ASSUME NEW g \in Gen, Unregister(g) PROVE TaskInv' /\ UNCHANGED req
  BY <1>3, <1>5 DEF Unregister
<1>6. ASSUME NEW g \in Gen, ControlBreaks(g) PROVE TaskInv' /\ UNCHANGED req
  <2>1. up' = [up EXCEPT ![g] = << >>] /\ UNCHANGED <<req, calls, down, work, events>>
    BY <1>6 DEF ControlBreaks
  <2>2. \A h \in Gen : Elems(up'[h]) \subseteq Elems(up[h])
    BY <1>1, <2>1, ElemsEmpty
  <2> QED
    BY <1>2, <2>1, <2>2 DEF QueueCalm
<1>7. ASSUME NEW g \in Gen, RunnerDrops(g) PROVE TaskInv' /\ UNCHANGED req
  <2>1. PICK n \in 0 .. Len(up[g]) : up' = [up EXCEPT ![g] = SubSeq(@, 1, n)]
    BY <1>7 DEF RunnerDrops
  <2>2. \A h \in Gen : Elems(up'[h]) \subseteq Elems(up[h])
    BY <1>1, <2>1, ElemsPrefix
  <2>3. down' = [down EXCEPT ![g] = << >>] /\ UNCHANGED <<req, calls, events>>
    BY <1>7 DEF RunnerDrops
  <2>4. \A h \in Gen, u \in Task : QueueCalm(h, u)
    BY <1>1, <2>3 DEF QueueCalm
  <2>5. \A u \in Task : /\ work'[u].gen = work[u].gen
                        /\ work'[u].phase = work[u].phase \/ (Live(u) /\ work'[u].phase = "aborted")
    <3>1. ASSUME NEW u \in Task, work'[u] = [work[u] EXCEPT !.phase = "aborted"]
          PROVE  work'[u].gen = work[u].gen /\ work'[u].phase = "aborted"
      BY <1>1, <3>1 DEF WorkType
    <3>2. \A u \in Task : work'[u] = work[u]
                          \/ (Live(u) /\ work'[u] = [work[u] EXCEPT !.phase = "aborted"])
      BY <1>7 DEF RunnerDrops
    <3> QED
      BY <3>1, <3>2
  <2> QED
    BY <1>2, <2>2, <2>3, <2>4, <2>5
<1>8. ASSUME NEW g \in Gen, CancelTask(g) PROVE TaskInv' /\ UNCHANGED req
  <2> DEFINE t == Head(down[g]).task
  <2>1. /\ down[g] # << >> /\ down' = [down EXCEPT ![g] = Tail(@)]
        /\ UNCHANGED <<req, calls, events, up>>
        /\ work' = work \/ work' = [work EXCEPT ![t].cancelled = TRUE]
    BY <1>8 DEF CancelTask, runnerOnly
  <2>2. \A h \in Gen, u \in Task : QueueCalm(h, u)
    BY <1>1, <2>1 DEF QueueCalm
  <2> HIDE DEF t
  <2>3. ASSUME NEW u \in Task PROVE work'[u].gen = work[u].gen /\ work'[u].phase = work[u].phase
    <3>1. work'[u] = work[u] \/ work'[u] = [work[u] EXCEPT !.cancelled = TRUE]
      BY <1>1, <2>1
    <3> QED
      BY <1>1, <3>1 DEF WorkType
  <2> QED
    BY <1>2, <2>1, <2>2, <2>3
<1>9. ASSUME NEW g \in Gen, PublishFrom(g) PROVE TaskInv' /\ UNCHANGED req
  <2> DEFINE f == Head(up[g])
  <2>1. /\ up[g] # << >> /\ up' = [up EXCEPT ![g] = Tail(@)]
        /\ UNCHANGED <<req, calls, down, work>>
        /\ events' = events \/ events' = [events EXCEPT ![f.task] = Append(@, f)]
    BY <1>9 DEF PublishFrom
  <2>2. f \in UpFrame /\ f \in Elems(up[g]) /\ Elems(Tail(up[g])) \subseteq Elems(up[g])
    BY <1>1, <2>1, ElemsTail
  <2>3. \A h \in Gen : Elems(up'[h]) \subseteq Elems(up[h])
    BY <1>1, <2>1, <2>2
  <2> HIDE DEF f
  <2>4. ASSUME NEW u \in Task, NEW e \in Elems(events'[u])
        PROVE  e \in Elems(events[u]) \/ (e.task = u /\ \E h \in Gen : e \in Elems(up[h]))
    <3>1. CASE events'[u] = events[u]
      BY <2>4, <3>1
    <3>2. CASE u = f.task /\ events'[u] = Append(events[u], f)
      <4>1. Elems(Append(events[u], f)) = Elems(events[u]) \cup {f}
        BY <1>1, <2>2, ElemsAppend
      <4> QED
        BY <2>2, <2>4, <3>2, <4>1
    <3> QED
      BY <1>1, <2>1, <3>1, <3>2
  <2>5. \A h \in Gen, u \in Task : QueueCalm(h, u)
    BY <2>1 DEF QueueCalm
  <2>6. \A u \in Task : work'[u].gen = work[u].gen /\ work'[u].phase = work[u].phase
    BY <2>1
  <2>7. UNCHANGED <<req, calls>>
    BY <2>1
  <2> QED
    BY <1>2, <2>3, <2>4, <2>5, <2>6, <2>7
<1> QED
  BY <1>4, <1>5, <1>6, <1>7, <1>8, <1>9

\* What the record says of a request stays so while one of its tasks is alive
\* and the handler does not move.
LEMMA ResultKept ==
  ASSUME NEW q \in Request, ResultInv(q), UNCHANGED req,
         ~(req[q].result = "before" /\ req[q].status = "ok")
  PROVE  ResultInv(q)'
  BY DEF ResultInv

\* The frame of a task becomes its worker, or a failure that allows a retry.
LEMMA AcceptStep ==
  ASSUME DispatchInv, NEW g \in Gen, AcceptTask(g)
  PROVE  TaskInv' /\ UNCHANGED req
<1>1. /\ DispatchTypeOK
      /\ down \in [Gen -> Seq(DownFrame)] /\ up \in [Gen -> Seq(UpFrame)]
      /\ events \in [Task -> Seq(UpFrame)] /\ work \in [Task -> WorkType]
  BY DEF DispatchInv, DispatchTypeOK, QueueType
<1>2. /\ down[g] # << >> /\ Head(down[g]).kind = "task"
      /\ down' = [down EXCEPT ![g] = Tail(@)]
      /\ UNCHANGED <<req, calls, events>>
  BY Zenon DEF AcceptTask, runnerOnly
<1>3. PICK t \in Task : t = Head(down[g]).task
  BY <1>1, <1>2, ElemsTail, FrameTask
<1> DEFINE q == t[1]
<1>4. IsTask(Head(down[g]), t) /\ Head(down[g]) \in Elems(down[g])
      /\ Failed(t, TRUE).task = t /\ Failed(t, TRUE) \in UpFrame
  BY <1>1, <1>2, <1>3, ElemsTail, PlainFrames DEF IsTask
<1>5. Waits(t) /\ WaitsAt(g, t) /\ ~Over(t)
  BY <1>4 DEF Waits, WaitsAt, Over
<1>6. /\ q \in Request /\ t = TaskOf(q) /\ ~Undispatched(q)
      /\ ~(req[q].result = "before" /\ req[q].status = "ok")
      /\ \A h \in Gen : \A f \in Elems(up[h]) : f.task = t => ~Harmless(f)
      /\ \A f \in Elems(events[t]) : ~Harmless(f)
  BY <1>5, AliveTask
<1> HIDE DEF q
<1>7. FrameInv(t) /\ FrameTruth(t) /\ AttemptInv(q) /\ ResultInv(q)
  BY <1>6 DEF DispatchInv
<1>8. work[t].phase = "none" /\ calls[q] = 0
  BY <1>5, <1>6, <1>7 DEF FrameInv, AttemptInv
<1>9. \A h \in Gen : OneFrame(down'[h], t) /\ ~WaitsAt(h, t)'
  <2>1. /\ OneFrame(Tail(down[g]), t) /\ \A f \in Elems(Tail(down[g])) : ~IsTask(f, t)
    BY <1>1, <1>2, <1>4, <1>7, OneTail DEF FrameInv
  <2>2. \A h \in Gen : WaitsAt(h, t)' <=> \E f \in Elems(down'[h]) : IsTask(f, t)
    BY DEF WaitsAt
  <2>3. ASSUME NEW h \in Gen, h # g PROVE OneFrame(down'[h], t) /\ ~WaitsAt(h, t)'
    <3>1. down'[h] = down[h] /\ ~WaitsAt(h, t)
      BY <1>1, <1>2, <1>5, <1>7, <2>3 DEF FrameInv
    <3> QED
      BY <1>7, <2>2, <3>1 DEF WaitsAt, FrameInv
  <2>4. down'[g] = Tail(down[g])
    BY <1>1, <1>2
  <2> QED
    BY <2>1, <2>2, <2>3, <2>4
<1>10. ~Waits(t)'
  BY <1>9 DEF Waits
<1>11. \A h \in Gen, u \in Task : QueueCalm(h, u)
  BY <1>1, <1>2 DEF QueueCalm
<1>12. ResultInv(q)'
  BY <1>2, <1>6, <1>7, ResultKept
<1>13. ~Undispatched(q)'
  BY <1>2, <1>6 DEF Undispatched
<1>14. TaskOf(q)' = t
  BY <1>2, <1>6 DEF TaskOf
<1>15. CASE Say(g, Failed(t, TRUE)) /\ UNCHANGED work
  <2>1. \A h \in Gen : \A f \in Elems(up'[h]) : f \in Elems(up[h]) \/ f = Failed(t, TRUE)
    <3>1. Elems(Append(up[g], Failed(t, TRUE))) = Elems(up[g]) \cup {Failed(t, TRUE)}
      <4>1. up[g] \in Seq(UpFrame) /\ Failed(t, TRUE) \in UpFrame
        BY <1>1, <1>4
      <4>2. \A e \in UpFrame : Elems(Append(up[g], e)) = Elems(up[g]) \cup {e}
        BY <4>1, ElemsAppend
      <4> QED
        BY <4>1, <4>2, Zenon
    <3> QED
      BY <1>1, <1>15, <3>1 DEF Say
  <2>2. ASSUME NEW u \in Task \ {t} PROVE Calm(u)
    BY <1>1, <1>2, <1>4, <1>11, <1>15, <2>1, QueueCalmFrames DEF Calm
  <2>3. FrameInv(t)'
    BY <1>8, <1>9, <1>10, <1>15 DEF FrameInv, OneFrame
  <2>4. CertainlyNone(t)'
    <3>1. Over(t)'
      BY <1>8, <1>10, <1>15 DEF Over, Live, LivePhases
    <3>2. calls'[t[1]] = 0
      BY <1>2, <1>8 DEF q
    <3> QED
      BY <1>8, <1>15, <3>1, <3>2 DEF CertainlyNone
  <2>5. FrameTruth(t)'
    BY <1>2, <1>7, <2>4 DEF FrameTruth
  <2> QED
    BY <1>2, <1>3, <1>6, <1>8, <1>12, <1>13, <1>15, <2>2, <2>3, <2>5, TaskStep
<1>16. CASE work' = [work EXCEPT ![t] = [@ EXCEPT !.phase = "queued", !.gen = g]] /\ UNCHANGED up
  <2>1. work'[t].phase = "queued" /\ work'[t].gen = g /\ \A u \in Task \ {t} : work'[u] = work[u]
    BY <1>1, <1>3, <1>16 DEF WorkType
  <2>2. ASSUME NEW u \in Task \ {t} PROVE Calm(u)
    BY <1>1, <1>2, <1>11, <1>16, <2>1, QueueCalmFrames DEF Calm
  <2>3. FrameInv(t)'
    BY <1>9, <1>10, <2>1 DEF FrameInv, OneFrame
  <2>4. FrameTruth(t)'
    BY <1>2, <1>6, <1>7, <1>16 DEF FrameTruth
  <2> QED
    BY <1>2, <1>3, <1>6, <1>8, <1>12, <1>13, <2>2, <2>3, <2>4, TaskStep
<1>17. \/ Say(g, Failed(t, TRUE)) /\ UNCHANGED work
       \/ work' = [work EXCEPT ![t] = [@ EXCEPT !.phase = "queued", !.gen = g]] /\ UNCHANGED up
  BY <1>3, Zenon DEF AcceptTask
<1> QED
  BY <1>2, <1>15, <1>16, <1>17

\* A worker takes its task further.
LEMMA WorkerStep ==
  ASSUME DispatchInv, NEW t \in Task, Worker(t)
  PROVE  TaskInv' /\ UNCHANGED req
<1> DEFINE q == t[1]
<1>1. /\ DispatchTypeOK
      /\ up \in [Gen -> Seq(UpFrame)] /\ work \in [Task -> WorkType] /\ calls \in [Request -> Nat]
  BY DEF DispatchInv, DispatchTypeOK, QueueType
<1>2. WorkerEffect(t)
  BY <1>1, WorkerCases
<1>3. Live(t) /\ UNCHANGED <<down, req, events>>
  BY WorkerFrame DEF runnerOnly
<1>4. ~Over(t)
  BY <1>3 DEF Over
<1>5. /\ q \in Request /\ t = TaskOf(q) /\ ~Undispatched(q)
      /\ ~(req[q].result = "before" /\ req[q].status = "ok")
      /\ \A h \in Gen : \A f \in Elems(up[h]) : f.task = t => ~Harmless(f)
      /\ \A f \in Elems(events[t]) : ~Harmless(f)
  BY <1>4, AliveTask
<1> HIDE DEF q
<1>6. FrameInv(t) /\ FrameTruth(t) /\ AttemptInv(q) /\ ResultInv(q)
  BY <1>5 DEF DispatchInv
<1>7. ~Waits(t) /\ work[t].phase # "none" /\ work[t].gen \in Gen
  BY <1>3, <1>6 DEF FrameInv, Live, LivePhases
<1>8. \A h \in Gen, u \in Task : QueueCalm(h, u)
  BY <1>3 DEF QueueCalm
<1>9. ResultInv(q)'
  BY <1>3, <1>5, <1>6, ResultKept
<1>10. ~Undispatched(q)' /\ TaskOf(q)' = t
  BY <1>3, <1>5 DEF Undispatched, TaskOf
<1>11. /\ \A u \in Task \ {t} : work'[u] = work[u]
       /\ work'[t].gen = work[t].gen /\ work'[t].phase # "none"
  BY <1>2 DEF WorkerEffect
<1>12. ~Waits(t)'
  BY <1>3, <1>7 DEF Waits, WaitsAt
<1>13. FrameInv(t)'
  <2>1. \A h \in Gen : OneFrame(down'[h], t)
    BY <1>3, <1>6 DEF FrameInv
  <2>2. \A h \in Gen : ~WaitsAt(h, t)'
    BY <1>12 DEF Waits
  <2> QED
    BY <1>7, <1>11, <1>12, <2>1, <2>2 DEF FrameInv, OneFrame
<1>14. ASSUME \A h \in Gen : \A f \in Elems(up'[h]) : f \in Elems(up[h]) \/ f.task = t
       PROVE  \A u \in Task \ {t} : Calm(u)
  <2>1. ASSUME NEW u \in Task \ {t} PROVE Calm(u)
    BY <1>1, <1>3, <1>8, <1>11, <1>14, QueueCalmFrames DEF Calm
  <2> QED
    BY <2>1
<1>15. ASSUME NEW f \in UpFrame, f.task = t, Say(work[t].gen, f)
       PROVE  \A h \in Gen : \A e \in Elems(up'[h]) : e \in Elems(up[h]) \/ e = f
  <2>1. Elems(Append(up[work[t].gen], f)) = Elems(up[work[t].gen]) \cup {f}
    BY <1>1, <1>7, ElemsAppend
  <2> QED
    BY <1>1, <1>7, <1>15, <2>1 DEF Say
<1>16. CASE /\ work[t].phase = "started" /\ work'[t].phase = "called"
            /\ calls' = [calls EXCEPT ![t[1]] = @ + 1] /\ UNCHANGED up
  <2>1. calls[q] = 0
    BY <1>5, <1>6, <1>16 DEF AttemptInv
  <2>2. calls'[q] = 1 /\ \A p \in Request \ {q} : calls'[p] = calls[p]
    BY <1>1, <1>5, <1>16, <2>1 DEF q
  <2>3. FrameTruth(t)'
    BY <1>3, <1>5, <1>6, <1>16 DEF FrameTruth
  <2>4. \A u \in Task \ {t} : Calm(u)
    BY <1>14, <1>16
  <2> QED
    BY <1>3, <1>5, <1>9, <1>10, <1>13, <1>16, <2>2, <2>3, <2>4, TaskStep
<1>17. ASSUME NEW f \in UpFrame, Plain(f, t), Say(work[t].gen, f), UNCHANGED calls,
              work'[t].phase \in Early => work[t].phase \in Early
       PROVE  TaskInv'
  <2>1. \A h \in Gen : \A e \in Elems(up'[h]) : e \in Elems(up[h]) \/ e = f
    BY <1>15, <1>17 DEF Plain
  <2>2. FrameTruth(t)'
    BY <1>3, <1>5, <1>6, <1>17, <2>1 DEF FrameTruth, Plain
  <2>3. \A u \in Task \ {t} : Calm(u)
    BY <1>14, <1>17, <2>1 DEF Plain
  <2>4. work'[t].phase \in {"none", "queued", "accepted", "started"} => calls'[q] = 0
    BY <1>5, <1>6, <1>11, <1>17 DEF AttemptInv, Early
  <2>5. calls'[q] \in {0, 1} /\ \A p \in Request \ {q} : calls'[p] = calls[p]
    BY <1>6, <1>17 DEF AttemptInv
  <2> QED
    BY <1>3, <1>5, <1>9, <1>10, <1>13, <2>2, <2>3, <2>4, <2>5, TaskStep
<1>18. CASE /\ UNCHANGED calls /\ Say(work[t].gen, Failed(t, TRUE))
            /\ work[t].phase \in Early /\ work'[t].phase = "ended"
  <2>1. Failed(t, TRUE).task = t /\ Failed(t, TRUE) \in UpFrame
    BY PlainFrames
  <2>2. \A h \in Gen : \A e \in Elems(up'[h]) : e \in Elems(up[h]) \/ e = Failed(t, TRUE)
    BY <1>15, <1>18, <2>1
  <2>3. calls'[q] = 0 /\ \A p \in Request \ {q} : calls'[p] = calls[p]
    BY <1>5, <1>6, <1>18 DEF AttemptInv, Early
  <2>4. CertainlyNone(t)'
    <3>1. Over(t)'
      BY <1>12, <1>18 DEF Over, Live, LivePhases
    <3>2. calls'[t[1]] = 0
      BY <2>3 DEF q
    <3> QED
      BY <1>18, <3>1, <3>2 DEF CertainlyNone
  <2>5. FrameTruth(t)'
    BY <1>3, <1>6, <2>4 DEF FrameTruth
  <2>6. \A u \in Task \ {t} : Calm(u)
    BY <1>14, <2>1, <2>2
  <2> QED
    BY <1>3, <1>5, <1>9, <1>10, <1>13, <1>18, <2>3, <2>5, <2>6, TaskStep
<1> QED
  BY <1>2, <1>3, <1>16, <1>17, <1>18 DEF WorkerEffect

\* Nothing of an attempt exists before its dispatch.
LEMMA NothingYet ==
  ASSUME DispatchInv, NEW q \in Request, Undispatched(q)
  PROVE  calls[q] = 0 /\ \A a \in Attempt : Over(<<q, a>>)
<1>1. AttemptInv(q) /\ req[q].attempt \in Attempt
  BY RunnerTyped DEF DispatchInv, DispatchTypeOK
<1>2. ASSUME NEW a \in Attempt PROVE Over(<<q, a>>)
  <2>1. a < req[q].attempt \/ a > req[q].attempt \/ a = req[q].attempt
    BY <1>1 DEF Attempt
  <2>2. Untouched(<<q, a>>) => Over(<<q, a>>)
    BY DEF Untouched, Over, Live, LivePhases
  <2> QED
    BY <1>1, <2>1, <2>2 DEF AttemptInv
<1>3. Untouched(TaskOf(q))
  BY <1>1 DEF AttemptInv, TaskOf
<1>4. work[TaskOf(q)].phase = "none"
  BY <1>3 DEF Untouched
<1> QED
  BY <1>1, <1>2, <1>4 DEF AttemptInv

\* A request that ends is not recorded as failed before the call when there may
\* have been one.
LEMMA EndStep ==
  ASSUME DispatchInv, NEW q \in Request, \A u \in Task : Calm(u), UNCHANGED <<work, calls>>,
         NEW x, End(q, x), x # "none",
         x = "before" => \/ req[q].status = "error"
                         \/ calls[q] = 0 /\ \A a \in Attempt : Over(<<q, a>>)
  PROVE  TaskInv' /\ req'[q].phase = "done" /\ \A p \in Request \ {q} : req'[p] = req[p]
<1>1. req \in [Request -> HandlerType] /\ \A u \in Task : FrameInv(u)
  BY DEF DispatchInv, DispatchTypeOK
<1>2. /\ req'[q].phase = "done" /\ req'[q].result = x
      /\ req'[q].attempt = req[q].attempt /\ req'[q].status = req[q].status
      /\ \A p \in Request \ {q} : req'[p] = req[p]
  BY <1>1, EndEffect
<1>3. \A a \in Attempt : Over(<<q, a>>) => Over(<<q, a>>)'
  <2>1. \A a \in Attempt : <<q, a>> \in Task
    BY DEF Task
  <2> QED
    BY <1>1, <2>1, CalmTask
<1>4. ResultInv(q)'
  BY <1>2, <1>3 DEF ResultInv
<1>5. ~Undispatched(q)'
  BY <1>2 DEF Undispatched
<1> QED
  BY <1>2, <1>4, <1>5, HandlerStep

\* An attempt is given up only when it certainly made no call.
LEMMA AgainStep ==
  ASSUME DispatchInv, NEW q \in Request, \A u \in Task : Calm(u), UNCHANGED <<work, calls>>,
         NEW x, Again(q, x), calls[q] = 0, Over(TaskOf(q))
  PROVE  TaskInv' /\ req'[q].phase \in {"choosing", "done"} /\ \A p \in Request \ {q} : req'[p] = req[p]
<1>1. req \in [Request -> HandlerType] /\ AttemptInv(q) /\ req[q].attempt \in Attempt
  BY RunnerTyped DEF DispatchInv, DispatchTypeOK
<1>2. CASE req[q].attempt = 1
  <2>1. /\ req'[q].attempt = 2 /\ req'[q].phase = "choosing" /\ req'[q].result = "none"
        /\ \A p \in Request \ {q} : req'[p] = req[p]
    BY <1>1, <1>2, AgainEffect
  <2>2. ResultInv(q)'
    BY <2>1 DEF ResultInv
  <2> QED
    BY <1>2, <2>1, <2>2, HandlerStep
<1>3. CASE req[q].attempt # 1
  <2>1. End(q, "before")
    BY <1>3 DEF Again
  <2>2. ASSUME NEW a \in Attempt PROVE Over(<<q, a>>)
    <3>1. a < req[q].attempt \/ a = req[q].attempt
      BY <1>1, <1>3 DEF Attempt
    <3> QED
      BY <1>1, <3>1 DEF AttemptInv, TaskOf
  <2> QED
    BY <2>1, <2>2, EndStep
<1> QED
  BY <1>2, <1>3

\* A handler that moves on within its attempt.
LEMMA MoveStep ==
  ASSUME DispatchInv, NEW q \in Request, \A u \in Task : Calm(u), UNCHANGED <<work, calls>>,
         \A p \in Request \ {q} : req'[p] = req[p],
         req'[q].attempt = req[q].attempt, req'[q].result = req[q].result,
         req[q].phase # "done", Undispatched(q)' => Undispatched(q),
         req'[q].phase = "errorBody" => req'[q].status = "error"
  PROVE  TaskInv'
<1>1. req[q].result = "none"
  BY DEF DispatchInv, ResultInv
<1>2. ResultInv(q)'
  BY <1>1 DEF ResultInv
<1> QED
  BY <1>2, HandlerStep

\* Steps of a handler that send and take nothing are calm.
LEMMA HandlerCalm ==
  ASSUME DispatchInv, UNCHANGED <<work, up, down, events>>
  PROVE  \A u \in Task : Calm(u)
<1>1. \A g \in Gen, u \in Task : QueueCalm(g, u)
  BY DEF QueueCalm
<1>2. DispatchTypeOK
  BY DEF DispatchInv
<1> QED
  BY <1>1, <1>2, QueueCalmFrames DEF Calm

\* So are those in which it takes a frame, or drops its handle.
LEMMA ReceiveCalm ==
  ASSUME DispatchInv, NEW q \in Request, UNCHANGED <<work, up>>, EventsLeft(q), req[q].gen \in Gen,
         DropHandle(q) \/ UNCHANGED down
  PROVE  \A u \in Task : Calm(u)
<1>1. /\ DispatchTypeOK /\ down \in [Gen -> Seq(DownFrame)] /\ events \in [Task -> Seq(UpFrame)]
      /\ TaskOf(q) \in Task
  BY RunnerTyped DEF DispatchInv, DispatchTypeOK, QueueType
<1>2. ASSUME NEW g \in Gen, NEW u \in Task PROVE QueueCalm(g, u)
  <2>1. \/ down' = down
        \/ down' = [down EXCEPT ![req[q].gen] = Append(@, CancelFrame(TaskOf(q)))]
    BY <1>1, DropHandleEffect
  <2>2. CancelFrame(TaskOf(q)) \in DownFrame
    BY <1>1, FrameTypes
  <2>3. ~IsTask(CancelFrame(TaskOf(q)), u)
    BY DEF IsTask, CancelFrame
  <2>4. down'[g] = down[g] \/ down'[g] = Append(down[g], CancelFrame(TaskOf(q)))
    BY <1>1, <2>1
  <2> QED
    BY <2>2, <2>3, <2>4 DEF QueueCalm
<1>3. ASSUME NEW u \in Task PROVE Elems(events'[u]) \subseteq Elems(events[u])
  <2>1. /\ \A t \in Task \ {TaskOf(q)} : events'[t] = events[t]
        /\ events'[TaskOf(q)] = << >>
           \/ (events[TaskOf(q)] # << >> /\ events'[TaskOf(q)] = Tail(events[TaskOf(q)]))
    BY <1>1, EventsLeftEffect
  <2>2. Elems(<< >>) = {}
    BY ElemsEmpty
  <2>3. events[TaskOf(q)] # << >> => Elems(Tail(events[TaskOf(q)])) \subseteq Elems(events[TaskOf(q)])
    BY <1>1, ElemsTail
  <2> QED
    BY <2>1, <2>2, <2>3
<1> QED
  BY <1>1, <1>2, <1>3, QueueCalmFrames DEF Calm

\* The dispatch of a task puts its one frame into the queue of one session.
LEMMA DispatchStep ==
  ASSUME DispatchInv, NEW q \in Request, DispatchReserved(q), Stays(q)
  PROVE  /\ TaskInv' /\ req'[q].gen = req[q].gen
         /\ \A p \in Request \ {q} : req'[p] = req[p]
<1>1. /\ DispatchTypeOK /\ down \in [Gen -> Seq(DownFrame)] /\ req \in [Request -> HandlerType]
      /\ TaskOf(q) \in Task /\ TaskOf(q)[1] = q /\ Chosen(q) /\ AttemptInv(q) /\ ResultInv(q)
  BY RunnerTyped DEF DispatchInv, DispatchTypeOK, QueueType
<1>2. PICK t \in Task : t = TaskOf(q)
  BY <1>1
<1>3. PICK g : g = req[q].gen
  OBVIOUS
<1>4. /\ req[q].phase = "reserved" /\ Enqueue(g, TaskFrame(t))
      /\ req' = [req EXCEPT ![q].phase = "waiting"]
      /\ UNCHANGED <<work, calls, up, events>>
  BY <1>2, <1>3, Zenon DEF DispatchReserved, handlerOnly
<1>5. g \in Gen
  BY <1>1, <1>3, <1>4 DEF Chosen
<1>6. /\ req'[q].phase = "waiting" /\ req'[q].attempt = req[q].attempt
      /\ req'[q].result = req[q].result /\ req'[q].gen = req[q].gen
  BY <1>1, <1>4 DEF HandlerType
<1>7. \A p \in Request \ {q} : req'[p] = req[p]
  BY <1>1, <1>4
<1>8. Undispatched(q) /\ ~Undispatched(q)'
  BY <1>4, <1>6 DEF Undispatched
<1>9. calls[q] = 0 /\ Untouched(t)
  <2>1. t = <<q, req[q].attempt>> /\ req[q].attempt \in Attempt
    BY <1>1, <1>2, RunnerTyped DEF TaskOf
  <2>2. Untouched(<<q, req[q].attempt>>)
    BY <1>1, <1>8, <2>1 DEF AttemptInv
  <2> QED
    BY <1>8, <2>1, <2>2, NothingYet
<1>10. TaskFrame(t) \in DownFrame /\ \A u \in Task : IsTask(TaskFrame(t), u) => u = t
  BY FrameTypes DEF IsTask, TaskFrame
<1>11. \A h \in Gen : \/ down'[h] = down[h]
                      \/ h = g /\ down'[h] = Append(down[h], TaskFrame(t))
  BY <1>1, <1>4, <1>5 DEF Enqueue
<1>12. ASSUME NEW u \in Task \ {t} PROVE Calm(u)
  <2>1. \A h \in Gen : QueueCalm(h, u)
    BY <1>10, <1>11, <1>12 DEF QueueCalm
  <2> QED
    BY <1>1, <1>4, <2>1, QueueCalmFrames DEF Calm
<1>13. \A h \in Gen : ~WaitsAt(h, t)
  BY <1>9 DEF Untouched, Waits
<1>14. ASSUME NEW h \in Gen PROVE OneFrame(down'[h], t) /\ (WaitsAt(h, t)' => h = g)
  <2>1. OneFrame(down[h], t) /\ \A f \in Elems(down[h]) : ~IsTask(f, t)
    BY <1>13 DEF DispatchInv, FrameInv, WaitsAt
  <2>2. WaitsAt(h, t)' <=> \E f \in Elems(down'[h]) : IsTask(f, t)
    BY DEF WaitsAt
  <2>3. CASE down'[h] = down[h]
    BY <2>1, <2>2, <2>3
  <2>4. CASE h = g /\ down'[h] = Append(down[h], TaskFrame(t))
    BY <1>1, <1>10, <2>1, <2>4, OneAppend
  <2> QED
    BY <1>11, <2>3, <2>4
<1>15. work'[t].phase = "none"
  BY <1>4, <1>9 DEF Untouched
<1>16. FrameInv(t)'
  BY <1>14, <1>15 DEF FrameInv, OneFrame
<1>17. FrameTruth(t)'
  BY <1>4, <1>9 DEF FrameTruth, Untouched
<1>18. ResultInv(q)'
  BY <1>1, <1>4, <1>6 DEF ResultInv
<1>19. TaskInv'
  BY <1>2, <1>4, <1>6, <1>7, <1>8, <1>9, <1>12, <1>16, <1>17, <1>18, TaskStep
<1> QED
  BY <1>6, <1>7, <1>19

\* A handler takes a frame.
LEMMA ReceiveStep ==
  ASSUME DispatchInv, NEW q \in Request, Receive(q)
  PROVE  /\ TaskInv' /\ \A p \in Request \ {q} : req'[p] = req[p]
         /\ req'[q].phase \in {"choosing", "done"} \/ req'[q].gen = req[q].gen
<1>1. PICK t : t = TaskOf(q)
  OBVIOUS
<1>2. PICK f : f = Head(events[t])
  OBVIOUS
<1>3. /\ DispatchTypeOK /\ req \in [Request -> HandlerType] /\ Chosen(q) /\ ResultInv(q) /\ AttemptInv(q)
      /\ t \in Task /\ t[1] = q /\ req[q].status \in Status
  BY <1>1, RunnerTyped DEF DispatchInv, DispatchTypeOK
<1>4. /\ req[q].phase \in ListeningPhases /\ events[t] # << >> /\ EventsLeft(q)
      /\ UNCHANGED <<up, work, calls>>
  BY <1>1, Zenon DEF Receive
<1>5. /\ req[q].gen \in Gen /\ ~Undispatched(q) /\ req[q].phase # "done"
  BY <1>3, <1>4 DEF Chosen, ListeningPhases, Undispatched
<1>6. ASSUME DropHandle(q) \/ UNCHANGED down PROVE \A u \in Task : Calm(u)
  BY <1>4, <1>5, <1>6, ReceiveCalm
<1>7. f \in Elems(events[t])
  BY <1>2, <1>3, <1>4, ElemsTail DEF DispatchTypeOK, QueueType
<1>8. ASSUME \A p \in Request \ {q} : req'[p] = req[p], UNCHANGED down,
             req'[q].attempt = req[q].attempt, req'[q].result = req[q].result,
             req'[q].gen = req[q].gen, req'[q].phase \in ListeningPhases,
             req'[q].phase = "errorBody" => req'[q].status = "error"
      PROVE  TaskInv'
  <2>1. ~Undispatched(q)'
    BY <1>8 DEF ListeningPhases, Undispatched
  <2> QED
    BY <1>4, <1>5, <1>6, <1>8, <2>1, MoveStep
<1>9. CASE req[q].phase = "waiting" /\ UNCHANGED down
           /\ req' \in {[req EXCEPT ![q].accepted = TRUE], [req EXCEPT ![q].started = TRUE]}
  <2>1. \A p \in Request \ {q} : req'[p] = req[p]
    BY <1>3, <1>9
  <2>2. /\ req'[q].attempt = req[q].attempt /\ req'[q].result = req[q].result
        /\ req'[q].gen = req[q].gen /\ req'[q].phase = "waiting"
    BY <1>3, <1>9 DEF HandlerType
  <2> QED
    BY <1>8, <1>9, <2>1, <2>2 DEF ListeningPhases
<1>10. CASE /\ f.kind = "response" /\ UNCHANGED down
            /\ \E phase \in AnswerPhase(q, f.status) :
                 req' = [req EXCEPT ![q] = [@ EXCEPT !.phase = phase, !.status = f.status]]
  <2>1. PICK phase \in AnswerPhase(q, f.status) :
          req' = [req EXCEPT ![q] = [@ EXCEPT !.phase = phase, !.status = f.status]]
    BY <1>10
  <2>2. \A p \in Request \ {q} : req'[p] = req[p]
    BY <1>3, <2>1
  <2>3. /\ req'[q].attempt = req[q].attempt /\ req'[q].result = req[q].result
        /\ req'[q].gen = req[q].gen /\ req'[q].phase = phase /\ req'[q].status = f.status
    BY <1>3, <2>1 DEF HandlerType
  <2>4. phase \in {"streaming", "errorBody"} /\ (phase = "errorBody" => f.status = "error")
    BY <2>1 DEF AnswerPhase
  <2> QED
    BY <1>8, <1>10, <2>2, <2>3, <2>4 DEF ListeningPhases
<1>11. CASE Harmless(f) /\ Again(q, {req[q].runner}) /\ UNCHANGED down
  <2>1. CertainlyNone(t)
    BY <1>3, <1>7, <1>11 DEF DispatchInv, FrameTruth
  <2>2. calls[q] = 0 /\ Over(TaskOf(q))
    BY <1>1, <1>3, <2>1 DEF CertainlyNone
  <2> QED
    BY <1>4, <1>6, <1>11, <2>2, AgainStep
<1>12. CASE req[q].phase # "waiting" /\ req' = [req EXCEPT ![q].chunks = @ + 1] /\ UNCHANGED down
  <2>1. \A p \in Request \ {q} : req'[p] = req[p]
    BY <1>3, <1>12
  <2>2. /\ req'[q].attempt = req[q].attempt /\ req'[q].result = req[q].result
        /\ req'[q].gen = req[q].gen /\ req'[q].phase = req[q].phase /\ req'[q].status = req[q].status
    BY <1>3, <1>12 DEF HandlerType
  <2> QED
    BY <1>3, <1>4, <1>8, <1>12, <2>1, <2>2 DEF ResultInv
<1>13. CASE req[q].phase = "errorBody" /\ End(q, "before") /\ DropHandle(q)
  <2>1. req[q].status = "error"
    BY <1>3, <1>13 DEF ResultInv
  <2> QED
    BY <1>4, <1>6, <1>13, <2>1, EndStep
<1>14. CASE End(q, req[q].status) /\ UNCHANGED down
  <2>1. req[q].status # "none" /\ req[q].status # "before"
    BY <1>3 DEF Status
  <2> QED
    BY <1>4, <1>6, <1>14, <2>1, EndStep
<1>15. CASE End(q, "unknown") /\ DropHandle(q)
  BY <1>4, <1>6, <1>15, EndStep
<1> QED
  BY <1>1, <1>2, <1>9, <1>10, <1>11, <1>12, <1>13, <1>14, <1>15, ReceiveCases, Zenon

\* Every step of a handler.
LEMMA HandlerTasks ==
  ASSUME DispatchInv, DispatchNext, NEW q \in Request, RequestSteps(q)
  PROVE  TaskInv' /\ \A p \in Request : Chosen(p)'
<1>1. /\ DispatchTypeOK /\ req \in [Request -> HandlerType] /\ SessionInv /\ ResultInv(q)
      /\ \A p \in Request : Chosen(p)
  BY DEF DispatchInv, DispatchTypeOK
<1>2. \A g \in Gen : owner[g] # NoRemote => owner'[g] # NoRemote
  BY OwnerKept
<1>3. ASSUME \A p \in Request \ {q} : req'[p] = req[p],
             \/ req'[q].phase \in {"choosing", "done"}
             \/ req'[q].gen = req[q].gen /\ req[q].phase \notin {"choosing", "done"}
      PROVE  \A p \in Request : Chosen(p)'
  BY <1>1, <1>2, <1>3 DEF Chosen
<1>4. ASSUME UNCHANGED handlerOnly, UNCHANGED down PROVE UNCHANGED <<work, calls>> /\ \A u \in Task : Calm(u)
  BY <1>4, HandlerCalm DEF handlerOnly
<1>5. Undispatched(q) => calls[q] = 0 /\ Over(TaskOf(q)) /\ \A a \in Attempt : Over(<<q, a>>)
  BY <1>1, NothingYet, RunnerTyped DEF TaskOf
<1>6. ASSUME Undispatched(q), NEW x, Again(q, x), UNCHANGED handlerOnly, UNCHANGED down
      PROVE  TaskInv' /\ \A p \in Request : Chosen(p)'
  <2>1. /\ TaskInv' /\ req'[q].phase \in {"choosing", "done"}
        /\ \A p \in Request \ {q} : req'[p] = req[p]
    BY <1>4, <1>5, <1>6, AgainStep
  <2> QED
    BY <1>3, <2>1
<1>7. CASE AuthorizationRefused(q)
  <2>1. Undispatched(q) /\ End(q, "before") /\ UNCHANGED handlerOnly /\ UNCHANGED down
    BY <1>7 DEF AuthorizationRefused, Undispatched
  <2>2. TaskInv' /\ req'[q].phase = "done" /\ \A p \in Request \ {q} : req'[p] = req[p]
    BY <1>4, <1>5, <2>1, EndStep
  <2> QED
    BY <1>3, <2>2
<1>8. CASE SelectRunner(q)
  <2>1. Undispatched(q) /\ req[q].phase = "choosing" /\ UNCHANGED handlerOnly /\ UNCHANGED down
    BY <1>8 DEF SelectRunner, Undispatched
  <2>2. ASSUME NEW r \in ReadyRunners(q),
               req' = [req EXCEPT ![q] = [@ EXCEPT !.phase = "reserving", !.runner = r,
                                                   !.gen = connections[r]]]
        PROVE  TaskInv' /\ \A p \in Request : Chosen(p)'
    <3>1. \A p \in Request \ {q} : req'[p] = req[p]
      BY <1>1, <2>2
    <3>2. /\ req'[q].attempt = req[q].attempt /\ req'[q].result = req[q].result
          /\ req'[q].gen = connections[r] /\ req'[q].phase = "reserving"
      BY <1>1, <2>2 DEF HandlerType
    <3>3. TaskInv'
      BY <1>4, <2>1, <3>1, <3>2, MoveStep
    <3>4. connections[r] \in Gen /\ owner[connections[r]] # NoRemote
      <4>1. r \in RemoteRunner /\ connections[r] # 0
        BY <1>1 DEF ReadyRunners, DispatchTypeOK, SessionType
      <4> QED
        BY <1>1, <4>1, DispatchAssumption DEF DispatchTypeOK, SessionType, SessionInv
    <3>5. Chosen(q)'
      BY <1>2, <3>2, <3>4 DEF Chosen
    <3>6. \A p \in Request \ {q} : Chosen(p)'
      BY <1>1, <1>2, <3>1 DEF Chosen
    <3> QED
      BY <3>3, <3>5, <3>6
  <2> QED
    BY <1>6, <1>8, <2>1, <2>2 DEF SelectRunner
<1>9. CASE QueuePlace(q)
  <2>1. Undispatched(q) /\ req[q].phase = "reserving" /\ UNCHANGED handlerOnly /\ UNCHANGED down
    BY <1>9 DEF QueuePlace, Undispatched
  <2>2. CASE req' = [req EXCEPT ![q].phase = "reserved"]
    <3>1. \A p \in Request \ {q} : req'[p] = req[p]
      BY <1>1, <2>2
    <3>2. /\ req'[q].attempt = req[q].attempt /\ req'[q].result = req[q].result
          /\ req'[q].gen = req[q].gen /\ req'[q].phase = "reserved"
      BY <1>1, <2>2 DEF HandlerType
    <3>3. TaskInv'
      BY <1>4, <2>1, <3>1, <3>2, MoveStep
    <3> QED
      BY <1>3, <2>1, <3>1, <3>2, <3>3
  <2>3. CASE \E x : Again(q, x)
    BY <1>6, <2>1, <2>3
  <2> QED
    BY <1>9, <2>2, <2>3, Zenon DEF QueuePlace
<1>10. CASE DispatchReserved(q)
  <2>1. CASE Stays(q)
    <3>1. req[q].phase = "reserved"
      BY <1>10, Zenon DEF DispatchReserved
    <3> QED
      BY <1>3, <1>10, <2>1, <3>1, DispatchStep
  <2>2. CASE ~Stays(q)
    <3>1. Undispatched(q) /\ (\E x : Again(q, x)) /\ UNCHANGED handlerOnly /\ UNCHANGED down
      BY <1>10, <2>2, Zenon DEF DispatchReserved, Undispatched
    <3> QED
      BY <1>6, <3>1
  <2> QED
    BY <2>1, <2>2
<1>11. CASE Receive(q)
  <2>1. req[q].phase \notin {"choosing", "done"}
    BY <1>11 DEF Receive, ListeningPhases
  <2> QED
    BY <1>3, <1>11, <2>1, ReceiveStep
<1>12. CASE StreamEnds(q)
  <2>1. /\ req[q].phase \in ListeningPhases /\ EventsLeft(q) /\ DropHandle(q)
        /\ UNCHANGED <<up, work, calls>>
    BY <1>12, Zenon DEF StreamEnds, Abort
  <2>2. req[q].gen \in Gen
    BY <1>1, <2>1 DEF Chosen, ListeningPhases
  <2>3. \A u \in Task : Calm(u)
    BY <2>1, <2>2, ReceiveCalm
  <2>4. End(q, "unknown") \/ (req[q].phase = "errorBody" /\ End(q, "before"))
    BY <1>12, Zenon DEF StreamEnds, Abort
  <2>5. req[q].phase = "errorBody" => req[q].status = "error"
    BY <1>1 DEF ResultInv
  <2>6. TaskInv' /\ req'[q].phase = "done" /\ \A p \in Request \ {q} : req'[p] = req[p]
    BY <2>1, <2>3, <2>4, <2>5, EndStep
  <2> QED
    BY <1>3, <2>6
<1> QED
  BY <1>7, <1>8, <1>9, <1>10, <1>11, <1>12 DEF RequestSteps

-----------------------------------------------------------------------------
(***************************************************************************)
(* The invariant and what follows from it.                                 *)
(***************************************************************************)
LEMMA DispatchInitially == DispatchInit => DispatchInv
<1> SUFFICES ASSUME DispatchInit PROVE DispatchInv
  OBVIOUS
<1>1. \A S : << >> \in Seq(S) /\ Elems(<< >>) = {}
  BY ElemsEmpty
<1>2. DispatchTypeOK
  <2>1. NewAttempt \in HandlerType
    BY DEF NewAttempt, HandlerType, Phases, Attempt, Status, Results
  <2>2. NoWork \in WorkType
    BY DEF NoWork, WorkType, WorkPhases
  <2> QED
    BY <1>1, <2>1, <2>2 DEF DispatchInit, DispatchTypeOK, SessionType, QueueType
<1>3. SessionInv
  BY DispatchAssumption DEF DispatchInit, SessionInv, NoOrphanSubscription
<1>4. \A t \in Task : Untouched(t)
  BY <1>1 DEF DispatchInit, Untouched, Waits, WaitsAt, NoWork
<1>5. ASSUME NEW t \in Task PROVE FrameInv(t) /\ FrameTruth(t)
  <2>1. \A g \in Gen : OneFrame(down[g], t)
    BY DEF DispatchInit, OneFrame
  <2>2. FrameInv(t)
    BY <1>4, <2>1 DEF FrameInv, Untouched, Waits
  <2> QED
    BY <1>4, <2>2, UntouchedTruth
<1>6. ASSUME NEW q \in Request PROVE Chosen(q) /\ AttemptInv(q) /\ ResultInv(q)
  <2>1. req[q] = NewAttempt /\ calls[q] = 0
    BY DEF DispatchInit
  <2>2. req[q].phase = "choosing" /\ req[q].attempt = 1 /\ req[q].result = "none"
    BY <2>1 DEF NewAttempt
  <2>3. \A a \in Attempt : <<q, a>> \in Task /\ ~(a < 1)
    BY DEF Task, Attempt
  <2>4. AttemptInv(q)
    BY <1>4, <2>1, <2>2, <2>3 DEF AttemptInv
  <2> QED
    BY <2>2, <2>4 DEF Chosen, ResultInv
<1> QED
  BY <1>2, <1>3, <1>5, <1>6 DEF DispatchInv

LEMMA DispatchPreserved == ASSUME DispatchInv, [DispatchNext]_dispatchVars PROVE DispatchInv'
<1>1. CASE DispatchNext
  <2>1. SessionInv'
    BY <1>1, SessionStep
  <2>2. ASSUME UNCHANGED req PROVE \A p \in Request : Chosen(p)'
    BY <1>1, <2>2, OwnerKept DEF DispatchInv, Chosen
  <2>3. DispatchTypeOK' /\ TaskInv' /\ \A p \in Request : Chosen(p)'
    <3>1. CASE \E r \in RemoteRunner : Connect(r) \/ Disable(r) \/ Disconnect(r)
      BY <2>2, <3>1, SessionTypes, SessionTasks DEF DispatchInv
    <3>2. ASSUME NEW g \in Gen, RunnerDrops(g) \/ ControlBreaks(g) \/ Unregister(g)
          PROVE  DispatchTypeOK' /\ TaskInv' /\ \A p \in Request : Chosen(p)'
      BY <2>2, <3>2, SessionTypes, SessionTasks DEF DispatchInv
    <3>3. ASSUME NEW g \in Gen, PublishFrom(g) \/ CancelTask(g)
          PROVE  DispatchTypeOK' /\ TaskInv' /\ \A p \in Request : Chosen(p)'
      BY <2>2, <3>3, FrameStepTypes, SessionTasks DEF DispatchInv
    <3>4. ASSUME NEW g \in Gen, AcceptTask(g)
          PROVE  DispatchTypeOK' /\ TaskInv' /\ \A p \in Request : Chosen(p)'
      BY <2>2, <3>4, FrameStepTypes, AcceptStep DEF DispatchInv
    <3>5. ASSUME NEW q \in Request, RequestSteps(q)
          PROVE  DispatchTypeOK' /\ TaskInv' /\ \A p \in Request : Chosen(p)'
      BY <1>1, <3>5, HandlerTypes, HandlerTasks
    <3>6. ASSUME NEW t \in Task, Worker(t)
          PROVE  DispatchTypeOK' /\ TaskInv' /\ \A p \in Request : Chosen(p)'
      BY <2>2, <3>6, WorkerTypes, WorkerStep
    <3> QED
      BY <1>1, <3>1, <3>2, <3>3, <3>4, <3>5, <3>6 DEF DispatchNext, Session
  <2> QED
    BY <2>1, <2>3 DEF DispatchInv, TaskInv
<1>2. CASE UNCHANGED dispatchVars
  <2>1. UNCHANGED <<connections, owner, controlEnd, runnerEnd, down, up, subs, events, terminal,
                    enabled, disabling, req, work, calls>>
    BY <1>2 DEF dispatchVars, hubVars, adminVars
  <2>2. DispatchTypeOK' /\ SessionInv' /\ \A q \in Request : Chosen(q)'
    BY <2>1 DEF DispatchInv, DispatchTypeOK, SessionType, QueueType, SessionInv, NoOrphanSubscription, Chosen
  <2>3. TaskInv'
    BY <2>1, HandlerCalm, QuietStep
  <2> QED
    BY <2>2, <2>3 DEF DispatchInv, TaskInv
<1> QED
  BY <1>1, <1>2

\* The invariant holds in every state: where a handler stands says what exists
\* of its tasks.
THEOREM DispatchInvariant == DispatchSpec => []DispatchInv
<1> QED
  BY DispatchInitially, DispatchPreserved, PTL DEF DispatchSpec

\* A request reaches the provider at most once, and never when it was recorded
\* as failed before the call, whatever the runners, the sessions and the
\* retry of start_runner_http_request do.
THEOREM DispatchAtMostOnce == DispatchSpec => []UpstreamAtMostOnce
<1>1. ASSUME DispatchInv PROVE UpstreamAtMostOnce
  <2>1. ASSUME NEW q \in Request PROVE calls[q] <= 1
    BY <1>1 DEF DispatchInv, AttemptInv
  <2>2. ASSUME NEW q \in Request, req[q].result = "before", req[q].status = "ok"
        PROVE  calls[q] = 0 /\ \A a \in Attempt : work[<<q, a>>].phase # "started"
    BY <1>1, <2>2 DEF DispatchInv, ResultInv, Over, Live, LivePhases
  <2> QED
    BY <2>1, <2>2 DEF UpstreamAtMostOnce
<1> QED
  BY <1>1, DispatchInvariant, PTL

\* No task stays subscribed to a session that was unregistered.
THEOREM DispatchNoOrphan == DispatchSpec => []NoOrphanSubscription
<1>1. ASSUME DispatchInv PROVE NoOrphanSubscription
  BY <1>1 DEF DispatchInv, SessionInv
<1> QED
  BY <1>1, DispatchInvariant, PTL

-----------------------------------------------------------------------------
(***************************************************************************)
(* Complete answers.  The chunks a handler still lacks are on their way as *)
(* long as the end of the answer may still arrive, and the end arrives     *)
(* after them.                                                             *)
(***************************************************************************)
IsKind(f, t, k) == f.task = t /\ f.kind = k
IsChunk(f, t, n) == IsKind(f, t, "chunk") /\ f.sequence = n

\* The chunks of a task that its handler has not taken.
Missing(t) == req[t[1]].chunks .. (work[t].chunks - 1)

\* The end of the answer is in a queue.
Ends(s, t) == \E f \in Elems(s) : IsKind(f, t, "finished")

\* The task's session still feeds the event channel of its handler.
Feeds(g, t) ==
  /\ Listening(t) /\ subs[t] = g /\ controlEnd[g] = "open" /\ CurrentSession(g)
  /\ Live(t) \/ Ends(up[g], t)

\* A subscription is to the session that has the task.
SubscribedInv(t) ==
  /\ work[t].phase = "none" => work[t].chunks = 0
  /\ subs[t] # 0 => /\ owner[subs[t]] # NoRemote
                    /\ work[t].phase # "none" => work[t].gen = subs[t]
                    /\ \A h \in Gen : WaitsAt(h, t) => h = subs[t]

\* The frames of a task are those of its worker so far.
SaidInv(t) ==
  /\ \A g \in Gen : \A f \in Elems(up[g]) :
       /\ IsKind(f, t, "finished") => work[t].phase = "ended"
       /\ IsKind(f, t, "chunk") => f.sequence < work[t].chunks
  /\ \A f \in Elems(events[t]) :
       /\ f.kind = "finished" => work[t].phase = "ended" /\ subs[t] = 0
       /\ f.kind = "chunk" => f.sequence < work[t].chunks

\* Nothing follows the end of the answer.
Closed(s, t) == \A i, j \in DOMAIN s : IsKind(s[i], t, "finished") /\ s[j].task = t => j <= i

OrderInv(t) == (\A g \in Gen : Closed(up[g], t)) /\ Closed(events[t], t)

\* No chunk is lost before the end.
ChunkInv(t) ==
  /\ Listening(t) => req[t[1]].chunks <= work[t].chunks
  /\ \A g \in Gen : Feeds(g, t) => \A n \in Missing(t) :
       \E f \in Elems(events[t]) \cup Elems(up[g]) : IsChunk(f, t, n)
  /\ Listening(t) /\ Ends(events[t], t) => \A n \in Missing(t) :
       \E f \in Elems(events[t]) : IsChunk(f, t, n)

\* What was handed on.
HandedInv(q) ==
  /\ Undispatched(q) => req[q].chunks = 0
  /\ req[q].result = "ok" => /\ work[TaskOf(q)].phase = "ended"
                             /\ req[q].chunks = work[TaskOf(q)].chunks

AnswerInv ==
  /\ \A t \in Task : SubscribedInv(t) /\ SaidInv(t) /\ OrderInv(t) /\ ChunkInv(t)
  /\ \A q \in Request : HandedInv(q)

LEMMA ElemsSplit ==
  ASSUME NEW S, NEW s \in Seq(S), s # << >>
  PROVE  \A f \in Elems(s) : f = Head(s) \/ f \in Elems(Tail(s))
<1>1. DOMAIN s = 1 .. Len(s) /\ Len(s) \in Nat \ {0} /\ Head(s) = s[1]
  OBVIOUS
<1>2. DOMAIN Tail(s) = 1 .. Len(s) - 1 /\ \A i \in 1 .. Len(s) - 1 : Tail(s)[i] = s[i + 1]
  BY <1>1
<1>3. ASSUME NEW i \in DOMAIN s, i # 1 PROVE s[i] \in Elems(Tail(s))
  <2>1. i - 1 \in DOMAIN Tail(s) /\ (i - 1) + 1 = i
    BY <1>1, <1>2, <1>3
  <2>2. Tail(s)[i - 1] = s[i]
    BY <1>2, <2>1
  <2> QED
    BY <2>1, <2>2 DEF Elems
<1> QED
  BY <1>1, <1>3 DEF Elems

LEMMA ClosedTail ==
  ASSUME NEW S, NEW s \in Seq(S), s # << >>, NEW t, Closed(s, t)
  PROVE  /\ Closed(Tail(s), t)
         /\ IsKind(Head(s), t, "finished") => \A f \in Elems(Tail(s)) : f.task # t
<1>1. DOMAIN s = 1 .. Len(s) /\ Len(s) \in Nat \ {0} /\ Head(s) = s[1]
  OBVIOUS
<1>2. DOMAIN Tail(s) = 1 .. Len(s) - 1 /\ \A i \in 1 .. Len(s) - 1 : Tail(s)[i] = s[i + 1]
  BY <1>1
<1>3. \A i \in 1 .. Len(s) - 1 : i + 1 \in DOMAIN s /\ ~(i + 1 <= 1) /\ 1 \in DOMAIN s
  BY <1>1
<1>4. ASSUME NEW i \in DOMAIN Tail(s), NEW j \in DOMAIN Tail(s),
             IsKind(Tail(s)[i], t, "finished"), Tail(s)[j].task = t
      PROVE  j <= i
  <2>1. i + 1 \in DOMAIN s /\ j + 1 \in DOMAIN s /\ IsKind(s[i + 1], t, "finished") /\ s[j + 1].task = t
    BY <1>2, <1>3, <1>4
  <2>2. j + 1 <= i + 1
    BY <2>1 DEF Closed
  <2> QED
    BY <1>1, <1>2, <2>2
<1>5. ASSUME IsKind(Head(s), t, "finished"), NEW f \in Elems(Tail(s)), f.task = t PROVE FALSE
  <2>1. PICK i \in DOMAIN Tail(s) : f = Tail(s)[i]
    BY DEF Elems
  <2>2. i + 1 \in DOMAIN s /\ s[i + 1].task = t /\ 1 \in DOMAIN s /\ ~(i + 1 <= 1)
    BY <1>2, <1>3, <1>5, <2>1
  <2> QED
    BY <1>1, <1>5, <2>2 DEF Closed
<1> QED
  BY <1>4, <1>5 DEF Closed

LEMMA ClosedAppend ==
  ASSUME NEW S, NEW s \in Seq(S), NEW e \in S, NEW t, Closed(s, t), e.task # t \/ ~Ends(s, t)
  PROVE  Closed(Append(s, e), t)
<1>1. DOMAIN Append(s, e) = 1 .. Len(s) + 1 /\ DOMAIN s = 1 .. Len(s) /\ Len(s) \in Nat
  OBVIOUS
<1>2. \A i \in 1 .. Len(s) : Append(s, e)[i] = s[i]
  OBVIOUS
<1>3. Append(s, e)[Len(s) + 1] = e
  OBVIOUS
<1>4. ASSUME NEW i \in DOMAIN Append(s, e), NEW j \in DOMAIN Append(s, e),
             IsKind(Append(s, e)[i], t, "finished"), Append(s, e)[j].task = t
      PROVE  j <= i
  <2>1. CASE i = Len(s) + 1
    BY <1>1, <2>1
  <2>2. CASE i # Len(s) + 1
    <3>1. i \in DOMAIN s /\ IsKind(s[i], t, "finished")
      BY <1>1, <1>2, <1>4, <2>2
    <3>2. Ends(s, t)
      BY <3>1 DEF Ends, Elems
    <3>3. j # Len(s) + 1
      BY <1>3, <1>4, <3>2
    <3>4. j \in DOMAIN s /\ s[j].task = t
      BY <1>1, <1>2, <1>4, <3>3
    <3> QED
      BY <3>1, <3>4 DEF Closed
  <2> QED
    BY <2>1, <2>2
<1> QED
  BY <1>4 DEF Closed

\* A prefix that has the end of the answer has all of it.
LEMMA ClosedPrefix ==
  ASSUME NEW S, NEW s \in Seq(S), NEW n \in 0 .. Len(s), NEW t, Closed(s, t)
  PROVE  /\ Closed(SubSeq(s, 1, n), t)
         /\ Ends(SubSeq(s, 1, n), t) =>
              \A f \in Elems(s) : f.task = t => f \in Elems(SubSeq(s, 1, n))
<1>1. DOMAIN s = 1 .. Len(s) /\ Len(s) \in Nat
  OBVIOUS
<1> DEFINE p == SubSeq(s, 1, n)
<1>2. DOMAIN p = 1 .. n /\ \A i \in 1 .. n : p[i] = s[i] /\ i \in DOMAIN s
  BY <1>1
<1> HIDE DEF p
<1>3. Closed(p, t)
  BY <1>2 DEF Closed
<1>4. ASSUME Ends(p, t), NEW f \in Elems(s), f.task = t PROVE f \in Elems(p)
  <2>1. PICK i \in DOMAIN p : IsKind(p[i], t, "finished")
    BY <1>4 DEF Ends, Elems
  <2>2. PICK j \in DOMAIN s : f = s[j]
    BY DEF Elems
  <2>3. j <= i
    BY <1>2, <1>4, <2>1, <2>2 DEF Closed
  <2>4. j \in DOMAIN p /\ p[j] = f
    BY <1>1, <1>2, <2>1, <2>2, <2>3
  <2> QED
    BY <2>4 DEF Elems
<1> QED
  BY <1>3, <1>4 DEF p

LEMMA ClosedEmpty == ASSUME NEW t PROVE Closed(<< >>, t) /\ ~Ends(<< >>, t)
<1>1. Elems(<< >>) = {}
  BY ElemsEmpty
<1> QED
  BY <1>1 DEF Closed, Ends

\* What is said of one task.
AnswerOf(t) == SubscribedInv(t) /\ SaidInv(t) /\ OrderInv(t) /\ ChunkInv(t)

\* A step that sends, takes and publishes no frame of task t.  What it loses
\* cannot reach the handler any more.
Still(t) ==
  /\ work'[t].gen = work[t].gen /\ work'[t].chunks = work[t].chunks
  /\ work'[t].phase = work[t].phase \/ (Live(t) /\ work'[t].phase = "aborted")
  /\ subs'[t] \in {subs[t], 0}
  /\ \A h \in Gen : WaitsAt(h, t)' => WaitsAt(h, t)
  /\ \A h \in Gen : Closed(up'[h], t)
  /\ \A h \in Gen : \A f \in Elems(up'[h]) : f.task = t => f \in Elems(up[h])
  /\ Listening(t)' => Listening(t) /\ req'[t[1]].chunks = req[t[1]].chunks
  /\ events'[t] = events[t] \/ (~Listening(t)' /\ events'[t] = << >>)
  /\ \A h \in Gen : Feeds(h, t)' =>
       Feeds(h, t) /\ \A f \in Elems(up[h]) : f.task = t => f \in Elems(up'[h])

LEMMA StillTask ==
  ASSUME NEW t \in Task, Still(t), AnswerOf(t), subs[t] \in Gen \cup {0},
         \A g \in Gen : owner[g] # NoRemote => owner'[g] # NoRemote
  PROVE  AnswerOf(t)'
<1>1. /\ work[t].phase = "none" <=> work'[t].phase = "none"
      /\ work[t].phase = "ended" => work'[t].phase = "ended"
  BY DEF Still, Live, LivePhases
<1>2. Elems(events'[t]) \subseteq Elems(events[t]) /\ Closed(events'[t], t)
      /\ (Listening(t)' => events'[t] = events[t])
  BY ElemsEmpty, ClosedEmpty DEF Still, AnswerOf, OrderInv
<1>3. SubscribedInv(t)'
  BY <1>1 DEF AnswerOf, SubscribedInv, Still
<1>4. SaidInv(t)'
  BY <1>1, <1>2 DEF AnswerOf, SaidInv, Still, IsKind
<1>5. OrderInv(t)'
  BY <1>2 DEF OrderInv, Still, Closed
<1>6. ChunkInv(t)'
  <2>1. Listening(t)' => Missing(t)' = Missing(t)
    BY DEF Missing, Still
  <2>2. Listening(t)' => req'[t[1]].chunks <= work'[t].chunks
    BY DEF AnswerOf, ChunkInv, Still
  <2>3. ASSUME NEW g \in Gen, Feeds(g, t)', NEW n \in Missing(t)'
        PROVE  \E f \in Elems(events'[t]) \cup Elems(up'[g]) : IsChunk(f, t, n)
    <3>1. Listening(t)' /\ Feeds(g, t) /\ n \in Missing(t) /\ events'[t] = events[t]
      BY <1>2, <2>1, <2>3 DEF Still, Feeds
    <3>2. PICK f \in Elems(events[t]) \cup Elems(up[g]) : IsChunk(f, t, n)
      BY <3>1 DEF AnswerOf, ChunkInv
    <3>3. f.task = t
      BY <3>2 DEF IsChunk, IsKind
    <3> QED
      BY <2>3, <3>1, <3>2, <3>3 DEF Still
  <2>4. ASSUME Listening(t)', Ends(events'[t], t), NEW n \in Missing(t)'
        PROVE  \E f \in Elems(events'[t]) : IsChunk(f, t, n)
    <3>1. Listening(t) /\ n \in Missing(t) /\ events'[t] = events[t]
      BY <1>2, <2>1, <2>4 DEF Still
    <3> QED
      BY <2>4, <3>1 DEF AnswerOf, ChunkInv
  <2> QED
    BY <2>2, <2>3, <2>4 DEF ChunkInv, Ends
<1> QED
  BY <1>3, <1>4, <1>5, <1>6 DEF AnswerOf

\* What was handed on stays so while the handler does not move.
LEMMA HandedStill ==
  ASSUME NEW q \in Request, HandedInv(q), req'[q] = req[q],
         work[TaskOf(q)].phase = "ended" =>
           work'[TaskOf(q)].phase = "ended" /\ work'[TaskOf(q)].chunks = work[TaskOf(q)].chunks
  PROVE  HandedInv(q)'
<1>1. TaskOf(q)' = TaskOf(q) /\ (Undispatched(q)' <=> Undispatched(q))
  BY DEF TaskOf, Undispatched
<1> QED
  BY <1>1 DEF HandedInv

\* The facts that every step of the proof starts from.
LEMMA AnswerFacts ==
  ASSUME DispatchInv, AnswerInv
  PROVE  /\ DispatchTypeOK /\ SessionType /\ SessionInv
         /\ down \in [Gen -> Seq(DownFrame)] /\ up \in [Gen -> Seq(UpFrame)]
         /\ subs \in [Task -> Gen \cup {0}] /\ events \in [Task -> Seq(UpFrame)]
         /\ req \in [Request -> HandlerType] /\ work \in [Task -> WorkType]
         /\ \A t \in Task : AnswerOf(t) /\ FrameInv(t) /\ FrameTruth(t)
         /\ \A q \in Request : HandedInv(q)
         /\ \A g \in Gen, t \in Task : Closed(up[g], t)
         /\ 0 \notin Gen
  BY DEF DispatchInv, DispatchTypeOK, QueueType, AnswerInv, AnswerOf, OrderInv, Gen

\* A step that is still for every task and moves no handler.
LEMMA StillStep ==
  ASSUME DispatchInv, AnswerInv, UNCHANGED req, \A t \in Task : Still(t),
         \A g \in Gen : owner[g] # NoRemote => owner'[g] # NoRemote
  PROVE  AnswerInv'
<1>1. ASSUME NEW t \in Task PROVE AnswerOf(t)'
  BY AnswerFacts, StillTask
<1>2. ASSUME NEW q \in Request PROVE HandedInv(q)'
  <2>1. TaskOf(q) \in Task
    BY AnswerFacts, RunnerTyped
  <2>2. work[TaskOf(q)].phase = "ended" =>
          work'[TaskOf(q)].phase = "ended" /\ work'[TaskOf(q)].chunks = work[TaskOf(q)].chunks
    BY <2>1 DEF Still, Live, LivePhases
  <2> QED
    BY <2>2, AnswerFacts, HandedStill
<1> QED
  BY <1>1, <1>2 DEF AnswerInv, AnswerOf

\* The steps of sessions that lose frames of tasks that get no further.
LEMMA SessionAnswers ==
  ASSUME DispatchInv, AnswerInv, DispatchNext,
         \/ \E r \in RemoteRunner : Connect(r) \/ Disable(r) \/ Disconnect(r)
         \/ \E g \in Gen : RunnerDrops(g) \/ ControlBreaks(g) \/ Unregister(g) \/ CancelTask(g)
  PROVE  AnswerInv'
<1>1. \A g \in Gen : owner[g] # NoRemote => owner'[g] = owner[g]
  BY OwnerKept
<1>2. /\ 0 \notin Gen /\ down \in [Gen -> Seq(DownFrame)] /\ up \in [Gen -> Seq(UpFrame)]
      /\ subs \in [Task -> Gen \cup {0}] /\ work \in [Task -> WorkType]
      /\ \A g \in Gen, t \in Task : Closed(up[g], t)
      /\ DispatchTypeOK /\ SessionType
  BY AnswerFacts
<1>3. \A t \in Task : subs[t] # 0 => owner[subs[t]] # NoRemote
  BY AnswerFacts DEF AnswerOf, SubscribedInv
<1>4. ASSUME UNCHANGED <<req, events, down, up, work>>, \A t \in Task : subs'[t] \in {subs[t], 0},
             \A h \in Gen : /\ owner[h] # NoRemote
                            /\ controlEnd'[h] = "open" /\ CurrentSession(h)'
                            => controlEnd[h] = "open" /\ CurrentSession(h)
      PROVE  AnswerInv'
  <2>1. ASSUME NEW t \in Task PROVE Still(t)
    <3>1. \A h \in Gen : Feeds(h, t)' => Feeds(h, t)
      <4>1. ASSUME NEW h \in Gen, Feeds(h, t)' PROVE Feeds(h, t)
        <5>1. subs[t] = h /\ controlEnd'[h] = "open" /\ CurrentSession(h)' /\ Listening(t)
              /\ (Live(t) \/ Ends(up[h], t))
          BY <1>2, <1>4, <4>1 DEF Feeds, Listening, Live, Ends
        <5>2. owner[h] # NoRemote
          BY <1>2, <1>3, <5>1
        <5> QED
          BY <1>4, <5>1, <5>2 DEF Feeds
      <4> QED
        BY <4>1
    <3> QED
      BY <1>2, <1>4, <3>1 DEF Still, WaitsAt, Listening
  <2> QED
    BY <1>1, <1>4, <2>1, StillStep
<1>5. ASSUME NEW r \in RemoteRunner, Connect(r) PROVE AnswerInv'
  <2>1. PICK g \in Gen :
          /\ owner[g] = NoRemote
          /\ owner' = [owner EXCEPT ![g] = r]
          /\ connections' = [connections EXCEPT ![r] = g]
          /\ controlEnd' = [controlEnd EXCEPT ![g] = "open"]
          /\ UNCHANGED <<req, events, down, up, work, subs>>
    BY <1>5 DEF Connect
  <2>2. ASSUME NEW h \in Gen, owner[h] # NoRemote, controlEnd'[h] = "open", CurrentSession(h)'
        PROVE  controlEnd[h] = "open" /\ CurrentSession(h)
    <3>1. h # g /\ owner'[h] = owner[h] /\ owner[h] \in RemoteRunner
      BY <1>2, <2>1, <2>2 DEF SessionType
    <3>2. connections'[owner[h]] = h
      BY <2>2, <3>1 DEF CurrentSession
    <3>3. connections[owner[h]] = h
      BY <1>2, <2>1, <3>1, <3>2 DEF SessionType
    <3>4. controlEnd[h] = "open"
      BY <1>2, <2>1, <2>2, <3>1 DEF SessionType
    <3> QED
      BY <3>3, <3>4 DEF CurrentSession
  <2> QED
    BY <1>4, <2>1, <2>2
<1>6. ASSUME NEW r \in RemoteRunner, Disable(r) PROVE AnswerInv'
  BY <1>4, <1>6 DEF Disable, hubVars, CurrentSession
<1>7. ASSUME NEW r \in RemoteRunner, Disconnect(r) PROVE AnswerInv'
  <2>1. /\ connections' = [connections EXCEPT ![r] = 0]
        /\ UNCHANGED <<req, events, down, up, work, subs, owner, controlEnd>>
    BY <1>7 DEF Disconnect
  <2>2. \A h \in Gen : CurrentSession(h)' => CurrentSession(h)
    BY <1>2, <2>1 DEF SessionType, CurrentSession
  <2> QED
    BY <1>4, <2>1, <2>2
<1>8. ASSUME NEW g \in Gen, Unregister(g) PROVE AnswerInv'
  <2>1. /\ controlEnd[g] = "leaving" /\ controlEnd' = [controlEnd EXCEPT ![g] = "closed"]
        /\ connections' = connections \/ connections' = [connections EXCEPT ![owner[g]] = 0]
        /\ \A t \in Task : subs'[t] \in {subs[t], 0}
        /\ UNCHANGED <<req, events, down, up, work, owner>>
    BY <1>8 DEF Unregister
  <2>2. \A h \in Gen : owner[h] # NoRemote /\ CurrentSession(h)' => CurrentSession(h)
    BY <1>2, <2>1 DEF SessionType, CurrentSession
  <2>3. \A h \in Gen : controlEnd'[h] = "open" => controlEnd[h] = "open"
    BY <1>2, <2>1 DEF SessionType
  <2> QED
    BY <1>4, <2>1, <2>2, <2>3
<1>9. ASSUME NEW g \in Gen, ControlBreaks(g) PROVE AnswerInv'
  <2>1. /\ controlEnd' = [controlEnd EXCEPT ![g] = "leaving"] /\ up' = [up EXCEPT ![g] = << >>]
        /\ UNCHANGED <<req, events, down, work, owner, subs, connections>>
    BY <1>9 DEF ControlBreaks
  <2>2. \A h \in Gen : h # g => up'[h] = up[h] /\ controlEnd'[h] = controlEnd[h]
    BY <1>2, <2>1 DEF SessionType
  <2>3. up'[g] = << >> /\ controlEnd'[g] # "open"
    BY <1>2, <2>1 DEF SessionType
  <2>4. ASSUME NEW t \in Task PROVE Still(t)
    <3>1. ASSUME NEW h \in Gen, Feeds(h, t)' PROVE Feeds(h, t) /\ up'[h] = up[h]
      <4>1. h # g
        BY <2>3, <3>1 DEF Feeds
      <4> QED
        BY <2>1, <2>2, <3>1, <4>1 DEF Feeds, Listening, Live, CurrentSession, Ends
    <3>2. ASSUME NEW h \in Gen
          PROVE  Closed(up'[h], t) /\ \A f \in Elems(up'[h]) : f.task = t => f \in Elems(up[h])
      <4>1. CASE h = g
        BY <2>3, <4>1, ClosedEmpty, ElemsEmpty
      <4>2. CASE h # g
        BY <1>2, <2>2, <4>2
      <4> QED
        BY <4>1, <4>2
    <3>3. \A h \in Gen : WaitsAt(h, t)' => WaitsAt(h, t)
      BY <2>1 DEF WaitsAt
    <3>4. Listening(t)' => Listening(t) /\ req'[t[1]].chunks = req[t[1]].chunks
      BY <2>1 DEF Listening
    <3> QED
      BY <2>1, <3>1, <3>2, <3>3, <3>4 DEF Still
  <2> QED
    BY <1>1, <2>1, <2>4, StillStep
<1>10. ASSUME NEW g \in Gen, RunnerDrops(g) PROVE AnswerInv'
  <2>1. PICK n \in 0 .. Len(up[g]) : up' = [up EXCEPT ![g] = SubSeq(@, 1, n)]
    BY <1>10 DEF RunnerDrops
  <2>2. /\ down' = [down EXCEPT ![g] = << >>]
        /\ UNCHANGED <<req, events, owner, subs, connections, controlEnd>>
        /\ \A t \in Task : IF work[t].gen = g /\ Live(t)
                           THEN work'[t] = [work[t] EXCEPT !.phase = "aborted"]
                           ELSE work'[t] = work[t]
    BY <1>10 DEF RunnerDrops
  <2>3. ASSUME NEW t \in Task PROVE Still(t)
    <3>1. /\ work'[t].gen = work[t].gen /\ work'[t].chunks = work[t].chunks
          /\ work'[t].phase = work[t].phase \/ (Live(t) /\ work'[t].phase = "aborted")
          /\ work[t].gen = g => ~Live(t)'
      <4>1. CASE work[t].gen = g /\ Live(t)
        BY <1>2, <2>2, <4>1 DEF WorkType, Live, LivePhases
      <4>2. CASE ~(work[t].gen = g /\ Live(t))
        BY <1>2, <2>2, <4>2 DEF Live
      <4> QED
        BY <4>1, <4>2
    <3>2. /\ Closed(SubSeq(up[g], 1, n), t) /\ Elems(SubSeq(up[g], 1, n)) \subseteq Elems(up[g])
          /\ Ends(SubSeq(up[g], 1, n), t) =>
               \A f \in Elems(up[g]) : f.task = t => f \in Elems(SubSeq(up[g], 1, n))
      BY <1>2, ClosedPrefix, ElemsPrefix
    <3>3. up'[g] = SubSeq(up[g], 1, n) /\ \A h \in Gen : h # g => up'[h] = up[h]
      BY <1>2, <2>1
    <3>4. ASSUME NEW h \in Gen
          PROVE  Closed(up'[h], t) /\ Elems(up'[h]) \subseteq Elems(up[h])
      BY <1>2, <3>2, <3>3
    <3>5. \A h \in Gen : WaitsAt(h, t)' => WaitsAt(h, t)
      <4>1. \A h \in Gen : QueueCalm(h, t)
        BY <1>2, <2>2 DEF QueueCalm
      <4> QED
        BY <1>2, <4>1, QueueCalmFrames
    <3>6. Live(t)' => Live(t) /\ work[t].gen # g
      BY <3>1 DEF Live, LivePhases
    <3>7. ASSUME NEW h \in Gen, Feeds(h, t)'
          PROVE  Feeds(h, t) /\ \A f \in Elems(up[h]) : f.task = t => f \in Elems(up'[h])
      <4>1. /\ subs[t] = h /\ controlEnd[h] = "open" /\ CurrentSession(h) /\ Listening(t)
            /\ Live(t)' \/ Ends(up'[h], t)
        BY <2>2, <3>7 DEF Feeds, CurrentSession, Listening, Ends
      <4>2. Live(t)' => h # g
        <5>1. work[t].phase # "none" => work[t].gen = h
          BY <1>2, <4>1, AnswerFacts DEF AnswerOf, SubscribedInv
        <5> QED
          BY <3>6, <5>1 DEF Live, LivePhases
      <4>3. Ends(up'[h], t) => Ends(up[h], t)
        BY <3>4 DEF Ends
      <4>4. Feeds(h, t)
        BY <3>6, <4>1, <4>3 DEF Feeds
      <4>5. \A f \in Elems(up[h]) : f.task = t => f \in Elems(up'[h])
        BY <3>2, <3>3, <4>1, <4>2
      <4> QED
        BY <4>4, <4>5
    <3>8. Listening(t)' => Listening(t) /\ req'[t[1]].chunks = req[t[1]].chunks
      BY <2>2 DEF Listening
    <3> QED
      BY <2>2, <3>1, <3>4, <3>5, <3>7, <3>8 DEF Still
  <2> QED
    BY <1>1, <2>2, <2>3, StillStep
<1>11. ASSUME NEW g \in Gen, CancelTask(g) PROVE AnswerInv'
  <2>1. /\ down[g] # << >> /\ down' = [down EXCEPT ![g] = Tail(@)]
        /\ UNCHANGED <<req, events, up, owner, subs, connections, controlEnd>>
        /\ work' = work \/ work' = [work EXCEPT ![Head(down[g]).task].cancelled = TRUE]
    BY <1>11 DEF CancelTask, runnerOnly
  <2>2. ASSUME NEW t \in Task PROVE Still(t)
    <3>1. work'[t] = work[t] \/ work'[t] = [work[t] EXCEPT !.cancelled = TRUE]
      BY <1>2, <2>1
    <3>2. /\ work'[t].gen = work[t].gen /\ work'[t].chunks = work[t].chunks
          /\ work'[t].phase = work[t].phase
      BY <1>2, <3>1 DEF WorkType
    <3>3. \A h \in Gen : WaitsAt(h, t)' => WaitsAt(h, t)
      <4>1. \A h \in Gen : QueueCalm(h, t)
        BY <1>2, <2>1 DEF QueueCalm
      <4> QED
        BY <1>2, <4>1, QueueCalmFrames
    <3>4. \A h \in Gen : Feeds(h, t)' => Feeds(h, t)
      BY <2>1, <3>2 DEF Feeds, Listening, Live, CurrentSession, Ends
    <3>5. Listening(t)' => Listening(t) /\ req'[t[1]].chunks = req[t[1]].chunks
      BY <2>1 DEF Listening
    <3> QED
      BY <1>2, <2>1, <3>2, <3>3, <3>4, <3>5 DEF Still
  <2> QED
    BY <1>1, <2>1, <2>2, StillStep
<1> QED
  BY <1>5, <1>6, <1>7, <1>8, <1>9, <1>10, <1>11

\* A frame is published: to the handler, or to nobody and then nothing follows.
LEMMA PublishAnswers ==
  ASSUME DispatchInv, AnswerInv, NEW g \in Gen, PublishFrom(g)
  PROVE  AnswerInv'
<1>1. /\ 0 \notin Gen /\ up \in [Gen -> Seq(UpFrame)]
      /\ subs \in [Task -> Gen \cup {0}] /\ events \in [Task -> Seq(UpFrame)]
      /\ \A h \in Gen, u \in Task : Closed(up[h], u)
  BY AnswerFacts
<1>2. PICK f : f = Head(up[g])
  OBVIOUS
<1>3. /\ controlEnd[g] = "open" /\ up[g] # << >> /\ up' = [up EXCEPT ![g] = Tail(@)]
      /\ UNCHANGED <<connections, owner, controlEnd, down, req, work>>
  BY DEF PublishFrom
<1>4. /\ f \in UpFrame /\ f \in Elems(up[g]) /\ Elems(Tail(up[g])) \subseteq Elems(up[g])
      /\ \A e \in Elems(up[g]) : e = f \/ e \in Elems(Tail(up[g]))
  BY <1>1, <1>2, <1>3, ElemsTail, ElemsSplit
<1>5. PICK t \in Task : t = f.task
  BY <1>4, FrameTask
<1> DEFINE mine == CurrentSession(g) /\ subs[t] = g
<1> DEFINE full == ~Listening(t) \/ Len(events[t]) = EventCap
<1> DEFINE last == f.kind \in TerminalKinds
<1>6. /\ events' = IF mine /\ ~full THEN [events EXCEPT ![t] = Append(@, f)] ELSE events
      /\ subs' = IF mine /\ (last \/ full) THEN [subs EXCEPT ![t] = 0] ELSE subs
  BY <1>2, <1>5, Zenon DEF PublishFrom
<1>7. up'[g] = Tail(up[g]) /\ \A h \in Gen : h # g => up'[h] = up[h]
  BY <1>1, <1>3
<1>8. ASSUME NEW u \in Task, NEW h \in Gen
      PROVE  Closed(up'[h], u) /\ Elems(up'[h]) \subseteq Elems(up[h])
  <2>1. Closed(Tail(up[g]), u)
    BY <1>1, <1>3, ClosedTail
  <2> QED
    BY <1>1, <1>4, <1>7, <2>1
<1>9. ASSUME NEW u \in Task
      PROVE  /\ Listening(u)' <=> Listening(u)
             /\ Live(u)' <=> Live(u)
             /\ \A h \in Gen : (WaitsAt(h, u)' => WaitsAt(h, u)) /\ (CurrentSession(h)' <=> CurrentSession(h))
             /\ \A h \in Gen : Ends(up'[h], u) => Ends(up[h], u)
             /\ req'[u[1]].chunks = req[u[1]].chunks
  <2>1. Listening(u)' <=> Listening(u)
    BY <1>3 DEF Listening
  <2>2. Live(u)' <=> Live(u)
    BY <1>3 DEF Live
  <2>3. \A h \in Gen : (WaitsAt(h, u)' => WaitsAt(h, u)) /\ (CurrentSession(h)' <=> CurrentSession(h))
    BY <1>3 DEF WaitsAt, CurrentSession
  <2>4. \A h \in Gen : Ends(up'[h], u) => Ends(up[h], u)
    BY <1>8 DEF Ends
  <2> QED
    BY <1>3, <2>1, <2>2, <2>3, <2>4
<1>10. ASSUME NEW u \in Task, subs'[u] \in {subs[u], 0}, events'[u] = events[u],
              \A h \in Gen : subs'[u] = h /\ CurrentSession(h) =>
                \A e \in Elems(up[h]) : e.task = u => e \in Elems(up'[h])
       PROVE  Still(u)
  <2>1. ASSUME NEW h \in Gen, Feeds(h, u)'
        PROVE  Feeds(h, u) /\ \A e \in Elems(up[h]) : e.task = u => e \in Elems(up'[h])
    <3>1. /\ subs'[u] = h /\ CurrentSession(h) /\ Listening(u) /\ controlEnd[h] = "open"
          /\ Live(u) \/ Ends(up[h], u)
      BY <1>3, <1>9, <2>1 DEF Feeds, Ends
    <3>2. subs[u] = h
      BY <1>1, <1>10, <3>1
    <3> QED
      BY <1>10, <3>1, <3>2 DEF Feeds
  <2> QED
    BY <1>3, <1>8, <1>9, <1>10, <2>1 DEF Still
<1>11. ASSUME NEW u \in Task, u # t PROVE Still(u)
  <2>1. subs'[u] = subs[u] /\ events'[u] = events[u]
    BY <1>1, <1>6, <1>11
  <2>2. \A h \in Gen : \A e \in Elems(up[h]) : e.task = u => e \in Elems(up'[h])
    BY <1>4, <1>5, <1>7, <1>11
  <2> QED
    BY <1>10, <2>1, <2>2
<1>12. \A u \in Task : AnswerOf(u) /\ subs[u] \in Gen \cup {0}
  BY AnswerFacts
<1>13. \A h \in Gen : owner[h] # NoRemote => owner'[h] # NoRemote
  BY <1>3
<1>14. AnswerOf(t)'
  <2>1. CASE ~mine
    <3>1. subs' = subs /\ events' = events
      BY <1>6, <2>1
    <3>2. \A h \in Gen : subs'[t] = h /\ CurrentSession(h) =>
            \A e \in Elems(up[h]) : e.task = t => e \in Elems(up'[h])
      BY <1>7, <2>1, <3>1
    <3> QED
      BY <1>10, <1>12, <1>13, <3>1, <3>2, StillTask
  <2>2. CASE mine /\ full
    <3>1. subs'[t] = 0 /\ events' = events
      BY <1>1, <1>6, <2>2
    <3> QED
      BY <1>1, <1>10, <1>12, <1>13, <3>1, StillTask
  <2>3. CASE mine /\ ~full
    <3>1. /\ events'[t] = Append(events[t], f) /\ subs[t] = g /\ CurrentSession(g) /\ Listening(t)
          /\ subs'[t] = IF last THEN 0 ELSE g
      BY <1>1, <1>6, <2>3
    <3> HIDE DEF mine, full
    <3>2. Elems(events'[t]) = Elems(events[t]) \cup {f}
      BY <1>1, <1>4, <3>1, ElemsAppend
    <3>3. AnswerOf(t)
      BY <1>12
    <3>4. ~Ends(events[t], t) /\ \A e \in Elems(events[t]) : e.kind # "finished"
      BY <1>1, <3>1, <3>3 DEF AnswerOf, SaidInv, Ends, IsKind
    <3>5. f.kind = "finished" => last
      BY DEF TerminalKinds
    <3> HIDE DEF last
    <3>6. SubscribedInv(t)'
      <4>1. subs'[t] # 0 => subs'[t] = subs[t]
        BY <3>1
      <4> QED
        BY <1>3, <1>9, <3>3, <4>1 DEF AnswerOf, SubscribedInv
    <3>7. SaidInv(t)'
      <4>1. \A h \in Gen : \A e \in Elems(up'[h]) :
              /\ IsKind(e, t, "finished") => work'[t].phase = "ended"
              /\ IsKind(e, t, "chunk") => e.sequence < work'[t].chunks
        BY <1>3, <1>8, <3>3 DEF AnswerOf, SaidInv
      <4>2. /\ f.kind = "finished" => work'[t].phase = "ended" /\ subs'[t] = 0
            /\ f.kind = "chunk" => f.sequence < work'[t].chunks
        BY <1>3, <1>4, <1>5, <3>1, <3>3, <3>5 DEF AnswerOf, SaidInv, IsKind
      <4>3. \A e \in Elems(events[t]) :
              e.kind = "chunk" => e.sequence < work'[t].chunks
        BY <1>3, <3>3 DEF AnswerOf, SaidInv
      <4>4. \A e \in Elems(events'[t]) :
              /\ e.kind = "finished" => work'[t].phase = "ended" /\ subs'[t] = 0
              /\ e.kind = "chunk" => e.sequence < work'[t].chunks
        BY <3>2, <3>4, <4>2, <4>3
      <4> QED
        BY <4>1, <4>4 DEF SaidInv
    <3>8. OrderInv(t)'
      <4>1. Closed(events'[t], t)
        BY <1>1, <1>4, <3>1, <3>3, <3>4, ClosedAppend DEF AnswerOf, OrderInv
      <4> QED
        BY <1>8, <4>1 DEF OrderInv, Closed
    <3>9. Missing(t)' = Missing(t)
      BY <1>3 DEF Missing
    <3>10. Listening(t)' => req'[t[1]].chunks <= work'[t].chunks
      BY <1>3, <1>9, <3>3 DEF AnswerOf, ChunkInv
    <3>11. ASSUME NEW h \in Gen, Feeds(h, t)', NEW n \in Missing(t)
           PROVE  \E e \in Elems(events'[t]) \cup Elems(up'[h]) : IsChunk(e, t, n)
      <4>1. h = g
        BY <1>1, <3>1, <3>11 DEF Feeds
      <4>2. Live(t) \/ Ends(up[g], t)
        BY <1>9, <3>11, <4>1 DEF Feeds, Ends
      <4>3. Feeds(g, t)
        BY <1>3, <3>1, <4>2 DEF Feeds
      <4>4. PICK e \in Elems(events[t]) \cup Elems(up[g]) : IsChunk(e, t, n)
        BY <3>3, <3>11, <4>3 DEF AnswerOf, ChunkInv
      <4> QED
        BY <1>4, <1>7, <3>2, <4>1, <4>4
    <3>12. ASSUME Ends(events'[t], t), NEW n \in Missing(t)
           PROVE  \E e \in Elems(events'[t]) : IsChunk(e, t, n)
      <4>1. IsKind(f, t, "finished")
        BY <3>2, <3>4, <3>12 DEF Ends, IsKind
      <4>2. Feeds(g, t)
        BY <1>3, <1>4, <3>1, <4>1 DEF Feeds, Ends
      <4>3. PICK e \in Elems(events[t]) \cup Elems(up[g]) : IsChunk(e, t, n)
        BY <3>3, <3>12, <4>2 DEF AnswerOf, ChunkInv
      <4>4. e # f
        BY <4>1, <4>3 DEF IsChunk, IsKind
      <4>5. e \notin Elems(Tail(up[g]))
        <5>1. \A d \in Elems(Tail(up[g])) : d.task # t
          BY <1>1, <1>2, <1>3, <4>1, ClosedTail
        <5> QED
          BY <4>3, <5>1 DEF IsChunk, IsKind
      <4> QED
        BY <1>4, <3>2, <4>3, <4>4, <4>5
    <3>13. ChunkInv(t)'
      BY <3>9, <3>10, <3>11, <3>12 DEF ChunkInv, Ends
    <3> QED
      BY <3>6, <3>7, <3>8, <3>13 DEF AnswerOf
  <2> QED
    BY <2>1, <2>2, <2>3
<1>15. ASSUME NEW u \in Task PROVE AnswerOf(u)'
  BY <1>11, <1>12, <1>13, <1>14, StillTask
<1>16. ASSUME NEW q \in Request PROVE HandedInv(q)'
  BY <1>3, AnswerFacts, HandedStill
<1> QED
  BY <1>15, <1>16 DEF AnswerInv, AnswerOf

\* The frame a worker says: the end when it ends, and its chunks in order.
Speaks(t, f) ==
  /\ f \in UpFrame /\ f.task = t /\ Say(work[t].gen, f)
  /\ f.kind = "finished" => work'[t].phase = "ended"
  /\ f.kind = "chunk" => f.sequence = work[t].chunks /\ work'[t].chunks = work[t].chunks + 1
  /\ f.kind # "chunk" => work'[t].chunks = work[t].chunks

LEMMA WorkerSpeaks ==
  ASSUME NEW t \in Task, work \in [Task -> WorkType], Worker(t)
  PROVE  \/ UNCHANGED up /\ work'[t].chunks = work[t].chunks
         \/ \E f : Speaks(t, f)
<1>1. {"accepted", "started", "called", "answering", "ended"} \subseteq WorkPhases
  BY DEF WorkPhases, LivePhases
<1>2. ASSUME NEW f, Plain(f, t), f.kind # "chunk", NEW to \in WorkPhases,
             f.kind = "finished" => to = "ended",
             work' = [work EXCEPT ![t].phase = to], Say(work[t].gen, f)
      PROVE  Speaks(t, f)
  <2>1. work'[t].phase = to /\ work'[t].chunks = work[t].chunks
    BY <1>2, PhaseEffect
  <2> QED
    BY <1>2, <2>1 DEF Speaks, Plain
<1>3. /\ Plain(Accepted(t), t) /\ Accepted(t).kind = "accepted"
      /\ Plain(UpstreamStarted(t), t) /\ UpstreamStarted(t).kind = "started"
      /\ Plain(Finished(t), t) /\ Finished(t).kind = "finished"
  BY PlainFrames DEF Accepted, UpstreamStarted, Finished
<1>4. PICK no \in UpFrame : no = Failed(t, FALSE) /\ Plain(no, t) /\ no.kind = "failed"
  BY PlainFrames DEF Failed, Plain
<1>5. PICK yes \in UpFrame : yes = Failed(t, TRUE) /\ yes.kind = "failed" /\ yes.task = t
  BY PlainFrames DEF Failed
<1>6. CASE CallUpstream(t)
  <2>1. UNCHANGED up /\ work' = [work EXCEPT ![t].phase = "called"]
    BY <1>6, Zenon DEF CallUpstream
  <2> QED
    BY <1>1, <2>1, PhaseEffect
<1>7. CASE UpstreamChunk(t)
  <2>1. PICK f : f = Chunk(t, work[t].chunks)
    OBVIOUS
  <2>2. f \in UpFrame /\ f.task = t /\ f.kind = "chunk" /\ f.sequence = work[t].chunks
    BY <2>1, FrameTypes DEF Chunk, WorkType
  <2>3. work' = [work EXCEPT ![t].chunks = @ + 1] /\ Say(work[t].gen, f)
    BY <1>7, <2>1, Zenon DEF UpstreamChunk
  <2>4. work'[t].chunks = work[t].chunks + 1
    BY <2>3 DEF WorkType
  <2> QED
    BY <2>2, <2>3, <2>4 DEF Speaks
<1>8. CASE WorkerStopped(t)
  <2>1. work' = [work EXCEPT ![t].phase = "ended"] /\ Say(work[t].gen, no)
    BY <1>4, <1>8, Zenon DEF WorkerStopped
  <2> QED
    BY <1>1, <1>2, <1>4, <2>1
<1>9. ASSUME NEW from, NEW to, NEW f, Step(t, from, to, f)
      PROVE  work' = [work EXCEPT ![t].phase = to] /\ Say(work[t].gen, f)
  BY <1>9, Zenon DEF Step
<1>10. CASE AnnounceAccepted(t)
  BY <1>1, <1>2, <1>3, <1>9, <1>10 DEF AnnounceAccepted
<1>11. CASE AnnounceUpstream(t)
  BY <1>1, <1>2, <1>3, <1>9, <1>11 DEF AnnounceUpstream
<1>12. CASE FailBeforeUpstream(t)
  <2>1. work' = [work EXCEPT ![t].phase = "ended"] /\ Say(work[t].gen, yes)
    BY <1>5, <1>9, <1>12, Zenon DEF FailBeforeUpstream
  <2>2. work'[t].chunks = work[t].chunks
    BY <1>1, <2>1, PhaseEffect
  <2> QED
    BY <1>5, <2>1, <2>2 DEF Speaks
<1>13. CASE UpstreamAnswers(t)
  <2>1. PICK s \in Status : Step(t, "called", "answering", ResponseStarted(t, s))
    BY <1>13 DEF UpstreamAnswers
  <2>2. Plain(ResponseStarted(t, s), t) /\ ResponseStarted(t, s).kind = "response"
    BY PlainFrames DEF ResponseStarted
  <2> QED
    BY <1>1, <1>2, <1>9, <2>1, <2>2
<1>14. CASE UpstreamFails(t)
  <2>1. work' = [work EXCEPT ![t].phase = "ended"] /\ Say(work[t].gen, no)
    BY <1>4, <1>9, <1>14, Zenon DEF UpstreamFails
  <2> QED
    BY <1>1, <1>2, <1>4, <2>1
<1>15. CASE UpstreamFinishes(t)
  BY <1>1, <1>2, <1>3, <1>9, <1>15 DEF UpstreamFinishes
<1> QED
  BY <1>6, <1>7, <1>8, <1>10, <1>11, <1>12, <1>13, <1>14, <1>15 DEF Worker

\* A step at the runner that concerns one task only.
LEMMA OtherTasks ==
  ASSUME DispatchInv, AnswerInv, NEW t \in Task,
         UNCHANGED <<connections, owner, controlEnd, subs, events, req>>,
         \A u \in Task \ {t} : work'[u] = work[u],
         \A h \in Gen, u \in Task : WaitsAt(h, u)' => WaitsAt(h, u),
         \A h \in Gen : \/ up'[h] = up[h]
                        \/ \E f \in UpFrame : f.task = t /\ up'[h] = Append(up[h], f)
  PROVE  \A u \in Task \ {t} : AnswerOf(u)'
<1>1. /\ up \in [Gen -> Seq(UpFrame)] /\ subs \in [Task -> Gen \cup {0}]
      /\ \A h \in Gen, u \in Task : Closed(up[h], u)
      /\ \A u \in Task : AnswerOf(u)
  BY AnswerFacts
<1>2. ASSUME NEW u \in Task \ {t} PROVE Still(u)
  <2>1. ASSUME NEW h \in Gen
        PROVE  /\ Closed(up'[h], u) /\ Elems(up[h]) \subseteq Elems(up'[h])
               /\ \A e \in Elems(up'[h]) : e.task = u => e \in Elems(up[h])
    <3>1. CASE up'[h] = up[h]
      BY <1>1, <3>1
    <3>2. ASSUME NEW f \in UpFrame, f.task = t, up'[h] = Append(up[h], f)
          PROVE  /\ Closed(up'[h], u) /\ Elems(up[h]) \subseteq Elems(up'[h])
                 /\ \A e \in Elems(up'[h]) : e.task = u => e \in Elems(up[h])
      <4>1. Elems(Append(up[h], f)) = Elems(up[h]) \cup {f}
        BY <1>1, ElemsAppend
      <4>2. f.task # u
        BY <3>2
      <4>3. Closed(Append(up[h], f), u)
        BY <1>1, <4>2, ClosedAppend
      <4> QED
        BY <3>2, <4>1, <4>2, <4>3
    <3> QED
      BY <3>1, <3>2
  <2>2. \A h \in Gen : Ends(up'[h], u) => Ends(up[h], u)
    BY <2>1 DEF Ends, IsKind
  <2>3. \A h \in Gen : Feeds(h, u)' => Feeds(h, u)
    BY <2>2 DEF Feeds, Listening, Live, CurrentSession, Ends
  <2>4. Listening(u)' => Listening(u) /\ req'[u[1]].chunks = req[u[1]].chunks
    BY DEF Listening
  <2> QED
    BY <2>1, <2>3, <2>4 DEF Still
<1> QED
  BY <1>1, <1>2, StillTask

LEMMA AcceptAnswers ==
  ASSUME DispatchInv, AnswerInv, NEW g \in Gen, AcceptTask(g)
  PROVE  AnswerInv'
<1>1. /\ 0 \notin Gen /\ down \in [Gen -> Seq(DownFrame)] /\ up \in [Gen -> Seq(UpFrame)]
      /\ subs \in [Task -> Gen \cup {0}] /\ work \in [Task -> WorkType] /\ DispatchTypeOK
      /\ \A h \in Gen, u \in Task : Closed(up[h], u)
      /\ req \in [Request -> HandlerType]
  BY AnswerFacts
<1>2. /\ down[g] # << >> /\ Head(down[g]).kind = "task"
      /\ down' = [down EXCEPT ![g] = Tail(@)]
      /\ UNCHANGED <<connections, owner, controlEnd, subs, events, req>>
  BY Zenon DEF AcceptTask, runnerOnly
<1>3. PICK t \in Task : t = Head(down[g]).task
  BY <1>1, <1>2, ElemsTail, FrameTask
<1>4. IsTask(Head(down[g]), t) /\ Head(down[g]) \in Elems(down[g])
  BY <1>1, <1>2, <1>3, ElemsTail DEF IsTask
<1>5. WaitsAt(g, t) /\ Waits(t)
  BY <1>4 DEF Waits, WaitsAt
<1>6. FrameInv(t) /\ AnswerOf(t)
  BY AnswerFacts
<1>7. work[t].phase = "none" /\ work[t].chunks = 0
  BY <1>5, <1>6 DEF FrameInv, AnswerOf, SubscribedInv
<1>8. \A h \in Gen, u \in Task : WaitsAt(h, u)' => WaitsAt(h, u)
  <2>1. \A h \in Gen, u \in Task : QueueCalm(h, u)
    BY <1>1, <1>2 DEF QueueCalm
  <2> QED
    BY <1>1, <2>1, QueueCalmFrames
<1>9. PICK f \in UpFrame : f = Failed(t, TRUE) /\ f.task = t /\ f.kind = "failed"
  BY PlainFrames DEF Failed
<1>10. \/ Say(g, f) /\ UNCHANGED work
       \/ work' = [work EXCEPT ![t] = [@ EXCEPT !.phase = "queued", !.gen = g]] /\ UNCHANGED up
  BY <1>3, <1>9, Zenon DEF AcceptTask
<1>11. /\ \A u \in Task \ {t} : work'[u] = work[u]
       /\ work'[t].chunks = 0 /\ work'[t].phase \in {"none", "queued"}
       /\ work'[t].phase # "none" => work'[t].gen = g
  <2>1. CASE UNCHANGED work
    BY <1>7, <2>1
  <2>2. CASE work' = [work EXCEPT ![t] = [@ EXCEPT !.phase = "queued", !.gen = g]]
    <3>1. \A u \in Task \ {t} : work'[u] = work[u]
      BY <1>1, <2>2
    <3> QED
      BY <1>1, <1>7, <2>2, <3>1 DEF WorkType
  <2> QED
    BY <1>10, <2>1, <2>2, Zenon
<1>12. \A h \in Gen : up'[h] = up[h] \/ up'[h] = Append(up[h], f)
  BY <1>1, <1>10 DEF Say
<1>13. \A h \in Gen : ~Ends(up[h], t)
  BY <1>6, <1>7 DEF AnswerOf, SaidInv, Ends
<1>14. ASSUME NEW h \in Gen
       PROVE  /\ Closed(up'[h], t)
              /\ \A e \in Elems(up'[h]) : ~IsKind(e, t, "finished") /\ ~IsKind(e, t, "chunk")
  <2>1. \A e \in Elems(up[h]) : ~IsKind(e, t, "finished") /\ ~IsKind(e, t, "chunk")
    <3>1. ASSUME NEW e \in Elems(up[h]), IsKind(e, t, "chunk") PROVE FALSE
      <4>1. e \in UpFrame
        BY <1>1 DEF Elems
      <4>2. e.sequence \in Nat /\ e.sequence < 0
        BY <1>6, <1>7, <3>1, <4>1 DEF AnswerOf, SaidInv, IsKind, UpFrame
      <4> QED
        BY <4>2
    <3> QED
      BY <1>13, <3>1 DEF Ends
  <2>2. Elems(Append(up[h], f)) = Elems(up[h]) \cup {f} /\ Closed(Append(up[h], f), t)
    <3>1. up[h] \in Seq(UpFrame) /\ f \in UpFrame /\ Closed(up[h], t) /\ ~Ends(up[h], t)
      BY <1>1, <1>13
    <3>2. Elems(Append(up[h], f)) = Elems(up[h]) \cup {f}
      BY <3>1, ElemsAppend
    <3>3. Closed(Append(up[h], f), t)
      BY <3>1, ClosedAppend
    <3> QED
      BY <3>2, <3>3
  <2>3. ~IsKind(f, t, "finished") /\ ~IsKind(f, t, "chunk")
    BY <1>9 DEF IsKind
  <2> QED
    BY <1>1, <1>12, <2>1, <2>2, <2>3
<1>15. AnswerOf(t)'
  <2>1. SubscribedInv(t)'
    <3>1. subs[t] # 0 => g = subs[t]
      BY <1>5, <1>6 DEF AnswerOf, SubscribedInv
    <3> QED
      BY <1>2, <1>6, <1>8, <1>11, <3>1 DEF AnswerOf, SubscribedInv
  <2>2. \A e \in Elems(events[t]) : e.kind # "finished" /\ e.kind # "chunk"
    <3>1. ASSUME NEW e \in Elems(events[t]), e.kind = "chunk" PROVE FALSE
      <4>1. e \in UpFrame
        BY AnswerFacts DEF Elems
      <4>2. e.sequence \in Nat /\ e.sequence < 0
        BY <1>6, <1>7, <3>1, <4>1 DEF AnswerOf, SaidInv, UpFrame
      <4> QED
        BY <4>2
    <3> QED
      BY <1>6, <1>7, <3>1 DEF AnswerOf, SaidInv
  <2>3. SaidInv(t)'
    BY <1>2, <1>14, <2>2 DEF SaidInv
  <2>4. OrderInv(t)'
    BY <1>2, <1>6, <1>14 DEF AnswerOf, OrderInv, Closed
  <2>5. t[1] \in Request /\ req[t[1]].chunks \in Nat
    BY <1>1 DEF Task, HandlerType
  <2>6. Missing(t)' = {}
    BY <1>2, <1>11, <2>5 DEF Missing
  <2>7. Listening(t)' => req'[t[1]].chunks <= work'[t].chunks
    BY <1>2, <1>6, <1>7, <1>11 DEF AnswerOf, ChunkInv, Listening
  <2>8. ChunkInv(t)'
    BY <2>6, <2>7 DEF ChunkInv
  <2> QED
    BY <2>1, <2>3, <2>4, <2>8 DEF AnswerOf
<1>16. \A u \in Task \ {t} : AnswerOf(u)'
  BY <1>2, <1>8, <1>9, <1>11, <1>12, OtherTasks
<1>17. ASSUME NEW q \in Request PROVE HandedInv(q)'
  <2>1. TaskOf(q) \in Task
    BY <1>1, RunnerTyped
  <2>2. work[TaskOf(q)].phase = "ended" => work'[TaskOf(q)] = work[TaskOf(q)]
    BY <1>7, <1>11, <2>1
  <2> QED
    BY <1>2, <2>2, AnswerFacts, HandedStill
<1> QED
  BY <1>15, <1>16, <1>17 DEF AnswerInv, AnswerOf

LEMMA WorkerAnswers ==
  ASSUME DispatchInv, AnswerInv, NEW t \in Task, Worker(t)
  PROVE  AnswerInv'
<1>1. /\ 0 \notin Gen /\ up \in [Gen -> Seq(UpFrame)]
      /\ subs \in [Task -> Gen \cup {0}] /\ work \in [Task -> WorkType]
      /\ \A h \in Gen, u \in Task : Closed(up[h], u)
      /\ req \in [Request -> HandlerType] /\ AnswerOf(t) /\ FrameInv(t)
  BY AnswerFacts
<1>2. Live(t) /\ UNCHANGED <<connections, owner, controlEnd, subs, events, req, down>>
  BY WorkerFrame DEF runnerOnly
<1>3. /\ \A u \in Task \ {t} : work'[u] = work[u]
      /\ work'[t].gen = work[t].gen /\ work'[t].phase # "none"
      /\ work' \in [Task -> WorkType]
  BY <1>1, WorkerCases DEF WorkerEffect
<1>4. work[t].phase # "none" /\ work[t].phase # "ended" /\ work[t].gen \in Gen
  BY <1>1, <1>2 DEF Live, LivePhases, FrameInv
<1>5. work[t].chunks \in Nat /\ work'[t].chunks \in Nat /\ t[1] \in Request /\ req[t[1]].chunks \in Nat
  BY <1>1, <1>3 DEF WorkType, HandlerType, Task
<1>6. \A h \in Gen : ~Ends(up[h], t)
  BY <1>1, <1>4 DEF AnswerOf, SaidInv, Ends
<1>7. \A e \in Elems(events[t]) : e.kind # "finished"
  BY <1>1, <1>4 DEF AnswerOf, SaidInv
<1>8. \A h \in Gen, u \in Task : WaitsAt(h, u)' => WaitsAt(h, u)
  BY <1>2 DEF WaitsAt
<1>9. ASSUME \A h \in Gen : up'[h] = up[h] \/ (\E f : Speaks(t, f) /\ up'[h] = Append(up[h], f)),
             \/ work'[t].chunks = work[t].chunks
             \/ /\ work'[t].chunks = work[t].chunks + 1
                /\ \E f \in Elems(up'[work[t].gen]) : IsChunk(f, t, work[t].chunks)
      PROVE  AnswerInv'
  <2>1. work[t].chunks <= work'[t].chunks
    BY <1>5, <1>9
  <2>2. ASSUME NEW h \in Gen
        PROVE  /\ Closed(up'[h], t) /\ Elems(up[h]) \subseteq Elems(up'[h])
               /\ \A e \in Elems(up'[h]) : /\ IsKind(e, t, "finished") => work'[t].phase = "ended"
                                           /\ IsKind(e, t, "chunk") => e.sequence < work'[t].chunks
    <3>1. \A e \in Elems(up[h]) : /\ ~IsKind(e, t, "finished")
                                  /\ IsKind(e, t, "chunk") => e.sequence < work'[t].chunks
      <4>1. ASSUME NEW e \in Elems(up[h]), IsKind(e, t, "chunk") PROVE e.sequence < work'[t].chunks
        <5>1. e \in UpFrame /\ e.sequence < work[t].chunks
          BY <1>1, <4>1 DEF Elems, AnswerOf, SaidInv
        <5>2. e.sequence \in Nat
          BY <4>1, <5>1 DEF IsKind, UpFrame
        <5> QED
          BY <1>5, <2>1, <5>1, <5>2
      <4> QED
        BY <1>6, <4>1 DEF Ends
    <3>2. CASE up'[h] = up[h]
      BY <1>1, <3>1, <3>2
    <3>3. ASSUME NEW f, Speaks(t, f), up'[h] = Append(up[h], f)
          PROVE  /\ Closed(up'[h], t) /\ Elems(up[h]) \subseteq Elems(up'[h])
                 /\ \A e \in Elems(up'[h]) : /\ IsKind(e, t, "finished") => work'[t].phase = "ended"
                                             /\ IsKind(e, t, "chunk") => e.sequence < work'[t].chunks
      <4>1. f \in UpFrame
        BY <3>3 DEF Speaks
      <4>2. Elems(Append(up[h], f)) = Elems(up[h]) \cup {f} /\ Closed(Append(up[h], f), t)
        BY <1>1, <1>6, <4>1, ElemsAppend, ClosedAppend
      <4>3. /\ IsKind(f, t, "finished") => work'[t].phase = "ended"
            /\ IsKind(f, t, "chunk") => f.sequence < work'[t].chunks
        BY <1>5, <3>3 DEF Speaks, IsKind
      <4> QED
        BY <3>1, <3>3, <4>2, <4>3
    <3> QED
      BY <1>9, <3>2, <3>3
  <2>3. SubscribedInv(t)'
    BY <1>1, <1>2, <1>3, <1>4, <1>8 DEF AnswerOf, SubscribedInv
  <2>4. SaidInv(t)'
    <3>1. ASSUME NEW e \in Elems(events[t]), e.kind = "chunk" PROVE e.sequence < work'[t].chunks
      <4>1. e \in UpFrame /\ e.sequence < work[t].chunks
        BY <1>1, <3>1, AnswerFacts DEF Elems, AnswerOf, SaidInv
      <4>2. e.sequence \in Nat
        BY <3>1, <4>1 DEF UpFrame
      <4> QED
        BY <1>5, <2>1, <4>1, <4>2
    <3> QED
      BY <1>2, <1>7, <2>2, <3>1 DEF SaidInv
  <2>5. OrderInv(t)'
    BY <1>1, <1>2, <2>2 DEF AnswerOf, OrderInv, Closed
  <2>6. Listening(t)' => req'[t[1]].chunks <= work'[t].chunks
    BY <1>1, <1>2, <1>5, <2>1 DEF AnswerOf, ChunkInv, Listening
  <2>7. ~Ends(events'[t], t)
    BY <1>2, <1>7 DEF Ends, IsKind
  <2>8. ASSUME NEW h \in Gen, Feeds(h, t)', NEW n \in Missing(t)'
        PROVE  \E e \in Elems(events'[t]) \cup Elems(up'[h]) : IsChunk(e, t, n)
    <3>1. subs[t] = h /\ Feeds(h, t)
      BY <1>2, <2>8 DEF Feeds, Listening, CurrentSession
    <3>2. work[t].gen = h
      BY <1>1, <1>4, <3>1 DEF AnswerOf, SubscribedInv
    <3>3. CASE n \in Missing(t)
      <4>1. PICK e \in Elems(events[t]) \cup Elems(up[h]) : IsChunk(e, t, n)
        BY <1>1, <3>1, <3>3 DEF AnswerOf, ChunkInv
      <4> QED
        BY <1>2, <2>2, <4>1
    <3>4. CASE n \notin Missing(t)
      <4>1. n = work[t].chunks /\ work'[t].chunks = work[t].chunks + 1
        BY <1>2, <1>5, <1>9, <2>8, <3>4 DEF Missing
      <4>2. work'[t].chunks # work[t].chunks
        BY <1>5, <4>1
      <4> QED
        BY <1>9, <3>2, <4>1, <4>2
    <3> QED
      BY <3>3, <3>4
  <2>9. ChunkInv(t)'
    BY <2>6, <2>7, <2>8 DEF ChunkInv, Ends
  <2>10. \A u \in Task \ {t} : AnswerOf(u)'
    <3>1. \A h \in Gen : \/ up'[h] = up[h]
                         \/ \E f \in UpFrame : f.task = t /\ up'[h] = Append(up[h], f)
      BY <1>9 DEF Speaks
    <3> QED
      BY <1>2, <1>3, <1>8, <3>1, OtherTasks
  <2>11. ASSUME NEW q \in Request PROVE HandedInv(q)'
    <3>1. TaskOf(q) \in Task
      BY <1>1, RunnerTyped
    <3>2. work[TaskOf(q)].phase = "ended" => work'[TaskOf(q)] = work[TaskOf(q)]
      BY <1>3, <1>4, <3>1
    <3> QED
      BY <1>2, <3>2, AnswerFacts, HandedStill
  <2> QED
    BY <2>3, <2>4, <2>5, <2>9, <2>10, <2>11 DEF AnswerInv, AnswerOf
<1>10. CASE UNCHANGED up /\ work'[t].chunks = work[t].chunks
  BY <1>9, <1>10
<1>11. ASSUME NEW f, Speaks(t, f) PROVE AnswerInv'
  <2>1. \A h \in Gen : up'[h] = up[h] \/ up'[h] = Append(up[h], f)
    BY <1>1, <1>4, <1>11 DEF Speaks, Say
  <2>2. up'[work[t].gen] = Append(up[work[t].gen], f) /\ f \in UpFrame
    BY <1>1, <1>4, <1>11 DEF Speaks, Say
  <2>3. f \in Elems(up'[work[t].gen])
    BY <1>1, <1>4, <2>2, ElemsAppend
  <2>4. CASE f.kind = "chunk"
    BY <1>9, <1>11, <2>1, <2>3, <2>4 DEF Speaks, IsChunk, IsKind
  <2>5. CASE f.kind # "chunk"
    BY <1>9, <1>11, <2>1, <2>5 DEF Speaks
  <2> QED
    BY <2>4, <2>5
<1> QED
  BY <1>1, <1>10, <1>11, WorkerSpeaks

\* A handler that listens to nothing after its step.
LEMMA DeafStep ==
  ASSUME DispatchInv, AnswerInv, NEW q \in Request,
         UNCHANGED <<connections, owner, controlEnd, subs, up, work>>,
         \A h \in Gen, u \in Task : WaitsAt(h, u)' => WaitsAt(h, u),
         \A p \in Request \ {q} : req'[p] = req[p],
         \A u \in Task \ {TaskOf(q)} : events'[u] = events[u],
         events'[TaskOf(q)] \in {events[TaskOf(q)], << >>},
         req'[q].phase \notin ListeningPhases, HandedInv(q)'
  PROVE  AnswerInv'
<1>1. /\ subs \in [Task -> Gen \cup {0}] /\ req \in [Request -> HandlerType]
      /\ \A h \in Gen, u \in Task : Closed(up[h], u)
      /\ \A u \in Task : AnswerOf(u)
  BY AnswerFacts
<1>2. TaskOf(q) \in Task /\ TaskOf(q)[1] = q
  BY <1>1, RunnerTyped
<1>3. ASSUME NEW u \in Task PROVE AnswerOf(u)'
  <2>1. u[1] \in Request
    BY DEF Task
  <2>2. u[1] = q => ~Listening(u)'
    BY DEF Listening
  <2>3. u[1] # q => req'[u[1]] = req[u[1]] /\ (Listening(u)' <=> Listening(u)) /\ events'[u] = events[u]
    BY <1>2, <2>1 DEF Listening
  <2>4. /\ Listening(u)' => Listening(u) /\ req'[u[1]].chunks = req[u[1]].chunks
        /\ events'[u] = events[u] \/ (~Listening(u)' /\ events'[u] = << >>)
    BY <2>2, <2>3
  <2>5. \A h \in Gen : Feeds(h, u)' => Feeds(h, u)
    BY <2>4 DEF Feeds, Live, CurrentSession
  <2>6. Still(u)
    BY <1>1, <2>4, <2>5 DEF Still
  <2> QED
    BY <1>1, <2>6, StillTask
<1>4. ASSUME NEW p \in Request \ {q} PROVE HandedInv(p)'
  BY AnswerFacts, HandedStill
<1> QED
  BY <1>3, <1>4 DEF AnswerInv, AnswerOf

\* A handler that takes a frame and goes on listening.
LEMMA TakeStep ==
  ASSUME DispatchInv, AnswerInv, NEW q \in Request, NEW t \in Task, t = TaskOf(q),
         NEW f, f = Head(events[t]), events[t] # << >>, req[q].phase \in ListeningPhases,
         UNCHANGED <<connections, owner, controlEnd, subs, up, work>>,
         \A h \in Gen, u \in Task : WaitsAt(h, u)' => WaitsAt(h, u),
         \A p \in Request \ {q} : req'[p] = req[p],
         \A u \in Task \ {t} : events'[u] = events[u], events'[t] = Tail(events[t]),
         req'[q].phase \in ListeningPhases, req'[q].attempt = req[q].attempt,
         req'[q].result = req[q].result,
         \/ f.kind # "chunk" /\ req'[q].chunks = req[q].chunks
         \/ /\ f.kind = "chunk" /\ f.sequence = req[q].chunks
            /\ req'[q].chunks = req[q].chunks + 1
  PROVE  AnswerInv'
<1>1. /\ subs \in [Task -> Gen \cup {0}] /\ req \in [Request -> HandlerType]
      /\ events \in [Task -> Seq(UpFrame)] /\ work \in [Task -> WorkType]
      /\ \A h \in Gen, u \in Task : Closed(up[h], u)
      /\ \A u \in Task : AnswerOf(u)
  BY AnswerFacts
<1>2. t[1] = q /\ t[2] = req[q].attempt /\ Listening(t) /\ Listening(t)'
      /\ \A u \in Task : u[1] = q /\ u[2] = req[q].attempt => u = t
  BY <1>1, RunnerTyped DEF Listening, TaskOf, Task
<1>3. req[q].chunks \in Nat /\ work[t].chunks \in Nat
  BY <1>1 DEF HandlerType, WorkType
<1>4. /\ f \in Elems(events[t]) /\ Elems(Tail(events[t])) \subseteq Elems(events[t])
      /\ \A e \in Elems(events[t]) : e = f \/ e \in Elems(Tail(events[t]))
  BY <1>1, ElemsTail, ElemsSplit
<1>5. Closed(Tail(events[t]), t)
  BY <1>1, ClosedTail DEF AnswerOf, OrderInv
<1>6. ASSUME NEW u \in Task, u # t PROVE AnswerOf(u)'
  <2>1. u[1] \in Request
    BY DEF Task
  <2>2. u[1] = q => ~Listening(u)'
    BY <1>2, <1>6 DEF Listening
  <2>3. u[1] # q => req'[u[1]] = req[u[1]] /\ (Listening(u)' <=> Listening(u))
    BY <2>1 DEF Listening
  <2>4. Listening(u)' => Listening(u) /\ req'[u[1]].chunks = req[u[1]].chunks
    BY <2>2, <2>3
  <2>5. \A h \in Gen : Feeds(h, u)' => Feeds(h, u)
    BY <2>4 DEF Feeds, Live, CurrentSession
  <2>6. Still(u)
    BY <1>1, <1>6, <2>4, <2>5 DEF Still
  <2> QED
    BY <1>1, <2>6, StillTask
<1>7. AnswerOf(t)'
  <2>1. SubscribedInv(t)'
    BY <1>1 DEF AnswerOf, SubscribedInv
  <2>2. SaidInv(t)'
    BY <1>1, <1>4 DEF AnswerOf, SaidInv
  <2>3. OrderInv(t)'
    BY <1>1, <1>5 DEF AnswerOf, OrderInv, Closed
  <2>4. req'[q].chunks <= work'[t].chunks
    <3>1. req[q].chunks <= work[t].chunks
      BY <1>1, <1>2 DEF AnswerOf, ChunkInv
    <3>2. f.kind = "chunk" => f.sequence < work[t].chunks
      BY <1>1, <1>4 DEF AnswerOf, SaidInv
    <3> QED
      BY <1>3, <3>1, <3>2
  <2>5. Missing(t) = req[q].chunks .. (work[t].chunks - 1)
        /\ Missing(t)' = req'[q].chunks .. (work'[t].chunks - 1)
    BY <1>2 DEF Missing
  <2>6. ASSUME NEW n \in Missing(t)' PROVE n \in Missing(t) /\ ~IsChunk(f, t, n)
    BY <1>3, <2>5, <2>6 DEF IsChunk, IsKind
  <2>7. ASSUME NEW h \in Gen, Feeds(h, t)', NEW n \in Missing(t)'
        PROVE  \E e \in Elems(events'[t]) \cup Elems(up'[h]) : IsChunk(e, t, n)
    <3>1. Feeds(h, t)
      BY <1>2, <2>7 DEF Feeds, Live, CurrentSession
    <3>2. PICK e \in Elems(events[t]) \cup Elems(up[h]) : IsChunk(e, t, n)
      BY <1>1, <2>6, <2>7, <3>1 DEF AnswerOf, ChunkInv
    <3> QED
      BY <1>4, <2>6, <2>7, <3>2
  <2>8. ASSUME Ends(events'[t], t), NEW n \in Missing(t)'
        PROVE  \E e \in Elems(events'[t]) : IsChunk(e, t, n)
    <3>1. Ends(events[t], t)
      BY <1>4, <2>8 DEF Ends
    <3>2. PICK e \in Elems(events[t]) : IsChunk(e, t, n)
      BY <1>1, <1>2, <2>6, <2>8, <3>1 DEF AnswerOf, ChunkInv
    <3> QED
      BY <1>4, <2>6, <2>8, <3>2
  <2>9. ChunkInv(t)'
    BY <1>2, <2>4, <2>7, <2>8 DEF ChunkInv, Ends
  <2> QED
    BY <2>1, <2>2, <2>3, <2>9 DEF AnswerOf
<1>8. ASSUME NEW p \in Request \ {q} PROVE HandedInv(p)'
  BY AnswerFacts, HandedStill
<1>9. HandedInv(q)'
  <2>1. req[q].result = "none"
    BY DEF DispatchInv, ResultInv, ListeningPhases
  <2> QED
    BY <2>1 DEF HandedInv, Undispatched, ListeningPhases
<1> QED
  BY <1>6, <1>7, <1>8, <1>9 DEF AnswerInv, AnswerOf

\* A handler that finds the end of the answer has taken every chunk.
LEMMA EndOfAnswer ==
  ASSUME DispatchInv, AnswerInv, NEW q \in Request, NEW t \in Task, t = TaskOf(q),
         req[q].phase \in ListeningPhases, events[t] # << >>, Head(events[t]).kind = "finished"
  PROVE  work[t].phase = "ended" /\ req[q].chunks = work[t].chunks
<1>1. PICK f : f = Head(events[t])
  OBVIOUS
<1>2. /\ req \in [Request -> HandlerType] /\ events \in [Task -> Seq(UpFrame)]
      /\ work \in [Task -> WorkType] /\ AnswerOf(t) /\ FrameTruth(t)
  BY AnswerFacts
<1>3. t[1] = q /\ Listening(t)
  BY <1>2, RunnerTyped DEF Listening
<1>4. /\ f \in Elems(events[t])
      /\ \A e \in Elems(events[t]) : e = f \/ e \in Elems(Tail(events[t]))
  BY <1>1, <1>2, ElemsTail, ElemsSplit
<1>5. IsKind(f, t, "finished")
  BY <1>1, <1>2, <1>4 DEF FrameTruth, IsKind
<1>6. \A e \in Elems(Tail(events[t])) : e.task # t
  BY <1>1, <1>2, <1>5, ClosedTail DEF AnswerOf, OrderInv
<1>7. ASSUME NEW n \in Missing(t) PROVE FALSE
  <2>1. PICK e \in Elems(events[t]) : IsChunk(e, t, n)
    BY <1>2, <1>3, <1>4, <1>5, <1>7 DEF AnswerOf, ChunkInv, Ends
  <2> QED
    BY <1>4, <1>5, <1>6, <2>1 DEF IsChunk, IsKind
<1>8. req[q].chunks \in Nat /\ work[t].chunks \in Nat /\ req[q].chunks <= work[t].chunks
  BY <1>2, <1>3 DEF HandlerType, WorkType, AnswerOf, ChunkInv
<1>9. req[q].chunks = work[t].chunks
  <2>1. req[q].chunks < work[t].chunks => req[q].chunks \in Missing(t)
    BY <1>3, <1>8 DEF Missing
  <2> QED
    BY <1>7, <1>8, <2>1
<1> QED
  BY <1>2, <1>4, <1>5, <1>9 DEF AnswerOf, SaidInv, IsKind

\* What a step of a handler leaves behind in its event channel.
LEMMA TailLeft ==
  ASSUME DispatchInv, NEW q \in Request, NEW t \in Task, t = TaskOf(q), EventsLeft(q), events[t] # << >>,
         req'[q].attempt = req[q].attempt, req'[q].phase \in ListeningPhases
  PROVE  events'[t] = Tail(events[t])
<1>1. t[2] = req[q].attempt /\ events \in [Task -> Seq(UpFrame)]
  BY RunnerTyped DEF DispatchInv, DispatchTypeOK, QueueType
<1>2. events' = [events EXCEPT ![t] =
                   IF @ # << >> /\ req'[q].attempt = t[2] /\ req'[q].phase \in ListeningPhases
                   THEN Tail(@) ELSE << >>]
  BY Zenon DEF EventsLeft
<1> QED
  BY <1>1, <1>2

LEMMA DeafLeft ==
  ASSUME DispatchInv, NEW q \in Request, EventsLeft(q), req'[q].phase \notin ListeningPhases
  PROVE  events'[TaskOf(q)] = << >>
<1>1. PICK t \in Task : t = TaskOf(q)
  BY RunnerTyped DEF DispatchInv, DispatchTypeOK
<1>2. events \in [Task -> Seq(UpFrame)]
  BY DEF DispatchInv, DispatchTypeOK, QueueType
<1>3. events' = [events EXCEPT ![t] =
                   IF @ # << >> /\ req'[q].attempt = t[2] /\ req'[q].phase \in ListeningPhases
                   THEN Tail(@) ELSE << >>]
  BY <1>1, Zenon DEF EventsLeft
<1> QED
  BY <1>1, <1>2, <1>3

LEMMA ReceiveAnswers ==
  ASSUME DispatchInv, AnswerInv, NEW q \in Request, Receive(q)
  PROVE  AnswerInv'
<1>1. PICK t : t = TaskOf(q)
  OBVIOUS
<1>2. PICK f : f = Head(events[t])
  OBVIOUS
<1>3. /\ DispatchTypeOK /\ req \in [Request -> HandlerType] /\ Chosen(q)
      /\ t \in Task /\ req[q].status \in Status
  BY <1>1, RunnerTyped DEF DispatchInv, DispatchTypeOK
<1>4. /\ req[q].phase \in ListeningPhases /\ events[t] # << >> /\ EventsLeft(q)
      /\ UNCHANGED <<connections, owner, controlEnd, subs, up, work>>
  BY <1>1, Zenon DEF Receive
<1>5. req[q].gen \in Gen
  BY <1>3, <1>4 DEF Chosen, ListeningPhases
<1>6. ASSUME DropHandle(q) \/ UNCHANGED down
      PROVE  \A h \in Gen, u \in Task : WaitsAt(h, u)' => WaitsAt(h, u)
  BY <1>4, <1>5, <1>6, ReceiveCalm DEF Calm
<1>7. \A u \in Task \ {t} : events'[u] = events[u]
  BY <1>1, <1>3, <1>4, EventsLeftEffect
<1>8. ASSUME DropHandle(q) \/ UNCHANGED down, \A p \in Request \ {q} : req'[p] = req[p],
             req'[q].phase \notin ListeningPhases, HandedInv(q)'
      PROVE  AnswerInv'
  <2>1. events'[t] = << >>
    BY <1>1, <1>4, <1>8, DeafLeft
  <2> QED
    BY <1>1, <1>4, <1>6, <1>7, <1>8, <2>1, DeafStep
<1>9. ASSUME UNCHANGED down, \A p \in Request \ {q} : req'[p] = req[p],
             req'[q].attempt = req[q].attempt, req'[q].result = req[q].result,
             req'[q].phase \in ListeningPhases,
             \/ f.kind # "chunk" /\ req'[q].chunks = req[q].chunks
             \/ /\ f.kind = "chunk" /\ f.sequence = req[q].chunks
                /\ req'[q].chunks = req[q].chunks + 1
      PROVE  AnswerInv'
  <2>1. events'[t] = Tail(events[t])
    BY <1>1, <1>3, <1>4, <1>9, TailLeft
  <2> QED
    BY <1>1, <1>2, <1>3, <1>4, <1>6, <1>7, <1>9, <2>1, TakeStep
<1>10. ASSUME NEW x, End(q, x), DropHandle(q) \/ UNCHANGED down,
              x = "ok" => work[t].phase = "ended" /\ req[q].chunks = work[t].chunks
       PROVE  AnswerInv'
  <2>1. /\ req'[q].phase = "done" /\ req'[q].result = x
        /\ req'[q].attempt = req[q].attempt /\ req'[q].chunks = req[q].chunks
        /\ \A p \in Request \ {q} : req'[p] = req[p]
    BY <1>3, <1>10, EndEffect
  <2>2. TaskOf(q)' = t
    BY <1>1, <2>1 DEF TaskOf
  <2>3. HandedInv(q)'
    BY <1>4, <1>10, <2>1, <2>2 DEF HandedInv, Undispatched
  <2>4. req'[q].phase \notin ListeningPhases
    BY <2>1 DEF ListeningPhases
  <2> QED
    BY <1>8, <1>10, <2>1, <2>3, <2>4
<1>11. CASE req[q].phase = "waiting" /\ f.kind # "chunk" /\ UNCHANGED down
            /\ req' \in {[req EXCEPT ![q].accepted = TRUE], [req EXCEPT ![q].started = TRUE]}
  <2>1. \A p \in Request \ {q} : req'[p] = req[p]
    BY <1>3, <1>11
  <2>2. /\ req'[q].attempt = req[q].attempt /\ req'[q].result = req[q].result
        /\ req'[q].chunks = req[q].chunks /\ req'[q].phase = "waiting"
    BY <1>3, <1>11 DEF HandlerType
  <2> QED
    BY <1>9, <1>11, <2>1, <2>2 DEF ListeningPhases
<1>12. CASE /\ f.kind = "response" /\ UNCHANGED down
            /\ \E phase \in AnswerPhase(q, f.status) :
                 req' = [req EXCEPT ![q] = [@ EXCEPT !.phase = phase, !.status = f.status]]
  <2>1. PICK phase \in AnswerPhase(q, f.status) :
          req' = [req EXCEPT ![q] = [@ EXCEPT !.phase = phase, !.status = f.status]]
    BY <1>12
  <2>2. \A p \in Request \ {q} : req'[p] = req[p]
    BY <1>3, <2>1
  <2>3. /\ req'[q].attempt = req[q].attempt /\ req'[q].result = req[q].result
        /\ req'[q].chunks = req[q].chunks /\ req'[q].phase = phase
    BY <1>3, <2>1 DEF HandlerType
  <2>4. phase \in ListeningPhases
    BY <2>1 DEF AnswerPhase, ListeningPhases
  <2>5. f.kind # "chunk"
    BY <1>12
  <2> QED
    BY <1>9, <1>12, <2>2, <2>3, <2>4, <2>5
<1>13. CASE Again(q, {req[q].runner}) /\ UNCHANGED down
  <2>1. /\ \A p \in Request \ {q} : req'[p] = req[p]
        /\ req'[q].phase \in {"choosing", "done"} /\ req'[q].result # "ok"
        /\ req'[q].phase = "choosing" => req'[q].chunks = 0
    BY <1>3, <1>13, AgainEffect
  <2>2. HandedInv(q)' /\ req'[q].phase \notin ListeningPhases
    BY <2>1 DEF HandedInv, Undispatched, ListeningPhases
  <2> QED
    BY <1>8, <1>13, <2>1, <2>2
<1>14. CASE /\ f.kind = "chunk" /\ f.sequence = req[q].chunks /\ UNCHANGED down
            /\ req' = [req EXCEPT ![q].chunks = @ + 1]
  <2>1. \A p \in Request \ {q} : req'[p] = req[p]
    BY <1>3, <1>14
  <2>2. /\ req'[q].attempt = req[q].attempt /\ req'[q].result = req[q].result
        /\ req'[q].chunks = req[q].chunks + 1 /\ req'[q].phase = req[q].phase
    BY <1>3, <1>14 DEF HandlerType
  <2> QED
    BY <1>4, <1>9, <1>14, <2>1, <2>2
<1>15. CASE f.kind = "finished" /\ End(q, req[q].status) /\ UNCHANGED down
  <2>1. work[t].phase = "ended" /\ req[q].chunks = work[t].chunks
    BY <1>1, <1>2, <1>3, <1>4, <1>15, EndOfAnswer
  <2> QED
    BY <1>10, <1>15, <2>1
<1>16. CASE (End(q, "before") \/ End(q, "unknown")) /\ DropHandle(q)
  BY <1>10, <1>16
<1> QED
  BY <1>1, <1>2, <1>11, <1>12, <1>13, <1>14, <1>15, <1>16, ReceiveCases, Zenon

\* The dispatch subscribes the handler to the session that gets the task.
LEMMA DispatchedAnswers ==
  ASSUME DispatchInv, AnswerInv, NEW q \in Request, DispatchReserved(q), Stays(q)
  PROVE  AnswerInv'
<1>1. /\ req \in [Request -> HandlerType] /\ HandedInv(q) /\ Chosen(q) /\ AttemptInv(q) /\ ResultInv(q)
      /\ down \in [Gen -> Seq(DownFrame)] /\ subs \in [Task -> Gen \cup {0}] /\ 0 \notin Gen
      /\ \A h \in Gen, u \in Task : Closed(up[h], u)
      /\ \A u \in Task : AnswerOf(u)
      /\ DispatchTypeOK
  BY AnswerFacts DEF DispatchInv
<1>2. PICK t \in Task : t = TaskOf(q)
  BY <1>1, RunnerTyped
<1>3. PICK g : g = req[q].gen
  OBVIOUS
<1>4. /\ req[q].phase = "reserved" /\ Enqueue(g, TaskFrame(t))
      /\ subs' = [subs EXCEPT ![t] = g]
      /\ req' = [req EXCEPT ![q].phase = "waiting"]
      /\ UNCHANGED <<connections, owner, controlEnd, work, up, events>>
  BY <1>2, <1>3, Zenon DEF DispatchReserved, handlerOnly
<1>5. g \in Gen /\ owner[g] # NoRemote
  BY <1>1, <1>3, <1>4 DEF Chosen
<1>6. /\ req'[q].phase = "waiting" /\ req'[q].attempt = req[q].attempt
      /\ req'[q].result = req[q].result /\ req'[q].chunks = req[q].chunks
  BY <1>1, <1>4 DEF HandlerType
<1>7. \A p \in Request \ {q} : req'[p] = req[p]
  BY <1>1, <1>4
<1>8. t = <<q, req[q].attempt>> /\ req[q].attempt \in Attempt /\ t[1] = q
      /\ \A u \in Task : u[1] = q /\ u[2] = req[q].attempt => u = t
  BY <1>1, <1>2, RunnerTyped DEF TaskOf, Task
<1>9. Undispatched(q) /\ req[q].chunks = 0 /\ req[q].result = "none"
  BY <1>1, <1>4 DEF Undispatched, HandedInv, ResultInv
<1>10. Untouched(t)
  BY <1>1, <1>8, <1>9 DEF AttemptInv
<1>11. work[t].phase = "none" /\ work[t].chunks = 0
  BY <1>1, <1>10 DEF Untouched, AnswerOf, SubscribedInv
<1>12. TaskFrame(t) \in DownFrame /\ \A u \in Task : IsTask(TaskFrame(t), u) => u = t
  BY FrameTypes DEF IsTask, TaskFrame
<1>13. \A h \in Gen : down'[h] = down[h] \/ (h = g /\ down'[h] = Append(down[h], TaskFrame(t)))
  BY <1>1, <1>4, <1>5 DEF Enqueue
<1>14. ASSUME NEW u \in Task, u # t PROVE AnswerOf(u)'
  <2>1. \A h \in Gen : QueueCalm(h, u)
    BY <1>12, <1>13, <1>14 DEF QueueCalm
  <2>2. \A h \in Gen : WaitsAt(h, u)' => WaitsAt(h, u)
    BY <1>1, <2>1, QueueCalmFrames
  <2>3. subs'[u] = subs[u] /\ u[1] \in Request
    BY <1>1, <1>4, <1>14 DEF Task
  <2>4. u[1] = q => ~Listening(u)'
    BY <1>6, <1>8, <1>14 DEF Listening
  <2>5. u[1] # q => req'[u[1]] = req[u[1]] /\ (Listening(u)' <=> Listening(u))
    BY <1>7, <2>3 DEF Listening
  <2>6. Listening(u)' => Listening(u) /\ req'[u[1]].chunks = req[u[1]].chunks
    BY <2>4, <2>5
  <2>7. \A h \in Gen : Feeds(h, u)' => Feeds(h, u)
    BY <1>4, <2>3, <2>6 DEF Feeds, Live, CurrentSession
  <2>8. Still(u)
    BY <1>1, <1>4, <2>2, <2>3, <2>6, <2>7 DEF Still
  <2> QED
    BY <1>1, <1>4, <2>8, StillTask
<1>15. AnswerOf(t)'
  <2>1. \A h \in Gen : WaitsAt(h, t)' => h = g
    BY <1>10, <1>13 DEF WaitsAt, Untouched, Waits
  <2>2. subs'[t] = g
    BY <1>1, <1>4
  <2>3. SubscribedInv(t)'
    BY <1>4, <1>5, <1>11, <2>1, <2>2 DEF SubscribedInv
  <2>4. SaidInv(t)'
    BY <1>4, <1>10 DEF SaidInv, Untouched, IsKind
  <2>5. OrderInv(t)'
    BY <1>1, <1>4 DEF AnswerOf, OrderInv
  <2>6. Missing(t)' = {}
    BY <1>4, <1>6, <1>8, <1>9, <1>11 DEF Missing
  <2>7. req'[t[1]].chunks <= work'[t].chunks
    BY <1>4, <1>6, <1>8, <1>9, <1>11
  <2>8. ChunkInv(t)'
    BY <2>6, <2>7 DEF ChunkInv
  <2> QED
    BY <2>3, <2>4, <2>5, <2>8 DEF AnswerOf
<1>16. ASSUME NEW p \in Request \ {q} PROVE HandedInv(p)'
  BY <1>4, <1>7, AnswerFacts, HandedStill
<1>17. HandedInv(q)'
  BY <1>6, <1>9 DEF HandedInv, Undispatched
<1> QED
  BY <1>14, <1>15, <1>16, <1>17 DEF AnswerInv, AnswerOf

LEMMA HandlerAnswers ==
  ASSUME DispatchInv, AnswerInv, NEW q \in Request, RequestSteps(q)
  PROVE  AnswerInv'
<1>1. /\ req \in [Request -> HandlerType] /\ HandedInv(q) /\ Chosen(q) /\ ResultInv(q)
      /\ DispatchTypeOK /\ TaskOf(q) \in Task
  BY AnswerFacts, RunnerTyped DEF DispatchInv
<1>2. ASSUME UNCHANGED handlerOnly, UNCHANGED <<down, subs>>, \A p \in Request \ {q} : req'[p] = req[p],
             req'[q].phase \notin ListeningPhases, HandedInv(q)'
      PROVE  AnswerInv'
  <2>1. UNCHANGED <<connections, owner, controlEnd, subs, up, work, events>>
    BY <1>2 DEF handlerOnly
  <2>2. \A h \in Gen, u \in Task : WaitsAt(h, u)' => WaitsAt(h, u)
    BY <1>2 DEF WaitsAt
  <2> QED
    BY <1>2, <2>1, <2>2, DeafStep
<1>3. ASSUME NEW x, Again(q, x), UNCHANGED handlerOnly, UNCHANGED <<down, subs>> PROVE AnswerInv'
  <2>1. /\ \A p \in Request \ {q} : req'[p] = req[p]
        /\ req'[q].phase \in {"choosing", "done"} /\ req'[q].result # "ok"
        /\ req'[q].phase = "choosing" => req'[q].chunks = 0
    BY <1>1, <1>3, AgainEffect
  <2>2. HandedInv(q)' /\ req'[q].phase \notin ListeningPhases
    BY <2>1 DEF HandedInv, Undispatched, ListeningPhases
  <2> QED
    BY <1>2, <1>3, <2>1, <2>2
<1>4. CASE AuthorizationRefused(q)
  <2>1. End(q, "before") /\ UNCHANGED handlerOnly /\ UNCHANGED <<down, subs>>
    BY <1>4 DEF AuthorizationRefused
  <2>2. /\ req'[q].phase = "done" /\ req'[q].result = "before"
        /\ \A p \in Request \ {q} : req'[p] = req[p]
    BY <1>1, <2>1, EndEffect
  <2>3. HandedInv(q)' /\ req'[q].phase \notin ListeningPhases
    BY <2>2 DEF HandedInv, Undispatched, ListeningPhases
  <2> QED
    BY <1>2, <2>1, <2>2, <2>3
<1>5. ASSUME Undispatched(q), \A p \in Request \ {q} : req'[p] = req[p],
             UNCHANGED handlerOnly, UNCHANGED <<down, subs>>,
             req'[q].chunks = req[q].chunks, req'[q].result = req[q].result,
             req'[q].phase \in {"reserving", "reserved"}
      PROVE  AnswerInv'
  <2>1. req[q].chunks = 0 /\ req[q].result = "none"
    BY <1>1, <1>5 DEF HandedInv, ResultInv, Undispatched
  <2>2. HandedInv(q)' /\ req'[q].phase \notin ListeningPhases
    BY <1>5, <2>1 DEF HandedInv, ListeningPhases
  <2> QED
    BY <1>2, <1>5, <2>2
<1>6. CASE SelectRunner(q)
  <2>1. Undispatched(q) /\ UNCHANGED handlerOnly /\ UNCHANGED <<down, subs>>
    BY <1>6 DEF SelectRunner, Undispatched
  <2>2. ASSUME NEW r \in ReadyRunners(q),
               req' = [req EXCEPT ![q] = [@ EXCEPT !.phase = "reserving", !.runner = r,
                                                   !.gen = connections[r]]]
        PROVE  AnswerInv'
    <3>1. \A p \in Request \ {q} : req'[p] = req[p]
      BY <1>1, <2>2
    <3>2. /\ req'[q].chunks = req[q].chunks /\ req'[q].result = req[q].result
          /\ req'[q].phase = "reserving"
      BY <1>1, <2>2 DEF HandlerType
    <3> QED
      BY <1>5, <2>1, <3>1, <3>2
  <2> QED
    BY <1>3, <1>6, <2>1, <2>2 DEF SelectRunner
<1>7. CASE QueuePlace(q)
  <2>1. Undispatched(q) /\ UNCHANGED handlerOnly /\ UNCHANGED <<down, subs>>
    BY <1>7 DEF QueuePlace, Undispatched
  <2>2. CASE req' = [req EXCEPT ![q].phase = "reserved"]
    <3>1. \A p \in Request \ {q} : req'[p] = req[p]
      BY <1>1, <2>2
    <3>2. /\ req'[q].chunks = req[q].chunks /\ req'[q].result = req[q].result
          /\ req'[q].phase = "reserved"
      BY <1>1, <2>2 DEF HandlerType
    <3> QED
      BY <1>5, <2>1, <3>1, <3>2
  <2>3. CASE \E x : Again(q, x)
    BY <1>3, <2>1, <2>3
  <2> QED
    BY <1>7, <2>2, <2>3, Zenon DEF QueuePlace
<1>8. CASE DispatchReserved(q)
  <2>1. CASE ~Stays(q)
    <3>1. (\E x : Again(q, x)) /\ UNCHANGED handlerOnly /\ UNCHANGED <<down, subs>>
      BY <1>8, <2>1, Zenon DEF DispatchReserved
    <3> QED
      BY <1>3, <3>1
  <2>2. CASE Stays(q)
    BY <1>8, <2>2, DispatchedAnswers
  <2> QED
    BY <2>1, <2>2
<1>9. CASE Receive(q)
  BY <1>9, ReceiveAnswers
<1>10. CASE StreamEnds(q)
  <2>1. /\ req[q].phase \in ListeningPhases /\ EventsLeft(q) /\ DropHandle(q)
        /\ UNCHANGED <<connections, owner, controlEnd, subs, up, work>>
    BY <1>10, Zenon DEF StreamEnds, Abort
  <2>2. req[q].gen \in Gen
    BY <1>1, <2>1 DEF Chosen, ListeningPhases
  <2>3. \A h \in Gen, u \in Task : WaitsAt(h, u)' => WaitsAt(h, u)
    BY <2>1, <2>2, ReceiveCalm DEF Calm
  <2>4. PICK x \in {"before", "unknown"} : End(q, x)
    BY <1>10, Zenon DEF StreamEnds, Abort
  <2>5. /\ req'[q].phase = "done" /\ req'[q].result = x
        /\ \A p \in Request \ {q} : req'[p] = req[p]
    BY <1>1, <2>4, EndEffect
  <2>6. HandedInv(q)' /\ req'[q].phase \notin ListeningPhases
    BY <2>5 DEF HandedInv, Undispatched, ListeningPhases
  <2>7. events'[TaskOf(q)] = << >> /\ \A u \in Task \ {TaskOf(q)} : events'[u] = events[u]
    BY <1>1, <2>1, <2>6, DeafLeft, EventsLeftEffect
  <2> QED
    BY <2>1, <2>3, <2>5, <2>6, <2>7, DeafStep
<1> QED
  BY <1>4, <1>6, <1>7, <1>8, <1>9, <1>10 DEF RequestSteps

LEMMA AnswerInitially == DispatchInit => AnswerInv
<1> SUFFICES ASSUME DispatchInit PROVE AnswerInv
  OBVIOUS
<1>1. Elems(<< >>) = {}
  BY ElemsEmpty
<1>2. ASSUME NEW t \in Task PROVE AnswerOf(t)
  <2>1. t[1] \in Request /\ req[t[1]].phase = "choosing" /\ subs[t] = 0 /\ events[t] = << >>
        /\ work[t].phase = "none" /\ work[t].chunks = 0 /\ \A g \in Gen : up[g] = << >>
    BY DEF DispatchInit, Task, NewAttempt, NoWork
  <2>2. ~Listening(t)
    BY <2>1 DEF Listening, ListeningPhases
  <2>3. SubscribedInv(t) /\ SaidInv(t)
    BY <1>1, <2>1 DEF SubscribedInv, SaidInv
  <2>4. OrderInv(t)
    BY <2>1, ClosedEmpty DEF OrderInv
  <2>5. ChunkInv(t)
    BY <2>2 DEF ChunkInv, Feeds
  <2> QED
    BY <2>3, <2>4, <2>5 DEF AnswerOf
<1>3. ASSUME NEW q \in Request PROVE HandedInv(q)
  BY DEF DispatchInit, HandedInv, NewAttempt
<1> QED
  BY <1>2, <1>3 DEF AnswerInv, AnswerOf

LEMMA AnswerPreserved ==
  ASSUME DispatchInv, AnswerInv, [DispatchNext]_dispatchVars PROVE AnswerInv'
<1>1. CASE DispatchNext
  <2>1. CASE \E r \in RemoteRunner : Connect(r) \/ Disable(r) \/ Disconnect(r)
    BY <1>1, <2>1, SessionAnswers
  <2>2. ASSUME NEW g \in Gen, RunnerDrops(g) \/ ControlBreaks(g) \/ Unregister(g) \/ CancelTask(g)
        PROVE  AnswerInv'
    BY <1>1, <2>2, SessionAnswers
  <2>3. ASSUME NEW g \in Gen, PublishFrom(g) \/ AcceptTask(g) PROVE AnswerInv'
    BY <2>3, PublishAnswers, AcceptAnswers
  <2>4. ASSUME NEW q \in Request, RequestSteps(q) PROVE AnswerInv'
    BY <2>4, HandlerAnswers
  <2>5. ASSUME NEW t \in Task, Worker(t) PROVE AnswerInv'
    BY <2>5, WorkerAnswers
  <2> QED
    BY <1>1, <2>1, <2>2, <2>3, <2>4, <2>5 DEF DispatchNext, Session
<1>2. CASE UNCHANGED dispatchVars
  <2>1. UNCHANGED <<connections, owner, controlEnd, down, up, subs, events, req, work>>
    BY <1>2 DEF dispatchVars, hubVars, adminVars
  <2>2. \A t \in Task : Still(t)
    BY <2>1, AnswerFacts DEF Still, WaitsAt, Listening, Feeds, Live, CurrentSession
  <2> QED
    BY <2>1, <2>2, StillStep
<1> QED
  BY <1>1, <1>2

\* An answer handed on as complete has every chunk, and no subscription is
\* left on a session that ended: neither a full event channel nor a replaced
\* connection loses a chunk in the middle or at the end.
THEOREM DispatchAnswers == DispatchSpec => []AnswerDelivered
<1>1. DispatchSpec => []AnswerInv
  BY AnswerInitially, AnswerPreserved, DispatchInvariant, PTL DEF DispatchSpec
<1>2. ASSUME AnswerInv PROVE CompleteAnswer
  BY <1>2 DEF AnswerInv, HandedInv, CompleteAnswer
<1>3. ASSUME AnswerInv, NoOrphanSubscription PROVE AnswerDelivered
  BY <1>2, <1>3 DEF AnswerDelivered
<1> QED
  BY <1>1, <1>3, DispatchNoOrphan, PTL

(***************************************************************************)
(* One request through the gateway, for any number of images and of        *)
(* changes to what was granted.                                            *)
(*                                                                         *)
(* Where the handler stands says what upstream can have done: nothing      *)
(* before an attempt, the delivered images and no more between attempts.   *)
(* Grants are only withdrawn, so one that stands at a later check stood    *)
(* when the authorization began.                                           *)
(***************************************************************************)
EarlyStage == {"arrived", "authorized", "access", "plan", "reserve"}
AttemptStage == {"prepare", "lease", "authorize", "subject", "admit", "sent", "fetch"}
EndingStage == {"settle", "fail"}

Grants == [key : BOOLEAN, license : BOOLEAN, access : BOOLEAN, plugin : BOOLEAN,
           connection : Nat, account : Nat]
Outcome == [kind : {"none", "usage", "images", "unknown", "failure"}, count : Nat]
RanType == [maybe : BOOLEAN, images : Nat, whole : BOOLEAN, errorStart : BOOLEAN]

GatewayTypeOK ==
  /\ endpoint \in {"responses", "chat", "messages", "generations", "edits"}
  /\ streams \in BOOLEAN /\ wanted \in Nat
  /\ granted \in Grants /\ cleared \in Grants /\ changes \in Nat
  /\ stage \in EarlyStage \cup AttemptStage \cup EndingStage \cup {"streaming", "done", "dropped"}
  /\ path \in {"native", "plugin"} /\ route \in Nat /\ confirmed \in Nat
  /\ intent \in Outcome /\ settled \in SUBSET Outcome /\ held \in BOOLEAN
  /\ client \in [here : BOOLEAN, got : {"nothing", "frames", "answer", "error"}]
  /\ ran \in RanType

\* Only text is streamed.
StreamsText == streams => wanted = 0

\* What was withdrawn stays withdrawn.
OnlyWithdrawn ==
  /\ granted.key => cleared.key
  /\ granted.license => cleared.license
  /\ granted.access => cleared.access

Authorized ==
  /\ stage \in {"subject", "admit", "sent"} => RouteIn(cleared) = route
  /\ stage \in {"admit", "sent"} => cleared.key /\ cleared.license
  /\ stage = "sent" => cleared.access

\* Upstream did nothing that the handler has not counted.
Counted ==
  /\ ~ran.whole /\ ran.images = confirmed
  /\ ran.maybe => ran.images > 0
  /\ Text => ran.images = 0

Whole == IF Text THEN Usage ELSE ImageUsage(wanted)

\* The outcome in intent says what upstream did.
IntentTrue ==
  /\ intent.kind = "usage" => ran.whole
  /\ intent.kind = "images" => intent.count = ran.images
  /\ intent.kind = "failure" => (ran.maybe => ran.errorStart)
  /\ ran.whole \/ ran.images > 0 => intent.kind \in {"usage", "images"}

Progress ==
  /\ stage \in EarlyStage => Counted /\ ran.images = 0
  /\ stage \in AttemptStage => Counted
  /\ stage = "fetch" => ran.images > 0
  /\ stage = "streaming" => ~ran.whole /\ ran.images = 0 /\ Text
  /\ stage \in EndingStage => IntentTrue
  /\ stage = "settle" => intent = Whole

Paid ==
  /\ stage # "done" => settled = {} /\ client.got # "answer"
  /\ stage = "done" =>
       \/ settled = {} /\ ~ran.whole /\ ran.images = 0 /\ client.got # "answer"
       \/ settled = {intent} /\ IntentTrue /\ (client.got = "answer" => intent = Whole)

GatewayInv ==
  GatewayTypeOK /\ StreamsText /\ OnlyWithdrawn /\ Authorized /\ Progress /\ Paid

LEMMA GatewayInitially == GatewayInit => GatewayInv
<1> SUFFICES ASSUME GatewayInit PROVE GatewayInv OBVIOUS
<1>1. granted \in Grants BY DEF GatewayInit, Grants
<1>2. intent \in Outcome BY DEF GatewayInit, Outcome, Nothing
<1>3. /\ endpoint \in {"responses", "chat", "messages", "generations", "edits"}
      /\ streams \in BOOLEAN /\ wanted \in Nat /\ StreamsText
  <2>1. CASE endpoint \in {"responses", "chat", "messages"} /\ streams \in BOOLEAN /\ wanted = 0
    BY <2>1 DEF StreamsText
  <2>2. CASE /\ endpoint \in {"generations", "edits"} /\ streams = FALSE
             /\ wanted \in 1 .. MaxImages
    <3>1. wanted \in Nat BY <2>2, GatewayAssumption
    <3> QED BY <2>2, <3>1 DEF StreamsText
  <2> QED BY <2>1, <2>2 DEF GatewayInit
<1>4. /\ client \in [here : BOOLEAN, got : {"nothing", "frames", "answer", "error"}]
      /\ ran \in RanType
      /\ client.got = "nothing" /\ ~ran.maybe /\ ~ran.whole /\ ran.images = 0
  BY DEF GatewayInit, RanType
<1>5. GatewayTypeOK
  BY <1>1, <1>2, <1>3, <1>4 DEF GatewayInit, GatewayTypeOK, EarlyStage
<1>6. OnlyWithdrawn BY DEF GatewayInit, OnlyWithdrawn
<1>7. Authorized BY DEF GatewayInit, Authorized
<1>8. Progress
  BY <1>4 DEF GatewayInit, Progress, EarlyStage, AttemptStage, EndingStage, Counted
<1>9. Paid BY <1>4 DEF GatewayInit, Paid
<1> QED BY <1>3, <1>5, <1>6, <1>7, <1>8, <1>9 DEF GatewayInv

LEMMA WithdrawStep ==
  ASSUME GatewayInv, Withdraw
  PROVE  GatewayInv'
<1>1. UNCHANGED <<endpoint, streams, wanted, stage, path, route, confirmed, intent, settled, held,
                  client, cleared, ran>>
  BY DEF Withdraw
<1>2. /\ granted' \in Grants /\ changes' \in Nat
      /\ granted'.key => granted.key
      /\ granted'.license => granted.license
      /\ granted'.access => granted.access
  <2>1. granted \in Grants /\ changes \in Nat BY DEF GatewayInv, GatewayTypeOK
  <2>2. changes' \in Nat BY <2>1 DEF Withdraw
  <2>3. CASE \E what \in {"key", "license", "access", "plugin"} :
               granted' = [granted EXCEPT ![what] = FALSE]
    <3>1. PICK what \in {"key", "license", "access", "plugin"} :
               granted' = [granted EXCEPT ![what] = FALSE]
      BY <2>3
    <3> QED BY <2>1, <2>2, <3>1 DEF Grants
  <2>4. CASE \E what \in {"connection", "account"}, n \in Nat :
               granted' = [granted EXCEPT ![what] = n]
    <3>1. PICK what \in {"connection", "account"}, n \in Nat :
               granted' = [granted EXCEPT ![what] = n]
      BY <2>4
    <3> QED BY <2>1, <2>2, <3>1 DEF Grants
  <2>5. granted.connection + 1 \in Nat /\ granted.account + 1 \in Nat /\ 0 \in Nat
    BY <2>1 DEF Grants
  <2> QED BY <2>3, <2>4, <2>5 DEF Withdraw
<1>3. GatewayTypeOK' BY <1>1, <1>2 DEF GatewayInv, GatewayTypeOK
<1>4. StreamsText' /\ OnlyWithdrawn'
  BY <1>1, <1>2 DEF GatewayInv, StreamsText, OnlyWithdrawn
<1>5. Authorized' BY <1>1 DEF GatewayInv, Authorized, RouteIn
<1>6. Progress' /\ Paid'
  BY <1>1 DEF GatewayInv, Progress, Paid, Counted, IntentTrue, Whole, Text, Usage, ImageUsage
<1> QED BY <1>3, <1>4, <1>5, <1>6 DEF GatewayInv

LEMMA ClientLeavesStep ==
  ASSUME GatewayInv, ClientLeaves
  PROVE  GatewayInv'
<1>1. /\ UNCHANGED <<endpoint, streams, wanted, granted, changes, path, route, confirmed, intent,
                     settled, held, cleared, ran>>
      /\ stage # "done" /\ stage' \in {stage, "dropped"}
      /\ client' = [client EXCEPT !.here = FALSE]
  BY DEF ClientLeaves
<1>2. client' \in [here : BOOLEAN, got : {"nothing", "frames", "answer", "error"}]
      /\ client'.got = client.got
  BY <1>1 DEF GatewayInv, GatewayTypeOK
<1>3. GatewayTypeOK' BY <1>1, <1>2 DEF GatewayInv, GatewayTypeOK
<1>4. StreamsText' /\ OnlyWithdrawn' BY <1>1 DEF GatewayInv, StreamsText, OnlyWithdrawn
<1>5. Authorized' BY <1>1 DEF GatewayInv, Authorized, RouteIn
<1>6. Progress'
  BY <1>1 DEF GatewayInv, Progress, Counted, IntentTrue, Whole, Text, Usage, ImageUsage,
              EarlyStage, AttemptStage, EndingStage
<1>7. Paid' BY <1>1, <1>2 DEF GatewayInv, Paid
<1> QED BY <1>3, <1>4, <1>5, <1>6, <1>7 DEF GatewayInv

\* The handler gives up before anything was reserved.
LEMMA RefuseStep ==
  ASSUME GatewayInv, stage \in EarlyStage, Refuse
  PROVE  GatewayInv'
<1>1. /\ UNCHANGED <<endpoint, streams, wanted, granted, changes, path, route, confirmed, intent,
                     settled, held, cleared, ran>>
      /\ stage' = "done" /\ client' = [client EXCEPT !.got = "error"]
  BY DEF Refuse
<1>2. client' \in [here : BOOLEAN, got : {"nothing", "frames", "answer", "error"}]
      /\ client'.got = "error"
  BY <1>1 DEF GatewayInv, GatewayTypeOK
<1>3. GatewayTypeOK' BY <1>1, <1>2 DEF GatewayInv, GatewayTypeOK
<1>4. StreamsText' /\ OnlyWithdrawn' BY <1>1 DEF GatewayInv, StreamsText, OnlyWithdrawn
<1>5. Authorized' BY <1>1 DEF Authorized
<1>6. Progress' BY <1>1 DEF Progress, EarlyStage, AttemptStage, EndingStage
<1>7. ~ran.whole /\ ran.images = 0 /\ settled = {}
  BY DEF GatewayInv, Progress, Paid, Counted, EarlyStage
<1>8. Paid' BY <1>1, <1>2, <1>7 DEF Paid
<1> QED BY <1>3, <1>4, <1>5, <1>6, <1>8 DEF GatewayInv

\* A step to another stage before the dispatch.
LEMMA AdvanceStep ==
  ASSUME GatewayInv, NEW s \in EarlyStage \cup AttemptStage, Moves(s),
         stage \in EarlyStage \cup AttemptStage, stage \in AttemptStage => s \in AttemptStage,
         s # "fetch", s \notin {"subject", "admit", "sent"},
         UNCHANGED <<confirmed, intent, client, cleared, ran>>,
         path' \in {"native", "plugin"}, route' \in Nat
  PROVE  GatewayInv'
<1>1. stage' = s /\ UNCHANGED <<endpoint, streams, wanted, granted, changes, settled, held>>
  BY DEF Moves
<1>2. GatewayTypeOK' BY <1>1 DEF GatewayInv, GatewayTypeOK
<1>3. StreamsText' /\ OnlyWithdrawn' BY <1>1 DEF GatewayInv, StreamsText, OnlyWithdrawn
<1>4. Authorized' BY <1>1 DEF Authorized
<1>5. Progress'
  BY <1>1 DEF GatewayInv, Progress, Counted, Text, EarlyStage, AttemptStage, EndingStage
<1>6. Paid' BY <1>1 DEF GatewayInv, Paid, EarlyStage, AttemptStage
<1> QED BY <1>2, <1>3, <1>4, <1>5, <1>6 DEF GatewayInv

\* A step of the authorization, or to the next attempt.
LEMMA AuthorizeStep ==
  ASSUME GatewayInv, NEW s \in {"authorize", "subject", "admit", "sent"}, Moves(s),
         stage \in AttemptStage,
         UNCHANGED <<path, route, confirmed, intent, client, ran>>,
         cleared' \in Grants, OnlyWithdrawn', Authorized'
  PROVE  GatewayInv'
<1>1. stage' = s /\ UNCHANGED <<endpoint, streams, wanted, granted, changes, settled, held>>
  BY DEF Moves
<1>2. GatewayTypeOK' BY <1>1 DEF GatewayInv, GatewayTypeOK, AttemptStage
<1>3. StreamsText' BY <1>1 DEF GatewayInv, StreamsText
<1>5. Progress'
  BY <1>1 DEF GatewayInv, Progress, Counted, Text, EarlyStage, AttemptStage, EndingStage
<1>6. Paid' BY <1>1 DEF GatewayInv, Paid, AttemptStage
<1> QED BY <1>2, <1>3, <1>5, <1>6 DEF GatewayInv

\* A step to the settlement of an outcome that says what upstream did.
LEMMA SettleStep ==
  ASSUME GatewayInv, NEW o \in Outcome, NEW s \in EndingStage, Settle(o, s),
         stage # "done", confirmed' \in Nat,
         ran' \in RanType,
         o.kind = "usage" => ran'.whole,
         o.kind = "images" => o.count = ran'.images,
         o.kind = "failure" => (ran'.maybe => ran'.errorStart),
         ran'.whole \/ ran'.images > 0 => o.kind \in {"usage", "images"},
         s = "settle" => o = Whole
  PROVE  GatewayInv'
<1>1. /\ stage' = s /\ intent' = o
      /\ UNCHANGED <<endpoint, streams, wanted, granted, changes, settled, held, path, route, client,
                     cleared>>
  BY DEF Settle, Moves
<1>2. GatewayTypeOK' BY <1>1 DEF GatewayInv, GatewayTypeOK
<1>3. StreamsText' /\ OnlyWithdrawn' BY <1>1 DEF GatewayInv, StreamsText, OnlyWithdrawn
<1>4. Authorized' BY <1>1 DEF Authorized, EndingStage
<1>5. IntentTrue' BY <1>1 DEF IntentTrue
<1>6. Whole' = Whole BY <1>1 DEF Whole, Text, Usage, ImageUsage
<1>7. Progress' BY <1>1, <1>5, <1>6 DEF Progress, EarlyStage, AttemptStage, EndingStage
<1>8. Paid' BY <1>1 DEF GatewayInv, Paid, EndingStage
<1> QED BY <1>2, <1>3, <1>4, <1>5, <1>7, <1>8 DEF GatewayInv

-----------------------------------------------------------------------------
(* Attempts. *)

\* An attempt that fails: what was delivered is paid for, and where nothing was
\* the failure is certain only if the request cannot have been executed.
LEMMA FailStep ==
  ASSUME GatewayInv, stage \in AttemptStage, NEW why, AttemptFails(why, confirmed),
         ran' \in RanType,
         ran'.images = ran.images, ran'.whole = ran.whole,
         ran'.maybe => ran.maybe \/ UnknownAfter(why) \/ ran'.errorStart
  PROVE  GatewayInv'
<1>1. PICK o : o = IF confirmed > 0 THEN ImageUsage(confirmed) ELSE Failure(UnknownAfter(why))
  OBVIOUS
<1>2. Settle(o, "fail") /\ confirmed' = confirmed BY <1>1 DEF AttemptFails
<1>3. /\ ~ran.whole /\ ran.images = confirmed /\ (ran.maybe => ran.images > 0)
      /\ confirmed \in Nat /\ ran.images \in Nat
  BY DEF GatewayInv, GatewayTypeOK, RanType, Progress, Counted
<1>4. CASE confirmed > 0
  <2>1. o = [kind |-> "images", count |-> confirmed] BY <1>1, <1>4 DEF ImageUsage
  <2>2. o \in Outcome /\ o.kind = "images" /\ o.count = confirmed BY <1>3, <2>1 DEF Outcome
  <2> QED BY <1>2, <1>3, <2>2, SettleStep DEF EndingStage, AttemptStage
<1>5. CASE ~(confirmed > 0)
  <2>1. o = [kind |-> IF UnknownAfter(why) THEN "unknown" ELSE "failure", count |-> 0]
    BY <1>1, <1>5 DEF Failure
  <2>2. o \in Outcome /\ o.kind \in {"unknown", "failure"}
        /\ (o.kind = "failure" => ~UnknownAfter(why))
    BY <2>1 DEF Outcome
  <2>3. ~ran.maybe /\ ran.images = 0 BY <1>3, <1>5
  <2> QED BY <1>2, <1>3, <2>2, <2>3, SettleStep DEF EndingStage, AttemptStage
<1> QED BY <1>4, <1>5

\* An attempt that fails before it is sent.
LEMMA StaleStep ==
  ASSUME GatewayInv, stage \in AttemptStage, NEW why, AttemptFails(why, confirmed), UNCHANGED ran
  PROVE  GatewayInv'
BY FailStep DEF GatewayInv, GatewayTypeOK

LEMMA DeliverStep ==
  ASSUME GatewayInv, stage \in AttemptStage, ~Text, NEW n \in Nat, n > 0, ImageDelivered(n),
         ran' \in RanType,
         ran'.images = n, ran'.whole = ran.whole
  PROVE  GatewayInv'
<1>1. ~ran.whole BY DEF GatewayInv, Progress, Counted
<1>2. CASE n = wanted
  <2>1. PICK o : o = ImageUsage(n) OBVIOUS
  <2>2. Settle(o, "settle") /\ confirmed' = n BY <1>2, <2>1 DEF ImageDelivered
  <2>3. o \in Outcome /\ o.kind = "images" /\ o.count = n BY <2>1 DEF ImageUsage, Outcome
  <2>4. o = Whole BY <1>2, <2>1 DEF Whole
  <2> QED BY <1>1, <2>2, <2>3, <2>4, SettleStep DEF EndingStage, AttemptStage
<1>3. CASE n # wanted
  <2>1. PICK s \in {"prepare", "authorize"} :
          Moves(s) /\ confirmed' = n /\ UNCHANGED <<path, route, intent, client, cleared>>
    BY <1>3 DEF ImageDelivered
  <2>2. stage' = s /\ UNCHANGED <<endpoint, streams, wanted, granted, changes, settled, held>>
    BY <2>1 DEF Moves
  <2>3. GatewayTypeOK' BY <2>1, <2>2 DEF GatewayInv, GatewayTypeOK, AttemptStage
  <2>4. StreamsText' /\ OnlyWithdrawn' BY <2>1, <2>2 DEF GatewayInv, StreamsText, OnlyWithdrawn
  <2>5. Authorized' BY <2>2 DEF Authorized
  <2>6. Progress'
    BY <1>1, <2>1, <2>2 DEF Progress, Counted, Text, EarlyStage, AttemptStage, EndingStage
  <2>7. Paid' BY <2>1, <2>2 DEF GatewayInv, Paid, AttemptStage
  <2> QED BY <2>3, <2>4, <2>5, <2>6, <2>7 DEF GatewayInv
<1> QED BY <1>2, <1>3

LEMMA PrepareSteps ==
  ASSUME GatewayInv, Prepare \/ PrepareProviderRequest
  PROVE  GatewayInv'
<1>1. CASE Prepare
  <2>1. \/ Moves("lease") /\ UNCHANGED <<path, route, confirmed, intent, client, cleared>>
        \/ AttemptFails("stale", confirmed)
    BY <1>1 DEF Prepare
  <2>2. stage \in AttemptStage /\ UNCHANGED ran BY <1>1 DEF Prepare, AttemptStage
  <2>3. path \in {"native", "plugin"} /\ route \in Nat BY DEF GatewayInv, GatewayTypeOK
  <2> QED BY <2>1, <2>2, <2>3, AdvanceStep, StaleStep DEF AttemptStage
<1>2. CASE PrepareProviderRequest
  <2>1. \/ /\ route' = granted.account /\ Moves("authorize")
           /\ UNCHANGED <<path, confirmed, intent, client, cleared>>
        \/ AttemptFails("stale", confirmed)
    BY <1>2 DEF PrepareProviderRequest
  <2>2. stage \in AttemptStage /\ UNCHANGED ran BY <1>2 DEF PrepareProviderRequest, AttemptStage
  <2>3. path \in {"native", "plugin"} /\ granted.account \in Nat
    BY DEF GatewayInv, GatewayTypeOK, Grants
  <2> QED BY <2>1, <2>2, <2>3, AdvanceStep, StaleStep DEF AttemptStage
<1> QED BY <1>1, <1>2

LEMMA AuthorizeSteps ==
  ASSUME GatewayInv, CheckRoute \/ CheckSubject \/ AdmitAttempt \/ NextRunner
  PROVE  GatewayInv'
<1>0. granted \in Grants /\ cleared \in Grants BY DEF GatewayInv, GatewayTypeOK
<1>1. CASE CheckRoute
  <2>1. stage \in AttemptStage /\ UNCHANGED ran BY <1>1 DEF CheckRoute, AttemptStage
  <2>2. CASE AttemptFails("stale", confirmed) BY <2>1, <2>2, StaleStep
  <2>3. CASE /\ RouteIn(granted) = route /\ cleared' = granted /\ Moves("subject")
             /\ UNCHANGED <<path, route, confirmed, intent, client>>
    <3>1. OnlyWithdrawn' BY <2>3 DEF OnlyWithdrawn, Moves
    <3>2. Authorized' BY <2>3 DEF Authorized, Moves, RouteIn
    <3> QED BY <1>0, <2>1, <2>3, <3>1, <3>2, AuthorizeStep
  <2> QED BY <1>1, <2>2, <2>3 DEF CheckRoute
<1>2. CASE CheckSubject
  <2>1. stage = "subject" /\ stage \in AttemptStage /\ UNCHANGED ran
    BY <1>2 DEF CheckSubject, AttemptStage
  <2>2. CASE AttemptFails("stale", confirmed) BY <2>1, <2>2, StaleStep
  <2>3. CASE /\ granted.key /\ granted.license /\ Moves("admit")
             /\ UNCHANGED <<path, route, confirmed, intent, client, cleared>>
    <3>1. OnlyWithdrawn' BY <2>3 DEF OnlyWithdrawn, Moves, GatewayInv
    <3>2. Authorized' BY <2>1, <2>3 DEF Authorized, Moves, RouteIn, GatewayInv, OnlyWithdrawn
    <3> QED BY <1>0, <2>1, <2>3, <3>1, <3>2, AuthorizeStep
  <2> QED BY <1>2, <2>2, <2>3 DEF CheckSubject
<1>3. CASE AdmitAttempt
  <2>1. stage = "admit" /\ stage \in AttemptStage /\ UNCHANGED ran
    BY <1>3 DEF AdmitAttempt, AttemptStage
  <2>2. CASE AttemptFails("stale", confirmed) BY <2>1, <2>2, StaleStep
  <2>3. CASE /\ granted.access /\ Moves("sent")
             /\ UNCHANGED <<path, route, confirmed, intent, client, cleared>>
    <3>1. OnlyWithdrawn' BY <2>3 DEF OnlyWithdrawn, Moves, GatewayInv
    <3>2. Authorized' BY <2>1, <2>3 DEF Authorized, Moves, RouteIn, GatewayInv, OnlyWithdrawn
    <3> QED BY <1>0, <2>1, <2>3, <3>1, <3>2, AuthorizeStep
  <2> QED BY <1>3, <2>2, <2>3 DEF AdmitAttempt
<1>4. CASE NextRunner
  <2>1. /\ Moves("authorize") /\ UNCHANGED <<path, route, confirmed, intent, client, cleared, ran>>
        /\ stage \in AttemptStage
    BY <1>4 DEF NextRunner, Goes, AttemptStage
  <2>2. OnlyWithdrawn' BY <2>1 DEF OnlyWithdrawn, Moves, GatewayInv
  <2>3. Authorized' BY <2>1 DEF Authorized, Moves
  <2> QED BY <1>0, <2>1, <2>2, <2>3, AuthorizeStep
<1> QED BY <1>1, <1>2, <1>3, <1>4

LEMMA NoAnswerSteps ==
  ASSUME GatewayInv,
         \/ \E why \in {"no runner", "lost"} : NoAnswer(why)
         \/ \E why \in {"rejected", "unavailable"} : ErrorStatus(why)
         \/ GarbledAnswer
  PROVE  GatewayInv'
<1>0. ran \in RanType BY DEF GatewayInv, GatewayTypeOK
<1>1. CASE NoAnswer("no runner")
  <2>1. /\ stage \in AttemptStage /\ AttemptFails("no runner", confirmed)
        /\ ran' = [ran EXCEPT !.maybe = @ \/ FALSE]
    BY <1>1 DEF NoAnswer, AttemptStage
  <2>2. ran' = ran BY <1>0, <2>1 DEF RanType
  <2> QED BY <2>1, <2>2, StaleStep
<1>2. CASE NoAnswer("lost")
  <2>1. /\ stage \in AttemptStage /\ AttemptFails("lost", confirmed)
        /\ ran' = [ran EXCEPT !.maybe = TRUE]
    BY <1>2, <1>0 DEF NoAnswer, AttemptStage
  <2>2. /\ ran' \in RanType
        /\ ran'.images = ran.images /\ ran'.whole = ran.whole
    BY <1>0, <2>1 DEF RanType
  <2>3. UnknownAfter("lost") BY DEF UnknownAfter
  <2> QED BY <2>1, <2>2, <2>3, FailStep
<1>3. CASE ErrorStatus("rejected")
  <2>1. /\ stage \in AttemptStage /\ AttemptFails("rejected", confirmed)
        /\ ran' = [ran EXCEPT !.maybe = @ \/ FALSE, !.errorStart = @ \/ FALSE]
    BY <1>3 DEF ErrorStatus, AttemptStage
  <2>2. ran' = ran BY <1>0, <2>1 DEF RanType
  <2> QED BY <2>1, <2>2, StaleStep
<1>5. CASE ErrorStatus("unavailable")
  <2>1. /\ stage \in AttemptStage /\ AttemptFails("unavailable", confirmed)
        /\ ran' = [ran EXCEPT !.maybe = TRUE, !.errorStart = @ \/ StreamsUpstream]
    BY <1>5, <1>0 DEF ErrorStatus, AttemptStage, RanType
  <2>2. PICK e \in BOOLEAN : e = (ran.errorStart \/ StreamsUpstream) OBVIOUS
  <2>3. ran' = [ran EXCEPT !.maybe = TRUE, !.errorStart = e] BY <2>1, <2>2
  <2>4. /\ ran' \in RanType
        /\ ran'.images = ran.images /\ ran'.whole = ran.whole /\ ran'.errorStart = e
    BY <1>0, <2>3 DEF RanType
  <2>5. CASE StreamsUpstream
    <3>1. ran'.errorStart BY <2>2, <2>4, <2>5
    <3> QED BY <2>1, <2>4, <3>1, FailStep
  <2>6. CASE ~StreamsUpstream
    <3>1. UnknownAfter("unavailable") BY <2>6 DEF UnknownAfter
    <3> QED BY <2>1, <2>4, <3>1, FailStep
  <2> QED BY <2>5, <2>6
<1>4. CASE GarbledAnswer
  <2>1. /\ stage \in AttemptStage /\ AttemptFails("garbled", confirmed)
        /\ ran' = [ran EXCEPT !.maybe = TRUE]
    BY <1>4 DEF GarbledAnswer, AttemptStage
  <2>2. /\ ran' \in RanType
        /\ ran'.images = ran.images /\ ran'.whole = ran.whole
    BY <1>0, <2>1 DEF RanType
  <2>3. UnknownAfter("garbled") BY DEF UnknownAfter
  <2> QED BY <2>1, <2>2, <2>3, FailStep
<1> QED BY <1>1, <1>2, <1>3, <1>4, <1>5

LEMMA AnswerSteps ==
  ASSUME GatewayInv, TextAnswer \/ OneImage \/ ImageAddress \/ StreamStarts
  PROVE  GatewayInv'
<1>0. /\ ran \in RanType /\ confirmed \in Nat
      /\ StreamsText
  BY DEF GatewayInv, GatewayTypeOK
<1>1. CASE TextAnswer
  <2>1. /\ stage \in AttemptStage /\ Text /\ Settle(Usage, "settle") /\ UNCHANGED confirmed
        /\ ran' = [ran EXCEPT !.maybe = TRUE, !.whole = TRUE]
    BY <1>1 DEF TextAnswer, AttemptStage
  <2>2. ran' \in RanType /\ ran'.whole
    BY <1>0, <2>1 DEF RanType
  <2>3. Usage \in Outcome /\ Usage.kind = "usage" /\ Usage = Whole
    BY <2>1 DEF Usage, Outcome, Whole
  <2> QED BY <1>0, <2>1, <2>2, <2>3, SettleStep DEF AttemptStage, EndingStage
<1>2. CASE OneImage
  <2>1. /\ stage \in AttemptStage /\ ~Text /\ ImageDelivered(confirmed + 1)
        /\ ran' = [ran EXCEPT !.maybe = TRUE, !.images = ran.images + 1]
    BY <1>2 DEF OneImage, AttemptStage
  <2>2. ran.images = confirmed BY <2>1 DEF GatewayInv, Progress, Counted
  <2>5. PICK n \in Nat : n = confirmed + 1 BY <1>0
  <2>6. n > 0 /\ n = ran.images + 1 BY <1>0, <2>2, <2>5
  <2>4. ran' = [ran EXCEPT !.maybe = TRUE, !.images = n] BY <2>1, <2>6
  <2>3. /\ ran' \in RanType
        /\ ran'.images = n /\ ran'.whole = ran.whole
    BY <1>0, <2>4 DEF RanType
  <2>7. ImageDelivered(n) BY <2>1, <2>5
  <2> QED BY <1>0, <2>1, <2>3, <2>6, <2>7, DeliverStep
<1>3. CASE ImageAddress
  <2>1. /\ stage \in AttemptStage /\ ~Text /\ Moves("fetch") /\ confirmed' = confirmed + 1
        /\ ran' = [ran EXCEPT !.maybe = TRUE, !.images = ran.images + 1]
        /\ UNCHANGED <<path, route, intent, client, cleared>>
    BY <1>3 DEF ImageAddress, AttemptStage
  <2>2. ran.images = confirmed /\ ~ran.whole BY <2>1 DEF GatewayInv, Progress, Counted
  <2>11. PICK n \in Nat : n = confirmed + 1 BY <1>0
  <2>12. n > 0 /\ n = ran.images + 1 BY <1>0, <2>2, <2>11
  <2>10. n > 0 /\ confirmed' = n /\ ran' = [ran EXCEPT !.maybe = TRUE, !.images = n]
    BY <2>1, <2>11, <2>12
  <2>3. /\ ran' \in RanType
        /\ ran'.images = n /\ ~ran'.whole
    BY <1>0, <2>2, <2>10 DEF RanType
  <2>4. stage' = "fetch" /\ UNCHANGED <<endpoint, streams, wanted, granted, changes, settled, held>>
    BY <2>1 DEF Moves
  <2>5. GatewayTypeOK' BY <2>1, <2>3, <2>4, <2>10 DEF GatewayInv, GatewayTypeOK, AttemptStage
  <2>6. StreamsText' /\ OnlyWithdrawn' BY <2>1, <2>4 DEF GatewayInv, StreamsText, OnlyWithdrawn
  <2>7. Authorized' BY <2>4 DEF Authorized
  <2>8. Progress'
    BY <2>1, <2>3, <2>4, <2>10 DEF Progress, Counted, Text, EarlyStage, AttemptStage, EndingStage
  <2>9. Paid' BY <2>1, <2>4 DEF GatewayInv, Paid, AttemptStage
  <2> QED BY <2>5, <2>6, <2>7, <2>8, <2>9 DEF GatewayInv
<1>4. CASE StreamStarts
  <2>1. /\ stage \in AttemptStage /\ Text /\ Moves("streaming")
        /\ ran' = [ran EXCEPT !.maybe = TRUE]
        /\ UNCHANGED <<path, route, confirmed, intent, client, cleared>>
    BY <1>0, <1>4 DEF StreamStarts, StreamsUpstream, StreamsText, Text, AttemptStage
  <2>2. ran.images = 0 /\ ~ran.whole BY <2>1 DEF GatewayInv, Progress, Counted
  <2>3. /\ ran' \in RanType
        /\ ran'.images = 0 /\ ~ran'.whole
    BY <1>0, <2>1, <2>2 DEF RanType
  <2>4. /\ stage' = "streaming"
        /\ UNCHANGED <<endpoint, streams, wanted, granted, changes, settled, held>>
    BY <2>1 DEF Moves
  <2>5. GatewayTypeOK' BY <2>1, <2>3, <2>4 DEF GatewayInv, GatewayTypeOK
  <2>6. StreamsText' /\ OnlyWithdrawn' BY <2>1, <2>4 DEF GatewayInv, StreamsText, OnlyWithdrawn
  <2>7. Authorized' BY <2>4 DEF Authorized
  <2>8. Progress'
    BY <2>1, <2>3, <2>4 DEF Progress, Text, EarlyStage, AttemptStage, EndingStage
  <2>9. Paid' BY <2>1, <2>4 DEF GatewayInv, Paid, AttemptStage
  <2> QED BY <2>5, <2>6, <2>7, <2>8, <2>9 DEF GatewayInv
<1> QED BY <1>1, <1>2, <1>3, <1>4

LEMMA FetchStep ==
  ASSUME GatewayInv, NEW ok \in BOOLEAN, FetchAsset(ok)
  PROVE  GatewayInv'
<1>1. stage = "fetch" /\ stage \in AttemptStage /\ UNCHANGED ran BY DEF FetchAsset, AttemptStage
<1>2. /\ ran.images > 0 /\ ran.images = confirmed /\ confirmed \in Nat
      /\ ran \in RanType
      /\ Text => ran.images = 0
  BY <1>1 DEF GatewayInv, GatewayTypeOK, Progress, Counted
<1>3. ImageDelivered(confirmed) \/ AttemptFails("stale", confirmed) BY DEF FetchAsset
<1> QED BY <1>1, <1>2, <1>3, DeliverStep, StaleStep

-----------------------------------------------------------------------------
(* Before the reservation. *)

LEMMA GoesStep ==
  ASSUME GatewayInv, stage \in EarlyStage, NEW ok,
         NEW s \in {"authorized", "plan", "reserve", "prepare", "authorize"}, GoesIf(ok, s)
  PROVE  GatewayInv'
<1>1. CASE Refuse BY <1>1, RefuseStep
<1>2. CASE Goes(s)
  <2>1. Moves(s) /\ UNCHANGED <<path, route, confirmed, intent, client, cleared, ran>>
    BY <1>2 DEF Goes
  <2>2. path \in {"native", "plugin"} /\ route \in Nat BY DEF GatewayInv, GatewayTypeOK
  <2>3. stage \notin AttemptStage /\ s \in EarlyStage \cup AttemptStage
    BY DEF EarlyStage, AttemptStage
  <2> QED BY <2>1, <2>2, <2>3, AdvanceStep
<1> QED BY <1>1, <1>2 DEF GoesIf

LEMMA FollowStep ==
  ASSUME GatewayInv, stage \in EarlyStage, FollowConnection
  PROVE  GatewayInv'
<1>1. path \in {"native", "plugin"} /\ route \in Nat /\ granted.connection \in Nat
  BY DEF GatewayInv, GatewayTypeOK, Grants
<1>2. path' \in {"native", "plugin"} /\ route' \in Nat BY <1>1 DEF FollowConnection
<1>3. Moves("access") /\ UNCHANGED <<confirmed, intent, client, cleared, ran>>
  BY DEF FollowConnection
<1>4. stage \notin AttemptStage /\ "access" \in EarlyStage \cup AttemptStage
  BY DEF EarlyStage, AttemptStage
<1> QED BY <1>2, <1>3, <1>4, AdvanceStep

LEMMA EarlySteps ==
  ASSUME GatewayInv,
         \/ AuthorizeConsumer \/ FindImageRoute \/ AssertModelAccess \/ Plan
         \/ \E ok \in BOOLEAN : FindRoute(ok) \/ Reserve(ok)
  PROVE  GatewayInv'
<1>1. CASE AuthorizeConsumer
  BY <1>1, GoesStep DEF AuthorizeConsumer, EarlyStage
<1>2. CASE FindImageRoute
  BY <1>2, FollowStep DEF FindImageRoute, EarlyStage
<1>3. CASE AssertModelAccess
  BY <1>3, GoesStep DEF AssertModelAccess, EarlyStage
<1>4. CASE Plan
  <2>1. PICK ok : stage = "plan" /\ GoesIf(ok, "reserve")
    BY <1>4 DEF Plan, PlanResponses, PlanChat, PlanMessages, PlanGeneration, PlanEdit,
                PlanPluginText, PlanPluginImages
  <2> QED BY <2>1, GoesStep DEF EarlyStage
<1>5. CASE \E ok \in BOOLEAN : FindRoute(ok)
  <2>1. stage \in EarlyStage /\ (FollowConnection \/ Refuse)
    BY <1>5 DEF FindRoute, EarlyStage
  <2> QED BY <2>1, FollowStep, RefuseStep
<1>6. CASE \E ok \in BOOLEAN : Reserve(ok)
  <2>1. PICK s \in {"prepare", "authorize"} : s = IF path = "native" THEN "prepare" ELSE "authorize"
    OBVIOUS
  <2>2. PICK ok : stage = "reserve" /\ GoesIf(ok, s) BY <1>6, <2>1 DEF Reserve
  <2> QED BY <2>2, GoesStep DEF EarlyStage
<1> QED BY <1>1, <1>2, <1>3, <1>4, <1>5, <1>6

-----------------------------------------------------------------------------
(* Streams and the settlement. *)

LEMMA StreamBreaksStep ==
  ASSUME GatewayInv, stage = "streaming", StreamBreaks
  PROVE  GatewayInv'
<1>1. PICK o : o = Failure(TRUE) OBVIOUS
<1>2. o = [kind |-> "unknown", count |-> 0] BY <1>1 DEF Failure
<1>3. o \in Outcome /\ o.kind = "unknown" BY <1>2 DEF Outcome
<1>4. Settle(o, "fail") /\ UNCHANGED <<confirmed, ran>> BY <1>1 DEF StreamBreaks
<1>5. /\ ~ran.whole /\ ran.images = 0 /\ confirmed \in Nat
      /\ ran \in RanType
  BY DEF GatewayInv, GatewayTypeOK, Progress
<1> QED BY <1>3, <1>4, <1>5, SettleStep DEF EndingStage

LEMMA PassOnStep ==
  ASSUME GatewayInv, stage = "streaming", PassOn
  PROVE  GatewayInv'
<1>1. /\ stage' = "streaming"
      /\ UNCHANGED <<endpoint, streams, wanted, granted, changes, settled, held, path, route,
                     confirmed, intent, cleared, ran>>
  BY DEF PassOn, Moves
<1>2. client \in [here : BOOLEAN, got : {"nothing", "frames", "answer", "error"}]
      /\ client.got # "answer"
  BY DEF GatewayInv, GatewayTypeOK, Paid
<1>3. client' \in [here : BOOLEAN, got : {"nothing", "frames", "answer", "error"}]
      /\ client'.got # "answer"
  <2>1. CASE client' = client BY <1>2, <2>1
  <2>2. CASE client' = [client EXCEPT !.got = "frames"] BY <1>2, <2>2
  <2> QED BY <2>1, <2>2 DEF PassOn
<1>4. GatewayTypeOK' BY <1>1, <1>3 DEF GatewayInv, GatewayTypeOK
<1>5. StreamsText' /\ OnlyWithdrawn' BY <1>1 DEF GatewayInv, StreamsText, OnlyWithdrawn
<1>6. Authorized' BY <1>1 DEF Authorized
<1>7. Progress' BY <1>1 DEF GatewayInv, Progress, Text, EarlyStage, AttemptStage, EndingStage
<1>8. Paid' BY <1>1, <1>3 DEF GatewayInv, Paid
<1> QED BY <1>4, <1>5, <1>6, <1>7, <1>8 DEF GatewayInv

LEMMA HoldStep ==
  ASSUME GatewayInv, HoldTerminalFrame
  PROVE  GatewayInv'
<1>1. /\ held' \in BOOLEAN
      /\ UNCHANGED <<endpoint, streams, wanted, granted, changes, stage, path, route, confirmed,
                     intent, settled, client, cleared, ran>>
  BY DEF HoldTerminalFrame
<1>2. GatewayTypeOK' BY <1>1 DEF GatewayInv, GatewayTypeOK
<1>3. StreamsText' /\ OnlyWithdrawn' BY <1>1 DEF GatewayInv, StreamsText, OnlyWithdrawn
<1>4. Authorized' BY <1>1 DEF GatewayInv, Authorized, RouteIn
<1>5. Progress' /\ Paid'
  BY <1>1 DEF GatewayInv, Progress, Paid, Counted, IntentTrue, Whole, Text, Usage, ImageUsage
<1> QED BY <1>2, <1>3, <1>4, <1>5 DEF GatewayInv

LEMMA StreamSteps ==
  ASSUME GatewayInv,
         \/ HoldTerminalFrame \/ StreamFails \/ ForwardFrame \/ ForwardPluginFrame
         \/ \E usage \in BOOLEAN : NativeStreamFinishes(usage) \/ PluginStreamFinishes(usage)
  PROVE  GatewayInv'
<1>1. CASE HoldTerminalFrame BY <1>1, HoldStep
<1>2. CASE StreamFails BY <1>2, StreamBreaksStep DEF StreamFails
<1>3. CASE ForwardFrame \/ ForwardPluginFrame
  BY <1>3, PassOnStep, StreamBreaksStep DEF ForwardFrame, ForwardPluginFrame
<1>4. CASE \E usage \in BOOLEAN : StreamFinishes(usage)
  <2>1. stage = "streaming" BY <1>4 DEF StreamFinishes
  <2>2. CASE StreamBreaks BY <2>1, <2>2, StreamBreaksStep
  <2>3. CASE Settle(Usage, "settle") /\ ran' = [ran EXCEPT !.whole = TRUE] /\ UNCHANGED confirmed
    <3>1. /\ Text /\ confirmed \in Nat
          /\ ran \in RanType
      BY <2>1 DEF GatewayInv, GatewayTypeOK, Progress
    <3>2. ran' \in RanType /\ ran'.whole
      BY <2>3, <3>1 DEF RanType
    <3>3. Usage \in Outcome /\ Usage.kind = "usage" /\ Usage = Whole
      BY <3>1 DEF Usage, Outcome, Whole
    <3> QED BY <2>1, <2>3, <3>1, <3>2, <3>3, SettleStep DEF EndingStage
  <2> QED BY <1>4, <2>2, <2>3 DEF StreamFinishes
<1> QED BY <1>1, <1>2, <1>3, <1>4 DEF NativeStreamFinishes, PluginStreamFinishes

LEMMA FinishStep ==
  ASSUME GatewayInv, NEW ok \in BOOLEAN, FinishSettlement(ok)
  PROVE  GatewayInv'
<1>1. /\ stage \in EndingStage /\ stage' = "done" /\ settled' = settled \cup {intent}
      /\ UNCHANGED <<endpoint, streams, wanted, granted, changes, path, route, confirmed, intent,
                     held, cleared, ran>>
  BY DEF FinishSettlement, EndingStage
<1>2. /\ client \in [here : BOOLEAN, got : {"nothing", "frames", "answer", "error"}]
      /\ client.got # "answer" /\ settled = {} /\ IntentTrue /\ intent \in Outcome
      /\ (stage = "settle" => intent = Whole)
  BY <1>1 DEF GatewayInv, GatewayTypeOK, Paid, Progress, EndingStage
<1>3. /\ client' \in [here : BOOLEAN, got : {"nothing", "frames", "answer", "error"}]
      /\ client'.got = "answer" => stage = "settle"
  <2>1. CASE client' = client BY <1>2, <2>1
  <2>2. CASE client' = [client EXCEPT !.got = "error"] BY <1>2, <2>2
  <2>3. CASE stage = "settle" /\ client' = [client EXCEPT !.got = "answer"] BY <1>2, <2>3
  <2> QED BY <2>1, <2>2, <2>3 DEF FinishSettlement
<1>4. settled' = {intent} BY <1>1, <1>2
<1>5. GatewayTypeOK' BY <1>1, <1>2, <1>3, <1>4 DEF GatewayInv, GatewayTypeOK
<1>6. StreamsText' /\ OnlyWithdrawn' BY <1>1 DEF GatewayInv, StreamsText, OnlyWithdrawn
<1>7. Authorized' BY <1>1 DEF Authorized
<1>8. Progress' BY <1>1 DEF Progress, EarlyStage, AttemptStage, EndingStage
<1>9. IntentTrue' /\ Whole' = Whole
  BY <1>1, <1>2 DEF IntentTrue, Whole, Text, Usage, ImageUsage
<1>10. Paid' BY <1>1, <1>2, <1>3, <1>4, <1>9 DEF Paid
<1> QED BY <1>5, <1>6, <1>7, <1>8, <1>10 DEF GatewayInv

-----------------------------------------------------------------------------

LEMMA GatewayStep ==
  ASSUME GatewayInv, [GatewayNext]_gatewayVars
  PROVE  GatewayInv'
<1>1. CASE Withdraw BY <1>1, WithdrawStep
<1>2. CASE ClientLeaves BY <1>2, ClientLeavesStep
<1>3. CASE \/ AuthorizeConsumer \/ FindImageRoute \/ AssertModelAccess \/ Plan
           \/ \E ok \in BOOLEAN : FindRoute(ok) \/ Reserve(ok)
  BY <1>3, EarlySteps
<1>4. CASE \E ok \in BOOLEAN : FetchAsset(ok) BY <1>4, FetchStep
<1>5. CASE \E ok \in BOOLEAN : FinishSettlement(ok) BY <1>5, FinishStep
<1>6. CASE Prepare \/ PrepareProviderRequest BY <1>6, PrepareSteps
<1>7. CASE CheckRoute \/ CheckSubject \/ AdmitAttempt \/ NextRunner BY <1>7, AuthorizeSteps
<1>8. CASE \/ \E why \in {"no runner", "lost"} : NoAnswer(why)
           \/ \E why \in {"rejected", "unavailable"} : ErrorStatus(why)
           \/ GarbledAnswer
  BY <1>8, NoAnswerSteps
<1>9. CASE \/ ResponsesAnswer \/ CanonicalAnswer \/ PluginAnswer \/ ImageAnswer
           \/ PluginImageAnswer \/ ImageAddress \/ StartNativeStream \/ StartPluginStream
  <2>1. TextAnswer \/ OneImage \/ ImageAddress \/ StreamStarts
    BY <1>9 DEF ResponsesAnswer, CanonicalAnswer, PluginAnswer, ImageAnswer, PluginImageAnswer,
                StartNativeStream, StartPluginStream
  <2> QED BY <2>1, AnswerSteps
<1>10. CASE \/ HoldTerminalFrame \/ StreamFails \/ ForwardFrame \/ ForwardPluginFrame
            \/ \E usage \in BOOLEAN : NativeStreamFinishes(usage) \/ PluginStreamFinishes(usage)
  BY <1>10, StreamSteps
<1>11. CASE UNCHANGED gatewayVars
  <2>1. UNCHANGED <<endpoint, streams, wanted, granted, changes, stage, path, route, confirmed,
                    intent, settled, held, client, cleared, ran>>
    BY <1>11 DEF gatewayVars
  <2>2. GatewayTypeOK' BY <2>1 DEF GatewayInv, GatewayTypeOK
  <2>3. StreamsText' /\ OnlyWithdrawn' BY <2>1 DEF GatewayInv, StreamsText, OnlyWithdrawn
  <2>4. Authorized' BY <2>1 DEF GatewayInv, Authorized, RouteIn
  <2>5. Progress' /\ Paid'
    BY <2>1 DEF GatewayInv, Progress, Paid, Counted, IntentTrue, Whole, Text, Usage, ImageUsage
  <2> QED BY <2>2, <2>3, <2>4, <2>5 DEF GatewayInv
<1> QED
  BY <1>1, <1>2, <1>3, <1>4, <1>5, <1>6, <1>7, <1>8, <1>9, <1>10, <1>11 DEF GatewayNext

\* The inductive invariant of one gateway request: where the handler stands says
\* what upstream can have done, what has been settled and what the client got,
\* through every endpoint, plugin path, stream and disconnect in lib.rs.  A 5xx
\* leaves open whether upstream executed the request (normalize_status), also where
\* lib.rs settles it as a certain failure, which errorStart records.
THEOREM GatewayInvariant == GatewaySpec => []GatewayInv
<1>1. GatewayInit => GatewayInv BY GatewayInitially
<1>2. GatewayInv /\ [GatewayNext]_gatewayVars => GatewayInv' BY GatewayStep
<1> QED BY <1>1, <1>2, PTL DEF GatewaySpec

\* However many images are asked for, and whenever the client leaves, a route
\* changes or an attempt fails: the one outcome that is settled says what upstream
\* did, and a client with its whole answer has paid for the whole answer.  A failure
\* is recorded as certain only where upstream cannot have executed the request,
\* except for the one case that the code decides otherwise: a stream whose start was
\* answered with a 5xx (errorStart).
THEOREM GatewayCharges == GatewaySpec => []ChargedAsExecuted
<1>1. GatewayInv => ChargedAsExecuted
  <2> SUFFICES ASSUME GatewayInv PROVE ChargedAsExecuted OBVIOUS
  <2>1. settled = {} \/ (settled = {intent} /\ IntentTrue)
    BY DEF GatewayInv, Paid
  <2>2. \A o \in settled :
          /\ o.kind = "usage" => ran.whole
          /\ o.kind = "images" => o.count = ran.images
          /\ o.kind = "failure" => (ran.maybe => ran.errorStart)
    BY <2>1 DEF IntentTrue
  <2>3. client.got = "answer" => settled = {IF Text THEN Usage ELSE ImageUsage(wanted)}
    BY DEF GatewayInv, Paid, Whole
  <2>4. stage = "done" /\ (ran.whole \/ ran.images > 0) =>
          \E o \in settled : settled = {o} /\ o.kind \in {"usage", "images"}
    <3> SUFFICES ASSUME stage = "done", ran.whole \/ ran.images > 0
                 PROVE  \E o \in settled : settled = {o} /\ o.kind \in {"usage", "images"}
      OBVIOUS
    <3>1. settled = {intent} /\ IntentTrue BY DEF GatewayInv, Paid
    <3> QED BY <3>1 DEF IntentTrue
  <2> QED BY <2>2, <2>3, <2>4 DEF ChargedAsExecuted
<1> QED BY <1>1, GatewayInvariant, PTL

\* Whatever is withdrawn or replaced while the handler waits, and however often:
\* a request leaves for upstream only with what was granted when its own
\* authorization (model_execution.rs) began.
THEOREM GatewayAuthorized == GatewaySpec => []DispatchAuthorized
<1>1. GatewayInv => DispatchAuthorized BY DEF GatewayInv, Authorized, DispatchAuthorized
<1> QED BY <1>1, GatewayInvariant, PTL

------------------------------------------------------------------------------
(***************************************************************************)
(* Admission of requests billed in money, for any number of slots,         *)
(* members, requests and prices.                                           *)
(*                                                                         *)
(* The request that covers all others in flight may be the first to be     *)
(* released.  What lasts is the same statement about every set of requests *)
(* in flight: of these, the one that was admitted last has seen a balance  *)
(* that covers them, and a limit above their number.                       *)
(***************************************************************************)

\* The tracker, and what each set of requests in flight is covered by.
CoveredSets ==
  \A s \in Slot, m \in Member : \A Q \in SUBSET InFlight(s, m) :
    /\ Cardinality(Q) > 1 => \E r \in Q : seen[r] >= ReferenceOf(Q)
    /\ Q # {} => \E r \in Q : allowed[r] = Unlimited \/ Cardinality(Q) <= allowed[r]

\* A request has read a limit before it decides and keeps it while in flight.
AdmissionInv == TypeOK /\ TrackerMatchesExecutions /\ CoveredSets

\* The sum of the reference prices of some requests.
LEMMA UnitsFinite ==
  ASSUME NEW R \in SUBSET Reservation
  PROVE  IsFiniteSet(UNION {Units(r) : r \in R})
<1>1. IsFiniteSet(R) BY AdmissionAssumption, FS_Subset
<1> DEFINE T == {Units(r) : r \in R}
           f == [r \in R |-> Units(r)]
<1>2. f \in Surjection(R, T) BY DEF Surjection
<1>3. IsFiniteSet(T) BY <1>1, <1>2, FS_Surjection
<1>4. ASSUME NEW r \in R PROVE IsFiniteSet(Units(r))
  <2>1. Reference[r] \in Int BY AdmissionAssumption
  <2>2. IsFiniteSet({r}) BY FS_Singleton
  <2>3. 1 \in Int OBVIOUS
  <2>4. IsFiniteSet(1..Reference[r]) BY <2>1, <2>3, FS_Interval
  <2> QED BY <2>2, <2>4, FS_Product DEF Units
<1>5. \A U \in T : IsFiniteSet(U) BY <1>4
<1> QED BY <1>3, <1>5, FS_UNION

LEMMA ReferenceOfSubset ==
  ASSUME NEW R \in SUBSET Reservation, NEW Q \in SUBSET R
  PROVE  /\ ReferenceOf(Q) \in Nat /\ ReferenceOf(R) \in Nat
         /\ ReferenceOf(Q) <= ReferenceOf(R)
<1> DEFINE U == UNION {Units(r) : r \in R}
           V == UNION {Units(r) : r \in Q}
<1>1. IsFiniteSet(U) BY UnitsFinite
<1>2. V \in SUBSET U OBVIOUS
<1>3. IsFiniteSet(V) /\ Cardinality(V) <= Cardinality(U) BY <1>1, <1>2, FS_Subset
<1>4. Cardinality(V) \in Nat /\ Cardinality(U) \in Nat BY <1>1, <1>3, FS_CardinalityType
<1> QED BY <1>3, <1>4 DEF ReferenceOf

LEMMA ReferenceOfAdd ==
  ASSUME NEW R \in SUBSET Reservation, NEW x \in Reservation, x \notin R
  PROVE  ReferenceOf(R \cup {x}) = ReferenceOf(R) + Reference[x]
<1> DEFINE U == UNION {Units(r) : r \in R}
           V == UNION {Units(r) : r \in R \cup {x}}
<1>1. Reference[x] \in Nat BY AdmissionAssumption
<1>2. IsFiniteSet({x}) /\ Cardinality({x}) = 1 BY FS_Singleton
<1>3. IsFiniteSet(1..Reference[x]) /\ Cardinality(1..Reference[x]) = Reference[x]
  BY <1>1, FS_Interval
<1>4. IsFiniteSet(Units(x)) /\ Cardinality(Units(x)) = 1 * Reference[x]
  BY <1>2, <1>3, FS_Product DEF Units
<1>5. IsFiniteSet(U) /\ Cardinality(U) \in Nat BY UnitsFinite, FS_CardinalityType
<1>6. V = U \cup Units(x) OBVIOUS
<1>7. U \cap Units(x) = {}
  <2> SUFFICES ASSUME NEW r \in R, NEW u, u \in Units(r), u \in Units(x) PROVE FALSE
    OBVIOUS
  <2>1. u[1] = r /\ u[1] = x BY DEF Units
  <2> QED BY <2>1
<1>8. Cardinality({}) = 0 BY FS_EmptySet
<1>9. Cardinality(V) = Cardinality(U) + Cardinality(Units(x)) - Cardinality({})
  BY <1>4, <1>5, <1>6, <1>7, FS_Union
<1>10. Cardinality(V) = Cardinality(U) + Reference[x] BY <1>1, <1>4, <1>5, <1>8, <1>9
<1> QED BY <1>10 DEF ReferenceOf

\* Requests that are not in flight may read, decide and forget as they like,
\* and requests in flight may end.
LEMMA CoverageKept ==
  ASSUME AdmissionInv,
         \A s \in Slot : permits'[s] \subseteq permits[s],
         \A s \in Slot : \A r \in permits'[s] : seen'[r] = seen[r] /\ allowed'[r] = allowed[r]
  PROVE  CoveredSets'
<1> SUFFICES ASSUME NEW s \in Slot, NEW m \in Member, NEW Q \in SUBSET InFlight(s, m)'
             PROVE  /\ Cardinality(Q) > 1 => \E r \in Q : seen'[r] >= ReferenceOf(Q)
                    /\ Q # {} => \E r \in Q : allowed'[r] = Unlimited \/ Cardinality(Q) <= allowed'[r]
  BY DEF CoveredSets, ReferenceOf, Units
<1>1. Q \subseteq permits'[s] /\ Q \in SUBSET InFlight(s, m) BY DEF InFlight
<1>2. /\ Cardinality(Q) > 1 => \E r \in Q : seen[r] >= ReferenceOf(Q)
      /\ Q # {} => \E r \in Q : allowed[r] = Unlimited \/ Cardinality(Q) <= allowed[r]
  BY <1>1 DEF AdmissionInv, CoveredSets
<1> QED BY <1>1, <1>2

LEMMA ReservationInit == Init => AdmissionInv
<1> SUFFICES ASSUME Init PROVE AdmissionInv OBVIOUS
<1>1. TypeOK BY AdmissionAssumption DEF Init, TypeOK
<1>2. TrackerMatchesExecutions BY DEF Init, TrackerMatchesExecutions, Holding
<1>3. CoveredSets
  <2> SUFFICES ASSUME NEW s \in Slot, NEW m \in Member, NEW Q \in SUBSET InFlight(s, m)
               PROVE  /\ Cardinality(Q) > 1 => \E r \in Q : seen[r] >= ReferenceOf(Q)
                      /\ Q # {} => \E r \in Q : allowed[r] = Unlimited \/ Cardinality(Q) <= allowed[r]
    BY DEF CoveredSets
  <2>1. Q = {} BY DEF Init, InFlight
  <2>2. Cardinality(Q) = 0 BY <2>1, FS_EmptySet
  <2> QED BY <2>1, <2>2
<1> QED BY <1>1, <1>2, <1>3 DEF AdmissionInv

\* What the values read in a round become when they are forgotten.
LEMMA ForgetKeepsTypes ==
  ASSUME TypeOK, NEW R, Forget(R)
  PROVE  /\ seen' \in [Reservation -> Int]
         /\ allowed' \in [Reservation -> Limits \cup {Unlimited}]
         /\ \A r \in Reservation \ R : seen'[r] = seen[r] /\ allowed'[r] = allowed[r]
<1>1. seen' = [r \in Reservation |-> IF r \in R THEN 0 ELSE seen[r]] BY DEF Forget
<1>2. allowed' = [r \in Reservation |-> IF r \in R THEN Unlimited ELSE allowed[r]]
  BY DEF Forget
<1>3. seen \in [Reservation -> Int] /\ allowed \in [Reservation -> Limits \cup {Unlimited}]
  BY DEF TypeOK
<1> QED BY <1>1, <1>2, <1>3

LEMMA ReadBalanceCovered ==
  ASSUME AdmissionInv, NEW r \in Reservation, ReadBalance(r)
  PROVE  AdmissionInv'
<1>1. TypeOK' BY AdmissionAssumption DEF AdmissionInv, TypeOK, ReadBalance
<1>2. TrackerMatchesExecutions'
  BY DEF AdmissionInv, TypeOK, TrackerMatchesExecutions, ReadBalance, Holding
<1>3. \A s \in Slot : r \notin permits[s]
  BY DEF AdmissionInv, TrackerMatchesExecutions, ReadBalance, Holding
<1>4. CoveredSets'
  BY <1>3, CoverageKept DEF AdmissionInv, TypeOK, ReadBalance
<1> QED BY <1>1, <1>2, <1>4 DEF AdmissionInv

LEMMA ReadLimitCovered ==
  ASSUME AdmissionInv, NEW r \in Reservation, ReadLimit(r)
  PROVE  AdmissionInv'
<1>1. TypeOK' BY AdmissionAssumption DEF AdmissionInv, TypeOK, ReadLimit
<1>2. TrackerMatchesExecutions'
  BY DEF AdmissionInv, TypeOK, TrackerMatchesExecutions, ReadLimit, Holding
<1>3. \A s \in Slot : r \notin permits[s]
  BY DEF AdmissionInv, TrackerMatchesExecutions, ReadLimit, Holding
<1>4. CoveredSets'
  BY <1>3, CoverageKept DEF AdmissionInv, TypeOK, ReadLimit
<1> QED BY <1>1, <1>2, <1>4 DEF AdmissionInv

\* The steps that leave a request outside the tracker and forget what it read.
LEMMA ForgettingCovered ==
  ASSUME AdmissionInv, NEW r \in Reservation, NEW t,
         t \in {"read", "queued"} \cup Ended,
         step[r] \notin Holding,
         step' = [step EXCEPT ![r] = t],
         Forget({r}),
         polls' \in [Reservation -> 0..MaxPolls],
         UNCHANGED <<balance, limit, permits, grants>>
  PROVE  AdmissionInv'
<1>1. /\ seen' \in [Reservation -> Int]
      /\ allowed' \in [Reservation -> Limits \cup {Unlimited}]
      /\ \A q \in Reservation \ {r} : seen'[q] = seen[q] /\ allowed'[q] = allowed[q]
  BY ForgetKeepsTypes DEF AdmissionInv
<1>2. TypeOK' BY <1>1 DEF AdmissionInv, TypeOK
<1>3. TrackerMatchesExecutions'
  BY DEF AdmissionInv, TypeOK, TrackerMatchesExecutions, Holding, Ended
<1>4. \A s \in Slot : r \notin permits[s]
  BY DEF AdmissionInv, TrackerMatchesExecutions
<1>5. \A s \in Slot : permits[s] \subseteq Reservation BY DEF AdmissionInv, TypeOK
<1>6. CoveredSets' BY <1>1, <1>4, <1>5, CoverageKept
<1> QED BY <1>2, <1>3, <1>6 DEF AdmissionInv

LEMMA PollAgainCovered ==
  ASSUME AdmissionInv, NEW r \in Reservation, PollAgain(r)
  PROVE  AdmissionInv'
<1>1. polls' \in [Reservation -> 0..MaxPolls]
  BY AdmissionAssumption DEF AdmissionInv, TypeOK, PollAgain
<1>2. /\ step[r] \notin Holding /\ step' = [step EXCEPT ![r] = "read"] /\ Forget({r})
      /\ UNCHANGED <<balance, limit, permits, grants>>
  BY DEF PollAgain, Holding
<1> QED BY <1>1, <1>2, ForgettingCovered

LEMMA QueueTimeoutCovered ==
  ASSUME AdmissionInv, NEW r \in Reservation, QueueTimeout(r)
  PROVE  AdmissionInv'
<1>1. polls' \in [Reservation -> 0..MaxPolls] BY DEF AdmissionInv, TypeOK, QueueTimeout
<1>2. /\ step[r] \notin Holding /\ step' = [step EXCEPT ![r] = "timeout"] /\ Forget({r})
      /\ UNCHANGED <<balance, limit, permits, grants>>
  BY DEF QueueTimeout, Holding
<1> QED BY <1>1, <1>2, ForgettingCovered DEF Ended

LEMMA RefuseReservationCovered ==
  ASSUME AdmissionInv, NEW r \in Reservation, RefuseReservation(r)
  PROVE  AdmissionInv'
<1>1. polls' \in [Reservation -> 0..MaxPolls] BY DEF AdmissionInv, TypeOK, RefuseReservation
<1>2. /\ step[r] \notin Holding /\ step' = [step EXCEPT ![r] = "refused"] /\ Forget({r})
      /\ UNCHANGED <<balance, limit, permits, grants>>
  BY DEF RefuseReservation, Holding
<1> QED BY <1>1, <1>2, ForgettingCovered DEF Ended

\* What decide has found out when it lets a request execute: its limit is above
\* the number of the others, and its balance covers them and itself.
LEMMA DecisionExecuting ==
  ASSUME NEW money, NEW parallel, NEW active, NEW reference,
         Decision(money, parallel, active, reference) = "executing"
  PROVE  /\ parallel = Unlimited \/ ~(Cardinality(active) >= parallel)
         /\ active = {} \/ money >= ReferenceOf(active) + reference
BY DEF Decision

\* try_acquire lets the request in: the sets it belongs to are covered by what
\* it has read itself, the others by what they were covered by before.
LEMMA AdmittedCovered ==
  ASSUME AdmissionInv, NEW r \in Reservation, step[r] = "decide",
         Decision(seen[r], allowed[r], InFlight(SlotOf[r], MemberOf[r]), Reference[r])
           = "executing",
         permits' = [permits EXCEPT ![SlotOf[r]] = @ \cup {r}],
         UNCHANGED <<seen, allowed>>
  PROVE  CoveredSets'
<1> DEFINE A == InFlight(SlotOf[r], MemberOf[r])
<1>1. SlotOf[r] \in Slot /\ MemberOf[r] \in Member /\ Reference[r] \in Nat
  BY AdmissionAssumption
<1>2. \A s \in Slot : permits[s] \subseteq Reservation /\ r \notin permits[s]
  BY DEF AdmissionInv, TypeOK, TrackerMatchesExecutions, Holding
<1>3. A \in SUBSET Reservation /\ r \notin A BY <1>1, <1>2 DEF InFlight
<1>4. IsFiniteSet(A) /\ Cardinality(A) \in Nat
  BY <1>3, AdmissionAssumption, FS_Subset, FS_CardinalityType
<1>5. seen[r] \in Int /\ allowed[r] \in Limits \cup {Unlimited} BY DEF AdmissionInv, TypeOK
<1>6. allowed[r] = Unlimited \/ (allowed[r] \in Nat /\ Cardinality(A) < allowed[r])
  <2>1. allowed[r] = Unlimited \/ ~(Cardinality(A) >= allowed[r]) BY DecisionExecuting
  <2>2. allowed[r] = Unlimited \/ allowed[r] \in Nat BY <1>5, AdmissionAssumption
  <2> HIDE DEF A
  <2> QED BY <1>4, <2>1, <2>2
<1>7. A = {} \/ seen[r] >= ReferenceOf(A) + Reference[r] BY DecisionExecuting
<1> HIDE DEF A
<1> SUFFICES ASSUME NEW s \in Slot, NEW m \in Member, NEW Q \in SUBSET InFlight(s, m)'
             PROVE  /\ Cardinality(Q) > 1 => \E q \in Q : seen[q] >= ReferenceOf(Q)
                    /\ Q # {} => \E q \in Q : allowed[q] = Unlimited \/ Cardinality(Q) <= allowed[q]
  BY DEF CoveredSets, ReferenceOf, Units
<1>8. CASE r \notin Q
  <2>1. Q \in SUBSET InFlight(s, m)
    BY <1>1, <1>8 DEF InFlight, AdmissionInv, TypeOK
  <2> QED BY <2>1 DEF AdmissionInv, CoveredSets
<1>9. CASE r \in Q
  <2> DEFINE P == Q \ {r}
  <2>1. s = SlotOf[r] /\ m = MemberOf[r]
    BY <1>1, <1>2, <1>9 DEF InFlight, AdmissionInv, TypeOK
  <2>2. P \in SUBSET A /\ Q = P \cup {r} /\ r \notin P
    BY <1>1, <1>9, <2>1 DEF InFlight, AdmissionInv, TypeOK, A
  <2> HIDE DEF P
  <2>3. IsFiniteSet(P) /\ Cardinality(P) \in Nat /\ Cardinality(P) <= Cardinality(A)
    BY <1>4, <2>2, FS_Subset, FS_CardinalityType
  <2>4. Cardinality(Q) = Cardinality(P) + 1 BY <2>2, <2>3, FS_AddElement
  <2>5. allowed[r] = Unlimited \/ Cardinality(Q) <= allowed[r] BY <1>4, <1>6, <2>3, <2>4
  <2>6. ASSUME Cardinality(Q) > 1 PROVE seen[r] >= ReferenceOf(Q)
    <3>1. P # {} BY <2>3, <2>4, <2>6, FS_EmptySet
    <3>2. seen[r] >= ReferenceOf(A) + Reference[r] BY <1>7, <2>2, <3>1
    <3>3. ReferenceOf(Q) = ReferenceOf(P) + Reference[r]
      BY <1>3, <2>2, ReferenceOfAdd
    <3>4. ReferenceOf(P) \in Nat /\ ReferenceOf(A) \in Nat /\ ReferenceOf(P) <= ReferenceOf(A)
      BY <1>3, <2>2, ReferenceOfSubset
    <3> QED BY <1>1, <1>5, <3>2, <3>3, <3>4
  <2> QED BY <1>9, <2>5, <2>6
<1> QED BY <1>8, <1>9

LEMMA TryAcquireCovered ==
  ASSUME AdmissionInv, NEW r \in Reservation, TryAcquire(r)
  PROVE  AdmissionInv'
<1> DEFINE d == Decision(seen[r], allowed[r], InFlight(SlotOf[r], MemberOf[r]), Reference[r])
<1>1. /\ step[r] = "decide" /\ step' = [step EXCEPT ![r] = d]
      /\ permits' = IF d = "executing" THEN [permits EXCEPT ![SlotOf[r]] = @ \cup {r}] ELSE permits
      /\ IF d = "executing" THEN UNCHANGED <<seen, allowed>> ELSE Forget({r})
      /\ UNCHANGED <<balance, limit, polls, grants>>
  BY DEF TryAcquire
<1>2. d \in {"insufficient", "queued", "executing"} BY DEF Decision
<1>3. SlotOf[r] \in Slot BY AdmissionAssumption
<1>4. CASE d = "executing"
  <2>1. CoveredSets' BY <1>1, <1>4, AdmittedCovered
  <2> HIDE DEF d
  <2>2. TypeOK' BY <1>1, <1>3, <1>4 DEF AdmissionInv, TypeOK, Holding
  <2>3. TrackerMatchesExecutions'
    <3> SUFFICES ASSUME NEW s \in Slot
                 PROVE  permits'[s] = {q \in Reservation : SlotOf[q] = s /\ step'[q] \in Holding}
      BY DEF TrackerMatchesExecutions
    <3>1. permits[s] = {q \in Reservation : SlotOf[q] = s /\ step[q] \in Holding}
      BY DEF AdmissionInv, TrackerMatchesExecutions
    <3>2. permits'[s] = IF s = SlotOf[r] THEN permits[s] \cup {r} ELSE permits[s]
      BY <1>1, <1>3, <1>4 DEF AdmissionInv, TypeOK
    <3>3. \A q \in Reservation : step'[q] = IF q = r THEN "executing" ELSE step[q]
      BY <1>1, <1>4 DEF AdmissionInv, TypeOK
    <3> QED BY <1>1, <3>1, <3>2, <3>3 DEF Holding
  <2> QED BY <2>1, <2>2, <2>3 DEF AdmissionInv
<1>5. CASE d # "executing"
  <2> HIDE DEF d
  <2>1. polls' \in [Reservation -> 0..MaxPolls] BY <1>1 DEF AdmissionInv, TypeOK
  <2>2. step[r] \notin Holding /\ Forget({r}) /\ UNCHANGED <<balance, limit, permits, grants>>
    BY <1>1, <1>5 DEF Holding
  <2>3. d \in {"read", "queued"} \cup Ended BY <1>2, <1>5 DEF Ended
  <2> QED BY <1>1, <2>1, <2>2, <2>3, ForgettingCovered
<1> QED BY <1>4, <1>5

LEMMA ChargeCovered ==
  ASSUME AdmissionInv, NEW r \in Reservation, NEW cost \in 0..MaxCost[r], Charge(r, cost)
  PROVE  AdmissionInv'
<1>1. cost \in Int /\ MemberOf[r] \in Member BY AdmissionAssumption
<1>2. TypeOK'
  BY <1>1 DEF AdmissionInv, TypeOK, Charge, Holding, Ended
<1>3. TrackerMatchesExecutions'
  BY DEF AdmissionInv, TypeOK, TrackerMatchesExecutions, Charge, Holding
<1>4. CoveredSets' BY CoverageKept DEF Charge
<1> QED BY <1>2, <1>3, <1>4 DEF AdmissionInv

LEMMA ReleaseCovered ==
  ASSUME AdmissionInv, NEW r \in Reservation, Release(r)
  PROVE  AdmissionInv'
<1>1. /\ seen' \in [Reservation -> Int]
      /\ allowed' \in [Reservation -> Limits \cup {Unlimited}]
      /\ \A q \in Reservation \ {r} : seen'[q] = seen[q] /\ allowed'[q] = allowed[q]
  BY ForgetKeepsTypes DEF AdmissionInv, Release
<1>2. SlotOf[r] \in Slot BY AdmissionAssumption
<1>3. TypeOK' BY <1>1, <1>2 DEF AdmissionInv, TypeOK, Release, Ended
<1>4. \A s \in Slot : permits'[s] = permits[s] \ {r}
  BY <1>2 DEF AdmissionInv, TypeOK, TrackerMatchesExecutions, Release
<1>5. TrackerMatchesExecutions'
  <2>1. \A q \in Reservation : step'[q] = IF q = r THEN "released" ELSE step[q]
    BY DEF AdmissionInv, TypeOK, Release
  <2> QED BY <1>4, <2>1 DEF AdmissionInv, TrackerMatchesExecutions, Holding
<1>6. \A s \in Slot : permits[s] \subseteq Reservation BY DEF AdmissionInv, TypeOK
<1>7. CoveredSets' BY <1>1, <1>4, <1>6, CoverageKept
<1> QED BY <1>3, <1>5, <1>7 DEF AdmissionInv

LEMMA GrantCovered ==
  ASSUME AdmissionInv, NEW m \in Member, Grant(m)
  PROVE  AdmissionInv'
<1>1. TypeOK' BY AdmissionAssumption DEF AdmissionInv, TypeOK, Grant
<1>2. TrackerMatchesExecutions' BY DEF AdmissionInv, TrackerMatchesExecutions, Grant
<1>3. CoveredSets' BY CoverageKept DEF Grant
<1> QED BY <1>1, <1>2, <1>3 DEF AdmissionInv

LEMMA SetLimitCovered ==
  ASSUME AdmissionInv, NEW m \in Member, NEW n \in Limits, SetLimit(m, n)
  PROVE  AdmissionInv'
<1>1. TypeOK' BY DEF AdmissionInv, TypeOK, SetLimit
<1>2. TrackerMatchesExecutions' BY DEF AdmissionInv, TrackerMatchesExecutions, SetLimit
<1>3. CoveredSets' BY CoverageKept DEF SetLimit
<1> QED BY <1>1, <1>2, <1>3 DEF AdmissionInv

LEMMA CrashCovered ==
  ASSUME AdmissionInv, NEW s \in Slot, Crash(s)
  PROVE  AdmissionInv'
<1> DEFINE mine == {r \in Reservation : SlotOf[r] = s /\ step[r] \notin Ended \cup {"orphan"}}
<1>1. /\ permits' = [permits EXCEPT ![s] = {}]
      /\ step' \in [Reservation -> {"lost", "orphan"} \cup {step[r] : r \in Reservation}]
      /\ \A r \in Reservation :
           IF r \notin mine THEN step'[r] = step[r]
           ELSE step'[r] = "lost" \/ (step'[r] = "orphan" /\ step[r] = "executing")
      /\ Forget(mine)
      /\ UNCHANGED <<balance, limit, polls, grants>>
  BY DEF Crash
<1>2. \A r \in mine : SlotOf[r] = s OBVIOUS
<1>3. \A r \in Reservation : SlotOf[r] = s /\ step[r] \in Holding => r \in mine
  BY DEF Holding, Ended
<1> HIDE DEF mine
<1>4. /\ seen' \in [Reservation -> Int]
      /\ allowed' \in [Reservation -> Limits \cup {Unlimited}]
      /\ \A q \in Reservation \ mine : seen'[q] = seen[q] /\ allowed'[q] = allowed[q]
  BY <1>1, ForgetKeepsTypes DEF AdmissionInv
<1>5. \A t \in Slot : permits'[t] = IF t = s THEN {} ELSE permits[t]
  BY <1>1 DEF AdmissionInv, TypeOK
<1>6. TypeOK' BY <1>1, <1>4 DEF AdmissionInv, TypeOK, Ended
<1>7. TrackerMatchesExecutions'
  <2> SUFFICES ASSUME NEW t \in Slot
               PROVE  permits'[t] = {q \in Reservation : SlotOf[q] = t /\ step'[q] \in Holding}
    BY DEF TrackerMatchesExecutions
  <2>1. permits[t] = {q \in Reservation : SlotOf[q] = t /\ step[q] \in Holding}
    BY DEF AdmissionInv, TrackerMatchesExecutions
  <2>2. CASE t = s
    <3>1. \A q \in Reservation : SlotOf[q] = t => step'[q] \notin Holding
      BY <1>1, <1>3, <2>2 DEF Holding
    <3> QED BY <1>5, <2>2, <3>1
  <2>3. CASE t # s
    <3>1. \A q \in Reservation : SlotOf[q] = t => step'[q] = step[q]
      BY <1>1, <1>2, <2>3
    <3> QED BY <1>5, <2>1, <2>3, <3>1
  <2> QED BY <2>2, <2>3
<1>8. \A t \in Slot : \A q \in permits'[t] : q \in Reservation \ mine
  BY <1>2, <1>5 DEF AdmissionInv, TrackerMatchesExecutions
<1>9. CoveredSets' BY <1>4, <1>5, <1>8, CoverageKept
<1> QED BY <1>6, <1>7, <1>9 DEF AdmissionInv

LEMMA ReservationStutter ==
  ASSUME AdmissionInv, UNCHANGED vars
  PROVE  AdmissionInv'
BY DEF AdmissionInv, TypeOK, TrackerMatchesExecutions, CoveredSets, InFlight, ReferenceOf, Units, vars

LEMMA AdmissionStep == AdmissionInv /\ [Next]_vars => AdmissionInv'
<1> SUFFICES ASSUME AdmissionInv, [Next]_vars PROVE AdmissionInv' OBVIOUS
<1>1. CASE \E r \in Reservation : ReserveModelMoney(r)
  BY <1>1, ReadBalanceCovered, ReadLimitCovered, TryAcquireCovered, PollAgainCovered,
     QueueTimeoutCovered DEF ReserveModelMoney
<1>2. CASE \E r \in Reservation : RefuseReservation(r) BY <1>2, RefuseReservationCovered
<1>3. CASE \E r \in Reservation : \E cost \in 0..MaxCost[r] : Charge(r, cost)
  BY <1>3, ChargeCovered
<1>4. CASE \E r \in Reservation : Release(r) BY <1>4, ReleaseCovered
<1>5. CASE \E m \in Member : Grant(m) BY <1>5, GrantCovered
<1>6. CASE \E m \in Member : \E n \in Limits : SetLimit(m, n) BY <1>6, SetLimitCovered
<1>7. CASE \E s \in Slot : Crash(s) BY <1>7, CrashCovered
<1>8. CASE UNCHANGED vars BY <1>8, ReservationStutter
<1> QED BY <1>1, <1>2, <1>3, <1>4, <1>5, <1>6, <1>7, <1>8 DEF Next

LEMMA ReservationsCovered == Spec => []AdmissionInv
<1>1. Init => AdmissionInv BY ReservationInit
<1>2. AdmissionInv /\ [Next]_vars => AdmissionInv' BY AdmissionStep
<1> QED BY <1>1, <1>2, PTL DEF Spec

\* When a member has several requests in flight in a slot, a balance that one of
\* them read covers their reference prices together, and the limit one of them
\* read is not below their number: for any number of slots, members, requests,
\* grants and changes of the limit, in any order of the two queries, the
\* decision and the releases (AdmissionSnapshot::decide and
\* MemoryInFlightTracker::try_acquire).
THEOREM ExposureStaysCovered == Spec => []ExposureCovered
<1>1. AdmissionInv => ExposureCovered
  <2> SUFFICES ASSUME AdmissionInv, NEW s \in Slot, NEW m \in Member
               PROVE  /\ Cardinality(InFlight(s, m)) > 1
                           => \E r \in InFlight(s, m) : seen[r] >= ReferenceOf(InFlight(s, m))
                      /\ InFlight(s, m) # {}
                           => \E r \in InFlight(s, m) : allowed[r] = Unlimited
                                \/ Cardinality(InFlight(s, m)) <= allowed[r]
    BY DEF ExposureCovered
  <2> QED BY DEF AdmissionInv, CoveredSets
<1> QED BY <1>1, ReservationsCovered, PTL

\* The tracker of a slot counts exactly the executions that are not charged, or
\* were charged and not yet released: no path leaks a permit or drops it before
\* the charge (InFlightPermit's Drop runs after the settlement).
THEOREM PermitsMatchExecutions == Spec => []TrackerMatchesExecutions
<1>1. AdmissionInv => TrackerMatchesExecutions BY DEF AdmissionInv
<1> QED BY <1>1, ReservationsCovered, PTL
=============================================================================
