--------------------------- MODULE RunnerDispatch ---------------------------
(***************************************************************************)
(* A model request executed by a remote runner.  A handler of the control  *)
(* backend picks an online runner, reserves a place in the queue of its    *)
(* connection, signs a ticket and enqueues one task; the runner accepts it, *)
(* announces the upstream call, makes it and streams the answer back.      *)
(* Connections break at any point and are replaced by newer generations;   *)
(* the handler may retry once, on another task, when it is certain that no *)
(* upstream call was made.                                                  *)
(*                                                                         *)
(* Session g is one authenticated WebSocket: `down' is the channel towards *)
(* the runner (queue of the hub and wire), `up' the channel back.          *)
(***************************************************************************)
EXTENDS Naturals, Sequences, FiniteSets

CONSTANTS
  RemoteRunner,  \* enrolled runners
  Request,       \* model requests
  Streaming,     \* the requests whose client may have asked for a stream
  Removable,     \* bound: runners an administrator disables
  MaxSessions,   \* bound: sessions registered in one behaviour
  MaxInflight,   \* max_inflight of a runner
  EventCap,      \* capacity of a task's event channel (1024 in the code)
  MaxChunks,     \* bound: chunks of one answer
  NoRemote

ASSUME DispatchAssumption ==
  /\ Streaming \subseteq Request /\ Removable \subseteq RemoteRunner
  /\ NoRemote \notin RemoteRunner
  /\ MaxSessions \in Nat /\ MaxChunks \in Nat
  /\ MaxInflight \in Nat \ {0} /\ EventCap \in Nat \ {0}

Gen == 1..MaxSessions
Attempt == 1..2
Task == Request \X Attempt

(***************************************************************************)
(* Frames.  Of an HTTP status only its class matters: 2xx or an error.     *)
(***************************************************************************)
Status == {"ok", "error"}
TaskFrame(t) == [kind |-> "task", task |-> t]
CancelFrame(t) == [kind |-> "cancel", task |-> t]
Accepted(t) == [kind |-> "accepted", task |-> t]
UpstreamStarted(t) == [kind |-> "started", task |-> t]
ResponseStarted(t, s) == [kind |-> "response", task |-> t, status |-> s]
Chunk(t, n) == [kind |-> "chunk", task |-> t, sequence |-> n]
Finished(t) == [kind |-> "finished", task |-> t]
Failed(t, retryable) ==
  [kind |-> "failed", task |-> t, retryable |-> retryable]

TerminalKinds == {"finished", "failed"}

VARIABLES
  connections,   \* RunnerHub.connections: the current generation, 0 if none
  owner,         \* the runner a generation belongs to
  controlEnd,    \* the session loop of the control backend
  runnerEnd,     \* the session of the runner process
  down, up,      \* frames towards the runner, frames back
  subs,          \* RunnerHub.tasks: the generation a task was dispatched on
  events,        \* the event channel of a task
  terminal,      \* RunnerTaskSubscription.terminal
  enabled,       \* runners enabled in storage
  disabling,     \* disabled in storage, connection not yet removed
  req,           \* the handler of a request
  work,          \* the worker of a task at its runner
  calls          \* upstream calls made for a request (history)

hubVars == <<connections, owner, controlEnd, runnerEnd, down, up, subs,
             events, terminal>>
adminVars == <<enabled, disabling>>
dispatchVars == <<hubVars, adminVars, req, work, calls>>

NewAttempt == [phase |-> "choosing", attempt |-> 1, runner |-> NoRemote, gen |-> 0,
               excluded |-> {}, accepted |-> FALSE, started |-> FALSE,
               status |-> "ok", chunks |-> 0, result |-> "none"]

NoWork == [phase |-> "none", gen |-> 0, cancelled |-> FALSE,
           chunks |-> 0]

DispatchInit ==
  /\ connections = [r \in RemoteRunner |-> 0]
  /\ owner = [g \in Gen |-> NoRemote]
  /\ controlEnd = [g \in Gen |-> "none"]
  /\ runnerEnd = [g \in Gen |-> "none"]
  /\ down = [g \in Gen |-> <<>>]
  /\ up = [g \in Gen |-> <<>>]
  /\ subs = [t \in Task |-> 0]
  /\ events = [t \in Task |-> <<>>]
  /\ terminal = [t \in Task |-> FALSE]
  /\ enabled = RemoteRunner
  /\ disabling = {}
  /\ req = [q \in Request |-> NewAttempt]
  /\ work = [t \in Task |-> NoWork]
  /\ calls = [q \in Request |-> 0]

LivePhases == {"queued", "accepted", "started", "called", "answering"}
Live(t) == work[t].phase \in LivePhases
ListeningPhases == {"waiting", "streaming", "errorBody"}

(* The handler still holds the receiver of the task's event channel. *)
Listening(t) == /\ req[t[1]].attempt = t[2]
                /\ req[t[1]].phase \in ListeningPhases
CurrentSession(g) == connections[owner[g]] = g
TaskOf(q) == <<q, req[q].attempt>>

-----------------------------------------------------------------------------
(***************************************************************************)
(* Sessions.                                                                *)
(***************************************************************************)
(* run_session connects and register_runner_connection records it: the new
   generation replaces whatever connection the runner had.  One runner
   process has one session at a time. *)
Connect(r) ==
  \E g \in Gen :
    /\ owner[g] = NoRemote
    /\ \A h \in Gen : h < g => owner[h] # NoRemote
    /\ \A h \in Gen : owner[h] = r => runnerEnd[h] # "open"
    /\ r \in enabled
    /\ owner' = [owner EXCEPT ![g] = r]
    /\ connections' = [connections EXCEPT ![r] = g]
    /\ controlEnd' = [controlEnd EXCEPT ![g] = "open"]
    /\ runnerEnd' = [runnerEnd EXCEPT ![g] = "open"]
    /\ UNCHANGED <<down, up, subs, events, terminal, adminVars, req, work,
                   calls>>

(* The runner's end of the session goes: the supervisor aborts every worker
   of the session, frames still queued in the process are lost, those on the
   wire may still be read by the control backend. *)
RunnerDrops(g) ==
  /\ runnerEnd[g] = "open"
  /\ runnerEnd' = [runnerEnd EXCEPT ![g] = "closed"]
  /\ down' = [down EXCEPT ![g] = <<>>]
  /\ \E n \in 0..Len(up[g]) : up' = [up EXCEPT ![g] = SubSeq(@, 1, n)]
  /\ work' = [t \in Task |-> IF work[t].gen = g /\ Live(t)
                             THEN [work[t] EXCEPT !.phase = "aborted"]
                             ELSE work[t]]
  /\ UNCHANGED <<connections, owner, controlEnd, subs, events, terminal,
                 adminVars, req, calls>>

(* The session loop of the control backend breaks: socket closed or in
   error, an invalid frame, a heartbeat refused, or the connection is no
   longer the current one. *)
ControlBreaks(g) ==
  /\ controlEnd[g] = "open"
  /\ controlEnd' = [controlEnd EXCEPT ![g] = "leaving"]
  /\ up' = [up EXCEPT ![g] = <<>>]
  /\ UNCHANGED <<connections, owner, runnerEnd, down, subs, events, terminal,
                 adminVars, req, work, calls>>

\* Mistake: a session that was replaced leaves its subscriptions behind.
Unregister_IfCurrent(g) ==
  /\ controlEnd[g] = "leaving"
  /\ controlEnd' = [controlEnd EXCEPT ![g] = "closed"]
  /\ connections' = IF CurrentSession(g)
                    THEN [connections EXCEPT ![owner[g]] = 0] ELSE connections
  /\ subs' = [t \in Task |-> IF subs[t] = g /\ CurrentSession(g)
                             THEN 0 ELSE subs[t]]
  /\ UNCHANGED <<owner, runnerEnd, down, up, events, terminal, adminVars,
                 req, work, calls>>

(* unregister: the connection goes if it is still this one, and then the
   subscriptions of this generation, which closes the event channels of
   their handlers.  Nothing is dispatched on the session in between. *)
Unregister(g) ==
  /\ controlEnd[g] = "leaving"
  /\ controlEnd' = [controlEnd EXCEPT ![g] = "closed"]
  /\ connections' = IF CurrentSession(g)
                    THEN [connections EXCEPT ![owner[g]] = 0] ELSE connections
  /\ subs' = [t \in Task |-> IF subs[t] = g THEN 0 ELSE subs[t]]
  /\ UNCHANGED <<owner, runnerEnd, down, up, events, terminal, adminVars,
                 req, work, calls>>

(* An administrator disables a runner, which commits before the connection
   is removed from the hub. *)
Disable(r) ==
  /\ r \in enabled \cap Removable
  /\ enabled' = enabled \ {r}
  /\ disabling' = disabling \cup {r}
  /\ UNCHANGED <<hubVars, req, work, calls>>

Disconnect(r) ==
  /\ r \in disabling
  /\ disabling' = disabling \ {r}
  /\ connections' = [connections EXCEPT ![r] = 0]
  /\ UNCHANGED <<owner, controlEnd, runnerEnd, down, up, subs, events,
                 terminal, enabled, req, work, calls>>

\* Mistake: a frame that does not fit is dropped and the subscription stays.
PublishFrom_DropFrame(g) ==
  LET frame == Head(up[g])
      t == frame.task
      mine == CurrentSession(g) /\ subs[t] = g
      full == ~Listening(t) \/ Len(events[t]) = EventCap
      last == frame.kind \in TerminalKinds
  IN /\ controlEnd[g] = "open" /\ up[g] # <<>>
     /\ up' = [up EXCEPT ![g] = Tail(@)]
     /\ terminal' = [terminal EXCEPT ![t] = @ \/ (mine /\ last)]
     /\ events' = IF mine /\ ~full
                  THEN [events EXCEPT ![t] = Append(@, frame)] ELSE events
     /\ subs' = IF mine /\ last THEN [subs EXCEPT ![t] = 0] ELSE subs
     /\ UNCHANGED <<connections, owner, controlEnd, runnerEnd, down,
                    adminVars, req, work, calls>>

(* publish_from: a frame reaches a handler only over the current connection
   and only for a task dispatched on it; a full event channel drops the
   subscription rather than the frame alone. *)
PublishFrom(g) ==
  LET frame == Head(up[g])
      t == frame.task
      mine == CurrentSession(g) /\ subs[t] = g
      full == ~Listening(t) \/ Len(events[t]) = EventCap
      last == frame.kind \in TerminalKinds
  IN /\ controlEnd[g] = "open" /\ up[g] # <<>>
     /\ up' = [up EXCEPT ![g] = Tail(@)]
     /\ terminal' = [terminal EXCEPT ![t] = @ \/ (mine /\ last)]
     /\ events' = IF mine /\ ~full
                  THEN [events EXCEPT ![t] = Append(@, frame)] ELSE events
     /\ subs' = IF mine /\ (last \/ full)
                THEN [subs EXCEPT ![t] = 0] ELSE subs
     /\ UNCHANGED <<connections, owner, controlEnd, runnerEnd, down,
                    adminVars, req, work, calls>>

-----------------------------------------------------------------------------
(***************************************************************************)
(* The handler of a request: start_runner_http_request and what consumes   *)
(* its events.                                                              *)
(***************************************************************************)
handlerOnly == <<connections, owner, controlEnd, runnerEnd, up, events,
                 terminal, adminVars, work, calls>>
(* The event channel of a task after the handler took its first frame: gone
   with the receiver when the handler stops listening. *)
EventsLeft(q) ==
  LET t == TaskOf(q)
  IN events' = [events EXCEPT ![t] =
       IF @ # <<>> /\ req'[q].attempt = t[2]
            /\ req'[q].phase \in ListeningPhases
       THEN Tail(@) ELSE <<>>]

End(q, result) ==
  req' = [req EXCEPT ![q] = [@ EXCEPT !.phase = "done", !.result = result]]

(* An attempt that certainly enqueued nothing, or whose task certainly made
   no upstream call: the first one is retried without the excluded runner,
   the second one fails the request as not started upstream. *)
Again(q, excluded) ==
  IF req[q].attempt = 1
  THEN req' = [req EXCEPT ![q] = [NewAttempt EXCEPT
                 !.attempt = 2, !.excluded = req[q].excluded \cup excluded]]
  ELSE End(q, "before")

(* Into the queue of a session; the loop that empties it may have ended, and
   then the frame never leaves. *)
Enqueue(g, frame) ==
  down' = IF controlEnd[g] = "open" /\ runnerEnd[g] = "open"
          THEN [down EXCEPT ![g] = Append(@, frame)] ELSE down

(* RunnerCancellation::drop, best effort: nothing is sent once the terminal
   frame was seen, the hub dropped the connection, or its queue is full. *)
DropHandle(q) ==
  LET t == TaskOf(q)
      g == req[q].gen
  IN \/ UNCHANGED down
     \/ ~terminal[t] /\ CurrentSession(g) /\ Enqueue(g, CancelFrame(t))

(* Authorization of the attempt, before the runner is chosen and again after
   the queue place was reserved, may refuse the request: nothing was sent. *)
AuthorizationRefused(q) ==
  /\ req[q].phase \in {"choosing", "reserved"}
  /\ End(q, "before")
  /\ UNCHANGED <<handlerOnly, down, subs>>

(* The candidates of select_runner: enabled, online and not excluded.  Which
   of them has the affinity or the lowest load is left open. *)
ReadyRunners(q) == {r \in enabled : connections[r] # 0} \ req[q].excluded

(* A candidate is chosen, and reserve_dispatch finds its connection. *)
SelectRunner(q) ==
  /\ req[q].phase = "choosing"
  /\ \/ ReadyRunners(q) = {} /\ Again(q, {})
     \/ \E r \in ReadyRunners(q) :
          req' = [req EXCEPT ![q] = [@ EXCEPT !.phase = "reserving", !.runner = r,
                                              !.gen = connections[r]]]
  /\ UNCHANGED <<handlerOnly, down, subs>>

Reconnected(r, g) ==
  connections[r] \notin {0, g} /\ controlEnd[connections[r]] # "closed"

(* reserve_dispatch waits for a place in the queue of the connection, and
   ends without one when the channel closes or the wait times out. *)
QueuePlace(q) ==
  LET r == req[q].runner
      g == req[q].gen
  IN /\ req[q].phase = "reserving"
     /\ \/ /\ controlEnd[g] # "closed"
           /\ req' = [req EXCEPT ![q].phase = "reserved"]
        \/ Again(q, IF Reconnected(r, g) THEN {} ELSE {r})
     /\ UNCHANGED <<handlerOnly, down, subs>>

(* With a place in the queue the runner is looked up once more: it must still
   be enabled, and the connection the one reserved. *)
Stays(q) == req[q].runner \in enabled /\ CurrentSession(req[q].gen)

(* dispatch_reserved, under the lock of the connections: the subscription is
   inserted before the task is enqueued. *)
DispatchReserved(q) ==
  LET r == req[q].runner
      g == req[q].gen
      t == TaskOf(q)
  IN /\ req[q].phase = "reserved"
     /\ \/ /\ Stays(q)
           /\ subs' = [subs EXCEPT ![t] = g]
           /\ Enqueue(g, TaskFrame(t))
           /\ req' = [req EXCEPT ![q].phase = "waiting"]
        \/ /\ ~Stays(q)
           /\ Again(q, IF r \in enabled /\ Reconnected(r, g)
                       THEN {} ELSE {r})
           /\ UNCHANGED <<subs, down>>
     /\ UNCHANGED handlerOnly

(* How an error after the dispatch is recorded: a failure whose upstream
   outcome is unknown. *)
Abort(q) == End(q, "unknown") /\ DropHandle(q)

(* The answer is complete.  A status outside 2xx of a buffered request is
   recorded as an error of the provider. *)
Complete(q) == End(q, req[q].status)

(* How the answer is read.  Whether the client asked for a stream matters
   from here on only, and only for an answer that is an error. *)
AnswerPhase(q, status) ==
  {"streaming"} \cup IF q \in Streaming /\ status = "error" THEN {"errorBody"} ELSE {}

(* Until the response starts: accepted, upstream started, response started,
   in this order, or a failure. *)
AwaitStart(q, frame) ==
  CASE frame.kind = "accepted" /\ ~req[q].accepted ->
         req' = [req EXCEPT ![q].accepted = TRUE] /\ UNCHANGED down
    [] frame.kind = "started" /\ req[q].accepted /\ ~req[q].started ->
         req' = [req EXCEPT ![q].started = TRUE] /\ UNCHANGED down
    [] frame.kind = "response" /\ req[q].started ->
         /\ \E phase \in AnswerPhase(q, frame.status) :
              req' = [req EXCEPT ![q] = [@ EXCEPT !.phase = phase, !.status = frame.status]]
         /\ UNCHANGED down
    [] frame.kind = "failed" /\ frame.retryable /\ ~req[q].started ->
         Again(q, {req[q].runner}) /\ UNCHANGED down
    [] OTHER -> Abort(q)

(* A streamed answer whose status is not 2xx is read for its error text until
   anything but the next chunk arrives, and ends the request with the error
   of a request that never reached the provider. *)
CollectErrorBody(q, frame) ==
  IF frame.kind = "chunk" /\ frame.sequence = req[q].chunks
  THEN req' = [req EXCEPT ![q].chunks = @ + 1] /\ UNCHANGED down
  ELSE End(q, "before") /\ DropHandle(q)

AwaitAnswer(q, frame) ==
  CASE frame.kind = "chunk" /\ frame.sequence = req[q].chunks ->
         req' = [req EXCEPT ![q].chunks = @ + 1] /\ UNCHANGED down
    [] frame.kind = "finished" -> Complete(q) /\ UNCHANGED down
    [] OTHER -> Abort(q)

Receive(q) ==
  LET t == TaskOf(q)
      frame == Head(events[t])
  IN /\ req[q].phase \in ListeningPhases
     /\ events[t] # <<>>
     /\ CASE req[q].phase = "waiting" -> AwaitStart(q, frame)
          [] req[q].phase = "errorBody" -> CollectErrorBody(q, frame)
          [] OTHER -> AwaitAnswer(q, frame)
     /\ EventsLeft(q)
     /\ UNCHANGED <<connections, owner, controlEnd, runnerEnd, up, subs,
                    terminal, adminVars, work, calls>>

(* The event channel is closed and drained, or the execution time is up: the
   runner may have called upstream, the last frame may be lost. *)
StreamEnds(q) ==
  /\ req[q].phase \in ListeningPhases
  /\ IF req[q].phase = "errorBody"
     THEN End(q, "before") /\ DropHandle(q)
     ELSE Abort(q)
  /\ EventsLeft(q)
  /\ UNCHANGED <<connections, owner, controlEnd, runnerEnd, up, subs,
                 terminal, adminVars, work, calls>>

-----------------------------------------------------------------------------
(***************************************************************************)
(* The runner: accept_task, the task supervisor and execute_task.          *)
(***************************************************************************)
runnerOnly == <<connections, owner, controlEnd, runnerEnd, subs, events,
                terminal, adminVars, req>>

Say(g, frame) == up' = [up EXCEPT ![g] = Append(@, frame)]

Inflight(g) == {t \in Task : work[t].gen = g /\ Live(t)}

(* accept_task: a ticket that has expired and a runner without a free permit
   are reported as failures before the upstream call; otherwise a worker is
   started. *)
AcceptTask(g) ==
  LET t == Head(down[g]).task
  IN /\ runnerEnd[g] = "open" /\ down[g] # <<>>
     /\ Head(down[g]).kind = "task"
     /\ down' = [down EXCEPT ![g] = Tail(@)]
     /\ \/ Say(g, Failed(t, TRUE)) /\ UNCHANGED work
        \/ /\ Cardinality(Inflight(g)) < MaxInflight
           /\ work' = [work EXCEPT ![t] = [@ EXCEPT !.phase = "queued", !.gen = g]]
           /\ UNCHANGED up
     /\ UNCHANGED <<runnerOnly, calls>>

(* TaskSupervisor::cancel signals a worker that still runs. *)
CancelTask(g) ==
  LET t == Head(down[g]).task
  IN /\ runnerEnd[g] = "open" /\ down[g] # <<>>
     /\ Head(down[g]).kind = "cancel"
     /\ down' = [down EXCEPT ![g] = Tail(@)]
     /\ work' = IF Live(t) THEN [work EXCEPT ![t].cancelled = TRUE] ELSE work
     /\ UNCHANGED <<runnerOnly, up, calls>>

Step(t, from, to, frame) ==
  /\ work[t].phase = from /\ ~work[t].cancelled
  /\ work' = [work EXCEPT ![t].phase = to]
  /\ Say(work[t].gen, frame)
  /\ UNCHANGED <<runnerOnly, down, calls>>

(* TaskExecutionPermit::accepted and start_upstream announce the step only
   while the ticket is valid, checked after the place in the outbound queue
   was obtained; the payload is validated between the two. *)
AnnounceAccepted(t) == Step(t, "queued", "accepted", Accepted(t))

AnnounceUpstream(t) == Step(t, "accepted", "started", UpstreamStarted(t))

(* An expired ticket, an upstream that is not allowed, an invalid request. *)
FailBeforeUpstream(t) ==
  \/ Step(t, "queued", "ended", Failed(t, TRUE))
  \/ Step(t, "accepted", "ended", Failed(t, TRUE))

(* The HTTP request goes out. *)
CallUpstream(t) ==
  /\ work[t].phase = "started" /\ ~work[t].cancelled
  /\ work' = [work EXCEPT ![t].phase = "called"]
  /\ calls' = [calls EXCEPT ![t[1]] = @ + 1]
  /\ UNCHANGED <<runnerOnly, down, up>>

UpstreamAnswers(t) ==
  \E s \in Status : Step(t, "called", "answering", ResponseStarted(t, s))

\* Mistake: the runner repeats the request itself after a transport error.
UpstreamFails_RetryLocally(t) ==
  \/ Step(t, "called", "started", UpstreamStarted(t))
  \/ Step(t, "answering", "ended", Failed(t, FALSE))

(* Transport error or broken stream. *)
UpstreamFails(t) ==
  \/ Step(t, "called", "ended", Failed(t, FALSE))
  \/ Step(t, "answering", "ended", Failed(t, FALSE))

UpstreamChunk(t) ==
  /\ work[t].phase = "answering" /\ ~work[t].cancelled
  /\ work[t].chunks < MaxChunks
  /\ work' = [work EXCEPT ![t].chunks = @ + 1]
  /\ Say(work[t].gen, Chunk(t, work[t].chunks))
  /\ UNCHANGED <<runnerOnly, down, calls>>

UpstreamFinishes(t) == Step(t, "answering", "ended", Finished(t))

(* The cancellation or the deadline wins the worker's select: the local
   future is dropped, the failure is never retryable. *)
WorkerStopped(t) ==
  /\ Live(t)
  /\ work' = [work EXCEPT ![t].phase = "ended"]
  /\ Say(work[t].gen, Failed(t, FALSE))
  /\ UNCHANGED <<runnerOnly, down, calls>>

-----------------------------------------------------------------------------
Worker(t) ==
  \/ AnnounceAccepted(t) \/ AnnounceUpstream(t) \/ FailBeforeUpstream(t)
  \/ CallUpstream(t) \/ UpstreamAnswers(t) \/ UpstreamFails(t)
  \/ UpstreamChunk(t) \/ UpstreamFinishes(t) \/ WorkerStopped(t)

RequestSteps(q) ==
  \/ AuthorizationRefused(q) \/ SelectRunner(q)
  \/ QueuePlace(q) \/ DispatchReserved(q) \/ Receive(q) \/ StreamEnds(q)

Session(g) ==
  \/ RunnerDrops(g) \/ ControlBreaks(g) \/ Unregister(g)
  \/ PublishFrom(g) \/ AcceptTask(g) \/ CancelTask(g)

DispatchNext ==
  \/ \E r \in RemoteRunner : Connect(r) \/ Disable(r) \/ Disconnect(r)
  \/ \E g \in Gen : Session(g)
  \/ \E q \in Request : RequestSteps(q)
  \/ \E t \in Task : Worker(t)

DispatchSpec == DispatchInit /\ [][DispatchNext]_dispatchVars

-----------------------------------------------------------------------------
(***************************************************************************)
(* What the parts promise together.                                         *)
(***************************************************************************)
(* A request reaches the provider at most once, whatever is lost, retried,
   reconnected or cancelled: start_runner_http_request retries only when the
   first task certainly made no call, and a task is executed by one worker.
   A request recorded as failed before the upstream call (its reservation is
   released, nothing is charged) never reached the provider, and no worker
   left behind will still call it.  The exception is a streamed request whose
   answer was an error, which is recorded in the same way. *)
UpstreamAtMostOnce ==
  \A q \in Request :
    /\ calls[q] <= 1
    /\ req[q].result = "before" /\ req[q].status = "ok" =>
         /\ calls[q] = 0
         /\ \A a \in Attempt : work[<<q, a>>].phase # "started"

(* An answer handed on as complete has every chunk the runner produced, in
   order: neither a full event channel nor a replaced connection can lose
   one in the middle or at the end of a successful answer. *)
CompleteAnswer ==
  \A q \in Request :
    req[q].result = "ok" => req[q].chunks = work[TaskOf(q)].chunks

(* Once a session has been unregistered no task is subscribed to it, so that
   no handler waits for frames that cannot come any more: a dispatch that
   races the end of the session is either refused or undone by it. *)
NoOrphanSubscription ==
  \A t \in Task : subs[t] # 0 => controlEnd[subs[t]] # "closed"

(* What a member is told of an answer is what the runner produced, and somebody
   is left to tell it. *)
AnswerDelivered == CompleteAnswer /\ NoOrphanSubscription
=============================================================================
