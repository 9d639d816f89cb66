--------------------------- MODULE RequestLifecycle ---------------------------
(***************************************************************************)
(* Admission, ownership and drain of the work of one Control process:      *)
(* control/src/lifecycle.rs, finish_control_mutation and                   *)
(* drain_licensed_mutations of lib.rs, and the end of serve in main.rs.    *)
(*                                                                         *)
(* A request is in the registry as long as some owner holds a clone of its *)
(* lease: the middleware (track), the task of the handler, the task that   *)
(* feeds a streamed response, the response body, a detached mutation.      *)
(* Admission, drain, retirement and shutdown share the lock of the         *)
(* registry, so each is one step here.  The shutdown task waits on a       *)
(* Notify, which wakes only who is already listening.                      *)
(***************************************************************************)
EXTENDS Integers, FiniteSets

CONSTANTS Request,      \* HTTP requests and rounds of the recovery loop
          Background,   \* the rounds of the recovery loop (run_background)
          MaxRevision   \* bound: admission commands of the executor

ASSUME LifecycleAssumption ==
  /\ Background \subseteq Request
  /\ MaxRevision \in Nat \ {0}

VARIABLES
  accepting, stopping, revision,   \* the registry
  arrived,    \* requests that have come
  owners,     \* who holds a lease of a request
  gate,       \* mutation_tasks: open, a writer queued, or closed for good
  waiter,     \* the step of the shutdown task
  woken,      \* whether its Notified future has been notified, None before enable
  main,       \* serve: serving, draining the mutations, exited
  failed,     \* whether a listener ended with an error
  retired     \* whether the executor retired this process

registry == <<accepting, stopping, revision>>
process == <<gate, main, failed>>
vars == <<accepting, stopping, revision, arrived, owners, gate, waiter, woken,
          main, failed, retired>>

Owner == {"track", "handler", "stream", "body", "mutation"}

InFlight == {r \in Request : owners[r] # {}}
Mutating == {r \in Request : "mutation" \in owners[r]}

TypeOK ==
  /\ accepting \in BOOLEAN /\ stopping \in BOOLEAN /\ revision \in 0..MaxRevision
  /\ arrived \subseteq Request
  /\ owners \in [Request -> SUBSET Owner]
  /\ gate \in {"open", "closing", "closed"}
  /\ waiter \in {"signal", "asleep", "begin", "enable", "check", "await", "sent"}
  /\ woken \in BOOLEAN
  /\ main \in {"serving", "draining", "exited"}
  /\ failed \in BOOLEAN /\ retired \in BOOLEAN

\* A candidate starts closed (begin_drain before its listeners exist).
Init ==
  /\ accepting \in BOOLEAN
  /\ stopping = FALSE
  /\ revision = IF accepting THEN 0 ELSE 1
  /\ arrived = {}
  /\ owners = [r \in Request |-> {}]
  /\ gate = "open"
  /\ waiter = "signal"
  /\ woken = FALSE
  /\ main = "serving"
  /\ failed = FALSE
  /\ retired = FALSE

-----------------------------------------------------------------------------
\* changed.notify_waiters(): the shutdown task hears it if it is listening,
\* from the enabling of its Notified future on.
Notify == woken' = (woken \/ waiter \in {"asleep", "check", "await"})

Own(r, O) == owners' = [owners EXCEPT ![r] = O]

\* Drop for LeaseInner notifies when the last owner is gone.
Disown(r, o) ==
  /\ o \in owners[r]
  /\ Own(r, owners[r] \ {o})
  /\ IF owners[r] = {o} THEN Notify ELSE UNCHANGED woken

(***************************************************************************)
(* The owners of a request.                                                *)
(***************************************************************************)
\* Mistake: the check of accepting and the insertion do not share a lock.
Admit_Unlocked(r) ==
  /\ main # "exited"
  /\ IF r \notin arrived
       THEN accepting /\ arrived' = arrived \cup {r} /\ UNCHANGED owners
       ELSE /\ owners[r] = {} /\ UNCHANGED arrived
            /\ Own(r, {"track", "handler"})
  /\ UNCHANGED <<registry, process, waiter, woken, retired>>

\* admit, by track or by run_background.  Connections outlive their listener;
\* the recovery loop is aborted with it.
Admit(r) ==
  /\ main = "serving" \/ (main = "draining" /\ r \notin Background)
  /\ r \notin arrived
  /\ arrived' = arrived \cup {r}
  /\ IF accepting
       THEN Own(r, IF r \in Background THEN {"handler"} ELSE {"track", "handler"})
       ELSE UNCHANGED owners
  /\ UNCHANGED <<registry, process, waiter, woken, retired>>

\* lifecycle::spawn: the task that relays a streamed response and settles it.
SpawnStream(r) ==
  /\ main # "exited" /\ r \notin Background
  /\ "handler" \in owners[r] /\ "stream" \notin owners[r]
  /\ Own(r, owners[r] \cup {"stream"})
  /\ UNCHANGED <<registry, arrived, process, waiter, woken, retired>>

StreamEnds(r) ==
  /\ main # "exited"
  /\ Disown(r, "stream")
  /\ UNCHANGED <<registry, arrived, process, waiter, retired>>

\* The handler's task ends; its response waits in the JoinHandle for track.
HandlerEnds(r) ==
  /\ main # "exited"
  /\ Disown(r, "handler")
  /\ UNCHANGED <<registry, arrived, process, waiter, retired>>

\* track passes its lease on to the response body, unless the body is empty.
Respond(r, empty) ==
  /\ main # "exited" /\ "track" \in owners[r] /\ "handler" \notin owners[r]
  /\ IF empty THEN Disown(r, "track")
       ELSE Own(r, (owners[r] \ {"track"}) \cup {"body"}) /\ UNCHANGED woken
  /\ UNCHANGED <<registry, arrived, process, waiter, retired>>

\* The client went away or the deadline passed: track ends, the handler and
\* its mutations do not.
TrackEnds(r) ==
  /\ main # "exited"
  /\ Disown(r, "track")
  /\ UNCHANGED <<registry, arrived, process, waiter, retired>>

\* The body was read to its end, dropped or expired.
BodyEnds(r) ==
  /\ main # "exited"
  /\ Disown(r, "body")
  /\ UNCHANGED <<registry, arrived, process, waiter, retired>>

\* finish_control_mutation behind the open gate.  A queued writer makes new
\* readers wait; behind the closed gate the handler gets an error and goes on.
BeginMutation(r) ==
  /\ main # "exited" /\ "mutation" \notin owners[r]
  /\ owners[r] \cap {"handler", "stream"} # {}
  /\ gate = "open"
  /\ Own(r, owners[r] \cup {"mutation"})
  /\ UNCHANGED <<registry, arrived, process, waiter, woken, retired>>

\* The detached mutation outlives a caller that no longer waits for it.
EndMutation(r) ==
  /\ main # "exited"
  /\ Disown(r, "mutation")
  /\ UNCHANGED <<registry, arrived, process, waiter, retired>>

(***************************************************************************)
(* The commands of the executor.  A command may be late: its revision is   *)
(* any that it once read.                                                  *)
(***************************************************************************)
SetAdmission(expected, open) ==
  /\ main # "exited" /\ revision < MaxRevision
  /\ ~stopping /\ revision = expected
  /\ accepting' = open /\ revision' = revision + 1
  /\ Notify
  /\ UNCHANGED <<stopping, arrived, owners, process, waiter, retired>>

RetireDrained(expected) ==
  /\ main # "exited" /\ revision < MaxRevision
  /\ ~accepting /\ ~stopping /\ InFlight = {} /\ revision = expected
  /\ stopping' = TRUE /\ revision' = revision + 1
  /\ retired' = TRUE
  /\ Notify
  /\ UNCHANGED <<accepting, arrived, owners, process, waiter>>

(***************************************************************************)
(* The shutdown task of serve.                                             *)
(***************************************************************************)
\* wait_shutdown_started enables its Notified future and looks at stopping.
WaitShutdown ==
  /\ waiter = "signal" /\ main = "serving"
  /\ waiter' = IF stopping THEN "begin" ELSE "asleep"
  /\ woken' = FALSE
  /\ UNCHANGED <<registry, arrived, owners, process, retired>>

WakeUp ==
  /\ waiter = "asleep" /\ woken /\ main = "serving"
  /\ waiter' = "signal"
  /\ UNCHANGED <<registry, arrived, owners, process, woken, retired>>

\* SIGTERM or Ctrl-C.
ShutdownSignal ==
  /\ waiter \in {"signal", "asleep"} /\ main = "serving"
  /\ waiter' = "begin"
  /\ UNCHANGED <<registry, arrived, owners, process, woken, retired>>

\* begin_shutdown, which does nothing in a retired process; its revision
\* saturates.
BeginShutdown ==
  /\ waiter = "begin" /\ main = "serving"
  /\ stopping' = TRUE
  /\ accepting' = IF stopping THEN accepting ELSE FALSE
  /\ revision' = IF stopping \/ revision = MaxRevision THEN revision ELSE revision + 1
  /\ waiter' = "enable"
  /\ UNCHANGED <<arrived, owners, process, woken, retired>>

\* wait_drained: enable, look, sleep.
EnableDrained ==
  /\ waiter = "enable" /\ main = "serving"
  /\ waiter' = "check" /\ woken' = FALSE
  /\ UNCHANGED <<registry, arrived, owners, process, retired>>

\* Mistake: the task looks first (woken marks it) and listens in a second step.
CheckDrained_EnableLate ==
  /\ waiter = "check" /\ main = "serving"
  /\ IF ~woken
       THEN waiter' = (IF ~accepting /\ InFlight = {} THEN "sent" ELSE "check") /\ woken' = TRUE
       ELSE waiter' = "await" /\ woken' = FALSE
  /\ UNCHANGED <<registry, arrived, owners, process, retired>>

CheckDrained ==
  /\ waiter = "check" /\ main = "serving"
  /\ waiter' = IF ~accepting /\ InFlight = {} THEN "sent" ELSE "await"
  /\ UNCHANGED <<registry, arrived, owners, process, woken, retired>>

AwaitDrained ==
  /\ waiter = "await" /\ woken /\ main = "serving"
  /\ waiter' = "enable"
  /\ UNCHANGED <<registry, arrived, owners, process, woken, retired>>

(***************************************************************************)
(* The end of serve.                                                       *)
(***************************************************************************)
\* All listeners ended, which they do once the shutdown task has sent.
ListenersEnd ==
  /\ main = "serving" /\ waiter = "sent"
  /\ main' = "draining" /\ gate' = "closing"
  /\ UNCHANGED <<registry, arrived, owners, waiter, woken, failed, retired>>

\* try_join! ends with the first listener that fails; the shutdown task is
\* aborted, and nothing waits for the requests.
ListenerFails ==
  /\ main = "serving"
  /\ main' = "draining" /\ gate' = "closing" /\ failed' = TRUE
  /\ UNCHANGED <<registry, arrived, owners, waiter, woken, retired>>

\* Mistake: the flag is set without waiting for the readers.
DrainMutations_NoWait ==
  /\ main = "draining" /\ gate = "closing"
  /\ gate' = "closed"
  /\ UNCHANGED <<registry, arrived, owners, waiter, woken, main, failed, retired>>

\* drain_licensed_mutations: the writer waits for the readers.
DrainMutations ==
  /\ main = "draining" /\ gate = "closing" /\ Mutating = {}
  /\ gate' = "closed"
  /\ UNCHANGED <<registry, arrived, owners, waiter, woken, main, failed, retired>>

\* serve returns and the runtime drops every task that is left.
Exit ==
  /\ main = "draining" /\ gate = "closed"
  /\ main' = "exited"
  /\ UNCHANGED <<registry, arrived, owners, gate, waiter, woken, failed, retired>>

OwnerSteps(r) ==
  \/ HandlerEnds(r) \/ StreamEnds(r) \/ TrackEnds(r) \/ BodyEnds(r) \/ EndMutation(r)
  \/ \E empty \in BOOLEAN : Respond(r, empty)

WaiterSteps ==
  \/ WaitShutdown \/ WakeUp \/ BeginShutdown
  \/ EnableDrained \/ CheckDrained \/ AwaitDrained

MainSteps == ListenersEnd \/ DrainMutations \/ Exit

Requests == \E r \in Request : Admit(r) \/ SpawnStream(r) \/ BeginMutation(r) \/ OwnerSteps(r)

Next ==
  \/ Requests
  \/ \E expected \in 0..MaxRevision :
       \/ \E open \in BOOLEAN : SetAdmission(expected, open)
       \/ RetireDrained(expected)
  \/ WaiterSteps \/ ShutdownSignal
  \/ MainSteps \/ ListenerFails

Spec == Init /\ [][Next]_vars

\* Handlers and streams end: their executions have a deadline, and their
\* settlements end once the database answers.  Mutations end, track and body have timers,
\* and the runtime polls the two tasks of serve.
Fairness ==
  /\ \A r \in Request :
       /\ WF_vars(HandlerEnds(r)) /\ WF_vars(StreamEnds(r)) /\ WF_vars(EndMutation(r))
       /\ WF_vars(TrackEnds(r)) /\ WF_vars(BodyEnds(r))
  /\ WF_vars(WaiterSteps) /\ WF_vars(MainSteps)

FairSpec == Spec /\ Fairness

-----------------------------------------------------------------------------
(***************************************************************************)
(* Properties.                                                             *)
(***************************************************************************)

\* Once the shutdown task has told the listeners to stop, no work is in
\* flight any more and none is admitted again: the snapshot it saw stays true.
DrainedStaysEmpty ==
  waiter = "sent" => ~accepting /\ InFlight = {}

\* A process the executor retired had no work in flight and gets none, though
\* late admission commands and requests still arrive.
RetiredStaysEmpty ==
  retired => stopping /\ ~accepting /\ InFlight = {}

\* The process ends without cutting a mutation off, even if a listener fails;
\* without that failure it cuts off no work at all.
ExitCutsNothing ==
  main = "exited" => Mutating = {} /\ (InFlight # {} => failed)

\* Shutdown is irreversible, and while it lasts work only leaves.
ShutdownOnlyDrains ==
  [][stopping => stopping' /\ ~accepting' /\ \A r \in Request :
                   owners[r] = {} => owners'[r] = {}]_vars

\* A started shutdown ends the process: no wakeup of the shutdown task is lost
\* between its look at the registry and its sleep.
ShutdownEnds == stopping ~> (main = "exited")
=============================================================================
