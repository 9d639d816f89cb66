-------------------------- MODULE MaintenanceUpgrade --------------------------
(***************************************************************************)
(* The maintenance executor (cli/src/maintenance_executor.rs): upgrade of  *)
(* an installation with services stopped, restoration of the previous      *)
(* release when a step fails, recovery of a job that was interrupted, and  *)
(* deletion of an old release; with the preparation and finalization of    *)
(* the local runner (cli/src/slot_preparation.rs) on Linux with MariaDB.   *)
(*                                                                         *)
(* The executor is a list of steps.  A step succeeds, fails without or     *)
(* with its effect, or is interrupted by the death of the executor or a    *)
(* restart of the machine; MaxFaults bounds how often.  What the machine   *)
(* keeps across these is the record `host', the job in upgrade_running     *)
(* and the database of RunnerRegistry.                                     *)
(***************************************************************************)
EXTENDS RunnerRegistry, Sequences

CONSTANTS
    JobCount,      \* jobs that are submitted
    SharedRunner,  \* identity of the runner installed beside the first release
    MaxFaults

Job == 1 .. JobCount
Slot == {"blue", "green"}
Other(s) == IF s = "blue" THEN "green" ELSE "blue"
Unit == Slot \cup {"shared"}          \* aster-runner@blue, @green, aster-runner
Version == 1 .. JobCount + 1          \* release n + 1 is out when job n is submitted
NoVersion == 0

ASSUME MaintenanceAssumption ==
    /\ JobCount \in Nat /\ MaxFaults \in Nat
    /\ SharedRunner \in Runner /\ Job \subseteq Runner \ Handler

VARIABLES
    host,    \* services, links and files of the installation
    upload,  \* a submission that has checked for other jobs and is not queued yet
    queue,   \* upgrade_queued: submitted and not yet claimed
    file,    \* the job in upgrade_running, as it is on disk
    done,    \* outcome of each archived job
    audited, \* jobs whose audit event "succeeded" is in the database
    exec,    \* the executor's memory
    faults

maintenanceVars == <<host, upload, queue, file, done, audited, exec, faults, registryVars>>

NoJob == [id |-> 0, op |-> "none", by |-> "none", version |-> NoVersion, from |-> NoVersion,
          status |-> "none", staged |-> FALSE, claimed |-> FALSE, runner |-> FALSE]

NoActive == [slot |-> "blue", version |-> NoVersion, runner |-> NoRunner]

\* `goal' is the active slot the plan works towards; `prior', `assets' and
\* `upstream' are what execute_platform_maintenance saved before its first step.
Off == [mode |-> "off", plan |-> << >>, job |-> NoJob, goal |-> NoActive,
        prior |-> NoActive, assets |-> NoVersion, upstream |-> "blue"]

\* The unit that runs the runner of an active slot, and its identity file.
RunnerUnit(active) == IF active.runner # NoRunner THEN active.slot ELSE "shared"
RunnerIdentity(active) == host.identity[RunnerUnit(active)]

MaintenanceInit ==
    /\ \E shared \in {SharedRunner, NoRunner}, up \in SUBSET {"shared"} :
        /\ shared = NoRunner => up = {}
        /\ RegistryInit({shared} \ {NoRunner})
        /\ host = [control |-> [s \in Slot |-> IF s = "blue" THEN 1 ELSE NoVersion],
                   boot |-> {"blue"}, runners |-> up, runnerBoot |-> up,
                   link |-> [s \in Slot |-> IF s = "blue" THEN 1 ELSE NoVersion],
                   current |-> 1, selected |-> 1, cli |-> 1, assets |-> 1, upstream |-> "blue",
                   active |-> [slot |-> "blue", version |-> 1, runner |-> NoRunner],
                   identity |-> [u \in Unit |-> IF u = "shared" THEN shared ELSE NoRunner],
                   releases |-> {1}]
    /\ upload = NoJob /\ queue = << >> /\ file = NoJob /\ exec = Off /\ faults = 0
    /\ done = [j \in Job |-> "none"] /\ audited = {}

-----------------------------------------------------------------------------
(* The scripts.                                                            *)

\* Up to here services have not been touched: a failure only archives the job.
StageScript == <<"Verifying", "Staging", "stage", "staged", "claimed">>

UpgradeScript ==
    <<"StoppingServices", "quiesce", "link", "assets", "disable", "StartingCandidate",
      "prepare", "start", "Migrating", "healthy", "runnerUnits", "runnerReady", "enable",
      "SwitchingTraffic", "upstreams", "current", "selected", "cli", "audit", "commit">>

\* Mistake: the previous release is started without stopping the candidate.
RestoreScript_Hasty ==
    <<"RestoringPrevious", "assets", "current", "link", "disable", "enable", "start", "healthy",
      "upstreams", "selected", "runnerUnits", "runnerReady", "commit", "Failed", "cli">>

RestoreScript ==
    <<"RestoringPrevious", "quiesce", "assets", "current", "link", "disable", "enable", "start",
      "healthy", "upstreams", "selected", "runnerUnits", "runnerReady", "commit", "Failed", "cli">>

\* Mistake: recovery leaves the service definitions as they are.
RecoverScript_LinksOnly ==
    <<"quiesce", "link", "current", "disable", "enable", "start", "healthy",
      "upstreams", "selected", "runnerUnits", "runnerReady">>

RecoverScript ==
    <<"quiesce", "assets", "link", "current", "disable", "enable", "start", "healthy",
      "upstreams", "selected", "runnerUnits", "runnerReady">>

\* complete_job: persist, finalize, and only then out of upgrade_running.
CompleteScript == <<"persist", "finalize", "archive">>

DeleteScript == <<"Verifying", "refuseActive", "unlink", "remove">>

Early == {"Queued", "Verifying", "Staging"}
Terminal == {"Succeeded", "Failed"}
Statuses == Early \cup Terminal \cup {"StoppingServices", "StartingCandidate", "Migrating",
                                      "SwitchingTraffic", "RestoringPrevious"}

-----------------------------------------------------------------------------
(* What a step does to the machine.                                        *)

Stopped(h, units, slots) ==
    [h EXCEPT !.runners = @ \ units,
              !.control = [s \in Slot |-> IF s \in slots THEN NoVersion ELSE @[s]]]

\* quiesce_services, in the order of stop_services_exclusively; the first k
\* units have been stopped when it fails.
StopOrder == <<"blue", "green", "shared">>
PartlyStopped(k) ==
    Stopped(host, {StopOrder[i] : i \in {j \in 1 .. 3 : j <= k}},
            {StopOrder[i] : i \in {j \in 1 .. 2 : j + 3 <= k}})

\* execute_version_cleanup: the slots that still link the release.
Linking(v) == {s \in Slot : host.link[s] = v}

Effect(step) ==
    LET g == exec.goal
        restoring == exec.mode = "restore"
        unit == RunnerUnit(g)
    IN  CASE step = "quiesce"   -> [Stopped(host, Unit, Slot) EXCEPT !.runnerBoot = @ \ Slot]
          [] step = "link"      -> [host EXCEPT !.link[g.slot] = g.version]
          [] step = "assets"    -> [host EXCEPT !.assets = IF restoring THEN exec.assets ELSE g.version]
          [] step = "disable"   -> [host EXCEPT !.boot = @ \ {Other(g.slot)}]
          [] step = "enable"    -> [host EXCEPT !.boot = @ \cup {g.slot}]
          [] step = "start"     -> [host EXCEPT !.control[g.slot] = host.link[g.slot]]
          [] step = "prepare"   -> [host EXCEPT !.identity[g.slot] =
                                      IF RunnerIdentity(host.active) # NoRunner THEN exec.job.id ELSE @]
          [] step = "runnerUnits" ->
                [host EXCEPT !.runnerBoot = IF exec.job.runner THEN {unit} ELSE {},
                             !.runners = IF exec.job.runner THEN @ \cup {unit} ELSE @]
          [] step = "upstreams" -> [host EXCEPT !.upstream = IF restoring THEN exec.upstream ELSE g.slot]
          [] step = "current"   -> [host EXCEPT !.current = g.version]
          [] step = "selected"  -> [host EXCEPT !.selected = g.version]
          [] step = "cli"       -> [host EXCEPT !.cli = g.version]
          [] step = "commit"    -> [host EXCEPT !.active = g]
          [] step = "stage"     -> [host EXCEPT !.releases = @ \cup {exec.job.version}]
          [] step = "unlink"    ->
                LET linking == Linking(exec.job.version) IN
                [Stopped(host, linking, linking) EXCEPT
                    !.runnerBoot = @ \ linking,
                    !.link = [s \in Slot |-> IF s \in linking THEN NoVersion ELSE @[s]]]
          [] step = "remove"    -> [host EXCEPT !.releases = @ \ {exec.job.version}]
          [] OTHER -> host

\* Sessions end with the process on either side: a control that was stopped
\* has none, nor has a local runner whose unit was stopped.
Down(h) == \A s \in Slot : h.control[s] = NoVersion

Surviving(h) ==
    IF Down(h) THEN {}
    ELSE {r \in connected : \A u \in Unit : h.identity[u] = r => u \in h.runners}

\* Requests in progress end with the control that serves them.
EndRequests(h) ==
    /\ connected' = Surviving(h)
    /\ handler' = IF Down(h) THEN [r \in Handler |-> IdleHandler] ELSE handler
    /\ upload' = IF Down(h) THEN NoJob ELSE upload

\* Control of the slot the proxy points to.
Serving == host.control[host.upstream]

\* registration_lease: no executor at work, no job left in upgrade_running,
\* and the control asking is the release that `current' points to.
Lease(version) ==
    /\ exec.mode = "off" /\ file = NoJob
    /\ version # NoVersion /\ version = host.current

-----------------------------------------------------------------------------
(* When a step can succeed, and what it changes besides `host'.            *)

RunnerReleaseValid(active) ==
    active.runner # NoRunner => host.identity[active.slot] = active.runner

\* finalize_if_supported and FinalizationContext: everything of the slot that
\* was not chosen has stopped, and the survivor is the chosen slot's identity.
CanFinalize ==
    LET a == host.active
        chosen == a.version = exec.job.version
    IN  (exec.job.op = "upgrade" /\ exec.job.staged) =>
        /\ chosen \/ a.version = exec.job.from
        /\ host.control[Other(a.slot)] = NoVersion /\ Other(a.slot) \notin host.runners
        /\ (chosen /\ a.runner # NoRunner) => "shared" \notin host.runners
        /\ host.control[a.slot] # NoVersion
        /\ RunnerReleaseValid(a)
        /\ CanReconcile(exec.job.id, RunnerIdentity(a))
        /\ (chosen /\ a.runner # NoRunner) => BindingOf(exec.job.id) # {}

\* probe_runner of restore_runner: the runner of the slot has a session.
RunnerReady ==
    (exec.job.runner /\ exec.goal.runner # NoRunner) => exec.goal.runner \in connected

\* execute_platform_maintenance before its first change.
CanClaim ==
    /\ host.current = exec.job.from /\ host.active.version = exec.job.from
    /\ RunnerReleaseValid(host.active)

\* prepare_if_supported: a runner that is installed gets a successor for the
\* candidate slot, registered in the name of the administrator.
CanPrepare ==
    LET previous == RunnerIdentity(host.active) IN
    previous # NoRunner =>
        exec.job.by = "admin" /\ CanProvision(exec.job.id, previous, exec.job.id)

CanSucceed(step) ==
    CASE step = "claimed"     -> CanClaim
      [] step = "quiesce"     -> exec.mode = "recover" => RunnerReleaseValid(exec.goal)
      [] step = "prepare"     -> CanPrepare
      [] step = "start"       -> host.link[exec.goal.slot] # NoVersion
      [] step = "healthy"     -> host.control[exec.goal.slot] # NoVersion
      [] step = "runnerUnits" -> RunnerReleaseValid(exec.goal)
      [] step = "runnerReady" -> RunnerReady
      [] step = "refuseActive" -> exec.job.version \notin {host.active.version, exec.job.from}
      [] step = "finalize"    -> CanFinalize
      [] OTHER                -> TRUE

\* The job in the executor's memory, which set_job_status changes before it
\* writes the file.
Remembered(step) ==
    CASE step \in Statuses -> [exec.job EXCEPT !.status = step]
      [] step = "staged"   -> [exec.job EXCEPT !.staged = TRUE]
      [] step = "claimed"  -> [exec.job EXCEPT !.claimed = TRUE,
                                 !.runner = RunnerUnit(host.active) \in host.runners]
      [] OTHER             -> exec.job

Persists(step) == step \in Statuses \cup {"staged", "claimed", "persist"}

Perform(step) ==
    LET h == Effect(step) IN
    /\ host' = h /\ EndRequests(h)
    /\ file' = IF Persists(step) THEN Remembered(step)
               ELSE IF step = "archive" THEN NoJob ELSE file
    /\ done' = IF step = "archive" THEN [done EXCEPT ![exec.job.id] = exec.job.status] ELSE done
    /\ audited' = IF step = "audit" THEN audited \cup {exec.job.id} ELSE audited
    /\ IF step = "prepare" /\ RunnerIdentity(host.active) # NoRunner
         THEN Provision(exec.job.id, RunnerIdentity(host.active), exec.job.id)
         ELSE IF step = "finalize" /\ exec.job.op = "upgrade" /\ exec.job.staged
                THEN Reconcile(exec.job.id, RunnerIdentity(host.active))
                ELSE UNCHANGED <<rows, bindings>>
    /\ UNCHANGED <<queue, tokens>>

NothingDone == UNCHANGED <<host, upload, queue, file, done, audited, registryVars>>

-----------------------------------------------------------------------------
(* The executor.                                                           *)

\* complete_job after a new status.
Ending(e, status) ==
    [e EXCEPT !.mode = "complete", !.plan = <<status>> \o CompleteScript]

\* recover_interrupted_jobs: the active slot on disk decides the outcome.
RecoveredAs(job) ==
    IF host.active.version = job.version /\ job.status = "SwitchingTraffic"
      THEN "Succeeded" ELSE "Failed"

\* The executor after a step that succeeded.
AfterSuccess(step) ==
    LET e == [exec EXCEPT !.plan = Tail(@), !.job = Remembered(step),
                !.goal.runner = IF step = "prepare" /\ RunnerIdentity(host.active) # NoRunner
                                  THEN exec.job.id ELSE @]
    IN  IF e.plan # << >> THEN e
        ELSE CASE e.mode = "stage" ->
                    [e EXCEPT !.mode = "upgrade", !.plan = UpgradeScript,
                        !.prior = host.active, !.assets = host.assets, !.upstream = host.upstream,
                        !.goal = [slot |-> Other(host.active.slot), version |-> e.job.version,
                                  runner |-> NoRunner]]
               [] e.mode \in {"upgrade", "delete"} -> Ending(e, "Succeeded")
               [] e.mode = "restore" -> Ending(e, "Failed")
               [] e.mode = "recover" -> [e EXCEPT !.mode = "settle",
                                            !.plan = <<RecoveredAs(e.job), "cli">>]
               [] e.mode = "settle"  -> [e EXCEPT !.mode = "complete", !.plan = CompleteScript]
               [] e.mode \in {"complete", "exit"} -> Off

\* The executor after a step that failed: finish_failed_job, the restoration
\* of execute_platform_maintenance, or the end of this run of the executor.
AfterFailure(step, job) ==
    LET e == [exec EXCEPT !.job = job] IN
    CASE e.mode \in {"stage", "delete"} -> Ending(e, "Failed")
      [] e.mode = "upgrade" -> [e EXCEPT !.mode = "restore", !.plan = RestoreScript, !.goal = exec.prior]
      [] e.mode = "restore" /\ step = "RestoringPrevious" -> [e EXCEPT !.plan = Tail(@)]
      [] e.mode = "restore" /\ step # "RestoringPrevious" ->
            IF job.status = "RestoringPrevious"
              THEN [e EXCEPT !.mode = "exit", !.plan = <<"persist">>]
              ELSE Ending(e, "Failed")
      [] e.mode = "settle" /\ step = "cli" ->
            [e EXCEPT !.mode = "exit", !.job.status = "Failed", !.plan = <<"persist">>]
      [] OTHER -> Off

Working == exec.mode # "off"
Step == Head(exec.plan)

StepSucceeds ==
    /\ Working /\ CanSucceed(Step)
    /\ Perform(Step)
    /\ exec' = AfterSuccess(Step)
    /\ UNCHANGED faults

\* A step that cannot succeed reports an error.  The wait for the runner ends
\* without a fault only when no session is possible.
StepRefused ==
    /\ Working /\ ~CanSucceed(Step)
    /\ Step = "runnerReady" =>
          ~(rows[exec.goal.runner] = "on" /\ Lease(host.control[exec.goal.slot]))
    /\ NothingDone
    /\ exec' = AfterFailure(Step, exec.job)
    /\ UNCHANGED faults

Fault == faults < MaxFaults /\ faults' = faults + 1

\* A failure without effect, or with an effect that is reported as a failure.
StepFails ==
    /\ Working /\ Fault
    /\ \/ NothingDone
       \/ CanSucceed(Step) /\ Step # "archive" /\ Perform(Step)
       \/ \E k \in 1 .. 5 :
            /\ Step = "quiesce"
            /\ host' = PartlyStopped(k) /\ EndRequests(PartlyStopped(k))
            /\ UNCHANGED <<queue, file, done, audited, rows, bindings, tokens>>
    /\ exec' = AfterFailure(Step, Remembered(Step))

ExecutorDies ==
    /\ Working /\ Fault
    /\ exec' = Off /\ NothingDone

\* The machine restarts: the units that are enabled come up.
Restart ==
    /\ Fault
    /\ host' = [host EXCEPT !.runners = host.runnerBoot,
                  !.control = [s \in Slot |-> IF s \in host.boot THEN host.link[s] ELSE NoVersion]]
    /\ connected' = {} /\ handler' = [r \in Handler |-> IdleHandler]
    /\ exec' = Off /\ upload' = NoJob
    /\ UNCHANGED <<queue, file, done, audited, rows, bindings, tokens>>

\* run_next: the lock, recovery of the job that is left, the next job.
ExecutorStarts ==
    /\ ~Working /\ \A h \in Handler : ~handler[h].lease
    /\ \/ /\ file # NoJob
          /\ LET e == [Off EXCEPT !.job = file, !.goal = host.active] IN
             exec' = IF file.status \in Terminal
                       THEN [e EXCEPT !.mode = "complete",
                               !.plan = (IF file.claimed THEN <<"persist", "cli">> ELSE << >>)
                                        \o CompleteScript]
                     ELSE IF file.op = "upgrade" /\ file.status \notin Early
                       THEN [e EXCEPT !.mode = "recover", !.plan = RecoverScript]
                     ELSE Ending(e, "Failed")
          /\ UNCHANGED <<queue, file>>
       \/ /\ file = NoJob /\ queue # << >>
          /\ file' = Head(queue) /\ queue' = Tail(queue)
          /\ exec' = [Off EXCEPT !.job = file',
                        !.mode = IF file'.op = "upgrade" THEN "stage" ELSE "delete",
                        !.plan = IF file'.op = "upgrade" THEN StageScript ELSE DeleteScript]
    /\ UNCHANGED <<host, upload, done, audited, faults, registryVars>>

-----------------------------------------------------------------------------
(* Submission, administration and the runner's own steps.                  *)

\* Jobs get their numbers in the order of submission.
NextJob(j) == j = 1 + Cardinality({i \in Job : \/ done[i] # "none" \/ file.id = i \/ upload.id = i
                                               \/ \E n \in 1 .. Len(queue) : queue[n].id = i})

Submission(j, op, by, version, from) ==
    [NoJob EXCEPT !.id = j, !.op = op, !.by = by, !.version = version, !.from = from,
                  !.status = "Queued"]

\* has_active_job, before a package is uploaded or a deletion is queued.
SubmissionChecked(j, op, version) ==
    /\ NextJob(j) /\ upload = NoJob /\ queue = << >> /\ file = NoJob
    /\ Serving # NoVersion
    /\ IF op = "upgrade" THEN version > Serving /\ version <= j + 1
                         ELSE version \in host.releases \ {host.current}
    /\ upload' = Submission(j, op, "admin", version, Serving)
    /\ UNCHANGED <<host, queue, file, done, audited, exec, faults, registryVars>>

SubmissionQueued ==
    /\ upload # NoJob
    /\ queue' = Append(queue, upload) /\ upload' = NoJob
    /\ UNCHANGED <<host, file, done, audited, exec, faults, registryVars>>

\* upgrade_selected_release: a release the installer has unpacked and
\* selected.  The lock, an empty queue, then the job.
CliUpgrade(j, version) ==
    /\ NextJob(j) /\ ~Working /\ file = NoJob /\ queue = << >>
    /\ \A h \in Handler : ~handler[h].lease
    /\ version > host.current /\ version <= j + 1
    /\ host' = [host EXCEPT !.releases = @ \cup {version}, !.selected = version]
    /\ queue' = <<Submission(j, "upgrade", "cli", version, host.current)>>
    /\ UNCHANGED <<upload, file, done, audited, exec, faults, registryVars>>

\* An operator starts or stops the runner of the active slot.
SwitchRunner ==
    LET u == RunnerUnit(host.active)
        h == [host EXCEPT !.runners = IF u \in @ THEN @ \ {u} ELSE @ \cup {u},
                          !.runnerBoot = IF u \in host.runners THEN @ \ {u} ELSE @ \cup {u}]
    IN  /\ ~Working /\ file = NoJob /\ host.identity[u] # NoRunner
        /\ host' = h /\ connected' = Surviving(h)
        /\ UNCHANGED <<upload, queue, file, done, audited, exec, faults,
                       rows, bindings, tokens, handler>>

\* A local runner connects to the control of its slot, the shared one to the
\* control behind the proxy.
LocalRunnerConnects(u) ==
    /\ u \in host.runners /\ host.identity[u] # NoRunner
    /\ ConnectRunner(host.identity[u], Lease(IF u \in Slot THEN host.control[u] ELSE Serving))

RunnerRequest ==
    /\ Serving # NoVersion
    /\ \/ \E t \in Token : CreateRunnerEnrollment(t) \/ TokenExpires(t)
       \/ \E h \in Handler, t \in Token : EnrollReads(h, t)
       \/ \E h \in Handler : EnrollCommits(h, Lease(Serving)) \/ DeleteCommits(h)
       \/ \E h \in Handler, r \in Runner : DeleteReads(h, r, Lease(Serving))
       \/ Handler # {} /\ \E r \in Runner, to \in {"on", "off"} : UpdateRunner(r, to)

RegistryStep ==
    /\ RunnerRequest \/ \E u \in Unit : LocalRunnerConnects(u)
    /\ UNCHANGED <<host, upload, queue, file, done, audited, exec, faults>>

MaintenanceNext ==
    \/ \E j \in Job, v \in Version, op \in {"upgrade", "delete"} : SubmissionChecked(j, op, v)
    \/ SubmissionQueued
    \/ \E j \in Job, v \in Version : CliUpgrade(j, v)
    \/ ExecutorStarts \/ StepSucceeds \/ StepRefused \/ StepFails \/ ExecutorDies
    \/ Restart \/ SwitchRunner \/ RegistryStep

MaintenanceSpec == MaintenanceInit /\ [][MaintenanceNext]_maintenanceVars

-----------------------------------------------------------------------------
\* At most one control runs, at every moment of an upgrade, of a restoration
\* and of a recovery and across a restart of the machine: the database knows
\* one business instance only (execute_platform_maintenance: "SQLite never
\* runs both business instances").
OneControl == Cardinality({s \in Slot : host.control[s] # NoVersion}) <= 1

\* Whenever no job is left for recovery, the installation is in one piece: the
\* active slot is up and is what the proxy, `current', the links and the units
\* for the next boot and the installed service definitions stand for, its
\* release exists, and a job is archived as succeeded only with its release
\* active at that moment and its audit event written.
Settled == ~Working /\ file = NoJob

ArchivedCoherent ==
    /\ Settled =>
        LET a == host.active IN
        /\ host.control[a.slot] = a.version /\ host.upstream = a.slot
        /\ host.current = a.version /\ host.link[a.slot] = a.version
        /\ host.boot = {a.slot} /\ host.assets = a.version
        /\ a.version \in host.releases
        /\ host.runners \subseteq {RunnerUnit(a)}
    /\ (exec.mode = "complete" /\ exec.job.op = "upgrade" /\ exec.job.status = "Succeeded") =>
        host.active.version = exec.job.version /\ exec.job.id \in audited

\* Receipts and rows agree at every moment and the quota is kept.  When no job
\* is left, no receipt is open, and the runner that a receipt stands for is
\* the one the active slot starts: a rolled back upgrade has retired the
\* candidate and a committed one its predecessor.
RunnerSettled ==
    /\ QuotaHolds
    /\ Settled => \A b \in bindings : CurrentOf(b) = RunnerIdentity(host.active)

\* The upgrade guide: an upgrade "restores the public entrypoint, stable CLI
\* and previously running local Runner after health checks"
\* (website/docs/en/administration/backup-upgrade.md:23): without any fault an
\* administrator's upgrade is not rolled back.
FaultlessUpgradeSucceeds ==
    faults = 0 => ~(exec.mode = "restore" /\ exec.job.by = "admin")

\* Wherever an upgrade stopped, once recovery has nothing left to do the
\* installation and the runner it stands for are those of one release.
UpgradeSettled == ArchivedCoherent /\ RunnerSettled
=============================================================================
