--------------------------- MODULE SlotPreparation ---------------------------
(***************************************************************************)
(* The preparation of the candidate slot of an online upgrade and its      *)
(* cancellation: crates/upgrade-core/src/preparation.rs and preparation/,  *)
(* cli/src/slot_preparation.rs and slot_preparation/online/,               *)
(* online_deployment/prepared.rs and preparation_abort.rs,                 *)
(* online_journal/preparation.rs and maintenance_executor/online.rs.       *)
(*                                                                         *)
(* One executor at a time holds the lock of the installation.  It writes   *)
(* its intent, prepares the stopped slot, starts both of its services with *)
(* admission closed, pins what it started, and hands over to the journal   *)
(* of OnlineUpgrade.  Any call may fail with or without effect and the     *)
(* executor may die anywhere; the journals, the services, the database and *)
(* the files outlive it.  A service is known by the number of its          *)
(* invocation.  The observations of one step are taken together.           *)
(***************************************************************************)
EXTENDS Naturals

CONSTANTS
  MaxInvocation,  \* bound: starts of a candidate service
  NoCapture       \* no activation has been captured
ASSUME PreparationAssumption ==
  /\ MaxInvocation \in Nat \ {0}
  /\ NoCapture \notin [{"control", "runner"} -> 0..MaxInvocation]

VARIABLES
  prep,        \* online-preparation.json, or NoPrep
  plan,        \* the activation pinned by online-transition.json, or NoCapture
  unit,        \* the systemd unit of each candidate service
  task,        \* the maintenance job: its status, or archived
  registered,  \* whether the database holds the candidate's runner identity
  written,     \* whether the private files of the slot are complete
  edits,       \* changes to the environment that all slots share
  retained,    \* the old slot and the proxy are as the intent pinned them
  booted,      \* the machine has been rebooted since
  inBudget,    \* the startup budget of 90 s has not elapsed
  step,        \* the step of the executor
  pass,        \* which of its calls of the startup it is in
  seen         \* what it captured first

record == <<prep, plan>>
installed == <<task, registered, written>>
around == <<edits, retained, booted>>
prepVars == <<prep, plan, unit, task, registered, written, edits, retained, booted,
              inBudget, step, pass, seen>>

Service == {"control", "runner"}
NoPrep == [candidate |-> FALSE, startup |-> 0, capture |-> NoCapture, abort |-> "absent"]
Capture == [Service -> 0..MaxInvocation]
AbortPhase == {"captured", "claimed", "retiring", "finalizing", "complete"}

PreparationTypeOK ==
  /\ prep \in [candidate : BOOLEAN, startup : 0..2, capture : Capture \cup {NoCapture},
               abort : AbortPhase \cup {"none", "absent"}]
  /\ plan \in Capture \cup {NoCapture}
  /\ unit \in [Service -> [state : {"inactive", "activating", "running", "stopping", "failed"},
                           invocation : 0..MaxInvocation, enabled : BOOLEAN]]
  /\ task \in {"staging", "starting", "failed", "archived"}
  /\ registered \in BOOLEAN /\ written \in BOOLEAN /\ edits \in 0..1
  /\ retained \in BOOLEAN /\ booted \in BOOLEAN /\ inBudget \in BOOLEAN
  /\ pass \in {"execute", "resume", "reconcile", "recheck"}
  /\ seen \in Capture \cup {NoCapture}

PreparationInit ==
  /\ prep = NoPrep /\ plan = NoCapture
  /\ unit = [s \in Service |-> [state |-> "inactive", invocation |-> 0, enabled |-> FALSE]]
  /\ task = "staging" /\ registered = FALSE /\ written = FALSE
  /\ edits = 0 /\ retained = TRUE /\ booted = FALSE /\ inBudget = TRUE
  /\ step = "off" /\ pass = "execute" /\ seen = NoCapture

(***************************************************************************)
(* The record.                                                             *)
(***************************************************************************)
Captured(p) == p.capture # NoCapture
Complete(c) == \A s \in Service : c[s] # 0

\* PreparationAbortPhase::revision and abort_revision: the revision is told by
\* the contents, and a record is valid only with that revision.
Revision(p) ==
  IF p.abort = "none"
  THEN CASE Captured(p) -> 3
         [] ~Captured(p) /\ p.startup # 0 -> 2
         [] p.startup = 0 -> IF p.candidate THEN 1 ELSE 0
  ELSE IF Captured(p)
       THEN CASE p.abort = "captured" -> 3 [] p.abort = "claimed" -> 4
              [] p.abort = "retiring" -> 5 [] p.abort = "finalizing" -> 6
              [] p.abort = "complete" -> 7
       ELSE (CASE p.abort = "claimed" -> 2 [] p.abort = "finalizing" -> 3
               [] p.abort = "complete" -> 4) - (IF p.candidate THEN 0 ELSE 1)

\* PreparationJournal::valid.
Valid(p) ==
  /\ p.startup # 0 => p.candidate
  /\ Captured(p) => p.startup # 0 /\ (Complete(p.capture) \/ p.abort # "none")
  /\ p.abort # "none" /\ p.startup # 0 => Captured(p)
  /\ p.abort \in {"captured", "retiring"} => Captured(p)

\* PreparationJournal::follows: nothing recorded is taken back.
Follows(p, q) ==
  /\ Valid(q)
  /\ IF p = NoPrep THEN Revision(q) = 0
     ELSE /\ p.candidate => q.candidate
          /\ p.startup # 0 => q.startup = p.startup
          /\ Captured(p) => q.capture = p.capture
          /\ p.abort # "none" => q.abort # "none" /\ q.capture = p.capture
          /\ q = p \/ Revision(q) = Revision(p) + 1

\* save_preparation: compare and swap of the file, refused once a transition
\* owns the installation.
SavePreparation(next) ==
  /\ plan = NoCapture /\ Follows(prep, next)
  /\ prep' = next /\ UNCHANGED plan

(***************************************************************************)
(* What the executor observes.                                             *)
(***************************************************************************)
\* quiescence::classify: no process, no job, no automatic restart pending.
Quiescent(s) == unit[s].state \in {"inactive", "failed"}

\* assert_candidate_stopped.
CandidateStopped == \A s \in Service : Quiescent(s)

\* Installed::capture and capture_partial: the invocations of the services
\* that run, 0 for one that is proved absent.
Observable == \A s \in Service : unit[s].state = "running" \/ Quiescent(s)
Observed == [s \in Service |-> IF unit[s].state = "running" THEN unit[s].invocation ELSE 0]

\* intent.observes_previous and the proxy of the intent.
Retained == retained /\ ~booted

\* material::fingerprint.
Fingerprint == 1 + edits

\* CandidateStartup::accepts_observation.
AcceptsObservation == prep.startup = Fingerprint /\ inBudget /\ ~booted

\* validate_binding: the job is the record's, and its slot is complete.
ValidBinding == task = "starting" /\ prep.candidate /\ registered /\ written

\* Installed::verify.
InstalledVerified == ValidBinding /\ Retained

\* startup::guard: still owner, same material, same old slot, within budget.
Guard == prep.abort = "none" /\ plan = NoCapture /\ InstalledVerified /\ AcceptsObservation

\* permits_handoff.
PermitsHandoff(c) ==
  /\ prep # NoPrep /\ prep.abort = "none" /\ Captured(prep)
  /\ prep.capture = c

\* retained_guard.
RetainedGuard ==
  /\ plan = NoCapture /\ Retained
  /\ task \in (IF prep.abort = "complete" THEN {"starting", "failed", "archived"} ELSE {"starting"})

\* assert_absent: what was not captured has not appeared since.
Absent(p) == \A s \in Service : p.capture[s] = 0 => Quiescent(s)

\* assert_finalized and assert_finalized_candidate_inactive.
FinalizedInactive(p) ==
  \A s \in Service : Quiescent(s) /\ (unit[s].state = "inactive" \/ p.capture[s] = 0)

\* candidate_guard and partial::guard, for the record p.
CandidateGuard(p) ==
  IF Captured(p)
  THEN CASE p.abort \in {"captured", "claimed"} -> Observable /\ Observed = p.capture
         [] p.abort = "retiring" -> Absent(p)
         [] p.abort \in {"finalizing", "complete"} -> FinalizedInactive(p)
  ELSE p.startup = 0 /\ CandidateStopped

(***************************************************************************)
(* Preparing the slot.  Continue takes the step and leaves the rest alone. *)
(***************************************************************************)
At(s) == step = s
Continue(s) == step' = s /\ UNCHANGED <<pass, seen>>
OnlyRecord(s) == Continue(s) /\ UNCHANGED <<unit, installed, around, inBudget>>

\* online::preflight: no record of another upgrade is left.
Preflight == prep = NoPrep /\ plan = NoCapture

\* online::execute of the maintenance executor, after staging: the job says
\* that a slot may be changed before anything is.
Execute ==
  /\ At("off") /\ task = "staging" /\ Preflight
  /\ task' = "starting" /\ step' = "prepare" /\ pass' = "execute"
  /\ UNCHANGED <<record, unit, registered, written, around, inBudget, seen>>

\* run_existing and run_prepared of the next executor.
RunNext ==
  /\ At("off") /\ prep # NoPrep
  /\ step' = IF plan # NoCapture THEN "archive"
             ELSE IF prep.abort # "none" THEN "abort" ELSE "prepare"
  /\ pass' = "resume"
  /\ UNCHANGED <<record, unit, installed, around, inBudget, seen>>

\* prepare_if_supported and online::resume: a recorded startup is never
\* prepared again.
PrepareIfSupported ==
  /\ At("prepare") /\ task = "starting"
  /\ IF prep # NoPrep /\ prep.startup # 0 THEN OnlyRecord("guard")
     ELSE CandidateStopped /\ OnlyRecord("begin")
  /\ UNCHANGED record

\* online::begin up to the intent.
Begin ==
  /\ At("begin") /\ plan = NoCapture
  /\ IF prep = NoPrep
     THEN /\ SavePreparation([NoPrep EXCEPT !.abort = "none"])
          /\ retained' = TRUE /\ booted' = FALSE
     ELSE /\ prep.abort = "none" /\ prep.startup = 0 /\ Retained
          /\ UNCHANGED <<record, retained, booted>>
  /\ Continue("stage") /\ UNCHANGED <<unit, installed, edits, inBudget>>

\* staging::stage, and the directories of the slot.
Stage == At("stage") /\ CandidateStopped /\ OnlyRecord("provision") /\ UNCHANGED record

\* prepare-local-runner-slot: the identity is registered once per job.
ProvisionIdentity ==
  /\ At("provision") /\ registered' = TRUE
  /\ Continue("material") /\ UNCHANGED <<record, unit, task, written, around, inBudget>>

\* Task keys, identity, runner environment and the runner's preflight.
WriteRunnerMaterial == At("material") /\ OnlyRecord("token") /\ UNCHANGED record

\* The runtime token, kept if there is one, and Control's environment.
WriteControlMaterial ==
  /\ At("token") /\ written' = TRUE
  /\ Continue("finish") /\ UNCHANGED <<record, unit, task, registered, around, inBudget>>

\* Preparation::finish.
Provisioned ==
  /\ At("finish")
  /\ SavePreparation([prep EXCEPT !.candidate = TRUE])
  /\ OnlyRecord("starting")

Starting ==
  /\ At("starting") /\ Retained
  /\ SavePreparation([prep EXCEPT !.startup = Fingerprint])
  /\ inBudget' = TRUE
  /\ Continue("guard") /\ UNCHANGED <<unit, installed, around>>

(***************************************************************************)
(* startup::drive.                                                         *)
(***************************************************************************)
Drive ==
  /\ At("guard") /\ Guard
  /\ OnlyRecord(IF Captured(prep) THEN "observe" ELSE "enable") /\ UNCHANGED record

DispatchEnable ==
  /\ At("enable") /\ Guard
  /\ unit' = [s \in Service |-> [unit[s] EXCEPT !.enabled = TRUE]]
  /\ Continue("start") /\ UNCHANGED <<record, installed, around, inBudget>>

\* systemd: a service that is started gets an invocation of its own.
Launched(u) == [u EXCEPT !.state = "activating", !.invocation = @ + 1]

DispatchStart ==
  /\ At("start") /\ Guard
  /\ \A s \in Service : Quiescent(s) => unit[s].invocation < MaxInvocation
  /\ unit' = [s \in Service |-> IF Quiescent(s) THEN Launched(unit[s]) ELSE unit[s]]
  /\ Continue("observe") /\ UNCHANGED <<record, installed, around, inBudget>>

ObserveActivation ==
  /\ At("observe") /\ Guard
  /\ Complete(Observed)
  /\ seen' = Observed /\ step' = "confirm"
  /\ UNCHANGED <<record, unit, installed, around, inBudget, pass>>

\* What follows the startup in online::execute and prepared::resume.
AfterStartup ==
  CASE pass = "execute" -> <<"prepare", "resume">>
    [] pass = "resume" -> <<"guard", "reconcile">>
    [] pass = "reconcile" -> <<"plan", "reconcile">>
    [] pass = "recheck" -> <<"handoff", "recheck">>

\* The second look, and PreparationJournal::started.
ConfirmActivation ==
  /\ At("confirm") /\ Guard
  /\ Complete(Observed) /\ Observed = seen
  /\ IF Captured(prep) THEN prep.capture = seen /\ UNCHANGED record
     ELSE SavePreparation([prep EXCEPT !.capture = seen])
  /\ step' = AfterStartup[1] /\ pass' = AfterStartup[2] /\ seen' = NoCapture
  /\ UNCHANGED <<unit, installed, around, inBudget>>

\* observe_plan of prepared::resume.
ObservePlan ==
  /\ At("plan") /\ Retained /\ AcceptsObservation /\ PermitsHandoff(Observed)
  /\ step' = "guard" /\ pass' = "recheck"
  /\ UNCHANGED <<record, unit, installed, around, inBudget, seen>>

\* prepared::handoff: the transition first, then the preparation.
Handoff ==
  /\ At("handoff") /\ plan = NoCapture /\ inBudget
  /\ PermitsHandoff(prep.capture)
  /\ plan' = prep.capture
  /\ OnlyRecord("archive") /\ UNCHANGED prep

\* archive_preparation, also as run_existing finds both records.
ArchivePreparation ==
  /\ At("archive") /\ PermitsHandoff(plan) /\ ~booted
  /\ prep' = NoPrep
  /\ OnlyRecord("off") /\ UNCHANGED plan

(***************************************************************************)
(* Cancellation.                                                           *)
(***************************************************************************)
\* claim, first look: what has been started without being pinned is captured,
\* complete or in part.
ClaimObserves ==
  /\ At("claim") /\ prep # NoPrep /\ prep.abort = "none" /\ RetainedGuard
  /\ IF prep.startup = 0 \/ Captured(prep) THEN seen' = prep.capture
     ELSE prep.startup = Fingerprint /\ Observable /\ seen' = Observed
  /\ step' = "claim2"
  /\ UNCHANGED <<record, unit, installed, around, inBudget, pass>>

\* aborting, cancel_observed_startup and cancel_partial_startup.
Cancelled ==
  IF prep.startup = 0 \/ Captured(prep) THEN [prep EXCEPT !.abort = "claimed"]
  ELSE [prep EXCEPT !.capture = seen, !.abort = "captured"]

\* claim, second look and the irreversible choice.
ClaimSaves ==
  /\ At("claim2") /\ RetainedGuard
  /\ prep.startup # 0 /\ ~Captured(prep) =>
       prep.startup = Fingerprint /\ Observable /\ Observed = seen
  /\ CandidateGuard(Cancelled)
  /\ SavePreparation(Cancelled)
  /\ step' = "abort" /\ seen' = NoCapture
  /\ UNCHANGED <<unit, installed, around, inBudget, pass>>

Aborting(phase) == At("abort") /\ prep.abort = phase /\ RetainedGuard /\ CandidateGuard(prep)

\* advance_abort, retiring_candidate and retiring_partial_candidate.
AbortAdvances ==
  \/ /\ Aborting("captured")
     /\ SavePreparation([prep EXCEPT !.abort = "claimed"])
     /\ OnlyRecord("abort")
  \/ /\ Aborting("claimed")
     /\ SavePreparation([prep EXCEPT !.abort = IF Captured(prep) THEN "retiring" ELSE "finalizing"])
     /\ OnlyRecord("abort")

\* A pinned service: observed as the same invocation, or as its clean exit.
Pinned(s) == unit[s].invocation = prep.capture[s]
Exited(s) == prep.capture[s] = 0 \/ (unit[s].state = "inactive" /\ Pinned(s))

\* retire_control, then retire_pinned for the runner: a command only to the
\* captured invocation, the runner's only after the exit of Control.
RetireService(s) ==
  /\ Aborting("retiring")
  /\ s = "runner" => Exited("control")
  /\ prep.capture[s] # 0 /\ Pinned(s) /\ unit[s].state = "running"
  /\ unit' = [unit EXCEPT ![s].state = "stopping"]
  /\ Continue("abort") /\ UNCHANGED <<record, installed, around, inBudget>>

CandidateRetired ==
  /\ Aborting("retiring") /\ \A s \in Service : Exited(s)
  /\ SavePreparation([prep EXCEPT !.abort = "finalizing"])
  /\ OnlyRecord("abort")

\* candidate_disable_units: whatever was captured of them.
DisableUnits_Captured == {s \in Service : Captured(prep) /\ prep.capture[s] # 0}
DisableUnits == Service

DisableCandidate ==
  /\ Aborting("finalizing")
  /\ unit' = [s \in Service |-> [unit[s] EXCEPT !.enabled = @ /\ s \notin DisableUnits]]
  /\ Continue("audit") /\ UNCHANGED <<record, installed, around, inBudget>>

\* failed_job_audit, and the last phase.
AuditFailure ==
  /\ At("audit")
  /\ SavePreparation([prep EXCEPT !.abort = "complete"])
  /\ OnlyRecord("abort")

\* The job is failed while it is in the queue; complete_job settles the runner
\* in the database before it moves the job.
FailTask ==
  /\ Aborting("complete") /\ task = "starting"
  /\ task' = "failed"
  /\ Continue("abort") /\ UNCHANGED <<record, unit, registered, written, around, inBudget>>

FinalizeRunner ==
  /\ Aborting("complete") /\ task = "failed" /\ registered
  /\ CandidateStopped
  /\ registered' = FALSE
  /\ Continue("abort") /\ UNCHANGED <<record, unit, task, written, around, inBudget>>

ArchiveTask ==
  /\ Aborting("complete") /\ task = "failed" /\ ~registered
  /\ task' = "archived" /\ written' = FALSE
  /\ Continue("abort") /\ UNCHANGED <<record, unit, registered, around, inBudget>>

\* archive_cancelled_preparation: the history first, then the record.
ArchiveCancelled ==
  /\ Aborting("complete") /\ task = "archived"
  /\ prep' = NoPrep
  /\ OnlyRecord("off") /\ UNCHANGED plan

(***************************************************************************)
(* Failures and the rest of the machine.                                   *)
(***************************************************************************)
\* A check or a call fails: run_prepared tries to cancel, online::execute
\* leaves the job as it is, a cancellation keeps its record.
PreparationFails ==
  /\ step # "off"
  /\ step' = IF pass # "execute" /\ step \notin {"claim", "claim2", "abort", "audit"}
             THEN "claim" ELSE "off"
  /\ seen' = NoCapture
  /\ UNCHANGED <<record, unit, installed, around, inBudget, pass>>

\* The executor is killed.
PreparationDies ==
  /\ step # "off" /\ step' = "off" /\ seen' = NoCapture
  /\ UNCHANGED <<record, unit, installed, around, inBudget, pass>>

ExecutorIdle == UNCHANGED <<record, installed, inBudget, step, pass, seen>>

ServiceUp(s) ==
  /\ unit[s].state = "activating" /\ unit' = [unit EXCEPT ![s].state = "running"]
  /\ ExecutorIdle /\ UNCHANGED around

ServiceExits(s) ==
  /\ unit[s].state = "stopping" /\ unit' = [unit EXCEPT ![s].state = "inactive"]
  /\ ExecutorIdle /\ UNCHANGED around

\* Restart=on-failure, until the start limit.
ServiceCrashes(s) ==
  /\ unit[s].state \in {"activating", "running", "stopping"}
  /\ \/ unit' = [unit EXCEPT ![s].state = "failed"]
     \/ unit[s].invocation < MaxInvocation /\ unit' = [unit EXCEPT ![s] = Launched(@)]
  /\ ExecutorIdle /\ UNCHANGED around

\* The old slot is restarted or its admission changed, or the proxy edited.
PreviousChanges ==
  /\ prep # NoPrep /\ retained /\ retained' = FALSE
  /\ ExecutorIdle /\ UNCHANGED <<unit, edits, booted>>

EnvironmentEdited ==
  /\ edits = 0 /\ edits' = 1
  /\ ExecutorIdle /\ UNCHANGED <<unit, retained, booted>>

BudgetElapses ==
  /\ prep.startup # 0 /\ inBudget /\ inBudget' = FALSE
  /\ UNCHANGED <<record, unit, installed, around, step, pass, seen>>

\* Enabled units start again, with new invocations.
MachineReboots ==
  /\ ~booted /\ booted' = TRUE /\ step' = "off" /\ seen' = NoCapture
  /\ \A s \in Service : unit[s].enabled => unit[s].invocation < MaxInvocation
  /\ unit' = [s \in Service |-> IF unit[s].enabled THEN Launched(unit[s])
                                ELSE [unit[s] EXCEPT !.state = "inactive"]]
  /\ UNCHANGED <<record, installed, edits, retained, inBudget, pass>>

PreparationNext ==
  \/ Execute \/ RunNext \/ PrepareIfSupported \/ Begin \/ Stage \/ ProvisionIdentity
  \/ WriteRunnerMaterial \/ WriteControlMaterial \/ Provisioned \/ Starting
  \/ Drive \/ DispatchEnable \/ DispatchStart \/ ObserveActivation \/ ConfirmActivation
  \/ ObservePlan \/ Handoff \/ ArchivePreparation
  \/ ClaimObserves \/ ClaimSaves \/ AbortAdvances
  \/ CandidateRetired \/ DisableCandidate \/ AuditFailure
  \/ FailTask \/ FinalizeRunner \/ ArchiveTask \/ ArchiveCancelled
  \/ PreparationFails \/ PreparationDies
  \/ \E s \in Service : \/ RetireService(s) \/ ServiceUp(s)
                        \/ ServiceExits(s) \/ ServiceCrashes(s)
  \/ PreviousChanges \/ EnvironmentEdited \/ BudgetElapses \/ MachineReboots

PreparationSpec == PreparationInit /\ [][PreparationNext]_prepVars

(***************************************************************************)
(* Properties.                                                             *)
(***************************************************************************)
\* Nothing of a candidate is left without a record that owns it: a service
\* that runs or would start at the next boot, and a runner identity in the
\* database, belong to a preparation or to a transition; the job is archived
\* as failed only when both services are down for good; a transition takes
\* over exactly the invocations that were captured; and a cancellation stops
\* no process but the one it captured, whatever crashed or restarted since.
NoOrphanCandidate ==
  /\ prep = NoPrep /\ plan = NoCapture =>
       /\ ~registered
       /\ \A s \in Service : ~unit[s].enabled /\ unit[s].state \in {"inactive", "failed"}
  /\ task = "archived" =>
       /\ ~registered /\ plan = NoCapture
       /\ \A s \in Service : ~unit[s].enabled /\ unit[s].state \in {"inactive", "failed"}
  /\ plan # NoCapture => Complete(plan) /\ (prep = NoPrep \/ PermitsHandoff(plan))
  /\ \A s \in Service : unit[s].state = "stopping" =>
       prep.abort = "retiring" /\ Pinned(s)
==============================================================================
