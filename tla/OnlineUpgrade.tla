---------------------------- MODULE OnlineUpgrade ----------------------------
(***************************************************************************)
(* The cutover of an installation from the slot of its previous release to *)
(* the slot of a candidate, and the way back: crates/upgrade-core/src/     *)
(* online.rs, online/switchback.rs and retirement.rs with the adapters of  *)
(* cli/src (online_deployment, online_journal, online_commit,              *)
(* proxy_client, runner_process).                                          *)
(*                                                                         *)
(* One executor at a time holds the lock of the installation.  It observes *)
(* proxy and processes, issues at most one command, and writes the journal *)
(* of the step; it can die before or after each of these, and any call may *)
(* fail with or without effect.  The journals, the processes and the two   *)
(* proxy configurations (live and on disk) outlive it.  A process is named *)
(* by the invocation the plan pinned; one that took its place is           *)
(* "replaced".  Revisions count from what the plan pinned as 0.  The       *)
(* observations of one step are taken together.                            *)
(***************************************************************************)
EXTENDS Naturals

VARIABLES
  slot,      \* the pinned Control process of each slot, and its local Runner
  live,      \* the slot of the running proxy configuration
  disk,      \* the slot of the proxy configuration on disk
  forward,   \* the phase of online-transition.json, or what became of it
  back,      \* the phase of online-switchback.json, "none" if there is none
  wasOpen,   \* plan of back: the previous slot accepted when it was claimed
  history,   \* whether the switchback is in switchback-completed
  active,    \* the slot of active_slot, the commit point
  job,       \* the maintenance job that asked for the upgrade
  elapsed,   \* which of the time limits have passed
  sameBoot,  \* whether the machine has not been rebooted
  pc,        \* the step of the executor
  intent     \* the phase the executor saves next

journals == <<forward, back, wasOpen, history>>
proxy == <<live, disk>>
outcome == <<active, job>>
clock == <<elapsed, sameBoot>>
executor == <<pc, intent>>
upgradeVars == <<slot, live, disk, forward, back, wasOpen, history, active, job,
          elapsed, sameBoot, pc, intent>>

Side == {"previous", "candidate"}
Limit == {"window", "budget", "backWindow", "backBudget"}
ForwardPhase == {"opening", "switching", "closing", "draining", "exhausted",
                 "retiring", "committing", "complete"}
BackPhase == {"preparing", "switchingBack", "closingCandidate",
              "drainingCandidate", "exhausted", "retiringCandidate",
              "committingPrevious", "complete"}
Reversible == {"switching", "closing", "draining", "exhausted"}

UpgradeTypeOK ==
  /\ slot \in [Side -> [mode : {"running", "stopping", "exited", "replaced"},
                        accepting : BOOLEAN, revision : 0..3, work : BOOLEAN,
                        runner : {"running", "stopping", "exited"}]]
  /\ live \in Side /\ disk \in Side
  /\ forward \in ForwardPhase \cup {"archived", "gone"}
  /\ back \in BackPhase \cup {"none"}
  /\ wasOpen \in BOOLEAN /\ history \in BOOLEAN
  /\ active \in Side /\ job \in {"running", "succeeded", "failed"}
  /\ elapsed \subseteq Limit /\ sameBoot \in BOOLEAN
  /\ pc \in {"off", "advance", "command", "post", "save", "claim"}
  /\ intent \in ForwardPhase \cup BackPhase \cup {"none"}

\* OnlineJournal::create: the plan pins an open previous slot and a candidate
\* that started closed.
UpgradeInit ==
  /\ slot = [s \in Side |-> [mode |-> "running", accepting |-> s = "previous",
                             revision |-> 0, work |-> FALSE, runner |-> "running"]]
  /\ live = "previous" /\ disk = "previous"
  /\ forward = "opening" /\ back = "none" /\ wasOpen = FALSE /\ history = FALSE
  /\ active = "previous" /\ job = "running"
  /\ elapsed = {} /\ sameBoot = TRUE
  /\ pc = "off" /\ intent = "none"

(***************************************************************************)
(* What the executor compares.                                             *)
(***************************************************************************)
\* unchanged_admission, changed_admission and observes_drain: the pinned
\* process, not stopping, with this revision and admission.
Shows(s, revision, accepting) ==
  /\ slot[s].mode = "running"
  /\ slot[s].revision = revision /\ slot[s].accepting = accepting

\* OnlineJournal::accepts_proxy, for the live and the disk configuration.
ForwardProxy ==
  <<live, disk>> \in
    CASE forward = "opening" -> {<<"previous", "previous">>}
      [] forward = "switching" ->
           {<<"previous", "previous">>, <<"previous", "candidate">>, <<"candidate", "candidate">>}
      [] OTHER -> {<<"candidate", "candidate">>}

\* SwitchbackJournal::accepts_proxy.
BackProxy ==
  <<live, disk>> \in
    CASE back = "preparing" -> {<<"candidate", "candidate">>}
      [] back = "switchingBack" ->
           {<<"candidate", "candidate">>, <<"candidate", "previous">>, <<"previous", "previous">>}
      [] OTHER -> {<<"previous", "previous">>}

\* The checks of OnlineJournal::advance before it looks at the phase.
ForwardObserves(phase) ==
  /\ pc = "advance" /\ back = "none" /\ forward = phase
  /\ sameBoot /\ ForwardProxy
  /\ IF phase = "opening" THEN slot["candidate"].mode = "running"
                          ELSE Shows("candidate", 1, TRUE)

\* The revision of the previous slot after SwitchbackPhase::PreparingPrevious.
OpenedBack == IF wasOpen THEN 0 ELSE 2

\* The checks of SwitchbackJournal::advance before it looks at the phase.
BackObserves(phase) ==
  /\ pc = "advance" /\ back = phase
  /\ sameBoot /\ BackProxy
  /\ IF phase = "preparing" THEN slot["previous"].mode = "running"
                            ELSE Shows("previous", OpenedBack, TRUE)

Checkpoint(phase) == pc' = "save" /\ intent' = phase
Command(phase) == pc' = "command" /\ intent' = phase
Observed == UNCHANGED <<slot, proxy, journals, outcome, clock>>

(***************************************************************************)
(* run_existing.                                                           *)
(***************************************************************************)
\* A switchback is loaded with its frozen original, or with its history if
\* that has been removed.  A forward journal whose release no longer fits the
\* command line tool goes straight to claim.
Start ==
  /\ pc = "off"
  /\ \/ /\ back # "none" /\ (forward # "gone" \/ (back = "complete" /\ history))
        /\ back = "complete" => BackProxy
        /\ pc' = "advance"
     \/ /\ back = "none" /\ forward \in ForwardPhase
        /\ IF forward = "complete" THEN pc' = "advance"
           ELSE /\ sameBoot /\ slot["candidate"].runner = "running"
                /\ pc' \in {"advance", "claim"}
  /\ UNCHANGED intent /\ Observed

\* A failed check or call.  A forward executor tries to claim a switchback, a
\* reverse one gives up until the next start.
Failed == IF back = "none" THEN "claim" ELSE "off"

StepFails ==
  /\ pc \in {"advance", "command", "post"}
  /\ pc' = Failed
  /\ intent' = "none" /\ Observed

ExecutorDies ==
  /\ pc # "off" /\ pc' = "off" /\ intent' = "none" /\ Observed

(***************************************************************************)
(* OnlineJournal::advance: one observation, then a command or a            *)
(* checkpoint.  What an earlier attempt may already have done is           *)
(* recognised by its revision.  While work or an exit is waited for there  *)
(* is no step.                                                             *)
(***************************************************************************)
OpeningCandidate ==
  /\ ForwardObserves("opening") /\ Shows("previous", 0, TRUE)
  /\ \/ Shows("candidate", 1, TRUE) /\ Checkpoint("switching")
     \/ Shows("candidate", 0, FALSE) /\ Command("switching")
  /\ Observed

SwitchingTraffic ==
  /\ ForwardObserves("switching") /\ "window" \notin elapsed
  /\ \/ live = "candidate" /\ Checkpoint("closing")
     \/ live = "previous" /\ Shows("previous", 0, TRUE) /\ Command("closing")
  /\ Observed

ClosingPrevious ==
  /\ ForwardObserves("closing")
  /\ \/ Shows("previous", 1, FALSE) /\ Checkpoint("draining")
     \/ Shows("previous", 0, TRUE) /\ "window" \notin elapsed /\ Command("draining")
  /\ Observed

\* The budget is looked at first: a drain seen too late does not count.
DrainingPrevious ==
  /\ ForwardObserves("draining") /\ Shows("previous", 1, FALSE)
  /\ IF "budget" \in elapsed THEN Checkpoint("exhausted")
     ELSE ~slot["previous"].work /\ Checkpoint("retiring")
  /\ Observed

\* retire_control and the Runner of the slot, in the direction of either
\* journal.
Retiring(s, revision, phase) ==
  \/ slot[s].mode = "exited" /\ slot[s].runner = "exited" /\ Checkpoint(phase)
  \/ slot[s].mode = "exited" /\ slot[s].runner = "running" /\ Command(phase)
  \/ Shows(s, revision, FALSE) /\ ~slot[s].work /\ Command(phase)

RetiringPrevious ==
  ForwardObserves("retiring") /\ Retiring("previous", 1, "committing") /\ Observed

Committing ==
  ForwardObserves("committing") /\ Command("complete") /\ Observed

DrainBudgetExhausted ==
  /\ pc = "advance" /\ back = "none" /\ forward = "exhausted"
  /\ pc' = "claim" /\ UNCHANGED intent /\ Observed

(***************************************************************************)
(* SwitchbackJournal::advance.                                             *)
(***************************************************************************)
\* Mistake: an opening whose reply was lost is not recognised.
PreparingPrevious_NoReconcile ==
  /\ BackObserves("preparing")
  /\ \/ wasOpen /\ Shows("previous", 0, TRUE) /\ Checkpoint("switchingBack")
     \/ ~wasOpen /\ Shows("previous", 1, FALSE) /\ Command("switchingBack")
  /\ Observed

PreparingPrevious ==
  /\ BackObserves("preparing")
  /\ \/ Shows("previous", OpenedBack, TRUE) /\ Checkpoint("switchingBack")
     \/ ~wasOpen /\ Shows("previous", 1, FALSE) /\ Command("switchingBack")
  /\ Observed

SwitchingBack ==
  /\ BackObserves("switchingBack") /\ "backWindow" \notin elapsed
  /\ IF live = "previous" THEN Checkpoint("closingCandidate")
                          ELSE Command("closingCandidate")
  /\ Observed

ClosingCandidate ==
  /\ BackObserves("closingCandidate")
  /\ \/ Shows("candidate", 2, FALSE) /\ Checkpoint("drainingCandidate")
     \/ /\ Shows("candidate", 1, TRUE) /\ "backWindow" \notin elapsed
        /\ Command("drainingCandidate")
  /\ Observed

DrainingCandidate ==
  /\ BackObserves("drainingCandidate") /\ Shows("candidate", 2, FALSE)
  /\ IF "backBudget" \in elapsed THEN Checkpoint("exhausted")
     ELSE ~slot["candidate"].work /\ Checkpoint("retiringCandidate")
  /\ Observed

RetiringCandidate ==
  /\ BackObserves("retiringCandidate")
  /\ Retiring("candidate", 2, "committingPrevious")
  /\ Observed

\* commit_previous disables the units of the candidate and enters the failure
\* in the audit log; the pointers were never moved.
CommittingPrevious ==
  /\ BackObserves("committingPrevious") /\ active = "previous"
  /\ Checkpoint("complete")
  /\ Observed

SwitchbackExhausted ==
  /\ pc = "advance" /\ back = "exhausted"
  /\ pc' = "off" /\ UNCHANGED intent /\ Observed

(***************************************************************************)
(* The commands.  A call is applied or not, and a reply may be lost.       *)
(***************************************************************************)
\* The step goes on to its checkpoint, or fails.
Reply(ok, next) ==
  /\ pc' = IF ok THEN next ELSE Failed
  /\ intent' = IF ok THEN intent ELSE "none"

\* Mistake: the way back closes the same slot as the way forward.
AdmissionTarget_ForwardOnly ==
  IF forward = "opening" THEN "candidate" ELSE "previous"

\* The slot whose admission the phase changes.
AdmissionTarget ==
  IF forward = "opening" \/ back = "closingCandidate" THEN "candidate" ELSE "previous"

\* open_admission and close_admission: the process compares invocation and
\* revision.
CommandAdmission(applied, ok) ==
  LET s == AdmissionTarget IN
  /\ pc = "command"
  /\ IF back = "none" THEN forward \in {"opening", "closing"}
                      ELSE back \in {"preparing", "closingCandidate"}
  /\ applied => slot[s].mode = "running"
  /\ slot' = IF applied THEN [slot EXCEPT ![s].accepting = ~@, ![s].revision = @ + 1]
                        ELSE slot
  /\ Reply(ok, "save")
  /\ UNCHANGED <<proxy, journals, outcome, clock>>

\* CaddyClient::switch_to: the configuration on disk first.
SwitchTarget == IF back = "none" THEN "candidate" ELSE "previous"
Switching == IF back = "none" THEN forward = "switching" ELSE back = "switchingBack"

\* Mistake: the running proxy is switched before the configuration on disk.
SwitchDisk_LiveFirst(applied, ok) ==
  /\ pc = "command" /\ Switching
  /\ live' = IF applied THEN SwitchTarget ELSE live
  /\ Reply(ok, "save")
  /\ UNCHANGED <<slot, disk, journals, outcome, clock>>

SwitchDisk(applied, ok) ==
  /\ pc = "command" /\ Switching
  /\ disk' = IF applied THEN SwitchTarget ELSE disk
  /\ Reply(ok, "post")
  /\ UNCHANGED <<slot, live, journals, outcome, clock>>

\* Then the running proxy, if its configuration is still the observed one.
\* The forward step sees the pinned candidate behind it before it goes on.
SwitchLive(applied, ok) ==
  /\ pc = "post"
  /\ applied => live # SwitchTarget
  /\ live' = IF applied THEN SwitchTarget ELSE live
  /\ ok /\ back = "none" => slot["candidate"].mode = "running"
  /\ Reply(ok, "save")
  /\ UNCHANGED <<slot, disk, journals, outcome, clock>>

\* The loser of the cutover: retire_drained of its Control, then the interrupt
\* of its Runner.  A reply proves nothing: the next round observes the exit.
RetireTarget == IF back = "none" THEN "previous" ELSE "candidate"
RetirePhase == IF back = "none" THEN forward = "retiring" ELSE back = "retiringCandidate"

RetireControl(applied, ok) ==
  LET s == RetireTarget IN
  /\ pc = "command" /\ RetirePhase /\ slot[s].mode # "exited"
  /\ applied => slot[s].mode = "running" /\ ~slot[s].accepting /\ ~slot[s].work
  /\ slot' = IF applied THEN [slot EXCEPT ![s].mode = "stopping", ![s].revision = @ + 1]
                        ELSE slot
  /\ pc' \in {Failed} \cup (IF applied THEN {"advance"} ELSE {})
  /\ ok => pc' = "advance"
  /\ intent' = "none"
  /\ UNCHANGED <<proxy, journals, outcome, clock>>

RetireRunner(applied, ok) ==
  LET s == RetireTarget IN
  /\ pc = "command" /\ RetirePhase /\ slot[s].mode = "exited"
  /\ slot[SwitchTarget].runner = "running"
  /\ slot' = IF applied THEN [slot EXCEPT ![s].runner = "stopping"] ELSE slot
  /\ pc' = IF ok THEN "advance" ELSE Failed
  /\ intent' = "none"
  /\ UNCHANGED <<proxy, journals, outcome, clock>>

\* online_commit::commit, whose last effect is the pointer to the active slot.
Commit(applied, ok) ==
  /\ pc = "command" /\ back = "none" /\ forward = "committing"
  /\ ForwardProxy /\ slot["candidate"].mode = "running"
  /\ active' = IF applied THEN "candidate" ELSE active
  /\ Reply(ok, "save")
  /\ UNCHANGED <<slot, proxy, journals, job, clock>>

Commands(applied, ok) ==
  /\ ok => applied
  /\ \/ CommandAdmission(applied, ok)
     \/ SwitchDisk(applied, ok)
     \/ SwitchLive(applied, ok)
     \/ RetireControl(applied, ok)
     \/ RetireRunner(applied, ok)
     \/ Commit(applied, ok)

(***************************************************************************)
(* The journals.                                                           *)
(***************************************************************************)
\* switchback::claim reloads the forward journal and takes over while traffic
\* is on a healthy candidate and the previous slot can be opened again.
Claim ==
  /\ pc = "claim" /\ forward \in Reversible
  /\ sameBoot /\ ForwardProxy /\ live = "candidate"
  /\ Shows("candidate", 1, TRUE)
  /\ \/ Shows("previous", 1, FALSE)
     \/ Shows("previous", 0, TRUE) /\ forward \in {"switching", "closing"}
  /\ \A s \in Side : slot[s].runner = "running"
  /\ wasOpen' = slot["previous"].accepting
  /\ Checkpoint("preparing")
  /\ UNCHANGED <<slot, proxy, forward, back, history, outcome, clock>>

\* There is nothing to claim, or a check of claim fails.
ClaimRefused ==
  /\ pc = "claim" /\ pc' = "off" /\ UNCHANGED intent /\ Observed

\* JournalFile::save.  An error does not say whether the file was replaced.
SaveForward(written, ok) ==
  /\ pc = "save" /\ back = "none" /\ intent # "preparing"
  /\ forward' = IF written THEN intent ELSE forward
  /\ pc' = IF ok THEN "advance" ELSE "claim"
  /\ intent' = "none"
  /\ UNCHANGED <<slot, proxy, back, wasOpen, history, outcome, clock>>

SaveBack(written, ok) ==
  /\ pc = "save" /\ (back # "none" \/ intent = "preparing")
  /\ back' = IF written THEN intent ELSE back
  /\ pc' = IF ok THEN "advance" ELSE "off"
  /\ intent' = "none"
  /\ UNCHANGED <<slot, proxy, forward, wasOpen, history, outcome, clock>>

Save(written, ok) ==
  (ok => written) /\ (SaveForward(written, ok) \/ SaveBack(written, ok))

\* online_commit::finish completes the job, then archive renames the journal.
FinishForward ==
  /\ pc = "advance" /\ back = "none" /\ forward = "complete" /\ active = "candidate"
  /\ IF job = "running"
       THEN job' = "succeeded" /\ UNCHANGED <<forward, pc>>
       ELSE forward' = "archived" /\ pc' = "off" /\ UNCHANGED job
  /\ UNCHANGED <<slot, proxy, back, wasOpen, history, active, clock, intent>>

\* switchback commit::finish, then archive_switchback: the history, the frozen
\* original, and last the journal that keeps the original frozen.
FinishBack ==
  /\ pc = "advance" /\ back = "complete" /\ job = "running" /\ active = "previous"
  /\ job' = "failed"
  /\ UNCHANGED <<slot, proxy, journals, active, clock, executor>>

Archiving == pc = "advance" /\ back = "complete" /\ job = "failed"

WriteHistory ==
  /\ Archiving /\ ~history /\ history' = TRUE
  /\ UNCHANGED <<slot, proxy, forward, back, wasOpen, outcome, clock, executor>>

RemoveForward ==
  /\ Archiving /\ history /\ forward # "gone" /\ forward' = "gone"
  /\ UNCHANGED <<slot, proxy, back, wasOpen, history, outcome, clock, executor>>

\* Mistake: the reverse journal is removed before the original.
RemoveBack_First ==
  /\ Archiving /\ history
  /\ back' = "none" /\ pc' = "off"
  /\ UNCHANGED <<slot, proxy, forward, wasOpen, history, outcome, clock, intent>>

RemoveBack ==
  /\ Archiving /\ history /\ forward = "gone"
  /\ back' = "none" /\ pc' = "off"
  /\ UNCHANGED <<slot, proxy, forward, wasOpen, history, outcome, clock, intent>>

(***************************************************************************)
(* Slots, proxy and machine.                                               *)
(***************************************************************************)
Work(s) ==
  /\ IF slot[s].work THEN slot[s].mode = "running" ELSE Shows(s, slot[s].revision, TRUE)
  /\ slot' = [slot EXCEPT ![s].work = ~@]
  /\ UNCHANGED <<proxy, journals, outcome, clock, executor>>

Exits(s) ==
  /\ slot[s].mode = "stopping"
  /\ slot' = [slot EXCEPT ![s].mode = "exited"]
  /\ UNCHANGED <<proxy, journals, outcome, clock, executor>>

RunnerExits(s) ==
  /\ slot[s].runner = "stopping"
  /\ slot' = [slot EXCEPT ![s].runner = "exited"]
  /\ UNCHANGED <<proxy, journals, outcome, clock, executor>>

Replacement(s) ==
  [mode |-> "replaced", accepting |-> FALSE, revision |-> 0, work |-> FALSE,
   runner |-> slot[s].runner]

\* A Control that dies is started again by the service manager.
Replaced(s) ==
  /\ slot[s].mode \in {"running", "stopping"}
  /\ slot' = [slot EXCEPT ![s] = Replacement(s)]
  /\ UNCHANGED <<proxy, journals, outcome, clock, executor>>

ProxyRestarts ==
  /\ live # disk /\ live' = disk
  /\ UNCHANGED <<slot, disk, journals, outcome, clock, executor>>

\* Units that are still enabled start again, those of a retired slot too; a
\* disabled one is not told apart, nothing is concluded from a replaced process.
Reboot ==
  /\ sameBoot /\ sameBoot' = FALSE
  /\ slot' = [s \in Side |-> Replacement(s)]
  /\ live' = disk
  /\ pc' = "off" /\ intent' = "none"
  /\ UNCHANGED <<disk, journals, outcome, elapsed>>

\* cutover_deadline, switch_deadline and the two drain budgets: a limit runs
\* from the checkpoint that recorded its start.
Running ==
  (IF forward = "opening" THEN {} ELSE {"window"})
    \cup (IF forward \in {"opening", "switching"} THEN {} ELSE {"budget"})
    \cup (IF back \in {"none", "preparing"} THEN {} ELSE {"backWindow"})
    \cup (IF back \in {"none", "preparing", "switchingBack"} THEN {} ELSE {"backBudget"})

Elapse(limit) ==
  /\ limit \in Running \ elapsed
  /\ elapsed' = elapsed \cup {limit}
  /\ UNCHANGED <<slot, proxy, journals, outcome, sameBoot, executor>>

(***************************************************************************)
(* The specification.                                                      *)
(***************************************************************************)
ForwardStep ==
  \/ OpeningCandidate \/ SwitchingTraffic \/ ClosingPrevious \/ DrainingPrevious
  \/ RetiringPrevious \/ Committing \/ DrainBudgetExhausted
BackStep ==
  \/ PreparingPrevious \/ SwitchingBack \/ ClosingCandidate \/ DrainingCandidate
  \/ RetiringCandidate \/ CommittingPrevious \/ SwitchbackExhausted
Finish ==
  \/ FinishForward \/ FinishBack \/ WriteHistory \/ RemoveForward \/ RemoveBack

UpgradeNext ==
  \/ Start \/ StepFails \/ ExecutorDies
  \/ ForwardStep \/ BackStep \/ Finish
  \/ \E applied, ok \in BOOLEAN : Commands(applied, ok) \/ Save(applied, ok)
  \/ Claim \/ ClaimRefused
  \/ \E s \in Side : Work(s) \/ Exits(s) \/ RunnerExits(s) \/ Replaced(s)
  \/ ProxyRestarts \/ Reboot
  \/ \E limit \in Limit : Elapse(limit)

UpgradeSpec == UpgradeInit /\ [][UpgradeNext]_upgradeVars

\* The loop of run_existing polls a drain or an exit.
Waiting ==
  \/ slot[RetireTarget].mode = "stopping" \/ slot[RetireTarget].runner = "stopping"
  \/ /\ IF back = "none" THEN forward = "draining" /\ "budget" \notin elapsed
                          ELSE back = "drainingCandidate" /\ "backBudget" \notin elapsed
     /\ slot[RetireTarget].work

\* What an executor does with its next check, call or save if it succeeds.
Proceeds ==
  ForwardStep \/ BackStep \/ Finish \/ Commands(TRUE, TRUE) \/ Save(TRUE, TRUE)

\* The path unit starts the executor as long as the job is there, the executor
\* does not hang and is not killed at the same step for ever, calls do not fail
\* for ever, processes that stop end, and time passes.  Failing is fair only
\* where a check cannot succeed: it is then reported.
UpgradeFairness ==
  /\ SF_upgradeVars(StepFails /\ ~Waiting /\ ~ENABLED Proceeds) /\ WF_upgradeVars(ClaimRefused)
  /\ SF_upgradeVars(job = "running" /\ Start /\ pc' = "advance")
  /\ SF_upgradeVars(ForwardStep \/ BackStep) /\ SF_upgradeVars(Finish)
  /\ SF_upgradeVars(Commands(TRUE, TRUE)) /\ SF_upgradeVars(Save(TRUE, TRUE))
  /\ SF_upgradeVars(Claim)
  /\ \A s \in Side : WF_upgradeVars(Exits(s)) /\ WF_upgradeVars(RunnerExits(s))
  /\ \A limit \in Limit : WF_upgradeVars(Elapse(limit))

UpgradeFairSpec == UpgradeSpec /\ UpgradeFairness

(***************************************************************************)
(* Properties.                                                             *)
(***************************************************************************)
\* Requests meet an open slot, now and after a restart of the proxy: the slots
\* of the live and of the disk configuration are running and accepting,
\* through every lost reply and restart of the executor, unless the process
\* itself was replaced.
TrafficServed ==
  \A s \in {live, disk} : slot[s].mode # "replaced" =>
    slot[s].mode = "running" /\ slot[s].accepting

\* Whatever failed in between, the proxy is in a state that the journal on
\* disk accepts, so recovery is never refused for a mismatch that the executor
\* made itself ("live-new/disk-old is never a legitimate outcome").
JournalAcceptsProxy ==
  /\ back = "none" /\ forward \in ForwardPhase => ForwardProxy
  /\ back # "none" => BackProxy

\* An upgrade has one outcome: the job, the active slot, the proxy and the
\* archived journal agree on it, and once a switchback has been claimed its
\* original neither advances nor is left behind for a forward executor.
OneOutcome ==
  /\ job = "succeeded" => /\ forward \in {"complete", "archived"}
                          /\ active = "candidate" /\ live = "candidate" /\ disk = "candidate"
  /\ job = "failed" => /\ back = "complete" \/ forward = "gone"
                       /\ active = "previous" /\ live = "previous" /\ disk = "previous"
  /\ back # "none" \/ history => forward \in Reversible \cup {"gone"}
  /\ history /\ back = "none" => forward = "gone"
  /\ active = "candidate" => slot["previous"].mode \in {"exited", "replaced"}

\* Where the executor leaves both slots to the operator: a process or the
\* machine was replaced, a drain outlived the budget on the way back, or the
\* time for a switch ran out while traffic was where it had been.
Stranded ==
  \/ ~sameBoot \/ \E s \in Side : slot[s].mode = "replaced"
  \/ back = "exhausted"
  \/ forward = "switching" /\ back = "none" /\ live = "previous" /\ "window" \in elapsed
  \/ back \in {"switchingBack", "closingCandidate"} /\ "backWindow" \in elapsed

\* An upgrade an executor has taken up comes to its end or to one of those
\* cases: no lost reply, restart or exhausted budget makes it run in circles.
UpgradeEnds == (pc # "off") ~> (job # "running" \/ Stranded)
==============================================================================
