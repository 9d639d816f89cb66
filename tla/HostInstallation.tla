--------------------------- MODULE HostInstallation ---------------------------
(***************************************************************************)
(* The commands an operator runs on a Control host: init.sh (bootstrap),   *)
(* install, uninstall, backup create and restore, the commands that stop   *)
(* Control around one tool (license install, password reset) and service   *)
(* start and stop.  The commands are those of cli/src/main.rs together     *)
(* with the two engines they run, deploy/install.sh and                    *)
(* deploy/restore-backup.sh, on a Linux host with a local SQLCipher        *)
(* database.                                                               *)
(*                                                                         *)
(* The installation root is a tree of parts.  A part carries the           *)
(* installation it was created by (gen), the restore that put it there     *)
(* (src, 0 for none) and, for the parts a command other than an install    *)
(* writes, which of them did (ver).                                        *)
(* Several operators work at once; every file system or systemd command    *)
(* that can fail, an interrupted terminal, a killed process and a reboot   *)
(* are separate steps, MaxHostFaults of them in one behaviour.             *)
(***************************************************************************)
EXTENDS Naturals, Sequences, FiniteSets

CONSTANTS
  Operators,        \* terminals in which a command can run
  Installers,       \* operators that only run install: every other command holds the lock
                    \* from its first step to its last, so that one operator runs them all
  MaxGenerations,   \* installations ever started
  MaxRestores,      \* restores ever started
  MaxArchives,      \* archives ever published
  MaxHostFaults,    \* failures, interruptions, kills and reboots
  NoOne             \* the maintenance lock is free

ASSUME HostAssumption ==
  /\ NoOne \notin Operators /\ Installers \subseteq Operators
  /\ {MaxGenerations, MaxRestores, MaxArchives, MaxHostFaults} \subseteq Nat

\* The entries restore-backup.sh moves, in its order (logs and install.json left out).
Entries == <<"bin", "releases", "config", "data", "state", "current">>

\* The parts of each entry: "cli" the stable aster-team-cli, "release" the installed
\* release, "selected" the selected-release record, "settings" the environment and access
\* files, "keys" the task and database keys, "owner" the owner row of the database, "done"
\* the initialization-complete marker, "slot" active.json and its release link.
EntryOf ==
  [cli |-> "bin", release |-> "releases", selected |-> "config", settings |-> "config",
   role |-> "config", identity |-> "config", keys |-> "config", db |-> "data",
   owner |-> "data", done |-> "state", slot |-> "state", current |-> "current"]

Parts == DOMAIN EntryOf

Missing == [gen |-> 0, src |-> 0, ver |-> 0]

EmptyTree == [part \in Parts |-> Missing]

Services == {"control", "runner"}

VARIABLES
  live,        \* the tree below the installation root
  workspace,   \* staging/restores/restore.*: the trees prepared, previous and failed
  archives,    \* published archives: their tree, and whether Control could have been running
  units,       \* the unit files are registered with systemd
  running,     \* services systemd runs
  enabled,     \* services systemd starts at boot
  lock,        \* staging/maintenance.lock: the operator holding it
  op,          \* the command each operator runs
  counters,    \* installations, restores and faults so far
  kept,        \* installations with an owner that no operator purged
  apart        \* history: the services an unchecked stop passed over, and whether a command
               \* took a new lock file below a purge that was still deleting the root

hostVars ==
  <<live, workspace, archives, units, running, enabled, lock, op, counters, kept, apart>>

Idle == [cmd |-> "none", step |-> "none", at |-> 0, was |-> {}, token |-> Missing,
         copy |-> EmptyTree, force |-> FALSE, todo |-> {}]

NoWorkspace == [prepared |-> EmptyTree, previous |-> EmptyTree, failed |-> EmptyTree]

HostInit ==
  /\ live = EmptyTree /\ workspace = NoWorkspace /\ archives = {}
  /\ units = FALSE /\ running = {} /\ enabled = {}
  /\ lock = NoOne /\ op = [p \in Operators |-> Idle]
  /\ counters = [gen |-> 0, src |-> 0, faults |-> 0]
  /\ kept = {}
  /\ apart = [unstopped |-> {}, raced |-> FALSE]

-----------------------------------------------------------------------------
(* What the commands look at. *)

Has(tree, part) == tree[part] # Missing

\* The installed role marker names a Control host.
InstalledRole(tree) == Has(tree, "role")

\* The current link exists and leads to a release: exists() and canonicalize() follow it.
CurrentRelease(tree) == Has(tree, "current") /\ Has(tree, "release")

\* The selected-release record can be loaded: the release it names is still there.  A record
\* with ver 2 was written after an installation and names the installed release.
LoadSelectedRelease(tree) ==
  /\ Has(tree, "selected")
  /\ tree["selected"].ver = 2 => Has(tree, "release")

PreservedRequired == {"role", "settings", "identity", "keys", "db"}

\* Files whose presence means that an installation was here.
PreservedSentinels == PreservedRequired \cup {"done"}

\* What an install command finds: nothing, a complete installation, or the remains of one.
ClassifyPreserved(tree) ==
  IF \A part \in PreservedSentinels : ~Has(tree, part) THEN "fresh"
  ELSE IF \A part \in PreservedRequired : Has(tree, part) THEN "recoverable"
  ELSE "incomplete"

PreservedControlState(tree) ==
  IF ClassifyPreserved(tree) = "recoverable" /\ ~Has(tree, "done")
  THEN "incomplete" ELSE ClassifyPreserved(tree)

\* systemd can execute the Control of the active slot: its unit, the release behind the
\* slot link, the environment file, the machine profile and the data directory exist.
CanStart(tree, service) ==
  CASE service = "control" ->
         \A part \in {"slot", "release", "settings", "identity", "db"} : Has(tree, part)
    [] service = "runner" -> Has(tree, "current") /\ Has(tree, "release") /\ Has(tree, "keys")

Startable(tree, services) == {service \in services : CanStart(tree, service)}

\* A fault can still happen.
Faulty == counters.faults < MaxHostFaults

CountFault == counters' = [counters EXCEPT !.faults = @ + 1]

NoFault == UNCHANGED counters

Doing(p, cmd, step) == op[p].cmd = cmd /\ op[p].step = step

Goto(p, step) == op' = [op EXCEPT ![p].step = step, ![p].at = 1]

\* The command ends and its descriptor of the lock file is closed.
End(p) == op' = [op EXCEPT ![p] = Idle] /\ lock' = IF lock = p THEN NoOne ELSE lock

\* acquire_maintenance_lock: try_lock, and MAINTENANCE_BUSY when another holds it.
AcquireMaintenanceLock(p) == lock = NoOne /\ lock' = p

\* An operator can start a command.
Ready(p) == op[p] = Idle

\* An operator starts a command whose first step is given; run dispatches it.
Run(p, cmd, step) ==
  /\ Ready(p)
  /\ op' = [op EXCEPT ![p] = [Idle EXCEPT !.cmd = cmd, !.step = step, !.at = 1]]

-----------------------------------------------------------------------------
(* bootstrap: init.sh runs the CLI of the unpacked release, which copies itself and   *)
(* records the release it came from.                                                   *)

BootstrapBegin(p) ==
  /\ Run(p, "bootstrap", "copy") /\ AcquireMaintenanceLock(p)
  /\ UNCHANGED <<live, workspace, archives, units, running, enabled, counters, kept>>

AtomicCopyExecutable(p) ==
  /\ Doing(p, "bootstrap", "copy")
  /\ live' = [live EXCEPT !["cli"] = [Missing EXCEPT !.ver = 1]]
  /\ Goto(p, "select")
  /\ UNCHANGED <<workspace, archives, units, running, enabled, lock, counters, kept>>

AtomicWriteSelection(p) ==
  /\ Doing(p, "bootstrap", "select")
  /\ live' = [live EXCEPT !["selected"] = [Missing EXCEPT !.ver = 1]]
  /\ End(p)
  /\ UNCHANGED <<workspace, archives, units, running, enabled, counters, kept>>

-----------------------------------------------------------------------------
(* install: the CLI classifies what it finds without the lock; install.sh takes the   *)
(* lock and looks again.                                                               *)

FreshOrder == <<"settings", "role", "release", "identity", "keys", "db", "owner", "done",
                "units", "current", "slot">>

RecoverOrder == <<"release", "units", "current", "slot">>

InstallControl(p) ==
  /\ Has(live, "cli") /\ ~CurrentRelease(live)
  /\ LoadSelectedRelease(live)
  /\ \/ PreservedControlState(live) = "fresh" /\ Run(p, "install", "lock")
     \/ PreservedControlState(live) = "recoverable" /\ Run(p, "recover", "lock")
  /\ UNCHANGED <<live, workspace, archives, units, running, enabled, lock, counters, kept>>

\* Mutant: install.sh relies on what the CLI saw before it took the lock.
InstallerAccepts_Unlooked(cmd, tree) ==
  cmd = "recover" => PreservedControlState(tree) = "recoverable"

\* What install.sh requires of the root once it holds the lock.
InstallerAccepts(cmd, tree) ==
  /\ ~CurrentRelease(tree)
  /\ cmd = "install" => \A part \in PreservedSentinels : ~Has(tree, part)
  /\ cmd = "recover" => PreservedControlState(tree) = "recoverable"

\* With a bundled free license the identity is created first, to try the license on it.
InstallerLock(p) ==
  /\ op[p].cmd \in {"install", "recover"} /\ op[p].step = "lock"
  /\ AcquireMaintenanceLock(p)
  /\ IF op[p].cmd = "install" THEN
       /\ counters.gen < MaxGenerations
       /\ InstallerAccepts("install", live)
       /\ counters' = [counters EXCEPT !.gen = @ + 1]
       /\ \E step \in {"free", "write"} :
            op' = [op EXCEPT ![p].step = step, ![p].token = [Missing EXCEPT !.gen = counters.gen + 1]]
     ELSE
       /\ InstallerAccepts("recover", live)
       /\ op' = [op EXCEPT ![p].step = "write", ![p].token = [live["identity"] EXCEPT !.ver = 0]]
       /\ UNCHANGED counters
  /\ UNCHANGED <<live, workspace, archives, units, running, enabled, kept>>

\* install.sh gives up before it changed anything: the lock is held or the root changed.
InstallerRefuses(p) ==
  /\ op[p].cmd \in {"install", "recover"} /\ op[p].step = "lock"
  /\ lock # NoOne \/ ~InstallerAccepts(op[p].cmd, live)
  /\ End(p)
  /\ UNCHANGED <<live, workspace, archives, units, running, enabled, counters, kept>>

\* initialize-installation keeps an identity it finds; otherwise it creates one.
InitializeInstallation(tree, token) ==
  IF Has(tree, "identity") THEN tree ELSE [tree EXCEPT !["identity"] = token]

FreeLicenseIdentity(p) ==
  /\ Doing(p, "install", "free")
  /\ live' = InitializeInstallation(live, op[p].token)
  /\ Goto(p, "trial")
  /\ UNCHANGED <<workspace, archives, units, running, enabled, lock, counters, kept>>

\* The free license is accepted, or the identity it was tried on is removed again and the
\* installation can be retried.
FreeLicenseTrial(p) ==
  /\ Doing(p, "install", "trial")
  /\ \/ Goto(p, "write") /\ UNCHANGED <<live, lock, counters>>
     \/ /\ Faulty /\ CountFault
        /\ live' = [live EXCEPT !["identity"] = Missing]
        /\ End(p)
  /\ UNCHANGED <<workspace, archives, units, running, enabled, kept>>

InstallOrder(p) == IF op[p].cmd = "install" THEN FreshOrder ELSE RecoverOrder

\* One stage of install.sh: settings, role, release, keys, database, owner, marker, units,
\* the current link and the slot.
InstallWrite(p) ==
  /\ op[p].cmd \in {"install", "recover"} /\ op[p].step = "write"
  /\ LET part == InstallOrder(p)[op[p].at] IN
     /\ IF part = "units" THEN units' = TRUE /\ UNCHANGED live
        ELSE /\ live' = IF part = "identity" THEN InitializeInstallation(live, op[p].token)
                        ELSE [live EXCEPT ![part] = op[p].token]
             /\ UNCHANGED units
     /\ kept' = IF part = "owner" THEN kept \cup {op[p].token.gen} ELSE kept
  /\ IF op[p].at < Len(InstallOrder(p)) THEN op' = [op EXCEPT ![p].at = @ + 1]
                                        ELSE Goto(p, "start")
  /\ UNCHANGED <<workspace, archives, running, enabled, lock, counters>>

InstallStart(p) ==
  /\ op[p].cmd \in {"install", "recover"} /\ op[p].step = "start"
  /\ "control" \in running \cup Startable(live, Services)
  /\ running' = running \cup {"control"}
  /\ enabled' = enabled \cup {"control"}
  /\ Goto(p, "health")
  /\ UNCHANGED <<live, workspace, archives, units, lock, counters, kept>>

\* The services answer: a local runner is started if one was asked for or preserved, and
\* install.sh ends, which releases the lock before the CLI records the release.
InstallHealthy(p) ==
  /\ op[p].cmd \in {"install", "recover"} /\ op[p].step = "health"
  /\ \E local \in SUBSET {"runner"} :
       /\ running' = running \cup Startable(live, local)
       /\ enabled' = enabled \cup local
  /\ live' = [live EXCEPT !["done"] = op[p].token]
  /\ lock' = NoOne
  /\ Goto(p, "record")
  /\ UNCHANGED <<workspace, archives, units, counters, kept>>

\* run_selected_installer records the installed release as the selected one, if the current
\* link still leads to a release.  It no longer holds the lock: a record written between the
\* moves of a restore recreates the config directory, and counts as a fault.
RecordInstalled(p) ==
  /\ op[p].cmd \in {"install", "recover"} /\ op[p].step = "record"
  /\ IF \E q \in Operators : op[q].cmd = "restore" /\ op[q].step \in {"away", "in", "clear", "back"}
     THEN Faulty /\ CountFault ELSE NoFault
  /\ live' = IF CurrentRelease(live)
             THEN [live EXCEPT !["selected"] = [Missing EXCEPT !.ver = 2]] ELSE live
  /\ End(p)
  /\ UNCHANGED <<workspace, archives, units, running, enabled, kept>>

\* rollback_preserved_recovery, the EXIT trap of a recovery that did not commit; it does not
\* look whether disable --now worked.
RollbackPreservedRecovery ==
  /\ \/ running' = {} /\ enabled' = {}
     \/ UNCHANGED <<running, enabled>>
  /\ units' = FALSE
  /\ live' = [live EXCEPT !["current"] = Missing]

\* A stage of install.sh fails: a first installation stays as it is, a recovery rolls back.
InstallFails(p) ==
  /\ op[p].cmd \in {"install", "recover"} /\ op[p].step \in {"write", "start", "health"}
  /\ Faulty /\ CountFault
  /\ IF op[p].cmd = "recover" THEN RollbackPreservedRecovery
     ELSE UNCHANGED <<live, units, running, enabled>>
  /\ End(p)
  /\ UNCHANGED <<workspace, archives, kept>>

-----------------------------------------------------------------------------
(* uninstall: the services go first, then the program files, or everything with --purge. *)

RemoveEntry(tree, entry) ==
  [part \in Parts |-> IF EntryOf[part] = entry THEN Missing ELSE tree[part]]

\* Bound: nothing is purged after which no other installation could be started.
UninstallBegin(p) ==
  /\ Has(live, "cli")
  /\ \/ counters.gen < MaxGenerations /\ Run(p, "purge", "services")
     \/ InstalledRole(live) /\ Run(p, "uninstall", "services")
  /\ AcquireMaintenanceLock(p)
  /\ UNCHANGED <<live, workspace, archives, units, running, enabled, counters, kept>>

EntryPresent(tree, entry) == \E part \in Parts : EntryOf[part] = entry /\ Has(tree, part)

\* remove_dir_all lists the root once.
RootEntries ==
  {entry \in {Entries[i] : i \in DOMAIN Entries} : EntryPresent(live, entry)} \cup {"staging"}

BeginRemoval(p) ==
  op' = [op EXCEPT ![p].step = "remove", ![p].at = 1,
                   ![p].todo = IF op[p].cmd = "purge" THEN RootEntries ELSE {}]

\* remove_platform_services: stop and disable every unit, then remove the unit files.  The
\* results of stop and disable are dropped, and the command goes on to delete the programs
\* or the data of a service that still runs; a unit file that cannot be removed, or a failed
\* daemon-reload, ends it.
RemovePlatformServices(p) ==
  /\ op[p].cmd \in {"uninstall", "purge"} /\ op[p].step = "services"
  /\ \/ /\ running' = {} /\ enabled' = {} /\ units' = FALSE /\ NoFault
        /\ BeginRemoval(p) /\ UNCHANGED lock
     \/ /\ Faulty /\ CountFault
        /\ \E service \in Services :
             \/ service \in running /\ running' = {service} /\ enabled' = {}
             \/ service \in enabled /\ running' = {} /\ enabled' = {service}
        /\ units' = FALSE
        /\ BeginRemoval(p) /\ UNCHANGED lock
     \/ /\ Faulty /\ CountFault
        /\ running' = {} /\ enabled' = {} /\ units' \in {units, FALSE}
        /\ End(p)
  /\ UNCHANGED <<live, workspace, archives, kept>>

UninstallOrder == <<"current", "bin", "releases", "staging">>

\* The staging directory goes last, with the workspaces of restores and the lock file.
UninstallRemove(p) ==
  /\ Doing(p, "uninstall", "remove")
  /\ live' = RemoveEntry(live, UninstallOrder[op[p].at])
  /\ IF op[p].at < Len(UninstallOrder)
     THEN op' = [op EXCEPT ![p].at = @ + 1] /\ UNCHANGED <<workspace, lock>>
     ELSE workspace' = NoWorkspace /\ End(p)
  /\ UNCHANGED <<archives, units, running, enabled, counters, kept>>

\* remove_dir_all of the root, entry by entry in no particular order.  The staging directory
\* with the workspaces of restores and the lock file is one of them, and the backups
\* directory with the safety archives, which the model removes with it; a published backup is
\* where its operator chose.  Without the lock file another command
\* can lock a new one while the rest is still being deleted.
PurgeRemove(p) ==
  /\ Doing(p, "purge", "remove")
  /\ \E entry \in op[p].todo :
       /\ live' = RemoveEntry(live, entry)
       /\ IF entry = "staging"
          THEN /\ workspace' = NoWorkspace /\ lock' = NoOne
               /\ archives' = {a \in archives : a.kind = "backup"}
          ELSE UNCHANGED <<workspace, lock, archives>>
       /\ op' = [op EXCEPT ![p].todo = @ \ {entry}]
  /\ kept' = {}
  /\ UNCHANGED <<units, running, enabled, counters>>

\* Everything was removed, the root last.
PurgeEnds(p) ==
  /\ Doing(p, "purge", "remove") /\ op[p].todo = {}
  /\ End(p)
  /\ UNCHANGED <<live, workspace, archives, units, running, enabled, counters, kept>>

-----------------------------------------------------------------------------
(* service start and stop, and the commands that stop Control around one tool.        *)

\* service_units: Control, the local runner if there is one (it was enabled when it was set
\* up), or all units that are active or enabled, and Control when none is.
ServiceUnits ==
  LET all == Services \cap (running \cup enabled) IN
  {{"control"}, {"runner"} \cap enabled, IF all = {} THEN {"control"} ELSE all} \ {{}}

\* manage_service holds the lock while systemctl works on the selected units.
ManageService(p) ==
  /\ Has(live, "cli") /\ InstalledRole(live) /\ Has(live, "slot")
  /\ Ready(p) /\ lock = NoOne /\ units
  /\ \E targets \in ServiceUnits :
       \/ running' = running \cup Startable(live, targets)
       \/ running' = running \ targets
  /\ UNCHANGED <<live, workspace, archives, units, enabled, lock, op, counters, kept>>

\* reset_admin_password looks for the current release before it takes the lock,
\* install_license only once it has stopped Control; both then see whether Control runs.
MaintainBegin(p) ==
  /\ Has(live, "cli") /\ InstalledRole(live) /\ Has(live, "slot")
  /\ Ready(p) /\ AcquireMaintenanceLock(p)
  /\ \E cmd \in {"password", "license"} :
       /\ cmd = "password" => CurrentRelease(live)
       /\ op' = [op EXCEPT ![p] = [Idle EXCEPT !.cmd = cmd, !.step = "stop", !.at = 1,
                                               !.was = running \cap {"control"}]]
  /\ UNCHANGED <<live, workspace, archives, units, running, enabled, counters, kept>>

\* A stop that fails ends the command, with Control stopped or not.
MaintainStop(p) ==
  /\ op[p].cmd \in {"password", "license"} /\ op[p].step = "stop"
  /\ \/ running' = running \ op[p].was /\ Goto(p, "tool") /\ UNCHANGED lock /\ NoFault
     \/ /\ op[p].was # {} /\ Faulty /\ CountFault
        /\ running' \in {running, running \ op[p].was}
        /\ End(p)
  /\ UNCHANGED <<live, workspace, archives, units, enabled, kept>>

\* The tool succeeds or fails; either way the next step starts Control.
MaintainTool(p) ==
  /\ op[p].cmd \in {"password", "license"} /\ op[p].step = "tool"
  /\ op[p].cmd = "license" => CurrentRelease(live)
  /\ Goto(p, "restart")
  /\ UNCHANGED <<live, workspace, archives, units, running, enabled, lock, counters, kept>>

\* install_license finds no current release after it stopped Control, and returns.
LicenseWithoutRelease(p) ==
  /\ Doing(p, "license", "tool") /\ ~CurrentRelease(live)
  /\ End(p)
  /\ UNCHANGED <<live, workspace, archives, units, running, enabled, counters, kept>>

\* The services that ran are started again; a start can fail, and the command ends.
StartAgain(p) ==
  /\ op[p].cmd \in {"password", "license", "backup"} /\ op[p].step = "restart"
  /\ \/ /\ running' = running \cup (IF units THEN Startable(live, op[p].was) ELSE {})
        /\ NoFault
     \/ Faulty /\ CountFault /\ UNCHANGED running
  /\ End(p)
  /\ UNCHANGED <<live, workspace, archives, units, enabled, kept>>

-----------------------------------------------------------------------------
(* backup create *)

\* Everything that can fail is prepared before the services are stopped.
CreateBackup(p) ==
  /\ Has(live, "cli") /\ InstalledRole(live) /\ Has(live, "slot")
  /\ Cardinality(archives) < MaxArchives
  /\ Ready(p) /\ AcquireMaintenanceLock(p)
  /\ op' = [op EXCEPT ![p] = [Idle EXCEPT !.cmd = "backup", !.step = "stop", !.at = 1,
                                          !.was = running]]
  /\ UNCHANGED <<live, workspace, archives, units, running, enabled, counters, kept>>

\* A later unit can fail to stop; then nothing is archived, and the restart still happens.
BackupStop(p) ==
  /\ Doing(p, "backup", "stop")
  /\ \/ running' = running \ op[p].was /\ Goto(p, "tar") /\ NoFault
     \/ /\ Faulty /\ CountFault
        /\ \E stopped \in SUBSET op[p].was : running' = running \ stopped
        /\ Goto(p, "restart")
  /\ UNCHANGED <<live, workspace, archives, units, enabled, lock, kept>>

\* Mutant: a failed tar ends the command.
BackupTar_Abandons(p) ==
  /\ Doing(p, "backup", "tar")
  /\ \/ /\ op' = [op EXCEPT ![p].step = "publish", ![p].copy = live,
                            ![p].force = "control" \in running]
        /\ UNCHANGED lock
     \/ End(p)
  /\ NoFault
  /\ UNCHANGED <<live, workspace, archives, units, running, enabled, kept>>

BackupTar(p) ==
  /\ Doing(p, "backup", "tar")
  /\ \/ /\ op' = [op EXCEPT ![p].step = "publish", ![p].copy = live,
                            ![p].force = "control" \in running]
        /\ NoFault
     \/ Faulty /\ CountFault /\ Goto(p, "restart")
  /\ UNCHANGED <<live, workspace, archives, units, running, enabled, lock, kept>>

\* publish_backup copies the temporary archive to a new file, or removes what it began.
PublishBackup(p) ==
  /\ Doing(p, "backup", "publish")
  /\ \/ /\ archives' = archives \cup {[tree |-> op[p].copy, kind |-> "backup",
                                       live |-> op[p].force \/ "control" \in running]}
        /\ NoFault
     \/ Faulty /\ CountFault /\ UNCHANGED archives
  /\ Goto(p, "restart")
  /\ UNCHANGED <<live, workspace, units, running, enabled, lock, kept>>

-----------------------------------------------------------------------------
(* backup restore *)

\* What restore-backup.sh requires of an archive before it touches the live tree.
ArchiveAccepted(tree) ==
  \A part \in {"role", "cli", "current", "slot", "release"} : Has(tree, part)

\* The engine of the current release unpacks and verifies the archive in a new workspace.
RestoreBackup(p) ==
  /\ Has(live, "cli") /\ InstalledRole(live) /\ CurrentRelease(live) /\ Has(live, "slot")
  /\ counters.src < MaxRestores
  /\ Ready(p) /\ AcquireMaintenanceLock(p)
  /\ \E a \in {b \in archives : ArchiveAccepted(b.tree)} :
       workspace' = [NoWorkspace EXCEPT !.prepared =
         [part \in Parts |-> IF Has(a.tree, part)
                             THEN [a.tree[part] EXCEPT !.src = counters.src + 1] ELSE Missing]]
  /\ counters' = [counters EXCEPT !.src = @ + 1]
  /\ op' = [op EXCEPT ![p] = [Idle EXCEPT !.cmd = "restore", !.step = "safety", !.at = 1]]
  /\ UNCHANGED <<live, archives, units, running, enabled, kept>>

\* The services that run are noted and the live tree is archived while they still do.
SafetyArchive(p) ==
  /\ Doing(p, "restore", "safety")
  /\ archives' = archives \cup {[tree |-> live, kind |-> "safety", live |-> TRUE]}
  /\ op' = [op EXCEPT ![p].step = "stop", ![p].was = running]
  /\ UNCHANGED <<live, workspace, units, running, enabled, lock, counters, kept>>

\* systemctl stop ... || true: what does not stop runs on while its files are moved.
RestoreStop(p) ==
  /\ Doing(p, "restore", "stop")
  /\ \/ running' = {} /\ NoFault
     \/ running' \in SUBSET running \ {{}} /\ Faulty /\ CountFault
  /\ op' = [op EXCEPT ![p].step = "away", ![p].at = 1, ![p].copy = live]
  /\ UNCHANGED <<live, workspace, archives, units, enabled, lock, kept>>

\* mv of one entry.  When the destination already has it, mv puts the source inside it:
\* what the destination held stays, and the source is no longer at its place.
MoveInto(source, destination, entry) ==
  [part \in Parts |-> IF EntryOf[part] = entry /\ EntryPresent(source, entry)
                         /\ ~EntryPresent(destination, entry)
                      THEN source[part] ELSE destination[part]]

\* The trees a phase of the restore moves between, as <<source, destination>>.
MoveEnds(step) ==
  CASE step = "away"  -> <<live, workspace.previous>>
    [] step = "in"    -> <<workspace.prepared, live>>
    [] step = "clear" -> <<live, workspace.failed>>
    [] step = "back"  -> <<workspace.previous, live>>

\* The phase after the last entry of one was moved.
NextPhase == [away |-> "in", in |-> "start", clear |-> "back", back |-> "return"]

MoveEntry(p) ==
  /\ op[p].cmd = "restore" /\ op[p].step \in DOMAIN NextPhase
  /\ LET entry == Entries[op[p].at]
         source == MoveEnds(op[p].step)[1]
         destination == MoveEnds(op[p].step)[2]
         emptied == RemoveEntry(source, entry)
         filled == MoveInto(source, destination, entry) IN
     CASE op[p].step = "away"  -> live' = emptied /\ workspace' = [workspace EXCEPT !.previous = filled]
       [] op[p].step = "in"    -> live' = filled /\ workspace' = [workspace EXCEPT !.prepared = emptied]
       [] op[p].step = "clear" -> live' = emptied /\ workspace' = [workspace EXCEPT !.failed = filled]
       [] op[p].step = "back"  -> live' = filled /\ workspace' = [workspace EXCEPT !.previous = emptied]
  /\ IF op[p].at < Len(Entries) THEN op' = [op EXCEPT ![p].at = @ + 1]
                                ELSE Goto(p, NextPhase[op[p].step])
  /\ UNCHANGED <<archives, units, running, enabled, lock, counters, kept>>

\* Mutant: a tree half in place is not cleared before the previous one comes back.
AfterFailedMove_Uncleared(step, force) ==
  IF step \in {"away", "in"} THEN "back" ELSE "preserve"

\* Where the restore goes when mv fails.  Staging the live tree is undone at once; a tree
\* half in place is cleared first, and there a second failure is passed over; anything
\* else leaves the workspace for the operator.
AfterFailedMove(step, force) ==
  CASE step = "away" -> "back"
    [] step = "in"   -> "clear"
    [] step = "clear" /\ force -> "back"
    [] OTHER -> "preserve"

MoveFails(p) ==
  /\ op[p].cmd = "restore" /\ op[p].step \in DOMAIN NextPhase
  /\ EntryPresent(MoveEnds(op[p].step)[1], Entries[op[p].at])
  /\ Faulty /\ CountFault
  /\ LET next == AfterFailedMove(op[p].step, op[p].force) IN
     IF next = "preserve" THEN End(p)
     ELSE op' = [op EXCEPT ![p].step = next, ![p].at = 1, ![p].force = op[p].step = "in"]
          /\ UNCHANGED lock
  /\ UNCHANGED <<live, workspace, archives, units, running, enabled, kept>>

\* The units of the restored release are installed and the services that ran are started.
RestoreStart(p) ==
  /\ Doing(p, "restore", "start")
  /\ units' = TRUE
  /\ enabled' = {"control"} \cup Startable(live, {"runner"})
  /\ running' = running \cup Startable(live, op[p].was)
  /\ Goto(p, IF op[p].was \subseteq running' THEN "health" ELSE "withdraw")
  /\ UNCHANGED <<live, workspace, archives, lock, counters, kept>>

\* The restored services answer (asked only if Control ran), and what was there is deleted.
RestoreHealth(p) ==
  /\ Doing(p, "restore", "health")
  /\ \/ /\ workspace' = NoWorkspace /\ NoFault /\ End(p)
     \/ /\ "control" \in op[p].was /\ Faulty /\ CountFault
        /\ Goto(p, "withdraw") /\ UNCHANGED <<workspace, lock>>
  /\ UNCHANGED <<live, archives, units, running, enabled, kept>>

RestoreWithdraw(p) ==
  /\ Doing(p, "restore", "withdraw")
  /\ \/ running' = {} /\ NoFault
     \/ running' \in SUBSET running \ {{}} /\ Faulty /\ CountFault
  /\ op' = [op EXCEPT ![p].step = "clear", ![p].at = 1, ![p].force = FALSE]
  /\ UNCHANGED <<live, workspace, archives, units, enabled, lock, kept>>

\* restart_original_services; when that fails too the workspace stays.
RestartOriginalServices(p) ==
  /\ Doing(p, "restore", "return")
  /\ enabled' = enabled \cup {"control"} \cup op[p].was
  /\ \/ /\ running' = running \cup Startable(live, op[p].was) /\ op[p].was \subseteq running'
        /\ workspace' = NoWorkspace /\ NoFault
     \/ /\ Faulty /\ CountFault /\ UNCHANGED workspace
        /\ \E started \in SUBSET Startable(live, op[p].was) : running' = running \cup started
  /\ End(p)
  /\ UNCHANGED <<live, archives, units, kept>>

-----------------------------------------------------------------------------
(* The environment *)

\* The terminal is interrupted or lost: the EXIT trap of the engine runs, which removes the
\* workspace of a restore and rolls a recovery back.
Interrupt(p) ==
  /\ Faulty /\ CountFault
  /\ \/ /\ op[p].cmd = "restore" /\ workspace' = NoWorkspace
        /\ UNCHANGED <<live, units, running, enabled>>
     \/ /\ op[p].cmd = "recover" /\ op[p].step \in {"write", "start", "health"}
        /\ RollbackPreservedRecovery /\ UNCHANGED workspace
  /\ End(p)
  /\ UNCHANGED <<archives, kept>>

\* The command and its children are killed, after its first change.
Kill(p) ==
  /\ op[p] # Idle /\ op[p].step # "lock" /\ ~Doing(p, "bootstrap", "copy")
  /\ Faulty /\ CountFault
  /\ End(p)
  /\ UNCHANGED <<live, workspace, archives, units, running, enabled, kept>>

Reboot ==
  /\ Faulty /\ CountFault
  /\ op' = [p \in Operators |-> Idle] /\ lock' = NoOne
  /\ running' = IF units THEN Startable(live, enabled) ELSE {}
  /\ UNCHANGED <<live, workspace, archives, units, enabled, kept>>

HostStep ==
  \/ \E p \in Operators :
       \/ InstallControl(p) \/ InstallerLock(p) \/ InstallerRefuses(p)
       \/ FreeLicenseIdentity(p) \/ FreeLicenseTrial(p) \/ InstallWrite(p)
       \/ InstallStart(p) \/ InstallHealthy(p) \/ RecordInstalled(p) \/ InstallFails(p)
       \/ Interrupt(p) \/ Kill(p)
  \/ \E p \in Operators \ Installers :
       \/ BootstrapBegin(p) \/ AtomicCopyExecutable(p) \/ AtomicWriteSelection(p)
       \/ UninstallBegin(p) \/ RemovePlatformServices(p) \/ UninstallRemove(p) \/ PurgeRemove(p) \/ PurgeEnds(p)
       \/ ManageService(p) \/ MaintainBegin(p) \/ MaintainStop(p) \/ MaintainTool(p)
       \/ LicenseWithoutRelease(p) \/ StartAgain(p)
       \/ CreateBackup(p) \/ BackupStop(p) \/ BackupTar(p) \/ PublishBackup(p)
       \/ RestoreBackup(p) \/ SafetyArchive(p) \/ RestoreStop(p) \/ MoveEntry(p) \/ MoveFails(p)
       \/ RestoreStart(p) \/ RestoreHealth(p) \/ RestoreWithdraw(p) \/ RestartOriginalServices(p)
  \/ Reboot

\* A step after which files are deleted or moved under the services that should be stopped.
PassesOver(p) ==
  \/ op[p].step = "services" /\ op'[p].step = "remove"
  \/ op[p].cmd = "restore" /\ <<op[p].step, op'[p].step>> \in {<<"stop", "away">>, <<"withdraw", "clear">>}

\* What such a step leaves running stays unstopped until it stops.  A purge is raced once
\* another command has locked the new lock file.
RecordApart ==
  apart' =
    [unstopped |-> IF \E p \in Operators : PassesOver(p) THEN running'
                   ELSE apart.unstopped \cap running',
     raced |-> \E p \in Operators : Doing(p, "purge", "remove") /\ lock' \notin {p, NoOne}]

\* Of a purge that was raced the properties say nothing, and the model does not go on.
HostNext == ~apart.raced /\ HostStep /\ RecordApart

-----------------------------------------------------------------------------
(* Properties *)

\* Control only ever runs on one complete installation: whatever command failed or was
\* interrupted, and after any reboot, the settings, keys, database, owner and slot it runs on
\* were created by the same installation and put in place by the same restore.  Two cases are
\* set apart, in which the code takes the files away from a running service: a Control that
\* uninstall or a restore could not stop and did not look at again, and a purge below which
\* another command has locked a new lock file.
HostCoherent ==
  "control" \in running \ apart.unstopped /\ ~apart.raced =>
    \A part \in {"release", "settings", "role", "identity", "keys", "db", "owner", "slot"} :
      /\ Has(live, part)
      /\ live[part].gen = live["identity"].gen /\ live[part].src = live["identity"].src

\* The parts without which the accounts and data of an installation cannot be read again.
Irreplaceable == {"settings", "role", "identity", "keys", "db", "owner"}

Holds(tree, gen) == \A part \in Irreplaceable : tree[part].gen = gen

\* An installation with an owner that nobody purged can always be brought back: its parts
\* are in the root or in the workspace of a restore, or an archive has them all (an
\* installation made below a purge that goes on is set apart); and every archive backup
\* create published was taken while Control stood still.
InstallationRetained ==
  /\ \A gen \in kept :
       \/ \A part \in Irreplaceable :
            gen \in {live[part].gen, workspace.previous[part].gen,
                     workspace.failed[part].gen, workspace.prepared[part].gen}
       \/ \E a \in archives : Holds(a.tree, gen)
       \/ apart.raced
  /\ \A a \in archives : a.kind = "backup" => ~a.live

\* A backup, license or password command that reaches its end has every service running
\* again that it found running and that still can be started, with one exception the code
\* has: license install without a current release returns between the stop and the start.  A
\* restore that ends has every service running that it found running, and leaves either
\* exactly the archive or exactly the tree it found (up to the selected-release record,
\* which an install command writes after it released the lock).
CommandsComplete ==
  [][\A p \in Operators :
       (op[p].cmd \in {"password", "license", "backup", "restore"} /\ op'[p] = Idle
          /\ counters' = counters) =>
         /\ \/ (IF op[p].cmd # "restore" THEN Startable(live, op[p].was) ELSE op[p].was)
                 \subseteq running'
            \/ op[p].cmd # "restore" /\ ~units
            \/ op[p].cmd = "license" /\ ~CurrentRelease(live)
         /\ (op[p].cmd = "restore" /\ op[p].step = "return") =>
              \A part \in Parts \ {"selected"} : live'[part] = op[p].copy[part]
         /\ (op[p].cmd = "restore" /\ op[p].step = "health") =>
              \A part \in Parts \ {"selected"} :
                Has(live', part) => live'[part].src = counters.src]_hostVars

\* Whatever command failed, was interrupted or raced another, up to the cases the two parts
\* name: Control runs on one complete installation, and no installation that nobody purged
\* is lost.
HostSound == HostCoherent /\ InstallationRetained
=============================================================================
