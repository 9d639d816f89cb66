----------------------------- MODULE PluginStore -----------------------------
(***************************************************************************)
(* Which version of a provider's plugin a Control runs.  The versions are  *)
(* archived by their digest; a record names the active one; a file for     *)
(* incoming versions is watched, and an operator may replace it at any     *)
(* time.  A version is uploaded, found in that file, or switched to from   *)
(* the archive; it is verified and tested, archived, recorded, and only    *)
(* then used.  A Control may die between any two of these steps, and may   *)
(* be started again as another release, which accepts other versions.      *)
(***************************************************************************)
EXTENDS Naturals

CONSTANTS
  Control,         \* processes that share the files
  Bundle,          \* archives; an archive stands for its digest
  Release,         \* releases of the product
  Inspects,        \* Inspects[r]: the archives that release r verifies
  Runs,            \* Runs[r]: those that it also tests well
  NoBundle, NoOp,
  MaxActivations, MaxSubmissions, MaxPluginFaults

\* A submission: what is to become active, and for a switch the activation
\* that its administrator saw.
Submission ==
  [kind : {"poll", "upload", "switch"}, bundle : Bundle,
   at : {"verify", "archive", "record", "activate", "incoming"},
   revision : Nat, seen : Bundle \union {NoBundle}]

ASSUME PluginAssumption ==
  /\ Inspects \in [Release -> SUBSET Bundle] /\ Runs \in [Release -> SUBSET Bundle]
  /\ \A r \in Release : Runs[r] \subseteq Inspects[r]
  /\ NoBundle \notin Bundle
  /\ NoOp \notin Submission

VARIABLES
  incoming,        \* the file that is watched
  versions,        \* the archive
  record,          \* the version that is active, and how often one became so
  control,         \* what a Control holds in memory
  op,              \* the submission that a Control is working on
  view,            \* the record when an administrator last looked
  upgrading,       \* a maintenance job is queued or running
  submissions, pluginFaults,
  chosen           \* history: what submissions since the last one that was
                   \* reported as done may have made active

pluginVars == <<incoming, versions, record, control, op, view, upgrading, submissions, pluginFaults, chosen>>

Down == [up |-> FALSE, release |-> CHOOSE r \in Release : TRUE, active |-> NoBundle,
         last |-> NoBundle, lost |-> FALSE, polled |-> FALSE]

PluginInit ==
  /\ incoming = NoBundle /\ versions = {} /\ record = [digest |-> NoBundle, revision |-> 0]
  /\ control = [c \in Control |-> Down] /\ op = [c \in Control |-> NoOp] /\ view = record
  /\ upgrading = FALSE /\ submissions = 0 /\ pluginFaults = 0 /\ chosen = {}

\* verify_bundle, the self test and validate_description.
Accepted(r, b) == b \in Runs[r]

PluginFault == pluginFaults < MaxPluginFaults /\ pluginFaults' = pluginFaults + 1

\* One submission at a time, and none while an upgrade waits or runs.
MaySubmit(c) == control[c].up /\ op[c] = NoOp /\ ~upgrading

Submits ==
  submissions < MaxSubmissions /\ submissions' = submissions + 1

----------------------------------------------------------------------------

\* restore_active.  Nothing is activated when it fails, and the file of
\* incoming versions is not watched until an upload succeeds; a busy machine
\* is enough, since the self test has a tenth of a second.
Start(c, r, slow) ==
  LET b == record.digest  ok == b \in versions /\ Accepted(r, b) /\ ~slow IN
  /\ ~control[c].up /\ IF slow THEN PluginFault ELSE UNCHANGED pluginFaults
  /\ control' = [control EXCEPT ![c] =
       [up |-> TRUE, release |-> r, polled |-> FALSE,
        active |-> IF b # NoBundle /\ ok THEN b ELSE NoBundle,
        last |-> IF b \in versions THEN b ELSE NoBundle,
        lost |-> b # NoBundle /\ ~ok]]
  /\ UNCHANGED <<incoming, versions, record, op, view, upgrading, submissions, chosen>>

Crash(c) ==
  /\ control[c].up /\ PluginFault
  /\ control' = [control EXCEPT ![c] = Down] /\ op' = [op EXCEPT ![c] = NoOp]
  /\ UNCHANGED <<incoming, versions, record, view, upgrading, submissions, chosen>>

ViewPlugins ==
  /\ view # record /\ view' = record
  /\ UNCHANGED <<incoming, versions, record, control, op, upgrading, submissions, pluginFaults, chosen>>

QueueOrFinishJob ==
  /\ upgrading' = ~upgrading /\ (upgrading \/ \A c \in Control : op[c] = NoOp)
  /\ UNCHANGED <<incoming, versions, record, control, op, view, submissions, pluginFaults, chosen>>

Drop(b) ==
  /\ Submits /\ incoming' = b /\ chosen' = chosen \union {b}
  /\ UNCHANGED <<versions, record, control, op, view, upgrading, pluginFaults>>

NothingNew(c) == incoming \in {NoBundle, control[c].last}

\* The file is read before Control serves and then every two seconds; what was
\* submitted last is left alone.
Poll(c) ==
  /\ control[c].up /\ op[c] = NoOp
  /\ control' = [control EXCEPT ![c].polled = TRUE]
  /\ IF upgrading \/ control[c].lost \/ NothingNew(c)
     THEN ~control[c].polled /\ UNCHANGED op
     ELSE op' = [op EXCEPT ![c] = [kind |-> "poll", bundle |-> incoming, at |-> "verify",
                                   revision |-> 0, seen |-> NoBundle]]
  /\ UNCHANGED <<incoming, versions, record, view, upgrading, submissions, pluginFaults, chosen>>

\* An archive that is uploaded is verified (otherwise the upload ends here), and
\* replaces the incoming file before it is submitted and tested.
Upload(c, b) ==
  /\ MaySubmit(c) /\ control[c].polled /\ b \in Inspects[control[c].release] /\ Submits
  /\ incoming' = b /\ chosen' = chosen \union {b}
  /\ op' = [op EXCEPT ![c] = [kind |-> "upload", bundle |-> b, at |-> "verify",
                              revision |-> 0, seen |-> NoBundle]]
  /\ UNCHANGED <<versions, record, control, view, upgrading, pluginFaults>>

\* The administrator names a version of the archive and the activation it saw.
BeginSwitch(c, b) ==
  /\ MaySubmit(c) /\ control[c].polled /\ Submits /\ b \in versions
  /\ op' = [op EXCEPT ![c] = [kind |-> "switch", bundle |-> b, at |-> "verify",
                              revision |-> view.revision, seen |-> view.digest]]
  /\ UNCHANGED <<incoming, versions, record, control, view, upgrading, pluginFaults, chosen>>

OpGoes(c, at) == op' = [op EXCEPT ![c].at = at]

\* Whatever the outcome, the submission is remembered.
Rejected(c) ==
  /\ op' = [op EXCEPT ![c] = NoOp]
  /\ control' = [control EXCEPT ![c].last = op[c].bundle]
  /\ UNCHANGED <<incoming, versions, record, view, upgrading, submissions, chosen>>

\* A plausible bug: only the version is compared.
SwitchCurrent_AnyRevision(c) == op[c].kind = "switch" => op[c].bundle # record.digest

\* The switch is for the activation that the administrator saw.
SwitchCurrent(c) ==
  op[c].kind = "switch" => /\ op[c].revision = record.revision
                           /\ op[c].bundle # record.digest

Verify(c) ==
  /\ op[c] # NoOp /\ op[c].at = "verify" /\ UNCHANGED pluginFaults
  /\ IF Accepted(control[c].release, op[c].bundle) /\ SwitchCurrent(c)
     THEN OpGoes(c, "archive") /\ UNCHANGED <<incoming, versions, record, control, view, upgrading, submissions, chosen>>
     ELSE Rejected(c)

\* An archive that exists is compared and kept.
ArchiveVersion(c) ==
  /\ op[c] # NoOp /\ op[c].at = "archive"
  /\ versions' = versions \union {op[c].bundle} /\ OpGoes(c, "record")
  /\ UNCHANGED <<incoming, record, control, view, upgrading, submissions, pluginFaults, chosen>>

WriteRecord(c) ==
  /\ op[c] # NoOp /\ op[c].at = "record" /\ record.revision < MaxActivations
  /\ record' = [digest |-> op[c].bundle, revision |-> record.revision + 1]
  /\ chosen' = IF op[c].kind = "switch" THEN chosen \union {op[c].bundle} ELSE chosen
  /\ OpGoes(c, "activate")
  /\ UNCHANGED <<incoming, versions, control, view, upgrading, submissions, pluginFaults>>

\* A test that takes too long, or a file that cannot be written.
StepFails(c) ==
  /\ op[c] # NoOp /\ op[c].at \in {"verify", "archive", "record"}
  /\ PluginFault /\ Rejected(c)

\* An upload ends here, and ends the state in which nothing could be restored.
Activate(c) ==
  /\ op[c] # NoOp /\ op[c].at = "activate"
  /\ control' = [control EXCEPT ![c].active = op[c].bundle, ![c].last = op[c].bundle,
                                ![c].lost = @ /\ op[c].kind # "upload"]
  /\ IF op[c].kind = "switch" THEN OpGoes(c, "incoming") ELSE op' = [op EXCEPT ![c] = NoOp]
  /\ chosen' = IF op[c].kind = "upload" THEN {op[c].bundle, incoming} ELSE chosen
  /\ UNCHANGED <<incoming, versions, record, view, upgrading, submissions, pluginFaults>>

\* A plausible bug: the file that is watched keeps the version before.
IncomingAfterSwitch_Kept(c) == incoming

IncomingAfterSwitch(c) == op[c].bundle

\* The file follows a switch, or the watch would undo it; the switch is
\* reported as failed when it cannot be written.
SwitchDone(c) ==
  /\ op[c] # NoOp /\ op[c].at = "incoming" /\ op' = [op EXCEPT ![c] = NoOp]
  /\ \/ /\ incoming' = IncomingAfterSwitch(c) /\ chosen' = {op[c].bundle}
        /\ UNCHANGED pluginFaults
     \/ /\ PluginFault
        /\ UNCHANGED <<incoming, chosen>>
  /\ UNCHANGED <<versions, record, control, view, upgrading, submissions>>

PluginNext ==
  \/ \E c \in Control, r \in Release, slow \in BOOLEAN : Start(c, r, slow)
  \/ \E c \in Control : \/ Crash(c) \/ Poll(c) \/ Verify(c) \/ ArchiveVersion(c)
                        \/ WriteRecord(c) \/ StepFails(c) \/ Activate(c) \/ SwitchDone(c)
  \/ \E c \in Control, b \in Bundle : Upload(c, b) \/ BeginSwitch(c, b)
  \/ \E b \in Bundle : Drop(b)
  \/ ViewPlugins \/ QueueOrFinishJob

PluginSpec == PluginInit /\ [][PluginNext]_pluginVars

----------------------------------------------------------------------------

\* What the record names can be restored after a crash anywhere.
RecordRestorable == record.digest # NoBundle => record.digest \in versions

\* Between submissions a Control runs what the record says.
ActiveAsRecorded ==
  \A c \in Control : control[c].up /\ op[c] = NoOp /\ ~control[c].lost =>
    control[c].active = record.digest

\* Once an upload or a switch is reported as done, only a later submission
\* changes the version: neither the watch nor a restart brings another back.
ChoiceHolds == \A c \in Control : control[c].active \in chosen \union {NoBundle}

\* A switch replaces the version that its administrator saw.
SwitchReplacesSeen ==
  \A c \in Control : op[c] # NoOp /\ op[c].kind = "switch" /\ op[c].at \in {"archive", "record"} =>
    record.digest = op[c].seen

\* Wherever an upload, a switch or the watch stops, archive, record and memory
\* agree on the version that runs, and an older choice does not come back.
PluginsCoherent ==
  RecordRestorable /\ ActiveAsRecorded /\ ChoiceHolds /\ SwitchReplacesSeen

=============================================================================
