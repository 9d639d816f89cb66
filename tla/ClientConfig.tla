---------------------------- MODULE ClientConfig ----------------------------
(***************************************************************************)
(* asterctl on the machine of a member: `setup codex' and `remove codex'   *)
(* (asterctl/src/codex.rs, codex/catalog.rs), which edit fields of a       *)
(* configuration that belongs to the user, and `setup claude' and          *)
(* `remove claude' (claude.rs), which replace a file.                      *)
(*                                                                         *)
(* Codex commands hold a lock; a command is a sequence of writes, each may *)
(* fail, and the process may die before each.  The user edits between      *)
(* commands.  The fixed fields of the Aster provider are one field here,   *)
(* a file stands for its digest, and what is refused before the first      *)
(* write is not a step.                                                    *)
(***************************************************************************)
EXTENDS Naturals, Sequences

CONSTANTS
  Url,        \* base URLs of Aster
  Merged,     \* catalogs that setup may generate
  ApiKey,     \* keys of the member
  Chosen,     \* values and files of the user
  Rendered,   \* settings that setup claude may generate
  Aster,      \* the name of the provider
  Reserved,   \* the path of the catalog of asterctl
  Edited,     \* a catalog that was changed by hand
  Absent,     \* no file, no value
  MaxEdits,   \* bound: what the user changes by hand
  MaxSetups   \* bound: commands of the user

Field == {"provider", "url", "catalog"}
Optional(S) == S \cup {Absent}

\* What a field may hold, and what the state file may say.
Setting == Url \cup Chosen \cup {Aster, Reserved, Absent}
Remembered == [before : Setting, installed : Setting]
CatalogText == Merged \cup {Edited}
ManagedRecord ==
  [status : {"pending", "committed"}, fields : UNION {[D -> Remembered] : D \in SUBSET Field},
   catalog : Optional([installed : Merged, previous : Optional(CatalogText)])]

\* A file is told from no file, and settings of the user from generated ones.
ASSUME ClientAssumption ==
  /\ Absent \notin Merged /\ Absent \notin [Field -> Setting] /\ Absent \notin ManagedRecord
  /\ Rendered \cap Chosen = {}

VARIABLES
  config,       \* config.toml: the value of every field, or Absent
  catalogFile,  \* aster-models.json
  apiKey,       \* the environment variable of the user
  managed,      \* the state file of asterctl
  backups,      \* copies of config.toml
  job,          \* the command that runs or ran last, and where it is
  own,          \* what the user last chose for every field
  accepted,     \* what the user ever chose or left in place
  torn,         \* a change of the URL was cut off
  settings,     \* settings.local.json of a Claude project
  claudeState,  \* .asterctl-state.json
  copies,       \* its backups, in the order they were made
  claudeJob,    \* the command that runs or ran last
  ownSettings,  \* what the user last had there
  lost,         \* setup could not undo what it had written
  left          \* edits and commands that may still come

codexVars == <<config, catalogFile, apiKey, managed, backups, job, own, accepted, torn>>
claudeVars == <<settings, claudeState, copies, claudeJob, ownSettings, lost>>
clientVars == <<codexVars, claudeVars, left>>

Blank == [f \in Field |-> Absent]
NoJob == [op |-> "none", step |-> "none"]

ClientInit ==
  /\ config \in Optional([provider : Chosen, url : {Absent}, catalog : Optional(Chosen)])
  /\ own = IF config = Absent THEN Blank ELSE config
  /\ accepted = [f \in Field |-> {own[f]}]
  /\ catalogFile = Absent /\ apiKey = Absent /\ managed = Absent
  /\ backups = {} /\ job = NoJob /\ torn = FALSE
  /\ settings \in Optional(Chosen) /\ ownSettings = settings
  /\ claudeState = Absent /\ copies = << >> /\ claudeJob = NoJob /\ lost = FALSE
  /\ left = [edits |-> MaxEdits, setups |-> MaxSetups]

-----------------------------------------------------------------------------
(***************************************************************************)
(* Codex.                                                                  *)
(***************************************************************************)
Value(f) == IF config = Absent THEN Absent ELSE config[f]

Finished == {"none", "configured", "undone", "broken", "failed", "cut off", "removed", "conflicts"}
Free == job.step \in Finished
Go(step) == job' = [job EXCEPT !.step = step]
At(step) == job.step = step

Issue == left.setups > 0 /\ left' = [left EXCEPT !.setups = @ - 1]

CatalogInstalled ==
  "catalog" \in DOMAIN managed.fields /\ Value("catalog") = managed.fields["catalog"].installed

\* The state file may outlive the configuration it is about: a configuration
\* that neither names the provider nor the catalog is a new baseline.
Reconciled ==
  IF managed = Absent \/ config = Absent \/ (Value("provider") # Aster /\ ~CatalogInstalled)
    THEN Absent ELSE managed

Remembers(previous, f) == previous # Absent /\ f \in DOMAIN previous.fields

\* original_catalog_path: the catalog was not changed after setup, and is not
\* the one that asterctl is about to write.
CatalogUsable(previous) ==
  IF Remembers(previous, "catalog")
    THEN LET field == previous.fields["catalog"] IN
         /\ field.before # Reserved
         /\ \/ Value("catalog") = field.installed
            \/ previous.status = "pending" /\ Value("catalog") = field.before
    ELSE Value("catalog") # Reserved

Desired(url) == [provider |-> Aster, url |-> url, catalog |-> Reserved]

\* Mistake: a second setup takes what the first one installed for the user's.
PendingFields_Fresh(previous, url) ==
  [f \in Field |-> [before |-> Value(f), installed |-> Desired(url)[f]]]

\* build_pending_state: what was there before the first setup is kept.
PendingFields(previous, url) ==
  [f \in Field |->
     [before |-> IF Remembers(previous, f) THEN previous.fields[f].before ELSE Value(f),
      installed |-> Desired(url)[f]]]

\* What status asks for: the fields of the provider, a key and the catalog.
ProviderComplete == Value("provider") = Aster /\ Value("url") # Absent
CodexReady ==
  ProviderComplete /\ apiKey # Absent /\ Value("catalog") = Reserved /\ catalogFile # Absent

\* Everything up to the first write.
SetupCodex(url, key, models) ==
  LET effective == IF url = Absent THEN Value("url") ELSE url
      previous == Reconciled
      fields == PendingFields(previous, effective)
  IN
  /\ Free /\ Issue
  /\ url # Absent \/ key # Absent
  /\ effective # Absent /\ CatalogUsable(previous)
  /\ job' = [op |-> "setup", step |-> "record", config |-> config, managed |-> managed,
             apiKey |-> apiKey, catalogFile |-> catalogFile, key |-> key, models |-> models,
             result |-> Desired(effective),
             moves |-> Remembers(previous, "url") /\ previous.fields["url"].installed # effective,
             state |-> [status |-> "pending", fields |-> fields,
                        catalog |-> [installed |-> models, previous |-> catalogFile]]]
  /\ UNCHANGED <<config, catalogFile, apiKey, managed, backups, own, accepted, torn>>

WriteRecord ==
  /\ At("record") /\ managed' = job.state /\ Go("install")
  /\ UNCHANGED <<config, catalogFile, apiKey, backups, own, accepted, torn>>

RecordFails ==
  /\ At("record") /\ Go("failed")
  /\ UNCHANGED <<config, catalogFile, apiKey, managed, backups, own, accepted, torn>>

InstallCatalog ==
  /\ At("install") /\ catalogFile' = job.models /\ Go("backup")
  /\ UNCHANGED <<config, apiKey, managed, backups, own, accepted, torn>>

\* backup_and_write_config, for setup and remove.
BackupConfig ==
  /\ At("backup") /\ Go("config")
  /\ backups' = IF job.config = Absent THEN backups ELSE backups \cup {job.config}
  /\ UNCHANGED <<config, catalogFile, apiKey, managed, own, accepted, torn>>

WriteConfig ==
  /\ At("config") /\ config' = job.result
  /\ Go(IF job.op = "remove" THEN "drop catalog" ELSE IF job.key = Absent THEN "verify" ELSE "key")
  /\ UNCHANGED <<catalogFile, apiKey, managed, backups, own, accepted, torn>>

\* The key is set, and telling other programs of it may fail.
WriteKey ==
  /\ At("key") /\ apiKey' = job.key /\ (Go("verify") \/ Go("undo config"))
  /\ UNCHANGED <<config, catalogFile, managed, backups, own, accepted, torn>>

Verify ==
  /\ At("verify") /\ Go("commit")
  /\ UNCHANGED <<config, catalogFile, apiKey, managed, backups, own, accepted, torn>>

CommitSetup ==
  /\ At("commit") /\ Go("configured")
  /\ managed' = [job.state EXCEPT !.status = "committed", !.catalog.previous = Absent]
  /\ UNCHANGED <<config, catalogFile, apiKey, backups, own, accepted, torn>>

SetupFails ==
  /\ job.op = "setup"
  /\ job.step \in {"install", "backup", "config", "key", "verify", "commit"}
  /\ Go("undo config")
  /\ UNCHANGED <<config, catalogFile, apiKey, managed, backups, own, accepted, torn>>

\* rollback_setup, in its order; it ends with the first error.
Undo ==
  \/ /\ At("undo config") /\ config' = job.config /\ Go("undo catalog")
     /\ UNCHANGED <<catalogFile, apiKey, managed, backups, own, accepted, torn>>
  \/ /\ At("undo catalog") /\ catalogFile' = job.catalogFile /\ Go("undo key")
     /\ UNCHANGED <<config, apiKey, managed, backups, own, accepted, torn>>
  \/ /\ At("undo key") /\ apiKey' = job.apiKey /\ Go("undo record")
     /\ UNCHANGED <<config, catalogFile, managed, backups, own, accepted, torn>>
  \/ /\ At("undo record") /\ managed' = job.managed /\ Go("undone")
     /\ UNCHANGED <<config, catalogFile, apiKey, backups, own, accepted, torn>>

\* An undo that fails, a remove that fails and a process that dies.
CutOff ==
  /\ ~Free /\ Go("cut off") /\ torn' = (torn \/ (job.op = "setup" /\ job.moves))
  /\ UNCHANGED <<config, catalogFile, apiKey, managed, backups, own, accepted>>

CatalogConflict ==
  LET c == managed.catalog IN
  /\ c # Absent /\ catalogFile # Absent
  /\ catalogFile # c.installed
  /\ managed.status = "pending" => catalogFile # c.previous

\* The fields that remove leaves alone: they hold neither what asterctl
\* installed nor what was there before.
Kept ==
  {f \in DOMAIN managed.fields :
     \/ f = "catalog" /\ CatalogConflict
     \/ Value(f) \notin {managed.fields[f].installed, managed.fields[f].before}}

RemoveCodex ==
  /\ Free /\ Issue /\ managed # Absent
  /\ job' = [op |-> "remove", step |-> "backup", config |-> config, kept |-> Kept,
             conflict |-> CatalogConflict,
             result |-> [f \in Field |-> IF f \in DOMAIN managed.fields \ Kept
                                           THEN managed.fields[f].before ELSE Value(f)]]
  /\ UNCHANGED <<config, catalogFile, apiKey, managed, backups, own, accepted, torn>>

DropsCatalog == ~job.conflict /\ "catalog" \notin job.kept

DropCatalog ==
  /\ At("drop catalog") /\ Go("drop record")
  /\ catalogFile' = IF DropsCatalog /\ managed.catalog # Absent THEN Absent ELSE catalogFile
  /\ UNCHANGED <<config, apiKey, managed, backups, own, accepted, torn>>

DropRecord ==
  /\ At("drop record")
  /\ IF job.kept = {} /\ ~job.conflict
       THEN managed' = Absent /\ Go("removed")
       ELSE /\ managed' = [managed EXCEPT !.status = "committed",
                             !.fields = [f \in job.kept |-> managed.fields[f]],
                             !.catalog = IF DropsCatalog THEN Absent ELSE @]
            /\ Go("conflicts")
  /\ UNCHANGED <<config, catalogFile, apiKey, backups, own, accepted, torn>>

-----------------------------------------------------------------------------
(***************************************************************************)
(* The user.                                                               *)
(***************************************************************************)
Edits == left.edits > 0 /\ left' = [left EXCEPT !.edits = @ - 1]

\* Who takes provider and catalog out of the hands of asterctl accepts the rest.
EditField(f, v) ==
  LET edited == [(IF config = Absent THEN Blank ELSE config) EXCEPT ![f] = v]
      abandons == edited.provider # Aster /\ edited.catalog # Reserved
  IN
  /\ Free /\ Edits /\ job' = NoJob
  /\ config' = edited /\ own' = [own EXCEPT ![f] = v]
  /\ accepted' = [g \in Field |-> accepted[g] \cup (IF g = f \/ abandons THEN {edited[g]} ELSE {})]
  /\ UNCHANGED <<catalogFile, apiKey, managed, backups, torn>>

EditCatalog ==
  /\ Free /\ Edits /\ job' = NoJob /\ catalogFile # Absent /\ catalogFile' = Edited
  /\ UNCHANGED <<config, apiKey, managed, backups, own, accepted, torn>>

\* .codex is deleted, with the backups in it.
DeleteHome ==
  /\ Free /\ Edits /\ job' = NoJob /\ config' = Absent /\ catalogFile' = Absent /\ backups' = {}
  /\ own' = Blank /\ accepted' = [f \in Field |-> accepted[f] \cup {Absent}]
  /\ UNCHANGED <<apiKey, managed, torn>>

CodexNext ==
  \/ \E url \in Optional(Url), key \in Optional(ApiKey), models \in Merged :
       SetupCodex(url, key, models)
  \/ RemoveCodex
  \/ \E f \in Field : \E v \in Optional(Chosen) : EditField(f, v)
  \/ EditCatalog \/ DeleteHome
  \/ /\ \/ WriteRecord \/ RecordFails \/ InstallCatalog \/ BackupConfig \/ WriteConfig \/ WriteKey
        \/ Verify \/ CommitSetup \/ SetupFails \/ Undo \/ CutOff \/ DropCatalog \/ DropRecord
     /\ UNCHANGED left

-----------------------------------------------------------------------------
(***************************************************************************)
(* Claude.                                                                 *)
(***************************************************************************)
ClaudeFree == claudeJob.step \in {"none", "ended"}
ClaudeGo(step) == claudeJob' = [claudeJob EXCEPT !.step = step]
ClaudeAt(step) == claudeJob.step = step

\* Everything up to the first write; the user agrees to lose the file.
SetupClaude(rendered) ==
  /\ ClaudeFree /\ Issue
  /\ claudeJob' = [step |-> IF settings = Absent THEN "write" ELSE "copy", original |-> settings,
                   rendered |-> rendered, backup |-> Absent]
  /\ UNCHANGED <<settings, claudeState, copies, ownSettings, lost>>

WriteBackup ==
  /\ ClaudeAt("copy") /\ copies' = Append(copies, claudeJob.original)
  /\ claudeJob' = [claudeJob EXCEPT !.step = "write", !.backup = Len(copies) + 1]
  /\ UNCHANGED <<settings, claudeState, ownSettings, lost>>

WriteSettings ==
  /\ ClaudeAt("write")
  /\ \/ settings' = claudeJob.rendered /\ ClaudeGo("state")
     \/ settings' = settings /\ ClaudeGo("discard")
  /\ UNCHANGED <<claudeState, copies, ownSettings, lost>>

WriteState ==
  /\ ClaudeAt("state")
  /\ \/ /\ claudeState' = [installed |-> claudeJob.rendered, backup |-> claudeJob.backup,
                           created |-> claudeJob.original = Absent]
        /\ ClaudeGo("ended")
     \/ claudeState' = claudeState /\ ClaudeGo("restore")
  /\ UNCHANGED <<settings, copies, ownSettings, lost>>

\* restore_after_failed_setup: its own error is not noticed.
RestoreSettings ==
  /\ ClaudeAt("restore") /\ ClaudeGo("discard")
  /\ \/ settings' = claudeJob.original /\ lost' = lost
     \/ settings' = settings /\ lost' = TRUE
  /\ UNCHANGED <<claudeState, copies, ownSettings>>

\* The backup is deleted, after a setup that failed and after a remove.
DiscardBackup ==
  /\ ClaudeAt("discard") /\ ClaudeGo(IF claudeJob.rendered = Absent THEN "forget" ELSE "ended")
  /\ copies' = IF claudeJob.backup = Absent THEN copies
                                            ELSE [copies EXCEPT ![claudeJob.backup] = Absent]
  /\ UNCHANGED <<settings, claudeState, ownSettings, lost>>

\* The settings are the ones that setup wrote: status and remove insist on it.
ClaudeUnchanged == claudeState # Absent /\ settings = claudeState.installed

\* remove needs the backup of a file that was there.
RemoveClaude ==
  /\ ClaudeFree /\ Issue /\ ClaudeUnchanged
  /\ LET b == claudeState.backup
         original == IF claudeState.created THEN Absent ELSE copies[b]
     IN  /\ claudeState.created \/ original # Absent
         /\ claudeJob' = [step |-> "put back", original |-> original, rendered |-> Absent,
                          backup |-> b]
  /\ UNCHANGED <<settings, claudeState, copies, ownSettings, lost>>

PutBack ==
  /\ ClaudeAt("put back") /\ settings' = claudeJob.original
  /\ ClaudeGo(IF claudeJob.original = Absent THEN "forget" ELSE "discard")
  /\ UNCHANGED <<claudeState, copies, ownSettings, lost>>

ForgetState ==
  /\ ClaudeAt("forget") /\ claudeState' = Absent /\ ClaudeGo("ended")
  /\ UNCHANGED <<settings, copies, ownSettings, lost>>

\* A write of setup or remove that fails without anything to undo, a failed
\* deletion, and a process that dies.
ClaudeCutOff ==
  /\ ~ClaudeFree /\ ClaudeGo("ended")
  /\ UNCHANGED <<settings, claudeState, copies, ownSettings, lost>>

EditSettings(v) ==
  /\ ClaudeFree /\ Edits /\ claudeJob' = NoJob /\ settings' = v /\ ownSettings' = v
  /\ UNCHANGED <<claudeState, copies, lost>>

ClaudeNext ==
  \/ \E rendered \in Rendered : SetupClaude(rendered)
  \/ RemoveClaude
  \/ \E v \in Chosen : EditSettings(v)
  \/ /\ \/ WriteBackup \/ WriteSettings \/ WriteState \/ RestoreSettings \/ DiscardBackup
        \/ PutBack \/ ForgetState \/ ClaudeCutOff
     /\ UNCHANGED left

ClientNext ==
  \/ CodexNext /\ UNCHANGED claudeVars
  \/ ClaudeNext /\ UNCHANGED codexVars

ClientSpec == ClientInit /\ [][ClientNext]_clientVars

-----------------------------------------------------------------------------
(***************************************************************************)
(* Properties.                                                             *)
(***************************************************************************)

\* Wherever commands are cut off, what the user last chose for a field is in
\* the configuration, in the state file or in a backup.
NothingOverwritten ==
  \A f \in Field : own[f] # Absent =>
    \/ Value(f) = own[f]
    \/ Remembers(managed, f) /\ managed.fields[f].before = own[f]
    \/ \E b \in backups : b[f] = own[f]

\* A remove that reports success leaves nothing that asterctl installed, also
\* after commands that were cut off, unless that was a change of the URL.
RemovedRestores ==
  At("removed") /\ ~torn => \A f \in Field : Value(f) \in accepted[f]

\* A setup that fails and reports no failure of its undoing has changed nothing.
FailedSetupUndone ==
  At("undone") => /\ config = job.config /\ catalogFile = job.catalogFile
                  /\ apiKey = job.apiKey /\ managed = job.managed

\* A setup that reports success has installed what the state file says, and
\* status finds it ready once there is a key.
ConfiguredReady ==
  At("configured") => /\ \A f \in Field : Value(f) = managed.fields[f].installed
                      /\ managed.status = "committed" /\ catalogFile = managed.catalog.installed
                      /\ apiKey # Absent => CodexReady

\* What the user last had in the project is in place or in a backup, unless
\* setup failed to undo what it had written.
SettingsKept ==
  ownSettings # Absent /\ ~lost =>
    settings = ownSettings \/ \E i \in DOMAIN copies : copies[i] = ownSettings

\* The commands of asterctl keep what belongs to the user.
ClientSound ==
  NothingOverwritten /\ RemovedRestores /\ FailedSetupUndone /\ ConfiguredReady /\ SettingsKept
=============================================================================
