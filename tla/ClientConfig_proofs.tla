------------------------ MODULE ClientConfig_proofs ------------------------
(***************************************************************************)
(* Setup and removal of the client configuration keep the files of the     *)
(* user, for any number of commands, edits, failing writes and deaths.     *)
(*                                                                         *)
(* What makes them so: the step of setup says which of its four files are  *)
(* still the old ones and which already the new ones (SetupFiles); every   *)
(* value in the configuration is one the user accepted or one the state    *)
(* file says was installed, and what the state file would put back was     *)
(* accepted (Removable), which setup concluded of what it read before it   *)
(* wrote (SetupKnows); and what the user chose last is in the              *)
(* configuration or in a backup (Saved).  The Claude commands do the same  *)
(* with one file and numbered copies of it (ClaudeInv).                    *)
(***************************************************************************)
EXTENDS ClientConfig, SequenceTheorems, TLAPS

\* The value a configuration c gives a field.
Val(c, f) == IF c = Absent THEN Absent ELSE c[f]

\* Every value of c is one the user accepted or the one the state file m
\* says was installed; what m would put back is accepted; and a configuration
\* that has nothing of Aster in its two names has nothing of it at all.
Accounted(c, m, a) ==
  \A f \in Field : \/ Val(c, f) \in a[f]
                   \/ m # Absent /\ f \in DOMAIN m.fields /\ Val(c, f) = m.fields[f].installed
Restorable(m, a) == m # Absent => \A f \in DOMAIN m.fields : m.fields[f].before \in a[f]
Released(c, a) ==
  c = Absent \/ (c["provider"] # Aster /\ c["catalog"] # Reserved) =>
    \A f \in Field : Val(c, f) \in a[f]
Removable(c, m, a) == Accounted(c, m, a) /\ Restorable(m, a) /\ Released(c, a)

\* The two names that setup installs are always the same.
Installs(m) ==
  m # Absent => /\ "provider" \in DOMAIN m.fields => m.fields["provider"].installed = Aster
                /\ "catalog" \in DOMAIN m.fields => m.fields["catalog"].installed = Reserved

ConfigType == Optional([Field -> Setting])
StateType(m) == m \in Optional(ManagedRecord) /\ Installs(m)

Undoing == {"undo config", "undo catalog", "undo key", "undo record"}
Installing == {"install", "backup", "config"}
Installed == {"key", "verify", "commit"}
SetupStep == {"record", "failed", "undone", "configured", "cut off"}
             \cup Undoing \cup Installing \cup Installed
RemoveStep == {"backup", "config", "drop catalog", "drop record", "removed", "conflicts", "cut off"}

\* The fields of a command, and what setup is about to write.
SetupShape(j) ==
  /\ j = [op |-> "setup", step |-> j.step, config |-> j.config, managed |-> j.managed,
          apiKey |-> j.apiKey, catalogFile |-> j.catalogFile, key |-> j.key, models |-> j.models,
          result |-> j.result, moves |-> j.moves, state |-> j.state]
  /\ j.step \in SetupStep
SetupTypes(j) ==
  /\ j.config \in ConfigType /\ StateType(j.managed) /\ j.catalogFile \in Optional(CatalogText)
  /\ j.result \in [Field -> Setting] /\ j.moves \in BOOLEAN /\ j.models \in Merged
  /\ j.result["provider"] = Aster /\ j.result["url"] # Absent /\ j.result["catalog"] = Reserved
  /\ j.state \in ManagedRecord /\ DOMAIN j.state.fields = Field
  /\ \A f \in Field : j.state.fields[f].installed = j.result[f]
  /\ j.state.catalog = [installed |-> j.models, previous |-> j.catalogFile]
RemoveShape(j) ==
  /\ j = [op |-> "remove", step |-> j.step, config |-> j.config, kept |-> j.kept,
          conflict |-> j.conflict, result |-> j.result]
  /\ j.step \in RemoveStep
RemoveTypes(j) ==
  /\ j.config \in ConfigType /\ j.result \in [Field -> Setting] /\ j.kept \subseteq Field

\* The state file that ends a setup.
Committed(s) == [s EXCEPT !.status = "committed", !.catalog.previous = Absent]

\* Which of the four files are the old ones and which the new ones, at every
\* step of setup.
SetupFiles(j, c, m, t, k) ==
  /\ j.step \in {"record", "failed", "undone"} \cup Installing \cup (Undoing \ {"undo config"}) =>
       c = j.config
  /\ j.step \in Installed \cup {"configured"} => c = j.result
  /\ j.step = "undo config" => c \in {j.config, j.result}
  /\ j.step \in {"record", "failed", "undone"} => m = j.managed
  /\ j.step \in Installing \cup Installed \cup Undoing => m = j.state
  /\ j.step = "configured" => m = Committed(j.state)
  /\ j.step \in Installed \cup {"backup", "config", "configured"} => t = j.models
  /\ j.step \in {"undo key", "undo record", "undone"} => t = j.catalogFile
  /\ j.step \in {"undo record", "undone"} => k = j.apiKey

\* What setup concluded from what it read.
SetupKnows(j, a) ==
  j.step \notin Finished =>
    /\ Removable(j.config, j.managed, a) /\ Restorable(j.state, a)
    /\ ~j.moves => Accounted(j.config, j.state, a)

RemoveFiles(j, c, m) ==
  /\ j.step \in {"backup", "config"} => c = j.config
  /\ j.step \in {"drop catalog", "drop record"} => c = j.result
  /\ j.step \notin Finished => m # Absent /\ j.kept \subseteq DOMAIN m.fields
  /\ j.step = "removed" => m = Absent
RemoveKnows(j, m, a) ==
  j.step \notin Finished =>
    /\ Removable(j.config, m, a) /\ Removable(j.result, m, a)
    /\ \A f \in Field \ j.kept : j.result[f] \in a[f]

\* What the user chose last is in the configuration or in a backup.
Saved(c, o, b) ==
  \A f \in Field : o[f] # Absent => Val(c, f) = o[f] \/ \E x \in b : x[f] = o[f]

CodexTypes ==
  /\ config \in ConfigType /\ StateType(managed) /\ catalogFile \in Optional(CatalogText)
  /\ own \in [Field -> Setting] /\ accepted \in [Field -> SUBSET Setting] /\ torn \in BOOLEAN
JobSound ==
  \/ job = NoJob
  \/ job.op = "setup" /\ SetupShape(job) /\ SetupTypes(job)
     /\ SetupFiles(job, config, managed, catalogFile, apiKey)
     /\ (~torn => SetupKnows(job, accepted))
  \/ job.op = "remove" /\ RemoveShape(job) /\ RemoveTypes(job) /\ RemoveFiles(job, config, managed)
     /\ (~torn => RemoveKnows(job, managed, accepted))
BackupSound ==
  /\ Saved(config, own, backups)
  /\ ~Free => Saved(job.config, own, backups)
  /\ At("config") => job.config = Absent \/ job.config \in backups
RestSound == Free /\ ~torn => Removable(config, managed, accepted)

\* The inductive invariant of the Codex commands.
CodexInv == CodexTypes /\ JobSound /\ BackupSound /\ RestSound

\* A backup that a Claude command names holds the file it found.
Backed(j, c) == j.original # Absent => j.backup \in DOMAIN c /\ c[j.backup] = j.original
ClaudeStep == {"copy", "write", "state", "restore", "discard", "put back", "forget", "ended"}
ClaudeShape(j) ==
  /\ j = [step |-> j.step, original |-> j.original, rendered |-> j.rendered, backup |-> j.backup]
  /\ j.step \in ClaudeStep /\ j.original \in Optional(Chosen \cup Rendered)
ClaudeFiles(j, s, c, l) ==
  /\ j.step \in {"copy", "write"} => s = j.original
  /\ j.step = "copy" => j.original # Absent /\ j.backup = Absent
  /\ j.step \in {"copy", "write", "state", "restore"} => j.rendered \in Rendered
  /\ j.step \in {"write", "state", "restore", "discard", "put back"} =>
        Backed(j, c) /\ (j.original = Absent => j.backup = Absent \/ j.step = "put back")
  /\ j.step = "discard" /\ ~l => s = j.original
  /\ j.step \in {"state", "restore", "put back"} => s \in Rendered
\* The inductive invariant of the Claude commands.
ClaudeTypes ==
  /\ settings \in Optional(Chosen \cup Rendered) /\ ownSettings \in Optional(Chosen)
  /\ copies \in Seq(Optional(Chosen \cup Rendered)) /\ lost \in BOOLEAN
StateSound ==
  claudeState # Absent => /\ claudeState.installed \in Rendered
                          /\ ~claudeState.created => claudeState.backup \in DOMAIN copies
ClaudeJobSound ==
  \/ claudeJob = NoJob
  \/ ClaudeShape(claudeJob) /\ ClaudeFiles(claudeJob, settings, copies, lost)
ClaudeInv == ClaudeTypes /\ StateSound /\ ClaudeJobSound /\ SettingsKept
-----------------------------------------------------------------------------
\* A step of setup changes nothing but the step of the command.
SameSetup(j, k) ==
  /\ k.op = j.op /\ k.config = j.config /\ k.managed = j.managed /\ k.apiKey = j.apiKey
  /\ k.catalogFile = j.catalogFile /\ k.key = j.key /\ k.models = j.models
  /\ k.result = j.result /\ k.moves = j.moves /\ k.state = j.state
SameRemove(j, k) ==
  /\ k.op = j.op /\ k.config = j.config /\ k.kept = j.kept /\ k.conflict = j.conflict
  /\ k.result = j.result

LEMMA SetupGoes ==
  ASSUME NEW j, NEW k, NEW s \in SetupStep, SetupShape(j), k = [j EXCEPT !.step = s]
  PROVE  SetupShape(k) /\ k.op = "setup" /\ k.step = s /\ SameSetup(j, k)
<1>1. k = [op |-> "setup", step |-> s, config |-> j.config, managed |-> j.managed,
          apiKey |-> j.apiKey, catalogFile |-> j.catalogFile, key |-> j.key, models |-> j.models,
          result |-> j.result, moves |-> j.moves, state |-> j.state]
  BY DEF SetupShape
<1>2. j.op = "setup" BY DEF SetupShape
<1> HIDE DEF SetupStep
<1> QED BY <1>1, <1>2 DEF SetupShape, SameSetup

LEMMA RemoveGoes ==
  ASSUME NEW j, NEW k, NEW s \in RemoveStep, RemoveShape(j), k = [j EXCEPT !.step = s]
  PROVE  RemoveShape(k) /\ k.op = "remove" /\ k.step = s /\ SameRemove(j, k)
<1>1. k = [op |-> "remove", step |-> s, config |-> j.config, kept |-> j.kept,
          conflict |-> j.conflict, result |-> j.result]
  BY DEF RemoveShape
<1>2. j.op = "remove" BY DEF RemoveShape
<1> QED BY <1>1, <1>2 DEF RemoveShape, SameRemove

LEMMA SetupTypesKept ==
  ASSUME NEW j, NEW k, SameSetup(j, k), SetupTypes(j)
  PROVE  SetupTypes(k)
BY DEF SameSetup, SetupTypes

LEMMA RemoveTypesKept ==
  ASSUME NEW j, NEW k, SameRemove(j, k), RemoveTypes(j)
  PROVE  RemoveTypes(k)
BY DEF SameRemove, RemoveTypes

\* What setup knew when it began it knows until it ends.
LEMMA SetupKnowsKept ==
  ASSUME NEW j, NEW k, NEW a, SameSetup(j, k), j.step \notin Finished, SetupKnows(j, a)
  PROVE  SetupKnows(k, a)
BY DEF SameSetup, SetupKnows

LEMMA RemoveKnowsKept ==
  ASSUME NEW j, NEW k, NEW m, NEW a, SameRemove(j, k), j.step \notin Finished,
         RemoveKnows(j, m, a)
  PROVE  RemoveKnows(k, m, a)
BY DEF SameRemove, RemoveKnows

\* The steps of setup, and what is known at them.
LEMMA SetupStands ==
  ASSUME CodexInv, job.op = "setup"
  PROVE  /\ SetupShape(job) /\ SetupTypes(job)
         /\ SetupFiles(job, config, managed, catalogFile, apiKey)
         /\ ~torn => SetupKnows(job, accepted)
BY DEF CodexInv, JobSound, NoJob

LEMMA RemoveStands ==
  ASSUME CodexInv, job.op = "remove"
  PROVE  /\ RemoveShape(job) /\ RemoveTypes(job) /\ RemoveFiles(job, config, managed)
         /\ ~torn => RemoveKnows(job, managed, accepted)
BY DEF CodexInv, JobSound, NoJob

LEMMA NoJobRests == NoJob.step = "none" /\ NoJob.op = "none"
BY DEF NoJob

LEMMA JobKinds ==
  ASSUME CodexInv
  PROVE  \/ job = NoJob
         \/ job.op = "setup" /\ SetupShape(job)
         \/ job.op = "remove" /\ RemoveShape(job)
BY DEF CodexInv, JobSound

LEMMA OnlySetup ==
  ASSUME CodexInv, job.step \in (SetupStep \ RemoveStep)
  PROVE  job.op = "setup"
BY JobKinds, NoJobRests DEF SetupStep, RemoveShape, Undoing, Installing, Installed

LEMMA OnlyRemove ==
  ASSUME CodexInv, job.step \in (RemoveStep \ SetupStep)
  PROVE  job.op = "remove"
BY JobKinds, NoJobRests DEF RemoveStep, SetupShape

LEMMA EitherCommand ==
  ASSUME CodexInv, ~Free
  PROVE  job.op \in {"setup", "remove"}
BY JobKinds, NoJobRests DEF Free, Finished

-----------------------------------------------------------------------------
\* A setup that does not go on from an earlier one finds nothing of Aster.
LEMMA Baseline ==
  ASSUME CodexInv, Free, ~torn, CatalogUsable(Reconciled), Reconciled = Absent
  PROVE  \A f \in Field : Value(f) \in accepted[f]
<1>1. Removable(config, managed, accepted) BY DEF CodexInv, RestSound
<1>2. CASE managed = Absent
  BY <1>1, <1>2 DEF Removable, Accounted, Val, Value
<1>3. CASE config = Absent
  BY <1>1, <1>3 DEF Removable, Released, Val, Value
<1>4. CASE managed # Absent /\ config # Absent
  <2>1. Value("provider") # Aster BY <1>4 DEF Reconciled
  <2>2. Value("catalog") # Reserved BY DEF CatalogUsable, Remembers
  <2> QED BY <1>1, <1>4, <2>1, <2>2 DEF Removable, Released, Val, Value
<1> QED BY <1>2, <1>3, <1>4

LEMMA Goes ==
  ASSUME CodexInv
  PROVE  Reconciled \in {Absent, managed}
BY DEF Reconciled

\* What setup is about to write has the form of a state file.
LEMMA PendingType ==
  ASSUME CodexInv, NEW p \in {Absent, managed}, NEW e \in Setting
  PROVE  /\ PendingFields(p, e) \in [Field -> Remembered]
         /\ \A f \in Field : PendingFields(p, e)[f].installed = Desired(e)[f]
         /\ Desired(e) \in [Field -> Setting]
         /\ Desired(e)["provider"] = Aster /\ Desired(e)["url"] = e /\ Desired(e)["catalog"] = Reserved
<1>1. config \in ConfigType /\ managed \in Optional(ManagedRecord) BY DEF CodexInv, CodexTypes, StateType
<1>2. \A f \in Field : Value(f) \in Setting BY <1>1 DEF ConfigType, Optional, Value, Setting
<1>3. Desired(e) \in [Field -> Setting] /\ Desired(e)["provider"] = Aster /\ Desired(e)["url"] = e
      /\ Desired(e)["catalog"] = Reserved
  BY DEF Desired, Field, Setting
<1>4. ASSUME NEW f \in Field, Remembers(p, f) PROVE p.fields[f] \in Remembered
  <2>1. p \in ManagedRecord /\ f \in DOMAIN p.fields BY <1>1, <1>4 DEF Optional, Remembers
  <2>2. PICK D \in SUBSET Field : p.fields \in [D -> Remembered] BY <2>1 DEF ManagedRecord
  <2> QED BY <2>1, <2>2
<1>5. \A f \in Field :
        (IF Remembers(p, f) THEN p.fields[f].before ELSE Value(f)) \in Setting
  BY <1>2, <1>4 DEF Remembered
<1> QED BY <1>3, <1>5 DEF PendingFields, Remembered

\* What the new state file would put back, the user accepted.
LEMMA PendingRestorable ==
  ASSUME CodexInv, Free, ~torn, CatalogUsable(Reconciled), NEW e \in Setting, NEW f \in Field
  PROVE  PendingFields(Reconciled, e)[f].before \in accepted[f]
<1>1. Removable(config, managed, accepted) BY DEF CodexInv, RestSound
<1> DEFINE p == Reconciled
<1>2. PendingFields(p, e)[f].before = IF Remembers(p, f) THEN p.fields[f].before ELSE Value(f)
  BY DEF PendingFields
<1>3. CASE p = Absent BY <1>2, <1>3, Baseline DEF Remembers
<1>4. CASE p # Absent
  <2>1. p = managed BY <1>4, Goes
  <2>2. CASE f \in DOMAIN managed.fields
    BY <1>1, <1>2, <1>4, <2>1, <2>2 DEF Removable, Restorable, Remembers
  <2>3. CASE f \notin DOMAIN managed.fields
    <3>1. Value(f) \in accepted[f] BY <1>1, <2>3 DEF Removable, Accounted, Val, Value
    <3> QED BY <1>2, <2>1, <2>3, <3>1 DEF Remembers
  <2> QED BY <2>2, <2>3
<1> QED BY <1>3, <1>4

\* A setup that keeps the URL could stop once the state file is written.
LEMMA PendingAccounted ==
  ASSUME CodexInv, Free, ~torn, CatalogUsable(Reconciled), NEW e \in Setting, NEW f \in Field,
         ~(Remembers(Reconciled, "url") /\ Reconciled.fields["url"].installed # e)
  PROVE  Value(f) \in accepted[f] \/ Value(f) = Desired(e)[f]
<1>1. Removable(config, managed, accepted) BY DEF CodexInv, RestSound
<1>2. Installs(managed) BY DEF CodexInv, CodexTypes, StateType
<1> DEFINE p == Reconciled
<1>3. CASE p = Absent BY <1>3, Baseline
<1>4. CASE p # Absent
  <2>1. p = managed BY <1>4, Goes
  <2>2. \/ Value(f) \in accepted[f]
        \/ f \in DOMAIN managed.fields /\ Value(f) = managed.fields[f].installed
    BY <1>1 DEF Removable, Accounted, Val, Value
  <2>3. f \in DOMAIN managed.fields => managed.fields[f].installed = Desired(e)[f]
    BY <1>2, <1>4, <2>1 DEF Installs, Desired, Field, Remembers
  <2> QED BY <2>2, <2>3
<1> QED BY <1>3, <1>4

LEMMA SetupBegins ==
  ASSUME CodexInv, NEW url \in Optional(Url), NEW key \in Optional(ApiKey), NEW models \in Merged,
         SetupCodex(url, key, models)
  PROVE  CodexInv'
<1> DEFINE e == IF url = Absent THEN Value("url") ELSE url
           p == Reconciled
           g == PendingFields(p, e)
           mv == Remembers(p, "url") /\ p.fields["url"].installed # e
           st == [status |-> "pending", fields |-> g,
                  catalog |-> [installed |-> models, previous |-> catalogFile]]
<1>1. /\ job' = [op |-> "setup", step |-> "record", config |-> config, managed |-> managed,
                 apiKey |-> apiKey, catalogFile |-> catalogFile, key |-> key, models |-> models,
                 result |-> Desired(e), moves |-> mv, state |-> st]
      /\ Free /\ e # Absent /\ CatalogUsable(p)
  BY DEF SetupCodex
<1>2. UNCHANGED <<config, catalogFile, apiKey, managed, backups, own, accepted, torn>>
  BY DEF SetupCodex
<1>3. /\ config \in ConfigType /\ StateType(managed) /\ catalogFile \in Optional(CatalogText)
  BY DEF CodexInv, CodexTypes
<1>4. e \in Setting
  BY <1>3 DEF ConfigType, Optional, Value, Setting, Field
<1>5. p \in {Absent, managed} BY Goes
<1> HIDE DEF e, p
<1>6. /\ g \in [Field -> Remembered] /\ \A f \in Field : g[f].installed = Desired(e)[f]
      /\ Desired(e) \in [Field -> Setting]
      /\ Desired(e)["provider"] = Aster /\ Desired(e)["url"] = e /\ Desired(e)["catalog"] = Reserved
  BY <1>4, <1>5, PendingType
<1>7. ~torn => /\ \A f \in Field : g[f].before \in accepted[f]
               /\ ~mv => \A f \in Field : Value(f) \in accepted[f] \/ Value(f) = Desired(e)[f]
  BY <1>1, <1>4, PendingRestorable, PendingAccounted DEF p
<1>8. mv \in BOOLEAN BY DEF Remembers
<1> HIDE DEF g, mv
<1>9. st \in ManagedRecord
  <2>1. g \in UNION {[D -> Remembered] : D \in SUBSET Field} BY <1>6
  <2>2. [installed |-> models, previous |-> catalogFile] \in
          [installed : Merged, previous : Optional(CatalogText)] BY <1>3
  <2> QED BY <2>1, <2>2 DEF ManagedRecord, Optional
<1>10. st.fields = g /\ st.catalog = [installed |-> models, previous |-> catalogFile] OBVIOUS
<1>11. st # Absent BY <1>9, ClientAssumption
<1> HIDE DEF st
<1>12. SetupShape(job') /\ job'.op = "setup" /\ job'.step = "record"
  BY <1>1 DEF SetupShape, SetupStep
<1>13. /\ job'.config = config /\ job'.managed = managed /\ job'.catalogFile = catalogFile
       /\ job'.models = models /\ job'.result = Desired(e) /\ job'.moves = mv /\ job'.state = st
  BY <1>1
<1>14. DOMAIN g = Field BY <1>6
<1>15. Installs(st) BY <1>6, <1>10 DEF Installs, Field
<1>16. SetupTypes(job')
  BY <1>1, <1>3, <1>6, <1>8, <1>9, <1>10, <1>13, <1>14 DEF SetupTypes
<1>17. SetupFiles(job', config', managed', catalogFile', apiKey')
  BY <1>2, <1>12, <1>13 DEF SetupFiles, Undoing, Installing, Installed
<1>18. ASSUME ~torn PROVE SetupKnows(job', accepted')
  <2>1. Removable(config, managed, accepted) BY <1>1, <1>18 DEF CodexInv, RestSound
  <2>2. Restorable(st, accepted) BY <1>7, <1>10, <1>14, <1>18 DEF Restorable
  <2>3. ~mv => Accounted(config, st, accepted)
    BY <1>6, <1>7, <1>10, <1>11, <1>14, <1>18 DEF Accounted, Val, Value
  <2> QED BY <1>2, <1>13, <2>1, <2>2, <2>3 DEF SetupKnows
<1>19. JobSound' BY <1>2, <1>12, <1>16, <1>17, <1>18 DEF JobSound
<1>20. CodexTypes' BY <1>2 DEF CodexInv, CodexTypes
<1>21. BackupSound'
  <2>1. Saved(config, own, backups) BY DEF CodexInv, BackupSound
  <2> QED BY <1>2, <1>12, <1>13, <2>1 DEF BackupSound, At
<1>22. RestSound' BY <1>12 DEF RestSound, Free, Finished
<1> QED BY <1>19, <1>20, <1>21, <1>22 DEF CodexInv

-----------------------------------------------------------------------------
LEMMA SavedGrows ==
  ASSUME NEW c, NEW o, NEW b, NEW b2, b \subseteq b2, Saved(c, o, b)
  PROVE  Saved(c, o, b2)
BY DEF Saved

\* A configuration may be replaced once it is in a backup.
LEMMA SavedBacked ==
  ASSUME NEW c, NEW d, NEW o, NEW b, Saved(c, o, b), c = Absent \/ c \in b
  PROVE  Saved(d, o, b)
BY DEF Saved, Val

LEMMA SetupProceeds ==
  ASSUME CodexInv, ~Free, job.op = "setup", NEW s \in SetupStep, Go(s)
  PROVE  /\ SetupShape(job') /\ job'.op = "setup" /\ job'.step = s /\ SameSetup(job, job')
         /\ SetupTypes(job')
         /\ ~torn => SetupKnows(job, accepted) /\ SetupKnows(job', accepted)
<1>1. SetupShape(job) /\ SetupTypes(job) /\ (~torn => SetupKnows(job, accepted)) BY SetupStands
<1>2. SetupShape(job') /\ job'.op = "setup" /\ job'.step = s /\ SameSetup(job, job')
  BY <1>1, SetupGoes DEF Go
<1>3. SetupTypes(job') BY <1>1, <1>2, SetupTypesKept
<1>4. job.step \notin Finished BY DEF Free
<1>5. ~torn => SetupKnows(job', accepted) BY <1>1, <1>2, <1>4, SetupKnowsKept
<1> QED BY <1>1, <1>2, <1>3, <1>5

\* What a step of setup has to show.
LEMMA SetupStepKept ==
  ASSUME CodexInv, ~Free, job.op = "setup", NEW s \in SetupStep, Go(s),
         own' = own, accepted' = accepted, torn' \in BOOLEAN, ~torn' => ~torn,
         backups \subseteq backups', config' \in ConfigType, StateType(managed'),
         catalogFile' \in Optional(CatalogText),
         SetupFiles(job', config', managed', catalogFile', apiKey'),
         Saved(config', own, backups'),
         s = "config" => job.config = Absent \/ job.config \in backups',
         s \in Finished /\ ~torn' => Removable(config', managed', accepted)
  PROVE  CodexInv'
<1>1. /\ SetupShape(job') /\ job'.op = "setup" /\ job'.step = s /\ SameSetup(job, job')
      /\ SetupTypes(job')
      /\ ~torn => SetupKnows(job', accepted)
  BY SetupProceeds
<1>2. JobSound' BY <1>1 DEF JobSound
<1>3. CodexTypes' BY DEF CodexInv, CodexTypes
<1>4. Saved(job.config, own, backups') BY SavedGrows DEF CodexInv, BackupSound
<1>5. BackupSound' BY <1>1, <1>4 DEF BackupSound, At, SameSetup
<1>6. RestSound' BY <1>1 DEF RestSound, Free
<1> QED BY <1>2, <1>3, <1>5, <1>6 DEF CodexInv

\* What is there when a step of setup begins.
LEMMA SetupHolds ==
  ASSUME CodexInv
  PROVE  /\ config \in ConfigType /\ StateType(managed) /\ catalogFile \in Optional(CatalogText)
         /\ torn \in BOOLEAN /\ Saved(config, own, backups)
         /\ ~Free => Saved(job.config, own, backups)
         /\ At("config") => job.config = Absent \/ job.config \in backups
BY DEF CodexInv, CodexTypes, BackupSound

LEMMA SetupState ==
  ASSUME NEW j, SetupTypes(j)
  PROVE  StateType(j.state) /\ j.state # Absent
<1>1. j.state \in ManagedRecord BY DEF SetupTypes
<1>2. Installs(j.state) BY DEF SetupTypes, Installs, Field
<1> QED BY <1>1, <1>2, ClientAssumption DEF StateType, Optional

\* What setup installs can be removed again.
LEMMA ResultRemovable ==
  ASSUME NEW j, NEW a, SetupTypes(j), Restorable(j.state, a)
  PROVE  Removable(j.result, j.state, a)
<1>1. j.state # Absent BY SetupState
<1>2. j.result # Absent BY ClientAssumption DEF SetupTypes
<1>3. Accounted(j.result, j.state, a) BY <1>1, <1>2 DEF SetupTypes, Accounted, Val
<1>4. Released(j.result, a) BY <1>2 DEF SetupTypes, Released
<1> QED BY <1>3, <1>4 DEF Removable

LEMMA RecordWritten ==
  ASSUME CodexInv, WriteRecord
  PROVE  CodexInv'
<1>1. job.step = "record" /\ Go("install") /\ managed' = job.state
      /\ UNCHANGED <<config, catalogFile, apiKey, backups, own, accepted, torn>>
  BY DEF WriteRecord, At
<1>2. ~Free BY <1>1 DEF Free, Finished
<1>3. job.op = "setup" BY <1>1, OnlySetup DEF SetupStep, RemoveStep
<1>4. SetupTypes(job) /\ SetupFiles(job, config, managed, catalogFile, apiKey) BY <1>3, SetupStands
<1>5. "install" \in SetupStep BY DEF SetupStep, Installing
<1>6. job'.step = "install" /\ SameSetup(job, job') BY <1>1, <1>2, <1>3, <1>5, SetupProceeds
<1>7. SetupFiles(job', config', managed', catalogFile', apiKey')
  BY <1>1, <1>4, <1>6 DEF SetupFiles, SameSetup, Undoing, Installing, Installed
<1>8. StateType(managed') BY <1>1, <1>4, SetupState
<1> QED BY <1>1, <1>2, <1>3, <1>5, <1>7, <1>8, SetupHolds, SetupStepKept DEF Finished

LEMMA RecordRefused ==
  ASSUME CodexInv, RecordFails
  PROVE  CodexInv'
<1>1. job.step = "record" /\ Go("failed")
      /\ UNCHANGED <<config, catalogFile, apiKey, managed, backups, own, accepted, torn>>
  BY DEF RecordFails, At
<1>2. ~Free BY <1>1 DEF Free, Finished
<1>3. job.op = "setup" BY <1>1, OnlySetup DEF SetupStep, RemoveStep
<1>4. SetupTypes(job) /\ SetupFiles(job, config, managed, catalogFile, apiKey) BY <1>3, SetupStands
<1>5. "failed" \in SetupStep BY DEF SetupStep
<1>6. /\ job'.step = "failed" /\ SameSetup(job, job')
      /\ ~torn => SetupKnows(job, accepted)
  BY <1>1, <1>2, <1>3, <1>5, SetupProceeds
<1>7. config = job.config /\ managed = job.managed BY <1>1, <1>4 DEF SetupFiles
<1>8. SetupFiles(job', config', managed', catalogFile', apiKey')
  BY <1>1, <1>6, <1>7 DEF SetupFiles, SameSetup, Undoing, Installing, Installed
<1>9. ~torn => Removable(config, managed, accepted)
  BY <1>1, <1>6, <1>7 DEF SetupKnows, Finished
<1> QED BY <1>1, <1>2, <1>3, <1>5, <1>8, <1>9, SetupHolds, SetupStepKept DEF Finished

LEMMA CatalogInstalls ==
  ASSUME CodexInv, InstallCatalog
  PROVE  CodexInv'
<1>1. job.step = "install" /\ Go("backup") /\ catalogFile' = job.models
      /\ UNCHANGED <<config, apiKey, managed, backups, own, accepted, torn>>
  BY DEF InstallCatalog, At
<1>2. ~Free BY <1>1 DEF Free, Finished
<1>3. job.op = "setup" BY <1>1, OnlySetup DEF SetupStep, RemoveStep, Installing
<1>4. SetupTypes(job) /\ SetupFiles(job, config, managed, catalogFile, apiKey) BY <1>3, SetupStands
<1>5. "backup" \in SetupStep BY DEF SetupStep, Installing
<1>6. job'.step = "backup" /\ SameSetup(job, job') BY <1>1, <1>2, <1>3, <1>5, SetupProceeds
<1>7. SetupFiles(job', config', managed', catalogFile', apiKey')
  BY <1>1, <1>4, <1>6 DEF SetupFiles, SameSetup, Undoing, Installing, Installed
<1>8. catalogFile' \in Optional(CatalogText) BY <1>1, <1>4 DEF SetupTypes, Optional, CatalogText
<1> QED BY <1>1, <1>2, <1>3, <1>5, <1>7, <1>8, SetupHolds, SetupStepKept DEF Finished

LEMMA SetupBacksUp ==
  ASSUME CodexInv, BackupConfig, job.op = "setup"
  PROVE  CodexInv'
<1>1. /\ job.step = "backup" /\ Go("config")
      /\ backups' = IF job.config = Absent THEN backups ELSE backups \cup {job.config}
      /\ UNCHANGED <<config, catalogFile, apiKey, managed, own, accepted, torn>>
  BY DEF BackupConfig, At
<1>2. ~Free BY <1>1 DEF Free, Finished
<1>4. SetupTypes(job) /\ SetupFiles(job, config, managed, catalogFile, apiKey) BY SetupStands
<1>5. "config" \in SetupStep BY DEF SetupStep, Installing
<1>6. job'.step = "config" /\ SameSetup(job, job') BY <1>1, <1>2, <1>5, SetupProceeds
<1>7. SetupFiles(job', config', managed', catalogFile', apiKey')
  BY <1>1, <1>4, <1>6 DEF SetupFiles, SameSetup, Undoing, Installing, Installed
<1>8. backups \subseteq backups' /\ (job.config = Absent \/ job.config \in backups') BY <1>1
<1>9. Saved(config', own, backups') BY <1>1, <1>8, SetupHolds, SavedGrows
<1> QED BY <1>1, <1>2, <1>5, <1>7, <1>8, <1>9, SetupHolds, SetupStepKept DEF Finished

LEMMA SetupWrites ==
  ASSUME CodexInv, WriteConfig, job.op = "setup"
  PROVE  CodexInv'
<1>1. PICK s \in {"verify", "key"} :
      /\ job.step = "config" /\ Go(s) /\ config' = job.result
      /\ UNCHANGED <<catalogFile, apiKey, managed, backups, own, accepted, torn>>
  BY DEF WriteConfig, At
<1>2. ~Free BY <1>1 DEF Free, Finished
<1>4. SetupTypes(job) /\ SetupFiles(job, config, managed, catalogFile, apiKey) BY SetupStands
<1>5. s \in SetupStep BY DEF SetupStep, Installed
<1>6. job'.step = s /\ SameSetup(job, job') BY <1>1, <1>2, <1>5, SetupProceeds
<1>7. SetupFiles(job', config', managed', catalogFile', apiKey')
  BY <1>1, <1>4, <1>6 DEF SetupFiles, SameSetup, Undoing, Installing, Installed
<1>8. job.config = Absent \/ job.config \in backups BY <1>1, SetupHolds DEF At
<1>9. Saved(config', own, backups') BY <1>1, <1>2, <1>8, SetupHolds, SavedBacked
<1>10. config' \in ConfigType BY <1>1, <1>4 DEF SetupTypes, ConfigType, Optional
<1>11. s \notin Finished /\ s # "config" BY DEF Finished
<1> QED BY <1>1, <1>2, <1>5, <1>7, <1>9, <1>10, <1>11, SetupHolds, SetupStepKept

LEMMA KeyWritten ==
  ASSUME CodexInv, WriteKey
  PROVE  CodexInv'
<1>1. PICK s \in {"verify", "undo config"} :
      /\ job.step = "key" /\ Go(s)
      /\ UNCHANGED <<config, catalogFile, managed, backups, own, accepted, torn>>
  BY DEF WriteKey, At
<1>2. ~Free BY <1>1 DEF Free, Finished
<1>3. job.op = "setup" BY <1>1, OnlySetup DEF SetupStep, RemoveStep, Installed
<1>4. SetupTypes(job) /\ SetupFiles(job, config, managed, catalogFile, apiKey) BY <1>3, SetupStands
<1>5. s \in SetupStep BY DEF SetupStep, Installed, Undoing
<1>6. job'.step = s /\ SameSetup(job, job') BY <1>1, <1>2, <1>3, <1>5, SetupProceeds
<1>7. SetupFiles(job', config', managed', catalogFile', apiKey')
  BY <1>1, <1>4, <1>6 DEF SetupFiles, SameSetup, Undoing, Installing, Installed
<1>11. s \notin Finished /\ s # "config" BY DEF Finished
<1> QED BY <1>1, <1>2, <1>3, <1>5, <1>7, <1>11, SetupHolds, SetupStepKept

LEMMA Verified ==
  ASSUME CodexInv, Verify
  PROVE  CodexInv'
<1>1. /\ job.step = "verify" /\ Go("commit")
      /\ UNCHANGED <<config, catalogFile, apiKey, managed, backups, own, accepted, torn>>
  BY DEF Verify, At
<1>2. ~Free BY <1>1 DEF Free, Finished
<1>3. job.op = "setup" BY <1>1, OnlySetup DEF SetupStep, RemoveStep, Installed
<1>4. SetupTypes(job) /\ SetupFiles(job, config, managed, catalogFile, apiKey) BY <1>3, SetupStands
<1>5. "commit" \in SetupStep BY DEF SetupStep, Installed
<1>6. job'.step = "commit" /\ SameSetup(job, job') BY <1>1, <1>2, <1>3, <1>5, SetupProceeds
<1>7. SetupFiles(job', config', managed', catalogFile', apiKey')
  BY <1>1, <1>4, <1>6 DEF SetupFiles, SameSetup, Undoing, Installing, Installed
<1> QED BY <1>1, <1>2, <1>3, <1>5, <1>7, SetupHolds, SetupStepKept DEF Finished

\* The state file of a completed setup has the fields of the pending one.
LEMMA CommittedState ==
  ASSUME NEW j, SetupTypes(j)
  PROVE  /\ Committed(j.state) \in ManagedRecord /\ Committed(j.state) # Absent
         /\ Committed(j.state).fields = j.state.fields
         /\ Committed(j.state).status = "committed"
         /\ Committed(j.state).catalog = [installed |-> j.models, previous |-> Absent]
<1> DEFINE st == j.state
           fs == st.fields
           ct == [installed |-> j.models, previous |-> j.catalogFile]
<1>1. /\ st \in ManagedRecord /\ st.catalog = ct /\ j.models \in Merged
      /\ fs \in UNION {[D -> Remembered] : D \in SUBSET Field}
  BY DEF SetupTypes, ManagedRecord
<1>2. st = [status |-> st.status, fields |-> fs, catalog |-> ct] BY <1>1 DEF ManagedRecord
<1>3. [ct EXCEPT !.previous = Absent] = [installed |-> j.models, previous |-> Absent] OBVIOUS
<1> HIDE DEF st, fs, ct
<1>4. PICK s2 : s2 = [st EXCEPT !.status = "committed"] OBVIOUS
<1>5. s2 = [status |-> "committed", fields |-> fs, catalog |-> ct] BY <1>2, <1>4
<1>6. Committed(st) = [status |-> "committed", fields |-> fs,
                       catalog |-> [installed |-> j.models, previous |-> Absent]]
  <2>1. Committed(st) = [[st EXCEPT !.status = "committed"] EXCEPT !.catalog.previous = Absent]
    BY DEF Committed
  <2>2. Committed(st) = [s2 EXCEPT !.catalog.previous = Absent] BY <1>4, <2>1
  <2>3. [s2 EXCEPT !.catalog.previous = Absent] =
          [status |-> "committed", fields |-> fs, catalog |-> [ct EXCEPT !.previous = Absent]]
    BY <1>5
  <2> QED BY <1>3, <2>2, <2>3
<1>7. [installed |-> j.models, previous |-> Absent] \in
        [installed : Merged, previous : Optional(CatalogText)]
  BY <1>1 DEF Optional
<1>8. Committed(st) \in ManagedRecord BY <1>1, <1>6, <1>7 DEF ManagedRecord, Optional
<1>9. Committed(st) # Absent BY <1>8, ClientAssumption
<1> QED BY <1>6, <1>8, <1>9 DEF st, fs

LEMMA SetupCommits ==
  ASSUME CodexInv, CommitSetup
  PROVE  CodexInv'
<1>1. /\ job.step = "commit" /\ Go("configured") /\ managed' = Committed(job.state)
      /\ UNCHANGED <<config, catalogFile, apiKey, backups, own, accepted, torn>>
  BY DEF CommitSetup, At, Committed
<1>2. ~Free BY <1>1 DEF Free, Finished
<1>3. job.op = "setup" BY <1>1, OnlySetup DEF SetupStep, RemoveStep, Installed
<1>4. SetupTypes(job) /\ SetupFiles(job, config, managed, catalogFile, apiKey) BY <1>3, SetupStands
<1>5. "configured" \in SetupStep BY DEF SetupStep
<1>6. /\ job'.step = "configured" /\ SameSetup(job, job')
      /\ ~torn => SetupKnows(job, accepted)
  BY <1>1, <1>2, <1>3, <1>5, SetupProceeds
<1>7. SetupFiles(job', config', managed', catalogFile', apiKey')
  BY <1>1, <1>4, <1>6 DEF SetupFiles, SameSetup, Undoing, Installing, Installed
<1>8. /\ managed' \in ManagedRecord /\ managed' # Absent /\ managed'.fields = job.state.fields
  BY <1>1, <1>4, CommittedState
<1>9. StateType(managed')
  <2>1. Installs(job.state) BY <1>4, SetupState DEF StateType
  <2>2. job.state # Absent BY <1>4, SetupState
  <2> QED BY <1>8, <2>1, <2>2 DEF StateType, Installs, Optional
<1>10. ~torn => Removable(config', managed', accepted)
  <2> SUFFICES ASSUME ~torn PROVE Removable(config', managed', accepted) OBVIOUS
  <2>1. Restorable(job.state, accepted) BY <1>1, <1>6 DEF SetupKnows, Finished
  <2>2. Removable(job.result, job.state, accepted) BY <1>4, <2>1, ResultRemovable
  <2>3. config' = job.result BY <1>1, <1>4 DEF SetupFiles, Installed
  <2>4. job.state # Absent BY <1>4, SetupState
  <2> QED BY <1>8, <2>2, <2>3, <2>4 DEF Removable, Accounted, Restorable
<1> QED BY <1>1, <1>2, <1>3, <1>5, <1>7, <1>9, <1>10, SetupHolds, SetupStepKept DEF Finished

LEMMA SetupTurnsBack ==
  ASSUME CodexInv, SetupFails
  PROVE  CodexInv'
<1>1. /\ job.op = "setup" /\ job.step \in Installing \cup Installed /\ Go("undo config")
      /\ UNCHANGED <<config, catalogFile, apiKey, managed, backups, own, accepted, torn>>
  BY DEF SetupFails, Installing, Installed
<1>2. ~Free BY <1>1 DEF Free, Finished, Installing, Installed
<1>4. SetupTypes(job) /\ SetupFiles(job, config, managed, catalogFile, apiKey) BY <1>1, SetupStands
<1>5. "undo config" \in SetupStep BY DEF SetupStep, Undoing
<1>6. job'.step = "undo config" /\ SameSetup(job, job') BY <1>1, <1>2, <1>5, SetupProceeds
<1>7. config \in {job.config, job.result} /\ managed = job.state
  BY <1>1, <1>4 DEF SetupFiles
<1>8. SetupFiles(job', config', managed', catalogFile', apiKey')
  BY <1>1, <1>6, <1>7 DEF SetupFiles, SameSetup, Undoing, Installing, Installed
<1> QED BY <1>1, <1>2, <1>5, <1>8, SetupHolds, SetupStepKept DEF Finished

LEMMA ConfigUndone ==
  ASSUME CodexInv, job.step = "undo config", config' = job.config, Go("undo catalog"),
         UNCHANGED <<catalogFile, apiKey, managed, backups, own, accepted, torn>>
  PROVE  CodexInv'
<1>2. ~Free BY DEF Free, Finished
<1>3. job.op = "setup" BY OnlySetup DEF SetupStep, RemoveStep, Undoing
<1>4. SetupTypes(job) /\ SetupFiles(job, config, managed, catalogFile, apiKey) BY <1>3, SetupStands
<1>5. "undo catalog" \in SetupStep BY DEF SetupStep, Undoing
<1>6. job'.step = "undo catalog" /\ SameSetup(job, job') BY <1>2, <1>3, <1>5, SetupProceeds
<1>7. SetupFiles(job', config', managed', catalogFile', apiKey')
  BY <1>4, <1>6 DEF SetupFiles, SameSetup, Undoing, Installing, Installed
<1>8. config' \in ConfigType BY <1>4 DEF SetupTypes
<1>9. Saved(config', own, backups') BY <1>2, SetupHolds
<1> QED BY <1>2, <1>3, <1>5, <1>7, <1>8, <1>9, SetupHolds, SetupStepKept DEF Finished

LEMMA CatalogUndone ==
  ASSUME CodexInv, job.step = "undo catalog", catalogFile' = job.catalogFile, Go("undo key"),
         UNCHANGED <<config, apiKey, managed, backups, own, accepted, torn>>
  PROVE  CodexInv'
<1>2. ~Free BY DEF Free, Finished
<1>3. job.op = "setup" BY OnlySetup DEF SetupStep, RemoveStep, Undoing
<1>4. SetupTypes(job) /\ SetupFiles(job, config, managed, catalogFile, apiKey) BY <1>3, SetupStands
<1>5. "undo key" \in SetupStep BY DEF SetupStep, Undoing
<1>6. job'.step = "undo key" /\ SameSetup(job, job') BY <1>2, <1>3, <1>5, SetupProceeds
<1>7. SetupFiles(job', config', managed', catalogFile', apiKey')
  BY <1>4, <1>6 DEF SetupFiles, SameSetup, Undoing, Installing, Installed
<1>8. catalogFile' \in Optional(CatalogText) BY <1>4 DEF SetupTypes
<1> QED BY <1>2, <1>3, <1>5, <1>7, <1>8, SetupHolds, SetupStepKept DEF Finished

LEMMA KeyUndone ==
  ASSUME CodexInv, job.step = "undo key", apiKey' = job.apiKey, Go("undo record"),
         UNCHANGED <<config, catalogFile, managed, backups, own, accepted, torn>>
  PROVE  CodexInv'
<1>2. ~Free BY DEF Free, Finished
<1>3. job.op = "setup" BY OnlySetup DEF SetupStep, RemoveStep, Undoing
<1>4. SetupTypes(job) /\ SetupFiles(job, config, managed, catalogFile, apiKey) BY <1>3, SetupStands
<1>5. "undo record" \in SetupStep BY DEF SetupStep, Undoing
<1>6. job'.step = "undo record" /\ SameSetup(job, job') BY <1>2, <1>3, <1>5, SetupProceeds
<1>7. SetupFiles(job', config', managed', catalogFile', apiKey')
  BY <1>4, <1>6 DEF SetupFiles, SameSetup, Undoing, Installing, Installed
<1> QED BY <1>2, <1>3, <1>5, <1>7, SetupHolds, SetupStepKept DEF Finished

LEMMA RecordUndone ==
  ASSUME CodexInv, job.step = "undo record", managed' = job.managed, Go("undone"),
         UNCHANGED <<config, catalogFile, apiKey, backups, own, accepted, torn>>
  PROVE  CodexInv'
<1>2. ~Free BY DEF Free, Finished
<1>3. job.op = "setup" BY OnlySetup DEF SetupStep, RemoveStep, Undoing
<1>4. SetupTypes(job) /\ SetupFiles(job, config, managed, catalogFile, apiKey) BY <1>3, SetupStands
<1>5. "undone" \in SetupStep BY DEF SetupStep
<1>6. /\ job'.step = "undone" /\ SameSetup(job, job')
      /\ ~torn => SetupKnows(job, accepted)
  BY <1>2, <1>3, <1>5, SetupProceeds
<1>7. SetupFiles(job', config', managed', catalogFile', apiKey')
  BY <1>4, <1>6 DEF SetupFiles, SameSetup, Undoing, Installing, Installed
<1>8. StateType(managed') BY <1>4 DEF SetupTypes
<1>9. config = job.config BY <1>4 DEF SetupFiles, Undoing
<1>10. ~torn => Removable(config', managed', accepted) BY <1>2, <1>6, <1>9 DEF SetupKnows, Free
<1> QED BY <1>2, <1>3, <1>5, <1>7, <1>8, <1>10, SetupHolds, SetupStepKept

LEMMA UndoKept ==
  ASSUME CodexInv, Undo
  PROVE  CodexInv'
BY ConfigUndone, CatalogUndone, KeyUndone, RecordUndone DEF Undo, At

\* A setup that is cut off leaves what a later remove can deal with, unless it
\* was changing the URL.
LEMMA SetupCutOff ==
  ASSUME CodexInv, CutOff, job.op = "setup"
  PROVE  CodexInv'
<1>1. /\ ~Free /\ Go("cut off") /\ torn' = (torn \/ job.moves)
      /\ UNCHANGED <<config, catalogFile, apiKey, managed, backups, own, accepted>>
  BY DEF CutOff
<1>2. SetupShape(job) /\ SetupTypes(job) /\ SetupFiles(job, config, managed, catalogFile, apiKey)
  BY SetupStands
<1>3. "cut off" \in SetupStep BY DEF SetupStep
<1>4. /\ job'.step = "cut off" /\ SameSetup(job, job')
      /\ ~torn => SetupKnows(job, accepted)
  BY <1>1, <1>3, SetupProceeds
<1>5. SetupFiles(job', config', managed', catalogFile', apiKey')
  BY <1>4 DEF SetupFiles, Undoing, Installing, Installed
<1>6. torn' \in BOOLEAN /\ (~torn' => ~torn) /\ (~torn' => ~job.moves)
  BY <1>1, <1>2, SetupHolds DEF SetupTypes
<1>7. ASSUME ~torn' PROVE Removable(config, managed, accepted)
  <2>1. ~torn /\ ~job.moves BY <1>6, <1>7
  <2>2. /\ Removable(job.config, job.managed, accepted) /\ Restorable(job.state, accepted)
        /\ Accounted(job.config, job.state, accepted)
    BY <1>1, <1>4, <2>1 DEF SetupKnows, Free
  <2>3. Removable(job.result, job.state, accepted) BY <1>2, <2>2, ResultRemovable
  <2>4. Removable(job.config, job.state, accepted) BY <2>2 DEF Removable
  <2>5. job.step \in {"record"} \cup Installing \cup Installed \cup Undoing
    BY <1>1, <1>2 DEF SetupShape, SetupStep, Free, Finished
  <2>6. CASE job.step = "record"
    <3>1. config = job.config /\ managed = job.managed BY <1>2, <2>6 DEF SetupFiles
    <3> QED BY <2>2, <3>1
  <2>7. CASE job.step \in Installing \cup Installed \cup Undoing
    <3>1. managed = job.state BY <1>2, <2>7 DEF SetupFiles
    <3>2. config \in {job.config, job.result}
      BY <1>2, <2>7 DEF SetupFiles, Undoing
    <3> QED BY <2>3, <2>4, <3>1, <3>2
  <2> QED BY <2>5, <2>6, <2>7
<1> QED BY <1>1, <1>3, <1>5, <1>6, <1>7, SetupHolds, SetupStepKept

-----------------------------------------------------------------------------
\* What remove puts back, and what it leaves.
LEMMA ResultOfRemove ==
  ASSUME NEW c \in ConfigType, NEW m, StateType(m), m # Absent, NEW a, NEW K, NEW r,
         Removable(c, m, a), K \subseteq DOMAIN m.fields,
         r \in [Field -> Setting],
         \A f \in Field : r[f] = IF f \in DOMAIN m.fields \ K THEN m.fields[f].before ELSE Val(c, f),
         \A f \in DOMAIN m.fields \ K : Val(c, f) \in {m.fields[f].installed, m.fields[f].before},
         \A f \in K : f = "catalog" \/ Val(c, f) \notin {m.fields[f].installed, m.fields[f].before}
  PROVE  /\ Removable(r, m, a)
         /\ \A f \in Field \ K : r[f] \in a[f]
<1>1. r # Absent BY ClientAssumption
<1>2. \A f \in Field : Val(r, f) = r[f] BY <1>1 DEF Val
<1>3. ASSUME NEW f \in Field \ K PROVE r[f] \in a[f]
  BY <1>3 DEF Removable, Accounted, Restorable
<1>4. Accounted(r, m, a)
  <2> SUFFICES ASSUME NEW f \in Field
               PROVE  r[f] \in a[f] \/ (f \in DOMAIN m.fields /\ r[f] = m.fields[f].installed)
    BY <1>2 DEF Accounted
  <2>1. CASE f \in K BY <2>1 DEF Removable, Accounted
  <2>2. CASE f \notin K BY <1>3, <2>2
  <2> QED BY <2>1, <2>2
<1>5. Released(r, a)
  <2> SUFFICES ASSUME r["provider"] # Aster, r["catalog"] # Reserved, NEW f \in Field
               PROVE  r[f] \in a[f]
    BY <1>1, <1>2 DEF Released
  <2>1. CASE f \notin K BY <1>3, <2>1
  <2>2. CASE f \in K
    <3>1. r[f] = Val(c, f) BY <2>2
    <3>2. r[f] \in a[f] \/ r[f] = m.fields[f].installed BY <3>1 DEF Removable, Accounted
    <3>3. CASE f = "catalog"
      <4>1. m.fields[f].installed = Reserved BY <2>2, <3>3 DEF StateType, Installs
      <4> QED BY <3>2, <3>3, <4>1
    <3>4. CASE f # "catalog" BY <2>2, <3>1, <3>2, <3>4
    <3> QED BY <3>3, <3>4
  <2> QED BY <2>1, <2>2
<1> QED BY <1>3, <1>4, <1>5 DEF Removable

LEMMA RemoveBegins ==
  ASSUME CodexInv, RemoveCodex
  PROVE  CodexInv'
<1> DEFINE K == Kept
           r == [f \in Field |-> IF f \in DOMAIN managed.fields \ K
                                   THEN managed.fields[f].before ELSE Value(f)]
<1>1. /\ job' = [op |-> "remove", step |-> "backup", config |-> config, kept |-> K,
                 conflict |-> CatalogConflict, result |-> r]
      /\ Free /\ managed # Absent
      /\ UNCHANGED <<config, catalogFile, apiKey, managed, backups, own, accepted, torn>>
  BY DEF RemoveCodex
<1>2. config \in ConfigType /\ StateType(managed) BY DEF CodexInv, CodexTypes
<1>3. PICK D \in SUBSET Field : managed.fields \in [D -> Remembered]
  BY <1>1, <1>2 DEF StateType, Optional, ManagedRecord
<1>4. \A f \in Field : Value(f) \in Setting BY <1>2 DEF ConfigType, Optional, Value, Setting
<1>5. r \in [Field -> Setting] BY <1>3, <1>4 DEF Remembered
<1>6. /\ K \subseteq DOMAIN managed.fields /\ K \subseteq Field
      /\ \A f \in DOMAIN managed.fields \ K :
           Val(config, f) \in {managed.fields[f].installed, managed.fields[f].before}
      /\ \A f \in K : f = "catalog" \/
           Val(config, f) \notin {managed.fields[f].installed, managed.fields[f].before}
  BY <1>3 DEF Kept, Val, Value
<1>7. \A f \in Field : r[f] = IF f \in DOMAIN managed.fields \ K
                                THEN managed.fields[f].before ELSE Val(config, f)
  BY DEF Val, Value
<1> HIDE DEF K, r
<1>8. /\ RemoveShape(job') /\ job'.op = "remove" /\ job'.step = "backup" /\ job'.config = config
      /\ job'.kept = K /\ job'.result = r
  BY <1>1 DEF RemoveShape, RemoveStep
<1>9. RemoveTypes(job') BY <1>2, <1>5, <1>6, <1>8 DEF RemoveTypes
<1>10. RemoveFiles(job', config', managed') BY <1>1, <1>6, <1>8 DEF RemoveFiles
<1>11. ASSUME ~torn PROVE RemoveKnows(job', managed', accepted')
  <2>1. Removable(config, managed, accepted) BY <1>1, <1>11 DEF CodexInv, RestSound
  <2>2. Removable(r, managed, accepted) /\ \A f \in Field \ K : r[f] \in accepted[f]
    BY <1>1, <1>2, <1>5, <1>6, <1>7, <2>1, ResultOfRemove
  <2> QED BY <1>1, <1>8, <2>1, <2>2 DEF RemoveKnows
<1>12. JobSound' BY <1>1, <1>8, <1>9, <1>10, <1>11 DEF JobSound
<1>13. CodexTypes' BY <1>1 DEF CodexInv, CodexTypes
<1>14. BackupSound'
  <2>1. Saved(config, own, backups) BY DEF CodexInv, BackupSound
  <2> QED BY <1>1, <1>8, <2>1 DEF BackupSound, At
<1>15. RestSound' BY <1>8 DEF RestSound, Free, Finished
<1> QED BY <1>12, <1>13, <1>14, <1>15 DEF CodexInv

LEMMA RemoveProceeds ==
  ASSUME CodexInv, ~Free, job.op = "remove", NEW s \in RemoveStep, Go(s)
  PROVE  /\ RemoveShape(job') /\ job'.op = "remove" /\ job'.step = s /\ SameRemove(job, job')
         /\ RemoveTypes(job')
         /\ ~torn => RemoveKnows(job, managed, accepted) /\ RemoveKnows(job', managed, accepted)
<1>1. RemoveShape(job) /\ RemoveTypes(job) /\ (~torn => RemoveKnows(job, managed, accepted))
  BY RemoveStands
<1>2. RemoveShape(job') /\ job'.op = "remove" /\ job'.step = s /\ SameRemove(job, job')
  BY <1>1, RemoveGoes DEF Go
<1>3. RemoveTypes(job') BY <1>1, <1>2, RemoveTypesKept
<1>4. job.step \notin Finished BY DEF Free
<1>5. ~torn => RemoveKnows(job', managed, accepted) BY <1>1, <1>2, <1>4, RemoveKnowsKept
<1> QED BY <1>1, <1>2, <1>3, <1>5

\* What a step of remove has to show.
LEMMA RemoveStepKept ==
  ASSUME CodexInv, ~Free, job.op = "remove", NEW s \in RemoveStep, Go(s),
         own' = own, accepted' = accepted, torn' = torn,
         backups \subseteq backups', config' \in ConfigType, StateType(managed'),
         catalogFile' \in Optional(CatalogText), s \notin Finished => managed' = managed,
         RemoveFiles(job', config', managed'), Saved(config', own, backups'),
         s = "config" => job.config = Absent \/ job.config \in backups',
         s \in Finished /\ ~torn => Removable(config', managed', accepted)
  PROVE  CodexInv'
<1>1. /\ RemoveShape(job') /\ job'.op = "remove" /\ job'.step = s /\ SameRemove(job, job')
      /\ RemoveTypes(job')
      /\ ~torn => RemoveKnows(job', managed, accepted)
  BY RemoveProceeds
<1>2. ~torn => RemoveKnows(job', managed', accepted) BY <1>1 DEF RemoveKnows
<1>3. JobSound' BY <1>1, <1>2 DEF JobSound
<1>4. CodexTypes' BY DEF CodexInv, CodexTypes
<1>5. Saved(job.config, own, backups') BY SavedGrows DEF CodexInv, BackupSound
<1>6. BackupSound' BY <1>1, <1>5 DEF BackupSound, At, SameRemove
<1>7. RestSound' BY <1>1 DEF RestSound, Free
<1> QED BY <1>3, <1>4, <1>6, <1>7 DEF CodexInv

LEMMA RemoveBacksUp ==
  ASSUME CodexInv, BackupConfig, job.op = "remove"
  PROVE  CodexInv'
<1>1. /\ job.step = "backup" /\ Go("config")
      /\ backups' = IF job.config = Absent THEN backups ELSE backups \cup {job.config}
      /\ UNCHANGED <<config, catalogFile, apiKey, managed, own, accepted, torn>>
  BY DEF BackupConfig, At
<1>2. ~Free BY <1>1 DEF Free, Finished
<1>3. RemoveFiles(job, config, managed) BY RemoveStands
<1>4. "config" \in RemoveStep BY DEF RemoveStep
<1>5. job'.step = "config" /\ SameRemove(job, job') BY <1>1, <1>2, <1>4, RemoveProceeds
<1>6. RemoveFiles(job', config', managed')
  BY <1>1, <1>3, <1>5 DEF RemoveFiles, SameRemove, Finished
<1>7. backups \subseteq backups' /\ (job.config = Absent \/ job.config \in backups') BY <1>1
<1>8. Saved(config', own, backups') BY <1>1, <1>7, SetupHolds, SavedGrows
<1> QED BY <1>1, <1>2, <1>4, <1>6, <1>7, <1>8, SetupHolds, RemoveStepKept DEF Finished

LEMMA RemoveWrites ==
  ASSUME CodexInv, WriteConfig, job.op = "remove"
  PROVE  CodexInv'
<1>1. /\ job.step = "config" /\ Go("drop catalog") /\ config' = job.result
      /\ UNCHANGED <<catalogFile, apiKey, managed, backups, own, accepted, torn>>
  BY DEF WriteConfig, At
<1>2. ~Free BY <1>1 DEF Free, Finished
<1>3. RemoveFiles(job, config, managed) /\ RemoveTypes(job) BY RemoveStands
<1>4. "drop catalog" \in RemoveStep BY DEF RemoveStep
<1>5. job'.step = "drop catalog" /\ SameRemove(job, job') BY <1>1, <1>2, <1>4, RemoveProceeds
<1>6. RemoveFiles(job', config', managed')
  BY <1>1, <1>3, <1>5 DEF RemoveFiles, SameRemove, Finished
<1>7. job.config = Absent \/ job.config \in backups BY <1>1, SetupHolds DEF At
<1>8. Saved(config', own, backups') BY <1>1, <1>2, <1>7, SetupHolds, SavedBacked
<1>9. config' \in ConfigType BY <1>1, <1>3 DEF RemoveTypes, ConfigType, Optional
<1> QED BY <1>1, <1>2, <1>4, <1>6, <1>8, <1>9, SetupHolds, RemoveStepKept DEF Finished

LEMMA CatalogDropped ==
  ASSUME CodexInv, DropCatalog
  PROVE  CodexInv'
<1>1. /\ job.step = "drop catalog" /\ Go("drop record") /\ catalogFile' \in {Absent, catalogFile}
      /\ UNCHANGED <<config, apiKey, managed, backups, own, accepted, torn>>
  BY DEF DropCatalog, At
<1>2. ~Free BY <1>1 DEF Free, Finished
<1>3. job.op = "remove" BY <1>1, OnlyRemove DEF SetupStep, RemoveStep, Undoing, Installing, Installed
<1>4. RemoveFiles(job, config, managed) BY <1>3, RemoveStands
<1>5. "drop record" \in RemoveStep BY DEF RemoveStep
<1>6. job'.step = "drop record" /\ SameRemove(job, job') BY <1>1, <1>2, <1>3, <1>5, RemoveProceeds
<1>7. RemoveFiles(job', config', managed')
  BY <1>1, <1>4, <1>6 DEF RemoveFiles, SameRemove, Finished
<1>8. catalogFile' \in Optional(CatalogText) BY <1>1, SetupHolds DEF Optional
<1> QED BY <1>1, <1>2, <1>3, <1>5, <1>7, <1>8, SetupHolds, RemoveStepKept DEF Finished

LEMMA RemoveCutOff ==
  ASSUME CodexInv, CutOff, job.op = "remove"
  PROVE  CodexInv'
<1>1. /\ ~Free /\ Go("cut off")
      /\ UNCHANGED <<config, catalogFile, apiKey, managed, backups, own, accepted, torn>>
  BY SetupHolds DEF CutOff
<1>2. RemoveShape(job) /\ RemoveFiles(job, config, managed) BY RemoveStands
<1>3. "cut off" \in RemoveStep BY DEF RemoveStep
<1>4. /\ job'.step = "cut off" /\ SameRemove(job, job')
      /\ ~torn => RemoveKnows(job, managed, accepted)
  BY <1>1, <1>3, RemoveProceeds
<1>5. RemoveFiles(job', config', managed') BY <1>4 DEF RemoveFiles, Finished
<1>6. config \in {job.config, job.result}
  BY <1>1, <1>2 DEF RemoveShape, RemoveStep, RemoveFiles, Free, Finished
<1>7. ~torn => Removable(config, managed, accepted) BY <1>1, <1>4, <1>6 DEF RemoveKnows, Free
<1> QED BY <1>1, <1>3, <1>5, <1>7, SetupHolds, RemoveStepKept DEF Finished

LEMMA CutOffKept ==
  ASSUME CodexInv, CutOff
  PROVE  CodexInv'
BY EitherCommand, SetupCutOff, RemoveCutOff DEF CutOff

LEMMA BackupKept ==
  ASSUME CodexInv, BackupConfig
  PROVE  CodexInv'
<1>1. ~Free BY DEF BackupConfig, At, Free, Finished
<1> QED BY <1>1, EitherCommand, SetupBacksUp, RemoveBacksUp

LEMMA WriteKept ==
  ASSUME CodexInv, WriteConfig
  PROVE  CodexInv'
<1>1. ~Free BY DEF WriteConfig, At, Free, Finished
<1> QED BY <1>1, EitherCommand, SetupWrites, RemoveWrites

\* What is left of the state file: the fields that were kept.
Reduced(m, K, x) ==
  [m EXCEPT !.status = "committed", !.fields = [f \in K |-> m.fields[f]], !.catalog = x]
KnownCatalog(x) == x \in Optional([installed : Merged, previous : Optional(CatalogText)])

LEMMA Remainder ==
  ASSUME NEW m \in ManagedRecord, NEW K, K \subseteq DOMAIN m.fields, NEW x, KnownCatalog(x)
  PROVE  /\ Reduced(m, K, x) \in ManagedRecord /\ Reduced(m, K, x) # Absent
         /\ DOMAIN Reduced(m, K, x).fields = K
         /\ \A f \in K : Reduced(m, K, x).fields[f] = m.fields[f]
<1>0. PICK F : F = [f \in K |-> m.fields[f]] OBVIOUS
<1>1. m = [status |-> m.status, fields |-> m.fields, catalog |-> m.catalog] BY DEF ManagedRecord
<1>2. Reduced(m, K, x) = [status |-> "committed", fields |-> F, catalog |-> x]
  <2>1. Reduced(m, K, x) = [m EXCEPT !.status = "committed", !.fields = F, !.catalog = x]
    BY <1>0, Zenon DEF Reduced
  <2> QED BY <1>1, <2>1
<1>3. PICK D \in SUBSET Field : m.fields \in [D -> Remembered] BY DEF ManagedRecord
<1>4. F \in [K -> Remembered] /\ K \in SUBSET Field BY <1>0, <1>3
<1>5. F \in UNION {[E -> Remembered] : E \in SUBSET Field} BY <1>4
<1>6. Reduced(m, K, x) \in ManagedRecord BY <1>2, <1>5 DEF ManagedRecord, KnownCatalog
<1> QED BY <1>0, <1>2, <1>6, ClientAssumption

LEMMA RecordDropped ==
  ASSUME CodexInv, DropRecord
  PROVE  CodexInv'
<1>1. /\ job.step = "drop record"
      /\ UNCHANGED <<config, catalogFile, apiKey, backups, own, accepted, torn>>
  BY DEF DropRecord, At
<1>2. ~Free BY <1>1 DEF Free, Finished
<1>3. job.op = "remove" BY <1>1, OnlyRemove DEF SetupStep, RemoveStep, Undoing, Installing, Installed
<1>4. /\ RemoveFiles(job, config, managed) /\ RemoveTypes(job)
      /\ ~torn => RemoveKnows(job, managed, accepted)
  BY <1>3, RemoveStands
<1>5. config = job.result /\ managed # Absent /\ job.kept \subseteq DOMAIN managed.fields
  BY <1>1, <1>4 DEF RemoveFiles, Finished
<1>6. StateType(managed) /\ config # Absent
  BY <1>4, <1>5, SetupHolds, ClientAssumption DEF RemoveTypes
<1>7. managed \in ManagedRecord BY <1>5, <1>6 DEF StateType, Optional
<1>8. ~torn => /\ Removable(config, managed, accepted)
               /\ \A f \in Field \ job.kept : Val(config, f) \in accepted[f]
  BY <1>2, <1>4, <1>5, <1>6 DEF RemoveKnows, Free, Val
<1>9. CASE job.kept = {} /\ ~job.conflict
  <2>1. managed' = Absent /\ Go("removed") BY <1>9 DEF DropRecord
  <2>2. "removed" \in RemoveStep BY DEF RemoveStep
  <2>3. job'.step = "removed" /\ SameRemove(job, job') BY <1>2, <1>3, <2>1, <2>2, RemoveProceeds
  <2>4. RemoveFiles(job', config', managed') BY <2>1, <2>3 DEF RemoveFiles, Finished
  <2>5. StateType(managed') BY <2>1 DEF StateType, Optional, Installs
  <2>6. ~torn => Removable(config', managed', accepted)
    BY <1>1, <1>8, <1>9, <2>1 DEF Removable, Accounted, Restorable
  <2> QED BY <1>1, <1>2, <1>3, <2>1, <2>2, <2>4, <2>5, <2>6, SetupHolds, RemoveStepKept DEF Finished
<1>10. CASE ~(job.kept = {} /\ ~job.conflict)
  <2>1. PICK x \in {Absent, managed.catalog} :
          managed' = Reduced(managed, job.kept, x) /\ Go("conflicts")
    <3>1. PICK x : x = IF DropsCatalog THEN Absent ELSE managed.catalog OBVIOUS
    <3>2. managed = [status |-> managed.status, fields |-> managed.fields, catalog |-> managed.catalog]
      BY <1>7 DEF ManagedRecord
    <3>3. /\ managed' = [managed EXCEPT !.status = "committed",
                           !.fields = [f \in job.kept |-> managed.fields[f]],
                           !.catalog = IF DropsCatalog THEN Absent ELSE @]
          /\ Go("conflicts")
      BY <1>10 DEF DropRecord
    <3>4. managed' = Reduced(managed, job.kept, x) BY <3>1, <3>2, <3>3 DEF Reduced
    <3> QED BY <3>1, <3>3, <3>4
  <2>2. KnownCatalog(x) BY <1>7 DEF ManagedRecord, Optional, KnownCatalog
  <2>3. managed' \in ManagedRecord /\ managed' # Absent
    BY <1>5, <1>7, <2>1, <2>2, Remainder
  <2>4. /\ DOMAIN managed'.fields = job.kept
        /\ \A f \in job.kept : managed'.fields[f] = managed.fields[f]
    BY <1>5, <1>7, <2>1, <2>2, Remainder
  <2>5. StateType(managed') BY <1>5, <1>6, <2>3, <2>4 DEF StateType, Installs, Optional
  <2>6. "conflicts" \in RemoveStep BY DEF RemoveStep
  <2>7. job'.step = "conflicts" /\ SameRemove(job, job') BY <1>2, <1>3, <2>1, <2>6, RemoveProceeds
  <2>8. RemoveFiles(job', config', managed') BY <2>7 DEF RemoveFiles, Finished
  <2>9. ASSUME ~torn PROVE Removable(config, managed', accepted)
    <3>1. Accounted(config, managed', accepted)
      BY <1>5, <1>8, <2>3, <2>4, <2>9 DEF Removable, Accounted
    <3>2. Restorable(managed', accepted) BY <1>5, <1>8, <2>3, <2>4, <2>9 DEF Removable, Restorable
    <3> QED BY <1>8, <2>9, <3>1, <3>2 DEF Removable
  <2> QED BY <1>1, <1>2, <1>3, <2>1, <2>5, <2>6, <2>8, <2>9, SetupHolds, RemoveStepKept DEF Finished
<1> QED BY <1>9, <1>10

-----------------------------------------------------------------------------
\* What the user accepted only grows.
LEMMA RemovableGrows ==
  ASSUME NEW m, NEW a, NEW a2, Restorable(m, a), StateType(m), \A f \in Field : a[f] \subseteq a2[f]
  PROVE  Restorable(m, a2)
<1>1. m # Absent => DOMAIN m.fields \subseteq Field BY DEF StateType, Optional, ManagedRecord
<1> QED BY <1>1 DEF Restorable

LEMMA FieldEdited ==
  ASSUME CodexInv, NEW f \in Field, NEW v \in Optional(Chosen), EditField(f, v)
  PROVE  CodexInv'
<1> DEFINE base == IF config = Absent THEN Blank ELSE config
           edited == [base EXCEPT ![f] = v]
           abandons == edited.provider # Aster /\ edited.catalog # Reserved
<1>1. /\ Free /\ job' = NoJob /\ config' = edited /\ own' = [own EXCEPT ![f] = v]
      /\ accepted' = [g \in Field |-> accepted[g] \cup (IF g = f \/ abandons THEN {edited[g]} ELSE {})]
      /\ UNCHANGED <<catalogFile, apiKey, managed, backups, torn>>
  BY DEF EditField
<1>2. CodexTypes BY DEF CodexInv
<1>3. v \in Setting BY DEF Optional, Setting
<1>4. base \in [Field -> Setting] BY <1>2 DEF CodexTypes, ConfigType, Optional, Blank, Setting
<1>5. \A g \in Field : base[g] = Val(config, g) BY DEF Blank, Val
<1> HIDE DEF base
<1>6. /\ edited \in [Field -> Setting] /\ edited[f] = v
      /\ \A g \in Field : g # f => edited[g] = Val(config, g)
  BY <1>3, <1>4, <1>5
<1>7. abandons <=> edited["provider"] # Aster /\ edited["catalog"] # Reserved OBVIOUS
<1> HIDE DEF edited, abandons
<1>8. edited # Absent BY <1>6, ClientAssumption
<1>9. \A g \in Field : Val(config', g) = edited[g] BY <1>1, <1>8 DEF Val
<1>10. \A g \in Field : accepted'[g] \in SUBSET Setting /\ accepted[g] \subseteq accepted'[g]
  BY <1>1, <1>2, <1>6 DEF CodexTypes
<1>11. CodexTypes'
  <2>1. config' \in ConfigType BY <1>1, <1>6 DEF ConfigType, Optional
  <2>2. own' \in [Field -> Setting] BY <1>1, <1>2, <1>3 DEF CodexTypes
  <2>3. accepted' \in [Field -> SUBSET Setting] BY <1>1, <1>10
  <2> QED BY <1>1, <1>2, <2>1, <2>2, <2>3 DEF CodexTypes
<1>12. JobSound' BY <1>1 DEF JobSound
<1>13. BackupSound'
  <2>1. Saved(config, own, backups) BY DEF CodexInv, BackupSound
  <2>2. own'[f] = v /\ \A g \in Field : g # f => own'[g] = own[g] BY <1>1, <1>2 DEF CodexTypes
  <2>3. Saved(config', own', backups') BY <1>1, <1>6, <1>9, <2>1, <2>2 DEF Saved
  <2> QED BY <1>1, <2>3, NoJobRests DEF BackupSound, Free, At, Finished
<1>14. ASSUME ~torn PROVE Removable(config', managed', accepted')
  <2>1. Removable(config, managed, accepted) BY <1>1, <1>14 DEF CodexInv, RestSound
  <2>2. v \in accepted'[f] BY <1>1, <1>6
  <2>3. Accounted(config', managed', accepted')
    BY <1>1, <1>6, <1>9, <1>10, <2>1, <2>2 DEF Removable, Accounted
  <2>4. Restorable(managed', accepted')
    BY <1>1, <1>2, <1>10, <2>1, RemovableGrows DEF Removable, CodexTypes
  <2>5. abandons => \A g \in Field : edited[g] \in accepted'[g] BY <1>1
  <2>6. Released(config', accepted') BY <1>1, <1>7, <1>8, <1>9, <2>5 DEF Released
  <2> QED BY <2>3, <2>4, <2>6 DEF Removable
<1>15. RestSound' BY <1>1, <1>14 DEF RestSound
<1> QED BY <1>11, <1>12, <1>13, <1>15 DEF CodexInv

LEMMA CatalogEdited ==
  ASSUME CodexInv, EditCatalog
  PROVE  CodexInv'
<1>1. /\ Free /\ job' = NoJob /\ catalogFile' = Edited
      /\ UNCHANGED <<config, apiKey, managed, backups, own, accepted, torn>>
  BY DEF EditCatalog
<1>2. CodexTypes' BY <1>1 DEF CodexInv, CodexTypes, Optional, CatalogText
<1>3. JobSound' BY <1>1 DEF JobSound
<1>4. BackupSound' BY <1>1, NoJobRests DEF CodexInv, BackupSound, Free, At, Finished
<1>5. RestSound' BY <1>1 DEF CodexInv, RestSound
<1> QED BY <1>2, <1>3, <1>4, <1>5 DEF CodexInv

LEMMA HomeDeleted ==
  ASSUME CodexInv, DeleteHome
  PROVE  CodexInv'
<1>1. /\ Free /\ job' = NoJob /\ config' = Absent /\ catalogFile' = Absent /\ backups' = {}
      /\ own' = Blank /\ accepted' = [f \in Field |-> accepted[f] \cup {Absent}]
      /\ UNCHANGED <<apiKey, managed, torn>>
  BY DEF DeleteHome
<1>2. \A f \in Field : Val(config', f) = Absent /\ Absent \in accepted'[f]
                       /\ accepted[f] \subseteq accepted'[f]
  BY <1>1 DEF Val
<1>3. CodexTypes'
  <2>1. accepted' \in [Field -> SUBSET Setting] BY <1>1 DEF CodexInv, CodexTypes, Setting
  <2>2. own' \in [Field -> Setting] BY <1>1 DEF Blank, Setting
  <2> QED BY <1>1, <2>1, <2>2 DEF CodexInv, CodexTypes, ConfigType, Optional
<1>4. JobSound' BY <1>1 DEF JobSound
<1>5. BackupSound' BY <1>1, NoJobRests DEF BackupSound, Saved, Blank, Free, At, Finished
<1>6. ASSUME ~torn PROVE Removable(config', managed', accepted')
  <2>1. Restorable(managed, accepted) /\ StateType(managed)
    BY <1>1, <1>6 DEF CodexInv, RestSound, Removable, CodexTypes
  <2>2. Restorable(managed', accepted') BY <1>1, <1>2, <2>1, RemovableGrows
  <2> QED BY <1>2, <2>2 DEF Removable, Accounted, Released
<1>7. RestSound' BY <1>1, <1>6 DEF RestSound
<1> QED BY <1>3, <1>4, <1>5, <1>7 DEF CodexInv

LEMMA CodexStarts ==
  ASSUME ClientInit
  PROVE  CodexInv
<1>1. /\ config \in Optional([provider : Chosen, url : {Absent}, catalog : Optional(Chosen)])
      /\ own = IF config = Absent THEN Blank ELSE config
      /\ accepted = [f \in Field |-> {own[f]}]
      /\ catalogFile = Absent /\ managed = Absent /\ backups = {} /\ job = NoJob /\ torn = FALSE
  BY DEF ClientInit
<1>2. config \in ConfigType
  <2>1. ASSUME config # Absent PROVE config \in [Field -> Setting]
    <3>1. config \in [provider : Chosen, url : {Absent}, catalog : Optional(Chosen)]
      BY <1>1, <2>1 DEF Optional
    <3> QED BY <3>1 DEF Field, Setting, Optional
  <2> QED BY <2>1 DEF ConfigType, Optional
<1>3. own \in [Field -> Setting] BY <1>1, <1>2 DEF ConfigType, Optional, Blank, Setting
<1>4. \A f \in Field : own[f] = Val(config, f) BY <1>1 DEF Val, Blank
<1>5. CodexTypes
  BY <1>1, <1>2, <1>3 DEF CodexTypes, StateType, Installs, Optional
<1>6. JobSound BY <1>1 DEF JobSound
<1>7. BackupSound BY <1>1, <1>4, NoJobRests DEF BackupSound, Saved, Free, At, Finished
<1>8. RestSound
  BY <1>1, <1>4 DEF RestSound, Removable, Accounted, Restorable, Released
<1> QED BY <1>5, <1>6, <1>7, <1>8 DEF CodexInv

LEMMA CodexKept ==
  ASSUME CodexInv, CodexNext
  PROVE  CodexInv'
BY SetupBegins, RemoveBegins, FieldEdited, CatalogEdited, HomeDeleted, RecordWritten, RecordRefused,
   CatalogInstalls, BackupKept, WriteKept, KeyWritten, Verified, SetupCommits, SetupTurnsBack,
   UndoKept, CutOffKept, CatalogDropped, RecordDropped
   DEF CodexNext

LEMMA CodexStutters ==
  ASSUME CodexInv, UNCHANGED codexVars
  PROVE  CodexInv'
BY DEF codexVars, CodexInv, CodexTypes, JobSound, BackupSound, RestSound, Free, At

\* The properties of the Codex commands.
LEMMA CodexProperties ==
  ASSUME CodexInv
  PROVE  NothingOverwritten /\ RemovedRestores /\ FailedSetupUndone /\ ConfiguredReady
<1>1. NothingOverwritten BY DEF CodexInv, BackupSound, Saved, NothingOverwritten, Val, Value
<1>2. RemovedRestores
  <2> SUFFICES ASSUME At("removed"), ~torn, NEW f \in Field PROVE Value(f) \in accepted[f]
    BY DEF RemovedRestores
  <2>1. job.op = "remove"
    BY OnlyRemove DEF At, SetupStep, RemoveStep, Undoing, Installing, Installed
  <2>2. managed = Absent BY <2>1, RemoveStands DEF At, RemoveFiles
  <2>3. Removable(config, managed, accepted) BY DEF CodexInv, RestSound, At, Free, Finished
  <2> QED BY <2>2, <2>3 DEF Removable, Accounted, Val, Value
<1>3. FailedSetupUndone
  <2> SUFFICES ASSUME At("undone")
               PROVE  /\ config = job.config /\ catalogFile = job.catalogFile
                      /\ apiKey = job.apiKey /\ managed = job.managed
    BY DEF FailedSetupUndone
  <2>1. job.op = "setup" BY OnlySetup DEF At, SetupStep, RemoveStep
  <2> QED BY <2>1, SetupStands DEF At, SetupFiles
<1>4. ConfiguredReady
  <2> SUFFICES ASSUME At("configured")
               PROVE  /\ \A f \in Field : Value(f) = managed.fields[f].installed
                      /\ managed.status = "committed" /\ catalogFile = managed.catalog.installed
                      /\ apiKey # Absent => CodexReady
    BY DEF ConfiguredReady
  <2>1. job.op = "setup" BY OnlySetup DEF At, SetupStep, RemoveStep
  <2>2. SetupTypes(job) /\ SetupFiles(job, config, managed, catalogFile, apiKey) BY <2>1, SetupStands
  <2>3. config = job.result /\ managed = Committed(job.state) /\ catalogFile = job.models
    BY <2>2 DEF At, SetupFiles
  <2>4. /\ managed.fields = job.state.fields /\ managed.status = "committed"
        /\ managed.catalog = [installed |-> job.models, previous |-> Absent]
    BY <2>2, <2>3, CommittedState
  <2>5. config # Absent BY <2>2, <2>3, ClientAssumption DEF SetupTypes
  <2>6. \A f \in Field : Value(f) = job.result[f] BY <2>3, <2>5 DEF Value
  <2>7. \A f \in Field : Value(f) = managed.fields[f].installed BY <2>2, <2>4, <2>6 DEF SetupTypes
  <2>8. catalogFile # Absent BY <2>2, <2>3, ClientAssumption DEF SetupTypes
  <2>9. apiKey # Absent => CodexReady
    BY <2>2, <2>6, <2>8 DEF CodexReady, ProviderComplete, SetupTypes, Field
  <2> QED BY <2>3, <2>4, <2>7, <2>9
<1> QED BY <1>1, <1>2, <1>3, <1>4

-----------------------------------------------------------------------------
\* A step of a Claude command.
LEMMA ClaudeGoes ==
  ASSUME ClaudeInv, NEW s \in ClaudeStep, claudeJob.step # "none", ClaudeGo(s)
  PROVE  /\ ClaudeShape(claudeJob) /\ ClaudeFiles(claudeJob, settings, copies, lost)
         /\ ClaudeShape(claudeJob') /\ claudeJob'.step = s
         /\ claudeJob'.original = claudeJob.original /\ claudeJob'.rendered = claudeJob.rendered
         /\ claudeJob'.backup = claudeJob.backup
<1>1. ClaudeShape(claudeJob) /\ ClaudeFiles(claudeJob, settings, copies, lost)
  BY NoJobRests DEF ClaudeInv, ClaudeJobSound
<1>2. claudeJob = [step |-> claudeJob.step, original |-> claudeJob.original,
                   rendered |-> claudeJob.rendered, backup |-> claudeJob.backup]
  BY <1>1 DEF ClaudeShape
<1>3. claudeJob' = [step |-> s, original |-> claudeJob.original,
                    rendered |-> claudeJob.rendered, backup |-> claudeJob.backup]
  BY <1>2 DEF ClaudeGo
<1>4. claudeJob.original \in Optional(Chosen \cup Rendered) BY <1>1 DEF ClaudeShape
<1> QED BY <1>1, <1>3, <1>4 DEF ClaudeShape

\* Of two of the sets a file can be from, it is in one.
LEMMA NotOwn ==
  ASSUME ClaudeInv, settings \in Rendered, ownSettings # Absent, ~lost
  PROVE  \E i \in DOMAIN copies : copies[i] = ownSettings
<1>1. ownSettings \in Chosen BY DEF ClaudeInv, ClaudeTypes, Optional
<1>2. settings # ownSettings BY <1>1, ClientAssumption
<1> QED BY <1>2 DEF ClaudeInv, SettingsKept

LEMMA ClaudeBegins ==
  ASSUME ClaudeInv, NEW rendered \in Rendered, SetupClaude(rendered)
  PROVE  ClaudeInv'
<1>1. PICK s \in {"write", "copy"} :
      /\ claudeJob' = [step |-> s, original |-> settings, rendered |-> rendered, backup |-> Absent]
      /\ s = "write" <=> settings = Absent
      /\ UNCHANGED <<settings, claudeState, copies, ownSettings, lost>>
  BY DEF SetupClaude
<1>2. /\ claudeJob'.step = s /\ claudeJob'.original = settings /\ claudeJob'.rendered = rendered
      /\ claudeJob'.backup = Absent
  BY <1>1
<1>3. ClaudeShape(claudeJob') BY <1>1, <1>2 DEF ClaudeShape, ClaudeStep, ClaudeInv, ClaudeTypes
<1>4. ClaudeFiles(claudeJob', settings', copies', lost')
  BY <1>1, <1>2 DEF ClaudeFiles, Backed
<1> QED BY <1>1, <1>3, <1>4
  DEF ClaudeInv, ClaudeTypes, StateSound, ClaudeJobSound, SettingsKept

LEMMA BackupWritten ==
  ASSUME ClaudeInv, WriteBackup
  PROVE  ClaudeInv'
<1> DEFINE n == Len(copies) + 1
<1>1. /\ claudeJob.step = "copy" /\ copies' = Append(copies, claudeJob.original)
      /\ claudeJob' = [claudeJob EXCEPT !.step = "write", !.backup = n]
      /\ UNCHANGED <<settings, claudeState, ownSettings, lost>>
  BY DEF WriteBackup, ClaudeAt
<1>2. ClaudeShape(claudeJob) /\ ClaudeFiles(claudeJob, settings, copies, lost)
  BY <1>1, NoJobRests DEF ClaudeInv, ClaudeJobSound
<1>3. claudeJob = [step |-> claudeJob.step, original |-> claudeJob.original,
                   rendered |-> claudeJob.rendered, backup |-> claudeJob.backup]
  BY <1>2 DEF ClaudeShape
<1> HIDE DEF n
<1>4. claudeJob' = [step |-> "write", original |-> claudeJob.original,
                    rendered |-> claudeJob.rendered, backup |-> n]
  BY <1>1, <1>3
<1>5. claudeJob.original \in Optional(Chosen \cup Rendered)
      /\ copies \in Seq(Optional(Chosen \cup Rendered))
  BY <1>2 DEF ClaudeShape, ClaudeInv, ClaudeTypes
<1>6. /\ copies' \in Seq(Optional(Chosen \cup Rendered)) /\ DOMAIN copies \subseteq DOMAIN copies'
      /\ n \in DOMAIN copies' /\ copies'[n] = claudeJob.original
      /\ \A i \in DOMAIN copies : copies'[i] = copies[i]
  BY <1>1, <1>5 DEF n
<1>7. ClaudeShape(claudeJob') BY <1>4, <1>5 DEF ClaudeShape, ClaudeStep
<1>8. ClaudeFiles(claudeJob', settings', copies', lost')
  BY <1>1, <1>2, <1>4, <1>6 DEF ClaudeFiles, Backed
<1>9. SettingsKept' BY <1>1, <1>6 DEF ClaudeInv, SettingsKept
<1>10. StateSound' BY <1>1, <1>6 DEF ClaudeInv, StateSound
<1> QED BY <1>1, <1>6, <1>7, <1>8, <1>9, <1>10 DEF ClaudeInv, ClaudeTypes, ClaudeJobSound

LEMMA SettingsWritten ==
  ASSUME ClaudeInv, WriteSettings
  PROVE  ClaudeInv'
<1>1. /\ claudeJob.step = "write" /\ UNCHANGED <<claudeState, copies, ownSettings, lost>>
      /\ \/ settings' = claudeJob.rendered /\ ClaudeGo("state")
         \/ settings' = settings /\ ClaudeGo("discard")
  BY DEF WriteSettings, ClaudeAt
<1>2. ClaudeFiles(claudeJob, settings, copies, lost)
  BY <1>1, ClaudeGoes DEF ClaudeStep
<1>3. Backed(claudeJob, copies) /\ settings = claudeJob.original /\ claudeJob.rendered \in Rendered
      /\ (claudeJob.original = Absent => claudeJob.backup = Absent)
  BY <1>1, <1>2 DEF ClaudeFiles
<1>4. CASE settings' = claudeJob.rendered /\ ClaudeGo("state")
  <2>1. /\ ClaudeShape(claudeJob') /\ claudeJob'.step = "state"
        /\ claudeJob'.original = claudeJob.original /\ claudeJob'.rendered = claudeJob.rendered
        /\ claudeJob'.backup = claudeJob.backup
    BY <1>1, <1>4, ClaudeGoes DEF ClaudeStep
  <2>2. ClaudeFiles(claudeJob', settings', copies', lost')
    BY <1>1, <1>3, <1>4, <2>1 DEF ClaudeFiles, Backed
  <2>3. settings' \in Optional(Chosen \cup Rendered) BY <1>3, <1>4 DEF Optional
  <2>4. SettingsKept' BY <1>1, <1>3 DEF ClaudeInv, SettingsKept, Backed
  <2> QED BY <1>1, <2>1, <2>2, <2>3, <2>4 DEF ClaudeInv, ClaudeTypes, ClaudeJobSound, StateSound
<1>5. CASE settings' = settings /\ ClaudeGo("discard")
  <2>1. /\ ClaudeShape(claudeJob') /\ claudeJob'.step = "discard"
        /\ claudeJob'.original = claudeJob.original /\ claudeJob'.rendered = claudeJob.rendered
        /\ claudeJob'.backup = claudeJob.backup
    BY <1>1, <1>5, ClaudeGoes DEF ClaudeStep
  <2>2. ClaudeFiles(claudeJob', settings', copies', lost')
    BY <1>1, <1>3, <1>5, <2>1 DEF ClaudeFiles, Backed
  <2> QED BY <1>1, <1>5, <2>1, <2>2
    DEF ClaudeInv, ClaudeTypes, ClaudeJobSound, StateSound, SettingsKept
<1> QED BY <1>1, <1>4, <1>5

LEMMA StateWritten ==
  ASSUME ClaudeInv, WriteState
  PROVE  ClaudeInv'
<1>1. /\ claudeJob.step = "state" /\ UNCHANGED <<settings, copies, ownSettings, lost>>
      /\ \/ /\ claudeState' = [installed |-> claudeJob.rendered, backup |-> claudeJob.backup,
                               created |-> claudeJob.original = Absent]
            /\ ClaudeGo("ended")
         \/ claudeState' = claudeState /\ ClaudeGo("restore")
  BY DEF WriteState, ClaudeAt
<1>2. PICK s \in {"ended", "restore"} : ClaudeGo(s) BY <1>1
<1>3. /\ ClaudeFiles(claudeJob, settings, copies, lost)
      /\ ClaudeShape(claudeJob') /\ claudeJob'.step = s
      /\ claudeJob'.original = claudeJob.original /\ claudeJob'.rendered = claudeJob.rendered
      /\ claudeJob'.backup = claudeJob.backup
  BY <1>1, <1>2, ClaudeGoes DEF ClaudeStep
<1>4. Backed(claudeJob, copies) /\ claudeJob.rendered \in Rendered /\ settings \in Rendered
      /\ (claudeJob.original = Absent => claudeJob.backup = Absent)
  BY <1>1, <1>3 DEF ClaudeFiles
<1>5. ClaudeFiles(claudeJob', settings', copies', lost')
  BY <1>1, <1>3, <1>4 DEF ClaudeFiles, Backed
<1>6. StateSound'
  <2>1. CASE claudeState' = claudeState BY <1>1, <2>1 DEF ClaudeInv, StateSound
  <2>2. CASE claudeState' = [installed |-> claudeJob.rendered, backup |-> claudeJob.backup,
                             created |-> claudeJob.original = Absent]
    <3>1. /\ claudeState'.installed = claudeJob.rendered /\ claudeState'.backup = claudeJob.backup
          /\ claudeState'.created = (claudeJob.original = Absent)
      BY <2>2
    <3>2. ~claudeState'.created => claudeJob.original # Absent BY <3>1
    <3> QED BY <1>1, <1>4, <3>1, <3>2 DEF StateSound, Backed
  <2> QED BY <1>1, <2>1, <2>2
<1> QED BY <1>1, <1>3, <1>5, <1>6 DEF ClaudeInv, ClaudeTypes, ClaudeJobSound, SettingsKept

LEMMA SettingsRestored ==
  ASSUME ClaudeInv, RestoreSettings
  PROVE  ClaudeInv'
<1>1. /\ claudeJob.step = "restore" /\ ClaudeGo("discard")
      /\ UNCHANGED <<claudeState, copies, ownSettings>>
      /\ \/ settings' = claudeJob.original /\ lost' = lost
         \/ settings' = settings /\ lost' = TRUE
  BY DEF RestoreSettings, ClaudeAt
<1>2. /\ ClaudeShape(claudeJob) /\ ClaudeFiles(claudeJob, settings, copies, lost)
      /\ ClaudeShape(claudeJob') /\ claudeJob'.step = "discard"
      /\ claudeJob'.original = claudeJob.original /\ claudeJob'.rendered = claudeJob.rendered
      /\ claudeJob'.backup = claudeJob.backup
  BY <1>1, ClaudeGoes DEF ClaudeStep
<1>3. /\ Backed(claudeJob, copies) /\ settings \in Rendered
      /\ claudeJob.original = Absent => claudeJob.backup = Absent
  BY <1>1, <1>2 DEF ClaudeFiles
<1>4. ClaudeFiles(claudeJob', settings', copies', lost')
  BY <1>1, <1>2, <1>3 DEF ClaudeFiles, Backed
<1>5. SettingsKept' BY <1>1, <1>3, NotOwn DEF SettingsKept
<1>6. ClaudeTypes' BY <1>1, <1>2 DEF ClaudeInv, ClaudeTypes, ClaudeShape
<1> QED BY <1>1, <1>2, <1>4, <1>5, <1>6 DEF ClaudeInv, ClaudeJobSound, StateSound

LEMMA BackupDiscarded ==
  ASSUME ClaudeInv, DiscardBackup
  PROVE  ClaudeInv'
<1>1. PICK s \in {"forget", "ended"} :
      /\ claudeJob.step = "discard" /\ ClaudeGo(s)
      /\ copies' = IF claudeJob.backup = Absent THEN copies
                                                ELSE [copies EXCEPT ![claudeJob.backup] = Absent]
      /\ UNCHANGED <<settings, claudeState, ownSettings, lost>>
  BY DEF DiscardBackup, ClaudeAt
<1>2. /\ ClaudeFiles(claudeJob, settings, copies, lost)
      /\ ClaudeShape(claudeJob') /\ claudeJob'.step = s
  BY <1>1, ClaudeGoes DEF ClaudeStep
<1>3. /\ claudeJob.backup # Absent => /\ claudeJob.backup \in DOMAIN copies
                                      /\ copies[claudeJob.backup] = claudeJob.original
      /\ ~lost => settings = claudeJob.original
  BY <1>1, <1>2 DEF ClaudeFiles, Backed
<1>4. copies \in Seq(Optional(Chosen \cup Rendered)) BY DEF ClaudeInv, ClaudeTypes
<1>5. Absent \in Optional(Chosen \cup Rendered) BY DEF Optional
<1>6. /\ copies' \in Seq(Optional(Chosen \cup Rendered)) /\ DOMAIN copies' = DOMAIN copies
      /\ \A i \in DOMAIN copies : i # claudeJob.backup => copies'[i] = copies[i]
      /\ claudeJob.backup = Absent => copies' = copies
  BY <1>1, <1>3, <1>4, <1>5
<1>7. ClaudeFiles(claudeJob', settings', copies', lost') BY <1>1, <1>2 DEF ClaudeFiles
<1>8. SettingsKept' BY <1>1, <1>3, <1>6 DEF ClaudeInv, SettingsKept
<1>9. StateSound' BY <1>1, <1>6 DEF ClaudeInv, StateSound
<1> QED BY <1>1, <1>2, <1>6, <1>7, <1>8, <1>9 DEF ClaudeInv, ClaudeTypes, ClaudeJobSound

LEMMA ClaudeRemoves ==
  ASSUME ClaudeInv, RemoveClaude
  PROVE  ClaudeInv'
<1> DEFINE o == IF claudeState.created THEN Absent ELSE copies[claudeState.backup]
<1>1. /\ ClaudeUnchanged /\ UNCHANGED <<settings, claudeState, copies, ownSettings, lost>>
      /\ claudeJob' = [step |-> "put back", original |-> o, rendered |-> Absent,
                       backup |-> claudeState.backup]
  BY DEF RemoveClaude
<1>2. settings \in Rendered /\ (~claudeState.created => claudeState.backup \in DOMAIN copies)
  BY <1>1 DEF ClaudeUnchanged, ClaudeInv, StateSound
<1>3. o # Absent => claudeState.backup \in DOMAIN copies /\ copies[claudeState.backup] = o
  BY <1>2
<1>4. o \in Optional(Chosen \cup Rendered)
  BY <1>2 DEF ClaudeInv, ClaudeTypes, Optional
<1> HIDE DEF o
<1>5. /\ claudeJob'.step = "put back" /\ claudeJob'.original = o
      /\ claudeJob'.backup = claudeState.backup /\ ClaudeShape(claudeJob')
  BY <1>1, <1>4 DEF ClaudeShape, ClaudeStep
<1>6. ClaudeFiles(claudeJob', settings', copies', lost')
  BY <1>1, <1>2, <1>3, <1>5 DEF ClaudeFiles, Backed
<1> QED BY <1>1, <1>5, <1>6 DEF ClaudeInv, ClaudeTypes, ClaudeJobSound, StateSound, SettingsKept

LEMMA OriginalPutBack ==
  ASSUME ClaudeInv, PutBack
  PROVE  ClaudeInv'
<1>1. PICK s \in {"forget", "discard"} :
      /\ claudeJob.step = "put back" /\ settings' = claudeJob.original /\ ClaudeGo(s)
      /\ s = "forget" <=> claudeJob.original = Absent
      /\ UNCHANGED <<claudeState, copies, ownSettings, lost>>
  BY DEF PutBack, ClaudeAt
<1>2. /\ ClaudeShape(claudeJob) /\ ClaudeFiles(claudeJob, settings, copies, lost)
      /\ ClaudeShape(claudeJob') /\ claudeJob'.step = s
      /\ claudeJob'.original = claudeJob.original /\ claudeJob'.backup = claudeJob.backup
  BY <1>1, ClaudeGoes DEF ClaudeStep
<1>3. Backed(claudeJob, copies) /\ settings \in Rendered BY <1>1, <1>2 DEF ClaudeFiles
<1>4. ClaudeFiles(claudeJob', settings', copies', lost')
  BY <1>1, <1>2, <1>3 DEF ClaudeFiles, Backed
<1>5. SettingsKept' BY <1>1, <1>3, NotOwn DEF SettingsKept
<1>6. ClaudeTypes' BY <1>1, <1>2 DEF ClaudeInv, ClaudeTypes, ClaudeShape
<1> QED BY <1>1, <1>2, <1>4, <1>5, <1>6 DEF ClaudeInv, ClaudeJobSound, StateSound

LEMMA ClaudeEnds ==
  ASSUME ClaudeInv, ForgetState \/ ClaudeCutOff
  PROVE  ClaudeInv'
<1>1. /\ claudeJob.step # "none" /\ ClaudeGo("ended") /\ claudeState' \in {claudeState, Absent}
      /\ UNCHANGED <<settings, copies, ownSettings, lost>>
  BY DEF ForgetState, ClaudeCutOff, ClaudeFree, ClaudeAt
<1>2. ClaudeShape(claudeJob') /\ claudeJob'.step = "ended" BY <1>1, ClaudeGoes DEF ClaudeStep
<1>3. ClaudeFiles(claudeJob', settings', copies', lost') BY <1>2 DEF ClaudeFiles
<1> QED BY <1>1, <1>2, <1>3 DEF ClaudeInv, ClaudeTypes, ClaudeJobSound, StateSound, SettingsKept

LEMMA SettingsEdited ==
  ASSUME ClaudeInv, NEW v \in Chosen, EditSettings(v)
  PROVE  ClaudeInv'
BY DEF EditSettings, ClaudeInv, ClaudeTypes, ClaudeJobSound, StateSound, SettingsKept, Optional

LEMMA ClaudeStarts ==
  ASSUME ClientInit
  PROVE  ClaudeInv
<1>1. /\ settings \in Optional(Chosen) /\ ownSettings = settings
      /\ claudeState = Absent /\ copies = << >> /\ claudeJob = NoJob /\ lost = FALSE
  BY DEF ClientInit
<1>2. copies \in Seq(Optional(Chosen \cup Rendered)) BY <1>1
<1>3. ClaudeTypes BY <1>1, <1>2 DEF ClaudeTypes, Optional
<1> QED BY <1>1, <1>3 DEF ClaudeInv, ClaudeJobSound, StateSound, SettingsKept

LEMMA ClaudeKept ==
  ASSUME ClaudeInv, ClaudeNext
  PROVE  ClaudeInv'
BY ClaudeBegins, ClaudeRemoves, SettingsEdited, BackupWritten, SettingsWritten, StateWritten,
   SettingsRestored, BackupDiscarded, OriginalPutBack, ClaudeEnds DEF ClaudeNext

LEMMA ClaudeStutters ==
  ASSUME ClaudeInv, UNCHANGED claudeVars
  PROVE  ClaudeInv'
BY DEF claudeVars, ClaudeInv, ClaudeTypes, ClaudeJobSound, StateSound, SettingsKept

\* The commands of asterctl keep what belongs to the user: wherever setup or
\* remove is cut off or fails, what the user chose is in the configuration or
\* in a backup, a failed setup is undone, a completed one is ready, and a
\* remove leaves nothing of Aster, for any values, edits and number of commands.
\* Set apart as in ClientSound: a change of the URL that was cut off (torn) and
\* a Claude setup that could not undo what it had written (lost).
THEOREM ClientKeepsUserFiles == ClientSpec => []ClientSound
<1>1. ClientInit => CodexInv /\ ClaudeInv BY CodexStarts, ClaudeStarts
<1>2. CodexInv /\ ClaudeInv /\ [ClientNext]_clientVars => (CodexInv /\ ClaudeInv)'
  BY CodexKept, CodexStutters, ClaudeKept, ClaudeStutters DEF ClientNext, clientVars
<1>3. CodexInv /\ ClaudeInv => ClientSound
  BY CodexProperties DEF ClientSound, ClaudeInv
<1> QED BY <1>1, <1>2, <1>3, PTL DEF ClientSpec
=============================================================================
