---------------------------- MODULE LicenseState ----------------------------
(***************************************************************************)
(* The license of an installation and its files: the active document, the  *)
(* authenticated history, the staged (future) document, the outbox of      *)
(* license audits and the intent of an unfinished update                   *)
(* (crates/license-state: lib.rs, transaction.rs), with the code of        *)
(* control/src/lib.rs that drives them: import, lazy activation, the       *)
(* lease a business mutation holds over its database commit, and the       *)
(* copying of license audits into the audit chain.                         *)
(*                                                                         *)
(* A task is one request, one command or one background job; several run   *)
(* in several operating-system processes over the same files.  A section   *)
(* under the state lock that writes at most one file is one step (every    *)
(* single write is an atomic rename); a section that writes several files  *)
(* keeps the lock over one step per file, and the task can fail or die     *)
(* between any two of them.                                                *)
(***************************************************************************)
EXTENDS Naturals, Sequences, SequencesExt, FiniteSets

CONSTANTS
    Actor,       \* requests, commands and background jobs
    Importer,    \* the tasks that import licenses or switch to the free one
    Serving,     \* the tasks that serve requests
    Doc,         \* signed license documents
    Meta,        \* Meta[d]: identity, issue time, sequence, validity, seats
    NoDoc,       \* no document (no file)
    Nobody,      \* nobody holds the lock
    FirstDoc,    \* the document installed with the program
    MaxTime,     \* bound: the clock
    MaxImports,  \* bound: license imports and free switches
    MaxFaults,   \* bound: crashes, input/output errors, clocks set back
    MaxSeats     \* bound: members

Time == 0 .. MaxTime

ASSUME LicenseAssumption ==
    /\ {MaxTime, MaxImports, MaxFaults, MaxSeats} \subseteq Nat
    /\ Importer \subseteq Actor /\ Serving \subseteq Actor
    /\ FirstDoc \in Doc /\ NoDoc \notin Doc /\ Nobody \notin Actor
    /\ Meta \in [Doc -> [id : Nat, issued : Nat, seq : Nat, from : Time,
                         until : Nat, free : BOOLEAN, seats : Nat]]

VARIABLES
    now,       \* the clock of the machine
    file,      \* the files, by name
    locked,    \* holder of the state lock (.lock)
    exclusive, \* holder of the mutation lock in exclusive mode (.mutation)
    lease,     \* lease[t]: the document under which t holds it in shared mode
    job,       \* job[t]: what t is doing
    log,       \* the audit chain, reduced to its events
    seats,     \* members occupying a seat
    imports,   \* imports started, the source of fresh event identifiers
    faults     \* crashes and errors so far

licenseVars == <<now, file, locked, exclusive, lease, job, log, seats, imports, faults>>

(***************************************************************************)
(* Files.  An event of the outbox is an import (its own identifier) or an  *)
(* automatic activation (identified by the document).                      *)
(***************************************************************************)
Import(n, d) == [import |-> n, doc |-> d]
Activation(d) == [import |-> 0, doc |-> d]
NoEvent == [import |-> 0, doc |-> NoDoc]

NoIntent == [kind |-> "none"]

StateFromLicense(d) ==
    [doc |-> d, id |-> Meta[d].id, issued |-> Meta[d].issued, seq |-> Meta[d].seq, seen |-> now]

IdleActor == [pc |-> "idle", doc |-> NoDoc, staged |-> NoDoc, event |-> NoEvent,
              intent |-> NoIntent, todo |-> <<>>, list |-> <<>>, tail |-> 0]

LicenseInit ==
    /\ now = 0
    /\ file = [license |-> FirstDoc, history |-> StateFromLicense(FirstDoc), staged |-> NoDoc,
               outbox |-> <<>>, pending |-> NoIntent]
    /\ locked = Nobody /\ exclusive = Nobody
    /\ lease = [t \in Actor |-> NoDoc]
    /\ job = [t \in Actor |-> IdleActor]
    /\ log = <<>>
    /\ seats = 0 /\ imports = 0 /\ faults = 0

(***************************************************************************)
(* Rules of progress.                                                      *)
(***************************************************************************)
IsRecordedFree(h, d) == Meta[d].free /\ h.id = Meta[d].id /\ h.doc = d

ValidateProgress(h, d) ==
    /\ Meta[d].free => h.doc = d
    /\ \/ IsRecordedFree(h, d)
       \/ h.id # Meta[d].id /\ Meta[d].issued > h.issued
       \/ /\ h.id = Meta[d].id
          /\ Meta[d].issued >= h.issued /\ Meta[d].seq >= h.seq
          /\ Meta[d].seq = h.seq /\ Meta[d].issued = h.issued => h.doc = d

ValidateObservation(h, d) == ValidateProgress(h, d) /\ now >= h.seen

Observe(h, d) ==
    LET advances == ~IsRecordedFree(h, d) /\ (Meta[d].seq > h.seq \/ Meta[d].issued > h.issued)
    IN  [doc |-> d, id |-> Meta[d].id,
         issued |-> IF advances THEN Meta[d].issued ELSE h.issued,
         seq |-> IF advances THEN Meta[d].seq ELSE h.seq,
         seen |-> IF now > h.seen THEN now ELSE h.seen]

Current(d) == Meta[d].from <= now /\ now < Meta[d].until

(***************************************************************************)
(* Locks.  The state lock serialises sections; the mutation lock is tried, *)
(* never waited for.                                                       *)
(***************************************************************************)
FreeFor(t) == locked \in {Nobody, t}

\* Mistake: an update does not wait for the mutations in flight.
CanExclude_Impatient(t) == exclusive \in {Nobody, t}

CanExclude(t) == exclusive \in {Nobody, t} /\ \A u \in Actor : lease[u] = NoDoc

CanShare == exclusive = Nobody

RequireNoPendingUpdate == file.pending = NoIntent

\* t leaves its section and continues at j.
Continue(t, j) ==
    /\ locked' = IF locked = t THEN Nobody ELSE locked
    /\ job' = [job EXCEPT ![t] = j]

\* t returns, with or without an error, and drops everything it holds.
Return(t) ==
    /\ Continue(t, IdleActor)
    /\ exclusive' = IF exclusive = t THEN Nobody ELSE exclusive
    /\ lease' = [lease EXCEPT ![t] = NoDoc]

\* Sections that finish an interrupted update before their own work.
Recovering == {"read", "install", "stage", "begin", "load", "reload", "find", "clear", "activate", "list", "ack"}

\* t, which has no recovery left to do, may run the section at pc.
Enter(t, pc) == job[t].pc = pc /\ job[t].todo = <<>> /\ FreeFor(t) /\ (pc \in Recovering => RequireNoPendingUpdate)

\* What t has read so far, at pc; the staged document is of no use afterwards.
At(t, pc) == [job[t] EXCEPT !.pc = pc, !.staged = IF pc \in {"clear", "activate"} THEN @ ELSE NoDoc]

(***************************************************************************)
(* The recoverable update: intent, one rename per file, empty marker.      *)
(***************************************************************************)
Updated(i) == IF i.kind = "stage" THEN <<"staged", "outbox">> ELSE <<"history", "license", "outbox">>

RequireExpectedFile(i) ==
    \A f \in Range(Updated(i)) : file[f] \in {i.previous[f], i.next[f]}

Intent(kind, next) == [kind |-> kind, previous |-> [f \in DOMAIN next |-> file[f]], next |-> next]

\* The section of t has written its intent and goes on to the files.
FinishUpdate(t, i, pc) ==
    job' = [job EXCEPT ![t].intent = i, ![t].todo = Updated(i) \o <<"pending">>, ![t].pc = pc]

WriteUpdateIntent(t, i, pc) ==
    /\ locked' = t /\ exclusive' = t
    /\ file' = [file EXCEPT !.pending = i]
    /\ FinishUpdate(t, i, pc)
    /\ UNCHANGED lease

\* The next task to take the lock finishes what another one left behind.
RecoverUpdate(t) ==
    /\ job[t].pc \in Recovering /\ job[t].todo = <<>> /\ FreeFor(t)
    /\ ~RequireNoPendingUpdate
    /\ CanExclude(t) /\ RequireExpectedFile(file.pending)
    /\ locked' = t /\ exclusive' = t
    /\ FinishUpdate(t, file.pending, job[t].pc)
    /\ UNCHANGED <<now, file, lease, log, seats, imports, faults>>

\* A mutation is in flight, or a file is not one the intent knows: an error,
\* which the readers of the optional staged document and of its audits only log.
RecoverFails(t) ==
    /\ job[t].pc \in Recovering /\ job[t].todo = <<>> /\ FreeFor(t)
    /\ ~RequireNoPendingUpdate
    /\ ~(CanExclude(t) /\ RequireExpectedFile(file.pending))
    /\ \/ job[t].pc \in {"find", "clear", "activate"} /\ Continue(t, At(t, "observe")) /\ UNCHANGED <<exclusive, lease>>
       \/ job[t].pc \notin {"find", "clear"} /\ Return(t)
    /\ UNCHANGED <<now, file, log, seats, imports, faults>>

\* One atomic rename; the empty marker ends the update and frees the
\* mutation lock.
WriteNext(t) ==
    /\ job[t].todo # <<>>
    /\ LET f == Head(job[t].todo)
           last == f = "pending"
       IN  /\ file' = [file EXCEPT ![f] = IF last THEN NoIntent ELSE job[t].intent.next[f]]
           /\ job' = [job EXCEPT ![t].todo = Tail(@), ![t].intent = IF last THEN NoIntent ELSE @]
           /\ exclusive' = IF last THEN Nobody ELSE exclusive
    /\ UNCHANGED <<now, locked, lease, log, seats, imports, faults>>

\* The state lock is waited for two seconds at most.
LockTimeout(t) ==
    /\ job[t].pc \in Recovering \cup {"commit", "validate", "revalidate", "judge", "observe", "guard"}
    /\ ~FreeFor(t)
    /\ Return(t)
    /\ UNCHANGED <<now, file, log, seats, imports, faults>>

\* A write reports an error, or the process dies: the kernel frees its locks.
Fault(t) ==
    /\ faults < MaxFaults /\ job[t] # IdleActor
    /\ faults' = faults + 1
    /\ Return(t)
    /\ UNCHANGED <<now, file, log, seats, imports>>

(***************************************************************************)
(* Import of a document, by an administrator or the command line.          *)
(***************************************************************************)
StartImport(t, d) ==
    /\ t \in Importer /\ job[t] = IdleActor /\ imports < MaxImports
    /\ imports' = imports + 1
    /\ job' = [job EXCEPT ![t] = [IdleActor EXCEPT !.pc = IF now < Meta[d].from THEN "stage" ELSE "read",
                                             !.doc = d, !.event = Import(imports + 1, d)]]
    /\ UNCHANGED <<now, file, locked, exclusive, lease, log, seats, faults>>

PrepareStaged(d) ==
    /\ ValidateObservation(file.history, d)
    /\ file.staged # NoDoc => ValidateProgress(StateFromLicense(file.staged), d)

StageDocument(t) ==
    /\ Enter(t, "stage")
    /\ LET d == job[t].doc
       IN  IF CanExclude(t) /\ PrepareStaged(d)
             THEN WriteUpdateIntent(t, Intent("stage", [staged |-> d, outbox |-> Append(file.outbox, job[t].event)]),
                                    "staging")
             ELSE Return(t) /\ UNCHANGED file
    /\ UNCHANGED <<now, log, seats, imports, faults>>

\* An exact retry stays idempotent after expiry.
ReadCommittedDocument(t) ==
    /\ Enter(t, "read")
    /\ IF file.license = job[t].doc \/ Current(job[t].doc)
         THEN Continue(t, At(t, "install")) /\ UNCHANGED <<exclusive, lease>>
         ELSE Return(t)
    /\ UNCHANGED <<now, file, log, seats, imports, faults>>

InstallDocument(t) ==
    /\ Enter(t, "install")
    /\ LET d == job[t].doc
       IN  IF CanExclude(t) /\ ValidateObservation(file.history, d)
             THEN WriteUpdateIntent(t, Intent("update", [history |-> Observe(file.history, d), license |-> d,
                                                         outbox |-> Append(file.outbox, job[t].event)]),
                                    "installing")
             ELSE Return(t) /\ UNCHANGED file
    /\ UNCHANGED <<now, log, seats, imports, faults>>

\* The files are written: the caller gets its answer.
UpdateEnds(t) ==
    /\ job[t].pc \in {"staging", "installing", "switching"} /\ job[t].todo = <<>>
    /\ Return(t)
    /\ UNCHANGED <<now, file, log, seats, imports, faults>>
(***************************************************************************)
(* The explicit switch to the free license: the lease is taken first and   *)
(* kept, so that the caller can count resources before it commits.         *)
(***************************************************************************)
StartFreeSwitch(t, d) ==
    /\ t \in Importer /\ job[t] = IdleActor /\ imports < MaxImports /\ Meta[d].free
    /\ imports' = imports + 1
    /\ job' = [job EXCEPT ![t] = [IdleActor EXCEPT !.pc = "begin", !.doc = file.license,
                                             !.event = Import(imports + 1, d)]]
    /\ UNCHANGED <<now, file, locked, exclusive, lease, log, seats, faults>>

ValidateSwitchSnapshot(t) ==
    /\ file.history.doc = job[t].doc /\ file.license = job[t].doc
    /\ ValidateObservation(file.history, job[t].doc)

BeginFreeSwitch(t) ==
    /\ Enter(t, "begin")
    /\ IF CanExclude(t) /\ ValidateSwitchSnapshot(t)
         THEN Continue(t, At(t, "commit")) /\ exclusive' = t /\ UNCHANGED lease
         ELSE Return(t)
    /\ UNCHANGED <<now, file, log, seats, imports, faults>>

\* The history names the free document and keeps the paid issue position.
CommitFreeSwitch(t) ==
    /\ Enter(t, "commit")
    /\ LET free == job[t].event.doc
           h == [Observe(file.history, job[t].doc) EXCEPT !.doc = free, !.id = Meta[free].id]
       IN  IF RequireNoPendingUpdate /\ ValidateSwitchSnapshot(t) /\ Meta[free].from <= now
             THEN WriteUpdateIntent(t, Intent("update", [history |-> h, license |-> free,
                                                         outbox |-> Append(file.outbox, job[t].event)]),
                                    "switching")
             ELSE Return(t) /\ UNCHANGED file
    /\ UNCHANGED <<now, log, seats, imports, faults>>

(***************************************************************************)
(* The license a request runs under: load, activate a due staged document, *)
(* observe, take the lease, commit.                                        *)
(***************************************************************************)
StartRequest(t) ==
    /\ t \in Serving /\ job[t] = IdleActor
    /\ job' = [job EXCEPT ![t].pc = "load"]
    /\ UNCHANGED <<now, file, locked, exclusive, lease, log, seats, imports, faults>>

LoadInstalledLicense(t) ==
    /\ \E again \in BOOLEAN :
          LET pc == IF again THEN "reload" ELSE "load"
          IN  /\ Enter(t, pc)
              /\ Continue(t, [At(t, IF again THEN "revalidate" ELSE "validate") EXCEPT !.doc = file.license])
    /\ UNCHANGED <<now, file, exclusive, lease, log, seats, imports, faults>>

ValidateDocumentProgress(t) ==
    /\ \E again \in BOOLEAN :
          /\ Enter(t, IF again THEN "revalidate" ELSE "validate")
          /\ IF RequireNoPendingUpdate /\ ValidateProgress(file.history, job[t].doc)
               THEN Continue(t, At(t, IF again THEN "observe" ELSE "find")) /\ UNCHANGED <<exclusive, lease>>
               ELSE Return(t)
    /\ UNCHANGED <<now, file, log, seats, imports, faults>>

LoadStagedLicense(t) ==
    /\ Enter(t, "find")
    /\ Continue(t, [At(t, IF file.staged = NoDoc THEN "observe" ELSE "judge") EXCEPT !.staged = file.staged])
    /\ UNCHANGED <<now, file, exclusive, lease, log, seats, imports, faults>>

JudgeStaged(t) ==
    /\ Enter(t, "judge")
    /\ LET d == job[t].staged
       IN  \/ ~RequireNoPendingUpdate /\ Return(t)
           \/ /\ RequireNoPendingUpdate
              /\ Continue(t, At(t, IF ~ValidateProgress(file.history, d) \/ now >= Meta[d].until THEN "clear"
                                   ELSE IF now < Meta[d].from THEN "observe" ELSE "activate"))
              /\ UNCHANGED <<exclusive, lease>>
    /\ UNCHANGED <<now, file, log, seats, imports, faults>>

\* The empty staged marker; its write is allowed to fail.
MayClearStaged == file' \in {file, [file EXCEPT !.staged = NoDoc]}

ClearStagedDocument(t) ==
    /\ Enter(t, "clear")
    /\ IF file.staged = job[t].staged THEN MayClearStaged ELSE UNCHANGED file
    /\ Continue(t, At(t, "observe"))
    /\ UNCHANGED <<now, exclusive, lease, log, seats, imports, faults>>

WithActivation(d) ==
    IF Contains(file.outbox, Activation(d)) THEN file.outbox ELSE Append(file.outbox, Activation(d))

ActivateStagedDocument(t) ==
    /\ Enter(t, "activate")
    /\ LET d == job[t].staged
           active == file.license = d /\ file.history.doc = d
       IN  \/ \* Changed
              /\ file.staged # d
              /\ Continue(t, At(t, "reload")) /\ UNCHANGED <<file, exclusive, lease>>
           \/ \* AlreadyActive, Superseded
              /\ file.staged = d
              /\ active \/ (CanExclude(t) /\ ~ValidateProgress(file.history, d))
              /\ MayClearStaged
              /\ Continue(t, At(t, "reload")) /\ UNCHANGED <<exclusive, lease>>
           \/ \* a mutation in flight, or the clock went back: an error
              /\ file.staged = d /\ ~active
              /\ ~CanExclude(t) \/ (ValidateProgress(file.history, d) /\ now < file.history.seen)
              /\ Return(t) /\ UNCHANGED file
           \/ \* Activated
              /\ file.staged = d /\ ~active
              /\ CanExclude(t) /\ ValidateObservation(file.history, d)
              /\ WriteUpdateIntent(t, Intent("update", [history |-> Observe(file.history, d), license |-> d,
                                                        outbox |-> WithActivation(d)]),
                                   "activating")
    /\ UNCHANGED <<now, log, seats, imports, faults>>

ActivationEnds(t) ==
    /\ job[t].pc = "activating" /\ job[t].todo = <<>>
    /\ MayClearStaged
    /\ Continue(t, [At(t, "observe") EXCEPT !.doc = job[t].staged])
    /\ UNCHANGED <<now, exclusive, lease, log, seats, imports, faults>>

\* Mistake: the observation does not look for an unfinished update.
CheckAndObserve_Unaware(t) ==
    /\ Enter(t, "observe")
    /\ LET d == job[t].doc
       IN  IF ValidateObservation(file.history, d) /\ Current(d)
             THEN /\ file' = [file EXCEPT !.history = Observe(file.history, d)]
                  /\ Continue(t, At(t, "guard")) /\ UNCHANGED <<exclusive, lease>>
             ELSE Return(t) /\ UNCHANGED file
    /\ UNCHANGED <<now, log, seats, imports, faults>>

CheckAndObserve(t) ==
    /\ Enter(t, "observe")
    /\ LET d == job[t].doc
           h == file.history
       IN  IF /\ RequireNoPendingUpdate /\ ValidateObservation(h, d)
              /\ Observe(h, d).doc # h.doc => CanExclude(t)
              /\ Current(d)
             THEN /\ file' = [file EXCEPT !.history = Observe(h, d)]
                  /\ Continue(t, At(t, "guard")) /\ UNCHANGED <<exclusive, lease>>
             ELSE Return(t) /\ UNCHANGED file
    /\ UNCHANGED <<now, log, seats, imports, faults>>

GuardMutation(t) ==
    /\ Enter(t, "guard")
    /\ LET d == job[t].doc
       IN  IF /\ CanShare /\ RequireNoPendingUpdate
              /\ file.history.doc = d /\ file.license = d
              /\ ValidateObservation(file.history, d) /\ Current(d)
             THEN /\ lease' = [lease EXCEPT ![t] = d]
                  /\ Continue(t, At(t, "mutate")) /\ UNCHANGED exclusive
             ELSE Return(t)
    /\ UNCHANGED <<now, file, log, seats, imports, faults>>

\* The database transaction of the request: a member is created within the
\* limit of the admitted snapshot, or one is removed.
CommitMutation(t) ==
    /\ job[t].pc = "mutate"
    /\ seats' \in {seats, seats - 1, seats + 1} \cap 0 .. MaxSeats
    /\ seats' > seats => seats' <= Meta[job[t].doc].seats
    /\ Return(t)
    /\ UNCHANGED <<now, file, log, imports, faults>>

(***************************************************************************)
(* License audits are copied into the chain and then acknowledged.         *)
(***************************************************************************)
StartFlush(t) ==
    /\ job[t] = IdleActor
    /\ job' = [job EXCEPT ![t].pc = "list"]
    /\ UNCHANGED <<now, file, locked, exclusive, lease, log, seats, imports, faults>>

PendingActivationAudits(t) ==
    /\ Enter(t, "list")
    /\ Continue(t, IF file.outbox = <<>> THEN IdleActor ELSE [At(t, "check") EXCEPT !.list = file.outbox])
    /\ UNCHANGED <<now, file, exclusive, lease, log, seats, imports, faults>>

\* The whole chain is verified; an event found there is only acknowledged.
FindLicenseAudit(t) ==
    /\ job[t].pc = "check"
    /\ job' = [job EXCEPT ![t].pc = IF Contains(log, Head(job[t].list)) THEN "ack" ELSE "append",
                          ![t].tail = IF Contains(log, Head(job[t].list)) THEN 0 ELSE Len(log)]
    /\ UNCHANGED <<now, file, locked, exclusive, lease, log, seats, imports, faults>>

\* Mistake: the event is appended whatever happened since the chain was read.
AppendLicenseAudit_Blind(t) ==
    /\ job[t].pc = "append"
    /\ log' = Append(log, Head(job[t].list))
    /\ job' = [job EXCEPT ![t].pc = "ack", ![t].tail = 0]
    /\ UNCHANGED <<now, file, locked, exclusive, lease, seats, imports, faults>>

\* Another append moved the tail: verify again, or give up after the last try.
AppendLicenseAudit(t) ==
    /\ job[t].pc = "append"
    /\ IF Len(log) = job[t].tail
         THEN log' = Append(log, Head(job[t].list)) /\ job' = [job EXCEPT ![t].pc = "ack", ![t].tail = 0]
         ELSE UNCHANGED log /\ job' \in {[job EXCEPT ![t].pc = "check", ![t].tail = 0], [job EXCEPT ![t] = IdleActor]}
    /\ UNCHANGED <<now, file, locked, exclusive, lease, seats, imports, faults>>

\* The outbox without e; no event waits in it twice.
WithoutEvent(e) ==
    IF Contains(file.outbox, e)
      THEN RemoveAt(file.outbox, CHOOSE i \in DOMAIN file.outbox : file.outbox[i] = e)
      ELSE file.outbox

AcknowledgeLicenseAudit(t) ==
    /\ Enter(t, "ack")
    /\ LET rest == Tail(job[t].list)
       IN  /\ file' = [file EXCEPT !.outbox = WithoutEvent(Head(job[t].list))]
           /\ Continue(t, IF rest = <<>> THEN IdleActor ELSE [At(t, "check") EXCEPT !.list = rest])
    /\ UNCHANGED <<now, exclusive, lease, log, seats, imports, faults>>

\* The clock advances; set back by an operator, it counts as a fault.
SetClock ==
    /\ \/ now' = now + 1 /\ now' \in Time /\ UNCHANGED faults
       \/ now' = now - 1 /\ now' \in Time /\ faults < MaxFaults /\ faults' = faults + 1
    /\ UNCHANGED <<file, locked, exclusive, lease, job, log, seats, imports>>

LicenseTask(t) ==
    \/ RecoverUpdate(t) \/ RecoverFails(t) \/ WriteNext(t) \/ LockTimeout(t) \/ Fault(t)
    \/ \E d \in Doc : StartImport(t, d) \/ StartFreeSwitch(t, d)
    \/ StageDocument(t) \/ ReadCommittedDocument(t) \/ InstallDocument(t) \/ UpdateEnds(t)
    \/ BeginFreeSwitch(t) \/ CommitFreeSwitch(t)
    \/ StartRequest(t) \/ LoadInstalledLicense(t) \/ ValidateDocumentProgress(t) \/ LoadStagedLicense(t)
    \/ JudgeStaged(t) \/ ClearStagedDocument(t) \/ ActivateStagedDocument(t) \/ ActivationEnds(t)
    \/ CheckAndObserve(t) \/ GuardMutation(t) \/ CommitMutation(t)
    \/ StartFlush(t) \/ PendingActivationAudits(t) \/ FindLicenseAudit(t) \/ AppendLicenseAudit(t)
    \/ AcknowledgeLicenseAudit(t)

LicenseNext == (\E t \in Actor : LicenseTask(t)) \/ SetClock

LicenseSpec == LicenseInit /\ [][LicenseNext]_licenseVars

-----------------------------------------------------------------------------
\* An interrupted update can always be finished: while its intent exists,
\* every file it names is the one it saw or the one it writes (otherwise
\* finish_update_locked refuses for good).  With no intent, the active
\* document and the history name the same license.
LicenseRecoverable ==
    IF file.pending = NoIntent THEN file.license = file.history.doc
                               ELSE RequireExpectedFile(file.pending)

\* A license that came into force is never without its audit event, waiting
\* in the outbox or in the chain, however often the copying is repeated or
\* interrupted, and no event enters the chain twice.
LicenseAudited ==
    /\ file.pending = NoIntent /\ file.license # FirstDoc
          => \E e \in Range(file.outbox) \cup Range(log) : e.doc = file.license
    /\ \A i, j \in DOMAIN log : log[i] = log[j] => i = j

\* The number of members only grows within the limit of the license that is
\* in force when the transaction commits, not of one that was read earlier.
SeatsWithinLicense ==
    [][seats' > seats => seats' <= Meta[file.license].seats /\ file.pending = NoIntent]_licenseVars

\* Position p, an issue time and a sequence number, is at or before q.
AtOrBefore(p, q) == p.issued < q.issued \/ (p.issued = q.issued /\ p.seq <= q.seq)

\* The issue position only moves forward; the document in force changes to a
\* later one, or to the free one, and only to the one the history names.
NoReplay ==
    [][/\ AtOrBefore(file.history, file'.history)
       /\ file'.history.doc # file.history.doc
             => \/ Meta[file'.history.doc].free
                \/ ~AtOrBefore(Meta[file'.history.doc], file.history)
       /\ file'.license # file.license => file'.license = file.history.doc]_licenseVars

\* Wherever an import, an activation or the copying of audit events stops, the files
\* can be brought to one license, and every license that came into force is on record.
LicenseSound == LicenseRecoverable /\ LicenseAudited

\* Licenses only advance, and seats are taken under the one in force at the commit.
LicenseAdvances == SeatsWithinLicense /\ NoReplay
=============================================================================
