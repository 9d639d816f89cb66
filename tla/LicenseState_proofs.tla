------------------------- MODULE LicenseState_proofs -------------------------
(***************************************************************************)
(* Proofs about the license of an installation and its files, for any      *)
(* documents, any number of requests, commands and background jobs, and    *)
(* any number of faults.                                                   *)
(*                                                                         *)
(* Two facts carry the argument.  A task that has files to write holds     *)
(* both locks, so that every file is the one its intent saw or the one it  *)
(* writes, in the order history, license, outbox.  And whatever document a *)
(* task has read, the history has reached it and only moves forward: an    *)
(* outdated document is then never progress.                               *)
(***************************************************************************)
EXTENDS LicenseState, SequenceTheorems, TLAPS

\* The files an update replaces, and the marker of an unfinished one.
FileName == {"history", "license", "staged", "outbox", "pending"}
MaybeDoc == Doc \cup {NoDoc}
HistoryType == [doc : Doc, id : Nat, issued : Nat, seq : Nat, seen : Time]
LicenseEvent == [import : Nat, doc : Doc]
StageFiles == [staged : MaybeDoc, outbox : Seq(LicenseEvent)]
UpdateFiles == [history : HistoryType, license : Doc, outbox : Seq(LicenseEvent)]
StageIntent == [kind : {"stage"}, previous : StageFiles, next : StageFiles]
UpdateIntent == [kind : {"update"}, previous : UpdateFiles, next : UpdateFiles]
FilesType ==
  [license : Doc, history : HistoryType, staged : MaybeDoc, outbox : Seq(LicenseEvent),
   pending : {NoIntent} \cup StageIntent \cup UpdateIntent]
\* Where a task can be: it has an update to write, decides whether to write one,
\* switches to the free license, relies on a document it read, or copies audit events.
Updating == {"staging", "installing", "switching", "activating"}
Deciding == {"stage", "read", "install"}
Switching == {"begin", "commit"}
Relying == {"validate", "revalidate", "find", "judge", "clear", "activate", "observe", "guard"}
Copying == {"check", "append", "ack"}
ActorPhase == {"idle", "load", "reload", "list", "mutate"} \cup Updating \cup Deciding \cup Switching
                \cup Relying \cup Copying
ActorType ==
  [pc : ActorPhase, doc : MaybeDoc, staged : MaybeDoc, event : LicenseEvent \cup {NoEvent},
   intent : {NoIntent} \cup StageIntent \cup UpdateIntent,
   todo : Seq(FileName), list : Seq(LicenseEvent), tail : Nat]

LicenseTypeOK ==
  /\ now \in Time /\ imports \in Nat
  /\ file \in FilesType
  /\ locked \in Actor \cup {Nobody} /\ exclusive \in Actor \cup {Nobody}
  /\ lease \in [Actor -> MaybeDoc]
  /\ job \in [Actor -> ActorType]
  /\ log \in Seq(LicenseEvent)

\* The event is in the audit chain.
InLog(e) == \E i \in DOMAIN log : log[i] = e
\* Document d has an event in outbox or in the chain; the first one needs none.
OnRecord(d, outbox) ==
  d # FirstDoc => \E e \in LicenseEvent : e.doc = d /\ (Contains(outbox, e) \/ InLog(e))

\* history h stands at or after document d
Reached(h, d) == Meta[d].free \/ AtOrBefore(Meta[d], h)

\* History g may follow history h: what NoReplay asks of the two.
Succeeds(h, g) ==
  /\ AtOrBefore(h, g)
  /\ g.doc # h.doc => Meta[g.doc].free \/ ~AtOrBefore(Meta[g.doc], h)

\* The files and the intent of a staging: no file is in a third state, and no event
\* of the outbox is lost.
StageFits(i) ==
  /\ file.staged \in {i.previous.staged, i.next.staged}
  /\ file.outbox \in {i.previous.outbox, i.next.outbox}
  /\ file.license = file.history.doc
  /\ OnRecord(file.license, i.previous.outbox)
  /\ \A e \in LicenseEvent : Contains(i.previous.outbox, e) => Contains(i.next.outbox, e)

\* The files and the intent of a new license: it brings its own event, and its
\* history is a successor of the one it saw.
UpdateFits(i) ==
  /\ file.history \in {i.previous.history, i.next.history}
  /\ file.license \in {i.previous.license, i.next.license}
  /\ file.outbox \in {i.previous.outbox, i.next.outbox}
  /\ i.next.license = i.next.history.doc
  /\ \E e \in LicenseEvent : e.doc = i.next.license /\ Contains(i.next.outbox, e)
  /\ Succeeds(i.previous.history, i.next.history)
  /\ Reached(i.next.history, i.next.license)

\* What the files say of each other, with and without an intent.  The history has
\* reached the document it names, so that no older one passes for progress.
FilesFit ==
  /\ file.pending = NoIntent => file.license = file.history.doc /\ OnRecord(file.license, file.outbox)
  /\ file.pending.kind = "stage" => StageFits(file.pending)
  /\ file.pending.kind = "update" => UpdateFits(file.pending)
  /\ Reached(file.history, file.history.doc)

\* How far the writer of intent i has come: the files that are no longer to be
\* written are those of the intent, history before license before outbox.
Written(w, i) ==
  \/ i.kind = "stage" /\ w.todo = <<"staged", "outbox", "pending">>
  \/ i.kind = "stage" /\ w.todo = <<"outbox", "pending">> /\ file.staged = i.next.staged
  \/ i.kind = "stage" /\ w.todo = <<"pending">> /\ file.staged = i.next.staged /\ file.outbox = i.next.outbox
  \/ i.kind = "update" /\ w.todo = <<"history", "license", "outbox", "pending">>
  \/ i.kind = "update" /\ w.todo = <<"license", "outbox", "pending">> /\ file.history = i.next.history
  \/ i.kind = "update" /\ w.todo = <<"outbox", "pending">> /\ file.history = i.next.history /\ file.license = i.next.license
  \/ i.kind = "update" /\ w.todo = <<"pending">> /\ file.history = i.next.history
        /\ file.license = i.next.license /\ file.outbox = i.next.outbox

\* A task that has files to write holds both locks and writes the intent on disk.
Writes(t, w) ==
  /\ w.todo # <<>> =>
       /\ locked = t /\ exclusive = t
       /\ w.pc \in Recovering \cup Updating
       /\ file.pending # NoIntent /\ w.intent = file.pending /\ Written(w, file.pending)
  /\ w.pc \in Updating =>
       /\ locked = t
       /\ w.todo = <<>> => file.pending = NoIntent
  /\ w.pc = "activating" =>
       /\ w.staged \in Doc
       /\ IF w.todo = <<>> THEN Reached(file.history, w.staged)
          ELSE file.pending.kind = "update" /\ Reached(file.pending.next.history, w.staged)

\* What a task holds or knows where it is.  A document it relies on was once the one
\* in force: the history has reached it, and can only have moved on since.
Holds(t, w) ==
  /\ w.pc = "commit" => exclusive = t
  /\ w.pc = "mutate" => w.doc \in Doc /\ lease[t] = w.doc
  /\ w.pc \in Deciding => w.doc \in Doc /\ w.event \in LicenseEvent /\ w.event.doc = w.doc
  /\ w.pc \in Switching => w.doc \in Doc /\ w.event \in LicenseEvent /\ Meta[w.event.doc].free
  /\ w.pc \in Relying => w.doc \in Doc /\ Reached(file.history, w.doc)
  /\ w.pc \in {"judge", "clear", "activate"} => w.staged \in Doc

\* What the copier of audit events knows of the chain.
Copies(w) ==
  /\ w.pc \in Copying => w.list # <<>>
  /\ w.pc = "append" => w.tail <= Len(log) /\ (w.tail = Len(log) => ~InLog(Head(w.list)))
  /\ w.pc = "ack" => InLog(Head(w.list))

\* While a mutation holds its lease, nothing can replace the license it was given.
LeaseFits(t) ==
  lease[t] # NoDoc => exclusive = Nobody /\ file.pending = NoIntent /\ file.license = lease[t]

\* All of it, for one task.
Tasks(t) == Writes(t, job[t]) /\ Holds(t, job[t]) /\ Copies(job[t]) /\ LeaseFits(t)

\* No event is in the chain twice.
LoggedOnce == \A i, j \in DOMAIN log : log[i] = log[j] => i = j

\* The inductive invariant.
LicenseInv ==
  /\ LicenseTypeOK
  /\ FilesFit
  /\ \A t \in Actor : Tasks(t)
  /\ LoggedOnce

\* The history an admitted document leaves is a successor of the one before.
LEMMA ObservedHistory ==
  ASSUME NEW h \in HistoryType, NEW d \in Doc, ValidateProgress(h, d), now \in Time
  PROVE  /\ Observe(h, d) \in HistoryType /\ Observe(h, d).doc = d
         /\ Succeeds(h, Observe(h, d)) /\ Reached(Observe(h, d), d)
<1>1. Meta[d] \in [id : Nat, issued : Nat, seq : Nat, from : Time, until : Nat, free : BOOLEAN, seats : Nat]
  BY LicenseAssumption
<1>2. Observe(h, d) \in HistoryType /\ Observe(h, d).doc = d
  BY <1>1 DEF HistoryType, Observe
<1>3. AtOrBefore(h, Observe(h, d))
  BY <1>1 DEF HistoryType, Observe, ValidateProgress, AtOrBefore
<1>4. d # h.doc => Meta[d].free \/ ~AtOrBefore(Meta[d], h)
  BY <1>1 DEF HistoryType, ValidateProgress, AtOrBefore, IsRecordedFree
<1>5. Meta[d].free \/ AtOrBefore(Meta[d], Observe(h, d))
  BY <1>1 DEF HistoryType, Observe, AtOrBefore, IsRecordedFree
<1> QED
  BY <1>2, <1>3, <1>4, <1>5 DEF Succeeds, Reached

\* A document the history has reached is progress only if the history names it:
\* observing a document that was read earlier cannot bring it back into force.
LEMMA OnlyTheLatest ==
  ASSUME NEW h \in HistoryType, NEW d \in Doc, Reached(h, d), ValidateProgress(h, d)
  PROVE  h.doc = d
<1>1. Meta[d] \in [id : Nat, issued : Nat, seq : Nat, from : Time, until : Nat, free : BOOLEAN, seats : Nat]
  BY LicenseAssumption
<1> QED
  BY <1>1 DEF HistoryType, ValidateProgress, AtOrBefore, IsRecordedFree, Reached

\* A history that moves on has still reached what it had reached.
LEMMA ReachedOn ==
  ASSUME NEW h \in HistoryType, NEW g \in HistoryType, NEW d \in Doc, Reached(h, d), AtOrBefore(h, g)
  PROVE  Reached(g, d)
<1>1. Meta[d] \in [id : Nat, issued : Nat, seq : Nat, from : Time, until : Nat, free : BOOLEAN, seats : Nat]
  BY LicenseAssumption
<1> QED
  BY <1>1 DEF HistoryType, AtOrBefore, Reached

\* The kind of an intent decides its shape.
LEMMA IntentKinds ==
  ASSUME file \in FilesType
  PROVE  /\ file.pending = NoIntent <=> file.pending.kind = "none"
         /\ file.pending.kind = "stage" => file.pending \in StageIntent
         /\ file.pending.kind = "update" => file.pending \in UpdateIntent
         /\ file.pending.kind \in {"none", "stage", "update"}
  BY DEF FilesType, NoIntent, StageIntent, UpdateIntent

LEMMA AppendsOne == ASSUME NEW S, NEW s \in Seq(S), NEW e \in S PROVE s \o <<e>> = Append(s, e)
  OBVIOUS

\* A sequence is known by its elements; the provers need this for literal ones.
LEMMA Appended ==
  ASSUME NEW S, NEW s \in Seq(S), NEW e \in S, NEW u \in Seq(S), Len(u) = Len(s) + 1, u[Len(u)] = e,
         \A i \in 1 .. Len(s) : u[i] = s[i]
  PROVE  s \o <<e>> = u
<1> DEFINE v == Append(s, e)
<1>1. v \in Seq(S) /\ Len(v) = Len(s) + 1 /\ v[Len(s) + 1] = e /\ \A i \in 1 .. Len(s) : v[i] = s[i]
  OBVIOUS
<1> HIDE DEF v
<1>2. \A i \in 1 .. Len(u) : v[i] = u[i]
  BY <1>1
<1>3. v = u
  BY <1>1, <1>2
<1> QED BY <1>3, AppendsOne DEF v

LEMMA PairAndOne == ASSUME NEW S, NEW a \in S, NEW b \in S, NEW c \in S PROVE <<a, b>> \o <<c>> = <<a, b, c>>
<1> DEFINE s == <<a, b>>  u == <<a, b, c>>
<1>1. s \in Seq(S) /\ Len(s) = 2 /\ s[1] = a /\ s[2] = b
  OBVIOUS
<1>2. u \in Seq(S) /\ Len(u) = 3 /\ u[1] = a /\ u[2] = b /\ u[3] = c
  OBVIOUS
<1> HIDE DEF s, u
<1>3. \A i \in 1 .. Len(s) : u[i] = s[i]
  BY <1>1, <1>2
<1>4. s \o <<c>> = u
  <2>1. Len(u) = Len(s) + 1 /\ u[Len(u)] = c
    BY <1>1, <1>2
  <2> QED BY <1>1, <1>2, <1>3, <2>1, Appended
<1> QED BY <1>4 DEF s, u

LEMMA TripleAndOne == ASSUME NEW S, NEW a \in S, NEW b \in S, NEW c \in S, NEW d \in S PROVE <<a, b, c>> \o <<d>> = <<a, b, c, d>>
<1> DEFINE s == <<a, b, c>>  u == <<a, b, c, d>>
<1>1. s \in Seq(S) /\ Len(s) = 3 /\ s[1] = a /\ s[2] = b /\ s[3] = c
  OBVIOUS
<1>2. u \in Seq(S) /\ Len(u) = 4 /\ u[1] = a /\ u[2] = b /\ u[3] = c /\ u[4] = d
  OBVIOUS
<1> HIDE DEF s, u
<1>3. \A i \in 1 .. Len(s) : u[i] = s[i]
  BY <1>1, <1>2
<1>4. s \o <<d>> = u
  <2>1. Len(u) = Len(s) + 1 /\ u[Len(u)] = d
    BY <1>1, <1>2
  <2> QED BY <1>1, <1>2, <1>3, <2>1, Appended
<1> QED BY <1>4 DEF s, u

\* The files of the two kinds of update, in the order in which they are written.
LEMMA Orders ==
  /\ <<"staged", "outbox">> \o <<"pending">> = <<"staged", "outbox", "pending">>
  /\ <<"history", "license", "outbox">> \o <<"pending">> = <<"history", "license", "outbox", "pending">>
<1> DEFINE S == {"staged", "outbox", "pending", "history", "license"}
<1>1. PICK s \in S, o \in S, p \in S, h \in S, l \in S :
        s = "staged" /\ o = "outbox" /\ p = "pending" /\ h = "history" /\ l = "license"
  OBVIOUS
<1> HIDE DEF S
<1>2. <<s, o>> \o <<p>> = <<s, o, p>>
  BY PairAndOne
<1>3. <<h, l, o>> \o <<p>> = <<h, l, o, p>>
  BY TripleAndOne
<1> QED BY <1>1, <1>2, <1>3

LEMMA Listed ==
  /\ <<"staged", "outbox", "pending">> \in Seq(FileName) /\ <<"staged", "outbox", "pending">> # <<>>
  /\ <<"history", "license", "outbox", "pending">> \in Seq(FileName)
  /\ <<"history", "license", "outbox", "pending">> # <<>>
<1>1. <<"staged", "outbox", "pending">> # <<>> /\ <<"history", "license", "outbox", "pending">> # <<>>
  OBVIOUS
<1> DEFINE S == FileName
<1>2. PICK s \in S, o \in S, p \in S, h \in S, l \in S :
        s = "staged" /\ o = "outbox" /\ p = "pending" /\ h = "history" /\ l = "license"
  BY DEF FileName
<1> HIDE DEF S
<1>3. <<s, o, p>> \in Seq(S) /\ <<h, l, o, p>> \in Seq(S)
  OBVIOUS
<1> QED BY <1>1, <1>2, <1>3, Zenon DEF S

LEMMA Tails ==
  /\ Tail(<<"staged", "outbox", "pending">>) = <<"outbox", "pending">>
  /\ Tail(<<"history", "license", "outbox", "pending">>) = <<"license", "outbox", "pending">>
  /\ Tail(<<"license", "outbox", "pending">>) = <<"outbox", "pending">>
  /\ Tail(<<"outbox", "pending">>) = <<"pending">>
  /\ Tail(<<"pending">>) = <<>>
  OBVIOUS

LEMMA Heads ==
  /\ Head(<<"staged", "outbox", "pending">>) = "staged"
  /\ Head(<<"history", "license", "outbox", "pending">>) = "history"
  /\ Head(<<"license", "outbox", "pending">>) = "license"
  /\ Head(<<"outbox", "pending">>) = "outbox"
  /\ Head(<<"pending">>) = "pending"
  OBVIOUS

\* What a step of t never does to another task.
Quiet(t) ==
  /\ \A u \in Actor \ {t} : job'[u] = job[u] /\ lease'[u] = lease[u]
  /\ locked' = locked \/ (locked \in {Nobody, t} /\ locked' \in {Nobody, t})
  /\ exclusive' = exclusive \/ (exclusive \in {Nobody, t} /\ exclusive' \in {Nobody, t})
  /\ file' = file \/ locked \in {Nobody, t}
  /\ AtOrBefore(file.history, file'.history)
  /\ \/ exclusive' \in {Nobody, exclusive} /\ file'.pending = file.pending /\ file'.license = file.license
     \/ \A u \in Actor : lease[u] = NoDoc
     \/ exclusive = t
  /\ log' = log \/ (Len(log') = Len(log) + 1 /\ \A i \in DOMAIN log : log'[i] = log[i])

\* A step of t leaves what is said of every other task true.
LEMMA WritesKept ==
  ASSUME LicenseInv, NEW t \in Actor, Quiet(t), NEW u \in Actor \ {t}
  PROVE  Writes(u, job[u])'
<1>1. job'[u] = job[u] /\ Writes(u, job[u])
  BY DEF Quiet, LicenseInv, Tasks
<1>2. u # Nobody /\ t # Nobody
  BY LicenseAssumption
<1>3. CASE locked = u
  <2>1. locked' = locked /\ file' = file
    BY <1>2, <1>3 DEF Quiet
  <2>2. exclusive = u => exclusive' = u
    BY <1>2 DEF Quiet
  <2> QED
    BY <1>1, <1>3, <2>1, <2>2 DEF Writes, Written, Reached
<1>4. CASE locked # u
  <2>1. job[u].todo = <<>> /\ job[u].pc \notin Updating
    BY <1>1, <1>4 DEF Writes
  <2> QED
    BY <1>1, <2>1 DEF Writes, Updating
<1> QED
  BY <1>3, <1>4

LEMMA HoldsKept ==
  ASSUME LicenseInv, NEW t \in Actor, Quiet(t), file' \in FilesType, NEW u \in Actor \ {t}
  PROVE  Holds(u, job[u])'
<1>1. job'[u] = job[u] /\ lease'[u] = lease[u] /\ Holds(u, job[u])
  BY DEF Quiet, LicenseInv, Tasks
<1>2. u # Nobody /\ t # Nobody
  BY LicenseAssumption
<1>3. exclusive = u => exclusive' = u
  BY <1>2 DEF Quiet
<1>4. job[u].pc \in Relying => job[u].doc \in Doc /\ Reached(file.history, job[u].doc)'
  <2>1. file.history \in HistoryType /\ file'.history \in HistoryType /\ AtOrBefore(file.history, file'.history)
    BY DEF Quiet, LicenseInv, LicenseTypeOK, FilesType
  <2> SUFFICES ASSUME job[u].pc \in Relying PROVE job[u].doc \in Doc /\ Reached(file'.history, job[u].doc)
    BY <1>1 DEF Reached
  <2>2. job[u].doc \in Doc /\ Reached(file.history, job[u].doc)
    BY <1>1 DEF Holds
  <2> QED
    BY <2>1, <2>2, ReachedOn
<1> QED
  BY <1>1, <1>3, <1>4 DEF Holds, Reached

LEMMA CopiesKept ==
  ASSUME LicenseInv, NEW t \in Actor, Quiet(t), log' \in Seq(LicenseEvent), NEW u \in Actor \ {t}
  PROVE  Copies(job[u])'
<1>1. job'[u] = job[u] /\ Copies(job[u]) /\ job[u].tail \in Nat /\ log \in Seq(LicenseEvent)
  BY DEF Quiet, LicenseInv, Tasks, LicenseTypeOK, ActorType
<1>2. CASE log' = log
  BY <1>1, <1>2 DEF Copies, InLog
<1>3. CASE Len(log') = Len(log) + 1 /\ \A i \in DOMAIN log : log'[i] = log[i]
  <2>1. job[u].pc = "append" => job[u].tail <= Len(log) /\ job[u].tail # Len(log')
    BY <1>1, <1>3 DEF Copies
  <2>2. job[u].pc = "ack" => \E i \in DOMAIN log' : log'[i] = Head(job[u].list)
    BY <1>1, <1>3 DEF Copies, InLog
  <2>3. job[u].pc = "append" => job[u].tail <= Len(log')
    BY <1>1, <1>3, <2>1
  <2> QED
    BY <1>1, <2>1, <2>2, <2>3 DEF Copies, InLog
<1> QED
  BY <1>2, <1>3 DEF Quiet

LEMMA LeaseKept ==
  ASSUME LicenseInv, NEW t \in Actor, Quiet(t), NEW u \in Actor \ {t}
  PROVE  LeaseFits(u)'
<1>1. lease'[u] = lease[u] /\ LeaseFits(u)
  BY DEF Quiet, LicenseInv, Tasks
<1>2. t # Nobody
  BY LicenseAssumption
<1> QED
  BY <1>1, <1>2 DEF Quiet, LeaseFits

\* A step of t preserves the invariant if it is quiet and leaves t and the files in order.
LEMMA LicenseStepOf ==
  ASSUME LicenseInv, NEW t \in Actor, Quiet(t), LicenseTypeOK', FilesFit', Tasks(t)', LoggedOnce'
  PROVE  LicenseInv'
<1>1. ASSUME NEW u \in Actor \ {t} PROVE Tasks(u)'
  <2>1. file' \in FilesType /\ log' \in Seq(LicenseEvent)
    BY DEF LicenseTypeOK
  <2> QED
    BY <2>1, WritesKept, HoldsKept, CopiesKept, LeaseKept DEF Tasks
<1> QED
  BY <1>1 DEF LicenseInv

\* A task that writes nothing: its section ends, and it holds no more than before.
LEMMA LicenseReads ==
  ASSUME LicenseInv, NEW t \in Actor, UNCHANGED <<now, file, log>>, imports' \in Nat,
         locked' \in {locked, Nobody}, locked' = Nobody => locked \in {Nobody, t},
         exclusive' \in {exclusive, Nobody}, exclusive' = Nobody => exclusive \in {Nobody, t},
         job' = [job EXCEPT ![t] = job'[t]], lease' = [lease EXCEPT ![t] = lease'[t]],
         job'[t] \in ActorType, lease'[t] \in MaybeDoc, LeaseFits(t)',
         job'[t].todo = <<>>, job'[t].pc \notin Updating, Holds(t, job[t])', Copies(job'[t])
  PROVE  LicenseInv'
<1>1. LicenseTypeOK'
  BY DEF LicenseInv, LicenseTypeOK
<1>2. Quiet(t)
  <2>1. \A u \in Actor \ {t} : job'[u] = job[u] /\ lease'[u] = lease[u]
    BY DEF LicenseInv, LicenseTypeOK
  <2>2. AtOrBefore(file.history, file'.history)
    <3>1. file.history \in HistoryType
      BY DEF LicenseInv, LicenseTypeOK, FilesType
    <3> QED BY <3>1 DEF HistoryType, AtOrBefore
  <2> QED BY <2>1, <2>2 DEF Quiet
<1>3. FilesFit'
  BY DEF LicenseInv, FilesFit, OnRecord, InLog, StageFits, UpdateFits, Reached
<1>4. Writes(t, job[t])'
  BY DEF Writes, Updating
<1>5. Copies(job[t])'
  BY DEF Copies, InLog
<1>6. LoggedOnce'
  BY DEF LicenseInv, LoggedOnce
<1> QED
  BY <1>1, <1>2, <1>3, <1>4, <1>5, <1>6, LicenseStepOf DEF Tasks

LEMMA IdleIsType == IdleActor \in ActorType
  BY DEF IdleActor, ActorType, ActorPhase, MaybeDoc, NoEvent

\* A task that returns drops everything it holds.
LEMMA ReturnStep ==
  ASSUME LicenseInv, NEW t \in Actor, Return(t), UNCHANGED <<now, file, log>>, imports' \in Nat
  PROVE  LicenseInv'
<1>1. job' = [job EXCEPT ![t] = IdleActor] /\ job'[t] = IdleActor /\ job' = [job EXCEPT ![t] = job'[t]]
  BY DEF Return, Continue, LicenseInv, LicenseTypeOK
<1>2. lease'[t] = NoDoc /\ lease' = [lease EXCEPT ![t] = lease'[t]]
  BY DEF Return, LicenseInv, LicenseTypeOK
<1>3. locked' \in {locked, Nobody} /\ (locked' = Nobody => locked \in {Nobody, t})
  BY DEF Return, Continue
<1>4. exclusive' \in {exclusive, Nobody} /\ (exclusive' = Nobody => exclusive \in {Nobody, t})
  BY DEF Return
<1>5. Holds(t, job[t])' /\ Copies(job'[t]) /\ LeaseFits(t)' /\ IdleActor.todo = <<>> /\ IdleActor.pc \notin Updating
  BY <1>1, <1>2 DEF Holds, Copies, LeaseFits, IdleActor, Deciding, Switching, Relying, Copying, Updating
<1> QED
  BY <1>1, <1>2, <1>3, <1>4, <1>5, IdleIsType, LicenseReads DEF MaybeDoc

\* A section that writes nothing ends, and the task goes on at j.
LEMMA ContinueStep ==
  ASSUME LicenseInv, NEW t \in Actor, NEW j \in ActorType, Continue(t, j), j.todo = <<>>, j.pc \notin Updating,
         Holds(t, j), Copies(j), UNCHANGED <<now, file, log, exclusive, lease, imports>>
  PROVE  LicenseInv'
<1>1. job'[t] = j /\ job' = [job EXCEPT ![t] = job'[t]]
  BY DEF Continue, LicenseInv, LicenseTypeOK
<1>2. lease'[t] \in MaybeDoc /\ lease' = [lease EXCEPT ![t] = lease'[t]]
  BY DEF LicenseInv, LicenseTypeOK
<1>3. locked' \in {locked, Nobody} /\ (locked' = Nobody => locked \in {Nobody, t})
  BY DEF Continue
<1>4. Holds(t, job[t])'
  BY <1>1 DEF Holds, Reached
<1>5. LeaseFits(t)'
  BY DEF LeaseFits, LicenseInv, Tasks
<1>6. imports' \in Nat
  BY DEF LicenseInv, LicenseTypeOK
<1>7. exclusive' \in {exclusive, Nobody} /\ (exclusive' = Nobody => exclusive \in {Nobody, t})
  OBVIOUS
<1> QED
  BY <1>1, <1>2, <1>3, <1>4, <1>5, <1>6, <1>7, LicenseReads

\* What a task keeps of what it has read.
LEMMA AtKeeps ==
  ASSUME LicenseInv, NEW t \in Actor, NEW pc \in ActorPhase
  PROVE  /\ At(t, pc) \in ActorType /\ At(t, pc).pc = pc
         /\ At(t, pc).doc = job[t].doc /\ At(t, pc).event = job[t].event
         /\ At(t, pc).todo = job[t].todo /\ At(t, pc).list = job[t].list /\ At(t, pc).tail = job[t].tail
         /\ At(t, pc).staged = IF pc \in {"clear", "activate"} THEN job[t].staged ELSE NoDoc
<1>1. job[t] \in ActorType /\ NoDoc \in MaybeDoc
  BY DEF LicenseInv, LicenseTypeOK, MaybeDoc
<1> QED
  BY <1>1 DEF At, ActorType

\* A timeout, a fault and the end of an update return.
LEMMA EndingSteps ==
  ASSUME LicenseInv, NEW t \in Actor, LockTimeout(t) \/ Fault(t) \/ UpdateEnds(t)
  PROVE  LicenseInv'
<1>1. Return(t) /\ UNCHANGED <<now, file, log>> /\ imports' = imports
  BY DEF LockTimeout, Fault, UpdateEnds
<1>2. imports' \in Nat
  BY <1>1 DEF LicenseInv, LicenseTypeOK
<1> QED
  BY <1>1, <1>2, ReturnStep

LEMMA RecoverFailsStep ==
  ASSUME LicenseInv, NEW t \in Actor, RecoverFails(t)
  PROVE  LicenseInv'
<1>1. UNCHANGED <<now, file, log>> /\ imports' = imports /\ imports' \in Nat /\ job[t].todo = <<>>
  BY DEF RecoverFails, LicenseInv, LicenseTypeOK
<1>2. CASE Return(t)
  BY <1>1, <1>2, ReturnStep
<1>3. CASE job[t].pc \in {"find", "clear", "activate"} /\ Continue(t, At(t, "observe")) /\ UNCHANGED <<exclusive, lease>>
  <2>1. Holds(t, job[t])
    BY DEF LicenseInv, Tasks
  <2>2. job[t].doc \in Doc /\ Reached(file.history, job[t].doc)
    BY <1>3, <2>1 DEF Holds, Relying
  <2> DEFINE j == At(t, "observe")
  <2>3. j \in ActorType /\ j.pc = "observe" /\ j.doc = job[t].doc /\ j.todo = <<>>
    BY <1>1, AtKeeps DEF ActorPhase, Relying
  <2> HIDE DEF j
  <2>4. Holds(t, j) /\ Copies(j) /\ j.pc \notin Updating
    BY <2>2, <2>3 DEF Holds, Copies, Deciding, Switching, Copying, Updating
  <2>5. Continue(t, j)
    BY <1>3 DEF j
  <2> QED
    BY <1>1, <1>3, <2>3, <2>4, <2>5, ContinueStep
<1> QED
  BY <1>2, <1>3 DEF RecoverFails

\* A task begins.
LEMMA BeginningSteps ==
  ASSUME LicenseInv, NEW t \in Actor,
         (\E d \in Doc : StartImport(t, d) \/ StartFreeSwitch(t, d)) \/ StartRequest(t) \/ StartFlush(t)
  PROVE  LicenseInv'
<1>1. job[t] = IdleActor /\ UNCHANGED <<now, file, log, locked, exclusive, lease>> /\ imports' \in {imports, imports + 1}
  BY DEF StartImport, StartFreeSwitch, StartRequest, StartFlush
<1>2. imports' \in Nat /\ imports + 1 \in Nat /\ file.license \in Doc
  BY <1>1 DEF LicenseInv, LicenseTypeOK, FilesType
<1>3. lease'[t] \in MaybeDoc /\ lease' = [lease EXCEPT ![t] = lease'[t]] /\ LeaseFits(t)'
  BY <1>1 DEF LicenseInv, LicenseTypeOK, Tasks, LeaseFits
<1>4. ASSUME NEW d \in Doc, StartImport(t, d) \/ StartFreeSwitch(t, d)
      PROVE  /\ job' = [job EXCEPT ![t] = job'[t]] /\ job'[t] \in ActorType /\ job'[t].todo = <<>>
             /\ job'[t].pc \in {"stage", "read", "begin"}
             /\ job'[t].doc \in Doc /\ job'[t].event \in LicenseEvent
             /\ job'[t].pc = "begin" => Meta[job'[t].event.doc].free
             /\ job'[t].pc # "begin" => job'[t].event.doc = job'[t].doc
  <2>1. Import(imports + 1, d) \in LicenseEvent /\ Import(imports + 1, d).doc = d
    BY <1>2 DEF Import, LicenseEvent
  <2>2. CASE StartImport(t, d)
    <3> DEFINE j == [IdleActor EXCEPT !.pc = IF now < Meta[d].from THEN "stage" ELSE "read",
                                             !.doc = d, !.event = Import(imports + 1, d)]
    <3>1. /\ j \in ActorType /\ j.todo = <<>> /\ j.pc \in {"stage", "read"} /\ j.doc = d
          /\ j.event = Import(imports + 1, d)
      BY <2>1, IdleIsType DEF IdleActor, ActorType, ActorPhase, Deciding, MaybeDoc
    <3> HIDE DEF j
    <3>2. job' = [job EXCEPT ![t] = j]
      BY <2>2 DEF StartImport, j
    <3>3. job'[t] = j /\ job' = [job EXCEPT ![t] = job'[t]]
      BY <3>2 DEF LicenseInv, LicenseTypeOK
    <3> QED
      BY <2>1, <3>1, <3>3
  <2>3. CASE StartFreeSwitch(t, d)
    <3> DEFINE j == [IdleActor EXCEPT !.pc = "begin", !.doc = file.license,
                                             !.event = Import(imports + 1, d)]
    <3>1. /\ j \in ActorType /\ j.todo = <<>> /\ j.pc = "begin" /\ j.doc = file.license
          /\ j.event = Import(imports + 1, d)
      BY <1>2, <2>1, IdleIsType DEF IdleActor, ActorType, ActorPhase, Switching, MaybeDoc
    <3> HIDE DEF j
    <3>2. job' = [job EXCEPT ![t] = j] /\ Meta[d].free
      BY <2>3 DEF StartFreeSwitch, j
    <3>3. job'[t] = j /\ job' = [job EXCEPT ![t] = job'[t]]
      BY <3>2 DEF LicenseInv, LicenseTypeOK
    <3> QED
      BY <1>2, <2>1, <3>1, <3>2, <3>3
  <2> QED
    BY <1>4, <2>2, <2>3
<1>5. ASSUME NEW d \in Doc, StartImport(t, d) \/ StartFreeSwitch(t, d)
      PROVE  LicenseInv'
  <2>1. job'[t].pc \notin Updating /\ Holds(t, job[t])' /\ Copies(job'[t])
    BY <1>4, <1>5 DEF Updating, Holds, Copies, Deciding, Switching, Relying, Copying
  <2> QED
    BY <1>1, <1>2, <1>3, <1>4, <1>5, <2>1, LicenseReads
<1>6. CASE StartRequest(t) \/ StartFlush(t)
  <2>1. PICK pc \in {"load", "list"} : job' = [job EXCEPT ![t].pc = pc]
    BY <1>6 DEF StartRequest, StartFlush
  <2>2. job' = [job EXCEPT ![t] = job'[t]] /\ job'[t] = [IdleActor EXCEPT !.pc = pc]
    BY <1>1, <2>1 DEF LicenseInv, LicenseTypeOK
  <2>3. job'[t] \in ActorType /\ job'[t].todo = <<>> /\ job'[t].pc = pc
    BY <2>2, IdleIsType DEF IdleActor, ActorType, ActorPhase
  <2>4. job'[t].pc \notin Updating /\ Holds(t, job[t])' /\ Copies(job'[t])
    BY <2>3 DEF Updating, Holds, Copies, Deciding, Switching, Relying, Copying
  <2> QED
    BY <1>1, <1>2, <1>3, <2>2, <2>3, <2>4, LicenseReads
<1> QED
  BY <1>5, <1>6
LEMMA TaskFacts ==
  ASSUME LicenseInv, NEW t \in Actor
  PROVE  /\ job[t] \in ActorType /\ file \in FilesType /\ imports \in Nat /\ now \in Time
         /\ file.license \in Doc /\ file.history \in HistoryType /\ file.staged \in MaybeDoc
         /\ file.outbox \in Seq(LicenseEvent)
         /\ Writes(t, job[t]) /\ Holds(t, job[t]) /\ Copies(job[t]) /\ LeaseFits(t)
         /\ job \in [Actor -> ActorType] /\ t # Nobody
  BY LicenseAssumption DEF LicenseInv, LicenseTypeOK, Tasks, FilesType

\* A document read from the files while no update is pending is one the history has reached.
LEMMA InstalledIsReached ==
  ASSUME LicenseInv, RequireNoPendingUpdate
  PROVE  file.license = file.history.doc /\ Reached(file.history, file.license)
  BY DEF LicenseInv, FilesFit, RequireNoPendingUpdate

\* A continuation at a place that holds a document the history has reached.
LEMMA RelyingStep ==
  ASSUME LicenseInv, NEW t \in Actor, NEW j \in ActorType, Continue(t, j), j.todo = <<>>, j.pc \in Relying,
         j.doc \in Doc, Reached(file.history, j.doc), j.pc \in {"judge", "clear", "activate"} => j.staged \in Doc,
         UNCHANGED <<now, file, log, exclusive, lease, imports>>
  PROVE  LicenseInv'
<1>1. Holds(t, j) /\ Copies(j) /\ j.pc \notin Updating
  BY DEF Holds, Copies, Deciding, Switching, Copying, Updating, Relying
<1> QED
  BY <1>1, ContinueStep

LEMMA ReadCommittedDocumentStep ==
  ASSUME LicenseInv, NEW t \in Actor, ReadCommittedDocument(t)
  PROVE  LicenseInv'
<1>1. UNCHANGED <<now, file, log>> /\ imports' = imports /\ imports' \in Nat /\ job[t].todo = <<>> /\ job[t].pc = "read"
  BY DEF ReadCommittedDocument, LicenseInv, LicenseTypeOK, Enter
<1>2. CASE Return(t)
  BY <1>1, <1>2, ReturnStep
<1>3. CASE Continue(t, At(t, "install")) /\ UNCHANGED <<exclusive, lease>>
  <2> DEFINE j == At(t, "install")
  <2>1. /\ j \in ActorType /\ j.pc = "install" /\ j.doc = job[t].doc /\ j.todo = <<>> /\ j.event = job[t].event
    BY <1>1, AtKeeps DEF ActorPhase, Deciding
  <2> HIDE DEF j
  <2>2. Holds(t, j) /\ Copies(j) /\ j.pc \notin Updating
    BY <1>1, <2>1, TaskFacts DEF Holds, Copies, Deciding, Switching, Copying, Updating, Relying
  <2>3. Continue(t, j)
    BY <1>3 DEF j
  <2> QED
    BY <1>1, <1>3, <2>1, <2>2, <2>3, ContinueStep
<1> QED
  BY <1>2, <1>3 DEF ReadCommittedDocument

LEMMA LoadInstalledLicenseStep ==
  ASSUME LicenseInv, NEW t \in Actor, LoadInstalledLicense(t)
  PROVE  LicenseInv'
<1>1. UNCHANGED <<now, file, log, exclusive, lease, imports>>
  BY DEF LoadInstalledLicense
<1>2. PICK p \in {"load", "reload"}, q \in {"validate", "revalidate"} :
        Enter(t, p) /\ Continue(t, [At(t, q) EXCEPT !.doc = file.license])
  BY DEF LoadInstalledLicense
<1>3. job[t].todo = <<>> /\ RequireNoPendingUpdate
  BY <1>2 DEF Enter, Recovering
<1> DEFINE a == At(t, q)
           j == [a EXCEPT !.doc = file.license]
<1>4. a \in ActorType /\ a.pc = q /\ a.todo = <<>>
  BY <1>3, AtKeeps DEF ActorPhase, Relying
<1> HIDE DEF a
<1>5. j \in ActorType /\ j.pc = q /\ j.todo = <<>> /\ j.doc = file.license
  BY <1>4, TaskFacts DEF ActorType, MaybeDoc
<1>6. Continue(t, j)
  BY <1>2 DEF a
<1> HIDE DEF j
<1>7. j.pc \in Relying /\ j.pc \notin {"judge", "clear", "activate"}
  BY <1>5 DEF Relying
<1> QED
  BY <1>1, <1>3, <1>5, <1>6, <1>7, TaskFacts, InstalledIsReached, RelyingStep

LEMMA ValidateDocumentProgressStep ==
  ASSUME LicenseInv, NEW t \in Actor, ValidateDocumentProgress(t)
  PROVE  LicenseInv'
<1>1. UNCHANGED <<now, file, log>> /\ imports' = imports /\ imports' \in Nat
  BY DEF ValidateDocumentProgress, LicenseInv, LicenseTypeOK
<1>2. CASE Return(t)
  BY <1>1, <1>2, ReturnStep
<1>3. CASE ~Return(t)
  <2>1. PICK p \in {"validate", "revalidate"}, q \in {"find", "observe"} :
           Enter(t, p) /\ Continue(t, At(t, q)) /\ UNCHANGED <<exclusive, lease>>
    BY <1>3 DEF ValidateDocumentProgress
  <2>2. job[t].todo = <<>> /\ job[t].doc \in Doc /\ Reached(file.history, job[t].doc)
    BY <2>1, TaskFacts DEF Enter, Holds, Relying
  <2> DEFINE j == At(t, q)
  <2>3. j \in ActorType /\ j.pc = q /\ j.doc = job[t].doc /\ j.todo = <<>>
    BY <2>2, AtKeeps DEF ActorPhase, Relying
  <2> HIDE DEF j
  <2>4. j.pc \in Relying /\ j.pc \notin {"judge", "clear", "activate"}
    BY <2>3 DEF Relying
  <2>5. Continue(t, j)
    BY <2>1 DEF j
  <2> QED
    BY <1>1, <2>1, <2>2, <2>3, <2>4, <2>5, RelyingStep
<1> QED
  BY <1>2, <1>3

LEMMA LoadStagedLicenseStep ==
  ASSUME LicenseInv, NEW t \in Actor, LoadStagedLicense(t)
  PROVE  LicenseInv'
<1>1. UNCHANGED <<now, file, log, exclusive, lease, imports>>
  BY DEF LoadStagedLicense
<1>2. PICK q \in {"observe", "judge"} :
         /\ Enter(t, "find") /\ Continue(t, [At(t, q) EXCEPT !.staged = file.staged])
         /\ q = "judge" => file.staged # NoDoc
  BY DEF LoadStagedLicense
<1>3. job[t].todo = <<>> /\ job[t].doc \in Doc /\ Reached(file.history, job[t].doc)
  BY <1>2, TaskFacts DEF Enter, Holds, Relying
<1> DEFINE a == At(t, q)
           j == [a EXCEPT !.staged = file.staged]
<1>4. a \in ActorType /\ a.pc = q /\ a.todo = <<>> /\ a.doc = job[t].doc
  BY <1>3, AtKeeps DEF ActorPhase, Relying
<1> HIDE DEF a
<1>5. j \in ActorType /\ j.pc = q /\ j.todo = <<>> /\ j.doc = job[t].doc /\ j.staged = file.staged
  BY <1>4, TaskFacts DEF ActorType
<1>6. Continue(t, j)
  BY <1>2 DEF a
<1> HIDE DEF j
<1>7. j.pc \in Relying /\ (j.pc \in {"judge", "clear", "activate"} => j.staged \in Doc)
  BY <1>2, <1>5, TaskFacts DEF Relying, MaybeDoc
<1> QED
  BY <1>1, <1>3, <1>5, <1>6, <1>7, RelyingStep

LEMMA JudgeStagedStep ==
  ASSUME LicenseInv, NEW t \in Actor, JudgeStaged(t)
  PROVE  LicenseInv'
<1>1. UNCHANGED <<now, file, log>> /\ imports' = imports /\ imports' \in Nat
  BY DEF JudgeStaged, LicenseInv, LicenseTypeOK
<1>2. CASE Return(t)
  BY <1>1, <1>2, ReturnStep
<1>3. CASE ~Return(t)
  <2>1. PICK q \in {"clear", "observe", "activate"} :
           Enter(t, "judge") /\ Continue(t, At(t, q)) /\ UNCHANGED <<exclusive, lease>>
    BY <1>3 DEF JudgeStaged
  <2>2. job[t].todo = <<>> /\ job[t].doc \in Doc /\ Reached(file.history, job[t].doc) /\ job[t].staged \in Doc
    BY <2>1, TaskFacts DEF Enter, Holds, Relying
  <2> DEFINE j == At(t, q)
  <2>3. j \in ActorType /\ j.pc = q /\ j.doc = job[t].doc /\ j.todo = <<>>
        /\ (q \in {"clear", "activate"} => j.staged = job[t].staged)
    BY <2>2, AtKeeps DEF ActorPhase, Relying
  <2> HIDE DEF j
  <2>4. j.pc \in Relying /\ (j.pc \in {"judge", "clear", "activate"} => j.staged \in Doc)
    BY <2>1, <2>2, <2>3 DEF Relying
  <2>5. Continue(t, j)
    BY <2>1 DEF j
  <2> QED
    BY <1>1, <2>1, <2>2, <2>3, <2>4, <2>5, RelyingStep
<1> QED
  BY <1>2, <1>3

\* A step that changes only what t is doing, and nothing of the files, the locks or the log.
LEMMA PrivateStep ==
  ASSUME LicenseInv, NEW t \in Actor, NEW j \in ActorType, job' = [job EXCEPT ![t] = j],
         UNCHANGED <<now, file, log, locked, exclusive, lease, imports>>,
         j.todo = <<>>, j.pc \notin Updating, Holds(t, j), Copies(j)
  PROVE  LicenseInv'
<1>1. job'[t] = j /\ job' = [job EXCEPT ![t] = job'[t]]
  BY DEF LicenseInv, LicenseTypeOK
<1>2. lease'[t] \in MaybeDoc /\ lease' = [lease EXCEPT ![t] = lease'[t]] /\ LeaseFits(t)' /\ imports' \in Nat
  BY DEF LicenseInv, LicenseTypeOK, LeaseFits, Tasks
<1>3. Holds(t, job[t])'
  BY <1>1 DEF Holds, Reached
<1> QED
  BY <1>1, <1>2, <1>3, LicenseReads

LEMMA PendingActivationAuditsStep ==
  ASSUME LicenseInv, NEW t \in Actor, PendingActivationAudits(t)
  PROVE  LicenseInv'
<1>1. UNCHANGED <<now, file, log, exclusive, lease, imports>> /\ job[t].todo = <<>>
  BY DEF PendingActivationAudits, Enter
<1>2. CASE file.outbox = <<>>
  <2>1. Continue(t, IdleActor)
    BY <1>2 DEF PendingActivationAudits
  <2>2. Holds(t, IdleActor) /\ Copies(IdleActor) /\ IdleActor.todo = <<>> /\ IdleActor.pc \notin Updating
    BY DEF Holds, Copies, IdleActor, Deciding, Switching, Relying, Copying, Updating
  <2> QED
    BY <1>1, <2>1, <2>2, IdleIsType, ContinueStep
<1>3. CASE file.outbox # <<>>
  <2> DEFINE a == At(t, "check")
             j == [a EXCEPT !.list = file.outbox]
  <2>1. a \in ActorType /\ a.pc = "check" /\ a.todo = <<>>
    BY <1>1, AtKeeps DEF ActorPhase, Copying
  <2>2. Continue(t, j)
    BY <1>3 DEF PendingActivationAudits
  <2> HIDE DEF a
  <2>3. j \in ActorType /\ j.pc = "check" /\ j.todo = <<>> /\ j.list = file.outbox
    BY <2>1, TaskFacts DEF ActorType
  <2> HIDE DEF j
  <2>4. Holds(t, j) /\ Copies(j) /\ j.pc \notin Updating
    BY <1>3, <2>3 DEF Holds, Copies, Deciding, Switching, Copying, Updating, Relying
  <2> QED
    BY <1>1, <2>2, <2>3, <2>4, ContinueStep
<1> QED
  BY <1>2, <1>3

\* Only a section under the lock has files left to write.
LEMMA NothingToWrite ==
  ASSUME LicenseInv, NEW t \in Actor, job[t].pc \in {"check", "append", "mutate", "idle", "commit"}
  PROVE  job[t].todo = <<>>
  BY TaskFacts DEF Writes, Recovering, Updating

LEMMA FindLicenseAuditStep ==
  ASSUME LicenseInv, NEW t \in Actor, FindLicenseAudit(t)
  PROVE  LicenseInv'
<1>1. UNCHANGED <<now, file, log, locked, exclusive, lease, imports>> /\ job[t].pc = "check"
  BY DEF FindLicenseAudit
<1>2. job[t].todo = <<>> /\ job[t].list # <<>> /\ job[t] \in ActorType /\ log \in Seq(LicenseEvent)
  BY <1>1, NothingToWrite, TaskFacts DEF Copies, Copying, LicenseInv, LicenseTypeOK
<1>3. Contains(log, Head(job[t].list)) <=> InLog(Head(job[t].list))
  BY <1>2 DEF Contains, InLog
<1>4. PICK q \in {"ack", "append"}, n \in Nat :
        /\ q = "ack" => InLog(Head(job[t].list))
        /\ q = "append" => ~InLog(Head(job[t].list)) /\ n = Len(log)
        /\ job' = [job EXCEPT ![t].pc = q, ![t].tail = n]
  <2>1. CASE InLog(Head(job[t].list))
    <3>1. job' = [job EXCEPT ![t].pc = "ack", ![t].tail = 0]
      BY <1>3, <2>1 DEF FindLicenseAudit
    <3> WITNESS "ack" \in {"ack", "append"}, 0 \in Nat
    <3> QED
      BY <2>1, <3>1
  <2>2. CASE ~InLog(Head(job[t].list))
    <3>1. job' = [job EXCEPT ![t].pc = "append", ![t].tail = Len(log)]
      BY <1>3, <2>2 DEF FindLicenseAudit
    <3>2. Len(log) \in Nat
      BY <1>2
    <3> WITNESS "append" \in {"ack", "append"}, Len(log) \in Nat
    <3> QED
      BY <2>2, <3>1
  <2> QED
    BY <2>1, <2>2
<1> DEFINE j == [job[t] EXCEPT !.pc = q, !.tail = n]
<1>5. job' = [job EXCEPT ![t] = j]
  BY <1>4 DEF LicenseInv, LicenseTypeOK
<1>6. j \in ActorType /\ j.pc = q /\ j.tail = n /\ j.todo = <<>> /\ j.list = job[t].list
  BY <1>2, <1>4 DEF ActorType, ActorPhase, Copying
<1> HIDE DEF j
<1>7. Holds(t, j) /\ Copies(j) /\ j.pc \notin Updating
  BY <1>2, <1>4, <1>6 DEF Holds, Copies, Deciding, Switching, Copying, Updating, Relying
<1> QED
  BY <1>1, <1>5, <1>6, <1>7, PrivateStep

LEMMA CommitMutationStep ==
  ASSUME LicenseInv, NEW t \in Actor, CommitMutation(t)
  PROVE  LicenseInv'
<1>1. Return(t) /\ UNCHANGED <<now, file, log>> /\ imports' = imports
  BY DEF CommitMutation
<1> QED
  BY <1>1, TaskFacts, ReturnStep

LEMMA GuardMutationStep ==
  ASSUME LicenseInv, NEW t \in Actor, GuardMutation(t)
  PROVE  LicenseInv'
<1>1. UNCHANGED <<now, file, log>> /\ imports' = imports /\ imports' \in Nat /\ job[t].todo = <<>> /\ job[t].pc = "guard"
  BY DEF GuardMutation, LicenseInv, LicenseTypeOK, Enter
<1>2. CASE Return(t)
  BY <1>1, <1>2, ReturnStep
<1>3. CASE ~Return(t)
  <2>1. /\ CanShare /\ RequireNoPendingUpdate /\ file.license = job[t].doc
        /\ lease' = [lease EXCEPT ![t] = job[t].doc]
        /\ Continue(t, At(t, "mutate")) /\ UNCHANGED exclusive
    BY <1>3 DEF GuardMutation
  <2> DEFINE j == At(t, "mutate")
  <2>2. j \in ActorType /\ j.pc = "mutate" /\ j.doc = job[t].doc /\ j.todo = <<>> /\ j.doc \in Doc
    BY <1>1, <2>1, AtKeeps, TaskFacts DEF ActorPhase
  <2> HIDE DEF j
  <2>3. job'[t] = j /\ job' = [job EXCEPT ![t] = job'[t]]
    BY <2>1 DEF Continue, LicenseInv, LicenseTypeOK, j
  <2>4. lease'[t] = job[t].doc /\ lease' = [lease EXCEPT ![t] = lease'[t]] /\ lease'[t] \in MaybeDoc
    BY <2>1, <2>2 DEF LicenseInv, LicenseTypeOK, MaybeDoc
  <2>5. locked' \in {locked, Nobody} /\ (locked' = Nobody => locked \in {Nobody, t})
    BY <2>1 DEF Continue
  <2>6. LeaseFits(t)'
    BY <1>1, <2>1, <2>4 DEF LeaseFits, CanShare, RequireNoPendingUpdate
  <2>7. Holds(t, job[t])' /\ Copies(job'[t]) /\ j.pc \notin Updating
    BY <2>2, <2>3, <2>4 DEF Holds, Copies, Deciding, Switching, Copying, Updating, Relying
  <2>8. exclusive' \in {exclusive, Nobody} /\ (exclusive' = Nobody => exclusive \in {Nobody, t})
    BY <2>1
  <2> QED
    BY <1>1, <2>2, <2>3, <2>4, <2>5, <2>6, <2>7, <2>8, LicenseReads
<1> QED
  BY <1>2, <1>3

LEMMA BeginFreeSwitchStep ==
  ASSUME LicenseInv, NEW t \in Actor, BeginFreeSwitch(t)
  PROVE  LicenseInv'
<1>1. UNCHANGED <<now, file, log>> /\ imports' = imports /\ imports' \in Nat /\ job[t].todo = <<>> /\ job[t].pc = "begin"
  BY DEF BeginFreeSwitch, LicenseInv, LicenseTypeOK, Enter
<1>2. CASE Return(t)
  BY <1>1, <1>2, ReturnStep
<1>3. CASE ~Return(t)
  <2>1. CanExclude(t) /\ Continue(t, At(t, "commit")) /\ exclusive' = t /\ UNCHANGED lease
    BY <1>3 DEF BeginFreeSwitch
  <2> DEFINE j == At(t, "commit")
  <2>2. /\ j \in ActorType /\ j.pc = "commit" /\ j.doc = job[t].doc /\ j.todo = <<>>
        /\ j.event = job[t].event
    BY <1>1, AtKeeps DEF ActorPhase, Switching
  <2> HIDE DEF j
  <2>3. job' = [job EXCEPT ![t] = j] /\ job'[t] = j
    BY <2>1 DEF Continue, LicenseInv, LicenseTypeOK, j
  <2>4. locked' \in {locked, Nobody} /\ (locked' = Nobody => locked \in {Nobody, t})
    BY <2>1 DEF Continue
  <2>5. LicenseTypeOK'
    BY <1>1, <2>1, <2>2, <2>3, <2>4 DEF LicenseInv, LicenseTypeOK
  <2>6. Quiet(t)
    <3>1. \A u \in Actor \ {t} : job'[u] = job[u] /\ lease'[u] = lease[u]
      BY <2>1, <2>3 DEF LicenseInv, LicenseTypeOK
    <3>2. AtOrBefore(file.history, file'.history)
      BY <1>1, TaskFacts DEF HistoryType, AtOrBefore
    <3> QED BY <1>1, <2>1, <2>4, <3>1, <3>2 DEF Quiet, CanExclude
  <2>7. FilesFit'
    BY <1>1 DEF LicenseInv, FilesFit, OnRecord, InLog, StageFits, UpdateFits, Reached
  <2>8. LoggedOnce'
    BY <1>1 DEF LicenseInv, LoggedOnce
  <2>9. Holds(t, job[t])' /\ Copies(job[t])' /\ Writes(t, job[t])'
    BY <1>1, <2>1, <2>2, <2>3, TaskFacts DEF Holds, Copies, Writes, Deciding, Switching, Copying, Updating, Relying
  <2>10. LeaseFits(t)'
    BY <2>1 DEF LeaseFits, CanExclude
  <2> QED
    BY <2>5, <2>6, <2>7, <2>8, <2>9, <2>10, LicenseStepOf DEF Tasks
<1> QED
  BY <1>2, <1>3

LEMMA SetClockStep ==
  ASSUME LicenseInv, SetClock
  PROVE  LicenseInv'
<1>1. UNCHANGED <<file, locked, exclusive, lease, job, log, imports>> /\ now' \in Time
  BY DEF SetClock
<1>2. LicenseTypeOK'
  BY <1>1 DEF LicenseInv, LicenseTypeOK
<1>3. FilesFit' /\ LoggedOnce'
  BY <1>1 DEF LicenseInv, FilesFit, OnRecord, InLog, StageFits, UpdateFits, Reached, LoggedOnce
<1>4. ASSUME NEW t \in Actor PROVE Tasks(t)'
  <2>1. Tasks(t)
    BY DEF LicenseInv
  <2> QED
    BY <1>1, <2>1 DEF Tasks, Writes, Written, Holds, Copies, LeaseFits, InLog, Reached
<1> QED
  BY <1>2, <1>3, <1>4 DEF LicenseInv

LEMMA Longer ==
  ASSUME NEW S, NEW s \in Seq(S), NEW e \in S
  PROVE  /\ Append(s, e) \in Seq(S) /\ Len(Append(s, e)) = Len(s) + 1
         /\ DOMAIN Append(s, e) = 1 .. Len(s) + 1 /\ DOMAIN s = 1 .. Len(s)
         /\ \A i \in DOMAIN s : Append(s, e)[i] = s[i]
         /\ Append(s, e)[Len(s) + 1] = e
  OBVIOUS

\* What is on record stays on record when the log grows.
LEMMA FilesFitKept ==
  ASSUME LicenseInv, UNCHANGED file, \A e : InLog(e) => InLog(e)'
  PROVE  FilesFit'
<1>1. ASSUME NEW d, NEW outbox, OnRecord(d, outbox) PROVE OnRecord(d, outbox)'
  BY <1>1 DEF OnRecord
<1>2. ASSUME NEW i, StageFits(i) PROVE StageFits(i)'
  BY <1>1, <1>2 DEF StageFits
<1>3. ASSUME NEW i, UpdateFits(i) PROVE UpdateFits(i)'
  BY <1>3 DEF UpdateFits, Reached
<1> QED
  BY <1>1, <1>2, <1>3 DEF LicenseInv, FilesFit, Reached

LEMMA AppendLicenseAuditStep ==
  ASSUME LicenseInv, NEW t \in Actor, AppendLicenseAudit(t)
  PROVE  LicenseInv'
<1>1. UNCHANGED <<now, file, locked, exclusive, lease, imports>> /\ job[t].pc = "append"
  BY DEF AppendLicenseAudit
<1>2. /\ job[t].todo = <<>> /\ job[t].list # <<>> /\ job[t] \in ActorType /\ log \in Seq(LicenseEvent)
      /\ job[t].list \in Seq(LicenseEvent)
  BY <1>1, NothingToWrite, TaskFacts DEF Copies, Copying, LicenseInv, LicenseTypeOK, ActorType
<1> DEFINE e == Head(job[t].list)
<1>3. e \in LicenseEvent
  BY <1>2
<1>4. CASE Len(log) = job[t].tail
  <2>1. log' = Append(log, e) /\ job' = [job EXCEPT ![t].pc = "ack", ![t].tail = 0]
    BY <1>4 DEF AppendLicenseAudit
  <2>2. ~InLog(e)
    BY <1>1, <1>4, TaskFacts DEF Copies
  <2> DEFINE j == [job[t] EXCEPT !.pc = "ack", !.tail = 0]
  <2>3. job' = [job EXCEPT ![t] = j] /\ job'[t] = j
    BY <2>1 DEF LicenseInv, LicenseTypeOK
  <2>4. j \in ActorType /\ j.pc = "ack" /\ j.todo = <<>> /\ j.list = job[t].list
    BY <1>2 DEF ActorType, ActorPhase, Copying
  <2> HIDE DEF j, e
  <2>5. /\ log' \in Seq(LicenseEvent) /\ Len(log') = Len(log) + 1 /\ DOMAIN log' = 1 .. Len(log) + 1
        /\ DOMAIN log = 1 .. Len(log) /\ Len(log) \in Nat
        /\ (\A i \in DOMAIN log : log'[i] = log[i]) /\ log'[Len(log) + 1] = e
    BY <1>2, <1>3, <2>1, Longer
  <2>6. LicenseTypeOK'
    BY <1>1, <2>3, <2>4, <2>5 DEF LicenseInv, LicenseTypeOK
  <2>7. Quiet(t)
    <3>1. \A u \in Actor \ {t} : job'[u] = job[u] /\ lease'[u] = lease[u]
      BY <1>1, <2>3 DEF LicenseInv, LicenseTypeOK
    <3>2. AtOrBefore(file.history, file'.history)
      BY <1>1, TaskFacts DEF HistoryType, AtOrBefore
    <3> QED BY <1>1, <2>5, <3>1, <3>2 DEF Quiet
  <2>8. FilesFit'
    <3>1. \A x : InLog(x) => InLog(x)'
      BY <2>5 DEF InLog
    <3> QED BY <1>1, <3>1, FilesFitKept
  <2>9. LoggedOnce'
    <3>1. \A i \in DOMAIN log : log[i] # e
      BY <2>2 DEF InLog
    <3>2. \A i, k \in DOMAIN log : log[i] = log[k] => i = k
      BY DEF LicenseInv, LoggedOnce
    <3>3. ASSUME NEW i \in DOMAIN log', NEW k \in DOMAIN log', log'[i] = log'[k] PROVE i = k
      BY <2>5, <3>1, <3>2, <3>3
    <3> QED BY <3>3 DEF LoggedOnce
  <2>10. Copies(job[t])'
    <3>1. Len(log) + 1 \in DOMAIN log' /\ log'[Len(log) + 1] = Head(job'[t].list)
      BY <2>3, <2>4, <2>5 DEF e
    <3> QED BY <1>2, <2>3, <2>4, <3>1 DEF Copies, InLog
  <2>11. Holds(t, job[t])' /\ Writes(t, job[t])' /\ LeaseFits(t)'
    BY <1>1, <2>3, <2>4, TaskFacts DEF Holds, Writes, LeaseFits, Deciding, Switching, Updating, Relying
  <2> QED
    BY <2>6, <2>7, <2>8, <2>9, <2>10, <2>11, LicenseStepOf DEF Tasks
<1>5. CASE Len(log) # job[t].tail
  <2>1. UNCHANGED log /\ job' \in {[job EXCEPT ![t].pc = "check", ![t].tail = 0], [job EXCEPT ![t] = IdleActor]}
    BY <1>5 DEF AppendLicenseAudit
  <2>2. CASE job' = [job EXCEPT ![t].pc = "check", ![t].tail = 0]
    <3> DEFINE j == [job[t] EXCEPT !.pc = "check", !.tail = 0]
    <3>1. job' = [job EXCEPT ![t] = j]
      BY <2>2 DEF LicenseInv, LicenseTypeOK
    <3>2. j \in ActorType /\ j.pc = "check" /\ j.todo = <<>> /\ j.list = job[t].list
      BY <1>2 DEF ActorType, ActorPhase, Copying
    <3> HIDE DEF j
    <3>3. Holds(t, j) /\ Copies(j) /\ j.pc \notin Updating
      BY <1>2, <3>2 DEF Holds, Copies, Deciding, Switching, Copying, Updating, Relying
    <3> QED
      BY <1>1, <2>1, <3>1, <3>2, <3>3, PrivateStep
  <2>3. CASE job' = [job EXCEPT ![t] = IdleActor]
    <3>1. Holds(t, IdleActor) /\ Copies(IdleActor) /\ IdleActor.todo = <<>> /\ IdleActor.pc \notin Updating
      BY DEF Holds, Copies, IdleActor, Deciding, Switching, Relying, Copying, Updating
    <3> QED
      BY <1>1, <2>1, <2>3, <3>1, IdleIsType, PrivateStep
  <2> QED
    BY <2>1, <2>2, <2>3
<1> QED
  BY <1>4, <1>5

\* Who may exclude mutations finds none in flight.
LEMMA NoLeases ==
  ASSUME LicenseInv, NEW t \in Actor, exclusive = t \/ CanExclude(t)
  PROVE  exclusive \in {Nobody, t} /\ \A u \in Actor : lease[u] = NoDoc
<1>1. t # Nobody
  BY LicenseAssumption
<1> QED
  BY <1>1 DEF LicenseInv, Tasks, LeaseFits, CanExclude

\* The intent is on disk, and the files it names are those it saw or those it writes.
LEMMA IntentStep ==
  ASSUME LicenseInv, NEW t \in Actor, NEW i \in StageIntent \cup UpdateIntent, NEW pc \in Updating \cup Recovering,
         FreeFor(t), exclusive = t \/ CanExclude(t), job[t].todo = <<>>,
         file' = [file EXCEPT !.pending = i], locked' = t, exclusive' = t, UNCHANGED lease, FinishUpdate(t, i, pc),
         UNCHANGED <<now, log, imports>>,
         i.kind = "stage" => StageFits(i), i.kind = "update" => UpdateFits(i),
         pc = job[t].pc \/ pc \in Updating,
         pc = "activating" => i.kind = "update" /\ job[t].staged \in Doc /\ Reached(i.next.history, job[t].staged)
  PROVE  LicenseInv'
<1>1. /\ file \in FilesType /\ job[t] \in ActorType /\ exclusive \in {Nobody, t}
      /\ \A u \in Actor : lease[u] = NoDoc
  BY NoLeases, TaskFacts
<1>2. /\ file' \in FilesType /\ file'.pending = i /\ file'.license = file.license /\ file'.history = file.history
      /\ file'.staged = file.staged /\ file'.outbox = file.outbox
  BY <1>1 DEF FilesType
<1>3. i.kind \in {"stage", "update"} /\ i # NoIntent
  BY DEF StageIntent, UpdateIntent, NoIntent
<1> DEFINE j == [job[t] EXCEPT !.intent = i, !.todo = Updated(i) \o <<"pending">>, !.pc = pc]
<1>4. job' = [job EXCEPT ![t] = j] /\ job'[t] = j
  BY DEF FinishUpdate, LicenseInv, LicenseTypeOK
<1>5. /\ Updated(i) \o <<"pending">> \in Seq(FileName) /\ Updated(i) \o <<"pending">> # <<>>
      /\ i.kind = "stage" => Updated(i) \o <<"pending">> = <<"staged", "outbox", "pending">>
      /\ i.kind = "update" => Updated(i) \o <<"pending">> = <<"history", "license", "outbox", "pending">>
  <2>1. /\ <<"staged", "outbox", "pending">> \in Seq(FileName) /\ <<"staged", "outbox", "pending">> # <<>>
        /\ <<"history", "license", "outbox", "pending">> \in Seq(FileName)
        /\ <<"history", "license", "outbox", "pending">> # <<>>
    BY Listed, Zenon
  <2>2. i.kind = "stage" => Updated(i) \o <<"pending">> = <<"staged", "outbox", "pending">>
    BY Orders, Zenon DEF Updated
  <2>3. i.kind = "update" => Updated(i) \o <<"pending">> = <<"history", "license", "outbox", "pending">>
    <3>1. i.kind = "update" => Updated(i) = <<"history", "license", "outbox">>
      BY DEF Updated
    <3> QED BY <3>1, Orders, Zenon
  <2> QED BY <1>3, <2>1, <2>2, <2>3, Zenon
<1>6. /\ j \in ActorType /\ j.pc = pc /\ j.intent = i /\ j.todo = Updated(i) \o <<"pending">>
      /\ j.doc = job[t].doc /\ j.staged = job[t].staged /\ j.event = job[t].event /\ j.list = job[t].list
      /\ j.tail = job[t].tail
  <2>1. pc \in ActorPhase
    BY DEF ActorPhase, Updating, Recovering, Deciding, Switching, Relying, Copying
  <2> QED BY <1>1, <1>5, <2>1 DEF ActorType
<1> HIDE DEF j
<1>7. LicenseTypeOK'
  BY <1>2, <1>4, <1>6 DEF LicenseInv, LicenseTypeOK
<1>8. Quiet(t)
  <2>1. \A u \in Actor \ {t} : job'[u] = job[u] /\ lease'[u] = lease[u]
    BY <1>4 DEF LicenseInv, LicenseTypeOK
  <2>2. AtOrBefore(file.history, file'.history)
    BY <1>2, TaskFacts DEF HistoryType, AtOrBefore
  <2> QED BY <1>1, <2>1, <2>2 DEF Quiet, FreeFor
<1>9. FilesFit'
  <2>1. i.kind = "stage" => StageFits(i)'
    BY <1>2 DEF StageFits, OnRecord, InLog
  <2>2. i.kind = "update" => UpdateFits(i)'
    BY <1>2 DEF UpdateFits, Reached, Succeeds
  <2>3. Reached(file.history, file.history.doc)
    BY DEF LicenseInv, FilesFit
  <2> QED BY <1>2, <1>3, <2>1, <2>2, <2>3 DEF FilesFit, Reached
<1>10. Writes(t, job[t])'
  <2>1. Written(job[t], file.pending)'
    BY <1>2, <1>3, <1>4, <1>5, <1>6 DEF Written
  <2> QED BY <1>2, <1>3, <1>4, <1>5, <1>6, <2>1 DEF Writes, Reached
<1>11. Holds(t, job[t])' /\ Copies(job[t])'
  <2>1. CASE pc \in Updating
    BY <1>4, <1>6, <2>1 DEF Holds, Copies, Updating, Deciding, Switching, Relying, Copying
  <2>2. CASE pc = job[t].pc /\ pc \in Recovering
    <3>1. Holds(t, j) /\ Copies(j)
      BY <1>6, <2>2, TaskFacts DEF Holds, Copies
    <3> QED BY <1>2, <1>4, <1>6, <2>2, <3>1 DEF Holds, Copies, Reached, InLog, Recovering
  <2> QED BY <2>1, <2>2
<1>12. LeaseFits(t)' /\ LoggedOnce'
  BY <1>1 DEF LeaseFits, LicenseInv, LoggedOnce
<1> QED
  BY <1>7, <1>8, <1>9, <1>10, <1>11, <1>12, LicenseStepOf DEF Tasks

LEMMA RecoverUpdateStep ==
  ASSUME LicenseInv, NEW t \in Actor, RecoverUpdate(t)
  PROVE  LicenseInv'
<1> DEFINE i == file.pending
<1>1. i \in StageIntent \cup UpdateIntent
  BY TaskFacts DEF RecoverUpdate, RequireNoPendingUpdate, FilesType
<1>2. /\ file' = [file EXCEPT !.pending = i] /\ locked' = t /\ exclusive' = t
      /\ UNCHANGED lease /\ FinishUpdate(t, i, job[t].pc) /\ UNCHANGED <<now, log, imports>>
  BY TaskFacts DEF RecoverUpdate, FilesType
<1>3. (i.kind = "stage" => StageFits(i)) /\ (i.kind = "update" => UpdateFits(i))
  BY DEF LicenseInv, FilesFit
<1>4. job[t].pc \in Recovering /\ FreeFor(t) /\ CanExclude(t) /\ job[t].todo = <<>>
  BY DEF RecoverUpdate
<1>5. job[t].pc \in Updating \cup Recovering /\ job[t].pc # "activating"
  BY <1>4 DEF Recovering
<1> HIDE DEF i
<1> QED
  BY <1>1, <1>2, <1>3, <1>4, <1>5, IntentStep

\* The intent of a staging remembers the files it saw.
LEMMA SeenByStage ==
  ASSUME file \in FilesType, NEW d \in Doc, NEW o \in Seq(LicenseEvent), NEW i,
         i = Intent("stage", [staged |-> d, outbox |-> o])
  PROVE  /\ i \in StageIntent /\ i.kind = "stage"
         /\ i.previous.staged = file.staged /\ i.previous.outbox = file.outbox
         /\ i.next.staged = d /\ i.next.outbox = o
<1> DEFINE n == [staged |-> d, outbox |-> o]
           p == [f \in DOMAIN n |-> file[f]]
<1>1. n \in StageFiles /\ DOMAIN n = {"staged", "outbox"} /\ n.staged = d /\ n.outbox = o
  BY DEF StageFiles, MaybeDoc
<1>2. i = [kind |-> "stage", previous |-> p, next |-> n]
  BY DEF Intent
<1> HIDE DEF n
<1>3. p = [staged |-> file.staged, outbox |-> file.outbox]
  BY <1>1
<1>4. p \in StageFiles /\ p.staged = file.staged /\ p.outbox = file.outbox
  BY <1>3 DEF StageFiles, FilesType
<1> HIDE DEF p
<1> QED
  BY <1>1, <1>2, <1>4 DEF StageIntent

\* The intent of a new license remembers the files it saw.
LEMMA SeenByUpdate ==
  ASSUME file \in FilesType, NEW h \in HistoryType, NEW d \in Doc, NEW o \in Seq(LicenseEvent), NEW i,
         i = Intent("update", [history |-> h, license |-> d, outbox |-> o])
  PROVE  /\ i \in UpdateIntent /\ i.kind = "update"
         /\ i.previous.history = file.history /\ i.previous.license = file.license /\ i.previous.outbox = file.outbox
         /\ i.next.history = h /\ i.next.license = d /\ i.next.outbox = o
<1> DEFINE n == [history |-> h, license |-> d, outbox |-> o]
           p == [f \in DOMAIN n |-> file[f]]
<1>1. /\ n \in UpdateFiles /\ DOMAIN n = {"history", "license", "outbox"}
      /\ n.history = h /\ n.license = d /\ n.outbox = o
  BY DEF UpdateFiles
<1>2. i = [kind |-> "update", previous |-> p, next |-> n]
  BY DEF Intent
<1> HIDE DEF n
<1>3. p = [history |-> file.history, license |-> file.license, outbox |-> file.outbox]
  BY <1>1
<1>4. p \in UpdateFiles /\ p.history = file.history /\ p.license = file.license /\ p.outbox = file.outbox
  BY <1>3 DEF UpdateFiles, FilesType
<1> HIDE DEF p
<1> QED
  BY <1>1, <1>2, <1>4 DEF UpdateIntent

\* Appending to the outbox loses no event.
LEMMA OutboxGrows ==
  ASSUME NEW o \in Seq(LicenseEvent), NEW e \in LicenseEvent
  PROVE  /\ Append(o, e) \in Seq(LicenseEvent) /\ Contains(Append(o, e), e)
         /\ \A x : Contains(o, x) => Contains(Append(o, e), x)
  BY Longer DEF Contains

LEMMA StageDocumentStep ==
  ASSUME LicenseInv, NEW t \in Actor, StageDocument(t)
  PROVE  LicenseInv'
<1>1. /\ UNCHANGED <<now, log>> /\ imports' = imports /\ imports' \in Nat
      /\ Enter(t, "stage") /\ job[t].todo = <<>> /\ job[t].pc = "stage" /\ FreeFor(t) /\ RequireNoPendingUpdate
  BY DEF StageDocument, LicenseInv, LicenseTypeOK, Enter, Recovering
<1>2. CASE Return(t) /\ UNCHANGED file
  BY <1>1, <1>2, ReturnStep
<1>3. CASE ~(Return(t) /\ UNCHANGED file)
  <2> DEFINE d == job[t].doc
             o == Append(file.outbox, job[t].event)
             i == Intent("stage", [staged |-> d, outbox |-> o])
  <2>1. CanExclude(t) /\ WriteUpdateIntent(t, i, "staging")
    BY <1>3 DEF StageDocument
  <2>2. d \in Doc /\ job[t].event \in LicenseEvent /\ file \in FilesType /\ file.outbox \in Seq(LicenseEvent)
    BY <1>1, TaskFacts DEF Holds, Deciding
  <2>3. o \in Seq(LicenseEvent) /\ \A x : Contains(file.outbox, x) => Contains(o, x)
    BY <2>2, OutboxGrows
  <2> HIDE DEF d, o, i
  <2>4. /\ i \in StageIntent /\ i.kind = "stage"
        /\ i.previous.staged = file.staged /\ i.previous.outbox = file.outbox
        /\ i.next.staged = d /\ i.next.outbox = o
    BY <2>2, <2>3, SeenByStage DEF i
  <2>5. file.license = file.history.doc /\ OnRecord(file.license, file.outbox)
    BY <1>1 DEF LicenseInv, FilesFit, RequireNoPendingUpdate
  <2>6. StageFits(i)
    BY <2>3, <2>4, <2>5 DEF StageFits
  <2>7. PICK pc \in Updating : pc = "staging"
    BY DEF Updating
  <2> QED
    BY <1>1, <2>1, <2>4, <2>6, <2>7, IntentStep DEF WriteUpdateIntent
<1> QED
  BY <1>2, <1>3

\* An intent that brings d into force, with an event for it.
LEMMA UpdateWillFit ==
  ASSUME LicenseInv, NEW h \in HistoryType, NEW d \in Doc, NEW o \in Seq(LicenseEvent), NEW i,
         i = Intent("update", [history |-> h, license |-> d, outbox |-> o]),
         h.doc = d, Succeeds(file.history, h), Reached(h, d), NEW e \in LicenseEvent, e.doc = d, Contains(o, e)
  PROVE  i \in UpdateIntent /\ i.kind = "update" /\ UpdateFits(i) /\ i.next.history = h
<1>1. /\ i \in UpdateIntent /\ i.kind = "update"
      /\ i.previous.history = file.history /\ i.previous.license = file.license /\ i.previous.outbox = file.outbox
      /\ i.next.history = h /\ i.next.license = d /\ i.next.outbox = o
  BY SeenByUpdate DEF LicenseInv, LicenseTypeOK
<1> QED
  BY <1>1 DEF UpdateFits

LEMMA InstallDocumentStep ==
  ASSUME LicenseInv, NEW t \in Actor, InstallDocument(t)
  PROVE  LicenseInv'
<1>1. /\ UNCHANGED <<now, log>> /\ imports' = imports /\ imports' \in Nat
      /\ Enter(t, "install") /\ job[t].todo = <<>> /\ job[t].pc = "install" /\ FreeFor(t)
  BY DEF InstallDocument, LicenseInv, LicenseTypeOK, Enter
<1>2. CASE Return(t) /\ UNCHANGED file
  BY <1>1, <1>2, ReturnStep
<1>3. CASE ~(Return(t) /\ UNCHANGED file)
  <2> DEFINE d == job[t].doc
             h == Observe(file.history, d)
             o == Append(file.outbox, job[t].event)
             i == Intent("update", [history |-> h, license |-> d, outbox |-> o])
  <2>1. CanExclude(t) /\ ValidateObservation(file.history, d) /\ WriteUpdateIntent(t, i, "installing")
    BY <1>3 DEF InstallDocument
  <2>2. d \in Doc /\ job[t].event \in LicenseEvent /\ job[t].event.doc = d /\ now \in Time
        /\ file.outbox \in Seq(LicenseEvent) /\ file.history \in HistoryType
    BY <1>1, TaskFacts DEF Holds, Deciding
  <2> HIDE DEF d
  <2>3. h \in HistoryType /\ h.doc = d /\ Succeeds(file.history, h) /\ Reached(h, d)
    BY <2>1, <2>2, ObservedHistory DEF ValidateObservation
  <2>4. o \in Seq(LicenseEvent) /\ Contains(o, job[t].event)
    BY <2>2, OutboxGrows
  <2> HIDE DEF h, o, i
  <2>5. i \in UpdateIntent /\ i.kind = "update" /\ UpdateFits(i)
    BY <2>2, <2>3, <2>4, UpdateWillFit DEF i
  <2>6. PICK pc \in Updating : pc = "installing"
    BY DEF Updating
  <2> QED
    BY <1>1, <2>1, <2>5, <2>6, IntentStep DEF WriteUpdateIntent
<1> QED
  BY <1>2, <1>3

LEMMA CommitFreeSwitchStep ==
  ASSUME LicenseInv, NEW t \in Actor, CommitFreeSwitch(t)
  PROVE  LicenseInv'
<1>1. /\ UNCHANGED <<now, log>> /\ imports' = imports /\ imports' \in Nat
      /\ Enter(t, "commit") /\ job[t].todo = <<>> /\ job[t].pc = "commit" /\ FreeFor(t)
  BY DEF CommitFreeSwitch, LicenseInv, LicenseTypeOK, Enter
<1>2. CASE Return(t) /\ UNCHANGED file
  BY <1>1, <1>2, ReturnStep
<1>3. CASE ~(Return(t) /\ UNCHANGED file)
  <2> DEFINE d == job[t].event.doc
             g == Observe(file.history, job[t].doc)
             h == [g EXCEPT !.doc = d, !.id = Meta[d].id]
             o == Append(file.outbox, job[t].event)
             i == Intent("update", [history |-> h, license |-> d, outbox |-> o])
  <2>1. ValidateProgress(file.history, job[t].doc) /\ WriteUpdateIntent(t, i, "switching")
    BY <1>3 DEF CommitFreeSwitch, ValidateSwitchSnapshot, ValidateObservation
  <2>2. d \in Doc /\ job[t].event \in LicenseEvent /\ now \in Time /\ job[t].doc \in Doc /\ Meta[d].free
        /\ file.outbox \in Seq(LicenseEvent) /\ file.history \in HistoryType /\ exclusive = t
    BY <1>1, TaskFacts DEF Holds, Switching, LicenseEvent
  <2> HIDE DEF d
  <2>3. g \in HistoryType /\ Succeeds(file.history, g)
    BY <2>1, <2>2, ObservedHistory
  <2> HIDE DEF g
  <2>4. h \in HistoryType /\ h.doc = d /\ h.issued = g.issued /\ h.seq = g.seq
    BY <2>2, <2>3, LicenseAssumption DEF HistoryType
  <2>5. o \in Seq(LicenseEvent) /\ Contains(o, job[t].event)
    BY <2>2, OutboxGrows
  <2> HIDE DEF h, o, i
  <2>6. Succeeds(file.history, h) /\ Reached(h, d)
    BY <2>2, <2>3, <2>4 DEF Succeeds, Reached, AtOrBefore
  <2>7. i \in UpdateIntent /\ i.kind = "update" /\ UpdateFits(i)
    BY <2>2, <2>4, <2>5, <2>6, UpdateWillFit DEF i, d
  <2>8. PICK pc \in Updating : pc = "switching"
    BY DEF Updating
  <2> QED
    BY <1>1, <2>1, <2>2, <2>7, <2>8, IntentStep DEF WriteUpdateIntent
<1> QED
  BY <1>2, <1>3

\* A section that writes one file, while no update is pending.
LEMMA WriteOneStep ==
  ASSUME LicenseInv, NEW t \in Actor, NEW j \in ActorType, Continue(t, j), FreeFor(t), RequireNoPendingUpdate,
         file' \in FilesType, file'.pending = NoIntent, file'.license = file.license,
         file'.history.doc = file.history.doc, AtOrBefore(file.history, file'.history),
         OnRecord(file.license, file'.outbox), UNCHANGED <<now, log, exclusive, lease, imports>>,
         j.todo = <<>>, j.pc \notin Updating, Holds(t, j), Copies(j)
  PROVE  LicenseInv'
<1>1. job' = [job EXCEPT ![t] = j] /\ job'[t] = j
  BY DEF Continue, LicenseInv, LicenseTypeOK
<1>2. locked' \in {locked, Nobody} /\ (locked' = Nobody => locked \in {Nobody, t})
  BY DEF Continue
<1>3. LicenseTypeOK'
  BY <1>1, <1>2 DEF LicenseInv, LicenseTypeOK
<1>4. file.pending = NoIntent /\ file.license = file.history.doc /\ Reached(file.history, file.history.doc)
      /\ file.history \in HistoryType /\ file'.history \in HistoryType /\ file.history.doc \in Doc
  BY <1>3 DEF RequireNoPendingUpdate, LicenseInv, FilesFit, LicenseTypeOK, FilesType, HistoryType
<1>5. \A d \in Doc : Reached(file.history, d) => Reached(file'.history, d)
  BY <1>4, ReachedOn
<1>6. Quiet(t)
  <2>1. \A u \in Actor \ {t} : job'[u] = job[u] /\ lease'[u] = lease[u]
    BY <1>1 DEF LicenseInv, LicenseTypeOK
  <2> QED BY <1>2, <1>4, <2>1 DEF Quiet, FreeFor
<1>7. FilesFit'
  <2>1. Reached(file'.history, file'.history.doc)
    BY <1>4, <1>5
  <2>2. OnRecord(file.license, file.outbox)'
    BY DEF OnRecord, InLog
  <2>3. file'.pending.kind = "none"
    BY DEF NoIntent
  <2> QED BY <1>4, <2>1, <2>2, <2>3 DEF FilesFit, Reached
<1>8. Holds(t, job[t])' /\ Copies(job[t])' /\ Writes(t, job[t])'
  <2>1. Holds(t, job[t])'
    BY <1>1, <1>5 DEF Holds, Reached
  <2>2. Copies(job[t])' /\ Writes(t, job[t])'
    BY <1>1 DEF Copies, InLog, Writes, Updating
  <2> QED BY <2>1, <2>2
<1>9. LeaseFits(t)' /\ LoggedOnce'
  BY <1>4, TaskFacts DEF LeaseFits, LicenseInv, LoggedOnce
<1> QED
  BY <1>3, <1>6, <1>7, <1>8, <1>9, LicenseStepOf DEF Tasks

\* The staged marker may be emptied while no update is pending.
LEMMA ClearStep ==
  ASSUME LicenseInv, NEW t \in Actor, NEW j \in ActorType, Continue(t, j), FreeFor(t), RequireNoPendingUpdate,
         MayClearStaged \/ UNCHANGED file, UNCHANGED <<now, log, exclusive, lease, imports>>,
         j.todo = <<>>, j.pc \notin Updating, Holds(t, j), Copies(j)
  PROVE  LicenseInv'
<1>1. CASE UNCHANGED file
  BY <1>1, ContinueStep
<1>2. CASE file' = [file EXCEPT !.staged = NoDoc]
  <2>1. /\ file' \in FilesType /\ file'.pending = file.pending /\ file'.license = file.license
        /\ file'.history = file.history /\ file'.outbox = file.outbox
    BY <1>2, TaskFacts DEF FilesType, MaybeDoc
  <2>2. AtOrBefore(file.history, file'.history)
    BY <2>1, TaskFacts DEF HistoryType, AtOrBefore
  <2>3. OnRecord(file.license, file'.outbox)
    BY <2>1 DEF LicenseInv, FilesFit, RequireNoPendingUpdate
  <2> QED
    BY <2>1, <2>2, <2>3, WriteOneStep DEF RequireNoPendingUpdate
<1> QED
  BY <1>1, <1>2 DEF MayClearStaged

LEMMA ClearStagedDocumentStep ==
  ASSUME LicenseInv, NEW t \in Actor, ClearStagedDocument(t)
  PROVE  LicenseInv'
<1>1. /\ UNCHANGED <<now, log, exclusive, lease, imports>> /\ Enter(t, "clear") /\ job[t].todo = <<>>
      /\ FreeFor(t) /\ RequireNoPendingUpdate /\ (MayClearStaged \/ UNCHANGED file)
      /\ Continue(t, At(t, "observe"))
  BY DEF ClearStagedDocument, Enter, Recovering
<1>2. job[t].doc \in Doc /\ Reached(file.history, job[t].doc)
  BY <1>1, TaskFacts DEF Enter, Holds, Relying
<1> DEFINE j == At(t, "observe")
<1>3. j \in ActorType /\ j.pc = "observe" /\ j.doc = job[t].doc /\ j.todo = <<>>
  BY <1>1, AtKeeps DEF ActorPhase, Relying
<1>4. Continue(t, j)
  BY <1>1
<1> HIDE DEF j
<1>5. Holds(t, j) /\ Copies(j) /\ j.pc \notin Updating
  BY <1>2, <1>3 DEF Holds, Copies, Deciding, Switching, Copying, Updating, Relying
<1> QED
  BY <1>1, <1>3, <1>4, <1>5, ClearStep

LEMMA ActivationEndsStep ==
  ASSUME LicenseInv, NEW t \in Actor, ActivationEnds(t)
  PROVE  LicenseInv'
<1>1. /\ UNCHANGED <<now, log, exclusive, lease, imports>> /\ job[t].pc = "activating" /\ job[t].todo = <<>>
      /\ MayClearStaged /\ Continue(t, [At(t, "observe") EXCEPT !.doc = job[t].staged])
  BY DEF ActivationEnds
<1>2. job[t].staged \in Doc /\ Reached(file.history, job[t].staged) /\ file.pending = NoIntent /\ locked = t
  BY <1>1, TaskFacts DEF Writes, Updating
<1> DEFINE a == At(t, "observe")
           j == [a EXCEPT !.doc = job[t].staged]
<1>3. a \in ActorType /\ a.pc = "observe" /\ a.todo = <<>>
  BY <1>1, AtKeeps DEF ActorPhase, Relying
<1>4. Continue(t, j)
  BY <1>1
<1> HIDE DEF a
<1>5. j \in ActorType /\ j.pc = "observe" /\ j.todo = <<>> /\ j.doc = job[t].staged
  BY <1>2, <1>3 DEF ActorType, MaybeDoc
<1> HIDE DEF j
<1>6. Holds(t, j) /\ Copies(j) /\ j.pc \notin Updating
  BY <1>2, <1>5 DEF Holds, Copies, Deciding, Switching, Copying, Updating, Relying
<1> QED
  BY <1>1, <1>2, <1>4, <1>5, <1>6, ClearStep DEF FreeFor, RequireNoPendingUpdate

LEMMA CheckAndObserveStep ==
  ASSUME LicenseInv, NEW t \in Actor, CheckAndObserve(t)
  PROVE  LicenseInv'
<1>1. /\ UNCHANGED <<now, log>> /\ imports' = imports /\ imports' \in Nat
      /\ Enter(t, "observe") /\ job[t].todo = <<>> /\ job[t].pc = "observe" /\ FreeFor(t)
  BY DEF CheckAndObserve, LicenseInv, LicenseTypeOK, Enter
<1>2. CASE Return(t) /\ UNCHANGED file
  BY <1>1, <1>2, ReturnStep
<1>3. CASE ~(Return(t) /\ UNCHANGED file)
  <2> DEFINE d == job[t].doc
             h == Observe(file.history, d)
  <2>1. /\ RequireNoPendingUpdate /\ ValidateProgress(file.history, d) /\ file' = [file EXCEPT !.history = h]
        /\ Continue(t, At(t, "guard")) /\ UNCHANGED <<exclusive, lease>>
    BY <1>3 DEF CheckAndObserve, ValidateObservation
  <2>2. d \in Doc /\ Reached(file.history, d) /\ now \in Time /\ file.history \in HistoryType
    BY <1>1, TaskFacts DEF Holds, Relying
  <2>3. file.history.doc = d
    BY <2>1, <2>2, OnlyTheLatest
  <2>4. h \in HistoryType /\ h.doc = d /\ AtOrBefore(file.history, h)
    BY <2>1, <2>2, ObservedHistory DEF Succeeds
  <2> HIDE DEF h
  <2>5. /\ file' \in FilesType /\ file'.pending = file.pending /\ file'.license = file.license
        /\ file'.history = h /\ file'.outbox = file.outbox
    BY <2>1, <2>4, TaskFacts DEF FilesType
  <2>6. OnRecord(file.license, file'.outbox)
    BY <2>1, <2>5 DEF LicenseInv, FilesFit, RequireNoPendingUpdate
  <2> DEFINE j == At(t, "guard")
  <2>7. j \in ActorType /\ j.pc = "guard" /\ j.doc = d /\ j.todo = <<>>
    BY <1>1, AtKeeps DEF ActorPhase, Relying
  <2>8. Continue(t, j)
    BY <2>1
  <2> HIDE DEF j, d
  <2>9. Holds(t, j) /\ Copies(j) /\ j.pc \notin Updating
    BY <2>2, <2>7 DEF Holds, Copies, Deciding, Switching, Copying, Updating, Relying
  <2> QED
    BY <1>1, <2>1, <2>3, <2>4, <2>5, <2>6, <2>7, <2>8, <2>9, WriteOneStep DEF RequireNoPendingUpdate
<1> QED
  BY <1>2, <1>3

LEMMA ActivateStagedDocumentStep ==
  ASSUME LicenseInv, NEW t \in Actor, ActivateStagedDocument(t)
  PROVE  LicenseInv'
<1> DEFINE d == job[t].staged
<1>1. /\ UNCHANGED <<now, log>> /\ imports' = imports /\ imports' \in Nat
      /\ Enter(t, "activate") /\ job[t].todo = <<>> /\ job[t].pc = "activate" /\ FreeFor(t) /\ RequireNoPendingUpdate
  BY DEF ActivateStagedDocument, LicenseInv, LicenseTypeOK, Enter, Recovering
<1>2. d \in Doc /\ now \in Time /\ file.outbox \in Seq(LicenseEvent) /\ file.history \in HistoryType
  BY <1>1, TaskFacts DEF Holds
<1>3. CASE Return(t) /\ UNCHANGED file
  BY <1>1, <1>3, ReturnStep
<1>4. CASE Continue(t, At(t, "reload")) /\ UNCHANGED <<exclusive, lease>> /\ (MayClearStaged \/ UNCHANGED file)
  <2> DEFINE j == At(t, "reload")
  <2>1. j \in ActorType /\ j.pc = "reload" /\ j.todo = <<>>
    BY <1>1, AtKeeps DEF ActorPhase
  <2>2. Continue(t, j)
    BY <1>4
  <2> HIDE DEF j
  <2>3. Holds(t, j) /\ Copies(j) /\ j.pc \notin Updating
    BY <2>1 DEF Holds, Copies, Deciding, Switching, Copying, Updating, Relying
  <2> QED
    BY <1>1, <1>4, <2>1, <2>2, <2>3, ClearStep
<1> DEFINE h == Observe(file.history, d)
           o == WithActivation(d)
           i == Intent("update", [history |-> h, license |-> d, outbox |-> o])
<1>5. CASE CanExclude(t) /\ ValidateObservation(file.history, d) /\ WriteUpdateIntent(t, i, "activating")
  <2> HIDE DEF d
  <2>1. h \in HistoryType /\ h.doc = d /\ Succeeds(file.history, h) /\ Reached(h, d)
    BY <1>2, <1>5, ObservedHistory DEF ValidateObservation
  <2>2. Activation(d) \in LicenseEvent /\ Activation(d).doc = d
    BY <1>2 DEF Activation, LicenseEvent
  <2>3. o \in Seq(LicenseEvent) /\ Contains(o, Activation(d))
    BY <1>2, <2>2, OutboxGrows DEF WithActivation
  <2> HIDE DEF h, o, i
  <2>4. i \in UpdateIntent /\ i.kind = "update" /\ UpdateFits(i) /\ i.next.history = h
    BY <1>2, <2>1, <2>2, <2>3, UpdateWillFit DEF i
  <2>5. PICK pc \in Updating : pc = "activating"
    BY DEF Updating
  <2> QED
    BY <1>1, <1>2, <1>5, <2>1, <2>4, <2>5, IntentStep DEF WriteUpdateIntent, d
<1> HIDE DEF h, o
<1> QED
  BY <1>3, <1>4, <1>5 DEF ActivateStagedDocument, h, o

\* Removing one element keeps the others.
LEMMA RemoveAtKeeps ==
  ASSUME NEW S, NEW s \in Seq(S), NEW k \in 1 .. Len(s)
  PROVE  /\ RemoveAt(s, k) \in Seq(S)
         /\ \A i \in 1 .. Len(s) : i # k => Contains(RemoveAt(s, k), s[i])
<1> DEFINE a == SubSeq(s, 1, k - 1)
           b == SubSeq(s, k + 1, Len(s))
<1>1. a \in Seq(S) /\ Len(a) = k - 1 /\ \A i \in 1 .. k - 1 : a[i] = s[i]
  OBVIOUS
<1>2. b \in Seq(S) /\ Len(b) = Len(s) - k /\ \A i \in 1 .. Len(s) - k : b[i] = s[k + i]
  OBVIOUS
<1> HIDE DEF a, b
<1>3. /\ a \o b \in Seq(S) /\ Len(a \o b) = Len(s) - 1
      /\ \A i \in 1 .. k - 1 : (a \o b)[i] = s[i]
      /\ \A i \in k .. Len(s) - 1 : (a \o b)[i] = s[i + 1]
  <2> DEFINE c == a \o b
  <2>1. /\ c \in Seq(S) /\ Len(c) = Len(a) + Len(b)
        /\ \A i \in 1 .. Len(a) + Len(b) : c[i] = IF i <= Len(a) THEN a[i] ELSE b[i - Len(a)]
    BY <1>1, <1>2, ConcatProperties
  <2>2. Len(s) \in Nat /\ k \in Nat /\ k <= Len(s) /\ k >= 1
    OBVIOUS
  <2> HIDE DEF c
  <2>3. ASSUME NEW i \in 1 .. k - 1 PROVE c[i] = s[i]
    <3>1. i \in 1 .. Len(a) + Len(b) /\ i <= Len(a)
      BY <1>1, <1>2, <2>2
    <3>2. c[i] = a[i]
      BY <2>1, <3>1
    <3> QED BY <1>1, <3>2
  <2>4. ASSUME NEW i \in k .. Len(s) - 1 PROVE c[i] = s[i + 1]
    <3>1. /\ i \in 1 .. Len(a) + Len(b) /\ ~(i <= Len(a)) /\ i - Len(a) \in 1 .. Len(s) - k
          /\ k + (i - Len(a)) = i + 1
      BY <1>1, <1>2, <2>2
    <3>2. c[i] = b[i - Len(a)]
      BY <2>1, <3>1
    <3> QED BY <1>2, <3>1, <3>2
  <2>5. Len(c) = Len(s) - 1
    BY <1>1, <1>2, <2>1, <2>2
  <2> QED BY <2>1, <2>3, <2>4, <2>5 DEF c
<1>4. RemoveAt(s, k) = a \o b
  BY DEF RemoveAt, a, b
<1>5. ASSUME NEW i \in 1 .. Len(s), i # k PROVE Contains(RemoveAt(s, k), s[i])
  <2>1. CASE i < k
    <3>1. i \in 1 .. k - 1 /\ i \in 1 .. Len(s) - 1
      BY <2>1
    <3> QED BY <1>3, <1>4, <3>1 DEF Contains
  <2>2. CASE i > k
    <3>1. i - 1 \in k .. Len(s) - 1 /\ i - 1 \in 1 .. Len(s) - 1 /\ (i - 1) + 1 = i
      BY <2>2
    <3> QED BY <1>3, <1>4, <3>1 DEF Contains
  <2> QED BY <1>5, <2>1, <2>2
<1> QED
  BY <1>3, <1>4, <1>5

LEMMA AcknowledgeLicenseAuditStep ==
  ASSUME LicenseInv, NEW t \in Actor, AcknowledgeLicenseAudit(t)
  PROVE  LicenseInv'
<1> DEFINE e == Head(job[t].list)
           rest == Tail(job[t].list)
           o == WithoutEvent(e)
           j == IF rest = <<>> THEN IdleActor ELSE [At(t, "check") EXCEPT !.list = rest]
<1>1. /\ UNCHANGED <<now, log, exclusive, lease, imports>> /\ Enter(t, "ack") /\ job[t].todo = <<>> /\ job[t].pc = "ack"
      /\ FreeFor(t) /\ RequireNoPendingUpdate /\ file' = [file EXCEPT !.outbox = o] /\ Continue(t, j)
  BY DEF AcknowledgeLicenseAudit, Enter, Recovering
<1>2. /\ InLog(e) /\ job[t].list # <<>> /\ job[t].list \in Seq(LicenseEvent) /\ file.outbox \in Seq(LicenseEvent)
  BY <1>1, TaskFacts DEF Copies, Copying, ActorType
<1>3. rest \in Seq(LicenseEvent)
  BY <1>2
<1> HIDE DEF e
<1>4. o \in Seq(LicenseEvent) /\ \A x \in LicenseEvent : x # e /\ Contains(file.outbox, x) => Contains(o, x)
  <2>1. CASE Contains(file.outbox, e)
    <3> DEFINE k == CHOOSE i \in DOMAIN file.outbox : file.outbox[i] = e
    <3>1. DOMAIN file.outbox = 1 .. Len(file.outbox)
      BY <1>2
    <3>2. k \in 1 .. Len(file.outbox) /\ file.outbox[k] = e
      BY <2>1, <3>1 DEF Contains
    <3>3. o = RemoveAt(file.outbox, k)
      BY <2>1 DEF WithoutEvent
    <3> HIDE DEF k, o
    <3>4. /\ RemoveAt(file.outbox, k) \in Seq(LicenseEvent)
          /\ \A i \in 1 .. Len(file.outbox) : i # k => Contains(RemoveAt(file.outbox, k), file.outbox[i])
      BY <1>2, <3>2, RemoveAtKeeps
    <3>5. ASSUME NEW x \in LicenseEvent, x # e, Contains(file.outbox, x) PROVE Contains(o, x)
      <4>1. PICK i \in 1 .. Len(file.outbox) : file.outbox[i] = x
        BY <3>5 DEF Contains
      <4> QED BY <3>2, <3>3, <3>4, <3>5, <4>1
    <3> QED BY <3>3, <3>4, <3>5
  <2>2. CASE ~Contains(file.outbox, e)
    BY <1>2, <2>2 DEF WithoutEvent
  <2> QED BY <2>1, <2>2
<1> HIDE DEF o
<1>5. /\ file' \in FilesType /\ file'.pending = file.pending /\ file'.license = file.license
      /\ file'.history = file.history /\ file'.outbox = o
  BY <1>1, <1>4, TaskFacts DEF FilesType
<1>6. AtOrBefore(file.history, file'.history)
  BY <1>5, TaskFacts DEF HistoryType, AtOrBefore
<1>7. OnRecord(file.license, file'.outbox)
  <2>1. OnRecord(file.license, file.outbox)
    BY <1>1 DEF LicenseInv, FilesFit, RequireNoPendingUpdate
  <2> QED BY <1>2, <1>4, <1>5, <2>1 DEF OnRecord
<1>8. j \in ActorType /\ j.todo = <<>> /\ j.pc \in {"idle", "check"} /\ (j.pc = "check" => j.list # <<>>)
  <2>1. CASE rest = <<>>
    BY <2>1, IdleIsType DEF IdleActor
  <2>2. CASE rest # <<>>
    <3> DEFINE a == At(t, "check")
    <3>1. a \in ActorType /\ a.pc = "check" /\ a.todo = <<>>
      BY <1>1, AtKeeps DEF ActorPhase, Copying
    <3>2. j = [a EXCEPT !.list = rest]
      BY <2>2
    <3> HIDE DEF a, j, rest
    <3> QED BY <1>3, <2>2, <3>1, <3>2 DEF ActorType
  <2> QED BY <2>1, <2>2
<1> HIDE DEF j
<1>9. Holds(t, j) /\ Copies(j) /\ j.pc \notin Updating
  BY <1>8 DEF Holds, Copies, Deciding, Switching, Copying, Updating, Relying
<1> QED
  BY <1>1, <1>5, <1>6, <1>7, <1>8, <1>9, WriteOneStep DEF RequireNoPendingUpdate

\* What is written next, and what was written before it.
LEMMA NextFile ==
  ASSUME LicenseInv, NEW t \in Actor, WriteNext(t), NEW i, i = file.pending
  PROVE  /\ job[t].intent = i /\ i # NoIntent
         /\ \/ /\ i.kind = "stage" /\ file' = [file EXCEPT !.staged = i.next.staged]
               /\ Tail(job[t].todo) = <<"outbox", "pending">> /\ Head(job[t].todo) # "pending"
            \/ /\ i.kind = "stage" /\ file' = [file EXCEPT !.outbox = i.next.outbox]
               /\ Tail(job[t].todo) = <<"pending">> /\ Head(job[t].todo) # "pending" /\ file.staged = i.next.staged
            \/ /\ i.kind = "stage" /\ file' = [file EXCEPT !.pending = NoIntent]
               /\ Tail(job[t].todo) = <<>> /\ Head(job[t].todo) = "pending" /\ file.outbox = i.next.outbox
            \/ /\ i.kind = "update" /\ file' = [file EXCEPT !.history = i.next.history]
               /\ Tail(job[t].todo) = <<"license", "outbox", "pending">> /\ Head(job[t].todo) # "pending"
            \/ /\ i.kind = "update" /\ file' = [file EXCEPT !.license = i.next.license]
               /\ Tail(job[t].todo) = <<"outbox", "pending">> /\ Head(job[t].todo) # "pending"
               /\ file.history = i.next.history
            \/ /\ i.kind = "update" /\ file' = [file EXCEPT !.outbox = i.next.outbox]
               /\ Tail(job[t].todo) = <<"pending">> /\ Head(job[t].todo) # "pending"
               /\ file.history = i.next.history /\ file.license = i.next.license
            \/ /\ i.kind = "update" /\ file' = [file EXCEPT !.pending = NoIntent]
               /\ Tail(job[t].todo) = <<>> /\ Head(job[t].todo) = "pending"
               /\ file.history = i.next.history /\ file.license = i.next.license /\ file.outbox = i.next.outbox
<1>1. job[t].todo # <<>> /\ job[t].intent = i /\ i # NoIntent /\ Written(job[t], i)
  BY TaskFacts DEF WriteNext, Writes
<1>2. file' = [file EXCEPT ![Head(job[t].todo)] = IF Head(job[t].todo) = "pending" THEN NoIntent ELSE i.next[Head(job[t].todo)]]
  BY <1>1 DEF WriteNext
<1>3. CASE i.kind = "stage" /\ job[t].todo = <<"staged", "outbox", "pending">>
  BY <1>1, <1>2, <1>3, Heads, Tails
<1>4. CASE i.kind = "stage" /\ job[t].todo = <<"outbox", "pending">> /\ file.staged = i.next.staged
  BY <1>1, <1>2, <1>4, Heads, Tails
<1>5. CASE i.kind = "stage" /\ job[t].todo = <<"pending">> /\ file.staged = i.next.staged /\ file.outbox = i.next.outbox
  BY <1>1, <1>2, <1>5, Heads, Tails
<1>6. CASE i.kind = "update" /\ job[t].todo = <<"history", "license", "outbox", "pending">>
  BY <1>1, <1>2, <1>6, Heads, Tails
<1>7. CASE i.kind = "update" /\ job[t].todo = <<"license", "outbox", "pending">> /\ file.history = i.next.history
  BY <1>1, <1>2, <1>7, Heads, Tails
<1>8. CASE i.kind = "update" /\ job[t].todo = <<"outbox", "pending">> /\ file.history = i.next.history /\ file.license = i.next.license
  BY <1>1, <1>2, <1>8, Heads, Tails
<1>9. CASE i.kind = "update" /\ job[t].todo = <<"pending">> /\ file.history = i.next.history
            /\ file.license = i.next.license /\ file.outbox = i.next.outbox
  BY <1>1, <1>2, <1>9, Heads, Tails
<1> QED
  BY <1>1, <1>3, <1>4, <1>5, <1>6, <1>7, <1>8, <1>9 DEF Written

\* One rename of an update keeps the files between what the intent saw and what it
\* writes; the empty marker is written when all of them are what it writes.
LEMMA WriteNextStep ==
  ASSUME LicenseInv, NEW t \in Actor, WriteNext(t)
  PROVE  LicenseInv'
<1> DEFINE i == file.pending
<1>1. /\ UNCHANGED <<now, locked, lease, log, imports>> /\ job[t].todo # <<>> /\ job[t] \in ActorType
      /\ locked = t /\ exclusive = t /\ job[t].pc \in Recovering \cup Updating /\ file \in FilesType
      /\ t # Nobody
  BY TaskFacts DEF WriteNext, Writes
<1>2. /\ i.kind = "stage" => i \in StageIntent /\ StageFits(i)
      /\ i.kind = "update" => i \in UpdateIntent /\ UpdateFits(i)
      /\ Reached(file.history, file.history.doc) /\ file.history \in HistoryType
  BY IntentKinds, TaskFacts DEF LicenseInv, FilesFit
<1>3. \A u \in Actor : lease[u] = NoDoc
  BY <1>1, NoLeases
<1> DEFINE last == Head(job[t].todo) = "pending"
           j == [job[t] EXCEPT !.todo = Tail(@), !.intent = IF last THEN NoIntent ELSE @]
<1>4. job' = [job EXCEPT ![t] = j] /\ job'[t] = j
  BY DEF WriteNext, LicenseInv, LicenseTypeOK
<1>5. exclusive' = IF last THEN Nobody ELSE exclusive
  BY DEF WriteNext
<1>6. /\ j \in ActorType /\ j.pc = job[t].pc /\ j.doc = job[t].doc /\ j.staged = job[t].staged
      /\ j.event = job[t].event /\ j.list = job[t].list /\ j.tail = job[t].tail /\ j.todo = Tail(job[t].todo)
      /\ j.intent = IF last THEN NoIntent ELSE job[t].intent
  <2>1. Tail(job[t].todo) \in Seq(FileName)
    BY <1>1 DEF ActorType
  <2> QED BY <1>1, <2>1 DEF ActorType
<1> HIDE DEF i, j, last
<1>7. /\ file' \in FilesType /\ AtOrBefore(file.history, file'.history)
  <2>1. CASE i.kind = "stage"
    <3>1. file' \in FilesType /\ file'.history = file.history
      <4>1. i.next.staged \in MaybeDoc /\ i.next.outbox \in Seq(LicenseEvent)
        BY <1>2, <2>1 DEF StageIntent, StageFiles
      <4>2. \/ file' = [file EXCEPT !.staged = i.next.staged] \/ file' = [file EXCEPT !.outbox = i.next.outbox]
            \/ file' = [file EXCEPT !.pending = NoIntent]
        BY <2>1, NextFile DEF i
      <4> QED BY <1>1, <4>1, <4>2 DEF FilesType
    <3> QED BY <1>2, <3>1 DEF HistoryType, AtOrBefore
  <2>2. CASE i.kind = "update"
    <3>1. file' \in FilesType /\ file'.history \in {file.history, i.next.history}
      <4>1. i.next.history \in HistoryType /\ i.next.license \in Doc /\ i.next.outbox \in Seq(LicenseEvent)
        BY <1>2, <2>2 DEF UpdateIntent, UpdateFiles
      <4>2. \/ file' = [file EXCEPT !.history = i.next.history] \/ file' = [file EXCEPT !.license = i.next.license]
            \/ file' = [file EXCEPT !.outbox = i.next.outbox] \/ file' = [file EXCEPT !.pending = NoIntent]
        BY <2>2, NextFile DEF i
      <4> QED BY <1>1, <4>1, <4>2 DEF FilesType
    <3>2. file.history \in {i.previous.history, i.next.history} /\ AtOrBefore(i.previous.history, i.next.history)
      BY <1>2, <2>2 DEF UpdateFits, Succeeds
    <3>3. AtOrBefore(file.history, file.history)
      BY <1>2 DEF HistoryType, AtOrBefore
    <3> QED BY <3>1, <3>2, <3>3
  <2> QED BY <2>1, <2>2, NextFile DEF i
<1>8. LicenseTypeOK'
  BY <1>1, <1>4, <1>5, <1>6, <1>7 DEF LicenseInv, LicenseTypeOK
<1>9. Quiet(t)
  <2>1. \A u \in Actor \ {t} : job'[u] = job[u] /\ lease'[u] = lease[u]
    BY <1>1, <1>4 DEF LicenseInv, LicenseTypeOK
  <2> QED BY <1>1, <1>5, <1>7, <2>1 DEF Quiet
<1>10. FilesFit'
  <2>1. CASE i.kind = "stage"
    <3>1. CASE last
      <4>1. /\ file' = [file EXCEPT !.pending = NoIntent] /\ file.outbox = i.next.outbox
        BY <2>1, <3>1, NextFile DEF i, last
      <4>2. /\ file'.pending = NoIntent /\ file'.license = file.license /\ file'.history = file.history
            /\ file'.outbox = i.next.outbox
        BY <1>1, <4>1 DEF FilesType
      <4>3. OnRecord(file.license, i.next.outbox)
        BY <1>2, <2>1 DEF StageFits, OnRecord
      <4>4. OnRecord(file.license, file.outbox)'
        BY <1>1, <4>2, <4>3 DEF OnRecord, InLog
      <4> QED BY <1>2, <2>1, <4>2, <4>4 DEF FilesFit, StageFits, Reached, NoIntent
    <3>2. CASE ~last
      <4>1. file' = [file EXCEPT !.staged = i.next.staged] \/ file' = [file EXCEPT !.outbox = i.next.outbox]
        BY <2>1, <3>2, NextFile DEF i, last
      <4>2. /\ file'.pending = i /\ file'.license = file.license /\ file'.history = file.history
            /\ file'.outbox \in {file.outbox, i.next.outbox} /\ file'.staged \in {file.staged, i.next.staged}
        BY <1>1, <4>1 DEF FilesType, i
      <4>3. i.kind # "update" /\ i # NoIntent
        BY <2>1 DEF NoIntent
      <4>4. StageFits(file.pending)'
        BY <1>1, <1>2, <2>1, <4>2 DEF StageFits, OnRecord, InLog
      <4> QED BY <1>2, <4>2, <4>3, <4>4 DEF FilesFit, Reached
    <3> QED BY <3>1, <3>2
  <2>2. CASE i.kind = "update"
    <3>1. Reached(i.next.history, i.next.history.doc)
      BY <1>2, <2>2 DEF UpdateFits
    <3>2. CASE last
      <4>1. /\ file' = [file EXCEPT !.pending = NoIntent] /\ file.outbox = i.next.outbox
            /\ file.history = i.next.history /\ file.license = i.next.license
        BY <2>2, <3>2, NextFile DEF i, last
      <4>2. /\ file'.pending = NoIntent /\ file'.license = i.next.license /\ file'.history = i.next.history
            /\ file'.outbox = i.next.outbox
        BY <1>1, <4>1 DEF FilesType
      <4>3. OnRecord(i.next.license, i.next.outbox)
        BY <1>2, <2>2 DEF UpdateFits, OnRecord
      <4>4. OnRecord(file.license, file.outbox)'
        BY <1>1, <4>2, <4>3 DEF OnRecord, InLog
      <4> QED BY <1>2, <2>2, <3>1, <4>2, <4>4 DEF FilesFit, UpdateFits, Reached, NoIntent
    <3>3. CASE ~last
      <4>1. \/ file' = [file EXCEPT !.history = i.next.history] \/ file' = [file EXCEPT !.license = i.next.license]
            \/ file' = [file EXCEPT !.outbox = i.next.outbox]
        BY <2>2, <3>3, NextFile DEF i, last
      <4>2. /\ file'.pending = i /\ file'.license \in {file.license, i.next.license}
            /\ file'.outbox \in {file.outbox, i.next.outbox} /\ file'.history \in {file.history, i.next.history}
        BY <1>1, <4>1 DEF FilesType, i
      <4>3. i.kind # "stage" /\ i # NoIntent
        BY <2>2 DEF NoIntent
      <4>4. UpdateFits(file.pending)'
        BY <1>1, <1>2, <2>2, <4>2 DEF UpdateFits, Reached, Succeeds
      <4>5. Reached(file.history, file.history.doc)'
        BY <1>2, <3>1, <4>2 DEF Reached
      <4> QED BY <4>2, <4>3, <4>4, <4>5 DEF FilesFit
    <3> QED BY <3>2, <3>3
  <2> QED BY <2>1, <2>2, NextFile DEF i
<1>11. Writes(t, job[t])'
  <2>1. Writes(t, job[t]) /\ i # NoIntent /\ job[t].intent = i
    BY TaskFacts, NextFile DEF i
  <2>2. CASE last
    <3>1. j.todo = <<>> /\ file' = [file EXCEPT !.pending = NoIntent] /\ (i.kind = "update" => file.history = i.next.history)
      BY <1>6, <2>2, NextFile DEF i, last
    <3>2. file'.pending = NoIntent /\ file'.history = file.history
      BY <1>1, <3>1 DEF FilesType
    <3>3. job[t].pc = "activating" => job[t].staged \in Doc /\ Reached(file.history, job[t].staged)
      BY <1>1, <2>1, <3>1 DEF Writes, i
    <3> QED BY <1>1, <1>4, <1>6, <3>1, <3>2, <3>3 DEF Writes, Reached
  <2>3. CASE ~last
    <3>1. j.todo \in {<<"outbox", "pending">>, <<"pending">>, <<"license", "outbox", "pending">>}
      BY <1>6, <2>3, NextFile DEF i, last
    <3>2. j.todo # <<>>
      BY <3>1
    <3>3. \/ file' = [file EXCEPT !.staged = i.next.staged] \/ file' = [file EXCEPT !.outbox = i.next.outbox]
          \/ file' = [file EXCEPT !.history = i.next.history] \/ file' = [file EXCEPT !.license = i.next.license]
      BY <2>3, NextFile DEF i, last
    <3>4. file'.pending = i /\ j.intent = i
      BY <1>1, <1>6, <2>1, <2>3, <3>3 DEF FilesType, i
    <3>5. CASE i.kind = "stage" /\ file' = [file EXCEPT !.staged = i.next.staged] /\ j.todo = <<"outbox", "pending">>
      <4>1. file'.staged = i.next.staged
        BY <1>1, <3>5 DEF FilesType
      <4> QED BY <1>1, <1>4, <1>5, <1>6, <2>1, <2>3, <3>2, <3>4, <3>5, <4>1 DEF Writes, Written, Reached, i
    <3>6. CASE /\ i.kind = "stage" /\ file' = [file EXCEPT !.outbox = i.next.outbox] /\ j.todo = <<"pending">>
               /\ file.staged = i.next.staged
      <4>1. file'.staged = i.next.staged /\ file'.outbox = i.next.outbox
        BY <1>1, <3>6 DEF FilesType
      <4> QED BY <1>1, <1>4, <1>5, <1>6, <2>1, <2>3, <3>2, <3>4, <3>6, <4>1 DEF Writes, Written, Reached, i
    <3>7. CASE /\ i.kind = "update" /\ file' = [file EXCEPT !.history = i.next.history]
               /\ j.todo = <<"license", "outbox", "pending">>
      <4>1. file'.history = i.next.history
        BY <1>1, <3>7 DEF FilesType
      <4> QED BY <1>1, <1>4, <1>5, <1>6, <2>1, <2>3, <3>2, <3>4, <3>7, <4>1 DEF Writes, Written, Reached, i
    <3>8. CASE /\ i.kind = "update" /\ file' = [file EXCEPT !.license = i.next.license] /\ j.todo = <<"outbox", "pending">>
               /\ file.history = i.next.history
      <4>1. file'.history = i.next.history /\ file'.license = i.next.license
        BY <1>1, <3>8 DEF FilesType
      <4> QED BY <1>1, <1>4, <1>5, <1>6, <2>1, <2>3, <3>2, <3>4, <3>8, <4>1 DEF Writes, Written, Reached, i
    <3>9. CASE /\ i.kind = "update" /\ file' = [file EXCEPT !.outbox = i.next.outbox] /\ j.todo = <<"pending">>
               /\ file.history = i.next.history /\ file.license = i.next.license
      <4>1. file'.history = i.next.history /\ file'.license = i.next.license /\ file'.outbox = i.next.outbox
        BY <1>1, <3>9 DEF FilesType
      <4> QED BY <1>1, <1>4, <1>5, <1>6, <2>1, <2>3, <3>2, <3>4, <3>9, <4>1 DEF Writes, Written, Reached, i
    <3> QED BY <1>6, <2>3, <3>5, <3>6, <3>7, <3>8, <3>9, NextFile DEF i, last
  <2> QED BY <2>2, <2>3
<1>12. Holds(t, job[t])' /\ Copies(job[t])'
  <2>1. file'.history \in HistoryType
    BY <1>7 DEF FilesType
  <2>2. \A d \in Doc : Reached(file.history, d) => Reached(file'.history, d)
    BY <1>2, <1>7, <2>1, ReachedOn
  <2>3. job[t].pc \notin {"commit", "mutate"}
    BY <1>1 DEF Recovering, Updating
  <2>4. Holds(t, j) /\ Copies(j)
    BY <1>6, <2>3, TaskFacts DEF Holds, Copies
  <2>5. Holds(t, job[t])'
    BY <1>4, <1>6, <2>2, <2>3, <2>4 DEF Holds, Reached
  <2> QED BY <1>1, <1>4, <2>4, <2>5 DEF Copies, InLog
<1>13. LeaseFits(t)' /\ LoggedOnce'
  BY <1>1, <1>3 DEF LeaseFits, LicenseInv, LoggedOnce
<1> QED
  BY <1>8, <1>9, <1>10, <1>11, <1>12, <1>13, LicenseStepOf DEF Tasks

LEMMA LicenseInitially ==
  ASSUME LicenseInit
  PROVE  LicenseInv
<1>1. now \in Time /\ imports \in Nat /\ FirstDoc \in Doc
  BY LicenseAssumption DEF LicenseInit, Time
<1> DEFINE h == StateFromLicense(FirstDoc)
<1>2. Meta[FirstDoc] \in [id : Nat, issued : Nat, seq : Nat, from : Time, until : Nat, free : BOOLEAN, seats : Nat]
  BY <1>1, LicenseAssumption
<1>3. /\ h \in HistoryType /\ h.doc = FirstDoc /\ h.issued = Meta[FirstDoc].issued /\ h.seq = Meta[FirstDoc].seq
  BY <1>1, <1>2 DEF HistoryType, StateFromLicense
<1> HIDE DEF h
<1>4. file = [license |-> FirstDoc, history |-> h, staged |-> NoDoc, outbox |-> <<>>, pending |-> NoIntent]
  BY DEF LicenseInit, h
<1>5. file \in FilesType /\ file.pending = NoIntent /\ file.license = FirstDoc /\ file.history = h
  BY <1>1, <1>3, <1>4 DEF FilesType, MaybeDoc
<1>6. LicenseTypeOK
  BY <1>1, <1>5, IdleIsType DEF LicenseInit, LicenseTypeOK, MaybeDoc
<1>7. FilesFit
  <2>1. Reached(h, FirstDoc)
    BY <1>2, <1>3 DEF Reached, AtOrBefore
  <2> QED BY <1>3, <1>5, <2>1 DEF FilesFit, OnRecord, NoIntent
<1>8. ASSUME NEW t \in Actor PROVE Tasks(t)
  <2>1. job[t] = IdleActor /\ lease[t] = NoDoc
    BY DEF LicenseInit
  <2> QED
    BY <2>1 DEF Tasks, Writes, Holds, Copies, LeaseFits, IdleActor, Updating, Deciding, Switching, Relying, Copying
<1>9. LoggedOnce
  BY DEF LicenseInit, LoggedOnce
<1> QED
  BY <1>6, <1>7, <1>8, <1>9 DEF LicenseInv

LEMMA LicenseTaskStep ==
  ASSUME LicenseInv, NEW t \in Actor, LicenseTask(t)
  PROVE  LicenseInv'
<1>1. CASE LockTimeout(t) \/ Fault(t) \/ UpdateEnds(t)
  BY <1>1, EndingSteps
<1>2. CASE (\E d \in Doc : StartImport(t, d) \/ StartFreeSwitch(t, d)) \/ StartRequest(t) \/ StartFlush(t)
  BY <1>2, BeginningSteps
<1>3. CASE RecoverUpdate(t) \/ RecoverFails(t) \/ WriteNext(t)
  BY <1>3, RecoverUpdateStep, RecoverFailsStep, WriteNextStep
<1>4. CASE StageDocument(t) \/ ReadCommittedDocument(t) \/ InstallDocument(t) \/ BeginFreeSwitch(t) \/ CommitFreeSwitch(t)
  BY <1>4, StageDocumentStep, ReadCommittedDocumentStep, InstallDocumentStep, BeginFreeSwitchStep, CommitFreeSwitchStep
<1>5. CASE \/ LoadInstalledLicense(t) \/ ValidateDocumentProgress(t) \/ LoadStagedLicense(t) \/ JudgeStaged(t)
           \/ ClearStagedDocument(t) \/ ActivateStagedDocument(t) \/ ActivationEnds(t)
  BY <1>5, LoadInstalledLicenseStep, ValidateDocumentProgressStep, LoadStagedLicenseStep, JudgeStagedStep,
     ClearStagedDocumentStep, ActivateStagedDocumentStep, ActivationEndsStep
<1>6. CASE CheckAndObserve(t) \/ GuardMutation(t) \/ CommitMutation(t)
  BY <1>6, CheckAndObserveStep, GuardMutationStep, CommitMutationStep
<1>7. CASE PendingActivationAudits(t) \/ FindLicenseAudit(t) \/ AppendLicenseAudit(t) \/ AcknowledgeLicenseAudit(t)
  BY <1>7, PendingActivationAuditsStep, FindLicenseAuditStep, AppendLicenseAuditStep, AcknowledgeLicenseAuditStep
<1> QED
  BY <1>1, <1>2, <1>3, <1>4, <1>5, <1>6, <1>7, Zenon DEF LicenseTask

LEMMA LicenseStep ==
  ASSUME LicenseInv, [LicenseNext]_licenseVars
  PROVE  LicenseInv'
<1>1. CASE UNCHANGED licenseVars
  <2>1. UNCHANGED <<now, file, log, locked, exclusive, lease, job, imports>>
    BY <1>1 DEF licenseVars
  <2>2. LicenseTypeOK'
    BY <2>1 DEF LicenseInv, LicenseTypeOK
  <2>3. FilesFit' /\ LoggedOnce'
    BY <2>1 DEF LicenseInv, FilesFit, OnRecord, InLog, StageFits, UpdateFits, Reached, LoggedOnce
  <2>4. ASSUME NEW t \in Actor PROVE Tasks(t)'
    <3>1. Tasks(t)
      BY DEF LicenseInv
    <3> QED
      BY <2>1, <3>1 DEF Tasks, Writes, Written, Holds, Copies, LeaseFits, InLog, Reached
  <2> QED
    BY <2>2, <2>3, <2>4 DEF LicenseInv
<1>2. CASE LicenseNext
  BY <1>2, LicenseTaskStep, SetClockStep DEF LicenseNext
<1> QED
  BY <1>1, <1>2

\* The invariant implies what the run checks.
LEMMA LicenseInvSound ==
  ASSUME LicenseInv
  PROVE  LicenseSound
<1>1. file \in FilesType /\ file.outbox \in Seq(LicenseEvent) /\ log \in Seq(LicenseEvent)
  BY DEF LicenseInv, LicenseTypeOK, FilesType
<1>2. LicenseRecoverable
  <2>1. CASE file.pending = NoIntent
    BY <2>1 DEF LicenseRecoverable, LicenseInv, FilesFit
  <2>2. CASE file.pending.kind = "stage"
    <3>1. StageFits(file.pending)
      BY <2>2 DEF LicenseInv, FilesFit
    <3>2. Range(Updated(file.pending)) = {"staged", "outbox"}
      BY <2>2 DEF Range, Updated
    <3>3. file.pending # NoIntent
      BY <2>2 DEF NoIntent
    <3> QED
      BY <3>1, <3>2, <3>3 DEF LicenseRecoverable, RequireExpectedFile, StageFits
  <2>3. CASE file.pending.kind = "update"
    <3>1. UpdateFits(file.pending)
      BY <2>3 DEF LicenseInv, FilesFit
    <3>2. Range(Updated(file.pending)) = {"history", "license", "outbox"}
      BY <2>3 DEF Range, Updated
    <3>3. file.pending # NoIntent
      BY <2>3 DEF NoIntent
    <3> QED
      BY <3>1, <3>2, <3>3 DEF LicenseRecoverable, RequireExpectedFile, UpdateFits
  <2> QED
    BY <1>1, <2>1, <2>2, <2>3, IntentKinds
<1>3. LicenseAudited
  <2>1. ASSUME file.pending = NoIntent, file.license # FirstDoc
        PROVE  \E e \in Range(file.outbox) \cup Range(log) : e.doc = file.license
    <3>1. PICK e \in LicenseEvent : e.doc = file.license /\ (Contains(file.outbox, e) \/ InLog(e))
      BY <2>1 DEF LicenseInv, FilesFit, OnRecord
    <3>2. Contains(file.outbox, e) => e \in Range(file.outbox)
      BY <1>1 DEF Contains, Range
    <3>3. InLog(e) => e \in Range(log)
      BY <1>1 DEF InLog, Range
    <3> QED
      BY <3>1, <3>2, <3>3
  <2> QED
    BY <2>1 DEF LicenseAudited, LicenseInv, LoggedOnce
<1> QED
  BY <1>2, <1>3 DEF LicenseSound

\* Wherever an import, an activation, a switch or the copying of audit events stops,
\* for any documents and tasks: an unfinished update can be finished, license and
\* history agree without one, a license that came into force is on record, and no
\* event is recorded twice.
THEOREM LicenseSoundness == LicenseSpec => []LicenseSound
<1>1. LicenseSpec => []LicenseInv
  BY LicenseInitially, LicenseStep, PTL DEF LicenseSpec
<1>2. LicenseInv => LicenseSound
  BY LicenseInvSound
<1> QED
  BY <1>1, <1>2, PTL

\* A step of the files that NoReplay allows.
Advance ==
  /\ AtOrBefore(file.history, file'.history)
  /\ file'.history.doc # file.history.doc
       => Meta[file'.history.doc].free \/ ~AtOrBefore(Meta[file'.history.doc], file.history)
  /\ file'.license # file.license => file'.license = file.history.doc

LEMMA SameLicense ==
  ASSUME LicenseInv, file'.history = file.history, file'.license = file.license
  PROVE  Advance
<1>1. file.history \in HistoryType
  BY DEF LicenseInv, LicenseTypeOK, FilesType
<1> QED
  BY <1>1 DEF Advance, AtOrBefore, HistoryType

\* An update writes the history first, and the license the history then names.
LEMMA WriteNextAdvances ==
  ASSUME LicenseInv, NEW t \in Actor, WriteNext(t)
  PROVE  Advance
<1> DEFINE i == file.pending
<1>1. file \in FilesType
  BY TaskFacts
<1>2. i.kind = "update" => UpdateFits(i)
  BY DEF LicenseInv, FilesFit
<1> HIDE DEF i
<1>3. CASE i.kind = "update" /\ file' = [file EXCEPT !.history = i.next.history]
  <2>1. file'.history = i.next.history /\ file'.license = file.license
    BY <1>1, <1>3 DEF FilesType
  <2>2. CASE file.history = i.next.history
    BY <2>1, <2>2, SameLicense
  <2>3. CASE file.history = i.previous.history
    BY <1>2, <1>3, <2>1, <2>3 DEF Advance, UpdateFits, Succeeds
  <2> QED
    BY <1>2, <1>3, <2>2, <2>3 DEF UpdateFits
<1>4. CASE i.kind = "update" /\ file' = [file EXCEPT !.license = i.next.license] /\ file.history = i.next.history
  <2>1. file'.history = file.history /\ file'.license = i.next.license
    BY <1>1, <1>4 DEF FilesType
  <2>2. i.next.license = file.history.doc
    BY <1>2, <1>4 DEF UpdateFits
  <2>3. AtOrBefore(file.history, file.history)
    BY TaskFacts DEF HistoryType, AtOrBefore
  <2> QED
    BY <2>1, <2>2, <2>3 DEF Advance
<1>5. CASE \/ file' = [file EXCEPT !.staged = i.next.staged] \/ file' = [file EXCEPT !.outbox = i.next.outbox]
           \/ file' = [file EXCEPT !.pending = NoIntent]
  <2>1. file'.history = file.history /\ file'.license = file.license
    BY <1>1, <1>5 DEF FilesType
  <2> QED
    BY <2>1, SameLicense
<1> QED
  BY <1>3, <1>4, <1>5, NextFile DEF i

LEMMA CheckAndObserveAdvances ==
  ASSUME LicenseInv, NEW t \in Actor, CheckAndObserve(t)
  PROVE  Advance
<1>1. CASE UNCHANGED file
  BY <1>1, SameLicense
<1>2. CASE ~UNCHANGED file
  <2> DEFINE d == job[t].doc
             h == Observe(file.history, d)
  <2>1. /\ ValidateProgress(file.history, d) /\ file' = [file EXCEPT !.history = h] /\ job[t].pc = "observe"
    BY <1>2 DEF CheckAndObserve, ValidateObservation, Enter
  <2>2. d \in Doc /\ Reached(file.history, d) /\ now \in Time /\ file.history \in HistoryType /\ file \in FilesType
    BY <2>1, TaskFacts DEF Holds, Relying
  <2>3. file.history.doc = d
    BY <2>1, <2>2, OnlyTheLatest
  <2>4. h \in HistoryType /\ h.doc = d /\ AtOrBefore(file.history, h)
    BY <2>1, <2>2, ObservedHistory DEF Succeeds
  <2> HIDE DEF h, d
  <2>5. file'.license = file.license /\ file'.history = h
    BY <2>1, <2>2, <2>4 DEF FilesType
  <2> QED
    BY <2>3, <2>4, <2>5 DEF Advance
<1> QED
  BY <1>1, <1>2

\* No other step touches the license or the history.
LEMMA OthersKeepLicense ==
  ASSUME LicenseInv, NEW t \in Actor, LicenseTask(t), ~WriteNext(t), ~CheckAndObserve(t)
  PROVE  file'.history = file.history /\ file'.license = file.license
<1>1. file \in FilesType
  BY TaskFacts
<1>2. CASE UNCHANGED file
  BY <1>2
<1>3. CASE \E v : file' = [file EXCEPT !.pending = v]
  BY <1>1, <1>3 DEF FilesType
<1>4. CASE \E v : file' = [file EXCEPT !.outbox = v]
  BY <1>1, <1>4 DEF FilesType
<1>5. CASE \E v : file' = [file EXCEPT !.staged = v]
  BY <1>1, <1>5 DEF FilesType
<1>6. CASE \/ RecoverUpdate(t) \/ RecoverFails(t) \/ LockTimeout(t) \/ Fault(t)
           \/ (\E d \in Doc : StartImport(t, d) \/ StartFreeSwitch(t, d))
           \/ ReadCommittedDocument(t) \/ UpdateEnds(t) \/ BeginFreeSwitch(t) \/ StartRequest(t)
           \/ LoadInstalledLicense(t) \/ ValidateDocumentProgress(t) \/ LoadStagedLicense(t) \/ JudgeStaged(t)
           \/ GuardMutation(t) \/ CommitMutation(t) \/ StartFlush(t) \/ PendingActivationAudits(t)
           \/ FindLicenseAudit(t) \/ AppendLicenseAudit(t)
  <2>1. UNCHANGED file
    BY <1>6 DEF RecoverUpdate, RecoverFails, LockTimeout, Fault, StartImport, StartFreeSwitch, ReadCommittedDocument,
       UpdateEnds, BeginFreeSwitch, StartRequest, LoadInstalledLicense, ValidateDocumentProgress, LoadStagedLicense,
       JudgeStaged, GuardMutation, CommitMutation, StartFlush, PendingActivationAudits, FindLicenseAudit, AppendLicenseAudit
  <2> QED BY <1>2, <2>1
<1>7. CASE StageDocument(t) \/ InstallDocument(t) \/ CommitFreeSwitch(t)
  BY <1>2, <1>3, <1>7 DEF StageDocument, InstallDocument, CommitFreeSwitch, WriteUpdateIntent
<1>8. CASE ClearStagedDocument(t) \/ ActivateStagedDocument(t) \/ ActivationEnds(t)
  BY <1>2, <1>3, <1>5, <1>8 DEF ClearStagedDocument, ActivateStagedDocument, ActivationEnds, MayClearStaged, WriteUpdateIntent
<1>9. CASE AcknowledgeLicenseAudit(t)
  BY <1>4, <1>9 DEF AcknowledgeLicenseAudit
<1> QED
  BY <1>6, <1>7, <1>8, <1>9, Zenon DEF LicenseTask

LEMMA OnlyCommitsChangeSeats ==
  ASSUME LicenseNext, seats' # seats
  PROVE  \E t \in Actor : CommitMutation(t)
<1>1. PICK t \in Actor : LicenseTask(t)
  BY DEF LicenseNext, SetClock
<1>2. ~\E d \in Doc : StartImport(t, d) \/ StartFreeSwitch(t, d)
  BY DEF StartImport, StartFreeSwitch
<1>3. /\ ~RecoverUpdate(t) /\ ~RecoverFails(t) /\ ~WriteNext(t) /\ ~LockTimeout(t) /\ ~Fault(t)
      /\ ~StageDocument(t) /\ ~ReadCommittedDocument(t) /\ ~InstallDocument(t) /\ ~UpdateEnds(t)
      /\ ~BeginFreeSwitch(t) /\ ~CommitFreeSwitch(t) /\ ~StartRequest(t)
  BY DEF RecoverUpdate, RecoverFails, WriteNext, LockTimeout, Fault, StageDocument, ReadCommittedDocument,
     InstallDocument, UpdateEnds, BeginFreeSwitch, CommitFreeSwitch, StartRequest
<1>4. /\ ~LoadInstalledLicense(t) /\ ~ValidateDocumentProgress(t) /\ ~LoadStagedLicense(t) /\ ~JudgeStaged(t)
      /\ ~ClearStagedDocument(t) /\ ~ActivateStagedDocument(t) /\ ~ActivationEnds(t) /\ ~CheckAndObserve(t)
      /\ ~GuardMutation(t)
  BY DEF LoadInstalledLicense, ValidateDocumentProgress, LoadStagedLicense, JudgeStaged, ClearStagedDocument,
     ActivateStagedDocument, ActivationEnds, CheckAndObserve, GuardMutation
<1>5. /\ ~StartFlush(t) /\ ~PendingActivationAudits(t) /\ ~FindLicenseAudit(t) /\ ~AppendLicenseAudit(t)
      /\ ~AcknowledgeLicenseAudit(t)
  BY DEF StartFlush, PendingActivationAudits, FindLicenseAudit, AppendLicenseAudit, AcknowledgeLicenseAudit
<1> QED
  BY <1>1, <1>2, <1>3, <1>4, <1>5, Zenon DEF LicenseTask

LEMMA SeatsCounted ==
  ASSUME seats \in Nat, [LicenseNext]_licenseVars
  PROVE  seats' \in Nat
<1>1. CASE seats' = seats
  BY <1>1
<1>2. CASE seats' # seats
  <2>1. LicenseNext
    BY <1>2 DEF licenseVars
  <2>2. seats' \in 0 .. MaxSeats
    BY <1>2, <2>1, OnlyCommitsChangeSeats DEF CommitMutation
  <2> QED BY <2>2, LicenseAssumption
<1> QED BY <1>1, <1>2

\* A commit that takes a seat runs under the lease of the license in force.
LEMMA SeatsStep ==
  ASSUME LicenseInv, LicenseNext, seats' > seats, seats' # seats
  PROVE  seats' <= Meta[file.license].seats /\ file.pending = NoIntent
<1>1. PICK t \in Actor : CommitMutation(t)
  BY OnlyCommitsChangeSeats
<1>2. seats' <= Meta[job[t].doc].seats /\ job[t].pc = "mutate"
  BY <1>1 DEF CommitMutation
<1>3. job[t].doc \in Doc /\ lease[t] = job[t].doc /\ LeaseFits(t)
  BY <1>2, TaskFacts DEF Holds
<1>4. lease[t] # NoDoc
  BY <1>3, LicenseAssumption
<1> QED
  BY <1>2, <1>3, <1>4 DEF LeaseFits

\* Seats grow only within the license in force at the commit, and no interleaving of
\* imports, activations, switches and observations replays an older document.
THEOREM LicensesOnlyAdvance == LicenseSpec => LicenseAdvances
<1> DEFINE S == seats' > seats => seats' <= Meta[file.license].seats /\ file.pending = NoIntent
<1>1. LicenseInv /\ seats \in Nat /\ [LicenseNext]_licenseVars => [S]_licenseVars
  <2> SUFFICES ASSUME LicenseInv, LicenseNext, seats \in Nat, seats' > seats PROVE seats' <= Meta[file.license].seats /\ file.pending = NoIntent
    OBVIOUS
  <2>1. CASE seats' # seats
    BY <2>1, SeatsStep
  <2>2. CASE seats' = seats
    BY <2>2
  <2> QED BY <2>1, <2>2
<1>2. LicenseInv /\ [LicenseNext]_licenseVars => [Advance]_licenseVars
  <2> SUFFICES ASSUME LicenseInv, LicenseNext PROVE Advance
    OBVIOUS
  <2>1. CASE SetClock
    BY <2>1, SameLicense DEF SetClock
  <2>2. CASE \E t \in Actor : LicenseTask(t)
    BY <2>2, WriteNextAdvances, CheckAndObserveAdvances, OthersKeepLicense, SameLicense
  <2> QED BY <2>1, <2>2 DEF LicenseNext
<1>3. LicenseSpec => []LicenseInv
  BY LicenseInitially, LicenseStep, PTL DEF LicenseSpec
<1>4. LicenseSpec => [](seats \in Nat)
  <2>1. LicenseInit => seats \in Nat
    BY DEF LicenseInit
  <2>2. seats \in Nat /\ [LicenseNext]_licenseVars => (seats \in Nat)'
    BY SeatsCounted
  <2> QED BY <2>1, <2>2, PTL DEF LicenseSpec
<1>5. LicenseSpec => SeatsWithinLicense
  BY <1>1, <1>3, <1>4, PTL DEF LicenseSpec, SeatsWithinLicense
<1>6. LicenseSpec => NoReplay
  BY <1>2, <1>3, PTL DEF LicenseSpec, NoReplay, Advance
<1> QED
  BY <1>5, <1>6, PTL DEF LicenseAdvances
=============================================================================
