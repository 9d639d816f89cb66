----------------------- MODULE DurableSettlement_proofs -----------------------
(***************************************************************************)
(* Proofs about the settlement of model requests, for any number of slots, *)
(* requests and scanners, and any number of crashes, failing calls and     *)
(* lost replies.  The argument: whoever changes the record or the ledger   *)
(* entry of a request owns its request lock, and what a task does next     *)
(* (`step') says how far record and ledger have come.                      *)
(***************************************************************************)
EXTENDS DurableSettlement, TLAPS

\* The steps in which a task owns a request lock, and those of a scanner.
Busy == {"executing", "publish", "attempt", "settle", "audit", "mark", "remove",
         "end", "load", "reload", "check"}
Scanning == {"idle", "load", "reload", "check"}
Settling == {"attempt", "settle", "audit", "mark", "remove", "end"}

\* A request key has one owner, a request's task owns no other key than its
\* own, and a task owns a key exactly in the steps that need it.
OwnerInv ==
  /\ \A t, u \in Task : owns[t] # None /\ owns[t] = owns[u] => t = u
  /\ \A t \in Task : step[t] \in Busy <=> owns[t] # None
  /\ \A r \in Request : owns[r] \in {r, None} /\ step[r] \notin Scanning
  /\ \A s \in Scanner : step[s] \in Scanning \cup Settling

\* What a task that owns request r has to do next says how far the record and
\* the ledger entry of r have come.
Progress(t, r) ==
  /\ step[t] = "executing" => published[r] = None /\ ledger[r] = << >>
  /\ step[t] = "publish" =>
       /\ intent[t] \in Outcome /\ ledger[r] = << >>
       /\ published[r] \in {None, intent[t]}
  /\ step[t] \in Settling /\ (step[t] # "end" \/ t \in Request) =>
       published[r] # None /\ intent[t] = published[r]
  /\ step[t] \in {"attempt", "settle", "audit"} => record[r] # None
  /\ step[t] = "settle" => r \notin Money
  /\ step[t] \in {"audit", "mark", "remove"} => ledger[r] = <<EntryFor(r, published[r])>>
  /\ step[t] \in {"mark", "remove"} => (UpstreamUnknown(published[r]) => r \in marker)
  /\ step[t] = "check" => record[r] = None
  /\ step[t] = "end" /\ t \in Request => ledger[r] = <<EntryFor(r, published[r])>>

\* Nothing exists of a request that has not been admitted, and nobody looks for it.
Fresh(r) ==
  step[r] = "new" =>
    reservation[r] = "none" /\ published[r] = None /\ \A t \in Task : owns[t] # r

\* A token reservation is closed together with the ledger entry.
Reserved(r) ==
  /\ r \in Money => reservation[r] = "none"
  /\ r \in expired => reservation[r] # "none"
  /\ r \notin Money => (ledger[r] # << >> <=> reservation[r] = "closed")

\* Without a durable intent there is no record, and at most the expired entry
\* of a token reservation.
Unpublished(r) ==
  published[r] = None =>
    /\ record[r] = None
    /\ ledger[r] \in {<< >>, <<ExpiredEntry>>} /\ (r \in Money => ledger[r] = << >>)
    /\ step[r] \notin Settling

\* With one, the entry is that of the intent, and the record stays until the
\* entry and the audit marker exist.
Kept(r) ==
  published[r] # None =>
    /\ ledger[r] \in {<< >>, <<EntryFor(r, published[r])>>}
    /\ record[r] # None => record[r].intent = published[r]
    /\ record[r] = None \/ record[r].completed =>
         /\ ledger[r] = <<EntryFor(r, published[r])>>
         /\ UpstreamUnknown(published[r]) => r \in marker

\* complete answers last, and what it answers is what the ledger says.
Answered(r) ==
  /\ reply[r] # "none" => step[r] = "done"
  /\ reply[r] = "ok" => published[r] \notin {None, "invalid"}
  /\ reply[r] = "error" => published[r] \in {None, "invalid"}
  /\ reply[r] # "none" /\ published[r] # None => ledger[r] = <<EntryFor(r, published[r])>>

RequestInv(r) ==
  /\ Fresh(r) /\ Reserved(r) /\ Unpublished(r) /\ Kept(r) /\ Answered(r)
  /\ \A t \in Task : owns[t] = r => Progress(t, r)

\* The inductive invariant.
IInv == TypeOK /\ OwnerInv /\ \A r \in Request : RequestInv(r)

-----------------------------------------------------------------------------
\* An entry is never the entry of an expired reservation.
LEMMA EntryFacts ==
  /\ \A r \in Request, o \in Outcome :
       /\ EntryFor(r, o) \in [intent : Outcome \cup {"expired"}, kind : EntryKind]
       /\ EntryFor(r, o) # ExpiredEntry
  /\ ExpiredEntry \in [intent : Outcome \cup {"expired"}, kind : EntryKind]
  BY DEF EntryFor, ExpiredEntry, Outcome, EntryKind

\* Nothing that the invariant says of request q has changed, except that its
\* task may have died with its slot or an owner may have let go of it.
Same(q) ==
  /\ step'[q] = step[q] \/ (step'[q] = "dead" /\ step[q] # "done")
  /\ reservation'[q] = reservation[q] /\ (q \in expired' <=> q \in expired)
  /\ record'[q] = record[q] /\ ledger'[q] = ledger[q] /\ (q \in marker' <=> q \in marker)
  /\ reply'[q] = reply[q] /\ published'[q] = published[q]
  /\ \A u \in Task : owns'[u] = q =>
       owns[u] = q /\ step'[u] = step[u] /\ intent'[u] = intent[u]

\* What is said of a request stays true when nothing of it changes.
LEMMA Frame ==
  ASSUME NEW q \in Request, RequestInv(q), Same(q)
  PROVE  RequestInv(q)'
<1>1. Fresh(q)'
  BY DEF Fresh, RequestInv, Same
<1>2. Reserved(q)' /\ Unpublished(q)' /\ Answered(q)'
  BY DEF Reserved, Unpublished, Answered, Settling, RequestInv, Same
<1>3. Kept(q)'
  BY DEF Kept, RequestInv, Same
<1>4. ASSUME NEW u \in Task, owns'[u] = q PROVE Progress(u, q)'
  BY <1>4 DEF Progress, RequestInv, Same
<1> QED
  BY <1>1, <1>2, <1>3, <1>4 DEF RequestInv

\* A task goes on, perhaps with a new intent, or a scanner lets go of its lock.
Moves(t, p) ==
  /\ step' = [step EXCEPT ![t] = p]
  /\ \/ /\ p \in Busy /\ owns' = owns
        /\ intent' = intent \/ \E o \in Outcome : intent' = [intent EXCEPT ![t] = o]
     \/ /\ t \in Scanner /\ p = "idle"
        /\ owns' = [owns EXCEPT ![t] = None] /\ intent' = [intent EXCEPT ![t] = None]

\* Initially nothing exists of any request and no lock is held.
LEMMA InitIInv == Init => IInv
<1> SUFFICES ASSUME Init PROVE IInv
  OBVIOUS
<1> USE SettlementAssumption DEF Init
<1>1. TypeOK
  BY DEF TypeOK, Steps, Task
<1>2. OwnerInv
  BY DEF OwnerInv, Busy, Scanning, Task
<1>3. ASSUME NEW r \in Request PROVE RequestInv(r)
  BY DEF RequestInv, Fresh, Reserved, Unpublished, Kept, Answered, Settling, Task
<1> QED
  BY <1>1, <1>2, <1>3 DEF IInv
-----------------------------------------------------------------------------
\* A task that goes on or lets go of its lock keeps the locks in order, and
\* leaves every request but its own alone.
LEMMA MoveOwner ==
  ASSUME IInv, NEW t \in Task, owns[t] # None, NEW p \in Steps, Moves(t, p),
         t \in Request => p \notin Scanning,
         t \in Scanner => p \in Scanning \cup Settling
  PROVE  OwnerInv'
<1>1. CASE p \in Busy /\ owns' = owns
  BY <1>1, SettlementAssumption DEF Moves, IInv, TypeOK, OwnerInv, Task
<1>2. CASE t \in Scanner /\ p = "idle" /\ owns' = [owns EXCEPT ![t] = None]
  BY <1>2, SettlementAssumption DEF Moves, IInv, TypeOK, OwnerInv, Task, Busy, Scanning
<1> QED
  BY <1>1, <1>2 DEF Moves

\* A task that moves on leaves the other requests as they were.
LEMMA MoveFrame ==
  ASSUME IInv, NEW t \in Task, owns[t] # None, NEW p \in Steps, Moves(t, p),
         NEW q \in Request, q # owns[t],
         reservation'[q] = reservation[q], q \in expired' <=> q \in expired,
         record'[q] = record[q], ledger'[q] = ledger[q], q \in marker' <=> q \in marker,
         reply'[q] = reply[q], published'[q] = published[q]
  PROVE  RequestInv(q)'
<1>1. q # t
  BY SettlementAssumption DEF IInv, OwnerInv, Task
<1>2. step'[q] = step[q]
  BY <1>1 DEF Moves, IInv, TypeOK, Task
<1>3. ASSUME NEW u \in Task, owns'[u] = q
      PROVE  owns[u] = q /\ step'[u] = step[u] /\ intent'[u] = intent[u]
  <2>1. owns[u] = q /\ u # t
    BY <1>3, SettlementAssumption DEF Moves, IInv, TypeOK, Task
  <2> QED
    BY <2>1 DEF Moves, IInv, TypeOK, Task
<1>4. Same(q)
  BY <1>2, <1>3 DEF Same
<1> QED
  BY <1>4, Frame DEF IInv

\* The owner of a request after such a step is the same task, or nobody.
LEMMA MoveProgress ==
  ASSUME IInv, NEW t \in Task, NEW r \in Request, owns[t] = r, NEW p \in Steps, Moves(t, p),
         p \in Busy => Progress(t, r)'
  PROVE  \A u \in Task : owns'[u] = r => Progress(u, r)'
<1> SUFFICES ASSUME NEW u \in Task, owns'[u] = r PROVE Progress(u, r)'
  OBVIOUS
<1>1. u = t /\ p \in Busy
  BY SettlementAssumption DEF Moves, IInv, TypeOK, OwnerInv, Task, Busy
<1> QED
  BY <1>1

\* A failing or unacknowledged step moves a task back, or lets go of the lock.
BackAt(t) == IF t \in Request THEN RetryAt(step[t]) ELSE "idle"

\* Fail sends a request's task back to its retry and a scanner to its next scan.
LEMMA FailMoves ==
  ASSUME IInv, NEW t \in Task, owns[t] # None, Fail(t)
  PROVE  /\ Moves(t, BackAt(t)) /\ BackAt(t) \in Steps
         /\ t \in Request => BackAt(t) \notin Scanning
         /\ t \in Scanner => BackAt(t) \in Scanning \cup Settling
<1>1. step[t] \in Busy
  BY DEF IInv, OwnerInv
<1>2. CASE t \in Request
  <2>1. step[t] \notin Scanning
    BY <1>2 DEF IInv, OwnerInv
  <2>2. RetryAt(step[t]) \in Busy /\ RetryAt(step[t]) \in Steps /\ RetryAt(step[t]) \notin Scanning
    <3>1. CASE step[t] = "settle"
      BY <3>1 DEF RetryAt, Busy, Steps, Scanning
    <3>2. CASE step[t] = "remove"
      BY <3>2 DEF RetryAt, Busy, Steps, Scanning
    <3>3. CASE step[t] \notin {"settle", "remove"}
      BY <3>3, <1>1, <2>1 DEF RetryAt, Busy, Steps, Scanning
    <3> QED BY <3>1, <3>2, <3>3
  <2>3. step' = [step EXCEPT ![t] = RetryAt(step[t])] /\ owns' = owns /\ intent' = intent
    BY <1>2 DEF Fail
  <2> QED
    BY <1>2, <2>2, <2>3, SettlementAssumption DEF BackAt, Moves
<1>3. CASE t \notin Request
  BY <1>3 DEF Fail, BackAt, Moves, Lock!Release, Task, Steps, Scanning
<1> QED
  BY <1>2, <1>3
\* A step that took effect moves a task on, or back if its reply was lost.
LEMMA AfterMoves ==
  ASSUME IInv, NEW t \in Task, owns[t] # None, NEW ack \in BOOLEAN,
         NEW p \in Busy, p \notin Scanning, p \in Settling, After(t, ack, p)
  PROVE  \E n \in Steps : /\ n \in {p, BackAt(t)} /\ Moves(t, n)
                          /\ t \in Request => n \notin Scanning
                          /\ t \in Scanner => n \in Scanning \cup Settling
<1>1. CASE ack
  BY <1>1 DEF After, Continue, Moves, Steps, Settling
<1>2. CASE ~ack
  <2>1. Fail(t)
    BY <1>2 DEF After
  <2> QED
    BY <2>1, FailMoves
<1> QED
  BY <1>1, <1>2

\* What is known of a task that owns a key, and of the task of that request.
LEMMA OwnerFacts ==
  ASSUME IInv, NEW t \in Task, owns[t] # None
  PROVE  /\ owns[t] \in Request /\ step[t] \in Busy
         /\ RequestInv(owns[t]) /\ Progress(t, owns[t])
         /\ t \in Request => owns[t] = t /\ reply[t] = "none"
         /\ step[owns[t]] # "new"
<1>1. owns[t] \in Request /\ step[t] \in Busy
  BY DEF IInv, TypeOK, OwnerInv
<1>2. RequestInv(owns[t]) /\ Progress(t, owns[t]) /\ step[owns[t]] # "new"
  BY <1>1 DEF IInv, RequestInv, Fresh
<1>3. t \in Request => owns[t] = t
  BY DEF IInv, OwnerInv
<1>4. t \in Request => reply[t] = "none"
  <2>1. reply[owns[t]] # "none" => step[owns[t]] = "done"
    BY <1>2 DEF RequestInv, Answered
  <2> QED
    BY <1>1, <1>3, <2>1 DEF Busy, IInv, TypeOK
<1> QED
  BY <1>1, <1>2, <1>3, <1>4

\* How such a step is put together: what it does to its own request decides.
LEMMA TaskStep ==
  ASSUME IInv, NEW t \in Task, NEW r \in Request, owns[t] = r, NEW n \in Steps, Moves(t, n),
         t \in Request => n \notin Scanning,
         t \in Scanner => n \in Scanning \cup Settling,
         \A q \in Request \ {r} :
           /\ reservation'[q] = reservation[q] /\ record'[q] = record[q]
           /\ ledger'[q] = ledger[q] /\ published'[q] = published[q]
           /\ q \in marker' <=> q \in marker,
         up' = up, expired' = expired, reply' = reply,
         reservation' \in [Request -> {"none", "active", "closed"}],
         record' \in [Request -> Record \cup {None}],
         ledger' \in [Request -> Seq([intent : Outcome \cup {"expired"}, kind : EntryKind])],
         marker' \subseteq Request,
         published' \in [Request -> Outcome \cup {None}],
         published'[r] = published[r] \/ t \in Request,
         ledger[r] # << >> => ledger'[r] = ledger[r],
         t \in Request /\ published'[r] = None => n \notin Settling,
         Reserved(r)', Kept(r)',
         published'[r] = None =>
           /\ record'[r] = None
           /\ ledger'[r] \in {<< >>, <<ExpiredEntry>>}
           /\ r \in Money => ledger'[r] = << >>,
         n \in Busy => Progress(t, r)'
  PROVE  IInv'
<1>a. owns[t] # None
  BY SettlementAssumption
<1>0. r \in Request /\ RequestInv(r) /\ step[r] # "new" /\ (t \in Request => r = t /\ reply[t] = "none")
  BY <1>a, OwnerFacts
<1>1. TypeOK'
  <2>1. owns' \in [Task -> Request \cup {None}] /\ intent' \in [Task -> Outcome \cup {None}]
    BY ZenonT(60) DEF Moves, IInv, TypeOK
  <2>2. step' \in [Task -> Steps]
    BY DEF Moves, IInv, TypeOK
  <2> QED
    BY <2>1, <2>2 DEF IInv, TypeOK
<1>2. OwnerInv'
  BY <1>a, MoveOwner
<1>3. ASSUME NEW q \in Request, q # r PROVE RequestInv(q)'
  BY <1>a, <1>3, MoveFrame
<1>4. /\ t \in Request => step'[r] = n /\ n # "new"
      /\ t \notin Request => step'[r] = step[r]
  BY <1>0 DEF Moves, IInv, TypeOK, Busy, Task
<1>5. RequestInv(r)'
  <2>1. Fresh(r)'
    BY <1>0, <1>4 DEF Fresh
  <2>2. Unpublished(r)'
    <3> SUFFICES ASSUME published'[r] = None PROVE step'[r] \notin Settling
      BY DEF Unpublished
    <3>1. CASE t \in Request
      BY <1>4, <3>1
    <3>2. CASE t \notin Request
      BY <1>0, <1>4, <3>2 DEF RequestInv, Unpublished
    <3> QED
      BY <3>1, <3>2
  <2>3. Answered(r)'
    <3>1. CASE t \in Request
      BY <1>0, <3>1 DEF Answered
    <3>2. CASE t \notin Request
      <4>1. published'[r] = published[r] /\ step'[r] = step[r] /\ reply'[r] = reply[r]
        BY <1>4, <3>2
      <4>2. reply[r] # "none" /\ published[r] # None => ledger'[r] = <<EntryFor(r, published[r])>>
        <5> DEFINE e == EntryFor(r, published[r])
        <5>1. <<e>> # << >>
          OBVIOUS
        <5>2. reply[r] # "none" /\ published[r] # None => ledger[r] = <<e>>
          BY <1>0 DEF RequestInv, Answered
        <5> QED
          BY <5>1, <5>2
      <4> QED
        BY <1>0, <4>1, <4>2 DEF RequestInv, Answered
    <3> QED
      BY <3>1, <3>2
  <2>4. \A u \in Task : owns'[u] = r => Progress(u, r)'
    BY MoveProgress
  <2> QED
    BY <2>1, <2>2, <2>3, <2>4 DEF RequestInv
<1> QED
  BY <1>1, <1>2, <1>3, <1>5 DEF IInv
-----------------------------------------------------------------------------
\* Facts about single requests that the steps below share.
LEMMA OneEntry ==
  ASSUME NEW r \in Request, NEW o \in Outcome
  PROVE  /\ <<EntryFor(r, o)>> # << >> /\ <<ExpiredEntry>> # << >>
         /\ <<EntryFor(r, o)>> # <<ExpiredEntry>>
         /\ Append(<< >>, EntryFor(r, o)) = <<EntryFor(r, o)>>
         /\ Append(<< >>, ExpiredEntry) = <<ExpiredEntry>>
         /\ <<EntryFor(r, o)>> \in Seq([intent : Outcome \cup {"expired"}, kind : EntryKind])
         /\ <<ExpiredEntry>> \in Seq([intent : Outcome \cup {"expired"}, kind : EntryKind])
<1> DEFINE E == [intent : Outcome \cup {"expired"}, kind : EntryKind]
           e == EntryFor(r, o)
           x == ExpiredEntry
<1>1. e \in E /\ x \in E /\ e # x
  BY EntryFacts
<1> HIDE DEF E, e, x
<1> QED
  BY <1>1 DEF e, x, E

\* A step that changes nothing but where its task is.
LEMMA QuietStep ==
  ASSUME IInv, NEW t \in Task, NEW r \in Request, owns[t] = r, NEW n \in Steps, Moves(t, n),
         t \in Request => n \notin Scanning,
         t \in Scanner => n \in Scanning \cup Settling,
         UNCHANGED <<up, reservation, ledger, marker, expired, record, reply, published>>,
         t \in Request /\ published[r] = None => n \notin Settling,
         n \in Busy => Progress(t, r)'
  PROVE  IInv'
<1>1. RequestInv(r)
  BY DEF IInv
<1>2. Reserved(r)' /\ Kept(r)'
  BY <1>1 DEF RequestInv, Reserved, Kept
<1>3. published'[r] = None =>
           /\ record'[r] = None
           /\ ledger'[r] \in {<< >>, <<ExpiredEntry>>}
           /\ r \in Money => ledger'[r] = << >>
  BY <1>1 DEF RequestInv, Unpublished
<1>4. /\ reservation' \in [Request -> {"none", "active", "closed"}]
      /\ record' \in [Request -> Record \cup {None}]
      /\ ledger' \in [Request -> Seq([intent : Outcome \cup {"expired"}, kind : EntryKind])]
      /\ marker' \subseteq Request
      /\ published' \in [Request -> Outcome \cup {None}]
  BY DEF IInv, TypeOK
<1> QED
  BY <1>2, <1>3, <1>4, TaskStep

\* A failing call (StepFails) keeps the invariant: nothing durable changed.
LEMMA StepFailsStep ==
  ASSUME IInv, NEW t \in Task, StepFails(t) PROVE IInv'
<1> DEFINE n == BackAt(t)
<1>1. owns[t] # None
  BY DEF StepFails, IInv, OwnerInv, Busy
<1>2. PICK r \in Request : owns[t] = r
  BY <1>1 DEF IInv, TypeOK
<1>3. /\ Moves(t, n) /\ n \in Steps
      /\ t \in Request => n \notin Scanning
      /\ t \in Scanner => n \in Scanning \cup Settling
  BY <1>1, FailMoves DEF StepFails
<1>4. Progress(t, r) /\ RequestInv(r) /\ step[t] \in Busy
  BY <1>1, <1>2, OwnerFacts
<1>5. UNCHANGED <<up, reservation, ledger, marker, expired, record, reply, published>>
  BY DEF StepFails, db
<1>6. n \in Busy => t \in Request /\ step'[t] = RetryAt(step[t]) /\ intent' = intent
  BY <1>3 DEF StepFails, Fail, BackAt, Busy, Moves, IInv, TypeOK, Task, Scanning, Settling
<1>7. t \in Request /\ published[r] = None => n \notin Settling
  <2> SUFFICES ASSUME t \in Request, published[r] = None PROVE n \notin Settling
    OBVIOUS
  <2>1. step[t] \notin Settling
    BY <1>4 DEF Progress
  <2> QED
    BY <2>1 DEF BackAt, RetryAt, Settling, IInv, TypeOK
<1>8. n \in Busy => Progress(t, r)'
  <2> SUFFICES ASSUME t \in Request, step'[t] = RetryAt(step[t]), intent' = intent
               PROVE Progress(t, r)'
    BY <1>6
  <2>1. CASE step[t] = "settle"
    <3>1. step'[t] = "attempt"
      BY <2>1 DEF RetryAt
    <3> QED
      BY <1>4, <1>5, <2>1, <3>1 DEF Progress, Settling
  <2>2. CASE step[t] = "remove"
    <3>1. step'[t] = "mark"
      BY <2>2 DEF RetryAt
    <3> QED
      BY <1>4, <1>5, <2>2, <3>1 DEF Progress, Settling
  <2>3. CASE step[t] \notin {"settle", "remove"}
    <3>1. step'[t] = step[t]
      BY <2>3 DEF RetryAt
    <3> QED
      BY <1>4, <1>5, <3>1 DEF Progress
  <2> QED
    BY <2>1, <2>2, <2>3
<1> HIDE DEF n
<1> QED
  BY <1>2, <1>3, <1>5, <1>7, <1>8, QuietStep
\* The types of what the steps below write.
LEMMA WriteTypes ==
  ASSUME TypeOK, NEW r \in Request
  PROVE  /\ \A v \in Record \cup {None} :
              [record EXCEPT ![r] = v] \in [Request -> Record \cup {None}]
         /\ \A o \in Outcome :
              [published EXCEPT ![r] = o] \in [Request -> Outcome \cup {None}]
         /\ \A e \in Seq([intent : Outcome \cup {"expired"}, kind : EntryKind]) :
              [ledger EXCEPT ![r] = e]
                \in [Request -> Seq([intent : Outcome \cup {"expired"}, kind : EntryKind])]
         /\ [reservation EXCEPT ![r] = "closed"] \in [Request -> {"none", "active", "closed"}]
<1> DEFINE E == Seq([intent : Outcome \cup {"expired"}, kind : EntryKind])
<1>1. ledger \in [Request -> E]
  BY DEF TypeOK
<1> HIDE DEF E
<1>2. \A e \in E : [ledger EXCEPT ![r] = e] \in [Request -> E]
  BY <1>1
<1> QED
  BY <1>2 DEF TypeOK, E

\* publish keeps the invariant, acknowledged or not: a repeated one finds the
\* record of the first.
LEMMA PublishStep ==
  ASSUME IInv, NEW t \in Request, NEW ack \in BOOLEAN, Publish(t, ack) PROVE IInv'
<1>0. t \in Task
  BY DEF Task
<1>1. owns[t] # None
  BY <1>0 DEF Publish, IInv, OwnerInv, Busy
<1>2. owns[t] = t /\ Progress(t, t) /\ RequestInv(t) /\ intent[t] \in Outcome /\ ledger[t] = << >>
  BY <1>0, <1>1, OwnerFacts DEF Publish, Progress
<1>3. PICK n \in Steps : /\ n \in {"attempt", BackAt(t)} /\ Moves(t, n)
                         /\ t \in Request => n \notin Scanning
                         /\ t \in Scanner => n \in Scanning \cup Settling
  BY <1>0, <1>1, AfterMoves DEF Publish, Busy, Scanning, Settling
<1>4. n \in {"attempt", "publish"} /\ step'[t] = n /\ intent' = intent
  BY <1>0, <1>3 DEF BackAt, RetryAt, Publish, After, Fail, Continue, Moves, IInv, TypeOK
<1>5. published'[t] = intent[t] /\ published' \in [Request -> Outcome \cup {None}]
  BY <1>2, WriteTypes, SettlementAssumption DEF Publish, IInv, TypeOK, Progress
<1>6. record'[t] # None /\ record'[t].intent = intent[t]
  <2>1. CASE record[t] = None
    <3> DEFINE v == [intent |-> intent[t], completed |-> FALSE]
    <3>1. v \in Record /\ v.intent = intent[t]
      BY <1>2 DEF Record
    <3>2. record'[t] = v
      BY <2>1 DEF Publish, IInv, TypeOK
    <3> HIDE DEF v
    <3> QED
      BY <3>1, <3>2, SettlementAssumption
  <2>2. CASE record[t] # None
    BY <2>2 DEF Publish
  <2> QED
    BY <2>1, <2>2
<1>7. ~record'[t].completed
  <2>1. CASE record[t] = None
    BY <1>2, <2>1 DEF Publish, IInv, TypeOK, Record
  <2>2. CASE record[t] # None
    <3>1. published[t] # None
      BY <1>2, <2>2 DEF RequestInv, Unpublished
    <3>2. published[t] \in Outcome
      BY <3>1 DEF IInv, TypeOK
    <3>3. record[t].completed => ledger[t] = <<EntryFor(t, published[t])>>
      BY <1>2, <3>1 DEF RequestInv, Kept
    <3> QED
      BY <1>2, <2>2, <3>2, <3>3, OneEntry DEF Publish
  <2> QED
    BY <2>1, <2>2
<1>8. record' \in [Request -> Record \cup {None}]
  <2>1. [intent |-> intent[t], completed |-> FALSE] \in Record
    BY <1>2 DEF Record
  <2> QED
    BY <2>1, WriteTypes DEF Publish, IInv, TypeOK
<1>9. \A q \in Request \ {t} : record'[q] = record[q] /\ published'[q] = published[q]
  BY DEF Publish, IInv, TypeOK
<1>10. UNCHANGED <<up, reservation, ledger, marker, expired, reply>>
  BY DEF Publish, db
<1>11. Reserved(t)' /\ Kept(t)'
  BY <1>2, <1>5, <1>6, <1>7, <1>10 DEF RequestInv, Reserved, Kept
<1>12. Progress(t, t)'
  BY <1>2, <1>4, <1>5, <1>6, <1>10, SettlementAssumption DEF Progress, Settling
<1>13. published'[t] # None
  BY <1>2, <1>5, SettlementAssumption
<1>14. /\ reservation' \in [Request -> {"none", "active", "closed"}]
       /\ ledger' \in [Request -> Seq([intent : Outcome \cup {"expired"}, kind : EntryKind])]
       /\ marker' \subseteq Request
  BY <1>10 DEF IInv, TypeOK
<1> QED
  BY <1>0, <1>2, <1>3, <1>5, <1>8, <1>9, <1>10, <1>11, <1>12, <1>13, <1>14, TaskStep

\* The entry of the first durable intent is made, or is there already.
LEMMA EntryStep ==
  ASSUME IInv, NEW t \in Task, NEW r \in Request, owns[t] = r, NEW ack \in BOOLEAN,
         step[t] \in {"attempt", "settle"}, After(t, ack, "audit"),
         ledger' = [ledger EXCEPT ![r] = <<EntryFor(r, intent[t])>>],
         \/ r \in Money /\ reservation' = reservation
         \/ r \notin Money /\ reservation' = [reservation EXCEPT ![r] = "closed"],
         UNCHANGED <<up, expired, record, marker, reply, published>>
  PROVE  IInv'
<1>1. owns[t] # None
  BY SettlementAssumption
<1>2. Progress(t, r) /\ RequestInv(r)
  BY <1>1, OwnerFacts
<1>3. published[r] # None /\ intent[t] = published[r] /\ record[r] # None
  BY <1>2 DEF Progress, Settling
<1>4. published[r] \in Outcome
  BY <1>3 DEF IInv, TypeOK
<1>5. PICK n \in Steps : /\ n \in {"audit", BackAt(t)} /\ Moves(t, n)
                         /\ t \in Request => n \notin Scanning
                         /\ t \in Scanner => n \in Scanning \cup Settling
  BY <1>1, AfterMoves DEF Busy, Scanning, Settling
<1>6. n \in Busy => n \in {"audit", "attempt"} /\ step'[t] = n /\ intent'[t] = intent[t]
  <2>1. n \in {"audit", "attempt", "idle"}
    BY <1>5 DEF BackAt, RetryAt
  <2>2. step'[t] = n
    BY <1>5 DEF Moves, IInv, TypeOK
  <2>3. n \in Busy => intent' = intent
    BY <2>1, <2>2 DEF After, Continue, Fail, IInv, TypeOK, Busy
  <2> QED
    BY <2>1, <2>2, <2>3 DEF Busy
<1>7. ledger'[r] = <<EntryFor(r, published[r])>>
  BY <1>3 DEF IInv, TypeOK
<1>8. /\ ledger' \in [Request -> Seq([intent : Outcome \cup {"expired"}, kind : EntryKind])]
      /\ reservation' \in [Request -> {"none", "active", "closed"}]
  BY <1>3, <1>4, OneEntry, WriteTypes DEF IInv, TypeOK
<1>9. ledger[r] # << >> => ledger'[r] = ledger[r]
  BY <1>2, <1>3, <1>7 DEF RequestInv, Kept
<1>10. Reserved(r)'
  <2>1. <<EntryFor(r, published[r])>> # << >>
    BY <1>4, OneEntry
  <2>2. r \notin Money => reservation'[r] = "closed"
    BY DEF IInv, TypeOK
  <2>3. r \in Money => reservation' = reservation
    OBVIOUS
  <2> QED
    BY <1>2, <1>7, <2>1, <2>2, <2>3 DEF RequestInv, Reserved
<1>11. Kept(r)'
  BY <1>2, <1>7 DEF RequestInv, Kept
<1>12. n \in Busy => Progress(t, r)'
  BY <1>3, <1>6, <1>7 DEF Progress, Settling
<1>13. \A q \in Request \ {r} : ledger'[q] = ledger[q] /\ reservation'[q] = reservation[q]
  BY DEF IInv, TypeOK
<1>14. /\ record' \in [Request -> Record \cup {None}] /\ marker' \subseteq Request
       /\ published' \in [Request -> Outcome \cup {None}]
  BY DEF IInv, TypeOK
<1> QED
  BY <1>3, <1>5, <1>8, <1>9, <1>10, <1>11, <1>12, <1>13, <1>14, TaskStep

\* attempt keeps the invariant for a request billed in money: the reference makes
\* the entry unique.
LEMMA AppendMoneyStep ==
  ASSUME IInv, NEW t \in Task, NEW ack \in BOOLEAN, AppendMoney(t, ack) PROVE IInv'
<1>1. owns[t] # None
  BY DEF AppendMoney, IInv, OwnerInv, Busy
<1>2. PICK r \in Request : owns[t] = r
  BY <1>1 DEF IInv, TypeOK
<1> QED
  BY <1>2, EntryStep DEF AppendMoney

\* settle_model_quota keeps the invariant: a closed reservation is not settled
\* again.
LEMMA SettleTokensStep ==
  ASSUME IInv, NEW t \in Task, NEW ack \in BOOLEAN, SettleTokens(t, ack) PROVE IInv'
<1>1. owns[t] # None
  BY DEF SettleTokens, IInv, OwnerInv, Busy
<1>2. PICK r \in Request : owns[t] = r
  BY <1>1 DEF IInv, TypeOK
<1>3. Progress(t, r) /\ RequestInv(r)
  BY <1>1, <1>2, OwnerFacts
<1>4. r \notin Money /\ intent[t] \in Outcome
  BY <1>3 DEF SettleTokens, Progress, Settling, IInv, TypeOK
<1>5. ledger[r] = << >>
  BY <1>2, <1>3, <1>4 DEF SettleTokens, RequestInv, Reserved
<1>6. ledger' = [ledger EXCEPT ![r] = <<EntryFor(r, intent[t])>>]
  <2>1. ledger' = [ledger EXCEPT ![r] = Append(ledger[r], EntryFor(r, intent[t]))]
    BY <1>2 DEF SettleTokens
  <2> QED
    BY <1>4, <1>5, <2>1, OneEntry
<1> QED
  BY <1>2, <1>4, <1>6, EntryStep, ZenonT(60) DEF SettleTokens

\* confirmed finds the entry of the intent before the record is given up.
LEMMA ConfirmStep ==
  ASSUME IInv, NEW t \in Task, Confirm(t) PROVE IInv'
<1>1. owns[t] # None
  BY DEF Confirm, IInv, OwnerInv, Busy
<1>2. PICK r \in Request : owns[t] = r
  BY <1>1 DEF IInv, TypeOK
<1>3. Progress(t, r) /\ RequestInv(r)
  BY <1>1, <1>2, OwnerFacts
<1>4. r \notin Money /\ published[r] # None /\ intent[t] = published[r] /\ record[r] # None
  BY <1>2, <1>3 DEF Confirm, Progress, Settling
<1>5. PICK n \in {"audit", "settle"} : /\ Continue(t, n)
                                       /\ n = "audit" => ledger[r] # << >>
  BY <1>2 DEF Confirm
<1>6. Moves(t, n) /\ step'[t] = n /\ intent' = intent
  BY <1>5 DEF Continue, Moves, Busy, IInv, TypeOK
<1>7. n \in Steps /\ n \notin Scanning /\ n \in Settling
  BY <1>5 DEF Steps, Scanning, Settling
<1>8. UNCHANGED <<up, reservation, ledger, marker, expired, record, reply, published>>
  BY DEF Confirm, db
<1>9. n = "audit" => ledger[r] = <<EntryFor(r, published[r])>>
  BY <1>3, <1>4, <1>5 DEF RequestInv, Kept
<1>10. Progress(t, r)'
  BY <1>4, <1>5, <1>6, <1>8, <1>9 DEF Progress, Settling
<1> QED
  BY <1>2, <1>4, <1>6, <1>7, <1>8, <1>10, QuietStep

\* record_unknown_audit keeps the invariant: the marker precedes the completion.
LEMMA AuditStep ==
  ASSUME IInv, NEW t \in Task, NEW ack \in BOOLEAN, Audit(t, ack) PROVE IInv'
<1>1. owns[t] # None
  BY DEF Audit, IInv, OwnerInv, Busy
<1>2. PICK r \in Request : owns[t] = r
  BY <1>1 DEF IInv, TypeOK
<1>3. Progress(t, r) /\ RequestInv(r)
  BY <1>1, <1>2, OwnerFacts
<1>4. /\ published[r] # None /\ intent[t] = published[r] /\ record[r] # None
      /\ ledger[r] = <<EntryFor(r, published[r])>>
  BY <1>3 DEF Audit, Progress, Settling
<1>5. PICK n \in Steps : /\ n \in {"mark", BackAt(t)} /\ Moves(t, n)
                         /\ t \in Request => n \notin Scanning
                         /\ t \in Scanner => n \in Scanning \cup Settling
  BY <1>1, AfterMoves DEF Audit, Busy, Scanning, Settling
<1>6. n \in Busy => n \in {"mark", "audit"} /\ step'[t] = n /\ intent'[t] = intent[t]
  <2>1. n \in {"mark", "audit", "idle"}
    BY <1>5 DEF Audit, BackAt, RetryAt
  <2>2. step'[t] = n
    BY <1>5 DEF Moves, IInv, TypeOK
  <2>3. n \in Busy => intent' = intent
    BY <2>1, <2>2 DEF Audit, After, Continue, Fail, IInv, TypeOK, Busy
  <2> QED
    BY <2>1, <2>2, <2>3 DEF Busy
<1>7. UNCHANGED <<up, reservation, expired, record, ledger, reply, published>>
  BY DEF Audit
<1>8. /\ marker' \subseteq Request /\ marker \subseteq marker'
      /\ \A q \in Request \ {r} : q \in marker' <=> q \in marker
      /\ UpstreamUnknown(published[r]) => r \in marker'
  BY <1>2, <1>4 DEF Audit, IInv, TypeOK
<1>9. Reserved(r)' /\ Kept(r)'
  BY <1>3, <1>7, <1>8 DEF RequestInv, Reserved, Kept
<1>10. n \in Busy => Progress(t, r)'
  BY <1>4, <1>6, <1>7, <1>8 DEF Progress, Settling
<1>11. /\ reservation' \in [Request -> {"none", "active", "closed"}]
       /\ record' \in [Request -> Record \cup {None}]
       /\ ledger' \in [Request -> Seq([intent : Outcome \cup {"expired"}, kind : EntryKind])]
       /\ published' \in [Request -> Outcome \cup {None}]
  BY <1>7 DEF IInv, TypeOK
<1> QED
  BY <1>2, <1>4, <1>5, <1>7, <1>8, <1>9, <1>10, <1>11, TaskStep

\* finish touches the record only: it is marked, or goes.
LEMMA FinishStep ==
  ASSUME IInv, NEW t \in Task, NEW r \in Request, owns[t] = r, step[t] \in {"mark", "remove"},
         NEW n \in Steps, Moves(t, n), intent'[t] = intent[t] \/ n = "idle",
         n \in {"mark", "remove", "end", "idle"}, t \in Request => n # "idle",
         NEW v \in Record \cup {None}, v # None => v.intent = published[r],
         record' = [record EXCEPT ![r] = v],
         UNCHANGED <<up, reservation, ledger, marker, expired, reply, published>>
  PROVE  IInv'
<1>1. owns[t] # None
  BY SettlementAssumption
<1>2. Progress(t, r) /\ RequestInv(r)
  BY <1>1, OwnerFacts
<1>3. /\ published[r] # None /\ intent[t] = published[r]
      /\ ledger[r] = <<EntryFor(r, published[r])>>
      /\ UpstreamUnknown(published[r]) => r \in marker
  BY <1>2 DEF Progress, Settling
<1>4. /\ record'[r] = v /\ record' \in [Request -> Record \cup {None}]
      /\ \A q \in Request \ {r} : record'[q] = record[q]
  BY WriteTypes DEF IInv, TypeOK
<1>5. Reserved(r)' /\ Kept(r)'
  BY <1>2, <1>3, <1>4 DEF RequestInv, Reserved, Kept
<1>6. n \in Busy => Progress(t, r)'
  <2>1. n \in Busy => intent'[t] = intent[t] /\ step'[t] = n
    BY DEF Moves, IInv, TypeOK, Busy
  <2> QED
    BY <1>3, <2>1 DEF Progress, Settling, Busy
<1>7. /\ t \in Request => n \notin Scanning
      /\ t \in Scanner => n \in Scanning \cup Settling
  BY DEF Scanning, Settling
<1>8. /\ reservation' \in [Request -> {"none", "active", "closed"}]
      /\ ledger' \in [Request -> Seq([intent : Outcome \cup {"expired"}, kind : EntryKind])]
      /\ marker' \subseteq Request /\ published' \in [Request -> Outcome \cup {None}]
  BY DEF IInv, TypeOK
<1> QED
  BY <1>3, <1>4, <1>5, <1>6, <1>7, <1>8, TaskStep

\* finish marks the record completed and removes it only after entry and marker.
LEMMA RecordSteps ==
  ASSUME IInv, NEW t \in Task, NEW ack \in BOOLEAN,
         MarkCompleted(t, ack) \/ RecordGone(t) \/ RemoveRecord(t, ack)
  PROVE  IInv'
<1>0. step[t] \in {"mark", "remove"}
  BY DEF MarkCompleted, RecordGone, RemoveRecord
<1>1. owns[t] # None
  BY <1>0 DEF IInv, OwnerInv, Busy
<1>2. PICK r \in Request : owns[t] = r
  BY <1>1 DEF IInv, TypeOK
<1>3. Progress(t, r)
  BY <1>1, <1>2, OwnerFacts
<1>4. intent[t] = published[r]
  BY <1>0, <1>3 DEF Progress, Settling
<1>5. ASSUME NEW p \in {"remove", "end"}, After(t, ack, p)
      PROVE  \E n \in Steps : /\ Moves(t, n) /\ n \in {"mark", "remove", "end", "idle"}
                              /\ t \in Request => n # "idle"
                              /\ intent'[t] = intent[t] \/ n = "idle"
  <2>1. PICK n \in Steps : /\ n \in {p, BackAt(t)} /\ Moves(t, n)
                           /\ t \in Request => n \notin Scanning
    BY <1>1, <1>5, AfterMoves DEF Busy, Scanning, Settling
  <2>2. BackAt(t) \in {"mark", "idle"}
    BY <1>0 DEF BackAt, RetryAt
  <2>3. intent' = intent \/ n = "idle"
    BY <1>5, <2>1 DEF After, Continue, Fail, BackAt, Moves, IInv, TypeOK
  <2> QED
    BY <2>1, <2>2, <2>3 DEF Scanning
<1>6. CASE MarkCompleted(t, ack)
  <2> DEFINE v == [record[r] EXCEPT !.completed = TRUE]
  <2>1. v \in Record /\ v.intent = published[r]
    BY <1>2, <1>4, <1>6 DEF MarkCompleted, IInv, TypeOK, Record
  <2>2. record' = [record EXCEPT ![r] = v]
    BY <1>2, <1>6 DEF MarkCompleted
  <2> HIDE DEF v
  <2>3. PICK n \in Steps : /\ Moves(t, n) /\ n \in {"mark", "remove", "end", "idle"}
                           /\ t \in Request => n # "idle"
                           /\ intent'[t] = intent[t] \/ n = "idle"
    BY <1>5, <1>6 DEF MarkCompleted
  <2>4. UNCHANGED <<up, reservation, ledger, marker, expired, reply, published>>
    BY <1>6 DEF MarkCompleted, db
  <2> QED
    BY <1>0, <1>2, <2>1, <2>2, <2>3, <2>4, FinishStep
<1>7. CASE RemoveRecord(t, ack)
  <2>1. record' = [record EXCEPT ![r] = None]
    BY <1>2, <1>7 DEF RemoveRecord
  <2>2. PICK n \in Steps : /\ Moves(t, n) /\ n \in {"mark", "remove", "end", "idle"}
                           /\ t \in Request => n # "idle"
                           /\ intent'[t] = intent[t] \/ n = "idle"
    BY <1>5, <1>7 DEF RemoveRecord
  <2>3. UNCHANGED <<up, reservation, ledger, marker, expired, reply, published>>
    BY <1>7 DEF RemoveRecord, db
  <2> QED
    BY <1>0, <1>2, <2>1, <2>2, <2>3, FinishStep
<1>8. CASE RecordGone(t)
  <2>1. record' = [record EXCEPT ![r] = None]
    BY <1>2, <1>8 DEF RecordGone, IInv, TypeOK
  <2>2. Moves(t, "end") /\ "end" \in Steps /\ intent' = intent
    BY <1>8 DEF RecordGone, Continue, Moves, Busy, Steps
  <2>3. UNCHANGED <<up, reservation, ledger, marker, expired, reply, published>>
    BY <1>8 DEF RecordGone, db
  <2> QED
    BY <1>0, <1>2, <2>1, <2>2, <2>3, FinishStep
<1> QED
  BY <1>6, <1>7, <1>8

\* recover_owned loads a record, or finds that there is none, under the lock.
LEMMA ScannerStep ==
  ASSUME IInv, NEW t \in Scanner, LoadRecord(t) \/ LoadNothing(t) \/ Recovered(t)
  PROVE  IInv'
<1>0. t \in Task /\ t \notin Request /\ step[t] \in {"load", "reload", "end"}
  BY SettlementAssumption DEF Task, LoadRecord, LoadNothing, Recovered
<1>1. owns[t] # None
  BY <1>0 DEF IInv, OwnerInv, Busy
<1>2. PICK r \in Request : owns[t] = r
  BY <1>0, <1>1 DEF IInv, TypeOK
<1>3. RequestInv(r)
  BY DEF IInv
<1>4. UNCHANGED <<up, reservation, ledger, marker, expired, record, reply, published>>
  BY DEF LoadRecord, LoadNothing, Recovered, db
<1>5. CASE LoadRecord(t)
  <2>1. record[r] # None
    BY <1>2, <1>5 DEF LoadRecord
  <2>2. published[r] # None /\ record[r].intent = published[r]
    BY <1>3, <2>1 DEF RequestInv, Unpublished, Kept
  <2>3. published[r] \in Outcome /\ intent' = [intent EXCEPT ![t] = published[r]]
        /\ step' = [step EXCEPT ![t] = "attempt"] /\ owns' = owns
    BY <1>2, <1>5, <2>2 DEF LoadRecord, IInv, TypeOK
  <2>4. Moves(t, "attempt") /\ "attempt" \in Steps \cap Settling
    BY <2>3 DEF Moves, Busy, Steps, Settling
  <2>5. step'[t] = "attempt" /\ intent'[t] = published[r]
    BY <1>0, <2>3 DEF IInv, TypeOK
  <2>6. Progress(t, r)'
    BY <1>4, <2>1, <2>2, <2>5 DEF Progress, Settling
  <2> QED
    BY <1>0, <1>2, <1>4, <2>4, <2>6, QuietStep
<1>6. CASE LoadNothing(t)
  <2>1. record[r] = None
    BY <1>2, <1>6 DEF LoadNothing
  <2>2. PICK n \in {"end", "check"} : Continue(t, n)
    BY <1>6 DEF LoadNothing
  <2>3. Moves(t, n) /\ n \in Steps /\ n \in Scanning \cup Settling
    BY <2>2 DEF Continue, Moves, Busy, Steps, Scanning, Settling
  <2>4. step'[t] = n
    BY <1>0, <2>2 DEF Continue, IInv, TypeOK
  <2>5. Progress(t, r)'
    BY <1>0, <1>4, <2>1, <2>2, <2>4 DEF Progress, Settling
  <2> QED
    BY <1>0, <1>2, <1>4, <2>3, <2>5, QuietStep
<1>7. CASE Recovered(t)
  <2>1. /\ Moves(t, BackAt(t)) /\ BackAt(t) \in Steps
        /\ BackAt(t) \in Scanning \cup Settling
    BY <1>0, <1>1, <1>7, FailMoves DEF Recovered
  <2>2. BackAt(t) \notin Busy
    BY <1>0 DEF BackAt, Busy
  <2> QED
    BY <1>0, <1>2, <1>4, <2>1, <2>2, QuietStep
<1> QED
  BY <1>5, <1>6, <1>7

\* reclaim_expired enters the expiry only where no record exists under the lock.
LEMMA ReclaimStep ==
  ASSUME IInv, NEW t \in Scanner, Reclaim(t) PROVE IInv'
<1>0. t \in Task /\ t \notin Request /\ step[t] = "check"
  BY SettlementAssumption DEF Task, Reclaim
<1>1. owns[t] # None
  BY <1>0 DEF IInv, OwnerInv, Busy
<1>2. PICK r \in Request : owns[t] = r
  BY <1>0, <1>1 DEF IInv, TypeOK
<1>3. RequestInv(r) /\ Progress(t, r)
  BY <1>0, <1>1, <1>2, OwnerFacts
<1>4. Moves(t, "end") /\ "end" \in Steps \cap Settling
  BY DEF Reclaim, Continue, Moves, Busy, Steps, Settling
<1>5. step'[t] = "end"
  BY <1>0 DEF Reclaim, Continue, IInv, TypeOK
<1>6. record[r] = None
  BY <1>0, <1>3 DEF Progress
<1>7. CASE reservation[r] = "active" /\ r \in expired
  <2>1. r \notin Money /\ ledger[r] = << >>
    BY <1>3, <1>7 DEF RequestInv, Reserved
  <2>2. published[r] = None
    <3> SUFFICES ASSUME published[r] # None PROVE FALSE
      OBVIOUS
    <3>1. published[r] \in Outcome
      BY DEF IInv, TypeOK
    <3> QED
      BY <1>3, <1>6, <2>1, <3>1, OneEntry DEF RequestInv, Kept
  <2>3. ledger' = [ledger EXCEPT ![r] = <<ExpiredEntry>>]
    <3>1. ledger' = [ledger EXCEPT ![r] = Append(ledger[r], ExpiredEntry)]
      BY <1>2, <1>7 DEF Reclaim
    <3>2. Append(<< >>, ExpiredEntry) = <<ExpiredEntry>>
      BY OneEntry DEF Outcome
    <3> QED
      BY <2>1, <3>1, <3>2
  <2>4. reservation' = [reservation EXCEPT ![r] = "closed"]
    BY <1>2, <1>7 DEF Reclaim
  <2>5. <<ExpiredEntry>> # << >>
        /\ <<ExpiredEntry>> \in Seq([intent : Outcome \cup {"expired"}, kind : EntryKind])
    BY OneEntry DEF Outcome
  <2>6. /\ ledger' \in [Request -> Seq([intent : Outcome \cup {"expired"}, kind : EntryKind])]
        /\ reservation' \in [Request -> {"none", "active", "closed"}]
    BY <2>3, <2>4, <2>5, WriteTypes DEF IInv
  <2>7. /\ ledger'[r] = <<ExpiredEntry>> /\ reservation'[r] = "closed"
        /\ \A q \in Request \ {r} : ledger'[q] = ledger[q] /\ reservation'[q] = reservation[q]
    BY <2>3, <2>4 DEF IInv, TypeOK
  <2>8. UNCHANGED <<up, expired, record, marker, reply, published>>
    BY DEF Reclaim
  <2>9. Reserved(r)' /\ Kept(r)'
    BY <1>3, <2>1, <2>2, <2>5, <2>7, <2>8 DEF RequestInv, Reserved, Kept
  <2>10. Progress(t, r)'
    BY <1>0, <1>5 DEF Progress, Settling
  <2>11. /\ record' \in [Request -> Record \cup {None}] /\ marker' \subseteq Request
         /\ published' \in [Request -> Outcome \cup {None}]
    BY <2>8 DEF IInv, TypeOK
  <2> QED
    BY <1>0, <1>2, <1>4, <1>6, <2>1, <2>2, <2>6, <2>7, <2>8, <2>9, <2>10, <2>11, TaskStep
<1>8. CASE ~(reservation[r] = "active" /\ r \in expired)
  <2>1. UNCHANGED <<up, reservation, ledger, marker, expired, record, reply, published>>
    BY <1>2, <1>8 DEF Reclaim
  <2>2. Progress(t, r)'
    BY <1>0, <1>5 DEF Progress, Settling
  <2> QED
    BY <1>0, <1>2, <1>4, <2>1, <2>2, QuietStep
<1> QED
  BY <1>7, <1>8

-----------------------------------------------------------------------------
\* A task that owned nothing acquires a key nobody owns.
LEMMA AcquireFrame ==
  ASSUME IInv, NEW t \in Task, NEW r \in Request, NEW p \in Steps, p \in Busy,
         owns[t] = None, \A u \in Task : owns[u] # r,
         owns' = [owns EXCEPT ![t] = r], step' = [step EXCEPT ![t] = p],
         intent' = intent, t \in Request => t = r /\ p \notin Scanning,
         t \in Scanner => p \in Scanning
  PROVE  /\ OwnerInv'
         /\ owns' \in [Task -> Request \cup {None}] /\ step' \in [Task -> Steps]
         /\ \A q \in Request \ {r}, u \in Task : owns'[u] = q =>
              owns[u] = q /\ step'[u] = step[u] /\ intent'[u] = intent[u]
         /\ \A u \in Task : owns'[u] = r => u = t
<1>1. owns' \in [Task -> Request \cup {None}] /\ step' \in [Task -> Steps]
  BY DEF IInv, TypeOK
<1>2. \A u \in Task : owns'[u] = r => u = t
  BY DEF IInv, TypeOK
<1>3. \A q \in Request \ {r}, u \in Task : owns'[u] = q =>
              owns[u] = q /\ step'[u] = step[u] /\ intent'[u] = intent[u]
  BY DEF IInv, TypeOK
<1>4. OwnerInv'
  BY <1>1, SettlementAssumption DEF IInv, TypeOK, OwnerInv, Task
<1> QED
  BY <1>1, <1>2, <1>3, <1>4

\* Admission takes the lock of a request that nothing exists of.
LEMMA AdmitStep ==
  ASSUME IInv, NEW r \in Request, Admit(r) PROVE IInv'
<1>0. r \in Task /\ step[r] = "new"
  BY DEF Task, Admit
<1>1. /\ owns[r] = None /\ \A u \in Task : owns[u] # r
      /\ owns' = [owns EXCEPT ![r] = r] /\ step' = [step EXCEPT ![r] = "executing"]
      /\ intent' = intent
  BY DEF Admit, Lock!Acquire
<1>2. "executing" \in Steps /\ "executing" \in Busy /\ "executing" \notin Scanning
  BY DEF Steps, Busy, Scanning
<1>3. /\ OwnerInv'
      /\ owns' \in [Task -> Request \cup {None}] /\ step' \in [Task -> Steps]
      /\ \A q \in Request \ {r}, u \in Task : owns'[u] = q =>
           owns[u] = q /\ step'[u] = step[u] /\ intent'[u] = intent[u]
      /\ \A u \in Task : owns'[u] = r => u = r
  BY <1>0, <1>1, <1>2, AcquireFrame, SettlementAssumption, ZenonT(60)
<1>4. UNCHANGED <<up, expired, record, ledger, marker, reply, published>>
  BY DEF Admit
<1>5. /\ reservation' \in [Request -> {"none", "active", "closed"}]
      /\ \A q \in Request \ {r} : reservation'[q] = reservation[q]
      /\ r \in Money => reservation'[r] = reservation[r]
      /\ r \notin Money => reservation'[r] = "active"
  BY DEF Admit, IInv, TypeOK
<1>6. TypeOK'
  BY <1>1, <1>3, <1>4, <1>5 DEF IInv, TypeOK
<1>7. ASSUME NEW q \in Request, q # r PROVE RequestInv(q)'
  <2>1. step'[q] = step[q]
    BY <1>1, <1>7 DEF IInv, TypeOK, Task
  <2>2. Same(q)
    BY <1>3, <1>4, <1>5, <1>7, <2>1 DEF Same
  <2> QED
    BY <2>2, Frame DEF IInv
<1>8. RequestInv(r)'
  <2>1. /\ RequestInv(r) /\ reservation[r] = "none" /\ published[r] = None
    BY <1>0 DEF IInv, RequestInv, Fresh
  <2>2. ledger[r] = << >> /\ record[r] = None
    BY <2>1 DEF RequestInv, Reserved, Unpublished
  <2>3. step'[r] = "executing"
    BY <1>0, <1>1 DEF IInv, TypeOK
  <2>4. reply[r] = "none"
    BY <1>0, <2>1 DEF RequestInv, Answered
  <2>5. Fresh(r)' /\ Answered(r)' /\ Kept(r)'
    BY <1>4, <2>1, <2>3, <2>4 DEF Fresh, Answered, Kept
  <2>6. Reserved(r)' /\ Unpublished(r)'
    BY <1>4, <1>5, <2>1, <2>2, <2>3 DEF RequestInv, Reserved, Unpublished, Settling
  <2>7. Progress(r, r)'
    BY <1>4, <2>1, <2>2, <2>3 DEF Progress, Settling
  <2> QED
    BY <1>3, <2>5, <2>6, <2>7 DEF RequestInv
<1> QED
  BY <1>3, <1>6, <1>7, <1>8 DEF IInv

\* A scanner takes the lock of a request that nobody is working on.
LEMMA ScanStep ==
  ASSUME IInv, NEW s \in Scanner, NEW r \in Request, ScanOutbox(s, r) \/ ScanExpired(s, r)
  PROVE  IInv'
<1>0. s \in Task /\ s \notin Request
  BY SettlementAssumption DEF Task
<1>1. PICK p \in {"load", "reload"} :
      /\ owns[s] = None /\ \A u \in Task : owns[u] # r
      /\ owns' = [owns EXCEPT ![s] = r] /\ step' = [step EXCEPT ![s] = p]
      /\ intent' = intent
  BY DEF ScanOutbox, ScanExpired, Lock!Acquire
<1>2. p \in Steps /\ p \in Busy /\ p \in Scanning
  BY DEF Steps, Busy, Scanning
<1>3. /\ OwnerInv'
      /\ owns' \in [Task -> Request \cup {None}] /\ step' \in [Task -> Steps]
      /\ \A q \in Request \ {r}, u \in Task : owns'[u] = q =>
           owns[u] = q /\ step'[u] = step[u] /\ intent'[u] = intent[u]
      /\ \A u \in Task : owns'[u] = r => u = s
  BY <1>0, <1>1, <1>2, AcquireFrame
<1>4. UNCHANGED <<up, reservation, expired, record, ledger, marker, reply, published>>
  BY DEF ScanOutbox, ScanExpired, db
<1>5. TypeOK'
  BY <1>1, <1>3, <1>4 DEF IInv, TypeOK
<1>6. \A q \in Request : step'[q] = step[q]
  BY <1>0, <1>1 DEF IInv, TypeOK, Task
<1>7. ASSUME NEW q \in Request, q # r PROVE RequestInv(q)'
  <2>1. Same(q)
    BY <1>3, <1>4, <1>6, <1>7 DEF Same
  <2> QED
    BY <2>1, Frame DEF IInv
<1>8. RequestInv(r)'
  <2>1. RequestInv(r)
    BY DEF IInv
  <2>2. step[r] # "new"
    BY <2>1 DEF ScanOutbox, ScanExpired, RequestInv, Fresh, Reserved
  <2>3. Fresh(r)' /\ Reserved(r)' /\ Unpublished(r)' /\ Kept(r)' /\ Answered(r)'
    BY <1>4, <1>6, <2>1, <2>2 DEF RequestInv, Fresh, Reserved, Unpublished, Kept, Answered
  <2>4. step'[s] = p
    BY <1>0, <1>1 DEF IInv, TypeOK
  <2>5. Progress(s, r)'
    BY <2>4 DEF Progress, Settling
  <2> QED
    BY <1>3, <2>3, <2>5 DEF RequestInv
<1> QED
  BY <1>3, <1>5, <1>7, <1>8 DEF IInv

\* The execution ends with an outcome, before anything is durable.
LEMMA ExecuteStep ==
  ASSUME IInv, NEW r \in Request, NEW o \in Outcome, Execute(r, o) PROVE IInv'
<1>0. r \in Task /\ step[r] = "executing"
  BY DEF Task, Execute
<1>1. owns[r] # None
  BY <1>0 DEF IInv, OwnerInv, Busy
<1>2. owns[r] = r /\ Progress(r, r)
  BY <1>0, <1>1, OwnerFacts
<1>3. /\ step' = [step EXCEPT ![r] = "publish"] /\ intent' = [intent EXCEPT ![r] = o]
      /\ owns' = owns
      /\ UNCHANGED <<up, reservation, ledger, marker, expired, record, reply, published>>
  BY DEF Execute, db
<1>4. Moves(r, "publish") /\ "publish" \in Steps /\ "publish" \notin Scanning \cup Settling
  BY <1>3 DEF Moves, Busy, Steps, Scanning, Settling
<1>5. step'[r] = "publish" /\ intent'[r] = o
  BY <1>0, <1>3 DEF IInv, TypeOK
<1>6. Progress(r, r)'
  BY <1>0, <1>2, <1>3, <1>5 DEF Progress, Settling
<1> QED
  BY <1>0, <1>2, <1>3, <1>4, <1>6, QuietStep, SettlementAssumption

\* complete returns and drops the lock of its request.
LEMMA ReturnStep ==
  ASSUME IInv, NEW r \in Request, owns[r] = r, NEW answer \in {"ok", "error"},
         step' = [step EXCEPT ![r] = "done"], reply' = [reply EXCEPT ![r] = answer],
         owns' = [owns EXCEPT ![r] = None],
         UNCHANGED <<up, intent, reservation, ledger, marker, expired, record, published>>,
         answer = "ok" => published[r] \notin {None, "invalid"},
         answer = "error" => published[r] \in {None, "invalid"},
         published[r] # None => ledger[r] = <<EntryFor(r, published[r])>>
  PROVE  IInv'
<1>0. r \in Task /\ "done" \in Steps /\ "done" \notin Busy /\ "done" \notin Scanning \cup Settling
  BY DEF Task, Steps, Busy, Scanning, Settling
<1>1. TypeOK'
  <2>1. owns' \in [Task -> Request \cup {None}] /\ step' \in [Task -> Steps]
    BY <1>0 DEF IInv, TypeOK
  <2>2. reply' \in [Request -> {"none", "ok", "error"}]
    BY DEF IInv, TypeOK
  <2> QED
    BY <2>1, <2>2 DEF IInv, TypeOK
<1>2. OwnerInv'
  BY <1>0, SettlementAssumption DEF IInv, TypeOK, OwnerInv, Task
<1>3. ASSUME NEW q \in Request, q # r PROVE RequestInv(q)'
  <2>1. step'[q] = step[q] /\ reply'[q] = reply[q]
    BY <1>3 DEF IInv, TypeOK, Task
  <2>2. \A u \in Task : owns'[u] = q => u # r /\ owns[u] = q
    BY <1>3, SettlementAssumption DEF IInv, TypeOK
  <2>3. \A u \in Task : u # r => step'[u] = step[u]
    BY DEF IInv, TypeOK
  <2>4. Same(q)
    BY <2>1, <2>2, <2>3 DEF Same
  <2> QED
    BY <2>4, Frame DEF IInv
<1>4. RequestInv(r)'
  <2>1. RequestInv(r)
    BY DEF IInv
  <2>2. step'[r] = "done" /\ reply'[r] = answer
    BY <1>0 DEF IInv, TypeOK
  <2>3. \A u \in Task : owns'[u] # r
    BY <1>0, SettlementAssumption DEF IInv, TypeOK, OwnerInv
  <2>4. Fresh(r)' /\ Reserved(r)' /\ Unpublished(r)' /\ Kept(r)'
    BY <2>1, <2>2 DEF RequestInv, Fresh, Reserved, Unpublished, Kept, Settling
  <2>5. Answered(r)'
    BY <2>2 DEF Answered
  <2> QED
    BY <2>3, <2>4, <2>5 DEF RequestInv
<1> QED
  BY <1>1, <1>2, <1>3, <1>4 DEF IInv

\* complete answers with what it has published, or with an error if nothing is.
LEMMA CompleteStep ==
  ASSUME IInv, NEW r \in Request, Complete(r) \/ CompleteRefused(r) PROVE IInv'
<1>0. r \in Task /\ step[r] \in {"end", "executing"}
  BY DEF Task, Complete, CompleteRefused
<1>1. owns[r] # None
  BY <1>0 DEF IInv, OwnerInv, Busy
<1>2. owns[r] = r /\ Progress(r, r) /\ RequestInv(r)
  BY <1>0, <1>1, OwnerFacts
<1>3. UNCHANGED <<up, intent, reservation, ledger, marker, expired, record, published>>
  BY DEF Complete, CompleteRefused, db
<1>4. step' = [step EXCEPT ![r] = "done"] /\ owns' = [owns EXCEPT ![r] = None]
  BY DEF Complete, CompleteRefused, Lock!Release
<1>5. CASE Complete(r)
  <2>1. /\ published[r] # None /\ intent[r] = published[r]
        /\ ledger[r] = <<EntryFor(r, published[r])>>
    BY <1>2, <1>5 DEF Complete, Progress, Settling
  <2>2. published[r] \in Outcome
    BY <2>1 DEF IInv, TypeOK
  <2>3. ledger[r] # <<ExpiredEntry>>
    BY <2>1, <2>2, OneEntry
  <2>4. reply' = [reply EXCEPT ![r] = IF published[r] = "invalid" THEN "error" ELSE "ok"]
    BY <1>5, <2>1, <2>3 DEF Complete
  <2>5. CASE published[r] = "invalid"
    BY <1>2, <1>3, <1>4, <2>1, <2>4, <2>5, ReturnStep
  <2>6. CASE published[r] # "invalid"
    BY <1>2, <1>3, <1>4, <2>1, <2>4, <2>6, ReturnStep
  <2> QED
    BY <2>5, <2>6
<1>6. CASE CompleteRefused(r)
  <2>1. published[r] = None
    BY <1>2, <1>6 DEF CompleteRefused, Progress
  <2>2. reply' = [reply EXCEPT ![r] = "error"]
    BY <1>6 DEF CompleteRefused
  <2> QED
    BY <1>2, <1>3, <1>4, <2>1, <2>2, ReturnStep
<1> QED
  BY <1>5, <1>6

\* A refused admission may leave a reservation behind, and nothing else.
LEMMA AdmitFailsStep ==
  ASSUME IInv, NEW r \in Request, AdmitFails(r) PROVE IInv'
<1>0. r \in Task /\ step[r] = "new"
  BY DEF Task, AdmitFails
<1>1. /\ step' = [step EXCEPT ![r] = "rejected"]
      /\ UNCHANGED <<up, owns, intent, expired, record, ledger, marker, reply, published>>
  BY DEF AdmitFails
<1>2. "rejected" \in Steps /\ "rejected" \notin Busy \cup Scanning \cup Settling
  BY DEF Steps, Busy, Scanning, Settling
<1>3. /\ reservation' \in [Request -> {"none", "active", "closed"}]
      /\ \A q \in Request \ {r} : reservation'[q] = reservation[q]
      /\ reservation'[r] \in {reservation[r], "active"}
      /\ r \in Money => reservation'[r] = reservation[r]
  BY DEF AdmitFails, IInv, TypeOK
<1>4. step' \in [Task -> Steps] /\ step'[r] = "rejected"
      /\ \A u \in Task \ {r} : step'[u] = step[u]
  BY <1>0, <1>1, <1>2 DEF IInv, TypeOK
<1>5. TypeOK'
  BY <1>1, <1>3, <1>4 DEF IInv, TypeOK
<1>6. RequestInv(r) /\ reservation[r] = "none" /\ published[r] = None /\ \A u \in Task : owns[u] # r
  BY <1>0 DEF IInv, RequestInv, Fresh
<1>7. OwnerInv'
  <2>1. owns[r] = None
    BY <1>0 DEF IInv, OwnerInv, Busy
  <2> QED
    BY <1>0, <1>1, <1>2, <1>4, <2>1, SettlementAssumption DEF IInv, OwnerInv, Task
<1>8. ASSUME NEW q \in Request, q # r PROVE RequestInv(q)'
  <2>0. owns[r] = None
    BY <1>0 DEF IInv, OwnerInv, Busy
  <2>1. owns[r] # q
    BY <2>0, SettlementAssumption
  <2>2. Same(q)
    BY <1>1, <1>3, <1>4, <1>8, <2>1 DEF Same, Task
  <2> QED
    BY <2>2, Frame DEF IInv
<1>9. RequestInv(r)'
  <2>1. ledger[r] = << >> /\ record[r] = None /\ reply[r] = "none"
    BY <1>0, <1>6 DEF RequestInv, Reserved, Unpublished, Answered
  <2>2. Fresh(r)' /\ Kept(r)' /\ Answered(r)'
    BY <1>1, <1>4, <1>6, <2>1 DEF Fresh, Kept, Answered
  <2>3. Reserved(r)' /\ Unpublished(r)'
    BY <1>1, <1>2, <1>3, <1>4, <1>6, <2>1 DEF RequestInv, Reserved, Unpublished
  <2> QED
    BY <1>1, <1>6, <2>2, <2>3 DEF RequestInv
<1> QED
  BY <1>5, <1>7, <1>8, <1>9 DEF IInv

\* The expiry of a reservation changes nothing durable.
LEMMA ExpiresStep ==
  ASSUME IInv, NEW r \in Request, ReservationExpires(r) PROVE IInv'
<1>1. /\ UNCHANGED <<up, owns, step, intent, reservation, ledger, marker, record, reply, published>>
      /\ expired' = expired \cup {r} /\ reservation[r] = "active"
  BY DEF ReservationExpires, db
<1>2. TypeOK' /\ OwnerInv'
  BY <1>1 DEF IInv, TypeOK, OwnerInv
<1>3. ASSUME NEW q \in Request PROVE RequestInv(q)'
  <2>1. RequestInv(q)
    BY DEF IInv
  <2>2. \A u \in Task : owns'[u] = q => Progress(u, q)'
    BY <1>1, <2>1 DEF RequestInv, Progress
  <2>3. Reserved(q)'
    BY <1>1, <2>1 DEF RequestInv, Reserved
  <2>4. Fresh(q)' /\ Unpublished(q)' /\ Kept(q)' /\ Answered(q)'
    BY <1>1, <2>1 DEF RequestInv, Fresh, Unpublished, Kept, Answered
  <2> QED
    BY <2>2, <2>3, <2>4 DEF RequestInv
<1> QED
  BY <1>2, <1>3 DEF IInv

\* A crash releases the locks of its slot; what is in the database stays.
LEMMA CrashStep ==
  ASSUME IInv, NEW s \in Slot, Crash(s) PROVE IInv'
<1>1. /\ UNCHANGED <<reservation, ledger, marker, expired, record, reply, published>>
      /\ up' \subseteq Slot
  BY DEF Crash, db, IInv, TypeOK
<1>2. ASSUME NEW t \in Task
      PROVE  /\ SlotOf[t] = s => owns'[t] = None
             /\ SlotOf[t] # s => owns'[t] = owns[t] /\ step'[t] = step[t] /\ intent'[t] = intent[t]
             /\ step'[t] \in {step[t], "idle", "dead"}
             /\ step'[t] = "idle" => step[t] = "idle" \/ t \in Scanner
             /\ step'[t] = "dead" => step[t] = "dead" \/ (t \notin Scanner /\ step[t] # "done")
             /\ step'[t] \in Busy => SlotOf[t] # s
             /\ step'[t] \in Steps /\ owns'[t] \in Request \cup {None} /\ intent'[t] \in Outcome \cup {None}
  <2>1. CASE SlotOf[t] # s
    BY <2>1 DEF Crash, Lock!Crash, IInv, TypeOK
  <2>2. CASE SlotOf[t] = s /\ step[t] \in {"new", "done", "rejected"}
    BY <2>2 DEF Crash, Lock!Crash, IInv, TypeOK, Busy
  <2>3. CASE SlotOf[t] = s /\ step[t] \notin {"new", "done", "rejected"} /\ t \in Scanner
    BY <2>3 DEF Crash, Lock!Crash, IInv, TypeOK, Busy, Steps
  <2>4. CASE SlotOf[t] = s /\ step[t] \notin {"new", "done", "rejected"} /\ t \notin Scanner
    BY <2>4 DEF Crash, Lock!Crash, IInv, TypeOK, Busy, Steps
  <2> QED
    BY <2>1, <2>2, <2>3, <2>4
<1>3. TypeOK'
  <2>1. /\ owns' \in [Task -> Request \cup {None}] /\ step' \in [Task -> Steps]
        /\ intent' \in [Task -> Outcome \cup {None}]
    <3>1. owns' = [t \in Task |-> owns'[t]] /\ step' = [t \in Task |-> step'[t]]
          /\ intent' = [t \in Task |-> intent'[t]]
      BY DEF Crash, Lock!Crash
    <3> QED
      BY <1>2, <3>1
  <2> QED
    BY <1>1, <2>1 DEF IInv, TypeOK
<1>4. OwnerInv'
  <2>1. \A t, u \in Task : owns'[t] # None /\ owns'[t] = owns'[u] => t = u
    BY <1>2 DEF IInv, OwnerInv
  <2>2. \A t \in Task : step'[t] \in Busy <=> owns'[t] # None
    BY <1>2 DEF IInv, OwnerInv
  <2>3. \A r \in Request : owns'[r] \in {r, None} /\ step'[r] \notin Scanning
    <3> SUFFICES ASSUME NEW r \in Request PROVE owns'[r] \in {r, None} /\ step'[r] \notin Scanning
      OBVIOUS
    <3>1. r \in Task /\ r \notin Scanner /\ step[r] \notin Scanning /\ owns[r] \in {r, None}
      BY SettlementAssumption DEF Task, IInv, OwnerInv
    <3> QED
      BY <1>2, <3>1 DEF Scanning
  <2>4. \A u \in Scanner : step'[u] \in Scanning \cup Settling
    <3> SUFFICES ASSUME NEW u \in Scanner PROVE step'[u] \in Scanning \cup Settling
      OBVIOUS
    <3>1. u \in Task /\ step[u] \in Scanning \cup Settling
      BY DEF Task, IInv, OwnerInv
    <3> QED
      BY <1>2, <3>1 DEF Scanning, Settling
  <2> QED
    BY <2>1, <2>2, <2>3, <2>4 DEF OwnerInv
<1>5. ASSUME NEW q \in Request PROVE RequestInv(q)'
  <2>1. q \in Task /\ q \notin Scanner
    BY SettlementAssumption DEF Task
  <2>2. step'[q] = step[q] \/ (step'[q] = "dead" /\ step[q] # "done")
    <3>1. step[q] # "idle"
      BY <2>1 DEF IInv, OwnerInv, Scanning
    <3> QED
      BY <1>2, <2>1, <3>1
  <2>3. \A u \in Task : owns'[u] = q => owns[u] = q /\ step'[u] = step[u] /\ intent'[u] = intent[u]
    BY <1>2, SettlementAssumption
  <2>4. Same(q)
    BY <1>1, <2>2, <2>3 DEF Same
  <2> QED
    BY <2>4, Frame DEF IInv
<1> QED
  BY <1>3, <1>4, <1>5 DEF IInv

\* A step that changes only which slots run keeps the invariant.
LEMMA IdleStep ==
  ASSUME IInv, UNCHANGED <<owns, step, intent, reservation, expired, record, ledger, marker, reply, published>>,
         up' \subseteq Slot
  PROVE  IInv'
<1>1. TypeOK' /\ OwnerInv'
  BY DEF IInv, TypeOK, OwnerInv
<1>2. ASSUME NEW q \in Request PROVE RequestInv(q)'
  <2>1. Same(q)
    BY DEF Same
  <2> QED
    BY <2>1, Frame DEF IInv
<1> QED
  BY <1>1, <1>2 DEF IInv

-----------------------------------------------------------------------------
\* Every step of admission, settlement, recovery, time and crashes preserves
\* the inductive invariant.
LEMMA NextIInv == IInv /\ [Next]_vars => IInv'
<1> SUFFICES ASSUME IInv, [Next]_vars PROVE IInv'
  OBVIOUS
<1>1. ASSUME NEW t \in Task, NEW ack \in BOOLEAN, Work(t, ack) PROVE IInv'
  BY <1>1, PublishStep, AppendMoneyStep, SettleTokensStep, AuditStep, RecordSteps DEF Work
<1>2. ASSUME NEW t \in Task, Advance(t) PROVE IInv'
  <2>1. CASE Work(t, TRUE)
    BY <1>1, <2>1
  <2>2. CASE RecordGone(t)
    BY <2>2, RecordSteps
  <2>3. CASE Confirm(t)
    BY <2>3, ConfirmStep
  <2>4. CASE t \in Request /\ Complete(t)
    BY <2>4, CompleteStep
  <2>5. CASE t \in Scanner /\ (LoadRecord(t) \/ LoadNothing(t) \/ Reclaim(t) \/ Recovered(t))
    BY <2>5, ScannerStep, ReclaimStep
  <2> QED
    BY <1>2, <2>1, <2>2, <2>3, <2>4, <2>5 DEF Advance
<1>3. ASSUME NEW s \in Slot, Restart(s) PROVE IInv'
  BY <1>3, IdleStep DEF Restart, db, IInv, TypeOK
<1>4. CASE UNCHANGED vars
  BY <1>4, IdleStep DEF vars, IInv, TypeOK
<1>5. ASSUME NEW t \in Task, Work(t, FALSE) \/ StepFails(t) PROVE IInv'
  BY <1>1, <1>5, StepFailsStep
<1>6. ASSUME NEW r \in Request,
             \/ Admit(r) \/ AdmitFails(r) \/ CompleteRefused(r) \/ ReservationExpires(r)
             \/ \E o \in Outcome : Execute(r, o)
             \/ \E s \in Scanner : ScanOutbox(s, r) \/ ScanExpired(s, r)
      PROVE  IInv'
  BY <1>6, AdmitStep, AdmitFailsStep, CompleteStep, ExpiresStep, ExecuteStep, ScanStep
<1> QED
  BY <1>2, <1>3, <1>4, <1>5, <1>6, CrashStep DEF Next
\* The settlement is always in a state of the inductive invariant.
THEOREM SettlementInvariant == Spec => []IInv
  BY InitIInv, NextIInv, PTL DEF Spec

\* However often complete and the scanners of all slots retry a request after
\* crashes and lost replies, its ledger has at most one entry: that of the
\* first durable intent, or the expired one if there never was an intent.
THEOREM SettlementLedger == Spec => []LedgerMatchesPromise
<1>1. IInv => LedgerMatchesPromise
  BY DEF IInv, RequestInv, Unpublished, Kept, LedgerMatchesPromise
<1> QED
  BY <1>1, SettlementInvariant, PTL

\* publish and finish never give up a record before its entry and its audit
\* marker are in the database.
THEOREM SettlementRecord == Spec => []RecordKeptUntilSettled
<1>1. IInv => RecordKeptUntilSettled
  <2> SUFFICES ASSUME IInv, NEW r \in Request, published[r] # None
               PROVE \/ record[r] = [intent |-> published[r], completed |-> FALSE]
                     \/ /\ record[r] \in {None, [intent |-> published[r], completed |-> TRUE]}
                        /\ ledger[r] = <<EntryFor(r, published[r])>>
                        /\ UpstreamUnknown(published[r]) => r \in marker
    BY DEF RecordKeptUntilSettled
  <2>1. Kept(r) /\ record[r] \in Record \cup {None}
    BY DEF IInv, RequestInv, TypeOK
  <2>2. CASE record[r] = None
    BY <2>1, <2>2 DEF Kept
  <2>3. CASE record[r] # None
    <3>1. record[r] \in Record /\ record[r].intent = published[r]
      BY <2>1, <2>3 DEF Kept
    <3>2. record[r] = [intent |-> published[r], completed |-> record[r].completed]
          /\ record[r].completed \in BOOLEAN
      BY <3>1 DEF Record
    <3> QED
      BY <2>1, <3>2 DEF Kept
  <2> QED
    BY <2>2, <2>3
<1> QED
  BY <1>1, SettlementInvariant, PTL

\* What complete tells the handler is what the ledger says.
THEOREM SettlementReply == Spec => []ReplyMatchesLedger
<1>1. IInv => ReplyMatchesLedger
  BY DEF IInv, RequestInv, Answered, ReplyMatchesLedger
<1> QED
  BY <1>1, SettlementInvariant, PTL

\* The ledger of a request changes only by a step of the task that owns it.
LEMMA LedgerSteps ==
  ASSUME IInv, [Next]_vars, NEW r \in Request, ledger'[r] # ledger[r]
  PROVE  /\ published' = published /\ \A q \in Request : q # r => ledger'[q] = ledger[q]
         /\ ledger[r] = << >>
         /\ step[r] \notin {"executing", "publish"}
         /\ ledger'[r] = <<IF published[r] = None THEN ExpiredEntry ELSE EntryFor(r, published[r])>>
<1>1. PICK t \in Task :
        \/ \E ack \in BOOLEAN : AppendMoney(t, ack) \/ SettleTokens(t, ack)
        \/ t \in Scanner /\ Reclaim(t)
  BY DEF Next, Advance, Work, vars, db, Admit, AdmitFails, CompleteRefused, ReservationExpires,
     Execute, ScanOutbox, ScanExpired, Publish, Audit, MarkCompleted, RemoveRecord, Confirm,
     RecordGone, Complete, LoadRecord, LoadNothing, Recovered, StepFails, Crash, Restart
<1>2. owns[t] = r /\ published' = published /\ step[t] \in {"attempt", "settle", "check"}
      /\ \A q \in Request : q # r => ledger'[q] = ledger[q]
  BY <1>1 DEF AppendMoney, SettleTokens, Reclaim, IInv, TypeOK
<1>3. RequestInv(r) /\ Progress(t, r)
  BY <1>2, OwnerFacts, SettlementAssumption
<1>4. step[r] \notin {"executing", "publish"}
  <2>1. CASE t = r
    BY <1>2, <2>1
  <2>2. CASE t # r
    BY <1>2, <2>2, SettlementAssumption DEF IInv, OwnerInv, Busy, Task
  <2> QED
    BY <2>1, <2>2
<1>5. IInv'
  BY NextIInv
<1>6. RequestInv(r)'
  BY <1>5 DEF IInv
<1>7. ledger'[r] # << >>
  <2>1. ASSUME NEW ack \in BOOLEAN, AppendMoney(t, ack) PROVE ledger'[r] # << >>
    BY <1>2, <2>1 DEF AppendMoney, IInv, TypeOK
  <2>2. ledger[r] \in Seq([intent : Outcome \cup {"expired"}, kind : EntryKind])
    BY DEF IInv, TypeOK
  <2>3. ASSUME NEW ack \in BOOLEAN, SettleTokens(t, ack) PROVE ledger'[r] # << >>
    BY <1>2, <1>3, <1>6, <2>3 DEF SettleTokens, IInv, TypeOK, RequestInv, Reserved, Progress
  <2>4. ASSUME t \in Scanner, Reclaim(t) PROVE ledger'[r] # << >>
    <3>1. reservation[r] = "active" /\ r \notin Money
      BY <1>2, <1>3, <2>4 DEF Reclaim, RequestInv, Reserved
    <3>2. reservation'[r] = "closed"
      BY <1>2, <2>4, <3>1 DEF Reclaim, IInv, TypeOK
    <3> QED
      BY <1>6, <3>1, <3>2 DEF RequestInv, Reserved
  <2> QED
    BY <1>1, <2>1, <2>3, <2>4
<1>8. CASE published[r] = None
  <2>1. ledger'[r] = <<ExpiredEntry>>
    BY <1>2, <1>6, <1>7, <1>8 DEF RequestInv, Unpublished
  <2>2. ledger[r] \in {<< >>, <<ExpiredEntry>>}
    BY <1>3, <1>8 DEF RequestInv, Unpublished
  <2> QED
    BY <1>2, <1>4, <1>8, <2>1, <2>2
<1>9. CASE published[r] # None
  <2>1. ledger'[r] = <<EntryFor(r, published[r])>>
    BY <1>2, <1>6, <1>7, <1>9 DEF RequestInv, Kept
  <2>2. ledger[r] \in {<< >>, <<EntryFor(r, published[r])>>}
    BY <1>3, <1>9 DEF RequestInv, Kept
  <2> QED
    BY <1>2, <1>4, <1>9, <2>1, <2>2
<1> QED
  BY <1>8, <1>9

\* reclaim_expired and recover_owned never enter anything for a request that
\* is still executing or about to publish, however late that is.
THEOREM SettlementNoReclaim == Spec => NoReclaimDuringExecution
<1> DEFINE Left == \A r \in Request :
                     step[r] \in {"executing", "publish"} => ledger'[r] = ledger[r]
<1>1. IInv /\ [Next]_vars => [Left]_vars
  BY LedgerSteps
<1> QED
  BY <1>1, SettlementInvariant, PTL DEF Spec, NoReclaimDuringExecution
-----------------------------------------------------------------------------
\* What the contract is told of a request's ledger.
LEMMA EnteredFacts ==
  ASSUME NEW r \in Request, NEW e
  PROVE  /\ ledger[r] = << >> => Entered[r] = None
         /\ ledger[r] = <<e>> => Entered[r] = e
         /\ (ledger[r] = << >>)' => Entered'[r] = None
         /\ (ledger[r] = <<e>>)' => Entered'[r] = e
<1>1. /\ Entered[r] = IF ledger[r] = << >> THEN None
                      ELSE IF Len(ledger[r]) = 1 THEN ledger[r][1]
                      ELSE [intent |-> "twice", kind |-> "twice"]
      /\ Entered'[r] = IF ledger'[r] = << >> THEN None
                       ELSE IF Len(ledger'[r]) = 1 THEN ledger'[r][1]
                       ELSE [intent |-> "twice", kind |-> "twice"]
  BY Zenon DEF Entered
<1>2. << >> # <<e>> /\ Len(<<e>>) = 1 /\ <<e>>[1] = e
  OBVIOUS
<1> QED
  BY <1>1, <1>2, Zenon

\* Entered is a function, so a change of one request's ledger is a change of
\* one entry.
LEMMA EnteredUpdate ==
  ASSUME NEW r \in Request, \A q \in Request : q # r => ledger'[q] = ledger[q]
  PROVE  /\ Entered' = [Entered EXCEPT ![r] = Entered'[r]]
         /\ ledger'[r] = ledger[r] => Entered' = Entered
  BY Zenon DEF Entered

\* The settlement implements the contract: every step promises a request's
\* outcome, enters a promised outcome, enters the expiry of a request without
\* one, or changes nothing the contract speaks of.
THEOREM SettlementContractImplemented == Spec => ImplementsContract
<1>1. Init => Contract!Init
  <2> SUFFICES ASSUME Init PROVE Contract!Init
    OBVIOUS
  <2>1. \A r \in Request : Entered[r] = None
    BY EnteredFacts DEF Init
  <2>2. Entered = [r \in Request |-> None]
    BY <2>1 DEF Entered
  <2> QED
    BY <2>2 DEF Init, Contract!Init
<1>2. IInv /\ IInv' /\ [Next]_vars => [Contract!Next]_(Contract!vars)
  <2> SUFFICES ASSUME IInv, IInv', [Next]_vars, ~UNCHANGED Contract!vars PROVE Contract!Next
    OBVIOUS
  <2>1. CASE \E r \in Request : ledger'[r] # ledger[r]
    <3>1. PICK r \in Request : ledger'[r] # ledger[r]
      BY <2>1
    <3>2. /\ published' = published /\ \A q \in Request : q # r => ledger'[q] = ledger[q]
          /\ ledger[r] = << >>
          /\ ledger'[r] = <<IF published[r] = None THEN ExpiredEntry
                                                  ELSE EntryFor(r, published[r])>>
      BY <3>1, LedgerSteps
    <3>3. Entered[r] = None
      BY <3>2, EnteredFacts
    <3>4. Entered'[r] = IF published[r] = None THEN ExpiredEntry ELSE EntryFor(r, published[r])
      BY <3>2, EnteredFacts
    <3>5. Entered' = [Entered EXCEPT ![r] = Entered'[r]]
      BY <3>2, EnteredUpdate
    <3>6. CASE published[r] = None
      BY <3>2, <3>3, <3>4, <3>5, <3>6 DEF Contract!Next, Contract!Expire
    <3>7. CASE published[r] # None
      BY <3>2, <3>3, <3>4, <3>5, <3>7 DEF Contract!Next, Contract!Settle
    <3> QED
      BY <3>6, <3>7
  <2>2. CASE \A r \in Request : ledger'[r] = ledger[r]
    <3>1. Entered' = Entered
      BY <2>2, Zenon DEF Entered
    <3>2. PICK r \in Request, ack \in BOOLEAN : Publish(r, ack)
      BY <3>1 DEF Contract!vars, Next, Advance, Work, vars, db, Admit, AdmitFails,
         CompleteRefused, ReservationExpires, Execute, ScanOutbox, ScanExpired, AppendMoney,
         SettleTokens, Reclaim, Audit, MarkCompleted, RemoveRecord, Confirm, RecordGone,
         Complete, LoadRecord, LoadNothing, Recovered, StepFails, Crash, Restart
    <3>3. r \in Task /\ owns[r] = r
      BY <3>2 DEF Publish, IInv, OwnerInv, Busy, Task
    <3>4. /\ intent[r] \in Outcome /\ ledger[r] = << >> /\ published[r] \in {None, intent[r]}
      <4>1. Progress(r, r)
        BY <3>3, OwnerFacts, SettlementAssumption
      <4>2. step[r] = "publish"
        BY <3>2 DEF Publish
      <4> QED
        BY <4>1, <4>2 DEF Progress
    <3>5. published' = [published EXCEPT ![r] = intent[r]]
      BY <3>2, <3>4 DEF Publish, IInv, TypeOK
    <3>6. published[r] = None
      BY <3>1, <3>4, <3>5 DEF Contract!vars, IInv, TypeOK
    <3>7. Entered[r] = None
      BY <3>4, EnteredFacts
    <3> QED
      BY <3>1, <3>4, <3>5, <3>6, <3>7 DEF Contract!Next, Contract!Promise
  <2> QED
    BY <2>1, <2>2
<1> QED
  BY <1>1, <1>2, SettlementInvariant, PTL DEF Spec, ImplementsContract, Contract!Spec
=============================================================================
