-------------------------- MODULE DurableSettlement --------------------------
(***************************************************************************)
(* Settlement of model requests across crashes of the Control slots:       *)
(* control/src/gateway/durable_settlement.rs, the record operations of     *)
(* settlement_outbox.rs, the recovery loop of quota_recovery.rs and the    *)
(* token reservations of model_authorization.rs and lib.rs.                *)
(*                                                                         *)
(* A request takes its request lock when it is admitted, executes, writes  *)
(* its outcome to a durable record, enters it in the ledger, appends an    *)
(* audit marker if the upstream outcome is unknown, and removes the        *)
(* record.  Every one of these writes may fail, or succeed with its        *)
(* acknowledgement lost.  The request's own task retries for ever; the     *)
(* recovery loop of a slot tries once per scan and lets go of the lock.    *)
(*                                                                         *)
(* Requests in Money are billed in money: admission is in memory (module   *)
(* MoneyAdmission), the ledger refuses a second entry with the same        *)
(* reference.  The others hold a token reservation in the database, which  *)
(* expires and is then reclaimed by the recovery task.                     *)
(*                                                                         *)
(* The request lock is the abstract one of RequestLock, which module       *)
(* SettlementOutbox implements.                                            *)
(***************************************************************************)
EXTENDS Naturals, Sequences

CONSTANTS Slot,        \* Control processes
          Request,     \* requests; a request is also its own task
          Scanner,     \* recovery loops, and reservations reclaiming expired ones
          SlotOf,      \* the slot a request arrives at, or a scanner belongs to
          Money,       \* the requests billed in money
          None

\* The outcomes complete distinguishes: priced usage, usage without a usable
\* price or with unverifiable image tokens, usage whose token counts are
\* invalid, a failure before execution, a failure with unknown execution.
Outcome == {"usage", "unpriced", "invalid", "failed", "unknown"}

\* The kinds of terminal entries in the ledgers of money and of tokens.
EntryKind == {"charge", "anomaly", "request_failed", "usage", "usage_failed"}

\* What a settlement record says: the outcome, and whether it has been entered.
Record == [intent : Outcome, completed : BOOLEAN]

ASSUME SettlementAssumption ==
  /\ Money \subseteq Request
  /\ SlotOf \in [Request \cup Scanner -> Slot]
  /\ Scanner \cap Request = {}
  /\ None \notin Request \cup Outcome
  /\ None \notin Record
  /\ None \notin [intent : Outcome \cup {"expired"}, kind : EntryKind]

\* SettlementIntent::new turns these two into failures marked upstream_unknown.
UpstreamUnknown(o) == o \in {"invalid", "unknown"}

Task == Request \cup Scanner

VARIABLES
  up,           \* the running slots
  owns,         \* the request lock a task holds, or None
  step,         \* the next step of a task
  intent,       \* the outcome a task is settling, or None
  reservation,  \* the token reservation of a request in the database
  expired,      \* the requests whose reservation is past its expiry time
  record,       \* the settlement record on disk: [intent, completed] or None
  ledger,       \* the terminal ledger entries of a request
  marker,       \* the requests with an unknown-execution audit event
  reply,        \* what complete returned to the request handler
  published     \* history: the first intent made durable for a request

db == <<reservation, ledger, marker>>
vars == <<up, owns, step, intent, reservation, expired, record, ledger, marker,
          reply, published>>

Lock == INSTANCE RequestLock WITH Key <- Request

(***************************************************************************)
(* The entry an outcome makes.  For a request billed in money: attempt,    *)
(* settle_member_money and record_member_money_*; otherwise                *)
(* settle_model_quota and fail_model_request.                              *)
(***************************************************************************)
EntryFor(r, o) ==
  [intent |-> o,
   kind   |-> IF r \in Money
                THEN CASE o = "usage" -> "charge"
                       [] o \in {"unpriced", "invalid"} -> "anomaly"
                       [] OTHER -> "request_failed"
                ELSE IF o \in {"usage", "unpriced"} THEN "usage" ELSE "usage_failed"]

ExpiredEntry == [intent |-> "expired", kind |-> "usage_failed"]

Steps == {"new", "executing", "publish", "attempt", "settle", "audit", "mark",
          "remove", "end", "done", "rejected", "dead",      \* a request's task
          "idle", "load", "reload", "check"}                \* a recovery task

TypeOK ==
  /\ up \subseteq Slot
  /\ owns \in [Task -> Request \cup {None}]
  /\ step \in [Task -> Steps]
  /\ intent \in [Task -> Outcome \cup {None}]
  /\ reservation \in [Request -> {"none", "active", "closed"}]
  /\ expired \subseteq Request
  /\ record \in [Request -> Record \cup {None}]
  /\ ledger \in [Request -> Seq([intent : Outcome \cup {"expired"}, kind : EntryKind])]
  /\ marker \subseteq Request
  /\ reply \in [Request -> {"none", "ok", "error"}]
  /\ published \in [Request -> Outcome \cup {None}]

Init ==
  /\ up = Slot
  /\ owns = [t \in Task |-> None]
  /\ step = [t \in Task |-> IF t \in Scanner THEN "idle" ELSE "new"]
  /\ intent = [t \in Task |-> None]
  /\ reservation = [r \in Request |-> "none"]
  /\ expired = {}
  /\ record = [r \in Request |-> None]
  /\ ledger = [r \in Request |-> << >>]
  /\ marker = {}
  /\ reply = [r \in Request |-> "none"]
  /\ published = [r \in Request |-> None]

-----------------------------------------------------------------------------
(***************************************************************************)
(* Control flow shared by a request's task and a recovery task.            *)
(***************************************************************************)
Running(t) == SlotOf[t] \in up

\* Where `retry` resumes a request's task after an error: persist, attempt,
\* record_unknown_audit and persist(finish) are retried as a whole.
RetryAt(p) == CASE p = "settle" -> "attempt"
                [] p = "remove" -> "mark"
                [] OTHER -> p

\* The step failed, or its acknowledgement was lost.  A request's task tries
\* again; a recovery task drops its lock and leaves the record for a later scan.
Fail(t) ==
  IF t \in Request
    THEN /\ step' = [step EXCEPT ![t] = RetryAt(step[t])]
         /\ UNCHANGED <<owns, intent>>
    ELSE /\ step' = [step EXCEPT ![t] = "idle"]
         /\ intent' = [intent EXCEPT ![t] = None]
         /\ Lock!Release(t)

Continue(t, p) ==
  /\ step' = [step EXCEPT ![t] = p]
  /\ UNCHANGED <<owns, intent>>

\* A write took effect: the task learns of it (ack) or sees an error.
After(t, ack, p) == IF ack THEN Continue(t, p) ELSE Fail(t)

\* An attempt that changed nothing.
StepFails(t) ==
  /\ Running(t)
  /\ step[t] \in {"publish", "attempt", "settle", "audit", "mark", "remove",
                  "load", "reload", "check"}
  /\ Fail(t)
  /\ UNCHANGED <<up, db, expired, record, reply, published>>

-----------------------------------------------------------------------------
(***************************************************************************)
(* Admission: reserve_model_money and reserve_model_quota.                 *)
(***************************************************************************)
\* The request lock is taken first and kept in the reservation.
Admit(r) ==
  /\ step[r] = "new" /\ Running(r)
  /\ Lock!Acquire(r, r)
  /\ reservation' = IF r \in Money THEN reservation
                      ELSE [reservation EXCEPT ![r] = "active"]
  /\ step' = [step EXCEPT ![r] = "executing"]
  /\ UNCHANGED <<up, intent, expired, record, ledger, marker, reply,
                 published>>

\* Reserving failed and the handler returns an error.  The database may have
\* committed the reservation all the same.
AdmitFails(r) ==
  /\ step[r] = "new" /\ Running(r)
  /\ \/ UNCHANGED reservation
     \/ /\ r \notin Money
        /\ reservation' = [reservation EXCEPT ![r] = "active"]
  /\ step' = [step EXCEPT ![r] = "rejected"]
  /\ UNCHANGED <<up, owns, intent, expired, record, ledger, marker, reply,
                 published>>

\* The execution ended, at the latest at its deadline; complete is called.
Execute(r, o) ==
  /\ step[r] = "executing" /\ Running(r)
  /\ step' = [step EXCEPT ![r] = "publish"]
  /\ intent' = [intent EXCEPT ![r] = o]
  /\ UNCHANGED <<up, owns, db, expired, record, reply, published>>

\* complete returns early, before anything is durable: the intent is not valid,
\* or finish_control_mutation finds the mutation gate closed by a shutdown.
CompleteRefused(r) ==
  /\ step[r] = "executing" /\ Running(r)
  /\ step' = [step EXCEPT ![r] = "done"]
  /\ reply' = [reply EXCEPT ![r] = "error"]
  /\ Lock!Release(r)
  /\ UNCHANGED <<up, intent, db, expired, record, published>>

-----------------------------------------------------------------------------
(***************************************************************************)
(* complete and recover_owned.                                             *)
(***************************************************************************)
\* RequestLock::publish.  A record of the same intent is only synced again; a
\* record of another intent is an error (StepFails).
Publish(r, ack) ==
  /\ step[r] = "publish" /\ Running(r)
  /\ record[r] # None => record[r].intent = intent[r]
  /\ record' = IF record[r] # None THEN record
                 ELSE [record EXCEPT ![r] = [intent |-> intent[r], completed |-> FALSE]]
  /\ published' = IF published[r] # None THEN published
                    ELSE [published EXCEPT ![r] = intent[r]]
  /\ After(r, ack, "attempt")
  /\ UNCHANGED <<up, db, expired, reply>>

\* Mistake: a second append with the same reference is not recognised.
AppendMoney_Duplicate(t, ack) ==
  LET r == owns[t] IN
  /\ step[t] = "attempt" /\ Running(t)
  /\ r \in Money /\ Len(ledger[r]) < 2
  /\ ledger' = [ledger EXCEPT ![r] = Append(@, EntryFor(r, intent[t]))]
  /\ After(t, ack, "audit")
  /\ UNCHANGED <<up, reservation, expired, record, marker, reply, published>>

\* Mistake: the record is finished before the unknown outcome is audited.
AppendMoney_SkipAudit(t, ack) ==
  LET r == owns[t] IN
  /\ step[t] = "attempt" /\ Running(t)
  /\ r \in Money
  /\ ledger[r] \in {<< >>, <<EntryFor(r, intent[t])>>}
  /\ ledger' = [ledger EXCEPT ![r] = <<EntryFor(r, intent[t])>>]
  /\ After(t, ack, "mark")
  /\ UNCHANGED <<up, reservation, expired, record, marker, reply, published>>

\* attempt, billed in money: append_money_entry is idempotent for the same
\* entry and refuses another entry with the same reference (StepFails).
AppendMoney(t, ack) ==
  LET r == owns[t] IN
  /\ step[t] = "attempt" /\ Running(t)
  /\ r \in Money
  /\ ledger[r] \in {<< >>, <<EntryFor(r, intent[t])>>}
  /\ ledger' = [ledger EXCEPT ![r] = <<EntryFor(r, intent[t])>>]
  /\ After(t, ack, "audit")
  /\ UNCHANGED <<up, reservation, expired, record, marker, reply, published>>

\* attempt, token reservation: compare the verified snapshot first.  Another
\* outcome than ours or the expired one is an integrity error (StepFails).
Confirm(t) ==
  LET r == owns[t]
      confirmed == reservation[r] # "active" /\ ledger[r] # << >>
  IN
  /\ step[t] = "attempt" /\ Running(t)
  /\ r \notin Money
  /\ confirmed => ledger[r] \in {<<EntryFor(r, intent[t])>>, <<ExpiredEntry>>}
  /\ Continue(t, IF confirmed THEN "audit" ELSE "settle")
  /\ UNCHANGED <<up, db, expired, record, reply, published>>

\* settle_model_quota or fail_model_request: entry, balance and reservation
\* change in one transaction, which requires the reservation to be active.
SettleTokens(t, ack) ==
  LET r == owns[t] IN
  /\ step[t] = "settle" /\ Running(t)
  /\ reservation[r] = "active"
  /\ ledger' = [ledger EXCEPT ![r] = Append(@, EntryFor(r, intent[t]))]
  /\ reservation' = [reservation EXCEPT ![r] = "closed"]
  /\ After(t, ack, "audit")
  /\ UNCHANGED <<up, expired, record, marker, reply, published>>

\* record_unknown_audit, keyed by the request.
Audit(t, ack) ==
  /\ step[t] = "audit" /\ Running(t)
  /\ marker' = IF UpstreamUnknown(intent[t]) THEN marker \cup {owns[t]} ELSE marker
  /\ UpstreamUnknown(intent[t]) \/ ack
  /\ After(t, ack, "mark")
  /\ UNCHANGED <<up, reservation, expired, record, ledger, reply, published>>

\* RequestLock::finish marks the record completed, then removes it.  A record
\* that is gone was removed by an earlier try.
MarkCompleted(t, ack) ==
  LET r == owns[t] IN
  /\ step[t] = "mark" /\ Running(t)
  /\ record[r] # None /\ record[r].intent = intent[t]
  /\ record' = [record EXCEPT ![r].completed = TRUE]
  /\ After(t, ack, "remove")
  /\ UNCHANGED <<up, db, expired, reply, published>>

\* Mistake: finish reports an error when the record is gone.
RecordGone_Error(t) ==
  /\ step[t] = "mark" /\ Running(t)
  /\ record[owns[t]] = None
  /\ Fail(t)
  /\ UNCHANGED <<up, db, expired, record, reply, published>>

RecordGone(t) ==
  /\ step[t] = "mark" /\ Running(t)
  /\ record[owns[t]] = None
  /\ Continue(t, "end")
  /\ UNCHANGED <<up, db, expired, record, reply, published>>

RemoveRecord(t, ack) ==
  /\ step[t] = "remove" /\ Running(t)
  /\ record' = [record EXCEPT ![owns[t]] = None]
  /\ After(t, ack, "end")
  /\ UNCHANGED <<up, db, expired, reply, published>>

\* complete returns; an invalid usage or an expired reservation is an error.
\* The reservation, and with it the request lock, is dropped.
Complete(r) ==
  /\ step[r] = "end" /\ Running(r)
  /\ step' = [step EXCEPT ![r] = "done"]
  /\ reply' = [reply EXCEPT ![r] =
       IF intent[r] = "invalid" \/ ledger[r] = <<ExpiredEntry>> THEN "error" ELSE "ok"]
  /\ Lock!Release(r)
  /\ UNCHANGED <<up, intent, db, expired, record, published>>

-----------------------------------------------------------------------------
(***************************************************************************)
(* A scanner: run_quota_recovery, and reserve_model_quota before it        *)
(* reserves.                                                               *)
(***************************************************************************)
\* recover_settlement_outbox_page visits every key that has a record or a lock
\* file; the listing may be stale when the lock is taken.
ScanOutbox(s, r) ==
  /\ step[s] = "idle" /\ Running(s)
  /\ step[r] # "new"
  /\ Lock!Acquire(s, r)
  /\ step' = [step EXCEPT ![s] = "load"]
  /\ UNCHANGED <<up, intent, db, expired, record, reply, published>>

\* Mistake: reclaim_expired does not look for a settlement record first.
ScanExpired_SkipRecord(s, r) ==
  /\ step[s] = "idle" /\ Running(s)
  /\ r \in expired
  /\ Lock!Acquire(s, r)
  /\ step' = [step EXCEPT ![s] = "check"]
  /\ UNCHANGED <<up, intent, db, expired, record, reply, published>>

\* Mistake: reclaim_expired does not take the request lock.
ScanExpired_NoLock(s, r) ==
  /\ step[s] = "idle" /\ Running(s)
  /\ r \in expired
  /\ owns' = [owns EXCEPT ![s] = r]
  /\ step' = [step EXCEPT ![s] = "reload"]
  /\ UNCHANGED <<up, intent, db, expired, record, reply, published>>

\* release_expired_quota_reservations_limited saw an active, expired
\* reservation; it may be settled by the time reclaim_expired has the lock.
ScanExpired(s, r) ==
  /\ step[s] = "idle" /\ Running(s)
  /\ r \in expired
  /\ Lock!Acquire(s, r)
  /\ step' = [step EXCEPT ![s] = "reload"]
  /\ UNCHANGED <<up, intent, db, expired, record, reply, published>>

\* Mistake: a completed record is taken to need nothing more.
LoadRecord_SkipCompleted(s) ==
  LET r == owns[s] IN
  /\ step[s] \in {"load", "reload"} /\ Running(s)
  /\ record[r] # None
  /\ step' = [step EXCEPT ![s] = IF record[r].completed THEN "end" ELSE "attempt"]
  /\ intent' = [intent EXCEPT ![s] = record[r].intent]
  /\ UNCHANGED <<up, owns, db, expired, record, reply, published>>

LoadRecord(s) ==
  LET r == owns[s] IN
  /\ step[s] \in {"load", "reload"} /\ Running(s)
  /\ record[r] # None
  /\ step' = [step EXCEPT ![s] = "attempt"]
  /\ intent' = [intent EXCEPT ![s] = record[r].intent]
  /\ UNCHANGED <<up, owns, db, expired, record, reply, published>>

\* Without a record the outbox scan is done, and reclaim_expired looks at the
\* reservation again.
LoadNothing(s) ==
  /\ step[s] \in {"load", "reload"} /\ Running(s)
  /\ record[owns[s]] = None
  /\ Continue(s, IF step[s] = "load" THEN "end" ELSE "check")
  /\ UNCHANGED <<up, db, expired, record, reply, published>>

\* Mistake: the comparison of the expiry with the clock is reversed.
Reclaim_NotExpired(s) ==
  LET r == owns[s] IN
  /\ step[s] = "check" /\ Running(s)
  /\ IF reservation[r] = "active" /\ r \notin expired
       THEN /\ ledger' = [ledger EXCEPT ![r] = Append(@, ExpiredEntry)]
            /\ reservation' = [reservation EXCEPT ![r] = "closed"]
       ELSE UNCHANGED <<ledger, reservation>>
  /\ Continue(s, "end")
  /\ UNCHANGED <<up, expired, record, marker, reply, published>>

\* fail_model_request with expired_failure, if the reservation is still active
\* and past its expiry.
Reclaim(s) ==
  LET r == owns[s] IN
  /\ step[s] = "check" /\ Running(s)
  /\ IF reservation[r] = "active" /\ r \in expired
       THEN /\ ledger' = [ledger EXCEPT ![r] = Append(@, ExpiredEntry)]
            /\ reservation' = [reservation EXCEPT ![r] = "closed"]
       ELSE UNCHANGED <<ledger, reservation>>
  /\ Continue(s, "end")
  /\ UNCHANGED <<up, expired, record, marker, reply, published>>

\* The scanner is through with the key and drops the lock.
Recovered(s) ==
  /\ step[s] = "end" /\ Running(s)
  /\ Fail(s)
  /\ UNCHANGED <<up, db, expired, record, reply, published>>

-----------------------------------------------------------------------------
(***************************************************************************)
(* Time and restarts.                                             *)
(***************************************************************************)
ReservationExpires(r) ==
  /\ reservation[r] = "active" /\ r \notin expired
  /\ expired' = expired \cup {r}
  /\ UNCHANGED <<up, owns, step, intent, db, record, reply, published>>

Crash(s) ==
  LET lost == {t \in Task : SlotOf[t] = s} IN
  /\ s \in up
  /\ up' = up \ {s}
  /\ Lock!Crash(s)
  /\ step' = [t \in Task |->
       IF t \notin lost \/ step[t] \in {"new", "done", "rejected"} THEN step[t]
       ELSE IF t \in Scanner THEN "idle" ELSE "dead"]
  /\ intent' = [t \in Task |-> IF t \in lost THEN None ELSE intent[t]]
  /\ UNCHANGED <<db, expired, record, reply, published>>

Restart(s) ==
  /\ s \notin up
  /\ up' = up \cup {s}
  /\ UNCHANGED <<owns, step, intent, db, expired, record, reply, published>>

-----------------------------------------------------------------------------
\* The steps of a settlement, acknowledged or not.
Work(t, ack) ==
  \/ t \in Request /\ Publish(t, ack)
  \/ AppendMoney(t, ack)
  \/ SettleTokens(t, ack)
  \/ Audit(t, ack)
  \/ MarkCompleted(t, ack)
  \/ RemoveRecord(t, ack)

\* The steps that lead on from where a task is.
Advance(t) ==
  \/ Work(t, TRUE)
  \/ Confirm(t)
  \/ RecordGone(t)
  \/ t \in Request /\ Complete(t)
  \/ t \in Scanner /\ (LoadRecord(t) \/ LoadNothing(t) \/ Reclaim(t) \/ Recovered(t))

Next ==
  \/ \E r \in Request :
       \/ Admit(r)
       \/ AdmitFails(r)
       \/ \E o \in Outcome : Execute(r, o)
       \/ CompleteRefused(r)
       \/ ReservationExpires(r)
       \/ \E s \in Scanner : ScanOutbox(s, r) \/ ScanExpired(s, r)
  \/ \E t \in Task : Advance(t) \/ Work(t, FALSE) \/ StepFails(t)
  \/ \E s \in Slot : Crash(s) \/ Restart(s)

Spec == Init /\ [][Next]_vars

(***************************************************************************)
(* Fairness.  Crashes and failing calls come to an end at some time; tasks *)
(* then proceed, executions end at their deadline, killed slots are        *)
(* restarted, reservations expire, and the recovery loops visit every key  *)
(* and every identity again and again (a busy request is only skipped).    *)
(***************************************************************************)
OutagesEnd ==
  <>[][/\ \A t \in Task : ~StepFails(t) /\ ~Work(t, FALSE)
       /\ \A s \in Slot : ~Crash(s)]_vars

FairSpec ==
  /\ Spec
  /\ OutagesEnd
  /\ WF_vars(\E s \in Slot : Restart(s))
  /\ \A t \in Task : WF_vars(Advance(t))
  /\ \A r \in Request :
       /\ WF_vars(\E o \in Outcome : Execute(r, o))
       /\ WF_vars(ReservationExpires(r))
       /\ SF_vars(\E s \in Scanner : ScanOutbox(s, r))
       /\ SF_vars(\E s \in Scanner : ScanExpired(s, r))

-----------------------------------------------------------------------------
(***************************************************************************)
(* Properties.                                                             *)
(***************************************************************************)

\* A request has at most one terminal ledger entry, however often complete
\* and the scanners of both slots retry it after crashes and lost replies:
\* the entry of the first durable intent, or the expired one if none ever
\* became durable (attempt, confirmed, reclaim_expired).
LedgerMatchesPromise ==
  \A r \in Request : ledger[r] # << >> =>
    ledger[r] = <<IF published[r] = None THEN ExpiredEntry
                                         ELSE EntryFor(r, published[r])>>

\* A durable intent is neither replaced nor given up before everything it
\* stands for is in the database: the ledger entry and, for an unknown
\* upstream outcome, the audit marker (publish, finish).
RecordKeptUntilSettled ==
  \A r \in Request : published[r] # None =>
    \/ record[r] = [intent |-> published[r], completed |-> FALSE]
    \/ /\ record[r] \in {None, [intent |-> published[r], completed |-> TRUE]}
       /\ ledger[r] = <<EntryFor(r, published[r])>>
       /\ UpstreamUnknown(published[r]) => r \in marker

\* What complete tells the handler is what the ledger says: success exactly
\* when the outcome is durable and entered, an error only if nothing became
\* durable or the usage is invalid (never because of a reclaimed reservation).
ReplyMatchesLedger ==
  \A r \in Request :
    /\ reply[r] = "ok" => published[r] \notin {None, "invalid"}
    /\ reply[r] = "error" => published[r] \in {None, "invalid"}
    /\ reply[r] # "none" /\ published[r] # None =>
         ledger[r] = <<EntryFor(r, published[r])>>

\* A reservation is never reclaimed under a live execution, however late it
\* ends: reclaim_expired and recover_owned keep the request lock throughout.
NoReclaimDuringExecution ==
  [][\A r \in Request :
       step[r] \in {"executing", "publish"} => ledger'[r] = ledger[r]]_vars

\* The ledger entry of each request, or None.
Entered == [r \in Request |->
  IF ledger[r] = << >> THEN None
  ELSE IF Len(ledger[r]) = 1 THEN ledger[r][1]
  ELSE [intent |-> "twice", kind |-> "twice"]]

\* The settlement, with its crashes, retries and two slots, implements the
\* contract: promise once, settle once or expire.
Contract == INSTANCE SettlementContract WITH
  promised <- published,
  entry <- Entered

ImplementsContract == Contract!Spec

\* Once the outages end, a durable intent is settled and its record removed,
\* by the request's task or, after a crash, by a scanner.
PublishedSettles ==
  \A r \in Request :
    (published[r] # None) ~> (record[r] = None /\ ledger[r] # << >>)

\* A token reservation does not stay active for ever: not after a crash, and
\* not when its commit was reported as an error (recover_expired_model_quota_page).
ReservationsClose ==
  \A r \in Request : (reservation[r] = "active") ~> (reservation[r] = "closed")

\* complete returns to the handler, unless its slot dies: retry does not
\* loop for ever on an outcome that can never be entered.
CompleteReturns ==
  \A r \in Request : (step[r] = "publish") ~> (step[r] \in {"done", "dead"})
=============================================================================
