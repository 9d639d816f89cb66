----------------------------- MODULE MoneyLedger -----------------------------
(***************************************************************************)
(* The money account of a member: append_money_entry and its callers,      *)
(* member_money_balance and review_quota_request_atomic of                 *)
(* control/src/lib.rs, the quota requests of the member, and the storage   *)
(* transactions behind them (crates/storage/src/money_ledger.rs and        *)
(* lib.rs; mariadb.rs has the same ones).                                  *)
(*                                                                         *)
(* Every operation reads the state it builds on in several queries, signs  *)
(* the successor of that state, and commits it in one transaction that     *)
(* compares what was read: the balance row, the quota request, and the     *)
(* tail of the audit log, which all operations of the installation share.  *)
(* A lost comparison makes the operation read everything again, four times *)
(* at most; a commit whose reply is lost is reported as an error, and the  *)
(* caller may start the same operation once more.                          *)
(***************************************************************************)
EXTENDS Integers, Sequences, Totals

CONSTANTS Op,         \* operations of all slots on this account
          Kind,       \* what an operation does, one of AppendKinds \cup RequestKinds
          Ref,        \* the reference of the entry, or the quota request
          Amount,     \* the amount to enter or to request, in nanos
          MaxNanos,   \* the largest i64
          MaxTries,   \* QUOTA_MUTATION_RETRIES, AUDIT_APPEND_RETRIES
          MaxAudit,   \* bound: length of the audit log
          None

AppendKinds == {"grant", "charge", "anomaly", "request_failed"}
ReviewKinds == {"approve", "reject"}
RequestKinds == ReviewKinds \cup {"create", "update", "withdraw"}

\* The callers of append_money_entry: grants are positive, charges are not,
\* failures are free.  Requested amounts are positive.
ASSUME LedgerAssumption ==
  /\ Kind \in [Op -> AppendKinds \cup RequestKinds]
  /\ Amount \in [Op -> Int]
  /\ \A o \in Op :
       /\ Kind[o] \in {"grant", "create", "update"} => Amount[o] > 0
       /\ Kind[o] = "charge" => Amount[o] <= 0
       /\ Kind[o] \in {"anomaly", "request_failed"} => Amount[o] = 0
  /\ \A o, p \in Op : Kind[o] \in AppendKinds /\ Kind[p] \in RequestKinds => Ref[o] # Ref[p]
  /\ MaxNanos \in Nat /\ MaxTries \in Nat \ {0} /\ MaxAudit \in Nat

QuotaRequest == {Ref[o] : o \in {o \in Op : Kind[o] \in RequestKinds}}

VARIABLES
  exists,   \* whether the balance row has been inserted
  bal,      \* the balance row
  ledger,   \* the entries, in the order of their balance revision
  audit,    \* the audit log: what each event is about
  req,      \* the quota requests of the member
  pc,       \* the next step of an operation
  tries,    \* rounds an operation has begun
  snap,     \* the balance row it read
  seen,     \* the quota request it read
  tail      \* the length of the audit log it read

store == <<exists, bal, ledger, audit, req>>
vars == <<exists, bal, ledger, audit, req, pc, tries, snap, seen, tail>>

ZeroBalance == [balance |-> 0, credited |-> 0, debited |-> 0, revision |-> 0]
NoRequest == [status |-> "none", amount |-> 0, revision |-> 0]

Fits(n) == n \in (-MaxNanos - 1)..MaxNanos
Positive(n) == IF n > 0 THEN n ELSE 0

References(l) == {l[i].ref : i \in DOMAIN l}

Ended == {"ok", "duplicate", "conflict", "exhausted", "error"}

Balance == [balance : Int, credited : Nat, debited : Nat, revision : Nat]
Entry == [ref : {Ref[o] : o \in Op}, kind : AppendKinds, amount : Int]
Statuses == {"none", "pending", "approved", "rejected", "withdrawn"}
RequestRow == [status : Statuses, amount : Nat, revision : Nat]

TypeOK ==
  /\ exists \in BOOLEAN
  /\ bal \in Balance
  /\ ledger \in Seq(Entry)
  /\ audit \in Seq([about : {Ref[o] : o \in Op} \cup {None}, money : BOOLEAN])
  /\ req \in [QuotaRequest -> RequestRow]
  /\ pc \in [Op -> {"idle", "load", "reload", "balance", "snapshot", "audit",
                     "write"} \cup Ended]
  /\ tries \in [Op -> 0..MaxTries]
  /\ snap \in [Op -> Balance]
  /\ seen \in [Op -> RequestRow]
  /\ tail \in [Op -> Nat]

Init ==
  /\ exists = FALSE
  /\ bal = ZeroBalance
  /\ ledger = << >>
  /\ audit = << >>
  /\ req = [q \in QuotaRequest |-> NoRequest]
  /\ pc = [o \in Op |-> "idle"]
  /\ tries = [o \in Op |-> 0]
  /\ snap = [o \in Op |-> ZeroBalance]
  /\ seen = [o \in Op |-> NoRequest]
  /\ tail = [o \in Op |-> 0]

-----------------------------------------------------------------------------
Goto(o, p) == pc' = [pc EXCEPT ![o] = p]

\* The values an operation read and its count of rounds end with it.
Finish(o, result) ==
  /\ Goto(o, result)
  /\ tries' = [tries EXCEPT ![o] = 0]
  /\ snap' = [snap EXCEPT ![o] = ZeroBalance]
  /\ tail' = [tail EXCEPT ![o] = 0]
  /\ UNCHANGED seen

\* Where a round of the operation's retry loop begins.
RoundAt(o) == CASE Kind[o] \in AppendKinds -> "balance"
                [] Kind[o] \in ReviewKinds -> "reload"
                [] OTHER -> "audit"

NewRound(o) ==
  /\ Goto(o, RoundAt(o))
  /\ tries' = [tries EXCEPT ![o] = @ + 1]
  /\ snap' = [snap EXCEPT ![o] = ZeroBalance]
  /\ tail' = [tail EXCEPT ![o] = 0]
  /\ UNCHANGED seen

\* The amount an operation enters: an approval grants what the request says.
EntryAmount(o) == IF Kind[o] = "approve" THEN seen[o].amount ELSE Amount[o]

EntryOf(o) == [ref |-> Ref[o],
               kind |-> IF Kind[o] = "approve" THEN "grant" ELSE Kind[o],
               amount |-> EntryAmount(o)]

\* The row signed as the successor of the one the operation read.
Successor(o) ==
  [balance  |-> snap[o].balance + EntryAmount(o),
   credited |-> snap[o].credited + Positive(EntryAmount(o)),
   debited  |-> snap[o].debited + Positive(-EntryAmount(o)),
   revision |-> snap[o].revision + 1]

\* create_member_quota_request draws a new identifier and begins with the
\* balance; begun again it is another operation.
Creates(o) == Kind[o] = "create"

\* The reviews, updates and withdrawals are about a request that exists.
Revises(o) == Kind[o] \in RequestKinds /\ ~Creates(o)

\* A handler or the settlement starts the operation, or starts it again after
\* an error.
Start(o) ==
  /\ pc[o] = "idle" \/ (pc[o] \in {"error", "exhausted"} /\ ~Creates(o))
  /\ Goto(o, IF Revises(o) THEN "load" ELSE "balance")
  /\ tries' = [tries EXCEPT ![o] = 1]
  /\ UNCHANGED <<store, snap, seen, tail>>

\* Only a pending request is reviewed, updated or withdrawn.
IsPending(q) == req[q].status = "pending"

\* The handlers of a review, an update and a withdrawal load the request.
Load(o) ==
  /\ pc[o] = "load"
  /\ IF IsPending(Ref[o])
       THEN /\ seen' = [seen EXCEPT ![o] = req[Ref[o]]]
            /\ Goto(o, RoundAt(o))
            /\ UNCHANGED <<tries, snap, tail>>
       ELSE Finish(o, "conflict")
  /\ UNCHANGED store

\* review_quota_request_atomic loads it again in every round.
Reload(o) ==
  /\ pc[o] = "reload"
  /\ IF req[Ref[o]] = seen[o]
       THEN Goto(o, "audit") /\ UNCHANGED <<tries, snap, seen, tail>>
       ELSE Finish(o, "conflict")
  /\ UNCHANGED store

\* member_money_balance inserts the row of a new member.
EnsureBalance(o) ==
  /\ pc[o] = "balance"
  /\ exists' = TRUE
  /\ Goto(o, IF Creates(o) THEN "audit" ELSE "snapshot")
  /\ UNCHANGED <<bal, ledger, audit, req, tries, snap, seen, tail>>

\* money_state_snapshot reads row and entries in one transaction.  An entry
\* with the reference ends append_money_entry: well if it is the same entry.
\* A successor that does not fit in an i64 is an error.
Snapshot(o) ==
  LET found == Kind[o] \in AppendKinds /\ Ref[o] \in References(ledger)
      fits == /\ Fits(bal.balance + EntryAmount(o))
              /\ Fits(bal.credited + Positive(EntryAmount(o)))
              /\ Fits(bal.debited + Positive(-EntryAmount(o)))
  IN
  /\ pc[o] = "snapshot"
  /\ IF found
       THEN Finish(o, IF \E i \in DOMAIN ledger : ledger[i] = EntryOf(o)
                        THEN "ok" ELSE "duplicate")
     ELSE IF ~fits THEN Finish(o, "error")
     ELSE /\ snap' = [snap EXCEPT ![o] = bal]
          /\ Goto(o, IF Kind[o] \in AppendKinds THEN "audit" ELSE "write")
          /\ UNCHANGED <<tries, seen, tail>>
  /\ UNCHANGED store

\* prepare_audit_event reads the tail of the audit log.
PrepareAudit(o) ==
  /\ pc[o] = "audit"
  /\ tail' = [tail EXCEPT ![o] = Len(audit)]
  /\ Goto(o, IF Kind[o] = "approve" THEN "balance" ELSE "write")
  /\ UNCHANGED <<store, tries, snap, seen>>

(***************************************************************************)
(* The transactions.                                                       *)
(***************************************************************************)
EntersMoney(o) == Kind[o] \in AppendKinds \cup {"approve"}

\* Mistake: the balance row is overwritten without comparing it.
AccountUnchanged_BalanceNotCompared(o) == Ref[o] \notin References(ledger)

\* Mistake: neither the balance row nor the reference is compared.
AccountUnchanged_Never(o) == TRUE

\* The balance row is the one that was read, and the index of references admits
\* the entry.
AccountUnchanged(o) == bal = snap[o] /\ Ref[o] \notin References(ledger)

\* Mistake: the review does not compare the request it loaded.
RequestUnchanged_Never(o) == TRUE

\* The request is the one that was loaded.
RequestUnchanged(o) == req[Ref[o]] = seen[o]

\* The index of pending requests admits one for a member.
MayInsert(o) == req[Ref[o]] = NoRequest /\ \A q \in QuotaRequest : ~IsPending(q)

\* The state the operation builds on is still the current one.
Unchanged(o) ==
  /\ EntersMoney(o) => AccountUnchanged(o)
  /\ Revises(o) => RequestUnchanged(o)
  /\ Creates(o) => MayInsert(o)

\* The next revision of the request the operation loaded.
Revised(o, status, amount) ==
  [status |-> status, amount |-> amount, revision |-> seen[o].revision + 1]

RequestAfter(o) ==
  CASE Kind[o] = "approve"  -> Revised(o, "approved", seen[o].amount)
    [] Kind[o] = "reject"   -> Revised(o, "rejected", seen[o].amount)
    [] Kind[o] = "update"   -> Revised(o, "pending", Amount[o])
    [] Kind[o] = "withdraw" -> [NoRequest EXCEPT !.status = "withdrawn"]
    [] OTHER                -> [status |-> "pending", amount |-> Amount[o], revision |-> 0]

\* Everything changes together, or, if the reply is lost, without the caller
\* knowing of it.
Commit(o, ack) ==
  /\ pc[o] = "write"
  /\ Unchanged(o) /\ tail[o] = Len(audit)
  /\ Len(audit) < MaxAudit
  /\ audit' = Append(audit, [about |-> Ref[o], money |-> EntersMoney(o)])
  /\ IF EntersMoney(o)
       THEN bal' = Successor(o) /\ ledger' = Append(ledger, EntryOf(o))
       ELSE UNCHANGED <<bal, ledger>>
  /\ IF Kind[o] \in RequestKinds
       THEN req' = [req EXCEPT ![Ref[o]] = RequestAfter(o)]
       ELSE UNCHANGED req
  /\ Finish(o, IF ack THEN "ok" ELSE "error")
  /\ UNCHANGED exists

\* The transaction is rolled back.  Only some operations try again when it is
\* not the audit log that moved.
Conflict(o) ==
  /\ pc[o] = "write"
  /\ ~Unchanged(o) \/ tail[o] # Len(audit)
  /\ LET again == EntersMoney(o) \/ Unchanged(o) IN
     IF again /\ tries[o] < MaxTries
       THEN NewRound(o)
       ELSE Finish(o, IF again THEN "exhausted" ELSE "conflict")
  /\ UNCHANGED store

\* A query or the transaction failed without effect, or the slot died.
StorageError(o) ==
  /\ pc[o] \notin Ended \cup {"idle"}
  /\ Finish(o, "error")
  /\ UNCHANGED store

\* Operations on other accounts share the audit log.
OtherAudit ==
  /\ Len(audit) < MaxAudit
  /\ audit' = Append(audit, [about |-> None, money |-> FALSE])
  /\ UNCHANGED <<exists, bal, ledger, req, pc, tries, snap, seen, tail>>

\* The steps of an operation.
OperationStep(o) ==
  \/ Start(o) \/ Load(o) \/ Reload(o) \/ EnsureBalance(o) \/ Snapshot(o)
  \/ PrepareAudit(o) \/ Commit(o, TRUE) \/ Commit(o, FALSE)
  \/ Conflict(o) \/ StorageError(o)

Next == (\E o \in Op : OperationStep(o)) \/ OtherAudit

Spec == Init /\ [][Next]_vars

-----------------------------------------------------------------------------
(***************************************************************************)
(* Properties.                                                             *)
(***************************************************************************)

\* The row agrees with itself and with the entries (the part of
\* verify_money_state_snapshot that needs no sum), and stays within an i64.
AccountConsistent ==
  /\ bal.balance = bal.credited - bal.debited
  /\ bal.revision = Len(ledger)
  /\ Fits(bal.balance) /\ Fits(bal.credited) /\ Fits(bal.debited)

\* No reference is entered twice, although operations with the same reference
\* run in both slots, lose replies and are started again.
OneEntryPerReference ==
  \A i, j \in DOMAIN ledger : ledger[i].ref = ledger[j].ref => i = j

\* A quota request is approved exactly if its amount, as it stood when it was
\* approved, has been granted: neither of the two happens alone, and no update
\* or withdrawal of the member slips in between (review_quota_request_inner).
ApprovedIffGranted ==
  \A q \in QuotaRequest :
    /\ req[q].status = "approved" <=> q \in References(ledger)
    /\ \A i \in DOMAIN ledger : ledger[i].ref = q => ledger[i].amount = req[q].amount

\* The audit events of entries among the first n.
MoneyEvents(n) == {i \in 1..n : audit[i].money}

\* Every entry has its audit event, in the same order, and no event announces
\* an entry that was not made.
AuditCoversLedger ==
  /\ Cardinality(MoneyEvents(Len(audit))) = Len(ledger)
  /\ \A i \in MoneyEvents(Len(audit)) :
       ledger[Cardinality(MoneyEvents(i))].ref = audit[i].about

\* What verify_money_state_snapshot computes: the row agrees with itself, is
\* the sum of the entries, in total, of the credits and of the debits, and
\* stays within an i64.  Every entry has its audit event.
LedgerReconstructsBalance ==
  /\ AccountConsistent
  /\ bal.balance = Net(Amounts(ledger))
  /\ bal.credited = Total(Amounts(ledger))
  /\ bal.debited = Total(Negated(Amounts(ledger)))
  /\ AuditCoversLedger

\* An operation that reports success has had its effect: the entry is there
\* with this amount, by whichever operation with this reference.
SuccessIsEntered ==
  \A o \in Op : pc[o] = "ok" /\ EntersMoney(o) =>
    \E i \in DOMAIN ledger : ledger[i] = EntryOf(o)

\* Nothing changes or reopens a request after its review or withdrawal, and no
\* entry is ever changed or removed.
DecisionsAreFinal ==
  [][/\ \A q \in QuotaRequest :
          req[q].status \in {"approved", "rejected", "withdrawn"} => req'[q] = req[q]
     /\ \A i \in DOMAIN ledger : i \in DOMAIN ledger' /\ ledger'[i] = ledger[i]]_vars
=============================================================================
