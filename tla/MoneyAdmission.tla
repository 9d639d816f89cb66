--------------------------- MODULE MoneyAdmission ---------------------------
(***************************************************************************)
(* Admission of requests billed in money: reserve_model_money of           *)
(* control/src/model_authorization.rs, AdmissionSnapshot::decide and       *)
(* MemoryInFlightTracker of crates/policy-core/src/billing.                *)
(*                                                                         *)
(* A request reads its member's balance and parallel limit from the        *)
(* database, in two queries, and then asks the tracker in the memory of    *)
(* its own slot.  The permit it gets there carries the reference price and *)
(* is dropped after the settlement.  Balance and limit may have changed    *)
(* between the queries and the decision, and the other slot has a tracker  *)
(* of its own.                                                             *)
(***************************************************************************)
EXTENDS Integers, FiniteSets, FiniteSetsExt

CONSTANTS Slot, Member,
          Reservation, \* the requests billed in money
          SlotOf,      \* the slot a request arrives at
          MemberOf,    \* the member it is billed to
          Reference,   \* its reference price (freeze_billing_context)
          MaxCost,     \* what its execution may cost: the reference is an
                       \* estimate for one million tokens, not a limit
          Opening,     \* the opening balance of a member
          Limits,      \* parallel limits an administrator may set
          Unlimited,   \* no parallel limit
          GrantAmount, MaxGrants,  \* bound: the grants during a behaviour
          MaxPolls     \* bound: rounds of the queue that fit in the timeout

ASSUME AdmissionAssumption ==
  /\ SlotOf \in [Reservation -> Slot] /\ MemberOf \in [Reservation -> Member]
  /\ Reference \in [Reservation -> Nat] /\ MaxCost \in [Reservation -> Nat]
  /\ Opening \in Int /\ GrantAmount \in Nat
  /\ Limits \ {Unlimited} \subseteq Nat \ {0}
  /\ MaxGrants \in Nat /\ MaxPolls \in Nat
  /\ IsFiniteSet(Reservation)

VARIABLES
  balance,   \* the money balance of a member, in the database
  limit,     \* max_parallel of a member, in the database
  permits,   \* per slot, the requests with an entry in its tracker
  step,      \* the next step of a request
  seen,      \* the balance a request read, valid from "limit" on
  allowed,   \* the parallel limit it read, valid from "decide" on
  polls,     \* rounds a request has been queued
  grants     \* grants so far

vars == <<balance, limit, permits, step, seen, allowed, polls, grants>>

Ended == {"released", "refused", "insufficient", "timeout", "lost"}
Holding == {"executing", "charged"}

TypeOK ==
  /\ balance \in [Member -> Int]
  /\ limit \in [Member -> Limits]
  /\ permits \in [Slot -> SUBSET Reservation]
  /\ step \in [Reservation -> {"read", "limit", "decide", "queued", "orphan"}
                            \cup Holding \cup Ended]
  /\ seen \in [Reservation -> Int]
  /\ allowed \in [Reservation -> Limits \cup {Unlimited}]
  /\ polls \in [Reservation -> 0..MaxPolls]
  /\ grants \in 0..MaxGrants

Init ==
  /\ balance = [m \in Member |-> Opening]
  /\ limit \in [Member -> Limits]
  /\ permits = [s \in Slot |-> {}]
  /\ step = [r \in Reservation |-> "read"]
  /\ seen = [r \in Reservation |-> 0]
  /\ allowed = [r \in Reservation |-> Unlimited]
  /\ polls = [r \in Reservation |-> 0]
  /\ grants = 0

-----------------------------------------------------------------------------
\* The member's entries in the tracker of a slot, and the sum of their reference
\* prices: a price is that many units, and the units of the entries are counted.
InFlight(s, m) == {r \in permits[s] : MemberOf[r] = m}
Units(r) == {r} \X (1..Reference[r])
ReferenceOf(R) == Cardinality(UNION {Units(r) : r \in R})

\* The values read in a round are gone when the round or the function ends.
Forget(R) ==
  /\ seen' = [r \in Reservation |-> IF r \in R THEN 0 ELSE seen[r]]
  /\ allowed' = [r \in Reservation |-> IF r \in R THEN Unlimited ELSE allowed[r]]

(***************************************************************************)
(* One round of the loop in reserve_model_money.                           *)
(***************************************************************************)
\* member_money_balance.
ReadBalance(r) ==
  /\ step[r] = "read"
  /\ seen' = [seen EXCEPT ![r] = balance[MemberOf[r]]]
  /\ step' = [step EXCEPT ![r] = "limit"]
  /\ UNCHANGED <<balance, limit, permits, allowed, polls, grants>>

\* member_max_parallel.
ReadLimit(r) ==
  /\ step[r] = "limit"
  /\ allowed' = [allowed EXCEPT ![r] = limit[MemberOf[r]]]
  /\ step' = [step EXCEPT ![r] = "decide"]
  /\ UNCHANGED <<balance, limit, permits, seen, polls, grants>>

\* Mistake: the request's own reference is left out of the exposure.
Decision_OwnReference(money, parallel, active, reference) ==
  IF money <= 0 /\ active = {} THEN "insufficient"
  ELSE IF money <= 0 THEN "queued"
  ELSE IF parallel # Unlimited /\ Cardinality(active) >= parallel THEN "queued"
  ELSE IF money >= ReferenceOf(active) THEN "executing" ELSE "queued"

\* AdmissionSnapshot::decide, in the order of its early returns.
Decision(money, parallel, active, reference) ==
  IF money <= 0 /\ active = {} THEN "insufficient"
  ELSE IF money <= 0 THEN "queued"
  ELSE IF parallel # Unlimited /\ Cardinality(active) >= parallel THEN "queued"
  ELSE IF active = {} THEN "executing"
  ELSE IF money >= ReferenceOf(active) + reference THEN "executing" ELSE "queued"

\* MemoryInFlightTracker::try_acquire, under the tracker's mutex.
TryAcquire(r) ==
  LET s == SlotOf[r]
      d == Decision(seen[r], allowed[r], InFlight(s, MemberOf[r]), Reference[r])
  IN
  /\ step[r] = "decide"
  /\ step' = [step EXCEPT ![r] = d]
  /\ permits' = IF d = "executing" THEN [permits EXCEPT ![s] = @ \cup {r}] ELSE permits
  /\ IF d = "executing" THEN UNCHANGED <<seen, allowed>> ELSE Forget({r})
  /\ UNCHANGED <<balance, limit, polls, grants>>

\* Queued: sleep and begin a new round, or give up when the time is over.
PollAgain(r) ==
  /\ step[r] = "queued" /\ polls[r] < MaxPolls
  /\ polls' = [polls EXCEPT ![r] = @ + 1]
  /\ step' = [step EXCEPT ![r] = "read"]
  /\ Forget({r})
  /\ UNCHANGED <<balance, limit, permits, grants>>

\* Mistake: the queue has no timeout.
QueueTimeout_Never(r) ==
  /\ step[r] = "queued" /\ polls[r] = MaxPolls
  /\ step' = [step EXCEPT ![r] = "read"]
  /\ UNCHANGED <<balance, limit, permits, seen, allowed, polls, grants>>

QueueTimeout(r) ==
  /\ step[r] = "queued" /\ polls[r] = MaxPolls
  /\ step' = [step EXCEPT ![r] = "timeout"]
  /\ Forget({r})
  /\ UNCHANGED <<balance, limit, permits, polls, grants>>

\* A query failed, the consumer is no longer authorized, or the references of
\* the tracker do not add up (overflow, another currency).
RefuseReservation(r) ==
  /\ step[r] \in {"read", "limit", "decide"}
  /\ step' = [step EXCEPT ![r] = "refused"]
  /\ Forget({r})
  /\ UNCHANGED <<balance, limit, permits, polls, grants>>

(***************************************************************************)
(* After admission: settlement first, then the permit is dropped.          *)
(***************************************************************************)
\* Mistake: the permit is dropped when the execution ends, before its charge.
Charge_EarlyRelease(r, cost) ==
  /\ step[r] \in {"executing", "orphan"}
  /\ IF r \in permits[SlotOf[r]]
       THEN /\ permits' = [permits EXCEPT ![SlotOf[r]] = @ \ {r}]
            /\ UNCHANGED <<balance, step>>
       ELSE /\ balance' = [balance EXCEPT ![MemberOf[r]] = @ - cost]
            /\ step' = [step EXCEPT ![r] = IF @ = "orphan" THEN "lost" ELSE "charged"]
            /\ UNCHANGED permits
  /\ UNCHANGED <<limit, seen, allowed, polls, grants>>

\* complete entered the charge (nothing for a failure).
Charge(r, cost) ==
  /\ step[r] \in {"executing", "orphan"}
  /\ balance' = [balance EXCEPT ![MemberOf[r]] = @ - cost]
  /\ step' = [step EXCEPT ![r] = IF @ = "orphan" THEN "lost" ELSE "charged"]
  /\ UNCHANGED <<limit, permits, seen, allowed, polls, grants>>

\* Drop for InFlightPermit and MemoryInFlightTracker::release.
Release(r) ==
  /\ step[r] = "charged"
  /\ permits' = [permits EXCEPT ![SlotOf[r]] = @ \ {r}]
  /\ step' = [step EXCEPT ![r] = "released"]
  /\ Forget({r})
  /\ UNCHANGED <<balance, limit, polls, grants>>

(***************************************************************************)
(* The environment.                                                        *)
(***************************************************************************)
\* grant_member_money, an approved quota request or a voucher.
Grant(m) ==
  /\ grants < MaxGrants
  /\ grants' = grants + 1
  /\ balance' = [balance EXCEPT ![m] = @ + GrantAmount]
  /\ UNCHANGED <<limit, permits, step, seen, allowed, polls>>

SetLimit(m, n) ==
  /\ limit' = [limit EXCEPT ![m] = n]
  /\ UNCHANGED <<balance, permits, step, seen, allowed, polls, grants>>

\* The tracker dies with its slot.  Executions whose outcome was durable are
\* charged later by a scanner (module DurableSettlement), the others never.
Crash(s) ==
  LET mine == {r \in Reservation : SlotOf[r] = s /\ step[r] \notin Ended \cup {"orphan"}} IN
  /\ mine # {}
  /\ permits' = [permits EXCEPT ![s] = {}]
  /\ step' \in [Reservation -> {"lost", "orphan"} \cup {step[r] : r \in Reservation}]
  /\ \A r \in Reservation :
       IF r \notin mine THEN step'[r] = step[r]
       ELSE step'[r] = "lost" \/ (step'[r] = "orphan" /\ step[r] = "executing")
  /\ Forget(mine)
  /\ UNCHANGED <<balance, limit, polls, grants>>

ReserveModelMoney(r) ==
  \/ ReadBalance(r) \/ ReadLimit(r) \/ TryAcquire(r)
  \/ PollAgain(r) \/ QueueTimeout(r)

Next ==
  \/ \E r \in Reservation :
       \/ ReserveModelMoney(r)
       \/ RefuseReservation(r)
       \/ \E cost \in 0..MaxCost[r] : Charge(r, cost)
       \/ Release(r)
  \/ \E m \in Member : Grant(m) \/ \E n \in Limits : SetLimit(m, n)
  \/ \E s \in Slot : Crash(s)

Spec == Init /\ [][Next]_vars

\* The loop of reserve_model_money runs on: its queries return, and it sleeps
\* 50 ms between rounds.
FairSpec == Spec /\ \A r \in Reservation : WF_vars(ReserveModelMoney(r))

-----------------------------------------------------------------------------
(***************************************************************************)
(* Properties.                                                             *)
(***************************************************************************)

\* When a member has several requests in flight in a slot, their references
\* together are covered by a balance that one of them read: the early returns
\* of decide do not let a second request slip in beside an uncovered one.  Nor
\* do they outnumber the limit the latest of them was admitted under, though
\* balance and limit change meanwhile.
ExposureCovered ==
  \A s \in Slot, m \in Member :
    LET R == InFlight(s, m) IN
    /\ Cardinality(R) > 1 => \E r \in R : seen[r] >= ReferenceOf(R)
    /\ R # {} => \E r \in R : allowed[r] = Unlimited \/ Cardinality(R) <= allowed[r]

\* The tracker of a slot counts exactly the executions whose charge is not yet
\* in the balance or has just been entered: no permit leaks on any path, and
\* none is dropped before its charge.
TrackerMatchesExecutions ==
  \A s \in Slot :
    permits[s] = {r \in Reservation : SlotOf[r] = s /\ step[r] \in Holding}

\* reserve_model_money returns: a queued request is not postponed for ever by
\* others that overtake it.
ReservationReturns ==
  \A r \in Reservation : (step[r] = "queued") ~> (step[r] \in {"executing"} \cup Ended)

\* The guide on quota reservation (line 5) says that reserving "prevents
\* concurrent requests from all spending the same available balance": then at
\* most one request, admitted alone, can overdraw a balance.
OverdraftByOneRequest ==
  \A m \in Member : balance[m] > 0 - Max({MaxCost[r] : r \in Reservation})
=============================================================================
