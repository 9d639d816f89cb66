---------------------------- MODULE RunnerRegistry ----------------------------
(***************************************************************************)
(* The registry of runners (control/src/lib.rs: enrollment, update and     *)
(* deletion of a runner; crates/storage/src/runner_quota.rs and            *)
(* control/src/runner_slot_upgrade.rs: the signed receipts by which an     *)
(* upgrade may register a second runner for one logical runner).           *)
(*                                                                         *)
(* Every writer reads the rows and the receipts, prepares its change and   *)
(* commits it in a transaction that compares both with what was read       *)
(* (matches_before, RunnerQuotaPolicy::occupied).  The registration lease  *)
(* (control/src/runner_upgrade.rs) keeps the writers of the control and    *)
(* the maintenance executor apart; whether it is granted is decided by the *)
(* module that knows the executor, and passed to the actions here.         *)
(***************************************************************************)
EXTENDS Naturals, FiniteSets

CONSTANTS
    Runner,       \* identities of runners; each is random and never reused
    Handler,      \* requests to the control; as a runner, the one it enrolls
    Token,        \* enrollment tokens
    RunnerLimit,  \* the quota of the license
    NoRunner

ASSUME RegistryAssumption ==
    /\ Handler \subseteq Runner /\ NoRunner \notin Runner
    /\ RunnerLimit \in Nat \ {0}

VARIABLES
    rows,       \* the table runners: "none" until registered, "gone" when deleted
    bindings,   \* the receipts in security_state: a set of upgrade bindings
    tokens,     \* the table runner_enrollments
    handler,    \* what each request has read and what it is about to do
    connected   \* runners with a session in the hub

registryVars == <<rows, bindings, tokens, handler, connected>>

Members == {r \in Runner : rows[r] \in {"on", "off"}}

\* What a transaction compares.  The revision of the receipts is left out:
\* identities are never reused, so no state of the two tables comes back.
Snapshot == [members |-> Members, bindings |-> bindings]

\* The member a finished receipt stands for.
CurrentOf(b) == CASE b.phase = "prepared"   -> NoRunner
                  [] b.phase = "committed"  -> b.candidate
                  [] b.phase = "rolledBack" -> b.previous

Prepared(bs) == {b \in bs : b.phase = "prepared"}

\* RunnerQuotaSnapshot::verify with RunnerQuotaBindings::validate: a receipt
\* that does not match the rows makes every operation on runners fail.
Verified(q) ==
    /\ \A b \in q.bindings :
          CASE b.phase = "prepared"   -> {b.previous, b.candidate} \subseteq q.members
            [] b.phase = "committed"  -> b.previous \notin q.members /\ b.candidate \in q.members
            [] b.phase = "rolledBack" -> b.previous \in q.members /\ b.candidate \notin q.members
    /\ \A b, c \in q.bindings : b # c =>
          /\ b.logical # c.logical /\ b.job # c.job
          /\ {b.previous, b.candidate} \cap {c.previous, c.candidate} = {}

Occupied(q) == Cardinality(q.members) - Cardinality(Prepared(q.bindings))

UpgradeMember(q, r) == \E b \in Prepared(q.bindings) : r \in {b.previous, b.candidate}

LogicalId(q, r) ==
    LET owning == {b \in q.bindings : r \in {b.previous, b.candidate}}
    IN  IF owning = {} THEN r ELSE (CHOOSE b \in owning : TRUE).logical

IdleHandler == [op |-> "idle", runner |-> NoRunner, token |-> "none",
                seen |-> "none", lease |-> FALSE]

\* The local runners have been registered by the installation.
Registered(present) == [r \in Runner |-> IF r \in present THEN "on" ELSE "none"]

RegistryInit(present) ==
    /\ rows = Registered(present)
    /\ bindings = {}
    /\ tokens = [t \in Token |-> "unissued"]
    /\ handler = [h \in Handler |-> IdleHandler]
    /\ connected = {}

-----------------------------------------------------------------------------
(* Enrollment of a runner by a token.                                      *)

CreateRunnerEnrollment(t) ==
    /\ tokens[t] = "unissued"
    /\ tokens' = [tokens EXCEPT ![t] = "pending"]
    /\ UNCHANGED <<rows, bindings, handler, connected>>

TokenExpires(t) ==
    /\ tokens[t] = "pending"
    /\ tokens' = [tokens EXCEPT ![t] = "expired"]
    /\ UNCHANGED <<rows, bindings, handler, connected>>

\* The quota is read before the lease is taken.
EnrollReads(h, t) ==
    /\ handler[h].op = "idle" /\ rows[h] = "none" /\ tokens[t] # "unissued"
    /\ Verified(Snapshot)
    /\ handler' = [handler EXCEPT ![h] =
            [op |-> "enroll", runner |-> h, token |-> t, seen |-> Snapshot, lease |-> FALSE]]
    /\ UNCHANGED <<rows, bindings, tokens, connected>>

\* A conflict of the quota or of the audit chain: another attempt with a new
\* snapshot, or the last of AUDIT_APPEND_RETRIES has failed.
Retry(h) ==
    \/ /\ Verified(Snapshot)
       /\ handler[h].op = "delete" =>
             handler[h].runner \in Members /\ ~UpgradeMember(Snapshot, handler[h].runner)
       /\ handler' = [handler EXCEPT ![h].seen = Snapshot]
    \/ handler' = [handler EXCEPT ![h] = IdleHandler]

\* Mistake: the limit is compared with the snapshot, and the snapshot with nothing.
EnrollVerdict_Stale(h) ==
    IF tokens[handler[h].token] # "pending" THEN "invalid"
    ELSE IF Occupied(handler[h].seen) >= RunnerLimit THEN "limit"
    ELSE "registered"

\* consume_runner_enrollment_inner.
EnrollVerdict(h) ==
    IF tokens[handler[h].token] # "pending" THEN "invalid"
    ELSE IF handler[h].seen # Snapshot THEN "changed"
    ELSE IF Occupied(Snapshot) >= RunnerLimit THEN "limit"
    ELSE "registered"

\* The lease is taken after the quota was read and held through the commit;
\* without it the request is refused.
EnrollCommits(h, lease) ==
    /\ handler[h].op = "enroll"
    /\ \/ /\ ~lease \/ EnrollVerdict(h) \in {"invalid", "limit"}
          /\ handler' = [handler EXCEPT ![h] = IdleHandler]
          /\ UNCHANGED <<rows, tokens>>
       \/ /\ lease /\ EnrollVerdict(h) \in {"changed", "registered"}
          /\ Retry(h)
          /\ UNCHANGED <<rows, tokens>>
       \/ /\ lease /\ EnrollVerdict(h) = "registered"
          /\ rows' = [rows EXCEPT ![h] = "on"]
          /\ tokens' = [tokens EXCEPT ![handler[h].token] = "used"]
          /\ handler' = [handler EXCEPT ![h] = IdleHandler]
    /\ UNCHANGED <<bindings, connected>>

-----------------------------------------------------------------------------
(* Changes by an administrator.                                            *)

UpdateRunner(r, to) ==
    /\ rows[r] \in {"on", "off"} \ {to}
    /\ rows' = [rows EXCEPT ![r] = to]
    /\ connected' = IF to = "off" THEN connected \ {r} ELSE connected
    /\ UNCHANGED <<bindings, tokens, handler>>

\* delete_runner holds the lease from before its first read to its end.
DeleteReads(h, r, lease) ==
    /\ handler[h].op = "idle" /\ lease
    /\ r \in Members /\ Verified(Snapshot) /\ ~UpgradeMember(Snapshot, r)
    /\ handler' = [handler EXCEPT ![h] =
            [op |-> "delete", runner |-> r, token |-> "none", seen |-> Snapshot, lease |-> TRUE]]
    /\ UNCHANGED <<rows, bindings, tokens, connected>>

\* VerifiedRunnerQuota::delete_runner: the receipt goes with its current member.
WithoutRunner(bs, r) == {b \in bs : CurrentOf(b) # r}

DeleteCommits(h) ==
    /\ handler[h].op = "delete"
    /\ LET r == handler[h].runner IN
       \/ /\ Retry(h)
          /\ UNCHANGED <<rows, bindings, connected>>
       \/ /\ handler[h].seen = Snapshot
          /\ rows' = [rows EXCEPT ![r] = "gone"]
          /\ bindings' = WithoutRunner(bindings, r)
          /\ connected' = connected \ {r}
          /\ handler' = [handler EXCEPT ![h] = IdleHandler]
    /\ UNCHANGED tokens

\* register_runner_connection: the row is enabled and the lease is granted.
ConnectRunner(r, lease) ==
    /\ rows[r] = "on" /\ lease /\ r \notin connected
    /\ connected' = connected \cup {r}
    /\ UNCHANGED <<rows, bindings, tokens, handler>>

-----------------------------------------------------------------------------
(* The upgrade's part: the executor runs these under its exclusive lock.   *)

\* provision_local_runner_upgrade: a second row for the logical runner of
\* `previous', without counting it, and the receipt that says so.
CanProvision(job, previous, candidate) ==
    LET logical == LogicalId(Snapshot, previous)
        old     == {b \in bindings : b.logical = logical}
    IN  /\ Verified(Snapshot)
        /\ rows[previous] = "on" /\ candidate \notin Members
        /\ \A b \in old : CurrentOf(b) = previous
        /\ \A b \in bindings : b.job # job
        /\ Occupied(Snapshot) <= RunnerLimit

Provision(job, previous, candidate) ==
    LET logical == LogicalId(Snapshot, previous) IN
    /\ rows' = [rows EXCEPT ![candidate] = "on"]
    /\ bindings' = {b \in bindings : b.logical # logical}
                   \cup {[job |-> job, logical |-> logical, previous |-> previous,
                          candidate |-> candidate, phase |-> "prepared"]}

BindingOf(job) == {b \in bindings : b.job = job}

\* reconcile_local_runner_upgrade and finish_upgrade: the survivor decides
\* which member of the receipt is retired; a finished receipt is a success
\* only for the survivor it was finished with.
CanReconcile(job, survivor) ==
    /\ Verified(Snapshot)
    /\ IF BindingOf(job) = {}
         THEN survivor = NoRunner \/ survivor \in Members
         ELSE \A b \in BindingOf(job) :
                 /\ survivor \in {b.previous, b.candidate}
                 /\ b.phase # "prepared" => CurrentOf(b) = survivor

\* Mistake: a receipt that is still open is settled as a finished upgrade.
Reconcile_Optimistic(job, survivor) ==
    LET open    == Prepared(BindingOf(job))
        retired == {b.previous : b \in open}
    IN  /\ rows' = [r \in Runner |-> IF r \in retired THEN "gone" ELSE rows[r]]
        /\ bindings' = (bindings \ open) \cup {[b EXCEPT !.phase = "committed"] : b \in open}

Reconcile(job, survivor) ==
    LET open    == Prepared(BindingOf(job))
        Ended(b) == [b EXCEPT !.phase = IF b.candidate = survivor THEN "committed" ELSE "rolledBack"]
        retired == (UNION {{b.previous, b.candidate} : b \in open}) \ {survivor}
    IN  /\ rows' = [r \in Runner |-> IF r \in retired THEN "gone" ELSE rows[r]]
        /\ bindings' = (bindings \ open) \cup {Ended(b) : b \in open}

-----------------------------------------------------------------------------
(* All of them together, whoever holds the lease: the identity that an     *)
(* upgrade registers is new.                                               *)

UpgradeSteps(job) ==
    \/ \E previous \in Runner, candidate \in Runner \ Handler :
          /\ rows[candidate] = "none" /\ CanProvision(job, previous, candidate)
          /\ Provision(job, previous, candidate)
    \/ \E survivor \in Runner \cup {NoRunner} :
          CanReconcile(job, survivor) /\ Reconcile(job, survivor)

RegistryNext(jobs) ==
    \/ \E t \in Token : CreateRunnerEnrollment(t) \/ TokenExpires(t)
    \/ \E h \in Handler, t \in Token : EnrollReads(h, t)
    \/ \E h \in Handler, lease \in BOOLEAN : EnrollCommits(h, lease)
    \/ \E h \in Handler, r \in Runner : DeleteReads(h, r, TRUE)
    \/ \E h \in Handler : DeleteCommits(h)
    \/ \E r \in Runner, to \in {"on", "off"} : UpdateRunner(r, to)
    \/ \E r \in Runner : ConnectRunner(r, TRUE)
    \/ \E job \in jobs : UpgradeSteps(job) /\ UNCHANGED <<tokens, handler, connected>>

RegistrySpec(jobs, present) ==
    RegistryInit(present) /\ [][RegistryNext(jobs)]_registryVars

-----------------------------------------------------------------------------
\* The receipts and the rows always agree, so that no operation on runners
\* ever fails for good with an integrity error, and the license's quota of
\* logical runners is kept whatever enrollments, deletions and upgrades
\* overlap.
QuotaHolds ==
    /\ Verified(Snapshot)
    /\ Occupied(Snapshot) <= RunnerLimit
=============================================================================
