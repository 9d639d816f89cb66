----------------------------- MODULE ModelAccess -----------------------------
(***************************************************************************)
(* Which models a member may use.  A policy has a mode, a revision and a   *)
(* table of granted models; the row carries the digest of the grants and   *)
(* an HMAC over mode, revision and digest.  An attempt to call a model is  *)
(* admitted by a transaction that compares the row with the one the        *)
(* handler verified.  The row and the grants are read with two statements. *)
(***************************************************************************)
EXTENDS Naturals

CONSTANTS
  Reader,       \* handlers, of admissions and of updates
  Offered,      \* the models
  Idle, NoPolicy,
  MaxRevision   \* bound on the number of updates

ASSUME AccessAssumption == MaxRevision \in Nat

VARIABLES
  policy,       \* the row of the member, or NoPolicy
  grants,       \* identity_model_grants of the member
  enabled,      \* models that are switched on
  reading,      \* what each handler has read
  admitted      \* model_attempt_admissions

accessVars == <<policy, grants, enabled, reading, admitted>>

Mode == {"selected", "all_enabled"}

\* The row with its digest, and the HMAC as what it is computed from.
Policy(mode, revision, set) ==
  [mode |-> mode, revision |-> revision, digest |-> set, hmac |-> <<mode, revision, set>>]

\* A policy that the migration of the database made is not sealed yet.
Migrated == [mode |-> "selected", revision |-> 0, digest |-> {}, hmac |-> <<>>]

AccessInit ==
  /\ enabled = Offered /\ admitted = {}
  /\ reading = [r \in Reader |-> Idle]
  /\ \/ policy = NoPolicy /\ grants = {}
     \/ policy = Migrated /\ grants \in SUBSET Offered

Reads(r, next) == reading' = [reading EXCEPT ![r] = next]
Gives(r) == Reads(r, Idle)
ReadingAt(r, step) == reading[r] # Idle /\ reading[r].step = step

Permits(mode, set, m) == mode = "all_enabled" \/ m \in set

----------------------------------------------------------------------------

SwitchModel(m) ==
  /\ enabled' = (enabled \ {m}) \union ({m} \ enabled)
  /\ UNCHANGED <<policy, grants, reading, admitted>>

\* An attempt looks up the model, a change comes with the revision that the
\* administrator saw.
BeginAdmission(r, m) ==
  /\ reading[r] = Idle /\ m \in enabled /\ policy # NoPolicy
  /\ Reads(r, [step |-> "grants", use |-> "admit", model |-> m, row |-> policy])
  /\ UNCHANGED <<policy, grants, enabled, admitted>>

BeginReplacement(r, mode, set, expected) ==
  /\ reading[r] = Idle /\ (mode = "all_enabled" => set = {})
  /\ LET new == Policy(mode, expected + 1, set) IN
       Reads(r, IF policy = NoPolicy
                THEN [step |-> "write", use |-> "replace", new |-> new, expected |-> expected]
                ELSE [step |-> "grants", use |-> "replace", new |-> new, expected |-> expected,
                      row |-> policy])
  /\ UNCHANGED <<policy, grants, enabled, admitted>>

\* verify_model_policy on the row of the first and the grants of the second
\* statement.
PolicyVerifies(row, set) ==
  row.digest = set /\ row.hmac = <<row.mode, row.revision, row.digest>>

ReadGrants(r) ==
  /\ ReadingAt(r, "grants")
  /\ LET t == reading[r] IN
       \/ PolicyVerifies(t.row, grants) /\ t.use = "replace" /\ Reads(r, [t EXCEPT !.step = "write"])
       \/ /\ PolicyVerifies(t.row, grants) /\ t.use = "admit"
          /\ Reads(r, IF Permits(t.row.mode, grants, t.model) THEN [t EXCEPT !.step = "admit"] ELSE Idle)
       \/ ~PolicyVerifies(t.row, grants) /\ Gives(r)
  /\ UNCHANGED <<policy, grants, enabled, admitted>>

\* A plausible bug: the transaction trusts the mode that the handler read.
AdmitVerdict_StaleRow(t) == t.model \in enabled /\ Permits(t.row.mode, grants, t.model)

AdmitVerdict(t) ==
  policy = t.row /\ t.model \in enabled /\ Permits(t.row.mode, grants, t.model)

AdmitModelAttempt(r) ==
  /\ ReadingAt(r, "admit")
  /\ admitted' = IF AdmitVerdict(reading[r])
                 THEN admitted \union {[model |-> reading[r].model, revision |-> reading[r].row.revision]}
                 ELSE admitted
  /\ Gives(r) /\ UNCHANGED <<policy, grants, enabled>>

Revision == IF policy = NoPolicy THEN 0 ELSE policy.revision

ReplacePolicy(r) ==
  /\ ReadingAt(r, "write") /\ Gives(r)
  /\ LET t == reading[r] IN
       \/ /\ Revision = t.expected
          /\ policy' = t.new /\ grants' = t.new.digest
       \/ Revision # t.expected /\ UNCHANGED <<policy, grants>>
  /\ UNCHANGED <<enabled, admitted>>

\* At the start of Control: the grants as they were read are sealed.
ReadPending(r) ==
  /\ reading[r] = Idle /\ policy # NoPolicy /\ policy.hmac = <<>>
  /\ Reads(r, [step |-> "finalize", set |-> grants])
  /\ UNCHANGED <<policy, grants, enabled, admitted>>

FinalizeMigration(r) ==
  /\ ReadingAt(r, "finalize") /\ Gives(r)
  /\ policy' = IF policy.hmac = <<>> /\ policy.revision = 0 /\ grants = reading[r].set
               THEN Policy("selected", 0, grants) ELSE policy
  /\ UNCHANGED <<grants, enabled, admitted>>

AccessNext ==
  \/ \E m \in Offered : SwitchModel(m)
  \/ \E r \in Reader :
       \/ \E m \in Offered : BeginAdmission(r, m)
       \/ \E mode \in Mode, set \in SUBSET Offered, expected \in 0 .. (MaxRevision - 1) :
            BeginReplacement(r, mode, set, expected)
       \/ ReadGrants(r) \/ AdmitModelAttempt(r) \/ ReplacePolicy(r)
       \/ ReadPending(r) \/ FinalizeMigration(r)

AccessSpec == AccessInit /\ [][AccessNext]_accessVars

----------------------------------------------------------------------------

\* However updates, switches and admissions interleave, and although the
\* handler reads the policy in two statements: what is admitted is enabled and
\* granted by the policy in force at that moment, policies follow each other
\* by revision, and the stored policy is always one that verifies.
AccessGoverned ==
  [][/\ \A a \in admitted' \ admitted :
          /\ policy # NoPolicy /\ a.revision = policy.revision /\ a.model \in enabled
          /\ Permits(policy.mode, grants, a.model)
     /\ policy' # policy =>
          /\ PolicyVerifies(policy', grants')
          /\ policy # NoPolicy /\ policy.hmac # <<>> => policy'.revision = policy.revision + 1
    ]_accessVars

=============================================================================
