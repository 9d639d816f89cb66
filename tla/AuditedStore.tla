----------------------------- MODULE AuditedStore -----------------------------
(***************************************************************************)
(* Member identities, API keys and the audit chain.  A handler reads what  *)
(* it is going to change, computes the new rows with their HMACs, reads    *)
(* the tail of the audit chain, and hands both to one storage transaction  *)
(* that compares everything it was told with what it finds, then changes   *)
(* the rows and appends the events together, or rolls back.  On a conflict *)
(* the handler prepares again, a bounded number of times.                  *)
(*                                                                         *)
(* Handlers of several administrators and members run concurrently.  An    *)
(* HMAC is modelled by what it covers: a row carries the values it was     *)
(* sealed with, an event the identity of its predecessor.                  *)
(***************************************************************************)
EXTENDS Naturals, Sequences, FiniteSets, SequencesExt

CONSTANTS
  Caller,         \* clients; each makes one request at a time
  Member,         \* members by e-mail
  ApiKey,         \* API keys
  Holder,         \* Holder[k]: the member a key belongs to
  SeatLimit, KeyLimit,   \* limits of the current license
  Retries,        \* QUOTA_MUTATION_RETRIES and AUDIT_APPEND_RETRIES
  MaxEvents,      \* bound: no request begins once the chain is that long
  NoCaller        \* author of the empty chain, target of system events

ASSUME StoreAssumption ==
  /\ IsFiniteSet(Member) /\ IsFiniteSet(ApiKey)
  /\ Holder \in [ApiKey -> Member]
  /\ SeatLimit \in Nat /\ KeyLimit \in Nat
  /\ Retries \in Nat \ {0} /\ MaxEvents \in Nat
  /\ NoCaller \notin Caller \cup Member \cup ApiKey

VARIABLES
  ownerExists,  \* the first owner is initialized
  identity,     \* members: status, revision and what the HMAC covers
  seatRegistry, \* security_state: the registry of occupied seats
  apiKeys,      \* API keys, as identity
  chain,        \* audit_events
  auditRevision, \* transaction_gates: revision of 'audit_log'
  call,         \* the handlers
  auditor       \* one verification of the chain

rowVars == <<ownerExists, identity, seatRegistry, apiKeys>>
storeVars == <<rowVars, chain, auditRevision, call, auditor>>

Absent == [status |-> "absent", revision |-> 0, seal |-> <<"absent", 0>>]
Row(status, revision) ==
  [status |-> status, revision |-> revision, seal |-> <<status, revision>>]
NoSeats == [taken |-> {}, revision |-> 0]
EmptyTail == [by |-> NoCaller, sequence |-> 0]

NoCall == [pc |-> "idle", kind |-> "none", targets |-> {}, to |-> "none",
           seen |-> Absent, seats |-> NoSeats, tail |-> EmptyTail,
           tries |-> 0, result |-> "none"]
NoAudit == [pc |-> "idle", revision |-> 0, events |-> <<>>, tries |-> 0]

StoreInit ==
  /\ ownerExists = FALSE
  /\ identity = [m \in Member |-> Absent]
  /\ seatRegistry = NoSeats
  /\ apiKeys = [k \in ApiKey |-> Absent]
  /\ chain = <<>>
  /\ auditRevision = 0
  /\ call = [h \in Caller |-> NoCall]
  /\ auditor = NoAudit

(* occupied_identity_ids: the active members of the table. *)
ActiveIn(table) == {m \in Member : table[m].status = "active"}
ActiveMembers == ActiveIn(identity)

(* audit_tail *)
ChainTail ==
  IF chain = <<>> THEN EmptyTail
  ELSE [by |-> Last(chain).by, sequence |-> Last(chain).sequence]

-----------------------------------------------------------------------------
(***************************************************************************)
(* The handlers before their transaction.                                   *)
(***************************************************************************)
Begin(h, kind, targets, to) ==
  /\ call[h].pc = "idle" /\ Len(chain) < MaxEvents
  /\ call' = [call EXCEPT ![h] = [NoCall EXCEPT
                !.pc = IF kind = "create" THEN "count" ELSE "read",
                !.kind = kind, !.targets = targets, !.to = to]]
  /\ UNCHANGED <<rowVars, chain, auditRevision, auditor>>

InitializeOwner(h) == Begin(h, "owner", {NoCaller}, "active")
CreateMembers(h) ==
  ownerExists /\ \E batch \in SUBSET Member \ {{}} : Begin(h, "create", batch, "active")
UpdateMemberStatus(h) ==
  ownerExists /\ \E m \in Member, s \in {"active", "disabled", "deleted"} :
                   Begin(h, "status", {m}, s)
ApplyPassword(h) ==
  ownerExists /\ \E m \in Member : Begin(h, "password", {m}, "active")
(* Only the member who holds a key creates or revokes it. *)
CreateApiKey(h) ==
  \E k \in ApiKey : Holder[k] \in ActiveMembers /\ Begin(h, "key", {k}, "active")
RevokeApiKey(h) ==
  \E k \in ApiKey : Holder[k] \in ActiveMembers /\ Begin(h, "revoke", {k}, "revoked")
AppendAuditEvent(h) == ownerExists /\ Begin(h, "note", {NoCaller}, "none")

Finish(h, result) ==
  call' = [call EXCEPT ![h] = [NoCall EXCEPT !.result = result]]

Target(h) == CHOOSE x \in call[h].targets : TRUE

(* The row the handler is going to change, as it is now.  A status the
   member already has is only noted in the chain. *)
ReadTarget(h) ==
  LET kind == call[h].kind
      row == CASE kind \in {"status", "password"} -> identity[Target(h)]
               [] kind = "revoke" -> apiKeys[Target(h)]
               [] OTHER -> Absent
      found == CASE kind = "status" -> row.status \in {"active", "disabled"}
                 [] kind \in {"password", "revoke"} -> row.status = "active"
                 [] OTHER -> TRUE
  IN /\ call[h].pc = "read"
     /\ IF ~found THEN Finish(h, "refused")
        ELSE call' = [call EXCEPT ![h] = [@ EXCEPT
               !.seen = row,
               !.kind = IF kind = "status" /\ row.status = call[h].to
                        THEN "note" ELSE kind,
               !.pc = IF kind = "status" /\ row.status # call[h].to
                      THEN "count" ELSE "prepare"]]
     /\ UNCHANGED <<rowVars, chain, auditRevision, auditor>>

(* The seats the handler wants to be taken afterwards. *)
NextSeats(h) ==
  IF call[h].to = "active" THEN call[h].seats.taken \cup call[h].targets
                           ELSE call[h].seats.taken \ call[h].targets

(* verified_seat_registry, one snapshot: it must agree with the identities;
   the limit of the license is checked against it. *)
CountSeats(h) ==
  LET others == IF call[h].kind = "create" THEN seatRegistry.taken
                ELSE seatRegistry.taken \ call[h].targets
      after == Cardinality(others) + Cardinality(call[h].targets)
  IN /\ call[h].pc = "count"
     /\ IF seatRegistry.taken # ActiveMembers THEN Finish(h, "integrity")
        ELSE IF call[h].to = "active" /\ after > SeatLimit
             THEN Finish(h, "refused")
        ELSE call' = [call EXCEPT ![h] = [@ EXCEPT !.seats = seatRegistry, !.pc = "prepare"]]
     /\ UNCHANGED <<rowVars, chain, auditRevision, auditor>>

(* prepare_audit_event, prepare_audit_events_for_targets: the new events are
   sealed onto the tail as it is now.  The member who revokes a key is
   authenticated again. *)
PrepareAudit(h) ==
  /\ call[h].pc = "prepare"
  /\ call' = [call EXCEPT ![h] = [@ EXCEPT !.tail = ChainTail, !.pc = "validate"]]
  /\ UNCHANGED <<rowVars, chain, auditRevision, auditor>>

ValidateActor(h) ==
  /\ call[h].pc = "validate"
  /\ IF call[h].kind = "revoke" /\ Holder[Target(h)] \notin ActiveMembers
     THEN Finish(h, "refused")
     ELSE call' = [call EXCEPT ![h].pc = "commit"]
  /\ UNCHANGED <<rowVars, chain, auditRevision, auditor>>

-----------------------------------------------------------------------------
(***************************************************************************)
(* What the storage transaction decides about the rows: "apply" them, go   *)
(* round again because the snapshot is "stale", or be "refused".           *)
(***************************************************************************)
(* initialize_first_owner_and_audit *)
OwnerVerdict(h) ==
  IF ownerExists \/ ActiveMembers # {} THEN "refused" ELSE "apply"

(* create_identities_with_seat_limit_and_audit *)
CreateVerdict(h) ==
  IF seatRegistry # call[h].seats \/ seatRegistry.taken # ActiveMembers THEN "stale"
  ELSE IF Cardinality(ActiveMembers) + Cardinality(call[h].targets) > SeatLimit THEN "refused"
  ELSE IF \E m \in call[h].targets : identity[m] # Absent THEN "refused"
  ELSE "apply"

(* update_member_identity_status_and_audit *)
StatusVerdict(h) ==
  IF \/ seatRegistry # call[h].seats
     \/ seatRegistry.taken # ActiveMembers
     \/ identity[Target(h)] # call[h].seen
  THEN "stale" ELSE "apply"

\* Mistake: the update is keyed by the identity and its status alone.
PasswordVerdict_AnyRevision(h) ==
  IF identity[Target(h)].status = "active" THEN "apply" ELSE "refused"

(* update_identity_password_and_audit *)
PasswordVerdict(h) ==
  IF /\ identity[Target(h)].status = "active"
     /\ identity[Target(h)].revision = call[h].seen.revision
  THEN "apply" ELSE "refused"

ActiveKeys(m) == {k \in ApiKey : Holder[k] = m /\ apiKeys[k].status = "active"}

\* Mistake: a member at the limit still gets a key.
KeyVerdict_OneTooMany(h) ==
  CASE Cardinality(ActiveKeys(Holder[Target(h)])) > KeyLimit -> "refused"
    [] apiKeys[Target(h)] # Absent -> "refused"
    [] OTHER -> "apply"

(* insert_api_key_with_limit_and_audit *)
KeyVerdict(h) ==
  CASE Cardinality(ActiveKeys(Holder[Target(h)])) >= KeyLimit -> "refused"
    [] apiKeys[Target(h)] # Absent -> "refused"
    [] OTHER -> "apply"

(* update_api_key_status_and_audit *)
RevokeVerdict(h) ==
  IF apiKeys[Target(h)].revision = call[h].seen.revision
  THEN "apply" ELSE "refused"

Verdict(h) ==
  CASE call[h].kind = "owner" -> OwnerVerdict(h)
    [] call[h].kind = "create" -> CreateVerdict(h)
    [] call[h].kind = "status" -> StatusVerdict(h)
    [] call[h].kind = "password" -> PasswordVerdict(h)
    [] call[h].kind = "key" -> KeyVerdict(h)
    [] call[h].kind = "revoke" -> RevokeVerdict(h)
    [] OTHER -> "apply"

(* The rows after the transaction.  The revision of a password or a key row
   is incremented by the statement, its HMAC was computed from the revision
   the handler had seen. *)
NewIdentities(h) ==
  LET seen == call[h].seen
  IN CASE call[h].kind = "create" ->
            [m \in Member |-> IF m \in call[h].targets THEN Row("active", 0)
                              ELSE identity[m]]
       [] call[h].kind = "status" ->
            [identity EXCEPT ![Target(h)] = Row(call[h].to, seen.revision + 1)]
       [] call[h].kind = "password" ->
            [identity EXCEPT ![Target(h)] = [@ EXCEPT
               !.revision = identity[Target(h)].revision + 1,
               !.seal = <<seen.status, seen.revision + 1>>]]
       [] OTHER -> identity

NewKeys(h) ==
  LET seen == call[h].seen
  IN CASE call[h].kind = "key" ->
            [apiKeys EXCEPT ![Target(h)] = Row("active", 0)]
       [] call[h].kind = "revoke" ->
            [apiKeys EXCEPT ![Target(h)] =
               [status |-> "revoked", revision |-> @.revision + 1,
                seal |-> <<"revoked", seen.revision + 1>>]]
       [] OTHER -> apiKeys

Seated(h) == call[h].kind \in {"create", "status"}
NewSeats(h) ==
  IF Seated(h) THEN [taken |-> NextSeats(h), revision |-> call[h].seats.revision + 1]
               ELSE seatRegistry

(* The registry the handler sealed must describe the rows as they now are. *)
RegistryMatches(h) ==
  Seated(h) => NextSeats(h) = ActiveIn(NewIdentities(h))

-----------------------------------------------------------------------------
(***************************************************************************)
(* The audit chain, appended to in the transaction of the change.           *)
(***************************************************************************)
NewEvents(h) ==
  LET n == Cardinality(call[h].targets)
      first == call[h].tail
  IN [i \in 1..n |->
       [by |-> h, sequence |-> first.sequence + i,
        previous |-> IF i = 1 THEN first
                     ELSE [by |-> h, sequence |-> first.sequence + i - 1]]]

\* Mistake: the events are appended wherever the chain ends now.
TailUnchanged_Unchecked(h) == TRUE

(* append_audit_events: the tail is compared under the gate. *)
TailUnchanged(h) == ChainTail = call[h].tail

AppendEvents(h) ==
  /\ chain' = chain \o NewEvents(h)
  /\ auditRevision' = auditRevision + Cardinality(call[h].targets)

(* A conflict: a handler that computed the registry reads again, the others
   only seal their event again. *)
TryAgain(h) ==
  IF call[h].tries + 1 = Retries THEN Finish(h, "exhausted")
  ELSE call' = [call EXCEPT ![h] = [@ EXCEPT
         !.tries = call[h].tries + 1,
         !.pc = CASE call[h].kind = "create" -> "count"
                  [] call[h].kind = "status" -> "read"
                  [] OTHER -> "prepare"]]

Commit(h) ==
  /\ call[h].pc = "commit"
  /\ Verdict(h) = "apply" /\ RegistryMatches(h) /\ TailUnchanged(h)
  /\ ownerExists' = (ownerExists \/ call[h].kind = "owner")
  /\ identity' = NewIdentities(h)
  /\ apiKeys' = NewKeys(h)
  /\ seatRegistry' = NewSeats(h)
  /\ AppendEvents(h)
  /\ Finish(h, "applied")
  /\ UNCHANGED auditor

Rollback(h) ==
  /\ call[h].pc = "commit"
  /\ \/ Verdict(h) = "refused" /\ Finish(h, "refused")
     \/ Verdict(h) = "stale" /\ TryAgain(h)
     \/ /\ Verdict(h) = "apply"
        /\ ~(RegistryMatches(h) /\ TailUnchanged(h))
        /\ TryAgain(h)
  /\ UNCHANGED <<rowVars, chain, auditRevision, auditor>>

-----------------------------------------------------------------------------
(***************************************************************************)
(* verified_audit_events: three reads that are not one snapshot.            *)
(***************************************************************************)
ReadGate ==
  /\ auditor.pc = "idle"
  /\ auditor' = [auditor EXCEPT !.pc = "events", !.revision = auditRevision]
  /\ UNCHANGED <<rowVars, chain, auditRevision, call>>

ReadEvents ==
  /\ auditor.pc = "events"
  /\ auditor' = [auditor EXCEPT !.pc = "verify", !.events = chain]
  /\ UNCHANGED <<rowVars, chain, auditRevision, call>>

(* verify_audit_chain *)
ChainVerifies(events, revision) ==
  /\ Len(events) = revision
  /\ \A i \in 1..Len(events) :
       /\ events[i].sequence = i
       /\ events[i].previous =
            IF i = 1 THEN EmptyTail
            ELSE [by |-> events[i-1].by, sequence |-> events[i-1].sequence]

ReadingSettled == auditRevision = auditor.revision

VerifyChain ==
  /\ auditor.pc = "verify"
  /\ auditor' =
       IF ~ReadingSettled /\ auditor.tries + 1 < Retries
       THEN [NoAudit EXCEPT !.tries = auditor.tries + 1]
       ELSE IF ~ReadingSettled THEN [NoAudit EXCEPT !.pc = "conflict"]
       ELSE [NoAudit EXCEPT !.pc =
               IF ChainVerifies(auditor.events, auditor.revision) THEN "valid" ELSE "invalid"]
  /\ UNCHANGED <<rowVars, chain, auditRevision, call>>

-----------------------------------------------------------------------------
Handle(h) ==
  \/ InitializeOwner(h) \/ CreateMembers(h) \/ UpdateMemberStatus(h)
  \/ ApplyPassword(h) \/ CreateApiKey(h) \/ RevokeApiKey(h)
  \/ AppendAuditEvent(h)
  \/ ReadTarget(h) \/ CountSeats(h) \/ PrepareAudit(h) \/ ValidateActor(h)
  \/ Commit(h) \/ Rollback(h)

StoreNext == (\E h \in Caller : Handle(h)) \/ ReadGate \/ ReadEvents \/ VerifyChain

StoreSpec == StoreInit /\ [][StoreNext]_storeVars

-----------------------------------------------------------------------------
(***************************************************************************)
(* Properties.                                                              *)
(***************************************************************************)
(* The sealed registry of seats always describes the active members, so no
   handler ever finds the data "integrity" broken, and the license's limits
   on seats and on keys per member hold, however requests that counted
   before each other's commit are interleaved. *)
LimitsRespected ==
  /\ seatRegistry.taken = ActiveMembers
  /\ \A h \in Caller : call[h].result # "integrity"
  /\ Cardinality(ActiveMembers) <= SeatLimit
  /\ \A m \in Member : Cardinality(ActiveKeys(m)) <= KeyLimit

(* The HMAC of every row covers the row as stored: a password reset, a change
   of status and a revocation computed from the same old row never combine
   into a row that authentication would reject. *)
RowsSealed ==
  /\ \A m \in Member :
       identity[m].seal = <<identity[m].status, identity[m].revision>>
  /\ \A k \in ApiKey :
       apiKeys[k].seal = <<apiKeys[k].status, apiKeys[k].revision>>

(* The audit chain verifies at every moment, and a reader that verifies what
   it read in three statements never reports a broken chain because writers
   were at work. *)
AuditVerifies == ChainVerifies(chain, auditRevision) /\ auditor.pc # "invalid"

(* Handlers that race on members, keys and the audit chain leave limits that
   hold, rows whose seals match and a chain that verifies. *)
StoreSound == LimitsRespected /\ RowsSealed /\ AuditVerifies
=============================================================================
