------------------------ MODULE Administration_proofs ------------------------
(***************************************************************************)
(* Proofs about what a control administers: members, API keys and the      *)
(* audit chain (AuditedStore), the registry of runners (RunnerRegistry),   *)
(* which models a member may use (ModelAccess), the plugins of providers   *)
(* (PluginStore) and the upstream's accounts, credentials and connections  *)
(* (UpstreamAccounts), for any set of handlers and any limits.             *)
(*                                                                         *)
(* The argument is the same in all of them.  What a handler read may be    *)
(* outdated when its transaction runs.  The invariants therefore say       *)
(* nothing of how it relates to the tables: they say what the handler      *)
(* concluded from it, and the comparison in the transaction makes the      *)
(* conclusion one about the tables.                                        *)
(***************************************************************************)
EXTENDS AuditedStore, RunnerRegistry, ModelAccess, PluginStore, UpstreamAccounts,
        FiniteSetTheorems, TLAPS

(***************************************************************************)
(* Members, API keys and the audit chain.                                  *)
(***************************************************************************)
RowStatus == {"absent", "active", "disabled", "deleted", "revoked"}
RowType == [status : RowStatus, revision : Nat, seal : RowStatus \X Nat]
SeatType == [taken : SUBSET Member, revision : Nat]
TailType == [by : Caller \cup {NoCaller}, sequence : Nat]
EventType == [by : Caller, sequence : Nat, previous : TailType]

CallPhase == {"idle", "read", "count", "prepare", "validate", "commit"}
CallKind == {"none", "owner", "create", "status", "password", "key", "revoke", "note"}

CallType ==
  [pc : CallPhase, kind : CallKind, targets : SUBSET (Member \cup ApiKey \cup {NoCaller}),
   to : RowStatus \cup {"none"}, seen : RowType, seats : SeatType, tail : TailType,
   tries : Nat, result : {"none", "refused", "exhausted", "applied"}]

Ready == {"prepare", "validate", "commit"}

\* What a handler has concluded from what it read.
Concluded(c) ==
  /\ c.kind = "create" => c.targets \subseteq Member /\ c.to = "active"
  /\ c.kind \in {"status", "password"} => \E m \in Member : c.targets = {m}
  /\ c.kind \in {"key", "revoke"} => \E k \in ApiKey : c.targets = {k}
  /\ c.kind = "status" => c.to \in RowStatus
  /\ c.pc = "count" => c.kind \in {"create", "status"}
  /\ c.kind = "password" /\ c.pc \in Ready => c.seen.status = "active"
  /\ c.kind = "status" /\ c.to = "active" /\ c.pc \in Ready =>
       Cardinality(c.seats.taken \cup c.targets) <= SeatLimit

CallRecord == {c \in CallType : Concluded(c)}

AuditType ==
  [pc : {"idle", "events", "verify", "conflict", "valid"}, revision : Nat,
   events : Seq(EventType), tries : Nat]

StoreTypeOK ==
  /\ ownerExists \in BOOLEAN
  /\ identity \in [Member -> RowType]
  /\ seatRegistry \in SeatType
  /\ apiKeys \in [ApiKey -> RowType]
  /\ chain \in Seq(EventType)
  /\ auditRevision \in Nat
  /\ call \in [Caller -> CallRecord]
  /\ auditor \in AuditType

\* The gate was read before the events, and the chain only grows: if the gate
\* has not moved since, the events are those it counted.
AuditorInv ==
  /\ auditor.pc \in {"events", "verify"} => auditor.revision <= auditRevision
  /\ auditor.pc = "verify" =>
       /\ ChainVerifies(auditor.events, Len(auditor.events))
       /\ auditor.revision <= Len(auditor.events) /\ Len(auditor.events) <= auditRevision

SeatsInv ==
  /\ seatRegistry.taken = ActiveMembers
  /\ Cardinality(ActiveMembers) <= SeatLimit

KeysInv == \A m \in Member : Cardinality(ActiveKeys(m)) <= KeyLimit

StoreInv ==
  /\ StoreTypeOK /\ SeatsInv /\ KeysInv /\ RowsSealed
  /\ ChainVerifies(chain, auditRevision) /\ AuditorInv

-----------------------------------------------------------------------------
LEMMA FiniteTargets ==
  ASSUME NEW S \in SUBSET (Member \cup ApiKey \cup {NoCaller})
  PROVE  IsFiniteSet(S) /\ Cardinality(S) \in Nat
<1>1. IsFiniteSet(Member \cup ApiKey) BY StoreAssumption, FS_Union
<1>2. IsFiniteSet(Member \cup ApiKey \cup {NoCaller}) BY <1>1, FS_AddElement
<1> QED BY <1>2, FS_Subset, FS_CardinalityType

LEMMA SmallerSet ==
  ASSUME NEW S \in SUBSET (Member \cup ApiKey \cup {NoCaller}), NEW T \in SUBSET S
  PROVE  Cardinality(T) \in Nat /\ Cardinality(S) \in Nat /\ Cardinality(T) <= Cardinality(S)
BY FiniteTargets, FS_Subset

\* A union is not larger than its parts together.
LEMMA UnionBound ==
  ASSUME NEW S \in SUBSET (Member \cup ApiKey \cup {NoCaller}),
         NEW T \in SUBSET (Member \cup ApiKey \cup {NoCaller})
  PROVE  /\ Cardinality(S) \in Nat /\ Cardinality(T) \in Nat /\ Cardinality(S \cup T) \in Nat
         /\ Cardinality(S \cup T) <= Cardinality(S) + Cardinality(T)
<1>1. IsFiniteSet(S) /\ IsFiniteSet(T) BY FiniteTargets
<1>2. Cardinality(S \cup T) = Cardinality(S) + Cardinality(T) - Cardinality(S \cap T)
  BY <1>1, FS_Union
<1>3. Cardinality(S \cap T) \in Nat BY FiniteTargets
<1>4. Cardinality(S \cup T) \in Nat /\ Cardinality(S) \in Nat /\ Cardinality(T) \in Nat
  BY FiniteTargets
<1> QED BY <1>2, <1>3, <1>4

LEMMA OneTarget ==
  ASSUME NEW h \in Caller, NEW x, call[h].targets = {x}
  PROVE  Target(h) = x
BY DEF Target

\* The tail of a chain that verifies.
LEMMA TailOfChain ==
  ASSUME chain \in Seq(EventType), auditRevision \in Nat, ChainVerifies(chain, auditRevision)
  PROVE  /\ ChainTail \in TailType
         /\ ChainTail.sequence = Len(chain)
         /\ Len(chain) > 0 =>
              ChainTail = [by |-> chain[Len(chain)].by, sequence |-> chain[Len(chain)].sequence]
<1>1. CASE chain = <<>>
  BY <1>1 DEF ChainTail, EmptyTail, TailType
<1>2. CASE chain # <<>>
  <2>1. Len(chain) \in Nat /\ Len(chain) > 0 BY <1>2
  <2>2. chain[Len(chain)] \in EventType BY <2>1
  <2>3. \A i \in 1..Len(chain) : chain[i].sequence = i BY DEF ChainVerifies
  <2>5. chain[Len(chain)].sequence = Len(chain) BY <2>1, <2>3
  <2>4. ChainTail = [by |-> chain[Len(chain)].by, sequence |-> chain[Len(chain)].sequence]
    BY <1>2 DEF ChainTail, Last
  <2> QED BY <2>1, <2>2, <2>5, <2>4 DEF EventType, TailType
<1> QED BY <1>1, <1>2

-----------------------------------------------------------------------------
LEMMA StoreInitially == StoreInit => StoreInv
<1> SUFFICES ASSUME StoreInit PROVE StoreInv OBVIOUS
<1>1. Absent \in RowType BY DEF Absent, RowType, RowStatus
<1>2. NoSeats \in SeatType BY DEF NoSeats, SeatType
<1>3. EmptyTail \in TailType BY DEF EmptyTail, TailType
<1>4. NoCall \in CallType
  BY <1>1, <1>2, <1>3 DEF NoCall, CallType, CallPhase, CallKind
<1>5. NoCall \in CallRecord BY <1>4 DEF CallRecord, Concluded, NoCall
<1>6. NoAudit \in AuditType BY DEF NoAudit, AuditType
<1>7. StoreTypeOK
  <2>1. call \in [Caller -> CallRecord] BY <1>5 DEF StoreInit
  <2>2. identity \in [Member -> RowType] /\ apiKeys \in [ApiKey -> RowType] BY <1>1 DEF StoreInit
  <2>3. ownerExists \in BOOLEAN BY Zenon DEF StoreInit
  <2>5. chain \in Seq(EventType) BY DEF StoreInit
  <2>6. auditRevision \in Nat BY DEF StoreInit
  <2>4. seatRegistry \in SeatType /\ auditor \in AuditType BY <1>2, <1>6 DEF StoreInit
  <2> QED BY <2>1, <2>2, <2>3, <2>4, <2>5, <2>6 DEF StoreTypeOK
<1>8. ActiveMembers = {} BY DEF StoreInit, ActiveMembers, ActiveIn, Absent
<1>9. SeatsInv BY <1>8, FS_EmptySet, StoreAssumption DEF StoreInit, SeatsInv, NoSeats
<1>10. KeysInv
  <2>1. \A m \in Member : ActiveKeys(m) = {} BY DEF StoreInit, ActiveKeys, Absent
  <2> QED BY <2>1, FS_EmptySet, StoreAssumption DEF KeysInv
<1>11. RowsSealed BY DEF StoreInit, RowsSealed, Absent
<1>12. ChainVerifies(chain, auditRevision) BY DEF StoreInit, ChainVerifies
<1>13. AuditorInv BY DEF StoreInit, AuditorInv, NoAudit
<1> QED BY <1>7, <1>9, <1>10, <1>11, <1>12, <1>13 DEF StoreInv

\* A step of a handler that leaves the tables alone.
LEMMA HandlerStep ==
  ASSUME StoreInv, NEW h \in Caller, NEW c \in CallRecord,
         call' = [call EXCEPT ![h] = c],
         UNCHANGED <<rowVars, chain, auditRevision, auditor>>
  PROVE  StoreInv'
<1>1. StoreTypeOK' BY DEF StoreInv, StoreTypeOK, rowVars
<1>2. SeatsInv' /\ KeysInv' /\ RowsSealed'
  BY DEF StoreInv, SeatsInv, KeysInv, RowsSealed, ActiveMembers, ActiveIn, ActiveKeys, rowVars
<1>3. ChainVerifies(chain, auditRevision)' /\ AuditorInv'
  BY DEF StoreInv, AuditorInv, ChainVerifies
<1> QED BY <1>1, <1>2, <1>3 DEF StoreInv

LEMMA EndedCall ==
  ASSUME NEW r \in {"none", "refused", "exhausted", "applied"}
  PROVE  [NoCall EXCEPT !.result = r] \in CallRecord
<1>1. Absent \in RowType BY DEF Absent, RowType, RowStatus
<1>2. NoSeats \in SeatType BY DEF NoSeats, SeatType
<1>3. EmptyTail \in TailType BY DEF EmptyTail, TailType
<1>4. [NoCall EXCEPT !.result = r] \in CallType
  BY <1>1, <1>2, <1>3 DEF NoCall, CallType, CallPhase, CallKind
<1> QED BY <1>4 DEF CallRecord, Concluded, NoCall

LEMMA FinishStep ==
  ASSUME StoreInv, NEW h \in Caller, NEW r \in {"none", "refused", "exhausted", "applied"},
         Finish(h, r), UNCHANGED <<rowVars, chain, auditRevision, auditor>>
  PROVE  StoreInv'
<1>1. [NoCall EXCEPT !.result = r] \in CallRecord BY EndedCall
<1> QED BY <1>1, HandlerStep DEF Finish

-----------------------------------------------------------------------------
(* The handlers before their transaction. *)

LEMMA BeginStep ==
  ASSUME StoreInv, NEW h \in Caller, NEW kind \in CallKind, NEW to \in RowStatus \cup {"none"},
         NEW targets \in SUBSET (Member \cup ApiKey \cup {NoCaller}),
         kind = "create" => targets \subseteq Member /\ to = "active",
         kind \in {"status", "password"} => \E m \in Member : targets = {m},
         kind \in {"key", "revoke"} => \E k \in ApiKey : targets = {k},
         kind = "status" => to \in RowStatus,
         Begin(h, kind, targets, to)
  PROVE  StoreInv'
<1> DEFINE c == [NoCall EXCEPT !.pc = IF kind = "create" THEN "count" ELSE "read",
                               !.kind = kind, !.targets = targets, !.to = to]
<1>1. Absent \in RowType BY DEF Absent, RowType, RowStatus
<1>2. NoSeats \in SeatType BY DEF NoSeats, SeatType
<1>3. EmptyTail \in TailType BY DEF EmptyTail, TailType
<1>4. c \in CallType
  BY <1>1, <1>2, <1>3 DEF NoCall, CallType, CallPhase
<1>5. /\ c.kind = kind /\ c.targets = targets /\ c.to = to /\ c.pc \notin Ready
      /\ c.pc = "count" => kind = "create"
  BY DEF NoCall, Ready
<1>6. call' = [call EXCEPT ![h] = c] /\ UNCHANGED <<rowVars, chain, auditRevision, auditor>>
  BY DEF Begin
<1> HIDE DEF c
<1>7. c \in CallRecord BY <1>4, <1>5 DEF CallRecord, Concluded
<1> QED BY <1>6, <1>7, HandlerStep

LEMMA BeginsStep ==
  ASSUME StoreInv, NEW h \in Caller,
         \/ InitializeOwner(h) \/ CreateMembers(h) \/ UpdateMemberStatus(h)
         \/ ApplyPassword(h) \/ CreateApiKey(h) \/ RevokeApiKey(h) \/ AppendAuditEvent(h)
  PROVE  StoreInv'
<1>1. CASE InitializeOwner(h)
  BY <1>1, BeginStep DEF InitializeOwner, CallKind, RowStatus
<1>2. CASE CreateMembers(h)
  <2>1. PICK batch \in SUBSET Member : Begin(h, "create", batch, "active")
    BY <1>2 DEF CreateMembers
  <2> QED BY <2>1, BeginStep DEF CallKind, RowStatus
<1>3. CASE UpdateMemberStatus(h)
  <2>1. PICK m \in Member, s \in {"active", "disabled", "deleted"} : Begin(h, "status", {m}, s)
    BY <1>3 DEF UpdateMemberStatus
  <2> QED BY <2>1, BeginStep DEF CallKind, RowStatus
<1>4. CASE ApplyPassword(h)
  <2>1. PICK m \in Member : Begin(h, "password", {m}, "active") BY <1>4 DEF ApplyPassword
  <2> QED BY <2>1, BeginStep DEF CallKind, RowStatus
<1>5. CASE CreateApiKey(h)
  <2>1. PICK k \in ApiKey : Begin(h, "key", {k}, "active") BY <1>5 DEF CreateApiKey
  <2> QED BY <2>1, BeginStep DEF CallKind, RowStatus
<1>6. CASE RevokeApiKey(h)
  <2>1. PICK k \in ApiKey : Begin(h, "revoke", {k}, "revoked") BY <1>6 DEF RevokeApiKey
  <2> QED BY <2>1, BeginStep DEF CallKind, RowStatus
<1>7. CASE AppendAuditEvent(h)
  BY <1>7, BeginStep DEF AppendAuditEvent, CallKind
<1> QED BY <1>1, <1>2, <1>3, <1>4, <1>5, <1>6, <1>7

LEMMA ReadTargetStep ==
  ASSUME StoreInv, NEW h \in Caller, ReadTarget(h)
  PROVE  StoreInv'
<1> DEFINE kind == call[h].kind
           row == CASE kind \in {"status", "password"} -> identity[Target(h)]
                    [] kind = "revoke" -> apiKeys[Target(h)]
                    [] OTHER -> Absent
           found == CASE kind = "status" -> row.status \in {"active", "disabled"}
                      [] kind \in {"password", "revoke"} -> row.status = "active"
                      [] OTHER -> TRUE
           c == [call[h] EXCEPT
                  !.seen = row,
                  !.kind = IF kind = "status" /\ row.status = call[h].to THEN "note" ELSE kind,
                  !.pc = IF kind = "status" /\ row.status # call[h].to THEN "count" ELSE "prepare"]
<1>1. call \in [Caller -> CallRecord] /\ call[h] \in CallRecord BY DEF StoreInv, StoreTypeOK
<1>2. call[h] \in CallType /\ Concluded(call[h]) BY <1>1 DEF CallRecord
<1>3. UNCHANGED <<rowVars, chain, auditRevision, auditor>> BY DEF ReadTarget
<1>4. row \in RowType
  <2>1. Absent \in RowType BY DEF Absent, RowType, RowStatus
  <2>2. kind \in {"status", "password"} => identity[Target(h)] \in RowType
    BY <1>2, OneTarget DEF Concluded, StoreInv, StoreTypeOK
  <2>3. kind = "revoke" => apiKeys[Target(h)] \in RowType
    BY <1>2, OneTarget DEF Concluded, StoreInv, StoreTypeOK
  <2> QED BY <2>1, <2>2, <2>3
<1>5. CASE ~found
  <2>1. Finish(h, "refused") BY <1>5 DEF ReadTarget
  <2> QED BY <1>3, <2>1, FinishStep
<1>6. CASE found
  <2>1. call' = [call EXCEPT ![h] = c] BY <1>6, <1>1 DEF ReadTarget
  <2>2. kind = "password" => row.status = "active" BY <1>6
  <2>3. /\ c \in CallType
        /\ c.kind \in {kind, "note"} /\ c.seen = row
        /\ c.targets = call[h].targets /\ c.to = call[h].to
        /\ c.kind = "status" => c.pc = "count"
        /\ c.pc = "count" => c.kind = "status"
    <3> HIDE DEF row
    <3> QED BY <1>2, <1>4 DEF CallType, CallPhase, CallKind
  <2> HIDE DEF c, row, found
  <2>4. c \in CallRecord BY <1>2, <2>2, <2>3 DEF CallRecord, Concluded, Ready
  <2> QED BY <1>3, <2>1, <2>4, HandlerStep
<1> QED BY <1>5, <1>6

LEMMA CountSeatsStep ==
  ASSUME StoreInv, NEW h \in Caller, CountSeats(h)
  PROVE  StoreInv'
<1> DEFINE c == [call[h] EXCEPT !.seats = seatRegistry, !.pc = "prepare"]
           others == IF call[h].kind = "create" THEN seatRegistry.taken
                     ELSE seatRegistry.taken \ call[h].targets
           after == Cardinality(others) + Cardinality(call[h].targets)
<1>1. call \in [Caller -> CallRecord] /\ call[h] \in CallRecord BY DEF StoreInv, StoreTypeOK
<1>2. call[h] \in CallType /\ Concluded(call[h]) BY <1>1 DEF CallRecord
<1>3. UNCHANGED <<rowVars, chain, auditRevision, auditor>> BY DEF CountSeats
<1>4. seatRegistry.taken = ActiveMembers /\ seatRegistry \in SeatType
  BY DEF StoreInv, StoreTypeOK, SeatsInv
<1>5. CASE call[h].to = "active" /\ after > SeatLimit
  <2>1. Finish(h, "refused") BY <1>4, <1>5 DEF CountSeats
  <2> QED BY <1>3, <2>1, FinishStep
<1>6. CASE ~(call[h].to = "active" /\ after > SeatLimit)
  <2>1. call' = [call EXCEPT ![h] = c] BY <1>4, <1>6, <1>1 DEF CountSeats
  <2>2. /\ c \in CallType /\ c.kind = call[h].kind /\ c.seats = seatRegistry /\ c.pc = "prepare"
        /\ c.targets = call[h].targets /\ c.to = call[h].to /\ c.seen = call[h].seen
    BY <1>2, <1>4 DEF CallType, CallPhase
  <2>3. call[h].pc = "count" BY DEF CountSeats
  <2>4. call[h].kind = "status" /\ call[h].to = "active" =>
          Cardinality(seatRegistry.taken \cup call[h].targets) <= SeatLimit
    <3> SUFFICES ASSUME call[h].kind = "status", call[h].to = "active"
                 PROVE  Cardinality(seatRegistry.taken \cup call[h].targets) <= SeatLimit
      OBVIOUS
    <3>1. /\ seatRegistry.taken \ call[h].targets \in SUBSET (Member \cup ApiKey \cup {NoCaller})
          /\ call[h].targets \in SUBSET (Member \cup ApiKey \cup {NoCaller})
      BY <1>2, <1>4 DEF SeatType, CallType
    <3>2. (seatRegistry.taken \ call[h].targets) \cup call[h].targets
            = seatRegistry.taken \cup call[h].targets
      OBVIOUS
    <3>5. after = Cardinality(seatRegistry.taken \ call[h].targets) + Cardinality(call[h].targets)
      OBVIOUS
    <3> HIDE DEF after
    <3>3. /\ after \in Nat
          /\ Cardinality(seatRegistry.taken \cup call[h].targets) \in Nat
          /\ Cardinality(seatRegistry.taken \cup call[h].targets) <= after
      <4> DEFINE S == seatRegistry.taken \ call[h].targets
                 T == call[h].targets
      <4>1. S \in SUBSET (Member \cup ApiKey \cup {NoCaller})
            /\ T \in SUBSET (Member \cup ApiKey \cup {NoCaller})
            /\ S \cup T = seatRegistry.taken \cup call[h].targets
            /\ after = Cardinality(S) + Cardinality(T)
        BY <3>1, <3>2, <3>5
      <4> HIDE DEF S, T
      <4>2. /\ Cardinality(S) \in Nat /\ Cardinality(T) \in Nat /\ Cardinality(S \cup T) \in Nat
            /\ Cardinality(S \cup T) <= Cardinality(S) + Cardinality(T)
        BY <4>1, UnionBound
      <4>3. after \in Nat /\ Cardinality(S \cup T) \in Nat /\ Cardinality(S \cup T) <= after
        BY <4>1, <4>2
      <4> QED BY <4>1, <4>3
    <3>4. ~(after > SeatLimit) BY <1>6
    <3> QED BY <3>3, <3>4, StoreAssumption
  <2> HIDE DEF c
  <2>5. c \in CallRecord
    BY <1>2, <2>2, <2>3, <2>4 DEF CallRecord, Concluded
  <2> QED BY <1>3, <2>1, <2>5, HandlerStep
<1> QED BY <1>5, <1>6

LEMMA PrepareStep ==
  ASSUME StoreInv, NEW h \in Caller, PrepareAudit(h)
  PROVE  StoreInv'
<1> DEFINE c == [call[h] EXCEPT !.tail = ChainTail, !.pc = "validate"]
<1>1. call \in [Caller -> CallRecord] /\ call[h] \in CallRecord BY DEF StoreInv, StoreTypeOK
<1>2. call[h] \in CallType /\ Concluded(call[h]) /\ call[h].pc = "prepare"
  BY <1>1 DEF CallRecord, PrepareAudit
<1>3. ChainTail \in TailType BY TailOfChain DEF StoreInv, StoreTypeOK
<1>4. /\ c \in CallType /\ c.kind = call[h].kind /\ c.targets = call[h].targets
      /\ c.to = call[h].to /\ c.seen = call[h].seen /\ c.seats = call[h].seats /\ c.pc = "validate"
  BY <1>2, <1>3 DEF CallType, CallPhase
<1>5. call' = [call EXCEPT ![h] = c] /\ UNCHANGED <<rowVars, chain, auditRevision, auditor>>
  BY <1>1 DEF PrepareAudit
<1> HIDE DEF c
<1>6. c \in CallRecord BY <1>2, <1>4 DEF CallRecord, Concluded, Ready
<1> QED BY <1>5, <1>6, HandlerStep

LEMMA ValidateStep ==
  ASSUME StoreInv, NEW h \in Caller, ValidateActor(h)
  PROVE  StoreInv'
<1> DEFINE c == [call[h] EXCEPT !.pc = "commit"]
<1>1. call \in [Caller -> CallRecord] /\ call[h] \in CallRecord BY DEF StoreInv, StoreTypeOK
<1>2. call[h] \in CallType /\ Concluded(call[h]) /\ call[h].pc = "validate"
  BY <1>1 DEF CallRecord, ValidateActor
<1>3. UNCHANGED <<rowVars, chain, auditRevision, auditor>> BY DEF ValidateActor
<1>4. /\ c \in CallType /\ c.kind = call[h].kind /\ c.targets = call[h].targets
      /\ c.to = call[h].to /\ c.seen = call[h].seen /\ c.seats = call[h].seats /\ c.pc = "commit"
  BY <1>2 DEF CallType, CallPhase
<1>5. Finish(h, "refused") \/ call' = [call EXCEPT ![h] = c]
  BY <1>1 DEF ValidateActor
<1> HIDE DEF c
<1>6. c \in CallRecord BY <1>2, <1>4 DEF CallRecord, Concluded, Ready
<1> QED BY <1>3, <1>5, <1>6, HandlerStep, FinishStep

LEMMA TryAgainStep ==
  ASSUME StoreInv, NEW h \in Caller, call[h].pc = "commit", TryAgain(h),
         UNCHANGED <<rowVars, chain, auditRevision, auditor>>
  PROVE  StoreInv'
<1> DEFINE next == CASE call[h].kind = "create" -> "count"
                     [] call[h].kind = "status" -> "read"
                     [] OTHER -> "prepare"
           c == [call[h] EXCEPT !.tries = call[h].tries + 1, !.pc = next]
<1>1. call \in [Caller -> CallRecord] /\ call[h] \in CallRecord BY DEF StoreInv, StoreTypeOK
<1>2. call[h] \in CallType /\ Concluded(call[h]) BY <1>1 DEF CallRecord
<1>3. /\ next \in {"count", "read", "prepare"}
      /\ next = "count" => call[h].kind = "create"
      /\ call[h].kind = "status" => next = "read"
  OBVIOUS
<1>4. Finish(h, "exhausted") \/ call' = [call EXCEPT ![h] = c]
  BY Zenon DEF TryAgain
<1> HIDE DEF next
<1>7. next \in CallPhase /\ call[h].tries + 1 \in Nat BY <1>2, <1>3 DEF CallType, CallPhase
<1>5. /\ c \in CallType /\ c.kind = call[h].kind /\ c.targets = call[h].targets
      /\ c.to = call[h].to /\ c.seen = call[h].seen /\ c.seats = call[h].seats /\ c.pc = next
  BY <1>2, <1>7 DEF CallType
<1> HIDE DEF c
<1>6. c \in CallRecord BY <1>2, <1>3, <1>5 DEF CallRecord, Concluded, Ready
<1> QED BY <1>4, <1>6, HandlerStep, FinishStep

LEMMA RollbackStep ==
  ASSUME StoreInv, NEW h \in Caller, Rollback(h)
  PROVE  StoreInv'
<1>1. call[h].pc = "commit" /\ UNCHANGED <<rowVars, chain, auditRevision, auditor>>
  BY DEF Rollback
<1>2. Finish(h, "refused") \/ TryAgain(h) BY DEF Rollback
<1> QED BY <1>1, <1>2, FinishStep, TryAgainStep

-----------------------------------------------------------------------------
(* The transaction. *)

\* Events sealed onto the tail as it is extend a chain that verifies.
LEMMA AppendVerifies ==
  ASSUME StoreInv, NEW h \in Caller, TailUnchanged(h), AppendEvents(h)
  PROVE  /\ chain' \in Seq(EventType) /\ auditRevision' \in Nat
         /\ auditRevision <= auditRevision'
         /\ ChainVerifies(chain, auditRevision)'
<1> DEFINE n == Cardinality(call[h].targets)
           e == NewEvents(h)
           L == Len(chain)
<1>1. /\ chain \in Seq(EventType) /\ auditRevision \in Nat /\ ChainVerifies(chain, auditRevision)
      /\ call[h] \in CallType
  BY DEF StoreInv, StoreTypeOK, CallRecord
<1>2. n \in Nat BY <1>1, FiniteTargets DEF CallType
<1>3. /\ call[h].tail = ChainTail /\ ChainTail \in TailType /\ ChainTail.sequence = L
      /\ L > 0 => ChainTail = [by |-> chain[L].by, sequence |-> chain[L].sequence]
      /\ L = 0 => ChainTail = EmptyTail
  BY <1>1, TailOfChain DEF TailUnchanged, ChainTail
<1>4. e = [i \in 1..n |->
             [by |-> h, sequence |-> L + i,
              previous |-> IF i = 1 THEN ChainTail ELSE [by |-> h, sequence |-> L + i - 1]]]
  BY <1>3 DEF NewEvents
<1>5. L \in Nat /\ L = auditRevision BY <1>1 DEF ChainVerifies
<1>6. chain' = chain \o e /\ auditRevision' = auditRevision + n BY DEF AppendEvents
<1> HIDE DEF n, e, L
<1>7. \A i \in 1..n :
        /\ e[i].by = h /\ e[i].sequence = L + i /\ e[i] \in EventType
        /\ e[i].previous = IF i = 1 THEN ChainTail ELSE [by |-> h, sequence |-> L + i - 1]
  BY <1>2, <1>3, <1>4, <1>5 DEF EventType, TailType
<1>8. e \in Seq(EventType) /\ Len(e) = n
  <2>1. e \in [1..n -> EventType] BY <1>4, <1>7
  <2> QED BY <1>2, <2>1
<1>9. chain' \in Seq(EventType) /\ Len(chain') = L + n
  <2>1. Len(chain \o e) = Len(chain) + Len(e) BY <1>1, <1>8
  <2>2. chain \o e \in Seq(EventType) BY <1>1, <1>8
  <2> QED BY <1>6, <1>8, <2>1, <2>2 DEF L
<1>10. \A i \in 1..(L + n) : chain'[i] = IF i <= L THEN chain[i] ELSE e[i - L]
  BY <1>1, <1>6, <1>8 DEF L
<1>11. \A i \in 1..L :
         /\ chain[i].sequence = i
         /\ chain[i].previous = IF i = 1 THEN EmptyTail
                                ELSE [by |-> chain[i-1].by, sequence |-> chain[i-1].sequence]
  BY <1>1 DEF ChainVerifies, L
<1>12. ASSUME NEW i \in 1..(L + n)
       PROVE  /\ chain'[i].sequence = i
              /\ chain'[i].previous = IF i = 1 THEN EmptyTail
                       ELSE [by |-> chain'[i-1].by, sequence |-> chain'[i-1].sequence]
  <2>1. CASE i <= L
    <3>1. chain'[i] = chain[i] BY <1>10, <2>1
    <3>2. i # 1 => chain'[i-1] = chain[i-1] BY <1>2, <1>5, <1>10, <2>1
    <3>3. i \in 1..L BY <1>2, <1>5, <2>1
    <3>4. /\ chain[i].sequence = i
          /\ chain[i].previous = IF i = 1 THEN EmptyTail
                                 ELSE [by |-> chain[i-1].by, sequence |-> chain[i-1].sequence]
      BY <1>11, <3>3
    <3> QED BY <3>1, <3>2, <3>4
  <2>2. CASE i = L + 1
    <3>1. chain'[i] = e[1] /\ 1 \in 1..n BY <1>2, <1>5, <1>10, <2>2
    <3>2. e[1].sequence = L + 1 /\ e[1].previous = ChainTail BY <1>7, <3>1
    <3>3. L > 0 => chain'[i-1] = chain[L] BY <1>2, <1>5, <1>10, <2>2
    <3> QED BY <1>3, <1>5, <2>2, <3>1, <3>2, <3>3
  <2>3. CASE i > L + 1
    <3> DEFINE j == i - L
    <3>1. j \in 1..n /\ j - 1 \in 1..n /\ j # 1 /\ i \in Int /\ i - 1 \in 1..(L + n) /\ i - 1 > L
          /\ i - 1 - L = j - 1 /\ i # 1
      BY <1>2, <1>5, <2>3
    <3>2. chain'[i] = e[j] /\ chain'[i-1] = e[j-1] BY <1>5, <1>10, <2>3, <3>1
    <3>3. /\ e[j].sequence = L + j /\ e[j].previous = [by |-> h, sequence |-> L + j - 1]
          /\ e[j-1].by = h /\ e[j-1].sequence = L + (j - 1)
      BY <1>7, <3>1
    <3>4. L + j = i /\ L + j - 1 = L + (j - 1) BY <1>5, <3>1
    <3> QED BY <3>1, <3>2, <3>3, <3>4
  <2> QED BY <1>2, <1>5, <2>1, <2>2, <2>3
<1>13. ChainVerifies(chain, auditRevision)'
  BY <1>5, <1>6, <1>9, <1>12 DEF ChainVerifies
<1> QED BY <1>2, <1>5, <1>6, <1>9, <1>13

\* What the transaction writes to the members.
LEMMA CommitIdentities ==
  ASSUME StoreInv, NEW h \in Caller, Commit(h)
  PROVE  /\ identity' \in [Member -> RowType]
         /\ \A m \in Member : identity'[m].seal = <<identity'[m].status, identity'[m].revision>>
         /\ call[h].kind \notin {"create", "status"} => ActiveMembers' = ActiveMembers
<1> DEFINE c == call[h]
<1>1. c \in CallType /\ Concluded(c) BY DEF StoreInv, StoreTypeOK, CallRecord
<1>2. /\ c.pc = "commit" /\ Verdict(h) = "apply" /\ identity' = NewIdentities(h)
  BY DEF Commit
<1>3. /\ identity \in [Member -> RowType]
      /\ \A m \in Member : identity[m].seal = <<identity[m].status, identity[m].revision>>
  BY DEF StoreInv, StoreTypeOK, RowsSealed
<1>4. CASE c.kind = "create"
  <2>1. identity' = [m \in Member |-> IF m \in c.targets THEN Row("active", 0) ELSE identity[m]]
    BY <1>2, <1>4 DEF NewIdentities
  <2>2. Row("active", 0) \in RowType /\ Row("active", 0).seal = <<"active", 0>>
        /\ Row("active", 0).status = "active" /\ Row("active", 0).revision = 0
    BY DEF Row, RowType, RowStatus
  <2>3. identity' \in [Member -> RowType] BY <1>3, <2>1, <2>2
  <2> QED BY <1>3, <1>4, <2>1, <2>2, <2>3
<1>5. CASE c.kind = "status"
  <2>1. identity' = [identity EXCEPT ![Target(h)] = Row(c.to, c.seen.revision + 1)]
    BY <1>2, <1>5 DEF NewIdentities
  <2>2. c.to \in RowStatus /\ c.seen.revision + 1 \in Nat
    BY <1>1, <1>5 DEF Concluded, CallType, RowType
  <2>3. PICK r : r = Row(c.to, c.seen.revision + 1) OBVIOUS
  <2>4. r \in RowType /\ r.seal = <<r.status, r.revision>>
    BY <2>2, <2>3 DEF Row, RowType
  <2>5. identity' = [identity EXCEPT ![Target(h)] = r] BY <2>1, <2>3
  <2>6. identity' \in [Member -> RowType] BY <1>3, <2>4, <2>5
  <2> QED BY <1>3, <1>5, <2>4, <2>5, <2>6
<1>6. CASE c.kind = "password"
  <2>1. PICK m \in Member : Target(h) = m BY <1>1, <1>6, OneTarget DEF Concluded
  <2>2. /\ identity[m].status = "active" /\ identity[m].revision = c.seen.revision
        /\ c.seen.status = "active"
    <3>1. Verdict(h) = PasswordVerdict(h) BY <1>6 DEF Verdict
    <3>2. PasswordVerdict(h) = "apply" BY <1>2, <3>1
    <3>3. identity[m].status = "active" /\ identity[m].revision = c.seen.revision
      BY <2>1, <3>2 DEF PasswordVerdict
    <3>4. c.seen.status = "active" BY <1>1, <1>2, <1>6 DEF Concluded, Ready
    <3> QED BY <3>3, <3>4
  <2>3. PICK r : r = [identity[m] EXCEPT !.revision = identity[m].revision + 1,
                                         !.seal = <<c.seen.status, c.seen.revision + 1>>]
    OBVIOUS
  <2>4. identity' = [identity EXCEPT ![m] = r]
    BY <1>2, <1>6, <2>1, <2>3 DEF NewIdentities
  <2>9. PICK n \in Nat, seal \in RowStatus \X Nat :
          /\ n = c.seen.revision + 1 /\ n = identity[m].revision + 1 /\ seal = <<"active", n>>
    <3>1. identity[m].revision + 1 \in Nat BY <1>3 DEF RowType
    <3>2. "active" \in RowStatus BY DEF RowStatus
    <3> QED BY <2>2, <3>1, <3>2
  <2>10. r = [identity[m] EXCEPT !.revision = n, !.seal = seal] BY <2>2, <2>3, <2>9
  <2>11. /\ r \in RowType /\ r.status = "active" /\ r.revision = n /\ r.seal = seal
    BY <1>3, <2>2, <2>10 DEF RowType
  <2>5. /\ r \in RowType /\ r.status = "active" /\ r.revision = c.seen.revision + 1
        /\ r.seal = <<"active", c.seen.revision + 1>>
    BY <2>9, <2>11
  <2>6. identity' \in [Member -> RowType] BY <1>3, <2>4, <2>5
  <2>7. \A x \in Member : identity'[x].status = identity[x].status BY <1>3, <2>2, <2>4, <2>5
  <2>8. ActiveMembers' = ActiveMembers BY <2>7 DEF ActiveMembers, ActiveIn
  <2> QED BY <1>3, <2>4, <2>5, <2>6, <2>8
<1>7. CASE c.kind \notin {"create", "status", "password"}
  <2>1. identity' = identity BY <1>2, <1>7 DEF NewIdentities
  <2>2. ActiveMembers' = ActiveMembers BY <2>1 DEF ActiveMembers, ActiveIn
  <2> QED BY <1>3, <2>1, <2>2
<1> QED BY <1>4, <1>5, <1>6, <1>7

\* The seats: the comparison makes the count of the handler one of the table.
LEMMA CommitSeats ==
  ASSUME StoreInv, NEW h \in Caller, Commit(h)
  PROVE  seatRegistry' \in SeatType /\ SeatsInv'
<1> DEFINE c == call[h]
<1>1. c \in CallType /\ Concluded(c) BY DEF StoreInv, StoreTypeOK, CallRecord
<1>2. /\ c.pc = "commit" /\ Verdict(h) = "apply" /\ RegistryMatches(h)
      /\ identity' = NewIdentities(h) /\ seatRegistry' = NewSeats(h)
  BY DEF Commit
<1>3. /\ seatRegistry \in SeatType /\ seatRegistry.taken = ActiveMembers
      /\ Cardinality(ActiveMembers) <= SeatLimit
  BY DEF StoreInv, StoreTypeOK, SeatsInv
<1>4. CASE c.kind \notin {"create", "status"}
  <2>1. seatRegistry' = seatRegistry BY <1>2, <1>4 DEF NewSeats, Seated
  <2>2. ActiveMembers' = ActiveMembers BY <1>4, CommitIdentities
  <2> QED BY <1>3, <2>1, <2>2 DEF SeatsInv
<1>5. ASSUME c.kind \in {"create", "status"}, Cardinality(NextSeats(h)) <= SeatLimit,
             NextSeats(h) \subseteq Member
      PROVE  seatRegistry' \in SeatType /\ SeatsInv'
  <2>1. NextSeats(h) = ActiveIn(NewIdentities(h)) BY <1>2, <1>5 DEF RegistryMatches, Seated
  <2>2. ActiveMembers' = NextSeats(h) BY <1>2, <2>1 DEF ActiveMembers, ActiveIn
  <2>3. seatRegistry' = [taken |-> NextSeats(h), revision |-> c.seats.revision + 1]
    BY <1>2, <1>5 DEF NewSeats, Seated
  <2>4. c.seats.revision + 1 \in Nat BY <1>1 DEF CallType, SeatType
  <2>5. seatRegistry' \in SeatType BY <1>5, <2>3, <2>4 DEF SeatType
  <2>6. seatRegistry'.taken = ActiveMembers' BY <2>2, <2>3
  <2> QED BY <1>5, <2>2, <2>5, <2>6 DEF SeatsInv
<1>6. CASE c.kind = "create"
  <2>1. CreateVerdict(h) = "apply" BY <1>2, <1>6 DEF Verdict
  <2>2. /\ seatRegistry = c.seats
        /\ ~(Cardinality(ActiveMembers) + Cardinality(c.targets) > SeatLimit)
    BY <2>1 DEF CreateVerdict
  <2>6. c.to = "active" /\ c.targets \subseteq Member BY <1>1, <1>6 DEF Concluded
  <2>7. c.seats.taken = ActiveMembers /\ ActiveMembers \subseteq Member
    BY <1>3, <2>2 DEF SeatType
  <2>3. NextSeats(h) = ActiveMembers \cup c.targets /\ c.targets \subseteq Member
        /\ ActiveMembers \subseteq Member
    BY <2>6, <2>7 DEF NextSeats
  <2>4. /\ Cardinality(ActiveMembers) \in Nat /\ Cardinality(c.targets) \in Nat
        /\ Cardinality(ActiveMembers \cup c.targets) \in Nat
        /\ Cardinality(ActiveMembers \cup c.targets)
             <= Cardinality(ActiveMembers) + Cardinality(c.targets)
    BY <2>3, UnionBound
  <2>5. Cardinality(NextSeats(h)) <= SeatLimit BY <2>2, <2>3, <2>4, StoreAssumption
  <2> QED BY <1>5, <1>6, <2>3, <2>5
<1>7. CASE c.kind = "status"
  <2>1. StatusVerdict(h) = "apply" BY <1>2, <1>7 DEF Verdict
  <2>2. seatRegistry = c.seats BY <2>1 DEF StatusVerdict
  <2>3. c.targets \subseteq Member BY <1>1, <1>7 DEF Concluded
  <2>4. CASE c.to = "active"
    <3>1. NextSeats(h) = c.seats.taken \cup c.targets BY <2>4 DEF NextSeats
    <3>2. Cardinality(c.seats.taken \cup c.targets) <= SeatLimit
      BY <1>1, <1>2, <1>7, <2>4 DEF Concluded, Ready
    <3>3. NextSeats(h) \subseteq Member BY <1>3, <2>2, <2>3, <3>1 DEF SeatType
    <3> QED BY <1>5, <1>7, <3>1, <3>2, <3>3
  <2>5. CASE c.to # "active"
    <3>1. NextSeats(h) = ActiveMembers \ c.targets BY <1>3, <2>2, <2>5 DEF NextSeats
    <3>2. ActiveMembers \subseteq Member /\ NextSeats(h) \subseteq ActiveMembers
      BY <1>3, <3>1 DEF SeatType
    <3>3. /\ Cardinality(NextSeats(h)) \in Nat /\ Cardinality(ActiveMembers) \in Nat
          /\ Cardinality(NextSeats(h)) <= Cardinality(ActiveMembers)
      BY <3>2, SmallerSet
    <3>4. Cardinality(NextSeats(h)) <= SeatLimit BY <1>3, <3>3, StoreAssumption
    <3> QED BY <1>5, <1>7, <3>2, <3>4
  <2> QED BY <2>4, <2>5
<1> QED BY <1>1, <1>4, <1>6, <1>7 DEF CallType

\* What the transaction writes to the keys.
LEMMA CommitKeys ==
  ASSUME StoreInv, NEW h \in Caller, Commit(h)
  PROVE  /\ apiKeys' \in [ApiKey -> RowType]
         /\ \A k \in ApiKey : apiKeys'[k].seal = <<apiKeys'[k].status, apiKeys'[k].revision>>
         /\ KeysInv'
<1> DEFINE c == call[h]
<1>1. c \in CallType /\ Concluded(c) BY DEF StoreInv, StoreTypeOK, CallRecord
<1>2. c.pc = "commit" /\ Verdict(h) = "apply" /\ apiKeys' = NewKeys(h)
  BY DEF Commit
<1>3. /\ apiKeys \in [ApiKey -> RowType]
      /\ \A k \in ApiKey : apiKeys[k].seal = <<apiKeys[k].status, apiKeys[k].revision>>
      /\ \A m \in Member : Cardinality(ActiveKeys(m)) <= KeyLimit
  BY DEF StoreInv, StoreTypeOK, RowsSealed, KeysInv
<1>4. \A m : ActiveKeys(m) \subseteq ApiKey BY DEF ActiveKeys
<1>5. CASE c.kind = "key"
  <2>1. PICK k \in ApiKey : Target(h) = k BY <1>1, <1>5, OneTarget DEF Concluded
  <2>2. KeyVerdict(h) = "apply" BY <1>2, <1>5 DEF Verdict
  <2>3. ~(Cardinality(ActiveKeys(Holder[k])) >= KeyLimit) BY <2>1, <2>2 DEF KeyVerdict
  <2>4. PICK r : r = Row("active", 0) OBVIOUS
  <2>5. r \in RowType /\ r.seal = <<r.status, r.revision>> BY <2>4 DEF Row, RowType, RowStatus
  <2>6. apiKeys' = [apiKeys EXCEPT ![k] = r] BY <1>2, <1>5, <2>1, <2>4 DEF NewKeys
  <2>7. apiKeys' \in [ApiKey -> RowType] BY <1>3, <2>5, <2>6
  <2>8. ASSUME NEW m \in Member PROVE Cardinality(ActiveKeys(m)') <= KeyLimit
    <3>1. CASE m = Holder[k]
      <4>1. ActiveKeys(m)' \subseteq ActiveKeys(m) \cup {k}
        BY <1>3, <2>6 DEF ActiveKeys
      <4>2. PICK S, T : S = ActiveKeys(m) /\ T = ActiveKeys(m)' OBVIOUS
      <4>3. S \subseteq ApiKey /\ T \subseteq S \cup {k} /\ ~(Cardinality(S) >= KeyLimit)
        BY <1>4, <2>3, <3>1, <4>1, <4>2
      <4>4. /\ Cardinality(S) \in Nat /\ IsFiniteSet(S)
        BY <4>3, FiniteTargets
      <4>5. Cardinality(S \cup {k}) \in {Cardinality(S), Cardinality(S) + 1}
        BY <4>4, FS_AddElement
      <4>6. Cardinality(T) \in Nat /\ Cardinality(T) <= Cardinality(S \cup {k})
        BY <4>3, SmallerSet
      <4> QED BY <4>2, <4>3, <4>4, <4>5, <4>6, StoreAssumption
    <3>2. CASE m # Holder[k]
      <4>1. ActiveKeys(m)' = ActiveKeys(m) BY <1>3, <2>6, <3>2 DEF ActiveKeys
      <4> QED BY <1>3, <4>1
    <3> QED BY <3>1, <3>2
  <2>9. KeysInv' BY <2>8 DEF KeysInv
  <2> QED BY <1>3, <2>5, <2>6, <2>7, <2>9
<1>6. CASE c.kind = "revoke"
  <2>1. PICK k \in ApiKey : Target(h) = k BY <1>1, <1>6, OneTarget DEF Concluded
  <2>2. RevokeVerdict(h) = "apply" BY <1>2, <1>6 DEF Verdict
  <2>3. apiKeys[k].revision = c.seen.revision BY <2>1, <2>2 DEF RevokeVerdict
  <2>4. PICK r : r = [status |-> "revoked", revision |-> apiKeys[k].revision + 1,
                      seal |-> <<"revoked", c.seen.revision + 1>>]
    OBVIOUS
  <2>5. r \in RowType /\ r.seal = <<r.status, r.revision>> /\ r.status = "revoked"
    BY <1>3, <2>3, <2>4 DEF RowType, RowStatus
  <2>6. apiKeys' = [apiKeys EXCEPT ![k] = r] BY <1>2, <1>6, <2>1, <2>4 DEF NewKeys
  <2>7. apiKeys' \in [ApiKey -> RowType] BY <1>3, <2>5, <2>6
  <2>8. ASSUME NEW m \in Member PROVE Cardinality(ActiveKeys(m)') <= KeyLimit
    <3>1. ActiveKeys(m)' \subseteq ActiveKeys(m) BY <1>3, <2>5, <2>6 DEF ActiveKeys
    <3>2. PICK S, T : S = ActiveKeys(m) /\ T = ActiveKeys(m)' OBVIOUS
    <3>3. S \subseteq ApiKey /\ T \subseteq S /\ Cardinality(S) <= KeyLimit
      BY <1>3, <1>4, <3>1, <3>2
    <3>4. Cardinality(T) \in Nat /\ Cardinality(S) \in Nat /\ Cardinality(T) <= Cardinality(S)
      BY <3>3, SmallerSet
    <3> QED BY <3>2, <3>3, <3>4, StoreAssumption
  <2>9. KeysInv' BY <2>8 DEF KeysInv
  <2> QED BY <1>3, <2>5, <2>6, <2>7, <2>9
<1>7. CASE c.kind \notin {"key", "revoke"}
  <2>1. apiKeys' = apiKeys BY <1>2, <1>7 DEF NewKeys
  <2>2. KeysInv' BY <1>3, <2>1 DEF KeysInv, ActiveKeys
  <2> QED BY <1>3, <2>1, <2>2
<1> QED BY <1>5, <1>6, <1>7

LEMMA CommitStep ==
  ASSUME StoreInv, NEW h \in Caller, Commit(h)
  PROVE  StoreInv'
<1>1. /\ chain' \in Seq(EventType) /\ auditRevision' \in Nat
      /\ auditRevision <= auditRevision' /\ ChainVerifies(chain, auditRevision)'
  BY AppendVerifies DEF Commit
<1>2. call' \in [Caller -> CallRecord]
  <2>1. call' = [call EXCEPT ![h] = [NoCall EXCEPT !.result = "applied"]] BY DEF Commit, Finish
  <2>2. [NoCall EXCEPT !.result = "applied"] \in CallRecord BY EndedCall
  <2> QED BY <2>1, <2>2 DEF StoreInv, StoreTypeOK
<1>3. ownerExists' \in BOOLEAN BY Zenon DEF Commit
<1>4. auditor' = auditor /\ auditor \in AuditType BY DEF Commit, StoreInv, StoreTypeOK
<1>5. StoreTypeOK'
  BY <1>1, <1>2, <1>3, <1>4, CommitIdentities, CommitSeats, CommitKeys DEF StoreTypeOK
<1>6. RowsSealed' BY CommitIdentities, CommitKeys DEF RowsSealed
<1>7. AuditorInv'
  <2>1. PICK a \in AuditType : a = auditor /\ a = auditor' BY <1>4
  <2>2. PICK n \in Nat, m \in Nat : n = auditRevision /\ m = auditRevision' /\ n <= m
    BY <1>1 DEF StoreInv, StoreTypeOK
  <2>3. a.revision \in Nat /\ Len(a.events) \in Nat BY <2>1 DEF AuditType
  <2>4. a.pc \in {"events", "verify"} => a.revision <= n BY <2>1, <2>2 DEF StoreInv, AuditorInv
  <2>5. a.pc = "verify" =>
          ChainVerifies(a.events, Len(a.events)) /\ a.revision <= Len(a.events) /\ Len(a.events) <= n
    BY <2>1, <2>2 DEF StoreInv, AuditorInv
  <2>6. a.pc \in {"events", "verify"} => a.revision <= m BY <2>2, <2>3, <2>4
  <2>7. a.pc = "verify" => Len(a.events) <= m BY <2>2, <2>3, <2>5
  <2> QED BY <2>1, <2>2, <2>5, <2>6, <2>7 DEF AuditorInv
<1> QED BY <1>1, <1>5, <1>6, <1>7, CommitSeats, CommitKeys DEF StoreInv

-----------------------------------------------------------------------------
(* The auditor. *)

LEMMA AuditorStep ==
  ASSUME StoreInv, ReadGate \/ ReadEvents \/ VerifyChain
  PROVE  StoreInv'
<1>1. UNCHANGED <<rowVars, chain, auditRevision, call>>
  BY DEF ReadGate, ReadEvents, VerifyChain
<1>2. SeatsInv' /\ KeysInv' /\ RowsSealed' /\ ChainVerifies(chain, auditRevision)'
  BY <1>1 DEF StoreInv, SeatsInv, KeysInv, RowsSealed, ActiveMembers, ActiveIn, ActiveKeys, rowVars,
              ChainVerifies
<1>3. /\ auditor \in AuditType /\ auditRevision \in Nat /\ chain \in Seq(EventType)
      /\ ChainVerifies(chain, auditRevision) /\ AuditorInv
  BY DEF StoreInv, StoreTypeOK
<1>4. ASSUME auditor' \in AuditType, AuditorInv' PROVE StoreInv'
  BY <1>1, <1>2, <1>4 DEF StoreInv, StoreTypeOK, rowVars
<1>5. CASE ReadGate
  <2>1. auditor' \in AuditType /\ auditor'.pc = "events" /\ auditor'.revision = auditRevision
    BY <1>3, <1>5 DEF ReadGate, AuditType
  <2> QED BY <1>1, <1>3, <1>4, <2>1 DEF AuditorInv
<1>6. CASE ReadEvents
  <2>1. /\ auditor' \in AuditType /\ auditor'.pc = "verify" /\ auditor'.events = chain
        /\ auditor'.revision = auditor.revision /\ auditor.pc = "events"
    BY <1>3, <1>6 DEF ReadEvents, AuditType
  <2>2. auditor.revision <= auditRevision BY <1>3, <2>1 DEF AuditorInv
  <2>3. Len(chain) = auditRevision BY <1>3 DEF ChainVerifies
  <2>4. ChainVerifies(auditor'.events, Len(auditor'.events)) BY <1>3, <2>1, <2>3
  <2>5. AuditorInv' BY <1>1, <1>3, <2>1, <2>2, <2>3, <2>4 DEF AuditorInv, ChainVerifies
  <2> QED BY <1>4, <2>1, <2>5
<1>7. CASE VerifyChain
  <2>1. auditor.pc = "verify" BY <1>7 DEF VerifyChain
  <2>2. ReadingSettled => ChainVerifies(auditor.events, auditor.revision)
    <3> SUFFICES ASSUME ReadingSettled PROVE ChainVerifies(auditor.events, auditor.revision)
      OBVIOUS
    <3>1. Len(auditor.events) = auditor.revision
      BY <1>3, <2>1 DEF ReadingSettled, AuditorInv, AuditType
    <3> QED BY <1>3, <2>1, <3>1 DEF AuditorInv
  <2>3. /\ auditor'.pc \in {"idle", "conflict", "valid"}
        /\ auditor' \in AuditType
    <3> DEFINE Audit(p, n) == [pc |-> p, revision |-> 0, events |-> <<>>, tries |-> n]
    <3>6. /\ \A p : [NoAudit EXCEPT !.pc = p] = Audit(p, 0)
          /\ \A n : [NoAudit EXCEPT !.tries = n] = Audit("idle", n)
      BY DEF NoAudit
    <3>7. \A p \in {"idle", "conflict", "valid"}, n \in Nat :
            Audit(p, n) \in AuditType /\ Audit(p, n).pc = p
      BY DEF AuditType
    <3> HIDE DEF Audit
    <3>1. \A p \in {"idle", "conflict", "valid"} :
            [NoAudit EXCEPT !.pc = p] \in AuditType /\ [NoAudit EXCEPT !.pc = p].pc = p
      BY <3>6, <3>7
    <3>2. \A n \in Nat : /\ [NoAudit EXCEPT !.tries = n] \in AuditType
                         /\ [NoAudit EXCEPT !.tries = n].pc = "idle"
      BY <3>6, <3>7
    <3>3. auditor.tries + 1 \in Nat BY <1>3 DEF AuditType
    <3>4. CASE ReadingSettled
      <4>1. auditor' = [NoAudit EXCEPT !.pc = "valid"] BY <1>7, <2>2, <3>4 DEF VerifyChain
      <4> QED BY <3>1, <4>1
    <3>5. CASE ~ReadingSettled
      <4>1. \/ auditor' = [NoAudit EXCEPT !.tries = auditor.tries + 1]
            \/ auditor' = [NoAudit EXCEPT !.pc = "conflict"]
        BY <1>7, <3>5 DEF VerifyChain
      <4> QED BY <3>1, <3>2, <3>3, <4>1
    <3> QED BY <3>4, <3>5
  <2>4. AuditorInv' BY <2>3 DEF AuditorInv
  <2> QED BY <1>4, <2>3, <2>4
<1> QED BY <1>5, <1>6, <1>7

-----------------------------------------------------------------------------
LEMMA StoreStep == StoreInv /\ [StoreNext]_storeVars => StoreInv'
<1> SUFFICES ASSUME StoreInv, [StoreNext]_storeVars PROVE StoreInv' OBVIOUS
<1>1. ASSUME NEW h \in Caller, Handle(h) PROVE StoreInv'
  BY <1>1, BeginsStep, ReadTargetStep, CountSeatsStep, PrepareStep, ValidateStep, CommitStep,
     RollbackStep DEF Handle
<1>2. CASE ReadGate \/ ReadEvents \/ VerifyChain BY <1>2, AuditorStep
<1>3. CASE UNCHANGED storeVars
  <2>1. UNCHANGED <<rowVars, chain, auditRevision, call, auditor>> BY <1>3 DEF storeVars
  <2>2. StoreTypeOK' BY <2>1 DEF StoreInv, StoreTypeOK, rowVars
  <2>3. SeatsInv' /\ KeysInv' /\ RowsSealed'
    BY <2>1 DEF StoreInv, SeatsInv, KeysInv, RowsSealed, ActiveMembers, ActiveIn, ActiveKeys, rowVars
  <2>4. ChainVerifies(chain, auditRevision)' /\ AuditorInv'
    BY <2>1 DEF StoreInv, AuditorInv, ChainVerifies
  <2> QED BY <2>2, <2>3, <2>4 DEF StoreInv
<1> QED BY <1>1, <1>2, <1>3 DEF StoreNext

(* The invariant: what handlers of members and keys concluded from what they
   read, and what the tables, the seats and the audit chain then hold. *)
THEOREM StoreInvariant == StoreSpec => []StoreInv
<1>1. StoreInv /\ [StoreNext]_storeVars => StoreInv' BY StoreStep
<1> QED BY <1>1, StoreInitially, PTL DEF StoreSpec

(* Limits of members and keys hold, rows are sealed as stored and the audit
   chain verifies, whatever handlers (update_member_status, apply_password,
   create_api_key, revoke_api_key ...) race, for any number of them. *)
THEOREM StoreSoundness == StoreSpec => []StoreSound
<1>1. StoreInv => LimitsRespected
  <2> SUFFICES ASSUME StoreInv PROVE LimitsRespected OBVIOUS
  <2>1. \A h \in Caller : call[h].result # "integrity"
    BY DEF StoreInv, StoreTypeOK, CallRecord, CallType
  <2> QED BY <2>1 DEF LimitsRespected, StoreInv, SeatsInv, KeysInv
<1>2. StoreInv => AuditVerifies
  BY DEF StoreInv, StoreTypeOK, AuditVerifies, AuditType
<1>3. StoreInv => StoreSound BY <1>1, <1>2 DEF StoreSound, StoreInv
<1> QED BY <1>3, StoreInvariant, PTL

-----------------------------------------------------------------------------
(***************************************************************************)
(* The registry of runners: receipts of upgrades keep runners apart and    *)
(* known, and a handler that fills a free place counted the places of what *)
(* it read.                                                                *)
(***************************************************************************)
Binding(jobs) ==
  [job : jobs, logical : Runner, previous : Runner, candidate : Runner,
   phase : {"prepared", "committed", "rolledBack"}]

SeenType(jobs) == {"none"} \cup [members : SUBSET Runner, bindings : SUBSET Binding(jobs)]

RequestRecord(jobs) ==
  [op : {"idle", "enroll", "delete"}, runner : Runner \cup {NoRunner},
   token : Token \cup {"none"}, seen : SeenType(jobs), lease : BOOLEAN]

RegistryTypeOK(jobs) ==
  /\ rows \in [Runner -> {"none", "on", "off", "gone"}]
  /\ bindings \in SUBSET Binding(jobs)
  /\ handler \in [Handler -> RequestRecord(jobs)]

\* A receipt fits the runners that are registered.
Fits(b, members) ==
  \/ b.phase = "prepared" /\ b.previous \in members /\ b.candidate \in members
  \/ b.phase = "committed" /\ b.previous \notin members /\ b.candidate \in members
  \/ b.phase = "rolledBack" /\ b.previous \in members /\ b.candidate \notin members

Apart(b, c) ==
  /\ b.logical # c.logical /\ b.job # c.job
  /\ {b.previous, b.candidate} \cap {c.previous, c.candidate} = {}

\* A receipt names two runners that have been registered.
Known(b) ==
  b.previous # b.candidate /\ rows[b.previous] # "none" /\ rows[b.candidate] # "none"

\* What a request concluded before its transaction.
Intends(h) ==
  /\ handler[h].op = "enroll" => handler[h].runner = h /\ rows[h] = "none"
  /\ handler[h].op = "delete" =>
       /\ handler[h].runner \in handler[h].seen.members
       /\ ~UpgradeMember(handler[h].seen, handler[h].runner)

Receipts ==
  /\ \A b \in bindings : Fits(b, Members) /\ Known(b)
  /\ \A b, c \in bindings : b # c => Apart(b, c)

Places ==
  /\ IsFiniteSet(Members) /\ IsFiniteSet(Prepared(bindings))
  /\ Cardinality(Members) - Cardinality(Prepared(bindings)) <= RunnerLimit

RegistryInv(jobs) ==
  RegistryTypeOK(jobs) /\ Receipts /\ Places /\ \A h \in Handler : Intends(h)

\* The receipts as RunnerQuotaSnapshot::verify looks at them.
LEMMA VerifiedAs ==
  ASSUME NEW jobs, bindings \in SUBSET Binding(jobs)
  PROVE  Verified(Snapshot) <=>
           /\ \A b \in bindings : Fits(b, Members)
           /\ \A b, c \in bindings : b # c => Apart(b, c)
<1>1. Snapshot.members = Members /\ Snapshot.bindings = bindings BY DEF Snapshot
<1>2. ASSUME NEW b \in bindings
      PROVE  (CASE b.phase = "prepared"   -> {b.previous, b.candidate} \subseteq Members
                [] b.phase = "committed"  -> b.previous \notin Members /\ b.candidate \in Members
                [] b.phase = "rolledBack" -> b.previous \in Members /\ b.candidate \notin Members)
             <=> Fits(b, Members)
  <2>1. b.phase \in {"prepared", "committed", "rolledBack"} BY DEF Binding
  <2> QED BY <2>1 DEF Fits
<1> QED BY <1>1, <1>2 DEF Verified, Apart

LEMMA RegistryInitially ==
  ASSUME NEW jobs, NEW present \in SUBSET Runner, IsFiniteSet(present),
         Cardinality(present) <= RunnerLimit, RegistryInit(present)
  PROVE  RegistryInv(jobs)
<1>1. RegistryTypeOK(jobs)
  <2>1. rows \in [Runner -> {"none", "on", "off", "gone"}] BY DEF RegistryInit, Registered
  <2>2. IdleHandler \in RequestRecord(jobs) BY DEF IdleHandler, RequestRecord, SeenType
  <2> QED BY <2>1, <2>2 DEF RegistryInit, RegistryTypeOK
<1>2. Receipts BY DEF RegistryInit, Receipts
<1>3. Places
  <2>1. Members = present BY DEF RegistryInit, Registered, Members
  <2>2. Prepared(bindings) = {} BY DEF RegistryInit, Prepared
  <2>3. Cardinality(present) \in Nat BY FS_CardinalityType
  <2> QED BY <2>1, <2>2, <2>3, FS_EmptySet DEF Places
<1>4. \A h \in Handler : Intends(h) BY DEF RegistryInit, IdleHandler, Intends
<1> QED BY <1>1, <1>2, <1>3, <1>4 DEF RegistryInv

\* Steps that leave members and receipts as they are.
LEMMA SameMembers ==
  ASSUME Receipts, Places, UNCHANGED bindings, Members' = Members,
         \A r \in Runner : rows'[r] = "none" => rows[r] = "none",
         NEW jobs, bindings \in SUBSET Binding(jobs)
  PROVE  Receipts' /\ Places'
<1>1. \A b \in bindings : b.previous \in Runner /\ b.candidate \in Runner BY DEF Binding
<1>2. Receipts' BY <1>1 DEF Receipts, Fits, Known, Apart
<1>3. Places' BY DEF Places, Prepared
<1> QED BY <1>2, <1>3

LEMMA RequestStep ==
  ASSUME NEW jobs, RegistryInv(jobs), NEW h \in Handler, NEW next \in RequestRecord(jobs),
         handler' = [handler EXCEPT ![h] = next], UNCHANGED <<rows, bindings>>, Intends(h)'
  PROVE  RegistryInv(jobs)'
<1>1. RegistryTypeOK(jobs)' BY DEF RegistryInv, RegistryTypeOK
<1>2. Members' = Members BY DEF Members
<1>3. Receipts' /\ Places' BY <1>2, SameMembers DEF RegistryInv, RegistryTypeOK
<1>4. \A g \in Handler : Intends(g)'
  <2> SUFFICES ASSUME NEW g \in Handler, g # h PROVE Intends(g)' OBVIOUS
  <2>1. handler'[g] = handler[g] /\ Intends(g) BY DEF RegistryInv, RegistryTypeOK
  <2> QED BY <2>1 DEF Intends, UpgradeMember, Prepared
<1> QED BY <1>1, <1>3, <1>4 DEF RegistryInv

LEMMA SnapshotType ==
  ASSUME NEW jobs, RegistryTypeOK(jobs)
  PROVE  Snapshot \in SeenType(jobs) /\ Snapshot.members = Members /\ Snapshot.bindings = bindings
<1>1. Members \in SUBSET Runner BY DEF Members
<1> QED BY <1>1 DEF RegistryTypeOK, Snapshot, SeenType

LEMMA ReadSteps ==
  ASSUME NEW jobs, RegistryInv(jobs), NEW h \in Handler,
         \/ \E t \in Token : EnrollReads(h, t)
         \/ \E r \in Runner : DeleteReads(h, r, TRUE)
  PROVE  RegistryInv(jobs)'
<1>0. /\ h \in Runner /\ handler \in [Handler -> RequestRecord(jobs)] /\ Snapshot \in SeenType(jobs)
      /\ Snapshot.members = Members
  BY RegistryAssumption, SnapshotType DEF RegistryInv, RegistryTypeOK
<1>1. CASE \E t \in Token : EnrollReads(h, t)
  <2>1. PICK t \in Token : EnrollReads(h, t) BY <1>1
  <2>2. PICK next : next = [op |-> "enroll", runner |-> h, token |-> t, seen |-> Snapshot,
                            lease |-> FALSE]
    OBVIOUS
  <2>3. next \in RequestRecord(jobs) /\ next.op = "enroll" /\ next.runner = h
    BY <1>0, <2>2 DEF RequestRecord
  <2>4. /\ handler' = [handler EXCEPT ![h] = next] /\ UNCHANGED <<rows, bindings>>
        /\ rows[h] = "none"
    BY <2>1, <2>2 DEF EnrollReads
  <2>5. Intends(h)' BY <1>0, <2>3, <2>4 DEF Intends
  <2> QED BY <2>3, <2>4, <2>5, RequestStep
<1>2. CASE \E r \in Runner : DeleteReads(h, r, TRUE)
  <2>1. PICK r \in Runner : DeleteReads(h, r, TRUE) BY <1>2
  <2>2. PICK next : next = [op |-> "delete", runner |-> r, token |-> "none", seen |-> Snapshot,
                            lease |-> TRUE]
    OBVIOUS
  <2>3. /\ next \in RequestRecord(jobs) /\ next.op = "delete" /\ next.runner = r
        /\ next.seen = Snapshot
    BY <1>0, <2>2 DEF RequestRecord
  <2>4. /\ handler' = [handler EXCEPT ![h] = next] /\ UNCHANGED <<rows, bindings>>
        /\ r \in Members /\ ~UpgradeMember(Snapshot, r)
    BY <2>1, <2>2 DEF DeleteReads
  <2>6. handler'[h] = next BY <1>0, <2>4
  <2>7. r \in next.seen.members /\ ~UpgradeMember(next.seen, r) BY <1>0, <2>3, <2>4
  <2>5. Intends(h)' BY <2>3, <2>6, <2>7 DEF Intends, UpgradeMember, Prepared
  <2> QED BY <2>3, <2>4, <2>5, RequestStep
<1> QED BY <1>1, <1>2

LEMMA RetryStep ==
  ASSUME NEW jobs, RegistryInv(jobs), NEW h \in Handler,
         Retry(h) \/ handler' = [handler EXCEPT ![h] = IdleHandler], UNCHANGED <<rows, bindings>>
  PROVE  RegistryInv(jobs)'
<1>0. /\ handler \in [Handler -> RequestRecord(jobs)] /\ Snapshot \in SeenType(jobs)
      /\ Snapshot.members = Members /\ Intends(h)
  BY SnapshotType DEF RegistryInv, RegistryTypeOK
<1>1. CASE handler' = [handler EXCEPT ![h] = IdleHandler]
  <2>1. IdleHandler \in RequestRecord(jobs) /\ IdleHandler.op = "idle"
    BY DEF IdleHandler, RequestRecord, SeenType
  <2>2. Intends(h)' BY <1>0, <1>1, <2>1 DEF Intends
  <2> QED BY <1>1, <2>1, <2>2, RequestStep
<1>2. CASE /\ handler[h].op = "delete" =>
                handler[h].runner \in Members /\ ~UpgradeMember(Snapshot, handler[h].runner)
           /\ handler' = [handler EXCEPT ![h].seen = Snapshot]
  <2>1. PICK next : next = [handler[h] EXCEPT !.seen = Snapshot] OBVIOUS
  <2>2. /\ next \in RequestRecord(jobs) /\ next.op = handler[h].op /\ next.seen = Snapshot
        /\ next.runner = handler[h].runner
    BY <1>0, <2>1 DEF RequestRecord
  <2>3. handler' = [handler EXCEPT ![h] = next] BY <1>0, <1>2, <2>1
  <2>4. handler'[h] = next BY <1>0, <2>3
  <2>5. next.op = "delete" =>
          next.runner \in next.seen.members /\ ~UpgradeMember(next.seen, next.runner)
    BY <1>0, <1>2, <2>2
  <2>6. Intends(h)' BY <1>0, <2>2, <2>4, <2>5 DEF Intends, UpgradeMember, Prepared
  <2> QED BY <2>2, <2>3, <2>6, RequestStep
<1> QED BY <1>1, <1>2 DEF Retry

\* What requests intend holds on when no runner that one of them is to enroll is
\* registered by others.
LEMMA StillIntended ==
  ASSUME NEW h \in Handler, Intends(h), handler'[h] = handler[h], rows[h] = "none" => rows'[h] = "none"
  PROVE  Intends(h)'
BY DEF Intends, UpgradeMember, Prepared

LEMMA EnrollStep ==
  ASSUME NEW jobs, RegistryInv(jobs), NEW h \in Handler, NEW lease \in BOOLEAN,
         EnrollCommits(h, lease)
  PROVE  RegistryInv(jobs)'
<1>0. /\ RegistryTypeOK(jobs) /\ Receipts /\ Places /\ Intends(h) /\ h \in Runner
      /\ handler[h].op = "enroll" /\ bindings \in SUBSET Binding(jobs)
  BY RegistryAssumption DEF RegistryInv, RegistryTypeOK, EnrollCommits
<1>1. CASE /\ Retry(h) \/ handler' = [handler EXCEPT ![h] = IdleHandler]
           /\ UNCHANGED rows
  BY <1>1, RetryStep DEF EnrollCommits
<1>2. CASE /\ EnrollVerdict(h) = "registered" /\ rows' = [rows EXCEPT ![h] = "on"]
           /\ handler' = [handler EXCEPT ![h] = IdleHandler]
  <2>1. UNCHANGED bindings BY DEF EnrollCommits
  <2>2. rows[h] = "none" /\ h \notin Members BY <1>0 DEF Intends, Members
  <2>3. Members' = Members \cup {h}
    BY <1>0, <1>2 DEF Members, RegistryTypeOK
  <2>4. ~(Occupied(Snapshot) >= RunnerLimit) BY <1>2 DEF EnrollVerdict
  <2>5. Occupied(Snapshot) = Cardinality(Members) - Cardinality(Prepared(bindings))
    BY DEF Occupied, Snapshot
  <2>6. /\ IsFiniteSet(Members \cup {h}) /\ Cardinality(Members \cup {h}) = Cardinality(Members) + 1
        /\ Cardinality(Members) \in Nat /\ Cardinality(Prepared(bindings)) \in Nat
    BY <1>0, <2>2, FS_AddElement, FS_CardinalityType DEF Places
  <2>7. Cardinality(Members) + 1 - Cardinality(Prepared(bindings)) <= RunnerLimit
    BY <2>4, <2>5, <2>6, RegistryAssumption
  <2>8. Places' BY <1>0, <2>1, <2>3, <2>6, <2>7 DEF Places, Prepared
  <2>9. \A b \in bindings : b.previous \in Runner \ {h} /\ b.candidate \in Runner \ {h}
    BY <1>0, <2>2 DEF Receipts, Known, Binding
  <2>10. Receipts'
    BY <1>0, <1>2, <2>1, <2>3, <2>9 DEF Receipts, Fits, Known, Apart, RegistryTypeOK
  <2>11. RegistryTypeOK(jobs)'
    <3>1. IdleHandler \in RequestRecord(jobs) BY DEF IdleHandler, RequestRecord, SeenType
    <3> QED BY <1>0, <1>2, <2>1, <3>1 DEF RegistryTypeOK
  <2>12. \A g \in Handler : Intends(g)'
    <3> SUFFICES ASSUME NEW g \in Handler PROVE Intends(g)' OBVIOUS
    <3>1. CASE g = h
      <4>1. handler'[h].op = "idle" BY <1>0, <1>2 DEF RegistryTypeOK, IdleHandler
      <4> QED BY <3>1, <4>1 DEF Intends
    <3>2. CASE g # h
      <4>1. handler'[g] = handler[g] /\ rows'[g] = rows[g] /\ Intends(g)
        BY <1>0, <1>2, <3>2, RegistryAssumption DEF RegistryTypeOK, RegistryInv
      <4> QED BY <4>1, StillIntended
    <3> QED BY <3>1, <3>2
  <2> QED BY <2>8, <2>10, <2>11, <2>12 DEF RegistryInv
<1> QED BY <1>1, <1>2 DEF EnrollCommits

LEMMA DeleteStep ==
  ASSUME NEW jobs, RegistryInv(jobs), NEW h \in Handler, DeleteCommits(h)
  PROVE  RegistryInv(jobs)'
<1>0. /\ RegistryTypeOK(jobs) /\ Receipts /\ Places /\ Intends(h)
      /\ handler[h].op = "delete" /\ bindings \in SUBSET Binding(jobs)
  BY DEF RegistryInv, RegistryTypeOK, DeleteCommits
<1>1. CASE Retry(h) /\ UNCHANGED <<rows, bindings, connected>>
  BY <1>1, RetryStep
<1>2. CASE /\ handler[h].seen = Snapshot
           /\ rows' = [rows EXCEPT ![handler[h].runner] = "gone"]
           /\ bindings' = WithoutRunner(bindings, handler[h].runner)
           /\ handler' = [handler EXCEPT ![h] = IdleHandler]
  <2>1. PICK r : r = handler[h].runner OBVIOUS
  <2>2. r \in Members /\ r \in Runner /\ r # NoRunner
    BY <1>0, <1>2, <2>1, SnapshotType, RegistryAssumption DEF Intends, Members
  <2>3. \A b \in Prepared(bindings) : r # b.previous /\ r # b.candidate
    BY <1>0, <1>2, <2>1, SnapshotType DEF Intends, UpgradeMember
  <2>4. rows' = [rows EXCEPT ![r] = "gone"] /\ bindings' = {b \in bindings : CurrentOf(b) # r}
    BY <1>2, <2>1 DEF WithoutRunner
  <2>5. Members' = Members \ {r} BY <1>0, <2>2, <2>4 DEF Members, RegistryTypeOK
  <2>6. ASSUME NEW b \in bindings
        PROVE  /\ b.phase = "prepared" => CurrentOf(b) = NoRunner
               /\ b.phase = "committed" => CurrentOf(b) = b.candidate
               /\ b.phase = "rolledBack" => CurrentOf(b) = b.previous
               /\ b.previous \in Runner /\ b.candidate \in Runner
    BY <1>0 DEF CurrentOf, Binding
  <2>7. Prepared(bindings') = Prepared(bindings) BY <2>2, <2>4, <2>6 DEF Prepared
  <2>8. /\ IsFiniteSet(Members \ {r}) /\ Cardinality(Members \ {r}) = Cardinality(Members) - 1
        /\ Cardinality(Members) \in Nat /\ Cardinality(Prepared(bindings)) \in Nat
    BY <1>0, <2>2, FS_RemoveElement, FS_CardinalityType DEF Places
  <2>9. Cardinality(Members) - 1 - Cardinality(Prepared(bindings)) <= RunnerLimit
    BY <1>0, <2>8, RegistryAssumption DEF Places
  <2>10. Places' BY <1>0, <2>5, <2>7, <2>8, <2>9 DEF Places
  <2>11. Receipts'
    <3>1. ASSUME NEW b \in bindings' PROVE Fits(b, Members')
      <4>1. b \in bindings /\ CurrentOf(b) # r /\ Fits(b, Members) BY <1>0, <2>4 DEF Receipts
      <4>2. CASE b.phase = "prepared"
        <5>1. b \in Prepared(bindings) BY <4>1, <4>2 DEF Prepared
        <5> QED BY <2>3, <2>5, <4>1, <4>2, <5>1 DEF Fits
      <4>3. CASE b.phase = "committed" BY <2>5, <2>6, <4>1, <4>3 DEF Fits
      <4>4. CASE b.phase = "rolledBack" BY <2>5, <2>6, <4>1, <4>4 DEF Fits
      <4> QED BY <4>1, <4>2, <4>3, <4>4 DEF Fits
    <3>2. ASSUME NEW b \in bindings' PROVE Known(b)'
      <4>1. b \in bindings /\ Known(b) BY <1>0, <2>4 DEF Receipts
      <4> QED BY <1>0, <2>2, <2>4, <2>6, <4>1 DEF Known, RegistryTypeOK
    <3>3. \A b, c \in bindings' : b # c => Apart(b, c) BY <1>0, <2>4 DEF Receipts
    <3> QED BY <3>1, <3>2, <3>3 DEF Receipts, Apart
  <2>12. RegistryTypeOK(jobs)'
    <3>1. IdleHandler \in RequestRecord(jobs) BY DEF IdleHandler, RequestRecord, SeenType
    <3>2. rows' \in [Runner -> {"none", "on", "off", "gone"}]
      BY <1>0, <2>2, <2>4 DEF RegistryTypeOK
    <3>3. handler' \in [Handler -> RequestRecord(jobs)] BY <1>0, <1>2, <3>1 DEF RegistryTypeOK
    <3> QED BY <1>0, <2>4, <3>2, <3>3 DEF RegistryTypeOK
  <2>13. \A g \in Handler : Intends(g)'
    <3> SUFFICES ASSUME NEW g \in Handler PROVE Intends(g)' OBVIOUS
    <3>1. CASE g = h
      <4>1. handler'[h].op = "idle" BY <1>0, <1>2 DEF RegistryTypeOK, IdleHandler
      <4> QED BY <3>1, <4>1 DEF Intends
    <3>2. CASE g # h
      <4>1. handler'[g] = handler[g] /\ Intends(g)
        BY <1>0, <1>2, <3>2 DEF RegistryTypeOK, RegistryInv
      <4>2. rows[g] = "none" => rows'[g] = "none"
        BY <1>0, <2>2, <2>4, RegistryAssumption DEF RegistryTypeOK, Members
      <4> QED BY <4>1, <4>2, StillIntended
    <3> QED BY <3>1, <3>2
  <2> QED BY <2>10, <2>11, <2>12, <2>13 DEF RegistryInv
<1> QED BY <1>1, <1>2 DEF DeleteCommits

\* Steps of tokens, sessions and switches.
LEMMA OtherSteps ==
  ASSUME NEW jobs, RegistryInv(jobs), UNCHANGED <<bindings, handler>>,
         \/ UNCHANGED rows
         \/ \E r \in Runner, to \in {"on", "off"} : UpdateRunner(r, to)
  PROVE  RegistryInv(jobs)'
<1>0. RegistryTypeOK(jobs) /\ Receipts /\ Places BY DEF RegistryInv
<1>1. /\ rows' \in [Runner -> {"none", "on", "off", "gone"}] /\ Members' = Members
      /\ \A r \in Runner : rows'[r] = "none" <=> rows[r] = "none"
  <2>1. CASE UNCHANGED rows BY <1>0, <2>1 DEF RegistryTypeOK, Members
  <2>2. CASE \E r \in Runner, to \in {"on", "off"} : UpdateRunner(r, to)
    BY <1>0, <2>2 DEF RegistryTypeOK, Members, UpdateRunner
  <2> QED BY <2>1, <2>2
<1>2. RegistryTypeOK(jobs)' BY <1>0, <1>1 DEF RegistryTypeOK
<1>3. Receipts' /\ Places' BY <1>0, <1>1, SameMembers DEF RegistryTypeOK
<1>4. \A g \in Handler : Intends(g)'
  BY <1>1, StillIntended, RegistryAssumption DEF RegistryInv
<1> QED BY <1>2, <1>3, <1>4 DEF RegistryInv

\* The receipt that an upgrade of `previous' replaces: it is the only one that
\* names the runner, and it is finished.
LEMMA ReplacedReceipt ==
  ASSUME NEW jobs, RegistryInv(jobs), NEW job, NEW previous \in Runner, NEW candidate,
         CanProvision(job, previous, candidate), NEW b \in bindings
  PROVE  /\ b.logical = LogicalId(Snapshot, previous) => b.phase # "prepared"
         /\ b.logical # LogicalId(Snapshot, previous) => previous \notin {b.previous, b.candidate}
<1> DEFINE owning == {c \in bindings : previous \in {c.previous, c.candidate}}
<1>1. LogicalId(Snapshot, previous)
        = IF owning = {} THEN previous ELSE (CHOOSE c \in owning : TRUE).logical
  BY DEF LogicalId, Snapshot
<1>2. b.logical = LogicalId(Snapshot, previous) => CurrentOf(b) = previous
  BY DEF CanProvision
<1>3. b.phase = "prepared" => CurrentOf(b) = NoRunner BY DEF CurrentOf
<1>4. previous # NoRunner BY RegistryAssumption
<1>5. ASSUME previous \in {b.previous, b.candidate} PROVE b.logical = LogicalId(Snapshot, previous)
  <2>1. b \in owning BY <1>5
  <2>2. (CHOOSE c \in owning : TRUE) \in owning BY <2>1
  <2>3. PICK c \in owning : c = CHOOSE d \in owning : TRUE BY <2>2
  <2>4. c \in bindings /\ previous \in {c.previous, c.candidate} BY <2>3
  <2>5. b = c BY <1>5, <2>4 DEF RegistryInv, Receipts, Apart
  <2> QED BY <1>1, <2>1, <2>3, <2>5
<1> QED BY <1>2, <1>3, <1>4, <1>5

LEMMA ProvisionStep ==
  ASSUME NEW jobs, RegistryInv(jobs), NEW job \in jobs, NEW previous \in Runner,
         NEW candidate \in Runner \ Handler, rows[candidate] = "none",
         CanProvision(job, previous, candidate), Provision(job, previous, candidate),
         UNCHANGED handler
  PROVE  RegistryInv(jobs)'
<1>0. /\ RegistryTypeOK(jobs) /\ Receipts /\ Places /\ bindings \in SUBSET Binding(jobs)
  BY DEF RegistryInv, RegistryTypeOK
<1>1. PICK logical : logical = LogicalId(Snapshot, previous) OBVIOUS
<1>2. PICK new : new = [job |-> job, logical |-> logical, previous |-> previous,
                        candidate |-> candidate, phase |-> "prepared"]
  OBVIOUS
<1>3. /\ rows' = [rows EXCEPT ![candidate] = "on"]
      /\ bindings' = {b \in bindings : b.logical # logical} \cup {new}
  BY <1>1, <1>2 DEF Provision
<1>4. /\ rows[previous] = "on" /\ candidate # previous /\ \A b \in bindings : b.job # job
  BY DEF CanProvision
<1>5. logical \in Runner
  <2> DEFINE owning == {c \in bindings : previous \in {c.previous, c.candidate}}
  <2>1. logical = IF owning = {} THEN previous ELSE (CHOOSE c \in owning : TRUE).logical
    BY <1>1 DEF LogicalId, Snapshot
  <2>2. CASE owning = {} BY <2>1, <2>2
  <2>3. CASE owning # {}
    <3>1. (CHOOSE c \in owning : TRUE) \in owning BY <2>3
    <3>2. PICK c \in bindings : c = CHOOSE d \in owning : TRUE BY <3>1
    <3> QED BY <1>0, <2>1, <2>3, <3>2 DEF Binding
  <2> QED BY <2>2, <2>3
<1>6. new \in Binding(jobs) BY <1>2, <1>5 DEF Binding
<1>7. \A b \in bindings : /\ b.logical = logical => b.phase # "prepared"
                          /\ b.logical # logical => previous \notin {b.previous, b.candidate}
                          /\ candidate \notin {b.previous, b.candidate}
  <2> SUFFICES ASSUME NEW b \in bindings
               PROVE  /\ b.logical = logical => b.phase # "prepared"
                      /\ b.logical # logical => previous \notin {b.previous, b.candidate}
                      /\ candidate \notin {b.previous, b.candidate}
    OBVIOUS
  <2>1. candidate \notin {b.previous, b.candidate} BY <1>0 DEF Receipts, Known
  <2> QED BY <1>1, <2>1, ReplacedReceipt
<1>8. RegistryTypeOK(jobs)' BY <1>0, <1>3, <1>6 DEF RegistryTypeOK
<1>9. Members' = Members \cup {candidate} /\ candidate \notin Members /\ previous \in Members
  BY <1>0, <1>3, <1>4 DEF Members, RegistryTypeOK
<1>10. Prepared(bindings') = Prepared(bindings) \cup {new} /\ new \notin Prepared(bindings)
  <2>1. new.phase = "prepared" /\ new.job = job BY <1>2
  <2> QED BY <1>3, <1>4, <1>7, <2>1 DEF Prepared
<1>11. Places'
  <2>1. /\ IsFiniteSet(Members \cup {candidate})
        /\ Cardinality(Members \cup {candidate}) = Cardinality(Members) + 1
        /\ Cardinality(Members) \in Nat
    BY <1>0, <1>9, FS_AddElement, FS_CardinalityType DEF Places
  <2>2. /\ IsFiniteSet(Prepared(bindings) \cup {new})
        /\ Cardinality(Prepared(bindings) \cup {new}) = Cardinality(Prepared(bindings)) + 1
        /\ Cardinality(Prepared(bindings)) \in Nat
    BY <1>0, <1>10, FS_AddElement, FS_CardinalityType DEF Places
  <2>3. Cardinality(Members) + 1 - (Cardinality(Prepared(bindings)) + 1) <= RunnerLimit
    BY <1>0, <2>1, <2>2, RegistryAssumption DEF Places
  <2> QED BY <1>9, <1>10, <2>1, <2>2, <2>3 DEF Places
<1>12. Receipts'
  <2>1. ASSUME NEW b \in bindings' PROVE Fits(b, Members') /\ Known(b)'
    <3>1. CASE b = new
      BY <1>0, <1>2, <1>3, <1>4, <1>9, <3>1 DEF Fits, Known, RegistryTypeOK
    <3>2. CASE b \in bindings
      <4>1. Fits(b, Members) /\ Known(b) /\ b.previous \in Runner /\ b.candidate \in Runner
        BY <1>0, <3>2 DEF Receipts, Binding
      <4>2. candidate # b.previous /\ candidate # b.candidate BY <1>7, <3>2
      <4>3. Fits(b, Members') BY <1>9, <4>1, <4>2 DEF Fits
      <4>4. Known(b)' BY <1>0, <1>3, <4>1, <4>2 DEF Known, RegistryTypeOK
      <4> QED BY <4>3, <4>4
    <3> QED BY <1>3, <3>1, <3>2
  <2>2. ASSUME NEW b \in bindings', NEW c \in bindings', b # c PROVE Apart(b, c)
    <3>1. ASSUME NEW d \in bindings, d.logical # logical PROVE Apart(d, new) /\ Apart(new, d)
      <4>1. /\ new.logical = logical /\ new.job = job /\ new.previous = previous
            /\ new.candidate = candidate
        BY <1>2
      <4>2. /\ d.job # job /\ previous \notin {d.previous, d.candidate}
            /\ candidate \notin {d.previous, d.candidate}
        BY <1>4, <1>7, <3>1
      <4> QED BY <3>1, <4>1, <4>2 DEF Apart
    <3>2. CASE b = new BY <1>3, <2>2, <3>1, <3>2
    <3>3. CASE c = new BY <1>3, <2>2, <3>1, <3>3
    <3>4. CASE b # new /\ c # new BY <1>0, <1>3, <2>2, <3>4 DEF Receipts
    <3> QED BY <3>2, <3>3, <3>4
  <2> QED BY <2>1, <2>2 DEF Receipts, Apart
<1>13. \A g \in Handler : Intends(g)'
  <2> SUFFICES ASSUME NEW g \in Handler PROVE Intends(g)' OBVIOUS
  <2>1. handler'[g] = handler[g] /\ Intends(g) BY DEF RegistryInv
  <2>2. rows'[g] = rows[g] BY <1>0, <1>3, RegistryAssumption DEF RegistryTypeOK
  <2> QED BY <2>1, <2>2, StillIntended
<1> QED BY <1>8, <1>11, <1>12, <1>13 DEF RegistryInv

LEMMA ReconcileStep ==
  ASSUME NEW jobs, RegistryInv(jobs), NEW job \in jobs, NEW survivor \in Runner \cup {NoRunner},
         CanReconcile(job, survivor), Reconcile(job, survivor), UNCHANGED handler
  PROVE  RegistryInv(jobs)'
<1>0. /\ RegistryTypeOK(jobs) /\ Receipts /\ Places /\ bindings \in SUBSET Binding(jobs)
  BY DEF RegistryInv, RegistryTypeOK
<1> DEFINE open == Prepared(BindingOf(job))
<1> DEFINE Ended(b) == [b EXCEPT !.phase = IF b.candidate = survivor THEN "committed"
                                           ELSE "rolledBack"]
<1> DEFINE retired == (UNION {{b.previous, b.candidate} : b \in open}) \ {survivor}
<1>1. /\ rows' = [r \in Runner |-> IF r \in retired THEN "gone" ELSE rows[r]]
      /\ bindings' = (bindings \ open) \cup {Ended(b) : b \in open}
  BY DEF Reconcile
<1>2. CASE open = {}
  <2>1. rows' = rows BY <1>0, <1>1, <1>2 DEF RegistryTypeOK
  <2>2. bindings' = bindings BY <1>1, <1>2
  <2> QED BY <2>1, <2>2, OtherSteps
<1>3. CASE open # {}
  <2>1. PICK b \in bindings : b \in open BY <1>3 DEF Prepared, BindingOf
  <2>2. b.job = job /\ b.phase = "prepared" BY <2>1 DEF Prepared, BindingOf
  <2>3. open = {b}
    <3>1. \A c \in open : c \in bindings /\ c.job = job BY DEF Prepared, BindingOf
    <3> QED BY <1>0, <2>1, <2>2, <3>1 DEF Receipts, Apart
  <2>4. survivor \in {b.previous, b.candidate}
    <3>1. b \in BindingOf(job) BY <2>2 DEF BindingOf
    <3> QED BY <3>1 DEF CanReconcile
  <2>5. /\ b.previous \in Members /\ b.candidate \in Members /\ b.previous # b.candidate
        /\ b.previous \in Runner /\ b.candidate \in Runner /\ b \in Binding(jobs)
    BY <1>0, <2>2 DEF Receipts, Fits, Known, Binding
  <2>6. PICK gone \in {b.previous, b.candidate} :
          gone # survivor /\ retired = {gone} /\ {b.previous, b.candidate} = {gone, survivor}
    <3>1. retired = {b.previous, b.candidate} \ {survivor} BY <2>3
    <3>2. CASE survivor = b.previous BY <2>5, <3>1, <3>2
    <3>3. CASE survivor = b.candidate BY <2>5, <3>1, <3>3
    <3> QED BY <2>4, <3>2, <3>3
  <2>7. PICK e : e = Ended(b) OBVIOUS
  <2>8. bindings' = (bindings \ {b}) \cup {e} BY <1>1, <2>3, <2>7
  <2> HIDE DEF open, Ended, retired
  <2>9. e = [b EXCEPT !.phase = IF b.candidate = survivor THEN "committed" ELSE "rolledBack"]
    BY <2>7 DEF Ended
  <2>10. /\ e \in Binding(jobs) /\ e.job = b.job /\ e.logical = b.logical
         /\ e.previous = b.previous /\ e.candidate = b.candidate
         /\ e.phase = IF b.candidate = survivor THEN "committed" ELSE "rolledBack"
    BY <2>5, <2>9 DEF Binding
  <2>11. rows' = [r \in Runner |-> IF r = gone THEN "gone" ELSE rows[r]] BY <1>1, <2>6
  <2>12. RegistryTypeOK(jobs)' BY <1>0, <2>8, <2>10, <2>11 DEF RegistryTypeOK
  <2>13. Members' = Members \ {gone} /\ gone \in Members
    BY <1>0, <2>5, <2>6, <2>11 DEF Members, RegistryTypeOK
  <2>14. Prepared(bindings') = Prepared(bindings) \ {b} /\ b \in Prepared(bindings)
    BY <2>2, <2>8, <2>10 DEF Prepared
  <2>15. Places'
    <3>1. /\ IsFiniteSet(Members \ {gone}) /\ Cardinality(Members \ {gone}) = Cardinality(Members) - 1
          /\ Cardinality(Members) \in Nat
      BY <1>0, <2>13, FS_RemoveElement, FS_CardinalityType DEF Places
    <3>2. /\ IsFiniteSet(Prepared(bindings) \ {b})
          /\ Cardinality(Prepared(bindings) \ {b}) = Cardinality(Prepared(bindings)) - 1
          /\ Cardinality(Prepared(bindings)) \in Nat
      BY <1>0, <2>14, FS_RemoveElement, FS_CardinalityType DEF Places
    <3>3. Cardinality(Members) - 1 - (Cardinality(Prepared(bindings)) - 1) <= RunnerLimit
      BY <1>0, <3>1, <3>2, RegistryAssumption DEF Places
    <3> QED BY <2>13, <2>14, <3>1, <3>2, <3>3 DEF Places
  <2>16. Receipts'
    <3>0. \A r \in Runner : rows'[r] = "none" => rows[r] = "none" BY <1>0, <2>11 DEF RegistryTypeOK
    <3>1. ASSUME NEW c \in bindings' PROVE Fits(c, Members') /\ Known(c)'
      <4>1. CASE c = e
        <5>1. Fits(e, Members') BY <2>4, <2>5, <2>6, <2>10, <2>13 DEF Fits
        <5>2. Known(b) BY <1>0 DEF Receipts
        <5>3. Known(e)' BY <2>5, <2>10, <3>0, <5>2 DEF Known
        <5> QED BY <4>1, <5>1, <5>3
      <4>2. CASE c \in bindings /\ c # b
        <5>1. Fits(c, Members) /\ Known(c) /\ Apart(b, c) BY <1>0, <4>2 DEF Receipts
        <5>2. gone # c.previous /\ gone # c.candidate BY <2>6, <5>1 DEF Apart
        <5>3. Fits(c, Members') BY <2>13, <5>1, <5>2 DEF Fits
        <5>4. c.previous \in Runner /\ c.candidate \in Runner BY <1>0, <4>2 DEF Binding
        <5> QED BY <3>0, <5>1, <5>3, <5>4 DEF Known
      <4> QED BY <2>8, <4>1, <4>2
    <3>2. ASSUME NEW c \in bindings', NEW d \in bindings', c # d PROVE Apart(c, d)
      <4>1. ASSUME NEW f \in bindings, f # b PROVE Apart(f, e) /\ Apart(e, f)
        <5>1. Apart(f, b) BY <1>0, <4>1 DEF Receipts
        <5> QED BY <2>10, <5>1 DEF Apart
      <4> QED BY <1>0, <2>8, <3>2, <4>1 DEF Receipts
    <3> QED BY <3>1, <3>2 DEF Receipts, Apart
  <2>17. \A g \in Handler : Intends(g)'
    <3> SUFFICES ASSUME NEW g \in Handler PROVE Intends(g)' OBVIOUS
    <3>1. handler'[g] = handler[g] /\ Intends(g) BY DEF RegistryInv
    <3>2. rows[g] = "none" => rows'[g] = "none"
      BY <1>0, <2>11, <2>13, RegistryAssumption DEF RegistryTypeOK, Members
    <3> QED BY <3>1, <3>2, StillIntended
  <2> QED BY <2>12, <2>15, <2>16, <2>17 DEF RegistryInv
<1> QED BY <1>2, <1>3

LEMMA RegistryStep ==
  ASSUME NEW jobs, RegistryInv(jobs), [RegistryNext(jobs)]_registryVars
  PROVE  RegistryInv(jobs)'
<1>1. CASE UNCHANGED registryVars BY <1>1, OtherSteps DEF registryVars
<1>2. CASE \E t \in Token : CreateRunnerEnrollment(t) \/ TokenExpires(t)
  BY <1>2, OtherSteps DEF CreateRunnerEnrollment, TokenExpires
<1>3. CASE \/ \E h \in Handler, t \in Token : EnrollReads(h, t)
           \/ \E h \in Handler, r \in Runner : DeleteReads(h, r, TRUE)
  BY <1>3, ReadSteps
<1>4. CASE \E h \in Handler, lease \in BOOLEAN : EnrollCommits(h, lease) BY <1>4, EnrollStep
<1>5. CASE \E h \in Handler : DeleteCommits(h) BY <1>5, DeleteStep
<1>6. CASE \E r \in Runner, to \in {"on", "off"} : UpdateRunner(r, to)
  BY <1>6, OtherSteps DEF UpdateRunner
<1>7. CASE \E r \in Runner : ConnectRunner(r, TRUE) BY <1>7, OtherSteps DEF ConnectRunner
<1>8. CASE \E job \in jobs : UpgradeSteps(job) /\ UNCHANGED <<tokens, handler, connected>>
  BY <1>8, ProvisionStep, ReconcileStep DEF UpgradeSteps
<1> QED BY <1>1, <1>2, <1>3, <1>4, <1>5, <1>6, <1>7, <1>8 DEF RegistryNext

\* For any number of runners, requests and upgrades and any quota: the receipts
\* agree with the rows and the quota of logical runners is kept.  The comparison
\* in the transaction suffices, whoever holds the registration lease.
THEOREM RegistryQuota ==
  ASSUME NEW jobs, NEW present \in SUBSET Runner, IsFiniteSet(present),
         Cardinality(present) <= RunnerLimit
  PROVE  RegistrySpec(jobs, present) => []QuotaHolds
<1>1. RegistryInit(present) => RegistryInv(jobs) BY RegistryInitially
<1>2. RegistryInv(jobs) /\ [RegistryNext(jobs)]_registryVars => RegistryInv(jobs)'
  BY RegistryStep
<1>3. RegistryInv(jobs) => QuotaHolds
  <2> SUFFICES ASSUME RegistryInv(jobs) PROVE QuotaHolds OBVIOUS
  <2>1. Verified(Snapshot) BY VerifiedAs DEF RegistryInv, RegistryTypeOK, Receipts
  <2>2. Occupied(Snapshot) <= RunnerLimit BY DEF RegistryInv, Places, Occupied, Snapshot
  <2> QED BY <2>1, <2>2 DEF QuotaHolds
<1> QED BY <1>1, <1>2, <1>3, PTL DEF RegistrySpec

-----------------------------------------------------------------------------
(***************************************************************************)
(* Which models a member may use.                                          *)
(***************************************************************************)
\* The policy that an update of revision e writes is sealed and is the next one.
SealedNext(new, e) ==
  e \in Nat /\ new.revision = e + 1 /\ new.hmac = <<new.mode, new.revision, new.digest>>

\* What a handler holds at each of its steps.
Holding(t) ==
  /\ t.step = "grants" =>
       \/ /\ t = [step |-> "grants", use |-> "admit", model |-> t.model, row |-> t.row]
          /\ t.row # NoPolicy
       \/ /\ t = [step |-> "grants", use |-> "replace", new |-> t.new, expected |-> t.expected,
                  row |-> t.row]
          /\ SealedNext(t.new, t.expected)
  /\ t.step = "admit" => t.row # NoPolicy
  /\ t.step = "write" => SealedNext(t.new, t.expected)

AccessInv ==
  /\ reading = [r \in Reader |-> reading[r]]
  /\ \A r \in Reader : reading[r] # Idle => Holding(reading[r])

LEMMA AccessReads ==
  ASSUME AccessInv, NEW r \in Reader, NEW next, Reads(r, next), next # Idle => Holding(next)
  PROVE  AccessInv'
<1>1. reading' = [reading EXCEPT ![r] = next] BY DEF Reads
<1>2. reading' = [q \in Reader |-> reading'[q]] BY <1>1 DEF AccessInv
<1>3. \A q \in Reader : reading'[q] = IF q = r THEN next ELSE reading[q] BY <1>1 DEF AccessInv
<1>4. \A q \in Reader : reading'[q] # Idle => Holding(reading'[q]) BY <1>3 DEF AccessInv
<1> QED BY <1>2, <1>4 DEF AccessInv, Holding, SealedNext

LEMMA AccessBegins ==
  ASSUME AccessInv, NEW r \in Reader,
         \/ \E m \in Offered : BeginAdmission(r, m)
         \/ \E mode \in Mode, set \in SUBSET Offered, expected \in 0 .. (MaxRevision - 1) :
              BeginReplacement(r, mode, set, expected)
         \/ ReadPending(r)
  PROVE  AccessInv'
<1>1. CASE \E m \in Offered : BeginAdmission(r, m)
  <2>1. PICK m \in Offered : BeginAdmission(r, m) BY <1>1
  <2>2. PICK row : row = policy OBVIOUS
  <2>3. row # NoPolicy BY <2>1, <2>2 DEF BeginAdmission
  <2>5. PICK next : next = [step |-> "grants", use |-> "admit", model |-> m, row |-> row]
    OBVIOUS
  <2>6. Holding(next) BY <2>3, <2>5 DEF Holding
  <2>4. Reads(r, next) BY <2>1, <2>2, <2>5 DEF BeginAdmission
  <2> QED BY <2>6, <2>4, AccessReads
<1>2. CASE \E mode \in Mode, set \in SUBSET Offered, expected \in 0 .. (MaxRevision - 1) :
             BeginReplacement(r, mode, set, expected)
  <2>1. PICK mode \in Mode, set \in SUBSET Offered, e \in 0 .. (MaxRevision - 1) :
          BeginReplacement(r, mode, set, e)
    BY <1>2
  <2>2. e \in Nat BY AccessAssumption
  <2>3. PICK new : new = Policy(mode, e + 1, set) OBVIOUS
  <2>4. SealedNext(new, e) BY <2>2, <2>3 DEF SealedNext, Policy
  <2>5. CASE Reads(r, [step |-> "write", use |-> "replace", new |-> new, expected |-> e])
    <3>1. PICK next : next = [step |-> "write", use |-> "replace", new |-> new, expected |-> e]
      OBVIOUS
    <3>2. Holding(next) BY <2>4, <3>1 DEF Holding
    <3> QED BY <2>5, <3>1, <3>2, AccessReads
  <2>6. CASE Reads(r, [step |-> "grants", use |-> "replace", new |-> new, expected |-> e,
                       row |-> policy])
    <3>1. PICK next : next = [step |-> "grants", use |-> "replace", new |-> new, expected |-> e,
                              row |-> policy]
      OBVIOUS
    <3>2. Holding(next) BY <2>4, <3>1 DEF Holding
    <3> QED BY <2>6, <3>1, <3>2, AccessReads
  <2> QED BY <2>1, <2>3, <2>5, <2>6 DEF BeginReplacement
<1>3. CASE ReadPending(r)
  <2>1. PICK next : next = [step |-> "finalize", set |-> grants] OBVIOUS
  <2>2. Holding(next) BY <2>1 DEF Holding
  <2> QED BY <1>3, <2>1, <2>2, AccessReads DEF ReadPending
<1> QED BY <1>1, <1>2, <1>3

LEMMA AccessGoesOn ==
  ASSUME AccessInv, NEW r \in Reader, ReadGrants(r)
  PROVE  AccessInv'
<1>1. PICK t : t = reading[r] OBVIOUS
<1>2. t # Idle /\ t.step = "grants" /\ Holding(t)
  BY <1>1 DEF AccessInv, ReadGrants, ReadingAt
<1>3. CASE Reads(r, Idle) BY <1>3, AccessReads
<1>4. CASE t.use = "replace" /\ Reads(r, [t EXCEPT !.step = "write"])
  <2>1. /\ t = [step |-> "grants", use |-> "replace", new |-> t.new, expected |-> t.expected,
                row |-> t.row]
        /\ SealedNext(t.new, t.expected)
    BY <1>2, <1>4 DEF Holding
  <2>2. PICK next : next = [t EXCEPT !.step = "write"] OBVIOUS
  <2>3. next.step = "write" /\ next.new = t.new /\ next.expected = t.expected BY <2>1, <2>2
  <2>4. Holding(next) BY <2>1, <2>3 DEF Holding
  <2> QED BY <1>4, <2>2, <2>4, AccessReads
<1>5. CASE t.use = "admit" /\ Reads(r, [t EXCEPT !.step = "admit"])
  <2>1. /\ t = [step |-> "grants", use |-> "admit", model |-> t.model, row |-> t.row]
        /\ t.row # NoPolicy
    BY <1>2, <1>5 DEF Holding
  <2>2. PICK next : next = [t EXCEPT !.step = "admit"] OBVIOUS
  <2>3. next.step = "admit" /\ next.row = t.row BY <2>1, <2>2
  <2>4. Holding(next) BY <2>1, <2>3 DEF Holding
  <2> QED BY <1>5, <2>2, <2>4, AccessReads
<1> QED BY <1>1, <1>3, <1>4, <1>5 DEF ReadGrants, Gives

LEMMA AccessStep ==
  ASSUME AccessInv, [AccessNext]_accessVars
  PROVE  AccessInv'
<1>1. CASE UNCHANGED reading BY <1>1 DEF AccessInv, Holding, SealedNext
<1>2. ASSUME NEW r \in Reader,
             \/ \E m \in Offered : BeginAdmission(r, m)
             \/ \E mode \in Mode, set \in SUBSET Offered, expected \in 0 .. (MaxRevision - 1) :
                  BeginReplacement(r, mode, set, expected)
             \/ ReadPending(r)
      PROVE  AccessInv'
  BY <1>2, AccessBegins
<1>3. ASSUME NEW r \in Reader, ReadGrants(r) PROVE AccessInv' BY <1>3, AccessGoesOn
<1>4. ASSUME NEW r \in Reader, AdmitModelAttempt(r) \/ ReplacePolicy(r) \/ FinalizeMigration(r)
      PROVE  AccessInv'
  <2>1. Reads(r, Idle) BY <1>4 DEF AdmitModelAttempt, ReplacePolicy, FinalizeMigration, Gives
  <2> QED BY <2>1, AccessReads
<1> QED BY <1>1, <1>2, <1>3, <1>4 DEF AccessNext, SwitchModel, accessVars

\* For any number of models, handlers and updates: an attempt is admitted only as
\* the policy in force allows, and policies follow each other sealed, revision by
\* revision.
THEOREM AccessGovernance == AccessSpec => AccessGoverned
<1> DEFINE Governed ==
      /\ \A a \in admitted' \ admitted :
           /\ policy # NoPolicy /\ a.revision = policy.revision /\ a.model \in enabled
           /\ Permits(policy.mode, grants, a.model)
      /\ policy' # policy =>
           /\ PolicyVerifies(policy', grants')
           /\ policy # NoPolicy /\ policy.hmac # <<>> => policy'.revision = policy.revision + 1
<1>1. AccessInit => AccessInv BY DEF AccessInit, AccessInv
<1>2. AccessInv /\ [AccessNext]_accessVars => AccessInv' BY AccessStep
<1>3. AccessInv /\ [AccessNext]_accessVars => [Governed]_accessVars
  <2> SUFFICES ASSUME AccessInv, AccessNext PROVE Governed OBVIOUS
  <2>1. CASE UNCHANGED <<policy, admitted>> BY <2>1
  <2>2. ASSUME NEW r \in Reader, AdmitModelAttempt(r) PROVE Governed
    <3>1. PICK t : t = reading[r] OBVIOUS
    <3>2. t.row # NoPolicy BY <2>2, <3>1 DEF AdmitModelAttempt, ReadingAt, AccessInv, Holding
    <3>3. UNCHANGED policy BY <2>2 DEF AdmitModelAttempt
    <3>4. CASE admitted' = admitted BY <3>3, <3>4
    <3>5. CASE /\ AdmitVerdict(t)
               /\ admitted' = admitted \union {[model |-> t.model, revision |-> t.row.revision]}
      <4>1. policy = t.row /\ t.model \in enabled /\ Permits(t.row.mode, grants, t.model)
        BY <3>5 DEF AdmitVerdict
      <4> QED BY <3>2, <3>3, <3>5, <4>1
    <3> QED BY <2>2, <3>1, <3>4, <3>5 DEF AdmitModelAttempt
  <2>3. ASSUME NEW r \in Reader, ReplacePolicy(r) PROVE Governed
    <3>1. PICK t : t = reading[r] OBVIOUS
    <3>2. SealedNext(t.new, t.expected)
      BY <2>3, <3>1 DEF ReplacePolicy, ReadingAt, AccessInv, Holding
    <3>3. UNCHANGED admitted BY <2>3 DEF ReplacePolicy
    <3>4. CASE UNCHANGED policy BY <3>3, <3>4
    <3>5. CASE Revision = t.expected /\ policy' = t.new /\ grants' = t.new.digest
      <4>1. PolicyVerifies(policy', grants') BY <3>2, <3>5 DEF SealedNext, PolicyVerifies
      <4>2. policy # NoPolicy => policy'.revision = policy.revision + 1
        BY <3>2, <3>5 DEF SealedNext, Revision
      <4> QED BY <3>3, <4>1, <4>2
    <3> QED BY <2>3, <3>1, <3>4, <3>5 DEF ReplacePolicy
  <2>4. ASSUME NEW r \in Reader, FinalizeMigration(r) PROVE Governed
    <3>1. UNCHANGED <<admitted, grants>> BY <2>4 DEF FinalizeMigration
    <3>2. CASE UNCHANGED policy BY <3>1, <3>2
    <3>3. CASE policy.hmac = <<>> /\ policy' = Policy("selected", 0, grants)
      <4>1. PolicyVerifies(policy', grants') BY <3>1, <3>3 DEF Policy, PolicyVerifies
      <4> QED BY <3>1, <3>3, <4>1
    <3> QED BY <2>4, <3>2, <3>3 DEF FinalizeMigration
  <2> QED
    BY <2>1, <2>2, <2>3, <2>4 DEF AccessNext, SwitchModel, BeginAdmission, BeginReplacement,
       ReadGrants, ReadPending
<1> QED BY <1>1, <1>2, <1>3, PTL DEF AccessSpec, AccessGoverned

(***************************************************************************)
(* Provider plugins: archive, record and use, by the one Control that      *)
(* holds the store.                                                        *)
(***************************************************************************)
MaybeBundle == Bundle \union {NoBundle}

\* What a Control holds in memory is a record of these fields.
Process(p) ==
  /\ p = [up |-> p.up, release |-> p.release, active |-> p.active, last |-> p.last,
          lost |-> p.lost, polled |-> p.polled]
  /\ p.up \in BOOLEAN /\ p.lost \in BOOLEAN /\ p.active \in MaybeBundle

PluginTypeOK ==
  /\ incoming \in MaybeBundle /\ versions \subseteq Bundle
  /\ record \in [digest : MaybeBundle, revision : Nat]
  /\ view \in [digest : MaybeBundle, revision : Nat]
  /\ control = [c \in Control |-> control[c]] /\ \A c \in Control : Process(control[c])
  /\ op \in [Control -> Submission \union {NoOp}]

\* How far a submission has come says what archive, record and memory hold.
Submitted(o, p) ==
  /\ p.up
  /\ o.kind # "switch" => o.bundle \in chosen
  /\ o.kind = "switch" => o.revision <= record.revision
  /\ o.kind = "switch" /\ o.revision = record.revision => o.seen = record.digest
  /\ o.kind = "switch" /\ o.at \in {"archive", "record"} => o.revision = record.revision
  /\ o.at \in {"record", "activate", "incoming"} => o.bundle \in versions
  /\ o.at \in {"activate", "incoming"} => record.digest = o.bundle
  /\ o.at = "incoming" => o.kind = "switch" /\ p.active = o.bundle

\* A Control runs what the record says, except while it is about to.
Current(o, p) ==
  p.up /\ ~p.lost /\ (o = NoOp \/ o.at # "activate") => p.active = record.digest

Files ==
  /\ RecordRestorable
  /\ record.digest # NoBundle => record.digest \in chosen
  /\ incoming # NoBundle => incoming \in chosen
  /\ view.revision <= record.revision
  /\ view.revision = record.revision => view.digest = record.digest

PluginInv ==
  /\ PluginTypeOK /\ Files
  /\ \A c \in Control :
       /\ op[c] # NoOp => Submitted(op[c], control[c])
       /\ Current(op[c], control[c])
       /\ control[c].active \in chosen \union {NoBundle}

\* With one Control, a step leaves the files in order and its Control too.
LEMMA PluginStepOf ==
  ASSUME PluginInv, NEW c \in Control, \A d \in Control : d = c,
         NEW p, NEW o \in Submission \union {NoOp}, Process(p),
         control' = [control EXCEPT ![c] = p], op' = [op EXCEPT ![c] = o],
         incoming' \in MaybeBundle, versions' \subseteq Bundle,
         record' \in [digest : MaybeBundle, revision : Nat],
         view' \in [digest : MaybeBundle, revision : Nat], Files',
         o # NoOp => Submitted(o, p)', Current(o, p)', p.active \in chosen' \union {NoBundle}
  PROVE  PluginInv'
<1>1. control' = [d \in Control |-> control'[d]] /\ control'[c] = p BY DEF PluginInv, PluginTypeOK
<1>2. op' \in [Control -> Submission \union {NoOp}] /\ op'[c] = o BY DEF PluginInv, PluginTypeOK
<1>3. PluginTypeOK' BY <1>1, <1>2 DEF PluginTypeOK, Process
<1>4. \A d \in Control :
        /\ op'[d] # NoOp => Submitted(op[d], control[d])'
        /\ Current(op[d], control[d])'
        /\ control'[d].active \in chosen' \union {NoBundle}
  BY <1>1, <1>2 DEF Submitted, Current
<1> QED BY <1>3, <1>4 DEF PluginInv

LEMMA PluginInitially == ASSUME PluginInit PROVE PluginInv
<1>1. \A c \in Control : control[c] = Down /\ op[c] = NoOp BY DEF PluginInit
<1>2. Process(Down) /\ ~Down.up /\ Down.active = NoBundle BY DEF Process, Down, MaybeBundle
<1>3. PluginTypeOK BY <1>1, <1>2 DEF PluginInit, PluginTypeOK, MaybeBundle
<1>4. Files BY DEF PluginInit, Files, RecordRestorable
<1> QED BY <1>1, <1>2, <1>3, <1>4 DEF PluginInv, Current

\* What is known of a Control and its submission before a step.
Standing(c, p, o) ==
  /\ p = control[c] /\ o = op[c] /\ Process(p) /\ o \in Submission \union {NoOp}
  /\ o # NoOp => Submitted(o, p)
  /\ Current(o, p) /\ p.active \in chosen \union {NoBundle}
  /\ PluginTypeOK /\ Files
  /\ control = [control EXCEPT ![c] = p] /\ op = [op EXCEPT ![c] = o]

LEMMA ControlKnown ==
  ASSUME PluginInv, NEW c \in Control
  PROVE  \E p, o : Standing(c, p, o)
<1>1. PICK p, o : p = control[c] /\ o = op[c] OBVIOUS
<1>2. control = [control EXCEPT ![c] = p] /\ op = [op EXCEPT ![c] = o]
  BY <1>1 DEF PluginInv, PluginTypeOK
<1>3. Process(p) /\ o \in Submission \union {NoOp} BY <1>1 DEF PluginInv, PluginTypeOK
<1>4. (o # NoOp => Submitted(o, p)) /\ Current(o, p) /\ p.active \in chosen \union {NoBundle}
  BY <1>1 DEF PluginInv
<1> QED BY <1>1, <1>2, <1>3, <1>4 DEF PluginInv, Standing

LEMMA StartStep ==
  ASSUME PluginInv, NEW c \in Control, \A d \in Control : d = c, NEW r, NEW slow, Start(c, r, slow)
  PROVE  PluginInv'
<1>1. PICK p, o : Standing(c, p, o) BY ControlKnown
<1>2. ~p.up /\ UNCHANGED <<incoming, versions, record, op, view, chosen>> BY <1>1 DEF Start, Standing
<1>3. o = NoOp BY <1>1, <1>2 DEF Standing, Submitted
<1>4. PICK q : /\ control' = [control EXCEPT ![c] = q] /\ Process(q) /\ q.up
               /\ q.active = record.digest \/ (q.active = NoBundle /\ (record.digest # NoBundle => q.lost))
  <2>1. PICK b, ok : b = record.digest /\ ok = (b \in versions /\ Accepted(r, b) /\ ~slow) OBVIOUS
  <2>2. PICK q : q = [up |-> TRUE, release |-> r, polled |-> FALSE,
                      active |-> IF b # NoBundle /\ ok THEN b ELSE NoBundle,
                      last |-> IF b \in versions THEN b ELSE NoBundle,
                      lost |-> b # NoBundle /\ ~ok]
    OBVIOUS
  <2>3. control' = [control EXCEPT ![c] = q] BY <2>1, <2>2 DEF Start
  <2>4. /\ q = [up |-> q.up, release |-> q.release, active |-> q.active, last |-> q.last,
                lost |-> q.lost, polled |-> q.polled]
        /\ q.up = TRUE /\ q.active = (IF b # NoBundle /\ ok THEN b ELSE NoBundle)
        /\ q.lost = (b # NoBundle /\ ~ok)
    BY <2>2
  <2>5. b \in MaybeBundle BY <1>1, <2>1 DEF Standing, PluginTypeOK
  <2>6. Process(q) BY <2>4, <2>5 DEF Process, MaybeBundle
  <2> QED BY <2>1, <2>3, <2>4, <2>6
<1>5. Files' BY <1>1, <1>2 DEF Standing, Files, RecordRestorable
<1>6. Current(NoOp, q)' /\ q.active \in chosen' \union {NoBundle}
  BY <1>1, <1>2, <1>4 DEF Current, Standing, Files
<1>7. op' = [op EXCEPT ![c] = NoOp] BY <1>1, <1>2, <1>3 DEF Standing
<1> QED BY <1>1, <1>2, <1>4, <1>5, <1>6, <1>7, PluginStepOf DEF Standing, PluginTypeOK

LEMMA CrashStep ==
  ASSUME PluginInv, NEW c \in Control, \A d \in Control : d = c, Crash(c)
  PROVE  PluginInv'
<1>1. PICK p, o : Standing(c, p, o) BY ControlKnown
<1>2. PICK q : q = Down OBVIOUS
<1>3. Process(q) /\ ~q.up /\ q.active = NoBundle BY <1>2 DEF Process, Down, MaybeBundle
<1>4. /\ control' = [control EXCEPT ![c] = q] /\ op' = [op EXCEPT ![c] = NoOp]
      /\ UNCHANGED <<incoming, versions, record, view, chosen>>
  BY <1>2 DEF Crash
<1>5. Files' /\ Current(NoOp, q)' BY <1>1, <1>3, <1>4 DEF Standing, Files, RecordRestorable, Current
<1> QED BY <1>1, <1>3, <1>4, <1>5, PluginStepOf DEF Standing, PluginTypeOK

\* A submission that begins: it is in the archive, or chosen.
LEMMA SubmissionStep ==
  ASSUME PluginInv, NEW c \in Control, \A d \in Control : d = c,
         NEW b \in Bundle, NEW k \in {"poll", "upload", "switch"}, NEW n \in Nat, NEW seen \in MaybeBundle,
         NEW polled, control[c].up, op[c] = NoOp,
         op' = [op EXCEPT ![c] = [kind |-> k, bundle |-> b, at |-> "verify", revision |-> n, seen |-> seen]],
         control' = [control EXCEPT ![c].polled = polled],
         UNCHANGED <<versions, record, view>>, chosen \subseteq chosen', incoming' \in chosen' \union {NoBundle},
         incoming' \in MaybeBundle,
         IF k = "switch" THEN n <= record.revision /\ (n = record.revision => seen = record.digest)
         ELSE b \in chosen'
  PROVE  PluginInv'
<1>1. PICK p, o : Standing(c, p, o) BY ControlKnown
<1>2. PICK q : q = [p EXCEPT !.polled = polled] OBVIOUS
<1>3. control' = [control EXCEPT ![c] = q] BY <1>1, <1>2 DEF Standing
<1>4. /\ q = [up |-> p.up, release |-> p.release, active |-> p.active, last |-> p.last,
              lost |-> p.lost, polled |-> polled]
  BY <1>1, <1>2 DEF Standing, Process
<1>5. Process(q) /\ q.up = p.up /\ q.active = p.active /\ q.lost = p.lost
  BY <1>1, <1>4 DEF Standing, Process
<1>6. PICK s : s = [kind |-> k, bundle |-> b, at |-> "verify", revision |-> n, seen |-> seen] OBVIOUS
<1>7. /\ s \in Submission /\ s.kind = k /\ s.bundle = b /\ s.at = "verify" /\ s.revision = n /\ s.seen = seen
  BY <1>6 DEF Submission, MaybeBundle
<1>8. s # NoOp => Submitted(s, q)' BY <1>1, <1>5, <1>7 DEF Submitted, Standing
<1>9. Current(s, q)' /\ q.active \in chosen' \union {NoBundle}
  BY <1>1, <1>5, <1>7 DEF Current, Standing
<1>10. Files' BY <1>1 DEF Standing, Files, RecordRestorable
<1>11. op' = [op EXCEPT ![c] = s] BY <1>6
<1> QED BY <1>1, <1>3, <1>5, <1>7, <1>8, <1>9, <1>10, <1>11, PluginStepOf DEF Standing, PluginTypeOK

LEMMA PollStep ==
  ASSUME PluginInv, NEW c \in Control, \A d \in Control : d = c, Poll(c)
  PROVE  PluginInv'
<1>1. PICK p, o : Standing(c, p, o) BY ControlKnown
<1>2. /\ p.up /\ o = NoOp /\ control' = [control EXCEPT ![c].polled = TRUE]
      /\ UNCHANGED <<incoming, versions, record, view, chosen>>
  BY <1>1 DEF Poll, Standing
<1>3. CASE UNCHANGED op
  <2>1. PICK q : q = [p EXCEPT !.polled = TRUE] OBVIOUS
  <2>2. control' = [control EXCEPT ![c] = q] BY <1>1, <1>2, <2>1 DEF Standing
  <2>3. q = [up |-> p.up, release |-> p.release, active |-> p.active, last |-> p.last,
             lost |-> p.lost, polled |-> TRUE]
    BY <1>1, <2>1 DEF Standing, Process
  <2>4. Process(q) /\ q.up = p.up /\ q.active = p.active /\ q.lost = p.lost
    BY <1>1, <2>3 DEF Standing, Process
  <2>5. Files' /\ Current(NoOp, q)' /\ q.active \in chosen' \union {NoBundle}
    BY <1>1, <1>2, <2>4 DEF Standing, Files, RecordRestorable, Current
  <2>6. op' = [op EXCEPT ![c] = NoOp] BY <1>1, <1>2, <1>3 DEF Standing
  <2> QED BY <1>1, <1>2, <2>2, <2>4, <2>5, <2>6, PluginStepOf DEF Standing, PluginTypeOK
<1>4. CASE ~UNCHANGED op
  <2>1. /\ incoming # NoBundle
        /\ op' = [op EXCEPT ![c] = [kind |-> "poll", bundle |-> incoming, at |-> "verify",
                                    revision |-> 0, seen |-> NoBundle]]
    BY <1>4 DEF Poll, NothingNew
  <2>2. PICK b \in Bundle, k \in {"poll", "upload", "switch"}, n \in Nat, seen \in MaybeBundle,
             polled \in BOOLEAN :
          b = incoming /\ k = "poll" /\ n = 0 /\ seen = NoBundle /\ polled = TRUE
    BY <1>1, <2>1 DEF Standing, PluginTypeOK, MaybeBundle
  <2>3. op' = [op EXCEPT ![c] = [kind |-> k, bundle |-> b, at |-> "verify", revision |-> n, seen |-> seen]]
    BY <2>1, <2>2
  <2>4. control' = [control EXCEPT ![c].polled = polled] BY <1>2, <2>2
  <2>5. b \in chosen' /\ incoming' \in chosen' \union {NoBundle} /\ incoming' \in MaybeBundle
          /\ chosen \subseteq chosen' /\ k # "switch"
    BY <1>1, <1>2, <2>1, <2>2 DEF Standing, Files, PluginTypeOK
  <2>6. control[c].up /\ op[c] = NoOp BY <1>1, <1>2 DEF Standing
  <2> QED BY <1>2, <2>3, <2>4, <2>5, <2>6, SubmissionStep
<1> QED BY <1>3, <1>4

LEMMA SubmitStep ==
  ASSUME PluginInv, NEW c \in Control, \A d \in Control : d = c, NEW b \in Bundle,
         Upload(c, b) \/ BeginSwitch(c, b)
  PROVE  PluginInv'
<1>1. PICK p, o : Standing(c, p, o) BY ControlKnown
<1>2. /\ control[c].up /\ op[c] = NoOp /\ UNCHANGED <<versions, record, view, control>>
  BY DEF Upload, BeginSwitch, MaySubmit
<1>3. PICK polled : polled = p.polled OBVIOUS
<1>4. control' = [control EXCEPT ![c].polled = polled]
  <2>1. p = [p EXCEPT !.polled = polled] BY <1>1, <1>3 DEF Standing, Process
  <2> QED BY <1>1, <1>2, <2>1 DEF Standing
<1>5. CASE Upload(c, b)
  <2>1. /\ incoming' = b /\ chosen' = chosen \union {b}
        /\ op' = [op EXCEPT ![c] = [kind |-> "upload", bundle |-> b, at |-> "verify",
                                    revision |-> 0, seen |-> NoBundle]]
    BY <1>5 DEF Upload
  <2>2. PICK k \in {"poll", "upload", "switch"}, n \in Nat, seen \in MaybeBundle :
          k = "upload" /\ n = 0 /\ seen = NoBundle
    BY DEF MaybeBundle
  <2>3. op' = [op EXCEPT ![c] = [kind |-> k, bundle |-> b, at |-> "verify", revision |-> n, seen |-> seen]]
    BY <2>1, <2>2
  <2>4. b \in chosen' /\ incoming' \in chosen' \union {NoBundle} /\ incoming' \in MaybeBundle
          /\ chosen \subseteq chosen' /\ k # "switch"
    BY <2>1, <2>2 DEF MaybeBundle
  <2> QED BY <1>2, <1>4, <2>3, <2>4, SubmissionStep
<1>6. CASE BeginSwitch(c, b)
  <2>1. /\ UNCHANGED <<incoming, chosen>>
        /\ op' = [op EXCEPT ![c] = [kind |-> "switch", bundle |-> b, at |-> "verify",
                                    revision |-> view.revision, seen |-> view.digest]]
    BY <1>6 DEF BeginSwitch
  <2>2. PICK k \in {"poll", "upload", "switch"}, n \in Nat, seen \in MaybeBundle :
          k = "switch" /\ n = view.revision /\ seen = view.digest
    BY <1>1 DEF Standing, PluginTypeOK
  <2>3. op' = [op EXCEPT ![c] = [kind |-> k, bundle |-> b, at |-> "verify", revision |-> n, seen |-> seen]]
    BY <2>1, <2>2
  <2>4. incoming' \in chosen' \union {NoBundle} /\ incoming' \in MaybeBundle
          /\ chosen \subseteq chosen' /\ n <= record.revision /\ (n = record.revision => seen = record.digest)
    BY <1>1, <2>1, <2>2 DEF Standing, PluginTypeOK, Files
  <2> QED BY <1>2, <1>4, <2>2, <2>3, <2>4, SubmissionStep
<1> QED BY <1>5, <1>6

LEMMA RejectedStep ==
  ASSUME PluginInv, NEW c \in Control, \A d \in Control : d = c, op[c] # NoOp,
         op[c].at \in {"verify", "archive", "record"}, Rejected(c)
  PROVE  PluginInv'
<1>1. PICK p, o : Standing(c, p, o) BY ControlKnown
<1>2. PICK b : b = o.bundle OBVIOUS
<1>3. PICK q : q = [p EXCEPT !.last = b] OBVIOUS
<1>4. /\ control' = [control EXCEPT ![c] = q] /\ op' = [op EXCEPT ![c] = NoOp]
      /\ UNCHANGED <<incoming, versions, record, view, chosen>>
  BY <1>1, <1>2, <1>3 DEF Standing, Rejected
<1>5. q = [up |-> p.up, release |-> p.release, active |-> p.active, last |-> b,
           lost |-> p.lost, polled |-> p.polled]
  BY <1>1, <1>3 DEF Standing, Process
<1>6. Process(q) /\ q.up = p.up /\ q.active = p.active /\ q.lost = p.lost
  BY <1>1, <1>5 DEF Standing, Process
<1>7. Files' /\ Current(NoOp, q)' /\ q.active \in chosen' \union {NoBundle}
  BY <1>1, <1>4, <1>6 DEF Standing, Files, RecordRestorable, Current
<1> QED BY <1>1, <1>4, <1>6, <1>7, PluginStepOf DEF Standing, PluginTypeOK

\* A submission that goes on keeps what it is for.
LEMMA OpGoesTo ==
  ASSUME PluginInv, NEW c \in Control, op[c] # NoOp, NEW at, OpGoes(c, at),
         at \in {"verify", "archive", "record", "activate", "incoming"}
  PROVE  \E s \in Submission :
           /\ op' = [op EXCEPT ![c] = s]
           /\ s.at = at /\ s.kind = op[c].kind /\ s.bundle = op[c].bundle
           /\ s.revision = op[c].revision /\ s.seen = op[c].seen
<1>1. PICK o \in Submission : o = op[c] BY DEF PluginInv, PluginTypeOK
<1>2. PICK s : s = [o EXCEPT !.at = at] OBVIOUS
<1>3. s = [kind |-> o.kind, bundle |-> o.bundle, at |-> at, revision |-> o.revision, seen |-> o.seen]
  BY <1>1, <1>2 DEF Submission
<1>4. s \in Submission BY <1>1, <1>3 DEF Submission
<1>5. op' = [op EXCEPT ![c] = s] BY <1>1, <1>2 DEF OpGoes, PluginInv, PluginTypeOK
<1> QED BY <1>1, <1>3, <1>4, <1>5

LEMMA VerifyStep ==
  ASSUME PluginInv, NEW c \in Control, \A d \in Control : d = c, Verify(c)
  PROVE  PluginInv'
<1>1. CASE Rejected(c) BY <1>1, RejectedStep DEF Verify
<1>2. CASE /\ OpGoes(c, "archive") /\ SwitchCurrent(c)
           /\ UNCHANGED <<incoming, versions, record, control, view, upgrading, submissions, chosen>>
  <2>1. PICK p, o : Standing(c, p, o) BY ControlKnown
  <2>2. PICK s \in Submission :
           /\ op' = [op EXCEPT ![c] = s]
           /\ s.at = "archive" /\ s.kind = op[c].kind /\ s.bundle = op[c].bundle
           /\ s.revision = op[c].revision /\ s.seen = op[c].seen
    BY <1>2, OpGoesTo DEF Verify
  <2>3. o # NoOp /\ o.at = "verify" BY <2>1 DEF Verify, Standing
  <2>4. Submitted(s, p)' BY <1>2, <2>1, <2>2, <2>3 DEF Submitted, Standing, SwitchCurrent
  <2>5. Current(s, p)' /\ Files' /\ p.active \in chosen' \union {NoBundle}
    BY <1>2, <2>1, <2>2, <2>3 DEF Current, Standing, Files, RecordRestorable
  <2> QED BY <1>2, <2>1, <2>2, <2>4, <2>5, PluginStepOf DEF Standing, PluginTypeOK
<1> QED BY <1>1, <1>2 DEF Verify

LEMMA WritesStep ==
  ASSUME PluginInv, NEW c \in Control, \A d \in Control : d = c, ArchiveVersion(c) \/ WriteRecord(c)
  PROVE  PluginInv'
<1>1. PICK p, o : Standing(c, p, o) BY ControlKnown
<1>2. CASE ArchiveVersion(c)
  <2>1. PICK s \in Submission :
           /\ op' = [op EXCEPT ![c] = s]
           /\ s.at = "record" /\ s.kind = op[c].kind /\ s.bundle = op[c].bundle
           /\ s.revision = op[c].revision /\ s.seen = op[c].seen
    BY <1>2, OpGoesTo DEF ArchiveVersion
  <2>2. /\ o # NoOp /\ o.at = "archive" /\ versions' = versions \union {o.bundle}
        /\ UNCHANGED <<incoming, record, control, view, chosen>>
    BY <1>1, <1>2 DEF ArchiveVersion, Standing
  <2>3. Submitted(s, p)' BY <1>1, <2>1, <2>2 DEF Submitted, Standing
  <2>4. Current(s, p)' /\ Files' /\ p.active \in chosen' \union {NoBundle}
    BY <1>1, <2>1, <2>2 DEF Current, Standing, Files, RecordRestorable
  <2>5. versions' \subseteq Bundle BY <1>1, <2>2 DEF Standing, PluginTypeOK, Submission
  <2> QED BY <1>1, <2>1, <2>2, <2>3, <2>4, <2>5, PluginStepOf DEF Standing, PluginTypeOK
<1>3. CASE WriteRecord(c)
  <2>1. PICK s \in Submission :
           /\ op' = [op EXCEPT ![c] = s]
           /\ s.at = "activate" /\ s.kind = op[c].kind /\ s.bundle = op[c].bundle
           /\ s.revision = op[c].revision /\ s.seen = op[c].seen
    BY <1>3, OpGoesTo DEF WriteRecord
  <2>2. /\ o # NoOp /\ o.at = "record"
        /\ record' = [digest |-> o.bundle, revision |-> record.revision + 1]
        /\ chosen' = IF o.kind = "switch" THEN chosen \union {o.bundle} ELSE chosen
        /\ UNCHANGED <<incoming, versions, control, view>>
    BY <1>1, <1>3 DEF WriteRecord, Standing
  <2>3. /\ record' \in [digest : MaybeBundle, revision : Nat] /\ record'.digest = o.bundle
        /\ record.revision \in Nat /\ record'.revision = record.revision + 1
    BY <1>1, <2>2 DEF Standing, PluginTypeOK, Submission, MaybeBundle
  <2>4. o.bundle \in chosen' /\ chosen \subseteq chosen' /\ o.bundle \in versions
    BY <1>1, <2>2 DEF Standing, Submitted
  <2>5. s.revision \in Nat /\ s.revision = o.revision /\ s.bundle = o.bundle /\ s.kind = o.kind
          /\ (o.kind = "switch" => o.revision <= record.revision)
    BY <1>1, <2>1, <2>2 DEF Submission, Standing, Submitted
  <2>6. Submitted(s, p)'
    BY <1>1, <2>1, <2>2, <2>3, <2>4, <2>5 DEF Submitted, Standing
  <2>7. Current(s, p)' /\ p.active \in chosen' \union {NoBundle}
    BY <1>1, <2>1, <2>4, PluginAssumption DEF Current, Standing
  <2>8. view.revision \in Nat BY <1>1 DEF Standing, PluginTypeOK
  <2>9. Files' BY <1>1, <2>2, <2>3, <2>4, <2>8 DEF Standing, Files, RecordRestorable
  <2> QED BY <1>1, <2>1, <2>2, <2>3, <2>6, <2>7, <2>9, PluginStepOf DEF Standing, PluginTypeOK
<1> QED BY <1>2, <1>3

LEMMA ActivateStep ==
  ASSUME PluginInv, NEW c \in Control, \A d \in Control : d = c, Activate(c)
  PROVE  PluginInv'
<1>1. PICK p, o : Standing(c, p, o) BY ControlKnown
<1>2. /\ o # NoOp /\ o.at = "activate" /\ o \in Submission
      /\ UNCHANGED <<incoming, versions, record, view>>
      /\ chosen' = IF o.kind = "upload" THEN {o.bundle, incoming} ELSE chosen
  BY <1>1 DEF Activate, Standing
<1>3. PICK b, gone : b = o.bundle /\ gone = (p.lost /\ o.kind # "upload") OBVIOUS
<1>4. PICK q : q = [p EXCEPT !.active = b, !.last = b, !.lost = gone] OBVIOUS
<1>5. control' = [control EXCEPT ![c] = q] BY <1>1, <1>3, <1>4 DEF Activate, Standing
<1>6. q = [up |-> p.up, release |-> p.release, active |-> b, last |-> b, lost |-> gone,
           polled |-> p.polled]
  BY <1>1, <1>4 DEF Standing, Process
<1>7. gone \in BOOLEAN /\ b \in Bundle BY <1>1, <1>2, <1>3 DEF Standing, Process, Submission
<1>8. Process(q) /\ q.up = p.up /\ q.active = b
  BY <1>1, <1>6, <1>7 DEF Standing, Process, MaybeBundle
<1>9. record.digest = b /\ b \in chosen' /\ b \in versions /\ p.up
  BY <1>1, <1>2, <1>3, PluginAssumption DEF Standing, Submitted, Files, Submission
<1>10. incoming # NoBundle => incoming \in chosen' BY <1>1, <1>2 DEF Standing, Files
<1>11. Files' BY <1>1, <1>2, <1>9, <1>10 DEF Standing, Files, RecordRestorable
<1>12. CASE o.kind = "switch"
  <2>1. PICK s \in Submission :
           /\ op' = [op EXCEPT ![c] = s]
           /\ s.at = "incoming" /\ s.kind = op[c].kind /\ s.bundle = op[c].bundle
           /\ s.revision = op[c].revision /\ s.seen = op[c].seen
    BY <1>1, <1>2, <1>12, OpGoesTo DEF Activate, Standing
  <2>2. Submitted(s, q)' /\ Current(s, q)'
    BY <1>1, <1>2, <1>3, <1>8, <1>9, <1>12, <2>1 DEF Submitted, Standing, Current
  <2> QED BY <1>1, <1>2, <1>5, <1>8, <1>9, <1>11, <2>1, <2>2, PluginStepOf DEF Standing, PluginTypeOK
<1>13. CASE o.kind # "switch"
  <2>1. op' = [op EXCEPT ![c] = NoOp] BY <1>1, <1>13 DEF Activate, Standing
  <2>2. Current(NoOp, q)' BY <1>2, <1>8, <1>9 DEF Current
  <2> QED BY <1>1, <1>2, <1>5, <1>8, <1>9, <1>11, <2>1, <2>2, PluginStepOf DEF Standing, PluginTypeOK
<1> QED BY <1>12, <1>13

LEMMA SwitchDoneStep ==
  ASSUME PluginInv, NEW c \in Control, \A d \in Control : d = c, SwitchDone(c)
  PROVE  PluginInv'
<1>1. PICK p, o : Standing(c, p, o) BY ControlKnown
<1>2. /\ o # NoOp /\ o.at = "incoming" /\ o \in Submission /\ op' = [op EXCEPT ![c] = NoOp]
      /\ \/ incoming' = o.bundle /\ chosen' = {o.bundle}
         \/ UNCHANGED <<incoming, chosen>>
      /\ UNCHANGED <<versions, record, control, view>>
  BY <1>1 DEF SwitchDone, Standing, IncomingAfterSwitch
<1>3. record.digest = o.bundle /\ p.active = o.bundle /\ o.bundle \in Bundle
  BY <1>1, <1>2 DEF Standing, Submitted, Submission
<1>4. incoming' \in MaybeBundle BY <1>1, <1>2, <1>3 DEF Standing, PluginTypeOK, MaybeBundle
<1>5. Files' BY <1>1, <1>2, <1>3 DEF Standing, Files, RecordRestorable
<1>6. Current(NoOp, p)' /\ p.active \in chosen' \union {NoBundle}
  BY <1>1, <1>2, <1>3 DEF Standing, Current
<1> QED BY <1>1, <1>2, <1>4, <1>5, <1>6, PluginStepOf DEF Standing, PluginTypeOK

\* What happens beside the Controls.
LEMMA AroundStep ==
  ASSUME PluginInv, ViewPlugins \/ QueueOrFinishJob \/ \E b \in Bundle : Drop(b)
  PROVE  PluginInv'
<1>1. /\ UNCHANGED <<versions, record, control, op>> /\ view' \in {view, record}
      /\ \/ UNCHANGED <<incoming, chosen>>
         \/ \E b \in Bundle : incoming' = b /\ chosen' = chosen \union {b}
  BY DEF ViewPlugins, QueueOrFinishJob, Drop
<1>2. PluginTypeOK' BY <1>1 DEF PluginInv, PluginTypeOK, MaybeBundle
<1>3. Files' BY <1>1 DEF PluginInv, PluginTypeOK, Files, RecordRestorable
<1>4. ASSUME NEW c \in Control
      PROVE  /\ op'[c] # NoOp => Submitted(op[c], control[c])'
             /\ Current(op[c], control[c])'
             /\ control'[c].active \in chosen' \union {NoBundle}
  BY <1>1 DEF PluginInv, Submitted, Current
<1> QED BY <1>2, <1>3, <1>4 DEF PluginInv

LEMMA PluginStep ==
  ASSUME PluginInv, \A c, d \in Control : c = d, [PluginNext]_pluginVars
  PROVE  PluginInv'
<1>1. CASE UNCHANGED pluginVars
  BY <1>1 DEF pluginVars, PluginInv, PluginTypeOK, Files, RecordRestorable, Submitted, Current
<1>2. ASSUME NEW c \in Control, NEW r, NEW slow, Start(c, r, slow) PROVE PluginInv'
  BY <1>2, StartStep
<1>3. ASSUME NEW c \in Control,
             \/ Crash(c) \/ Poll(c) \/ Verify(c) \/ ArchiveVersion(c)
             \/ WriteRecord(c) \/ StepFails(c) \/ Activate(c) \/ SwitchDone(c)
      PROVE  PluginInv'
  BY <1>3, CrashStep, PollStep, VerifyStep, WritesStep, RejectedStep, ActivateStep, SwitchDoneStep
     DEF StepFails
<1>4. ASSUME NEW c \in Control, NEW b \in Bundle, Upload(c, b) \/ BeginSwitch(c, b) PROVE PluginInv'
  BY <1>4, SubmitStep
<1> QED BY <1>1, <1>2, <1>3, <1>4, AroundStep DEF PluginNext

\* For any archives and releases and any number of crashes, failures and
\* submissions: what the record names can be restored, a Control runs it, only
\* a later submission changes what was reported as done, and a switch replaces
\* the activation its administrator saw.  One Control is at work: that of the other
\* slot learns of an activation when it starts.
THEOREM PluginCoherence ==
  ASSUME \A c, d \in Control : c = d
  PROVE  PluginSpec => []PluginsCoherent
<1>1. PluginInit => PluginInv BY PluginInitially
<1>2. PluginInv /\ [PluginNext]_pluginVars => PluginInv' BY PluginStep
<1>3. PluginInv => PluginsCoherent
  <2> SUFFICES ASSUME PluginInv PROVE PluginsCoherent OBVIOUS
  <2>1. RecordRestorable BY DEF PluginInv, Files
  <2>2. ActiveAsRecorded BY DEF PluginInv, ActiveAsRecorded, Current
  <2>3. ChoiceHolds BY DEF PluginInv, ChoiceHolds
  <2>4. SwitchReplacesSeen BY DEF PluginInv, SwitchReplacesSeen, Submitted
  <2> QED BY <2>1, <2>2, <2>3, <2>4 DEF PluginsCoherent
<1> QED BY <1>1, <1>2, <1>3, PTL DEF PluginSpec

(***************************************************************************)
(* Upstream accounts, their credentials, connections and offers.           *)
(***************************************************************************)
\* The rows have their types, and every id in use was drawn.
UpstreamTables ==
  /\ account \in [Ident -> AccountRow \union {NoRecord}]
  /\ credential \in [Ident -> CredentialRow \union {NoRecord}]
  /\ leases \in [Ident -> LeaseRow \union {NoRecord}]
  /\ connection \in [Channel -> ConnectionRow \union {NoRecord}]
  /\ models \in [Model -> ModelRow \union {NoRecord}]
  /\ offers \subseteq (Ident \union Channel) \X Model
  /\ issued \in Nat
  /\ \A i \in Ident : account[i] # NoRecord \/ credential[i] # NoRecord => i \in drawn
  /\ \A c \in Ident : credential[c] # NoRecord => credential[c].secret.token <= issued
  /\ IsFiniteSet(Rows(account))

\* A handler that is about to create an account or a credential.
Enrolls(w) ==
  /\ w.step \in {"resolve", "create", "credential"} =>
       w.subject \in Subject /\ w.token \in Nat /\ w.token <= issued
  /\ w.step = "create" => w.id \in Ident /\ w.id \in drawn /\ account[w.id] = NoRecord
  /\ w.step = "credential" =>
       /\ w.account \in Ident /\ w.account \in drawn
       /\ account[w.account] # NoRecord => account[w.account].subject = w.subject

\* A handler that refreshes a credential: what it saw, the answer included, is
\* newer than the row exactly as long as the revision is the one it saw.
Refreshes(w) ==
  /\ w.step \in {"lease", "decrypt", "call", "commit"} => w.credential \in Ident
  /\ w.step = "lease" => w.revision \in Nat
  /\ w.step \in {"call", "commit"} =>
       /\ w = [step |-> w.step, credential |-> w.credential, account |-> w.account,
               revision |-> w.revision, token |-> w.token]
       /\ w.account \in Ident /\ w.revision \in Nat /\ w.token \in Nat /\ w.token <= issued
       /\ w.credential \in drawn
       /\ credential[w.credential] # NoRecord =>
            /\ credential[w.credential].account = w.account
            /\ w.revision <= credential[w.credential].revision
            /\ w.step = "commit" /\ credential[w.credential].revision = w.revision =>
                 w.token > credential[w.credential].secret.token

\* A handler that changes a connection or what is offered.
Manages(w) ==
  /\ w.step = "sync" => w.account \in Ident
  /\ w.step \in {"update", "discovered", "listed"} =>
       w.connection \in Channel /\ connection[w.connection] # NoRecord
  /\ w.step = "update" =>
       /\ w.revision \in Nat /\ w.keyRevision \in Nat /\ w.status \in Status /\ w.rotating \in BOOLEAN
       /\ w.secret = Sealed(w.connection, w.connection, w.keyRevision, w.secret.token)
       /\ w.secret.token \in Nat
       /\ w.revision <= connection[w.connection].revision
       /\ w.revision = connection[w.connection].revision =>
            w.keyRevision = connection[w.connection].keyRevision + 1

UpTask(w) == w # Free => Enrolls(w) /\ Refreshes(w) /\ Manages(w)

\* The id that a handler is about to use for an account is its own.
Reserves(w, i) == w # Free /\ w.step = "create" /\ w.id = i
Names(w, i) == w # Free /\ ((w.step = "create" /\ w.id = i) \/ (w.step = "credential" /\ w.account = i))
IdsApart(h, w) == \A i \in Ident : Reserves(w, i) => \A g \in Worker : g # h => ~Names(work[g], i)

UpInv ==
  /\ UpstreamTables /\ UpstreamRowsCoherent
  /\ work = [h \in Worker |-> work[h]]
  /\ \A h \in Worker : UpTask(work[h]) /\ IdsApart(h, work[h])

\* How rows change: an account keeps its subject and appears only under one of
\* the ids that a handler had reserved; a credential is replaced only by its
\* next revision, with a later token, and an id is not used again.
Evolves(new) ==
  /\ drawn \subseteq drawn' /\ issued <= issued'
  /\ \A i \in Ident : account'[i] # NoRecord =>
       i \in new \/ (account[i] # NoRecord /\ account'[i].subject = account[i].subject)
  /\ \A c \in Ident : credential'[c] \notin {NoRecord, credential[c]} =>
       \/ credential[c] = NoRecord /\ c \notin drawn
       \/ /\ credential[c] # NoRecord /\ credential'[c].account = credential[c].account
          /\ credential'[c].revision = credential[c].revision + 1
          /\ credential'[c].secret.token > credential[c].secret.token
  /\ \A k \in Channel : connection[k] # NoRecord /\ connection'[k] # connection[k] =>
       /\ connection'[k] # NoRecord /\ connection'[k].revision = connection[k].revision + 1
       /\ connection'[k].secret # connection[k].secret =>
            connection'[k].keyRevision = connection[k].keyRevision + 1

Spared(w, new) == \A i \in new : ~Names(w, i)

LEMMA EnrollsKept ==
  ASSUME UpInv, UpstreamTables', NEW new, Evolves(new), NEW w, w # Free, UpTask(w), Spared(w, new)
  PROVE  Enrolls(w)'
<1>1. CASE w.step = "create"
  BY <1>1 DEF UpTask, Enrolls, Evolves, UpInv, UpstreamTables, Spared, Names
<1>2. CASE w.step = "credential"
  BY <1>2 DEF UpTask, Enrolls, Evolves, UpInv, UpstreamTables, Spared, Names
<1>3. CASE w.step \notin {"create", "credential"}
  BY <1>3 DEF UpTask, Enrolls, Evolves, UpInv, UpstreamTables
<1> QED BY <1>1, <1>2, <1>3

LEMMA RefreshesKept ==
  ASSUME UpInv, UpstreamTables', NEW new, Evolves(new), NEW w, w # Free, UpTask(w)
  PROVE  Refreshes(w)'
<1>1. CASE w.step \in {"call", "commit"}
  <2> DEFINE c == w.credential  old == credential[c]  now == credential'[c]
  <2>1. /\ c \in Ident /\ c \in drawn' /\ w.account \in Ident /\ w.revision \in Nat /\ w.token \in Nat
        /\ w.token <= issued'
        /\ w = [step |-> w.step, credential |-> w.credential, account |-> w.account,
                revision |-> w.revision, token |-> w.token]
    BY <1>1 DEF UpTask, Refreshes, Evolves, UpInv, UpstreamTables
  <2>2. SUFFICES ASSUME now # NoRecord
                 PROVE  /\ now.account = w.account /\ w.revision <= now.revision
                        /\ w.step = "commit" /\ now.revision = w.revision => w.token > now.secret.token
    BY <1>1, <2>1 DEF Refreshes
  <2>3. CASE now = old
    BY <1>1, <2>1, <2>2, <2>3 DEF UpTask, Refreshes
  <2>4. CASE now # old
    <3>1. c \in drawn BY <1>1 DEF UpTask, Refreshes
    <3>2. /\ old # NoRecord /\ now.account = old.account /\ now.revision = old.revision + 1
      BY <2>1, <2>2, <2>4, <3>1 DEF Evolves
    <3>3. old \in CredentialRow BY <2>1, <3>2 DEF UpInv, UpstreamTables
    <3>4. old.revision \in Nat /\ old.account = w.account /\ w.revision <= old.revision
      BY <1>1, <3>2, <3>3 DEF UpTask, Refreshes, CredentialRow
    <3> QED BY <2>1, <3>2, <3>4
  <2> QED BY <2>3, <2>4
<1>2. CASE w.step \notin {"call", "commit"}
  BY <1>2 DEF UpTask, Refreshes
<1> QED BY <1>1, <1>2

LEMMA ManagesKept ==
  ASSUME UpInv, UpstreamTables', NEW new, Evolves(new), NEW w, w # Free, UpTask(w)
  PROVE  Manages(w)'
<1>1. CASE w.step \in {"update", "discovered", "listed"}
  <2> DEFINE k == w.connection  old == connection[k]  now == connection'[k]
  <2>1. k \in Channel /\ old # NoRecord BY <1>1 DEF UpTask, Manages
  <2>2. /\ now # NoRecord
        /\ now # old => now.revision = old.revision + 1
    BY <2>1 DEF Evolves
  <2>3. old \in ConnectionRow BY <2>1 DEF UpInv, UpstreamTables
  <2>4. old.revision \in Nat BY <2>3 DEF ConnectionRow
  <2>5. CASE w.step # "update"
    BY <1>1, <2>1, <2>2, <2>5 DEF Manages
  <2>6. CASE w.step = "update"
    <3>1. /\ w.revision \in Nat /\ w.keyRevision \in Nat /\ w.status \in Status /\ w.rotating \in BOOLEAN
          /\ w.secret = Sealed(w.connection, w.connection, w.keyRevision, w.secret.token)
          /\ w.secret.token \in Nat
          /\ w.revision <= old.revision
          /\ w.revision = old.revision => w.keyRevision = old.keyRevision + 1
      BY <2>6 DEF UpTask, Manages
    <3>2. /\ w.revision <= now.revision
          /\ w.revision = now.revision => w.keyRevision = now.keyRevision + 1
      <4>1. CASE now = old BY <3>1, <4>1
      <4>2. CASE now # old
        <5>1. now.revision = old.revision + 1 BY <2>2, <4>2
        <5> HIDE DEF old, now
        <5> QED BY <2>4, <3>1, <5>1
      <4> QED BY <4>1, <4>2
    <3> QED BY <2>1, <2>2, <2>6, <3>1, <3>2 DEF Manages, Sealed
  <2> QED BY <2>5, <2>6
<1>2. CASE w.step \notin {"update", "discovered", "listed"}
  BY <1>2 DEF UpTask, Manages
<1> QED BY <1>1, <1>2

LEMMA UpTaskKept ==
  ASSUME UpInv, UpstreamTables', NEW new, Evolves(new), NEW w, UpTask(w), Spared(w, new)
  PROVE  UpTask(w)'
BY EnrollsKept, RefreshesKept, ManagesKept DEF UpTask

\* What is left to show of a step: the rows as it leaves them, and the task of
\* the handler that takes it.
LEMMA UpStepOf ==
  ASSUME UpInv, NEW new, Evolves(new), UpstreamTables', UpstreamRowsCoherent',
         NEW h \in Worker, NEW t, work' = [work EXCEPT ![h] = t],
         UpTask(t)', \A g \in Worker : g # h => Spared(work[g], new),
         \A i \in Ident : Names(t, i) =>
           \A g \in Worker : g # h => (~Reserves(work[g], i) /\ (Reserves(t, i) => ~Names(work[g], i)))
  PROVE  UpInv' /\ SecretsStep
<1>1. work' = [g \in Worker |-> work'[g]] BY DEF UpInv
<1>2. work'[h] = t /\ \A g \in Worker : g # h => work'[g] = work[g] BY DEF UpInv
<1>3. ASSUME NEW g \in Worker PROVE UpTask(work[g])'
  <2>1. CASE g = h BY <1>2, <2>1 DEF UpTask, Enrolls, Refreshes, Manages
  <2>2. CASE g # h
    <3>1. PICK w : w = work[g] OBVIOUS
    <3>2. UpTask(w) /\ Spared(w, new) BY <2>2, <3>1 DEF UpInv
    <3>3. UpTask(w)' BY <3>2, UpTaskKept
    <3> QED BY <1>2, <2>2, <3>1, <3>3 DEF UpTask, Enrolls, Refreshes, Manages
  <2> QED BY <2>1, <2>2
<1>4. ASSUME NEW g \in Worker PROVE IdsApart(g, work[g])'
  <2>1. SUFFICES ASSUME NEW i \in Ident, Reserves(work'[g], i), NEW f \in Worker, f # g
                 PROVE  ~Names(work'[f], i)
    BY DEF IdsApart
  <2>2. CASE g = h BY <1>2, <2>1, <2>2 DEF Names, Reserves
  <2>3. CASE g # h /\ f # h BY <1>2, <2>1, <2>3 DEF UpInv, IdsApart
  <2>4. CASE g # h /\ f = h BY <1>2, <2>1, <2>4
  <2> QED BY <2>2, <2>3, <2>4
<1>5. SecretsStep BY DEF Evolves, SecretsStep
<1> QED BY <1>1, <1>3, <1>4, <1>5 DEF UpInv

LEMMA UpStill ==
  ASSUME UpInv, Evolves({}), UpstreamTables', UpstreamRowsCoherent', UNCHANGED work
  PROVE  UpInv' /\ SecretsStep
<1>1. ASSUME NEW g \in Worker PROVE UpTask(work[g])'
  <2>1. PICK w : w = work[g] OBVIOUS
  <2>2. UpTask(w) /\ Spared(w, {}) BY <2>1 DEF UpInv, Spared
  <2>3. UpTask(w)' BY <2>2, UpTaskKept
  <2> QED BY <2>1, <2>3 DEF UpTask, Enrolls, Refreshes, Manages
<1>2. SecretsStep BY DEF Evolves, SecretsStep
<1> QED BY <1>1, <1>2 DEF UpInv, IdsApart

\* A handler is done.
LEMMA UpLeaves ==
  ASSUME UpInv, Evolves({}), UpstreamTables', UpstreamRowsCoherent', NEW h \in Worker, Leaves(h)
  PROVE  UpInv' /\ SecretsStep
<1>1. PICK t : t = Free OBVIOUS
<1>2. work' = [work EXCEPT ![h] = t] /\ UpTask(t)' BY <1>1 DEF Leaves, Goes, UpTask
<1>3. \A i \in Ident : ~Names(t, i) BY <1>1 DEF Names
<1>4. \A g \in Worker : Spared(work[g], {}) BY DEF Spared
<1> QED BY <1>2, <1>3, <1>4, UpStepOf

\* A handler goes on to something other than the creation of an account.
LEMMA UpGoes ==
  ASSUME UpInv, Evolves({}), UpstreamTables', UpstreamRowsCoherent', NEW h \in Worker, NEW t,
         work' = [work EXCEPT ![h] = t], UpTask(t)', t.step \notin {"create", "credential"}
  PROVE  UpInv' /\ SecretsStep
<1>1. \A i \in Ident : ~Names(t, i) BY DEF Names
<1>2. \A g \in Worker : Spared(work[g], {}) BY DEF Spared
<1> QED BY <1>1, <1>2, UpStepOf

LEMMA RowsUntouched ==
  ASSUME UpInv, UNCHANGED <<accountVars, catalogVars>>, drawn \subseteq drawn', issued' \in Nat,
         issued <= issued'
  PROVE  Evolves({}) /\ UpstreamTables' /\ UpstreamRowsCoherent'
<1>1. UNCHANGED <<account, credential, leases, connection, models, offers>> BY DEF accountVars, catalogVars
<1>2. Evolves({}) BY <1>1 DEF Evolves
<1>3. \A c \in Ident : credential[c] # NoRecord => credential[c].secret.token \in Nat
  BY DEF UpInv, UpstreamTables, CredentialRow
<1>4. UpstreamTables'
  <2>1. \A c \in Ident : credential[c] # NoRecord => credential[c].secret.token <= issued'
    BY <1>3 DEF UpInv, UpstreamTables
  <2> QED BY <1>1, <2>1 DEF UpInv, UpstreamTables, Rows
<1>5. UpstreamRowsCoherent'
  BY <1>1 DEF UpInv, UpstreamRowsCoherent, AccountsUnique, CredentialsFit, KeysFit, OffersOwned, Rows
<1> QED BY <1>2, <1>4, <1>5

\* Steps that write no row.
LEMMA SessionStep ==
  ASSUME UpInv, NEW e, StartEnrollment(e) \/ CancelEnrollment(e) \/ SessionExpires(e)
  PROVE  UpInv' /\ SecretsStep
<1>1. UNCHANGED <<accountVars, catalogVars, drawn, issued, work>>
  BY DEF StartEnrollment, CancelEnrollment, SessionExpires
<1>2. issued \in Nat BY DEF UpInv, UpstreamTables
<1>3. issued' \in Nat /\ issued <= issued' /\ drawn \subseteq drawn' BY <1>1, <1>2
<1> QED BY <1>1, <1>3, RowsUntouched, UpStill

LEMMA GivesUpStep ==
  ASSUME UpInv, NEW h \in Worker, ExchangeFails(h) \/ Dies(h)
  PROVE  UpInv' /\ SecretsStep
<1>1. UNCHANGED <<accountVars, catalogVars, drawn, issued>> /\ Leaves(h)
  BY DEF ExchangeFails, Dies
<1>2. issued \in Nat BY DEF UpInv, UpstreamTables
<1>3. issued' \in Nat /\ issued <= issued' /\ drawn \subseteq drawn' BY <1>1, <1>2
<1> QED BY <1>1, <1>3, RowsUntouched, UpLeaves

LEMMA BeginExchangeStep ==
  ASSUME UpInv, NEW h \in Worker, NEW e, BeginExchange(h, e)
  PROVE  UpInv' /\ SecretsStep
<1>1. UNCHANGED <<accountVars, catalogVars, drawn, issued>> BY DEF BeginExchange
<1>2. issued \in Nat BY DEF UpInv, UpstreamTables
<1>3. issued' \in Nat /\ issued <= issued' /\ drawn \subseteq drawn' BY <1>1, <1>2
<1>4. PICK t : t = [step |-> "exchange", session |-> e] OBVIOUS
<1>5. work' = [work EXCEPT ![h] = t] BY <1>4 DEF BeginExchange, Takes
<1>6. t.step = "exchange" BY <1>4
<1>7. UpTask(t)' BY <1>6 DEF UpTask, Enrolls, Refreshes, Manages
<1> QED BY <1>1, <1>3, <1>5, <1>6, <1>7, RowsUntouched, UpGoes

LEMMA ExchangeSucceedsStep ==
  ASSUME UpInv, NEW h \in Worker, NEW s \in Subject, ExchangeSucceeds(h, s)
  PROVE  UpInv' /\ SecretsStep
<1>1. UNCHANGED <<accountVars, catalogVars, drawn>> /\ issued' = issued + 1 BY DEF ExchangeSucceeds
<1>2. issued \in Nat BY DEF UpInv, UpstreamTables
<1>3. issued' \in Nat /\ issued <= issued' /\ drawn \subseteq drawn' BY <1>1, <1>2
<1>4. PICK t : t = [step |-> "resolve", subject |-> s, token |-> issued + 1] OBVIOUS
<1>5. work' = [work EXCEPT ![h] = t] BY <1>4 DEF ExchangeSucceeds, Goes
<1>6. t.step = "resolve" /\ t.subject = s /\ t.token = issued' BY <1>1, <1>4
<1>7. UpTask(t)' BY <1>3, <1>6 DEF UpTask, Enrolls, Refreshes, Manages
<1> QED BY <1>1, <1>3, <1>5, <1>6, <1>7, RowsUntouched, UpGoes

\* A handler that found the account of its subject.
LEMMA FoundStep ==
  ASSUME UpInv, NEW h \in Worker, NEW s \in Subject, NEW n \in Nat, n <= issued, NEW i \in AccountsOf(s),
         work' = [work EXCEPT ![h] = [step |-> "credential", account |-> i, subject |-> s, token |-> n]],
         UNCHANGED <<accountVars, catalogVars, drawn, issued>>
  PROVE  UpInv' /\ SecretsStep
<1>1. issued \in Nat BY DEF UpInv, UpstreamTables
<1>2. issued' \in Nat /\ issued <= issued' /\ drawn \subseteq drawn' /\ n <= issued' BY <1>1
<1>3. PICK t : t = [step |-> "credential", account |-> i, subject |-> s, token |-> n] OBVIOUS
<1>4. work' = [work EXCEPT ![h] = t] BY <1>3
<1>5. t.step = "credential" /\ t.subject = s /\ t.token = n /\ t.account = i BY <1>3
<1>6. i \in Ident /\ account[i] # NoRecord /\ account[i].subject = s /\ i \in drawn
  BY DEF AccountsOf, UpInv, UpstreamTables
<1>7. UpTask(t)' BY <1>2, <1>5, <1>6 DEF UpTask, Enrolls, Refreshes, Manages, accountVars
<1>8. \A x \in Ident : Names(t, x) => x = i BY <1>5 DEF Names
<1>9. \A x \in Ident : ~Reserves(t, x) BY <1>5 DEF Reserves
<1>10. \A g \in Worker : ~Reserves(work[g], i) BY <1>6 DEF Reserves, UpInv, UpTask, Enrolls
<1>11. \A g \in Worker : Spared(work[g], {}) BY DEF Spared
<1>12. Evolves({}) /\ UpstreamTables' /\ UpstreamRowsCoherent' BY <1>2, RowsUntouched
<1>13. \A x \in Ident : Names(t, x) =>
         \A g \in Worker : g # h => (~Reserves(work[g], x) /\ (Reserves(t, x) => ~Names(work[g], x)))
  BY <1>8, <1>9, <1>10
<1> QED BY ONLY UpInv, <1>4, <1>7, <1>11, <1>12, <1>13, UpStepOf

LEMMA ResolveStep ==
  ASSUME UpInv, NEW h \in Worker, ResolveAccount(h)
  PROVE  UpInv' /\ SecretsStep
<1>1. PICK s, n : s = work[h].subject /\ n = work[h].token OBVIOUS
<1>2. s \in Subject /\ n \in Nat /\ n <= issued /\ issued \in Nat
  BY <1>1 DEF UpInv, UpTask, Enrolls, ResolveAccount, Stands, UpstreamTables
<1>3. UNCHANGED <<accountVars, catalogVars, issued>> BY DEF ResolveAccount
<1>4. ASSUME NEW i \in AccountsOf(s),
             Goes(h, [step |-> "credential", account |-> i, subject |-> s, token |-> n]), UNCHANGED drawn
      PROVE  UpInv' /\ SecretsStep
  BY <1>2, <1>3, <1>4, FoundStep DEF Goes
<1>5. ASSUME NEW i \in Ident, Draws(i),
             Goes(h, [step |-> "create", id |-> i, subject |-> s, token |-> n])
      PROVE  UpInv' /\ SecretsStep
  <2>1. i \notin drawn /\ i \in drawn' /\ drawn \subseteq drawn' BY <1>5 DEF Draws
  <2>2. issued' \in Nat /\ issued <= issued' /\ n <= issued' BY <1>2, <1>3
  <2>3. PICK t : t = [step |-> "create", id |-> i, subject |-> s, token |-> n] OBVIOUS
  <2>4. work' = [work EXCEPT ![h] = t] BY <1>5, <2>3 DEF Goes
  <2>5. t.step = "create" /\ t.subject = s /\ t.token = n /\ t.id = i BY <2>3
  <2>6. account'[i] = NoRecord BY <1>3, <2>1 DEF UpInv, UpstreamTables, accountVars
  <2>7. UpTask(t)' BY <1>2, <2>1, <2>2, <2>5, <2>6 DEF UpTask, Enrolls, Refreshes, Manages
  <2>8. \A x \in Ident : Names(t, x) => x = i BY <2>5 DEF Names
  <2>9. \A g \in Worker : ~Names(work[g], i) /\ ~Reserves(work[g], i)
    BY <2>1 DEF Names, Reserves, UpInv, UpTask, Enrolls
  <2>10. \A g \in Worker : Spared(work[g], {}) BY DEF Spared
  <2>11. Evolves({}) /\ UpstreamTables' /\ UpstreamRowsCoherent' BY <1>3, <2>1, <2>2, RowsUntouched
  <2> QED BY <2>4, <2>7, <2>8, <2>9, <2>10, <2>11, UpStepOf
<1> QED BY <1>1, <1>4, <1>5 DEF ResolveAccount

LEMMA UpBeginsStep ==
  ASSUME UpInv, NEW h \in Worker,
         \/ \E c \in Ident : BeginCredentialRefresh(h, c)
         \/ \E a \in Ident : BeginSync(h, a)
         \/ \E k \in Channel : BeginDiscovery(h, k) \/ BeginListing(h, k)
  PROVE  UpInv' /\ SecretsStep
<1>1. UNCHANGED <<accountVars, catalogVars, drawn, issued>>
  BY DEF BeginCredentialRefresh, BeginSync, BeginDiscovery, BeginListing
<1>2. issued \in Nat BY DEF UpInv, UpstreamTables
<1>3. issued' \in Nat /\ issued <= issued' /\ drawn \subseteq drawn' BY <1>1, <1>2
<1>4. Evolves({}) /\ UpstreamTables' /\ UpstreamRowsCoherent' BY <1>1, <1>3, RowsUntouched
<1>5. ASSUME NEW c \in Ident, BeginCredentialRefresh(h, c) PROVE UpInv' /\ SecretsStep
  <2>1. PICK t : t = [step |-> "lease", credential |-> c, revision |-> credential[c].revision] OBVIOUS
  <2>2. work' = [work EXCEPT ![h] = t] BY <1>5, <2>1 DEF BeginCredentialRefresh, Takes
  <2>3. credential[c].revision \in Nat
    BY <1>5 DEF BeginCredentialRefresh, UpInv, UpstreamTables, CredentialRow
  <2>4. t.step = "lease" /\ t.credential \in Ident /\ t.revision \in Nat BY <2>1, <2>3
  <2>5. UpTask(t)' BY <2>4 DEF UpTask, Enrolls, Refreshes, Manages
  <2> QED BY <1>4, <2>2, <2>4, <2>5, UpGoes
<1>6. ASSUME NEW a \in Ident, BeginSync(h, a) PROVE UpInv' /\ SecretsStep
  <2>1. PICK t : t = [step |-> "sync", account |-> a] OBVIOUS
  <2>2. work' = [work EXCEPT ![h] = t] BY <1>6, <2>1 DEF BeginSync, Takes
  <2>3. t.step = "sync" /\ t.account \in Ident BY <2>1
  <2>4. UpTask(t)' BY <2>3 DEF UpTask, Enrolls, Refreshes, Manages
  <2> QED BY <1>4, <2>2, <2>3, <2>4, UpGoes
<1>7. ASSUME NEW k \in Channel, BeginDiscovery(h, k) \/ BeginListing(h, k) PROVE UpInv' /\ SecretsStep
  <2>1. PICK t : /\ t.step \in {"discovered", "listed"} /\ t.connection = k
                 /\ work' = [work EXCEPT ![h] = t]
    BY <1>7 DEF BeginDiscovery, BeginListing, Takes
  <2>2. connection'[k] # NoRecord BY <1>1, <1>7 DEF BeginDiscovery, BeginListing, catalogVars
  <2>3. UpTask(t)' BY <2>1, <2>2 DEF UpTask, Enrolls, Refreshes, Manages
  <2> QED BY <1>4, <2>1, <2>3, UpGoes
<1> QED BY <1>5, <1>6, <1>7

LEMMA BeginUpdateStep ==
  ASSUME UpInv, NEW h \in Worker, NEW k \in Channel, NEW rotating \in BOOLEAN, BeginUpdate(h, k, rotating)
  PROVE  UpInv' /\ SecretsStep
<1>1. UNCHANGED <<accountVars, catalogVars, drawn>> /\ issued' \in {issued, issued + 1}
  BY DEF BeginUpdate
<1>2. issued \in Nat BY DEF UpInv, UpstreamTables
<1>3. issued' \in Nat /\ issued <= issued' /\ drawn \subseteq drawn' BY <1>1, <1>2
<1>4. Evolves({}) /\ UpstreamTables' /\ UpstreamRowsCoherent' BY <1>1, <1>3, RowsUntouched
<1>5. PICK c : c = connection[k] OBVIOUS
<1>6. c \in ConnectionRow BY <1>5 DEF BeginUpdate, UpInv, UpstreamTables
<1>7. c.revision \in Nat /\ c.keyRevision \in Nat BY <1>6 DEF ConnectionRow
<1>8. PICK status \in Status : status = IF c.status = "active" THEN "disabled" ELSE "active" BY DEF Status
<1>9. PICK r \in Nat, n \in Nat : r = c.keyRevision + 1 /\ n = issued + 1 BY <1>2, <1>7
<1>10. PICK t : t = [step |-> "update", connection |-> k, revision |-> c.revision, rotating |-> rotating,
                     status |-> status, keyRevision |-> r, secret |-> Sealed(k, k, r, n)] OBVIOUS
<1>11. work' = [work EXCEPT ![h] = t] BY <1>5, <1>8, <1>9, <1>10 DEF BeginUpdate, Takes
<1>12. /\ t.step = "update" /\ t.connection = k /\ t.revision = c.revision /\ t.rotating = rotating
       /\ t.status = status /\ t.keyRevision = r /\ t.secret = Sealed(k, k, r, n)
  BY <1>10
<1>13. t.secret.token = n BY <1>12 DEF Sealed
<1>14. connection'[k] = c /\ c # NoRecord BY <1>1, <1>5 DEF BeginUpdate, catalogVars
<1>15. Manages(t)' BY <1>7, <1>9, <1>12, <1>13, <1>14 DEF Manages, Sealed
<1>16. UpTask(t)' BY <1>12, <1>15 DEF UpTask, Enrolls, Refreshes
<1> QED BY <1>4, <1>11, <1>12, <1>16, UpGoes

LEMMA DecryptStep ==
  ASSUME UpInv, NEW h \in Worker, DecryptCredential(h)
  PROVE  UpInv' /\ SecretsStep
<1>1. UNCHANGED <<accountVars, catalogVars, drawn, issued>> BY DEF DecryptCredential, accountVars
<1>2. issued \in Nat BY DEF UpInv, UpstreamTables
<1>3. issued' \in Nat /\ issued <= issued' /\ drawn \subseteq drawn' BY <1>1, <1>2
<1>4. Evolves({}) /\ UpstreamTables' /\ UpstreamRowsCoherent' BY <1>1, <1>3, RowsUntouched
<1>5. PICK c \in Ident : c = work[h].credential BY DEF DecryptCredential, Stands, UpInv, UpTask, Refreshes
<1>6. CASE credential[c] = NoRecord BY <1>4, <1>5, <1>6, UpLeaves DEF DecryptCredential
<1>7. CASE credential[c] # NoRecord
  <2>1. PICK row : row = credential[c] OBVIOUS
  <2>2. row \in CredentialRow /\ c \in drawn BY <1>7, <2>1 DEF UpInv, UpstreamTables
  <2>3. row.account \in Ident /\ row.revision \in Nat BY <2>2 DEF CredentialRow
  <2>4. PICK n \in Nat : n = 0 OBVIOUS
  <2>5. PICK t : t = [step |-> "call", credential |-> c, account |-> row.account,
                      revision |-> row.revision, token |-> n] OBVIOUS
  <2>6. work' = [work EXCEPT ![h] = t] BY <1>5, <1>7, <2>1, <2>4, <2>5 DEF DecryptCredential, Goes
  <2>7. /\ t.step = "call" /\ t.credential = c /\ t.account = row.account /\ t.revision = row.revision
        /\ t.token = n
    BY <2>5
  <2>8. credential'[c] = row /\ c \in drawn' BY <1>1, <2>1, <2>2 DEF accountVars
  <2>9. n <= issued' BY <1>3, <2>4
  <2>10. t = [step |-> t.step, credential |-> t.credential, account |-> t.account,
              revision |-> t.revision, token |-> t.token] BY <2>5, <2>7
  <2>11. Refreshes(t)' BY <2>3, <2>7, <2>8, <2>9, <2>10 DEF Refreshes
  <2>12. UpTask(t)' BY <2>7, <2>11 DEF UpTask, Enrolls, Manages
  <2> QED BY <1>4, <2>6, <2>7, <2>12, UpGoes
<1> QED BY <1>6, <1>7

LEMMA RefreshedStep ==
  ASSUME UpInv, NEW h \in Worker, UpstreamRefreshes(h)
  PROVE  UpInv' /\ SecretsStep
<1>1. UNCHANGED <<accountVars, catalogVars, drawn>> /\ issued' = issued + 1
  BY DEF UpstreamRefreshes, IssuesToken
<1>2. issued \in Nat BY DEF UpInv, UpstreamTables
<1>3. issued' \in Nat /\ issued <= issued' /\ drawn \subseteq drawn' BY <1>1, <1>2
<1>4. Evolves({}) /\ UpstreamTables' /\ UpstreamRowsCoherent' BY <1>1, <1>3, RowsUntouched
<1>5. PICK w : w = work[h] OBVIOUS
<1>6. /\ w # Free /\ w.step = "call" /\ Refreshes(w)
  BY <1>5 DEF UpstreamRefreshes, Stands, UpInv, UpTask
<1>7. PICK n \in Nat : n = issued + 1 BY <1>2
<1>8. PICK t : t = [step |-> "commit", credential |-> w.credential, account |-> w.account,
                    revision |-> w.revision, token |-> n] OBVIOUS
<1>9. work' = [work EXCEPT ![h] = t]
  <2>1. w = [step |-> w.step, credential |-> w.credential, account |-> w.account,
             revision |-> w.revision, token |-> w.token] BY <1>6 DEF Refreshes
  <2>2. w \in [step : {"call"}, credential : Ident, account : Ident, revision : Nat, token : Nat]
    BY <1>6, <2>1 DEF Refreshes
  <2>4. [w EXCEPT !.step = "commit", !.token = n] = t
    <3>1. PICK v : v = [w EXCEPT !.step = "commit", !.token = n] OBVIOUS
    <3>2. v \in [step : {"commit"}, credential : Ident, account : Ident, revision : Nat, token : Nat]
      BY <2>2, <3>1
    <3>3. /\ v.step = "commit" /\ v.credential = w.credential /\ v.account = w.account
          /\ v.revision = w.revision /\ v.token = n
      BY <2>2, <3>1
    <3>4. v = [step |-> v.step, credential |-> v.credential, account |-> v.account,
               revision |-> v.revision, token |-> v.token]
      BY <3>2
    <3> QED BY <1>8, <3>1, <3>3, <3>4
  <2>3. work' = [work EXCEPT ![h] = [w EXCEPT !.step = "commit", !.token = n]]
    BY <1>5, <1>7 DEF UpstreamRefreshes, Goes
  <2> QED BY <2>3, <2>4
<1>10. /\ t.step = "commit" /\ t.credential = w.credential /\ t.account = w.account
       /\ t.revision = w.revision /\ t.token = n
       /\ t = [step |-> t.step, credential |-> t.credential, account |-> t.account,
               revision |-> t.revision, token |-> t.token]
  BY <1>8
<1>11. UNCHANGED credential /\ n <= issued' BY <1>1, <1>2, <1>7 DEF accountVars
<1>12. credential[w.credential] # NoRecord => n > credential[w.credential].secret.token
  <2>1. SUFFICES ASSUME credential[w.credential] # NoRecord
                 PROVE  n > credential[w.credential].secret.token OBVIOUS
  <2>2. w.credential \in Ident BY <1>6 DEF Refreshes
  <2>3. credential[w.credential].secret.token \in Nat
    BY <2>1, <2>2 DEF UpInv, UpstreamTables, CredentialRow
  <2>4. credential[w.credential].secret.token <= issued BY <2>1, <2>2 DEF UpInv, UpstreamTables
  <2> QED BY <1>2, <1>7, <2>3, <2>4
<1>13. Refreshes(t)' BY <1>3, <1>6, <1>10, <1>11, <1>12 DEF Refreshes
<1>14. UpTask(t)' BY <1>10, <1>13 DEF UpTask, Enrolls, Manages
<1> QED BY <1>4, <1>9, <1>10, <1>14, UpGoes

\* Steps that write leases.
LEMMA LeasesOnly ==
  ASSUME UpInv, UNCHANGED <<account, credential, catalogVars, drawn, issued>>,
         leases' \in [Ident -> LeaseRow \union {NoRecord}], Rows(leases') \subseteq Rows(credential)
  PROVE  Evolves({}) /\ UpstreamTables' /\ UpstreamRowsCoherent'
<1>1. UNCHANGED <<account, credential, connection, models, offers, drawn, issued>> BY DEF catalogVars
<1>2. issued \in Nat BY DEF UpInv, UpstreamTables
<1>3. Evolves({}) BY <1>1, <1>2 DEF Evolves
<1>4. UpstreamTables' BY <1>1 DEF UpInv, UpstreamTables, Rows
<1>5. UpstreamRowsCoherent'
  BY <1>1 DEF UpInv, UpstreamRowsCoherent, AccountsUnique, CredentialsFit, KeysFit, OffersOwned, Rows
<1> QED BY <1>3, <1>4, <1>5

LEMMA UnleasedFits ==
  ASSUME UpInv, NEW c \in Ident
  PROVE  /\ Unleased(c) \in [Ident -> LeaseRow \union {NoRecord}]
         /\ Rows(Unleased(c)) \subseteq Rows(credential)
<1>1. leases \in [Ident -> LeaseRow \union {NoRecord}] /\ credential \in [Ident -> CredentialRow \union {NoRecord}]
  BY DEF UpInv, UpstreamTables
<1>2. Rows(leases) \subseteq Rows(credential) BY DEF UpInv, UpstreamRowsCoherent
<1> QED BY <1>1, <1>2 DEF Unleased, Rows

LEMMA ReleasedFits ==
  ASSUME UpInv, NEW c \in Ident, NEW h
  PROVE  /\ Released(h, c) \in [Ident -> LeaseRow \union {NoRecord}]
         /\ Rows(Released(h, c)) \subseteq Rows(credential)
<1>1. leases \in [Ident -> LeaseRow \union {NoRecord}] BY DEF UpInv, UpstreamTables
<1>2. Rows(leases) \subseteq Rows(credential) BY DEF UpInv, UpstreamRowsCoherent
<1> QED BY <1>1, <1>2, UnleasedFits DEF Released

LEMMA AcquireStep ==
  ASSUME UpInv, NEW h \in Worker, AcquireRefreshLease(h)
  PROVE  UpInv' /\ SecretsStep
<1>1. UNCHANGED <<account, credential, catalogVars, drawn, issued>> BY DEF AcquireRefreshLease
<1>2. PICK w : w = work[h] OBVIOUS
<1>3. w # Free /\ w.step = "lease" /\ w.credential \in Ident /\ w.revision \in Nat
  BY <1>2 DEF AcquireRefreshLease, Stands, UpInv, UpTask, Refreshes
<1>4. PICK c \in Ident : c = w.credential BY <1>3
<1>5. leases \in [Ident -> LeaseRow \union {NoRecord}] /\ Rows(leases) \subseteq Rows(credential)
      /\ credential \in [Ident -> CredentialRow \union {NoRecord}]
  BY DEF UpInv, UpstreamTables, UpstreamRowsCoherent
<1>6. CASE LeaseGranted(w)
  <2>1. PICK l : l = [holder |-> h, expected |-> w.revision] OBVIOUS
  <2>2. l \in LeaseRow BY <1>3, <2>1 DEF LeaseRow
  <2>3. leases' = [leases EXCEPT ![c] = l]
    BY <1>2, <1>4, <1>6, <2>1 DEF AcquireRefreshLease
  <2>4. c \in Rows(credential) BY <1>4, <1>5, <1>6 DEF LeaseGranted, Rows
  <2>5. leases' \in [Ident -> LeaseRow \union {NoRecord}] BY <1>5, <2>2, <2>3
  <2>6. Rows(leases') \subseteq Rows(credential) BY <1>5, <2>3, <2>4 DEF Rows
  <2>7. Evolves({}) /\ UpstreamTables' /\ UpstreamRowsCoherent' BY <1>1, <2>5, <2>6, LeasesOnly
  <2>8. PICK t : t = [step |-> "decrypt", credential |-> c] OBVIOUS
  <2>9. work' = [work EXCEPT ![h] = t] BY <1>2, <1>4, <1>6, <2>8 DEF AcquireRefreshLease, Goes
  <2>10. t.step = "decrypt" /\ t.credential = c BY <2>8
  <2>11. UpTask(t)' BY <2>10 DEF UpTask, Enrolls, Refreshes, Manages
  <2> QED BY <2>7, <2>9, <2>10, <2>11, UpGoes
<1>7. CASE ~LeaseGranted(w)
  <2>1. UNCHANGED leases /\ Leaves(h) BY <1>2, <1>7 DEF AcquireRefreshLease
  <2>2. Evolves({}) /\ UpstreamTables' /\ UpstreamRowsCoherent' BY <1>1, <1>5, <2>1, LeasesOnly
  <2> QED BY <2>1, <2>2, UpLeaves
<1> QED BY <1>6, <1>7

LEMMA RefreshFailsStep ==
  ASSUME UpInv, NEW h \in Worker, RefreshFails(h)
  PROVE  UpInv' /\ SecretsStep
<1>1. UNCHANGED <<account, credential, catalogVars, drawn, issued>> /\ Leaves(h) BY DEF RefreshFails
<1>2. PICK c \in Ident : c = work[h].credential BY DEF RefreshFails, Stands, UpInv, UpTask, Refreshes
<1>3. leases' = Released(h, c) BY <1>2 DEF RefreshFails
<1>4. Evolves({}) /\ UpstreamTables' /\ UpstreamRowsCoherent' BY <1>1, <1>3, ReleasedFits, LeasesOnly
<1> QED BY <1>1, <1>4, UpLeaves

LEMMA LeaseExpiresStep ==
  ASSUME UpInv, NEW c \in Ident, LeaseExpires(c)
  PROVE  UpInv' /\ SecretsStep
<1>1. UNCHANGED <<account, credential, catalogVars, drawn, issued, work>> /\ leases' = Unleased(c)
  BY DEF LeaseExpires
<1>2. Evolves({}) /\ UpstreamTables' /\ UpstreamRowsCoherent' BY <1>1, UnleasedFits, LeasesOnly
<1> QED BY <1>1, <1>2, UpStill

\* A refresh is written only over the revision that it read.
LEMMA CommitRefreshStep ==
  ASSUME UpInv, NEW h \in Worker, CommitCredentialRefresh(h)
  PROVE  UpInv' /\ SecretsStep
<1>1. UNCHANGED <<account, catalogVars, drawn, issued>> /\ Leaves(h) BY DEF CommitCredentialRefresh
<1>2. PICK w : w = work[h] OBVIOUS
<1>3. w # Free /\ w.step = "commit" /\ Refreshes(w)
  BY <1>2 DEF CommitCredentialRefresh, Stands, UpInv, UpTask
<1>4. PICK c \in Ident : c = w.credential BY <1>3 DEF Refreshes
<1>5. leases' = Released(h, c) BY <1>2, <1>4 DEF CommitCredentialRefresh
<1>6. /\ leases' \in [Ident -> LeaseRow \union {NoRecord}] /\ Rows(leases') \subseteq Rows(credential)
  BY <1>5, ReleasedFits
<1>7. CASE ~RefreshAllowed(h, w)
  <2>1. UNCHANGED credential BY <1>2, <1>7 DEF CommitCredentialRefresh
  <2>2. Evolves({}) /\ UpstreamTables' /\ UpstreamRowsCoherent' BY <1>1, <1>6, <2>1, LeasesOnly
  <2> QED BY <1>1, <2>2, UpLeaves
<1>8. CASE RefreshAllowed(h, w)
  <2>1. PICK row : row = credential[c] OBVIOUS
  <2>2. row # NoRecord /\ row.revision = w.revision BY <1>4, <1>8, <2>1 DEF RefreshAllowed
  <2>3. row \in CredentialRow /\ c \in drawn BY <2>1, <2>2 DEF UpInv, UpstreamTables
  <2>4. /\ row.account = w.account /\ w.token > row.secret.token /\ w.token <= issued
        /\ w.account \in Ident /\ w.token \in Nat /\ w.revision \in Nat
    BY <1>3, <1>4, <2>1, <2>2 DEF Refreshes
  <2>5. PICK now : now = [row EXCEPT !.revision = w.revision + 1,
                                     !.secret = Sealed(c, w.account, w.revision + 1, w.token)] OBVIOUS
  <2>6. credential \in [Ident -> CredentialRow \union {NoRecord}] BY DEF UpInv, UpstreamTables
  <2>7. credential' = [credential EXCEPT ![c] = now]
    <3>1. credential' = Refreshed(w) BY <1>2, <1>8 DEF CommitCredentialRefresh
    <3>2. Refreshed(w) = [credential EXCEPT ![c].revision = w.revision + 1,
                            ![c].secret = Sealed(c, w.account, w.revision + 1, w.token)]
      BY <1>4, <2>1, <2>2 DEF Refreshed
    <3> QED BY <2>1, <2>5, <2>6, <3>1, <3>2
  <2>8. w.revision + 1 \in Nat BY <2>4
  <2>9. /\ now.account = row.account /\ now.subject = row.subject /\ now.revision = w.revision + 1
        /\ now.secret = Sealed(c, w.account, w.revision + 1, w.token)
    BY <2>3, <2>5 DEF CredentialRow
  <2>10. now \in CredentialRow BY <2>3, <2>4, <2>5, <2>8 DEF CredentialRow, Sealed
  <2>11. now.secret.token = w.token BY <2>9 DEF Sealed
  <2>12. now # NoRecord BY <2>10, UpstreamAssumption
  <2>13. /\ credential'[c] = now /\ \A i \in Ident : i # c => credential'[i] = credential[i]
    BY <2>6, <2>7
  <2>14. Rows(credential') = Rows(credential) BY <2>1, <2>2, <2>6, <2>7, <2>12 DEF Rows
  <2>15. issued \in Nat BY DEF UpInv, UpstreamTables
  <2>16. Evolves({})
    <3>1. ASSUME NEW i \in Ident, credential'[i] \notin {NoRecord, credential[i]}
          PROVE  /\ credential[i] # NoRecord /\ credential'[i].account = credential[i].account
                 /\ credential'[i].revision = credential[i].revision + 1
                 /\ credential'[i].secret.token > credential[i].secret.token
      BY <2>1, <2>2, <2>4, <2>9, <2>11, <2>13, <3>1
    <3> QED BY <1>1, <2>15, <3>1 DEF Evolves, catalogVars
  <2>17. UpstreamTables'
    <3>1. credential' \in [Ident -> CredentialRow \union {NoRecord}] BY <2>6, <2>7, <2>10
    <3>2. \A i \in Ident : credential'[i] # NoRecord => i \in drawn BY <2>3, <2>13 DEF UpInv, UpstreamTables
    <3>3. \A i \in Ident : credential'[i] # NoRecord => credential'[i].secret.token <= issued
      BY <2>4, <2>11, <2>13 DEF UpInv, UpstreamTables
    <3> QED BY <1>1, <1>6, <3>1, <3>2, <3>3 DEF UpInv, UpstreamTables, catalogVars, Rows
  <2>18. CredentialsFit'
    <3>1. ASSUME NEW i \in Rows(credential')
          PROVE  /\ credential'[i].account \in Rows(account)
                 /\ account[credential'[i].account].subject = credential'[i].subject
                 /\ credential'[i].secret = Sealed(i, credential'[i].account, credential'[i].revision,
                                                  credential'[i].secret.token)
      <4>1. i \in Ident /\ i \in Rows(credential) BY <2>6, <2>14, <3>1 DEF Rows
      <4>2. CASE i = c
        BY <2>1, <2>4, <2>9, <2>11, <2>13, <4>1, <4>2 DEF UpInv, UpstreamRowsCoherent, CredentialsFit
      <4>3. CASE i # c BY <2>13, <4>1, <4>3 DEF UpInv, UpstreamRowsCoherent, CredentialsFit
      <4> QED BY <4>2, <4>3
    <3> QED BY <1>1, <3>1 DEF CredentialsFit, Rows
  <2>19. UpstreamRowsCoherent'
    BY <1>1, <1>6, <2>14, <2>18
       DEF UpInv, UpstreamRowsCoherent, AccountsUnique, KeysFit, OffersOwned, Rows, catalogVars
  <2> QED BY <1>1, <2>16, <2>17, <2>19, UpLeaves
<1> QED BY <1>7, <1>8

\* Steps that write accounts.
LEMMA StatusFits ==
  ASSUME UpInv, NEW a \in Ident, account[a] # NoRecord, NEW status \in Status
  PROVE  /\ WithStatus(a, status) \in [Ident -> AccountRow \union {NoRecord}]
         /\ Rows(WithStatus(a, status)) = Rows(account)
         /\ \A i \in Rows(account) : WithStatus(a, status)[i].subject = account[i].subject
<1>1. account \in [Ident -> AccountRow \union {NoRecord}] BY DEF UpInv, UpstreamTables
<1>2. PICK row : row = account[a] OBVIOUS
<1>3. PICK now : now = [row EXCEPT !.status = status] OBVIOUS
<1>4. row \in AccountRow BY <1>1, <1>2
<1>5. now \in AccountRow /\ now.subject = row.subject BY <1>3, <1>4 DEF AccountRow
<1>6. now # NoRecord BY <1>5, UpstreamAssumption
<1>7. WithStatus(a, status) = [account EXCEPT ![a] = now] BY <1>1, <1>2, <1>3 DEF WithStatus
<1>8. WithStatus(a, status) \in [Ident -> AccountRow \union {NoRecord}] BY <1>1, <1>5, <1>7
<1>9. Rows(WithStatus(a, status)) = Rows(account) BY <1>1, <1>6, <1>7 DEF Rows
<1>10. \A i \in Rows(account) : WithStatus(a, status)[i].subject = account[i].subject
  BY <1>1, <1>2, <1>5, <1>7 DEF Rows
<1> QED BY <1>8, <1>9, <1>10

\* Accounts keep their subjects while only their status changes.
LEMMA SameSubjects ==
  ASSUME UpInv, account' \in [Ident -> AccountRow \union {NoRecord}], Rows(account') = Rows(account),
         \A i \in Rows(account) : account'[i].subject = account[i].subject
  PROVE  /\ AccountsUnique' /\ IsFiniteSet(Rows(account'))
         /\ \A i \in Ident : account'[i] # NoRecord =>
              account[i] # NoRecord /\ account'[i].subject = account[i].subject
<1>1. AccountsUnique /\ IsFiniteSet(Rows(account)) BY DEF UpInv, UpstreamTables, UpstreamRowsCoherent
<1>2. \A i \in Ident : account'[i] # NoRecord => i \in Rows(account) BY DEF Rows
<1>3. DOMAIN account = Ident BY DEF UpInv, UpstreamTables
<1>4. AccountsUnique'
  <2>1. \A x, y \in Rows(account') : account'[x].subject = account'[y].subject => x = y
    BY <1>1 DEF AccountsUnique
  <2>2. Cardinality(Rows(account')) <= AccountLimit BY <1>1 DEF AccountsUnique
  <2> QED BY <2>1, <2>2 DEF AccountsUnique, Rows
<1> QED BY <1>1, <1>2, <1>3, <1>4 DEF Rows

LEMMA UpdateAccountStep ==
  ASSUME UpInv, NEW a \in Ident, NEW status \in Status, UpdateUpstreamAccount(a, status)
  PROVE  UpInv' /\ SecretsStep
<1>1. UNCHANGED <<drawn, credential, leases, connection, models, offers, work, issued>>
      /\ account' = WithStatus(a, status) /\ account[a] # NoRecord
  BY DEF UpdateUpstreamAccount, catalogVars
<1>2. /\ account' \in [Ident -> AccountRow \union {NoRecord}] /\ Rows(account') = Rows(account)
      /\ \A i \in Rows(account) : account'[i].subject = account[i].subject
  BY <1>1, StatusFits
<1>3. /\ AccountsUnique' /\ IsFiniteSet(Rows(account'))
      /\ \A i \in Ident : account'[i] # NoRecord =>
           account[i] # NoRecord /\ account'[i].subject = account[i].subject
  BY <1>2, SameSubjects
<1>4. issued \in Nat BY DEF UpInv, UpstreamTables
<1>5. Evolves({}) BY <1>1, <1>3, <1>4 DEF Evolves
<1>6. UpstreamTables' BY <1>1, <1>2, <1>3 DEF UpInv, UpstreamTables, Rows
<1>7. CredentialsFit'
  BY <1>1, <1>2 DEF UpInv, UpstreamRowsCoherent, CredentialsFit, Rows
<1>8. OffersOwned' BY <1>1, <1>2 DEF UpInv, UpstreamRowsCoherent, OffersOwned, Rows
<1>9. UpstreamRowsCoherent'
  BY <1>1, <1>3, <1>7, <1>8 DEF UpInv, UpstreamRowsCoherent, KeysFit, Rows
<1> QED BY <1>1, <1>5, <1>6, <1>9, UpStill

LEMMA DeleteAccountStep ==
  ASSUME UpInv, NEW a \in Ident, DeleteUpstreamAccount(a)
  PROVE  UpInv' /\ SecretsStep
<1>1. /\ UNCHANGED <<drawn, connection, models, work, issued>>
      /\ credential' = Without(credential, CredentialsOf(a)) /\ leases' = Without(leases, CredentialsOf(a))
      /\ account' = [account EXCEPT ![a] = NoRecord] /\ offers' = {o \in offers : o[1] # a}
  BY DEF DeleteUpstreamAccount
<1>2. /\ account \in [Ident -> AccountRow \union {NoRecord}]
      /\ credential \in [Ident -> CredentialRow \union {NoRecord}]
      /\ leases \in [Ident -> LeaseRow \union {NoRecord}]
      /\ issued \in Nat /\ IsFiniteSet(Rows(account))
      /\ offers \subseteq (Ident \union Channel) \X Model
  BY DEF UpInv, UpstreamTables
<1>3. /\ account' \in [Ident -> AccountRow \union {NoRecord}]
      /\ credential' \in [Ident -> CredentialRow \union {NoRecord}]
      /\ leases' \in [Ident -> LeaseRow \union {NoRecord}]
  BY <1>1, <1>2 DEF Without
<1>4. Rows(account') = Rows(account) \ {a} BY <1>1, <1>2 DEF Rows
<1>5. \A i \in Rows(account') : account'[i] = account[i] BY <1>1, <1>2 DEF Rows
<1>6. \A c \in Rows(credential') : /\ c \in Rows(credential) /\ credential'[c] = credential[c]
                                   /\ credential[c].account # a
  BY <1>1, <1>2 DEF Rows, Without, CredentialsOf
<1>7. IsFiniteSet(Rows(account')) /\ Cardinality(Rows(account')) <= Cardinality(Rows(account))
  BY <1>2, <1>4, FS_Subset, FS_CardinalityType
<1>8. Evolves({})
  <2>1. \A i \in Ident : account'[i] # NoRecord => account[i] # NoRecord /\ account'[i] = account[i]
    BY <1>3, <1>4, <1>5 DEF Rows
  <2>2. \A c \in Ident : credential'[c] \in {NoRecord, credential[c]} BY <1>3, <1>6 DEF Rows
  <2> QED BY <1>1, <1>2, <2>1, <2>2 DEF Evolves
<1>9. UpstreamTables'
  <2>1. \A i \in Ident : account'[i] # NoRecord \/ credential'[i] # NoRecord => i \in drawn
    BY <1>2, <1>3, <1>4, <1>6 DEF UpInv, UpstreamTables, Rows
  <2>2. \A c \in Ident : credential'[c] # NoRecord => credential'[c].secret.token <= issued
    BY <1>2, <1>3, <1>6 DEF UpInv, UpstreamTables, Rows
  <2> QED BY <1>1, <1>2, <1>3, <1>7, <2>1, <2>2 DEF UpInv, UpstreamTables, Rows
<1>10. AccountsUnique'
  <2>1. \A x, y \in Rows(account') : account'[x].subject = account'[y].subject => x = y
    BY <1>4, <1>5 DEF UpInv, UpstreamRowsCoherent, AccountsUnique
  <2>2. Cardinality(Rows(account')) <= AccountLimit
    <3>1. Cardinality(Rows(account)) <= AccountLimit BY DEF UpInv, UpstreamRowsCoherent, AccountsUnique
    <3> QED BY <1>2, <1>7, <3>1, FS_CardinalityType, UpstreamAssumption
  <2> QED BY <2>1, <2>2 DEF AccountsUnique, Rows
<1>11. CredentialsFit'
  <2>1. ASSUME NEW c \in Rows(credential')
        PROVE  /\ credential'[c].account \in Rows(account')
               /\ account'[credential'[c].account].subject = credential'[c].subject
               /\ credential'[c].secret = Sealed(c, credential'[c].account, credential'[c].revision,
                                                credential'[c].secret.token)
    <3>1. c \in Rows(credential) /\ credential'[c] = credential[c] /\ credential[c].account # a
      BY <1>6
    <3>2. /\ credential[c].account \in Rows(account)
          /\ account[credential[c].account].subject = credential[c].subject
          /\ credential[c].secret = Sealed(c, credential[c].account, credential[c].revision,
                                          credential[c].secret.token)
      BY <3>1 DEF UpInv, UpstreamRowsCoherent, CredentialsFit
    <3>3. credential[c].account \in Rows(account') BY <1>4, <3>1, <3>2
    <3> QED BY <1>5, <3>1, <3>2, <3>3
  <2> QED BY <2>1 DEF CredentialsFit, Rows
<1>12. Rows(leases') \subseteq Rows(credential')
  <2>1. Rows(leases) \subseteq Rows(credential) BY DEF UpInv, UpstreamRowsCoherent
  <2> QED BY <1>1, <1>2, <2>1 DEF Rows, Without
<1>13. OffersOwned'
  <2>1. \A o \in offers' : o[1] \in Rows(account') \union Rows(connection) /\ models[o[2]] # NoRecord
    BY <1>1, <1>4 DEF UpInv, UpstreamRowsCoherent, OffersOwned
  <2> QED BY <1>1, <2>1 DEF OffersOwned, Rows
<1>14. UpstreamRowsCoherent'
  BY <1>1, <1>10, <1>11, <1>12, <1>13 DEF UpInv, UpstreamRowsCoherent, KeysFit, Rows
<1> QED BY <1>1, <1>8, <1>9, <1>14, UpStill

\* The transaction looks for the subject and counts the accounts once more.
LEMMA CreatedStep ==
  ASSUME UpInv, NEW h \in Worker, InsertAccount(h), NEW w, w = work[h],
         InsertAccountVerdict(w.id, w.subject) = "created",
         account' = [account EXCEPT ![w.id] = [subject |-> w.subject, status |-> "active"]],
         Goes(h, [step |-> "credential", account |-> w.id, subject |-> w.subject, token |-> w.token])
  PROVE  UpInv' /\ SecretsStep
<1>1. UNCHANGED <<drawn, credential, leases, connection, models, offers, issued>>
  BY DEF InsertAccount, catalogVars
<1>2. /\ w # Free /\ w.step = "create" /\ w.subject \in Subject /\ w.token \in Nat /\ w.token <= issued
      /\ w.id \in Ident /\ w.id \in drawn
  BY DEF InsertAccount, Stands, UpInv, UpTask, Enrolls
<1>3. PICK x \in Ident, s \in Subject : x = w.id /\ s = w.subject BY <1>2
<1>4. account[x] = NoRecord /\ AccountsOf(s) = {}
      /\ ~(Cardinality({i \in Ident : account[i] # NoRecord}) >= AccountLimit)
  BY <1>3 DEF InsertAccountVerdict
<1>5. account \in [Ident -> AccountRow \union {NoRecord}] /\ issued \in Nat /\ IsFiniteSet(Rows(account))
      /\ credential \in [Ident -> CredentialRow \union {NoRecord}]
  BY DEF UpInv, UpstreamTables
<1>6. PICK row : row = [subject |-> s, status |-> "active"] OBVIOUS
<1>7. row \in AccountRow /\ row.subject = s BY <1>6 DEF AccountRow, Status
<1>8. row # NoRecord BY <1>7, UpstreamAssumption
<1>9. account' = [account EXCEPT ![x] = row] BY <1>3, <1>6
<1>10. account' \in [Ident -> AccountRow \union {NoRecord}] BY <1>5, <1>7, <1>9
<1>11. Rows(account') = Rows(account) \union {x} /\ x \notin Rows(account)
  BY <1>4, <1>5, <1>8, <1>9 DEF Rows
<1>12. account'[x] = row /\ \A i \in Rows(account) : account'[i] = account[i]
  BY <1>5, <1>9, <1>11 DEF Rows
<1>13. /\ IsFiniteSet(Rows(account')) /\ Cardinality(Rows(account')) <= AccountLimit
  <2>1. Rows(account) = {i \in Ident : account[i] # NoRecord} BY <1>5 DEF Rows
  <2>2. PICK n : n = Cardinality(Rows(account)) OBVIOUS
  <2>3. n \in Nat /\ ~(n >= AccountLimit) BY <1>4, <1>5, <2>1, <2>2, FS_CardinalityType
  <2>4. IsFiniteSet(Rows(account')) /\ Cardinality(Rows(account')) = n + 1
    <3>1. PICK R : R = Rows(account) OBVIOUS
    <3>2. IsFiniteSet(R) /\ x \notin R /\ Cardinality(R) = n /\ Rows(account') = R \union {x}
      BY <1>5, <1>11, <2>2, <3>1
    <3>3. IsFiniteSet(R \union {x}) /\ Cardinality(R \union {x}) = Cardinality(R) + 1
      BY <3>2, FS_AddElement
    <3> QED BY <3>2, <3>3
  <2> QED BY <2>3, <2>4, UpstreamAssumption
<1>14. Evolves({x})
  <2>1. \A i \in Ident : account'[i] # NoRecord =>
          i \in {x} \/ (account[i] # NoRecord /\ account'[i].subject = account[i].subject)
    BY <1>5, <1>9
  <2> QED BY <1>1, <1>5, <2>1 DEF Evolves
<1>15. UpstreamTables'
  <2>1. \A i \in Ident : account'[i] # NoRecord => i \in drawn
    BY <1>2, <1>3, <1>5, <1>9 DEF UpInv, UpstreamTables
  <2> QED BY <1>1, <1>10, <1>13, <2>1 DEF UpInv, UpstreamTables, Rows
<1>16. AccountsUnique'
  <2>1. \A i \in Rows(account) : account[i].subject # s BY <1>4, <1>5 DEF AccountsOf, Rows
  <2>2. \A i, j \in Rows(account) : account[i].subject = account[j].subject => i = j
    BY DEF UpInv, UpstreamRowsCoherent, AccountsUnique
  <2>3. \A i, j \in Rows(account') : account'[i].subject = account'[j].subject => i = j
    BY <1>7, <1>11, <1>12, <2>1, <2>2
  <2> QED BY <1>13, <2>3 DEF AccountsUnique, Rows
<1>17. CredentialsFit'
  BY <1>1, <1>11, <1>12 DEF UpInv, UpstreamRowsCoherent, CredentialsFit, Rows
<1>18. OffersOwned' BY <1>1, <1>11 DEF UpInv, UpstreamRowsCoherent, OffersOwned, Rows
<1>19. UpstreamRowsCoherent'
  BY <1>1, <1>16, <1>17, <1>18 DEF UpInv, UpstreamRowsCoherent, KeysFit, Rows
<1>20. PICK t : t = [step |-> "credential", account |-> x, subject |-> s, token |-> w.token] OBVIOUS
<1>21. work' = [work EXCEPT ![h] = t] BY <1>3, <1>20 DEF Goes
<1>22. t.step = "credential" /\ t.account = x /\ t.subject = s /\ t.token = w.token BY <1>20
<1>23. UpTask(t)'
  BY <1>1, <1>2, <1>3, <1>7, <1>12, <1>22 DEF UpTask, Enrolls, Refreshes, Manages
<1>24. \A g \in Worker : g # h => ~Names(work[g], x)
  BY <1>2, <1>3 DEF UpInv, IdsApart, Reserves
<1>25. \A g \in Worker : g # h => Spared(work[g], {x}) BY <1>24 DEF Spared
<1>26. \A i \in Ident : Names(t, i) =>
         \A g \in Worker : g # h => (~Reserves(work[g], i) /\ (Reserves(t, i) => ~Names(work[g], i)))
  BY <1>22, <1>24 DEF Names, Reserves
<1> QED BY ONLY UpInv, <1>14, <1>15, <1>19, <1>21, <1>23, <1>25, <1>26, UpStepOf

LEMMA InsertAccountStep ==
  ASSUME UpInv, NEW h \in Worker, InsertAccount(h)
  PROVE  UpInv' /\ SecretsStep
<1>1. UNCHANGED <<drawn, credential, leases, catalogVars, issued>> BY DEF InsertAccount
<1>2. PICK w : w = work[h] OBVIOUS
<1>3. /\ w.subject \in Subject /\ w.token \in Nat /\ w.token <= issued /\ issued \in Nat
  BY <1>2 DEF InsertAccount, Stands, UpInv, UpTask, Enrolls, UpstreamTables
<1>4. CASE /\ InsertAccountVerdict(w.id, w.subject) = "created"
           /\ account' = [account EXCEPT ![w.id] = [subject |-> w.subject, status |-> "active"]]
           /\ Goes(h, [step |-> "credential", account |-> w.id, subject |-> w.subject, token |-> w.token])
  BY <1>2, <1>4, CreatedStep
<1>5. ASSUME UNCHANGED account, NEW i \in AccountsOf(w.subject),
             Goes(h, [step |-> "credential", account |-> i, subject |-> w.subject, token |-> w.token])
      PROVE  UpInv' /\ SecretsStep
  <2>1. UNCHANGED <<accountVars, catalogVars, drawn, issued>> BY <1>1, <1>5 DEF accountVars
  <2>2. PICK s \in Subject, n \in Nat : s = w.subject /\ n = w.token BY <1>3
  <2> QED BY <1>3, <1>5, <2>1, <2>2, FoundStep DEF Goes
<1>6. CASE Leaves(h) /\ UNCHANGED account
  <2>1. UNCHANGED <<accountVars, catalogVars, drawn, issued>> BY <1>1, <1>6 DEF accountVars
  <2>2. issued' \in Nat /\ issued <= issued' /\ drawn \subseteq drawn' BY <1>3, <2>1
  <2> QED BY <1>6, <2>1, <2>2, RowsUntouched, UpLeaves
<1> QED BY <1>2, <1>4, <1>5, <1>6 DEF InsertAccount

LEMMA InsertCredentialStep ==
  ASSUME UpInv, NEW h \in Worker, InsertCredential(h)
  PROVE  UpInv' /\ SecretsStep
<1>1. UNCHANGED <<leases, connection, models, offers, issued>> /\ Leaves(h)
  BY DEF InsertCredential, catalogVars
<1>2. PICK w : w = work[h] OBVIOUS
<1>3. /\ w # Free /\ w.step = "credential" /\ w.subject \in Subject /\ w.token \in Nat /\ w.token <= issued
      /\ w.account \in Ident
      /\ account[w.account] # NoRecord => account[w.account].subject = w.subject
  BY <1>2 DEF InsertCredential, Stands, UpInv, UpTask, Enrolls
<1>4. /\ account \in [Ident -> AccountRow \union {NoRecord}] /\ issued \in Nat
      /\ credential \in [Ident -> CredentialRow \union {NoRecord}]
  BY DEF UpInv, UpstreamTables
<1>5. CASE UNCHANGED <<account, credential, drawn>>
  <2>1. UNCHANGED <<accountVars, catalogVars>> BY <1>1, <1>5 DEF accountVars, catalogVars
  <2>2. issued' \in Nat /\ issued <= issued' /\ drawn \subseteq drawn' BY <1>1, <1>4, <1>5
  <2> QED BY <1>1, <2>1, <2>2, RowsUntouched, UpLeaves
<1>6. ASSUME account[w.account] # NoRecord, account' = Activated(w.account),
             NEW c \in Ident, Draws(c), credential' = [credential EXCEPT ![c] = NewCredential(c, w)]
      PROVE  UpInv' /\ SecretsStep
  <2>1. PICK a \in Ident, status \in Status : a = w.account /\ status = "active" BY <1>3 DEF Status
  <2>2. account' = WithStatus(a, status) BY <1>6, <2>1 DEF Activated, WithStatus
  <2>3. /\ account' \in [Ident -> AccountRow \union {NoRecord}] /\ Rows(account') = Rows(account)
        /\ \A i \in Rows(account) : account'[i].subject = account[i].subject
    BY <1>6, <2>1, <2>2, StatusFits
  <2>4. /\ AccountsUnique' /\ IsFiniteSet(Rows(account'))
        /\ \A i \in Ident : account'[i] # NoRecord =>
             account[i] # NoRecord /\ account'[i].subject = account[i].subject
    BY <2>3, SameSubjects
  <2>5. c \notin drawn /\ drawn' = drawn \union {c} BY <1>6 DEF Draws
  <2>6. credential[c] = NoRecord BY <2>5 DEF UpInv, UpstreamTables
  <2>7. PICK z \in Nat : z = 0 OBVIOUS
  <2>r. PICK row : row = NewCredential(c, w) OBVIOUS
  <2>8. /\ row.account = a /\ row.subject = w.subject /\ row.revision = z
        /\ row.secret = Sealed(c, a, z, w.token)
    BY <2>1, <2>7, <2>r DEF NewCredential
  <2>9. row.secret.token = w.token BY <2>8 DEF Sealed
  <2>10. row \in CredentialRow BY <1>3, <2>7, <2>r DEF NewCredential, CredentialRow, Sealed
  <2>11. row # NoRecord BY <2>10, UpstreamAssumption
  <2>12. credential' = [credential EXCEPT ![c] = row] BY <1>6, <2>r
  <2>13. credential'[c] = row /\ \A i \in Ident : i # c => credential'[i] = credential[i] BY <1>4, <2>12
  <2>14. Rows(credential') = Rows(credential) \union {c} BY <1>4, <2>11, <2>12 DEF Rows
  <2>15. Evolves({})
    <3>1. \A i \in Ident : credential'[i] \notin {NoRecord, credential[i]} =>
            credential[i] = NoRecord /\ i \notin drawn
      BY <2>5, <2>6, <2>13
    <3> QED BY <1>1, <1>4, <2>4, <2>5, <3>1 DEF Evolves
  <2>16. UpstreamTables'
    <3>1. credential' \in [Ident -> CredentialRow \union {NoRecord}] BY <1>4, <2>10, <2>12
    <3>2. \A i \in Ident : account'[i] # NoRecord \/ credential'[i] # NoRecord => i \in drawn'
      BY <2>4, <2>5, <2>13 DEF UpInv, UpstreamTables
    <3>3. \A i \in Ident : credential'[i] # NoRecord => credential'[i].secret.token <= issued
      BY <1>3, <2>9, <2>13 DEF UpInv, UpstreamTables
    <3> QED BY <1>1, <2>3, <2>4, <3>1, <3>2, <3>3 DEF UpInv, UpstreamTables, Rows
  <2>17. CredentialsFit'
    <3>1. ASSUME NEW i \in Rows(credential')
          PROVE  /\ credential'[i].account \in Rows(account')
                 /\ account'[credential'[i].account].subject = credential'[i].subject
                 /\ credential'[i].secret = Sealed(i, credential'[i].account, credential'[i].revision,
                                                  credential'[i].secret.token)
      <4>1. CASE i = c
        <5>1. a \in Rows(account) BY <1>4, <1>6, <2>1 DEF Rows
        <5>2. account'[a].subject = w.subject BY <1>3, <1>6, <2>1, <2>3, <5>1
        <5> QED BY <2>3, <2>8, <2>9, <2>13, <4>1, <5>1, <5>2
      <4>2. CASE i # c
        <5>1. i \in Rows(credential) /\ i \in Ident BY <1>4, <2>14, <3>1, <4>2 DEF Rows
        <5>2. /\ credential[i].account \in Rows(account)
              /\ account[credential[i].account].subject = credential[i].subject
              /\ credential[i].secret = Sealed(i, credential[i].account, credential[i].revision,
                                              credential[i].secret.token)
          BY <5>1 DEF UpInv, UpstreamRowsCoherent, CredentialsFit
        <5> QED BY <2>3, <2>13, <4>2, <5>1, <5>2
      <4> QED BY <4>1, <4>2
    <3> QED BY <3>1 DEF CredentialsFit, Rows
  <2>18. OffersOwned' BY <1>1, <2>3 DEF UpInv, UpstreamRowsCoherent, OffersOwned, Rows
  <2>19. Rows(leases') \subseteq Rows(credential')
    BY <1>1, <2>14 DEF UpInv, UpstreamRowsCoherent, Rows
  <2>20. UpstreamRowsCoherent'
    BY <1>1, <2>4, <2>17, <2>18, <2>19 DEF UpInv, UpstreamRowsCoherent, KeysFit, Rows
  <2> QED BY <1>1, <2>15, <2>16, <2>20, UpLeaves
<1> QED BY <1>2, <1>5, <1>6 DEF InsertCredential

\* Steps that write connections, models and what is offered.
ConnectionsAdvance ==
  \A k \in Channel : connection[k] # NoRecord /\ connection'[k] # connection[k] =>
    /\ connection'[k] # NoRecord /\ connection'[k].revision = connection[k].revision + 1
    /\ connection'[k].secret # connection[k].secret =>
         connection'[k].keyRevision = connection[k].keyRevision + 1

LEMMA CatalogOnly ==
  ASSUME UpInv, UNCHANGED <<accountVars, drawn, issued>>,
         connection' \in [Channel -> ConnectionRow \union {NoRecord}], ConnectionsAdvance, KeysFit',
         models' \in [Model -> ModelRow \union {NoRecord}],
         \A m \in Model : models[m] # NoRecord => models'[m] # NoRecord,
         offers' \subseteq (Ident \union Channel) \X Model,
         \A o \in offers' \ offers : o[1] \in Rows(account) \union Rows(connection') /\ models'[o[2]] # NoRecord
  PROVE  Evolves({}) /\ UpstreamTables' /\ UpstreamRowsCoherent'
<1>1. UNCHANGED <<account, credential, leases, drawn, issued>> BY DEF accountVars
<1>2. issued \in Nat /\ connection \in [Channel -> ConnectionRow \union {NoRecord}]
      /\ offers \subseteq (Ident \union Channel) \X Model
  BY DEF UpInv, UpstreamTables
<1>3. Evolves({}) BY <1>1, <1>2 DEF Evolves, ConnectionsAdvance
<1>4. UpstreamTables' BY <1>1 DEF UpInv, UpstreamTables, Rows
<1>5. Rows(connection) \subseteq Rows(connection') BY <1>2 DEF Rows, ConnectionsAdvance
<1>6. OffersOwned'
  <2>1. ASSUME NEW o \in offers'
        PROVE  o[1] \in Rows(account) \union Rows(connection') /\ models'[o[2]] # NoRecord
    <3>1. CASE o \in offers
      <4>1. o[2] \in Model BY <1>2, <3>1
      <4>2. o[1] \in Rows(account) \union Rows(connection) /\ models[o[2]] # NoRecord
        BY <3>1 DEF UpInv, UpstreamRowsCoherent, OffersOwned
      <4> QED BY <1>5, <4>1, <4>2
    <3>2. CASE o \notin offers BY <2>1, <3>2
    <3> QED BY <3>1, <3>2
  <2> QED BY <1>1, <2>1 DEF OffersOwned, Rows
<1>7. UpstreamRowsCoherent'
  BY <1>1, <1>6 DEF UpInv, UpstreamRowsCoherent, AccountsUnique, CredentialsFit, Rows
<1> QED BY <1>3, <1>4, <1>7

\* A connection keeps its secret while only its revision or status changes.
LEMMA ConnectionKept ==
  ASSUME UpInv, UNCHANGED connection
  PROVE  /\ connection' \in [Channel -> ConnectionRow \union {NoRecord}] /\ ConnectionsAdvance /\ KeysFit'
         /\ Rows(connection') = Rows(connection)
BY DEF UpInv, UpstreamTables, UpstreamRowsCoherent, ConnectionsAdvance, KeysFit, Rows

LEMMA ConnectionChanged ==
  ASSUME UpInv, NEW k \in Channel, connection[k] # NoRecord, NEW row \in ConnectionRow,
         connection' = [connection EXCEPT ![k] = row],
         row.revision = connection[k].revision + 1,
         row.secret # connection[k].secret => row.keyRevision = connection[k].keyRevision + 1,
         row.secret = Sealed(k, k, row.keyRevision, row.secret.token)
  PROVE  /\ connection' \in [Channel -> ConnectionRow \union {NoRecord}] /\ ConnectionsAdvance /\ KeysFit'
         /\ Rows(connection') = Rows(connection)
<1>1. connection \in [Channel -> ConnectionRow \union {NoRecord}] BY DEF UpInv, UpstreamTables
<1>2. row # NoRecord BY UpstreamAssumption
<1>3. connection'[k] = row /\ \A j \in Channel : j # k => connection'[j] = connection[j] BY <1>1
<1>4. Rows(connection') = Rows(connection) BY <1>1, <1>2 DEF Rows
<1>5. ConnectionsAdvance BY <1>2, <1>3 DEF ConnectionsAdvance
<1>6. KeysFit'
  <2>1. \A j \in Rows(connection') : connection'[j].secret =
          Sealed(j, j, connection'[j].keyRevision, connection'[j].secret.token)
    BY <1>1, <1>3, <1>4 DEF UpInv, UpstreamRowsCoherent, KeysFit, Rows
  <2> QED BY <2>1 DEF KeysFit, Rows
<1> QED BY <1>1, <1>4, <1>5, <1>6

LEMMA TouchedFits ==
  ASSUME UpInv, NEW k \in Channel, connection[k] # NoRecord, connection' = Touched(k)
  PROVE  /\ connection' \in [Channel -> ConnectionRow \union {NoRecord}] /\ ConnectionsAdvance /\ KeysFit'
         /\ Rows(connection') = Rows(connection)
<1>1. connection \in [Channel -> ConnectionRow \union {NoRecord}] BY DEF UpInv, UpstreamTables
<1>2. PICK old : old = connection[k] OBVIOUS
<1>3. old \in ConnectionRow BY <1>1, <1>2
<1>4. old.revision \in Nat BY <1>3 DEF ConnectionRow
<1>5. PICK row : row = [old EXCEPT !.revision = old.revision + 1] OBVIOUS
<1>6. row \in ConnectionRow /\ row.revision = old.revision + 1 /\ row.keyRevision = old.keyRevision
      /\ row.secret = old.secret
  BY <1>3, <1>4, <1>5 DEF ConnectionRow
<1>7. connection' = [connection EXCEPT ![k] = row] BY <1>1, <1>2, <1>5 DEF Touched
<1>8. old.secret = Sealed(k, k, old.keyRevision, old.secret.token)
  BY <1>1, <1>2 DEF UpInv, UpstreamRowsCoherent, KeysFit, Rows
<1> QED BY <1>2, <1>6, <1>7, <1>8, ConnectionChanged

LEMMA UpdateConnectionStep ==
  ASSUME UpInv, NEW h \in Worker, UpdateConnection(h)
  PROVE  UpInv' /\ SecretsStep
<1>1. UNCHANGED <<accountVars, drawn, models, offers, issued>> /\ Leaves(h) BY DEF UpdateConnection
<1>2. PICK w : w = work[h] OBVIOUS
<1>3. w # Free /\ w.step = "update" /\ Manages(w) BY <1>2 DEF UpdateConnection, Stands, UpInv, UpTask
<1>4. PICK k \in Channel : k = w.connection BY <1>3 DEF Manages
<1>5. connection[k] # NoRecord BY <1>3, <1>4 DEF Manages
<1>6. /\ models \in [Model -> ModelRow \union {NoRecord}] /\ offers \subseteq (Ident \union Channel) \X Model
      /\ connection \in [Channel -> ConnectionRow \union {NoRecord}]
  BY DEF UpInv, UpstreamTables
<1>7. /\ connection' \in [Channel -> ConnectionRow \union {NoRecord}] /\ ConnectionsAdvance /\ KeysFit'
  <2>1. CASE ~Fresh(w) BY <1>2, <2>1, ConnectionKept DEF UpdateConnection
  <2>2. CASE Fresh(w)
    <3>1. PICK old, row : old = connection[k] /\ row = UpdatedRow(old, w) OBVIOUS
    <3>2. connection' = [connection EXCEPT ![k] = row] BY <1>2, <1>4, <2>2, <3>1 DEF UpdateConnection
    <3>3. old \in ConnectionRow BY <1>5, <1>6, <3>1
    <3>4. old.revision \in Nat /\ old.keyRevision \in Nat BY <3>3 DEF ConnectionRow
    <3>5. /\ w.revision = old.revision /\ w.keyRevision = old.keyRevision + 1 /\ w.status \in Status
          /\ w.secret = Sealed(k, k, w.keyRevision, w.secret.token) /\ w.secret.token \in Nat
          /\ w.keyRevision \in Nat /\ w.revision \in Nat
      BY <1>3, <1>4, <2>2, <3>1 DEF Manages, Fresh
    <3>6. w.revision + 1 \in Nat BY <3>5
    <3>7. old.secret = Sealed(k, k, old.keyRevision, old.secret.token)
      BY <1>5, <1>6, <3>1 DEF UpInv, UpstreamRowsCoherent, KeysFit, Rows
    <3>8. CASE w.rotating
      <4>1. row = [old EXCEPT !.revision = w.revision + 1, !.keyRevision = w.keyRevision, !.secret = w.secret]
        BY <3>1, <3>8 DEF UpdatedRow
      <4>2. w.secret \in [id : Channel, owner : Channel, revision : Nat, token : Nat]
        BY <3>5 DEF Sealed
      <4>3. /\ row \in ConnectionRow /\ row.revision = w.revision + 1 /\ row.keyRevision = w.keyRevision
            /\ row.secret = w.secret
        BY <3>3, <3>5, <3>6, <4>1, <4>2 DEF ConnectionRow
      <4> QED BY <1>5, <3>1, <3>2, <3>5, <4>3, ConnectionChanged
    <3>9. CASE ~w.rotating
      <4>1. row = [old EXCEPT !.revision = w.revision + 1, !.status = w.status]
        BY <3>1, <3>9 DEF UpdatedRow
      <4>2. /\ row \in ConnectionRow /\ row.revision = w.revision + 1 /\ row.keyRevision = old.keyRevision
            /\ row.secret = old.secret
        BY <3>3, <3>5, <3>6, <4>1 DEF ConnectionRow
      <4> QED BY <1>5, <3>1, <3>2, <3>5, <3>7, <4>2, ConnectionChanged
    <3> QED BY <3>8, <3>9
  <2> QED BY <2>1, <2>2
<1>8. Evolves({}) /\ UpstreamTables' /\ UpstreamRowsCoherent' BY <1>1, <1>6, <1>7, CatalogOnly
<1> QED BY <1>1, <1>8, UpLeaves

LEMMA CataloguedFits ==
  ASSUME UpInv, NEW names \in SUBSET Model, NEW on \in BOOLEAN
  PROVE  /\ Catalogued(names, on) \in [Model -> ModelRow \union {NoRecord}]
         /\ \A m \in Model : models[m] # NoRecord \/ m \in names => Catalogued(names, on)[m] # NoRecord
<1>1. models \in [Model -> ModelRow \union {NoRecord}] BY DEF UpInv, UpstreamTables
<1>2. PICK off \in BOOLEAN : off = FALSE OBVIOUS
<1>3. PICK row : row = [enabled |-> on, image |-> off] OBVIOUS
<1>4. row \in ModelRow BY <1>3 DEF ModelRow
<1>5. row # NoRecord BY <1>4, UpstreamAssumption
<1>6. Catalogued(names, on) = [m \in Model |-> IF m \in names /\ models[m] = NoRecord THEN row ELSE models[m]]
  BY <1>2, <1>3 DEF Catalogued
<1> QED BY <1>1, <1>4, <1>5, <1>6

LEMMA ListedFits ==
  ASSUME UpInv, NEW names \in SUBSET Model, NEW image \in BOOLEAN
  PROVE  /\ ListedUnits(names, image) \in [Model -> ModelRow \union {NoRecord}]
         /\ \A m \in Model : models[m] # NoRecord \/ m \in names => ListedUnits(names, image)[m] # NoRecord
<1>1. models \in [Model -> ModelRow \union {NoRecord}] BY DEF UpInv, UpstreamTables
<1>2. PICK off \in BOOLEAN : off = FALSE OBVIOUS
<1>3. PICK row : row = [enabled |-> off, image |-> image] OBVIOUS
<1>4. row \in ModelRow BY <1>3 DEF ModelRow
<1>5. row # NoRecord BY <1>4, UpstreamAssumption
<1>6. ASSUME NEW m \in Model
      PROVE  /\ ListedUnits(names, image)[m] \in ModelRow \union {NoRecord}
             /\ models[m] # NoRecord \/ m \in names => ListedUnits(names, image)[m] # NoRecord
  <2>1. CASE m \notin names BY <1>1, <2>1 DEF ListedUnits
  <2>2. CASE m \in names /\ models[m] = NoRecord BY <1>2, <1>3, <1>4, <1>5, <2>2 DEF ListedUnits
  <2>3. CASE m \in names /\ models[m] # NoRecord
    <3>1. PICK old : old = models[m] OBVIOUS
    <3>2. old \in ModelRow BY <1>1, <2>3, <3>1
    <3>3. old.image \in BOOLEAN BY <3>2 DEF ModelRow
    <3>4. PICK unit \in BOOLEAN : unit = (old.image \/ image) OBVIOUS
    <3>5. PICK now : now = [old EXCEPT !.image = unit] OBVIOUS
    <3>6. now \in ModelRow BY <3>2, <3>5 DEF ModelRow
    <3>7. now # NoRecord BY <3>6, UpstreamAssumption
    <3>8. ListedUnits(names, image)[m] = now BY <2>3, <3>1, <3>4, <3>5 DEF ListedUnits
    <3> QED BY <3>6, <3>7, <3>8
  <2> QED BY <2>1, <2>2, <2>3
<1>7. ListedUnits(names, image) = [m \in Model |-> ListedUnits(names, image)[m]] BY DEF ListedUnits
<1> QED BY <1>6, <1>7

LEMMA OffersOfFit ==
  ASSUME NEW owner, NEW names \in SUBSET Model
  PROVE  \A o \in OffersOf(owner, names) : o[1] = owner /\ o[2] \in names /\ o = <<o[1], o[2]>>
BY DEF OffersOf

LEMMA EnabledStep ==
  ASSUME UpInv, NEW m \in Model, NEW on \in BOOLEAN, UpdateModelEnabled(m, on)
  PROVE  UpInv' /\ SecretsStep
<1>1. UNCHANGED <<accountVars, drawn, connection, offers, work, issued>> BY DEF UpdateModelEnabled
<1>2. /\ models \in [Model -> ModelRow \union {NoRecord}] /\ offers \subseteq (Ident \union Channel) \X Model
  BY DEF UpInv, UpstreamTables
<1>3. PICK old : old = models[m] OBVIOUS
<1>4. old \in ModelRow BY <1>2, <1>3 DEF UpdateModelEnabled
<1>5. PICK now : now = [old EXCEPT !.enabled = on] OBVIOUS
<1>6. now \in ModelRow BY <1>4, <1>5 DEF ModelRow
<1>7. now # NoRecord BY <1>6, UpstreamAssumption
<1>8. models' = [models EXCEPT ![m] = now] BY <1>2, <1>3, <1>5 DEF UpdateModelEnabled
<1>9. /\ models' \in [Model -> ModelRow \union {NoRecord}]
      /\ \A x \in Model : models[x] # NoRecord => models'[x] # NoRecord
  BY <1>2, <1>6, <1>7, <1>8
<1>10. Evolves({}) /\ UpstreamTables' /\ UpstreamRowsCoherent'
  BY <1>1, <1>2, <1>9, ConnectionKept, CatalogOnly
<1> QED BY <1>1, <1>10, UpStill

\* Offers of an owner that has a row, of models that have one.
LEMMA OffersAdded ==
  ASSUME UpInv, UNCHANGED <<accountVars, drawn, issued>>,
         connection' \in [Channel -> ConnectionRow \union {NoRecord}], ConnectionsAdvance, KeysFit',
         models' \in [Model -> ModelRow \union {NoRecord}], NEW names \in SUBSET Model,
         \A m \in Model : models[m] # NoRecord \/ m \in names => models'[m] # NoRecord,
         NEW owner \in Rows(account) \union Rows(connection'), NEW kept \in SUBSET offers,
         offers' = kept \union OffersOf(owner, names)
  PROVE  Evolves({}) /\ UpstreamTables' /\ UpstreamRowsCoherent'
<1>1. offers \subseteq (Ident \union Channel) \X Model /\ account \in [Ident -> AccountRow \union {NoRecord}]
  BY DEF UpInv, UpstreamTables
<1>2. owner \in Ident \union Channel BY <1>1 DEF Rows
<1>3. offers' \subseteq (Ident \union Channel) \X Model BY <1>1, <1>2 DEF OffersOf
<1>4. ASSUME NEW o \in offers' \ offers
      PROVE  o[1] \in Rows(account) \union Rows(connection') /\ models'[o[2]] # NoRecord
  <2>1. o \in OffersOf(owner, names) BY <1>4
  <2>2. o[1] = owner /\ o[2] \in names BY <2>1, OffersOfFit
  <2> QED BY <2>2
<1> QED BY <1>3, <1>4, CatalogOnly

LEMMA ReplaceStep ==
  ASSUME UpInv, NEW h \in Worker, NEW found \in SUBSET Model, ReplaceAccountModels(h, found)
  PROVE  UpInv' /\ SecretsStep
<1>1. UNCHANGED <<accountVars, drawn, connection, issued>> /\ Leaves(h) BY DEF ReplaceAccountModels
<1>2. PICK a \in Ident : a = work[h].account BY DEF ReplaceAccountModels, Stands, UpInv, UpTask, Manages
<1>3. CASE UNCHANGED <<offers, models>>
  <2>1. issued \in Nat BY DEF UpInv, UpstreamTables
  <2>2. issued' \in Nat /\ issued <= issued' /\ drawn \subseteq drawn' BY <1>1, <2>1
  <2>3. UNCHANGED <<accountVars, catalogVars>> BY <1>1, <1>3 DEF catalogVars
  <2> QED BY <1>1, <2>2, <2>3, RowsUntouched, UpLeaves
<1>4. CASE /\ account[a] # NoRecord /\ offers' = Replaced(a, found)
           /\ models' = Catalogued(found, TRUE)
  <2>1. PICK on \in BOOLEAN : on = TRUE OBVIOUS
  <2>2. models' = Catalogued(found, on) BY <1>4, <2>1
  <2>3. a \in Rows(account) BY <1>4 DEF UpInv, UpstreamTables, Rows
  <2>4. PICK kept \in SUBSET offers : offers' = kept \union OffersOf(a, found)
    BY <1>4 DEF Replaced
  <2>5. Evolves({}) /\ UpstreamTables' /\ UpstreamRowsCoherent'
    BY <1>1, <2>2, <2>3, <2>4, CataloguedFits, ConnectionKept, OffersAdded
  <2> QED BY <1>1, <2>5, UpLeaves
<1> QED BY <1>2, <1>3, <1>4 DEF ReplaceAccountModels

LEMMA ModelsStep ==
  ASSUME UpInv, NEW h \in Worker, NEW names \in SUBSET Model,
         \/ SyncConnectionModels(h, names)
         \/ \E image \in BOOLEAN : AddConnectionModels(h, names, image)
  PROVE  UpInv' /\ SecretsStep
<1>1. UNCHANGED <<accountVars, drawn, issued>> /\ Leaves(h)
  BY DEF SyncConnectionModels, AddConnectionModels
<1>2. PICK k \in Channel : k = work[h].connection /\ connection[k] # NoRecord
  BY DEF SyncConnectionModels, AddConnectionModels, Stands, UpInv, UpTask, Manages
<1>3. CASE UNCHANGED catalogVars
  <2>1. issued \in Nat BY DEF UpInv, UpstreamTables
  <2>2. issued' \in Nat /\ issued <= issued' /\ drawn \subseteq drawn' BY <1>1, <2>1
  <2> QED BY <1>1, <1>3, <2>2, RowsUntouched, UpLeaves
<1>4. CASE /\ connection' = Touched(k) /\ offers' = offers \union OffersOf(k, names)
           /\ \E on \in BOOLEAN : models' = Catalogued(names, on) \/ models' = ListedUnits(names, on)
  <2>1. PICK on \in BOOLEAN : models' = Catalogued(names, on) \/ models' = ListedUnits(names, on) BY <1>4
  <2>2. /\ models' \in [Model -> ModelRow \union {NoRecord}]
        /\ \A m \in Model : models[m] # NoRecord \/ m \in names => models'[m] # NoRecord
    BY <2>1, CataloguedFits, ListedFits
  <2>3. /\ connection' \in [Channel -> ConnectionRow \union {NoRecord}] /\ ConnectionsAdvance /\ KeysFit'
        /\ Rows(connection') = Rows(connection)
    BY <1>2, <1>4, TouchedFits
  <2>4. k \in Rows(connection) BY <1>2 DEF UpInv, UpstreamTables, Rows
  <2>5. Evolves({}) /\ UpstreamTables' /\ UpstreamRowsCoherent'
    BY <1>1, <1>4, <2>2, <2>3, <2>4, OffersAdded
  <2> QED BY <1>1, <2>5, UpLeaves
<1>5. CASE SyncConnectionModels(h, names)
  <2>1. PICK off \in BOOLEAN : off = FALSE OBVIOUS
  <2> QED BY <1>2, <1>3, <1>4, <1>5, <2>1 DEF SyncConnectionModels
<1>6. ASSUME NEW image \in BOOLEAN, AddConnectionModels(h, names, image) PROVE UpInv' /\ SecretsStep
  BY <1>2, <1>3, <1>4, <1>6 DEF AddConnectionModels
<1> QED BY <1>5, <1>6

LEMMA CreateConnectionStep ==
  ASSUME UpInv, NEW k \in Channel, NEW names \in SUBSET Model, NEW image \in BOOLEAN,
         CreateConnection(k, names, image)
  PROVE  UpInv' /\ SecretsStep
<1>1. UNCHANGED <<accountVars, drawn, work, issued>> BY DEF CreateConnection
<1>2. connection \in [Channel -> ConnectionRow \union {NoRecord}] BY DEF UpInv, UpstreamTables
<1>3. PICK row : row = NewConnection(k) OBVIOUS
<1>4. row \in ConnectionRow BY <1>3 DEF NewConnection, ConnectionRow, Sealed, Status
<1>5. row # NoRecord BY <1>4, UpstreamAssumption
<1>6. row.secret = Sealed(k, k, row.keyRevision, row.secret.token) BY <1>3 DEF NewConnection, Sealed
<1>7. connection' = [connection EXCEPT ![k] = row] /\ connection[k] = NoRecord
  BY <1>3 DEF CreateConnection
<1>8. connection'[k] = row /\ \A j \in Channel : j # k => connection'[j] = connection[j] BY <1>2, <1>7
<1>9. connection' \in [Channel -> ConnectionRow \union {NoRecord}] BY <1>2, <1>4, <1>7
<1>10. Rows(connection') = Rows(connection) \union {k} BY <1>2, <1>5, <1>7 DEF Rows
<1>11. ConnectionsAdvance BY <1>7, <1>8 DEF ConnectionsAdvance
<1>12. KeysFit'
  <2>1. \A j \in Rows(connection') : connection'[j].secret =
          Sealed(j, j, connection'[j].keyRevision, connection'[j].secret.token)
    BY <1>2, <1>6, <1>8, <1>10 DEF UpInv, UpstreamRowsCoherent, KeysFit, Rows
  <2> QED BY <2>1 DEF KeysFit, Rows
<1>13. models' = ListedUnits(names, image) /\ offers' = offers \union OffersOf(k, names)
  BY DEF CreateConnection
<1>14. Evolves({}) /\ UpstreamTables' /\ UpstreamRowsCoherent'
  BY <1>1, <1>9, <1>10, <1>11, <1>12, <1>13, ListedFits, OffersAdded
<1> QED BY <1>1, <1>14, UpStill

LEMMA UpInitially == ASSUME UpstreamInit PROVE UpInv
<1>1. UpstreamTables
  <2>1. Rows(account) = {} BY DEF UpstreamInit, Rows
  <2> QED BY <2>1, FS_EmptySet DEF UpstreamInit, UpstreamTables
<1>2. UpstreamRowsCoherent
  <2>1. Rows(account) = {} /\ Rows(credential) = {} /\ Rows(leases) = {} /\ Rows(connection) = {}
    BY DEF UpstreamInit, Rows
  <2>2. Cardinality({}) = 0 BY FS_EmptySet
  <2> QED BY <2>1, <2>2, UpstreamAssumption
          DEF UpstreamInit, UpstreamRowsCoherent, AccountsUnique, CredentialsFit, KeysFit, OffersOwned
<1>3. \A h \in Worker : UpTask(work[h]) /\ IdsApart(h, work[h])
  BY DEF UpstreamInit, UpTask, IdsApart, Reserves
<1> QED BY <1>1, <1>2, <1>3 DEF UpInv, UpstreamInit

LEMMA UpStep ==
  ASSUME UpInv, [UpstreamNext]_upstreamVars
  PROVE  UpInv' /\ [SecretsStep]_upstreamVars
<1>1. CASE UNCHANGED upstreamVars
  <2>1. UNCHANGED <<account, credential, leases, connection, models, offers, work, drawn, issued>>
    BY <1>1 DEF upstreamVars
  <2>2. issued \in Nat BY DEF UpInv, UpstreamTables
  <2>3. issued' \in Nat /\ issued <= issued' /\ drawn \subseteq drawn' BY <2>1, <2>2
  <2>4. UNCHANGED <<accountVars, catalogVars>> BY <2>1 DEF accountVars, catalogVars
  <2> QED BY <1>1, <2>1, <2>3, <2>4, RowsUntouched, UpStill
<1>2. ASSUME NEW h \in Worker, HandlerNext(h) PROVE UpInv' /\ SecretsStep
  <2>1. CASE \E e \in Enrollment : BeginExchange(h, e) BY <2>1, BeginExchangeStep
  <2>2. CASE ExchangeFails(h) \/ Dies(h) BY <2>2, GivesUpStep
  <2>3. CASE \E s \in Subject : ExchangeSucceeds(h, s) BY <2>3, ExchangeSucceedsStep
  <2>4. CASE ResolveAccount(h) BY <2>4, ResolveStep
  <2>5. CASE InsertAccount(h) BY <2>5, InsertAccountStep
  <2>6. CASE InsertCredential(h) BY <2>6, InsertCredentialStep
  <2>7. CASE \/ \E c \in Ident : BeginCredentialRefresh(h, c)
             \/ \E a \in Ident : BeginSync(h, a)
             \/ \E k \in Channel : BeginDiscovery(h, k) \/ BeginListing(h, k)
    BY <2>7, UpBeginsStep
  <2>8. CASE \E k \in Channel, rotating \in BOOLEAN : BeginUpdate(h, k, rotating) BY <2>8, BeginUpdateStep
  <2>9. CASE AcquireRefreshLease(h) BY <2>9, AcquireStep
  <2>10. CASE DecryptCredential(h) BY <2>10, DecryptStep
  <2>11. CASE UpstreamRefreshes(h) BY <2>11, RefreshedStep
  <2>12. CASE RefreshFails(h) BY <2>12, RefreshFailsStep
  <2>13. CASE CommitCredentialRefresh(h) BY <2>13, CommitRefreshStep
  <2>14. CASE UpdateConnection(h) BY <2>14, UpdateConnectionStep
  <2>15. CASE \E names \in SUBSET Model : ReplaceAccountModels(h, names) BY <2>15, ReplaceStep
  <2>16. CASE \E names \in SUBSET Model : \/ SyncConnectionModels(h, names)
                                          \/ \E image \in BOOLEAN : AddConnectionModels(h, names, image)
    BY <2>16, ModelsStep
  <2> QED BY <1>2, <2>1, <2>2, <2>3, <2>4, <2>5, <2>6, <2>7, <2>8, <2>9, <2>10, <2>11, <2>12, <2>13,
             <2>14, <2>15, <2>16 DEF HandlerNext
<1>3. CASE \E e \in Enrollment : StartEnrollment(e) \/ CancelEnrollment(e) \/ SessionExpires(e)
  BY <1>3, SessionStep
<1>4. CASE \E a \in Ident : DeleteUpstreamAccount(a) BY <1>4, DeleteAccountStep
<1>5. CASE \E a \in Ident, status \in Status : UpdateUpstreamAccount(a, status) BY <1>5, UpdateAccountStep
<1>6. CASE \E c \in Ident : LeaseExpires(c) BY <1>6, LeaseExpiresStep
<1>7. CASE \E m \in Model, on \in BOOLEAN : UpdateModelEnabled(m, on) BY <1>7, EnabledStep
<1>8. CASE \E k \in Channel, names \in SUBSET Model, image \in BOOLEAN : CreateConnection(k, names, image)
  BY <1>8, CreateConnectionStep
<1> QED BY <1>1, <1>2, <1>3, <1>4, <1>5, <1>6, <1>7, <1>8 DEF UpstreamNext

\* Upstream accounts, credentials, connections and offers fit together, and no
\* late answer undoes a newer secret, for any number of handlers, accounts and
\* connections and any license.
THEOREM UpstreamSoundness == UpstreamSpec => UpstreamSound
<1>1. UpstreamInit => UpInv BY UpInitially
<1>2. UpInv /\ [UpstreamNext]_upstreamVars => UpInv' /\ [SecretsStep]_upstreamVars BY UpStep
<1>3. UpInv => UpstreamRowsCoherent BY DEF UpInv
<1> QED BY <1>1, <1>2, <1>3, PTL DEF UpstreamSpec, UpstreamSound, SecretsAdvance
=============================================================================
