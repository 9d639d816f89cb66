------------------------- MODULE MoneyLedger_proofs -------------------------
(***************************************************************************)
(* The money account keeps its invariants for any number of operations,    *)
(* references, amounts and retries, and any width of the integers.         *)
(*                                                                         *)
(* The transactions compare what an operation read with what is there, so  *)
(* the proof needs to know what an operation that is about to write has    *)
(* read: a pending request (LoadedPending) and a row whose successor fits  *)
(* (SuccessorFits).                                                        *)
(*                                                                         *)
(* The ledger adds up to the balance because a sum grows by the amount     *)
(* that is added to it; that is shown first, for sums of any kind.         *)
(*                                                                         *)
(* The second part is about prices, for any calendar of windows and any    *)
(* number of administrators, versions and requests.  The heart of it is    *)
(* that windows_overlap, which looks at one week of common dates, answers  *)
(* exactly whether two windows ever apply at the same minute.              *)
(*                                                                         *)
(* The third part is about the quotas of members: tokens, images and       *)
(* vouchers.                                                               *)
(***************************************************************************)
EXTENDS MoneyLedger, PriceBook, MemberQuota, FiniteSetTheorems, TLAPS

\* Steps at which a handler relies on the request it has loaded.
Loaded == {"reload", "balance", "snapshot", "audit", "write"}

\* A review, an update or a withdrawal, and nothing else, loads a request, and
\* goes on only if it is pending.
LoadedPending ==
  \A o \in Op :
    /\ pc[o] = "load" => Kind[o] \in RequestKinds \ {"create"}
    /\ pc[o] = "reload" => Kind[o] \in ReviewKinds
    /\ pc[o] \in Loaded /\ Kind[o] \in RequestKinds \ {"create"}
         => seen[o].status = "pending"

\* The operation has its snapshot of the balance row.
Built(o) ==
  EntersMoney(o) /\ (pc[o] = "write" \/ (pc[o] = "audit" /\ Kind[o] \in AppendKinds))

\* The successor that will be written fits.
SuccessorFits ==
  \A o \in Op : Built(o) =>
    Fits(Successor(o).balance) /\ Fits(Successor(o).credited) /\ Fits(Successor(o).debited)

LedgerInv ==
  /\ TypeOK
  /\ AccountConsistent
  /\ OneEntryPerReference
  /\ ApprovedIffGranted
  /\ SuccessIsEntered
  /\ LoadedPending
  /\ SuccessorFits

\* The references of entries and of quota requests are apart, and an approval
\* enters what its operation has loaded.
LEMMA EntryTyped ==
  ASSUME TypeOK, NEW o \in Op, EntersMoney(o)
  PROVE  EntryOf(o) \in Entry /\ EntryAmount(o) \in Int
  BY LedgerAssumption
  DEF EntryOf, EntryAmount, Entry, EntersMoney, TypeOK, AppendKinds, RequestKinds,
      ReviewKinds, RequestRow

LEMMA InitOK == Init => LedgerInv
  <1> SUFFICES ASSUME Init PROVE LedgerInv
    OBVIOUS
  <1> USE LedgerAssumption DEF Init, ZeroBalance, NoRequest
  <1>1. TypeOK
    <2>1. bal \in Balance /\ ZeroBalance \in Balance /\ NoRequest \in RequestRow
      BY DEF Balance, RequestRow, Statuses
    <2>2. ledger \in Seq(Entry) /\ audit \in Seq([about : {Ref[o] : o \in Op} \cup {None}, money : BOOLEAN])
      OBVIOUS
    <2>3. tries \in [Op -> 0..MaxTries] /\ tail \in [Op -> Nat] /\ pc \in [Op -> {"idle"}]
      OBVIOUS
    <2> QED
      BY <2>1, <2>2, <2>3 DEF TypeOK
  <1>2. AccountConsistent
    BY DEF AccountConsistent, Fits
  <1>3. OneEntryPerReference /\ ApprovedIffGranted /\ SuccessIsEntered
    BY DEF OneEntryPerReference, ApprovedIffGranted, SuccessIsEntered, References
  <1>4. LoadedPending /\ SuccessorFits
    BY DEF LoadedPending, SuccessorFits, Loaded, Built
  <1> QED
    BY <1>1, <1>2, <1>3, <1>4 DEF LedgerInv

\* The part of the invariant that is about one operation.
LocalInv(o) ==
  /\ pc[o] = "ok" /\ EntersMoney(o) => \E i \in DOMAIN ledger : ledger[i] = EntryOf(o)
  /\ pc[o] = "load" => Kind[o] \in RequestKinds \ {"create"}
  /\ pc[o] = "reload" => Kind[o] \in ReviewKinds
  /\ pc[o] \in Loaded /\ Kind[o] \in RequestKinds \ {"create"} => seen[o].status = "pending"
  /\ Built(o) => /\ Fits(Successor(o).balance)
                 /\ Fits(Successor(o).credited)
                 /\ Fits(Successor(o).debited)

LEMMA LocalParts ==
  (\A o \in Op : LocalInv(o)) <=> SuccessIsEntered /\ LoadedPending /\ SuccessorFits
  BY DEF LocalInv, SuccessIsEntered, LoadedPending, SuccessorFits

\* A step of o that leaves the account and the requests alone keeps the
\* invariant if it keeps the part about o.
LEMMA QuietStep ==
  ASSUME LedgerInv, TypeOK', NEW o \in Op, LocalInv(o)',
         UNCHANGED <<bal, ledger, req>>,
         \A p \in Op \ {o} : pc'[p] = pc[p] /\ seen'[p] = seen[p] /\ snap'[p] = snap[p]
  PROVE  LedgerInv'
  <1>1. AccountConsistent' /\ OneEntryPerReference' /\ ApprovedIffGranted'
    BY DEF LedgerInv, AccountConsistent, OneEntryPerReference, ApprovedIffGranted,
           References
  <1>2. ASSUME NEW p \in Op \ {o} PROVE LocalInv(p)'
    <2>1. LocalInv(p)
      BY LocalParts DEF LedgerInv
    <2> QED
      BY <2>1 DEF LocalInv, EntryOf, EntryAmount, Successor, Built, EntersMoney
  <1>3. (\A p \in Op : LocalInv(p))'
    BY <1>2
  <1>4. SuccessIsEntered' /\ LoadedPending' /\ SuccessorFits'
    BY <1>3 DEF LocalInv, SuccessIsEntered, LoadedPending, SuccessorFits
  <1> QED
    BY <1>1, <1>4 DEF LedgerInv

\* An operation that ends, with success only if its entry is there.
LEMMA FinishStep ==
  ASSUME LedgerInv, NEW o \in Op, NEW r \in Ended,
         Finish(o, r), UNCHANGED store,
         r = "ok" => \E i \in DOMAIN ledger : ledger[i] = EntryOf(o)
  PROVE  LedgerInv'
  <1> USE LedgerAssumption
  <1>1. TypeOK'
    <2>1. ZeroBalance \in Balance
      BY DEF ZeroBalance, Balance
    <2> QED
      BY <2>1 DEF LedgerInv, TypeOK, Finish, Goto, store
  <1>2. pc' = [pc EXCEPT ![o] = r] /\ pc'[o] = r /\ seen' = seen
    BY DEF Finish, Goto, LedgerInv, TypeOK
  <1>3. LocalInv(o)'
    BY <1>2 DEF LocalInv, Built, Loaded, Ended, EntryOf, EntryAmount, EntersMoney, store
  <1>4. \A p \in Op \ {o} : pc'[p] = pc[p] /\ seen'[p] = seen[p] /\ snap'[p] = snap[p]
    BY DEF Finish, Goto, LedgerInv, TypeOK
  <1> QED
    BY <1>1, <1>3, <1>4, QuietStep DEF store

\* A lost transaction begins the next round.
LEMMA NewRoundStep ==
  ASSUME LedgerInv, NEW o \in Op, NewRound(o), pc[o] = "write", tries[o] < MaxTries,
         UNCHANGED store
  PROVE  LedgerInv'
  <1> USE LedgerAssumption
  <1>1. RoundAt(o) \in {"balance", "reload", "audit"}
          /\ (EntersMoney(o) => RoundAt(o) # "audit")
          /\ (RoundAt(o) = "reload" => Kind[o] \in ReviewKinds)
    BY DEF RoundAt, EntersMoney, ReviewKinds
  <1>2. TypeOK'
    <2>1. ZeroBalance \in Balance
      BY DEF ZeroBalance, Balance
    <2>2. tries[o] + 1 \in 0..MaxTries
      BY DEF LedgerInv, TypeOK
    <2> QED
      BY <1>1, <2>1, <2>2 DEF LedgerInv, TypeOK, NewRound, Goto, store
  <1>3. pc'[o] = RoundAt(o) /\ seen' = seen
    BY DEF NewRound, Goto, LedgerInv, TypeOK
  <1>4. LocalInv(o)
    BY LocalParts DEF LedgerInv
  <1>5. LocalInv(o)'
    BY <1>1, <1>3, <1>4 DEF LocalInv, Built, Loaded, EntersMoney
  <1>6. \A p \in Op \ {o} : pc'[p] = pc[p] /\ seen'[p] = seen[p] /\ snap'[p] = snap[p]
    BY DEF NewRound, Goto, LedgerInv, TypeOK
  <1> QED
    BY <1>2, <1>5, <1>6, QuietStep DEF store

\* The steps of an operation before its transaction.
LEMMA ReadSteps ==
  ASSUME LedgerInv, NEW o \in Op,
         Start(o) \/ Load(o) \/ Reload(o) \/ EnsureBalance(o) \/ PrepareAudit(o)
  PROVE  LedgerInv'
  <1> USE LedgerAssumption
  <1>0. LocalInv(o)
    BY LocalParts DEF LedgerInv
  <1>1. CASE Start(o)
    <2>1. TypeOK'
      BY <1>1 DEF Start, Creates, Revises, Goto, store, LedgerInv, TypeOK
    <2>2. pc'[o] \in {"load", "balance"} /\ UNCHANGED <<seen, ledger, snap>>
            /\ (Kind[o] \in RequestKinds \ {"create"} <=> pc'[o] = "load")
      BY <1>1 DEF Start, Creates, Revises, Goto, store, LedgerInv, TypeOK
    <2>3. LocalInv(o)'
      BY <2>2, <1>0 DEF LocalInv, Built, Loaded
    <2> QED
      BY <1>1, <2>1, <2>3, QuietStep DEF Start, Creates, Revises, Goto, store, LedgerInv, TypeOK
  <1>2. CASE Load(o)
    <2>1. Ref[o] \in QuotaRequest /\ Kind[o] \in RequestKinds \ {"create"}
      BY <1>0, <1>2 DEF Load, IsPending, LocalInv, QuotaRequest
    <2>2. CASE req[Ref[o]].status # "pending"
      BY <1>2, <2>2, FinishStep DEF Load, IsPending, Ended
    <2>3. CASE req[Ref[o]].status = "pending"
      <3>1. RoundAt(o) \in {"reload", "audit"} /\ (RoundAt(o) = "reload" <=> Kind[o] \in ReviewKinds)
        BY <2>1 DEF RoundAt, ReviewKinds, RequestKinds, AppendKinds
      <3>2. seen' = [seen EXCEPT ![o] = req[Ref[o]]] /\ pc' = [pc EXCEPT ![o] = RoundAt(o)]
              /\ UNCHANGED <<store, tries, snap, tail>>
        BY <1>2, <2>3 DEF Load, IsPending, Goto
      <3>3. TypeOK'
        BY <2>1, <3>1, <3>2 DEF store, LedgerInv, TypeOK
      <3>4. pc'[o] = RoundAt(o) /\ seen'[o].status = "pending"
        BY <2>3, <3>2 DEF LedgerInv, TypeOK
      <3>5. LocalInv(o)'
        BY <2>1, <3>1, <3>4 DEF LocalInv, Built, Loaded, EntersMoney, RequestKinds,
             ReviewKinds, AppendKinds
      <3> QED
        BY <3>2, <3>3, <3>5, QuietStep DEF store, LedgerInv, TypeOK
    <2> QED
      BY <2>2, <2>3
  <1>3. CASE Reload(o)
    <2>1. CASE req[Ref[o]] # seen[o]
      BY <1>3, <2>1, FinishStep DEF Reload, Ended
    <2>2. CASE req[Ref[o]] = seen[o]
      <3>1. pc' = [pc EXCEPT ![o] = "audit"] /\ UNCHANGED <<store, tries, snap, seen, tail>>
        BY <1>3, <2>2 DEF Reload, Goto
      <3>2. TypeOK'
        BY <3>1 DEF store, LedgerInv, TypeOK
      <3>3. pc[o] = "reload" /\ pc'[o] = "audit"
        BY <1>3, <3>1 DEF Reload, LedgerInv, TypeOK
      <3>4. LocalInv(o)'
        BY <1>0, <3>1, <3>3 DEF LocalInv, Built, Loaded, ReviewKinds, AppendKinds
      <3> QED
        BY <3>1, <3>2, <3>4, QuietStep DEF store, LedgerInv, TypeOK
    <2> QED
      BY <2>1, <2>2
  <1>4. CASE EnsureBalance(o)
    <2>1. TypeOK'
      BY <1>4 DEF EnsureBalance, Creates, Goto, LedgerInv, TypeOK
    <2>2. pc[o] = "balance" /\ pc'[o] = (IF Kind[o] = "create" THEN "audit" ELSE "snapshot")
            /\ UNCHANGED <<bal, ledger, req, snap, seen>>
      BY <1>4 DEF EnsureBalance, Creates, Goto, LedgerInv, TypeOK
    <2>3. LocalInv(o)'
      BY <1>0, <2>2 DEF LocalInv, Built, Loaded, EntersMoney, AppendKinds
    <2> QED
      BY <1>4, <2>1, <2>2, <2>3, QuietStep DEF EnsureBalance, Creates, Goto, LedgerInv, TypeOK
  <1>5. CASE PrepareAudit(o)
    <2>1. TypeOK'
      BY <1>5 DEF PrepareAudit, Goto, store, LedgerInv, TypeOK
    <2>2. pc[o] = "audit" /\ pc'[o] = (IF Kind[o] = "approve" THEN "balance" ELSE "write")
            /\ UNCHANGED <<bal, ledger, req, snap, seen>>
      BY <1>5 DEF PrepareAudit, Goto, store, LedgerInv, TypeOK
    <2>3. LocalInv(o)'
      BY <1>0, <2>2 DEF LocalInv, Built, Loaded, EntersMoney, Successor, EntryAmount
    <2> QED
      BY <1>5, <2>1, <2>2, <2>3, QuietStep DEF PrepareAudit, Goto, LedgerInv, TypeOK
  <1> QED
    BY <1>1, <1>2, <1>3, <1>4, <1>5

\* The snapshot finds the entry, finds that it does not fit, or is kept.
LEMMA SnapshotStep ==
  ASSUME LedgerInv, NEW o \in Op, Snapshot(o)
  PROVE  LedgerInv'
  <1> USE LedgerAssumption
  <1>0. LocalInv(o)
    BY LocalParts DEF LedgerInv
  <1> DEFINE found == Kind[o] \in AppendKinds /\ Ref[o] \in References(ledger)
             fits == /\ Fits(bal.balance + EntryAmount(o))
                     /\ Fits(bal.credited + Positive(EntryAmount(o)))
                     /\ Fits(bal.debited + Positive(-EntryAmount(o)))
  <1>1. CASE found
    BY <1>1, FinishStep DEF Snapshot, Ended
  <1>2. CASE ~found /\ ~fits
    BY <1>2, FinishStep DEF Snapshot, Ended
  <1>3. CASE ~found /\ fits
    <2>1. snap' = [snap EXCEPT ![o] = bal] /\ UNCHANGED <<store, tries, seen, tail>>
            /\ pc' = [pc EXCEPT ![o] = IF Kind[o] \in AppendKinds THEN "audit" ELSE "write"]
            /\ pc[o] = "snapshot"
      BY <1>3 DEF Snapshot, Goto
    <2>2. TypeOK'
      BY <2>1 DEF store, LedgerInv, TypeOK
    <2>3. snap'[o] = bal /\ EntryAmount(o)' = EntryAmount(o) /\ UNCHANGED ledger
            /\ pc'[o] \in {"audit", "write"}
      BY <2>1 DEF store, EntryAmount, LedgerInv, TypeOK
    <2>4. Successor(o)'.balance = bal.balance + EntryAmount(o)
            /\ Successor(o)'.credited = bal.credited + Positive(EntryAmount(o))
            /\ Successor(o)'.debited = bal.debited + Positive(-EntryAmount(o))
      BY <2>3 DEF Successor, Positive
    <2>5. LocalInv(o)'
      BY <1>0, <1>3, <2>1, <2>3, <2>4 DEF LocalInv, Loaded, Fits
    <2> QED
      BY <2>1, <2>2, <2>5, QuietStep DEF store, LedgerInv, TypeOK
  <1> QED
    BY <1>1, <1>2, <1>3

\* A transaction that is rolled back, or a failed call.
LEMMA FailedSteps ==
  ASSUME LedgerInv, NEW o \in Op, Conflict(o) \/ StorageError(o)
  PROVE  LedgerInv'
  <1>1. CASE Conflict(o)
    BY <1>1, FinishStep, NewRoundStep DEF Conflict, Ended
  <1>2. CASE StorageError(o)
    BY <1>2, FinishStep DEF StorageError, Ended
  <1> QED
    BY <1>1, <1>2

\* What the transaction does to the account and to the requests.
LEMMA CommitEffect ==
  ASSUME LedgerInv, NEW o \in Op, NEW ack \in BOOLEAN, Commit(o, ack)
  PROVE  /\ TypeOK'
         /\ pc' = [pc EXCEPT ![o] = IF ack THEN "ok" ELSE "error"]
         /\ seen' = seen
         /\ \A p \in Op \ {o} : snap'[p] = snap[p]
         /\ EntersMoney(o) =>
              /\ bal = snap[o] /\ Ref[o] \notin References(ledger)
              /\ bal' = Successor(o) /\ ledger' = Append(ledger, EntryOf(o))
         /\ ~EntersMoney(o) => UNCHANGED <<bal, ledger>>
         /\ Kind[o] \in RequestKinds =>
              /\ Ref[o] \in QuotaRequest
              /\ req[Ref[o]].status \in {"none", "pending"}
              /\ Kind[o] # "create" => req[Ref[o]] = seen[o]
              /\ req' = [req EXCEPT ![Ref[o]] = RequestAfter(o)]
         /\ Kind[o] \notin RequestKinds => UNCHANGED req
  <1> USE LedgerAssumption
  <1>0. LocalInv(o) /\ pc[o] = "write"
    BY LocalParts DEF LedgerInv, Commit
  <1>1. Kind[o] \in RequestKinds =>
          /\ Ref[o] \in QuotaRequest
          /\ req[Ref[o]].status \in {"none", "pending"}
          /\ Kind[o] # "create" => req[Ref[o]] = seen[o]
    BY <1>0 DEF QuotaRequest, Commit, Unchanged, AccountUnchanged, RequestUnchanged, MayInsert, IsPending, Creates, Revises, LocalInv, Loaded, NoRequest
  <1>2. EntersMoney(o) => Successor(o) \in Balance
    <2> SUFFICES ASSUME EntersMoney(o) PROVE Successor(o) \in Balance
      OBVIOUS
    <2>1. EntryAmount(o) \in Int /\ TypeOK
      BY EntryTyped DEF LedgerInv
    <2>2. snap[o] \in Balance
      BY <2>1 DEF TypeOK
    <2> QED
      BY <2>1, <2>2 DEF Successor, Balance, Positive
  <1>3. Kind[o] \in RequestKinds => RequestAfter(o) \in RequestRow
    <2>1. seen[o] \in RequestRow /\ NoRequest \in RequestRow /\ Amount[o] \in Int
      BY DEF LedgerInv, TypeOK, RequestRow, Statuses, NoRequest
    <2>2. CASE Kind[o] = "create"
      BY <2>1, <2>2 DEF RequestAfter, Revised, RequestRow, Statuses
    <2>3. CASE Kind[o] = "update"
      BY <2>1, <2>3 DEF RequestAfter, Revised, RequestRow, Statuses
    <2>4. CASE Kind[o] = "withdraw"
      BY <2>1, <2>4 DEF RequestAfter, Revised, RequestRow, Statuses
    <2>5. CASE Kind[o] = "approve"
      BY <2>1, <2>5 DEF RequestAfter, Revised, RequestRow, Statuses
    <2>6. CASE Kind[o] = "reject"
      BY <2>1, <2>6 DEF RequestAfter, Revised, RequestRow, Statuses
    <2> QED
      BY <2>2, <2>3, <2>4, <2>5, <2>6 DEF RequestKinds, ReviewKinds
  <1>4. TypeOK'
    <2>1. bal' \in Balance /\ ledger' \in Seq(Entry)
      <3>1. bal \in Balance /\ ledger \in Seq(Entry)
        BY DEF LedgerInv, TypeOK
      <3>2. CASE EntersMoney(o)
        <4>1. EntryOf(o) \in Entry
          BY <3>2, EntryTyped DEF LedgerInv
        <4>2. bal' = Successor(o) /\ ledger' = Append(ledger, EntryOf(o))
          BY <3>2 DEF Commit
        <4>3. Append(ledger, EntryOf(o)) \in Seq(Entry)
          BY <3>1, <4>1
        <4> QED
          BY <1>2, <3>2, <4>2, <4>3
      <3>3. CASE ~EntersMoney(o)
        BY <3>1, <3>3 DEF Commit
      <3> QED
        BY <3>2, <3>3
    <2>2. req' \in [QuotaRequest -> RequestRow]
      BY <1>1, <1>3 DEF Commit, LedgerInv, TypeOK
    <2>3. audit' \in Seq([about : {Ref[p] : p \in Op} \cup {None}, money : BOOLEAN])
      BY DEF Commit, EntersMoney, LedgerInv, TypeOK
    <2>4. ZeroBalance \in Balance
      BY DEF ZeroBalance, Balance
    <2>5. Finish(o, IF ack THEN "ok" ELSE "error") /\ UNCHANGED exists
      BY DEF Commit
    <2>6. (IF ack THEN "ok" ELSE "error") \in Ended
      BY DEF Ended
    <2>7. TypeOK
      BY DEF LedgerInv
    <2> QED
      BY <2>1, <2>2, <2>3, <2>4, <2>5, <2>6, <2>7 DEF Finish, Goto, TypeOK
  <1> QED
    BY <1>1, <1>4 DEF Commit, Unchanged, AccountUnchanged, RequestUnchanged, MayInsert, IsPending, Creates, Revises, Finish, Goto, LedgerInv, TypeOK

\* The transaction keeps what is known of the operations.
LEMMA CommitLocal ==
  ASSUME LedgerInv, NEW o \in Op, NEW ack \in BOOLEAN, Commit(o, ack), NEW p \in Op,
         \A i \in DOMAIN ledger : i \in DOMAIN ledger' /\ ledger'[i] = ledger[i],
         EntersMoney(o) => \E i \in DOMAIN ledger' : ledger'[i] = EntryOf(o)
  PROVE  LocalInv(p)'
  <1>1. LocalInv(p)
    BY LocalParts DEF LedgerInv
  <1>0. pc' = [pc EXCEPT ![o] = IF ack THEN "ok" ELSE "error"] /\ seen' = seen
          /\ \A x \in Op \ {o} : snap'[x] = snap[x]
    BY CommitEffect
  <1>2. pc'[o] \in {"ok", "error"} /\ seen' = seen
    BY <1>0 DEF LedgerInv, TypeOK
  <1>3. CASE p = o
    BY <1>2, <1>3 DEF LocalInv, Loaded, Built, EntryOf, EntryAmount, EntersMoney
  <1>4. CASE p # o
    <2>1. pc'[p] = pc[p] /\ snap'[p] = snap[p]
      BY <1>0, <1>4 DEF LedgerInv, TypeOK
    <2> QED
      BY <1>1, <1>2, <2>1
      DEF LocalInv, EntryOf, EntryAmount, Successor, Built, EntersMoney
  <1> QED
    BY <1>3, <1>4

\* The transaction keeps the account and the requests consistent.
LEMMA CommitStep ==
  ASSUME LedgerInv, NEW o \in Op, NEW ack \in BOOLEAN, Commit(o, ack)
  PROVE  LedgerInv'
  <1> USE LedgerAssumption
  <1>0. LocalInv(o) /\ pc[o] = "write" /\ TypeOK
    BY LocalParts DEF LedgerInv, Commit
  <1>1. CASE EntersMoney(o)
    <2>1. /\ bal = snap[o] /\ Ref[o] \notin References(ledger)
          /\ bal' = Successor(o) /\ ledger' = Append(ledger, EntryOf(o))
      BY <1>1, CommitEffect
    <2>2. EntryOf(o) \in Entry /\ EntryAmount(o) \in Int /\ EntryOf(o).ref = Ref[o]
      BY <1>0, <1>1, EntryTyped DEF EntryOf
    <2>3. ledger \in Seq(Entry) /\ bal \in Balance
      BY <1>0 DEF TypeOK
    <2>4. /\ Len(ledger') = Len(ledger) + 1
          /\ DOMAIN ledger' = 1..(Len(ledger) + 1) /\ DOMAIN ledger = 1..Len(ledger)
          /\ \A i \in DOMAIN ledger : ledger'[i] = ledger[i]
          /\ ledger'[Len(ledger) + 1] = EntryOf(o) /\ Len(ledger) \in Nat
      BY <2>1, <2>2, <2>3
    <2>5. AccountConsistent'
      <3>1. bal'.balance = bal.balance + EntryAmount(o)
              /\ bal'.credited = bal.credited + Positive(EntryAmount(o))
              /\ bal'.debited = bal.debited + Positive(-EntryAmount(o))
              /\ bal'.revision = bal.revision + 1
        BY <2>1 DEF Successor
      <3>2. bal.balance = bal.credited - bal.debited /\ bal.revision = Len(ledger)
        BY DEF LedgerInv, AccountConsistent
      <3>3. Fits(bal'.balance) /\ Fits(bal'.credited) /\ Fits(bal'.debited)
        BY <1>0, <1>1, <2>1 DEF LocalInv, Built, Fits
      <3>4. bal'.balance = bal'.credited - bal'.debited /\ bal'.revision = Len(ledger')
        BY <2>2, <2>3, <2>4, <3>1, <3>2 DEF Positive, Balance
      <3> QED
        BY <3>3, <3>4 DEF AccountConsistent, Fits
    <2>6. \A i \in DOMAIN ledger : ledger[i].ref # Ref[o]
      BY <2>1 DEF References
    <2>7. OneEntryPerReference'
      BY <2>2, <2>4, <2>6 DEF LedgerInv, OneEntryPerReference
    <2>8. References(ledger') = References(ledger) \cup {Ref[o]}
      BY <2>2, <2>4, SMTT(30) DEF References
    <2>9. ApprovedIffGranted'
      <3>1. CASE Kind[o] = "approve"
        <4>1. /\ Ref[o] \in QuotaRequest /\ req[Ref[o]] = seen[o]
              /\ req' = [req EXCEPT ![Ref[o]] = RequestAfter(o)]
          BY <3>1, CommitEffect DEF RequestKinds, ReviewKinds
        <4>2. RequestAfter(o).status = "approved" /\ RequestAfter(o).amount = EntryOf(o).amount
          BY <3>1 DEF RequestAfter, Revised, EntryOf, EntryAmount
        <4>3. req'[Ref[o]] = RequestAfter(o) /\ \A q \in QuotaRequest \ {Ref[o]} : req'[q] = req[q]
          BY <1>0, <4>1 DEF TypeOK
        <4>4. ASSUME NEW q \in QuotaRequest \ {Ref[o]}
              PROVE  /\ req'[q].status = "approved" <=> q \in References(ledger')
                     /\ \A i \in DOMAIN ledger' : ledger'[i].ref = q => ledger'[i].amount = req'[q].amount
          BY <2>2, <2>4, <2>8, <4>3 DEF LedgerInv, ApprovedIffGranted
        <4>5. \A i \in DOMAIN ledger' : ledger'[i].ref = Ref[o] => ledger'[i].amount = req'[Ref[o]].amount
          BY <2>4, <2>6, <4>2, <4>3
        <4> QED
          BY <2>8, <4>2, <4>3, <4>4, <4>5 DEF ApprovedIffGranted
      <3>2. CASE Kind[o] \in AppendKinds
        <4>1. Ref[o] \notin QuotaRequest /\ UNCHANGED req
          BY <3>2, CommitEffect DEF QuotaRequest, AppendKinds, RequestKinds, ReviewKinds
        <4> QED
          BY <2>2, <2>4, <2>8, <4>1 DEF LedgerInv, ApprovedIffGranted
      <3> QED
        BY <1>1, <3>1, <3>2 DEF EntersMoney
    <2>10. \A p \in Op : LocalInv(p)'
      <3>1. \A i \in DOMAIN ledger : i \in DOMAIN ledger' /\ ledger'[i] = ledger[i]
        BY <2>4
      <3>2. \E i \in DOMAIN ledger' : ledger'[i] = EntryOf(o)
        BY <2>4
      <3> QED
        BY <3>1, <3>2, CommitLocal
    <2> QED
      BY <2>5, <2>7, <2>9, <2>10, CommitEffect
      DEF LedgerInv, LocalInv, SuccessIsEntered, LoadedPending, SuccessorFits
  <1>2. CASE ~EntersMoney(o)
    <2>1. UNCHANGED <<bal, ledger>>
      BY <1>2, CommitEffect
    <2>2. AccountConsistent' /\ OneEntryPerReference'
      BY <2>1 DEF LedgerInv, AccountConsistent, OneEntryPerReference
    <2>3. ApprovedIffGranted'
      <3>1. Kind[o] \in RequestKinds \ {"approve"}
        BY <1>2 DEF EntersMoney
      <3>2. /\ Ref[o] \in QuotaRequest /\ req[Ref[o]].status # "approved"
            /\ req' = [req EXCEPT ![Ref[o]] = RequestAfter(o)]
        BY <3>1, CommitEffect
      <3>3. RequestAfter(o).status # "approved"
        BY <3>1 DEF RequestAfter, Revised, NoRequest, RequestKinds, ReviewKinds
      <3>4. req'[Ref[o]] = RequestAfter(o) /\ \A q \in QuotaRequest \ {Ref[o]} : req'[q] = req[q]
        BY <1>0, <3>2 DEF TypeOK
      <3>5. Ref[o] \notin References(ledger)
        BY <3>2 DEF LedgerInv, ApprovedIffGranted
      <3> QED
        BY <2>1, <3>2, <3>3, <3>4, <3>5 DEF LedgerInv, ApprovedIffGranted, References
    <2>4. \A p \in Op : LocalInv(p)'
      BY <1>2, <2>1, CommitLocal
    <2> QED
      BY <2>2, <2>3, <2>4, CommitEffect
      DEF LedgerInv, LocalInv, SuccessIsEntered, LoadedPending, SuccessorFits
  <1> QED
    BY <1>1, <1>2

LEMMA NextOK == LedgerInv /\ [Next]_vars => LedgerInv'
  <1> SUFFICES ASSUME LedgerInv, [Next]_vars PROVE LedgerInv'
    OBVIOUS
  <1>1. CASE UNCHANGED vars
    BY <1>1 DEF vars, LedgerInv, TypeOK, AccountConsistent, OneEntryPerReference,
       ApprovedIffGranted, SuccessIsEntered, LoadedPending, SuccessorFits, Built,
       Successor, EntryOf, EntryAmount
  <1>2. CASE OtherAudit
    <2>1. TypeOK'
      BY <1>2 DEF OtherAudit, LedgerInv, TypeOK
    <2> QED
      BY <1>2, <2>1 DEF OtherAudit, LedgerInv, AccountConsistent, OneEntryPerReference,
         ApprovedIffGranted, SuccessIsEntered, LoadedPending, SuccessorFits, Built,
         Successor, EntryOf, EntryAmount
  <1>3. ASSUME NEW o \in Op, Start(o) \/ Load(o) \/ Reload(o) \/ EnsureBalance(o) \/ PrepareAudit(o)
        PROVE  LedgerInv'
    BY <1>3, ReadSteps
  <1>4. ASSUME NEW o \in Op, Snapshot(o) PROVE LedgerInv'
    BY <1>4, SnapshotStep
  <1>5. ASSUME NEW o \in Op, Commit(o, TRUE) \/ Commit(o, FALSE) PROVE LedgerInv'
    BY <1>5, CommitStep
  <1>6. ASSUME NEW o \in Op, Conflict(o) \/ StorageError(o) PROVE LedgerInv'
    BY <1>6, FailedSteps
  <1> QED
    BY <1>1, <1>2, <1>3, <1>4, <1>5, <1>6 DEF Next, OperationStep

\* The account of a member is consistent in every state the operations of all
\* slots reach.
THEOREM LedgerInvariant == Spec => []LedgerInv
  BY InitOK, NextOK, PTL DEF Spec

\* The balance row is credits minus debits, one revision per entry, and never
\* leaves the range of an i64.
THEOREM LedgerConsistent == Spec => []AccountConsistent
  BY LedgerInvariant, PTL DEF LedgerInv

\* Concurrent and repeated operations enter a reference at most once.
THEOREM LedgerUnique == Spec => []OneEntryPerReference
  BY LedgerInvariant, PTL DEF LedgerInv

\* A quota request is approved exactly if its amount was granted.
THEOREM LedgerApproval == Spec => []ApprovedIffGranted
  BY LedgerInvariant, PTL DEF LedgerInv

\* A reported success stands for an entry.
THEOREM LedgerSuccess == Spec => []SuccessIsEntered
  BY LedgerInvariant, PTL DEF LedgerInv

\* Decided requests and entries never change: a transaction writes a request
\* that it has compared with a pending one, and only appends entries.
THEOREM LedgerFinal == Spec => DecisionsAreFinal
  <1> DEFINE Unaltered ==
        /\ \A q \in QuotaRequest :
             req[q].status \in {"approved", "rejected", "withdrawn"} => req'[q] = req[q]
        /\ \A i \in DOMAIN ledger : i \in DOMAIN ledger' /\ ledger'[i] = ledger[i]
  <1>1. ASSUME LedgerInv, NEW o \in Op, NEW ack \in BOOLEAN, Commit(o, ack) PROVE Unaltered
    <2>1. \A q \in QuotaRequest :
            req[q].status \in {"approved", "rejected", "withdrawn"} => req'[q] = req[q]
      <3>1. CASE Kind[o] \in RequestKinds
        <4>1. /\ req[Ref[o]].status \in {"none", "pending"}
              /\ req' = [req EXCEPT ![Ref[o]] = RequestAfter(o)]
          BY <1>1, <3>1, CommitEffect
        <4> QED
          BY <1>1, <4>1 DEF LedgerInv, TypeOK
      <3>2. CASE Kind[o] \notin RequestKinds
        BY <1>1, <3>2, CommitEffect
      <3> QED
        BY <3>1, <3>2
    <2>2. \A i \in DOMAIN ledger : i \in DOMAIN ledger' /\ ledger'[i] = ledger[i]
      <3>1. CASE EntersMoney(o)
        <4>1. ledger' = Append(ledger, EntryOf(o))
          BY <1>1, <3>1, CommitEffect
        <4>2. TypeOK /\ ledger \in Seq(Entry)
          BY <1>1 DEF LedgerInv, TypeOK
        <4>3. EntryOf(o) \in Entry
          BY <1>1, <3>1, <4>2, EntryTyped
        <4> QED
          BY <4>1, <4>2, <4>3
      <3>2. CASE ~EntersMoney(o)
        BY <1>1, <3>2, CommitEffect
      <3> QED
        BY <3>1, <3>2
    <2> QED
      BY <2>1, <2>2
  <1>2. LedgerInv /\ [Next]_vars => [Unaltered]_vars
    <2> SUFFICES ASSUME LedgerInv, Next PROVE Unaltered
      OBVIOUS
    <2>1. CASE \E o \in Op : Commit(o, TRUE) \/ Commit(o, FALSE)
      BY <2>1, <1>1
    <2>2. CASE UNCHANGED <<req, ledger>>
      BY <2>2
    <2>3. CASE \E o \in Op : Start(o) \/ Load(o) \/ Reload(o) \/ EnsureBalance(o)
                 \/ Snapshot(o) \/ PrepareAudit(o) \/ Conflict(o) \/ StorageError(o)
      BY <2>2, <2>3 DEF Start, Load, Reload, EnsureBalance, Snapshot, PrepareAudit,
         Conflict, StorageError, store
    <2> QED
      BY <2>1, <2>2, <2>3 DEF Next, OperationStep, OtherAudit
  <1> QED
    BY <1>2, LedgerInvariant, PTL DEF Spec, DecisionsAreFinal
-----------------------------------------------------------------------------
(***************************************************************************)
(* Sums.  A sum grows by the amount that is added to it.                   *)
(***************************************************************************)

\* The units of finitely many amounts can be counted.
LEMMA TotalFinite ==
  ASSUME NEW D, IsFiniteSet(D), NEW f \in [D -> Int]
  PROVE  IsFiniteSet(UNION {{x} \X (1..f[x]) : x \in DOMAIN f}) /\ Total(f) \in Nat
<1> DEFINE U(x) == {x} \X (1..f[x])
           T == {U(x) : x \in D}
           g == [x \in D |-> U(x)]
<1>1. g \in Surjection(D, T) BY DEF Surjection
<1>2. IsFiniteSet(T) BY <1>1, FS_Surjection
<1>3. ASSUME NEW x \in D PROVE IsFiniteSet(U(x))
  <2>1. f[x] \in Int /\ 1 \in Int OBVIOUS
  <2>2. IsFiniteSet({x}) BY FS_Singleton
  <2>3. IsFiniteSet(1..f[x]) BY <2>1, FS_Interval
  <2> QED BY <2>2, <2>3, FS_Product
<1>4. \A V \in T : IsFiniteSet(V) BY <1>3
<1>5. IsFiniteSet(UNION T) BY <1>2, <1>4, FS_UNION
<1>6. UNION T = UNION {{x} \X (1..f[x]) : x \in DOMAIN f} OBVIOUS
<1>7. IsFiniteSet(UNION {{x} \X (1..f[x]) : x \in DOMAIN f}) BY <1>5, <1>6
<1> QED BY <1>7, FS_CardinalityType DEF Total

\* g is f with one amount more, that of x.
OneMore(f, g, x) ==
  /\ IsFiniteSet(DOMAIN f) /\ x \notin DOMAIN f
  /\ f \in [DOMAIN f -> Int] /\ g \in [DOMAIN f \cup {x} -> Int]
  /\ \A y \in DOMAIN f : g[y] = f[y]

LEMMA TotalAdd ==
  ASSUME NEW f, NEW g, NEW x, OneMore(f, g, x)
  PROVE  /\ g[x] >= 0 => Total(g) = Total(f) + g[x]
         /\ g[x] <= 0 => Total(g) = Total(f)
<1> DEFINE D == DOMAIN f
           U == UNION {{y} \X (1..f[y]) : y \in DOMAIN f}
           W == UNION {{y} \X (1..g[y]) : y \in DOMAIN g}
           V == {x} \X (1..g[x])
           n == IF g[x] > 0 THEN g[x] ELSE 0
<1>0. /\ IsFiniteSet(D) /\ x \notin D /\ f \in [D -> Int] /\ g \in [D \cup {x} -> Int]
      /\ \A y \in D : g[y] = f[y]
  BY DEF OneMore
<1>1. g[x] \in Int /\ n \in Nat /\ 1 \in Int BY <1>0
<1>2. IsFiniteSet({x}) /\ Cardinality({x}) = 1 BY FS_Singleton
<1>3. IsFiniteSet(1..g[x]) /\ Cardinality(1..g[x]) = n
  <2>1. IsFiniteSet(1..g[x]) /\ Cardinality(1..g[x]) = IF 1 > g[x] THEN 0 ELSE g[x] - 1 + 1
    BY <1>1, FS_Interval
  <2> QED BY <1>1, <2>1
<1> HIDE DEF n
<1>4. IsFiniteSet(V) /\ Cardinality(V) = 1 * n BY <1>2, <1>3, FS_Product
<1>5. IsFiniteSet(U) /\ Cardinality(U) \in Nat BY <1>0, TotalFinite, FS_CardinalityType
<1>6. W = U \cup V BY <1>0
<1>7. U \cap V = {}
  <2> SUFFICES ASSUME NEW y \in D, NEW u, u \in {y} \X (1..f[y]), u \in {x} \X (1..g[x])
               PROVE FALSE
    BY <1>0
  <2>1. u[1] = y /\ u[1] = x OBVIOUS
  <2> QED BY <1>0, <2>1
<1>8. Cardinality({}) = 0 BY FS_EmptySet
<1> HIDE DEF U, V, W
<1>9. Cardinality(W) = Cardinality(U) + Cardinality(V) - Cardinality({})
  BY <1>4, <1>5, <1>6, <1>7, FS_Union
<1>10. Cardinality(W) = Cardinality(U) + n BY <1>1, <1>4, <1>5, <1>8, <1>9
<1>11. Total(g) = Total(f) + n BY <1>10 DEF Total, U, W
<1>12. Total(f) \in Nat BY <1>0, TotalFinite
<1> QED BY <1>1, <1>11, <1>12 DEF n

LEMMA NegatedTyped ==
  ASSUME NEW D, NEW f \in [D -> Int]
  PROVE  Negated(f) \in [D -> Int] /\ \A x \in D : Negated(f)[x] = 0 - f[x]
BY DEF Negated

LEMMA SumsAdd ==
  ASSUME NEW f, NEW g, NEW x, OneMore(f, g, x)
  PROVE  /\ g[x] >= 0 => Total(g) = Total(f) + g[x] /\ Total(Negated(g)) = Total(Negated(f))
         /\ g[x] <= 0 => Total(g) = Total(f) /\ Total(Negated(g)) = Total(Negated(f)) - g[x]
         /\ Net(g) = Net(f) + g[x]
<1> DEFINE D == DOMAIN f
           E == D \cup {x}
<1>0. /\ IsFiniteSet(D) /\ x \notin D /\ f \in [D -> Int] /\ g \in [E -> Int]
      /\ \A y \in D : g[y] = f[y]
  BY DEF OneMore
<1> HIDE DEF D
<1>1. /\ g[x] >= 0 => Total(g) = Total(f) + g[x]
      /\ g[x] <= 0 => Total(g) = Total(f)
  BY TotalAdd
<1>2. /\ Negated(f) \in [D -> Int] /\ \A y \in D : Negated(f)[y] = 0 - f[y]
      /\ Negated(g) \in [E -> Int] /\ \A y \in E : Negated(g)[y] = 0 - g[y]
  BY <1>0, NegatedTyped
<1>3. OneMore(Negated(f), Negated(g), x)
  <2>1. \A y \in D : Negated(g)[y] = Negated(f)[y] BY <1>0, <1>2
  <2>2. DOMAIN Negated(f) = D BY <1>2
  <2> QED BY <1>0, <1>2, <2>1, <2>2 DEF OneMore
<1>4. /\ Negated(g)[x] >= 0 => Total(Negated(g)) = Total(Negated(f)) + Negated(g)[x]
      /\ Negated(g)[x] <= 0 => Total(Negated(g)) = Total(Negated(f))
  BY <1>3, TotalAdd
<1>5. Negated(g)[x] = 0 - g[x] /\ g[x] \in Int BY <1>0, <1>2
<1>6. Total(f) \in Nat /\ Total(Negated(f)) \in Nat BY <1>0, <1>2, TotalFinite
<1> QED BY <1>1, <1>4, <1>5, <1>6 DEF Net

LEMMA NetNothing ==
  ASSUME NEW f \in [{} -> Int]
  PROVE  Net(f) = 0 /\ Total(f) = 0 /\ Total(Negated(f)) = 0
<1>1. ASSUME NEW g \in [{} -> Int] PROVE Total(g) = 0
  <2>1. UNION {{x} \X (1..g[x]) : x \in DOMAIN g} = {} OBVIOUS
  <2> QED BY <2>1, FS_EmptySet DEF Total
<1>2. Negated(f) \in [{} -> Int] BY NegatedTyped
<1> QED BY <1>1, <1>2 DEF Net

\* A ledger with one entry more.
LEMMA AmountsAppend ==
  ASSUME NEW S, NEW l \in Seq(S), NEW e \in S, \A s \in S : s.amount \in Int
  PROVE  LET k == Append(l, e) IN
         /\ e.amount >= 0 => /\ Total(Amounts(k)) = Total(Amounts(l)) + e.amount
                             /\ Total(Negated(Amounts(k))) = Total(Negated(Amounts(l)))
         /\ e.amount <= 0 => /\ Total(Amounts(k)) = Total(Amounts(l))
                             /\ Total(Negated(Amounts(k)))
                                  = Total(Negated(Amounts(l))) - e.amount
         /\ Net(Amounts(k)) = Net(Amounts(l)) + e.amount
<1> DEFINE k == Append(l, e)
           n == Len(l) + 1
<1>1. DOMAIN l = 1..Len(l) /\ DOMAIN k = 1..n /\ Len(l) \in Nat OBVIOUS
<1>2. k[n] = e /\ \A i \in 1..Len(l) : k[i] = l[i] /\ l[i] \in S OBVIOUS
<1>3. OneMore(Amounts(l), Amounts(k), n)
  <2>1. 1 \in Int /\ Len(l) \in Int BY <1>1
  <2>2. IsFiniteSet(1..Len(l)) BY <2>1, FS_Interval
  <2>3. DOMAIN Amounts(l) = 1..Len(l) BY <1>1 DEF Amounts
  <2>4. 1..n = (1..Len(l)) \cup {n} /\ n \notin 1..Len(l) BY <1>1
  <2> HIDE DEF k, n
  <2>5. Amounts(l) \in [1..Len(l) -> Int] BY <1>1, <1>2 DEF Amounts
  <2>6. Amounts(k) \in [1..n -> Int]
    <3>1. \A i \in 1..n : k[i] \in S BY <1>2, <2>4
    <3> QED BY <1>1, <3>1 DEF Amounts
  <2>7. \A i \in 1..Len(l) : Amounts(k)[i] = Amounts(l)[i] BY <1>1, <1>2, <2>4 DEF Amounts
  <2> QED BY <2>2, <2>3, <2>4, <2>5, <2>6, <2>7 DEF OneMore
<1>4. Amounts(k)[n] = e.amount BY <1>1, <1>2 DEF Amounts
<1> HIDE DEF k, n
<1>5. /\ Amounts(k)[n] >= 0 => /\ Total(Amounts(k)) = Total(Amounts(l)) + Amounts(k)[n]
                               /\ Total(Negated(Amounts(k))) = Total(Negated(Amounts(l)))
      /\ Amounts(k)[n] <= 0 => /\ Total(Amounts(k)) = Total(Amounts(l))
                               /\ Total(Negated(Amounts(k)))
                                    = Total(Negated(Amounts(l))) - Amounts(k)[n]
      /\ Net(Amounts(k)) = Net(Amounts(l)) + Amounts(k)[n]
  BY <1>3, SumsAdd
<1> QED BY <1>4, <1>5 DEF k

(***************************************************************************)
(* The row is the sum of the entries, and the audit log announces them.    *)
(***************************************************************************)

BooksInv ==
  /\ bal.credited = Total(Amounts(ledger))
  /\ bal.debited = Total(Negated(Amounts(ledger)))
  /\ AuditCoversLedger

\* An entry is appended with the sums of its row.
LEMMA BooksEntered ==
  ASSUME TypeOK, BooksInv, NEW e \in Entry,
         ledger' = Append(ledger, e),
         bal'.credited = bal.credited + Positive(e.amount),
         bal'.debited = bal.debited + Positive(0 - e.amount)
  PROVE  /\ bal'.credited = Total(Amounts(ledger'))
         /\ bal'.debited = Total(Negated(Amounts(ledger')))
<1>1. ledger \in Seq(Entry) BY DEF TypeOK
<1>2. \A x \in Entry : x.amount \in Int BY DEF Entry
<1>3. PICK l \in Seq(Entry) : l = ledger BY <1>1
<1>4. /\ e.amount >= 0 => /\ Total(Amounts(Append(l, e))) = Total(Amounts(l)) + e.amount
                          /\ Total(Negated(Amounts(Append(l, e)))) = Total(Negated(Amounts(l)))
      /\ e.amount <= 0 => /\ Total(Amounts(Append(l, e))) = Total(Amounts(l))
                          /\ Total(Negated(Amounts(Append(l, e))))
                               = Total(Negated(Amounts(l))) - e.amount
  BY <1>2, AmountsAppend
<1>5. e.amount \in Int /\ bal.credited \in Int /\ bal.debited \in Int
  BY <1>2 DEF TypeOK, Balance
<1>6. /\ bal.credited = Total(Amounts(l)) /\ bal.debited = Total(Negated(Amounts(l)))
      /\ ledger' = Append(l, e)
  BY <1>3 DEF BooksInv
<1>7. CASE e.amount >= 0 BY <1>4, <1>5, <1>6, <1>7 DEF Positive
<1>8. CASE e.amount <= 0 BY <1>4, <1>5, <1>6, <1>8 DEF Positive
<1> QED BY <1>5, <1>7, <1>8

\* The events of entries after another event.
LEMMA EventsAppend ==
  ASSUME NEW S, audit \in Seq(S), NEW e \in S, audit' = Append(audit, e), e.money \in BOOLEAN
  PROVE  /\ Len(audit) \in Nat /\ Len(audit') = Len(audit) + 1
         /\ audit'[Len(audit) + 1] = e
         /\ \A i \in 1..Len(audit) : audit'[i] = audit[i]
         /\ \A i \in 1..Len(audit) : {j \in 1..i : audit'[j].money} = MoneyEvents(i)
         /\ {j \in 1..Len(audit') : audit'[j].money}
              = MoneyEvents(Len(audit)) \cup (IF e.money THEN {Len(audit) + 1} ELSE {})
<1>1. Len(audit) \in Nat /\ Len(audit') = Len(audit) + 1 OBVIOUS
<1>2. audit'[Len(audit) + 1] = e /\ \A i \in 1..Len(audit) : audit'[i] = audit[i] OBVIOUS
<1>3. \A i \in 1..Len(audit) : {j \in 1..i : audit'[j].money} = MoneyEvents(i)
  BY <1>1, <1>2 DEF MoneyEvents
<1>4. 1..Len(audit') = (1..Len(audit)) \cup {Len(audit) + 1} BY <1>1
<1>5. {j \in 1..Len(audit') : audit'[j].money}
        = MoneyEvents(Len(audit)) \cup (IF e.money THEN {Len(audit) + 1} ELSE {})
  BY <1>1, <1>2, <1>4 DEF MoneyEvents
<1> QED BY <1>1, <1>2, <1>3, <1>5

LEMMA EventsCounted ==
  ASSUME NEW n \in Nat, NEW i \in 1..n, i \in MoneyEvents(n)
  PROVE  /\ IsFiniteSet(MoneyEvents(n))
         /\ Cardinality(MoneyEvents(i)) \in 1..Cardinality(MoneyEvents(n))
<1>1. 1 \in Int /\ n \in Int OBVIOUS
<1>2. IsFiniteSet(1..n) BY <1>1, FS_Interval
<1>3. MoneyEvents(n) \in SUBSET (1..n) /\ MoneyEvents(i) \in SUBSET MoneyEvents(n)
  BY DEF MoneyEvents
<1>4. IsFiniteSet(MoneyEvents(n)) BY <1>2, <1>3, FS_Subset
<1>5. IsFiniteSet(MoneyEvents(i)) /\ Cardinality(MoneyEvents(i)) <= Cardinality(MoneyEvents(n))
  BY <1>3, <1>4, FS_Subset
<1>6. MoneyEvents(i) # {} BY DEF MoneyEvents
<1>7. Cardinality(MoneyEvents(i)) \in Nat /\ Cardinality(MoneyEvents(n)) \in Nat
      /\ Cardinality(MoneyEvents(i)) # 0
  BY <1>4, <1>5, <1>6, FS_CardinalityType, FS_EmptySet
<1> QED BY <1>4, <1>5, <1>7

\* One event is appended, and the entry it announces with it.
LEMMA EventEntered ==
  ASSUME TypeOK, AuditCoversLedger,
         NEW e \in [about : {Ref[o] : o \in Op} \cup {None}, money : BOOLEAN],
         audit' = Append(audit, e),
         e.money => \E x \in Entry : x.ref = e.about /\ ledger' = Append(ledger, x),
         ~e.money => ledger' = ledger
  PROVE  AuditCoversLedger'
<1> DEFINE n == Len(audit)
           A == MoneyEvents(n)
           B == {j \in 1..Len(audit') : audit'[j].money}
<1>1. audit \in Seq([about : {Ref[o] : o \in Op} \cup {None}, money : BOOLEAN])
      /\ ledger \in Seq(Entry)
  BY DEF TypeOK
<1>2. e.money \in BOOLEAN OBVIOUS
<1>3. /\ n \in Nat /\ Len(audit') = n + 1 /\ audit'[n + 1] = e
      /\ \A i \in 1..n : audit'[i] = audit[i]
      /\ \A i \in 1..n : {j \in 1..i : audit'[j].money} = MoneyEvents(i)
      /\ B = A \cup (IF e.money THEN {n + 1} ELSE {})
  BY <1>1, <1>2, EventsAppend
<1>4. Cardinality(A) = Len(ledger)
      /\ \A i \in A : ledger[Cardinality(MoneyEvents(i))].ref = audit[i].about
  BY DEF AuditCoversLedger
<1>5. A \in SUBSET (1..n) BY DEF MoneyEvents
<1>6. IsFiniteSet(A)
  <2>1. 1 \in Int /\ n \in Int BY <1>3
  <2>2. IsFiniteSet(1..n) BY <2>1, FS_Interval
  <2> QED BY <1>5, <2>2, FS_Subset
<1>7. \A i \in A : Cardinality(MoneyEvents(i)) \in 1..Len(ledger)
  <2> SUFFICES ASSUME NEW i \in A PROVE Cardinality(MoneyEvents(i)) \in 1..Cardinality(A)
    BY <1>4
  <2> QED BY <1>3, <1>5, EventsCounted
<1> HIDE DEF A, B, n
<1>8. /\ Cardinality(B) = Len(ledger')
      /\ \A i \in B : ledger'[Cardinality({j \in 1..i : audit'[j].money})].ref = audit'[i].about
  <2>1. CASE ~e.money
    <3>1. B = A /\ ledger' = ledger BY <1>3, <2>1
    <3> QED BY <1>3, <1>4, <1>5, <3>1
  <2>2. CASE e.money
    <3>1. PICK x \in Entry : x.ref = e.about /\ ledger' = Append(ledger, x) BY <2>2
    <3>2. B = A \cup {n + 1} /\ n + 1 \notin A BY <1>3, <1>5, <2>2
    <3>3. Cardinality(B) = Len(ledger) + 1 BY <1>4, <1>6, <3>2, FS_AddElement
    <3>4. Len(ledger') = Len(ledger) + 1 /\ Len(ledger) \in Nat
          /\ ledger'[Len(ledger) + 1] = x
          /\ \A i \in 1..Len(ledger) : ledger'[i] = ledger[i]
      BY <1>1, <3>1
    <3>5. {j \in 1..(n + 1) : audit'[j].money} = B BY <1>3 DEF B
    <3>6. ASSUME NEW i \in B
          PROVE  ledger'[Cardinality({j \in 1..i : audit'[j].money})].ref = audit'[i].about
      <4>1. CASE i = n + 1 BY <1>3, <3>1, <3>3, <3>4, <3>5, <4>1
      <4>2. CASE i \in A
        <5>1. i \in 1..n BY <1>5, <4>2
        <5>2. {j \in 1..i : audit'[j].money} = MoneyEvents(i) /\ audit'[i] = audit[i]
          BY <1>3, <5>1
        <5>3. Cardinality(MoneyEvents(i)) \in 1..Len(ledger) BY <1>7, <4>2
        <5>4. ledger'[Cardinality(MoneyEvents(i))] = ledger[Cardinality(MoneyEvents(i))]
          BY <3>4, <5>3
        <5> QED BY <1>4, <4>2, <5>2, <5>4
      <4> QED BY <3>2, <4>1, <4>2
    <3> QED BY <3>3, <3>4, <3>6
  <2> QED BY <1>2, <2>1, <2>2
<1> QED BY <1>8 DEF AuditCoversLedger, MoneyEvents, B

LEMMA BooksStart == Init => BooksInv
<1> SUFFICES ASSUME Init PROVE BooksInv OBVIOUS
<1>1. Amounts(ledger) \in [{} -> Int] BY DEF Init, Amounts
<1>2. Total(Amounts(ledger)) = 0 /\ Total(Negated(Amounts(ledger))) = 0 BY <1>1, NetNothing
<1>3. Len(audit) = 0 /\ Len(ledger) = 0 BY DEF Init
<1>4. MoneyEvents(Len(audit)) = {} BY <1>3 DEF MoneyEvents
<1>5. AuditCoversLedger BY <1>3, <1>4, FS_EmptySet DEF AuditCoversLedger
<1> QED BY <1>2, <1>5 DEF BooksInv, Init, ZeroBalance

LEMMA BooksCommit ==
  ASSUME LedgerInv, BooksInv, NEW o \in Op, NEW ack \in BOOLEAN, Commit(o, ack)
  PROVE  BooksInv'
<1> DEFINE e == [about |-> Ref[o], money |-> EntersMoney(o)]
<1>1. TypeOK /\ AuditCoversLedger BY DEF LedgerInv, BooksInv
<1>2. audit' = Append(audit, e) BY DEF Commit
<1>3. e \in [about : {Ref[p] : p \in Op} \cup {None}, money : BOOLEAN] BY DEF EntersMoney
<1>4. CASE EntersMoney(o)
  <2>1. bal = snap[o] /\ bal' = Successor(o) /\ ledger' = Append(ledger, EntryOf(o))
    BY <1>4, CommitEffect
  <2>2. EntryOf(o) \in Entry /\ EntryAmount(o) \in Int BY <1>1, <1>4, EntryTyped
  <2>3. EntryOf(o).amount = EntryAmount(o) /\ EntryOf(o).ref = Ref[o] BY DEF EntryOf
  <2>4. bal'.credited = bal.credited + Positive(EntryOf(o).amount)
        /\ bal'.debited = bal.debited + Positive(0 - EntryOf(o).amount)
    <3>1. -EntryAmount(o) = 0 - EntryAmount(o) BY <2>2
    <3> QED BY <2>1, <2>3, <3>1 DEF Successor
  <2>5. bal'.credited = Total(Amounts(ledger')) /\ bal'.debited = Total(Negated(Amounts(ledger')))
    BY <1>1, <2>1, <2>2, <2>4, BooksEntered
  <2>6. e.money /\ e.about = Ref[o] BY <1>4
  <2> HIDE DEF e
  <2>7. AuditCoversLedger'
    BY <1>1, <1>2, <1>3, <2>1, <2>2, <2>3, <2>6, EventEntered
  <2> QED BY <2>5, <2>7 DEF BooksInv
<1>5. CASE ~EntersMoney(o)
  <2>1. UNCHANGED <<bal, ledger>> BY <1>5, CommitEffect
  <2>2. ~e.money BY <1>5
  <2> HIDE DEF e
  <2>3. AuditCoversLedger' BY <1>1, <1>2, <1>3, <2>1, <2>2, EventEntered
  <2> QED BY <2>1, <2>3 DEF BooksInv
<1> QED BY <1>4, <1>5

LEMMA BooksOther ==
  ASSUME LedgerInv, BooksInv, OtherAudit
  PROVE  BooksInv'
<1> DEFINE e == [about |-> None, money |-> FALSE]
<1>1. TypeOK /\ AuditCoversLedger BY DEF LedgerInv, BooksInv
<1>2. audit' = Append(audit, e) /\ UNCHANGED <<bal, ledger>> BY DEF OtherAudit
<1>3. e \in [about : {Ref[p] : p \in Op} \cup {None}, money : BOOLEAN] /\ ~e.money OBVIOUS
<1> HIDE DEF e
<1>4. AuditCoversLedger' BY <1>1, <1>2, <1>3, EventEntered
<1> QED BY <1>2, <1>4 DEF BooksInv

LEMMA BooksQuiet ==
  ASSUME BooksInv, UNCHANGED <<bal, ledger, audit>>
  PROVE  BooksInv'
BY DEF BooksInv, AuditCoversLedger, MoneyEvents

LEMMA BooksStep == LedgerInv /\ BooksInv /\ [Next]_vars => BooksInv'
<1> SUFFICES ASSUME LedgerInv, BooksInv, [Next]_vars PROVE BooksInv' OBVIOUS
<1>1. CASE \E o \in Op : Commit(o, TRUE) \/ Commit(o, FALSE)
  <2>1. PICK o \in Op, ack \in BOOLEAN : Commit(o, ack) BY <1>1
  <2> QED BY <2>1, BooksCommit
<1>2. CASE \E o \in Op : Start(o) \/ Load(o) \/ Reload(o) \/ EnsureBalance(o) \/ Snapshot(o)
                           \/ PrepareAudit(o) \/ Conflict(o) \/ StorageError(o)
  <2>1. UNCHANGED <<bal, ledger, audit>>
    BY <1>2 DEF Start, Load, Reload, EnsureBalance, Snapshot, PrepareAudit, Conflict,
                StorageError, store
  <2> QED BY <2>1, BooksQuiet
<1>3. CASE OtherAudit BY <1>3, BooksOther
<1>4. CASE UNCHANGED vars BY <1>4, BooksQuiet DEF vars
<1> QED BY <1>1, <1>2, <1>3, <1>4 DEF Next, OperationStep

\* The balance row is the sum of the entries, and the audit log announces each
\* entry once and in order: what verify_money_state_snapshot recomputes, for
\* any number of operations, amounts, lost replies and retries.
THEOREM LedgerReconstructs == Spec => []LedgerReconstructsBalance
<1>1. LedgerInv /\ BooksInv => LedgerReconstructsBalance
  BY DEF LedgerInv, BooksInv, AccountConsistent, LedgerReconstructsBalance, Net
<1>2. Init => BooksInv BY BooksStart
<1>3. LedgerInv /\ BooksInv /\ [Next]_vars => BooksInv' BY BooksStep
<1> QED BY <1>1, <1>2, <1>3, LedgerInvariant, PTL DEF Spec

-----------------------------------------------------------------------------
(***************************************************************************)
(* Prices.                                                                 *)
(***************************************************************************)


\* Within the days from `first' on there is one, in the first week, that falls
\* on the same weekday as a given day and is not later if that day is not
\* earlier than `first'.
LEMMA WeekRepeats ==
  ASSUME NEW first \in Int, NEW d \in Int
  PROVE  \E e \in first .. first + 6 :
           /\ \A k \in {0, 1} : Weekday(e - k) = Weekday(d - k)
           /\ d >= first => e <= d
<1> DEFINE e == first + ((d - first) % 7)
<1>1. e \in first .. first + 6
  OBVIOUS
<1>2. \A k \in {0, 1} : (e - k) % 7 = (d - k) % 7
  OBVIOUS
<1>3. d >= first => e <= d
  OBVIOUS
<1> QED
  BY <1>1, <1>2, <1>3 DEF Weekday

\* A window applies at a minute exactly if one of its segments contains the
\* minute and the window started on the day the segment counts from.
LEMMA MatchSegment ==
  ASSUME NEW w \in Window, WindowValid(w), NEW day \in Int,
         NEW minute \in 0 .. MinutesPerDay - 1
  PROVE  Matches(w, day, minute) <=>
           \E a \in Segments(w) :
             a.start <= minute /\ minute < a.end /\ StartsOn(w, day - a.offset)
<1> USE PriceAssumption
<1>1. w.start \in Nat /\ w.end \in Nat /\ w.start # w.end /\ w.end <= MinutesPerDay
  BY DEF Window, WindowValid
<1>2. CASE w.end > w.start
  <2>1. Segments(w) = {[offset |-> 0, start |-> w.start, end |-> w.end]}
    BY <1>2 DEF Segments
  <2>2. Matches(w, day, minute) <=> minute >= w.start /\ minute < w.end /\ StartsOn(w, day)
    BY <1>1, <1>2 DEF Matches, CrossesMidnight
  <2>3. day - 0 = day
    OBVIOUS
  <2> QED
    BY <2>1, <2>2, <2>3
<1>3. CASE w.end < w.start
  <2>1. Segments(w) = {[offset |-> 0, start |-> w.start, end |-> MinutesPerDay]} \cup
                      {s \in {[offset |-> 1, start |-> 0, end |-> w.end]} : w.end > 0}
    BY <1>1, <1>3 DEF Segments
  <2>2. Matches(w, day, minute) <=>
          \/ minute < w.end /\ StartsOn(w, day - 1)
          \/ minute >= w.start /\ StartsOn(w, day - 0)
    <3>1. day - 0 = day
      OBVIOUS
    <3> QED
      BY <1>1, <1>3, <3>1 DEF Matches, CrossesMidnight
  <2>3. minute < MinutesPerDay /\ minute >= 0
    OBVIOUS
  <2>4. CASE w.end > 0
    <3>1. Segments(w) = {[offset |-> 0, start |-> w.start, end |-> MinutesPerDay],
                         [offset |-> 1, start |-> 0, end |-> w.end]}
      BY <2>1, <2>4
    <3> QED
      BY <1>1, <2>2, <2>3, <3>1
  <2>5. CASE w.end = 0
    <3>1. Segments(w) = {[offset |-> 0, start |-> w.start, end |-> MinutesPerDay]}
      BY <2>1, <2>5
    <3> QED
      BY <1>1, <2>2, <2>3, <2>5, <3>1
  <2> QED
    BY <1>1, <2>4, <2>5
<1> QED
  BY <1>1, <1>2, <1>3

\* The parts of a window lie within a day.
LEMMA SegmentFacts ==
  ASSUME NEW w \in Window, WindowValid(w), NEW a \in Segments(w)
  PROVE  /\ a.offset \in {0, 1} /\ a.start \in Nat /\ a.end \in Nat
         /\ a.start < a.end /\ a.end <= MinutesPerDay
<1> USE PriceAssumption
<1>1. w.start \in Nat /\ w.end \in Nat /\ w.end <= MinutesPerDay /\ w.start < MinutesPerDay
  BY DEF Window, WindowValid
<1> QED
  BY <1>1 DEF Segments

\* The common dates of two windows, of given segments.
Lower(w, v, a, b) == Later(Moved(w.from, a.offset), Moved(v.from, b.offset))
Upper(w, v, a, b) == Earlier(Moved(w.until, a.offset), Moved(v.until, b.offset))

\* Both windows have the segments on the days between the common dates that
\* fall on weekdays of both.
LEMMA CommonDays ==
  ASSUME NEW w \in Window, NEW v \in Window, NEW a, NEW b,
         a.offset \in {0, 1}, b.offset \in {0, 1}, NEW day \in Int
  PROVE  /\ Lower(w, v, a, b) \in Int \cup {Absent} /\ Upper(w, v, a, b) \in Int \cup {Absent}
         /\ StartsOn(w, day - a.offset) /\ StartsOn(v, day - b.offset) <=>
              /\ Lower(w, v, a, b) = Absent \/ day >= Lower(w, v, a, b)
              /\ Upper(w, v, a, b) = Absent \/ day < Upper(w, v, a, b)
              /\ Weekday(day - a.offset) \in w.weekdays
              /\ Weekday(day - b.offset) \in v.weekdays
<1> USE PriceAssumption
<1>1. /\ w.from \in Int \cup {Absent} /\ w.until \in Int \cup {Absent}
      /\ v.from \in Int \cup {Absent} /\ v.until \in Int \cup {Absent}
  BY DEF Window, Optional
<1>2. /\ Moved(w.from, a.offset) \in Int \cup {Absent}
      /\ Moved(v.from, b.offset) \in Int \cup {Absent}
      /\ Moved(w.until, a.offset) \in Int \cup {Absent}
      /\ Moved(v.until, b.offset) \in Int \cup {Absent}
  BY <1>1 DEF Moved
<1>3. /\ (w.from # Absent => day - a.offset >= w.from) <=>
           (Moved(w.from, a.offset) # Absent => day >= Moved(w.from, a.offset))
      /\ (v.from # Absent => day - b.offset >= v.from) <=>
           (Moved(v.from, b.offset) # Absent => day >= Moved(v.from, b.offset))
      /\ (w.until # Absent => day - a.offset < w.until) <=>
           (Moved(w.until, a.offset) # Absent => day < Moved(w.until, a.offset))
      /\ (v.until # Absent => day - b.offset < v.until) <=>
           (Moved(v.until, b.offset) # Absent => day < Moved(v.until, b.offset))
  BY <1>1 DEF Moved
<1>4. \A p, q \in Int \cup {Absent} :
        /\ Later(p, q) \in Int \cup {Absent} /\ Earlier(p, q) \in Int \cup {Absent}
        /\ (Later(p, q) = Absent \/ day >= Later(p, q)) <=>
             ((p # Absent => day >= p) /\ (q # Absent => day >= q))
        /\ (Earlier(p, q) = Absent \/ day < Earlier(p, q)) <=>
             ((p # Absent => day < p) /\ (q # Absent => day < q))
  BY DEF Later, Earlier
<1> QED
  BY <1>2, <1>3, <1>4 DEF Lower, Upper, StartsOn

\* Two windows that apply at the same minute are found.
LEMMA OverlapFound ==
  ASSUME NEW w \in Window, NEW v \in Window, WindowValid(w), WindowValid(v),
         NEW day \in Int, NEW minute \in 0 .. MinutesPerDay - 1,
         Matches(w, day, minute), Matches(v, day, minute)
  PROVE  WindowsOverlap(w, v)
<1> USE PriceAssumption
<1>1. PICK a \in Segments(w) :
        a.start <= minute /\ minute < a.end /\ StartsOn(w, day - a.offset)
  BY MatchSegment
<1>2. PICK b \in Segments(v) :
        b.start <= minute /\ minute < b.end /\ StartsOn(v, day - b.offset)
  BY MatchSegment
<1>3. a.offset \in {0, 1} /\ b.offset \in {0, 1} /\ a.start \in Nat /\ b.start \in Nat
      /\ a.end \in Nat /\ b.end \in Nat
  BY SegmentFacts
<1>4. (IF a.start > b.start THEN a.start ELSE b.start) < (IF a.end < b.end THEN a.end ELSE b.end)
  BY <1>1, <1>2, <1>3
<1> DEFINE lower == Lower(w, v, a, b)
           upper == Upper(w, v, a, b)
           first == FirstDay(lower, upper)
<1>5. /\ lower \in Int \cup {Absent} /\ upper \in Int \cup {Absent}
      /\ lower = Absent \/ day >= lower
      /\ upper = Absent \/ day < upper
      /\ Weekday(day - a.offset) \in w.weekdays
      /\ Weekday(day - b.offset) \in v.weekdays
  BY <1>1, <1>2, <1>3, CommonDays
<1> HIDE DEF lower, upper
<1>6. first \in Int
  BY <1>5 DEF FirstDay
<1>7. PICK e \in first .. first + 6 :
        /\ \A k \in {0, 1} : Weekday(e - k) = Weekday(day - k)
        /\ day >= first => e <= day
  BY <1>6, WeekRepeats
<1>8. upper = Absent \/ e < upper
  BY <1>5, <1>6, <1>7 DEF FirstDay
<1>9. lower = Absent \/ upper = Absent \/ lower < upper
  BY <1>5
<1>10. Weekday(e - a.offset) \in w.weekdays /\ Weekday(e - b.offset) \in v.weekdays
  BY <1>3, <1>5, <1>7
<1>11. SegmentsOverlap(w, v, a, b)
  BY <1>4, <1>7, <1>8, <1>9, <1>10 DEF SegmentsOverlap, lower, upper, Lower, Upper
<1> QED
  BY <1>11 DEF WindowsOverlap

\* Two windows that are found do apply at the same minute.
LEMMA OverlapReal ==
  ASSUME NEW w \in Window, NEW v \in Window, WindowValid(w), WindowValid(v),
         WindowsOverlap(w, v)
  PROVE  \E day \in Int, minute \in 0 .. MinutesPerDay - 1 :
           Matches(w, day, minute) /\ Matches(v, day, minute)
<1> USE PriceAssumption
<1>1. PICK a \in Segments(w), b \in Segments(v) : SegmentsOverlap(w, v, a, b)
  BY DEF WindowsOverlap
<1>2. /\ a.offset \in {0, 1} /\ b.offset \in {0, 1} /\ a.start \in Nat /\ b.start \in Nat
      /\ a.end \in Nat /\ b.end \in Nat /\ a.end <= MinutesPerDay
  BY SegmentFacts
<1> DEFINE lower == Lower(w, v, a, b)
           upper == Upper(w, v, a, b)
           first == FirstDay(lower, upper)
           minute == IF a.start > b.start THEN a.start ELSE b.start
<1>3. /\ minute < (IF a.end < b.end THEN a.end ELSE b.end)
      /\ lower = Absent \/ upper = Absent \/ lower < upper
      /\ \E day \in first .. first + 6 :
              /\ upper = Absent \/ day < upper
              /\ Weekday(day - a.offset) \in w.weekdays
              /\ Weekday(day - b.offset) \in v.weekdays
  BY <1>1 DEF SegmentsOverlap, Lower, Upper
<1>4. minute \in 0 .. MinutesPerDay - 1 /\ a.start <= minute /\ minute < a.end
      /\ b.start <= minute /\ minute < b.end
  BY <1>2, <1>3
<1>5. lower \in Int \cup {Absent} /\ upper \in Int \cup {Absent}
  <2>1. 0 \in Int
    OBVIOUS
  <2> QED
    BY <1>2, <2>1, CommonDays
<1> HIDE DEF lower, upper, minute
<1>6. first \in Int /\ (lower # Absent => first = lower)
  BY <1>5 DEF FirstDay
<1>7. PICK e \in Int :
        /\ lower = Absent \/ e >= lower
        /\ upper = Absent \/ e < upper
        /\ Weekday(e - a.offset) \in w.weekdays
        /\ Weekday(e - b.offset) \in v.weekdays
  BY <1>3, <1>5, <1>6
<1>8. StartsOn(w, e - a.offset) /\ StartsOn(v, e - b.offset)
  BY <1>2, <1>7, CommonDays DEF lower, upper
<1>9. Matches(w, e, minute) /\ Matches(v, e, minute)
  BY <1>1, <1>4, <1>8, MatchSegment
<1> QED
  BY <1>4, <1>9

\* windows_overlap decides whether two windows ever apply at the same minute:
\* one week of the common dates is enough, also for windows past midnight.
THEOREM OverlapExact ==
  \A w, v \in Window : WindowValid(w) /\ WindowValid(v) =>
    (WindowsOverlap(w, v) <=>
       \E day \in Int, minute \in 0 .. MinutesPerDay - 1 :
         Matches(w, day, minute) /\ Matches(v, day, minute))
  BY OverlapFound, OverlapReal

-----------------------------------------------------------------------------
(***************************************************************************)
(* The price book.  Its versions are valid plans under different names,    *)
(* and so will be what an administrator is about to save: the version was  *)
(* compared with the book it was based on.                                 *)
(***************************************************************************)
AnyPlan == {p \in Plan \cup {OfficialPlan(r) : r \in OfficialRate} : PlanValid(p)}
PriceVersion == [id : VersionId, plan : AnyPlan]

Distinct(book) == \A i, j \in DOMAIN book : book[i].id = book[j].id => i = j

Recorded(f, book) ==
  \E i \in DOMAIN book : /\ book[i].id = f.version
                        /\ PriceAt(book[i].plan[f.tier], f.day, f.minute) = f.rate

BookInv == priceBook \in Seq(PriceVersion) /\ Distinct(priceBook)

DraftInv ==
  /\ draft \in [Admin -> Optional([version : PriceVersion, expected : Seq(PriceVersion)])]
  /\ \A a \in Admin : draft[a] # Absent =>
       \A i \in DOMAIN draft[a].expected : draft[a].expected[i].id # draft[a].version.id

FrozenInv ==
  /\ DOMAIN frozen = Priced
  /\ \A r \in Priced : frozen[r] # Absent /\ frozen[r].version # "builtin" =>
       Recorded(frozen[r], priceBook)

PriceInv == BookInv /\ DraftInv /\ FrozenInv

\* Every schedule of a plan that can be saved has windows and rates.
LEMMA PlanTyped ==
  ASSUME NEW plan \in AnyPlan, NEW t \in DOMAIN plan
  PROVE  plan[t] \in Schedule /\ ScheduleValid(plan[t])
<1>1. CASE plan \in Plan
  BY <1>1, PriceAssumption DEF AnyPlan, PlanValid
<1>2. CASE \E r \in OfficialRate : plan = OfficialPlan(r)
  BY <1>2, PriceAssumption DEF AnyPlan, PlanValid, OfficialPlan, Schedule
<1> QED
  BY <1>1, <1>2 DEF AnyPlan

\* price_at finds one price in a schedule that was accepted.
LEMMA OnePriceAt ==
  ASSUME NEW s \in Schedule, ScheduleValid(s), NEW day \in Int,
         NEW minute \in 0 .. MinutesPerDay - 1
  PROVE  PriceAt(s, day, minute) \in Rate
<1> DEFINE found == Matching(s, day, minute)
<1>1. /\ s.base \in Rate /\ s.windows \in Seq(Window)
      /\ \A i \in DOMAIN s.windows : s.windows[i] \in Window /\ i \in Int
      /\ \A i \in DOMAIN s.windows : s.windows[i].rate \in Rate
  <2>1. s.base \in Rate /\ s.windows \in Seq(Window)
    BY DEF Schedule
  <2>2. \A i \in DOMAIN s.windows : s.windows[i] \in Window /\ i \in Int
    BY <2>1
  <2>3. \A w \in Window : w.rate \in Rate
    BY DEF Window
  <2> QED
    BY <2>1, <2>2, <2>3
<1>2. ASSUME NEW i \in found, NEW j \in found, i < j
      PROVE  FALSE
  <2>1. /\ i \in DOMAIN s.windows /\ Matches(s.windows[i], day, minute)
        /\ j \in DOMAIN s.windows /\ Matches(s.windows[j], day, minute)
    BY DEF Matching
  <2>2. WindowsOverlap(s.windows[i], s.windows[j])
    BY <1>1, <2>1, OverlapExact DEF ScheduleValid
  <2> QED
    BY <1>2, <2>1, <2>2 DEF ScheduleValid
<1>3. \A i, j \in found : i = j
  BY <1>1, <1>2 DEF Matching
<1>4. CASE found = {}
  BY <1>1, <1>4 DEF PriceAt
<1>5. CASE found # {}
  <2>1. PICK i \in found : found = {i}
    BY <1>3, <1>5
  <2>2. (CHOOSE j \in found : TRUE) = i
    BY <2>1
  <2>3. i \in DOMAIN s.windows
    BY DEF Matching
  <2> QED
    BY <1>1, <1>5, <2>1, <2>2, <2>3 DEF PriceAt
<1> QED
  BY <1>4, <1>5

\* A version that is added to a book keeps what was recorded in it.
LEMMA RecordedStays ==
  ASSUME NEW book \in Seq(PriceVersion), NEW v \in PriceVersion, NEW f, Recorded(f, book)
  PROVE  Recorded(f, Append(book, v))
<1>1. \A i \in DOMAIN book : i \in DOMAIN Append(book, v) /\ Append(book, v)[i] = book[i]
  OBVIOUS
<1> QED
  BY <1>1 DEF Recorded

\* A version of another name keeps the names of a book distinct.
LEMMA DistinctStays ==
  ASSUME NEW book \in Seq(PriceVersion), NEW v \in PriceVersion, Distinct(book),
         \A i \in DOMAIN book : book[i].id # v.id
  PROVE  Append(book, v) \in Seq(PriceVersion) /\ Distinct(Append(book, v))
<1>1. \A i \in DOMAIN Append(book, v) :
        \/ i \in DOMAIN book /\ Append(book, v)[i] = book[i]
        \/ i = Len(book) + 1 /\ Append(book, v)[i] = v
  OBVIOUS
<1> QED
  BY <1>1 DEF Distinct

\* save_billing_price_version prepares a version of a new name.
LEMMA DraftsKeep ==
  ASSUME PriceInv, NEW a \in Admin, NEW id \in VersionId,
         NEW plan \in Plan \cup {OfficialPlan(r) : r \in OfficialRate}, Drafts(a, id, plan)
  PROVE  PriceInv'
<1> DEFINE d == [version |-> [id |-> id, plan |-> plan], expected |-> priceBook]
<1>1. d \in [version : PriceVersion, expected : Seq(PriceVersion)]
  BY DEF PriceInv, BookInv, Drafts, PriceVersion, AnyPlan
<1>2. \A i \in DOMAIN d.expected : d.expected[i].id # d.version.id
  BY DEF Drafts
<1>3. draft' = [draft EXCEPT ![a] = d] /\ UNCHANGED <<priceBook, frozen, bill>>
  BY DEF Drafts
<1> HIDE DEF d
<1>4. DraftInv'
  BY <1>1, <1>2, <1>3 DEF PriceInv, DraftInv, Optional
<1> QED
  BY <1>3, <1>4 DEF PriceInv, BookInv, FrozenInv

\* Every step keeps the invariant.
LEMMA PriceStep ==
  ASSUME PriceInv, [PriceNext(Plan, VersionId, Moment)]_priceVars
  PROVE  PriceInv'
<1>1. ASSUME NEW a \in Admin, NEW id \in VersionId, NEW plan \in Plan, UpdatePrices(a, id, plan)
      PROVE  PriceInv'
  BY <1>1, DraftsKeep DEF UpdatePrices
<1>2. ASSUME NEW a \in Admin, NEW id \in VersionId, NEW answer \in Optional(OfficialRate),
             SyncPrices(a, id, answer)
      PROVE  PriceInv'
  <2>1. Fetched(answer) \in OfficialRate
    BY PriceAssumption DEF Fetched, Optional
  <2> QED
    BY <1>2, <2>1, DraftsKeep DEF SyncPrices
<1>3. ASSUME NEW a \in Admin, SavePrices(a)
      PROVE  PriceInv'
  <2>1. DraftInv'
    BY <1>3 DEF PriceInv, DraftInv, SavePrices, SameBook, Optional
  <2>2. CASE priceBook # draft[a].expected
    BY <1>3, <2>1, <2>2 DEF PriceInv, BookInv, FrozenInv, SavePrices, SameBook
  <2>3. CASE priceBook = draft[a].expected
    <3> DEFINE v == draft[a].version
    <3>1. v \in PriceVersion /\ \A i \in DOMAIN priceBook : priceBook[i].id # v.id
      BY <1>3, <2>3 DEF PriceInv, DraftInv, SavePrices, SameBook, Optional
    <3>2. priceBook' = Append(priceBook, v) /\ frozen' = frozen
      BY <1>3, <2>3 DEF SavePrices, SameBook
    <3> HIDE DEF v
    <3>3. BookInv'
      BY <3>1, <3>2, DistinctStays DEF PriceInv, BookInv
    <3>4. FrozenInv'
      BY <3>1, <3>2, RecordedStays DEF PriceInv, BookInv, FrozenInv
    <3> QED
      BY <2>1, <3>3, <3>4 DEF PriceInv
  <2> QED
    BY <2>2, <2>3
<1>4. ASSUME NEW r \in Priced, NEW tier \in Tier, NEW day, NEW minute,
             Freeze(r, tier, day, minute)
      PROVE  PriceInv'
  <2> DEFINE rate == PriceAt(ActiveVersion.plan[tier], day, minute)
             f == [version |-> ActiveVersion.id, tier |-> tier, day |-> day, minute |-> minute,
                   rate |-> rate, reference |-> Reference(rate)]
  <2>1. frozen' = [frozen EXCEPT ![r] = f] /\ UNCHANGED <<priceBook, draft, bill>>
    BY <1>4 DEF Freeze
  <2>2. f.version # "builtin" => Recorded(f, priceBook)
    <3>1. CASE priceBook = << >>
      BY <3>1 DEF ActiveVersion
    <3>2. CASE priceBook # << >>
      <4>1. Len(priceBook) \in DOMAIN priceBook
        BY <3>2 DEF PriceInv, BookInv
      <4>2. ActiveVersion = priceBook[Len(priceBook)]
        BY <3>2 DEF ActiveVersion
      <4> QED
        BY <4>1, <4>2 DEF Recorded
    <3> QED
      BY <3>1, <3>2
  <2> HIDE DEF f
  <2>3. FrozenInv'
    BY <2>1, <2>2 DEF PriceInv, FrozenInv
  <2> QED
    BY <2>1, <2>3 DEF PriceInv, BookInv, DraftInv
<1>5. ASSUME NEW r \in Priced, NEW u \in Usage, ChargeFrozen(r, u)
      PROVE  PriceInv'
  BY <1>5 DEF ChargeFrozen, PriceInv, BookInv, DraftInv, FrozenInv
<1>6. CASE UNCHANGED priceVars
  BY <1>6 DEF priceVars, PriceInv, BookInv, DraftInv, FrozenInv
<1> QED
  BY <1>1, <1>2, <1>3, <1>4, <1>5, <1>6 DEF PriceNext

\* The price book is sound in every state.
THEOREM PriceInvariant == PriceSpec => []PriceInv
<1>1. PriceInit => PriceInv
  BY DEF PriceInit, PriceInv, BookInv, DraftInv, FrozenInv, Distinct, Optional
<1>2. PriceInv /\ [PriceNext(Plan, VersionId, Moment)]_priceVars => PriceInv'
  BY PriceStep
<1> QED
  BY <1>1, <1>2, PTL DEF PriceSpec

\* Whatever versions administrators save, and however they race, a request finds
\* exactly one price: windows_overlap misses no two windows that ever apply
\* together.
THEOREM PricesUnique == PriceSpec => []OnePrice
<1>1. PriceInv => OnePrice
  <2> SUFFICES ASSUME PriceInv, NEW i \in DOMAIN priceBook, NEW t \in DOMAIN priceBook[i].plan,
                      NEW m \in Moment
               PROVE  PriceAt(priceBook[i].plan[t], m[1], m[2]) # Absent
    BY DEF OnePrice
  <2>1. priceBook[i].plan \in AnyPlan
    <3>1. priceBook[i] \in PriceVersion
      BY DEF PriceInv, BookInv
    <3> QED
      BY <3>1 DEF PriceVersion
  <2>2. m[1] \in Int /\ m[2] \in 0 .. MinutesPerDay - 1
    BY PriceAssumption
  <2>3. PriceAt(priceBook[i].plan[t], m[1], m[2]) \in Rate
    BY <2>1, <2>2, PlanTyped, OnePriceAt
  <2> QED
    BY <2>3, PriceAssumption
<1> QED
  BY <1>1, PriceInvariant, PTL

\* The version a request was admitted with stays in the book under a name of
\* its own and with the same rate: a lost update of save_billing_price_version
\* would drop it.
THEOREM PricesOnRecord == PriceSpec => []PriceOnRecord
<1>1. PriceInv => PriceOnRecord
  BY DEF PriceInv, BookInv, FrozenInv, Distinct, Recorded, PriceOnRecord
<1> QED
  BY <1>1, PriceInvariant, PTL

-----------------------------------------------------------------------------
(***************************************************************************)
(* Token quotas, vouchers and images, for any number of members, tellers,  *)
(* requests, vouchers and calls.                                           *)
(*                                                                         *)
(* A commit compares the rows that its call read with the rows that are    *)
(* there, so of a call on a desk little has to be known: whose rows it is  *)
(* about, that a charge had found its reservation active, and that an      *)
(* adjustment leaves no image balance below zero.                          *)
(***************************************************************************)

PurseRow == [balance : Int, reserved : Int, granted : Int, consumed : Int,
             revision : Int, tail : Int]
QuotaRefs == {<<"opening">>} \cup {<<r>> : r \in Purchase}
               \cup {<<"admin", g>> : g \in Grant} \cup {<<"voucher", v>> : v \in Voucher}
LedgerLine == [kind : {"grant", "usage", "usage_failed"}, ref : QuotaRefs, amount : Int,
               previous : Int]
HeldRow == [status : {"none", "active", "settled", "released"}, tokens : Nat]
VoucherRow == [status : {"none", "active", "redeemed", "deleted"}, count : Int,
               delivery : {"none", "pending", "redeemed"}, revision : Int]
AlbumRow == [available : Int, reserved : Int, consumed : Int, revision : Int]
HoldRow == [reserved : Int, released : Int, status : {"reserved", "settled"}, revision : Int]

QuotaTypes ==
  /\ purse \in [Account -> PurseRow]
  /\ entries \in [Account -> Seq(LedgerLine)]
  /\ held \in [Purchase -> HeldRow]
  /\ vouchers \in [Voucher -> VoucherRow]
  /\ album \in [Account -> AlbumRow \cup {NoRow}]
  /\ hold \in [Account -> HoldRow \cup {NoRow}]

\* What a call on a desk has established when it read.
CallSound(c) ==
  /\ c.op = "reserve" => c.request \in Purchase /\ c.n \in Nat
  /\ c.op \in {"settle", "fail"} =>
       c.request \in Purchase /\ c.n \in Nat /\ c.reservation.status = "active"
  /\ c.op = "grant" => c.account \in Account /\ c.ref \in Grant /\ c.n \in Nat /\ c.d \in {0, 1}
  /\ c.op = "adjust" => c.account \in Account /\ c.d \in {-1, 1} /\ Available(c.image) + c.d >= 0
  /\ c.op = "release" => c.account \in Account /\ OldImages[c.account] # 0
  /\ c.op = "redeem" => /\ c.account \in Account /\ c.voucher \in Voucher
                        /\ c.via \in {"code", "delivery"}
                        /\ c.via = "delivery" => Terms[c.voucher].recipient = c.account

DeskSound ==
  /\ desk = [t \in Teller |-> desk[t]]
  /\ \A t \in Teller : desk[t] # Idle => CallSound(desk[t])

\* The ledger of tokens is a chain that adds up to the balance.
ChainSound ==
  \A a \in Account :
    /\ purse[a].balance = purse[a].granted - purse[a].consumed
    /\ purse[a].balance = Net(Amounts(entries[a]))
    /\ purse[a].tail = Len(entries[a])
    /\ \A i \in DOMAIN entries[a] : entries[a][i].previous = i - 1

HeldTokens(a) == [r \in Active(a) |-> held[r].tokens]

\* Reservations that are active add up, and the balance covers them.
ReservedSound ==
  \A a \in Account :
    /\ IsFiniteSet(Active(a))
    /\ purse[a].reserved = Net(HeldTokens(a))
    /\ 0 <= purse[a].reserved /\ purse[a].reserved <= purse[a].balance

AdjustedOf(a) == {e \in imageLog : e.kind = "adjust" /\ e.account = a}
AdjustedAmounts(a) == [e \in AdjustedOf(a) |-> e.amount]

\* A member without a row of images has no entries and nothing is held; the row
\* of a reservation stays when all of its images are released.
ImagesSound ==
  /\ \A e \in imageLog : e.amount \in Int
  /\ \A a \in Account : hold[a] # NoRow <=> OldImages[a] # 0
  /\ \A a \in Account :
       /\ IsFiniteSet(AdjustedOf(a))
       /\ album[a] = NoRow => hold[a] = NoRow /\ AdjustedOf(a) = {}
       /\ album[a] # NoRow =>
            /\ album[a].available >= 0
            /\ album[a].available + album[a].reserved + album[a].consumed
                 = Net(AdjustedAmounts(a))
            /\ album[a].reserved = IF hold[a] = NoRow THEN 0
                                   ELSE hold[a].reserved - hold[a].released

Single(S) == \E i : S = {i}

\* The lines of a ledger with a kind and a reference.
EntriesIn(log, kind, ref) == {i \in DOMAIN log : log[i].kind = kind /\ log[i].ref = ref}

ChargesOf(r) ==
  EntriesIn(entries[Payer[r]], "usage", <<r>>) \union EntriesIn(entries[Payer[r]], "usage_failed", <<r>>)

ChargesOnce ==
  \A r \in Purchase :
    /\ held[r].status \in {"settled", "released"} => Single(ChargesOf(r))
    /\ held[r].status \notin {"settled", "released"} => ChargesOf(r) = {}

GrantsOnce ==
  \A a \in Account, g \in Grant :
    \/ EntriesIn(entries[a], "grant", <<"admin", g>>) = {}
    \/ Single(EntriesIn(entries[a], "grant", <<"admin", g>>))

UsersOf(v) == {a \in Account : <<v, a>> \in redemptions}

VouchersOnce ==
  \A v \in Voucher :
    /\ IsFiniteSet(UsersOf(v))
    /\ vouchers[v].count = Cardinality(UsersOf(v)) /\ vouchers[v].count <= Terms[v].max
    /\ vouchers[v].status = "deleted" => UsersOf(v) = {}
    /\ \A a \in Account :
         /\ a \in UsersOf(v) => Single(EntriesIn(entries[a], "grant", <<"voucher", v>>))
         /\ a \notin UsersOf(v) => EntriesIn(entries[a], "grant", <<"voucher", v>>) = {}
    /\ Terms[v].recipient # Anyone => UsersOf(v) \subseteq {Terms[v].recipient}

QuotaInv ==
  /\ QuotaTypes /\ DeskSound
  /\ ChainSound /\ ReservedSound /\ ImagesSound
  /\ ChargesOnce /\ GrantsOnce /\ VouchersOnce

\* The invariant says what the property asks for.
LEMMA QuotaInvSound == QuotaInv => QuotaBooks
<1> SUFFICES ASSUME QuotaInv PROVE QuotaBooks OBVIOUS
<1>1. TokensAddUp
  <2> SUFFICES ASSUME NEW a \in Account
               PROVE /\ purse[a].balance = purse[a].granted - purse[a].consumed
                     /\ purse[a].balance = Net(Amounts(entries[a]))
                     /\ purse[a].reserved = Net([r \in Active(a) |-> held[r].tokens])
                     /\ 0 <= purse[a].reserved /\ purse[a].reserved <= purse[a].balance
                     /\ purse[a].tail = Len(entries[a])
                     /\ \A i \in DOMAIN entries[a] : entries[a][i].previous = i - 1
    BY DEF TokensAddUp
  <2> QED BY DEF QuotaInv, ChainSound, ReservedSound, HeldTokens
<1>2. ImagesAddUp
  <2> SUFFICES ASSUME NEW a \in Account, album[a] # NoRow
               PROVE /\ album[a].available >= 0
                     /\ album[a].available + album[a].reserved + album[a].consumed
                          = Net([e \in {e \in imageLog : e.kind = "adjust" /\ e.account = a} |-> e.amount])
                     /\ album[a].reserved = IF hold[a] = NoRow THEN 0
                                            ELSE hold[a].reserved - hold[a].released
    BY DEF ImagesAddUp
  <2> QED BY DEF QuotaInv, ImagesSound, AdjustedAmounts, AdjustedOf
<1>3. \A S : Single(S) => Cardinality(S) = 1 BY FS_Singleton DEF Single
<1>4. Cardinality({}) = 0 BY FS_EmptySet
<1>5. ASSUME NEW r \in Purchase
      PROVE  Cardinality(ChargesOf(r)) = IF held[r].status \in {"settled", "released"} THEN 1 ELSE 0
  BY <1>3, <1>4 DEF QuotaInv, ChargesOnce
<1>6. ASSUME NEW a \in Account, NEW g \in Grant
      PROVE  Cardinality(EntriesIn(entries[a], "grant", <<"admin", g>>)) <= 1
  <2>1. \/ EntriesIn(entries[a], "grant", <<"admin", g>>) = {}
        \/ Single(EntriesIn(entries[a], "grant", <<"admin", g>>))
    BY DEF QuotaInv, GrantsOnce
  <2> QED BY <1>3, <1>4, <2>1
<1>7. ASSUME NEW v \in Voucher
      PROVE  /\ vouchers[v].count = Cardinality(UsersOf(v)) /\ Cardinality(UsersOf(v)) <= Terms[v].max
             /\ vouchers[v].status = "deleted" => UsersOf(v) = {}
             /\ \A a \in Account : Cardinality(EntriesIn(entries[a], "grant", <<"voucher", v>>))
                                     = IF a \in UsersOf(v) THEN 1 ELSE 0
             /\ Terms[v].recipient # Anyone => UsersOf(v) \subseteq {Terms[v].recipient}
  <2>1. /\ vouchers[v].count = Cardinality(UsersOf(v)) /\ vouchers[v].count <= Terms[v].max
        /\ vouchers[v].status = "deleted" => UsersOf(v) = {}
        /\ \A a \in Account :
             /\ a \in UsersOf(v) => Single(EntriesIn(entries[a], "grant", <<"voucher", v>>))
             /\ a \notin UsersOf(v) => EntriesIn(entries[a], "grant", <<"voucher", v>>) = {}
        /\ Terms[v].recipient # Anyone => UsersOf(v) \subseteq {Terms[v].recipient}
    BY DEF QuotaInv, VouchersOnce
  <2> QED BY <1>3, <1>4, <2>1
<1>8. CreditedOnce BY <1>5, <1>6, <1>7 DEF CreditedOnce, ChargesOf, UsersOf, EntriesOf, EntriesIn
<1> QED BY <1>1, <1>2, <1>8 DEF QuotaBooks, BooksBalance

\* Each part is kept by a step that leaves its rows alone.
LEMMA QuotaFrames ==
  /\ ChainSound /\ UNCHANGED tokenVars => ChainSound'
  /\ ReservedSound /\ UNCHANGED <<purse, held>> => ReservedSound'
  /\ ImagesSound /\ UNCHANGED imageVars => ImagesSound'
  /\ ChargesOnce /\ UNCHANGED <<entries, held>> => ChargesOnce'
  /\ GrantsOnce /\ UNCHANGED entries => GrantsOnce'
  /\ VouchersOnce /\ UNCHANGED <<entries, voucherVars>> => VouchersOnce'
<1>1. ChainSound /\ UNCHANGED tokenVars => ChainSound' BY DEF ChainSound, tokenVars
<1>2. ReservedSound /\ UNCHANGED <<purse, held>> => ReservedSound'
  BY DEF ReservedSound, Active, HeldTokens
<1>3. ImagesSound /\ UNCHANGED imageVars => ImagesSound'
  BY DEF ImagesSound, AdjustedOf, AdjustedAmounts, imageVars
<1>4. ChargesOnce /\ UNCHANGED <<entries, held>> => ChargesOnce'
  BY DEF ChargesOnce, ChargesOf
<1>5. GrantsOnce /\ UNCHANGED entries => GrantsOnce' BY DEF GrantsOnce
<1>6. VouchersOnce /\ UNCHANGED <<entries, voucherVars>> => VouchersOnce'
  <2> SUFFICES ASSUME VouchersOnce, UNCHANGED <<entries, voucherVars>> PROVE VouchersOnce' OBVIOUS
  <2>1. \A v \in Voucher : UsersOf(v)' = UsersOf(v) BY DEF UsersOf, voucherVars
  <2>2. vouchers' = vouchers BY DEF voucherVars
  <2> QED BY <2>1, <2>2 DEF VouchersOnce
<1> QED BY <1>1, <1>2, <1>3, <1>4, <1>5, <1>6

LEMMA DeskBegins ==
  ASSUME DeskSound, NEW t \in Teller, NEW c, CallSound(c), desk' = [desk EXCEPT ![t] = c]
  PROVE  DeskSound'
<1>1. \A u \in Teller : desk'[u] = IF u = t THEN c ELSE desk[u] BY DEF DeskSound
<1>2. desk' = [u \in Teller |-> desk'[u]] BY DEF DeskSound
<1>3. \A u \in Teller : desk'[u] # Idle => CallSound(desk'[u]) BY <1>1 DEF DeskSound
<1> QED BY <1>2, <1>3 DEF DeskSound, CallSound, Available

LEMMA DeskEnds ==
  ASSUME DeskSound, NEW t \in Teller, desk' = [desk EXCEPT ![t] = Idle]
  PROVE  DeskSound'
<1>1. \A u \in Teller : desk'[u] = IF u = t THEN Idle ELSE desk[u] BY DEF DeskSound
<1>2. desk' = [u \in Teller |-> desk'[u]] BY DEF DeskSound
<1>3. \A u \in Teller : desk'[u] # Idle => CallSound(desk'[u]) BY <1>1 DEF DeskSound
<1> QED BY <1>2, <1>3 DEF DeskSound, CallSound, Available

\* A step that touches nothing but a desk.
LEMMA DeskOnly ==
  ASSUME QuotaInv, DeskSound', UNCHANGED <<tokenVars, held, voucherVars, imageVars>>
  PROVE  QuotaInv'
<1>1. QuotaTypes' BY DEF QuotaInv, QuotaTypes, tokenVars, voucherVars, imageVars
<1> QED BY <1>1, QuotaFrames DEF QuotaInv, tokenVars

LEMMA QuotaStart == QuotaInit => QuotaInv
<1> SUFFICES ASSUME QuotaInit PROVE QuotaInv OBVIOUS
<1> USE QuotaAssumption
<1> DEFINE line == [kind |-> "grant", ref |-> <<"opening">>, amount |-> OpeningTokens, previous |-> 0]
           row == [balance |-> OpeningTokens, reserved |-> 0, granted |-> OpeningTokens,
                   consumed |-> 0, revision |-> 1, tail |-> 1]
<1>1. line \in LedgerLine /\ row \in PurseRow BY DEF LedgerLine, QuotaRefs, PurseRow
<1>2. purse = [a \in Account |-> row] /\ entries = [a \in Account |-> <<line>>] BY DEF QuotaInit
<1>3. /\ held = [r \in Purchase |-> [status |-> "none", tokens |-> 0]]
      /\ vouchers = [v \in Voucher |-> [status |-> "none", count |-> 0, delivery |-> "none", revision |-> 0]]
      /\ redemptions = {}
  BY DEF QuotaInit
<1>4. /\ album = [a \in Account |-> IF OldImages[a] = 0 THEN NoRow
           ELSE [available |-> 0, reserved |-> OldImages[a], consumed |-> 0, revision |-> 1]]
      /\ hold = [a \in Account |-> IF OldImages[a] = 0 THEN NoRow
           ELSE [reserved |-> OldImages[a], released |-> 0, status |-> "reserved", revision |-> 0]]
      /\ imageLog = {[id |-> <<"old", a>>, kind |-> "adjust", account |-> a, amount |-> OldImages[a]] :
                        a \in {b \in Account : OldImages[b] > 0}}
  BY DEF QuotaInit
<1>5. QuotaTypes
  <2>1. purse \in [Account -> PurseRow] BY <1>1, <1>2
  <2>2. entries \in [Account -> Seq(LedgerLine)] BY <1>1, <1>2
  <2>3. held \in [Purchase -> HeldRow] /\ vouchers \in [Voucher -> VoucherRow]
    BY <1>3 DEF HeldRow, VoucherRow
  <2>4. album \in [Account -> AlbumRow \cup {NoRow}] BY <1>4 DEF AlbumRow
  <2>5. hold \in [Account -> HoldRow \cup {NoRow}] BY <1>4 DEF HoldRow
  <2> QED BY <2>1, <2>2, <2>3, <2>4, <2>5 DEF QuotaTypes
<1>6. DeskSound BY DEF QuotaInit, DeskSound
<1>7. ChainSound
  <2>0. << >> \in Seq(LedgerLine) OBVIOUS
  <2>1. PICK l \in Seq(LedgerLine) : l = << >> BY <2>0
  <2>2. <<line>> = Append(l, line) BY <1>1, <2>1
  <2>3. \A s \in LedgerLine : s.amount \in Int BY DEF LedgerLine
  <2>4. Net(Amounts(Append(l, line))) = Net(Amounts(l)) + line.amount
    BY <1>1, <2>3, AmountsAppend
  <2>5. Amounts(l) \in [{} -> Int] BY <2>1 DEF Amounts
  <2>6. Net(Amounts(l)) = 0 BY <2>5, NetNothing
  <2>a. line.amount = OpeningTokens OBVIOUS
  <2>7. Net(Amounts(<<line>>)) = OpeningTokens
    <3> HIDE DEF line, row
    <3>1. Net(Amounts(<<line>>)) = Net(Amounts(l)) + line.amount BY ONLY <2>2, <2>4, Zenon
    <3>2. 0 + OpeningTokens = OpeningTokens OBVIOUS
    <3> QED BY ONLY <2>6, <2>a, <3>1, <3>2, Zenon
  <2>8. Len(<<line>>) = 1 /\ DOMAIN <<line>> = {1} /\ <<line>>[1].previous = 0 OBVIOUS
  <2> HIDE DEF line
  <2> QED BY <1>2, <2>7, <2>8 DEF ChainSound
<1>8. ReservedSound
  <2> SUFFICES ASSUME NEW a \in Account
               PROVE /\ IsFiniteSet(Active(a)) /\ purse[a].reserved = Net(HeldTokens(a))
                     /\ 0 <= purse[a].reserved /\ purse[a].reserved <= purse[a].balance
    BY DEF ReservedSound
  <2>1. Active(a) = {} BY <1>3 DEF Active
  <2>2. HeldTokens(a) \in [{} -> Int] BY <2>1 DEF HeldTokens
  <2>3. Net(HeldTokens(a)) = 0 BY <2>2, NetNothing
  <2> QED BY <1>2, <2>1, <2>3, FS_EmptySet
<1>9. ImagesSound
  <2>1. \A e \in imageLog : e.amount \in Int BY <1>4
  <2>2. ASSUME NEW a \in Account
        PROVE  /\ IsFiniteSet(AdjustedOf(a))
               /\ album[a] = NoRow => hold[a] = NoRow /\ AdjustedOf(a) = {}
               /\ album[a] # NoRow =>
                    /\ album[a].available >= 0
                    /\ album[a].available + album[a].reserved + album[a].consumed
                         = Net(AdjustedAmounts(a))
                    /\ album[a].reserved = IF hold[a] = NoRow THEN 0
                                           ELSE hold[a].reserved - hold[a].released
    <3>1. CASE OldImages[a] = 0
      <4>1. album[a] = NoRow /\ hold[a] = NoRow BY <1>4, <3>1
      <4>2. AdjustedOf(a) = {} BY <1>4, <3>1 DEF AdjustedOf
      <4> QED BY <4>1, <4>2, FS_EmptySet
    <3>2. CASE OldImages[a] # 0
      <4> DEFINE e == [id |-> <<"old", a>>, kind |-> "adjust", account |-> a, amount |-> OldImages[a]]
      <4>1. /\ album[a] = [available |-> 0, reserved |-> OldImages[a], consumed |-> 0, revision |-> 1]
            /\ hold[a] = [reserved |-> OldImages[a], released |-> 0, status |-> "reserved", revision |-> 0]
        BY <1>4, <3>2
      <4>2. album[a] # NoRow /\ hold[a] # NoRow BY <4>1
      <4>3. AdjustedOf(a) = {e}
        <5>1. OldImages[a] > 0 BY <3>2
        <5>2. e \in imageLog BY <1>4, <5>1
        <5>3. \A x \in imageLog : x.account = a => x = e BY <1>4
        <5> QED BY <5>2, <5>3 DEF AdjustedOf
      <4>4. AdjustedAmounts(a) = [x \in {e} |-> OldImages[a]] BY <4>3 DEF AdjustedAmounts
      <4> HIDE DEF e
      <4>5. PICK f : f = [x \in {} |-> 0] OBVIOUS
      <4>6. PICK g : g = [x \in {e} |-> OldImages[a]] OBVIOUS
      <4>7. OneMore(f, g, e) BY <4>5, <4>6, FS_EmptySet DEF OneMore
      <4>8. Net(g) = Net(f) + g[e] BY <4>7, SumsAdd
      <4>9. f \in [{} -> Int] BY <4>5
      <4>10. Net(f) = 0 BY <4>9, NetNothing
      <4>11. Net(AdjustedAmounts(a)) = OldImages[a] BY <4>4, <4>6, <4>8, <4>10
      <4>12. IsFiniteSet(AdjustedOf(a))
        <5>1. \A x : IsFiniteSet({x}) BY FS_Singleton
        <5> QED BY <4>3, <5>1
      <4>13. OldImages[a] \in Nat OBVIOUS
      <4> QED BY <4>1, <4>2, <4>11, <4>12, <4>13
    <3> QED BY <3>1, <3>2
  <2>3. \A a \in Account : hold[a] # NoRow <=> OldImages[a] # 0
    BY <1>4 DEF HoldRow
  <2> QED BY <2>1, <2>2, <2>3 DEF ImagesSound
<1>10. \A a \in Account : entries[a] = <<line>> BY <1>2
<1>11. ASSUME NEW a \in Account, NEW kind, NEW ref, kind # "grant" \/ ref # <<"opening">>
       PROVE  EntriesIn(entries[a], kind, ref) = {}
  BY <1>10, <1>11 DEF EntriesIn
<1>12. ChargesOnce
  <2>1. \A r \in Purchase : Payer[r] \in Account OBVIOUS
  <2>2. \A r \in Purchase : ChargesOf(r) = {} BY <1>11, <2>1 DEF ChargesOf
  <2> QED BY <1>3, <2>2 DEF ChargesOnce
<1>13. GrantsOnce
  <2>1. \A g \in Grant : <<"admin", g>> # <<"opening">> OBVIOUS
  <2> QED BY <1>11, <2>1 DEF GrantsOnce
<1>14. VouchersOnce
  <2>1. \A v \in Voucher : <<"voucher", v>> # <<"opening">> OBVIOUS
  <2>2. \A v \in Voucher : UsersOf(v) = {} BY <1>3 DEF UsersOf
  <2>3. \A a \in Account, v \in Voucher : EntriesIn(entries[a], "grant", <<"voucher", v>>) = {}
    BY <1>11, <2>1
  <2>4. \A v \in Voucher : vouchers[v].count = 0 /\ vouchers[v].status = "none" /\ 0 <= Terms[v].max
    BY <1>3
  <2> QED BY <2>2, <2>3, <2>4, FS_EmptySet DEF VouchersOnce
<1> QED BY <1>5, <1>6, <1>7, <1>8, <1>9, <1>12, <1>13, <1>14 DEF QuotaInv

\* One line more in the ledger of a member.
LEMMA LineEntered ==
  ASSUME NEW l \in Seq(LedgerLine), NEW line \in LedgerLine, NEW kind, NEW ref
  PROVE  /\ line.kind = kind /\ line.ref = ref =>
              EntriesIn(Append(l, line), kind, ref) = EntriesIn(l, kind, ref) \cup {Len(l) + 1}
         /\ line.kind # kind \/ line.ref # ref =>
              EntriesIn(Append(l, line), kind, ref) = EntriesIn(l, kind, ref)
<1>1. PICK k : k = Append(l, line) OBVIOUS
<1>2. /\ Len(l) \in Nat /\ DOMAIN k = DOMAIN l \cup {Len(l) + 1} /\ k[Len(l) + 1] = line
      /\ \A i \in DOMAIN l : k[i] = l[i]
  BY <1>1
<1>3. EntriesIn(k, kind, ref) = {i \in DOMAIN k : k[i].kind = kind /\ k[i].ref = ref}
  BY DEF EntriesIn
<1>4. EntriesIn(l, kind, ref) = {i \in DOMAIN l : l[i].kind = kind /\ l[i].ref = ref}
  BY DEF EntriesIn
<1>5. /\ line.kind = kind /\ line.ref = ref =>
           EntriesIn(k, kind, ref) = EntriesIn(l, kind, ref) \cup {Len(l) + 1}
      /\ line.kind # kind \/ line.ref # ref => EntriesIn(k, kind, ref) = EntriesIn(l, kind, ref)
  BY <1>2, <1>3, <1>4
<1> QED BY <1>1, <1>5

\* The ledgers after a line was added to one of them.
LineAdded(a, line) == entries' = [entries EXCEPT ![a] = Append(@, line)]

LEMMA LinesAfter ==
  ASSUME QuotaTypes, NEW a \in Account, NEW line \in LedgerLine, LineAdded(a, line),
         NEW b \in Account, NEW kind, NEW ref
  PROVE  /\ b = a /\ line.kind = kind /\ line.ref = ref /\ EntriesIn(entries[b], kind, ref) = {}
              => Single(EntriesIn(entries'[b], kind, ref))
         /\ b # a \/ line.kind # kind \/ line.ref # ref
              => EntriesIn(entries'[b], kind, ref) = EntriesIn(entries[b], kind, ref)
<1>1. PICK l \in Seq(LedgerLine) : l = entries[a] BY DEF QuotaTypes
<1>2. entries'[b] = IF b = a THEN Append(l, line) ELSE entries[b]
  BY <1>1 DEF QuotaTypes, LineAdded
<1>3. /\ line.kind = kind /\ line.ref = ref =>
           EntriesIn(Append(l, line), kind, ref) = EntriesIn(l, kind, ref) \cup {Len(l) + 1}
      /\ line.kind # kind \/ line.ref # ref =>
           EntriesIn(Append(l, line), kind, ref) = EntriesIn(l, kind, ref)
  BY LineEntered
<1>4. ASSUME b = a, line.kind = kind, line.ref = ref, EntriesIn(entries[b], kind, ref) = {}
      PROVE  Single(EntriesIn(entries'[b], kind, ref))
  <2>1. EntriesIn(entries'[b], kind, ref) = {Len(l) + 1} BY <1>1, <1>2, <1>3, <1>4
  <2> QED BY <2>1 DEF Single
<1>5. ASSUME b # a \/ line.kind # kind \/ line.ref # ref
      PROVE  EntriesIn(entries'[b], kind, ref) = EntriesIn(entries[b], kind, ref)
  BY <1>1, <1>2, <1>3, <1>5
<1> QED BY <1>4, <1>5

\* What a line is not about stays as it is.
LEMMA OtherLines ==
  ASSUME QuotaInv, NEW a \in Account, NEW line \in LedgerLine, LineAdded(a, line)
  PROVE  /\ line.kind = "grant" /\ held' = held => ChargesOnce'
         /\ line.kind # "grant" \/ (\E v \in Voucher : line.ref = <<"voucher", v>>) => GrantsOnce'
         /\ (line.kind # "grant" \/ \E g \in Grant : line.ref = <<"admin", g>>)
              /\ UNCHANGED voucherVars => VouchersOnce'
<1>0. QuotaTypes BY DEF QuotaInv
<1>1. ASSUME line.kind = "grant", held' = held PROVE ChargesOnce'
  <2>1. ASSUME NEW r \in Purchase PROVE ChargesOf(r)' = ChargesOf(r)
    <3>1. PICK b \in Account : b = Payer[r] BY QuotaAssumption
    <3>2. line.kind # "usage" /\ line.kind # "usage_failed" BY <1>1
    <3>3. EntriesIn(entries'[b], "usage", <<r>>) = EntriesIn(entries[b], "usage", <<r>>)
      BY <1>0, <3>2, LinesAfter
    <3>4. EntriesIn(entries'[b], "usage_failed", <<r>>) = EntriesIn(entries[b], "usage_failed", <<r>>)
      BY <1>0, <3>2, LinesAfter
    <3> QED BY <3>1, <3>3, <3>4 DEF ChargesOf
  <2> QED BY <1>1, <2>1 DEF QuotaInv, ChargesOnce
<1>2. ASSUME line.kind # "grant" \/ \E v \in Voucher : line.ref = <<"voucher", v>>
      PROVE  GrantsOnce'
  <2>1. ASSUME NEW b \in Account, NEW g \in Grant
        PROVE  EntriesIn(entries'[b], "grant", <<"admin", g>>)
                 = EntriesIn(entries[b], "grant", <<"admin", g>>)
    <3>1. line.kind # "grant" \/ line.ref # <<"admin", g>> BY <1>2
    <3> QED BY <1>0, <3>1, LinesAfter
  <2> QED BY <2>1 DEF QuotaInv, GrantsOnce
<1>3. ASSUME line.kind # "grant" \/ \E g \in Grant : line.ref = <<"admin", g>>,
             UNCHANGED voucherVars
      PROVE  VouchersOnce'
  <2>1. ASSUME NEW b \in Account, NEW v \in Voucher
        PROVE  EntriesIn(entries'[b], "grant", <<"voucher", v>>)
                 = EntriesIn(entries[b], "grant", <<"voucher", v>>)
    <3>1. line.kind # "grant" \/ line.ref # <<"voucher", v>> BY <1>3
    <3> QED BY <1>0, <3>1, LinesAfter
  <2>2. \A v \in Voucher : UsersOf(v)' = UsersOf(v) BY <1>3 DEF UsersOf, voucherVars
  <2>3. vouchers' = vouchers BY <1>3 DEF voucherVars
  <2> SUFFICES ASSUME NEW v \in Voucher
      PROVE /\ IsFiniteSet(UsersOf(v))
            /\ vouchers[v].count = Cardinality(UsersOf(v)) /\ vouchers[v].count <= Terms[v].max
            /\ vouchers[v].status = "deleted" => UsersOf(v) = {}
            /\ \A b \in Account :
                 /\ b \in UsersOf(v) => Single(EntriesIn(entries'[b], "grant", <<"voucher", v>>))
                 /\ b \notin UsersOf(v) => EntriesIn(entries'[b], "grant", <<"voucher", v>>) = {}
            /\ Terms[v].recipient # Anyone => UsersOf(v) \subseteq {Terms[v].recipient}
    BY <2>2, <2>3 DEF VouchersOnce
  <2> QED BY <2>1 DEF QuotaInv, VouchersOnce
<1> QED BY <1>1, <1>2, <1>3

\* A row is written with the line that accounts for it.
LEMMA ChainWritten ==
  ASSUME QuotaTypes, ChainSound, NEW a \in Account, NEW row \in PurseRow, NEW line \in LedgerLine,
         Write(a, row, line),
         line.previous = purse[a].tail, row.tail = purse[a].tail + 1,
         row.balance = purse[a].balance + line.amount,
         row.balance = row.granted - row.consumed
  PROVE  ChainSound'
<1> SUFFICES ASSUME NEW b \in Account
             PROVE  /\ purse'[b].balance = purse'[b].granted - purse'[b].consumed
                    /\ purse'[b].balance = Net(Amounts(entries'[b]))
                    /\ purse'[b].tail = Len(entries'[b])
                    /\ \A i \in DOMAIN entries'[b] : entries'[b][i].previous = i - 1
  BY DEF ChainSound
<1>1. CASE b # a
  <2>1. purse'[b] = purse[b] /\ entries'[b] = entries[b] BY <1>1 DEF QuotaTypes, Write
  <2> QED BY <2>1 DEF ChainSound
<1>2. CASE b = a
  <2>1. purse'[b] = row /\ entries'[b] = Append(entries[a], line) /\ entries[a] \in Seq(LedgerLine)
    BY <1>2 DEF QuotaTypes, Write
  <2>2. PICK l \in Seq(LedgerLine) : l = entries[a] BY <2>1
  <2>3. /\ purse[a].balance = Net(Amounts(l)) /\ purse[a].tail = Len(l)
        /\ \A i \in DOMAIN l : l[i].previous = i - 1
    BY <2>2 DEF ChainSound
  <2>4. \A s \in LedgerLine : s.amount \in Int BY DEF LedgerLine
  <2>5. Net(Amounts(Append(l, line))) = Net(Amounts(l)) + line.amount BY <2>4, AmountsAppend
  <2>6. row.balance = Net(Amounts(Append(l, line))) BY <2>3, <2>5
  <2>7. entries'[b] = Append(l, line) BY <2>1, <2>2
  <2>8. purse'[b].balance = Net(Amounts(entries'[b])) BY <2>1, <2>6, <2>7
  <2>9. /\ Len(Append(l, line)) = Len(l) + 1
        /\ \A i \in DOMAIN Append(l, line) : Append(l, line)[i].previous = i - 1
    <3>1. Len(l) \in Nat /\ line.previous = Len(l) BY <2>3
    <3>2. DOMAIN Append(l, line) = 1..(Len(l) + 1) /\ Len(Append(l, line)) = Len(l) + 1
          /\ DOMAIN l = 1..Len(l)
      OBVIOUS
    <3>3. Append(l, line)[Len(l) + 1] = line /\ \A i \in 1..Len(l) : Append(l, line)[i] = l[i]
      OBVIOUS
    <3>4. \A i \in 1..Len(l) : Append(l, line)[i].previous = i - 1 BY <2>3, <3>2, <3>3
    <3>5. Append(l, line)[Len(l) + 1].previous = (Len(l) + 1) - 1 BY <3>1, <3>3
    <3>6. \A i \in 1..(Len(l) + 1) : i \in 1..Len(l) \/ i = Len(l) + 1 BY <3>1
    <3> QED BY <3>2, <3>4, <3>5, <3>6
  <2>10. purse'[b].tail = Len(entries'[b]) BY <2>1, <2>3, <2>7, <2>9
  <2> QED BY <2>1, <2>7, <2>8, <2>9, <2>10
<1> QED BY <1>1, <1>2

\* The balance of a member grows and nothing is reserved or given back.
LEMMA ReservedGrows ==
  ASSUME QuotaTypes, ReservedSound, NEW a \in Account, NEW row \in PurseRow,
         held' = held, purse' = [purse EXCEPT ![a] = row],
         row.reserved = purse[a].reserved, row.balance >= purse[a].balance
  PROVE  ReservedSound'
<1> SUFFICES ASSUME NEW b \in Account
             PROVE  /\ IsFiniteSet(Active(b)') /\ purse'[b].reserved = Net(HeldTokens(b)')
                    /\ 0 <= purse'[b].reserved /\ purse'[b].reserved <= purse'[b].balance
  BY DEF ReservedSound
<1>1. Active(b)' = Active(b) /\ HeldTokens(b)' = HeldTokens(b) BY DEF Active, HeldTokens
<1>2. /\ IsFiniteSet(Active(b)) /\ purse[b].reserved = Net(HeldTokens(b))
      /\ 0 <= purse[b].reserved /\ purse[b].reserved <= purse[b].balance
  BY DEF ReservedSound
<1>3. purse'[b].reserved = purse[b].reserved BY DEF QuotaTypes
<1>4. purse'[b].balance >= purse[b].balance /\ purse[b] \in PurseRow /\ purse'[b] \in PurseRow
  <2>1. purse[b] \in PurseRow /\ purse'[b] = IF b = a THEN row ELSE purse[b] BY DEF QuotaTypes
  <2>2. purse[b].balance \in Int BY <2>1 DEF PurseRow
  <2> QED BY <2>1, <2>2
<1>5. purse'[b].reserved <= purse'[b].balance
  <2>1. /\ purse[b].reserved \in Int /\ purse[b].balance \in Int /\ purse'[b].balance \in Int
    BY <1>4 DEF PurseRow
  <2> QED BY <1>2, <1>3, <1>4, <2>1
<1> QED BY <1>1, <1>2, <1>3, <1>5

\* A sum of amounts that are not negative.
LEMMA NetOfNaturals ==
  ASSUME NEW D, IsFiniteSet(D), NEW f \in [D -> Nat]
  PROVE  Net(f) \in Nat
<1>1. f \in [D -> Int] OBVIOUS
<1>2. Total(f) \in Nat BY <1>1, TotalFinite
<1>3. Total(Negated(f)) = 0
  <2>1. UNION {{x} \X (1..Negated(f)[x]) : x \in DOMAIN Negated(f)} = {}
    <3>1. DOMAIN Negated(f) = D /\ \A x \in D : Negated(f)[x] = 0 - f[x] BY DEF Negated
    <3>2. \A x \in D : 1..Negated(f)[x] = {} BY <3>1
    <3> QED BY <3>1, <3>2
  <2> QED BY <2>1, FS_EmptySet DEF Total
<1> QED BY <1>2, <1>3 DEF Net

\* The rows that the operations write.
Reserving(row, n) == [row EXCEPT !.reserved = @ + n, !.revision = @ + 1]
Closing(row, x, k) ==
  [row EXCEPT !.balance = @ - x, !.consumed = @ + x, !.reserved = @ - k,
              !.revision = @ + 1, !.tail = @ + 1]

LEMMA RowReserved ==
  ASSUME NEW row \in PurseRow, NEW n \in Int, NEW new, new = Reserving(row, n)
  PROVE  /\ new \in PurseRow
         /\ new.balance = row.balance /\ new.granted = row.granted
         /\ new.consumed = row.consumed /\ new.tail = row.tail /\ new.reserved = row.reserved + n
<1>1. row = [balance |-> row.balance, reserved |-> row.reserved, granted |-> row.granted,
             consumed |-> row.consumed, revision |-> row.revision, tail |-> row.tail]
  BY DEF PurseRow
<1>2. /\ row.balance \in Int /\ row.reserved \in Int /\ row.granted \in Int
      /\ row.consumed \in Int /\ row.revision \in Int /\ row.tail \in Int
  BY DEF PurseRow
<1>3. new = [balance |-> row.balance, reserved |-> row.reserved + n, granted |-> row.granted,
             consumed |-> row.consumed, revision |-> row.revision + 1, tail |-> row.tail]
  BY <1>1 DEF Reserving
<1>4. new \in PurseRow BY <1>2, <1>3 DEF PurseRow
<1> QED BY <1>3, <1>4

LEMMA RowCredited ==
  ASSUME NEW row \in PurseRow, NEW d \in Int, NEW new, new = Credited(row, d)
  PROVE  /\ new \in PurseRow
         /\ new.balance = row.balance + d /\ new.granted = row.granted + d
         /\ new.consumed = row.consumed /\ new.tail = row.tail + 1 /\ new.reserved = row.reserved
<1>1. row = [balance |-> row.balance, reserved |-> row.reserved, granted |-> row.granted,
             consumed |-> row.consumed, revision |-> row.revision, tail |-> row.tail]
  BY DEF PurseRow
<1>2. /\ row.balance \in Int /\ row.reserved \in Int /\ row.granted \in Int
      /\ row.consumed \in Int /\ row.revision \in Int /\ row.tail \in Int
  BY DEF PurseRow
<1>3. new = [balance |-> row.balance + d, reserved |-> row.reserved, granted |-> row.granted + d,
             consumed |-> row.consumed, revision |-> row.revision + 1, tail |-> row.tail + 1]
  BY <1>1 DEF Credited
<1>4. new \in PurseRow BY <1>2, <1>3 DEF PurseRow
<1> QED BY <1>3, <1>4

LEMMA RowClosed ==
  ASSUME NEW row \in PurseRow, NEW x \in Int, NEW k \in Int, NEW new, new = Closing(row, x, k)
  PROVE  /\ new \in PurseRow
         /\ new.balance = row.balance - x /\ new.granted = row.granted
         /\ new.consumed = row.consumed + x /\ new.tail = row.tail + 1
         /\ new.reserved = row.reserved - k
<1>1. row = [balance |-> row.balance, reserved |-> row.reserved, granted |-> row.granted,
             consumed |-> row.consumed, revision |-> row.revision, tail |-> row.tail]
  BY DEF PurseRow
<1>2. /\ row.balance \in Int /\ row.reserved \in Int /\ row.granted \in Int
      /\ row.consumed \in Int /\ row.revision \in Int /\ row.tail \in Int
  BY DEF PurseRow
<1>3. new = [balance |-> row.balance - x, reserved |-> row.reserved - k, granted |-> row.granted,
             consumed |-> row.consumed + x, revision |-> row.revision + 1, tail |-> row.tail + 1]
  BY <1>1 DEF Closing
<1>4. new \in PurseRow BY <1>2, <1>3 DEF PurseRow
<1> QED BY <1>3, <1>4

LEMMA ReserveCommitsKeeps ==
  ASSUME QuotaInv, NEW t \in Teller, ReserveCommits(t)
  PROVE  QuotaInv'
<1>1. PICK c : c = desk[t] OBVIOUS
<1>2. c.op = "reserve" /\ CallSound(c) /\ ReserveVerdict(c) = "applied"
  BY <1>1 DEF ReserveCommits, Pending, QuotaInv, DeskSound
<1>3. PICK r \in Purchase : r = c.request BY <1>2 DEF CallSound
<1>4. PICK n \in Nat : n = c.n BY <1>2 DEF CallSound
<1>5. PICK a \in Account : a = Payer[r] BY QuotaAssumption
<1>6. PICK row \in PurseRow : row = purse[a] BY DEF QuotaInv, QuotaTypes
<1>7. c.row = row /\ held[r].status = "none" /\ ~(row.balance - row.reserved < n)
  BY <1>2, <1>3, <1>4, <1>5, <1>6 DEF ReserveVerdict
<1>8. PICK new : new = Reserving(row, n) OBVIOUS
<1>9. /\ held' = [held EXCEPT ![r] = [status |-> "active", tokens |-> n]]
      /\ purse' = [purse EXCEPT ![a] = new]
      /\ desk' = [desk EXCEPT ![t] = Idle] /\ entries' = entries /\ UNCHANGED <<voucherVars, imageVars>>
  BY <1>1, <1>3, <1>4, <1>5, <1>7, <1>8 DEF ReserveCommits, Done, Reserving
<1>10. /\ new \in PurseRow /\ new.balance = row.balance /\ new.granted = row.granted
       /\ new.consumed = row.consumed /\ new.tail = row.tail /\ new.reserved = row.reserved + n
  BY <1>8, RowReserved
<1>11. QuotaTypes'
  <2>1. purse' \in [Account -> PurseRow] BY <1>9, <1>10 DEF QuotaInv, QuotaTypes
  <2>2. held' \in [Purchase -> HeldRow] BY <1>9 DEF QuotaInv, QuotaTypes, HeldRow
  <2> QED BY <1>9, <2>1, <2>2 DEF QuotaInv, QuotaTypes, voucherVars, imageVars
<1>12. DeskSound' BY <1>9, DeskEnds DEF QuotaInv
<1>13. \A b \in Account : purse'[b] = IF b = a THEN new ELSE purse[b]
  BY <1>9 DEF QuotaInv, QuotaTypes
<1>14. ChainSound'
  BY <1>6, <1>9, <1>10, <1>13 DEF QuotaInv, ChainSound
<1>15. \A q \in Purchase : held'[q] = IF q = r THEN [status |-> "active", tokens |-> n] ELSE held[q]
  BY <1>9 DEF QuotaInv, QuotaTypes
<1>16. ReservedSound'
  <2> SUFFICES ASSUME NEW b \in Account
               PROVE  /\ IsFiniteSet(Active(b)') /\ purse'[b].reserved = Net(HeldTokens(b)')
                      /\ 0 <= purse'[b].reserved /\ purse'[b].reserved <= purse'[b].balance
    BY DEF ReservedSound
  <2>1. /\ IsFiniteSet(Active(b)) /\ purse[b].reserved = Net(HeldTokens(b))
        /\ 0 <= purse[b].reserved /\ purse[b].reserved <= purse[b].balance
    BY DEF QuotaInv, ReservedSound
  <2>2. CASE b # a
    <3>1. Active(b)' = Active(b) BY <1>5, <1>15, <2>2 DEF Active
    <3>2. HeldTokens(b)' = HeldTokens(b)
      BY <1>5, <1>15, <2>2, <3>1 DEF HeldTokens, Active
    <3> QED BY <1>13, <2>1, <2>2, <3>1, <3>2
  <2>3. CASE b = a
    <3>1. Active(b)' = Active(b) \cup {r} /\ r \notin Active(b)
      BY <1>5, <1>7, <1>15, <2>3 DEF Active
    <3>2. PICK D : D = Active(b) OBVIOUS
    <3>3. PICK f : f = HeldTokens(b) OBVIOUS
    <3>4. PICK g : g = HeldTokens(b)' OBVIOUS
    <3>5. f = [q \in D |-> held[q].tokens] /\ g = [q \in D \cup {r} |-> held'[q].tokens]
      BY <3>1, <3>2, <3>3, <3>4 DEF HeldTokens
    <3>6. \A q \in D : q \in Purchase /\ q # r BY <3>1, <3>2 DEF Active
    <3>7. \A q \in Purchase : held[q].tokens \in Nat BY DEF QuotaInv, QuotaTypes, HeldRow
    <3>8. f \in [D -> Int] /\ DOMAIN f = D BY <3>5, <3>6, <3>7
    <3>9. \A q \in D : g[q] = f[q] BY <1>15, <3>5, <3>6
    <3>10. g[r] = n BY <1>15, <3>5
    <3>11. g \in [D \cup {r} -> Int] BY <3>5, <3>8, <3>9, <3>10
    <3>12. OneMore(f, g, r) BY <2>1, <3>1, <3>2, <3>8, <3>9, <3>11 DEF OneMore
    <3>13. Net(g) = Net(f) + g[r] BY <3>12, SumsAdd
    <3>14. new.reserved = Net(g) BY <1>6, <1>10, <2>1, <2>3, <3>3, <3>10, <3>13
    <3>15. row.balance \in Int /\ row.reserved \in Int BY DEF PurseRow
    <3>16. 0 <= new.reserved /\ new.reserved <= new.balance
      BY <1>6, <1>7, <1>10, <2>1, <2>3, <3>15
    <3>17. IsFiniteSet(Active(b) \cup {r}) BY <2>1, FS_AddElement
    <3> QED BY <1>13, <2>3, <3>1, <3>4, <3>14, <3>16, <3>17
  <2> QED BY <2>2, <2>3
<1>17. ImagesSound' /\ GrantsOnce' /\ VouchersOnce' BY <1>9, QuotaFrames DEF QuotaInv
<1>18. ChargesOnce'
  <2>1. \A q \in Purchase : ChargesOf(q)' = ChargesOf(q) BY <1>9 DEF ChargesOf
  <2> QED BY <1>7, <1>15, <2>1 DEF QuotaInv, ChargesOnce
<1> QED BY <1>11, <1>12, <1>14, <1>16, <1>17, <1>18 DEF QuotaInv

LEMMA SmallerOfTwo ==
  ASSUME NEW x \in Int, NEW y \in Int
  PROVE  Min({x, y}) \in {x, y} /\ Min({x, y}) <= x /\ Min({x, y}) <= y
<1>1. \E m \in {x, y} : \A z \in {x, y} : m <= z OBVIOUS
<1> QED BY <1>1 DEF Min

\* A charge never takes what other requests have reserved.
LEMMA ChargedBound ==
  ASSUME NEW c, NEW row \in PurseRow, NEW k \in Nat, c.row = row, c.reservation.tokens = k,
         c.n \in Nat, row.reserved <= row.balance
  PROVE  /\ Charged(c) \in Int /\ 0 <= Charged(c)
         /\ Charged(c) <= row.balance - (row.reserved - k)
<1>1. row.balance \in Int /\ row.reserved \in Int BY DEF PurseRow
<1>2. PICK y \in Int : y = row.balance - (row.reserved - k) BY <1>1
<1>3. PICK x \in Nat : x = c.n OBVIOUS
<1>4. 0 <= y BY <1>1, <1>2
<1>5. CASE c.op = "fail" BY <1>2, <1>4, <1>5 DEF Charged
<1>6. CASE c.op # "fail"
  <2>1. Charged(c) = Min({x, y}) BY <1>2, <1>3, <1>6 DEF Charged
  <2>2. Min({x, y}) \in {x, y} /\ Min({x, y}) <= x /\ Min({x, y}) <= y BY SmallerOfTwo
  <2> QED BY <1>2, <1>4, <2>1, <2>2
<1> QED BY <1>5, <1>6

LEMMA FinishCommitsKeeps ==
  ASSUME QuotaInv, NEW t \in Teller, FinishCommits(t)
  PROVE  QuotaInv'
<1>1. PICK c : c = desk[t] OBVIOUS
<1>2. c.op \in {"settle", "fail"} /\ CallSound(c) /\ FinishVerdict(c) = "applied"
  BY <1>1 DEF FinishCommits, Pending, QuotaInv, DeskSound
<1>3. PICK r \in Purchase : r = c.request BY <1>2 DEF CallSound
<1>4. c.n \in Nat /\ c.reservation.status = "active" BY <1>2 DEF CallSound
<1>5. PICK a \in Account : a = Payer[r] BY QuotaAssumption
<1>6. PICK row \in PurseRow : row = purse[a] BY DEF QuotaInv, QuotaTypes
<1>7. c.row = row /\ held[r] = c.reservation /\ held[r].status = "active"
  BY <1>2, <1>3, <1>4, <1>5, <1>6 DEF FinishVerdict
<1>8. PICK k \in Nat : k = held[r].tokens BY DEF QuotaInv, QuotaTypes, HeldRow
<1>9. /\ row.balance = row.granted - row.consumed
      /\ row.reserved = Net(HeldTokens(a)) /\ 0 <= row.reserved /\ row.reserved <= row.balance
      /\ IsFiniteSet(Active(a))
  BY <1>6 DEF QuotaInv, ChainSound, ReservedSound
<1>10. c.reservation.tokens = k BY <1>7, <1>8
<1>11. /\ Charged(c) \in Int /\ 0 <= Charged(c) /\ Charged(c) <= row.balance - (row.reserved - k)
  BY <1>4, <1>7, <1>9, <1>10, ChargedBound
<1>12. PICK x \in Int : x = Charged(c) BY <1>11
<1>13. PICK new : new = Closing(row, x, k) OBVIOUS
<1>14. PICK kind \in {"usage", "usage_failed"} : kind = FinishKind(c.op) BY DEF FinishKind
<1>15. PICK line : line = [kind |-> kind, ref |-> <<r>>, amount |-> 0 - x, previous |-> row.tail]
  OBVIOUS
<1>16. PICK status \in {"settled", "released"} :
         status = IF c.op = "settle" THEN "settled" ELSE "released"
  OBVIOUS
<1>17. Write(a, new, line)
  <2>1. Closed(c) = new BY <1>7, <1>10, <1>12, <1>13 DEF Closed, Closing
  <2>2. Line(FinishKind(c.op), <<c.request>>, 0 - Charged(c), c.row) = line
    BY <1>3, <1>7, <1>12, <1>14, <1>15 DEF Line
  <2>3. Write(Payer[c.request], Closed(c), Line(FinishKind(c.op), <<c.request>>, 0 - Charged(c), c.row))
    BY <1>1 DEF FinishCommits
  <2> QED BY <1>3, <1>5, <2>1, <2>2, <2>3
<1>18. /\ held' = [held EXCEPT ![r].status = status]
       /\ desk' = [desk EXCEPT ![t] = Idle] /\ UNCHANGED <<voucherVars, imageVars>>
  BY <1>1, <1>3, <1>16 DEF FinishCommits, Done
<1>19. /\ new \in PurseRow /\ new.balance = row.balance - x /\ new.granted = row.granted
       /\ new.consumed = row.consumed + x /\ new.tail = row.tail + 1
       /\ new.reserved = row.reserved - k
  BY <1>13, RowClosed
<1>20. /\ row.balance \in Int /\ row.reserved \in Int /\ row.granted \in Int
       /\ row.consumed \in Int /\ row.tail \in Int
  BY DEF PurseRow
<1>21. /\ line \in LedgerLine /\ line.kind = kind /\ line.ref = <<r>>
       /\ line.amount = 0 - x /\ line.previous = row.tail
  BY <1>15, <1>20 DEF LedgerLine, QuotaRefs
<1>22. LineAdded(a, line) BY <1>17 DEF Write, LineAdded
<1>23. QuotaTypes /\ ChainSound BY DEF QuotaInv
<1>24. \A q \in Purchase : held'[q] = IF q = r THEN [status |-> status, tokens |-> k] ELSE held[q]
  BY <1>8, <1>18, <1>23 DEF QuotaTypes, HeldRow
<1>25. QuotaTypes'
  <2>1. purse' \in [Account -> PurseRow] BY <1>17, <1>19, <1>23 DEF QuotaTypes, Write
  <2>2. entries' \in [Account -> Seq(LedgerLine)] BY <1>21, <1>22, <1>23 DEF QuotaTypes, LineAdded
  <2>3. held' \in [Purchase -> HeldRow]
    <3>1. held' = [q \in Purchase |-> held'[q]] BY <1>18, <1>23 DEF QuotaTypes
    <3>2. \A q \in Purchase : held[q] \in HeldRow BY <1>23 DEF QuotaTypes
    <3>3. [status |-> status, tokens |-> k] \in HeldRow BY DEF HeldRow
    <3>4. \A q \in Purchase : held'[q] \in HeldRow BY <1>24, <3>2, <3>3
    <3> QED BY <3>1, <3>4
  <2> QED BY <1>18, <1>23, <2>1, <2>2, <2>3 DEF QuotaTypes, voucherVars, imageVars
<1>26. DeskSound' BY <1>18, DeskEnds DEF QuotaInv
<1>27. ChainSound'
  <2>1. line.previous = purse[a].tail /\ new.tail = purse[a].tail + 1 BY <1>6, <1>19, <1>21
  <2>2. new.balance = purse[a].balance + line.amount BY <1>6, <1>19, <1>20, <1>21
  <2>3. new.balance = new.granted - new.consumed BY <1>9, <1>19, <1>20
  <2> QED BY <1>17, <1>19, <1>21, <1>23, <2>1, <2>2, <2>3, ChainWritten
<1>28. \A b \in Account : purse'[b] = IF b = a THEN new ELSE purse[b]
  BY <1>17, <1>23 DEF QuotaTypes, Write
<1>29. ReservedSound'
  <2> SUFFICES ASSUME NEW b \in Account
               PROVE  /\ IsFiniteSet(Active(b)') /\ purse'[b].reserved = Net(HeldTokens(b)')
                      /\ 0 <= purse'[b].reserved /\ purse'[b].reserved <= purse'[b].balance
    BY DEF ReservedSound
  <2>1. /\ IsFiniteSet(Active(b)) /\ purse[b].reserved = Net(HeldTokens(b))
        /\ 0 <= purse[b].reserved /\ purse[b].reserved <= purse[b].balance
    BY DEF QuotaInv, ReservedSound
  <2>2. CASE b # a
    <3>1. Active(b)' = Active(b) BY <1>5, <1>24, <2>2 DEF Active
    <3>2. HeldTokens(b)' = HeldTokens(b)
      BY <1>5, <1>24, <2>2, <3>1 DEF HeldTokens, Active
    <3> QED BY <1>28, <2>1, <2>2, <3>1, <3>2
  <2>3. CASE b = a
    <3>1. Active(b) = Active(b)' \cup {r} /\ r \notin Active(b)'
      BY <1>5, <1>7, <1>24, <2>3 DEF Active
    <3>2. PICK D : D = Active(b)' OBVIOUS
    <3>3. PICK f : f = HeldTokens(b)' OBVIOUS
    <3>4. PICK g : g = HeldTokens(b) OBVIOUS
    <3>5. f = [q \in D |-> held'[q].tokens] /\ g = [q \in D \cup {r} |-> held[q].tokens]
      BY <3>1, <3>2, <3>3, <3>4 DEF HeldTokens
    <3>6. \A q \in D : q \in Purchase /\ q # r BY <3>1, <3>2 DEF Active
    <3>7. \A q \in Purchase : held[q].tokens \in Nat BY DEF QuotaInv, QuotaTypes, HeldRow
    <3>8. f \in [D -> Nat] /\ DOMAIN f = D BY <1>24, <3>5, <3>6, <3>7
    <3>9. \A q \in D : g[q] = f[q] BY <1>24, <3>5, <3>6
    <3>10. g[r] = k BY <1>8, <3>5
    <3>11. g \in [D \cup {r} -> Int] BY <3>5, <3>8, <3>9, <3>10
    <3>12. IsFiniteSet(D) BY <2>1, <3>1, <3>2, FS_Subset
    <3>13. OneMore(f, g, r) BY <3>1, <3>2, <3>8, <3>9, <3>11, <3>12 DEF OneMore
    <3>14. Net(g) = Net(f) + g[r] BY <3>13, SumsAdd
    <3>15. Net(f) \in Nat BY <3>8, <3>12, NetOfNaturals
    <3>16. row.reserved = Net(g) BY <1>9, <2>3, <3>4
    <3>17. new.reserved = Net(f) BY <1>19, <1>20, <3>10, <3>14, <3>15, <3>16
    <3>18. 0 <= new.reserved /\ new.reserved <= new.balance
      BY <1>11, <1>12, <1>19, <1>20, <3>15, <3>17
    <3> QED BY <1>28, <2>3, <3>2, <3>3, <3>12, <3>17, <3>18
  <2> QED BY <2>2, <2>3
<1>30. ImagesSound' BY <1>18, QuotaFrames DEF QuotaInv
<1>31. GrantsOnce' /\ VouchersOnce'
  <2>1. line.kind # "grant" BY <1>21
  <2>2. UNCHANGED voucherVars BY <1>18
  <2> QED BY <1>21, <1>22, <2>1, <2>2, OtherLines
<1>32. ChargesOnce'
  <2>1. ASSUME NEW q \in Purchase, q # r PROVE ChargesOf(q)' = ChargesOf(q)
    <3>1. PICK b \in Account : b = Payer[q] BY QuotaAssumption
    <3>2. line.ref # <<q>> BY <1>21, <2>1
    <3>3. EntriesIn(entries'[b], "usage", <<q>>) = EntriesIn(entries[b], "usage", <<q>>)
      BY <1>21, <1>22, <1>23, <3>2, LinesAfter
    <3>4. EntriesIn(entries'[b], "usage_failed", <<q>>) = EntriesIn(entries[b], "usage_failed", <<q>>)
      BY <1>21, <1>22, <1>23, <3>2, LinesAfter
    <3> QED BY <3>1, <3>3, <3>4 DEF ChargesOf
  <2>2. Single(ChargesOf(r)')
    <3>1. ChargesOf(r) = {} BY <1>7 DEF QuotaInv, ChargesOnce
    <3>2. EntriesIn(entries[a], "usage", <<r>>) = {} /\ EntriesIn(entries[a], "usage_failed", <<r>>) = {}
      BY <1>5, <3>1 DEF ChargesOf
    <3>3. CASE kind = "usage"
      <4>1. Single(EntriesIn(entries'[a], "usage", <<r>>))
        BY <1>21, <1>22, <1>23, <3>2, <3>3, LinesAfter
      <4>2. EntriesIn(entries'[a], "usage_failed", <<r>>) = EntriesIn(entries[a], "usage_failed", <<r>>)
        <5>1. line.kind # "usage_failed" BY <1>21, <3>3
        <5> QED BY <1>21, <1>22, <1>23, <5>1, LinesAfter
      <4>3. EntriesIn(entries'[a], "usage", <<r>>) \cup {} = EntriesIn(entries'[a], "usage", <<r>>)
        OBVIOUS
      <4> QED BY <1>5, <3>2, <4>1, <4>2, <4>3 DEF ChargesOf
    <3>4. CASE kind = "usage_failed"
      <4>1. Single(EntriesIn(entries'[a], "usage_failed", <<r>>))
        BY <1>21, <1>22, <1>23, <3>2, <3>4, LinesAfter
      <4>2. EntriesIn(entries'[a], "usage", <<r>>) = EntriesIn(entries[a], "usage", <<r>>)
        <5>1. line.kind # "usage" BY <1>21, <3>4
        <5> QED BY <1>21, <1>22, <1>23, <5>1, LinesAfter
      <4>3. {} \cup EntriesIn(entries'[a], "usage_failed", <<r>>) = EntriesIn(entries'[a], "usage_failed", <<r>>)
        OBVIOUS
      <4> QED BY <1>5, <3>2, <4>1, <4>2, <4>3 DEF ChargesOf
    <3> QED BY <3>3, <3>4
  <2>3. held'[r].status \in {"settled", "released"} BY <1>24
  <2>4. \A q \in Purchase : q # r => held'[q] = held[q] BY <1>24
  <2> QED BY <2>1, <2>2, <2>3, <2>4 DEF QuotaInv, ChargesOnce
<1> QED BY <1>25, <1>26, <1>27, <1>29, <1>30, <1>31, <1>32 DEF QuotaInv

\* The images of a member are adjusted, with the entry that accounts for it.
ImagesAdjusted(a, id, d) ==
  /\ album' = [album EXCEPT ![a] = Adjusted(album[a], d)]
  /\ LogImages(id, "adjust", a, d) /\ ~Logged(id) /\ hold' = hold

LEMMA AlbumRows ==
  ASSUME NEW row \in AlbumRow \cup {NoRow}, NEW d \in Int
  PROVE  /\ Adjusted(row, d) \in AlbumRow /\ Adjusted(row, d) # NoRow
         /\ row = NoRow => /\ Adjusted(row, d).available = d /\ Adjusted(row, d).reserved = 0
                           /\ Adjusted(row, d).consumed = 0
         /\ row # NoRow => /\ Adjusted(row, d).available = row.available + d
                           /\ Adjusted(row, d).reserved = row.reserved
                           /\ Adjusted(row, d).consumed = row.consumed
                           /\ row \in AlbumRow
<1>1. \A x \in AlbumRow : x # NoRow BY QuotaAssumption DEF AlbumRow
<1>2. CASE row = NoRow
  <2>1. Adjusted(row, d) = [available |-> d, reserved |-> 0, consumed |-> 0, revision |-> 0]
    BY <1>2 DEF Adjusted
  <2>2. Adjusted(row, d) \in AlbumRow BY <2>1 DEF AlbumRow
  <2> QED BY <1>1, <1>2, <2>1, <2>2
<1>3. CASE row # NoRow
  <2>0. row \in AlbumRow BY <1>3
  <2>1. /\ row = [available |-> row.available, reserved |-> row.reserved,
                  consumed |-> row.consumed, revision |-> row.revision]
        /\ row.available \in Int /\ row.reserved \in Int /\ row.consumed \in Int /\ row.revision \in Int
    BY <2>0 DEF AlbumRow
  <2>2. Adjusted(row, d) = [available |-> row.available + d, reserved |-> row.reserved,
                            consumed |-> row.consumed, revision |-> row.revision + 1]
    BY <1>3, <2>1 DEF Adjusted
  <2>3. Adjusted(row, d) \in AlbumRow BY <2>1, <2>2 DEF AlbumRow
  <2> QED BY <1>1, <1>3, <2>0, <2>2, <2>3
<1> QED BY <1>2, <1>3

LEMMA ImagesKept ==
  ASSUME QuotaTypes, ImagesSound, NEW a \in Account, NEW id, NEW d \in Int,
         ImagesAdjusted(a, id, d), Available(album[a]) + d >= 0
  PROVE  ImagesSound' /\ album' \in [Account -> AlbumRow \cup {NoRow}]
<1>1. PICK row \in AlbumRow \cup {NoRow} : row = album[a] BY DEF QuotaTypes
<1>2. PICK new : new = Adjusted(row, d) OBVIOUS
<1>3. PICK e : e = [id |-> id, kind |-> "adjust", account |-> a, amount |-> d] OBVIOUS
<1>4. imageLog' = imageLog \cup {e} /\ hold' = hold BY <1>3 DEF ImagesAdjusted, LogImages
<1>5. e \notin imageLog /\ e.amount = d /\ e.kind = "adjust" /\ e.account = a
  BY <1>3 DEF ImagesAdjusted, Logged
<1>6. \A b \in Account : album'[b] = IF b = a THEN new ELSE album[b]
  BY <1>1, <1>2 DEF ImagesAdjusted, QuotaTypes
<1>7. /\ new \in AlbumRow /\ new # NoRow
      /\ row = NoRow => new.available = d /\ new.reserved = 0 /\ new.consumed = 0
      /\ row # NoRow => /\ new.available = row.available + d /\ new.reserved = row.reserved
                        /\ new.consumed = row.consumed /\ row \in AlbumRow
  BY <1>2, AlbumRows
<1>8. album' \in [Account -> AlbumRow \cup {NoRow}]
  <2>1. album' = [b \in Account |-> album'[b]] BY DEF ImagesAdjusted, QuotaTypes
  <2>2. \A b \in Account : album'[b] \in AlbumRow \cup {NoRow} BY <1>6, <1>7 DEF QuotaTypes
  <2> QED BY <2>1, <2>2
<1>9. \A x \in imageLog' : x.amount \in Int BY <1>4, <1>5 DEF ImagesSound
<1>10. ASSUME NEW b \in Account
       PROVE  /\ IsFiniteSet(AdjustedOf(b)')
              /\ album'[b] = NoRow => hold'[b] = NoRow /\ AdjustedOf(b)' = {}
              /\ album'[b] # NoRow =>
                   /\ album'[b].available >= 0
                   /\ album'[b].available + album'[b].reserved + album'[b].consumed
                        = Net(AdjustedAmounts(b)')
                   /\ album'[b].reserved = IF hold'[b] = NoRow THEN 0
                                           ELSE hold'[b].reserved - hold'[b].released
  <2>1. /\ IsFiniteSet(AdjustedOf(b))
        /\ album[b] = NoRow => hold[b] = NoRow /\ AdjustedOf(b) = {}
        /\ album[b] # NoRow =>
             /\ album[b].available >= 0
             /\ album[b].available + album[b].reserved + album[b].consumed
                  = Net(AdjustedAmounts(b))
             /\ album[b].reserved = IF hold[b] = NoRow THEN 0
                                    ELSE hold[b].reserved - hold[b].released
    BY DEF ImagesSound
  <2>2. CASE b # a
    <3>1. AdjustedOf(b)' = AdjustedOf(b) BY <1>4, <1>5, <2>2 DEF AdjustedOf
    <3>2. AdjustedAmounts(b)' = AdjustedAmounts(b) BY <3>1 DEF AdjustedAmounts
    <3>3. album'[b] = album[b] /\ hold'[b] = hold[b] BY <1>4, <1>6, <2>2
    <3> QED BY <2>1, <3>1, <3>2, <3>3
  <2>3. CASE b = a
    <3>1. PICK D : D = AdjustedOf(b) OBVIOUS
    <3>2. AdjustedOf(b)' = D \cup {e} /\ e \notin D BY <1>4, <1>5, <2>3, <3>1 DEF AdjustedOf
    <3>3. PICK f : f = AdjustedAmounts(b) OBVIOUS
    <3>4. PICK g : g = AdjustedAmounts(b)' OBVIOUS
    <3>5. f = [x \in D |-> x.amount] /\ g = [x \in D \cup {e} |-> x.amount]
      BY <3>1, <3>2, <3>3, <3>4 DEF AdjustedAmounts
    <3>6. \A x \in D : x.amount \in Int BY <3>1 DEF ImagesSound, AdjustedOf
    <3>7. f \in [D -> Int] /\ g \in [D \cup {e} -> Int] /\ DOMAIN f = D BY <1>5, <3>5, <3>6
    <3>8. g[e] = d /\ \A x \in D : g[x] = f[x] BY <1>5, <3>5
    <3>9. OneMore(f, g, e) BY <2>1, <3>1, <3>2, <3>7, <3>8 DEF OneMore
    <3>10. Net(g) = Net(f) + g[e] BY <3>9, SumsAdd
    <3>11. IsFiniteSet(D \cup {e}) BY <2>1, <3>1, FS_AddElement
    <3>12. album'[b] = new /\ new # NoRow BY <1>6, <1>7, <2>3
    <3>13. CASE row = NoRow
      <4>1. hold[b] = NoRow /\ D = {} BY <1>1, <2>1, <2>3, <3>1, <3>13
      <4>2. Net(f) = 0 BY <3>7, <4>1, NetNothing
      <4>3. new.available >= 0 BY <1>1, <1>7, <3>13 DEF Available
      <4>4. new.available + new.reserved + new.consumed = Net(g) BY <1>7, <3>8, <3>10, <3>13, <4>2
      <4>5. new.reserved = 0 BY <1>7, <3>13
      <4> QED BY <1>4, <3>2, <3>4, <3>11, <3>12, <4>1, <4>3, <4>4, <4>5
    <3>14. CASE row # NoRow
      <4>0. row.available \in Int /\ row.reserved \in Int /\ row.consumed \in Int
        BY <1>7, <3>14 DEF AlbumRow
      <4>1. new.available >= 0 BY <1>1, <1>7, <3>14 DEF Available
      <4>2. new.available + new.reserved + new.consumed = Net(g)
        <5>1. row.available + row.reserved + row.consumed = Net(f) BY <1>1, <2>1, <2>3, <3>3, <3>14
        <5> QED BY <1>7, <3>8, <3>10, <3>14, <4>0, <5>1
      <4>3. new.reserved = IF hold[b] = NoRow THEN 0 ELSE hold[b].reserved - hold[b].released
        BY <1>1, <1>7, <2>1, <2>3, <3>14
      <4> QED BY <1>4, <3>2, <3>4, <3>11, <3>12, <4>1, <4>2, <4>3
    <3> QED BY <3>13, <3>14
  <2> QED BY <2>2, <2>3
<1>11. \A b \in Account : hold'[b] # NoRow <=> OldImages[b] # 0 BY <1>4 DEF ImagesSound
<1> QED BY <1>8, <1>9, <1>10, <1>11 DEF ImagesSound

\* A grant to a member, of an administrator or with a voucher.
Granted(a, ref, n) == Write(a, Credited(purse[a], n), Line("grant", ref, n, purse[a]))
GrantLine(a, ref, n) == [kind |-> "grant", ref |-> ref, amount |-> n, previous |-> purse[a].tail]

LEMMA GrantWritten ==
  ASSUME QuotaInv, NEW a \in Account, NEW n \in Nat, NEW ref \in QuotaRefs, Granted(a, ref, n),
         held' = held
  PROVE  /\ ChainSound' /\ ReservedSound' /\ ChargesOnce'
         /\ purse' \in [Account -> PurseRow] /\ entries' \in [Account -> Seq(LedgerLine)]
         /\ LineAdded(a, GrantLine(a, ref, n)) /\ GrantLine(a, ref, n) \in LedgerLine
<1>1. QuotaTypes /\ ChainSound /\ ReservedSound BY DEF QuotaInv
<1>2. PICK row \in PurseRow : row = purse[a] BY <1>1 DEF QuotaTypes
<1>3. PICK new : new = Credited(row, n) OBVIOUS
<1>4. /\ new \in PurseRow /\ new.balance = row.balance + n /\ new.granted = row.granted + n
      /\ new.consumed = row.consumed /\ new.tail = row.tail + 1 /\ new.reserved = row.reserved
  BY <1>3, RowCredited
<1>5. /\ row.balance \in Int /\ row.granted \in Int /\ row.consumed \in Int /\ row.tail \in Int
  BY DEF PurseRow
<1>6. PICK line : line = [kind |-> "grant", ref |-> ref, amount |-> n, previous |-> row.tail] OBVIOUS
<1>7. /\ line \in LedgerLine /\ line.kind = "grant" /\ line.amount = n /\ line.previous = row.tail
  BY <1>5, <1>6 DEF LedgerLine
<1>8. Write(a, new, line) BY <1>2, <1>3, <1>6 DEF Granted, Line
<1>9. LineAdded(a, line) /\ purse' = [purse EXCEPT ![a] = new] BY <1>8 DEF Write, LineAdded
<1>10. ChainSound'
  <2>1. row.balance = row.granted - row.consumed BY <1>1, <1>2 DEF ChainSound
  <2>2. new.balance = new.granted - new.consumed BY <1>4, <1>5, <2>1
  <2> QED BY <1>1, <1>2, <1>4, <1>7, <1>8, <2>2, ChainWritten
<1>11. ReservedSound'
  <2>1. new.balance >= row.balance BY <1>4, <1>5
  <2> QED BY <1>1, <1>2, <1>4, <1>9, <2>1, ReservedGrows
<1>12. ChargesOnce' BY <1>7, <1>9, OtherLines
<1>13. purse' \in [Account -> PurseRow] BY <1>1, <1>4, <1>9 DEF QuotaTypes
<1>14. entries' \in [Account -> Seq(LedgerLine)] BY <1>1, <1>7, <1>9 DEF QuotaTypes, LineAdded
<1>15. GrantLine(a, ref, n) = line BY <1>2, <1>6 DEF GrantLine
<1> QED BY <1>7, <1>9, <1>10, <1>11, <1>12, <1>13, <1>14, <1>15

\* A grant that is not in the ledger is in it once afterwards.
LEMMA GrantEntered ==
  ASSUME QuotaInv, NEW a \in Account, NEW g \in Grant, NEW n \in Nat, held' = held,
         NEW ref \in QuotaRefs, ref = <<"admin", g>>,
         Granted(a, ref, n), ~Entered(a, "grant", ref), UNCHANGED voucherVars
  PROVE  GrantsOnce' /\ VouchersOnce'
<1>1. PICK line \in LedgerLine : line = GrantLine(a, ref, n) /\ LineAdded(a, line) BY GrantWritten
<1>2. line.kind = "grant" /\ line.ref = <<"admin", g>> BY <1>1 DEF GrantLine
<1>3. QuotaTypes /\ GrantsOnce BY DEF QuotaInv
<1>4. VouchersOnce' BY <1>1, <1>2, OtherLines
<1>5. EntriesIn(entries[a], "grant", <<"admin", g>>) = {} BY DEF Entered, EntriesIn
<1>6. ASSUME NEW b \in Account, NEW h \in Grant
      PROVE  \/ EntriesIn(entries'[b], "grant", <<"admin", h>>) = {}
             \/ Single(EntriesIn(entries'[b], "grant", <<"admin", h>>))
  <2>1. CASE b = a /\ h = g
    <3>1. Single(EntriesIn(entries'[a], "grant", <<"admin", g>>)) BY <1>1, <1>2, <1>3, <1>5, LinesAfter
    <3> QED BY <2>1, <3>1
  <2>2. CASE ~(b = a /\ h = g)
    <3>1. b # a \/ line.ref # <<"admin", h>> BY <1>2, <2>2
    <3>2. EntriesIn(entries'[b], "grant", <<"admin", h>>) = EntriesIn(entries[b], "grant", <<"admin", h>>)
      BY <1>1, <1>3, <3>1, LinesAfter
    <3> QED BY <1>3, <3>2 DEF GrantsOnce
  <2> QED BY <2>1, <2>2
<1> QED BY <1>4, <1>6 DEF GrantsOnce

LEMMA GrantCommitsKeeps ==
  ASSUME QuotaInv, NEW t \in Teller, GrantCommits(t)
  PROVE  QuotaInv'
<1>1. PICK c : c = desk[t] OBVIOUS
<1>2. c.op = "grant" /\ CallSound(c) /\ GrantVerdict(c) = "applied"
  BY <1>1 DEF GrantCommits, Pending, QuotaInv, DeskSound
<1>3. PICK a \in Account : a = c.account BY <1>2 DEF CallSound
<1>4. PICK g \in Grant : g = c.ref BY <1>2 DEF CallSound
<1>5. PICK n \in Nat : n = c.n BY <1>2 DEF CallSound
<1>6. PICK d \in Int : d = c.d /\ d \in {0, 1} BY <1>2 DEF CallSound
<1>7. PICK ref \in QuotaRefs : ref = <<"admin", g>> BY DEF QuotaRefs
<1>8. /\ n > 0 => purse[a] = c.row /\ ~Entered(a, "grant", ref)
      /\ d # 0 => album[a] = c.image /\ ~Logged(<<"grant", g>>)
  BY <1>2, <1>3, <1>4, <1>5, <1>6, <1>7 DEF GrantVerdict
<1>9. /\ held' = held /\ UNCHANGED voucherVars /\ hold' = hold /\ desk' = [desk EXCEPT ![t] = Idle]
  BY <1>1 DEF GrantCommits, Done
<1>10. /\ n = 0 => UNCHANGED tokenVars
       /\ n # 0 => Write(a, Credited(c.row, n), Line("grant", ref, n, c.row))
  BY <1>1, <1>3, <1>4, <1>5, <1>7 DEF GrantCommits
<1>11. /\ d = 0 => UNCHANGED <<album, imageLog>>
       /\ d # 0 => /\ album' = [album EXCEPT ![a] = Adjusted(c.image, d)]
                   /\ LogImages(<<"grant", g>>, "adjust", a, d)
  BY <1>1, <1>3, <1>4, <1>6 DEF GrantCommits
<1>12. QuotaTypes /\ ImagesSound BY DEF QuotaInv
<1>13. DeskSound' BY <1>9, DeskEnds DEF QuotaInv
<1>14. /\ ChainSound' /\ ReservedSound' /\ ChargesOnce' /\ GrantsOnce' /\ VouchersOnce'
       /\ purse' \in [Account -> PurseRow] /\ entries' \in [Account -> Seq(LedgerLine)]
  <2>1. CASE n = 0
    <3>1. UNCHANGED <<purse, entries>> BY <1>10, <2>1 DEF tokenVars
    <3>2. UNCHANGED tokenVars BY <1>10, <2>1
    <3> QED BY <1>9, <1>12, <3>1, <3>2, QuotaFrames DEF QuotaInv, QuotaTypes
  <2>2. CASE n # 0
    <3>1. Granted(a, ref, n) /\ ~Entered(a, "grant", ref) BY <1>8, <1>10, <2>2 DEF Granted
    <3>2. GrantsOnce' /\ VouchersOnce' BY <1>7, <1>9, <3>1, GrantEntered
    <3> QED BY <1>9, <3>1, <3>2, GrantWritten
  <2> QED BY <2>1, <2>2
<1>15. ImagesSound' /\ album' \in [Account -> AlbumRow \cup {NoRow}]
  <2>1. CASE d = 0
    <3>1. UNCHANGED imageVars BY <1>9, <1>11, <2>1 DEF imageVars
    <3>2. album' = album BY <1>11, <2>1
    <3> QED BY <1>12, <3>1, <3>2, QuotaFrames DEF QuotaTypes
  <2>2. CASE d # 0
    <3>1. PICK id : id = <<"grant", g>> OBVIOUS
    <3>2. ImagesAdjusted(a, id, d) BY <1>8, <1>9, <1>11, <2>2, <3>1 DEF ImagesAdjusted
    <3>3. Available(album[a]) + d >= 0
      <4>1. album[a] # NoRow => album[a].available >= 0 /\ album[a] \in AlbumRow
        BY <1>12 DEF ImagesSound, QuotaTypes
      <4>2. d = 1 BY <1>6, <2>2
      <4> QED BY <4>1, <4>2 DEF Available, AlbumRow
    <3> QED BY <1>12, <3>2, <3>3, ImagesKept
  <2> QED BY <2>1, <2>2
<1>16. QuotaTypes' BY <1>9, <1>12, <1>14, <1>15 DEF QuotaTypes, voucherVars
<1> QED BY <1>13, <1>14, <1>15, <1>16 DEF QuotaInv

LEMMA AdjustCommitsKeeps ==
  ASSUME QuotaInv, NEW t \in Teller, AdjustCommits(t)
  PROVE  QuotaInv'
<1>1. PICK c : c = desk[t] OBVIOUS
<1>2. c.op = "adjust" /\ CallSound(c) /\ AdjustVerdict(c) = "applied"
  BY <1>1 DEF AdjustCommits, Pending, QuotaInv, DeskSound
<1>3. PICK a \in Account : a = c.account BY <1>2 DEF CallSound
<1>4. PICK d \in Int : d = c.d /\ Available(c.image) + d >= 0 BY <1>2 DEF CallSound
<1>5. PICK id : id = <<"adjust", c.id>> OBVIOUS
<1>6. album[a] = c.image /\ ~Logged(id) BY <1>2, <1>3, <1>5 DEF AdjustVerdict
<1>7. /\ album' = [album EXCEPT ![a] = Adjusted(c.image, d)] /\ LogImages(id, "adjust", a, d)
      /\ desk' = [desk EXCEPT ![t] = Idle] /\ UNCHANGED <<tokenVars, held, voucherVars, hold>>
  BY <1>1, <1>3, <1>4, <1>5 DEF AdjustCommits, Done
<1>8. ImagesAdjusted(a, id, d) BY <1>6, <1>7 DEF ImagesAdjusted
<1>9. ImagesSound' /\ album' \in [Account -> AlbumRow \cup {NoRow}]
  BY <1>4, <1>6, <1>8, ImagesKept DEF QuotaInv
<1>10. DeskSound' BY <1>7, DeskEnds DEF QuotaInv
<1>11. QuotaTypes' BY <1>7, <1>9 DEF QuotaInv, QuotaTypes, tokenVars, voucherVars
<1>12. /\ ChainSound' /\ ReservedSound' /\ ChargesOnce' /\ GrantsOnce' /\ VouchersOnce'
  BY <1>7, QuotaFrames DEF QuotaInv, tokenVars
<1> QED BY <1>9, <1>10, <1>11, <1>12 DEF QuotaInv

\* The rows that the release of one image writes.
ReleasedImage(row) == [row EXCEPT !.available = @ + 1, !.reserved = @ - 1, !.revision = @ + 1]
ReleasedHold(row) ==
  [row EXCEPT !.released = @ + 1, !.revision = @ + 1,
              !.status = IF row.released + 1 = row.reserved THEN "settled" ELSE @]

LEMMA ReleasedRows ==
  ASSUME NEW row \in AlbumRow, NEW old \in HoldRow
  PROVE  /\ ReleasedImage(row) \in AlbumRow /\ ReleasedImage(row) # NoRow
         /\ ReleasedImage(row).available = row.available + 1
         /\ ReleasedImage(row).reserved = row.reserved - 1
         /\ ReleasedImage(row).consumed = row.consumed
         /\ ReleasedHold(old) \in HoldRow /\ ReleasedHold(old) # NoRow
         /\ ReleasedHold(old).reserved = old.reserved
         /\ ReleasedHold(old).released = old.released + 1
<1>0. row.available \in Int /\ row.reserved \in Int /\ row.consumed \in Int /\ row.revision \in Int
  BY DEF AlbumRow
<1>1. row = [available |-> row.available, reserved |-> row.reserved,
             consumed |-> row.consumed, revision |-> row.revision]
  BY DEF AlbumRow
<1>2. ReleasedImage(row) = [available |-> row.available + 1, reserved |-> row.reserved - 1,
                            consumed |-> row.consumed, revision |-> row.revision + 1]
  <2>1. PICK p : p = row.available + 1 OBVIOUS
  <2>2. PICK q : q = row.reserved - 1 OBVIOUS
  <2>3. PICK s : s = row.revision + 1 OBVIOUS
  <2>4. ReleasedImage(row) = [row EXCEPT !.available = p, !.reserved = q, !.revision = s]
    BY <1>1, <2>1, <2>2, <2>3 DEF ReleasedImage
  <2> QED BY <1>1, <2>1, <2>2, <2>3, <2>4
<1>3. ReleasedImage(row) \in AlbumRow BY <1>0, <1>2 DEF AlbumRow
<1>4. /\ old.reserved \in Int /\ old.released \in Int /\ old.revision \in Int
      /\ old.status \in {"reserved", "settled"}
  BY DEF HoldRow
<1>5. PICK status \in {"reserved", "settled"} :
        status = IF old.released + 1 = old.reserved THEN "settled" ELSE old.status
  BY <1>4
<1>6. ReleasedHold(old) = [reserved |-> old.reserved, released |-> old.released + 1,
                           status |-> status, revision |-> old.revision + 1]
  <2>1. old = [reserved |-> old.reserved, released |-> old.released,
               status |-> old.status, revision |-> old.revision]
    BY DEF HoldRow
  <2>2. ReleasedHold(old) = [old EXCEPT !.released = @ + 1, !.revision = @ + 1, !.status = status]
    BY <1>5, <2>1 DEF ReleasedHold
  <2> QED BY <2>1, <2>2
<1>7. ReleasedHold(old) \in HoldRow BY <1>4, <1>6 DEF HoldRow
<1>8. ReleasedImage(row) # NoRow BY <1>3, QuotaAssumption DEF AlbumRow
<1>9. ReleasedHold(old) # NoRow BY <1>7, QuotaAssumption DEF HoldRow
<1> QED BY <1>2, <1>3, <1>6, <1>7, <1>8, <1>9

LEMMA ReleaseCommitsKeeps ==
  ASSUME QuotaInv, NEW t \in Teller, ReleaseCommits(t)
  PROVE  QuotaInv'
<1>1. PICK c : c = desk[t] OBVIOUS
<1>2. c.op = "release" /\ CallSound(c) /\ ReleaseVerdict(c) = "applied"
  BY <1>1 DEF ReleaseCommits, Pending, QuotaInv, DeskSound
<1>3. PICK a \in Account : a = c.account BY <1>2 DEF CallSound
<1>5. QuotaTypes /\ ImagesSound BY DEF QuotaInv
<1>4. album[a] = c.image /\ hold[a] = c.reservation /\ hold[a] # NoRow
  BY <1>2, <1>3, <1>5 DEF ReleaseVerdict, CallSound, ImagesSound
<1>6. album[a] # NoRow BY <1>4, <1>5 DEF ImagesSound
<1>7. PICK row \in AlbumRow : row = album[a] BY <1>5, <1>6 DEF QuotaTypes
<1>8. PICK old \in HoldRow : old = hold[a] BY <1>4, <1>5 DEF QuotaTypes
<1>9. PICK new : new = ReleasedImage(row) OBVIOUS
<1>10. PICK next : next = ReleasedHold(old) OBVIOUS
<1>11. PICK e : e = [id |-> Final(c.account, c.child), kind |-> "release", account |-> a, amount |-> 1]
  OBVIOUS
<1>12. /\ album' = [album EXCEPT ![a] = new] /\ hold' = [hold EXCEPT ![a] = next]
       /\ imageLog' = imageLog \cup {e}
  <2>1. album' = [album EXCEPT ![a] = new]
    BY <1>1, <1>3, <1>4, <1>7, <1>9 DEF ReleaseCommits, ReleasedImage
  <2>2. hold' = [hold EXCEPT ![a] = next]
    BY <1>1, <1>3, <1>4, <1>8, <1>10 DEF ReleaseCommits, ReleasedHold
  <2>3. imageLog' = imageLog \cup {e} BY <1>1, <1>3, <1>11 DEF ReleaseCommits, LogImages
  <2> QED BY <2>1, <2>2, <2>3
<1>13. desk' = [desk EXCEPT ![t] = Idle] /\ UNCHANGED <<tokenVars, held, voucherVars>>
  BY <1>1 DEF ReleaseCommits, Done
<1>14. /\ new \in AlbumRow /\ new # NoRow /\ new.available = row.available + 1
       /\ new.reserved = row.reserved - 1 /\ new.consumed = row.consumed
       /\ next \in HoldRow /\ next # NoRow /\ next.reserved = old.reserved
       /\ next.released = old.released + 1
  BY <1>9, <1>10, ReleasedRows
<1>15. \A b \in Account : /\ album'[b] = IF b = a THEN new ELSE album[b]
                          /\ hold'[b] = IF b = a THEN next ELSE hold[b]
  BY <1>5, <1>12 DEF QuotaTypes
<1>16. QuotaTypes'
  <2>1. album' \in [Account -> AlbumRow \cup {NoRow}] BY <1>5, <1>12, <1>14 DEF QuotaTypes
  <2>2. hold' \in [Account -> HoldRow \cup {NoRow}] BY <1>5, <1>12, <1>14 DEF QuotaTypes
  <2> QED BY <1>5, <1>13, <2>1, <2>2 DEF QuotaTypes, tokenVars, voucherVars
<1>17. e.kind = "release" /\ e.amount = 1 BY <1>11
<1>18. \A b \in Account : AdjustedOf(b)' = AdjustedOf(b) /\ AdjustedAmounts(b)' = AdjustedAmounts(b)
  BY <1>12, <1>17 DEF AdjustedOf, AdjustedAmounts
<1>19. ImagesSound'
  <2>1. \A x \in imageLog' : x.amount \in Int BY <1>5, <1>12, <1>17 DEF ImagesSound
  <2>2. ASSUME NEW b \in Account
        PROVE  /\ IsFiniteSet(AdjustedOf(b)')
               /\ album'[b] = NoRow => hold'[b] = NoRow /\ AdjustedOf(b)' = {}
               /\ album'[b] # NoRow =>
                    /\ album'[b].available >= 0
                    /\ album'[b].available + album'[b].reserved + album'[b].consumed
                         = Net(AdjustedAmounts(b)')
                    /\ album'[b].reserved = IF hold'[b] = NoRow THEN 0
                                            ELSE hold'[b].reserved - hold'[b].released
    <3>1. /\ IsFiniteSet(AdjustedOf(b))
          /\ album[b] = NoRow => hold[b] = NoRow /\ AdjustedOf(b) = {}
          /\ album[b] # NoRow =>
               /\ album[b].available >= 0
               /\ album[b].available + album[b].reserved + album[b].consumed
                    = Net(AdjustedAmounts(b))
               /\ album[b].reserved = IF hold[b] = NoRow THEN 0
                                      ELSE hold[b].reserved - hold[b].released
      BY <1>5 DEF ImagesSound
    <3>2. CASE b # a BY <1>15, <1>18, <3>1, <3>2
    <3>3. CASE b = a
      <4>1. /\ row.available \in Int /\ row.reserved \in Int /\ row.consumed \in Int
            /\ old.reserved \in Int /\ old.released \in Int
        BY DEF AlbumRow, HoldRow
      <4>2. /\ row.available >= 0
            /\ row.available + row.reserved + row.consumed = Net(AdjustedAmounts(b))
            /\ row.reserved = old.reserved - old.released
        BY <1>4, <1>6, <1>7, <1>8, <3>1, <3>3
      <4>a. new.available >= 0 BY <1>14, <4>1, <4>2
      <4>b. new.available + new.reserved + new.consumed = row.available + row.reserved + row.consumed
        BY <1>14, <4>1
      <4>c. new.reserved = next.reserved - next.released
        <5>1. new.reserved = row.reserved - 1 /\ next.reserved = old.reserved
              /\ next.released = old.released + 1
          BY <1>14
        <5> QED BY <4>1, <4>2, <5>1
      <4>3. /\ new.available >= 0
            /\ new.available + new.reserved + new.consumed = Net(AdjustedAmounts(b))
            /\ new.reserved = next.reserved - next.released
        BY <4>2, <4>a, <4>b, <4>c
      <4> QED BY <1>14, <1>15, <1>18, <3>1, <3>3, <4>3
    <3> QED BY <3>2, <3>3
  <2>3. \A b \in Account : hold'[b] # NoRow <=> OldImages[b] # 0
    BY <1>4, <1>5, <1>14, <1>15 DEF ImagesSound
  <2> QED BY <2>1, <2>2, <2>3 DEF ImagesSound
<1>20. DeskSound' BY <1>13, DeskEnds DEF QuotaInv
<1>21. /\ ChainSound' /\ ReservedSound' /\ ChargesOnce' /\ GrantsOnce' /\ VouchersOnce'
  BY <1>13, QuotaFrames DEF QuotaInv, tokenVars
<1> QED BY <1>16, <1>19, <1>20, <1>21 DEF QuotaInv

\* The voucher after one more member has used it.
Used(voucher, max, via) ==
  [voucher EXCEPT !.count = @ + 1, !.revision = @ + 1,
               !.status = IF voucher.count + 1 >= max THEN "redeemed" ELSE "active",
               !.delivery = IF via = "delivery" THEN "redeemed" ELSE @]

LEMMA UsedVoucher ==
  ASSUME NEW voucher \in VoucherRow, NEW max, NEW via
  PROVE  /\ Used(voucher, max, via) \in VoucherRow /\ Used(voucher, max, via).count = voucher.count + 1
         /\ Used(voucher, max, via).status # "deleted"
<1>1. /\ voucher.count \in Int /\ voucher.revision \in Int
      /\ voucher.delivery \in {"none", "pending", "redeemed"}
  BY DEF VoucherRow
<1>2. PICK status \in {"redeemed", "active"} :
        status = IF voucher.count + 1 >= max THEN "redeemed" ELSE "active"
  OBVIOUS
<1>3. PICK delivery \in {"none", "pending", "redeemed"} :
        delivery = IF via = "delivery" THEN "redeemed" ELSE voucher.delivery
  BY <1>1
<1>4. Used(voucher, max, via) = [status |-> status, count |-> voucher.count + 1, delivery |-> delivery,
                              revision |-> voucher.revision + 1]
  <2>1. voucher = [status |-> voucher.status, count |-> voucher.count, delivery |-> voucher.delivery,
                revision |-> voucher.revision]
    BY DEF VoucherRow
  <2>2. Used(voucher, max, via) = [voucher EXCEPT !.count = @ + 1, !.revision = @ + 1,
                                            !.status = status, !.delivery = delivery]
    BY <1>2, <1>3, <2>1 DEF Used
  <2> QED BY <2>1, <2>2
<1>5. Used(voucher, max, via) \in VoucherRow BY <1>1, <1>4 DEF VoucherRow
<1> QED BY <1>4, <1>5

LEMMA RedeemCommitsKeeps ==
  ASSUME QuotaInv, NEW t \in Teller, RedeemCommits(t)
  PROVE  QuotaInv'
<1>1. PICK c : c = desk[t] OBVIOUS
<1>2. c.op = "redeem" /\ CallSound(c) /\ RedeemVerdict(c) = "applied"
  BY <1>1 DEF RedeemCommits, Pending, QuotaInv, DeskSound
<1>3. PICK a \in Account : a = c.account BY <1>2 DEF CallSound
<1>4. PICK v \in Voucher : v = c.voucher BY <1>2 DEF CallSound
<1>5. PICK voucher \in VoucherRow : voucher = vouchers[v] BY DEF QuotaInv, QuotaTypes
<1>6. PICK n \in Nat : n = Terms[v].amount BY QuotaAssumption
<1>7. PICK max \in Nat : max = Terms[v].max BY QuotaAssumption
<1>8. PICK ref \in QuotaRefs : ref = <<"voucher", v>> BY DEF QuotaRefs
<1>9. /\ c.seen = voucher /\ <<v, a>> \notin redemptions /\ ~(voucher.count >= max)
      /\ purse[a] = c.row
  BY <1>2, <1>3, <1>4, <1>5, <1>7 DEF RedeemVerdict
<1>10. Terms[v].recipient # Anyone => Terms[v].recipient = a
  BY <1>2, <1>3, <1>4 DEF RedeemVerdict, CallSound
<1>11. PICK new : new = Used(voucher, max, c.via) OBVIOUS
<1>12. new \in VoucherRow /\ new.count = voucher.count + 1 /\ new.status # "deleted"
  BY <1>11, UsedVoucher
<1>13. Granted(a, ref, n)
  BY <1>1, <1>3, <1>4, <1>6, <1>8, <1>9 DEF RedeemCommits, Granted
<1>14. vouchers' = [vouchers EXCEPT ![v] = new] /\ redemptions' = redemptions \cup {<<v, a>>}
  BY <1>1, <1>3, <1>4, <1>7, <1>9, <1>11 DEF RedeemCommits, Used
<1>15. desk' = [desk EXCEPT ![t] = Idle] /\ held' = held /\ UNCHANGED imageVars
  BY <1>1 DEF RedeemCommits, Done
<1>16. /\ ChainSound' /\ ReservedSound' /\ ChargesOnce'
       /\ purse' \in [Account -> PurseRow] /\ entries' \in [Account -> Seq(LedgerLine)]
       /\ LineAdded(a, GrantLine(a, ref, n)) /\ GrantLine(a, ref, n) \in LedgerLine
  BY <1>13, <1>15, GrantWritten
<1>17. PICK line \in LedgerLine : line = GrantLine(a, ref, n) /\ LineAdded(a, line) BY <1>16
<1>18. line.kind = "grant" /\ line.ref = <<"voucher", v>> BY <1>8, <1>17 DEF GrantLine
<1>19. GrantsOnce' BY <1>17, <1>18, OtherLines
<1>20. QuotaTypes /\ VouchersOnce BY DEF QuotaInv
<1>21. QuotaTypes' BY <1>12, <1>14, <1>15, <1>16, <1>20 DEF QuotaTypes, imageVars
<1>22. ASSUME NEW w \in Voucher
       PROVE  /\ IsFiniteSet(UsersOf(w)')
              /\ vouchers'[w].count = Cardinality(UsersOf(w)') /\ vouchers'[w].count <= Terms[w].max
              /\ vouchers'[w].status = "deleted" => UsersOf(w)' = {}
              /\ \A b \in Account :
                   /\ b \in UsersOf(w)' => Single(EntriesIn(entries'[b], "grant", <<"voucher", w>>))
                   /\ b \notin UsersOf(w)' => EntriesIn(entries'[b], "grant", <<"voucher", w>>) = {}
              /\ Terms[w].recipient # Anyone => UsersOf(w)' \subseteq {Terms[w].recipient}
  <2>1. /\ IsFiniteSet(UsersOf(w))
        /\ vouchers[w].count = Cardinality(UsersOf(w)) /\ vouchers[w].count <= Terms[w].max
        /\ vouchers[w].status = "deleted" => UsersOf(w) = {}
        /\ \A b \in Account :
             /\ b \in UsersOf(w) => Single(EntriesIn(entries[b], "grant", <<"voucher", w>>))
             /\ b \notin UsersOf(w) => EntriesIn(entries[b], "grant", <<"voucher", w>>) = {}
        /\ Terms[w].recipient # Anyone => UsersOf(w) \subseteq {Terms[w].recipient}
    BY <1>20 DEF VouchersOnce
  <2>2. CASE w # v
    <3>1. UsersOf(w)' = UsersOf(w) BY <1>14, <2>2 DEF UsersOf
    <3>2. vouchers'[w] = vouchers[w] BY <1>14, <1>20, <2>2 DEF QuotaTypes
    <3>3. line.ref # <<"voucher", w>> BY <1>18, <2>2
    <3>4. \A b \in Account : EntriesIn(entries'[b], "grant", <<"voucher", w>>)
                               = EntriesIn(entries[b], "grant", <<"voucher", w>>)
      BY <1>17, <1>20, <3>3, LinesAfter
    <3> QED BY <2>1, <3>1, <3>2, <3>4
  <2>3. CASE w = v
    <3>1. UsersOf(w)' = UsersOf(w) \cup {a} /\ a \notin UsersOf(w) BY <1>9, <1>14, <2>3 DEF UsersOf
    <3>2. vouchers'[w] = new BY <1>14, <1>20, <2>3 DEF QuotaTypes
    <3>3. IsFiniteSet(UsersOf(w) \cup {a}) /\ Cardinality(UsersOf(w) \cup {a}) = Cardinality(UsersOf(w)) + 1
      BY <2>1, <3>1, FS_AddElement
    <3>4. new.count = Cardinality(UsersOf(w) \cup {a}) BY <1>5, <1>12, <2>1, <2>3, <3>3
    <3>5. new.count <= Terms[w].max
      <4>1. voucher.count \in Int BY DEF VoucherRow
      <4> QED BY <1>7, <1>9, <1>12, <2>3, <4>1
    <3>6. ASSUME NEW b \in Account, b # a
          PROVE  EntriesIn(entries'[b], "grant", <<"voucher", w>>)
                   = EntriesIn(entries[b], "grant", <<"voucher", w>>)
      BY <1>17, <1>20, <3>6, LinesAfter
    <3>7. Single(EntriesIn(entries'[a], "grant", <<"voucher", w>>))
      <4>1. EntriesIn(entries[a], "grant", <<"voucher", w>>) = {} BY <2>1, <3>1
      <4> QED BY <1>17, <1>18, <1>20, <2>3, <4>1, LinesAfter
    <3>8. Terms[w].recipient # Anyone => UsersOf(w) \cup {a} \subseteq {Terms[w].recipient}
      BY <1>10, <2>1, <2>3
    <3>9. \A b \in Account :
            /\ b \in UsersOf(w) \cup {a} => Single(EntriesIn(entries'[b], "grant", <<"voucher", w>>))
            /\ b \notin UsersOf(w) \cup {a} => EntriesIn(entries'[b], "grant", <<"voucher", w>>) = {}
      BY <2>1, <3>6, <3>7
    <3> QED BY <1>12, <3>1, <3>2, <3>3, <3>4, <3>5, <3>8, <3>9
  <2> QED BY <2>2, <2>3
<1>23. VouchersOnce' BY <1>22 DEF VouchersOnce
<1>24. ImagesSound' BY <1>15, QuotaFrames DEF QuotaInv
<1>25. DeskSound' BY <1>15, DeskEnds DEF QuotaInv
<1> QED BY <1>16, <1>19, <1>21, <1>23, <1>24, <1>25 DEF QuotaInv

\* The steps that change the state of a voucher and not its uses.
LEMMA VoucherKept ==
  ASSUME QuotaInv, NEW v \in Voucher, NEW new \in VoucherRow, new.count = vouchers[v].count,
         new.status = "deleted" => UsersOf(v) = {},
         vouchers' = [vouchers EXCEPT ![v] = new],
         UNCHANGED <<tokenVars, held, redemptions, imageVars, desk>>
  PROVE  QuotaInv'
<1>1. QuotaTypes' BY DEF QuotaInv, QuotaTypes, tokenVars, imageVars
<1>2. DeskSound' BY DEF QuotaInv, DeskSound, CallSound, Available
<1>3. ChainSound' /\ ReservedSound' /\ ImagesSound' /\ ChargesOnce' /\ GrantsOnce'
  BY QuotaFrames DEF QuotaInv, tokenVars
<1>4. \A w \in Voucher : UsersOf(w)' = UsersOf(w) BY DEF UsersOf
<1>5. \A w \in Voucher : vouchers'[w] = IF w = v THEN new ELSE vouchers[w] BY DEF QuotaInv, QuotaTypes
<1>6. entries' = entries BY DEF tokenVars
<1>7. VouchersOnce'
  <2> SUFFICES ASSUME NEW w \in Voucher
      PROVE /\ IsFiniteSet(UsersOf(w))
            /\ vouchers'[w].count = Cardinality(UsersOf(w)) /\ vouchers'[w].count <= Terms[w].max
            /\ vouchers'[w].status = "deleted" => UsersOf(w) = {}
            /\ \A b \in Account :
                 /\ b \in UsersOf(w) => Single(EntriesIn(entries[b], "grant", <<"voucher", w>>))
                 /\ b \notin UsersOf(w) => EntriesIn(entries[b], "grant", <<"voucher", w>>) = {}
            /\ Terms[w].recipient # Anyone => UsersOf(w) \subseteq {Terms[w].recipient}
    BY <1>4, <1>6 DEF VouchersOnce
  <2> QED BY <1>5 DEF QuotaInv, VouchersOnce
<1> QED BY <1>1, <1>2, <1>3, <1>7 DEF QuotaInv

LEMMA VoucherStepsKeep ==
  ASSUME QuotaInv, NEW v \in Voucher, CreateVouchers(v) \/ DeleteVoucher(v) \/ VoucherExpires(v)
  PROVE  QuotaInv'
<1>1. PICK old \in VoucherRow : old = vouchers[v] BY DEF QuotaInv, QuotaTypes
<1>2. /\ old.count \in Int /\ old.revision \in Int
  BY DEF VoucherRow
<1>3. old = [status |-> old.status, count |-> old.count, delivery |-> old.delivery,
             revision |-> old.revision]
  BY DEF VoucherRow
<1>4. CASE CreateVouchers(v)
  <2>1. PICK delivery \in {"none", "pending"} :
          delivery = IF Terms[v].recipient = Anyone THEN "none" ELSE "pending"
    OBVIOUS
  <2>2. PICK new : new = [old EXCEPT !.status = "active", !.delivery = delivery] OBVIOUS
  <2>3. new = [status |-> "active", count |-> old.count, delivery |-> delivery,
               revision |-> old.revision]
    BY <1>3, <2>2
  <2>4. vouchers' = [vouchers EXCEPT ![v] = new] BY <1>1, <1>4, <2>1, <2>2 DEF CreateVouchers
  <2>5. new \in VoucherRow /\ new.count = old.count /\ new.status # "deleted"
    BY <1>2, <2>3 DEF VoucherRow
  <2>6. UNCHANGED <<tokenVars, held, redemptions, imageVars, desk>> BY <1>4 DEF CreateVouchers
  <2> QED BY <1>1, <2>4, <2>5, <2>6, VoucherKept
<1>5. CASE DeleteVoucher(v)
  <2>1. PICK new : new = [old EXCEPT !.status = "deleted", !.delivery = "none"] OBVIOUS
  <2>2. new = [status |-> "deleted", count |-> old.count, delivery |-> "none",
               revision |-> old.revision]
    BY <1>3, <2>1
  <2>3. vouchers' = [vouchers EXCEPT ![v] = new] BY <1>1, <1>5, <2>1 DEF DeleteVoucher
  <2>4. new \in VoucherRow /\ new.count = old.count BY <1>2, <2>2 DEF VoucherRow
  <2>5. UsersOf(v) = {}
    <3>1. IsFiniteSet(UsersOf(v)) /\ Cardinality(UsersOf(v)) = 0
      BY <1>5 DEF QuotaInv, VouchersOnce, DeleteVoucher
    <3> QED BY <3>1, FS_EmptySet
  <2>6. UNCHANGED <<tokenVars, held, redemptions, imageVars, desk>> BY <1>5 DEF DeleteVoucher
  <2> QED BY <1>1, <2>3, <2>4, <2>5, <2>6, VoucherKept
<1>6. CASE VoucherExpires(v)
  <2>1. UNCHANGED <<tokenVars, held, voucherVars, imageVars, desk>> BY <1>6 DEF VoucherExpires
  <2>2. DeskSound' BY <2>1 DEF QuotaInv, DeskSound, CallSound, Available
  <2> QED BY <2>1, <2>2, DeskOnly
<1> QED BY <1>4, <1>5, <1>6

\* What the calls that are begun, or read again, have established.
LEMMA CallsSound ==
  ASSUME QuotaInv
  PROVE  /\ \A r \in Purchase, n \in Nat : CallSound(ReserveCall(r, n))
         /\ \A r \in Purchase, n \in Nat : held[r].status = "active" =>
              /\ CallSound(FinishCall("settle", r, n)) /\ CallSound(FinishCall("fail", r, n))
         /\ \A a \in Account, g \in Grant, n \in Nat, d \in {0, 1} : \A shown :
              CallSound(GrantCall(a, g, n, d, shown))
         /\ \A a \in Account : \A i : hold[a] # NoRow => CallSound(ReleaseCall(a, i))
         /\ \A a \in Account, v \in Voucher, via \in {"code", "delivery"} :
              CanRedeem(a, v, via) => CallSound(RedeemCall(a, v, via))
<1>1. \A r \in Purchase, n \in Nat : CallSound(ReserveCall(r, n)) BY DEF CallSound, ReserveCall
<1>2. \A r \in Purchase, n \in Nat : held[r].status = "active" =>
        /\ CallSound(FinishCall("settle", r, n)) /\ CallSound(FinishCall("fail", r, n))
  BY DEF CallSound, FinishCall
<1>3. \A a \in Account, g \in Grant, n \in Nat, d \in {0, 1} : \A shown :
        CallSound(GrantCall(a, g, n, d, shown))
  BY DEF CallSound, GrantCall
<1>5. \A a \in Account : \A i : hold[a] # NoRow => CallSound(ReleaseCall(a, i))
  BY DEF CallSound, ReleaseCall, QuotaInv, ImagesSound
<1>6. \A a \in Account, v \in Voucher, via \in {"code", "delivery"} :
        CanRedeem(a, v, via) => CallSound(RedeemCall(a, v, via))
  BY DEF CallSound, RedeemCall, CanRedeem
<1> QED BY <1>1, <1>2, <1>3, <1>5, <1>6

LEMMA CallBegun ==
  ASSUME QuotaInv, NEW t \in Teller, NEW c, CallSound(c), Begins(t, c) \/ ReadsAgain(t, c)
  PROVE  QuotaInv'
<1>1. /\ desk' = [desk EXCEPT ![t] = c]
      /\ UNCHANGED <<tokenVars, held, voucherVars, imageVars>>
  BY DEF Begins, ReadsAgain
<1>2. DeskSound' BY <1>1, DeskBegins DEF QuotaInv
<1> QED BY <1>1, <1>2, DeskOnly

LEMMA BeginsCallKeeps ==
  ASSUME QuotaInv, NEW t \in Teller, BeginsCall(t)
  PROVE  QuotaInv'
<1>0. Portion \subseteq Nat /\ Bill \subseteq Nat /\ 0 \in Nat BY QuotaAssumption
<1>1. ASSUME NEW r \in Purchase, NEW n \in Portion, Begins(t, ReserveCall(r, n))
      PROVE  QuotaInv'
  <2>1. PICK c : c = ReserveCall(r, n) OBVIOUS
  <2>2. n \in Nat BY <1>0
  <2> QED BY <1>1, <2>1, <2>2, CallsSound, CallBegun
<1>2. ASSUME NEW r \in Purchase, NEW n \in Bill, held[r].status = "active",
             Begins(t, FinishCall("settle", r, n))
      PROVE  QuotaInv'
  <2>1. PICK c : c = FinishCall("settle", r, n) OBVIOUS
  <2>2. n \in Nat BY <1>0
  <2> QED BY <1>2, <2>1, <2>2, CallsSound, CallBegun
<1>3. ASSUME NEW r \in Purchase, held[r].status = "active", Begins(t, FinishCall("fail", r, 0))
      PROVE  QuotaInv'
  <2>0. PICK n \in Nat : n = 0 BY <1>0
  <2>1. PICK c : c = FinishCall("fail", r, n) OBVIOUS
  <2> QED BY <1>3, <2>0, <2>1, CallsSound, CallBegun
<1>4. ASSUME NEW a \in Account, NEW g \in Grant, NEW n \in Portion \union {0}, NEW d \in {0, 1},
             Begins(t, GrantCall(a, g, n, d, Shown(a)))
      PROVE  QuotaInv'
  <2>0. PICK shown : shown = Shown(a) OBVIOUS
  <2>1. PICK c : c = GrantCall(a, g, n, d, shown) OBVIOUS
  <2>2. n \in Nat BY <1>0
  <2>3. CallSound(GrantCall(a, g, n, d, shown)) BY <2>2, CallsSound
  <2>4. Begins(t, c) BY <1>4, <2>0, <2>1
  <2>5. CallSound(c) BY <2>1, <2>3
  <2> QED BY <2>4, <2>5, CallBegun
<1>5. ASSUME NEW a \in Account, NEW id \in Adjustment, NEW d \in {-1, 1},
             Available(album[a]) + d >= 0, Begins(t, AdjustCall(a, id, d))
      PROVE  QuotaInv'
  <2>1. PICK c : c = AdjustCall(a, id, d) OBVIOUS
  <2>2. CallSound(c) BY <1>5, <2>1 DEF CallSound, AdjustCall
  <2> QED BY <1>5, <2>1, <2>2, CallBegun
<1>6. ASSUME NEW a \in Account, NEW i, CanRelease(a, i), Begins(t, ReleaseCall(a, i))
      PROVE  QuotaInv'
  <2>1. PICK c : c = ReleaseCall(a, i) OBVIOUS
  <2>2. hold[a] # NoRow BY <1>6 DEF CanRelease
  <2>3. CallSound(c) BY <2>1, <2>2, CallsSound
  <2> QED BY <1>6, <2>1, <2>3, CallBegun
<1>7. ASSUME NEW a \in Account, NEW v \in Voucher, NEW via \in {"code", "delivery"},
             CanRedeem(a, v, via), Begins(t, RedeemCall(a, v, via))
      PROVE  QuotaInv'
  <2>1. PICK c : c = RedeemCall(a, v, via) OBVIOUS
  <2>2. CallSound(c) BY <1>7, <2>1, CallsSound
  <2> QED BY <1>7, <2>1, <2>2, CallBegun
<1> QED BY <1>1, <1>2, <1>3, <1>4, <1>5, <1>6, <1>7 DEF BeginsCall

\* A call that reads again establishes what it had established before.
LEMMA AgainKeeps ==
  ASSUME QuotaInv, NEW t \in Teller,
         \/ ReserveAgain(t) \/ FinishAgain(t) \/ GrantAgain(t) \/ ReleaseAgain(t) \/ RedeemAgain(t)
  PROVE  QuotaInv'
<1>1. PICK c : c = desk[t] OBVIOUS
<1>2. ASSUME desk[t] # Idle PROVE CallSound(c) BY <1>1, <1>2 DEF QuotaInv, DeskSound
<1>3. CASE ReserveAgain(t)
  <2>1. c.op = "reserve" /\ CallSound(c) BY <1>1, <1>2, <1>3 DEF ReserveAgain, Pending
  <2>2. c.request \in Purchase /\ c.n \in Nat BY <2>1 DEF CallSound
  <2>3. PICK d : d = ReserveCall(c.request, c.n) OBVIOUS
  <2>4. CallSound(d) BY <2>2, <2>3, CallsSound
  <2>5. ReadsAgain(t, d) BY <1>1, <1>3, <2>3 DEF ReserveAgain
  <2> QED BY <2>4, <2>5, CallBegun
<1>4. CASE FinishAgain(t)
  <2>1. c.op \in {"settle", "fail"} /\ CallSound(c) BY <1>1, <1>2, <1>4 DEF FinishAgain, Pending
  <2>2. c.request \in Purchase /\ c.n \in Nat BY <2>1 DEF CallSound
  <2>3. PICK d : d = FinishCall(c.op, c.request, c.n) OBVIOUS
  <2>4. ReadsAgain(t, d) /\ held[c.request].status = "active" BY <1>1, <1>4, <2>3 DEF FinishAgain
  <2>5. CallSound(d) BY <2>1, <2>2, <2>3, <2>4, CallsSound
  <2> QED BY <2>4, <2>5, CallBegun
<1>5. CASE GrantAgain(t)
  <2>1. c.op = "grant" /\ CallSound(c) BY <1>1, <1>2, <1>5 DEF GrantAgain, Pending
  <2>2. c.account \in Account /\ c.ref \in Grant /\ c.n \in Nat /\ c.d \in {0, 1} BY <2>1 DEF CallSound
  <2>3. PICK d : d = GrantCall(c.account, c.ref, c.n, c.d, c.shown) OBVIOUS
  <2>4. CallSound(d) BY <2>2, <2>3, CallsSound
  <2>5. ReadsAgain(t, d) BY <1>1, <1>5, <2>3 DEF GrantAgain
  <2> QED BY <2>4, <2>5, CallBegun
<1>6. CASE ReleaseAgain(t)
  <2>1. c.op = "release" /\ CallSound(c) BY <1>1, <1>2, <1>6 DEF ReleaseAgain, Pending
  <2>2. c.account \in Account BY <2>1 DEF CallSound
  <2>3. PICK d : d = ReleaseCall(c.account, c.child) OBVIOUS
  <2>4. hold[c.account] # NoRow BY <2>1, <2>2 DEF CallSound, QuotaInv, ImagesSound
  <2>5. CallSound(d) BY <2>2, <2>3, <2>4, CallsSound
  <2>6. ReadsAgain(t, d) BY <1>1, <1>6, <2>3 DEF ReleaseAgain
  <2> QED BY <2>5, <2>6, CallBegun
<1>7. CASE RedeemAgain(t)
  <2>1. c.op = "redeem" /\ CallSound(c) BY <1>1, <1>2, <1>7 DEF RedeemAgain, Pending
  <2>2. c.account \in Account /\ c.voucher \in Voucher /\ c.via \in {"code", "delivery"}
    BY <2>1 DEF CallSound
  <2>3. PICK d : d = RedeemCall(c.account, c.voucher, c.via) OBVIOUS
  <2>4. CanRedeem(c.account, c.voucher, c.via) /\ ReadsAgain(t, d) BY <1>1, <1>7, <2>3 DEF RedeemAgain
  <2>5. CallSound(d) BY <2>2, <2>3, <2>4, CallsSound
  <2> QED BY <2>4, <2>5, CallBegun
<1> QED BY <1>3, <1>4, <1>5, <1>6, <1>7

LEMMA QuotaStep == QuotaInv /\ [QuotaNext]_quotaVars => QuotaInv'
<1> SUFFICES ASSUME QuotaInv, [QuotaNext]_quotaVars PROVE QuotaInv' OBVIOUS
<1>1. ASSUME NEW t \in Teller, Ends(t) PROVE QuotaInv'
  <2>1. desk' = [desk EXCEPT ![t] = Idle] /\ UNCHANGED <<tokenVars, held, voucherVars, imageVars>>
    BY <1>1 DEF Ends, Done
  <2>2. DeskSound' BY <2>1, DeskEnds DEF QuotaInv
  <2> QED BY <2>1, <2>2, DeskOnly
<1>2. ASSUME desk' = desk, UNCHANGED <<tokenVars, held, voucherVars, imageVars>> PROVE QuotaInv'
  <2>1. DeskSound' BY <1>2 DEF QuotaInv, DeskSound, CallSound, Available
  <2> QED BY <1>2, <2>1, DeskOnly
<1>3. ASSUME NEW a, RevokeKey(a) PROVE QuotaInv' BY <1>2, <1>3 DEF RevokeKey
<1>4. CASE UNCHANGED quotaVars BY <1>2, <1>4 DEF quotaVars, tokenVars, voucherVars, imageVars
<1>5. ASSUME NEW t \in Teller,
             \/ ReserveAgain(t) \/ FinishAgain(t) \/ GrantAgain(t) \/ ReleaseAgain(t) \/ RedeemAgain(t)
      PROVE  QuotaInv'
  BY <1>5, AgainKeeps
<1> QED BY <1>1, <1>3, <1>4, <1>5, BeginsCallKeeps, ReserveCommitsKeeps, FinishCommitsKeeps,
           GrantCommitsKeeps, AdjustCommitsKeeps, ReleaseCommitsKeeps, RedeemCommitsKeeps,
           VoucherStepsKeep
    DEF QuotaNext

\* The books of tokens, images and vouchers balance for any number of members,
\* tellers, requests, grants and vouchers and in every order of the calls that
\* they read before and commit after each other: a balance is what its ledger
\* adds up to and covers what is reserved, no charge, grant, voucher or image
\* is entered twice or lost (reserve_quota, finish_quota_reservation,
\* grant_quota, redeem_voucher and release_image_quota_child).
THEOREM QuotaBooksBalance == QuotaSpec => []QuotaBooks
<1>1. QuotaInit => QuotaInv BY QuotaStart
<1>2. QuotaInv /\ [QuotaNext]_quotaVars => QuotaInv' BY QuotaStep
<1>3. QuotaInv => QuotaBooks BY QuotaInvSound
<1> QED BY <1>1, <1>2, <1>3, PTL DEF QuotaSpec
=============================================================================
