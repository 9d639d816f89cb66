----------------------- MODULE SettlementOutbox_proofs -----------------------
(***************************************************************************)
(* Proofs about the lock protocol of the settlement outbox, for any number *)
(* of slots, tasks, keys and inodes.                                       *)
(***************************************************************************)
EXTENDS SettlementOutbox, TLAPS

\* The empty directory at installation satisfies the inductive invariant.
LEMMA InitIInv == Init => IInv
  BY OutboxAssumption DEF Init, IInv, TypeOK, Phases, RegistryInv, RegistrySection,
     FileInv, HasKey, Owns, OwnerOnLinkedInode, FlockInv, NamesDistinct, UnlinkInv,
     BoundInv, BindingPrecedesEntries

\* Every step of open, acquire_key, drop and of a crashing slot preserves it.
LEMMA NextIInv == IInv /\ [Next]_vars => IInv'
<1> SUFFICES ASSUME IInv, [Next]_vars PROVE IInv'
  OBVIOUS
<1> USE OutboxAssumption
<1> USE DEF IInv, TypeOK, Phases, RegistryInv, RegistrySection,
     FileInv, HasKey, Owns, OwnerOnLinkedInode, FlockInv, NamesDistinct, UnlinkInv,
     BoundInv, BindingPrecedesEntries, Goto
<1>1. ASSUME NEW t \in Task, OpenStore(t) PROVE IInv'
  BY <1>1 DEF OpenStore
<1>2. ASSUME NEW t \in Task, BindStore(t) PROVE IInv'
  <2>1. TypeOK'
    <3>1. bound' \in BOOLEAN /\ storeOpen' \subseteq Slot
      <4>1. CASE bound' = TRUE /\ storeOpen' = storeOpen \cup {SlotOf[t]}
        BY <4>1
      <4>2. CASE bound' = bound /\ storeOpen' \in {storeOpen, storeOpen \cup {SlotOf[t]}}
        BY <4>2
      <4> QED
        BY <1>2, <4>1, <4>2, Zenon DEF BindStore
    <3> QED
      BY <1>2, <3>1 DEF BindStore
  <2>2. BoundInv' /\ BindingPrecedesEntries'
    BY <1>2 DEF BindStore
  <2>3. RegistryInv' /\ FileInv' /\ UnlinkInv'
    BY <1>2 DEF BindStore
  <2>4. OwnerOnLinkedInode' /\ FlockInv' /\ NamesDistinct'
    BY <1>2 DEF BindStore
  <2> QED
    BY <2>1, <2>2, <2>3, <2>4
<1>3. ASSUME NEW t \in Task, LockRegistry(t) PROVE IInv'
  BY <1>3 DEF LockRegistry
<1>4. ASSUME NEW t \in Task, RegistryTimeout(t) PROVE IInv'
  BY <1>4 DEF RegistryTimeout
<1>5. ASSUME NEW t \in Task, NEW k \in Key, AcquireKey(t, k) PROVE IInv'
  BY <1>5 DEF AcquireKey
<1>6. ASSUME NEW t \in Task, OpenLock(t) PROVE IInv'
  BY <1>6 DEF OpenLock, FreeInode
<1>7. ASSUME NEW t \in Task, AcquireFails(t) PROVE IInv'
  BY <1>7 DEF AcquireFails
<1>8. ASSUME NEW t \in Task, TryLock(t) PROVE IInv'
  BY <1>8 DEF TryLock
<1>9. ASSUME NEW t \in Task, LeaveRegistry(t) PROVE IInv'
  BY <1>9 DEF LeaveRegistry
<1>10. ASSUME NEW t \in Task, WriteRecord(t) PROVE IInv'
  BY <1>10 DEF WriteRecord
<1>11. ASSUME NEW t \in Task, DropTryRegistry(t) PROVE IInv'
  BY <1>11 DEF DropTryRegistry
<1>12. ASSUME NEW t \in Task, DropCloseFile(t) PROVE IInv'
  BY <1>12 DEF DropCloseFile
<1>13. ASSUME NEW t \in Task, DropUnlink(t) PROVE IInv'
  BY <1>13 DEF DropUnlink
<1>14. ASSUME NEW s \in Slot, Crash(s) PROVE IInv'
  BY <1>14 DEF Crash
<1>15. CASE UNCHANGED vars
  BY <1>15 DEF vars
<1> QED
  BY <1>1, <1>2, <1>3, <1>4, <1>5, <1>6, <1>7, <1>8, <1>9, <1>10, <1>11, <1>12,
     <1>13, <1>14, <1>15 DEF Next, Progress

\* The protocol is always in a state of the inductive invariant.
THEOREM OutboxInvariant == Spec => []IInv
  BY InitIInv, NextIInv, PTL DEF Spec

\* Two owners of a key would have locked the same, linked inode.
LEMMA IInvMutualExclusion == IInv => MutualExclusion
  BY DEF IInv, OwnerOnLinkedInode, MutualExclusion

\* Outbox::acquire_key never makes two tasks owners of one request, and an
\* owner's lock is always the one the next acquire_key will find.
THEOREM OutboxMutualExclusion == Spec => [](MutualExclusion /\ OwnerOnLinkedInode)
<1>1. IInv => MutualExclusion /\ OwnerOnLinkedInode
  BY IInvMutualExclusion DEF IInv
<1> QED
  BY <1>1, OutboxInvariant, PTL

\* Outbox::open never meets entries in a directory it has not bound.
THEOREM OutboxBinding == Spec => []BindingPrecedesEntries
<1>1. IInv => BindingPrecedesEntries
  BY DEF IInv
<1> QED
  BY <1>1, OutboxInvariant, PTL

\* Drop for RequestLock never unlinks an inode some task has open.
THEOREM OutboxUnlink == Spec => UnlinkOnlyAbandoned
<1> DEFINE Safe == \A k \in Key : lockPath[k] # None /\ lockPath'[k] = None
                     => \A t \in Task : fd[t] # lockPath[k]
<1>1. IInv /\ [Next]_vars => [Safe]_vars
  <2> SUFFICES ASSUME IInv, Next PROVE Safe
    OBVIOUS
  <2>1. ASSUME NEW t \in Task, DropUnlink(t) PROVE Safe
    BY <2>1, OutboxAssumption DEF DropUnlink, Goto, IInv, TypeOK, Phases, RegistryInv,
       RegistrySection, FileInv, HasKey, Owns, OwnerOnLinkedInode, NamesDistinct, UnlinkInv
  <2>2. ASSUME NEW t \in Task, OpenLock(t) PROVE Safe
    BY <2>2, OutboxAssumption DEF OpenLock, Goto, IInv, TypeOK
  <2>3. CASE UNCHANGED lockPath
    BY <2>3
  <2> QED
    BY <2>1, <2>2, <2>3 DEF Next, Progress, OpenStore, BindStore, LockRegistry,
       RegistryTimeout, AcquireKey, AcquireFails, TryLock, LeaveRegistry, WriteRecord,
       DropTryRegistry, DropCloseFile, Crash
<1> QED
  BY <1>1, OutboxInvariant, PTL DEF Spec, UnlinkOnlyAbandoned

\* Steps other than a successful try_lock, the closing of the lock file and a
\* crash change no ownership.
LEMMA OwnershipSteps ==
  ASSUME IInv, Next PROVE Abstract!Next \/ UNCHANGED owned
<1> USE OutboxAssumption
<1> USE DEF IInv, TypeOK, Phases, FileInv, HasKey, Owns, OwnerOnLinkedInode, owned, Goto
<1>1. ASSUME NEW t \in Task, TryLock(t) PROVE Abstract!Next \/ UNCHANGED owned
  <2>1. CASE flock[fd[t]] = None
    <3>1. ~Owns(t) /\ Owns(t)' /\ key[t] \in Key /\ key' = key
      BY <1>1, <2>1 DEF TryLock
    <3>2. \A u \in Task \ {t} : Owns(u)' <=> Owns(u)
      BY <1>1, <2>1 DEF TryLock
    <3>3. \A u \in Task : Owns(u) => key[u] # key[t]
      BY <1>1, <2>1 DEF TryLock
    <3> HIDE DEF Owns
    <3>4. owned[t] = None /\ \A u \in Task : owned[u] # key[t]
      BY <3>1, <3>3
    <3>5. owned' = [owned EXCEPT ![t] = key[t]]
      BY <3>1, <3>2
    <3> QED
      BY <3>1, <3>4, <3>5 DEF Abstract!Next, Abstract!Acquire
  <2>2. CASE flock[fd[t]] # None
    BY <1>1, <2>2 DEF TryLock
  <2> QED
    BY <2>1, <2>2
<1>2. ASSUME NEW t \in Task, DropCloseFile(t) PROVE Abstract!Next
  <2>1. Owns(t) /\ ~Owns(t)' /\ key[t] \in Key
    BY <1>2 DEF DropCloseFile
  <2>2. \A u \in Task \ {t} : (Owns(u)' <=> Owns(u)) /\ key'[u] = key[u]
    BY <1>2 DEF DropCloseFile
  <2> HIDE DEF Owns
  <2>3. owned[t] # None /\ owned'[t] = None
    BY <2>1
  <2>4. \A u \in Task \ {t} : owned'[u] = owned[u]
    BY <2>2
  <2>5. owned' = [owned EXCEPT ![t] = None]
    BY <2>3, <2>4
  <2> QED
    BY <2>3, <2>5 DEF Abstract!Next, Abstract!Release
<1>3. ASSUME NEW s \in Slot, Crash(s) PROVE Abstract!Next
  <2>1. Abstract!Crash(s)
    BY <1>3 DEF Crash, Abstract!Crash
  <2> QED
    BY <2>1 DEF Abstract!Next
<1>4. ASSUME NEW t \in Task,
             \/ OpenStore(t) \/ BindStore(t) \/ LockRegistry(t) \/ RegistryTimeout(t)
             \/ \E k \in Key : AcquireKey(t, k)
      PROVE UNCHANGED owned
  BY <1>4 DEF OpenStore, BindStore, LockRegistry, RegistryTimeout, AcquireKey
<1>5. ASSUME NEW t \in Task,
             \/ OpenLock(t) \/ AcquireFails(t) \/ LeaveRegistry(t) \/ WriteRecord(t)
             \/ DropTryRegistry(t) \/ DropUnlink(t)
      PROVE UNCHANGED owned
  BY <1>5 DEF OpenLock, AcquireFails, LeaveRegistry, WriteRecord, DropTryRegistry,
     DropUnlink
<1> QED
  BY <1>1, <1>2, <1>3, <1>4, <1>5 DEF Next, Progress

\* The two levels of file locks implement the abstract request lock.
THEOREM OutboxRefinement == Spec => ImplementsRequestLock
<1>1. Init => Abstract!Init
  BY DEF Init, Abstract!Init, owned, Owns
<1>2. IInv /\ [Next]_vars => [Abstract!Next]_owned
  <2>1. CASE UNCHANGED vars
    BY <2>1 DEF vars, owned, Owns
  <2> QED
    BY <2>1, OwnershipSteps
<1> QED
  BY <1>1, <1>2, OutboxInvariant, PTL DEF Spec, ImplementsRequestLock, Abstract!Spec
=============================================================================
