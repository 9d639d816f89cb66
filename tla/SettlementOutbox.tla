-------------------------- MODULE SettlementOutbox --------------------------
(***************************************************************************)
(* The lock protocol of control/src/gateway/settlement_outbox.rs.          *)
(*                                                                         *)
(* Both Control slots of an installation share one directory.  A request   *)
(* is owned by holding an advisory lock on the inode of `{key}.lock`, and  *)
(* the file is unlinked again when its owner is done, so the name can be   *)
(* recreated with a different inode: two processes could then each hold    *)
(* "the" lock.  A second, permanent lock (`registry.lock`) serialises the  *)
(* opens and unlinks of request locks to exclude this.  Inodes are         *)
(* therefore explicit here, and every step between two system calls is a   *)
(* step of its own.  A crash of a slot releases its locks and closes its   *)
(* files, and leaves the names in the directory.                           *)
(***************************************************************************)
CONSTANTS Slot,      \* the Control processes sharing the directory
          Task,      \* requests, recovery scans and startups of all slots
          SlotOf,    \* which slot a task runs in
          Key,       \* request keys (the hash of a request id)
          Inode,     \* inode numbers the file system hands out (and reuses)
          None       \* no task, no key, no inode

ASSUME OutboxAssumption ==
  /\ SlotOf \in [Task -> Slot]
  /\ None \notin Task /\ None \notin Key /\ None \notin Inode

VARIABLES
  registry,   \* the task holding the lock on registry.lock, or None
  lockPath,   \* the inode the name `{key}.lock` refers to, or None
  flock,      \* the task holding the advisory lock of an inode, or None
  record,     \* the keys that have a `{key}.json` settlement record
  bound,      \* whether installation.json has been written
  storeOpen,  \* the slots whose Outbox::open has succeeded
  pc, key, fd \* per task: next step, requested key, open lock file

vars == <<registry, lockPath, flock, record, bound, storeOpen, pc, key, fd>>

Phases == {"idle", "openWait", "bind", "wait", "open", "try", "leave",
           "held", "drop", "unlink"}

TypeOK ==
  /\ registry \in Task \cup {None}
  /\ lockPath \in [Key -> Inode \cup {None}]
  /\ flock \in [Inode -> Task \cup {None}]
  /\ record \subseteq Key
  /\ bound \in BOOLEAN
  /\ storeOpen \subseteq Slot
  /\ pc \in [Task -> Phases]
  /\ key \in [Task -> Key \cup {None}]
  /\ fd \in [Task -> Inode \cup {None}]

Init ==
  /\ registry = None
  /\ lockPath = [k \in Key |-> None]
  /\ flock = [i \in Inode |-> None]
  /\ record = {}
  /\ bound = FALSE
  /\ storeOpen = {}
  /\ pc = [t \in Task |-> "idle"]
  /\ key = [t \in Task |-> None]
  /\ fd = [t \in Task |-> None]

\* The task owns the request lock: its try_lock succeeded and its Drop has
\* not closed the file yet.
Owns(t) ==
  \/ pc[t] \in {"held", "drop"}
  \/ pc[t] = "leave" /\ fd[t] # None

Goto(t, p) == pc' = [pc EXCEPT ![t] = p]

(***************************************************************************)
(* Outbox::open, at process start.                                         *)
(***************************************************************************)
OpenStore(t) ==
  /\ pc[t] = "idle"
  /\ SlotOf[t] \notin storeOpen
  /\ Goto(t, "openWait")
  /\ UNCHANGED <<registry, lockPath, flock, record, bound, storeOpen, key, fd>>

\* The owner file binds the directory to the installation.  Without one the
\* directory must be empty: page("", 1) lists records and lock files alike.
\* If it is not, open fails and the slot stays closed; so it does when writing
\* the owner file fails, before or after its rename.
BindStore(t) ==
  /\ pc[t] = "bind"
  /\ \/ /\ bound
        /\ storeOpen' = storeOpen \cup {SlotOf[t]}
        /\ UNCHANGED bound
     \/ /\ ~bound
        /\ record = {} /\ \A k \in Key : lockPath[k] = None
        /\ bound' = TRUE
        /\ storeOpen' = storeOpen \cup {SlotOf[t]}
     \/ UNCHANGED <<bound, storeOpen>>
     \/ /\ ~bound
        /\ record = {} /\ \A k \in Key : lockPath[k] = None
        /\ bound' = TRUE
        /\ UNCHANGED storeOpen
  /\ Goto(t, "leave")
  /\ UNCHANGED <<registry, lockPath, flock, record, key, fd>>

(***************************************************************************)
(* Outbox::registry: retry try_registry for two seconds.                   *)
(***************************************************************************)
LockRegistry(t) ==
  /\ pc[t] \in {"openWait", "wait"}
  /\ registry = None
  /\ registry' = t
  /\ Goto(t, IF pc[t] = "wait" THEN "open" ELSE "bind")
  /\ UNCHANGED <<lockPath, flock, record, bound, storeOpen, key, fd>>

\* Mistake: no deadline, the loop goes round once more.
RegistryTimeout_Never(t) ==
  /\ pc[t] \in {"openWait", "wait"}
  /\ UNCHANGED vars

\* The deadline passed after a busy attempt, or the attempt met an I/O error.
RegistryTimeout(t) ==
  /\ pc[t] \in {"openWait", "wait"}
  /\ Goto(t, "idle")
  /\ key' = [key EXCEPT ![t] = None]
  /\ UNCHANGED <<registry, lockPath, flock, record, bound, storeOpen, fd>>

(***************************************************************************)
(* Outbox::acquire_key, called for a request or by the recovery scan.      *)
(***************************************************************************)
AcquireKey(t, k) ==
  /\ pc[t] = "idle"
  /\ SlotOf[t] \in storeOpen
  /\ Goto(t, "wait")
  /\ key' = [key EXCEPT ![t] = k]
  /\ UNCHANGED <<registry, lockPath, flock, record, bound, storeOpen, fd>>

\* An inode without a name and without a descriptor can be handed out again.
FreeInode(i) ==
  /\ \A k \in Key : lockPath[k] # i
  /\ \A t \in Task : fd[t] # i

\* open_lock: open the file the name refers to, or create it.
OpenLock(t) ==
  /\ pc[t] = "open"
  /\ \/ /\ lockPath[key[t]] # None
        /\ fd' = [fd EXCEPT ![t] = lockPath[key[t]]]
        /\ UNCHANGED lockPath
     \/ /\ lockPath[key[t]] = None
        /\ \E i \in {i \in Inode : FreeInode(i)} :
             /\ fd' = [fd EXCEPT ![t] = i]
             /\ lockPath' = [lockPath EXCEPT ![key[t]] = i]
  /\ Goto(t, "try")
  /\ UNCHANGED <<registry, flock, record, bound, storeOpen, key>>

\* open_lock or try_lock failed with an I/O error.
AcquireFails(t) ==
  /\ pc[t] \in {"open", "try"}
  /\ fd' = [fd EXCEPT ![t] = None]
  /\ Goto(t, "leave")
  /\ UNCHANGED <<registry, lockPath, flock, record, bound, storeOpen, key>>

\* Mistake: WouldBlock is taken for success.
TryLock_Shared(t) ==
  /\ pc[t] = "try"
  /\ flock' = [flock EXCEPT ![fd[t]] = t]
  /\ Goto(t, "leave")
  /\ UNCHANGED <<registry, lockPath, record, bound, storeOpen, key, fd>>

\* try_lock never waits: a locked inode closes the file and yields Ok(None).
TryLock(t) ==
  /\ pc[t] = "try"
  /\ \/ /\ flock[fd[t]] = None
        /\ flock' = [flock EXCEPT ![fd[t]] = t]
        /\ UNCHANGED fd
     \/ /\ flock[fd[t]] # None
        /\ fd' = [fd EXCEPT ![t] = None]
        /\ UNCHANGED flock
  /\ Goto(t, "leave")
  /\ UNCHANGED <<registry, lockPath, record, bound, storeOpen, key>>

\* The registry guard goes out of scope at the end of open, acquire_key and
\* drop.  A task that obtained the request lock keeps it.
LeaveRegistry(t) ==
  /\ pc[t] = "leave"
  /\ registry' = None
  /\ IF fd[t] # None
       THEN Goto(t, "held") /\ UNCHANGED key
       ELSE Goto(t, "idle") /\ key' = [key EXCEPT ![t] = None]
  /\ UNCHANGED <<lockPath, flock, record, bound, storeOpen, fd>>

(***************************************************************************)
(* What an owner does to the record of its key (publish and finish; their  *)
(* contents are the subject of DurableSettlement).                         *)
(***************************************************************************)
WriteRecord(t) ==
  /\ pc[t] = "held"
  /\ \/ record' = record \cup {key[t]}
     \/ record' = record \ {key[t]}
  /\ UNCHANGED <<registry, lockPath, flock, bound, storeOpen, pc, key, fd>>

(***************************************************************************)
(* Drop for RequestLock: one attempt at the registry, then close the file, *)
(* then unlink the name if the attempt succeeded.                          *)
(***************************************************************************)
DropTryRegistry(t) ==
  /\ pc[t] = "held"
  /\ \/ registry = None /\ registry' = t
     \/ UNCHANGED registry
  /\ Goto(t, "drop")
  /\ UNCHANGED <<lockPath, flock, record, bound, storeOpen, key, fd>>

\* Mistake: unlink whether or not the registry was obtained.
DropCloseFile_UnlinkAlways(t) ==
  /\ pc[t] = "drop"
  /\ flock' = [flock EXCEPT ![fd[t]] = None]
  /\ fd' = [fd EXCEPT ![t] = None]
  /\ Goto(t, "unlink")
  /\ UNCHANGED <<registry, lockPath, record, bound, storeOpen, key>>

DropCloseFile(t) ==
  /\ pc[t] = "drop"
  /\ flock' = [flock EXCEPT ![fd[t]] = None]
  /\ fd' = [fd EXCEPT ![t] = None]
  /\ IF registry = t
       THEN Goto(t, "unlink") /\ UNCHANGED key
       ELSE Goto(t, "idle") /\ key' = [key EXCEPT ![t] = None]
  /\ UNCHANGED <<registry, lockPath, record, bound, storeOpen>>

\* The result of remove_file is ignored: a failure leaves an orphan.
DropUnlink(t) ==
  /\ pc[t] = "unlink"
  /\ \/ lockPath' = [lockPath EXCEPT ![key[t]] = None]
     \/ UNCHANGED lockPath
  /\ Goto(t, "leave")
  /\ UNCHANGED <<registry, flock, record, bound, storeOpen, key, fd>>

(***************************************************************************)
(* A slot dies.  The kernel releases its locks and closes its files.       *)
(***************************************************************************)
Crash(s) ==
  LET dead == {t \in Task : SlotOf[t] = s} IN
  /\ registry' = IF registry \in dead THEN None ELSE registry
  /\ flock' = [i \in Inode |-> IF flock[i] \in dead THEN None ELSE flock[i]]
  /\ pc' = [t \in Task |-> IF t \in dead THEN "idle" ELSE pc[t]]
  /\ key' = [t \in Task |-> IF t \in dead THEN None ELSE key[t]]
  /\ fd' = [t \in Task |-> IF t \in dead THEN None ELSE fd[t]]
  /\ storeOpen' = storeOpen \ {s}
  /\ UNCHANGED <<lockPath, record, bound>>

\* The steps of a task that it takes by itself once started.
Progress(t) ==
  \/ BindStore(t) \/ LockRegistry(t) \/ RegistryTimeout(t)
  \/ OpenLock(t) \/ AcquireFails(t) \/ TryLock(t) \/ LeaveRegistry(t)
  \/ DropCloseFile(t) \/ DropUnlink(t)

Next ==
  \/ \E t \in Task :
       \/ OpenStore(t)
       \/ \E k \in Key : AcquireKey(t, k)
       \/ WriteRecord(t)
       \/ DropTryRegistry(t)
       \/ Progress(t)
  \/ \E s \in Slot : Crash(s)

Spec == Init /\ [][Next]_vars

\* No task is suspended for ever between two system calls: these sections
\* run on the blocking pool and wait for nothing but the two-second deadline.
FairSpec == Spec /\ \A t \in Task : WF_vars(Progress(t))

-----------------------------------------------------------------------------
(***************************************************************************)
(* Properties.                                                             *)
(***************************************************************************)

\* No request has two owners, in the same or in different slots, whatever the
\* order of opens, unlinks and crashes (module comment, lines 1 to 3).
MutualExclusion ==
  \A t, u \in Task : Owns(t) /\ Owns(u) /\ key[t] = key[u] => t = u

\* An owner's lock is on the inode that the name refers to now, so a later
\* acquire_key of the key finds it locked: never an unlinked, old inode.
OwnerOnLinkedInode ==
  \A t \in Task : Owns(t) => /\ flock[fd[t]] = t
                             /\ lockPath[key[t]] = fd[t]

\* A name is never unlinked while any task has its inode open (locked or
\* about to be): "another process may already have this inode" (Drop).
UnlinkOnlyAbandoned ==
  [][\A k \in Key : lockPath[k] # None /\ lockPath'[k] = None
        => \A t \in Task : fd[t] # lockPath[k]]_vars

\* A directory without an owner file holds no lock and no record, so no
\* crash between the two slots' startups makes Outbox::open refuse the
\* directory for ever.
BindingPrecedesEntries ==
  ~bound => record = {} /\ \A k \in Key : lockPath[k] = None

\* acquire_key returns: nobody waits for ever for the registry or for a
\* request lock, however busy the other tasks are.
AcquireReturns ==
  \A t \in Task : (pc[t] = "wait") ~> (pc[t] \in {"held", "idle"})

(***************************************************************************)
(* The inductive invariant behind the safety properties: who may hold the  *)
(* registry, which files are open, and that an unlinker's key is unowned.  *)
(***************************************************************************)
RegistrySection == {"bind", "open", "try", "leave", "unlink"}
HasKey == {"wait", "open", "try", "held", "drop", "unlink"}

RegistryInv ==
  \A t \in Task : /\ registry = t => pc[t] \in RegistrySection \cup {"drop"}
                  /\ pc[t] \in RegistrySection => registry = t

FileInv ==
  \A t \in Task : /\ fd[t] # None <=> pc[t] = "try" \/ Owns(t)
                  /\ pc[t] \in HasKey \/ Owns(t) => key[t] \in Key
                  /\ pc[t] = "try" => lockPath[key[t]] = fd[t]

FlockInv ==
  \A i \in Inode : flock[i] # None => Owns(flock[i]) /\ fd[flock[i]] = i

NamesDistinct ==
  \A k, l \in Key : lockPath[k] # None /\ lockPath[k] = lockPath[l] => k = l

UnlinkInv ==
  \A t, u \in Task : pc[t] = "unlink" /\ Owns(u) => key[u] # key[t]

BoundInv ==
  /\ storeOpen # {} => bound
  /\ \A t \in Task : pc[t] \in HasKey => bound

\* Everything the protocol relies on at every step: registry sections exclude
\* each other, locks and descriptors agree, and only a linked inode is locked.
IInv ==
  /\ TypeOK
  /\ RegistryInv
  /\ FileInv
  /\ OwnerOnLinkedInode
  /\ FlockInv
  /\ NamesDistinct
  /\ UnlinkInv
  /\ BoundInv
  /\ BindingPrecedesEntries

(***************************************************************************)
(* The files implement the abstract request lock.                          *)
(***************************************************************************)
owned == [t \in Task |-> IF Owns(t) THEN key[t] ELSE None]

Abstract == INSTANCE RequestLock WITH owns <- owned

ImplementsRequestLock == Abstract!Spec
=============================================================================
