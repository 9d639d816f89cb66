---------------------------- MODULE RequestLock ----------------------------
(***************************************************************************)
(* What the settlement outbox promises its callers, without files: a       *)
(* request key has at most one owner among all tasks of all Control slots, *)
(* an owner keeps it until it lets go, and a crash of a slot lets go of    *)
(* everything its tasks own.  SettlementOutbox implements this with two    *)
(* levels of advisory file locks; DurableSettlement builds on it.          *)
(***************************************************************************)
CONSTANTS Slot,      \* the Control processes sharing one installation
          Task,      \* the tasks of all of them
          SlotOf,    \* which slot a task runs in
          Key,       \* request keys
          None       \* no key

VARIABLE owns        \* the key a task is the owner of, or None

Init == owns = [t \in Task |-> None]

\* Outbox::acquire_key returned Some: nobody else owned the key.
Acquire(t, k) ==
  /\ owns[t] = None
  /\ \A u \in Task : owns[u] # k
  /\ owns' = [owns EXCEPT ![t] = k]

\* The last reference to the RequestLock was dropped.
Release(t) ==
  /\ owns[t] # None
  /\ owns' = [owns EXCEPT ![t] = None]

\* The kernel closes every descriptor of a dead process.
Crash(s) ==
  owns' = [t \in Task |-> IF SlotOf[t] = s THEN None ELSE owns[t]]

Next ==
  \/ \E t \in Task, k \in Key : Acquire(t, k)
  \/ \E t \in Task : Release(t)
  \/ \E s \in Slot : Crash(s)

Spec == Init /\ [][Next]_owns
=============================================================================
