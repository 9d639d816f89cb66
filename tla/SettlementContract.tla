------------------------- MODULE SettlementContract -------------------------
(***************************************************************************)
(* What the settlement of model requests promises, without crashes, locks  *)
(* and retries.  The first durable outcome of a request decides it; the    *)
(* request is entered in the ledger at most once, with the entry of that   *)
(* outcome; a reservation that expired without any outcome is entered as   *)
(* expired and takes no outcome afterwards.                                *)
(***************************************************************************)
CONSTANTS Request, Outcome,
          EntryFor(_, _),   \* the ledger entry of a request's outcome
          ExpiredEntry,     \* the entry of an expired reservation
          None

VARIABLES promised,         \* the durable outcome of a request, or None
          entry             \* its ledger entry, or None

vars == <<promised, entry>>

Init == promised = [r \in Request |-> None] /\ entry = [r \in Request |-> None]

Promise(r, o) ==
  /\ promised[r] = None /\ entry[r] = None
  /\ promised' = [promised EXCEPT ![r] = o]
  /\ UNCHANGED entry

Settle(r) ==
  /\ promised[r] # None /\ entry[r] = None
  /\ entry' = [entry EXCEPT ![r] = EntryFor(r, promised[r])]
  /\ UNCHANGED promised

Expire(r) ==
  /\ promised[r] = None /\ entry[r] = None
  /\ entry' = [entry EXCEPT ![r] = ExpiredEntry]
  /\ UNCHANGED promised

Next == \E r \in Request :
  \/ \E o \in Outcome : Promise(r, o)
  \/ Settle(r)
  \/ Expire(r)

Spec == Init /\ [][Next]_vars
=============================================================================
