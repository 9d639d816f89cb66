-------------------------- MODULE MCMoneyAdmission --------------------------
(* Three requests of a member, in one slot or in both.                       *)
EXTENDS MoneyAdmission

CONSTANTS slotA, slotB, m1, r1, r2, r3

MCSlotOf == [r \in {r1, r2, r3} |-> IF r = r3 THEN slotB ELSE slotA]
MCOneSlot == [r \in {r1, r2, r3} |-> slotA]
MCMemberOf == [r \in {r1, r2, r3} |-> m1]
MCReference == [r \in {r1, r2, r3} |-> IF r = r1 THEN 2 ELSE 1]
\* One execution may cost more than its reference.
MCMaxCost == [r \in {r1, r2, r3} |-> IF r = r3 THEN 1 ELSE 2]
=============================================================================
