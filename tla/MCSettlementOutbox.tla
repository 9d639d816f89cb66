------------------------- MODULE MCSettlementOutbox -------------------------
(* Two slots; the first has two tasks, so that both the races inside one    *)
(* process and those between processes occur.                               *)
EXTENDS SettlementOutbox

CONSTANTS slotA, slotB, a1, a2, b1

MCSlot == {slotA, slotB}
MCTask == {a1, a2, b1}
MCSlotOf == [t \in MCTask |-> IF t = b1 THEN slotB ELSE slotA]

=============================================================================
