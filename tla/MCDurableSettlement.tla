------------------------- MODULE MCDurableSettlement -------------------------
(* Two slots with one scanner each.  The requests arrive at the first slot,  *)
(* so that after its crash the scanner of the other one races its own.       *)
EXTENDS DurableSettlement

CONSTANTS slotA, slotB, scanA, scanB

MCSlotOf == [t \in Request \cup Scanner |->
               IF t = scanB THEN slotB ELSE slotA]
=============================================================================
