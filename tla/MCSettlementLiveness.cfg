\* Liveness for one request with a token reservation and one billed in money.
SPECIFICATION FairSpec
CONSTANTS
  slotA = slotA  slotB = slotB  scanA = scanA  scanB = scanB
  None = None  m = m  q = q
  Slot = {slotA}
  Scanner = {scanA}
  Request = {m, q}
  Money = {m}
  SlotOf <- MCSlotOf
PROPERTIES ReservationsClose PublishedSettles
