\* Settlement: one request of each kind, unlimited crashes and failing calls.
\* Host: one installation, backup and restore, two operators, one fault.
\* Client: three commands of the member and one edit between them.
SPECIFICATION MCSpec
CONSTANTS
  slotA = slotA  slotB = slotB  scanA = scanA  scanB = scanB
  None = None  m = m  q = q
  Slot = {slotA, slotB}
  Scanner = {scanA, scanB}
  Request = {m, q}
  Money = {m}
  SlotOf <- MCSlotOf
  NoOne = NoOne
  Operators = {o1, o2}  Installers = {o2}
  MaxGenerations = 2  MaxRestores = 1  MaxArchives = 1  MaxHostFaults = 1
  Url = {A, B}  Merged = {m1}  ApiKey = {k}  Chosen = {u}  Rendered = {s1, s2}
  Aster = Aster  Reserved = Reserved  Edited = Edited  Absent = Absent
  MaxEdits = 1  MaxSetups = 3
INVARIANTS LedgerMatchesPromise HostSound ClientSound
PROPERTIES CommandsComplete NoReclaimDuringExecution ImplementsContract
CHECK_DEADLOCK FALSE
