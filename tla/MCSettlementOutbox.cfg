\* Two keys: contention on one, and locks of different requests side by
\* side.  Three inodes, one per task, so that a freed one is handed out again.
SPECIFICATION FairSpec
CONSTANTS
  slotA = slotA  slotB = slotB
  a1 = a1  a2 = a2  b1 = b1
  None = None
  Key = {k1, k2}
  Inode = {i1, i2, i3}
  Slot <- MCSlot
  Task <- MCTask
  SlotOf <- MCSlotOf
PROPERTY ImplementsRequestLock
