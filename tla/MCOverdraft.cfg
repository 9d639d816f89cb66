\* Stale balances and the tracker of the other slot.
SPECIFICATION Spec
CONSTANTS
  slotA = slotA  slotB = slotB  m1 = m1  r1 = r1  r2 = r2  r3 = r3
  Unlimited = Unlimited
  Slot = {slotA, slotB}
  Member = {m1}
  Reservation = {r1, r2, r3}
  SlotOf <- MCSlotOf
  MemberOf <- MCMemberOf
  Reference <- MCReference
  MaxCost <- MCReference
  Opening = 2
  Limits = {2, Unlimited}
  GrantAmount = 1
  MaxGrants = 0
  MaxPolls = 1
INVARIANT OverdraftByOneRequest
