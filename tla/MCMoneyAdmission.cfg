\* Three requests of one member in one slot; the balance covers two of them.
SPECIFICATION FairSpec
CONSTANTS
  slotA = slotA  slotB = slotB  m1 = m1  r1 = r1  r2 = r2  r3 = r3
  Unlimited = Unlimited
  Slot = {slotA, slotB}
  Member = {m1}
  Reservation = {r1, r2, r3}
  SlotOf <- MCOneSlot
  MemberOf <- MCMemberOf
  Reference <- MCReference
  MaxCost <- MCMaxCost
  Opening = 2
  Limits = {1, Unlimited}
  GrantAmount = 1
  MaxGrants = 1
  MaxPolls = 1
INVARIANT ExposureCovered
PROPERTY ReservationReturns
