CONSTANTS
  w1 = w1
  w2 = w2
  Items <- MCItems
  Capacity = 4
  NoItem = NoItem
SPECIFICATION FairSpec
INVARIANTS TypeOK NoSlotRace
PROPERTIES FifoSpec EverythingDrained
