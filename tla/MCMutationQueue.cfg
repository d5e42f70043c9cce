\* Four calls, two lines with room for three, and a shutdown in the middle.
SPECIFICATION FairSpec
CONSTANTS
  Task = {1, 2, 3, 4}
  Document = {1, 2}
  Capacity = 3
  MaxShutdowns = 1
  None = None
CONSTRAINT UsedInOrder
INVARIANTS
  MutualExclusion
  ServedInOrder
PROPERTIES
  CriticalSlotReserved
  EveryCallSettles
  ImplementsLines
CHECK_DEADLOCK FALSE
