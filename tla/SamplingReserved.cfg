\* One curated source and the twelve reserved slots of the code.
CONSTANTS
  Limit = 16
  CuratedSlots = 12
  CuratedSources <- OneSource
  MaxExisting = 1
  MaxPerSource = 13
  MaxBroader = 8
  MaxSlot = 3
SPECIFICATION Spec
INVARIANTS ReservedSlotsAreUsed
CHECK_DEADLOCK FALSE
