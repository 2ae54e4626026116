\* The default limit of the local importer, and a catalog an earlier launch with
\* that limit published.
CONSTANTS
  Limit = 12
  CuratedSlots = 12
  CuratedSources <- OneSource
  MaxExisting = 12
  MaxPerSource = 2
  MaxBroader = 1
  MaxSlot = 0
SPECIFICATION Spec
INVARIANTS LimitIsKept
CHECK_DEADLOCK FALSE
