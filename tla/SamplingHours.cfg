\* Two curated sources and another feed of every size up to the bounds, for as many
\* hours as routes are offered, at the end of which the behaviour stops.
CONSTANTS
  Limit = 4
  CuratedSlots = 2
  CuratedSources <- TwoSources
  MaxExisting = 5
  MaxPerSource = 3
  MaxBroader = 6
  MaxSlot = 5
SPECIFICATION Spec
INVARIANTS SelectionIsFull BroaderIsCovered CuratedIsCovered EverySourceHasATurn
PROPERTIES AdjacentHoursDiffer
CHECK_DEADLOCK FALSE
