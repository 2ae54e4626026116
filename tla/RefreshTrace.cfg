\* A checked worker whose limit holds the whole pool, from a catalog already published:
\* the country trace of a route may fail although the route works.
CONSTANTS
  mobile = mobile
  generic = generic
  r1 = r1
  r2 = r2
  r3 = r3
  Sources = {mobile, generic}
  Preferred = {mobile}
  Routes = {r1, r2, r3}
  Contents <- ContentsOfBoth
  InitialPools <- PoolsOfTwo
  Checkers = {TRUE}
  MaxCandidates = 2
  FetchSlots = 1
  Parallelism = 2
  PoolCap = 2
  UsefulFloor = 1
SPECIFICATION Spec
PROPERTIES OneFailureEvictsNobody
