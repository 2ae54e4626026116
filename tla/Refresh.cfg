\* Refresh after refresh by workers with and without a checker, from an empty catalog,
\* with a limit of exactly one pool: every interleaving of downloads, probes, the
\* deadline and crashes.
CONSTANTS
  mobile = mobile
  generic = generic
  r1 = r1
  r2 = r2
  r3 = r3
  Sources = {mobile, generic}
  Preferred = {mobile}
  Routes = {r1, r2, r3}
  Contents <- ContentsOfBoth
  InitialPools = {{}}
  Checkers = {TRUE, FALSE}
  MaxCandidates = 2
  FetchSlots = 1
  Parallelism = 2
  PoolCap = 2
  UsefulFloor = 1
SPECIFICATION FairSpec
INVARIANTS TypeOK
PROPERTIES NoPartialPublication EvictionIsEarned PublicationIsFresh CuratedLabelIsKept
PROPERTIES UncheckedIsListed RefreshEnds
