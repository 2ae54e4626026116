\* The six hours of the code, four revisions and two developer pushes.
CONSTANTS
  Lifetime = 6
  MaxRevision = 4
  MaxPushes = 2
SPECIFICATION FairSpec
INVARIANTS TypeOK GreenIsFresh
PROPERTIES RevisionsGoForward CatalogIsRenewed
