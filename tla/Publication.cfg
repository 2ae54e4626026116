\* A curated feed after another one, four routes, and direct callers that offer a route
\* several times or six routes in any countries.  The worker exits after one
\* publication.
CONSTANTS
  Nearby <- TwoNearby
  Unknown = "unknown"
  Curated <- Curation
  NoLabel = "none"
  PoolCap = 4
  MaxPerCountry = 2
  UsefulFloor = 3
  Feeds <- TwoFeeds
  Texts <- UpToTwoLines
  Invalid = 0
  SavedCatalogs <- FewSaved
  Measurements <- FewMeasurements
  Batches <- DirectBatches
  DefaultLabel = "public-vless-feeds"
SPECIFICATION Spec
INVARIANTS TypeOK PublicationIsDetermined
PROPERTIES MergeKeepsProvenance BestOfferIsPublished CountriesShareThePool
CHECK_DEADLOCK FALSE
