--------------------------- MODULE MCCatalogStore ---------------------------
(* Instances of CatalogStore for TLC.                                      *)
EXTENDS CatalogStoreProofs

CONSTANTS api, checker, h1, h2, w1, w2

\* The deployment of cmd/api: the API process serves, the checker imports, and
\* its own goroutines read the catalog too.
HomeOneImporter == [t \in Threads |-> IF t = h1 THEN api ELSE checker]

\* ENABLE_IMPORTER in the API process beside a checker on the same file.
HomeTwoImporters == [t \in Threads |-> IF t \in {h1, w1} THEN api ELSE checker]
=============================================================================
