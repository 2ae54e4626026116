---------------------------- MODULE Publication ----------------------------
(***************************************************************************)
(* One publication, from lines of text to an ordered catalog: the merge of *)
(* Runner.Refresh in internal/importer/importer.go, the results of its     *)
(* check, and MemoryStore.Replace, for a refresh with a checker whose      *)
(* limit holds every candidate and for callers that replace directly.      *)
(* Refresh models the goroutines of a refresh, CatalogStore those of the   *)
(* store, Sampling the selection under a limit.                            *)
(***************************************************************************)
EXTENDS Ranking

CONSTANTS
  Feeds,         \* labels of the sources, in the order of the configuration
  Texts,         \* the texts each feed may have: sequences of lines
  Invalid,       \* a line ParseVLESS rejects; other lines are the route they parse to
  SavedCatalogs, \* the catalogs the store may have read from its file
  Measurements,  \* country, latency and throughput a probe may report
  Batches,       \* candidates a direct caller of Replace may pass
  DefaultLabel   \* the source argument of Replace

\* A server Replace may be given: ParseVLESS accepted its route, and what was measured
\* of it, if anything, was a duration and a rate.
IsOffer(s) ==
  /\ IsServer(s) /\ s.route # Invalid
  /\ s.latency \in Nat /\ s.speed \in Nat

IsBatch(b) == b \in Seq(ToSet(b)) /\ \A s \in ToSet(b) : IsOffer(s)

\* What the store publishes, now or in an earlier process.
IsCatalog(c) ==
  /\ IsBatch(c) /\ \A s \in ToSet(c) : s.source # NoLabel
  /\ OneServerForEachRoute(ToSet(c)) /\ IsInjective(c)

AreLines(sourced) ==
  sourced \in Seq(ToSet(sourced)) /\ \A l \in ToSet(sourced) : l.route \in Nat

ASSUME PublicationAssumption ==
  /\ Feeds \in Seq(ToSet(Feeds)) /\ IsInjective(Feeds)
  /\ \A f \in ToSet(Feeds) : Texts[f] \subseteq Seq(Nat)
  /\ \A s \in SavedCatalogs : IsCatalog(s)
  /\ \A m \in Measurements :
       m.latency \in Nat /\ m.speed \in Nat /\ m.country # Unknown
  /\ \A b \in Batches : IsBatch(b)
  /\ DefaultLabel # NoLabel

VARIABLES
  catalog,    \* the servers of the catalog, in order
  phase,      \* "idle", "merge", "check", "replace" or "done"
  lines,      \* all: the sourced lines downloaded
  candidates, \* route and label of each candidate
  batch       \* the argument of Replace

vars == <<catalog, phase, lines, candidates, batch>>

Init ==
  /\ catalog \in SavedCatalogs
  /\ phase = "idle"
  /\ lines = <<>>
  /\ candidates = {}
  /\ batch = <<>>

-----------------------------------------------------------------------------
(* The merge.                                                              *)

\* The texts of the feeds, one feed after another.  A feed that is unavailable
\* contributes the lines of an earlier text, or none.
Download ==
  /\ phase = "idle"
  /\ \E text \in [ToSet(Feeds) -> UNION {Texts[f] : f \in ToSet(Feeds)}] :
       /\ \A f \in ToSet(Feeds) : text[f] \in Texts[f]
       /\ lines' = FlattenSeq([i \in DOMAIN Feeds |->
                     [j \in DOMAIN text[Feeds[i]] |->
                        [route |-> text[Feeds[i]][j], source |-> Feeds[i]]]])
  /\ phase' = "merge"
  /\ UNCHANGED <<catalog, candidates, batch>>

Listed(servers) == {[route |-> s.route, source |-> s.source] : s \in ToSet(servers)}

\* Mutant of MergeLine: the last curated feed gives its label.
MergeLatest(merged, line) ==
  IF line.route = Invalid THEN merged
  ELSE IF \A c \in merged : c.route # line.route THEN merged \cup {line}
  ELSE {IF c.route = line.route /\ line.source \in Curated THEN line ELSE c : c \in merged}

\* A line that is a new route is a candidate; one that is not may still give its
\* curated label to a candidate without one.
MergeLine(merged, line) ==
  IF line.route = Invalid THEN merged
  ELSE IF \A c \in merged : c.route # line.route THEN merged \cup {line}
  ELSE {IF c.route = line.route /\ PreferredSource(line.source, c.source)
          THEN line ELSE c : c \in merged}

\* The published routes come first, then the lines in their order.
Merged(published, sourced) == FoldLeft(MergeLine, Listed(published), sourced)

Merge ==
  /\ phase = "merge"
  /\ candidates' = Merged(catalog, lines)
  /\ phase' = IF candidates' = {} THEN "done" ELSE "check"
  /\ lines' = <<>>
  /\ UNCHANGED <<catalog, batch>>

-----------------------------------------------------------------------------
(* The results and the replacement.                                        *)

\* check() returns the candidates accepted, in the order of their results, of which one
\* is enough (OneOrderIsEnough in PublicationProofs); they carry what was measured in
\* place of what the feed or the old catalog said.
Check ==
  /\ phase = "check"
  /\ \E accepted \in SUBSET candidates : \E measured \in [accepted -> Measurements] :
       /\ batch' = SetToSeq({[route   |-> c.route,
                              source  |-> c.source,
                              country |-> measured[c].country,
                              latency |-> measured[c].latency,
                              speed   |-> measured[c].speed] : c \in accepted})
       /\ phase' = IF accepted = {} THEN "done" ELSE "replace"
  /\ candidates' = {}
  /\ UNCHANGED <<catalog, lines>>

\* A caller that does not come from Refresh may offer a route more than once.
CallReplace ==
  /\ phase = "idle"
  /\ batch' \in Batches
  /\ phase' = IF batch' = <<>> THEN "done" ELSE "replace"
  /\ UNCHANGED <<catalog, lines, candidates>>

Replace ==
  /\ phase = "replace"
  /\ catalog' \in Catalogs(batch, DefaultLabel)
  /\ phase' = "done"
  /\ batch' = <<>>
  /\ UNCHANGED <<lines, candidates>>

\* Signing or persisting fails.
ReplaceFails ==
  /\ phase = "replace"
  /\ phase' = "done"
  /\ batch' = <<>>
  /\ UNCHANGED <<catalog, lines, candidates>>

Next == Download \/ Merge \/ Check \/ CallReplace \/ Replace \/ ReplaceFails

Spec == Init /\ [][Next]_vars

-----------------------------------------------------------------------------
(* Properties.                                                             *)

TypeOK ==
  /\ phase \in {"idle", "merge", "check", "replace", "done"}
  /\ IsCatalog(catalog)
  /\ AreLines(lines)
  /\ OneServerForEachRoute(candidates) /\ \A c \in candidates : c.route \in Nat \ {Invalid}
  /\ IsBatch(batch)
  /\ phase # "merge" => lines = <<>>
  /\ phase # "check" => candidates = {}
  /\ phase = "replace" <=> batch # <<>>

\* One candidate of each route published or listed.  Its label is one under which it
\* was published or listed, a curated one if there is any, and the published one
\* unless that is the historical label of a route a curated feed now lists.
IsMergeOf(merged, published, listed) ==
  LET Had(r)  == {s.source : s \in {s \in published : s.route = r}}
      Told(r) == {l.source : l \in {l \in listed : l.route = r}}
  IN /\ {c.route : c \in merged} = {e.route : e \in published \cup listed} \ {Invalid}
     /\ OneServerForEachRoute(merged)
     /\ \A c \in merged :
          /\ c.source \in Had(c.route) \cup Told(c.route)
          /\ (Had(c.route) \cup Told(c.route)) \cap Curated # {} => c.source \in Curated
          /\ Had(c.route) \cap Curated # {} \/ Told(c.route) \cap Curated = {} =>
               Had(c.route) \in {{}, {c.source}}

\* The loop over the lines, whatever their order, only ever adds or upgrades a label
\* (the comment in the merge loop of Refresh).
MergeKeepsProvenance ==
  [][phase = "merge" => IsMergeOf(candidates', ToSet(catalog), ToSet(lines))]_vars

\* Go's random map order and its unstable sort do not show: the offers have one
\* catalog.  Nor does the order in which results arrive, unless two of them give a
\* route the same measurements and different countries, which Refresh never offers:
\* another order may only exchange labels of offers that are both curated or both not.
PublicationIsDetermined ==
  phase = "replace" =>
    /\ Cardinality(Catalogs(batch, DefaultLabel)) = 1
    /\ CountriesAgree(ToSet(batch)) =>
         \A c \in Catalogs(batch, DefaultLabel) :
           \A d \in Catalogs(Reverse(batch), DefaultLabel) :
             Len(c) = Len(d) /\ \A i \in DOMAIN c : Similar(c[i], d[i])

Replaced == phase = "replace" /\ catalog' # catalog

\* A route offered several times is published with the best of its measurements and,
\* among those, under a curated label if it has one; and the catalog is ordered by
\* speed although its pool was chosen by country.
BestOfferIsPublished ==
  [][Replaced =>
       /\ \A s \in ToSet(catalog') : \A c \in ToSet(batch) :
            c.route = s.route =>
              /\ ~Faster(c, s)
              /\ SameSpeed(c, s) /\ c.source \in Curated => s.source \in Curated
       /\ \A j \in DOMAIN catalog' : \A i \in 1..(j - 1) :
            ~Faster(catalog'[j], catalog'[i])]_vars

\* No country crowds out the others (the comment of diverseCountryPool): of the
\* offers that are left, one for each route, what is published shares the pool.
CountriesShareThePool ==
  [][Replaced => SharesThePool(catalog', Unique(batch, DefaultLabel))]_vars
=============================================================================
