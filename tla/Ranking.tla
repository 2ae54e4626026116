------------------------------ MODULE Ranking ------------------------------
(***************************************************************************)
(* Which of the offered routes a catalog lists, and in which order: the    *)
(* first half of MemoryStore.Replace in internal/catalog/store.go and the  *)
(* functions it calls.                                                     *)
(*                                                                         *)
(* A server is a record of its route (the number stands for candidateKey   *)
(* and for the ID hashed from it, so that < is the order of IDs), its      *)
(* source label, its country (Unknown for no code of two letters), its     *)
(* latency in ms and its throughput in kbps.                               *)
(***************************************************************************)
EXTENDS Integers, FiniteSets, SequencesExt

CONSTANTS
  Nearby,        \* nearbyTargetCountries, in order of preference
  Unknown,       \* no verified exit country
  Curated,       \* labels RussiaPreferredSource accepts
  NoLabel,       \* a candidate without a source
  PoolCap,       \* maxCatalogServers
  MaxPerCountry, \* maxRoutesPerCountry
  UsefulFloor    \* minimumUsefulRoutes

ASSUME RankingAssumption ==
  /\ Nearby \in Seq(ToSet(Nearby)) /\ IsInjective(Nearby)
  /\ Unknown \notin ToSet(Nearby)
  /\ NoLabel \notin Curated
  /\ {PoolCap, MaxPerCountry, UsefulFloor} \subseteq Nat \ {0}

\* Milliseconds and kbps.  MaxInt stands for the largest int, above every latency.
HighLatency == 1500
LowSpeed    == 1500
MaxInt      == 2147483647

Least(m, n) == IF m < n THEN m ELSE n

\* A server as far as the order sees it, and with all its fields.
Comparable(s) == s.route \in Nat /\ s.latency \in Int /\ s.speed \in Int

IsServer(s) ==
  /\ s = [route |-> s.route, source |-> s.source, country |-> s.country,
          latency |-> s.latency, speed |-> s.speed]
  /\ Comparable(s)

-----------------------------------------------------------------------------
(* The order of servers.                                                   *)

\* Zero throughput is an unknown one, not a low one.
QualityBand(s) ==
  IF s.latency <= 0 THEN 2
  ELSE IF s.latency > HighLatency \/ (s.speed > 0 /\ s.speed < LowSpeed) THEN 1
  ELSE 0

LatencyRank(s) == IF s.latency <= 0 THEN MaxInt ELSE s.latency

Faster(a, b) ==
  \/ QualityBand(a) < QualityBand(b)
  \/ /\ QualityBand(a) = QualityBand(b)
     /\ \/ LatencyRank(a) < LatencyRank(b)
        \/ LatencyRank(a) = LatencyRank(b) /\ a.speed > b.speed

SameSpeed(a, b) == Faster(a, b) <=> Faster(b, a)

\* Mutant of RankedBefore: servers of the same speed are in no order.
RankedByNumbers(a, b) == Faster(a, b)

\* The comparison both calls of sort.Slice are given.
RankedBefore(a, b) == IF SameSpeed(a, b) THEN a.route < b.route ELSE Faster(a, b)

\* No server precedes one that is ranked before it.
IsRanked(s) == \A i, j \in DOMAIN s : i < j => ~RankedBefore(s[j], s[i])

Firsts(rest) == {x \in rest : \A y \in rest : ~RankedBefore(y, x)}

Continued(begun, servers) ==
  UNION {{Append(s, x) : x \in Firsts(servers \ ToSet(s))} : s \in begun}

\* sort.Slice is not stable and the first one is given a map in random order: any
\* ranked sequence of the servers may come out.  They are built from the front, each
\* element being one that none of the rest is ranked before.
Arrangements(servers) ==
  LET Longer(begun, k) == Continued(begun, servers)
  IN FoldLeft(Longer, {<<>>}, [k \in 1..Cardinality(servers) |-> k])

-----------------------------------------------------------------------------
(* One server for each route.                                              *)

PreferredSource(label, previous) == label \in Curated /\ previous \notin Curated

\* Mutant of Better: the curated label wins over the measurements.
BetterLabel(c, previous) ==
  \/ PreferredSource(c.source, previous.source)
  \/ Faster(c, previous)

Better(c, previous) ==
  \/ Faster(c, previous)
  \/ SameSpeed(c, previous) /\ PreferredSource(c.source, previous.source)

\* Mutant of Labelled: a candidate without a label stays without one.
LabelledAsGiven(c, default) == c

\* A candidate without a label gets that of the caller.
Labelled(c, default) == IF c.source = NoLabel THEN [c EXCEPT !.source = default] ELSE c

OneServerForEachRoute(servers) ==
  \A a, b \in servers : a.route = b.route => a = b

\* A candidate takes the place of one of its route only if it is better.
Keep(kept, c) ==
  IF \E k \in kept : k.route = c.route /\ ~Better(c, k) THEN kept
  ELSE {k \in kept : k.route # c.route} \cup {c}

\* The map of candidates by key, after the loop over them.
Unique(candidates, default) ==
  FoldLeft(Keep, {}, [i \in DOMAIN candidates |-> Labelled(candidates[i], default)])

-----------------------------------------------------------------------------
(* Countries.                                                              *)

\* A server with no verified country is a bucket of its own.
CountryBucket(s) == <<s.country, IF s.country = Unknown THEN s.route ELSE 0>>

\* The round in which a server is due: the number of servers of its country up to it.
Turn(servers) ==
  [i \in DOMAIN servers |->
     Cardinality({j \in 1..i : CountryBucket(servers[j]) = CountryBucket(servers[i])})]

\* The place of its country in a round: the nearby countries in order of preference,
\* then the others in the order of their first server.
Place(servers) ==
  [i \in DOMAIN servers |->
     IF servers[i].country \in ToSet(Nearby)
       THEN CHOOSE n \in DOMAIN Nearby : Nearby[n] = servers[i].country
       ELSE Len(Nearby) + Min({j \in DOMAIN servers :
                                 CountryBucket(servers[j]) = CountryBucket(servers[i])})]

\* Round by round, and country by country in a round.
RoundByRound(servers) ==
  LET turn  == Turn(servers)
      place == Place(servers)
  IN {p \in (DOMAIN servers) \X (DOMAIN servers) :
        \/ turn[p[1]] < turn[p[2]]
        \/ turn[p[1]] = turn[p[2]] /\ place[p[1]] < place[p[2]]}

\* The servers within the cap of their country.
Due(servers, maxPerCountry) ==
  LET turn == Turn(servers) IN {i \in DOMAIN servers : turn[i] <= maxPerCountry}

\* The first n members of S in an order, a set of pairs.
FirstOf(S, n, order) == {i \in S : Cardinality({j \in S : <<j, i>> \in order}) < n}

\* The positions of the pool: rounds until the limit or the cap is reached; a pool below
\* the useful floor is filled up to it from the other servers, as they are ranked.
Pooled(servers, limit, maxPerCountry) ==
  LET selected == FirstOf(Due(servers, maxPerCountry), limit, RoundByRound(servers))
      left     == DOMAIN servers \ selected
      asRanked == {p \in left \X left : p[1] < p[2]}
      floor    == Least(limit, Least(UsefulFloor, Len(servers)))
  IN selected \cup FirstOf(left, floor - Cardinality(selected), asRanked)

\* Mutant of DiverseCountryPool: the fastest servers, whatever their countries.
FastestPool(servers, limit, maxPerCountry) ==
  {servers[i] : i \in 1..Least(limit, Len(servers))}

\* The order in which the servers are taken is lost when the pool is sorted.
DiverseCountryPool(servers, limit, maxPerCountry) ==
  {servers[i] : i \in Pooled(servers, limit, maxPerCountry)}

\* What Replace may list of the candidates: one server for each route, sorted, cut to
\* a diverse pool, sorted again.
Catalogs(candidates, default) ==
  LET Pool(ranked) == DiverseCountryPool(ranked, PoolCap, MaxPerCountry)
  IN UNION {Arrangements(Pool(ranked)) : ranked \in Arrangements(Unique(candidates, default))}

-----------------------------------------------------------------------------
(* What is expected of the choice, used by properties only.                *)

\* The same server to a client, except that the label may be another of its kind.
Similar(a, b) ==
  /\ a.route = b.route /\ a.country = b.country
  /\ a.latency = b.latency /\ a.speed = b.speed
  /\ a.source \in Curated <=> b.source \in Curated

\* No two offers of a route that measured the same name different countries.
CountriesAgree(offers) ==
  \A a, b \in offers : a.route = b.route /\ SameSpeed(a, b) => a.country = b.country

OfCountry(servers, b) == {s \in servers : CountryBucket(s) = b}

\* The catalog is within its bounds, those Refresh assumes of it as Kept; beyond the
\* cap of a country it holds only what fills it to the useful floor; a country has two
\* servers more than another only if that one offers no more or is at its cap; a
\* farther country has more than a nearby one only then; and of a country the fastest
\* stay.
SharesThePool(kept, offered) ==
  LET Kept      == ToSet(kept)
      Size(b)   == Cardinality(OfCountry(Kept, b))
      Buckets   == {CountryBucket(s) : s \in offered}
      IsNear(b) == b[1] \in ToSet(Nearby)
      IsServed(b) == OfCountry(Kept, b) = OfCountry(offered, b) \/ Size(b) >= MaxPerCountry
  IN /\ Len(kept) <= PoolCap
     /\ Len(kept) >= Least(PoolCap, Least(UsefulFloor, Cardinality(offered)))
     /\ \A b \in Buckets : Size(b) > MaxPerCountry => Len(kept) <= UsefulFloor
     /\ \A b, c \in Buckets :
          \/ Size(b) > Size(c) + 1
          \/ Size(b) > Size(c) /\ IsNear(c) /\ ~IsNear(b)
          => IsServed(c)
     /\ \A s \in Kept, o \in offered \ Kept :
          CountryBucket(s) = CountryBucket(o) => ~Faster(o, s)
=============================================================================
