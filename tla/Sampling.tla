------------------------------ MODULE Sampling ------------------------------
(***************************************************************************)
(* Which candidates a bounded worker probes: selectRefreshCandidates of    *)
(* internal/importer/importer.go and the rotation below it, for a worker   *)
(* that starts afresh in every hourly slot while feeds and catalog stay    *)
(* the same.  A candidate is a record of its route (catalog.RouteKey) and  *)
(* its source label.                                                       *)
(***************************************************************************)
EXTENDS Integers, FiniteSets, SequencesExt

CONSTANTS
  Limit,          \* WithMaxCandidates
  CuratedSlots,   \* russiaPreferredCandidateSlots
  CuratedSources, \* the labels RussiaPreferredSource accepts, in string order
  MaxExisting,    \* bound: routes of the published catalog
  MaxPerSource,   \* bound: incoming routes of each curated source
  MaxBroader,     \* bound: incoming routes of the other sources
  MaxSlot         \* bound: first hourly slot considered

ASSUME SamplingAssumption ==
  /\ {Limit, CuratedSlots} \subseteq Nat \ {0}
  /\ CuratedSources \in Seq(STRING) /\ IsInjective(CuratedSources)
  /\ {"published", "broader"} \cap ToSet(CuratedSources) = {}
  /\ {MaxExisting, MaxPerSource, MaxBroader, MaxSlot} \subseteq Nat

VARIABLES
  existing, \* the published routes
  incoming, \* the parsed routes of the feeds that are not published
  slot,     \* now / candidateSampleSlot
  selected, \* what the worker of the slot probes
  hours,    \* history: workers so far
  tried     \* history: the routes they probed

vars == <<existing, incoming, slot, selected, hours, tried>>

-----------------------------------------------------------------------------
(* The rotation.                                                           *)

Least(m, n) == IF m < n THEN m ELSE n
RoutesOf(candidates) == {c.route : c \in ToSet(candidates)}

\* The candidates a loop appends if they are among the chosen.
Those(candidates, chosen) ==
  LET Add(sofar, c) == IF c \in chosen THEN Append(sofar, c) ELSE sofar
  IN FoldLeft(Add, <<>>, candidates)

CuratedOf(candidates) ==
  Those(candidates, {c \in ToSet(candidates) : c.source \in ToSet(CuratedSources)})
BroaderOf(candidates) ==
  Those(candidates, {c \in ToSet(candidates) : c.source \notin ToSet(CuratedSources)})
OfSource(candidates, source) ==
  Those(candidates, {c \in ToSet(candidates) : c.source = source})
FreshOf(candidates, excluded) ==
  Those(candidates, {c \in ToSet(candidates) : c.route \notin RoutesOf(excluded)})

\* greatestCommonDivisor, for positive arguments.
Coprime(m, n) == \A d \in 2..Least(m, n) : m % d # 0 \/ n % d # 0

\* Mutant of CoprimeRotationStride: any stride will do.
StrideAsGiven(size, preferred) == IF size <= 1 THEN 0 ELSE preferred % size

\* The first stride from preferred on that is coprime with size, size itself
\* being followed by 1.
CoprimeRotationStride(size, preferred) ==
  LET first == IF preferred % size = 0 THEN 1 ELSE preferred % size
      Stride(k) == IF first + k < size THEN first + k ELSE first + k - size + 1
  IN IF size <= 1 THEN 0
     ELSE Stride(CHOOSE k \in 0..size :
                   /\ Coprime(Stride(k), size)
                   /\ \A j \in 0..(k - 1) : ~Coprime(Stride(j), size))

SampleAt(candidates, limit, now) ==
  LET size == Len(candidates)
      offset == ((now % size) * CoprimeRotationStride(size, limit + 1)) % size
  IN IF limit <= 0 \/ size <= limit THEN candidates
     ELSE [i \in 1..limit |->
             candidates[((((i - 1) * size) \div limit + offset) % size) + 1]]

\* Mutant of SampleWithoutRoutes: nothing is excluded.
SampleWithRoutes(candidates, excluded, limit, now) ==
  IF limit <= 0 THEN <<>> ELSE SampleAt(candidates, limit, now)

SampleWithoutRoutes(candidates, excluded, limit, now) ==
  IF limit <= 0 THEN <<>> ELSE SampleAt(FreshOf(candidates, excluded), limit, now)

\* The choices of a source whose routes are not taken, while there is room.
TakeNew(taken, choices, limit) ==
  LET Take(sofar, c) ==
        IF c.route \in RoutesOf(sofar) \/ Len(sofar) >= limit
          THEN sofar ELSE Append(sofar, c)
  IN FoldLeft(Take, taken, choices)

\* One pass over the sources, each offering its sample of pass + 1 routes.
SourcesPass(candidates, limit, now, taken, pass) ==
  LET Offer(sofar, source) ==
        TakeNew(sofar, SampleAt(OfSource(candidates, source), pass + 1, now), limit)
  IN FoldLeft(Offer, taken, CuratedSources)

\* Mutant of SamplePreferredBySource: one sample of all curated routes.
SamplePreferredTogether(candidates, limit, now) ==
  IF limit <= 0 THEN candidates ELSE SampleAt(candidates, limit, now)

\* Passes go on until the limit is reached or one of them adds nothing.
SamplePreferredBySource(candidates, limit, now) ==
  LET Pass(loop, pass) ==
        LET taken == SourcesPass(candidates, limit, now, loop.taken, pass)
        IN IF loop.over THEN loop
           ELSE [taken |-> taken, over |-> taken = loop.taken]
  IN IF limit <= 0 \/ Len(candidates) <= limit THEN candidates
     ELSE FoldLeft(Pass, [taken |-> <<>>, over |-> FALSE],
                   [i \in 1..limit |-> i - 1]).taken

-----------------------------------------------------------------------------
\* The slots of the worker that are reserved for curated sources.
Reserved(published, parsed, limit) ==
  Least(Least(limit - Len(published), CuratedSlots), Len(CuratedOf(parsed)))

\* Mutant of SelectRefreshCandidates: no slots are reserved.
SelectUnreserved(published, parsed, limit, now) ==
  LET first == published
        \o SampleWithoutRoutes(BroaderOf(parsed), published,
                               limit - Len(published), now)
  IN IF Len(published) > limit THEN SampleAt(published, limit, now)
     ELSE first \o SampleWithoutRoutes(CuratedOf(parsed), first,
                                       limit - Len(first), now)

SelectRefreshCandidates(published, parsed, limit, now) ==
  LET preferred == CuratedOf(parsed)
      broader   == BroaderOf(parsed)
      first  == published
                  \o SamplePreferredBySource(preferred, Reserved(published, parsed, limit), now)
      second == first \o SampleWithoutRoutes(broader, first, limit - Len(first), now)
  IN IF Len(published) > limit THEN SampleAt(published, limit, now)
     ELSE second \o SampleWithoutRoutes(preferred, second, limit - Len(second), now)

\* n routes with one label, in the order their source lists them.
From(source, n) == [i \in 1..n |-> [route |-> <<source, i>>, source |-> source]]

\* n[i] routes of each curated source.
CuratedFeeds(n) ==
  LET Join(sofar, i) == sofar \o From(CuratedSources[i], n[i])
  IN FoldLeftDomain(Join, <<>>, CuratedSources)

Init ==
  /\ \E n \in 0..MaxExisting : existing = From("published", n)
  /\ \E n \in [DOMAIN CuratedSources -> 0..MaxPerSource], m \in 0..MaxBroader :
       incoming = CuratedFeeds(n) \o From("broader", m)
  /\ slot \in 0..MaxSlot
  /\ selected = <<>>
  /\ hours = 0
  /\ tried = {}

\* The worker of the next hour.
Refresh ==
  /\ hours < Len(incoming)
  /\ selected' = SelectRefreshCandidates(existing, incoming, Limit, slot)
  /\ tried' = tried \cup RoutesOf(selected')
  /\ slot' = slot + 1
  /\ hours' = hours + 1
  /\ UNCHANGED <<existing, incoming>>

Next == Refresh
Spec == Init /\ [][Next]_vars

-----------------------------------------------------------------------------
(* Properties.                                                             *)

Curated == CuratedOf(incoming)
Offering(candidates) ==
  {source \in ToSet(CuratedSources) : \E c \in ToSet(candidates) : c.source = source}

\* A worker probes no route twice, and leaves no slot free while a candidate is
\* left: the three samples of a selection neither overlap nor fall short.  (A
\* catalog that fills the worker exactly is the case of LimitIsKept.)
SelectionIsFull ==
  hours > 0 /\ Len(existing) # Limit =>
    /\ Cardinality(RoutesOf(selected)) = Len(selected)
    /\ Len(selected) = Least(Limit, Len(existing) + Len(incoming))

\* As many hourly workers as a feed has routes have probed all of them, whatever
\* the hour of the first, if the catalog leaves a slot free.
BroaderIsCovered ==
  hours = Len(incoming) /\ Curated = <<>> /\ Len(existing) < Limit
    => RoutesOf(incoming) \subseteq tried

\* Next to other feeds of any size, every route of the curated sources is probed
\* in at most as many hours as routes are offered, if the worker and its reserve
\* have a slot for each source.
CuratedIsCovered ==
  hours = Len(incoming) /\ Len(CuratedSources) <= Least(Limit - Len(existing), CuratedSlots)
    => RoutesOf(Curated) \subseteq tried

\* No curated source is left out in an hour that reserves a slot for each, however
\* many routes the others list.
EverySourceHasATurn ==
  hours > 0 /\ Len(existing) <= Limit
    /\ Reserved(existing, incoming, Limit) >= Len(CuratedSources)
    => Offering(incoming) \subseteq Offering(selected)

\* The worker has a slot free for incoming routes, but not one for each.
Overflowing == Len(existing) < Limit /\ Limit < Len(existing) + Len(incoming)

\* While a feed does not fit, two adjacent hours never probe the same routes.
AdjacentHoursDiffer ==
  [][hours > 0 /\ Curated = <<>> /\ Overflowing
       => RoutesOf(selected') # RoutesOf(selected)]_vars

\* The limit bounds the routes a worker probes (README and WithMaxCandidates).
\* When the published routes fill it exactly no slot is reserved, and asked for
\* no route samplePreferredBySource returns every curated one.
LimitIsKept == Len(selected) <= Limit

\* The slots reserved for curated routes are used for them (the comment on
\* russiaPreferredCandidateSlots); a pass that adds no route, because the sample
\* of the next size happens to repeat the routes taken, ends the loop too early.
ReservedSlotsAreUsed ==
  hours > 0 /\ Len(existing) <= Limit
    => Len(CuratedOf(selected)) >= Reserved(existing, incoming, Limit)
=============================================================================
