--------------------------- MODULE MCPublication ---------------------------
(* An instance of Publication for TLC.                                      *)
EXTENDS Publication

TwoNearby == <<"DE", "FI">>
TwoFeeds  == <<"generic", "mobile">>
Curation  == {"mobile", "black"}

\* Up to two lines of three routes; the curated feed may list one of them twice.
UpToTwoLines ==
  [f \in ToSet(TwoFeeds) |->
     {<<>>} \cup {<<l>> : l \in {1, 2}}
            \cup {<<2, l>> : l \in IF f = "mobile" THEN {0, 2, 3} ELSE {0, 1}}]

Served(r, label, country, latency, speed) ==
  [route |-> r, source |-> label, country |-> country, latency |-> latency, speed |-> speed]

\* A historical label, a curated one, and that of a feed that may list the route again.
FewSaved ==
  {<<>>,
   <<Served(1, "old", "DE", 100, 0)>>,
   <<Served(2, "black", "US", 100, 0), Served(4, "generic", "DE", 2000, 0)>>}

FewMeasurements ==
  {[country |-> "DE", latency |-> 900,  speed |-> 0],
   [country |-> "US", latency |-> 100,  speed |-> 0],
   [country |-> "US", latency |-> 100,  speed |-> 900],
   [country |-> "US", latency |-> 1600, speed |-> 9000]}

\* The same route again and again, with other measurements and labels.
Repeated ==
  LET Offers == {Served(r, label, "DE", n.latency, n.speed) :
                   r \in {1, 2}, label \in {"none", "mobile", "generic"},
                   n \in {[latency |-> 0, speed |-> 0], [latency |-> 100, speed |-> 0],
                          [latency |-> 100, speed |-> 2000]}}
  IN {<<a, b, c>> : a \in Offers, b \in Offers, c \in {o \in Offers : o.route = 1}}

\* Six routes in any countries, in the order of their speed.
SixRoutes ==
  {[i \in 1..6 |-> Served(i, "generic", country[i], 100 * i, 0)] :
     country \in [1..6 -> {"DE", "FI", "US", "unknown"}]}

\* Lines may offer a route, not measured, under the flags of two countries.
TwoFlags ==
  {<<Served(1, "generic", "DE", latency, 0), Served(1, "generic", "US", 0, 0),
     Served(2, "generic", "DE", 0, 0)>> : latency \in {0, 100}}

DirectBatches == {<<>>} \cup Repeated \cup SixRoutes \cup TwoFlags
=============================================================================
