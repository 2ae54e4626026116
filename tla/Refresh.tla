------------------------------ MODULE Refresh ------------------------------
(***************************************************************************)
(* Runner.Refresh of internal/importer/importer.go: one refresh of the     *)
(* catalog at a time (Runner.mu), from the downloads of the feeds through  *)
(* the probes of the selected routes to the replacement of the catalog.    *)
(*                                                                         *)
(* A route is an effective configuration (catalog.RouteKey); which routes  *)
(* are curated stands for the source labels, which the code only compares  *)
(* through RussiaPreferredSource.  The answers of feeds and probes, the    *)
(* deadline and the death of the worker come from the environment.         *)
(***************************************************************************)
EXTENDS Integers, FiniteSets

CONSTANTS
  Sources,       \* the feeds of the runner
  Preferred,     \* the feeds RussiaPreferredSource accepts
  Routes,        \* routes feeds and catalogs are made of
  Contents,      \* Contents[s]: what feed s may list at one time or another
  InitialPools,  \* what the catalog may hold at the start
  Checkers,      \* whether a worker may, or may not, be built WithChecker
  MaxCandidates, \* WithMaxCandidates; 0 is no limit
  FetchSlots,    \* simultaneous downloads
  Parallelism,   \* Runner.parallelism
  PoolCap,       \* maxCatalogServers
  UsefulFloor    \* minimumUsefulRoutes

ASSUME RefreshAssumption ==
  /\ Preferred \subseteq Sources
  /\ IsFiniteSet(Sources) /\ IsFiniteSet(Routes)
  /\ Contents \in [Sources -> SUBSET SUBSET Routes]
  /\ InitialPools \subseteq SUBSET Routes
  /\ Checkers \subseteq BOOLEAN
  /\ MaxCandidates \in Nat /\ Parallelism \in Int
  /\ FetchSlots \in Nat \ {0} /\ PoolCap \in Nat \ {0} /\ UsefulFloor \in Nat \ {0}

VARIABLES
  pool,     \* routes of the catalog in the store
  curated,  \* those of them with the label of a preferred feed
  checker,  \* whether the runner of this worker has a checker
  cache,    \* Runner.cache: the lines last downloaded, and whether with a validator
  phase,    \* where Refresh is
  ctxDone,  \* the context of this refresh has expired or was cancelled
  fetch,    \* the goroutine of each feed
  got,      \* what each download of this refresh returned
  prev,     \* previouslyPublished
  label,    \* candidates with the label of a preferred feed
  verdict,  \* the goroutine, then the outcome, of each route
  left,     \* attempts the goroutine of a route still has
  failures, \* history: failed attempts of each route in this refresh
  exit,     \* history: exit country of the passed request of each route
  late,     \* history: routes judged after the context was done
  outcome   \* RefreshReport.Outcome of the refresh, or of the last one

persistent == <<pool, curated>>
lasting    == <<persistent, checker>>
fetching   == <<fetch, got>>
checking   == <<prev, label, verdict, left, failures, exit, late>>
vars == <<lasting, cache, phase, ctxDone, fetching, checking, outcome>>

-----------------------------------------------------------------------------
NoLines == [lines |-> {}, tagged |-> FALSE]
Judged  == {"accepted", "excluded", "destination", "connectivity"}
Exits   == {"allowed", "blocked", "unknown"}

With(v)  == {r \in Routes : verdict[r] = v}
Selected == {r \in Routes : verdict[r] # "unselected"}

\* A refresh that ends, or never ran, leaves no goroutine and no result.
Idle ==
  /\ phase' = "idle"
  /\ ctxDone' = FALSE
  /\ fetch' = [s \in Sources |-> "idle"]
  /\ got' = [s \in Sources |-> NoLines]
  /\ prev' = {}
  /\ label' = {}
  /\ verdict' = [r \in Routes |-> "unselected"]
  /\ left' = [r \in Routes |-> 0]
  /\ failures' = [r \in Routes |-> 0]
  /\ exit' = [r \in Routes |-> "none"]
  /\ late' = {}

Init ==
  /\ pool \in InitialPools
  /\ curated \in SUBSET pool
  /\ checker \in Checkers
  /\ cache = [s \in Sources |-> NoLines]
  /\ phase = "idle"
  /\ ctxDone = FALSE
  /\ fetch = [s \in Sources |-> "idle"]
  /\ got = [s \in Sources |-> NoLines]
  /\ prev = {}
  /\ label = {}
  /\ verdict = [r \in Routes |-> "unselected"]
  /\ left = [r \in Routes |-> 0]
  /\ failures = [r \in Routes |-> 0]
  /\ exit = [r \in Routes |-> "none"]
  /\ late = {}
  /\ outcome = "none"

Ends(how) == Idle /\ outcome' = how

-----------------------------------------------------------------------------
(* The downloads.                                                          *)

\* Lock, a report that says "failed" so far, one goroutine for each feed.
Begin ==
  /\ phase = "idle"
  /\ phase' = "fetch"
  /\ fetch' = [s \in Sources |-> "waiting"]
  /\ outcome' = "failed"
  /\ UNCHANGED <<lasting, cache, ctxDone, got, checking>>

TakeFetchSlot(s) ==
  /\ fetch[s] = "waiting"
  /\ Cardinality({q \in Sources : fetch[q] = "inflight"}) < FetchSlots
  /\ fetch' = [fetch EXCEPT ![s] = "inflight"]
  /\ UNCHANGED <<lasting, cache, phase, ctxDone, got, checking, outcome>>

\* fetch(): a 200 with the body of the moment, with or without a validator; a
\* 304, which only a validator that was sent can bring; or any failure.
Downloads(s) ==
  /\ fetch[s] = "inflight"
  /\ \E lines \in Contents[s], tagged \in BOOLEAN :
       got' = [got EXCEPT ![s] = [lines |-> lines, tagged |-> tagged]]
  /\ fetch' = [fetch EXCEPT ![s] = "updated"]
  /\ UNCHANGED <<lasting, cache, phase, ctxDone, checking, outcome>>

NotModified(s) ==
  /\ fetch[s] = "inflight"
  /\ cache[s].tagged
  /\ got' = [got EXCEPT ![s] = cache[s]]
  /\ fetch' = [fetch EXCEPT ![s] = "cached"]
  /\ UNCHANGED <<lasting, cache, phase, ctxDone, checking, outcome>>

\* A feed still waiting for a slot gives up when the context is done.
Unavailable(s) ==
  /\ fetch[s] = "inflight" \/ (fetch[s] = "waiting" /\ ctxDone)
  /\ fetch' = [fetch EXCEPT ![s] = "unavailable"]
  /\ UNCHANGED <<lasting, cache, phase, ctxDone, got, checking, outcome>>

-----------------------------------------------------------------------------
(* The candidates.                                                         *)

\* A feed that is unavailable contributes what it listed last.
Lines(s) == IF fetch[s] = "unavailable" THEN cache[s].lines ELSE got[s].lines
ListedBy(feeds) == UNION {Lines(s) : s \in feeds}

\* Mutant of Existing: the published routes are kept without a checker too.
ExistingAlways == pool

\* With a checker the published routes are candidates too, and come first.
Existing == IF checker THEN pool ELSE {}
Incoming == ListedBy(Sources) \ Existing

\* Mutant of Labelled: the label is the one the feeds give now.
LabelledByFeeds == ListedBy(Preferred)

\* A published route keeps its label; any candidate a preferred feed lists gets
\* the label of that feed.
Labelled == (Existing \cap curated) \cup ListedBy(Preferred)

Least(m, n) == IF m < n THEN m ELSE n

\* Mutant of Selections: a bounded worker samples published and incoming alike.
SelectionsOfAll ==
  {c \in SUBSET (Existing \cup Incoming) :
     Cardinality(c) = Least(MaxCandidates, Cardinality(Existing \cup Incoming))}

\* selectRefreshCandidates, up to which of the incoming routes are chosen (or,
\* of a pool larger than the limit, which of the published).  A pool that fills
\* the limit exactly takes every curated route with it: see LimitIsKept in
\* Sampling.
Selections ==
  IF MaxCandidates = 0 THEN {Existing \cup Incoming}
  ELSE IF Cardinality(Existing) > MaxCandidates
  THEN {chosen \in SUBSET Existing : Cardinality(chosen) = MaxCandidates}
  ELSE IF Cardinality(Existing) = MaxCandidates
  THEN {Existing \cup (Incoming \cap ListedBy(Preferred))}
  ELSE {Existing \cup chosen : chosen \in
          {c \in SUBSET Incoming :
             Cardinality(c) = Least(MaxCandidates - Cardinality(Existing),
                                    Cardinality(Incoming))}}

Attempts(r) == IF r \in prev THEN 2 ELSE 1

\* fetches.Wait() returns.  The cache is updated whatever becomes of the rest.
Collect ==
  /\ phase = "fetch"
  /\ \A s \in Sources : fetch[s] \in {"updated", "cached", "unavailable"}
  /\ cache' = [s \in Sources |->
                 IF fetch[s] = "unavailable" THEN cache[s] ELSE got[s]]
  /\ IF ~checker /\ \A s \in Sources : fetch[s] # "updated"
       THEN Ends("unchanged")
     ELSE IF Existing \cup Incoming = {}
       THEN Ends("failed")
     ELSE /\ phase' = "check"
          /\ prev' = Existing
          /\ \E chosen \in Selections :
               /\ label' = Labelled \cap chosen
               /\ verdict' = [r \in Routes |->
                    IF r \notin chosen THEN "unselected"
                    ELSE IF checker THEN "queued" ELSE "accepted"]
          /\ fetch' = [s \in Sources |-> "idle"]
          /\ got' = [s \in Sources |-> NoLines]
          /\ UNCHANGED <<ctxDone, left, failures, exit, late, outcome>>
  /\ UNCHANGED lasting

-----------------------------------------------------------------------------
(* check(): one goroutine for each candidate, Slots of them probing.       *)

Slots == IF Parallelism < 1 THEN 1 ELSE Parallelism

Verdict(r, v) ==
  /\ verdict' = [verdict EXCEPT ![r] = v]
  /\ late' = IF ctxDone THEN late \cup {r} ELSE late

TakeSlot(r) ==
  /\ verdict[r] = "queued"
  /\ Cardinality(With("probing")) < Slots
  /\ verdict' = [verdict EXCEPT ![r] = "probing"]
  /\ left' = [left EXCEPT ![r] = Attempts(r)]
  /\ UNCHANGED <<lasting, cache, phase, ctxDone, fetching, prev, label,
                 failures, exit, late, outcome>>

\* A queued route counts as a connectivity failure once the context is done.
Abandon(r) ==
  /\ verdict[r] = "queued"
  /\ ctxDone
  /\ Verdict(r, "connectivity")
  /\ UNCHANGED <<lasting, cache, phase, ctxDone, fetching, prev, label,
                 left, failures, exit, outcome>>

\* ValidateResolvedPublicHost fails: no answer, or not a public address.
RejectDestination(r) ==
  /\ verdict[r] = "probing"
  /\ Verdict(r, "destination")
  /\ UNCHANGED <<lasting, cache, phase, ctxDone, fetching, prev, label,
                 left, failures, exit, outcome>>

\* Mutants of FailAttempt: the attempts are counted one too far; a published route
\* is kept although its attempts failed; the attempts are not counted.
FailAttemptOnceMore(r) ==
  /\ verdict[r] = "probing"
  /\ failures' = [failures EXCEPT ![r] = @ + 1]
  /\ IF left[r] >= 1 /\ ~ctxDone
       THEN /\ left' = [left EXCEPT ![r] = @ - 1]
            /\ UNCHANGED <<verdict, late>>
       ELSE /\ Verdict(r, "connectivity")
            /\ UNCHANGED left
  /\ UNCHANGED <<lasting, cache, phase, ctxDone, fetching, prev, label,
                 exit, outcome>>
FailAttemptKeeps(r) ==
  /\ verdict[r] = "probing"
  /\ failures' = [failures EXCEPT ![r] = @ + 1]
  /\ IF left[r] > 1 /\ ~ctxDone
       THEN /\ left' = [left EXCEPT ![r] = @ - 1]
            /\ UNCHANGED <<verdict, late>>
       ELSE /\ Verdict(r, IF r \in prev THEN "accepted" ELSE "connectivity")
            /\ UNCHANGED left
  /\ UNCHANGED <<lasting, cache, phase, ctxDone, fetching, prev, label,
                 exit, outcome>>
FailAttemptForever(r) ==
  /\ verdict[r] = "probing"
  /\ failures' = [failures EXCEPT ![r] = IF @ = 1 THEN 2 ELSE 1]
  /\ IF left[r] > 1 /\ ~ctxDone
       THEN UNCHANGED <<left, verdict, late>>
       ELSE /\ Verdict(r, "connectivity")
            /\ UNCHANGED left
  /\ UNCHANGED <<lasting, cache, phase, ctxDone, fetching, prev, label,
                 exit, outcome>>

\* Probe returns an error; there may be an attempt left.
FailAttempt(r) ==
  /\ verdict[r] = "probing"
  /\ failures' = [failures EXCEPT ![r] = @ + 1]
  /\ IF left[r] > 1 /\ ~ctxDone
       THEN /\ left' = [left EXCEPT ![r] = @ - 1]
            /\ UNCHANGED <<verdict, late>>
       ELSE /\ Verdict(r, "connectivity")
            /\ UNCHANGED left
  /\ UNCHANGED <<lasting, cache, phase, ctxDone, fetching, prev, label,
                 exit, outcome>>

PublishCountryAllowed(country) == country = "allowed"

\* Probe returns metrics: YouTube answered; the trace may not have.
PassAttempt(r, country) ==
  /\ verdict[r] = "probing"
  /\ exit' = [exit EXCEPT ![r] = country]
  /\ Verdict(r, IF PublishCountryAllowed(country) THEN "accepted" ELSE "excluded")
  /\ UNCHANGED <<lasting, cache, phase, ctxDone, fetching, prev, label,
                 left, failures, outcome>>

-----------------------------------------------------------------------------
(* The decision and the replacement.                                       *)

CheckIsOver == Selected \subseteq {r \in Routes : verdict[r] \in Judged}

\* Mutant of Decide: whatever was accepted is published.
DecideAnyway ==
  /\ phase = "check"
  /\ CheckIsOver
  /\ IF With("accepted") = {}
       THEN Ends("failed")
       ELSE /\ phase' = "replace"
            /\ UNCHANGED <<ctxDone, fetching, checking, outcome>>
  /\ UNCHANGED <<lasting, cache>>

\* check() returns; a done context or an empty result ends the refresh.
Decide ==
  /\ phase = "check"
  /\ CheckIsOver
  /\ IF ctxDone \/ With("accepted") = {}
       THEN Ends("failed")
       ELSE /\ phase' = "replace"
            /\ UNCHANGED <<ctxDone, fetching, checking, outcome>>
  /\ UNCHANGED <<lasting, cache>>

\* What diverseCountryPool may keep of the routes accepted.
Kept(accepted) ==
  {kept \in SUBSET accepted :
     /\ Cardinality(kept) <= PoolCap
     /\ Cardinality(kept) >= Least(PoolCap, Least(UsefulFloor, Cardinality(accepted)))}

Replace ==
  /\ phase = "replace"
  /\ pool' \in Kept(With("accepted"))
  /\ curated' = label \cap pool'
  /\ Ends("published")
  /\ UNCHANGED <<cache, checker>>

ReplaceFails ==
  /\ phase = "replace"
  /\ Ends("failed")
  /\ UNCHANGED <<lasting, cache>>

-----------------------------------------------------------------------------
\* The timeout of cmd/publish, or the signal that stops cmd/api.
Deadline ==
  /\ phase # "idle"
  /\ ~ctxDone
  /\ ctxDone' = TRUE
  /\ UNCHANGED <<lasting, cache, phase, fetching, checking, outcome>>

\* The worker dies and a new one starts: only the catalog file is left.
Crash ==
  /\ Ends("none")
  /\ cache' = [s \in Sources |-> NoLines]
  /\ checker' \in Checkers
  /\ UNCHANGED persistent

FetchStep(s) ==
  TakeFetchSlot(s) \/ Downloads(s) \/ NotModified(s) \/ Unavailable(s)

ProbeStep(r) ==
  \/ TakeSlot(r) \/ Abandon(r) \/ RejectDestination(r) \/ FailAttempt(r)
  \/ \E country \in Exits : PassAttempt(r, country)

Next ==
  \/ Begin \/ Collect \/ Decide \/ Replace \/ ReplaceFails \/ Deadline \/ Crash
  \/ \E s \in Sources : FetchStep(s)
  \/ \E r \in Routes : ProbeStep(r)

Spec == Init /\ [][Next]_vars

\* Every goroutine is scheduled, every download ends by the timeout of the
\* client and every attempt by its ten seconds.  Nobody is obliged to start a
\* refresh, and the deadline need not come.
Fairness ==
  /\ WF_vars(Collect) /\ WF_vars(Decide) /\ WF_vars(Replace \/ ReplaceFails)
  /\ \A s \in Sources : WF_vars(FetchStep(s))
  /\ \A r \in Routes : WF_vars(ProbeStep(r))

FairSpec == Spec /\ Fairness

-----------------------------------------------------------------------------
(* Properties.                                                             *)

\* The values of the variables; no route is tried more than twice in a refresh.
TypeOK ==
  /\ pool \in SUBSET Routes /\ curated \in SUBSET pool
  /\ cache \in [Sources -> [lines : SUBSET Routes, tagged : BOOLEAN]]
  /\ got \in [Sources -> [lines : SUBSET Routes, tagged : BOOLEAN]]
  /\ fetch \in [Sources ->
       {"idle", "waiting", "inflight", "updated", "cached", "unavailable"}]
  /\ phase \in {"idle", "fetch", "check", "replace"}
  /\ ctxDone \in BOOLEAN /\ checker \in Checkers
  /\ prev \in SUBSET Routes /\ label \in SUBSET Routes /\ late \in SUBSET Routes
  /\ verdict \in [Routes -> {"unselected", "queued", "probing"} \cup Judged]
  /\ left \in [Routes -> 0..2] /\ failures \in [Routes -> 0..2]
  /\ exit \in [Routes -> Exits \cup {"none"}]
  /\ outcome \in {"none", "unchanged", "failed", "published"}

Published == phase = "replace" /\ phase' = "idle" /\ outcome' = "published"

\* A refresh never publishes a partial check: when the catalog is replaced,
\* every route selected has its verdict, and none got it because the deadline
\* had passed (the comment before ctx.Err() in Refresh).
NoPartialPublication == [][Published => CheckIsOver /\ late = {}]_vars

\* What this refresh may hold against a published route: its destination, an exit in
\* a country that is not wanted, two failed attempts, or a pool full enough without it.
Earned(r) ==
  \/ verdict[r] = "destination"
  \/ exit[r] = "blocked"
  \/ failures[r] = 2
  \/ verdict[r] = "accepted" /\ Cardinality(pool') >= Least(PoolCap, UsefulFloor)

\* A published route leaves the catalog only for a reason this refresh found.  One
\* failed attempt is not a reason, nor is being left out of a sample, as long as the
\* limit holds a whole pool.  Of a route that answered while its country trace did
\* not, nothing is said here: see OneFailureEvictsNobody.
EvictionIsEarned ==
  [][checker => \A r \in pool \ pool' : exit[r] = "unknown" \/ Earned(r)]_vars

\* "A single transient HTTPS/Xray failure must not evict a route that passed the
\* previous publication" (check), nor does the country trace, one HTTPS request of
\* a second and a half after the mandatory one, when it fails (countryBucket).
OneFailureEvictsNobody == [][checker => \A r \in pool \ pool' : Earned(r)]_vars

\* Whatever a checked refresh publishes, old or new, passed an attempt of this very
\* refresh, and not through a country known to be unwanted.
PublicationIsFresh ==
  [][checker /\ Published =>
       \A r \in pool' :
         exit[r] \in {"allowed", "unknown"} /\ failures[r] < Attempts(r)]_vars

\* A route that stays published keeps the label of a preferred feed, and a route
\* a preferred feed lists, or listed before it became unavailable, gets it.
CuratedLabelIsKept ==
  [][checker /\ Published =>
       \A r \in pool' :
         (r \in pool /\ r \in curated) \/ (\E s \in Preferred : r \in cache[s].lines)
           => r \in curated']_vars

\* Without a checker nothing is published again that no feed lists any more.
UncheckedIsListed ==
  [][~checker /\ Published =>
       \A r \in pool' : \E s \in Sources : r \in cache[s].lines]_vars

\* Every refresh ends, whatever feeds and routes answer and even if the deadline
\* never comes: no goroutine keeps the mutex of the runner for ever.
RefreshEnds == phase # "idle" ~> phase = "idle"
=============================================================================
