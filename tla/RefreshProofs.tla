---------------------------- MODULE RefreshProofs ----------------------------
(* What a refresh may publish and evict, for any feeds, routes and limits.  *)
EXTENDS Refresh, FiniteSetTheorems, TLAPS

\* Before check() there are no candidates, no verdicts and no history.
QuietInv ==
  phase \in {"idle", "fetch"} =>
    /\ prev = {} /\ label = {} /\ late = {}
    /\ verdict = [r \in Routes |-> "unselected"]
    /\ failures = [r \in Routes |-> 0]

\* Nothing is judged late before the context is done; what reached the
\* replacement was judged completely, and in time.
LateInv ==
  /\ ~ctxDone => late = {}
  /\ phase = "replace" => CheckIsOver /\ late = {}

\* The attempts of a route are those it has left and those it used; a route
\* accepted had one left and an allowed exit, and a route given up had none, or
\* no time.
AttemptInv ==
  \A r \in Routes :
    /\ verdict[r] = "queued" => failures[r] = 0
    /\ verdict[r] = "probing" =>
         left[r] \in 1..2 /\ left[r] + failures[r] = Attempts(r)
    /\ verdict[r] = "accepted" /\ checker =>
         exit[r] = "allowed" /\ failures[r] < Attempts(r)
    /\ verdict[r] = "excluded" => exit[r] \in {"blocked", "unknown"}
    /\ verdict[r] = "connectivity" => failures[r] = Attempts(r) \/ r \in late

RefreshInv == TypeOK /\ QuietInv /\ LateInv /\ AttemptInv

LEMMA NoLinesAreLines == NoLines \in [lines : SUBSET Routes, tagged : BOOLEAN]
  BY DEF NoLines

LEMMA RefreshInit == Init => RefreshInv
<1> SUFFICES ASSUME Init PROVE RefreshInv
  OBVIOUS
<1>1. pool \in SUBSET Routes /\ curated \in SUBSET pool
  BY RefreshAssumption DEF Init
<1>2. TypeOK
  <2>1. /\ cache \in [Sources -> [lines : SUBSET Routes, tagged : BOOLEAN]]
        /\ got \in [Sources -> [lines : SUBSET Routes, tagged : BOOLEAN]]
    BY NoLinesAreLines DEF Init
  <2>2. ctxDone \in BOOLEAN /\ checker \in Checkers
    BY DEF Init
  <2> QED BY <1>1, <2>1, <2>2 DEF Init, TypeOK, Exits, Judged
<1>3. QuietInv /\ LateInv
  BY DEF Init, QuietInv, LateInv
<1>4. AttemptInv
  BY DEF Init, AttemptInv
<1> QED BY <1>2, <1>3, <1>4 DEF RefreshInv

\* A refresh that ends leaves the state of one that never ran.
LEMMA IdleEstablishes ==
  ASSUME Idle, UNCHANGED persistent, TypeOK, checker' \in Checkers,
         cache' \in [Sources -> [lines : SUBSET Routes, tagged : BOOLEAN]],
         outcome' \in {"none", "unchanged", "failed", "published"}
  PROVE  RefreshInv'
<1>1. TypeOK'
  <2>1. got' \in [Sources -> [lines : SUBSET Routes, tagged : BOOLEAN]]
    BY NoLinesAreLines DEF Idle
  <2>2. ctxDone' \in BOOLEAN
    BY DEF Idle
  <2>3. pool' \in SUBSET Routes /\ curated' \in SUBSET pool'
    BY DEF TypeOK, persistent
  <2> QED BY <2>1, <2>2, <2>3 DEF Idle, TypeOK, Exits, Judged
<1>2. QuietInv' /\ LateInv'
  BY DEF Idle, QuietInv, LateInv
<1>3. AttemptInv'
  BY DEF Idle, AttemptInv
<1> QED BY <1>1, <1>2, <1>3 DEF RefreshInv

-----------------------------------------------------------------------------
(* The steps of the downloads.                                             *)

LEMMA BeginKeeps == RefreshInv /\ Begin => RefreshInv'
<1> SUFFICES ASSUME RefreshInv, Begin PROVE RefreshInv'
  OBVIOUS
<1> USE DEF RefreshInv, Begin, lasting, persistent, checking
<1>1. TypeOK'
  BY DEF TypeOK
<1>2. QuietInv' /\ LateInv'
  BY DEF QuietInv, LateInv
<1>3. AttemptInv'
  BY DEF AttemptInv, Attempts
<1> QED BY <1>1, <1>2, <1>3

LEMMA FetchKeeps ==
  ASSUME NEW s \in Sources, RefreshInv, FetchStep(s) PROVE RefreshInv'
<1> USE DEF RefreshInv, lasting, persistent, checking
<1>1. UNCHANGED <<pool, curated, checker, cache, phase, ctxDone, checking, outcome>>
  BY DEF FetchStep, TakeFetchSlot, Downloads, NotModified, Unavailable
<1>2. /\ got' \in [Sources -> [lines : SUBSET Routes, tagged : BOOLEAN]]
      /\ fetch' \in [Sources ->
           {"idle", "waiting", "inflight", "updated", "cached", "unavailable"}]
  <2>1. CASE TakeFetchSlot(s)
    BY <2>1 DEF TypeOK, TakeFetchSlot
  <2>2. CASE Downloads(s)
    <3>1. \A lines \in Contents[s] : lines \in SUBSET Routes
      BY RefreshAssumption
    <3> QED BY <2>2, <3>1 DEF TypeOK, Downloads
  <2>3. CASE NotModified(s)
    BY <2>3 DEF TypeOK, NotModified
  <2>4. CASE Unavailable(s)
    BY <2>4 DEF TypeOK, Unavailable
  <2> QED BY <2>1, <2>2, <2>3, <2>4 DEF FetchStep
<1>3. TypeOK'
  BY <1>1, <1>2 DEF TypeOK
<1>4. QuietInv' /\ LateInv'
  BY <1>1 DEF QuietInv, LateInv, CheckIsOver, Selected
<1>5. AttemptInv'
  BY <1>1 DEF AttemptInv, Attempts
<1> QED BY <1>3, <1>4, <1>5

LEMMA ListedAreRoutes == TypeOK => \A feeds \in SUBSET Sources : ListedBy(feeds) \in SUBSET Routes
  BY DEF TypeOK, ListedBy, Lines

LEMMA SelectionsAreCandidates ==
  ASSUME TypeOK PROVE \A chosen \in Selections : chosen \in SUBSET (Existing \cup Incoming)
  BY DEF Selections, Incoming

LEMMA CandidatesAreRoutes == TypeOK => Existing \cup Incoming \in SUBSET Routes
  BY ListedAreRoutes DEF TypeOK, Existing, Incoming

LEMMA CollectKeeps == RefreshInv /\ Collect => RefreshInv'
<1> SUFFICES ASSUME RefreshInv, Collect PROVE RefreshInv'
  OBVIOUS
<1> USE DEF RefreshInv, lasting, persistent
<1>1. cache' \in [Sources -> [lines : SUBSET Routes, tagged : BOOLEAN]]
  BY DEF TypeOK, Collect
<1>2. UNCHANGED <<pool, curated, checker>>
  BY DEF Collect
<1>3. CASE Ends("unchanged") \/ Ends("failed")
  <2>1. Idle /\ outcome' \in {"none", "unchanged", "failed", "published"}
    BY <1>3 DEF Ends
  <2>2. checker' \in Checkers /\ TypeOK
    BY <1>2 DEF TypeOK
  <2> QED BY <1>1, <1>2, <2>1, <2>2, IdleEstablishes
<1>4. CASE phase' = "check"
  <2>1. PICK chosen \in Selections :
          /\ label' = Labelled \cap chosen
          /\ verdict' = [r \in Routes |->
               IF r \notin chosen THEN "unselected"
               ELSE IF checker THEN "queued" ELSE "accepted"]
    BY <1>4 DEF Collect, Ends, Idle
  <2>2. /\ prev' = Existing
        /\ fetch' = [s \in Sources |-> "idle"]
        /\ got' = [s \in Sources |-> NoLines]
        /\ UNCHANGED <<ctxDone, left, failures, exit, late, outcome>>
        /\ phase = "fetch"
    BY <1>4 DEF Collect, Ends, Idle
  <2>3. chosen \in SUBSET Routes /\ Existing \in SUBSET Routes
    BY SelectionsAreCandidates, CandidatesAreRoutes
  <2>4. TypeOK'
    BY <1>1, <1>2, <1>4, <2>1, <2>2, <2>3 DEF TypeOK, NoLines, Judged
  <2>5. QuietInv' /\ LateInv'
    BY <1>4, <2>2 DEF QuietInv, LateInv
  <2>6. AttemptInv'
    BY <1>2, <2>1, <2>2 DEF AttemptInv, QuietInv
  <2> QED BY <2>4, <2>5, <2>6
<1> QED BY <1>3, <1>4 DEF Collect

-----------------------------------------------------------------------------
(* The steps of the check.                                                 *)

\* A goroutine that has no verdict yet keeps check(), and so Refresh, waiting.
LEMMA UnjudgedMeansCheck ==
  ASSUME RefreshInv, NEW r \in Routes, verdict[r] \in {"queued", "probing"}
  PROVE  phase = "check"
<1>1. phase \notin {"idle", "fetch"}
  BY DEF RefreshInv, QuietInv
<1>2. phase # "replace"
  BY DEF RefreshInv, LateInv, CheckIsOver, Selected, Judged
<1> QED BY <1>1, <1>2 DEF RefreshInv, TypeOK

LEMMA ProbeKeeps ==
  ASSUME NEW r \in Routes, RefreshInv, ProbeStep(r) PROVE RefreshInv'
<1> USE DEF RefreshInv, lasting, persistent, fetching
<1>1. phase = "check"
  BY UnjudgedMeansCheck
     DEF ProbeStep, TakeSlot, Abandon, RejectDestination, FailAttempt, PassAttempt
<1>2. UNCHANGED <<pool, curated, checker, cache, phase, ctxDone, fetch, got, prev, label, outcome>>
  BY DEF ProbeStep, TakeSlot, Abandon, RejectDestination, FailAttempt, PassAttempt
<1>3. QuietInv'
  BY <1>1, <1>2 DEF QuietInv
<1>4. Attempts(r) \in 1..2
  BY DEF Attempts
<1>5. CASE TakeSlot(r)
  <2>1. TypeOK'
    BY <1>2, <1>4, <1>5 DEF TypeOK, TakeSlot
  <2>2. LateInv'
    BY <1>1, <1>2, <1>5 DEF LateInv, TakeSlot
  <2>3. AttemptInv'
    BY <1>2, <1>4, <1>5 DEF AttemptInv, TakeSlot, Attempts, TypeOK
  <2> QED BY <1>3, <2>1, <2>2, <2>3
<1>6. CASE Abandon(r)
  <2>1. TypeOK'
    BY <1>2, <1>6 DEF TypeOK, Abandon, Verdict, Judged
  <2>2. LateInv'
    BY <1>1, <1>2, <1>6 DEF LateInv, Abandon, Verdict
  <2>3. AttemptInv'
    BY <1>2, <1>6 DEF AttemptInv, Abandon, Verdict, Attempts, TypeOK
  <2> QED BY <1>3, <2>1, <2>2, <2>3
<1>7. CASE RejectDestination(r)
  <2>1. TypeOK'
    BY <1>2, <1>7 DEF TypeOK, RejectDestination, Verdict, Judged
  <2>2. LateInv'
    BY <1>1, <1>2, <1>7 DEF LateInv, RejectDestination, Verdict
  <2>3. AttemptInv'
    BY <1>2, <1>7 DEF AttemptInv, RejectDestination, Verdict, Attempts, TypeOK
  <2> QED BY <1>3, <2>1, <2>2, <2>3
<1>8. CASE FailAttempt(r)
  \* The attempt that failed was one of those left.
  <2>1. left[r] \in 1..2 /\ left[r] + failures[r] = Attempts(r) /\ failures[r] \in 0..2
    BY <1>8 DEF AttemptInv, FailAttempt, TypeOK
  <2>2. failures[r] + 1 \in 0..2
    BY <1>4, <2>1
  <2>3. CASE left[r] > 1 /\ ~ctxDone
    <3>1. /\ failures' = [failures EXCEPT ![r] = @ + 1]
          /\ left' = [left EXCEPT ![r] = @ - 1]
          /\ UNCHANGED <<verdict, late, exit>>
          /\ verdict[r] = "probing"
      BY <1>8, <2>3 DEF FailAttempt
    <3>2. TypeOK'
      BY <1>2, <2>1, <2>2, <2>3, <3>1 DEF TypeOK
    <3>3. LateInv'
      BY <1>1, <1>2, <3>1 DEF LateInv
    <3>4. AttemptInv'
      BY <1>2, <2>1, <2>3, <3>1 DEF AttemptInv, Attempts, TypeOK
    <3> QED BY <1>3, <3>2, <3>3, <3>4
  <2>4. CASE ~(left[r] > 1 /\ ~ctxDone)
    <3>1. /\ failures' = [failures EXCEPT ![r] = @ + 1]
          /\ verdict' = [verdict EXCEPT ![r] = "connectivity"]
          /\ late' = IF ctxDone THEN late \cup {r} ELSE late
          /\ UNCHANGED <<left, exit>>
      BY <1>8, <2>4 DEF FailAttempt, Verdict
    <3>2. TypeOK'
      BY <1>2, <2>2, <3>1 DEF TypeOK, Judged
    <3>3. LateInv'
      BY <1>1, <1>2, <3>1 DEF LateInv
    <3>4. failures'[r] = Attempts(r) \/ r \in late'
      BY <2>1, <2>4, <3>1 DEF TypeOK
    <3>5. AttemptInv'
      BY <1>2, <3>1, <3>4 DEF AttemptInv, Attempts, TypeOK
    <3> QED BY <1>3, <3>2, <3>3, <3>5
  <2> QED BY <2>3, <2>4
<1>9. ASSUME NEW country \in Exits, PassAttempt(r, country) PROVE RefreshInv'
  <2>1. TypeOK'
    BY <1>2, <1>9 DEF TypeOK, PassAttempt, Verdict, Judged
  <2>2. LateInv'
    BY <1>1, <1>2, <1>9 DEF LateInv, PassAttempt, Verdict
  <2>3. failures[r] < Attempts(r)
    BY <1>4, <1>9 DEF AttemptInv, PassAttempt, TypeOK
  <2>a. country # "allowed" => country \in {"blocked", "unknown"}
    BY <1>9 DEF Exits
  <2>4. AttemptInv'
    BY <1>2, <1>9, <2>3, <2>a
       DEF AttemptInv, PassAttempt, Verdict, PublishCountryAllowed, Attempts, TypeOK
  <2> QED BY <1>3, <2>1, <2>2, <2>4
<1> QED BY <1>5, <1>6, <1>7, <1>8, <1>9 DEF ProbeStep

-----------------------------------------------------------------------------
(* The decision, the replacement, and the interruptions.                   *)

LEMMA DecideKeeps == RefreshInv /\ Decide => RefreshInv'
<1> SUFFICES ASSUME RefreshInv, Decide PROVE RefreshInv'
  OBVIOUS
<1> USE DEF lasting, persistent
<1>1. UNCHANGED <<pool, curated, checker, cache>> /\ TypeOK
  BY DEF Decide, RefreshInv
<1>2. CASE Ends("failed")
  <2>1. Idle /\ outcome' \in {"none", "unchanged", "failed", "published"}
    BY <1>2 DEF Ends
  <2>2. /\ checker' \in Checkers
        /\ cache' \in [Sources -> [lines : SUBSET Routes, tagged : BOOLEAN]]
    BY <1>1 DEF TypeOK
  <2> QED BY <1>1, <2>1, <2>2, IdleEstablishes
<1>3. CASE ~ctxDone /\ phase' = "replace" /\ UNCHANGED <<ctxDone, fetching, checking, outcome>>
  <2>1. TypeOK'
    BY <1>1, <1>3 DEF TypeOK, fetching, checking
  <2>2. QuietInv'
    BY <1>3 DEF QuietInv
  <2>3. LateInv'
    BY <1>3 DEF LateInv, RefreshInv, Decide, CheckIsOver, Selected, checking
  <2>4. AttemptInv'
    BY <1>1, <1>3 DEF AttemptInv, RefreshInv, Attempts, checking
  <2> QED BY <2>1, <2>2, <2>3, <2>4 DEF RefreshInv
<1> QED BY <1>2, <1>3 DEF Decide

\* A catalog holds only routes that were probed.
LEMMA KeptAreRoutes ==
  ASSUME TypeOK, NEW next \in Kept(With("accepted")) PROVE next \in SUBSET Routes
  BY DEF Kept, With

LEMMA ReplaceKeeps == RefreshInv /\ Replace => RefreshInv'
<1> SUFFICES ASSUME RefreshInv, Replace PROVE RefreshInv'
  OBVIOUS
<1>1. TypeOK /\ UNCHANGED <<cache, checker>> /\ Idle /\ outcome' = "published"
  BY DEF RefreshInv, Replace, Ends
<1>2. pool' \in SUBSET Routes /\ curated' \in SUBSET pool'
  BY <1>1, KeptAreRoutes DEF Replace
<1>3. TypeOK'
  <2>1. got' \in [Sources -> [lines : SUBSET Routes, tagged : BOOLEAN]]
    BY <1>1, NoLinesAreLines DEF Idle
  <2>2. ctxDone' \in BOOLEAN /\ checker' \in Checkers
    BY <1>1 DEF Idle, TypeOK
  <2> QED BY <1>1, <1>2, <2>1, <2>2 DEF Idle, TypeOK, Exits, Judged
<1>4. QuietInv' /\ LateInv' /\ AttemptInv'
  BY <1>1 DEF Idle, QuietInv, LateInv, AttemptInv
<1> QED BY <1>3, <1>4 DEF RefreshInv

LEMMA ReplaceFailsKeeps == RefreshInv /\ ReplaceFails => RefreshInv'
<1> SUFFICES ASSUME RefreshInv, ReplaceFails PROVE RefreshInv'
  OBVIOUS
<1>1. /\ TypeOK /\ Idle /\ UNCHANGED persistent
      /\ outcome' \in {"none", "unchanged", "failed", "published"}
  BY DEF RefreshInv, ReplaceFails, Ends, lasting
<1>2. /\ checker' \in Checkers
      /\ cache' \in [Sources -> [lines : SUBSET Routes, tagged : BOOLEAN]]
  BY <1>1 DEF ReplaceFails, lasting, TypeOK
<1> QED BY <1>1, <1>2, IdleEstablishes

LEMMA CrashKeeps == RefreshInv /\ Crash => RefreshInv'
<1> SUFFICES ASSUME RefreshInv, Crash PROVE RefreshInv'
  OBVIOUS
<1>1. /\ TypeOK /\ Idle /\ UNCHANGED persistent /\ checker' \in Checkers
      /\ outcome' \in {"none", "unchanged", "failed", "published"}
  BY DEF RefreshInv, Crash, Ends
<1>2. cache' \in [Sources -> [lines : SUBSET Routes, tagged : BOOLEAN]]
  BY NoLinesAreLines DEF Crash
<1> QED BY <1>1, <1>2, IdleEstablishes

LEMMA DeadlineKeeps == RefreshInv /\ Deadline => RefreshInv'
<1> SUFFICES ASSUME RefreshInv, Deadline PROVE RefreshInv'
  OBVIOUS
<1> USE DEF RefreshInv, Deadline, lasting, persistent, fetching, checking
<1>1. TypeOK'
  BY DEF TypeOK
<1>2. QuietInv' /\ LateInv'
  BY DEF QuietInv, LateInv, CheckIsOver, Selected
<1>3. AttemptInv'
  BY DEF AttemptInv, Attempts
<1> QED BY <1>1, <1>2, <1>3

LEMMA StutterKeeps == RefreshInv /\ UNCHANGED vars => RefreshInv'
<1> SUFFICES ASSUME RefreshInv, UNCHANGED vars PROVE RefreshInv'
  OBVIOUS
<1> USE DEF RefreshInv, vars, lasting, persistent, fetching, checking
<1>1. TypeOK'
  BY DEF TypeOK
<1>2. QuietInv' /\ LateInv'
  BY DEF QuietInv, LateInv, CheckIsOver, Selected
<1>3. AttemptInv'
  BY DEF AttemptInv, Attempts
<1> QED BY <1>1, <1>2, <1>3

\* Only Replace publishes.
LEMMA PublishedIsReplace == RefreshInv /\ Next /\ Published => Replace
<1> SUFFICES ASSUME RefreshInv, Next, Published, ~Replace PROVE FALSE
  OBVIOUS
<1>1. phase = "replace" /\ outcome' = "published" /\ phase' = "idle"
  BY DEF Published
<1>2. \A s \in Sources : ~FetchStep(s)
  BY <1>1 DEF FetchStep, TakeFetchSlot, Downloads, NotModified, Unavailable
<1>3. \A r \in Routes : ~ProbeStep(r)
  BY <1>1 DEF ProbeStep, TakeSlot, Abandon, RejectDestination, FailAttempt, PassAttempt
<1>4. ~Begin /\ ~Collect /\ ~Decide /\ ~Deadline
  BY <1>1 DEF Begin, Collect, Decide, Deadline
<1>5. ~ReplaceFails /\ ~Crash
  BY <1>1 DEF ReplaceFails, Crash, Ends
<1> QED BY <1>2, <1>3, <1>4, <1>5 DEF Next

-----------------------------------------------------------------------------
\* RefreshInv is kept by every step of a refresh.
THEOREM RefreshInvHolds == Spec => []RefreshInv
<1>1. RefreshInv /\ [Next]_vars => RefreshInv'
  BY BeginKeeps, FetchKeeps, CollectKeeps, ProbeKeeps, DecideKeeps, ReplaceKeeps,
     ReplaceFailsKeeps, DeadlineKeeps, CrashKeeps, StutterKeeps DEF Next
<1> QED BY RefreshInit, <1>1, PTL DEF Spec

\* The variables of Refresh keep their types, for any feeds, routes and limits:
\* no route is ever tried a third time, and a label is of a published route.
THEOREM RefreshTypeCorrect == Spec => []TypeOK
<1>1. RefreshInv => TypeOK
  BY DEF RefreshInv
<1> QED BY RefreshInvHolds, <1>1, PTL

\* When Refresh replaces the catalog, every candidate has its verdict, and no
\* verdict was given because the deadline had passed.
THEOREM NothingPartialIsPublished == Spec => NoPartialPublication
<1>1. RefreshInv => (Published => CheckIsOver /\ late = {})
  BY DEF RefreshInv, LateInv, Published
<1> QED BY RefreshInvHolds, <1>1, PTL DEF NoPartialPublication, Spec

\* Whatever Refresh publishes after a check passed a probe of that check, with
\* an attempt to spare, through an exit country the product allows.
THEOREM PublishedIsFresh == Spec => PublicationIsFresh
<1> DEFINE Fresh == checker /\ Published =>
              \A r \in pool' :
                exit[r] \in {"allowed", "unknown"} /\ failures[r] < Attempts(r)
<1>1. RefreshInv /\ [Next]_vars => [Fresh]_vars
  <2> SUFFICES ASSUME RefreshInv, Next, checker, Published, NEW r \in pool'
               PROVE  exit[r] \in {"allowed", "unknown"} /\ failures[r] < Attempts(r)
    OBVIOUS
  <2>1. Replace
    BY PublishedIsReplace
  <2>2. r \in Routes /\ verdict[r] = "accepted"
    BY <2>1 DEF Replace, Kept, With
  <2> QED BY <2>2 DEF RefreshInv, AttemptInv
<1> QED BY RefreshInvHolds, <1>1, PTL DEF PublicationIsFresh, Spec

-----------------------------------------------------------------------------
(* Which routes a refresh may lose, and under which labels it publishes.   *)

Deciding == phase \in {"check", "replace"}

\* During a check the candidates carry the labels they had or were given, and a
\* worker without a checker has no others than those the feeds list.
CandidateInv ==
  Deciding =>
    /\ checker => \A r \in Selected :
         (r \in pool /\ r \in curated) \/ (\E s \in Preferred : r \in cache[s].lines)
           => r \in label
    /\ ~checker => \A r \in Selected : \E s \in Sources : r \in cache[s].lines

\* A limit that holds every catalog this worker, or the one before it, may publish.
LimitHoldsThePool ==
  /\ MaxCandidates = 0 \/ PoolCap <= MaxCandidates
  /\ \A p \in InitialPools : Cardinality(p) <= PoolCap

\* The whole published pool is among the candidates, with two attempts each.
PoolInv ==
  /\ Cardinality(pool) <= PoolCap
  /\ checker /\ Deciding => pool \subseteq Selected /\ prev = pool

\* A refresh that ends has no candidates.
LEMMA IdleDecidesNothing == ASSUME Idle PROVE ~Deciding'
  BY DEF Idle, Deciding

\* Neither a download nor a probe, nor the deadline, changes the candidates.
LEMMA CandidatesStay ==
  ASSUME RefreshInv, Deciding,
         \/ \E r \in Routes : ProbeStep(r)
         \/ Deadline \/ UNCHANGED vars
         \/ \E s \in Sources : FetchStep(s)
  PROVE  /\ UNCHANGED <<pool, curated, checker, cache, phase, prev, label>>
         /\ Selected' = Selected
<1>1. ASSUME NEW r \in Routes, ProbeStep(r)
      PROVE  /\ UNCHANGED <<pool, curated, checker, cache, phase, prev, label>>
             /\ Selected' = Selected
  <2>1. UNCHANGED <<pool, curated, checker, cache, phase, prev, label>>
    BY <1>1 DEF ProbeStep, TakeSlot, Abandon, RejectDestination, FailAttempt,
                PassAttempt, lasting, persistent
  <2>2. /\ verdict \in [Routes -> {"unselected", "queued", "probing"} \cup Judged]
        /\ verdict[r] \in {"queued", "probing"}
    BY <1>1 DEF RefreshInv, TypeOK, ProbeStep, TakeSlot, Abandon, RejectDestination,
                FailAttempt, PassAttempt
  <2>3. \/ verdict' = verdict
        \/ \E v \in {"probing", "connectivity", "destination", "accepted", "excluded"} :
             verdict' = [verdict EXCEPT ![r] = v]
    BY <1>1 DEF ProbeStep, TakeSlot, Abandon, RejectDestination, FailAttempt,
                PassAttempt, Verdict
  <2>4. Selected' = Selected
    BY <2>2, <2>3 DEF Selected
  <2> QED BY <2>1, <2>4
<1>2. CASE Deadline \/ UNCHANGED vars
  BY <1>2 DEF Deadline, vars, lasting, persistent, checking, Selected
<1>3. ASSUME NEW s \in Sources, FetchStep(s)
      PROVE  /\ UNCHANGED <<pool, curated, checker, cache, phase, prev, label>>
             /\ Selected' = Selected
  BY <1>3 DEF FetchStep, TakeFetchSlot, Downloads, NotModified, Unavailable,
              lasting, persistent, checking, Selected
<1> QED BY <1>1, <1>2, <1>3

\* What Collect starts a check with.
LEMMA CollectChooses ==
  ASSUME RefreshInv, Collect, Deciding'
  PROVE  \E chosen \in Selections :
           /\ label' = Labelled \cap chosen
           /\ prev' = Existing
           /\ Selected' = chosen
           /\ UNCHANGED <<pool, curated, checker>>
           /\ \A s \in Sources : cache'[s].lines = Lines(s)
<1>1. PICK chosen \in Selections :
        /\ label' = Labelled \cap chosen
        /\ prev' = Existing
        /\ verdict' = [r \in Routes |->
             IF r \notin chosen THEN "unselected"
             ELSE IF checker THEN "queued" ELSE "accepted"]
  BY DEF Collect, Ends, Idle, Deciding
<1>2. chosen \in SUBSET Routes
  BY SelectionsAreCandidates, CandidatesAreRoutes DEF RefreshInv
<1>3. Selected' = chosen
  BY <1>1, <1>2 DEF Selected
<1>4. \A s \in Sources : cache'[s].lines = Lines(s)
  BY DEF Collect, Lines
<1>5. UNCHANGED <<pool, curated, checker>>
  BY DEF Collect, lasting, persistent
<1> QED BY <1>1, <1>3, <1>4, <1>5

\* Every step but these leaves no refresh in progress.
LEMMA StepsThatDecide ==
  ASSUME RefreshInv, [Next]_vars, Deciding'
  PROVE  \/ Collect
         \/ /\ Deciding
            /\ \/ \E r \in Routes : ProbeStep(r)
               \/ Deadline \/ UNCHANGED vars
               \/ \E s \in Sources : FetchStep(s)
               \/ Decide /\ UNCHANGED <<fetching, checking>>
<1>1. ~Begin /\ ~Replace /\ ~ReplaceFails /\ ~Crash
  BY DEF Deciding, Begin, Replace, ReplaceFails, Crash, Ends, Idle
<1>2. Decide => Deciding /\ UNCHANGED <<fetching, checking>>
  BY DEF Decide, Deciding, Ends, Idle
<1>3. ASSUME NEW r \in Routes, ProbeStep(r) PROVE Deciding
  BY <1>3 DEF ProbeStep, TakeSlot, Abandon, RejectDestination, FailAttempt, PassAttempt, Deciding
<1>4. ASSUME NEW s \in Sources, FetchStep(s) PROVE Deciding
  BY <1>4 DEF FetchStep, TakeFetchSlot, Downloads, NotModified, Unavailable, Deciding
<1>5. Deadline \/ UNCHANGED vars => Deciding
  BY DEF Deadline, vars, Deciding
<1> QED BY <1>1, <1>2, <1>3, <1>4, <1>5 DEF Next

\* The same for the decision to replace.
LEMMA DecideStays ==
  ASSUME Decide, UNCHANGED <<fetching, checking>>
  PROVE  /\ UNCHANGED <<pool, curated, checker, cache, prev, label>>
         /\ Selected' = Selected
  BY DEF Decide, checking, lasting, persistent, Selected

-----------------------------------------------------------------------------
LEMMA CandidateStep == RefreshInv /\ CandidateInv /\ [Next]_vars => CandidateInv'
<1> SUFFICES ASSUME RefreshInv, CandidateInv, [Next]_vars, Deciding' PROVE CandidateInv'
  BY DEF CandidateInv
<1>1. CASE Collect
  <2>1. PICK chosen \in Selections :
          /\ label' = Labelled \cap chosen
          /\ Selected' = chosen
          /\ UNCHANGED <<pool, curated, checker>>
          /\ \A s \in Sources : cache'[s].lines = Lines(s)
    BY <1>1, CollectChooses
  <2>2. chosen \subseteq Existing \cup Incoming
    BY SelectionsAreCandidates DEF RefreshInv
  <2>3. ASSUME checker', NEW r \in chosen,
               (r \in pool /\ r \in curated) \/ \E s \in Preferred : r \in cache'[s].lines
        PROVE  r \in label'
    BY <2>1, <2>3, RefreshAssumption DEF Labelled, Existing, ListedBy
  <2>4. ASSUME ~checker', NEW r \in chosen PROVE \E s \in Sources : r \in cache'[s].lines
    BY <2>1, <2>2, <2>4 DEF Existing, Incoming, ListedBy
  <2> QED BY <2>1, <2>3, <2>4 DEF CandidateInv
<1>2. CASE Deciding /\ UNCHANGED <<pool, curated, checker, cache, prev, label>>
           /\ Selected' = Selected
  BY <1>2 DEF CandidateInv
<1> QED BY <1>1, <1>2, StepsThatDecide, CandidatesStay, DecideStays

THEOREM CandidateInvHolds == Spec => [](RefreshInv /\ CandidateInv)
<1>1. Init => CandidateInv
  BY DEF Init, CandidateInv, Deciding
<1> QED BY <1>1, RefreshInvHolds, CandidateStep, PTL DEF Spec

\* A route that stays published keeps a curated label, and a route a curated feed
\* lists, or listed before it became unavailable, gets one, for any feeds and routes.
THEOREM CuratedLabelsAreKept == Spec => CuratedLabelIsKept
<1> DEFINE LabelKept == checker /\ Published =>
      \A r \in pool' :
        (r \in pool /\ r \in curated) \/ (\E s \in Preferred : r \in cache[s].lines)
          => r \in curated'
<1>1. RefreshInv /\ CandidateInv /\ [Next]_vars => [LabelKept]_vars
  <2> SUFFICES ASSUME RefreshInv, CandidateInv, Next, checker, Published, NEW r \in pool',
                      (r \in pool /\ r \in curated) \/ (\E s \in Preferred : r \in cache[s].lines)
               PROVE  r \in curated'
    OBVIOUS
  <2>1. Replace
    BY PublishedIsReplace
  <2>2. r \in Selected
    BY <2>1 DEF Replace, Kept, With, Selected
  <2>3. r \in label
    BY <2>1, <2>2 DEF CandidateInv, Deciding, Replace
  <2> QED BY <2>1, <2>3 DEF Replace
<1> QED BY CandidateInvHolds, <1>1, PTL DEF CuratedLabelIsKept, Spec

\* A worker without a checker publishes nothing that no feed lists any more.
THEOREM UncheckedListsOnly == Spec => UncheckedIsListed
<1> DEFINE Listed == ~checker /\ Published =>
                       \A r \in pool' : \E s \in Sources : r \in cache[s].lines
<1>1. RefreshInv /\ CandidateInv /\ [Next]_vars => [Listed]_vars
  <2> SUFFICES ASSUME RefreshInv, CandidateInv, Next, ~checker, Published, NEW r \in pool'
               PROVE  \E s \in Sources : r \in cache[s].lines
    OBVIOUS
  <2>1. Replace
    BY PublishedIsReplace
  <2>2. r \in Selected
    BY <2>1 DEF Replace, Kept, With, Selected
  <2> QED BY <2>1, <2>2 DEF CandidateInv, Deciding, Replace
<1> QED BY CandidateInvHolds, <1>1, PTL DEF UncheckedIsListed, Spec

-----------------------------------------------------------------------------
\* With a limit that holds the pool, every selection contains it.
LEMMA PoolIsSelected ==
  ASSUME LimitHoldsThePool, TypeOK, Cardinality(pool) <= PoolCap, checker,
         NEW chosen \in Selections
  PROVE  pool \subseteq chosen
<1>1. Existing = pool
  BY DEF Existing
<1>2. Cardinality(pool) \in Nat
  BY FS_CardinalityType, FS_Subset, RefreshAssumption DEF TypeOK
<1>3. MaxCandidates # 0 => ~(Cardinality(Existing) > MaxCandidates)
  BY <1>1, <1>2, RefreshAssumption DEF LimitHoldsThePool
<1> QED BY <1>1, <1>3 DEF Selections

LEMMA PoolStep ==
  ASSUME LimitHoldsThePool
  PROVE  RefreshInv /\ PoolInv /\ [Next]_vars => PoolInv'
<1> SUFFICES ASSUME RefreshInv, PoolInv, [Next]_vars PROVE PoolInv'
  OBVIOUS
<1>1. Cardinality(pool') <= PoolCap
  <2>1. CASE UNCHANGED pool
    BY <2>1 DEF PoolInv
  <2>2. CASE Replace
    BY <2>2 DEF Replace, Kept
  <2>3. Replace \/ UNCHANGED pool
    BY DEF Next, vars, lasting, persistent, Begin, Collect, Decide, ReplaceFails, Deadline,
           Crash, FetchStep, TakeFetchSlot, Downloads, NotModified, Unavailable,
           ProbeStep, TakeSlot, Abandon, RejectDestination, FailAttempt, PassAttempt
  <2> QED BY <2>1, <2>2, <2>3
<1>2. ASSUME checker', Deciding' PROVE pool' \subseteq Selected' /\ prev' = pool'
  <2>1. CASE Collect
    <3>1. PICK chosen \in Selections :
            prev' = Existing /\ Selected' = chosen /\ UNCHANGED <<pool, checker>>
      BY <1>2, <2>1, CollectChooses
    <3> QED BY <1>2, <3>1, PoolIsSelected DEF RefreshInv, PoolInv, Existing
  <2>2. CASE Deciding /\ UNCHANGED <<pool, checker, prev>> /\ Selected' = Selected
    BY <1>2, <2>2 DEF PoolInv
  <2> QED BY <1>2, <2>1, <2>2, StepsThatDecide, CandidatesStay, DecideStays
<1> QED BY <1>1, <1>2 DEF PoolInv

THEOREM PoolInvHolds ==
  ASSUME LimitHoldsThePool
  PROVE  Spec => [](RefreshInv /\ PoolInv)
<1>1. Init => PoolInv
  BY DEF Init, PoolInv, Deciding, LimitHoldsThePool
<1>2. RefreshInv /\ PoolInv /\ [Next]_vars => PoolInv'
  BY PoolStep
<1> QED BY <1>1, <1>2, RefreshInvHolds, PTL DEF Spec

\* Where routes accepted are left out, the pool is full or at its useful floor.
LEMMA LeftOutOfFullPool ==
  ASSUME TypeOK, NEW kept \in Kept(With("accepted")), NEW r \in With("accepted"), r \notin kept
  PROVE  Cardinality(kept) >= Least(PoolCap, UsefulFloor)
<1> DEFINE accepted == With("accepted")
<1>1. IsFiniteSet(accepted) /\ kept \in SUBSET accepted
  BY FS_Subset, RefreshAssumption DEF With, Kept
<1>2. IsFiniteSet(kept) /\ Cardinality(kept) < Cardinality(accepted)
  <2>1. IsFiniteSet(kept) /\ Cardinality(kept) <= Cardinality(accepted)
    BY <1>1, FS_Subset
  <2>2. Cardinality(kept) # Cardinality(accepted)
    BY <1>1, FS_Subset
  <2>3. Cardinality(kept) \in Nat /\ Cardinality(accepted) \in Nat
    BY <1>1, <2>1, FS_CardinalityType
  <2> QED BY <2>1, <2>2, <2>3
<1>3. Cardinality(kept) \in Nat /\ Cardinality(accepted) \in Nat
  BY <1>1, <1>2, FS_CardinalityType
<1>4. Cardinality(kept) >= Least(PoolCap, Least(UsefulFloor, Cardinality(accepted)))
  BY DEF Kept
<1> QED BY <1>2, <1>3, <1>4, RefreshAssumption DEF Least

\* A published route leaves the catalog only for a reason its refresh found, for any
\* feeds and routes, where the limit holds every catalog that may be published.  (With a
\* smaller limit Selections samples the catalog itself.)
THEOREM EvictionsAreEarned ==
  ASSUME LimitHoldsThePool
  PROVE  Spec => EvictionIsEarned
<1> DEFINE AllEarned == checker => \A r \in pool \ pool' : exit[r] = "unknown" \/ Earned(r)
<1>1. RefreshInv /\ PoolInv /\ [Next]_vars => [AllEarned]_vars
  <2> SUFFICES ASSUME RefreshInv, PoolInv, Next, checker, NEW r \in pool \ pool'
               PROVE  exit[r] = "unknown" \/ Earned(r)
    OBVIOUS
  <2>1. Replace
    BY DEF Next, vars, lasting, persistent, Begin, Collect, Decide, ReplaceFails, Deadline,
           Crash, FetchStep, TakeFetchSlot, Downloads, NotModified, Unavailable,
           ProbeStep, TakeSlot, Abandon, RejectDestination, FailAttempt, PassAttempt
  <2>2. phase = "replace" /\ pool' \in Kept(With("accepted"))
    BY <2>1 DEF Replace
  <2>3. r \in Routes /\ r \in prev /\ r \in Selected
    BY <2>2 DEF PoolInv, Deciding, Selected
  <2>4. verdict[r] \in Judged /\ late = {}
    BY <2>2, <2>3 DEF RefreshInv, LateInv, CheckIsOver
  <2>5. CASE verdict[r] \in {"connectivity", "excluded", "destination"}
    BY <2>3, <2>4, <2>5 DEF RefreshInv, AttemptInv, Attempts, Earned
  <2>6. CASE verdict[r] = "accepted"
    <3>1. r \in With("accepted") /\ r \notin pool'
      BY <2>3, <2>6 DEF With
    <3> QED BY <2>2, <2>6, <3>1, LeftOutOfFullPool DEF RefreshInv, Earned
  <2> QED BY <2>4, <2>5, <2>6 DEF Judged
<1>2. Spec => [](RefreshInv /\ PoolInv)
  BY PoolInvHolds
<1> QED BY <1>1, <1>2, PTL DEF EvictionIsEarned, Spec
=============================================================================
